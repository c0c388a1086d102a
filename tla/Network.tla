------------------------------- MODULE Network -------------------------------
(***************************************************************************)
(* How a node finds its peers: the swarm a session builds from its         *)
(* settings, the addresses it dials, the peers it remembers (in the file   *)
(* known_peers.json and in the table known_peers), and mDNS.               *)
(*                                                                         *)
(* mDNS tells of a peer at each of its addresses.  Where a node dials or   *)
(* remembers a peer, the peer stands for the one address it does that at;  *)
(* addresses parse.  The profile is always the same one, and the built-in  *)
(* list of community nodes is empty.                                       *)
(***************************************************************************)
EXTENDS Integers, FiniteSetsExt

CONSTANTS
  Peer,
  Address,    \* what mDNS may announce a peer at
  User,       \* the user's bootstrap addresses
  Env,        \* ALTERCHAT_BOOTSTRAP
  Proxy,      \* the modes of ProxyConfig: "direct", "tor", "socks5", "i2p"
  Week,       \* the age at which a known peer is forgotten
  DialLimit,  \* load_known_peers: LIMIT 200
  Never,      \* no last_seen
  MaxTime     \* bound: the clock

ASSUME NetworkAssumption ==
  /\ User \subseteq Peer /\ Env \subseteq Peer /\ {"direct", "tor"} \subseteq Proxy
  /\ Week \in Nat /\ DialLimit \in Nat /\ MaxTime \in Nat

VARIABLES
  now,
  config,      \* the stored settings
  open,        \* conn_opt
  session,     \* the swarm: how it is built, what it dialled and when
  mdnsEnabled, \* mdns_enabled of the loop
  steady,      \* mdns_enabled has been TRUE since the session began
  announced,   \* the pairs of a peer and an address mDNS reported and not expired
  lapsed,      \* announced peers, an address of whom expired since the last report
  explicit,    \* gossipsub's explicit peers
  knownFile,   \* known_peers.json
  lastSeen     \* the rows of known_peers

vars == <<now, config, open, session, mdnsEnabled, steady, announced, lapsed, explicit,
          knownFile, lastSeen>>
mdnsState == <<mdnsEnabled, steady, announced, lapsed, explicit>>
disk == <<knownFile, lastSeen>>

Preference == {"tcp", "quic", "tor"}
Transport == {"tor", "quic", "tcp"}
Config == [tor_enabled : BOOLEAN, proxy : Proxy, preference : Preference, mdns : BOOLEAN]

Session ==
  [transport : Transport, proxy : Proxy, listens : {"tcp", "quic", "no"}, dialled : SUBSET Peer,
   remembered : SUBSET Peer]
NoSession ==
  [transport |-> "tcp", proxy |-> "direct", listens |-> "no", dialled |-> {}, remembered |-> {}]

Init ==
  /\ now = 0 /\ open = FALSE /\ session = NoSession
  /\ config = [tor_enabled |-> FALSE, proxy |-> "direct", preference |-> "tcp", mdns |-> TRUE]
  /\ mdnsEnabled = TRUE /\ steady = TRUE /\ announced = {} /\ lapsed = {} /\ explicit = {}
  /\ knownFile = {} /\ lastSeen = [p \in Peer |-> Never]

Tick ==
  /\ now < MaxTime /\ now' = now + 1
  /\ UNCHANGED <<config, open, session, mdnsState, disk>>

(***************************************************************************)
(* The settings of the session's swarm.                                    *)
(***************************************************************************)
ProxyMode(c) == IF c.tor_enabled THEN "tor" ELSE c.proxy

SwarmTransport(c) ==   \* "i2p" and "socks5" go over plain TCP
  IF ProxyMode(c) = "tor" THEN "tor" ELSE IF c.preference = "quic" THEN "quic" ELSE "tcp"

EffectiveBootstrapAddrs == User \cup Env

CreateSwarmDials(c) ==
  IF SwarmTransport(c) = "tcp" THEN EffectiveBootstrapAddrs \cup knownFile ELSE {}

SaveKnownPeers == knownFile' = knownFile   \* over TCP: what was loaded is saved again

ListenOn(c) ==
  IF c.preference = "quic" THEN "quic"
  ELSE IF ProxyMode(c) = "direct" /\ c.preference = "tcp" THEN "tcp" ELSE "no"

(***************************************************************************)
(* The table known_peers.                                                  *)
(***************************************************************************)
CleanupOldPeersMutant == lastSeen   \* forgets nobody

CleanupOldPeers == [p \in Peer |-> IF lastSeen[p] # Never /\ lastSeen[p] < now - Week
                                   THEN Never ELSE lastSeen[p]]

Latest(known, some) == \A p \in some, q \in known \ some : lastSeen[p] >= lastSeen[q]

LoadKnownPeers(some) ==   \* some: what the ordered query may return
  LET known == {p \in Peer : CleanupOldPeers[p] # Never}
  IN  /\ some \subseteq known /\ Latest(known, some)
      /\ Cardinality(some) = Min({DialLimit, Cardinality(known)})

UserBootstrap == User

(***************************************************************************)
(* A login.  Only a process that has a database open already reads the     *)
(* table.                                                                  *)
(***************************************************************************)
StartSession(remembered) ==
  /\ IF open
     THEN LoadKnownPeers(remembered) /\ lastSeen' = CleanupOldPeers
     ELSE remembered = {} /\ UNCHANGED lastSeen
  /\ session' = [transport |-> SwarmTransport(config), proxy |-> ProxyMode(config),
                 listens |-> ListenOn(config),
                 dialled |-> CreateSwarmDials(config) \cup remembered \cup UserBootstrap,
                 remembered |-> remembered]
  /\ SaveKnownPeers
  /\ mdnsEnabled' = config.mdns /\ steady' = config.mdns
  /\ announced' = {} /\ lapsed' = {} /\ explicit' = {}
  /\ open' = TRUE
  /\ UNCHANGED <<now, config>>

SaveSettings(c) ==
  /\ open /\ config' = c /\ mdnsEnabled' = c.mdns /\ steady' = (steady /\ c.mdns)
  /\ UNCHANGED <<now, open, session, announced, lapsed, explicit, disk>>

(***************************************************************************)
(* Events of the swarm.                                                    *)
(***************************************************************************)
Peers(list) == {pair[1] : pair \in list}

MdnsDiscovered(list) ==
  /\ open /\ list \cap announced = {} /\ announced' = announced \cup list
  /\ lapsed' = lapsed \ Peers(list)
  /\ explicit' = IF mdnsEnabled THEN explicit \cup Peers(list) ELSE explicit
  /\ UNCHANGED <<now, config, open, session, mdnsEnabled, steady, disk>>

MdnsExpiredMutant(list) ==   \* gossip keeps the peers
  /\ open /\ list \subseteq announced /\ announced' = announced \ list
  /\ lapsed' = (lapsed \cup Peers(list)) \cap Peers(announced')
  /\ UNCHANGED <<now, config, open, session, mdnsEnabled, steady, explicit, disk>>

MdnsExpired(list) ==   \* the peer goes with any of its addresses
  /\ open /\ list \subseteq announced /\ announced' = announced \ list
  /\ lapsed' = (lapsed \cup Peers(list)) \cap Peers(announced')
  /\ explicit' = IF mdnsEnabled THEN explicit \ Peers(list) ELSE explicit
  /\ UNCHANGED <<now, config, open, session, mdnsEnabled, steady, disk>>

IdentifyReceivedMutant(p) ==   \* in another unit of time
  /\ open /\ lastSeen' = [lastSeen EXCEPT ![p] = 1000 * now]
  /\ UNCHANGED <<now, config, open, session, mdnsState, knownFile>>

IdentifyReceived(p) ==   \* one listen address
  /\ open /\ lastSeen' = [lastSeen EXCEPT ![p] = now]
  /\ UNCHANGED <<now, config, open, session, mdnsState, knownFile>>

Restart ==   \* the process ends, and starts again
  /\ open /\ open' = FALSE /\ session' = NoSession
  /\ mdnsEnabled' = TRUE /\ steady' = TRUE /\ announced' = {} /\ lapsed' = {} /\ explicit' = {}
  /\ UNCHANGED <<now, config, disk>>

Next ==
  \/ Tick
  \/ Restart
  \/ \E some \in SUBSET Peer : StartSession(some)
  \/ \E c \in Config : SaveSettings(c)
  \/ \E list \in SUBSET (Peer \X Address) : MdnsDiscovered(list) \/ MdnsExpired(list)
  \/ \E p \in Peer : IdentifyReceived(p)

Spec == Init /\ [][Next]_vars
-----------------------------------------------------------------------------
TypeOK ==
  /\ now \in 0 .. MaxTime /\ config \in Config /\ open \in BOOLEAN /\ session \in Session
  /\ mdnsEnabled \in BOOLEAN /\ steady \in BOOLEAN
  /\ announced \subseteq Peer \X Address /\ lapsed \subseteq Peer
  /\ explicit \subseteq Peer /\ knownFile \subseteq Peer
  /\ lastSeen \in [Peer -> 0 .. MaxTime \cup {Never}]

(* However discovery, expiry and new sessions interleave, gossip has as     *)
(* explicit peers exactly those mDNS still announces, as long as mDNS was   *)
(* on throughout, but for a peer that lost one of several addresses: it is  *)
(* out until it is reported again.  (Switched off, the handlers miss        *)
(* expiries.)                                                               *)
ExplicitAreAnnounced == steady => explicit = Peers(announced) \ lapsed

(* A remembered peer that is dialled was heard of within the week, and      *)
(* before every one that is not: the limit cuts off the oldest.             *)
RememberedAreRecent ==
  [][session' # session =>
       \A p \in session'.remembered :
         /\ lastSeen[p] # Never /\ now - lastSeen[p] <= Week
         /\ \A q \in Peer \ session'.remembered :
              lastSeen[q] # Never => lastSeen[q] <= lastSeen[p]]_vars

(* The same without the exception: a peer stays explicit as long as it is   *)
(* announced at some address.                                              *)
AnnouncedAreExplicit == steady => explicit = Peers(announced)

(* CHANGELOG.md:21: "Peer list persistence across restarts                  *)
(* (`~/.alterchat/known_peers.json`)".  Who is known when the process ends  *)
(* is in the file.                                                          *)
FileRemembersPeers ==
  [][open /\ ~open' => {p \in Peer : lastSeen[p] # Never} \subseteq knownFile]_vars

(* README.md:339: "These addresses are merged with the hardcoded            *)
(* `COMMUNITY_BOOTSTRAP_ADDRS` list at startup."  So a session dials them.  *)
EnvAddrsDialled == session # NoSession => Env \subseteq session.dialled
=============================================================================
