---------------------------- MODULE OnionMessages ---------------------------
(***************************************************************************)
(* Direct messages that travel through an onion of one relay, and the      *)
(* symmetric ratchet of the deprecated message format, which is what the   *)
(* last hop of an onion and the legacy handler accept.                     *)
(*                                                                         *)
(* A node of an older version sends the deprecated format; nodes of this   *)
(* version send the double ratchet's, which DirectMessages models.  A      *)
(* layer opens for the node it was wrapped for.  Requests are lost and     *)
(* overtake each other.                                                    *)
(***************************************************************************)
EXTENDS Integers, Sequences, SequencesExt

CONSTANTS
  Node,     \* ordered, as peer ids are
  Older,    \* those of an older version
  MaxSent   \* bound: the messages sent

ASSUME OnionAssumption == Node \subseteq Nat /\ Older \subseteq Node /\ MaxSent \in Nat

VARIABLES
  friends,    \* friends[n]: with their keys, not blocked
  sent,       \* the messages, by their number
  sendCount,  \* RatchetState.send_count of n towards m
  recvCount,  \* RatchetState.recv_count of n for m, where its chain is too
  net,        \* the requests under way
  shown,      \* shown[n]: the messages shown, in order
  missed,     \* those lost, refused or overtaken
  undone      \* a save_ratchet_state was lost

onionVars == <<friends, sent, sendCount, recvCount, net, shown, missed, undone>>

Msg == [id : 1 .. MaxSent, from : Node, to : Node, format : {"x3dh", "legacy"},
        chain : {"low_to_high", "high_to_low"}, counter : 0 .. MaxSent]
Request == [from : Node, to : Node, onion : BOOLEAN, route : UNION {[1 .. k -> Node] : k \in 0 .. 2},
            msg : Msg]

Pairs(v) == [n \in Node |-> [m \in Node |-> v]]

OnionInit ==
  /\ friends = [n \in Node |-> Node \ {n}] /\ sent = 0
  /\ sendCount = Pairs(0) /\ recvCount = Pairs(0)
  /\ net = {} /\ shown = [n \in Node |-> <<>>] /\ missed = {} /\ undone = FALSE

RemoveFriend(n, m) ==
  /\ m \in friends[n] /\ friends' = [friends EXCEPT ![n] = @ \ {m}]
  /\ UNCHANGED <<sent, sendCount, recvCount, net, shown, missed, undone>>

(***************************************************************************)
(* RatchetState::for_peer_pair: which chain is whose.                      *)
(***************************************************************************)
SendChain(local, remote) == IF local <= remote THEN "low_to_high" ELSE "high_to_low"

RecvChain(local, remote) == IF local <= remote THEN "high_to_low" ELSE "low_to_high"

(***************************************************************************)
(* Sending: through a relay if one is to be had, otherwise directly.       *)
(***************************************************************************)
WrapOnion(relay, to) == <<relay, to>>

Relays(n, to) == friends[n] \ {to}

Send(n, to, use_onion, relay) ==
  LET msg == [id |-> sent + 1, from |-> n, to |-> to,
              format |-> IF n \in Older THEN "legacy" ELSE "x3dh",
              chain |-> SendChain(n, to), counter |-> sendCount[n][to]]
  IN  /\ sent < MaxSent /\ to \in friends[n] /\ sent' = sent + 1
      /\ sendCount' = [sendCount EXCEPT ![n][to] = @ + 1]
      /\ net' = net \cup
           {IF use_onion /\ Relays(n, to) # {}
            THEN [from |-> n, to |-> relay, onion |-> TRUE, route |-> WrapOnion(relay, to), msg |-> msg]
            ELSE [from |-> n, to |-> to, onion |-> FALSE, route |-> <<>>, msg |-> msg]}
      /\ Relays(n, to) # {} => relay \in Relays(n, to)
      /\ UNCHANGED <<friends, recvCount, shown, missed, undone>>

(***************************************************************************)
(* ratchet_decrypt: the chain is advanced to the message, never back.      *)
(***************************************************************************)
RatchetDecryptsMutant(n, msg) == msg.chain = RecvChain(n, msg.from)   \* whatever its number

RatchetDecrypts(n, msg) ==
  /\ msg.chain = RecvChain(n, msg.from)
  /\ msg.counter >= recvCount[n][msg.from]

Show(n, msg) == shown' = [shown EXCEPT ![n] = Append(@, msg)]

(***************************************************************************)
(* Shown first, then the ratchet is saved, or is not.                      *)
(***************************************************************************)
RatchetPrivateMessage(n, msg, saved) ==
  IF msg.from \in friends[n] /\ RatchetDecrypts(n, msg)
  THEN /\ Show(n, msg)
       /\ recvCount' = IF saved THEN [recvCount EXCEPT ![n][msg.from] = msg.counter + 1] ELSE recvCount
       /\ undone' = (undone \/ ~saved)
       /\ UNCHANGED missed
  ELSE missed' = missed \cup {msg} /\ UNCHANGED <<shown, recvCount, undone>>

X3dhDm(n, msg) ==   \* DirectMessages says when it decrypts
  IF msg.from \in friends[n]
  THEN Show(n, msg) /\ UNCHANGED <<recvCount, missed, undone>>
  ELSE missed' = missed \cup {msg} /\ UNCHANGED <<shown, recvCount, undone>>

(***************************************************************************)
(* OnionForward, acknowledged before it is opened: a packet for another    *)
(* node is dropped, a layer with a next hop is forwarded, and the last one *)
(* is for this node.  Only the deprecated format is handled there.         *)
(***************************************************************************)
ForwardMutant(n, r) == {}   \* acknowledged, and that is all

Forward(n, r) ==
  {[from |-> n, to |-> r.route[2], onion |-> TRUE, route |-> Tail(r.route), msg |-> r.msg]}

PeelOnion(n, r, saved) ==
  IF r.route[1] # n
  THEN UNCHANGED <<shown, recvCount, undone, missed>> /\ net' = net \ {r}
  ELSE IF Len(r.route) > 1
  THEN UNCHANGED <<shown, recvCount, undone, missed>> /\ net' = (net \ {r}) \cup Forward(n, r)
  ELSE /\ net' = net \ {r}
       /\ IF r.msg.format = "legacy" THEN RatchetPrivateMessage(n, r.msg, saved)
          ELSE UNCHANGED <<shown, recvCount, undone, missed>>

Handle(n, r, saved) ==
  /\ r \in net /\ r.to = n
  /\ IF r.from \notin friends[n]
     THEN /\ missed' = missed \cup {r.msg} /\ net' = net \ {r}
          /\ UNCHANGED <<shown, recvCount, undone>>
     ELSE IF r.onion
     THEN PeelOnion(n, r, saved)
     ELSE /\ net' = net \ {r}
          /\ IF r.msg.format = "legacy" THEN RatchetPrivateMessage(n, r.msg, saved)
             ELSE X3dhDm(n, r.msg)
  /\ UNCHANGED <<friends, sent, sendCount>>

Lose(r) ==
  /\ net' = net \ {r} /\ missed' = missed \cup {r.msg}
  /\ UNCHANGED <<friends, sent, sendCount, recvCount, shown, undone>>

OnionNext ==
  \/ \E n, m \in Node : RemoveFriend(n, m)
  \/ \E n, to, relay \in Node, use_onion \in BOOLEAN : Send(n, to, use_onion, relay)
  \/ \E n \in Node, r \in net, saved \in BOOLEAN : Handle(n, r, saved)
  \/ \E r \in net : Lose(r)

OnionSpec == OnionInit /\ [][OnionNext]_onionVars
-----------------------------------------------------------------------------
OnionTypeOK ==
  /\ friends \in [Node -> SUBSET Node] /\ sent \in 0 .. MaxSent
  /\ sendCount \in [Node -> [Node -> 0 .. MaxSent]]
  /\ recvCount \in [Node -> [Node -> 0 .. MaxSent]]
  /\ net \subseteq Request /\ shown \in [Node -> Seq(Msg)] /\ missed \subseteq Msg
  /\ undone \in BOOLEAN

(* Through whichever relays and in whatever order they come, a sender's     *)
(* legacy messages are shown in the order written, none twice, unless the   *)
(* ratchet's state was not saved.                                           *)
ShownInOrder ==
  ~undone =>
    \A n \in Node : \A i, j \in 1 .. Len(shown[n]) :
      /\ i < j /\ shown[n][i].from = shown[n][j].from
      /\ shown[n][i].format = "legacy" /\ shown[n][j].format = "legacy"
      => shown[n][i].counter < shown[n][j].counter

(* A legacy message that no node lost, refused or had passed by is under    *)
(* way or shown by the node it was written to, relays or not.               *)
LegacyAccounted ==
  \A n \in Older, m \in Node : \A k \in 0 .. sendCount[n][m] - 1 :
    LET is(msg) == msg.from = n /\ msg.to = m /\ msg.counter = k
    IN  \/ \E r \in net : is(r.msg)
        \/ \E i \in 1 .. Len(shown[m]) : is(shown[m][i])
        \/ \E msg \in missed : is(msg)

(* ARCHITECTURE.md:344: "optional onion toggle for friend messages".  The   *)
(* same of this version's messages.                                         *)
OnionMessagesAccounted ==
  \A n \in Node \ Older, m \in Node : \A k \in 0 .. sendCount[n][m] - 1 :
    LET is(msg) == msg.from = n /\ msg.to = m /\ msg.counter = k
    IN  \/ \E r \in net : is(r.msg)
        \/ \E i \in 1 .. Len(shown[m]) : is(shown[m][i])
        \/ \E msg \in missed : is(msg)
=============================================================================
