---------------------------- MODULE Revocations ----------------------------
(***************************************************************************)
(* Revoked invites: the table revoked_invites, the announcements gossiped  *)
(* on a topic of their own, and the list each room has in the DHT.         *)
(*                                                                         *)
(* An announcement names a revoker and carries no signature (it is          *)
(* vec![]); whoever gossips it, a receiver enters the name as it comes.     *)
(* The errors of the database are dropped: a mark that fails is announced.  *)
(*                                                                         *)
(* The table room_invites, where revoke_invite sets a flag, has no rows:   *)
(* the commands that write them answer "Not logged in".  Nobody reads the  *)
(* list in the DHT, and the process may end at any time; the table stays.  *)
(***************************************************************************)
CONSTANTS
  Node,
  Invite,
  Topic,             \* rooms are topics
  REVOCATION_TOPIC,  \* and so is this, which may be typed as the name of a room
  Global,            \* "alterchat-global", the topic a process starts with
  None

VARIABLES
  up,          \* the nodes with a session
  topic,       \* topic[n]: the room n is in
  subscribed,  \* subscribed[n]: what its swarm listens to
  revoked,     \* revoked[n][i]: who revoked i, or None
  announced,   \* the announcements; any may be lost, late or come again
  dht          \* dht[t]: the last list that was put for the room

revocationsVars == <<up, topic, subscribed, revoked, announced, dht>>

Room == Topic \cup {Global}

Revoked(n) == {i \in Invite : revoked[n][i] # None}

RevocationsInit ==
  /\ up = {} /\ topic = [n \in Node |-> Global] /\ subscribed = [n \in Node |-> {}]
  /\ revoked = [n \in Node |-> [i \in Invite |-> None]]
  /\ announced = {} /\ dht = [t \in Room |-> {}]

(* StartSession makes a new swarm.                                          *)
StartSession(n) ==
  /\ up' = up \cup {n}
  /\ subscribed' = [subscribed EXCEPT ![n] = {topic[n], REVOCATION_TOPIC}]
  /\ UNCHANGED <<topic, revoked, announced, dht>>

Restart(n) ==
  /\ up' = up \ {n} /\ topic' = [topic EXCEPT ![n] = Global]
  /\ subscribed' = [subscribed EXCEPT ![n] = {}]
  /\ UNCHANGED <<revoked, announced, dht>>

JoinChannel(n, t) ==
  /\ n \in up /\ topic' = [topic EXCEPT ![n] = t]
  /\ subscribed' = [subscribed EXCEPT ![n] = (@ \ {topic[n]}) \cup {t}]
  /\ UNCHANGED <<up, revoked, announced, dht>>

(* The name is "anon_" and a hash.  Works without a session too, and stays  *)
(* subscribed to the room before.                                           *)
JoinAnonymousChannel(n, t) ==
  /\ t \notin {Global, REVOCATION_TOPIC} /\ topic' = [topic EXCEPT ![n] = t]
  /\ subscribed' = [subscribed EXCEPT ![n] = IF n \in up THEN @ \cup {t} ELSE @]
  /\ UNCHANGED <<up, revoked, announced, dht>>

MarkRevoked(n, i, by) ==   \* ON CONFLICT DO NOTHING
  revoked' = [revoked EXCEPT ![n][i] = IF @ = None THEN by ELSE @]

(* The list is put when the table can be read.                              *)
PutList(n, t, listed) == dht' = IF listed THEN [dht EXCEPT ![t] = Revoked(n)'] ELSE dht

RevokeInviteGlobal(n, i, marked, listed) ==
  /\ n \in up /\ IF marked THEN MarkRevoked(n, i, n) ELSE UNCHANGED revoked
  /\ announced' = announced \cup {[from |-> n, invite |-> i, by |-> n]}
  /\ PutList(n, topic[n], listed)
  /\ UNCHANGED <<up, topic, subscribed>>

PublishRoomRevocations(n, t, listed) ==
  /\ n \in up /\ UNCHANGED <<up, topic, subscribed, revoked, announced>>
  /\ PutList(n, t, listed)

(* Another program on the topic, which may name any node.                   *)
ForeignAnnouncement(i, by) ==
  /\ announced' = announced \cup {[from |-> None, invite |-> i, by |-> by]}
  /\ UNCHANGED <<up, topic, subscribed, revoked, dht>>

(* gossipsub does not deliver what the node itself published.               *)
ReceiveAnnouncement(n, a, marked) ==
  /\ n \in up /\ REVOCATION_TOPIC \in subscribed[n] /\ a.from # n
  /\ IF marked THEN MarkRevoked(n, a.invite, a.by) ELSE UNCHANGED revoked
  /\ UNCHANGED <<up, topic, subscribed, announced, dht>>

RevocationsNext ==
  \/ \E n \in Node : StartSession(n) \/ Restart(n)
  \/ \E n \in Node, t \in Room : JoinChannel(n, t) \/ JoinAnonymousChannel(n, t)
  \/ \E n \in Node, t \in Room, listed \in BOOLEAN : PublishRoomRevocations(n, t, listed)
  \/ \E n \in Node, i \in Invite, marked, listed \in BOOLEAN :
       RevokeInviteGlobal(n, i, marked, listed)
  \/ \E i \in Invite, by \in Node : ForeignAnnouncement(i, by)
  \/ \E n \in Node, a \in announced, marked \in BOOLEAN : ReceiveAnnouncement(n, a, marked)

RevocationsSpec == RevocationsInit /\ [][RevocationsNext]_revocationsVars
-----------------------------------------------------------------------------
RevocationsTypeOK ==
  /\ up \subseteq Node /\ topic \in [Node -> Room]
  /\ subscribed \in [Node -> SUBSET (Room \cup {REVOCATION_TOPIC})]
  /\ revoked \in [Node -> [Invite -> Node \cup {None}]]
  /\ announced \subseteq [from : Node \cup {None}, invite : Invite, by : Node]
  /\ dht \in [Room -> SUBSET Invite]

(* What a table says was said: a revocation is in it in the name of the     *)
(* node itself or of whoever an announcement named, and no restart, lost or *)
(* repeated announcement or later revoker changes the name.                 *)
RevokedWasAnnounced ==
  \A n \in Node, i \in Invite :
    revoked[n][i] # None => \E a \in announced : a.invite = i /\ a.by = revoked[n][i]

(* What a room's list in the DHT names is revoked at some node.             *)
ListedIsRevoked == \A t \in Room : \A i \in dht[t] : \E n \in Node : i \in Revoked(n)

(* A node with a session hears the room it is in.                           *)
HearsItsRoom == \A n \in up : topic[n] \in subscribed[n]

RevocationInv == RevocationsTypeOK /\ RevokedWasAnnounced /\ ListedIsRevoked /\ HearsItsRoom

(* THREAT_MODEL.md:112: "revocation announcements are signed and verified". *)
(* Then whoever is named as the revoker of an invite announced it.          *)
RevokerAnnounced ==
  \A n \in Node, i \in Invite : revoked[n][i] # None =>
    \E a \in announced : a.invite = i /\ a.from = revoked[n][i]

(* A node that announced a revocation has it in its own table.              *)
RevokerKnows == \A a \in announced : a.from \in Node => a.invite \in Revoked(a.from)

(* lib.rs:1011: "Revokasyon topic'ini her zaman dinle" (always listen to    *)
(* the revocation topic).                                                   *)
AlwaysListens == \A n \in up : REVOCATION_TOPIC \in subscribed[n]

=============================================================================
