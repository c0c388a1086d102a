------------------------------ MODULE RoomSync ------------------------------
(***************************************************************************)
(* Rooms: the Automerge document of crdt.rs and the event-loop handlers    *)
(* that open, extend, publish, merge and store it.                         *)
(*                                                                         *)
(* Room::new puts a list object "messages" at the root of an empty         *)
(* document.  Documents created independently hold different list objects  *)
(* under the same key; after a merge the key resolves to the one with the  *)
(* greatest operation id (Automerge's rule: counters are equal, so the     *)
(* greatest random actor id wins).  A list is a number in that order.      *)
(*                                                                         *)
(* derive_room_key is one-to-one, so a document encrypted for a room opens *)
(* exactly with that room's name and password.                             *)
(***************************************************************************)
EXTENDS FiniteSets, Integers, FiniteSetsExt

CONSTANTS
  Node,      \* profiles, each with its own database
  Name,      \* room names
  Global,    \* "alterchat-global", the room a process starts in
  Anon,      \* the names that JoinAnonymousChannel may generate
  Password,
  Open,      \* the password None of an open room
  Text,      \* one member for every message that may be written
  MaxLists,  \* bound: how many lists Room::new creates in a behaviour
  None

ASSUME RoomAssumption ==
  /\ Global \in Name \ Anon /\ Anon \subseteq Name /\ Open \in Password
  /\ MaxLists \in Nat /\ Cardinality(Node) <= MaxLists

VARIABLES
  room,     \* room[n]: the document in memory, with its name and password
  stored,   \* stored[n][r]: the blob in n's table rooms
  gossip,   \* the blobs published so far; any may be lost, or come late
  drawn,    \* the lists created so far
  written   \* every message ever added, with what its writer had then

vars == <<room, stored, gossip, drawn, written>>

ListId == 1 .. MaxLists

Doc == [lists: SUBSET ListId, msgs: SUBSET [list: ListId, text: Text]]

Blob == [name: Name, password: Password, doc: Doc]

NewDocMutant(list) == [lists |-> {}, msgs |-> {}]   \* put_object is forgotten

NewDoc(list) == [lists |-> {list}, msgs |-> {}]

Texts(doc) == {m.text : m \in doc.msgs}

MessagesList(doc) == Max(doc.lists)   \* doc.get(ROOT, "messages")

History(doc) == {m.text : m \in {x \in doc.msgs : x.list = MessagesList(doc)}}

Opens(blob, name, password) == blob.name = name /\ blob.password = password

(***************************************************************************)
(* load_room and Room::load, or else Room::new with a new list.            *)
(***************************************************************************)
Loadable(n, name, password) ==
  stored[n][name] # None /\ Opens(stored[n][name], name, password)

OpenRoom(n, name, password) ==
  IF Loadable(n, name, password)
  THEN /\ room' = [room EXCEPT ![n] = stored[n][name]]
       /\ UNCHANGED drawn
  ELSE \E list \in ListId \ drawn :
         /\ room' = [room EXCEPT ![n] =
                       [name |-> name, password |-> password, doc |-> NewDoc(list)]]
         /\ drawn' = drawn \cup {list}

Init ==
  /\ \E list \in [Node -> ListId] :
       /\ \A n, o \in Node : list[n] = list[o] => n = o
       /\ room = [n \in Node |->
                    [name |-> Global, password |-> Open, doc |-> NewDoc(list[n])]]
       /\ drawn = {list[n] : n \in Node}
  /\ stored = [n \in Node |-> [r \in Name |-> None]]
  /\ gossip = {}
  /\ written = {}

(***************************************************************************)
(* Init is the state after every node's first StartSession.                 *)
(*                                                                         *)
(* StartSession, in a new process (the global room) or again in a running  *)
(* one (the room that was current).  The password is always None.          *)
(***************************************************************************)
StartSession(n, name) ==
  /\ name \in {Global, room[n].name}
  /\ OpenRoom(n, name, Open)
  /\ UNCHANGED <<stored, gossip, written>>

(***************************************************************************)
(* JoinChannel.  An anonymous name holds a 64-bit hash of the time, so it   *)
(* is learned from someone who is there.                                   *)
(***************************************************************************)
JoinChannel(n, name, password) ==
  /\ name \in Anon => \E o \in Node : room[o].name = name
  /\ OpenRoom(n, name, password)
  /\ UNCHANGED <<stored, gossip, written>>

JoinAnonymousChannel(n, name) ==
  /\ name \in Anon
  /\ \A o \in Node : room[o].name # name /\ stored[o][name] = None
  /\ \E list \in ListId \ drawn :
       /\ room' = [room EXCEPT ![n] =
                     [name |-> name, password |-> Open, doc |-> NewDoc(list)]]
       /\ drawn' = drawn \cup {list}
  /\ UNCHANGED <<stored, gossip, written>>

(***************************************************************************)
(* SendMessage: add_message, save_room, publish.                           *)
(***************************************************************************)
Unwritten == {t \in Text : \A w \in written : w.text # t}

AddMessage(blob, t) ==
  [name |-> blob.name, password |-> blob.password,
   doc |-> [lists |-> blob.doc.lists,
            msgs |-> blob.doc.msgs \cup {[list |-> MessagesList(blob.doc), text |-> t]}]]

SaveRoom(n, name, blob) == stored' = [stored EXCEPT ![n][name] = blob]

SendMessage(n, t) ==
  /\ t \in Unwritten
  /\ room' = [room EXCEPT ![n] = AddMessage(@, t)]
  /\ SaveRoom(n, room[n].name, room'[n])
  /\ gossip' = gossip \cup {[from |-> n, blob |-> room'[n]]}
  /\ written' = written \cup {[text |-> t, by |-> n, name |-> room[n].name,
                               password |-> room[n].password,
                               past |-> Texts(room[n].doc)]}
  /\ UNCHANGED drawn

(***************************************************************************)
(* A Gossipsub message: Room::merge, and the received payload is saved.    *)
(* A payload of another room or password does not decrypt.                 *)
(***************************************************************************)
MergedMutant(doc, other) ==   \* only what the other document shows is taken over
  [lists |-> doc.lists \cup other.lists,
   msgs |-> doc.msgs \cup {m \in other.msgs : m.list = MessagesList(other)}]

Merged(doc, other) ==
  [lists |-> doc.lists \cup other.lists, msgs |-> doc.msgs \cup other.msgs]

DecryptsForMutant(blob, g) == g.blob.name = blob.name   \* the key forgets the password

DecryptsFor(blob, g) == Opens(g.blob, blob.name, blob.password)

ReceiveGossip(n, g) ==
  /\ g.from # n
  /\ DecryptsFor(room[n], g)
  /\ room' = [room EXCEPT ![n].doc = Merged(@, g.blob.doc)]
  /\ SaveRoom(n, room[n].name, g.blob)
  /\ UNCHANGED <<gossip, drawn, written>>

Next ==
  \/ \E n \in Node, name \in Name : StartSession(n, name)
  \/ \E n \in Node, name \in Name, password \in Password : JoinChannel(n, name, password)
  \/ \E n \in Node, name \in Name : JoinAnonymousChannel(n, name)
  \/ \E n \in Node, t \in Text : SendMessage(n, t)
  \/ \E n \in Node, g \in gossip : ReceiveGossip(n, g)

Spec == Init /\ [][Next]_vars
-----------------------------------------------------------------------------
(* Documents are documents, and a document always has a message list, so    *)
(* add_message never unwraps None.                                          *)
TypeOK ==
  /\ \A n \in Node : room[n] \in Blob /\ room[n].doc.lists # {}
  /\ \A n \in Node, r \in Name : stored[n][r] # None => stored[n][r] \in Blob
  /\ \A g \in gossip : g.from \in Node /\ g.blob \in Blob
  /\ drawn \subseteq ListId

(* The blobs there are, in memory, in a database or on the network.         *)
Blobs ==
  {room[n] : n \in Node}
    \cup {g.blob : g \in gossip}
    \cup UNION {{stored[n][r] : r \in Name} \ {None} : n \in Node}

(* Whole documents are published and stored, so a message is nowhere        *)
(* without everything its writer could see, however blobs are merged,       *)
(* stored, dropped and reopened.                                            *)
CausallyClosed ==
  \A b \in Blobs, w \in written : w.text \in Texts(b.doc) => w.past \subseteq Texts(b.doc)

(* A message stays in the room, and under the password, it was written in.  *)
RoomsApart ==
  \A b \in Blobs, w \in written :
    w.text \in Texts(b.doc) => w.name = b.name /\ w.password = b.password

(* README.md:354-355: peers merge incoming CRDT bytes and emit UI history.  *)
(* A merge that made the history mergeable (ARCHITECTURE.md:172) would not  *)
(* take messages away from it.                                              *)
MergeKeepsHistory ==
  [][\A n \in Node :
       room[n].doc.lists \subseteq room'[n].doc.lists
         => History(room[n].doc) \subseteq History(room'[n].doc)]_vars

(* README.md:354: "A local room state is saved in SQLite".  Then the blob   *)
(* of a room has the messages its owner wrote there.                        *)
OwnMessagesStored ==
  \A w \in written :
    LET b == stored[w.by][w.name] IN
    b # None /\ b.password = w.password => w.text \in Texts(b.doc)

(* lib.rs:1220: "Kalici olmayan oda - kayit yok" (a room that is not        *)
(* persistent, no record).                                                  *)
AnonymousNotStored == \A n \in Node, r \in Anon : stored[n][r] = None
=============================================================================
