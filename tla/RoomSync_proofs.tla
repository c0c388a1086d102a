--------------------------- MODULE RoomSync_proofs ---------------------------
(***************************************************************************)
(* What the documents of a room hold, for every set of nodes, rooms,       *)
(* passwords and messages.  CausallyClosed and RoomsApart become inductive  *)
(* with one more fact: a document holds nothing but messages that were      *)
(* written, so that the message written next is in no document yet.         *)
(***************************************************************************)
EXTENDS RoomSync, FiniteSetTheorems, TLAPS

Record == [text : Text, by : Node, name : Name, password : Password, past : SUBSET Text]

(* A blob that holds whole histories of W, of its own room only.            *)
Good(b, W) ==
  /\ b \in Blob /\ b.doc.lists # {}
  /\ \A t \in Texts(b.doc) : \E w \in W : w.text = t
  /\ \A w \in W : w.text \in Texts(b.doc) =>
       w.past \subseteq Texts(b.doc) /\ w.name = b.name /\ w.password = b.password

AllGood(W) ==
  /\ \A n \in Node : Good(room[n], W)
  /\ \A n \in Node, r \in Name : stored[n][r] # None => Good(stored[n][r], W)
  /\ \A g \in gossip : g.from \in Node /\ Good(g.blob, W)

Shapes ==
  /\ room \in [Node -> Blob]
  /\ stored \in [Node -> [Name -> Blob \cup {None}]]
  /\ drawn \subseteq ListId
  /\ written \subseteq Record

RoomInv == Shapes /\ AllGood(written)
-----------------------------------------------------------------------------
(* A nonempty set of naturals has a least element.                         *)
LEMMA LeastNatural ==
  ASSUME NEW T \in SUBSET Nat, T # {}
  PROVE  \E n \in T : \A m \in T : n <= m
<1>1. IsWellFoundedOn(OpToRel(<, Nat), Nat)
  BY NatLessThanWellFounded
<1>2. PICK n \in T : \A m \in T : ~(<<m, n>> \in OpToRel(<, Nat))
  BY <1>1, WFMin
<1>3. \A m \in T : ~(m < n)
  BY <1>2, Zenon DEF OpToRel
<1> QED
  BY <1>3

(* doc.get(ROOT, "messages") finds a list in every document that has one.   *)
LEMMA MessagesListIn ==
  ASSUME NEW doc \in Doc, doc.lists # {}
  PROVE  MessagesList(doc) \in doc.lists
<1> DEFINE T == {MaxLists - x : x \in doc.lists}
<1>1. doc.lists \subseteq 1 .. MaxLists /\ MaxLists \in Nat
  BY RoomAssumption DEF Doc, ListId
<1>2. T \in SUBSET Nat /\ T # {}
  BY <1>1
<1>3. PICK k \in T : \A m \in T : k <= m
  <2> HIDE DEF T
  <2> QED
    BY <1>2, LeastNatural
<1>4. PICK x \in doc.lists : k = MaxLists - x
  BY <1>3
<1>5. ASSUME NEW y \in doc.lists
      PROVE  x >= y
  <2>1. MaxLists - x <= MaxLists - y
    BY <1>3, <1>4
  <2>2. x \in Int /\ y \in Int
    BY <1>1
  <2> QED
    BY <1>1, <2>1, <2>2
<1>6. \E z \in doc.lists : \A y \in doc.lists : z >= y
  BY <1>5
<1> QED
  BY <1>6 DEF MessagesList, Max

(* A new document is empty, and add_message can find its list.              *)
LEMMA NewIsGood ==
  ASSUME NEW list \in ListId, NEW name \in Name, NEW password \in Password, NEW W
  PROVE  Good([name |-> name, password |-> password, doc |-> NewDoc(list)], W)
<1>1. Texts(NewDoc(list)) = {} /\ NewDoc(list).lists # {} /\ NewDoc(list) \in Doc
  BY DEF NewDoc, Texts, Doc
<1> QED
  BY <1>1 DEF Good, Blob

(* A message no document holds changes nothing for them.                    *)
LEMMA GoodGrows ==
  ASSUME NEW b, NEW W, Good(b, W), NEW w, \A v \in W : v.text # w.text
  PROVE  Good(b, W \cup {w})
<1>1. w.text \notin Texts(b.doc)
  BY DEF Good
<1> QED
  BY <1>1 DEF Good

(* add_message: the writer has the past of what it writes.                  *)
LEMMA AddedIsGood ==
  ASSUME NEW b, NEW W, Good(b, W), NEW t \in Text, NEW w,
         w.text = t, w.name = b.name, w.password = b.password, w.past = Texts(b.doc),
         \A v \in W : v.text # t
  PROVE  Good(AddMessage(b, t), W \cup {w})
<1> DEFINE m == [list |-> MessagesList(b.doc), text |-> t]
           c == AddMessage(b, t)
<1>1. b \in Blob /\ b.doc \in Doc /\ b.doc.lists # {}
  BY DEF Good, Blob
<1>2. m \in [list : ListId, text : Text] /\ m.text = t
  <2>1. MessagesList(b.doc) \in ListId
    BY <1>1, MessagesListIn DEF Doc
  <2> QED
    BY <2>1
<1>3. /\ c.name = b.name /\ c.password = b.password
      /\ c.doc = [lists |-> b.doc.lists, msgs |-> b.doc.msgs \cup {m}]
  BY DEF AddMessage
<1>4. c.doc.lists = b.doc.lists /\ c.doc.msgs = b.doc.msgs \cup {m}
  BY <1>3
<1>5. c \in Blob
  <2>1. [lists |-> b.doc.lists, msgs |-> b.doc.msgs \cup {m}] \in Doc
    <3> HIDE DEF m
    <3> QED
      BY <1>1, <1>2 DEF Doc
  <2> QED
    BY <1>1, <2>1 DEF Blob, AddMessage
<1>6. Texts(c.doc) = Texts(b.doc) \cup {t}
  <2> HIDE DEF c, m
  <2> QED
    BY <1>2, <1>4 DEF Texts
<1>7. \A u \in Texts(c.doc) : \E v \in W \cup {w} : v.text = u
  <2> HIDE DEF c
  <2> QED
    BY <1>6 DEF Good
<1>8. ASSUME NEW v \in W \cup {w}, v.text \in Texts(c.doc)
      PROVE  v.past \subseteq Texts(c.doc) /\ v.name = c.name /\ v.password = c.password
  <2>1. CASE v \in W
    <3>1. v.text \in Texts(b.doc)
      <4> HIDE DEF c
      <4> QED
        BY <1>6, <1>8, <2>1
    <3>2. v.past \subseteq Texts(b.doc) /\ v.name = b.name /\ v.password = b.password
      BY <2>1, <3>1 DEF Good
    <3> HIDE DEF c
    <3> QED
      BY <1>3, <1>6, <3>2
  <2>2. CASE v = w
    <3> HIDE DEF c
    <3> QED
      BY <1>3, <1>6, <2>2
  <2> QED
    BY <2>1, <2>2
<1> HIDE DEF c
<1>9. Good(c, W \cup {w})
  BY <1>1, <1>4, <1>5, <1>7, <1>8 DEF Good
<1> QED
  BY <1>9 DEF c

(* Room::merge of two documents of one room holds what both held.           *)
LEMMA MergedIsGood ==
  ASSUME NEW b, NEW g, NEW W, Good(b, W), Good(g, W), Opens(g, b.name, b.password)
  PROVE  Good([b EXCEPT !.doc = Merged(@, g.doc)], W)
<1> DEFINE c == [b EXCEPT !.doc = Merged(@, g.doc)]
<1>1. /\ b \in Blob /\ b.doc \in Doc /\ b.doc.lists # {}
      /\ g \in Blob /\ g.doc \in Doc /\ g.name = b.name /\ g.password = b.password
  BY DEF Good, Blob, Opens
<1>2. c.name = b.name /\ c.password = b.password /\ c.doc = Merged(b.doc, g.doc)
  BY <1>1 DEF Blob
<1>3. Merged(b.doc, g.doc) \in Doc
  BY <1>1 DEF Merged, Doc
<1>4. c \in Blob
  BY <1>1, <1>3 DEF Blob
<1>5. Texts(c.doc) = Texts(b.doc) \cup Texts(g.doc) /\ c.doc.lists # {}
  <2> HIDE DEF c
  <2>1. c.doc.msgs = b.doc.msgs \cup g.doc.msgs /\ c.doc.lists = b.doc.lists \cup g.doc.lists
    BY <1>2 DEF Merged
  <2> QED
    BY <1>1, <2>1 DEF Texts
<1> HIDE DEF c
<1>6. Good(c, W)
  BY <1>1, <1>2, <1>4, <1>5 DEF Good
<1> QED
  BY <1>6 DEF c
-----------------------------------------------------------------------------
LEMMA InitRooms == Init => RoomInv
<1> SUFFICES ASSUME Init PROVE RoomInv
  OBVIOUS
<1>1. PICK list \in [Node -> ListId] :
        /\ room = [n \in Node |->
                     [name |-> Global, password |-> Open, doc |-> NewDoc(list[n])]]
        /\ drawn = {list[n] : n \in Node}
  BY DEF Init
<1>2. ASSUME NEW n \in Node
      PROVE  Good(room[n], written)
  <2>1. Global \in Name /\ Open \in Password /\ list[n] \in ListId
    BY RoomAssumption
  <2> QED
    BY <1>1, <2>1, NewIsGood
<1>3. Shapes
  <2>1. room \in [Node -> Blob]
    <3>1. \A n \in Node : room[n] \in Blob
      BY <1>2 DEF Good
    <3> QED
      BY <1>1, <3>1
  <2>2. stored \in [Node -> [Name -> Blob \cup {None}]]
    BY DEF Init
  <2> QED
    BY <1>1, <2>1, <2>2 DEF Init, Shapes
<1>4. \A n \in Node, r \in Name : stored[n][r] = None
  BY DEF Init
<1> QED
  BY <1>2, <1>3, <1>4 DEF Init, RoomInv, AllGood

(* A node's document is replaced.                                          *)
LEMMA RoomReplaced ==
  ASSUME RoomInv, NEW n \in Node, NEW b, Good(b, written), room' = [room EXCEPT ![n] = b],
         UNCHANGED <<stored, gossip, written>>, drawn' \subseteq ListId
  PROVE  RoomInv'
<1>1. Shapes'
  BY DEF RoomInv, Shapes, Good
<1>2. \A m \in Node : Good(room'[m], written)
  BY DEF RoomInv, Shapes, AllGood
<1> QED
  BY <1>1, <1>2 DEF RoomInv, AllGood

LEMMA OpenRoomKeeps ==
  ASSUME RoomInv, NEW n \in Node, NEW name \in Name, NEW password \in Password,
         OpenRoom(n, name, password), UNCHANGED <<stored, gossip, written>>
  PROVE  RoomInv'
<1>1. CASE Loadable(n, name, password)
  <2>1. Good(stored[n][name], written)
    BY <1>1 DEF Loadable, RoomInv, AllGood
  <2>2. room' = [room EXCEPT ![n] = stored[n][name]] /\ drawn' \subseteq ListId
    BY <1>1 DEF OpenRoom, RoomInv, Shapes
  <2> QED
    BY <2>1, <2>2, RoomReplaced
<1>2. CASE ~Loadable(n, name, password)
  <2>1. PICK list \in ListId \ drawn :
          /\ room' = [room EXCEPT ![n] =
                        [name |-> name, password |-> password, doc |-> NewDoc(list)]]
          /\ drawn' = drawn \cup {list}
    BY <1>2 DEF OpenRoom
  <2>2. Good([name |-> name, password |-> password, doc |-> NewDoc(list)], written)
    BY NewIsGood
  <2>3. drawn' \subseteq ListId
    BY <2>1 DEF RoomInv, Shapes
  <2> QED
    BY <2>1, <2>2, <2>3, RoomReplaced
<1> QED
  BY <1>1, <1>2

LEMMA JoinAnonymousKeeps ==
  ASSUME RoomInv, NEW n \in Node, NEW name \in Name, JoinAnonymousChannel(n, name)
  PROVE  RoomInv'
<1>1. PICK list \in ListId \ drawn :
        /\ room' = [room EXCEPT ![n] =
                      [name |-> name, password |-> Open, doc |-> NewDoc(list)]]
        /\ drawn' = drawn \cup {list}
  BY DEF JoinAnonymousChannel
<1>2. Good([name |-> name, password |-> Open, doc |-> NewDoc(list)], written)
  BY RoomAssumption, NewIsGood
<1>3. drawn' \subseteq ListId /\ UNCHANGED <<stored, gossip, written>>
  BY <1>1 DEF RoomInv, Shapes, JoinAnonymousChannel
<1> QED
  BY <1>1, <1>2, <1>3, RoomReplaced

(* A node's document is replaced and a blob of it is saved.                *)
LEMMA RoomSaved ==
  ASSUME NEW W, Shapes, AllGood(W), NEW n \in Node, NEW b, Good(b, W),
         NEW c, Good(c, W), NEW name \in Name,
         room' = [room EXCEPT ![n] = b], SaveRoom(n, name, c)
  PROVE  /\ room' \in [Node -> Blob] /\ stored' \in [Node -> [Name -> Blob \cup {None}]]
         /\ \A m \in Node : Good(room'[m], W)
         /\ \A m \in Node, r \in Name : stored'[m][r] # None => Good(stored'[m][r], W)
<1>1. b \in Blob /\ c \in Blob
  BY DEF Good
<1>2. stored' = [stored EXCEPT ![n] = [stored[n] EXCEPT ![name] = c]]
  BY DEF SaveRoom
<1>3. [stored[n] EXCEPT ![name] = c] \in [Name -> Blob \cup {None}]
  BY <1>1 DEF Shapes
<1>4. room' \in [Node -> Blob] /\ stored' \in [Node -> [Name -> Blob \cup {None}]]
  BY <1>1, <1>2, <1>3 DEF Shapes
<1>5. \A m \in Node : Good(room'[m], W)
  BY DEF Shapes, AllGood
<1>6. ASSUME NEW m \in Node, NEW r \in Name, stored'[m][r] # None
      PROVE  Good(stored'[m][r], W)
  <2>1. CASE m = n /\ r = name
    <3>1. stored'[m][r] = c
      BY <1>2, <2>1 DEF Shapes
    <3> QED
      BY <3>1
  <2>2. CASE ~(m = n /\ r = name)
    <3>1. stored'[m][r] = stored[m][r]
      BY <1>2, <2>2 DEF Shapes
    <3> QED
      BY <1>6, <3>1 DEF AllGood
  <2> QED
    BY <2>1, <2>2
<1> QED
  BY <1>4, <1>5, <1>6

LEMMA SendMessageKeeps ==
  ASSUME RoomInv, NEW n \in Node, NEW t \in Text, SendMessage(n, t)
  PROVE  RoomInv'
<1> DEFINE w == [text |-> t, by |-> n, name |-> room[n].name, password |-> room[n].password,
                 past |-> Texts(room[n].doc)]
           W == written \cup {w}
           b == AddMessage(room[n], t)
<1>1. /\ room' = [room EXCEPT ![n] = b] /\ room'[n] = b /\ SaveRoom(n, room[n].name, b)
      /\ gossip' = gossip \cup {[from |-> n, blob |-> b]}
      /\ written' = W /\ drawn' = drawn
  <2>1. room \in [Node -> Blob] /\ room' = [room EXCEPT ![n] = b]
    BY DEF RoomInv, Shapes, SendMessage
  <2>2. room'[n] = b
    <3> HIDE DEF b
    <3> QED
      BY <2>1
  <2> QED
    BY <2>1, <2>2 DEF SendMessage
<1>2. Shapes /\ AllGood(written) /\ Good(room[n], written) /\ \A v \in written : v.text # t
  BY DEF RoomInv, AllGood, SendMessage, Unwritten
<1>3. /\ w.text = t /\ w.name = room[n].name /\ w.password = room[n].password
      /\ w.past = Texts(room[n].doc)
  OBVIOUS
<1>4. w \in Record
  <2>1. Texts(room[n].doc) \subseteq Text /\ room[n] \in Blob
    BY <1>2 DEF Good, Blob, Doc, Texts
  <2> QED
    BY <2>1 DEF Record, Blob
<1>5. Good(b, W)
  <2> HIDE DEF w
  <2> QED
    BY <1>2, <1>3, AddedIsGood
<1>6. AllGood(W)
  <2>1. \A v \in written : v.text # w.text
    BY <1>2, <1>3
  <2>2. \A c : Good(c, written) => Good(c, W)
    <3> HIDE DEF w
    <3> QED
      BY <2>1, GoodGrows
  <2> HIDE DEF W
  <2> QED
    BY <1>2, <2>2 DEF AllGood
<1>7. room[n].name \in Name
  BY <1>2 DEF Shapes, Blob
<1> HIDE DEF b, w
<1>8. /\ room' \in [Node -> Blob] /\ stored' \in [Node -> [Name -> Blob \cup {None}]]
      /\ \A m \in Node : Good(room'[m], W)
      /\ \A m \in Node, r \in Name : stored'[m][r] # None => Good(stored'[m][r], W)
  <2> HIDE DEF W
  <2> QED
    BY <1>1, <1>2, <1>5, <1>6, <1>7, RoomSaved
<1>9. \A g \in gossip' : g.from \in Node /\ Good(g.blob, W)
  <2> HIDE DEF W
  <2> QED
    BY <1>1, <1>5, <1>6 DEF AllGood
<1>10. written' \subseteq Record /\ drawn' \subseteq ListId
  BY <1>1, <1>2, <1>4 DEF Shapes
<1> QED
  BY <1>1, <1>8, <1>9, <1>10 DEF RoomInv, Shapes, AllGood

LEMMA ReceiveGossipKeeps ==
  ASSUME RoomInv, NEW n \in Node, NEW g \in gossip, ReceiveGossip(n, g)
  PROVE  RoomInv'
<1> DEFINE b == [room[n] EXCEPT !.doc = Merged(@, g.blob.doc)]
<1>1. Shapes /\ AllGood(written) /\ Good(room[n], written) /\ Good(g.blob, written)
  BY DEF RoomInv, AllGood
<1>2. Good(b, written)
  BY <1>1, MergedIsGood DEF ReceiveGossip, DecryptsFor
<1>3. /\ room' = [room EXCEPT ![n] = b] /\ SaveRoom(n, room[n].name, g.blob)
      /\ UNCHANGED <<gossip, drawn, written>>
  BY DEF ReceiveGossip
<1>4. room[n].name \in Name
  BY <1>1 DEF Shapes, Blob
<1> HIDE DEF b
<1>5. /\ room' \in [Node -> Blob] /\ stored' \in [Node -> [Name -> Blob \cup {None}]]
      /\ \A m \in Node : Good(room'[m], written)
      /\ \A m \in Node, r \in Name : stored'[m][r] # None => Good(stored'[m][r], written)
  BY <1>1, <1>2, <1>3, <1>4, RoomSaved
<1> QED
  BY <1>1, <1>3, <1>5 DEF RoomInv, Shapes, AllGood

LEMMA NextRooms == RoomInv /\ [Next]_vars => RoomInv'
<1> SUFFICES ASSUME RoomInv, [Next]_vars PROVE RoomInv'
  OBVIOUS
<1>1. ASSUME NEW n \in Node, NEW name \in Name, StartSession(n, name)
      PROVE  RoomInv'
  BY <1>1, RoomAssumption, OpenRoomKeeps DEF StartSession
<1>2. ASSUME NEW n \in Node, NEW name \in Name, NEW password \in Password,
             JoinChannel(n, name, password)
      PROVE  RoomInv'
  BY <1>2, OpenRoomKeeps DEF JoinChannel
<1>3. ASSUME NEW n \in Node, NEW name \in Name, JoinAnonymousChannel(n, name)
      PROVE  RoomInv'
  BY <1>3, JoinAnonymousKeeps
<1>4. ASSUME NEW n \in Node, NEW t \in Text, SendMessage(n, t)
      PROVE  RoomInv'
  BY <1>4, SendMessageKeeps
<1>5. ASSUME NEW n \in Node, NEW g \in gossip, ReceiveGossip(n, g)
      PROVE  RoomInv'
  BY <1>5, ReceiveGossipKeeps
<1>6. CASE UNCHANGED vars
  BY <1>6 DEF vars, RoomInv, Shapes, AllGood
<1> QED
  BY <1>1, <1>2, <1>3, <1>4, <1>5, <1>6 DEF Next

(* The strengthening is an invariant of the specification.                 *)
THEOREM RoomsCorrect == Spec => []RoomInv
BY InitRooms, NextRooms, PTL DEF Spec

(* Room::add_message (crdt.rs 94-140) never unwraps None: in memory, in a   *)
(* database and on the network every document has a message list.           *)
THEOREM RoomTypeCorrect == Spec => []TypeOK
<1>1. RoomInv => TypeOK
  BY DEF RoomInv, Shapes, AllGood, Good, TypeOK
<1> QED
  BY <1>1, RoomsCorrect, PTL

LEMMA BlobsAreGood ==
  ASSUME RoomInv, NEW b \in Blobs
  PROVE  Good(b, written)
<1>1. CASE b \in {room[n] : n \in Node}
  BY <1>1 DEF RoomInv, AllGood
<1>2. CASE b \in {g.blob : g \in gossip}
  BY <1>2 DEF RoomInv, AllGood
<1>3. CASE b \in UNION {{stored[n][r] : r \in Name} \ {None} : n \in Node}
  BY <1>3 DEF RoomInv, AllGood
<1> QED
  BY <1>1, <1>2, <1>3 DEF Blobs

(* SendMessage, Room::merge and save_room (lib.rs 1069-1112 and 1450-1472): *)
(* no blob has a message without everything its writer could see.           *)
THEOREM CausallyClosedHolds == Spec => []CausallyClosed
<1>1. RoomInv => CausallyClosed
  BY BlobsAreGood DEF CausallyClosed, Good
<1> QED
  BY <1>1, RoomsCorrect, PTL

(* derive_room_key (crdt.rs 25-34) and the handlers that open, merge and    *)
(* save: a message is never in a blob of another room or password than the  *)
(* one it was written in.                                                  *)
THEOREM RoomsApartHolds == Spec => []RoomsApart
<1>1. RoomInv => RoomsApart
  BY BlobsAreGood DEF RoomsApart, Good
<1> QED
  BY <1>1, RoomsCorrect, PTL
=============================================================================
