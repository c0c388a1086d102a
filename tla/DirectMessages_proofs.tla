------------------------ MODULE DirectMessages_proofs ------------------------
(***************************************************************************)
(* Direct messages for every MAX_SKIP, set of texts and number of rows.    *)
(* Both handlers of load_or_init_dr_state start as the initiator towards   *)
(* the other role, so the higher peer answers the first envelope with a    *)
(* root of its own: the two roots never meet.  That is the strengthening:  *)
(* the higher peer has no session and writes no envelope, the lower one    *)
(* only ever advances the one sending chain it began with, and what is     *)
(* shown came by the mailbox.                                              *)
(***************************************************************************)
EXTENDS DirectMessages, TLAPS

(* The lower peer's session, once it wrote.                                *)
FirstChain(s) ==
  /\ s \in DrState /\ s.dh_send >= 2 /\ s.pn = 0 /\ Len(s.root_key) = 2
  /\ s.ck_send = [root |-> s.root_key, step |-> s.n_send]

(* An envelope of that session.                                            *)
OnChain(m, s) ==
  /\ m.from = "low" /\ m.dh = s.dh_send /\ m.pn = 0 /\ m.n < s.n_send
  /\ m.mk = <<s.root_key, m.n>>

SessionInv ==
  /\ dr["high"] = None
  /\ dr["low"] = None => wire = {}
  /\ dr["low"] # None => FirstChain(dr["low"]) /\ \A m \in wire : OnChain(m, dr["low"])
  /\ \A m1, m2 \in wire : m1.n = m2.n => m1 = m2
  /\ nextKey >= 2

MailInv ==
  \A p \in Party : mailbox[p] # None =>
    mailbox[p].from = Peer(p) /\ mailbox[p].text \in sent[Peer(p)]

DmInv == TypeOK /\ SessionInv /\ MailInv /\ ShownWasWritten
-----------------------------------------------------------------------------
LEMMA PartyPeer ==
  ASSUME NEW p \in Party
  PROVE  Peer(p) \in Party /\ Peer(p) # p /\ Peer(Peer(p)) = p
BY DEF Party, Peer

(* kdf_rk makes a root key one output longer.                               *)
LEMMA OneMore ==
  ASSUME NEW rk \in Seq(SUBSET Nat), NEW d \in SUBSET Nat
  PROVE  KdfRk(rk, d) \in Seq(SUBSET Nat) /\ Len(KdfRk(rk, d)) = Len(rk) + 1
BY DEF KdfRk

(* init_alice: the root of a fresh session is two outputs long.             *)
LEMMA InitAliceShape ==
  ASSUME NEW k \in Nat, NEW b \in Nat
  PROVE  LET s == InitAlice(SharedSecret, b, k)
         IN  /\ s \in DrState /\ s.dh_send = k /\ s.pn = 0 /\ s.n_send = 0
             /\ Len(s.root_key) = 2
             /\ s.ck_send = [root |-> s.root_key, step |-> 0]
<1> DEFINE s == InitAlice(SharedSecret, b, k)
           rk == KdfRk(SharedSecret, Dh(k, b))
<1>1. SharedSecret \in Seq(SUBSET Nat) /\ Len(SharedSecret) = 1
  BY DEF SharedSecret, Dh, OfflineKey
<1>2. rk \in Seq(SUBSET Nat) /\ Len(rk) = 2
  <2>1. Dh(k, b) \in SUBSET Nat
    BY DEF Dh
  <2>2. rk \in Seq(SUBSET Nat) /\ Len(rk) = Len(SharedSecret) + 1
    BY <1>1, <2>1, OneMore, Zenon
  <2> QED
    BY <1>1, <2>2
<1>3. s = [dh_send |-> k, dh_recv |-> b, root_key |-> rk,
           ck_send |-> [root |-> rk, step |-> 0], ck_recv |-> NoKey,
           n_send |-> 0, n_recv |-> 0, pn |-> 0, skipped |-> {}]
  BY DEF InitAlice, FirstChainKey
<1> HIDE DEF rk, s
<1>4. s \in DrState
  BY <1>2, <1>3 DEF DrState, ChainKey, RootKey
<1> QED
  BY <1>2, <1>3, <1>4 DEF s

(* The state the lower peer writes with, stored or new.                     *)
LEMMA SendingShape ==
  ASSUME DmInv
  PROVE  FirstChain(SendingState("low")) /\ CanEncrypt(SendingState("low"))
<1> DEFINE s == SendingState("low")
<1>1. FirstChain(s)
  <2>1. CASE dr["low"] # None
    BY <2>1 DEF DmInv, SessionInv, SendingState, LoadOrInit
  <2>2. CASE dr["low"] = None
    <3>1. PICK k \in Nat, b \in Nat : k = nextKey /\ k >= 2 /\ b = 1
      BY DEF DmInv, SessionInv, TypeOK
    <3>2. s = InitAlice(SharedSecret, b, k)
      BY <2>2, <3>1 DEF SendingState, LoadOrInit, Peer, OfflineKey
    <3> HIDE DEF s
    <3>3. /\ s \in DrState /\ s.dh_send = k /\ s.pn = 0 /\ s.n_send = 0
          /\ Len(s.root_key) = 2 /\ s.ck_send = [root |-> s.root_key, step |-> 0]
      BY <3>2, InitAliceShape
    <3> QED
      BY <3>1, <3>3 DEF FirstChain
  <2> QED
    BY <2>1, <2>2
<1>2. s.ck_send # NoKey
  <2> HIDE DEF s
  <2>1. [root |-> s.root_key, step |-> s.n_send] \in ChainKey
    BY <1>1 DEF FirstChain, DrState, ChainKey
  <2> QED
    BY <1>1, <2>1, NoKeyAssumption DEF FirstChain
<1> QED
  BY <1>1, <1>2 DEF CanEncrypt

(* The higher peer has no sending chain.                                    *)
LEMMA HighCannotEncrypt ==
  ASSUME DmInv
  PROVE  ~CanEncrypt(SendingState("high"))
BY DEF DmInv, SessionInv, SendingState, LoadOrInit, InitBob, CanEncrypt

(* load_or_init_dr_state as the X3dhDm handler calls it: the receiver of a  *)
(* first envelope starts as the initiator too, and opens nothing.           *)
LEMMA NothingOpens ==
  ASSUME DmInv, NEW p \in Party, NEW m \in wire, m.from = Peer(p)
  PROVE  ~AcceptsEnvelope(p, m)
<1>1. dr["low"] # None /\ OnChain(m, dr["low"]) /\ FirstChain(dr["low"])
  BY DEF DmInv, SessionInv
<1>2. p = "high"
  BY <1>1 DEF OnChain, Party, Peer
<1>3. PICK s : s = ReceivingState(p)
  OBVIOUS
<1>4. PICK k \in Nat : k = nextKey
  BY DEF DmInv, TypeOK
<1>5. s = InitAlice(SharedSecret, 0, k)
  BY <1>2, <1>3, <1>4 DEF DmInv, SessionInv, ReceivingState, LoadOrInit, Peer, OfflineKey
<1>6. /\ s \in DrState /\ s.dh_recv = 0 /\ s.n_recv = 0 /\ s.ck_recv = NoKey
      /\ s.skipped = {} /\ Len(s.root_key) = 2
  <2>1. PICK b \in Nat : b = 0
    OBVIOUS
  <2>2. s = InitAlice(SharedSecret, b, k)
    BY <1>5, <2>1
  <2>3. s \in DrState /\ Len(s.root_key) = 2
    BY <2>2, InitAliceShape
  <2>4. s.dh_recv = b /\ s.n_recv = 0 /\ s.ck_recv = NoKey /\ s.skipped = {}
    BY <2>2 DEF InitAlice
  <2> QED
    BY <2>1, <2>3, <2>4
<1>7. m \in Wire /\ m.dh >= 2 /\ m.pn = 0 /\ Len(m.mk[1]) = 2
  BY <1>1 DEF DmInv, TypeOK, OnChain, FirstChain
<1>8. TrySkipped(s, m) = {}
  BY <1>6 DEF TrySkipped
<1>9. NeedDhRatchet(s, m)
  BY <1>6, <1>7 DEF NeedDhRatchet
<1> DEFINE rk == KdfRk(s.root_key, Dh(s.dh_send, m.dh))
           t == Ratcheted(s, m, k + 1)
<1>10. t.ck_recv = [root |-> rk, step |-> 0] /\ t.n_recv = 0
  BY <1>6, <1>9 DEF Ratcheted, SkipMessageKeys, DhRatchet, FirstChainKey
<1>11. rk \in Seq(SUBSET Nat) /\ Len(rk) = 3
  <2>1. s.root_key \in Seq(SUBSET Nat) /\ Dh(s.dh_send, m.dh) \in SUBSET Nat
    BY <1>6, <1>7 DEF DrState, RootKey, Wire, Dh
  <2>2. rk \in Seq(SUBSET Nat) /\ Len(rk) = Len(s.root_key) + 1
    BY <2>1, OneMore
  <2> QED
    BY <1>6, <2>2
<1> HIDE DEF t, rk
<1>12. SkipMessageKeys(t, m.n).ck_recv.root = rk
  <2>1. CASE t.ck_recv = NoKey \/ m.n <= t.n_recv
    BY <1>10, <2>1 DEF SkipMessageKeys
  <2>2. CASE ~(t.ck_recv = NoKey \/ m.n <= t.n_recv)
    BY <1>10, <2>2 DEF SkipMessageKeys, AdvanceReceiving, KdfCk
  <2> QED
    BY <2>1, <2>2
<1>13. MsgKey(Aligned(s, m, k + 1).ck_recv)[1] = rk
  BY <1>12 DEF Aligned, MsgKey, t
<1>14. MsgKey(Aligned(s, m, k + 1).ck_recv) # m.mk
  <2>1. rk # m.mk[1]
    BY <1>7, <1>11
  <2> QED
    BY <1>13, <2>1
<1>15. ~Decrypts(s, m, k + 1)
  BY <1>8, <1>14 DEF Decrypts
<1> QED
  BY <1>3, <1>4, <1>15 DEF AcceptsEnvelope
-----------------------------------------------------------------------------
LEMMA InitDm == Init => DmInv
<1> SUFFICES ASSUME Init PROVE DmInv
  OBVIOUS
<1>1. TypeOK
  BY DmAssumption DEF Init, TypeOK
<1>2. SessionInv
  BY DEF Init, SessionInv, Party
<1>3. MailInv /\ ShownWasWritten
  BY DEF Init, MailInv, ShownWasWritten
<1> QED
  BY <1>1, <1>2, <1>3 DEF DmInv

(* The envelope of a message goes out on the one chain.                     *)
LEMMA SendEnvelopeKeeps ==
  ASSUME DmInv, NEW p \in Party, NEW t \in Text, SendEnvelope(p, t)
  PROVE  /\ SessionInv' /\ dr' \in [Party -> DrState \cup {None}] /\ wire' \subseteq Wire
         /\ nextKey' \in Nat
<1>1. CASE p = "high"
  <2>1. UNCHANGED <<wire, dr, nextKey>>
    BY <1>1, HighCannotEncrypt DEF SendEnvelope
  <2> QED
    BY <2>1 DEF DmInv, TypeOK, SessionInv
<1>2. CASE p = "low"
  <2>1. PICK s : s = SendingState(p)
    OBVIOUS
  <2>2. FirstChain(s) /\ CanEncrypt(s)
    BY <1>2, <2>1, SendingShape
  <2> DEFINE m == FromSender(p, Envelope(s, t))
             u == AfterEncrypt(s)
  <2>3. /\ wire' = wire \cup {m} /\ dr' = [dr EXCEPT ![p] = u]
        /\ nextKey' = IF dr[p] = None THEN nextKey + 1 ELSE nextKey
    BY <2>1, <2>2 DEF SendEnvelope, SaveDrState
  <2>4. s \in DrState /\ s.n_send \in Nat /\ s.root_key \in RootKey /\ s.dh_send \in Nat
    BY <2>2 DEF FirstChain, DrState
  <2>5. /\ m.from = "low" /\ m.dh = s.dh_send /\ m.pn = 0 /\ m.n = s.n_send
        /\ m.mk = <<s.root_key, s.n_send>> /\ m \in Wire
    BY <1>2, <2>2, <2>4 DEF FromSender, Envelope, MsgKey, FirstChain, Wire, Party
  <2>6. /\ u.dh_send = s.dh_send /\ u.pn = s.pn /\ u.root_key = s.root_key
        /\ u.n_send = s.n_send + 1 /\ u.ck_send = [root |-> s.root_key, step |-> s.n_send + 1]
    BY <2>2 DEF AfterEncrypt, KdfCk, FirstChain
  <2>7. u \in DrState
    <3>1. [root |-> s.root_key, step |-> s.n_send + 1] \in ChainKey
      BY <2>4 DEF ChainKey
    <3>2. u = [dh_send |-> s.dh_send, dh_recv |-> s.dh_recv, root_key |-> s.root_key,
               ck_send |-> [root |-> s.root_key, step |-> s.n_send + 1], ck_recv |-> s.ck_recv,
               n_send |-> s.n_send + 1, n_recv |-> s.n_recv, pn |-> s.pn,
               skipped |-> s.skipped]
      BY <2>2 DEF AfterEncrypt, KdfCk, FirstChain
    <3> HIDE DEF u
    <3> QED
      BY <2>4, <3>1, <3>2 DEF DrState
  <2> HIDE DEF m, u
  <2>8. FirstChain(u)
    BY <2>2, <2>6, <2>7 DEF FirstChain
  <2>9. \A e \in wire : OnChain(e, s)
    <3>1. CASE dr["low"] = None
      BY <3>1 DEF DmInv, SessionInv
    <3>2. CASE dr["low"] # None
      <4>1. s = dr["low"]
        BY <1>2, <2>1, <3>2 DEF SendingState, LoadOrInit
      <4> QED
        BY <3>2, <4>1 DEF DmInv, SessionInv
    <3> QED
      BY <3>1, <3>2
  <2>10. \A e \in wire : e \in Wire /\ e.n \in Nat
    BY DEF DmInv, TypeOK, Wire
  <2>11. \A e \in wire' : OnChain(e, u)
    <3>1. OnChain(m, u)
      BY <2>2, <2>4, <2>5, <2>6 DEF OnChain
    <3>2. ASSUME NEW e \in wire
          PROVE  OnChain(e, u)
      <4>1. e.n < s.n_send /\ e.n \in Nat
        BY <2>9, <2>10 DEF OnChain
      <4>2. e.n < u.n_send
        BY <2>4, <2>6, <4>1
      <4> QED
        BY <2>6, <2>9, <4>2 DEF OnChain
    <3> QED
      BY <2>3, <3>1, <3>2
  <2>12. \A e \in wire : e.n # m.n
    <3> SUFFICES ASSUME NEW e \in wire PROVE e.n # m.n
      OBVIOUS
    <3>1. e.n < s.n_send /\ e.n \in Nat
      BY <2>9, <2>10 DEF OnChain
    <3> QED
      BY <2>4, <2>5, <3>1
  <2>13. \A m1, m2 \in wire' : m1.n = m2.n => m1 = m2
    BY <2>3, <2>12 DEF DmInv, SessionInv
  <2>14. /\ dr' \in [Party -> DrState \cup {None}] /\ dr'["high"] = None /\ dr'["low"] = u
         /\ u # None
    <3>1. dr \in [Party -> DrState \cup {None}] /\ dr["high"] = None
      BY DEF DmInv, TypeOK, SessionInv
    <3> QED
      BY <1>2, <2>3, <2>7, <3>1, DmAssumption DEF Party
  <2>15. nextKey' \in Nat /\ nextKey' >= 2
    <3>1. nextKey \in Nat /\ nextKey >= 2
      BY DEF DmInv, TypeOK, SessionInv
    <3> QED
      BY <2>3, <3>1
  <2>16. wire' \subseteq Wire
    BY <2>3, <2>5, <2>10
  <2>17. SessionInv'
    BY <2>8, <2>11, <2>13, <2>14, <2>15 DEF SessionInv
  <2> QED
    BY <2>14, <2>15, <2>16, <2>17
<1> QED
  BY <1>1, <1>2 DEF Party

(* The text is in the sender's history before it is anywhere else.          *)
LEMMA SendPrivateMessageKeeps ==
  ASSUME DmInv, NEW p \in Party, NEW t \in Text, SendPrivateMessage(p, t)
  PROVE  DmInv'
<1>1. /\ sent' = [sent EXCEPT ![p] = sent[p] \cup {t}] /\ UNCHANGED <<friend, rows>>
      /\ sent \in [Party -> SUBSET Text]
  BY DEF SendPrivateMessage, DmInv, TypeOK
<1>2. sent' \in [Party -> SUBSET Text] /\ t \in sent'[p] /\ \A q \in Party : sent[q] \subseteq sent'[q]
  BY <1>1
<1>3. /\ SessionInv' /\ dr' \in [Party -> DrState \cup {None}] /\ wire' \subseteq Wire
      /\ nextKey' \in Nat
  <2>1. CASE HasKey(p)
    BY <2>1, SendEnvelopeKeeps DEF SendPrivateMessage
  <2>2. CASE ~HasKey(p)
    BY <2>2 DEF SendPrivateMessage, DmInv, TypeOK, SessionInv
  <2> QED
    BY <2>1, <2>2
<1>4. mailbox \in [Party -> Mail \cup {None}] /\ MailInv
  BY DEF DmInv, TypeOK
<1>5. mailbox' \in [Party -> Mail \cup {None}] /\ MailInv'
  <2>1. CASE HasKey(p)
    <3> DEFINE r == [from |-> p, text |-> t]
    <3>1. mailbox' = [mailbox EXCEPT ![Peer(p)] = r] /\ r \in Mail /\ r.from = p /\ r.text = t
      BY <2>1 DEF SendPrivateMessage, MailboxOwner, OfflineMsg, Mail
    <3> HIDE DEF r
    <3>2. mailbox' \in [Party -> Mail \cup {None}] /\ mailbox'[Peer(p)] = r
      BY <1>4, <3>1, PartyPeer
    <3>3. ASSUME NEW q \in Party, mailbox'[q] # None
          PROVE  mailbox'[q].from = Peer(q) /\ mailbox'[q].text \in sent'[Peer(q)]
      <4>1. CASE q = Peer(p)
        BY <1>2, <3>1, <3>2, <4>1, PartyPeer
      <4>2. CASE q # Peer(p)
        <5>1. mailbox'[q] = mailbox[q]
          BY <1>4, <3>1, <4>2
        <5> QED
          BY <1>2, <1>4, <3>3, <5>1, PartyPeer DEF MailInv
      <4> QED
        BY <4>1, <4>2
    <3> QED
      BY <3>2, <3>3 DEF MailInv
  <2>2. CASE ~HasKey(p)
    <3>1. mailbox' = mailbox
      BY <2>2 DEF SendPrivateMessage
    <3> QED
      BY <1>2, <1>4, <3>1, PartyPeer DEF MailInv
  <2> QED
    BY <2>1, <2>2
<1>6. ShownWasWritten'
  BY <1>1, <1>2, PartyPeer DEF DmInv, ShownWasWritten
<1>7. TypeOK'
  BY <1>1, <1>2, <1>3, <1>5 DEF DmInv, TypeOK
<1> QED
  BY <1>3, <1>5, <1>6, <1>7 DEF DmInv

(* A record is shown once more.                                            *)
LEMMA PollMailboxKeeps ==
  ASSUME DmInv, NEW p \in Party, PollMailbox(p)
  PROVE  DmInv'
<1>1. PICK r \in Mail : r = mailbox[p] /\ r.from = Peer(p) /\ r.text \in sent[Peer(p)]
  BY DEF PollMailbox, DmInv, TypeOK, MailInv
<1>2. PICK t \in Text : t = r.text
  BY DEF Mail
<1>3. rows \in [Party -> [Text -> 0 .. MaxRows]]
  BY DEF DmInv, TypeOK
<1>4. PICK k \in 0 .. MaxRows : k = rows[p][t]
  BY <1>3
<1>5. /\ rows' = [rows EXCEPT ![p] = [rows[p] EXCEPT ![t] = k + 1]] /\ k < MaxRows
      /\ UNCHANGED <<friend, dr, wire, mailbox, sent, nextKey>>
  BY <1>1, <1>2, <1>4 DEF PollMailbox
<1>6. k + 1 \in 0 .. MaxRows
  BY <1>5, DmAssumption
<1>7. [rows[p] EXCEPT ![t] = k + 1] \in [Text -> 0 .. MaxRows]
  BY <1>3, <1>6
<1>8. rows' \in [Party -> [Text -> 0 .. MaxRows]]
  BY <1>3, <1>5, <1>7
<1>9. TypeOK' /\ SessionInv' /\ MailInv'
  BY <1>5, <1>8 DEF DmInv, TypeOK, SessionInv, MailInv
<1>10. ShownWasWritten'
  <2> SUFFICES ASSUME NEW q \in Party, NEW u \in Text, rows'[q][u] > 0
               PROVE  u \in sent[Peer(q)]
    BY <1>5 DEF ShownWasWritten
  <2>1. CASE q = p /\ u = t
    BY <1>1, <1>2, <2>1
  <2>2. CASE ~(q = p /\ u = t)
    <3>1. rows'[q][u] = rows[q][u]
      BY <1>3, <1>5, <2>2
    <3> QED
      BY <3>1 DEF DmInv, ShownWasWritten
  <2> QED
    BY <2>1, <2>2
<1> QED
  BY <1>9, <1>10 DEF DmInv

LEMMA NextDm == DmInv /\ [Next]_vars => DmInv'
<1> SUFFICES ASSUME DmInv, [Next]_vars PROVE DmInv'
  OBVIOUS
<1>1. ASSUME NEW p \in Party, NEW pubkey \in BOOLEAN, AddFriend(p, pubkey)
      PROVE  DmInv'
  <2>1. friend' \in [Party -> {"absent", "unkeyed", "keyed"}]
    BY <1>1 DEF AddFriend, DmInv, TypeOK
  <2> QED
    BY <1>1, <2>1 DEF AddFriend, DmInv, TypeOK, SessionInv, MailInv, ShownWasWritten
<1>2. ASSUME NEW p \in Party, RemoveFriend(p)
      PROVE  DmInv'
  <2>1. friend' \in [Party -> {"absent", "unkeyed", "keyed"}]
    BY <1>2 DEF RemoveFriend, DmInv, TypeOK
  <2> QED
    BY <1>2, <2>1 DEF RemoveFriend, DmInv, TypeOK, SessionInv, MailInv, ShownWasWritten
<1>3. ASSUME NEW p \in Party, NEW t \in Text, SendPrivateMessage(p, t)
      PROVE  DmInv'
  BY <1>3, SendPrivateMessageKeeps
<1>4. ASSUME UNCHANGED vars
      PROVE  DmInv'
  BY <1>4 DEF vars, DmInv, TypeOK, SessionInv, MailInv, ShownWasWritten
<1>5. ASSUME NEW p \in Party, NEW m \in wire, ReceiveX3dhDm(p, m)
      PROVE  DmInv'
  <2>1. ~AcceptsEnvelope(p, m)
    BY <1>5, NothingOpens DEF ReceiveX3dhDm
  <2>2. UNCHANGED vars
    BY <1>5, <2>1 DEF ReceiveX3dhDm, vars
  <2> QED
    BY <1>4, <2>2
<1>6. ASSUME NEW p \in Party, PollMailbox(p)
      PROVE  DmInv'
  BY <1>6, PollMailboxKeeps
<1>7. ASSUME NEW p \in Party, RecordExpires(p)
      PROVE  DmInv'
  <2>1. mailbox' = [mailbox EXCEPT ![p] = None] /\ mailbox \in [Party -> Mail \cup {None}]
    BY <1>7 DEF RecordExpires, DmInv, TypeOK
  <2>2. /\ mailbox' \in [Party -> Mail \cup {None}]
        /\ \A q \in Party : mailbox'[q] # None => mailbox'[q] = mailbox[q]
    BY <2>1
  <2> QED
    BY <1>7, <2>2 DEF RecordExpires, DmInv, TypeOK, SessionInv, MailInv, ShownWasWritten
<1> QED
  BY <1>1, <1>2, <1>3, <1>4, <1>5, <1>6, <1>7 DEF Next

(* The strengthening is an invariant of the specification.                 *)
THEOREM DmCorrect == Spec => []DmInv
BY InitDm, NextDm, PTL DEF Spec

(* The rows of private_messages, ratchet_states and friends (db.rs 350-440) *)
(* and what goes over the network keep their types.                        *)
THEOREM DmTypeCorrect == Spec => []TypeOK
<1>1. DmInv => TypeOK
  BY DEF DmInv
<1> QED
  BY <1>1, DmCorrect, PTL

(* What SendPrivateMessage and the poll of the mailbox (lib.rs 1267-1419    *)
(* and 1888-1943) come to: whatever a peer is shown, the other side wrote.  *)
THEOREM ShownWasWrittenHolds == Spec => []ShownWasWritten
<1>1. DmInv => ShownWasWritten
  BY DEF DmInv
<1> QED
  BY <1>1, DmCorrect, PTL

(* save_dr_state after every encryption (lib.rs 1294-1365): friends removed *)
(* and added and envelopes lost do not make a message key serve twice.      *)
THEOREM DmMessageKeys == Spec => []MessageKeysUnique
<1>1. ASSUME DmInv
      PROVE  MessageKeysUnique
  <2> SUFFICES ASSUME NEW m1 \in wire, NEW m2 \in wire, m1.mk = m2.mk
               PROVE  m1 = m2
    BY DEF MessageKeysUnique
  <2>1. PICK r : m1.mk = <<r, m1.n>> /\ m2.mk = <<r, m2.n>>
    BY <1>1 DEF DmInv, SessionInv, OnChain
  <2>2. m1.n = m2.n
    <3>1. <<r, m1.n>>[2] = m1.n /\ <<r, m2.n>>[2] = m2.n
      OBVIOUS
    <3>2. <<r, m1.n>> = <<r, m2.n>>
      BY <2>1
    <3> QED
      BY <3>1, <3>2, Zenon
  <2> QED
    BY <1>1, <2>2 DEF DmInv, SessionInv
<1>2. DmInv => MessageKeysUnique
  BY <1>1
<1> QED
  BY <1>2, DmCorrect, PTL

(* The X3dhDm handler (lib.rs 1699-1750) with load_or_init_dr_state: as the *)
(* receiver of a first envelope starts as the initiator too, no envelope of *)
(* a session the program set up is ever opened, for any MAX_SKIP.           *)
THEOREM NoEnvelopeOpens ==
  Spec => [](\A p \in Party : \A m \in wire : m.from = Peer(p) => ~AcceptsEnvelope(p, m))
<1>1. DmInv => \A p \in Party : \A m \in wire : m.from = Peer(p) => ~AcceptsEnvelope(p, m)
  BY NothingOpens
<1> QED
  BY <1>1, DmCorrect, PTL

(* The branches of SendPrivateMessage (lib.rs 1285-1416): an envelope or a  *)
(* record leaves only for a friend whose key is known.                      *)
THEOREM LeavesOnlyUnderKeyHolds == Spec => LeavesOnlyUnderKey
<1> DEFINE Left(p) ==
      (wire' # wire \/ mailbox'[Peer(p)] \notin {mailbox[Peer(p)], None}) /\ sent'[p] # sent[p]
<1>1. ASSUME DmInv, Next, NEW p \in Party, Left(p)
      PROVE  friend[p] = "keyed"
  <2>1. PICK q \in Party, t \in Text : SendPrivateMessage(q, t)
    BY <1>1 DEF Next, AddFriend, RemoveFriend, ReceiveX3dhDm, PollMailbox, RecordExpires
  <2>2. q = p
    BY <1>1, <2>1 DEF SendPrivateMessage, DmInv, TypeOK
  <2>3. HasKey(q)
    BY <1>1, <2>1, <2>2 DEF SendPrivateMessage
  <2> QED
    BY <2>2, <2>3 DEF HasKey
<1>2. DmInv /\ [Next]_vars => [\A p \in Party : Left(p) => friend[p] = "keyed"]_vars
  BY <1>1
<1>3. Spec => [][\A p \in Party : Left(p) => friend[p] = "keyed"]_vars
  <2> HIDE DEF Left
  <2> QED
    BY <1>2, DmCorrect, PTL DEF Spec
<1> QED
  BY <1>3 DEF LeavesOnlyUnderKey
-----------------------------------------------------------------------------
(* SendPrivateMessage is a write: the register of the other side holds the  *)
(* message, or nothing left (lib.rs 1285-1416).                             *)
LEMMA SendIsWrite ==
  ASSUME DmInv, NEW p \in Party, NEW t \in Text, SendPrivateMessage(p, t)
  PROVE  Register!Write(p, t)
<1>1. /\ \A q \in Party : t \notin sent[q]
      /\ sent' = [sent EXCEPT ![p] = sent[p] \cup {t}] /\ UNCHANGED rows
  BY DEF SendPrivateMessage, Unwritten
<1>2. \/ UNCHANGED mailbox
      \/ \E q \in Party \ {p} : mailbox' = [mailbox EXCEPT ![q] = [from |-> p, text |-> t]]
  <2>1. CASE HasKey(p)
    BY <2>1, PartyPeer DEF SendPrivateMessage, MailboxOwner, OfflineMsg
  <2>2. CASE ~HasKey(p)
    BY <2>2 DEF SendPrivateMessage
  <2> QED
    BY <2>1, <2>2
<1> QED
  BY <1>1, <1>2 DEF Register!Write

(* A poll that finds a record it has not seen shows the register            *)
(* (lib.rs 1888-1943).                                                      *)
LEMMA PollIsShow ==
  ASSUME DmInv, NEW p \in Party, PollMailbox(p)
  PROVE  Register!Show(p)
<1>1. PICK r \in Mail : r = mailbox[p]
  BY DEF PollMailbox, DmInv, TypeOK
<1>2. PICK t \in Text : t = r.text
  BY <1>1 DEF Mail
<1>3. PICK k \in 0 .. MaxRows : k = rows[p][t]
  BY DEF DmInv, TypeOK
<1>4. /\ mailbox[p] # None /\ ~(k > 0 /\ t \in NoncePrefixed)
      /\ rows' = [rows EXCEPT ![p][t] = rows[p][t] + 1] /\ UNCHANGED <<sent, mailbox>>
  BY <1>1, <1>2, <1>3 DEF PollMailbox, AlreadySeen
<1>5. t \in NoncePrefixed => rows[p][t] = 0
  BY <1>3, <1>4, DmAssumption
<1> QED
  BY <1>1, <1>2, <1>4, <1>5 DEF Register!Show

(* The friends table is not part of the register, and neither are the       *)
(* envelopes: none opens.                                                   *)
LEMMA RegisterStep == DmInv /\ [Next]_vars => [Register!Next]_(Register!registerVars)
<1> SUFFICES ASSUME DmInv, [Next]_vars PROVE [Register!Next]_(Register!registerVars)
  OBVIOUS
<1>1. ASSUME NEW p \in Party, NEW pubkey \in BOOLEAN, AddFriend(p, pubkey)
      PROVE  UNCHANGED Register!registerVars
  BY <1>1 DEF AddFriend, Register!registerVars
<1>2. ASSUME NEW p \in Party, RemoveFriend(p)
      PROVE  UNCHANGED Register!registerVars
  BY <1>2 DEF RemoveFriend, Register!registerVars
<1>3. ASSUME NEW p \in Party, NEW t \in Text, SendPrivateMessage(p, t)
      PROVE  Register!Next
  BY <1>3, SendIsWrite DEF Register!Next
<1>4. ASSUME NEW p \in Party, NEW m \in wire, ReceiveX3dhDm(p, m)
      PROVE  UNCHANGED Register!registerVars
  <2>1. ~AcceptsEnvelope(p, m)
    BY <1>4, NothingOpens DEF ReceiveX3dhDm
  <2> QED
    BY <1>4, <2>1 DEF ReceiveX3dhDm, Register!registerVars
<1>5. ASSUME NEW p \in Party, PollMailbox(p)
      PROVE  Register!Next
  BY <1>5, PollIsShow DEF Register!Next
<1>6. ASSUME NEW p \in Party, RecordExpires(p)
      PROVE  Register!Next
  <2>1. Register!Expire(p)
    BY <1>6 DEF RecordExpires, Register!Expire
  <2> QED
    BY <2>1 DEF Register!Next
<1>7. ASSUME UNCHANGED vars
      PROVE  UNCHANGED Register!registerVars
  BY <1>7 DEF vars, Register!registerVars
<1> QED
  BY <1>1, <1>2, <1>3, <1>4, <1>5, <1>6, <1>7 DEF Next

(* SendPrivateMessage, the X3dhDm handler and the poll of the mailbox       *)
(* (lib.rs 1267-1419, 1699-1750, 1888-1943) implement one register for each *)
(* peer: for any MAX_SKIP and any texts, the envelopes add nothing to it.   *)
THEOREM DmImplementsRegister == Spec => ImplementsRegister
<1>1. Init => Register!Init
  BY DEF Init, Register!Init
<1> QED
  BY <1>1, RegisterStep, DmCorrect, PTL DEF Spec, ImplementsRegister, Register!Spec
=============================================================================
