----------------------------- MODULE DrSession -----------------------------
(***************************************************************************)
(* Two peers that hold a correctly paired Double Ratchet session, the way  *)
(* the Tauri event loop uses it: the state is loaded from the database for *)
(* every message, the operation runs on the copy, and the copy is stored   *)
(* back after every encryption but only after a successful decryption.     *)
(*                                                                         *)
(* Envelopes may be lost, reordered and delivered again: wire keeps every  *)
(* envelope ever sent, and Receive may pick any of them at any time.       *)
(***************************************************************************)
EXTENDS DoubleRatchet, FiniteSets

CONSTANT Text   \* one member for every message that may be written

VARIABLES
  dr,       \* dr[p]: the row "dr:<peer>" of p's table ratchet_states
  wire,     \* the envelopes handed to the network, with their sender
  rows,     \* rows[p][t]: received rows of p's table private_messages
  nextKey   \* the next key pair the random number generator returns: pairs
            \* are numbered as drawn, and a pair drawn by a decryption whose
            \* state is discarded was seen by nobody, so its number is reused

vars == <<dr, wire, rows, nextKey>>

Party == {"alice", "bob"}

Peer(p) == IF p = "alice" THEN "bob" ELSE "alice"

(***************************************************************************)
(* The handshake secret is the empty sequence of DH outputs, Bob's offline *)
(* key pair is 0, and Alice has drawn pair 1.                              *)
(***************************************************************************)
Init ==
  /\ dr = [p \in Party |-> IF p = "alice" THEN InitAlice(<<>>, 0, 1)
                                          ELSE InitBob(<<>>, 0)]
  /\ wire = {}
  /\ rows = [p \in Party |-> [t \in Text |-> 0]]
  /\ nextKey = 2

Unsent == {t \in Text : \A m \in wire : m.text # t}

Addressed(p, m) == m.from = Peer(p)

FromSender(p, e) ==
  [from |-> p, dh |-> e.dh, pn |-> e.pn, n |-> e.n, mk |-> e.mk, text |-> e.text]

(***************************************************************************)
(* SendPrivateMessage once the friend and the public key are known.        *)
(***************************************************************************)
Send(p, t) ==
  /\ t \in Unsent
  /\ CanEncrypt(dr[p])
  /\ wire' = wire \cup {FromSender(p, Envelope(dr[p], t))}
  /\ dr' = [dr EXCEPT ![p] = AfterEncrypt(@)]
  /\ UNCHANGED <<rows, nextKey>>

(***************************************************************************)
(* Handling of X3dhDm.  A failed decryption stores nothing; a successful   *)
(* one saves the message and the state.                                    *)
(***************************************************************************)
CommitMutant(s, m) == s   \* save_dr_state is forgotten after a decryption

Commit(s, m) == IF Decrypts(s, m, nextKey) THEN AfterDecrypt(s, m, nextKey) ELSE s

DrewKey(p, m) == dr'[p].dh_send # dr[p].dh_send

Receive(p, m) ==
  /\ Addressed(p, m)
  /\ dr' = [dr EXCEPT ![p] = Commit(@, m)]
  /\ rows' = IF Decrypts(dr[p], m, nextKey)
             THEN [rows EXCEPT ![p][m.text] = @ + 1] ELSE rows
  /\ nextKey' = IF DrewKey(p, m) THEN nextKey + 1 ELSE nextKey
  /\ UNCHANGED wire

Next ==
  \/ \E p \in Party, t \in Text : Send(p, t)
  \/ \E p \in Party, m \in wire : Receive(p, m)

Spec == Init /\ [][Next]_vars
-----------------------------------------------------------------------------
(***************************************************************************)
(* Types.                                                                  *)
(***************************************************************************)
Wire ==
  [from: Party, dh: Nat, pn: Nat, n: Nat, mk: RootKey \X Nat, text: Text]

(* The records of double_ratchet.rs:26-64 keep their types: counters never  *)
(* go below zero and every chain key in use is present.                     *)
TypeOK ==
  /\ dr \in [Party -> DrState]
  /\ wire \subseteq Wire
  /\ rows \in [Party -> [Text -> Nat]]
  /\ nextKey \in Nat

-----------------------------------------------------------------------------
(***************************************************************************)
(* The receiver's cursor in the peer's chains.                             *)
(***************************************************************************)
Delivered(m) == rows[Peer(m.from)][m.text] > 0

Passed(p, m) ==
  /\ dr[p].dh_recv # NoKey
  /\ \/ m.dh < dr[p].dh_recv
     \/ m.dh = dr[p].dh_recv /\ m.n < dr[p].n_recv

InWindow(p, m) ==
  IF m.dh = dr[p].dh_recv
  THEN m.n \in dr[p].n_recv .. (dr[p].n_recv + MAX_SKIP)
  ELSE m.pn <= dr[p].n_recv + MAX_SKIP /\ m.n <= MAX_SKIP

KeyRecord(m) == [dh_pub |-> m.dh, n |-> m.n, mk |-> m.mk]

Missing(p) == {m \in wire : Addressed(p, m) /\ Passed(p, m) /\ ~Delivered(m)}

(* A message is shown at most once, however often its envelope arrives and  *)
(* whatever arrived in between (try_skipped removes the key it uses; a      *)
(* consumed chain key is gone).                                             *)
AtMostOnce == \A p \in Party, t \in Text : rows[p][t] <= 1

(* encrypt never uses one message key for two envelopes, in either          *)
(* direction and across ratchet steps.                                      *)
MessageKeysUnique == \A m1, m2 \in wire : m1.mk = m2.mk => m1 = m2

(* The forward secrecy that kdf_ck and the removal in try_skipped are for:  *)
(* a stored state can no longer derive the key of a message its owner has   *)
(* sent, nor of one its owner has received.                                 *)
ForwardSecrecy ==
  \A m \in wire :
    /\ ~CanDerive(dr[m.from], m.mk)
    /\ Delivered(m) => ~CanDerive(dr[Peer(m.from)], m.mk)

(* The skipped keys are those of the messages that were sent, passed over   *)
(* and not received: none is kept too long, none is dropped too early, and  *)
(* no (dh_pub, n) pair is stored twice.                                     *)
SkippedAreTheMissing ==
  \A p \in Party :
    dr[p].skipped = {KeyRecord(m) : m \in Missing(p)}

(* THREAT_MODEL.md:283 says of skip_message_keys that "skipped-message keys *)
(* are bounded by MAX_SKIP".  The code bounds what one call adds, and       *)
(* nothing ever removes the key of a lost message.                          *)
SkippedBounded == \A p \in Party : Cardinality(dr[p].skipped) <= MAX_SKIP

(* decrypt accepts an envelope exactly when its message was not received    *)
(* and is either behind the cursor or at most MAX_SKIP messages ahead of it *)
(* in its chain and in the chain before: order, loss and replays of other   *)
(* envelopes never cost a message, and MAX_SKIP is the only limit.          *)
AcceptsExactly ==
  \A p \in Party : \A m \in wire :
    Addressed(p, m) =>
      (Decrypts(dr[p], m, nextKey) <=> ~Delivered(m) /\ (Passed(p, m) \/ InWindow(p, m)))

(* The session implements the abstract channel: what is written is the text *)
(* of an envelope, what is shown is a row saved by the X3dhDm handler.      *)
Outbox == [p \in Party |-> {m.text : m \in {e \in wire : e.from = p}}]

Channel == INSTANCE DrChannel WITH outbox <- Outbox

ImplementsChannel == Channel!Spec
-----------------------------------------------------------------------------
(***************************************************************************)
(* The inductive invariant.  Only one side at a time can take a ratchet    *)
(* step, so the chains of the whole session are numbered 1, 2, 3, ... by   *)
(* the key pair that opens them and chain c is derived from RootOf(c).     *)
(***************************************************************************)
RootOf(c) == [i \in 1 .. c |-> {i - 1, i}]

KeyOf(c, n) == <<RootOf(c), n>>

(* What a stored state holds is determined by its own chain and counters.   *)
StateInv ==
  \A p \in Party :
    LET s == dr[p] IN
    /\ s.root_key = RootOf(s.dh_send)
    /\ s.ck_send = IF s.dh_send = 0 THEN NoKey
                   ELSE [root |-> RootOf(s.dh_send), step |-> s.n_send]
    /\ s.dh_recv = IF s.dh_send = 0 THEN NoKey ELSE s.dh_send - 1
    /\ s.ck_recv = IF s.dh_send < 2 THEN NoKey
                   ELSE [root |-> RootOf(s.dh_send - 1), step |-> s.n_recv]
    /\ s.dh_send = 0 => s.n_send = 0
    /\ s.dh_send < 2 => s.n_recv = 0
    /\ s.dh_send < 3 => s.pn = 0

(* The two sides are one ratchet step apart.                                *)
TurnInv ==
  LET a == dr["alice"].dh_send
      b == dr["bob"].dh_send
  IN  \/ a = b + 1 /\ nextKey = a + 1
      \/ b = a + 1 /\ nextKey = b + 1

(* A cursor never runs ahead of the chain it is in.                         *)
CursorInv ==
  \A p \in Party :
    dr[Peer(p)].dh_recv = dr[p].dh_send => dr[Peer(p)].n_recv <= dr[p].n_send

(* Every envelope belongs to one chain of its sender, under that chain's    *)
(* key for its number.                                                      *)
EnvelopeInv ==
  \A m \in wire :
    LET s == dr[m.from] IN
    /\ m.mk = KeyOf(m.dh, m.n)
    /\ 1 <= m.dh /\ m.dh <= s.dh_send
    /\ m.dh # dr[Peer(m.from)].dh_send /\ m.dh # s.dh_send - 1
    /\ m.dh = s.dh_send => m.n < s.n_send /\ m.pn = s.pn
    /\ m.dh = s.dh_send - 2 => m.n < s.pn
    /\ m.dh < 3 => m.pn = 0

(* Chains have no holes, and pn tells how long the previous one was.        *)
ChainInv ==
  /\ \A p \in Party :
       /\ \A i \in 0 .. dr[p].n_send - 1 :
            \E m \in wire : m.from = p /\ m.dh = dr[p].dh_send /\ m.n = i
       /\ \A i \in 0 .. dr[p].pn - 1 :
            \E m \in wire : m.from = p /\ m.dh = dr[p].dh_send - 2 /\ m.n = i
  /\ \A m \in wire :
       /\ \A i \in 0 .. m.n - 1 :
            \E e \in wire : e.from = m.from /\ e.dh = m.dh /\ e.n = i
       /\ \A i \in 0 .. m.pn - 1 :
            \E e \in wire : e.from = m.from /\ e.dh = m.dh - 2 /\ e.n = i
       /\ \A e \in wire : e.from = m.from /\ e.dh = m.dh - 2 => e.n < m.pn

(* A chain and a number name one envelope, and so does a text.              *)
IdentityInv ==
  \A m1, m2 \in wire :
    /\ m1.dh = m2.dh /\ m1.n = m2.n => m1 = m2
    /\ m1.text = m2.text => m1 = m2

(* What was shown was sent and lies behind the cursor.                      *)
ShownInv ==
  \A p \in Party, t \in Text :
    rows[p][t] > 0 => \E m \in wire : m.text = t /\ Addressed(p, m) /\ Passed(p, m)

IInv ==
  /\ TypeOK
  /\ StateInv
  /\ TurnInv
  /\ CursorInv
  /\ EnvelopeInv
  /\ ChainInv
  /\ IdentityInv
  /\ ShownInv
  /\ SkippedAreTheMissing
  /\ AtMostOnce
=============================================================================
