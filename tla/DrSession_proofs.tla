-------------------------- MODULE DrSession_proofs --------------------------
(***************************************************************************)
(* Proofs about DrSession for every MAX_SKIP and every set of texts: IInv  *)
(* is inductive, and the safety properties of DrSession follow from it.    *)
(***************************************************************************)
EXTENDS DrSession, TLAPS

(***************************************************************************)
(* Root keys.                                                              *)
(***************************************************************************)

(* RootOf(c) is a root key made of c Diffie-Hellman outputs.                *)
LEMMA RootOfType ==
  ASSUME NEW c \in Nat
  PROVE  RootOf(c) \in RootKey /\ Len(RootOf(c)) = c
BY DEF RootOf, RootKey

(* A chain key is not the None of an empty Option.                          *)
LEMMA ChainKeyIsKey ==
  ASSUME NEW rk \in RootKey, NEW n \in Nat
  PROVE  [root |-> rk, step |-> n] # NoKey
BY NoKeyAssumption DEF RootKey, ChainKey

(* Chains have different root keys (kdf_rk mixes in one output per step).   *)
LEMMA RootOfInjective ==
  ASSUME NEW c \in Nat, NEW d \in Nat, RootOf(c) = RootOf(d)
  PROVE  c = d
BY RootOfType

(* One step of kdf_rk from chain c opens chain c + 1.                       *)
LEMMA RootOfStep ==
  ASSUME NEW c \in Nat
  PROVE  KdfRk(RootOf(c), Dh(c, c + 1)) = RootOf(c + 1)
<1> DEFINE s == KdfRk(RootOf(c), Dh(c, c + 1))
<1>1. RootOf(c) \in Seq(SUBSET Nat) /\ Len(RootOf(c)) = c
  BY RootOfType DEF RootKey
<1>2. s \in Seq(SUBSET Nat) /\ Len(s) = c + 1
  BY <1>1 DEF KdfRk, Dh
<1>3. ASSUME NEW i \in 1 .. c + 1
      PROVE  s[i] = RootOf(c + 1)[i]
  BY <1>1 DEF KdfRk, Dh, RootOf
<1>4. RootOf(c + 1) \in Seq(SUBSET Nat) /\ Len(RootOf(c + 1)) = c + 1
  BY RootOfType DEF RootKey
<1> QED
  BY <1>2, <1>3, <1>4

(* A step from chain c with any other key pair opens no chain of the        *)
(* session but c + 1.                                                       *)
LEMMA RootOfOnlyStep ==
  ASSUME NEW c \in Nat, NEW d \in Nat, NEW k \in Nat,
         KdfRk(RootOf(c), Dh(c, k)) = RootOf(d)
  PROVE  d = c + 1
<1>1. RootOf(c) \in Seq(SUBSET Nat) /\ Len(RootOf(c)) = c
  BY RootOfType DEF RootKey
<1>2. Len(KdfRk(RootOf(c), Dh(c, k))) = c + 1
  BY <1>1 DEF KdfRk, Dh
<1> QED
  BY <1>2, RootOfType
-----------------------------------------------------------------------------
(* The paired initial states of init_alice and init_bob satisfy IInv.       *)
LEMMA InitIInv == Init => IInv
<1> SUFFICES ASSUME Init PROVE IInv
  OBVIOUS
<1> DEFINE rk == KdfRk(<<>>, Dh(1, 0))
<1>1. rk = RootOf(1) /\ rk \in RootKey
  <2>1. RootOf(0) = <<>>
    BY RootOfType DEF RootKey
  <2>2. Dh(1, 0) = Dh(0, 1)
    BY DEF Dh
  <2> QED
    BY <2>1, <2>2, RootOfStep, RootOfType
<1>2. RootOf(0) = <<>> /\ RootOf(0) \in RootKey
  BY RootOfType DEF RootKey
<1>3. dr["alice"] =
        [dh_send |-> 1, dh_recv |-> 0, root_key |-> rk,
         ck_send |-> [root |-> rk, step |-> 0], ck_recv |-> NoKey,
         n_send |-> 0, n_recv |-> 0, pn |-> 0, skipped |-> {}]
  BY DEF Init, Party, InitAlice, FirstChainKey
<1>4. dr["bob"] =
        [dh_send |-> 0, dh_recv |-> NoKey, root_key |-> <<>>,
         ck_send |-> NoKey, ck_recv |-> NoKey,
         n_send |-> 0, n_recv |-> 0, pn |-> 0, skipped |-> {}]
  BY DEF Init, Party, InitBob
<1>5. TypeOK
  <2>1. dr["alice"] \in DrState
    BY <1>1, <1>3 DEF DrState, ChainKey
  <2>2. dr["bob"] \in DrState
    BY <1>2, <1>4 DEF DrState, ChainKey
  <2> QED
    BY <2>1, <2>2 DEF Init, TypeOK, Party
<1>6. StateInv
  BY <1>1, <1>2, <1>3, <1>4 DEF StateInv, Party
<1>7. TurnInv /\ CursorInv
  BY <1>3, <1>4, NoKeyAssumption DEF TurnInv, CursorInv, Init, Party, Peer
<1>8. SkippedAreTheMissing
  BY <1>3, <1>4 DEF SkippedAreTheMissing, Missing, Init, Party
<1>9. EnvelopeInv /\ ChainInv /\ IdentityInv
  BY <1>3, <1>4 DEF EnvelopeInv, ChainInv, IdentityInv, Init, Party
<1>10. ShownInv /\ AtMostOnce
  BY DEF ShownInv, AtMostOnce, Init, Party
<1> QED
  BY <1>5, <1>6, <1>7, <1>8, <1>9, <1>10 DEF IInv
-----------------------------------------------------------------------------
(* A stored state, field by field.                                          *)
LEMMA StateFacts ==
  ASSUME IInv, NEW p \in Party
  PROVE  /\ dr[p] \in DrState
         /\ dr[p].root_key = RootOf(dr[p].dh_send)
         /\ dr[p].dh_send = 0 =>
              /\ dr[p].ck_send = NoKey /\ dr[p].dh_recv = NoKey /\ dr[p].n_send = 0
         /\ dr[p].dh_send # 0 =>
              /\ dr[p].ck_send = [root |-> RootOf(dr[p].dh_send), step |-> dr[p].n_send]
              /\ dr[p].dh_recv = dr[p].dh_send - 1
         /\ dr[p].dh_send < 2 => dr[p].ck_recv = NoKey /\ dr[p].n_recv = 0
         /\ dr[p].dh_send >= 2 =>
              dr[p].ck_recv = [root |-> RootOf(dr[p].dh_send - 1), step |-> dr[p].n_recv]
         /\ dr[p].dh_send < 3 => dr[p].pn = 0
<1>1. dr[p] \in DrState /\ dr[p].dh_send \in Nat
  BY DEF IInv, TypeOK, DrState
<1>2. StateInv
  BY DEF IInv
<1> QED
  BY <1>1, <1>2 DEF StateInv

(* Where an envelope lies from its receiver's point of view: in the chain   *)
(* that comes next, or in one the receiver already knows.                   *)
LEMMA Position ==
  ASSUME IInv, NEW p \in Party, NEW m \in wire, Addressed(p, m)
  PROVE  /\ dr[p] \in DrState /\ m \in Wire /\ nextKey \in Nat
         /\ m.from \in Party /\ Peer(m.from) = p /\ m.from = Peer(p)
         /\ m.mk = KeyOf(m.dh, m.n) /\ m.dh >= 1
         /\ \/ /\ m.dh = dr[p].dh_send + 1
               /\ m.dh = dr[Peer(p)].dh_send
               /\ nextKey = dr[p].dh_send + 2
            \/ dr[p].dh_send >= 2 /\ m.dh < dr[p].dh_send
<1>1. dr[p] \in DrState /\ dr[Peer(p)] \in DrState /\ m \in Wire /\ nextKey \in Nat
  BY DEF IInv, TypeOK, Party, Peer
<1>2. m.from \in Party /\ Peer(m.from) = p /\ m.from = Peer(p)
  BY <1>1 DEF Addressed, Party, Peer
<1>3. /\ m.mk = KeyOf(m.dh, m.n) /\ m.dh >= 1 /\ m.dh <= dr[Peer(p)].dh_send
      /\ m.dh # dr[p].dh_send
  BY <1>1, <1>2 DEF IInv, EnvelopeInv
<1>4. \/ dr[p].dh_send = dr[Peer(p)].dh_send + 1
      \/ dr[Peer(p)].dh_send = dr[p].dh_send + 1 /\ nextKey = dr[p].dh_send + 2
  <2>1. CASE p = "alice"
    BY <1>1, <2>1 DEF IInv, TurnInv, Peer, DrState
  <2>2. CASE p = "bob"
    BY <1>1, <2>2 DEF IInv, TurnInv, Peer, DrState
  <2> QED
    BY <2>1, <2>2 DEF Party
<1>5. m.dh \in Nat /\ dr[p].dh_send \in Nat /\ dr[Peer(p)].dh_send \in Nat
  BY <1>1 DEF DrState, Wire
<1> QED
  BY <1>1, <1>2, <1>3, <1>4, <1>5

(* A skipped key for the envelope is stored exactly when its message is     *)
(* missing, and it is the right key.                                        *)
LEMMA SkippedKeyOfEnvelope ==
  ASSUME IInv, NEW p \in Party, NEW m \in wire, Addressed(p, m)
  PROVE  TrySkipped(dr[p], m) = IF m \in Missing(p) THEN {KeyRecord(m)} ELSE {}
<1>1. dr[p].skipped = {KeyRecord(e) : e \in Missing(p)}
  BY DEF IInv, SkippedAreTheMissing
<1>2. \A e \in Missing(p) : e \in wire
  BY DEF Missing
<1>3. ASSUME NEW e \in Missing(p), KeyRecord(e).dh_pub = m.dh, KeyRecord(e).n = m.n
      PROVE  e = m
  BY <1>2, <1>3 DEF IInv, IdentityInv, KeyRecord
<1> QED
  BY <1>1, <1>3 DEF TrySkipped, KeyRecord

(* A missing message is decrypted with its skipped key, which is removed.   *)
LEMMA DecryptMissing ==
  ASSUME IInv, NEW p \in Party, NEW m \in Missing(p)
  PROVE  /\ Decrypts(dr[p], m, nextKey)
         /\ AfterDecrypt(dr[p], m, nextKey) = [dr[p] EXCEPT !.skipped = @ \ {KeyRecord(m)}]
<1>1. m \in wire /\ Addressed(p, m)
  BY DEF Missing
<1>2. TrySkipped(dr[p], m) = {KeyRecord(m)}
  BY <1>1, SkippedKeyOfEnvelope
<1> QED
  BY <1>2 DEF Decrypts, AfterDecrypt, UseSkipped, KeyRecord

(* The skipped keys of chain c for the numbers from n up to, not with, k.   *)
KeysOf(c, n, k) == {[dh_pub |-> c, n |-> i, mk |-> KeyOf(c, i)] : i \in n .. k - 1}

(* skip_message_keys on a receiving chain that stands at its cursor: the    *)
(* cursor moves forward to until, never back.                               *)
LEMMA SkipOnChain ==
  ASSUME NEW s, s \in DrState, NEW c \in Nat, NEW until \in Nat,
         s.dh_recv = c, s.ck_recv = [root |-> RootOf(c), step |-> s.n_recv]
  PROVE  SkipMessageKeys(s, until) =
           IF until <= s.n_recv THEN s
           ELSE AdvanceReceiving(s, until, s.skipped \cup KeysOf(c, s.n_recv, until))
<1>1. s.ck_recv # NoKey
  BY RootOfType, NoKeyAssumption DEF RootKey, ChainKey, DrState
<1>2. SkippedKeys(s, until) = KeysOf(c, s.n_recv, until)
  <2>1. ASSUME NEW i \in s.n_recv .. until - 1
        PROVE  [dh_pub |-> s.dh_recv, n |-> i, mk |-> MsgKey(KdfCk(s.ck_recv, i - s.n_recv))]
                 = [dh_pub |-> c, n |-> i, mk |-> KeyOf(c, i)]
    BY DEF MsgKey, KdfCk, KeyOf, DrState
  <2> QED
    BY <2>1 DEF SkippedKeys, KeysOf
<1> QED
  BY <1>1, <1>2 DEF SkipMessageKeys

(* Moving the cursor of a receiving chain in two steps or in one is the     *)
(* same.                                                                    *)
LEMMA AdvanceTwice ==
  ASSUME NEW s, NEW c \in Nat, NEW j \in Nat, NEW k \in Nat, NEW keys, s.n_recv \in Nat,
         s.ck_recv = [root |-> RootOf(c), step |-> s.n_recv]
  PROVE  LET t == AdvanceReceiving(s, j, keys) IN
         /\ t.ck_recv = [root |-> RootOf(c), step |-> j] /\ t.n_recv = j /\ t.skipped = keys
         /\ AdvanceReceiving(t, k, keys) = AdvanceReceiving(s, k, keys)
<1> DEFINE t == AdvanceReceiving(s, j, keys)
<1>1. t.ck_recv = KdfCk(s.ck_recv, j - s.n_recv) /\ t.n_recv = j /\ t.skipped = keys
  BY DEF AdvanceReceiving
<1>2. t.ck_recv = [root |-> RootOf(c), step |-> j]
  BY <1>1 DEF KdfCk
<1>3. KdfCk(t.ck_recv, k - t.n_recv) = KdfCk(s.ck_recv, k - s.n_recv)
  BY <1>1, <1>2 DEF KdfCk
<1>4. /\ t.dh_send = s.dh_send /\ t.dh_recv = s.dh_recv /\ t.root_key = s.root_key
      /\ t.ck_send = s.ck_send /\ t.n_send = s.n_send /\ t.pn = s.pn
  BY DEF AdvanceReceiving
<1> HIDE DEF t
<1>5. AdvanceReceiving(t, k, keys) = AdvanceReceiving(s, k, keys)
  BY <1>3, <1>4 DEF AdvanceReceiving
<1> QED
  BY <1>1, <1>2, <1>5 DEF t

(* In the current receiving chain, a message at or ahead of the cursor and  *)
(* at most MAX_SKIP ahead is decrypted, the keys in between are set aside.  *)
LEMMA DecryptSameChain ==
  ASSUME IInv, NEW p \in Party, NEW m \in wire, Addressed(p, m),
         m \notin Missing(p), m.dh < dr[p].dh_send, m.dh = dr[p].dh_recv
  PROVE  IF dr[p].n_recv <= m.n /\ m.n <= dr[p].n_recv + MAX_SKIP
         THEN /\ Decrypts(dr[p], m, nextKey)
              /\ AfterDecrypt(dr[p], m, nextKey) = AdvanceReceiving(dr[p], m.n + 1,
                          dr[p].skipped \cup KeysOf(m.dh, dr[p].n_recv, m.n))
         ELSE ~Decrypts(dr[p], m, nextKey)
<1> DEFINE s == dr[p]
           keys == s.skipped \cup KeysOf(m.dh, s.n_recv, m.n)
<1>1. /\ s \in DrState /\ m \in Wire /\ m.mk = KeyOf(m.dh, m.n) /\ s.dh_send >= 2
      /\ m.dh \in Nat /\ m.n \in Nat /\ s.n_recv \in Nat /\ s.dh_send \in Nat /\ MAX_SKIP \in Nat
  BY Position, SkipAssumption DEF DrState, Wire
<1>2. s.ck_recv = [root |-> RootOf(m.dh), step |-> s.n_recv] /\ s.ck_recv # NoKey
  <2>1. m.dh = s.dh_send - 1 /\ s.ck_recv = [root |-> RootOf(s.dh_send - 1), step |-> s.n_recv]
    <3>1. s.dh_send # 0
      BY <1>1
    <3> QED
      BY <1>1, <3>1, StateFacts
  <2>2. s.ck_recv = [root |-> RootOf(m.dh), step |-> s.n_recv]
    BY <2>1
  <2>3. [root |-> RootOf(m.dh), step |-> s.n_recv] # NoKey
    BY <1>1, RootOfType, ChainKeyIsKey
  <2> QED
    BY <2>2, <2>3
<1>3. TrySkipped(s, m) = {}
  BY SkippedKeyOfEnvelope
<1>4. Ratcheted(s, m, nextKey) = s /\ ~NeedDhRatchet(s, m)
  BY DEF Ratcheted, NeedDhRatchet
<1>5. Refused(s, m, nextKey) <=> s.n_recv + MAX_SKIP < m.n
  BY <1>2, <1>4 DEF Refused, TooManySkipped
<1>6. Aligned(s, m, nextKey) =
        IF m.n <= s.n_recv THEN s ELSE AdvanceReceiving(s, m.n, keys)
  BY <1>1, <1>2, <1>4, SkipOnChain DEF Aligned
<1>7. CASE s.n_recv + MAX_SKIP < m.n
  BY <1>1, <1>3, <1>5, <1>7 DEF Decrypts
<1>8. CASE m.n < s.n_recv
  <2>1. MsgKey(s.ck_recv) # m.mk
    BY <1>1, <1>2, <1>8 DEF MsgKey, KeyOf
  <2>2. Aligned(s, m, nextKey) = s
    BY <1>1, <1>6, <1>8
  <2> QED
    BY <1>1, <1>3, <1>8, <2>1, <2>2 DEF Decrypts
<1>9. CASE s.n_recv <= m.n /\ m.n <= s.n_recv + MAX_SKIP
  <2> DEFINE al == Aligned(s, m, nextKey)
  <2>1. /\ al.ck_recv = [root |-> RootOf(m.dh), step |-> m.n]
        /\ al.n_recv = m.n /\ al.skipped = keys
        /\ AdvanceReceiving(al, m.n + 1, keys) = AdvanceReceiving(s, m.n + 1, keys)
    <3>1. CASE m.n = s.n_recv
      <4>1. KeysOf(m.dh, s.n_recv, m.n) = {}
        BY <1>1, <3>1 DEF KeysOf
      <4> QED
        BY <1>1, <1>2, <1>6, <3>1, <4>1
    <3>2. CASE m.n > s.n_recv
      <4>1. al = AdvanceReceiving(s, m.n, keys)
        BY <1>1, <1>6, <3>2
      <4> QED
        BY <1>1, <1>2, <3>2, <4>1, AdvanceTwice
    <3> QED
      BY <1>1, <1>9, <3>1, <3>2
  <2>2. MsgKey(al.ck_recv) = m.mk
    BY <1>1, <2>1 DEF MsgKey, KeyOf
  <2>3. Consumed(al) = AdvanceReceiving(s, m.n + 1, keys)
    BY <2>1 DEF Consumed
  <2>4. ~Refused(s, m, nextKey)
    BY <1>1, <1>5, <1>9
  <2> QED
    BY <1>1, <1>3, <1>4, <1>9, <2>2, <2>3, <2>4 DEF Decrypts, AfterDecrypt
<1> QED
  BY <1>1, <1>7, <1>8, <1>9
(* skip_message_keys touches the receiving chain only.                      *)
LEMMA SkipKeepsSending ==
  ASSUME NEW s, NEW until
  PROVE  LET t == SkipMessageKeys(s, until) IN
         /\ t.dh_send = s.dh_send /\ t.dh_recv = s.dh_recv /\ t.root_key = s.root_key
         /\ t.ck_send = s.ck_send /\ t.n_send = s.n_send /\ t.pn = s.pn
<1>1. CASE SkipMessageKeys(s, until) = s
  BY <1>1
<1>2. CASE SkipMessageKeys(s, until) =
             AdvanceReceiving(s, until, s.skipped \cup SkippedKeys(s, until))
  BY <1>2 DEF AdvanceReceiving
<1> QED
  BY <1>1, <1>2 DEF SkipMessageKeys

(* What a ratchet step leaves: the receiving chain is one root step from    *)
(* the state's root key, the sending chain one more.                        *)
LEMMA RatchetShape ==
  ASSUME IInv, NEW p \in Party, NEW m \in wire, Addressed(p, m), m.dh # dr[p].dh_recv
  PROVE  LET r == Ratcheted(dr[p], m, nextKey)
             rk == KdfRk(RootOf(dr[p].dh_send), Dh(dr[p].dh_send, m.dh))
         IN  /\ r.dh_send = nextKey /\ r.dh_recv = m.dh
             /\ r.root_key = KdfRk(rk, Dh(nextKey, m.dh))
             /\ r.ck_send = [root |-> KdfRk(rk, Dh(nextKey, m.dh)), step |-> 0]
             /\ r.ck_recv = [root |-> rk, step |-> 0]
             /\ r.n_send = 0 /\ r.n_recv = 0 /\ r.pn = dr[p].n_send
             /\ r.skipped = SkipMessageKeys(dr[p], m.pn).skipped
             /\ r.ck_recv # NoKey
<1> DEFINE t == SkipMessageKeys(dr[p], m.pn)
           rk == KdfRk(RootOf(dr[p].dh_send), Dh(dr[p].dh_send, m.dh))
<1>1. /\ t.dh_send = dr[p].dh_send /\ t.root_key = RootOf(dr[p].dh_send)
      /\ t.n_send = dr[p].n_send
  <2>1. t.dh_send = dr[p].dh_send /\ t.root_key = dr[p].root_key /\ t.n_send = dr[p].n_send
    BY SkipKeepsSending
  <2>2. dr[p].root_key = RootOf(dr[p].dh_send)
    BY StateFacts
  <2> QED
    BY <2>1, <2>2
<1>2. Ratcheted(dr[p], m, nextKey) = DhRatchet(t, m.dh, nextKey)
  BY DEF Ratcheted, NeedDhRatchet
<1>3. rk \in RootKey
  <2>1. dr[p].dh_send \in Nat /\ m.dh \in Nat
    BY Position DEF DrState, Wire
  <2>2. RootOf(dr[p].dh_send) \in Seq(SUBSET Nat)
    BY <2>1, RootOfType DEF RootKey
  <2> QED
    BY <2>1, <2>2 DEF KdfRk, Dh, RootKey
<1>4. [root |-> rk, step |-> 0] # NoKey
  BY <1>3, ChainKeyIsKey
<1> HIDE DEF t
<1>5. Ratcheted(dr[p], m, nextKey) =
        [dh_send |-> nextKey, dh_recv |-> m.dh, root_key |-> KdfRk(rk, Dh(nextKey, m.dh)),
         ck_send |-> [root |-> KdfRk(rk, Dh(nextKey, m.dh)), step |-> 0],
         ck_recv |-> [root |-> rk, step |-> 0],
         n_send |-> 0, n_recv |-> 0, pn |-> dr[p].n_send, skipped |-> t.skipped]
  BY <1>1, <1>2 DEF DhRatchet, FirstChainKey
<1> QED
  BY <1>4, <1>5 DEF t

(* After a ratchet step the cursor stands at 0 of a chain with that root.   *)
LEMMA RatchetAligned ==
  ASSUME IInv, NEW p \in Party, NEW m \in wire, Addressed(p, m), m.dh # dr[p].dh_recv
  PROVE  LET r == Ratcheted(dr[p], m, nextKey)
             rk == KdfRk(RootOf(dr[p].dh_send), Dh(dr[p].dh_send, m.dh))
         IN  Aligned(dr[p], m, nextKey).ck_recv = [root |-> rk, step |-> m.n]
<1> DEFINE r == Ratcheted(dr[p], m, nextKey)
           rk == KdfRk(RootOf(dr[p].dh_send), Dh(dr[p].dh_send, m.dh))
<1>1. r.ck_recv = [root |-> rk, step |-> 0] /\ r.ck_recv # NoKey /\ r.n_recv = 0
  BY RatchetShape
<1>2. m.n \in Nat
  BY Position DEF Wire
<1> HIDE DEF r
<1>3. CASE m.n <= 0
  BY <1>1, <1>2, <1>3 DEF Aligned, SkipMessageKeys, r
<1>4. CASE m.n > 0
  <2>1. Aligned(dr[p], m, nextKey) =
          AdvanceReceiving(r, m.n, r.skipped \cup SkippedKeys(r, m.n))
    BY <1>1, <1>2, <1>4 DEF Aligned, SkipMessageKeys, r
  <2>2. Aligned(dr[p], m, nextKey).ck_recv = KdfCk(r.ck_recv, m.n - r.n_recv)
    BY <2>1 DEF AdvanceReceiving
  <2> QED
    BY <1>1, <1>2, <2>2 DEF KdfCk
<1> QED
  BY <1>2, <1>3, <1>4

(* An envelope of an older chain whose key is gone is refused.              *)
LEMMA DecryptOldChain ==
  ASSUME IInv, NEW p \in Party, NEW m \in wire, Addressed(p, m),
         m \notin Missing(p), m.dh < dr[p].dh_send, m.dh # dr[p].dh_recv
  PROVE  ~Decrypts(dr[p], m, nextKey)
<1>1. TrySkipped(dr[p], m) = {}
  BY SkippedKeyOfEnvelope
<1>2. dr[p].dh_send \in Nat /\ m.dh \in Nat /\ m.mk = KeyOf(m.dh, m.n)
  BY Position DEF DrState, Wire
<1>3. MsgKey(Aligned(dr[p], m, nextKey).ck_recv)
        = <<KdfRk(RootOf(dr[p].dh_send), Dh(dr[p].dh_send, m.dh)), m.n>>
  <2>1. Aligned(dr[p], m, nextKey).ck_recv =
          [root |-> KdfRk(RootOf(dr[p].dh_send), Dh(dr[p].dh_send, m.dh)), step |-> m.n]
    BY RatchetAligned
  <2> QED
    BY <2>1 DEF MsgKey
<1>4. KdfRk(RootOf(dr[p].dh_send), Dh(dr[p].dh_send, m.dh)) # RootOf(m.dh)
  BY <1>2, RootOfOnlyStep
<1> QED
  BY <1>1, <1>2, <1>3, <1>4 DEF Decrypts, KeyOf
(* The state after a successful ratchet step onto the peer's next chain.    *)
NextChainState(s, m) ==
  [dh_send |-> s.dh_send + 2, dh_recv |-> m.dh, root_key |-> RootOf(s.dh_send + 2),
   ck_send |-> [root |-> RootOf(s.dh_send + 2), step |-> 0],
   ck_recv |-> [root |-> RootOf(m.dh), step |-> m.n + 1],
   n_send |-> 0, n_recv |-> m.n + 1, pn |-> s.n_send,
   skipped |-> (s.skipped \cup KeysOf(s.dh_send - 1, s.n_recv, m.pn)) \cup KeysOf(m.dh, 0, m.n)]

(* Before a ratchet step the rest of the previous chain is set aside.       *)
LEMMA SkipPrevious ==
  ASSUME IInv, NEW p \in Party, NEW m \in wire, Addressed(p, m), m.dh = dr[p].dh_send + 1
  PROVE  SkipMessageKeys(dr[p], m.pn).skipped
           = dr[p].skipped \cup KeysOf(dr[p].dh_send - 1, dr[p].n_recv, m.pn)
<1> DEFINE s == dr[p]
           c == s.dh_send - 1
<1>1. /\ s \in DrState /\ s.dh_send \in Nat /\ s.n_recv \in Nat /\ m \in Wire /\ m.pn \in Nat
  BY Position DEF DrState, Wire
<1>2. CASE s.dh_send < 2
  <2>1. s.ck_recv = NoKey /\ s.n_recv = 0
    BY <1>2, StateFacts
  <2>2. m.pn = 0
    <3>1. EnvelopeInv /\ m.dh < 3
      BY <1>1, <1>2 DEF IInv
    <3> QED
      BY <3>1 DEF EnvelopeInv
  <2>3. KeysOf(c, s.n_recv, m.pn) = {}
    BY <2>1, <2>2 DEF KeysOf
  <2> QED
    BY <2>1, <2>3 DEF SkipMessageKeys
<1>3. CASE s.dh_send >= 2
  <2>1. s.dh_send # 0 /\ c \in Nat
    BY <1>1, <1>3
  <2>2. s.dh_recv = c /\ s.ck_recv = [root |-> RootOf(c), step |-> s.n_recv]
    BY <1>1, <1>3, <2>1, StateFacts
  <2>3. CASE m.pn <= s.n_recv
    <3>1. KeysOf(c, s.n_recv, m.pn) = {}
      BY <1>1, <2>3 DEF KeysOf
    <3> QED
      BY <2>3, <3>1 DEF SkipMessageKeys
  <2>4. CASE ~(m.pn <= s.n_recv)
    <3>1. SkipMessageKeys(s, m.pn) =
            AdvanceReceiving(s, m.pn, s.skipped \cup KeysOf(c, s.n_recv, m.pn))
      BY <1>1, <2>1, <2>2, <2>4, SkipOnChain
    <3> QED
      BY <3>1 DEF AdvanceReceiving
  <2> QED
    BY <2>3, <2>4
<1> QED
  BY <1>1, <1>2, <1>3

(* An envelope of the peer's next chain is decrypted exactly when both its  *)
(* distance in that chain and the rest of the previous one are within       *)
(* MAX_SKIP.                                                                *)
LEMMA DecryptNextChain ==
  ASSUME IInv, NEW p \in Party, NEW m \in wire, Addressed(p, m),
         m \notin Missing(p), m.dh = dr[p].dh_send + 1
  PROVE  IF m.pn <= dr[p].n_recv + MAX_SKIP /\ m.n <= MAX_SKIP
         THEN /\ Decrypts(dr[p], m, nextKey)
              /\ AfterDecrypt(dr[p], m, nextKey) = NextChainState(dr[p], m)
         ELSE ~Decrypts(dr[p], m, nextKey)
<1> DEFINE s == dr[p]
           r == Ratcheted(s, m, nextKey)
           al == Aligned(s, m, nextKey)
           kept == s.skipped \cup KeysOf(s.dh_send - 1, s.n_recv, m.pn)
<1>1. /\ s \in DrState /\ s.dh_send \in Nat /\ s.n_recv \in Nat /\ m \in Wire
      /\ m.pn \in Nat /\ m.n \in Nat /\ m.dh \in Nat /\ MAX_SKIP \in Nat
      /\ nextKey = s.dh_send + 2 /\ m.mk = KeyOf(m.dh, m.n)
  BY Position, SkipAssumption DEF DrState, Wire
<1>2. TrySkipped(s, m) = {}
  BY SkippedKeyOfEnvelope
<1>3. s.dh_recv # m.dh
  <2>1. CASE s.dh_send = 0
    BY <1>1, <2>1, StateFacts, NoKeyAssumption
  <2>2. CASE s.dh_send # 0
    <3>1. s.dh_recv = s.dh_send - 1
      BY <2>2, StateFacts
    <3> QED
      BY <1>1, <3>1
  <2> QED
    BY <2>1, <2>2
<1>4. KdfRk(RootOf(s.dh_send), Dh(s.dh_send, m.dh)) = RootOf(m.dh)
  BY <1>1, RootOfStep
<1>5. KdfRk(RootOf(m.dh), Dh(nextKey, m.dh)) = RootOf(s.dh_send + 2)
  <2>1. Dh(nextKey, m.dh) = Dh(m.dh, m.dh + 1) /\ m.dh + 1 = s.dh_send + 2
    BY <1>1 DEF Dh
  <2> QED
    BY <1>1, <2>1, RootOfStep
<1>6. /\ r.dh_send = s.dh_send + 2 /\ r.dh_recv = m.dh /\ r.root_key = RootOf(s.dh_send + 2)
      /\ r.ck_send = [root |-> RootOf(s.dh_send + 2), step |-> 0]
      /\ r.ck_recv = [root |-> RootOf(m.dh), step |-> 0]
      /\ r.n_send = 0 /\ r.n_recv = 0 /\ r.pn = s.n_send /\ r.ck_recv # NoKey
  <2>1. /\ r.dh_send = nextKey /\ r.dh_recv = m.dh
        /\ r.root_key = KdfRk(RootOf(m.dh), Dh(nextKey, m.dh))
        /\ r.ck_send = [root |-> KdfRk(RootOf(m.dh), Dh(nextKey, m.dh)), step |-> 0]
        /\ r.ck_recv = [root |-> RootOf(m.dh), step |-> 0]
        /\ r.n_send = 0 /\ r.n_recv = 0 /\ r.pn = s.n_send /\ r.ck_recv # NoKey
    BY <1>3, <1>4, RatchetShape
  <2> QED
    BY <1>1, <1>5, <2>1
<1>7. r.skipped = kept
  BY <1>3, RatchetShape, SkipPrevious
<1>8. Refused(s, m, nextKey) <=> s.n_recv + MAX_SKIP < m.pn \/ MAX_SKIP < m.n
  BY <1>1, <1>3, <1>6 DEF Refused, NeedDhRatchet, TooManySkipped
<1>9. CASE ~(m.pn <= s.n_recv + MAX_SKIP /\ m.n <= MAX_SKIP)
  BY <1>1, <1>2, <1>8, <1>9 DEF Decrypts
<1>10. CASE m.pn <= s.n_recv + MAX_SKIP /\ m.n <= MAX_SKIP
  <2>1. ~Refused(s, m, nextKey) /\ ~TooManySkipped(s, m.pn)
    BY <1>1, <1>8, <1>10 DEF TooManySkipped
  <2>2. al.ck_recv = [root |-> RootOf(m.dh), step |-> m.n]
    BY <1>3, <1>4, RatchetAligned
  <2>3. Decrypts(s, m, nextKey)
    <3>1. MsgKey(al.ck_recv) = m.mk
      BY <1>1, <2>2 DEF MsgKey, KeyOf
    <3> QED
      BY <1>2, <2>1, <3>1 DEF Decrypts
  <2>4. /\ al.dh_send = s.dh_send + 2 /\ al.dh_recv = m.dh /\ al.root_key = RootOf(s.dh_send + 2)
        /\ al.ck_send = [root |-> RootOf(s.dh_send + 2), step |-> 0]
        /\ al.n_send = 0 /\ al.pn = s.n_send
    BY <1>6, SkipKeepsSending DEF Aligned
  <2>5. al.n_recv = m.n /\ al.skipped = kept \cup KeysOf(m.dh, 0, m.n)
    <3>1. SkippedKeys(r, m.n) = KeysOf(m.dh, 0, m.n)
      <4>1. ASSUME NEW i \in 0 .. m.n - 1
            PROVE  MsgKey(KdfCk(r.ck_recv, i - 0)) = KeyOf(m.dh, i)
        BY <1>1, <1>6 DEF MsgKey, KdfCk, KeyOf
      <4> QED
        BY <1>6, <4>1 DEF SkippedKeys, KeysOf
    <3>2. CASE m.n <= 0
      <4>1. KeysOf(m.dh, 0, m.n) = {} /\ m.n = 0
        BY <1>1, <3>2 DEF KeysOf
      <4>2. al = r
        BY <1>6, <3>2 DEF Aligned, SkipMessageKeys
      <4> QED
        BY <1>6, <1>7, <4>1, <4>2
    <3>3. CASE ~(m.n <= 0)
      <4>1. al = AdvanceReceiving(r, m.n, r.skipped \cup SkippedKeys(r, m.n))
        BY <1>6, <3>3 DEF Aligned, SkipMessageKeys
      <4>2. al.n_recv = m.n /\ al.skipped = r.skipped \cup SkippedKeys(r, m.n)
        BY <4>1 DEF AdvanceReceiving
      <4> QED
        BY <1>7, <3>1, <4>2
    <3> QED
      BY <3>2, <3>3
  <2>6. KdfCk(al.ck_recv, (m.n + 1) - m.n) = [root |-> RootOf(m.dh), step |-> m.n + 1]
    BY <1>1, <2>2 DEF KdfCk
  <2>7. Consumed(al) = NextChainState(s, m)
    BY <2>4, <2>5, <2>6 DEF Consumed, AdvanceReceiving, NextChainState
  <2>8. AfterDecrypt(s, m, nextKey) = Consumed(al)
    BY <1>2, <2>1 DEF AfterDecrypt
  <2> QED
    BY <1>10, <2>3, <2>7, <2>8
<1> QED
  BY <1>1, <1>9, <1>10
-----------------------------------------------------------------------------
(* The envelopes addressed to p, chain by chain, and what it means for one  *)
(* to lie behind the cursor.                                                *)
LEMMA PassedByChain ==
  ASSUME IInv, NEW p \in Party, NEW m \in wire, Addressed(p, m)
  PROVE  /\ m.dh = dr[p].dh_send + 1 => ~Passed(p, m) /\ m.dh # dr[p].dh_recv
         /\ m.dh < dr[p].dh_send =>
              /\ dr[p].dh_recv = dr[p].dh_send - 1
              /\ m.dh = dr[p].dh_recv => (Passed(p, m) <=> m.n < dr[p].n_recv)
              /\ m.dh # dr[p].dh_recv => Passed(p, m)
<1>1. dr[p].dh_send \in Nat /\ m.dh \in Nat /\ dr[p] \in DrState
  BY Position DEF DrState, Wire
<1>2. ASSUME dr[p].dh_send # 0
      PROVE  dr[p].dh_recv = dr[p].dh_send - 1 /\ dr[p].dh_recv # NoKey
  <2>1. dr[p].dh_recv = dr[p].dh_send - 1
    BY <1>2, StateFacts
  <2>2. dr[p].dh_recv \in Nat
    BY <1>1, <1>2, <2>1
  <2> QED
    BY <2>1, <2>2, NoKeyAssumption
<1>3. ASSUME dr[p].dh_send = 0
      PROVE  dr[p].dh_recv = NoKey
  BY <1>3, StateFacts
<1>4. CASE dr[p].dh_send = 0
  <2>1. m.dh # NoKey
    BY <1>1, NoKeyAssumption
  <2> QED
    BY <1>1, <1>3, <1>4, <2>1 DEF Passed
<1>5. CASE dr[p].dh_send # 0
  BY <1>1, <1>2, <1>5 DEF Passed
<1> QED
  BY <1>4, <1>5

(* Nothing ahead of the cursor has been shown.                              *)
LEMMA ShownIsPassed ==
  ASSUME IInv, NEW p \in Party, NEW m \in wire, Addressed(p, m), Delivered(m)
  PROVE  Passed(p, m)
<1>1. Peer(m.from) = p /\ m.text \in Text
  BY Position DEF Wire
<1>2. PICK e \in wire : e.text = m.text /\ Addressed(p, e) /\ Passed(p, e)
  BY <1>1 DEF IInv, ShownInv, Delivered
<1>3. e = m
  BY <1>2 DEF IInv, IdentityInv
<1> QED
  BY <1>2, <1>3

(* Under IInv the receiver accepts exactly the envelopes it should.         *)
LEMMA IInvAcceptsExactly == IInv => AcceptsExactly
<1> SUFFICES ASSUME IInv, NEW p \in Party, NEW m \in wire, Addressed(p, m)
             PROVE  Decrypts(dr[p], m, nextKey)
                      <=> ~Delivered(m) /\ (Passed(p, m) \/ InWindow(p, m))
  BY DEF AcceptsExactly
<1>1. /\ m.dh \in Nat /\ m.n \in Nat /\ m.pn \in Nat /\ dr[p].n_recv \in Nat
      /\ dr[p].dh_send \in Nat /\ MAX_SKIP \in Nat
  BY Position, SkipAssumption DEF DrState, Wire
<1>2. CASE m \in Missing(p)
  BY <1>2, DecryptMissing DEF Missing
<1>3. CASE m \notin Missing(p) /\ m.dh = dr[p].dh_send + 1
  <2>1. ~Passed(p, m) /\ m.dh # dr[p].dh_recv /\ ~Delivered(m)
    BY <1>3, PassedByChain, ShownIsPassed
  <2>2. Decrypts(dr[p], m, nextKey) <=> m.pn <= dr[p].n_recv + MAX_SKIP /\ m.n <= MAX_SKIP
    BY <1>3, DecryptNextChain
  <2> QED
    BY <2>1, <2>2 DEF InWindow
<1>4. CASE m \notin Missing(p) /\ m.dh < dr[p].dh_send /\ m.dh = dr[p].dh_recv
  <2>1. Passed(p, m) <=> m.n < dr[p].n_recv
    BY <1>4, PassedByChain
  <2>2. Delivered(m) <=> Passed(p, m)
    BY <1>4, ShownIsPassed DEF Missing
  <2>3. Decrypts(dr[p], m, nextKey)
          <=> dr[p].n_recv <= m.n /\ m.n <= dr[p].n_recv + MAX_SKIP
    BY <1>4, DecryptSameChain
  <2> QED
    BY <1>1, <1>4, <2>1, <2>2, <2>3 DEF InWindow
<1>5. CASE m \notin Missing(p) /\ m.dh < dr[p].dh_send /\ m.dh # dr[p].dh_recv
  <2>1. Passed(p, m)
    BY <1>5, PassedByChain
  <2> QED
    BY <1>5, <2>1, DecryptOldChain DEF Missing
<1>6. m.dh = dr[p].dh_send + 1 \/ m.dh < dr[p].dh_send
  BY Position
<1> QED
  BY <1>2, <1>3, <1>4, <1>5, <1>6
-----------------------------------------------------------------------------
(* encrypt followed by save_dr_state preserves IInv.                        *)
LEMMA SendIInv ==
  ASSUME IInv, NEW p \in Party, NEW t \in Text, Send(p, t)
  PROVE  IInv'
<1> DEFINE s == dr[p]
           q == Peer(p)
<1>0. PICK new : new = FromSender(p, Envelope(s, t))
  OBVIOUS
<1>1. /\ s \in DrState /\ dr[q] \in DrState /\ q \in Party /\ q # p /\ Peer(q) = p
      /\ s.dh_send \in Nat /\ s.n_send \in Nat /\ s.pn \in Nat /\ nextKey \in Nat
      /\ dr[q].dh_send \in Nat
  BY StateFacts DEF Party, Peer, IInv, TypeOK, DrState
<1>2. s.dh_send # 0
  BY StateFacts DEF Send, CanEncrypt
<1>3. /\ s.ck_send = [root |-> RootOf(s.dh_send), step |-> s.n_send]
      /\ s.dh_recv = s.dh_send - 1 /\ s.root_key = RootOf(s.dh_send)
  BY <1>2, StateFacts
<1>4. new = [from |-> p, dh |-> s.dh_send, pn |-> s.pn, n |-> s.n_send,
             mk |-> KeyOf(s.dh_send, s.n_send), text |-> t]
  BY <1>0, <1>3 DEF FromSender, Envelope, MsgKey, KeyOf
<1>5. dr'[p] =
        [dh_send |-> s.dh_send, dh_recv |-> s.dh_recv, root_key |-> s.root_key,
         ck_send |-> [root |-> RootOf(s.dh_send), step |-> s.n_send + 1],
         ck_recv |-> s.ck_recv, n_send |-> s.n_send + 1, n_recv |-> s.n_recv,
         pn |-> s.pn, skipped |-> s.skipped]
  <2>1. dr'[p] = AfterEncrypt(s)
    BY DEF Send, IInv, TypeOK
  <2>2. KdfCk(s.ck_send, 1) = [root |-> RootOf(s.dh_send), step |-> s.n_send + 1]
    BY <1>3 DEF KdfCk
  <2> QED
    BY <2>1, <2>2 DEF AfterEncrypt
<1>6. /\ dr'[q] = dr[q] /\ wire' = wire \cup {new} /\ rows' = rows /\ nextKey' = nextKey
      /\ dr' = [dr EXCEPT ![p] = dr'[p]] /\ \A r \in Party : r = p \/ r = q
  BY <1>0, <1>1 DEF Send, IInv, TypeOK, Party, Peer
<1>7. \/ s.dh_send = dr[q].dh_send + 1 \/ dr[q].dh_send = s.dh_send + 1
  BY DEF IInv, TurnInv, Party, Peer
<1>8. TypeOK'
  <2>0. /\ s.dh_recv \in Nat \cup {NoKey} /\ s.root_key \in RootKey
        /\ s.ck_recv \in ChainKey \cup {NoKey} /\ s.n_recv \in Nat
        /\ s.skipped \in SUBSET [dh_pub: Nat, n: Nat, mk: RootKey \X Nat]
    BY <1>1 DEF DrState
  <2>1. [root |-> RootOf(s.dh_send), step |-> s.n_send + 1] \in ChainKey /\ s.n_send + 1 \in Nat
    BY <1>1, RootOfType DEF ChainKey
  <2>5. dr'[p] \in DrState
    BY <1>1, <1>5, <2>0, <2>1 DEF DrState
  <2>2. new \in Wire
    BY <1>1, <1>4, RootOfType DEF Wire, KeyOf
  <2>3. dr' \in [Party -> DrState]
    BY <1>6, <2>5 DEF IInv, TypeOK
  <2>4. wire' \subseteq Wire
    BY <1>6, <2>2 DEF IInv, TypeOK
  <2> QED
    BY <1>6, <2>3, <2>4 DEF TypeOK, IInv
<1>9. StateInv'
  <2>1. ASSUME NEW r \in Party, r = q
        PROVE  dr'[r] = dr[r]
    BY <1>6, <2>1
  <2>2. StateInv
    BY DEF IInv
  <2>3. /\ s.ck_recv = (IF s.dh_send < 2 THEN NoKey
                       ELSE [root |-> RootOf(s.dh_send - 1), step |-> s.n_recv])
        /\ s.dh_send < 2 => s.n_recv = 0
        /\ s.dh_send < 3 => s.pn = 0
    BY <2>2 DEF StateInv
  <2> QED
    BY <1>2, <1>3, <1>5, <1>6, <2>1, <2>2, <2>3 DEF StateInv
<1>10. TurnInv'
  BY <1>1, <1>5, <1>6 DEF IInv, TurnInv, Party, Peer
<1>11. CursorInv'
  BY <1>1, <1>5, <1>6 DEF IInv, CursorInv, DrState
<1>12. EnvelopeInv'
  <2>1. ASSUME NEW m \in wire
        PROVE  /\ m.from \in Party /\ m.dh \in Nat /\ m.n \in Nat
               /\ dr'[m.from].dh_send = dr[m.from].dh_send
               /\ dr'[Peer(m.from)].dh_send = dr[Peer(m.from)].dh_send
               /\ dr'[m.from].pn = dr[m.from].pn
               /\ dr'[m.from].n_send \in {dr[m.from].n_send, dr[m.from].n_send + 1}
               /\ dr[m.from].n_send \in Nat
    <3>1. m \in Wire /\ m.from \in Party /\ m.dh \in Nat /\ m.n \in Nat
      BY DEF IInv, TypeOK, Wire
    <3>2. /\ dr'[p].dh_send = s.dh_send /\ dr'[p].pn = s.pn
          /\ dr'[p].n_send = s.n_send + 1
      BY <1>5
    <3>3. Peer(m.from) \in Party /\ dr[m.from].n_send \in Nat
      BY <3>1 DEF Party, Peer, IInv, TypeOK, DrState
    <3> QED
      BY <1>6, <3>1, <3>2, <3>3
  <2>2. ASSUME NEW m \in wire
        PROVE  /\ m.mk = KeyOf(m.dh, m.n)
               /\ 1 <= m.dh /\ m.dh <= dr'[m.from].dh_send
               /\ m.dh # dr'[Peer(m.from)].dh_send /\ m.dh # dr'[m.from].dh_send - 1
               /\ m.dh = dr'[m.from].dh_send => m.n < dr'[m.from].n_send /\ m.pn = dr'[m.from].pn
               /\ m.dh = dr'[m.from].dh_send - 2 => m.n < dr'[m.from].pn
               /\ m.dh < 3 => m.pn = 0
    BY <2>1 DEF IInv, EnvelopeInv
  <2>3. /\ new.mk = KeyOf(new.dh, new.n)
        /\ 1 <= new.dh /\ new.dh <= dr'[new.from].dh_send
        /\ new.dh # dr'[Peer(new.from)].dh_send /\ new.dh # dr'[new.from].dh_send - 1
        /\ new.n < dr'[new.from].n_send /\ new.pn = dr'[new.from].pn
        /\ new.dh # dr'[new.from].dh_send - 2
        /\ new.dh < 3 => new.pn = 0
    <3>1. /\ dr'[p].dh_send = s.dh_send /\ dr'[p].pn = s.pn
          /\ dr'[p].n_send = s.n_send + 1
      BY <1>5
    <3>2. s.dh_send < 3 => s.pn = 0
      BY StateFacts
    <3> QED
      BY <1>1, <1>2, <1>4, <1>6, <1>7, <3>1, <3>2
  <2> QED
    BY <1>6, <2>2, <2>3 DEF EnvelopeInv
<1>13. ChainInv'
  <2>0. ChainInv /\ EnvelopeInv
    BY DEF IInv
  <2>1. ASSUME NEW r \in Party
        PROVE  /\ \A i \in 0 .. dr'[r].n_send - 1 :
                    \E m \in wire' : m.from = r /\ m.dh = dr'[r].dh_send /\ m.n = i
               /\ \A i \in 0 .. dr'[r].pn - 1 :
                    \E m \in wire' : m.from = r /\ m.dh = dr'[r].dh_send - 2 /\ m.n = i
    <3>1. CASE r = q
      BY <1>6, <2>0, <3>1 DEF ChainInv
    <3>2. CASE r = p
      <4>1. ASSUME NEW i \in 0 .. s.n_send
            PROVE  \E m \in wire' : m.from = p /\ m.dh = s.dh_send /\ m.n = i
        <5>1. CASE i = s.n_send
          BY <1>4, <1>6, <5>1
        <5>2. CASE i # s.n_send
          <6>1. i \in 0 .. s.n_send - 1
            BY <1>1, <5>2
          <6> QED
            BY <1>6, <2>0, <6>1 DEF ChainInv
        <5> QED
          BY <5>1, <5>2
      <4>2. (s.n_send + 1) - 1 = s.n_send
        BY <1>1
      <4> QED
        BY <1>5, <1>6, <2>0, <3>2, <4>1, <4>2 DEF ChainInv
    <3> QED
      BY <1>6, <3>1, <3>2
  <2>2. ASSUME NEW m \in wire
        PROVE  /\ \A i \in 0 .. m.n - 1 :
                    \E e \in wire' : e.from = m.from /\ e.dh = m.dh /\ e.n = i
               /\ \A i \in 0 .. m.pn - 1 :
                    \E e \in wire' : e.from = m.from /\ e.dh = m.dh - 2 /\ e.n = i
               /\ \A e \in wire' : e.from = m.from /\ e.dh = m.dh - 2 => e.n < m.pn
    <3>1. ASSUME new.from = m.from
          PROVE  new.dh # m.dh - 2
      <4>1. m.dh <= s.dh_send /\ m.dh \in Nat
        BY <1>4, <2>0, <3>1 DEF EnvelopeInv, IInv, TypeOK, Wire
      <4> QED
        BY <1>1, <1>4, <4>1
    <3> QED
      BY <1>6, <2>0, <3>1 DEF ChainInv
  <2>3. /\ \A i \in 0 .. new.n - 1 :
              \E e \in wire' : e.from = new.from /\ e.dh = new.dh /\ e.n = i
        /\ \A i \in 0 .. new.pn - 1 :
              \E e \in wire' : e.from = new.from /\ e.dh = new.dh - 2 /\ e.n = i
        /\ \A e \in wire' : e.from = new.from /\ e.dh = new.dh - 2 => e.n < new.pn
    <3>1. \A e \in wire : e.from = p /\ e.dh = s.dh_send - 2 => e.n < s.pn
      BY <2>0 DEF EnvelopeInv
    <3>2. new.dh # new.dh - 2
      BY <1>1, <1>4
    <3> QED
      BY <1>4, <1>6, <2>0, <3>1, <3>2 DEF ChainInv
  <2> QED
    BY <1>6, <2>1, <2>2, <2>3 DEF ChainInv
<1>14. IdentityInv'
  <2>1. ASSUME NEW m \in wire
        PROVE  ~(m.dh = new.dh /\ m.n = new.n) /\ m.text # new.text
    <3>1. m.text # t
      BY DEF Send, Unsent
    <3>2. CASE m.from = p
      BY <1>1, <1>4, <3>1, <3>2 DEF IInv, EnvelopeInv, TypeOK, Wire
    <3>3. CASE m.from = q
      BY <1>1, <1>4, <3>1, <3>3 DEF IInv, EnvelopeInv
    <3> QED
      BY <1>6, <3>2, <3>3 DEF IInv, TypeOK, Wire
  <2> QED
    BY <1>6, <2>1 DEF IInv, IdentityInv
<1>15. ASSUME NEW r \in Party, NEW m \in wire
       PROVE  Passed(r, m)' <=> Passed(r, m)
  <2>1. dr'[r].dh_recv = dr[r].dh_recv /\ dr'[r].n_recv = dr[r].n_recv
    BY <1>5, <1>6
  <2> QED
    BY <2>1 DEF Passed
<1>16. ShownInv'
  <2>1. ASSUME NEW r \in Party, NEW m \in wire, Addressed(r, m)
        PROVE  Addressed(r, m)'
    BY <2>1 DEF Addressed
  <2> QED
    BY <1>6, <1>15, <2>1 DEF IInv, ShownInv, Addressed
<1>17. ~Passed(q, new)'
  <2>1. CASE s.dh_send = dr[q].dh_send + 1
    <3>1. CASE dr[q].dh_send = 0
      <4>1. dr'[q].dh_recv = NoKey
        BY <1>1, <1>6, <3>1, StateFacts
      <4> QED
        BY <4>1 DEF Passed
    <3>2. CASE dr[q].dh_send # 0
      <4>1. dr[q].dh_recv = dr[q].dh_send - 1
        BY <1>1, <3>2, StateFacts
      <4> QED
        BY <1>1, <1>4, <1>6, <2>1, <4>1, SMT DEF Passed
    <3> QED
      BY <3>1, <3>2
  <2>2. CASE dr[q].dh_send = s.dh_send + 1
    <3>1. dr[q].dh_send # 0
      BY <1>1, <2>2
    <3>2. dr[q].dh_recv = s.dh_send
      <4>1. dr[q].dh_recv = dr[q].dh_send - 1
        BY <1>1, <3>1, StateFacts
      <4> QED
        BY <1>1, <2>2, <4>1
    <3>3. dr[q].n_recv <= s.n_send /\ dr[q].n_recv \in Nat
      BY <1>1, <3>2 DEF IInv, CursorInv, DrState
    <3> QED
      BY <1>1, <1>4, <1>6, <3>2, <3>3 DEF Passed
  <2> QED
    BY <1>7, <2>1, <2>2
<1>18. SkippedAreTheMissing'
  <2>1. ASSUME NEW r \in Party
        PROVE  Missing(r)' = Missing(r)
    <3>1. ~(Addressed(r, new) /\ Passed(r, new)')
      BY <1>1, <1>4, <1>6, <1>17 DEF Addressed
    <3>2. ASSUME NEW e \in wire
          PROVE  /\ Addressed(r, e)' <=> Addressed(r, e)
                 /\ Delivered(e)' <=> Delivered(e)
      BY <1>6 DEF Addressed, Delivered
    <3>3. Missing(r)' = {e \in wire' : Addressed(r, e)' /\ Passed(r, e)' /\ ~Delivered(e)'}
      BY DEF Missing
    <3> QED
      BY <1>6, <1>15, <3>1, <3>2, <3>3 DEF Missing, Addressed
  <2>2. ASSUME NEW r \in Party
        PROVE  dr'[r].skipped = dr[r].skipped
    BY <1>5, <1>6
  <2> QED
    BY <2>1, <2>2 DEF IInv, SkippedAreTheMissing
<1>19. AtMostOnce'
  BY <1>6 DEF IInv, AtMostOnce
<1> QED
  BY <1>8, <1>9, <1>10, <1>11, <1>12, <1>13, <1>14, <1>16, <1>18, <1>19 DEF IInv
-----------------------------------------------------------------------------
(* What a successful Receive changes, whatever key it used: the state of    *)
(* the receiver, one row of its history, and nothing of the other side.     *)
LEMMA ReceiveEffect ==
  ASSUME IInv, NEW p \in Party, NEW m \in wire, Receive(p, m), Decrypts(dr[p], m, nextKey)
  PROVE  /\ dr'[p] = AfterDecrypt(dr[p], m, nextKey) /\ dr'[Peer(p)] = dr[Peer(p)]
         /\ dr' = [dr EXCEPT ![p] = dr'[p]]
         /\ wire' = wire
         /\ nextKey' = IF dr'[p].dh_send # dr[p].dh_send THEN nextKey + 1 ELSE nextKey
         /\ rows \in [Party -> [Text -> Nat]] /\ m.text \in Text
         /\ rows' = [rows EXCEPT ![p][m.text] = 1]
         /\ ~Delivered(m) /\ Peer(m.from) = p
         /\ Peer(p) \in Party /\ Peer(p) # p /\ Peer(Peer(p)) = p
         /\ \A r \in Party : r = p \/ r = Peer(p)
<1>1. Addressed(p, m) /\ m \in Wire /\ Peer(m.from) = p
  BY Position DEF Receive
<1>2. ~Delivered(m)
  BY <1>1, IInvAcceptsExactly DEF AcceptsExactly
<1>3. rows \in [Party -> [Text -> Nat]] /\ m.text \in Text /\ dr \in [Party -> DrState]
  BY <1>1 DEF IInv, TypeOK, Wire
<1>4. rows[p][m.text] = 0
  BY <1>1, <1>2, <1>3 DEF Delivered
<1>5. dr' = [dr EXCEPT ![p] = AfterDecrypt(dr[p], m, nextKey)]
  BY DEF Receive, Commit
<1>6. rows' = [rows EXCEPT ![p][m.text] = 1]
  BY <1>4 DEF Receive
<1>7. Peer(p) \in Party /\ Peer(p) # p /\ Peer(Peer(p)) = p /\ \A r \in Party : r = p \/ r = Peer(p)
  BY DEF Party, Peer
<1> QED
  BY <1>1, <1>2, <1>3, <1>5, <1>6, <1>7 DEF Receive, DrewKey

(* The rows after a successful Receive: m is shown, nothing else changed.   *)
LEMMA ReceiveRows ==
  ASSUME IInv, NEW p \in Party, NEW m \in wire, Receive(p, m), Decrypts(dr[p], m, nextKey)
  PROVE  /\ AtMostOnce' /\ rows' \in [Party -> [Text -> Nat]]
         /\ \A e \in wire : Delivered(e)' <=> Delivered(e) \/ e = m
<1>1. AtMostOnce' /\ rows' \in [Party -> [Text -> Nat]]
  <2>1. rows \in [Party -> [Text -> Nat]] /\ m.text \in Text /\ AtMostOnce
    BY ReceiveEffect DEF IInv
  <2>2. rows' = [rows EXCEPT ![p][m.text] = 1]
    BY ReceiveEffect
  <2>3. rows' \in [Party -> [Text -> Nat]]
    BY <2>1, <2>2
  <2>4. \A r \in Party, t \in Text : rows'[r][t] \in {rows[r][t], 1}
    BY <2>1, <2>2
  <2> QED
    BY <2>1, <2>3, <2>4 DEF AtMostOnce
<1>2. ASSUME NEW e \in wire
      PROVE  Delivered(e)' <=> Delivered(e) \/ e = m
  <2>1. Peer(e.from) \in Party /\ e.text \in Text
    BY DEF IInv, TypeOK, Wire, Party, Peer
  <2>2. e.text = m.text => e = m
    BY DEF IInv, IdentityInv
  <2> QED
    BY <2>1, <2>2, ReceiveEffect DEF Delivered
<1> QED
  BY <1>1, <1>2

(* The parts of IInv that depend on the sending half of the states only     *)
(* are preserved when that half does not change.                            *)
LEMMA SendingHalfUnchanged ==
  ASSUME IInv, NEW p \in Party, NEW m \in wire, Receive(p, m), Decrypts(dr[p], m, nextKey),
         dr'[p].dh_send = dr[p].dh_send, dr'[p].n_send = dr[p].n_send, dr'[p].pn = dr[p].pn
  PROVE  TurnInv' /\ EnvelopeInv' /\ ChainInv' /\ IdentityInv'
<1>1. \A r \in Party : /\ dr'[r].dh_send = dr[r].dh_send /\ dr'[r].n_send = dr[r].n_send
                       /\ dr'[r].pn = dr[r].pn
  BY ReceiveEffect
<1>2. wire' = wire /\ nextKey' = nextKey
  BY ReceiveEffect
<1>3. \A e \in wire : e.from \in Party /\ Peer(e.from) \in Party
  BY DEF IInv, TypeOK, Wire, Party, Peer
<1>4. TurnInv'
  BY <1>1, <1>2 DEF IInv, TurnInv, Party
<1>5. EnvelopeInv'
  BY <1>1, <1>2, <1>3 DEF IInv, EnvelopeInv
<1>6. ChainInv'
  BY <1>1, <1>2, <1>3 DEF IInv, ChainInv
<1>7. IdentityInv'
  BY <1>2 DEF IInv, IdentityInv
<1> QED
  BY <1>4, <1>5, <1>6, <1>7

(* ShownInv is preserved when the cursor only moves forward and past m.     *)
LEMMA ReceiveShown ==
  ASSUME IInv, NEW p \in Party, NEW m \in wire, Receive(p, m), Decrypts(dr[p], m, nextKey),
         Passed(p, m)',
         \A e \in wire : Addressed(p, e) /\ Passed(p, e) => Passed(p, e)'
  PROVE  ShownInv'
<1> SUFFICES ASSUME NEW r \in Party, NEW t \in Text, rows'[r][t] > 0
             PROVE  \E e \in wire' : e.text = t /\ Addressed(r, e)' /\ Passed(r, e)'
  BY DEF ShownInv
<1>1. CASE r = p /\ t = m.text
  <2>1. Addressed(r, m)'
    BY <1>1 DEF Receive, Addressed
  <2> QED
    BY <1>1, <2>1, ReceiveEffect
<1>2. CASE ~(r = p /\ t = m.text)
  <2>1. rows[r][t] > 0
    BY <1>2, ReceiveEffect
  <2>2. PICK e \in wire : e.text = t /\ Addressed(r, e) /\ Passed(r, e)
    BY <2>1 DEF IInv, ShownInv
  <2>3. Passed(r, e)'
    <3>1. CASE r = p
      BY <2>2, <3>1
    <3>2. CASE r # p
      BY <2>2, <3>2, ReceiveEffect DEF Passed
    <3> QED
      BY <3>1, <3>2
  <2> QED
    BY <2>2, <2>3, ReceiveEffect DEF Addressed
<1> QED
  BY <1>1, <1>2

(* The skipped keys are still those of the missing messages when the        *)
(* receiver's are: the other side's missing messages do not change.         *)
LEMMA ReceiveSkipped ==
  ASSUME IInv, NEW p \in Party, NEW m \in wire, Receive(p, m), Decrypts(dr[p], m, nextKey),
         dr'[p].skipped = {KeyRecord(e) : e \in {f \in wire : Addressed(p, f) /\ Passed(p, f)'
                                                          /\ ~Delivered(f) /\ f # m}}
  PROVE  SkippedAreTheMissing'
<1>1. ASSUME NEW r \in Party
      PROVE  Missing(r)' = {f \in wire : Addressed(r, f) /\ Passed(r, f)'
                                          /\ ~Delivered(f) /\ f # m}
  <2>1. Missing(r)' = {f \in wire' : Addressed(r, f)' /\ Passed(r, f)' /\ ~Delivered(f)'}
    BY DEF Missing
  <2>2. \A f \in wire : Addressed(r, f)' <=> Addressed(r, f)
    BY DEF Addressed
  <2> QED
    BY <2>1, <2>2, ReceiveEffect, ReceiveRows
<1>2. dr'[p].skipped = {KeyRecord(e) : e \in Missing(p)'}
  BY <1>1
<1>3. Missing(Peer(p))' = Missing(Peer(p))
  <2>1. \A f \in wire : Passed(Peer(p), f)' <=> Passed(Peer(p), f)
    BY ReceiveEffect DEF Passed
  <2>2. ~Addressed(Peer(p), m)
    <3>1. m.from = Peer(p)
      BY DEF Receive, Addressed
    <3>2. Peer(Peer(p)) = p /\ Peer(p) # p
      BY ReceiveEffect
    <3> QED
      BY <3>1, <3>2 DEF Addressed
  <2>3. Peer(p) \in Party
    BY ReceiveEffect
  <2> QED
    BY <1>1, <2>1, <2>2, <2>3, ReceiveEffect DEF Missing
<1>4. dr'[Peer(p)].skipped = {KeyRecord(e) : e \in Missing(Peer(p))'}
  <2>1. dr'[Peer(p)] = dr[Peer(p)] /\ Peer(p) \in Party
    BY ReceiveEffect
  <2>2. dr[Peer(p)].skipped = {KeyRecord(e) : e \in Missing(Peer(p))}
    BY <2>1 DEF IInv, SkippedAreTheMissing
  <2> QED
    BY <1>3, <2>1, <2>2
<1>5. ASSUME NEW r \in Party
      PROVE  dr'[r].skipped = {KeyRecord(e) : e \in Missing(r)'}
  <2>1. r = p \/ r = Peer(p)
    BY ReceiveEffect
  <2> QED
    BY <1>2, <1>4, <2>1
<1> QED
  BY <1>5 DEF SkippedAreTheMissing, KeyRecord-----------------------------------------------------------------------------
(* The other side's state does not change, so types and StateInv need be    *)
(* shown for the receiver's new state only.                                 *)
LEMMA ReceiveState ==
  ASSUME IInv, NEW p \in Party, NEW m \in wire, Receive(p, m), Decrypts(dr[p], m, nextKey),
         NEW u \in DrState, dr'[p] = u,
         u.root_key = RootOf(u.dh_send),
         u.dh_send # 0,
         u.ck_send = [root |-> RootOf(u.dh_send), step |-> u.n_send],
         u.dh_recv = u.dh_send - 1,
         u.dh_send >= 2,
         u.ck_recv = [root |-> RootOf(u.dh_send - 1), step |-> u.n_recv],
         u.dh_send < 3 => u.pn = 0
  PROVE  TypeOK' /\ StateInv'
<1>1. u.dh_send \in Nat
  BY DEF DrState
<1>2. TypeOK'
  <2>1. dr' \in [Party -> DrState]
    BY ReceiveEffect DEF IInv, TypeOK
  <2>2. nextKey' \in Nat
    BY ReceiveEffect DEF IInv, TypeOK
  <2> QED
    BY <2>1, <2>2, ReceiveEffect, ReceiveRows DEF IInv, TypeOK
<1>3. StateInv'
  <2>1. ASSUME NEW r \in Party, r # p
        PROVE  dr'[r] = dr[r]
    BY <2>1, ReceiveEffect
  <2>2. StateInv
    BY DEF IInv
  <2>3. /\ u.ck_send = (IF u.dh_send = 0 THEN NoKey
                        ELSE [root |-> RootOf(u.dh_send), step |-> u.n_send])
        /\ u.dh_recv = (IF u.dh_send = 0 THEN NoKey ELSE u.dh_send - 1)
        /\ u.ck_recv = (IF u.dh_send < 2 THEN NoKey
                        ELSE [root |-> RootOf(u.dh_send - 1), step |-> u.n_recv])
        /\ u.dh_send = 0 => u.n_send = 0
        /\ u.dh_send < 2 => u.n_recv = 0
    BY <1>1
  <2> QED
    BY <2>1, <2>2, <2>3 DEF StateInv
<1> QED
  BY <1>2, <1>3

(* A decryption with a skipped key preserves IInv.                          *)
LEMMA ReceiveMissing ==
  ASSUME IInv, NEW p \in Party, NEW m \in wire, Receive(p, m), m \in Missing(p)
  PROVE  IInv'
<1> DEFINE s == dr[p]
<1>1. Decrypts(s, m, nextKey)
  BY DecryptMissing
<1>2. s \in DrState /\ s.dh_send \in Nat /\ Passed(p, m) /\ Addressed(p, m) /\ ~Delivered(m)
  BY StateFacts DEF Missing, DrState
<1>3. PICK u : u = [s EXCEPT !.skipped = @ \ {KeyRecord(m)}]
  OBVIOUS
<1>4. dr'[p] = u
  <2>1. dr'[p] = AfterDecrypt(s, m, nextKey)
    BY <1>1, ReceiveEffect
  <2>2. AfterDecrypt(s, m, nextKey) = [s EXCEPT !.skipped = @ \ {KeyRecord(m)}]
    BY DecryptMissing
  <2> QED
    BY <1>3, <2>1, <2>2
<1>5. /\ u.dh_send = s.dh_send /\ u.dh_recv = s.dh_recv /\ u.root_key = s.root_key
      /\ u.ck_send = s.ck_send /\ u.ck_recv = s.ck_recv /\ u.n_send = s.n_send
      /\ u.n_recv = s.n_recv /\ u.pn = s.pn /\ u.skipped = s.skipped \ {KeyRecord(m)}
  BY <1>2, <1>3 DEF DrState
<1>6. u \in DrState
  BY <1>2, <1>3 DEF DrState
<1>7. s.dh_send >= 2
  BY <1>2, Position, PassedByChain
<1>8. TypeOK' /\ StateInv'
  <2>1. /\ s.dh_send # 0 /\ s.root_key = RootOf(s.dh_send)
        /\ s.ck_send = [root |-> RootOf(s.dh_send), step |-> s.n_send]
        /\ s.dh_recv = s.dh_send - 1
        /\ s.ck_recv = [root |-> RootOf(s.dh_send - 1), step |-> s.n_recv]
        /\ s.dh_send < 3 => s.pn = 0
    BY <1>2, <1>7, StateFacts
  <2> QED
    BY <1>1, <1>4, <1>5, <1>6, <1>7, <2>1, ReceiveState
<1>9. TurnInv' /\ EnvelopeInv' /\ ChainInv' /\ IdentityInv'
  BY <1>1, <1>4, <1>5, SendingHalfUnchanged
<1>10. CursorInv'
  <2>1. \A r \in Party : /\ dr'[r].dh_send = dr[r].dh_send /\ dr'[r].n_send = dr[r].n_send
                         /\ dr'[r].dh_recv = dr[r].dh_recv /\ dr'[r].n_recv = dr[r].n_recv
                         /\ Peer(r) \in Party
    BY <1>1, <1>4, <1>5, ReceiveEffect DEF Party, Peer
  <2> QED
    BY <2>1 DEF IInv, CursorInv
<1>11. \A e \in wire : Passed(p, e)' <=> Passed(p, e)
  BY <1>4, <1>5 DEF Passed
<1>12. ShownInv'
  BY <1>1, <1>2, <1>11, ReceiveShown
<1>13. SkippedAreTheMissing'
  <2>1. s.skipped = {KeyRecord(e) : e \in Missing(p)}
    BY DEF IInv, SkippedAreTheMissing
  <2>2. \A e \in Missing(p) : KeyRecord(e) = KeyRecord(m) => e = m
    BY DEF Missing, KeyRecord, IInv, IdentityInv
  <2>3. s.skipped \ {KeyRecord(m)} = {KeyRecord(e) : e \in Missing(p) \ {m}}
    BY <2>1, <2>2
  <2>4. Missing(p) \ {m} = {f \in wire : Addressed(p, f) /\ Passed(p, f)'
                                          /\ ~Delivered(f) /\ f # m}
    BY <1>11 DEF Missing
  <2> QED
    BY <1>1, <1>4, <1>5, <2>3, <2>4, ReceiveSkipped
<1>14. AtMostOnce'
  BY <1>1, ReceiveRows
<1> QED
  BY <1>8, <1>9, <1>10, <1>12, <1>13, <1>14 DEF IInv-----------------------------------------------------------------------------
(* The envelopes to p of chain c from number n up to, not with, k.          *)
Stretch(p, c, n, k) ==
  {f \in wire : Addressed(p, f) /\ f.dh = c /\ n <= f.n /\ f.n < k}

(* A stretch without a hole has the keys that skip_message_keys derives for *)
(* it as its key records.                                                   *)
LEMMA KeysOfStretch ==
  ASSUME IInv, NEW p \in Party, NEW c \in Nat, NEW n \in Nat, NEW k \in Nat,
         \A i \in n .. k - 1 :
           \E e \in wire : Addressed(p, e) /\ e.dh = c /\ e.n = i
  PROVE  KeysOf(c, n, k) = {KeyRecord(e) : e \in Stretch(p, c, n, k)}
<1> DEFINE F == Stretch(p, c, n, k)
<1>1. ASSUME NEW e \in wire, Addressed(p, e)
      PROVE  e.mk = KeyOf(e.dh, e.n) /\ e.n \in Nat
  BY <1>1, Position DEF Wire
<1>2. ASSUME NEW e \in F
      PROVE  KeyRecord(e) \in KeysOf(c, n, k)
  <2>1. e.n \in n .. k - 1 /\ e.mk = KeyOf(c, e.n) /\ e.dh = c
    BY <1>1 DEF Stretch
  <2> QED
    BY <2>1 DEF KeyRecord, KeysOf
<1>3. ASSUME NEW i \in n .. k - 1
      PROVE  \E e \in F : KeyRecord(e) = [dh_pub |-> c, n |-> i, mk |-> KeyOf(c, i)]
  <2>1. PICK e \in wire : Addressed(p, e) /\ e.dh = c /\ e.n = i
    BY <1>3
  <2>2. e \in F /\ e.mk = KeyOf(c, i)
    BY <1>1, <2>1 DEF Stretch
  <2> QED
    BY <2>1, <2>2 DEF KeyRecord
<1> HIDE DEF F
<1>4. KeysOf(c, n, k) = {KeyRecord(e) : e \in F}
  BY <1>2, <1>3 DEF KeysOf
<1> QED
  BY <1>4 DEF F

(* A decryption in the current receiving chain preserves IInv.              *)
LEMMA ReceiveSameChain ==
  ASSUME IInv, NEW p \in Party, NEW m \in wire, Receive(p, m), m \notin Missing(p),
         Decrypts(dr[p], m, nextKey), m.dh < dr[p].dh_send, m.dh = dr[p].dh_recv
  PROVE  IInv'
<1> DEFINE s == dr[p]
<1>0. Addressed(p, m)
  BY DEF Receive
<1>1. /\ s \in DrState /\ s.dh_send \in Nat /\ s.n_recv \in Nat /\ s.dh_send >= 2
      /\ m.dh \in Nat /\ m.n \in Nat /\ ~Delivered(m)
  BY <1>0, Position, ReceiveEffect DEF DrState, Wire
<1>2. /\ s.dh_send # 0 /\ s.root_key = RootOf(s.dh_send)
      /\ s.ck_send = [root |-> RootOf(s.dh_send), step |-> s.n_send]
      /\ s.dh_recv = s.dh_send - 1
      /\ s.ck_recv = [root |-> RootOf(m.dh), step |-> s.n_recv]
      /\ s.dh_send < 3 => s.pn = 0
  <2>1. s.dh_send # 0 /\ s.dh_recv = s.dh_send - 1
    <3>1. s.dh_send # 0
      BY <1>1
    <3> QED
      BY <3>1, StateFacts
  <2>2. s.ck_recv = [root |-> RootOf(s.dh_send - 1), step |-> s.n_recv]
    <3>1. s.dh_send >= 2
      BY <1>1
    <3> QED
      BY <3>1, StateFacts
  <2> QED
    BY <2>1, <2>2, StateFacts
<1>3. /\ s.n_recv <= m.n
      /\ dr'[p] = AdvanceReceiving(s, m.n + 1, s.skipped \cup KeysOf(m.dh, s.n_recv, m.n))
  <2>1. dr'[p] = AfterDecrypt(s, m, nextKey)
    BY <1>0, ReceiveEffect
  <2>2. IF s.n_recv <= m.n /\ m.n <= s.n_recv + MAX_SKIP
        THEN AfterDecrypt(s, m, nextKey)
               = AdvanceReceiving(s, m.n + 1, s.skipped \cup KeysOf(m.dh, s.n_recv, m.n))
        ELSE ~Decrypts(s, m, nextKey)
    BY <1>0, <1>1, DecryptSameChain
  <2> QED
    BY <1>0, <1>1, <2>1, <2>2
<1>4. PICK u : u = AdvanceReceiving(s, m.n + 1, s.skipped \cup KeysOf(m.dh, s.n_recv, m.n))
  OBVIOUS
<1>5. dr'[p] = u
  BY <1>3, <1>4
<1>6. /\ u.dh_send = s.dh_send /\ u.dh_recv = s.dh_recv /\ u.root_key = s.root_key
      /\ u.ck_send = s.ck_send /\ u.n_send = s.n_send /\ u.pn = s.pn
      /\ u.n_recv = m.n + 1 /\ u.skipped = s.skipped \cup KeysOf(m.dh, s.n_recv, m.n)
      /\ u.ck_recv = [root |-> RootOf(m.dh), step |-> m.n + 1]
  <2>1. KdfCk(s.ck_recv, (m.n + 1) - s.n_recv) = [root |-> RootOf(m.dh), step |-> m.n + 1]
    BY <1>1, <1>2 DEF KdfCk
  <2> QED
    BY <1>4, <2>1 DEF AdvanceReceiving
<1>7. KeysOf(m.dh, s.n_recv, m.n) \subseteq [dh_pub: Nat, n: Nat, mk: RootKey \X Nat]
  BY <1>1, RootOfType DEF KeysOf, KeyOf
<1>8. u \in DrState
  <2>1. u = [dh_send |-> u.dh_send, dh_recv |-> u.dh_recv, root_key |-> u.root_key,
             ck_send |-> u.ck_send, ck_recv |-> u.ck_recv, n_send |-> u.n_send,
             n_recv |-> u.n_recv, pn |-> u.pn, skipped |-> u.skipped]
    BY <1>4 DEF AdvanceReceiving
  <2>2. u.ck_recv \in ChainKey /\ u.n_recv \in Nat
    BY <1>1, <1>6, RootOfType DEF ChainKey
  <2>3. u.skipped \in SUBSET [dh_pub: Nat, n: Nat, mk: RootKey \X Nat]
    BY <1>1, <1>6, <1>7 DEF DrState
  <2> QED
    BY <1>1, <1>6, <2>1, <2>2, <2>3 DEF DrState
<1>9. TypeOK' /\ StateInv'
  <2>1. m.dh = u.dh_send - 1 /\ u.dh_send >= 2 /\ (u.dh_send < 3 => u.pn = 0)
    BY <1>1, <1>2, <1>6
  <2> QED
    BY <1>2, <1>5, <1>6, <1>8, <2>1, ReceiveState
<1>10. TurnInv' /\ EnvelopeInv' /\ ChainInv' /\ IdentityInv'
  BY <1>5, <1>6, SendingHalfUnchanged
<1>11. CursorInv'
  <2> DEFINE q == Peer(p)
  <2>1. /\ dr'[q] = dr[q] /\ dr'[p].dh_send = s.dh_send /\ dr'[p].n_send = s.n_send
        /\ dr'[p].dh_recv = m.dh /\ dr'[p].n_recv = m.n + 1
        /\ q \in Party /\ Peer(q) = p /\ \A r \in Party : r = p \/ r = q
    BY <1>5, <1>6, ReceiveEffect
  <2>2. dr[q].dh_send = m.dh => m.n < dr[q].n_send
    <3>1. m.from = q
      BY <1>0, Position
    <3> QED
      BY <3>1 DEF IInv, EnvelopeInv
  <2>3. dr[q].n_send \in Nat
    BY <2>1, StateFacts DEF DrState
  <2>4. dr'[Peer(q)].dh_recv = dr'[q].dh_send => dr'[Peer(q)].n_recv <= dr'[q].n_send
    BY <1>1, <2>1, <2>2, <2>3
  <2>5. dr'[Peer(p)].dh_recv = dr'[p].dh_send => dr'[Peer(p)].n_recv <= dr'[p].n_send
    BY <2>1 DEF IInv, CursorInv
  <2> QED
    BY <2>1, <2>4, <2>5 DEF CursorInv
<1>12. ASSUME NEW e \in wire, Addressed(p, e)
       PROVE  Passed(p, e)' <=> Passed(p, e) \/ (e.dh = m.dh /\ e.n <= m.n)
  <2>1. e.dh \in Nat /\ e.n \in Nat /\ s.dh_recv # NoKey
    BY <1>1, <1>12, Position, NoKeyAssumption DEF Wire
  <2>2. dr'[p].dh_recv = m.dh /\ dr'[p].n_recv = m.n + 1 /\ s.dh_recv = m.dh
    BY <1>5, <1>6
  <2> QED
    BY <1>1, <1>3, <2>1, <2>2 DEF Passed
<1>13. ShownInv'
  BY <1>0, <1>1, <1>12, ReceiveShown
<1>14. SkippedAreTheMissing'
  <2> DEFINE F == Stretch(p, m.dh, s.n_recv, m.n)
  <2>1. s.skipped = {KeyRecord(e) : e \in Missing(p)}
    BY DEF IInv, SkippedAreTheMissing
  <2>2. KeysOf(m.dh, s.n_recv, m.n) = {KeyRecord(e) : e \in F}
    <3>1. \A i \in s.n_recv .. m.n - 1 :
            \E e \in wire : Addressed(p, e) /\ e.dh = m.dh /\ e.n = i
      BY <1>0, <1>1 DEF IInv, ChainInv, Addressed
    <3>2. PICK c \in Nat, n \in Nat, k \in Nat : c = m.dh /\ n = s.n_recv /\ k = m.n
      BY <1>1
    <3>3. \A i \in n .. k - 1 : \E e \in wire : Addressed(p, e) /\ e.dh = c /\ e.n = i
      BY <3>1, <3>2
    <3>4. KeysOf(c, n, k) = {KeyRecord(e) : e \in Stretch(p, c, n, k)}
      BY <3>3, KeysOfStretch
    <3> QED
      BY <3>2, <3>4
  <2>3. ASSUME NEW f \in wire, Addressed(p, f)
        PROVE  Passed(p, f)' /\ ~Delivered(f) /\ f # m <=> f \in Missing(p) \/ f \in F
    <3>1. f.n \in Nat /\ f.dh \in Nat
      BY <2>3, Position DEF Wire
    <3>2. f.dh = m.dh => (Passed(p, f) <=> f.n < s.n_recv)
      BY <2>3, PassedByChain
    <3>3. Delivered(f) => Passed(p, f)
      BY <2>3, ShownIsPassed
    <3>4. f.dh = m.dh /\ f.n = m.n => f = m
      BY DEF IInv, IdentityInv
    <3>5. Passed(p, f)' <=> Passed(p, f) \/ (f.dh = m.dh /\ f.n <= m.n)
      BY <1>12, <2>3
    <3>6. f \in Missing(p) <=> Passed(p, f) /\ ~Delivered(f)
      BY <2>3 DEF Missing
    <3>7. f = m => ~Passed(p, f)
      BY <1>1, <1>3, <3>2
    <3> QED
      BY <1>1, <1>3, <2>3, <3>1, <3>2, <3>3, <3>4, <3>5, <3>6, <3>7 DEF Stretch
  <2>4. {f \in wire : Addressed(p, f) /\ Passed(p, f)' /\ ~Delivered(f) /\ f # m}
          = Missing(p) \cup F
    BY <2>3 DEF Missing, Stretch
  <2>5. dr'[p].skipped = {KeyRecord(e) : e \in Missing(p) \cup F}
    BY <1>5, <1>6, <2>1, <2>2
  <2> QED
    BY <2>4, <2>5, ReceiveSkipped
<1>15. AtMostOnce'
  BY ReceiveRows
<1> QED
  BY <1>9, <1>10, <1>11, <1>13, <1>14, <1>15 DEF IInv-----------------------------------------------------------------------------
(* Before a ratchet step: both sides, and the new state in plain terms.     *)
LEMMA NextChainFacts ==
  ASSUME IInv, NEW p \in Party, NEW m \in wire, Receive(p, m), m \notin Missing(p),
         Decrypts(dr[p], m, nextKey), m.dh = dr[p].dh_send + 1
  PROVE  /\ Addressed(p, m) /\ m.from = Peer(p)
         /\ dr[p] \in DrState /\ dr[p].dh_send \in Nat /\ dr[p].n_send \in Nat
         /\ dr[p].n_recv \in Nat /\ m.n \in Nat /\ m.pn \in Nat /\ m.dh \in Nat
         /\ dr[Peer(p)].dh_send = dr[p].dh_send + 1 /\ nextKey = dr[p].dh_send + 2
         /\ dr'[p] = NextChainState(dr[p], m)
         /\ nextKey' = dr[p].dh_send + 3
<1>1. /\ Addressed(p, m) /\ m.from = Peer(p)
      /\ dr[p] \in DrState /\ dr[p].dh_send \in Nat /\ dr[p].n_send \in Nat
      /\ dr[p].n_recv \in Nat /\ m.n \in Nat /\ m.pn \in Nat /\ m.dh \in Nat
      /\ dr[Peer(p)].dh_send = dr[p].dh_send + 1 /\ nextKey = dr[p].dh_send + 2
  <2>1. Addressed(p, m)
    BY DEF Receive
  <2> QED
    BY <2>1, Position DEF DrState, Wire
<1>2. dr'[p] = NextChainState(dr[p], m)
  BY <1>1, DecryptNextChain, ReceiveEffect
<1>3. nextKey' = dr[p].dh_send + 3
  <2>1. dr'[p].dh_send = dr[p].dh_send + 2
    BY <1>2 DEF NextChainState
  <2>2. dr'[p].dh_send # dr[p].dh_send
    BY <1>1, <2>1
  <2>3. nextKey' = nextKey + 1
    BY <2>2, ReceiveEffect
  <2> QED
    BY <1>1, <2>3
<1> QED
  BY <1>1, <1>2, <1>3

(* The new state has the right types and is determined by its counters.     *)
LEMMA NextChainTypes ==
  ASSUME IInv, NEW p \in Party, NEW m \in wire, Receive(p, m), m \notin Missing(p),
         Decrypts(dr[p], m, nextKey), m.dh = dr[p].dh_send + 1
  PROVE  TypeOK' /\ StateInv'
<1> DEFINE s == dr[p]
<1>1. /\ s \in DrState /\ s.dh_send \in Nat /\ s.n_send \in Nat
      /\ s.n_recv \in Nat /\ m.n \in Nat /\ m.dh \in Nat /\ m.pn \in Nat
      /\ dr'[p] = NextChainState(s, m) /\ s.dh_send + 2 \in Nat
  BY NextChainFacts
<1>2. PICK u : u = NextChainState(s, m)
  OBVIOUS
<1>3. dr'[p] = u
  BY <1>1, <1>2
<1>4. /\ u.dh_send = s.dh_send + 2 /\ u.dh_recv = m.dh /\ u.root_key = RootOf(s.dh_send + 2)
      /\ u.ck_send = [root |-> RootOf(s.dh_send + 2), step |-> 0]
      /\ u.ck_recv = [root |-> RootOf(m.dh), step |-> m.n + 1]
      /\ u.n_send = 0 /\ u.n_recv = m.n + 1 /\ u.pn = s.n_send
  BY <1>2 DEF NextChainState
<1>5. u \in DrState
  <2>1. ASSUME NEW c \in Nat, NEW n \in Nat, NEW k \in Nat
        PROVE  KeysOf(c, n, k) \subseteq [dh_pub: Nat, n: Nat, mk: RootKey \X Nat]
    BY RootOfType DEF KeysOf, KeyOf
  <2>2. KeysOf(m.dh, 0, m.n) \subseteq [dh_pub: Nat, n: Nat, mk: RootKey \X Nat]
    BY <1>1, <2>1
  <2>3. KeysOf(s.dh_send - 1, s.n_recv, m.pn) \subseteq [dh_pub: Nat, n: Nat, mk: RootKey \X Nat]
    <3>1. CASE s.dh_send = 0
      <4>1. m.pn = 0 /\ s.n_recv = 0
        <5>1. s.dh_send < 2 /\ m.dh < 3
          BY <1>1, <3>1
        <5> QED
          BY <5>1, StateFacts DEF IInv, EnvelopeInv
      <4> QED
        BY <4>1 DEF KeysOf
    <3>2. CASE s.dh_send # 0
      <4>1. s.dh_send - 1 \in Nat
        BY <1>1, <3>2
      <4> QED
        BY <1>1, <2>1, <4>1
    <3> QED
      BY <3>1, <3>2
  <2>4. s.skipped \in SUBSET [dh_pub: Nat, n: Nat, mk: RootKey \X Nat]
    BY <1>1 DEF DrState
  <2>5. u.skipped \in SUBSET [dh_pub: Nat, n: Nat, mk: RootKey \X Nat]
    BY <1>2, <2>2, <2>3, <2>4 DEF NextChainState
  <2>6. u = [dh_send |-> u.dh_send, dh_recv |-> u.dh_recv, root_key |-> u.root_key,
             ck_send |-> u.ck_send, ck_recv |-> u.ck_recv, n_send |-> u.n_send,
             n_recv |-> u.n_recv, pn |-> u.pn, skipped |-> u.skipped]
    BY <1>2 DEF NextChainState
  <2>7. u.root_key \in RootKey /\ u.ck_send \in ChainKey /\ u.ck_recv \in ChainKey
    BY <1>1, <1>4, RootOfType DEF ChainKey
  <2> QED
    BY <1>1, <1>4, <2>5, <2>6, <2>7 DEF DrState
<1>6. /\ u.root_key = RootOf(u.dh_send) /\ u.dh_send # 0 /\ u.dh_send >= 2
      /\ u.ck_send = [root |-> RootOf(u.dh_send), step |-> u.n_send]
      /\ u.dh_recv = u.dh_send - 1
      /\ u.ck_recv = [root |-> RootOf(u.dh_send - 1), step |-> u.n_recv]
  <2>1. m.dh = u.dh_send - 1
    BY <1>1, <1>4
  <2> QED
    BY <1>1, <1>4, <2>1
<1>7. u.dh_send < 3 => u.pn = 0
  <2>1. u.dh_send < 3 => s.dh_send = 0
    BY <1>1, <1>4
  <2>2. s.dh_send = 0 => s.n_send = 0
    BY StateFacts
  <2> QED
    BY <1>4, <2>1, <2>2
<1> QED
  BY <1>3, <1>5, <1>6, <1>7, ReceiveState
(* The turn passes to the receiver, whose new sending chain is empty and    *)
(* whose previous one has the length pn.                                    *)
LEMMA NextChainTurn ==
  ASSUME IInv, NEW p \in Party, NEW m \in wire, Receive(p, m), m \notin Missing(p),
         Decrypts(dr[p], m, nextKey), m.dh = dr[p].dh_send + 1
  PROVE  TurnInv' /\ CursorInv' /\ EnvelopeInv' /\ ChainInv' /\ IdentityInv'
<1> DEFINE s == dr[p]
           q == Peer(p)
<1>1. /\ m.from = q /\ s.dh_send \in Nat /\ s.n_send \in Nat /\ m.n \in Nat /\ m.dh \in Nat
      /\ dr[q].dh_send = s.dh_send + 1 /\ nextKey' = s.dh_send + 3 /\ m.dh = s.dh_send + 1
  BY NextChainFacts
<1>2. /\ dr'[p].dh_send = s.dh_send + 2 /\ dr'[p].n_send = 0 /\ dr'[p].pn = s.n_send
      /\ dr'[p].dh_recv = m.dh /\ dr'[p].n_recv = m.n + 1
  <2>1. dr'[p] = NextChainState(s, m)
    BY NextChainFacts
  <2> QED
    BY <2>1 DEF NextChainState
<1>3. /\ dr'[q] = dr[q] /\ wire' = wire /\ q \in Party /\ q # p /\ Peer(q) = p
      /\ \A r \in Party : r = p \/ r = q
  BY ReceiveEffect
<1>4. TurnInv'
  <2>1. dr'[p].dh_send = dr'[q].dh_send + 1 /\ nextKey' = dr'[p].dh_send + 1
    BY <1>1, <1>2, <1>3
  <2>2. (p = "alice" /\ q = "bob") \/ (p = "bob" /\ q = "alice")
    BY SMT DEF Party, Peer
  <2> QED
    BY <2>1, <2>2 DEF TurnInv
<1>5. CursorInv'
  <2>1. dr'[Peer(q)].dh_recv = dr'[q].dh_send => dr'[Peer(q)].n_recv <= dr'[q].n_send
    <3>1. m.n < dr[q].n_send /\ dr[q].n_send \in Nat
      BY <1>1, <1>3, StateFacts DEF IInv, EnvelopeInv, DrState
    <3> QED
      BY <1>1, <1>2, <1>3, <3>1
  <2>2. dr'[Peer(p)].dh_recv # dr'[p].dh_send
    <3>1. dr[q].dh_send # 0
      BY <1>1
    <3>2. dr[q].dh_recv = dr[q].dh_send - 1
      BY <1>3, <3>1, StateFacts
    <3>3. dr[q].dh_recv = s.dh_send
      BY <1>1, <3>2
    <3> QED
      BY <1>1, <1>2, <1>3, <3>3
  <2> QED
    BY <1>3, <2>1, <2>2 DEF CursorInv
<1>6. EnvelopeInv'
  <2>1. ASSUME NEW e \in wire
        PROVE  /\ e.mk = KeyOf(e.dh, e.n)
               /\ 1 <= e.dh /\ e.dh <= dr'[e.from].dh_send
               /\ e.dh # dr'[Peer(e.from)].dh_send /\ e.dh # dr'[e.from].dh_send - 1
               /\ e.dh = dr'[e.from].dh_send => e.n < dr'[e.from].n_send /\ e.pn = dr'[e.from].pn
               /\ e.dh = dr'[e.from].dh_send - 2 => e.n < dr'[e.from].pn
               /\ e.dh < 3 => e.pn = 0
    <3>1. /\ e.mk = KeyOf(e.dh, e.n)
          /\ 1 <= e.dh /\ e.dh <= dr[e.from].dh_send
          /\ e.dh # dr[Peer(e.from)].dh_send /\ e.dh # dr[e.from].dh_send - 1
          /\ e.dh = dr[e.from].dh_send => e.n < dr[e.from].n_send /\ e.pn = dr[e.from].pn
          /\ e.dh = dr[e.from].dh_send - 2 => e.n < dr[e.from].pn
          /\ e.dh < 3 => e.pn = 0
      BY DEF IInv, EnvelopeInv
    <3>2. e.dh \in Nat /\ e.from \in Party
      BY DEF IInv, TypeOK, Wire
    <3>3. CASE e.from = q
      BY <1>1, <1>2, <1>3, <3>1, <3>2, <3>3
    <3>4. CASE e.from = p
      <4>1. e.dh <= s.dh_send /\ e.dh # dr'[q].dh_send
        BY <1>3, <3>1, <3>4
      <4>2. e.dh = s.dh_send => e.n < s.n_send
        BY <3>1, <3>4
      <4>3. (s.dh_send + 2) - 2 = s.dh_send /\ s.dh_send <= s.dh_send + 2
            /\ e.dh # s.dh_send + 2 /\ e.dh <= s.dh_send + 2 /\ e.dh # (s.dh_send + 2) - 1
        BY <1>1, <3>2, <4>1
      <4> QED
        BY <1>2, <3>1, <3>4, <4>1, <4>2, <4>3
    <3> QED
      BY <1>3, <3>2, <3>3, <3>4
  <2> QED
    BY <1>3, <2>1 DEF EnvelopeInv
<1>7. ChainInv'
  <2>0. ChainInv
    BY DEF IInv
  <2>1. ASSUME NEW r \in Party
        PROVE  /\ \A i \in 0 .. dr'[r].n_send - 1 :
                    \E e \in wire : e.from = r /\ e.dh = dr'[r].dh_send /\ e.n = i
               /\ \A i \in 0 .. dr'[r].pn - 1 :
                    \E e \in wire : e.from = r /\ e.dh = dr'[r].dh_send - 2 /\ e.n = i
    <3>1. CASE r = q
      BY <1>3, <2>0, <3>1 DEF ChainInv
    <3>2. CASE r = p
      <4>1. (s.dh_send + 2) - 2 = s.dh_send /\ 0 .. 0 - 1 = {}
        BY <1>1
      <4>2. \A i \in 0 .. s.n_send - 1 :
              \E e \in wire : e.from = p /\ e.dh = s.dh_send /\ e.n = i
        BY <2>0 DEF ChainInv
      <4> QED
        BY <1>2, <3>2, <4>1, <4>2
    <3> QED
      BY <1>3, <3>1, <3>2
  <2> QED
    BY <1>3, <2>0, <2>1 DEF ChainInv
<1>8. IdentityInv'
  BY <1>3 DEF IInv, IdentityInv
<1> QED
  BY <1>4, <1>5, <1>6, <1>7, <1>8

(* The cursor moves behind everything but the rest of m's chain, and the    *)
(* keys set aside are those of what it moved past.                          *)
LEMMA NextChainCursor ==
  ASSUME IInv, NEW p \in Party, NEW m \in wire, Receive(p, m), m \notin Missing(p),
         Decrypts(dr[p], m, nextKey), m.dh = dr[p].dh_send + 1
  PROVE  ShownInv' /\ SkippedAreTheMissing'
<1> DEFINE s == dr[p]
           c == s.dh_send - 1
           F == Stretch(p, c, s.n_recv, m.pn)
           G == Stretch(p, m.dh, 0, m.n)
<1>1. /\ Addressed(p, m) /\ s.dh_send \in Nat /\ s.n_recv \in Nat /\ m.n \in Nat
      /\ m.pn \in Nat /\ m.dh \in Nat /\ m.dh = s.dh_send + 1
  BY NextChainFacts
<1>2. /\ dr'[p].dh_recv = m.dh /\ dr'[p].n_recv = m.n + 1 /\ m.dh # NoKey
      /\ dr'[p].skipped = (s.skipped \cup KeysOf(c, s.n_recv, m.pn)) \cup KeysOf(m.dh, 0, m.n)
  <2>1. dr'[p] = NextChainState(s, m)
    BY NextChainFacts
  <2> QED
    BY <1>1, <2>1, NoKeyAssumption DEF NextChainState
<1>3. ASSUME NEW e \in wire, Addressed(p, e)
      PROVE  /\ e.dh \in Nat /\ e.n \in Nat
             /\ e.dh = m.dh \/ e.dh < s.dh_send
             /\ e.dh = m.dh => (Passed(p, e)' <=> e.n <= m.n)
             /\ e.dh < s.dh_send => Passed(p, e)'
  <2>1. e.dh \in Nat /\ e.n \in Nat /\ (e.dh = m.dh \/ e.dh < s.dh_send)
    BY <1>1, <1>3, Position DEF Wire
  <2> QED
    BY <1>1, <1>2, <2>1 DEF Passed
<1>4. ShownInv'
  <2>1. ASSUME NEW e \in wire, Addressed(p, e), Passed(p, e)
        PROVE  Passed(p, e)'
    BY <1>1, <1>3, <2>1, PassedByChain
  <2>2. Passed(p, m)'
    BY <1>1, <1>3
  <2> QED
    BY <2>1, <2>2, ReceiveShown
<1>5. ASSUME NEW f \in wire, Addressed(p, f)
      PROVE  Passed(p, f)' /\ ~Delivered(f) /\ f # m <=> f \in Missing(p) \/ f \in F \/ f \in G
  <2>1. f \in Missing(p) <=> Passed(p, f) /\ ~Delivered(f)
    BY <1>5 DEF Missing
  <2>2. Delivered(f) => Passed(p, f)
    BY <1>5, ShownIsPassed
  <2>3. f \in G <=> f.dh = m.dh /\ f.n < m.n
    BY <1>3, <1>5 DEF Stretch
  <2>4. f \in F <=> f.dh = c /\ s.n_recv <= f.n /\ f.n < m.pn
    BY <1>5 DEF Stretch
  <2>5. CASE f.dh = m.dh
    <3>1. ~Passed(p, f) /\ (f.n = m.n <=> f = m)
      BY <1>1, <1>5, <2>5, PassedByChain DEF IInv, IdentityInv
    <3>2. f.dh # c
      BY <1>1, <2>5
    <3> QED
      BY <1>1, <1>3, <1>5, <2>1, <2>2, <2>3, <2>4, <2>5, <3>1, <3>2
  <2>6. CASE f.dh < s.dh_send /\ f.dh = c
    <3>1. s.dh_recv = c /\ (Passed(p, f) <=> f.n < s.n_recv)
      BY <1>5, <2>6, PassedByChain
    <3>2. f.n < m.pn
      <4>1. f.from = m.from /\ f.dh = m.dh - 2
        BY <1>1, <1>5, <2>6 DEF Addressed
      <4> QED
        BY <4>1 DEF IInv, ChainInv
    <3>3. f # m /\ f.dh # m.dh
      BY <1>1, <2>6
    <3> QED
      BY <1>1, <1>3, <1>5, <2>1, <2>2, <2>3, <2>4, <2>6, <3>1, <3>2, <3>3
  <2>7. CASE f.dh < s.dh_send /\ f.dh # c
    <3>1. Passed(p, f)
      BY <1>5, <2>7, PassedByChain
    <3>2. f # m /\ f.dh # m.dh
      BY <1>1, <2>7, <1>3, <1>5
    <3> QED
      BY <1>3, <1>5, <2>1, <2>3, <2>4, <2>7, <3>1, <3>2
  <2> QED
    BY <1>3, <1>5, <2>5, <2>6, <2>7
<1>6. KeysOf(m.dh, 0, m.n) = {KeyRecord(e) : e \in G}
  <2>1. PICK d \in Nat, k \in Nat : d = m.dh /\ k = m.n
    BY <1>1
  <2>2. \A i \in 0 .. k - 1 : \E e \in wire : Addressed(p, e) /\ e.dh = d /\ e.n = i
    BY <1>1, <2>1 DEF IInv, ChainInv, Addressed
  <2>3. KeysOf(d, 0, k) = {KeyRecord(e) : e \in Stretch(p, d, 0, k)}
    BY <2>2, KeysOfStretch
  <2> QED
    BY <2>1, <2>3
<1>7. KeysOf(c, s.n_recv, m.pn) = {KeyRecord(e) : e \in F}
  <2>1. CASE s.dh_send = 0
    <3>1. m.pn = 0 /\ s.n_recv = 0
      <4>1. s.dh_send < 2 /\ m.dh < 3
        BY <1>1, <2>1
      <4> QED
        BY <4>1, StateFacts DEF IInv, EnvelopeInv
    <3>2. KeysOf(c, s.n_recv, m.pn) = {}
      BY <3>1 DEF KeysOf
    <3>3. F = {}
      BY <1>3, <3>1 DEF Stretch
    <3> QED
      BY <3>2, <3>3
  <2>2. CASE s.dh_send # 0
    <3>1. PICK d \in Nat, n \in Nat, k \in Nat : d = c /\ n = s.n_recv /\ k = m.pn
      BY <1>1, <2>2
    <3>2. \A i \in n .. k - 1 : \E e \in wire : Addressed(p, e) /\ e.dh = d /\ e.n = i
      <4>1. \A i \in 0 .. m.pn - 1 :
              \E e \in wire : e.from = m.from /\ e.dh = m.dh - 2 /\ e.n = i
        BY DEF IInv, ChainInv
      <4>2. m.dh - 2 = d
        BY <1>1, <3>1
      <4> QED
        BY <1>1, <3>1, <4>1, <4>2 DEF Addressed
    <3>3. KeysOf(d, n, k) = {KeyRecord(e) : e \in Stretch(p, d, n, k)}
      BY <3>2, KeysOfStretch
    <3> QED
      BY <3>1, <3>3
  <2> QED
    BY <2>1, <2>2
<1>8. SkippedAreTheMissing'
  <2>1. {f \in wire : Addressed(p, f) /\ Passed(p, f)' /\ ~Delivered(f) /\ f # m}
          = (Missing(p) \cup F) \cup G
    BY <1>5 DEF Missing, Stretch
  <2>2. s.skipped = {KeyRecord(e) : e \in Missing(p)}
    BY DEF IInv, SkippedAreTheMissing
  <2>3. dr'[p].skipped = {KeyRecord(e) : e \in (Missing(p) \cup F) \cup G}
    BY <1>2, <1>6, <1>7, <2>2
  <2> QED
    BY <2>1, <2>3, ReceiveSkipped
<1> QED
  BY <1>4, <1>8-----------------------------------------------------------------------------
(* A refused envelope changes nothing, because its state is not stored.     *)
LEMMA ReceiveRefused ==
  ASSUME IInv, NEW p \in Party, NEW m \in wire, Receive(p, m), ~Decrypts(dr[p], m, nextKey)
  PROVE  UNCHANGED vars
<1>1. dr' = dr /\ rows' = rows
  BY DEF Receive, Commit, IInv, TypeOK
<1> QED
  BY <1>1 DEF Receive, DrewKey, vars

(* IInv speaks of the current state only.                                   *)
LEMMA StutterIInv ==
  ASSUME IInv, UNCHANGED vars
  PROVE  IInv'
<1>1. dr' = dr /\ wire' = wire /\ rows' = rows /\ nextKey' = nextKey
  BY DEF vars
<1>2. ASSUME NEW p \in Party, NEW m \in wire
      PROVE  /\ Addressed(p, m)' <=> Addressed(p, m)
             /\ Passed(p, m)' <=> Passed(p, m)
             /\ Delivered(m)' <=> Delivered(m)
  BY <1>1 DEF Addressed, Passed, Delivered
<1>3. (TypeOK /\ StateInv /\ TurnInv /\ CursorInv)'
  BY <1>1 DEF IInv, TypeOK, StateInv, TurnInv, CursorInv
<1>4. (EnvelopeInv /\ ChainInv /\ IdentityInv /\ AtMostOnce)'
  BY <1>1 DEF IInv, EnvelopeInv, ChainInv, IdentityInv, AtMostOnce
<1>5. ShownInv'
  BY <1>1, <1>2 DEF IInv, ShownInv
<1>6. SkippedAreTheMissing'
  <2>1. ASSUME NEW p \in Party
        PROVE  Missing(p)' = Missing(p)
    BY <1>1, <1>2 DEF Missing
  <2> QED
    BY <1>1, <2>1 DEF IInv, SkippedAreTheMissing
<1> QED
  BY <1>3, <1>4, <1>5, <1>6 DEF IInv

(* Whatever arrives, and however often, handling it preserves IInv.         *)
LEMMA ReceiveIInv ==
  ASSUME IInv, NEW p \in Party, NEW m \in wire, Receive(p, m)
  PROVE  IInv'
<1>1. Addressed(p, m)
  BY DEF Receive
<1>2. CASE ~Decrypts(dr[p], m, nextKey)
  BY <1>2, ReceiveRefused, StutterIInv
<1>3. CASE m \in Missing(p)
  BY <1>3, ReceiveMissing
<1>4. CASE m \notin Missing(p) /\ Decrypts(dr[p], m, nextKey) /\ m.dh = dr[p].dh_send + 1
  BY <1>4, NextChainTypes, NextChainTurn, NextChainCursor, ReceiveRows DEF IInv
<1>5. CASE m \notin Missing(p) /\ Decrypts(dr[p], m, nextKey) /\ m.dh < dr[p].dh_send
  <2>1. m.dh = dr[p].dh_recv
    BY <1>1, <1>5, DecryptOldChain
  <2> QED
    BY <1>5, <2>1, ReceiveSameChain
<1>6. m.dh = dr[p].dh_send + 1 \/ m.dh < dr[p].dh_send
  BY <1>1, Position
<1> QED
  BY <1>2, <1>3, <1>4, <1>5, <1>6

(* IInv is inductive.                                                       *)
LEMMA NextIInv == IInv /\ [Next]_vars => IInv'
<1> SUFFICES ASSUME IInv, [Next]_vars PROVE IInv'
  OBVIOUS
<1>1. CASE UNCHANGED vars
  BY <1>1, StutterIInv
<1>2. ASSUME NEW p \in Party, NEW t \in Text, Send(p, t)
      PROVE  IInv'
  BY <1>2, SendIInv
<1>3. ASSUME NEW p \in Party, NEW m \in wire, Receive(p, m)
      PROVE  IInv'
  BY <1>3, ReceiveIInv
<1> QED
  BY <1>1, <1>2, <1>3 DEF Next

(* The inductive invariant holds in every reachable state of a session.     *)
THEOREM SessionInvariant == Spec => []IInv
BY InitIInv, NextIInv, PTL DEF Spec

(* The stored records keep their types (double_ratchet.rs:26-64).           *)
THEOREM SessionTypes == Spec => []TypeOK
<1>1. IInv => TypeOK
  BY DEF IInv
<1> QED
  BY <1>1, SessionInvariant, PTL

(* However the network repeats and reorders the envelopes, the X3dhDm       *)
(* handler shows no message twice.                                          *)
THEOREM SessionAtMostOnce == Spec => []AtMostOnce
<1>1. IInv => AtMostOnce
  BY DEF IInv
<1> QED
  BY <1>1, SessionInvariant, PTL

(* The skipped keys kept by skip_message_keys and try_skipped are at every  *)
(* moment exactly those of the messages still missing.                      *)
THEOREM SessionSkippedKeys == Spec => []SkippedAreTheMissing
<1>1. IInv => SkippedAreTheMissing
  BY DEF IInv
<1> QED
  BY <1>1, SessionInvariant, PTL

(* decrypt accepts exactly the messages not yet received that are behind    *)
(* the cursor or within MAX_SKIP of it.                                     *)
THEOREM SessionAcceptance == Spec => []AcceptsExactly
BY IInvAcceptsExactly, SessionInvariant, PTL
-----------------------------------------------------------------------------
(* Two envelopes under one message key would be the same envelope.          *)
LEMMA IInvMessageKeys == IInv => MessageKeysUnique
<1> SUFFICES ASSUME IInv, NEW m1 \in wire, NEW m2 \in wire, m1.mk = m2.mk
             PROVE  m1 = m2
  BY DEF MessageKeysUnique
<1>1. /\ m1.dh \in Nat /\ m2.dh \in Nat
      /\ m1.mk = KeyOf(m1.dh, m1.n) /\ m2.mk = KeyOf(m2.dh, m2.n)
  BY DEF IInv, TypeOK, Wire, EnvelopeInv
<1>2. RootOf(m1.dh) = RootOf(m2.dh) /\ m1.n = m2.n
  <2>1. KeyOf(m1.dh, m1.n) = KeyOf(m2.dh, m2.n)
    BY <1>1
  <2> QED
    BY <2>1, Zenon DEF KeyOf
<1>3. m1.dh = m2.dh
  BY <1>1, <1>2, RootOfInjective
<1> QED
  BY <1>2, <1>3 DEF IInv, IdentityInv

(* encrypt never reuses a message key.                                      *)
THEOREM SessionMessageKeys == Spec => []MessageKeysUnique
BY IInvMessageKeys, SessionInvariant, PTL

(* A chain key of chain c only reaches keys of chain c from its number on.  *)
LEMMA AheadOnChain ==
  ASSUME NEW c \in Nat, NEW k \in Nat, NEW d \in Nat, NEW n,
         Ahead([root |-> RootOf(c), step |-> k], KeyOf(d, n))
  PROVE  d = c /\ n >= k
<1>1. RootOf(d) = RootOf(c) /\ n >= k
  BY DEF Ahead, KeyOf
<1> QED
  BY <1>1, RootOfInjective

(* Which keys the stored state of p can still derive.                       *)
LEMMA Derivable ==
  ASSUME IInv, NEW p \in Party, NEW m \in wire, CanDerive(dr[p], m.mk)
  PROVE  \/ m \in Missing(p)
         \/ m.dh = dr[p].dh_send /\ m.n >= dr[p].n_send
         \/ m.dh = dr[p].dh_recv /\ m.dh = dr[p].dh_send - 1 /\ m.n >= dr[p].n_recv
<1> DEFINE s == dr[p]
<1>1. /\ s \in DrState /\ s.dh_send \in Nat /\ s.n_send \in Nat /\ s.n_recv \in Nat
      /\ m.dh \in Nat /\ m.n \in Nat /\ m.mk = KeyOf(m.dh, m.n)
  BY StateFacts DEF DrState, IInv, EnvelopeInv, TypeOK, Wire
<1>2. ASSUME NEW k \in s.skipped, k.mk = m.mk
      PROVE  m \in Missing(p)
  <2>1. PICK e \in Missing(p) : k = KeyRecord(e)
    BY DEF IInv, SkippedAreTheMissing
  <2>2. e \in wire /\ e.mk = m.mk
    BY <1>2, <2>1 DEF Missing, KeyRecord
  <2> QED
    BY <2>1, <2>2, IInvMessageKeys DEF MessageKeysUnique
<1>3. ASSUME Ahead(s.ck_send, m.mk)
      PROVE  m.dh = s.dh_send /\ m.n >= s.n_send
  <2>1. s.ck_send # NoKey
    BY <1>3 DEF Ahead
  <2>2. s.ck_send = [root |-> RootOf(s.dh_send), step |-> s.n_send]
    BY <2>1, StateFacts
  <2> QED
    BY <1>1, <1>3, <2>2, AheadOnChain
<1>4. ASSUME Ahead(s.ck_recv, m.mk)
      PROVE  m.dh = s.dh_recv /\ m.dh = s.dh_send - 1 /\ m.n >= s.n_recv
  <2>1. s.ck_recv # NoKey
    BY <1>4 DEF Ahead
  <2>2. ~(s.dh_send < 2)
    BY <2>1, StateFacts
  <2>3. s.dh_send >= 2 /\ s.dh_send # 0 /\ s.dh_send - 1 \in Nat
    BY <1>1, <2>2
  <2>4. s.ck_recv = [root |-> RootOf(s.dh_send - 1), step |-> s.n_recv]
    BY <2>3, StateFacts
  <2>5. m.dh = s.dh_send - 1 /\ m.n >= s.n_recv
    BY <1>1, <1>4, <2>3, <2>4, AheadOnChain
  <2>6. s.dh_recv = s.dh_send - 1
    BY <2>3, StateFacts
  <2> QED
    BY <2>5, <2>6
<1> QED
  BY <1>2, <1>3, <1>4 DEF CanDerive

(* No stored state can derive the key of a message that is done with.       *)
LEMMA IInvForwardSecrecy == IInv => ForwardSecrecy
<1> SUFFICES ASSUME IInv, NEW m \in wire
             PROVE  /\ ~CanDerive(dr[m.from], m.mk)
                    /\ Delivered(m) => ~CanDerive(dr[Peer(m.from)], m.mk)
  BY DEF ForwardSecrecy
<1> DEFINE p == m.from
           q == Peer(m.from)
<1>1. p \in Party /\ q \in Party /\ p # q /\ Peer(q) = p /\ m.dh \in Nat /\ m.n \in Nat
  BY DEF IInv, TypeOK, Wire, Party, Peer
<1>2. /\ m.dh # dr[q].dh_send /\ m.dh # dr[p].dh_send - 1
      /\ m.dh = dr[p].dh_send => m.n < dr[p].n_send
  BY DEF IInv, EnvelopeInv
<1>3. dr[p].n_send \in Nat /\ dr[q].n_recv \in Nat
  BY <1>1, StateFacts DEF DrState
<1>4. ~CanDerive(dr[p], m.mk)
  <2>1. m \notin Missing(p)
    BY <1>1 DEF Missing, Addressed
  <2> QED
    BY <1>1, <1>2, <1>3, <2>1, Derivable
<1>5. ASSUME Delivered(m)
      PROVE  ~CanDerive(dr[q], m.mk)
  <2>1. Addressed(q, m) /\ m \notin Missing(q)
    BY <1>1, <1>5 DEF Addressed, Missing
  <2>2. Passed(q, m)
    BY <1>1, <1>5, <2>1, ShownIsPassed
  <2>3. m.dh = dr[q].dh_recv => m.n < dr[q].n_recv
    <3>1. m.dh = dr[q].dh_recv => dr[q].dh_recv \in Nat
      BY <1>1
    <3> QED
      BY <2>2, <3>1 DEF Passed
  <2> QED
    BY <1>1, <1>2, <1>3, <2>1, <2>3, Derivable
<1> QED
  BY <1>4, <1>5

(* Forward secrecy of the stored states.                                    *)
THEOREM SessionForwardSecrecy == Spec => []ForwardSecrecy
BY IInvForwardSecrecy, SessionInvariant, PTL-----------------------------------------------------------------------------
(* A step that leaves the wire alone writes nothing.                        *)
LEMMA OutboxUnchanged ==
  ASSUME wire' = wire
  PROVE  Outbox' = Outbox
BY DEF Outbox

(* A Send writes its text to the channel.                                   *)
LEMMA SendWrites ==
  ASSUME NEW p \in Party, NEW t \in Text, Send(p, t)
  PROVE  Channel!Write(p, t)
<1>0. PICK new : new = FromSender(p, Envelope(dr[p], t))
  OBVIOUS
<1>1. wire' = wire \cup {new} /\ new.from = p /\ new.text = t /\ rows' = rows
  BY <1>0 DEF Send, FromSender, Envelope
<1>2. \A q \in Party : t \notin Outbox[q]
  BY DEF Send, Unsent, Outbox
<1>3. Outbox' = [Outbox EXCEPT ![p] = @ \cup {t}]
  <2>1. ASSUME NEW q \in Party
        PROVE  Outbox'[q] = IF q = p THEN Outbox[q] \cup {t} ELSE Outbox[q]
    BY <1>1 DEF Outbox
  <2>2. Outbox \in [Party -> SUBSET {m.text : m \in wire}]
    BY DEF Outbox
  <2>3. DOMAIN Outbox' = Party /\ Outbox' = [q \in Party |-> Outbox'[q]]
    BY DEF Outbox
  <2> QED
    BY <2>1, <2>2, <2>3
<1> QED
  BY <1>1, <1>2, <1>3 DEF Channel!Write

(* A successful Receive shows the text of an envelope of the other side.    *)
LEMMA ReceiveShows ==
  ASSUME IInv, NEW p \in Party, NEW m \in wire, Receive(p, m), Decrypts(dr[p], m, nextKey)
  PROVE  Channel!Show(p, m.text) /\ m.text \in Text
<1>1. /\ rows' = [rows EXCEPT ![p][m.text] = 1] /\ m.text \in Text /\ wire' = wire
      /\ ~Delivered(m) /\ Peer(m.from) = p /\ Peer(p) \in Party /\ Peer(p) # p
      /\ rows \in [Party -> [Text -> Nat]]
  BY ReceiveEffect
<1>2. rows[p][m.text] = 0
  BY <1>1 DEF Delivered
<1>3. m.text \in Outbox[Peer(p)]
  BY <1>1 DEF Outbox, Receive, Addressed
<1>4. Outbox' = Outbox
  BY <1>1, OutboxUnchanged
<1> QED
  BY <1>1, <1>2, <1>3, <1>4 DEF Channel!Show

(* Every step of the session is a step of the channel, or none.             *)
LEMMA SessionStep == IInv /\ [Next]_vars => [Channel!Next]_(Channel!chanVars)
<1> SUFFICES ASSUME IInv, [Next]_vars PROVE [Channel!Next]_(Channel!chanVars)
  OBVIOUS
<1>1. CASE UNCHANGED vars
  BY <1>1, OutboxUnchanged DEF vars, Channel!chanVars
<1>2. ASSUME NEW p \in Party, NEW t \in Text, Send(p, t)
      PROVE  Channel!Next
  BY <1>2, SendWrites DEF Channel!Next
<1>3. ASSUME NEW p \in Party, NEW m \in wire, Receive(p, m)
      PROVE  [Channel!Next]_(Channel!chanVars)
  <2>1. CASE Decrypts(dr[p], m, nextKey)
    BY <1>3, <2>1, ReceiveShows DEF Channel!Next
  <2>2. CASE ~Decrypts(dr[p], m, nextKey)
    BY <1>3, <2>2, ReceiveRefused, OutboxUnchanged DEF vars, Channel!chanVars
  <2> QED
    BY <2>1, <2>2
<1> QED
  BY <1>1, <1>2, <1>3 DEF Next

(* A paired session implements the at-most-once channel of DrChannel.       *)
THEOREM SessionImplementsChannel == Spec => ImplementsChannel
<1>1. Init => Channel!Init
  BY DEF Init, Channel!Init, Outbox
<1> QED
  BY <1>1, SessionStep, SessionInvariant, PTL DEF Spec, ImplementsChannel, Channel!Spec
=============================================================================
