--------------------------- MODULE DoubleRatchet ---------------------------
(***************************************************************************)
(* The pure algorithm of alterchat-core/src/double_ratchet.rs: the record  *)
(* DrState and the functions that transform it.  Keys are symbolic:        *)
(*                                                                         *)
(*  - an X25519 key pair is a number (dh_send stands for the secret and    *)
(*    for dh_send_pub); fresh random pairs are handed in by the caller;    *)
(*  - a Diffie-Hellman output is the set of the two key pairs it joins;    *)
(*  - a root key is the sequence of the DH outputs mixed into the shared   *)
(*    secret, the empty sequence being the shared secret itself;           *)
(*  - a chain key is the root step it was derived in and the number of     *)
(*    times it was advanced, and a message key names the chain key it was  *)
(*    derived from.                                                        *)
(*                                                                         *)
(* Two symbolic keys are equal exactly when the HKDF inputs are, so an     *)
(* AEAD decryption succeeds exactly when the message keys are equal.       *)
(*                                                                         *)
(* An operator whose name ends in Mutant is a plausible slip in the code   *)
(* of the definition that follows it; nothing uses it.  PROJECT.json names *)
(* the property that notices the slip.                                     *)
(***************************************************************************)
EXTENDS Integers, Sequences

CONSTANTS
  MAX_SKIP,   \* how many message keys one call may derive and set aside
  NoKey       \* None

RootKey == Seq(SUBSET Nat)

ChainKey == [root: RootKey, step: Nat]

ASSUME SkipAssumption == MAX_SKIP \in Nat
ASSUME NoKeyAssumption == NoKey \notin Nat /\ NoKey \notin ChainKey

DrState ==
  [dh_send: Nat, dh_recv: Nat \cup {NoKey}, root_key: RootKey,
   ck_send: ChainKey \cup {NoKey}, ck_recv: ChainKey \cup {NoKey},
   n_send: Nat, n_recv: Nat, pn: Nat,
   skipped: SUBSET [dh_pub: Nat, n: Nat, mk: RootKey \X Nat]]

(***************************************************************************)
(* Key derivation.                                                         *)
(***************************************************************************)
KdfRk(rk, dh_out) == Append(rk, dh_out)

FirstChainKey(rk) == [root |-> rk, step |-> 0]

KdfCkMutant(ck, times) == ck   \* the old chain key is returned

KdfCk(ck, times) == [root |-> ck.root, step |-> ck.step + times]

MsgKey(ck) == <<ck.root, ck.step>>

Dh(secret, public) == {secret, public}

(***************************************************************************)
(* The two initial states.  sk is the shared secret of the handshake.      *)
(***************************************************************************)
InitAlice(sk, bob_dh_pub, fresh) ==
  LET rk == KdfRk(sk, Dh(fresh, bob_dh_pub)) IN
  [dh_send |-> fresh, dh_recv |-> bob_dh_pub, root_key |-> rk,
   ck_send |-> FirstChainKey(rk), ck_recv |-> NoKey,
   n_send |-> 0, n_recv |-> 0, pn |-> 0, skipped |-> {}]

InitBob(sk, bob_dh) ==
  [dh_send |-> bob_dh, dh_recv |-> NoKey, root_key |-> sk,
   ck_send |-> NoKey, ck_recv |-> NoKey,
   n_send |-> 0, n_recv |-> 0, pn |-> 0, skipped |-> {}]

(***************************************************************************)
(* encrypt: refused without a sending chain.                               *)
(***************************************************************************)
CanEncrypt(s) == s.ck_send # NoKey

Envelope(s, text) ==
  [dh |-> s.dh_send, pn |-> s.pn, n |-> s.n_send,
   mk |-> MsgKey(s.ck_send), text |-> text]

AfterEncrypt(s) ==
  [dh_send |-> s.dh_send, dh_recv |-> s.dh_recv, root_key |-> s.root_key,
   ck_send |-> KdfCk(s.ck_send, 1), ck_recv |-> s.ck_recv,
   n_send |-> s.n_send + 1, n_recv |-> s.n_recv, pn |-> s.pn,
   skipped |-> s.skipped]

(***************************************************************************)
(* skip_message_keys.  The Vec of skipped keys is searched by (dh_pub, n)  *)
(* only, and SkippedAreTheMissing of DrSession shows that pair is unique   *)
(* in it, so a set loses nothing.                                          *)
(***************************************************************************)
TooManySkippedMutant(s, until) == s.n_recv + MAX_SKIP <= until

TooManySkipped(s, until) == s.n_recv + MAX_SKIP < until

SkippedKeysMutant(s, until) ==   \* stops one key early
  {[dh_pub |-> s.dh_recv, n |-> i, mk |-> MsgKey(KdfCk(s.ck_recv, i - s.n_recv))] :
     i \in s.n_recv .. (until - 2)}

SkippedKeys(s, until) ==
  {[dh_pub |-> s.dh_recv, n |-> i, mk |-> MsgKey(KdfCk(s.ck_recv, i - s.n_recv))] :
     i \in s.n_recv .. (until - 1)}

AdvanceReceiving(s, to, skipped) ==
  [dh_send |-> s.dh_send, dh_recv |-> s.dh_recv, root_key |-> s.root_key,
   ck_send |-> s.ck_send, ck_recv |-> KdfCk(s.ck_recv, to - s.n_recv),
   n_send |-> s.n_send, n_recv |-> to, pn |-> s.pn,
   skipped |-> skipped]

SkipMessageKeys(s, until) ==
  IF s.ck_recv = NoKey \/ until <= s.n_recv
  THEN s
  ELSE AdvanceReceiving(s, until, s.skipped \cup SkippedKeys(s, until))

(***************************************************************************)
(* dh_ratchet: a receiving chain with the old key pair, then a sending     *)
(* chain with a new one.                                                   *)
(***************************************************************************)
DhRatchet(s, header_dh, fresh) ==
  LET rk  == KdfRk(s.root_key, Dh(s.dh_send, header_dh))
      rk2 == KdfRk(rk, Dh(fresh, header_dh))
  IN  [dh_send |-> fresh, dh_recv |-> header_dh, root_key |-> rk2,
       ck_send |-> FirstChainKey(rk2), ck_recv |-> FirstChainKey(rk),
       n_send |-> 0, n_recv |-> 0, pn |-> s.n_send, skipped |-> s.skipped]

(***************************************************************************)
(* decrypt: whether it returns the plaintext, and the state it leaves      *)
(* behind either way.  The code mutates its argument before it knows the   *)
(* outcome, so after a failure the caller must throw the state away.       *)
(***************************************************************************)
TrySkipped(s, e) == {k \in s.skipped : k.dh_pub = e.dh /\ k.n = e.n}

UseSkippedMutant(s, e) == s   \* the key stays in the Vec

UseSkipped(s, e) == [s EXCEPT !.skipped = @ \ TrySkipped(s, e)]

NeedDhRatchet(s, e) == s.dh_recv # e.dh

RatchetedMutant(s, e, fresh) ==   \* the rest of the old chain is dropped
  IF NeedDhRatchet(s, e) THEN DhRatchet(s, e.dh, fresh) ELSE s

Ratcheted(s, e, fresh) ==
  IF NeedDhRatchet(s, e)
  THEN DhRatchet(SkipMessageKeys(s, e.pn), e.dh, fresh)
  ELSE s

Aligned(s, e, fresh) == SkipMessageKeys(Ratcheted(s, e, fresh), e.n)

ConsumedMutant(s) ==   \* the used chain key stays
  [s EXCEPT !.n_recv = @ + 1]

Consumed(s) == AdvanceReceiving(s, s.n_recv + 1, s.skipped)

Refused(s, e, fresh) ==
  \/ NeedDhRatchet(s, e) /\ TooManySkipped(s, e.pn)
  \/ TooManySkipped(Ratcheted(s, e, fresh), e.n)
  \/ Ratcheted(s, e, fresh).ck_recv = NoKey

Decrypts(s, e, fresh) ==
  IF TrySkipped(s, e) # {}
  THEN \A k \in TrySkipped(s, e) : k.mk = e.mk
  ELSE /\ ~Refused(s, e, fresh)
       /\ MsgKey(Aligned(s, e, fresh).ck_recv) = e.mk

AfterDecrypt(s, e, fresh) ==
  IF TrySkipped(s, e) # {}
  THEN UseSkipped(s, e)
  ELSE IF NeedDhRatchet(s, e) /\ TooManySkipped(s, e.pn) THEN s
  ELSE IF Refused(s, e, fresh) THEN Ratcheted(s, e, fresh)
  ELSE Consumed(Aligned(s, e, fresh))

(***************************************************************************)
(* What a copy of the state can still decrypt: the keys set aside and      *)
(* every key ahead of the two chain keys.                                  *)
(***************************************************************************)
Ahead(ck, mk) == ck # NoKey /\ mk[1] = ck.root /\ mk[2] >= ck.step

CanDerive(s, mk) ==
  \/ \E k \in s.skipped : k.mk = mk
  \/ Ahead(s.ck_send, mk)
  \/ Ahead(s.ck_recv, mk)
=============================================================================
