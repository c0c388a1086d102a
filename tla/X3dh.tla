-------------------------------- MODULE X3dh --------------------------------
(***************************************************************************)
(* The X3DH handshake with ML-KEM (x3dh.rs).  The event loop publishes a   *)
(* bundle at every start of a session and every week, and keeps none of    *)
(* its secrets; nobody initiates.                                          *)
(*                                                                         *)
(* Keys are symbolic.  A public key is named by its secret, so that a      *)
(* Diffie-Hellman result is the unordered pair of two names; a             *)
(* decapsulation key opens its own ciphertexts and, as ML-KEM does, gives  *)
(* an unrelated secret for any other; the KDF is injective, so a shared    *)
(* secret is what is fed to it.                                            *)
(***************************************************************************)
CONSTANT None   \* no one-time prekey

DH(mine, public) == {mine, public}

(* What encapsulate draws is used for one ciphertext.                       *)
Ciphertext(ek, drawn) == [for |-> ek, drawn |-> drawn]
Decapsulate(dk, ct) == [by |-> dk, of |-> ct]

(***************************************************************************)
(* generate_prekey_bundle draws spk and dk, and never makes an opk.        *)
(***************************************************************************)
PreKeyBundle(identity, spk, opk, dk) ==
  [identity_key |-> identity, signed_prekey |-> spk, one_time_prekey |-> opk, ml_kem_ek |-> dk]

GeneratedBundle(identity, spk, dk) == PreKeyBundle(identity, spk, None, dk)

(* The order of the results is that of ikm in both directions.              *)
SharedSecret(dh1, dh2, dh3, dh4, ss_kem) == <<dh1, dh2, dh3, dh4, ss_kem>>

(***************************************************************************)
(* initiate_x3dh                                                           *)
(***************************************************************************)
InitialMessage(identity, ephemeral, drawn, bundle) ==
  [identity_key |-> identity, ephemeral_key |-> ephemeral,
   ml_kem_ct |-> Ciphertext(bundle.ml_kem_ek, drawn),
   used_opk |-> bundle.one_time_prekey # None]

InitiatedSecret(identity, ephemeral, drawn, bundle) ==
  SharedSecret(DH(identity, bundle.signed_prekey),
               DH(ephemeral, bundle.identity_key),
               DH(ephemeral, bundle.signed_prekey),
               IF bundle.one_time_prekey # None
                 THEN DH(ephemeral, bundle.one_time_prekey) ELSE {},
               Decapsulate(bundle.ml_kem_ek, Ciphertext(bundle.ml_kem_ek, drawn)))

(***************************************************************************)
(* receive_x3dh.  The message says that there was an opk, not which.       *)
(***************************************************************************)
Receives(opk, m) == m.used_opk => opk # None

ReceivedSecret(identity, spk, opk, dk, m) ==
  SharedSecret(DH(spk, m.identity_key),
               DH(identity, m.ephemeral_key),
               DH(spk, m.ephemeral_key),
               IF m.used_opk THEN DH(opk, m.ephemeral_key) ELSE {},
               Decapsulate(dk, m.ml_kem_ct))

(***************************************************************************)
(* mark_opk_used and is_opk_used (db.rs), on the rows of used_opk_ids.     *)
(***************************************************************************)
IsOpkUsed(used, id) == id \in used
MarkOpkUsed(used, id) == [ok |-> ~IsOpkUsed(used, id), used |-> used \cup {id}]
=============================================================================
