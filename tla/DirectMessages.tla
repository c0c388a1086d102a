--------------------------- MODULE DirectMessages ---------------------------
(***************************************************************************)
(* Direct messages as the Tauri event loop sends and receives them, for    *)
(* two peers whose peer ids compare as low < high.  Every message leaves   *)
(* twice: as a Double Ratchet envelope (request X3dhDm), and as the one    *)
(* record of the recipient's mailbox in the DHT, encrypted to the          *)
(* recipient's offline key.  The recipient polls its mailbox every 30 s.   *)
(*                                                                         *)
(* DrSession starts from a correctly paired session; here the session is   *)
(* set up by load_or_init_dr_state, whose role argument the two handlers   *)
(* compute from the peer ids.                                              *)
(***************************************************************************)
EXTENDS DoubleRatchet, FiniteSets

CONSTANTS
  Text,           \* one member for every message that may be written
  NoncePrefixed,  \* the texts that begin with the hex digits of their nonce
  None,           \* no row, no record
  MaxRows         \* bound: how many copies of a message the model counts

ASSUME DmAssumption ==
  NoncePrefixed \subseteq Text /\ MaxRows \in Nat \ {0} /\ None \notin DrState

VARIABLES
  friend,   \* friend[p]: the other side in p's table friends
  dr,       \* dr[p]: the row "dr:<peer>" of p's table ratchet_states
  wire,     \* the envelopes handed to the network; they may be lost
  mailbox,  \* mailbox[p]: the record under p's mailbox key in the DHT
  sent,     \* sent[p]: p's own rows of private_messages
  rows,     \* rows[p][t]: p's received rows of private_messages
  nextKey   \* the next fresh key pair

vars == <<friend, dr, wire, mailbox, sent, rows, nextKey>>

Party == {"low", "high"}

Peer(p) == IF p = "low" THEN "high" ELSE "low"

OfflineKey(p) == IF p = "low" THEN 0 ELSE 1

SharedSecret == <<Dh(OfflineKey("low"), OfflineKey("high"))>>

Init ==
  /\ friend = [p \in Party |-> "absent"]
  /\ dr = [p \in Party |-> None]
  /\ wire = {}
  /\ mailbox = [p \in Party |-> None]
  /\ sent = [p \in Party |-> {}]
  /\ rows = [p \in Party |-> [t \in Text |-> 0]]
  /\ nextKey = 2

Unwritten == {t \in Text : \A p \in Party : t \notin sent[p]}

(***************************************************************************)
(* The friends table.  A key once known survives an update without one;    *)
(* removing a friend keeps the ratchet row.                                *)
(***************************************************************************)
AddFriend(p, pubkey) ==
  /\ friend' = [friend EXCEPT ![p] =
                  IF pubkey \/ @ = "keyed" THEN "keyed" ELSE "unkeyed"]
  /\ UNCHANGED <<dr, wire, mailbox, sent, rows, nextKey>>

RemoveFriend(p) ==
  /\ friend[p] # "absent"
  /\ friend' = [friend EXCEPT ![p] = "absent"]
  /\ UNCHANGED <<dr, wire, mailbox, sent, rows, nextKey>>

(***************************************************************************)
(* load_or_init_dr_state.                                                  *)
(***************************************************************************)
LoadOrInit(p, is_initiator) ==
  IF dr[p] # None THEN dr[p]
  ELSE IF is_initiator THEN InitAlice(SharedSecret, OfflineKey(Peer(p)), nextKey)
  ELSE InitBob(SharedSecret, OfflineKey(p))

SendingState(p) == LoadOrInit(p, p = "low")

ReceivingState(p) == LoadOrInit(p, Peer(p) = "low")

(***************************************************************************)
(* SendPrivateMessage.  The text is saved as sent before anything else; it *)
(* goes to the mailbox whether or not there was an envelope.  A recipient  *)
(* the sender has blocked, or trusts less than min_trust_dm, ends the      *)
(* command before it changes anything, which is not taking the action.     *)
(***************************************************************************)
FromSender(p, e) ==
  [from |-> p, dh |-> e.dh, pn |-> e.pn, n |-> e.n, mk |-> e.mk, text |-> e.text]

HasKeyMutant(p) == friend[p] # "absent"   \* a friend without a key is served too

HasKey(p) == friend[p] = "keyed"

SaveDrStateMutant(p, s) ==   \* the INSERT without its ON CONFLICT clause
  dr' = IF dr[p] = None THEN [dr EXCEPT ![p] = s] ELSE dr

SaveDrState(p, s) == dr' = [dr EXCEPT ![p] = s]

MailboxOwnerMutant(p) == p   \* the key of the own mailbox

MailboxOwner(p) == Peer(p)

OfflineMsgMutant(p, t) == [from |-> "nick", text |-> t]   \* nick and id swapped

OfflineMsg(p, t) == [from |-> p, text |-> t]

SendEnvelope(p, t) ==
  IF CanEncrypt(SendingState(p))
  THEN /\ wire' = wire \cup {FromSender(p, Envelope(SendingState(p), t))}
       /\ SaveDrState(p, AfterEncrypt(SendingState(p)))
       /\ nextKey' = IF dr[p] = None THEN nextKey + 1 ELSE nextKey
  ELSE UNCHANGED <<wire, dr, nextKey>>

SendPrivateMessage(p, t) ==
  /\ t \in Unwritten
  /\ sent' = [sent EXCEPT ![p] = @ \cup {t}]
  /\ IF HasKey(p)
     THEN /\ SendEnvelope(p, t)
          /\ mailbox' = [mailbox EXCEPT ![MailboxOwner(p)] = OfflineMsg(p, t)]
     ELSE UNCHANGED <<wire, dr, nextKey, mailbox>>
  /\ UNCHANGED <<friend, rows>>

(***************************************************************************)
(* The X3dhDm handler.                                                     *)
(***************************************************************************)
AcceptsEnvelopeMutant(p, m) == HasKey(p)   \* the result of decrypt is not looked at

AcceptsEnvelope(p, m) == HasKey(p) /\ Decrypts(ReceivingState(p), m, nextKey + 1)

ReceiveX3dhDm(p, m) ==
  /\ m.from = Peer(p)
  /\ AcceptsEnvelope(p, m) => rows[p][m.text] < MaxRows
  /\ IF AcceptsEnvelope(p, m)
     THEN /\ rows' = [rows EXCEPT ![p][m.text] = @ + 1]
          /\ SaveDrState(p, AfterDecrypt(ReceivingState(p), m, nextKey + 1))
          /\ nextKey' = nextKey + 2
     ELSE UNCHANGED <<rows, dr, nextKey>>
  /\ UNCHANGED <<friend, wire, mailbox, sent>>

(***************************************************************************)
(* A FoundRecord answer to get_record on the own mailbox key.  The record  *)
(* stays in the DHT, so it is found again.  The lookup for a duplicate     *)
(* wants a row with the same timestamp whose text begins with the nonce,   *)
(* although the nonce was never part of a row.                             *)
(***************************************************************************)
AlreadySeenMutant(p, r) == TRUE   \* the test is inverted by a default of true

AlreadySeen(p, r) == rows[p][r.text] > 0 /\ r.text \in NoncePrefixed

PollMailbox(p) ==
  /\ mailbox[p] # None
  /\ ~AlreadySeen(p, mailbox[p])
  /\ rows[p][mailbox[p].text] < MaxRows
  /\ rows' = [rows EXCEPT ![p][mailbox[p].text] = @ + 1]
  /\ UNCHANGED <<friend, dr, wire, mailbox, sent, nextKey>>

(* A record lives seven days. *)
RecordExpires(p) ==
  /\ mailbox[p] # None
  /\ mailbox' = [mailbox EXCEPT ![p] = None]
  /\ UNCHANGED <<friend, dr, wire, sent, rows, nextKey>>

Next ==
  \/ \E p \in Party, pubkey \in BOOLEAN : AddFriend(p, pubkey)
  \/ \E p \in Party : RemoveFriend(p)
  \/ \E p \in Party, t \in Text : SendPrivateMessage(p, t)
  \/ \E p \in Party, m \in wire : ReceiveX3dhDm(p, m)
  \/ \E p \in Party : PollMailbox(p)
  \/ \E p \in Party : RecordExpires(p)

(* dht_check_interval asks for the own mailbox every 30 s, for ever.        *)
Fairness == \A p \in Party : WF_vars(PollMailbox(p))

Spec == Init /\ [][Next]_vars /\ Fairness
-----------------------------------------------------------------------------
Mail == [from: Party, text: Text]

Wire == [from: Party, dh: Nat, pn: Nat, n: Nat, mk: RootKey \X Nat, text: Text]

(* The tables hold what their columns may hold.                             *)
TypeOK ==
  /\ friend \in [Party -> {"absent", "unkeyed", "keyed"}]
  /\ dr \in [Party -> DrState \cup {None}]
  /\ wire \subseteq Wire
  /\ mailbox \in [Party -> Mail \cup {None}]
  /\ sent \in [Party -> SUBSET Text]
  /\ rows \in [Party -> [Text -> 0 .. MaxRows]]
  /\ nextKey \in Nat

(* What a peer is shown, by whichever way it came, the other side wrote,    *)
(* and still has in its own history.                                        *)
ShownWasWritten ==
  \A p \in Party, t \in Text : rows[p][t] > 0 => t \in sent[Peer(p)]

(* A friend without a usable offline key is never written to: every envelope*)
(* and every mailbox record leaves under a key (the branches that only emit *)
(* dm-requires-pubkey, lib.rs:1362-1416).                                   *)
LeavesOnlyUnderKey ==
  [][\A p \in Party :
       (wire' # wire \/ mailbox'[Peer(p)] \notin {mailbox[Peer(p)], None})
         /\ sent'[p] # sent[p] => friend[p] = "keyed"]_vars

(* Removing and adding a friend, and messages that never arrive, do not     *)
(* make the sender use a message key twice.                                 *)
MessageKeysUnique == \A m1, m2 \in wire : m1.mk = m2.mk => m1 = m2

(* Both ways out together promise no more than the mailbox alone: an        *)
(* envelope never puts a message into the history of its receiver, which    *)
(* shows what stands in its mailbox record when it is polled, and nothing   *)
(* else (lib.rs:1699-1750 and 1888-1943).                                   *)
Register == INSTANCE MailRegister
              WITH outbox <- sent, slot <- mailbox, Once <- NoncePrefixed

ImplementsRegister == Register!Spec

(* A record is shown, unless a newer one replaces it or it expires first.   *)
MailIsShown ==
  \A p \in Party, r \in Mail :
    mailbox[p] = r ~> (rows[p][r.text] > 0 \/ mailbox[p] # r)

(* lib.rs:1715: "Bob: alici olarak baslat" (start as the receiver).  If the *)
(* receiver did, the first envelope it gets from a friend would open.       *)
FirstContactOpens ==
  \A p \in Party : \A m \in wire :
    m.from = Peer(p) /\ HasKey(p) /\ dr[p] = None
      => Decrypts(ReceivingState(p), m, nextKey + 1)

(* lib.rs:1394: the receiver rejects replays by the nonce inside the        *)
(* payload.  Then polling would show a record once.                         *)
MailShownOnce == \A p \in Party, t \in Text : rows[p][t] <= 1
=============================================================================
