---------------------------- MODULE MailRegister ----------------------------
(***************************************************************************)
(* What direct messages come to for the two people writing: a register     *)
(* each, with the last message written to them.  Reading it shows the      *)
(* message and leaves it where it is, so it may be shown again; a newer    *)
(* message or its age takes it away, shown or not.  No message is shown    *)
(* that does not stand in the register at that moment.                     *)
(***************************************************************************)
EXTENDS Naturals

CONSTANTS
  Party, Text,
  Once,   \* the texts that are recognised when they are read again
  None    \* nothing in the register

VARIABLES
  outbox,  \* outbox[p]: the texts p has written to the other side
  slot,    \* slot[p]: what stands in p's register
  rows     \* rows[p][t]: how often p's history shows t as received

registerVars == <<outbox, slot, rows>>

Init ==
  /\ outbox = [p \in Party |-> {}]
  /\ slot = [p \in Party |-> None]
  /\ rows = [p \in Party |-> [t \in Text |-> 0]]

(* A message replaces the one before it, or never leaves its writer.        *)
Write(p, t) ==
  /\ \A q \in Party : t \notin outbox[q]
  /\ outbox' = [outbox EXCEPT ![p] = @ \cup {t}]
  /\ \/ UNCHANGED slot
     \/ \E q \in Party \ {p} : slot' = [slot EXCEPT ![q] = [from |-> p, text |-> t]]
  /\ UNCHANGED rows

Show(p) ==
  /\ slot[p] # None
  /\ slot[p].text \in Once => rows[p][slot[p].text] = 0
  /\ rows' = [rows EXCEPT ![p][slot[p].text] = @ + 1]
  /\ UNCHANGED <<outbox, slot>>

Expire(p) ==
  /\ slot[p] # None
  /\ slot' = [slot EXCEPT ![p] = None]
  /\ UNCHANGED <<outbox, rows>>

Next ==
  \/ \E p \in Party, t \in Text : Write(p, t)
  \/ \E p \in Party : Show(p) \/ Expire(p)

Spec == Init /\ [][Next]_registerVars
=============================================================================
