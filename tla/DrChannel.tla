----------------------------- MODULE DrChannel -----------------------------
(***************************************************************************)
(* What a ratchet session promises to the two people talking: a channel    *)
(* that may lose and reorder, and that shows every message at most once,   *)
(* only to the person it was written to, and only after it was written.    *)
(***************************************************************************)
EXTENDS Naturals

CONSTANTS Party, Text

VARIABLES
  outbox,  \* outbox[p]: the texts p has written to the other side
  rows     \* rows[p][t]: how often p's history shows t as received

chanVars == <<outbox, rows>>

Init ==
  /\ outbox = [p \in Party |-> {}]
  /\ rows = [p \in Party |-> [t \in Text |-> 0]]

Write(p, t) ==
  /\ \A q \in Party : t \notin outbox[q]
  /\ outbox' = [outbox EXCEPT ![p] = @ \cup {t}]
  /\ UNCHANGED rows

Show(p, t) ==
  /\ \E q \in Party \ {p} : t \in outbox[q]
  /\ rows[p][t] = 0
  /\ rows' = [rows EXCEPT ![p][t] = 1]
  /\ UNCHANGED outbox

Next == \E p \in Party, t \in Text : Write(p, t) \/ Show(p, t)

Spec == Init /\ [][Next]_chanVars
=============================================================================
