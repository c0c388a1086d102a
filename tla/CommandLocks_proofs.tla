------------------------ MODULE CommandLocks_proofs ------------------------
(***************************************************************************)
(* Whoever may take db_path finds the two paths of one login, for any      *)
(* number of commands, profiles and queued AppCommands.                    *)
(*                                                                         *)
(* key_path is assigned under its own mutex, which others take without     *)
(* db_path; what protects it is that its only writer is a login that still *)
(* has db_path.  So the invariant says who has db_path, and how far that   *)
(* login is.  For the order of the two mutexes it is also known who has    *)
(* key_path.                                                               *)
(***************************************************************************)
EXTENDS CommandLocks, TLAPS

(* db_path is held by the login between its two paths or about to send, and *)
(* by nobody else; the paths differ only between the two.                   *)
LoginHolds ==
  \A t \in Task : task[t].pc \in {"login key", "login send"} <=> holder["db_path"] = t

SameBeforeSend == \A t \in Task : task[t].pc = "login send" => db_path = key_path

DbPathIsLogins == \A t \in Task : task[t].pc = "login key" => db_path = task[t].path

LocksInv == TypeOK /\ LoginHolds /\ SameBeforeSend /\ DbPathIsLogins /\ PathsOfOneLogin

(* What the three ways to change a task do to it.                           *)
LEMMA GotoType ==
  ASSUME task \in [Task -> TaskState], NEW t \in Task, NEW pc \in Pc, Goto(t, pc)
  PROVE  task' \in [Task -> TaskState]
<1>1. [task[t] EXCEPT !.pc = pc] \in TaskState
  BY DEF TaskState
<1>. QED BY <1>1 DEF Goto

LEMMA AnswerType ==
  ASSUME task \in [Task -> TaskState], NEW t \in Task,
         NEW a \in {"done", "failed", "Not logged in"}, Answer(t, a)
  PROVE  task' \in [Task -> TaskState]
<1>1. [Idle EXCEPT !.since = task[t].since, !.answer = a] \in TaskState
  BY DEF TaskState, Idle, Pc, Path
<1>. QED BY <1>1 DEF Answer

LEMMA DropAllType ==
  ASSUME holder \in [Lock -> Task \cup {None}], NEW t \in Task, DropAll(t)
  PROVE  holder' \in [Lock -> Task \cup {None}]
  BY DEF DropAll

LEMMA TakeType ==
  ASSUME holder \in [Lock -> Task \cup {None}], NEW t \in Task, NEW l \in Lock, Take(t, l)
  PROVE  holder' \in [Lock -> Task \cup {None}]
  BY DEF Take

LEMMA OneMore ==
  ASSUME NEW q \in 0 .. Capacity, q < Capacity PROVE q + 1 \in 0 .. Capacity
<1>1. Capacity \in Nat
  BY LocksAssumption DEF LocksAssumption
<1>. QED BY <1>1

(* AppState starts empty, with no command in progress.                      *)
LEMMA InitInv == Init => LocksInv
<1>. SUFFICES ASSUME Init PROVE LocksInv
  OBVIOUS
<1>1. TypeOK
  <2>1. Idle \in TaskState
    BY DEF Idle, TaskState, Pc, Path
  <2>2. 0 \in 0 .. Capacity
    BY LocksAssumption DEF LocksAssumption
  <2>3. task \in [Task -> TaskState] /\ holder \in [Lock -> Task \cup {None}]
    BY <2>1 DEF Init
  <2>. QED BY <2>2, <2>3 DEF TypeOK, Path, Init
<1>2. \A t \in Task : task[t].pc = "idle"
  BY DEF Init, Idle
<1>3. holder["db_path"] = None /\ db_path = key_path
  BY DEF Init, Lock
<1>. QED
  BY <1>1, <1>2, <1>3, LocksAssumption
  DEF LocksAssumption, LocksInv, LoginHolds, SameBeforeSend, DbPathIsLogins, PathsOfOneLogin

(* Every step of every command keeps the types.                             *)
LEMMA StepTypeOK ==
  ASSUME TypeOK, Next PROVE TypeOK'
<1>. USE LocksAssumption DEF LocksAssumption, TypeOK
<1>1. ASSUME NEW t \in Task, NEW command \in Command, NEW p \in Logins, Start(t, command, p)
      PROVE  TypeOK'
  <2>1. First[command] \in Pc
    <3>1. command = "login" \/ command = "wipe" \/ command = "send" \/ command = "read" \/ command = "edge"
      BY DEF Command
    <3>2. First["login"] \in Pc /\ First["wipe"] \in Pc /\ First["send"] \in Pc /\ First["read"] \in Pc
            /\ First["edge"] \in Pc
      BY DEF First, Pc
    <3>. QED BY <3>1, <3>2
  <2>2. [pc |-> First[command], path |-> p, key |-> None, since |-> loggedIn, answer |-> "none"]
          \in TaskState
    BY <2>1 DEF TaskState, Path
  <2>. QED BY <1>1, <2>2 DEF Start, paths
<1>2. ASSUME NEW t \in Task, Step(t) PROVE TypeOK'
  <2>. "login key" \in Pc /\ "login send" \in Pc /\ "edge load" \in Pc /\ "edge path" \in Pc
    BY DEF Pc
  <2>. "db_path" \in Lock /\ "key_path" \in Lock
    BY DEF Lock
  <2>t. task[t].path \in Path
    BY DEF TaskState
  <2>1. CASE LoginPath(t) BY <2>t, <2>1, GotoType, TakeType DEF LoginPath
  <2>2. CASE LoginKeyPath(t) BY <2>t, <2>2, GotoType, TakeType DEF LoginKeyPath
  <2>3. CASE LoginSend(t)
    <3>1. queued' \in 0 .. Capacity BY <2>3, OneMore DEF LoginSend
    <3>. QED BY <2>3, <3>1, AnswerType, DropAllType DEF LoginSend, paths
  <2>4. CASE WipePath(t)
    <3>1. [task[t] EXCEPT !.path = db_path, !.pc = "wipe key"] \in TaskState
      BY DEF TaskState, Pc
    <3>. QED BY <2>4, <3>1 DEF WipePath, paths
  <2>5. CASE WipeKey(t)
    <3>1. [task[t] EXCEPT !.key = key_path, !.pc = "wiping"] \in TaskState
      BY DEF TaskState, Pc
    <3>. QED BY <2>5, <3>1 DEF WipeKey, paths
  <2>6. CASE WipeExits(t) BY <2>6 DEF WipeExits, paths
  <2>7. CASE SendCommand(t)
    <3>1. queued' \in 0 .. Capacity BY <2>7, OneMore DEF SendCommand
    <3>. QED BY <2>7, <3>1, AnswerType DEF SendCommand, paths
  <2>8. CASE ReadDb(t) BY <2>8, AnswerType DEF ReadDb, paths
  <2>9. CASE EdgeKey(t)
    <3>1. CASE key_path = None BY <2>9, <3>1, AnswerType DEF EdgeKey, paths
    <3>2. CASE key_path # None BY <2>9, <3>2, GotoType, TakeType DEF EdgeKey, paths
    <3>. QED BY <3>1, <3>2
  <2>10. CASE EdgeLoad(t)
    <3>1. CASE key_path = Memory BY <2>10, <3>1, GotoType DEF EdgeLoad, paths
    <3>2. CASE key_path # Memory BY <2>10, <3>2, AnswerType, DropAllType DEF EdgeLoad, paths
    <3>. QED BY <3>1, <3>2
  <2>11. CASE EdgePath(t) BY <2>11, AnswerType, DropAllType DEF EdgePath, paths
  <2>. QED BY <1>2, <2>1, <2>2, <2>3, <2>4, <2>5, <2>6, <2>7, <2>8, <2>9, <2>10, <2>11 DEF Step
<1>3. CASE Recv
  <2>1. queued' \in 0 .. Capacity BY <1>3 DEF Recv
  <2>. QED BY <1>3, <2>1 DEF Recv, paths
<1>. QED BY <1>1, <1>2, <1>3 DEF Next

(* The locking discipline: what a step may do to db_path, key_path and the  *)
(* mutex of db_path.                                                        *)
Discipline == LoginHolds /\ SameBeforeSend /\ DbPathIsLogins /\ PathsOfOneLogin

(* A step that leaves the two paths and whoever has db_path alone, and      *)
(* moves no command into or out of the critical part of login_profile.      *)
LEMMA Elsewhere ==
  ASSUME TypeOK, Discipline, db_path' = db_path, key_path' = key_path,
         holder'["db_path"] = holder["db_path"],
         NEW t \in Task, task' \in [Task -> TaskState],
         \A u \in Task \ {t} : task'[u] = task[u],
         task[t].pc \notin {"login key", "login send"},
         task'[t].pc \notin {"login key", "login send"}
  PROVE  Discipline'
<1>1. LoginHolds'
  <2>. SUFFICES ASSUME NEW u \in Task
       PROVE  task'[u].pc \in {"login key", "login send"} <=> holder'["db_path"] = u
    BY DEF LoginHolds
  <2>1. CASE u = t BY <2>1 DEF Discipline, LoginHolds
  <2>2. CASE u # t BY <2>2 DEF Discipline, LoginHolds
  <2>. QED BY <2>1, <2>2
<1>2. SameBeforeSend' /\ DbPathIsLogins'
  BY DEF Discipline, SameBeforeSend, DbPathIsLogins
<1>3. PathsOfOneLogin'
  BY DEF Discipline, PathsOfOneLogin, Free
<1>. QED BY <1>1, <1>2, <1>3 DEF Discipline

(* How Goto and Answer leave the other commands, and where they leave t.    *)
LEMMA GotoMoves ==
  ASSUME task \in [Task -> TaskState], NEW t \in Task, NEW pc \in Pc, Goto(t, pc)
  PROVE  /\ \A u \in Task \ {t} : task'[u] = task[u]
         /\ task'[t].pc = pc /\ task'[t].path = task[t].path
  BY DEF Goto, TaskState

LEMMA AnswerMoves ==
  ASSUME task \in [Task -> TaskState], NEW t \in Task,
         NEW a \in {"done", "failed", "Not logged in"}, Answer(t, a)
  PROVE  /\ \A u \in Task \ {t} : task'[u] = task[u]
         /\ task'[t].pc = "idle"
  BY DEF Answer, Idle

LEMMA TakeOther ==
  ASSUME holder \in [Lock -> Task \cup {None}], NEW t \in Task, Take(t, "key_path")
  PROVE  holder'["db_path"] = holder["db_path"]
  BY DEF Take, Lock

LEMMA DropOther ==
  ASSUME holder \in [Lock -> Task \cup {None}], NEW t \in Task, DropAll(t),
         holder["db_path"] # t
  PROVE  holder'["db_path"] = holder["db_path"]
  BY DEF DropAll, Lock

(* login_profile: takes db_path, writes both paths, gives everything back.  *)
LEMMA LoginPathDiscipline ==
  ASSUME TypeOK, Discipline, NEW t \in Task, LoginPath(t) PROVE Discipline'
<1>1. "login key" \in Pc /\ "db_path" \in Lock
  BY DEF Pc, Lock
<1>2. task \in [Task -> TaskState] /\ holder \in [Lock -> Task \cup {None}]
  BY DEF TypeOK
<1>3. /\ \A u \in Task \ {t} : task'[u] = task[u]
      /\ task'[t].pc = "login key" /\ task'[t].path = task[t].path
  BY <1>1, <1>2, GotoMoves DEF LoginPath
<1>4. holder["db_path"] = None /\ holder'["db_path"] = t /\ db_path' = task[t].path
  BY <1>1, <1>2 DEF LoginPath, Take, Free
<1>5. None \notin Task
  BY LocksAssumption DEF LocksAssumption
<1>6. \A u \in Task : task[u].pc \notin {"login key", "login send"}
  BY <1>4, <1>5 DEF Discipline, LoginHolds
<1>7. LoginHolds'
  BY <1>3, <1>4, <1>6 DEF LoginHolds
<1>8. SameBeforeSend' /\ DbPathIsLogins'
  BY <1>3, <1>4, <1>6 DEF SameBeforeSend, DbPathIsLogins
<1>9. PathsOfOneLogin'
  BY <1>4, <1>5 DEF PathsOfOneLogin, Free
<1>. QED BY <1>7, <1>8, <1>9 DEF Discipline

LEMMA LoginKeyPathDiscipline ==
  ASSUME TypeOK, Discipline, NEW t \in Task, LoginKeyPath(t) PROVE Discipline'
<1>1. "login send" \in Pc
  BY DEF Pc
<1>2. task \in [Task -> TaskState] /\ holder \in [Lock -> Task \cup {None}]
  BY DEF TypeOK
<1>3. \A u \in Task \ {t} : task'[u] = task[u]
  BY <1>1, <1>2, GotoMoves DEF LoginKeyPath
<1>4. task[t].pc = "login key" /\ task'[t].pc = "login send"
  BY <1>1, <1>2, GotoMoves DEF LoginKeyPath, At
<1>5. holder["db_path"] = t /\ holder'["db_path"] = t
  BY <1>2, <1>4, TakeOther DEF LoginKeyPath, Discipline, LoginHolds
<1>6. db_path' = db_path /\ db_path = task[t].path /\ key_path' = task[t].path
  BY <1>4 DEF LoginKeyPath, Discipline, DbPathIsLogins
<1>7. LoginHolds'
  BY <1>3, <1>4, <1>5 DEF Discipline, LoginHolds
<1>8. SameBeforeSend' /\ DbPathIsLogins'
  BY <1>3, <1>4, <1>5, <1>6 DEF Discipline, LoginHolds, SameBeforeSend, DbPathIsLogins
<1>9. PathsOfOneLogin'
  BY <1>6 DEF PathsOfOneLogin
<1>. QED BY <1>7, <1>8, <1>9 DEF Discipline

LEMMA LoginSendDiscipline ==
  ASSUME TypeOK, Discipline, NEW t \in Task, LoginSend(t) PROVE Discipline'
<1>1. task \in [Task -> TaskState] /\ holder \in [Lock -> Task \cup {None}]
  BY DEF TypeOK
<1>2. (\A u \in Task \ {t} : task'[u] = task[u]) /\ task'[t].pc = "idle"
  BY <1>1, AnswerMoves DEF LoginSend
<1>3. task[t].pc = "login send" /\ db_path' = db_path /\ key_path' = key_path
  BY DEF LoginSend, At, paths
<1>4. holder["db_path"] = t /\ db_path = key_path
  BY <1>3 DEF Discipline, LoginHolds, SameBeforeSend
<1>5. holder'["db_path"] = None
  BY <1>1, <1>4 DEF LoginSend, DropAll, Lock
<1>6. None \notin Task
  BY LocksAssumption DEF LocksAssumption
<1>7. \A u \in Task : task'[u].pc \notin {"login key", "login send"}
  BY <1>2, <1>4 DEF Discipline, LoginHolds
<1>8. LoginHolds' /\ SameBeforeSend' /\ DbPathIsLogins'
  BY <1>5, <1>6, <1>7 DEF LoginHolds, SameBeforeSend, DbPathIsLogins
<1>9. PathsOfOneLogin'
  BY <1>3, <1>4 DEF PathsOfOneLogin
<1>. QED BY <1>8, <1>9 DEF Discipline

(* No other step touches the paths, or db_path's mutex.                     *)
LEMMA StepDiscipline ==
  ASSUME TypeOK, Discipline, Next, TypeOK' PROVE Discipline'
<1>. USE DEF TypeOK
<1>1. ASSUME NEW t \in Task, NEW command \in Command, NEW p \in Logins, Start(t, command, p)
      PROVE  Discipline'
  <2>1. \A u \in Task \ {t} : task'[u] = task[u]
    BY <1>1 DEF Start
  <2>2. task[t].pc = "idle" /\ task'[t].pc = First[command]
    BY <1>1 DEF Start, At
  <2>3. command = "login" \/ command = "wipe" \/ command = "send" \/ command = "read" \/ command = "edge"
    BY DEF Command
  <2>4. First[command] \notin {"login key", "login send"}
    <3>1. First["login"] = "login path" /\ First["wipe"] = "wipe path" /\ First["send"] = "send"
      BY DEF First
    <3>2. First["read"] = "read" /\ First["edge"] = "edge key"
      BY DEF First
    <3>. QED BY <2>3, <3>1, <3>2
  <2>. QED BY <1>1, <2>1, <2>2, <2>4, Elsewhere DEF Start, paths
<1>2. ASSUME NEW t \in Task, Step(t) PROVE Discipline'
  <2>. "edge load" \in Pc /\ "edge path" \in Pc
    BY DEF Pc
  <2>1. CASE LoginPath(t) BY <2>1, LoginPathDiscipline
  <2>2. CASE LoginKeyPath(t) BY <2>2, LoginKeyPathDiscipline
  <2>3. CASE LoginSend(t) BY <2>3, LoginSendDiscipline
  <2>4. CASE WipePath(t)
    <3>1. task[t].pc = "wipe path" /\ \A u \in Task \ {t} : task'[u] = task[u]
      BY <2>4 DEF WipePath, At
    <3>2. task'[t].pc = "wipe key"
      BY <2>4 DEF WipePath, TaskState
    <3>. QED BY <2>4, <3>1, <3>2, Elsewhere DEF WipePath, paths
  <2>5. CASE WipeKey(t)
    <3>1. task[t].pc = "wipe key" /\ \A u \in Task \ {t} : task'[u] = task[u]
      BY <2>5 DEF WipeKey, At
    <3>2. task'[t].pc = "wiping"
      BY <2>5 DEF WipeKey, TaskState
    <3>. QED BY <2>5, <3>1, <3>2, Elsewhere DEF WipeKey, paths
  <2>6. CASE WipeExits(t)
    BY <2>6, Elsewhere DEF WipeExits, At, paths
  <2>7. CASE SendCommand(t)
    BY <2>7, AnswerMoves, Elsewhere DEF SendCommand, At, paths
  <2>8. CASE ReadDb(t)
    BY <2>8, AnswerMoves, Elsewhere DEF ReadDb, At, paths
  <2>9. CASE EdgeKey(t)
    <3>1. task[t].pc = "edge key" /\ db_path' = db_path /\ key_path' = key_path
      BY <2>9 DEF EdgeKey, At, paths
    <3>2. CASE key_path = None
      BY <2>9, <3>1, <3>2, AnswerMoves, Elsewhere DEF EdgeKey
    <3>3. CASE key_path # None
      <4>1. Take(t, "key_path") /\ Goto(t, "edge load")
        BY <2>9, <3>3 DEF EdgeKey
      <4>. QED BY <3>1, <4>1, TakeOther, GotoMoves, Elsewhere
    <3>. QED BY <3>2, <3>3
  <2>10. CASE EdgeLoad(t)
    <3>1. task[t].pc = "edge load" /\ db_path' = db_path /\ key_path' = key_path
      BY <2>10 DEF EdgeLoad, At, paths
    <3>2. holder["db_path"] # t
      BY <3>1 DEF Discipline, LoginHolds
    <3>3. CASE key_path = Memory
      BY <2>10, <3>1, <3>3, GotoMoves, Elsewhere DEF EdgeLoad
    <3>4. CASE key_path # Memory
      <4>1. Answer(t, "failed") /\ DropAll(t)
        BY <2>10, <3>4 DEF EdgeLoad
      <4>. QED BY <3>1, <3>2, <4>1, AnswerMoves, DropOther, Elsewhere
    <3>. QED BY <3>3, <3>4
  <2>11. CASE EdgePath(t)
    <3>1. task[t].pc = "edge path" /\ db_path' = db_path /\ key_path' = key_path
      BY <2>11 DEF EdgePath, At, paths
    <3>2. holder["db_path"] # t
      BY <3>1 DEF Discipline, LoginHolds
    <3>3. DropAll(t) /\ Answer(t, "Not logged in")
      BY <2>11 DEF EdgePath
    <3>. QED BY <3>1, <3>2, <3>3, AnswerMoves, DropOther, Elsewhere
  <2>. QED BY <1>2, <2>1, <2>2, <2>3, <2>4, <2>5, <2>6, <2>7, <2>8, <2>9, <2>10, <2>11 DEF Step
<1>3. CASE Recv
  BY <1>3 DEF Recv, paths, Discipline, LoginHolds, SameBeforeSend, DbPathIsLogins, PathsOfOneLogin, Free
<1>. QED BY <1>1, <1>2, <1>3 DEF Next

(* The invariant holds in every state, whatever the fairness.               *)
THEOREM LocksCorrect == Spec => []LocksInv
<1>1. LocksInv /\ [Next]_vars => LocksInv'
  <2>. SUFFICES ASSUME LocksInv, [Next]_vars PROVE LocksInv'
    OBVIOUS
  <2>1. CASE Next
    BY <2>1, StepTypeOK, StepDiscipline DEF LocksInv, Discipline
  <2>2. CASE UNCHANGED vars
    BY <2>2 DEF vars, LocksInv, TypeOK, LoginHolds, SameBeforeSend, DbPathIsLogins,
                PathsOfOneLogin, Free
  <2>. QED BY <2>1, <2>2
<1>. QED BY InitInv, <1>1, PTL DEF Spec

(* lib.rs keeps the two paths in two mutexes; login_profile (auth.rs:47-62) *)
(* assigns both under that of db_path: whoever may take it sees the paths   *)
(* of one login.                                                            *)
THEOREM PathsOfOneLoginHolds == Spec => []PathsOfOneLogin
<1>1. LocksInv => PathsOfOneLogin
  BY DEF LocksInv
<1>. QED BY LocksCorrect, <1>1, PTL

(* Type correctness of AppState, its mutexes and the commands.              *)
THEOREM LocksTypes == Spec => []TypeOK
<1>1. LocksInv => TypeOK
  BY DEF LocksInv
<1>. QED BY LocksCorrect, <1>1, PTL
-----------------------------------------------------------------------------
(* Who has key_path, and why create_trust_edge gets as far as db_path.      *)
KeyHolders ==
  \A t \in Task :
    task[t].pc \in {"login send", "edge load", "edge path"} <=> holder["key_path"] = t

EdgeOfMemory == \A t \in Task : task[t].pc = "edge path" => key_path = Memory

KeyInv == KeyHolders /\ EdgeOfMemory

(* The ways a step of command t has with key_path's mutex.                  *)
LEMMA KeyLeft ==
  ASSUME KeyInv, NEW t \in Task, \A u \in Task \ {t} : task'[u] = task[u],
         holder'["key_path"] = holder["key_path"], key_path' = key_path,
         task[t].pc \notin {"login send", "edge load", "edge path"},
         task'[t].pc \notin {"login send", "edge load", "edge path"}
  PROVE  KeyInv'
<1>1. KeyHolders'
  <2>. SUFFICES ASSUME NEW u \in Task
       PROVE  task'[u].pc \in {"login send", "edge load", "edge path"} <=> holder'["key_path"] = u
    BY DEF KeyHolders
  <2>1. CASE u = t BY <2>1 DEF KeyInv, KeyHolders
  <2>2. CASE u # t BY <2>2 DEF KeyInv, KeyHolders
  <2>. QED BY <2>1, <2>2
<1>2. EdgeOfMemory'
  BY DEF KeyInv, EdgeOfMemory
<1>. QED BY <1>1, <1>2 DEF KeyInv

LEMMA KeyTaken ==
  ASSUME TypeOK, KeyInv, NEW t \in Task, \A u \in Task \ {t} : task'[u] = task[u],
         Take(t, "key_path"), task'[t].pc \in {"login send", "edge load"}
  PROVE  KeyInv'
<1>1. holder["key_path"] = None /\ holder'["key_path"] = t
  BY DEF TypeOK, Take, Free, Lock
<1>2. \A u \in Task : task[u].pc \notin {"login send", "edge load", "edge path"}
  BY <1>1, LocksAssumption DEF LocksAssumption, KeyInv, KeyHolders
<1>. QED BY <1>1, <1>2 DEF KeyInv, KeyHolders, EdgeOfMemory

LEMMA KeyDropped ==
  ASSUME TypeOK, KeyInv, NEW t \in Task, \A u \in Task \ {t} : task'[u] = task[u],
         DropAll(t), key_path' = key_path, task'[t].pc = "idle",
         task[t].pc \in {"login send", "edge load", "edge path"}
  PROVE  KeyInv'
<1>1. holder["key_path"] = t
  BY DEF KeyInv, KeyHolders
<1>2. holder'["key_path"] = None
  BY <1>1 DEF TypeOK, DropAll, Lock
<1>3. \A u \in Task : task'[u].pc \notin {"login send", "edge load", "edge path"}
  BY <1>1 DEF KeyInv, KeyHolders
<1>. QED BY <1>2, <1>3, LocksAssumption DEF LocksAssumption, KeyInv, KeyHolders, EdgeOfMemory

LEMMA TakeLeavesKey ==
  ASSUME TypeOK, NEW t \in Task, Take(t, "db_path")
  PROVE  holder'["key_path"] = holder["key_path"]
  BY DEF TypeOK, Take, Lock

LEMMA StepKey ==
  ASSUME TypeOK, KeyInv, Next PROVE KeyInv'
<1>t. task \in [Task -> TaskState]
  BY DEF TypeOK
<1>1. ASSUME NEW t \in Task, NEW command \in Command, NEW p \in Logins, Start(t, command, p)
      PROVE  KeyInv'
  <2>1. task[t].pc = "idle" /\ task'[t].pc = First[command] /\ \A u \in Task \ {t} : task'[u] = task[u]
    BY <1>1, <1>t DEF Start, At
  <2>2. First[command] \notin {"login send", "edge load", "edge path"}
    <3>1. command = "login" \/ command = "wipe" \/ command = "send" \/ command = "read" \/ command = "edge"
      BY DEF Command
    <3>2. First["login"] = "login path" /\ First["wipe"] = "wipe path" /\ First["send"] = "send"
      BY DEF First
    <3>3. First["read"] = "read" /\ First["edge"] = "edge key"
      BY DEF First
    <3>. QED BY <3>1, <3>2, <3>3
  <2>. QED BY <1>1, <2>1, <2>2, KeyLeft DEF Start, paths
<1>2. ASSUME NEW t \in Task, Step(t) PROVE KeyInv'
  <2>. "login key" \in Pc /\ "login send" \in Pc /\ "edge load" \in Pc /\ "edge path" \in Pc
    BY DEF Pc
  <2>1. CASE LoginPath(t)
    BY <2>1, <1>t, GotoMoves, TakeLeavesKey, KeyLeft DEF LoginPath, At
  <2>2. CASE LoginKeyPath(t)
    BY <2>2, <1>t, GotoMoves, KeyTaken DEF LoginKeyPath
  <2>3. CASE LoginSend(t)
    BY <2>3, <1>t, AnswerMoves, KeyDropped DEF LoginSend, At, paths
  <2>4. CASE WipePath(t)
    <3>1. /\ task[t].pc = "wipe path" /\ task'[t].pc = "wipe key"
          /\ \A u \in Task \ {t} : task'[u] = task[u]
      BY <2>4, <1>t DEF WipePath, At, TaskState
    <3>. QED BY <2>4, <3>1, KeyLeft DEF WipePath, paths
  <2>5. CASE WipeKey(t)
    <3>1. /\ task[t].pc = "wipe key" /\ task'[t].pc = "wiping"
          /\ \A u \in Task \ {t} : task'[u] = task[u]
      BY <2>5, <1>t DEF WipeKey, At, TaskState
    <3>. QED BY <2>5, <3>1, KeyLeft DEF WipeKey, paths
  <2>6. CASE WipeExits(t)
    BY <2>6, KeyLeft DEF WipeExits, At, paths
  <2>7. CASE SendCommand(t)
    BY <2>7, <1>t, AnswerMoves, KeyLeft DEF SendCommand, At, paths
  <2>8. CASE ReadDb(t)
    BY <2>8, <1>t, AnswerMoves, KeyLeft DEF ReadDb, At, paths
  <2>9. CASE EdgeKey(t)
    <3>1. CASE key_path = None
      BY <2>9, <3>1, <1>t, AnswerMoves, KeyLeft DEF EdgeKey, At, paths
    <3>2. CASE key_path # None
      BY <2>9, <3>2, <1>t, GotoMoves, KeyTaken DEF EdgeKey
    <3>. QED BY <3>1, <3>2
  <2>10. CASE EdgeLoad(t)
    <3>1. CASE key_path = Memory
      <4>1. /\ task[t].pc = "edge load" /\ task'[t].pc = "edge path"
            /\ \A u \in Task \ {t} : task'[u] = task[u]
            /\ holder' = holder /\ key_path' = key_path
        BY <2>10, <3>1, <1>t, GotoMoves DEF EdgeLoad, At, paths
      <4>2. KeyHolders'
        BY <4>1 DEF KeyInv, KeyHolders
      <4>3. EdgeOfMemory'
        BY <3>1, <4>1 DEF EdgeOfMemory
      <4>. QED BY <4>2, <4>3 DEF KeyInv
    <3>2. CASE key_path # Memory
      BY <2>10, <3>2, <1>t, AnswerMoves, KeyDropped DEF EdgeLoad, At, paths
    <3>. QED BY <3>1, <3>2
  <2>11. CASE EdgePath(t)
    BY <2>11, <1>t, AnswerMoves, KeyDropped DEF EdgePath, At, paths
  <2>. QED BY <1>2, <2>1, <2>2, <2>3, <2>4, <2>5, <2>6, <2>7, <2>8, <2>9, <2>10, <2>11 DEF Step
<1>3. CASE Recv
  BY <1>3 DEF Recv, paths, KeyInv, KeyHolders, EdgeOfMemory
<1>. QED BY <1>1, <1>2, <1>3 DEF Next

(* Whoever has key_path has all it wants, and whoever has db_path wants     *)
(* key_path at most.                                                        *)
LEMMA HoldersWant ==
  ASSUME LocksInv, KeyInv PROVE LocksInOrder
<1>. SUFFICES ASSUME key_path # Memory, NEW t \in Task, NEW l \in Lock, NEW m \in Lock,
                     holder[l] = t, Wants(t, m)
              PROVE  l = "db_path" /\ m = "key_path"
  BY DEF LocksInOrder
<1>1. CASE l = "key_path"
  <2>1. task[t].pc \in {"login send", "edge load"}
    BY <1>1 DEF KeyInv, KeyHolders, EdgeOfMemory
  <2>. QED BY <2>1 DEF Wants, Lock
<1>2. CASE l = "db_path"
  <2>1. task[t].pc \in {"login key", "login send"}
    BY <1>2 DEF LocksInv, LoginHolds
  <2>. QED BY <1>2, <2>1 DEF Wants, Lock
<1>. QED BY <1>1, <1>2 DEF Lock

(* login_profile (auth.rs:47-62) has db_path when it asks for key_path;     *)
(* create_trust_edge (commands/governance.rs) has key_path when it asks for *)
(* db_path, but only gets there in an amnesic session.  Without one no      *)
(* number of commands waits in a circle.                                    *)
THEOREM LocksInOrderHolds == Spec => []LocksInOrder
<1>1. Init => KeyInv
  <2>. SUFFICES ASSUME Init PROVE KeyInv
    OBVIOUS
  <2>1. \A t \in Task : task[t].pc = "idle"
    BY DEF Init, Idle
  <2>2. holder["key_path"] = None
    BY DEF Init, Lock
  <2>. QED BY <2>1, <2>2, LocksAssumption DEF LocksAssumption, KeyInv, KeyHolders, EdgeOfMemory
<1>2. LocksInv /\ KeyInv /\ [Next]_vars => KeyInv'
  <2>1. LocksInv /\ KeyInv /\ Next => KeyInv'
    BY StepKey DEF LocksInv
  <2>2. KeyInv /\ UNCHANGED vars => KeyInv'
    BY DEF vars, KeyInv, KeyHolders, EdgeOfMemory
  <2>. QED BY <2>1, <2>2
<1>3. LocksInv /\ KeyInv => LocksInOrder
  BY HoldersWant
<1>. QED BY <1>1, <1>2, <1>3, LocksCorrect, PTL DEF Spec
=============================================================================
