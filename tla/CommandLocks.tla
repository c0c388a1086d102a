---------------------------- MODULE CommandLocks ----------------------------
(***************************************************************************)
(* The Tauri commands, which run concurrently, and what they share: the    *)
(* mutexes of AppState, held across awaits, and the bounded channel to the *)
(* event loop.                                                             *)
(*                                                                         *)
(* The commands are those of each kind: login_profile, panic_wipe, one     *)
(* that only sends, one that reads the database (db_path, then db_key,     *)
(* which nothing ever sets), and create_trust_edge, which like             *)
(* create_permission_grant takes key_path first.  db_key is only asked for *)
(* under db_path.                                                          *)
(***************************************************************************)
EXTENDS Integers

CONSTANTS
  Task,      \* the commands in progress
  Profile,   \* a profile's database and its encrypted keypair
  Memory,    \* both paths of an amnesic session
  Logins,    \* what users log in to
  Capacity,  \* of the channel
  None

ASSUME LocksAssumption ==
  /\ Memory \notin Profile /\ Logins \subseteq Profile \cup {Memory} /\ Capacity \in Nat \ {0}
  /\ None \notin Task

Path == Profile \cup {Memory, None}
Lock == {"db_path", "key_path"}
Command == {"login", "wipe", "send", "read", "edge"}

VARIABLES
  db_path, key_path,  \* AppState
  holder,             \* holder[l]: the command that has l, or None
  task,               \* the commands
  queued,             \* the AppCommands in the channel
  loggedIn,           \* a login_profile has returned
  exited              \* the process has ended, or not

vars == <<db_path, key_path, holder, task, queued, loggedIn, exited>>
paths == <<db_path, key_path>>

Idle == [pc |-> "idle", path |-> None, key |-> None, since |-> FALSE, answer |-> "none"]

Init ==
  /\ db_path = None /\ key_path = None /\ holder = [l \in Lock |-> None]
  /\ task = [t \in Task |-> Idle] /\ queued = 0 /\ loggedIn = FALSE /\ exited = FALSE

At(t, pc) == ~exited /\ task[t].pc = pc
Goto(t, pc) == task' = [task EXCEPT ![t].pc = pc]
Answer(t, a) == task' = [task EXCEPT ![t] = [Idle EXCEPT !.since = task[t].since, !.answer = a]]

Free(l) == holder[l] = None
Take(t, l) == Free(l) /\ holder' = [holder EXCEPT ![l] = t]
DropAll(t) == holder' = [l \in Lock |-> IF holder[l] = t THEN None ELSE holder[l]]

First == [login |-> "login path", wipe |-> "wipe path", send |-> "send", read |-> "read",
          edge |-> "edge key"]

Start(t, command, p) ==   \* what is logged in to is loaded or generated first
  /\ At(t, "idle")
  /\ task' = [task EXCEPT ![t] = [pc |-> First[command], path |-> p, key |-> None,
                                  since |-> loggedIn, answer |-> "none"]]
  /\ UNCHANGED <<paths, holder, queued, loggedIn, exited>>

(***************************************************************************)
(* login_profile                                                           *)
(***************************************************************************)
LoginPathMutant(t) ==   \* written under a lock given back at once
  /\ At(t, "login path") /\ Free("db_path") /\ db_path' = task[t].path
  /\ Goto(t, "login key")
  /\ UNCHANGED <<key_path, holder, queued, loggedIn, exited>>

LoginPath(t) ==
  /\ At(t, "login path") /\ Take(t, "db_path") /\ db_path' = task[t].path
  /\ Goto(t, "login key")
  /\ UNCHANGED <<key_path, queued, loggedIn, exited>>

LoginKeyPath(t) ==
  /\ At(t, "login key") /\ Take(t, "key_path") /\ key_path' = task[t].path
  /\ Goto(t, "login send")
  /\ UNCHANGED <<db_path, queued, loggedIn, exited>>

LoginSend(t) ==
  /\ At(t, "login send") /\ queued < Capacity /\ queued' = queued + 1
  /\ DropAll(t) /\ Answer(t, "done") /\ loggedIn' = TRUE
  /\ UNCHANGED <<paths, exited>>

(***************************************************************************)
(* panic_wipe looks at one path, then at the other; Profiles says what it  *)
(* removes.                                                                *)
(***************************************************************************)
WipePath(t) ==
  /\ At(t, "wipe path") /\ Free("db_path")
  /\ task' = [task EXCEPT ![t].path = db_path, ![t].pc = "wipe key"]
  /\ UNCHANGED <<paths, holder, queued, loggedIn, exited>>

WipeKey(t) ==
  /\ At(t, "wipe key") /\ Free("key_path")
  /\ task' = [task EXCEPT ![t].key = key_path, ![t].pc = "wiping"]
  /\ UNCHANGED <<paths, holder, queued, loggedIn, exited>>

WipeExits(t) ==
  /\ At(t, "wiping") /\ exited' = TRUE
  /\ UNCHANGED <<paths, holder, task, queued, loggedIn>>

(***************************************************************************)
(* A command that only sends, and the event loop that receives.            *)
(***************************************************************************)
SendCommand(t) ==
  /\ At(t, "send") /\ queued < Capacity /\ queued' = queued + 1
  /\ Answer(t, "done")
  /\ UNCHANGED <<paths, holder, loggedIn, exited>>

Recv ==
  /\ ~exited /\ queued > 0 /\ queued' = queued - 1
  /\ UNCHANGED <<paths, holder, task, loggedIn, exited>>

(***************************************************************************)
(* A command that reads: with or without a path, there is no db_key.       *)
(***************************************************************************)
ReadDb(t) ==
  /\ At(t, "read") /\ Free("db_path") /\ Answer(t, "Not logged in")
  /\ UNCHANGED <<paths, holder, queued, loggedIn, exited>>

(***************************************************************************)
(* create_trust_edge: load_or_generate_keypair cannot parse the encrypted  *)
(* file of a profile.                                                      *)
(***************************************************************************)
EdgeKey(t) ==
  /\ At(t, "edge key") /\ Free("key_path")
  /\ IF key_path = None
     THEN Answer(t, "Not logged in") /\ UNCHANGED holder
     ELSE Take(t, "key_path") /\ Goto(t, "edge load")
  /\ UNCHANGED <<paths, queued, loggedIn, exited>>

EdgeLoadMutant(t) ==   \* the file is read as it was written
  /\ At(t, "edge load") /\ Goto(t, "edge path")
  /\ UNCHANGED <<paths, holder, queued, loggedIn, exited>>

EdgeLoad(t) ==
  /\ At(t, "edge load")
  /\ IF key_path = Memory
     THEN Goto(t, "edge path") /\ UNCHANGED holder
     ELSE Answer(t, "failed") /\ DropAll(t)
  /\ UNCHANGED <<paths, queued, loggedIn, exited>>

EdgePath(t) ==
  /\ At(t, "edge path") /\ Free("db_path") /\ DropAll(t) /\ Answer(t, "Not logged in")
  /\ UNCHANGED <<paths, queued, loggedIn, exited>>

Step(t) ==
  \/ LoginPath(t) \/ LoginKeyPath(t) \/ LoginSend(t)
  \/ WipePath(t) \/ WipeKey(t) \/ WipeExits(t)
  \/ SendCommand(t) \/ ReadDb(t)
  \/ EdgeKey(t) \/ EdgeLoad(t) \/ EdgePath(t)

Next ==
  \/ \E t \in Task, command \in Command, p \in Logins : Start(t, command, p)
  \/ \E t \in Task : Step(t)
  \/ Recv

(* A mutex and the channel serve those who wait in their order, so a        *)
(* command that could go on again and again does go on.                     *)
Fairness == WF_vars(Recv) /\ \A t \in Task : SF_vars(Step(t))

Spec == Init /\ [][Next]_vars /\ Fairness
-----------------------------------------------------------------------------
Pc == {"idle", "login path", "login key", "login send", "wipe path", "wipe key", "wiping",
       "send", "read", "edge key", "edge load", "edge path"}

TaskState == [pc : Pc, path : Path, key : Path, since : BOOLEAN,
              answer : {"none", "done", "failed", "Not logged in"}]

TypeOK ==
  /\ db_path \in Path /\ key_path \in Path /\ holder \in [Lock -> Task \cup {None}]
  /\ task \in [Task -> TaskState]
  /\ queued \in 0 .. Capacity /\ loggedIn \in BOOLEAN /\ exited \in BOOLEAN

(* However logins and the other commands interleave, whoever has db_path,   *)
(* or finds nobody has it, sees the two paths of one login.                 *)
PathsOfOneLogin == Free("db_path") => db_path = key_path

(* The commands that wait for a mutex.                                      *)
Wants(t, l) ==
  task[t].pc \in CASE l = "db_path" -> {"login path", "wipe path", "read", "edge path"}
                   [] l = "key_path" -> {"login key", "wipe key", "edge key"}

(* Commands ask for a mutex while they have one in one order only, db_path  *)
(* before key_path, so that no number of them waits in a circle; but        *)
(* create_trust_edge of an amnesic session asks in the other order.         *)
LocksInOrder ==
  key_path # Memory =>
    \A t \in Task : \A l, m \in Lock :
      holder[l] = t /\ Wants(t, m) => l = "db_path" /\ m = "key_path"

(* Every command returns, whatever the others do, if nobody logs in to an   *)
(* amnesic session: create_trust_edge then never waits for db_path while it *)
(* has key_path.                                                            *)
CommandsReturn ==
  [](key_path # Memory)
    => \A t \in Task : task[t].pc # "idle" ~> task[t].pc = "idle" \/ exited

(* THREAT_MODEL.md:201-202: the panic wipe path "removes profile paths, and *)
(* exits the process".                                                      *)
PanicWipeEnds == \A t \in Task : task[t].pc = "wipe path" ~> exited

(* README.md:234: "Panic-wipe commands for active profile".  The paths it   *)
(* removes are of one profile.                                              *)
WipeOfOneProfile == \A t \in Task : task[t].pc = "wiping" => task[t].path = task[t].key

(* README.md:121: "Local peer controls: block, mute, rate limit, and PoW    *)
(* requirement flags."  The commands for them find the profile that was     *)
(* logged in to before they began.                                          *)
ProfileFound ==
  \A t \in Task : task[t].since => task[t].answer # "Not logged in"
=============================================================================
