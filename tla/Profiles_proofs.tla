--------------------------- MODULE Profiles_proofs ---------------------------
(***************************************************************************)
(* Profiles for every set of profiles, rooms and scopes of panic_wipe.     *)
(* Two actors load or generate keypairs, the login command and the event   *)
(* loop; what keeps them apart is that a path reaches the queue only after *)
(* its keypair was written whole, so that the loop creates one only while  *)
(* a wipe removes keypairs under it.  Such a wipe ends with the process,   *)
(* which takes along whatever the two disagree on.                         *)
(***************************************************************************)
EXTENDS Profiles, SequenceTheorems, TLAPS

KeyIs(p, k) == k \in Key /\ (p \in Profile => key[p] = k)
Whole(p) == p \in Path /\ (p \in Profile => key[p] \in Key)

UiPc == {"idle", "load", "create", "write", "keyed", "failed", "wipe"}
LoopPc == {"idle", "load", "create", "write", "keyed", "failed", "swarm", "seed", "seeding",
           "finish", "dead"}

UiType ==
  [pc : UiPc, path : Path \cup {None}, key : Key \cup {None}, todo : Seq(File),
   scope : SUBSET File]
LoopType ==
  [pc : LoopPc, path : Path \cup {None}, key : Key \cup {None}, conn : Handle, new : Handle,
   room : Room, at : Room, then : {"idle", "finish"}, dialled : BOOLEAN]

Types ==
  /\ key \in [Profile -> Key \cup {None, Torn}]
  /\ db \in [Path -> Db \cup {None}] /\ chunks \in [Path -> BOOLEAN]
  /\ used \in 0 .. MaxKeys
  /\ app \in [path : Path \cup {None}, id : Key \cup {None}]
  /\ ui \in UiType /\ queue \in Seq(Path) /\ loop \in LoopType

(* A connection is to a database that is there.                            *)
HandlesOpen == \A h \in {loop.conn, loop.new} : HasDb(h) => db[h] # None

(* Where the event loop has its keypair, has published it, and works on the *)
(* connection it opens or on the one it has.                               *)
Opening(l) ==
  \/ l.pc \in {"load", "keyed", "swarm", "finish"}
  \/ l.pc \in {"seed", "seeding"} /\ l.then = "finish"
Serving(l) ==
  \/ l.pc = "idle" /\ l.conn # None
  \/ l.pc \in {"seed", "seeding"} /\ l.then = "idle"
Keyed(l) == Serving(l) \/ (Opening(l) /\ l.pc # "load")
Published(l) == Keyed(l) /\ l.pc # "keyed"

(* The keypair the loop is creating, or has for the session it opens.       *)
LoopKeys ==
  /\ loop.pc \in {"create", "write"} => loop.path \in Profile /\ loop.key \in Key
  /\ loop.pc = "create" => key[loop.path] = None
  /\ Opening(loop) /\ loop.pc # "load" => loop.key \in Key

(* What is still to be removed was listed.                                 *)
Listed == \A i \in 1 .. Len(ui.todo) : ui.todo[i] \in ui.scope

Basic == Types /\ HandlesOpen /\ LoopKeys /\ Listed
-----------------------------------------------------------------------------
(* The command in progress.                                                *)
UiInv ==
  /\ ui.pc \in {"load", "create", "write", "keyed", "failed"} => ui.path \in Path
  /\ ui.pc \in {"create", "write"} => ui.path \in Profile /\ ui.key \in Key
  /\ ui.pc = "create" => key[ui.path] = None
  /\ ui.pc = "write" => key[ui.path] = Torn
  /\ ui.pc = "keyed" => KeyIs(ui.path, ui.key)
  /\ ui.pc \in {"idle", "wipe"} /\ ui.path \in Profile => key[ui.path] = ui.key

LoopInv ==
  /\ loop.pc \notin {"create", "write", "failed"}
  /\ Opening(loop) => Whole(loop.path) /\ loop.new \in {loop.path, Gone}
  /\ Serving(loop) => Whole(loop.path) /\ loop.conn \in {loop.path, Gone}
  /\ Keyed(loop) => KeyIs(loop.path, loop.key)
  /\ Published(loop) => app.id = loop.key

QueueInv ==
  /\ \A i \in 1 .. Len(queue) : Whole(queue[i])
  /\ loop.pc # "dead" =>
       app.path = IF queue = <<>> THEN loop.path ELSE queue[Len(queue)]

(* How things are as long as no keypair is taken away.                      *)
Calm == UiInv /\ LoopInv /\ QueueInv

(* A wipe of the active profile or of all.                                 *)
WipesKeys == ui.pc = "wipe" /\ \E f \in ui.scope : f.kind = "key"

MessagesOnly == Scopes \subseteq {"message_db_only"}

ProfilesInv ==
  /\ Basic
  /\ ~WipesKeys => Calm
  /\ MessagesOnly => ~WipesKeys /\ OwnerIsIdentity

(* What a step keeps, each as long as it rests on it.                       *)
Kept == Basic' /\ (Calm => Calm') /\ (Calm /\ OwnerIsIdentity => OwnerIsIdentity')
-----------------------------------------------------------------------------
LEMMA Constants ==
  /\ Path = Profile \cup {Memory} /\ Memory \notin Profile /\ None \notin Path /\ Gone \notin Path
  /\ None \notin Key /\ Torn \notin Key /\ Torn # None /\ Gone # None /\ None \notin Db
  /\ Handle = Path \cup {None, Gone} /\ Global \in Room /\ EmptyDb \in Db
<1>1. 0 \in 0 .. DefaultRoles
  BY DEF DefaultRoles
<1>2. EmptyDb \in Db
  BY <1>1 DEF EmptyDb, Db
<1> QED
  BY <1>2, ProfilesAssumption, AbsentAssumption DEF Path, Handle

(* A process that has just begun.                                          *)
LEMMA NewProcess ==
  /\ NewApp \in [path : Path \cup {None}, id : Key \cup {None}] /\ NewApp.path = None
  /\ NewUi \in UiType /\ NewUi.pc = "idle" /\ NewUi.path = None /\ NewUi.todo = <<>>
  /\ NewLoop \in LoopType /\ NewLoop.pc = "idle" /\ NewLoop.path = None
  /\ NewLoop.conn = None /\ NewLoop.new = None
<1>1. NewUi \in UiType
  BY EmptySeq DEF NewUi, UiType, UiPc
<1>2. NewLoop \in LoopType
  BY Constants DEF NewLoop, LoopType, LoopPc
<1> QED
  BY <1>1, <1>2 DEF NewApp, NewUi, NewLoop

LEMMA FreshCalm ==
  ASSUME app = NewApp, ui = NewUi, queue = <<>>, loop = NewLoop
  PROVE  HandlesOpen /\ LoopKeys /\ Listed /\ Calm /\ ~WipesKeys
<1>1. HandlesOpen
  BY NewProcess, Constants DEF HandlesOpen, HasDb
<1>2. LoopKeys /\ LoopInv
  BY NewProcess DEF LoopKeys, LoopInv, Opening, Serving, Keyed, Published
<1>3. Listed /\ UiInv /\ ~WipesKeys
  BY NewProcess, Constants DEF Listed, UiInv, WipesKeys
<1>4. QueueInv
  BY NewProcess DEF QueueInv
<1> QED
  BY <1>1, <1>2, <1>3, <1>4 DEF Calm

LEMMA InitProfiles == Init => ProfilesInv
<1> SUFFICES ASSUME Init PROVE ProfilesInv
  OBVIOUS
<1>1. HandlesOpen /\ LoopKeys /\ Listed /\ Calm /\ ~WipesKeys
  BY FreshCalm DEF Init
<1>2. Types
  BY NewProcess, Constants, ProfilesAssumption, EmptySeq DEF Init, Types
<1>3. OwnerIsIdentity
  BY Constants DEF Init, OwnerIsIdentity
<1> QED
  BY <1>1, <1>2, <1>3 DEF ProfilesInv, Basic
-----------------------------------------------------------------------------
(* What a step leaves alone stays as it was.                               *)
LEMMA SameUi ==
  ASSUME UNCHANGED <<ui, key>>
  PROVE  (UiInv => UiInv') /\ (Listed => Listed') /\ (WipesKeys' <=> WipesKeys)
BY DEF UiInv, KeyIs, Listed, WipesKeys

LEMMA SameLoop ==
  ASSUME UNCHANGED <<loop, key>>, app'.id = app.id
  PROVE  (LoopInv => LoopInv') /\ (LoopKeys => LoopKeys')
BY DEF LoopInv, LoopKeys, Opening, Serving, Keyed, Published, Whole, KeyIs

LEMMA SameQueue ==
  ASSUME UNCHANGED <<queue, key>>, app'.path = app.path, loop'.path = loop.path,
         loop'.pc = "dead" <=> loop.pc = "dead"
  PROVE  QueueInv => QueueInv'
BY DEF QueueInv, Whole

LEMMA SameHandles ==
  ASSUME HandlesOpen, UNCHANGED db, loop'.conn = loop.conn, loop'.new = loop.new
  PROVE  HandlesOpen'
BY DEF HandlesOpen, HasDb

LEMMA SameOwners ==
  ASSUME UNCHANGED <<db, key>>
  PROVE  OwnerIsIdentity => OwnerIsIdentity'
BY DEF OwnerIsIdentity

LEMMA KeptIsEnough ==
  ASSUME ProfilesInv, Kept, WipesKeys' <=> WipesKeys
  PROVE  ProfilesInv'
BY DEF ProfilesInv, Kept, MessagesOnly
-----------------------------------------------------------------------------
(* load_or_generate_encrypted_keypair: a file that is written was not whole.*)
LEMMA KeyStep ==
  ASSUME NEW a, NEW b, {"pc", "key"} \subseteq DOMAIN a, a = [x \in DOMAIN a |-> a[x]],
         key \in [Profile -> Key \cup {None, Torn}], used \in 0 .. MaxKeys,
         a.key \in Key \cup {None},
         a.pc \in {"create", "write"} => a.path \in Profile /\ a.key \in Key,
         a.pc = "create" => key[a.path] = None,
         LoadOrGenerate(a, b)
  PROVE  /\ \A p \in Profile : key[p] \in Key => key'[p] = key[p]
         /\ key' \in [Profile -> Key \cup {None, Torn}] /\ used' \in 0 .. MaxKeys
         /\ b = [a EXCEPT !.pc = b.pc, !.key = b.key] /\ b.key \in Key \cup {None}
         /\ \/ b.pc = "failed"
            \/ b.pc = "keyed" /\ b.key \in Key
            \/ b.pc = "create" /\ a.path \in Profile /\ b.key \in Key /\ key'[a.path] = None
            \/ b.pc = "write" /\ a.path \in Profile /\ b.key \in Key /\ key'[a.path] = Torn
         /\ b.pc = "keyed" /\ (a.pc = "write" => key[a.path] = Torn)
              => (a.path \in Profile => key'[a.path] = b.key)
<1>1. ASSUME NEW pc, Draw(a, b, pc)
      PROVE  /\ b = [a EXCEPT !.pc = b.pc, !.key = b.key] /\ b.pc = pc
             /\ b.key \in Key /\ used' \in 0 .. MaxKeys
  <2>1. used' \in Key /\ used' \in 0 .. MaxKeys
    BY <1>1, ProfilesAssumption DEF Draw, Key
  <2> QED
    BY <1>1, <2>1 DEF Draw
<1>2. CASE a.pc = "load" /\ a.path = Memory /\ Draw(a, b, "keyed") /\ UNCHANGED key
  BY <1>1, <1>2, Constants
<1>3. CASE a.pc = "load" /\ a.path \in Profile /\ key[a.path] = None
           /\ Draw(a, b, "create") /\ UNCHANGED key
  BY <1>1, <1>3
<1>4. CASE a.pc = "load" /\ b = [a EXCEPT !.pc = "failed"] /\ UNCHANGED <<used, key>>
  BY <1>4
<1>5. CASE a.pc = "load" /\ a.path \in Profile /\ key[a.path] \in Key
           /\ b = [a EXCEPT !.pc = "keyed", !.key = key[a.path]] /\ UNCHANGED <<used, key>>
  BY <1>5
<1>6. CASE a.pc = "create" /\ key' = [key EXCEPT ![a.path] = Torn]
           /\ b = [a EXCEPT !.pc = "write"] /\ UNCHANGED used
  BY <1>6, Constants
<1>7. CASE a.pc = "write" /\ key' = [key EXCEPT ![a.path] = IF @ = Torn THEN a.key ELSE @]
           /\ b = [a EXCEPT !.pc = "keyed"] /\ UNCHANGED used
  BY <1>7, Constants
<1> QED
  BY <1>2, <1>3, <1>4, <1>5, <1>6, <1>7 DEF LoadOrGenerate
-----------------------------------------------------------------------------
(* The commands.                                                           *)
LEMMA LoginProfileKeeps ==
  ASSUME Basic, NEW p \in Path, LoginProfile(p)
  PROVE  Kept /\ ~WipesKeys /\ ~WipesKeys'
<1>1. Types /\ UNCHANGED <<key, chunks, db, used, app, queue, loop>>
  BY DEF Basic, LoginProfile, disk
<1>2. /\ ui' \in UiType /\ ui'.pc = "load" /\ ui'.path = p /\ ui'.todo = <<>>
      /\ ui.pc = "idle"
  BY NewProcess DEF LoginProfile, UiType, UiPc
<1>3. Types' /\ Listed' /\ UiInv' /\ ~WipesKeys /\ ~WipesKeys'
  BY <1>1, <1>2 DEF Types, Listed, UiInv, WipesKeys
<1>4. HandlesOpen' /\ LoopKeys' /\ (LoopInv => LoopInv') /\ (QueueInv => QueueInv')
  BY <1>1, SameLoop, SameHandles, SameQueue DEF Basic
<1>5. OwnerIsIdentity => OwnerIsIdentity'
  BY <1>1, SameOwners
<1> QED
  BY <1>3, <1>4, <1>5 DEF Kept, Basic, Calm

(* Keypairs that are whole stay, so every fact that rests on them stays.    *)
LEMMA KeysKept ==
  ASSUME Types, LoopInv, QueueInv,
         \A p \in Profile : key[p] \in Key => key'[p] = key[p],
         UNCHANGED <<db, app, queue, loop>>
  PROVE  LoopInv' /\ QueueInv' /\ (OwnerIsIdentity => OwnerIsIdentity')
<1>1. \A p : Whole(p) => Whole(p)'
  BY DEF Whole
<1>2. \A p, k : KeyIs(p, k) => KeyIs(p, k)'
  BY DEF KeyIs
<1>3. LoopInv'
  BY <1>1, <1>2 DEF LoopInv, Opening, Serving, Keyed, Published
<1>4. QueueInv'
  BY <1>1 DEF QueueInv
<1>5. ASSUME OwnerIsIdentity
      PROVE  OwnerIsIdentity'
  <2> SUFFICES ASSUME NEW p \in Profile, NEW r \in Room, db[p] # None, db[p].owner[r] # None
               PROVE  key'[p] = db[p].owner[r]
    BY DEF OwnerIsIdentity
  <2>1. key[p] = db[p].owner[r]
    BY <1>5 DEF OwnerIsIdentity
  <2>2. db[p] \in Db
    BY DEF Types, Path
  <2>3. db[p].owner[r] \in Key
    BY <2>2 DEF Db
  <2> QED
    BY <2>1, <2>3
<1> QED
  BY <1>3, <1>4, <1>5

LEMMA LoginKeyKeeps ==
  ASSUME Basic, Calm, LoginKey
  PROVE  /\ Kept /\ ~WipesKeys /\ ~WipesKeys'
         /\ \A p \in Profile : key[p] \in Key => key'[p] = key[p]
<1>1. /\ Types /\ UiInv /\ LoadOrGenerate(ui, ui')
      /\ UNCHANGED <<db, chunks, app, queue, loop, wiped>>
  BY DEF Basic, Calm, LoginKey
<1>2. /\ {"pc", "key"} \subseteq DOMAIN ui /\ ui = [x \in DOMAIN ui |-> ui[x]]
      /\ key \in [Profile -> Key \cup {None, Torn}] /\ used \in 0 .. MaxKeys
      /\ ui.key \in Key \cup {None}
  BY <1>1 DEF Types, UiType
<1>3. /\ ui.pc \in {"create", "write"} => ui.path \in Profile /\ ui.key \in Key
      /\ ui.pc = "create" => key[ui.path] = None
      /\ ui.pc = "write" => key[ui.path] = Torn
  BY <1>1 DEF UiInv
<1>4. /\ \A p \in Profile : key[p] \in Key => key'[p] = key[p]
      /\ key' \in [Profile -> Key \cup {None, Torn}] /\ used' \in 0 .. MaxKeys
      /\ ui' = [ui EXCEPT !.pc = ui'.pc, !.key = ui'.key] /\ ui'.key \in Key \cup {None}
      /\ \/ ui'.pc = "failed"
         \/ ui'.pc = "keyed" /\ ui'.key \in Key
         \/ ui'.pc = "create" /\ ui.path \in Profile /\ ui'.key \in Key /\ key'[ui.path] = None
         \/ ui'.pc = "write" /\ ui.path \in Profile /\ ui'.key \in Key /\ key'[ui.path] = Torn
      /\ ui'.pc = "keyed" => (ui.path \in Profile => key'[ui.path] = ui'.key)
  BY <1>1, <1>2, <1>3, KeyStep
<1>5. ui' \in UiType /\ ui'.path = ui.path /\ ui'.todo = ui.todo /\ ui'.scope = ui.scope
  <2>1. ui'.pc \in UiPc
    BY <1>4 DEF UiPc
  <2> QED
    BY <1>1, <1>4, <2>1 DEF Types, UiType
<1>6. Types' /\ Listed' /\ ~WipesKeys /\ ~WipesKeys'
  <2>1. ui.pc # "wipe" /\ ui'.pc # "wipe"
    BY <1>1, <1>4 DEF LoadOrGenerate
  <2> QED
    BY <1>1, <1>4, <1>5, <2>1 DEF Types, Basic, Listed, WipesKeys
<1>7. UiInv'
  <2>1. ui.path \in Path
    BY <1>1 DEF LoadOrGenerate, UiInv
  <2> QED
    BY <1>4, <1>5, <2>1 DEF UiInv, KeyIs
<1>8. LoopInv' /\ QueueInv' /\ (OwnerIsIdentity => OwnerIsIdentity')
  BY <1>1, <1>4, KeysKept DEF Calm
<1>9. HandlesOpen' /\ LoopKeys'
  BY <1>1, SameHandles DEF Basic, Calm, LoopInv, LoopKeys, Opening
<1> QED
  BY <1>4, <1>6, <1>7, <1>8, <1>9 DEF Kept, Basic, Calm

LEMMA LoginFailsKeeps ==
  ASSUME Basic, LoginFails
  PROVE  Kept /\ ~WipesKeys /\ ~WipesKeys'
<1>1. Types /\ UNCHANGED <<key, chunks, db, used, app, queue, loop>>
  BY DEF Basic, LoginFails, disk
<1>2. ui' = NewUi /\ ui.pc = "failed"
  BY DEF LoginFails
<1>3. Types' /\ Listed' /\ UiInv' /\ ~WipesKeys /\ ~WipesKeys'
  BY <1>1, <1>2, NewProcess, Constants DEF Types, Listed, UiInv, WipesKeys
<1>4. HandlesOpen' /\ LoopKeys' /\ (LoopInv => LoopInv') /\ (QueueInv => QueueInv')
  BY <1>1, SameLoop, SameHandles, SameQueue DEF Basic
<1>5. OwnerIsIdentity => OwnerIsIdentity'
  BY <1>1, SameOwners
<1> QED
  BY <1>3, <1>4, <1>5 DEF Kept, Basic, Calm

(* What is queued has a whole keypair: login_profile wrote or read it.      *)
LEMMA LoginSendKeeps ==
  ASSUME Basic, Calm, LoginSend
  PROVE  Kept /\ ~WipesKeys /\ ~WipesKeys'
<1>1. Types /\ UNCHANGED <<key, chunks, db, used, loop, wiped>> /\ ui.pc = "keyed"
  BY DEF Basic, LoginSend, disk
<1>2. ui.path \in Path /\ KeyIs(ui.path, ui.key) /\ Whole(ui.path)
  BY DEF Calm, UiInv, LoginSend, KeyIs, Whole
<1>3. /\ app' = [app EXCEPT !.path = ui.path] /\ app'.path = ui.path /\ app'.id = app.id
      /\ app' \in [path : Path \cup {None}, id : Key \cup {None}]
  BY <1>1, <1>2 DEF LoginSend, Types
<1>4. HandlesOpen' /\ LoopKeys' /\ LoopInv' /\ (OwnerIsIdentity => OwnerIsIdentity')
  BY <1>1, <1>3, SameLoop, SameHandles, SameOwners DEF Basic, Calm
<1>5. ASSUME Types', Listed', UiInv', QueueInv', ui'.pc = "idle"
      PROVE  Kept /\ ~WipesKeys /\ ~WipesKeys'
  BY <1>1, <1>4, <1>5 DEF Kept, Basic, Calm, WipesKeys
<1>6. CASE loop.pc = "dead"
  <2>1. ui' = NewUi /\ queue' = queue
    BY <1>6 DEF LoginSend
  <2>2. Types' /\ Listed' /\ ui'.pc = "idle"
    BY <1>1, <1>3, <2>1, NewProcess DEF Types, Listed
  <2>3. UiInv'
    BY <2>1, NewProcess, Constants DEF UiInv
  <2>4. QueueInv'
    BY <1>1, <1>6, <2>1 DEF Calm, QueueInv, Whole
  <2> QED
    BY <1>5, <2>2, <2>3, <2>4
<1>7. CASE loop.pc # "dead"
  <2>1. ui' = [ui EXCEPT !.pc = "idle"] /\ queue' = Append(queue, ui.path)
    BY <1>7 DEF LoginSend
  <2>2. queue \in Seq(Path)
    BY <1>1 DEF Types
  <2>3. /\ queue' \in Seq(Path) /\ Len(queue') = Len(queue) + 1
        /\ queue'[Len(queue')] = ui.path
        /\ \A i \in 1 .. Len(queue) : queue'[i] = queue[i]
    BY <1>2, <2>1, <2>2
  <2>4. /\ ui' \in UiType /\ ui'.pc = "idle" /\ ui'.path = ui.path /\ ui'.key = ui.key
        /\ ui'.todo = ui.todo /\ ui'.scope = ui.scope
    BY <1>1, <2>1 DEF Types, UiType, UiPc
  <2>5. Types' /\ Listed'
    BY <1>1, <1>3, <2>3, <2>4 DEF Types, Basic, Listed
  <2>6. UiInv'
    BY <1>1, <1>2, <2>4 DEF UiInv, KeyIs
  <2>7. QueueInv'
    <3>1. \A i \in 1 .. Len(queue) : Whole(queue[i])
      BY DEF Calm, QueueInv
    <3>2. \A i \in 1 .. Len(queue') : Whole(queue'[i])
      BY <1>2, <2>2, <2>3, <3>1
    <3>3. queue' # <<>>
      BY <2>2, <2>3
    <3> QED
      BY <1>1, <1>3, <2>3, <3>2, <3>3 DEF QueueInv, Whole
  <2> QED
    BY <1>5, <2>4, <2>5, <2>6, <2>7
<1> QED
  BY <1>6, <1>7
-----------------------------------------------------------------------------
(* The event loop.                                                         *)
LEMMA OpenDbKeeps ==
  ASSUME Basic, OpenDb
  PROVE  Kept
<1> DEFINE p == Head(queue)
<1>1. Types /\ UNCHANGED <<key, chunks, used, app, ui, wiped>>
  BY DEF Basic, OpenDb, disk
<1>2. /\ queue \in Seq(Path) /\ queue # <<>> /\ Len(queue) \in Nat \ {0}
      /\ p = queue[1] /\ p \in Path
  BY <1>1 DEF OpenDb, Types
<1>3. /\ Tail(queue) \in Seq(Path) /\ Len(Tail(queue)) = Len(queue) - 1
      /\ \A i \in 1 .. Len(queue) - 1 : Tail(queue)[i] = queue[i + 1]
      /\ Tail(queue) = <<>> <=> Len(queue) = 1
  <2> HIDE DEF p
  <2>1. /\ Tail(queue) \in Seq(Path) /\ Len(Tail(queue)) = Len(queue) - 1
        /\ \A i \in 1 .. Len(Tail(queue)) : Tail(queue)[i] = queue[i + 1]
    BY <1>2, HeadTailProperties
  <2>2. Tail(queue) = <<>> <=> Len(Tail(queue)) = 0
    BY <2>1, EmptySeq
  <2> QED
    BY <1>2, <2>1, <2>2
<1>4. /\ queue' = Tail(queue)
      /\ db' = [db EXCEPT ![p] = IF p = Memory \/ @ = None THEN EmptyDb ELSE @]
      /\ loop' = [loop EXCEPT !.pc = "load", !.path = p, !.new = p, !.dialled = loop'.dialled]
      /\ loop'.dialled \in BOOLEAN
  <2>1. HasDb(loop.conn) => db[loop.conn].peers \in BOOLEAN
    <3>1. HasDb(loop.conn) => db[loop.conn] \in Db
      BY <1>1 DEF Types, Basic, HandlesOpen, HasDb
    <3> QED
      BY <3>1 DEF Db
  <2> QED
    BY <1>1, <2>1 DEF OpenDb, Types, LoopType
<1>5. /\ loop'.pc = "load" /\ loop'.path = p /\ loop'.new = p /\ loop'.conn = loop.conn
      /\ loop' \in LoopType
  <2> HIDE DEF p
  <2>1. p \in Handle
    BY <1>2, Constants
  <2> QED
    BY <1>1, <1>2, <1>4, <2>1 DEF Types, LoopType, LoopPc
<1> HIDE DEF p
<1>6. db' \in [Path -> Db \cup {None}] /\ db'[p] # None
  BY <1>1, <1>2, <1>4, Constants DEF Types
<1>7. \A q \in Path : db'[q] = db[q] \/ db'[q] = EmptyDb
  BY <1>1, <1>2, <1>4 DEF Types
<1>8. Types'
  BY <1>1, <1>3, <1>4, <1>5, <1>6 DEF Types
<1>9. HandlesOpen' /\ LoopKeys' /\ Listed'
  <2>1. HandlesOpen'
    BY <1>5, <1>6, <1>7, Constants DEF Basic, HandlesOpen, HasDb
  <2> QED
    BY <1>1, <1>5, <2>1, SameUi DEF Basic, LoopKeys, Opening
<1>10. ASSUME Calm
       PROVE  Calm'
  <2>1. Whole(p) /\ \A i \in 1 .. Len(queue) : Whole(queue[i])
    BY <1>2, <1>10 DEF Calm, QueueInv
  <2>2. UiInv' /\ LoopInv'
    BY <1>1, <1>5, <1>10, <2>1, SameUi DEF Calm, LoopInv, Opening, Serving, Keyed, Published, Whole
  <2>3. (\A i \in 1 .. Len(queue) : Whole(queue[i]))'
    BY <1>1, <1>2, <1>3, <1>4, <2>1 DEF Whole
  <2>4. app.path = queue[Len(queue)]
    BY <1>2, <1>10 DEF Calm, QueueInv, OpenDb
  <2>5. app.path = IF Len(queue) = 1 THEN p ELSE Tail(queue)[Len(queue) - 1]
    BY <1>2, <1>3, <2>4
  <2>6. QueueInv'
    BY <1>1, <1>2, <1>3, <1>4, <1>5, <2>3, <2>5 DEF QueueInv
  <2> QED
    BY <2>2, <2>6 DEF Calm
<1>11. OwnerIsIdentity => OwnerIsIdentity'
  <2>1. \A r \in Room : EmptyDb.owner[r] = None
    BY DEF EmptyDb
  <2> QED
    BY <1>1, <1>7, <2>1 DEF OwnerIsIdentity, Path
<1> QED
  BY <1>8, <1>9, <1>10, <1>11 DEF Kept, Basic

(* The loop finds the keypair that login_profile left, and creates none,    *)
(* unless a wipe has removed it; no more than the command does it write     *)
(* over a whole one.                                                        *)
LEMMA SessionKeyKeeps ==
  ASSUME Basic, SessionKey
  PROVE  Kept /\ \A p \in Profile : key[p] \in Key => key'[p] = key[p]
<1>1. Types /\ LoadOrGenerate(loop, loop') /\ UNCHANGED <<db, chunks, app, ui, queue, wiped>>
  BY DEF Basic, SessionKey
<1>2. /\ {"pc", "key"} \subseteq DOMAIN loop /\ loop = [x \in DOMAIN loop |-> loop[x]]
      /\ key \in [Profile -> Key \cup {None, Torn}] /\ used \in 0 .. MaxKeys
      /\ loop.key \in Key \cup {None}
  BY <1>1 DEF Types, LoopType
<1>3. /\ loop.pc \in {"create", "write"} => loop.path \in Profile /\ loop.key \in Key
      /\ loop.pc = "create" => key[loop.path] = None
  BY DEF Basic, LoopKeys
<1>4. /\ \A p \in Profile : key[p] \in Key => key'[p] = key[p]
      /\ key' \in [Profile -> Key \cup {None, Torn}] /\ used' \in 0 .. MaxKeys
      /\ loop' = [loop EXCEPT !.pc = loop'.pc, !.key = loop'.key] /\ loop'.key \in Key \cup {None}
      /\ \/ loop'.pc = "failed"
         \/ loop'.pc = "keyed" /\ loop'.key \in Key
         \/ loop'.pc = "create" /\ loop.path \in Profile /\ loop'.key \in Key
              /\ key'[loop.path] = None
         \/ loop'.pc = "write" /\ loop.path \in Profile /\ loop'.key \in Key
              /\ key'[loop.path] = Torn
      /\ loop'.pc = "keyed" /\ (loop.pc = "write" => key[loop.path] = Torn)
           => (loop.path \in Profile => key'[loop.path] = loop'.key)
  BY <1>1, <1>2, <1>3, KeyStep
<1>5. /\ loop' \in LoopType /\ loop'.path = loop.path /\ loop'.new = loop.new
      /\ loop'.conn = loop.conn
  <2>1. loop'.pc \in LoopPc
    BY <1>4 DEF LoopPc
  <2> QED
    BY <1>1, <1>4, <2>1 DEF Types, LoopType
<1>6. Types'
  BY <1>1, <1>4, <1>5 DEF Types
<1>7. LoopKeys'
  BY <1>4, <1>5 DEF LoopKeys, Opening
<1>8. HandlesOpen' /\ Listed'
  BY <1>1, <1>5, SameHandles DEF Basic, Listed
<1>9. ASSUME Calm
      PROVE  Calm' /\ key' = key
  <2>1. loop.pc = "load" /\ Whole(loop.path) /\ loop.new \in {loop.path, Gone}
    BY <1>1, <1>9 DEF Calm, LoopInv, LoadOrGenerate, Opening
  <2>2. loop.path \in Profile => key[loop.path] \in Key
    BY <2>1 DEF Whole
  <2>3. key' = key /\ loop'.pc = "keyed"
    BY <1>1, <1>2, <1>4, <2>1, <2>2, Constants DEF LoadOrGenerate, Draw
  <2>4. loop'.key \in Key /\ (loop.path \in Profile => key[loop.path] = loop'.key)
    BY <1>4, <2>1, <2>3
  <2>5. LoopInv'
    BY <1>5, <2>1, <2>3, <2>4 DEF LoopInv, Opening, Serving, Keyed, Published, Whole, KeyIs
  <2> QED
    BY <1>1, <1>5, <1>9, <2>1, <2>3, <2>5, SameUi, SameQueue DEF Calm
<1>10. Calm => (OwnerIsIdentity => OwnerIsIdentity')
  BY <1>1, <1>9, SameOwners
<1> QED
  BY <1>4, <1>6, <1>7, <1>8, <1>9, <1>10 DEF Kept, Basic

LEMMA CreateSwarmKeeps ==
  ASSUME Basic, CreateSwarm
  PROVE  Kept
<1>1. Types /\ UNCHANGED <<key, chunks, db, used, ui, queue, wiped>>
  BY DEF Basic, CreateSwarm, disk
<1>2. loop.pc = "keyed" /\ Opening(loop) /\ loop.key \in Key
  BY DEF Basic, LoopKeys, CreateSwarm, Opening
<1>3. /\ app'.id = loop.key /\ app'.path = app.path
      /\ app' \in [path : Path \cup {None}, id : Key \cup {None}]
      /\ loop'.pc = "swarm" /\ loop' \in LoopType
      /\ loop'.path = loop.path /\ loop'.key = loop.key /\ loop'.new = loop.new
      /\ loop'.conn = loop.conn
  BY <1>1, <1>2 DEF CreateSwarm, Types, LoopType, LoopPc
<1>4. Types' /\ LoopKeys'
  BY <1>1, <1>2, <1>3 DEF Types, LoopKeys
<1>5. HandlesOpen' /\ Listed'
  BY <1>1, <1>3, SameHandles DEF Basic, Listed
<1>6. ASSUME Calm
      PROVE  Calm'
  <2>1. KeyIs(loop.path, loop.key) /\ Whole(loop.path) /\ loop.new \in {loop.path, Gone}
    BY <1>2, <1>6 DEF Calm, LoopInv, Opening, Keyed
  <2>2. LoopInv'
    BY <1>1, <1>3, <2>1 DEF LoopInv, Opening, Serving, Keyed, Published, Whole, KeyIs
  <2> QED
    BY <1>1, <1>2, <1>3, <1>6, <2>2, SameUi, SameQueue DEF Calm
<1> QED
  BY <1>1, <1>4, <1>5, <1>6, SameOwners DEF Kept, Basic

LEMMA SwarmUpKeeps ==
  ASSUME Basic, SwarmUp
  PROVE  Kept
<1>1. Types /\ UNCHANGED <<key, chunks, db, used, app, ui, queue, wiped>>
  BY DEF Basic, SwarmUp, disk
<1>2. loop.pc = "swarm" /\ Opening(loop) /\ loop.key \in Key
  BY DEF Basic, LoopKeys, SwarmUp, Opening
<1>3. /\ loop'.pc = "seed" /\ loop'.then = "finish" /\ loop'.path = loop.path
      /\ loop'.key = loop.key /\ loop'.new = loop.new /\ loop'.conn = loop.conn
      /\ loop' \in LoopType
  BY <1>1 DEF SwarmUp, Types, LoopType, LoopPc
<1>4. Types' /\ LoopKeys'
  BY <1>1, <1>2, <1>3 DEF Types, LoopKeys
<1>5. HandlesOpen' /\ Listed'
  BY <1>1, <1>3, SameHandles DEF Basic, Listed
<1>6. ASSUME Calm
      PROVE  Calm'
  <2>1. /\ KeyIs(loop.path, loop.key) /\ Whole(loop.path) /\ loop.new \in {loop.path, Gone}
        /\ app.id = loop.key
    BY <1>2, <1>6 DEF Calm, LoopInv, Opening, Keyed, Published
  <2>2. LoopInv'
    BY <1>1, <1>3, <2>1 DEF LoopInv, Opening, Serving, Keyed, Published, Whole, KeyIs
  <2> QED
    BY <1>1, <1>2, <1>3, <1>6, <2>2, SameUi, SameQueue DEF Calm
<1> QED
  BY <1>1, <1>4, <1>5, <1>6, SameOwners DEF Kept, Basic

LEMMA DiesKeeps ==
  ASSUME Basic, Dies
  PROVE  Kept
<1>1. Types /\ UNCHANGED <<key, chunks, db, used, app, ui, wiped>> /\ queue' = <<>>
  BY DEF Basic, Dies, disk
<1>2. loop'.pc = "dead" /\ loop'.conn = None /\ loop'.new = None /\ loop' \in LoopType
  <2>1. "dead" \in LoopPc /\ None \in Handle
    BY Constants DEF LoopPc
  <2>2. loop' = [loop EXCEPT !.pc = "dead", !.conn = None, !.new = None]
    BY DEF Dies
  <2> QED
    BY <1>1, <2>1, <2>2 DEF Types, LoopType
<1>3. Types'
  BY <1>1, <1>2, EmptySeq DEF Types
<1>4. HandlesOpen' /\ LoopKeys' /\ Listed'
  BY <1>1, <1>2, Constants DEF Basic, HandlesOpen, HasDb, LoopKeys, Opening, Listed
<1>5. LoopInv' /\ QueueInv'
  BY <1>1, <1>2 DEF LoopInv, Opening, Serving, Keyed, Published, QueueInv
<1> QED
  BY <1>1, <1>3, <1>4, <1>5, SameUi, SameOwners DEF Kept, Basic, Calm

(* Seeding goes on to the handler or the session it is part of.             *)
LEMMA SeedGoesOn ==
  ASSUME Basic, loop.pc \in {"seed", "seeding"}, UNCHANGED <<key, app>>,
         \/ loop' = loop
         \/ loop' = [loop EXCEPT !.pc = loop.then]
         \/ loop' = [loop EXCEPT !.pc = "seeding"]
  PROVE  /\ loop' \in LoopType /\ LoopKeys' /\ (LoopInv => LoopInv')
         /\ loop'.path = loop.path /\ loop'.conn = loop.conn /\ loop'.new = loop.new
         /\ loop'.pc # "dead"
<1>1. loop \in LoopType
  BY DEF Basic, Types
<1>2. /\ loop' \in LoopType
      /\ loop'.path = loop.path /\ loop'.conn = loop.conn /\ loop'.new = loop.new
      /\ loop'.key = loop.key /\ loop'.then = loop.then
      /\ loop'.pc \in {"seed", "seeding", loop.then}
  BY <1>1 DEF LoopType, LoopPc
<1>3. loop.then \in {"idle", "finish"}
  BY <1>1 DEF LoopType
<1>4. loop.then = "finish" => loop.key \in Key
  BY DEF Basic, LoopKeys, Opening
<1>5. LoopKeys'
  BY <1>2, <1>3, <1>4 DEF LoopKeys, Opening
<1>6. CASE loop.then = "finish"
  <2>1. LoopInv => /\ KeyIs(loop.path, loop.key) /\ Whole(loop.path)
                   /\ loop.new \in {loop.path, Gone} /\ app.id = loop.key
    BY <1>6 DEF LoopInv, Opening, Keyed, Published
  <2>2. LoopInv => LoopInv'
    BY <1>2, <1>6, <2>1 DEF LoopInv, Opening, Serving, Keyed, Published, Whole, KeyIs
  <2> QED
    BY <1>2, <1>5, <1>6, <2>2
<1>7. CASE loop.then = "idle"
  <2>1. LoopInv => /\ KeyIs(loop.path, loop.key) /\ Whole(loop.path)
                   /\ loop.conn \in {loop.path, Gone} /\ app.id = loop.key
    BY <1>7 DEF LoopInv, Serving, Keyed, Published
  <2>2. LoopInv => LoopInv'
    BY <1>2, <1>7, <2>1 DEF LoopInv, Opening, Serving, Keyed, Published, Whole, KeyIs
  <2> QED
    BY <1>2, <1>5, <1>7, <2>2
<1> QED
  BY <1>3, <1>6, <1>7
-----------------------------------------------------------------------------
(* The owner a session writes is its own identity, the profile's.           *)
LEMMA SeedKeeps ==
  ASSUME Basic, Seed
  PROVE  Kept
<1> DEFINE h == IF loop.then = "finish" THEN loop.new ELSE loop.conn
           r == loop.at
<1>1. Types /\ UNCHANGED <<key, chunks, used, app, ui, queue, wiped>>
  BY DEF Basic, Seed, disk
<1>2. /\ loop.pc \in {"seed", "seeding"}
      /\ \/ loop' = loop
         \/ loop' = [loop EXCEPT !.pc = loop.then]
         \/ loop' = [loop EXCEPT !.pc = "seeding"]
  BY DEF Seed
<1>3. /\ loop' \in LoopType /\ LoopKeys' /\ (LoopInv => LoopInv')
      /\ loop'.path = loop.path /\ loop'.conn = loop.conn /\ loop'.new = loop.new
      /\ loop'.pc # "dead" /\ loop.pc # "dead"
  BY <1>1, <1>2, SeedGoesOn
<1>4. Listed' /\ (Calm => Calm')
  BY <1>1, <1>3, SameUi, SameQueue DEF Basic, Calm
<1>5. ASSUME db' \in [Path -> Db \cup {None}], HandlesOpen',
             Calm /\ OwnerIsIdentity => OwnerIsIdentity'
      PROVE  Kept
  BY <1>1, <1>3, <1>4, <1>5 DEF Kept, Basic, Types
<1>6. CASE UNCHANGED db
  BY <1>1, <1>3, <1>5, <1>6, SameHandles, SameOwners DEF Basic, Types
<1>7. ASSUME HasDb(h), loop.pc = "seeding"
      PROVE  /\ h \in Path /\ db[h] \in Db /\ r \in Room /\ loop.key \in Key \cup {None}
             /\ Calm => loop.key \in Key /\ (h \in Profile => key[h] = loop.key)
  <2>1. h \in {loop.conn, loop.new} /\ h \in Path
    BY <1>7 DEF HasDb
  <2>2. db[h] # None
    BY <1>7, <2>1 DEF Basic, HandlesOpen
  <2>3. db[h] \in Db /\ r \in Room /\ loop.key \in Key \cup {None}
    BY <1>1, <2>1, <2>2 DEF Types, LoopType
  <2>4. Calm => KeyIs(loop.path, loop.key) /\ h \in {loop.path, Gone}
    BY <1>1, <1>7 DEF Calm, LoopInv, Opening, Serving, Keyed, Types, LoopType
  <2> QED
    BY <2>1, <2>3, <2>4, Constants DEF KeyIs
<1> HIDE DEF h
<1>8. CASE loop.pc = "seeding" /\ HasDb(h) /\ db[h].roles[r] < DefaultRoles
           /\ db' = [db EXCEPT ![h].roles[r] = @ + 1]
  <2>1. PICK d \in Db : d = db[h]
    BY <1>7, <1>8
  <2>2. d.roles[r] \in 0 .. DefaultRoles /\ d.roles[r] + 1 \in 0 .. DefaultRoles
    <3>1. d.roles \in [Room -> 0 .. DefaultRoles]
      BY <2>1 DEF Db
    <3> QED
      BY <1>7, <1>8, <2>1, <3>1 DEF DefaultRoles
  <2>3. [d EXCEPT !.roles[r] = @ + 1] \in Db
    BY <1>7, <1>8, <2>2 DEF Db
  <2>4. db' = [db EXCEPT ![h] = [d EXCEPT !.roles[r] = @ + 1]]
    BY <1>1, <1>7, <1>8, <2>1 DEF Types
  <2>5. [d EXCEPT !.roles[r] = @ + 1].owner = d.owner
    BY <2>1 DEF Db
  <2>6. db' \in [Path -> Db \cup {None}]
    BY <1>1, <2>3, <2>4 DEF Types
  <2>7. \A p \in Path : db'[p] = db[p] \/ (p = h /\ db'[p] \in Db /\ db'[p].owner = db[p].owner)
    BY <1>1, <1>7, <1>8, <2>1, <2>3, <2>4, <2>5 DEF Types
  <2>8. HandlesOpen'
    BY <1>3, <2>7, Constants DEF Basic, HandlesOpen, HasDb
  <2>9. OwnerIsIdentity => OwnerIsIdentity'
    <3>1. db[h] # None
      BY <1>7, <1>8, Constants
    <3> QED
      BY <1>1, <2>7, <3>1 DEF OwnerIsIdentity, Path
  <2> QED
    BY <1>5, <2>6, <2>8, <2>9
<1>9. CASE loop.pc = "seeding" /\ HasDb(h) /\ db' = [db EXCEPT ![h].owner[r] = loop.key]
  <2>1. PICK d \in Db : d = db[h]
    BY <1>7, <1>9
  <2>2. [d EXCEPT !.owner[r] = loop.key] \in Db
    BY <1>7, <1>9 DEF Db
  <2>3. db' = [db EXCEPT ![h] = [d EXCEPT !.owner[r] = loop.key]]
    BY <1>1, <1>7, <1>9, <2>1 DEF Types
  <2>4. db' \in [Path -> Db \cup {None}]
    BY <1>1, <2>2, <2>3 DEF Types
  <2>5. \A q \in Room : [d EXCEPT !.owner[r] = loop.key].owner[q] =
                        IF q = r THEN loop.key ELSE d.owner[q]
    BY <2>1 DEF Db
  <2>6. \A p \in Path : IF p = h
          THEN /\ db'[p] \in Db
               /\ \A q \in Room : db'[p].owner[q] = IF q = r THEN loop.key ELSE db[p].owner[q]
          ELSE db'[p] = db[p]
    BY <1>1, <1>7, <1>9, <2>1, <2>2, <2>3, <2>5 DEF Types
  <2>7. HandlesOpen'
    BY <1>3, <2>6, Constants DEF Basic, HandlesOpen, HasDb
  <2>8. ASSUME Calm, OwnerIsIdentity
        PROVE  OwnerIsIdentity'
    <3>1. db[h] # None
      BY <1>7, <1>9, Constants
    <3> SUFFICES ASSUME NEW p \in Profile, NEW q \in Room, db'[p] # None, db'[p].owner[q] # None
                 PROVE  key[p] = db'[p].owner[q]
      BY <1>1 DEF OwnerIsIdentity
    <3>2. CASE p = h /\ q = r
      BY <1>7, <1>9, <2>6, <2>8, <3>2, Constants
    <3>3. CASE ~(p = h /\ q = r)
      BY <2>6, <2>8, <3>1, <3>3 DEF OwnerIsIdentity, Path
    <3> QED
      BY <3>2, <3>3
  <2> QED
    BY <1>5, <2>4, <2>7, <2>8
<1> QED
  BY <1>6, <1>8, <1>9 DEF Seed, h

(* A database that gets no new owner keeps its owners.                      *)
LEMMA SameGrants ==
  ASSUME UNCHANGED key, \A p \in Path : IF db[p] = None THEN db'[p] = None
                        ELSE db'[p] # None /\ db'[p].owner = db[p].owner
  PROVE  OwnerIsIdentity => OwnerIsIdentity'
BY DEF OwnerIsIdentity, Path

LEMMA FinishKeeps ==
  ASSUME Basic, Finish
  PROVE  Kept
<1>1. Types /\ UNCHANGED <<key, chunks, used, app, ui, queue, wiped>>
  BY DEF Basic, Finish, disk
<1>2. loop.pc = "finish" /\ Opening(loop) /\ loop.key \in Key
  BY DEF Basic, LoopKeys, Finish, Opening
<1>3. /\ loop'.pc = "idle" /\ loop'.conn = loop.new /\ loop'.new = None
      /\ loop'.path = loop.path /\ loop'.key = loop.key /\ loop' \in LoopType
  BY <1>1, Constants DEF Finish, Types, LoopType, LoopPc
<1>4. /\ db' \in [Path -> Db \cup {None}]
      /\ \A p \in Path : IF db[p] = None THEN db'[p] = None
                        ELSE db'[p] # None /\ db'[p].owner = db[p].owner
  <2>1. CASE UNCHANGED db
    BY <1>1, <2>1 DEF Types
  <2>2. CASE loop.conn \in Profile /\ db' = [db EXCEPT ![loop.conn].bundles = @ \cup {loop.key}]
    <3>1. loop.conn \in Path /\ db[loop.conn] # None
      BY <2>2 DEF Basic, HandlesOpen, HasDb, Path
    <3>2. PICK d \in Db : d = db[loop.conn]
      BY <1>1, <3>1 DEF Types
    <3>3. [d EXCEPT !.bundles = @ \cup {loop.key}] \in Db
      BY <1>2, <3>2 DEF Db
    <3>4. [d EXCEPT !.bundles = @ \cup {loop.key}].owner = d.owner
      BY <3>2 DEF Db
    <3>5. db' = [db EXCEPT ![loop.conn] = [d EXCEPT !.bundles = @ \cup {loop.key}]]
      BY <1>1, <2>2, <3>1, <3>2 DEF Types
    <3> QED
      BY <1>1, <3>1, <3>2, <3>3, <3>4, <3>5, Constants DEF Types
  <2> QED
    BY <2>1, <2>2 DEF Finish
<1>5. Types' /\ LoopKeys' /\ Listed'
  BY <1>1, <1>3, <1>4 DEF Types, Basic, LoopKeys, Opening, Listed
<1>6. HandlesOpen'
  BY <1>3, <1>4, Constants DEF Basic, HandlesOpen, HasDb
<1>7. ASSUME Calm
      PROVE  Calm'
  <2>1. /\ KeyIs(loop.path, loop.key) /\ Whole(loop.path) /\ loop.new \in {loop.path, Gone}
        /\ app.id = loop.key
    BY <1>2, <1>7 DEF Calm, LoopInv, Keyed, Published
  <2>2. LoopInv'
    BY <1>1, <1>3, <2>1 DEF LoopInv, Opening, Serving, Keyed, Published, Whole, KeyIs
  <2> QED
    BY <1>1, <1>2, <1>3, <1>7, <2>2, SameUi, SameQueue DEF Calm
<1> QED
  BY <1>1, <1>4, <1>5, <1>6, <1>7, SameGrants DEF Kept, Basic
-----------------------------------------------------------------------------
(* Handlers of an idle loop.                                               *)
LEMMA JoinChannelKeeps ==
  ASSUME Basic, NEW r \in Room, JoinChannel(r)
  PROVE  Kept
<1>1. Types /\ UNCHANGED <<key, chunks, db, used, app, ui, queue, wiped>>
  BY DEF Basic, JoinChannel, disk
<1>2. /\ loop'.pc = loop.pc /\ loop'.path = loop.path /\ loop'.key = loop.key
      /\ loop'.conn = loop.conn /\ loop'.new = loop.new /\ loop'.then = loop.then
      /\ loop' \in LoopType
  BY <1>1 DEF JoinChannel, Types, LoopType
<1>3. Types' /\ LoopKeys' /\ Listed'
  BY <1>1, <1>2 DEF Types, Basic, LoopKeys, Opening, Listed
<1>4. LoopInv => LoopInv'
  BY <1>1, <1>2 DEF LoopInv, Opening, Serving, Keyed, Published, Whole, KeyIs
<1> QED
  BY <1>1, <1>2, <1>3, <1>4, SameUi, SameHandles, SameQueue, SameOwners DEF Kept, Basic, Calm

LEMMA SaveGroupKeeps ==
  ASSUME Basic, NEW r \in Room, SaveGroup(r)
  PROVE  Kept
<1>1. Types /\ UNCHANGED <<key, chunks, db, used, app, ui, queue, wiped>>
  BY DEF Basic, SaveGroup, disk
<1>2. /\ loop'.pc = "seed" /\ loop'.path = loop.path /\ loop'.key = loop.key
      /\ loop'.conn = loop.conn /\ loop'.new = loop.new /\ loop'.then = "idle"
      /\ loop' \in LoopType /\ loop.pc = "idle"
  BY <1>1 DEF SaveGroup, InSession, Types, LoopType, LoopPc
<1>3. Types' /\ LoopKeys' /\ Listed'
  BY <1>1, <1>2 DEF Types, Basic, LoopKeys, Opening, Listed
<1>4. ASSUME LoopInv
      PROVE  LoopInv'
  <2>1. /\ KeyIs(loop.path, loop.key) /\ Whole(loop.path)
        /\ loop.conn \in {loop.path, Gone} /\ app.id = loop.key
    BY <1>4 DEF SaveGroup, InSession, LoopInv, Serving, Keyed, Published
  <2> QED
    BY <1>1, <1>2, <2>1 DEF LoopInv, Opening, Serving, Keyed, Published, Whole, KeyIs
<1> QED
  BY <1>1, <1>2, <1>3, <1>4, SameUi, SameHandles, SameQueue, SameOwners DEF Kept, Basic, Calm

LEMMA IdentifyKeeps ==
  ASSUME Basic, Identify
  PROVE  Kept
<1>1. Types /\ UNCHANGED <<key, chunks, used, app, ui, queue, loop, wiped>>
  BY DEF Basic, Identify, disk
<1>2. loop.conn \in Path /\ db[loop.conn] # None
  BY DEF Basic, HandlesOpen, HasDb, Identify
<1>3. PICK d \in Db : d = db[loop.conn]
  BY <1>1, <1>2 DEF Types
<1>4. [d EXCEPT !.peers = TRUE] \in Db /\ [d EXCEPT !.peers = TRUE].owner = d.owner
  BY <1>3 DEF Db
<1>5. db' = [db EXCEPT ![loop.conn] = [d EXCEPT !.peers = TRUE]]
  BY <1>1, <1>2, <1>3 DEF Types, Identify
<1>6. /\ db' \in [Path -> Db \cup {None}]
      /\ \A p \in Path : IF db[p] = None THEN db'[p] = None
                        ELSE db'[p] # None /\ db'[p].owner = db[p].owner
  BY <1>1, <1>2, <1>3, <1>4, <1>5, Constants DEF Types
<1>7. HandlesOpen'
  BY <1>1, <1>6 DEF Basic, HandlesOpen, HasDb
<1> QED
  BY <1>1, <1>6, <1>7, SameUi, SameLoop, SameQueue, SameGrants DEF Kept, Basic, Calm, Types

LEMMA StoreChunkKeeps ==
  ASSUME Basic, StoreChunk
  PROVE  Kept
<1>1. Types /\ UNCHANGED <<key, db, used, app, ui, queue, loop, wiped>>
  BY DEF Basic, StoreChunk
<1>2. Types'
  BY <1>1 DEF Types, StoreChunk
<1> QED
  BY <1>1, <1>2, SameUi, SameLoop, SameHandles, SameQueue, SameOwners DEF Kept, Basic, Calm
-----------------------------------------------------------------------------
(* panic_wipe lists files; of the messages, no keypair.                     *)
LEMMA PanicWipeKeeps ==
  ASSUME ProfilesInv, NEW scope \in Scopes, PanicWipe(scope)
  PROVE  ProfilesInv'
<1>1. /\ Basic /\ Types /\ UNCHANGED <<key, chunks, db, used, app, queue, loop, wiped>>
      /\ ui.pc = "idle" /\ app.path # None
  BY DEF ProfilesInv, Basic, PanicWipe, disk
<1>2. Calm
  BY <1>1 DEF ProfilesInv, WipesKeys
<1>3. PICK n \in 0 .. 3 : \E todo \in [1 .. n -> File] :
        /\ ProfilePaths(scope, todo)
        /\ ui' = [ui EXCEPT !.pc = "wipe", !.todo = todo, !.scope = ToSet(todo)]
  BY DEF PanicWipe
<1>4. PICK todo \in [1 .. n -> File] :
        /\ ProfilePaths(scope, todo)
        /\ ui' = [ui EXCEPT !.pc = "wipe", !.todo = todo, !.scope = ToSet(todo)]
  BY <1>3
<1>5. /\ todo \in Seq(File) /\ Len(todo) = n /\ ToSet(todo) \in SUBSET File
      /\ \A i \in 1 .. Len(todo) : todo[i] \in ToSet(todo)
  BY <1>4 DEF ToSet
<1>6. /\ ui' \in UiType /\ ui'.pc = "wipe" /\ ui'.path = ui.path /\ ui'.key = ui.key
      /\ ui'.todo = todo /\ ui'.scope = ToSet(todo)
  BY <1>1, <1>4, <1>5 DEF Types, UiType, UiPc
<1>7. Types' /\ Listed'
  BY <1>1, <1>5, <1>6 DEF Types, Listed
<1>8. HandlesOpen' /\ LoopKeys' /\ LoopInv' /\ QueueInv'
  BY <1>1, <1>2, SameLoop, SameHandles, SameQueue DEF Basic, Calm
<1>9. UiInv'
  BY <1>1, <1>2, <1>6 DEF Calm, UiInv
<1>10. ASSUME MessagesOnly
      PROVE  ~WipesKeys' /\ OwnerIsIdentity'
  <2>1. scope = "message_db_only"
    BY <1>10 DEF MessagesOnly
  <2>2. todo = <<F("db", app.path), F("chunks", app.path)>>
    BY <1>4, <2>1 DEF ProfilePaths
  <2>3. \A f \in ToSet(todo) : f.kind # "key"
    <3>1. ToSet(todo) = {F("db", app.path), F("chunks", app.path)}
      BY <2>2 DEF ToSet
    <3> QED
      BY <3>1 DEF F
  <2>4. OwnerIsIdentity'
    BY <1>1, <1>10, SameOwners DEF ProfilesInv
  <2> QED
    BY <1>6, <2>3, <2>4 DEF WipesKeys
<1> QED
  BY <1>7, <1>8, <1>9, <1>10 DEF ProfilesInv, Basic, Calm, MessagesOnly

(* A keypair goes only when it was listed.                                  *)
LEMMA HeadListed ==
  ASSUME Basic, WipePath
  PROVE  /\ Head(ui.todo) \in File /\ Tail(ui.todo) \in Seq(File)
         /\ \A i \in 1 .. Len(Tail(ui.todo)) : Tail(ui.todo)[i] \in ui.scope
         /\ Head(ui.todo).kind = "key" => WipesKeys
<1>1. PICK todo \in Seq(File) : todo = ui.todo /\ todo # <<>>
  BY DEF Basic, Types, UiType, WipePath
<1>2. /\ Head(todo) \in File /\ Tail(todo) \in Seq(File) /\ Len(Tail(todo)) = Len(todo) - 1
      /\ \A i \in 1 .. Len(Tail(todo)) : Tail(todo)[i] = todo[i + 1]
      /\ Len(todo) \in Nat \ {0} /\ Head(todo) = todo[1]
  BY <1>1, HeadTailProperties
<1>3. \A i \in 1 .. Len(todo) : todo[i] \in ui.scope
  BY <1>1 DEF Basic, Listed
<1>4. Head(todo) \in ui.scope /\ \A i \in 1 .. Len(Tail(todo)) : Tail(todo)[i] \in ui.scope
  BY <1>2, <1>3
<1> QED
  BY <1>1, <1>2, <1>4 DEF WipePath, WipesKeys

LEMMA WipePathKeeps ==
  ASSUME ProfilesInv, WipePath
  PROVE  /\ ProfilesInv'
         /\ \A p \in Profile : key'[p] = key[p] \/ Head(ui.todo) = F("key", p)
<1>1. /\ Basic /\ Types /\ UNCHANGED <<used, app, queue, wiped>> /\ ui.pc = "wipe"
      /\ ui' = [ui EXCEPT !.todo = Tail(ui.todo)]
  BY DEF ProfilesInv, Basic, WipePath
<1>2. PICK f \in File : f = Head(ui.todo)
  BY <1>1, HeadListed
<1>3. /\ key' = (IF f.kind = "key" /\ f.path \in Profile THEN [key EXCEPT ![f.path] = None] ELSE key)
      /\ chunks' = (IF f.kind = "chunks" THEN [chunks EXCEPT ![f.path] = FALSE] ELSE chunks)
      /\ \/ UNCHANGED <<db, loop>>
         \/ /\ f.kind = "db" /\ db' = [db EXCEPT ![f.path] = None]
            /\ loop' = [loop EXCEPT !.conn = Unlink(@, f.path), !.new = Unlink(@, f.path)]
  BY <1>2 DEF WipePath
<1>4. f.path \in Path /\ f = F(f.kind, f.path)
  BY <1>2 DEF File, F
<1>5. /\ ui'.pc = "wipe" /\ ui'.path = ui.path /\ ui'.key = ui.key
      /\ ui'.todo = Tail(ui.todo) /\ ui'.scope = ui.scope /\ ui' \in UiType
  BY <1>1, HeadListed DEF Types, UiType
<1>6. Listed' /\ (WipesKeys' <=> WipesKeys)
  BY <1>1, <1>5, HeadListed DEF Listed, WipesKeys
<1>7. /\ key' \in [Profile -> Key \cup {None, Torn}] /\ chunks' \in [Path -> BOOLEAN]
      /\ \A p \in Profile : key'[p] = key[p] \/ (key'[p] = None /\ f = F("key", p))
  BY <1>1, <1>3, <1>4 DEF Types
<1>8. /\ loop' \in LoopType /\ db' \in [Path -> Db \cup {None}]
      /\ loop'.pc = loop.pc /\ loop'.path = loop.path /\ loop'.key = loop.key
      /\ loop'.then = loop.then
      /\ loop'.conn \in {loop.conn, Gone} /\ loop'.new \in {loop.new, Gone}
      /\ (loop'.conn = None <=> loop.conn = None)
      /\ HandlesOpen'
      /\ \A p \in Path : db'[p] = None \/ db'[p] = db[p]
  <2>1. CASE UNCHANGED <<db, loop>>
    BY <1>1, <2>1, SameHandles DEF Types, Basic
  <2>2. CASE /\ db' = [db EXCEPT ![f.path] = None]
             /\ loop' = [loop EXCEPT !.conn = Unlink(@, f.path), !.new = Unlink(@, f.path)]
    <3>1. PICK a \in Handle, b \in Handle :
            /\ a = (IF loop.conn = f.path THEN Gone ELSE loop.conn)
            /\ b = (IF loop.new = f.path THEN Gone ELSE loop.new)
      BY <1>1, Constants DEF Types, LoopType
    <3>2. loop' = [loop EXCEPT !.conn = a, !.new = b]
      BY <2>2, <3>1 DEF Unlink
    <3>3. /\ loop' \in LoopType /\ loop'.pc = loop.pc /\ loop'.path = loop.path
          /\ loop'.key = loop.key /\ loop'.then = loop.then
          /\ loop'.conn = a /\ loop'.new = b
      BY <1>1, <3>2 DEF Types, LoopType
    <3>4. /\ db' \in [Path -> Db \cup {None}]
          /\ \A p \in Path : db'[p] = IF p = f.path THEN None ELSE db[p]
      BY <1>1, <2>2 DEF Types
    <3>5. HandlesOpen'
      BY <1>1, <3>1, <3>3, <3>4, Constants DEF Basic, HandlesOpen, HasDb
    <3> QED
      BY <1>4, <3>1, <3>3, <3>4, <3>5, Constants
  <2> QED
    BY <1>3, <2>1, <2>2
<1>9. LoopKeys'
  BY <1>1, <1>7, <1>8 DEF Basic, LoopKeys, Opening
<1>10. Basic'
  BY <1>1, <1>5, <1>6, <1>7, <1>8, <1>9 DEF Basic, Types
<1>11. ASSUME ~WipesKeys
       PROVE  Calm' /\ UNCHANGED key
  <2>1. UNCHANGED key
    BY <1>1, <1>2, <1>3, <1>11, HeadListed
  <2>2. Calm
    BY <1>11 DEF ProfilesInv
  <2>3. UiInv'
    BY <1>1, <1>5, <2>1, <2>2 DEF Calm, UiInv
  <2>4. LoopInv'
    <3>1. (Opening(loop') <=> Opening(loop)) /\ (Serving(loop') <=> Serving(loop))
      BY <1>8 DEF Opening, Serving
    <3>2. (Keyed(loop') <=> Keyed(loop)) /\ (Published(loop') <=> Published(loop))
      BY <1>8, <3>1 DEF Keyed, Published
    <3> QED
      BY <1>1, <1>8, <2>1, <2>2, <3>1, <3>2 DEF Calm, LoopInv, Whole, KeyIs
  <2> QED
    BY <1>1, <1>8, <2>1, <2>2, <2>3, <2>4, SameQueue DEF Calm
<1>12. ASSUME MessagesOnly
       PROVE  ~WipesKeys' /\ OwnerIsIdentity'
  <2>1. ~WipesKeys /\ OwnerIsIdentity
    BY <1>12 DEF ProfilesInv
  <2> QED
    BY <1>6, <1>8, <1>11, <2>1 DEF OwnerIsIdentity, Path
<1> QED
  BY <1>2, <1>6, <1>7, <1>10, <1>11, <1>12 DEF ProfilesInv, MessagesOnly

(* The files stay, without the database in memory; whatever loop and disk   *)
(* disagreed on is gone.                                                    *)
LEMMA EndKeeps ==
  ASSUME ProfilesInv, ProcessEnds
  PROVE  ProfilesInv' /\ key' = key
<1>1. /\ Types /\ UNCHANGED <<key, chunks, used>>
      /\ app' = NewApp /\ ui' = NewUi /\ queue' = <<>> /\ loop' = NewLoop
      /\ db' = [db EXCEPT ![Memory] = None]
  BY DEF ProfilesInv, Basic, ProcessEnds, disk
<1>2. Types'
  BY <1>1, NewProcess, EmptySeq DEF Types
<1>3. HandlesOpen' /\ LoopKeys' /\ LoopInv'
  BY <1>1, NewProcess, Constants
     DEF HandlesOpen, HasDb, LoopKeys, LoopInv, Opening, Serving, Keyed, Published
<1>4. Listed' /\ UiInv' /\ ~WipesKeys' /\ QueueInv'
  BY <1>1, NewProcess, Constants DEF Listed, UiInv, WipesKeys, QueueInv
<1>5. OwnerIsIdentity => OwnerIsIdentity'
  BY <1>1, Constants DEF OwnerIsIdentity, Types
<1> QED
  BY <1>1, <1>2, <1>3, <1>4, <1>5 DEF ProfilesInv, Basic, Calm, MessagesOnly
-----------------------------------------------------------------------------
(* A keypair file that is whole is left as it is, or removed by panic_wipe. *)
Removed(p) == WipePath /\ Head(ui.todo) = F("key", p)

KeysStay == \A p \in Profile : key[p] \in Key => key'[p] = key[p] \/ Removed(p)

LEMMA CommandStep ==
  ASSUME ProfilesInv,
         \/ \E p \in Path : LoginProfile(p)
         \/ Login
         \/ \E scope \in Scopes : PanicWipe(scope)
  PROVE  ProfilesInv' /\ KeysStay
<1>1. Basic /\ (ui.pc # "wipe" => Calm)
  BY DEF ProfilesInv, WipesKeys
<1>2. ASSUME NEW p \in Path, LoginProfile(p)
      PROVE  ProfilesInv' /\ KeysStay
  BY <1>1, <1>2, LoginProfileKeeps, KeptIsEnough DEF LoginProfile, disk, KeysStay
<1>3. CASE LoginKey
  <2>1. ui.pc # "wipe"
    BY <1>3 DEF LoginKey, LoadOrGenerate
  <2> QED
    BY <1>1, <1>3, <2>1, LoginKeyKeeps, KeptIsEnough DEF KeysStay
<1>4. CASE LoginFails
  BY <1>1, <1>4, LoginFailsKeeps, KeptIsEnough DEF LoginFails, disk, KeysStay
<1>5. CASE LoginSend
  <2>1. ui.pc # "wipe" /\ UNCHANGED key
    BY <1>5 DEF LoginSend, disk
  <2> QED
    BY <1>1, <1>5, <2>1, LoginSendKeeps, KeptIsEnough DEF KeysStay
<1>6. ASSUME NEW scope \in Scopes, PanicWipe(scope)
      PROVE  ProfilesInv' /\ KeysStay
  BY <1>6, PanicWipeKeeps DEF PanicWipe, disk, KeysStay
<1> QED
  BY <1>2, <1>3, <1>4, <1>5, <1>6 DEF Login

LEMMA LoopStep ==
  ASSUME ProfilesInv,
         \/ Session \/ Identify \/ StoreChunk
         \/ \E r \in Room : JoinChannel(r) \/ SaveGroup(r)
  PROVE  ProfilesInv' /\ KeysStay
<1>1. ASSUME Kept, UNCHANGED <<ui, key>>
      PROVE  ProfilesInv' /\ KeysStay
  BY <1>1, SameUi, KeptIsEnough DEF KeysStay
<1>2. Basic
  BY DEF ProfilesInv
<1>3. CASE OpenDb
  BY <1>1, <1>2, <1>3, OpenDbKeeps DEF OpenDb, disk
<1>4. CASE SessionKey
  <2>1. Kept /\ KeysStay
    BY <1>2, <1>4, SessionKeyKeeps DEF KeysStay
  <2>2. WipesKeys' <=> WipesKeys
    BY <1>4 DEF SessionKey, WipesKeys
  <2> QED
    BY <2>1, <2>2, KeptIsEnough
<1>5. CASE CreateSwarm
  BY <1>1, <1>2, <1>5, CreateSwarmKeeps DEF CreateSwarm, disk
<1>6. CASE SwarmUp
  BY <1>1, <1>2, <1>6, SwarmUpKeeps DEF SwarmUp, disk
<1>7. CASE Dies
  BY <1>1, <1>2, <1>7, DiesKeeps DEF Dies, disk
<1>8. CASE Seed
  BY <1>1, <1>2, <1>8, SeedKeeps DEF Seed, disk
<1>9. CASE Finish
  BY <1>1, <1>2, <1>9, FinishKeeps DEF Finish, disk
<1>10. ASSUME NEW r \in Room, JoinChannel(r) \/ SaveGroup(r)
       PROVE  ProfilesInv' /\ KeysStay
  BY <1>1, <1>2, <1>10, JoinChannelKeeps, SaveGroupKeeps DEF JoinChannel, SaveGroup, disk
<1>11. CASE Identify
  BY <1>1, <1>2, <1>11, IdentifyKeeps DEF Identify, disk
<1>12. CASE StoreChunk
  BY <1>1, <1>2, <1>12, StoreChunkKeeps DEF StoreChunk
<1> QED
  BY <1>3, <1>4, <1>5, <1>6, <1>7, <1>8, <1>9, <1>10, <1>11, <1>12 DEF Session

LEMMA NextProfiles ==
  ASSUME ProfilesInv, [Next]_vars
  PROVE  ProfilesInv' /\ KeysStay
<1>1. CASE UNCHANGED vars
  <2>1. UNCHANGED <<key, db, chunks, used, app, ui, queue, loop>>
    BY <1>1 DEF vars
  <2>2. Kept
    BY <2>1, SameUi, SameLoop, SameHandles, SameQueue, SameOwners
       DEF ProfilesInv, Kept, Basic, Calm, Types
  <2> QED
    BY <2>1, <2>2, SameUi, KeptIsEnough DEF KeysStay
<1>2. CASE WipePath
  BY <1>2, WipePathKeeps DEF KeysStay, Removed
<1>3. CASE WipeExit \/ Crash
  BY <1>3, EndKeeps DEF WipeExit, Crash, KeysStay
<1> QED
  BY <1>1, <1>2, <1>3, CommandStep, LoopStep DEF Next

(* The two users of the keypair files never meet on one: the event loop     *)
(* (lib.rs, StartSession) reads only files that login_profile has written   *)
(* whole, its connection and secret key are of the session's path, and what *)
(* it seeds is in its own name; a wipe that takes keypairs away ends with   *)
(* the process before anything rests on it again.                           *)
THEOREM ProfilesCorrect == Spec => []ProfilesInv
<1>1. ProfilesInv /\ [Next]_vars => ProfilesInv'
  BY NextProfiles
<1> QED
  BY <1>1, InitProfiles, PTL DEF Spec

(* Keypair files are absent, empty or whole, and the connection the event   *)
(* loop holds is to a database that is there (open_profile_db; a file the   *)
(* wipe unlinked under it is told apart).                                  *)
THEOREM ProfilesTypeCorrect == Spec => []TypeOK
<1>1. ProfilesInv => TypeOK
  BY DEF ProfilesInv, Basic, Types, LoopType, HandlesOpen, TypeOK
<1> QED
  BY <1>1, ProfilesCorrect, PTL

LEMMA CalmSession ==
  ASSUME Calm
  PROVE  SessionOfOneProfile
<1> SUFFICES ASSUME InSession, loop.conn # Gone
             PROVE  /\ loop.conn = loop.path /\ app.id = loop.key
                    /\ loop.conn \in Profile => key[loop.conn] = loop.key
                    /\ queue = <<>> /\ ui.pc = "idle" => app.path = loop.path
  BY DEF SessionOfOneProfile
<1>1. Serving(loop) /\ loop.pc = "idle"
  BY DEF InSession, Serving
<1>2. /\ loop.conn = loop.path /\ KeyIs(loop.path, loop.key) /\ app.id = loop.key
  BY <1>1 DEF Calm, LoopInv, Keyed, Published
<1> QED
  BY <1>1, <1>2 DEF Calm, QueueInv, KeyIs

(* Between two handlers the connection, the secret key and the peer id and  *)
(* path in AppState are of one profile, though login_profile sets the path  *)
(* before the loop takes the session up, whatever panic_wipe is called      *)
(* with, but for the steps of a wipe that removes keypairs.                 *)
THEOREM SessionOutsideWipe == Spec => [](~WipesKeys => SessionOfOneProfile)
<1>1. ProfilesInv => (~WipesKeys => SessionOfOneProfile)
  BY CalmSession DEF ProfilesInv
<1> QED
  BY <1>1, ProfilesCorrect, PTL

(* Where only messages are wiped, there are no such steps.                  *)
THEOREM SessionOfOneProfileHolds ==
  ASSUME MessagesOnly PROVE Spec => []SessionOfOneProfile
<1>1. ProfilesInv => SessionOfOneProfile
  BY CalmSession DEF ProfilesInv
<1> QED
  BY <1>1, ProfilesCorrect, PTL

(* seed_default_roles grants a room of a profile to nobody but the identity *)
(* of its keypair file, over crashes and wipes of the messages.            *)
THEOREM OwnerIsIdentityHolds ==
  ASSUME MessagesOnly PROVE Spec => []OwnerIsIdentity
<1>1. ProfilesInv => OwnerIsIdentity
  BY DEF ProfilesInv
<1> QED
  BY <1>1, ProfilesCorrect, PTL

(* The peer id that login_profile returns is that of the session's keypair, *)
(* though command and loop both run load_or_generate_encrypted_keypair.     *)
THEOREM LoginReturnsSessionIdHolds == Spec => []LoginReturnsSessionId
<1>1. ASSUME ProfilesInv PROVE LoginReturnsSessionId
  <2> SUFFICES ASSUME InSession, ui.pc = "idle", ui.path \in Profile, ui.path = loop.path
               PROVE  ui.key = loop.key
    BY DEF LoginReturnsSessionId
  <2>1. Serving(loop)
    BY DEF InSession, Serving
  <2>2. Calm
    BY <1>1 DEF ProfilesInv, WipesKeys
  <2>3. KeyIs(loop.path, loop.key)
    BY <2>1, <2>2 DEF Calm, LoopInv, Keyed
  <2>4. key[ui.path] = ui.key
    BY <2>2 DEF Calm, UiInv
  <2> QED
    BY <2>3, <2>4 DEF KeyIs
<1> QED
  BY <1>1, ProfilesCorrect, PTL

(* Whatever panic_wipe is called with, nothing but its own removal of the   *)
(* file touches a whole keypair: neither user of                            *)
(* load_or_generate_encrypted_keypair creates one over it, though the loop  *)
(* may create one where the wipe has been.                                  *)
THEOREM OnlyWipeTakesKeys == Spec => [][KeysStay]_vars
<1>1. ProfilesInv /\ [Next]_vars => [KeysStay]_vars
  BY NextProfiles
<1> QED
  BY <1>1, ProfilesCorrect, PTL DEF Spec

(* Where only messages are wiped, whole keypairs stay for good.             *)
THEOREM IdentityKeptHolds ==
  ASSUME MessagesOnly PROVE Spec => IdentityKept
<1> DEFINE Same == \A p \in Profile : key[p] \in Key => key'[p] = key[p]
<1>1. ASSUME ProfilesInv, [Next]_vars
      PROVE  Same
  <2> SUFFICES ASSUME NEW p \in Profile, Removed(p) PROVE FALSE
    BY <1>1, NextProfiles DEF KeysStay
  <2>1. Head(ui.todo).kind = "key"
    BY DEF Removed, F
  <2> QED
    BY <1>1, <2>1, HeadListed DEF ProfilesInv, Removed
<1>2. ProfilesInv /\ [Next]_vars => [Same]_vars
  BY <1>1
<1>3. Spec => [][Same]_vars
  <2> HIDE DEF Same
  <2> QED
    BY <1>2, ProfilesCorrect, PTL DEF Spec
<1> QED
  BY <1>3 DEF IdentityKept
=============================================================================
