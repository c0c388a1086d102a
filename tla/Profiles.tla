------------------------------ MODULE Profiles ------------------------------
(***************************************************************************)
(* Profiles on disk, the command login_profile, the event loop's           *)
(* StartSession, panic_wipe, and a process that may die between any two    *)
(* writes.                                                                 *)
(*                                                                         *)
(* The user interface calls one command at a time; the event loop works on *)
(* the queue meanwhile.  An identity is a number, in the order of          *)
(* generation; identity k's keypair, peer id and prekey bundle are k.      *)
(***************************************************************************)
EXTENDS Integers, Sequences, SequencesExt

CONSTANTS
  Profile,   \* the password-derived prefixes of the file names
  Memory,    \* the path ":memory:" of an amnesic session
  Room,
  Global,    \* "alterchat-global"
  Scopes,    \* the scopes panic_wipe is called with
  MaxKeys,   \* bound: identities generated in a behaviour
  None, Torn, Gone

ASSUME ProfilesAssumption ==
  /\ Memory \notin Profile /\ Global \in Room /\ MaxKeys \in Nat
  /\ Scopes \subseteq {"active_profile", "message_db_only", "all_profiles"}

Path == Profile \cup {Memory}
Key == 1 .. MaxKeys
Handle == Path \cup {None, Gone}   \* Gone: a connection whose file was unlinked

VARIABLES
  key,     \* key[p]: the keypair file of p
  db,      \* db[p]: the database at p
  chunks,  \* chunks[p]: there are files under storage_root_for_db(p)
  used,    \* identities generated so far
  app,     \* AppState: the active path, and the peer id
  ui,      \* the command in progress, or what the last login returned
  queue,   \* the StartSession commands not yet taken by the loop
  loop,    \* the event loop
  wiped    \* the files the last panic_wipe was to remove, until the next login

vars == <<key, db, chunks, used, app, ui, queue, loop, wiped>>
disk == <<key, chunks>>

DefaultRoles == 3   \* owner, member, guest, saved in this order
Db == [roles : [Room -> 0 .. DefaultRoles], owner : [Room -> Key \cup {None}],
       peers : BOOLEAN, bundles : SUBSET Key]
EmptyDb == [roles |-> [r \in Room |-> 0], owner |-> [r \in Room |-> None],
            peers |-> FALSE, bundles |-> {}]

ASSUME AbsentAssumption ==
  /\ None \notin Path \cup Key \cup Db /\ Torn \notin Key \cup {None}
  /\ Gone \notin Path \cup {None}

File == [kind : {"db", "key", "chunks"}, path : Path]
Exists(f) ==
  CASE f.kind = "db" -> f.path \in Profile /\ db[f.path] # None
    [] f.kind = "key" -> f.path \in Profile /\ key[f.path] # None
    [] f.kind = "chunks" -> chunks[f.path]

NewApp == [path |-> None, id |-> None]
NewUi == [pc |-> "idle", path |-> None, key |-> None, todo |-> <<>>, scope |-> {}]
NewLoop == [pc |-> "idle", path |-> None, key |-> None, conn |-> None, new |-> None,
            room |-> Global, at |-> Global, then |-> "idle", dialled |-> FALSE]

Init ==
  /\ key = [p \in Profile |-> None] /\ db = [p \in Path |-> None]
  /\ chunks = [p \in Path |-> FALSE] /\ used = 0
  /\ app = NewApp /\ ui = NewUi /\ queue = <<>> /\ loop = NewLoop
  /\ wiped = {}

(***************************************************************************)
(* load_or_generate_encrypted_keypair, as run by a (the command or the     *)
(* loop), which becomes b.  The file is created empty, then filled.        *)
(***************************************************************************)
Draw(a, b, pc) ==
  /\ used < MaxKeys /\ used' = used + 1
  /\ b = [a EXCEPT !.pc = pc, !.key = used']

\* a keypair is generated whether or not there is a file
LoadOrGenerateMutant(a, b) ==
  \/ a.pc = "load" /\ Draw(a, b, IF a.path = Memory THEN "keyed" ELSE "create") /\ UNCHANGED key
  \/ /\ a.pc = "create" /\ key' = [key EXCEPT ![a.path] = Torn]
     /\ b = [a EXCEPT !.pc = "write"] /\ UNCHANGED used
  \/ /\ a.pc = "write" /\ key' = [key EXCEPT ![a.path] = IF @ = Torn THEN a.key ELSE @]
     /\ b = [a EXCEPT !.pc = "keyed"] /\ UNCHANGED used

LoadOrGenerate(a, b) ==
  \/ /\ a.pc = "load" /\ a.path = Memory
     /\ Draw(a, b, "keyed") /\ UNCHANGED key
  \/ /\ a.pc = "load" /\ a.path \in Profile
     /\ \/ key[a.path] = None /\ Draw(a, b, "create")
        \/ /\ key[a.path] = Torn
           /\ b = [a EXCEPT !.pc = "failed"] /\ UNCHANGED used
        \/ /\ key[a.path] \in Key
           /\ b = [a EXCEPT !.pc = "keyed", !.key = key[a.path]] /\ UNCHANGED used
     /\ UNCHANGED key
  \/ /\ a.pc = "create"
     /\ key' = [key EXCEPT ![a.path] = Torn]
     /\ b = [a EXCEPT !.pc = "write"] /\ UNCHANGED used
  \/ /\ a.pc = "write"   \* into the file created above, unlinked or not
     /\ key' = [key EXCEPT ![a.path] = IF @ = Torn THEN a.key ELSE @]
     /\ b = [a EXCEPT !.pc = "keyed"] /\ UNCHANGED used

(***************************************************************************)
(* login_profile.  The guard leaves identities for the sessions queued.    *)
(***************************************************************************)
LoginProfile(p) ==
  /\ ui.pc = "idle" /\ used + Len(queue) + 3 <= MaxKeys
  /\ ui' = [NewUi EXCEPT !.pc = "load", !.path = p]
  /\ wiped' = {}
  /\ UNCHANGED <<disk, db, used, app, queue, loop>>

LoginKey == LoadOrGenerate(ui, ui') /\ UNCHANGED <<db, chunks, app, queue, loop, wiped>>

LoginFails ==
  /\ ui.pc = "failed" /\ ui' = NewUi
  /\ UNCHANGED <<disk, db, used, app, queue, loop, wiped>>

LoginSend ==   \* both paths and the command, under the locks
  /\ ui.pc = "keyed"
  /\ app' = [app EXCEPT !.path = ui.path]
  /\ IF loop.pc = "dead"
     THEN ui' = NewUi /\ UNCHANGED queue
     ELSE ui' = [ui EXCEPT !.pc = "idle"] /\ queue' = Append(queue, ui.path)
  /\ UNCHANGED <<disk, db, used, loop, wiped>>

(***************************************************************************)
(* StartSession.  conn is the previous session's connection until Finish,  *)
(* and the peers dialled are those saved in it.                            *)
(***************************************************************************)
HasDb(h) == h \in Path

OpenDbMutant ==   \* ignored in a running session
  /\ loop.pc = "idle" /\ queue # <<>>
  /\ LET p == Head(queue) IN
     /\ queue' = Tail(queue)
     /\ IF loop.conn # None
        THEN UNCHANGED <<db, loop>>
        ELSE /\ db' = [db EXCEPT ![p] = IF p = Memory \/ @ = None THEN EmptyDb ELSE @]
             /\ loop' = [loop EXCEPT !.pc = "load", !.path = p, !.new = p]
  /\ UNCHANGED <<disk, used, app, ui, wiped>>

OpenDb ==
  /\ loop.pc = "idle" /\ queue # <<>>
  /\ LET p == Head(queue) IN
     /\ queue' = Tail(queue)
     /\ db' = [db EXCEPT ![p] = IF p = Memory \/ @ = None THEN EmptyDb ELSE @]
     /\ loop' = [loop EXCEPT !.pc = "load", !.path = p, !.new = p,
                             !.dialled = HasDb(loop.conn) /\ db[loop.conn].peers]
  /\ UNCHANGED <<disk, used, app, ui, wiped>>

SessionKey == LoadOrGenerate(loop, loop') /\ UNCHANGED <<db, chunks, app, ui, queue, wiped>>

CreateSwarm ==   \* the peer id is published, then create_swarm is awaited
  /\ loop.pc = "keyed"
  /\ app' = [app EXCEPT !.id = loop.key]
  /\ loop' = [loop EXCEPT !.pc = "swarm"]
  /\ UNCHANGED <<disk, db, used, ui, queue, wiped>>

SwarmUp ==
  /\ loop.pc = "swarm"
  /\ loop' = [loop EXCEPT !.pc = "seed", !.at = loop.room, !.then = "finish"]
  /\ UNCHANGED <<disk, db, used, app, ui, queue, wiped>>

Dies ==   \* an unwrap: of the keypair, or of create_swarm
  /\ loop.pc \in {"failed", "swarm"}
  /\ loop' = [loop EXCEPT !.pc = "dead", !.conn = None, !.new = None]
  /\ queue' = <<>>
  /\ UNCHANGED <<disk, db, used, app, ui, wiped>>

(***************************************************************************)
(* ensure_default_room_governance and seed_default_roles: one statement    *)
(* per role, one for the owner's grant, no transaction.                    *)
(***************************************************************************)
Seed ==
  LET h == IF loop.then = "finish" THEN loop.new ELSE loop.conn
      r == loop.at
      next == [loop EXCEPT !.pc = loop.then]
  IN
  /\ \/ /\ loop.pc = "seed"
        /\ loop' = IF HasDb(h) /\ db[h].roles[r] = 0
                   THEN [loop EXCEPT !.pc = "seeding"] ELSE next
        /\ UNCHANGED db
     \/ /\ loop.pc = "seeding" /\ ~HasDb(h)
        /\ loop' = next /\ UNCHANGED db
     \/ /\ loop.pc = "seeding" /\ HasDb(h)
        /\ IF db[h].roles[r] < DefaultRoles
           THEN db' = [db EXCEPT ![h].roles[r] = @ + 1] /\ UNCHANGED loop
           ELSE db' = [db EXCEPT ![h].owner[r] = loop.key] /\ loop' = next
  /\ UNCHANGED <<disk, used, app, ui, queue, wiped>>

FinishMutant ==   \* an earlier connection is kept
  /\ loop.pc = "finish"
  /\ loop' = [loop EXCEPT !.pc = "idle", !.new = None, !.conn = IF @ = None THEN loop.new ELSE @]
  /\ UNCHANGED <<disk, db, used, app, ui, queue, wiped>>

Finish ==
  /\ loop.pc = "finish"
  /\ db' = IF loop.conn \in Profile   \* an in-memory one is dropped below
           THEN [db EXCEPT ![loop.conn].bundles = @ \cup {loop.key}] ELSE db
  /\ loop' = [loop EXCEPT !.pc = "idle", !.conn = loop.new, !.new = None]
  /\ UNCHANGED <<disk, used, app, ui, queue, wiped>>

(***************************************************************************)
(* Handlers of an idle loop with a connection.  Commands are taken in      *)
(* order, so one given after a login waits for its session.                *)
(***************************************************************************)
InSession == loop.pc = "idle" /\ loop.conn # None

JoinChannel(r) ==
  /\ InSession /\ queue = <<>> /\ r # loop.room
  /\ loop' = [loop EXCEPT !.room = r]
  /\ UNCHANGED <<disk, db, used, app, ui, queue, wiped>>

SaveGroup(r) ==
  /\ InSession /\ queue = <<>>
  /\ loop' = [loop EXCEPT !.pc = "seed", !.at = r, !.then = "idle"]
  /\ UNCHANGED <<disk, db, used, app, ui, queue, wiped>>

Identify ==   \* a peer's addresses are saved
  /\ InSession /\ HasDb(loop.conn)
  /\ db' = [db EXCEPT ![loop.conn].peers = TRUE]
  /\ UNCHANGED <<disk, used, app, ui, queue, loop, wiped>>

StoreChunk ==   \* FileChunk writes under the path of the session
  /\ InSession
  /\ chunks' = [chunks EXCEPT ![loop.path] = TRUE]
  /\ UNCHANGED <<key, db, used, app, ui, queue, loop, wiped>>

(***************************************************************************)
(* panic_wipe: the paths are listed, removed one by one, then exit.  A     *)
(* file is overwritten with zeros before it is removed; both are one step. *)
(***************************************************************************)
F(kind, p) == [kind |-> kind, path |-> p]

ProfilePaths(scope, todo) ==
  CASE scope = "active_profile" ->
         todo = <<F("db", app.path), F("key", app.path), F("chunks", app.path)>>
    [] scope = "message_db_only" -> todo = <<F("db", app.path), F("chunks", app.path)>>
    [] scope = "all_profiles" ->   \* in the order of the directory
         todo \in SetToSeqs({F("key", p) : p \in {q \in Profile : key[q] # None}}
                   \cup UNION {{F("db", p), F("chunks", p)} : p \in {q \in Profile : db[q] # None}})

PanicWipe(scope) ==
  /\ ui.pc = "idle" /\ app.path # None
  /\ \E todo \in UNION {[1 .. n -> File] : n \in 0 .. 3} :
       /\ ProfilePaths(scope, todo)
       /\ ui' = [ui EXCEPT !.pc = "wipe", !.todo = todo, !.scope = ToSet(todo)]
  /\ UNCHANGED <<disk, db, used, app, queue, loop, wiped>>

UnlinkMutant(h, p) == h

Unlink(h, p) == IF h = p THEN Gone ELSE h

WipePath ==
  /\ ui.pc = "wipe" /\ ui.todo # <<>>
  /\ ui' = [ui EXCEPT !.todo = Tail(@)]
  /\ LET f == Head(ui.todo) IN
     /\ key' = IF f.kind = "key" /\ f.path \in Profile THEN [key EXCEPT ![f.path] = None] ELSE key
     /\ chunks' = IF f.kind = "chunks" THEN [chunks EXCEPT ![f.path] = FALSE] ELSE chunks
     /\ IF f.kind = "db" /\ f.path \in Profile
        THEN /\ db' = [db EXCEPT ![f.path] = None]
             /\ loop' = [loop EXCEPT !.conn = Unlink(@, f.path), !.new = Unlink(@, f.path)]
        ELSE UNCHANGED <<db, loop>>
  /\ UNCHANGED <<used, app, queue, wiped>>

ProcessEnds ==
  /\ app' = NewApp /\ ui' = NewUi /\ queue' = <<>> /\ loop' = NewLoop
  /\ db' = [db EXCEPT ![Memory] = None]
  /\ UNCHANGED <<disk, used>>

WipeExit ==
  /\ ui.pc = "wipe" /\ ui.todo = <<>>
  /\ wiped' = ui.scope
  /\ ProcessEnds

Crash == <<app, ui, queue, loop>> # <<NewApp, NewUi, <<>>, NewLoop>> /\ wiped' = {} /\ ProcessEnds

Login == LoginKey \/ LoginFails \/ LoginSend
Session == OpenDb \/ SessionKey \/ CreateSwarm \/ SwarmUp \/ Dies \/ Seed \/ Finish

Next ==
  \/ \E p \in Path : LoginProfile(p)
  \/ Login \/ Session
  \/ \E r \in Room : JoinChannel(r) \/ SaveGroup(r)
  \/ Identify \/ StoreChunk
  \/ \E scope \in Scopes : PanicWipe(scope)
  \/ WipePath \/ WipeExit \/ Crash

Spec == Init /\ [][Next]_vars /\ WF_vars(Login) /\ WF_vars(Session)
-----------------------------------------------------------------------------
TypeOK ==
  /\ key \in [Profile -> Key \cup {None, Torn}]
  /\ db \in [Path -> Db \cup {None}]
  /\ used \in 0 .. MaxKeys /\ queue \in Seq(Path)
  /\ loop.conn \in Handle /\ loop.new \in Handle
  /\ \A h \in {loop.conn, loop.new} : HasDb(h) => db[h] # None

(* Between two handlers the connection, the secret key and AppState are of  *)
(* one profile: the one logged in last, when no login is pending.           *)
SessionOfOneProfile ==
  InSession /\ loop.conn # Gone =>
    /\ loop.conn = loop.path /\ app.id = loop.key
    /\ loop.conn \in Profile => key[loop.conn] = loop.key
    /\ queue = <<>> /\ ui.pc = "idle" => app.path = loop.path

(* The owner of a room of a profile is the identity of the profile, over    *)
(* restarts and a wipe of the messages: nobody owns what nobody can sign    *)
(* for.  (A wipe of the keypair is another matter, see WipedStaysGone.)     *)
OwnerIsIdentity ==
  \A p \in Profile, r \in Room :
    db[p] # None /\ db[p].owner[r] # None => key[p] = db[p].owner[r]

(* A keypair that is whole is never written again.                          *)
IdentityKept == [][\A p \in Profile : key[p] \in Key => key'[p] = key[p]]_vars

(* A queued StartSession ends in a session of its profile, or with the      *)
(* event loop or the process.                                               *)
LoginTakesEffect ==
  \A p \in Path :
    queue # <<>> /\ Head(queue) = p
      ~> (InSession /\ loop.path = p) \/ loop.pc = "dead" \/ app = NewApp

(* The peer id login_profile returns, which the onboarding shows the user    *)
(* to hand out, is that of the keypair the session works with, though both  *)
(* load or generate it.  (An amnesic login returns that of a keypair nobody *)
(* keeps.)                                                                  *)
LoginReturnsSessionId ==
  InSession /\ queue = <<>> /\ ui.pc = "idle" /\ ui.path \in Profile /\ ui.path = loop.path
    => ui.key = loop.key

(* ARCHITECTURE.md:186-188: "The Tauri backend seeds default governance for *)
(* rooms".  Then a room that has roles has its owner's grant.               *)
DefaultGovernanceSeeded ==
  InSession /\ HasDb(loop.conn) =>
    \A r \in Room : db[loop.conn].roles[r] > 0 => db[loop.conn].owner[r] # None

(* lib.rs:1877: "PEX: peer adresini SQLite'a kaydet (gelecek oturumlar      *)
(* için)" (saved for the coming sessions).  The session that starts on a    *)
(* database with saved peers dials them.                                    *)
SavedPeersDialled ==
  loop.pc = "finish" /\ HasDb(loop.new) /\ db[loop.new].peers => loop.dialled

(* THREAT_MODEL.md:201: the panic wipe path "removes profile paths, and     *)
(* exits the process".                                                      *)
WipedStaysGone == \A f \in wiped : ~Exists(f)

(* LoginScreen.tsx:50: "Amnesic Mode (RAM-only, never touches disk)".       *)
AmnesicLeavesNothing == ~chunks[Memory]
=============================================================================
