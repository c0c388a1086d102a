----------------------------- MODULE Migrations -----------------------------
(***************************************************************************)
(* init_db and run_migrations (db.rs): a connection reads user_version and *)
(* then brings the schema forward, one transaction per version.  Several   *)
(* processes may open the database of one profile at the same time, and    *)
(* each may fail or end between any two transactions.                      *)
(***************************************************************************)
EXTENDS Integers

CONSTANTS
  Process,
  Newer     \* the versions newer programs may have left

CURRENT_DB_VERSION == 2

VARIABLES
  user_version,
  schema,      \* what exists: "v1", the tables of the first migration and the row of
               \* storage_settings, and "v2", used_opk_ids
  pc,          \* where each process is in init_db
  version      \* what it read

migrationsVars == <<user_version, schema, pc, version>>

Schema(v) == CASE v = 0 -> {} [] v = 1 -> {"v1"} [] OTHER -> {"v1", "v2"}

MigrationsInit ==
  /\ user_version \in {0, 1, 2} \cup Newer /\ schema = Schema(user_version)
  /\ pc = [p \in Process |-> "closed"] /\ version = [p \in Process |-> 0]

Goto(p, from, to) == pc[p] = from /\ pc' = [pc EXCEPT ![p] = to]

InitDb(p) ==
  /\ version' = [version EXCEPT ![p] = user_version]
  /\ Goto(p, "closed", CASE user_version = 0 -> "v0" [] user_version = 1 -> "v1"
                         [] user_version = CURRENT_DB_VERSION -> "open" [] OTHER -> "refused")
  /\ UNCHANGED <<user_version, schema>>

MigrateV0(p) ==   \* CREATE TABLE IF NOT EXISTS and user_version in one transaction
  /\ Goto(p, "v0", "v1")
  /\ schema' = schema \cup {"v1"} /\ user_version' = 1
  /\ UNCHANGED version

MigrateV1ToV2(p) ==
  /\ Goto(p, "v1", "open")
  /\ schema' = schema \cup {"v2"} /\ user_version' = 2
  /\ UNCHANGED version

(* A transaction fails, on a lock or a full disk, and nothing of it stays;  *)
(* or the process ends, from wherever it is.                                *)
Fail(p) ==
  /\ Goto(p, "v0", "refused") \/ Goto(p, "v1", "refused")
  /\ UNCHANGED <<user_version, schema, version>>

Crash(p) ==
  /\ Goto(p, pc[p], "closed")
  /\ UNCHANGED <<user_version, schema, version>>

MigrationsNext == \E p \in Process : InitDb(p) \/ MigrateV0(p) \/ MigrateV1ToV2(p) \/ Fail(p) \/ Crash(p)

MigrationsSpec == MigrationsInit /\ [][MigrationsNext]_migrationsVars
-----------------------------------------------------------------------------
MigrationsTypeOK ==
  /\ user_version \in {0, 1, 2} \cup Newer /\ schema \in SUBSET {"v1", "v2"}
  /\ pc \in [Process -> {"closed", "v0", "v1", "open", "refused"}]
  /\ version \in [Process -> {0, 1, 2} \cup Newer]

(* Whatever the version that is stored, the schema has what it says; the    *)
(* version may go back, when two processes migrate at once, the schema does *)
(* not.                                                                     *)
VersionTold == Schema(user_version) \subseteq schema

(* Whoever is past the first transaction finds what it created.             *)
V1Created == \A p \in Process : pc[p] = "v1" => "v1" \in schema

(* Every connection init_db has returned sees the whole schema.             *)
OpenHasSchema == \A p \in Process : pc[p] = "open" => schema = {"v1", "v2"}

MigrationInv == MigrationsTypeOK /\ VersionTold /\ V1Created /\ OpenHasSchema
=============================================================================
