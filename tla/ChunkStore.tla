----------------------------- MODULE ChunkStore -----------------------------
(***************************************************************************)
(* The file chunks a node keeps for others: a file per transfer and index, *)
(* a row per content, and the quota the rows are counted against.  Either  *)
(* write can fail, and the process can end between the two; either read of *)
(* the database before them can fail, and a sum of the rows that is not    *)
(* read counts as nothing.                                                 *)
(*                                                                         *)
(* What the contact policy and the thresholds refuse is in RequestGate.    *)
(* The commands that would remove expired chunks or prepare files answer   *)
(* "Not logged in", so nothing is ever removed.                            *)
(***************************************************************************)
EXTENDS Integers, FiniteSetsExt

CONSTANTS
  Data,      \* contents, each standing for its hash too
  Size(_),   \* of a content
  Transfer, Index,
  Quota,     \* what quota_mb may be set to
  Retention, \* retention_days
  NoRow, NoFile,
  MaxTime    \* bound: the clock

ASSUME ChunkAssumption ==
  /\ \A d \in Data : Size(d) \in Nat
  /\ Quota \in SUBSET (Nat \ {0}) /\ Retention \in Nat \ {0} /\ MaxTime \in Nat

VARIABLES
  now,
  quota,     \* storage_settings.quota_mb
  files,     \* the directory of the profile: what is at each path
  rows,      \* stored_chunks: a row per hash
  widest,    \* the largest quota there has been
  blind,     \* what was admitted unread since the sum was last read for one
  ack        \* the answer to the last chunk

vars == <<now, quota, files, rows, widest, blind, ack>>

Path == Transfer \X Index   \* "<transfer_id>-<index>.chunk"
Row == [transfer : Transfer, index : Index, path : Path, size : {Size(d) : d \in Data},
        expires : 0 .. MaxTime + Retention]

ASSUME AbsentAssumption == NoRow \notin Row /\ NoFile \notin Data \cup {"torn"}

(* The contents with a row in r, and what the rows of r count.             *)
Stored(r) == {d \in Data : r[d] # NoRow}

Bytes(r) == MapThenSumSet(LAMBDA d : r[d].size, Stored(r))

StoredChunkBytes == Bytes(rows)

OnDisk ==
  LET present == {path \in Path : files[path] \in Data}
  IN  MapThenSumSet(LAMBDA path : Size(files[path]), present)

Init ==
  /\ now = 0 /\ quota \in Quota /\ widest = quota /\ blind = {} /\ ack = "none"
  /\ files = [path \in Path |-> NoFile] /\ rows = [d \in Data |-> NoRow]

Tick ==
  /\ now < MaxTime /\ now' = now + 1
  /\ UNCHANGED <<quota, files, rows, widest, blind, ack>>

SaveStorageSettings(q) ==
  /\ quota' = q /\ widest' = Max({widest, q})
  /\ UNCHANGED <<now, files, rows, blind, ack>>

(***************************************************************************)
(* P2pRequest::FileChunk.  content_hash says the data is claimed; "torn"   *)
(* is what a failed write leaves of the file.  unread are the reads that   *)
(* fail: stored_chunk_bytes(conn).unwrap_or(0), and the storage settings,  *)
(* without which nothing is stored.                                        *)
(***************************************************************************)
Counted(unread) == IF "sum" \in unread THEN 0 ELSE StoredChunkBytes

FitsMutant(d, unread) == Counted(unread) <= quota   \* before the chunk, not with it

Fits(d, unread) == Counted(unread) + Size(d) <= quota

WriteFile(path, d, outcome) ==
  files' = [files EXCEPT ![path] = IF outcome = "file fails" THEN "torn" ELSE d]

SaveStoredChunkMutant(t, i, d, outcome) ==   \* transfer_id and path in each other's place
  IF outcome # "both" THEN UNCHANGED rows
  ELSE rows' = [rows EXCEPT ![d] =
    [transfer |-> IF @ = NoRow THEN <<t, i>> ELSE @.transfer, index |-> i,
     path |-> t, size |-> Size(d), expires |-> now + Retention]]

SaveStoredChunk(t, i, d, outcome) ==   \* ON CONFLICT keeps content_hash and chunk_index
  IF outcome # "both" THEN UNCHANGED rows
  ELSE rows' = [rows EXCEPT ![d] =
    [transfer |-> IF @ = NoRow THEN t ELSE @.transfer, index |-> IF @ = NoRow THEN i ELSE @.index,
     path |-> <<t, i>>, size |-> Size(d), expires |-> now + Retention]]

Taken(d, claimed, unread) == d = claimed /\ "settings" \notin unread /\ Fits(d, unread)

FileChunkMutant(t, i, d, claimed, unread, outcome) ==   \* the row first
  /\ IF Taken(d, claimed, unread)
     THEN /\ SaveStoredChunk(t, i, d, "both")
          /\ IF outcome = "both" THEN WriteFile(<<t, i>>, d, outcome) ELSE UNCHANGED files
     ELSE UNCHANGED <<files, rows>>
  /\ UNCHANGED <<now, quota, widest, blind, ack>>

FileChunk(t, i, d, claimed, unread, outcome) ==
  /\ IF Taken(d, claimed, unread)
     THEN /\ WriteFile(<<t, i>>, d, outcome)
          /\ SaveStoredChunk(t, i, d, outcome)
          /\ ack' = CASE outcome = "both" -> "success" [] outcome = "crash" -> "none"
                      [] OTHER -> "failure"
          /\ blind' = CASE outcome # "both" -> blind
                        [] outcome = "both" /\ "sum" \in unread -> blind \cup {d}
                        [] outcome = "both" /\ "sum" \notin unread -> {}
     ELSE UNCHANGED <<files, rows, blind>> /\ ack' = "failure"
  /\ UNCHANGED <<now, quota, widest>>

Read == {"settings", "sum"}
Outcome == {"both", "file fails", "row fails", "crash"}

Next ==
  \/ Tick
  \/ \E q \in Quota : SaveStorageSettings(q)
  \/ \E t \in Transfer, i \in Index, d, claimed \in Data, unread \in SUBSET Read,
        outcome \in Outcome : FileChunk(t, i, d, claimed, unread, outcome)

Spec == Init /\ [][Next]_vars
-----------------------------------------------------------------------------
TypeOK ==
  /\ now \in 0 .. MaxTime /\ quota \in Quota /\ widest \in Quota
  /\ blind \subseteq Data /\ ack \in {"none", "success", "failure"}
  /\ files \in [Path -> Data \cup {NoFile, "torn"}] /\ rows \in [Data -> Row \cup {NoRow}]

Without(r, contents) == [d \in Data |-> IF d \in contents THEN NoRow ELSE r[d]]

(* However chunks, repetitions, failures and changes of the quota follow    *)
(* each other, a failed read of the sum is all that lets the rows count     *)
(* more than the largest quota there was: what was admitted on a sum that   *)
(* was read stays within it, and so does each content admitted without.     *)
RowsWithinQuota ==
  /\ Bytes(Without(rows, blind)) <= widest
  /\ \A d \in blind : Size(d) <= widest

(* A row is only written for a file that is there, and a row never loses    *)
(* its file: a crash or a failure leaves a file without a row, not a row    *)
(* without a file.                                                          *)
RowsHaveFiles == \A d \in Data : rows[d] # NoRow => files[rows[d].path] # NoFile

(* THREAT_MODEL.md:171: file preparation "enforces local storage quotas".   *)
(* What lies on the disk stays within the largest quota there was, unless   *)
(* a chunk was admitted on a sum that was not read.                         *)
DiskWithinQuota == blind = {} => OnDisk <= widest
=============================================================================
