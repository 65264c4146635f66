--------------------------- MODULE LegacyMigration ---------------------------
(***************************************************************************)
(* The one-time import of the LowDB file data.json into MongoDB, run by    *)
(* every start of the backend before anything else (db/mongodb.ts).        *)
(*                                                                         *)
(* A process start goes through the phases of pc, one phase per await of   *)
(* bootstrapMongoDb and migrateLegacyJson.  It can be cut short at any of  *)
(* them by a crash or an I/O error and is then started again.  Writes the  *)
(* server has already been sent may still be applied after the process     *)
(* that sent them is gone (pending).                                       *)
(*                                                                         *)
(* A record is abstracted to one number: for a statistics bucket the       *)
(* counters that the verification sums, for a server or a user a version   *)
(* of its contents.  Which versions of two records a unique index does not *)
(* let into one collection, those with the same address, name, e-mail or   *)
(* Steam id, is given by Clashes.                                          *)
(***************************************************************************)
EXTENDS Integers, FiniteSets, FiniteSetsExt

CONSTANTS
    Ids,            \* ids of every record, of the three collections together
    Statistics,     \* those of the server_statistics collection
    LegacyIds,      \* ids of the records of data.json
    Legacy,         \* their contents in data.json
    Values,         \* contents a record can have
    Clashes,        \* pairs {<<id, contents>>, <<id, contents>>} with a key in common
    NoRecord,       \* no document has this id
    MAX_FAULTS      \* bound: crashes and I/O errors of a behaviour

ASSUME LegacyAssumption ==
    /\ LegacyIds \subseteq Ids
    /\ IsFiniteSet(LegacyIds)
    /\ Statistics \subseteq Ids
    /\ Values \subseteq Nat
    /\ Clashes \subseteq SUBSET (Ids \X Values)
    /\ NoRecord \notin Values
    /\ Legacy \in [LegacyIds -> Values]
    /\ MAX_FAULTS \in Nat

VARIABLES
    source,     \* data.json: absent, or what readLegacyJson finds in it
    backup,     \* data.json.bak: absent, the archived source, or another file
    mongo,      \* Ids -> contents of the document with that id, or NoRecord
    marker,     \* the document lowdb-to-mongo-v1 of the migrations collection
    pending,    \* ids whose upsert was sent to Mongo and is not yet applied
    pc,         \* phase of the running process; "down" when there is none
    storage,    \* ENABLE_STORAGE of the running process
    seen,       \* local const marker of migrateLegacyJson
    existing,   \* local const existing: source ids that Mongo already held
    missed,     \* files this start took for absent since access() failed (history)
    failure,    \* what the last start failed with
    faults      \* crashes and I/O errors so far

vars == <<source, backup, mongo, marker, pending, pc, storage, seen, existing,
          missed, failure, faults>>
local == <<storage, seen, existing>>
disk == <<source, backup>>

Migrating == {"read", "marker", "existing", "write", "verify", "mark", "archive", "backup",
              "rename"}
Phases == Migrating \cup {"down", "connect", "serving", "fallback"}
Sources == {"ok", "unreadable", "duplicates"}
Failures == {"none", "unavailable", "source", "write", "verify", "backup"}

\* Mutant: findRecordsByIds forgets its $in filter.
MutPresent == {id \in Ids : mongo[id] # NoRecord}
Present == {id \in LegacyIds : mongo[id] # NoRecord}
LegacyStatistics == LegacyIds \cap Statistics

\* The unique indexes that ensureIndexes creates.
Unique(docs) ==
    \A id, other \in Ids : {<<id, docs[id]>>, <<other, docs[other]>>} \notin Clashes

\* What every start after the first finds: whatever Mongo holds under its
\* indexes and whatever files the operator left, with the process not running.
Init ==
    /\ source \in {"absent"} \cup Sources
    /\ backup \in {"absent", "other"}
    /\ mongo \in [Ids -> Values \cup {NoRecord}]
    /\ Unique(mongo)
    /\ marker = FALSE
    /\ pending = {}
    /\ pc = "down"
    /\ storage = FALSE
    /\ seen = FALSE
    /\ existing = {}
    /\ missed = {}
    /\ failure = "none"
    /\ faults = 0

-----------------------------------------------------------------------------
(* The catch block of bootstrapMongoDb: the client is closed, upserts on    *)
(* their way are kept or lost, and main gives up.                           *)
FailWith(why, sent) ==
    /\ \E kept \in SUBSET sent : pending' = kept
    /\ pc' = "down"
    /\ failure' = why
    /\ seen' = FALSE
    /\ existing' = {}
    /\ missed' = {}

Fail(why) == FailWith(why, pending)

\* exists(): a file that is there is taken for absent when access() fails,
\* whatever the reason.
Finds(file, contents, found) ==
    \/ /\ found = (contents # "absent")
       /\ UNCHANGED <<missed, faults>>
    \/ /\ ~found /\ contents # "absent"
       /\ faults < MAX_FAULTS
       /\ faults' = faults + 1
       /\ missed' = missed \cup {file}

Start(enableStorage) ==
    /\ pc = "down"
    /\ pc' = "connect"
    /\ storage' = enableStorage
    /\ failure' = "none"
    /\ UNCHANGED <<disk, mongo, marker, pending, seen, existing, missed, faults>>

\* client.connect and ensureIndexes; without storage there is no migration.
Connect ==
    /\ pc = "connect"
    /\ pc' = IF storage THEN "read" ELSE "serving"
    /\ UNCHANGED <<disk, mongo, marker, pending, local, missed, failure, faults>>

\* No data.json is found, and the manager serves at once.
NoSource ==
    /\ pc = "read"
    /\ Finds("source", source, FALSE)
    /\ pc' = "serving"
    /\ UNCHANGED <<disk, mongo, marker, pending, local, failure>>

ReadSource ==
    /\ pc = "read"
    /\ source # "absent"
    /\ \/ /\ source = "unreadable"
          /\ Fail("source")
       \/ /\ source # "unreadable"
          /\ pc' = "marker"
          /\ UNCHANGED <<pending, failure, seen, existing, missed>>
    /\ UNCHANGED <<disk, mongo, marker, storage, faults>>

\* After a marker the check compares every record: nothing is "existing".
FindMarker ==
    /\ pc = "marker"
    /\ seen' = marker
    /\ pc' = IF marker THEN "verify" ELSE "existing"
    /\ UNCHANGED <<disk, mongo, marker, pending, storage, existing, missed, failure, faults>>

\* legacyRecordIds answers; assertUniqueIds and the three bulkWrites follow
\* without another await.
FindExisting ==
    /\ pc = "existing"
    /\ \/ /\ source = "duplicates"
          /\ Fail("source")
       \/ /\ source # "duplicates"
          /\ existing' = Present
          /\ pending' = pending \cup LegacyIds
          /\ pc' = "write"
          /\ UNCHANGED <<failure, seen, missed>>
    /\ UNCHANGED <<disk, mongo, marker, storage, faults>>

\* Mutant: the upsert uses $set.
MutSetOnInsert(id) == Legacy[id]
SetOnInsert(id) == IF mongo[id] = NoRecord THEN Legacy[id] ELSE mongo[id]

Upserted(id) == [mongo EXCEPT ![id] = SetOnInsert(id)]

\* Mongo applies one upsert of the bulkWrites, in any order over collections.
InsertMissing(id) ==
    /\ id \in pending
    /\ Unique(Upserted(id))
    /\ mongo' = Upserted(id)
    /\ pending' = pending \ {id}
    /\ UNCHANGED <<disk, marker, pc, local, missed, failure, faults>>

\* A unique index refuses the upsert: the bulkWrite of a start that waits for
\* it rejects, and those of the other collections go on or get lost.
RefuseMissing(id) ==
    /\ id \in pending
    /\ ~Unique(Upserted(id))
    /\ \/ /\ pc = "write"
          /\ FailWith("write", pending \ {id})
       \/ /\ pc # "write"
          /\ pending' = pending \ {id}
          /\ UNCHANGED <<pc, seen, existing, missed, failure>>
    /\ UNCHANGED <<disk, mongo, marker, storage, faults>>

\* Mutant: the bulkWrites are neither awaited nor verified.
MutWriteLegacyRecords ==
    /\ pc = "write"
    /\ pc' = "mark"
    /\ UNCHANGED <<disk, mongo, marker, pending, local, missed, failure, faults>>

WriteLegacyRecords ==
    /\ pc = "write"
    /\ pending = {}
    /\ pc' = "verify"
    /\ UNCHANGED <<disk, mongo, marker, pending, local, missed, failure, faults>>

\* Mutant: the source side also counts the buckets that were already there.
MutExpectedBuckets == LegacyStatistics
ExpectedBuckets == LegacyStatistics \ existing

\* Sum and maximum of a bucket's counters over the buckets not in existing.
SameStatisticAggregates(found) ==
    LET actual == (LegacyStatistics \ existing) \cap found
        Largest(f, S) == FoldFunctionOnSet(LAMBDA x, y : IF x > y THEN x ELSE y, 0, f, S)
    IN  /\ FoldFunctionOnSet(+, 0, mongo, actual) = FoldFunctionOnSet(+, 0, Legacy, ExpectedBuckets)
        /\ Largest(mongo, actual) = Largest(Legacy, ExpectedBuckets)

\* Mutant: the counts are not compared.
MutSameMigrationCounts(found) == TRUE
SameMigrationCounts(found) ==
    /\ Cardinality(found \cap Statistics) = Cardinality(LegacyStatistics)
    /\ Cardinality(found \ Statistics) = Cardinality(LegacyIds \ Statistics)

VerifyLegacyRecords ==
    /\ pc = "verify"
    /\ \/ /\ SameMigrationCounts(Present)
          /\ SameStatisticAggregates(Present)
          /\ pc' = IF seen THEN "archive" ELSE "mark"
          /\ UNCHANGED <<pending, failure, seen, existing, missed>>
       \/ /\ ~(SameMigrationCounts(Present) /\ SameStatisticAggregates(Present))
          /\ Fail("verify")
    /\ UNCHANGED <<disk, mongo, marker, storage, faults>>

InsertMarker ==
    /\ pc = "mark"
    /\ marker' = TRUE
    /\ pc' = "archive"
    /\ UNCHANGED <<disk, mongo, pending, local, missed, failure, faults>>

\* backupLegacyJson looks for data.json again, which nobody else removes.
CheckSource ==
    /\ pc = "archive"
    /\ \E found \in BOOLEAN :
          /\ Finds("source", source, found)
          /\ pc' = IF found THEN "backup" ELSE "serving"
    /\ UNCHANGED <<disk, mongo, marker, pending, local, failure>>

\* Mutant: the backup is not looked for.
MutBackupFound(found) == ~found /\ UNCHANGED <<missed, faults>>
BackupFound(found) == Finds("backup", backup, found)

CheckBackup ==
    /\ pc = "backup"
    /\ \/ /\ backup # "absent"
          /\ BackupFound(TRUE)
          /\ Fail("backup")
       \/ /\ BackupFound(FALSE)
          /\ pc' = "rename"
          /\ UNCHANGED <<pending, failure, seen, existing>>
    /\ UNCHANGED <<disk, mongo, marker, storage>>

RenameSource ==
    /\ pc = "rename"
    /\ backup' = source
    /\ source' = "absent"
    /\ pc' = "serving"
    /\ UNCHANGED <<mongo, marker, pending, local, missed, failure, faults>>

\* The running manager replaces or removes catalog and user documents and
\* increments the counters of statistics buckets, which it never removes.
Serve(id, value) ==
    /\ pc = "serving"
    /\ Unique([mongo EXCEPT ![id] = value])
    /\ id \in Statistics => value # NoRecord /\ (mongo[id] # NoRecord => value > mongo[id])
    /\ mongo' = [mongo EXCEPT ![id] = value]
    /\ UNCHANGED <<disk, marker, pending, pc, local, missed, failure, faults>>

\* An awaited call rejects: with storage the start fails, without it the
\* manager runs on the ephemeral in-memory store.  An exists() never rejects;
\* it is all there is to the phases "archive" and "backup", and to "read"
\* without a data.json.
IOError ==
    /\ pc \in (Migrating \ {"archive", "backup"}) \cup {"connect"}
    /\ pc = "read" => source # "absent"
    /\ faults < MAX_FAULTS
    /\ faults' = faults + 1
    /\ \/ /\ storage
          /\ Fail("unavailable")
       \/ /\ ~storage
          /\ pc' = "fallback"
          /\ UNCHANGED <<pending, failure, seen, existing, missed>>
    /\ UNCHANGED <<disk, mongo, marker, storage>>

\* The process dies while it starts.
Crash ==
    /\ pc \in Migrating \cup {"connect"}
    /\ faults < MAX_FAULTS
    /\ faults' = faults + 1
    /\ Fail("none")
    /\ UNCHANGED <<disk, mongo, marker, storage>>

\* The running manager is stopped, or dies.
Stop ==
    /\ pc \in {"serving", "fallback"}
    /\ Fail("none")
    /\ UNCHANGED <<disk, mongo, marker, storage, faults>>

\* The operator moves a backup that is in the way to another place.
MoveBackup ==
    /\ pc = "down"
    /\ source # "absent" /\ backup # "absent"
    /\ backup' = "absent"
    /\ UNCHANGED <<source, mongo, marker, pending, pc, local, missed, failure, faults>>

Boot ==
    \/ Connect
    \/ NoSource
    \/ ReadSource
    \/ FindMarker
    \/ FindExisting
    \/ WriteLegacyRecords
    \/ VerifyLegacyRecords
    \/ InsertMarker
    \/ CheckSource
    \/ CheckBackup
    \/ RenameSource

Next ==
    \/ \E enableStorage \in BOOLEAN : Start(enableStorage)
    \/ Boot
    \/ \E id \in LegacyIds : InsertMissing(id) \/ RefuseMissing(id)
    \/ \E id \in Ids, value \in Values \cup {NoRecord} : Serve(id, value)
    \/ IOError
    \/ Crash
    \/ Stop
    \/ MoveBackup

\* An awaited call is answered or rejected, Mongo applies what it received,
\* and the process supervisor starts the backend again.
Fairness ==
    /\ WF_vars(Boot)
    /\ \A id \in LegacyIds : WF_vars(InsertMissing(id) \/ RefuseMissing(id))
    /\ WF_vars(\E enableStorage \in BOOLEAN : Start(enableStorage))

Spec == Init /\ [][Next]_vars
FairSpec == Spec /\ Fairness

-----------------------------------------------------------------------------
TypeOK ==
    /\ source \in {"absent"} \cup Sources
    /\ backup \in {"absent", "other"} \cup Sources
    /\ mongo \in [Ids -> Values \cup {NoRecord}]
    /\ marker \in BOOLEAN
    /\ pending \subseteq LegacyIds
    /\ pc \in Phases
    /\ storage \in BOOLEAN
    /\ seen \in BOOLEAN
    /\ existing \subseteq LegacyIds
    /\ missed \subseteq {"source", "backup"}
    /\ failure \in Failures
    /\ faults \in 0 .. MAX_FAULTS

\* A start that reached the marker left every source record as it must be:
\* present, and with the contents of data.json unless Mongo held it before
\* this start (lines 89-96), whatever earlier starts were cut short.
ImportedFaithfully ==
    pc = "mark" =>
        \A id \in LegacyIds : mongo[id] # NoRecord /\ (id \notin existing => mongo[id] = Legacy[id])

\* data.json is archived only by a start that has seen every one of its
\* records in Mongo, with the marker on record (lines 90-109).
ArchivedOnlyWhenComplete ==
    [][source # "absent" /\ source' = "absent"
         => marker /\ source = "ok" /\ Present = LegacyIds]_vars

\* Importing never changes or removes a document Mongo already holds; only a
\* manager that is serving does (bulkInsertMissing, lines 155-161).
ExistingPreserved ==
    [][pc # "serving" =>
         \A id \in Ids : mongo[id] # NoRecord => mongo'[id] = mongo[id]]_vars

\* No start that could look for data.json.bak replaces one that is there, and
\* the source leaves data.json only for it (backupLegacyJson, lines 112-122).
\* A start to which access() of the backup failed does replace it, since
\* exists (lines 270-277) takes any error for its absence.
BackupNeverOverwritten ==
    [][/\ backup # "absent" /\ "backup" \notin missed => backup' \in {backup, "absent"}
       /\ source' # source => source' = "absent" /\ backup' = source]_vars

\* A readable source with no backup in the way, of which Mongo holds no other
\* version of a bucket and refuses no record.
Migratable ==
    /\ source = "ok"
    /\ backup = "absent"
    /\ \A id \in LegacyStatistics : mongo[id] \in {NoRecord, Legacy[id]}
    /\ Unique([id \in Ids |-> IF id \in LegacyIds THEN SetOnInsert(id) ELSE mongo[id]])

\* However the starts are cut short, by crashes and by calls that fail, a
\* source that Mongo can take is archived in the end, if the manager always
\* runs with storage and no start takes data.json for absent.  One that does
\* serves beside it, and what it changes may keep later starts from importing.
MigrationCompletes ==
    Migratable /\ [](pc # "connect" \/ storage) /\ [](missed = {}) => <>(source = "absent")

\* docs/archive/plugin-auth-websocket-and-mongo-only-storage.md:29 has the
\* migration idempotent, with a marker, preserving the records Mongo already
\* held: a source that was verified and marked is not refused by a later start.
MarkedSourceNotRefused == marker => failure # "verify"
=============================================================================
