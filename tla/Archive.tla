------------------------------- MODULE Archive -------------------------------
(***************************************************************************)
(* The telemetry archive (internal/archive) with the jobs that rely on it: *)
(* sample thinning and retention (internal/samples), and the admin's       *)
(* restore.  One vehicle, one month: its rows in vehicle_state, its object *)
(* in the store (with the copy beside it while it is replaced) and its     *)
(* archive_months row.                                                     *)
(*                                                                         *)
(* The jobs share one advisory lock, so one runs at a time (task), and any *)
(* of their steps may be the last.  Writers (live, replay, import) do not  *)
(* take it: they insert, flag the month, and commit, each a step.  A put   *)
(* and its read-back are one step: a crash in between leaves what a crash  *)
(* before the next step leaves.                                            *)
(***************************************************************************)
EXTENDS Integers, FiniteSets, FiniteSetsExt

CONSTANTS
    Times,    \* the times a sample may have
    NoRow,
    MaxOpen,  \* bound on the writing transactions open at a time
    Jobs,     \* the jobs that are switched on, of ArchiveJobs
    MaxBad,   \* bound on uploads that do not read back
    MaxGen    \* writers and restores flag up to this rearchive_gen

ArchiveJobs == {"thin", "retention", "restore"}

ASSUME TimesAssumption == Times \subseteq Nat /\ NoRow \notin Times
ASSUME JobsAssumption == Jobs \subseteq ArchiveJobs
ASSUME BoundsAssumption == {MaxOpen, MaxBad, MaxGen} \subseteq Nat

VARIABLES
    db,      \* the month's committed rows in vehicle_state
    part,    \* the month's partition exists
    tier,    \* the month has a sample_tiers row: it was thinned
    expired, \* the month is before RetentionCutoff
    calm,    \* nobody writes, restores or crashes any more (for the liveness)
    obj,     \* the object
    new,     \* the copy beside it (.new)
    month,   \* the archive_months row
    task,    \* what the holder of the maintenance lock is doing
    writer,  \* row -> the transaction that inserts it
    bad,     \* uploads that did not read back so far
    written, \* history: the rows that were ever committed
    unseen   \* history: the rows a first archive or a sweep could not see

dbVars == <<db, part, tier, expired, calm>>
storeVars == <<obj, new, bad>>
arVars == <<dbVars, storeVars, month, task, writer, written, unseen>>

Absent == [rows |-> {}, whole |-> FALSE]
NoTask == [pc |-> "idle", re |-> FALSE, gen |-> 0, rows |-> {}]

\* What archive_months keeps of an object's rows: count, first and last.
Stat(S) == IF S = {} THEN <<0, NoRow, NoRow>> ELSE <<Cardinality(S), Min(S), Max(S)>>
NoMonth == [on |-> FALSE, rows |-> Stat({}), flag |-> FALSE, gen |-> 0, hold |-> "no"]

\* readableKey: the object, or the copy beside it if only that reads back whole.
Copy == IF obj.whole THEN obj ELSE new

\* The rows of the open transactions.
Open == {r \in Times : writer[r] # "idle"}

\* A writer's UPDATE locks the archive_months row until its transaction ends.
RowFree == \A r \in Times : writer[r] # "flagged"

\* MarkRearchive.
Flagged(m) == [m EXCEPT !.flag = TRUE, !.gen = @ + 1]

(***************************************************************************)
(* The gates.                                                              *)
(***************************************************************************)
\* MonthArchived.
MonthArchived ==
    db = {} \/ (month.on /\ ~ month.flag /\ month.hold # "held")

\* Deviation: the check without the count, first and last.
NotExact == MonthArchived

\* MonthArchivedExact.
MonthArchivedExact == MonthArchived /\ (db = {} \/ month.rows = Stat(db))

\* Verified, not flagged, but of other rows than the database has.
Mismatch == month.on /\ ~ month.flag /\ month.rows # Stat(db)

\* Deviation: a refused thinning is only reported.
NotFlagged == month

\* FlagMismatched.
FlagMismatched == IF db # {} /\ Mismatch THEN Flagged(month) ELSE month

\* keepSQL: at least the first row of a bucket stays.
Thinned(S) == IF S = {} THEN {} ELSE {Min(S)}

-----------------------------------------------------------------------------
\* A month that is old enough to be archived.
ArInit ==
    /\ db = {} /\ part = TRUE /\ tier = FALSE /\ expired = FALSE /\ calm = FALSE
    /\ obj = Absent /\ new = Absent /\ bad = 0
    /\ month = NoMonth /\ task = NoTask
    /\ writer = [r \in Times |-> "idle"]
    /\ written = {} /\ unseen = {}

(***************************************************************************)
(* Writers.                                                                *)
(***************************************************************************)
\* An insert that adds a row.  Writers keep to the retention cutoff: a transaction
\* that is open when the month expires goes on, and none begins after that.
Insert(r) ==
    /\ r \notin db \cup Open /\ ~ expired /\ Cardinality(Open) < MaxOpen
    /\ writer' = [writer EXCEPT ![r] = "open"]
    /\ part' = TRUE
    /\ UNCHANGED <<db, tier, expired, calm, storeVars, month, task, written, unseen>>

\* markRearchive: nothing to flag if the month has no archive row yet.
Mark(r) ==
    /\ writer[r] = "open"
    /\ IF month.on
       THEN /\ RowFree /\ month.gen < MaxGen
            /\ writer' = [writer EXCEPT ![r] = "flagged"]
       ELSE writer' = [writer EXCEPT ![r] = "nothing"]
    /\ UNCHANGED <<dbVars, storeVars, month, task, written, unseen>>

CommitRow(r) ==
    /\ writer[r] \in {"nothing", "flagged"}
    /\ db' = db \cup {r}
    /\ written' = written \cup {r}
    /\ month' = IF writer[r] = "flagged" THEN Flagged(month) ELSE month
    /\ unseen' = IF writer[r] = "nothing" /\ (month.on \/ task.pc \in {"put_obj", "record"})
                 THEN unseen \cup {r} ELSE unseen
    /\ writer' = [writer EXCEPT ![r] = "idle"]
    /\ UNCHANGED <<part, tier, expired, calm, storeVars, task>>

RollBack(r) ==
    /\ writer[r] # "idle"
    /\ writer' = [writer EXCEPT ![r] = "idle"]
    /\ UNCHANGED <<dbVars, storeVars, month, task, written, unseen>>

(***************************************************************************)
(* The archive job.                                                        *)
(***************************************************************************)
Step(pc) == task' = [task EXCEPT !.pc = pc]
Done == task' = NoTask

\* pendingPairs: rows, and no verified object or a flagged one.
Pending == db # {} /\ (~ month.on \/ month.flag)

\* Deviation: a thinned month is archived again from its rows.
FromRows(re) == db

\* A re-archive of a thinned month adds the rows its object lacks to those it has.
Source(re) == IF re /\ tier THEN Copy.rows \cup db ELSE db

\* Deviation: a verified object is replaced in place.
InPlace(re) == "put_obj"

\* A verified object is replaced by way of a copy beside it.
FirstPut(re) == IF re THEN "put_new" ELSE "put_obj"

\* archiveOne up to the snapshot: of the rows, and of the generation.
Snapshot ==
    /\ task.pc = "idle" /\ Pending
    /\ month.on /\ tier => Copy.whole
    /\ task' = [pc |-> FirstPut(month.on), re |-> month.on,
                gen |-> month.gen, rows |-> Source(month.on)]
    /\ UNCHANGED <<dbVars, storeVars, month, writer, written, unseen>>

\* An upload, read back: whole, or not.
Upload(whole) ==
    /\ whole \/ bad < MaxBad
    /\ bad' = IF whole THEN bad ELSE bad + 1

PutNew ==
    /\ task.pc = "put_new"
    /\ \E whole \in BOOLEAN :
        /\ Upload(whole)
        /\ new' = [rows |-> task.rows, whole |-> whole]
        /\ IF whole THEN Step("put_obj") ELSE Done
    /\ UNCHANGED <<dbVars, obj, month, writer, written, unseen>>

PutObj ==
    /\ task.pc = "put_obj"
    /\ \E whole \in BOOLEAN :
        /\ Upload(whole)
        /\ obj' = [rows |-> task.rows, whole |-> whole]
        /\ IF whole THEN Step(IF task.re THEN "delete_new" ELSE "record") ELSE Done
    /\ UNCHANGED <<dbVars, new, month, writer, written, unseen>>

DeleteNew ==
    /\ task.pc = "delete_new"
    /\ new' = Absent
    /\ Step("record")
    /\ UNCHANGED <<dbVars, obj, bad, month, writer, written, unseen>>

\* Deviation: archived means nothing left to do.
Clears(gen) == FALSE

\* A flag that the snapshot did not see stays.
StillFlagged(gen) == month.gen # gen

Record ==
    /\ task.pc = "record" /\ RowFree
    /\ month' = IF month.on /\ ~ month.flag THEN month
                ELSE [month EXCEPT !.on = TRUE, !.rows = Stat(task.rows),
                                   !.flag = month.on /\ StillFlagged(task.gen)]
    /\ unseen' = unseen \ task.rows
    /\ Done
    /\ UNCHANGED <<dbVars, storeVars, writer, written>>

(***************************************************************************)
(* Thinning.                                                               *)
(***************************************************************************)
ThinCheck ==
    /\ "thin" \in Jobs /\ task.pc = "idle" /\ part /\ ~ tier /\ MonthArchived
    /\ Step("thin")
    /\ UNCHANGED <<dbVars, storeVars, month, writer, written, unseen>>

\* The swap, in one transaction under a lock that waits for writers; refused if
\* the object does not have exactly the rows.
ThinSwap ==
    /\ task.pc = "thin" /\ Open = {}
    /\ IF MonthArchivedExact
       THEN db' = Thinned(db) /\ tier' = TRUE /\ Done
       ELSE Step("flag") /\ UNCHANGED <<db, tier>>
    /\ UNCHANGED <<part, expired, calm, storeVars, month, writer, written, unseen>>

FlagRefused ==
    /\ task.pc = "flag" /\ RowFree
    /\ month' = FlagMismatched
    /\ Done
    /\ UNCHANGED <<dbVars, storeVars, writer, written, unseen>>

\* rethinPair: a restored month's hold is over.
Rethin ==
    /\ "thin" \in Jobs /\ task.pc = "idle" /\ month.hold = "due"
    /\ Open = {} \/ ~ part
    /\ \/ /\ ~ part \/ (~ month.flag /\ ~ Mismatch)
          /\ db' = IF part THEN Thinned(db) ELSE db
          /\ month' = [month EXCEPT !.hold = "no"]
       \/ /\ part /\ Mismatch /\ month.gen <= MaxGen
          /\ month' = Flagged(month)
          /\ UNCHANGED db
    /\ RowFree
    /\ UNCHANGED <<part, tier, expired, calm, storeVars, task, writer, written, unseen>>

(***************************************************************************)
(* Retention and the restore.                                              *)
(***************************************************************************)
\* The archive is asked ...
SweepCheck ==
    /\ "retention" \in Jobs /\ task.pc = "idle" /\ part /\ expired /\ MonthArchived
    /\ Step("drop")
    /\ unseen' = unseen \cup Open
    /\ UNCHANGED <<dbVars, storeVars, month, writer, written>>

\* ... and the partition detached, which waits for writers, and dropped.
SweepDrop ==
    /\ task.pc = "drop" /\ Open = {}
    /\ db' = {} /\ part' = FALSE
    /\ Done
    /\ UNCHANGED <<tier, expired, calm, storeVars, month, writer, written, unseen>>

\* Deviation: every restore holds the month back.
AlwaysHeld == "held"

\* rethin_after: thinning of a month that was thinned waits.
HoldAfterRestore == IF tier THEN "held" ELSE "no"

\* Restore reads the object and counts the rows that only the database has ...
RestoreLoad ==
    /\ "restore" \in Jobs /\ task.pc = "idle" /\ month.on /\ Copy.whole
    /\ db \subseteq Copy.rows \/ month.gen < MaxGen
    /\ task' = [NoTask EXCEPT !.pc = "restore", !.rows = Copy.rows,
                              !.re = ~ (db \subseteq Copy.rows)]
    /\ part' = TRUE
    /\ UNCHANGED <<db, tier, expired, calm, storeVars, month, writer, written, unseen>>

\* ... inserts what is missing, holds a thinned month back and flags it.
RestoreCommit ==
    /\ task.pc = "restore" /\ RowFree
    /\ db' = db \cup task.rows
    /\ month' = [(IF task.re THEN Flagged(month) ELSE month)
                    EXCEPT !.hold = HoldAfterRestore]
    /\ Done
    /\ UNCHANGED <<part, tier, expired, calm, storeVars, writer, written, unseen>>

HoldEnds ==
    /\ month.hold = "held"
    /\ month' = [month EXCEPT !.hold = "due"]
    /\ UNCHANGED <<dbVars, storeVars, task, writer, written, unseen>>

Expire ==
    /\ ~ expired
    /\ expired' = TRUE
    /\ UNCHANGED <<db, part, tier, calm, storeVars, month, task, writer, written, unseen>>

\* A step fails or the process dies: the locks go with the connection.
Abandon ==
    /\ task.pc # "idle"
    /\ Done
    /\ UNCHANGED <<dbVars, storeVars, month, writer, written, unseen>>

-----------------------------------------------------------------------------
Continue ==
    \/ PutNew \/ PutObj \/ DeleteNew \/ Record \/ ThinSwap \/ FlagRefused
    \/ SweepDrop \/ RestoreCommit
EndTx(r) == Mark(r) \/ CommitRow(r) \/ RollBack(r)
Disturbed ==
    /\ ~ calm
    /\ Abandon \/ RestoreLoad \/ \E r \in Times : Insert(r)

\* After the last disturbance, once the open transactions have ended.
Settle ==
    /\ ~ calm /\ Open = {} /\ calm' = TRUE
    /\ UNCHANGED <<db, part, tier, expired, storeVars, month, task, writer, written, unseen>>

ArNext ==
    \/ Disturbed
    \/ \E r \in Times : EndTx(r)
    \/ Continue
    \/ Snapshot \/ ThinCheck \/ Rethin \/ SweepCheck
    \/ HoldEnds \/ Expire \/ Settle

\* Every pod runs the jobs once a day, a step of a job or a transaction ends, and so
\* does the time that a restored month is held back.
ArFairness ==
    /\ WF_arVars(Continue \/ Snapshot \/ ThinCheck \/ Rethin)
    /\ WF_arVars((\E r \in Times : EndTx(r)) \/ HoldEnds)

ArSpec == ArInit /\ [][ArNext]_arVars

-----------------------------------------------------------------------------
Copies == [rows : SUBSET Times, whole : BOOLEAN]
TaskPCs == {"idle", "put_new", "put_obj", "delete_new", "record", "thin", "flag",
            "drop", "restore"}

\* Every variable stays in its type, and only a thinned month is held back.
ArTypeOK ==
    /\ db \subseteq Times /\ written \subseteq Times /\ unseen \subseteq Times
    /\ {part, tier, expired, calm} \subseteq BOOLEAN
    /\ obj \in Copies /\ new \in Copies /\ bad \in 0 .. MaxBad
    /\ month \in [on : BOOLEAN, rows : {Stat(S) : S \in SUBSET Times}, flag : BOOLEAN,
                  gen : Nat,
                  hold : IF tier THEN {"no", "held", "due"} ELSE {"no"}]
    /\ task \in [pc : TaskPCs, re : BOOLEAN, gen : Nat, rows : SUBSET Times]
    /\ writer \in [Times -> {"idle", "open", "nothing", "flagged"}]

\* What a reader gets from the store: nothing if neither copy reads back.
Readable == IF Copy.whole THEN Copy.rows ELSE {}

\* No sample is lost: a row that was committed is in the database or can be read from
\* the store, whatever fails.  Except rows whose writer committed during the month's
\* first archive without having found a row to flag, or was open when retention asked
\* the archive: until the object has them, nothing says they lack.
NothingLost == written \ unseen \subseteq db \cup Readable

\* A month that counts as archived has its rows in the object: no interleaving of
\* writers with a re-archive clears a flag it did not serve.
CleanMeansHeld ==
    month.on /\ ~ month.flag => db \ unseen \subseteq Readable

\* archiveOne: "a good copy is in the store at every step" of a replacement.  Of one
\* upload that does not read back (MaxBad = 1): after it only the .new may be good, and
\* the next replacement overwrites that one first.
GoodCopy == month.on => Copy.whole

\* Thinning takes no row from the database that the object lacks, also none that
\* raced with the first archive.
ThinnedIsArchived == [][part' = part => db \ db' \subseteq Readable]_arVars

\* In the end everything the database has is archived, also what raced with the
\* first archive: thinning finds it and the next run heals it.  Except in a month
\* that was thinned while it had no rows of this vehicle: there nothing looks.
Heals ==
    ArFairness => ([]<>calm =>
        <>[](/\ db # {} => month.on /\ ~ month.flag
             /\ db \ Readable \subseteq IF tier THEN unseen ELSE {}))
=============================================================================
