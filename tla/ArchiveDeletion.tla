--------------------------- MODULE ArchiveDeletion ---------------------------
(***************************************************************************)
(* Deleting archived telemetry: a history reset (or account deletion) and  *)
(* "delete the history before a month" queue the objects, the hourly       *)
(* deleter removes them from the store, and the archive job may be writing *)
(* an object of the same user all the while.                               *)
(*                                                                         *)
(* The job holds the user's archive lock from reading the data key to the  *)
(* record; a reset and a delete-before take it for their transaction; the  *)
(* deleter does not.  An object's LastModified is the number of requests   *)
(* made before it was written; the deleter's clock margin is left out.     *)
(***************************************************************************)
EXTENDS Integers, FiniteSets, SequencesExt

CONSTANTS
    Months,    \* archivable months of one vehicle
    Before,    \* those before the month a delete-before names
    NoMonthId,
    MaxReq,    \* bound on deletion requests
    MaxKey     \* bound on data keys

ASSUME MonthsAssumption == Before \subseteq Months /\ NoMonthId \notin Months
ASSUME ReqAssumption == MaxReq \in Nat /\ MaxKey \in Nat

VARIABLES
    dataKey, \* the user's archive_keys row: which key, or 0
    lastKey, \* keys made so far
    object,  \* month -> the object: the key it is sealed with (0: none), its time
    recorded,\* months with an archive_months row
    floor,   \* the history floor is at the end of Before
    requests,\* archive_deletions: [prefix, done]
    job,     \* the archive job's object under way [pc, m, key]
    deleter  \* the deleter's request under way [i, keys]

adVars == <<dataKey, lastKey, object, recorded, floor, requests, job, deleter>>

NoObject == [key |-> 0, at |-> 0]
NoJob == [pc |-> "idle", m |-> NoMonthId, key |-> 0]
NoDelete == [i |-> 0, keys |-> {}]
UserPrefix == Months

\* Deviation: a deletion that does not wait for an object being written.
NeverLocked == TRUE

\* lockArchiveUserTx: nobody is writing an object of the user.
UserLockFree == job.pc = "idle"

Request(prefix) == [prefix |-> prefix, done |-> FALSE]
CanQueue(n) == Len(requests) + n <= MaxReq

ADInit ==
    /\ dataKey = 0 /\ lastKey = 0 /\ recorded = {} /\ floor = FALSE
    /\ object = [m \in Months |-> NoObject]
    /\ requests = <<>> /\ job = NoJob /\ deleter = NoDelete

\* archiveOne: the data key, made on first use ...
JobStart(m) ==
    /\ job.pc = "idle" /\ m \notin recorded /\ ~ (floor /\ m \in Before)
    /\ IF dataKey = 0
       THEN lastKey < MaxKey /\ lastKey' = lastKey + 1 /\ dataKey' = lastKey'
       ELSE UNCHANGED <<dataKey, lastKey>>
    /\ job' = [pc |-> "put", m |-> m, key |-> dataKey']
    /\ UNCHANGED <<object, recorded, floor, requests, deleter>>

\* ... the upload ...
JobPut ==
    /\ job.pc = "put"
    /\ object' = [object EXCEPT ![job.m] = [key |-> job.key, at |-> Len(requests)]]
    /\ job' = [job EXCEPT !.pc = "record"]
    /\ UNCHANGED <<dataKey, lastKey, recorded, floor, requests, deleter>>

\* ... and the record.
JobRecord ==
    /\ job.pc = "record"
    /\ recorded' = recorded \cup {job.m}
    /\ job' = NoJob
    /\ UNCHANGED <<dataKey, lastKey, object, floor, requests, deleter>>

\* It fails or crashes; the lock goes with its connection.
JobFails ==
    /\ job.pc # "idle"
    /\ job' = NoJob
    /\ UNCHANGED <<dataKey, lastKey, object, recorded, floor, requests, deleter>>

\* Deviation: only recorded objects are asked for.
IfRecorded == recorded # {}

\* Only a user with a data key can have objects.
MayHaveObjects == dataKey # 0

\* ResetUserArchive, and the archive's part of deleting an account.
Reset ==
    /\ UserLockFree /\ CanQueue(1)
    /\ requests' = IF MayHaveObjects THEN Append(requests, Request(UserPrefix)) ELSE requests
    /\ recorded' = {} /\ dataKey' = 0
    /\ UNCHANGED <<lastKey, object, floor, job, deleter>>

\* DeleteUserArchiveBefore: a request for each month with a row.
DeleteBefore ==
    /\ UserLockFree /\ ~ floor /\ CanQueue(Cardinality(Before \cap recorded))
    /\ floor' = TRUE
    /\ requests' = requests \o SetToSeq({Request({m}) : m \in Before \cap recorded})
    /\ recorded' = recorded \ Before
    /\ UNCHANGED <<dataKey, lastKey, object, job, deleter>>

\* deletePrefix refuses a prefix that is not the user's own; it lists the objects
\* that were last written before the request ...
List(i) ==
    /\ deleter.i = 0 /\ i \in 1 .. Len(requests) /\ ~ requests[i].done
    /\ requests[i].prefix = UserPrefix
    /\ deleter' = [i |-> i, keys |-> {m \in Months : object[m].key # 0 /\ object[m].at < i}]
    /\ UNCHANGED <<dataKey, lastKey, object, recorded, floor, requests, job>>

\* ... deletes one after the other ...
DeleteObject(m) ==
    /\ m \in deleter.keys
    /\ object' = [object EXCEPT ![m] = NoObject]
    /\ deleter' = [deleter EXCEPT !.keys = @ \ {m}]
    /\ UNCHANGED <<dataKey, lastKey, recorded, floor, requests, job>>

\* ... and marks the request done.
MarkDone ==
    /\ deleter.i # 0 /\ deleter.keys = {}
    /\ requests' = [requests EXCEPT ![deleter.i].done = TRUE]
    /\ deleter' = NoDelete
    /\ UNCHANGED <<dataKey, lastKey, object, recorded, floor, job>>

\* The store fails, or the run dies before its commit: the request stays.
DeleteFails ==
    /\ deleter.i # 0
    /\ deleter' = NoDelete
    /\ UNCHANGED <<dataKey, lastKey, object, recorded, floor, requests, job>>

DeleteOn == MarkDone \/ \E m \in Months : DeleteObject(m)

ADNext ==
    \/ \E m \in Months : JobStart(m)
    \/ JobPut \/ JobRecord \/ JobFails
    \/ Reset \/ DeleteBefore
    \/ (\E i \in 1 .. MaxReq : List(i)) \/ DeleteOn \/ DeleteFails

\* The deleter runs every hour over all pending requests; the store works time
\* and again.
ADFairness ==
    /\ WF_adVars(\E i \in 1 .. MaxReq : List(i))
    /\ SF_adVars(DeleteOn)

ADSpec == ADInit /\ [][ADNext]_adVars /\ ADFairness

-----------------------------------------------------------------------------
\* An object that counts as verified is sealed with the user's key: none that was
\* begun before a reset is recorded after it.
RecordedIsReadable ==
    \A m \in recorded : object[m].key \in {0, dataKey}

\* Whatever fails, the objects that a reset or an account deletion leaves, recorded
\* or not, go in the end.
ShreddedIsGone ==
    ADFairness => []<>(\A m \in Months : object[m].key \in {0, dataKey})

\* The package comment of the deleter: "DeleteWithin is the promise for queued
\* archive deletions: the objects are gone within it."
RequestsAreServed ==
    \A i \in 1 .. MaxReq : i <= Len(requests) ~> (i <= Len(requests) /\ requests[i].done)
=============================================================================
