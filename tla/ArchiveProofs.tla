---------------------------- MODULE ArchiveProofs ----------------------------
(***************************************************************************)
(* The archive of a month proved for any rows, any number of open          *)
(* transactions, any choice of jobs and any number of bad uploads.         *)
(*                                                                         *)
(* None of the properties is inductive.  CleanMeansHeld needs what the job *)
(* of the archive has in hand while it works (Staged, Covers);             *)
(* ThinnedIsArchived needs that the object has no row which the database   *)
(* lacks when counts are compared (Backed); NothingLost and GoodCopy need  *)
(* which of the two copies is good at each step, and they hold only while  *)
(* no more than one upload was bad (Safe).                                 *)
(***************************************************************************)
EXTENDS Archive, ArchiveDeletion, NumberLemmas, FiniteSetTheorems, TLAPS

Tasks == [pc : TaskPCs, re : BOOLEAN, gen : Nat, rows : SUBSET Times]
MonthRows == [on : BOOLEAN, rows : {Stat(S) : S \in SUBSET Times}, flag : BOOLEAN,
              gen : Nat, hold : {"no", "held", "due"}]

\* The rows anywhere are finitely many.
FiniteRows ==
    /\ IsFiniteSet(db) /\ IsFiniteSet(obj.rows) /\ IsFiniteSet(new.rows)
    /\ IsFiniteSet(task.rows)

Clean == month.on /\ ~ month.flag
Archiving == task.pc \in {"put_new", "put_obj", "delete_new", "record"}
Made == [rows |-> task.rows, whole |-> TRUE]
Unlost == written \ unseen

\* The database has every row that the object has, for all the jobs know: the month
\* was never thinned, or was restored and not thinned since.
Full == ~ tier \/ month.hold # "no"

\* Retention dropped the month, and nobody writes to it any more.
Swept == db = {} /\ expired /\ Open = {}

-----------------------------------------------------------------------------
(***************************************************************************)
(* The operators.                                                          *)
(***************************************************************************)
\* Thinning keeps only rows that were there, and finitely many.
LEMMA ThinnedIsSubset ==
  ASSUME NEW S \in SUBSET Nat PROVE Thinned(S) \subseteq S /\ IsFiniteSet(Thinned(S))
  BY MinIs, FS_EmptySet, FS_Singleton DEF Thinned

\* Where one set of rows is part of another, their counts tell whether they are equal.
LEMMA StatExact ==
  ASSUME NEW S, IsFiniteSet(S), NEW T \in SUBSET S, Stat(S) = Stat(T)
  PROVE  S = T
<1>1. CASE S = {}
  BY <1>1
<1>2. CASE S # {} /\ T = {}
  <2>1. Stat(S)[1] = Cardinality(S) /\ Stat(T)[1] = 0
    BY <1>2 DEF Stat
  <2> QED BY <1>2, <2>1, FS_EmptySet
<1>3. CASE S # {} /\ T # {}
  <2>1. Stat(S)[1] = Cardinality(S) /\ Stat(T)[1] = Cardinality(T)
    BY <1>3 DEF Stat
  <2> QED BY <2>1, FS_Subset
<1> QED BY <1>1, <1>2, <1>3

-----------------------------------------------------------------------------
(***************************************************************************)
(* The invariant.                                                          *)
(***************************************************************************)
ArTypes ==
    /\ db \in SUBSET Times /\ written \in SUBSET Times /\ unseen \in SUBSET Times
    /\ part \in BOOLEAN /\ tier \in BOOLEAN /\ expired \in BOOLEAN /\ calm \in BOOLEAN
    /\ obj \in Copies /\ new \in Copies /\ bad \in 0 .. MaxBad
    /\ month \in MonthRows /\ task \in Tasks
    /\ writer \in [Times -> {"idle", "open", "nothing", "flagged"}]
    /\ month.hold # "no" => tier
    /\ FiniteRows

\* Only a month that is not clean is archived, and its generation only grows.
Replaces ==
    Archiving => /\ ~ Clean /\ db # {} /\ task.re = month.on
                 /\ task.gen <= month.gen
                 /\ ~ month.on => task.gen = month.gen

\* How far the job of the archive is, in the store.
Staged ==
    /\ task.pc = "put_new" => task.re /\ (obj.whole => task.rows \subseteq obj.rows \cup db)
    /\ task.pc = "put_obj" /\ task.re => new = Made
    /\ task.pc = "delete_new" => obj = Made /\ task.re
    /\ task.pc = "record" => obj = Made /\ ~ new.whole

\* What the job has in hand: all it can know of, nothing that the database lacks but
\* rows thinned away, and of those all that the store has.
Covers ==
    Archiving => /\ month.gen = task.gen => db \ unseen \subseteq task.rows
                 /\ Full => task.rows \subseteq db
                 /\ task.re /\ tier => Readable \subseteq task.rows

Restores == task.pc = "restore" => month.on /\ Copy.whole /\ task.rows = Copy.rows
Thins == task.pc = "thin" => ~ tier

\* Retention drops only what the store has; rows that it could not see apart.
Drops ==
    task.pc = "drop" =>
        /\ expired /\ part /\ Open \subseteq unseen
        /\ bad <= 1 => Unlost \subseteq Readable /\ (~ month.on => Unlost = {})

\* A clean month's object is whole, is what the row says, and has all rows but unseen.
CleanHeld ==
    Clean => /\ obj.whole /\ month.rows = Stat(obj.rows)
             /\ db \ unseen \subseteq obj.rows

\* There is no copy beside an object that is not being replaced ...
NoStray ==
    Clean \/ db = {} \/ ~ month.on \/ task.pc \in {"thin", "flag", "drop"} => ~ new.whole

\* ... and what is beside a good object is no more than that has and the database.
Beside == obj.whole /\ new.whole => new.rows \subseteq obj.rows \cup db

\* The database has what the store has, until the month is thinned or dropped.
Backed ==
    Full => \/ /\ obj.whole => obj.rows \subseteq db
               /\ new.whole => new.rows \subseteq db
            \/ Swept

\* Only an archived month is flagged or held back.
OnRows ==
    /\ (\E r \in Times : writer[r] = "flagged") => month.on
    /\ month.hold # "no" => month.on

\* While at most one upload was bad, one of the copies is good and nothing is lost.
Safe ==
    /\ month.on /\ ~ obj.whole => bad >= 1
    /\ bad <= 1 => /\ GoodCopy /\ NothingLost
                   /\ ~ month.on => Unlost \subseteq db
                   /\ ~ tier => Unlost \subseteq db \/ Swept

ArInv ==
    /\ ArTypes /\ Replaces /\ Staged /\ Covers /\ Restores /\ Thins /\ Drops
    /\ CleanHeld /\ NoStray /\ Beside /\ Backed /\ OnRows /\ Safe

\* The fields of the records are of their types.
LEMMA ArFields ==
  ASSUME ArTypes
  PROVE  /\ month.on \in BOOLEAN /\ month.flag \in BOOLEAN /\ month.gen \in Nat
         /\ month.hold \in {"no", "held", "due"}
         /\ task.pc \in TaskPCs /\ task.re \in BOOLEAN /\ task.gen \in Nat
         /\ task.rows \in SUBSET Times
         /\ obj.rows \in SUBSET Times /\ obj.whole \in BOOLEAN
         /\ new.rows \in SUBSET Times /\ new.whole \in BOOLEAN
         /\ Copy \in Copies /\ Copy.rows \in SUBSET Times /\ IsFiniteSet(Copy.rows)
         /\ bad \in Nat /\ MaxBad \in Nat /\ MaxGen \in Nat /\ Times \in SUBSET Nat
  BY TimesAssumption, BoundsAssumption
     DEF ArTypes, MonthRows, Tasks, Copies, Copy, FiniteRows

\* The task that is over, and the copy and the row that are not there.
LEMMA Nothings ==
  /\ NoTask \in Tasks /\ NoTask.pc = "idle" /\ NoTask.rows = {} /\ IsFiniteSet({})
  /\ Absent \in Copies /\ ~ Absent.whole /\ Absent.rows = {}
  /\ NoMonth \in MonthRows /\ ~ NoMonth.on /\ NoMonth.hold = "no" /\ NoMonth.gen = 0
  BY FS_EmptySet DEF NoTask, Tasks, TaskPCs, Absent, Copies, NoMonth, MonthRows

\* Flagging a row leaves the rest of it.
LEMMA FlaggedRow ==
  ASSUME ArTypes
  PROVE  /\ Flagged(month) \in MonthRows /\ Flagged(month).flag
         /\ Flagged(month).on = month.on /\ Flagged(month).hold = month.hold
         /\ Flagged(month).gen = month.gen + 1
<1>1. month \in MonthRows /\ month.gen + 1 \in Nat
  BY ArFields DEF ArTypes
<1>2. Flagged(month) = [month EXCEPT !.flag = TRUE, !.gen = month.gen + 1]
  BY <1>1 DEF Flagged, MonthRows
<1> QED BY <1>1, <1>2 DEF MonthRows

\* A step of the task leaves what it carries.
LEMMA Steps ==
  ASSUME ArTypes, NEW pc \in TaskPCs, Step(pc)
  PROVE  /\ task' \in Tasks /\ task'.pc = pc /\ task'.rows = task.rows
         /\ task'.re = task.re /\ task'.gen = task.gen
  BY DEF ArTypes, Tasks, Step

\* Before anything is written nothing can lack.
LEMMA ArInitInv == ArInit => ArInv
<1> SUFFICES ASSUME ArInit PROVE ArInv
  OBVIOUS
<1>1. ArTypes
  <2>1. bad \in 0 .. MaxBad
    BY BoundsAssumption DEF ArInit
  <2>2. FiniteRows /\ month.hold = "no"
    BY Nothings DEF ArInit, FiniteRows
  <2> QED BY <2>1, <2>2, Nothings DEF ArInit, ArTypes
<1> QED BY <1>1, Nothings
        DEF ArInit, ArInv, Replaces, Staged, Covers, Restores, Thins, Drops, CleanHeld,
            NoStray, Beside, Backed, OnRows, Safe, Archiving, Clean, Full, Swept, Unlost,
            GoodCopy, NothingLost, Open

(***************************************************************************)
(* Writers.                                                                *)
(***************************************************************************)
\* What the other parts of the invariant say of a task, a month or the copies does not
\* change where these do not.
LEMMA InsertStep == ASSUME ArInv, NEW r \in Times, Insert(r) PROVE ArInv'
<1>1. /\ ArTypes /\ ~ expired /\ UNCHANGED <<db, tier, expired, storeVars, month, task, written, unseen>>
      /\ part' = TRUE /\ writer' = [writer EXCEPT ![r] = "open"]
      /\ calm' = calm
  BY DEF ArInv, Insert
<1>2. ArTypes'
  BY <1>1 DEF ArTypes, FiniteRows, storeVars
<1>3. Backed' /\ Safe' /\ Drops'
  BY <1>1 DEF ArInv, Backed, Safe, Drops, Swept, Full, storeVars, Unlost, GoodCopy, NothingLost, Copy, Readable
<1>4. OnRows'
  BY <1>1 DEF ArInv, OnRows, ArTypes
<1> QED BY <1>1, <1>2, <1>3, <1>4
        DEF ArInv, Replaces, Staged, Covers, Restores, Thins, CleanHeld,
            NoStray, Beside, Archiving, Clean, Full, storeVars, Copy, Readable, Made

\* The UPDATE that flags a month, and the end of a transaction.
LEMMA MarkStep == ASSUME ArInv, NEW r \in Times, Mark(r) PROVE ArInv'
<1>1. /\ ArTypes /\ writer[r] = "open"
      /\ UNCHANGED <<dbVars, storeVars, month, task, written, unseen>>
      /\ \/ writer' = [writer EXCEPT ![r] = "flagged"] /\ month.on
         \/ writer' = [writer EXCEPT ![r] = "nothing"]
  BY DEF ArInv, Mark
<1>2. ArTypes'
  BY <1>1 DEF ArTypes, FiniteRows, storeVars, dbVars
<1>3. Open' = Open
  BY <1>1 DEF Open, ArTypes
<1>4. OnRows'
  BY <1>1 DEF ArInv, OnRows, ArTypes
<1> QED BY <1>1, <1>2, <1>3, <1>4
        DEF ArInv, Replaces, Staged, Covers, Restores, Thins, Drops, CleanHeld, NoStray,
            Beside, Backed, Safe, Archiving, Clean, Full, Swept, Unlost, GoodCopy,
            NothingLost, dbVars, storeVars, Copy, Readable, Made

\* A transaction that is rolled back leaves no row and no flag.
LEMMA RollBackStep == ASSUME ArInv, NEW r \in Times, RollBack(r) PROVE ArInv'
<1>1. /\ ArTypes /\ UNCHANGED <<dbVars, storeVars, month, task, written, unseen>>
      /\ writer' = [writer EXCEPT ![r] = "idle"]
  BY DEF ArInv, RollBack
<1>2. ArTypes'
  BY <1>1 DEF ArTypes, FiniteRows, storeVars, dbVars
<1>3. Open' \subseteq Open
  BY <1>1 DEF Open, ArTypes
<1>4. OnRows'
  BY <1>1 DEF ArInv, OnRows, ArTypes
<1> QED BY <1>1, <1>2, <1>3, <1>4
        DEF ArInv, Replaces, Staged, Covers, Restores, Thins, Drops, CleanHeld, NoStray,
            Beside, Backed, Safe, Archiving, Clean, Full, Swept, Unlost, GoodCopy,
            NothingLost, dbVars, storeVars, Copy, Readable, Made

\* A row is committed: the month is flagged, or the row is unseen, or a first archive
\* has yet to look.
LEMMA CommitRowStep == ASSUME ArInv, NEW r \in Times, CommitRow(r) PROVE ArInv'
<1>1. /\ ArTypes /\ r \in Open
      /\ UNCHANGED <<part, tier, expired, calm, storeVars, task>>
      /\ db' = db \cup {r} /\ written' = written \cup {r}
      /\ writer' = [writer EXCEPT ![r] = "idle"]
  BY DEF ArInv, CommitRow, Open
<1>2. \/ /\ writer[r] = "flagged" /\ month.on
         /\ month' = Flagged(month) /\ unseen' = unseen
      \/ /\ writer[r] = "nothing" /\ month' = month
         /\ IF month.on \/ task.pc \in {"put_obj", "record"} THEN unseen' = unseen \cup {r}
            ELSE unseen' = unseen
  BY DEF CommitRow, ArInv, OnRows
<1>3. /\ month' \in MonthRows /\ month'.hold = month.hold /\ month'.on = month.on
      /\ month' = month \/ (month'.flag /\ month'.gen = month.gen + 1 /\ month.on)
  BY <1>1, <1>2, FlaggedRow DEF ArTypes
<1>4. /\ unseen \subseteq unseen' /\ unseen' \subseteq unseen \cup {r}
      /\ month'.gen = month.gen /\ (month.on \/ task.pc \in {"put_obj", "record"}) =>
           unseen' = unseen \cup {r}
  BY <1>1, <1>2, FlaggedRow, ArFields
<1>5. Open' = Open \ {r}
  BY <1>1 DEF Open, ArTypes
<1>6. ArTypes'
  BY <1>1, <1>3, <1>4, FS_AddElement DEF ArTypes, FiniteRows, storeVars
<1>7. Copy' = Copy /\ Readable' = Readable
  BY <1>1 DEF Copy, Readable, storeVars
<1>8. Replaces'
  BY <1>1, <1>3, ArFields DEF ArInv, Replaces, Archiving, Clean
<1>9. Staged' /\ Restores' /\ Thins'
  BY <1>1, <1>3, <1>7 DEF ArInv, Staged, Restores, Thins, Made, storeVars
<1>10. Covers'
  <2> SUFFICES ASSUME Archiving PROVE Covers'
    BY <1>1 DEF Covers, Archiving
  <2>1. Full' => task.rows \subseteq db'
    BY <1>1, <1>3 DEF ArInv, Covers, Full
  <2>2. ASSUME month'.gen = task.gen PROVE db' \ unseen' \subseteq task.rows
    <3>1. month'.gen = month.gen
      BY <1>3, <2>2, ArFields, <1>1 DEF ArInv, Replaces
    <3>2. month.on \/ task.pc \in {"put_obj", "record"}
      BY DEF ArInv, Archiving, Replaces, Staged
    <3> QED BY <1>1, <1>4, <2>2, <3>1, <3>2 DEF ArInv, Covers
  <2> QED BY <1>1, <1>7, <2>1, <2>2 DEF ArInv, Covers
<1>11. Drops'
  BY <1>1, <1>3, <1>4, <1>5, <1>7 DEF ArInv, Drops, Unlost, storeVars
<1>12. CleanHeld'
  <2> SUFFICES ASSUME Clean' PROVE CleanHeld'
    BY DEF CleanHeld
  <2>1. month' = month /\ Clean
    BY <1>3 DEF Clean
  <2>2. unseen' = unseen \cup {r}
    BY <1>4, <2>1 DEF Clean
  <2> QED BY <1>1, <2>1, <2>2 DEF ArInv, CleanHeld, storeVars
<1>13. NoStray' /\ Beside' /\ OnRows'
  BY <1>1, <1>3 DEF ArInv, NoStray, Beside, OnRows, Clean, storeVars, ArTypes
<1>14. Backed'
  BY <1>1, <1>3 DEF ArInv, Backed, Full, Swept, storeVars
<1>15. Safe'
  BY <1>1, <1>3, <1>4, <1>5, <1>7
     DEF ArInv, Safe, GoodCopy, NothingLost, Unlost, Swept, storeVars
<1> QED BY <1>6, <1>8, <1>9, <1>10, <1>11, <1>12, <1>13, <1>14, <1>15 DEF ArInv

(***************************************************************************)
(* The archive job.                                                        *)
(***************************************************************************)
LEMMA SnapshotStep == ASSUME ArInv, Snapshot PROVE ArInv'
<1> DEFINE new_ == [pc |-> FirstPut(month.on), re |-> month.on, gen |-> month.gen,
                    rows |-> Source(month.on)]
<1>1. /\ ArTypes /\ task.pc = "idle" /\ db # {} /\ ~ Clean
      /\ month.on /\ tier => Copy.whole
      /\ UNCHANGED <<dbVars, storeVars, month, writer, written, unseen>>
  BY DEF ArInv, Snapshot, Pending, Clean
<1>2. /\ task'.pc = FirstPut(month.on) /\ task'.re = month.on
      /\ task'.gen = month.gen /\ task'.rows = Source(month.on)
  BY DEF Snapshot
<1>3. Copy' = Copy /\ Readable' = Readable /\ Open' = Open
  BY <1>1 DEF Copy, Readable, Open, storeVars
\* What it takes along: the database, and of a thinned month the object too.
<1>4. /\ Source(month.on) \in SUBSET Times /\ IsFiniteSet(Source(month.on))
      /\ db \subseteq Source(month.on) /\ Source(month.on) \subseteq Copy.rows \cup db
      /\ ~ (month.on /\ tier) => Source(month.on) = db
  BY <1>1, ArFields, FS_Union DEF Source, ArTypes, FiniteRows
<1>5. FirstPut(month.on) = IF month.on THEN "put_new" ELSE "put_obj"
  BY DEF FirstPut
<1>6. ArTypes'
  <2>1. task' \in Tasks
    <3>1. new_ \in Tasks
      <4> HIDE DEF new_
      <4>1. FirstPut(month.on) \in TaskPCs
        BY <1>5 DEF TaskPCs
      <4> QED BY <1>1, <1>4, <4>1, ArFields DEF new_, Tasks
    <3> QED BY <3>1 DEF Snapshot
  <2> QED BY <1>1, <1>2, <1>4, <2>1 DEF ArTypes, FiniteRows, dbVars, storeVars
<1>7. Replaces' /\ Restores' /\ Thins' /\ Drops'
  BY <1>1, <1>2, <1>5, ArFields
     DEF Replaces, Restores, Thins, Drops, Archiving, Clean, dbVars
<1>8. Staged'
  BY <1>1, <1>2, <1>4, <1>5, ArFields DEF Staged, Copy, storeVars, dbVars
<1>9. Covers'
  <2>1. Full => Source(month.on) \subseteq db
    <3>1. CASE month.on /\ tier
      <4>1. Full => Copy.rows \subseteq db \/ Swept
        BY <1>1, <3>1 DEF ArInv, Backed, Copy
      <4> QED BY <1>1, <1>4, <4>1 DEF Swept
    <3>2. CASE ~ (month.on /\ tier)
      BY <1>4, <3>2
    <3> QED BY <3>1, <3>2
  <2>2. month.on /\ tier => Readable \subseteq Source(month.on)
    BY <1>1, <1>4 DEF Readable, Source
  <2> QED BY <1>1, <1>2, <1>3, <1>4, <2>1, <2>2 DEF Covers, Full, dbVars
<1> QED BY <1>1, <1>2, <1>3, <1>5, <1>6, <1>7, <1>8, <1>9
        DEF ArInv, CleanHeld, NoStray, Beside, Backed, OnRows, Safe, Clean, Full, Swept,
            Unlost, GoodCopy, NothingLost, dbVars, storeVars

\* The copy beside: the object it is to replace is still there.
LEMMA PutNewStep == ASSUME ArInv, PutNew PROVE ArInv'
<1>1. /\ ArTypes /\ task.pc = "put_new" /\ Archiving /\ task.re /\ month.on /\ ~ Clean
      /\ db # {}
      /\ UNCHANGED <<dbVars, obj, month, writer, written, unseen>>
  BY DEF ArInv, PutNew, Archiving, Staged, Replaces
<1>2. PICK whole \in BOOLEAN : /\ Upload(whole)
                               /\ new' = [rows |-> task.rows, whole |-> whole]
                               /\ IF whole THEN Step("put_obj") ELSE Done
  BY DEF PutNew
<1>3. /\ bad' \in 0 .. MaxBad /\ bad' = (IF whole THEN bad ELSE bad + 1)
      /\ bad' \in Nat /\ bad \in Nat
  BY <1>1, <1>2, ArFields DEF Upload, ArTypes
<1>4. new'.rows = task.rows /\ new'.whole = whole
  BY <1>2
<1>5. /\ task' \in Tasks /\ IsFiniteSet(task'.rows)
      /\ IF whole THEN task'.pc = "put_obj" /\ task'.rows = task.rows
                       /\ task'.re = task.re /\ task'.gen = task.gen
         ELSE task'.pc = "idle"
  BY <1>1, <1>2, Steps, Nothings DEF Done, TaskPCs, ArTypes, FiniteRows
<1>6. ArTypes'
  <2>1. new' \in Copies
    BY <1>2, ArFields, <1>1 DEF Copies
  <2> QED BY <1>1, <1>3, <1>4, <1>5, <2>1 DEF ArTypes, FiniteRows, dbVars
<1>7. Replaces' /\ Restores' /\ Thins' /\ Drops'
  BY <1>1, <1>5 DEF ArInv, Replaces, Restores, Thins, Drops, Archiving, Clean, dbVars
<1>8. Staged' /\ Beside'
  BY <1>1, <1>2, <1>4, <1>5 DEF ArInv, Staged, Beside, Made, dbVars
\* What can be read: the object as before, or the copy that was written.
<1>9. /\ obj.whole => Readable' = Readable /\ Readable = obj.rows
      /\ ~ obj.whole /\ whole => Readable' = task.rows
  BY <1>1, <1>4 DEF Readable, Copy
<1>10. Covers'
  BY <1>1, <1>4, <1>5, <1>9 DEF ArInv, Covers, Full, Archiving, dbVars
<1>11. CleanHeld' /\ NoStray' /\ OnRows'
  BY <1>1, <1>5 DEF ArInv, CleanHeld, NoStray, OnRows, Clean, dbVars
<1>12. Backed'
  <2>1. Full => task.rows \subseteq db
    BY <1>1 DEF ArInv, Covers
  <2> QED BY <1>1, <1>4, <2>1 DEF ArInv, Backed, Full, Swept, Open, dbVars
<1>13. Safe'
  <2>1. month.on /\ ~ obj.whole => bad' >= 1
    BY <1>3 DEF ArInv, Safe
  <2>2. ASSUME bad' <= 1 PROVE bad <= 1 /\ (obj.whole \/ whole)
    BY <1>1, <1>3, <2>2 DEF ArInv, Safe
  <2>3. ASSUME bad' <= 1 PROVE Unlost \subseteq db \cup Readable'
    <3>1. CASE obj.whole
      BY <1>9, <2>2, <2>3, <3>1 DEF ArInv, Safe, NothingLost, Unlost
    <3>2. CASE ~ obj.whole /\ tier
      BY <1>1, <1>9, <2>2, <2>3, <3>2 DEF ArInv, Safe, NothingLost, Unlost, Covers
    <3>3. CASE ~ tier
      BY <1>1, <2>2, <2>3, <3>3 DEF ArInv, Safe, Swept
    <3> QED BY <3>1, <3>2, <3>3
  <2>4. Open' = Open
    BY <1>1 DEF Open
  <2> QED BY <1>1, <1>4, <2>1, <2>2, <2>3, <2>4
       DEF ArInv, Safe, GoodCopy, NothingLost, Unlost, Swept, Copy, dbVars
<1> QED BY <1>6, <1>7, <1>8, <1>10, <1>11, <1>12, <1>13 DEF ArInv

\* The object itself: the copy beside it is whole by now, or the month is new.
LEMMA PutObjStep == ASSUME ArInv, PutObj PROVE ArInv'
<1>1. /\ ArTypes /\ task.pc = "put_obj" /\ Archiving /\ task.re = month.on /\ ~ Clean
      /\ db # {}
      /\ UNCHANGED <<dbVars, new, month, writer, written, unseen>>
  BY DEF ArInv, PutObj, Archiving, Replaces
<1>2. PICK whole \in BOOLEAN :
        /\ Upload(whole)
        /\ obj' = [rows |-> task.rows, whole |-> whole]
        /\ IF whole THEN Step(IF task.re THEN "delete_new" ELSE "record") ELSE Done
  BY DEF PutObj
<1>3. /\ bad' \in 0 .. MaxBad /\ bad' = (IF whole THEN bad ELSE bad + 1)
      /\ bad' \in Nat /\ bad \in Nat
  BY <1>1, <1>2, ArFields DEF Upload, ArTypes
<1>4. obj'.rows = task.rows /\ obj'.whole = whole
  BY <1>2
<1>5. /\ task' \in Tasks /\ IsFiniteSet(task'.rows)
      /\ IF whole THEN /\ task'.pc = IF task.re THEN "delete_new" ELSE "record"
                       /\ task'.rows = task.rows
                       /\ task'.re = task.re /\ task'.gen = task.gen
         ELSE task'.pc = "idle"
  BY <1>1, <1>2, Steps, Nothings DEF Done, TaskPCs, ArTypes, FiniteRows
<1>6. ArTypes'
  <2>1. obj' \in Copies
    BY <1>2, ArFields, <1>1 DEF Copies
  <2> QED BY <1>1, <1>3, <1>4, <1>5, <2>1 DEF ArTypes, FiniteRows, dbVars
<1>7. Replaces' /\ Restores' /\ Thins' /\ Drops'
  BY <1>1, <1>5 DEF ArInv, Replaces, Restores, Thins, Drops, Archiving, Clean, dbVars
\* The copy beside it is the same, or there is none.
<1>8. IF month.on THEN new.rows = task.rows /\ new.whole ELSE ~ new.whole
  BY <1>1 DEF ArInv, Staged, NoStray, Made
<1>9. Staged' /\ Beside'
  BY <1>1, <1>2, <1>4, <1>5, <1>8 DEF ArInv, Staged, Beside, Made, dbVars
<1>10. month.on => Readable' = task.rows /\ Copy'.whole
  BY <1>1, <1>4, <1>8 DEF Readable, Copy
<1>11. Covers'
  BY <1>1, <1>4, <1>5, <1>10 DEF ArInv, Covers, Full, Archiving, dbVars
<1>12. CleanHeld' /\ NoStray' /\ OnRows'
  BY <1>1, <1>5, <1>8 DEF ArInv, CleanHeld, NoStray, OnRows, Clean, dbVars
<1>13. Backed'
  <2>1. Full => task.rows \subseteq db
    BY <1>1 DEF ArInv, Covers
  <2> QED BY <1>1, <1>4, <2>1 DEF ArInv, Backed, Full, Swept, Open, dbVars
<1>14. Safe'
  <2>1. month.on /\ ~ whole => bad' >= 1
    BY <1>3
  <2>2. ASSUME bad' <= 1 PROVE Unlost \subseteq db \cup Readable'
    <3>1. bad <= 1
      BY <1>3, <2>2
    <3>2. CASE ~ month.on
      BY <3>1, <3>2 DEF ArInv, Safe
    <3>3. CASE month.on /\ tier
      BY <1>1, <1>10, <3>1, <3>3 DEF ArInv, Safe, NothingLost, Unlost, Covers
    <3>4. CASE ~ tier
      BY <1>1, <3>1, <3>4 DEF ArInv, Safe, Swept
    <3> QED BY <3>2, <3>3, <3>4
  <2>3. Open' = Open
    BY <1>1 DEF Open
  <2> QED BY <1>1, <1>3, <1>4, <1>10, <2>1, <2>2, <2>3
       DEF ArInv, Safe, GoodCopy, NothingLost, Unlost, Swept, dbVars
<1> QED BY <1>6, <1>7, <1>9, <1>11, <1>12, <1>13, <1>14 DEF ArInv

\* The copy beside goes when the object has been read back with the same rows.
LEMMA DeleteNewStep == ASSUME ArInv, DeleteNew PROVE ArInv'
<1>1. /\ ArTypes /\ task.pc = "delete_new" /\ Archiving /\ obj.whole
      /\ UNCHANGED <<dbVars, obj, bad, month, writer, written, unseen>>
      /\ new' = Absent /\ ~ new'.whole
  BY Nothings DEF ArInv, DeleteNew, Archiving, Staged, Made
<1>2. /\ task' \in Tasks /\ task'.pc = "record" /\ task'.rows = task.rows
      /\ task'.re = task.re /\ task'.gen = task.gen
  BY <1>1, Steps DEF DeleteNew, TaskPCs
<1>3. ArTypes'
  BY <1>1, <1>2, Nothings DEF ArTypes, FiniteRows, dbVars
<1>4. Copy' = Copy /\ Readable' = Readable /\ Open' = Open
  BY <1>1 DEF Copy, Readable, Open
<1>5. Replaces' /\ Staged' /\ Covers' /\ Restores' /\ Thins' /\ Drops'
  BY <1>1, <1>2, <1>4
     DEF ArInv, Replaces, Staged, Covers, Restores, Thins, Drops, Archiving, Clean, Full,
         Made, dbVars
<1> QED BY <1>1, <1>2, <1>3, <1>4, <1>5
        DEF ArInv, CleanHeld, NoStray, Beside, Backed, OnRows, Safe, Clean, Full, Swept,
            Unlost, GoodCopy, NothingLost, dbVars

\* The record: the month is clean if nothing flagged it since the snapshot, and then
\* the object has what was there.
LEMMA RecordStep == ASSUME ArInv, Record PROVE ArInv'
<1>1. /\ ArTypes /\ task.pc = "record" /\ Archiving /\ ~ Clean /\ db # {}
      /\ obj.whole /\ obj.rows = task.rows /\ ~ new.whole
      /\ UNCHANGED <<dbVars, storeVars, writer, written>>
      /\ unseen' = unseen \ task.rows /\ task' = NoTask
  BY DEF ArInv, Record, Archiving, Staged, Made, Replaces, Done
<1>2. month' = [month EXCEPT !.on = TRUE, !.rows = Stat(task.rows),
                             !.flag = month.on /\ StillFlagged(task.gen)]
  BY <1>1 DEF Record, Clean
<1>3. /\ month' \in MonthRows /\ month'.on /\ month'.rows = Stat(obj.rows)
      /\ month'.hold = month.hold
      /\ ~ month'.flag => month.gen = task.gen
  <2>1. month \in MonthRows /\ task.rows \in SUBSET Times
    BY <1>1, ArFields DEF ArTypes
  <2>2. month' \in MonthRows
    BY <1>2, <2>1 DEF MonthRows, StillFlagged
  <2>3. ~ month.on => month.gen = task.gen
    BY <1>1 DEF ArInv, Replaces
  <2> QED BY <1>1, <1>2, <2>1, <2>2, <2>3 DEF MonthRows, StillFlagged
<1>4. ArTypes'
  BY <1>1, <1>3, Nothings DEF ArTypes, FiniteRows, dbVars, storeVars
<1>5. Copy' = Copy /\ Readable' = Readable /\ Readable = task.rows /\ Open' = Open
  BY <1>1 DEF Copy, Readable, Open, storeVars
<1>6. Replaces' /\ Staged' /\ Covers' /\ Restores' /\ Thins' /\ Drops'
  BY <1>1, Nothings
     DEF Replaces, Staged, Covers, Restores, Thins, Drops, Archiving
<1>7. CleanHeld'
  BY <1>1, <1>3 DEF ArInv, CleanHeld, Clean, Covers, storeVars, dbVars
<1>8. NoStray' /\ Beside' /\ OnRows'
  BY <1>1, <1>3 DEF ArInv, NoStray, Beside, OnRows, storeVars, dbVars
<1>9. Backed'
  BY <1>1, <1>3, <1>5 DEF ArInv, Backed, Full, Swept, storeVars, dbVars
<1>10. Safe'
  <2>1. Full => task.rows \subseteq db
    BY <1>1 DEF ArInv, Covers
  <2> QED BY <1>1, <1>3, <1>5, <2>1
       DEF ArInv, Safe, GoodCopy, NothingLost, Unlost, Swept, Full, storeVars, dbVars, Copy
<1> QED BY <1>4, <1>6, <1>7, <1>8, <1>9, <1>10 DEF ArInv

(***************************************************************************)
(* Thinning.                                                               *)
(***************************************************************************)
\* What takes rows from a database whose month is clean, and never was thinned or was
\* restored in full, finds all of them in the object.
LEMMA ExactIsCovered ==
  ASSUME ArInv, Full, Clean, month.rows = Stat(db), db # {}
  PROVE  obj.whole /\ obj.rows = db /\ Readable = db
<1>1. obj.whole /\ month.rows = Stat(obj.rows) /\ IsFiniteSet(db)
  BY DEF ArInv, CleanHeld, ArTypes, FiniteRows
<1>2. obj.rows \subseteq db
  BY <1>1 DEF ArInv, Backed, Swept
<1>3. obj.rows = db
  <2>1. obj.rows \in SUBSET db /\ Stat(db) = Stat(obj.rows)
    BY <1>1, <1>2
  <2> QED BY <1>1, <2>1, StatExact
<1> QED BY <1>1, <1>3 DEF Readable, Copy

\* The first look of the thinning decides nothing.
LEMMA ThinCheckStep == ASSUME ArInv, ThinCheck PROVE ArInv'
<1>1. /\ ArTypes /\ task.pc = "idle" /\ ~ tier /\ (db = {} \/ Clean)
      /\ UNCHANGED <<dbVars, storeVars, month, writer, written, unseen>>
  BY DEF ArInv, ThinCheck, MonthArchived, Clean
<1>2. task' \in Tasks /\ task'.pc = "thin" /\ task'.rows = task.rows
  BY <1>1, Steps DEF ThinCheck, TaskPCs
<1>3. ArTypes'
  BY <1>1, <1>2 DEF ArTypes, FiniteRows, dbVars, storeVars
<1>4. Copy' = Copy /\ Readable' = Readable /\ Open' = Open
  BY <1>1 DEF Copy, Readable, Open, storeVars
<1> QED BY <1>1, <1>2, <1>3, <1>4
        DEF ArInv, Replaces, Staged, Covers, Restores, Thins, Drops, Archiving, CleanHeld,
            NoStray, Beside, Backed, OnRows, Safe, Clean, Full, Swept, Unlost, GoodCopy,
            NothingLost, dbVars, storeVars

\* The swap and the end of a hold: rows go that the object has.
LEMMA RowsGo ==
  ASSUME ArInv, UNCHANGED <<part, expired, calm, storeVars, writer, written, unseen>>,
         db' = Thinned(db), tier' \in BOOLEAN, month' \in MonthRows,
         task' \in {NoTask, task}, task'.pc = "idle",
         month' = [month EXCEPT !.hold = month'.hold],
         tier => tier', month'.hold = "no", ~ (db = {}) => tier',
         db = {} \/ (Clean /\ month.rows = Stat(db) /\ Full)
  PROVE  ArInv'
<1>1. /\ ArTypes /\ db' \in SUBSET Times /\ db' \subseteq db /\ IsFiniteSet(db')
      /\ db = {} => db' = {}
  BY ThinnedIsSubset, ArFields DEF ArInv, ArTypes
<1>2. /\ month'.on = month.on /\ month'.flag = month.flag /\ month'.gen = month.gen
      /\ month'.rows = month.rows
  BY <1>1 DEF ArTypes, MonthRows
<1>3. ArTypes'
  BY <1>1, Nothings DEF ArTypes, FiniteRows, storeVars
<1>4. Copy' = Copy /\ Readable' = Readable /\ Open' = Open
  BY DEF Copy, Readable, Open, storeVars
<1>5. Replaces' /\ Staged' /\ Covers' /\ Restores' /\ Thins' /\ Drops'
  BY DEF Replaces, Staged, Covers, Restores, Thins, Drops, Archiving
<1>6. db \ db' \subseteq Readable
  BY <1>1, ExactIsCovered
<1>7. CleanHeld' /\ OnRows'
  BY <1>1, <1>2 DEF ArInv, CleanHeld, OnRows, Clean, storeVars
<1>8. NoStray' /\ Beside'
  <2>1. ~ new.whole
    BY DEF ArInv, NoStray
  <2> QED BY <2>1 DEF NoStray, Beside, storeVars
<1>9. Backed'
  <2>1. CASE db = {}
    <3>1. Full' => Full
      BY DEF Full
    <3> QED BY <1>1, <1>4, <2>1, <3>1 DEF ArInv, Backed, Swept, storeVars
  <2>2. CASE ~ (db = {})
    BY <2>2 DEF Backed, Full
  <2> QED BY <2>1, <2>2
<1>10. Safe'
  <2>1. ~ tier' => db' = db
    BY <1>1
  <2>2. ~ month.on => db' = db
    BY <1>1 DEF Clean
  <2> QED BY <1>2, <1>4, <1>6, <2>1, <2>2
       DEF ArInv, Safe, GoodCopy, NothingLost, Unlost, Swept, storeVars
<1> QED BY <1>3, <1>5, <1>7, <1>8, <1>9, <1>10 DEF ArInv

\* The swap takes only rows that the object is known to have.
LEMMA ThinSwapStep ==
  ASSUME ArInv, ThinSwap
  PROVE  ArInv' /\ db \ db' \subseteq Readable
<1>1. /\ ArTypes /\ task.pc = "thin" /\ ~ tier
      /\ UNCHANGED <<part, expired, calm, storeVars, month, writer, written, unseen>>
  BY DEF ArInv, ThinSwap, Thins
<1>2. CASE MonthArchivedExact
  <2>1. /\ db' = Thinned(db) /\ tier' = TRUE /\ task' = NoTask
        /\ db = {} \/ (Clean /\ month.rows = Stat(db) /\ Full)
    BY <1>1, <1>2 DEF ThinSwap, MonthArchivedExact, MonthArchived, Clean, Full, Done
  <2>2. month.hold = "no" /\ month \in MonthRows
    BY <1>1 DEF ArTypes
  <2>3. month' = [month EXCEPT !.hold = month'.hold]
    BY <1>1, <2>2 DEF MonthRows
  <2>4. ArInv'
    BY <1>1, <2>1, <2>2, <2>3, Nothings, RowsGo
  <2>5. db = {} => db' \subseteq db
    BY <2>1 DEF Thinned
  <2> QED BY <2>1, <2>4, <2>5, ExactIsCovered
<1>3. CASE ~ MonthArchivedExact
  <2>1. /\ db' = db /\ tier' = tier
        /\ task' \in Tasks /\ task'.pc = "flag" /\ task'.rows = task.rows
    BY <1>1, <1>3, Steps DEF ThinSwap, TaskPCs
  <2>2. ArTypes'
    BY <1>1, <2>1 DEF ArTypes, FiniteRows, storeVars
  <2>3. Copy' = Copy /\ Readable' = Readable /\ Open' = Open
    BY <1>1 DEF Copy, Readable, Open, storeVars
  <2> QED BY <1>1, <2>1, <2>2, <2>3
       DEF ArInv, Replaces, Staged, Covers, Restores, Thins, Drops, Archiving, CleanHeld,
           NoStray, Beside, Backed, OnRows, Safe, Clean, Full, Swept, Unlost, GoodCopy,
           NothingLost, storeVars
<1> QED BY <1>2, <1>3

\* A row that is flagged while no archive is under way.
LEMMA FlagRow ==
  ASSUME ArInv, UNCHANGED <<dbVars, storeVars, writer, written, unseen>>,
         month' = Flagged(month), month.on, task' \in {NoTask, task}, task'.pc = "idle"
  PROVE  ArInv'
<1>1. ArTypes /\ month' \in MonthRows /\ month'.flag /\ month'.on = month.on
      /\ month'.hold = month.hold
  BY FlaggedRow DEF ArInv
<1>2. ArTypes'
  BY <1>1, Nothings DEF ArTypes, FiniteRows, dbVars, storeVars
<1>3. Copy' = Copy /\ Readable' = Readable /\ Open' = Open
  BY DEF Copy, Readable, Open, storeVars
<1> QED BY <1>1, <1>2, <1>3, Nothings
        DEF ArInv, Replaces, Staged, Covers, Restores, Thins, Drops, Archiving, CleanHeld,
            NoStray, Beside, Backed, OnRows, Safe, Clean, Full, Swept, Unlost, GoodCopy,
            NothingLost, dbVars, storeVars

\* The end of a task that leaves everything as it is.
LEMMA TaskEnds ==
  ASSUME ArInv, UNCHANGED <<dbVars, storeVars, month, writer, written, unseen>>,
         task' = NoTask
  PROVE  ArInv'
<1>1. ArTypes'
  BY Nothings DEF ArInv, ArTypes, FiniteRows, dbVars, storeVars
<1>2. Copy' = Copy /\ Readable' = Readable /\ Open' = Open
  BY DEF Copy, Readable, Open, storeVars
<1> QED BY <1>1, <1>2, Nothings
        DEF ArInv, Replaces, Staged, Covers, Restores, Thins, Drops, Archiving, CleanHeld,
            NoStray, Beside, Backed, OnRows, Safe, Clean, Full, Swept, Unlost, GoodCopy,
            NothingLost, dbVars, storeVars

\* A refused thinning flags the month; that takes no row away.
LEMMA FlagRefusedStep == ASSUME ArInv, FlagRefused PROVE ArInv'
<1>1. CASE db # {} /\ Mismatch
  BY <1>1, FlagRow, Nothings DEF FlagRefused, FlagMismatched, Mismatch, Done
<1>2. CASE ~ (db # {} /\ Mismatch)
  BY <1>2, TaskEnds DEF FlagRefused, FlagMismatched, Done
<1> QED BY <1>1, <1>2

\* A restored month whose hold is over has its rows in the object still.
LEMMA RethinStep ==
  ASSUME ArInv, Rethin
  PROVE  ArInv' /\ db \ db' \subseteq Readable
<1>1. /\ ArTypes /\ task.pc = "idle" /\ month.hold = "due" /\ month.on /\ tier /\ Full
      /\ UNCHANGED <<part, tier, expired, calm, storeVars, writer, written, unseen, task>>
  BY DEF ArInv, Rethin, ArTypes, OnRows, Full
<1>2. CASE part /\ Mismatch /\ month' = Flagged(month) /\ UNCHANGED db
  BY <1>1, <1>2, FlagRow DEF dbVars
<1>3. CASE /\ ~ part \/ (~ month.flag /\ ~ Mismatch)
           /\ db' = IF part THEN Thinned(db) ELSE db
           /\ month' = [month EXCEPT !.hold = "no"]
  <2>1. month' \in MonthRows /\ month'.hold = "no" /\ month'.on = month.on
        /\ month'.flag = month.flag /\ month'.rows = month.rows /\ month'.gen = month.gen
    BY <1>1, <1>3 DEF ArTypes, MonthRows
  <2>2. Copy' = Copy /\ Readable' = Readable /\ Open' = Open
    BY <1>1 DEF Copy, Readable, Open, storeVars
  <2>3. CASE db' = db
    <3>1. ArTypes'
      BY <1>1, <2>1, <2>3 DEF ArTypes, FiniteRows, storeVars
    <3> QED BY <1>1, <2>1, <2>2, <2>3, <3>1
         DEF ArInv, Replaces, Staged, Covers, Restores, Thins, Drops, Archiving, CleanHeld,
             NoStray, Beside, Backed, OnRows, Safe, Clean, Full, Swept, Unlost, GoodCopy,
             NothingLost, storeVars
  <2>4. CASE part /\ db' = Thinned(db)
    <3>1. Clean /\ month.rows = Stat(db)
      BY <1>1, <1>3, <2>4 DEF Clean, Mismatch
    <3>2. month' = [month EXCEPT !.hold = month'.hold] /\ tier' \in BOOLEAN
      BY <1>1, <1>3, <2>1 DEF ArTypes
    <3>3. ArInv'
      BY <1>1, <2>1, <2>4, <3>1, <3>2, RowsGo
    <3>4. db = {} => db' = {}
      BY <2>4 DEF Thinned
    <3> QED BY <1>1, <3>1, <3>3, <3>4, ExactIsCovered
  <2> QED BY <1>3, <2>3, <2>4
<1> QED BY <1>2, <1>3 DEF Rethin

(***************************************************************************)
(* Retention, the restore, and the rest.                                   *)
(***************************************************************************)
\* When retention asks the archive, the store has all that nobody is writing.
LEMMA SweepCheckStep == ASSUME ArInv, SweepCheck PROVE ArInv'
<1>1. /\ ArTypes /\ task.pc = "idle" /\ part /\ expired /\ (db = {} \/ Clean)
      /\ UNCHANGED <<dbVars, storeVars, month, writer, written>>
      /\ unseen' = unseen \cup Open
  BY DEF ArInv, SweepCheck, MonthArchived, Clean
<1>2. task' \in Tasks /\ task'.pc = "drop" /\ task'.rows = task.rows
  BY <1>1, Steps DEF SweepCheck, TaskPCs
<1>3. ArTypes'
  BY <1>1, <1>2 DEF ArTypes, FiniteRows, dbVars, storeVars, Open
<1>4. Copy' = Copy /\ Readable' = Readable /\ Open' = Open
  BY <1>1 DEF Copy, Readable, Open, storeVars
<1>5. Drops'
  <2> SUFFICES ASSUME bad <= 1
               PROVE  Unlost' \subseteq Readable /\ (~ month.on => Unlost' = {})
    BY <1>1, <1>4 DEF Drops, dbVars, storeVars
  <2>1. Unlost' \subseteq Unlost
    BY <1>1 DEF Unlost
  <2>2. CASE db = {}
    BY <2>1, <2>2 DEF ArInv, Safe, NothingLost, Unlost
  <2>3. CASE Clean
    <3>1. db \ unseen \subseteq Readable /\ month.on
      BY <2>3 DEF ArInv, CleanHeld, Readable, Copy, Clean
    <3> QED BY <2>1, <3>1 DEF ArInv, Safe, NothingLost, Unlost
  <2> QED BY <1>1, <2>2, <2>3
<1> QED BY <1>1, <1>2, <1>3, <1>4, <1>5
        DEF ArInv, Replaces, Staged, Covers, Restores, Thins, Archiving, CleanHeld,
            NoStray, Beside, Backed, OnRows, Safe, Clean, Full, Swept, Unlost, GoodCopy,
            NothingLost, dbVars, storeVars

\* The drop takes only rows that the object has, and every row there is.
LEMMA SweepDropStep == ASSUME ArInv, SweepDrop PROVE ArInv'
<1>1. /\ ArTypes /\ task.pc = "drop" /\ Open = {} /\ expired /\ db' = {} /\ part' = FALSE
      /\ UNCHANGED <<tier, expired, calm, storeVars, month, writer, written, unseen>>
      /\ task' = NoTask
      /\ bad <= 1 => Unlost \subseteq Readable /\ (~ month.on => Unlost = {})
  BY DEF ArInv, SweepDrop, Drops, Done
<1>2. ArTypes'
  BY <1>1, Nothings DEF ArTypes, FiniteRows, storeVars
<1>3. Copy' = Copy /\ Readable' = Readable /\ Open' = Open
  BY <1>1 DEF Copy, Readable, Open, storeVars
<1>4. Replaces' /\ Staged' /\ Covers' /\ Restores' /\ Thins' /\ Drops'
  BY <1>1, Nothings DEF Replaces, Staged, Covers, Restores, Thins, Drops, Archiving
<1>5. CleanHeld' /\ NoStray' /\ Beside' /\ OnRows'
  BY <1>1 DEF ArInv, CleanHeld, NoStray, Beside, OnRows, Clean, storeVars
<1>6. Backed' /\ Safe'
  BY <1>1, <1>3
     DEF ArInv, Backed, Safe, Swept, GoodCopy, NothingLost, Unlost, storeVars
<1> QED BY <1>2, <1>4, <1>5, <1>6 DEF ArInv

\* A restore takes what can be read.
LEMMA RestoreLoadStep == ASSUME ArInv, RestoreLoad PROVE ArInv'
<1>1. /\ ArTypes /\ task.pc = "idle" /\ month.on /\ Copy.whole
      /\ UNCHANGED <<db, tier, expired, calm, storeVars, month, writer, written, unseen>>
      /\ part' = TRUE
      /\ task' = [NoTask EXCEPT !.pc = "restore", !.rows = Copy.rows,
                                !.re = ~ (db \subseteq Copy.rows)]
  BY DEF ArInv, RestoreLoad
<1>2. task' \in Tasks /\ task'.pc = "restore" /\ task'.rows = Copy.rows
  <2>1. Copy.rows \in SUBSET Times
    BY <1>1, ArFields
  <2> QED BY <1>1, <2>1 DEF NoTask, Tasks, TaskPCs
<1>3. Copy' = Copy /\ Readable' = Readable /\ Open' = Open
  BY <1>1 DEF Copy, Readable, Open, storeVars
<1>4. ArTypes'
  BY <1>1, <1>2, ArFields DEF ArTypes, FiniteRows, storeVars
<1> QED BY <1>1, <1>2, <1>3, <1>4
        DEF ArInv, Replaces, Staged, Covers, Restores, Thins, Drops, Archiving, CleanHeld,
            NoStray, Beside, Backed, OnRows, Safe, Clean, Full, Swept, Unlost, GoodCopy,
            NothingLost, storeVars

\* After a restore the database has all that the store has.
LEMMA RestoreCommitStep == ASSUME ArInv, RestoreCommit PROVE ArInv'
<1>1. /\ ArTypes /\ task.pc = "restore" /\ month.on /\ Copy.whole /\ task.rows = Copy.rows
      /\ UNCHANGED <<part, tier, expired, calm, storeVars, writer, written, unseen>>
      /\ db' = db \cup Copy.rows /\ task' = NoTask
  BY DEF ArInv, RestoreCommit, Restores, Done
<1>2. PICK m \in {month, Flagged(month)} : month' = [m EXCEPT !.hold = HoldAfterRestore]
  BY DEF RestoreCommit
<1>3. /\ m \in MonthRows /\ m.on = month.on
      /\ m = month \/ m.flag
  BY <1>1, FlaggedRow DEF ArTypes
<1>4. /\ month' \in MonthRows /\ month'.on /\ month'.rows = m.rows /\ month'.flag = m.flag
      /\ month'.hold = IF tier THEN "held" ELSE "no"
  BY <1>1, <1>2, <1>3 DEF MonthRows, HoldAfterRestore
<1>5. /\ db' \in SUBSET Times /\ IsFiniteSet(db')
  BY <1>1, ArFields, FS_Union DEF ArTypes, FiniteRows
<1>6. ArTypes'
  BY <1>1, <1>4, <1>5, Nothings DEF ArTypes, FiniteRows, storeVars
<1>7. Copy' = Copy /\ Readable' = Readable /\ Readable = Copy.rows /\ Open' = Open
  BY <1>1 DEF Copy, Readable, Open, storeVars
<1>8. Replaces' /\ Staged' /\ Covers' /\ Restores' /\ Thins' /\ Drops'
  BY <1>1, Nothings DEF Replaces, Staged, Covers, Restores, Thins, Drops, Archiving
<1>9. CleanHeld'
  <2> SUFFICES ASSUME Clean' PROVE CleanHeld'
    BY DEF CleanHeld
  <2>1. m = month /\ Clean
    BY <1>1, <1>3, <1>4 DEF Clean
  <2>2. obj.whole /\ Copy = obj
    BY <2>1 DEF ArInv, CleanHeld, Copy
  <2> QED BY <1>1, <1>4, <2>1, <2>2 DEF ArInv, CleanHeld, storeVars
<1>10. NoStray'
  <2>1. Clean' => Clean
    BY <1>1, <1>3, <1>4 DEF Clean
  <2> QED BY <1>1, <1>4, <2>1, Nothings DEF ArInv, NoStray, storeVars
<1>11. Beside' /\ OnRows'
  BY <1>1, <1>4 DEF ArInv, Beside, OnRows, storeVars
<1>12. Backed'
  BY <1>1 DEF ArInv, Beside, Backed, Copy, storeVars
<1>13. Safe'
  BY <1>1, <1>4, <1>7
     DEF ArInv, Safe, Swept, GoodCopy, NothingLost, Unlost, storeVars
<1> QED BY <1>6, <1>8, <1>9, <1>10, <1>11, <1>12, <1>13 DEF ArInv

\* The end of a hold only allows the thinning.
LEMMA HoldEndsStep == ASSUME ArInv, HoldEnds PROVE ArInv'
<1>1. /\ ArTypes /\ month.hold = "held"
      /\ UNCHANGED <<dbVars, storeVars, task, writer, written, unseen>>
      /\ month' = [month EXCEPT !.hold = "due"]
  BY DEF ArInv, HoldEnds
<1>2. /\ month' \in MonthRows /\ month'.on = month.on /\ month'.rows = month.rows
      /\ month'.flag = month.flag /\ month'.gen = month.gen /\ month'.hold = "due"
  BY <1>1 DEF ArTypes, MonthRows
<1>3. ArTypes'
  BY <1>1, <1>2 DEF ArTypes, FiniteRows, dbVars, storeVars
<1>4. Copy' = Copy /\ Readable' = Readable /\ Open' = Open
  BY <1>1 DEF Copy, Readable, Open, storeVars
<1> QED BY <1>1, <1>2, <1>3, <1>4
        DEF ArInv, Replaces, Staged, Covers, Restores, Thins, Drops, Archiving, CleanHeld,
            NoStray, Beside, Backed, OnRows, Safe, Clean, Full, Swept, Unlost, GoodCopy,
            NothingLost, Made, dbVars, storeVars

\* The month expires, the disturbances end, or nothing happens.
LEMMA QuietStep == ASSUME ArInv, Expire \/ Settle \/ UNCHANGED arVars PROVE ArInv'
<1>1. /\ UNCHANGED <<db, part, tier, storeVars, month, task, writer, written, unseen>>
      /\ expired => expired' /\ expired' \in BOOLEAN /\ calm' \in BOOLEAN
  BY DEF ArInv, ArTypes, Expire, Settle, arVars, dbVars
<1>2. expired => expired'
  BY DEF Expire, Settle, arVars, dbVars
<1>3. ArTypes'
  BY <1>1 DEF ArInv, ArTypes, FiniteRows, storeVars, Expire, Settle, arVars, dbVars
<1>4. Copy' = Copy /\ Readable' = Readable /\ Open' = Open
  BY <1>1 DEF Copy, Readable, Open, storeVars
<1> QED BY <1>1, <1>2, <1>3, <1>4
        DEF ArInv, Replaces, Staged, Covers, Restores, Thins, Drops, Archiving, CleanHeld,
            NoStray, Beside, Backed, OnRows, Safe, Clean, Full, Swept, Unlost, GoodCopy,
            NothingLost, Made, storeVars

-----------------------------------------------------------------------------
(***************************************************************************)
(* The theorems.                                                           *)
(***************************************************************************)
LEMMA ArInvStep == ArInv /\ [ArNext]_arVars => ArInv'
<1> SUFFICES ASSUME ArInv, [ArNext]_arVars PROVE ArInv'
  OBVIOUS
<1>1. CASE Disturbed
  <2>1. CASE Abandon
    BY <2>1, TaskEnds DEF Abandon, Done
  <2> QED BY <1>1, <2>1, RestoreLoadStep, InsertStep DEF Disturbed
<1>2. CASE \E r \in Times : EndTx(r)
  BY <1>2, MarkStep, CommitRowStep, RollBackStep DEF EndTx
<1>3. CASE Continue
  BY <1>3, PutNewStep, PutObjStep, DeleteNewStep, RecordStep, ThinSwapStep,
     FlagRefusedStep, SweepDropStep, RestoreCommitStep DEF Continue
<1>4. CASE Snapshot \/ ThinCheck \/ Rethin \/ SweepCheck
  BY <1>4, SnapshotStep, ThinCheckStep, RethinStep, SweepCheckStep
<1>5. CASE HoldEnds \/ Expire \/ Settle \/ UNCHANGED arVars
  BY <1>5, HoldEndsStep, QuietStep
<1> QED BY <1>1, <1>2, <1>3, <1>4, <1>5 DEF ArNext

\* What the jobs know of the copies and the rows stays true in every behaviour,
\* whichever jobs run, whatever fails and however many uploads are bad.
THEOREM ArInvariance == ArSpec => []ArInv
  BY ArInitInv, ArInvStep, PTL DEF ArSpec

\* Every variable stays in its type; only a thinned month is held back.
THEOREM ArTyped == ArSpec => []ArTypeOK
<1>1. ArInv => ArTypeOK
  BY DEF ArInv, ArTypes, ArTypeOK, MonthRows, Tasks
<1> QED BY <1>1, ArInvariance, PTL

\* A month that counts as archived has its rows in an object that can be read.
THEOREM CleanIsHeld == ArSpec => []CleanMeansHeld
<1>1. ArInv => CleanMeansHeld
  BY DEF ArInv, CleanHeld, CleanMeansHeld, Clean, Readable, Copy
<1> QED BY <1>1, ArInvariance, PTL

\* Thinning takes no row from the database that cannot be read from the store.
THEOREM ThinningIsSafe == ArSpec => ThinnedIsArchived
<1>1. ArInv /\ [ArNext]_arVars => [part' = part => db \ db' \subseteq Readable]_arVars
  <2> SUFFICES ASSUME ArInv, ArNext, part' = part PROVE db \ db' \subseteq Readable
    OBVIOUS
  <2>1. CASE ThinSwap \/ Rethin
    BY <2>1, ThinSwapStep, RethinStep
  <2>2. CASE SweepDrop
    BY <2>2 DEF SweepDrop, ArInv, Drops
  <2>3. CASE ~ (ThinSwap \/ Rethin \/ SweepDrop)
    <3>1. db \subseteq db'
      BY <2>3 DEF ArNext, Disturbed, EndTx, Continue, Abandon, RestoreLoad, Insert, Mark,
         CommitRow, RollBack, PutNew, PutObj, DeleteNew, Record, FlagRefused,
         RestoreCommit, Snapshot, ThinCheck, SweepCheck, HoldEnds, Expire, Settle, dbVars
    <3> QED BY <3>1
  <2> QED BY <2>1, <2>2, <2>3
<1> QED BY <1>1, ArInvariance, PTL DEF ArSpec, ThinnedIsArchived

\* One bad upload never takes the last good copy ("a good copy is in the store at every
\* step"); that a second one may is a finding.
THEOREM OneBadUploadLeavesACopy == ArSpec => [](bad <= 1 => GoodCopy)
<1>1. ArInv => (bad <= 1 => GoodCopy)
  BY DEF ArInv, Safe
<1> QED BY <1>1, ArInvariance, PTL

\* With no more than one bad upload no sample is lost, in whatever order writers, the
\* archive, thinning, retention and restores come, and wherever they stop.
THEOREM OneBadUploadLosesNothing == ArSpec => [](bad <= 1 => NothingLost)
<1>1. ArInv => (bad <= 1 => NothingLost)
  BY DEF ArInv, Safe
<1> QED BY <1>1, ArInvariance, PTL

-----------------------------------------------------------------------------
(***************************************************************************)
(* The deletion of archived months (ArchiveDeletion).                      *)
(*                                                                         *)
(* An object is recorded long after the data key was read.  What keeps the *)
(* two together is the user's lock: while the job works the key stays, so  *)
(* the object under way is sealed with it until it is recorded.            *)
(***************************************************************************)
\* One of the user's months, whatever was queued and deleted.
InMonths ==
    /\ DOMAIN object = Months
    /\ recorded \subseteq Months
    /\ dataKey \in Nat /\ lastKey \in Nat

\* The job works with the key of now: nobody takes it away under it.
KeyStays ==
    job.pc # "idle" => job.m \in Months /\ job.key = dataKey

\* The uploaded object is the job's, or the deleter was there.
UploadedIsOurs ==
    job.pc = "record" => object[job.m].key \in {0, job.key}

ADInv == InMonths /\ KeyStays /\ UploadedIsOurs /\ RecordedIsReadable

\* Nothing is archived at first.
LEMMA ADInitInv == ADInit => ADInv
  BY DEF ADInit, ADInv, InMonths, KeyStays, UploadedIsOurs, RecordedIsReadable, NoJob

\* The job's own steps: a new key is made only when the recorded objects are gone.
LEMMA JobSteps ==
  ASSUME ADInv, (\E m \in Months : JobStart(m)) \/ JobPut \/ JobRecord \/ JobFails
  PROVE  ADInv'
<1> USE DEF ADInv, InMonths, KeyStays, UploadedIsOurs, RecordedIsReadable
<1>1. ASSUME NEW m \in Months, JobStart(m) PROVE ADInv'
  <2>1. dataKey' = dataKey \/ dataKey = 0
    BY <1>1 DEF JobStart
  <2>2. \A n \in recorded : object[n].key \in {0, dataKey'}
    BY <2>1
  <2>3. job' = [pc |-> "put", m |-> m, key |-> dataKey'] /\ UNCHANGED <<object, recorded>>
    BY <1>1 DEF JobStart
  <2>4. dataKey' \in Nat /\ lastKey' \in Nat
    BY <1>1 DEF JobStart
  <2> QED BY <2>2, <2>3, <2>4
<1>2. CASE JobPut
  <2>1. /\ job.m \in Months /\ job.key = dataKey /\ job.pc = "put"
        /\ object' = [object EXCEPT ![job.m] = [key |-> job.key, at |-> Len(requests)]]
        /\ job' = [job EXCEPT !.pc = "record"]
        /\ UNCHANGED <<dataKey, lastKey, recorded>>
    BY <1>2 DEF JobPut
  <2>2. \A n \in Months : object'[n].key \in {object[n].key, dataKey}
    BY <2>1
  <2>3. job'.m = job.m /\ job'.key = job.key
    BY <2>1
  <2> QED BY <2>1, <2>2, <2>3
<1>3. CASE JobRecord
  BY <1>3 DEF JobRecord, NoJob
<1>4. CASE JobFails
  BY <1>4 DEF JobFails, NoJob
<1> QED BY <1>1, <1>2, <1>3, <1>4

\* A reset and a delete-before come when the job has nothing under way.
LEMMA UserSteps == ASSUME ADInv, Reset \/ DeleteBefore PROVE ADInv'
  BY DEF ADInv, InMonths, KeyStays, UploadedIsOurs, RecordedIsReadable, Reset, DeleteBefore,
         UserLockFree

\* The deleter takes objects away and puts none.
LEMMA DeleterSteps ==
  ASSUME ADInv, (\E i \in 1 .. MaxReq : List(i)) \/ DeleteOn \/ DeleteFails \/ UNCHANGED adVars
  PROVE  ADInv'
<1> USE DEF ADInv, InMonths, KeyStays, UploadedIsOurs, RecordedIsReadable
<1>1. ASSUME NEW m \in Months, DeleteObject(m) PROVE ADInv'
  <2>1. /\ object' = [object EXCEPT ![m] = NoObject]
        /\ UNCHANGED <<dataKey, lastKey, recorded, job>>
    BY <1>1 DEF DeleteObject
  <2>2. \A n \in Months : object'[n].key \in {0, object[n].key}
    BY <2>1 DEF NoObject
  <2> QED BY <2>1, <2>2
<1>2. CASE MarkDone \/ DeleteFails \/ (\E i \in 1 .. MaxReq : List(i)) \/ UNCHANGED adVars
  <2>1. UNCHANGED <<dataKey, lastKey, object, recorded, job>>
    BY <1>2 DEF MarkDone, DeleteFails, List, adVars
  <2> QED BY <2>1
<1> QED BY <1>1, <1>2 DEF DeleteOn

\* However resets, deletions and archive runs interleave, and wherever they stop, an
\* object that counts as verified is sealed with the key that the user has: a reset
\* between an object's key and its record would leave one that nobody can read.
THEOREM RecordedStaysReadable == ADSpec => []RecordedIsReadable
<1>1. ADInv /\ [ADNext]_adVars => ADInv'
  BY JobSteps, UserSteps, DeleterSteps DEF ADNext
<1>2. ADInv => RecordedIsReadable
  BY DEF ADInv
<1> QED BY ADInitInv, <1>1, <1>2, PTL DEF ADSpec
=============================================================================
