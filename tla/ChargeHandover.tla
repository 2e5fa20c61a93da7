---------------------------- MODULE ChargeHandover ----------------------------
(***************************************************************************)
(* The recorder of one vehicle's charges when the vehicle changes hands.   *)
(*                                                                         *)
(* The owner folds every frame into an accumulator, upserts the charge's   *)
(* row (guarded by its lease) and saves a snapshot in Redis (ordered by the*)
(* lease's epoch).  The next owner starts from the snapshot, or resumes the*)
(* open row, or opens a new charge.  An owner that took the vehicle from a *)
(* pod that did not release it writes no row during its warm-up; the final *)
(* write of a charge that ends in it is left to a timer.                   *)
(*                                                                         *)
(* A pod starts from nothing whenever it is granted the vehicle, so pods   *)
(* are told apart by the grant they act under; only a timer may find its   *)
(* pod under a later one.                                                  *)
(*                                                                         *)
(* Energy is counted in steps of the battery's charge (soc).  The fence of *)
(* a row write and the write are one step (FencedWrites has the gap); the  *)
(* saves of one owner are in order; drives, prices and hooks are left out. *)
(***************************************************************************)
EXTENDS Integers, FiniteSetsExt

CONSTANTS
    MaxSoc,    \* bound on the energy drawn
    MaxGrant,  \* bound on the grants of the vehicle
    MaxId      \* bound on the charges opened

ASSUME HandoverAssumption == {MaxSoc, MaxGrant, MaxId} \subseteq Nat

VARIABLES
    truck,  \* what the truck does [on, soc]
    epoch,  \* the lease row's epoch
    owner,  \* the recorder of the present grant's pod [st, loaded, acc]
    late,   \* final writes left to a timer [tok, again, id, row]
    slow,   \* a snapshot on its slow way to Redis [tok, acc], or none
    shelf,  \* Redis: the vehicle's epoch key and its snapshot [tok, has, acc]
    charge, \* id -> the charge's row [state, e, from, soc]
    lastId, \* charges opened so far
    known,  \* history: id -> the energy that an owner at the time had saved in Redis,
            \* or with which an owner went on to whom Redis did not answer, if less
    undone  \* history: a deferred final write put a row back behind a newer one

chVars == <<truck, epoch, owner, late, slow, shelf, charge, lastId, known, undone>>

Ids == 1 .. MaxId

\* An accumulator: the charge, its energy, the battery where it began, at its last
\* frame, and where the energy is counted from (-1: from the next frame).
NoAcc == [id |-> 0, e |-> 0, from |-> 0, soc |-> 0, anchor |-> -1]
NoCharge == [state |-> "none", e |-> 0, from |-> 0, soc |-> 0]
Fresh(st) == [st |-> st, loaded |-> FALSE, acc |-> NoAcc]

CHInit ==
    /\ truck = [on |-> FALSE, soc |-> 0]
    /\ epoch = 0 /\ owner = Fresh("off")
    /\ late = {} /\ slow = {} /\ shelf = [tok |-> 0, has |-> FALSE, acc |-> NoAcc]
    /\ charge = [i \in Ids |-> NoCharge] /\ lastId = 0
    /\ known = [i \in Ids |-> 0] /\ undone = FALSE

-----------------------------------------------------------------------------
PlugIn == ~ truck.on /\ truck.soc < MaxSoc /\ truck' = [truck EXCEPT !.on = TRUE]
Draw == truck.on /\ truck.soc < MaxSoc /\ truck' = [truck EXCEPT !.soc = @ + 1]
Unplug == truck.on /\ truck' = [truck EXCEPT !.on = FALSE]

TruckMoves ==
    /\ PlugIn \/ Draw \/ Unplug
    /\ UNCHANGED <<epoch, owner, late, slow, shelf, charge, lastId, known, undone>>

\* forgetVehicle: whoever had the vehicle starts from nothing the next time.
GrantedTo(st) ==
    /\ epoch < MaxGrant
    /\ epoch' = epoch + 1 /\ owner' = Fresh(st)
    /\ UNCHANGED <<truck, late, slow, shelf, charge, lastId, known, undone>>

\* Taken from a pod whose lease ran out (it saw that first, or is gone) ...
Steal == epoch > 0 /\ GrantedTo("warming")

\* ... or after a release.
Take == GrantedTo("held")

WarmUpOver ==
    /\ owner.st = "warming"
    /\ owner' = [owner EXCEPT !.st = "held"]
    /\ UNCHANGED <<truck, epoch, late, slow, shelf, charge, lastId, known, undone>>

\* The owner's process ends, its timers with it; only while a grant is left, so that
\* somebody can take over.
OwnerCrash ==
    /\ owner.st # "off" /\ epoch < MaxGrant
    /\ owner' = Fresh("off")
    /\ late' = {w \in late : w.tok # epoch}
    /\ UNCHANGED <<truck, epoch, slow, shelf, charge, lastId, known, undone>>

-----------------------------------------------------------------------------
OpenIds == {i \in Ids : charge[i].state = "open"}

\* LatestOpenLive: the one that began last.
LatestOpen == {i \in OpenIds : \A j \in OpenIds \ {i} : charge[j].from <= charge[i].from /\ j < i}

\* Deviation: rows may overlap.
NeverOverlap(i, from, to) == {}

\* The other rows that hold a part of a stretch.
Overlap(i, from, to) ==
    {j \in Ids \ {i} : charge[j].state # "none" /\ charge[j].soc > from /\ charge[j].from < to}

\* The accumulator's row.  Without counted energy it has the battery's gain; what other
\* rows hold is cut off and the energy scaled.
RowOf(a, state) ==
    LET others == Overlap(a.id, a.from, a.soc)
        start == Max({a.from} \cup {charge[j].soc : j \in others})
        e == IF a.e = 0 THEN a.soc - a.from ELSE a.e
    IN [state |-> state, from |-> start, soc |-> a.soc,
        e |-> IF start = a.from THEN e ELSE (e * (a.soc - start)) \div (a.soc - a.from)]

Upserted(i, r) == [charge EXCEPT ![i] = r]

\* A blip (no gain; here it is short) is not written, nor is what other rows cover.
Writable(a) == a.soc > a.from /\ \A j \in Overlap(a.id, a.from, a.soc) : charge[j].soc < a.soc

\* closeStaleOpenCharges
OnlyOpen(rows, i) ==
    [j \in Ids |-> IF j # i /\ rows[j].state = "open" THEN [rows[j] EXCEPT !.state = "abandoned"] ELSE rows[j]]

-----------------------------------------------------------------------------
\* Deviation: the open row is not looked at.
FromSnapshot(a) == a

\* seedChargeEnergyFromRow: the larger of the snapshot's and the open row's energy.
Seeded(a) == IF LatestOpen = {a.id} THEN [a EXCEPT !.e = Max({@, charge[a.id].e})] ELSE a

\* Whether the snapshot that is asked for at first contact is found: Redis may not answer,
\* and the snapshot may have expired or be too old.
Finds == IF ~ owner.loaded /\ shelf.has THEN BOOLEAN ELSE {FALSE}

\* What the owner goes on from: its accumulator or, at first contact, the snapshot.
Contact(found) == IF owner.loaded THEN owner.acc ELSE IF found THEN Seeded(shelf.acc) ELSE NoAcc

\* Nothing to go on from: resume the open row, the stretch since its last frame counted
\* by the battery's gain, or open a charge.
Opened ==
    IF LatestOpen # {}
    THEN LET i == CHOOSE j \in LatestOpen : TRUE
         IN [id |-> i, e |-> charge[i].e + (truck.soc - charge[i].soc), from |-> charge[i].from,
             soc |-> truck.soc, anchor |-> truck.soc]
    ELSE [id |-> lastId + 1, e |-> 0, from |-> truck.soc, soc |-> truck.soc, anchor |-> truck.soc]

Counted(a) ==
    [a EXCEPT !.e = IF a.anchor < 0 THEN @ ELSE @ + (truck.soc - a.anchor),
              !.soc = truck.soc, !.anchor = truck.soc]

\* Deviation: a save is not compared with the epoch in Redis.
AnyEpoch(s) == TRUE

\* writeScript: not below the highest epoch that has written.
EpochAllows(s) == shelf.tok <= s.tok

Saved(s) ==
    IF EpochAllows(s)
    THEN /\ shelf' = [tok |-> s.tok, has |-> TRUE, acc |-> s.acc]
         /\ known' = [i \in Ids |-> IF i = s.acc.id /\ s.tok = epoch THEN s.acc.e ELSE known[i]]
    ELSE UNCHANGED <<shelf, known>>

NotSaved(a) ==
    /\ known' = [i \in Ids |-> IF i = a.id THEN Min({known[i], a.e}) ELSE known[i]]
    /\ UNCHANGED shelf

MayRecord ==
    /\ owner.st \in {"warming", "held"}
    /\ \A s \in slow : s.tok # epoch

\* The snapshot taken under the lock is saved after it, by the epoch of the lease (the
\* lease is taken to be the same until the epoch is read): at once, late, or not at all
\* (Redis is down, or was, and is left alone for a while).
\* A snapshot without a charge that comes late is as good as lost and, for who looks
\* after it has come, not found.  Nobody reads what the owner of the last grant saves.
Recorded(a) ==
    /\ owner' = [owner EXCEPT !.loaded = TRUE, !.acc = a]
    /\ LET s == [tok |-> epoch, acc |-> [a EXCEPT !.anchor = -1]] IN
        \/ epoch < MaxGrant /\ Saved(s) /\ UNCHANGED slow
        \/ epoch < MaxGrant /\ a.id # 0 /\ slow = {} /\ slow' = {s} /\ NotSaved(a)
        \/ UNCHANGED slow /\ NotSaved(a)
    /\ UNCHANGED <<truck, epoch, undone>>

\* A charging frame and no charge open.
FrameOpens(found) ==
    /\ MayRecord /\ truck.on /\ Contact(found).id = 0
    /\ Opened.id <= MaxId
    /\ LET a == Opened
           rows == IF Writable(a) THEN Upserted(a.id, RowOf(a, "open")) ELSE charge
       IN /\ charge' = IF owner.st = "held" THEN OnlyOpen(rows, a.id) ELSE charge
          /\ lastId' = Max({lastId, a.id})
          /\ Recorded(a)
    /\ UNCHANGED late

\* A charging frame of the open charge: the row is written now and then.
FrameCounts(found, due) ==
    /\ MayRecord /\ truck.on /\ Contact(found).id # 0
    /\ LET a == Counted(Contact(found))
       IN /\ due => owner.st = "held" /\ Writable(a)
          /\ charge' = IF due THEN Upserted(a.id, RowOf(a, "open")) ELSE charge
          /\ Recorded(a)
    /\ UNCHANGED <<late, lastId>>

\* The first frame after the charge: the final write, or during the warm-up a timer.
\* A row that the database refuses for the first time is not tried again.
FrameCloses(found, refused) ==
    /\ MayRecord /\ ~ truck.on /\ Contact(found).id # 0
    /\ LET a == [Contact(found) EXCEPT !.soc = truck.soc]
           final == RowOf(a, "done")
       IN /\ refused => Overlap(a.id, a.from, a.soc) # {}
          /\ IF ~ Writable(a) \/ refused THEN UNCHANGED <<charge, late>>
             ELSE IF owner.st = "held" THEN charge' = Upserted(a.id, final) /\ UNCHANGED late
             ELSE /\ late' = late \cup {[tok |-> epoch, again |-> TRUE, id |-> a.id, row |-> final]}
                  /\ UNCHANGED charge
          /\ Recorded(NoAcc)
    /\ UNCHANGED lastId

\* Neither charging nor a charge: only the snapshot.
FrameIdle(found) ==
    /\ MayRecord /\ ~ truck.on /\ Contact(found).id = 0
    /\ Recorded(NoAcc)
    /\ UNCHANGED <<late, charge, lastId>>

GoesBack(i, r) ==
    charge[i].state # "none" /\ (r.from < charge[i].from \/ r.soc < charge[i].soc)

\* afterWarmUp: written under the lease of that moment; with another warm-up it waits
\* once more; without the lease it is dropped.  Under a later grant the owner may be the
\* timer's pod or not.
TimerFires(w, ours) ==
    /\ w \in late /\ (w.tok = epoch => ours /\ owner.st # "warming")
    /\ IF ours /\ owner.st = "held" /\ Overlap(w.id, w.row.from, w.row.soc) = {}
       THEN charge' = Upserted(w.id, w.row) /\ undone' = (undone \/ GoesBack(w.id, w.row))
       ELSE UNCHANGED <<charge, undone>>
    /\ late' = (late \ {w}) \cup
          (IF ours /\ owner.st = "warming" /\ w.again THEN {[w EXCEPT !.tok = epoch, !.again = FALSE]} ELSE {})
    /\ UNCHANGED <<truck, epoch, owner, slow, shelf, lastId, known>>

\* A slow save reaches Redis, however late its pod has become.
SlowSaveLands(s) ==
    /\ s \in slow /\ slow' = slow \ {s}
    /\ Saved(s)
    /\ UNCHANGED <<truck, epoch, owner, late, charge, lastId, undone>>

\* Deviation: the janitor leaves the rows of earlier owners alone.
OwnStale == OpenIds \cap {owner.acc.id}

\* ListStaleOpenLive
StaleOpen == OpenIds

\* sweepStaleCharges: an open row that has not moved for an hour, and the truck says
\* that it is not charging.
JanitorCloses ==
    /\ owner.st = "held" /\ ~ truck.on
    /\ \E i \in StaleOpen : charge' = [charge EXCEPT ![i].state = "abandoned"]
    /\ UNCHANGED <<truck, epoch, owner, late, slow, shelf, lastId, known, undone>>

CHNext ==
    \/ TruckMoves
    \/ Steal \/ Take \/ WarmUpOver \/ OwnerCrash \/ JanitorCloses
    \/ \E found \in Finds :
        \/ FrameOpens(found) \/ FrameIdle(found)
        \/ \E b \in BOOLEAN : FrameCounts(found, b) \/ FrameCloses(found, b)
    \/ \E w \in late, ours \in BOOLEAN : TimerFires(w, ours)
    \/ \E s \in slow : SlowSaveLands(s)

\* A vehicle without an owner is taken; the owner's janitor runs every ten minutes.
CHFairness ==
    /\ WF_chVars((owner.st = "off" /\ Steal) \/ WarmUpOver)
    /\ WF_chVars(JanitorCloses)

CHSpec == CHInit /\ [][CHNext]_chVars

-----------------------------------------------------------------------------
\* Two rows never hold the same stretch of the battery, whoever wrote them under
\* whichever lease and however late ("one vehicle can't be in two live charging
\* (or driving) sessions at the same time", 0041_live_session_overlap_guard.sql).
RowsApart ==
    \A i, j \in Ids :
        i # j /\ charge[i].state # "none" /\ charge[j].state # "none" =>
            charge[i].soc <= charge[j].from \/ charge[j].soc <= charge[i].from

\* The energy of the first n charges.
EnergyOf[n \in 0 .. MaxId] == IF n = 0 THEN 0 ELSE EnergyOf[n - 1] + charge[n].e

\* No energy is in two rows, whoever recorded what and whatever was lost on the way
\* ("a 2h36m charge recorded twice", 0041_live_session_overlap_guard.sql); unless a
\* deferred final write has put a row back behind what was written since.
EnergyCountedOnce == undone \/ EnergyOf[MaxId] <= truck.soc

\* A save that comes late from an earlier owner takes nothing from what a later one
\* has saved of the charge.
SnapshotKeepsUp == \A i \in Ids : shelf.acc.id = i => shelf.acc.e >= known[i]

\* A pod that goes on with a charge has at least the energy of its open row or, if that
\* is not open, what an owner at the time had saved in Redis.
HandoverKeepsEnergy ==
    [][LET a == owner'.acc IN
       (~ owner.loaded /\ owner'.loaded /\ a.id \in Ids) =>
           a.e >= IF LatestOpen = {a.id} THEN charge[a.id].e ELSE known[a.id]]_chVars

\* A charge that has ended does not stay open in the list, although its final write may
\* be refused, dropped with the lease or lost in a crash.
OpenRowsEnd ==
    CHFairness => []<>(truck.on \/ \A i \in Ids : charge[i].state # "open")
=============================================================================
