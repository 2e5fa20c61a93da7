------------------------- MODULE VehicleLeaseProofs -------------------------
(***************************************************************************)
(* The vehicle leases proved for any pods, any vehicles of a group and any  *)
(* timing with FenceAt <= TTL.                                              *)
(*                                                                         *)
(* HeldMeansLeased is not inductive.  A row outlives the trust in it only   *)
(* because the age of a renew counts from its send (OwnedLasts), a pass     *)
(* carries rows that it has not installed yet (ReturnedLasts), and what a   *)
(* peer has written but not committed was free when it was written and      *)
(* stays free until the commit (WrittenFree, LockHeld).                     *)
(***************************************************************************)
EXTENDS VehicleLease, TLAPS

VLRows == [pod : Pods \cup {NoPod}, left : -1 .. TTL]
VLPasses == [pc : VLPassPCs, age : 0 .. AgeCapV,
             set : SUBSET Vehicles, v : Vehicles \cup {NoVehicle}]

VLAssumptions ==
    /\ Pods \subseteq Nat /\ NoPod \notin Pods /\ NoVehicle \notin Vehicles
    /\ TTL \in Nat /\ FenceAt \in Nat /\ FenceAt <= TTL

\* The assumptions on the constants, in one formula to cite.
LEMMA VLAssumptionsHold == VLAssumptions
  BY VLPodsAssumption, VLVehiclesAssumption, VLTimingAssumption DEF VLAssumptions

-----------------------------------------------------------------------------
(***************************************************************************)
(* Types.                                                                  *)
(***************************************************************************)
\* The fields of a pass, and of a row, are of their types.
LEMMA Fields ==
  ASSUME VLTypeOK
  PROVE  /\ pass \in [Pods -> VLPasses] /\ lease \in [Vehicles -> VLRows]
         /\ \A p \in Pods :
              /\ pass[p] \in VLPasses /\ pass[p].pc \in VLPassPCs
              /\ pass[p].age \in 0 .. AgeCapV /\ pass[p].set \in SUBSET Vehicles
              /\ pass[p].v \in Vehicles \cup {NoVehicle}
              /\ renewAge[p] \in 0 .. AgeCapV
         /\ \A v \in Vehicles : /\ lease[v] \in VLRows /\ lease[v].left \in -1 .. TTL
                                /\ lease[v].pod \in Pods \cup {NoPod}
<1>1. pass \in [Pods -> VLPasses] /\ lease \in [Vehicles -> VLRows]
  BY DEF VLTypeOK, VLPasses, VLRows
<1>2. \A r \in VLPasses : /\ r.pc \in VLPassPCs /\ r.age \in 0 .. AgeCapV
                          /\ r.set \in SUBSET Vehicles
                          /\ r.v \in Vehicles \cup {NoVehicle}
  BY DEF VLPasses
<1>3. \A r \in VLRows : r.left \in -1 .. TTL /\ r.pod \in Pods \cup {NoPod}
  BY DEF VLRows
<1> QED BY <1>1, <1>2, <1>3 DEF VLTypeOK

\* Where a pass goes, and what it takes along.
LEMMA GotoMoves ==
  ASSUME VLTypeOK, NEW p \in Pods, NEW pc \in VLPassPCs, NEW S \in SUBSET Vehicles,
         NEW v \in Vehicles \cup {NoVehicle}, Goto(p, pc, S, v)
  PROVE  /\ pass' \in [Pods -> VLPasses]
         /\ pass'[p].pc = pc /\ pass'[p].set = S /\ pass'[p].v = v
         /\ pc \in Timed => pass'[p].age = pass[p].age
         /\ \A q \in Pods : q # p => pass'[q] = pass[q]
<1> DEFINE new == [pc |-> pc, age |-> IF pc \in Timed THEN pass[p].age ELSE 0,
                   set |-> S, v |-> v]
<1>1. pass' = [pass EXCEPT ![p] = new]
  BY DEF Goto
<1>2. new \in VLPasses
  BY Fields, VLAssumptionsHold DEF VLPasses, VLAssumptions, AgeCapV
<1>3. pass' \in [Pods -> VLPasses] /\ pass'[p] = new
      /\ \A q \in Pods : q # p => pass'[q] = pass[q]
  <2> HIDE DEF new
  <2> QED BY <1>1, <1>2, Fields
<1> QED BY <1>3

\* A pass that is over, or begins, is a pass.
LEMMA FreshPasses ==
  /\ IdleV \in VLPasses /\ IdleV.pc = "idle" /\ IdleV.age = 0
  /\ [IdleV EXCEPT !.pc = "renew"] \in VLPasses
  /\ [IdleV EXCEPT !.pc = "renew"].pc = "renew"
  /\ [IdleV EXCEPT !.pc = "renew"].age = 0
  BY VLAssumptionsHold DEF VLAssumptions, IdleV, VLPasses, VLPassPCs, AgeCapV

\* What the statements write is a well-typed table.
LEMMA TableTypes ==
  ASSUME VLTypeOK, NEW p \in Pods
  PROVE  /\ \A S : Without(S) \in [Vehicles -> VLRows]
         /\ \A waited \in 0 .. AgeCapV : /\ LeftAfter(waited) \in -1 .. TTL
                                         /\ RenewedV(p, waited) \in [Vehicles -> VLRows]
         /\ \A v : \A a \in 0 .. AgeCapV :
               [lease EXCEPT ![v] = [pod |-> p, left |-> LeftAfter(a)]]
                 \in [Vehicles -> VLRows]
<1> USE VLAssumptionsHold DEF VLAssumptions
<1>1. \A a \in 0 .. AgeCapV : LeftAfter(a) \in -1 .. TTL
  BY DEF LeftAfter, AgeCapV
<1>2. NoRow \in VLRows
  BY DEF NoRow, VLRows
<1>3. \A S : Without(S) \in [Vehicles -> VLRows]
  BY <1>2, Fields DEF Without
<1>4. \A a \in 0 .. AgeCapV : RenewedV(p, a) \in [Vehicles -> VLRows]
  <2>1. \A r \in VLRows, l \in -1 .. TTL : [r EXCEPT !.left = l] \in VLRows
    BY DEF VLRows
  <2> QED BY <1>1, <2>1, Fields DEF RenewedV
<1>5. \A a \in 0 .. AgeCapV : [pod |-> p, left |-> LeftAfter(a)] \in VLRows
  BY <1>1 DEF VLRows
<1>6. \A v : \A a \in 0 .. AgeCapV :
        [lease EXCEPT ![v] = [pod |-> p, left |-> LeftAfter(a)]] \in [Vehicles -> VLRows]
  BY <1>5, Fields
<1> QED BY <1>1, <1>3, <1>4, <1>6

\* What the coordinator asks of the monitor keeps the monitor's sets in their type.
LEMMA MonitorTypes ==
  ASSUME VLTypeOK, NEW p \in Pods, NEW S \in SUBSET Vehicles,
         Subscribe(p, S) \/ Unsubscribe(p, S)
  PROVE  /\ active' \in [Pods -> SUBSET Vehicles]
         /\ running' \in [Pods -> SUBSET Vehicles]
<1>1. active \in [Pods -> SUBSET Vehicles] /\ running \in [Pods -> SUBSET Vehicles]
  BY DEF VLTypeOK
<1>2. CASE Subscribe(p, S)
  BY <1>1, <1>2 DEF Subscribe
<1>3. CASE Unsubscribe(p, S)
  BY <1>1, <1>3 DEF Unsubscribe
<1> QED BY <1>2, <1>3

\* The first state is in its type, whatever leases it has.
LEMMA VLInitType == VLInit => VLTypeOK
<1> SUFFICES ASSUME VLInit PROVE VLTypeOK
  OBVIOUS
<1>1. NoRow \in VLRows /\ [pod : Pods, left : {TTL}] \subseteq VLRows
  BY VLAssumptionsHold DEF VLAssumptions, NoRow, VLRows
<1>2. lease \in [Vehicles -> VLRows]
  BY <1>1 DEF VLInit
<1>3. pass \in [Pods -> VLPasses]
  BY FreshPasses DEF VLInit
<1> QED BY <1>2, <1>3, VLAssumptionsHold
        DEF VLAssumptions, VLInit, VLTypeOK, VLRows, VLPasses, AgeCapV

\* An acquire is of a vehicle.
AcquiresOne(p) ==
    pass[p].pc \in {"begin", "locked", "commit"} => pass[p].v \in Vehicles

\* The steps of a pass keep the types ...
LEMMA PassTypes ==
  ASSUME VLTypeOK, NEW p \in Pods, AcquiresOne(p), Steps(p)
  PROVE  VLTypeOK'
<1>1. /\ pass \in [Pods -> VLPasses] /\ lease \in [Vehicles -> VLRows]
      /\ pass[p].set \in SUBSET Vehicles /\ pass[p].v \in Vehicles \cup {NoVehicle}
      /\ pass[p].age \in 0 .. AgeCapV /\ owned[p] \in SUBSET Vehicles
      /\ owned \in [Pods -> SUBSET Vehicles] /\ lock \in Pods \cup {NoPod}
  BY Fields DEF VLTypeOK
<1>2. /\ {"idle", "renew", "lost", "reaped", "give", "acquire", "begin", "locked",
          "commit"} = VLPassPCs
      /\ NoVehicle \in Vehicles \cup {NoVehicle} /\ RowsOf(p) \in SUBSET Vehicles
  BY DEF VLPassPCs, RowsOf
\* It is enough that what the step changes is of its type.
<1>3. ASSUME lease' \in [Vehicles -> VLRows], lock' \in Pods \cup {NoPod},
             signedIn' = signedIn, stat' = stat,
             owned' \in [Pods -> SUBSET Vehicles],
             active' \in [Pods -> SUBSET Vehicles],
             running' \in [Pods -> SUBSET Vehicles],
             renewAge' \in [Pods -> 0 .. AgeCapV], pass' \in [Pods -> VLPasses]
      PROVE  VLTypeOK'
  BY <1>3 DEF VLTypeOK, VLRows, VLPasses
<1>4. /\ active \in [Pods -> SUBSET Vehicles] /\ running \in [Pods -> SUBSET Vehicles]
      /\ renewAge \in [Pods -> 0 .. AgeCapV]
  BY DEF VLTypeOK
<1>5. CASE Start(p)
  BY <1>1, <1>3, <1>4, <1>5, FreshPasses DEF Start
<1>6. CASE Renew(p)
  <2>1. lease' \in [Vehicles -> VLRows]
    <3>1. PICK waited \in 0 .. pass[p].age : lease' = RenewedV(p, waited)
      BY <1>6 DEF Renew
    <3>2. waited \in 0 .. AgeCapV
      BY <1>1, <3>1, VLAssumptionsHold DEF VLAssumptions, AgeCapV
    <3> QED BY <3>1, <3>2, TableTypes
  <2>2. pass' \in [Pods -> VLPasses]
    BY <1>2, <1>6, GotoMoves DEF Renew
  <2> QED BY <1>1, <1>3, <1>4, <1>6, <2>1, <2>2 DEF Renew
<1>7. CASE Lost(p)
  <2>1. PICK orphans \in SUBSET (pass[p].set \ signedIn) :
          /\ lease' = Without(orphans \cap RowsOf(p))
          /\ owned' = [owned EXCEPT ![p] = pass[p].set \ orphans]
          /\ Unsubscribe(p, owned[p] \ pass[p].set)
          /\ Goto(p, "reaped", orphans, NoVehicle)
    BY <1>7 DEF Lost
  <2>2. pass' \in [Pods -> VLPasses]
    BY <1>1, <1>2, <2>1, GotoMoves
  <2>3. lease' \in [Vehicles -> VLRows] /\ owned' \in [Pods -> SUBSET Vehicles]
    BY <1>1, <2>1, TableTypes
  <2>4. active' \in [Pods -> SUBSET Vehicles] /\ running' \in [Pods -> SUBSET Vehicles]
    BY <1>1, <2>1, MonitorTypes
  <2>5. renewAge' \in [Pods -> 0 .. AgeCapV]
    BY <1>1, <1>4, <1>7 DEF Lost, FromSend
  <2> QED BY <1>1, <1>3, <1>7, <2>2, <2>3, <2>4, <2>5 DEF Lost
<1>8. CASE Split(p)
  <2>1. SplitOf(p) \in SUBSET Vehicles
    BY DEF SplitOf, RowsOf
  <2>2. pass' \in [Pods -> VLPasses]
    BY <1>2, <1>8, <2>1, GotoMoves DEF Split
  <2>3. active' \in [Pods -> SUBSET Vehicles] /\ running' \in [Pods -> SUBSET Vehicles]
    BY <1>1, <1>8, MonitorTypes DEF Split
  <2> QED BY <1>1, <1>3, <1>4, <1>8, <2>2, <2>3 DEF Split
<1>9. ASSUME NEW v \in Vehicles, StopGiven(p, v) PROVE VLTypeOK'
  <2>1. pass' \in [Pods -> VLPasses]
    BY <1>1, <1>2, <1>9, GotoMoves DEF StopGiven
  <2>2. active' \in [Pods -> SUBSET Vehicles] /\ running' \in [Pods -> SUBSET Vehicles]
    BY <1>9, MonitorTypes DEF StopGiven
  <2> QED BY <1>1, <1>3, <1>4, <1>9, <2>1, <2>2 DEF StopGiven
<1>10. CASE ReleaseGiven(p)
  <2>1. pass' \in [Pods -> VLPasses]
    <3>1. pass[p].set \ {pass[p].v} \in SUBSET Vehicles
      BY <1>1
    <3> QED BY <1>2, <1>10, <3>1, GotoMoves DEF ReleaseGiven
  <2>2. lease' \in [Vehicles -> VLRows] /\ owned' \in [Pods -> SUBSET Vehicles]
    BY <1>1, <1>10, TableTypes DEF ReleaseGiven
  <2> QED BY <1>1, <1>3, <1>4, <1>10, <2>1, <2>2 DEF ReleaseGiven
<1>11. CASE Heal(p)
  <2>1. PICK S \in Listed(p) : Goto(p, "acquire", S \ owned[p], NoVehicle)
    BY <1>11 DEF Heal
  <2>2. S \in SUBSET Vehicles
    <3>1. signedIn \in SUBSET Vehicles
      BY DEF VLTypeOK
    <3> QED BY <3>1 DEF Listed
  <2>3. pass' \in [Pods -> VLPasses]
    BY <1>2, <2>1, <2>2, GotoMoves
  <2>4. active' \in [Pods -> SUBSET Vehicles] /\ running' \in [Pods -> SUBSET Vehicles]
    <3>1. Unstreamed(p) \in SUBSET Vehicles
      BY <1>1 DEF Unstreamed
    <3> QED BY <1>4, <1>11, <3>1, MonitorTypes DEF Heal
  <2> QED BY <1>1, <1>3, <1>4, <1>11, <2>3, <2>4 DEF Heal
<1>12. ASSUME NEW v \in Vehicles, Begin(p, v) PROVE VLTypeOK'
  <2>1. [pc |-> "begin", age |-> 0, set |-> pass[p].set \ {v}, v |-> v] \in VLPasses
    BY <1>1, <1>2, VLAssumptionsHold DEF VLPasses, VLAssumptions, AgeCapV
  <2> QED BY <1>1, <1>3, <1>4, <1>12, <2>1 DEF Begin
<1>13. CASE LockGroup(p)
  BY <1>1, <1>2, <1>3, <1>4, <1>13, GotoMoves DEF LockGroup
<1>14. CASE Insert(p)
  BY <1>1, <1>2, <1>3, <1>4, <1>14, GotoMoves DEF Insert
<1>15. CASE Commit(p)
  <2>1. pass[p].v \in Vehicles
    BY <1>15 DEF Commit, At, AcquiresOne
  <2>2. lease' \in [Vehicles -> VLRows]
    <3>1. \/ lease' = Without({pass[p].v})
          \/ lease' = [lease EXCEPT ![pass[p].v] =
                         [pod |-> p, left |-> LeftAfter(pass[p].age)]]
      BY <1>15 DEF Commit
    <3> QED BY <1>1, <3>1, TableTypes
  <2>3. pass' \in [Pods -> VLPasses]
    BY <1>1, <1>2, <1>15, GotoMoves DEF Commit
  <2>4. owned' \in [Pods -> SUBSET Vehicles]
    BY <1>1, <1>15, <2>1 DEF Commit
  <2>5. active' \in [Pods -> SUBSET Vehicles] /\ running' \in [Pods -> SUBSET Vehicles]
    <3>1. {pass[p].v} \in SUBSET Vehicles
      BY <2>1
    <3> QED BY <1>4, <1>15, <3>1, MonitorTypes DEF Commit
  <2> QED BY <1>1, <1>3, <1>4, <1>15, <2>2, <2>3, <2>4, <2>5 DEF Commit
<1>16. CASE End(p)
  BY <1>1, <1>3, <1>4, <1>16, FreshPasses DEF End
<1> QED BY <1>5, <1>6, <1>7, <1>8, <1>9, <1>10, <1>11, <1>12, <1>13, <1>14, <1>15,
           <1>16 DEF Steps

\* ... and so do the steps that disturb it, the monitor's and the clock's.
LEMMA OtherTypes ==
  ASSUME VLTypeOK, \A p \in Pods : AcquiresOne(p),
         \/ \E p \in Pods : ReleaseAllV(p)
         \/ \E p \in Pods, v \in Vehicles : RunStops(p, v)
         \/ Disturbance \/ TickV \/ UNCHANGED vlVars
  PROVE  VLTypeOK'
<1>1. /\ pass \in [Pods -> VLPasses] /\ lease \in [Vehicles -> VLRows]
      /\ owned \in [Pods -> SUBSET Vehicles] /\ lock \in Pods \cup {NoPod}
      /\ active \in [Pods -> SUBSET Vehicles] /\ running \in [Pods -> SUBSET Vehicles]
      /\ renewAge \in [Pods -> 0 .. AgeCapV] /\ signedIn \subseteq Vehicles
      /\ stat \in [Pods -> {"up", "closing", "released", "down"}]
      /\ TTL \in Nat /\ 0 \in 0 .. AgeCapV
  BY Fields, VLAssumptionsHold DEF VLTypeOK, VLAssumptions, AgeCapV
<1>2. ASSUME lease' \in [Vehicles -> VLRows], lock' \in Pods \cup {NoPod},
             signedIn' \subseteq Vehicles,
             stat' \in [Pods -> {"up", "closing", "released", "down"}],
             owned' \in [Pods -> SUBSET Vehicles],
             active' \in [Pods -> SUBSET Vehicles],
             running' \in [Pods -> SUBSET Vehicles],
             renewAge' \in [Pods -> 0 .. AgeCapV], pass' \in [Pods -> VLPasses]
      PROVE  VLTypeOK'
  BY <1>2 DEF VLTypeOK, VLRows, VLPasses
<1>3. ASSUME NEW p \in Pods, ReleaseAllV(p) PROVE VLTypeOK'
  <2>1. lease' \in [Vehicles -> VLRows]
    BY <1>1, <1>3, TableTypes DEF ReleaseAllV
  <2> QED BY <1>1, <1>2, <1>3, <2>1 DEF ReleaseAllV
<1>4. ASSUME NEW p \in Pods, NEW v \in Vehicles, RunStops(p, v) \/ RunEnds(p, v)
      PROVE  VLTypeOK'
  <2>1. active' \in [Pods -> SUBSET Vehicles] /\ running' \in [Pods -> SUBSET Vehicles]
    BY <1>1, <1>4 DEF RunStops, RunEnds
  <2> QED BY <1>1, <1>2, <1>4, <2>1 DEF RunStops, RunEnds
<1>5. ASSUME NEW v \in Vehicles, SignOutV(v) PROVE VLTypeOK'
  BY <1>1, <1>2, <1>5 DEF SignOutV, podVarsV
<1>6. ASSUME NEW p \in Pods, RenewFail(p) PROVE VLTypeOK'
  <2>1. lease' \in [Vehicles -> VLRows]
    BY <1>1, <1>6, TableTypes DEF RenewFail
  <2>2. pass' \in [Pods -> VLPasses]
    BY <1>1, <1>6, FreshPasses DEF RenewFail
  <2>3. /\ owned' \in [Pods -> SUBSET Vehicles]
        /\ active' \in [Pods -> SUBSET Vehicles] /\ running' \in [Pods -> SUBSET Vehicles]
    <3>1. owned[p] \in SUBSET Vehicles
      BY <1>1
    <3> QED BY <1>1, <1>6, <3>1, MonitorTypes DEF RenewFail
  <2> QED BY <1>1, <1>2, <1>6, <2>1, <2>2, <2>3 DEF RenewFail
<1>7. ASSUME NEW p \in Pods, AcquireFail(p) PROVE VLTypeOK'
  <2>1. pass[p].set \in SUBSET Vehicles /\ pass[p].v \in Vehicles
        /\ pass[p].age \in 0 .. AgeCapV
    BY <1>7, Fields DEF AcquireFail, At, AcquiresOne
  <2>2. lease' \in [Vehicles -> VLRows]
    <3>1. \/ lease' = lease
          \/ lease' = [lease EXCEPT ![pass[p].v] =
                         [pod |-> p, left |-> LeftAfter(pass[p].age)]]
      BY <1>7 DEF AcquireFail
    <3>2. [lease EXCEPT ![pass[p].v] = [pod |-> p, left |-> LeftAfter(pass[p].age)]]
            \in [Vehicles -> VLRows]
      BY <2>1, TableTypes
    <3> QED BY <1>1, <3>1, <3>2
  <2>3. pass' \in [Pods -> VLPasses]
    <3>1. "acquire" \in VLPassPCs
      BY DEF VLPassPCs
    <3> QED BY <1>7, <2>1, <3>1, GotoMoves DEF AcquireFail
  <2> QED BY <1>1, <1>2, <1>7, <2>2, <2>3 DEF AcquireFail
<1>8. ASSUME NEW p \in Pods, CloseV(p) PROVE VLTypeOK'
  <2>1. active' \in [Pods -> SUBSET Vehicles] /\ running' \in [Pods -> SUBSET Vehicles]
    <3>1. owned[p] \in SUBSET Vehicles
      BY <1>1
    <3> QED BY <1>8, <3>1, MonitorTypes DEF CloseV
  <2> QED BY <1>1, <1>2, <1>8, <2>1 DEF CloseV
<1>9. ASSUME NEW p \in Pods, ExitV(p) PROVE VLTypeOK'
  BY <1>1, <1>2, <1>9, FreshPasses DEF ExitV
<1>10. CASE TickV
  <2>1. lease' \in [Vehicles -> VLRows]
    <3>1. \A r \in VLRows : [r EXCEPT !.left = IF @ < 0 THEN -1 ELSE @ - 1] \in VLRows
      BY <1>1 DEF VLRows
    <3> QED BY <1>1, <1>10, <3>1 DEF TickV
  <2>2. \A a \in 0 .. AgeCapV : Lower(a + 1, AgeCapV) \in 0 .. AgeCapV
    BY <1>1 DEF Lower, AgeCapV
  <2>3. renewAge' \in [Pods -> 0 .. AgeCapV]
    BY <1>1, <1>10, <2>2 DEF TickV
  <2>4. pass' \in [Pods -> VLPasses]
    <3>1. \A r \in VLPasses : [r EXCEPT !.age = Lower(@ + 1, AgeCapV)] \in VLPasses
      BY <2>2 DEF VLPasses
    <3> QED BY <1>1, <1>10, <3>1 DEF TickV
  <2> QED BY <1>1, <1>2, <1>10, <2>1, <2>3, <2>4 DEF TickV
<1>11. CASE UNCHANGED vlVars
  BY <1>1, <1>2, <1>11 DEF vlVars, podVarsV
<1> QED BY <1>3, <1>4, <1>5, <1>6, <1>7, <1>8, <1>9, <1>10, <1>11 DEF Disturbance

-----------------------------------------------------------------------------
(***************************************************************************)
(* The invariant.                                                          *)
(***************************************************************************)
Serving(p) == stat[p] \in {"up", "closing"}
Reaped(p) == IF pass[p].pc = "reaped" THEN pass[p].set ELSE {}

\* v's row is p's, and was given its TTL no more than a ticks ago.
Lasts(v, p, a) == lease[v].pod = p /\ lease[v].left >= TTL - a

\* A statement is no older than the last good renew: that one was sent before it.
AgesOrdered(p) ==
    AliveV(p) /\ pass[p].pc \in Timed => pass[p].age <= renewAge[p]

\* Who is past the lock holds it ...
LockHeld(p) == At(p, "locked") \/ At(p, "commit") => lock = p

\* ... and what it has written is still nobody else's to renew.
WrittenFree(p) ==
    At(p, "commit") => \/ lease[pass[p].v].pod \in {NoPod, p}
                       \/ lease[pass[p].v].left < 0

\* What p owns outlasts p's trust in its last renew ...
OwnedLasts(p) ==
    Serving(p) /\ renewAge[p] <= TTL => \A v \in owned[p] : Lasts(v, p, renewAge[p])

\* ... and what a renew returned outlasts the trust that p is about to have.
ReturnedLasts(p) ==
    Serving(p) /\ pass[p].pc = "lost" /\ pass[p].age <= TTL =>
        \A v \in pass[p].set : Lasts(v, p, pass[p].age)

\* p streams what it owns, and what it is reaping until it has stopped that.
ActiveOwned(p) == Serving(p) => active[p] \subseteq owned[p] \cup Reaped(p)

\* p acquires what it does not own.
NewNotOwned(p) ==
    /\ pass[p].pc \in {"acquire", "begin", "locked", "commit"} =>
          pass[p].set \cap owned[p] = {}
    /\ pass[p].pc \in {"begin", "locked", "commit"} =>
          pass[p].v \notin owned[p] \cup pass[p].set

VInv(p) ==
    /\ AcquiresOne(p) /\ AgesOrdered(p) /\ LockHeld(p) /\ WrittenFree(p)
    /\ OwnedLasts(p) /\ ReturnedLasts(p) /\ ActiveOwned(p) /\ NewNotOwned(p)

VLInv == VLTypeOK /\ \A p \in Pods : VInv(p)

\* A step of one pod.
PodStep(q) ==
    \/ Steps(q) \/ ReleaseAllV(q) \/ RenewFail(q) \/ AcquireFail(q) \/ CloseV(q)
    \/ ExitV(q) \/ \E v \in Vehicles : RunStops(q, v) \/ RunEnds(q, v)

\* Every step is one pod's, an owner's who signs in or out, or the clock's.
LEMMA StepsOfVL ==
  VLNext <=> \/ \E q \in Pods : PodStep(q)
             \/ \E v \in Vehicles : SignOutV(v)
             \/ TickV
  BY DEF VLNext, Disturbance, PodStep

\* A step of q leaves the memory of every other pod alone.
LEMMA PeersKept ==
  ASSUME VLTypeOK, NEW q \in Pods, PodStep(q), NEW p \in Pods, p # q
  PROVE  /\ stat'[p] = stat[p] /\ owned'[p] = owned[p] /\ active'[p] = active[p]
         /\ renewAge'[p] = renewAge[p] /\ pass'[p] = pass[p]
<1>1. /\ \A pc, S, v : Goto(q, pc, S, v) => pass'[p] = pass[p]
      /\ \A S : Subscribe(q, S) \/ Unsubscribe(q, S) => active'[p] = active[p]
  BY Fields DEF Goto, Subscribe, Unsubscribe, VLTypeOK
<1>2. CASE Start(q) \/ Renew(q) \/ RenewFail(q)
  BY <1>1, <1>2 DEF Start, Renew, RenewFail, VLTypeOK
<1>3. CASE Lost(q)
  BY <1>1, <1>3 DEF Lost, VLTypeOK
<1>4. CASE Split(q) \/ (\E v \in Vehicles : StopGiven(q, v)) \/ ReleaseGiven(q) \/ Heal(q)
  BY <1>1, <1>4 DEF Split, StopGiven, ReleaseGiven, Heal, VLTypeOK
<1>5. CASE \/ \E v \in Vehicles : Begin(q, v)
           \/ LockGroup(q) \/ Insert(q) \/ AcquireFail(q) \/ End(q)
  BY <1>1, <1>5 DEF Begin, LockGroup, Insert, AcquireFail, End, VLTypeOK
<1>6. CASE Commit(q)
  BY <1>1, <1>6 DEF Commit, VLTypeOK
<1>7. CASE CloseV(q) \/ ReleaseAllV(q) \/ ExitV(q)
  BY <1>1, <1>7 DEF CloseV, ReleaseAllV, ExitV, VLTypeOK
<1>8. CASE \E v \in Vehicles : RunStops(q, v) \/ RunEnds(q, v)
  BY <1>8 DEF RunStops, RunEnds, VLTypeOK
<1> QED BY <1>2, <1>3, <1>4, <1>5, <1>6, <1>7, <1>8 DEF PodStep, Steps

(***************************************************************************)
(* What a step of q does to a row: nothing; it deletes or renews one of     *)
(* q's own; or it commits what q has written.                              *)
(***************************************************************************)
RowKept(v) == lease'[v] = lease[v]
RowDropped(q, v) == lease[v].pod = q /\ lease'[v] = NoRow
RowRevived(q, v) ==
    /\ lease[v].pod = q /\ v \notin Written /\ At(q, "renew")
    /\ \E waited \in 0 .. pass[q].age :
          lease'[v] = [pod |-> q, left |-> LeftAfter(waited)]
RowCommitted(q, v) ==
    /\ At(q, "commit") /\ v = pass[q].v
    /\ lease'[v] \in {NoRow, [pod |-> q, left |-> LeftAfter(pass[q].age)]}
RowTurn(q, v) ==
    RowKept(v) \/ RowDropped(q, v) \/ RowRevived(q, v) \/ RowCommitted(q, v)

\* A pod's step keeps a row, drops it, revives it or commits its own acquire.
LEMMA RowTurns ==
  ASSUME VLTypeOK, NEW q \in Pods, PodStep(q), NEW v \in Vehicles
  PROVE  RowTurn(q, v)
<1>1. lease \in [Vehicles -> VLRows] /\ pass[q].age \in 0 .. AgeCapV
  BY Fields
<1>2. ASSUME NEW X, X \subseteq RowsOf(q), lease' = Without(X) PROVE RowTurn(q, v)
  BY <1>2 DEF Without, RowsOf, RowTurn, RowKept, RowDropped
<1>3. ASSUME NEW waited \in 0 .. pass[q].age, At(q, "renew"),
             Written \cap RowsOf(q) = {}, lease' = RenewedV(q, waited)
      PROVE  RowTurn(q, v)
  <2>1. CASE v \in RowsOf(q)
    <3>1. lease'[v] = [lease[v] EXCEPT !.left = LeftAfter(waited)]
          /\ lease[v].pod = q
      BY <1>3, <2>1 DEF RenewedV, RowsOf
    <3>2. lease'[v] = [pod |-> q, left |-> LeftAfter(waited)]
      BY <1>1, <3>1 DEF VLRows
    <3> QED BY <1>3, <2>1, <3>1, <3>2 DEF RowTurn, RowRevived
  <2>2. CASE v \notin RowsOf(q)
    BY <1>3, <2>2 DEF RenewedV, RowTurn, RowKept
  <2> QED BY <2>1, <2>2
<1>4. CASE lease' = lease
  BY <1>4 DEF RowTurn, RowKept
<1>5. CASE Commit(q) \/ AcquireFail(q)
  <2> DEFINE new == [pod |-> q, left |-> LeftAfter(pass[q].age)]
  <2>1. \/ lease' = lease
        \/ /\ At(q, "commit")
           /\ \/ lease' = Without({pass[q].v})
              \/ lease' = [lease EXCEPT ![pass[q].v] = new]
    BY <1>5 DEF Commit, AcquireFail, At
  <2>2. CASE v = pass[q].v /\ lease' # lease
    <3>1. lease'[v] \in {NoRow, new}
      BY <1>1, <2>1, <2>2 DEF Without
    <3> QED BY <2>1, <2>2, <3>1 DEF RowTurn, RowCommitted
  <2>3. CASE v # pass[q].v
    <3>1. lease'[v] = lease[v]
      BY <1>1, <2>1, <2>3 DEF Without
    <3> QED BY <3>1 DEF RowTurn, RowKept
  <2> QED BY <1>4, <2>2, <2>3
<1>6. CASE Renew(q)
  BY <1>3, <1>6 DEF Renew
<1>7. CASE RenewFail(q)
  <2>1. 0 \in 0 .. pass[q].age
    BY <1>1
  <2> QED BY <1>3, <1>4, <1>7, <2>1 DEF RenewFail
<1>8. CASE Lost(q)
  <2>1. \E X : X \subseteq RowsOf(q) /\ lease' = Without(X)
    BY <1>8 DEF Lost
  <2> QED BY <1>2, <2>1
<1>9. CASE ReleaseGiven(q)
  <2>1. \/ lease' = lease
        \/ \E X : X \subseteq RowsOf(q) /\ lease' = Without(X)
    BY <1>9 DEF ReleaseGiven
  <2> QED BY <1>2, <1>4, <2>1
<1>10. CASE ReleaseAllV(q)
  BY <1>2, <1>4, <1>10 DEF ReleaseAllV
<1>11. CASE \/ Start(q) \/ Split(q) \/ (\E w \in Vehicles : StopGiven(q, w)) \/ Heal(q)
            \/ (\E w \in Vehicles : Begin(q, w)) \/ LockGroup(q) \/ Insert(q) \/ End(q)
            \/ CloseV(q) \/ ExitV(q)
            \/ \E w \in Vehicles : RunStops(q, w) \/ RunEnds(q, w)
  BY <1>4, <1>11 DEF Start, Split, StopGiven, Heal, Begin, LockGroup, Insert, End,
     CloseV, ExitV, RunStops, RunEnds
<1> QED BY <1>5, <1>6, <1>7, <1>8, <1>9, <1>10, <1>11 DEF PodStep, Steps

\* The lock goes from nobody to q, or from q to nobody.
LEMMA LockTurns ==
  ASSUME VLTypeOK, NEW q \in Pods, PodStep(q)
  PROVE  \/ lock' = lock
         \/ lock = NoPod /\ lock' = q
         \/ lock = q /\ lock' = NoPod
  BY DEF PodStep, Steps, Start, Renew, RenewFail, Lost, Split, StopGiven, ReleaseGiven,
     Heal, Begin, LockGroup, LockFree, Insert, Commit, AcquireFail, End, CloseV,
     ReleaseAllV, ExitV, RunStops, RunEnds

\* A row that a peer may rely on is none of q's business.
LEMMA PeerRowKept ==
  ASSUME VLInv, NEW q \in Pods, PodStep(q), NEW p \in Pods, p # q,
         NEW v \in Vehicles, NEW a \in 0 .. TTL, Lasts(v, p, a)
  PROVE  lease'[v] = lease[v]
<1>1. VLTypeOK /\ WrittenFree(q)
  BY DEF VLInv, VInv
<1>2. lease[v].pod = p /\ lease[v].left \in Int /\ ~ (lease[v].left < 0) /\ p # NoPod
  BY <1>1, Fields, VLAssumptionsHold DEF VLAssumptions, Lasts
<1>3. ~ RowDropped(q, v) /\ ~ RowRevived(q, v)
  BY <1>2 DEF RowDropped, RowRevived
<1>4. ~ RowCommitted(q, v)
  BY <1>1, <1>2 DEF RowCommitted, WrittenFree
<1> QED BY <1>1, <1>3, <1>4, RowTurns DEF RowTurn, RowKept

\* So a step of q keeps the invariant of every other pod.
LEMMA PeerStep ==
  ASSUME VLInv, NEW q \in Pods, PodStep(q), NEW p \in Pods, p # q
  PROVE  VInv(p)'
<1>1. /\ VLTypeOK /\ VInv(p) /\ VInv(q)
      /\ stat'[p] = stat[p] /\ owned'[p] = owned[p] /\ active'[p] = active[p]
      /\ renewAge'[p] = renewAge[p] /\ pass'[p] = pass[p]
      /\ owned[p] \subseteq Vehicles /\ pass[p].set \subseteq Vehicles
      /\ renewAge[p] \in 0 .. AgeCapV /\ pass[p].age \in 0 .. AgeCapV
      /\ p # NoPod /\ q # NoPod /\ TTL \in Nat
  BY PeersKept, Fields, VLAssumptionsHold DEF VLInv, VLTypeOK, VLAssumptions
<1>2. AcquiresOne(p)' /\ AgesOrdered(p)' /\ ActiveOwned(p)' /\ NewNotOwned(p)'
  BY <1>1 DEF VInv, AcquiresOne, AgesOrdered, AliveV, ActiveOwned, NewNotOwned,
              Serving, Reaped
<1>3. LockHeld(p)'
  BY <1>1, LockTurns DEF VInv, LockHeld, At, AliveV
<1>4. WrittenFree(p)'
  <2> SUFFICES ASSUME At(p, "commit")
               PROVE  LET r == lease'[pass[p].v] IN r.pod \in {NoPod, p} \/ r.left < 0
    BY <1>1 DEF WrittenFree, At, AliveV
  <2> DEFINE v == pass[p].v
  <2>1. v \in Vehicles /\ v \in Written
    BY <1>1 DEF Written, VInv, AcquiresOne, At
  <2>2. ~ RowRevived(q, v)
    BY <2>1 DEF RowRevived
  <2>3. ~ RowCommitted(q, v)
    BY <1>1 DEF RowCommitted, VInv, LockHeld
  <2>4. RowTurn(q, v)
    BY <1>1, <2>1, RowTurns
  <2> QED BY <1>1, <2>2, <2>3, <2>4
          DEF RowTurn, RowKept, RowDropped, NoRow, VInv, WrittenFree
<1>5. ASSUME NEW v \in Vehicles, NEW a \in 0 .. TTL, Lasts(v, p, a)
      PROVE  Lasts(v, p, a)'
  BY <1>5, PeerRowKept DEF Lasts
<1>6. OwnedLasts(p)'
  BY <1>1, <1>5 DEF VInv, OwnedLasts, Serving, AgeCapV
<1>7. ReturnedLasts(p)'
  BY <1>1, <1>5 DEF VInv, ReturnedLasts, Serving, AgeCapV
<1> QED BY <1>2, <1>3, <1>4, <1>6, <1>7 DEF VInv

\* How long a renew or an acquire makes a row last, counted from its send.
LEMMA FreshLasts ==
  ASSUME VLTypeOK, NEW a \in 0 .. AgeCapV, NEW b \in 0 .. AgeCapV, a <= b, b <= TTL
  PROVE  LeftAfter(a) >= TTL - b
  BY VLAssumptionsHold DEF VLAssumptions, LeftAfter, AgeCapV

\* What a step of q does to the invariant of q itself: the renew ...
LEMMA OwnRenew ==
  ASSUME VLInv, NEW q \in Pods, Start(q) \/ Renew(q) \/ RenewFail(q)
  PROVE  VInv(q)'
<1>1. /\ VLTypeOK /\ VInv(q) /\ owned[q] \subseteq Vehicles
      /\ active[q] \subseteq Vehicles
      /\ renewAge[q] \in 0 .. AgeCapV /\ pass[q].age \in 0 .. AgeCapV
      /\ pass \in [Pods -> VLPasses] /\ lease \in [Vehicles -> VLRows]
      /\ TTL \in Nat /\ 0 \in 0 .. AgeCapV
  BY Fields, VLAssumptionsHold DEF VLInv, VLTypeOK, VLAssumptions, AgeCapV
<1>2. \A v \in Vehicles, w \in 0 .. AgeCapV :
        v \in RowsOf(q) => RenewedV(q, w)[v] = [pod |-> q, left |-> LeftAfter(w)]
  <2>1. ASSUME NEW v \in Vehicles, NEW w \in 0 .. AgeCapV, v \in RowsOf(q)
        PROVE  RenewedV(q, w)[v] = [pod |-> q, left |-> LeftAfter(w)]
    <3>1. RenewedV(q, w)[v] = [lease[v] EXCEPT !.left = LeftAfter(w)] /\ lease[v].pod = q
      BY <2>1 DEF RenewedV, RowsOf
    <3> QED BY <1>1, <3>1 DEF VLRows
  <2> QED BY <2>1
<1>3. CASE Start(q)
  <2>1. /\ pass'[q].pc = "renew" /\ pass'[q].age = 0 /\ pass[q].pc = "idle"
        /\ UNCHANGED <<lease, lock, stat, owned, active, renewAge>>
    BY <1>1, <1>3, FreshPasses DEF Start
  <2> QED BY <1>1, <2>1
       DEF VInv, AcquiresOne, AgesOrdered, LockHeld, WrittenFree, OwnedLasts,
           ReturnedLasts, ActiveOwned, NewNotOwned, At, Serving, Reaped, Lasts
<1>4. CASE Renew(q)
  <2>1. PICK waited \in 0 .. pass[q].age : lease' = RenewedV(q, waited)
    BY <1>4 DEF Renew
  <2>2. waited \in 0 .. AgeCapV /\ waited <= pass[q].age
        /\ pass[q].pc = "renew" /\ pass[q].age <= renewAge[q]
    BY <1>1, <1>4, <2>1 DEF Renew, At, VInv, AgesOrdered, Timed, AgeCapV
  <2>3. /\ pass'[q].pc = "lost" /\ pass'[q].set = RowsOf(q)
        /\ pass'[q].age = pass[q].age
    <3>1. /\ "lost" \in VLPassPCs /\ RowsOf(q) \in SUBSET Vehicles /\ "lost" \in Timed
      BY DEF VLPassPCs, RowsOf, Timed
    <3> QED BY <1>1, <1>4, <3>1, GotoMoves DEF Renew
  <2>4. UNCHANGED <<lock, stat, owned, active, renewAge>>
    BY <1>4 DEF Renew
  <2>5. ASSUME NEW v \in Vehicles, v \in RowsOf(q), NEW b \in 0 .. AgeCapV,
               waited <= b, b <= TTL
        PROVE  lease'[v].pod = q /\ lease'[v].left >= TTL - b
    <3>1. lease'[v] = [pod |-> q, left |-> LeftAfter(waited)]
      BY <1>2, <2>1, <2>2, <2>5
    <3>2. LeftAfter(waited) >= TTL - b
      BY <1>1, <2>2, <2>5, FreshLasts
    <3> QED BY <3>1, <3>2
  <2>6. OwnedLasts(q)'
    <3>1. ASSUME Serving(q), renewAge[q] <= TTL, NEW v \in owned[q] PROVE v \in RowsOf(q)
      BY <1>1, <3>1 DEF VInv, OwnedLasts, Lasts, RowsOf
    <3> QED BY <1>1, <2>2, <2>4, <2>5, <3>1 DEF OwnedLasts, Serving, Lasts
  <2>7. ReturnedLasts(q)'
    BY <1>1, <2>2, <2>3, <2>5 DEF ReturnedLasts, Lasts, RowsOf
  <2> QED BY <1>1, <2>2, <2>3, <2>4, <2>6, <2>7
       DEF VInv, AcquiresOne, AgesOrdered, LockHeld, WrittenFree, ActiveOwned,
           NewNotOwned, At, Serving, Reaped
<1>5. CASE RenewFail(q)
  <2>1. /\ pass'[q] = IdleV /\ pass'[q].pc = "idle"
        /\ UNCHANGED <<lock, stat, renewAge>> /\ pass[q].pc = "renew"
    BY <1>1, <1>5, FreshPasses DEF RenewFail, At
  <2>2. \/ owned'[q] = {} /\ active'[q] = active[q] \ owned[q]
        \/ owned'[q] = owned[q] /\ active'[q] = active[q]
    BY <1>1, <1>5 DEF RenewFail, Unsubscribe, VLTypeOK
  <2>3. OwnedLasts(q)'
    <3>1. lease' = lease \/ lease' = RenewedV(q, 0)
      BY <1>5 DEF RenewFail
    <3>2. ASSUME Serving(q), renewAge[q] <= TTL, NEW v \in owned[q], v \in Vehicles
          PROVE  lease'[v].pod = q /\ lease'[v].left >= TTL - renewAge[q]
      <4>1. Lasts(v, q, renewAge[q]) /\ v \in RowsOf(q)
        BY <1>1, <3>2 DEF VInv, OwnedLasts, Lasts, RowsOf
      <4>2. LeftAfter(0) >= TTL - renewAge[q]
        BY <1>1, <3>2, FreshLasts
      <4>3. RenewedV(q, 0)[v] = [pod |-> q, left |-> LeftAfter(0)]
        BY <1>1, <1>2, <3>2, <4>1
      <4>4. CASE lease' = RenewedV(q, 0)
        BY <4>2, <4>3, <4>4
      <4> QED BY <3>1, <4>1, <4>4 DEF Lasts
    <3> QED BY <1>1, <2>1, <2>2, <3>2 DEF OwnedLasts, Serving, Lasts
  <2>4. ActiveOwned(q)'
    BY <1>1, <2>1, <2>2 DEF VInv, ActiveOwned, Serving, Reaped
  <2> QED BY <2>1, <2>3, <2>4
       DEF VInv, AcquiresOne, AgesOrdered, LockHeld, WrittenFree, ReturnedLasts,
           NewNotOwned, At, Timed
<1> QED BY <1>3, <1>4, <1>5

\* What q still owns after a step lasts if the step left its row alone.
LEMMA OwnShrinks ==
  ASSUME VLInv, NEW q \in Pods,
         Serving(q)' => Serving(q), renewAge'[q] = renewAge[q],
         owned'[q] \subseteq owned[q],
         \A v \in owned'[q] : lease'[v] = lease[v]
  PROVE  OwnedLasts(q)'
  BY DEF VLInv, VInv, OwnedLasts, Lasts

\* ... what it returned, the orphans and the splits ...
LEMMA OwnLost ==
  ASSUME VLInv, NEW q \in Pods, Lost(q)
  PROVE  VInv(q)'
<1>1. /\ VLTypeOK /\ VInv(q) /\ owned[q] \subseteq Vehicles
      /\ pass[q].age \in 0 .. AgeCapV /\ pass[q].set \subseteq Vehicles
      /\ pass[q].pc = "lost" /\ owned \in [Pods -> SUBSET Vehicles]
      /\ active \in [Pods -> SUBSET Vehicles] /\ renewAge \in [Pods -> 0 .. AgeCapV]
  BY Fields DEF VLInv, VLTypeOK, Lost, At
<1>2. PICK orphans \in SUBSET (pass[q].set \ signedIn) :
        /\ lease' = Without(orphans \cap RowsOf(q))
        /\ owned' = [owned EXCEPT ![q] = pass[q].set \ orphans]
        /\ Unsubscribe(q, owned[q] \ pass[q].set)
        /\ Goto(q, "reaped", orphans, NoVehicle)
  BY DEF Lost
<1>3. pass'[q].pc = "reaped" /\ pass'[q].set = orphans
  <2>1. "reaped" \in VLPassPCs /\ orphans \in SUBSET Vehicles
    BY <1>1 DEF VLPassPCs
  <2> QED BY <1>1, <1>2, <2>1, GotoMoves
<1>4. /\ owned'[q] = pass[q].set \ orphans
      /\ active'[q] = active[q] \ (owned[q] \ pass[q].set)
      /\ renewAge'[q] = pass[q].age /\ stat' = stat /\ lock' = lock
  BY <1>1, <1>2 DEF Unsubscribe, Lost, FromSend
<1>5. OwnedLasts(q)'
  <2>1. \A v \in pass[q].set \ orphans : v \in Vehicles /\ lease'[v] = lease[v]
    BY <1>1, <1>2 DEF Without
  <2> QED BY <1>1, <1>4, <2>1 DEF VInv, ReturnedLasts, OwnedLasts, Serving, Lasts
<1>6. ActiveOwned(q)'
  BY <1>1, <1>3, <1>4 DEF VInv, ActiveOwned, Serving, Reaped
<1> QED BY <1>3, <1>5, <1>6
     DEF VInv, AcquiresOne, AgesOrdered, LockHeld, WrittenFree, ReturnedLasts,
         NewNotOwned, At, Timed

\* ... what it gives back, and what it finds unstreamed ...
LEMMA OwnGives ==
  ASSUME VLInv, NEW q \in Pods,
         Split(q) \/ (\E v \in Vehicles : StopGiven(q, v)) \/ ReleaseGiven(q) \/ Heal(q)
  PROVE  VInv(q)'
<1>1. /\ VLTypeOK /\ VInv(q) /\ owned[q] \subseteq Vehicles
      /\ pass[q].set \in SUBSET Vehicles /\ pass[q].v \in Vehicles \cup {NoVehicle}
      /\ owned \in [Pods -> SUBSET Vehicles]
      /\ active \in [Pods -> SUBSET Vehicles]
      /\ "give" \in VLPassPCs /\ "acquire" \in VLPassPCs
      /\ NoVehicle \in Vehicles \cup {NoVehicle}
      /\ "give" \notin Timed /\ "acquire" \notin Timed
      /\ signedIn \in SUBSET Vehicles
  BY Fields DEF VLInv, VLTypeOK, VLPassPCs, Timed
\* All four leave q neither in a statement whose age counts nor past the lock.
<1>2. ASSUME pass'[q].pc \in {"give", "acquire"}, OwnedLasts(q)', ActiveOwned(q)',
             pass'[q].pc = "acquire" => pass'[q].set \cap owned'[q] = {}
      PROVE  VInv(q)'
  BY <1>2 DEF VInv, AcquiresOne, AgesOrdered, LockHeld, WrittenFree, ReturnedLasts,
              NewNotOwned, At, Timed
<1>3. CASE Split(q)
  <2>1. pass'[q].pc = "give"
    <3>1. SplitOf(q) \in SUBSET Vehicles /\ {} \in SUBSET Vehicles
      BY DEF SplitOf, RowsOf
    <3> QED BY <1>1, <1>3, <3>1, GotoMoves DEF Split
  <2>2. /\ active'[q] = active[q] \ pass[q].set /\ pass[q].pc = "reaped"
        /\ UNCHANGED <<lease, stat, owned, renewAge>>
    BY <1>1, <1>3 DEF Split, Unsubscribe, At
  <2>3. ActiveOwned(q)'
    BY <1>1, <2>1, <2>2 DEF VInv, ActiveOwned, Serving, Reaped
  <2>4. OwnedLasts(q)'
    BY <2>2, OwnShrinks DEF Serving
  <2> QED BY <1>2, <2>1, <2>3, <2>4
<1>4. ASSUME NEW v \in Vehicles, StopGiven(q, v) PROVE VInv(q)'
  <2>1. pass'[q].pc = "give"
    BY <1>1, <1>4, GotoMoves DEF StopGiven
  <2>2. /\ active'[q] = active[q] \ {v} /\ pass[q].pc = "give"
        /\ UNCHANGED <<lease, stat, owned, renewAge>>
    BY <1>1, <1>4 DEF StopGiven, Unsubscribe, At
  <2>3. ActiveOwned(q)'
    BY <1>1, <2>1, <2>2 DEF VInv, ActiveOwned, Serving, Reaped
  <2>4. OwnedLasts(q)'
    BY <2>2, OwnShrinks DEF Serving
  <2> QED BY <1>2, <2>1, <2>3, <2>4
<1>5. CASE ReleaseGiven(q)
  <2>1. pass'[q].pc = "give"
    <3>1. pass[q].set \ {pass[q].v} \in SUBSET Vehicles
      BY <1>1
    <3> QED BY <1>1, <1>5, <3>1, GotoMoves DEF ReleaseGiven
  <2>2. /\ active' = active /\ pass[q].v \notin active[q] /\ pass[q].pc = "give"
        /\ UNCHANGED <<stat, renewAge>>
        /\ \/ owned'[q] = owned[q] \ {pass[q].v}
              /\ lease' = Without({pass[q].v} \cap RowsOf(q))
           \/ owned' = owned /\ lease' = lease
    BY <1>1, <1>5 DEF ReleaseGiven, Streaming, At
  <2>3. ActiveOwned(q)'
    BY <1>1, <2>1, <2>2 DEF VInv, ActiveOwned, Serving, Reaped
  <2>4. owned'[q] \subseteq owned[q] /\ \A v \in owned'[q] : lease'[v] = lease[v]
    BY <1>1, <2>2 DEF Without
  <2>5. OwnedLasts(q)'
    BY <2>2, <2>4, OwnShrinks DEF Serving
  <2> QED BY <1>2, <2>1, <2>3, <2>5
<1>6. CASE Heal(q)
  <2>1. PICK S \in Listed(q) : Goto(q, "acquire", S \ owned[q], NoVehicle)
    BY <1>6 DEF Heal
  <2>2. pass'[q].pc = "acquire" /\ pass'[q].set = S \ owned[q]
    <3>1. S \ owned[q] \in SUBSET Vehicles
      BY <1>1 DEF Listed
    <3> QED BY <1>1, <2>1, <3>1, GotoMoves
  <2>3. /\ active'[q] \subseteq active[q] \cup owned[q] /\ pass[q].pc = "give"
        /\ UNCHANGED <<lease, stat, owned, renewAge>>
    BY <1>1, <1>6 DEF Heal, Subscribe, Unstreamed, At
  <2>4. ActiveOwned(q)'
    BY <1>1, <2>2, <2>3 DEF VInv, ActiveOwned, Serving, Reaped
  <2>5. OwnedLasts(q)'
    BY <2>3, OwnShrinks DEF Serving
  <2> QED BY <1>2, <2>2, <2>3, <2>4, <2>5
<1> QED BY <1>3, <1>4, <1>5, <1>6

\* ... the acquire up to its commit ...
LEMMA OwnAcquires ==
  ASSUME VLInv, NEW q \in Pods,
         \/ \E v \in Vehicles : Begin(q, v)
         \/ LockGroup(q) \/ Insert(q) \/ End(q)
  PROVE  VInv(q)'
<1>1. /\ VLTypeOK /\ VInv(q) /\ owned[q] \subseteq Vehicles
      /\ pass[q].set \in SUBSET Vehicles /\ pass[q].v \in Vehicles \cup {NoVehicle}
      /\ pass[q].age \in 0 .. AgeCapV /\ renewAge[q] \in 0 .. AgeCapV
      /\ pass \in [Pods -> VLPasses] /\ q # NoPod /\ TTL \in Nat
      /\ NoVehicle \in Vehicles \cup {NoVehicle}
      /\ {"acquire", "begin", "locked", "commit", "idle"} \subseteq VLPassPCs
      /\ {"begin", "locked", "commit"} \subseteq Timed /\ "acquire" \notin Timed
      /\ "idle" \notin Timed
  BY Fields, VLAssumptionsHold DEF VLInv, VLTypeOK, VLPassPCs, Timed, VLAssumptions
<1>2. UNCHANGED <<lease, stat, owned, active, renewAge>>
  BY DEF Begin, LockGroup, Insert, End
<1>3. OwnedLasts(q)'
  BY <1>2, OwnShrinks DEF Serving
<1>4. ASSUME pass[q].pc \in {"acquire", "begin", "locked"},
             pass'[q].pc \in {"acquire", "begin", "locked", "commit", "idle"}
      PROVE  ActiveOwned(q)' /\ ReturnedLasts(q)'
  BY <1>1, <1>2, <1>4 DEF VInv, ActiveOwned, ReturnedLasts, Serving, Reaped
<1>5. ASSUME NEW v \in Vehicles, Begin(q, v) PROVE VInv(q)'
  <2>1. /\ pass'[q] = [pc |-> "begin", age |-> 0, set |-> pass[q].set \ {v}, v |-> v]
        /\ pass[q].pc = "acquire" /\ v \in pass[q].set /\ lock' = lock
    BY <1>1, <1>5 DEF Begin, At
  <2>2. /\ pass'[q].pc = "begin" /\ pass'[q].age = 0
        /\ pass'[q].set = pass[q].set \ {v} /\ pass'[q].v = v
    BY <2>1
  <2> HIDE <2>1
  <2>3. pass[q].pc = "acquire" /\ v \in pass[q].set
    BY <1>5 DEF Begin, At
  <2> QED BY <1>1, <1>2, <1>3, <1>4, <2>2, <2>3
          DEF VInv, AcquiresOne, AgesOrdered, LockHeld, WrittenFree, NewNotOwned, At
<1>6. CASE LockGroup(q)
  <2>1. pass[q].pc = "begin" /\ AliveV(q) /\ lock' = q
    BY <1>6 DEF LockGroup, At
  <2>2. /\ pass'[q].pc = "locked" /\ pass'[q].age = pass[q].age
        /\ pass'[q].set = pass[q].set /\ pass'[q].v = pass[q].v
    BY <1>1, <1>6, GotoMoves DEF LockGroup
  <2> QED BY <1>1, <1>2, <1>3, <1>4, <2>1, <2>2
          DEF VInv, AcquiresOne, AgesOrdered, LockHeld, WrittenFree, NewNotOwned, At
<1>7. CASE Insert(q)
  <2>1. pass[q].pc = "locked" /\ At(q, "locked")
    BY <1>7 DEF Insert, At
  <2>2. CASE MayInsert(q, pass[q].v) /\ lock' = lock
             /\ Goto(q, "commit", pass[q].set, pass[q].v)
    <3>1. /\ pass'[q].pc = "commit" /\ pass'[q].age = pass[q].age
          /\ pass'[q].set = pass[q].set /\ pass'[q].v = pass[q].v
      BY <1>1, <2>2, GotoMoves
    <3> QED BY <1>1, <1>2, <1>3, <1>4, <2>1, <2>2, <3>1
            DEF VInv, AcquiresOne, AgesOrdered, LockHeld, WrittenFree, NewNotOwned, At,
                MayInsert
  <2>3. CASE Goto(q, "acquire", pass[q].set, NoVehicle)
    <3>1. pass'[q].pc = "acquire" /\ pass'[q].set = pass[q].set
      BY <1>1, <2>3, GotoMoves
    <3> QED BY <1>1, <1>2, <1>3, <1>4, <2>1, <3>1
            DEF VInv, AcquiresOne, AgesOrdered, LockHeld, WrittenFree, NewNotOwned, At
  <2> QED BY <1>7, <2>2, <2>3 DEF Insert
<1>8. CASE End(q)
  <2>1. pass'[q] = IdleV /\ pass[q].pc = "acquire"
    BY <1>1, <1>8 DEF End, At
  <2>2. pass'[q].pc = "idle"
    BY <2>1, FreshPasses
  <2> QED BY <1>1, <1>3, <1>4, <2>1, <2>2
          DEF VInv, AcquiresOne, AgesOrdered, LockHeld, WrittenFree, NewNotOwned, At
<1> QED BY <1>5, <1>6, <1>7, <1>8

\* ... its commit, with or without a reply ...
LEMMA OwnCommits ==
  ASSUME VLInv, NEW q \in Pods, Commit(q) \/ AcquireFail(q)
  PROVE  VInv(q)'
<1> DEFINE v == pass[q].v
           new == [pod |-> q, left |-> LeftAfter(pass[q].age)]
<1>1. /\ VLTypeOK /\ VInv(q) /\ owned[q] \subseteq Vehicles
      /\ owned \in [Pods -> SUBSET Vehicles] /\ active \in [Pods -> SUBSET Vehicles]
      /\ pass[q].set \in SUBSET Vehicles
      /\ pass[q].age \in 0 .. AgeCapV /\ renewAge[q] \in 0 .. AgeCapV
      /\ lease \in [Vehicles -> VLRows] /\ TTL \in Nat
      /\ NoVehicle \in Vehicles \cup {NoVehicle}
      /\ "acquire" \in VLPassPCs /\ "acquire" \notin Timed /\ {} \in SUBSET Vehicles
  BY Fields, VLAssumptionsHold DEF VLInv, VLTypeOK, VLPassPCs, Timed, VLAssumptions
<1>2. /\ pass[q].pc \in {"begin", "locked", "commit"} /\ v \in Vehicles
      /\ v \notin owned[q] \cup pass[q].set /\ pass[q].age <= renewAge[q]
      /\ pass[q].set \cap owned[q] = {}
  <2>1. pass[q].pc \in {"begin", "locked", "commit"} /\ AliveV(q)
    BY DEF Commit, AcquireFail, At
  <2> QED BY <1>1, <2>1 DEF VInv, AcquiresOne, AgesOrdered, NewNotOwned, Timed
<1>3. /\ \A w \in Vehicles : w # v => lease'[w] = lease[w]
      /\ UNCHANGED <<stat, renewAge>>
  <2>1. \/ lease' = lease \/ lease' = Without({v})
        \/ lease' = [lease EXCEPT ![v] = new]
    BY DEF Commit, AcquireFail
  <2>2. \A w \in Vehicles : w # v => lease'[w] = lease[w]
    BY <1>1, <2>1 DEF Without
  <2> QED BY <2>2 DEF Commit, AcquireFail
<1>4. pass'[q].pc = "acquire" /\ pass'[q].set \subseteq pass[q].set
  BY <1>1, GotoMoves DEF Commit, AcquireFail
<1>5. ASSUME owned'[q] = owned[q], active'[q] = active[q] PROVE VInv(q)'
  <2>1. OwnedLasts(q)'
    BY <1>1, <1>2, <1>3, <1>5, OwnShrinks DEF Serving
  <2> QED BY <1>1, <1>2, <1>3, <1>4, <1>5, <2>1
       DEF VInv, AcquiresOne, AgesOrdered, LockHeld, WrittenFree, ReturnedLasts,
           ActiveOwned, NewNotOwned, At, Timed, Serving, Reaped
<1>6. CASE Commit(q) /\ ~ Closing(q)
  <2>1. /\ lease'[v] = new /\ owned'[q] = owned[q] \cup {v}
        /\ active'[q] = active[q] \cup {v}
    BY <1>1, <1>2, <1>6 DEF Commit, Subscribe
  <2>2. OwnedLasts(q)'
    <3>1. ASSUME renewAge[q] <= TTL PROVE new.left >= TTL - renewAge[q]
      BY <1>1, <1>2, <3>1, FreshLasts
    <3> QED BY <1>1, <1>2, <1>3, <2>1, <3>1 DEF VInv, OwnedLasts, Lasts, Serving
  <2> QED BY <1>1, <1>2, <1>3, <1>4, <2>1, <2>2
       DEF VInv, AcquiresOne, AgesOrdered, LockHeld, WrittenFree, ReturnedLasts,
           ActiveOwned, NewNotOwned, At, Timed, Serving, Reaped
<1>7. CASE Commit(q) /\ Closing(q)
  BY <1>5, <1>7 DEF Commit
<1>8. CASE AcquireFail(q)
  BY <1>5, <1>8 DEF AcquireFail
<1> QED BY <1>6, <1>7, <1>8

\* ... and its end, the monitor's steps included.
LEMMA OwnEnds ==
  ASSUME VLInv, NEW q \in Pods,
         \/ ReleaseAllV(q) \/ CloseV(q) \/ ExitV(q)
         \/ \E v \in Vehicles : RunStops(q, v) \/ RunEnds(q, v)
  PROVE  VInv(q)'
<1>1. /\ VLTypeOK /\ VInv(q) /\ owned[q] \subseteq Vehicles
      /\ owned \in [Pods -> SUBSET Vehicles] /\ active \in [Pods -> SUBSET Vehicles]
      /\ stat \in [Pods -> {"up", "closing", "released", "down"}]
      /\ pass \in [Pods -> VLPasses] /\ lease \in [Vehicles -> VLRows]
      /\ q # NoPod
  BY Fields, VLAssumptionsHold DEF VLInv, VLTypeOK, VLAssumptions
<1>2. CASE ReleaseAllV(q)
  <2>1. /\ stat'[q] = "released" /\ owned'[q] = {}
        /\ UNCHANGED <<lock, renewAge, pass>>
        /\ lease' = lease \/ lease' = Without(RowsOf(q))
    BY <1>1, <1>2 DEF ReleaseAllV
  <2>2. WrittenFree(q)'
    <3>1. ASSUME At(q, "commit") PROVE pass[q].v \in Vehicles
      BY <1>1, <3>1 DEF VInv, AcquiresOne, At
    <3>2. stat[q] = "closing"
      BY <1>2 DEF ReleaseAllV
    <3> QED BY <1>1, <2>1, <3>1, <3>2
            DEF VInv, WrittenFree, At, AliveV, Without, NoRow
  <2> QED BY <1>1, <1>2, <2>1, <2>2
       DEF VInv, AcquiresOne, AgesOrdered, LockHeld, OwnedLasts, ReturnedLasts,
           ActiveOwned, NewNotOwned, At, AliveV, Serving, ReleaseAllV
<1>3. CASE CloseV(q)
  <2>1. /\ stat[q] = "up" /\ stat'[q] = "closing"
        /\ active'[q] = active[q] \ owned[q]
        /\ UNCHANGED <<lease, lock, owned, renewAge, pass>>
    BY <1>1, <1>3 DEF CloseV, Unsubscribe
  <2> QED BY <1>1, <2>1
       DEF VInv, AcquiresOne, AgesOrdered, LockHeld, WrittenFree, OwnedLasts,
           ReturnedLasts, ActiveOwned, NewNotOwned, At, AliveV, Serving, Reaped, Lasts
<1>4. CASE ExitV(q)
  <2>1. /\ stat'[q] = "down" /\ pass'[q] = IdleV /\ pass'[q].pc = "idle"
    BY <1>1, <1>4, FreshPasses DEF ExitV
  <2> QED BY <2>1
       DEF VInv, AcquiresOne, AgesOrdered, LockHeld, WrittenFree, OwnedLasts,
           ReturnedLasts, ActiveOwned, NewNotOwned, At, AliveV, Serving, Timed
<1>5. ASSUME NEW v \in Vehicles, RunStops(q, v) \/ RunEnds(q, v) PROVE VInv(q)'
  <2>1. /\ active'[q] \subseteq active[q]
        /\ UNCHANGED <<lease, lock, stat, owned, renewAge, pass>>
    BY <1>1, <1>5 DEF RunStops, RunEnds
  <2> QED BY <1>1, <2>1
       DEF VInv, AcquiresOne, AgesOrdered, LockHeld, WrittenFree, OwnedLasts,
           ReturnedLasts, ActiveOwned, NewNotOwned, At, AliveV, Serving, Reaped, Lasts
<1> QED BY <1>2, <1>3, <1>4, <1>5

\* A tick takes a row's life and adds to the age of what relies on it alike.
LEMMA TickVStep ==
  ASSUME VLInv, TickV, NEW p \in Pods
  PROVE  VInv(p)'
<1>1. /\ VLTypeOK /\ VInv(p) /\ owned[p] \subseteq Vehicles
      /\ pass[p] \in VLPasses /\ pass[p].age \in 0 .. AgeCapV
      /\ renewAge[p] \in 0 .. AgeCapV /\ pass[p].set \subseteq Vehicles
      /\ lease \in [Vehicles -> VLRows] /\ TTL \in Nat
      /\ "lost" \in Timed
  BY Fields, VLAssumptionsHold DEF VLInv, VLTypeOK, VLAssumptions, Timed
<1>2. /\ UNCHANGED <<lock, stat, owned, active>>
      /\ renewAge'[p] = IF AliveV(p) THEN Lower(renewAge[p] + 1, AgeCapV) ELSE 0
      /\ pass'[p] = IF pass[p].pc \in Timed
                    THEN [pass[p] EXCEPT !.age = Lower(@ + 1, AgeCapV)] ELSE pass[p]
  BY DEF TickV
<1>3. /\ pass'[p].pc = pass[p].pc /\ pass'[p].set = pass[p].set
      /\ pass'[p].v = pass[p].v
      /\ pass[p].pc \in Timed => pass'[p].age = Lower(pass[p].age + 1, AgeCapV)
  BY <1>1, <1>2 DEF VLPasses
<1>4. \A v \in Vehicles :
        /\ lease'[v].pod = lease[v].pod /\ lease[v].left \in Int
        /\ lease'[v].left = IF lease[v].left < 0 THEN -1 ELSE lease[v].left - 1
  BY <1>1 DEF TickV, VLRows
<1>5. ASSUME NEW v \in Vehicles, NEW a \in 0 .. AgeCapV,
             Lower(a + 1, AgeCapV) <= TTL, Lasts(v, p, a)
      PROVE  lease'[v].pod = p /\ lease'[v].left >= TTL - Lower(a + 1, AgeCapV)
  BY <1>1, <1>4, <1>5 DEF Lasts, Lower, AgeCapV
<1>6. \A a \in 0 .. AgeCapV : Lower(a + 1, AgeCapV) <= TTL => a <= TTL
  BY <1>1 DEF Lower, AgeCapV
<1>7. OwnedLasts(p)'
  <2> SUFFICES ASSUME Serving(p), renewAge'[p] <= TTL, NEW v \in owned[p]
               PROVE  lease'[v].pod = p /\ lease'[v].left >= TTL - renewAge'[p]
    BY <1>2 DEF OwnedLasts, Serving, Lasts
  <2>1. renewAge'[p] = Lower(renewAge[p] + 1, AgeCapV)
    BY <1>2 DEF Serving, AliveV
  <2>2. Lasts(v, p, renewAge[p]) /\ v \in Vehicles
    BY <1>1, <1>6, <2>1 DEF VInv, OwnedLasts
  <2> QED BY <1>1, <1>5, <2>1, <2>2
<1>8. ReturnedLasts(p)'
  <2> SUFFICES ASSUME Serving(p), pass[p].pc = "lost", pass'[p].age <= TTL,
                      NEW v \in pass[p].set
               PROVE  lease'[v].pod = p /\ lease'[v].left >= TTL - pass'[p].age
    BY <1>2, <1>3 DEF ReturnedLasts, Serving, Lasts
  <2>1. pass'[p].age = Lower(pass[p].age + 1, AgeCapV)
    BY <1>1, <1>3
  <2>2. Lasts(v, p, pass[p].age) /\ v \in Vehicles
    BY <1>1, <1>6, <2>1 DEF VInv, ReturnedLasts
  <2> QED BY <1>1, <1>5, <2>1, <2>2
<1>9. AgesOrdered(p)'
  BY <1>1, <1>2, <1>3 DEF VInv, AgesOrdered, AliveV, Lower, AgeCapV
<1>10. AcquiresOne(p)' /\ LockHeld(p)' /\ ActiveOwned(p)' /\ NewNotOwned(p)'
  BY <1>1, <1>2, <1>3 DEF VInv, AcquiresOne, LockHeld, ActiveOwned, NewNotOwned, At,
     AliveV, Serving, Reaped
<1>11. WrittenFree(p)'
  <2>1. ASSUME At(p, "commit") PROVE pass[p].v \in Vehicles
    BY <1>1, <2>1 DEF VInv, AcquiresOne, At
  <2> QED BY <1>1, <1>2, <1>3, <1>4, <2>1 DEF VInv, WrittenFree, At, AliveV
<1> QED BY <1>7, <1>8, <1>9, <1>10, <1>11 DEF VInv

-----------------------------------------------------------------------------
(***************************************************************************)
(* The theorems.                                                           *)
(***************************************************************************)
LEMMA VLInitInv == VLInit => VLInv
<1> SUFFICES ASSUME VLInit, NEW p \in Pods PROVE VInv(p)
  BY VLInitType DEF VLInv
<1>1. /\ pass[p].pc = "idle" /\ owned[p] = {} /\ active[p] = {}
  BY FreshPasses DEF VLInit
<1> QED BY <1>1 DEF VInv, AcquiresOne, AgesOrdered, LockHeld, WrittenFree, OwnedLasts,
                    ReturnedLasts, ActiveOwned, NewNotOwned, At, Timed

\* Every step keeps the invariant.
LEMMA VLInvStep == VLInv /\ [VLNext]_vlVars => VLInv'
<1> SUFFICES ASSUME VLInv, [VLNext]_vlVars PROVE VLInv'
  OBVIOUS
<1>1. VLTypeOK /\ \A p \in Pods : VInv(p) /\ AcquiresOne(p)
  BY DEF VLInv, VInv
<1>2. VLTypeOK'
  BY <1>1, PassTypes, OtherTypes DEF VLNext
<1>3. ASSUME NEW q \in Pods, PodStep(q), NEW p \in Pods PROVE VInv(p)'
  <2>1. CASE p # q
    BY <1>3, <2>1, PeerStep
  <2>2. VInv(q)'
    BY <1>3, OwnRenew, OwnLost, OwnGives, OwnAcquires, OwnCommits, OwnEnds
       DEF PodStep, Steps
  <2> QED BY <2>1, <2>2
<1>4. ASSUME (\E v \in Vehicles : SignOutV(v)) \/ UNCHANGED vlVars, NEW p \in Pods
      PROVE  VInv(p)'
  <2>1. UNCHANGED <<lease, lock, podVarsV>>
    BY <1>4 DEF SignOutV, vlVars
  <2> QED BY <1>1, <2>1
       DEF podVarsV, VInv, AcquiresOne, AgesOrdered, LockHeld, WrittenFree, OwnedLasts,
           ReturnedLasts, ActiveOwned, NewNotOwned, At, AliveV, Serving, Reaped, Lasts
<1>5. CASE TickV
  BY <1>2, <1>5, TickVStep DEF VLInv
<1> QED BY <1>2, <1>3, <1>4, <1>5, StepsOfVL DEF VLInv

\* What the pods own is leased, written rows are free, ages are ordered: in every
\* behaviour, whatever is late, fails, is lost or crashes.
THEOREM VLInvariance == VLSpec => []VLInv
  BY VLInitInv, VLInvStep, PTL DEF VLSpec

\* Rows and ages stay within a TTL.
THEOREM VLTyped == VLSpec => []VLTypeOK
<1>1. VLInv => VLTypeOK
  BY DEF VLInv
<1> QED BY <1>1, VLInvariance, PTL

\* A pod acts only for what it leases, for a TTL after the send of its last good
\* renew, and with nothing but its own clock to tell.
THEOREM HeldIsLeased == VLSpec => []HeldMeansLeased
<1>1. VLInv => HeldMeansLeased
  <2> SUFFICES ASSUME VLInv, NEW p \in Pods, Serving(p), renewAge[p] <= TTL
               PROVE  owned[p] \cup (active[p] \ Reaped(p)) \subseteq RowsOf(p)
    BY DEF HeldMeansLeased, Serving, Reaped
  <2>1. owned[p] \subseteq RowsOf(p)
    BY DEF VLInv, VInv, OwnedLasts, Lasts, RowsOf, VLTypeOK
  <2> QED BY <2>1 DEF VLInv, VInv, ActiveOwned
<1> QED BY <1>1, VLInvariance, PTL

-----------------------------------------------------------------------------
(***************************************************************************)
(* A user is never split.  Where no renew is late a pod that lives renews   *)
(* its rows before they run out, those it does not know of included; so a   *)
(* row that ran out belongs to nobody who could revive it.                 *)
(***************************************************************************)
InTime == "late" \notin Faults /\ FenceAt < TTL

\* The rows of a living pod are alive, and a returned renew has seen them all.
RowsLast(p) ==
    AliveV(p) => /\ renewAge[p] <= FenceAt
                 /\ \A v \in RowsOf(p) : lease[v].left >= TTL - renewAge[p]
SeenLast(p) ==
    At(p, "lost") => \A v \in RowsOf(p) : lease[v].left >= TTL - pass[p].age

\* What p has checked before its insert still holds when it commits.
Checked(p) ==
    At(p, "commit") => \A w \in Vehicles \ {pass[p].v} :
                          lease[w].pod \in {NoPod, p} \/ lease[w].left <= 0

NobodysDead(v) == lease[v].pod = NoPod => lease[v].left < 0

TogetherInv ==
    /\ \A p \in Pods : RowsLast(p) /\ SeenLast(p) /\ Checked(p)
    /\ \A v \in Vehicles : NobodysDead(v)

\* In time, a pod renews only what is alive.
LEMMA RevivedWasLive ==
  ASSUME InTime, VLInv, TogetherInv, NEW q \in Pods, NEW v \in Vehicles,
         RowRevived(q, v)
  PROVE  lease[v].left > 0 /\ lease[v].pod = q
<1>1. AliveV(q) /\ v \in RowsOf(q) /\ lease[v].pod = q
  BY DEF RowRevived, At, RowsOf
<1>2. renewAge[q] <= FenceAt /\ lease[v].left >= TTL - renewAge[q]
  BY <1>1 DEF TogetherInv, RowsLast
<1>3. renewAge[q] \in 0 .. AgeCapV /\ lease[v].left \in Int /\ TTL \in Nat /\ FenceAt \in Nat
      /\ FenceAt < TTL
  BY Fields, VLAssumptionsHold DEF VLInv, VLAssumptions, InTime
<1> QED BY <1>1, <1>2, <1>3 DEF AgeCapV

\* A step of q leaves what is known of the others' rows.
LEMMA TogetherPeers ==
  ASSUME InTime, VLInv, TogetherInv, NEW q \in Pods, PodStep(q), NEW p \in Pods, p # q
  PROVE  RowsLast(p)' /\ SeenLast(p)' /\ Checked(p)'
<1>1. /\ VLTypeOK /\ stat'[p] = stat[p] /\ renewAge'[p] = renewAge[p]
      /\ pass'[p] = pass[p] /\ p # NoPod /\ q # NoPod
  BY PeersKept, VLAssumptionsHold DEF VLInv, VLAssumptions
<1>2. ASSUME NEW v \in Vehicles, lease'[v].pod = p PROVE lease'[v] = lease[v]
  <2>1. ~ RowDropped(q, v)
    BY <1>1, <1>2 DEF RowDropped, NoRow
  <2>2. ~ RowRevived(q, v)
    <3>1. \A l : [pod |-> q, left |-> l].pod = q
      OBVIOUS
    <3> QED BY <1>1, <1>2, <3>1 DEF RowRevived
  <2>3. ~ RowCommitted(q, v)
    <3>1. [pod |-> q, left |-> LeftAfter(pass[q].age)].pod = q /\ NoRow.pod = NoPod
      BY DEF NoRow
    <3> QED BY <1>1, <1>2, <3>1 DEF RowCommitted
  <2> QED BY <1>1, <2>1, <2>2, <2>3, RowTurns DEF RowTurn, RowKept
<1>3. RowsLast(p)' /\ SeenLast(p)'
  BY <1>1, <1>2 DEF TogetherInv, RowsLast, SeenLast, RowsOf, At, AliveV
<1>4. Checked(p)'
  <2> SUFFICES ASSUME At(p, "commit"), NEW w \in Vehicles \ {pass[p].v}
               PROVE  lease'[w].pod \in {NoPod, p} \/ lease'[w].left <= 0
    BY <1>1 DEF Checked, At, AliveV
  <2>1. lease[w].pod \in {NoPod, p} \/ lease[w].left <= 0
    BY DEF TogetherInv, Checked
  <2>2. ~ RowRevived(q, w)
    <3>1. ASSUME RowRevived(q, w) PROVE FALSE
      <4>1. lease[w].left > 0 /\ lease[w].pod = q
        BY <3>1, RevivedWasLive
      <4>2. lease[w].left \in Int
        BY <1>1, Fields
      <4> QED BY <1>1, <2>1, <4>1, <4>2
    <3> QED BY <3>1
  <2>3. ~ RowCommitted(q, w)
    BY <1>1 DEF RowCommitted, VLInv, VInv, LockHeld
  <2> QED BY <1>1, <2>1, <2>2, <2>3, RowTurns DEF RowTurn, RowKept, RowDropped, NoRow
<1> QED BY <1>3, <1>4

\* And what q knows of its own rows stays true through its own steps.
LEMMA TogetherOwn ==
  ASSUME InTime, VLInv, TogetherInv, NEW q \in Pods, PodStep(q)
  PROVE  RowsLast(q)' /\ SeenLast(q)' /\ Checked(q)'
<1>1. /\ VLTypeOK /\ VInv(q) /\ q # NoPod
      /\ renewAge[q] \in 0 .. AgeCapV /\ pass[q].age \in 0 .. AgeCapV
      /\ stat \in [Pods -> {"up", "closing", "released", "down"}]
      /\ renewAge \in [Pods -> 0 .. AgeCapV] /\ pass \in [Pods -> VLPasses]
      /\ TTL \in Nat /\ FenceAt \in Nat /\ FenceAt < TTL
      /\ pass[q].set \in SUBSET Vehicles /\ pass[q].v \in Vehicles \cup {NoVehicle}
      /\ NoVehicle \in Vehicles \cup {NoVehicle}
  BY Fields, VLAssumptionsHold DEF VLInv, VLTypeOK, VLAssumptions, InTime
<1>2. RowsLast(q) /\ SeenLast(q) /\ Checked(q)
  BY DEF TogetherInv
\* How old a statement of q can be when its row is written.
<1>3. ASSUME AliveV(q), pass[q].pc \in Timed, NEW w \in 0 .. pass[q].age,
             NEW b \in {pass[q].age, renewAge[q]}
      PROVE  LeftAfter(w) >= TTL - b
  <2>1. w \in 0 .. AgeCapV /\ b \in 0 .. AgeCapV /\ w <= b /\ b <= TTL
    BY <1>1, <1>2, <1>3 DEF VInv, AgesOrdered, RowsLast, AgeCapV
  <2> QED BY <1>1, <2>1, FreshLasts
\* Steps that end neither in "lost" nor in "commit", and keep the age of the renew.
<1>4. ASSUME renewAge'[q] = renewAge[q], stat'[q] = stat[q] PROVE RowsLast(q)'
  <2> SUFFICES ASSUME AliveV(q), NEW v \in Vehicles, lease'[v].pod = q
               PROVE  lease'[v].left >= TTL - renewAge[q]
    BY <1>2, <1>4 DEF RowsLast, AliveV, RowsOf
  <2>1. CASE RowKept(v)
    BY <1>2, <2>1 DEF RowKept, RowsLast, RowsOf
  <2>2. CASE RowRevived(q, v)
    <3>1. PICK w \in 0 .. pass[q].age : lease'[v] = [pod |-> q, left |-> LeftAfter(w)]
      BY <2>2 DEF RowRevived
    <3>2. pass[q].pc \in Timed
      BY <2>2 DEF RowRevived, At, Timed
    <3> QED BY <1>3, <3>1, <3>2
  <2>3. CASE RowCommitted(q, v)
    <3>1. lease'[v] = [pod |-> q, left |-> LeftAfter(pass[q].age)]
      BY <1>1, <2>3 DEF RowCommitted, NoRow
    <3>2. pass[q].pc \in Timed
      BY <2>3 DEF RowCommitted, At, Timed
    <3> QED BY <1>1, <1>3, <3>1, <3>2
  <2> QED BY <1>1, <2>1, <2>2, <2>3, RowTurns DEF RowTurn, RowDropped, NoRow
<1>5. CASE Renew(q)
  <2>1. /\ pass'[q].pc = "lost" /\ pass'[q].age = pass[q].age
        /\ renewAge' = renewAge /\ stat' = stat /\ At(q, "renew")
    <3>1. /\ "lost" \in VLPassPCs /\ RowsOf(q) \in SUBSET Vehicles /\ "lost" \in Timed
      BY DEF VLPassPCs, RowsOf, Timed
    <3> QED BY <1>1, <1>5, <3>1, GotoMoves DEF Renew
  <2>2. PICK w \in 0 .. pass[q].age : lease' = RenewedV(q, w)
    BY <1>5 DEF Renew
  <2>3. ASSUME NEW v \in Vehicles, lease'[v].pod = q
        PROVE  lease'[v].left >= TTL - pass[q].age
    <3>1. LeftAfter(w) >= TTL - pass[q].age
      BY <1>1, <1>3, <2>1 DEF At, Timed
    <3>2. lease'[v] = IF v \in RowsOf(q) THEN [lease[v] EXCEPT !.left = LeftAfter(w)]
                      ELSE lease[v]
      BY <2>2 DEF RenewedV
    <3>3. v \in RowsOf(q)
      BY <2>3, <3>2 DEF RowsOf
    <3>4. lease[v] \in VLRows
      BY <1>1, Fields
    <3>5. lease'[v].left = LeftAfter(w)
      BY <3>2, <3>3, <3>4 DEF VLRows
    <3> QED BY <3>1, <3>5
  <2>4. SeenLast(q)' /\ Checked(q)'
    BY <2>1, <2>3 DEF SeenLast, Checked, At, RowsOf
  <2> QED BY <1>4, <2>1, <2>4
<1>6. CASE Lost(q)
  <2>1. /\ At(q, "lost") /\ stat' = stat /\ renewAge'[q] = pass[q].age
        /\ \A v \in Vehicles : lease'[v] \in {lease[v], NoRow}
    BY <1>1, <1>6 DEF Lost, FromSend, Without
  <2>2. pass[q].age <= renewAge[q] /\ AliveV(q)
    BY <1>1, <2>1 DEF VInv, AgesOrdered, At, Timed
  <2>3. RowsLast(q)'
    BY <1>1, <1>2, <2>1, <2>2 DEF RowsLast, SeenLast, AliveV, RowsOf, NoRow
  <2>4. pass'[q].pc = "reaped"
    <3>1. PICK X \in SUBSET (pass[q].set \ signedIn) : Goto(q, "reaped", X, NoVehicle)
      BY <1>6 DEF Lost
    <3>2. "reaped" \in VLPassPCs /\ X \in SUBSET Vehicles
      BY <1>1 DEF VLPassPCs
    <3> QED BY <1>1, <3>1, <3>2, GotoMoves
  <2> QED BY <2>3, <2>4 DEF SeenLast, Checked, At
<1>7. CASE Insert(q)
  <2>1. /\ renewAge' = renewAge /\ stat' = stat /\ lease' = lease
        /\ {"acquire", "commit"} \subseteq VLPassPCs
    BY <1>7 DEF Insert, VLPassPCs
  <2>2. \/ /\ MayInsert(q, pass[q].v)
           /\ pass'[q].pc = "commit" /\ pass'[q].v = pass[q].v
        \/ pass'[q].pc = "acquire"
    BY <1>1, <1>7, <2>1, GotoMoves DEF Insert
  <2> QED BY <1>4, <2>1, <2>2 DEF SeenLast, Checked, At, MayInsert
<1>8. CASE CloseV(q) \/ ReleaseAllV(q) \/ \E v \in Vehicles : RunStops(q, v) \/ RunEnds(q, v)
  <2>1. /\ renewAge' = renewAge /\ pass' = pass
        /\ AliveV(q) \/ stat' = stat
        /\ \A v \in Vehicles : lease'[v] \in {lease[v], NoRow}
    BY <1>8 DEF CloseV, ReleaseAllV, RunStops, RunEnds, Without, AliveV
  <2> QED BY <1>1, <1>2, <2>1
          DEF RowsLast, SeenLast, Checked, At, AliveV, RowsOf, NoRow
<1>9. CASE ExitV(q)
  BY <1>1, <1>9 DEF ExitV, RowsLast, SeenLast, Checked, At, AliveV
<1>10. CASE Start(q) \/ RenewFail(q) \/ End(q)
  <2>1. /\ renewAge' = renewAge /\ stat' = stat
        /\ pass'[q].pc \in {"idle", "renew"}
    BY <1>1, <1>10, FreshPasses DEF Start, RenewFail, End
  <2> QED BY <1>4, <2>1 DEF SeenLast, Checked, At
<1>11. ASSUME NEW v \in Vehicles, Begin(q, v)
       PROVE  RowsLast(q)' /\ SeenLast(q)' /\ Checked(q)'
  <2>1. renewAge' = renewAge /\ stat' = stat /\ pass'[q].pc = "begin"
    BY <1>1, <1>11 DEF Begin
  <2> QED BY <1>4, <2>1 DEF SeenLast, Checked, At
<1>12. CASE \/ Split(q) \/ (\E v \in Vehicles : StopGiven(q, v)) \/ ReleaseGiven(q)
            \/ Heal(q) \/ LockGroup(q) \/ Commit(q) \/ AcquireFail(q)
  <2>1. renewAge' = renewAge /\ stat' = stat
    BY <1>12 DEF Split, StopGiven, ReleaseGiven, Heal, LockGroup, Commit, AcquireFail
  <2>2. \E pc \in {"give", "acquire", "locked"} : \E S, v : Goto(q, pc, S, v)
    BY <1>12 DEF Split, StopGiven, ReleaseGiven, Heal, LockGroup, Commit, AcquireFail
  <2>3. pass'[q].pc \in {"give", "acquire", "locked"}
    BY <1>1, <2>2 DEF Goto
  <2> QED BY <1>4, <2>1, <2>3 DEF SeenLast, Checked, At
<1> QED BY <1>5, <1>6, <1>7, <1>8, <1>9, <1>10, <1>11, <1>12 DEF PodStep, Steps

\* The clock waits for the renews, so a living pod's are in time after a tick too.
LEMMA TogetherTick ==
  ASSUME InTime, VLInv, TogetherInv, TickV, NEW p \in Pods
  PROVE  RowsLast(p)' /\ SeenLast(p)' /\ Checked(p)'
<1>1. /\ VLTypeOK /\ VInv(p) /\ RowsLast(p) /\ SeenLast(p) /\ Checked(p)
      /\ pass[p] \in VLPasses /\ pass[p].age \in 0 .. AgeCapV
      /\ renewAge[p] \in 0 .. AgeCapV /\ lease \in [Vehicles -> VLRows]
      /\ TTL \in Nat /\ FenceAt \in Nat /\ FenceAt < TTL /\ "lost" \in Timed
  BY Fields, VLAssumptionsHold DEF VLInv, TogetherInv, VLAssumptions, Timed, InTime
<1>2. /\ stat' = stat
      /\ AliveV(p) => renewAge[p] < FenceAt
      /\ renewAge'[p] = IF AliveV(p) THEN Lower(renewAge[p] + 1, AgeCapV) ELSE 0
      /\ pass'[p] = IF pass[p].pc \in Timed
                    THEN [pass[p] EXCEPT !.age = Lower(@ + 1, AgeCapV)] ELSE pass[p]
  BY DEF TickV, InTime
<1>3. /\ pass'[p].pc = pass[p].pc /\ pass'[p].v = pass[p].v
      /\ pass[p].pc \in Timed => pass'[p].age = Lower(pass[p].age + 1, AgeCapV)
  BY <1>1, <1>2 DEF VLPasses
<1>4. \A v \in Vehicles :
        /\ lease'[v].pod = lease[v].pod /\ lease[v].left \in -1 .. TTL
        /\ lease'[v].left = IF lease[v].left < 0 THEN -1 ELSE lease[v].left - 1
  BY <1>1 DEF TickV, VLRows
<1>5. ASSUME NEW v \in Vehicles, NEW a \in 0 .. AgeCapV, a < FenceAt,
             lease[v].left >= TTL - a
      PROVE  lease'[v].left >= TTL - Lower(a + 1, AgeCapV)
  BY <1>1, <1>4, <1>5 DEF Lower, AgeCapV
<1>6. RowsLast(p)'
  <2> SUFFICES ASSUME AliveV(p)
               PROVE  /\ renewAge'[p] <= FenceAt
                      /\ \A v \in RowsOf(p)' : lease'[v].left >= TTL - renewAge'[p]
    BY <1>2 DEF RowsLast, AliveV
  <2>1. renewAge'[p] = Lower(renewAge[p] + 1, AgeCapV) /\ renewAge'[p] <= FenceAt
    BY <1>1, <1>2 DEF Lower, AgeCapV
  <2>2. \A v \in RowsOf(p)' : v \in Vehicles /\ lease[v].left >= TTL - renewAge[p]
    BY <1>1, <1>4 DEF RowsLast, RowsOf
  <2> QED BY <1>1, <1>2, <1>5, <2>1, <2>2
<1>7. SeenLast(p)'
  <2> SUFFICES ASSUME At(p, "lost"), NEW v \in Vehicles, lease[v].pod = p
               PROVE  lease'[v].left >= TTL - pass'[p].age
    BY <1>2, <1>3, <1>4 DEF SeenLast, At, AliveV, RowsOf
  <2>1. pass[p].age < FenceAt
    BY <1>1, <1>2 DEF VInv, AgesOrdered, At
  <2>2. lease[v].left >= TTL - pass[p].age
    BY <1>1 DEF SeenLast, RowsOf
  <2>3. pass'[p].age = Lower(pass[p].age + 1, AgeCapV)
    BY <1>1, <1>3 DEF At
  <2> QED BY <1>1, <1>5, <2>1, <2>2, <2>3
<1>8. Checked(p)'
  <2> SUFFICES ASSUME At(p, "commit"), NEW w \in Vehicles \ {pass[p].v}
               PROVE  lease'[w].pod \in {NoPod, p} \/ lease'[w].left <= 0
    BY <1>2, <1>3 DEF Checked, At, AliveV
  <2>1. lease[w].pod \in {NoPod, p} \/ lease[w].left <= 0
    BY <1>1 DEF Checked
  <2> QED BY <1>4, <2>1
<1> QED BY <1>6, <1>7, <1>8

\* No step makes a row of nobody's that is alive.
LEMMA NobodyStep ==
  ASSUME InTime, VLInv, TogetherInv, NEW q \in Pods, PodStep(q), NEW v \in Vehicles
  PROVE  NobodysDead(v)'
<1>1. q # NoPod /\ NoRow.left = -1 /\ VLTypeOK
      /\ \A l : [pod |-> q, left |-> l].pod = q
  BY VLAssumptionsHold DEF VLAssumptions, NoRow, VLInv
<1>2. CASE RowKept(v)
  BY <1>2 DEF RowKept, NobodysDead, TogetherInv
<1>3. CASE lease'[v] = NoRow
  BY <1>1, <1>3 DEF NobodysDead
<1>4. CASE \E l : lease'[v] = [pod |-> q, left |-> l]
  BY <1>1, <1>4 DEF NobodysDead
<1>5. CASE RowDropped(q, v)
  BY <1>3, <1>5 DEF RowDropped
<1>6. CASE RowRevived(q, v)
  BY <1>4, <1>6 DEF RowRevived
<1>7. CASE RowCommitted(q, v)
  BY <1>3, <1>4, <1>7 DEF RowCommitted
<1> QED BY <1>1, <1>2, <1>5, <1>6, <1>7, RowTurns DEF RowTurn

\* TogetherInv is inductive.
LEMMA TogetherInit == ASSUME InTime PROVE VLInit => TogetherInv
<1> SUFFICES ASSUME VLInit PROVE TogetherInv
  OBVIOUS
<1>1. \A p \in Pods : pass[p].pc = "idle" /\ renewAge[p] = 0 /\ p # NoPod
  BY FreshPasses, VLAssumptionsHold DEF VLInit, VLAssumptions
<1>2. \A v \in Vehicles : lease[v] = NoRow \/ (lease[v].pod \in Pods /\ lease[v].left = TTL)
  BY DEF VLInit
<1>3. NoRow.pod = NoPod /\ NoRow.left = -1 /\ TTL \in Nat /\ FenceAt \in Nat
      /\ NoPod \notin Pods
  BY VLAssumptionsHold DEF NoRow, VLAssumptions
<1>4. ASSUME NEW p \in Pods PROVE RowsLast(p) /\ SeenLast(p) /\ Checked(p)
  BY <1>1, <1>2, <1>3 DEF RowsLast, SeenLast, Checked, At, RowsOf
<1>5. ASSUME NEW v \in Vehicles PROVE NobodysDead(v)
  BY <1>2, <1>3 DEF NobodysDead
<1> QED BY <1>4, <1>5 DEF TogetherInv

\* What an acquire has checked holds until it commits.
LEMMA TogetherInvStep ==
  ASSUME InTime PROVE VLInv /\ TogetherInv /\ [VLNext]_vlVars => TogetherInv'
<1> SUFFICES ASSUME VLInv, TogetherInv, [VLNext]_vlVars PROVE TogetherInv'
  OBVIOUS
<1>1. ASSUME NEW q \in Pods, PodStep(q) PROVE TogetherInv'
  <2>1. ASSUME NEW p \in Pods PROVE RowsLast(p)' /\ SeenLast(p)' /\ Checked(p)'
    BY <1>1, TogetherPeers, TogetherOwn
  <2>2. ASSUME NEW v \in Vehicles PROVE NobodysDead(v)'
    BY <1>1, NobodyStep
  <2> QED BY <2>1, <2>2 DEF TogetherInv
<1>2. CASE TickV
  <2>1. ASSUME NEW v \in Vehicles PROVE NobodysDead(v)'
    <3>1. /\ lease'[v].pod = lease[v].pod /\ lease[v].left \in Int
          /\ lease'[v].left = IF lease[v].left < 0 THEN -1 ELSE lease[v].left - 1
      BY <1>2, Fields DEF TickV, VLInv, VLRows
    <3>2. NobodysDead(v)
      BY DEF TogetherInv
    <3> QED BY <3>1, <3>2 DEF NobodysDead
  <2> QED BY <1>2, <2>1, TogetherTick DEF TogetherInv
<1>3. CASE (\E v \in Vehicles : SignOutV(v)) \/ UNCHANGED vlVars
  <2>1. UNCHANGED <<lease, stat, renewAge, pass>>
    BY <1>3 DEF SignOutV, vlVars, podVarsV
  <2> QED BY <2>1 DEF TogetherInv, RowsLast, SeenLast, Checked, NobodysDead, At, AliveV,
                      RowsOf
<1> QED BY <1>1, <1>2, <1>3, StepsOfVL

\* A row that is alive after a step of q was alive before it, the same pod's, or is
\* the one that q has just committed.
LEMMA LiveStays ==
  ASSUME InTime, VLInv, TogetherInv, NEW q \in Pods, PodStep(q), NEW w \in Vehicles,
         lease'[w].left > 0
  PROVE  \/ lease[w].left > 0 /\ lease[w].pod = lease'[w].pod
         \/ At(q, "commit") /\ w = pass[q].v /\ lease'[w].pod = q
<1>1. NoRow.left = -1 /\ VLTypeOK /\ \A l : [pod |-> q, left |-> l].pod = q
  BY DEF NoRow, VLInv
<1>2. CASE RowKept(w)
  BY <1>2 DEF RowKept
<1>3. lease'[w] # NoRow
  BY <1>1
<1>4. CASE RowRevived(q, w)
  <2>1. lease[w].left > 0 /\ lease[w].pod = q
    BY <1>4, RevivedWasLive
  <2> QED BY <1>1, <1>4, <2>1 DEF RowRevived
<1>5. CASE RowCommitted(q, w)
  BY <1>1, <1>3, <1>5 DEF RowCommitted
<1> QED BY <1>1, <1>2, <1>3, <1>4, <1>5, RowTurns DEF RowTurn, RowDropped

\* No step of a pod splits a user that is on one pod.
LEMMA TogetherStep ==
  ASSUME InTime, VLInv, TogetherInv, [VLNext]_vlVars, NoSplit
  PROVE  NoSplit'
<1> SUFFICES ASSUME NEW v \in Vehicles, NEW w \in Vehicles,
                    lease'[v].left > 0, lease'[w].left > 0
             PROVE  lease'[v].pod = lease'[w].pod
  BY DEF NoSplit
<1>1. ASSUME NEW q \in Pods, PodStep(q) PROVE lease'[v].pod = lease'[w].pod
  \* What is alive beside a row that q commits is q's: it was checked.
  <2>1. ASSUME NEW u \in Vehicles, At(q, "commit"), u # pass[q].v, lease[u].left > 0
        PROVE  lease[u].pod = q
    <3>1. lease[u].left \in Int
      BY Fields DEF VLInv
    <3>2. lease[u].pod \in {NoPod, q}
      BY <2>1, <3>1 DEF TogetherInv, Checked
    <3> QED BY <2>1, <3>1, <3>2 DEF TogetherInv, NobodysDead
  <2>2. /\ \/ lease[v].left > 0 /\ lease[v].pod = lease'[v].pod
           \/ At(q, "commit") /\ v = pass[q].v /\ lease'[v].pod = q
        /\ \/ lease[w].left > 0 /\ lease[w].pod = lease'[w].pod
           \/ At(q, "commit") /\ w = pass[q].v /\ lease'[w].pod = q
    BY <1>1, LiveStays
  <2> QED BY <2>1, <2>2 DEF NoSplit
<1>2. CASE TickV
  <2>1. ASSUME NEW u \in {v, w} PROVE lease[u].left > 0 /\ lease'[u].pod = lease[u].pod
    <3>1. /\ lease'[u].pod = lease[u].pod /\ lease[u].left \in Int
          /\ lease'[u].left = IF lease[u].left < 0 THEN -1 ELSE lease[u].left - 1
      BY <1>2, Fields DEF TickV, VLInv, VLRows
    <3> QED BY <3>1
  <2> QED BY <2>1 DEF NoSplit
<1>3. CASE (\E u \in Vehicles : SignOutV(u)) \/ UNCHANGED vlVars
  BY <1>3 DEF SignOutV, vlVars, NoSplit
<1> QED BY <1>1, <1>2, <1>3, StepsOfVL

\* No interleaving of passes, hand-offs, acquires, shutdowns and crashes, failing or
\* losing replies as they may, splits a user over two pods, as long as renews are in
\* time and a pod fences itself before its leases run out.
THEOREM UsersStayTogether == ASSUME InTime PROVE VLSpec => AcquireKeepsTogether
<1>1. VLSpec => []TogetherInv
  BY VLInvariance, TogetherInit, TogetherInvStep, PTL DEF VLSpec
<1>2. VLInv /\ TogetherInv /\ [VLNext]_vlVars => [NoSplit => NoSplit']_vlVars
  BY TogetherStep
<1> QED BY <1>1, <1>2, VLInvariance, PTL DEF VLSpec, AcquireKeepsTogether

-----------------------------------------------------------------------------
(***************************************************************************)
(* One connection for a vehicle.  The hand-off does not keep this by        *)
(* itself: its wait ends at once (the run that refutes OneConnection).     *)
(* Here is what would: subscriptions that end as they are told to.  Then   *)
(* what runs is owned, what is owned is leased, and a row is of one pod.   *)
(* Renews must be in time too, and nobody sign out, as a vehicle that is   *)
(* reaped is released before it is stopped.                                *)
(***************************************************************************)
StopsInTime == {"late", "slow_stop", "sign_out"} \cap Faults = {}

\* What p runs it streams and owns; it has nothing to reap and has renewed in time.
Connected(p) ==
    /\ running[p] = active[p]
    /\ active[p] \subseteq owned[p]
    /\ stat[p] # "up" => active[p] = {}
    /\ pass[p].pc = "reaped" => pass[p].set = {}
    /\ AliveV(p) => renewAge[p] <= FenceAt

ConnectedInv == signedIn = Vehicles /\ \A p \in Pods : Connected(p)

\* A subscription that is stopped is stopped, and no other.
LEMMA MonitorTells ==
  ASSUME VLTypeOK, StopsInTime, NEW q \in Pods, NEW S
  PROVE  /\ Subscribe(q, S) => /\ active'[q] = active[q] \cup S
                               /\ running'[q] = running[q] \cup S
         /\ Unsubscribe(q, S) => /\ active'[q] = active[q] \ S
                                 /\ running'[q] = running[q] \ S
         /\ Subscribe(q, S) \/ Unsubscribe(q, S) =>
                \A p \in Pods : p # q => running'[p] = running[p]
<1>1. active \in [Pods -> SUBSET Vehicles] /\ running \in [Pods -> SUBSET Vehicles]
      /\ "slow_stop" \notin Faults
  BY DEF VLTypeOK, StopsInTime
<1> QED BY <1>1 DEF Subscribe, Unsubscribe

\* A step of q leaves the connections of every other pod alone.
LEMMA PeerConnected ==
  ASSUME VLTypeOK, StopsInTime, NEW q \in Pods, PodStep(q), NEW p \in Pods, p # q,
         Connected(p)
  PROVE  Connected(p)'
<1>1. running'[p] = running[p]
  <2>1. running \in [Pods -> SUBSET Vehicles]
    BY DEF VLTypeOK
  <2>2. CASE Start(q) \/ Renew(q) \/ RenewFail(q) \/ Lost(q)
    BY <2>2, MonitorTells DEF Start, Renew, RenewFail, Lost
  <2>3. CASE Split(q) \/ (\E v \in Vehicles : StopGiven(q, v)) \/ ReleaseGiven(q) \/ Heal(q)
    BY <2>3, MonitorTells DEF Split, StopGiven, ReleaseGiven, Heal
  <2>4. CASE \/ \E v \in Vehicles : Begin(q, v)
             \/ LockGroup(q) \/ Insert(q) \/ AcquireFail(q) \/ End(q) \/ Commit(q)
    BY <2>4, MonitorTells DEF Begin, LockGroup, Insert, AcquireFail, End, Commit
  <2>5. CASE CloseV(q) \/ ReleaseAllV(q) \/ ExitV(q)
    BY <2>1, <2>5, MonitorTells DEF CloseV, ReleaseAllV, ExitV
  <2>6. CASE \E v \in Vehicles : RunStops(q, v) \/ RunEnds(q, v)
    BY <2>1, <2>6 DEF RunStops, RunEnds
  <2> QED BY <2>2, <2>3, <2>4, <2>5, <2>6 DEF PodStep, Steps
<1> QED BY <1>1, PeersKept DEF Connected, AliveV

\* A step of q itself stops what it gives up, and starts only what it owns.
LEMMA OwnConnected ==
  ASSUME VLInv, ConnectedInv, StopsInTime, NEW q \in Pods, PodStep(q)
  PROVE  Connected(q)' /\ signedIn' = signedIn
<1>1. /\ VLTypeOK /\ VInv(q) /\ Connected(q) /\ signedIn = Vehicles
      /\ pass[q].set \subseteq Vehicles /\ pass[q].v \in Vehicles \cup {NoVehicle}
      /\ pass[q].age \in 0 .. AgeCapV /\ renewAge[q] \in 0 .. AgeCapV
      /\ stat \in [Pods -> {"up", "closing", "released", "down"}]
      /\ owned \in [Pods -> SUBSET Vehicles] /\ active \in [Pods -> SUBSET Vehicles]
      /\ running \in [Pods -> SUBSET Vehicles]
      /\ renewAge \in [Pods -> 0 .. AgeCapV] /\ pass \in [Pods -> VLPasses]
      /\ FenceAt \in Nat
  BY Fields, VLAssumptionsHold DEF VLInv, ConnectedInv, VLTypeOK, VLAssumptions
<1>2. \A pc, S, v : Goto(q, pc, S, v) => pass'[q].pc = pc /\ pass'[q].set = S
  BY <1>1 DEF Goto
<1> USE DEF Connected, AliveV
<1>3. CASE Start(q) \/ End(q) \/ \E v \in Vehicles : Begin(q, v)
  <2>1. pass'[q].pc \in {"renew", "idle", "begin"}
    <3>1. CASE Start(q) \/ End(q)
      BY <1>1, <3>1, FreshPasses DEF Start, End, IdleV
    <3>2. ASSUME NEW v \in Vehicles, Begin(q, v) PROVE pass'[q].pc = "begin"
      BY <1>1, <3>2 DEF Begin
    <3> QED BY <1>3, <3>1, <3>2
  <2>2. UNCHANGED <<signedIn, stat, owned, active, running, renewAge>>
    BY <1>3 DEF Start, End, Begin
  <2> QED BY <1>1, <2>1, <2>2
<1>4. CASE Renew(q) \/ LockGroup(q) \/ Insert(q) \/ AcquireFail(q)
  BY <1>1, <1>2, <1>4 DEF Renew, LockGroup, Insert, AcquireFail
<1>5. CASE RenewFail(q)
  <2>1. UNCHANGED <<signedIn, stat, renewAge>> /\ pass'[q].pc = "idle"
    BY <1>1, <1>5, FreshPasses DEF RenewFail
  <2>2. CASE UNCHANGED <<owned, active, running>>
    BY <1>1, <2>1, <2>2
  <2>3. CASE owned' = [owned EXCEPT ![q] = {}] /\ Unsubscribe(q, owned[q])
    <3>1. active'[q] = active[q] \ owned[q] /\ running'[q] = running[q] \ owned[q]
      BY <1>1, <2>3, MonitorTells
    <3>2. active'[q] = {} /\ running'[q] = {} /\ owned'[q] = {}
      BY <1>1, <2>3, <3>1
    <3> QED BY <1>1, <2>1, <3>2
  <2> QED BY <1>5, <2>2, <2>3 DEF RenewFail
<1>6. CASE Lost(q)
  <2>1. PICK orphans \in SUBSET (pass[q].set \ signedIn) :
           /\ owned' = [owned EXCEPT ![q] = pass[q].set \ orphans]
           /\ Unsubscribe(q, owned[q] \ pass[q].set)
           /\ Goto(q, "reaped", orphans, NoVehicle)
    BY <1>6 DEF Lost
  <2>2. /\ UNCHANGED <<signedIn, stat>> /\ At(q, "lost")
        /\ renewAge' = [renewAge EXCEPT ![q] = pass[q].age]
    BY <1>6 DEF Lost, FromSend
  <2>3. orphans = {}
    BY <1>1
  <2>4. renewAge'[q] <= renewAge[q]
    BY <1>1, <2>2 DEF VInv, AgesOrdered, At, Timed
  <2>5. pass'[q].pc = "reaped" /\ pass'[q].set = {}
    BY <1>2, <2>1, <2>3
  <2>6. owned'[q] = pass[q].set
    BY <1>1, <2>1, <2>3
  <2> DEFINE G == owned[q] \ pass[q].set
  <2>7. active'[q] = active[q] \ G /\ running'[q] = running[q] \ G
    <3>1. Unsubscribe(q, G)
      BY <2>1
    <3> HIDE DEF G
    <3> QED BY <1>1, <3>1, MonitorTells
  <2>8. active'[q] \subseteq owned'[q] /\ running'[q] = active'[q]
    BY <1>1, <2>6, <2>7
  <2>9. (stat'[q] = "up" \/ active'[q] = {}) /\ renewAge'[q] <= FenceAt
    <3>1. stat[q] = "up" \/ active[q] = {}
      BY <1>1
    <3>2. renewAge[q] \in Int /\ renewAge'[q] \in Int
      BY <1>1, <2>2
    <3>3. renewAge[q] <= FenceAt
      BY <1>1, <2>2 DEF At
    <3> QED BY <1>1, <2>2, <2>4, <2>7, <3>1, <3>2, <3>3
  <2> QED BY <1>1, <2>2, <2>5, <2>8, <2>9
<1>7. CASE Split(q) \/ (\E v \in Vehicles : StopGiven(q, v)) \/ ReleaseGiven(q)
  <2>1. CASE Split(q)
    <3>1. /\ Unsubscribe(q, pass[q].set) /\ pass'[q].pc = "give"
          /\ UNCHANGED <<signedIn, stat, owned, renewAge>>
      BY <1>2, <2>1 DEF Split
    <3>2. active'[q] = active[q] \ pass[q].set /\ running'[q] = running[q] \ pass[q].set
      BY <1>1, <3>1, MonitorTells
    <3> QED BY <1>1, <3>1, <3>2
  <2>2. ASSUME NEW v \in Vehicles, StopGiven(q, v) PROVE Connected(q)' /\ signedIn' = signedIn
    <3>1. /\ Unsubscribe(q, {v}) /\ pass'[q].pc = "give"
          /\ UNCHANGED <<signedIn, stat, owned, renewAge>>
      BY <1>2, <2>2 DEF StopGiven
    <3>2. active'[q] = active[q] \ {v} /\ running'[q] = running[q] \ {v}
      BY <1>1, <3>1, MonitorTells
    <3> QED BY <1>1, <3>1, <3>2
  <2>3. CASE ReleaseGiven(q)
    BY <1>1, <1>2, <2>3 DEF ReleaseGiven, Streaming
  <2> QED BY <1>7, <2>1, <2>2, <2>3
<1>8. CASE Heal(q)
  <2>1. /\ UNCHANGED <<signedIn, stat, owned, renewAge>> /\ pass'[q].pc = "acquire"
        /\ AliveV(q)
    BY <1>2, <1>8 DEF Heal, At
  <2>2. CASE UNCHANGED <<active, running>>
    BY <1>1, <2>1, <2>2
  <2>3. CASE ~ Closing(q) /\ Subscribe(q, Unstreamed(q))
    <3>1. stat[q] = "up" /\ Unstreamed(q) \subseteq owned[q]
      BY <1>1, <2>1, <2>3 DEF Closing, Unstreamed
    <3>2. /\ active'[q] = active[q] \cup Unstreamed(q)
          /\ running'[q] = running[q] \cup Unstreamed(q)
      BY <1>1, <2>3, MonitorTells
    <3> QED BY <1>1, <2>1, <3>1, <3>2
  <2> QED BY <1>8, <2>2, <2>3 DEF Heal
<1>9. CASE Commit(q)
  <2>1. /\ UNCHANGED <<signedIn, stat, renewAge>> /\ pass'[q].pc = "acquire" /\ AliveV(q)
    BY <1>2, <1>9 DEF Commit, At
  <2>2. CASE UNCHANGED <<owned, active, running>>
    BY <1>1, <2>1, <2>2
  <2>3. CASE /\ ~ Closing(q) /\ owned' = [owned EXCEPT ![q] = @ \cup {pass[q].v}]
             /\ Subscribe(q, {pass[q].v})
    <3>1. stat[q] = "up"
      BY <1>1, <2>1, <2>3 DEF Closing
    <3>2. owned'[q] = owned[q] \cup {pass[q].v}
      BY <1>1, <2>3
    <3>3. /\ active'[q] = active[q] \cup {pass[q].v}
          /\ running'[q] = running[q] \cup {pass[q].v}
      BY <1>1, <2>3, MonitorTells
    <3> QED BY <1>1, <2>1, <3>1, <3>2, <3>3
  <2> QED BY <1>9, <2>2, <2>3 DEF Commit
<1>10. CASE CloseV(q)
  <2>1. /\ Unsubscribe(q, owned[q]) /\ UNCHANGED <<signedIn, owned, renewAge, pass>>
        /\ stat[q] = "up"
    BY <1>10 DEF CloseV
  <2>2. active'[q] = {} /\ running'[q] = {}
    BY <1>1, <2>1, MonitorTells
  <2> QED BY <1>1, <2>1, <2>2
<1>11. CASE ReleaseAllV(q)
  BY <1>1, <1>11 DEF ReleaseAllV
<1>12. CASE ExitV(q)
  BY <1>1, <1>12, FreshPasses DEF ExitV
<1>13. CASE \E v \in Vehicles : RunStops(q, v) \/ RunEnds(q, v)
  <2>1. UNCHANGED <<signedIn, stat, owned, renewAge, pass>>
    BY <1>13 DEF RunStops, RunEnds
  <2>2. running'[q] = active'[q] /\ active'[q] \subseteq active[q]
    <3>1. ASSUME NEW v \in Vehicles, RunStops(q, v) PROVE FALSE
      BY <1>1, <3>1 DEF RunStops
    <3>2. ASSUME NEW v \in Vehicles, RunEnds(q, v)
          PROVE  running'[q] = active'[q] /\ active'[q] \subseteq active[q]
      BY <1>1, <3>2 DEF RunEnds
    <3> QED BY <1>13, <3>1, <3>2
  <2> QED BY <1>1, <2>1, <2>2
<1> QED BY <1>3, <1>4, <1>5, <1>6, <1>7, <1>8, <1>9, <1>10, <1>11, <1>12, <1>13
        DEF PodStep, Steps

\* ConnectedInv is inductive.
LEMMA ConnectedStep ==
  ASSUME StopsInTime PROVE VLInv /\ ConnectedInv /\ [VLNext]_vlVars => ConnectedInv'
<1> SUFFICES ASSUME VLInv, ConnectedInv, [VLNext]_vlVars PROVE ConnectedInv'
  OBVIOUS
<1>1. ASSUME NEW q \in Pods, PodStep(q) PROVE ConnectedInv'
  BY <1>1, PeerConnected, OwnConnected DEF VLInv, ConnectedInv
<1>2. CASE TickV
  <2> SUFFICES ASSUME NEW p \in Pods PROVE Connected(p)'
    BY <1>2 DEF TickV, ConnectedInv
  <2>1. /\ Connected(p) /\ pass[p] \in VLPasses /\ renewAge[p] \in 0 .. AgeCapV
        /\ FenceAt \in Nat /\ TTL \in Nat
    BY Fields, VLAssumptionsHold DEF VLInv, ConnectedInv, VLAssumptions
  <2>2. pass'[p].pc = pass[p].pc /\ pass'[p].set = pass[p].set
    BY <1>2, <2>1 DEF TickV, VLPasses
  <2>3. AliveV(p) => renewAge[p] < FenceAt /\ renewAge'[p] = Lower(renewAge[p] + 1, AgeCapV)
    BY <1>2 DEF TickV, StopsInTime
  <2>4. AliveV(p) => renewAge'[p] <= FenceAt
    BY <2>1, <2>3 DEF Lower, AgeCapV
  <2> QED BY <1>2, <2>1, <2>2, <2>4 DEF TickV, Connected, AliveV
<1>3. CASE UNCHANGED vlVars
  BY <1>3 DEF vlVars, podVarsV, ConnectedInv, Connected, AliveV
<1>4. ASSUME NEW v \in Vehicles, SignOutV(v) PROVE FALSE
  BY <1>4 DEF SignOutV, StopsInTime
<1> QED BY <1>1, <1>2, <1>3, <1>4, StepsOfVL

\* Each vehicle is subscribed by one process, through hand-offs, failed calls, lost
\* replies, crashes and shutdowns: all that stands against the promise of the package
\* is a subscription that is not over when its row goes, because its end is slow or its
\* owner has signed out, or a renew that is late.
THEOREM OneProcessEach == ASSUME StopsInTime PROVE VLSpec => []OneConnection
<1>1. VLInit => ConnectedInv
  BY FreshPasses, VLAssumptionsHold DEF VLInit, ConnectedInv, Connected, VLAssumptions
<1>2. VLSpec => []ConnectedInv
  BY <1>1, VLInvariance, ConnectedStep, PTL DEF VLSpec
<1>3. VLInv /\ ConnectedInv => OneConnection
  <2> SUFFICES ASSUME VLInv, ConnectedInv, NEW p \in Pods, NEW q \in Pods, p # q,
                      NEW v \in running[p] \cap running[q]
               PROVE  FALSE
    BY DEF OneConnection
  <2>1. ASSUME NEW r \in {p, q} PROVE lease[v].pod = r
    <3>1. v \in owned[r] /\ stat[r] = "up" /\ renewAge[r] <= TTL
      BY Fields, VLAssumptionsHold
         DEF ConnectedInv, Connected, VLInv, AliveV, VLAssumptions, AgeCapV
    <3> QED BY <3>1 DEF VLInv, VInv, OwnedLasts, Serving, Lasts
  <2> QED BY <2>1
<1> QED BY <1>2, <1>3, VLInvariance, PTL
=============================================================================
