--------------------------- MODULE FairShareProofs ---------------------------
(***************************************************************************)
(* The fair share proved for any pods, groups, generations and windows.     *)
(*                                                                         *)
(* What a pass does is decided in one step and done in the next, so what it *)
(* gives back must still be its own by then.  The strengthening says why it *)
(* is: whoever is inside a pass is running and has not made it yet, so the  *)
(* clock waits, and what the pass has renewed nobody takes.                 *)
(***************************************************************************)
EXTENDS FairShare, NumberLemmas, FiniteSetTheorems, TLAPS

\* The assumptions on the constants, as one fact to cite.
Settings ==
    /\ NoPod \notin Pods /\ IsFiniteSet(Pods) /\ IsFiniteSet(Groups)
    /\ Driven \subseteq Groups /\ Signing \subseteq Groups
    /\ TTL \in Nat /\ Window \in Nat /\ Grace \in Nat /\ MaxPerTick \in Nat \ {0}

\* They all hold.
LEMMA SettingsHold == Settings
  BY FSPodsAssumption, FSGroupsAssumption, FSTimingAssumption DEF Settings

-----------------------------------------------------------------------------
(***************************************************************************)
(* The operators.                                                          *)
(***************************************************************************)
\* The start of a pod is a number, whoever started before.
LEMMA StartIsNumber ==
  ASSUME NEW p \in Pods, started \in [Pods -> Nat] PROVE StartOf(p) \in Nat
<1> DEFINE S == {started[q] : q \in Pods}
<1>1. S \in SUBSET Nat /\ S # {} /\ IsFiniteSet(S)
  <2>1. started \in Surjection(Pods, S)
    BY DEF Surjection
  <2> QED BY <2>1, SettingsHold, FS_Surjection DEF Settings
<1>2. Max(S) \in S
  <2> HIDE DEF S
  <2> QED BY <1>1, MaxOfFinite
<1> QED BY <1>1, <1>2 DEF StartOf

\* The share is a number, however many groups and pods there are.
LEMMA ShareIsNumber ==
  ASSUME NEW G, NEW P, IsFiniteSet(G), IsFiniteSet(P)
  PROVE  fairShare(Cardinality(G), Cardinality(P)) \in Nat
<1>1. Cardinality(G) \in Nat /\ Cardinality(P) \in Nat
  BY FS_CardinalityType
<1>2. ASSUME NEW a \in Nat, NEW n \in Nat \ {0} PROVE (a + n - 1) \div n + 1 \in Nat
  OBVIOUS
<1> QED BY <1>1, <1>2 DEF fairShare

-----------------------------------------------------------------------------
(***************************************************************************)
(* The invariant.                                                          *)
(***************************************************************************)
Views == [pc : {"idle", "take", "give"}, share : Nat, newest : BOOLEAN,
          give : SUBSET Groups]

\* What p is about to give back it holds, and has renewed in this pass.
GivesItsOwn(p) ==
    view[p].pc = "give" => view[p].give \subseteq Holds(p) /\ renewed[p] = 0

\* Only a running pod that has not yet made its pass is inside one.
InPass(p) == view[p].pc # "idle" => p \in Up \ passed

FSInv ==
    /\ FSTypeOK
    /\ \A p \in Pods : GivesItsOwn(p) /\ InPass(p)

\* What a view is made of.
LEMMA ViewFields ==
  /\ Resting \in Views /\ Resting.pc = "idle"
  /\ \A v \in Views : /\ v.pc \in {"idle", "take", "give"} /\ v.share \in Nat
                      /\ v.give \subseteq Groups
  /\ \A G \in SUBSET Groups :
        LET v == [Resting EXCEPT !.pc = "give", !.give = G]
        IN v \in Views /\ v.pc = "give" /\ v.give = G
  BY DEF Resting, Views

\* An age that saturates stays below its cap.
LEMMA AgeGrows ==
  ASSUME NEW cap \in Nat, NEW a \in 0 .. cap + 1
  PROVE  Smaller(a + 1, cap + 1) \in 0 .. cap + 1
  BY DEF Smaller

\* What a pass does to the rows, its view and what it is to give back.
TakesAndSheds(p, S, shed) ==
    /\ holder' = [g \in Groups |-> IF g \in S THEN p ELSE holder[g]]
    /\ freed' = [g \in Groups |-> IF g \in S THEN Grace + 1 ELSE freed[g]]
    /\ view' = [view EXCEPT ![p] = [Resting EXCEPT
                  !.pc = "give", !.give = (Holds(p) \ cand) \cup shed]]

\* What a pass takes is free and within the share; what it sheds it kept or took.
LEMMA TakeParts ==
  ASSUME FSTypeOK, NEW p \in Pods, Take(p)
  PROVE  \E S \in SUBSET Free(p) :
           /\ Cardinality(S) = 0
              \/ Cardinality(S) + Cardinality(Holds(p) \cap cand) <= view[p].share
           /\ \E shed \in SUBSET ((Holds(p) \cap cand) \cup S) : TakesAndSheds(p, S, shed)
<1> DEFINE mine == Holds(p) \cap cand
           want == view[p].share - Cardinality(mine)
           room == IF want <= 0 \/ p \in draining THEN 0 ELSE Smaller(want, MaxPerTick)
<1>1. PICK S \in kSubset(Smaller(room, Cardinality(Free(p))), Free(p)) :
        \E shed \in IF MayShed(p, mine \cup S) = {} THEN {{}}
                    ELSE {{g} : g \in MayShed(p, mine \cup S)} : TakesAndSheds(p, S, shed)
  BY DEF Take, TakesAndSheds
<1>2. S \subseteq Free(p) /\ Cardinality(S) = Smaller(room, Cardinality(Free(p)))
  BY <1>1 DEF kSubset
<1>3. MayShed(p, mine \cup S) \subseteq mine \cup S
  BY DEF MayShed
<1>4. \E shed \in SUBSET (mine \cup S) : TakesAndSheds(p, S, shed)
  <2> HIDE DEF mine, room
  <2> QED BY <1>1, <1>3
<1>5. Cardinality(S) = 0 \/ Cardinality(S) + Cardinality(mine) <= view[p].share
  <2>1. Free(p) \in SUBSET Groups /\ mine \in SUBSET Groups
    BY DEF FSTypeOK, Free, Holds
  <2>2. Cardinality(Free(p)) \in Nat /\ Cardinality(mine) \in Nat
    <3> HIDE DEF mine
    <3> QED BY <2>1, SettingsHold, FS_Subset, FS_CardinalityType DEF Settings
  <2>3. view[p].share \in Nat /\ MaxPerTick \in Nat
    BY SettingsHold DEF FSTypeOK, Settings
  <2> HIDE DEF mine
  <2> QED BY <1>2, <2>2, <2>3 DEF Smaller
<1> QED BY <1>2, <1>4, <1>5

\* What a release counts from is within the grace.
LEMMA ReleasedIs ==
  ASSUME FSTypeOK, NEW p \in Pods PROVE Released(p) \in 0 .. Grace + 1
<1>1. TTL \in Nat /\ Grace \in Nat
  BY SettingsHold DEF Settings
<1>2. renewed[p] \in 0 .. TTL + 1
  BY DEF FSTypeOK
<1> QED BY <1>1, <1>2 DEF Released

\* A pass keeps the types.
LEMMA PassTypes ==
  ASSUME FSTypeOK, NEW p \in Pods, Pass(p) PROVE FSTypeOK'
<1>1. /\ view \in [Pods -> Views] /\ view[p] \in Views /\ started \in [Pods -> Nat]
      /\ holder \in [Groups -> Pods \cup {NoPod}] /\ freed \in [Groups -> 0 .. Grace + 1]
      /\ seen \in [Pods -> 0 .. Window + 1] /\ renewed \in [Pods -> 0 .. TTL + 1]
      /\ cand \subseteq Groups
  BY DEF FSTypeOK, Views
<1>2. TTL \in Nat /\ Window \in Nat /\ Grace \in Nat
  BY SettingsHold DEF Settings
<1>3. CASE Look(p)
  <2>1. StartOf(p) \in Nat
    BY <1>1, StartIsNumber
  <2>2. fairShare(Cardinality(cand), Cardinality(Live(p) \ draining)) \in Nat
    <3>1. Live(p) \ draining \in SUBSET Pods
      BY DEF Live
    <3>2. IsFiniteSet(cand) /\ IsFiniteSet(Live(p) \ draining)
      BY <1>1, <3>1, SettingsHold, FS_Subset DEF Settings
    <3> QED BY <3>2, ShareIsNumber
  <2>3. IsNewest(p) \in BOOLEAN
    BY DEF IsNewest
  <2> DEFINE seenNow == [pc |-> "take", newest |-> IsNewest(p), give |-> {},
                         share |-> fairShare(Cardinality(cand),
                                             Cardinality(Live(p) \ draining))]
  <2>4. seenNow \in Views
    BY <2>2, <2>3 DEF Views
  <2>5. /\ view' = [view EXCEPT ![p] = seenNow]
        /\ started' = [started EXCEPT ![p] = StartOf(p)]
        /\ seen' = [seen EXCEPT ![p] = 0]
        /\ UNCHANGED <<life, draining, cand, busy, renewed, holder, freed, passed>>
    BY <1>3 DEF Look, envVars
  <2> HIDE DEF seenNow
  <2>6. view' \in [Pods -> Views] /\ started' \in [Pods -> Nat]
        /\ seen' \in [Pods -> 0 .. Window + 1]
    BY <1>1, <1>2, <2>1, <2>4, <2>5
  <2> QED BY <2>5, <2>6 DEF FSTypeOK, Views, Up
<1>4. CASE Take(p)
  <2>1. PICK S \in SUBSET Free(p) :
          \E shed \in SUBSET ((Holds(p) \cap cand) \cup S) : TakesAndSheds(p, S, shed)
    BY <1>4, TakeParts
  <2>6. PICK shed \in SUBSET ((Holds(p) \cap cand) \cup S) : TakesAndSheds(p, S, shed)
    BY <2>1
  <2>2. renewed' = [renewed EXCEPT ![p] = 0]
        /\ UNCHANGED <<life, draining, cand, busy, started, seen, passed>>
    BY <1>4 DEF Take, envVars
  <2>3. (Holds(p) \ cand) \cup shed \in SUBSET Groups
    BY <1>1, <2>6 DEF Holds, Free
  <2>4. view' \in [Pods -> Views]
    BY <1>1, <2>3, <2>6, ViewFields DEF TakesAndSheds
  <2>5. holder' \in [Groups -> Pods \cup {NoPod}] /\ freed' \in [Groups -> 0 .. Grace + 1]
        /\ renewed' \in [Pods -> 0 .. TTL + 1]
    BY <1>1, <1>2, <2>2, <2>6 DEF TakesAndSheds
  <2> QED BY <2>2, <2>4, <2>5 DEF FSTypeOK, Views, Up
<1>5. CASE Give(p)
  <2>1. view' \in [Pods -> Views]
    BY <1>1, <1>5, ViewFields DEF Give
  <2>2. holder' \in [Groups -> Pods \cup {NoPod}] /\ freed' \in [Groups -> 0 .. Grace + 1]
    BY <1>1, <1>2, <1>5, ReleasedIs DEF Give
  <2>3. passed' = passed \cup {p} /\ p \in Up
        /\ UNCHANGED <<life, draining, cand, busy, started, seen, renewed>>
    BY <1>5 DEF Give, envVars
  <2> QED BY <2>1, <2>2, <2>3 DEF FSTypeOK, Views, Up
<1> QED BY <1>3, <1>4, <1>5 DEF Pass

\* So does every other step.
LEMMA OtherTypes ==
  ASSUME FSTypeOK, Environment \/ TickF \/ (\E p \in Pods : Leave(p)) \/ UNCHANGED fsVars
  PROVE  FSTypeOK'
<1>1. /\ view \in [Pods -> Views] /\ started \in [Pods -> Nat]
      /\ holder \in [Groups -> Pods \cup {NoPod}] /\ freed \in [Groups -> 0 .. Grace + 1]
      /\ seen \in [Pods -> 0 .. Window + 1] /\ renewed \in [Pods -> 0 .. TTL + 1]
      /\ life \in [Pods -> {"waiting", "up", "gone"}] /\ draining \subseteq Up
      /\ passed \subseteq Up /\ cand \subseteq Groups /\ busy \subseteq Driven
  BY DEF FSTypeOK, Views
<1>2. /\ TTL \in Nat /\ Window \in Nat /\ Grace \in Nat
      /\ Driven \subseteq Groups /\ Signing \subseteq Groups
  BY SettingsHold DEF Settings
<1>3. CASE \E p \in Pods : Join(p) \/ Drain(p)
  <2>1. UNCHANGED <<cand, busy, started, seen, renewed, holder, freed, view, passed>>
    BY <1>3 DEF Join, Drain
  <2>2. life' \in [Pods -> {"waiting", "up", "gone"}] /\ Up \subseteq Up'
        /\ draining' \subseteq Up'
    BY <1>1, <1>3 DEF Join, Drain, Up, Serving
  <2> QED BY <1>1, <2>1, <2>2 DEF FSTypeOK, Views
<1>4. CASE \E p \in Pods : Crash(p) \/ Leave(p)
  <2>1. PICK p \in Pods : Crash(p) \/ Leave(p)
    BY <1>4
  <2>2. Gone(p)
    BY <2>1 DEF Crash, Leave
  <2>3. /\ life' \in [Pods -> {"waiting", "up", "gone"}] /\ view' \in [Pods -> Views]
        /\ UNCHANGED <<cand, busy, renewed>>
    BY <1>1, <2>2, ViewFields DEF Gone
  <2>4. draining' \subseteq Up' /\ passed' \subseteq Up'
    BY <1>1, <2>2 DEF Gone, Up
  <2>5. /\ holder' \in [Groups -> Pods \cup {NoPod}] /\ freed' \in [Groups -> 0 .. Grace + 1]
        /\ started' \in [Pods -> Nat] /\ seen' \in [Pods -> 0 .. Window + 1]
    BY <1>1, <1>2, <2>1, ReleasedIs DEF Crash, Leave
  <2> QED BY <1>1, <2>3, <2>4, <2>5 DEF FSTypeOK, Views
<1>5. CASE (\E g \in Signing : SignInOrOutF(g)) \/ (\E g \in Driven : Session(g))
  BY <1>1, <1>2, <1>5 DEF SignInOrOutF, Session, FSTypeOK, Up
<1>6. CASE TickF
  <2>1. /\ \A p \in Pods : /\ Smaller(seen[p] + 1, Window + 1) \in 0 .. Window + 1
                           /\ Smaller(renewed[p] + 1, TTL + 1) \in 0 .. TTL + 1
        /\ \A g \in Groups : Smaller(freed[g] + 1, Grace + 1) \in 0 .. Grace + 1
    BY <1>1, <1>2, AgeGrows
  <2>2. /\ seen' \in [Pods -> 0 .. Window + 1] /\ renewed' \in [Pods -> 0 .. TTL + 1]
        /\ freed' \in [Groups -> 0 .. Grace + 1] /\ passed' = {}
        /\ UNCHANGED <<life, draining, cand, busy, started, holder, view>>
    BY <1>6, <2>1 DEF TickF, envVars
  <2> QED BY <1>1, <2>2 DEF FSTypeOK, Views, Up
<1>7. CASE UNCHANGED fsVars
  BY <1>1, <1>7 DEF fsVars, envVars, FSTypeOK, Up
<1> QED BY <1>3, <1>4, <1>5, <1>6, <1>7 DEF Environment

\* A step of p leaves the pass of every other pod alone: nobody takes what it has
\* renewed.
LEMMA OthersPass ==
  ASSUME FSInv, NEW p \in Pods, Pass(p) \/ Join(p) \/ Drain(p) \/ Crash(p) \/ Leave(p),
         NEW q \in Pods, q # p
  PROVE  GivesItsOwn(q)' /\ InPass(q)'
<1>1. FSTypeOK /\ GivesItsOwn(q) /\ InPass(q) /\ GivesItsOwn(p)
      /\ view \in [Pods -> Views] /\ renewed \in [Pods -> 0 .. TTL + 1]
      /\ life \in [Pods -> {"waiting", "up", "gone"}] /\ passed \subseteq Up
      /\ TTL \in Nat /\ NoPod \notin Pods
  BY SettingsHold DEF FSInv, FSTypeOK, Views, Settings
<1>2. view'[q] = view[q] /\ renewed'[q] = renewed[q]
      /\ (q \in Up \ passed => q \in (Up \ passed)')
  <2>1. CASE Look(p) \/ Give(p) \/ Join(p) \/ Drain(p)
    BY <1>1, <2>1 DEF Look, Give, Join, Drain, envVars, Up
  <2>2. CASE Take(p)
    BY <1>1, <2>2 DEF Take, envVars, Up
  <2>3. CASE Crash(p) \/ Leave(p)
    BY <1>1, <2>3 DEF Crash, Leave, Gone, Up
  <2> QED BY <2>1, <2>2, <2>3 DEF Pass
<1>3. view[q].pc = "give" => Holds(q) \subseteq Holds(q)'
  <2> SUFFICES ASSUME view[q].pc = "give", NEW g \in Groups, holder[g] = q
               PROVE  holder'[g] = q
    BY DEF Holds
  <2>1. CASE holder' = holder
    BY <2>1
  <2>2. CASE Take(p)
    <3>1. PICK S \in SUBSET Free(p) :
            \E shed \in SUBSET ((Holds(p) \cap cand) \cup S) : TakesAndSheds(p, S, shed)
      BY <1>1, <2>2, TakeParts
    <3>2. holder' = [h \in Groups |-> IF h \in S THEN p ELSE holder[h]]
      BY <3>1 DEF TakesAndSheds
    <3>3. g \notin Free(p)
      BY <1>1 DEF Free, GivesItsOwn
    <3> QED BY <3>1, <3>2, <3>3
  <2>3. CASE Give(p)
    <3>1. g \notin view[p].give
      BY <1>1, <2>3 DEF Give, GivesItsOwn, Holds
    <3> QED BY <2>3, <3>1 DEF Give
  <2>4. CASE Leave(p)
    BY <2>4 DEF Leave
  <2> QED BY <2>1, <2>2, <2>3, <2>4 DEF Pass, Look, Join, Drain, Crash
<1> QED BY <1>1, <1>2, <1>3 DEF GivesItsOwn, InPass

\* p's own pass renews what it is to give back, and ends when it has given it.
LEMMA OwnPass ==
  ASSUME FSInv, NEW p \in Pods, Pass(p) \/ Join(p) \/ Drain(p) \/ Crash(p) \/ Leave(p)
  PROVE  GivesItsOwn(p)' /\ InPass(p)'
<1>1. FSTypeOK /\ GivesItsOwn(p) /\ InPass(p)
      /\ view \in [Pods -> Views] /\ renewed \in [Pods -> 0 .. TTL + 1]
      /\ life \in [Pods -> {"waiting", "up", "gone"}] /\ passed \subseteq Up
  BY DEF FSInv, FSTypeOK, Views
<1>2. CASE Look(p)
  BY <1>1, <1>2 DEF Look, envVars, GivesItsOwn, InPass, Up
<1>3. CASE Take(p)
  <2>1. PICK S \in SUBSET Free(p) :
          \E shed \in SUBSET ((Holds(p) \cap cand) \cup S) : TakesAndSheds(p, S, shed)
    BY <1>1, <1>3, TakeParts
  <2>2. PICK shed \in SUBSET ((Holds(p) \cap cand) \cup S) : TakesAndSheds(p, S, shed)
    BY <2>1
  <2> DEFINE give == (Holds(p) \ cand) \cup shed
  <2>3. give \in SUBSET Groups /\ S \subseteq Groups
    BY <1>1 DEF Holds, Free, FSTypeOK
  <2>4. view'[p].pc = "give" /\ view'[p].give = give
    <3>1. view' = [view EXCEPT ![p] = [Resting EXCEPT !.pc = "give", !.give = give]]
      BY <2>2 DEF TakesAndSheds
    <3> HIDE DEF give
    <3> QED BY <1>1, <2>3, <3>1, ViewFields
  <2>5. give \subseteq Holds(p)'
    BY <2>2, <2>3 DEF TakesAndSheds, Holds
  <2>6. renewed'[p] = 0 /\ p \in (Up \ passed)'
    BY <1>1, <1>3 DEF Take, envVars, InPass, Up
  <2> QED BY <2>4, <2>5, <2>6 DEF GivesItsOwn, InPass
<1>4. CASE Give(p) \/ Crash(p) \/ Leave(p)
  <2>1. view'[p].pc = "idle"
    BY <1>1, <1>4, ViewFields DEF Give, Crash, Leave, Gone
  <2> QED BY <2>1 DEF GivesItsOwn, InPass
<1>5. CASE Join(p) \/ Drain(p)
  BY <1>1, <1>5 DEF Join, Drain, GivesItsOwn, InPass, Up, Holds
<1> QED BY <1>2, <1>3, <1>4, <1>5 DEF Pass

\* FSInv is inductive.
LEMMA FSInvStep == FSInv /\ [FSNext]_fsVars => FSInv'
<1> SUFFICES ASSUME FSInv, [FSNext]_fsVars PROVE FSInv'
  OBVIOUS
<1>1. FSTypeOK'
  BY PassTypes, OtherTypes DEF FSInv, FSNext, Environment
<1>2. ASSUME NEW p \in Pods, Pass(p) \/ Join(p) \/ Drain(p) \/ Crash(p) \/ Leave(p)
      PROVE  \A q \in Pods : GivesItsOwn(q)' /\ InPass(q)'
  BY <1>2, OthersPass, OwnPass
<1>3. CASE TickF
  <2>1. ASSUME NEW q \in Pods PROVE view'[q].pc = "idle"
    BY <1>3 DEF FSInv, InPass, TickF
  <2> QED BY <1>1, <2>1 DEF FSInv, GivesItsOwn, InPass
<1>4. CASE \/ \E g \in Signing : SignInOrOutF(g)
           \/ \E g \in Driven : Session(g)
           \/ UNCHANGED fsVars
  <2>1. UNCHANGED <<life, renewed, holder, view, passed>>
    BY <1>4 DEF SignInOrOutF, Session, fsVars, envVars
  <2> QED BY <1>1, <2>1 DEF FSInv, GivesItsOwn, InPass, Up, Holds
<1> QED BY <1>1, <1>2, <1>3, <1>4 DEF FSInv, FSNext, Environment

\* Every behaviour starts in it.
LEMMA FSInitInv == FSInit => FSInv
<1> SUFFICES ASSUME FSInit PROVE FSInv
  OBVIOUS
<1>1. TTL \in Nat /\ Window \in Nat /\ Grace \in Nat /\ Signing \subseteq Groups
  BY SettingsHold DEF Settings
<1>2. view \in [Pods -> Views] /\ \A p \in Pods : view[p].pc = "idle"
  BY ViewFields DEF FSInit
<1>3. /\ seen \in [Pods -> 0 .. Window + 1] /\ renewed \in [Pods -> 0 .. TTL + 1]
      /\ freed \in [Groups -> 0 .. Grace + 1]
  BY <1>1 DEF FSInit
<1>4. FSTypeOK
  BY <1>1, <1>2, <1>3 DEF FSInit, FSTypeOK, Views
<1> QED BY <1>2, <1>4 DEF FSInv, GivesItsOwn, InPass

\* Rows, views and passes, whatever is looked at late: FSInv always holds.
THEOREM SharesInvariance == FSSpec => []FSInv
  BY FSInitInv, FSInvStep, PTL DEF FSSpec

\* The shares and the ages stay in their types, for any number of pods and groups.
THEOREM SharesTyped == FSSpec => []FSTypeOK
<1>1. FSInv => FSTypeOK
  BY DEF FSInv
<1> QED BY <1>1, SharesInvariance, PTL

\* What a pass gives back at its end (leadGroups releases it after stopping its
\* vehicles) is still the pod's own: nobody has taken it in between.
THEOREM PassGivesItsOwn == FSSpec => [](\A p \in Pods : GivesItsOwn(p))
<1>1. FSInv => \A p \in Pods : GivesItsOwn(p)
  BY DEF FSInv
<1> QED BY <1>1, SharesInvariance, PTL

-----------------------------------------------------------------------------
(***************************************************************************)
(* Who may lose a group, and to whom.                                      *)
(***************************************************************************)
\* A running pod renews what it holds in every round of the clock, before a row that
\* lives longer than one round runs out.
RenewsInTime(p) ==
    /\ life[p] = "waiting" => Holds(p) = {}
    /\ p \in Up /\ Holds(p) # {} => renewed[p] <= IF p \in passed THEN 0 ELSE 1

RoundsInv == FSInv /\ \A p \in Pods : RenewsInTime(p)

\* Every step keeps it.
LEMMA RoundsStep ==
  ASSUME RoundsInv, [FSNext]_fsVars, NEW q \in Pods PROVE RenewsInTime(q)'
<1>1. FSInv /\ RenewsInTime(q) /\ FSTypeOK /\ InPass(q) /\ GivesItsOwn(q)
      /\ renewed \in [Pods -> 0 .. TTL + 1] /\ passed \subseteq Up
      /\ life \in [Pods -> {"waiting", "up", "gone"}] /\ NoPod \notin Pods /\ TTL \in Nat
  BY SettingsHold DEF RoundsInv, FSInv, FSTypeOK, Settings
<1>2. ASSUME NEW p \in Pods, Look(p) \/ Join(p) \/ Drain(p) PROVE RenewsInTime(q)'
  <2>1. /\ UNCHANGED <<renewed, holder, passed>>
        /\ life'[q] = life[q] \/ (life[q] = "waiting" /\ life'[q] = "up")
    BY <1>1, <1>2 DEF Look, Join, Drain, envVars
  <2>2. Holds(q)' = Holds(q)
    BY <2>1 DEF Holds
  <2>3. CASE life'[q] = life[q]
    BY <1>1, <2>1, <2>2, <2>3 DEF RenewsInTime, Up
  <2>4. CASE life[q] = "waiting" /\ life'[q] = "up"
    <3>1. Holds(q) = {}
      BY <1>1, <2>4 DEF RenewsInTime
    <3> QED BY <2>2, <2>4, <3>1 DEF RenewsInTime
  <2> QED BY <2>1, <2>3, <2>4
<1>3. ASSUME NEW p \in Pods, Take(p) PROVE RenewsInTime(q)'
  <2>1. PICK S \in SUBSET Free(p) :
          \E shed \in SUBSET ((Holds(p) \cap cand) \cup S) : TakesAndSheds(p, S, shed)
    BY <1>1, <1>3, TakeParts
  <2>2. holder' = [h \in Groups |-> IF h \in S THEN p ELSE holder[h]]
    BY <2>1 DEF TakesAndSheds
  <2>3. /\ renewed' = [renewed EXCEPT ![p] = 0] /\ p \in Up
        /\ UNCHANGED <<life, passed>>
    BY <1>3 DEF Take, envVars
  <2>4. CASE q = p
    BY <1>1, <2>3, <2>4 DEF RenewsInTime, Up
  <2>5. CASE q # p
    <3>1. Holds(q)' \subseteq Holds(q) /\ renewed'[q] = renewed[q]
      BY <1>1, <2>2, <2>3, <2>5 DEF Holds
    <3> QED BY <1>1, <2>3, <3>1 DEF RenewsInTime, Up
  <2> QED BY <2>4, <2>5
<1>4. ASSUME NEW p \in Pods, Give(p) \/ Crash(p) \/ Leave(p) PROVE RenewsInTime(q)'
  <2>1. Holds(q)' \subseteq Holds(q) /\ renewed' = renewed
    BY <1>1, <1>4 DEF Give, Crash, Leave, Gone, Holds
  <2>2. /\ q \in Up' => q \in Up
        /\ life'[q] = "waiting" => life[q] = "waiting"
        /\ q \in passed' => q \in passed \/ (q = p /\ Give(p))
        /\ q \in Up' /\ q \in passed => q \in passed'
    BY <1>1, <1>4 DEF Give, Crash, Leave, Gone, Up, envVars
  <2>3. Give(p) /\ q = p => renewed[q] = 0
    BY <1>1 DEF Give, GivesItsOwn
  <2> QED BY <1>1, <2>1, <2>2, <2>3 DEF RenewsInTime
<1>5. CASE TickF
  <2>1. UNCHANGED <<life, holder>> /\ passed' = {}
        /\ (q \in Up => q \in passed)
        /\ renewed'[q] = Smaller(renewed[q] + 1, TTL + 1)
    BY <1>5 DEF TickF, envVars
  <2> QED BY <1>1, <2>1 DEF RenewsInTime, Holds, Up, Smaller
<1>6. CASE \/ \E g \in Signing : SignInOrOutF(g)
           \/ \E g \in Driven : Session(g)
           \/ UNCHANGED fsVars
  <2>1. UNCHANGED <<life, renewed, holder, passed>>
    BY <1>6 DEF SignInOrOutF, Session, fsVars, envVars
  <2> QED BY <1>1, <2>1 DEF RenewsInTime, Up, Holds
<1> QED BY <1>2, <1>3, <1>4, <1>5, <1>6 DEF FSNext, Environment, Pass

\* As long as a row outlives a round of the passes, no group is taken from a pod that
\* runs: it loses one only by giving it back itself, as it sheds, leaves or finds that
\* nobody of the group has a session.
THEOREM NeverTakenFromTheRunning ==
  ASSUME TTL >= 1
  PROVE  FSSpec => [][\A g \in Groups : holder[g] \in Up /\ holder'[g] # holder[g] =>
                        /\ holder'[g] = NoPod
                        /\ Give(holder[g]) \/ Leave(holder[g])]_fsVars
<1>1. FSInit => RoundsInv
  <2> SUFFICES ASSUME FSInit PROVE \A p \in Pods : RenewsInTime(p)
    BY FSInitInv DEF RoundsInv
  <2> QED BY SettingsHold DEF FSInit, RenewsInTime, Holds, Settings
<1>2. RoundsInv /\ [FSNext]_fsVars => RoundsInv'
  BY RoundsStep, FSInvStep DEF RoundsInv
<1>3. RoundsInv /\ [FSNext]_fsVars =>
        [\A g \in Groups : holder[g] \in Up /\ holder'[g] # holder[g] =>
                        /\ holder'[g] = NoPod
                        /\ Give(holder[g]) \/ Leave(holder[g])]_fsVars
  <2> SUFFICES ASSUME RoundsInv, FSNext, NEW g \in Groups, holder[g] \in Up,
                      holder'[g] # holder[g]
               PROVE  /\ holder'[g] = NoPod
                      /\ Give(holder[g]) \/ Leave(holder[g])
    OBVIOUS
  <2>1. FSTypeOK /\ renewed \in [Pods -> 0 .. TTL + 1] /\ NoPod \notin Pods
        /\ holder[g] \in Pods /\ TTL \in Nat
    BY SettingsHold DEF RoundsInv, FSInv, FSTypeOK, Up, Settings
  <2>2. ASSUME NEW p \in Pods, Take(p) PROVE FALSE
    <3>1. PICK S \in SUBSET Free(p) :
            \E shed \in SUBSET ((Holds(p) \cap cand) \cup S) : TakesAndSheds(p, S, shed)
      BY <2>1, <2>2, TakeParts
    <3>2. g \in Free(p)
      BY <3>1 DEF TakesAndSheds
    <3>3. renewed[holder[g]] <= 1
      BY <2>1 DEF RoundsInv, RenewsInTime, Holds
    <3> QED BY <2>1, <3>2, <3>3 DEF Free
  <2>3. ASSUME NEW p \in Pods, Give(p) PROVE holder'[g] = NoPod /\ p = holder[g]
    <3>1. g \in view[p].give /\ holder'[g] = NoPod
      BY <2>3 DEF Give
    <3>2. view[p].give \subseteq Holds(p)
      BY <2>3 DEF Give, RoundsInv, FSInv, GivesItsOwn
    <3> QED BY <3>1, <3>2 DEF Holds
  <2>4. ASSUME NEW p \in Pods, Leave(p) PROVE holder'[g] = NoPod /\ p = holder[g]
    BY <2>4 DEF Leave
  <2> QED BY <2>2, <2>3, <2>4
          DEF FSNext, Environment, Pass, Look, Join, Drain, Crash, SignInOrOutF,
              Session, TickF
<1> QED BY <1>1, <1>2, <1>3, PTL DEF FSSpec

\* However late its view is, a pass takes no group beyond the share that it saw:
\* the candidate groups of a pod grow up to its share and not past it.
THEOREM TakesNoMoreThanItsShare ==
  FSSpec => [][\A p \in Pods :
                 \/ Cardinality(Holds(p)' \cap cand) <= Cardinality(Holds(p) \cap cand)
                 \/ Cardinality(Holds(p)' \cap cand) <= view[p].share]_fsVars
<1>1. FSInv /\ FSNext => \A p \in Pods :
                 \/ Cardinality(Holds(p)' \cap cand) <= Cardinality(Holds(p) \cap cand)
                 \/ Cardinality(Holds(p)' \cap cand) <= view[p].share
  <2> SUFFICES ASSUME FSInv, FSNext, NEW p \in Pods
               PROVE  \/ Cardinality(Holds(p)' \cap cand) <= Cardinality(Holds(p) \cap cand)
                      \/ Cardinality(Holds(p)' \cap cand) <= view[p].share
    OBVIOUS
  <2>1. FSTypeOK /\ NoPod \notin Pods /\ IsFiniteSet(Groups) /\ view[p].share \in Nat
    BY SettingsHold DEF FSInv, FSTypeOK, Settings
  <2>2. \A G \in SUBSET Groups : IsFiniteSet(G) /\ Cardinality(G) \in Nat
    BY <2>1, FS_Subset, FS_CardinalityType
  <2>3. Holds(p) \cap cand \in SUBSET Groups
    BY DEF Holds
  <2>4. CASE Holds(p)' \subseteq Holds(p)
    <3>1. Holds(p)' \cap cand \in SUBSET (Holds(p) \cap cand)
      BY <2>4
    <3> QED BY <2>2, <2>3, <3>1, FS_Subset
  <2>5. CASE Take(p)
    <3>1. PICK S \in SUBSET Free(p) :
            /\ Cardinality(S) = 0
               \/ Cardinality(S) + Cardinality(Holds(p) \cap cand) <= view[p].share
            /\ \E shed \in SUBSET ((Holds(p) \cap cand) \cup S) : TakesAndSheds(p, S, shed)
      BY <2>1, <2>5, TakeParts
    <3> DEFINE mine == Holds(p) \cap cand
    <3>2. S \in SUBSET Groups /\ S \subseteq cand
      BY <2>1 DEF Free, FSTypeOK
    <3>3. Holds(p)' \cap cand = mine \cup S
      BY <3>1, <3>2 DEF TakesAndSheds, Holds
    <3>4. Cardinality(mine \cup S) <= Cardinality(mine) + Cardinality(S)
      <4>1. mine \cap S \in SUBSET Groups /\ mine \in SUBSET Groups
        BY <2>3, <3>2
      <4> HIDE DEF mine
      <4>2. Cardinality(mine \cup S)
              = Cardinality(mine) + Cardinality(S) - Cardinality(mine \cap S)
        BY <2>2, <3>2, <4>1, FS_Union
      <4> QED BY <2>2, <3>2, <4>1, <4>2
    <3>5. Cardinality(mine) \in Nat /\ Cardinality(S) \in Nat
          /\ Cardinality(mine \cup S) \in Nat
      <4>1. mine \cup S \in SUBSET Groups
        BY <2>3, <3>2
      <4> HIDE DEF mine
      <4> QED BY <2>2, <2>3, <3>2, <4>1 DEF mine
    <3>6. \/ Cardinality(S) = 0
          \/ Cardinality(S) + Cardinality(mine) <= view[p].share
      BY <3>1
    <3> HIDE DEF mine
    <3>7. Cardinality(mine \cup S) <= Cardinality(mine)
          \/ Cardinality(mine \cup S) <= view[p].share
      BY <2>1, <3>4, <3>5, <3>6
    <3> QED BY <3>3, <3>7 DEF mine
  <2>6. Take(p) \/ Holds(p)' \subseteq Holds(p)
    <3>1. ASSUME NEW q \in Pods, Take(q), q # p PROVE Holds(p)' \subseteq Holds(p)
      BY <3>1, <2>1, TakeParts DEF TakesAndSheds, Holds
    <3>2. ASSUME NEW q \in Pods, Give(q) \/ Leave(q) PROVE Holds(p)' \subseteq Holds(p)
      BY <2>1, <3>2 DEF Give, Leave, Holds
    <3>3. CASE holder' = holder
      BY <3>3 DEF Holds
    <3> QED BY <3>1, <3>2, <3>3
            DEF FSNext, Environment, Pass, Look, Join, Drain, Crash, SignInOrOutF,
                Session, TickF
  <2> QED BY <2>4, <2>5, <2>6
<1> QED BY <1>1, SharesInvariance, PTL DEF FSSpec
=============================================================================
