-------------------------- MODULE GroupLeaseProofs --------------------------
(***************************************************************************)
(* The group lease proved for any pods, users, groupings and timings with  *)
(* LocalDeadline < TTL.                                                    *)
(*                                                                         *)
(* TrustImpliesLease is not inductive: a pass holds epochs that it has not *)
(* installed yet, and how long a token may be trusted depends on how much  *)
(* of the row's life is left.  The strengthening says both: what a pod      *)
(* trusts, or is about to install, is backed by a row that outlives the     *)
(* trust (Backed), and a dead process trusts nothing.                      *)
(***************************************************************************)
EXTENDS GroupLease, TLAPS

\* Row r is p's at epoch e, and was given its TTL no more than a ticks ago.
Backed(r, p, e, a) == r.pod = p /\ r.epoch = e /\ r.left >= TTL - a

\* A token that p trusts is backed ...
TokenBacked(p, g) ==
    Running(p) /\ LocallyValid(p, g) => Backed(row[g], p, tok[p][g], okAge[p])

\* ... and so is an epoch that p's pass would install and then trust.
HeldBacked(p, g) ==
    /\ Running(p) /\ pass[p].pc \in {"acquire", "acquiring", "retire", "over"}
    /\ pass[p].held[g] # 0 /\ pass[p].age <= LocalDeadline
    => Backed(row[g], p, pass[p].held[g], pass[p].age)

DeadTrustsNothing(p) == stat[p] = "down" => tok[p] = NoTokens /\ pass[p] = Idle

PodInv(p) ==
    /\ \A g \in Users : TokenBacked(p, g) /\ HeldBacked(p, g)
    /\ DeadTrustsNothing(p)

IInv == TypeOK /\ \A p \in Pods : PodInv(p)

Assumptions ==
    /\ NoPod \notin Pods
    /\ TTL \in Nat /\ LocalDeadline \in Nat /\ WarmUp \in Nat /\ MaxEpoch \in Nat
    /\ LocalDeadline < TTL
    /\ Groupings \subseteq [Users -> Users]

\* The assumptions on the constants, in one formula to cite.
LEMMA AssumptionsHold == Assumptions
  BY PodsAssumption, TimingAssumption, EpochAssumption, GroupingsAssumption
     DEF Assumptions

-----------------------------------------------------------------------------
(***************************************************************************)
(* Types.                                                                  *)
(***************************************************************************)
\* A pass record changed field by field stays a pass record.
LEMMA PassEdits ==
  \A r \in Passes :
    /\ r.pc \in PassPCs /\ r.age \in 0 .. AgeCap
    /\ r.held \in [Users -> Epochs] /\ r.give \in SUBSET Users
    /\ r.want \in SUBSET Users /\ r.wasHeld \in SUBSET Users /\ r.crossed \in BOOLEAN
    /\ \A pc \in PassPCs : [r EXCEPT !.pc = pc] \in Passes
    /\ \A a \in 0 .. AgeCap : [r EXCEPT !.age = a] \in Passes
    /\ \A G \in SUBSET Users : [r EXCEPT !.give = G] \in Passes
    /\ \A pc \in PassPCs, a \in 0 .. AgeCap :
          [r EXCEPT !.pc = pc, !.age = a] \in Passes
    /\ \A pc \in PassPCs, h \in [Users -> Epochs] :
          [r EXCEPT !.pc = pc, !.held = h] \in Passes
    /\ \A pc \in PassPCs, a \in 0 .. AgeCap, h \in [Users -> Epochs] :
          [r EXCEPT !.pc = pc, !.age = a, !.held = h] \in Passes
    /\ \A b \in BOOLEAN : [r EXCEPT !.crossed = b] \in Passes
    /\ \A pc \in PassPCs, G \in SUBSET Users :
          [r EXCEPT !.pc = pc, !.give = G] \in Passes
  BY DEF Passes

\* So does a row.
LEMMA RowEdits ==
  \A r \in Rows :
    /\ r.pod \in Pods \cup {NoPod} /\ r.epoch \in Epochs /\ r.left \in -1 .. TTL
    /\ \A l \in -1 .. TTL : [r EXCEPT !.left = l] \in Rows
    /\ Released(r) \in Rows
  BY DEF Rows, Released

\* The values a variable starts with, or is reset to, are of its type.
LEMMA InitialValues ==
  /\ Idle \in Passes /\ Settled \in [Users -> 0 .. WarmUp]
  /\ NoTokens \in [Users -> Epochs]
  /\ 0 \in 0 .. AgeCap /\ AgeCap \in 0 .. AgeCap /\ TTL \in -1 .. TTL
  BY AssumptionsHold
     DEF Assumptions, Idle, Passes, PassPCs, NoTokens, Epochs, AgeCap, Settled

\* What is left of a pass is a pass without tokens to install.
LEMMA GivingTypes ==
  \A G \in SUBSET Users : Giving(G) \in Passes /\ Giving(G).pc \in {"idle", "give"}
<1> SUFFICES ASSUME NEW G \in SUBSET Users
             PROVE  Giving(G) \in Passes /\ Giving(G).pc \in {"idle", "give"}
  OBVIOUS
<1>1. CASE G = {}
  BY <1>1, InitialValues DEF Giving, Idle
<1>2. CASE G # {}
  <2>1. Giving(G) = [Idle EXCEPT !.pc = "give", !.give = G]
    BY <1>2 DEF Giving
  <2>2. "give" \in PassPCs
    BY DEF PassPCs
  <2>3. Giving(G) \in Passes
    <3>1. [Idle EXCEPT !.pc = "give", !.give = G] \in Passes
      BY <2>2, PassEdits, InitialValues
    <3> QED BY <2>1, <3>1
  <2>4. Giving(G).pc = "give"
    BY <2>1 DEF Idle
  <2> QED BY <2>3, <2>4
<1> QED BY <1>1, <1>2

\* What a grant writes is a well-typed table, token map and warm-up map.
LEMMA GrantTypes ==
  ASSUME TypeOK, NEW p \in Pods, NEW S \in SUBSET Free
  PROVE  /\ Granted(p, S) \in [Users -> Rows]
         /\ \A t \in [Users -> Epochs] : WithTokens(t, S) \in [Users -> Epochs]
         /\ \A H : \A w \in [Users -> 0 .. WarmUp] :
               WithWarmUps(w, S, H) \in [Users -> 0 .. WarmUp]
<1> USE AssumptionsHold DEF Assumptions
<1>1. \A g \in S : g \in Users /\ row[g].epoch + 1 \in Epochs
  BY DEF Free, TypeOK, Rows, Epochs
<1>2. Granted(p, S) \in [Users -> Rows]
  BY <1>1 DEF Granted, Rows, TypeOK
<1>3. \A t \in [Users -> Epochs] : WithTokens(t, S) \in [Users -> Epochs]
  BY <1>1 DEF WithTokens
<1>4. \A H : \A w \in [Users -> 0 .. WarmUp] :
        WithWarmUps(w, S, H) \in [Users -> 0 .. WarmUp]
  BY DEF WithWarmUps
<1> QED BY <1>2, <1>3, <1>4

\* What an acquire's snapshot does.
LEMMA SnapshotPass ==
  ASSUME TypeOK, NEW p \in Pods, Snapshot(p)
  PROVE  /\ pass' \in [Pods -> Passes]
         /\ \A q \in Pods : q # p => pass'[q] = pass[q]
         /\ pass[p].pc \in {"acquire", "follow"}
         /\ pass'[p].pc = IF pass[p].pc = "acquire" THEN "acquiring" ELSE "following"
         /\ pass'[p].want \subseteq Takable(p)
         /\ pass'[p].wasHeld = {g \in pass'[p].want : row[g].pod # NoPod}
         /\ pass'[p].crossed = (\E q \in Pods : pass[q].crossed)
         /\ pass'[p].held = pass[p].held /\ pass'[p].age = pass[p].age
         /\ pass'[p].give = pass[p].give
<1> DEFINE pc == IF pass[p].pc = "acquire" THEN "acquiring" ELSE "following"
           Had(S) == {g \in S : row[g].pod # NoPod}
<1>0. PICK b \in BOOLEAN : b = (\E q \in Pods : pass[q].crossed)
  OBVIOUS
<1>1. PICK S \in SUBSET Takable(p) :
        pass' = [pass EXCEPT ![p] = [pass[p] EXCEPT
                   !.pc = pc, !.want = S, !.wasHeld = Had(S), !.crossed = b]]
  BY <1>0 DEF Snapshot
<1> DEFINE H == Had(S)
           n == [pass[p] EXCEPT !.pc = pc, !.want = S, !.wasHeld = H, !.crossed = b]
<1>2. pass \in [Pods -> Passes] /\ pass[p] \in Passes
  BY DEF TypeOK
<1>3. S \in SUBSET Users /\ H \in SUBSET Users /\ pc \in PassPCs
  BY DEF Takable, Free, PassPCs
<1>4. /\ n \in Passes /\ n.pc = pc /\ n.want = S /\ n.wasHeld = H /\ n.crossed = b
      /\ n.held = pass[p].held /\ n.age = pass[p].age /\ n.give = pass[p].give
  <2>1. n = [pass[p] EXCEPT !.pc = pc, !.want = S, !.wasHeld = H, !.crossed = b]
    OBVIOUS
  <2> HIDE DEF n, pc, H
  <2>2. pass[p] \in Passes
    BY <1>2
  <2>3. n \in Passes
    BY <1>3, <2>1, <2>2 DEF Passes
  <2>4. n.pc = pc /\ n.want = S /\ n.wasHeld = H
    BY <1>3, <2>1, <2>2 DEF Passes
  <2>5. n.crossed = b
    BY <1>3, <2>1, <2>2 DEF Passes
  <2>6. n.held = pass[p].held /\ n.age = pass[p].age /\ n.give = pass[p].give
    BY <1>3, <2>1, <2>2 DEF Passes
  <2> QED BY <2>3, <2>4, <2>5, <2>6
<1>5. pass' = [pass EXCEPT ![p] = n]
  BY <1>1
<1>6. /\ pass' \in [Pods -> Passes] /\ pass'[p] = n
      /\ \A q \in Pods : q # p => pass'[q] = pass[q]
  <2> HIDE DEF n
  <2> QED BY <1>2, <1>4, <1>5
<1>7. pass[p].pc \in {"acquire", "follow"}
  BY DEF Snapshot
<1>8. n.crossed = (\E q \in Pods : pass[q].crossed)
  BY <1>0, <1>4
<1>9. n.want \subseteq Takable(p) /\ n.wasHeld = {g \in n.want : row[g].pod # NoPod}
  <2> HIDE DEF n, pc
  <2> QED BY <1>4
<1> HIDE DEF n
<1> QED BY <1>4, <1>6, <1>7, <1>8, <1>9

\* What an acquire gets is free, whatever it named.
LEMMA WonIsFree == \A p : Won(p) \in SUBSET Free /\ Won(p) \subseteq pass[p].want
  BY DEF Won

\* The first state is in its type.
LEMMA InitType == Init => TypeOK
  BY AssumptionsHold, InitialValues
     DEF Assumptions, Init, TypeOK, Rows, Epochs

\* A renew keeps the rows in their type.
LEMMA RenewTypes ==
  ASSUME TypeOK, NEW p \in Pods
  PROVE  Renewed(p) \in [Users -> Rows]
  BY RowEdits, InitialValues DEF Renewed, TypeOK

\* Every step of a lead pass keeps every variable in its type.
LEMMA LeadPassType ==
  ASSUME TypeOK, NEW p \in Pods, LeadPass(p)
  PROVE  TypeOK'
<1>1. /\ pass[p] \in Passes /\ pass[p].held \in [Users -> Epochs]
      /\ pass[p].age \in 0 .. AgeCap /\ pass[p].give \in SUBSET Users
      /\ tok[p] \in [Users -> Epochs] /\ warm[p] \in [Users -> 0 .. WarmUp]
      /\ \A g \in Users : row[g] \in Rows
  BY PassEdits DEF TypeOK
<1>2. /\ {"idle", "renew", "acquire", "acquiring", "retire", "over", "follow",
          "following", "give"} = PassPCs
      /\ pass \in [Pods -> Passes]
  BY DEF PassPCs, TypeOK
<1>3. CASE LeadStart(p)
  <2>1. pass' \in [Pods -> Passes]
    BY <1>2, <1>3, PassEdits, InitialValues DEF LeadStart
  <2> QED BY <1>3, <2>1 DEF LeadStart, TypeOK
<1>4. CASE LeadRenew(p)
  <2> DEFINE held == [g \in Users |-> IF g \in Mine(p) \cap Cand
                                      THEN row[g].epoch ELSE 0]
  <2>1. held \in [Users -> Epochs]
    BY <1>1, RowEdits, AssumptionsHold DEF Assumptions, Epochs
  <2>2. PICK pc \in {"acquire", "retire", "over"} :
          pass' = [pass EXCEPT ![p].pc = pc, ![p].held = held]
    BY <1>4 DEF LeadRenew
  <2>3. pass' \in [Pods -> Passes]
    <3> HIDE DEF held
    <3> QED BY <1>1, <1>2, <2>1, <2>2, PassEdits
  <2>4. row' \in [Users -> Rows]
    BY <1>4, RenewTypes DEF LeadRenew
  <2> QED BY <1>4, <2>3, <2>4 DEF LeadRenew, TypeOK
<1>15. CASE Snapshot(p)
  <2>1. pass' \in [Pods -> Passes]
    BY <1>15, SnapshotPass
  <2> QED BY <1>15, <2>1 DEF Snapshot, TypeOK
<1>5. CASE LeadAcquire(p)
  <2>1. /\ row' = Granted(p, Won(p))
        /\ pass' = [pass EXCEPT ![p] = [Idle EXCEPT
              !.pc = "retire", !.age = pass[p].age,
              !.held = WithTokens(pass[p].held, Won(p))]]
        /\ warm' = [warm EXCEPT ![p] = WithWarmUps(@, Won(p), pass[p].wasHeld)]
    BY <1>5 DEF LeadAcquire
  <2>2. pass' \in [Pods -> Passes]
    <3>1. WithTokens(pass[p].held, Won(p)) \in [Users -> Epochs]
      BY <1>1, WonIsFree, GrantTypes
    <3>2. [Idle EXCEPT !.pc = "retire", !.age = pass[p].age,
                       !.held = WithTokens(pass[p].held, Won(p))] \in Passes
      BY <1>1, <1>2, <3>1, PassEdits, InitialValues
    <3> QED BY <1>2, <2>1, <3>2
  <2>3. warm' \in [Pods -> [Users -> 0 .. WarmUp]] /\ row' \in [Users -> Rows]
    BY <1>1, <2>1, WonIsFree, GrantTypes DEF TypeOK
  <2> QED BY <1>5, <2>2, <2>3 DEF LeadAcquire, TypeOK
<1>6. CASE LeadInstall(p)
  <2>1. PICK G \in SUBSET Users :
          \/ pass' = [pass EXCEPT ![p] = Giving(G)]
          \/ pass' = [pass EXCEPT ![p] = [Idle EXCEPT !.pc = "follow", !.give = G]]
    BY <1>6 DEF LeadInstall, Mine
  <2>2. pass' \in [Pods -> Passes]
    <3>1. [Idle EXCEPT !.pc = "follow", !.give = G] \in Passes
      BY <1>2, PassEdits, InitialValues
    <3> QED BY <1>2, <2>1, <3>1, GivingTypes
  <2>3. \A K : [g \in Users |-> IF g \in K THEN warm[p][g] ELSE WarmUp]
                 \in [Users -> 0 .. WarmUp]
    BY <1>1, AssumptionsHold DEF Assumptions
  <2>4. warm' \in [Pods -> [Users -> 0 .. WarmUp]]
    BY <1>6, <2>3 DEF LeadInstall, TypeOK
  <2>5. tok' \in [Pods -> [Users -> Epochs]] /\ okAge' \in [Pods -> 0 .. AgeCap]
    BY <1>1, <1>6 DEF LeadInstall, SentAge, TypeOK
  <2> QED BY <1>6, <2>2, <2>4, <2>5 DEF LeadInstall, TypeOK
<1>7. CASE FollowOpen(p)
  <2>1. /\ row' = Granted(p, Won(p))
        /\ tok' = [tok EXCEPT ![p] = WithTokens(@, Won(p))]
        /\ warm' = [warm EXCEPT ![p] = WithWarmUps(@, Won(p), pass[p].wasHeld)]
    BY <1>7 DEF FollowOpen
  <2>2. /\ tok' \in [Pods -> [Users -> Epochs]] /\ row' \in [Users -> Rows]
        /\ warm' \in [Pods -> [Users -> 0 .. WarmUp]]
    BY <1>1, <2>1, WonIsFree, GrantTypes DEF TypeOK
  <2>3. pass' \in [Pods -> Passes]
    BY <1>1, <1>2, <1>7, GivingTypes DEF FollowOpen
  <2> QED BY <1>7, <2>2, <2>3 DEF FollowOpen, TypeOK
<1>8. ASSUME NEW g \in Users, GiveBack(p, g) PROVE TypeOK'
  <2>1. row' \in [Users -> Rows]
    BY <1>1, <1>8, RowEdits DEF GiveBack, TypeOK
  <2>2. tok' \in [Pods -> [Users -> Epochs]]
    BY <1>8, AssumptionsHold DEF Assumptions, GiveBack, TypeOK, Epochs
  <2>3. pass[p].give \ {g} \in SUBSET Users
    BY <1>1
  <2>4. pass' \in [Pods -> Passes]
    BY <1>1, <1>2, <1>8, <2>3, GivingTypes DEF GiveBack
  <2> QED BY <1>8, <2>1, <2>2, <2>4 DEF GiveBack, TypeOK
<1>9. CASE PassEnd(p)
  BY <1>9, InitialValues DEF PassEnd, TypeOK
<1>10. ASSUME AfterFailure(p), row' \in [Users -> Rows] PROVE TypeOK'
  BY <1>10, InitialValues DEF AfterFailure, TypeOK
<1>11. CASE PassFail(p)
  BY <1>10, <1>11 DEF PassFail, TypeOK
<1>12. CASE RenewReplyLost(p)
  BY <1>10, <1>12, RenewTypes DEF RenewReplyLost
<1>13. CASE AcquireReplyLost(p)
  BY <1>10, <1>13, WonIsFree, GrantTypes DEF AcquireReplyLost
<1>14. CASE FollowFail(p)
  <2>1. pass' \in [Pods -> Passes]
    BY <1>1, <1>2, <1>14, GivingTypes DEF FollowFail
  <2>2. row' \in [Users -> Rows]
    BY <1>14, WonIsFree, GrantTypes DEF FollowFail, TypeOK
  <2> QED BY <1>14, <2>1, <2>2 DEF FollowFail, TypeOK
<1> QED BY <1>3, <1>4, <1>5, <1>6, <1>7, <1>8, <1>9, <1>11, <1>12, <1>13, <1>14,
           <1>15 DEF LeadPass

\* Every step of the system keeps every variable in its type.
LEMMA TypeStep == TypeOK /\ [Next]_vars => TypeOK'
<1> SUFFICES ASSUME TypeOK, [Next]_vars PROVE TypeOK'
  OBVIOUS
<1>1. ASSUME NEW p \in Pods, Lifecycle(p) PROVE TypeOK'
  <2>1. CASE MarkDraining(p) BY <2>1 DEF MarkDraining, TypeOK
  <2>2. CASE Close(p) BY <2>2 DEF Close, TypeOK
  <2>3. CASE ReleaseAll(p)
    <3>1. row' \in [Users -> Rows]
      <4>1. CASE UNCHANGED row BY <4>1 DEF TypeOK
      <4>2. CASE row' = [g \in Users |-> IF row[g].pod = p THEN Released(row[g])
                                         ELSE row[g]]
        BY <4>2, RowEdits DEF TypeOK
      <4> QED BY <2>3, <4>1, <4>2 DEF ReleaseAll
    <3> QED BY <2>3, <3>1, InitialValues DEF ReleaseAll, TypeOK
  <2>4. CASE Down(p) BY <2>4, InitialValues DEF Down, TypeOK
  <2>5. CASE Restart(p) BY <2>5 DEF Restart, TypeOK
  <2> QED BY <1>1, <2>1, <2>2, <2>3, <2>4, <2>5 DEF Lifecycle
<1>2. CASE Relink
  <2>1. gid' \in [Users -> Users]
    BY <1>2, AssumptionsHold DEF Assumptions, Relink
  <2>2. pass' \in [Pods -> Passes]
    <3>1. \A p \in Pods : Asking(p) \in BOOLEAN /\ pass[p] \in Passes
      BY DEF Asking, TypeOK
    <3>2. \A p \in Pods : [pass[p] EXCEPT !.crossed = Asking(p)] \in Passes
      BY <3>1, PassEdits
    <3> QED BY <1>2, <3>2 DEF Relink
  <2> QED BY <1>2, <2>1, <2>2 DEF Relink, TypeOK
<1>3. ASSUME NEW u \in Users, SignInOrOut(u) PROVE TypeOK'
  BY <1>3 DEF SignInOrOut, TypeOK, podVars
<1>4. CASE Tick
  <2> USE AssumptionsHold DEF Assumptions
  <2>1. row' = [g \in Users |-> [row[g] EXCEPT !.left = IF @ < 0 THEN -1 ELSE @ - 1]]
    BY <1>4 DEF Tick
  <2>2. row' \in [Users -> Rows]
    <3>1. \A g \in Users :
            (IF row[g].left < 0 THEN -1 ELSE row[g].left - 1) \in -1 .. TTL
      BY RowEdits DEF TypeOK
    <3> QED BY <2>1, <3>1, RowEdits DEF TypeOK
  <2>3. okAge' \in [Pods -> 0 .. AgeCap]
    BY <1>4 DEF Tick, TypeOK, Least, AgeCap
  <2>4. warm' \in [Pods -> [Users -> 0 .. WarmUp]]
    BY <1>4 DEF Tick, TypeOK, Least
  <2>5. \A p \in Pods : Least(pass[p].age + 1, AgeCap) \in 0 .. AgeCap
    <3>1. \A p \in Pods : pass[p].age \in 0 .. AgeCap
      BY PassEdits DEF TypeOK
    <3> QED BY <3>1 DEF Least, AgeCap
  <2>6. pass' \in [Pods -> Passes]
    BY <1>4, <2>5, PassEdits DEF Tick, TypeOK
  <2> QED BY <1>4, <2>2, <2>3, <2>4, <2>6 DEF Tick, TypeOK
<1>5. CASE UNCHANGED vars
  BY <1>5 DEF vars, podVars, TypeOK
<1> QED BY <1>1, <1>2, <1>3, <1>4, <1>5, LeadPassType DEF Next

\* Type correctness, for every value of the constants.
THEOREM TypeCorrect == Spec => []TypeOK
  BY InitType, TypeStep, PTL DEF Spec
-----------------------------------------------------------------------------
(***************************************************************************)
(* The invariant.  An action of pod q leaves every other pod's memory and  *)
(* every other pod's live rows alone; what remains to show is q itself.    *)
(***************************************************************************)
\* A group that someone may still trust a token for is nobody's to take.
LEMMA BackedNotFree ==
  ASSUME TypeOK, NEW g \in Free, NEW p \in Pods,
         NEW e, NEW a \in 0 .. LocalDeadline
  PROVE  ~ Backed(row[g], p, e, a)
<1>1. g \in Users /\ row[g].left \in -1 .. TTL
  BY RowEdits DEF Free, TypeOK
<1> QED BY <1>1, AssumptionsHold DEF Assumptions, Backed, Free

\* So an acquire leaves every backed row as it is.
LEMMA GrantKeeps ==
  ASSUME TypeOK, NEW q \in Pods, NEW S \in SUBSET Free, NEW p \in Pods,
         NEW g \in Users, NEW e, NEW a \in 0 .. LocalDeadline,
         Backed(row[g], p, e, a)
  PROVE  Granted(q, S)[g] = row[g] /\ g \notin S
  BY BackedNotFree DEF Granted

\* And a renew leaves it backed: it only ever gains time.
LEMMA RenewKeeps ==
  ASSUME TypeOK, NEW q \in Pods, NEW p \in Pods,
         NEW g \in Users, NEW e, NEW a \in 0 .. LocalDeadline,
         Backed(row[g], p, e, a)
  PROVE  Backed(Renewed(q)[g], p, e, a)
<1>1. row[g] \in Rows
  BY DEF TypeOK
<1> QED BY <1>1, AssumptionsHold DEF Assumptions, Backed, Renewed, Rows

\* No step of q but its own releases takes a live row from anybody.
LEMMA RowsKept ==
  ASSUME TypeOK, NEW q \in Pods, LeadPass(q) \/ Lifecycle(q), NEW p \in Pods,
         NEW g \in Users, NEW e, NEW a \in 0 .. LocalDeadline,
         Backed(row[g], p, e, a),
         p # q \/ (~ ReleaseAll(q) /\ ~ \E h \in Users : GiveBack(q, h))
  PROVE  Backed(row'[g], p, e, a)
<1>1. row[g].pod = p
  BY DEF Backed
<1>2. CASE LeadRenew(q) \/ RenewReplyLost(q)
  BY <1>2, RenewKeeps DEF LeadRenew, RenewReplyLost
<1>3. CASE row' = Granted(q, Won(q))
  BY <1>3, WonIsFree, GrantKeeps
<1>4. ASSUME NEW h \in Users, GiveBack(q, h) PROVE row'[g] = row[g]
  BY <1>1, <1>4 DEF GiveBack, TypeOK
<1>5. CASE ReleaseAll(q)
  BY <1>1, <1>5 DEF ReleaseAll
<1>6. CASE UNCHANGED row
  BY <1>6
<1> QED BY <1>2, <1>3, <1>4, <1>5, <1>6
           DEF LeadPass, Lifecycle, LeadStart, Snapshot, LeadAcquire, LeadInstall,
               FollowOpen, PassEnd, PassFail, AcquireReplyLost, FollowFail,
               MarkDraining, Close, Down, Restart

\* A step of q leaves the memory of every other pod alone.
LEMMA OthersKept ==
  ASSUME TypeOK, NEW q \in Pods, LeadPass(q) \/ Lifecycle(q),
         NEW p \in Pods, p # q
  PROVE  /\ stat'[p] = stat[p] /\ tok'[p] = tok[p] /\ okAge'[p] = okAge[p]
         /\ pass'[p] = pass[p]
<1>1. CASE LeadPass(q)
  BY <1>1 DEF LeadPass, LeadStart, LeadRenew, Snapshot, LeadAcquire, LeadInstall,
     FollowOpen, GiveBack, PassEnd, PassFail, RenewReplyLost, AcquireReplyLost,
     FollowFail, AfterFailure, TypeOK
<1>2. CASE Lifecycle(q)
  BY <1>2 DEF Lifecycle, MarkDraining, Close, ReleaseAll, Down, Restart, TypeOK
<1> QED BY <1>1, <1>2

\* What a step of q does to what q itself trusts and is about to trust.
LEMMA OwnStep ==
  ASSUME IInv, NEW q \in Pods, LeadPass(q) \/ Lifecycle(q)
  PROVE  PodInv(q)'
<1>1. /\ TypeOK /\ PodInv(q)
      /\ pass[q] \in Passes /\ pass[q].age \in 0 .. AgeCap
      /\ okAge[q] \in 0 .. AgeCap
      /\ stat[q] \in {"down", "up", "closing", "released"}
      /\ pass[q].give \in SUBSET Users
      /\ \A g \in Users : /\ row[g] \in Rows /\ tok[q][g] \in Epochs
                           /\ pass[q].held[g] \in Epochs
  <2>1. TypeOK /\ PodInv(q)
    BY DEF IInv
  <2>2. pass[q] \in Passes
    BY <2>1 DEF TypeOK
  <2>3. /\ pass[q].age \in 0 .. AgeCap /\ pass[q].give \in SUBSET Users
        /\ pass[q].held \in [Users -> Epochs]
    BY <2>2, PassEdits
  <2>4. /\ okAge[q] \in 0 .. AgeCap
        /\ stat[q] \in {"down", "up", "closing", "released"}
        /\ \A g \in Users : row[g] \in Rows /\ tok[q][g] \in Epochs
    BY <2>1 DEF TypeOK
  <2> QED BY <2>1, <2>2, <2>3, <2>4
<1> USE AssumptionsHold DEF Assumptions
\* Steps that leave q's tokens as they are, or drop them, keep them backed.
<1>2. ASSUME ~ ReleaseAll(q), ~ \E h \in Users : GiveBack(q, h),
             NEW g \in Users,
             Running(q)' => Running(q),
             okAge'[q] = okAge[q], tok'[q] \in {tok[q], NoTokens}
      PROVE  TokenBacked(q, g)'
  <2>1. SUFFICES ASSUME Running(q)', LocallyValid(q, g)'
                 PROVE  Backed(row'[g], q, tok'[q][g], okAge'[q])
    BY DEF TokenBacked, Backed
  <2>2. tok'[q][g] = tok[q][g] /\ LocallyValid(q, g) /\ Running(q)
    BY <1>2, <2>1 DEF LocallyValid, NoTokens
  <2>3. Backed(row[g], q, tok[q][g], okAge[q]) /\ okAge[q] \in 0 .. LocalDeadline
    BY <1>1, <2>2 DEF PodInv, TokenBacked, LocallyValid
  <2> QED BY <1>1, <1>2, <2>2, <2>3, RowsKept
<1>3. ASSUME pass'[q].pc \notin {"acquire", "acquiring", "retire", "over"}, NEW g \in Users
      PROVE  HeldBacked(q, g)'
  BY <1>3 DEF HeldBacked
<1>4. ASSUME stat'[q] # "down" PROVE DeadTrustsNothing(q)'
  BY <1>4 DEF DeadTrustsNothing
<1>5. CASE LeadStart(q)
  <2>1. /\ ~ ReleaseAll(q) /\ ~ \E h \in Users : GiveBack(q, h)
        /\ okAge'[q] = okAge[q] /\ tok'[q] = tok[q] /\ stat'[q] = stat[q]
        /\ pass'[q].pc = "renew" /\ stat[q] = "up"
    BY <1>1, <1>5 DEF LeadStart, ReleaseAll, GiveBack, TypeOK, Idle
  <2> QED BY <1>2, <1>3, <1>4, <2>1 DEF PodInv, Running
<1>6. CASE LeadRenew(q)
  <2>1. /\ ~ ReleaseAll(q) /\ ~ \E h \in Users : GiveBack(q, h)
        /\ okAge'[q] = okAge[q] /\ tok'[q] = tok[q] /\ stat'[q] = stat[q]
        /\ stat[q] # "down"
    BY <1>1, <1>6 DEF LeadRenew, ReleaseAll, GiveBack, Alive, TypeOK
  <2>2. ASSUME NEW g \in Users PROVE HeldBacked(q, g)'
    <3>1. /\ pass'[q].held[g] = IF g \in Mine(q) \cap Cand THEN row[g].epoch ELSE 0
          /\ pass'[q].age = pass[q].age
          /\ row' = Renewed(q)
      BY <1>1, <1>6 DEF LeadRenew, TypeOK
    <3>2. CASE g \in Mine(q) \cap Cand
      <4>1. row'[g].pod = q /\ row'[g].epoch = row[g].epoch /\ row'[g].left = TTL
        BY <1>1, <3>1, <3>2 DEF Renewed, Mine, Rows
      <4> QED BY <1>1, <3>1, <3>2, <4>1 DEF HeldBacked, Backed, AgeCap
    <3> QED BY <3>1, <3>2 DEF HeldBacked
  <2> QED BY <1>2, <1>4, <2>1, <2>2 DEF PodInv, Running
<1>18. CASE Snapshot(q)
  <2>1. /\ ~ ReleaseAll(q) /\ ~ \E h \in Users : GiveBack(q, h)
        /\ okAge'[q] = okAge[q] /\ tok'[q] = tok[q] /\ stat'[q] = stat[q]
        /\ row' = row /\ stat[q] # "down" /\ pass[q].pc \in {"acquire", "follow"}
    BY <1>1, <1>18 DEF Snapshot, ReleaseAll, GiveBack, Alive, TypeOK
  <2>2. /\ pass'[q].held = pass[q].held /\ pass'[q].age = pass[q].age
        /\ pass'[q].pc = IF pass[q].pc = "acquire" THEN "acquiring" ELSE "following"
    BY <1>1, <1>18, SnapshotPass
  <2>3. ASSUME NEW g \in Users PROVE HeldBacked(q, g)'
    BY <1>1, <2>1, <2>2 DEF PodInv, HeldBacked, Running
  <2> QED BY <1>2, <1>4, <2>1, <2>3 DEF PodInv, Running
<1>7. CASE LeadAcquire(q)
  <2>1. /\ ~ ReleaseAll(q) /\ ~ \E h \in Users : GiveBack(q, h)
        /\ okAge'[q] = okAge[q] /\ tok'[q] = tok[q] /\ stat'[q] = stat[q]
        /\ stat[q] # "down" /\ pass[q].pc = "acquiring"
    BY <1>1, <1>7 DEF LeadAcquire, ReleaseAll, GiveBack, Alive, TypeOK
  <2>2. /\ row' = Granted(q, Won(q)) /\ pass \in [Pods -> Passes]
        /\ pass' = [pass EXCEPT ![q] = [Idle EXCEPT
              !.pc = "retire", !.age = pass[q].age,
              !.held = WithTokens(pass[q].held, Won(q))]]
    BY <1>1, <1>7 DEF LeadAcquire, TypeOK
  <2>3. ASSUME NEW g \in Users PROVE HeldBacked(q, g)'
    <3>1. /\ pass'[q].held[g] = IF g \in Won(q) THEN row[g].epoch + 1
                                ELSE pass[q].held[g]
          /\ pass'[q].age = pass[q].age
      BY <1>1, <2>2 DEF WithTokens, Idle
    <3>2. CASE g \in Won(q)
      <4>1. /\ row'[g].pod = q /\ row'[g].epoch = row[g].epoch + 1
            /\ row'[g].left = TTL
        BY <2>2, <3>2 DEF Granted
      <4> QED BY <1>1, <3>1, <3>2, <4>1 DEF HeldBacked, Backed, AgeCap
    <3>3. CASE g \notin Won(q)
      <4>1. row'[g] = row[g]
        BY <2>2, <3>3 DEF Granted
      <4> QED BY <1>1, <2>1, <3>1, <3>3, <4>1 DEF PodInv, HeldBacked, Running
    <3> QED BY <3>2, <3>3
  <2> QED BY <1>2, <1>4, <2>1, <2>3 DEF PodInv, Running
<1>8. CASE LeadInstall(q)
  <2>1. /\ row' = row /\ stat'[q] = stat[q] /\ stat[q] # "down"
        /\ tok'[q] = pass[q].held /\ okAge'[q] = pass[q].age
        /\ pass[q].pc \in {"retire", "over"}
    BY <1>1, <1>8 DEF LeadInstall, SentAge, Alive, TypeOK
  <2>3. pass'[q].pc \in {"idle", "follow", "give"}
    <3>1. PICK G \in SUBSET Users :
            \/ pass' = [pass EXCEPT ![q] = Giving(G)]
            \/ pass' = [pass EXCEPT ![q] = [Idle EXCEPT !.pc = "follow", !.give = G]]
      BY <1>8 DEF LeadInstall, Mine
    <3>2. [Idle EXCEPT !.pc = "follow", !.give = G].pc = "follow"
      BY DEF Idle
    <3>3. pass \in [Pods -> Passes]
      BY <1>1 DEF TypeOK
    <3> QED BY <3>1, <3>2, <3>3, GivingTypes
  <2>2. ASSUME NEW g \in Users PROVE TokenBacked(q, g)'
    BY <1>1, <2>1 DEF PodInv, HeldBacked, TokenBacked, LocallyValid, Running
  <2> QED BY <1>3, <1>4, <2>1, <2>2, <2>3 DEF PodInv
<1>9. CASE FollowOpen(q)
  <2>1. /\ okAge'[q] = okAge[q] /\ stat'[q] = stat[q]
        /\ stat[q] # "down" /\ pass'[q].pc \in {"idle", "give"}
    BY <1>1, <1>9, GivingTypes DEF FollowOpen, Alive, TypeOK
  <2>2. /\ row' = Granted(q, Won(q))
        /\ tok' = [tok EXCEPT ![q] = WithTokens(tok[q], Won(q))]
    BY <1>9 DEF FollowOpen
  <2>3. ASSUME NEW g \in Users PROVE TokenBacked(q, g)'
    <3>1. tok'[q][g] = IF g \in Won(q) THEN row[g].epoch + 1 ELSE tok[q][g]
      BY <1>1, <2>2 DEF WithTokens, TypeOK
    <3>2. CASE g \in Won(q)
      <4>1. /\ row'[g].pod = q /\ row'[g].epoch = row[g].epoch + 1
            /\ row'[g].left = TTL
        BY <2>2, <3>2 DEF Granted
      <4> QED BY <1>1, <2>1, <3>1, <3>2, <4>1 DEF TokenBacked, Backed, AgeCap
    <3>3. CASE g \notin Won(q)
      <4>1. row'[g] = row[g]
        BY <2>2, <3>3 DEF Granted
      <4> QED BY <1>1, <2>1, <3>1, <3>3, <4>1
              DEF PodInv, TokenBacked, LocallyValid, Running
    <3> QED BY <3>2, <3>3
  <2> QED BY <1>3, <1>4, <2>1, <2>3 DEF PodInv
<1>10. ASSUME NEW h \in Users, GiveBack(q, h) PROVE PodInv(q)'
  <2>1. /\ okAge'[q] = okAge[q] /\ stat'[q] = stat[q]
        /\ stat[q] # "down" /\ pass'[q].pc \in {"idle", "give"}
        /\ tok'[q] = [tok[q] EXCEPT ![h] = 0]
    BY <1>1, <1>10, GivingTypes DEF GiveBack, Alive, TypeOK
  <2>2. ASSUME NEW g \in Users PROVE TokenBacked(q, g)'
    <3>1. CASE g = h
      <4>1. tok'[q][g] = 0
        BY <1>1, <2>1, <3>1 DEF TypeOK
      <4> QED BY <4>1 DEF TokenBacked, LocallyValid
    <3>2. CASE g # h
      <4>1. row'[g] = row[g] /\ tok'[q][g] = tok[q][g]
        BY <1>1, <1>10, <2>1, <3>2 DEF GiveBack, TypeOK
      <4> QED BY <1>1, <2>1, <4>1 DEF PodInv, TokenBacked, LocallyValid, Running
    <3> QED BY <3>1, <3>2
  <2> QED BY <1>3, <1>4, <2>1, <2>2 DEF PodInv
<1>11. CASE PassEnd(q)
  <2>1. /\ okAge'[q] = okAge[q] /\ tok'[q] = tok[q] /\ stat'[q] = stat[q]
        /\ row' = row /\ pass'[q] = Idle /\ stat[q] # "down"
    BY <1>1, <1>11 DEF PassEnd, Alive, TypeOK
  <2>2. pass'[q].pc = "idle"
    BY <2>1 DEF Idle
  <2>3. ASSUME NEW g \in Users PROVE TokenBacked(q, g)'
    BY <1>1, <2>1 DEF PodInv, TokenBacked, LocallyValid, Running
  <2> QED BY <1>3, <1>4, <2>1, <2>2, <2>3 DEF PodInv
<1>12. CASE PassFail(q) \/ RenewReplyLost(q) \/ AcquireReplyLost(q)
  <2>1. /\ AfterFailure(q) /\ Alive(q)
        /\ pass[q].pc \in {"renew", "acquire", "acquiring", "retire", "over"}
    BY <1>12 DEF PassFail, RenewReplyLost, AcquireReplyLost
  <2>2. /\ ~ ReleaseAll(q) /\ ~ \E h \in Users : GiveBack(q, h)
        /\ okAge'[q] = okAge[q] /\ tok'[q] \in {tok[q], NoTokens}
        /\ stat'[q] = stat[q] /\ pass'[q].pc = "idle" /\ stat[q] # "down"
    BY <1>1, <2>1 DEF AfterFailure, ReleaseAll, GiveBack, Alive, TypeOK, Idle
  <2> QED BY <1>2, <1>3, <1>4, <2>2 DEF PodInv, Running
<1>13. CASE FollowFail(q)
  <2>1. /\ ~ ReleaseAll(q) /\ ~ \E h \in Users : GiveBack(q, h)
        /\ okAge'[q] = okAge[q] /\ tok'[q] = tok[q] /\ stat'[q] = stat[q]
        /\ pass'[q].pc \in {"idle", "give"} /\ stat[q] # "down"
    <3>1. pass'[q].pc \in {"idle", "give"}
      BY <1>1, <1>13, GivingTypes DEF FollowFail, TypeOK
    <3>2. ~ ReleaseAll(q)
      BY <1>1, <1>13 DEF FollowFail, ReleaseAll, TypeOK
    <3> QED BY <1>1, <1>13, <3>1, <3>2 DEF FollowFail, GiveBack, Alive, TypeOK
  <2> QED BY <1>2, <1>3, <1>4, <2>1 DEF PodInv, Running
<1>14. CASE MarkDraining(q) \/ Close(q)
  <2>1. /\ okAge'[q] = okAge[q] /\ tok'[q] = tok[q] /\ row' = row
        /\ pass'[q] = pass[q] /\ stat[q] = "up" /\ stat'[q] \in {"up", "closing"}
    BY <1>1, <1>14 DEF MarkDraining, Close, TypeOK
  <2> QED BY <1>1, <1>4, <2>1
          DEF PodInv, TokenBacked, HeldBacked, LocallyValid, Running
<1>15. CASE ReleaseAll(q)
  <2>1. stat'[q] = "released"
    BY <1>15 DEF ReleaseAll, TypeOK, IInv
  <2> QED BY <1>4, <2>1 DEF PodInv, TokenBacked, HeldBacked, Running
<1>16. CASE Down(q)
  <2>1. stat'[q] = "down" /\ tok'[q] = NoTokens /\ pass'[q] = Idle
    BY <1>1, <1>16 DEF Down, TypeOK
  <2> QED BY <2>1 DEF PodInv, TokenBacked, HeldBacked, Running, DeadTrustsNothing,
                      NoTokens, Idle
<1>17. CASE Restart(q)
  <2>1. /\ stat'[q] = "up" /\ tok'[q] = NoTokens /\ pass'[q] = Idle
    BY <1>1, <1>17 DEF Restart, TypeOK, PodInv, DeadTrustsNothing
  <2>2. \A g \in Users : TokenBacked(q, g)'
    BY <2>1 DEF TokenBacked, LocallyValid, NoTokens
  <2>3. pass'[q].pc = "idle"
    BY <2>1 DEF Idle
  <2> QED BY <1>3, <1>4, <2>1, <2>2, <2>3 DEF PodInv
<1> QED BY <1>5, <1>6, <1>7, <1>8, <1>9, <1>10, <1>11, <1>12, <1>13, <1>14,
           <1>15, <1>16, <1>17, <1>18 DEF LeadPass, Lifecycle

\* Time: a row loses a tick of life exactly when the trust in it ages a tick.
LEMMA TickStep ==
  ASSUME IInv, Tick, NEW p \in Pods
  PROVE  PodInv(p)'
<1> USE AssumptionsHold DEF Assumptions
<1>1. /\ TypeOK /\ PodInv(p)
      /\ pass[p] \in Passes /\ pass[p].age \in 0 .. AgeCap
      /\ okAge[p] \in 0 .. AgeCap
  BY PassEdits DEF IInv, TypeOK
<1>2. /\ stat' = stat /\ tok' = tok
      /\ okAge'[p] = Least(okAge[p] + 1, AgeCap)
      /\ pass'[p] = [pass[p] EXCEPT !.age = Least(@ + 1, AgeCap)]
  BY DEF Tick
<1>3. /\ pass'[p].pc = pass[p].pc /\ pass'[p].held = pass[p].held
      /\ pass'[p].age = Least(pass[p].age + 1, AgeCap)
  BY <1>1, <1>2 DEF Passes
<1>4. ASSUME NEW g \in Users, NEW e, NEW a \in 0 .. AgeCap,
             Least(a + 1, AgeCap) <= LocalDeadline, Backed(row[g], p, e, a)
      PROVE  Backed(row'[g], p, e, Least(a + 1, AgeCap))
  <2>1. row[g] \in Rows /\ row[g].left \in -1 .. TTL
    BY <1>1, RowEdits DEF TypeOK
  <2>2. row[g].left > 0 /\ Least(a + 1, AgeCap) = a + 1
    BY <1>4, <2>1 DEF Backed, Least, AgeCap
  <2>3. /\ row'[g].pod = row[g].pod /\ row'[g].epoch = row[g].epoch
        /\ row'[g].left = row[g].left - 1
    <3>1. row'[g] = [row[g] EXCEPT !.left = row[g].left - 1]
      BY <2>1, <2>2 DEF Tick
    <3> QED BY <2>1, <3>1 DEF Rows
  <2> QED BY <1>4, <2>1, <2>2, <2>3 DEF Backed
<1>5. ASSUME NEW g \in Users PROVE TokenBacked(p, g)'
  <2>1. okAge'[p] <= LocalDeadline => okAge[p] <= LocalDeadline
    BY <1>1, <1>2 DEF Least, AgeCap
  <2> QED BY <1>1, <1>2, <1>4, <2>1
          DEF PodInv, TokenBacked, LocallyValid, Running
<1>6. ASSUME NEW g \in Users PROVE HeldBacked(p, g)'
  <2>1. pass'[p].age <= LocalDeadline => pass[p].age <= LocalDeadline
    BY <1>1, <1>3 DEF Least, AgeCap
  <2> QED BY <1>1, <1>2, <1>3, <1>4, <2>1 DEF PodInv, HeldBacked, Running
<1>7. DeadTrustsNothing(p)'
  <2>1. ASSUME pass[p] = Idle PROVE pass'[p] = Idle
    <3>1. pass'[p] = [pass[p] EXCEPT !.age = Least(pass[p].age + 1, AgeCap)]
      BY <1>1 DEF Tick, TypeOK
    <3>2. Least(Idle.age + 1, AgeCap) = AgeCap
      BY AssumptionsHold DEF Assumptions, Idle, Least, AgeCap
    <3>3. [Idle EXCEPT !.age = AgeCap] = Idle
      <4>1. \A r \in Passes : [r EXCEPT !.age = r.age] = r
        BY DEF Passes
      <4>2. Idle \in Passes /\ Idle.age = AgeCap
        BY InitialValues DEF Idle
      <4> QED BY <4>1, <4>2
    <3> QED BY <2>1, <3>1, <3>2, <3>3
  <2> QED BY <1>1, <1>2, <2>1 DEF PodInv, DeadTrustsNothing
<1> QED BY <1>5, <1>6, <1>7 DEF PodInv

\* The invariant holds at the start: nobody trusts anything.
LEMMA InitInv == Init => IInv
<1> SUFFICES ASSUME Init PROVE \A p \in Pods : PodInv(p)
  BY InitType DEF IInv
<1>1. \A p \in Pods, g \in Users : tok[p][g] = 0 /\ pass[p].pc = "idle"
  BY DEF Init, NoTokens, Idle
<1> QED BY <1>1 DEF Init, PodInv, TokenBacked, HeldBacked, LocallyValid,
                    DeadTrustsNothing

\* Every step keeps the invariant.
LEMMA InvStep == IInv /\ [Next]_vars => IInv'
<1> SUFFICES ASSUME IInv, [Next]_vars, NEW p \in Pods PROVE PodInv(p)'
  BY TypeStep DEF IInv
<1>1. TypeOK /\ PodInv(p) /\ okAge[p] \in 0 .. AgeCap
      /\ pass[p].age \in 0 .. AgeCap
  BY PassEdits DEF IInv, TypeOK
<1>2. ASSUME NEW q \in Pods, LeadPass(q) \/ Lifecycle(q) PROVE PodInv(p)'
  <2>1. CASE p = q
    BY <1>2, <2>1, OwnStep
  <2>2. CASE p # q
    <3>1. /\ stat'[p] = stat[p] /\ tok'[p] = tok[p] /\ okAge'[p] = okAge[p]
          /\ pass'[p] = pass[p]
      BY <1>1, <1>2, <2>2, OthersKept
    <3>2. ASSUME NEW g \in Users, NEW e, NEW a \in 0 .. LocalDeadline,
                 Backed(row[g], p, e, a)
          PROVE  Backed(row'[g], p, e, a)
      BY <1>1, <1>2, <2>2, <3>2, RowsKept
    <3>3. ASSUME NEW g \in Users PROVE TokenBacked(p, g)' /\ HeldBacked(p, g)'
      <4>1. okAge[p] <= LocalDeadline => okAge[p] \in 0 .. LocalDeadline
        BY <1>1, AssumptionsHold DEF Assumptions
      <4>2. pass[p].age <= LocalDeadline => pass[p].age \in 0 .. LocalDeadline
        BY <1>1, AssumptionsHold DEF Assumptions
      <4>3. TokenBacked(p, g)'
        BY <1>1, <3>1, <3>2, <4>1 DEF PodInv, TokenBacked, LocallyValid, Running
      <4>4. HeldBacked(p, g)'
        BY <1>1, <3>1, <3>2, <4>2 DEF PodInv, HeldBacked, Running
      <4> QED BY <4>3, <4>4
    <3> QED BY <1>1, <3>1, <3>3 DEF PodInv, DeadTrustsNothing
  <2> QED BY <2>1, <2>2
<1>3. CASE Tick
  BY <1>3, TickStep
<1>5. CASE Relink
  <2>1. /\ row' = row /\ stat' = stat /\ tok' = tok /\ okAge' = okAge
        /\ pass'[p] = [pass[p] EXCEPT !.crossed = Asking(p)]
    BY <1>5 DEF Relink
  <2>2. /\ pass'[p].pc = pass[p].pc /\ pass'[p].age = pass[p].age
        /\ pass'[p].held = pass[p].held
    BY <1>1, <2>1 DEF TypeOK, Passes
  <2>3. pass[p] = Idle => pass'[p] = Idle
    <3>1. Idle.pc = "idle" /\ [Idle EXCEPT !.crossed = FALSE] = Idle
      <4>1. \A r \in Passes : r.crossed = FALSE => [r EXCEPT !.crossed = FALSE] = r
        BY DEF Passes
      <4>2. Idle \in Passes /\ Idle.crossed = FALSE /\ Idle.pc = "idle"
        BY InitialValues DEF Idle
      <4> QED BY <4>1, <4>2
    <3>2. pass[p] = Idle => Asking(p) = FALSE
      BY <3>1 DEF Asking
    <3> QED BY <2>1, <3>1, <3>2
  <2> QED BY <1>1, <2>1, <2>2, <2>3 DEF PodInv, TokenBacked, HeldBacked,
             LocallyValid, Running, DeadTrustsNothing, Backed
<1>4. CASE (\E u \in Users : SignInOrOut(u)) \/ UNCHANGED vars
  <2>1. row' = row /\ UNCHANGED podVars
    BY <1>4 DEF SignInOrOut, vars
  <2> QED BY <1>1, <2>1 DEF podVars, PodInv, TokenBacked, HeldBacked,
             LocallyValid, Running, DeadTrustsNothing, Backed
<1> QED BY <1>2, <1>3, <1>4, <1>5 DEF Next

-----------------------------------------------------------------------------
(***************************************************************************)
(* The theorems.                                                           *)
(***************************************************************************)
\* Whatever a pod trusts or is about to trust is backed, in every behaviour.
THEOREM Invariance == Spec => []IInv
  BY InitInv, InvStep, PTL DEF Spec

\* The invariant is strong enough: what is trusted is leased.
LEMMA InvTrust == IInv => TrustImpliesLease
<1> SUFFICES ASSUME IInv, NEW p \in Pods, NEW g \in Users,
                    Running(p), LocallyValid(p, g)
             PROVE  LeaseOk(g, p, tok[p][g])
  BY DEF TrustImpliesLease
<1>1. /\ Backed(row[g], p, tok[p][g], okAge[p])
      /\ okAge[p] \in 0 .. AgeCap /\ row[g].left \in -1 .. TTL
  BY RowEdits DEF IInv, PodInv, TokenBacked, TypeOK
<1> QED BY <1>1, AssumptionsHold DEF Assumptions, Backed, LocallyValid, LeaseOk

\* Local trust is never wrong: Store.Fence needs no database to be right.
THEOREM TrustIsBacked == Spec => []TrustImpliesLease
  BY InvTrust, Invariance, PTL

\* Two running pods never both act for a group.
THEOREM OneActorPerGroup == Spec => []OneActor
<1>1. TrustImpliesLease => OneActor
  BY DEF TrustImpliesLease, OneActor, LeaseOk
<1> QED BY <1>1, TrustIsBacked, PTL

-----------------------------------------------------------------------------
(***************************************************************************)
(* Linked users.                                                           *)
(***************************************************************************)
Live(r) == r.pod # NoPod /\ r.left > 0

\* The commit of an acquire.
Grants(p) == Asking(p) /\ row' = Granted(p, Won(p))

\* The labelling in force is one that vehicles can induce: a key is a member.
LEMMA KeysAreMembers == Spec => [](gid \in Groupings)
<1>1. Init => gid \in Groupings
  BY DEF Init
<1>2. gid \in Groupings /\ [Next]_vars => (gid \in Groupings)'
  <2> SUFFICES ASSUME gid \in Groupings, [Next]_vars PROVE (gid \in Groupings)'
    OBVIOUS
  <2>1. Relink \/ gid' = gid
    BY DEF Next, LeadPass, Lifecycle, LeadStart, LeadRenew, Snapshot, LeadAcquire,
           LeadInstall, FollowOpen, GiveBack, PassEnd, PassFail, RenewReplyLost,
           AcquireReplyLost, FollowFail, AfterFailure, MarkDraining, Close,
           ReleaseAll, Down, Restart, SignInOrOut, Tick, vars
  <2> QED BY <2>1 DEF Relink
<1> QED BY <1>1, <1>2, PTL DEF Spec

\* Nothing but a grant brings a row to life or gives a live one another pod.
LEMMA LiveComesFrom ==
  ASSUME TypeOK, [Next]_vars, NEW g \in Users, Live(row'[g])
  PROVE  \/ Live(row[g]) /\ row'[g].pod = row[g].pod
         \/ \E p \in Pods : g \in Won(p) /\ Grants(p)
<1>1. row[g] \in Rows /\ row \in [Users -> Rows]
  BY DEF TypeOK
<1>2. ASSUME NEW p \in Pods, Grants(p)
      PROVE  \/ Live(row[g]) /\ row'[g].pod = row[g].pod
             \/ \E q \in Pods : g \in Won(q) /\ Grants(q)
  <2>1. CASE g \in Won(p)
    BY <1>2, <2>1
  <2>2. CASE g \notin Won(p)
    <3>1. row'[g] = row[g]
      BY <1>2, <2>2 DEF Grants, Granted
    <3> QED BY <3>1
  <2> QED BY <2>1, <2>2
<1>3. ASSUME NEW p \in Pods, row' = Renewed(p)
      PROVE  Live(row[g]) /\ row'[g].pod = row[g].pod
  <2>1. CASE g \in Mine(p) \cap Cand
    <3>1. row'[g] = [row[g] EXCEPT !.left = TTL]
      BY <1>3, <2>1 DEF Renewed
    <3>2. row'[g].pod = row[g].pod
      BY <1>1, <3>1 DEF Rows
    <3>3. row[g].left > 0
      BY <2>1 DEF Mine
    <3> QED BY <3>2, <3>3 DEF Live
  <2>2. CASE g \notin Mine(p) \cap Cand
    <3>1. row'[g] = row[g]
      BY <1>3, <2>2 DEF Renewed
    <3> QED BY <3>1
  <2> QED BY <2>1, <2>2
<1>4. ASSUME NEW p \in Pods, (\E h \in Users : GiveBack(p, h)) \/ ReleaseAll(p)
      PROVE  Live(row[g]) /\ row'[g].pod = row[g].pod
  <2>1. row'[g] \in {row[g], Released(row[g])}
    BY <1>1, <1>4 DEF GiveBack, ReleaseAll
  <2>2. Released(row[g]).pod = NoPod
    BY <1>1 DEF Released, Rows
  <2> QED BY <2>1, <2>2 DEF Live
<1>5. CASE row' = row
  BY <1>5
<1>6. CASE Tick
  BY <1>1, <1>6 DEF Tick, Rows, Live
<1>7. ASSUME NEW p \in Pods, LeadPass(p) \/ Lifecycle(p)
      PROVE  \/ Live(row[g]) /\ row'[g].pod = row[g].pod
             \/ \E q \in Pods : g \in Won(q) /\ Grants(q)
  <2>1. \/ row' = row \/ row' = Renewed(p) \/ Grants(p)
        \/ (\E h \in Users : GiveBack(p, h)) \/ ReleaseAll(p)
    BY <1>7 DEF Grants, Asking, LeadPass, Lifecycle, LeadStart, LeadRenew, Snapshot,
         LeadAcquire, LeadInstall, FollowOpen, PassEnd, PassFail, RenewReplyLost,
         AcquireReplyLost, FollowFail, MarkDraining, Close, Down, Restart
  <2> QED BY <1>2, <1>3, <1>4, <1>5, <2>1
<1> QED BY <1>5, <1>6, <1>7 DEF Next, Relink, SignInOrOut, vars

\* What an acquire under way names is still what its guard found: keys of groups
\* none of whose members has a live row of another pod.
GuardHolds(p) ==
    \A k \in pass[p].want :
        /\ k \in Users /\ gid[k] = k
        /\ \A m \in Users : gid[m] = k /\ m # k /\ Live(row[m]) => row[m].pod = p

\* The acquires under way at a time are all crossed by a link, or none is and their
\* guards hold: a pod that commits a key takes none that another's guard looked at.
CrossedAlike ==
    /\ \A p \in Pods : pass[p].crossed => Asking(p)
    /\ \A p, q \in Pods : Asking(p) /\ Asking(q) => pass[p].crossed = pass[q].crossed
    /\ \A p \in Pods : Asking(p) /\ ~ pass[p].crossed => GuardHolds(p)

\* What a step of p makes of p's own pass: it asks, or is done asking, or goes on.
LEMMA AsksOrNot ==
  ASSUME TypeOK, CrossedAlike, NEW p \in Pods, LeadPass(p) \/ Lifecycle(p)
  PROVE  \/ Snapshot(p)
         \/ pass'[p] = pass[p]
         \/ ~ pass'[p].crossed /\ pass'[p].pc \notin {"acquiring", "following"}
<1>1. /\ pass \in [Pods -> Passes] /\ pass[p] \in Passes
      /\ pass[p].crossed => pass[p].pc \in {"acquiring", "following"}
  BY DEF TypeOK, CrossedAlike, Asking
<1>2. /\ ~ Idle.crossed /\ Idle.pc = "idle"
      /\ \A G : ~ Giving(G).crossed /\ Giving(G).pc \in {"idle", "give"}
      /\ \A G : [Idle EXCEPT !.pc = "follow", !.give = G].pc = "follow"
      /\ \A G : ~ [Idle EXCEPT !.pc = "follow", !.give = G].crossed
      /\ [Idle EXCEPT !.pc = "renew", !.age = 0].pc = "renew"
      /\ ~ [Idle EXCEPT !.pc = "renew", !.age = 0].crossed
      /\ \A a, h : [Idle EXCEPT !.pc = "retire", !.age = a, !.held = h].pc = "retire"
      /\ \A a, h : ~ [Idle EXCEPT !.pc = "retire", !.age = a, !.held = h].crossed
  BY DEF Idle, Giving
<1>3. CASE LeadRenew(p)
  BY <1>1, <1>3 DEF LeadRenew, Passes
<1>4. CASE LeadStart(p) \/ LeadAcquire(p)
  <2>1. CASE LeadStart(p)
    <3>1. pass'[p] = [Idle EXCEPT !.pc = "renew", !.age = 0]
      BY <1>1, <2>1 DEF LeadStart
    <3> QED BY <1>2, <3>1
  <2>2. CASE LeadAcquire(p)
    <3>1. pass'[p] = [Idle EXCEPT !.pc = "retire", !.age = pass[p].age,
                                  !.held = WithTokens(pass[p].held, Won(p))]
      BY <1>1, <2>2 DEF LeadAcquire
    <3> QED BY <1>2, <3>1
  <2> QED BY <1>4, <2>1, <2>2
<1>5. CASE LeadInstall(p)
  <2>1. PICK G \in SUBSET Users :
          \/ pass' = [pass EXCEPT ![p] = Giving(G)]
          \/ pass' = [pass EXCEPT ![p] = [Idle EXCEPT !.pc = "follow", !.give = G]]
    BY <1>5 DEF LeadInstall, Mine
  <2>2. CASE pass' = [pass EXCEPT ![p] = Giving(G)]
    BY <1>1, <1>2, <2>2
  <2>3. CASE pass' = [pass EXCEPT ![p] = [Idle EXCEPT !.pc = "follow", !.give = G]]
    <3>1. pass'[p] = [Idle EXCEPT !.pc = "follow", !.give = G]
      BY <1>1, <2>3
    <3> QED BY <1>2, <3>1
  <2> QED BY <2>1, <2>2, <2>3
<1>6. CASE FollowOpen(p) \/ FollowFail(p) \/ \E h \in Users : GiveBack(p, h)
  <2>1. \E G : pass' = [pass EXCEPT ![p] = Giving(G)]
    BY <1>6 DEF FollowOpen, FollowFail, GiveBack
  <2> QED BY <1>1, <1>2, <2>1
<1>7. CASE PassEnd(p) \/ PassFail(p) \/ RenewReplyLost(p) \/ AcquireReplyLost(p) \/ Down(p)
  <2>1. pass' = [pass EXCEPT ![p] = Idle]
    BY <1>7 DEF PassEnd, PassFail, RenewReplyLost, AcquireReplyLost, AfterFailure, Down
  <2> QED BY <1>1, <1>2, <2>1
<1>8. CASE MarkDraining(p) \/ Close(p) \/ ReleaseAll(p) \/ Restart(p)
  BY <1>8 DEF MarkDraining, Close, ReleaseAll, Restart
<1> QED BY <1>3, <1>4, <1>5, <1>6, <1>7, <1>8 DEF LeadPass, Lifecycle

\* The keys are keys of their own groups.
LEMMA CandAreKeys == TypeOK /\ gid \in Groupings => \A k \in Cand : k \in Users /\ gid[k] = k
<1> SUFFICES ASSUME TypeOK, gid \in Groupings, NEW k \in Cand
             PROVE  k \in Users /\ gid[k] = k
  OBVIOUS
<1>1. gid \in [Users -> Users] /\ \A u \in Users : gid[gid[u]] = gid[u]
  BY GroupingsAssumption
<1>2. PICK u \in signedIn : k = gid[u]
  BY DEF Cand
<1>3. u \in Users
  BY <1>2 DEF TypeOK
<1> QED BY <1>1, <1>2, <1>3

\* A guard that held still holds after a step that links nobody and is not a snapshot.
LEMMA GuardStays ==
  ASSUME TypeOK, CrossedAlike, gid \in Groupings, [Next]_vars, gid' = gid,
         NEW p \in Pods, Asking(p), ~ pass[p].crossed, pass'[p] = pass[p]
  PROVE  GuardHolds(p)'
<1>1. GuardHolds(p)
  BY DEF CrossedAlike
<1>2. ASSUME NEW k \in pass[p].want, NEW m \in Users, gid[m] = k, m # k, Live(row'[m])
      PROVE  row'[m].pod = p
  <2>1. ASSUME NEW q \in Pods, m \in Won(q), Grants(q) PROVE FALSE
    <3>1. ~ pass[q].crossed /\ Asking(q)
      BY <2>1 DEF Grants, CrossedAlike
    <3>2. GuardHolds(q) /\ m \in pass[q].want
      BY <2>1, <3>1 DEF CrossedAlike, Won
    <3> QED BY <1>2, <3>2 DEF GuardHolds
  <2>2. Live(row[m]) /\ row'[m].pod = row[m].pod
    BY <1>2, <2>1, LiveComesFrom
  <2> QED BY <1>1, <1>2, <2>2 DEF GuardHolds
<1> QED BY <1>1, <1>2 DEF GuardHolds

\* A guard holds when it has been looked at.
LEMMA GuardTaken ==
  ASSUME TypeOK, gid \in Groupings, NEW p \in Pods, Snapshot(p)
  PROVE  GuardHolds(p)'
<1>1. /\ pass'[p].want \subseteq Takable(p)
      /\ row' = row /\ gid' = gid
  BY SnapshotPass DEF Snapshot
<1>2. \A k \in Takable(p) :
        /\ k \in Users /\ gid[k] = k
        /\ \A m \in Users : gid[m] = k /\ m # k /\ Live(row[m]) => row[m].pod = p
  BY CandAreKeys DEF Takable, Rekeyed, Live
<1> QED BY <1>1, <1>2 DEF GuardHolds

\* Every step keeps the acquires alike.
LEMMA CrossedStep ==
  TypeOK /\ CrossedAlike /\ gid \in Groupings /\ [Next]_vars => CrossedAlike'
<1> SUFFICES ASSUME TypeOK, CrossedAlike, gid \in Groupings, [Next]_vars
             PROVE  CrossedAlike'
  OBVIOUS
<1>1. pass \in [Pods -> Passes]
  BY DEF TypeOK
<1>2. ASSUME NEW q \in Pods, LeadPass(q) \/ Lifecycle(q) PROVE CrossedAlike'
  <2>1. /\ gid' = gid
        /\ \A p \in Pods : p # q => pass'[p] = pass[p]
    <3>1. gid' = gid
      BY <1>2 DEF LeadPass, Lifecycle, LeadStart, LeadRenew, Snapshot, LeadAcquire,
         LeadInstall, FollowOpen, GiveBack, PassEnd, PassFail, RenewReplyLost,
         AcquireReplyLost, FollowFail, AfterFailure, MarkDraining, Close,
         ReleaseAll, Down, Restart
    <3> QED BY <1>2, <3>1, OthersKept
  <2>2. CASE Snapshot(q)
    <3>1. /\ pass'[q].crossed = (\E p \in Pods : pass[p].crossed)
          /\ Asking(q)' /\ ~ Asking(q)
      <4>1. pass'[q].crossed = (\E p \in Pods : pass[p].crossed)
        BY <2>2, SnapshotPass
      <4>2. /\ pass[q].pc \in {"acquire", "follow"}
            /\ pass'[q].pc \in {"acquiring", "following"}
        BY <2>2, SnapshotPass
      <4> QED BY <4>1, <4>2 DEF Asking
    <3>2. ASSUME NEW p \in Pods, Asking(p)' PROVE pass'[p].crossed = pass'[q].crossed
      <4>1. CASE p # q
        <5>1. Asking(p) /\ pass'[p] = pass[p]
          BY <2>1, <3>2, <4>1 DEF Asking
        <5>2. pass[p].crossed = (\E r \in Pods : pass[r].crossed)
          BY <1>1, <5>1 DEF CrossedAlike, Passes
        <5> QED BY <3>1, <5>1, <5>2
      <4> QED BY <4>1
    <3>3. ASSUME NEW p \in Pods, Asking(p)', ~ pass'[p].crossed PROVE GuardHolds(p)'
      <4>1. CASE p = q
        BY <2>2, <4>1, GuardTaken
      <4>2. CASE p # q
        BY <2>1, <3>3, <4>2, GuardStays DEF Asking
      <4> QED BY <4>1, <4>2
    <3>4. \A p \in Pods : pass'[p].crossed => Asking(p)'
      BY <2>1, <3>1 DEF CrossedAlike, Asking
    <3> QED BY <3>2, <3>3, <3>4 DEF CrossedAlike
  <2>3. CASE ~ Snapshot(q)
    <3>1. \A p \in Pods : \/ pass'[p] = pass[p]
                          \/ ~ pass'[p].crossed /\ ~ Asking(p)'
      BY <1>2, <2>1, <2>3, AsksOrNot DEF Asking
    <3>2. ASSUME NEW p \in Pods, Asking(p)', ~ pass'[p].crossed PROVE GuardHolds(p)'
      BY <2>1, <3>1, <3>2, GuardStays DEF Asking
    <3>3. \A p \in Pods : pass'[p].crossed => Asking(p)'
      BY <3>1 DEF CrossedAlike, Asking
    <3>4. \A p, r \in Pods : Asking(p)' /\ Asking(r)' => pass'[p].crossed = pass'[r].crossed
      BY <3>1 DEF CrossedAlike, Asking
    <3> QED BY <3>2, <3>3, <3>4 DEF CrossedAlike
  <2> QED BY <2>2, <2>3
<1>3. CASE Relink
  <2>1. \A p \in Pods : /\ pass'[p].crossed = Asking(p)
                        /\ pass'[p].pc = pass[p].pc
    BY <1>1, <1>3 DEF Relink, Passes
  <2> QED BY <2>1 DEF CrossedAlike, Asking
<1>4. CASE Tick
  <2>1. \A p \in Pods : /\ pass'[p].crossed = pass[p].crossed
                        /\ pass'[p].pc = pass[p].pc /\ ~ Asking(p)
    BY <1>1, <1>4 DEF Tick, Passes
  <2> QED BY <2>1 DEF CrossedAlike, Asking
<1>5. CASE (\E u \in Users : SignInOrOut(u)) \/ UNCHANGED vars
  <2>1. pass' = pass /\ gid' = gid
    BY <1>5 DEF SignInOrOut, vars, podVars
  <2>2. \A p \in Pods : Asking(p) /\ ~ pass[p].crossed => GuardHolds(p)'
    BY <2>1, GuardStays
  <2> QED BY <2>1, <2>2 DEF CrossedAlike, Asking
<1> QED BY <1>2, <1>3, <1>4, <1>5 DEF Next

\* In every behaviour.
LEMMA AlwaysCrossedAlike == Spec => []CrossedAlike
<1>1. Init => CrossedAlike
  BY DEF Init, CrossedAlike, Asking, Idle
<1> QED BY <1>1, CrossedStep, TypeCorrect, KeysAreMembers, PTL DEF Spec

\* A grant whose guard still holds respects the live rows of the other members.
LEMMA GrantSeesMembers ==
  ASSUME TypeOK, CrossedAlike,
         NEW p \in Pods, Grants(p), ~ pass[p].crossed,
         NEW g \in Won(p), NEW h \in Users, g # h, gid[g] = gid[h], Live(row'[h])
  PROVE  row'[g].pod = row'[h].pod
<1>1. GuardHolds(p) /\ Won(p) \subseteq pass[p].want
  BY DEF CrossedAlike, Grants, Won
<1>2. g \in Users /\ gid[g] = g
  BY <1>1 DEF GuardHolds
<1>3. row'[g].pod = p
  BY <1>2 DEF Grants, Granted
<1>4. h \notin Won(p)
  BY <1>1, <1>2 DEF GuardHolds
<1>5. row'[h] = row[h]
  BY <1>4 DEF Grants, Granted
<1> QED BY <1>1, <1>2, <1>3, <1>5 DEF GuardHolds

\* Two pods come to have live rows for one group only when users are linked, or by
\* an acquire that a link has crossed.
THEOREM OverlapNeedsLinking == Spec => OverlapOnlyByLinking
<1> DEFINE ByCrossed == \E p \in Pods : /\ pass[p].crossed
                                        /\ \E g \in pass[p].want :
                                             /\ row'[g].pod = p
                                             /\ row'[g].epoch > row[g].epoch
<1>1. ASSUME TypeOK, NEW p \in Pods, Grants(p), NEW g \in Won(p), pass[p].crossed
      PROVE  ByCrossed
  <2>1. g \in Users /\ g \in pass[p].want /\ row[g].epoch \in Int
    BY <1>1, RowEdits, AssumptionsHold DEF Won, Free, TypeOK, Epochs, Assumptions
  <2>2. row'[g].pod = p /\ row'[g].epoch = row[g].epoch + 1
    BY <1>1, <2>1 DEF Grants, Granted
  <2> QED BY <1>1, <2>1, <2>2
<1>2. ASSUME TypeOK, CrossedAlike, [Next]_vars, NoOverlap, ~ ByCrossed,
             NEW g \in Users, NEW h \in Users, g # h, gid[g] = gid[h],
             Live(row'[g]), Live(row'[h])
      PROVE  row'[g].pod = row'[h].pod
  <2>1. CASE \E p \in Pods : g \in Won(p) /\ Grants(p)
    <3>1. PICK p \in Pods : g \in Won(p) /\ Grants(p)
      BY <2>1
    <3>2. ~ pass[p].crossed
      BY <1>1, <1>2, <3>1
    <3> QED BY <1>2, <3>1, <3>2, GrantSeesMembers
  <2>2. CASE \E p \in Pods : h \in Won(p) /\ Grants(p)
    <3>1. PICK p \in Pods : h \in Won(p) /\ Grants(p)
      BY <2>2
    <3>2. ~ pass[p].crossed
      BY <1>1, <1>2, <3>1
    <3> QED BY <1>2, <3>1, <3>2, GrantSeesMembers
  <2>3. CASE /\ Live(row[g]) /\ row'[g].pod = row[g].pod
             /\ Live(row[h]) /\ row'[h].pod = row[h].pod
    BY <1>2, <2>3 DEF NoOverlap, Live
  <2> QED BY <1>2, <2>1, <2>2, <2>3, LiveComesFrom
<1>3. ASSUME TypeOK, CrossedAlike, [Next]_vars, gid' = gid, NoOverlap, ~ ByCrossed
      PROVE  NoOverlap'
  <2> HIDE DEF ByCrossed
  <2> QED BY <1>2, <1>3 DEF NoOverlap, Live
<1>4. TypeOK /\ CrossedAlike /\ [Next]_vars =>
        [gid' = gid /\ NoOverlap /\ ~ NoOverlap' =>
           \E p \in Pods : /\ pass[p].crossed
                          /\ \E g \in pass[p].want : /\ row'[g].pod = p
                                                     /\ row'[g].epoch > row[g].epoch]_vars
  BY <1>3
<1> QED BY <1>4, TypeCorrect, AlwaysCrossedAlike, PTL DEF Spec, OverlapOnlyByLinking

-----------------------------------------------------------------------------
(***************************************************************************)
(* The refinement: GroupLease implements Ownership.  IInv already says who  *)
(* may act, before and after the step; what remains is what a step may do   *)
(* to a row.                                                               *)
(***************************************************************************)
\* Only the row's pod acts for g, under the row's epoch, while the row is live.
ActsEntitled(g) ==
    /\ ActingFor(g) \in {{}, {[pod |-> row[g].pod, epoch |-> row[g].epoch]}}
    /\ ActingFor(g) # {} => row[g].pod # NoPod /\ row[g].left > 0
AllEntitled == \A g \in Users : ActsEntitled(g)

\* That is what the invariant says of who acts.
LEMMA ActingIsEntitled == IInv => AllEntitled
<1> SUFFICES ASSUME IInv, NEW g \in Users PROVE ActsEntitled(g)
  BY DEF AllEntitled
<1>1. TrustImpliesLease
  BY InvTrust
<1>2. \A p \in Pods : Running(p) /\ LocallyValid(p, g) =>
        row[g].pod = p /\ row[g].epoch = tok[p][g] /\ row[g].left > 0
  BY <1>1 DEF TrustImpliesLease, LeaseOk
<1>3. \A x \in ActingFor(g) : /\ x = [pod |-> row[g].pod, epoch |-> row[g].epoch]
                              /\ row[g].pod \in Pods /\ row[g].left > 0
  BY <1>2 DEF ActingFor
<1> QED BY <1>3, AssumptionsHold DEF Assumptions, ActsEntitled

\* What a step may do to a row's pod and epoch: nothing, free it, or grant it.
RowMove(g) ==
    \/ row'[g].pod = row[g].pod /\ row'[g].epoch = row[g].epoch
    \/ row'[g].pod = NoPod /\ row'[g].epoch = row[g].epoch
    \/ \E p \in Pods : \E S \in SUBSET Free : g \in S /\ row' = Granted(p, S)

\* And no step does anything else to it.
LEMMA RowMoves ==
  ASSUME TypeOK, [Next]_vars, NEW g \in Users
  PROVE  RowMove(g)
<1>1. row[g] \in Rows
  BY DEF TypeOK
<1>2. ASSUME NEW p \in Pods, NEW S \in SUBSET Free, row' = Granted(p, S)
      PROVE  RowMove(g)
  <2>1. CASE g \in S
    BY <1>2, <2>1 DEF RowMove
  <2>2. CASE g \notin S
    BY <1>2, <2>2 DEF Granted, RowMove
  <2> QED BY <2>1, <2>2
<1>3. ASSUME NEW p \in Pods, row' = Renewed(p) PROVE RowMove(g)
  <2>1. [row[g] EXCEPT !.left = TTL].pod = row[g].pod
        /\ [row[g] EXCEPT !.left = TTL].epoch = row[g].epoch
    BY <1>1 DEF Rows
  <2> QED BY <1>3, <2>1 DEF Renewed, RowMove
<1>4. ASSUME NEW p \in Pods, (\E h \in Users : GiveBack(p, h)) \/ ReleaseAll(p)
      PROVE  RowMove(g)
  <2>1. row'[g] \in {row[g], Released(row[g])}
    BY <1>4 DEF GiveBack, ReleaseAll, TypeOK
  <2>2. Released(row[g]).pod = NoPod /\ Released(row[g]).epoch = row[g].epoch
    BY <1>1 DEF Released, Rows
  <2> QED BY <2>1, <2>2 DEF RowMove
<1>5. CASE row' = row
  BY <1>5 DEF RowMove
<1>6. CASE Tick
  BY <1>1, <1>6 DEF Tick, Rows, RowMove
<1>7. ASSUME NEW p \in Pods, LeadPass(p) \/ Lifecycle(p) PROVE RowMove(g)
  BY <1>2, <1>3, <1>4, <1>5, <1>7, WonIsFree
     DEF LeadPass, Lifecycle, LeadStart, LeadRenew, Snapshot, LeadAcquire, LeadInstall,
         FollowOpen, PassEnd, PassFail, RenewReplyLost, AcquireReplyLost,
         FollowFail, MarkDraining, Close, Down, Restart
<1> QED BY <1>5, <1>6, <1>7 DEF Next, Relink, SignInOrOut, vars

\* Every step is, for each group, a grant, a give-up, or nothing but its holder
\* starting or stopping to act.
LEMMA OwnershipStep == IInv /\ [Next]_vars => [Own!Next]_(Own!vars)
<1>0. (IInv => AllEntitled)'
  BY ActingIsEntitled, PTL
<1> SUFFICES ASSUME IInv, [Next]_vars, NEW g \in Users
             PROVE  Own!Hold(g) \/ Own!Grant(g) \/ Own!GiveUp(g)
  BY DEF Own!Next
<1> DEFINE Me == [pod |-> row[g].pod, epoch |-> row[g].epoch]
           MeNext == [pod |-> row'[g].pod, epoch |-> row'[g].epoch]
<1>1. /\ TypeOK /\ TypeOK' /\ IInv'
      /\ row[g] \in Rows /\ row'[g] \in Rows
  BY InvStep DEF IInv, TypeOK
<1>2. /\ ActingFor(g) \in {{}, {Me}}
      /\ ActingFor(g) # {} => row[g].pod # NoPod /\ row[g].left > 0
  BY ActingIsEntitled DEF ActsEntitled, AllEntitled
<1>3. /\ ActingFor(g)' \in {{}, {MeNext}}
      /\ ActingFor(g)' # {} => row'[g].pod # NoPod
  BY <1>0, <1>1 DEF ActsEntitled, AllEntitled
<1>4. CASE row'[g].pod = row[g].pod /\ row'[g].epoch = row[g].epoch
  <2>1. ActingFor(g)' \in {{}, {Me}} /\ (row[g].pod = NoPod => ActingFor(g)' = {})
    BY <1>3, <1>4
  <2> QED BY <1>4, <2>1 DEF Own!Hold, Own!Nobody, Own!Entitled
<1>5. CASE row'[g].pod = NoPod /\ row'[g].epoch = row[g].epoch
  BY <1>3, <1>5 DEF Own!GiveUp, Own!Nobody
<1>6. CASE \E p \in Pods : \E S \in SUBSET Free : g \in S /\ row' = Granted(p, S)
  <2>1. /\ row[g].pod = NoPod \/ row[g].left < 0
        /\ row'[g].pod \in Pods /\ row'[g].epoch = row[g].epoch + 1
    BY <1>6 DEF Granted, Free
  <2>2. row[g].epoch \in Int /\ row[g].left \in Int /\ row'[g].epoch > row[g].epoch
    BY <1>1, <2>1, AssumptionsHold DEF Rows, Epochs, Assumptions
  <2>3. ActingFor(g) = {}
    BY <1>2, <2>1, <2>2
  <2>4. ActingFor(g)' \subseteq {MeNext}
    BY <1>3
  <2> QED BY <2>1, <2>2, <2>3, <2>4 DEF Own!Grant, Own!Nobody, Own!Entitled
<1> QED BY <1>1, <1>4, <1>5, <1>6, RowMoves DEF RowMove

\* The lease, with its clocks, passes and faults, is an ownership: one holder per
\* group, acting alone and under its epoch, until the group is nobody's.
THEOREM ImplementsOwnership == Spec => OwnershipHolds
<1>1. Init => Own!Init
  <2> SUFFICES ASSUME Init PROVE Own!Init
    OBVIOUS
  <2>1. \A g \in Users : ActingFor(g) = {}
    BY DEF Init, ActingFor, LocallyValid, NoTokens
  <2>2. \A g \in Users : row[g].pod = NoPod /\ row[g].epoch = 0
    BY DEF Init
  <2> QED BY <2>1, <2>2 DEF Own!Init, Own!Nobody
<1> QED BY <1>1, OwnershipStep, Invariance, PTL DEF Spec, OwnershipHolds, Own!Spec
=============================================================================
