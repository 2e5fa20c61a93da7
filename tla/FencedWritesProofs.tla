------------------------- MODULE FencedWritesProofs -------------------------
(***************************************************************************)
(* The guarded writes proved for any pods, users and timings with           *)
(* LocalDeadline < TTL and Land <= WarmUp.                                  *)
(*                                                                         *)
(* OldWritesAreOlder is proved under every fault.  Its strengthening says   *)
(* how old a write of the lease in force must be: it was admitted while the *)
(* row still had life.  StealWaits and CommitOrder are proved where no      *)
(* reply of an acquire is lost, no container restarts under its pod id and  *)
(* nobody links or signs out: each of those makes a thief forget that it    *)
(* stole (the lost reply breaks StealWaits in a run of its own).            *)
(***************************************************************************)
EXTENDS FencedWrites, GroupLeaseProofs

\* A write is of the lease in force or of an older one; one of the lease in force
\* was admitted while the row was alive; an older one is older than the lease.
WriteOlder(w) ==
    LET r == row[w.group]
    IN /\ w.epoch <= r.epoch
       /\ w.epoch = r.epoch => w.age >= 1 - r.left
       /\ w.epoch < r.epoch => w.age >= TTL - r.left
       /\ w.epoch < r.epoch /\ r.epoch \in stolen[w.group] => w.age > TTL - r.left

\* Only grants that were made are noted as steals.
StealsMade(g) == stolen[g] \subseteq 1 .. row[g].epoch

AgeInv ==
    /\ \A w \in inflight : WriteOlder(w)
    /\ \A g \in Users : StealsMade(g)

\* No pod knows of an epoch that was not granted.
KnownEpochs(p, g) ==
    /\ tok[p][g] <= row[g].epoch
    /\ pass[p].held[g] <= row[g].epoch
    /\ carried[p][g] <= row[g].epoch

FWInv ==
    /\ IInv /\ FWTypeOK /\ AgeInv
    /\ \A p \in Pods, g \in Users : KnownEpochs(p, g)

\* The assumptions on the two constants of this module.
LEMMA LandHolds == Land \in Nat /\ Land <= WarmUp
  BY LandAssumption

-----------------------------------------------------------------------------
(***************************************************************************)
(* What a step does to a row, its life included.                           *)
(***************************************************************************)
RowSame(g) == row'[g] = row[g]
RowRenewed(g) ==
    /\ row[g].left > 0 /\ row'[g].left = TTL
    /\ row'[g].pod = row[g].pod /\ row'[g].epoch = row[g].epoch
RowFreed(g) ==
    row'[g].pod = NoPod /\ row'[g].epoch = row[g].epoch /\ row'[g].left = row[g].left
RowGranted(g) ==
    /\ row[g].pod = NoPod \/ row[g].left < 0
    /\ row'[g].pod \in Pods /\ row'[g].left = TTL
    /\ row'[g].epoch = row[g].epoch + 1
RowStep(g) == RowSame(g) \/ RowRenewed(g) \/ RowFreed(g) \/ RowGranted(g)

\* A grant renews nothing and frees nothing.
LEMMA GrantedRows ==
  ASSUME TypeOK, NEW q \in Pods, NEW S \in SUBSET Free, row' = Granted(q, S),
         NEW g \in Users
  PROVE  /\ g \in S => RowGranted(g) /\ row'[g].pod = q
         /\ g \notin S => RowSame(g)
<1>1. CASE g \in S
  BY <1>1 DEF Granted, Free, RowGranted
<1>2. CASE g \notin S
  BY <1>2 DEF Granted, RowSame
<1> QED BY <1>1, <1>2

\* So every step but the clock's is one of the four, for every group.
LEMMA LeaseMoves ==
  ASSUME TypeOK, NEW q \in Pods, LeadPass(q) \/ Lifecycle(q), NEW g \in Users
  PROVE  RowStep(g)
<1>1. row[g] \in Rows
  BY DEF TypeOK
<1>2. ASSUME NEW S \in SUBSET Free, row' = Granted(q, S) PROVE RowStep(g)
  BY <1>2, GrantedRows DEF RowStep
<1>3. ASSUME row' = Renewed(q) PROVE RowStep(g)
  <2>1. CASE g \in Mine(q) \cap Cand
    <3>1. row'[g] = [row[g] EXCEPT !.left = TTL] /\ row[g].left > 0
      BY <1>3, <2>1 DEF Renewed, Mine
    <3>2. row'[g].pod = row[g].pod /\ row'[g].epoch = row[g].epoch /\ row'[g].left = TTL
      BY <1>1, <3>1 DEF Rows
    <3> QED BY <3>1, <3>2 DEF RowStep, RowRenewed
  <2>2. CASE g \notin Mine(q) \cap Cand
    BY <1>3, <2>2 DEF Renewed, RowStep, RowSame
  <2> QED BY <2>1, <2>2
<1>4. ASSUME (\E h \in Users : GiveBack(q, h)) \/ ReleaseAll(q) PROVE RowStep(g)
  <2>1. row'[g] \in {row[g], Released(row[g])}
    BY <1>4 DEF GiveBack, ReleaseAll, TypeOK
  <2>2. /\ Released(row[g]).pod = NoPod /\ Released(row[g]).epoch = row[g].epoch
        /\ Released(row[g]).left = row[g].left
    BY <1>1 DEF Released, Rows
  <2> QED BY <2>1, <2>2 DEF RowStep, RowSame, RowFreed
<1>5. CASE row' = row
  BY <1>5 DEF RowStep, RowSame
<1> QED BY <1>2, <1>3, <1>4, <1>5, WonIsFree
     DEF LeadPass, Lifecycle, LeadStart, LeadRenew, Snapshot, LeadAcquire, LeadInstall,
         FollowOpen, PassEnd, PassFail, RenewReplyLost, AcquireReplyLost,
         FollowFail, MarkDraining, Close, Down, Restart

\* A pass that is over, or only gives back, holds no epochs to install.
LEMMA GivingHolds ==
  Idle.held = NoTokens /\ \A G : Giving(G).held = NoTokens
<1>1. Idle.held = NoTokens
  BY DEF Idle
<1>2. ASSUME NEW G, G # {} PROVE Giving(G).held = NoTokens
  <2>1. Giving(G) = [Idle EXCEPT !.pc = "give", !.give = G]
    BY <1>2 DEF Giving
  <2>2. [Idle EXCEPT !.pc = "give", !.give = G].held = NoTokens
    BY DEF Idle
  <2> QED BY <2>1, <2>2
<1> QED BY <1>1, <1>2 DEF Giving

\* What a step of q does to the epochs that q knows: it drops one, installs one that
\* the pass held, reads one from the row, or gets the one it was just granted.
LEMMA KnownMoves ==
  ASSUME TypeOK, NEW q \in Pods, LeadPass(q) \/ Lifecycle(q), NEW g \in Users
  PROVE  /\ \/ tok'[q][g] \in {0, tok[q][g], pass[q].held[g]}
            \/ RowGranted(g) /\ tok'[q][g] = row[g].epoch + 1
         /\ \/ pass'[q].held[g] \in {0, row[g].epoch, pass[q].held[g]}
            \/ RowGranted(g) /\ pass'[q].held[g] = row[g].epoch + 1
<1> DEFINE TokMove == \/ tok'[q][g] \in {0, tok[q][g], pass[q].held[g]}
                      \/ RowGranted(g) /\ tok'[q][g] = row[g].epoch + 1
           HeldMove == \/ pass'[q].held[g] \in {0, row[g].epoch, pass[q].held[g]}
                       \/ RowGranted(g) /\ pass'[q].held[g] = row[g].epoch + 1
<1>1. /\ pass \in [Pods -> Passes] /\ pass[q] \in Passes
      /\ tok \in [Pods -> [Users -> Epochs]]
  BY DEF TypeOK
<1>2. ASSUME pass'[q] = Idle \/ \E G \in SUBSET Users : pass'[q] = Giving(G)
      PROVE  HeldMove
  BY <1>2, GivingHolds DEF NoTokens
<1>3. CASE LeadStart(q)
  <2>1. tok' = tok /\ pass'[q] = [Idle EXCEPT !.pc = "renew", !.age = 0]
    BY <1>1, <1>3 DEF LeadStart
  <2>2. pass'[q].held = NoTokens
    BY <2>1 DEF Idle
  <2> QED BY <2>1, <2>2 DEF NoTokens
<1>4. CASE LeadRenew(q)
  <2>1. /\ tok' = tok
        /\ pass'[q].held[g] = IF g \in Mine(q) \cap Cand THEN row[g].epoch ELSE 0
    BY <1>1, <1>4 DEF LeadRenew
  <2> QED BY <2>1
<1>13. CASE Snapshot(q)
  <2>1. tok' = tok /\ pass'[q].held = pass[q].held
    BY <1>13, SnapshotPass DEF Snapshot
  <2> QED BY <2>1
<1>5. CASE LeadAcquire(q)
  <2>1. /\ row' = Granted(q, Won(q)) /\ tok' = tok
        /\ pass' = [pass EXCEPT ![q] = [Idle EXCEPT
              !.pc = "retire", !.age = pass[q].age,
              !.held = WithTokens(pass[q].held, Won(q))]]
    BY <1>5 DEF LeadAcquire
  <2>2. pass'[q].held = WithTokens(pass[q].held, Won(q))
    BY <1>1, <2>1 DEF Idle
  <2>3. pass'[q].held[g] = IF g \in Won(q) THEN row[g].epoch + 1 ELSE pass[q].held[g]
    BY <2>2 DEF WithTokens
  <2> QED BY <2>1, <2>3, GrantedRows, WonIsFree
<1>6. CASE LeadInstall(q)
  <2>1. tok'[q] = pass[q].held
    BY <1>1, <1>6 DEF LeadInstall
  <2>2. PICK G \in SUBSET Users :
          \/ pass' = [pass EXCEPT ![q] = Giving(G)]
          \/ pass' = [pass EXCEPT ![q] = [Idle EXCEPT !.pc = "follow", !.give = G]]
    BY <1>6 DEF LeadInstall, Mine
  <2>3. [Idle EXCEPT !.pc = "follow", !.give = G].held = NoTokens
    BY DEF Idle
  <2>4. HeldMove
    BY <1>1, <1>2, <2>2, <2>3 DEF NoTokens
  <2> QED BY <2>1, <2>4
<1>7. CASE FollowOpen(q)
  <2>1. /\ row' = Granted(q, Won(q))
        /\ tok' = [tok EXCEPT ![q] = WithTokens(tok[q], Won(q))]
    BY <1>7 DEF FollowOpen
  <2>2. tok'[q][g] = IF g \in Won(q) THEN row[g].epoch + 1 ELSE tok[q][g]
    BY <1>1, <2>1 DEF WithTokens
  <2>3. HeldMove
    BY <1>1, <1>2, <1>7 DEF FollowOpen, Passes
  <2> QED BY <2>1, <2>2, <2>3, GrantedRows, WonIsFree
<1>8. ASSUME NEW h \in Users, GiveBack(q, h) PROVE TokMove /\ HeldMove
  <2>1. tok'[q][g] \in {0, tok[q][g]}
    BY <1>1, <1>8 DEF GiveBack
  <2>2. HeldMove
    BY <1>1, <1>2, <1>8 DEF GiveBack, Passes
  <2> QED BY <2>1, <2>2
<1>9. CASE PassEnd(q)
  BY <1>1, <1>2, <1>9 DEF PassEnd
<1>10. CASE PassFail(q) \/ RenewReplyLost(q) \/ AcquireReplyLost(q)
  <2>1. AfterFailure(q)
    BY <1>10 DEF PassFail, RenewReplyLost, AcquireReplyLost
  <2>2. tok'[q][g] \in {0, tok[q][g]} /\ pass'[q] = Idle
    BY <1>1, <2>1 DEF AfterFailure, NoTokens
  <2> QED BY <1>2, <2>2
<1>11. CASE FollowFail(q)
  <2>1. HeldMove
    BY <1>1, <1>2, <1>11 DEF FollowFail, Passes
  <2> QED BY <1>11, <2>1 DEF FollowFail
<1>12. CASE Lifecycle(q)
  <2>1. tok'[q][g] \in {0, tok[q][g]} /\ (pass' = pass \/ pass'[q] = Idle)
    BY <1>1, <1>12 DEF Lifecycle, MarkDraining, Close, ReleaseAll, Down, Restart, NoTokens
  <2> QED BY <1>2, <2>1
<1> QED BY <1>3, <1>4, <1>5, <1>6, <1>7, <1>8, <1>9, <1>10, <1>11, <1>12,
       <1>13 DEF LeadPass

\* A link touches of a pass only what is remembered of it.
LEMMA RelinkKeeps ==
  ASSUME TypeOK, Relink
  PROVE  /\ tok' = tok
         /\ \A p \in Pods : /\ pass'[p].pc = pass[p].pc /\ pass'[p].held = pass[p].held
                            /\ pass'[p].want = pass[p].want
                            /\ pass'[p].wasHeld = pass[p].wasHeld
<1>1. \A p \in Pods : /\ pass[p] \in Passes
                      /\ pass'[p] = [pass[p] EXCEPT !.crossed = Asking(p)]
  BY DEF TypeOK, Relink
<1>2. \A r \in Passes : \A b :
        LET n == [r EXCEPT !.crossed = b]
        IN  n.pc = r.pc /\ n.held = r.held /\ n.want = r.want /\ n.wasHeld = r.wasHeld
  BY DEF Passes
<1> QED BY <1>1, <1>2 DEF Relink

-----------------------------------------------------------------------------
(***************************************************************************)
(* The steps of the writes, seen from the lease and the other way round.   *)
(***************************************************************************)
\* A step of the lease, or the death of a pod, as the writes see it.
NotedFor(g) ==
    stolen'[g] = IF row'[g].epoch # row[g].epoch /\ row[g].pod # NoPod
                 THEN stolen[g] \cup {row'[g].epoch} ELSE stolen[g]
LeaseSide ==
    /\ inflight' = inflight /\ last' = last
    /\ \A g \in Users : RowStep(g) /\ NotedFor(g)
    /\ stolen' \in [Users -> SUBSET Int]
    /\ carried' \in [Pods -> [Users -> Epochs]]
    /\ \A p \in Pods, g \in Users : carried'[p][g] \in {0, carried[p][g]}

WriteSide == \E p \in Pods, g \in Users : StartWrite(p, g) \/ Admit(p, g) \/ Refuse(p, g)
EndSide == \E w \in inflight : Commit(w) \/ Abort(w)

\* The writes add nothing to the lease: every step is a step of the lease or leaves
\* it alone.
LEMMA LeaseUnder == [FWNext]_fwVars => [Next]_vars
  BY DEF FWNext, fwVars, LeaseStep, DownW, TickW, StartWrite, Admit, Refuse, Commit,
         Abort, Next, Lifecycle

\* An epoch is a number, whatever its bound.
LEMMA EpochNumbers ==
  ASSUME TypeOK, NEW g \in Users
  PROVE  /\ row[g] \in Rows /\ row[g].epoch \in Epochs /\ row[g].epoch \in Nat
         /\ row[g].left \in -1 .. TTL /\ row[g].left \in Int
         /\ row[g].pod \in Pods \cup {NoPod}
<1>1. row[g] \in Rows
  BY DEF TypeOK
<1> QED BY <1>1, RowEdits, AssumptionsHold DEF Assumptions, Epochs

\* What a step of the lease does to the row, the tokens and the steals.
LEMMA LeaseSides ==
  ASSUME TypeOK, FWTypeOK,
         LeaseStep \/ (\E p \in Pods : DownW(p)) \/ UNCHANGED fwVars
  PROVE  LeaseSide
<1>1. /\ stolen \in [Users -> SUBSET Epochs] /\ Epochs \subseteq Int
      /\ carried \in [Pods -> [Users -> Epochs]] /\ NoTokens \in [Users -> Epochs]
  BY AssumptionsHold, InitialValues DEF Assumptions, FWTypeOK, Epochs
<1>2. CASE LeaseStep
  <2>1. \A g \in Users : RowStep(g)
    <3>1. ASSUME row' = row, NEW g \in Users PROVE RowStep(g)
      BY <3>1 DEF RowStep, RowSame
    <3> QED BY <1>2, <3>1, LeaseMoves DEF LeaseStep, Relink, SignInOrOut, Lifecycle
  <2>2. \A g \in Users : row'[g].epoch \in Int
    BY <2>1, EpochNumbers DEF RowStep, RowSame, RowRenewed, RowFreed, RowGranted
  <2>3. stolen' = [g \in Users |-> IF row'[g].epoch # row[g].epoch /\ row[g].pod # NoPod
                               THEN stolen[g] \cup {row'[g].epoch} ELSE stolen[g]]
    BY <1>2 DEF LeaseStep, NoteGrants
  <2>4. (\A g \in Users : NotedFor(g)) /\ stolen' \in [Users -> SUBSET Int]
    BY <1>1, <2>2, <2>3 DEF NotedFor
  <2>5. inflight' = inflight /\ last' = last /\ carried' = carried
    BY <1>2 DEF LeaseStep
  <2> QED BY <1>1, <2>1, <2>4, <2>5 DEF LeaseSide
<1>3. ASSUME row' = row, stolen' = stolen, inflight' = inflight, last' = last,
             carried' = carried \/ \E p \in Pods : carried' = [carried EXCEPT ![p] = NoTokens]
      PROVE  LeaseSide
  <2>1. \A g \in Users : RowStep(g) /\ NotedFor(g)
    BY <1>3 DEF RowStep, RowSame, NotedFor
  <2>2. /\ carried' \in [Pods -> [Users -> Epochs]]
        /\ \A p \in Pods, g \in Users : carried'[p][g] \in {0, carried[p][g]}
    BY <1>1, <1>3 DEF NoTokens
  <2> QED BY <1>1, <1>3, <2>1, <2>2 DEF LeaseSide
<1> QED BY <1>2, <1>3 DEF DownW, Down, fwVars, vars, writeVars, LeaseStep

-----------------------------------------------------------------------------
(***************************************************************************)
(* The writes' own types and the age of what is in flight.                 *)
(***************************************************************************)
\* A step of the lease leaves every write as old as its epoch demands: a grant
\* comes when the row ran out or was released, a renew when it is alive.
LEMMA LeaseKeepsAges ==
  ASSUME TypeOK, FWTypeOK, AgeInv, LeaseSide
  PROVE  AgeInv'
<1>1. ASSUME NEW g \in Users PROVE StealsMade(g)'
  BY <1>1, EpochNumbers
     DEF AgeInv, StealsMade, LeaseSide, NotedFor, RowStep, RowSame, RowRenewed,
         RowFreed, RowGranted
<1>2. ASSUME NEW w \in inflight PROVE WriteOlder(w)'
  <2> DEFINE g == w.group
  <2>1. /\ g \in Users /\ w.epoch \in Nat /\ w.age \in Nat
        /\ WriteOlder(w) /\ StealsMade(g) /\ RowStep(g) /\ NotedFor(g)
    BY LandHolds, AssumptionsHold
       DEF Assumptions, FWTypeOK, Writes, AgeInv, LeaseSide
  <2>2. /\ row[g].epoch \in Nat /\ row[g].left \in -1 .. TTL
        /\ TTL \in Nat /\ TTL > 0
    BY <2>1, EpochNumbers, AssumptionsHold DEF Assumptions
  <2>3. CASE RowSame(g)
    BY <2>1, <2>3 DEF RowSame, WriteOlder, NotedFor
  <2>4. CASE RowRenewed(g)
    BY <2>1, <2>2, <2>4 DEF RowRenewed, WriteOlder, NotedFor
  <2>5. CASE RowFreed(g)
    BY <2>1, <2>2, <2>5 DEF RowFreed, WriteOlder, NotedFor
  <2>6. CASE RowGranted(g)
    <3>1. w.epoch < row'[g].epoch /\ row'[g].left = TTL /\ row'[g].epoch \in Nat
      BY <2>1, <2>2, <2>6 DEF RowGranted, WriteOlder
    <3>2. ASSUME row'[g].epoch \in stolen'[g] PROVE w.age > 0
      <4>1. row[g].pod # NoPod /\ row[g].left < 0
        BY <2>1, <2>2, <2>6, <3>2 DEF RowGranted, NotedFor, StealsMade
      <4> QED BY <2>1, <2>2, <4>1 DEF WriteOlder
    <3> QED BY <2>1, <2>2, <3>1, <3>2 DEF WriteOlder
  <2> QED BY <2>1, <2>3, <2>4, <2>5, <2>6 DEF RowStep
<1>3. inflight' = inflight
  BY DEF LeaseSide
<1> QED BY <1>1, <1>2, <1>3 DEF AgeInv

\* A tick takes a row's life and adds to a write's age alike.
LEMMA TickRows ==
  ASSUME TypeOK, Tick, NEW g \in Users
  PROVE  /\ row'[g].pod = row[g].pod /\ row'[g].epoch = row[g].epoch
         /\ row'[g].left = IF row[g].left < 0 THEN -1 ELSE row[g].left - 1
<1>1. row[g] \in Rows
  BY DEF TypeOK
<1> QED BY <1>1 DEF Tick, Rows

\* What a tick makes of the writes in flight.
LEMMA TickWrites ==
  ASSUME FWTypeOK, TickW, NEW x \in inflight'
  PROVE  \E w \in inflight :
           /\ x.group = w.group /\ x.epoch = w.epoch /\ x.age = w.age + 1
           /\ x \in Writes
<1>1. PICK w \in inflight : x = [w EXCEPT !.age = @ + 1] /\ w.age < Land
  BY DEF TickW, MayStillRun
<1>2. w \in Writes
  BY DEF FWTypeOK
<1>3. w.age + 1 \in 0 .. Land
  BY <1>1, <1>2, LandHolds DEF Writes
<1>4. x = [group |-> w.group, epoch |-> w.epoch, age |-> w.age + 1]
  BY <1>1, <1>2 DEF Writes
<1> QED BY <1>2, <1>3, <1>4 DEF Writes

\* A tick ages the writes in flight and the rows alike.
LEMMA TickKeepsAges ==
  ASSUME TypeOK, FWTypeOK, AgeInv, TickW
  PROVE  FWTypeOK' /\ AgeInv'
<1>1. Tick /\ stolen' = stolen /\ last' = last /\ carried' = carried
  BY DEF TickW
<1>2. FWTypeOK'
  BY <1>1, TickWrites DEF FWTypeOK
<1>3. \A g \in Users : StealsMade(g)'
  BY <1>1, TickRows DEF AgeInv, StealsMade
<1>4. ASSUME NEW x \in inflight' PROVE WriteOlder(x)'
  <2>1. PICK w \in inflight :
           x.group = w.group /\ x.epoch = w.epoch /\ x.age = w.age + 1
    BY <1>4, TickWrites
  <2>2. /\ w.group \in Users /\ w.epoch \in Int /\ w.age \in Int /\ WriteOlder(w)
    BY LandHolds, AssumptionsHold DEF Assumptions, FWTypeOK, Writes, AgeInv
  <2>3. /\ row[w.group].epoch \in Nat /\ row[w.group].left \in -1 .. TTL /\ TTL \in Nat
    BY <2>2, EpochNumbers, AssumptionsHold DEF Assumptions
  <2> QED BY <1>1, <2>1, <2>2, <2>3, TickRows DEF WriteOlder
<1> QED BY <1>2, <1>3, <1>4 DEF AgeInv

\* Sending, admitting, refusing and ending writes: what is admitted is of the lease
\* in force, which is alive.
LEMMA WritesKeepAges ==
  ASSUME TypeOK, FWTypeOK, AgeInv, WriteSide \/ EndSide
  PROVE  FWTypeOK' /\ AgeInv' /\ UNCHANGED vars
<1>1. row' = row /\ stolen' = stolen /\ UNCHANGED vars
  BY DEF WriteSide, EndSide, StartWrite, Admit, Refuse, Commit, Abort, vars
<1>2. /\ carried \in [Pods -> [Users -> Epochs]] /\ inflight \subseteq Writes
      /\ last \in [Users -> Epochs] /\ stolen \in [Users -> SUBSET Epochs]
      /\ tok \in [Pods -> [Users -> Epochs]] /\ 0 \in Epochs
      /\ Epochs = 0 .. MaxEpoch /\ MaxEpoch \in Nat
  BY AssumptionsHold DEF Assumptions, FWTypeOK, TypeOK, Epochs
<1>3. ASSUME NEW p \in Pods, NEW g \in Users, StartWrite(p, g) \/ Refuse(p, g)
      PROVE  FWTypeOK' /\ inflight' = inflight
  <2>1. inflight' = inflight /\ last' = last
    BY <1>3 DEF StartWrite, Refuse
  <2>2. carried' \in [Pods -> [Users -> Epochs]]
    <3>1. /\ tok[p][g] \in Epochs
          /\ \E e \in {0, tok[p][g]} : carried' = [carried EXCEPT ![p][g] = e]
      BY <1>2, <1>3 DEF StartWrite, Refuse
    <3> QED BY <1>2, <3>1
  <2> QED BY <1>1, <1>2, <2>1, <2>2 DEF FWTypeOK
<1>4. ASSUME NEW p \in Pods, NEW g \in Users, Admit(p, g)
      PROVE  FWTypeOK' /\ \A w \in inflight' \ inflight : WriteOlder(w)
  <2> DEFINE new == [group |-> g, epoch |-> carried[p][g], age |-> 0]
  <2>1. inflight' = inflight \cup {new} /\ last' = last
        /\ carried' = [carried EXCEPT ![p][g] = 0]
    BY <1>4 DEF Admit
  <2>2. new \in Writes
    BY <1>2, <1>4, LandHolds DEF Admit, Writes
  <2>3. FWTypeOK'
    BY <1>1, <1>2, <2>1, <2>2 DEF FWTypeOK
  <2>4. WriteOlder(new)
    <3>1. row[g].epoch = carried[p][g] /\ row[g].left > 0 /\ row[g].left \in Int
          /\ row[g].epoch \in Int
      BY <1>4, EpochNumbers DEF Admit, LeaseOk
    <3> QED BY <3>1 DEF WriteOlder
  <2> QED BY <2>1, <2>3, <2>4
<1>5. ASSUME NEW w \in inflight, Commit(w) \/ Abort(w)
      PROVE  FWTypeOK' /\ inflight' \subseteq inflight
  BY <1>1, <1>2, <1>5 DEF Commit, Abort, FWTypeOK, Writes
<1>6. FWTypeOK' /\ \A w \in inflight' : WriteOlder(w)
  BY <1>3, <1>4, <1>5 DEF WriteSide, EndSide, AgeInv
<1>7. AgeInv'
  BY <1>1, <1>6 DEF AgeInv, WriteOlder, StealsMade
<1> QED BY <1>1, <1>6, <1>7

\* What a pod is told it has was granted: its tokens, the epochs of its pass and
\* those of its unsent writes.
KnownAll == \A p \in Pods, g \in Users : KnownEpochs(p, g)

\* A step of the lease raises no known epoch above the granted one.
LEMMA LeaseKeepsKnown ==
  ASSUME TypeOK, FWTypeOK, KnownAll, LeaseSide,
         \/ \E q \in Pods : LeadPass(q) \/ Lifecycle(q)
         \/ tok' = tok /\ \A p \in Pods : pass'[p].held = pass[p].held
  PROVE  KnownAll'
<1> SUFFICES ASSUME NEW p \in Pods, NEW g \in Users PROVE KnownEpochs(p, g)'
  BY DEF KnownAll
<1>1. /\ row[g].epoch \in Nat /\ row[g].epoch <= row'[g].epoch
      /\ row'[g].epoch \in Nat /\ (RowGranted(g) => row'[g].epoch = row[g].epoch + 1)
  BY EpochNumbers DEF LeaseSide, RowStep, RowSame, RowRenewed, RowFreed, RowGranted
<1>2. /\ tok[p][g] \in Nat /\ pass[p].held[g] \in Nat /\ carried[p][g] \in Nat
  <2>1. pass[p].held \in [Users -> Epochs]
    BY PassEdits DEF TypeOK
  <2> QED BY <2>1, AssumptionsHold DEF Assumptions, TypeOK, FWTypeOK, Epochs
<1>3. KnownEpochs(p, g)
  BY DEF KnownAll
<1>4. \/ tok'[p][g] \in {0, tok[p][g], pass[p].held[g]}
      \/ RowGranted(g) /\ tok'[p][g] = row[g].epoch + 1
  <2>1. CASE \E q \in Pods : q # p /\ (LeadPass(q) \/ Lifecycle(q))
    BY <2>1, OthersKept
  <2> QED BY <2>1, KnownMoves
<1>5. \/ pass'[p].held[g] \in {0, row[g].epoch, pass[p].held[g]}
      \/ RowGranted(g) /\ pass'[p].held[g] = row[g].epoch + 1
  <2>1. CASE \E q \in Pods : q # p /\ (LeadPass(q) \/ Lifecycle(q))
    BY <2>1, OthersKept
  <2> QED BY <2>1, KnownMoves
<1>6. carried'[p][g] \in {0, carried[p][g]}
  BY DEF LeaseSide
<1> QED BY <1>1, <1>2, <1>3, <1>4, <1>5, <1>6 DEF KnownEpochs

\* Nor does the clock, or a write.
LEMMA OthersKeepKnown ==
  ASSUME TypeOK, FWTypeOK, KnownAll, TickW \/ WriteSide \/ EndSide
  PROVE  KnownAll'
<1> SUFFICES ASSUME NEW p \in Pods, NEW g \in Users PROVE KnownEpochs(p, g)'
  BY DEF KnownAll
<1>1. KnownEpochs(p, g) /\ row[g].epoch \in Nat /\ tok[p][g] <= row[g].epoch
  BY EpochNumbers DEF KnownAll, KnownEpochs
<1>2. CASE TickW
  <2>1. tok' = tok /\ carried' = carried /\ row'[g].epoch = row[g].epoch
    BY <1>2, TickRows DEF TickW, Tick
  <2>2. pass'[p].held = pass[p].held
    <3>1. pass'[p] = [pass[p] EXCEPT !.age = Least(@ + 1, AgeCap)] /\ pass[p] \in Passes
      BY <1>2 DEF TickW, Tick, TypeOK
    <3> QED BY <3>1 DEF Passes
  <2> QED BY <1>1, <2>1, <2>2 DEF KnownEpochs
<1>3. CASE WriteSide \/ EndSide
  <2>1. tok' = tok /\ pass' = pass /\ row' = row
    BY <1>3 DEF WriteSide, EndSide, StartWrite, Admit, Refuse, Commit, Abort, vars,
                podVars
  <2>2. carried'[p][g] \in {0, carried[p][g], tok[p][g]}
    <3>1. carried \in [Pods -> [Users -> Epochs]]
      BY DEF FWTypeOK
    <3>2. ASSUME NEW q \in Pods, NEW h \in Users, StartWrite(q, h)
          PROVE  carried'[p][g] \in {0, carried[p][g], tok[p][g]}
      BY <3>1, <3>2 DEF StartWrite
    <3>3. ASSUME NEW q \in Pods, NEW h \in Users, Admit(q, h) \/ Refuse(q, h)
          PROVE  carried'[p][g] \in {0, carried[p][g], tok[p][g]}
      BY <3>1, <3>3 DEF Admit, Refuse
    <3> QED BY <1>3, <3>2, <3>3 DEF WriteSide, EndSide, Commit, Abort
  <2> QED BY <1>1, <2>1, <2>2 DEF KnownEpochs
<1> QED BY <1>2, <1>3

\* The strengthening holds at the start ...
LEMMA FWInitInv == FWInit => FWInv
<1> SUFFICES ASSUME FWInit PROVE FWInv
  OBVIOUS
<1>1. IInv /\ TypeOK
  BY InitInv DEF FWInit, IInv
<1>2. FWTypeOK
  BY AssumptionsHold, InitialValues DEF Assumptions, FWInit, FWTypeOK
<1>3. AgeInv
  BY DEF FWInit, AgeInv, StealsMade
<1>4. \A p \in Pods, g \in Users : KnownEpochs(p, g)
  BY DEF FWInit, Init, KnownEpochs, Idle, NoTokens
<1> QED BY <1>1, <1>2, <1>3, <1>4 DEF FWInv

\* ... and every step keeps it.
LEMMA FWInvStep == FWInv /\ [FWNext]_fwVars => FWInv'
<1> SUFFICES ASSUME FWInv, [FWNext]_fwVars PROVE FWInv'
  OBVIOUS
<1>1. TypeOK /\ IInv /\ FWTypeOK /\ AgeInv /\ KnownAll
  BY DEF FWInv, IInv, KnownAll
<1>2. IInv' /\ TypeOK'
  BY <1>1, LeaseUnder, InvStep DEF IInv
<1>3. CASE LeaseStep \/ (\E p \in Pods : DownW(p)) \/ UNCHANGED fwVars
  <2>1. LeaseSide
    BY <1>1, <1>3, LeaseSides
  <2>2. /\ AgeInv' /\ inflight' = inflight /\ last' = last
        /\ carried' \in [Pods -> [Users -> Epochs]]
    BY <1>1, <2>1, LeaseKeepsAges DEF LeaseSide
  <2>3. KnownAll'
    <3>1. \/ \E q \in Pods : LeadPass(q) \/ Lifecycle(q)
          \/ tok' = tok /\ \A p \in Pods : pass'[p].held = pass[p].held
      BY <1>1, <1>3, RelinkKeeps
         DEF LeaseStep, DownW, SignInOrOut, podVars, fwVars, vars, Lifecycle
    <3> QED BY <1>1, <2>1, <3>1, LeaseKeepsKnown
  <2>4. stolen' \in [Users -> SUBSET Epochs]
    <3>1. stolen' \in [Users -> SUBSET Int]
      BY <2>1 DEF LeaseSide
    <3>2. ASSUME NEW g \in Users PROVE stolen'[g] \subseteq Epochs
      <4>1. stolen'[g] \subseteq 1 .. row'[g].epoch
        BY <2>2 DEF AgeInv, StealsMade
      <4>2. row'[g].epoch \in Epochs
        BY <1>2, RowEdits DEF TypeOK
      <4> QED BY <4>1, <4>2, AssumptionsHold DEF Assumptions, Epochs
    <3> QED BY <3>1, <3>2
  <2> QED BY <1>1, <1>2, <2>2, <2>3, <2>4 DEF FWInv, FWTypeOK, KnownAll
<1>4. CASE TickW
  BY <1>1, <1>2, <1>4, TickKeepsAges, OthersKeepKnown DEF FWInv, KnownAll
<1>5. CASE WriteSide \/ EndSide
  BY <1>1, <1>2, <1>5, WritesKeepAges, OthersKeepKnown DEF FWInv, KnownAll
<1> QED BY <1>3, <1>4, <1>5 DEF FWNext, WriteSide, EndSide

\* The strengthening holds in every behaviour, whatever fails.
THEOREM WritesInvariance == FWSpec => []FWInv
  BY FWInitInv, FWInvStep, PTL DEF FWSpec

\* Writes in flight are of their type and within the server's bound.
THEOREM WritesTyped == FWSpec => []FWTypeOK
<1>1. FWInv => FWTypeOK
  BY DEF FWInv
<1> QED BY <1>1, WritesInvariance, PTL

\* A write of an older epoch was admitted before the lease in force was granted:
\* with any number of pods, stalls, lost replies, crashes and restarts.
THEOREM OldWritesOlder == FWSpec => []OldWritesAreOlder
<1>1. FWInv => OldWritesAreOlder
  BY DEF FWInv, AgeInv, WriteOlder, OldWritesAreOlder
<1> QED BY <1>1, WritesInvariance, PTL

-----------------------------------------------------------------------------
(***************************************************************************)
(* Steals.  A pod that stole a row must remember it until its warm-up is    *)
(* over.  It does unless one of the faults excluded here makes it forget:   *)
(* then its token comes from a later renew, which knows nothing of a steal. *)
(***************************************************************************)
Remembers == Faults \subseteq {"shutdown", "crash"}

HoldsLive(p, g) == Alive(p) /\ row[g].pod = p /\ row[g].left > 0
Installing(p) == pass[p].pc \in {"acquire", "acquiring", "retire", "over"}

\* What p's pass is about to install is all that p holds.
HeldComplete(p, g) ==
    HoldsLive(p, g) /\ Installing(p) => pass[p].held[g] = row[g].epoch

\* p has the row's epoch as a token, or may yet come to have it.
MayTrust(p, g) ==
    \/ stat[p] = "up" \/ pass[p].pc = "renew" \/ Installing(p)
    \/ tok[p][g] = row[g].epoch

\* The warm-up of a row that p stole is shorter than any write that the steal
\* overtook has been in flight.
WarmCovers(p, g) ==
    HoldsLive(p, g) /\ row[g].epoch \in stolen[g] /\ MayTrust(p, g) =>
        \A w \in inflight :
            w.group = g /\ w.epoch < row[g].epoch => w.age > warm[p][g]

HeldByCand(g) == row[g].pod # NoPod => g \in Cand

\* An acquire under way names candidates, and knows which of those that it can still
\* take had a holder: what was expired at its snapshot and is now, was held then.
SeenHeld(p) ==
    Asking(p) =>
        /\ pass[p].want \subseteq Cand
        /\ \A g \in pass[p].want :
              row[g].pod # NoPod /\ row[g].left < 0 => g \in pass[p].wasHeld

MemoryInv ==
    /\ \A g \in Users : HeldByCand(g)
    /\ \A p \in Pods : SeenHeld(p)
    /\ \A p \in Pods, g \in Users : HeldComplete(p, g) /\ WarmCovers(p, g)

\* Nobody links or unlinks users, and nobody signs in or out.
LEMMA CandKept ==
  ASSUME Remembers, [Next]_vars
  PROVE  Cand' = Cand
  BY DEF Remembers, Next, LeadPass, Lifecycle, LeadStart, LeadRenew, Snapshot,
         LeadAcquire, LeadInstall, FollowOpen, GiveBack, PassEnd, PassFail, RenewReplyLost,
         AcquireReplyLost, FollowFail, AfterFailure, MarkDraining, Close,
         ReleaseAll, Down, Restart, Relink, SignInOrOut, Tick, vars, Cand

\* A row that is granted was a candidate, and goes to the pod that took the step.
LEMMA GrantsOf ==
  ASSUME TypeOK, NEW q \in Pods, LeadPass(q) \/ Lifecycle(q), NEW g \in Users,
         row'[g].epoch # row[g].epoch
  PROVE  /\ RowGranted(g) /\ row'[g].pod = q
         /\ g \in Won(q) /\ row' = Granted(q, Won(q)) /\ Asking(q)
         /\ LeadAcquire(q) \/ FollowOpen(q) \/ AcquireReplyLost(q) \/ FollowFail(q)
<1>1. RowGranted(g)
  BY LeaseMoves DEF RowStep, RowSame, RowRenewed, RowFreed
<1>2. LeadAcquire(q) \/ FollowOpen(q) \/ AcquireReplyLost(q) \/ FollowFail(q)
  <2>1. row[g] \in Rows
    BY DEF TypeOK
  <2>2. row' # row /\ row' # Renewed(q)
    <3>1. [row[g] EXCEPT !.left = TTL].epoch = row[g].epoch
      BY <2>1 DEF Rows
    <3> QED BY <3>1 DEF Renewed
  <2>3. ~ ReleaseAll(q) /\ ~ \E h \in Users : GiveBack(q, h)
    <3>1. Released(row[g]).epoch = row[g].epoch
      BY <2>1 DEF Released, Rows
    <3> QED BY <3>1 DEF ReleaseAll, GiveBack, TypeOK
  <2> QED BY <2>2, <2>3
       DEF LeadPass, Lifecycle, LeadStart, LeadRenew, Snapshot, LeadInstall, PassEnd, PassFail,
           RenewReplyLost, MarkDraining, Close, Down, Restart
<1>3. row' = Granted(q, Won(q)) /\ Asking(q)
  <2>1. row' # row
    OBVIOUS
  <2> QED BY <1>2, <2>1 DEF LeadAcquire, FollowOpen, AcquireReplyLost, FollowFail, Asking
<1>4. g \in Won(q) /\ row'[g].pod = q
  BY <1>3, GrantedRows, WonIsFree DEF RowSame
<1> QED BY <1>1, <1>2, <1>3, <1>4

\* A step of q leaves the warm-ups of other pods alone.
LEMMA OthersWarmKept ==
  ASSUME TypeOK, NEW q \in Pods, LeadPass(q) \/ Lifecycle(q), NEW p \in Pods, p # q
  PROVE  warm'[p] = warm[p]
  BY DEF LeadPass, LeadStart, LeadRenew, Snapshot, LeadAcquire, LeadInstall, FollowOpen,
     GiveBack, PassEnd, PassFail, RenewReplyLost, AcquireReplyLost, FollowFail,
     AfterFailure, Lifecycle, MarkDraining, Close, ReleaseAll, Down, Restart, TypeOK

\* What q's pass does next: where it comes from and where it goes.
LEMMA PassGoes ==
  ASSUME TypeOK, NEW q \in Pods
  PROVE  /\ LeadStart(q) => pass'[q].pc = "renew"
         /\ LeadAcquire(q) => pass'[q].pc = "retire"
         /\ Snapshot(q) => /\ pass[q].pc \in {"acquire", "follow"}
                           /\ pass'[q].pc = IF pass[q].pc = "acquire" THEN "acquiring"
                                            ELSE "following"
         /\ \/ LeadInstall(q) \/ FollowOpen(q) \/ (\E h \in Users : GiveBack(q, h))
            \/ PassEnd(q) \/ PassFail(q) \/ RenewReplyLost(q) \/ AcquireReplyLost(q)
            \/ FollowFail(q)
            => pass'[q].pc \in {"idle", "follow", "give"}
<1>1. pass \in [Pods -> Passes] /\ pass[q] \in Passes /\ Idle.pc = "idle"
  BY DEF TypeOK, Idle
<1>2. ASSUME LeadStart(q) PROVE pass'[q].pc = "renew"
  BY <1>1, <1>2 DEF LeadStart, Idle
<1>3. ASSUME LeadAcquire(q) PROVE pass'[q].pc = "retire"
  <2>1. pass'[q] = [Idle EXCEPT !.pc = "retire", !.age = pass[q].age,
                                !.held = WithTokens(pass[q].held, Won(q))]
    BY <1>1, <1>3 DEF LeadAcquire
  <2> QED BY <2>1 DEF Idle
<1>4. ASSUME NEW G \in SUBSET Users,
             \/ pass' = [pass EXCEPT ![q] = Giving(G)]
             \/ pass' = [pass EXCEPT ![q] = [Idle EXCEPT !.pc = "follow", !.give = G]]
      PROVE  pass'[q].pc \in {"idle", "follow", "give"}
  <2>1. [Idle EXCEPT !.pc = "follow", !.give = G].pc = "follow"
    BY DEF Idle
  <2> QED BY <1>1, <1>4, <2>1, GivingTypes
<1>5. ASSUME LeadInstall(q) PROVE pass'[q].pc \in {"idle", "follow", "give"}
  <2>1. \E G \in SUBSET Users :
          \/ pass' = [pass EXCEPT ![q] = Giving(G)]
          \/ pass' = [pass EXCEPT ![q] = [Idle EXCEPT !.pc = "follow", !.give = G]]
    BY <1>5 DEF LeadInstall, Mine
  <2> QED BY <1>4, <2>1
<1>6. ASSUME FollowOpen(q) \/ (\E h \in Users : GiveBack(q, h)) \/ FollowFail(q)
      PROVE  pass'[q].pc \in {"idle", "follow", "give"}
  <2>1. pass[q].give \in SUBSET Users
    BY <1>1, PassEdits
  <2>2. \E G \in SUBSET Users : pass' = [pass EXCEPT ![q] = Giving(G)]
    <3>1. \A h : pass[q].give \ {h} \in SUBSET Users
      BY <2>1
    <3> QED BY <1>6, <2>1, <3>1 DEF FollowOpen, GiveBack, FollowFail
  <2> QED BY <1>4, <2>2
<1>7. ASSUME PassEnd(q) \/ PassFail(q) \/ RenewReplyLost(q) \/ AcquireReplyLost(q)
      PROVE  pass'[q].pc \in {"idle", "follow", "give"}
  BY <1>1, <1>7 DEF PassEnd, PassFail, RenewReplyLost, AcquireReplyLost, AfterFailure
<1> QED BY <1>2, <1>3, <1>5, <1>6, <1>7, SnapshotPass

\* A step of p ends p's asking, unless it begins it or leaves the pass alone.
LEMMA AsksNoMore ==
  ASSUME TypeOK, NEW p \in Pods, LeadPass(p) \/ Lifecycle(p), ~ Snapshot(p), Asking(p)'
  PROVE  pass'[p] = pass[p]
<1>1. CASE LeadPass(p)
  <2>1. CASE LeadRenew(p)
    BY <2>1 DEF LeadRenew, TypeOK, Passes, Asking
  <2> QED BY <1>1, <2>1, PassGoes DEF LeadPass, Asking
<1>2. CASE Lifecycle(p)
  BY <1>2 DEF Lifecycle, MarkDraining, Close, ReleaseAll, Down, Restart, TypeOK, Asking,
              Idle
<1> QED BY <1>1, <1>2

\* Rows are held by pods for candidates only.
LEMMA HeldByCandStep ==
  ASSUME Remembers, TypeOK, \A h \in Users : HeldByCand(h),
         \A p \in Pods : SeenHeld(p), [Next]_vars, NEW g \in Users
  PROVE  HeldByCand(g)'
<1>1. Cand' = Cand /\ HeldByCand(g)
  BY CandKept
<1>2. ASSUME NEW q \in Pods, LeadPass(q) \/ Lifecycle(q)
      PROVE  HeldByCand(g)'
  <2>1. CASE row'[g].epoch # row[g].epoch
    <3>1. g \in Won(q) /\ Asking(q)
      BY <1>2, <2>1, GrantsOf
    <3> QED BY <1>1, <3>1 DEF HeldByCand, SeenHeld, Won
  <2>2. CASE row'[g].epoch = row[g].epoch
    <3>1. row'[g].pod \in {NoPod, row[g].pod}
      BY <1>2, <2>2, LeaseMoves, EpochNumbers
         DEF RowStep, RowSame, RowRenewed, RowFreed, RowGranted
    <3> QED BY <1>1, <3>1 DEF HeldByCand
  <2> QED BY <2>1, <2>2
<1>3. CASE Tick
  BY <1>1, <1>3, TickRows DEF HeldByCand
<1>4. CASE row' = row
  BY <1>1, <1>4 DEF HeldByCand
<1> QED BY <1>2, <1>3, <1>4 DEF Next, Relink, SignInOrOut, vars

\* A row that could be taken at the snapshot and was not held then is not held now,
\* unless it has been granted since and is alive.
LEMMA SeenHeldStep ==
  ASSUME Remembers, TypeOK, [Next]_vars, NEW p \in Pods, SeenHeld(p)
  PROVE  SeenHeld(p)'
<1> SUFFICES ASSUME Asking(p)'
             PROVE  /\ pass'[p].want \subseteq Cand
                    /\ \A g \in pass'[p].want :
                          row'[g].pod # NoPod /\ row'[g].left < 0 => g \in pass'[p].wasHeld
  BY CandKept DEF SeenHeld
<1>1. CASE Snapshot(p)
  <2>1. /\ pass'[p].want \subseteq Takable(p)
        /\ pass'[p].wasHeld = {g \in pass'[p].want : row[g].pod # NoPod}
        /\ row' = row
    BY <1>1, SnapshotPass DEF Snapshot
  <2> QED BY <2>1 DEF Takable
\* Elsewhere the acquire goes on, and rows only come alive or lose their pod.
<1>2. ASSUME pass'[p].pc = pass[p].pc, pass'[p].want = pass[p].want,
             pass'[p].wasHeld = pass[p].wasHeld,
             \A g \in Users : RowStep(g)
      PROVE  /\ pass'[p].want \subseteq Cand
             /\ \A g \in pass'[p].want :
                   row'[g].pod # NoPod /\ row'[g].left < 0 => g \in pass'[p].wasHeld
  <2>1. /\ pass[p].want \subseteq Cand /\ pass[p].want \subseteq Users
        /\ \A g \in pass[p].want :
              row[g].pod # NoPod /\ row[g].left < 0 => g \in pass[p].wasHeld
    BY <1>2, PassEdits DEF SeenHeld, Asking, TypeOK
  <2>2. ASSUME NEW g \in pass[p].want, row'[g].pod # NoPod, row'[g].left < 0
        PROVE  g \in pass[p].wasHeld
    BY <1>2, <2>1, <2>2, AssumptionsHold
       DEF Assumptions, RowStep, RowSame, RowRenewed, RowFreed, RowGranted
  <2> QED BY <1>2, <2>1, <2>2
<1>3. ASSUME NEW q \in Pods, LeadPass(q) \/ Lifecycle(q), ~ Snapshot(p)
      PROVE  pass'[p] = pass[p] /\ \A g \in Users : RowStep(g)
  <2>1. pass'[p] = pass[p]
    <3>1. CASE q # p
      BY <1>3, <3>1, OthersKept
    <3>2. CASE q = p
      BY <1>3, <3>2, AsksNoMore DEF Asking
    <3> QED BY <3>1, <3>2
  <2> QED BY <1>3, <2>1, LeaseMoves
<1>4. ~ Tick
  <2>1. ASSUME Tick PROVE FALSE
    <3>1. pass'[p] = [pass[p] EXCEPT !.age = Least(@ + 1, AgeCap)] /\ pass[p] \in Passes
      BY <2>1 DEF Tick, TypeOK
    <3>2. pass'[p].pc = pass[p].pc
      BY <3>1 DEF Passes
    <3> QED BY <2>1, <3>2 DEF Tick, Asking
  <2> QED BY <2>1
<1>5. CASE (\E u \in Users : SignInOrOut(u)) \/ UNCHANGED vars
  <2>1. pass' = pass /\ \A g \in Users : RowStep(g)
    BY <1>5 DEF SignInOrOut, vars, podVars, RowStep, RowSame
  <2> QED BY <1>2, <2>1
<1> QED BY <1>1, <1>2, <1>3, <1>4, <1>5 DEF Next, Remembers, Relink

\* After a renew the pass holds every row of p that is alive, and an acquire adds
\* what it takes.
LEMMA HeldCompleteStep ==
  ASSUME Remembers, TypeOK, \A h \in Users : HeldByCand(h), [Next]_vars,
         NEW p \in Pods, NEW g \in Users, HeldComplete(p, g)
  PROVE  HeldComplete(p, g)'
<1> SUFFICES ASSUME HoldsLive(p, g)', Installing(p)'
             PROVE  pass'[p].held[g] = row'[g].epoch
  BY DEF HeldComplete
<1>1. /\ row[g] \in Rows /\ row[g].left \in Int /\ row[g].epoch \in Nat
      /\ pass \in [Pods -> Passes] /\ pass[p] \in Passes
  BY EpochNumbers DEF TypeOK
\* Where neither the row's owner nor the pass changes there is nothing to show.
<1>2. ASSUME row'[g].pod = row[g].pod, row'[g].epoch = row[g].epoch,
             row'[g].left > 0 => row[g].left > 0,
             Alive(p)' => Alive(p), pass'[p].pc = pass[p].pc,
             pass'[p].held = pass[p].held
      PROVE  pass'[p].held[g] = row'[g].epoch
  BY <1>2 DEF HeldComplete, HoldsLive, Installing
<1>3. ASSUME NEW q \in Pods, LeadPass(q) \/ Lifecycle(q), q # p
      PROVE  pass'[p].held[g] = row'[g].epoch
  <2>1. row'[g].pod = p
    BY DEF HoldsLive
  <2>2. row'[g].epoch = row[g].epoch
    BY <1>3, <2>1, GrantsOf
  <2>3. row'[g].pod = row[g].pod /\ (row'[g].left > 0 => row[g].left > 0)
    BY <1>1, <1>3, <2>1, <2>2, LeaseMoves, AssumptionsHold
       DEF Assumptions, RowStep, RowSame, RowRenewed, RowFreed, RowGranted
  <2>4. Alive(p)' => Alive(p) /\ pass'[p] = pass[p]
    BY <1>3, OthersKept DEF Alive
  <2> QED BY <1>2, <2>2, <2>3, <2>4 DEF HoldsLive
<1>4. CASE LeadRenew(p)
  <2>1. /\ pass'[p].held[g] = IF g \in Mine(p) \cap Cand THEN row[g].epoch ELSE 0
        /\ row' = Renewed(p)
    BY <1>1, <1>4 DEF LeadRenew
  <2>2. row'[g].pod = p /\ row'[g].left > 0
    BY DEF HoldsLive
  <2>3. g \in Mine(p) \cap Cand
    <3>1. CASE row'[g] = row[g]
      BY <1>1, <2>2, <3>1, AssumptionsHold DEF Assumptions, Mine, HeldByCand
    <3> QED BY <2>1, <3>1 DEF Renewed
  <2>4. [row[g] EXCEPT !.left = TTL].epoch = row[g].epoch
    BY <1>1 DEF Rows
  <2> QED BY <2>1, <2>3, <2>4 DEF Renewed
<1>5. CASE LeadAcquire(p)
  <2>1. /\ row' = Granted(p, Won(p))
        /\ pass' = [pass EXCEPT ![p] = [Idle EXCEPT
              !.pc = "retire", !.age = pass[p].age,
              !.held = WithTokens(pass[p].held, Won(p))]]
    BY <1>5 DEF LeadAcquire
  <2>2. pass'[p].held = WithTokens(pass[p].held, Won(p))
    BY <1>1, <2>1 DEF Idle
  <2>3. pass'[p].held[g] = IF g \in Won(p) THEN row[g].epoch + 1 ELSE pass[p].held[g]
    BY <2>2 DEF WithTokens
  <2>4. CASE g \in Won(p)
    BY <2>1, <2>3, <2>4, GrantedRows, WonIsFree DEF RowGranted
  <2>5. CASE g \notin Won(p)
    <3>1. row'[g] = row[g]
      BY <2>1, <2>5, GrantedRows, WonIsFree DEF RowSame
    <3> QED BY <1>5, <2>3, <2>5, <3>1
            DEF HeldComplete, HoldsLive, Installing, LeadAcquire, Alive
  <2> QED BY <2>4, <2>5
<1>10. CASE Snapshot(p)
  <2>1. /\ row' = row /\ stat' = stat /\ pass'[p].held = pass[p].held
        /\ pass[p].pc \in {"acquire", "follow"}
        /\ pass'[p].pc = IF pass[p].pc = "acquire" THEN "acquiring" ELSE "following"
    BY <1>10, SnapshotPass DEF Snapshot
  <2> QED BY <2>1 DEF HeldComplete, HoldsLive, Installing, Alive
<1>6. ASSUME LeadPass(p), ~ LeadRenew(p), ~ LeadAcquire(p), ~ Snapshot(p) PROVE FALSE
  BY <1>6, PassGoes DEF LeadPass, Installing
<1>7. CASE Lifecycle(p)
  <2>1. CASE Down(p)
    BY <2>1 DEF Down, HoldsLive, Alive, TypeOK
  <2>2. ~ Restart(p)
    BY DEF Remembers, Restart
  <2>3. CASE MarkDraining(p) \/ Close(p) \/ ReleaseAll(p)
    <3>1. pass' = pass /\ Alive(p)
      BY <2>3 DEF MarkDraining, Close, ReleaseAll, Alive
    <3>2. row'[g].pod = row[g].pod /\ row'[g] = row[g]
      <4>1. row'[g] \in {row[g], Released(row[g])}
        BY <2>3 DEF MarkDraining, Close, ReleaseAll
      <4>2. Released(row[g]).pod = NoPod
        BY <1>1 DEF Released, Rows
      <4> QED BY <4>1, <4>2, AssumptionsHold DEF Assumptions, HoldsLive
    <3> QED BY <1>2, <3>1, <3>2
  <2> QED BY <1>7, <2>1, <2>2, <2>3 DEF Lifecycle
<1>8. CASE Tick
  <2>1. stat' = stat
    BY <1>8 DEF Tick
  <2>2. pass'[p].pc = pass[p].pc /\ pass'[p].held = pass[p].held
    BY <1>1, <1>8 DEF Tick, Passes
  <2>3. row'[g].left > 0 => row[g].left > 0
    BY <1>1, <1>8, TickRows
  <2> QED BY <1>2, <1>8, <2>1, <2>2, <2>3, TickRows DEF Alive
<1>9. CASE UNCHANGED <<row, stat, pass>>
  BY <1>2, <1>9 DEF Alive
<1> QED BY <1>3, <1>4, <1>5, <1>6, <1>7, <1>8, <1>9, <1>10
        DEF Next, Remembers, Relink, SignInOrOut, podVars, vars

\* While p keeps a stolen row, and may come to trust it, it keeps its warm-up.
LEMMA WarmUpKept ==
  ASSUME Remembers, TypeOK, NEW p \in Pods, LeadPass(p) \/ Lifecycle(p),
         NEW g \in Users, HeldComplete(p, g), HoldsLive(p, g), row[g].epoch # 0,
         Alive(p)', row'[g].epoch = row[g].epoch, MayTrust(p, g)'
  PROVE  MayTrust(p, g) /\ warm'[p][g] = warm[p][g]
<1>1. /\ tok \in [Pods -> [Users -> Epochs]] /\ pass \in [Pods -> Passes]
      /\ warm \in [Pods -> [Users -> 0 .. WarmUp]]
      /\ row[g].epoch \in Nat
      /\ Installing(p) => pass[p].held[g] = row[g].epoch
  BY EpochNumbers DEF TypeOK, HeldComplete
<1>2. ASSUME row' = Granted(p, Won(p)) PROVE g \notin Won(p)
  BY <1>1, <1>2, GrantedRows, WonIsFree DEF RowGranted
<1>3. CASE LeadStart(p) \/ LeadRenew(p)
  BY <1>3 DEF LeadStart, LeadRenew, MayTrust
<1>4. CASE LeadAcquire(p)
  <2>1. /\ row' = Granted(p, Won(p))
        /\ warm' = [warm EXCEPT ![p] = WithWarmUps(warm[p], Won(p), pass[p].wasHeld)]
    BY <1>4 DEF LeadAcquire
  <2>2. warm'[p][g] = warm[p][g]
    BY <1>1, <1>2, <2>1 DEF WithWarmUps
  <2> QED BY <1>4, <2>2 DEF LeadAcquire, MayTrust, Installing
<1>5. CASE LeadInstall(p)
  <2>1. /\ Installing(p)
        /\ warm'[p][g] = IF pass[p].held[g] # 0 THEN warm[p][g] ELSE WarmUp
    BY <1>1, <1>5 DEF LeadInstall, Installing
  <2> QED BY <1>1, <2>1 DEF MayTrust
<1>6. CASE FollowOpen(p)
  <2>1. /\ row' = Granted(p, Won(p))
        /\ tok' = [tok EXCEPT ![p] = WithTokens(tok[p], Won(p))]
        /\ warm' = [warm EXCEPT ![p] = WithWarmUps(warm[p], Won(p), pass[p].wasHeld)]
    BY <1>6 DEF FollowOpen
  <2>2. warm'[p][g] = warm[p][g] /\ tok'[p][g] = tok[p][g] /\ stat'[p] = stat[p]
    BY <1>1, <1>2, <1>6, <2>1 DEF WithWarmUps, WithTokens, FollowOpen
  <2>3. pass'[p].pc \in {"idle", "follow", "give"}
    BY <1>6, PassGoes
  <2> QED BY <2>2, <2>3 DEF MayTrust, Installing
<1>7. ASSUME \/ \E h \in Users : GiveBack(p, h)
             \/ PassEnd(p) \/ PassFail(p) \/ RenewReplyLost(p) \/ AcquireReplyLost(p)
             \/ FollowFail(p)
      PROVE  MayTrust(p, g) /\ warm'[p][g] = warm[p][g]
  <2>1. warm' = warm /\ stat' = stat /\ tok'[p][g] \in {0, tok[p][g]}
    <3>1. ASSUME NEW h \in Users, GiveBack(p, h)
          PROVE  warm' = warm /\ stat' = stat /\ tok'[p][g] \in {0, tok[p][g]}
      BY <1>1, <3>1 DEF GiveBack
    <3> QED BY <1>1, <1>7, <3>1 DEF PassEnd, PassFail, RenewReplyLost,
               AcquireReplyLost, FollowFail, AfterFailure, NoTokens
  <2>2. pass'[p].pc \in {"idle", "follow", "give"}
    BY <1>7, PassGoes
  <2> QED BY <2>1, <2>2 DEF MayTrust, Installing
<1>9. CASE Snapshot(p)
  <2>1. warm' = warm /\ stat' = stat /\ tok' = tok
    BY <1>9 DEF Snapshot
  <2> QED BY <1>9, <2>1, SnapshotPass DEF MayTrust, Installing
<1>8. CASE Lifecycle(p)
  <2>1. ~ Down(p)
    BY DEF Down, Alive, TypeOK
  <2>2. ~ Restart(p)
    BY DEF Remembers, Restart
  <2>3. /\ warm' = warm /\ pass' = pass /\ tok'[p][g] \in {0, tok[p][g]}
        /\ stat[p] = "up" \/ stat'[p] = "released"
    BY <1>1, <1>8, <2>1, <2>2
       DEF Lifecycle, MarkDraining, Close, ReleaseAll, NoTokens, TypeOK
  <2> QED BY <2>3 DEF MayTrust, Installing
<1> QED BY <1>3, <1>4, <1>5, <1>6, <1>7, <1>8, <1>9 DEF LeadPass

\* A pod that steals a row and is told so starts its warm-up with it; one that is not
\* told will never trust the row: its process is being shut down.
LEMMA StealsStartWarm ==
  ASSUME Remembers, TypeOK, NEW p \in Pods, LeadPass(p) \/ Lifecycle(p),
         NEW g \in Users, tok[p][g] <= row[g].epoch, SeenHeld(p),
         row'[g].epoch # row[g].epoch, row[g].pod # NoPod, MayTrust(p, g)'
  PROVE  warm'[p][g] = 0
<1>1. /\ tok \in [Pods -> [Users -> Epochs]] /\ tok[p][g] \in Nat
      /\ warm \in [Pods -> [Users -> 0 .. WarmUp]] /\ row[g].epoch \in Nat
      /\ row'[g].epoch = row[g].epoch + 1
  BY EpochNumbers, AssumptionsHold, GrantsOf DEF TypeOK, Assumptions, Epochs, RowGranted
<1>2. CASE LeadAcquire(p) \/ FollowOpen(p)
  <2>1. warm' = [warm EXCEPT ![p] = WithWarmUps(warm[p], Won(p), pass[p].wasHeld)]
    BY <1>2 DEF LeadAcquire, FollowOpen
  <2>2. g \in Won(p) /\ Asking(p) /\ RowGranted(g)
    BY GrantsOf
  <2>3. g \in pass[p].want /\ row[g].left < 0
    BY <2>2 DEF Won, RowGranted
  <2>4. g \in pass[p].wasHeld
    BY <2>2, <2>3 DEF SeenHeld
  <2>5. WithWarmUps(warm[p], Won(p), pass[p].wasHeld)[g] = 0
    BY <2>2, <2>4 DEF WithWarmUps
  <2> QED BY <1>1, <2>1, <2>5
<1>3. CASE AcquireReplyLost(p) \/ FollowFail(p)
  <2>1. stat'[p] # "up"
    <3>1. row' # row
      OBVIOUS
    <3> QED BY <1>3, <3>1
            DEF Remembers, AcquireReplyLost, FollowFail, Interrupted, AfterFailure
  <2>2. tok'[p][g] \in {0, tok[p][g]}
    BY <1>1, <1>3 DEF AcquireReplyLost, FollowFail, AfterFailure, NoTokens
  <2>3. pass'[p].pc \in {"idle", "follow", "give"}
    BY <1>3, PassGoes
  <2> QED BY <1>1, <2>1, <2>2, <2>3 DEF MayTrust, Installing
<1> QED BY <1>2, <1>3, GrantsOf

\* What the writes see of the lease's memory: every step of the lease keeps the
\* warm-ups long enough.
LEMMA LeaseKeepsWarm ==
  ASSUME Remembers, FWInv, MemoryInv, LeaseSide, NEW q \in Pods,
         LeadPass(q) \/ Lifecycle(q), NEW p \in Pods, NEW g \in Users
  PROVE  WarmCovers(p, g)'
<1>1. /\ TypeOK /\ FWTypeOK /\ AgeInv /\ StealsMade(g) /\ NotedFor(g)
      /\ KnownEpochs(p, g) /\ WarmCovers(p, g) /\ HeldComplete(p, g) /\ SeenHeld(p)
      /\ inflight' = inflight
      /\ row[g].epoch \in Nat /\ row[g].left \in -1 .. TTL /\ TTL \in Nat
  BY EpochNumbers, AssumptionsHold
     DEF Assumptions, FWInv, IInv, MemoryInv, AgeInv, LeaseSide
<1> SUFFICES ASSUME HoldsLive(p, g)', row'[g].epoch \in stolen'[g], MayTrust(p, g)',
                    NEW w \in inflight, w.group = g, w.epoch < row'[g].epoch
             PROVE  w.age > warm'[p][g]
  BY <1>1 DEF WarmCovers
<1>2. w.epoch \in Nat /\ w.age \in Nat /\ WriteOlder(w)
  BY <1>1, LandHolds, AssumptionsHold DEF Assumptions, FWTypeOK, Writes, AgeInv
<1>3. CASE row'[g].epoch = row[g].epoch
  <2>1. row[g].epoch \in stolen[g] /\ row[g].epoch # 0
    BY <1>1, <1>3 DEF NotedFor, StealsMade
  <2>2. row'[g].pod = row[g].pod /\ (row'[g].left > 0 => row[g].left > 0)
    BY <1>1, <1>3, LeaseMoves, AssumptionsHold
       DEF Assumptions, RowStep, RowSame, RowRenewed, RowFreed, RowGranted, HoldsLive
  <2>3. Alive(p)' => Alive(p)
    BY <1>1, OthersKept
       DEF Remembers, Alive, LeadPass, Lifecycle, LeadStart, LeadRenew, Snapshot,
           LeadAcquire, LeadInstall, FollowOpen, GiveBack, PassEnd, PassFail, RenewReplyLost,
           AcquireReplyLost, FollowFail, AfterFailure, MarkDraining, Close,
           ReleaseAll, Down, Restart
  <2>4. HoldsLive(p, g)
    BY <2>2, <2>3 DEF HoldsLive
  <2>5. MayTrust(p, g) /\ warm'[p][g] = warm[p][g]
    <3>1. CASE p = q
      BY <1>1, <1>3, <2>1, <2>4, <3>1, WarmUpKept DEF HoldsLive
    <3>2. CASE p # q
      BY <1>1, <1>3, <3>2, OthersKept, OthersWarmKept DEF MayTrust, Installing
    <3> QED BY <3>1, <3>2
  <2> QED BY <1>1, <1>3, <2>1, <2>4, <2>5 DEF WarmCovers
<1>4. CASE row'[g].epoch # row[g].epoch
  <2>1. RowGranted(g) /\ p = q
    BY <1>1, <1>4, GrantsOf DEF HoldsLive
  <2>2. row[g].pod # NoPod /\ row[g].left < 0
    BY <1>1, <1>4, <2>1 DEF RowGranted, NotedFor, StealsMade
  <2>3. warm'[p][g] = 0
    BY <1>1, <1>4, <2>1, <2>2, StealsStartWarm DEF KnownEpochs
  <2>4. w.age > 0
    BY <1>1, <1>2, <2>1, <2>2 DEF WriteOlder, RowGranted
  <2> QED BY <1>2, <2>3, <2>4
<1> QED BY <1>3, <1>4

\* A tick ages the warm-up and the writes alike, and a write that is admitted is of
\* the lease in force.
LEMMA WritesKeepWarm ==
  ASSUME FWInv, MemoryInv, TickW \/ WriteSide \/ EndSide \/ UNCHANGED fwVars,
         NEW p \in Pods, NEW g \in Users
  PROVE  WarmCovers(p, g)'
<1>1. /\ TypeOK /\ FWTypeOK /\ WarmCovers(p, g) /\ warm[p][g] \in 0 .. WarmUp
      /\ row[g].epoch \in Nat /\ row[g].left \in Int
  BY EpochNumbers DEF FWInv, IInv, MemoryInv, TypeOK
<1> SUFFICES ASSUME HoldsLive(p, g)', row'[g].epoch \in stolen'[g], MayTrust(p, g)',
                    NEW x \in inflight', x.group = g, x.epoch < row'[g].epoch
             PROVE  x.age > warm'[p][g]
  BY DEF WarmCovers
<1>2. CASE TickW
  <2>1. /\ Tick /\ stolen' = stolen /\ stat' = stat /\ tok' = tok
        /\ warm'[p][g] = Least(warm[p][g] + 1, WarmUp)
        /\ pass'[p].pc = pass[p].pc
    <3>1. pass'[p] = [pass[p] EXCEPT !.age = Least(@ + 1, AgeCap)] /\ pass[p] \in Passes
      BY <1>1, <1>2 DEF TickW, Tick, TypeOK
    <3>2. pass'[p].pc = pass[p].pc
      BY <3>1 DEF Passes
    <3> QED BY <1>2, <3>2 DEF TickW, Tick
  <2>2. /\ row'[g].epoch = row[g].epoch /\ HoldsLive(p, g) /\ MayTrust(p, g)
    BY <1>1, <2>1, TickRows DEF HoldsLive, Alive, MayTrust, Installing
  <2>3. PICK w \in inflight : x.group = w.group /\ x.epoch = w.epoch /\ x.age = w.age + 1
    BY <1>1, <1>2, TickWrites
  <2>4. w.age > warm[p][g]
    BY <1>1, <2>1, <2>2, <2>3 DEF WarmCovers
  <2>5. w.age \in Int
    BY <1>1, LandHolds DEF FWTypeOK, Writes
  <2> QED BY <1>1, <2>1, <2>3, <2>4, <2>5, AssumptionsHold DEF Assumptions, Least
<1>3. CASE WriteSide \/ EndSide \/ UNCHANGED fwVars
  <2>1. UNCHANGED vars /\ stolen' = stolen
    BY <1>3 DEF WriteSide, EndSide, StartWrite, Admit, Refuse, Commit, Abort, vars,
                podVars, fwVars, writeVars
  <2>2. HoldsLive(p, g) /\ MayTrust(p, g) /\ warm' = warm /\ row' = row
    BY <2>1 DEF vars, podVars, HoldsLive, Alive, MayTrust, Installing
  <2>3. x \in inflight
    <3>1. ASSUME NEW q \in Pods, NEW h \in Users, Admit(q, h) PROVE x \in inflight
      <4>1. x \in inflight \/ x = [group |-> h, epoch |-> carried[q][h], age |-> 0]
        BY <3>1 DEF Admit
      <4>2. row[h].epoch = carried[q][h]
        BY <3>1 DEF Admit, LeaseOk
      <4> QED BY <1>1, <2>2, <4>1, <4>2
    <3> QED BY <1>3, <3>1 DEF WriteSide, EndSide, StartWrite, Refuse, Commit, Abort,
               fwVars, writeVars
  <2> QED BY <1>1, <2>1, <2>2, <2>3 DEF WarmCovers
<1> QED BY <1>2, <1>3

\* No pod remembers a steal at first.
LEMMA InitMemory == FWInit => MemoryInv
  BY DEF FWInit, Init, MemoryInv, HeldByCand, SeenHeld, Asking, Idle, HeldComplete,
         WarmCovers, HoldsLive

\* Every step keeps what the pods remember of their steals.
LEMMA MemoryStep ==
  Remembers /\ FWInv /\ MemoryInv /\ [FWNext]_fwVars => MemoryInv'
<1> SUFFICES ASSUME Remembers, FWInv, MemoryInv, [FWNext]_fwVars PROVE MemoryInv'
  OBVIOUS
<1>1. TypeOK /\ FWTypeOK /\ [Next]_vars
  BY LeaseUnder DEF FWInv, IInv
<1>2. (\A h \in Users : HeldByCand(h)) /\ \A p \in Pods : SeenHeld(p)
  BY DEF MemoryInv
<1>6. \A p \in Pods : SeenHeld(p)'
  BY <1>1, <1>2, SeenHeldStep
<1>3. ASSUME NEW g \in Users PROVE HeldByCand(g)'
  BY <1>1, <1>2, HeldByCandStep
<1>4. ASSUME NEW p \in Pods, NEW g \in Users PROVE HeldComplete(p, g)'
  BY <1>1, <1>2, HeldCompleteStep DEF MemoryInv
<1>5. ASSUME NEW p \in Pods, NEW g \in Users PROVE WarmCovers(p, g)'
  <2>1. CASE LeaseStep \/ \E q \in Pods : DownW(q)
    <3>1. LeaseSide
      BY <1>1, <2>1, LeaseSides
    <3>2. \E q \in Pods : LeadPass(q) \/ Lifecycle(q)
      BY <2>1 DEF LeaseStep, DownW, Lifecycle, Remembers, Relink, SignInOrOut
    <3> QED BY <3>1, <3>2, LeaseKeepsWarm
  <2> QED BY <2>1, WritesKeepWarm DEF FWNext, WriteSide, EndSide
<1> QED BY <1>3, <1>4, <1>5, <1>6 DEF MemoryInv

\* When p may start a write under an epoch that stole the row, everything that the
\* steal overtook has landed: it is older than the warm-up, and Land is not.
LEMMA WarmMeansLanded ==
  ASSUME FWInv, MemoryInv, NEW p \in Pods, NEW g \in Users,
         HoldsLive(p, g), Fence(p, g) = "Held", tok[p][g] = row[g].epoch,
         tok[p][g] \in stolen[g],
         NEW w \in inflight, w.group = g
  PROVE  w.epoch >= tok[p][g]
<1>1. WarmCovers(p, g) /\ MayTrust(p, g)
  BY DEF MemoryInv, MayTrust
<1>2. warm[p][g] \in 0 .. WarmUp /\ w.age \in 0 .. Land /\ w.epoch \in Nat
      /\ row[g].epoch \in Nat
  BY EpochNumbers, AssumptionsHold DEF Assumptions, FWInv, IInv, TypeOK, FWTypeOK, Writes
<1>3. ~ (warm[p][g] < WarmUp)
  BY DEF Fence
<1>4. ASSUME w.epoch < row[g].epoch PROVE FALSE
  <2>1. w.age > warm[p][g]
    BY <1>1, <1>4 DEF WarmCovers
  <2> QED BY <1>2, <1>3, <2>1, LandHolds, AssumptionsHold DEF Assumptions
<1> QED BY <1>2, <1>4

\* The warm-up covers the steal, for every timing with Land <= WarmUp: where pods
\* only crash and shut down, the fence of a thief opens on a settled group.
THEOREM StealsWait ==
  ASSUME Remembers
  PROVE  FWSpec => []StealWaits
<1>1. FWInv /\ MemoryInv => StealWaits
  <2> SUFFICES ASSUME FWInv, MemoryInv, NEW p \in Pods, NEW g \in Users,
                      Running(p), Fence(p, g) = "Held", tok[p][g] \in stolen[g],
                      NEW w \in inflight, w.group = g
               PROVE  w.epoch >= tok[p][g]
    BY DEF StealWaits
  <2>1. LocallyValid(p, g)
    BY DEF Fence
  <2>2. LeaseOk(g, p, tok[p][g])
    BY <2>1, InvTrust DEF FWInv, TrustImpliesLease
  <2>3. Alive(p)
    BY DEF Running, Alive
  <2> QED BY <2>2, <2>3, WarmMeansLanded DEF HoldsLive, LeaseOk
<1>2. FWSpec => []MemoryInv
  BY InitMemory, MemoryStep, WritesInvariance, PTL DEF FWSpec
<1> QED BY <1>1, <1>2, WritesInvariance, PTL

-----------------------------------------------------------------------------
(***************************************************************************)
(* The order of the commits.  Once a write is admitted under a stolen       *)
(* epoch, nothing older is left in flight that could land on top of it.     *)
(***************************************************************************)
\* Nothing of group g from before epoch e is in flight, if e is a steal.
Clear(g, e) ==
    e \in stolen[g] => \A w \in inflight : w.group = g => w.epoch >= e

LastClear(g) == last[g] <= row[g].epoch /\ Clear(g, last[g])
FlightsClear == \A w \in inflight : Clear(w.group, w.epoch)
CarriedClear(p, g) == LeaseOk(g, p, carried[p][g]) => Clear(g, carried[p][g])

OrderInv ==
    /\ \A g \in Users : LastClear(g)
    /\ FlightsClear
    /\ \A p \in Pods, g \in Users : CarriedClear(p, g)

\* A step that adds no write and steals nothing at e or below leaves g clear.
LEMMA StaysClear ==
  ASSUME NEW g \in Users, NEW e, Clear(g, e), e \in stolen'[g] => e \in stolen[g],
         \A x \in inflight' : \E w \in inflight : x.group = w.group /\ x.epoch = w.epoch
  PROVE  Clear(g, e)'
  BY DEF Clear

\* The lease steals only at epochs that no write has had yet.
LEMMA LeaseKeepsOrder ==
  ASSUME FWInv, OrderInv, LeaseSide
  PROVE  OrderInv'
<1>1. /\ TypeOK /\ FWTypeOK /\ AgeInv /\ inflight' = inflight /\ last' = last
      /\ \A w \in inflight : w.group \in Users /\ w.epoch \in Nat
      /\ \A p \in Pods, g \in Users : carried[p][g] \in Nat
      /\ last \in [Users -> Nat]
  <2>1. Epochs \subseteq Nat /\ \A w \in Writes : w.group \in Users /\ w.epoch \in Nat
    BY AssumptionsHold DEF Assumptions, Epochs, Writes
  <2> QED BY <2>1 DEF FWInv, IInv, FWTypeOK, LeaseSide
<1>2. ASSUME NEW g \in Users, NEW e \in Nat, Clear(g, e), e <= row[g].epoch
      PROVE  Clear(g, e)'
  <2>1. /\ RowStep(g) /\ NotedFor(g) /\ row[g].epoch \in Nat
    BY <1>1, EpochNumbers DEF LeaseSide
  <2>2. e \in stolen'[g] => e \in stolen[g]
    BY <1>2, <2>1 DEF NotedFor, RowStep, RowSame, RowRenewed, RowFreed, RowGranted
  <2> QED BY <1>1, <1>2, <2>2, StaysClear
<1>3. ASSUME NEW g \in Users
      PROVE  row[g].epoch \in Nat /\ row'[g].epoch \in Nat /\ row[g].epoch <= row'[g].epoch
  BY <1>1, EpochNumbers
     DEF LeaseSide, RowStep, RowSame, RowRenewed, RowFreed, RowGranted
<1>4. ASSUME NEW g \in Users PROVE LastClear(g)'
  BY <1>1, <1>2, <1>3 DEF OrderInv, LastClear
<1>5. ASSUME NEW w \in inflight PROVE Clear(w.group, w.epoch)'
  <2>1. w.epoch <= row[w.group].epoch /\ Clear(w.group, w.epoch)
    BY DEF FWInv, AgeInv, WriteOlder, OrderInv, FlightsClear
  <2> QED BY <1>1, <1>2, <2>1
<1>6. ASSUME NEW p \in Pods, NEW g \in Users PROVE CarriedClear(p, g)'
  <2> SUFFICES ASSUME LeaseOk(g, p, carried[p][g])' PROVE Clear(g, carried[p][g])'
    BY DEF CarriedClear
  <2>1. carried'[p][g] \in {0, carried[p][g]} /\ stolen'[g] \subseteq 1 .. row'[g].epoch
    BY <1>1, LeaseKeepsAges DEF LeaseSide, AgeInv, StealsMade
  <2>2. CASE carried'[p][g] = 0
    <3>1. 0 \notin stolen'[g]
      BY <1>3, <2>1
    <3> QED BY <2>2, <3>1 DEF Clear
  <2>3. CASE carried'[p][g] = carried[p][g]
    <3>1. carried[p][g] <= row[g].epoch
      BY DEF FWInv, KnownEpochs
    <3>2. /\ row'[g].epoch = carried[p][g] /\ row'[g].pod = p /\ row'[g].left > 0
          /\ RowStep(g)
      BY <2>3 DEF LeaseOk, LeaseSide
    <3>3. LeaseOk(g, p, carried[p][g])
      BY <1>3, <3>1, <3>2, AssumptionsHold
         DEF Assumptions, LeaseOk, RowStep, RowSame, RowRenewed, RowFreed, RowGranted
    <3> QED BY <1>1, <1>2, <2>3, <3>1, <3>3 DEF OrderInv, CarriedClear
  <2> QED BY <2>1, <2>2, <2>3
<1> QED BY <1>1, <1>4, <1>5, <1>6 DEF OrderInv, FlightsClear

\* A tick makes room between the writes of a grant and those of the next.
LEMMA TickKeepsOrder ==
  ASSUME FWInv, OrderInv, TickW
  PROVE  OrderInv'
<1>1. /\ TypeOK /\ FWTypeOK /\ Tick
      /\ stolen' = stolen /\ last' = last /\ carried' = carried
  BY DEF FWInv, IInv, TickW
<1>2. \A x \in inflight' :
        \E w \in inflight : x.group = w.group /\ x.epoch = w.epoch /\ x.group \in Users
  BY <1>1, TickWrites DEF Writes
<1>3. ASSUME NEW g \in Users, NEW e, Clear(g, e) PROVE Clear(g, e)'
  BY <1>1, <1>2, <1>3, StaysClear
<1>4. ASSUME NEW g \in Users PROVE LastClear(g)'
  BY <1>1, <1>3, <1>4, TickRows DEF OrderInv, LastClear
<1>5. ASSUME NEW x \in inflight' PROVE Clear(x.group, x.epoch)'
  BY <1>2, <1>3 DEF OrderInv, FlightsClear
<1>6. ASSUME NEW p \in Pods, NEW g \in Users PROVE CarriedClear(p, g)'
  <2> SUFFICES ASSUME LeaseOk(g, p, carried[p][g])' PROVE Clear(g, carried[p][g])'
    BY DEF CarriedClear
  <2>1. row[g].left \in Int /\ row'[g].left > 0 /\ row'[g].pod = p
        /\ row'[g].epoch = carried[p][g]
    BY <1>1, EpochNumbers DEF LeaseOk
  <2>2. LeaseOk(g, p, carried[p][g])
    BY <1>1, <2>1, TickRows DEF LeaseOk
  <2> QED BY <1>1, <1>3, <2>2 DEF OrderInv, CarriedClear
<1> QED BY <1>4, <1>5, <1>6 DEF OrderInv, FlightsClear

\* A write starts when what it overtook has landed; it is admitted under the row's
\* own epoch; and what commits is as clear as it was in flight.
LEMMA WritesKeepOrder ==
  ASSUME FWInv, MemoryInv, OrderInv, WriteSide \/ EndSide
  PROVE  OrderInv'
<1>1. /\ TypeOK /\ FWTypeOK /\ row' = row /\ stolen' = stolen
      /\ last \in [Users -> Epochs] /\ carried \in [Pods -> [Users -> Epochs]]
      /\ \A g \in Users : stolen[g] \subseteq 1 .. row[g].epoch /\ row[g].epoch \in Nat
      /\ \A w \in inflight : w.group \in Users /\ w.epoch <= row[w.group].epoch
                             /\ w.epoch \in Nat
  <2>1. TypeOK /\ FWTypeOK /\ row' = row /\ stolen' = stolen
    BY DEF FWInv, IInv, WriteSide, EndSide, StartWrite, Admit, Refuse, Commit, Abort,
           vars
  <2>2. \A g \in Users : stolen[g] \subseteq 1 .. row[g].epoch /\ row[g].epoch \in Nat
    BY <2>1, EpochNumbers DEF FWInv, AgeInv, StealsMade
  <2>3. \A w \in inflight : w.group \in Users /\ w.epoch <= row[w.group].epoch
                            /\ w.epoch \in Nat
    BY AssumptionsHold DEF FWInv, AgeInv, WriteOlder, FWTypeOK, Writes, Assumptions
  <2> QED BY <2>1, <2>2, <2>3 DEF FWTypeOK
<1>2. \A p \in Pods, g \in Users : \A e : LeaseOk(g, p, e)' <=> LeaseOk(g, p, e)
  BY <1>1 DEF LeaseOk
\* Clearness of any epoch up to the row's survives every one of these steps.
<1>3. ASSUME NEW g \in Users, NEW e, Clear(g, e) PROVE Clear(g, e)'
  <2> SUFFICES ASSUME e \in stolen[g], NEW x \in inflight', x.group = g
               PROVE  x.epoch >= e
    BY <1>1 DEF Clear
  <2>1. CASE x \in inflight
    BY <1>3, <2>1 DEF Clear
  <2>2. CASE x \notin inflight
    <3>1. PICK p \in Pods, h \in Users : Admit(p, h)
      BY <2>2 DEF WriteSide, EndSide, StartWrite, Refuse, Commit, Abort
    <3>2. x = [group |-> h, epoch |-> carried[p][h], age |-> 0]
          /\ row[h].epoch = carried[p][h]
      BY <2>2, <3>1 DEF Admit, LeaseOk
    <3>3. x.epoch = row[g].epoch /\ e \in 1 .. row[g].epoch /\ row[g].epoch \in Nat
      BY <1>1, <3>2
    <3> QED BY <3>3
  <2> QED BY <2>1, <2>2
<1>4. ASSUME NEW p \in Pods, NEW h \in Users, StartWrite(p, h)
      PROVE  OrderInv'
  <2>1. inflight' = inflight /\ last' = last
        /\ carried' = [carried EXCEPT ![p][h] = tok[p][h]]
    BY <1>4 DEF StartWrite
  <2>2. ASSUME LeaseOk(h, p, tok[p][h]) PROVE Clear(h, tok[p][h])
    <3>1. HoldsLive(p, h) /\ Fence(p, h) = "Held" /\ tok[p][h] = row[h].epoch
      BY <1>4, <2>2 DEF StartWrite, HoldsLive, LeaseOk
    <3> QED BY <3>1, WarmMeansLanded DEF Clear
  <2>3. ASSUME NEW q \in Pods, NEW g \in Users PROVE CarriedClear(q, g)'
    <3>1. CASE q = p /\ g = h
      <4>1. carried'[q][g] = tok[p][h]
        BY <1>1, <2>1, <3>1
      <4> QED BY <1>2, <1>3, <2>2, <3>1, <4>1 DEF CarriedClear
    <3>2. CASE ~ (q = p /\ g = h)
      <4>1. carried'[q][g] = carried[q][g]
        BY <1>1, <2>1, <3>2
      <4> QED BY <1>2, <1>3, <4>1 DEF CarriedClear, OrderInv
    <3> QED BY <3>1, <3>2
  <2>4. \A g \in Users : LastClear(g)'
    BY <1>1, <1>3, <2>1 DEF OrderInv, LastClear
  <2>5. FlightsClear'
    BY <1>1, <1>3, <2>1 DEF OrderInv, FlightsClear
  <2> QED BY <2>3, <2>4, <2>5 DEF OrderInv
<1>5. ASSUME NEW p \in Pods, NEW h \in Users, Admit(p, h) \/ Refuse(p, h)
      PROVE  OrderInv'
  <2>1. last' = last /\ carried' = [carried EXCEPT ![p][h] = 0]
    BY <1>5 DEF Admit, Refuse
  <2>2. \A x \in inflight' \ inflight :
           /\ x.group = h /\ x.epoch = carried[p][h]
           /\ LeaseOk(h, p, carried[p][h])
    BY <1>5 DEF Admit, Refuse
  <2>3. ASSUME NEW x \in inflight' PROVE Clear(x.group, x.epoch)'
    <3>1. CASE x \in inflight
      BY <1>1, <1>3, <3>1 DEF OrderInv, FlightsClear
    <3>2. CASE x \notin inflight
      BY <1>3, <2>2, <3>2 DEF OrderInv, CarriedClear
    <3> QED BY <3>1, <3>2
  <2>4. ASSUME NEW q \in Pods, NEW g \in Users PROVE CarriedClear(q, g)'
    <3>1. carried'[q][g] \in {0, carried[q][g]}
      BY <1>1, <2>1
    <3>2. CASE carried'[q][g] = 0
      <4>1. 0 \notin stolen'[g]
        BY <1>1
      <4> QED BY <3>2, <4>1 DEF CarriedClear, Clear
    <3>3. CASE carried'[q][g] = carried[q][g]
      BY <1>2, <1>3, <3>3 DEF CarriedClear, OrderInv
    <3> QED BY <3>1, <3>2, <3>3
  <2>5. \A g \in Users : LastClear(g)'
    BY <1>1, <1>3, <2>1 DEF OrderInv, LastClear
  <2> QED BY <2>3, <2>4, <2>5 DEF OrderInv, FlightsClear
<1>6. ASSUME NEW w \in inflight, Commit(w) \/ Abort(w) PROVE OrderInv'
  <2>1. /\ inflight' = inflight \ {w} /\ carried' = carried
        /\ last' = last \/ last' = [last EXCEPT ![w.group] = w.epoch]
    BY <1>6 DEF Commit, Abort
  <2>2. ASSUME NEW g \in Users PROVE LastClear(g)'
    <3>1. CASE last'[g] = last[g]
      BY <1>1, <1>3, <3>1 DEF OrderInv, LastClear
    <3>2. CASE g = w.group /\ last'[g] = w.epoch
      BY <1>1, <1>3, <3>2 DEF OrderInv, FlightsClear, LastClear
    <3> QED BY <1>1, <2>1, <3>1, <3>2
  <2>3. \A p \in Pods, g \in Users : CarriedClear(p, g)'
    BY <1>2, <1>3, <2>1 DEF OrderInv, CarriedClear
  <2>4. FlightsClear'
    BY <1>1, <1>3, <2>1 DEF OrderInv, FlightsClear
  <2> QED BY <2>2, <2>3, <2>4 DEF OrderInv
<1> QED BY <1>4, <1>5, <1>6 DEF WriteSide, EndSide

\* Nothing is in flight at first.
LEMMA InitOrder == FWInit => OrderInv
<1> SUFFICES ASSUME FWInit PROVE OrderInv
  OBVIOUS
<1>1. /\ \A g \in Users : last[g] = 0 /\ row[g].epoch = 0 /\ stolen[g] = {}
      /\ inflight = {}
  BY DEF FWInit, Init, NoTokens
<1> QED BY <1>1 DEF OrderInv, LastClear, FlightsClear, CarriedClear, Clear

\* Every step keeps the commits in order.
LEMMA OrderStep ==
  FWInv /\ MemoryInv /\ OrderInv /\ [FWNext]_fwVars => OrderInv'
<1> SUFFICES ASSUME FWInv, MemoryInv, OrderInv, [FWNext]_fwVars PROVE OrderInv'
  OBVIOUS
<1>1. CASE LeaseStep \/ (\E p \in Pods : DownW(p)) \/ UNCHANGED fwVars
  BY <1>1, LeaseSides, LeaseKeepsOrder DEF FWInv, IInv
<1>2. CASE TickW
  BY <1>2, TickKeepsOrder
<1>3. CASE WriteSide \/ EndSide
  BY <1>3, WritesKeepOrder
<1> QED BY <1>1, <1>2, <1>3 DEF FWNext, WriteSide, EndSide

\* A commit that goes back to an older epoch never lands on a stolen one.
LEMMA OrderKept ==
  FWInv /\ OrderInv /\ [FWNext]_fwVars =>
      [\A g \in Users : last'[g] < last[g] => last[g] \notin stolen[g]]_fwVars
<1> SUFFICES ASSUME FWInv, OrderInv, FWNext, NEW g \in Users, last'[g] < last[g],
                    last[g] \in stolen[g]
             PROVE  FALSE
  OBVIOUS
<1>1. last \in [Users -> Epochs] /\ last[g] \in Int
  BY AssumptionsHold DEF FWInv, FWTypeOK, Assumptions, Epochs
<1>2. PICK w \in inflight : Commit(w)
  BY <1>1 DEF FWNext, LeaseStep, DownW, TickW, StartWrite, Admit, Refuse, Abort
<1>3. w.group = g /\ w.epoch = last'[g] /\ w.epoch \in Int
  BY <1>1, <1>2, AssumptionsHold DEF Commit, FWInv, FWTypeOK, Writes, Assumptions
<1>4. w.epoch >= last[g]
  BY <1>3 DEF OrderInv, LastClear, Clear
<1> QED BY <1>1, <1>3, <1>4

\* No write made before a steal lands on top of one that the thief made, however
\* the statements of the two are delayed.
THEOREM CommitsOrdered ==
  ASSUME Remembers
  PROVE  FWSpec => CommitOrder
<1>1. FWSpec => []MemoryInv
  BY InitMemory, MemoryStep, WritesInvariance, PTL DEF FWSpec
<1>2. FWSpec => []OrderInv
  BY <1>1, InitOrder, OrderStep, WritesInvariance, PTL DEF FWSpec
<1> QED BY <1>2, OrderKept, WritesInvariance, PTL DEF FWSpec, CommitOrder
-----------------------------------------------------------------------------
(***************************************************************************)
(* What the release before the end of a warm-up breaks.  OrderAcrossSteal   *)
(* is refuted by a run; it holds of the behaviours in which whoever gives a *)
(* stolen group back was past its warm-up: nothing else stands against it.  *)
(***************************************************************************)
\* g is released by a pod that holds it and may write, if it was stolen.
ReleasedSettled(g) ==
    row[g].pod # NoPod /\ row'[g].pod = NoPod /\ row[g].epoch \in stolen[g] =>
        \E p \in Pods : Running(p) /\ Fence(p, g) = "Held" /\ tok[p][g] = row[g].epoch

\* A write from before the steal e is still in flight.
Overtaken(g, e) ==
    e \in stolen[g] /\ \E w \in inflight : w.group = g /\ w.epoch < e

\* As long as that is so nobody has written since e, nobody is about to, and the row
\* has not been released since: the last grant was a steal.
Holds(g, e) ==
    /\ last[g] < e
    /\ \A w \in inflight : w.group = g => w.epoch < e
    /\ \A p \in Pods : ~ LeaseOk(g, p, carried[p][g])
    /\ row[g].pod # NoPod /\ row[g].epoch \in stolen[g]

HoldsInv == \A g \in Users, e \in Nat : Overtaken(g, e) => Holds(g, e)

\* What both sides of a step have in common.
LEMMA WriteNumbers ==
  ASSUME FWInv, NEW g \in Users
  PROVE  /\ last[g] \in Nat /\ row[g].epoch \in Nat /\ last \in [Users -> Epochs]
         /\ stolen[g] \subseteq 1 .. row[g].epoch
         /\ \A p \in Pods : carried[p][g] \in Nat /\ carried[p][g] <= row[g].epoch
         /\ \A w \in inflight : /\ w.group \in Users /\ w.epoch \in Nat
                                /\ w.epoch <= row[w.group].epoch
<1>1. Epochs \subseteq Nat /\ \A w \in Writes : w.group \in Users /\ w.epoch \in Nat
  BY AssumptionsHold DEF Assumptions, Epochs, Writes
<1>2. row[g].epoch \in Nat
  BY EpochNumbers DEF FWInv, IInv
<1>3. last[g] \in Nat /\ last \in [Users -> Epochs]
      /\ \A p \in Pods : carried[p][g] \in Nat
  BY <1>1 DEF FWInv, FWTypeOK
<1>4. \A p \in Pods : carried[p][g] <= row[g].epoch
  BY DEF FWInv, KnownEpochs
<1>5. \A w \in inflight : w.group \in Users /\ w.epoch \in Nat /\ w.epoch <= row[w.group].epoch
  BY <1>1 DEF FWInv, FWTypeOK, AgeInv, WriteOlder
<1>6. stolen[g] \subseteq 1 .. row[g].epoch
  BY DEF FWInv, AgeInv, StealsMade
<1> QED BY <1>2, <1>3, <1>4, <1>5, <1>6

\* A pod that may write a stolen group has nothing from before the steal to fear.
LEMMA HeldIsNotOvertaken ==
  ASSUME FWInv, MemoryInv, NEW p \in Pods, NEW g \in Users, NEW e \in Nat,
         HoldsLive(p, g), Fence(p, g) = "Held", tok[p][g] = row[g].epoch,
         row[g].epoch \in stolen[g], Overtaken(g, e)
  PROVE  FALSE
<1>1. PICK w \in inflight : w.group = g /\ w.epoch < e
  BY DEF Overtaken
<1>2. w.epoch >= row[g].epoch
  BY <1>1, WarmMeansLanded
<1>3. w.epoch \in Nat /\ row[g].epoch \in Nat /\ stolen[g] \subseteq 1 .. row[g].epoch
  BY WriteNumbers
<1> QED BY <1>1, <1>2, <1>3 DEF Overtaken

\* The lease grants, renews and, if it was settled, releases: a new steal comes with
\* an epoch that nobody has written under.
LEMMA LeaseHolds ==
  ASSUME FWInv, MemoryInv, OrderInv, LeaseSide, NEW g \in Users, NEW e \in Nat,
         ReleasedSettled(g), Overtaken(g, e) => Holds(g, e), Overtaken(g, e)'
  PROVE  Holds(g, e)'
<1>1. /\ inflight' = inflight /\ last' = last /\ RowStep(g) /\ NotedFor(g)
      /\ \A p \in Pods : carried'[p][g] \in {0, carried[p][g]}
  BY DEF LeaseSide
<1>2. e \in stolen'[g] /\ \E w \in inflight : w.group = g /\ w.epoch < e
  BY <1>1 DEF Overtaken
<1>3. CASE e \in stolen[g]
  <2>1. Overtaken(g, e) /\ Holds(g, e) /\ e > 0
    BY <1>2, <1>3, WriteNumbers DEF Overtaken
  <2>2. row'[g].pod # NoPod
    <3> SUFFICES ASSUME row'[g].pod = NoPod PROVE FALSE
      OBVIOUS
    <3>1. PICK p \in Pods : Running(p) /\ Fence(p, g) = "Held" /\ tok[p][g] = row[g].epoch
      BY <2>1 DEF ReleasedSettled, Holds
    <3>2. LocallyValid(p, g)
      BY <3>1 DEF Fence
    <3>3. LeaseOk(g, p, tok[p][g])
      BY <3>1, <3>2, InvTrust DEF FWInv, TrustImpliesLease
    <3>4. HoldsLive(p, g)
      BY <3>1, <3>3 DEF HoldsLive, LeaseOk, Running, Alive
    <3> QED BY <2>1, <3>1, <3>4, HeldIsNotOvertaken DEF Holds
  <2>3. row'[g].epoch \in stolen'[g]
    BY <1>1, <2>1 DEF Holds, NotedFor
  <2>4. ASSUME NEW p \in Pods, LeaseOk(g, p, carried[p][g])' PROVE FALSE
    <3>1. /\ row'[g].pod = p /\ row'[g].epoch = carried'[p][g] /\ row'[g].left > 0
      BY <2>4 DEF LeaseOk
    <3>2. /\ row[g].epoch \in Nat /\ carried[p][g] \in Nat /\ carried[p][g] <= row[g].epoch
          /\ e \in Nat /\ 0 < e /\ e <= row[g].epoch
      BY <1>3, WriteNumbers
    <3>3. row'[g].epoch >= row[g].epoch
      BY <1>1, <3>2 DEF RowStep, RowSame, RowRenewed, RowFreed, RowGranted
    <3>4. carried'[p][g] = carried[p][g] /\ row'[g].epoch = row[g].epoch
      BY <1>1, <3>1, <3>2, <3>3
    <3>5. row[g].pod = p /\ row[g].left > 0
      BY <1>1, <2>2, <3>1, <3>2, <3>4
         DEF RowStep, RowSame, RowRenewed, RowFreed, RowGranted
    <3> QED BY <2>1, <3>1, <3>4, <3>5 DEF Holds, LeaseOk
  <2> QED BY <1>1, <2>1, <2>2, <2>3, <2>4 DEF Holds
<1>4. CASE e \notin stolen[g]
  <2>1. row'[g].epoch # row[g].epoch /\ row[g].pod # NoPod /\ e = row'[g].epoch
        /\ stolen'[g] = stolen[g] \cup {e}
    BY <1>1, <1>2, <1>4 DEF NotedFor
  <2>2. row'[g].pod \in Pods /\ e = row[g].epoch + 1
    BY <1>1, <2>1 DEF RowStep, RowSame, RowRenewed, RowFreed, RowGranted
  <2>3. row'[g].pod # NoPod
    BY <2>2, AssumptionsHold DEF Assumptions
  <2>4. last[g] < e /\ \A p \in Pods : ~ LeaseOk(g, p, carried[p][g])'
    <3>1. last[g] <= row[g].epoch
      BY DEF OrderInv, LastClear
    <3>2. \A p \in Pods : carried'[p][g] < e
      BY <1>1, <2>2, WriteNumbers
    <3>3. e \in Nat /\ row'[g].epoch = e
      BY <2>1
    <3>4. \A p \in Pods : ~ LeaseOk(g, p, carried[p][g])'
      BY <3>2, <3>3 DEF LeaseOk
    <3> QED BY <2>2, <3>1, <3>4, WriteNumbers
  <2>5. \A w \in inflight : w.group = g => w.epoch < e
    BY <2>2, WriteNumbers
  <2> QED BY <1>1, <2>1, <2>3, <2>4, <2>5 DEF Holds
<1> QED BY <1>3, <1>4

\* The clock adds no write and moves no row to another pod.
LEMMA TickHolds ==
  ASSUME FWInv, TickW, NEW g \in Users, NEW e \in Nat,
         Overtaken(g, e) => Holds(g, e), Overtaken(g, e)'
  PROVE  Holds(g, e)'
<1>1. /\ TypeOK /\ FWTypeOK /\ Tick
      /\ stolen' = stolen /\ last' = last /\ carried' = carried
  BY DEF FWInv, IInv, TickW
<1>2. \A x \in inflight' : \E w \in inflight : x.group = w.group /\ x.epoch = w.epoch
  BY <1>1, TickWrites
<1>3. Overtaken(g, e)
  BY <1>1, <1>2 DEF Overtaken
<1>4. /\ row'[g].pod = row[g].pod /\ row'[g].epoch = row[g].epoch
      /\ row'[g].left > 0 => row[g].left > 0
  BY <1>1, TickRows, EpochNumbers
<1>5. ASSUME NEW p \in Pods, LeaseOk(g, p, carried[p][g])' PROVE FALSE
  <2>1. row'[g].pod = p /\ row'[g].epoch = carried[p][g] /\ row'[g].left > 0
    BY <1>1, <1>5 DEF LeaseOk
  <2>2. LeaseOk(g, p, carried[p][g])
    BY <1>4, <2>1 DEF LeaseOk
  <2> QED BY <1>3, <2>2 DEF Holds
<1>6. \A x \in inflight' : x.group = g => x.epoch < e
  BY <1>2, <1>3 DEF Holds
<1> QED BY <1>1, <1>3, <1>4, <1>5, <1>6 DEF Holds

\* A write starts and is admitted under the row's own epoch, by a pod that may write.
LEMMA WritesHold ==
  ASSUME FWInv, MemoryInv, WriteSide \/ EndSide, NEW g \in Users, NEW e \in Nat,
         Overtaken(g, e) => Holds(g, e), Overtaken(g, e)'
  PROVE  Holds(g, e)'
<1>1. row' = row /\ stolen' = stolen
  BY DEF WriteSide, EndSide, StartWrite, Admit, Refuse, Commit, Abort, vars
<1>2. /\ e \in stolen[g] /\ e <= row[g].epoch
      /\ row[g].epoch \in Nat
  BY <1>1, WriteNumbers DEF Overtaken
<1>3. CASE EndSide
  <2>1. PICK w \in inflight : Commit(w) \/ Abort(w)
    BY <1>3 DEF EndSide
  <2>2. /\ inflight' = inflight \ {w} /\ carried' = carried
        /\ last' = last \/ last' = [last EXCEPT ![w.group] = w.epoch]
    BY <2>1 DEF Commit, Abort
  <2>3. Holds(g, e)
    BY <1>1, <2>2 DEF Overtaken
  <2>4. last'[g] < e
    BY <2>2, <2>3, WriteNumbers DEF Holds
  <2> QED BY <1>1, <2>2, <2>3, <2>4 DEF Holds, LeaseOk
<1>4. ASSUME NEW p \in Pods, NEW h \in Users, StartWrite(p, h)
      PROVE  Holds(g, e)'
  <2>1. /\ inflight' = inflight /\ last' = last /\ Alive(p) /\ Fence(p, h) = "Held"
        /\ carried' = [carried EXCEPT ![p][h] = tok[p][h]]
    BY <1>4 DEF StartWrite
  <2>2. Overtaken(g, e) /\ Holds(g, e)
    BY <1>1, <2>1 DEF Overtaken
  <2>3. ASSUME NEW q \in Pods, LeaseOk(g, q, carried[q][g])' PROVE FALSE
    <3>1. carried \in [Pods -> [Users -> Epochs]]
      BY DEF FWInv, FWTypeOK
    <3>2. CASE q = p /\ g = h
      <4>1. LeaseOk(g, p, tok[p][g])
        BY <1>1, <2>1, <2>3, <3>1, <3>2 DEF LeaseOk
      <4>2. HoldsLive(p, g) /\ tok[p][g] = row[g].epoch
        BY <2>1, <4>1 DEF HoldsLive, LeaseOk
      <4> QED BY <2>1, <2>2, <3>2, <4>2, HeldIsNotOvertaken DEF Holds
    <3>3. CASE ~ (q = p /\ g = h)
      <4>1. carried'[q][g] = carried[q][g]
        BY <2>1, <3>1, <3>3
      <4> QED BY <1>1, <2>2, <2>3, <4>1 DEF Holds, LeaseOk
    <3> QED BY <3>2, <3>3
  <2> QED BY <1>1, <2>1, <2>2, <2>3 DEF Holds
<1>5. ASSUME NEW p \in Pods, NEW h \in Users, Admit(p, h) \/ Refuse(p, h)
      PROVE  Holds(g, e)'
  <2>1. last' = last /\ carried' = [carried EXCEPT ![p][h] = 0]
    BY <1>5 DEF Admit, Refuse
  <2>2. \A x \in inflight' \ inflight :
           x.group = h /\ x.epoch = row[h].epoch /\ LeaseOk(h, p, carried[p][h])
    BY <1>5 DEF Admit, Refuse, LeaseOk
  <2>3. Overtaken(g, e)
    <3>1. PICK x \in inflight' : x.group = g /\ x.epoch < e
      BY DEF Overtaken
    <3>2. x \in inflight
      BY <1>2, <2>2, <3>1
    <3> QED BY <1>2, <3>1, <3>2 DEF Overtaken
  <2>4. \A x \in inflight' : x.group = g => x \in inflight
    BY <2>2, <2>3 DEF Holds
  <2>5. ASSUME NEW q \in Pods, LeaseOk(g, q, carried[q][g])' PROVE FALSE
    <3>1. carried'[q][g] \in {0, carried[q][g]}
      BY <2>1 DEF FWInv, FWTypeOK
    <3>2. carried'[q][g] # 0
      BY <1>1, <1>2, <2>5, WriteNumbers DEF LeaseOk
    <3> QED BY <1>1, <2>3, <2>5, <3>1, <3>2 DEF Holds, LeaseOk
  <2> QED BY <1>1, <2>1, <2>3, <2>4, <2>5 DEF Holds
<1> QED BY <1>3, <1>4, <1>5 DEF WriteSide

\* The steps of a behaviour without an early release keep it so.
LEMMA HoldsStep ==
  FWInv /\ MemoryInv /\ OrderInv /\ HoldsInv /\ [FWNext]_fwVars
    /\ [\A g \in Users : ReleasedSettled(g)]_fwVars => HoldsInv'
<1> SUFFICES ASSUME FWInv, MemoryInv, OrderInv, HoldsInv, [FWNext]_fwVars,
                    [\A g \in Users : ReleasedSettled(g)]_fwVars,
                    NEW g \in Users, NEW e \in Nat, Overtaken(g, e)'
             PROVE  Holds(g, e)'
  BY DEF HoldsInv
<1>1. Overtaken(g, e) => Holds(g, e)
  BY DEF HoldsInv
<1>2. ReleasedSettled(g)
  <2>1. CASE UNCHANGED fwVars
    BY <2>1 DEF fwVars, vars, ReleasedSettled
  <2> QED BY <2>1
<1>3. CASE LeaseStep \/ (\E p \in Pods : DownW(p)) \/ UNCHANGED fwVars
  <2>1. LeaseSide
    BY <1>3, LeaseSides DEF FWInv, IInv
  <2> QED BY <1>1, <1>2, <2>1, LeaseHolds
<1>4. CASE TickW
  BY <1>1, <1>4, TickHolds
<1>5. CASE WriteSide \/ EndSide
  BY <1>1, <1>5, WritesHold
<1> QED BY <1>3, <1>4, <1>5 DEF FWNext, WriteSide, EndSide

\* The promise of fence.go that the run refutes, an old owner's last commit being
\* covered by the next one's warm-up, holds where every stolen group is released by a
\* pod that was past its warm-up: the early release is all that breaks it.
THEOREM OrderNeedsSettledRelease ==
  ASSUME Remembers
  PROVE  FWSpec /\ [][\A g \in Users : ReleasedSettled(g)]_fwVars => OrderAcrossSteal
<1>1. FWSpec => []MemoryInv
  BY InitMemory, MemoryStep, WritesInvariance, PTL DEF FWSpec
<1>2. FWSpec => []OrderInv
  BY <1>1, InitOrder, OrderStep, WritesInvariance, PTL DEF FWSpec
<1>3. FWInit => HoldsInv
  BY DEF FWInit, HoldsInv, Overtaken
<1>4. FWInv /\ HoldsInv /\ [FWNext]_fwVars =>
        [\A g \in Users, e \in Epochs :
           e \in stolen[g] => ~ (last'[g] < e /\ e <= last[g])]_fwVars
  <2> SUFFICES ASSUME FWInv, HoldsInv, FWNext, NEW g \in Users, NEW e \in Epochs,
                      e \in stolen[g], last'[g] < e, e <= last[g]
               PROVE  FALSE
    OBVIOUS
  <2>1. last[g] \in Nat /\ e \in Nat /\ last \in [Users -> Epochs]
    BY WriteNumbers, AssumptionsHold DEF Assumptions, Epochs
  <2>2. PICK w \in inflight : Commit(w)
    BY <2>1 DEF FWNext, LeaseStep, DownW, TickW, StartWrite, Admit, Refuse, Abort
  <2>3. w.group = g /\ w.epoch < e
    BY <2>1, <2>2 DEF Commit
  <2> QED BY <2>1, <2>2, <2>3 DEF HoldsInv, Overtaken, Holds
<1> QED BY <1>1, <1>2, <1>3, <1>4, HoldsStep, WritesInvariance, PTL
        DEF FWSpec, OrderAcrossSteal

-----------------------------------------------------------------------------
\* The writes run beside the lease and change nothing of it: whatever was proved of
\* the lease holds with them, its refinement of the ownership too.
THEOREM WritesLeaveTheLease == FWSpec => Spec /\ OwnershipHolds
<1>1. FWInit => Init
  BY DEF FWInit
<1>2. FWSpec => Spec
  BY <1>1, LeaseUnder, PTL DEF FWSpec, Spec
<1> QED BY <1>2, ImplementsOwnership
=============================================================================
