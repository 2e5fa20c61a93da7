------------------------------ MODULE FairShare ------------------------------
(***************************************************************************)
(* Who takes and who sheds a user group in lead mode (groups_lead.go,      *)
(* Coordinator.chooseShed): each pod takes free groups up to its fair      *)
(* share, sheds one idle group per pass while it is over it, and leaves a  *)
(* group just released to the newest generation for a while.               *)
(*                                                                         *)
(* GroupLease models the lease itself statement by statement, with any     *)
(* choice of what to take and shed; here the choice is exact and the       *)
(* statements of a pass are three steps: Look (register, live pods, count),*)
(* Take (renew, acquire, choose what to give) and Give (stop, release).    *)
(* What was looked at may be stale by the time it is used.                 *)
(*                                                                         *)
(* A tick is one reconcile interval (5 s): every running pod makes one pass*)
(* in it.  All rows of a pod are renewed by one statement, so the age of   *)
(* its renew is kept per pod.                                              *)
(***************************************************************************)
EXTENDS Integers, FiniteSets, FiniteSetsExt

CONSTANTS
    Pods,       \* pod ids (a pod name is used once: they change on a rollout)
    NoPod,
    Gen,        \* pod -> generation (pod-template-hash)
    Groups,     \* groups that may have a stored session
    Signing,    \* those whose session may be stored or removed meanwhile
    Driven,     \* the groups whose vehicles may have an open drive or charge
    TTL,        \* ticks a row lives after a renew (30 s)
    Window,     \* ticks a pod counts as live after it was seen (15 s)
    Grace,      \* ticks a released group is the newest generation's (10 s)
    MaxPerTick  \* maxGroupsPerTick

ASSUME FSPodsAssumption == NoPod \notin Pods /\ IsFiniteSet(Pods)
ASSUME FSGroupsAssumption ==
    IsFiniteSet(Groups) /\ Driven \subseteq Groups /\ Signing \subseteq Groups
ASSUME FSGenAssumption == Gen \in [Pods -> Nat]
ASSUME FSTimingAssumption ==
    TTL \in Nat /\ Window \in Nat /\ Grace \in Nat /\ MaxPerTick \in Nat \ {0}

VARIABLES
    life,     \* pod -> "waiting", "up" or "gone"
    draining, \* pods that drain (Store.draining and lease_pods.draining)
    started,  \* pod -> order of lease_pods.started_at, 0 for no row
    seen,     \* pod -> ticks since lease_pods.seen_at, saturating
    renewed,  \* pod -> ticks since its rows were renewed, saturating
    holder,   \* group -> account_leases.pod_id
    freed,    \* group -> ticks since released_at, saturating; ahead if the row ends sooner
    cand,     \* groups with a stored Rivian session
    busy,     \* groups with an open drive or charge
    view,     \* pod -> what its pass has seen: [pc, share, newest, give]
    passed    \* pods that made their pass in this tick

envVars == <<life, draining, cand, busy>>
fsVars == <<envVars, started, seen, renewed, holder, freed, view, passed>>

Smaller(a, b) == IF a < b THEN a ELSE b
Resting == [pc |-> "idle", share |-> 0, newest |-> FALSE, give |-> {}]

Up == {p \in Pods : life[p] = "up"}
Serving == Up \ draining
Holds(p) == {g \in Groups : holder[g] = p}

-----------------------------------------------------------------------------
fairShare(groups, pods) ==
    LET n == IF pods < 1 THEN 1 ELSE pods IN (groups + n - 1) \div n + 1

\* livePods, as p sees them right after it registered.
Live(p) == {q \in Pods : q = p \/ (started[q] # 0 /\ seen[q] <= Window)}

\* When p's row was or would be created: after every row there is.
StartOf(p) == IF started[p] # 0 THEN started[p]
              ELSE 1 + Max({started[q] : q \in Pods})
StartedAt(p, q) == IF q = p THEN StartOf(p) ELSE started[q]

\* The first start of a generation among the pods of L.
FirstStart(p, L, v) == Min({StartedAt(p, q) : q \in {r \in L : Gen[r] = v}})

\* newestGeneration: no live, non-draining pod is of a generation whose first
\* start is later than that of p's.  (A draining pod is not looked at; if it is
\* the last of its generation, p's is not the newest.)
IsNewest(p) ==
    LET L == Live(p) \ draining
    IN L = {} \/ \E q \in L : Gen[q] = Gen[p] /\
          \A r \in L : FirstStart(p, L, Gen[r]) <= FirstStart(p, L, Gen[p])

\* Deviation: a row that says it is held is never free.
FreeIfReleased(p) ==
    {g \in cand : holder[g] = NoPod /\ (view[p].newest \/ freed[g] > Grace)}

\* A release leaves expires_at: a row of p that runs out within the grace is free to all
\* from then on.
Released(p) == IF renewed[p] + Grace <= TTL THEN 0 ELSE renewed[p] + Grace - TTL

\* What the acquire may take: no row or an expired one, or a released one once
\* the newest generation has had its chance.
Free(p) ==
    {g \in cand : IF holder[g] = NoPod THEN view[p].newest \/ freed[g] > Grace
                  ELSE renewed[holder[g]] > TTL}

\* Deviation: off by one, a pod with one group too many keeps it.
ToleratesOneMore(p, kept) ==
    IF Cardinality(kept) <= view[p].share + 1 \/ p \in draining THEN {}
    ELSE kept \ busy

\* chooseShed: which of the kept groups may be shed in this pass, if any.
MayShed(p, kept) ==
    IF Cardinality(kept) <= view[p].share \/ p \in draining THEN {} ELSE kept \ busy

-----------------------------------------------------------------------------
FSInit ==
    /\ life = [p \in Pods |-> "waiting"]
    /\ draining = {}
    /\ started = [p \in Pods |-> 0]
    /\ seen = [p \in Pods |-> Window + 1]
    /\ renewed = [p \in Pods |-> TTL + 1]
    /\ holder = [g \in Groups |-> NoPod]
    /\ freed = [g \in Groups |-> Grace + 1]
    /\ \E S \in SUBSET Signing : cand = (Groups \ Signing) \cup S
    /\ busy = {}
    /\ view = [p \in Pods |-> Resting]
    /\ passed = {}

Look(p) ==
    /\ p \in Up \ passed /\ view[p].pc = "idle"
    /\ started' = [started EXCEPT ![p] = StartOf(p)]
    /\ seen' = [seen EXCEPT ![p] = 0]
    /\ view' = [view EXCEPT ![p] =
                  [pc |-> "take", newest |-> IsNewest(p), give |-> {},
                   share |-> fairShare(Cardinality(cand),
                                       Cardinality(Live(p) \ draining))]]
    /\ UNCHANGED <<envVars, renewed, holder, freed, passed>>

\* Renew what p holds, acquire up to the share, choose what to give back: the
\* groups that are no longer candidates and at most one to shed.
Take(p) ==
    /\ p \in Up /\ view[p].pc = "take"
    /\ LET mine == Holds(p) \cap cand
           want == view[p].share - Cardinality(mine)
           room == IF want <= 0 \/ p \in draining THEN 0
                   ELSE Smaller(want, MaxPerTick)
       IN \E S \in kSubset(Smaller(room, Cardinality(Free(p))), Free(p)) :
          LET kept == mine \cup S
          IN \E shed \in IF MayShed(p, kept) = {} THEN {{}}
                         ELSE {{g} : g \in MayShed(p, kept)} :
             /\ holder' = [g \in Groups |-> IF g \in S THEN p ELSE holder[g]]
             /\ freed' = [g \in Groups |-> IF g \in S THEN Grace + 1 ELSE freed[g]]
             /\ view' = [view EXCEPT ![p] = [Resting EXCEPT
                           !.pc = "give", !.give = (Holds(p) \ cand) \cup shed]]
    /\ renewed' = [renewed EXCEPT ![p] = 0]
    /\ UNCHANGED <<envVars, started, seen, passed>>

Give(p) ==
    /\ p \in Up /\ view[p].pc = "give"
    /\ holder' = [g \in Groups |-> IF g \in view[p].give THEN NoPod ELSE holder[g]]
    /\ freed' = [g \in Groups |-> IF g \in view[p].give THEN Released(p) ELSE freed[g]]
    /\ view' = [view EXCEPT ![p] = Resting]
    /\ passed' = passed \cup {p}
    /\ UNCHANGED <<envVars, started, seen, renewed>>

\* The clock moves on when every running pod has made its pass.
TickF ==
    /\ Up \subseteq passed
    /\ seen' = [p \in Pods |-> Smaller(seen[p] + 1, Window + 1)]
    /\ renewed' = [p \in Pods |-> Smaller(renewed[p] + 1, TTL + 1)]
    /\ freed' = [g \in Groups |-> Smaller(freed[g] + 1, Grace + 1)]
    /\ passed' = {}
    /\ UNCHANGED <<envVars, started, holder, view>>

-----------------------------------------------------------------------------
Join(p) ==
    /\ life[p] = "waiting"
    /\ life' = [life EXCEPT ![p] = "up"]
    /\ UNCHANGED <<draining, cand, busy, started, seen, renewed, holder, freed,
                   view, passed>>

\* Deviation: the UPDATE of lease_pods without its WHERE marks every row.
DrainsEveryRow(p) ==
    /\ p \in Serving
    /\ draining' = draining \cup {p} \cup {q \in Pods : started[q] # 0}
    /\ UNCHANGED <<life, cand, busy, started, seen, renewed, holder, freed,
                   view, passed>>

\* The preStop hook (MarkDraining).
Drain(p) ==
    /\ p \in Serving
    /\ draining' = draining \cup {p}
    /\ UNCHANGED <<life, cand, busy, started, seen, renewed, holder, freed,
                   view, passed>>

\* The pod is gone: its memory and nothing else.
Gone(p) ==
    /\ life' = [life EXCEPT ![p] = "gone"]
    /\ draining' = draining \ {p}
    /\ view' = [view EXCEPT ![p] = Resting]
    /\ passed' = passed \ {p}
    /\ UNCHANGED <<cand, busy, renewed>>

\* Coordinator.Shutdown: the rows are released and the pod's own row deleted.
Leave(p) ==
    /\ p \in Up \cap draining
    /\ holder' = [g \in Groups |-> IF holder[g] = p THEN NoPod ELSE holder[g]]
    /\ freed' = [g \in Groups |-> IF holder[g] = p THEN Released(p) ELSE freed[g]]
    /\ started' = [started EXCEPT ![p] = 0]
    /\ seen' = [seen EXCEPT ![p] = Window + 1]
    /\ Gone(p)

Crash(p) ==
    /\ p \in Up
    /\ UNCHANGED <<started, seen, holder, freed>>
    /\ Gone(p)

SignInOrOutF(g) ==
    /\ cand' = IF g \in cand THEN cand \ {g} ELSE cand \cup {g}
    /\ UNCHANGED <<life, draining, busy, started, seen, renewed, holder, freed,
                   view, passed>>

\* A drive or charge opens or closes.
Session(g) ==
    /\ busy' = IF g \in busy THEN busy \ {g} ELSE busy \cup {g}
    /\ UNCHANGED <<life, draining, cand, started, seen, renewed, holder, freed,
                   view, passed>>

Pass(p) == Look(p) \/ Take(p) \/ Give(p)

Environment ==
    \/ \E p \in Pods : Join(p) \/ Drain(p) \/ Crash(p)
    \/ \E g \in Signing : SignInOrOutF(g)
    \/ \E g \in Driven : Session(g)

FSNext == Environment \/ TickF \/ \E p \in Pods : Pass(p) \/ Leave(p)

\* The coordinator's timer fires, its passes end (they are bounded by their
\* statement timeouts), and a pod told to drain is then terminated.
FSFairness ==
    /\ \A p \in Pods : WF_fsVars(Pass(p)) /\ WF_fsVars(Leave(p))
    /\ WF_fsVars(TickF)

FSSpec == FSInit /\ [][FSNext]_fsVars /\ FSFairness

-----------------------------------------------------------------------------
\* Every variable stays in its type; only a running pod is marked as draining or
\* has made a pass.
FSTypeOK ==
    /\ life \in [Pods -> {"waiting", "up", "gone"}]
    /\ draining \subseteq Up
    /\ started \in [Pods -> Nat]
    /\ seen \in [Pods -> 0 .. Window + 1]
    /\ renewed \in [Pods -> 0 .. TTL + 1]
    /\ holder \in [Groups -> Pods \cup {NoPod}]
    /\ freed \in [Groups -> 0 .. Grace + 1]
    /\ cand \subseteq Groups /\ busy \subseteq Driven
    /\ view \in [Pods -> [pc : {"idle", "take", "give"}, share : Nat,
                          newest : BOOLEAN, give : SUBSET Groups]]
    /\ passed \subseteq Up

\* The pods, the sessions and the drives stop changing.
Quiet == <>[][UNCHANGED envVars]_fsVars

\* While anybody serves, every candidate group ends up held by a serving pod
\* and stays there: no group is left out by the shares, the grace or a dead
\* pod's rows, and none is shed and taken for ever.
Served == Quiet => <>[](Serving # {} => \A g \in cand : holder[g] \in Serving)

\* The pods end up within the fair share, but for groups that are all busy.
Balanced ==
    Quiet => <>[](\A p \in Serving :
        \/ Cardinality(Holds(p)) <= fairShare(Cardinality(cand), Cardinality(Serving))
        \/ Holds(p) \subseteq busy)
=============================================================================
