---------------------------- MODULE VehicleLease ----------------------------
(***************************************************************************)
(* The vehicle leases (internal/leases, lead mode off) and the connections *)
(* they stand for: one subscription_leases row per vehicle, the            *)
(* coordinator's reconcile pass of every pod, and the state monitor that   *)
(* the coordinator tells to subscribe and unsubscribe.                     *)
(*                                                                         *)
(* Each statement of a pass is an action; so are the two halves of a       *)
(* hand-off (stop the subscription, release the row) and the parts of the  *)
(* acquire transaction, whose write nobody sees before it commits.         *)
(*                                                                         *)
(* Time is discrete, as in GroupLease: a row counts down to -1, a pod's    *)
(* renew ages from when it was sent.  A pass may take any time: its        *)
(* callbacks have timeouts of their own and are not under its budget.      *)
(*                                                                         *)
(* All vehicles here are of one user group, the case the rules are about.  *)
(***************************************************************************)
EXTENDS Integers, FiniteSets

CONSTANTS
    Pods,      \* pod ids, ordered
    NoPod,     \* no subscription_leases row
    Vehicles,  \* the vehicles of one user group
    NoVehicle,
    TTL,       \* ticks a renew gives a row (2 min)
    FenceAt,   \* ticks without a good renew after which a pod fences itself
    Faults     \* which of VLFaultKinds may happen: what a run is about

VLFaultKinds == {"late", "crash", "fail", "lost", "sign_out", "run_ends", "slow_stop"}

ASSUME VLPodsAssumption == Pods \subseteq Nat /\ NoPod \notin Pods
ASSUME VLVehiclesAssumption == NoVehicle \notin Vehicles
ASSUME VLTimingAssumption == TTL \in Nat /\ FenceAt \in Nat /\ FenceAt <= TTL
ASSUME VLFaultsAssumption == Faults \subseteq VLFaultKinds

VARIABLES
    lease,    \* vehicle -> its row [pod, left]
    lock,     \* the pod holding the group's advisory locks, or NoPod
    signedIn, \* vehicles whose owner has a stored session (authoritative)
    stat,     \* pod -> "up", "closing" (SIGTERM), "released", "down"
    owned,    \* pod -> Coordinator.owned
    active,   \* pod -> vehicles with a StateMonitor.active entry
    running,  \* pod -> vehicles whose run goroutine has a connection up
    renewAge, \* pod -> ticks since Coordinator.lastRenew, saturating
    pass      \* pod -> the reconcile under way [pc, age, set, v]

podVarsV == <<stat, owned, active, running, renewAge, pass>>
vlVars == <<lease, lock, signedIn, podVarsV>>

AgeCapV == TTL + 1
IdleV == [pc |-> "idle", age |-> 0, set |-> {}, v |-> NoVehicle]
NoRow == [pod |-> NoPod, left |-> -1]
Lower(a, b) == IF a < b THEN a ELSE b

AliveV(p) == stat[p] # "down"
Closing(p) == stat[p] \in {"closing", "released"}
RowsOf(p) == {v \in Vehicles : lease[v].pod = p}
Without(S) == [v \in Vehicles |-> IF v \in S THEN NoRow ELSE lease[v]]
At(p, pc) == AliveV(p) /\ pass[p].pc = pc

\* The statements whose start is remembered: the renew and the acquire.
Timed == {"renew", "lost", "begin", "locked", "commit"}
Goto(p, pc, set, v) ==
    pass' = [pass EXCEPT ![p] =
               [pc |-> pc, age |-> IF pc \in Timed THEN @.age ELSE 0,
                set |-> set, v |-> v]]

\* expires_at is now() + TTL, and now() is when the transaction began, not when
\* its statement got the locks it waited for.
LeftAfter(waited) == IF waited > TTL THEN -1 ELSE TTL - waited

\* A statement fails when a call may fail, or because SIGTERM cancelled its context.
MayFail(p) == "fail" \in Faults \/ Closing(p)

\* "lost" is the part of "fail" that one step shows: a renew or an acquire fails,
\* or only its reply is lost.
MayBeLost(p) == "lost" \in Faults \/ MayFail(p)

\* Deviation: a renew that adds to what is left instead of starting again.
AddsUp(p, waited) ==
    [v \in Vehicles |-> IF v \in RowsOf(p)
                        THEN [lease[v] EXCEPT !.left = @ + TTL] ELSE lease[v]]

\* The renew UPDATE: every row with my pod id, expired or not.
RenewedV(p, waited) ==
    [v \in Vehicles |-> IF v \in RowsOf(p)
                        THEN [lease[v] EXCEPT !.left = LeftAfter(waited)] ELSE lease[v]]

\* Rows that an acquire has written but not committed: an UPDATE waits for them.
Written == {pass[q].v : q \in {r \in Pods : At(r, "commit")}}

\* Deviation: nobody gives anything up.
NeverSplit(p) == {}

\* SplitVehicles: mine, while a lower pod has a live lease on a sibling.
SplitOf(p) == {v \in RowsOf(p) : \E w \in Vehicles \ {v} :
                  lease[w].pod # NoPod /\ lease[w].pod < p /\ lease[w].left > 0}

\* Deviation: the check and the insert without the advisory lock.
NoLock(p) == TRUE

\* pg_advisory_xact_lock of every user of the group.
LockFree(p) == lock = NoPod

\* The acquire's two predicates: no sibling of the group is live on another pod,
\* and the row is absent, expired or mine.
MayInsert(p, v) ==
    /\ \A w \in Vehicles \ {v} : lease[w].pod \in {NoPod, p} \/ lease[w].left <= 0
    /\ lease[v].pod \in {NoPod, p} \/ lease[v].left < 0

(***************************************************************************)
(* What the coordinator asks of the monitor.                               *)
(***************************************************************************)
\* Deviation: a held lease whose subscription ended is left alone.
Nothing(p) == {}

\* healUnstreamed: held and not streaming.
Unstreamed(p) == owned[p] \ active[p]

\* EnsureSubscribed of each vehicle of S.
Subscribe(p, S) ==
    /\ active' = [active EXCEPT ![p] = @ \cup S]
    /\ running' = [running EXCEPT ![p] = @ \cup S]

\* Unsubscribe of each vehicle of S: the entry goes now, the run is cancelled
\* and ends by itself.
Unsubscribe(p, S) ==
    /\ active' = [active EXCEPT ![p] = @ \ S]
    /\ running' = IF "slow_stop" \in Faults THEN running
                  ELSE [running EXCEPT ![p] = @ \ S]

\* Streaming: is there an entry?
Streaming(p, v) == v \in active[p]

-----------------------------------------------------------------------------
\* Any leases that an earlier deployment may have left, split or not.
VLInit ==
    /\ lease \in [Vehicles -> {NoRow} \cup [pod : Pods, left : {TTL}]]
    /\ lock = NoPod
    /\ signedIn = Vehicles
    /\ stat = [p \in Pods |-> "up"]
    /\ owned = [p \in Pods |-> {}]
    /\ active = [p \in Pods |-> {}]
    /\ running = [p \in Pods |-> {}]
    /\ renewAge = [p \in Pods |-> 0]
    /\ pass = [p \in Pods |-> IdleV]

(***************************************************************************)
(* The reconcile pass.                                                     *)
(***************************************************************************)
Start(p) ==
    /\ stat[p] = "up" /\ pass[p].pc = "idle"
    /\ pass' = [pass EXCEPT ![p] = [IdleV EXCEPT !.pc = "renew"]]
    /\ UNCHANGED <<lease, lock, signedIn, stat, owned, active, running, renewAge>>

Renew(p) ==
    /\ At(p, "renew") /\ Written \cap RowsOf(p) = {}
    /\ \E waited \in 0 .. pass[p].age : lease' = RenewedV(p, waited)
    /\ Goto(p, "lost", RowsOf(p), NoVehicle)
    /\ UNCHANGED <<lock, signedIn, stat, owned, active, running, renewAge>>

\* A renew that failed, or whose reply was lost.  Nothing is given up until the
\* leases could have run out; pastFence is only looked at here.
RenewFail(p) ==
    /\ MayBeLost(p) /\ At(p, "renew")
    /\ \/ Written \cap RowsOf(p) = {} /\ lease' = RenewedV(p, 0)
       \/ UNCHANGED lease
    /\ pass' = [pass EXCEPT ![p] = IdleV]
    /\ IF renewAge[p] >= FenceAt
       THEN owned' = [owned EXCEPT ![p] = {}] /\ Unsubscribe(p, owned[p])
       ELSE UNCHANGED <<owned, active, running>>
    /\ UNCHANGED <<lock, signedIn, stat, renewAge>>

\* Deviation: the age of the renew counted from its reply.
FromReply(p) == 0

\* lastRenew counts from when the renew was sent.
FromSend(p) == pass[p].age

\* What the renew did not return was lost: stopped.  What it did is owned, but
\* for vehicles that nobody may stream any more, which are reaped: released
\* (those whose DELETE works) ...
Lost(p) ==
    /\ At(p, "lost")
    /\ \E orphans \in SUBSET (pass[p].set \ signedIn) :
       /\ MayFail(p) \/ orphans = pass[p].set \ signedIn
       /\ lease' = Without(orphans \cap RowsOf(p))
       /\ owned' = [owned EXCEPT ![p] = pass[p].set \ orphans]
       /\ Unsubscribe(p, owned[p] \ pass[p].set)
       /\ Goto(p, "reaped", orphans, NoVehicle)
    /\ renewAge' = [renewAge EXCEPT ![p] = FromSend(p)]
    /\ UNCHANGED <<lock, signedIn, stat>>

\* ... and only then stopped.  Then the splits are looked for; when that fails, or
\* in a shutdown, nothing is given up.
Split(p) ==
    /\ At(p, "reaped")
    /\ Unsubscribe(p, pass[p].set)
    /\ \/ ~ Closing(p) /\ Goto(p, "give", SplitOf(p), NoVehicle)
       \/ MayFail(p) /\ Goto(p, "give", {}, NoVehicle)
    /\ UNCHANGED <<lease, lock, signedIn, stat, owned, renewAge>>

\* healSplitUsers, one vehicle: stop ...
StopGiven(p, v) ==
    /\ At(p, "give") /\ v \in pass[p].set \cap owned[p] /\ pass[p].v = NoVehicle
    /\ Unsubscribe(p, {v})
    /\ Goto(p, "give", pass[p].set, v)
    /\ UNCHANGED <<lease, lock, signedIn, stat, owned, renewAge>>

\* ... wait until it does not stream (waitStopped), and release the row; if the
\* DELETE fails the vehicle stays owned.
ReleaseGiven(p) ==
    /\ At(p, "give") /\ pass[p].v # NoVehicle
    /\ ~ Streaming(p, pass[p].v)
    /\ \/ /\ lease' = Without({pass[p].v} \cap RowsOf(p))
          /\ owned' = [owned EXCEPT ![p] = @ \ {pass[p].v}]
       \/ MayFail(p) /\ UNCHANGED <<lease, owned>>
    /\ Goto(p, "give", pass[p].set \ {pass[p].v}, NoVehicle)
    /\ UNCHANGED <<lock, signedIn, stat, active, running, renewAge>>

\* The vehicles a pass may acquire: those the authoritative list names.  The list
\* was read before the hand-offs; if that failed, every vehicle there is will do.
\* None when the list of vehicles fails.
Listed(p) ==
    {signedIn} \cup (IF MayFail(p) THEN {{}, Vehicles} ELSE {})
               \cup (IF "sign_out" \in Faults THEN {Vehicles} ELSE {})

\* healUnstreamed, not while closing; then the vehicles to acquire are listed.
Heal(p) ==
    /\ At(p, "give") /\ pass[p].v = NoVehicle /\ pass[p].set \cap owned[p] = {}
    /\ IF Closing(p) THEN UNCHANGED <<active, running>>
       ELSE Subscribe(p, Unstreamed(p))
    /\ \E S \in Listed(p) : Goto(p, "acquire", S \ owned[p], NoVehicle)
    /\ UNCHANGED <<lease, lock, signedIn, stat, owned, renewAge>>

\* One acquire transaction: it begins ...
Begin(p, v) ==
    /\ At(p, "acquire") /\ stat[p] = "up" /\ v \in pass[p].set
    /\ pass' = [pass EXCEPT ![p] = [pc |-> "begin", age |-> 0,
                                    set |-> pass[p].set \ {v}, v |-> v]]
    /\ UNCHANGED <<lease, lock, signedIn, stat, owned, active, running, renewAge>>

\* ... gets the lock ...
LockGroup(p) ==
    /\ At(p, "begin") /\ LockFree(p)
    /\ lock' = p
    /\ Goto(p, "locked", pass[p].set, pass[p].v)
    /\ UNCHANGED <<lease, signedIn, stat, owned, active, running, renewAge>>

\* ... the insert, refused or written but not yet visible (its now() is that of
\* the begin, so it may also refuse what ran out since: the next pass sees it) ...
Insert(p) ==
    /\ At(p, "locked")
    /\ \/ /\ MayInsert(p, pass[p].v)
          /\ Goto(p, "commit", pass[p].set, pass[p].v)
          /\ UNCHANGED lock
       \/ /\ ~ MayInsert(p, pass[p].v)
          /\ Goto(p, "acquire", pass[p].set, NoVehicle)
          /\ lock' = IF lock = p THEN NoPod ELSE lock
    /\ UNCHANGED <<lease, signedIn, stat, owned, active, running, renewAge>>

\* ... and the commit: the vehicle is owned and subscribed, or released again
\* because a shutdown has begun.  (One that begins between the two has cancelled the
\* context that every run derives from, so what is subscribed then never connects.)
Commit(p) ==
    /\ At(p, "commit")
    /\ lock' = IF lock = p THEN NoPod ELSE lock
    /\ LET v == pass[p].v
           row == [pod |-> p, left |-> LeftAfter(pass[p].age)]
       IN IF Closing(p)
          THEN /\ \/ lease' = Without({v})
                  \/ lease' = [lease EXCEPT ![v] = row]
               /\ Goto(p, "acquire", {}, NoVehicle)
               /\ UNCHANGED <<owned, active, running>>
          ELSE /\ lease' = [lease EXCEPT ![v] = row]
               /\ owned' = [owned EXCEPT ![p] = @ \cup {v}]
               /\ Subscribe(p, {v})
               /\ Goto(p, "acquire", pass[p].set, NoVehicle)
    /\ UNCHANGED <<signedIn, stat, renewAge>>

\* The transaction fails, with or without its commit having happened.  (One that fails
\* where it would have been refused is Insert's step.)
AcquireFail(p) ==
    /\ MayBeLost(p)
    /\ At(p, "begin") \/ (At(p, "locked") /\ MayInsert(p, pass[p].v)) \/ At(p, "commit")
    /\ lock' = IF lock = p THEN NoPod ELSE lock
    /\ \/ UNCHANGED lease
       \/ pass[p].pc = "commit" /\
          lease' = [lease EXCEPT ![pass[p].v] =
                        [pod |-> p, left |-> LeftAfter(pass[p].age)]]
    /\ Goto(p, "acquire", pass[p].set, NoVehicle)
    /\ UNCHANGED <<signedIn, stat, owned, active, running, renewAge>>

End(p) ==
    /\ At(p, "acquire") /\ (pass[p].set = {} \/ Closing(p))
    /\ pass' = [pass EXCEPT ![p] = IdleV]
    /\ UNCHANGED <<lease, lock, signedIn, stat, owned, active, running, renewAge>>

(***************************************************************************)
(* Shutdown, crash, the monitor and the clock.                             *)
(***************************************************************************)
\* SIGTERM cancels the pod's context, so a pass under way fails at its next
\* statement if that was not already done.  Coordinator.Shutdown: no more
\* acquiring; every subscription is stopped ...
CloseV(p) ==
    /\ stat[p] = "up"
    /\ stat' = [stat EXCEPT ![p] = "closing"]
    /\ Unsubscribe(p, owned[p])
    /\ UNCHANGED <<lease, lock, signedIn, owned, renewAge, pass>>

\* ... and, once none of them streams (waitAllStopped), every row is deleted,
\* unless the DELETE fails.
ReleaseAllV(p) ==
    /\ stat[p] = "closing"
    /\ stat' = [stat EXCEPT ![p] = "released"]
    /\ \/ lease' = Without(RowsOf(p))
       \/ "fail" \in Faults /\ UNCHANGED lease
    /\ owned' = [owned EXCEPT ![p] = {}]
    /\ UNCHANGED <<lock, signedIn, active, running, renewAge, pass>>

\* The process exits or crashes: its memory, connections and locks are gone.
ExitV(p) ==
    /\ stat[p] = "released" \/ ("crash" \in Faults /\ AliveV(p))
    /\ stat' = [stat EXCEPT ![p] = "down"]
    /\ lock' = IF lock = p THEN NoPod ELSE lock
    /\ owned' = [owned EXCEPT ![p] = {}]
    /\ active' = [active EXCEPT ![p] = {}]
    /\ running' = [running EXCEPT ![p] = {}]
    /\ renewAge' = [renewAge EXCEPT ![p] = 0]
    /\ pass' = [pass EXCEPT ![p] = IdleV]
    /\ UNCHANGED <<lease, signedIn>>

\* A cancelled run ends: its connection is closed.
RunStops(p, v) ==
    /\ v \in running[p] \ active[p]
    /\ running' = [running EXCEPT ![p] = @ \ {v}]
    /\ UNCHANGED <<lease, lock, signedIn, stat, owned, active, renewAge, pass>>

\* A run ends by itself (a rejected session) and gives its entry up.
RunEnds(p, v) ==
    /\ "run_ends" \in Faults /\ v \in active[p]
    /\ active' = [active EXCEPT ![p] = @ \ {v}]
    /\ running' = [running EXCEPT ![p] = @ \ {v}]
    /\ UNCHANGED <<lease, lock, signedIn, stat, owned, renewAge, pass>>

SignOutV(v) ==
    /\ "sign_out" \in Faults
    /\ signedIn' = IF v \in signedIn THEN signedIn \ {v} ELSE signedIn \cup {v}
    /\ UNCHANGED <<lease, lock, podVarsV>>

\* Unless renews (and exits) may be late, they are not: the clock waits for them.
TickV ==
    /\ "late" \in Faults \/ \A p \in Pods : AliveV(p) => renewAge[p] < FenceAt
    /\ lease' = [v \in Vehicles |-> [lease[v] EXCEPT
                    !.left = IF @ < 0 THEN -1 ELSE @ - 1]]
    /\ renewAge' = [p \in Pods |-> IF AliveV(p) THEN Lower(renewAge[p] + 1, AgeCapV)
                                   ELSE 0]
    /\ pass' = [p \in Pods |-> IF pass[p].pc \in Timed
                  THEN [pass[p] EXCEPT !.age = Lower(@ + 1, AgeCapV)] ELSE pass[p]]
    /\ UNCHANGED <<lock, signedIn, stat, owned, active, running>>

Steps(p) ==
    \/ Start(p) \/ Renew(p) \/ Lost(p) \/ Split(p)
    \/ (\E v \in Vehicles : StopGiven(p, v)) \/ ReleaseGiven(p) \/ Heal(p)
    \/ (\E v \in Vehicles : Begin(p, v)) \/ LockGroup(p) \/ Insert(p) \/ Commit(p)
    \/ End(p)

Shutdown(p) == ReleaseAllV(p) \/ (stat[p] = "released" /\ ExitV(p))

\* What disturbs the pods from outside.
Disturbance ==
    \/ \E p \in Pods : RenewFail(p) \/ AcquireFail(p) \/ CloseV(p) \/ ExitV(p)
    \/ \E p \in Pods, v \in Vehicles : RunEnds(p, v)
    \/ \E v \in Vehicles : SignOutV(v)

VLNext ==
    \/ \E p \in Pods : Steps(p) \/ ReleaseAllV(p)
    \/ \E p \in Pods, v \in Vehicles : RunStops(p, v)
    \/ Disturbance
    \/ TickV

\* The reconcile timer fires and every call has a timeout; a pod told to stop is
\* gone in the end.  A waiter gets the advisory lock: the server queues them.
VLFairness ==
    /\ \A p \in Pods : WF_vlVars(Steps(p)) /\ WF_vlVars(Shutdown(p))
    /\ \A p \in Pods : SF_vlVars(LockGroup(p))
    /\ WF_vlVars(TickV)

VLSpec == VLInit /\ [][VLNext]_vlVars /\ VLFairness

-----------------------------------------------------------------------------
VLPassPCs == {"idle", "renew", "lost", "reaped", "give", "acquire",
              "begin", "locked", "commit"}

\* Every variable stays in its type: rows and ages within a TTL, whatever a late
\* renew or a wait for the locks makes of them.
VLTypeOK ==
    /\ lease \in [Vehicles -> [pod : Pods \cup {NoPod}, left : -1 .. TTL]]
    /\ lock \in Pods \cup {NoPod}
    /\ signedIn \subseteq Vehicles
    /\ stat \in [Pods -> {"up", "closing", "released", "down"}]
    /\ owned \in [Pods -> SUBSET Vehicles]
    /\ active \in [Pods -> SUBSET Vehicles]
    /\ running \in [Pods -> SUBSET Vehicles]
    /\ renewAge \in [Pods -> 0 .. AgeCapV]
    /\ pass \in [Pods -> [pc : VLPassPCs, age : 0 .. AgeCapV,
                          set : SUBSET Vehicles, v : Vehicles \cup {NoVehicle}]]

\* A pod acts only for what it leases: while its last good renew is younger than
\* a TTL, every vehicle it owns or streams has its row (a vehicle being reaped
\* apart, whose row goes first).
HeldMeansLeased ==
    \A p \in Pods : stat[p] \in {"up", "closing"} /\ renewAge[p] <= TTL =>
        LET reaped == IF pass[p].pc = "reaped" THEN pass[p].set ELSE {}
        IN owned[p] \cup (active[p] \ reaped) \subseteq RowsOf(p)

\* All the vehicles of a group that are leased are leased by one pod.
NoSplit ==
    \A v, w \in Vehicles : lease[v].left > 0 /\ lease[w].left > 0 =>
                            lease[v].pod = lease[w].pod

\* Store.Acquire: "without [the lock] two pods acquiring two different vehicles
\* of one user both pass the check".  No interleaving of passes splits a user,
\* as long as no row that ran out is renewed.
AcquireKeepsTogether == [][NoSplit => NoSplit']_vlVars

\* From some point on nothing disturbs the pods.
Quiet == <>[][~ Disturbance]_vlVars

\* A split that was there converges: the user's vehicles end up on one pod and
\* stay there (SplitVehicles: "both pods never release at once").
SplitConverges == Quiet => <>[]NoSplit

\* No lease is held without a subscription for good, and no vehicle is without
\* a lease, while a pod is up.
Streamed ==
    Quiet => <>[]((\E p \in Pods : stat[p] = "up") =>
        \A v \in signedIn : \E p \in Pods :
            stat[p] = "up" /\ lease[v].pod = p /\ v \in owned[p] \cap active[p])

\* The package comment: "each vehicle is subscribed by exactly one process".
\* healSplitUsers: "Releasing first would let the other pod dial while this
\* connection is still up, the very collision this removes."
OneConnection ==
    \A p, q \in Pods : p # q => running[p] \cap running[q] = {}
=============================================================================
