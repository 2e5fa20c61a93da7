----------------------------- MODULE GroupLease -----------------------------
(***************************************************************************)
(* The user-group lease of internal/leases in lead mode (groups_lead.go,   *)
(* groups.go): who owns a group, and what each pod believes it owns.       *)
(*                                                                         *)
(* One account_leases row per group lives in Postgres; every pod keeps     *)
(* fence tokens (group -> epoch) in memory and trusts them for             *)
(* LocalDeadline after the last good pass was SENT.  A pass is a sequence  *)
(* of statements, so every statement is an action of its own: the pod may  *)
(* stall, fail, lose a reply, crash or be shut down between any two.       *)
(*                                                                         *)
(* Time is discrete.  Timers are ages that saturate, so the state space is *)
(* finite without a horizon: a row counts down to -1 (0 is the instant of  *)
(* expiry, where it is neither valid nor free: the code compares with > and *)
(* <), a pod counts up from the moment its pass was sent.  Database and    *)
(* pods advance at the same rate and never compare clock readings, which   *)
(* is what the code relies on (it uses durations only).                    *)
(*                                                                         *)
(* Abstracted: the fair share.  How many free groups a pass takes, which   *)
(* one is shed, and the newest-generation grace are any choice here        *)
(* (FairShare.tla models them); ownership may not depend on them.          *)
(***************************************************************************)
EXTENDS Integers, FiniteSets

CONSTANTS
    Pods,           \* pod ids
    NoPod,          \* account_leases.pod_id IS NULL
    Users,          \* user ids; a group is keyed by its smallest member
    Groupings,      \* the labellings user -> group key that vehicles can induce
    TTL,            \* ticks a renew gives a row (30 s)
    LocalDeadline,  \* ticks after the send a pod trusts its tokens (20 s)
    WarmUp,         \* ticks a stolen group waits before its first write (5 s)
    MaxEpoch,       \* bound: grants per group
    Faults          \* which of FaultKinds may happen: what a run is about

FaultKinds == {"shutdown", "crash", "restart", "lost_acquire", "relink", "sign_in_out"}

ASSUME PodsAssumption == NoPod \notin Pods
ASSUME TimingAssumption ==
    /\ TTL \in Nat /\ LocalDeadline \in Nat /\ WarmUp \in Nat
    /\ LocalDeadline < TTL
ASSUME EpochAssumption == MaxEpoch \in Nat
\* A group is keyed by one of its own members.
ASSUME GroupingsAssumption ==
    /\ Groupings \subseteq [Users -> Users]
    /\ \A f \in Groupings : \A u \in Users : f[f[u]] = f[u]
ASSUME FaultsAssumption == Faults \subseteq FaultKinds

VARIABLES
    gid,      \* user -> key of the user's group (userGroups)
    signedIn, \* users with a stored rivian.session secret
    row,      \* key -> the account_leases row [pod, epoch, left]
    stat,     \* pod -> "down", "up", "closing" (SIGTERM), "released"
    draining, \* pod -> Store.draining
    tok,      \* pod -> Store.groups, 0 for no token
    okAge,    \* pod -> ticks since Store.groupOKAt, saturating
    warm,     \* pod -> key -> ticks since Store.stolenAt, WarmUp if none
    pass      \* pod -> the lead pass under way: pc, age since it was sent, what it
              \* holds and will give back, and what its acquire has seen (want,
              \* wasHeld; crossed is history)

podVars == <<stat, draining, tok, okAge, warm, pass>>
vars == <<gid, signedIn, row, podVars>>

Epochs == 0 .. MaxEpoch
AgeCap == LocalDeadline + 1
NoTokens == [g \in Users |-> 0]
Settled == [g \in Users |-> WarmUp]
Idle == [pc |-> "idle", age |-> AgeCap, held |-> NoTokens, give |-> {},
         want |-> {}, wasHeld |-> {}, crossed |-> FALSE]

\* What is left of a pass once its tokens are installed: groups to give back.
Giving(G) == IF G = {} THEN Idle ELSE [Idle EXCEPT !.pc = "give", !.give = G]

Least(a, b) == IF a < b THEN a ELSE b

Alive(p) == stat[p] # "down"
Running(p) == stat[p] \in {"up", "closing"}

(***************************************************************************)
(* What the statements see.                                                *)
(***************************************************************************)
\* candidateGroups: groups with a stored Rivian session on a member.
Cand == {gid[u] : u \in signedIn}

\* Deviation: a check that only looks at the expiry.
NotExpired(g, p, e) == row[g].left > 0

\* rivolt_lease_ok(g, p, e): the row is p's, at that epoch, and unexpired.
LeaseOk(g, p, e) == row[g].pod = p /\ row[g].epoch = e /\ row[g].left > 0

\* The renew UPDATE of a lead pass touches these rows.
Mine(p) == {g \in Users : row[g].pod = p /\ row[g].left > 0}

\* Deviation: a renew that adds to what is left instead of starting again.
RenewAdds(p) == [g \in Users |-> IF g \in Mine(p) \cap Cand
                                 THEN [row[g] EXCEPT !.left = @ + TTL] ELSE row[g]]

\* Rows after p's renew: those still candidates get a whole TTL again.
Renewed(p) == [g \in Users |-> IF g \in Mine(p) \cap Cand
                               THEN [row[g] EXCEPT !.left = TTL] ELSE row[g]]

\* Deviation: no re-key guard.
NeverRekeyed(p, g) == FALSE

\* The re-key guard: another pod's live row keyed by a member of group g.
Rekeyed(p, g) ==
    \E m \in Users : /\ gid[m] = g /\ m # g
                     /\ row[m].pod \notin {NoPod, p} /\ row[m].left > 0

\* What ON CONFLICT lets an acquire take: no row, released or expired.
Free == {g \in Users : /\ row[g].pod = NoPod \/ row[g].left < 0
                      /\ row[g].epoch < MaxEpoch}

\* What the SELECT of an acquire names: free candidates that the guard leaves.
Takable(p) == {g \in Cand \cap Free : ~ Rekeyed(p, g)}

\* An acquire of p is under way: its snapshot is taken, it has not committed.
Asking(p) == pass[p].pc \in {"acquiring", "following"}

\* What it gets: of the guard and the predicates, only that of ON CONFLICT is asked
\* again at the row.
Won(p) == pass[p].want \cap Free

\* Rows after p takes the groups of S: a fresh epoch and a whole TTL.
Granted(p, S) ==
    [g \in Users |-> IF g \in S
                     THEN [pod |-> p, epoch |-> row[g].epoch + 1, left |-> TTL]
                     ELSE row[g]]

\* Deviation: no warm-up, whoever had the row before.
NeverWarms(w, S, wasHeld) == [g \in Users |-> IF g \in S THEN WarmUp ELSE w[g]]

\* Tokens and warm-ups after p has been told that it took S (prev.was_held).
WithTokens(t, S) == [g \in Users |-> IF g \in S THEN row[g].epoch + 1 ELSE t[g]]
WithWarmUps(w, S, wasHeld) ==
    [g \in Users |-> IF g \notin S THEN w[g]
                     ELSE IF g \in wasHeld THEN 0 ELSE WarmUp]

\* The row with pod_id NULL; expires_at is left as it was.
Released(r) == [r EXCEPT !.pod = NoPod]

(***************************************************************************)
(* What a pod believes (tokenLocked).                                      *)
(***************************************************************************)
\* Deviation: a token is trusted until a pass says otherwise.
NeverExpires(p, g) == tok[p][g] # 0

LocallyValid(p, g) == tok[p][g] # 0 /\ okAge[p] <= LocalDeadline

\* Deviation: the local deadline counted from when the pass returned.
CountedFromReply(p) == 0

\* groupOKAt: counted from when the pass was SENT.
SentAge(p) == pass[p].age

\* Deviation: a stolen group is written to at once.
NoWarmUp(p, g) == IF LocallyValid(p, g) THEN "Held" ELSE "Lost"

Fence(p, g) == IF ~ LocallyValid(p, g) THEN "Lost"
               ELSE IF warm[p][g] < WarmUp THEN "Warming"
               ELSE "Held"

-----------------------------------------------------------------------------
Init ==
    /\ gid \in Groupings
    /\ signedIn = Users
    /\ row = [g \in Users |-> [pod |-> NoPod, epoch |-> 0, left |-> -1]]
    /\ stat = [p \in Pods |-> "up"]
    /\ draining = [p \in Pods |-> FALSE]
    /\ tok = [p \in Pods |-> NoTokens]
    /\ okAge = [p \in Pods |-> AgeCap]
    /\ warm = [p \in Pods |-> Settled]
    /\ pass = [p \in Pods |-> Idle]

(***************************************************************************)
(* One lead-mode pass (LeadGroups called from Coordinator.leadGroups).     *)
(***************************************************************************)
LeadStart(p) ==
    /\ stat[p] = "up" /\ pass[p].pc = "idle"
    /\ pass' = [pass EXCEPT ![p] = [Idle EXCEPT !.pc = "renew", !.age = 0]]
    /\ UNCHANGED <<gid, signedIn, row, stat, draining, tok, okAge, warm>>

\* The renew UPDATE and its RETURNING: rows still mine and still candidates.  What
\* comes next is decided on the reply: to acquire (room in the share, and not
\* draining), or not, perhaps because p is over its share.
LeadRenew(p) ==
    /\ Alive(p) /\ pass[p].pc = "renew"
    /\ row' = Renewed(p)
    /\ \E next \in {"acquire", "retire", "over"} :
       /\ draining[p] => next = "retire"
       /\ pass' = [pass EXCEPT
                     ![p].pc = next,
                     ![p].held = [g \in Users |-> IF g \in Mine(p) \cap Cand
                                                  THEN row[g].epoch ELSE 0]]
    /\ UNCHANGED <<gid, signedIn, stat, draining, tok, okAge, warm>>

\* The acquire INSERT ... SELECT, and that of AcquireGroups, reads its snapshot: the
\* groups it names (any of the free ones, up to a share) and which had a holder.  One
\* that names none changes nothing: the pass is then one that did not ask.
Snapshot(p) ==
    /\ Alive(p) /\ pass[p].pc \in {"acquire", "follow"}
    /\ \E S \in (SUBSET Takable(p)) \ {{}} :
       pass' = [pass EXCEPT ![p] = [pass[p] EXCEPT
                  !.pc = IF pass[p].pc = "acquire" THEN "acquiring" ELSE "following",
                  !.want = S,
                  !.wasHeld = {g \in S : row[g].pod # NoPod},
                  !.crossed = \E q \in Pods : pass[q].crossed]]
    /\ UNCHANGED <<gid, signedIn, row, stat, draining, tok, okAge, warm>>

\* Its ON CONFLICT DO UPDATE, commit and reply.
LeadAcquire(p) ==
    /\ Alive(p) /\ pass[p].pc = "acquiring"
    /\ row' = Granted(p, Won(p))
    /\ warm' = [warm EXCEPT ![p] = WithWarmUps(@, Won(p), pass[p].wasHeld)]
    /\ pass' = [pass EXCEPT ![p] = [Idle EXCEPT
                  !.pc = "retire", !.age = pass[p].age,
                  !.held = WithTokens(pass[p].held, Won(p))]]
    /\ UNCHANGED <<gid, signedIn, stat, draining, tok, okAge>>

\* The retire query, then the new tokens, counted from when the pass was SENT.
\* Rows of mine that were not renewed are to be given back, and at most one
\* group is shed when over the share (never by a draining pod).  Whether to follow
\* a group is decided before that statement is sent, and not by a draining pod.
LeadInstall(p) ==
    /\ Alive(p) /\ pass[p].pc \in {"retire", "over"}
    /\ LET held == pass[p].held
           kept == {g \in Users : held[g] # 0}
       IN \E shed \in SUBSET kept :
          /\ Cardinality(shed) <= IF pass[p].pc = "over" THEN 1 ELSE 0
          /\ draining[p] => shed = {}
          /\ tok' = [tok EXCEPT ![p] = held]
          /\ okAge' = [okAge EXCEPT ![p] = SentAge(p)]
          /\ warm' = [warm EXCEPT ![p] = [g \in Users |-> IF g \in kept
                                            THEN warm[p][g] ELSE WarmUp]]
          /\ LET give == (Mine(p) \ kept) \cup shed
             IN \/ pass' = [pass EXCEPT ![p] = Giving(give)]
                \/ /\ ~ draining[p]
                   /\ pass' = [pass EXCEPT ![p] =
                                  [Idle EXCEPT !.pc = "follow", !.give = give]]
    /\ UNCHANGED <<gid, signedIn, row, stat, draining>>

\* AcquireGroups: groups followed for a vehicle with an open drive or charge.
\* The tokens keep the deadline of the pass that was just installed.
FollowOpen(p) ==
    /\ Alive(p) /\ pass[p].pc = "following"
    /\ row' = Granted(p, Won(p))
    /\ tok' = [tok EXCEPT ![p] = WithTokens(@, Won(p))]
    /\ warm' = [warm EXCEPT ![p] = WithWarmUps(@, Won(p), pass[p].wasHeld)]
    /\ pass' = [pass EXCEPT ![p] = Giving(pass[p].give)]
    /\ UNCHANGED <<gid, signedIn, stat, draining, okAge>>

\* Deviation: the row is given back, the token goes with the next pass.
KeepsToken(p, g) ==
    /\ Alive(p) /\ pass[p].pc = "give" /\ g \in pass[p].give
    /\ row' = [row EXCEPT ![g] = IF @.pod = p THEN Released(@) ELSE @]
    /\ pass' = [pass EXCEPT ![p] = Giving(pass[p].give \ {g})]
    /\ UNCHANGED <<gid, signedIn, stat, draining, tok, okAge, warm>>

\* ReleaseGroup: the token goes first, then the row, unless the UPDATE fails.
GiveBack(p, g) ==
    /\ Alive(p) /\ pass[p].pc = "give" /\ g \in pass[p].give
    /\ tok' = [tok EXCEPT ![p][g] = 0]
    /\ \/ row' = [row EXCEPT ![g] = IF @.pod = p THEN Released(@) ELSE @]
       \/ UNCHANGED row
    /\ pass' = [pass EXCEPT ![p] = Giving(pass[p].give \ {g})]
    /\ UNCHANGED <<gid, signedIn, stat, draining, okAge, warm>>

\* The pass ends early: a group whose vehicles could not be released is kept.
PassEnd(p) ==
    /\ Alive(p) /\ pass[p].pc = "give"
    /\ pass' = [pass EXCEPT ![p] = Idle]
    /\ UNCHANGED <<gid, signedIn, row, stat, draining, tok, okAge, warm>>

(***************************************************************************)
(* A pass that fails.  What is held stays held until the local deadline;   *)
(* past it (PastLocalDeadline) every token is dropped.                     *)
(***************************************************************************)
AfterFailure(p) ==
    /\ pass' = [pass EXCEPT ![p] = Idle]
    /\ tok' = [tok EXCEPT ![p] = IF okAge[p] > LocalDeadline THEN NoTokens ELSE @]
    /\ UNCHANGED <<gid, signedIn, stat, draining, okAge, warm>>

PassFail(p) ==
    /\ Alive(p) /\ pass[p].pc \in {"renew", "acquire", "acquiring", "retire", "over"}
    /\ UNCHANGED row
    /\ AfterFailure(p)

\* The renew committed, its reply did not arrive.
RenewReplyLost(p) ==
    /\ Alive(p) /\ pass[p].pc = "renew"
    /\ row' = Renewed(p)
    /\ AfterFailure(p)

\* The reply of an acquire is lost with the connection, or as SIGTERM cancels it.
Interrupted(p) == "lost_acquire" \in Faults \/ stat[p] # "up"

\* The acquire committed, its reply did not arrive: the rows are p's, and p
\* knows neither that it has them nor that they were stolen.
AcquireReplyLost(p) ==
    /\ Interrupted(p)
    /\ Alive(p) /\ pass[p].pc = "acquiring"
    /\ row' = Granted(p, Won(p))
    /\ AfterFailure(p)

\* AcquireGroups fails, or only its reply is lost: the pass goes on without the
\* followed groups.
FollowFail(p) ==
    /\ Alive(p) /\ pass[p].pc = "following"
    /\ \/ UNCHANGED row
       \/ Interrupted(p) /\ row' = Granted(p, Won(p))
    /\ pass' = [pass EXCEPT ![p] = Giving(pass[p].give)]
    /\ UNCHANGED <<gid, signedIn, stat, draining, tok, okAge, warm>>

(***************************************************************************)
(* Shutdown, crash and restart.                                            *)
(***************************************************************************)
\* The preStop hook.
MarkDraining(p) ==
    /\ "shutdown" \in Faults
    /\ stat[p] = "up" /\ ~ draining[p]
    /\ draining' = [draining EXCEPT ![p] = TRUE]
    /\ UNCHANGED <<gid, signedIn, row, stat, tok, okAge, warm, pass>>

\* SIGTERM, and Coordinator.Shutdown up to the waits: no new pass starts from here
\* on.  The context of one under way is cancelled: a statement that was sent may
\* have happened or not.
Close(p) ==
    /\ "shutdown" \in Faults
    /\ stat[p] = "up"
    /\ stat' = [stat EXCEPT ![p] = "closing"]
    /\ draining' = [draining EXCEPT ![p] = TRUE]
    /\ UNCHANGED <<gid, signedIn, row, tok, okAge, warm, pass>>

\* Store.ReleaseAll (releaseGroups): tokens, then rows, unless the UPDATE fails;
\* nothing of it when the DELETE of the vehicle leases before it failed.
ReleaseAll(p) ==
    /\ stat[p] = "closing"
    /\ stat' = [stat EXCEPT ![p] = "released"]
    /\ \/ /\ tok' = [tok EXCEPT ![p] = NoTokens]
          /\ \/ row' = [g \in Users |-> IF row[g].pod = p THEN Released(row[g])
                                        ELSE row[g]]
             \/ UNCHANGED row
       \/ UNCHANGED <<tok, row>>
    /\ UNCHANGED <<gid, signedIn, draining, okAge, warm, pass>>

\* The process is gone, by exit or crash; its rows stay until they expire.
Down(p) ==
    /\ stat[p] = "released" \/ ("crash" \in Faults /\ stat[p] # "down")
    /\ stat' = [stat EXCEPT ![p] = "down"]
    /\ draining' = [draining EXCEPT ![p] = FALSE]
    /\ tok' = [tok EXCEPT ![p] = NoTokens]
    /\ okAge' = [okAge EXCEPT ![p] = AgeCap]
    /\ warm' = [warm EXCEPT ![p] = Settled]
    /\ pass' = [pass EXCEPT ![p] = Idle]
    /\ UNCHANGED <<gid, signedIn, row>>

\* The container restarts in the same pod: the pod id, and its rows, are back.
Restart(p) ==
    /\ "restart" \in Faults /\ stat[p] = "down"
    /\ stat' = [stat EXCEPT ![p] = "up"]
    /\ UNCHANGED <<gid, signedIn, row, draining, tok, okAge, warm, pass>>

(***************************************************************************)
(* The environment: vehicles appear or go (a shared vehicle links users),  *)
(* sessions are stored or removed, time passes.                            *)
(***************************************************************************)
Relink ==
    /\ "relink" \in Faults
    /\ \E f \in Groupings : f # gid /\ gid' = f
    /\ pass' = [p \in Pods |-> [pass[p] EXCEPT !.crossed = Asking(p)]]
    /\ UNCHANGED <<signedIn, row, stat, draining, tok, okAge, warm>>

SignInOrOut(u) ==
    /\ "sign_in_out" \in Faults
    /\ signedIn' = IF u \in signedIn THEN signedIn \ {u} ELSE signedIn \cup {u}
    /\ UNCHANGED <<gid, row, podVars>>

\* Bound: an acquire is over within the tick in which it began.  Between its snapshot
\* and its commit it waits for row locks alone.
Tick ==
    /\ \A p \in Pods : ~ Asking(p)
    /\ row' = [g \in Users |-> [row[g] EXCEPT !.left = IF @ < 0 THEN -1 ELSE @ - 1]]
    /\ okAge' = [p \in Pods |-> Least(okAge[p] + 1, AgeCap)]
    /\ warm' = [p \in Pods |-> [g \in Users |-> Least(warm[p][g] + 1, WarmUp)]]
    /\ pass' = [p \in Pods |-> [pass[p] EXCEPT !.age = Least(@ + 1, AgeCap)]]
    /\ UNCHANGED <<gid, signedIn, stat, draining, tok>>

LeadPass(p) ==
    \/ LeadStart(p) \/ LeadRenew(p) \/ Snapshot(p) \/ LeadAcquire(p)
    \/ LeadInstall(p)
    \/ FollowOpen(p) \/ (\E g \in Users : GiveBack(p, g)) \/ PassEnd(p)
    \/ PassFail(p) \/ RenewReplyLost(p) \/ AcquireReplyLost(p)
    \/ FollowFail(p)

Lifecycle(p) ==
    MarkDraining(p) \/ Close(p) \/ ReleaseAll(p) \/ Down(p) \/ Restart(p)

Next ==
    \/ \E p \in Pods : LeadPass(p) \/ Lifecycle(p)
    \/ Relink
    \/ \E u \in Users : SignInOrOut(u)
    \/ Tick

Spec == Init /\ [][Next]_vars

-----------------------------------------------------------------------------
Rows == [pod : Pods \cup {NoPod}, epoch : Epochs, left : -1 .. TTL]
PassPCs == {"idle", "renew", "acquire", "acquiring", "retire", "over",
            "follow", "following", "give"}
Passes == [pc : PassPCs,
           age : 0 .. AgeCap, held : [Users -> Epochs], give : SUBSET Users,
           want : SUBSET Users, wasHeld : SUBSET Users, crossed : BOOLEAN]

\* Every variable stays in its type: rows, ages and tokens are within their
\* bounds, whatever a pass, a fault or the clock does to them.
TypeOK ==
    /\ gid \in [Users -> Users]
    /\ signedIn \in SUBSET Users
    /\ row \in [Users -> Rows]
    /\ stat \in [Pods -> {"down", "up", "closing", "released"}]
    /\ draining \in [Pods -> BOOLEAN]
    /\ tok \in [Pods -> [Users -> Epochs]]
    /\ okAge \in [Pods -> 0 .. AgeCap]
    /\ warm \in [Pods -> [Users -> 0 .. WarmUp]]
    /\ pass \in [Pods -> Passes]

\* The promise of localDeadline (groups.go): a token that a pod still trusts
\* without asking the database is backed by a row that is its own, at that
\* epoch, and unexpired.
TrustImpliesLease ==
    \A p \in Pods, g \in Users :
        Running(p) /\ LocallyValid(p, g) => LeaseOk(g, p, tok[p][g])

\* At most one running pod acts for a group: two never both trust a token of
\* one group, so two never both call Rivian for one session.
OneActor ==
    \A p, q \in Pods, g \in Users :
        /\ Running(p) /\ LocallyValid(p, g)
        /\ Running(q) /\ LocallyValid(q, g)
        => p = q

(***************************************************************************)
(* The promise of the lease to the program around it (Ownership.tla): the  *)
(* row is the holder, a running pod that trusts a token acts under it.     *)
(***************************************************************************)
ActingFor(g) ==
    {[pod |-> p, epoch |-> tok[p][g]] :
        p \in {q \in Pods : Running(q) /\ LocallyValid(q, g)}}

Own == INSTANCE Ownership WITH
    Groups <- Users,
    holder <- [g \in Users |-> row[g].pod],
    epoch  <- [g \in Users |-> row[g].epoch],
    acting <- [g \in Users |-> ActingFor(g)]

\* Passes that stall, fail and lose replies, hand-backs, shutdowns, crashes and
\* restarts under the same pod id together implement the lease: whoever acts is the
\* row's pod at its epoch, and a row is granted or given back only while nobody acts.
OwnershipHolds == Own!Spec

\* groups.go: "two rows must never both be fence-valid for overlapping users",
\* the reason the re-key guard exists.  Not so when the two rows were there
\* before their users became linked: a renew has no such guard.
NoOverlap ==
    \A g, h \in Users :
        /\ g # h /\ gid[g] = gid[h]
        /\ row[g].pod # NoPod /\ row[g].left > 0
        /\ row[h].pod # NoPod /\ row[h].left > 0
        => row[g].pod = row[h].pod

\* Two ways only lead to live rows of two pods for one group: users who are held
\* apart are linked, or the link commits while acquires are under way, whose re-key
\* guards looked at snapshots from before it or before each other's commit.  No other
\* interleaving of passes, hand-overs, follows and lost replies does: whoever commits
\* the row that makes an overlap was asking when a link came between.
OverlapOnlyByLinking ==
    [][gid' = gid /\ NoOverlap /\ ~ NoOverlap' =>
         \E p \in Pods : /\ pass[p].crossed
                        /\ \E g \in pass[p].want : /\ row'[g].pod = p
                                                   /\ row'[g].epoch > row[g].epoch]_vars
=============================================================================
