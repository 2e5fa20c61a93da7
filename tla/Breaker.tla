-------------------------------- MODULE Breaker --------------------------------
(***************************************************************************)
(* The circuit breaker in front of Rivian, one per process.  Every call    *)
(* asks it; how the calls end opens and closes it.                         *)
(*                                                                         *)
(* Times are kept as ages that end at the value that makes no difference   *)
(* any more; hits are forgotten when they leave the window (the code looks *)
(* only when another comes).  A call carries nothing of the breaker's      *)
(* state at its admission, so the calls in flight are only counted.        *)
(***************************************************************************)
EXTENDS Integers, Sequences, FiniteSetsExt

CONSTANTS
    Window, Cooldown, MaxCooldown, ProbeTimeout,  \* of BreakerConfig, in ticks
    Threshold, \* kind of failure -> how many within the window trip the breaker
    MaxCalls   \* bound on the calls in flight

ASSUME BreakerAssumption ==
    /\ {Window, Cooldown, MaxCooldown, ProbeTimeout, MaxCalls} \subseteq Nat \ {0}
    /\ Cooldown <= MaxCooldown

VARIABLES
    brk,    \* the breaker [st, cooldown, openFor, probeFor, hits]
    calls,  \* calls in flight
    up,     \* Rivian answers every call
    probing \* history since the breaker last closed: [since |-> the age of its
            \* last admission, failed |-> the probes that failed]

brVars == <<brk, calls, up, probing>>

Kinds == DOMAIN Threshold
Closed == [st |-> "closed", cooldown |-> Cooldown, openFor |-> 0, probeFor |-> 0,
           hits |-> [k \in Kinds |-> <<>>]]
Older(age, cap) == Min({age + 1, cap})

\* An age of a probe that makes no difference any more.
LongAgo == Max({MaxCooldown, ProbeTimeout})
NotProbing == [since |-> LongAgo, failed |-> 0]

BrInit ==
    /\ brk = [Closed EXCEPT !.st = "none"]
    /\ calls = 0 /\ up = TRUE /\ probing = NotProbing

NewBreaker ==
    /\ brk.st = "none" /\ brk' = Closed
    /\ UNCHANGED <<calls, up, probing>>

\* Rivian's outages.
UpOrDown ==
    /\ brk.st # "none" /\ up' = ~ up
    /\ UNCHANGED <<brk, calls, probing>>

TimePasses ==
    /\ brk' = [brk EXCEPT
          !.openFor = Older(@, MaxCooldown), !.probeFor = Older(@, ProbeTimeout),
          !.hits = [k \in Kinds |-> SelectSeq([i \in DOMAIN @[k] |-> @[k][i] + 1], LAMBDA age : age <= Window)]]
    /\ probing' = [probing EXCEPT !.since = Older(@, LongAgo)]
    /\ UNCHANGED <<calls, up>>

-----------------------------------------------------------------------------
\* Deviation: a probe is waited for, however long it takes.
NeverOverdue == FALSE

\* The probe was refused by a later gate, failed on the way or was not reported.
ProbeOverdue == brk.probeFor >= ProbeTimeout

\* Allow, for a call that it admits (another one changes nothing).
Allow ==
    /\ calls < MaxCalls /\ calls' = calls + 1
    /\ \/ brk.st = "closed" /\ UNCHANGED <<brk, probing>>
       \/ /\ \/ brk.st = "open" /\ brk.openFor >= brk.cooldown
             \/ brk.st = "half_open" /\ ProbeOverdue
          /\ brk' = [brk EXCEPT !.st = "half_open", !.probeFor = 0]
          /\ probing' = [probing EXCEPT !.since = 0]
    /\ UNCHANGED up

\* Deviation: the time of the first trip stays.
LongerOnly(b) == [b EXCEPT !.st = "open", !.cooldown = Min({2 * @, MaxCooldown})]

\* reopen: from now, and twice as long.
Reopened(b) == [b EXCEPT !.st = "open", !.openFor = 0, !.cooldown = Min({2 * @, MaxCooldown})]

Reopen(b) ==
    /\ brk' = Reopened(b)
    /\ probing' = [probing EXCEPT !.failed = Min({@ + 1, MaxCooldown})]

\* A call returned: the breaker is told only of what it counts or waits for.
Returned == calls > 0 /\ calls' = calls - 1 /\ UNCHANGED up

\* ObserveSuccess, and Observe of an error that is the user's: Rivian answered.
Answered ==
    /\ Returned
    /\ IF brk.st = "half_open" THEN brk' = Closed /\ probing' = NotProbing
       ELSE UNCHANGED <<brk, probing>>

\* Observe of a rate limit or an outage.  Hits beyond the threshold are not kept.
Failed(k) ==
    /\ ~ up /\ Returned
    /\ LET n == Len(brk.hits[k])
           hits == Append(IF n < Threshold[k] THEN brk.hits[k] ELSE Tail(brk.hits[k]), 0)
           told == [brk EXCEPT !.hits[k] = hits]
       IN IF brk.st = "half_open"
          THEN Reopen(told)
          ELSE /\ brk' = IF brk.st = "closed" /\ Len(hits) >= Threshold[k]
                         THEN [told EXCEPT !.st = "open", !.openFor = 0] ELSE told
               /\ UNCHANGED probing

\* Observe of anything else: a half-open breaker opens again.
NotAnAnswer ==
    /\ Returned
    /\ IF brk.st = "half_open" THEN Reopen(brk) ELSE UNCHANGED <<brk, probing>>

\* As of a WebSocket that did not open, or a network timeout.
FailedOtherwise == ~ up /\ NotAnAnswer

\* A GraphQL call whose caller gave up, or whose answer was not understood, is
\* reported like that too, and says nothing of Rivian.
GivenUp == NotAnAnswer

\* The outcome is not reported: the caller of a WebSocket gave up, or the request
\* was not made.
Unreported == Returned /\ UNCHANGED <<brk, probing>>

BrNext ==
    \/ NewBreaker \/ UpOrDown \/ (brk.st # "none" /\ TimePasses)
    \/ Allow \/ Answered \/ FailedOtherwise \/ GivenUp \/ Unreported
    \/ \E k \in Kinds : Failed(k)

\* Time passes, the pollers go on calling, and of the calls in flight some are answered.
BrFairness ==
    /\ WF_brVars(brk.st # "none" /\ TimePasses)
    /\ WF_brVars(Allow)
    /\ SF_brVars(Answered)

BrSpec == BrInit /\ [][BrNext]_brVars

-----------------------------------------------------------------------------
\* How long the breaker stays open, but for the maximum, after n probes have failed.
Backoff[n \in Nat] == IF n = 0 THEN Cooldown ELSE 2 * Backoff[n - 1]

\* An upstream that stays degraded is left alone for longer and longer, up to the
\* maximum: no probe follows another sooner than the probes that failed so far
\* allow, whichever call's result, however late, reopened the breaker ("so a stuck
\* upstream doesn't get probed every Cooldown indefinitely").
ProbesBackOff ==
    [][(calls' > calls /\ brk.st # "closed") =>
        probing.since >= IF brk.st = "half_open" THEN ProbeTimeout
                         ELSE IF probing.failed = 0 THEN 0
                         ELSE Min({Backoff[probing.failed], MaxCooldown})]_brVars

\* Once Rivian answers again, the breaker lets every call through again, whatever
\* became of the probes: lost, refused, reported late.  Only callers that give up
\* while a probe is awaited, again and again, can keep it from that.
Recovers ==
    BrFairness => (<>[]up => \/ <>[](brk.st \in {"none", "closed"})
                             \/ []<><<GivenUp /\ brk.st = "half_open">>_brVars)
=============================================================================
