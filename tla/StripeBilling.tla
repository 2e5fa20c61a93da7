----------------------------- MODULE StripeBilling -----------------------------
(***************************************************************************)
(* One account's Pro, paid through Stripe: Checkout, the webhook that      *)
(* applies Stripe's events, and the closing of the account.                *)
(*                                                                         *)
(* Stripe delivers an event at least once, in any order, until it is       *)
(* acknowledged; its times have a resolution of one second.  The webhook   *)
(* applies an event in one transaction; the row of billing_customers that  *)
(* it writes first keeps another one of the account out, so it is one step.*)
(* A subscription carries the account's id, a charge only the customer;    *)
(* the subscription of a first purchase gives its customer its name here.  *)
(* Prices, periods, trials, countries, other accounts' customers and the   *)
(* purges after 30 days are left out.                                      *)
(***************************************************************************)
EXTENDS Integers, FiniteSets

CONSTANTS
    Subs,     \* subscription ids, numbers
    MaxSec,   \* bound on the seconds that pass
    MaxEvents \* a renewal, an end or a refund comes while there are fewer events

ASSUME SubsAssumption == Subs \subseteq Nat \ {0} /\ {MaxSec, MaxEvents} \subseteq Nat

VARIABLES
    stripe,   \* Stripe: sub -> [st, cust]
    removed,  \* customers deleted at Stripe
    sec,      \* the time, in seconds
    emitted,  \* events that Stripe has to deliver
    seen,     \* stripe_events: those applied or acknowledged for good
    page,     \* an open Checkout page: the customer it is for (0: a new one), or none
    account,  \* here, closing, remembered, closed (at Stripe, or queued), gone
    customer, \* billing_customers [cust, revoked]
    applied,  \* billing_stripe_subs: sub -> last_event_created
    pro,      \* the stripe entitlement [st, sub, at]; at is history: its event's time
    toClose,  \* the customer that the closing found
    tombs,    \* stripe_closed_customers
    queue     \* customers whose cancellation is to be retried

sbVars == <<stripe, removed, sec, emitted, seen, page, account, customer, applied, pro, toClose, tombs, queue>>
atStripe == <<stripe, removed, sec, emitted, page>>
rows == <<customer, applied, pro>>
closure == <<toClose, tombs, queue>>

NoCustomer == [cust |-> 0, revoked |-> -1]
NoPro == [st |-> "ended", sub |-> 0, at |-> -1]
NoneApplied == [s \in Subs |-> -1]
SubEvent(s, st, c) == [kind |-> "subscription", sub |-> s, st |-> st, cust |-> c, at |-> sec]
CustomerEvent(kind, c) == [kind |-> kind, sub |-> 0, st |-> "ended", cust |-> c, at |-> sec]
Live(s) == stripe[s].st \in {"active", "past_due"}
LiveOf(c) == {s \in Subs : Live(s) /\ stripe[s].cust = c}

SBInit ==
    /\ stripe = [s \in Subs |-> [st |-> "none", cust |-> 0]]
    /\ removed = {} /\ sec = 0 /\ emitted = {} /\ seen = {} /\ page = {}
    /\ account = "here" /\ customer = NoCustomer /\ applied = NoneApplied /\ pro = NoPro
    /\ toClose = 0 /\ tombs = {} /\ queue = {}

-----------------------------------------------------------------------------
MoreEvents == Cardinality(emitted) < MaxEvents

Second == sec < MaxSec /\ sec' = sec + 1 /\ UNCHANGED <<stripe, removed, emitted, page>>

\* The user pays on an open page: a subscription, for its customer or a new one.
PageCompleted ==
    \E c \in page \ removed, s \in Subs :
        /\ stripe[s].st = "none"
        /\ LET cust == IF c = 0 THEN s ELSE c IN
            /\ stripe' = [stripe EXCEPT ![s] = [st |-> "active", cust |-> cust]]
            /\ emitted' = emitted \cup {CustomerEvent("checkout", cust), SubEvent(s, "active", cust)}
        /\ page' = page \ {c}
        /\ UNCHANGED <<removed, sec>>

\* A renewal fails, or works after all; the user or Stripe ends the subscription.
SubChanges ==
    \E s \in Subs, st \in {"active", "past_due", "ended"} :
        /\ MoreEvents /\ Live(s) /\ st # stripe[s].st
        /\ stripe' = [stripe EXCEPT ![s].st = st]
        /\ emitted' = emitted \cup {SubEvent(s, st, stripe[s].cust)}
        /\ UNCHANGED <<removed, sec, page>>

\* The operator refunds a charge in full.
Refund ==
    \E s \in Subs :
        /\ MoreEvents /\ stripe[s].st # "none"
        /\ emitted' = emitted \cup {CustomerEvent("refund", stripe[s].cust)}
        /\ UNCHANGED <<stripe, removed, sec, page>>

StripeMoves ==
    /\ Second \/ PageCompleted \/ SubChanges \/ Refund
    /\ UNCHANGED <<seen, account, rows, closure>>

\* BuildCheckout: not beside a subscription that grants Pro (one past due does for a
\* while); a returning customer keeps its customer.
Checkout ==
    /\ account = "here" /\ pro.st # "active"
    /\ page' = page \cup {customer.cust}
    /\ UNCHANGED <<stripe, removed, sec, emitted, seen, account, rows, closure>>

-----------------------------------------------------------------------------
Exists == account # "gone"
Acknowledged(ev) == seen' = seen \cup {ev} /\ UNCHANGED <<atStripe, account, closure>>

\* checkoutCompleted; for an account that is gone the event is acknowledged.
CheckoutCompleted(ev) ==
    /\ ev.kind = "checkout"
    /\ customer' = IF Exists THEN [customer EXCEPT !.cust = ev.cust] ELSE customer
    /\ UNCHANGED <<applied, pro>>
    /\ Acknowledged(ev)

\* Deviation: an ending is like any other event of its second.
NoTieBreak(ev) == applied[ev.sub] < ev.at

\* Only the newest event of a subscription counts; on a tie an ending wins.
Newest(ev) == applied[ev.sub] < ev.at \/ (applied[ev.sub] = ev.at /\ ev.st = "ended")

\* Deviation: the second of the refund is not of the refunded time.
BeforeRefund(ev) == ev.at < customer.revoked

\* Nothing from before a full refund brings Pro back.
Revoked(ev) == ev.at <= customer.revoked

\* subscriptionChanged
SubscriptionChanged(ev) ==
    /\ ev.kind = "subscription" /\ Exists
    /\ customer' = [customer EXCEPT !.cust = ev.cust]
    /\ IF ~ Revoked(ev) /\ Newest(ev)
       THEN /\ applied' = [applied EXCEPT ![ev.sub] = ev.at]
            /\ pro' = [st |-> ev.st, sub |-> ev.sub, at |-> ev.at]
       ELSE UNCHANGED <<applied, pro>>
    /\ Acknowledged(ev)

\* chargeRefunded, of the customer on record
ChargeRefunded(ev) ==
    /\ ev.kind = "refund" /\ Exists /\ customer.cust = ev.cust
    /\ customer' = [customer EXCEPT !.revoked = IF @ < ev.at THEN ev.at ELSE @]
    /\ pro' = [pro EXCEPT !.st = "ended"]
    /\ UNCHANGED applied
    /\ Acknowledged(ev)

\* An event for no account: acknowledged when its customer was closed, or after a day of
\* retries; what Stripe retries until then changes nothing.
Unmapped(ev) ==
    /\ \/ ev.kind = "subscription" /\ ~ Exists
       \/ ev.kind = "refund" /\ (~ Exists \/ customer.cust # ev.cust)
    /\ UNCHANGED rows
    /\ Acknowledged(ev)

Webhook ==
    \E ev \in emitted \ seen :
        CheckoutCompleted(ev) \/ SubscriptionChanged(ev) \/ ChargeRefunded(ev) \/ Unmapped(ev)

-----------------------------------------------------------------------------
\* CloseCustomer: every subscription of the customer is cancelled, then the customer is
\* deleted if nothing is open on it.  It may stop anywhere.
CloseCustomer(c, cancelled, done) ==
    /\ done => cancelled = LiveOf(c)
    /\ stripe' = [s \in Subs |-> IF s \in cancelled THEN [stripe[s] EXCEPT !.st = "ended"] ELSE stripe[s]]
    /\ emitted' = emitted \cup {SubEvent(s, "ended", c) : s \in cancelled}
    /\ removed' = IF done THEN removed \cup {c} ELSE removed
    /\ UNCHANGED <<sec, page>>

\* The account is to be deleted: the customer on record, if there is one.
CloseAccount ==
    /\ account = "here"
    /\ account' = IF customer.cust = 0 THEN "closed" ELSE "closing"
    /\ toClose' = customer.cust
    /\ UNCHANGED <<atStripe, seen, rows, tombs, queue>>

\* MarkStripeCustomerClosed
Remember ==
    /\ account = "closing" /\ account' = "remembered"
    /\ tombs' = tombs \cup {toClose}
    /\ UNCHANGED <<atStripe, seen, rows, toClose, queue>>

\* Deviation: a cancellation that failed is left at that.
NotQueued(c) == {}

\* RecordStripeCancelFailure
Queued(c) == {c}

\* BeforeDelete: the customer is closed, or else queued, or else the account stays.
BeforeDelete(cancelled, done) ==
    /\ account = "remembered"
    /\ CloseCustomer(toClose, cancelled, done)
    /\ \/ account' = "closed" /\ toClose' = toClose
          /\ queue' = IF done THEN queue ELSE queue \cup Queued(toClose)
       \/ account' = "here" /\ toClose' = 0 /\ UNCHANGED queue
    /\ UNCHANGED <<seen, rows, tombs>>

\* DeleteUserAccount: the account's rows go with it.
DeleteUser ==
    /\ account = "closed" /\ account' = "gone"
    /\ customer' = NoCustomer /\ applied' = NoneApplied /\ pro' = NoPro
    /\ toClose' = 0 /\ UNCHANGED <<atStripe, seen, tombs, queue>>

\* It fails, or the process ends: the account stays.
DeletionStops ==
    /\ account \in {"closing", "remembered", "closed"} /\ account' = "here"
    /\ toClose' = 0 /\ UNCHANGED <<atStripe, seen, rows, tombs, queue>>

-----------------------------------------------------------------------------
\* RetryOnce, of what is due: a claim keeps other replicas away for a while only, which
\* the calls may outlast, so several may be at one customer, each as far as it is.  What
\* a late one does to a customer that is deleted changes nothing.
RetryClose(c, cancelled, done) ==
    /\ c \in queue
    /\ CloseCustomer(c, cancelled, done)
    /\ UNCHANGED <<seen, account, rows, closure>>

\* ResolveIdPDeleteFailure, by one that has closed the customer; none may come to it.
Resolve(c) ==
    /\ c \in queue \cap removed
    /\ queue' = queue \ {c}
    /\ UNCHANGED <<atStripe, seen, account, rows, toClose, tombs>>

RetryOnce ==
    \E c \in queue :
        \/ Resolve(c)
        \/ \E done \in BOOLEAN : \E cancelled \in SUBSET LiveOf(c) : RetryClose(c, cancelled, done)

SBNext ==
    \/ StripeMoves \/ Checkout \/ Webhook
    \/ CloseAccount \/ Remember \/ DeleteUser \/ DeletionStops
    \/ \E done \in BOOLEAN : \E cancelled \in SUBSET LiveOf(toClose) : BeforeDelete(cancelled, done)
    \/ RetryOnce

\* Stripe delivers until it is acknowledged; a retry works some time (the open items of
\* a customer are settled in the end).
SBFairness ==
    /\ WF_sbVars(Webhook)
    /\ \A c \in Subs : SF_sbVars(RetryClose(c, LiveOf(c), TRUE))

SBSpec == SBInit /\ [][SBNext]_sbVars /\ SBFairness

-----------------------------------------------------------------------------
\* A subscription whose end has been taken note of grants nothing any more, in whatever
\* order its events came and whichever shared their second.
EndedIsEnded ==
    \A ev \in seen : (ev.kind = "subscription" /\ ev.st = "ended" /\ pro.sub = ev.sub) => pro.st = "ended"

\* After a full refund only an event from after it grants Pro ("nothing older than that
\* may bring it back").
RefundHolds == pro.st # "ended" => pro.at > customer.revoked

\* A customer that was on record when its account was closed pays nothing any more, sooner
\* or later, whatever failed at Stripe or between the steps of the deletion.
ClosedIsCancelled ==
    SBFairness => []<>(account = "gone" => \A s \in Subs : Live(s) => stripe[s].cust \notin tombs)

\* AccountClosure: "so a deleted account is never charged again".
NeverChargedAgain ==
    \A s \in Subs : (account = "gone" /\ Live(s)) ~> ~ Live(s)
=============================================================================
