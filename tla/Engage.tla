-------------------------------- MODULE Engage --------------------------------
(***************************************************************************)
(* The pushes and emails Rivolt sends on its own initiative to one account:*)
(* each at most once, and no more than a budget in the budget's window.    *)
(*                                                                         *)
(* Several pods (and several hooks of one) consider a message at a time.   *)
(* A send is claimed by inserting its row as 'sending', delivered, then    *)
(* marked.  The user's settings and hours only decide whether a send is    *)
(* considered at all, and the lease only who may; rows are purged after    *)
(* 400 days, which is left out.                                            *)
(***************************************************************************)
EXTENDS Integers, FiniteSets

CONSTANTS
    Senders,  \* those that consider messages
    Messages, \* (kind, key) pairs
    Utility,  \* those outside the budget
    NoMessage,
    Budget

ASSUME MessagesAssumption ==
    /\ IsFiniteSet(Messages) /\ Utility \subseteq Messages
    /\ NoMessage \notin Messages
ASSUME BudgetAssumption == Budget \in Nat

VARIABLES
    sends,   \* message -> its row: none, sending, sent, failed, skipped
    aged,    \* messages whose row has left the budget's window
    sender,  \* sender -> [pc, m]
    arrived  \* history: message -> how often it reached the user

enVars == <<sends, aged, sender, arrived>>

NotSending == [pc |-> "idle", m |-> NoMessage]
Counting == {m \in Messages \ (Utility \cup aged) : sends[m] \in {"sending", "sent"}}
WithinBudget(m) == m \in Utility \/ Cardinality(Counting) < Budget

EnInit ==
    /\ sends = [m \in Messages |-> "none"] /\ aged = {}
    /\ sender = [s \in Senders |-> NotSending]
    /\ arrived = [m \in Messages |-> 0]

At(s, pc) == sender' = [sender EXCEPT ![s].pc = pc]

\* Send: the budget, read before the claim ...
Consider(s, m) ==
    /\ sender[s] = NotSending /\ WithinBudget(m)
    /\ sender' = [sender EXCEPT ![s] = [pc |-> "claim", m |-> m]]
    /\ UNCHANGED <<sends, aged, arrived>>

\* Deviation: claims of one account side by side.
NobodyWaits == TRUE

\* pg_advisory_xact_lock: no other claim of the account is between insert and commit.
ClaimLockFree == \A s \in Senders : sender[s].pc # "inserted"

\* Deviation: a row that is there is taken over.
TakenOver(m) == sends[m] # "skipped"

\* ON CONFLICT DO NOTHING
NoConflict(m) == sends[m] = "none"

\* ... the claim: an insert that counts again ...
ClaimInsert(s) ==
    /\ sender[s].pc = "claim" /\ ClaimLockFree
    /\ IF WithinBudget(sender[s].m) /\ NoConflict(sender[s].m)
       THEN At(s, "inserted")
       ELSE sender' = [sender EXCEPT ![s] = NotSending]
    /\ UNCHANGED <<sends, aged, arrived>>

\* ... that takes effect at its commit, unless a row of the key got there first ...
ClaimCommit(s) ==
    /\ sender[s].pc = "inserted"
    /\ IF NoConflict(sender[s].m)
       THEN /\ sends' = [sends EXCEPT ![sender[s].m] = "sending"]
            /\ At(s, "deliver")
       ELSE /\ sender' = [sender EXCEPT ![s] = NotSending]
            /\ UNCHANGED sends
    /\ UNCHANGED <<aged, arrived>>

\* ... the delivery, which may fail before the message reached the user, or report an
\* error though it did: the answer came too late, or another device took the push ...
Deliver(s) ==
    /\ sender[s].pc = "deliver"
    /\ \E outcome \in {"sent", "failed"} :
        /\ At(s, outcome)
        /\ \/ arrived' = [arrived EXCEPT ![sender[s].m] = @ + 1]
           \/ outcome = "failed" /\ UNCHANGED arrived
    /\ UNCHANGED <<sends, aged>>

\* ... and Mark.
Marked(s) ==
    /\ sender[s].pc \in {"sent", "failed"}
    /\ sends' = [sends EXCEPT ![sender[s].m] = IF @ = "sending" THEN sender[s].pc ELSE @]
    /\ sender' = [sender EXCEPT ![s] = NotSending]
    /\ UNCHANGED <<aged, arrived>>

\* The process ends, or the database does not answer: the row stays as it is.
GiveUp(s) ==
    /\ sender[s] # NotSending
    /\ sender' = [sender EXCEPT ![s] = NotSending]
    /\ UNCHANGED <<sends, aged, arrived>>

\* Skip: a finished row for a key there is nothing to send for, without the lock.
Skip(m) ==
    /\ sends[m] = "none"
    /\ sends' = [sends EXCEPT ![m] = "skipped"]
    /\ UNCHANGED <<aged, sender, arrived>>

\* Time moves the window past a row.
Ages(m) ==
    /\ sends[m] \in {"sending", "sent", "failed"} /\ m \notin aged
    /\ \A s \in Senders : sender[s].m # m
    /\ aged' = aged \cup {m}
    /\ UNCHANGED <<sends, sender, arrived>>

EnNext ==
    \/ \E s \in Senders :
        \/ \E m \in Messages : Consider(s, m)
        \/ ClaimInsert(s) \/ ClaimCommit(s) \/ Deliver(s) \/ Marked(s) \/ GiveUp(s)
    \/ \E m \in Messages : Skip(m) \/ Ages(m)

EnSpec == EnInit /\ [][EnNext]_enVars

-----------------------------------------------------------------------------
\* No message reaches the user twice, whoever considers it, whatever fails or dies
\* between claim, delivery and mark, and whether its row was skipped meanwhile.
SentAtMostOnce == \A m \in Messages : arrived[m] <= 1

\* The sends of the window that count never exceed the budget ("two transactions can
\* each count 3 and both insert"), and whatever reached the user in the window counts
\* or is recorded as failed: a claim nobody delivered counts, a message that arrived is
\* never forgotten by a death between delivery and mark.
BudgetHolds ==
    /\ Cardinality(Counting) <= Budget
    /\ \A m \in Messages \ (Utility \cup aged) :
         arrived[m] > 0 => m \in Counting \/ sends[m] = "failed"
=============================================================================
