---------------------------- MODULE ProtocolsProofs ----------------------------
(***************************************************************************)
(* The protocols that stand alone, proved one after the other: the client's*)
(* reauth flag, the engagement sends, Stripe's events and the circuit      *)
(* breaker.  Each part has its own invariant and uses nothing of the others*)
(* but the facts about numbers.                                            *)
(***************************************************************************)
EXTENDS ReauthFlag, Engage, StripeBilling, Breaker, NumberLemmas, FiniteSetTheorems, TLAPS

-----------------------------------------------------------------------------
(***************************************************************************)
(* Theorems about ReauthFlag, for any clients and any number of sign-ins.  *)
(***************************************************************************)

Savings == [pc : {"idle", "save", "delete", "saved", "deleted", "save held", "delete held",
                  "learn"}, ver : Nat]
Raisings == [pc : {"idle", "raise", "held"}, ver : Nat, current : BOOLEAN]

\* The types that the proof needs.
RFTypes ==
    /\ stored \in Nat /\ version \in Nat
    /\ flagged \in [up : BOOLEAN, ver : Nat]
    /\ knows \in [Clients -> Nat]
    /\ saving \in [Clients -> Savings]
    /\ raising \in [Clients -> Raisings]

\* A sign-out stores no session.
StoresNone(w) == w.pc \in {"deleted", "delete held"} => w.ver = 0
SignOutsStoreNone == \A c \in Clients : StoresNone(saving[c])

\* The invariant: a commit that stores another session lowers the flag.
RFInv == RFTypes /\ SignOutsStoreNone /\ FlaggedForStored

\* It holds before the first sign-in.
LEMMA RFInvInit == RFInit => RFInv
<1> SUFFICES ASSUME RFInit PROVE RFInv
  OBVIOUS
<1> USE DEF RFInit
<1>1. NotSaving \in Savings /\ StoresNone(NotSaving) /\ NotRaising \in Raisings
  BY DEF NotSaving, NotRaising, Savings, Raisings, StoresNone
<1>2. flagged \in [up : BOOLEAN, ver : Nat] /\ ~ flagged.up
  BY DEF Lowered
<1> QED BY <1>1, <1>2 DEF RFInv, RFTypes, SignOutsStoreNone, FlaggedForStored

\* A client's step of its sign-in changes its own part only.
LEMMA OneSaving ==
    ASSUME RFInv, NEW c \in Clients, NEW w \in Savings, StoresNone(w),
           saving' = [saving EXCEPT ![c] = w]
    PROVE  saving' \in [Clients -> Savings] /\ SignOutsStoreNone'
<1>1. saving \in [Clients -> Savings] /\ SignOutsStoreNone
  BY DEF RFInv, RFTypes
<1> QED BY <1>1 DEF SignOutsStoreNone

\* A record of Savings with another pc is one.
LEMMA SavingPC ==
    ASSUME NEW w \in Savings,
           NEW pc \in {"idle", "save", "delete", "saved", "deleted", "save held", "delete held", "learn"}
    PROVE  /\ [w EXCEPT !.pc = pc] \in Savings
           /\ [w EXCEPT !.pc = pc].pc = pc /\ [w EXCEPT !.pc = pc].ver = w.ver
  BY DEF Savings

\* The session's row is written with the next version, or removed.
LEMMA WriteSessionKeeps ==
    ASSUME RFInv, NEW c \in Clients, WriteSession(c)
    PROVE  version' \in Nat /\ saving' \in [Clients -> Savings] /\ SignOutsStoreNone'
<1>1. CASE saving[c].pc = "save"
  <2>1. saving' = [saving EXCEPT ![c] = [pc |-> "saved", ver |-> version + 1]] /\ version' = version + 1
    BY <1>1 DEF WriteSession
  <2>2. version + 1 \in Nat
    BY DEF RFInv, RFTypes
  <2>3. [pc |-> "saved", ver |-> version + 1] \in Savings /\ StoresNone([pc |-> "saved", ver |-> version + 1])
    BY <2>2 DEF Savings, StoresNone
  <2> QED BY <2>1, <2>2, <2>3, OneSaving
<1>2. CASE saving[c].pc = "delete"
  <2>1. saving' = [saving EXCEPT ![c] = [pc |-> "deleted", ver |-> 0]]
    BY <1>2, Zenon DEF WriteSession
  <2>2. version' = version
    BY <1>2 DEF WriteSession
  <2>3. [pc |-> "deleted", ver |-> 0] \in Savings /\ StoresNone([pc |-> "deleted", ver |-> 0])
    BY DEF Savings, StoresNone
  <2> QED BY <2>1, <2>2, <2>3, OneSaving DEF RFInv, RFTypes
<1> QED BY <1>1, <1>2 DEF WriteSession

\* Waiting for the user's row changes no version.
LEMMA HoldUserRowKeeps ==
    ASSUME RFInv, NEW c \in Clients, HoldUserRow(c)
    PROVE  saving' \in [Clients -> Savings] /\ SignOutsStoreNone'
<1> DEFINE pc == IF saving[c].pc = "saved" THEN "save held" ELSE "delete held"
<1>1. saving' = [saving EXCEPT ![c] = [saving[c] EXCEPT !.pc = pc]]
  BY Zenon DEF HoldUserRow
<1>2. saving[c] \in Savings /\ StoresNone(saving[c]) /\ saving[c].pc \in {"saved", "deleted"}
  BY DEF RFInv, RFTypes, SignOutsStoreNone, HoldUserRow
<1>3. [saving[c] EXCEPT !.pc = pc] \in Savings /\ StoresNone([saving[c] EXCEPT !.pc = pc])
  <2>1. CASE saving[c].pc = "saved"
    BY <1>2, <2>1, SavingPC DEF StoresNone
  <2>2. CASE saving[c].pc = "deleted"
    <3>1. pc = "delete held" /\ saving[c].ver = 0
      BY <1>2, <2>2 DEF StoresNone
    <3>2. [saving[c] EXCEPT !.pc = "delete held"] \in Savings /\ [saving[c] EXCEPT !.pc = "delete held"].ver = 0
      BY <1>2, <3>1, SavingPC
    <3> QED BY <3>1, <3>2 DEF StoresNone
  <2> QED BY <1>2, <2>1, <2>2
<1> QED BY <1>1, <1>3, OneSaving

\* Taking the user's row for a raise, or finding the flag up.
LEMMA RaisingKeeps ==
    ASSUME RFInv, NEW c \in Clients, LockForRaise(c)
    PROVE  raising' \in [Clients -> Raisings]
<1>1. raising \in [Clients -> Raisings]
  BY DEF RFInv, RFTypes
<1>2. NotRaising \in Raisings /\ [raising[c] EXCEPT !.pc = "held"] \in Raisings
  BY <1>1 DEF NotRaising, Raisings
<1>3. \/ raising' = [raising EXCEPT ![c] = NotRaising]
      \/ raising' = [raising EXCEPT ![c] = [raising[c] EXCEPT !.pc = "held"]]
  BY DEF LockForRaise
<1> QED BY <1>1, <1>2, <1>3

\* Every step keeps the invariant: the two that matter are the commit, which lowers the flag
\* with the session it stores, and the raise, which compares the versions with the row held.
LEMMA RFInvStep == RFInv /\ [RFNext]_rfVars => RFInv'
<1> SUFFICES ASSUME RFInv, [RFNext]_rfVars PROVE RFInv'
  OBVIOUS
<1> USE DEF RFInv, RFTypes, FlaggedForStored
<1>0. /\ NotSaving \in Savings /\ StoresNone(NotSaving) /\ NotRaising \in Raisings
      /\ Lowered \in [up : BOOLEAN, ver : Nat] /\ ~ Lowered.up
  BY DEF NotSaving, NotRaising, Lowered, Savings, Raisings, StoresNone
<1>1. CASE UNCHANGED rfVars
  BY <1>1 DEF rfVars, SignOutsStoreNone
<1>2. ASSUME NEW c \in Clients, Login(c) \/ Logout(c) PROVE RFInv'
  <2>1. PICK pc \in {"save", "delete"} : saving' = [saving EXCEPT ![c] = [saving[c] EXCEPT !.pc = pc]]
    BY <1>2 DEF Login, Logout
  <2>2. [saving[c] EXCEPT !.pc = pc] \in Savings /\ StoresNone([saving[c] EXCEPT !.pc = pc])
    BY SavingPC DEF StoresNone
  <2>3. saving' \in [Clients -> Savings] /\ SignOutsStoreNone'
    BY <2>1, <2>2, OneSaving
  <2>4. /\ flagged' \in {flagged, Lowered}
        /\ UNCHANGED <<stored, version, knows, raising>>
    BY <1>2 DEF Login, Logout
  <2> QED BY <1>0, <2>3, <2>4
<1>4. ASSUME NEW c \in Clients, WriteSession(c) PROVE RFInv'
  BY <1>4, WriteSessionKeeps DEF WriteSession
<1>5. ASSUME NEW c \in Clients, HoldUserRow(c) PROVE RFInv'
  BY <1>5, HoldUserRowKeeps DEF HoldUserRow
<1>6. ASSUME NEW c \in Clients, CommitSession(c) PROVE RFInv'
  <2>1. saving' = [saving EXCEPT ![c] = [saving[c] EXCEPT !.pc = "learn"]]
    BY <1>6 DEF CommitSession
  <2>2. [saving[c] EXCEPT !.pc = "learn"] \in Savings /\ StoresNone([saving[c] EXCEPT !.pc = "learn"])
    <3>1. saving[c] \in Savings
      OBVIOUS
    <3>2. [saving[c] EXCEPT !.pc = "learn"] \in Savings /\ [saving[c] EXCEPT !.pc = "learn"].pc = "learn"
      BY <3>1, SavingPC
    <3> QED BY <3>2 DEF StoresNone
  <2>3. saving' \in [Clients -> Savings] /\ SignOutsStoreNone'
    BY <2>1, <2>2, OneSaving
  <2>4. saving[c].ver \in Nat /\ StoresNone(saving[c])
    BY DEF SignOutsStoreNone, Savings
  <2>5. CASE saving[c].pc = "save held"
    BY <1>0, <1>6, <2>3, <2>4, <2>5 DEF CommitSession, Cleared
  <2>6. CASE saving[c].pc = "delete held"
    BY <1>6, <2>3, <2>4, <2>6 DEF CommitSession, StoresNone
  <2> QED BY <1>6, <2>5, <2>6 DEF CommitSession
<1>7. ASSUME NEW c \in Clients, Learn(c) PROVE RFInv'
  <2>1. saving' \in [Clients -> Savings] /\ SignOutsStoreNone'
    BY <1>0, <1>7, OneSaving DEF Learn
  <2>2. knows' \in [Clients -> Nat]
    BY <1>7 DEF Learn, Savings
  <2> QED BY <1>7, <2>1, <2>2 DEF Learn
<1>8. ASSUME NEW c \in Clients, SaveFails(c) PROVE RFInv'
  BY <1>0, <1>8, OneSaving DEF SaveFails
<1>9. ASSUME NEW c \in Clients, Sync(c) PROVE RFInv'
  BY <1>9 DEF Sync, SignOutsStoreNone
<1>10. ASSUME NEW c \in Clients, Rejected(c) PROVE RFInv'
  <2>1. [pc |-> "raise", ver |-> knows[c], current |-> stored = knows[c]] \in Raisings
    BY DEF Raisings
  <2> QED BY <1>10, <2>1 DEF Rejected, SignOutsStoreNone
<1>11. ASSUME NEW c \in Clients, LockForRaise(c) PROVE RFInv'
  BY <1>11, RaisingKeeps DEF LockForRaise, SignOutsStoreNone
<1>12. ASSUME NEW c \in Clients, Raise(c) PROVE RFInv'
  <2>1. raising[c].ver \in Nat /\ raising' \in [Clients -> Raisings]
    BY <1>0, <1>12 DEF Raise, Raisings
  <2>2. /\ flagged' \in [up : BOOLEAN, ver : Nat]
        /\ FlaggedForStored'
    BY <1>12, <2>1 DEF Raise, IsCurrent
  <2> QED BY <1>12, <2>1, <2>2 DEF Raise, SignOutsStoreNone
<1>13. ASSUME NEW c \in Clients, RaiseFails(c) PROVE RFInv'
  BY <1>0, <1>13 DEF RaiseFails, SignOutsStoreNone
<1> QED BY <1>1, <1>2, <1>4, <1>5, <1>6, <1>7, <1>8, <1>9, <1>10, <1>11, <1>12, <1>13 DEF RFNext

\* The flag is only ever up for the stored session, or when none is stored, whichever
\* sign-ins, sign-outs and rejections overlap on however many pods
\* (RaiseNeedsReauthIfCurrent, db/reauth.go, and the transaction of a sign-in).
THEOREM FlagIsForStored == RFSpec => []FlaggedForStored
<1>1. RFInv => FlaggedForStored
  BY DEF RFInv
<1> QED BY <1>1, RFInvInit, RFInvStep, PTL DEF RFSpec

-----------------------------------------------------------------------------
(***************************************************************************)
(* Theorems about Engage, for any senders, messages and budget.            *)
(***************************************************************************)

Rows == {"none", "sending", "sent", "failed", "skipped"}
Sendings == [pc : {"idle", "claim", "inserted", "deliver", "sent", "failed"},
             m : Messages \cup {NoMessage}]

\* The types that the proofs need.
EnTypes ==
    /\ sends \in [Messages -> Rows]
    /\ sender \in [Senders -> Sendings]
    /\ arrived \in [Messages -> {0, 1}]
    /\ \A s \in Senders : sender[s].pc # "idle" => sender[s].m \in Messages

\* A sender past its claim has its message's row to itself.
PastClaim(w) == w.pc \in {"deliver", "sent", "failed"}
OneOwner == \A s, t \in Senders :
    PastClaim(sender[s]) /\ PastClaim(sender[t]) /\ sender[s].m = sender[t].m => s = t
OwnersRow == \A s \in Senders : PastClaim(sender[s]) => sends[sender[s].m] = "sending"

\* What reached the user has a row of a send; before the delivery, nothing did.
ArrivedCounts == \A m \in Messages : arrived[m] = 1 => sends[m] \in {"sending", "sent", "failed"}
Undelivered == \A s \in Senders : sender[s].pc = "deliver" => arrived[sender[s].m] = 0

\* The invariant behind SentAtMostOnce.
EnInv == EnTypes /\ OneOwner /\ OwnersRow /\ ArrivedCounts /\ Undelivered

\* It holds of an account that was sent nothing.
LEMMA EnInvInit == EnInit => EnInv
  BY DEF EnInit, EnInv, EnTypes, OneOwner, OwnersRow, ArrivedCounts, Undelivered, NotSending,
         Rows, Sendings, PastClaim

\* Giving up, or ending in any other way, leaves the rest of the invariant alone.
LEMMA ToIdle ==
    ASSUME EnInv, NEW s \in Senders, sender' = [sender EXCEPT ![s] = NotSending],
           UNCHANGED <<sends, arrived>>
    PROVE  EnInv'
<1>1. NotSending \in Sendings /\ ~ PastClaim(NotSending) /\ NotSending.pc = "idle"
  BY DEF NotSending, Sendings, PastClaim
<1> QED BY <1>1 DEF EnInv, EnTypes, OneOwner, OwnersRow, ArrivedCounts, Undelivered

\* A step of a sender to a place that is not past the claim.
LEMMA ToClaim ==
    ASSUME EnInv, NEW s \in Senders, NEW w \in Sendings, w.m \in Messages, ~ PastClaim(w),
           sender' = [sender EXCEPT ![s] = w], UNCHANGED <<sends, arrived>>
    PROVE  EnInv'
  BY DEF EnInv, EnTypes, OneOwner, OwnersRow, ArrivedCounts, Undelivered, PastClaim

\* The record of a sender at another place.
LEMMA SenderAt ==
    ASSUME EnInv, NEW s \in Senders, sender[s].pc # "idle",
           NEW pc \in {"inserted", "deliver", "sent", "failed"}
    PROVE  /\ [sender[s] EXCEPT !.pc = pc] \in Sendings
           /\ [sender[s] EXCEPT !.pc = pc].pc = pc
           /\ [sender[s] EXCEPT !.pc = pc].m = sender[s].m
           /\ sender[s].m \in Messages
  BY DEF EnInv, EnTypes, Sendings

\* A claim takes effect only where there was no row, so nobody else is past the claim for it.
LEMMA ClaimCommitKeeps == ASSUME EnInv, NEW s \in Senders, ClaimCommit(s) PROVE EnInv'
<1>1. CASE ~ NoConflict(sender[s].m)
  BY <1>1, ToIdle DEF ClaimCommit
<1>2. CASE NoConflict(sender[s].m)
  <2> DEFINE m == sender[s].m
             w == [sender[s] EXCEPT !.pc = "deliver"]
  <2>1. /\ sends' = [sends EXCEPT ![m] = "sending"] /\ arrived' = arrived
        /\ sender' = [sender EXCEPT ![s] = w]
        /\ sender[s].pc = "inserted"
    BY <1>2, Zenon DEF ClaimCommit, At
  <2>2. w \in Sendings /\ w.pc = "deliver" /\ w.m = m /\ m \in Messages
    BY <2>1, SenderAt
  <2>3. sends[m] = "none"
    BY <1>2 DEF NoConflict
  <2>4. arrived[m] = 0
    BY <2>2, <2>3 DEF EnInv, EnTypes, ArrivedCounts
  <2>5. \A t \in Senders : PastClaim(sender[t]) => sender[t].m # m
    BY <2>3 DEF EnInv, OwnersRow
  <2> HIDE DEF m, w
  <2>6. EnTypes'
    BY <2>1, <2>2 DEF EnInv, EnTypes, Rows
  <2>7. OneOwner' /\ OwnersRow'
    BY <2>1, <2>2, <2>5 DEF EnInv, EnTypes, OneOwner, OwnersRow, PastClaim
  <2>8. ArrivedCounts' /\ Undelivered'
    BY <2>1, <2>2, <2>4 DEF EnInv, EnTypes, ArrivedCounts, Undelivered
  <2> QED BY <2>6, <2>7, <2>8 DEF EnInv
<1> QED BY <1>1, <1>2

\* A delivery is the first of its message: the others past their claim have other messages.
LEMMA DeliverKeeps == ASSUME EnInv, NEW s \in Senders, Deliver(s) PROVE EnInv'
<1> DEFINE m == sender[s].m
<1>1. PICK pc \in {"sent", "failed"} :
        /\ sender[s].pc = "deliver" /\ UNCHANGED sends
        /\ sender' = [sender EXCEPT ![s] = [sender[s] EXCEPT !.pc = pc]]
        /\ arrived' = [arrived EXCEPT ![m] = @ + 1] \/ arrived' = arrived
  BY Zenon DEF Deliver, At
<1> DEFINE w == [sender[s] EXCEPT !.pc = pc]
<1>2. w \in Sendings /\ w.pc = pc /\ w.m = m /\ m \in Messages
  BY <1>1, SenderAt
<1>3. arrived[m] = 0 /\ sends[m] = "sending" /\ PastClaim(sender[s])
  BY <1>1 DEF EnInv, OwnersRow, Undelivered, PastClaim
<1>4. sender' = [sender EXCEPT ![s] = w]
  BY <1>1
<1> HIDE DEF m, w
<1>5. EnTypes'
  BY <1>1, <1>2, <1>3, <1>4 DEF EnInv, EnTypes
<1>6. OneOwner' /\ OwnersRow'
  BY <1>1, <1>2, <1>3, <1>4 DEF EnInv, EnTypes, OneOwner, OwnersRow, m
<1>7. ArrivedCounts'
  BY <1>1, <1>2, <1>3 DEF EnInv, EnTypes, ArrivedCounts
<1>8. Undelivered'
  BY <1>1, <1>2, <1>3, <1>4 DEF EnInv, EnTypes, OneOwner, Undelivered, PastClaim, m
<1> QED BY <1>5, <1>6, <1>7, <1>8 DEF EnInv

\* A mark turns the sender's own row.
LEMMA MarkedKeeps == ASSUME EnInv, NEW s \in Senders, Marked(s) PROVE EnInv'
<1> DEFINE m == sender[s].m
<1>1. PICK row \in {"sent", "failed"} :
        /\ sender[s].pc = row /\ sends' = [sends EXCEPT ![m] = row]
        /\ sender' = [sender EXCEPT ![s] = NotSending] /\ arrived' = arrived
  <2>1. sends[m] = "sending" /\ m \in Messages
    BY DEF Marked, EnInv, EnTypes, OwnersRow, PastClaim
  <2> QED BY <2>1 DEF Marked, EnInv, EnTypes
<1>2. m \in Messages /\ PastClaim(sender[s])
  BY <1>1 DEF EnInv, EnTypes, PastClaim
<1>4. NotSending \in Sendings /\ ~ PastClaim(NotSending) /\ NotSending.pc = "idle"
  BY DEF NotSending, Sendings, PastClaim
<1>5. EnTypes'
  BY <1>1, <1>2, <1>4 DEF EnInv, EnTypes, Rows
<1>6. OneOwner'
  BY <1>1, <1>4 DEF EnInv, EnTypes, OneOwner
<1>7. OwnersRow'
  BY <1>1, <1>2, <1>4 DEF EnInv, EnTypes, OneOwner, OwnersRow
<1>8. ArrivedCounts' /\ Undelivered'
  BY <1>1, <1>2, <1>4 DEF EnInv, EnTypes, ArrivedCounts, Undelivered
<1> QED BY <1>5, <1>6, <1>7, <1>8 DEF EnInv

\* Every step keeps the invariant.
LEMMA EnInvStep == EnInv /\ [EnNext]_enVars => EnInv'
<1> SUFFICES ASSUME EnInv, [EnNext]_enVars PROVE EnInv'
  OBVIOUS
<1>1. CASE UNCHANGED enVars
  BY <1>1 DEF enVars, EnInv, EnTypes, OneOwner, OwnersRow, ArrivedCounts, Undelivered
<1>2. ASSUME NEW s \in Senders, NEW m \in Messages, Consider(s, m) PROVE EnInv'
  <2>1. [pc |-> "claim", m |-> m] \in Sendings /\ ~ PastClaim([pc |-> "claim", m |-> m])
    BY DEF Sendings, PastClaim
  <2> QED BY <1>2, <2>1, ToClaim DEF Consider
<1>3. ASSUME NEW s \in Senders, ClaimInsert(s) PROVE EnInv'
  <2>1. \/ sender' = [sender EXCEPT ![s] = NotSending]
        \/ sender' = [sender EXCEPT ![s] = [sender[s] EXCEPT !.pc = "inserted"]]
    BY <1>3, Zenon DEF ClaimInsert, At
  <2>2. /\ [sender[s] EXCEPT !.pc = "inserted"] \in Sendings
        /\ [sender[s] EXCEPT !.pc = "inserted"].m \in Messages
        /\ ~ PastClaim([sender[s] EXCEPT !.pc = "inserted"])
    BY <1>3, SenderAt DEF ClaimInsert, PastClaim
  <2>3. UNCHANGED <<sends, arrived>>
    BY <1>3 DEF ClaimInsert
  <2> QED BY <2>1, <2>2, <2>3, ToIdle, ToClaim
<1>4. ASSUME NEW s \in Senders, ClaimCommit(s) PROVE EnInv'
  BY <1>4, ClaimCommitKeeps
<1>5. ASSUME NEW s \in Senders, Deliver(s) PROVE EnInv'
  BY <1>5, DeliverKeeps
<1>6. ASSUME NEW s \in Senders, Marked(s) PROVE EnInv'
  BY <1>6, MarkedKeeps
<1>7. ASSUME NEW s \in Senders, GiveUp(s) PROVE EnInv'
  BY <1>7, ToIdle DEF GiveUp
<1>8. ASSUME NEW m \in Messages, Skip(m) PROVE EnInv'
  BY <1>8 DEF Skip, EnInv, EnTypes, OneOwner, OwnersRow, ArrivedCounts, Undelivered, PastClaim, Rows
<1>9. ASSUME NEW m \in Messages, Ages(m) PROVE EnInv'
  BY <1>9 DEF Ages, EnInv, EnTypes, OneOwner, OwnersRow, ArrivedCounts, Undelivered
<1> QED BY <1>1, <1>2, <1>3, <1>4, <1>5, <1>6, <1>7, <1>8, <1>9 DEF EnNext

\* A message reaches the user at most once, however many senders consider it and wherever
\* they die (the claim by insert, store.go, and the delivery between claim and mark, engage.go).
THEOREM AtMostOnce == EnSpec => []SentAtMostOnce
<1>1. EnInv => SentAtMostOnce
  BY DEF EnInv, EnTypes, SentAtMostOnce
<1> QED BY <1>1, EnInvInit, EnInvStep, PTL DEF EnSpec

-----------------------------------------------------------------------------
\* The rows that count stay within the budget, with room for the one claim that was
\* counted and is not committed: the lock keeps a second one from being counted.
OneInserted == \A s, t \in Senders :
    sender[s].pc = "inserted" /\ sender[t].pc = "inserted" => s = t
Room == \A s \in Senders :
    sender[s].pc = "inserted" /\ sender[s].m \notin Utility => Cardinality(Counting) < Budget

\* The invariant behind BudgetHolds.
BudgetInv == OneInserted /\ Room /\ Cardinality(Counting) <= Budget

\* The rows that count are finitely many.
LEMMA CountingFinite == IsFiniteSet(Counting) /\ Cardinality(Counting) \in Nat
<1>1. Counting \subseteq Messages
  BY DEF Counting
<1> QED BY <1>1, FS_Subset, FS_CardinalityType, MessagesAssumption

\* Fewer rows count than before, or as many.
LEMMA FewerCount ==
    ASSUME Counting' \subseteq Counting
    PROVE  Cardinality(Counting') \in Nat /\ Cardinality(Counting') <= Cardinality(Counting)
  BY CountingFinite, FS_Subset, FS_CardinalityType

\* A step after which no more rows count, and no more senders are between insert and commit.
LEMMA NoMoreCount ==
    ASSUME BudgetInv, Counting' \subseteq Counting,
           \A s \in Senders : sender'[s].pc = "inserted" => sender'[s] = sender[s]
    PROVE  BudgetInv'
<1>1. /\ Cardinality(Counting) \in Nat /\ Cardinality(Counting') \in Nat /\ Budget \in Nat
      /\ Cardinality(Counting') <= Cardinality(Counting)
  BY CountingFinite, FewerCount, BudgetAssumption
<1>2. OneInserted'
  BY DEF BudgetInv, OneInserted
<1>3. Room'
  BY <1>1 DEF BudgetInv, Room
<1> QED BY <1>1, <1>2, <1>3 DEF BudgetInv

\* A claim counts with the lock held, when nobody else's count is outstanding.
LEMMA ClaimInsertWithinBudget ==
    ASSUME EnInv, BudgetInv, NEW s \in Senders, ClaimInsert(s)
    PROVE  BudgetInv'
<1>1. Counting' = Counting
  BY DEF ClaimInsert, Counting
<1>2. CASE sender' = [sender EXCEPT ![s] = NotSending]
  BY <1>1, <1>2, NoMoreCount DEF EnInv, EnTypes, NotSending
<1>3. CASE At(s, "inserted") /\ WithinBudget(sender[s].m)
  <2>1. /\ sender' = [sender EXCEPT ![s] = [sender[s] EXCEPT !.pc = "inserted"]]
        /\ [sender[s] EXCEPT !.pc = "inserted"].m = sender[s].m
    BY <1>3, SenderAt DEF At, ClaimInsert
  <2>2. \A t \in Senders : sender[t].pc # "inserted"
    BY DEF ClaimInsert, ClaimLockFree
  <2>3. sender[s].m \notin Utility => Cardinality(Counting) < Budget
    BY <1>3 DEF WithinBudget
  <2>4. \A t \in Senders : sender'[t].pc = "inserted" => t = s
    BY <2>1, <2>2 DEF EnInv, EnTypes
  <2>5. sender'[s].m = sender[s].m
    BY <2>1 DEF EnInv, EnTypes
  <2> QED BY <1>1, <2>3, <2>4, <2>5 DEF BudgetInv, OneInserted, Room
<1> QED BY <1>2, <1>3 DEF ClaimInsert

\* Its commit adds the one row for which there was room.
LEMMA ClaimCommitWithinBudget ==
    ASSUME EnInv, BudgetInv, NEW s \in Senders, ClaimCommit(s)
    PROVE  BudgetInv'
<1>1. CASE ~ NoConflict(sender[s].m)
  <2>1. sender' = [sender EXCEPT ![s] = NotSending] /\ Counting' = Counting
    BY <1>1 DEF ClaimCommit, Counting
  <2> QED BY <2>1, NoMoreCount DEF EnInv, EnTypes, NotSending
<1>2. CASE NoConflict(sender[s].m)
  <2> DEFINE m == sender[s].m
  <2>1. /\ sends' = [sends EXCEPT ![m] = "sending"] /\ aged' = aged
        /\ sender' = [sender EXCEPT ![s] = [sender[s] EXCEPT !.pc = "deliver"]]
        /\ sender[s].pc = "inserted"
    BY <1>2, Zenon DEF ClaimCommit, At
  <2>2. /\ [sender[s] EXCEPT !.pc = "deliver"].pc = "deliver" /\ m \in Messages
    BY <2>1, SenderAt
  <2>3. \A t \in Senders : sender'[t].pc # "inserted"
    <3>1. \A t \in Senders : sender[t].pc = "inserted" => t = s
      BY <2>1 DEF BudgetInv, OneInserted
    <3>2. sender'[s].pc = "deliver" /\ \A t \in Senders \ {s} : sender'[t] = sender[t]
      BY <2>1, <2>2 DEF EnInv, EnTypes
    <3> QED BY <3>1, <3>2
  <2>4. Cardinality(Counting') <= Budget
    <3>1. CASE m \in Utility
      <4>1. Counting' \subseteq Counting
        BY <2>1, <3>1 DEF Counting, EnInv, EnTypes
      <4> QED BY <4>1, FewerCount, CountingFinite, BudgetAssumption DEF BudgetInv
    <3>2. CASE m \notin Utility
      <4>1. Counting' \subseteq Counting \cup {m}
        BY <2>1 DEF Counting, EnInv, EnTypes
      <4>2. Cardinality(Counting) < Budget
        BY <2>1, <3>2 DEF BudgetInv, Room
      <4>3. IsFiniteSet(Counting \cup {m}) /\ Cardinality(Counting \cup {m}) <= Cardinality(Counting) + 1
        BY CountingFinite, FS_AddElement
      <4>4. Cardinality(Counting') <= Cardinality(Counting \cup {m})
        BY <4>1, <4>3, FS_Subset
      <4>5. /\ Cardinality(Counting') \in Nat /\ Cardinality(Counting \cup {m}) \in Nat
            /\ Cardinality(Counting) \in Nat /\ Budget \in Nat
        BY <4>1, <4>3, FS_Subset, FS_CardinalityType, CountingFinite, BudgetAssumption
      <4> QED BY <4>2, <4>3, <4>4, <4>5
    <3> QED BY <3>1, <3>2
  <2> QED BY <2>3, <2>4 DEF BudgetInv, OneInserted, Room
<1> QED BY <1>1, <1>2

\* The other steps count no more rows.
LEMMA BudgetInvStep == EnInv /\ BudgetInv /\ [EnNext]_enVars => BudgetInv'
<1> SUFFICES ASSUME EnInv, BudgetInv, [EnNext]_enVars PROVE BudgetInv'
  OBVIOUS
<1> USE DEF EnInv, EnTypes
<1>1. CASE UNCHANGED enVars
  BY <1>1, NoMoreCount DEF enVars, Counting
<1>2. ASSUME NEW s \in Senders, NEW m \in Messages, Consider(s, m) PROVE BudgetInv'
  BY <1>2, NoMoreCount DEF Consider, Counting
<1>3. ASSUME NEW s \in Senders, ClaimInsert(s) PROVE BudgetInv'
  BY <1>3, ClaimInsertWithinBudget
<1>4. ASSUME NEW s \in Senders, ClaimCommit(s) PROVE BudgetInv'
  BY <1>4, ClaimCommitWithinBudget
<1>5. ASSUME NEW s \in Senders, Deliver(s) PROVE BudgetInv'
  <2>1. Counting' = Counting
    BY <1>5 DEF Deliver, Counting
  <2>2. PICK pc \in {"sent", "failed"} :
          sender' = [sender EXCEPT ![s] = [sender[s] EXCEPT !.pc = pc]]
    BY <1>5, Zenon DEF Deliver, At
  <2>3. [sender[s] EXCEPT !.pc = pc].pc = pc
    BY <1>5, SenderAt DEF Deliver
  <2> QED BY <2>1, <2>2, <2>3, NoMoreCount
<1>6. ASSUME NEW s \in Senders, Marked(s) PROVE BudgetInv'
  <2>1. sends[sender[s].m] = "sending"
    BY <1>6 DEF Marked, OwnersRow, PastClaim
  <2>2. Counting' \subseteq Counting
    BY <1>6, <2>1 DEF Marked, Counting
  <2> QED BY <1>6, <2>2, NoMoreCount DEF Marked, NotSending
<1>7. ASSUME NEW s \in Senders, GiveUp(s) PROVE BudgetInv'
  BY <1>7, NoMoreCount DEF GiveUp, Counting, NotSending
<1>8. ASSUME NEW m \in Messages, Skip(m) PROVE BudgetInv'
  BY <1>8, NoMoreCount DEF Skip, Counting
<1>9. ASSUME NEW m \in Messages, Ages(m) PROVE BudgetInv'
  BY <1>9, NoMoreCount DEF Ages, Counting
<1> QED BY <1>1, <1>2, <1>3, <1>4, <1>5, <1>6, <1>7, <1>8, <1>9 DEF EnNext

\* What counts in the window is within the budget, however many senders claim at once
\* (the count under the account's advisory lock, store.go:Claim), and it is all that
\* reached the user but for deliveries that were recorded as failed.
THEOREM WithinTheBudget == EnSpec => []BudgetHolds
<1>1. EnInit => BudgetInv
  <2> SUFFICES ASSUME EnInit PROVE BudgetInv
    OBVIOUS
  <2>1. Counting = {}
    BY DEF EnInit, Counting
  <2>2. Cardinality(Counting) <= Budget
    BY <2>1, FS_EmptySet, BudgetAssumption
  <2> QED BY <2>2 DEF EnInit, BudgetInv, OneInserted, Room, NotSending
<1>2. EnInv /\ BudgetInv => BudgetHolds
  <2> SUFFICES ASSUME EnInv, BudgetInv PROVE BudgetHolds
    OBVIOUS
  <2>1. ASSUME NEW m \in Messages \ (Utility \cup aged), arrived[m] > 0
        PROVE  m \in Counting \/ sends[m] = "failed"
    <3>1. arrived[m] = 1
      BY <2>1 DEF EnInv, EnTypes
    <3> QED BY <2>1, <3>1 DEF Counting, EnInv, ArrivedCounts
  <2> QED BY <2>1 DEF BudgetInv, BudgetHolds
<1> QED BY <1>1, <1>2, EnInvInit, EnInvStep, BudgetInvStep, PTL DEF EnSpec

-----------------------------------------------------------------------------
(***************************************************************************)
(* One account's Pro, proved for any subscriptions, any number of seconds  *)
(* and events, and any order in which Stripe delivers them.                *)
(*                                                                         *)
(* RefundHolds carries itself.  EndedIsEnded does not: that an ending was  *)
(* taken note of says nothing of an event of the same subscription that    *)
(* comes later.  What is missing is on Stripe's side, that an ended        *)
(* subscription emits nothing more (EndsLast), and on the account's, which *)
(* event it is that grants Pro (Granted) and what a seen ending has left   *)
(* behind (Noted).                                                         *)
(***************************************************************************)

CustIds == Subs \cup {0}
SubStates == {"none", "active", "past_due", "ended"}
Events == [kind : {"checkout", "subscription", "refund"}, sub : CustIds, st : SubStates,
           cust : CustIds, at : Nat]

\* The two kinds of events about a subscription.
Ends(ev) == ev.kind = "subscription" /\ ev.st = "ended"
Grants(ev) == ev.kind = "subscription" /\ ev.st # "ended"

-----------------------------------------------------------------------------
(***************************************************************************)
(* The invariant.                                                          *)
(***************************************************************************)
StripeTypes ==
    /\ stripe \in [Subs -> [st : SubStates, cust : CustIds]]
    /\ sec \in Nat /\ emitted \subseteq Events /\ page \subseteq CustIds
    /\ \A ev \in emitted : ev.kind = "subscription" => ev.sub \in Subs

InThePast == \A ev \in emitted : ev.at <= sec

\* An ended subscription stays so, and nothing it emitted is newer than its end.
EndsLast ==
    \A ev \in emitted : Ends(ev) =>
        /\ stripe[ev.sub].st = "ended"
        /\ \A f \in emitted : Grants(f) /\ f.sub = ev.sub => f.at <= ev.at

StripeInv == StripeTypes /\ InThePast /\ EndsLast

RowTypes ==
    /\ customer \in [cust : CustIds, revoked : Int]
    /\ applied \in [Subs -> Int]
    /\ pro \in [st : SubStates, sub : CustIds, at : Int]
    /\ seen \subseteq emitted
    /\ toClose \in CustIds /\ queue \subseteq CustIds

\* An account that is gone has nothing.
NothingLeft == ~ Exists => pro.st = "ended"

\* Pro stands for one event, the last that was applied for its subscription.
Granted ==
    pro.st # "ended" =>
        /\ pro.sub \in Subs /\ applied[pro.sub] = pro.at
        /\ \E ev \in emitted : Grants(ev) /\ ev.sub = pro.sub /\ ev.at = pro.at

\* An ending that was seen either came before a refund or was counted.
Noted ==
    Exists => \A ev \in seen :
        Ends(ev) => ev.at <= customer.revoked \/ ev.at <= applied[ev.sub]

RowInv == RowTypes /\ NothingLeft /\ Granted /\ Noted /\ RefundHolds /\ EndedIsEnded

SBInv == StripeInv /\ RowInv

\* Nothing has happened at first.
LEMMA SBInitInv == SBInit => SBInv
  BY SubsAssumption
     DEF SBInit, SBInv, StripeInv, RowInv, StripeTypes, InThePast, EndsLast, RowTypes,
         NothingLeft, Granted, Noted, RefundHolds, EndedIsEnded, NoCustomer, NoPro,
         NoneApplied, CustIds, SubStates, Exists

-----------------------------------------------------------------------------
(***************************************************************************)
(* Stripe's side.                                                          *)
(***************************************************************************)
\* New events keep the order of a subscription's events if only a live one grants and
\* an ending ends.
LEMMA Emitting ==
  ASSUME StripeInv, NEW E, emitted' = emitted \cup E, sec' = sec,
         \A e \in E : /\ e \in Events /\ e.at = sec
                      /\ e.kind = "subscription" => e.sub \in Subs
                      /\ Ends(e) => stripe'[e.sub].st = "ended"
                      /\ Grants(e) => stripe'[e.sub].st # "ended",
         stripe' \in [Subs -> [st : SubStates, cust : CustIds]],
         \A s \in Subs : stripe[s].st = "ended" => stripe'[s].st = "ended",
         page' \subseteq CustIds
  PROVE  StripeInv' /\ emitted \subseteq emitted'
<1>1. StripeTypes' /\ emitted' \subseteq Events /\ sec \in Nat
  BY DEF StripeInv, StripeTypes
<1>2. InThePast'
  BY <1>1 DEF StripeInv, InThePast, Events
<1>3. ASSUME NEW ev \in emitted', Ends(ev)
      PROVE  /\ stripe'[ev.sub].st = "ended"
             /\ \A f \in emitted' : Grants(f) /\ f.sub = ev.sub => f.at <= ev.at
  <2>1. ev.kind = "subscription" /\ ev.sub \in Subs
    BY <1>1, <1>3 DEF Ends, StripeTypes
  <2>2. stripe'[ev.sub].st = "ended"
    BY <1>3, <2>1 DEF StripeInv, EndsLast
  <2>3. ASSUME NEW f \in emitted', Grants(f), f.sub = ev.sub PROVE f.at <= ev.at
    <3>1. f \in emitted
      BY <2>2, <2>3
    <3>2. CASE ev \in emitted
      BY <1>3, <2>3, <3>1, <3>2 DEF StripeInv, EndsLast
    <3>3. CASE ev \in E
      BY <3>1, <3>3 DEF StripeInv, InThePast
    <3> QED BY <3>2, <3>3
  <2> QED BY <2>2, <2>3
<1> QED BY <1>1, <1>2, <1>3 DEF StripeInv, EndsLast

\* The events that are made are events.
LEMMA MadeEvents ==
  ASSUME StripeTypes
  PROVE  /\ \A s \in Subs, st \in SubStates, c \in CustIds :
                LET e == SubEvent(s, st, c)
                IN  /\ e \in Events /\ e.at = sec /\ e.sub = s /\ e.st = st
                    /\ e.kind = "subscription"
         /\ \A kind \in {"checkout", "refund"}, c \in CustIds :
                LET e == CustomerEvent(kind, c)
                IN  e \in Events /\ e.at = sec /\ e.kind = kind
  BY DEF StripeTypes, SubEvent, CustomerEvent, Events, CustIds, SubStates

\* The user, the operator and the time.
LEMMA StripeStep ==
  ASSUME StripeInv, StripeMoves
  PROVE  StripeInv' /\ emitted \subseteq emitted'
<1>1. StripeTypes /\ Subs \subseteq CustIds
  BY DEF StripeInv, CustIds
<1>2. CASE Second
  <2>1. sec' = sec + 1 /\ UNCHANGED <<stripe, emitted, page>>
    BY <1>2 DEF Second
  <2>2. \A ev \in emitted : ev.at \in Nat
    BY <1>1 DEF StripeTypes, Events
  <2> QED BY <1>1, <2>1, <2>2 DEF StripeInv, StripeTypes, InThePast, EndsLast
<1>3. ASSUME NEW c \in page \ removed, NEW s \in Subs, stripe[s].st = "none",
             NEW cust, cust = IF c = 0 THEN s ELSE c,
             stripe' = [stripe EXCEPT ![s] = [st |-> "active", cust |-> cust]],
             emitted' = emitted \cup {CustomerEvent("checkout", cust), SubEvent(s, "active", cust)},
             page' = page \ {c}, sec' = sec
      PROVE  StripeInv' /\ emitted \subseteq emitted'
  <2> DEFINE E == {CustomerEvent("checkout", cust), SubEvent(s, "active", cust)}
  <2>1. cust \in CustIds /\ page' \subseteq CustIds
    BY <1>1, <1>3 DEF StripeTypes
  <2>2. stripe' \in [Subs -> [st : SubStates, cust : CustIds]] /\ stripe'[s].st = "active"
    BY <1>1, <1>3, <2>1 DEF StripeTypes, SubStates
  <2>3. \A r \in Subs : stripe[r].st = "ended" => stripe'[r].st = "ended"
    BY <1>1, <1>3 DEF StripeTypes
  <2>4. \A e \in E : /\ e \in Events /\ e.at = sec
                     /\ e.kind = "subscription" => e.sub \in Subs
                     /\ Ends(e) => stripe'[e.sub].st = "ended"
                     /\ Grants(e) => stripe'[e.sub].st # "ended"
    BY <1>1, <2>1, <2>2, MadeEvents DEF Ends, Grants, SubStates
  <2>5. emitted' = emitted \cup E
    BY <1>3
  <2> HIDE DEF E
  <2> QED BY <1>3, <2>1, <2>2, <2>3, <2>4, <2>5, Emitting
<1>4. ASSUME NEW s \in Subs, NEW st \in {"active", "past_due", "ended"}, Live(s),
             stripe' = [stripe EXCEPT ![s].st = st],
             emitted' = emitted \cup {SubEvent(s, st, stripe[s].cust)},
             sec' = sec, page' = page
      PROVE  StripeInv' /\ emitted \subseteq emitted'
  <2> DEFINE E == {SubEvent(s, st, stripe[s].cust)}
  <2>1. stripe[s].cust \in CustIds /\ st \in SubStates /\ page' \subseteq CustIds
    BY <1>1, <1>4 DEF StripeTypes, SubStates
  <2>2. stripe' \in [Subs -> [st : SubStates, cust : CustIds]] /\ stripe'[s].st = st
    BY <1>1, <1>4, <2>1 DEF StripeTypes
  <2>3. \A r \in Subs : stripe[r].st = "ended" => stripe'[r].st = "ended"
    BY <1>1, <1>4 DEF StripeTypes, Live
  <2>4. \A e \in E :
            /\ e \in Events /\ e.at = sec
            /\ e.kind = "subscription" => e.sub \in Subs
            /\ Ends(e) => stripe'[e.sub].st = "ended"
            /\ Grants(e) => stripe'[e.sub].st # "ended"
    BY <1>1, <2>1, <2>2, MadeEvents DEF Ends, Grants
  <2>5. emitted' = emitted \cup E
    BY <1>4
  <2> HIDE DEF E
  <2> QED BY <1>4, <2>1, <2>2, <2>3, <2>4, <2>5, Emitting
<1>5. ASSUME NEW s \in Subs, stripe' = stripe, sec' = sec, page' = page,
             emitted' = emitted \cup {CustomerEvent("refund", stripe[s].cust)}
      PROVE  StripeInv' /\ emitted \subseteq emitted'
  <2> DEFINE E == {CustomerEvent("refund", stripe[s].cust)}
  <2>1. stripe[s].cust \in CustIds /\ page' \subseteq CustIds
    BY <1>1, <1>5 DEF StripeTypes
  <2>2. \A e \in E :
            /\ e \in Events /\ e.at = sec
            /\ e.kind = "subscription" => e.sub \in Subs
            /\ Ends(e) => stripe'[e.sub].st = "ended"
            /\ Grants(e) => stripe'[e.sub].st # "ended"
    BY <1>1, <2>1, MadeEvents DEF Ends, Grants
  <2>3. stripe' \in [Subs -> [st : SubStates, cust : CustIds]]
    BY <1>1, <1>5 DEF StripeTypes
  <2>4. emitted' = emitted \cup E /\ \A r \in Subs : stripe[r].st = "ended" => stripe'[r].st = "ended"
    BY <1>5
  <2> HIDE DEF E
  <2> QED BY <1>5, <2>1, <2>2, <2>3, <2>4, Emitting
<1>6. CASE PageCompleted
  BY <1>3, <1>6 DEF PageCompleted
<1>7. CASE SubChanges
  BY <1>4, <1>7 DEF SubChanges
<1>8. CASE Refund
  BY <1>5, <1>8 DEF Refund
<1> QED BY <1>2, <1>6, <1>7, <1>8 DEF StripeMoves

\* Closing a customer at Stripe, as far as it gets.
LEMMA CloseStep ==
  ASSUME StripeInv, NEW c \in CustIds, NEW cancelled \in SUBSET LiveOf(c),
         NEW done \in BOOLEAN, CloseCustomer(c, cancelled, done)
  PROVE  StripeInv' /\ emitted \subseteq emitted'
<1> DEFINE E == {SubEvent(s, "ended", c) : s \in cancelled}
<1>1. StripeTypes /\ cancelled \subseteq Subs
  BY DEF StripeInv, LiveOf
<1>2. /\ stripe' = [s \in Subs |-> IF s \in cancelled THEN [stripe[s] EXCEPT !.st = "ended"]
                                  ELSE stripe[s]]
      /\ emitted' = emitted \cup E /\ sec' = sec /\ page' = page
  BY DEF CloseCustomer
<1>3. \A s \in Subs : stripe[s] \in [st : SubStates, cust : CustIds]
  BY <1>1 DEF StripeTypes
<1>4. stripe' \in [Subs -> [st : SubStates, cust : CustIds]]
  BY <1>2, <1>3 DEF SubStates
<1>5. \A s \in Subs : /\ s \in cancelled => stripe'[s].st = "ended"
                      /\ stripe[s].st = "ended" => stripe'[s].st = "ended"
  BY <1>2, <1>3
<1>6. \A e \in E : /\ e \in Events /\ e.at = sec
                   /\ e.kind = "subscription" => e.sub \in Subs
                   /\ Ends(e) => stripe'[e.sub].st = "ended"
                   /\ Grants(e) => stripe'[e.sub].st # "ended"
  BY <1>1, <1>5, MadeEvents DEF Ends, Grants, SubStates
<1>7. page' \subseteq CustIds
  BY <1>1, <1>2 DEF StripeTypes
<1> HIDE DEF E
<1> QED BY <1>2, <1>4, <1>5, <1>6, <1>7, Emitting

-----------------------------------------------------------------------------
(***************************************************************************)
(* The account's rows.                                                     *)
(***************************************************************************)
\* Steps of Stripe, and of an account that stays, leave the rows alone.
LEMMA RowsStay ==
  ASSUME RowInv, StripeInv', emitted \subseteq emitted',
         UNCHANGED <<seen, rows>>, Exists' = Exists,
         toClose' \in CustIds, queue' \subseteq CustIds
  PROVE  RowInv'
<1>1. RowTypes'
  BY DEF RowInv, RowTypes, rows
<1> QED BY <1>1
        DEF RowInv, RowTypes, NothingLeft, Granted, Noted, RefundHolds, EndedIsEnded, rows

\* The webhook, whichever event it is given: what it counts against what it has counted
\* and against the refund.
LEMMA WebhookStep ==
  ASSUME SBInv, Webhook
  PROVE  SBInv'
<1> PICK ev \in emitted \ seen :
        CheckoutCompleted(ev) \/ SubscriptionChanged(ev) \/ ChargeRefunded(ev) \/ Unmapped(ev)
  BY DEF Webhook
<1>1. /\ seen' = seen \cup {ev} /\ UNCHANGED <<stripe, sec, emitted, page, account, toClose, queue>>
      /\ Exists' = Exists
  BY DEF CheckoutCompleted, SubscriptionChanged, ChargeRefunded, Unmapped, Acknowledged,
         atStripe, closure, Exists
<1>2. StripeInv /\ StripeInv' /\ RowInv
  BY <1>1 DEF SBInv, StripeInv, StripeTypes, InThePast, EndsLast
<1>3. /\ ev \in Events /\ ev.at \in Nat /\ ev.cust \in CustIds /\ ev.st \in SubStates
      /\ ev.kind = "subscription" => ev.sub \in Subs
      /\ \A e \in emitted : e.at \in Nat /\ e \in Events
  BY <1>2 DEF StripeInv, StripeTypes, Events
<1>4. /\ customer \in [cust : CustIds, revoked : Int] /\ customer.revoked \in Int
      /\ applied \in [Subs -> Int] /\ seen \subseteq emitted
      /\ pro \in [st : SubStates, sub : CustIds, at : Int]
      /\ \A e \in seen : Ends(e) => e.sub \in Subs /\ applied[e.sub] \in Int
  BY <1>2 DEF StripeInv, RowInv, RowTypes, Ends, StripeTypes
<1>5. CASE CheckoutCompleted(ev)
  <2>1. /\ customer' \in [cust : CustIds, revoked : Int]
        /\ customer'.revoked = customer.revoked
        /\ applied' = applied /\ pro' = pro /\ ~ Ends(ev)
    BY <1>3, <1>4, <1>5 DEF CheckoutCompleted, Ends
  <2> QED BY <1>1, <1>2, <2>1
          DEF SBInv, RowInv, RowTypes, NothingLeft, Granted, Noted, RefundHolds, EndedIsEnded,
              Ends
<1>6. CASE Unmapped(ev)
  <2>1. customer' = customer /\ applied' = applied /\ pro' = pro /\ (Ends(ev) => ~ Exists)
    BY <1>6 DEF Unmapped, rows, Ends
  <2> QED BY <1>1, <1>2, <2>1
          DEF SBInv, RowInv, RowTypes, NothingLeft, Granted, Noted, RefundHolds, EndedIsEnded,
              Ends
<1>7. CASE ChargeRefunded(ev)
  <2>1. /\ customer' \in [cust : CustIds, revoked : Int]
        /\ customer.revoked <= customer'.revoked
        /\ applied' = applied /\ pro' \in [st : SubStates, sub : CustIds, at : Int]
        /\ pro'.st = "ended" /\ ~ Ends(ev)
    BY <1>3, <1>4, <1>7 DEF ChargeRefunded, Ends, SubStates
  <2>2. Noted'
    BY <1>1, <1>2, <1>3, <1>4, <2>1 DEF RowInv, Noted
  <2>3. RowTypes'
    BY <1>1, <1>2, <2>1 DEF RowInv, RowTypes
  <2> QED BY <1>2, <2>1, <2>2, <2>3
          DEF SBInv, RowInv, NothingLeft, Granted, RefundHolds, EndedIsEnded
<1>8. CASE SubscriptionChanged(ev) /\ (Revoked(ev) \/ ~ Newest(ev))
  <2>1. /\ ev.kind = "subscription" /\ ev.sub \in Subs
        /\ customer' \in [cust : CustIds, revoked : Int]
        /\ customer'.revoked = customer.revoked
        /\ applied' = applied /\ pro' = pro
    BY <1>3, <1>4, <1>8 DEF SubscriptionChanged
  <2>2. Ends(ev) => ev.at <= customer.revoked \/ ev.at <= applied[ev.sub]
    BY <1>3, <1>4, <1>8, <2>1 DEF Revoked, Newest, Ends
  \* An ending that does not count is older than what grants Pro, or of another.
  <2>3. ASSUME Ends(ev), pro.sub = ev.sub, pro.st # "ended" PROVE FALSE
    <3>1. pro.at \in Int /\ pro.at > customer.revoked /\ applied[ev.sub] = pro.at
      BY <1>2, <1>4, <2>3 DEF RowInv, RefundHolds, Granted
    <3>2. PICK f \in emitted : Grants(f) /\ f.sub = ev.sub /\ f.at = pro.at
      BY <1>2, <2>3 DEF RowInv, Granted
    <3>3. f.at <= ev.at
      BY <1>2, <2>3, <3>2 DEF StripeInv, EndsLast
    <3>4. ev.at > customer.revoked /\ ev.at >= applied[ev.sub]
      BY <1>3, <1>4, <3>1, <3>2, <3>3
    <3> QED BY <1>3, <1>4, <1>8, <2>3, <3>1, <3>4 DEF Revoked, Newest, Ends
  <2>4. RowTypes' /\ NothingLeft' /\ Granted' /\ RefundHolds'
    BY <1>1, <1>2, <2>1 DEF RowInv, RowTypes, NothingLeft, Granted, RefundHolds
  <2>5. Noted'
    BY <1>1, <1>2, <2>1, <2>2 DEF RowInv, Noted
  <2>6. EndedIsEnded'
    BY <1>1, <1>2, <2>1, <2>3 DEF RowInv, EndedIsEnded, Ends
  <2> QED BY <1>2, <2>4, <2>5, <2>6 DEF SBInv, RowInv
<1>9. CASE SubscriptionChanged(ev) /\ ~ Revoked(ev) /\ Newest(ev)
  <2>1. /\ ev.kind = "subscription" /\ ev.sub \in Subs /\ ev.sub \in CustIds /\ Exists
        /\ customer' \in [cust : CustIds, revoked : Int]
        /\ customer'.revoked = customer.revoked
        /\ applied' = [applied EXCEPT ![ev.sub] = ev.at]
        /\ pro' = [st |-> ev.st, sub |-> ev.sub, at |-> ev.at]
    BY <1>3, <1>4, <1>9 DEF SubscriptionChanged, CustIds
  <2>2. /\ applied' \in [Subs -> Int] /\ applied'[ev.sub] = ev.at
        /\ \A s \in Subs : applied[s] <= applied'[s]
    BY <1>3, <1>4, <1>9, <2>1 DEF Newest
  <2>3. ev.at > customer.revoked
    BY <1>3, <1>4, <1>9 DEF Revoked
  \* What grants Pro again came after every ending that was counted, and an ending
  \* that was not came before a refund, so before this event: no ending of this
  \* subscription was seen at all.
  <2>4. ASSUME NEW e \in seen, Ends(e), e.sub = ev.sub, ev.st # "ended" PROVE FALSE
    <3>1. ev.at <= e.at /\ e \in emitted /\ e.at \in Nat
      BY <1>2, <1>3, <1>4, <2>1, <2>4 DEF StripeInv, EndsLast, Grants
    <3>2. e.at <= customer.revoked \/ e.at <= applied[e.sub]
      BY <1>2, <2>1, <2>4 DEF RowInv, Noted
    <3>3. applied[ev.sub] < ev.at
      BY <1>9, <2>4 DEF Newest
    <3> QED BY <1>3, <1>4, <2>1, <2>3, <2>4, <3>1, <3>2, <3>3
  <2>5. RowTypes'
    BY <1>1, <1>2, <1>3, <2>1, <2>2 DEF RowInv, RowTypes
  <2>6. NothingLeft' /\ RefundHolds'
    BY <1>1, <2>1, <2>3 DEF NothingLeft, RefundHolds
  <2>7. Granted'
    BY <1>1, <1>3, <2>1, <2>2 DEF Granted, Grants
  <2>8. Noted'
    <3>1. ASSUME NEW e \in seen', Ends(e)
          PROVE  e.at <= customer.revoked \/ e.at <= applied'[e.sub]
      <4>1. CASE e = ev
        BY <1>3, <2>2, <4>1
      <4>2. CASE e \in seen
        BY <1>2, <1>3, <1>4, <2>1, <2>2, <3>1, <4>2 DEF RowInv, Noted
      <4> QED BY <1>1, <4>1, <4>2
    <3> QED BY <2>1, <3>1 DEF Noted
  <2>9. EndedIsEnded'
    BY <1>1, <2>1, <2>4 DEF EndedIsEnded, Ends
  <2> QED BY <1>2, <2>5, <2>6, <2>7, <2>8, <2>9 DEF SBInv, RowInv
<1> QED BY <1>5, <1>6, <1>7, <1>8, <1>9

\* The account's own steps: opening a page, and each step of its deletion.
LEMMA AccountStep ==
  ASSUME SBInv, Checkout \/ CloseAccount \/ Remember \/ DeleteUser \/ DeletionStops
  PROVE  SBInv'
<1>1. StripeInv /\ RowInv /\ RowTypes /\ customer.cust \in CustIds
  BY DEF SBInv, RowInv, RowTypes
<1>2. UNCHANGED <<stripe, sec, emitted, seen>>
  BY DEF Checkout, CloseAccount, Remember, DeleteUser, DeletionStops, atStripe
<1>3. page' \subseteq CustIds
  BY <1>1 DEF Checkout, CloseAccount, Remember, DeleteUser, DeletionStops, atStripe, StripeInv,
     StripeTypes
<1>4. StripeInv'
  BY <1>1, <1>2, <1>3 DEF StripeInv, StripeTypes, InThePast, EndsLast
<1>5. CASE Checkout \/ CloseAccount \/ Remember \/ DeletionStops
  <2>1. /\ UNCHANGED rows /\ Exists' = Exists
        /\ toClose' \in {toClose, customer.cust, 0} /\ queue' = queue
    BY <1>5 DEF Checkout, CloseAccount, Remember, DeletionStops, Exists, closure
  <2>2. toClose' \in CustIds /\ queue' \subseteq CustIds
    BY <1>1, <2>1 DEF RowTypes, CustIds
  <2> QED BY <1>1, <1>2, <1>4, <2>1, <2>2, RowsStay DEF SBInv
<1>6. CASE DeleteUser
  <2>1. /\ customer' = NoCustomer /\ applied' = NoneApplied /\ pro' = NoPro
        /\ toClose' = 0 /\ queue' = queue /\ account' = "gone"
    BY <1>6 DEF DeleteUser
  <2>2. RowTypes'
    BY <1>1, <1>2, <2>1 DEF RowTypes, NoCustomer, NoneApplied, NoPro, CustIds, SubStates
  <2> QED BY <1>4, <2>1, <2>2
          DEF SBInv, RowInv, NothingLeft, Granted, Noted, RefundHolds, EndedIsEnded, NoPro,
              Exists
<1> QED BY <1>5, <1>6

\* The cancellation at Stripe, at the deletion and retried.
LEMMA CancelStep ==
  ASSUME SBInv,
         \/ \E done \in BOOLEAN : \E cancelled \in SUBSET LiveOf(toClose) : BeforeDelete(cancelled, done)
         \/ RetryOnce
  PROVE  SBInv'
<1>1. StripeInv /\ RowInv /\ RowTypes /\ toClose \in CustIds /\ queue \subseteq CustIds
  BY DEF SBInv, RowInv, RowTypes
<1>2. /\ UNCHANGED <<seen, rows>> /\ toClose' \in {toClose, 0}
      /\ queue' \subseteq queue \cup {toClose} /\ Exists' = Exists
  BY DEF BeforeDelete, RetryOnce, RetryClose, Resolve, Queued, Exists, closure
<1>3. toClose' \in CustIds /\ queue' \subseteq CustIds
  BY <1>1, <1>2 DEF CustIds
<1>4. StripeInv' /\ emitted \subseteq emitted'
  <2>1. ASSUME NEW done \in BOOLEAN, NEW cancelled \in SUBSET LiveOf(toClose), BeforeDelete(cancelled, done)
        PROVE  StripeInv' /\ emitted \subseteq emitted'
    BY <1>1, <2>1, CloseStep DEF BeforeDelete
  <2>2. ASSUME NEW c \in queue, NEW done \in BOOLEAN, NEW cancelled \in SUBSET LiveOf(c), RetryClose(c, cancelled, done)
        PROVE  StripeInv' /\ emitted \subseteq emitted'
    BY <1>1, <2>2, CloseStep DEF RetryClose
  <2>3. ASSUME NEW c \in queue, Resolve(c)
        PROVE  StripeInv' /\ emitted \subseteq emitted'
    BY <1>1, <2>3 DEF Resolve, atStripe, StripeInv, StripeTypes, InThePast, EndsLast
  <2> QED BY <2>1, <2>2, <2>3 DEF RetryOnce
<1> QED BY <1>1, <1>2, <1>3, <1>4, RowsStay DEF SBInv

-----------------------------------------------------------------------------
(***************************************************************************)
(* The theorems.                                                           *)
(***************************************************************************)
\* Every step keeps the invariant.
LEMMA SBInvStep == SBInv /\ [SBNext]_sbVars => SBInv'
<1> SUFFICES ASSUME SBInv, [SBNext]_sbVars PROVE SBInv'
  OBVIOUS
<1>1. CASE StripeMoves
  <2>1. UNCHANGED <<seen, rows, toClose, queue>> /\ Exists' = Exists
    BY <1>1 DEF StripeMoves, closure, Exists
  <2>2. StripeInv' /\ emitted \subseteq emitted'
    BY <1>1, StripeStep DEF SBInv
  <2>3. toClose' \in CustIds /\ queue' \subseteq CustIds
    BY <2>1 DEF SBInv, RowInv, RowTypes
  <2> QED BY <2>1, <2>2, <2>3, RowsStay DEF SBInv
<1>2. CASE UNCHANGED sbVars
  BY <1>2 DEF sbVars, SBInv, StripeInv, RowInv, StripeTypes, InThePast, EndsLast, RowTypes,
              NothingLeft, Granted, Noted, RefundHolds, EndedIsEnded, Exists
<1> QED BY <1>1, <1>2, WebhookStep, AccountStep, CancelStep DEF SBNext

\* What the rows say of Stripe's events holds in every behaviour, for any number of
\* subscriptions and events and any order of their delivery.
THEOREM BillingInvariance == SBSpec => []SBInv
  BY SBInitInv, SBInvStep, PTL DEF SBSpec

\* Once the end of a subscription has been taken note of, that subscription grants Pro no
\* more: not by an event that was delivered late, nor by one of the same second.
THEOREM EndedStaysEnded == SBSpec => []EndedIsEnded
<1>1. SBInv => EndedIsEnded
  BY DEF SBInv, RowInv
<1> QED BY <1>1, BillingInvariance, PTL

\* Nothing from before a full refund, or of its second, brings Pro back.
THEOREM RefundStays == SBSpec => []RefundHolds
<1>1. SBInv => RefundHolds
  BY DEF SBInv, RowInv
<1> QED BY <1>1, BillingInvariance, PTL

-----------------------------------------------------------------------------
(***************************************************************************)
(* Breaker, for any settings.  What must be remembered of a cooldown is how*)
(* many probes have failed to make it (CooldownIs), and of an admission,   *)
(* which of the breaker's clocks it is older than (SinceProbe).            *)
(***************************************************************************)

\* The breaker's states.
BrStates == {"none", "closed", "open", "half_open"}

\* The types that the proof needs; the hits are of none.
BrTypes ==
    /\ brk = [st |-> brk.st, cooldown |-> brk.cooldown, openFor |-> brk.openFor,
              probeFor |-> brk.probeFor, hits |-> brk.hits]
    /\ brk.st \in BrStates
    /\ brk.cooldown \in Nat /\ brk.openFor \in Nat /\ brk.probeFor \in Nat
    /\ calls \in Nat
    /\ probing \in [since : Nat, failed : 0 .. MaxCooldown]

\* The cooldown is what the probes that failed make it.
CooldownIs(c, failed) == c = Min({Backoff[failed], MaxCooldown})

\* Which of the breaker's clocks the last admission is older than.
SinceProbe ==
    /\ brk.st \in {"none", "closed"} => probing.failed = 0
    /\ CooldownIs(brk.cooldown, probing.failed)
    /\ brk.st = "open" /\ probing.failed # 0 => probing.since >= brk.openFor
    /\ brk.st = "half_open" => probing.since >= brk.probeFor

BrInv == BrTypes /\ SinceProbe

\* The settings.
LEMMA BrSettings ==
    /\ Cooldown \in Nat \ {0} /\ MaxCooldown \in Nat \ {0} /\ ProbeTimeout \in Nat \ {0}
    /\ MaxCalls \in Nat /\ Cooldown <= MaxCooldown
BY BreakerAssumption

\* The doubling is defined.
LEMMA BackoffIs ==
    /\ Backoff \in [Nat -> Nat] /\ Backoff[0] = Cooldown
    /\ \A n \in Nat : Backoff[n + 1] = 2 * Backoff[n]
<1> DEFINE g == [n \in Nat |-> [v \in Nat |-> 2 * v]]
<1>1. \A n, v \in Nat : g[n][v] = 2 * v
  OBVIOUS
<1> HIDE DEF g
<1>2. PICK f \in [Nat -> Nat] : f[0] = Cooldown /\ \A n \in Nat : f[n + 1] = g[n][f[n]]
  <2>1. Cooldown \in Nat /\ \A n, v \in Nat : g[n][v] \in Nat
    BY <1>1, BrSettings
  <2>2. \A h : (\A n, v \in Nat : h[n][v] \in Nat) =>
              \E f \in [Nat -> Nat] : f[0] = Cooldown /\ \A n \in Nat : f[n + 1] = h[n][f[n]]
    BY <2>1, Recursion
  <2> QED BY <2>1, <2>2
<1>3. f = [n \in Nat |-> IF n = 0 THEN Cooldown ELSE 2 * f[n - 1]]
  <2>1. ASSUME NEW n \in Nat PROVE f[n] = IF n = 0 THEN Cooldown ELSE 2 * f[n - 1]
    <3>1. CASE n = 0
      BY <1>2, <3>1
    <3>2. CASE n # 0
      <4>1. n - 1 \in Nat /\ (n - 1) + 1 = n
        BY <3>2
      <4>2. f[(n - 1) + 1] = g[n - 1][f[n - 1]] /\ f[n - 1] \in Nat
        BY <1>2, <4>1
      <4> QED BY <1>1, <3>2, <4>1, <4>2
    <3> QED BY <3>1, <3>2
  <2> QED BY <2>1
<1>4. Backoff = [n \in Nat |-> IF n = 0 THEN Cooldown ELSE 2 * Backoff[n - 1]]
  BY <1>3 DEF Backoff
<1>5. Backoff[0] = Cooldown
  BY <1>4
<1>6. \A n \in Nat : Backoff[n + 1] = 2 * Backoff[n]
  <2>1. \A n \in Nat : n + 1 \in Nat /\ n + 1 # 0 /\ (n + 1) - 1 = n
    OBVIOUS
  <2> HIDE DEF Backoff
  <2> QED BY <1>4, <2>1
<1>7. Backoff \in [Nat -> Nat]
  <2> DEFINE A == {n \in Nat : Backoff[n] \in Nat}
  <2>1. 0 \in A
    BY <1>5, BrSettings
  <2>2. \A n \in A : n + 1 \in A
    BY <1>6
  <2>3. A = Nat
    <3> HIDE DEF A
    <3>1. A \in SUBSET Nat
      BY DEF A
    <3> QED BY <2>1, <2>2, <3>1, Induction
  <2> QED BY <1>4, <2>3
<1> QED BY <1>5, <1>6, <1>7

\* After MaxCooldown probes it is the maximum that counts.
LEMMA BackoffGrows == \A n \in Nat : n < Backoff[n]
<1> DEFINE A == {n \in Nat : n < Backoff[n]}
<1>1. 0 \in A
  BY BackoffIs, BrSettings
<1>2. \A n \in A : n + 1 \in A
  BY BackoffIs
<1>3. A = Nat
  <2> HIDE DEF A
  <2>1. A \in SUBSET Nat
    BY DEF A
  <2> QED BY <1>1, <1>2, <2>1, Induction
<1> QED BY <1>3

\* A cooldown that is what it should be is so after another failure.
LEMMA CooldownDoubles ==
    ASSUME NEW n \in 0 .. MaxCooldown, NEW c \in Nat, CooldownIs(c, n)
    PROVE  /\ Min({2 * c, MaxCooldown}) \in Nat
           /\ Min({n + 1, MaxCooldown}) \in 0 .. MaxCooldown /\ Min({n + 1, MaxCooldown}) # 0
           /\ CooldownIs(Min({2 * c, MaxCooldown}), Min({n + 1, MaxCooldown}))
<1>1. MaxCooldown \in Nat \ {0} /\ n \in Nat /\ n + 1 \in Nat /\ 2 * c \in Nat
  BY BrSettings
<1>2. Backoff[n] \in Nat /\ Backoff[n + 1] \in Nat /\ Backoff[n + 1] = 2 * Backoff[n]
  BY <1>1, BackoffIs
<1>3. c = IF Backoff[n] <= MaxCooldown THEN Backoff[n] ELSE MaxCooldown
  BY <1>1, <1>2, MinOfTwo DEF CooldownIs
<1>4. Min({2 * c, MaxCooldown}) = IF 2 * c <= MaxCooldown THEN 2 * c ELSE MaxCooldown
  BY <1>1, MinOfTwo
<1>5. Min({n + 1, MaxCooldown}) = IF n + 1 <= MaxCooldown THEN n + 1 ELSE MaxCooldown
  BY <1>1, MinOfTwo
<1>6. Min({Backoff[n + 1], MaxCooldown}) = IF Backoff[n + 1] <= MaxCooldown THEN Backoff[n + 1] ELSE MaxCooldown
  BY <1>1, <1>2, MinOfTwo
<1>7. CASE n + 1 <= MaxCooldown
  <2>1. Min({2 * c, MaxCooldown}) = Min({Backoff[n + 1], MaxCooldown})
    BY <1>1, <1>2, <1>3, <1>4, <1>6
  <2>2. Min({n + 1, MaxCooldown}) = n + 1
    BY <1>5, <1>7
  <2>3. CooldownIs(Min({2 * c, MaxCooldown}), n + 1)
    BY <2>1 DEF CooldownIs
  <2>4. Min({2 * c, MaxCooldown}) \in Nat /\ n + 1 \in 0 .. MaxCooldown /\ n + 1 # 0
    BY <1>1, <1>4, <1>7
  <2> QED BY <2>2, <2>3, <2>4
<1>8. CASE n + 1 > MaxCooldown
  <2>1. n = MaxCooldown /\ MaxCooldown < Backoff[n]
    BY <1>1, <1>8, BackoffGrows
  <2>2. c = MaxCooldown
    BY <1>1, <1>2, <1>3, <2>1
  <2>3. Min({2 * c, MaxCooldown}) = MaxCooldown
    BY <1>1, <1>4, <2>2
  <2>4. Min({n + 1, MaxCooldown}) = MaxCooldown
    BY <1>1, <1>5, <1>8
  <2>5. CooldownIs(MaxCooldown, MaxCooldown)
    BY <1>1, <2>1, <2>2 DEF CooldownIs
  <2>6. MaxCooldown \in 0 .. MaxCooldown /\ MaxCooldown # 0
    BY <1>1
  <2> QED BY <1>1, <2>3, <2>4, <2>5, <2>6
<1> QED BY <1>1, <1>7, <1>8

\* The ages.
LEMMA AgesAre ==
    /\ LongAgo \in Nat /\ LongAgo >= MaxCooldown /\ LongAgo >= ProbeTimeout
    /\ \A age, cap \in Nat : Older(age, cap) = IF age + 1 <= cap THEN age + 1 ELSE cap
<1>1. MaxCooldown \in Nat /\ ProbeTimeout \in Nat
  BY BrSettings
<1>2. LongAgo = IF MaxCooldown <= ProbeTimeout THEN ProbeTimeout ELSE MaxCooldown
  BY <1>1, MaxOfTwo DEF LongAgo
<1>3. \A age, cap \in Nat : Older(age, cap) = IF age + 1 <= cap THEN age + 1 ELSE cap
  <2>1. \A age \in Nat : age + 1 \in Nat
    OBVIOUS
  <2> QED BY <2>1, MinOfTwo DEF Older
<1> QED BY <1>1, <1>2, <1>3

\* A closed breaker's cooldown.
LEMMA ClosedCooldown == CooldownIs(Cooldown, 0)
<1>1. Cooldown \in Nat /\ MaxCooldown \in Nat /\ Cooldown <= MaxCooldown
  BY BrSettings
<1>2. Min({Cooldown, MaxCooldown}) = Cooldown
  BY <1>1, MinOfTwo
<1> QED BY <1>2, BackoffIs DEF CooldownIs

\* No probe is a probe record without failures.
LEMMA NotProbingIs == NotProbing \in [since : Nat, failed : 0 .. MaxCooldown] /\ NotProbing.failed = 0
BY AgesAre, BrSettings DEF NotProbing

\* It holds of a process that has no breaker yet.
LEMMA BrInvInit == BrInit => BrInv
<1> SUFFICES ASSUME BrInit PROVE BrInv
  OBVIOUS
<1>1. brk = [st |-> "none", cooldown |-> Cooldown, openFor |-> 0, probeFor |-> 0, hits |-> Closed.hits]
  BY DEF BrInit, Closed
<1>2. calls = 0 /\ probing = NotProbing
  BY DEF BrInit
<1> QED BY <1>1, <1>2, ClosedCooldown, NotProbingIs, BrSettings DEF BrInv, BrTypes, SinceProbe, BrStates

\* A breaker that closes, or is made.
LEMMA CloseKeeps ==
    ASSUME brk' = Closed, probing' \in [since : Nat, failed : 0 .. MaxCooldown],
           probing'.failed = 0, calls' \in Nat
    PROVE  BrInv'
<1>1. brk' = [st |-> "closed", cooldown |-> Cooldown, openFor |-> 0, probeFor |-> 0, hits |-> Closed.hits]
  BY DEF Closed
<1> QED BY <1>1, ClosedCooldown, BrSettings DEF BrInv, BrTypes, SinceProbe, BrStates

\* A failed probe: open again, for longer, from now.
LEMMA ReopenKeeps ==
    ASSUME BrInv, NEW b, Reopen(b), calls' \in Nat,
           b = [st |-> b.st, cooldown |-> brk.cooldown, openFor |-> brk.openFor,
                probeFor |-> brk.probeFor, hits |-> b.hits]
    PROVE  BrInv'
<1> DEFINE c == Min({2 * brk.cooldown, MaxCooldown})
           n == Min({probing.failed + 1, MaxCooldown})
<1>1. brk' = [st |-> "open", cooldown |-> c, openFor |-> 0, probeFor |-> brk.probeFor, hits |-> b.hits]
  <2>1. b.cooldown = brk.cooldown /\ b.probeFor = brk.probeFor
    OBVIOUS
  <2>2. brk' = [b EXCEPT !.st = "open", !.openFor = 0, !.cooldown = Min({2 * b.cooldown, MaxCooldown})]
    BY DEF Reopen, Reopened
  <2>3. brk' = [b EXCEPT !.st = "open", !.openFor = 0, !.cooldown = c]
    BY <2>1, <2>2
  <2> HIDE DEF c
  <2> QED BY <2>1, <2>3
<1>2. probing' = [since |-> probing.since, failed |-> n]
  BY DEF Reopen, BrInv, BrTypes
<1>3. c \in Nat /\ n \in 0 .. MaxCooldown /\ n # 0 /\ CooldownIs(c, n)
  <2>1. probing.failed \in 0 .. MaxCooldown /\ brk.cooldown \in Nat /\ CooldownIs(brk.cooldown, probing.failed)
    BY DEF BrInv, BrTypes, SinceProbe
  <2> QED BY <2>1, CooldownDoubles
<1>4. probing.since \in Nat /\ brk.probeFor \in Nat
  BY DEF BrInv, BrTypes
<1> HIDE DEF c, n
<1> QED BY <1>1, <1>2, <1>3, <1>4 DEF BrInv, BrTypes, SinceProbe, BrStates

\* A step that leaves the state and the clocks, or opens a closed breaker.
LEMMA OpenKeeps ==
    ASSUME BrInv, NEW h, UNCHANGED probing, calls' \in Nat,
           \/ brk' = [brk EXCEPT !.hits = h]
           \/ brk.st = "closed" /\ brk' = [brk EXCEPT !.st = "open", !.openFor = 0, !.hits = h]
    PROVE  BrInv'
<1>1. CASE brk' = [brk EXCEPT !.hits = h]
  BY <1>1 DEF BrInv, BrTypes, SinceProbe
<1>2. CASE brk.st = "closed" /\ brk' = [brk EXCEPT !.st = "open", !.openFor = 0, !.hits = h]
  BY <1>2 DEF BrInv, BrTypes, SinceProbe, BrStates
<1> QED BY <1>1, <1>2

\* Every clock ages with the others, and the one that the property is about goes on for
\* longest.
LEMMA TimePassesKeeps == ASSUME BrInv, TimePasses PROVE BrInv'
<1> DEFINE h == [k \in Kinds |-> SelectSeq([i \in DOMAIN brk.hits[k] |-> brk.hits[k][i] + 1],
                                          LAMBDA age : age <= Window)]
           o == Older(brk.openFor, MaxCooldown)
           p == Older(brk.probeFor, ProbeTimeout)
           s == Older(probing.since, LongAgo)
<1>1. brk' = [brk EXCEPT !.openFor = o, !.probeFor = p, !.hits = h]
  BY DEF TimePasses
<1> HIDE DEF h
<1>2. brk' = [st |-> brk.st, cooldown |-> brk.cooldown, openFor |-> o, probeFor |-> p, hits |-> h]
  BY <1>1 DEF BrInv, BrTypes
<1>3. probing' = [since |-> s, failed |-> probing.failed]
  BY DEF TimePasses, BrInv, BrTypes
<1>4. MaxCooldown \in Nat /\ ProbeTimeout \in Nat
  BY BrSettings
<1>5. brk.openFor \in Nat /\ brk.probeFor \in Nat /\ probing.since \in Nat
  BY DEF BrInv, BrTypes
<1>6. /\ o \in Nat /\ p \in Nat /\ s \in Nat
      /\ probing.since >= brk.openFor => s >= o
      /\ probing.since >= brk.probeFor => s >= p
  <2>1. o = IF brk.openFor + 1 <= MaxCooldown THEN brk.openFor + 1 ELSE MaxCooldown
    BY <1>4, <1>5, AgesAre
  <2>2. p = IF brk.probeFor + 1 <= ProbeTimeout THEN brk.probeFor + 1 ELSE ProbeTimeout
    BY <1>4, <1>5, AgesAre
  <2>3. s = IF probing.since + 1 <= LongAgo THEN probing.since + 1 ELSE LongAgo
    BY <1>5, AgesAre
  <2> HIDE DEF o, p, s
  <2> QED BY <1>4, <1>5, <2>1, <2>2, <2>3, AgesAre
<1> HIDE DEF o, p, s
<1>7. calls' = calls
  BY DEF TimePasses
<1> QED BY <1>2, <1>3, <1>6, <1>7 DEF BrInv, BrTypes, SinceProbe

\* A call is admitted while the breaker is closed, or as its probe.
LEMMA AllowKeeps == ASSUME BrInv, Allow PROVE BrInv'
<1>1. calls' \in Nat
  BY DEF Allow, BrInv, BrTypes
<1>2. CASE brk.st = "closed" /\ UNCHANGED <<brk, probing>>
  BY <1>1, <1>2 DEF BrInv, BrTypes, SinceProbe
<1>3. CASE brk' = [brk EXCEPT !.st = "half_open", !.probeFor = 0] /\ probing' = [probing EXCEPT !.since = 0]
  <2>1. brk' = [st |-> "half_open", cooldown |-> brk.cooldown, openFor |-> brk.openFor, probeFor |-> 0,
                hits |-> brk.hits]
    BY <1>3 DEF BrInv, BrTypes
  <2>2. probing' = [since |-> 0, failed |-> probing.failed]
    BY <1>3 DEF BrInv, BrTypes
  <2> QED BY <1>1, <2>1, <2>2 DEF BrInv, BrTypes, SinceProbe, BrStates
<1> QED BY <1>2, <1>3 DEF Allow

\* A counted failure.
LEMMA FailedKeeps == ASSUME BrInv, NEW k \in Kinds, Failed(k) PROVE BrInv'
<1> DEFINE n == Len(brk.hits[k])
           hits == Append(IF n < Threshold[k] THEN brk.hits[k] ELSE Tail(brk.hits[k]), 0)
           h == [brk.hits EXCEPT ![k] = hits]
           told == [brk EXCEPT !.hits = h]
<1>1. calls' \in Nat
  BY DEF Failed, Returned, BrInv, BrTypes
<1>2. [brk EXCEPT !.hits[k] = hits] = told
  OBVIOUS
<1>3. /\ brk.st = "half_open" => Reopen(told)
      /\ brk.st # "half_open" =>
            /\ brk' = told \/ (brk.st = "closed" /\ brk' = [told EXCEPT !.st = "open", !.openFor = 0])
            /\ UNCHANGED probing
  BY <1>2 DEF Failed
<1> HIDE DEF n, hits, h
<1>4. CASE brk.st = "half_open"
  <2>1. told = [st |-> told.st, cooldown |-> brk.cooldown, openFor |-> brk.openFor,
                probeFor |-> brk.probeFor, hits |-> told.hits]
    BY DEF BrInv, BrTypes
  <2> HIDE DEF told
  <2> QED BY <1>1, <1>3, <1>4, <2>1, ReopenKeeps
<1>5. CASE brk.st # "half_open"
  <2>1. [told EXCEPT !.st = "open", !.openFor = 0] = [brk EXCEPT !.st = "open", !.openFor = 0, !.hits = h]
    OBVIOUS
  <2> QED BY <1>1, <1>3, <1>5, <2>1, OpenKeeps
<1> QED BY <1>4, <1>5

\* Every step.
LEMMA BrInvStep == ASSUME BrInv, [BrNext]_brVars PROVE BrInv'
<1>1. CASE NewBreaker
  <2>1. probing' \in [since : Nat, failed : 0 .. MaxCooldown] /\ probing'.failed = 0 /\ calls' \in Nat
    BY <1>1 DEF NewBreaker, BrInv, BrTypes, SinceProbe
  <2> QED BY <1>1, <2>1, CloseKeeps DEF NewBreaker
<1>2. CASE UpOrDown
  BY <1>2 DEF UpOrDown, BrInv, BrTypes, SinceProbe
<1>3. CASE TimePasses
  BY <1>3, TimePassesKeeps
<1>4. CASE Allow
  BY <1>4, AllowKeeps
<1>5. CASE Answered
  <2>1. calls' \in Nat
    BY <1>5 DEF Answered, Returned, BrInv, BrTypes
  <2>2. CASE brk' = Closed /\ probing' = NotProbing
    BY <2>1, <2>2, CloseKeeps, NotProbingIs
  <2>3. CASE UNCHANGED <<brk, probing>>
    BY <2>1, <2>3 DEF BrInv, BrTypes, SinceProbe
  <2> QED BY <1>5, <2>2, <2>3 DEF Answered
<1>6. CASE FailedOtherwise \/ GivenUp
  <2>1. calls' \in Nat
    BY <1>6 DEF FailedOtherwise, GivenUp, NotAnAnswer, Returned, BrInv, BrTypes
  <2>2. CASE Reopen(brk)
    <3>1. brk = [st |-> brk.st, cooldown |-> brk.cooldown, openFor |-> brk.openFor,
                 probeFor |-> brk.probeFor, hits |-> brk.hits]
      BY DEF BrInv, BrTypes
    <3> QED BY <2>1, <2>2, <3>1, ReopenKeeps
  <2>3. CASE UNCHANGED <<brk, probing>>
    BY <2>1, <2>3 DEF BrInv, BrTypes, SinceProbe
  <2> QED BY <1>6, <2>2, <2>3 DEF FailedOtherwise, GivenUp, NotAnAnswer
<1>7. CASE Unreported
  BY <1>7 DEF Unreported, Returned, BrInv, BrTypes, SinceProbe
<1>8. CASE \E k \in Kinds : Failed(k)
  BY <1>8, FailedKeeps
<1>9. CASE UNCHANGED brVars
  BY <1>9 DEF brVars, BrInv, BrTypes, SinceProbe
<1> QED BY <1>1, <1>2, <1>3, <1>4, <1>5, <1>6, <1>7, <1>8, <1>9 DEF BrNext

\* A probe is admitted by Allow alone.
LEMMA AdmittedLate ==
    ASSUME BrInv, [BrNext]_brVars, calls' > calls, brk.st # "closed"
    PROVE  probing.since >= IF brk.st = "half_open" THEN ProbeTimeout
                            ELSE IF probing.failed = 0 THEN 0
                            ELSE Min({Backoff[probing.failed], MaxCooldown})
<1>1. calls \in Nat /\ probing.since \in Nat /\ brk.openFor \in Nat /\ brk.cooldown \in Nat /\ brk.probeFor \in Nat
  BY DEF BrInv, BrTypes
<1>2. Allow
  <2>1. ~ (calls' = calls)  /\ ~ (calls' = calls - 1)
    BY <1>1
  <2>2. \/ NewBreaker \/ UpOrDown \/ TimePasses \/ Allow \/ Returned \/ UNCHANGED brVars
    BY DEF BrNext, Answered, FailedOtherwise, GivenUp, NotAnAnswer, Unreported, Failed
  <2> QED BY <2>1, <2>2 DEF NewBreaker, UpOrDown, TimePasses, Returned, brVars
<1>3. CASE brk.st = "open" /\ brk.openFor >= brk.cooldown
  <2>1. probing.failed # 0 => probing.since >= brk.openFor
    BY <1>3 DEF BrInv, SinceProbe
  <2>2. brk.cooldown = Min({Backoff[probing.failed], MaxCooldown})
    BY DEF BrInv, SinceProbe, CooldownIs
  <2>3. probing.failed # 0 => probing.since >= brk.cooldown
    BY <1>1, <1>3, <2>1
  <2> QED BY <1>1, <1>3, <2>2, <2>3
<1>4. CASE brk.st = "half_open" /\ ProbeOverdue
  <2>1. probing.since >= brk.probeFor /\ brk.probeFor >= ProbeTimeout
    BY <1>4 DEF BrInv, SinceProbe, ProbeOverdue
  <2> QED BY <1>1, <1>4, <2>1, BrSettings
<1> QED BY <1>2, <1>3, <1>4 DEF Allow

\* An upstream that stays degraded is left alone for longer and longer, for any window,
\* thresholds, cooldowns and number of calls in flight.
THEOREM ProbesAlwaysBackOff == BrSpec => ProbesBackOff
<1>1. BrInit => BrInv
  BY BrInvInit
<1>2. BrInv /\ [BrNext]_brVars => BrInv'
  BY BrInvStep
<1>3. BrInv /\ [BrNext]_brVars =>
        [(calls' > calls /\ brk.st # "closed") =>
          probing.since >= IF brk.st = "half_open" THEN ProbeTimeout
                           ELSE IF probing.failed = 0 THEN 0
                           ELSE Min({Backoff[probing.failed], MaxCooldown})]_brVars
  BY AdmittedLate
<1> QED BY <1>1, <1>2, <1>3, PTL DEF BrSpec, ProbesBackOff
=============================================================================
