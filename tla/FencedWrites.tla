---------------------------- MODULE FencedWrites ----------------------------
(***************************************************************************)
(* The owner's guarded writes on top of the group lease (internal/fence,   *)
(* StateMonitor.fenceCtx).  A write asks the pod's own fence first, carries *)
(* the token it got, and is admitted or refused by rivolt_lease_ok at the   *)
(* start of its statement.  What was admitted still has to commit: the     *)
(* server bounds that to Land (a 2 s statement plus 1 s idle in a           *)
(* transaction), and nothing but that bound stops a late commit, not even   *)
(* the death of the pod that sent it.                                       *)
(***************************************************************************)
EXTENDS GroupLease

CONSTANTS
    Land,        \* ticks from admission by which a write commits or aborts (3 s)
    MaxInFlight  \* bound: admitted writes at one time

ASSUME LandAssumption == Land \in Nat /\ Land <= WarmUp
ASSUME InFlightAssumption == MaxInFlight \in Nat

VARIABLES
    carried,  \* pod -> key -> epoch of the token a write about to be sent carries
    inflight, \* admitted writes [group, epoch, age]
    last,     \* key -> epoch of the write that committed last, 0 for none
    stolen    \* history: key -> the epochs that took the row from a holder

writeVars == <<carried, inflight, last, stolen>>
fwVars == <<vars, writeVars>>

Writes == [group : Users, epoch : 1 .. MaxEpoch, age : 0 .. Land]

FWInit ==
    /\ Init
    /\ carried = [p \in Pods |-> NoTokens]
    /\ inflight = {}
    /\ last = NoTokens
    /\ stolen = [g \in Users |-> {}]

\* History, kept by every step: which grants were steals.
NoteGrants ==
    stolen' = [g \in Users |-> IF row'[g].epoch # row[g].epoch /\ row[g].pod # NoPod
                               THEN stolen[g] \cup {row'[g].epoch} ELSE stolen[g]]

(***************************************************************************)
(* A guarded write.                                                        *)
(***************************************************************************)
\* fenceCtx: only a held, settled group's token goes into the context.
StartWrite(p, g) ==
    /\ Alive(p) /\ carried[p][g] = 0 /\ Fence(p, g) = "Held"
    /\ carried' = [carried EXCEPT ![p][g] = tok[p][g]]
    /\ UNCHANGED <<vars, inflight, last, stolen>>

\* Bound: few writes at a time, and one per token (those of one token are not
\* ordered among themselves by anything here).
Room(g, e) ==
    /\ Cardinality(inflight) < MaxInFlight
    /\ \A w \in inflight : w.group = g => w.epoch # e

\* fence.Exec: the statement starts, and the database admits it ...
Admit(p, g) ==
    /\ Alive(p) /\ carried[p][g] # 0
    /\ LeaseOk(g, p, carried[p][g])
    /\ Room(g, carried[p][g])
    /\ inflight' = inflight \cup
                     {[group |-> g, epoch |-> carried[p][g], age |-> 0]}
    /\ carried' = [carried EXCEPT ![p][g] = 0]
    /\ UNCHANGED <<vars, last, stolen>>

\* ... or refuses it (ErrFenced), or its context ends first.
Refuse(p, g) ==
    /\ Alive(p) /\ carried[p][g] # 0
    /\ carried' = [carried EXCEPT ![p][g] = 0]
    /\ UNCHANGED <<vars, inflight, last, stolen>>

Commit(w) ==
    /\ inflight' = inflight \ {w}
    /\ last' = [last EXCEPT ![w.group] = w.epoch]
    /\ UNCHANGED <<vars, carried, stolen>>

\* statement_timeout, idle_in_transaction_session_timeout or any error.
Abort(w) ==
    /\ inflight' = inflight \ {w}
    /\ UNCHANGED <<vars, carried, last, stolen>>

(***************************************************************************)
(* The lease's own steps, with what they mean for the writes.              *)
(***************************************************************************)
LeaseStep ==
    /\ \/ \E p \in Pods : LeadPass(p) \/ MarkDraining(p) \/ Close(p)
                             \/ ReleaseAll(p) \/ Restart(p)
       \/ Relink
       \/ \E u \in Users : SignInOrOut(u)
    /\ UNCHANGED <<carried, inflight, last>>
    /\ NoteGrants

\* A pod that dies takes its unsent writes along, not its admitted ones.
DownW(p) ==
    /\ Down(p)
    /\ carried' = [carried EXCEPT ![p] = NoTokens]
    /\ UNCHANGED <<inflight, last, stolen>>

\* Deviation: no statement timeout.
NeverDue(w) == TRUE

\* statement_timeout and idle_in_transaction_session_timeout (fence.BeginBounded).
MayStillRun(w) == w.age < Land

\* The server ends every admitted write within Land.
TickW ==
    /\ Tick
    /\ \A w \in inflight : MayStillRun(w)
    /\ inflight' = {[w EXCEPT !.age = @ + 1] : w \in inflight}
    /\ UNCHANGED <<carried, last, stolen>>

FWNext ==
    \/ LeaseStep
    \/ \E p \in Pods : DownW(p)
    \/ TickW
    \/ \E p \in Pods, g \in Users : StartWrite(p, g) \/ Admit(p, g) \/ Refuse(p, g)
    \/ \E w \in inflight : Commit(w) \/ Abort(w)

FWSpec == FWInit /\ [][FWNext]_fwVars

-----------------------------------------------------------------------------
\* Writes stay in their type, and none outlives the server's bound.
FWTypeOK ==
    /\ carried \in [Pods -> [Users -> Epochs]]
    /\ inflight \subseteq Writes
    /\ last \in [Users -> Epochs]
    /\ stolen \in [Users -> SUBSET Epochs]

\* The warm-up (groups_lead.go: "5 s clears it"): when a pod that stole a group
\* may start its first guarded write, no write that the old owner had admitted is
\* left to commit.
StealWaits ==
    \A p \in Pods, g \in Users :
        Running(p) /\ Fence(p, g) = "Held" /\ tok[p][g] \in stolen[g] =>
            \A w \in inflight : w.group = g => w.epoch >= tok[p][g]

\* What the warm-up is for: no write made before a steal lands on top of one that
\* the thief made.
CommitOrder ==
    [][\A g \in Users : last'[g] < last[g] => last[g] \notin stolen[g]]_fwVars

\* fence.go: "an old owner's last commit lands within 3 s of the lease expiry ...
\* which the new owner's 5 s warm-up covers": no write from before a steal lands on
\* one from after it, whoever made that.  A thief that releases the group before
\* its warm-up is over hands it to a pod that has none.
OrderAcrossSteal ==
    [][\A g \in Users, e \in Epochs :
         e \in stolen[g] => ~ (last'[g] < e /\ e <= last[g])]_fwVars

\* A write in flight under an older epoch was admitted before the lease that
\* replaced it was granted, strictly before it when that one was stolen:
\* rivolt_lease_ok admits nobody once a peer took over.
OldWritesAreOlder ==
    \A w \in inflight :
        LET r == row[w.group]
        IN /\ w.epoch <= r.epoch
           /\ w.epoch < r.epoch => w.age >= TTL - r.left
           /\ w.epoch < r.epoch /\ r.epoch \in stolen[w.group] =>
                 w.age > TTL - r.left
=============================================================================
