------------------------------- MODULE ReauthFlag -------------------------------
(***************************************************************************)
(* One user's re-auth flag: a pod whose call Rivian rejected raises it, a  *)
(* sign-in on any pod lowers it.                                           *)
(*                                                                         *)
(* The stored session has a version, the database's; a pod raises the flag *)
(* for the version it knows its session by.  A sign-in or sign-out writes  *)
(* the session's row and then the user's row, and holds that until its     *)
(* commit.  The tokens are left out: a pod may be rejected with whatever   *)
(* version it knows, however old.                                          *)
(***************************************************************************)
EXTENDS Integers

CONSTANTS
    Clients, \* pods with the user's account loaded
    NoClient,
    MaxSaves \* bound on the sign-ins

ASSUME ClientsAssumption == NoClient \notin Clients /\ MaxSaves \in Nat

VARIABLES
    stored,  \* the version of the stored session (0: none)
    version, \* the last one given out
    flagged, \* users.needs_reauth [up, ver]: ver is history, the version it is for
    userRow, \* whose transaction holds the user's row
    knows,   \* client -> the version it knows its session by (0: none)
    saving,  \* client -> its sign-in or sign-out under way [pc, ver]
    raising  \* client -> its raise under way [pc, ver, current]

rfVars == <<stored, version, flagged, userRow, knows, saving, raising>>

Lowered == [up |-> FALSE, ver |-> 0]
NotSaving == [pc |-> "idle", ver |-> 0]
NotRaising == [pc |-> "idle", ver |-> 0, current |-> FALSE]

RFInit ==
    /\ stored = 0 /\ version = 0 /\ flagged = Lowered /\ userRow = NoClient
    /\ knows = [c \in Clients |-> 0]
    /\ saving = [c \in Clients |-> NotSaving] /\ raising = [c \in Clients |-> NotRaising]

-----------------------------------------------------------------------------
\* Login: the flag is cleared at once; the session is stored later, if it is.
Login(c) ==
    /\ saving[c] = NotSaving /\ userRow = NoClient /\ version < MaxSaves
    /\ flagged' = Lowered
    /\ saving' = [saving EXCEPT ![c].pc = "save"]
    /\ UNCHANGED <<stored, version, userRow, knows, raising>>

Logout(c) ==
    /\ saving[c] = NotSaving
    /\ saving' = [saving EXCEPT ![c].pc = "delete"]
    /\ UNCHANGED <<stored, version, flagged, userRow, knows, raising>>

\* SaveRivianSession: the session's row, not yet committed (one at a time) ...
WriteSession(c) ==
    /\ saving[c].pc \in {"save", "delete"}
    /\ \A d \in Clients : saving[d].pc \notin {"saved", "deleted", "save held", "delete held"}
    /\ version' = IF saving[c].pc = "save" THEN version + 1 ELSE version
    /\ saving' = [saving EXCEPT ![c] = IF @.pc = "save" THEN [pc |-> "saved", ver |-> version'] ELSE [pc |-> "deleted", ver |-> 0]]
    /\ UNCHANGED <<stored, flagged, userRow, knows, raising>>

\* ... the user's row ...
HoldUserRow(c) ==
    /\ saving[c].pc \in {"saved", "deleted"} /\ userRow = NoClient
    /\ userRow' = c
    /\ saving' = [saving EXCEPT ![c].pc = IF @ = "saved" THEN "save held" ELSE "delete held"]
    /\ UNCHANGED <<stored, version, flagged, knows, raising>>

\* Deviation: a sign-in leaves the flag to Login.
Uncleared == flagged

\* setSignedInAndClearFlag
Cleared == Lowered

\* ... and the commit.  The client learns the version afterwards.
CommitSession(c) ==
    /\ saving[c].pc \in {"save held", "delete held"}
    /\ stored' = saving[c].ver /\ userRow' = NoClient
    /\ flagged' = IF saving[c].pc = "save held" THEN Cleared ELSE flagged
    /\ saving' = [saving EXCEPT ![c].pc = "learn"]
    /\ UNCHANGED <<version, knows, raising>>

\* learnStoredVersion; after a sign-out there is nothing to learn.
Learn(c) ==
    /\ saving[c].pc = "learn"
    /\ knows' = [knows EXCEPT ![c] = IF saving[c].ver = 0 THEN @ ELSE saving[c].ver]
    /\ saving' = [saving EXCEPT ![c] = NotSaving]
    /\ UNCHANGED <<stored, version, flagged, userRow, raising>>

\* The database does not answer, or the process ends: the transaction is undone.
SaveFails(c) ==
    /\ saving[c].pc \notin {"idle", "learn"}
    /\ saving' = [saving EXCEPT ![c] = NotSaving]
    /\ userRow' = IF userRow = c /\ raising[c].pc # "held" THEN NoClient ELSE userRow
    /\ UNCHANGED <<stored, version, flagged, knows, raising>>

\* AccountSyncer.apply, for a session that it restores or recognises.
Sync(c) ==
    /\ stored # 0
    /\ knows' = [knows EXCEPT ![c] = stored]
    /\ UNCHANGED <<stored, version, flagged, userRow, saving, raising>>

-----------------------------------------------------------------------------
\* Rivian rejected a call, and the guard against superseded sessions let it pass.
Rejected(c) ==
    /\ raising[c] = NotRaising /\ knows[c] # 0
    /\ raising' = [raising EXCEPT ![c] = [pc |-> "raise", ver |-> knows[c], current |-> stored = knows[c]]]
    /\ UNCHANGED <<stored, version, flagged, userRow, knows, saving>>

\* RaiseNeedsReauthIfCurrent: the user's row first, if the flag is down ...
LockForRaise(c) ==
    /\ raising[c].pc = "raise" /\ userRow = NoClient
    /\ IF flagged.up
       THEN /\ raising' = [raising EXCEPT ![c] = NotRaising]
            /\ UNCHANGED userRow
       ELSE /\ raising' = [raising EXCEPT ![c].pc = "held"]
            /\ userRow' = c
    /\ UNCHANGED <<stored, version, flagged, knows, saving>>

\* Deviation: one statement, that looked at the session before it waited for the row.
OnOldSnapshot(c) == raising[c].current

\* The statement after the lock reads what is committed by then.
IsCurrent(c) == stored = raising[c].ver

\* ... then the update, if the stored session is the rejected one.
Raise(c) ==
    /\ raising[c].pc = "held" /\ userRow' = NoClient
    /\ flagged' = IF IsCurrent(c) THEN [up |-> TRUE, ver |-> raising[c].ver] ELSE flagged
    /\ raising' = [raising EXCEPT ![c] = NotRaising]
    /\ UNCHANGED <<stored, version, knows, saving>>

\* The transaction is undone: the next rejection raises the flag.
RaiseFails(c) ==
    /\ raising[c] # NotRaising
    /\ userRow' = IF raising[c].pc = "held" THEN NoClient ELSE userRow
    /\ raising' = [raising EXCEPT ![c] = NotRaising]
    /\ UNCHANGED <<stored, version, flagged, knows, saving>>

RFNext ==
    \E c \in Clients :
        \/ Login(c) \/ Logout(c) \/ WriteSession(c) \/ HoldUserRow(c) \/ CommitSession(c)
        \/ Learn(c) \/ SaveFails(c) \/ Sync(c)
        \/ Rejected(c) \/ LockForRaise(c) \/ Raise(c) \/ RaiseFails(c)

RFSpec == RFInit /\ [][RFNext]_rfVars

-----------------------------------------------------------------------------
\* A user who is told to sign in again has not done so since: the flag is for the stored
\* session, or none is stored, however a sign-in on one pod and rejections on others
\* overlap ("there is no read-then-write gap for a sign-in to land in").
FlaggedForStored == flagged.up => stored \in {0, flagged.ver}
=============================================================================
