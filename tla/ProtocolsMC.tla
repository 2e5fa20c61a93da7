----------------------------- MODULE ProtocolsMC -----------------------------
(***************************************************************************)
(* Instances for TLC of protocols that are modelled each on its own: each  *)
(* behaviour is one of one of them, its topic, and leaves the others as    *)
(* they begin.                                                             *)
(***************************************************************************)
EXTENDS Archive, ArchiveDeletion, ChargeHandover, Breaker, Engage, StripeBilling,
        ReauthFlag

\* What trips the breaker, as in DefaultBreakerConfig, but sooner.
TwoOrThree == [limited |-> 2, outage |-> 3]

VARIABLE topic

prVars == <<topic, arVars, adVars, chVars, brVars, enVars, sbVars, rfVars>>

Topics == {"archive", "deletion", "charge", "breaker", "sends", "billing", "session"}

PRInit ==
    /\ topic \in Topics
    /\ ArInit /\ ADInit /\ CHInit /\ BrInit /\ EnInit /\ SBInit /\ RFInit

\* What is not the topic stays.
Rest ==
    /\ UNCHANGED topic
    /\ topic # "archive" => UNCHANGED arVars
    /\ topic # "deletion" => UNCHANGED adVars
    /\ topic # "charge" => UNCHANGED chVars
    /\ topic # "breaker" => UNCHANGED brVars
    /\ topic # "sends" => UNCHANGED enVars
    /\ topic # "billing" => UNCHANGED sbVars
    /\ topic # "session" => UNCHANGED rfVars

PRNext ==
    \/ topic = "archive" /\ ArNext /\ Rest
    \/ topic = "deletion" /\ ADNext /\ Rest
    \/ topic = "charge" /\ CHNext /\ Rest
    \/ topic = "breaker" /\ BrNext /\ Rest
    \/ topic = "sends" /\ EnNext /\ Rest
    \/ topic = "billing" /\ SBNext /\ Rest
    \/ topic = "session" /\ RFNext /\ Rest

PRSpec == PRInit /\ [][PRNext]_prVars
=============================================================================
