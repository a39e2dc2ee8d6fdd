------------------------------ MODULE MCFiles ------------------------------
(***************************************************************************)
(* SubscriptionFiles for TLC, in two settings that one run checks: what    *)
(* overlapping requests do to the identity of a file ("identity": two      *)
(* requests besides the refresh, no data that change and no new Drive      *)
(* files), and that the refresh mends everything in the end ("converge").  *)
(***************************************************************************)
EXTENDS SubscriptionFiles

CONSTANTS
    r2,
    TwoEdits       \* MaxEdits of "identity"

ASSUME TwoEditsAssumption == TwoEdits \in Nat

VARIABLE scenario

Two == INSTANCE SubscriptionFiles WITH
           Requests <- Requests \cup {r2}, CreateFiles <- FALSE, MaxEdits <- TwoEdits

MCInit ==
    \/ scenario = "converge" /\ Init
    \/ scenario = "identity" /\ Two!Init

MCNext ==
    \/ scenario = "converge" /\ Next /\ UNCHANGED scenario
    \/ scenario = "identity" /\ Two!Next /\ UNCHANGED scenario

MCSpec == MCInit /\ [][MCNext]_<<scenario, vars>> /\ WF_vars(scenario = "converge" /\ RefreshNext)

-----------------------------------------------------------------------------

\* No two rows share a slug, with two requests at once.
TwoSlugsIdentify == Two!SlugsIdentify

\* A row keeps the Drive file it has, with two requests at once, as long as
\* no Drive files are made.
TwoDriveIdentityStays ==
    [][scenario = "identity" =>
        \A id \in FileIds :
            file[id] # None /\ file'[id] # None /\ file[id].drive # None
            => file'[id].drive = file[id].drive]_vars

\* The refresh mends what requests, failures and restarts have left.
RefreshConverges == scenario = "converge" => FilesConverge
=============================================================================
