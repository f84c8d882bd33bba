--------------------------------- MODULE Store ---------------------------------
(***************************************************************************)
(* What the lamp promises about its configuration, without messages, timers  *)
(* and boot sequence.  There is one configuration in effect and one that is  *)
(* stored.  A change takes effect at once and is due to be stored; what is   *)
(* due is stored in the end unless the lamp starts again before, and then    *)
(* what is stored is in effect, whole and unchanged.  Only a power failure   *)
(* in the middle of storing puts something else in its place, the defaults.  *)
(***************************************************************************)
CONSTANTS
    Default,            \* the configuration of a new lamp
    Records             \* does the lamp record changes of its own at once?

VARIABLES
    config,             \* in effect
    stored,             \* what a power failure leaves
    due                 \* is the configuration due to be stored?

vars == <<config, stored, due>>

Init ==
    /\ config = Default
    /\ stored = Default
    /\ due = FALSE

-----------------------------------------------------------------------------

\* A new configuration is accepted, perhaps the same again.
Change ==
    /\ due' = TRUE
    /\ stored' = stored

\* What is due is stored.
Save ==
    /\ due
    /\ stored' = config
    /\ due' = FALSE
    /\ config' = config

\* The lamp changes its configuration and stores it in the same step; what was
\* due before stays due.
Record ==
    /\ Records
    /\ stored' = config'
    /\ due' = due

\* The lamp starts again.
Restart ==
    /\ config' = stored
    /\ stored' = stored
    /\ due' = FALSE

\* Power fails while the configuration is being stored.
Tear ==
    /\ due \/ Records
    /\ config' = Default
    /\ stored' = Default
    /\ due' = FALSE

Next == Change \/ Save \/ Record \/ Restart \/ Tear

\* What stays due is stored.
Fairness == WF_vars(Save)

SafeSpec == Init /\ [][Next]_vars

Spec == SafeSpec /\ Fairness

=============================================================================
