---------------------------- MODULE ManagerPartsMC ----------------------------
(* ManagerParts on small instances. *)
EXTENDS ManagerParts

CONSTANTS a, b      \* two hosts that tasks run on

\* Each misfire policy, a task of one host and of two, the opt-in to destructive actions.
MCBodies ==
    { [hosts |-> <<a>>, misfire |-> "skip", enabled |-> TRUE, optIn |-> FALSE],
      [hosts |-> <<a, b>>, misfire |-> "retry", enabled |-> TRUE, optIn |-> TRUE],
      [hosts |-> <<b>>, misfire |-> "catchup", enabled |-> TRUE, optIn |-> FALSE] }
=============================================================================
