------------------------- MODULE AssociateSessionMC -------------------------
(* One associate; 0 stands for no job.  The instances are in the cfg files:  *)
(* one session with room for one command and one message, and two sessions,  *)
(* where the second follows the first.                                       *)
EXTENDS AssociateSession
=============================================================================
