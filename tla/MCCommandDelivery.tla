-------------------------- MODULE MCCommandDelivery --------------------------
(***************************************************************************)
(* Instances of CommandDelivery.                                           *)
(***************************************************************************)
EXTENDS CommandDelivery

\* Bound of the instance: with a loss, one submission or one transition.  Only
\* steps without fairness can leave it: submissions, losses, the server's.
OneAtATime == losses > 0 => submitted + asks <= 1 \/ server.version <= 1
=============================================================================
