---------------------------- MODULE MCWorkQueue ----------------------------
(***************************************************************************)
(* The worker loop with two workers, two objects and two retries: enough   *)
(* for an object to be added while it is held, to be waiting while its     *)
(* back-off still runs, and to run out of retries.                         *)
(***************************************************************************)
EXTENDS WorkQueue
=============================================================================
