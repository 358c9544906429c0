----------------------------- MODULE MCShutdown -----------------------------
(* The instance manager with and without SPDK, and two processes.          *)
EXTENDS Shutdown
=============================================================================
