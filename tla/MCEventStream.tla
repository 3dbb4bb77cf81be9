---------------------------- MODULE MCEventStream ----------------------------
(* TLC instances of EventStream: see the MCEventStream*.cfg files.           *)
EXTENDS EventStream

=============================================================================
