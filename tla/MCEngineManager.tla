-------------------------- MODULE MCEngineManager --------------------------
(* Model checking of EngineManager: an engine and its successor, and two   *)
(* callers that start and stop them.                                       *)
EXTENDS EngineManager

=============================================================================
