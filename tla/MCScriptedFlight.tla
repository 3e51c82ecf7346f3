-------------------------- MODULE MCScriptedFlight --------------------------
(* One script; the bounds are in the configuration. *)
EXTENDS ScriptedFlight
=============================================================================
