-------------------------- MODULE MCScriptProcess --------------------------
(* An instance of ScriptProcess for TLC.                                   *)
EXTENDS ScriptProcess
CONSTANTS t1, t2, t3
=============================================================================
