---------------------------- MODULE MCPipeServer ----------------------------
(* An instance of PipeServer for TLC: two revisions differ in their low    *)
(* byte, two do not.                                                       *)
EXTENDS PipeServer

Revisions == {1, 2, 257}

=============================================================================
