------------------------------- MODULE MCPipe -------------------------------
(* Instances of Pipe for TLC.                                              *)
EXTENDS Pipe

\* One write that does not fit into the ring at once.
OneWrite == {<<0, 1, 1>>}
=============================================================================
