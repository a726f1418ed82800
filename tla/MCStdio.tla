------------------------------ MODULE MCStdio -------------------------------
(* Instances of Stdio: a few children share the numbers of few descriptors. *)
EXTENDS Stdio

CONSTANTS c1, c2

TwoChildren   == {c1, c2}
AnyByte       == {"x", "nl", "nul"}
=============================================================================
