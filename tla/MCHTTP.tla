------------------------------- MODULE MCHTTP -------------------------------
(***************************************************************************)
(* Instances of HTTP for TLC.                                              *)
(***************************************************************************)
EXTENDS HTTP, TLC

\* A body of one chunk, and an upgrade.
PlainReplies == {[left |-> 1, mustRun |-> FALSE, upgrade |-> FALSE]}
SomeReplies  == PlainReplies \cup {[left |-> 0, mustRun |-> FALSE, upgrade |-> TRUE]}
\* ... and the body of a POST that is a generator.
UnsafeReplies == PlainReplies \cup {[left |-> 1, mustRun |-> TRUE, upgrade |-> FALSE]}

SocketSymmetry == Permutations(Sockets)
=============================================================================
