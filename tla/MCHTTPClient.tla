---------------------------- MODULE MCHTTPClient ----------------------------
(***************************************************************************)
(* Instances of HTTPClient for TLC: clients of one origin, so that they    *)
(* share connections.                                                      *)
(***************************************************************************)
EXTENDS HTTPClient

CONSTANT here

OneOrigin == [c \in Clients |-> here]
=============================================================================
