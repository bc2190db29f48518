--------------------------- MODULE MCNetworkSync ---------------------------
(* Constants of the runs of NetworkSync. *)
EXTENDS NetworkSync

\* A clock that is late by more than the threshold, right, and fast by
\* exactly the threshold
SomeOffsets == {-1500, 0, 1000}
=============================================================================
