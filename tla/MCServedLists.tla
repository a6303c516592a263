---------------------------- MODULE MCServedLists --------------------------
(* Instances of ServedLists for TLC.  Requests are model values.            *)
EXTENDS ServedLists, TLC

\* One request of the pool is like the other.
RequestSymmetry == Permutations(Request)

=============================================================================
