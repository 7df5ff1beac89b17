----------------------------- MODULE MCShimFiles -----------------------------
(* Three processes and a file written in two pieces, then one of one.      *)
EXTENDS ShimFilesProofs, TLC

MCLengths == <<2, 1>>
Symmetry == Permutations(Pid)
=============================================================================
