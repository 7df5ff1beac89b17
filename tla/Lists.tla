------------------------------- MODULE Lists --------------------------------
(***************************************************************************)
(* Lists as the code filters, sorts and extends them.  The operators       *)
(* SelectSeq, SortSeq and @@ of the standard modules say the same, but     *)
(* only TLC knows what they mean: these are defined, so that theorems can  *)
(* be proved about the modules that use them.                              *)
(***************************************************************************)
EXTENDS SequencesExt, FiniteSetsExt

IsSeq(s) == s \in Seq(ToSet(s))

Indices(s) == [i \in DOMAIN s |-> i]

(* The elements of s that are in S, in their order.                        *)
KeepIn(S, kept, x) == IF x \in S THEN Append(kept, x) ELSE kept
Kept(s, S) == FoldLeft(LAMBDA kept, x : KeepIn(S, kept, x), <<>>, s)

(* The elements for which Test holds.                                      *)
Where(s, Test(_)) == Kept(s, {x \in ToSet(s) : Test(x)})

(* The elements of a finite set, in a strict and total order.              *)
Sorted(S, Precedes(_, _)) ==
    [k \in 1..Cardinality(S) |->
        CHOOSE x \in S : Cardinality({y \in S : Precedes(y, x)}) = k - 1]

(* Records and functions: what f has, and what only g has.                 *)
Merge(f, g) == [x \in DOMAIN f \cup DOMAIN g |-> IF x \in DOMAIN f THEN f[x] ELSE g[x]]
=============================================================================
