------------------------------- MODULE MCDist -------------------------------
\* Instances of Dist for TLC: two slots and two or three tests of one file.
EXTENDS Dist

CONSTANT NumTests

MCTest == 1 .. NumTests
MCAll == [i \in MCTest |-> i]
MCAgree == {MCAll}
\* A worker that misses the last test: a test file that imports differently.
MCDiffer == {MCAll, SubSeq(MCAll, 1, NumTests - 1)}
MCFile == [t \in MCTest |-> IF t = NumTests THEN "g" ELSE "f"]
MCOneFile == [t \in MCTest |-> "f"]
MCGroup == [t \in MCTest |-> NoGroup]
=============================================================================
