--------------------------- MODULE ShimFilesProofs ---------------------------
(* No truncated file is imported, proved for every set of processes and    *)
(* every list of embedded files.                                           *)
EXTENDS ShimFiles, TLAPS

(* Types; what a process writes is not longer than the file.               *)
Types ==
    /\ file \in [File -> Int]
    /\ tmp \in [Pid -> [File -> Int]]
    /\ pc \in [Pid -> {"idle", "stat", "write", "importing"}]
    /\ at \in [Pid -> Nat]
    /\ \A p \in Pid : at[p] >= 1 /\ (pc[p] = "write" => at[p] \in File)

(* What a process has passed stays in place: the files before the one it   *)
(* is at, all of them once it imports.                                     *)
Behind(p) ==
    /\ pc[p] # "idle" => \A f \in File : f < at[p] => InPlace(f)
    /\ pc[p] = "importing" => at[p] \notin File

Passed == \A p \in Pid : Behind(p)

IInv == Types /\ Passed

LEMMA InitIInv == Init => IInv
<1> SUFFICES ASSUME Init PROVE IInv
  OBVIOUS
<1> USE LengthsAssumption DEF Init, File
<1>1. \A f \in File : Stump(f) \subseteq Int
  BY DEF Stump, Absent
<1>2. file \in [File -> Int]
  BY <1>1
<1>3. Types
  BY <1>2 DEF Types, Absent
<1> QED
  BY <1>3 DEF IInv, Passed, Behind

LEMMA NextTypes == Types /\ [Next]_vars => Types'
<1> SUFFICES ASSUME Types, [Next]_vars PROVE Types'
  OBVIOUS
<1> USE LengthsAssumption DEF Types, File
<1>1. ASSUME NEW p \in Pid, Start(p) PROVE Types'
  BY <1>1 DEF Start, Goto
<1>2. ASSUME NEW p \in Pid, Skip(p) PROVE Types'
  BY <1>2 DEF Skip
<1>3. ASSUME NEW p \in Pid, Create(p) PROVE Types'
  BY <1>3 DEF Create, Goto
<1>4. ASSUME NEW p \in Pid, Write(p) PROVE Types'
  BY <1>4 DEF Write
<1>5. ASSUME NEW p \in Pid, Rename(p) PROVE Types'
  BY <1>5 DEF Rename, Written, Goto, Absent
<1>6. ASSUME NEW p \in Pid, RenameFails(p) PROVE Types'
  BY <1>6 DEF RenameFails, Written, Goto, Absent
<1>7. ASSUME NEW p \in Pid, Installed(p) PROVE Types'
  BY <1>7 DEF Installed, Goto
<1>8. ASSUME NEW p \in Pid, Quit(p) PROVE Types'
  BY <1>8 DEF Quit, Goto
<1>9. CASE UNCHANGED vars
  BY <1>9 DEF vars
<1> QED
  BY <1>1, <1>2, <1>3, <1>4, <1>5, <1>6, <1>7, <1>8, <1>9 DEF Next

(* A step leaves a file that is in place alone.                            *)
LEMMA StaysInPlace ==
    ASSUME Types, [Next]_vars, NEW f \in File, InPlace(f) PROVE InPlace(f)'
<1> USE LengthsAssumption DEF Types, File, InPlace
<1>1. ASSUME NEW p \in Pid, Rename(p) PROVE file'[f] = Lengths[f]
  BY <1>1 DEF Rename, Written
<1>2. CASE UNCHANGED file
  BY <1>2
<1> QED
  BY <1>1, <1>2 DEF Next, vars, Start, Skip, Create, Write, RenameFails, Installed, Quit

LEMMA NextPassed == Types /\ Passed /\ [Next]_vars => Passed'
<1> SUFFICES ASSUME Types, Passed, [Next]_vars, NEW q \in Pid PROVE Behind(q)'
  BY DEF Passed
<1> USE DEF Behind, File
<1>a. \A f \in File : InPlace(f) => InPlace(f)'
  BY StaysInPlace
<1>b. \A f \in File : f \in Int /\ ~(f < 1)
  BY LengthsAssumption DEF File
<1>c. \A f \in File : f < at[q] + 1 => f < at[q] \/ f = at[q]
  <2>1. at[q] \in Int
    BY DEF Types
  <2>2. \A f \in File : f \in Int
    BY <1>b
  <2> QED
    BY <2>1, <2>2
<1>0. ASSUME UNCHANGED <<pc[q], at[q]>> PROVE Behind(q)'
  BY <1>0, <1>a DEF Passed
<1>1. ASSUME NEW p \in Pid, Start(p) PROVE Behind(q)'
  <2>1. CASE p = q
    <3>1. at'[q] = 1 /\ pc'[q] = "stat"
      BY <1>1, <2>1 DEF Start, Goto, Types
    <3> QED
      BY <3>1, <1>b
  <2> QED
    BY <1>0, <1>1, <2>1 DEF Start, Goto, Types
<1>2. ASSUME NEW p \in Pid, Skip(p) PROVE Behind(q)'
  <2>1. CASE p = q
    <3>1. at'[q] = at[q] + 1 /\ pc'[q] = "stat" /\ InPlace(at[q])
      BY <1>2, <2>1 DEF Skip, Types
    <3>2. ASSUME NEW f \in File, f < at[q] + 1 PROVE InPlace(f)
      <4>1. f < at[q] \/ f = at[q]
        BY <3>2, <1>c
      <4> QED
        BY <4>1, <1>2, <2>1, <3>1 DEF Skip, Passed
    <3> QED
      BY <3>1, <3>2, <1>a
  <2> QED
    BY <1>0, <1>2, <2>1 DEF Skip, Types
<1>3. ASSUME NEW p \in Pid, Create(p) PROVE Behind(q)'
  <2>1. CASE p = q
    BY <1>3, <2>1, <1>a DEF Create, Goto, Types, Passed
  <2> QED
    BY <1>0, <1>3, <2>1 DEF Create, Goto, Types
<1>4. ASSUME NEW p \in Pid, Write(p) PROVE Behind(q)'
  BY <1>0, <1>4 DEF Write
<1>5. ASSUME NEW p \in Pid, Rename(p) PROVE Behind(q)'
  <2>1. CASE p = q
    <3>1. at'[q] = at[q] + 1 /\ pc'[q] = "stat"
      BY <1>5, <2>1 DEF Rename, Goto, Types
    <3>2. ASSUME NEW f \in File, f < at[q] + 1 PROVE InPlace(f)'
      <4>1. CASE f < at[q]
        BY <4>1, <1>5, <2>1, <1>a DEF Rename, Written, Passed
      <4>2. CASE f = at[q]
        BY <4>2, <1>5, <2>1 DEF Rename, Written, Types, InPlace
      <4> QED
        BY <3>2, <4>1, <4>2, <1>c
    <3> QED
      BY <3>1, <3>2
  <2> QED
    BY <1>0, <1>5, <2>1 DEF Rename, Goto, Types
<1>6. ASSUME NEW p \in Pid, RenameFails(p) PROVE Behind(q)'
  <2>1. CASE p = q
    BY <1>6, <2>1 DEF RenameFails, Goto, Types
  <2> QED
    BY <1>0, <1>6, <2>1 DEF RenameFails, Goto, Types
<1>7. ASSUME NEW p \in Pid, Installed(p) PROVE Behind(q)'
  <2>1. CASE p = q
    BY <1>7, <2>1, <1>a DEF Installed, Goto, Types, Passed
  <2> QED
    BY <1>0, <1>7, <2>1 DEF Installed, Goto, Types
<1>8. ASSUME NEW p \in Pid, Quit(p) PROVE Behind(q)'
  <2>1. CASE p = q
    BY <1>8, <2>1 DEF Quit, Goto, Types
  <2> QED
    BY <1>0, <1>8, <2>1 DEF Quit, Goto, Types
<1>9. CASE UNCHANGED vars
  BY <1>0, <1>9 DEF vars
<1> QED
  BY <1>1, <1>2, <1>3, <1>4, <1>5, <1>6, <1>7, <1>8, <1>9 DEF Next

(* Types and Passed are an invariant of the extraction.                    *)
THEOREM ShimInductive == Spec => []IInv
<1>1. IInv /\ [Next]_vars => IInv'
  BY NextTypes, NextPassed DEF IInv
<1> QED
  BY InitIInv, <1>1, PTL DEF Spec

(* No process imports a truncated file, however many extract at the same   *)
(* time and whichever of them are killed.                                  *)
THEOREM ShimImportsWhole == Spec => []ImportsWhole
<1>1. IInv => ImportsWhole
  <2> SUFFICES ASSUME IInv, NEW p \in Pid, pc[p] = "importing", NEW f \in File
               PROVE file[f] = Lengths[f]
    BY DEF ImportsWhole
  <2>1. at[p] \in Nat /\ at[p] >= 1 /\ at[p] \notin File
    BY DEF IInv, Types, Passed, Behind
  <2>2. f < at[p]
    BY <2>1, LengthsAssumption DEF File
  <2> QED
    BY <2>2 DEF IInv, Passed, Behind, InPlace
<1> QED
  BY ShimInductive, <1>1, PTL

(* An importable file is never written in place: it changes to the whole   *)
(* file at once.                                                           *)
THEOREM ShimNeverTorn == Spec => NeverTorn
<1>1. IInv /\ [Next]_vars => [\A f \in File : file'[f] # file[f] => file'[f] = Lengths[f]]_vars
  <2> SUFFICES ASSUME IInv, Next PROVE \A f \in File : file'[f] # file[f] => file'[f] = Lengths[f]
    OBVIOUS
  <2>1. ASSUME NEW p \in Pid, Rename(p)
        PROVE \A f \in File : file'[f] # file[f] => file'[f] = Lengths[f]
    BY <2>1 DEF Rename, Written, IInv, Types
  <2>2. CASE UNCHANGED file
    BY <2>2
  <2> QED
    BY <2>1, <2>2 DEF Next, Start, Skip, Create, Write, RenameFails, Installed, Quit
<1> QED
  BY ShimInductive, <1>1, PTL DEF Spec, NeverTorn
=============================================================================
