------------------------------ MODULE ShimFiles ------------------------------
(***************************************************************************)
(* The extraction of the embedded Python files into a directory of /tmp    *)
(* that every run of the same binary shares (python/mod.rs                 *)
(* write_shim_file, python/bootstrap.rs install_shim).  Runs and forked    *)
(* workers extract at the same time, and any of them may be killed.        *)
(*                                                                         *)
(* A file is the number of bytes it holds (its bytes are a prefix of the   *)
(* embedded content, see Stump), Absent when there is none.  A process is  *)
(* its process ID, which is used again once the process is gone; processes *)
(* that live at the same time have different ones.                         *)
(***************************************************************************)
EXTENDS Integers, Sequences

CONSTANTS Pid,      \* the process IDs
          Lengths   \* the length of each embedded file, in extraction order

ASSUME LengthsAssumption == Lengths \in Seq(Nat)

VARIABLES file,     \* file[f]: the importable file
          tmp,      \* tmp[p][f]: its sibling that process p writes
          pc,       \* where each process is, "idle" when there is none
          at        \* the file each process is at

vars == <<file, tmp, pc, at>>

File == DOMAIN Lengths
Absent == -1

\* a file of f that was not written to its end, or was
Stump(f) == {Absent} \cup 0..Lengths[f]

(* The directory may hold files that an older run left truncated.          *)
Init ==
    /\ file \in [File -> {Absent} \cup UNION {0..Lengths[f] : f \in File}]
    /\ \A f \in File : file[f] \in Stump(f)
    /\ tmp = [p \in Pid |-> [f \in File |-> Absent]]
    /\ pc = [p \in Pid |-> "idle"] /\ at = [p \in Pid |-> 1]

Goto(p, label) == pc' = [pc EXCEPT ![p] = label]

Start(p) ==
    /\ pc[p] = "idle"
    /\ Goto(p, "stat") /\ at' = [at EXCEPT ![p] = 1]
    /\ UNCHANGED <<file, tmp>>

MutInPlace(f) == file[f] # Absent           \* mutant: a file that exists is taken for whole

(* The gate: by length, not by existence.                                  *)
InPlace(f) == file[f] = Lengths[f]

Skip(p) ==
    /\ pc[p] = "stat" /\ at[p] \in File /\ InPlace(at[p])
    /\ at' = [at EXCEPT ![p] = @ + 1]
    /\ UNCHANGED <<file, tmp, pc>>

(* fs::write creates or truncates the sibling, writes it in any number of  *)
(* pieces, and the whole sibling is renamed into place.                    *)
Create(p) ==
    /\ pc[p] = "stat" /\ at[p] \in File /\ ~InPlace(at[p])
    /\ Goto(p, "write") /\ tmp' = [tmp EXCEPT ![p][at[p]] = 0]
    /\ UNCHANGED <<file, at>>

Write(p) ==
    /\ pc[p] = "write"
    /\ \E n \in tmp[p][at[p]] + 1 .. Lengths[at[p]] : tmp' = [tmp EXCEPT ![p][at[p]] = n]
    /\ UNCHANGED <<file, pc, at>>

Written(p) == pc[p] = "write" /\ tmp[p][at[p]] = Lengths[at[p]]

Rename(p) ==
    /\ Written(p)
    /\ file' = [file EXCEPT ![at[p]] = tmp[p][at[p]]]
    /\ tmp' = [tmp EXCEPT ![p][at[p]] = Absent]
    /\ Goto(p, "stat") /\ at' = [at EXCEPT ![p] = @ + 1]

(* A rename that fails removes the sibling, and the run ends.              *)
RenameFails(p) ==
    /\ Written(p)
    /\ tmp' = [tmp EXCEPT ![p][at[p]] = Absent]
    /\ Goto(p, "idle")
    /\ UNCHANGED <<file, at>>

(* install_shim returns: from here on the process imports the files.       *)
Installed(p) ==
    /\ pc[p] = "stat" /\ at[p] \notin File
    /\ Goto(p, "importing")
    /\ UNCHANGED <<file, tmp, at>>

(* The process ends: it is killed, a write fails, or its run is over.  A   *)
(* sibling it was writing stays.                                           *)
Quit(p) ==
    /\ pc[p] # "idle"
    /\ Goto(p, "idle")
    /\ UNCHANGED <<file, tmp, at>>

Next == \E p \in Pid : \/ Start(p) \/ Skip(p) \/ Create(p) \/ Write(p) \/ Rename(p)
                       \/ RenameFails(p) \/ Installed(p) \/ Quit(p)

Spec == Init /\ [][Next]_vars
---------------------------------------------------------------------------
(* A process that imports finds every file whole, whoever else extracts,   *)
(* and whoever was killed while extracting: no truncated file is imported, *)
(* and one that an older run left behind was replaced.                     *)
ImportsWhole == \A p \in Pid : pc[p] = "importing" => \A f \in File : file[f] = Lengths[f]

(* A file others may import changes only from truncated or absent to       *)
(* whole, never while somebody writes it.                                  *)
NeverTorn == [][\A f \in File : file'[f] # file[f] => file'[f] = Lengths[f]]_vars
=============================================================================
