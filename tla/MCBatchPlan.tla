---------------------------- MODULE MCBatchPlan ----------------------------
\* Every collection of up to MaxItems items spread over three files, some of
\* them in one xdist_group, under the modes that group; up to five times as
\* many items under the others, where only their number matters.
EXTENDS BatchPlan

CONSTANTS MaxItems, MCModes

MCTest == 1 .. 5 * MaxItems
MCFiles(n) == {[t \in MCTest |-> IF t <= n THEN file[t] ELSE "f"] :
                  file \in [1 .. n -> {"f", "g", "h"}]}
MCGroups == {[t \in MCTest |-> IF t \in marked THEN "x" ELSE NoGroup] :
                marked \in {{}, {1, 3}, {2, 4, MaxItems}}}

Collected(mode, n, file, group, reorder) ==
    [mode |-> mode, ids |-> [i \in 1 .. n |-> i], file |-> file,
     group |-> group, reorder |-> reorder]

\* Files and the reorder flag matter in the per-module modes only, groups in
\* loadgroup only.
MCJobs ==
    UNION {
        {Collected(mode, n, file, [t \in MCTest |-> NoGroup], reorder) :
            mode \in MCModes \cap {"loadscope", "loadfile"},
            file \in MCFiles(n), reorder \in BOOLEAN}
        \cup
        {Collected(mode, n, file, group, reorder) :
            mode \in MCModes \cap {"loadgroup"},
            file \in MCFiles(n), group \in MCGroups, reorder \in BOOLEAN}
        : n \in 0 .. MaxItems}
    \cup
    {Collected(mode, n, [t \in MCTest |-> "f"], [t \in MCTest |-> NoGroup], TRUE) :
        mode \in MCModes \ PerModule, n \in 0 .. 5 * MaxItems}
=============================================================================
