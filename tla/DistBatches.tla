---------------------------- MODULE DistBatches ----------------------------
(***************************************************************************)
(* How the controller cuts the collected node IDs into batches             *)
(* (dist.rs, build_dist_batches_from_nodeids), one operator per --dist     *)
(* family.  The result goes to push_batches, which deals it round-robin.   *)
(*                                                                         *)
(* A node ID is any value; file[t] is what stands before its first "::"    *)
(* and group[t] its xdist_group mark, NoGroup for none.                    *)
(***************************************************************************)
EXTENDS Integers, Sequences, FiniteSets

CONSTANT NoGroup

PerModule == {"loadscope", "loadfile", "loadgroup"}
Modes == PerModule \cup {"load", "worksteal", "each"}

Larger(a, b) == IF a > b THEN a ELSE b
Smaller(a, b) == IF a < b THEN a ELSE b

\* With max(1).
MutChunkSize(count, workers) ==
    IF count < 2 * workers THEN 1 ELSE Larger((count \div workers) \div 4, 1)

\* --dist load: chunks of consecutive items, one at a time when there are
\* fewer than two per worker.
ChunkSize(count, workers) ==
    IF count < 2 * workers THEN 1 ELSE Larger((count \div workers) \div 4, 2)

\* With chunks_exact.
MutChunks(ids, size) ==
    [k \in 1 .. (Len(ids) \div size) |-> SubSeq(ids, (k - 1) * size + 1, k * size)]

Chunks(ids, size) ==
    [k \in 1 .. ((Len(ids) + size - 1) \div size) |->
        SubSeq(ids, (k - 1) * size + 1, Smaller(k * size, Len(ids)))]

\* The namespaced key items are grouped by; without grouping every position
\* is a group of its own.
Key(mode, ids, file, group, i) ==
    IF mode = "loadgroup" /\ group[ids[i]] # NoGroup THEN <<"group", group[ids[i]]>>
    ELSE IF mode \in PerModule THEN <<"file", file[ids[i]]>>
    ELSE <<"item", i>>

\* A batch per item, as if the scopes were dealt item by item.
MutGrouped(mode, ids, file, group) == [k \in DOMAIN ids |-> <<ids[k]>>]

\* Some positions, in their order.
Rank(positions, i) == Cardinality({j \in positions : j <= i})

InOrder(positions) ==
    [k \in 1 .. Cardinality(positions) |-> CHOOSE i \in positions : Rank(positions, i) = k]

\* Insertion-ordered group-by: one batch per key, in the order of the keys'
\* first items, each in collection order.
Grouped(mode, ids, file, group) ==
    LET key(i) == Key(mode, ids, file, group, i)
        firsts == InOrder({i \in DOMAIN ids : \A j \in 1 .. i - 1 : key(j) # key(i)})
        members(f) == InOrder({i \in DOMAIN ids : key(i) = key(f)})
    IN  [k \in DOMAIN firsts |->
            LET at == members(firsts[k]) IN [j \in DOMAIN at |-> ids[at[j]]]]

\* sort_by_key(Reverse(len)) is stable.
Precedes(batches, a, b) ==
    \/ Len(batches[a]) > Len(batches[b])
    \/ Len(batches[a]) = Len(batches[b]) /\ a < b

LongestFirst(batches) ==
    LET before(b) == {a \in DOMAIN batches : Precedes(batches, a, b)}
    IN  [k \in DOMAIN batches |->
            batches[CHOOSE b \in DOMAIN batches : Cardinality(before(b)) = k - 1]]

\* --dist each: the base list once per worker, end to end.
Repeated(base, workers) ==
    [k \in 1 .. Len(base) * workers |-> base[((k - 1) % Len(base)) + 1]]

\* reorder is the absence of --no-loadscope-reorder.
BuildBatches(mode, ids, file, group, workers, reorder) ==
    LET grouped == Grouped(mode, ids, file, group)
    IN  CASE mode = "load" -> Chunks(ids, ChunkSize(Len(ids), workers))
          [] mode \in PerModule -> IF reorder THEN LongestFirst(grouped) ELSE grouped
          [] mode = "each" -> Repeated(grouped, workers)
          [] OTHER -> grouped
=============================================================================
