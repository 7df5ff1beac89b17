----------------------------- MODULE Selection ------------------------------
(***************************************************************************)
(* From the collected items to those that run: --strict-markers,           *)
(* --deselect, -k and -m (engine/selection.rs), the collection_modifyitems *)
(* hooks of conftest files and plugins (engine/hooks.rs), the groups of    *)
(* pytest-split and the cache's --lf, --ff, --nf and --sw (cache.rs).      *)
(*                                                                         *)
(* The cache c is [lastfailed, nodeids, resume, durations]: the remembered *)
(* failures in order, the node IDs ever collected, where --stepwise goes   *)
(* on (empty or one [node, count]) and the durations of tests by node ID.  *)
(* An expression of -k or -m is [kind, names]: no expression, one that     *)
(* does not compile, one that fails on every item, or one that holds for   *)
(* the items with a name (mark) in names.                                  *)
(***************************************************************************)
EXTENDS Generate

Partition(items, Keep(_)) ==
    [kept |-> Where(items, Keep), removed |-> Where(items, LAMBDA it : ~Keep(it))]

(* check_strict_markers                                                    *)
UnknownMarker(o, items) ==
    o.strictMarkers /\ \E it \in ToSet(items) : ~(it.tags \subseteq o.registered)

(* --deselect: by prefix of the node ID; d.names are those it covers.      *)
Deselected(o, it) == \E d \in o.deselect : d.mod = it.mod /\ it.name \in d.names

---------------------------------------------------------------------------
(* Hooks.  A node is [id, tags, at]: at is its item, 0 one a hook made.    *)

Tier(h) == IF h.wrapper THEN 1 ELSE IF h.tryfirst THEN 0 ELSE IF h.trylast THEN 2 ELSE 1

(* Those of conftest files, then those of plugins by tier; the wrappers of *)
(* plugins wait until the cache has chosen.                                *)
HookOrder(hooks) ==
    LET ofPlugins(t) == Where(hooks, LAMBDA h : h.plugin /\ ~h.wrapper /\ Tier(h) = t)
    IN  Where(hooks, LAMBDA h : ~h.plugin) \o ofPlugins(0) \o ofPlugins(1) \o ofPlugins(2)

Deferred(hooks) == Where(hooks, LAMBDA h : h.plugin /\ h.wrapper)

Foreign(nodes) == [Last(nodes) EXCEPT !.at = 0]

(* What a hook may do to the list it is given.                             *)
CallHook(h, nodes) ==
    CASE h.does = "reverse"    -> Reverse(nodes)
      [] h.does = "drop"       -> Where(nodes, LAMBDA n : h.tag \notin n.tags)
      [] h.does = "mark"       -> [i \in DOMAIN nodes |-> [nodes[i] EXCEPT !.tags = @ \cup {h.tag}]]
      [] h.does = "substitute" -> IF nodes = <<>> THEN nodes ELSE Front(nodes) \o <<Foreign(nodes)>>
      [] OTHER                 -> nodes

NodesOf(items) ==
    [i \in DOMAIN items |-> [id |-> items[i].id, tags |-> items[i].tags, at |-> i]]

(* The list is read back by node ID: the n-th node with an ID is the n-th  *)
(* item with it, a foreign object becomes an item of its own.              *)
SameId(items, id) == Where(Indices(items), LAMBDA i : items[i].id = id)

Nth(nodes, k) == Cardinality({j \in 1..k : nodes[j].at # 0 /\ nodes[j].id = nodes[k].id})

ForeignItem(it, node) ==
    [it EXCEPT !.id = node.id, !.mod = node.id.mod, !.cls = node.id.cls, !.name = node.id.name,
               !.tags = node.tags, !.args = <<>>, !.par = << >>, !.keys = <<>>, !.top = "function"]

\* the items the k-th node stands for: none when there is no n-th item with its ID
NodeItems(items, node, same, nth) ==
    IF node.at = 0 THEN <<ForeignItem(items[1], node)>>
    ELSE IF nth > Len(same) THEN <<>> ELSE <<[items[same[nth]] EXCEPT !.tags = node.tags]>>

ReadBack(items, nodes) ==
    FlattenSeq([k \in DOMAIN nodes |->
        NodeItems(items, nodes[k], SameId(items, nodes[k].id), Nth(nodes, k))])

(* The items when a hook raises are those before all hooks.                *)
RunHooks(hooks, items) ==
    IF \E h \in ToSet(hooks) : h.does = "fail" THEN [items |-> items, error |-> TRUE]
    ELSE [items |-> IF hooks = <<>> THEN items
                    ELSE ReadBack(items, FoldLeft(LAMBDA ns, h : CallHook(h, ns), NodesOf(items), hooks)),
          error |-> FALSE]

---------------------------------------------------------------------------
(* -k, then -m.  An item an expression fails on is kept, and the failure   *)
(* ends the run after the others were dropped.                             *)

Matches(e, names) == e.kind # "names" \/ e.names \cap names # {}

Keyword(o, items) ==
    Partition(items, LAMBDA it : Matches(o.keyword, {it.name, it.mod, it.cls} \cup it.tags))

(* The outcome of a selection: "ok", or the way it failed.                 *)
Stopped(items, removed, error) == [kept |-> items, removed |-> removed, error |-> error]

AfterKeyword(o, k) ==
    CASE o.markexpr.kind = "bad"   -> Stopped(k.kept, k.removed, "usage")
      [] o.markexpr.kind = "fails" -> Stopped(k.kept, k.removed, "error")
      [] OTHER ->
            Stopped(Where(k.kept, LAMBDA it : Matches(o.markexpr, it.tags)),
                    k.removed \o Where(k.kept, LAMBDA it : ~Matches(o.markexpr, it.tags)), "ok")

(* apply_selection: -k, then -m on what it leaves.                         *)
ApplySelection(o, items) ==
    CASE o.keyword.kind = "bad"   -> Stopped(items, <<>>, "usage")
      [] o.keyword.kind = "fails" -> Stopped(items, <<>>, "error")
      [] OTHER                    -> AfterKeyword(o, Keyword(o, items))

---------------------------------------------------------------------------
(* pytest-split.                                                           *)

Sum(s) == FoldLeft(LAMBDA a, b : a + b, 0, s)

(* Durations times the number of known ones, so that the average of those, *)
(* which a test without a known duration gets, is an integer.              *)
Costs(durations, items, known) ==
    IF known = <<>> THEN [i \in DOMAIN items |-> 1]
    ELSE [i \in DOMAIN items |->
            IF items[i].id \in DOMAIN durations THEN durations[items[i].id] * Len(known)
            ELSE Sum([j \in DOMAIN known |-> durations[known[j].id]])]

ItemDurations(durations, items) ==
    Costs(durations, items, Where(items, LAMBDA it : it.id \in DOMAIN durations))

Nobody(splits) == [g \in 1..splits |-> 0]

MutAssign(st, cost, splits, total) ==       \* mutant: the last group may overflow
    IF st.spent[st.at] * splits >= total /\ st.at < splits
    THEN [at |-> st.at + 1, spent |-> [st.spent EXCEPT ![st.at + 1] = @ + cost],
          group |-> Append(st.group, IF st.at + 1 = splits THEN 0 ELSE st.at + 1)]
    ELSE [st EXCEPT !.spent[st.at] = @ + cost, !.group = Append(@, st.at)]

(* duration_based_chunks: the group of every item; the next group starts   *)
(* once a group has its share.                                             *)
Assign(st, cost, splits, total) ==
    IF st.spent[st.at] * splits >= total /\ st.at < splits
    THEN [at |-> st.at + 1, spent |-> [st.spent EXCEPT ![st.at + 1] = @ + cost],
          group |-> Append(st.group, st.at + 1)]
    ELSE [st EXCEPT !.spent[st.at] = @ + cost, !.group = Append(@, st.at)]

DurationBasedChunks(splits, costs, total) ==
    FoldLeft(LAMBDA st, cost : Assign(st, cost, splits, total),
             [at |-> 1, spent |-> Nobody(splits), group |-> <<>>], costs).group

(* least_duration: the longest test (ties by node ID, here by rank) goes   *)
(* to the group with the least so far.                                     *)
Least(spent) ==
    CHOOSE g \in DOMAIN spent : \A h \in DOMAIN spent :
        spent[g] < spent[h] \/ (spent[g] = spent[h] /\ g <= h)

Give(st, i, cost, g) ==
    [spent |-> [st.spent EXCEPT ![g] = @ + cost], group |-> [st.group EXCEPT ![i] = g]]

LeastDuration(splits, costs, rank) ==
    LET order == Sorted(DOMAIN costs, LAMBDA i, j :
                    \/ costs[i] > costs[j]
                    \/ costs[i] = costs[j] /\ rank[i] < rank[j]
                    \/ costs[i] = costs[j] /\ rank[i] = rank[j] /\ i < j)
    IN  FoldLeft(LAMBDA st, i : Give(st, i, costs[i], Least(st.spent)),
                 [spent |-> Nobody(splits), group |-> [i \in DOMAIN costs |-> 0]], order).group

(* The items of one group, in their order.                                 *)
GroupOf(o, items, costs) ==
    IF o.leastDuration THEN LeastDuration(o.splits, costs, [i \in DOMAIN items |-> items[i].rank])
    ELSE DurationBasedChunks(o.splits, costs, Sum(costs))

At(items, chosen) == [i \in DOMAIN chosen |-> items[chosen[i]]]

InGroup(items, of, group) ==
    At(items, Where(Indices(items), LAMBDA i : of[i] = group))

SplitGroup(o, c, items, group) ==
    InGroup(items, GroupOf(o, items, ItemDurations(c.durations, items)), group)

ApplySplit(o, c, items) == IF o.splits = 0 THEN items ELSE SplitGroup(o, c, items, o.group)

(* SplitPlugin::pytest_configure: --splits and --group come together and   *)
(* fit each other.                                                         *)
SplitUsageError(o) ==
    \/ (o.splits # 0) # (o.group # 0)
    \/ o.splits # 0 /\ o.group > o.splits

---------------------------------------------------------------------------
(* The cache.                                                              *)

Fails(c, it) == Contains(c.lastfailed, it.id)

MutFilterCollected(o, c, files, items) ==   \* mutant: whether one of them still exists is not asked
    LET known(m) == \E n \in ToSet(c.lastfailed) : n.mod = m
    IN  IF o.lf /\ c.lastfailed # <<>>
        THEN Where(items, LAMBDA it : known(it.mod) /\ (Fails(c, it) \/ it.method)) ELSE items

(* filter_collected_items: with --lf, when a remembered failure is among   *)
(* the items, files without one are left out, and so are the functions of  *)
(* the others that did not fail; files given as arguments stay.            *)
FilterCollected(o, c, files, items) ==
    LET known(m) == \E n \in ToSet(c.lastfailed) : n.mod = m
        Given(it) == \E f \in ToSet(files) : f.name = it.mod /\ \E a \in ToSet(o.args) : a.path = f.path
        Keep(it) == Given(it) \/ (known(it.mod) /\ (Fails(c, it) \/ it.method))
    IN  IF o.lf /\ \E it \in ToSet(items) : Fails(c, it) THEN Where(items, Keep) ELSE items

LastFailed(o, c, items) ==
    LET p == Partition(items, LAMBDA it : Fails(c, it))
    IN  IF ~(o.lf \/ o.ff) THEN [kept |-> items, removed |-> <<>>]
        ELSE IF c.lastfailed = <<>> /\ o.lf /\ o.lfnf = "none" THEN [kept |-> <<>>, removed |-> items]
        ELSE IF c.lastfailed = <<>> \/ p.kept = <<>> THEN [kept |-> items, removed |-> <<>>]
        ELSE IF o.lf THEN p
        ELSE [kept |-> p.kept \o p.removed, removed |-> <<>>]

MutStepwise(o, c, items) ==                 \* mutant: the resumed test itself is skipped
    LET at == {i \in DOMAIN items : c.resume # <<>> /\ items[i].id = c.resume[1].node}
    IN  IF ~o.sw \/ o.swReset \/ c.resume = <<>> THEN items
        ELSE IF c.resume[1].count # Len(items) \/ at = {} THEN items
        ELSE SubSeq(items, Min(at) + 1, Len(items))

(* --stepwise: from the remembered failure on, unless the number of tests  *)
(* changed or it is gone.                                                  *)
Stepwise(o, c, items) ==
    LET at == {i \in DOMAIN items : c.resume # <<>> /\ items[i].id = c.resume[1].node}
    IN  IF ~o.sw \/ o.swReset \/ c.resume = <<>> THEN items
        ELSE IF c.resume[1].count # Len(items) \/ at = {} THEN items
        ELSE SubSeq(items, Min(at), Len(items))

(* --nf: the tests never seen first, the files changed last first.         *)
ByTime(mtime, s) ==
    LET order == Sorted(DOMAIN s, LAMBDA i, j :
                    \/ mtime[s[i].mod] > mtime[s[j].mod]
                    \/ mtime[s[i].mod] = mtime[s[j].mod] /\ i < j)
    IN  At(s, order)

NewFirst(o, c, mtime, items) ==
    IF ~o.nf THEN items
    ELSE ByTime(mtime, Where(items, LAMBDA it : it.id \notin c.nodeids))
            \o ByTime(mtime, Where(items, LAMBDA it : it.id \in c.nodeids))

(* What is left when --stepwise has chosen s from the tests f of --lf and  *)
(* --ff; total is what --stepwise remembers as the count.                  *)
CacheChoice(o, c, mtime, f, s) ==
    [items |-> NewFirst(o, c, mtime, s), total |-> Len(f.kept),
     removed |-> f.removed \o SubSeq(f.kept, 1, Len(f.kept) - Len(s)),
     nodeids |-> c.nodeids \cup {it.id : it \in ToSet(s)}]

AfterLastFailed(o, c, mtime, f) == CacheChoice(o, c, mtime, f, Stepwise(o, c, f.kept))

(* modify_items                                                            *)
ModifyItems(o, c, mtime, items) == AfterLastFailed(o, c, mtime, LastFailed(o, c, items))

---------------------------------------------------------------------------
(* sessionfinish.                                                          *)

Remember(failed, r) ==
    IF (r.phase = "call" /\ r.outcome = "passed") \/ r.outcome \in {"skipped", "xfailed"}
    THEN Where(failed, LAMBDA n : n # r.node)
    ELSE IF r.outcome = "failed" /\ ~Contains(failed, r.node) THEN Append(failed, r.node)
    ELSE failed

MutSaveLastFailed(c, reports, items) ==     \* mutant: replays the calls only
    FoldLeft(Remember, c.lastfailed, Where(reports, LAMBDA r : r.phase = "call"))

(* The failures of the run join those remembered, what passed or was       *)
(* skipped leaves; a file that could not be collected leaves once one of   *)
(* its tests is among the items.                                           *)
SaveLastFailed(c, reports, items) ==
    LET Recovered(n) == n.name = "" /\ \E it \in ToSet(items) : it.mod = n.mod
    IN  FoldLeft(Remember, Where(c.lastfailed, LAMBDA n : ~Recovered(n)), reports)

SaveResume(o, c, reports, total) ==
    LET failed == Where(reports, LAMBDA r : r.outcome = "failed")
    IN  IF ~o.sw THEN c.resume
        ELSE IF failed = <<>> THEN <<>>
        ELSE <<[node |-> Head(failed).node, count |-> total]>>

(* A set-up or tear-down that took longer than ten minutes does not count. *)
LongPhase == 2
SaveDurations(o, c, reports) ==
    LET counted == Where(reports, LAMBDA r : r.phase = "call" \/ r.time <= LongPhase)
        ids == {r.node : r \in ToSet(counted)}
        spent == [n \in ids |-> Sum([i \in DOMAIN counted |->
                                        IF counted[i].node = n THEN counted[i].time ELSE 0])]
    IN  IF ~o.storeDurations THEN c.durations
        ELSE IF o.cleanDurations THEN spent ELSE Merge(spent, c.durations)
=============================================================================
