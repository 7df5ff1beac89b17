----------------------------- MODULE FixtureLife -----------------------------
(***************************************************************************)
(* What the fixture engine promises a fixture with a teardown: a value is  *)
(* set up once, on values that are there, and is finished only when        *)
(* nothing built on it is left.  At its end a run may leave values behind  *)
(* that are never finished, together with all that was built on them.      *)
(* Runner implements this for the values whose end its cache records (see  *)
(* there).                                                                 *)
(***************************************************************************)
CONSTANT Value      \* identities of the values a run can build

VARIABLES live,     \* the values set up and not finished
          needs,    \* needs[v]: the values v was built on
          over      \* nothing is set up any more

vars == <<live, needs, over>>

Init == live = {} /\ needs = [v \in {} |-> {}] /\ over = FALSE

SetUp(v, on) ==
    /\ ~over /\ v \in Value \ DOMAIN needs
    /\ on \in SUBSET live
    /\ live' = live \cup {v}
    /\ needs' = [w \in DOMAIN needs \cup {v} |-> IF w = v THEN on ELSE needs[w]]
    /\ UNCHANGED over

Finish(v) ==
    /\ v \in live
    /\ \A w \in live : v \notin needs[w]
    /\ live' = live \ {v}
    /\ UNCHANGED <<needs, over>>

(* The end: what is left of the values, vs, will never be finished.        *)
Leave(vs) ==
    /\ ~over /\ over' = TRUE
    /\ vs \in SUBSET live
    /\ \A w \in live \ vs : needs[w] \cap vs = {}
    /\ live' = live \ vs
    /\ UNCHANGED needs

Next == \/ \E v \in Value, on \in SUBSET live : SetUp(v, on)
        \/ \E v \in live : Finish(v)
        \/ \E vs \in SUBSET live : Leave(vs)

Spec == Init /\ [][Next]_vars

---------------------------------------------------------------------------
TypeOK == /\ over \in BOOLEAN
          /\ live \subseteq DOMAIN needs /\ DOMAIN needs \subseteq Value
          /\ needs = [v \in DOMAIN needs |-> needs[v]]
          /\ \A v \in DOMAIN needs : needs[v] \subseteq DOMAIN needs

(* Whatever a live value was built on is live.                             *)
NothingMissing == \A v \in live : needs[v] \subseteq live

(* A finished value is never live again, and what a value was built on     *)
(* does not change.                                                        *)
OnceOnly == [][/\ \A v \in DOMAIN needs : v \in live' => v \in live
               /\ \A v \in DOMAIN needs : v \in DOMAIN needs' /\ needs'[v] = needs[v]]_vars
=============================================================================
