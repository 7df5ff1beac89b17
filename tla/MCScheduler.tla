---------------------------- MODULE MCScheduler ----------------------------
\* Instances of Scheduler for TLC: two or three slots, plans of up to five
\* tests in batches of one and two, and the empty plan.
EXTENDS Scheduler

MCTest == {"a", "b", "c", "d", "e"}
MCPlans == {<< >>, <<<<"a", "b">>, <<"c">>, <<"d", "e">>>>}
=============================================================================
