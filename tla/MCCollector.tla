---------------------------- MODULE MCCollector ----------------------------
(***************************************************************************)
(* The collection and the aggregation of slow queries for TLC.  The two    *)
(* meet in the detail table only, to which the one adds what the other     *)
(* counts: a state has one of them at work, the other at rest.             *)
(***************************************************************************)
EXTENDS Collector, Aggregation, TLC

\* Databases are interchangeable, and so are workers.
CollectorSymmetry == Permutations(Dbs) \cup Permutations(Rounds) \cup Permutations(Aggregators)

VARIABLE part

\* An instance to stand still on.
Resting == kind = CHOOSE k \in Kinds : TRUE

MCInit == Init /\ AggInit /\ part \in {"collect", "aggregate"} /\ (part = "aggregate" => Resting)

MCNext ==
  \/ part = "collect" /\ Next /\ UNCHANGED <<part, aggVars>>
  \/ part = "aggregate" /\ AggNext /\ UNCHANGED <<part, vars>>

MCSpec == MCInit /\ [][MCNext]_<<part, vars, aggVars>>
=============================================================================
