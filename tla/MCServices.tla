----------------------------- MODULE MCServices -----------------------------
(***************************************************************************)
(* The AI services for TLC: the diagnosis of a slow query, the             *)
(* optimisation of a statement, or the review of a ticket's statements.    *)
(* They share no state, so one run explores the one and the others; the    *)
(* parts not chosen in the beginning stay as they are.                     *)
(***************************************************************************)
EXTENDS MCDiagnosis, Optimisation, AIReview

VARIABLE part

\* The sets of two that belong to different parts are swapped together, which is one symmetry less
\* to look for in a state.
Swapped(pair) == [x \in pair |-> CHOOSE y \in pair : pair = {x, y}]

ServicesSymmetry ==
  {Swapped(Procs) @@ Swapped(Asks) @@ Swapped(Sqls)} \cup Permutations(Models)

ServicesInit ==
  /\ Init /\ OptimisationInit /\ ReviewInit
  /\ part \in {"diagnosis", "optimise", "review"}

ServicesNext ==
  \/ part = "diagnosis" /\ Next /\ UNCHANGED <<part, optimisationVars, reviewVars>>
  \/ part = "optimise" /\ OptimisationNext /\ UNCHANGED <<part, vars, reviewVars>>
  \/ part = "review" /\ ReviewNext /\ UNCHANGED <<part, vars, optimisationVars>>

\* The types of the AI services.
ServicesTypeOK == OptimisationTypeOK /\ ReviewTypeOK

ServicesSpec == ServicesInit /\ [][ServicesNext]_<<part, vars, optimisationVars, reviewVars>>
=============================================================================
