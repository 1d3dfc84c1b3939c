----------------------------- MODULE MCRequests -----------------------------
(***************************************************************************)
(* Three kinds of requests for TLC, each of which writes several rows or   *)
(* places in turn: query privileges, an archive, and the reload of the     *)
(* authentication settings.  They share no state, so one run explores the  *)
(* one, the other and the third: the parts that are not chosen in the      *)
(* beginning stay as they are.                                             *)
(***************************************************************************)
EXTENDS QueryPrivileges, Archive, AuthReload, TLC

CONSTANTS app, dev, dba, g1, g2

MCUsers == {app, dev, dba}
MCGroups == {g1, g2}
MCChain == <<g1, g2>>
MCMembersOf == g1 :> {app, dev} @@ g2 :> {dba}

\* Two tables of a database, and the database: each application may come before, after
\* and while the other is under review.
MCForm ==
  1 :> [items |-> <<[db |-> "d", tb |-> "t1"], [db |-> "d", tb |-> "t2"]>>,
        limit |-> 1, until |-> 2] @@
  2 :> [items |-> <<[db |-> "d", tb |-> "all"]>>, limit |-> 2, until |-> 1]

VARIABLE part

MCInit == QInit /\ AInit /\ ReloadInit /\ part \in {"query", "archive", "reload"}

MCNext ==
  \/ part = "query" /\ QNext /\ UNCHANGED <<part, aVars, reloadVars>>
  \/ part = "archive" /\ ANext /\ UNCHANGED <<part, qVars, reloadVars>>
  \/ part = "reload" /\ ReloadNext /\ UNCHANGED <<part, qVars, aVars>>

MCSpec == MCInit /\ [][MCNext]_<<part, qVars, aVars, reloadVars>>

\* The types of the three.
RequestsTypeOK == QTypeOK /\ ATypeOK /\ ReloadTypeOK

\* Requests are interchangeable.
RequestSymmetry == Permutations(Reviews)

\* What happens after two processes reloaded at a time is not explored: the properties of
\* the reload say nothing of it.
Apart == ~ mixed
=============================================================================
