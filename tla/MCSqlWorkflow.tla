--------------------------- MODULE MCSqlWorkflow ---------------------------
(***************************************************************************)
(* A small company for TLC: a two-node chain, one reviewer per node, the   *)
(* submitter, who is also a member of the first group, and a superuser.    *)
(***************************************************************************)
EXTENDS SqlWorkflow, TLC

CONSTANTS eng, dev, dba, root, g1, g2

MCUsers == {eng, dev, dba, root}
MCGroups == {g1, g2}
MCChain == <<g1, g2>>
MCShortChain == <<g1>>   \* for the liveness run
MCSuperusers == {root}
MCReviewPerm == {eng, dev, dba}
MCMembersOf == g1 :> {eng, dev} @@ g2 :> {dba}
MCResourceMembers == {eng, dev, dba}
MCExecutors == {eng, dba}

\* Requests are interchangeable.
ReqSymmetry == Permutations(Req)
=============================================================================
