------------------------- MODULE MCSqlWorkflowCalm -------------------------
(***************************************************************************)
(* The calm ticket with a three-node chain, in a small company.            *)
(***************************************************************************)
EXTENDS SqlWorkflowCalm, TLC

CONSTANTS eng, dev, dba, root, g1, g2, g3

MCUsers == {eng, dev, dba, root}
MCGroups == {g1, g2, g3}
MCChain == <<g1, g2, g3>>
MCSuperusers == {root}
MCReviewPerm == {eng, dev, dba}
MCMembersOf == g1 :> {eng, dev} @@ g2 :> {dba} @@ g3 :> {dba}
MCResourceMembers == {eng, dev, dba}
MCExecutors == {eng, dba}
=============================================================================
