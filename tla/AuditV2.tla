------------------------------ MODULE AuditV2 ------------------------------
(***************************************************************************)
(* The approval rules of sql/utils/workflow_audit.py: the chain of auth    *)
(* groups a ticket passes through, which action is legal in which state,   *)
(* who may take it, and what each action writes into the WorkflowAudit     *)
(* row.  The module has no state of its own: a row is a record, and the    *)
(* modules of the tickets (SQL workflow, query privilege application,      *)
(* archive configuration) read and write it the way the code does, through *)
(* in-memory copies.                                                       *)
(***************************************************************************)
EXTENDS Naturals, Sequences

CONSTANTS
  Users,           \* usernames
  Groups,          \* ids of Django auth groups
  Chain,           \* WorkflowAuditSetting.audit_auth_groups, split at the commas
  Submitter,       \* the user who submitted the ticket (create_user, engineer)
  Superusers,      \* users with is_superuser
  ReviewPerm,      \* users holding the review permission of this ticket type
  MembersOf,       \* auth group -> users in it
  ResourceMembers, \* users of the ticket's resource group
  BanSelfAudit     \* the ban_self_audit switch

NoNode == "-1"     \* current_audit / next_audit when there is no such node

ASSUME ChainAssumption ==
  /\ Chain \in Seq(Groups)
  /\ Chain # << >>
  /\ NoNode \notin Groups

ASSUME PeopleAssumption ==
  /\ Submitter \in Users
  /\ Superusers \subseteq Users
  /\ ReviewPerm \subseteq Users
  /\ ResourceMembers \subseteq Users
  /\ MembersOf \in [Groups -> SUBSET Users]
  /\ BanSelfAudit \in BOOLEAN

Nodes == Groups \cup {NoNode}
WorkflowStatus == {"none", "waiting", "passed", "rejected", "aborted"}
WorkflowAction == {"pass", "reject", "abort"}
AuditRow == [status : WorkflowStatus, current : Nodes, next : Nodes]

\* No WorkflowAudit row exists yet.
NoAudit == [status |-> "none", current |-> NoNode, next |-> NoNode]

-----------------------------------------------------------------------------
(* The chain.                                                              *)

ChainGroups == {Chain[i] : i \in DOMAIN Chain}

\* list.index: the FIRST place of a group in the chain (a group may occur twice).
ChainIndex(g) ==
  CHOOSE i \in DOMAIN Chain :
    /\ Chain[i] = g
    /\ \A j \in DOMAIN Chain : Chain[j] = g => i <= j

\* The node operate_pass writes into next_audit when g becomes the current one.
NodeAfter(g) ==
  IF ChainIndex(g) = Len(Chain) THEN NoNode ELSE Chain[ChainIndex(g) + 1]

-----------------------------------------------------------------------------
(* Who may do what.                                                        *)

\* Definitions marked "Slip" are wrong on purpose and used by no other: each stands
\* in for the definition after it to show which property would notice the mistake.

\* Slip: a rejected ticket can be passed after all.
SUPPORTED_OPERATION_GRID_Reopen ==
  [s \in WorkflowStatus |->
    CASE s \in {"waiting", "rejected"} -> {"pass", "reject", "abort"}
      [] s = "passed"                  -> {"reject", "abort"}
      [] OTHER                         -> {}]

SUPPORTED_OPERATION_GRID ==
  [s \in WorkflowStatus |->
    CASE s = "waiting" -> {"pass", "reject", "abort"}
      [] s = "passed"  -> {"reject", "abort"}
      [] OTHER         -> {}]

HasReviewPerm(u) == u \in ReviewPerm \cup Superusers

\* can_operate for the actions a request can ask for.
can_operate(a, action, u) ==
  /\ action \in SUPPORTED_OPERATION_GRID[a.status]
  /\ action = "abort" => u = Submitter
  /\ action \in {"pass", "reject"} =>
       \/ u \in Superusers
       \/ /\ ~ (u = Submitter /\ BanSelfAudit)
          /\ HasReviewPerm(u)
          /\ a.current \in Groups
          /\ MembersOf[a.current] \cap ResourceMembers # {}
          /\ u \in MembersOf[a.current]

\* Audit.can_review, the older check the cancel path and the detail page use.
can_review(a, u) ==
  /\ ~ (u = Submitter /\ u \notin Superusers /\ BanSelfAudit)
  /\ a.status = "waiting"
  /\ \/ u \in Superusers
     \/ u \in MembersOf[a.current] \cap ResourceMembers
  /\ HasReviewPerm(u)

-----------------------------------------------------------------------------
(* What an action writes.                                                  *)

\* create_audit: the system refuses, passes without review, or opens the chain.
create_audit(auto) ==
  CASE auto = "reject" -> [NoAudit EXCEPT !.status = "rejected"]
    [] auto = "pass"   -> [NoAudit EXCEPT !.status = "passed"]
    [] OTHER -> [status  |-> "waiting",
                 current |-> Chain[1],
                 next    |-> IF Len(Chain) = 1 THEN NoNode ELSE Chain[2]]

\* Slip: the ticket passes when no node FOLLOWS the next one.
operate_pass_early(a) ==
  IF a.next = NoNode \/ NodeAfter(a.next) = NoNode
  THEN [a EXCEPT !.status = "passed", !.current = NoNode]
  ELSE [status |-> "waiting", current |-> a.next, next |-> NodeAfter(a.next)]

operate_pass(a) ==
  IF a.next = NoNode
  THEN [a EXCEPT !.status = "passed", !.current = NoNode]
  ELSE [status |-> "waiting", current |-> a.next, next |-> NodeAfter(a.next)]

operate_reject(a) == [NoAudit EXCEPT !.status = "rejected"]

\* operate_abort leaves current_audit as it was.
operate_abort(a) == [a EXCEPT !.status = "aborted", !.next = NoNode]

operate(a, action) ==
  CASE action = "pass"   -> operate_pass(a)
    [] action = "reject" -> operate_reject(a)
    [] action = "abort"  -> operate_abort(a)

-----------------------------------------------------------------------------
(* get_review_info: what the ticket's page shows for each node of a chain. *)

\* Slip: every node but the current one is shown as passed.
get_review_info_no_order(a) ==
  [i \in DOMAIN Chain |->
    IF a.status # "waiting" THEN "unknown"
    ELSE IF Chain[i] = a.current THEN "current"
    ELSE "passed"]

get_review_info(a) ==
  [i \in DOMAIN Chain |->
    IF a.status # "waiting" THEN "unknown"
    ELSE IF Chain[i] = a.current THEN "current"
    ELSE IF \E j \in 1..i : Chain[j] = a.current THEN "pending"
    ELSE "passed"]
=============================================================================
