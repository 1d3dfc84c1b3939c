-------------------------- MODULE QueryPrivileges --------------------------
(***************************************************************************)
(* Applications of one user for query privileges on one instance, their    *)
(* review, the grants they lead to, and the check every query goes through.*)
(*                                                                         *)
(* Reviews come in by two doors.  QueryPrivAudit reads the audit row and   *)
(* then decides in one transaction: audit, application and grants.         *)
(* AuditWorkflow, the door all kinds of tickets share, has no transaction: *)
(* the audit row, the application and each grant are saved one by one.     *)
(*                                                                         *)
(* signed, modified and overlap are ghosts, read by properties only.       *)
(***************************************************************************)
EXTENDS AuditV2, FiniteSetsExt

CONSTANTS
  Dbs, Tables,  \* names on the instance
  AnyDb,        \* the database name "*"
  WholeDb,      \* the table name of a database privilege
  Applies,      \* ids of applications
  Form,         \* id -> what is applied for: items in order, limit, last valid day
  Reviews,      \* review requests that can be in flight together
  MaxLimit,     \* bound: largest limit_num
  LastDay,      \* bound: days
  MaxModifies,  \* bound: changes by a manager
  MaxLost       \* bound: review requests that die

Item   == [db : Dbs \cup {AnyDb}, tb : Tables \cup {WholeDb}]
Limits == 0..MaxLimit
Days   == 1..LastDay

ASSUME QueryAssumption ==
  /\ Applies \subseteq Nat \ {0}
  /\ AnyDb \notin Dbs /\ WholeDb \notin Tables
  /\ Form \in [Applies -> [items : Seq(Item), limit : Limits, until : Days]]
  /\ MaxLimit \in Nat /\ LastDay \in Nat \ {0} /\ MaxModifies \in Nat /\ MaxLost \in Nat

Grant  == [item : Item, limit : Limits, until : Days, deleted : BOOLEAN]

\* A review: read and about to decide in a transaction; about to save the audit row, the
\* application, or the grants in todo.
Review == [pc : {"idle", "decide", "audit", "apply", "grant"}, id : Applies \cup {0},
           action : WorkflowAction, audit : AuditRow, todo : Seq(Item)]
NoReview == [pc |-> "idle", id |-> 0, action |-> "pass", audit |-> NoAudit, todo |-> << >>]

VARIABLES
  apply,     \* id -> status of the query_privileges_apply row
  audits,    \* id -> its workflow_audit row
  grants,    \* the rows of query_privileges, in the order of their ids
  review,    \* request -> the review it carries out
  today,     \* the date
  modifies,  \* changes by managers so far
  lost,      \* review requests that died so far
  signed,    \* ghost: id -> the groups whose node somebody passed
  modified,  \* ghost: the items whose grant a manager changed since it was granted
  overlap    \* ghost: a review began while another was in flight

qGhosts == <<signed, modified, overlap>>
qBounds == <<today, modifies, lost>>
qVars == <<apply, audits, grants, review, today, modifies, lost, signed, modified, overlap>>

QInit ==
  /\ apply = [a \in Applies |-> "none"]
  /\ audits = [a \in Applies |-> NoAudit]
  /\ grants = << >>
  /\ review = [h \in Reviews |-> NoReview]
  /\ today = 1 /\ modifies = 0 /\ lost = 0
  /\ signed = [a \in Applies |-> {}]
  /\ modified = {}
  /\ overlap = FALSE

-----------------------------------------------------------------------------
(* Grants, and the check of a query against them.                          *)

\* _load_user_priv_rows: the rows that are neither deleted nor expired.
Live == {i \in DOMAIN grants : ~ grants[i].deleted /\ grants[i].until >= today}

\* The limit of the row with the least id; 0 if there is none.
FirstLimit(rows) == IF rows = {} THEN 0 ELSE grants[Min(rows)].limit

\* _match_db_priv and _match_tb_priv: the limit of the first row that fits; 0 is False.
match_db_priv(d) ==
  FirstLimit({i \in Live : grants[i].item.tb = WholeDb /\ grants[i].item.db \in {d, AnyDb}})
match_tb_priv(d, t) == FirstLimit({i \in Live : grants[i].item = [db |-> d, tb |-> t]})

\* The least of the limits that are there (0 is none).
Tightest(limits) == IF limits \subseteq {0} THEN 0 ELSE Min(limits \ {0})

Refused == [ok |-> FALSE, limit |-> 0]

\* query_priv_check on MySQL, for a user without a privilege on everything: refs are the
\* tables the statement refers to, want the limit the page asked for, 0 for none.  EXPLAIN
\* and SHOW CREATE are free: they go through without a look at the grants.
query_priv_check(free, refs, want) ==
  LET limit(r) == Tightest({match_db_priv(r.db), match_tb_priv(r.db, r.tb)})
  IN IF free THEN [ok |-> TRUE, limit |-> 0]
     ELSE IF \E r \in refs : limit(r) = 0 THEN Refused
     ELSE [ok |-> TRUE, limit |-> Tightest({want} \cup {limit(r) : r \in refs})]

\* The same on the other engines: only databases count, the chosen one among them.
query_db_check(dbs, want) ==
  IF \E d \in dbs : match_db_priv(d) = 0 THEN Refused
  ELSE [ok |-> TRUE, limit |-> Tightest({want} \cup {match_db_priv(d) : d \in dbs})]

\* The row an application gives an item.
RowOf(a, item) == [item |-> item, limit |-> Form[a].limit, until |-> Form[a].until, deleted |-> FALSE]

\* Slip: the lookup forgets the table's name (an old bug, told of in privilege_service).
update_or_create_any_table(rows, a, item) ==
  LET old == {i \in DOMAIN rows : rows[i].item.db = item.db}
  IN IF old = {} THEN Append(rows, RowOf(a, item))
     ELSE [rows EXCEPT ![CHOOSE i \in old : TRUE] = RowOf(a, item)]

\* update_or_create: the row of that item is given the new limit and day, and revived.
update_or_create(rows, a, item) ==
  LET old == {i \in DOMAIN rows : rows[i].item = item}
  IN IF old = {} THEN Append(rows, RowOf(a, item))
     ELSE [rows EXCEPT ![CHOOSE i \in old : TRUE] = RowOf(a, item)]

ItemsOf(a) == {Form[a].items[n] : n \in DOMAIN Form[a].items}

\* The loop of query_apply_audit_call_back: the items of an application, one after the other.
GrantAll(a) ==
  LET rows[n \in 0..Len(Form[a].items)] ==
        IF n = 0 THEN grants ELSE update_or_create(rows[n - 1], a, Form[a].items[n])
  IN rows[Len(Form[a].items)]

-----------------------------------------------------------------------------
(* Applying: ApplyForPrivilegesView.post.                                  *)

Has(item) == \E i \in Live : grants[i].item = item

\* The form is refused if a database privilege of that name, or the table's own, is there.
\* Nothing is ever passed by the system, so the callback after create_audit does nothing.
ApplyForPrivileges(a) ==
  /\ apply[a] = "none"
  /\ \A item \in ItemsOf(a) : ~ Has(item) /\ ~ Has([item EXCEPT !.tb = WholeDb])
  /\ apply' = [apply EXCEPT ![a] = "waiting"]
  /\ audits' = [audits EXCEPT ![a] = create_audit("no")]
  /\ UNCHANGED <<grants, review, qBounds, qGhosts>>

-----------------------------------------------------------------------------
(* Reviewing.                                                              *)

Reviewing(h, pc) == review[h].pc = pc
ReviewGoes(h, pc) == review' = [review EXCEPT ![h].pc = pc]
ReviewEnds(h) == review' = [review EXCEPT ![h] = NoReview]

StartReview(h, a, action, pc) ==
  /\ Reviewing(h, "idle")
  /\ apply[a] # "none"
  /\ review' = [review EXCEPT ![h] =
       [NoReview EXCEPT !.pc = pc, !.id = a, !.action = action, !.audit = audits[a]]]
  /\ overlap' = (overlap \/ \E g \in Reviews : ~ Reviewing(g, "idle"))
  /\ UNCHANGED <<apply, audits, grants, qBounds, signed, modified>>

\* QueryPrivAudit: who may review now, and may do this.
QueryPrivAuditRead(h) ==
  \E a \in Applies, u \in Users, action \in WorkflowAction :
    /\ can_review(audits[a], u)
    /\ can_operate(audits[a], action, u)
    /\ StartReview(h, a, action, "decide")

\* AuditWorkflow: of an application only a pass goes through.  A cancel reads the
\* attribute engineer, which applications do not have, and ends in an error.
AuditWorkflowRead(h) ==
  \E a \in Applies, u \in Users :
    /\ can_operate(audits[a], "pass", u)
    /\ StartReview(h, a, "pass", "audit")

Signs(h) ==
  signed' = IF review[h].action = "pass"
            THEN [signed EXCEPT ![review[h].id] = @ \cup {review[h].audit.current}]
            ELSE signed

\* Slip: the callback goes by the action, not by what has become of the audit.
DecideByAction(h) ==
  LET a == review[h].id IN
  /\ Reviewing(h, "decide")
  /\ audits' = [audits EXCEPT ![a] = operate(review[h].audit, review[h].action)]
  /\ apply' = [apply EXCEPT ![a] = IF review[h].action = "pass" THEN "passed"
                                   ELSE IF review[h].action = "reject" THEN "rejected" ELSE @]
  /\ IF review[h].action = "pass"
     THEN /\ grants' = GrantAll(a)
          /\ modified' = modified \ ItemsOf(a)
     ELSE UNCHANGED <<grants, modified>>
  /\ Signs(h)
  /\ ReviewEnds(h)
  /\ UNCHANGED <<qBounds, overlap>>

\* Slip: the application takes over whatever status the audit has got.
DecideByStatus(h) ==
  LET a  == review[h].id
      st == operate(review[h].audit, review[h].action).status
  IN /\ Reviewing(h, "decide")
     /\ audits' = [audits EXCEPT ![a] = operate(review[h].audit, review[h].action)]
     /\ apply' = [apply EXCEPT ![a] = st]
     /\ IF st = "passed"
        THEN /\ grants' = GrantAll(a)
             /\ modified' = modified \ ItemsOf(a)
        ELSE UNCHANGED <<grants, modified>>
     /\ Signs(h)
     /\ ReviewEnds(h)
     /\ UNCHANGED <<qBounds, overlap>>

\* QueryPrivAudit's transaction: the audit row is saved from the copy, and
\* query_apply_audit_call_back follows the status that came out.  Of an application that
\* goes on waiting, or was aborted, the callback changes nothing.
Decide(h) ==
  LET a  == review[h].id
      st == operate(review[h].audit, review[h].action).status
  IN /\ Reviewing(h, "decide")
     /\ audits' = [audits EXCEPT ![a] = operate(review[h].audit, review[h].action)]
     /\ apply' = [apply EXCEPT ![a] = IF st \in {"passed", "rejected"} THEN st ELSE @]
     /\ IF st = "passed"
        THEN /\ grants' = GrantAll(a)
             /\ modified' = modified \ ItemsOf(a)
        ELSE UNCHANGED <<grants, modified>>
     /\ Signs(h)
     /\ ReviewEnds(h)
     /\ UNCHANGED <<qBounds, overlap>>

\* AuditWorkflow: the audit row, from the copy ...
SaveAudit(h) ==
  LET row == operate(review[h].audit, review[h].action) IN
  /\ Reviewing(h, "audit")
  /\ audits' = [audits EXCEPT ![review[h].id] = row]
  /\ Signs(h)
  /\ IF row.status = "passed" THEN ReviewGoes(h, "apply") ELSE ReviewEnds(h)
  /\ UNCHANGED <<apply, grants, qBounds, modified, overlap>>

\* ... the application ...
SaveApply(h) ==
  /\ Reviewing(h, "apply")
  /\ apply' = [apply EXCEPT ![review[h].id] = "passed"]
  /\ review' = [review EXCEPT ![h].pc = "grant", ![h].todo = Form[review[h].id].items]
  /\ UNCHANGED <<audits, grants, qBounds, qGhosts>>

\* ... and the grants, each in a transaction of its own.
SaveGrant(h) ==
  LET item == Head(review[h].todo) IN
  /\ Reviewing(h, "grant")
  /\ review[h].todo # << >>
  /\ grants' = update_or_create(grants, review[h].id, item)
  /\ modified' = modified \ {item}
  /\ review' = [review EXCEPT ![h].todo = Tail(@)]
  /\ UNCHANGED <<apply, audits, qBounds, signed, overlap>>

GrantsSaved(h) ==
  /\ Reviewing(h, "grant")
  /\ review[h].todo = << >>
  /\ ReviewEnds(h)
  /\ UNCHANGED <<apply, audits, grants, qBounds, qGhosts>>

\* The web process dies.  A transaction that had begun leaves nothing behind.
ReviewDies(h) ==
  /\ ~ Reviewing(h, "idle")
  /\ lost < MaxLost
  /\ lost' = lost + 1
  /\ ReviewEnds(h)
  /\ UNCHANGED <<apply, audits, grants, today, modifies, qGhosts>>

-----------------------------------------------------------------------------
(* Managers: ModifyPrivilegesView.post.  And time.                         *)

Modify(i, row) ==
  /\ modifies < MaxModifies
  /\ grants' = [grants EXCEPT ![i] = row]
  /\ modified' = modified \cup {grants[i].item}
  /\ modifies' = modifies + 1
  /\ UNCHANGED <<apply, audits, review, today, lost, signed, overlap>>

\* save(update_fields): the columns named, of the row as it is now.
DeletePrivilege == \E i \in DOMAIN grants : Modify(i, [grants[i] EXCEPT !.deleted = TRUE])

ChangePrivilege ==
  \E i \in DOMAIN grants, n \in Limits, d \in Days :
    Modify(i, [grants[i] EXCEPT !.limit = n, !.until = d])

NextDay ==
  /\ today < LastDay
  /\ today' = today + 1
  /\ UNCHANGED <<apply, audits, grants, review, modifies, lost, qGhosts>>

QNext ==
  \/ \E a \in Applies : ApplyForPrivileges(a)
  \/ \E h \in Reviews :
       \/ QueryPrivAuditRead(h) \/ Decide(h)
       \/ AuditWorkflowRead(h) \/ SaveAudit(h) \/ SaveApply(h) \/ SaveGrant(h) \/ GrantsSaved(h)
       \/ ReviewDies(h)
  \/ DeletePrivilege \/ ChangePrivilege
  \/ NextDay

QSpec == QInit /\ [][QNext]_qVars

-----------------------------------------------------------------------------
(* Properties.                                                             *)

QTypeOK ==
  /\ apply \in [Applies -> {"none", "waiting", "passed", "rejected"}]
  /\ audits \in [Applies -> AuditRow]
  /\ grants \in Seq(Grant)
  /\ review \in [Reviews -> Review]
  /\ today \in Days /\ modifies \in 0..MaxModifies /\ lost \in 0..MaxLost
  /\ signed \in [Applies -> SUBSET Groups]
  /\ modified \subseteq Item
  /\ overlap \in BOOLEAN

\* An item that covers a table, and applications that everybody signed.
Covers(item, r) == item = r \/ (item.tb = WholeDb /\ item.db \in {r.db, AnyDb})
Granted(a) == ChainGroups \subseteq signed[a]

\* A query that query_priv_check lets through reads only tables that an application asked
\* for and that EVERY group of the chain passed, on a day it is valid for, with a limit
\* of at most the one applied for (day and limit may be a manager's instead).  Deleted
\* grants do not count, however they were brought back.  Not so for EXPLAIN and SHOW CREATE
\* (query_privileges.py:111-113), which name tables nobody granted.
TablesAreReviewed ==
  \A free \in BOOLEAN, refs \in SUBSET [db : Dbs, tb : Tables], want \in Limits :
    LET checked == query_priv_check(free, refs, want) IN
    checked.ok /\ ~ free =>
      \A r \in refs : \E i \in DOMAIN grants :
        /\ Covers(grants[i].item, r)
        /\ ~ grants[i].deleted
        /\ grants[i].until >= today
        /\ checked.limit <= grants[i].limit
        /\ \E a \in Applies :
             /\ Granted(a)
             /\ grants[i].item \in ItemsOf(a)
             /\ grants[i].item \notin modified =>
                  grants[i].limit = Form[a].limit /\ grants[i].until = Form[a].until

\* The two checks agree on whole databases: an engine on which only databases count lets
\* through what MySQL would let through for any table of them, its free statements aside.
ChecksAgree ==
  \A d \in Dbs, want \in Limits :
    LET checked == query_db_check({d}, want)
        mysql(t) == query_priv_check(FALSE, {[db |-> d, tb |-> t]}, want)
    IN checked.ok => \A t \in Tables : mysql(t).ok /\ mysql(t).limit <= checked.limit

\* What is let through was applied for and passed, on MySQL table by table (EXPLAIN and SHOW
\* CREATE aside) and on the other engines database by database.
QueriesAreReviewed == TablesAreReviewed /\ ChecksAgree

\* When reviews came one at a time and none died, application, audit row and grants say
\* the same once the requests are over: a passed application has a row for each of its
\* items, and no other application has become passed or rejected.
DecisionsAgree ==
  ~ overlap /\ lost = 0 /\ (\A h \in Reviews : Reviewing(h, "idle")) =>
    \A a \in Applies :
      /\ \A st \in {"passed", "rejected"} : apply[a] = st <=> audits[a].status = st
      /\ apply[a] = "passed" =>
           \A item \in ItemsOf(a) : \E i \in DOMAIN grants : grants[i].item = item
=============================================================================
