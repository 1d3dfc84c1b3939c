-------------------------- MODULE Requests_proofs --------------------------
(***************************************************************************)
(* Proofs about the query privileges, the archive and the reload, for any  *)
(* chain, any company, and any number of applications, requests, runs and  *)
(* processes.  The privileges: their types, that what may be queried was   *)
(* signed for, and that application, audit row and grants agree.  The      *)
(* archive: its types, and that a run asked for at a door with a check had *)
(* every group's signature.  The reload: the user's lines of .env survive  *)
(* it, and it does all that was saved or nothing.  In the end all three    *)
(* as one run explores them: the composition implements each.              *)
(***************************************************************************)
EXTENDS MCRequests, AuditV2_proofs, TLAPS

-----------------------------------------------------------------------------
(* What update_or_create does to the grants.                               *)

\* An item has one row (the lookup of update_or_create would find two).
OneEach(rows) == \A i, j \in DOMAIN rows : rows[i].item = rows[j].item => i = j

\* new is what becomes of old when an application's items are granted: a row of theirs for each,
\* and the others as they were.
Renewed(old, new, a, items) ==
  /\ new \in Seq(Grant) /\ OneEach(new)
  /\ \A i \in DOMAIN old : i \in DOMAIN new /\ new[i].item = old[i].item
  /\ \A i \in DOMAIN new : IF new[i].item \in items THEN new[i] = RowOf(a, new[i].item)
                           ELSE i \in DOMAIN old /\ new[i] = old[i]
  /\ \A item \in items : \E i \in DOMAIN new : new[i].item = item

\* What an application asks for: items, a limit and a day, and rows that are rows.
LEMMA FormFacts ==
  ASSUME NEW a \in Applies
  PROVE  /\ Form[a].items \in Seq(Item) /\ Form[a].limit \in Limits /\ Form[a].until \in Days
         /\ Len(Form[a].items) \in Nat /\ DOMAIN Form[a].items = 1..Len(Form[a].items)
         /\ ItemsOf(a) \subseteq Item
         /\ \A item \in Item : RowOf(a, item) \in Grant /\ RowOf(a, item).item = item
<1>1. Form[a] \in [items : Seq(Item), limit : Limits, until : Days]
  BY QueryAssumption
<1>2. Form[a].items \in Seq(Item) /\ Form[a].limit \in Limits /\ Form[a].until \in Days
  BY <1>1
<1>3. Len(Form[a].items) \in Nat /\ DOMAIN Form[a].items = 1..Len(Form[a].items)
  BY <1>2
<1>4. ItemsOf(a) \subseteq Item
  BY <1>2 DEF ItemsOf
<1>5. \A item \in Item : RowOf(a, item) \in Grant /\ RowOf(a, item).item = item
  BY <1>2 DEF RowOf, Grant
<1> QED
  BY <1>2, <1>3, <1>4, <1>5

\* One item: its row is renewed where it is, or is the last one.
LEMMA OneRenewed ==
  ASSUME NEW rows \in Seq(Grant), OneEach(rows), NEW a \in Applies, NEW item \in Item
  PROVE  Renewed(rows, update_or_create(rows, a, item), a, {item})
<1> DEFINE old == {i \in DOMAIN rows : rows[i].item = item}
           row == RowOf(a, item)
           new == update_or_create(rows, a, item)
<1>1. row \in Grant /\ row.item = item
  BY FormFacts
<1>2. DOMAIN rows = 1..Len(rows) /\ Len(rows) \in Nat /\ \A i \in DOMAIN rows : rows[i] \in Grant
  OBVIOUS
<1>3. CASE old = {}
  <2>1. new = Append(rows, row)
    BY <1>3 DEF update_or_create
  <2> HIDE DEF row, new
  <2>2. /\ new \in Seq(Grant) /\ DOMAIN new = 1..(Len(rows) + 1)
        /\ new[Len(rows) + 1] = row /\ \A i \in 1..Len(rows) : new[i] = rows[i]
    BY <1>1, <2>1
  <2>3. \A i \in 1..Len(rows) : rows[i].item # item
    BY <1>2, <1>3
  <2>4. \A i \in DOMAIN new : i = Len(rows) + 1 \/ i \in 1..Len(rows)
    BY <1>2, <2>2
  <2>5. Len(rows) + 1 \in DOMAIN new /\ Len(rows) + 1 \notin DOMAIN rows /\ DOMAIN rows \subseteq DOMAIN new
    BY <1>2, <2>2
  <2>6. OneEach(new)
    BY <1>1, <1>2, <2>2, <2>3, <2>4 DEF OneEach
  <2> QED
    BY <1>1, <1>2, <2>2, <2>3, <2>4, <2>5, <2>6 DEF Renewed, row, new
<1>4. CASE old # {}
  <2> DEFINE at == CHOOSE i \in old : TRUE
  <2>1. at \in old
    BY <1>4
  <2>2. new = [rows EXCEPT ![at] = row]
    BY <1>4 DEF update_or_create
  <2>3. at \in DOMAIN rows /\ rows[at].item = item
    BY <2>1
  <2> HIDE DEF at, row, new
  <2>4. /\ new \in Seq(Grant) /\ DOMAIN new = DOMAIN rows
        /\ new[at] = row /\ \A i \in DOMAIN rows \ {at} : new[i] = rows[i]
    BY <1>1, <1>2, <2>2, <2>3
  <2>5. \A i \in DOMAIN rows : rows[i].item = item <=> i = at
    BY <2>3 DEF OneEach
  <2>6. \A i \in DOMAIN rows : new[i].item = rows[i].item
    BY <1>1, <2>3, <2>4
  <2>7. OneEach(new)
    BY <2>4, <2>6 DEF OneEach
  <2> QED
    BY <1>1, <2>3, <2>4, <2>5, <2>6, <2>7 DEF Renewed, row, new
<1> QED
  BY <1>3, <1>4

\* Items that are granted one after the other.
LEMMA RenewedMore ==
  ASSUME NEW old, NEW mid, NEW new, NEW a, NEW items, NEW item,
         Renewed(old, mid, a, items), Renewed(mid, new, a, {item})
  PROVE  Renewed(old, new, a, items \cup {item})
<1>1. /\ new \in Seq(Grant) /\ OneEach(new)
      /\ \A i \in DOMAIN old : i \in DOMAIN new /\ new[i].item = old[i].item
  BY DEF Renewed
<1>2. ASSUME NEW i \in DOMAIN new
      PROVE  IF new[i].item \in items \cup {item} THEN new[i] = RowOf(a, new[i].item)
             ELSE i \in DOMAIN old /\ new[i] = old[i]
  <2>1. CASE new[i].item = item
    BY <2>1 DEF Renewed
  <2>2. CASE new[i].item # item
    <3>1. i \in DOMAIN mid /\ new[i] = mid[i]
      BY <2>2 DEF Renewed
    <3>2. IF mid[i].item \in items THEN mid[i] = RowOf(a, mid[i].item)
          ELSE i \in DOMAIN old /\ mid[i] = old[i]
      BY <3>1 DEF Renewed
    <3> QED
      BY <2>2, <3>1, <3>2
  <2> QED
    BY <2>1, <2>2
<1>3. \A it \in items \cup {item} : \E i \in DOMAIN new : new[i].item = it
  BY DEF Renewed
<1> QED
  BY <1>1, <1>2, <1>3 DEF Renewed

\* The loop over an application's items renews them all.
LEMMA AllRenewed ==
  ASSUME grants \in Seq(Grant), OneEach(grants), NEW a \in Applies
  PROVE  Renewed(grants, GrantAll(a), a, ItemsOf(a))
<1> DEFINE items == Form[a].items
           N == Len(items)
           IsLoop(f, m) == f = [n \in 0..m |-> IF n = 0 THEN grants
                                               ELSE update_or_create(f[n - 1], a, items[n])]
           rows == CHOOSE f : IsLoop(f, N)
           UpTo(n) == {items[k] : k \in 1..n}
<1>1. GrantAll(a) = rows[N]
  BY Zenon DEF GrantAll
<1>2. N \in Nat /\ \A k \in 1..N : items[k] \in Item
  BY FormFacts
<1>3. ItemsOf(a) = UpTo(N)
  BY FormFacts DEF ItemsOf
<1> HIDE DEF items, N, rows
<1>4. \E f : IsLoop(f, N)
  <2> DEFINE Stuck == {m \in 0..N : ~ \E f : IsLoop(f, m)}
  <2> SUFFICES ASSUME Stuck # {} PROVE FALSE
    BY <1>2
  <2>1. PICK m \in Stuck : \A n \in Stuck : m <= n
    <3>1. Stuck \in SUBSET Nat
      BY <1>2
    <3> HIDE DEF Stuck
    <3> QED
      BY <3>1, LeastNumber
  <2>2. m \in 0..N /\ ~ \E f : IsLoop(f, m)
    BY <2>1
  <2>3. CASE m = 0
    <3>1. IsLoop([n \in 0..0 |-> grants], 0)
      OBVIOUS
    <3> QED
      BY <2>2, <2>3, <3>1
  <2>4. CASE m # 0
    <3>1. m - 1 \in 0..N /\ m - 1 \notin Stuck /\ m \in Nat
      BY <1>2, <2>1, <2>2, <2>4
    <3>2. PICK f : IsLoop(f, m - 1)
      BY <3>1
    <3> DEFINE g == [n \in 0..m |-> IF n = m THEN update_or_create(f[m - 1], a, items[m]) ELSE f[n]]
    <3>3. ASSUME NEW n \in 0..m
          PROVE  g[n] = IF n = 0 THEN grants ELSE update_or_create(g[n - 1], a, items[n])
      <4>1. CASE n = m
        <5>1. m - 1 \in 0..m /\ m - 1 # m
          BY <2>4, <3>1
        <5>2. g[m - 1] = f[m - 1]
          BY <5>1
        <5> QED
          BY <2>4, <4>1, <5>2
      <4>2. CASE n # m
        <5>1. n \in 0..(m - 1) /\ (n # 0 => n - 1 \in 0..m /\ n - 1 # m)
          BY <3>1, <4>2
        <5>2. f[n] = IF n = 0 THEN grants ELSE update_or_create(f[n - 1], a, items[n])
          BY <3>2, <5>1
        <5>3. n # 0 => g[n - 1] = f[n - 1]
          BY <5>1
        <5>4. g[n] = f[n]
          BY <4>2
        <5> QED
          BY <5>2, <5>3, <5>4
      <4> QED
        BY <4>1, <4>2
    <3>4. g = [n \in 0..m |-> g[n]]
      OBVIOUS
    <3> HIDE DEF g
    <3>5. IsLoop(g, m)
      BY <3>3, <3>4
    <3> QED
      BY <2>2, <3>5
  <2> QED
    BY <2>3, <2>4
<1>5. IsLoop(rows, N)
  BY <1>4 DEF rows
<1>6. ASSUME NEW n \in 0..N
      PROVE  rows[n] = IF n = 0 THEN grants ELSE update_or_create(rows[n - 1], a, items[n])
  BY <1>5
<1> HIDE DEF IsLoop
<1>7. \A n \in 0..N : Renewed(grants, rows[n], a, UpTo(n))
  <2> DEFINE Wrong == {n \in 0..N : ~ Renewed(grants, rows[n], a, UpTo(n))}
  <2> SUFFICES ASSUME Wrong # {} PROVE FALSE
    OBVIOUS
  <2>1. PICK m \in Wrong : \A n \in Wrong : m <= n
    <3>1. Wrong \in SUBSET Nat
      BY <1>2
    <3> HIDE DEF Wrong
    <3> QED
      BY <3>1, LeastNumber
  <2>2. m \in 0..N /\ ~ Renewed(grants, rows[m], a, UpTo(m))
    BY <2>1
  <2>3. CASE m = 0
    <3>1. rows[m] = grants
      BY <1>6, <2>2, <2>3
    <3>2. UpTo(m) = {}
      BY <2>3
    <3> QED
      BY <2>2, <3>1, <3>2 DEF Renewed
  <2>4. CASE m # 0
    <3>1. m - 1 \in 0..N /\ m - 1 \notin Wrong /\ m \in 1..N
      <4>1. m - 1 \in 0..N /\ m \in 1..N /\ ~ (m <= m - 1)
        BY <1>2, <2>2, <2>4
      <4> HIDE DEF Wrong
      <4> QED
        BY <2>1, <4>1
    <3>2. Renewed(grants, rows[m - 1], a, UpTo(m - 1))
      BY <3>1
    <3>3. rows[m] = update_or_create(rows[m - 1], a, items[m])
      BY <1>6, <2>2, <2>4
    <3>4. rows[m - 1] \in Seq(Grant) /\ OneEach(rows[m - 1])
      BY <3>2 DEF Renewed
    <3>5. items[m] \in Item
      BY <1>2, <3>1
    <3>6. Renewed(rows[m - 1], rows[m], a, {items[m]})
      BY <3>3, <3>4, <3>5, OneRenewed
    <3>7. UpTo(m) = UpTo(m - 1) \cup {items[m]}
      <4>1. 1..m = 1..(m - 1) \cup {m}
        BY <3>1, <1>2
      <4> QED
        BY <4>1
    <3> HIDE DEF UpTo
    <3>8. Renewed(grants, rows[m], a, UpTo(m - 1) \cup {items[m]})
      BY <3>2, <3>6, RenewedMore, Zenon
    <3> QED
      BY <2>2, <3>7, <3>8, Zenon
  <2> QED
    BY <2>3, <2>4
<1>8. N \in 0..N
  BY <1>2
<1> HIDE DEF UpTo
<1> QED
  BY <1>1, <1>3, <1>7, <1>8

-----------------------------------------------------------------------------
(* Types.  A review that is read is of a waiting row, and what it grants    *)
(* is of its application.                                                  *)

GoodReview ==
  {v \in [pc : {"idle", "decide", "audit", "apply", "grant"}, id : Applies \cup {0},
          action : WorkflowAction, audit : GoodRow, todo : Seq(Item)] :
     /\ v.pc # "idle" => v.id \in Applies
     /\ v.pc \in {"decide", "audit"} => v.audit.status = "waiting"
     /\ v.pc = "audit" => v.action = "pass"
     /\ v.pc = "grant" => \A n \in DOMAIN v.todo : v.todo[n] \in ItemsOf(v.id)}

PrivInv ==
  /\ apply \in [Applies -> {"none", "waiting", "passed", "rejected"}]
  /\ audits \in [Applies -> GoodRow]
  /\ grants \in Seq(Grant) /\ OneEach(grants)
  /\ review \in [Reviews -> GoodReview]
  /\ today \in Days /\ modifies \in 0..MaxModifies /\ lost \in 0..MaxLost
  /\ signed \in [Applies -> SUBSET Groups]
  /\ modified \subseteq Item
  /\ overlap \in BOOLEAN

\* The strengthened types are types.
LEMMA PrivInvTypeOK == PrivInv => QTypeOK
<1>1. GoodRow \subseteq AuditRow
  BY DEF GoodRow
<1>2. GoodReview \subseteq Review
  BY <1>1 DEF GoodReview, Review
<1> QED
  BY <1>1, <1>2 DEF PrivInv, QTypeOK

\* A review that is over is a good one.
LEMMA NoReviewGood == NoReview \in GoodReview /\ NoReview.pc = "idle" /\ NoReview.audit = NoAudit
<1>1. NoAudit \in GoodRow
  BY OperateGood
<1> QED
  BY <1>1 DEF NoReview, GoodReview, WorkflowAction

\* Nothing is applied for, nothing is granted.
LEMMA PrivInit == QInit => PrivInv
<1>1. NoAudit \in GoodRow
  BY OperateGood
<1>2. 1 \in Days /\ 0 \in 0..MaxModifies /\ 0 \in 0..MaxLost
  BY QueryAssumption DEF Days
<1>3. << >> \in Seq(Grant) /\ OneEach(<< >>)
  BY DEF OneEach
<1> QED
  BY <1>1, <1>2, <1>3, NoReviewGood DEF QInit, PrivInv

\* A review that begins is a good one.
LEMMA StartGood ==
  ASSUME PrivInv, NEW h \in Reviews, NEW a \in Applies, NEW action \in WorkflowAction,
         NEW pc \in {"decide", "audit"}, StartReview(h, a, action, pc),
         audits[a].status = "waiting", pc = "audit" => action = "pass"
  PROVE  \E v \in GoodReview : /\ review' = [review EXCEPT ![h] = v]
                               /\ v.pc = pc /\ v.id = a /\ v.action = action /\ v.audit = audits[a]
<1> DEFINE v == [NoReview EXCEPT !.pc = pc, !.id = a, !.action = action, !.audit = audits[a]]
<1>1. review' = [review EXCEPT ![h] = v]
  BY DEF StartReview
<1>2. audits[a] \in GoodRow
  BY DEF PrivInv
<1>3. v.pc = pc /\ v.id = a /\ v.action = action /\ v.audit = audits[a]
  BY DEF NoReview
<1>4. v \in [pc : {"idle", "decide", "audit", "apply", "grant"}, id : Applies \cup {0},
            action : WorkflowAction, audit : GoodRow, todo : Seq(Item)]
  <2> DEFINE Shape == [pc : {"idle", "decide", "audit", "apply", "grant"}, id : Applies \cup {0},
                       action : WorkflowAction, audit : GoodRow, todo : Seq(Item)]
  <2>1. NoReview \in Shape
    BY NoReviewGood DEF GoodReview
  <2>2. [NoReview EXCEPT !.pc = pc] \in Shape
    BY <2>1
  <2>3. [[NoReview EXCEPT !.pc = pc] EXCEPT !.id = a] \in Shape
    BY <2>2
  <2>4. v = [[[[NoReview EXCEPT !.pc = pc] EXCEPT !.id = a] EXCEPT !.action = action] EXCEPT !.audit = audits[a]]
    OBVIOUS
  <2> QED
    BY <1>2, <2>3, <2>4
<1> HIDE DEF v
<1>5. v \in GoodReview
  BY <1>3, <1>4 DEF GoodReview
<1> QED
  BY <1>1, <1>3, <1>5

\* Who may operate on a row may do so while it waits.
LEMMA ReadWaiting ==
  ASSUME PrivInv, NEW h \in Reviews, QueryPrivAuditRead(h) \/ AuditWorkflowRead(h)
  PROVE  \E a \in Applies, action \in WorkflowAction, pc \in {"decide", "audit"} :
           /\ StartReview(h, a, action, pc) /\ audits[a].status = "waiting"
           /\ pc = "audit" => action = "pass"
<1>1. CASE QueryPrivAuditRead(h)
  BY <1>1 DEF QueryPrivAuditRead, can_review
<1>2. CASE AuditWorkflowRead(h)
  <2>1. PICK a \in Applies, u \in Users : can_operate(audits[a], "pass", u) /\ StartReview(h, a, "pass", "audit")
    BY <1>2 DEF AuditWorkflowRead
  <2>2. "pass" \in SUPPORTED_OPERATION_GRID[audits[a].status]
    BY <2>1 DEF can_operate
  <2>3. audits[a].status \in WorkflowStatus
    BY DEF PrivInv, GoodRow, AuditRow
  <2>4. audits[a].status = "waiting"
    BY <2>2, <2>3 DEF SUPPORTED_OPERATION_GRID
  <2> QED
    BY <2>1, <2>4 DEF WorkflowAction
<1> QED
  BY <1>1, <1>2

\* What a review writes, and whose signature counts with it (workflow_audit.py:478-511).
LEMMA Signing ==
  ASSUME PrivInv, NEW h \in Reviews, review[h].pc \in {"decide", "audit"}, Signs(h)
  PROVE  /\ review[h].id \in Applies
         /\ operate(review[h].audit, review[h].action) \in GoodRow
         /\ signed' \in [Applies -> SUBSET Groups]
         /\ \A b \in Applies : signed[b] \subseteq signed'[b]
         /\ SoundRow(review[h].audit, signed[review[h].id], ChainGroups \subseteq signed[review[h].id]) =>
              SoundRow(operate(review[h].audit, review[h].action), signed'[review[h].id],
                       ChainGroups \subseteq signed'[review[h].id])
<1> DEFINE a == review[h].id
           row == review[h].audit
           action == review[h].action
<1>1. /\ a \in Applies /\ row \in GoodRow /\ action \in WorkflowAction /\ row.status = "waiting"
      /\ signed \in [Applies -> SUBSET Groups]
  BY DEF PrivInv, GoodReview
<1>2. operate(row, action) \in GoodRow
  BY <1>1, OperateGood
<1>3. signed' = IF action = "pass" THEN [signed EXCEPT ![a] = @ \cup {row.current}] ELSE signed
  BY DEF Signs
<1>4. row.current \in Groups
  BY <1>1, ChainGroupsAreGroups DEF GoodRow
<1> HIDE DEF a, row, action
<1>5. CASE action = "pass"
  <2>1. signed' = [signed EXCEPT ![a] = @ \cup {row.current}]
    BY <1>3, <1>5
  <2>2. /\ signed' \in [Applies -> SUBSET Groups]
        /\ signed'[a] = signed[a] \cup {row.current}
        /\ \A b \in Applies : signed[b] \subseteq signed'[b]
    BY <1>1, <1>4, <2>1
  <2>3. ASSUME SoundRow(row, signed[a], ChainGroups \subseteq signed[a])
        PROVE  SoundRow(operate(row, action), signed'[a], ChainGroups \subseteq signed'[a])
    <3> DEFINE S == signed[a]
               all == ChainGroups \subseteq S
               more == ChainGroups \subseteq S \cup {row.current}
    <3>1. SoundRow(row, S, all) /\ (all => more) /\ (ChainGroups \subseteq S \cup {row.current} => more)
      BY <2>3
    <3> HIDE DEF all, S, more
    <3>2. row \in GoodRow /\ row.status = "waiting"
      BY <1>1
    <3>3. SoundRow(operate_pass(row), S \cup {row.current}, more)
      BY <3>1, <3>2, PassSound, Zenon
    <3> QED
      BY <1>5, <2>2, <3>3 DEF operate, S, more
  <2> QED
    BY <1>1, <1>2, <2>2, <2>3 DEF a, row, action
<1>6. CASE action # "pass"
  <2>1. signed' = signed
    BY <1>3, <1>6
  <2>2. operate(row, action) \in {operate_reject(row), operate_abort(row)}
    BY <1>1, <1>6 DEF operate, WorkflowAction
  <2>3. SoundRow(operate(row, action), signed[a], ChainGroups \subseteq signed[a])
    BY <1>1, <2>2, RefusalSound
  <2> QED
    BY <1>1, <1>2, <2>1, <2>3 DEF a, row, action
<1> QED
  BY <1>5, <1>6

\* A change of a row, but of its item, keeps the rows.
LEMMA ModifyGood ==
  ASSUME PrivInv, NEW i \in DOMAIN grants, NEW row \in Grant, row.item = grants[i].item, Modify(i, row)
  PROVE  /\ grants' \in Seq(Grant) /\ OneEach(grants') /\ DOMAIN grants' = DOMAIN grants
         /\ grants'[i] = row /\ \A j \in DOMAIN grants \ {i} : grants'[j] = grants[j]
         /\ \A j \in DOMAIN grants : grants'[j].item = grants[j].item
         /\ modified' = modified \cup {row.item} /\ modified' \subseteq Item
         /\ modifies' \in 0..MaxModifies
         /\ UNCHANGED <<apply, audits, review, today, lost, signed, overlap>>
<1>1. grants \in Seq(Grant) /\ OneEach(grants) /\ modified \subseteq Item /\ modifies \in 0..MaxModifies
  BY DEF PrivInv
<1>2. /\ grants' = [grants EXCEPT ![i] = row]
      /\ modified' = modified \cup {row.item}
      /\ modifies < MaxModifies /\ modifies' = modifies + 1
      /\ UNCHANGED <<apply, audits, review, today, lost, signed, overlap>>
  BY DEF Modify
<1>3. /\ grants' \in Seq(Grant) /\ DOMAIN grants' = DOMAIN grants
      /\ grants'[i] = row /\ \A j \in DOMAIN grants \ {i} : grants'[j] = grants[j]
  BY <1>1, <1>2
<1>4. \A j \in DOMAIN grants : grants'[j].item = grants[j].item
  BY <1>3
<1>5. OneEach(grants')
  BY <1>1, <1>3, <1>4 DEF OneEach
<1>6. row.item \in Item
  BY DEF Grant
<1>7. modifies' \in 0..MaxModifies
  BY <1>1, <1>2, QueryAssumption
<1> QED
  BY <1>1, <1>2, <1>3, <1>4, <1>5, <1>6, <1>7

\* What managers do is such a change.
LEMMA ManagersModify ==
  ASSUME PrivInv, DeletePrivilege \/ ChangePrivilege
  PROVE  \E i \in DOMAIN grants, row \in Grant : row.item = grants[i].item /\ Modify(i, row)
<1>1. \A i \in DOMAIN grants : grants[i] \in Grant
  BY DEF PrivInv
<1>2. CASE DeletePrivilege
  <2>1. PICK i \in DOMAIN grants : Modify(i, [grants[i] EXCEPT !.deleted = TRUE])
    BY <1>2 DEF DeletePrivilege
  <2>2. [grants[i] EXCEPT !.deleted = TRUE] \in Grant /\ [grants[i] EXCEPT !.deleted = TRUE].item = grants[i].item
    BY <1>1 DEF Grant
  <2> QED
    BY <2>1, <2>2
<1>3. CASE ChangePrivilege
  <2>1. PICK i \in DOMAIN grants, n \in Limits, d \in Days :
          Modify(i, [grants[i] EXCEPT !.limit = n, !.until = d])
    BY <1>3 DEF ChangePrivilege
  <2>2. /\ [grants[i] EXCEPT !.limit = n, !.until = d] \in Grant
        /\ [grants[i] EXCEPT !.limit = n, !.until = d].item = grants[i].item
    BY <1>1 DEF Grant
  <2> QED
    BY <2>1, <2>2
<1> QED
  BY <1>2, <1>3

\* The reviews stay good ones when one of them changes into one.
LEMMA ReviewsGood ==
  ASSUME PrivInv, NEW h \in Reviews, NEW v \in GoodReview, review' = [review EXCEPT ![h] = v]
  PROVE  /\ review' \in [Reviews -> GoodReview]
         /\ review'[h] = v /\ \A g \in Reviews \ {h} : review'[g] = review[g]
BY DEF PrivInv

\* What SaveApply and SaveGrant leave to do is granted to their application.
LEMMA TodoGood ==
  ASSUME PrivInv, NEW h \in Reviews
  PROVE  /\ SaveApply(h) => \E v \in GoodReview :
              /\ review' = [review EXCEPT ![h] = v]
              /\ v.pc = "grant" /\ v.id = review[h].id /\ v.audit = review[h].audit
              /\ v.todo = Form[v.id].items
         /\ SaveGrant(h) => \E v \in GoodReview :
              /\ review' = [review EXCEPT ![h] = v]
              /\ v.pc = "grant" /\ v.id = review[h].id /\ v.audit = review[h].audit
              /\ v.todo = Tail(review[h].todo)
         /\ SaveGrant(h) =>
              /\ review[h].id \in Applies /\ Head(review[h].todo) \in ItemsOf(review[h].id)
              /\ \A n \in DOMAIN review[h].todo :
                   \/ review[h].todo[n] = Head(review[h].todo)
                   \/ \E k \in DOMAIN Tail(review[h].todo) : Tail(review[h].todo)[k] = review[h].todo[n]
         /\ SaveAudit(h) /\ operate(review[h].audit, review[h].action).status = "passed" =>
              \E v \in GoodReview :
                /\ review' = [review EXCEPT ![h] = v]
                /\ v.pc = "apply" /\ v.id = review[h].id /\ v.audit = review[h].audit
<1> DEFINE Shape == [pc : {"idle", "decide", "audit", "apply", "grant"}, id : Applies \cup {0},
                     action : WorkflowAction, audit : GoodRow, todo : Seq(Item)]
           r == review[h]
<1>1. r \in GoodReview /\ r \in Shape
  BY DEF PrivInv, GoodReview
<1>2. r.todo \in Seq(Item)
  BY <1>1
<1>3. r.pc # "idle" => r.id \in Applies
  BY <1>1 DEF GoodReview
<1>4. ASSUME SaveApply(h)
      PROVE  \E v \in GoodReview :
               /\ review' = [review EXCEPT ![h] = v]
               /\ v.pc = "grant" /\ v.id = r.id /\ v.audit = r.audit /\ v.todo = Form[v.id].items
  <2> DEFINE v == [r EXCEPT !.pc = "grant", !.todo = Form[r.id].items]
  <2>1. r.pc = "apply" /\ review' = [review EXCEPT ![h].pc = "grant", ![h].todo = Form[r.id].items]
    BY <1>4 DEF SaveApply, Reviewing
  <2>2. review' = [review EXCEPT ![h] = v]
    BY <2>1 DEF PrivInv
  <2>3. r.id \in Applies /\ Form[r.id].items \in Seq(Item)
    BY <1>3, <2>1, FormFacts
  <2>4. v \in Shape /\ v.pc = "grant" /\ v.id = r.id /\ v.audit = r.audit /\ v.todo = Form[r.id].items
    <3> HIDE DEF r
    <3> QED
      BY <1>1, <2>3
  <2> HIDE DEF v
  <2>5. v \in GoodReview
    BY <2>3, <2>4, FormFacts DEF GoodReview, ItemsOf
  <2> QED
    BY <2>2, <2>4, <2>5
<1>5. ASSUME SaveGrant(h)
      PROVE  /\ r.id \in Applies /\ Head(r.todo) \in ItemsOf(r.id)
             /\ \A n \in DOMAIN r.todo :
                  r.todo[n] = Head(r.todo) \/ \E k \in DOMAIN Tail(r.todo) : Tail(r.todo)[k] = r.todo[n]
             /\ \A n \in DOMAIN Tail(r.todo) : Tail(r.todo)[n] \in ItemsOf(r.id)
             /\ Tail(r.todo) \in Seq(Item)
             /\ \E v \in GoodReview :
                  /\ review' = [review EXCEPT ![h] = v]
                  /\ v.pc = "grant" /\ v.id = r.id /\ v.audit = r.audit /\ v.todo = Tail(r.todo)
  <2> DEFINE v == [r EXCEPT !.todo = Tail(r.todo)]
  <2>1. r.pc = "grant" /\ r.todo # << >> /\ review' = [review EXCEPT ![h].todo = Tail(@)]
    BY <1>5 DEF SaveGrant, Reviewing
  <2>2. review' = [review EXCEPT ![h] = v]
    BY <2>1 DEF PrivInv
  <2>3. r.id \in Applies /\ \A n \in DOMAIN r.todo : r.todo[n] \in ItemsOf(r.id)
    BY <1>1, <2>1 DEF GoodReview
  <2> HIDE DEF r
  <2>4. /\ Len(r.todo) \in Nat \ {0} /\ DOMAIN r.todo = 1..Len(r.todo) /\ Head(r.todo) = r.todo[1]
        /\ Tail(r.todo) \in Seq(Item) /\ DOMAIN Tail(r.todo) = 1..(Len(r.todo) - 1)
        /\ \A n \in 1..(Len(r.todo) - 1) : Tail(r.todo)[n] = r.todo[n + 1]
    BY <1>2, <2>1
  <2>5. \A n \in DOMAIN Tail(r.todo) : Tail(r.todo)[n] \in ItemsOf(r.id)
    BY <2>3, <2>4
  <2>6. ASSUME NEW n \in DOMAIN r.todo, n # 1
        PROVE  \E k \in DOMAIN Tail(r.todo) : Tail(r.todo)[k] = r.todo[n]
    <3>1. n - 1 \in DOMAIN Tail(r.todo) /\ Tail(r.todo)[n - 1] = r.todo[(n - 1) + 1] /\ (n - 1) + 1 = n
      BY <2>4, <2>6
    <3> QED
      BY <3>1
  <2>7. v \in Shape /\ v.pc = "grant" /\ v.id = r.id /\ v.audit = r.audit /\ v.todo = Tail(r.todo)
    BY <1>1, <2>1, <2>4
  <2> HIDE DEF v
  <2>8. v \in GoodReview
    BY <2>3, <2>5, <2>7 DEF GoodReview
  <2>9. 1 \in DOMAIN r.todo
    BY <2>4
  <2> QED
    BY <2>2, <2>3, <2>4, <2>5, <2>6, <2>7, <2>8, <2>9
<1>6. ASSUME SaveAudit(h), operate(r.audit, r.action).status = "passed"
      PROVE  \E v \in GoodReview :
               /\ review' = [review EXCEPT ![h] = v]
               /\ v.pc = "apply" /\ v.id = r.id /\ v.audit = r.audit
  <2> DEFINE v == [r EXCEPT !.pc = "apply"]
  <2>1. r.pc = "audit" /\ review' = [review EXCEPT ![h].pc = "apply"]
    BY <1>6 DEF SaveAudit, Reviewing, ReviewGoes
  <2>2. review' = [review EXCEPT ![h] = v]
    BY <2>1 DEF PrivInv
  <2>3. r.id \in Applies
    BY <1>3, <2>1
  <2> HIDE DEF r
  <2>4. v \in Shape /\ v.pc = "apply" /\ v.id = r.id /\ v.audit = r.audit
    BY <1>1
  <2> HIDE DEF v
  <2>5. v \in GoodReview
    BY <2>3, <2>4 DEF GoodReview
  <2> QED
    BY <2>2, <2>4, <2>5
<1> HIDE DEF r
<1>7. r = review[h]
  BY DEF r
<1> QED
  BY <1>4, <1>5, <1>6, <1>7

\* A grant of items of an application, and what it does to the ghost.
Grants(a, items) ==
  /\ a \in Applies /\ items \subseteq ItemsOf(a)
  /\ Renewed(grants, grants', a, items)
  /\ modified' = modified \ items

\* Deciding grants the whole application when the row has passed, and nothing otherwise.
LEMMA DecideGrants ==
  ASSUME PrivInv, NEW h \in Reviews, Decide(h)
  PROVE  IF operate(review[h].audit, review[h].action).status = "passed"
         THEN Grants(review[h].id, ItemsOf(review[h].id))
         ELSE UNCHANGED <<grants, modified>>
<1>1. review[h].id \in Applies
  BY DEF PrivInv, GoodReview, Decide, Reviewing
<1>2. CASE operate(review[h].audit, review[h].action).status = "passed"
  <2>1. grants' = GrantAll(review[h].id) /\ modified' = modified \ ItemsOf(review[h].id)
    BY <1>2 DEF Decide
  <2>2. grants \in Seq(Grant) /\ OneEach(grants)
    BY DEF PrivInv
  <2>3. Renewed(grants, GrantAll(review[h].id), review[h].id, ItemsOf(review[h].id))
    BY <1>1, <2>2, AllRenewed
  <2> QED
    BY <1>1, <1>2, <2>1, <2>3 DEF Grants
<1>3. CASE operate(review[h].audit, review[h].action).status # "passed"
  BY <1>3 DEF Decide
<1> QED
  BY <1>2, <1>3

\* Saving one grant renews the row of that item.
LEMMA SaveGrants ==
  ASSUME PrivInv, NEW h \in Reviews, SaveGrant(h)
  PROVE  Grants(review[h].id, {Head(review[h].todo)})
<1>1. review[h].id \in Applies /\ Head(review[h].todo) \in ItemsOf(review[h].id)
  BY TodoGood
<1>2. Head(review[h].todo) \in Item
  BY <1>1, FormFacts
<1>3. /\ grants' = update_or_create(grants, review[h].id, Head(review[h].todo))
      /\ modified' = modified \ {Head(review[h].todo)}
  BY DEF SaveGrant
<1>4. grants \in Seq(Grant) /\ OneEach(grants)
  BY DEF PrivInv
<1>5. Renewed(grants, grants', review[h].id, {Head(review[h].todo)})
  BY <1>1, <1>2, <1>3, <1>4, OneRenewed
<1> QED
  BY <1>1, <1>3, <1>5 DEF Grants

\* Every request keeps the types.
LEMMA PrivNext == PrivInv /\ [QNext]_qVars => PrivInv'
<1> SUFFICES ASSUME PrivInv, [QNext]_qVars
             PROVE  PrivInv'
  OBVIOUS
<1> USE DEF qBounds, qGhosts
<1>a. /\ apply \in [Applies -> {"none", "waiting", "passed", "rejected"}]
      /\ audits \in [Applies -> GoodRow]
      /\ grants \in Seq(Grant) /\ OneEach(grants)
      /\ review \in [Reviews -> GoodReview]
      /\ today \in Days /\ modifies \in 0..MaxModifies /\ lost \in 0..MaxLost
      /\ signed \in [Applies -> SUBSET Groups]
      /\ modified \subseteq Item
      /\ overlap \in BOOLEAN
  BY DEF PrivInv
<1>b. ASSUME NEW h \in Reviews, ReviewEnds(h)
      PROVE  review' \in [Reviews -> GoodReview]
  BY <1>b, NoReviewGood, ReviewsGood DEF ReviewEnds
<1>c. ASSUME NEW a, NEW items, Grants(a, items)
      PROVE  grants' \in Seq(Grant) /\ OneEach(grants') /\ modified' \subseteq Item
  BY <1>a, <1>c DEF Grants, Renewed
<1>1. ASSUME NEW a \in Applies, ApplyForPrivileges(a)
      PROVE  PrivInv'
  <2>1. create_audit("no") = create_audit("review")
    BY DEF create_audit
  <2>2. create_audit("no") \in GoodRow
    BY <2>1, OperateGood
  <2>3. /\ apply' = [apply EXCEPT ![a] = "waiting"]
        /\ audits' = [audits EXCEPT ![a] = create_audit("no")]
        /\ UNCHANGED <<grants, review, qBounds, qGhosts>>
    BY <1>1 DEF ApplyForPrivileges
  <2>4. apply' \in [Applies -> {"none", "waiting", "passed", "rejected"}] /\ audits' \in [Applies -> GoodRow]
    BY <1>a, <2>2, <2>3
  <2> QED
    BY <1>a, <2>3, <2>4 DEF PrivInv
<1>2. ASSUME NEW h \in Reviews, QueryPrivAuditRead(h) \/ AuditWorkflowRead(h)
      PROVE  PrivInv'
  <2>1. PICK a \in Applies, action \in WorkflowAction, pc \in {"decide", "audit"} :
           /\ StartReview(h, a, action, pc) /\ audits[a].status = "waiting"
           /\ pc = "audit" => action = "pass"
    BY <1>2, ReadWaiting
  <2>2. review' \in [Reviews -> GoodReview]
    BY <2>1, StartGood, ReviewsGood
  <2>3. /\ UNCHANGED <<apply, audits, grants, qBounds, signed, modified>>
        /\ overlap' = (overlap \/ \E g \in Reviews : ~ Reviewing(g, "idle"))
    BY <2>1 DEF StartReview
  <2>4. overlap' \in BOOLEAN
    BY <2>3, Zenon
  <2> QED
    BY <1>a, <2>2, <2>3, <2>4 DEF PrivInv
<1>3. ASSUME NEW h \in Reviews, Decide(h)
      PROVE  PrivInv'
  <2> DEFINE row == operate(review[h].audit, review[h].action)
             a == review[h].id
  <2>1. /\ review[h].pc = "decide" /\ Signs(h) /\ ReviewEnds(h)
        /\ audits' = [audits EXCEPT ![a] = row]
        /\ apply' = [apply EXCEPT ![a] = IF row.status \in {"passed", "rejected"} THEN row.status ELSE @]
        /\ UNCHANGED <<qBounds, overlap>>
    BY <1>3 DEF Decide, Reviewing
  <2>2. a \in Applies /\ row \in GoodRow /\ signed' \in [Applies -> SUBSET Groups]
    BY <2>1, Signing
  <2>3. review' \in [Reviews -> GoodReview]
    BY <2>1, <1>b
  <2>4. grants' \in Seq(Grant) /\ OneEach(grants') /\ modified' \subseteq Item
    BY <1>3, <1>a, <1>c, DecideGrants
  <2> HIDE DEF row, a
  <2>5. audits' \in [Applies -> GoodRow] /\ apply' \in [Applies -> {"none", "waiting", "passed", "rejected"}]
    BY <1>a, <2>1, <2>2
  <2> QED
    BY <1>a, <2>1, <2>2, <2>3, <2>4, <2>5 DEF PrivInv
<1>4. ASSUME NEW h \in Reviews, SaveAudit(h)
      PROVE  PrivInv'
  <2> DEFINE row == operate(review[h].audit, review[h].action)
             a == review[h].id
  <2>1. /\ review[h].pc = "audit" /\ Signs(h)
        /\ audits' = [audits EXCEPT ![a] = row]
        /\ row.status # "passed" => ReviewEnds(h)
        /\ UNCHANGED <<apply, grants, qBounds, modified, overlap>>
    BY <1>4 DEF SaveAudit, Reviewing
  <2>2. a \in Applies /\ row \in GoodRow /\ signed' \in [Applies -> SUBSET Groups]
    BY <2>1, Signing
  <2>3. review' \in [Reviews -> GoodReview]
    BY <1>4, <2>1, <1>b, TodoGood, ReviewsGood
  <2> HIDE DEF row, a
  <2>4. audits' \in [Applies -> GoodRow]
    BY <1>a, <2>1, <2>2
  <2> QED
    BY <1>a, <2>1, <2>2, <2>3, <2>4 DEF PrivInv
<1>5. ASSUME NEW h \in Reviews, SaveApply(h)
      PROVE  PrivInv'
  <2>1. apply' = [apply EXCEPT ![review[h].id] = "passed"] /\ UNCHANGED <<audits, grants, qBounds, qGhosts>>
    BY <1>5 DEF SaveApply
  <2>2. review' \in [Reviews -> GoodReview]
    BY <1>5, TodoGood, ReviewsGood
  <2>3. apply' \in [Applies -> {"none", "waiting", "passed", "rejected"}]
    BY <1>a, <2>1
  <2> QED
    BY <1>a, <2>1, <2>2, <2>3 DEF PrivInv
<1>6. ASSUME NEW h \in Reviews, SaveGrant(h)
      PROVE  PrivInv'
  <2>1. UNCHANGED <<apply, audits, qBounds, signed, overlap>>
    BY <1>6 DEF SaveGrant
  <2>2. review' \in [Reviews -> GoodReview]
    BY <1>6, TodoGood, ReviewsGood
  <2>3. grants' \in Seq(Grant) /\ OneEach(grants') /\ modified' \subseteq Item
    BY <1>6, <1>c, SaveGrants
  <2> QED
    BY <1>a, <2>1, <2>2, <2>3 DEF PrivInv
<1>7. ASSUME NEW h \in Reviews, GrantsSaved(h)
      PROVE  PrivInv'
  BY <1>7, <1>a, <1>b DEF GrantsSaved, PrivInv
<1>8. ASSUME NEW h \in Reviews, ReviewDies(h)
      PROVE  PrivInv'
  <2>1. lost' \in 0..MaxLost
    BY <1>8, <1>a, QueryAssumption DEF ReviewDies
  <2> QED
    BY <1>8, <1>a, <1>b, <2>1 DEF ReviewDies, PrivInv
<1>9. CASE DeletePrivilege \/ ChangePrivilege
  <2>1. PICK i \in DOMAIN grants, row \in Grant : row.item = grants[i].item /\ Modify(i, row)
    BY <1>9, ManagersModify
  <2> QED
    BY <1>a, <2>1, ModifyGood DEF PrivInv
<1>10. CASE NextDay
  <2>1. today' \in Days
    BY <1>10, <1>a, QueryAssumption DEF NextDay, Days
  <2> QED
    BY <1>10, <1>a, <2>1 DEF NextDay, PrivInv
<1>11. CASE UNCHANGED qVars
  BY <1>11, <1>a DEF qVars, PrivInv
<1> QED
  BY <1>1, <1>2, <1>3, <1>4, <1>5, <1>6, <1>7, <1>8, <1>9, <1>10, <1>11 DEF QNext

-----------------------------------------------------------------------------
(* Approval.  What a review, its copy and a row of the grants rest on has   *)
(* been signed; signatures only grow, so that old copies stay sound.       *)

ReviewSound(v, S) ==
  v.pc # "idle" =>
    /\ SoundRow(v.audit, S[v.id], ChainGroups \subseteq S[v.id])
    /\ v.pc \in {"apply", "grant"} => ChainGroups \subseteq S[v.id]

\* A row of the grants is one of an application that every group signed, as it was asked for
\* or as a manager changed it.
GrantedBy(g, a, S, changed) ==
  /\ ChainGroups \subseteq S[a]
  /\ g.item \in ItemsOf(a)
  /\ g.item \notin changed => g.limit = Form[a].limit /\ g.until = Form[a].until

GrantInv ==
  /\ \A a \in Applies : SoundRow(audits[a], signed[a], ChainGroups \subseteq signed[a])
  /\ \A h \in Reviews : ReviewSound(review[h], signed)
  /\ \A i \in DOMAIN grants : \E a \in Applies : GrantedBy(grants[i], a, signed, modified)

\* No row, no copy and no grant: nothing has to be signed.
LEMMA GrantInit == QInit => GrantInv
<1> SUFFICES ASSUME QInit PROVE GrantInv
  OBVIOUS
<1>1. SoundRow(NoAudit, {}, ChainGroups \subseteq {})
  BY DEF SoundRow, NoAudit
<1>2. \A a \in Applies : audits[a] = NoAudit /\ signed[a] = {}
  BY DEF QInit
<1>3. \A h \in Reviews : ReviewSound(review[h], signed)
  BY NoReviewGood DEF QInit, ReviewSound
<1>4. DOMAIN grants = {}
  BY DEF QInit
<1> QED
  BY <1>1, <1>2, <1>3, <1>4 DEF GrantInv

\* With more signatures everything stays sound.
LEMMA SignedGrows ==
  ASSUME PrivInv, GrantInv, NEW S \in [Applies -> SUBSET Groups], \A b \in Applies : signed[b] \subseteq S[b]
  PROVE  /\ \A a \in Applies : SoundRow(audits[a], S[a], ChainGroups \subseteq S[a])
         /\ \A h \in Reviews : ReviewSound(review[h], S)
         /\ \A i \in DOMAIN grants : \E a \in Applies : GrantedBy(grants[i], a, S, modified)
<1>1. ASSUME NEW a \in Applies, NEW row, SoundRow(row, signed[a], ChainGroups \subseteq signed[a])
      PROVE  SoundRow(row, S[a], ChainGroups \subseteq S[a])
  <2> DEFINE some == ChainGroups \subseteq signed[a]
             more == ChainGroups \subseteq S[a]
  <2>1. signed[a] \subseteq S[a] /\ (some => more) /\ SoundRow(row, signed[a], some)
    BY <1>1
  <2> HIDE DEF some, more
  <2>2. SoundRow(row, S[a], more)
    BY <2>1, SoundRowGrows, Zenon
  <2> QED
    BY <2>2 DEF more
<1>2. \A a \in Applies : SoundRow(audits[a], S[a], ChainGroups \subseteq S[a])
  BY <1>1 DEF GrantInv
<1>3. ASSUME NEW h \in Reviews
      PROVE  ReviewSound(review[h], S)
  <2>1. review[h].pc # "idle" => review[h].id \in Applies
    BY DEF PrivInv, GoodReview
  <2>2. ReviewSound(review[h], signed)
    BY DEF GrantInv
  <2> QED
    BY <1>1, <2>1, <2>2 DEF ReviewSound
<1>4. \A i \in DOMAIN grants : \E a \in Applies : GrantedBy(grants[i], a, S, modified)
  BY DEF GrantInv, GrantedBy
<1> QED
  BY <1>2, <1>3, <1>4

\* Grants of an application that all have signed keep the rest.
LEMMA GrantsSound ==
  ASSUME NEW S \in [Applies -> SUBSET Groups], NEW a \in Applies, NEW items, Grants(a, items),
         ChainGroups \subseteq S[a],
         \A i \in DOMAIN grants : \E b \in Applies : GrantedBy(grants[i], b, S, modified)
  PROVE  \A i \in DOMAIN grants' : \E b \in Applies : GrantedBy(grants'[i], b, S, modified')
<1> SUFFICES ASSUME NEW i \in DOMAIN grants'
             PROVE  \E b \in Applies : GrantedBy(grants'[i], b, S, modified')
  OBVIOUS
<1>1. /\ items \subseteq ItemsOf(a) /\ modified' = modified \ items
      /\ IF grants'[i].item \in items THEN grants'[i] = RowOf(a, grants'[i].item)
         ELSE i \in DOMAIN grants /\ grants'[i] = grants[i]
  BY DEF Grants, Renewed
<1>2. CASE grants'[i].item \in items
  <2>1. GrantedBy(grants'[i], a, S, modified')
    BY <1>1, <1>2 DEF GrantedBy, RowOf
  <2> QED
    BY <2>1
<1>3. CASE grants'[i].item \notin items
  <2>1. PICK b \in Applies : GrantedBy(grants[i], b, S, modified)
    BY <1>1, <1>3
  <2>2. GrantedBy(grants'[i], b, S, modified')
    BY <1>1, <1>3, <2>1 DEF GrantedBy
  <2> QED
    BY <2>2
<1> QED
  BY <1>2, <1>3

\* Rows, copies and grants rest on signatures, which no step takes back.
LEMMA GrantNext == PrivInv /\ GrantInv /\ [QNext]_qVars => GrantInv'
<1> SUFFICES ASSUME PrivInv, GrantInv, [QNext]_qVars
             PROVE  GrantInv'
  OBVIOUS
<1> USE DEF qBounds, qGhosts
<1>a. /\ audits \in [Applies -> GoodRow] /\ signed \in [Applies -> SUBSET Groups]
      /\ review \in [Reviews -> GoodReview]
  BY DEF PrivInv
<1>b. /\ \A a \in Applies : SoundRow(audits[a], signed[a], ChainGroups \subseteq signed[a])
      /\ \A h \in Reviews : ReviewSound(review[h], signed)
      /\ \A i \in DOMAIN grants : \E a \in Applies : GrantedBy(grants[i], a, signed, modified)
  BY DEF GrantInv
<1>c. \A S : ReviewSound(NoReview, S)
  BY NoReviewGood DEF ReviewSound
<1>d. ASSUME NEW h \in Reviews, ReviewEnds(h), \A g \in Reviews : ReviewSound(review[g], signed')
      PROVE  \A g \in Reviews : ReviewSound(review'[g], signed')
  BY <1>a, <1>c, <1>d, NoReviewGood, ReviewsGood DEF ReviewEnds
<1>1. ASSUME NEW a \in Applies, ApplyForPrivileges(a)
      PROVE  GrantInv'
  <2>1. create_audit("no") = create_audit("review")
    BY DEF create_audit
  <2> DEFINE S == signed[a]
             all == ChainGroups \subseteq S
  <2>2. SoundRow(create_audit("no"), S, all)
    <3> HIDE DEF S, all
    <3>1. SoundRow(create_audit("review"), S, all)
      BY CreateSound
    <3> QED
      BY <2>1, <3>1
  <2>3. /\ audits' = [audits EXCEPT ![a] = create_audit("no")]
        /\ UNCHANGED <<grants, review, signed, modified>>
    BY <1>1 DEF ApplyForPrivileges
  <2>4. \A b \in Applies : SoundRow(audits'[b], signed[b], ChainGroups \subseteq signed[b])
    <3> SUFFICES ASSUME NEW b \in Applies
                 PROVE  SoundRow(audits'[b], signed[b], ChainGroups \subseteq signed[b])
      OBVIOUS
    <3>1. CASE b = a
      BY <1>a, <2>2, <2>3, <3>1
    <3>2. CASE b # a
      BY <1>a, <1>b, <2>3, <3>2
    <3> QED
      BY <3>1, <3>2
  <2> QED
    BY <1>b, <2>3, <2>4 DEF GrantInv
<1>2. ASSUME NEW h \in Reviews, QueryPrivAuditRead(h) \/ AuditWorkflowRead(h)
      PROVE  GrantInv'
  <2>1. PICK a \in Applies, action \in WorkflowAction, pc \in {"decide", "audit"} :
           /\ StartReview(h, a, action, pc) /\ audits[a].status = "waiting"
           /\ pc = "audit" => action = "pass"
    BY <1>2, ReadWaiting
  <2>2. PICK v \in GoodReview : /\ review' = [review EXCEPT ![h] = v]
                                /\ v.pc = pc /\ v.id = a /\ v.action = action /\ v.audit = audits[a]
    BY <2>1, StartGood
  <2>3. UNCHANGED <<audits, grants, signed, modified>>
    BY <2>1 DEF StartReview
  <2>4. ReviewSound(v, signed)
    BY <1>b, <2>2 DEF ReviewSound
  <2>5. \A g \in Reviews : ReviewSound(review'[g], signed)
    BY <1>a, <1>b, <2>2, <2>4
  <2> QED
    BY <1>b, <2>3, <2>5 DEF GrantInv
<1>e. ASSUME NEW h \in Reviews, review[h].pc \in {"decide", "audit"}, Signs(h),
             audits' = [audits EXCEPT ![review[h].id] = operate(review[h].audit, review[h].action)]
      PROVE  /\ signed' \in [Applies -> SUBSET Groups]
             /\ \A a \in Applies : SoundRow(audits'[a], signed'[a], ChainGroups \subseteq signed'[a])
             /\ \A g \in Reviews : ReviewSound(review[g], signed')
             /\ \A i \in DOMAIN grants : \E a \in Applies : GrantedBy(grants[i], a, signed', modified)
             /\ operate(review[h].audit, review[h].action).status = "passed" =>
                  ChainGroups \subseteq signed'[review[h].id]
             /\ SoundRow(review[h].audit, signed'[review[h].id], ChainGroups \subseteq signed'[review[h].id])
  <2> DEFINE row == operate(review[h].audit, review[h].action)
             id == review[h].id
  <2>1. /\ id \in Applies /\ signed' \in [Applies -> SUBSET Groups]
        /\ \A b \in Applies : signed[b] \subseteq signed'[b]
        /\ SoundRow(review[h].audit, signed[id], ChainGroups \subseteq signed[id]) =>
              SoundRow(row, signed'[id], ChainGroups \subseteq signed'[id])
    BY <1>e, Signing
  <2>2. SoundRow(review[h].audit, signed[id], ChainGroups \subseteq signed[id])
    BY <1>b, <1>e DEF ReviewSound
  <2>3. SoundRow(row, signed'[id], ChainGroups \subseteq signed'[id])
    BY <2>1, <2>2
  <2>4. /\ \A a \in Applies : SoundRow(audits[a], signed'[a], ChainGroups \subseteq signed'[a])
        /\ \A g \in Reviews : ReviewSound(review[g], signed')
        /\ \A i \in DOMAIN grants : \E a \in Applies : GrantedBy(grants[i], a, signed', modified)
    BY <2>1, SignedGrows
  <2>5. audits' = [audits EXCEPT ![id] = row]
    BY <1>e
  <2>6. SoundRow(review[h].audit, signed'[id], ChainGroups \subseteq signed'[id])
    BY <1>e, <2>4 DEF ReviewSound
  <2>7. row.status = "passed" => ChainGroups \subseteq signed'[id]
    BY <2>3 DEF SoundRow
  <2> HIDE DEF row, id
  <2>8. \A a \in Applies : SoundRow(audits'[a], signed'[a], ChainGroups \subseteq signed'[a])
    <3> SUFFICES ASSUME NEW a \in Applies
                 PROVE  SoundRow(audits'[a], signed'[a], ChainGroups \subseteq signed'[a])
      OBVIOUS
    <3>1. CASE a = id
      BY <1>a, <2>3, <2>5, <3>1
    <3>2. CASE a # id
      BY <1>a, <2>4, <2>5, <3>2
    <3> QED
      BY <3>1, <3>2
  <2> QED
    BY <2>1, <2>4, <2>6, <2>7, <2>8 DEF row, id
<1>3. ASSUME NEW h \in Reviews, Decide(h)
      PROVE  GrantInv'
  <2>1. /\ review[h].pc = "decide" /\ Signs(h) /\ ReviewEnds(h)
        /\ audits' = [audits EXCEPT ![review[h].id] = operate(review[h].audit, review[h].action)]
    BY <1>3 DEF Decide, Reviewing
  <2>2. /\ signed' \in [Applies -> SUBSET Groups]
        /\ \A a \in Applies : SoundRow(audits'[a], signed'[a], ChainGroups \subseteq signed'[a])
        /\ \A g \in Reviews : ReviewSound(review[g], signed')
        /\ \A i \in DOMAIN grants : \E a \in Applies : GrantedBy(grants[i], a, signed', modified)
        /\ operate(review[h].audit, review[h].action).status = "passed" =>
             ChainGroups \subseteq signed'[review[h].id]
    BY <2>1, <1>e
  <2>3. \A i \in DOMAIN grants' : \E a \in Applies : GrantedBy(grants'[i], a, signed', modified')
    <3>1. CASE operate(review[h].audit, review[h].action).status = "passed"
      <4>1. Grants(review[h].id, ItemsOf(review[h].id))
        BY <1>3, <3>1, DecideGrants
      <4>2. review[h].id \in Applies
        BY <4>1 DEF Grants
      <4> QED
        BY <2>2, <3>1, <4>1, <4>2, GrantsSound
    <3>2. CASE operate(review[h].audit, review[h].action).status # "passed"
      BY <1>3, <2>2, <3>2, DecideGrants
    <3> QED
      BY <3>1, <3>2
  <2> QED
    BY <2>1, <2>2, <2>3, <1>d DEF GrantInv
<1>4. ASSUME NEW h \in Reviews, SaveAudit(h)
      PROVE  GrantInv'
  <2>1. /\ review[h].pc = "audit" /\ Signs(h)
        /\ audits' = [audits EXCEPT ![review[h].id] = operate(review[h].audit, review[h].action)]
        /\ operate(review[h].audit, review[h].action).status # "passed" => ReviewEnds(h)
        /\ UNCHANGED <<grants, modified>>
    BY <1>4 DEF SaveAudit, Reviewing
  <2>2. /\ signed' \in [Applies -> SUBSET Groups]
        /\ \A a \in Applies : SoundRow(audits'[a], signed'[a], ChainGroups \subseteq signed'[a])
        /\ \A g \in Reviews : ReviewSound(review[g], signed')
        /\ \A i \in DOMAIN grants : \E a \in Applies : GrantedBy(grants[i], a, signed', modified)
        /\ operate(review[h].audit, review[h].action).status = "passed" =>
             ChainGroups \subseteq signed'[review[h].id]
        /\ SoundRow(review[h].audit, signed'[review[h].id], ChainGroups \subseteq signed'[review[h].id])
    BY <2>1, <1>e
  <2>3. \A g \in Reviews : ReviewSound(review'[g], signed')
    <3>1. CASE operate(review[h].audit, review[h].action).status = "passed"
      <4>1. PICK v \in GoodReview : /\ review' = [review EXCEPT ![h] = v]
                                    /\ v.pc = "apply" /\ v.id = review[h].id /\ v.audit = review[h].audit
        BY <1>4, <3>1, TodoGood
      <4>2. ReviewSound(v, signed')
        BY <2>2, <3>1, <4>1 DEF ReviewSound
      <4> QED
        BY <1>a, <2>2, <4>1, <4>2
    <3>2. CASE operate(review[h].audit, review[h].action).status # "passed"
      BY <2>1, <2>2, <3>2, <1>d
    <3> QED
      BY <3>1, <3>2
  <2> QED
    BY <2>1, <2>2, <2>3 DEF GrantInv
<1>5. ASSUME NEW h \in Reviews, SaveApply(h)
      PROVE  GrantInv'
  <2>1. PICK v \in GoodReview : /\ review' = [review EXCEPT ![h] = v]
                                /\ v.pc = "grant" /\ v.id = review[h].id /\ v.audit = review[h].audit
    BY <1>5, TodoGood
  <2>2. review[h].pc = "apply" /\ UNCHANGED <<audits, grants, signed, modified>>
    BY <1>5 DEF SaveApply, Reviewing
  <2>3. ReviewSound(v, signed)
    BY <1>b, <2>1, <2>2 DEF ReviewSound
  <2>4. \A g \in Reviews : ReviewSound(review'[g], signed)
    BY <1>a, <1>b, <2>1, <2>3
  <2> QED
    BY <1>b, <2>2, <2>4 DEF GrantInv
<1>6. ASSUME NEW h \in Reviews, SaveGrant(h)
      PROVE  GrantInv'
  <2>1. PICK v \in GoodReview : /\ review' = [review EXCEPT ![h] = v]
                                /\ v.pc = "grant" /\ v.id = review[h].id /\ v.audit = review[h].audit
    BY <1>6, TodoGood
  <2>2. review[h].pc = "grant" /\ UNCHANGED <<audits, signed>>
    BY <1>6 DEF SaveGrant, Reviewing
  <2>3. ReviewSound(v, signed)
    BY <1>b, <2>1, <2>2 DEF ReviewSound
  <2>4. \A g \in Reviews : ReviewSound(review'[g], signed)
    BY <1>a, <1>b, <2>1, <2>3
  <2>5. Grants(review[h].id, {Head(review[h].todo)})
    BY <1>6, SaveGrants
  <2>6. review[h].id \in Applies /\ ChainGroups \subseteq signed[review[h].id]
    BY <1>b, <2>2, <2>5 DEF ReviewSound, Grants
  <2>7. \A i \in DOMAIN grants' : \E a \in Applies : GrantedBy(grants'[i], a, signed, modified')
    BY <1>a, <1>b, <2>5, <2>6, GrantsSound
  <2> QED
    BY <1>b, <2>2, <2>4, <2>7 DEF GrantInv
<1>7. ASSUME NEW h \in Reviews, GrantsSaved(h) \/ ReviewDies(h)
      PROVE  GrantInv'
  <2>1. ReviewEnds(h) /\ UNCHANGED <<audits, grants, signed, modified>>
    BY <1>7 DEF GrantsSaved, ReviewDies
  <2> QED
    BY <1>b, <2>1, <1>d DEF GrantInv
<1>8. CASE DeletePrivilege \/ ChangePrivilege
  <2>1. PICK i \in DOMAIN grants, row \in Grant : row.item = grants[i].item /\ Modify(i, row)
    BY <1>8, ManagersModify
  <2>2. /\ DOMAIN grants' = DOMAIN grants
        /\ grants'[i] = row /\ \A j \in DOMAIN grants \ {i} : grants'[j] = grants[j]
        /\ modified' = modified \cup {row.item}
        /\ UNCHANGED <<audits, review, signed>>
    BY <2>1, ModifyGood
  <2>3. ASSUME NEW j \in DOMAIN grants
        PROVE  \E a \in Applies : GrantedBy(grants'[j], a, signed, modified')
    <3>1. PICK a \in Applies : GrantedBy(grants[j], a, signed, modified)
      BY <1>b
    <3>2. CASE j = i
      BY <2>1, <2>2, <3>1, <3>2 DEF GrantedBy
    <3>3. CASE j # i
      BY <2>2, <3>1, <3>3 DEF GrantedBy
    <3> QED
      BY <3>2, <3>3
  <2> QED
    BY <1>b, <2>2, <2>3 DEF GrantInv
<1>9. CASE NextDay
  BY <1>9, <1>b DEF NextDay, GrantInv
<1>10. CASE UNCHANGED qVars
  BY <1>10, <1>b DEF qVars, GrantInv
<1> QED
  BY <1>1, <1>2, <1>3, <1>4, <1>5, <1>6, <1>7, <1>8, <1>9, <1>10 DEF QNext

\* The two invariants hold together.
LEMMA GrantCorrect == QSpec => [](PrivInv /\ GrantInv)
<1>1. PrivInv /\ GrantInv /\ [QNext]_qVars => (PrivInv /\ GrantInv)'
  BY PrivNext, GrantNext
<1> QED
  BY <1>1, PrivInit, GrantInit, PTL DEF QSpec

-----------------------------------------------------------------------------
(* The check of a query.                                                   *)

\* Min is the least number of a non-empty set of numbers.
LEMMA MinFacts ==
  ASSUME NEW S \in SUBSET Nat, S # {}
  PROVE  Min(S) \in S /\ \A n \in S : Min(S) <= n
BY LeastNumber DEF Min

\* The tightest of limits is one of them, and no more than any; 0 is none.
LEMMA TightestFacts ==
  ASSUME NEW S \in SUBSET Nat
  PROVE  /\ Tightest(S) \in Nat
         /\ Tightest(S) # 0 => Tightest(S) \in S
         /\ \A n \in S : n # 0 => Tightest(S) # 0 /\ Tightest(S) <= n
<1>1. CASE S \subseteq {0}
  BY <1>1 DEF Tightest
<1>2. CASE ~ (S \subseteq {0})
  <2> DEFINE T == S \ {0}
  <2>1. T \in SUBSET Nat /\ T # {}
    BY <1>2
  <2>2. Tightest(S) = Min(T)
    BY <1>2 DEF Tightest
  <2> HIDE DEF T
  <2>3. Min(T) \in T /\ \A n \in T : Min(T) <= n
    BY <2>1, MinFacts
  <2> QED
    BY <2>2, <2>3 DEF T
<1> QED
  BY <1>1, <1>2

\* A limit that a match yields is that of a row that counts and fits.
LEMMA FirstLimitFacts ==
  ASSUME PrivInv, NEW rows \in SUBSET DOMAIN grants
  PROVE  /\ FirstLimit(rows) \in Nat
         /\ FirstLimit(rows) # 0 => \E i \in rows : grants[i].limit = FirstLimit(rows)
<1>1. CASE rows = {}
  BY <1>1 DEF FirstLimit
<1>2. CASE rows # {}
  <2>1. rows \in SUBSET Nat /\ \A i \in DOMAIN grants : grants[i].limit \in Nat
    <3>1. \A i \in DOMAIN grants : i \in Nat /\ grants[i] \in Grant
      BY DEF PrivInv
    <3>2. Limits \subseteq Nat
      BY QueryAssumption DEF Limits
    <3> QED
      BY <3>1, <3>2 DEF Grant
  <2>2. Min(rows) \in rows
    BY <1>2, <2>1, MinFacts
  <2> QED
    BY <1>2, <2>1, <2>2 DEF FirstLimit
<1> QED
  BY <1>1, <1>2

\* A match is the limit of a live row: of the whole database, or of the table.
LEMMA MatchFacts ==
  ASSUME PrivInv, NEW d, NEW t
  PROVE  /\ match_db_priv(d) \in Nat /\ match_tb_priv(d, t) \in Nat
         /\ match_db_priv(d) # 0 =>
              \E i \in Live : /\ grants[i].item.tb = WholeDb /\ grants[i].item.db \in {d, AnyDb}
                              /\ grants[i].limit = match_db_priv(d)
         /\ match_tb_priv(d, t) # 0 =>
              \E i \in Live : grants[i].item = [db |-> d, tb |-> t] /\ grants[i].limit = match_tb_priv(d, t)
<1> DEFINE wide == {i \in Live : grants[i].item.tb = WholeDb /\ grants[i].item.db \in {d, AnyDb}}
           own == {i \in Live : grants[i].item = [db |-> d, tb |-> t]}
<1>1. wide \in SUBSET DOMAIN grants /\ own \in SUBSET DOMAIN grants
  BY DEF Live
<1>2. match_db_priv(d) = FirstLimit(wide) /\ match_tb_priv(d, t) = FirstLimit(own)
  BY DEF match_db_priv, match_tb_priv
<1> HIDE DEF wide, own
<1>3. /\ FirstLimit(wide) \in Nat /\ FirstLimit(own) \in Nat
      /\ FirstLimit(wide) # 0 => \E i \in wide : grants[i].limit = FirstLimit(wide)
      /\ FirstLimit(own) # 0 => \E i \in own : grants[i].limit = FirstLimit(own)
  BY <1>1, FirstLimitFacts
<1> QED
  BY <1>2, <1>3 DEF wide, own

\* What the check of MySQL allows for a table is no more than some row allows that covers it.
LEMMA TableLimit ==
  ASSUME PrivInv, NEW r \in [db : Dbs, tb : Tables], NEW limit,
         limit = Tightest({match_db_priv(r.db), match_tb_priv(r.db, r.tb)})
  PROVE  /\ limit \in Nat
         /\ limit # 0 => \E i \in Live : Covers(grants[i].item, r) /\ limit <= grants[i].limit
         /\ match_db_priv(r.db) # 0 => limit # 0 /\ limit <= match_db_priv(r.db)
<1> DEFINE m == match_db_priv(r.db)
           n == match_tb_priv(r.db, r.tb)
<1>1. /\ m \in Nat /\ n \in Nat
      /\ m # 0 => \E i \in Live : /\ grants[i].item.tb = WholeDb /\ grants[i].item.db \in {r.db, AnyDb}
                                  /\ grants[i].limit = m
      /\ n # 0 => \E i \in Live : grants[i].item = [db |-> r.db, tb |-> r.tb] /\ grants[i].limit = n
  BY MatchFacts
<1>2. [db |-> r.db, tb |-> r.tb] = r
  OBVIOUS
<1> HIDE DEF m, n
<1>3. /\ limit \in Nat
      /\ limit # 0 => limit \in {m, n}
      /\ \A k \in {m, n} : k # 0 => limit # 0 /\ limit <= k
  <2>1. limit = Tightest({m, n}) /\ {m, n} \in SUBSET Nat
    BY <1>1 DEF m, n
  <2> QED
    BY <2>1, TightestFacts
<1>4. ASSUME limit # 0
      PROVE  \E i \in Live : Covers(grants[i].item, r) /\ limit <= grants[i].limit
  <2>1. CASE m # 0
    <3>1. PICK i \in Live : /\ grants[i].item.tb = WholeDb /\ grants[i].item.db \in {r.db, AnyDb}
                            /\ grants[i].limit = m
      BY <1>1, <2>1
    <3> QED
      BY <1>3, <2>1, <3>1 DEF Covers
  <2>2. CASE m = 0
    <3>1. n # 0
      BY <1>3, <1>4, <2>2
    <3>2. PICK i \in Live : grants[i].item = r /\ grants[i].limit = n
      BY <1>1, <1>2, <3>1
    <3> QED
      BY <1>3, <3>1, <3>2 DEF Covers
  <2> QED
    BY <2>1, <2>2
<1> QED
  BY <1>3, <1>4 DEF m

\* A query that names tables runs on granted rows.
LEMMA TablesReviewed == PrivInv /\ GrantInv => TablesAreReviewed
<1> SUFFICES ASSUME PrivInv, GrantInv, NEW refs \in SUBSET [db : Dbs, tb : Tables], NEW want \in Limits,
                    query_priv_check(FALSE, refs, want).ok, NEW r \in refs
             PROVE  \E i \in DOMAIN grants :
                      /\ Covers(grants[i].item, r)
                      /\ ~ grants[i].deleted
                      /\ grants[i].until >= today
                      /\ query_priv_check(FALSE, refs, want).limit <= grants[i].limit
                      /\ \E a \in Applies :
                           /\ Granted(a)
                           /\ grants[i].item \in ItemsOf(a)
                           /\ grants[i].item \notin modified =>
                                grants[i].limit = Form[a].limit /\ grants[i].until = Form[a].until
  BY DEF TablesAreReviewed
<1> DEFINE limit(q) == Tightest({match_db_priv(q.db), match_tb_priv(q.db, q.tb)})
           all == {want} \cup {limit(q) : q \in refs}
           granted == query_priv_check(FALSE, refs, want).limit
<1>1. \A q \in refs : limit(q) # 0
  BY DEF query_priv_check, Refused
<1>2. granted = Tightest(all)
  BY <1>1 DEF query_priv_check
<1>3. \A q \in [db : Dbs, tb : Tables] : limit(q) \in Nat
  BY TableLimit
<1>4. want \in Nat
  BY QueryAssumption DEF Limits
<1>5. all \in SUBSET Nat /\ limit(r) \in all /\ limit(r) # 0 /\ limit(r) \in Nat
  BY <1>1, <1>3, <1>4
<1>6. \E i \in Live : Covers(grants[i].item, r) /\ limit(r) <= grants[i].limit
  BY <1>1, TableLimit
<1> HIDE DEF limit, all, granted
<1>7. Tightest(all) \in Nat /\ Tightest(all) <= limit(r)
  BY <1>5, TightestFacts
<1>8. PICK i \in Live : Covers(grants[i].item, r) /\ limit(r) <= grants[i].limit
  BY <1>6
<1>9. i \in DOMAIN grants /\ ~ grants[i].deleted /\ grants[i].until >= today
  BY <1>8 DEF Live
<1>10. PICK a \in Applies : GrantedBy(grants[i], a, signed, modified)
  BY <1>9 DEF GrantInv
<1>11. grants[i].limit \in Nat
  <2>1. grants[i] \in Grant
    BY <1>9 DEF PrivInv
  <2> QED
    BY <2>1, QueryAssumption DEF Grant, Limits
<1>12. granted <= grants[i].limit
  BY <1>2, <1>5, <1>7, <1>8, <1>11
<1> QED
  BY <1>8, <1>9, <1>10, <1>12 DEF GrantedBy, Granted, granted

\* What the check of databases lets through, the check of tables does, with no higher limit.
LEMMA ChecksAgreeing == PrivInv => ChecksAgree
<1> SUFFICES ASSUME PrivInv, NEW d \in Dbs, NEW want \in Limits, query_db_check({d}, want).ok,
                    NEW t \in Tables
             PROVE  /\ query_priv_check(FALSE, {[db |-> d, tb |-> t]}, want).ok
                    /\ query_priv_check(FALSE, {[db |-> d, tb |-> t]}, want).limit <= query_db_check({d}, want).limit
  BY DEF ChecksAgree
<1> DEFINE r == [db |-> d, tb |-> t]
           limit(q) == Tightest({match_db_priv(q.db), match_tb_priv(q.db, q.tb)})
           m == match_db_priv(d)
           n == limit(r)
<1>1. r \in [db : Dbs, tb : Tables] /\ r.db = d
  OBVIOUS
<1>2. m # 0
  BY DEF query_db_check, Refused
<1>3. n \in Nat /\ n # 0 /\ n <= m
  BY <1>1, <1>2, TableLimit
<1>4. m \in Nat
  BY MatchFacts
<1>5. want \in Nat
  BY QueryAssumption DEF Limits
<1>6. query_db_check({d}, want).limit = Tightest({want, m})
  <2>1. {want} \cup {match_db_priv(e) : e \in {d}} = {want, m}
    OBVIOUS
  <2> QED
    BY <1>2, <2>1 DEF query_db_check
<1>7. query_priv_check(FALSE, {r}, want).ok /\ query_priv_check(FALSE, {r}, want).limit = Tightest({want, n})
  <2>1. {want} \cup {limit(q) : q \in {r}} = {want, n} /\ \A q \in {r} : limit(q) # 0
    BY <1>3
  <2> QED
    BY <2>1 DEF query_priv_check
<1> HIDE DEF r, limit, m, n
<1>8. /\ Tightest({want, m}) \in Nat /\ Tightest({want, n}) \in Nat
      /\ Tightest({want, m}) # 0 => Tightest({want, m}) \in {want, m}
      /\ \A k \in {want, m} : k # 0 => Tightest({want, m}) # 0 /\ Tightest({want, m}) <= k
      /\ \A k \in {want, n} : k # 0 => Tightest({want, n}) # 0 /\ Tightest({want, n}) <= k
  <2>1. {want, m} \in SUBSET Nat /\ {want, n} \in SUBSET Nat
    BY <1>3, <1>4, <1>5
  <2> QED
    BY <2>1, TightestFacts
<1>9. Tightest({want, n}) <= Tightest({want, m})
  BY <1>2, <1>3, <1>4, <1>5, <1>8
<1> QED
  BY <1>6, <1>7, <1>9 DEF r

\* A query that is let through, other than EXPLAIN and SHOW CREATE on MySQL, reads only what an
\* application asked for and every group of the chain passed, while it is valid and with no more than its limit, or what a manager made of them; the checks
\* of MySQL and of the other engines agree on it (query_privileges.py, privilege_service.py).
THEOREM QueriesReviewed == QSpec => []QueriesAreReviewed
<1>1. PrivInv /\ GrantInv => QueriesAreReviewed
  BY TablesReviewed, ChecksAgreeing DEF QueriesAreReviewed
<1> QED
  BY <1>1, GrantCorrect, PTL

\* The rows of applications, audits and grants, and the copies of reviews, have their types.
THEOREM PrivilegeTypes == QSpec => []QTypeOK
<1>1. PrivInv /\ GrantInv => QTypeOK
  BY PrivInvTypeOK
<1> QED
  BY <1>1, GrantCorrect, PTL

-----------------------------------------------------------------------------
(* Application, audit row and grants say the same, as long as reviews come *)
(* one at a time and none dies; the one under way says where they differ.  *)

InReview(h) == review[h].pc # "idle"
HasRow(item) == \E i \in DOMAIN grants : grants[i].item = item

Agrees(a) ==
  /\ \A st \in {"passed", "rejected"} : apply[a] = st <=> audits[a].status = st
  /\ apply[a] = "passed" => \A item \in ItemsOf(a) : HasRow(item)

Writes(h, a) == review[h].pc \in {"apply", "grant"} /\ review[h].id = a

OneReview ==
  /\ \A g, h \in Reviews : InReview(g) /\ InReview(h) => g = h
  /\ \A a \in Applies : (\A h \in Reviews : ~ Writes(h, a)) => Agrees(a)
  /\ \A h \in Reviews :
       /\ review[h].pc \in {"decide", "audit"} => review[h].audit = audits[review[h].id]
       /\ review[h].pc \in {"apply", "grant"} => audits[review[h].id].status = "passed"
       /\ review[h].pc = "grant" =>
            /\ apply[review[h].id] = "passed"
            /\ \A item \in ItemsOf(review[h].id) :
                 HasRow(item) \/ \E n \in DOMAIN review[h].todo : review[h].todo[n] = item

AgreeInv ==
  /\ \A h \in Reviews : InReview(h) => apply[review[h].id] # "none"
  /\ ~ overlap /\ lost = 0 => OneReview

\* Nothing is applied for: nothing disagrees.
LEMMA AgreeInit == QInit => AgreeInv
<1> SUFFICES ASSUME QInit PROVE AgreeInv
  OBVIOUS
<1>1. \A h \in Reviews : review[h].pc = "idle"
  BY NoReviewGood DEF QInit
<1>2. \A a \in Applies : apply[a] = "none" /\ audits[a].status = "none"
  BY DEF QInit, NoAudit
<1> QED
  BY <1>1, <1>2 DEF AgreeInv, OneReview, InReview, Agrees, Writes

\* Grants leave a row for what had one, and for what is granted.
LEMMA GrantsKeepRows ==
  ASSUME NEW a, NEW items, Grants(a, items)
  PROVE  /\ \A item : HasRow(item) => HasRow(item)'
         /\ \A item \in items : HasRow(item)'
BY DEF Grants, Renewed, HasRow

\* The one review under way accounts for what is not yet saved.
LEMMA AgreeNext == PrivInv /\ AgreeInv /\ [QNext]_qVars => AgreeInv'
<1> SUFFICES ASSUME PrivInv, AgreeInv, [QNext]_qVars
             PROVE  AgreeInv'
  OBVIOUS
<1> USE DEF qBounds, qGhosts
<1>a. /\ apply \in [Applies -> {"none", "waiting", "passed", "rejected"}]
      /\ audits \in [Applies -> GoodRow]
      /\ review \in [Reviews -> GoodReview]
      /\ lost \in Nat
  BY DEF PrivInv
<1>b. ASSUME NEW h \in Reviews, InReview(h)
      PROVE  review[h].id \in Applies /\ apply[review[h].id] # "none"
  BY <1>b, <1>a DEF InReview, GoodReview, AgreeInv
<1>c. ASSUME NEW h \in Reviews, InReview(h), OneReview, NEW v, review' = [review EXCEPT ![h] = v]
      PROVE  /\ review'[h] = v
             /\ \A g \in Reviews : g # h => review'[g] = review[g] /\ ~ InReview(g) /\ ~ InReview(g)'
  BY <1>a, <1>c DEF OneReview, InReview
<1>d. NoReview.pc = "idle"
  BY NoReviewGood
<1>1. ASSUME NEW a \in Applies, ApplyForPrivileges(a)
      PROVE  AgreeInv'
  <2>1. /\ apply[a] = "none" /\ apply' = [apply EXCEPT ![a] = "waiting"]
        /\ audits' = [audits EXCEPT ![a] = create_audit("no")]
        /\ UNCHANGED <<grants, review, overlap, lost>>
    BY <1>1 DEF ApplyForPrivileges
  <2>2. create_audit("no").status = "waiting"
    BY DEF create_audit
  <2>3. /\ apply'[a] = "waiting" /\ audits'[a].status = "waiting"
        /\ \A b \in Applies \ {a} : apply'[b] = apply[b] /\ audits'[b] = audits[b]
    BY <1>a, <2>1, <2>2
  <2>4. \A h \in Reviews : InReview(h) => review[h].id \in Applies \ {a}
    BY <1>b, <2>1
  <2>5. \A h \in Reviews : InReview(h)' <=> InReview(h)
    BY <2>1 DEF InReview
  <2>6. \A h \in Reviews : InReview(h)' => apply'[review'[h].id] # "none"
    BY <1>b, <2>1, <2>3, <2>4, <2>5
  <2>7. ASSUME OneReview
        PROVE  OneReview'
    <3>1. \A b \in Applies : (\A h \in Reviews : ~ Writes(h, b))' => Agrees(b)'
      <4> SUFFICES ASSUME NEW b \in Applies, (\A h \in Reviews : ~ Writes(h, b))'
                   PROVE  Agrees(b)'
        OBVIOUS
      <4>1. CASE b = a
        BY <2>3, <4>1 DEF Agrees
      <4>2. CASE b # a
        <5>1. Agrees(b)
          BY <2>1, <2>7 DEF OneReview, Writes
        <5> QED
          BY <2>1, <2>3, <4>2, <5>1 DEF Agrees, HasRow
      <4> QED
        BY <4>1, <4>2
    <3>2. \A h \in Reviews :
            /\ review'[h].pc \in {"decide", "audit"} => review'[h].audit = audits'[review'[h].id]
            /\ review'[h].pc \in {"apply", "grant"} => audits'[review'[h].id].status = "passed"
            /\ review'[h].pc = "grant" =>
                 /\ apply'[review'[h].id] = "passed"
                 /\ \A item \in ItemsOf(review'[h].id) :
                      HasRow(item)' \/ \E n \in DOMAIN review'[h].todo : review'[h].todo[n] = item
      <4> SUFFICES ASSUME NEW h \in Reviews, review[h].pc # "idle"
                   PROVE  /\ review[h].pc \in {"decide", "audit"} => review[h].audit = audits'[review[h].id]
                          /\ review[h].pc \in {"apply", "grant"} => audits'[review[h].id].status = "passed"
                          /\ review[h].pc = "grant" =>
                               /\ apply'[review[h].id] = "passed"
                               /\ \A item \in ItemsOf(review[h].id) :
                                    HasRow(item)' \/ \E n \in DOMAIN review[h].todo : review[h].todo[n] = item
        BY <2>1
      <4>1. review[h].id \in Applies \ {a}
        BY <2>4 DEF InReview
      <4>2. apply'[review[h].id] = apply[review[h].id] /\ audits'[review[h].id] = audits[review[h].id]
        BY <2>3, <4>1
      <4>3. \A item : HasRow(item)' <=> HasRow(item)
        BY <2>1 DEF HasRow
      <4> QED
        BY <2>7, <4>2, <4>3 DEF OneReview
    <3> QED
      BY <2>5, <2>7, <3>1, <3>2 DEF OneReview
  <2> QED
    BY <2>1, <2>6, <2>7 DEF AgreeInv
<1>2. ASSUME NEW h \in Reviews, QueryPrivAuditRead(h) \/ AuditWorkflowRead(h)
      PROVE  AgreeInv'
  <2>1. PICK a \in Applies, action \in WorkflowAction, pc \in {"decide", "audit"} :
           /\ StartReview(h, a, action, pc) /\ audits[a].status = "waiting"
           /\ pc = "audit" => action = "pass"
    BY <1>2, ReadWaiting
  <2>2. PICK v \in GoodReview : /\ review' = [review EXCEPT ![h] = v]
                                /\ v.pc = pc /\ v.id = a /\ v.action = action /\ v.audit = audits[a]
    BY <2>1, StartGood
  <2>3. /\ apply[a] # "none" /\ UNCHANGED <<apply, audits, grants, lost>>
        /\ overlap' = (overlap \/ \E g \in Reviews : ~ Reviewing(g, "idle"))
    BY <2>1 DEF StartReview
  <2>4. review'[h] = v /\ \A g \in Reviews \ {h} : review'[g] = review[g]
    BY <1>a, <2>2
  <2>5. \A g \in Reviews : InReview(g)' => apply'[review'[g].id] # "none"
    BY <1>b, <2>2, <2>3, <2>4 DEF InReview
  <2>6. ASSUME ~ overlap', lost' = 0
        PROVE  OneReview'
    <3>1. ~ overlap /\ \A g \in Reviews : review[g].pc = "idle"
      BY <2>3, <2>6, Zenon DEF Reviewing
    <3>2. OneReview
      BY <2>3, <2>6, <3>1 DEF AgreeInv
    <3>3. \A g \in Reviews \ {h} : review'[g].pc = "idle"
      BY <2>4, <3>1
    <3>4. \A b \in Applies : Agrees(b)
      BY <3>1, <3>2 DEF OneReview, Writes
    <3>5. \A b \in Applies : Agrees(b)'
      BY <2>3, <3>4 DEF Agrees, HasRow
    <3>6. review'[h].pc \in {"decide", "audit"} /\ review'[h].audit = audits'[review'[h].id]
      BY <2>2, <2>3, <2>4
    <3> QED
      BY <3>3, <3>5, <3>6 DEF OneReview, InReview
  <2> QED
    BY <2>5, <2>6 DEF AgreeInv
<1>e. ASSUME NEW h \in Reviews, InReview(h), NEW a, a = review[h].id, NEW v, review' = [review EXCEPT ![h] = v],
             v.pc = "idle" \/ (v.pc \in {"apply", "grant"} /\ v.id = a),
             apply'[a] # "none",
             \A b \in Applies \ {a} : apply'[b] = apply[b] /\ audits'[b] = audits[b],
             \A item : HasRow(item) => HasRow(item)',
             OneReview /\ v.pc = "idle" => Agrees(a)',
             OneReview /\ v.pc # "idle" => audits'[a].status = "passed",
             OneReview /\ v.pc = "grant" =>
               /\ apply'[a] = "passed"
               /\ \A item \in ItemsOf(a) : HasRow(item)' \/ \E n \in DOMAIN v.todo : v.todo[n] = item,
             UNCHANGED <<overlap, lost>>
      PROVE  AgreeInv'
  <2>1. a \in Applies
    BY <1>b, <1>e
  <2>2. review'[h] = v /\ \A g \in Reviews \ {h} : review'[g] = review[g]
    BY <1>a, <1>e
  <2>3. ASSUME NEW g \in Reviews, InReview(g)'
        PROVE  apply'[review'[g].id] # "none"
    <3>1. CASE g = h
      BY <1>e, <2>2, <2>3, <3>1 DEF InReview
    <3>2. CASE g # h
      <4>1. InReview(g) /\ review'[g] = review[g]
        BY <2>2, <2>3, <3>2 DEF InReview
      <4>2. review[g].id \in Applies /\ apply[review[g].id] # "none"
        BY <1>b, <4>1
      <4> QED
        BY <1>e, <4>1, <4>2
    <3> QED
      BY <3>1, <3>2
  <2>4. ASSUME OneReview
        PROVE  OneReview'
    <3>1. \A g \in Reviews : g # h => review[g].pc = "idle" /\ review'[g].pc = "idle"
      BY <1>e, <2>2, <2>4 DEF OneReview, InReview
    <3>2. \A f, g \in Reviews : InReview(f)' /\ InReview(g)' => f = g
      BY <3>1 DEF InReview
    <3>3. ASSUME NEW b \in Applies, \A g \in Reviews : ~ Writes(g, b)'
          PROVE  Agrees(b)'
      <4>1. CASE b = a
        <5>1. v.pc = "idle"
          BY <1>e, <2>2, <3>3, <4>1 DEF Writes
        <5> QED
          BY <1>e, <2>4, <4>1, <5>1
      <4>2. CASE b # a
        <5>1. \A g \in Reviews : ~ Writes(g, b)
          BY <1>e, <3>1, <4>2 DEF Writes
        <5>2. Agrees(b)
          BY <2>4, <5>1 DEF OneReview
        <5> QED
          BY <1>e, <4>2, <5>2 DEF Agrees
      <4> QED
        BY <4>1, <4>2
    <3>4. ASSUME NEW g \in Reviews
          PROVE  /\ review'[g].pc \in {"decide", "audit"} => review'[g].audit = audits'[review'[g].id]
                 /\ review'[g].pc \in {"apply", "grant"} => audits'[review'[g].id].status = "passed"
                 /\ review'[g].pc = "grant" =>
                      /\ apply'[review'[g].id] = "passed"
                      /\ \A item \in ItemsOf(review'[g].id) :
                           HasRow(item)' \/ \E n \in DOMAIN review'[g].todo : review'[g].todo[n] = item
      <4>1. CASE g = h
        BY <1>e, <2>2, <2>4, <4>1
      <4>2. CASE g # h
        BY <3>1, <4>2
      <4> QED
        BY <4>1, <4>2
    <3> QED
      BY <3>2, <3>3, <3>4 DEF OneReview
  <2> QED
    BY <1>e, <2>3, <2>4 DEF AgreeInv
<1>3. ASSUME NEW h \in Reviews, Decide(h)
      PROVE  AgreeInv'
  <2> DEFINE st == operate(review[h].audit, review[h].action).status
  <2>0. PICK a : a = review[h].id
    OBVIOUS
  <2>1. /\ review[h].pc = "decide"
        /\ review' = [review EXCEPT ![h] = NoReview]
        /\ audits' = [audits EXCEPT ![a] = operate(review[h].audit, review[h].action)]
        /\ apply' = [apply EXCEPT ![a] = IF st \in {"passed", "rejected"} THEN st ELSE @]
        /\ UNCHANGED <<overlap, lost>>
    BY <1>3, <2>0 DEF Decide, Reviewing, ReviewEnds
  <2>2. a \in Applies /\ apply[a] # "none" /\ InReview(h)
    BY <2>0, <2>1, <1>b DEF InReview
  <2>3. /\ apply'[a] = IF st \in {"passed", "rejected"} THEN st ELSE apply[a]
        /\ audits'[a].status = st
        /\ \A b \in Applies \ {a} : apply'[b] = apply[b] /\ audits'[b] = audits[b]
    BY <1>a, <2>1, <2>2
  <2>4. /\ \A item : HasRow(item) => HasRow(item)'
        /\ st = "passed" => \A item \in ItemsOf(a) : HasRow(item)'
    <3>1. CASE st = "passed"
      BY <1>3, <2>0, <3>1, DecideGrants, GrantsKeepRows
    <3>2. CASE st # "passed"
      <4>1. grants' = grants
        BY <1>3, <3>2, DecideGrants
      <4> QED
        BY <3>2, <4>1 DEF HasRow
    <3> QED
      BY <3>1, <3>2
  <2>5. apply'[a] # "none"
    BY <2>2, <2>3
  <2>6. ASSUME OneReview
        PROVE  Agrees(a)'
    <3>1. \A g \in Reviews : ~ Writes(g, a)
      BY <2>0, <2>1, <2>2, <2>6 DEF OneReview, Writes, InReview
    <3>2. Agrees(a) /\ audits[a] = review[h].audit
      BY <2>0, <2>1, <2>2, <2>6, <3>1 DEF OneReview
    <3>3. review[h].audit.status = "waiting"
      BY <1>a, <2>1 DEF GoodReview
    <3>4. apply[a] \notin {"passed", "rejected"}
      BY <3>2, <3>3 DEF Agrees
    <3> HIDE DEF st
    <3> QED
      BY <2>3, <2>4, <3>4 DEF Agrees
  <2> HIDE DEF st
  <2>7. PICK v : review' = [review EXCEPT ![h] = v] /\ v.pc = "idle"
    BY <1>d, <2>1
  <2>8. OneReview /\ v.pc = "idle" => Agrees(a)'
    BY <2>6
  <2>9. /\ UNCHANGED <<overlap, lost>>
        /\ \A b \in Applies \ {a} : apply'[b] = apply[b] /\ audits'[b] = audits[b]
    BY <2>1, <2>3
  <2> QED
    BY <1>e, <2>0, <2>2, <2>4, <2>5, <2>7, <2>8, <2>9
<1>4. ASSUME NEW h \in Reviews, SaveAudit(h)
      PROVE  AgreeInv'
  <2> DEFINE row == operate(review[h].audit, review[h].action)
  <2>0. PICK a : a = review[h].id
    OBVIOUS
  <2>1. /\ review[h].pc = "audit"
        /\ audits' = [audits EXCEPT ![a] = row]
        /\ row.status # "passed" => ReviewEnds(h)
        /\ UNCHANGED <<apply, grants, overlap, lost>>
    BY <1>4, <2>0 DEF SaveAudit, Reviewing
  <2>2. a \in Applies /\ apply[a] # "none" /\ InReview(h)
    BY <2>0, <2>1, <1>b DEF InReview
  <2>3. audits'[a] = row /\ \A b \in Applies \ {a} : apply'[b] = apply[b] /\ audits'[b] = audits[b]
    BY <1>a, <2>1, <2>2
  <2>4. row.status \in {"waiting", "passed"}
    <3>1. review[h].action = "pass" /\ review[h].audit \in GoodRow
      BY <1>a, <2>1 DEF GoodReview
    <3> QED
      BY <3>1 DEF operate, operate_pass, GoodRow, AuditRow
  <2>5. \A item : HasRow(item) => HasRow(item)'
    BY <2>1 DEF HasRow
  <2>6. PICK v : /\ review' = [review EXCEPT ![h] = v]
                 /\ IF row.status = "passed" THEN v.pc = "apply" /\ v.id = a ELSE v.pc = "idle"
    <3>1. CASE row.status = "passed"
      BY <1>4, <2>0, <3>1, TodoGood
    <3>2. CASE row.status # "passed"
      BY <2>1, <3>2, <1>d DEF ReviewEnds
    <3> QED
      BY <3>1, <3>2
  <2>7. ASSUME OneReview, v.pc = "idle"
        PROVE  Agrees(a)'
    <3>1. \A g \in Reviews : ~ Writes(g, a)
      BY <2>0, <2>1, <2>2, <2>7 DEF OneReview, Writes, InReview
    <3>2. Agrees(a) /\ audits[a] = review[h].audit
      BY <2>0, <2>1, <2>2, <2>7, <3>1 DEF OneReview
    <3>3. review[h].audit.status = "waiting"
      BY <1>a, <2>1 DEF GoodReview
    <3>4. apply[a] \notin {"passed", "rejected"}
      BY <3>2, <3>3 DEF Agrees
    <3>5. audits'[a].status = "waiting" /\ apply' = apply
      BY <2>1, <2>3, <2>4, <2>6, <2>7
    <3> HIDE DEF row
    <3> QED
      BY <3>4, <3>5 DEF Agrees
  <2> HIDE DEF row
  <2>8. /\ v.pc = "idle" \/ (v.pc \in {"apply", "grant"} /\ v.id = a)
        /\ v.pc # "idle" => audits'[a].status = "passed"
        /\ v.pc # "grant"
    BY <2>3, <2>6
  <2>9. /\ OneReview /\ v.pc = "idle" => Agrees(a)'
        /\ OneReview /\ v.pc # "idle" => audits'[a].status = "passed"
    BY <2>7, <2>8
  <2>10. apply'[a] # "none" /\ UNCHANGED <<overlap, lost>>
    BY <2>1, <2>2
  <2> QED
    BY <1>e, <2>0, <2>2, <2>3, <2>5, <2>6, <2>8, <2>9, <2>10
<1>5. ASSUME NEW h \in Reviews, SaveApply(h)
      PROVE  AgreeInv'
  <2>0. PICK a : a = review[h].id
    OBVIOUS
  <2>1. /\ review[h].pc = "apply" /\ apply' = [apply EXCEPT ![a] = "passed"]
        /\ UNCHANGED <<audits, grants, overlap, lost>>
    BY <1>5, <2>0 DEF SaveApply, Reviewing
  <2>2. PICK v \in GoodReview : /\ review' = [review EXCEPT ![h] = v]
                                /\ v.pc = "grant" /\ v.id = a /\ v.todo = Form[v.id].items
    BY <1>5, <2>0, TodoGood
  <2>3. a \in Applies /\ InReview(h)
    BY <2>0, <2>1, <1>b DEF InReview
  <2>4. apply'[a] = "passed" /\ \A b \in Applies \ {a} : apply'[b] = apply[b] /\ audits'[b] = audits[b]
    BY <1>a, <2>1, <2>3
  <2>5. \A item \in ItemsOf(a) : \E n \in DOMAIN v.todo : v.todo[n] = item
    BY <2>2 DEF ItemsOf
  <2>6. \A item : HasRow(item) => HasRow(item)'
    BY <2>1 DEF HasRow
  <2>7. OneReview => audits'[a].status = "passed"
    BY <2>0, <2>1 DEF OneReview
  <2> QED
    BY <1>e, <2>0, <2>1, <2>2, <2>3, <2>4, <2>5, <2>6, <2>7
<1>6. ASSUME NEW h \in Reviews, SaveGrant(h)
      PROVE  AgreeInv'
  <2>0. PICK a : a = review[h].id
    OBVIOUS
  <2>1. review[h].pc = "grant" /\ UNCHANGED <<apply, audits, overlap, lost>>
    BY <1>6 DEF SaveGrant, Reviewing
  <2>2. PICK v \in GoodReview : /\ review' = [review EXCEPT ![h] = v]
                                /\ v.pc = "grant" /\ v.id = a /\ v.todo = Tail(review[h].todo)
    BY <1>6, <2>0, TodoGood
  <2>3. a \in Applies /\ apply[a] # "none" /\ InReview(h)
    BY <2>0, <2>1, <1>b DEF InReview
  <2>s. PICK saved : saved = Head(review[h].todo)
    OBVIOUS
  <2>4. /\ \A item : HasRow(item) => HasRow(item)'
        /\ HasRow(saved)'
    BY <1>6, <2>s, SaveGrants, GrantsKeepRows
  <2>5. ASSUME OneReview, NEW item \in ItemsOf(a)
        PROVE  HasRow(item)' \/ \E n \in DOMAIN v.todo : v.todo[n] = item
    <3>1. CASE HasRow(item)
      BY <2>4, <3>1
    <3>2. CASE ~ HasRow(item)
      <4>1. PICK n \in DOMAIN review[h].todo : review[h].todo[n] = item
        BY <2>0, <2>1, <2>5, <3>2 DEF OneReview
      <4>2. \/ review[h].todo[n] = Head(review[h].todo)
            \/ \E k \in DOMAIN Tail(review[h].todo) : Tail(review[h].todo)[k] = review[h].todo[n]
        BY <1>6, <4>1, TodoGood
      <4>3. CASE item = saved
        BY <2>4, <4>3
      <4> QED
        BY <2>2, <2>s, <4>1, <4>2, <4>3
    <3> QED
      BY <3>1, <3>2
  <2>6. OneReview => audits'[a].status = "passed" /\ apply'[a] = "passed"
    BY <2>0, <2>1 DEF OneReview
  <2>7. apply'[a] # "none" /\ \A b \in Applies \ {a} : apply'[b] = apply[b] /\ audits'[b] = audits[b]
    BY <2>1, <2>3
  <2> QED
    BY <1>e, <2>0, <2>1, <2>2, <2>3, <2>4, <2>5, <2>6, <2>7
<1>7. ASSUME NEW h \in Reviews, GrantsSaved(h)
      PROVE  AgreeInv'
  <2>0. PICK a : a = review[h].id
    OBVIOUS
  <2>1. /\ review[h].pc = "grant" /\ review[h].todo = << >>
        /\ review' = [review EXCEPT ![h] = NoReview]
        /\ UNCHANGED <<apply, audits, grants, overlap, lost>>
    BY <1>7 DEF GrantsSaved, Reviewing, ReviewEnds
  <2>2. a \in Applies /\ apply[a] # "none" /\ InReview(h)
    BY <2>0, <2>1, <1>b DEF InReview
  <2>3. \A item : HasRow(item) <=> HasRow(item)'
    BY <2>1 DEF HasRow
  <2>4. ASSUME OneReview
        PROVE  Agrees(a)'
    <3>1. /\ audits[a].status = "passed" /\ apply[a] = "passed"
          /\ \A item \in ItemsOf(a) : HasRow(item)
      BY <2>0, <2>1, <2>4 DEF OneReview
    <3>2. audits' = audits /\ apply' = apply
      BY <2>1
    <3> QED
      BY <2>3, <3>1, <3>2 DEF Agrees
  <2> QED
    BY <1>d, <1>e, <2>0, <2>1, <2>2, <2>3, <2>4
<1>8. ASSUME NEW h \in Reviews, ReviewDies(h)
      PROVE  AgreeInv'
  <2>1. /\ review' = [review EXCEPT ![h] = NoReview] /\ lost' = lost + 1
        /\ UNCHANGED <<apply, audits, grants>>
    BY <1>8 DEF ReviewDies, ReviewEnds
  <2>2. lost' # 0
    BY <1>a, <2>1
  <2>3. ASSUME NEW g \in Reviews, InReview(g)'
        PROVE  apply'[review'[g].id] # "none"
    <3>1. g # h
      BY <1>a, <1>d, <2>1, <2>3 DEF InReview
    <3>2. review'[g] = review[g] /\ InReview(g)
      BY <1>a, <2>1, <2>3, <3>1 DEF InReview
    <3> QED
      BY <1>b, <2>1, <3>2
  <2> QED
    BY <2>2, <2>3 DEF AgreeInv
<1>f. ASSUME UNCHANGED <<apply, audits, review, overlap, lost>>, \A item : HasRow(item) => HasRow(item)'
      PROVE  AgreeInv'
  <2>1. \A a : Agrees(a) => Agrees(a)'
    BY <1>f DEF Agrees
  <2>2. OneReview => OneReview'
    BY <1>f, <2>1 DEF OneReview, InReview, Writes
  <2> QED
    BY <1>f, <2>2 DEF AgreeInv, InReview
<1>9. CASE DeletePrivilege \/ ChangePrivilege
  <2>1. PICK i \in DOMAIN grants, row \in Grant : row.item = grants[i].item /\ Modify(i, row)
    BY <1>9, ManagersModify
  <2>2. /\ DOMAIN grants' = DOMAIN grants /\ \A j \in DOMAIN grants : grants'[j].item = grants[j].item
        /\ UNCHANGED <<apply, audits, review, overlap, lost>>
    BY <2>1, ModifyGood
  <2>3. \A item : HasRow(item) => HasRow(item)'
    BY <2>2 DEF HasRow
  <2> QED
    BY <2>2, <2>3, <1>f
<1>10. CASE NextDay \/ UNCHANGED qVars
  <2>1. UNCHANGED <<apply, audits, review, overlap, lost, grants>>
    BY <1>10 DEF NextDay, qVars
  <2>2. \A item : HasRow(item) => HasRow(item)'
    BY <2>1 DEF HasRow
  <2> QED
    BY <2>1, <2>2, <1>f
<1> QED
  BY <1>1, <1>2, <1>3, <1>4, <1>5, <1>6, <1>7, <1>8, <1>9, <1>10 DEF QNext

\* When reviews came one at a time and no web process died, application, audit row and grants say the same
\* once the requests are over, for any number of applications and by both doors (QueryPrivAudit and
\* AuditWorkflow with query_apply_audit_call_back).
THEOREM DecisionsAreOne == QSpec => []DecisionsAgree
<1>1. PrivInv /\ AgreeInv => DecisionsAgree
  <2> SUFFICES ASSUME PrivInv, AgreeInv, ~ overlap, lost = 0, \A h \in Reviews : Reviewing(h, "idle"),
                      NEW a \in Applies
               PROVE  Agrees(a)
    BY DEF DecisionsAgree, Agrees, HasRow
  <2> QED
    BY DEF AgreeInv, OneReview, Writes, Reviewing
<1>2. PrivInv /\ AgreeInv /\ [QNext]_qVars => (PrivInv /\ AgreeInv)'
  BY PrivNext, AgreeNext
<1> QED
  BY <1>1, <1>2, PrivInit, AgreeInit, PTL DEF QSpec

-----------------------------------------------------------------------------
(* Types.  As for the ticket, the rows and their copies are good ones, and *)
(* a pass was checked against a waiting row.                               *)

GoodVisit ==
  {v \in [pc : {"idle", "decide", "audit", "columns", "enqueue"}, action : WorkflowAction,
          audit : GoodRow, copy : Config, door : Door] :
     v.pc \in {"decide", "audit"} /\ v.action = "pass" => v.audit.status = "waiting"}

ArchiveInv ==
  /\ config \in Config
  /\ caudit \in GoodRow
  /\ visit \in [Visits -> GoodVisit]
  /\ job \in [Run -> {"free", "queued", "ran"}]
  /\ turns \in 0..MaxSwitches
  /\ crashes \in 0..MaxCrashes
  /\ seals \subseteq Groups
  /\ asked \in [Run -> Door]

\* A good row is a row, and a good visit a visit.
LEMMA ArchiveInvTypeOK == ArchiveInv => ATypeOK
<1>1. GoodRow \subseteq AuditRow
  BY DEF GoodRow
<1>2. GoodVisit \subseteq Visit
  BY <1>1 DEF GoodVisit, Visit
<1> QED
  BY <1>2, <1>1 DEF ArchiveInv, ATypeOK

\* A request that has not begun is a good visit.
LEMMA NoVisitGood == NoVisit \in GoodVisit /\ NoConfig \in Config
  BY OperateGood DEF NoVisit, NoConfig, GoodVisit, Config, Door, WorkflowAction, WorkflowStatus

\* The requests stay good when one of them changes into a good one.
LEMMA VisitsGood ==
  ASSUME visit \in [Visits -> GoodVisit], NEW h \in Visits, NEW v \in GoodVisit,
         visit' = [visit EXCEPT ![h] = v]
  PROVE  visit' \in [Visits -> GoodVisit]
  OBVIOUS

\* An action may be taken on a row in the states the grid names (workflow_audit.py:41-50);
\* only a waiting row can be passed.
LEMMA PassOnlyWaiting ==
  ASSUME NEW a \in GoodRow, NEW u, can_operate(a, "pass", u)
  PROVE  a.status = "waiting"
<1>1. a.status \in WorkflowStatus
  BY DEF GoodRow, AuditRow
<1>2. "pass" \in SUPPORTED_OPERATION_GRID[a.status]
  BY DEF can_operate
<1> QED
  BY <1>1, <1>2 DEF SUPPORTED_OPERATION_GRID, WorkflowStatus

\* The configuration and its row do not exist, and nobody has asked for anything.
LEMMA ArchiveInit == AInit => ArchiveInv
<1> SUFFICES ASSUME AInit
             PROVE  ArchiveInv
  OBVIOUS
<1>1. visit \in [Visits -> GoodVisit] /\ config \in Config /\ caudit \in GoodRow
  BY NoVisitGood, OperateGood DEF AInit
<1>2. turns \in 0..MaxSwitches /\ crashes \in 0..MaxCrashes
  BY ArchiveAssumption DEF AInit
<1> QED
  BY <1>1, <1>2 DEF AInit, ArchiveInv, Door

\* Every step keeps the types.
LEMMA ArchiveNext == ArchiveInv /\ [ANext]_aVars => ArchiveInv'
<1> SUFFICES ASSUME ArchiveInv, [ANext]_aVars
             PROVE  ArchiveInv'
  OBVIOUS
<1> USE DEF ArchiveInv, aBounds, aGhosts
<1>a. ASSUME NEW h \in Visits
      PROVE  /\ visit[h] \in GoodVisit
             /\ visit[h].audit \in GoodRow
             /\ visit[h].action \in WorkflowAction
             /\ visit[h].copy \in Config
             /\ visit[h].door \in Door
  BY DEF GoodVisit
<1>b. \A a \in GoodRow : a.status \in WorkflowStatus /\ a.current \in Nodes
  BY DEF GoodRow, AuditRow
<1>c. ASSUME NEW h \in Visits, VisitEnds(h)
      PROVE  visit' \in [Visits -> GoodVisit]
  BY <1>c, NoVisitGood, VisitsGood DEF VisitEnds
<1>d. ASSUME NEW h \in Visits, Seal(h), visit[h].pc \in {"decide", "audit"}
      PROVE  seals' \subseteq Groups
  <2>1. visit[h].action = "pass" => visit[h].audit.status = "waiting"
    BY <1>d DEF GoodVisit
  <2>2. visit[h].action = "pass" => visit[h].audit.current \in Groups
    BY <2>1, <1>a, ChainGroupsAreGroups DEF GoodRow
  <2> QED
    BY <1>d, <2>2 DEF Seal
<1>e. ASSUME NEW h \in Visits, NEW request \in GoodVisit, StartVisit(h, request)
      PROVE  ArchiveInv'
  <2>1. visit' \in [Visits -> GoodVisit]
    BY <1>e, VisitsGood DEF StartVisit
  <2> QED
    BY <1>e, <2>1 DEF StartVisit
<1>1. CASE ArchiveApply
  <2>1. create_audit("no") = create_audit("review")
    BY DEF create_audit
  <2>2. caudit' \in GoodRow /\ config' \in Config
    BY <1>1, <2>1, OperateGood DEF ArchiveApply, Config, WorkflowStatus
  <2> QED
    BY <1>1, <2>2 DEF ArchiveApply
<1>2. ASSUME NEW h \in Visits, ArchiveAuditRead(h)
      PROVE  ArchiveInv'
  <2>1. PICK u \in Users, action \in WorkflowAction :
          /\ can_operate(caudit, action, u)
          /\ StartVisit(h, [NoVisit EXCEPT !.pc = "decide", !.action = action,
                                           !.audit = caudit, !.copy = config])
    BY <1>2 DEF ArchiveAuditRead
  <2>2. action = "pass" => caudit.status = "waiting"
    BY <2>1, PassOnlyWaiting
  <2>3. [NoVisit EXCEPT !.pc = "decide", !.action = action, !.audit = caudit,
                        !.copy = config] \in GoodVisit
    BY <2>2, NoVisitGood DEF GoodVisit
  <2> QED
    BY <2>1, <2>3, <1>e
<1>3. ASSUME NEW h \in Visits, AuditWorkflowVisit(h)
      PROVE  ArchiveInv'
  <2>1. PICK u \in Users :
          /\ can_operate(caudit, "pass", u)
          /\ StartVisit(h, [NoVisit EXCEPT !.pc = "audit", !.audit = caudit])
    BY <1>3 DEF AuditWorkflowVisit
  <2>2. caudit.status = "waiting"
    BY <2>1, PassOnlyWaiting
  <2>3. [NoVisit EXCEPT !.pc = "audit", !.audit = caudit] \in GoodVisit
    BY <2>2, NoVisitGood DEF GoodVisit
  <2> QED
    BY <2>1, <2>3, <1>e
<1>4. ASSUME NEW h \in Visits, DecideArchive(h)
      PROVE  ArchiveInv'
  <2>1. operate(visit[h].audit, visit[h].action) \in GoodRow
    BY <1>a, OperateGood
  <2>2. caudit' \in GoodRow
    BY <1>4, <2>1 DEF DecideArchive
  <2>3. visit[h].copy.state \in BOOLEAN
    BY <1>a DEF Config
  <2>4. config' \in Config
    BY <1>4, <2>1, <2>3, <1>b DEF DecideArchive, Config
  <2>5. seals' \subseteq Groups /\ visit' \in [Visits -> GoodVisit]
    BY <1>4, <1>c, <1>d DEF DecideArchive, Visiting
  <2> QED
    BY <1>4, <2>2, <2>4, <2>5 DEF DecideArchive
<1>5. ASSUME NEW h \in Visits, SaveArchiveAudit(h)
      PROVE  ArchiveInv'
  <2> DEFINE row == operate(visit[h].audit, visit[h].action)
  <2>1. row \in GoodRow
    BY <1>a, OperateGood
  <2> HIDE DEF row
  <2>2. caudit' = row /\ visit' = [visit EXCEPT ![h].pc = "columns", ![h].audit = row]
    BY <1>5 DEF SaveArchiveAudit, row
  <2>3. [visit[h] EXCEPT !.pc = "columns", !.audit = row] \in GoodVisit
    BY <2>1, <1>a DEF GoodVisit
  <2>4. visit' = [visit EXCEPT ![h] = [visit[h] EXCEPT !.pc = "columns", !.audit = row]]
    BY <2>2
  <2>5. visit' \in [Visits -> GoodVisit]
    BY <2>3, <2>4, VisitsGood
  <2>6. seals' \subseteq Groups
    BY <1>5, <1>d DEF SaveArchiveAudit, Visiting
  <2> QED
    BY <1>5, <2>1, <2>2, <2>5, <2>6 DEF SaveArchiveAudit
<1>6. ASSUME NEW h \in Visits, SaveColumns(h)
      PROVE  ArchiveInv'
  <2>1. config' \in Config
    BY <1>6, <1>a, <1>b DEF SaveColumns, Config
  <2>2. visit' \in [Visits -> GoodVisit]
    BY <1>6, <1>c DEF SaveColumns
  <2> QED
    BY <1>6, <2>1, <2>2 DEF SaveColumns
<1>7. ASSUME NEW h \in Visits, NEW door \in Door, AskForRun(h, door)
      PROVE  ArchiveInv'
  <2>1. [NoVisit EXCEPT !.pc = "enqueue", !.door = door] \in GoodVisit
    BY NoVisitGood DEF GoodVisit
  <2> QED
    BY <1>7, <2>1, <1>e DEF AskForRun
<1>8. ASSUME NEW h \in Visits, EnqueueArchive(h)
      PROVE  ArchiveInv'
  <2>1. PICK r \in Run : /\ job' = [job EXCEPT ![r] = "queued"]
                         /\ asked' = [asked EXCEPT ![r] = visit[h].door]
    BY <1>8 DEF EnqueueArchive
  <2>2. /\ job' \in [Run -> {"free", "queued", "ran"}]
        /\ asked' \in [Run -> Door]
    BY <2>1, <1>a
  <2>3. visit' \in [Visits -> GoodVisit]
    BY <1>8, <1>c DEF EnqueueArchive
  <2> QED
    BY <1>8, <2>2, <2>3 DEF EnqueueArchive
<1>9. ASSUME NEW h \in Visits, VisitDies(h)
      PROVE  ArchiveInv'
  <2>1. visit' \in [Visits -> GoodVisit]
    BY <1>9, <1>c DEF VisitDies
  <2> QED
    BY <1>9, <2>1, ArchiveAssumption DEF VisitDies
<1>10. CASE ArchiveSwitch
  <2>1. config' \in Config
    BY <1>10 DEF ArchiveSwitch, Config
  <2> QED
    BY <1>10, <2>1, ArchiveAssumption DEF ArchiveSwitch
<1>11. ASSUME NEW r \in Run, ArchiveRuns(r)
       PROVE  ArchiveInv'
  BY <1>11 DEF ArchiveRuns
<1>12. CASE UNCHANGED aVars
  BY <1>12 DEF aVars
<1> QED
  BY <1>1, <1>2, <1>3, <1>4, <1>5, <1>6, <1>7, <1>8, <1>9, <1>10, <1>11, <1>12 DEF ANext

\* Types: every row and every request's copy of it stays a legal one, so that operate_pass
\* never looks for a group that the chain does not have.
THEOREM ArchiveTypes == ASpec => []ATypeOK
<1>1. ASpec => []ArchiveInv
  BY ArchiveInit, ArchiveNext, PTL DEF ASpec
<1> QED
  BY <1>1, ArchiveInvTypeOK, PTL

-----------------------------------------------------------------------------
(* Approval.  CheckedRunsAreReviewed looks at tasks that ran; they were    *)
(* queued by requests past their check, the check went by the status, and  *)
(* the status was written from a copy of the row, or of what operate made  *)
(* of one.  ReviewInv says of each place on this way that what it holds is *)
(* sound.  seals only grows, so that an old copy stays sound.              *)

Reviewed == ChainGroups \subseteq seals

VisitSound(v) ==
  /\ SoundRow(v.audit, seals, Reviewed)
  /\ v.pc = "enqueue" /\ v.door # "once" => Reviewed

ReviewInv ==
  /\ SoundRow(caudit, seals, Reviewed)
  /\ config.status = "passed" => Reviewed
  /\ \A h \in Visits : VisitSound(visit[h])
  /\ \A r \in Run : job[r] # "free" /\ asked[r] # "once" => Reviewed

\* What a decision writes is sound once its signature counts (workflow_audit.py:478-511).
LEMMA DecisionSound ==
  ASSUME ArchiveInv, ReviewInv, NEW h \in Visits, visit[h].pc \in {"decide", "audit"}, Seal(h)
  PROVE  /\ seals \subseteq seals'
         /\ SoundRow(operate(visit[h].audit, visit[h].action), seals', Reviewed')
<1> DEFINE a == visit[h].audit
           action == visit[h].action
<1>1. /\ visit[h] \in GoodVisit
      /\ a \in GoodRow
      /\ action \in WorkflowAction
      /\ action = "pass" => a.status = "waiting"
  BY DEF ArchiveInv, GoodVisit
<1>2. SoundRow(a, seals, Reviewed)
  BY DEF ReviewInv, VisitSound
<1>3. seals' = IF action = "pass" THEN seals \cup {a.current} ELSE seals
  BY DEF Seal
<1>4. Reviewed => Reviewed'
  BY <1>3 DEF Reviewed
<1> HIDE DEF a, action
<1>5. CASE action = "pass"
  <2>1. ChainGroups \subseteq seals \cup {a.current} => Reviewed'
    BY <1>3, <1>5 DEF Reviewed, ChainGroups
  <2>2. SoundRow(operate_pass(a), seals \cup {a.current}, Reviewed')
    BY <1>1, <1>2, <1>4, <1>5, <2>1, PassSound
  <2> QED
    BY <1>3, <1>5, <2>2 DEF operate, a, action
<1>6. CASE action = "reject"
  BY <1>1, <1>3, <1>6, RefusalSound DEF operate, a, action
<1>7. CASE action = "abort"
  BY <1>1, <1>3, <1>7, RefusalSound DEF operate, a, action
<1> QED
  BY <1>1, <1>5, <1>6, <1>7 DEF WorkflowAction

\* More signatures leave sound what was sound, and reviewed what was reviewed.
LEMMA VisitSoundGrows ==
  ASSUME NEW v, VisitSound(v), seals \subseteq seals'
  PROVE  /\ SoundRow(v.audit, seals', Reviewed')
         /\ v.pc = "enqueue" /\ v.door # "once" => Reviewed'
<1>1. Reviewed => Reviewed'
  BY DEF Reviewed, ChainGroups
<1>2. SoundRow(v.audit, seals', Reviewed')
  BY <1>1, SoundRowGrows DEF VisitSound
<1> QED
  BY <1>1, <1>2 DEF VisitSound

\* The requests stay sound when one of them changes into a sound one.
LEMMA VisitsSound ==
  ASSUME ArchiveInv, ReviewInv, seals \subseteq seals', NEW h \in Visits, NEW v,
         visit' = [visit EXCEPT ![h] = v],
         SoundRow(v.audit, seals', Reviewed'),
         v.pc = "enqueue" /\ v.door # "once" => Reviewed'
  PROVE  \A g \in Visits : VisitSound(visit[g])'
<1> SUFFICES ASSUME NEW g \in Visits
             PROVE  VisitSound(visit[g])'
  OBVIOUS
<1>1. CASE g = h
  <2>1. visit'[g] = v
    BY <1>1 DEF ArchiveInv
  <2> QED
    BY <2>1 DEF VisitSound
<1>2. CASE g # h
  <2>1. visit'[g] = visit[g]
    BY <1>2 DEF ArchiveInv
  <2>2. VisitSound(visit[g])
    BY DEF ReviewInv
  <2> QED
    BY <2>1, <2>2, VisitSoundGrows DEF VisitSound
<1> QED
  BY <1>1, <1>2

\* Nothing is passed and no run has been asked for.
LEMMA ReviewInit == AInit => ReviewInv
<1> SUFFICES ASSUME AInit
             PROVE  ReviewInv
  OBVIOUS
<1>1. SoundRow(NoAudit, seals, Reviewed)
  BY DEF SoundRow, NoAudit
<1>2. \A h \in Visits : visit[h] = NoVisit
  BY DEF AInit
<1>3. \A h \in Visits : VisitSound(visit[h])
  BY <1>1, <1>2 DEF VisitSound, NoVisit
<1> QED
  BY <1>1, <1>3 DEF AInit, ReviewInv, NoConfig

\* Every step keeps what is held sound.
LEMMA ReviewNext == ArchiveInv /\ ReviewInv /\ [ANext]_aVars => ReviewInv'
<1> SUFFICES ASSUME ArchiveInv, ReviewInv, [ANext]_aVars
             PROVE  ReviewInv'
  OBVIOUS
<1> USE DEF aBounds, aGhosts
<1>a. ASSUME NEW h \in Visits
      PROVE  /\ visit[h] \in GoodVisit
             /\ VisitSound(visit[h])
  BY DEF ArchiveInv, ReviewInv
<1>b. SoundRow(NoAudit, seals, Reviewed)
  BY DEF SoundRow, NoAudit
<1>c. NoVisit.audit = NoAudit /\ NoVisit.pc = "idle"
  BY DEF NoVisit
<1>d. ASSUME NEW h \in Visits, VisitEnds(h), seals \subseteq seals'
      PROVE  \A g \in Visits : VisitSound(visit[g])'
  <2>1. SoundRow(NoVisit.audit, seals', Reviewed')
    BY <1>c DEF SoundRow, NoAudit
  <2> QED
    BY <1>d, <1>c, <2>1, VisitsSound DEF VisitEnds
<1>e. ASSUME NEW h \in Visits, NEW request, StartVisit(h, request),
             SoundRow(request.audit, seals, Reviewed),
             request.pc = "enqueue" /\ request.door # "once" => Reviewed
      PROVE  ReviewInv'
  <2>1. /\ visit' = [visit EXCEPT ![h] = request]
        /\ UNCHANGED <<config, caudit, job, seals, asked>>
    BY <1>e DEF StartVisit
  <2>2. Reviewed' <=> Reviewed
    BY <2>1 DEF Reviewed, ChainGroups
  <2>3. SoundRow(request.audit, seals', Reviewed')
    BY <1>e, <2>1, <2>2 DEF SoundRow
  <2>4. \A g \in Visits : VisitSound(visit[g])'
    BY <1>e, <2>1, <2>2, <2>3, VisitsSound
  <2> QED
    BY <2>1, <2>2, <2>4 DEF ReviewInv, SoundRow
<1>1. CASE ArchiveApply
  <2>1. create_audit("no") = create_audit("review")
    BY DEF create_audit
  <2>2. SoundRow(create_audit("review"), seals, Reviewed)
    BY CreateSound
  <2>3. caudit' = create_audit("review") /\ config'.status = "waiting"
    BY <1>1, <2>1 DEF ArchiveApply
  <2> QED
    BY <1>1, <2>2, <2>3 DEF ArchiveApply, ReviewInv, Reviewed, VisitSound, SoundRow
<1>2. ASSUME NEW h \in Visits, ArchiveAuditRead(h)
      PROVE  ReviewInv'
  <2>1. PICK action \in WorkflowAction :
          StartVisit(h, [NoVisit EXCEPT !.pc = "decide", !.action = action,
                                        !.audit = caudit, !.copy = config])
    BY <1>2 DEF ArchiveAuditRead
  <2> DEFINE v == [NoVisit EXCEPT !.pc = "decide", !.action = action,
                                  !.audit = caudit, !.copy = config]
  <2>2. v.audit = caudit /\ v.pc = "decide"
    BY DEF NoVisit
  <2> HIDE DEF v
  <2>3. SoundRow(v.audit, seals, Reviewed)
    BY <2>2 DEF ReviewInv
  <2> QED
    BY <2>1, <2>2, <2>3, <1>e DEF v
<1>3. ASSUME NEW h \in Visits, AuditWorkflowVisit(h)
      PROVE  ReviewInv'
  <2> DEFINE v == [NoVisit EXCEPT !.pc = "audit", !.audit = caudit]
  <2>1. StartVisit(h, v)
    BY <1>3 DEF AuditWorkflowVisit
  <2>2. v.audit = caudit /\ v.pc = "audit"
    BY DEF NoVisit
  <2> HIDE DEF v
  <2>3. SoundRow(v.audit, seals, Reviewed)
    BY <2>2 DEF ReviewInv
  <2> QED
    BY <2>1, <2>2, <2>3, <1>e
<1>4. ASSUME NEW h \in Visits, DecideArchive(h)
      PROVE  ReviewInv'
  <2> DEFINE row == operate(visit[h].audit, visit[h].action)
  <2>1. /\ caudit' = row
        /\ config'.status = row.status
        /\ Seal(h) /\ VisitEnds(h)
        /\ UNCHANGED <<job, asked>>
    BY <1>4 DEF DecideArchive
  <2>2. seals \subseteq seals' /\ SoundRow(row, seals', Reviewed')
    BY <1>4, <2>1, DecisionSound DEF DecideArchive, Visiting
  <2> HIDE DEF row
  <2>3. Reviewed => Reviewed'
    BY <2>2 DEF Reviewed, ChainGroups
  <2>4. \A g \in Visits : VisitSound(visit[g])'
    BY <2>1, <2>2, <1>d
  <2>5. config'.status = "passed" => Reviewed'
    BY <2>1, <2>2 DEF SoundRow
  <2>6. SoundRow(caudit, seals, Reviewed)'
    BY <2>1, <2>2 DEF SoundRow
  <2>7. \A r \in Run : job'[r] # "free" /\ asked'[r] # "once" => Reviewed'
    BY <2>1, <2>3 DEF ReviewInv
  <2> QED
    BY <2>4, <2>5, <2>6, <2>7 DEF ReviewInv
<1>5. ASSUME NEW h \in Visits, SaveArchiveAudit(h)
      PROVE  ReviewInv'
  <2> DEFINE row == operate(visit[h].audit, visit[h].action)
             v == [visit[h] EXCEPT !.pc = "columns", !.audit = row]
  <2>1. /\ caudit' = row
        /\ Seal(h)
        /\ visit' = [visit EXCEPT ![h].pc = "columns", ![h].audit = row]
        /\ UNCHANGED <<config, job, asked>>
    BY <1>5 DEF SaveArchiveAudit
  <2>2. seals \subseteq seals' /\ SoundRow(row, seals', Reviewed')
    BY <1>5, <2>1, DecisionSound DEF SaveArchiveAudit, Visiting
  <2> HIDE DEF row
  <2>3. Reviewed => Reviewed'
    BY <2>2 DEF Reviewed, ChainGroups
  <2>4. visit' = [visit EXCEPT ![h] = v] /\ v.audit = row /\ v.pc = "columns"
    BY <2>1, <1>a DEF GoodVisit
  <2> HIDE DEF v
  <2>5. \A g \in Visits : VisitSound(visit[g])'
    BY <2>2, <2>4, VisitsSound
  <2>6. SoundRow(caudit, seals, Reviewed)'
    BY <2>1, <2>2 DEF SoundRow
  <2> QED
    BY <2>1, <2>3, <2>5, <2>6 DEF ReviewInv
<1>6. ASSUME NEW h \in Visits, SaveColumns(h)
      PROVE  ReviewInv'
  <2>1. /\ config'.status = visit[h].audit.status
        /\ VisitEnds(h)
        /\ UNCHANGED <<caudit, job, seals, asked>>
    BY <1>6 DEF SaveColumns
  <2>2. config'.status = "passed" => Reviewed
    BY <2>1, <1>a DEF VisitSound, SoundRow
  <2>3. \A g \in Visits : VisitSound(visit[g])'
    BY <2>1, <1>d
  <2>4. Reviewed' <=> Reviewed
    BY <2>1 DEF Reviewed, ChainGroups
  <2> QED
    BY <2>1, <2>2, <2>3, <2>4 DEF ReviewInv, SoundRow
<1>7. ASSUME NEW h \in Visits, NEW door \in Door, AskForRun(h, door)
      PROVE  ReviewInv'
  <2> DEFINE v == [NoVisit EXCEPT !.pc = "enqueue", !.door = door]
  <2>1. StartVisit(h, v) /\ (door # "once" => MayArchive)
    BY <1>7 DEF AskForRun, Door
  <2>2. v.audit = NoAudit /\ v.door = door
    BY DEF NoVisit
  <2> HIDE DEF v
  <2>3. v.door # "once" => Reviewed
    BY <2>1, <2>2 DEF MayArchive, ReviewInv
  <2> QED
    BY <2>1, <2>2, <2>3, <1>b, <1>e
<1>8. ASSUME NEW h \in Visits, EnqueueArchive(h)
      PROVE  ReviewInv'
  <2>1. PICK r \in Run : /\ job' = [job EXCEPT ![r] = "queued"]
                         /\ asked' = [asked EXCEPT ![r] = visit[h].door]
    BY <1>8 DEF EnqueueArchive
  <2>2. /\ visit[h].pc = "enqueue" /\ VisitEnds(h)
        /\ UNCHANGED <<config, caudit, seals>>
    BY <1>8 DEF EnqueueArchive, Visiting
  <2>3. visit[h].door # "once" => Reviewed
    BY <2>2, <1>a DEF VisitSound
  <2>4. \A s \in Run : job'[s] # "free" /\ asked'[s] # "once" => Reviewed
    <3> SUFFICES ASSUME NEW s \in Run, job'[s] # "free", asked'[s] # "once"
                 PROVE  Reviewed
      OBVIOUS
    <3>1. CASE s = r
      BY <2>1, <2>3, <3>1 DEF ArchiveInv
    <3>2. CASE s # r
      BY <2>1, <3>2 DEF ArchiveInv, ReviewInv
    <3> QED
      BY <3>1, <3>2
  <2>5. Reviewed' <=> Reviewed
    BY <2>2 DEF Reviewed, ChainGroups
  <2>6. \A g \in Visits : VisitSound(visit[g])'
    BY <2>2, <1>d
  <2> QED
    BY <2>2, <2>4, <2>5, <2>6 DEF ReviewInv, SoundRow
<1>9. ASSUME NEW h \in Visits, VisitDies(h)
      PROVE  ReviewInv'
  <2>1. VisitEnds(h) /\ UNCHANGED <<config, caudit, job, seals, asked>>
    BY <1>9 DEF VisitDies
  <2>2. \A g \in Visits : VisitSound(visit[g])'
    BY <2>1, <1>d
  <2>3. Reviewed' <=> Reviewed
    BY <2>1 DEF Reviewed, ChainGroups
  <2> QED
    BY <2>1, <2>2, <2>3 DEF ReviewInv, SoundRow
<1>10. CASE ArchiveSwitch
  <2>1. /\ config'.status = config.status
        /\ UNCHANGED <<caudit, visit, job, seals, asked>>
    BY <1>10 DEF ArchiveSwitch, ArchiveInv, Config
  <2> QED
    BY <2>1 DEF ReviewInv, Reviewed, VisitSound, SoundRow
<1>11. ASSUME NEW r \in Run, ArchiveRuns(r)
       PROVE  ReviewInv'
  <2>1. /\ job[r] = "queued" /\ job' = [job EXCEPT ![r] = "ran"]
        /\ UNCHANGED <<config, caudit, visit, seals, asked>>
    BY <1>11 DEF ArchiveRuns
  <2>2. \A s \in Run : job'[s] # "free" => job[s] # "free"
    BY <2>1 DEF ArchiveInv
  <2> QED
    BY <2>1, <2>2 DEF ReviewInv, Reviewed, VisitSound, SoundRow
<1>12. CASE UNCHANGED aVars
  BY <1>12 DEF aVars, ReviewInv, Reviewed, VisitSound, SoundRow
<1> QED
  BY <1>1, <1>2, <1>3, <1>4, <1>5, <1>6, <1>7, <1>8, <1>9, <1>10, <1>11, <1>12 DEF ANext

\* A run of pt-archiver that was asked for by ExecuteWorkflow or by the schedule moves rows
\* only when every group of the chain has passed the configuration: whatever copies two
\* doors write back, whichever requests die, and however the switch is turned.
THEOREM RunsAreReviewed == ASpec => []CheckedRunsAreReviewed
<1>1. ReviewInv => CheckedRunsAreReviewed
  BY DEF ReviewInv, Reviewed, CheckedRunsAreReviewed
<1>2. ASpec => [](ArchiveInv /\ ReviewInv)
  BY ArchiveInit, ArchiveNext, ReviewInit, ReviewNext, PTL DEF ASpec
<1> QED
  BY <1>1, <1>2, PTL


-----------------------------------------------------------------------------
(* The reload: a process has one reload at a time, which holds its lock,   *)
(* and while no two processes have reloaded at a time there is one at all. *)

HoldsLock ==
  \A h \in Admins : InReload(h) => rq[h].proc \in Procs /\ lock[rq[h].proc]

OnePerProcess ==
  \A g, h \in Admins : InReload(g) /\ InReload(h) /\ rq[g].proc = rq[h].proc => g = h

ReloadsAlone ==
  ~ mixed => \A g, h \in Admins : InReload(g) /\ InReload(h) => g = h

AsksSomewhere == \A h \in Admins : rq[h].pc \in {"params", "ask"} => rq[h].proc \in Procs

LockInv == ReloadTypeOK /\ HoldsLock /\ OnePerProcess /\ ReloadsAlone /\ AsksSomewhere

LEMMA KeysFacts ==
  /\ "" \in Values \cup {""}
  /\ \A p \in auth_provider : EnvKeysOf(p) \subseteq Keys
  /\ EnvKeysOf("local") = {}
BY DEF EnvKeysOf, Keys, AUTH_PROVIDER_KEYS, InEnv, auth_provider

LEMMA LinesFacts ==
  /\ NoLines \in Lines
  /\ \A e \in Lines, b \in Lines : read_env(e, b) \in Lines
  /\ \A cfg \in AuthConfig : _build_managed_block(cfg) \in Lines
  /\ \A e \in Lines, cfg \in AuthConfig : _apply_to_environ(e, cfg) \in Lines
<1>1. NoLines \in Lines
  BY DEF NoLines, Lines, auth_provider
<1>2. ASSUME NEW e \in Lines, NEW b \in Lines PROVE read_env(e, b) \in Lines
  BY DEF read_env, Lines, auth_provider
<1>3. ASSUME NEW cfg \in AuthConfig PROVE _build_managed_block(cfg) \in Lines
  BY DEF _build_managed_block, Lines, AuthConfig
<1>4. ASSUME NEW e \in Lines, NEW cfg \in AuthConfig PROVE _apply_to_environ(e, cfg) \in Lines
  BY DEF _apply_to_environ, Lines, AuthConfig
<1> QED
  BY <1>1, <1>2, <1>3, <1>4

LEMMA SettingsFacts ==
  /\ NewModule \in Settings
  /\ \A s \in Settings, e \in Lines : Evaluate(s, e) \in Settings
<1>1. NewModule \in Settings
  BY DEF NewModule, Settings, auth_provider, NoLines
<1>2. ASSUME NEW s \in Settings, NEW e \in Lines PROVE Evaluate(s, e) \in Settings
  <2>1. WayOf(e) \in auth_provider /\ "local" \in auth_provider /\ s.kept \in auth_provider
    BY DEF WayOf, Settings, Lines, auth_provider
  <2> QED
    BY <2>1 DEF Evaluate, Settings, Lines
<1> QED
  BY <1>1, <1>2

LEMMA FilesFacts ==
  /\ Truncated \in EnvFile
  /\ NoAuthConfig \in AuthConfig
  /\ NoRequest \in Admin
  /\ \A file \in EnvFile : file.block \in Lines
<1>1. Truncated \in EnvFile
  BY LinesFacts DEF Truncated, EnvFile
<1>2. NoAuthConfig \in AuthConfig
  BY DEF NoAuthConfig, AuthConfig, NoLines, auth_provider
<1>3. NoRequest \in Admin
  BY <1>1, <1>2, LinesFacts DEF NoRequest, Admin
<1>4. \A file \in EnvFile : file.block \in Lines
  BY DEF EnvFile
<1> QED
  BY <1>1, <1>2, <1>3, <1>4

LEMMA LockInit == ReloadInit => LockInv
<1> SUFFICES ASSUME ReloadInit PROVE LockInv
  OBVIOUS
<1>1. \A h \in Admins : rq[h].pc = "idle"
  BY DEF ReloadInit, NoRequest
<1>2. [user |-> TRUE, block |-> NoLines] \in EnvFile
  BY LinesFacts DEF EnvFile
<1>3. ReloadTypeOK
  <2>1. auth_config \in AuthConfig /\ envFile \in EnvFile
    BY <1>2, FilesFacts DEF ReloadInit
  <2>2. environ \in [Procs -> Lines] /\ settings \in [Procs -> Settings] /\ lock \in [Procs -> BOOLEAN]
    BY LinesFacts, SettingsFacts DEF ReloadInit
  <2>3. rq \in [Admins -> Admin]
    BY FilesFacts DEF ReloadInit
  <2>4. saves \in 0..MaxSaves /\ breaks \in 0..MaxBreaks
    <3>1. saves = 0 /\ breaks = 0
      BY DEF ReloadInit
    <3>2. MaxSaves \in Nat /\ MaxBreaks \in Nat
      BY ReloadAssumption
    <3> QED
      BY <3>1, <3>2
  <2>5. mixed \in BOOLEAN
    BY Zenon DEF ReloadInit
  <2> QED
    BY <2>1, <2>2, <2>3, <2>4, <2>5 DEF ReloadTypeOK
<1> QED
  BY <1>1, <1>3 DEF LockInv, HoldsLock, OnePerProcess, ReloadsAlone, AsksSomewhere, InReload

-----------------------------------------------------------------------------
(* Steps.                                                                  *)

\* A request goes from where it is to new, and all others stay.
Goes(h, new) == new \in Admin /\ rq' = [rq EXCEPT ![h] = new]

LEMMA GoesFacts ==
  ASSUME ReloadTypeOK, NEW h \in Admins, NEW new, Goes(h, new)
  PROVE  rq' \in [Admins -> Admin] /\ rq'[h] = new /\ \A g \in Admins : g # h => rq'[g] = rq[g]
BY DEF Goes, ReloadTypeOK

LEMMA FieldsGo ==
  ASSUME ReloadTypeOK, NEW h \in Admins, NEW pc, Goto(h, pc),
         pc \in {"read", "open", "write", "apply", "settings", "reopen", "rewrite", "again"}
  PROVE  Goes(h, [rq[h] EXCEPT !.pc = pc])
BY DEF Goes, Goto, ReloadTypeOK, Admin

\* Within a reload, and to the first step of one.
LEMMA StaysAlone ==
  ASSUME LockInv, NEW h \in Admins, InReload(h), NEW new, Goes(h, new),
         new.proc = rq[h].proc, new.pc \notin {"idle", "params", "ask"}, lock' = lock, mixed' = mixed
  PROVE  HoldsLock' /\ OnePerProcess' /\ ReloadsAlone' /\ AsksSomewhere'
<1>1. rq'[h] = new /\ \A g \in Admins : g # h => rq'[g] = rq[g]
  BY GoesFacts DEF LockInv
<1>2. \A g \in Admins : rq'[g].proc = rq[g].proc /\ (InReload(g)' <=> InReload(g))
  BY <1>1 DEF InReload
<1>3. \A g \in Admins : rq'[g].pc \in {"params", "ask"} => rq[g].pc \in {"params", "ask"}
  BY <1>1
<1> QED
  BY <1>2, <1>3 DEF LockInv, HoldsLock, OnePerProcess, ReloadsAlone, AsksSomewhere

LEMMA OutsideAlone ==
  ASSUME LockInv, NEW h \in Admins, ~ InReload(h), NEW new, Goes(h, new),
         new.pc \in {"idle", "params", "ask"}, new.pc # "idle" => new.proc \in Procs, lock' = lock, mixed' = mixed
  PROVE  HoldsLock' /\ OnePerProcess' /\ ReloadsAlone' /\ AsksSomewhere'
<1>1. rq'[h] = new /\ \A g \in Admins : g # h => rq'[g] = rq[g]
  BY GoesFacts DEF LockInv
<1>2. \A g \in Admins : (InReload(g)' <=> InReload(g)) /\ (InReload(g) => rq'[g].proc = rq[g].proc)
  BY <1>1 DEF InReload
<1> QED
  BY <1>1, <1>2 DEF LockInv, HoldsLock, OnePerProcess, ReloadsAlone, AsksSomewhere

LEMMA EndsAlone ==
  ASSUME LockInv, NEW h \in Admins, InReload(h), NEW new, Goes(h, new), new.pc = "idle",
         lock' = [lock EXCEPT ![rq[h].proc] = FALSE], mixed' = mixed
  PROVE  HoldsLock' /\ OnePerProcess' /\ ReloadsAlone' /\ AsksSomewhere'
<1>1. rq'[h] = new /\ \A g \in Admins : g # h => rq'[g] = rq[g]
  BY GoesFacts DEF LockInv
<1>2. \A g \in Admins : InReload(g)' => g # h /\ InReload(g) /\ rq'[g] = rq[g]
  BY <1>1 DEF InReload
<1>3. \A g \in Admins : g # h /\ InReload(g) => rq[g].proc # rq[h].proc
  BY DEF LockInv, OnePerProcess
<1>4. HoldsLock'
  BY <1>2, <1>3 DEF LockInv, HoldsLock, ReloadTypeOK
<1>5. AsksSomewhere'
  BY <1>1 DEF LockInv, AsksSomewhere
<1> QED
  BY <1>2, <1>4, <1>5 DEF LockInv, OnePerProcess, ReloadsAlone


\* An answer leaves the reload and frees the lock of its process.
LEMMA AnswerGoes ==
  ASSUME ReloadTypeOK, NEW h \in Admins, NEW answer \in {"failed", "ok", "rolled back"}, Answer(h, answer)
  PROVE  Goes(h, [NoRequest EXCEPT !.answer = answer]) /\ lock' \in [Procs -> BOOLEAN]
<1>1. [NoRequest EXCEPT !.answer = answer] \in Admin
  BY FilesFacts DEF Admin
<1> QED
  BY <1>1 DEF Answer, Goes, ReloadTypeOK

LEMMA ReevaluateTypes ==
  ASSUME ReloadTypeOK, NEW p \in Procs, Reevaluate(p)
  PROVE  environ' \in [Procs -> Lines] /\ settings' \in [Procs -> Settings]
<1>1. environ[p] \in Lines /\ envFile.block \in Lines /\ settings[p] \in Settings
  BY FilesFacts DEF ReloadTypeOK
<1> DEFINE e == read_env(environ[p], envFile.block)
<1>2. e \in Lines
  BY <1>1, LinesFacts
<1>3. Evaluate(settings[p], e) \in Settings
  BY <1>1, <1>2, SettingsFacts
<1>4. environ' = [environ EXCEPT ![p] = e] /\ settings' = [settings EXCEPT ![p] = Evaluate(settings[p], e)]
  BY DEF Reevaluate, EnvRead
<1> HIDE DEF e
<1> QED
  BY <1>2, <1>3, <1>4 DEF ReloadTypeOK

\* A module that raises may leave its backends changed and nothing else.
LEMMA HalfTypes ==
  ASSUME ReloadTypeOK, NEW p \in Procs, NEW broken \in BOOLEAN, HalfEvaluated(p, broken)
  PROVE  /\ settings' \in [Procs -> Settings]
         /\ \A q \in Procs : q # p => settings'[q] = settings[q]
         /\ SameLogin(settings'[p], settings[p]) /\ settings'[p].backend = settings[p].backend
         /\ settings'[p].broken = broken
<1>1. environ[p] \in Lines /\ envFile.block \in Lines /\ settings[p] \in Settings
  BY FilesFacts DEF ReloadTypeOK
<1>2. EnvRead(p) \in Lines
  BY <1>1, LinesFacts DEF EnvRead
<1>3. Evaluate(settings[p], EnvRead(p)) \in Settings
  BY <1>1, <1>2, SettingsFacts
<1>4. PICK kept \in {settings[p].kept, Evaluate(settings[p], EnvRead(p)).kept} :
        settings' = [settings EXCEPT ![p] = [settings[p] EXCEPT !.kept = kept, !.broken = broken]]
  <2>1. PICK k \in {settings[p].kept, Evaluate(settings[p], EnvRead(p)).kept} :
          settings' = [settings EXCEPT ![p].kept = k, ![p].broken = broken]
    BY DEF HalfEvaluated
  <2>2. [settings EXCEPT ![p].kept = k, ![p].broken = broken]
          = [settings EXCEPT ![p] = [settings[p] EXCEPT !.kept = k, !.broken = broken]]
    BY <1>1 DEF ReloadTypeOK, Settings
  <2> QED
    BY <2>1, <2>2
<1>5. kept \in auth_provider
  BY <1>1, <1>3 DEF Settings
<1>6. [settings[p] EXCEPT !.kept = kept, !.broken = broken] \in Settings
  BY <1>1, <1>5 DEF Settings
<1>7. settings' \in [Procs -> Settings] /\ \A q \in Procs : q # p => settings'[q] = settings[q]
  BY <1>4, <1>6 DEF ReloadTypeOK
<1>8. settings'[p] = [settings[p] EXCEPT !.kept = kept, !.broken = broken]
  BY <1>4 DEF ReloadTypeOK
<1> QED
  BY <1>1, <1>7, <1>8 DEF SameLogin, Settings

LEMMA LockNext ==
  LockInv /\ [ReloadNext]_reloadVars => LockInv'
<1> SUFFICES ASSUME LockInv, [ReloadNext]_reloadVars PROVE LockInv'
  OBVIOUS
<1>a. ReloadTypeOK
  BY DEF LockInv
<1>b. \A h \in Admins :
        /\ rq[h] \in Admin
        /\ (InReload(h) => rq[h].proc \in Procs)
        /\ (rq[h].pc \in {"params", "ask"} => rq[h].proc \in Procs)
  BY DEF LockInv, ReloadTypeOK, HoldsLock, AsksSomewhere
<1>1. ASSUME NEW h \in Admins, NEW p \in Procs, SaveProvider(h, p) PROVE LockInv'
  <2>1. PICK provider \in auth_provider : auth_config' = [auth_config EXCEPT !.provider = provider]
    BY <1>1 DEF SaveProvider
  <2>2. auth_config' \in AuthConfig
    BY <2>1, <1>a DEF ReloadTypeOK, AuthConfig
  <2> DEFINE new == [NoRequest EXCEPT !.proc = p, !.pc = "params", !.cfg = auth_config']
  <2>3. new \in Admin /\ new.pc = "params" /\ new.proc = p
    BY <2>2, FilesFacts, LinesFacts DEF NoRequest, Admin
  <2>4. rq' = [rq EXCEPT ![h] = new]
    BY <1>1 DEF SaveProvider
  <2> HIDE DEF new
  <2>5. Goes(h, new) /\ ~ InReload(h)
    BY <2>3, <2>4, <1>1 DEF Goes, SaveProvider, At, InReload
  <2>6. HoldsLock' /\ OnePerProcess' /\ ReloadsAlone' /\ AsksSomewhere'
    BY <2>3, <2>5, <1>1, OutsideAlone DEF SaveProvider
  <2>7. saves' \in 0..MaxSaves
    <3>1. saves < MaxSaves /\ saves' = saves + 1
      BY <1>1 DEF SaveProvider
    <3>2. saves \in 0..MaxSaves /\ MaxSaves \in Nat
      BY <1>a, ReloadAssumption DEF ReloadTypeOK
    <3> QED
      BY <3>1, <3>2
  <2>8. rq' \in [Admins -> Admin]
    BY <2>5, <1>a, GoesFacts
  <2> QED
    BY <2>2, <2>6, <2>7, <2>8, <1>1, <1>a DEF SaveProvider, LockInv, ReloadTypeOK
<1>2. ASSUME NEW h \in Admins, NEW p \in Procs, AskReload(h, p) PROVE LockInv'
  <2> DEFINE new == [NoRequest EXCEPT !.proc = p, !.pc = "ask"]
  <2>3. new \in Admin /\ new.pc = "ask" /\ new.proc = p
    BY FilesFacts, LinesFacts DEF NoRequest, Admin
  <2>4. rq' = [rq EXCEPT ![h] = new]
    BY <1>2 DEF AskReload
  <2> HIDE DEF new
  <2>5. Goes(h, new) /\ ~ InReload(h)
    BY <2>3, <2>4, <1>2 DEF Goes, AskReload, At, InReload
  <2>6. HoldsLock' /\ OnePerProcess' /\ ReloadsAlone' /\ AsksSomewhere'
    BY <2>3, <2>5, <1>2, OutsideAlone DEF AskReload
  <2>8. rq' \in [Admins -> Admin]
    BY <2>5, <1>a, GoesFacts
  <2> QED
    BY <2>6, <2>8, <1>2, <1>a DEF AskReload, LockInv, ReloadTypeOK
<1>3. ASSUME NEW h \in Admins, SaveParams(h) PROVE LockInv'
  <2> DEFINE keys == AUTH_PROVIDER_KEYS[rq[h].cfg.provider]
  <2>1. PICK v \in Values \cup {""} :
           auth_config' = [auth_config EXCEPT !.val = [k \in Keys |->
             IF k \in keys /\ ~ (v = "" /\ k \in Secrets) THEN v ELSE @[k]]]
    BY <1>3 DEF SaveParams
  <2>2. auth_config' \in AuthConfig
    <3> HIDE DEF keys
    <3> QED
      BY <2>1, <1>a DEF ReloadTypeOK, AuthConfig
  <2>3. PICK new : /\ new \in {NoRequest, [NoRequest EXCEPT !.proc = rq[h].proc, !.pc = "ask"]}
                   /\ rq' = [rq EXCEPT ![h] = new]
    BY <1>3 DEF SaveParams
  <2>4. /\ [NoRequest EXCEPT !.proc = rq[h].proc, !.pc = "ask"] \in Admin
        /\ [NoRequest EXCEPT !.proc = rq[h].proc, !.pc = "ask"].proc = rq[h].proc
        /\ [NoRequest EXCEPT !.proc = rq[h].proc, !.pc = "ask"].pc = "ask"
        /\ rq[h].pc = "params"
    BY <1>3, <1>b, FilesFacts, LinesFacts DEF NoRequest, Admin, SaveParams, At
  <2>5. Goes(h, new) /\ ~ InReload(h) /\ new.pc \in {"idle", "ask"} /\ (new.pc # "idle" => new.proc \in Procs)
    <3>1. CASE new = NoRequest
      BY <3>1, <2>3, <2>4, FilesFacts DEF Goes, InReload, NoRequest
    <3>2. CASE new # NoRequest
      BY <3>2, <2>3, <2>4, <1>b DEF Goes, InReload
    <3> QED
      BY <3>1, <3>2
  <2>6. HoldsLock' /\ OnePerProcess' /\ ReloadsAlone' /\ AsksSomewhere'
    BY <2>5, <1>3, OutsideAlone DEF SaveParams
  <2>8. rq' \in [Admins -> Admin]
    BY <2>5, <1>a, GoesFacts
  <2> QED
    BY <2>2, <2>6, <2>8, <1>3, <1>a DEF SaveParams, LockInv, ReloadTypeOK
<1>4. ASSUME NEW h \in Admins, Busy(h) PROVE LockInv'
  <2> DEFINE new == [NoRequest EXCEPT !.answer = "busy"]
  <2>1. new \in Admin /\ new.pc = "idle"
    BY FilesFacts DEF NoRequest, Admin
  <2>2. rq' = [rq EXCEPT ![h] = new]
    BY <1>4 DEF Busy
  <2> HIDE DEF new
  <2>3. Goes(h, new) /\ ~ InReload(h)
    BY <2>1, <2>2, <1>4 DEF Goes, Busy, At, InReload
  <2>4. HoldsLock' /\ OnePerProcess' /\ ReloadsAlone' /\ AsksSomewhere'
    BY <2>1, <2>3, <1>4, OutsideAlone DEF Busy
  <2>5. rq' \in [Admins -> Admin]
    BY <2>3, <1>a, GoesFacts
  <2> QED
    BY <2>4, <2>5, <1>4, <1>a DEF Busy, LockInv, ReloadTypeOK
<1>5. ASSUME NEW h \in Admins, Begin(h) PROVE LockInv'
  <2> DEFINE p == rq[h].proc
             new == [rq[h] EXCEPT !.pc = "read", !.cfg = auth_config]
  <2>1. rq[h].pc = "ask" /\ p \in Procs /\ ~ InReload(h)
    BY <1>5, <1>b DEF Begin, At, InReload
  <2>2. new \in Admin /\ new.pc = "read" /\ new.proc = p
    BY <1>a, <1>b DEF ReloadTypeOK, Admin
  <2>3. /\ rq' = [rq EXCEPT ![h] = new] /\ ~ lock[p] /\ lock' = [lock EXCEPT ![p] = TRUE]
        /\ mixed' = (mixed \/ \E q \in Procs : lock[q])
        /\ UNCHANGED <<auth_config, envFile, environ, settings, saves, breaks>>
    BY <1>5, <1>a DEF Begin, ReloadTypeOK
  <2> HIDE DEF new, p
  <2>4. rq' \in [Admins -> Admin] /\ rq'[h] = new /\ \A g \in Admins : g # h => rq'[g] = rq[g]
    BY <2>2, <2>3, <1>a, GoesFacts DEF Goes
  <2>5. \A g \in Admins : InReload(g) => rq[g].proc # p
    BY <2>3 DEF LockInv, HoldsLock
  <2>6. \A g \in Admins : g # h => (InReload(g)' <=> InReload(g)) /\ rq'[g].proc = rq[g].proc
    BY <2>4 DEF InReload
  <2>7. HoldsLock'
    BY <2>1, <2>2, <2>3, <2>4, <2>6, <1>a DEF LockInv, HoldsLock, ReloadTypeOK
  <2>8. OnePerProcess'
    BY <2>2, <2>4, <2>5, <2>6 DEF LockInv, OnePerProcess
  <2>9. ReloadsAlone'
    <3> SUFFICES ASSUME ~ mixed', NEW g \in Admins, InReload(g)' PROVE g = h
      BY DEF ReloadsAlone
    <3>1. \A q \in Procs : ~ lock[q]
      BY <2>3
    <3> QED
      BY <3>1, <2>6 DEF LockInv, HoldsLock
  <2>10. AsksSomewhere'
    BY <2>2, <2>4 DEF LockInv, AsksSomewhere
  <2>11. lock' \in [Procs -> BOOLEAN]
    BY <2>3, <1>a DEF ReloadTypeOK
  <2>12. mixed' \in BOOLEAN
    BY <2>3, Zenon
  <2> QED
    BY <2>3, <2>4, <2>7, <2>8, <2>9, <2>10, <2>11, <2>12, <1>a DEF LockInv, ReloadTypeOK
<1>6. ASSUME NEW h \in Admins, ReadEnv(h) PROVE LockInv'
  <2> DEFINE new == [rq[h] EXCEPT !.pc = "open", !.original = envFile]
  <2>1. new \in Admin /\ new.pc = "open" /\ new.proc = rq[h].proc
    BY <1>a, <1>b DEF ReloadTypeOK, Admin
  <2>2. rq' = [rq EXCEPT ![h] = new]
    BY <1>6, <1>a DEF ReadEnv, ReloadTypeOK
  <2> HIDE DEF new
  <2>3. Goes(h, new) /\ InReload(h)
    BY <2>1, <2>2, <1>6 DEF Goes, ReadEnv, At, InReload
  <2>4. HoldsLock' /\ OnePerProcess' /\ ReloadsAlone' /\ AsksSomewhere'
    BY <2>1, <2>3, <1>6, StaysAlone DEF ReadEnv
  <2>5. rq' \in [Admins -> Admin]
    BY <2>3, <1>a, GoesFacts
  <2> QED
    BY <2>4, <2>5, <1>6, <1>a DEF ReadEnv, LockInv, ReloadTypeOK
<1>7. ASSUME NEW h \in Admins, WriteEnv(h) PROVE LockInv'
  <2> DEFINE new == [rq[h] EXCEPT !.pc = "apply", !.snap = environ[rq[h].proc]]
  <2>0. InReload(h)
    BY <1>7 DEF WriteEnv, At, InReload
  <2>6. environ[rq[h].proc] \in Lines
    BY <2>0, <1>a, <1>b DEF ReloadTypeOK
  <2>1. new \in Admin /\ new.pc = "apply" /\ new.proc = rq[h].proc
    BY <2>6, <1>b DEF Admin
  <2>2. rq' = [rq EXCEPT ![h] = new]
    BY <1>7, <1>a DEF WriteEnv, ReloadTypeOK
  <2> HIDE DEF new
  <2>3. Goes(h, new)
    BY <2>1, <2>2 DEF Goes
  <2>4. HoldsLock' /\ OnePerProcess' /\ ReloadsAlone' /\ AsksSomewhere'
    BY <2>0, <2>1, <2>3, <1>7, StaysAlone DEF WriteEnv
  <2>5. rq' \in [Admins -> Admin]
    BY <2>3, <1>a, GoesFacts
  <2>7. envFile' \in EnvFile
    <3>1. rq[h].original \in EnvFile /\ rq[h].cfg \in AuthConfig
      BY <1>b DEF Admin
    <3>2. _build_managed_block(rq[h].cfg) \in Lines
      BY <3>1, LinesFacts
    <3> QED
      BY <3>1, <3>2, <1>7 DEF WriteEnv, EnvFile
  <2> QED
    BY <2>4, <2>5, <2>7, <1>7, <1>a DEF WriteEnv, LockInv, ReloadTypeOK
<1>8. ASSUME NEW h \in Admins, OpenEnv(h) \/ ReopenEnv(h) \/ RestoreEnv(h) PROVE LockInv'
  <2>1. PICK pc \in {"write", "rewrite", "again"} : Goto(h, pc)
    BY <1>8 DEF OpenEnv, ReopenEnv, RestoreEnv
  <2> DEFINE new == [rq[h] EXCEPT !.pc = pc]
  <2>2. Goes(h, new) /\ new.pc = pc /\ new.proc = rq[h].proc
    BY <2>1, <1>a, <1>b, FieldsGo DEF Admin
  <2>3. InReload(h) /\ lock' = lock /\ mixed' = mixed
    BY <1>8 DEF OpenEnv, ReopenEnv, RestoreEnv, At, InReload
  <2>4. envFile' \in EnvFile
    BY <1>8, <1>b, FilesFacts DEF OpenEnv, ReopenEnv, RestoreEnv, Admin
  <2> HIDE DEF new
  <2>5. HoldsLock' /\ OnePerProcess' /\ ReloadsAlone' /\ AsksSomewhere'
    BY <2>1, <2>2, <2>3, StaysAlone
  <2>6. rq' \in [Admins -> Admin]
    BY <2>2, <1>a, GoesFacts
  <2>7. UNCHANGED <<auth_config, environ, settings, saves, breaks>>
    BY <1>8 DEF OpenEnv, ReopenEnv, RestoreEnv
  <2> QED
    BY <2>3, <2>4, <2>5, <2>6, <2>7, <1>a DEF LockInv, ReloadTypeOK
<1>9. ASSUME NEW h \in Admins, Apply(h) PROVE LockInv'
  <2>1. InReload(h) /\ mixed' = mixed
    BY <1>9 DEF Apply, At, InReload
  <2>2. environ' \in [Procs -> Lines]
    <3>1. environ[rq[h].proc] \in Lines /\ rq[h].cfg \in AuthConfig
      BY <2>1, <1>a, <1>b DEF ReloadTypeOK, Admin
    <3>2. _apply_to_environ(environ[rq[h].proc], rq[h].cfg) \in Lines
      BY <3>1, LinesFacts
    <3> QED
      BY <3>2, <1>9, <1>a DEF Apply, ReloadTypeOK
  <2>3. UNCHANGED <<auth_config, envFile, settings, saves, breaks>>
    BY <1>9 DEF Apply
  <2>4. /\ HoldsLock' /\ OnePerProcess' /\ ReloadsAlone' /\ AsksSomewhere'
        /\ rq' \in [Admins -> Admin] /\ lock' \in [Procs -> BOOLEAN]
    <3>1. CASE Answer(h, "failed")
      <4> DEFINE new == [NoRequest EXCEPT !.answer = "failed"]
      <4>1. Goes(h, new) /\ lock' \in [Procs -> BOOLEAN]
        BY <3>1, <1>a, AnswerGoes
      <4>2. new.pc = "idle"
        BY DEF NoRequest
      <4> HIDE DEF new
      <4> QED
        BY <4>1, <4>2, <2>1, <3>1, <1>a, EndsAlone, GoesFacts DEF Answer
    <3>2. CASE Goto(h, "settings") /\ UNCHANGED lock
      <4> DEFINE new == [rq[h] EXCEPT !.pc = "settings"]
      <4>1. Goes(h, new) /\ new.pc = "settings" /\ new.proc = rq[h].proc
        BY <3>2, <1>a, <1>b, FieldsGo DEF Admin
      <4> HIDE DEF new
      <4> QED
        BY <4>1, <2>1, <3>2, <1>a, StaysAlone, GoesFacts DEF ReloadTypeOK
    <3> QED
      BY <3>1, <3>2, <1>9 DEF Apply
  <2> QED
    BY <2>1, <2>2, <2>3, <2>4, <1>a DEF LockInv, ReloadTypeOK
<1>10. ASSUME NEW h \in Admins, NEW answer \in {"ok", "rolled back"}, Answer(h, answer), InReload(h), mixed' = mixed,
              UNCHANGED <<auth_config, envFile, saves>>, breaks' \in 0..MaxBreaks,
              environ' \in [Procs -> Lines], settings' \in [Procs -> Settings]
       PROVE  LockInv'
  <2> DEFINE new == [NoRequest EXCEPT !.answer = answer]
  <2>1. Goes(h, new) /\ lock' \in [Procs -> BOOLEAN]
    BY <1>10, <1>a, AnswerGoes
  <2>2. new.pc = "idle"
    BY DEF NoRequest
  <2> HIDE DEF new
  <2>4. HoldsLock' /\ OnePerProcess' /\ ReloadsAlone' /\ AsksSomewhere'
    BY <2>1, <2>2, <1>10, EndsAlone DEF Answer
  <2>5. rq' \in [Admins -> Admin]
    BY <2>1, <1>a, GoesFacts
  <2> QED
    BY <2>1, <2>4, <2>5, <1>10, <1>a DEF LockInv, ReloadTypeOK
<1>11. ASSUME NEW h \in Admins, ReloadSettings(h) PROVE LockInv'
  <2>1. breaks' \in 0..MaxBreaks /\ InReload(h)
    BY <1>11, <1>a DEF ReloadSettings, ReloadTypeOK, At, InReload
  <2>2. environ' \in [Procs -> Lines] /\ settings' \in [Procs -> Settings]
    BY <2>1, <1>11, <1>a, <1>b, ReevaluateTypes DEF ReloadSettings
  <2> QED
    BY <2>1, <2>2, <1>10, <1>11 DEF ReloadSettings
<1>12. ASSUME NEW h \in Admins, ReloadAgain(h) PROVE LockInv'
  <2>1. InReload(h)
    BY <1>12 DEF ReloadAgain, At, InReload
  <2>2. breaks' \in 0..MaxBreaks
    <3>1. breaks' = breaks \/ (breaks < MaxBreaks /\ breaks' = breaks + 1)
      BY <1>12 DEF ReloadAgain
    <3>2. breaks \in 0..MaxBreaks /\ MaxBreaks \in Nat
      BY <1>a, ReloadAssumption DEF ReloadTypeOK
    <3> QED
      BY <3>1, <3>2
  <2>3. environ' \in [Procs -> Lines] /\ settings' \in [Procs -> Settings]
    <3>1. CASE Reevaluate(rq[h].proc)
      BY <2>1, <3>1, <1>a, <1>b, ReevaluateTypes
    <3>2. CASE /\ HalfEvaluated(rq[h].proc, TRUE)
               /\ environ' \in {environ, [environ EXCEPT ![rq[h].proc] = EnvRead(rq[h].proc)]}
      <4>1. rq[h].proc \in Procs
        BY <2>1, <1>b
      <4>2. EnvRead(rq[h].proc) \in Lines
        BY <4>1, <1>a, FilesFacts, LinesFacts DEF EnvRead, ReloadTypeOK
      <4>3. environ' \in [Procs -> Lines]
        BY <3>2, <4>2, <1>a DEF ReloadTypeOK
      <4> QED
        BY <3>2, <4>1, <4>3, <1>a, HalfTypes
    <3> QED
      BY <3>1, <3>2, <1>12 DEF ReloadAgain
  <2> QED
    BY <2>1, <2>2, <2>3, <1>10, <1>12 DEF ReloadAgain
<1>13. ASSUME NEW h \in Admins, SettingsRaise(h) PROVE LockInv'
  <2> DEFINE new == [rq[h] EXCEPT !.pc = "reopen"]
  <2>1. InReload(h) /\ Goto(h, "reopen") /\ UNCHANGED <<auth_config, envFile, lock, saves, mixed>>
    BY <1>13 DEF SettingsRaise, At, InReload
  <2>7. settings' \in [Procs -> Settings]
    <3>1. PICK p \in Procs : p = rq[h].proc
      BY <2>1, <1>b
    <3>2. settings[p].broken \in BOOLEAN /\ HalfEvaluated(p, settings[p].broken)
      BY <3>1, <1>13, <1>a DEF SettingsRaise, ReloadTypeOK, Settings
    <3> QED
      BY <3>2, <1>a, HalfTypes
  <2>2. Goes(h, new) /\ new.pc = "reopen" /\ new.proc = rq[h].proc
    BY <2>1, <1>a, <1>b, FieldsGo DEF Admin
  <2>3. environ' \in [Procs -> Lines]
    BY <1>13, <1>a, <1>b DEF SettingsRaise, ReloadTypeOK, Admin
  <2>4. breaks' \in 0..MaxBreaks
    <3>1. breaks < MaxBreaks /\ breaks' = breaks + 1
      BY <1>13 DEF SettingsRaise
    <3>2. breaks \in 0..MaxBreaks /\ MaxBreaks \in Nat
      BY <1>a, ReloadAssumption DEF ReloadTypeOK
    <3> QED
      BY <3>1, <3>2
  <2> HIDE DEF new
  <2>5. HoldsLock' /\ OnePerProcess' /\ ReloadsAlone' /\ AsksSomewhere'
    BY <2>1, <2>2, StaysAlone
  <2>6. rq' \in [Admins -> Admin]
    BY <2>2, <1>a, GoesFacts
  <2> QED
    BY <2>1, <2>3, <2>4, <2>5, <2>6, <2>7, <1>a DEF LockInv, ReloadTypeOK
<1>14. ASSUME NEW p \in Procs, Restart(p) PROVE LockInv'
  <2>1. /\ rq' = [h \in Admins |-> IF rq[h].proc = p THEN NoRequest ELSE rq[h]]
        /\ lock' = [lock EXCEPT ![p] = FALSE]
        /\ mixed' = (mixed \/ lock[p] \/ ~ envFile.user)
        /\ UNCHANGED <<auth_config, envFile, saves>>
    BY <1>14 DEF Restart
  <2>2. \A h \in Admins : InReload(h)' => InReload(h) /\ rq'[h] = rq[h] /\ rq[h].proc # p
    BY <2>1 DEF InReload, NoRequest
  <2>3. \A h \in Admins : rq'[h].pc \in {"params", "ask"} => rq'[h] = rq[h]
    BY <2>1 DEF NoRequest
  <2>4. mixed' \in BOOLEAN
    BY <2>1, Zenon
  <2>5. ReloadsAlone'
    <3> SUFFICES ASSUME ~ mixed' PROVE ReloadsAlone'
      BY DEF ReloadsAlone
    <3>1. ~ mixed
      BY <2>1, Zenon
    <3> QED
      BY <3>1, <2>2 DEF LockInv, ReloadsAlone
  <2>6. HoldsLock' /\ OnePerProcess' /\ AsksSomewhere'
    BY <2>1, <2>2, <2>3, <1>a DEF LockInv, HoldsLock, OnePerProcess, AsksSomewhere, ReloadTypeOK
  <2>7. rq' \in [Admins -> Admin] /\ lock' \in [Procs -> BOOLEAN]
    BY <2>1, <1>a, FilesFacts DEF ReloadTypeOK
  <2>8. environ' \in [Procs -> Lines] /\ settings' \in [Procs -> Settings]
    <3>1. read_env(NoLines, envFile.block) \in Lines
      BY <1>a, LinesFacts, FilesFacts DEF ReloadTypeOK
    <3>2. Started(envFile) \in Settings
      BY <3>1, SettingsFacts DEF Started
    <3> QED
      BY <3>1, <3>2, <1>14, <1>a DEF Restart, ReloadTypeOK
  <2>9. breaks' \in 0..MaxBreaks
    <3>1. breaks < MaxBreaks /\ breaks' = breaks + 1
      BY <1>14 DEF Restart
    <3>2. breaks \in 0..MaxBreaks /\ MaxBreaks \in Nat
      BY <1>a, ReloadAssumption DEF ReloadTypeOK
    <3> QED
      BY <3>1, <3>2
  <2> QED
    BY <2>1, <2>4, <2>5, <2>6, <2>7, <2>8, <2>9, <1>a DEF LockInv, ReloadTypeOK
<1>15. CASE UNCHANGED reloadVars
  BY <1>15 DEF reloadVars, LockInv, ReloadTypeOK, HoldsLock, OnePerProcess, ReloadsAlone, AsksSomewhere, InReload
<1> QED
  BY <1>1, <1>2, <1>3, <1>4, <1>5, <1>6, <1>7, <1>8, <1>9, <1>11, <1>12, <1>13, <1>14, <1>15
     DEF ReloadNext, ReloadStep

-----------------------------------------------------------------------------
(* What a reload has done so far.  environ and the settings of a process   *)
(* are its own, whatever other processes do; .env is only while none other *)
(* reloads.                                                                *)

\* Where the reload of a process stands with its os.environ.
EnvironInv ==
  \A h \in Admins :
    LET e == environ[rq[h].proc] IN
      /\ At(h, "apply") \/ rq[h].pc \in {"reopen", "rewrite", "again"} => e = rq[h].snap
      /\ At(h, "settings") => e = _apply_to_environ(rq[h].snap, rq[h].cfg)

\* The settings of a process are what its os.environ makes of them, or made of them before the
\* reload that is about to evaluate them; so are the backends, if that assigns any.  Not so
\* after a rollback that raised.
SettledWith(p, e) ==
  \/ settings[p].broken
  \/ /\ SameLogin(Evaluate(settings[p], e), settings[p])
     /\ Assigns(e) => Evaluate(settings[p], e).backend = settings[p].backend

SettledInv ==
  /\ \A p \in Procs : SettledWith(p, environ[p]) \/ \E h \in Admins : At(h, "settings") /\ rq[h].proc = p
  /\ \A h \in Admins : At(h, "settings") => SettledWith(rq[h].proc, rq[h].snap)

HasOriginal == {"open", "write", "apply", "settings", "reopen", "rewrite", "again"}

FileInv ==
  ~ mixed =>
    /\ envFile.user \/ \E h \in Admins : rq[h].pc \in {"write", "rewrite"}
    /\ \A h \in Admins :
         /\ rq[h].pc \in HasOriginal => rq[h].original.user
         /\ rq[h].pc \in {"apply", "settings"} => envFile.block = _build_managed_block(rq[h].cfg)
         /\ At(h, "again") => envFile = rq[h].original


\* Steps that change neither os.environ nor where a reload stands between its snapshot and its end.
Between == {"apply", "settings", "reopen", "rewrite", "again"}

LEMMA EnvironKept ==
  ASSUME LockInv, EnvironInv, UNCHANGED environ,
         \A g \in Admins : rq'[g].pc \in Between => rq'[g] = rq[g]
  PROVE  EnvironInv'
BY DEF EnvironInv, At, Between

LEMMA EnvironElsewhere ==
  ASSUME LockInv, EnvironInv, NEW h \in Admins, InReload(h), NEW e, environ' = [environ EXCEPT ![rq[h].proc] = e],
         \A g \in Admins : g # h => rq'[g] = rq[g],
         /\ rq'[h].pc = "apply" \/ rq'[h].pc \in {"reopen", "rewrite", "again"} =>
              rq'[h].proc = rq[h].proc /\ e = rq'[h].snap
         /\ rq'[h].pc = "settings" => rq'[h].proc = rq[h].proc /\ e = _apply_to_environ(rq'[h].snap, rq'[h].cfg)
  PROVE  EnvironInv'
<1>1. rq[h].proc \in Procs /\ environ \in [Procs -> Lines]
  BY DEF LockInv, HoldsLock, ReloadTypeOK
<1>2. ASSUME NEW g \in Admins, g # h, InReload(g)
      PROVE  environ'[rq[g].proc] = environ[rq[g].proc]
  BY <1>1, <1>2 DEF LockInv, OnePerProcess, HoldsLock
<1>3. environ'[rq[h].proc] = e
  BY <1>1
<1> SUFFICES ASSUME NEW g \in Admins
             PROVE  LET d == environ'[rq'[g].proc] IN
                      /\ rq'[g].pc = "apply" \/ rq'[g].pc \in {"reopen", "rewrite", "again"} => d = rq'[g].snap
                      /\ rq'[g].pc = "settings" => d = _apply_to_environ(rq'[g].snap, rq'[g].cfg)
  BY DEF EnvironInv, At
<1>4. CASE g = h
  BY <1>3, <1>4
<1>5. CASE g # h
  BY <1>2, <1>5 DEF EnvironInv, At, InReload
<1> QED
  BY <1>4, <1>5

LEMMA EnvironNext == LockInv /\ EnvironInv /\ [ReloadNext]_reloadVars => EnvironInv'
<1> SUFFICES ASSUME LockInv, EnvironInv, [ReloadNext]_reloadVars PROVE EnvironInv'
  OBVIOUS
<1>a. rq \in [Admins -> Admin] /\ environ \in [Procs -> Lines]
  BY DEF LockInv, ReloadTypeOK
<1>b. \A h \in Admins : rq[h] \in Admin /\ (InReload(h) => rq[h].proc \in Procs)
  BY DEF LockInv, ReloadTypeOK, HoldsLock
<1>1. ASSUME NEW h \in Admins, NEW p \in Procs, SaveProvider(h, p) \/ AskReload(h, p) PROVE EnvironInv'
  <2>1. /\ rq'[h].pc \in {"params", "ask"} /\ UNCHANGED environ
        /\ \A g \in Admins : g # h => rq'[g] = rq[g]
    BY <1>1, <1>a DEF SaveProvider, AskReload, NoRequest
  <2> QED
    BY <2>1, EnvironKept DEF Between
<1>2. ASSUME NEW h \in Admins, SaveParams(h) \/ Busy(h) \/ Begin(h) \/ ReadEnv(h) \/ OpenEnv(h) PROVE EnvironInv'
  <2>1. /\ rq'[h].pc \in {"idle", "ask", "read", "open", "write"} /\ UNCHANGED environ
        /\ \A g \in Admins : g # h => rq'[g] = rq[g]
    <3>1. CASE SaveParams(h)
      <4>1. PICK new : /\ new \in {NoRequest, [NoRequest EXCEPT !.proc = rq[h].proc, !.pc = "ask"]}
                       /\ rq' = [rq EXCEPT ![h] = new]
        BY <3>1 DEF SaveParams
      <4>2. NoRequest.pc = "idle" /\ [NoRequest EXCEPT !.proc = rq[h].proc, !.pc = "ask"].pc = "ask"
        BY DEF NoRequest
      <4>3. new.pc \in {"idle", "ask"}
        BY <4>1, <4>2
      <4> QED
        BY <3>1, <4>1, <4>3, <1>a DEF SaveParams
    <3>2. CASE Busy(h)
      BY <3>2, <1>a DEF Busy, NoRequest
    <3>3. CASE Begin(h) \/ ReadEnv(h) \/ OpenEnv(h)
      BY <3>3, <1>a, <1>b DEF Begin, ReadEnv, OpenEnv, Goto, Admin
    <3> QED
      BY <3>1, <3>2, <3>3, <1>2
  <2> QED
    BY <2>1, EnvironKept DEF Between
<1>3. ASSUME NEW h \in Admins, WriteEnv(h) PROVE EnvironInv'
  <2>1. /\ rq' = [rq EXCEPT ![h] = [rq[h] EXCEPT !.pc = "apply", !.snap = environ[rq[h].proc]]]
        /\ UNCHANGED environ /\ InReload(h)
    BY <1>3, <1>a DEF WriteEnv, At, InReload
  <2>2. environ' = [environ EXCEPT ![rq[h].proc] = environ[rq[h].proc]]
    BY <2>1, <1>a
  <2>3. rq'[h].pc = "apply" /\ rq'[h].snap = environ[rq[h].proc] /\ rq'[h].proc = rq[h].proc
    BY <2>1, <1>a, <1>b DEF Admin
  <2>4. \A g \in Admins : g # h => rq'[g] = rq[g]
    BY <2>1, <1>a
  <2> QED
    BY <2>1, <2>2, <2>3, <2>4, EnvironElsewhere
<1>4. ASSUME NEW h \in Admins, Apply(h) PROVE EnvironInv'
  <2> DEFINE e == _apply_to_environ(environ[rq[h].proc], rq[h].cfg)
  <2>1. /\ environ' = [environ EXCEPT ![rq[h].proc] = e] /\ At(h, "apply") /\ InReload(h)
        /\ environ[rq[h].proc] = rq[h].snap
    BY <1>4 DEF Apply, EnvironInv, At, InReload
  <2>2. \/ rq'[h].pc = "idle"
        \/ /\ rq'[h].pc = "settings" /\ rq'[h].proc = rq[h].proc
           /\ rq'[h].snap = rq[h].snap /\ rq'[h].cfg = rq[h].cfg
    BY <1>4, <1>a, <1>b DEF Apply, Answer, Goto, NoRequest, Admin
  <2>3. \A g \in Admins : g # h => rq'[g] = rq[g]
    BY <1>4, <1>a DEF Apply, Answer, Goto
  <2> QED
    BY <2>1, <2>2, <2>3, EnvironElsewhere
<1>5. ASSUME NEW h \in Admins, ReloadSettings(h) \/ ReloadAgain(h) PROVE EnvironInv'
  <2>1. InReload(h) /\ rq'[h].pc = "idle" /\ \A g \in Admins : g # h => rq'[g] = rq[g]
    BY <1>5, <1>a DEF ReloadSettings, ReloadAgain, Answer, NoRequest, At, InReload
  <2>2. PICK e : environ' = [environ EXCEPT ![rq[h].proc] = e]
    <3>1. CASE Reevaluate(rq[h].proc) \/ environ' = [environ EXCEPT ![rq[h].proc] = EnvRead(rq[h].proc)]
      BY <3>1 DEF Reevaluate
    <3>2. CASE UNCHANGED environ
      <4>1. environ' = [environ EXCEPT ![rq[h].proc] = environ[rq[h].proc]]
        BY <3>2, <1>a
      <4> QED
        BY <4>1
    <3> QED
      BY <3>1, <3>2, <1>5 DEF ReloadSettings, ReloadAgain
  <2>3. /\ ~ (rq'[h].pc = "apply" \/ rq'[h].pc \in {"reopen", "rewrite", "again"})
        /\ ~ (rq'[h].pc = "settings")
    BY <2>1
  <2> QED
    BY <2>1, <2>2, <2>3, EnvironElsewhere, Zenon
<1>6. ASSUME NEW h \in Admins, SettingsRaise(h) PROVE EnvironInv'
  <2>1. /\ environ' = [environ EXCEPT ![rq[h].proc] = rq[h].snap] /\ InReload(h)
        /\ rq'[h].pc = "reopen" /\ rq'[h].proc = rq[h].proc /\ rq'[h].snap = rq[h].snap
        /\ \A g \in Admins : g # h => rq'[g] = rq[g]
    BY <1>6, <1>a, <1>b DEF SettingsRaise, Goto, At, InReload, Admin
  <2> QED
    BY <2>1, EnvironElsewhere
<1>7. ASSUME NEW h \in Admins, ReopenEnv(h) \/ RestoreEnv(h) PROVE EnvironInv'
  <2>1. /\ UNCHANGED environ /\ InReload(h) /\ rq[h].pc \in {"reopen", "rewrite"}
        /\ rq'[h].pc \in {"rewrite", "again"} /\ rq'[h].proc = rq[h].proc /\ rq'[h].snap = rq[h].snap
        /\ \A g \in Admins : g # h => rq'[g] = rq[g]
    BY <1>7, <1>a, <1>b DEF ReopenEnv, RestoreEnv, Goto, At, InReload, Admin
  <2>2. environ' = [environ EXCEPT ![rq[h].proc] = environ[rq[h].proc]] /\ environ[rq[h].proc] = rq'[h].snap
    BY <2>1, <1>a DEF EnvironInv, At
  <2>3. ~ (rq'[h].pc = "settings")
    BY <2>1
  <2> QED
    BY <2>1, <2>2, <2>3, EnvironElsewhere, Zenon
<1>8. ASSUME NEW p \in Procs, Restart(p) PROVE EnvironInv'
  <2>1. \A h \in Admins : rq'[h].pc \in Between => rq'[h] = rq[h] /\ rq[h].proc # p
    BY <1>8 DEF Restart, NoRequest, Between
  <2>2. \A q \in Procs : q # p => environ'[q] = environ[q]
    BY <1>8, <1>a DEF Restart
  <2>3. \A h \in Admins : rq[h].pc \in Between => rq[h].proc \in Procs
    BY <1>b DEF Between, InReload
  <2> QED
    BY <2>1, <2>2, <2>3 DEF EnvironInv, At, Between
<1>9. CASE UNCHANGED reloadVars
  BY <1>9 DEF reloadVars, EnvironInv, At
<1> QED
  BY <1>1, <1>2, <1>3, <1>4, <1>5, <1>6, <1>7, <1>8, <1>9 DEF ReloadNext, ReloadStep

-----------------------------------------------------------------------------
(* The settings.                                                           *)

\* What the variables make of the settings does not depend on what these were, but for the
\* backends if none are assigned.
LEMMA EvaluateAlike ==
  ASSUME NEW s, NEW t, NEW e
  PROVE  /\ SameLogin(Evaluate(s, e), Evaluate(t, e))
         /\ Assigns(e) => Evaluate(s, e).backend = Evaluate(t, e).backend
BY DEF Evaluate, SameLogin

\* The two evaluations of a reload leave settled settings.
LEMMA ReevaluateSettles ==
  ASSUME ReloadTypeOK, NEW p \in Procs, Reevaluate(p)
  PROVE  /\ SettledWith(p, environ[p])'
         /\ \A q \in Procs : q # p => environ'[q] = environ[q] /\ settings'[q] = settings[q]
<1> DEFINE e == read_env(environ[p], envFile.block)
<1>1. environ' = [environ EXCEPT ![p] = e] /\ settings' = [settings EXCEPT ![p] = Evaluate(settings[p], e)]
  BY DEF Reevaluate, EnvRead
<1> HIDE DEF e
<1>2. environ'[p] = e /\ settings'[p] = Evaluate(settings[p], e)
  BY <1>1 DEF ReloadTypeOK
<1>3. \A q \in Procs : q # p => environ'[q] = environ[q] /\ settings'[q] = settings[q]
  BY <1>1 DEF ReloadTypeOK
<1>4. /\ SameLogin(Evaluate(Evaluate(settings[p], e), e), Evaluate(settings[p], e))
      /\ Assigns(e) => Evaluate(Evaluate(settings[p], e), e).backend = Evaluate(settings[p], e).backend
  BY EvaluateAlike
<1> QED
  BY <1>2, <1>3, <1>4 DEF SettledWith

\* A module that raises in between leaves settled what was.
LEMMA HalfSettles ==
  ASSUME ReloadTypeOK, NEW p \in Procs, NEW broken \in BOOLEAN, HalfEvaluated(p, broken),
         NEW e, SettledWith(p, e), settings[p].broken => broken
  PROVE  \/ settings'[p].broken
         \/ /\ SameLogin(Evaluate(settings'[p], e), settings'[p])
            /\ Assigns(e) => Evaluate(settings'[p], e).backend = settings'[p].backend
<1>1. /\ SameLogin(settings'[p], settings[p]) /\ settings'[p].backend = settings[p].backend
      /\ settings'[p].broken = broken
  BY HalfTypes
<1>2. /\ SameLogin(Evaluate(settings'[p], e), Evaluate(settings[p], e))
      /\ Assigns(e) => Evaluate(settings'[p], e).backend = Evaluate(settings[p], e).backend
  BY EvaluateAlike
<1>3. CASE settings[p].broken
  BY <1>1, <1>3
<1>4. CASE ~ settings[p].broken
  <2>1. /\ SameLogin(Evaluate(settings[p], e), settings[p])
        /\ Assigns(e) => Evaluate(settings[p], e).backend = settings[p].backend
    BY <1>4 DEF SettledWith
  <2> QED
    BY <1>1, <1>2, <2>1 DEF SameLogin
<1> QED
  BY <1>3, <1>4

LEMMA SettledInit == ReloadInit => SettledInv
<1> SUFFICES ASSUME ReloadInit PROVE SettledInv
  OBVIOUS
<1>1. Evaluate(NewModule, NoLines) = NewModule
  <2>1. NoLines.on = "absent" /\ \A k \in Keys : NoLines.val[k] = ""
    BY DEF NoLines
  <2> QED
    BY <2>1, KeysFacts DEF Evaluate, Assigns, WayOf, NewModule, NoLines
<1> QED
  BY <1>1 DEF ReloadInit, SettledInv, SettledWith, SameLogin, At, NoRequest

\* Where nothing is saved without its variable, every configuration can be applied.
LEMMA ApplyNeverRaises ==
  ASSUME "oidc" \notin Providers, NEW cfg \in AuthConfig
  PROVE  ~ ApplyRaises(cfg)
<1>1. cfg.provider \in Providers \/ cfg.provider = "local"
  BY DEF AuthConfig, auth_provider
<1>2. CASE cfg.provider = "local"
  BY <1>2 DEF ApplyRaises, AUTH_PROVIDER_KEYS
<1>3. CASE cfg.provider \in Providers
  <2>1. cfg.provider \in {"ldap", "dingding", "cas"}
    BY <1>3, ReloadAssumption
  <2>2. "oidc_btn_name" \notin AUTH_PROVIDER_KEYS[cfg.provider]
    BY <2>1 DEF AUTH_PROVIDER_KEYS
  <2>3. AUTH_PROVIDER_KEYS[cfg.provider] \subseteq Keys
    BY <1>3 DEF Keys
  <2> QED
    BY <2>2, <2>3 DEF ApplyRaises, InEnv
<1> QED
  BY <1>1, <1>2, <1>3

\* A request comes to or leaves a step before the evaluation only.
LEMMA SettledKept ==
  ASSUME SettledInv, UNCHANGED <<environ, settings>>,
         \A g \in Admins : rq[g].pc = "settings" \/ rq'[g].pc = "settings" => rq'[g] = rq[g]
  PROVE  SettledInv'
BY DEF SettledInv, SettledWith, At

LEMMA SettledElsewhere ==
  ASSUME LockInv, SettledInv, NEW h \in Admins, InReload(h), NEW p \in Procs, p = rq[h].proc, rq'[h].pc # "settings",
         \A g \in Admins : g # h => rq'[g] = rq[g],
         \A q \in Procs : q # p => environ'[q] = environ[q] /\ settings'[q] = settings[q],
         SettledWith(p, environ[p])'
  PROVE  SettledInv'
<1>1. \A g \in Admins : g # h /\ InReload(g) => rq[g].proc # p /\ rq[g].proc \in Procs
  BY DEF LockInv, OnePerProcess, HoldsLock
<1>2. ASSUME NEW q \in Procs, q # p
      PROVE  \/ SettledWith(q, environ[q])'
             \/ \E g \in Admins : rq'[g].pc = "settings" /\ rq'[g].proc = q
  <2>1. CASE SettledWith(q, environ[q])
    BY <1>2, <2>1 DEF SettledWith
  <2>2. CASE \E g \in Admins : At(g, "settings") /\ rq[g].proc = q
    <3>1. PICK g \in Admins : At(g, "settings") /\ rq[g].proc = q
      BY <2>2
    <3>2. g # h
      BY <3>1, <1>2
    <3> QED
      BY <3>1, <3>2 DEF At
  <2> QED
    BY <2>1, <2>2 DEF SettledInv
<1>3. ASSUME NEW g \in Admins, rq'[g].pc = "settings"
      PROVE  SettledWith(rq[g].proc, rq[g].snap)'
  <2>1. g # h /\ rq'[g] = rq[g] /\ At(g, "settings") /\ InReload(g)
    BY <1>3 DEF At, InReload
  <2>2. settings'[rq[g].proc] = settings[rq[g].proc] /\ SettledWith(rq[g].proc, rq[g].snap)
    BY <2>1, <1>1 DEF SettledInv
  <2> QED
    BY <2>1, <2>2 DEF SettledWith
<1> QED
  BY <1>2, <1>3 DEF SettledInv, At

LEMMA SettledNext ==
  ASSUME "oidc" \notin Providers, LockInv, EnvironInv, SettledInv, [ReloadNext]_reloadVars
  PROVE  SettledInv'
<1>a. /\ rq \in [Admins -> Admin] /\ environ \in [Procs -> Lines] /\ settings \in [Procs -> Settings]
      /\ ReloadTypeOK
  BY DEF LockInv, ReloadTypeOK
<1>b. \A h \in Admins : rq[h] \in Admin /\ (InReload(h) => rq[h].proc \in Procs)
  BY DEF LockInv, ReloadTypeOK, HoldsLock
<1>c. \A g, h \in Admins : g # h /\ InReload(g) /\ InReload(h) => rq[g].proc # rq[h].proc
  BY DEF LockInv, OnePerProcess
<1>1. ASSUME NEW h \in Admins, NEW p \in Procs, SaveProvider(h, p) \/ AskReload(h, p) PROVE SettledInv'
  <2>1. /\ rq'[h].pc \in {"params", "ask"} /\ rq[h].pc = "idle" /\ UNCHANGED <<environ, settings>>
        /\ \A g \in Admins : g # h => rq'[g] = rq[g]
    BY <1>1, <1>a DEF SaveProvider, AskReload, NoRequest, At
  <2> QED
    BY <2>1, SettledKept
<1>2. ASSUME NEW h \in Admins, SaveParams(h) PROVE SettledInv'
  <2>1. PICK new : /\ new \in {NoRequest, [NoRequest EXCEPT !.proc = rq[h].proc, !.pc = "ask"]}
                   /\ rq' = [rq EXCEPT ![h] = new]
    BY <1>2 DEF SaveParams
  <2>2. NoRequest.pc = "idle" /\ [NoRequest EXCEPT !.proc = rq[h].proc, !.pc = "ask"].pc = "ask"
    BY DEF NoRequest
  <2>3. new.pc \in {"idle", "ask"}
    BY <2>1, <2>2
  <2>4. /\ rq'[h].pc \in {"idle", "ask"} /\ rq[h].pc = "params" /\ UNCHANGED <<environ, settings>>
        /\ \A g \in Admins : g # h => rq'[g] = rq[g]
    BY <2>1, <2>3, <1>2, <1>a DEF SaveParams, At
  <2> QED
    BY <2>4, SettledKept
<1>3. ASSUME NEW h \in Admins,
             \/ Busy(h) \/ Begin(h) \/ ReadEnv(h) \/ OpenEnv(h) \/ WriteEnv(h) \/ ReopenEnv(h) \/ RestoreEnv(h)
      PROVE  SettledInv'
  <2>1. UNCHANGED <<environ, settings>> /\ rq[h].pc # "settings"
    BY <1>3 DEF Busy, Begin, ReadEnv, OpenEnv, WriteEnv, ReopenEnv, RestoreEnv, At
  <2>2. rq'[h].pc # "settings"
    <3>1. CASE Busy(h)
      BY <3>1, <1>a DEF Busy, NoRequest
    <3>2. CASE Begin(h) \/ ReadEnv(h)
      BY <3>2, <1>a, <1>b DEF Begin, ReadEnv, Admin
    <3>3. CASE WriteEnv(h)
      BY <3>3, <1>a, <1>b DEF WriteEnv, Admin
    <3>4. CASE OpenEnv(h) \/ ReopenEnv(h) \/ RestoreEnv(h)
      BY <3>4, <1>a, <1>b DEF OpenEnv, ReopenEnv, RestoreEnv, Goto, Admin
    <3> QED
      BY <3>1, <3>2, <3>3, <3>4, <1>3
  <2>3. \A g \in Admins : g # h => rq'[g] = rq[g]
    BY <1>3, <1>a DEF Busy, Begin, ReadEnv, OpenEnv, WriteEnv, ReopenEnv, RestoreEnv, Goto
  <2> QED
    BY <2>1, <2>2, <2>3, SettledKept
<1>4. ASSUME NEW h \in Admins, Apply(h) PROVE SettledInv'
  <2> DEFINE p == rq[h].proc
  <2>1. At(h, "apply") /\ InReload(h) /\ p \in Procs /\ environ[p] = rq[h].snap
    BY <1>4, <1>b DEF Apply, EnvironInv, At, InReload
  <2>2. Goto(h, "settings")
    BY <1>4, <1>b, ApplyNeverRaises DEF Apply, Admin
  <2>3. /\ rq'[h].pc = "settings" /\ rq'[h].proc = p /\ rq'[h].snap = rq[h].snap
        /\ \A g \in Admins : g # h => rq'[g] = rq[g]
    BY <2>2, <1>a, <1>b DEF Goto, Admin
  <2>4. /\ \A q \in Procs : q # p => environ'[q] = environ[q]
        /\ settings' = settings
    BY <1>4, <1>a DEF Apply
  <2>5. SettledWith(p, environ[p])
    <3>1. \A g \in Admins : At(g, "settings") => rq[g].proc # p
      BY <2>1, <1>c DEF At, InReload
    <3> QED
      BY <2>1, <3>1 DEF SettledInv
  <2> HIDE DEF p
  <2>6. \A q \in Procs : \/ SettledWith(q, environ[q])'
                         \/ \E g \in Admins : rq'[g].pc = "settings" /\ rq'[g].proc = q
    <3> SUFFICES ASSUME NEW q \in Procs, q # p
                 PROVE  \/ SettledWith(q, environ[q])'
                        \/ \E g \in Admins : rq'[g].pc = "settings" /\ rq'[g].proc = q
      BY <2>3
    <3>1. CASE SettledWith(q, environ[q])
      BY <2>4, <3>1 DEF SettledWith
    <3>2. CASE \E g \in Admins : At(g, "settings") /\ rq[g].proc = q
      <4>1. PICK g \in Admins : At(g, "settings") /\ rq[g].proc = q
        BY <3>2
      <4>2. g # h
        BY <4>1, <2>1 DEF At
      <4> QED
        BY <4>1, <4>2, <2>3 DEF At
    <3> QED
      BY <3>1, <3>2 DEF SettledInv
  <2>7. \A g \in Admins : rq'[g].pc = "settings" => SettledWith(rq[g].proc, rq[g].snap)'
    BY <2>1, <2>3, <2>4, <2>5 DEF SettledInv, SettledWith, At
  <2> QED
    BY <2>6, <2>7 DEF SettledInv, At
<1>5. ASSUME NEW h \in Admins, Reevaluate(rq[h].proc), InReload(h), NEW answer, Answer(h, answer) PROVE SettledInv'
  <2> DEFINE p == rq[h].proc
  <2>1. p \in Procs
    BY <1>5, <1>b
  <2>2. PICK q \in Procs : q = p
    BY <2>1
  <2>3. /\ SettledWith(q, environ[q])'
        /\ \A r \in Procs : r # q => environ'[r] = environ[r] /\ settings'[r] = settings[r]
    BY <1>5, <1>a, <2>2, ReevaluateSettles
  <2>4. rq'[h].pc # "settings" /\ \A g \in Admins : g # h => rq'[g] = rq[g]
    BY <1>5, <1>a DEF Answer, NoRequest
  <2> QED
    BY <1>5, <2>2, <2>3, <2>4, SettledElsewhere
<1>6. ASSUME NEW h \in Admins, ReloadSettings(h) PROVE SettledInv'
  BY <1>5, <1>6 DEF ReloadSettings, At, InReload
<1>7. ASSUME NEW h \in Admins, ReloadAgain(h) PROVE SettledInv'
  <2>1. CASE Reevaluate(rq[h].proc)
    BY <1>5, <1>7, <2>1 DEF ReloadAgain, At, InReload
  <2>2. CASE /\ HalfEvaluated(rq[h].proc, TRUE)
             /\ environ' \in {environ, [environ EXCEPT ![rq[h].proc] = EnvRead(rq[h].proc)]}
    <3>1. /\ rq[h].pc = "again" /\ InReload(h) /\ rq'[h].pc = "idle"
          /\ \A g \in Admins : g # h => rq'[g] = rq[g]
      BY <1>7, <1>a DEF ReloadAgain, Answer, At, NoRequest, InReload
    <3>2. PICK p \in Procs : p = rq[h].proc
      BY <3>1, <1>b
    <3>3. settings'[p].broken /\ \A q \in Procs : q # p => settings'[q] = settings[q]
      BY <2>2, <3>2, <1>a, HalfTypes
    <3>4. \A q \in Procs : q # p => environ'[q] = environ[q]
      BY <2>2, <3>2, <1>a
    <3>5. SettledWith(p, environ[p])'
      BY <3>3 DEF SettledWith
    <3> QED
      BY <3>1, <3>2, <3>3, <3>4, <3>5, SettledElsewhere
  <2> QED
    BY <1>7, <2>1, <2>2 DEF ReloadAgain
<1>8. ASSUME NEW h \in Admins, SettingsRaise(h) PROVE SettledInv'
  <2>1. PICK p \in Procs : p = rq[h].proc
    BY <1>8, <1>b DEF SettingsRaise, At, InReload
  <2>2. /\ InReload(h) /\ SettledWith(p, rq[h].snap)
        /\ environ' = [environ EXCEPT ![p] = rq[h].snap] /\ HalfEvaluated(p, settings[p].broken)
    BY <1>8, <2>1 DEF SettingsRaise, SettledInv, At, InReload
  <2>6. settings[p].broken \in BOOLEAN
    BY <1>a DEF Settings
  <2>7. \A q \in Procs : q # p => settings'[q] = settings[q]
    BY <2>2, <2>6, <1>a, HalfTypes
  <2>3. SettledWith(p, environ[p])'
    <3> DEFINE e == rq[h].snap
    <3>1. environ'[p] = e /\ SettledWith(p, e)
      BY <2>2, <1>a
    <3> HIDE DEF e
    <3>2. \/ settings'[p].broken
          \/ /\ SameLogin(Evaluate(settings'[p], e), settings'[p])
             /\ Assigns(e) => Evaluate(settings'[p], e).backend = settings'[p].backend
      BY <2>2, <2>6, <3>1, <1>a, HalfSettles
    <3> QED
      BY <3>1, <3>2 DEF SettledWith
  <2>4. rq'[h].pc # "settings" /\ \A g \in Admins : g # h => rq'[g] = rq[g]
    BY <1>8, <1>a, <1>b DEF SettingsRaise, Goto, Admin
  <2>5. \A q \in Procs : q # p => environ'[q] = environ[q] /\ settings'[q] = settings[q]
    BY <2>2, <2>7, <1>a
  <2> QED
    BY <2>1, <2>2, <2>3, <2>4, <2>5, SettledElsewhere
<1>9. ASSUME NEW p \in Procs, Restart(p) PROVE SettledInv'
  <2>1. SettledWith(p, environ[p])'
    <3> DEFINE e == read_env(NoLines, envFile.block)
    <3>1. environ'[p] = e /\ settings'[p] = Evaluate(NewModule, e)
      BY <1>9, <1>a DEF Restart, Started
    <3> HIDE DEF e
    <3> QED
      BY <3>1, EvaluateAlike DEF SettledWith
  <2>2. \A q \in Procs : q # p => environ'[q] = environ[q] /\ settings'[q] = settings[q]
    BY <1>9, <1>a DEF Restart
  <2>3. \A g \in Admins : rq'[g].pc = "settings" => rq'[g] = rq[g] /\ rq[g].proc # p
    BY <1>9 DEF Restart, NoRequest
  <2>4. \A g \in Admins : rq[g].pc = "settings" /\ rq[g].proc # p => rq'[g] = rq[g]
    BY <1>9 DEF Restart
  <2>5. \A g \in Admins : rq[g].pc = "settings" => rq[g].proc \in Procs
    BY <1>b DEF InReload
  <2>6. \A q \in Procs : \/ SettledWith(q, environ[q])'
                         \/ \E g \in Admins : rq'[g].pc = "settings" /\ rq'[g].proc = q
    BY <2>1, <2>2, <2>4 DEF SettledInv, SettledWith, At
  <2>7. \A g \in Admins : rq'[g].pc = "settings" => SettledWith(rq[g].proc, rq[g].snap)'
    BY <2>2, <2>3, <2>5 DEF SettledInv, SettledWith, At
  <2> QED
    BY <2>6, <2>7 DEF SettledInv, At
<1>10. CASE UNCHANGED reloadVars
  BY <1>10 DEF reloadVars, SettledInv, SettledWith, At
<1> QED
  BY <1>1, <1>2, <1>3, <1>4, <1>6, <1>7, <1>8, <1>9, <1>10 DEF ReloadNext, ReloadStep

-----------------------------------------------------------------------------
(* .env, while no two processes have reloaded at a time.                   *)

\* Nobody is in a reload but h.
LEMMA Alone ==
  ASSUME LockInv, ~ mixed, NEW h \in Admins, InReload(h), NEW g \in Admins, g # h
  PROVE  ~ InReload(g)
BY DEF LockInv, ReloadsAlone

LEMMA FileKept ==
  ASSUME FileInv, UNCHANGED envFile, mixed' = mixed,
         \A g \in Admins : rq[g].pc \in HasOriginal \/ rq'[g].pc \in HasOriginal => rq'[g] = rq[g]
  PROVE  FileInv'
BY DEF FileInv, At, HasOriginal

\* A step of the only reload has to show what it does to its own request only.
LEMMA FileAlone ==
  ASSUME LockInv, mixed' = mixed, NEW h \in Admins, InReload(h), \A g \in Admins : g # h => rq'[g] = rq[g],
         ~ mixed => /\ envFile'.user \/ rq'[h].pc \in {"write", "rewrite"}
                    /\ rq'[h].pc \in HasOriginal => rq'[h].original.user
                    /\ rq'[h].pc \in {"apply", "settings"} => envFile'.block = _build_managed_block(rq'[h].cfg)
                    /\ rq'[h].pc = "again" => envFile' = rq'[h].original
  PROVE  FileInv'
<1> SUFFICES ASSUME ~ mixed PROVE FileInv'
  BY Zenon DEF FileInv
<1>1. \A g \in Admins : g # h => rq'[g].pc \in {"idle", "params", "ask"}
  BY Alone DEF InReload
<1> QED
  BY <1>1 DEF FileInv, At, HasOriginal

LEMMA FileNext == LockInv /\ FileInv /\ [ReloadNext]_reloadVars => FileInv'
<1> SUFFICES ASSUME LockInv, FileInv, [ReloadNext]_reloadVars PROVE FileInv'
  OBVIOUS
<1>a. rq \in [Admins -> Admin]
  BY DEF LockInv, ReloadTypeOK
<1>b. \A h \in Admins : rq[h] \in Admin
  BY DEF LockInv, ReloadTypeOK
<1>c. envFile \in EnvFile
  BY DEF LockInv, ReloadTypeOK
<1>1. ASSUME NEW h \in Admins, NEW p \in Procs, SaveProvider(h, p) \/ AskReload(h, p) PROVE FileInv'
  <2>1. /\ rq'[h].pc \in {"params", "ask"} /\ rq[h].pc = "idle" /\ UNCHANGED <<envFile, mixed>>
        /\ \A g \in Admins : g # h => rq'[g] = rq[g]
    BY <1>1, <1>a DEF SaveProvider, AskReload, NoRequest, At
  <2> QED
    BY <2>1, FileKept DEF HasOriginal
<1>2. ASSUME NEW h \in Admins, SaveParams(h) PROVE FileInv'
  <2>1. PICK new : /\ new \in {NoRequest, [NoRequest EXCEPT !.proc = rq[h].proc, !.pc = "ask"]}
                   /\ rq' = [rq EXCEPT ![h] = new]
    BY <1>2 DEF SaveParams
  <2>2. NoRequest.pc = "idle" /\ [NoRequest EXCEPT !.proc = rq[h].proc, !.pc = "ask"].pc = "ask"
    BY DEF NoRequest
  <2>3. new.pc \in {"idle", "ask"}
    BY <2>1, <2>2
  <2>4. /\ rq'[h].pc \in {"idle", "ask"} /\ rq[h].pc = "params" /\ UNCHANGED <<envFile, mixed>>
        /\ \A g \in Admins : g # h => rq'[g] = rq[g]
    BY <2>1, <2>3, <1>2, <1>a DEF SaveParams, At
  <2> QED
    BY <2>4, FileKept DEF HasOriginal
<1>3. ASSUME NEW h \in Admins, Busy(h) PROVE FileInv'
  <2>1. /\ rq'[h].pc = "idle" /\ rq[h].pc = "ask" /\ UNCHANGED <<envFile, mixed>>
        /\ \A g \in Admins : g # h => rq'[g] = rq[g]
    BY <1>3, <1>a DEF Busy, NoRequest, At
  <2> QED
    BY <2>1, FileKept DEF HasOriginal
\* The reload that begins is the only one, or mixed becomes true.
<1>4. ASSUME NEW h \in Admins, Begin(h) PROVE FileInv'
  <2>1. /\ rq'[h].pc = "read" /\ rq[h].pc = "ask" /\ UNCHANGED envFile
        /\ \A g \in Admins : g # h => rq'[g] = rq[g]
    BY <1>4, <1>a, <1>b DEF Begin, At, Admin
  <2>2. CASE mixed'
    BY <2>2 DEF FileInv
  <2>3. CASE ~ mixed'
    <3>1. ~ mixed /\ mixed' = mixed
      BY <2>3, <1>4 DEF Begin, LockInv, ReloadTypeOK
    <3> QED
      BY <2>1, <3>1, FileKept DEF HasOriginal
  <2> QED
    BY <2>2, <2>3
<1>5. ASSUME NEW h \in Admins, ReadEnv(h) PROVE FileInv'
  <2>1. /\ rq'[h].pc = "open" /\ rq'[h].original = envFile /\ rq[h].pc = "read" /\ InReload(h)
        /\ UNCHANGED <<envFile, mixed>> /\ \A g \in Admins : g # h => rq'[g] = rq[g]
    BY <1>5, <1>a, <1>b DEF ReadEnv, At, InReload, Admin
  <2>2. ~ mixed => envFile.user
    BY <2>1, Alone DEF FileInv, InReload
  <2> QED
    BY <2>1, <2>2, FileAlone
<1>6. ASSUME NEW h \in Admins, OpenEnv(h) \/ ReopenEnv(h) PROVE FileInv'
  <2>1. /\ rq'[h].pc \in {"write", "rewrite"} /\ rq'[h].original = rq[h].original
        /\ rq[h].pc \in HasOriginal /\ InReload(h) /\ mixed' = mixed
        /\ \A g \in Admins : g # h => rq'[g] = rq[g]
    BY <1>6, <1>a, <1>b DEF OpenEnv, ReopenEnv, Goto, At, InReload, Admin, HasOriginal
  <2>2. ~ mixed => rq[h].original.user
    BY <2>1 DEF FileInv
  <2> QED
    BY <2>1, <2>2, FileAlone
<1>7. ASSUME NEW h \in Admins, WriteEnv(h) PROVE FileInv'
  <2>1. /\ rq'[h].pc = "apply" /\ rq'[h].original = rq[h].original /\ rq'[h].cfg = rq[h].cfg
        /\ rq[h].pc \in HasOriginal /\ InReload(h) /\ mixed' = mixed
        /\ \A g \in Admins : g # h => rq'[g] = rq[g]
    BY <1>7, <1>a, <1>b DEF WriteEnv, At, InReload, Admin, HasOriginal
  <2>2. envFile' = [rq[h].original EXCEPT !.block = _build_managed_block(rq[h].cfg)] /\ rq[h].original \in EnvFile
    BY <1>7, <1>b DEF WriteEnv, Admin
  <2>3. envFile'.block = _build_managed_block(rq[h].cfg) /\ envFile'.user = rq[h].original.user
    BY <2>2 DEF EnvFile
  <2>4. ~ mixed => rq[h].original.user
    BY <2>1 DEF FileInv
  <2> QED
    BY <2>1, <2>3, <2>4, FileAlone
<1>8. ASSUME NEW h \in Admins, Apply(h) PROVE FileInv'
  <2>1. /\ rq[h].pc = "apply" /\ InReload(h) /\ UNCHANGED <<envFile, mixed>>
        /\ \A g \in Admins : g # h => rq'[g] = rq[g]
        /\ \/ rq'[h].pc = "idle"
           \/ rq'[h].pc = "settings" /\ rq'[h].original = rq[h].original /\ rq'[h].cfg = rq[h].cfg
    BY <1>8, <1>a, <1>b DEF Apply, Answer, Goto, NoRequest, At, InReload, Admin
  <2>2. ~ mixed => envFile.user /\ rq[h].original.user /\ envFile.block = _build_managed_block(rq[h].cfg)
    BY <2>1, Alone DEF FileInv, InReload, HasOriginal
  <2> QED
    BY <2>1, <2>2, FileAlone DEF HasOriginal
<1>9. ASSUME NEW h \in Admins, ReloadSettings(h) \/ ReloadAgain(h) PROVE FileInv'
  <2>1. /\ rq[h].pc \in {"settings", "again"} /\ InReload(h) /\ rq'[h].pc = "idle" /\ UNCHANGED <<envFile, mixed>>
        /\ \A g \in Admins : g # h => rq'[g] = rq[g]
    BY <1>9, <1>a DEF ReloadSettings, ReloadAgain, Answer, NoRequest, At, InReload
  <2>2. ~ mixed => envFile.user
    BY <2>1, Alone DEF FileInv, InReload
  <2> QED
    BY <2>1, <2>2, FileAlone DEF HasOriginal
<1>10. ASSUME NEW h \in Admins, SettingsRaise(h) PROVE FileInv'
  <2>1. /\ rq[h].pc = "settings" /\ InReload(h) /\ rq'[h].pc = "reopen" /\ rq'[h].original = rq[h].original
        /\ UNCHANGED <<envFile, mixed>> /\ \A g \in Admins : g # h => rq'[g] = rq[g]
    BY <1>10, <1>a, <1>b DEF SettingsRaise, Goto, At, InReload, Admin
  <2>2. ~ mixed => envFile.user /\ rq[h].original.user
    BY <2>1, Alone DEF FileInv, InReload, HasOriginal
  <2> QED
    BY <2>1, <2>2, FileAlone
<1>11. ASSUME NEW h \in Admins, RestoreEnv(h) PROVE FileInv'
  <2>1. /\ rq[h].pc = "rewrite" /\ InReload(h) /\ rq'[h].pc = "again" /\ rq'[h].original = rq[h].original
        /\ envFile' = rq[h].original /\ mixed' = mixed /\ \A g \in Admins : g # h => rq'[g] = rq[g]
    BY <1>11, <1>a, <1>b DEF RestoreEnv, Goto, At, InReload, Admin
  <2>2. ~ mixed => rq[h].original.user
    BY <2>1 DEF FileInv, HasOriginal
  <2> QED
    BY <2>1, <2>2, FileAlone
\* A process that dies in its reload, or finds a file without the user's lines, makes mixed true.
<1>12. ASSUME NEW p \in Procs, Restart(p) PROVE FileInv'
  <2>1. CASE mixed'
    BY <2>1 DEF FileInv
  <2>2. CASE ~ mixed'
    <3>1. ~ mixed /\ mixed' = mixed /\ ~ lock[p] /\ UNCHANGED envFile
      BY <1>12, <2>2 DEF Restart, LockInv, ReloadTypeOK
    <3>2. \A g \in Admins : InReload(g) => rq[g].proc # p
      BY <3>1 DEF LockInv, HoldsLock
    <3>3. \A g \in Admins : rq[g].pc \in HasOriginal \/ rq'[g].pc \in HasOriginal => rq'[g] = rq[g]
      BY <1>12, <3>2 DEF Restart, NoRequest, HasOriginal, InReload
    <3> QED
      BY <3>1, <3>3, FileKept
  <2> QED
    BY <2>1, <2>2
<1>13. CASE UNCHANGED reloadVars
  BY <1>13 DEF reloadVars, FileInv, At
<1> QED
  BY <1>1, <1>2, <1>3, <1>4, <1>5, <1>6, <1>7, <1>8, <1>9, <1>10, <1>11, <1>12, <1>13 DEF ReloadNext, ReloadStep

\* The user's own lines of .env are there whenever no reload is in the middle of writing the file: with
\* any number of processes and requests, as long as no two processes reload at a time and none dies in a reload.
THEOREM LinesSurvive == ReloadSpec => []UserLinesSurvive
<1>1. ReloadInit => FileInv
  BY DEF ReloadInit, FileInv, NoRequest, At, HasOriginal
<1>2. FileInv => UserLinesSurvive
  BY DEF FileInv, UserLinesSurvive
<1> QED
  BY <1>1, <1>2, LockInit, LockNext, FileNext, PTL DEF ReloadSpec

-----------------------------------------------------------------------------
(* All or nothing.                                                         *)

\* After a rollback: .env, os.environ and the settings are what they were, the backends if
\* the variables assign them or no module that raised left others.
LEMMA RollsBack ==
  ASSUME LockInv, EnvironInv, SettledInv, FileInv, NEW h \in Admins, ReloadAgain(h), ~ mixed, Known(h),
         ~ settings[rq[h].proc].broken
  PROVE  /\ Restored(h)
         /\ (Assigns(rq[h].snap) \/ settings[rq[h].proc].kept = settings[rq[h].proc].backend) => SameBackend(h)
<1>1. PICK p \in Procs : p = rq[h].proc
  BY DEF ReloadAgain, At, InReload, LockInv, HoldsLock
<1>2. At(h, "again") /\ envFile' = envFile /\ InReload(h)
  BY DEF ReloadAgain, At, InReload
<1>3. envFile = rq[h].original /\ environ[p] = rq[h].snap
  BY <1>1, <1>2 DEF FileInv, EnvironInv, At
<1>4. SettledWith(p, environ[p])
  <2>1. \A g \in Admins : At(g, "settings") => rq[g].proc # p
    BY <1>1, <1>2, Alone DEF At, InReload
  <2> QED
    BY <2>1 DEF SettledInv
<1>5. EnvRead(p) = environ[p]
  BY <1>1, <1>3 DEF Known, EnvRead
<1>6. ReloadTypeOK
  BY DEF LockInv
<1>7. /\ environ'[p] = environ[p] /\ SameLogin(settings'[p], settings[p])
      /\ Assigns(environ[p]) \/ settings[p].kept = settings[p].backend => settings'[p].backend = settings[p].backend
  <2>1. CASE HalfEvaluated(p, TRUE) /\ environ' \in {environ, [environ EXCEPT ![p] = EnvRead(p)]}
    <3>1. environ'[p] = environ[p]
      BY <2>1, <1>5, <1>6 DEF ReloadTypeOK
    <3>2. SameLogin(settings'[p], settings[p]) /\ settings'[p].backend = settings[p].backend
      BY <2>1, <1>6, HalfTypes
    <3> QED
      BY <3>1, <3>2
  <2>2. CASE Reevaluate(p)
    <3>1. environ'[p] = environ[p] /\ settings'[p] = Evaluate(settings[p], environ[p])
      BY <2>2, <1>5, <1>6 DEF Reevaluate, ReloadTypeOK
    <3>2. /\ SameLogin(Evaluate(settings[p], environ[p]), settings[p])
          /\ Assigns(environ[p]) => Evaluate(settings[p], environ[p]).backend = settings[p].backend
      BY <1>1, <1>4 DEF SettledWith
    <3>3. ~ Assigns(environ[p]) => Evaluate(settings[p], environ[p]).backend = settings[p].kept
      BY DEF Evaluate
    <3> QED
      BY <3>1, <3>2, <3>3
  <2> QED
    BY <1>1, <2>1, <2>2 DEF ReloadAgain
<1> QED
  BY <1>1, <1>2, <1>3, <1>7 DEF Restored, SameBackend

\* What the variables of one way say, whatever else is set.
LEMMA EvaluateTells ==
  ASSUME NEW s, NEW t, NEW e \in Lines, NEW f \in Lines, e.on = f.on, e.on # "absent",
         \A k \in EnvKeysOf(e.on) : e.val[k] = f.val[k]
  PROVE  /\ Evaluate(s, e).enabled \in {e.on, "local"}
         /\ Evaluate(s, e).enabled = Evaluate(t, f).enabled
         /\ Evaluate(s, e).val = Evaluate(t, f).val
         /\ \A k \in EnvKeysOf(Evaluate(s, e).enabled) : Evaluate(s, e).val[k] = e.val[k]
<1>1. \A p \in auth_provider : EnvKeysOf(p) \subseteq Keys
  BY KeysFacts
<1>2. EnvKeysOf("local") = {}
  BY KeysFacts
<1>3. e.on \in auth_provider
  BY DEF Lines
<1>4. Evaluate(s, e).enabled = Evaluate(t, f).enabled /\ Evaluate(s, e).enabled \in {e.on, "local"}
  BY DEF Evaluate, WayOf
<1>5. \A k \in Keys : Evaluate(s, e).val[k] = IF k \in EnvKeysOf(Evaluate(s, e).enabled) THEN e.val[k] ELSE ""
  BY DEF Evaluate
<1>6. Evaluate(s, e).val = [k \in Keys |-> IF k \in EnvKeysOf(Evaluate(s, e).enabled) THEN e.val[k] ELSE ""]
  BY DEF Evaluate
<1>7. Evaluate(t, f).val = [k \in Keys |-> IF k \in EnvKeysOf(Evaluate(t, f).enabled) THEN f.val[k] ELSE ""]
  BY DEF Evaluate
<1>8. \A k \in EnvKeysOf(Evaluate(s, e).enabled) : e.val[k] = f.val[k]
  BY <1>2, <1>4
<1> QED
  BY <1>1, <1>2, <1>3, <1>4, <1>5, <1>6, <1>7, <1>8

\* What is written for a configuration says it.
LEMMA BlockTells ==
  ASSUME NEW cfg, NEW e, EnvKeysOf(cfg.provider) \subseteq Keys
  PROVE  /\ _build_managed_block(cfg).on = cfg.provider
         /\ _apply_to_environ(e, cfg).on = cfg.provider
         /\ \A k \in EnvKeysOf(cfg.provider) :
              _build_managed_block(cfg).val[k] = cfg.val[k] /\ _apply_to_environ(e, cfg).val[k] = cfg.val[k]
<1>1. ASSUME NEW k \in EnvKeysOf(cfg.provider)
      PROVE  _build_managed_block(cfg).val[k] = cfg.val[k] /\ _apply_to_environ(e, cfg).val[k] = cfg.val[k]
  <2>1. k \in Keys
    OBVIOUS
  <2>2. _build_managed_block(cfg).val = [i \in Keys |-> IF i \in EnvKeysOf(cfg.provider) THEN cfg.val[i] ELSE ""]
    BY DEF _build_managed_block
  <2>3. _apply_to_environ(e, cfg).val = [i \in Keys |-> IF i \in EnvKeysOf(cfg.provider) THEN cfg.val[i] ELSE e.val[i]]
    BY DEF _apply_to_environ
  <2> QED
    BY <1>1, <2>1, <2>2, <2>3
<1> QED
  BY <1>1 DEF _build_managed_block, _apply_to_environ

\* After a reload that went well: the way and the parameters of the page, here and in a process that starts.
LEMMA Succeeds ==
  ASSUME LockInv, EnvironInv, FileInv, NEW h \in Admins, ReloadSettings(h), ~ mixed
  PROVE  SuccessUsesConfig(h)
<1>1. PICK p \in Procs : p = rq[h].proc
  BY DEF ReloadSettings, At, InReload, LockInv, HoldsLock
<1> DEFINE cfg == rq[h].cfg
           d == environ[p]
           e == read_env(d, envFile.block)
           f == read_env(NoLines, envFile.block)
<1>2. At(h, "settings") /\ envFile' = envFile
  BY DEF ReloadSettings, At
<1>3. envFile.block = _build_managed_block(cfg) /\ d = _apply_to_environ(rq[h].snap, cfg)
  BY <1>1, <1>2 DEF FileInv, EnvironInv, At
<1>4. cfg \in AuthConfig /\ envFile.block \in Lines /\ d \in Lines
  BY <1>1, FilesFacts DEF LockInv, ReloadTypeOK, Admin
<1>5. e \in Lines /\ f \in Lines
  BY <1>4, LinesFacts
<1>6. cfg.provider \in auth_provider /\ cfg.provider # "absent"
  BY <1>4, ReloadAssumption DEF AuthConfig, auth_provider
<1>7. EnvKeysOf(cfg.provider) \subseteq Keys
  BY <1>6, KeysFacts
<1>8. /\ d.on = cfg.provider /\ envFile.block.on = cfg.provider
      /\ \A k \in EnvKeysOf(cfg.provider) : d.val[k] = cfg.val[k] /\ envFile.block.val[k] = cfg.val[k]
  <2> HIDE DEF cfg, d
  <2> QED
    BY <1>3, <1>7, BlockTells
<1>9. NoLines.on = "absent" /\ \A k \in Keys : NoLines.val[k] = ""
  BY DEF NoLines
<1>10. /\ e.on = cfg.provider /\ f.on = cfg.provider
       /\ \A k \in EnvKeysOf(cfg.provider) : e.val[k] = cfg.val[k] /\ f.val[k] = cfg.val[k]
  BY <1>6, <1>7, <1>8, <1>9 DEF read_env
<1>11. settings'[p] = Evaluate(settings[p], e)
  <2>1. settings' = [settings EXCEPT ![p] = Evaluate(settings[p], e)]
    BY <1>1 DEF ReloadSettings, Reevaluate, EnvRead
  <2> QED
    BY <2>1 DEF LockInv, ReloadTypeOK
<1>12. Started(envFile') = Evaluate(NewModule, f)
  BY <1>2 DEF Started
<1> DEFINE s == Evaluate(settings[p], e)
           t == Evaluate(NewModule, f)
<1>13. /\ s.enabled \in {cfg.provider, "local"} /\ s.enabled = t.enabled /\ s.val = t.val
       /\ \A k \in EnvKeysOf(s.enabled) : s.val[k] = e.val[k]
  <2> HIDE DEF e, f
  <2> QED
    BY <1>5, <1>6, <1>10, EvaluateTells
<1>14. \A k \in EnvKeysOf(s.enabled) : s.val[k] = cfg.val[k]
  <2>1. EnvKeysOf("local") = {}
    BY KeysFacts
  <2> HIDE DEF s, e
  <2> QED
    BY <1>10, <1>13, <2>1
<1> HIDE DEF s, t, e, f
<1> QED
  BY <1>1, <1>11, <1>12, <1>13, <1>14 DEF SuccessUsesConfig, SameLogin, s, t

\* Which step ends a reload, by its answer.
LEMMA EndsBy ==
  ASSUME LockInv, [ReloadNext]_reloadVars, NEW h \in Admins, InReload(h), rq'[h].pc = "idle",
         rq'[h].answer \in {"ok", "rolled back"}
  PROVE  \/ rq'[h].answer = "ok" /\ ReloadSettings(h)
         \/ rq'[h].answer = "rolled back" /\ ReloadAgain(h)
<1>a. rq \in [Admins -> Admin] /\ rq[h] \in Admin /\ rq[h].pc # "idle"
  BY DEF LockInv, ReloadTypeOK, InReload
<1>1. ASSUME NEW g \in Admins, NEW p \in Procs, SaveProvider(g, p) \/ AskReload(g, p) PROVE FALSE
  <2>1. g # h /\ \A k \in Admins : k # g => rq'[k] = rq[k]
    BY <1>1, <1>a DEF SaveProvider, AskReload, At, InReload
  <2> QED
    BY <2>1, <1>a
<1>2. ASSUME NEW g \in Admins, SaveParams(g) \/ Busy(g) \/ Begin(g) PROVE FALSE
  <2>1. g # h /\ \A k \in Admins : k # g => rq'[k] = rq[k]
    BY <1>2, <1>a DEF SaveParams, Busy, Begin, At, InReload
  <2> QED
    BY <2>1, <1>a
<1>3. ASSUME NEW g \in Admins,
             \/ ReadEnv(g) \/ OpenEnv(g) \/ WriteEnv(g) \/ SettingsRaise(g) \/ ReopenEnv(g) \/ RestoreEnv(g)
      PROVE  FALSE
  <2>1. \A k \in Admins : k # g => rq'[k] = rq[k]
    BY <1>3, <1>a DEF ReadEnv, OpenEnv, WriteEnv, SettingsRaise, ReopenEnv, RestoreEnv, Goto
  <2>2. g = h
    BY <2>1, <1>a
  <2>3. CASE ReadEnv(h)
    BY <2>3, <1>a DEF ReadEnv, Admin
  <2>4. CASE WriteEnv(h)
    BY <2>4, <1>a DEF WriteEnv, Admin
  <2>5. CASE OpenEnv(h) \/ SettingsRaise(h) \/ ReopenEnv(h) \/ RestoreEnv(h)
    BY <2>5, <1>a DEF OpenEnv, SettingsRaise, ReopenEnv, RestoreEnv, Goto, Admin
  <2> QED
    BY <1>3, <2>2, <2>3, <2>4, <2>5
<1>4. ASSUME NEW g \in Admins, Apply(g) PROVE FALSE
  <2>1. \A k \in Admins : k # g => rq'[k] = rq[k]
    BY <1>4, <1>a DEF Apply, Answer, Goto
  <2>2. g = h
    BY <2>1, <1>a
  <2> QED
    BY <2>2, <1>4, <1>a DEF Apply, Answer, Goto, NoRequest, Admin
<1>5. ASSUME NEW g \in Admins, ReloadSettings(g) \/ ReloadAgain(g)
      PROVE  \/ rq'[h].answer = "ok" /\ ReloadSettings(h)
             \/ rq'[h].answer = "rolled back" /\ ReloadAgain(h)
  <2>1. \A k \in Admins : k # g => rq'[k] = rq[k]
    BY <1>5, <1>a DEF ReloadSettings, ReloadAgain, Answer
  <2>2. g = h
    BY <2>1, <1>a
  <2>3. CASE ReloadSettings(h)
    BY <2>3, <1>a DEF ReloadSettings, Answer, NoRequest
  <2>4. CASE ReloadAgain(h)
    BY <2>4, <1>a DEF ReloadAgain, Answer, NoRequest
  <2> QED
    BY <1>5, <2>2, <2>3, <2>4
<1>6. ASSUME NEW p \in Procs, Restart(p) PROVE FALSE
  BY <1>6, <1>a DEF Restart, NoRequest
<1>7. CASE UNCHANGED reloadVars
  BY <1>7, <1>a DEF reloadVars
<1> QED
  BY <1>1, <1>2, <1>3, <1>4, <1>5, <1>6, <1>7 DEF ReloadNext, ReloadStep

\* Without oidc, whose parameters cannot be applied, a reload that no other process disturbed does all that
\* was saved, in this process and in one that starts later; or, when it gave up on the settings, it leaves .env,
\* os.environ and the settings as they were (unless .env had something that this process had not read, or an
\* earlier rollback raised).  The backends are what they were if the variables restored assign some, or if no
\* module that raised late has left its own (dbshield/settings.py:600-611).
THEOREM ReloadsAreAllOrNothing ==
  ASSUME "oidc" \notin Providers
  PROVE  ReloadSpec => ReloadIsAllOrNothing
<1> DEFINE Inv == LockInv /\ EnvironInv /\ SettledInv /\ FileInv
<1>1. ReloadInit => Inv
  <2>1. ReloadInit => EnvironInv /\ FileInv
    BY DEF ReloadInit, EnvironInv, FileInv, NoRequest, At, HasOriginal
  <2> QED
    BY <2>1, LockInit, SettledInit
<1>2. Inv /\ [ReloadNext]_reloadVars => Inv'
  BY LockNext, EnvironNext, SettledNext, FileNext
<1>3. Inv /\ [ReloadNext]_reloadVars => [\A h \in Admins : RollbackRestores(h) /\ SuccessUsesConfig(h)]_reloadVars
  <2> SUFFICES ASSUME Inv, [ReloadNext]_reloadVars, NEW h \in Admins
               PROVE  RollbackRestores(h) /\ SuccessUsesConfig(h)
    OBVIOUS
  <2>1. RollbackRestores(h)
    <3> SUFFICES ASSUME ~ mixed, Ends(h, {"rolled back"}), Known(h), ~ settings[rq[h].proc].broken
                 PROVE  /\ Restored(h)
                        /\ (Assigns(rq[h].snap) \/ settings[rq[h].proc].kept = settings[rq[h].proc].backend)
                             => SameBackend(h)
      BY DEF RollbackRestores
    <3>1. ReloadAgain(h)
      BY EndsBy DEF Ends
    <3> QED
      BY <3>1, RollsBack
  <2>2. SuccessUsesConfig(h)
    <3>1. CASE ~ mixed /\ Ends(h, {"ok"})
      <4>1. ReloadSettings(h)
        BY <3>1, EndsBy DEF Ends
      <4> QED
        BY <3>1, <4>1, Succeeds
    <3>2. CASE ~ (~ mixed /\ Ends(h, {"ok"}))
      BY <3>2 DEF SuccessUsesConfig
    <3> QED
      BY <3>1, <3>2
  <2> QED
    BY <2>1, <2>2
<1> QED
  BY <1>1, <1>2, <1>3, PTL DEF ReloadSpec, ReloadIsAllOrNothing

-----------------------------------------------------------------------------
(* Types, and the composition: what is true of a part is true of the whole.*)

\* Every reachable state of the reload has its types, for any number of requests, processes, saves and
\* faults (sql/utils/auth_settings_reload.py).
THEOREM ReloadTypes == ReloadSpec => []ReloadTypeOK
<1>1. LockInv => ReloadTypeOK
  BY DEF LockInv
<1> QED
  BY <1>1, LockInit, LockNext, PTL DEF ReloadSpec

\* The three share no state: the composition implements each of them, so that all that is proved of them
\* is true of what the run explores.
THEOREM RequestsAreTheirParts == MCSpec => QSpec /\ ASpec /\ ReloadSpec
<1>1. MCInit => QInit /\ AInit /\ ReloadInit
  BY DEF MCInit
<1>2. [MCNext]_<<part, qVars, aVars, reloadVars>>
        => [QNext]_qVars /\ [ANext]_aVars /\ [ReloadNext]_reloadVars
  BY Zenon DEF MCNext
<1> QED
  BY <1>1, <1>2, PTL DEF MCSpec, QSpec, ASpec, ReloadSpec

\* Every state that the run of the requests may reach has the types of all three, whichever is chosen and
\* for any chain, company and number of applications, requests and processes.
THEOREM RequestsTypes == MCSpec => []RequestsTypeOK
<1>1. QTypeOK /\ ATypeOK /\ ReloadTypeOK => RequestsTypeOK
  BY DEF RequestsTypeOK
<1> QED
  BY <1>1, RequestsAreTheirParts, PrivilegeTypes, ArchiveTypes, ReloadTypes, PTL
=============================================================================
