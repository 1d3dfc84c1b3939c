--------------------------- MODULE AuditV2_proofs ---------------------------
(***************************************************************************)
(* Lemmas about the approval rules, for any chain: where list.index finds  *)
(* a group, which rows the operations of an audit write, and that a row    *)
(* never says more than what the groups before its node have signed.  The  *)
(* proofs about the tickets that keep copies of such rows rest on them.    *)
(***************************************************************************)
EXTENDS AuditV2, TLAPS, WellFoundedInduction

-----------------------------------------------------------------------------
(* The chain.                                                              *)

\* A set of numbers that is not empty has a least one.
LEMMA LeastNumber ==
  ASSUME NEW S \in SUBSET Nat, S # {}
  PROVE  \E i \in S : \A j \in S : i <= j
<1> DEFINE Less == OpToRel(<, Nat)
<1>1. PICK i \in S : \A j \in S : <<j, i>> \notin Less
  BY NatLessThanWellFounded, WFMin
<1>2. ASSUME NEW j \in S, j < i
      PROVE  <<j, i>> \in Less
  BY <1>2 DEF OpToRel
<1>3. \A j \in S : ~ (j < i)
  BY <1>1, <1>2
<1> QED
  BY <1>3

\* list.index returns a place of the group, and the first one (operate_pass finds
\* its position in the chain this way, workflow_audit.py:488).
LEMMA ChainIndexFirst ==
  ASSUME NEW g \in ChainGroups
  PROVE  /\ ChainIndex(g) \in DOMAIN Chain
         /\ Chain[ChainIndex(g)] = g
         /\ \A j \in DOMAIN Chain : Chain[j] = g => ChainIndex(g) <= j
<1> DEFINE Places == {i \in DOMAIN Chain : Chain[i] = g}
<1>1. DOMAIN Chain = 1..Len(Chain) /\ Len(Chain) \in Nat
  BY ChainAssumption
<1>2. Places \in SUBSET Nat /\ Places # {}
  BY <1>1 DEF ChainGroups
<1>3. \E i \in Places : \A j \in Places : i <= j
  <2> HIDE DEF Places
  <2> QED  BY <1>2, LeastNumber
<1> QED
  BY <1>3 DEF ChainIndex

\* The node after a group is a group of the chain or none, and none exactly for a
\* group whose first place is the last one (workflow_audit.py:494-498).
LEMMA NodeAfterChain ==
  ASSUME NEW g \in ChainGroups
  PROVE  /\ NodeAfter(g) \in Nodes
         /\ NodeAfter(g) = NoNode <=> ChainIndex(g) = Len(Chain)
         /\ NodeAfter(g) # NoNode =>
              /\ ChainIndex(g) + 1 \in DOMAIN Chain
              /\ NodeAfter(g) = Chain[ChainIndex(g) + 1]
              /\ NodeAfter(g) \in ChainGroups
<1>1. ChainIndex(g) \in 1..Len(Chain)
  BY ChainIndexFirst, ChainAssumption
<1>2. \A i \in 1..Len(Chain) : Chain[i] \in Groups /\ Chain[i] # NoNode
  BY ChainAssumption
<1>3. DOMAIN Chain = 1..Len(Chain) /\ Len(Chain) \in Nat
  BY ChainAssumption
<1> QED
  BY <1>1, <1>2, <1>3 DEF NodeAfter, Nodes, ChainGroups

\* The groups of a chain are auth groups.
LEMMA ChainGroupsAreGroups == ChainGroups \subseteq Groups
  BY ChainAssumption DEF ChainGroups

\* A chain has a first node, and a second one unless it has but one.
LEMMA ChainStart ==
  /\ Len(Chain) \in Nat \ {0}
  /\ DOMAIN Chain = 1..Len(Chain)
  /\ Chain[1] \in ChainGroups
  /\ Len(Chain) # 1 => Chain[2] \in ChainGroups
<1>1. DOMAIN Chain = 1..Len(Chain) /\ Len(Chain) \in Nat
  BY ChainAssumption
<1>2. Len(Chain) # 0
  BY ChainAssumption
<1> QED
  BY <1>1, <1>2 DEF ChainGroups

-----------------------------------------------------------------------------
(* Rows.  The pending node of a good row is a group of the chain, or none, *)
(* and the current node of a waiting one is a group of it; else            *)
(* operate_pass would look for a group the chain does not have, or nobody  *)
(* could sign.                                                             *)

GoodRow ==
  {a \in AuditRow :
     /\ a.next \in ChainGroups \cup {NoNode}
     /\ a.status = "waiting" => a.current \in ChainGroups}

\* What create_audit and operate write is a good row.
LEMMA OperateGood ==
  /\ NoAudit \in GoodRow
  /\ \A auto \in {"reject", "pass", "review"} : create_audit(auto) \in GoodRow
  /\ \A a \in GoodRow, action \in WorkflowAction : operate(a, action) \in GoodRow
<1> USE ChainGroupsAreGroups DEF GoodRow, AuditRow, Nodes, WorkflowStatus, NoAudit
<1>1. NoAudit \in GoodRow
  OBVIOUS
<1>2. ASSUME NEW auto \in {"reject", "pass", "review"}
      PROVE  create_audit(auto) \in GoodRow
  BY ChainStart DEF create_audit
<1>3. ASSUME NEW a \in GoodRow, NEW action \in WorkflowAction
      PROVE  operate(a, action) \in GoodRow
  <2>1. CASE action = "pass"
    <3>1. CASE a.next = NoNode
      BY <2>1, <3>1 DEF operate, operate_pass
    <3>2. CASE a.next # NoNode
      <4>1. a.next \in ChainGroups
        BY <3>2
      <4>2. NodeAfter(a.next) \in ChainGroups \cup {NoNode}
        BY <4>1, NodeAfterChain
      <4> QED
        BY <2>1, <3>2, <4>1, <4>2 DEF operate, operate_pass
    <3> QED
      BY <3>1, <3>2
  <2>2. CASE action = "reject"
    BY <2>2 DEF operate, operate_reject
  <2>3. CASE action = "abort"
    BY <2>3 DEF operate, operate_abort
  <2> QED
    BY <2>1, <2>2, <2>3 DEF WorkflowAction
<1> QED
  BY <1>1, <1>2, <1>3

\* The row says no more than what happened: the groups in S signed, and granted is
\* true when the system or all groups have approved.
SoundRow(a, S, granted) ==
  /\ a.status = "passed" => granted
  /\ a.status = "waiting" =>
       /\ a.next = NodeAfter(a.current)
       /\ \A i \in 1..(ChainIndex(a.current) - 1) : Chain[i] \in S

\* A sound row stays sound when more groups have signed.
LEMMA SoundRowGrows ==
  ASSUME NEW a, NEW S, NEW granted, NEW SS, NEW more,
         SoundRow(a, S, granted), S \subseteq SS, granted => more
  PROVE  SoundRow(a, SS, more)
  BY DEF SoundRow

\* What create_audit writes is sound: it passes the ticket only by itself, and puts
\* the first group of the chain in front of the second.
LEMMA CreateSound ==
  ASSUME NEW auto \in {"reject", "pass", "review"}, NEW S, NEW granted,
         auto = "pass" => granted
  PROVE  SoundRow(create_audit(auto), S, granted)
<1>1. CASE auto # "review"
  BY <1>1 DEF SoundRow, create_audit, NoAudit
<1>2. CASE auto = "review"
  <2> DEFINE a == create_audit(auto)
  <2>1. /\ a.status = "waiting"
        /\ a.current = Chain[1]
        /\ a.next = IF Len(Chain) = 1 THEN NoNode ELSE Chain[2]
    BY <1>2 DEF create_audit
  <2>2. ChainIndex(Chain[1]) = 1
    BY ChainStart, ChainIndexFirst
  <2>3. a.next = NodeAfter(a.current)
    BY <2>1, <2>2 DEF NodeAfter
  <2>4. \A i \in 1..(ChainIndex(a.current) - 1) : Chain[i] \in S
    BY <2>1, <2>2
  <2> HIDE DEF a
  <2>5. SoundRow(a, S, granted)
    BY <2>1, <2>3, <2>4 DEF SoundRow
  <2> QED
    BY <2>5 DEF a
<1> QED
  BY <1>1, <1>2

\* Once the group of the current node has signed, what operate_pass writes is sound:
\* after the last node all groups have signed, before it all up to the new one.
LEMMA PassSound ==
  ASSUME NEW a \in GoodRow, a.status = "waiting",
         NEW S, NEW granted, SoundRow(a, S, granted),
         NEW more, granted => more, ChainGroups \subseteq S \cup {a.current} => more
  PROVE  SoundRow(operate_pass(a), S \cup {a.current}, more)
<1> DEFINE SS == S \cup {a.current}
           k == ChainIndex(a.current)
<1>1. a.current \in ChainGroups
  BY DEF GoodRow
<1>2. k \in 1..Len(Chain) /\ Chain[k] = a.current /\ Len(Chain) \in Nat
  BY <1>1, ChainIndexFirst, ChainStart
<1>3. \A i \in 1..k : Chain[i] \in SS
  <2>1. \A i \in 1..(k - 1) : Chain[i] \in S
    BY DEF SoundRow
  <2>2. \A i \in 1..k : i \in 1..(k - 1) \/ i = k
    BY <1>2
  <2> QED
    BY <1>2, <2>1, <2>2
<1>4. a.next = NodeAfter(a.current)
  BY DEF SoundRow
<1> HIDE DEF SS, k
<1>5. CASE a.next = NoNode
  <2>1. k = Len(Chain)
    BY <1>1, <1>4, <1>5, NodeAfterChain DEF k
  <2>2. ChainGroups \subseteq SS
    BY <1>3, <2>1, ChainStart DEF ChainGroups
  <2>3. more
    BY <2>2 DEF SS
  <2>4. operate_pass(a) = [a EXCEPT !.status = "passed", !.current = NoNode]
    BY <1>5 DEF operate_pass
  <2>5. operate_pass(a).status = "passed"
    BY <2>4 DEF GoodRow, AuditRow
  <2> QED
    BY <2>3, <2>5 DEF SoundRow
<1>6. CASE a.next # NoNode
  <2>1. /\ k + 1 \in 1..Len(Chain)
        /\ a.next = Chain[k + 1]
        /\ a.next \in ChainGroups
    BY <1>1, <1>4, <1>6, NodeAfterChain, ChainStart DEF k
  <2>2. ChainIndex(a.next) <= k + 1 /\ ChainIndex(a.next) \in 1..Len(Chain)
    BY <2>1, ChainIndexFirst, ChainStart
  <2>3. \A i \in 1..(ChainIndex(a.next) - 1) : Chain[i] \in SS
    BY <1>2, <1>3, <2>2
  <2>4. operate_pass(a) =
          [status |-> "waiting", current |-> a.next, next |-> NodeAfter(a.next)]
    BY <1>6 DEF operate_pass
  <2> QED
    BY <2>3, <2>4 DEF SoundRow, SS
<1> QED
  BY <1>5, <1>6

\* A refusal or a withdrawal is sound whoever has signed.
LEMMA RefusalSound ==
  ASSUME NEW a \in GoodRow, NEW S, NEW granted
  PROVE  /\ SoundRow(operate_reject(a), S, granted)
         /\ SoundRow(operate_abort(a), S, granted)
         /\ SoundRow(NoAudit, S, granted)
  BY DEF SoundRow, operate_reject, operate_abort, NoAudit, GoodRow, AuditRow
=============================================================================
