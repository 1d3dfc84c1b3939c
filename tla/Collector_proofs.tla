-------------------------- MODULE Collector_proofs --------------------------
(***************************************************************************)
(* What the collection and the aggregation keep for every number of        *)
(* rounds, databases, rows, faults, workers and fingerprints, every size   *)
(* of a batch, every length of a second and every timeout.                 *)
(*   TypeInv       types, and that no time is ahead of the clock;          *)
(*   CollectedInv  what is behind the cursor, behind the lower bound of a  *)
(*                 round, or behind its newest row has been dealt with;    *)
(*   AloneInv      a round of the aggregation with time left has the lock. *)
(***************************************************************************)
EXTENDS Collector, Aggregation, FiniteSetTheorems, WellFoundedInduction, TLAPS

-----------------------------------------------------------------------------
(* Whole seconds.                                                          *)

\* Multiplication keeps the order.
LEMMA Product ==
  ASSUME NEW c \in Nat, NEW a \in Nat, NEW b \in Nat, a <= b
  PROVE  c * a \in Nat /\ c * b \in Nat /\ c * a <= c * b
<1>1. PICK d \in Nat : b = a + d
  <2>1. b - a \in Nat /\ b = a + (b - a)
    OBVIOUS
  <2> QED
    BY <2>1
<1>2. c * a \in Nat /\ c * d \in Nat
  OBVIOUS
<1>3. c * (a + d) = c * a + c * d
  OBVIOUS
<1> QED
  BY <1>1, <1>2, <1>3

\* A quotient is the greatest number whose multiple is not too large.
LEMMA Quotient ==
  ASSUME NEW c \in Nat \ {0}, NEW a \in Nat
  PROVE  /\ a \div c \in Nat
         /\ c * (a \div c) \in Nat
         /\ c * (a \div c) <= a
         /\ \A k \in Nat : c * k <= a => k <= a \div c
<1>1. a \div c \in Nat /\ c * (a \div c) \in Nat /\ c * (a \div c) <= a
  OBVIOUS
<1>2. a < c * ((a \div c) + 1)
  OBVIOUS
<1>3. ASSUME NEW k \in Nat, c * k <= a, ~ (k <= a \div c)
      PROVE  FALSE
  <2>1. (a \div c) + 1 \in Nat /\ (a \div c) + 1 <= k
    BY <1>1, <1>3
  <2>2. c * ((a \div c) + 1) <= c * k /\ c * ((a \div c) + 1) \in Nat /\ c * k \in Nat
    BY <2>1, Product
  <2> QED
    BY <1>2, <1>3, <2>2
<1> QED
  BY <1>1, <1>3

\* What strftime leaves of a time is not later, and keeps the order; nothing is logged in
\* the second before the first.
LEMMA FloorFacts ==
  ASSUME NEW t \in Nat
  PROVE  /\ Floor(t) \in Nat
         /\ Floor(t) <= t
         /\ \A u \in Nat : t <= u => Floor(t) <= Floor(u)
         /\ t >= PerSecond => Floor(t) > 0
<1> USE CollectorAssumption
<1>1. /\ t \div PerSecond \in Nat
      /\ PerSecond * (t \div PerSecond) \in Nat
      /\ PerSecond * (t \div PerSecond) <= t
  BY Quotient
<1>2. ASSUME NEW u \in Nat, t <= u
      PROVE  Floor(t) <= Floor(u)
  <2>1. u \div PerSecond \in Nat /\ t \div PerSecond <= u \div PerSecond
    BY <1>1, <1>2, Quotient
  <2> QED
    BY <1>1, <2>1, Product DEF Floor
<1>3. ASSUME t >= PerSecond
      PROVE  Floor(t) > 0
  <2>1. 1 <= t \div PerSecond
    BY <1>3, Quotient
  <2>2. PerSecond * 1 <= PerSecond * (t \div PerSecond)
    BY <1>1, <2>1, Product
  <2> QED
    BY <2>2 DEF Floor
<1> QED
  BY <1>1, <1>2, <1>3 DEF Floor

\* Rounding keeps the order too, and does not fall behind the whole second.
LEMMA StoredFacts ==
  ASSUME NEW t \in Nat
  PROVE  /\ Stored(t) \in Nat
         /\ Floor(t) <= Stored(t)
         /\ \A u \in Nat : t <= u => Stored(t) <= Stored(u)
<1> USE CollectorAssumption
<1> DEFINE Half(u) == (2 * u + PerSecond) \div (2 * PerSecond)
<1>1. 2 * PerSecond \in Nat \ {0}
  OBVIOUS
<1>2. ASSUME NEW u \in Nat
      PROVE  /\ 2 * u + PerSecond \in Nat
             /\ Half(u) \in Nat
             /\ (2 * PerSecond) * Half(u) <= 2 * u + PerSecond
             /\ (2 * PerSecond) * Half(u) \in Nat
  <2>1. 2 * u + PerSecond \in Nat
    OBVIOUS
  <2> DEFINE c == 2 * PerSecond
             a == 2 * u + PerSecond
  <2>2. c \in Nat \ {0} /\ a \in Nat
    BY <1>1, <2>1
  <2>3. a \div c \in Nat /\ c * (a \div c) <= a /\ c * (a \div c) \in Nat
    <3> HIDE DEF a, c
    <3> QED
      BY <2>2, Quotient
  <2> QED
    BY <2>1, <2>3
<1>3. PerSecond * Half(t) \in Nat
  BY <1>2
<1>4. t \div PerSecond <= Half(t)
  <2>1. t \div PerSecond \in Nat /\ PerSecond * (t \div PerSecond) <= t
    BY Quotient
  <2>2. (2 * PerSecond) * (t \div PerSecond) = 2 * (PerSecond * (t \div PerSecond))
    BY <2>1
  <2>3. (2 * PerSecond) * (t \div PerSecond) <= 2 * t + PerSecond
    BY <2>1, <2>2
  <2> QED
    BY <1>1, <1>2, <2>1, <2>3, Quotient
<1>5. Floor(t) <= PerSecond * Half(t)
  <2>1. t \div PerSecond \in Nat
    BY Quotient
  <2> QED
    BY <1>2, <1>4, <2>1, Product DEF Floor
<1>6. ASSUME NEW u \in Nat, t <= u
      PROVE  PerSecond * Half(t) <= PerSecond * Half(u)
  <2>1. (2 * PerSecond) * Half(t) <= 2 * u + PerSecond
    BY <1>2, <1>6
  <2>2. Half(t) <= Half(u)
    BY <1>1, <1>2, <2>1, Quotient
  <2> QED
    BY <1>2, <2>2, Product
<1> QED
  BY <1>3, <1>5, <1>6 DEF Stored

-----------------------------------------------------------------------------
(* The newest row of a batch.                                              *)

\* A set of numbers that is not empty has a least one.
LEMMA LeastNumber ==
  ASSUME NEW S \in SUBSET Nat, S # {}
  PROVE  \E i \in S : \A j \in S : i <= j
<1> DEFINE Less == OpToRel(<, Nat)
<1>1. PICK i \in S : \A j \in S : <<j, i>> \notin Less
  BY NatLessThanWellFounded, WFMin
<1>2. ASSUME NEW j \in S, j < i
      PROVE  <<j, i>> \in Less
  BY <1>2 DEF OpToRel
<1>3. \A j \in S : ~ (j < i)
  BY <1>1, <1>2
<1> QED
  BY <1>3

\* And if none of its numbers is above the end of time, a greatest one.
LEMMA GreatestTime ==
  ASSUME NEW S \in SUBSET Time, S # {}
  PROVE  \E m \in S : \A j \in S : m >= j
<1> USE CollectorAssumption DEF Time
<1> DEFINE R == {MaxNow - j : j \in S}
<1>1. R \in SUBSET Nat /\ R # {}
  <2>1. \A j \in S : j \in Nat /\ j <= MaxNow
    OBVIOUS
  <2>2. \A j \in S : MaxNow - j \in Nat
    BY <2>1
  <2>3. PICK j \in S : TRUE
    OBVIOUS
  <2>4. MaxNow - j \in R
    BY <2>3
  <2> QED
    BY <2>2, <2>4
<1>2. PICK i \in R : \A k \in R : i <= k
  <2> HIDE DEF R
  <2> QED
    BY <1>1, LeastNumber
<1>3. PICK m \in S : i = MaxNow - m
  BY <1>2
<1>4. \A j \in S : MaxNow - m <= MaxNow - j
  BY <1>2, <1>3
<1>5. \A j \in S : m >= j
  BY <1>4
<1> QED
  BY <1>5

\* The greater of the old bound and the times of a batch (update_max_cursor).
LEMMA LaterFacts ==
  ASSUME NEW t \in Time, NEW B, \A p \in B : log[p].at \in Time
  PROVE  /\ Later(t, B) \in Time
         /\ Later(t, B) = t \/ \E p \in B : Later(t, B) = log[p].at
         /\ Later(t, B) >= t
         /\ \A p \in B : Later(t, B) >= log[p].at
<1> DEFINE S == {t} \cup {log[p].at : p \in B}
<1>1. S \in SUBSET Time /\ S # {}
  OBVIOUS
<1>2. \E m \in S : \A j \in S : m >= j
  <2> HIDE DEF S
  <2> QED
    BY <1>1, GreatestTime
<1>3. \E m \in S : m >= t /\ \A p \in B : m >= log[p].at
  BY <1>2
<1>4. /\ Later(t, B) \in S
      /\ Later(t, B) >= t
      /\ \A p \in B : Later(t, B) >= log[p].at
  BY <1>3 DEF Later
<1> QED
  BY <1>1, <1>4

-----------------------------------------------------------------------------
(* Types.                                                                  *)

\* The time a row gets when it is logged now.
Stamp == IF kind = "redis" THEN Floor(now) ELSE now

TypeInv ==
  /\ kind \in Kinds
  /\ now \in Time /\ now >= PerSecond
  /\ log \in Seq(Entry) /\ Len(log) <= MaxRows
  /\ \A p \in DOMAIN log : 0 < log[p].at /\ log[p].at <= Stamp
  /\ \A p \in DOMAIN log : kind = "mongo" => log[p].db \in Dbs
  /\ gone \subseteq DOMAIN log
  /\ cursor \in 0..Stored(now)
  /\ round \in [Rounds -> Round]
  /\ \A r \in Rounds : /\ round[r].end <= now
                       /\ round[r].max <= now
                       /\ round[r].batch \subseteq DOMAIN log
  /\ faults \in 0..MaxFaults
  /\ settled \subseteq DOMAIN log

\* A new stamp is a time, after the beginning and not before that of any row.
LEMMA StampFacts ==
  ASSUME TypeInv
  PROVE  Stamp \in Time /\ 0 < Stamp /\ Stamp <= now
BY FloorFacts, CollectorAssumption DEF TypeInv, Stamp, Time

\* What is defined from the constants alone.
LEMMA IdleGood == Idle \in Round
BY StoredFacts, CollectorAssumption DEF Idle, Round, Time

\* In the beginning all is empty.
LEMMA TypeInit == Init => TypeInv
BY IdleGood, StoredFacts, CollectorAssumption DEF Init, TypeInv, Time, Idle

\* A round that goes on leaves the others alone.
LEMMA OneRound ==
  ASSUME TypeInv, NEW r \in Rounds, NEW new \in Round,
         round' = [round EXCEPT ![r] = new],
         new.end <= now, new.max <= now, new.batch \subseteq DOMAIN log
  PROVE  /\ round' \in [Rounds -> Round]
         /\ \A s \in Rounds : /\ round'[s].end <= now
                              /\ round'[s].max <= now
                              /\ round'[s].batch \subseteq DOMAIN log
BY DEF TypeInv

\* The rows of a batch are rows, at times that have come.
LEMMA BatchFacts ==
  ASSUME TypeInv, NEW r \in Rounds, NEW B \in SUBSET DOMAIN log
  PROVE  /\ B \in SUBSET (1..MaxRows)
         /\ \A p \in B : log[p].at \in Time
         /\ Later(round[r].max, B) \in Time
         /\ Later(round[r].max, B) <= now
<1> USE DEF TypeInv
<1>1. DOMAIN log = 1..Len(log) /\ Len(log) \in Nat /\ MaxRows \in Nat
  BY CollectorAssumption
<1>2. B \in SUBSET (1..MaxRows)
  BY <1>1
<1>3. \A p \in B : log[p] \in Entry
  BY <1>1
<1>4. \A p \in B : log[p].at \in Time /\ log[p].at <= now
  BY <1>3, StampFacts DEF Entry, Time
<1>5. round[r].max \in Time /\ round[r].max <= now
  BY DEF Round
<1>6. /\ Later(round[r].max, B) \in Time
      /\ Later(round[r].max, B) = round[r].max
         \/ \E p \in B : Later(round[r].max, B) = log[p].at
  BY <1>4, <1>5, LaterFacts
<1> QED
  BY <1>2, <1>4, <1>5, <1>6

\* Each step of a round, as the record it leaves: what is read, in which order it is
\* stored, and where the round goes on.
Becomes(r, new) == round' = [round EXCEPT ![r] = new]

LEMMA BeginStep ==
  ASSUME TypeInv, NEW r \in Rounds, Begin(r)
  PROVE  \E from \in 0..Stored(MaxNow), end \in Time, dbs \in SUBSET Dbs :
           /\ Becomes(r, [Idle EXCEPT !.pc = "read", !.from = from, !.end = end,
                                          !.dbs = dbs])
           /\ from <= cursor
           /\ end <= now
           /\ kind = "mongo" => end = now
           /\ dbs = IF kind = "mongo" THEN Dbs ELSE {}
<1> DEFINE from == IF kind = "mysql" THEN Floor(cursor) ELSE cursor
           end  == IF kind = "mysql" THEN Floor(now) ELSE now
           dbs  == IF kind = "mongo" THEN Dbs ELSE {}
<1>1. now \in Nat /\ now <= MaxNow /\ MaxNow \in Nat
  BY CollectorAssumption DEF TypeInv, Time
<1>2. Stored(now) \in Nat /\ Stored(MaxNow) \in Nat /\ Stored(now) <= Stored(MaxNow)
  BY <1>1, StoredFacts
<1>3. cursor \in Nat /\ cursor <= Stored(MaxNow)
  BY <1>2 DEF TypeInv
<1>4. from \in 0..Stored(MaxNow) /\ from <= cursor
  BY <1>2, <1>3, FloorFacts
<1>5. end \in Time /\ end <= now
  BY <1>1, FloorFacts DEF Time
<1>6. Becomes(r, [Idle EXCEPT !.pc = "read", !.from = from, !.end = end, !.dbs = dbs])
  BY DEF Begin, Becomes
<1>7. kind = "mongo" => end = now
  OBVIOUS
<1> QED
  BY <1>4, <1>5, <1>6, <1>7

LEMMA ReadMySQLStep ==
  ASSUME TypeInv, NEW r \in Rounds, ReadMySQL(r)
  PROVE  \E B \in SUBSET Window(r), full \in BOOLEAN, pc \in {"commit", "store"} :
           /\ Earliest(B, Window(r))
           /\ Complete(B, Window(r)) /\ (full <=> Cardinality(B) = Limit)
           /\ B = {} <=> pc = "commit"
           /\ Becomes(r, [round[r] EXCEPT !.batch = B, !.full = full,
                                !.max = Later(round[r].max, B), !.pc = pc])
<1>1. PICK B \in SUBSET Window(r) :
        /\ Earliest(B, Window(r)) /\ Complete(B, Window(r))
        /\ round' = [round EXCEPT ![r].batch = B,
                                  ![r].full = (Cardinality(B) = Limit),
                                  ![r].max = Later(@, B),
                                  ![r].pc = IF B = {} THEN "commit" ELSE "store"]
  BY DEF ReadMySQL
<1> DEFINE full == (Cardinality(B) = Limit)
           pc   == IF B = {} THEN "commit" ELSE "store"
<1>2. Becomes(r, [round[r] EXCEPT !.batch = B, !.full = full,
                        !.max = Later(round[r].max, B), !.pc = pc])
  BY <1>1 DEF Becomes, TypeInv, Round
<1>3. full \in BOOLEAN /\ pc \in {"commit", "store"} /\ (B = {} <=> pc = "commit")
  OBVIOUS
<1>4. full <=> Cardinality(B) = Limit
  OBVIOUS
<1> QED
  <2> HIDE DEF full, pc
  <2> QED
    BY <1>1, <1>2, <1>3, <1>4

LEMMA ReadMongoStep ==
  ASSUME TypeInv, NEW r \in Rounds, ReadMongo(r)
  PROVE  \E db \in round[r].dbs, pc \in {"read", "store"} :
         \E B \in SUBSET {p \in Window(r) : log[p].db = db} :
           /\ settled' = settled \cup ({p \in Window(r) : log[p].db = db} \ B)
           /\ pc = "store" => round[r].dbs = {db}
           /\ Becomes(r, [round[r] EXCEPT !.batch = round[r].batch \cup B,
                                !.max = Later(round[r].max, B),
                                !.dbs = round[r].dbs \ {db}, !.pc = pc])
<1>1. PICK db \in round[r].dbs : \E B \in SUBSET {p \in Window(r) : log[p].db = db} :
        /\ settled' = settled \cup ({p \in Window(r) : log[p].db = db} \ B)
        /\ round' = [round EXCEPT ![r].batch = @ \cup B,
                                  ![r].max = Later(@, B),
                                  ![r].dbs = @ \ {db},
                                  ![r].pc = IF round[r].dbs = {db}
                                            THEN "store" ELSE "read"]
  BY DEF ReadMongo
<1>2. PICK B \in SUBSET {p \in Window(r) : log[p].db = db} :
        /\ settled' = settled \cup ({p \in Window(r) : log[p].db = db} \ B)
        /\ round' = [round EXCEPT ![r].batch = @ \cup B,
                                  ![r].max = Later(@, B),
                                  ![r].dbs = @ \ {db},
                                  ![r].pc = IF round[r].dbs = {db}
                                            THEN "store" ELSE "read"]
  BY <1>1
<1> DEFINE pc == IF round[r].dbs = {db} THEN "store" ELSE "read"
<1>3. Becomes(r, [round[r] EXCEPT !.batch = round[r].batch \cup B,
                        !.max = Later(round[r].max, B),
                        !.dbs = round[r].dbs \ {db}, !.pc = pc])
  BY <1>2 DEF Becomes, TypeInv, Round
<1>4. pc \in {"read", "store"} /\ (pc = "store" => round[r].dbs = {db})
  OBVIOUS
<1> QED
  <2> HIDE DEF pc
  <2> QED
    BY <1>2, <1>3, <1>4

LEMMA ReadRedisStep ==
  ASSUME TypeInv, NEW r \in Rounds, ReadRedis(r)
  PROVE  \E B \in SUBSET {p \in Present : log[p].at > round[r].from} :
           /\ settled' = settled \cup ({p \in Present : log[p].at > round[r].from} \ B)
           /\ Becomes(r, [round[r] EXCEPT !.batch = B,
                                !.max = Later(round[r].max, B), !.pc = "store"])
<1> DEFINE new == {p \in Present : log[p].at > round[r].from}
           B   == {p \in new : Cardinality({q \in Present : q > p}) < Limit}
<1>1. B \in SUBSET new
  OBVIOUS
<1>2. settled' = settled \cup (new \ B)
  BY DEF ReadRedis
<1>3. Becomes(r, [round[r] EXCEPT !.batch = B, !.max = Later(round[r].max, B),
                                      !.pc = "store"])
  <2> HIDE DEF B
  <2> QED
    BY DEF ReadRedis, Becomes, TypeInv, Round, B
<1> QED
  BY <1>1, <1>2, <1>3

LEMMA StoreMySQLStep ==
  ASSUME TypeInv, NEW r \in Rounds, StoreMySQL(r)
  PROVE  \E C \in SUBSET round[r].batch, from \in 0..Stored(MaxNow),
            pc \in {"store", "read", "commit"} :
           /\ settled' = settled \cup C
           /\ Becomes(r, [round[r] EXCEPT !.batch = round[r].batch \ C,
                                              !.from = from, !.pc = pc])
           /\ \/ pc = "store" /\ from = round[r].from
              \/ C = round[r].batch /\ from <= round[r].max
           /\ pc = "commit" => ~ round[r].full
<1>1. PICK C \in SUBSET round[r].batch :
        /\ settled' = settled \cup C
        /\ round' = [round EXCEPT ![r].batch = @ \ C,
                                  ![r].from = IF C = round[r].batch
                                              THEN Floor(round[r].max) ELSE @,
                                  ![r].pc = IF C # round[r].batch THEN "store"
                                           ELSE IF round[r].full THEN "read"
                                           ELSE "commit"]
  BY DEF StoreMySQL
<1> DEFINE from == IF C = round[r].batch THEN Floor(round[r].max) ELSE round[r].from
           pc   == IF C # round[r].batch THEN "store"
                   ELSE IF round[r].full THEN "read"
                   ELSE "commit"
<1>2. round[r] \in Round
  BY DEF TypeInv
<1>3. round[r].max \in Nat /\ round[r].max <= MaxNow /\ MaxNow \in Nat
  BY <1>2, CollectorAssumption DEF Round, Time
<1>4. Floor(round[r].max) \in 0..Stored(MaxNow) /\ Floor(round[r].max) <= round[r].max
  BY <1>3, FloorFacts, StoredFacts
<1>5. from \in 0..Stored(MaxNow)
  BY <1>2, <1>4 DEF Round
<1>6. /\ pc \in {"store", "read", "commit"} /\ (C # round[r].batch => pc = "store")
      /\ pc = "commit" => ~ round[r].full
  OBVIOUS
<1>7. Becomes(r, [round[r] EXCEPT !.batch = round[r].batch \ C, !.from = from,
                                      !.pc = pc])
  <2> HIDE DEF pc
  <2>1. round' = [round EXCEPT ![r].batch = @ \ C,
                               ![r].from = IF C = round[r].batch
                                           THEN Floor(round[r].max) ELSE @,
                               ![r].pc = pc]
    BY <1>1 DEF pc
  <2> QED
    BY <1>2, <2>1 DEF Becomes, TypeInv, Round
<1>8. \/ pc = "store" /\ from = round[r].from
      \/ C = round[r].batch /\ from <= round[r].max
  <2> HIDE DEF pc
  <2> QED
    BY <1>4, <1>6
<1> QED
  BY <1>1, <1>5, <1>6, <1>7, <1>8

\* The rows of a window, and those of one database in it, are rows.
LEMMA WindowRows == \A r \in Rounds : Window(r) \subseteq DOMAIN log
BY DEF Window, Present

\* Every step keeps the types.
LEMMA TypeNext == TypeInv /\ [Next]_vars => TypeInv'
<1> SUFFICES ASSUME TypeInv, [Next]_vars PROVE TypeInv'
  OBVIOUS
<1> USE CollectorAssumption DEF TypeInv, server
<1>1. now \in Nat /\ now <= MaxNow /\ DOMAIN log = 1..Len(log) /\ Len(log) \in Nat
  BY DEF Time
<1>2. server' = server => Stamp' = Stamp
  BY DEF Stamp
<1>3. ASSUME Tick
      PROVE  TypeInv'
  <2>1. /\ now' = now + 1 /\ now' \in Time
        /\ UNCHANGED <<kind, log, gone, cursor, round, faults, settled>>
    BY <1>1, <1>3 DEF Tick, Time
  <2>2. Stamp <= Stamp' /\ Stamp \in Nat /\ Stamp' \in Nat
    <3>1. now \in Nat /\ now' \in Nat /\ now <= now' /\ kind' = kind
      BY <1>1, <2>1
    <3>2. /\ Floor(now) \in Nat /\ Floor(now') \in Nat
          /\ Floor(now) <= Floor(now')
      BY <3>1, FloorFacts
    <3> QED
      BY <3>1, <3>2 DEF Stamp
  <2>3. \A p \in DOMAIN log : log[p].at \in Nat
    <3>1. \A p \in DOMAIN log : log[p] \in Entry
      BY <1>1
    <3> QED
      BY <3>1 DEF Entry, Time
  <2>4. Stored(now) <= Stored(now') /\ Stored(now) \in Nat /\ Stored(now') \in Nat
    BY <1>1, <2>1, StoredFacts
  <2>5. \A r \in Rounds : round[r].end \in Nat /\ round[r].max \in Nat
    BY DEF Round, Time
  <2>6. \A p \in DOMAIN log : 0 < log[p].at /\ log[p].at <= Stamp'
    BY <2>2, <2>3
  <2>7. cursor \in 0..Stored(now')
    BY <2>4
  <2>8. \A r \in Rounds : round[r].end <= now' /\ round[r].max <= now'
    BY <1>1, <2>1, <2>5
  <2>9. now' >= PerSecond
    BY <1>1, <2>1
  <2> QED
    BY <2>1, <2>6, <2>7, <2>8, <2>9
<1>4. ASSUME Log
      PROVE  TypeInv'
  <2>1. PICK e \in Entry : /\ e.at = Stamp /\ log' = Append(log, e)
                           /\ kind = "mongo" => e.db \in Dbs
    <3>1. PICK db \in Dbs \cup {NoDb}, fits \in BOOLEAN :
            /\ kind = "mongo" => db \in Dbs
            /\ log' = Append(log, [at   |-> IF kind = "redis" THEN Floor(now) ELSE now,
                                   db   |-> db,
                                   fits |-> fits])
      BY <1>4 DEF Log
    <3>2. [at |-> Stamp, db |-> db, fits |-> fits] \in Entry
      BY StampFacts DEF Entry
    <3> QED
      BY <3>1, <3>2 DEF Stamp
  <2>2. UNCHANGED <<kind, now, gone, cursor, round, faults, settled>> /\ Len(log) < MaxRows
    BY <1>4 DEF Log
  <2>3. /\ log' \in Seq(Entry) /\ Len(log') = Len(log) + 1
        /\ DOMAIN log' = DOMAIN log \cup {Len(log) + 1}
        /\ \A p \in DOMAIN log : log'[p] = log[p]
        /\ log'[Len(log) + 1] = e
    BY <1>1, <2>1
  <2>4. Stamp' = Stamp
    BY <2>2 DEF Stamp
  <2>5. \A p \in DOMAIN log' : 0 < log'[p].at /\ log'[p].at <= Stamp'
    BY <2>1, <2>3, <2>4, StampFacts DEF Time
  <2>6. \A p \in DOMAIN log' : kind' = "mongo" => log'[p].db \in Dbs
    BY <2>1, <2>2, <2>3
  <2>7. Len(log') <= MaxRows
    BY <1>1, <2>2, <2>3
  <2> QED
    BY <2>2, <2>3, <2>5, <2>6, <2>7
<1>5. ASSUME Evict \/ Clear
      PROVE  TypeInv'
  <2>1. /\ UNCHANGED <<kind, now, log, cursor, round, faults, settled>>
        /\ gone' \subseteq DOMAIN log
    BY <1>5 DEF Evict, Clear, Present
  <2> QED
    BY <2>1 DEF Stamp
<1>6. ASSUME NEW r \in Rounds, NEW new \in Round, Becomes(r, new),
             new.end <= now, new.max <= now, new.batch \subseteq DOMAIN log,
             server' = server, cursor' \in 0..Stored(now),
             faults' \in 0..MaxFaults, settled' \subseteq DOMAIN log
      PROVE  TypeInv'
  <2>1. round' = [round EXCEPT ![r] = new]
    BY <1>6 DEF Becomes
  <2>2. /\ round' \in [Rounds -> Round]
        /\ \A s \in Rounds : /\ round'[s].end <= now
                             /\ round'[s].max <= now
                             /\ round'[s].batch \subseteq DOMAIN log
    BY <1>6, <2>1, OneRound
  <2> QED
    BY <1>2, <1>6, <2>2
<1>7. ASSUME NEW r \in Rounds, Begin(r)
      PROVE  TypeInv'
  <2>1. PICK from \in 0..Stored(MaxNow), end \in Time, dbs \in SUBSET Dbs :
          /\ Becomes(r, [Idle EXCEPT !.pc = "read", !.from = from, !.end = end,
                                         !.dbs = dbs])
          /\ end <= now
    BY <1>7, BeginStep
  <2> DEFINE new == [Idle EXCEPT !.pc = "read", !.from = from, !.end = end, !.dbs = dbs]
  <2>2. new \in Round /\ new.end <= now /\ new.max <= now /\ new.batch \subseteq DOMAIN log
    <3>1. 0 \in Time /\ 0 <= now
      BY <1>1 DEF Time
    <3> QED
      BY <2>1, <3>1 DEF Round, Idle
  <2>3. server' = server /\ UNCHANGED <<cursor, faults, settled>>
    BY <1>7 DEF Begin
  <2> HIDE DEF new
  <2> QED
    BY <1>6, <2>1, <2>2, <2>3 DEF new
<1>8. ASSUME NEW r \in Rounds
      PROVE  round[r] \in Round /\ round[r].end <= now /\ round[r].max <= now
             /\ round[r].batch \subseteq DOMAIN log
  OBVIOUS
<1>9. ASSUME NEW r \in Rounds, ReadMySQL(r)
      PROVE  TypeInv'
  <2>1. PICK B \in SUBSET Window(r), full \in BOOLEAN, pc \in {"commit", "store"} :
          Becomes(r, [round[r] EXCEPT !.batch = B, !.full = full,
                            !.max = Later(round[r].max, B), !.pc = pc])
    BY <1>9, ReadMySQLStep
  <2> DEFINE new == [round[r] EXCEPT !.batch = B, !.full = full,
                       !.max = Later(round[r].max, B), !.pc = pc]
  <2>2. /\ B \subseteq DOMAIN log /\ B \in SUBSET (1..MaxRows)
        /\ Later(round[r].max, B) \in Time /\ Later(round[r].max, B) <= now
    BY WindowRows, BatchFacts
  <2>3. new \in Round /\ new.end <= now /\ new.max <= now /\ new.batch \subseteq DOMAIN log
    BY <1>8, <2>2 DEF Round
  <2>4. server' = server /\ UNCHANGED <<cursor, faults, settled>>
    BY <1>9 DEF ReadMySQL
  <2> HIDE DEF new
  <2> QED
    BY <1>6, <2>1, <2>3, <2>4 DEF new
<1>10. ASSUME NEW r \in Rounds, ReadMongo(r)
       PROVE  TypeInv'
  <2>1. PICK db \in round[r].dbs, pc \in {"read", "store"} :
        \E B \in SUBSET {p \in Window(r) : log[p].db = db} :
          /\ settled' = settled \cup ({p \in Window(r) : log[p].db = db} \ B)
          /\ Becomes(r, [round[r] EXCEPT !.batch = round[r].batch \cup B,
                               !.max = Later(round[r].max, B),
                               !.dbs = round[r].dbs \ {db}, !.pc = pc])
    BY <1>10, ReadMongoStep
  <2>2. PICK B \in SUBSET {p \in Window(r) : log[p].db = db} :
          /\ settled' = settled \cup ({p \in Window(r) : log[p].db = db} \ B)
          /\ Becomes(r, [round[r] EXCEPT !.batch = round[r].batch \cup B,
                               !.max = Later(round[r].max, B),
                               !.dbs = round[r].dbs \ {db}, !.pc = pc])
    BY <2>1
  <2> DEFINE new == [round[r] EXCEPT !.batch = round[r].batch \cup B,
                       !.max = Later(round[r].max, B),
                       !.dbs = round[r].dbs \ {db}, !.pc = pc]
  <2>3. /\ B \subseteq DOMAIN log /\ B \in SUBSET (1..MaxRows)
        /\ Later(round[r].max, B) \in Time /\ Later(round[r].max, B) <= now
    BY WindowRows, BatchFacts
  <2>4. new \in Round /\ new.end <= now /\ new.max <= now /\ new.batch \subseteq DOMAIN log
    BY <1>8, <2>3 DEF Round
  <2>5. server' = server /\ cursor' = cursor
    BY <1>10 DEF ReadMongo
  <2>6. faults' \in 0..MaxFaults
    BY <1>10 DEF ReadMongo, Fault
  <2>7. settled' \subseteq DOMAIN log
    BY <2>2, WindowRows
  <2> HIDE DEF new
  <2> QED
    BY <1>6, <2>2, <2>4, <2>5, <2>6, <2>7 DEF new
<1>11. ASSUME NEW r \in Rounds, ReadRedis(r)
       PROVE  TypeInv'
  <2>1. PICK B \in SUBSET {p \in Present : log[p].at > round[r].from} :
          /\ settled' = settled \cup ({p \in Present : log[p].at > round[r].from} \ B)
          /\ Becomes(r, [round[r] EXCEPT !.batch = B,
                               !.max = Later(round[r].max, B), !.pc = "store"])
    BY <1>11, ReadRedisStep
  <2> DEFINE new == [round[r] EXCEPT !.batch = B,
                       !.max = Later(round[r].max, B), !.pc = "store"]
  <2>2. /\ B \subseteq DOMAIN log /\ B \in SUBSET (1..MaxRows)
        /\ Later(round[r].max, B) \in Time /\ Later(round[r].max, B) <= now
    BY BatchFacts DEF Present
  <2>3. new \in Round /\ new.end <= now /\ new.max <= now /\ new.batch \subseteq DOMAIN log
    BY <1>8, <2>2 DEF Round
  <2>4. server' = server /\ UNCHANGED <<cursor, faults>>
    BY <1>11 DEF ReadRedis
  <2>5. settled' \subseteq DOMAIN log
    BY <2>1 DEF Present
  <2> HIDE DEF new
  <2> QED
    BY <1>6, <2>1, <2>3, <2>4, <2>5 DEF new
<1>12. ASSUME NEW r \in Rounds, StoreMySQL(r)
       PROVE  TypeInv'
  <2>1. PICK C \in SUBSET round[r].batch, from \in 0..Stored(MaxNow),
             pc \in {"store", "read", "commit"} :
          /\ settled' = settled \cup C
          /\ Becomes(r, [round[r] EXCEPT !.batch = round[r].batch \ C,
                                             !.from = from, !.pc = pc])
    BY <1>12, StoreMySQLStep
  <2> DEFINE new == [round[r] EXCEPT !.batch = round[r].batch \ C, !.from = from, !.pc = pc]
  <2>2. new \in Round /\ new.end <= now /\ new.max <= now /\ new.batch \subseteq DOMAIN log
    BY <1>8, <2>1 DEF Round
  <2>3. server' = server /\ UNCHANGED <<cursor, faults>>
    BY <1>12 DEF StoreMySQL
  <2>4. settled' \subseteq DOMAIN log
    BY <1>8, <2>1
  <2> HIDE DEF new
  <2> QED
    BY <1>6, <2>1, <2>2, <2>3, <2>4 DEF new
<1>13. Idle \in Round /\ Idle.end <= now /\ Idle.max <= now /\ Idle.batch \subseteq DOMAIN log
  BY <1>1, IdleGood DEF Idle
<1>14. ASSUME NEW r \in Rounds, ReadMySQLFails(r) \/ StoreOther(r)
       PROVE  TypeInv'
  <2>1. \E new \in {[round[r] EXCEPT !.pc = "commit"],
                    [round[r] EXCEPT !.batch = {}, !.pc = "commit"], Idle} :
          Becomes(r, new)
    BY <1>14 DEF ReadMySQLFails, StoreOther, Becomes, Round
  <2>2. \A new \in {[round[r] EXCEPT !.pc = "commit"],
                    [round[r] EXCEPT !.batch = {}, !.pc = "commit"], Idle} :
          new \in Round /\ new.end <= now /\ new.max <= now /\ new.batch \subseteq DOMAIN log
    <3> HIDE DEF TypeInv
    <3> DEFINE a == [round[r] EXCEPT !.pc = "commit"]
               b == [round[r] EXCEPT !.batch = {}, !.pc = "commit"]
    <3>1. a \in Round /\ a.end <= now /\ a.max <= now /\ a.batch \subseteq DOMAIN log
      BY <1>8 DEF Round
    <3>2. b \in Round /\ b.end <= now /\ b.max <= now /\ b.batch \subseteq DOMAIN log
      BY <1>8 DEF Round
    <3> HIDE DEF a, b
    <3>3. \A new \in {a, b, Idle} :
            /\ new \in Round /\ new.end <= now /\ new.max <= now
            /\ new.batch \subseteq DOMAIN log
      BY <1>13, <3>1, <3>2
    <3> QED
      BY <3>3 DEF a, b
  <2>3. server' = server /\ cursor' = cursor
    BY <1>14 DEF ReadMySQLFails, StoreOther
  <2>4. faults' \in 0..MaxFaults /\ settled' \subseteq DOMAIN log
    BY <1>8, <1>14 DEF ReadMySQLFails, StoreOther, Fault
  <2> QED
    BY <1>6, <2>1, <2>2, <2>3, <2>4
<1>15. ASSUME NEW r \in Rounds, Commit(r) \/ BreakOff(r)
       PROVE  TypeInv'
  <2>1. Becomes(r, Idle) /\ server' = server /\ settled' = settled
    BY <1>15 DEF Commit, BreakOff, Becomes
  <2>2. faults' \in 0..MaxFaults
    BY <1>15 DEF Commit, BreakOff, Fault
  <2>3. cursor' \in 0..Stored(now)
    <3>1. round[r].max \in Nat /\ round[r].max <= now
      BY <1>1, <1>8 DEF Round, Time
    <3>2. Stored(round[r].max) \in Nat /\ Stored(now) \in Nat
          /\ Stored(round[r].max) <= Stored(now)
      BY <1>1, <3>1, StoredFacts
    <3> QED
      BY <1>15, <3>2 DEF Commit, BreakOff
  <2> QED
    BY <1>6, <1>13, <2>1, <2>2, <2>3
<1>16. ASSUME UNCHANGED vars
       PROVE  TypeInv'
  BY <1>16 DEF vars, Stamp
<1> QED
  BY <1>3, <1>4, <1>5, <1>7, <1>9, <1>10, <1>11, <1>12, <1>14, <1>15, <1>16
     DEF Next, RoundStep

-----------------------------------------------------------------------------
(* What has been passed has been collected.                                *)

\* Rows that PassedWereCollected does not except.
Exposed(p) == ~ Tied(p) /\ ~ RoundedOver(p)

\* No later than a row, or than its rounded time: a row that is logged now and is exposed
\* is later.
Reached(t) ==
  t = 0 \/ \E q \in DOMAIN log : t <= log[q].at \/ t <= Stored(log[q].at)

\* All up to t has been dealt with.
Behind(t) ==
  \A p \in DOMAIN log : log[p].at <= t /\ Exposed(p) => p \in settled \cup gone

\* Rows that have been dealt with or are in the round's hands.
Handled(r) == settled \cup gone \cup round[r].batch

\* Up to here the round has seen all rows of the databases it has read: mongo's databases
\* are read one after the other, so that only the end of the window is common to them.
Bound(r) == IF kind = "mongo" THEN round[r].end ELSE round[r].max

\* What a round knows at each of its steps.
RoundInv(r) ==
  /\ Reached(round[r].from) /\ Behind(round[r].from)
  /\ round[r].max = 0 \/ \E q \in Handled(r) : log[q].at = round[r].max
  /\ \A p \in DOMAIN log :
       log[p].at < Bound(r) /\ log[p].db \notin round[r].dbs /\ Exposed(p)
         => p \in Handled(r)
  /\ kind = "mongo" => round[r].max <= round[r].end
  /\ kind # "mongo" => round[r].dbs = {}
  /\ InRound(r, "store") \/ InRound(r, "commit") => round[r].dbs = {}
  /\ InRound(r, "commit") => round[r].batch = {}
  /\ kind # "mongo" /\ InRound(r, "read") => round[r].batch = {}

CollectedInv ==
  /\ Reached(cursor) /\ Behind(cursor)
  /\ \A r \in Rounds : RoundInv(r)

\* Times and their roundings are numbers, and rows are known by their place.
LEMMA RowFacts ==
  ASSUME TypeInv
  PROVE  /\ now \in Nat /\ cursor \in Nat
         /\ \A p \in DOMAIN log : /\ log[p].at \in Nat /\ log[p].at > 0
                                  /\ Stored(log[p].at) \in Nat
         /\ \A r \in Rounds : round[r].from \in Nat /\ round[r].max \in Nat
                              /\ round[r].end \in Nat
<1> USE CollectorAssumption DEF TypeInv, Time
<1>1. \A p \in DOMAIN log : log[p] \in Entry
  OBVIOUS
<1>2. \A p \in DOMAIN log : log[p].at \in Nat /\ log[p].at > 0
  BY <1>1 DEF Entry
<1>3. now \in Nat /\ Stored(now) \in Nat /\ Stored(MaxNow) \in Nat
  <2>1. now \in Nat /\ MaxNow \in Nat
    OBVIOUS
  <2> HIDE DEF TypeInv
  <2> QED
    BY <2>1, StoredFacts
<1>4. cursor \in Nat
  BY <1>3
<1>5. \A p \in DOMAIN log : Stored(log[p].at) \in Nat
  BY <1>2, StoredFacts
<1>6. \A r \in Rounds :
        round[r].from \in Nat /\ round[r].max \in Nat /\ round[r].end \in Nat
  BY <1>3 DEF Round
<1> QED
  BY <1>2, <1>3, <1>4, <1>5, <1>6

\* A row at a bound that has been reached is not exposed beyond the row that reached it.
LEMMA NewestRow ==
  ASSUME TypeInv, NEW q \in DOMAIN log, NEW p \in DOMAIN log, Exposed(p),
         log[q].at <= log[p].at,
         log[p].at <= log[q].at \/ log[p].at <= Stored(log[q].at)
  PROVE  p = q
BY RowFacts DEF Exposed, Tied, RoundedOver, Others

\* Being exposed depends on the log alone.
LEMMA SameLog ==
  ASSUME log' = log
  PROVE  /\ \A p : Exposed(p)' <=> Exposed(p)
         /\ \A t : Reached(t)' <=> Reached(t)
BY DEF Exposed, Tied, RoundedOver, Others, Reached

\* What has been dealt with stays so, and the rounds that do not move keep what they know.
LEMMA Undisturbed ==
  ASSUME CollectedInv, log' = log, kind' = kind, settled \subseteq settled',
         gone \subseteq gone'
  PROVE  /\ \A t : Behind(t) => Behind(t)'
         /\ \A r \in Rounds : round'[r] = round[r] => RoundInv(r)'
<1>1. \A p : Exposed(p)' <=> Exposed(p)
  BY SameLog
<1>2. \A t : Behind(t) => Behind(t)'
  BY <1>1 DEF Behind
<1>3. ASSUME NEW r \in Rounds, round'[r] = round[r]
      PROVE  RoundInv(r)'
  <2>1. RoundInv(r)
    BY DEF CollectedInv
  <2>2. Handled(r) \subseteq Handled(r)' /\ Bound(r)' = Bound(r)
    BY <1>3 DEF Handled, Bound
  <2>3. Reached(round[r].from)' /\ Behind(round[r].from)'
    BY <1>1, <1>3, <2>1 DEF RoundInv, Reached, Behind
  <2>4. round'[r].max = 0 \/ \E q \in Handled(r)' : log'[q].at = round'[r].max
    BY <1>3, <2>1, <2>2 DEF RoundInv
  <2>5. \A p \in DOMAIN log' :
          log'[p].at < Bound(r)' /\ log'[p].db \notin round'[r].dbs /\ Exposed(p)'
            => p \in Handled(r)'
    BY <1>1, <1>3, <2>1, <2>2 DEF RoundInv
  <2>6. /\ kind' = "mongo" => round'[r].max <= round'[r].end
        /\ kind' # "mongo" => round'[r].dbs = {}
        /\ InRound(r, "store")' \/ InRound(r, "commit")' => round'[r].dbs = {}
        /\ InRound(r, "commit")' => round'[r].batch = {}
        /\ kind' # "mongo" /\ InRound(r, "read")' => round'[r].batch = {}
    BY <1>3, <2>1 DEF RoundInv, InRound
  <2> QED
    BY <2>3, <2>4, <2>5, <2>6 DEF RoundInv
<1> QED
  BY <1>2, <1>3

\* So it is enough to look at the round that moves.
LEMMA OneMoves ==
  ASSUME TypeInv, CollectedInv, NEW r \in Rounds, NEW new, Becomes(r, new),
         server' = server, settled \subseteq settled', cursor' = cursor,
         RoundInv(r)'
  PROVE  CollectedInv'
<1>1. \A s \in Rounds : s # r => round'[s] = round[s]
  BY DEF Becomes, TypeInv
<1>2. \A s \in Rounds : RoundInv(s)'
  BY <1>1, Undisturbed DEF server
<1>3. Reached(cursor)' /\ Behind(cursor)'
  BY Undisturbed, SameLog DEF CollectedInv, server
<1> QED
  BY <1>2, <1>3 DEF CollectedInv

\* A round whose databases have all been read has in its hands, or has dealt with, all
\* that will be behind the cursor once it commits.
LEMMA SeenUpToMax ==
  ASSUME TypeInv, CollectedInv, NEW r \in Rounds, round[r].dbs = {}, round[r].max # 0
  PROVE  \A p \in DOMAIN log :
           /\ Exposed(p)
           /\ log[p].at <= round[r].max \/ log[p].at <= Stored(round[r].max)
           => p \in Handled(r)
<1> SUFFICES ASSUME NEW p \in DOMAIN log, Exposed(p),
                    log[p].at <= round[r].max \/ log[p].at <= Stored(round[r].max)
             PROVE  p \in Handled(r)
  OBVIOUS
<1>1. RoundInv(r)
  BY DEF CollectedInv
<1>2. CASE log[p].at < round[r].max
  <2>1. log[p].at < Bound(r)
    BY <1>1, <1>2, RowFacts DEF RoundInv, Bound
  <2> QED
    BY <1>1, <2>1 DEF RoundInv
<1>3. CASE log[p].at >= round[r].max
  <2>1. PICK q \in Handled(r) : log[q].at = round[r].max
    BY <1>1 DEF RoundInv
  <2>2. q \in DOMAIN log
    BY DEF Handled, TypeInv
  <2>3. p = q
    BY <1>3, <2>1, <2>2, NewestRow
  <2> QED
    BY <2>1, <2>3
<1> QED
  BY <1>2, <1>3, RowFacts

\* All is behind the beginning of time, and a round at rest knows nothing.
LEMMA RestKnowsNothing ==
  ASSUME TypeInv, NEW r \in Rounds, round[r] = Idle
  PROVE  RoundInv(r)
<1>1. /\ round[r].from = 0 /\ round[r].max = 0 /\ round[r].end = 0
      /\ round[r].batch = {} /\ round[r].dbs = {} /\ round[r].pc = "idle"
  BY DEF Idle
<1>2. Bound(r) = 0
  BY <1>1 DEF Bound
<1> QED
  BY <1>1, <1>2, RowFacts DEF RoundInv, Reached, Behind, InRound

\* In the beginning nothing has been passed.
LEMMA CollectedInit == Init => CollectedInv
<1> SUFFICES ASSUME Init PROVE CollectedInv
  OBVIOUS
<1>1. TypeInv
  BY TypeInit
<1>2. \A r \in Rounds : round[r] = Idle
  BY DEF Init
<1>3. Reached(cursor) /\ Behind(cursor)
  BY <1>1, RowFacts DEF Init, Reached, Behind
<1> QED
  BY <1>1, <1>2, <1>3, RestKnowsNothing DEF CollectedInv

\* A round starts behind the cursor.
LEMMA BeginKnows ==
  ASSUME TypeInv, CollectedInv, NEW r \in Rounds, Begin(r), TypeInv'
  PROVE  CollectedInv'
<1>1. PICK from \in 0..Stored(MaxNow), end \in Time, dbs \in SUBSET Dbs :
        /\ Becomes(r, [Idle EXCEPT !.pc = "read", !.from = from, !.end = end,
                                       !.dbs = dbs])
        /\ from <= cursor /\ end <= now
        /\ kind = "mongo" => end = now
        /\ dbs = IF kind = "mongo" THEN Dbs ELSE {}
  BY BeginStep
<1> DEFINE new == [Idle EXCEPT !.pc = "read", !.from = from, !.end = end, !.dbs = dbs]
<1>2. server' = server /\ UNCHANGED <<cursor, faults, settled>>
  BY DEF Begin
<1>3. round'[r] = new
  BY <1>1 DEF Becomes, TypeInv
<1>4. /\ round'[r].from = from /\ round'[r].max = 0 /\ round'[r].end = end
      /\ round'[r].batch = {} /\ round'[r].dbs = dbs /\ round'[r].pc = "read"
  BY <1>3 DEF Idle
<1>5. \A p : Exposed(p)' <=> Exposed(p)
  BY <1>2, SameLog DEF server
<1>6. from \in Nat /\ (\A p \in DOMAIN log : log[p].at <= from => log[p].at <= cursor)
  <2>1. from \in Nat
    BY CollectorAssumption, StoredFacts
  <2> QED
    BY <1>1, <2>1, RowFacts
<1>7. Reached(round[r].from)' /\ Behind(round[r].from)'
  <2>1. Reached(cursor) /\ Behind(cursor)
    BY DEF CollectedInv
  <2>2. Reached(from)'
    BY <1>1, <1>2, <1>6, <2>1, RowFacts DEF Reached, server
  <2>3. Behind(from)'
    BY <1>2, <1>5, <1>6, <2>1 DEF Behind, server
  <2> QED
    BY <1>4, <2>2, <2>3
<1>8. \A p \in DOMAIN log' :
        log'[p].at < Bound(r)' /\ log'[p].db \notin round'[r].dbs => FALSE
  <2>1. CASE kind = "mongo"
    BY <1>1, <1>2, <1>4, <2>1 DEF server, TypeInv
  <2>2. CASE kind # "mongo"
    BY <1>2, <1>4, <2>2, RowFacts DEF Bound, server
  <2> QED
    BY <2>1, <2>2
<1>9. RoundInv(r)'
  BY <1>1, <1>2, <1>4, <1>7, <1>8 DEF RoundInv, InRound, server, Time
<1> QED
  BY <1>1, <1>2, <1>9, OneMoves

\* A row that is still there is behind the lower bound, in the window or after it.
LEMMA RowsOfWindow ==
  ASSUME TypeInv, CollectedInv, NEW r \in Rounds, NEW p \in DOMAIN log, Exposed(p),
         p \notin settled \cup gone
  PROVE  /\ log[p].at > round[r].from
         /\ p \in Present
         /\ log[p].at <= round[r].end => p \in Window(r)
<1>1. Behind(round[r].from)
  BY DEF CollectedInv, RoundInv
<1>2. log[p].at > round[r].from
  BY <1>1, RowFacts DEF Behind
<1> QED
  BY <1>2 DEF Present, Window

\* A batch of mysql.slow_log is all there is up to its last row.
LEMMA ReadMySQLKnows ==
  ASSUME TypeInv, CollectedInv, NEW r \in Rounds, ReadMySQL(r)
  PROVE  CollectedInv'
<1>1. PICK B \in SUBSET Window(r), full \in BOOLEAN, pc \in {"commit", "store"} :
        /\ Earliest(B, Window(r))
        /\ B = {} <=> pc = "commit"
        /\ Becomes(r, [round[r] EXCEPT !.batch = B, !.full = full,
                             !.max = Later(round[r].max, B), !.pc = pc])
  BY ReadMySQLStep
<1> DEFINE new == [round[r] EXCEPT !.batch = B, !.full = full,
                     !.max = Later(round[r].max, B), !.pc = pc]
           m   == Later(round[r].max, B)
<1>2. server' = server /\ UNCHANGED <<cursor, faults, settled>> /\ kind = "mysql"
      /\ InRound(r, "read")
  BY DEF ReadMySQL
<1>3. RoundInv(r)
  BY DEF CollectedInv
<1>4. round'[r] = new /\ round[r] \in Round
  BY <1>1 DEF Becomes, TypeInv
<1>5. /\ round'[r].from = round[r].from /\ round'[r].dbs = {} /\ round[r].batch = {}
      /\ round'[r].batch = B /\ round'[r].max = m /\ round'[r].pc = pc
  BY <1>2, <1>3, <1>4 DEF Round, RoundInv
<1>6. B \subseteq DOMAIN log
  BY WindowRows
<1>7. m \in Nat /\ m >= round[r].max
      /\ (m = round[r].max \/ \E q \in B : log[q].at = m)
  <2>1. round[r].max \in Time /\ \A p \in B : log[p].at \in Time
    BY <1>4, <1>6, BatchFacts DEF Round
  <2>2. m \in Time /\ m >= round[r].max /\ (m = round[r].max \/ \E q \in B : m = log[q].at)
    BY <2>1, LaterFacts
  <2> QED
    BY <2>2, CollectorAssumption DEF Time
<1>8. \A p : Exposed(p)' <=> Exposed(p)
  BY <1>2, SameLog DEF server
<1>9. Handled(r) = settled \cup gone /\ Handled(r)' = settled \cup gone \cup B
  BY <1>2, <1>5 DEF Handled, server
<1>10. Reached(round[r].from)' /\ Behind(round[r].from)'
  BY <1>2, <1>3, <1>5, <1>8 DEF RoundInv, Reached, Behind, server
<1>11. m = 0 \/ \E q \in Handled(r)' : log[q].at = m
  <2>1. m = round[r].max => m = 0 \/ \E q \in Handled(r) : log[q].at = m
    BY <1>3 DEF RoundInv
  <2> QED
    BY <1>7, <1>9, <2>1
<1>12. ASSUME NEW p \in DOMAIN log, log[p].at < m, Exposed(p), p \notin settled \cup gone
       PROVE  p \in B
  <2>1. ~ (log[p].at < round[r].max)
    <3>1. Bound(r) = round[r].max /\ round[r].dbs = {}
      BY <1>2, <1>3 DEF Bound, RoundInv
    <3> QED
      BY <1>3, <1>9, <1>12, <3>1 DEF RoundInv
  <2>2. PICK q \in B : log[q].at = m
    BY <1>7, <1>12, <2>1
  <2>3. q \in Window(r) /\ log[q].at <= round[r].end
    BY <2>2 DEF Window
  <2>4. log[p].at <= round[r].end
    BY <1>6, <1>12, <2>2, <2>3, RowFacts
  <2>5. p \in Window(r)
    BY <1>12, <2>4, RowsOfWindow
  <2> QED
    BY <1>1, <1>6, <1>12, <2>2, <2>5, RowFacts DEF Earliest
<1>13. RoundInv(r)'
  <2>1. Bound(r)' = m /\ kind' = "mysql"
    BY <1>2, <1>5 DEF Bound, server
  <2>2. InRound(r, "commit")' => B = {}
    BY <1>1, <1>5 DEF InRound
  <2>3. ~ InRound(r, "read")'
    BY <1>1, <1>5 DEF InRound
  <2> QED
    BY <1>2, <1>5, <1>8, <1>9, <1>10, <1>11, <1>12, <2>1, <2>2, <2>3 DEF RoundInv, server
<1> QED
  BY <1>1, <1>2, <1>13, OneMoves

\* Reading a database takes in all of its rows in the window, whatever is logged by then;
\* a row that is logged later is not before the end of the window.
LEMMA ReadMongoKnows ==
  ASSUME TypeInv, CollectedInv, NEW r \in Rounds, ReadMongo(r)
  PROVE  CollectedInv'
<1>1. PICK db \in round[r].dbs, pc \in {"read", "store"} :
      \E B \in SUBSET {p \in Window(r) : log[p].db = db} :
        /\ settled' = settled \cup ({p \in Window(r) : log[p].db = db} \ B)
        /\ pc = "store" => round[r].dbs = {db}
        /\ Becomes(r, [round[r] EXCEPT !.batch = round[r].batch \cup B,
                             !.max = Later(round[r].max, B),
                             !.dbs = round[r].dbs \ {db}, !.pc = pc])
  BY ReadMongoStep
<1> DEFINE S == {p \in Window(r) : log[p].db = db}
<1>2. PICK B \in SUBSET S :
        /\ settled' = settled \cup (S \ B)
        /\ pc = "store" => round[r].dbs = {db}
        /\ Becomes(r, [round[r] EXCEPT !.batch = round[r].batch \cup B,
                             !.max = Later(round[r].max, B),
                             !.dbs = round[r].dbs \ {db}, !.pc = pc])
  BY <1>1
<1> DEFINE new == [round[r] EXCEPT !.batch = round[r].batch \cup B,
                     !.max = Later(round[r].max, B),
                     !.dbs = round[r].dbs \ {db}, !.pc = pc]
           m   == Later(round[r].max, B)
<1>3. server' = server /\ cursor' = cursor /\ kind = "mongo"
  BY DEF ReadMongo
<1>4. RoundInv(r)
  BY DEF CollectedInv
<1>5. round'[r] = new /\ round[r] \in Round
  BY <1>2 DEF Becomes, TypeInv
<1>6. /\ round'[r].from = round[r].from /\ round'[r].dbs = round[r].dbs \ {db}
      /\ round'[r].batch = round[r].batch \cup B /\ round'[r].max = m
      /\ round'[r].end = round[r].end /\ round'[r].pc = pc
  BY <1>5 DEF Round
<1>7. B \subseteq DOMAIN log /\ \A p \in B : log[p].at <= round[r].end
  BY WindowRows DEF Window
<1>8. m \in Nat /\ m >= round[r].max
      /\ (m = round[r].max \/ \E q \in B : log[q].at = m)
  <2>1. round[r].max \in Time /\ \A p \in B : log[p].at \in Time
    BY <1>5, <1>7, BatchFacts DEF Round
  <2>2. m \in Time /\ m >= round[r].max /\ (m = round[r].max \/ \E q \in B : m = log[q].at)
    BY <2>1, LaterFacts
  <2> QED
    BY <2>2, CollectorAssumption DEF Time
<1>9. m <= round[r].end
  BY <1>3, <1>4, <1>7, <1>8 DEF RoundInv
<1>10. \A p : Exposed(p)' <=> Exposed(p)
  BY <1>3, SameLog DEF server
<1>11. Handled(r)' = Handled(r) \cup S
  BY <1>2, <1>3, <1>6 DEF Handled, server
<1>12. Reached(round[r].from)' /\ Behind(round[r].from)'
  BY <1>2, <1>3, <1>4, <1>6, <1>10 DEF RoundInv, Reached, Behind, server
<1>13. m = 0 \/ \E q \in Handled(r)' : log[q].at = m
  <2>1. m = round[r].max => m = 0 \/ \E q \in Handled(r) : log[q].at = m
    BY <1>4 DEF RoundInv
  <2> QED
    BY <1>8, <1>11, <2>1
<1>14. ASSUME NEW p \in DOMAIN log, log[p].at < round[r].end,
              log[p].db \notin round[r].dbs \ {db}, Exposed(p)
       PROVE  p \in Handled(r)'
  <2>1. CASE log[p].db \notin round[r].dbs
    BY <1>3, <1>4, <1>11, <1>14, <2>1 DEF RoundInv, Bound
  <2>2. CASE p \in settled \cup gone
    BY <1>11, <2>2 DEF Handled
  <2>3. CASE p \notin settled \cup gone /\ log[p].db = db
    <3>1. p \in Window(r)
      BY <1>14, <2>3, RowFacts, RowsOfWindow
    <3> QED
      BY <1>11, <2>3, <3>1
  <2> QED
    BY <1>14, <2>1, <2>2, <2>3
<1>15. RoundInv(r)'
  <2>1. Bound(r)' = round[r].end /\ kind' = "mongo"
    BY <1>3, <1>6 DEF Bound, server
  <2>2. ~ InRound(r, "commit")'
    BY <1>1, <1>6 DEF InRound
  <2>3. InRound(r, "store")' => round'[r].dbs = {}
    BY <1>2, <1>6 DEF InRound
  <2> HIDE DEF m, new, S
  <2> QED
    BY <1>3, <1>6, <1>9, <1>10, <1>12, <1>13, <1>14, <2>1, <2>2, <2>3 DEF RoundInv, server
<1> QED
  BY <1>2, <1>3, <1>15, OneMoves

\* SLOWLOG GET leaves out only what it has no room for.
LEMMA ReadRedisKnows ==
  ASSUME TypeInv, CollectedInv, NEW r \in Rounds, ReadRedis(r)
  PROVE  CollectedInv'
<1> DEFINE S == {p \in Present : log[p].at > round[r].from}
<1>1. PICK B \in SUBSET S :
        /\ settled' = settled \cup (S \ B)
        /\ Becomes(r, [round[r] EXCEPT !.batch = B,
                             !.max = Later(round[r].max, B), !.pc = "store"])
  BY ReadRedisStep
<1> DEFINE new == [round[r] EXCEPT !.batch = B,
                     !.max = Later(round[r].max, B), !.pc = "store"]
           m   == Later(round[r].max, B)
<1>2. server' = server /\ cursor' = cursor /\ kind = "redis"
  BY DEF ReadRedis
<1>3. RoundInv(r)
  BY DEF CollectedInv
<1>4. round'[r] = new /\ round[r] \in Round
  BY <1>1 DEF Becomes, TypeInv
<1>5. /\ round'[r].from = round[r].from /\ round'[r].dbs = {}
      /\ round'[r].batch = B /\ round'[r].max = m /\ round'[r].pc = "store"
  BY <1>2, <1>3, <1>4 DEF Round, RoundInv
<1>6. B \subseteq DOMAIN log
  BY DEF Present
<1>7. m \in Nat /\ m >= round[r].max
      /\ (m = round[r].max \/ \E q \in B : log[q].at = m)
  <2>1. round[r].max \in Time /\ \A p \in B : log[p].at \in Time
    BY <1>4, <1>6, BatchFacts DEF Round
  <2>2. m \in Time /\ m >= round[r].max /\ (m = round[r].max \/ \E q \in B : m = log[q].at)
    BY <2>1, LaterFacts
  <2> QED
    BY <2>2, CollectorAssumption DEF Time
<1>8. \A p : Exposed(p)' <=> Exposed(p)
  BY <1>2, SameLog DEF server
<1>9. Handled(r)' = settled \cup gone \cup S
  BY <1>1, <1>2, <1>5 DEF Handled, server
<1>10. Reached(round[r].from)' /\ Behind(round[r].from)'
  BY <1>1, <1>2, <1>3, <1>5, <1>8 DEF RoundInv, Reached, Behind, server
<1>11. \A p \in DOMAIN log : Exposed(p) => p \in Handled(r)'
  BY <1>9, RowsOfWindow
<1>12. m = 0 \/ \E q \in Handled(r)' : log[q].at = m
  <2>1. CASE \E q \in B : log[q].at = m
    BY <1>9, <2>1
  <2>2. CASE m = round[r].max
    <3>1. Handled(r) = settled \cup gone
      BY <1>2, <1>3 DEF ReadRedis, RoundInv, Handled
    <3> QED
      BY <1>3, <1>9, <2>2, <3>1 DEF RoundInv
  <2> QED
    BY <1>7, <2>1, <2>2
<1>13. RoundInv(r)'
  BY <1>2, <1>5, <1>8, <1>10, <1>11, <1>12 DEF RoundInv, InRound, server
<1> QED
  BY <1>1, <1>2, <1>13, OneMoves

\* Storing moves rows from the round's hands to the table, and the lower bound not beyond
\* the newest row, when all is stored.
LEMMA StoreMySQLKnows ==
  ASSUME TypeInv, CollectedInv, NEW r \in Rounds, StoreMySQL(r)
  PROVE  CollectedInv'
<1>1. PICK C \in SUBSET round[r].batch, from \in 0..Stored(MaxNow),
           pc \in {"store", "read", "commit"} :
        /\ settled' = settled \cup C
        /\ Becomes(r, [round[r] EXCEPT !.batch = round[r].batch \ C,
                                           !.from = from, !.pc = pc])
        /\ \/ pc = "store" /\ from = round[r].from
           \/ C = round[r].batch /\ from <= round[r].max
  BY StoreMySQLStep
<1> DEFINE new == [round[r] EXCEPT !.batch = round[r].batch \ C, !.from = from, !.pc = pc]
<1>2. server' = server /\ cursor' = cursor /\ kind = "mysql"
  BY DEF StoreMySQL
<1>3. RoundInv(r)
  BY DEF CollectedInv
<1>4. round'[r] = new /\ round[r] \in Round
  BY <1>1 DEF Becomes, TypeInv
<1>5. /\ round'[r].from = from /\ round'[r].dbs = {} /\ round[r].dbs = {}
      /\ round'[r].batch = round[r].batch \ C /\ round'[r].max = round[r].max
      /\ round'[r].pc = pc
  BY <1>2, <1>3, <1>4 DEF Round, RoundInv
<1>6. \A p : Exposed(p)' <=> Exposed(p)
  BY <1>2, SameLog DEF server
<1>7. Handled(r)' = Handled(r)
  BY <1>1, <1>2, <1>5 DEF Handled, server
<1>8. Reached(from)' /\ Behind(from)'
  <2>1. CASE from = round[r].from
    BY <1>1, <1>2, <1>3, <1>6, <2>1 DEF RoundInv, Reached, Behind, server
  <2>2. CASE C = round[r].batch /\ from <= round[r].max
    <3>1. from \in Nat /\ Handled(r) \subseteq DOMAIN log
      BY CollectorAssumption, StoredFacts DEF Handled, TypeInv
    <3>2. round[r].max = 0 => from = 0
      BY <2>2, <3>1
    <3>3. Reached(from)
      BY <1>3, <2>2, <3>1, <3>2 DEF RoundInv, Reached
    <3>4. ASSUME NEW p \in DOMAIN log, log[p].at <= from, Exposed(p)
          PROVE  p \in settled' \cup gone
      <4>1. round[r].max # 0 /\ log[p].at <= round[r].max
        BY <2>2, <3>1, <3>2, <3>4, RowFacts
      <4>2. p \in Handled(r)
        BY <1>5, <3>4, <4>1, SeenUpToMax
      <4> QED
        BY <1>1, <2>2, <4>2 DEF Handled
    <3> QED
      BY <1>2, <1>6, <3>3, <3>4 DEF Reached, Behind, server
  <2> QED
    BY <1>1, <2>1, <2>2
<1>9. RoundInv(r)'
  <2>1. Reached(round[r].from)' /\ Behind(round[r].from)'
    BY <1>5, <1>8
  <2>2. pc # "store" => round'[r].batch = {}
    BY <1>1, <1>5
  <2>3. Bound(r)' = Bound(r)
    BY <1>2, <1>5 DEF Bound, server
  <2> QED
    BY <1>2, <1>3, <1>5, <1>6, <1>7, <2>1, <2>2, <2>3 DEF RoundInv, InRound, server
<1> QED
  BY <1>1, <1>2, <1>9, OneMoves

\* A round that is over knows nothing.
LEMMA RoundOver ==
  ASSUME TypeInv, NEW r \in Rounds, log' = log, round'[r] = Idle
  PROVE  RoundInv(r)'
<1>1. /\ round'[r].from = 0 /\ round'[r].max = 0 /\ round'[r].end = 0
      /\ round'[r].batch = {} /\ round'[r].dbs = {} /\ round'[r].pc = "idle"
  BY DEF Idle
<1>2. Bound(r)' = 0
  BY <1>1 DEF Bound
<1> QED
  BY <1>1, <1>2, RowFacts DEF RoundInv, Reached, Behind, InRound

\* mongo and redis store everything or break off.
LEMMA StoreOtherKnows ==
  ASSUME TypeInv, CollectedInv, NEW r \in Rounds, StoreOther(r)
  PROVE  CollectedInv'
<1>1. server' = server /\ cursor' = cursor /\ InRound(r, "store") /\ RoundInv(r)
      /\ settled \subseteq settled'
  BY DEF StoreOther, CollectedInv
<1>2. CASE Becomes(r, Idle)
  <2>1. RoundInv(r)'
    BY <1>1, <1>2, RoundOver DEF Becomes, TypeInv, server
  <2> QED
    BY <1>1, <1>2, <2>1, OneMoves
<1>3. CASE settled' = settled \cup round[r].batch
           /\ Becomes(r, [round[r] EXCEPT !.batch = {}, !.pc = "commit"])
  <2> DEFINE new == [round[r] EXCEPT !.batch = {}, !.pc = "commit"]
  <2>1. /\ round'[r].from = round[r].from /\ round'[r].dbs = {} /\ round[r].dbs = {}
        /\ round'[r].batch = {} /\ round'[r].max = round[r].max
        /\ round'[r].end = round[r].end /\ round'[r].pc = "commit"
    BY <1>1, <1>3 DEF Becomes, TypeInv, Round, RoundInv
  <2>2. \A p : Exposed(p)' <=> Exposed(p)
    BY <1>1, SameLog DEF server
  <2>3. Handled(r)' = Handled(r) /\ Bound(r)' = Bound(r)
    BY <1>1, <1>3, <2>1 DEF Handled, Bound, server
  <2>4. Reached(round[r].from)' /\ Behind(round[r].from)'
    BY <1>1, <2>1, <2>2 DEF RoundInv, Reached, Behind, server
  <2>5. RoundInv(r)'
    BY <1>1, <2>1, <2>2, <2>3, <2>4 DEF RoundInv, InRound, server
  <2> QED
    BY <1>1, <1>3, <2>5, OneMoves
<1> QED
  BY <1>2, <1>3 DEF StoreOther, Becomes, TypeInv

\* A read that fails is the end of the batches.
LEMMA ReadMySQLFailsKnows ==
  ASSUME TypeInv, CollectedInv, NEW r \in Rounds, ReadMySQLFails(r)
  PROVE  CollectedInv'
<1>1. /\ server' = server /\ UNCHANGED <<cursor, settled>>
      /\ InRound(r, "read") /\ RoundInv(r) /\ kind = "mysql"
      /\ Becomes(r, [round[r] EXCEPT !.pc = "commit"])
  BY DEF ReadMySQLFails, Becomes, TypeInv, CollectedInv
<1>2. /\ round'[r].from = round[r].from /\ round'[r].dbs = {} /\ round[r].dbs = {}
      /\ round'[r].batch = {} /\ round[r].batch = {}
      /\ round'[r].max = round[r].max /\ round'[r].pc = "commit"
  BY <1>1 DEF Becomes, TypeInv, Round, RoundInv
<1>3. \A p : Exposed(p)' <=> Exposed(p)
  BY <1>1, SameLog DEF server
<1>4. Handled(r)' = Handled(r) /\ Bound(r)' = Bound(r)
  BY <1>1, <1>2 DEF Handled, Bound, server
<1>5. Reached(round[r].from)' /\ Behind(round[r].from)'
  BY <1>1, <1>2, <1>3 DEF RoundInv, Reached, Behind, server
<1>6. RoundInv(r)'
  BY <1>1, <1>2, <1>3, <1>4, <1>5 DEF RoundInv, InRound, server
<1> QED
  BY <1>1, <1>6, OneMoves

\* The cursor moves to the rounded time of the newest row, and all that is not later has
\* been stored or is rounded over.
LEMMA CommitKnows ==
  ASSUME TypeInv, CollectedInv, NEW r \in Rounds, Commit(r)
  PROVE  CollectedInv'
<1>1. server' = server /\ settled' = settled /\ InRound(r, "commit") /\ RoundInv(r)
  BY DEF Commit, CollectedInv
<1>2. round[r].dbs = {} /\ round[r].batch = {} /\ Handled(r) = settled \cup gone
  BY <1>1 DEF RoundInv, Handled
<1>3. \A s \in Rounds : RoundInv(s)'
  <2>1. \A s \in Rounds : s # r => round'[s] = round[s]
    BY DEF Commit, TypeInv
  <2>2. round'[r] = Idle
    BY DEF Commit, TypeInv
  <2>3. RoundInv(r)'
    BY <1>1, <2>2, RoundOver DEF server
  <2> QED
    BY <1>1, <2>1, <2>3, Undisturbed DEF server
<1>4. Reached(cursor) /\ Behind(cursor)
  BY DEF CollectedInv
<1>5. Reached(cursor') /\ Behind(cursor')
  <2>1. CASE round[r].max = 0
    BY <1>4, <2>1 DEF Commit
  <2>2. CASE round[r].max # 0
    <3>1. cursor' = Stored(round[r].max)
      BY <2>2, RowFacts DEF Commit
    <3>2. Behind(cursor')
      BY <1>2, <2>2, <3>1, SeenUpToMax DEF Behind
    <3>3. PICK q \in Handled(r) : log[q].at = round[r].max
      BY <1>1, <2>2 DEF RoundInv
    <3>4. q \in DOMAIN log /\ Stored(log[q].at) \in Nat
      BY <3>3, RowFacts DEF Handled, TypeInv
    <3> QED
      BY <3>1, <3>2, <3>3, <3>4 DEF Reached
  <2> QED
    BY <2>1, <2>2
<1>6. Reached(cursor)' /\ Behind(cursor)'
  <2>1. \A p : Exposed(p)' <=> Exposed(p)
    BY <1>1, SameLog DEF server
  <2> QED
    BY <1>1, <1>5, <2>1 DEF Reached, Behind, server
<1> QED
  BY <1>3, <1>6 DEF CollectedInv

\* The server's new row is not before any other, so it is tied with the row that a bound
\* has reached, rounded over by it, or beyond the bound.
LEMMA LogKnows ==
  ASSUME TypeInv, CollectedInv, Log
  PROVE  CollectedInv'
<1>0. PICK n \in Nat : n = Len(log) + 1
  BY DEF TypeInv
<1>1. /\ UNCHANGED <<kind, now, gone, cursor, round, faults, settled>>
      /\ \E e \in Entry : e.at = Stamp /\ log' = Append(log, e)
  <2>1. PICK db \in Dbs \cup {NoDb}, fits \in BOOLEAN :
          log' = Append(log, [at   |-> IF kind = "redis" THEN Floor(now) ELSE now,
                              db   |-> db,
                              fits |-> fits])
    BY DEF Log
  <2>2. [at |-> Stamp, db |-> db, fits |-> fits] \in Entry
    BY StampFacts DEF Entry
  <2> QED
    BY <2>1, <2>2 DEF Log, Stamp
<1>2. /\ DOMAIN log' = DOMAIN log \cup {n} /\ n \notin DOMAIN log
      /\ \A p \in DOMAIN log : log'[p] = log[p]
      /\ log'[n].at = Stamp
  <2>1. log \in Seq(Entry) /\ DOMAIN log = 1..Len(log) /\ Len(log) \in Nat
    BY DEF TypeInv
  <2> QED
    BY <1>0, <1>1, <2>1
<1>3. Stamp \in Nat /\ \A q \in DOMAIN log : log[q].at <= Stamp
  BY StampFacts, CollectorAssumption DEF TypeInv, Time
<1>4. \A p \in DOMAIN log : Exposed(p)' => Exposed(p)
  BY <1>2 DEF Exposed, Tied, RoundedOver, Others
<1>5. ASSUME NEW q \in DOMAIN log, Stamp <= log[q].at \/ Stamp <= Stored(log[q].at)
      PROVE  ~ Exposed(n)'
  <2>1. q \in Others(n)' /\ log'[q].at = log[q].at /\ log'[n].at = Stamp
    BY <1>2 DEF Others
  <2>2. log[q].at = Stamp \/ (log[q].at < Stamp /\ Stamp <= Stored(log[q].at))
    BY <1>3, <1>5, RowFacts
  <2>3. Tied(n)' \/ RoundedOver(n)'
    BY <2>1, <2>2 DEF Tied, RoundedOver
  <2> QED
    BY <2>3 DEF Exposed
<1>6. ASSUME NEW t \in Nat, Reached(t), Behind(t)
      PROVE  /\ \E q \in DOMAIN log' : t <= log'[q].at \/ t <= Stored(log'[q].at) \/ t = 0
             /\ \A p \in DOMAIN log' :
                  log'[p].at <= t /\ Exposed(p)' => p \in settled' \cup gone'
  <2>1. \A p \in DOMAIN log : log[p].at <= t /\ Exposed(p)' => p \in settled' \cup gone'
    BY <1>1, <1>4, <1>6 DEF Behind
  <2>2. Stamp <= t => ~ Exposed(n)'
    <3>1. Stamp > 0
      BY StampFacts
    <3>2. CASE t = 0
      BY <1>3, <3>1, <3>2
    <3>3. CASE \E q \in DOMAIN log : t <= log[q].at \/ t <= Stored(log[q].at)
      BY <1>3, <1>5, <3>3, RowFacts
    <3> QED
      BY <1>6, <3>2, <3>3 DEF Reached
  <2>3. \A p \in DOMAIN log' :
          log'[p].at <= t /\ Exposed(p)' => p \in settled' \cup gone'
    BY <1>2, <2>1, <2>2
  <2>4. \E q \in DOMAIN log' : t <= log'[q].at \/ t <= Stored(log'[q].at) \/ t = 0
    BY <1>2, <1>6 DEF Reached
  <2> QED
    BY <2>3, <2>4
<1>7. Reached(cursor)' /\ Behind(cursor)'
  <2>1. cursor \in Nat /\ Reached(cursor) /\ Behind(cursor) /\ cursor' = cursor
    BY <1>1, RowFacts DEF CollectedInv
  <2> QED
    BY <1>6, <2>1 DEF Reached, Behind
<1>8. ASSUME NEW r \in Rounds
      PROVE  RoundInv(r)'
  <2>1. RoundInv(r) /\ round'[r] = round[r]
    BY <1>1 DEF CollectedInv
  <2>2. Reached(round[r].from)' /\ Behind(round[r].from)'
    <3>1. round[r].from \in Nat /\ Reached(round[r].from) /\ Behind(round[r].from)
      BY <2>1, RowFacts DEF RoundInv
    <3> QED
      BY <1>6, <2>1, <3>1 DEF Reached, Behind
  <2>3. Handled(r)' = Handled(r) /\ Bound(r)' = Bound(r) /\ Handled(r) \subseteq DOMAIN log
    BY <1>1 DEF Handled, Bound, TypeInv
  <2>4. round[r].max = 0 \/ \E q \in Handled(r)' : log'[q].at = round[r].max
    BY <1>2, <2>1, <2>3 DEF RoundInv
  <2>5. ~ (Stamp < Bound(r))
    <3>1. CASE kind = "mongo"
      BY <3>1, RowFacts DEF Stamp, Bound, TypeInv
    <3>2. CASE kind # "mongo"
      <4>1. round[r].max = 0 \/ \E q \in DOMAIN log : log[q].at = round[r].max
        BY <2>1, <2>3 DEF RoundInv
      <4> QED
        BY <1>3, <3>2, <4>1, RowFacts DEF Bound
    <3> QED
      BY <3>1, <3>2
  <2>6. \A p \in DOMAIN log' :
          log'[p].at < Bound(r)' /\ log'[p].db \notin round[r].dbs /\ Exposed(p)'
            => p \in Handled(r)'
    BY <1>2, <1>4, <2>1, <2>3, <2>5 DEF RoundInv
  <2> QED
    BY <1>1, <2>1, <2>2, <2>3, <2>4, <2>6 DEF RoundInv, InRound
<1> QED
  BY <1>7, <1>8 DEF CollectedInv

\* Every step keeps what is known.
LEMMA CollectedNext == TypeInv /\ CollectedInv /\ [Next]_vars => CollectedInv'
<1> SUFFICES ASSUME TypeInv, CollectedInv, [Next]_vars PROVE CollectedInv'
  OBVIOUS
<1>1. TypeInv'
  BY TypeNext
<1>2. CASE Log
  BY <1>2, LogKnows
<1>3. ASSUME log' = log, kind' = kind, settled' = settled, cursor' = cursor,
             round' = round, gone \subseteq gone'
      PROVE  CollectedInv'
  <2>1. \A r \in Rounds : RoundInv(r)'
    BY <1>3, Undisturbed
  <2>2. Reached(cursor)' /\ Behind(cursor)'
    BY <1>3, Undisturbed, SameLog DEF CollectedInv
  <2> QED
    BY <2>1, <2>2 DEF CollectedInv
<1>4. CASE Tick \/ Evict \/ Clear \/ UNCHANGED vars
  BY <1>3, <1>4 DEF Tick, Evict, Clear, vars, TypeInv
<1>5. ASSUME NEW r \in Rounds, BreakOff(r)
      PROVE  CollectedInv'
  <2>1. server' = server /\ settled' = settled /\ cursor' = cursor /\ Becomes(r, Idle)
    BY <1>5 DEF BreakOff, Becomes
  <2>2. RoundInv(r)'
    BY <2>1, RoundOver DEF Becomes, TypeInv, server
  <2> QED
    BY <2>1, <2>2, OneMoves
<1> QED
  BY <1>1, <1>2, <1>4, <1>5, BeginKnows, ReadMySQLKnows, ReadMongoKnows, ReadRedisKnows,
     StoreMySQLKnows, StoreOtherKnows, ReadMySQLFailsKnows, CommitKnows
     DEF Next, RoundStep

-----------------------------------------------------------------------------
\* Every reachable state has its types, and the cursor is not ahead of the clock by more
\* than its rounding, for every number of rounds, rows, databases and faults.
THEOREM CollectorTypes == Spec => []TypeOK
<1>1. TypeInv => TypeOK
  BY DEF TypeInv, TypeOK
<1> QED
  BY <1>1, TypeInit, TypeNext, PTL DEF Spec


\* What the cursor has passed has been stored, skipped as impossible to store, dropped by
\* the server or left out by a read that failed or was cut, however rounds overlap, fail
\* and break off; only rows that share their time with another, or that the cursor's
\* column rounds over, may be missed.
THEOREM PassedAreCollected == Spec => []PassedWereCollected
<1>1. CollectedInv => PassedWereCollected
  BY DEF CollectedInv, Behind, Exposed, PassedWereCollected
<1> QED
  BY <1>1, TypeInit, TypeNext, CollectedInit, CollectedNext, PTL DEF Spec

-----------------------------------------------------------------------------
(* A round that commits has read all of its window.                        *)

\* The last batch of a round is on its way, or stored.
LastBatch(r) == (InRound(r, "store") /\ ~ round[r].full) \/ InRound(r, "commit")

\* Nothing before the end of the window is left to read.
ReadToItsEnd(r) ==
  \A p \in DOMAIN log : log[p].at < round[r].end /\ Exposed(p) => p \in Handled(r)

ThoroughInv == kind = "mysql" /\ faults = 0 => \A r \in Rounds : LastBatch(r) => ReadToItsEnd(r)

LEMMA ThoroughLog ==
  ASSUME TypeInv, ThoroughInv, Log
  PROVE  ThoroughInv'
<1>1. PICK n \in Nat : n = Len(log) + 1
  BY DEF TypeInv
<1>2. /\ UNCHANGED <<kind, now, gone, cursor, round, faults, settled>>
      /\ \E e \in Entry : e.at = Stamp /\ log' = Append(log, e)
  <2>1. PICK db \in Dbs \cup {NoDb}, fits \in BOOLEAN :
          log' = Append(log, [at   |-> IF kind = "redis" THEN Floor(now) ELSE now,
                              db   |-> db,
                              fits |-> fits])
    BY DEF Log
  <2>2. [at |-> Stamp, db |-> db, fits |-> fits] \in Entry
    BY StampFacts DEF Entry
  <2> QED
    BY <2>1, <2>2 DEF Log, Stamp
<1>3. /\ DOMAIN log' = DOMAIN log \cup {n} /\ n \notin DOMAIN log
      /\ \A p \in DOMAIN log : log'[p] = log[p]
      /\ log'[n].at = Stamp
  <2>1. log \in Seq(Entry) /\ DOMAIN log = 1..Len(log) /\ Len(log) \in Nat
    BY DEF TypeInv
  <2> QED
    BY <1>1, <1>2, <2>1
<1>4. \A p \in DOMAIN log : Exposed(p)' => Exposed(p)
  BY <1>3 DEF Exposed, Tied, RoundedOver, Others
<1> SUFFICES ASSUME kind = "mysql", faults = 0, NEW r \in Rounds, LastBatch(r)',
                    NEW p \in DOMAIN log', log'[p].at < round[r].end, Exposed(p)'
             PROVE  p \in Handled(r)'
  BY <1>2 DEF ThoroughInv, ReadToItsEnd
<1>5. ReadToItsEnd(r)
  BY <1>2 DEF ThoroughInv, LastBatch, InRound
<1>6. p # n
  BY <1>3, RowFacts DEF Stamp, TypeInv
<1> QED
  BY <1>2, <1>3, <1>4, <1>5, <1>6 DEF ReadToItsEnd, Handled

\* Rounds that do not move keep what they have, for nothing that was dealt with comes back.
LEMMA ThoroughElsewhere ==
  ASSUME ThoroughInv, log' = log, kind' = kind, faults' = 0 => faults = 0,
         settled \subseteq settled', gone \subseteq gone',
         NEW r \in Rounds, round'[r] = round[r], kind = "mysql", faults' = 0, LastBatch(r)'
  PROVE  ReadToItsEnd(r)'
<1>1. ReadToItsEnd(r)
  BY DEF ThoroughInv, LastBatch, InRound
<1>2. \A p : Exposed(p)' <=> Exposed(p)
  BY SameLog
<1> QED
  BY <1>1, <1>2 DEF ReadToItsEnd, Handled

LEMMA ThoroughRead ==
  ASSUME TypeInv, CollectedInv, NEW r \in Rounds, ReadMySQL(r), LastBatch(r)'
  PROVE  ReadToItsEnd(r)'
<1>1. PICK B \in SUBSET Window(r), full \in BOOLEAN, pc \in {"commit", "store"} :
        /\ Complete(B, Window(r)) /\ (full <=> Cardinality(B) = Limit)
        /\ B = {} <=> pc = "commit"
        /\ Becomes(r, [round[r] EXCEPT !.batch = B, !.full = full,
                             !.max = Later(round[r].max, B), !.pc = pc])
  BY ReadMySQLStep
<1>2. server' = server /\ UNCHANGED <<cursor, faults, settled>>
  BY DEF ReadMySQL
<1>3. round[r] \in Round
  BY DEF TypeInv
<1>4. round'[r] = [round[r] EXCEPT !.batch = B, !.full = full,
                             !.max = Later(round[r].max, B), !.pc = pc]
  BY <1>1 DEF Becomes, TypeInv
<1>5. /\ round'[r].batch = B /\ (round'[r].full <=> full) /\ round'[r].pc = pc
      /\ round'[r].end = round[r].end
  BY <1>3, <1>4 DEF Round
<1>6. B = Window(r)
  <2>1. CASE pc = "commit"
    <3>1. Cardinality(B) = 0
      BY <1>1, <2>1, FS_EmptySet
    <3> QED
      BY <1>1, <3>1, CollectorAssumption DEF Complete
  <2>2. CASE pc = "store"
    BY <1>1, <1>5, <2>2 DEF LastBatch, InRound, Complete
  <2> QED
    BY <1>1, <2>1, <2>2
<1>7. \A p : Exposed(p)' <=> Exposed(p)
  BY <1>2, SameLog DEF server
<1> SUFFICES ASSUME NEW p \in DOMAIN log, log[p].at < round[r].end, Exposed(p), p \notin settled \cup gone
             PROVE  p \in Window(r)
  BY <1>2, <1>5, <1>6, <1>7 DEF ReadToItsEnd, Handled, server
<1> QED
  BY RowsOfWindow, RowFacts

LEMMA ThoroughStore ==
  ASSUME TypeInv, ThoroughInv, NEW r \in Rounds, StoreMySQL(r), faults = 0, LastBatch(r)'
  PROVE  ReadToItsEnd(r)'
<1>1. PICK C \in SUBSET round[r].batch, from \in 0..Stored(MaxNow),
           pc \in {"store", "read", "commit"} :
        /\ settled' = settled \cup C
        /\ Becomes(r, [round[r] EXCEPT !.batch = round[r].batch \ C,
                                           !.from = from, !.pc = pc])
        /\ pc = "commit" => ~ round[r].full
  BY StoreMySQLStep
<1>2. server' = server /\ kind = "mysql" /\ InRound(r, "store")
  BY DEF StoreMySQL
<1>3. round[r] \in Round
  BY DEF TypeInv
<1>4. round'[r] = [round[r] EXCEPT !.batch = round[r].batch \ C, !.from = from, !.pc = pc]
  BY <1>1 DEF Becomes, TypeInv
<1>5. /\ round'[r].batch = round[r].batch \ C /\ (round'[r].full <=> round[r].full)
      /\ round'[r].pc = pc /\ round'[r].end = round[r].end
  BY <1>3, <1>4 DEF Round
<1>6. ReadToItsEnd(r)
  BY <1>1, <1>2, <1>5 DEF ThoroughInv, LastBatch, InRound
<1>7. Handled(r)' = Handled(r)
  BY <1>1, <1>2, <1>5 DEF Handled, server
<1>8. \A p : Exposed(p)' <=> Exposed(p)
  BY <1>2, SameLog DEF server
<1> QED
  BY <1>2, <1>5, <1>6, <1>7, <1>8 DEF ReadToItsEnd, server

LEMMA ThoroughNext == TypeInv /\ CollectedInv /\ ThoroughInv /\ [Next]_vars => ThoroughInv'
<1> SUFFICES ASSUME TypeInv, CollectedInv, ThoroughInv, [Next]_vars PROVE ThoroughInv'
  OBVIOUS
<1>1. CASE Log
  BY <1>1, ThoroughLog
<1>2. ASSUME log' = log, kind' = kind, settled' = settled, faults' = faults,
             round' = round, gone \subseteq gone'
      PROVE  ThoroughInv'
  BY <1>2, ThoroughElsewhere DEF ThoroughInv
<1>3. CASE Tick \/ Evict \/ Clear \/ UNCHANGED vars
  BY <1>2, <1>3 DEF Tick, Evict, Clear, vars, TypeInv
<1>4. ASSUME NEW r \in Rounds, ReadMySQLFails(r) \/ BreakOff(r) PROVE ThoroughInv'
  BY <1>4 DEF ReadMySQLFails, BreakOff, Fault, ThoroughInv, TypeInv
<1>5. ASSUME NEW r \in Rounds, NEW new, Becomes(r, new), server' = server, settled \subseteq settled',
             faults' = 0 => faults = 0, kind = "mysql" /\ faults = 0 /\ LastBatch(r)' => ReadToItsEnd(r)'
      PROVE  ThoroughInv'
  <2> SUFFICES ASSUME kind = "mysql", faults' = 0, NEW s \in Rounds, LastBatch(s)' PROVE ReadToItsEnd(s)'
    BY <1>5 DEF ThoroughInv, server
  <2>1. CASE s = r
    BY <1>5, <2>1
  <2>2. CASE s # r
    <3>1. round'[s] = round[s]
      BY <1>5, <2>2 DEF Becomes, TypeInv
    <3> QED
      BY <1>5, <3>1, ThoroughElsewhere DEF server
  <2> QED
    BY <2>1, <2>2
<1>6. ASSUME NEW r \in Rounds, ReadMySQL(r) PROVE ThoroughInv'
  <2>1. \E new : Becomes(r, new)
    BY <1>6, ReadMySQLStep
  <2> QED
    BY <1>5, <1>6, <2>1, ThoroughRead DEF ReadMySQL
<1>7. ASSUME NEW r \in Rounds, StoreMySQL(r) PROVE ThoroughInv'
  <2>1. \E new : Becomes(r, new)
    BY <1>7, StoreMySQLStep
  <2> QED
    BY <1>5, <1>7, <2>1, ThoroughStore DEF StoreMySQL
<1>8. ASSUME NEW r \in Rounds, ReadMongo(r) \/ ReadRedis(r) \/ StoreOther(r) PROVE ThoroughInv'
  BY <1>8 DEF ReadMongo, ReadRedis, StoreOther, ThoroughInv, server
<1>9. ASSUME NEW r \in Rounds, Begin(r) PROVE ThoroughInv'
  <2>1. PICK from \in 0..Stored(MaxNow), end \in Time, dbs \in SUBSET Dbs :
           Becomes(r, [Idle EXCEPT !.pc = "read", !.from = from, !.end = end, !.dbs = dbs])
    BY <1>9, BeginStep
  <2> DEFINE new == [Idle EXCEPT !.pc = "read", !.from = from, !.end = end, !.dbs = dbs]
  <2>3. Becomes(r, new)
    BY <2>1
  <2>4. new.pc = "read"
    BY DEF Idle
  <2> HIDE DEF new
  <2>2. ~ LastBatch(r)'
    BY <2>3, <2>4 DEF LastBatch, InRound, Becomes, TypeInv
  <2> QED
    BY <1>5, <1>9, <2>3, <2>2 DEF Begin
<1>10. ASSUME NEW r \in Rounds, Commit(r) PROVE ThoroughInv'
  <2>1. Becomes(r, Idle) /\ ~ LastBatch(r)'
    BY <1>10 DEF Commit, Becomes, LastBatch, InRound, Idle, TypeInv
  <2> QED
    BY <1>5, <1>10, <2>1 DEF Commit
<1> QED
  BY <1>1, <1>3, <1>4, <1>6, <1>7, <1>8, <1>9, <1>10 DEF Next, RoundStep

\* A round of MySQL's slow log that commits has read all that was logged before the end of its window,
\* if no read failed, however long the log is and however few rows a batch has (mysql_collector.py).
THEOREM RoundsReadToTheEnd == Spec => []RoundsAreThorough
<1>1. Init => ThoroughInv
  BY DEF Init, ThoroughInv, LastBatch, InRound, Idle
<1>2. CollectedInv /\ ThoroughInv => RoundsAreThorough
  BY DEF CollectedInv, RoundInv, ThoroughInv, LastBatch, ReadToItsEnd, Handled, Exposed, RoundsAreThorough
<1> QED
  BY <1>1, <1>2, TypeInit, TypeNext, CollectedInit, CollectedNext, ThoroughNext, PTL DEF Spec

-----------------------------------------------------------------------------
(* The aggregation: two rounds are kept apart, and no round puts old       *)
(* numbers over new ones.                                                  *)

\* What the proof needs of the rounds: their step and age.  What they counted may be anything.
RoundsOf(S, A) ==
  [Aggregators -> [pc : {"idle", "count", "times", "upsert"}, age : 0..Timeout, stats : S, at : A]]

RoundShape == \E S, A : agg \in RoundsOf(S, A)

\* The lock and a round that has time left run out together.
LockFollowsRound ==
  ~overran =>
    \A w \in Aggregators :
      agg[w].pc # "idle" /\ agg[w].age # Timeout => lock + agg[w].age = Timeout

AloneInv == lock \in 0..Timeout /\ RoundShape /\ LockFollowsRound /\ RoundsAreAlone

\* There may be more that rounds have counted.
LEMMA RoundsGrow ==
  ASSUME NEW S, NEW A, NEW s, NEW a, agg \in RoundsOf(S, A)
  PROVE  agg \in RoundsOf(S \cup {s}, A \cup {a})
BY DEF RoundsOf

\* In the beginning nobody runs a round.
LEMMA AloneInit == AggInit => AloneInv
<1> SUFFICES ASSUME AggInit PROVE AloneInv
  OBVIOUS
<1>1. agg \in RoundsOf({NoRound.stats}, {0})
  BY AggregationAssumption DEF AggInit, NoRound, RoundsOf
<1>2. \A w \in Aggregators : agg[w].pc = "idle"
  BY DEF AggInit, NoRound
<1> QED
  BY <1>1, <1>2, AggregationAssumption
     DEF AggInit, AloneInv, RoundShape, LockFollowsRound, RoundsAreAlone

\* A round begins only when the lock is free, so that the others have no time left.
LEMMA BeginKeepsAlone ==
  ASSUME AloneInv, NEW w \in Aggregators, aggregate_all_slowquery(w)
  PROVE  AloneInv'
<1> DEFINE r == [NoRound EXCEPT !.pc = "count"]
<1>1. PICK S, A : agg \in RoundsOf(S, A)
  BY DEF AloneInv, RoundShape
<1>2. r = [pc |-> "count", age |-> 0, stats |-> NoRound.stats, at |-> 0]
  BY DEF NoRound
<1>3. agg' = [agg EXCEPT ![w] = r]
  BY DEF aggregate_all_slowquery
<1> HIDE DEF r
<1>4. agg \in RoundsOf(S \cup {NoRound.stats}, A \cup {0})
  BY <1>1, RoundsGrow
<1>5. agg' \in RoundsOf(S \cup {NoRound.stats}, A \cup {0})
  BY <1>2, <1>3, <1>4, AggregationAssumption DEF RoundsOf
<1>6. agg'[w] = r /\ \A v \in Aggregators \ {w} : agg'[v] = agg[v]
  BY <1>1, <1>3 DEF RoundsOf
<1>7. lock' = Timeout /\ overran' = overran /\ lock = 0
  BY DEF aggregate_all_slowquery, LockTimeout
<1>8. \A v \in Aggregators : agg[v].age \in 0..Timeout
  BY <1>1 DEF RoundsOf
<1>9. ~overran => \A v \in Aggregators : agg[v].pc # "idle" => agg[v].age = Timeout
  BY <1>7, <1>8, AggregationAssumption DEF AloneInv, LockFollowsRound
<1>10. agg'[w].age = 0
  BY <1>2, <1>6
<1>11. LockFollowsRound'
  <2> SUFFICES ASSUME ~overran, NEW v \in Aggregators, agg'[v].pc # "idle", agg'[v].age # Timeout
               PROVE  lock' + agg'[v].age = Timeout
    BY <1>7 DEF LockFollowsRound
  <2>1. v = w
    BY <1>6, <1>9
  <2> QED
    BY <2>1, <1>7, <1>10, AggregationAssumption
<1>12. RoundsAreAlone'
  BY <1>6, <1>7, <1>9 DEF RoundsAreAlone
<1> QED
  BY <1>5, <1>7, <1>11, <1>12, AggregationAssumption DEF AloneInv, RoundShape

\* A step within a round changes neither the lock nor anybody's time.
LEMMA WorkKeepsAlone ==
  ASSUME AloneInv, NEW w \in Aggregators, CountDetails(w) \/ calculate_p95_all(w)
  PROVE  AloneInv'
<1>1. PICK S, A : agg \in RoundsOf(S, A)
  BY DEF AloneInv, RoundShape
<1>2. agg[w].pc # "idle" /\ lock' = lock /\ overran' = overran
  BY DEF CountDetails, calculate_p95_all
<1>3. /\ RoundShape'
      /\ \A v \in Aggregators \ {w} : agg'[v] = agg[v]
      /\ agg'[w].age = agg[w].age
  <2>1. CASE CountDetails(w)
    <3> DEFINE s == [f \in Prints |-> Stat(f)]
    <3>1. agg' = [agg EXCEPT ![w].pc = "times", ![w].stats = s, ![w].at = version]
      BY <2>1 DEF CountDetails
    <3> HIDE DEF s
    <3>2. agg \in RoundsOf(S \cup {s}, A \cup {version})
      BY <1>1, RoundsGrow
    <3>3. agg' \in RoundsOf(S \cup {s}, A \cup {version})
      BY <3>1, <3>2 DEF RoundsOf
    <3>4. (\A v \in Aggregators \ {w} : agg'[v] = agg[v]) /\ agg'[w].age = agg[w].age
      BY <3>1, <1>1 DEF RoundsOf
    <3> QED BY <3>3, <3>4 DEF RoundShape
  <2>2. CASE calculate_p95_all(w)
    <3> DEFINE s == [f \in Prints |-> [agg[w].stats[f] EXCEPT !.p95 = Of(f) # {}]]
    <3>1. agg' = [agg EXCEPT ![w].pc = "upsert", ![w].stats = s]
      BY <2>2 DEF calculate_p95_all
    <3> HIDE DEF s
    <3>2. agg \in RoundsOf(S \cup {s}, A \cup {0})
      BY <1>1, RoundsGrow
    <3>3. agg' \in RoundsOf(S \cup {s}, A \cup {0})
      BY <3>1, <3>2 DEF RoundsOf
    <3>4. (\A v \in Aggregators \ {w} : agg'[v] = agg[v]) /\ agg'[w].age = agg[w].age
      BY <3>1, <1>1 DEF RoundsOf
    <3> QED BY <3>3, <3>4 DEF RoundShape
  <2> QED BY <2>1, <2>2
<1>4. LockFollowsRound' /\ RoundsAreAlone'
  BY <1>2, <1>3 DEF AloneInv, LockFollowsRound, RoundsAreAlone
<1> QED
  BY <1>2, <1>3, <1>4 DEF AloneInv

\* A round that is gone takes the others' lock with it only after its time.
LEMMA EndKeepsAlone ==
  ASSUME AloneInv, NEW w \in Aggregators, agg[w].pc # "idle",
         agg' = [agg EXCEPT ![w] = NoRound],
         \/ lock' = lock /\ overran' = overran
         \/ lock' = 0 /\ overran' = (overran \/ agg[w].age = Timeout)
  PROVE  AloneInv'
<1>1. PICK S, A : agg \in RoundsOf(S, A)
  BY DEF AloneInv, RoundShape
<1>2. agg \in RoundsOf(S \cup {NoRound.stats}, A \cup {0})
  BY <1>1, RoundsGrow
<1>3. NoRound = [pc |-> "idle", age |-> 0, stats |-> NoRound.stats, at |-> 0]
  BY DEF NoRound
<1>4. agg' \in RoundsOf(S \cup {NoRound.stats}, A \cup {0})
  BY <1>2, <1>3, AggregationAssumption DEF RoundsOf
<1>5. agg'[w].pc = "idle" /\ \A v \in Aggregators \ {w} : agg'[v] = agg[v]
  BY <1>1, <1>3 DEF RoundsOf
<1>6. lock' \in 0..Timeout
  BY AggregationAssumption DEF AloneInv
<1>7. ~overran' => ~overran
  OBVIOUS
<1>8. RoundsAreAlone'
  BY <1>5, <1>7 DEF AloneInv, RoundsAreAlone
<1>9. LockFollowsRound'
  <2>1. CASE lock' = lock /\ overran' = overran
    BY <2>1, <1>5 DEF AloneInv, LockFollowsRound
  <2>2. CASE lock' = 0 /\ overran' = (overran \/ agg[w].age = Timeout)
    <3>1. ~overran' => \A v \in Aggregators \ {w} : agg[v].pc # "idle" => agg[v].age = Timeout
      BY <2>2 DEF AloneInv, RoundsAreAlone
    <3> QED BY <3>1, <1>5 DEF LockFollowsRound
  <2> QED BY <2>1, <2>2
<1> QED
  BY <1>4, <1>6, <1>8, <1>9 DEF AloneInv, RoundShape

\* Time passes for the lock and the rounds alike.
LEMMA TickKeepsAlone ==
  ASSUME AloneInv, AggTick
  PROVE  AloneInv'
<1> DEFINE Older(age) == IF age < Timeout THEN age + 1 ELSE age
<1>1. PICK S, A : agg \in RoundsOf(S, A)
  BY DEF AloneInv, RoundShape
<1>2. /\ agg' = [w \in Aggregators |-> IF agg[w].pc = "idle" THEN agg[w]
                                        ELSE [agg[w] EXCEPT !.age = Older(agg[w].age)]]
      /\ overran' = overran /\ lock' = (IF lock = 0 THEN 0 ELSE lock - 1)
  BY DEF AggTick
<1>3. \A age \in 0..Timeout : Older(age) \in 0..Timeout
  BY AggregationAssumption
<1>4. \A w \in Aggregators :
        /\ agg[w].age \in 0..Timeout
        /\ agg'[w].pc = agg[w].pc
        /\ agg[w].pc # "idle" => agg'[w].age = Older(agg[w].age)
  <2> HIDE DEF Older
  <2> QED BY <1>1, <1>2 DEF RoundsOf
<1>5. agg' \in RoundsOf(S, A)
  <2> HIDE DEF Older
  <2> QED BY <1>1, <1>2, <1>3 DEF RoundsOf
<1>6. RoundsAreAlone'
  <2> SUFFICES ASSUME ~overran, NEW v \in Aggregators, NEW w \in Aggregators, v # w,
                      agg[v].pc # "idle", agg[w].pc # "idle"
               PROVE  Timeout \in {agg'[v].age, agg'[w].age}
    BY <1>2, <1>4 DEF RoundsAreAlone
  <2>1. Timeout = agg[v].age \/ Timeout = agg[w].age
    BY DEF AloneInv, RoundsAreAlone
  <2>2. agg'[v].age = Older(agg[v].age) /\ agg'[w].age = Older(agg[w].age)
    BY <1>4
  <2>3. Older(Timeout) = Timeout
    BY AggregationAssumption
  <2> HIDE DEF Older
  <2> QED BY <2>1, <2>2, <2>3
<1>7. LockFollowsRound'
  <2> SUFFICES ASSUME ~overran, NEW w \in Aggregators, agg[w].pc # "idle", agg'[w].age # Timeout
               PROVE  lock' + agg'[w].age = Timeout
    BY <1>2, <1>4 DEF LockFollowsRound
  <2>1. agg[w].age \in 0..Timeout /\ agg'[w].age = Older(agg[w].age)
    BY <1>4
  <2>2. agg[w].age # Timeout
    BY <2>1, AggregationAssumption
  <2>3. lock + agg[w].age = Timeout
    BY <2>2 DEF AloneInv, LockFollowsRound
  <2>4. lock \in 0..Timeout
    BY DEF AloneInv
  <2> QED
    BY <1>2, <2>1, <2>2, <2>3, <2>4, AggregationAssumption
<1>8. lock' \in 0..Timeout
  BY <1>2, AggregationAssumption DEF AloneInv
<1> QED
  BY <1>5, <1>6, <1>7, <1>8 DEF AloneInv, RoundShape

\* The collectors and the cleaning know nothing of the rounds.
LEMMA OthersKeepAlone ==
  ASSUME AloneInv, UNCHANGED <<lock, agg, overran>>
  PROVE  AloneInv'
BY DEF AloneInv, RoundShape, RoundsOf, LockFollowsRound, RoundsAreAlone

LEMMA AloneNext == AloneInv /\ [AggNext]_aggVars => AloneInv'
<1> SUFFICES ASSUME AloneInv, [AggNext]_aggVars
             PROVE  AloneInv'
  OBVIOUS
<1>1. ASSUME NEW w \in Aggregators, AggStep(w)
      PROVE  AloneInv'
  <2>1. CASE aggregate_all_slowquery(w)
    BY <2>1, BeginKeepsAlone
  <2>2. CASE CountDetails(w) \/ calculate_p95_all(w)
    BY <2>2, WorkKeepsAlone
  <2>3. CASE bulk_upsert(w) \/ upsert_row_by_row(w) \/ AggregateFails(w)
    BY <2>3, EndKeepsAlone DEF bulk_upsert, upsert_row_by_row, AggregateFails, Finish
  <2>4. CASE WorkerKilled(w)
    BY <2>4, EndKeepsAlone DEF WorkerKilled
  <2> QED
    BY <1>1, <2>1, <2>2, <2>3, <2>4 DEF AggStep
<1>2. CASE StoreDetail \/ BeginCleaning \/ CleanDetail \/ DetailsCleaned \/ CleanSummaries
  BY <1>2, OthersKeepAlone
     DEF StoreDetail, BeginCleaning, CleanDetail, DetailsCleaned, CleanSummaries
<1>3. CASE AggTick
  BY <1>3, TickKeepsAlone
<1>4. CASE UNCHANGED aggVars
  BY <1>4, OthersKeepAlone DEF aggVars
<1> QED
  BY <1>1, <1>2, <1>3, <1>4 DEF AggNext

\* aggregate_all_slowquery: the lapsing lock keeps two rounds apart as long as one of them has
\* time left, unless a round came to its end after its time.
THEOREM RoundsAlone == AggSpec => []RoundsAreAlone
<1>1. AloneInv => RoundsAreAlone
  BY DEF AloneInv
<1> QED
  BY <1>1, AloneInit, AloneNext, PTL DEF AggSpec

-----------------------------------------------------------------------------
(* What the rounds write.                                                  *)

Told(f) == [Stat(f) EXCEPT !.p95 = Of(f) # {}]

Counting(w) == agg[w].pc \in {"times", "upsert"}

\* What a round has counted at the present version is what the tables hold.
CountsAreOfVersion ==
  \A w \in Aggregators :
    /\ Counting(w) => agg[w].at \in 0..version
    /\ Counting(w) /\ agg[w].at = version =>
         agg[w].stats = IF agg[w].pc = "times" THEN [f \in Prints |-> Stat(f)]
                        ELSE [f \in Prints |-> Told(f)]

\* A round that has time left has counted no earlier than what was written last.
CountsAreNew ==
  ~overran =>
    \A w \in Aggregators : Counting(w) /\ agg[w].age # Timeout => told <= agg[w].at

TellInv ==
  /\ version \in Nat /\ told \in 0..version
  /\ IsFiniteSet(details)
  /\ CountsAreOfVersion /\ CountsAreNew /\ SummariesTellDetails

LEMMA TellInit == AggInit => TellInv
<1> SUFFICES ASSUME AggInit PROVE TellInv
  OBVIOUS
<1>1. \A w \in Aggregators : ~ Counting(w)
  BY DEF AggInit, NoRound, Counting
<1>2. \A f \in Prints : Of(f) = {}
  BY DEF AggInit, Of
<1>3. IsFiniteSet(details)
  BY FS_EmptySet DEF AggInit
<1> QED
  BY <1>1, <1>2, <1>3
     DEF AggInit, TellInv, CountsAreOfVersion, CountsAreNew, SummariesTellDetails

\* A fingerprint with details has a number of them to be written.
LEMMA SomeAreCounted ==
  ASSUME IsFiniteSet(details), NEW f \in Prints, Of(f) # {}
  PROVE  /\ Told(f).count > 0
         /\ Told(f) = [Stat(f) EXCEPT !.p95 = TRUE]
<1>1. IsFiniteSet(Of(f))
  BY FS_Subset DEF Of
<1>2. Cardinality(Of(f)) \in Nat /\ Cardinality(Of(f)) # 0
  BY <1>1, FS_CardinalityType, FS_EmptySet
<1>3. Told(f).count = Cardinality(Of(f))
  BY DEF Told, Stat
<1>4. Told(f).count > 0
  BY <1>2, <1>3
<1>5. (Of(f) # {}) = TRUE
  OBVIOUS
<1>6. Told(f) = [Stat(f) EXCEPT !.p95 = TRUE]
  BY <1>5, Zenon DEF Told
<1> QED
  BY <1>4, <1>6

\* A step that writes no table, and after which no round has counted anything but before.
LEMMA QuietKeepsTelling ==
  ASSUME AloneInv, TellInv,
         UNCHANGED <<details, summary, version, told>>, ~overran' => ~overran,
         \A w \in Aggregators : Counting(w)' =>
           /\ agg'[w].pc = agg[w].pc /\ agg'[w].at = agg[w].at /\ agg'[w].stats = agg[w].stats
           /\ agg'[w].age # Timeout => agg[w].age # Timeout
  PROVE  TellInv'
<1>1. \A f \in Prints : Of(f)' = Of(f) /\ Stat(f)' = Stat(f) /\ Told(f)' = Told(f)
  BY DEF Of, Stat, Told
<1>2. CountsAreOfVersion'
  BY <1>1 DEF TellInv, CountsAreOfVersion, Counting
<1>3. CountsAreNew'
  <2> SUFFICES ASSUME ~overran', NEW v \in Aggregators, Counting(v)', agg'[v].age # Timeout
               PROVE  told' <= agg'[v].at
    BY DEF CountsAreNew
  <2>1. Counting(v) /\ agg[v].age # Timeout /\ ~overran
    BY DEF Counting
  <2>2. told <= agg[v].at
    BY <2>1 DEF TellInv, CountsAreNew
  <2> QED
    BY <2>2
<1>4. SummariesTellDetails'
  BY <1>1 DEF TellInv, SummariesTellDetails
<1> QED
  BY <1>2, <1>3, <1>4 DEF TellInv

\* A change of the tables from outside makes all counts old ones.
LEMMA ChangeKeepsTelling ==
  ASSUME TellInv, version' = version + 1, UNCHANGED <<agg, told, overran>>,
         IsFiniteSet(details')
  PROVE  TellInv'
<1>1. version' \in Nat /\ told' \in 0..version' /\ told' # version'
  BY DEF TellInv
<1>2. ASSUME NEW w \in Aggregators, Counting(w)'
      PROVE  agg'[w].at \in 0..version' /\ agg'[w].at # version'
  <2>1. agg[w].at \in 0..version
    BY <1>2 DEF TellInv, CountsAreOfVersion, Counting
  <2> QED
    BY <2>1 DEF TellInv
<1>3. CountsAreOfVersion'
  BY <1>2 DEF CountsAreOfVersion
<1>4. CountsAreNew'
  BY DEF TellInv, CountsAreNew, Counting
<1>5. SummariesTellDetails'
  BY <1>1 DEF SummariesTellDetails
<1> QED
  BY <1>1, <1>3, <1>4, <1>5 DEF TellInv

LEMMA CountKeepsTelling ==
  ASSUME AloneInv, TellInv, NEW w \in Aggregators, CountDetails(w)
  PROVE  TellInv'
<1> DEFINE s == [f \in Prints |-> Stat(f)]
<1>1. PICK S, A : agg \in RoundsOf(S, A)
  BY DEF AloneInv, RoundShape
<1>2. /\ agg' = [agg EXCEPT ![w].pc = "times", ![w].stats = s, ![w].at = version]
      /\ UNCHANGED <<details, summary, version, told, overran>>
  BY DEF CountDetails, tables
<1>3. /\ agg'[w].pc = "times" /\ agg'[w].stats = s /\ agg'[w].at = version
      /\ \A v \in Aggregators \ {w} : agg'[v] = agg[v]
  <2> HIDE DEF s
  <2> QED BY <1>1, <1>2 DEF RoundsOf
<1>4. \A f \in Prints : Of(f)' = Of(f) /\ Stat(f)' = Stat(f) /\ Told(f)' = Told(f)
  BY <1>2 DEF Of, Stat, Told
<1>4a. /\ [f \in Prints |-> Stat(f)'] = [f \in Prints |-> Stat(f)]
         /\ [f \in Prints |-> Told(f)'] = [f \in Prints |-> Told(f)]
  BY <1>4
<1>4b. s = [f \in Prints |-> Stat(f)']
  BY <1>4a
<1>5. CountsAreOfVersion'
  <2> SUFFICES ASSUME NEW v \in Aggregators
               PROVE  /\ Counting(v)' => agg'[v].at \in 0..version'
                      /\ Counting(v)' /\ agg'[v].at = version' =>
                           agg'[v].stats = IF agg'[v].pc = "times" THEN [f \in Prints |-> Stat(f)']
                                           ELSE [f \in Prints |-> Told(f)']
    BY DEF CountsAreOfVersion
  <2>1. CASE v = w
    <3> HIDE DEF s
    <3>1. version' \in Nat /\ version' = version
      BY <1>2 DEF TellInv
    <3> QED
      BY <2>1, <3>1, <1>3, <1>4b DEF Counting
  <2>2. CASE v # w
    <3>1. agg'[v] = agg[v] /\ version' = version
      BY <2>2, <1>2, <1>3
    <3>2. /\ Counting(v) => agg[v].at \in 0..version
          /\ Counting(v) /\ agg[v].at = version =>
               agg[v].stats = IF agg[v].pc = "times" THEN [f \in Prints |-> Stat(f)]
                              ELSE [f \in Prints |-> Told(f)]
      BY DEF TellInv, CountsAreOfVersion
    <3> QED BY <3>1, <3>2, <1>4a DEF Counting
  <2> QED BY <2>1, <2>2
<1>6. CountsAreNew'
  <2> HIDE DEF s
  <2> SUFFICES ASSUME ~overran', NEW v \in Aggregators, Counting(v)', agg'[v].age # Timeout
               PROVE  told <= agg'[v].at
    BY <1>2 DEF CountsAreNew
  <2>1. CASE v = w
    BY <2>1, <1>3 DEF TellInv
  <2>2. CASE v # w
    BY <2>2, <1>2, <1>3 DEF TellInv, CountsAreNew, Counting
  <2> QED BY <2>1, <2>2
<1>7. SummariesTellDetails'
  BY <1>2, <1>4 DEF TellInv, SummariesTellDetails
<1> QED
  BY <1>2, <1>5, <1>6, <1>7 DEF TellInv

LEMMA TimesKeepTelling ==
  ASSUME AloneInv, TellInv, NEW w \in Aggregators, calculate_p95_all(w)
  PROVE  TellInv'
<1> DEFINE s == [f \in Prints |-> [agg[w].stats[f] EXCEPT !.p95 = Of(f) # {}]]
<1>1. PICK S, A : agg \in RoundsOf(S, A)
  BY DEF AloneInv, RoundShape
<1>2. /\ agg' = [agg EXCEPT ![w].pc = "upsert", ![w].stats = s]
      /\ UNCHANGED <<details, summary, version, told, overran>>
      /\ agg[w].pc = "times"
  BY DEF calculate_p95_all, tables
<1>3. /\ agg'[w].pc = "upsert" /\ agg'[w].stats = s /\ agg'[w].at = agg[w].at
      /\ agg'[w].age = agg[w].age
      /\ \A v \in Aggregators \ {w} : agg'[v] = agg[v]
  <2> HIDE DEF s
  <2> QED BY <1>1, <1>2 DEF RoundsOf
<1>4. \A f \in Prints : Of(f)' = Of(f) /\ Stat(f)' = Stat(f) /\ Told(f)' = Told(f)
  BY <1>2 DEF Of, Stat, Told
<1>4a. /\ [f \in Prints |-> Stat(f)'] = [f \in Prints |-> Stat(f)]
         /\ [f \in Prints |-> Told(f)'] = [f \in Prints |-> Told(f)]
  BY <1>4
<1>5. agg[w].at = version => s = [f \in Prints |-> Told(f)]
  BY <1>2 DEF TellInv, CountsAreOfVersion, Counting, Told
<1> HIDE DEF s
<1>6. CountsAreOfVersion'
  <2> SUFFICES ASSUME NEW v \in Aggregators
               PROVE  /\ Counting(v)' => agg'[v].at \in 0..version'
                      /\ Counting(v)' /\ agg'[v].at = version' =>
                           agg'[v].stats = IF agg'[v].pc = "times" THEN [f \in Prints |-> Stat(f)']
                                           ELSE [f \in Prints |-> Told(f)']
    BY DEF CountsAreOfVersion
  <2>1. CASE v = w
    BY <2>1, <1>2, <1>3, <1>4, <1>5 DEF TellInv, CountsAreOfVersion, Counting
  <2>2. CASE v # w
    <3>1. agg'[v] = agg[v] /\ version' = version
      BY <2>2, <1>2, <1>3
    <3>2. /\ Counting(v) => agg[v].at \in 0..version
          /\ Counting(v) /\ agg[v].at = version =>
               agg[v].stats = IF agg[v].pc = "times" THEN [f \in Prints |-> Stat(f)]
                              ELSE [f \in Prints |-> Told(f)]
      BY DEF TellInv, CountsAreOfVersion
    <3> QED BY <3>1, <3>2, <1>4a DEF Counting
  <2> QED BY <2>1, <2>2
<1>7. CountsAreNew'
  BY <1>2, <1>3 DEF TellInv, CountsAreNew, Counting
<1>8. SummariesTellDetails'
  BY <1>2, <1>4 DEF TellInv, SummariesTellDetails
<1> QED
  BY <1>2, <1>6, <1>7, <1>8 DEF TellInv

\* Either all rows that were counted are written, or some of them and nothing is told.
LEMMA WritingKeepsTelling ==
  ASSUME AloneInv, TellInv, NEW w \in Aggregators,
         bulk_upsert(w) \/ upsert_row_by_row(w)
  PROVE  TellInv'
<1>1. PICK S, A : agg \in RoundsOf(S, A)
  BY DEF AloneInv, RoundShape
<1>2. /\ agg[w].pc = "upsert" /\ agg' = [agg EXCEPT ![w] = NoRound]
      /\ overran' = (overran \/ agg[w].age = Timeout)
      /\ UNCHANGED <<details, version>>
  BY DEF bulk_upsert, upsert_row_by_row, Finish
<1>3. PICK rows \in SUBSET Counted(w) :
        /\ summary' = [f \in Prints |-> IF f \in rows THEN agg[w].stats[f] ELSE summary[f]]
        /\ \/ rows = Counted(w) /\ told' = Larger(told, agg[w].at)
           \/ told' = told
  BY DEF bulk_upsert, upsert_row_by_row, Upsert
<1>4. agg[w].at \in 0..version
  BY <1>2 DEF TellInv, CountsAreOfVersion, Counting
<1>5. told' \in 0..version /\ told <= told' /\ (told' = told \/ told' = agg[w].at)
  BY <1>3, <1>4 DEF TellInv, Larger
<1>6. agg'[w].pc = "idle" /\ \A v \in Aggregators \ {w} : agg'[v] = agg[v]
  BY <1>1, <1>2 DEF RoundsOf, NoRound
<1>7. \A f \in Prints : Of(f)' = Of(f) /\ Stat(f)' = Stat(f) /\ Told(f)' = Told(f)
  BY <1>2 DEF Of, Stat, Told
<1>8. CountsAreOfVersion'
  BY <1>2, <1>6, <1>7 DEF TellInv, CountsAreOfVersion, Counting
<1>9. CountsAreNew'
  <2> SUFFICES ASSUME ~overran', NEW v \in Aggregators, Counting(v)', agg'[v].age # Timeout
               PROVE  FALSE
    BY DEF CountsAreNew
  <2>1. v # w /\ Counting(v) /\ agg[v].age # Timeout
    BY <1>6 DEF Counting
  <2>2. agg[w].age # Timeout /\ ~overran
    BY <1>2
  <2> QED
    BY <2>1, <2>2, <1>2 DEF AloneInv, RoundsAreAlone, Counting
<1>10. SummariesTellDetails'
  <2> SUFFICES ASSUME told' = version, ~overran', NEW f \in Prints, Of(f) # {}
               PROVE  summary'[f] = [Stat(f) EXCEPT !.p95 = TRUE]
    BY <1>2, <1>7 DEF SummariesTellDetails
  <2>1. agg[w].age # Timeout /\ ~overran
    BY <1>2
  <2>2. told <= agg[w].at
    BY <2>1, <1>2 DEF TellInv, CountsAreNew, Counting
  <2>3. agg[w].at = version
    BY <2>2, <1>4, <1>5 DEF TellInv
  <2>4. agg[w].stats = [g \in Prints |-> Told(g)]
    BY <2>3, <1>2 DEF TellInv, CountsAreOfVersion, Counting
  <2>5. Told(f).count > 0 /\ Told(f) = [Stat(f) EXCEPT !.p95 = TRUE]
    BY SomeAreCounted DEF TellInv
  <2>6. CASE f \in rows
    BY <2>4, <2>5, <2>6, <1>3
  <2>7. CASE f \notin rows
    <3>1. f \in Counted(w)
      BY <2>4, <2>5 DEF Counted
    <3>2. told = version
      BY <3>1, <2>7, <1>3
    <3>3. summary[f] = [Stat(f) EXCEPT !.p95 = TRUE]
      BY <3>2, <2>1 DEF TellInv, SummariesTellDetails
    <3> QED BY <3>3, <2>7, <1>3
  <2> QED BY <2>6, <2>7
<1> QED
  BY <1>2, <1>5, <1>8, <1>9, <1>10 DEF TellInv

LEMMA TellNext == AloneInv /\ TellInv /\ [AggNext]_aggVars => TellInv'
<1> SUFFICES ASSUME AloneInv, TellInv, [AggNext]_aggVars
             PROVE  TellInv'
  OBVIOUS
<1>1. PICK S, A : agg \in RoundsOf(S, A)
  BY DEF AloneInv, RoundShape
<1>2. ASSUME NEW w \in Aggregators, AggStep(w)
      PROVE  TellInv'
  <2>1. CASE aggregate_all_slowquery(w)
    <3>1. ~ Counting(w)' /\ \A v \in Aggregators \ {w} : agg'[v] = agg[v]
      BY <2>1, <1>1 DEF aggregate_all_slowquery, RoundsOf, Counting, NoRound
    <3> QED
      BY <2>1, <3>1, QuietKeepsTelling DEF aggregate_all_slowquery, tables, Counting
  <2>2. CASE CountDetails(w)
    BY <2>2, CountKeepsTelling
  <2>3. CASE calculate_p95_all(w)
    BY <2>3, TimesKeepTelling
  <2>4. CASE bulk_upsert(w) \/ upsert_row_by_row(w)
    BY <2>4, WritingKeepsTelling
  <2>5. CASE AggregateFails(w) \/ WorkerKilled(w)
    <3>1. ~ Counting(w)' /\ \A v \in Aggregators \ {w} : agg'[v] = agg[v]
      BY <2>5, <1>1 DEF AggregateFails, WorkerKilled, Finish, RoundsOf, Counting, NoRound
    <3>2. UNCHANGED <<details, summary, version, told>>
      BY <2>5 DEF AggregateFails, WorkerKilled, tables
    <3>2a. ~overran' => ~overran
      BY <2>5, Zenon DEF AggregateFails, WorkerKilled, Finish
    <3>3. \A v \in Aggregators : Counting(v)' =>
            /\ agg'[v].pc = agg[v].pc /\ agg'[v].at = agg[v].at /\ agg'[v].stats = agg[v].stats
            /\ agg'[v].age # Timeout => agg[v].age # Timeout
      BY <3>1
    <3> QED
      BY <3>2, <3>2a, <3>3, QuietKeepsTelling
  <2> QED
    BY <1>2, <2>1, <2>2, <2>3, <2>4, <2>5 DEF AggStep
<1>3. CASE StoreDetail
  <2>1. IsFiniteSet(details')
    BY <1>3, FS_AddElement DEF StoreDetail, TellInv
  <2> QED BY <1>3, <2>1, ChangeKeepsTelling DEF StoreDetail
<1>4. CASE CleanDetail
  <2>1. IsFiniteSet(details')
    BY <1>4, FS_RemoveElement DEF CleanDetail, TellInv
  <2> QED BY <1>4, <2>1, ChangeKeepsTelling DEF CleanDetail
<1>5. CASE CleanSummaries
  BY <1>5, ChangeKeepsTelling DEF CleanSummaries, TellInv
<1>6. CASE BeginCleaning \/ DetailsCleaned \/ UNCHANGED aggVars
  BY <1>6, QuietKeepsTelling DEF BeginCleaning, DetailsCleaned, aggVars, tables, Counting
<1>7. CASE AggTick
  <2>1. \A v \in Aggregators :
          /\ agg'[v].pc = agg[v].pc /\ agg'[v].at = agg[v].at /\ agg'[v].stats = agg[v].stats
          /\ agg'[v].age # Timeout => agg[v].age # Timeout
    BY <1>1, <1>7, AggregationAssumption DEF AggTick, RoundsOf
  <2> QED
    BY <1>7, <2>1, QuietKeepsTelling DEF AggTick, tables
<1> QED
  BY <1>2, <1>3, <1>4, <1>5, <1>6, <1>7 DEF AggNext

\* _aggregate_slowquery: what a round wrote after it counted the tables as they are stays until
\* they change, although every round writes what it counted before and the lock lapses.
THEOREM SummariesAreTold == AggSpec => []SummariesTellDetails
<1>1. AggInit => AloneInv /\ TellInv
  BY AloneInit, TellInit
<1>2. AloneInv /\ TellInv /\ [AggNext]_aggVars => (AloneInv /\ TellInv)'
  BY AloneNext, TellNext
<1>3. TellInv => SummariesTellDetails
  BY DEF TellInv
<1> QED
  BY <1>1, <1>2, <1>3, PTL DEF AggSpec
=============================================================================
