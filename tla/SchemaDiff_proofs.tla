-------------------------- MODULE SchemaDiff_proofs --------------------------
(***************************************************************************)
(* The comparison of two schemas, for all tables that MySQL can tell of,   *)
(* all requests and all changes that others make.                          *)
(*   FilledDefinition, BecomeLike   columns that a clause writes;          *)
(*   PatchIs, RevertIs           the two ALTERs, clause by clause;         *)
(*   PatchMakesAlike             what the patch makes of a table, and      *)
(*   RevertUndoes                its revert;                               *)
(*   LostAndCame                 the columns that go;                      *)
(*   DiffInv                     what is known of the comparison.          *)
(***************************************************************************)
EXTENDS SchemaDiff, SequenceTheorems, TLAPS

-----------------------------------------------------------------------------
(* Columns: what a clause writes is told like the column that it was written*)
(* for, even where the table's own collation fills it in.                  *)

ColumnOK(c) == c \in ColumnType /\ (c.coll # "" <=> Charactered(c))

SameCollation(a, b) == normalize_collation(a) = normalize_collation(b)

SameSignature(c, d, comments) == column_signature(c, comments) = column_signature(d, comments)

\* Columns as MySQL tells them: names are unique, and a column has a collation iff it has characters.
ColumnsOK(columns) ==
  /\ \A c, d \in columns : c.name = d.name => c = d
  /\ \A c \in columns : ColumnOK(c)

\* What is normalized once stays as it is.
LEMMA NormalizedOnce ==
  /\ \A x : normalize_collation(normalize_collation(x)) = normalize_collation(x)
  /\ \A x : normalize_collation(x) = "" <=> x = ""
  /\ \A x : DefinitionTold(DefinitionWritten(x)) = DefinitionTold(x)
  /\ \A c, d : d.def = DefinitionWritten(c.def) => (Charactered(d) <=> Charactered(c))
BY DEF normalize_collation, normalized_default, DefinitionWritten, DefinitionTold, Charactered

\* Columns that the comparison tells alike,
ToldAlike(s, t, comments) ==
  /\ Names(s) = Names(t)
  /\ \A n \in Names(s) : column_signature(Column(s, n), comments) = column_signature(Column(t, n), comments)

\* are the same, but for what it cannot tell.
LEMMA ToldAlikeMeans ==
  ASSUME NEW s, NEW t, NEW comments, ToldAlike(s, t, comments)
  PROVE  SameColumns(s, t, comments)
<1>1. ASSUME NEW x, NEW y, DefinitionTold(x) = DefinitionTold(y)
      PROVE  SameDefinition(x, y)
  <2>1. ASSUME NEW z, z \notin Untold PROVE DefinitionTold(z) = normalized_default(z)
    BY <2>1 DEF Untold, DefinitionTold, DefinitionWritten
  <2>2. CASE x \in Untold \/ y \in Untold
    BY <1>1, <2>2 DEF SameDefinition
  <2>3. CASE x \notin Untold /\ y \notin Untold
    BY <1>1, <2>1, <2>3, Zenon DEF SameDefinition
  <2> QED BY <2>2, <2>3
<1>2. ASSUME NEW x, NEW y, column_signature(x, comments) = column_signature(y, comments)
      PROVE  /\ SameDefinition(x.def, y.def)
             /\ normalize_collation(x.coll) = normalize_collation(y.coll)
             /\ comments => x.comment = y.comment
  <2>1. DefinitionTold(x.def) = DefinitionTold(y.def) /\ normalize_collation(x.coll) = normalize_collation(y.coll)
    BY <1>2 DEF column_signature
  <2>2. comments => x.comment = y.comment
    BY <1>2 DEF column_signature
  <2> QED BY <1>1, <2>1, <2>2
<1> QED BY <1>2, Zenon DEF ToldAlike, SameColumns

\* A name finds its column, where names are unique,
LEMMA ColumnUnique ==
  ASSUME NEW columns, NEW c \in columns, \A x \in columns : x.name = c.name => x = c
  PROVE  Column(columns, c.name) = c
BY DEF Column

\* and a column of that name, where there is one.
LEMMA ColumnThere ==
  ASSUME NEW columns, NEW n \in Names(columns)
  PROVE  Column(columns, n) \in columns /\ Column(columns, n).name = n
BY DEF Column, Names

\* The column that a clause writes, in its table, is told like the column it was written for.
LEMMA FilledDefinition ==
  ASSUME NEW c, ColumnOK(c), NEW given, given # "",
         NEW got, SameCollation(got, given), NEW told
  PROVE  /\ Filled(column_definition(c, given), got).name = c.name
         /\ SameSignature(Filled(column_definition(c, given), got), c, told)
<1>w. PICK w : w = column_definition(c, given)
  OBVIOUS
<1> DEFINE f == Filled(w, got)
<1>1. w = [name |-> c.name, def |-> DefinitionWritten(c.def), coll |-> charset_clause(c, given),
           comment |-> c.comment]
  BY <1>w DEF column_definition
<1>2. Charactered(w) <=> Charactered(c)
  BY <1>1, NormalizedOnce
<1>3. /\ f.name = c.name /\ f.comment = c.comment /\ f.def = DefinitionWritten(c.def)
      /\ f.coll = IF Charactered(w) /\ w.coll = "" THEN got ELSE w.coll
  <2>1. CASE Charactered(w) /\ w.coll = ""
    <3>1. f = [w EXCEPT !.coll = got]
      BY <2>1 DEF Filled
    <3> QED BY <3>1, <2>1, <1>1
  <2>2. CASE ~(Charactered(w) /\ w.coll = "")
    <3>1. f = w
      BY <2>2 DEF Filled
    <3>2. f.name = w.name /\ f.comment = w.comment /\ f.def = w.def
      BY <3>1
    <3>4. w.name = c.name /\ w.comment = c.comment /\ w.def = DefinitionWritten(c.def)
      BY <1>1
    <3>3. f.coll = w.coll
      BY <3>1
    <3> QED BY <3>2, <3>3, <3>4, <2>2, Zenon
  <2> QED BY <2>1, <2>2
<1> HIDE DEF f
<1>4. normalize_collation(f.coll) = normalize_collation(c.coll)
  <2>0. w.coll = charset_clause(c, given)
    BY <1>1
  <2>1. CASE charset_clause(c, given) # ""
    <3>1. charset_clause(c, given) = c.coll
      BY <2>1 DEF charset_clause
    <3> QED BY <3>1, <2>0, <2>1, <1>3
  <2>2. CASE charset_clause(c, given) = "" /\ Charactered(c)
    <3>0. c.coll # "" /\ normalize_collation(given) # ""
      BY <2>2, NormalizedOnce DEF ColumnOK
    <3>1. normalize_collation(given) = normalize_collation(c.coll)
      BY <2>2, <3>0 DEF charset_clause
    <3>2. f.coll = got
      BY <2>2, <2>0, <1>2, <1>3
    <3> QED BY <3>1, <3>2 DEF SameCollation
  <2>3. CASE ~Charactered(c)
    <3>1. c.coll = ""
      BY <2>3 DEF ColumnOK
    <3>2. charset_clause(c, given) = ""
      BY <3>1 DEF charset_clause
    <3> QED BY <2>3, <3>1, <3>2, <2>0, <1>2, <1>3
  <2> QED BY <2>1, <2>2, <2>3
<1>5. column_signature(f, told) = column_signature(c, told)
  BY <1>3, <1>4, NormalizedOnce DEF column_signature
<1> QED BY <1>3, <1>5, <1>w DEF f, SameSignature

\* A column as MySQL tells it needs no filling in.
LEMMA FilledKeeps ==
  ASSUME NEW c, ColumnOK(c), NEW to
  PROVE  Filled(c, to) = c
BY DEF Filled, ColumnOK

\* Columns that are kept or written from the columns wished for, none left out.
Ready(s, have, P, comments) ==
  /\ P \subseteq s
  /\ \A c \in have : ColumnOK(c) /\ \E x \in s : x.name = c.name /\ SameSignature(c, x, comments)
  /\ \A x \in s : x \in P \/ x.name \in Names(have)

Rewritten(have, P, from, to) == {Filled(c, to) : c \in have \cup {column_definition(x, from) : x \in P}}

\* They are told like them.
LEMMA BecomeLike ==
  ASSUME NEW s, ColumnsOK(s), NEW have, NEW P, NEW comments, Ready(s, have, P, comments),
         NEW from, from # "", NEW to, SameCollation(to, from)
  PROVE  ToldAlike(s, Rewritten(have, P, from, to), comments) /\ have \subseteq Rewritten(have, P, from, to)
<1>0. ASSUME NEW x \in s
      PROVE  /\ Filled(column_definition(x, from), to).name = x.name
             /\ SameSignature(Filled(column_definition(x, from), to), x, comments)
  <2>1. ColumnOK(x)
    BY DEF ColumnsOK
  <2> QED BY <2>1, FilledDefinition
<1>r. /\ P \subseteq s
      /\ \A c \in have : ColumnOK(c) /\ \E x \in s : x.name = c.name /\ SameSignature(c, x, comments)
      /\ \A x \in s : x \in P \/ x.name \in Names(have)
  BY Zenon DEF Ready
<1> DEFINE put == {column_definition(x, from) : x \in P}
           after == Rewritten(have, P, from, to)
<1>a. after = {Filled(c, to) : c \in have \cup put}
  BY Zenon DEF Rewritten
<1>1. \A c \in have : Filled(c, to) = c
  BY <1>r, FilledKeeps
<1>2. have \subseteq after
  BY <1>1, <1>a, Zenon
<1>3. \A y \in after : \E x \in s : x.name = y.name /\ SameSignature(y, x, comments)
  <2> SUFFICES ASSUME NEW c \in have \cup put
               PROVE  \E x \in s : /\ x.name = Filled(c, to).name
                                   /\ SameSignature(Filled(c, to), x, comments)
    BY <1>a, Zenon
  <2>1. CASE c \in have
    BY <2>1, <1>1, <1>r
  <2>2. CASE c \in put
    <3>1. PICK x \in P : c = column_definition(x, from)
      BY <2>2
    <3> QED BY <3>1, <1>0, <1>r
  <2> QED BY <2>1, <2>2
<1>4. \A x \in s : x.name \in Names(after)
  <2> SUFFICES ASSUME NEW x \in s PROVE x.name \in Names(after)
    OBVIOUS
  <2>1. CASE x.name \in Names(have)
    BY <2>1, <1>2 DEF Names
  <2>2. CASE x \in P
    <3>2. Filled(column_definition(x, from), to).name = x.name
      BY <1>0
    <3>3. Filled(column_definition(x, from), to) \in after
      BY <1>a, <2>2, Zenon
    <3> QED BY <3>2, <3>3 DEF Names
  <2> QED BY <2>1, <2>2, <1>r
<1> HIDE DEF after
<1>5. Names(s) = Names(after)
  <2>1. Names(s) \subseteq Names(after)
    BY <1>4 DEF Names
  <2>2. Names(after) \subseteq Names(s)
    BY <1>3 DEF Names
  <2> QED BY <2>1, <2>2
<1>6. ASSUME NEW n \in Names(s)
      PROVE  column_signature(Column(s, n), comments) = column_signature(Column(after, n), comments)
  <2>1. Column(s, n) \in s /\ Column(s, n).name = n
    BY ColumnThere
  <2>2. Column(after, n) \in after /\ Column(after, n).name = n
    BY <1>5, ColumnThere
  <2>3. PICK x \in s : /\ x.name = n
                       /\ SameSignature(Column(after, n), x, comments)
    BY <2>2, <1>3
  <2>4. x = Column(s, n)
    BY <2>1, <2>3 DEF ColumnsOK
  <2> QED BY <2>3, <2>4 DEF SameSignature
<1> QED BY <1>2, <1>5, <1>6, Zenon DEF ToldAlike, after

-----------------------------------------------------------------------------
(* The items of the page and the clauses of the two ALTERs.                *)

\* The columns that come, go and change, once the renames are told apart.
ColumnsThatCome(s, d, renames) == {c \in s : c.name \notin Names(d) /\ \A p \in renames : p.to # c}
ColumnsThatGo(s, d, renames) == {c \in d : c.name \notin Names(s) /\ \A p \in renames : p.from # c}
ColumnsThatChange(s, d, comments) ==
  {c \in s : c.name \in Names(d) /\ ~SameSignature(c, Column(d, c.name), comments)}

\* The clause of an item in the ALTER of one side.
ClauseOf(item, side) == IF side = "patch" THEN item.patch ELSE item.revert

PatchClauses(s, d, coll, comments, renames) ==
  {Clause("change", p.from.name, column_definition(p.to, coll)) : p \in renames}
    \cup {Clause("add", c.name, column_definition(c, coll)) : c \in ColumnsThatCome(s, d, renames)}
    \cup {Clause("drop", c.name, NoColumn) : c \in ColumnsThatGo(s, d, renames)}
    \cup {Clause("modify", c.name, column_definition(c, coll)) : c \in ColumnsThatChange(s, d, comments)}

RevertClauses(s, d, coll, comments, renames) ==
  {Clause("change", p.to.name, column_definition(p.from, coll)) : p \in renames}
    \cup {Clause("drop", c.name, NoColumn) : c \in ColumnsThatCome(s, d, renames)}
    \cup {Clause("add", c.name, column_definition(c, coll)) : c \in ColumnsThatGo(s, d, renames)}
    \cup {Clause("modify", c.name, column_definition(Column(d, c.name), coll)) :
            c \in ColumnsThatChange(s, d, comments)}

\* The fields of an item.
LEMMA ItemFields ==
  ASSUME NEW kind, NEW action, NEW object, NEW danger, NEW patch, NEW revert
  PROVE  /\ ClauseOf(Item(kind, action, object, danger, patch, revert), "patch") = patch
         /\ ClauseOf(Item(kind, action, object, danger, patch, revert), "revert") = revert
         /\ Item(kind, action, object, danger, patch, revert).patch = patch
         /\ Item(kind, action, object, danger, patch, revert).revert = revert
         /\ Item(kind, action, object, danger, patch, revert).kind = kind
         /\ Item(kind, action, object, danger, patch, revert).action = action
         /\ Item(kind, action, object, danger, patch, revert).object = object
         /\ Item(kind, action, object, danger, patch, revert).danger = danger
BY DEF Item, ClauseOf

\* The clauses about columns.
LEMMA ColumnItemClauses ==
  ASSUME NEW s, NEW d, NEW colls, NEW comments, NEW renames
  PROVE  /\ \A c : (\E i \in column_items(s, d, colls, comments, renames) : c = ClauseOf(i, "patch")) <=>
                     c \in PatchClauses(s, d, colls["source"], comments, renames)
         /\ \A c : (\E i \in column_items(s, d, colls, comments, renames) : c = ClauseOf(i, "revert")) <=>
                     c \in RevertClauses(s, d, colls["target"], comments, renames)
         /\ \A i \in column_items(s, d, colls, comments, renames) :
              i.patch.op \in ColumnOps /\ i.revert.op \in ColumnOps
<1> DEFINE come == ColumnsThatCome(s, d, renames)
           go == ColumnsThatGo(s, d, renames)
           swap == ColumnsThatChange(s, d, comments)
           items == column_items(s, d, colls, comments, renames)
           DefS(c) == column_definition(c, colls["source"])
           DefT(c) == column_definition(c, colls["target"])
           R(p) == Item("column", "rename", p.from.name, FALSE, Clause("change", p.from.name, DefS(p.to)),
                        Clause("change", p.to.name, DefT(p.from)))
           A(c) == Item("column", "add", c.name, FALSE, Clause("add", c.name, DefS(c)), Clause("drop",
                c.name, NoColumn))
           G(c) == Item("column", "drop", c.name, TRUE, Clause("drop", c.name, NoColumn), Clause("add",
                c.name, DefT(c)))
           M(c) == Item("column", "modify", c.name, FALSE, Clause("modify", c.name, DefS(c)),
                        Clause("modify", c.name, DefT(Column(d, c.name))))
<1>1. \A i : i \in items <=>
              \/ \E p \in renames : i = R(p)
              \/ \E c \in come : i = A(c)
              \/ \E c \in go : i = G(c)
              \/ \E c \in swap : i = M(c)
  <2>1. swap = {c \in s : /\ c.name \in Names(d)
                          /\ column_signature(c, comments) # column_signature(Column(d, c.name), comments)}
    BY Zenon DEF ColumnsThatChange, SameSignature
  <2> QED BY <2>1, Zenon DEF column_items, ColumnsThatCome, ColumnsThatGo
<1>2. \A p : /\ ClauseOf(R(p), "patch") = Clause("change", p.from.name, DefS(p.to))
             /\ ClauseOf(R(p), "revert") = Clause("change", p.to.name, DefT(p.from))
             /\ R(p).patch = Clause("change", p.from.name, DefS(p.to))
             /\ R(p).revert = Clause("change", p.to.name, DefT(p.from))
  BY DEF Item, ClauseOf
<1>3. \A c : /\ ClauseOf(A(c), "patch") = Clause("add", c.name, DefS(c))
             /\ ClauseOf(A(c), "revert") = Clause("drop", c.name, NoColumn)
             /\ A(c).patch = ClauseOf(A(c), "patch") /\ A(c).revert = ClauseOf(A(c), "revert")
  BY DEF Item, ClauseOf
<1>4. \A c : /\ ClauseOf(G(c), "patch") = Clause("drop", c.name, NoColumn)
             /\ ClauseOf(G(c), "revert") = Clause("add", c.name, DefT(c))
             /\ G(c).patch = ClauseOf(G(c), "patch") /\ G(c).revert = ClauseOf(G(c), "revert")
  BY DEF Item, ClauseOf
<1>5. \A c : /\ ClauseOf(M(c), "patch") = Clause("modify", c.name, DefS(c))
             /\ ClauseOf(M(c), "revert") = Clause("modify", c.name, DefT(Column(d, c.name)))
             /\ M(c).patch = ClauseOf(M(c), "patch") /\ M(c).revert = ClauseOf(M(c), "revert")
  BY DEF Item, ClauseOf
<1>6. \A c : c \in PatchClauses(s, d, colls["source"], comments, renames) <=>
              \/ \E p \in renames : c = Clause("change", p.from.name, DefS(p.to))
              \/ \E x \in come : c = Clause("add", x.name, DefS(x))
              \/ \E x \in go : c = Clause("drop", x.name, NoColumn)
              \/ \E x \in swap : c = Clause("modify", x.name, DefS(x))
  BY Zenon DEF PatchClauses
<1>7. \A c : c \in RevertClauses(s, d, colls["target"], comments, renames) <=>
              \/ \E p \in renames : c = Clause("change", p.to.name, DefT(p.from))
              \/ \E x \in come : c = Clause("drop", x.name, NoColumn)
              \/ \E x \in go : c = Clause("add", x.name, DefT(x))
              \/ \E x \in swap : c = Clause("modify", x.name, DefT(Column(d, x.name)))
  BY Zenon DEF RevertClauses
<1> HIDE DEF R, A, G, M, DefS, DefT, come, go, swap, items
<1>8. \A c : (\E i \in items : c = ClauseOf(i, "patch")) <=>
               c \in PatchClauses(s, d, colls["source"], comments, renames)
  <2>1. ASSUME NEW i \in items PROVE ClauseOf(i, "patch") \in PatchClauses(s, d, colls["source"],
             comments, renames)
    <3>1. CASE \E p \in renames : i = R(p)
      BY <3>1, <1>2, <1>6, Zenon
    <3>2. CASE \E x \in come : i = A(x)
      BY <3>2, <1>3, <1>6, Zenon
    <3>3. CASE \E x \in go : i = G(x)
      BY <3>3, <1>4, <1>6, Zenon
    <3>4. CASE \E x \in swap : i = M(x)
      BY <3>4, <1>5, <1>6, Zenon
    <3> QED BY <1>1, <3>1, <3>2, <3>3, <3>4, Zenon
  <2>2. ASSUME NEW c \in PatchClauses(s, d, colls["source"], comments, renames)
        PROVE  \E i \in items : c = ClauseOf(i, "patch")
    <3>1. /\ \A p \in renames : R(p) \in items
          /\ \A x \in come : A(x) \in items
          /\ \A x \in go : G(x) \in items
          /\ \A x \in swap : M(x) \in items
      BY <1>1
    <3>2. CASE \E p \in renames : c = Clause("change", p.from.name, DefS(p.to))
      BY <3>1, <3>2, <1>2, Zenon
    <3>3. CASE \E x \in come : c = Clause("add", x.name, DefS(x))
      BY <3>1, <3>3, <1>3, Zenon
    <3>4. CASE \E x \in go : c = Clause("drop", x.name, NoColumn)
      BY <3>1, <3>4, <1>4, Zenon
    <3>5. CASE \E x \in swap : c = Clause("modify", x.name, DefS(x))
      BY <3>1, <3>5, <1>5, Zenon
    <3> QED BY <3>2, <3>3, <3>4, <3>5, <1>6, Zenon
  <2> QED BY <2>1, <2>2
<1>9. \A c : (\E i \in items : c = ClauseOf(i, "revert")) <=>
               c \in RevertClauses(s, d, colls["target"], comments, renames)
  <2>1. ASSUME NEW i \in items PROVE ClauseOf(i, "revert") \in RevertClauses(s, d, colls["target"],
             comments, renames)
    <3>1. CASE \E p \in renames : i = R(p)
      BY <3>1, <1>2, <1>7, Zenon
    <3>2. CASE \E x \in come : i = A(x)
      BY <3>2, <1>3, <1>7, Zenon
    <3>3. CASE \E x \in go : i = G(x)
      BY <3>3, <1>4, <1>7, Zenon
    <3>4. CASE \E x \in swap : i = M(x)
      BY <3>4, <1>5, <1>7, Zenon
    <3> QED BY <1>1, <3>1, <3>2, <3>3, <3>4, Zenon
  <2>2. ASSUME NEW c \in RevertClauses(s, d, colls["target"], comments, renames)
        PROVE  \E i \in items : c = ClauseOf(i, "revert")
    <3>1. /\ \A p \in renames : R(p) \in items
          /\ \A x \in come : A(x) \in items
          /\ \A x \in go : G(x) \in items
          /\ \A x \in swap : M(x) \in items
      BY <1>1
    <3>2. CASE \E p \in renames : c = Clause("change", p.to.name, DefT(p.from))
      BY <3>1, <3>2, <1>2, Zenon
    <3>3. CASE \E x \in come : c = Clause("drop", x.name, NoColumn)
      BY <3>1, <3>3, <1>3, Zenon
    <3>4. CASE \E x \in go : c = Clause("add", x.name, DefT(x))
      BY <3>1, <3>4, <1>4, Zenon
    <3>5. CASE \E x \in swap : c = Clause("modify", x.name, DefT(Column(d, x.name)))
      BY <3>1, <3>5, <1>5, Zenon
    <3> QED BY <3>2, <3>3, <3>4, <3>5, <1>7, Zenon
  <2> QED BY <2>1, <2>2
<1>10. ASSUME NEW i \in items PROVE i.patch.op \in ColumnOps /\ i.revert.op \in ColumnOps
  <2>1. \A op, name, col : Clause(op, name, col).op = op
    BY DEF Clause
  <2>2. "change" \in ColumnOps /\ "add" \in ColumnOps /\ "drop" \in ColumnOps /\ "modify" \in ColumnOps
    BY DEF ColumnOps
  <2>3. /\ \A p : R(p).patch.op \in ColumnOps /\ R(p).revert.op \in ColumnOps
        /\ \A c : A(c).patch.op \in ColumnOps /\ A(c).revert.op \in ColumnOps
        /\ \A c : G(c).patch.op \in ColumnOps /\ G(c).revert.op \in ColumnOps
        /\ \A c : M(c).patch.op \in ColumnOps /\ M(c).revert.op \in ColumnOps
    <3>1. ASSUME NEW p PROVE R(p).patch.op = "change" /\ R(p).revert.op = "change"
      <4>1. R(p).patch = Clause("change", p.from.name, DefS(p.to)) /\ R(p).revert = Clause("change",
                 p.to.name, DefT(p.from))
        BY <1>2, Zenon
      <4> QED BY <4>1, <2>1
    <3>2. ASSUME NEW c PROVE A(c).patch.op = "add" /\ A(c).revert.op = "drop"
      <4>1. A(c).patch = Clause("add", c.name, DefS(c)) /\ A(c).revert = Clause("drop", c.name, NoColumn)
        BY <1>3, Zenon
      <4> QED BY <4>1, <2>1
    <3>3. ASSUME NEW c PROVE G(c).patch.op = "drop" /\ G(c).revert.op = "add"
      <4>1. G(c).patch = Clause("drop", c.name, NoColumn) /\ G(c).revert = Clause("add", c.name, DefT(c))
        BY <1>4, Zenon
      <4> QED BY <4>1, <2>1
    <3>4. ASSUME NEW c PROVE M(c).patch.op = "modify" /\ M(c).revert.op = "modify"
      <4>1. /\ M(c).patch = Clause("modify", c.name, DefS(c))
            /\ M(c).revert = Clause("modify", c.name, DefT(Column(d, c.name)))
        BY <1>5, Zenon
      <4> QED BY <4>1, <2>1
    <3> QED BY <3>1, <3>2, <3>3, <3>4, <2>2
  <2> QED BY <2>3, <1>1, Zenon
<1> QED BY <1>8, <1>9, <1>10, Zenon DEF items

IndexOps == {"make", "unmake", "swap"}

IndexPatch(s, d, c) ==
  \/ \E x \in s : x.name \notin Names(d) /\ c = IndexClause("make", x)
  \/ \E x \in d : x.name \notin Names(s) /\ c = IndexClause("unmake", x)
  \/ \E x \in s \ d : x.name \in Names(d) /\ c = IndexClause("swap", x)

IndexRevert(s, d, c) ==
  \/ \E x \in s : x.name \notin Names(d) /\ c = IndexClause("unmake", x)
  \/ \E x \in d : x.name \notin Names(s) /\ c = IndexClause("make", x)
  \/ \E x \in s \ d : x.name \in Names(d) /\ c = IndexClause("swap", x)

\* The clauses about indexes.
LEMMA IndexItemClauses ==
  ASSUME NEW s, NEW d
  PROVE  /\ \A c : (\E i \in index_items(s, d) : c = ClauseOf(i, "patch")) <=> IndexPatch(s, d, c)
         /\ \A c : (\E i \in index_items(s, d) : c = ClauseOf(i, "revert")) <=> IndexRevert(s, d, c)
         /\ \A i \in index_items(s, d) : i.kind = "index" /\ i.patch.op \in IndexOps
              /\ i.revert.op \in IndexOps
<1>d. PICK items : items = index_items(s, d)
  OBVIOUS
<1> DEFINE A(x) == Item("index", "add", x.name, FALSE, IndexClause("make", x), IndexClause("unmake", x))
           G(x) == Item("index", "drop", x.name, x.name = "PRIMARY", IndexClause("unmake", x),
                IndexClause("make", x))
           M(x) == Item("index", "modify", x.name, x.name = "PRIMARY", IndexClause("swap", x),
                IndexClause("swap", x))
<1>1. \A i : i \in items <=>
        \/ \E x \in s : x.name \notin Names(d) /\ i = A(x)
        \/ \E x \in d : x.name \notin Names(s) /\ i = G(x)
        \/ \E x \in s \ d : x.name \in Names(d) /\ i = M(x)
  BY <1>d, Zenon DEF index_items
<1>2. \A x : /\ ClauseOf(A(x), "patch") = IndexClause("make", x) /\ ClauseOf(A(x),
                  "revert") = IndexClause("unmake", x)
             /\ A(x).patch = IndexClause("make", x) /\ A(x).revert = IndexClause("unmake", x)
             /\ A(x).kind = "index"
  BY DEF Item, ClauseOf
<1>3. \A x : /\ ClauseOf(G(x), "patch") = IndexClause("unmake", x) /\ ClauseOf(G(x),
                  "revert") = IndexClause("make", x)
             /\ G(x).patch = IndexClause("unmake", x) /\ G(x).revert = IndexClause("make", x)
             /\ G(x).kind = "index"
  BY DEF Item, ClauseOf
<1>4. \A x : /\ ClauseOf(M(x), "patch") = IndexClause("swap", x) /\ ClauseOf(M(x),
                  "revert") = IndexClause("swap", x)
             /\ M(x).patch = IndexClause("swap", x) /\ M(x).revert = IndexClause("swap", x)
             /\ M(x).kind = "index"
  BY DEF Item, ClauseOf
<1> HIDE DEF A, G, M
<1>5. \A c : (\E i \in items : c = ClauseOf(i, "patch")) <=>
                 \/ \E x \in s : x.name \notin Names(d) /\ c = IndexClause("make", x)
                 \/ \E x \in d : x.name \notin Names(s) /\ c = IndexClause("unmake", x)
                 \/ \E x \in s \ d : x.name \in Names(d) /\ c = IndexClause("swap", x)
  <2>1. ASSUME NEW i \in items
        PROVE  \/ \E x \in s : x.name \notin Names(d) /\ ClauseOf(i, "patch") = IndexClause("make", x)
               \/ \E x \in d : x.name \notin Names(s) /\ ClauseOf(i, "patch") = IndexClause("unmake", x)
               \/ \E x \in s \ d : x.name \in Names(d) /\ ClauseOf(i, "patch") = IndexClause("swap", x)
    BY <1>1, <1>2, <1>3, <1>4
  <2>2. /\ \A x \in s : x.name \notin Names(d) => A(x) \in items
        /\ \A x \in d : x.name \notin Names(s) => G(x) \in items
        /\ \A x \in s \ d : x.name \in Names(d) => M(x) \in items
    BY <1>1
  <2> QED BY <2>1, <2>2, <1>2, <1>3, <1>4
<1>6. \A c : (\E i \in items : c = ClauseOf(i, "revert")) <=>
                 \/ \E x \in s : x.name \notin Names(d) /\ c = IndexClause("unmake", x)
                 \/ \E x \in d : x.name \notin Names(s) /\ c = IndexClause("make", x)
                 \/ \E x \in s \ d : x.name \in Names(d) /\ c = IndexClause("swap", x)
  <2>1. ASSUME NEW i \in items
        PROVE  \/ \E x \in s : x.name \notin Names(d) /\ ClauseOf(i, "revert") = IndexClause("unmake", x)
               \/ \E x \in d : x.name \notin Names(s) /\ ClauseOf(i, "revert") = IndexClause("make", x)
               \/ \E x \in s \ d : x.name \in Names(d) /\ ClauseOf(i, "revert") = IndexClause("swap", x)
    BY <1>1, <1>2, <1>3, <1>4
  <2>2. /\ \A x \in s : x.name \notin Names(d) => A(x) \in items
        /\ \A x \in d : x.name \notin Names(s) => G(x) \in items
        /\ \A x \in s \ d : x.name \in Names(d) => M(x) \in items
    BY <1>1
  <2> QED BY <2>1, <2>2, <1>2, <1>3, <1>4
<1>7. ASSUME NEW i \in items
      PROVE  i.kind = "index" /\ i.patch.op \in IndexOps /\ i.revert.op \in IndexOps
  <2>1. \A op, x : op \in IndexOps => IndexClause(op, x).op \in IndexOps
    BY DEF IndexClause
  <2>2. "make" \in IndexOps /\ "unmake" \in IndexOps /\ "swap" \in IndexOps
    BY DEF IndexOps
  <2>3. /\ \A x : A(x).kind = "index" /\ A(x).patch.op \in IndexOps /\ A(x).revert.op \in IndexOps
        /\ \A x : G(x).kind = "index" /\ G(x).patch.op \in IndexOps /\ G(x).revert.op \in IndexOps
        /\ \A x : M(x).kind = "index" /\ M(x).patch.op \in IndexOps /\ M(x).revert.op \in IndexOps
    BY <2>1, <2>2, <1>2, <1>3, <1>4
  <2> QED BY <2>3, <1>1, Zenon
<1>8. \A c : (\E i \in items : c = ClauseOf(i, "patch")) <=> IndexPatch(s, d, c)
  BY <1>5, Zenon DEF IndexPatch
<1>9. \A c : (\E i \in items : c = ClauseOf(i, "revert")) <=> IndexRevert(s, d, c)
  BY <1>6, Zenon DEF IndexRevert
<1> QED BY <1>d, <1>7, <1>8, <1>9, Zenon

\* What is to be told apart of the options.
OptionDiffers(s, d, w, field) ==
  \/ field = "engine" /\ s.engine # d.engine
  \/ field = "coll" /\ normalize_collation(s.coll) # normalize_collation(d.coll)
  \/ field = "comment" /\ w.comments /\ s.comment # d.comment
  \/ field = "auto" /\ w.auto /\ s.auto # 0 /\ s.auto # d.auto

WishType == [tables : SUBSET TableNames, auto : BOOLEAN, comments : BOOLEAN]

OptionFields == {"engine", "coll", "comment", "auto"}

OptionTold(o, field) == IF field = "coll" THEN normalize_collation(o.coll) ELSE o[field]

OptionClauseFor(s, d, w, told, c) ==
  \E f \in OptionFields : OptionDiffers(s, d, w, f) /\ c = OptionClause(f, OptionTold(told, f))

\* The clauses about options: of those that differ, as the source, or the target, has them.
LEMMA OptionItemClauses ==
  ASSUME NEW s, NEW d, NEW w \in WishType
  PROVE  /\ \A i \in table_option_diffs(s, d, w.comments, w.auto) :
              i.kind = "option" /\ i.patch.op = "option" /\ i.revert.op = "option"
         /\ \A c : (\E i \in table_option_diffs(s, d, w.comments, w.auto) : c = ClauseOf(i, "patch")) <=>
                     OptionClauseFor(s, d, w, s, c)
         /\ \A c : (\E i \in table_option_diffs(s, d, w.comments, w.auto) : c = ClauseOf(i, "revert")) <=>
                     OptionClauseFor(s, d, w, d, c)
<1> DEFINE items == table_option_diffs(s, d, w.comments, w.auto)
           It(f) == Item("option", "modify", f, FALSE, OptionClause(f, OptionTold(s, f)),
                OptionClause(f, OptionTold(d, f)))
<1>2. \A f, v : OptionClause(f, v).op = "option"
  BY DEF OptionClause
<1>3. \A o : /\ OptionTold(o, "engine") = o.engine /\ OptionTold(o, "coll") = normalize_collation(o.coll)
             /\ OptionTold(o, "comment") = o.comment /\ OptionTold(o, "auto") = o.auto
  BY DEF OptionTold
<1>4. /\ OptionDiffers(s, d, w, "engine") <=> TRUE /\ s.engine # d.engine
      /\ OptionDiffers(s, d, w, "coll") <=>
           TRUE /\ normalize_collation(s.coll) # normalize_collation(d.coll)
      /\ OptionDiffers(s, d, w, "comment") <=> w.comments /\ s.comment # d.comment
      /\ OptionDiffers(s, d, w, "auto") <=> (w.auto /\ s.auto # 0) /\ s.auto # d.auto
  BY DEF OptionDiffers, WishType
<1>5. \A i : i \in items <=> \E f \in OptionFields : OptionDiffers(s, d, w, f) /\ i = It(f)
  <2>1. items = (IF OptionDiffers(s, d, w, "engine") THEN {It("engine")} ELSE {})
                \cup (IF OptionDiffers(s, d, w, "coll") THEN {It("coll")} ELSE {})
                \cup (IF OptionDiffers(s, d, w, "comment") THEN {It("comment")} ELSE {})
                \cup (IF OptionDiffers(s, d, w, "auto") THEN {It("auto")} ELSE {})
    BY <1>3, <1>4, Zenon DEF table_option_diffs
  <2> HIDE DEF It, items
  <2>2. OptionFields = {"engine", "coll", "comment", "auto"}
    BY DEF OptionFields
  <2> QED BY <2>1, <2>2
<1>6. \A f : /\ ClauseOf(It(f), "patch") = OptionClause(f, OptionTold(s, f))
             /\ ClauseOf(It(f), "revert") = OptionClause(f, OptionTold(d, f))
             /\ It(f).kind = "option" /\ It(f).patch.op = "option" /\ It(f).revert.op = "option"
  BY <1>2 DEF Item, ClauseOf
<1> HIDE DEF It, items
<1>7. \A i \in items : i.kind = "option" /\ i.patch.op = "option" /\ i.revert.op = "option"
  BY <1>5, <1>6
<1>8. \A c : (\E i \in items : c = ClauseOf(i, "patch")) <=>
                 OptionClauseFor(s, d, w, s, c)
  BY <1>5, <1>6 DEF OptionClauseFor
<1>9. \A c : (\E i \in items : c = ClauseOf(i, "revert")) <=>
                 OptionClauseFor(s, d, w, d, c)
  BY <1>5, <1>6 DEF OptionClauseFor
<1> QED BY <1>7, <1>8, <1>9, Zenon DEF items

OptionPatch(s, d, w, told, c) ==
  \E f \in OptionFields : /\ OptionDiffers(s, d, w, f)
                          /\ c = OptionClause(f, OptionTold(told, f))
                          /\ ~(f = "coll" /\ OptionTold(told, f) = "")

\* An ALTER, clause by clause.
LEMMA AlterIs ==
  ASSUME NEW side, NEW cols, NEW idxs, NEW opts,
         \A i \in cols : ClauseOf(i, side).op \in ColumnOps,
         \A i \in idxs : ClauseOf(i, side).op \in IndexOps,
         \A i \in opts : ClauseOf(i, side).op = "option"
  PROVE  /\ \A c : c \in build_alter(cols \cup idxs \cup opts, side) /\ c.op \in ColumnOps <=>
              \E i \in cols : c = ClauseOf(i, side)
         /\ \A c : c \in build_alter(cols \cup idxs \cup opts, side) /\ c.op \in IndexOps <=>
              \E i \in idxs : c = ClauseOf(i, side)
         /\ \A c : c \in build_alter(cols \cup idxs \cup opts, side) /\ c.op = "option" <=>
                     (\E i \in opts : c = ClauseOf(i, side)) /\ ~(c.field = "coll" /\ c.value = "")
         /\ \A c \in build_alter(cols \cup idxs \cup opts, side) : c.op \in ColumnOps \cup IndexOps
              \cup {"option"}
<1>0. PICK items : items = cols \cup idxs \cup opts
  OBVIOUS
<1>1. \A c : c \in build_alter(items, side) <=>
        (\E i \in items : c = ClauseOf(i, side)) /\ ~(c.op = "option" /\ c.field = "coll" /\ c.value = "")
  BY Zenon DEF build_alter, ClauseOf
<1>2. "option" \notin ColumnOps /\ "option" \notin IndexOps /\ ColumnOps \cap IndexOps = {}
  BY DEF ColumnOps, IndexOps
<1>3. ASSUME NEW i \in items
      PROVE  /\ ClauseOf(i, side).op \in ColumnOps \cup IndexOps \cup {"option"}
             /\ ClauseOf(i, side).op \in ColumnOps => i \in cols
             /\ ClauseOf(i, side).op \in IndexOps => i \in idxs
             /\ ClauseOf(i, side).op = "option" => i \in opts
  BY <1>0, <1>2
<1>4. \A c : c \in build_alter(items, side) /\ c.op \in ColumnOps <=> \E i \in cols : c = ClauseOf(i, side)
  BY <1>0, <1>1, <1>2, <1>3
<1>5. \A c : c \in build_alter(items, side) /\ c.op \in IndexOps <=> \E i \in idxs : c = ClauseOf(i, side)
  BY <1>0, <1>1, <1>2, <1>3
<1>6. \A c : c \in build_alter(items, side) /\ c.op = "option" <=>
               (\E i \in opts : c = ClauseOf(i, side)) /\ ~(c.field = "coll" /\ c.value = "")
  BY <1>0, <1>1, <1>2, <1>3
<1>7. \A c \in build_alter(items, side) : c.op \in ColumnOps \cup IndexOps \cup {"option"}
  BY <1>1, <1>3
<1> QED BY <1>0, <1>4, <1>5, <1>6, <1>7, Zenon

\* The patch, kind by kind,
LEMMA PatchIs ==
  ASSUME NEW src, NEW dst, NEW w \in WishType, NEW renames
  PROVE  LET alter == build_alter(diff_table(src, dst, w, renames), "patch")
         IN /\ \A c : c \in alter /\ c.op \in ColumnOps <=>
                        c \in PatchClauses(src.columns, dst.columns, src.options.coll, w.comments, renames)
            /\ \A c : c \in alter /\ c.op \in IndexOps <=> IndexPatch(src.indexes, dst.indexes, c)
            /\ \A c : c \in alter /\ c.op = "option" <=> OptionPatch(src.options, dst.options, w,
                 src.options, c)
            /\ \A c \in alter : c.op \in ColumnOps \cup IndexOps \cup {"option"}
<1>0. PICK colls : colls = [source |-> src.options.coll, target |-> dst.options.coll]
  OBVIOUS
<1> DEFINE cols == column_items(src.columns, dst.columns, colls, w.comments, renames)
           idxs == index_items(src.indexes, dst.indexes)
           opts == table_option_diffs(src.options, dst.options, w.comments, w.auto)
           items == diff_table(src, dst, w, renames)
           alter == build_alter(items, "patch")
<1>1. items = cols \cup idxs \cup opts
  BY <1>0, Zenon DEF diff_table
<1>2. colls["source"] = src.options.coll
  BY <1>0
<1>c. /\ \A c : (\E i \in cols : c = ClauseOf(i, "patch")) <=>
                  c \in PatchClauses(src.columns, dst.columns, src.options.coll, w.comments, renames)
      /\ \A i \in cols : i.patch.op \in ColumnOps
  <2>1. /\ \A c : (\E i \in cols : c = ClauseOf(i, "patch")) <=>
                   c \in PatchClauses(src.columns, dst.columns, colls["source"], w.comments, renames)
        /\ \A i \in cols : i.patch.op \in ColumnOps
    BY ColumnItemClauses
  <2> QED BY <2>1, <1>2
<1>i. /\ \A c : (\E i \in idxs : c = ClauseOf(i, "patch")) <=> IndexPatch(src.indexes, dst.indexes, c)
      /\ \A i \in idxs : i.patch.op \in IndexOps
  BY IndexItemClauses, Zenon
<1>o. /\ \A c : (\E i \in opts : c = ClauseOf(i, "patch")) <=>
                   OptionClauseFor(src.options, dst.options, w, src.options, c)
      /\ \A i \in opts : i.patch.op = "option"
  BY OptionItemClauses
<1> HIDE DEF cols, idxs, opts, items
<1>4. \A i : ClauseOf(i, "patch") = i.patch
  BY DEF ClauseOf
<1>a. /\ \A i \in cols : ClauseOf(i, "patch").op \in ColumnOps
      /\ \A i \in idxs : ClauseOf(i, "patch").op \in IndexOps
      /\ \A i \in opts : ClauseOf(i, "patch").op = "option"
  BY <1>4, <1>c, <1>i, <1>o, Zenon
<1>5. /\ \A c : c \in alter /\ c.op \in ColumnOps <=> \E i \in cols : c = ClauseOf(i, "patch")
      /\ \A c : c \in alter /\ c.op \in IndexOps <=> \E i \in idxs : c = ClauseOf(i, "patch")
      /\ \A c : c \in alter /\ c.op = "option" <=>
                     (\E i \in opts : c = ClauseOf(i, "patch")) /\ ~(c.field = "coll" /\ c.value = "")
      /\ \A c \in alter : c.op \in ColumnOps \cup IndexOps \cup {"option"}
  <2>1. /\ \A c : c \in build_alter(cols \cup idxs \cup opts, "patch") /\ c.op \in ColumnOps <=>
                    \E i \in cols : c = ClauseOf(i, "patch")
        /\ \A c : c \in build_alter(cols \cup idxs \cup opts, "patch") /\ c.op \in IndexOps <=>
                    \E i \in idxs : c = ClauseOf(i, "patch")
        /\ \A c : c \in build_alter(cols \cup idxs \cup opts, "patch") /\ c.op = "option" <=>
                    (\E i \in opts : c = ClauseOf(i, "patch")) /\ ~(c.field = "coll" /\ c.value = "")
        /\ \A c \in build_alter(cols \cup idxs \cup opts, "patch") : c.op \in ColumnOps \cup IndexOps
             \cup {"option"}
    BY <1>a, AlterIs
  <2> QED BY <1>1, <2>1
<1> HIDE DEF alter
<1>6. \A c : c \in alter /\ c.op = "option" <=> OptionPatch(src.options, dst.options, w, src.options, c)
  <2>1. \A f, v : OptionClause(f, v).field = f /\ OptionClause(f, v).value = v
    BY DEF OptionClause
  <2>2. \A c : OptionClauseFor(src.options, dst.options, w, src.options, c) /\ ~(c.field = "coll"
             /\ c.value = "")
                 <=> OptionPatch(src.options, dst.options, w, src.options, c)
    <3>1. ASSUME NEW c, NEW f \in OptionFields, c = OptionClause(f, OptionTold(src.options, f))
          PROVE  c.field = "coll" /\ c.value = "" <=> f = "coll" /\ OptionTold(src.options, f) = ""
      BY <3>1 DEF OptionClause
    <3> QED BY <3>1, Zenon DEF OptionPatch, OptionClauseFor
  <2>3. \A c : c \in alter /\ c.op = "option" <=>
                 OptionClauseFor(src.options, dst.options, w, src.options, c) /\ ~(c.field = "coll"
                      /\ c.value = "")
    BY <1>5, <1>o, Zenon
  <2> QED BY <2>2, <2>3, Zenon
<1> QED BY <1>5, <1>6, <1>c, <1>i, Zenon DEF alter, items

\* and the revert.
LEMMA RevertIs ==
  ASSUME NEW src, NEW dst, NEW w \in WishType, NEW renames
  PROVE  LET alter == build_alter(diff_table(src, dst, w, renames), "revert")
         IN /\ \A c : c \in alter /\ c.op \in ColumnOps <=>
                        c \in RevertClauses(src.columns, dst.columns, dst.options.coll, w.comments, renames)
            /\ \A c : c \in alter /\ c.op \in IndexOps <=> IndexRevert(src.indexes, dst.indexes, c)
            /\ \A c : c \in alter /\ c.op = "option" <=> OptionPatch(src.options, dst.options, w,
                 dst.options, c)
            /\ \A c \in alter : c.op \in ColumnOps \cup IndexOps \cup {"option"}
<1>0. PICK colls : colls = [source |-> src.options.coll, target |-> dst.options.coll]
  OBVIOUS
<1> DEFINE cols == column_items(src.columns, dst.columns, colls, w.comments, renames)
           idxs == index_items(src.indexes, dst.indexes)
           opts == table_option_diffs(src.options, dst.options, w.comments, w.auto)
           items == diff_table(src, dst, w, renames)
           alter == build_alter(items, "revert")
<1>1. items = cols \cup idxs \cup opts
  BY <1>0, Zenon DEF diff_table
<1>2. colls["target"] = dst.options.coll
  BY <1>0
<1>c. /\ \A c : (\E i \in cols : c = ClauseOf(i, "revert")) <=>
                  c \in RevertClauses(src.columns, dst.columns, dst.options.coll, w.comments, renames)
      /\ \A i \in cols : i.revert.op \in ColumnOps
  <2>1. /\ \A c : (\E i \in cols : c = ClauseOf(i, "revert")) <=>
                   c \in RevertClauses(src.columns, dst.columns, colls["target"], w.comments, renames)
        /\ \A i \in cols : i.revert.op \in ColumnOps
    BY ColumnItemClauses
  <2> QED BY <2>1, <1>2
<1>i. /\ \A c : (\E i \in idxs : c = ClauseOf(i, "revert")) <=> IndexRevert(src.indexes, dst.indexes, c)
      /\ \A i \in idxs : i.revert.op \in IndexOps
  BY IndexItemClauses, Zenon
<1>o. /\ \A c : (\E i \in opts : c = ClauseOf(i, "revert")) <=>
                   OptionClauseFor(src.options, dst.options, w, dst.options, c)
      /\ \A i \in opts : i.revert.op = "option"
  BY OptionItemClauses
<1> HIDE DEF cols, idxs, opts, items
<1>4. \A i : ClauseOf(i, "revert") = i.revert
  BY DEF ClauseOf
<1>a. /\ \A i \in cols : ClauseOf(i, "revert").op \in ColumnOps
      /\ \A i \in idxs : ClauseOf(i, "revert").op \in IndexOps
      /\ \A i \in opts : ClauseOf(i, "revert").op = "option"
  BY <1>4, <1>c, <1>i, <1>o, Zenon
<1>5. /\ \A c : c \in alter /\ c.op \in ColumnOps <=> \E i \in cols : c = ClauseOf(i, "revert")
      /\ \A c : c \in alter /\ c.op \in IndexOps <=> \E i \in idxs : c = ClauseOf(i, "revert")
      /\ \A c : c \in alter /\ c.op = "option" <=>
                     (\E i \in opts : c = ClauseOf(i, "revert")) /\ ~(c.field = "coll" /\ c.value = "")
      /\ \A c \in alter : c.op \in ColumnOps \cup IndexOps \cup {"option"}
  <2>1. /\ \A c : c \in build_alter(cols \cup idxs \cup opts, "revert") /\ c.op \in ColumnOps <=>
                    \E i \in cols : c = ClauseOf(i, "revert")
        /\ \A c : c \in build_alter(cols \cup idxs \cup opts, "revert") /\ c.op \in IndexOps <=>
                    \E i \in idxs : c = ClauseOf(i, "revert")
        /\ \A c : c \in build_alter(cols \cup idxs \cup opts, "revert") /\ c.op = "option" <=>
                    (\E i \in opts : c = ClauseOf(i, "revert")) /\ ~(c.field = "coll" /\ c.value = "")
        /\ \A c \in build_alter(cols \cup idxs \cup opts, "revert") : c.op \in ColumnOps \cup IndexOps
             \cup {"option"}
    BY <1>a, AlterIs
  <2> QED BY <1>1, <2>1
<1> HIDE DEF alter
<1>6. \A c : c \in alter /\ c.op = "option" <=> OptionPatch(src.options, dst.options, w, dst.options, c)
  <2>1. \A f, v : OptionClause(f, v).field = f /\ OptionClause(f, v).value = v
    BY DEF OptionClause
  <2>2. \A c : OptionClauseFor(src.options, dst.options, w, dst.options, c) /\ ~(c.field = "coll"
             /\ c.value = "")
                 <=> OptionPatch(src.options, dst.options, w, dst.options, c)
    <3>1. ASSUME NEW c, NEW f \in OptionFields, c = OptionClause(f, OptionTold(dst.options, f))
          PROVE  c.field = "coll" /\ c.value = "" <=> f = "coll" /\ OptionTold(dst.options, f) = ""
      BY <3>1 DEF OptionClause
    <3> QED BY <3>1, Zenon DEF OptionPatch, OptionClauseFor
  <2>3. \A c : c \in alter /\ c.op = "option" <=>
                 OptionClauseFor(src.options, dst.options, w, dst.options, c) /\ ~(c.field = "coll"
                      /\ c.value = "")
    BY <1>5, <1>o, Zenon
  <2> QED BY <2>2, <2>3, Zenon
<1> QED BY <1>5, <1>6, <1>c, <1>i, Zenon DEF alter, items

-----------------------------------------------------------------------------
(* What the ALTERs make of the options and the columns.                    *)

IsOption(c, f) == c.op = "option" /\ c.field = f

OptionClausesAre(alter, s, d, w, told) ==
  \A c : c \in alter /\ c.op = "option" <=> OptionPatch(s, d, w, told, c)

OptionGets(table, alter, s, d, w, told, f) ==
  OptionAfter(table, alter, f) =
    IF OptionDiffers(s, d, w, f) /\ ~(f = "coll" /\ OptionTold(told, f) = "")
    THEN OptionTold(told, f) ELSE table.options[f]

\* An option after an ALTER of those clauses.
LEMMA OptionAfterIs ==
  ASSUME NEW s, NEW d, NEW w \in WishType, NEW told, NEW alter, NEW table, NEW f \in OptionFields,
         OptionClausesAre(alter, s, d, w, told)
  PROVE  OptionGets(table, alter, s, d, w, told, f)
<1>0. \A c : c \in alter /\ c.op = "option" <=> OptionPatch(s, d, w, told, c)
  BY Zenon DEF OptionClausesAre
<1>1. \A g, v : OptionClause(g, v).op = "option" /\ OptionClause(g, v).field = g /\ OptionClause(g,
           v).value = v
  BY DEF OptionClause
<1>2. ASSUME NEW c \in alter, IsOption(c, f)
      PROVE  /\ OptionDiffers(s, d, w, f) /\ ~(f = "coll" /\ OptionTold(told, f) = "")
             /\ c.value = OptionTold(told, f)
  <2>1. OptionPatch(s, d, w, told, c) /\ c.field = f
    BY <1>0, <1>2 DEF IsOption
  <2>2. PICK g \in OptionFields : /\ OptionDiffers(s, d, w, g) /\ ~(g = "coll" /\ OptionTold(told, g) = "")
                                  /\ c = OptionClause(g, OptionTold(told, g))
    BY <2>1, Zenon DEF OptionPatch
  <2>3. g = f /\ c.value = OptionTold(told, g)
    BY <2>1, <2>2, <1>1
  <2> QED BY <2>2, <2>3, Zenon
<1>3. CASE OptionDiffers(s, d, w, f) /\ ~(f = "coll" /\ OptionTold(told, f) = "")
  <2> DEFINE x == OptionClause(f, OptionTold(told, f))
  <2>1. OptionPatch(s, d, w, told, x)
    BY <1>3, Zenon DEF OptionPatch
  <2>2. x \in alter /\ IsOption(x, f)
    BY <2>1, <1>0, <1>1 DEF IsOption
  <2>3. \E c \in alter : c.op = "option" /\ c.field = f
    BY <2>2, Zenon DEF IsOption
  <2>4. PICK c \in alter : IsOption(c, f) /\ OptionAfter(table, alter, f) = c.value
    BY <2>3, Zenon DEF OptionAfter, IsOption
  <2> QED BY <2>4, <1>2, <1>3, Zenon DEF OptionGets
<1>4. CASE ~(OptionDiffers(s, d, w, f) /\ ~(f = "coll" /\ OptionTold(told, f) = ""))
  <2>1. ~\E c \in alter : c.op = "option" /\ c.field = f
    BY <1>4, <1>2, Zenon DEF IsOption
  <2>2. OptionAfter(table, alter, f) = table.options[f]
    BY <2>1, Zenon DEF OptionAfter
  <2> QED BY <2>2, <1>4, Zenon DEF OptionGets
<1> QED BY <1>3, <1>4, Zenon

\* The names that the patch and the revert take out of a table, and the columns that they write into it.
GoneByPatch(s, d, comments, renames) ==
  {p.from.name : p \in renames} \cup Names(ColumnsThatGo(s, d, renames))
       \cup Names(ColumnsThatChange(s, d, comments))

WrittenByPatch(s, d, comments, renames) ==
  {p.to : p \in renames} \cup ColumnsThatCome(s, d, renames) \cup ColumnsThatChange(s, d, comments)

GoneByRevert(s, d, comments, renames) ==
  {p.to.name : p \in renames} \cup Names(ColumnsThatCome(s, d, renames))
       \cup Names(ColumnsThatChange(s, d, comments))

WrittenByRevert(s, d, comments, renames) ==
  {p.from : p \in renames} \cup ColumnsThatGo(s, d, renames)
    \cup {Column(d, c.name) : c \in ColumnsThatChange(s, d, comments)}

\* The columns that the clauses of a patch leave and write,
LEMMA PatchColumns ==
  ASSUME NEW s, NEW d, NEW coll, NEW comments, NEW renames, NEW alter, NEW table,
         \A c : c \in alter /\ c.op \in ColumnOps <=> c \in PatchClauses(s, d, coll, comments, renames)
  PROVE  ColumnsAfter(table, alter) =
           {c \in table.columns : c.name \notin GoneByPatch(s, d, comments, renames)}
             \cup {column_definition(x, coll) : x \in WrittenByPatch(s, d, comments, renames)}
<1> DEFINE come == ColumnsThatCome(s, d, renames)
           go == ColumnsThatGo(s, d, renames)
           change == ColumnsThatChange(s, d, comments)
           clauses == PatchClauses(s, d, coll, comments, renames)
<1>1. \A op, name, col : Clause(op, name, col).op = op /\ Clause(op, name, col).name = name
           /\ Clause(op, name, col).col = col
  BY DEF Clause
<1>2. \A c : c \in clauses <=>
              \/ \E p \in renames : c = Clause("change", p.from.name, column_definition(p.to, coll))
              \/ \E x \in come : c = Clause("add", x.name, column_definition(x, coll))
              \/ \E x \in go : c = Clause("drop", x.name, NoColumn)
              \/ \E x \in change : c = Clause("modify", x.name, column_definition(x, coll))
  BY Zenon DEF PatchClauses
<1> HIDE DEF come, go, change, clauses
<1>3. /\ Clauses(alter, {"change", "drop", "modify"}) = {c \in clauses : c.op \in {"change", "drop",
           "modify"}}
      /\ Clauses(alter, {"change", "add", "modify"}) = {c \in clauses : c.op \in {"change", "add",
           "modify"}}
  BY DEF Clauses, ColumnOps, clauses
<1>c. /\ \A p \in renames : Clause("change", p.from.name, column_definition(p.to, coll)) \in clauses
      /\ \A x \in come : Clause("add", x.name, column_definition(x, coll)) \in clauses
      /\ \A x \in go : Clause("drop", x.name, NoColumn) \in clauses
      /\ \A x \in change : Clause("modify", x.name, column_definition(x, coll)) \in clauses
  BY <1>2, Zenon
<1>4. {c.name : c \in Clauses(alter, {"change", "drop", "modify"})} = {p.from.name : p \in renames}
           \cup Names(go) \cup Names(change)
  <2>1. ASSUME NEW c \in clauses, c.op \in {"change", "drop", "modify"}
        PROVE  c.name \in {p.from.name : p \in renames} \cup Names(go) \cup Names(change)
    <3>1. CASE \E p \in renames : c = Clause("change", p.from.name, column_definition(p.to, coll))
      BY <3>1, <1>1
    <3>2. CASE \E x \in come : c = Clause("add", x.name, column_definition(x, coll))
      BY <3>2, <2>1, <1>1
    <3>3. CASE \E x \in go : c = Clause("drop", x.name, NoColumn)
      BY <3>3, <1>1 DEF Names
    <3>4. CASE \E x \in change : c = Clause("modify", x.name, column_definition(x, coll))
      BY <3>4, <1>1 DEF Names
    <3> QED BY <3>1, <3>2, <3>3, <3>4, <1>2, Zenon
  <2>2. ASSUME NEW n \in {p.from.name : p \in renames} \cup Names(go) \cup Names(change)
        PROVE  \E c \in clauses : c.op \in {"change", "drop", "modify"} /\ c.name = n
    <3>1. CASE \E p \in renames : n = p.from.name
      BY <3>1, <1>1, <1>c
    <3>2. CASE \E x \in go : n = x.name
      BY <3>2, <1>1, <1>c
    <3>3. CASE \E x \in change : n = x.name
      BY <3>3, <1>1, <1>c
    <3> QED BY <3>1, <3>2, <3>3 DEF Names
  <2> QED BY <2>1, <2>2, <1>3
<1>5. {c.col : c \in Clauses(alter, {"change", "add", "modify"})} =
        {column_definition(x, coll) : x \in {p.to : p \in renames} \cup come \cup change}
  <2>1. ASSUME NEW c \in clauses, c.op \in {"change", "add", "modify"}
        PROVE  \E x \in {p.to : p \in renames} \cup come \cup change : c.col = column_definition(x, coll)
    <3>1. CASE \E p \in renames : c = Clause("change", p.from.name, column_definition(p.to, coll))
      BY <3>1, <1>1
    <3>2. CASE \E x \in come : c = Clause("add", x.name, column_definition(x, coll))
      BY <3>2, <1>1
    <3>3. CASE \E x \in go : c = Clause("drop", x.name, NoColumn)
      BY <3>3, <2>1, <1>1
    <3>4. CASE \E x \in change : c = Clause("modify", x.name, column_definition(x, coll))
      BY <3>4, <1>1
    <3> QED BY <3>1, <3>2, <3>3, <3>4, <1>2, Zenon
  <2>2. ASSUME NEW x \in {p.to : p \in renames} \cup come \cup change
        PROVE  \E c \in clauses : c.op \in {"change", "add", "modify"} /\ c.col = column_definition(x, coll)
    <3>1. CASE \E p \in renames : x = p.to
      BY <3>1, <1>1, <1>c
    <3>2. CASE x \in come
      BY <3>2, <1>1, <1>c
    <3>3. CASE x \in change
      BY <3>3, <1>1, <1>c
    <3> QED BY <3>1, <3>2, <3>3
  <2> QED BY <2>1, <2>2, <1>3
<1>6. ColumnsAfter(table, alter) =
        {c \in table.columns : c.name \notin {x.name : x \in Clauses(alter, {"change", "drop", "modify"})}}
          \cup {c.col : c \in Clauses(alter, {"change", "add", "modify"})}
  BY Zenon DEF ColumnsAfter
<1> QED BY <1>4, <1>5, <1>6, Zenon DEF GoneByPatch, WrittenByPatch, come, go, change

\* and those of a revert.
LEMMA RevertColumns ==
  ASSUME NEW s, NEW d, NEW coll, NEW comments, NEW renames, NEW alter, NEW table,
         \A c : c \in alter /\ c.op \in ColumnOps <=> c \in RevertClauses(s, d, coll, comments, renames)
  PROVE  ColumnsAfter(table, alter) =
           {c \in table.columns : c.name \notin GoneByRevert(s, d, comments, renames)}
             \cup {column_definition(x, coll) : x \in WrittenByRevert(s, d, comments, renames)}
<1> DEFINE come == ColumnsThatCome(s, d, renames)
           go == ColumnsThatGo(s, d, renames)
           change == ColumnsThatChange(s, d, comments)
           clauses == RevertClauses(s, d, coll, comments, renames)
<1>1. \A op, name, col : Clause(op, name, col).op = op /\ Clause(op, name, col).name = name
           /\ Clause(op, name, col).col = col
  BY DEF Clause
<1>2. \A c : c \in clauses <=>
              \/ \E p \in renames : c = Clause("change", p.to.name, column_definition(p.from, coll))
              \/ \E x \in come : c = Clause("drop", x.name, NoColumn)
              \/ \E x \in go : c = Clause("add", x.name, column_definition(x, coll))
              \/ \E x \in change : c = Clause("modify", x.name, column_definition(Column(d, x.name), coll))
  BY Zenon DEF RevertClauses
<1> HIDE DEF come, go, change, clauses
<1>3. /\ Clauses(alter, {"change", "drop", "modify"}) = {c \in clauses : c.op \in {"change", "drop",
           "modify"}}
      /\ Clauses(alter, {"change", "add", "modify"}) = {c \in clauses : c.op \in {"change", "add",
           "modify"}}
  BY DEF Clauses, ColumnOps, clauses
<1>c. /\ \A p \in renames : Clause("change", p.to.name, column_definition(p.from, coll)) \in clauses
      /\ \A x \in come : Clause("drop", x.name, NoColumn) \in clauses
      /\ \A x \in go : Clause("add", x.name, column_definition(x, coll)) \in clauses
      /\ \A x \in change : Clause("modify", x.name, column_definition(Column(d, x.name), coll)) \in clauses
  BY <1>2, Zenon
<1>4. {c.name : c \in Clauses(alter, {"change", "drop", "modify"})} = {p.to.name : p \in renames}
           \cup Names(come) \cup Names(change)
  <2>1. ASSUME NEW c \in clauses, c.op \in {"change", "drop", "modify"}
        PROVE  c.name \in {p.to.name : p \in renames} \cup Names(come) \cup Names(change)
    <3>1. CASE \E p \in renames : c = Clause("change", p.to.name, column_definition(p.from, coll))
      BY <3>1, <1>1
    <3>2. CASE \E x \in come : c = Clause("drop", x.name, NoColumn)
      BY <3>2, <1>1 DEF Names
    <3>3. CASE \E x \in go : c = Clause("add", x.name, column_definition(x, coll))
      BY <3>3, <2>1, <1>1
    <3>4. CASE \E x \in change : c = Clause("modify", x.name, column_definition(Column(d, x.name), coll))
      BY <3>4, <1>1 DEF Names
    <3> QED BY <3>1, <3>2, <3>3, <3>4, <1>2, Zenon
  <2>2. ASSUME NEW n \in {p.to.name : p \in renames} \cup Names(come) \cup Names(change)
        PROVE  \E c \in clauses : c.op \in {"change", "drop", "modify"} /\ c.name = n
    <3>1. CASE \E p \in renames : n = p.to.name
      BY <3>1, <1>1, <1>c
    <3>2. CASE \E x \in come : n = x.name
      BY <3>2, <1>1, <1>c
    <3>3. CASE \E x \in change : n = x.name
      BY <3>3, <1>1, <1>c
    <3> QED BY <3>1, <3>2, <3>3 DEF Names
  <2> QED BY <2>1, <2>2, <1>3
<1>5. {c.col : c \in Clauses(alter, {"change", "add", "modify"})} =
        {column_definition(x, coll) : x \in {p.from : p \in renames} \cup go \cup {Column(d, c.name) :
             c \in change}}
  <2>1. ASSUME NEW c \in clauses, c.op \in {"change", "add", "modify"}
        PROVE  \E x \in {p.from : p \in renames} \cup go \cup {Column(d, y.name) : y \in change} :
                    c.col = column_definition(x, coll)
    <3>1. CASE \E p \in renames : c = Clause("change", p.to.name, column_definition(p.from, coll))
      BY <3>1, <1>1
    <3>2. CASE \E x \in come : c = Clause("drop", x.name, NoColumn)
      BY <3>2, <2>1, <1>1
    <3>3. CASE \E x \in go : c = Clause("add", x.name, column_definition(x, coll))
      BY <3>3, <1>1
    <3>4. CASE \E x \in change : c = Clause("modify", x.name, column_definition(Column(d, x.name), coll))
      BY <3>4, <1>1
    <3> QED BY <3>1, <3>2, <3>3, <3>4, <1>2, Zenon
  <2>2. ASSUME NEW x \in {p.from : p \in renames} \cup go \cup {Column(d, y.name) : y \in change}
        PROVE  \E c \in clauses : c.op \in {"change", "add", "modify"} /\ c.col = column_definition(x, coll)
    <3>1. CASE \E p \in renames : x = p.from
      BY <3>1, <1>1, <1>c
    <3>2. CASE x \in go
      BY <3>2, <1>1, <1>c
    <3>3. CASE \E y \in change : x = Column(d, y.name)
      BY <3>3, <1>1, <1>c
    <3> QED BY <3>1, <3>2, <3>3
  <2> QED BY <2>1, <2>2, <1>3
<1>6. ColumnsAfter(table, alter) =
        {c \in table.columns : c.name \notin {x.name : x \in Clauses(alter, {"change", "drop", "modify"})}}
          \cup {c.col : c \in Clauses(alter, {"change", "add", "modify"})}
  BY Zenon DEF ColumnsAfter
<1> QED BY <1>4, <1>5, <1>6, Zenon DEF GoneByRevert, WrittenByRevert, come, go, change

-----------------------------------------------------------------------------
(* A target's columns after the patch, and after its revert.               *)

Twins(c, d) == SameSignature(c, d, FALSE)

\* The renames: pairs of a column that only the target has and one that only the source has, none in two,
\* and as many as there can be.
LEMMA RenamesAre ==
  ASSUME NEW s, NEW d, NEW m \in Renames(s, d)
  PROVE  /\ \A p \in m : /\ p.from \in d /\ p.from.name \notin Names(s)
                         /\ p.to \in s /\ p.to.name \notin Names(d) /\ Twins(p.from, p.to)
         /\ \A p, q \in m : p.from = q.from \/ p.to = q.to => p = q
         /\ \A y \in d, x \in s : y.name \notin Names(s) /\ x.name \notin Names(d) /\ Twins(y, x) =>
              \E q \in m : q.from = y \/ q.to = x
<1> DEFINE added == {c \in s : c.name \notin Names(d)}
           removed == {c \in d : c.name \notin Names(s)}
           pairs == {p \in [from : removed, to : added] : Twins(p.from, p.to)}
<1>1. /\ m \subseteq pairs
      /\ \A p, q \in m : p.from = q.from \/ p.to = q.to => p = q
      /\ \A p \in pairs : \E q \in m : p.from = q.from \/ p.to = q.to
  <2>1. pairs = {p \in [from : removed, to : added] :
                   column_signature(p.from, FALSE) = column_signature(p.to, FALSE)}
    BY Zenon DEF Twins, SameSignature
  <2> HIDE DEF pairs
  <2>2. m \in {n \in SUBSET pairs :
                 /\ \A p, q \in n : p.from = q.from \/ p.to = q.to => p = q
                 /\ \A p \in pairs : \E q \in n : p.from = q.from \/ p.to = q.to}
    BY <2>1, Zenon DEF Renames
  <2> QED BY <2>2, Zenon
<1>2. ASSUME NEW p \in m
      PROVE  /\ p.from \in d /\ p.from.name \notin Names(s)
             /\ p.to \in s /\ p.to.name \notin Names(d) /\ Twins(p.from, p.to)
  <2>1. p \in [from : removed, to : added] /\ Twins(p.from, p.to)
    BY <1>1
  <2> QED BY <2>1
<1>3. ASSUME NEW y \in d, NEW x \in s, y.name \notin Names(s), x.name \notin Names(d), Twins(y, x)
      PROVE  \E q \in m : q.from = y \/ q.to = x
  <2> DEFINE p == [from |-> y, to |-> x]
  <2>1. p \in [from : removed, to : added] /\ p.from = y /\ p.to = x
    BY <1>3
  <2>2. p \in pairs
    BY <2>1, <1>3
  <2>3. PICK q \in m : p.from = q.from \/ p.to = q.to
    BY <1>1, <2>2
  <2> QED BY <2>3, <2>1
<1> QED BY <1>1, <1>2, <1>3

\* Which columns of the target the patch leaves alone.
LEMMA PatchLeaves ==
  ASSUME NEW s, ColumnsOK(s), NEW d, ColumnsOK(d), NEW m \in Renames(s, d), NEW comments
  PROVE  /\ \A c \in d : c.name \notin GoneByPatch(s, d, comments, m) =>
              \E x \in s : /\ x.name = c.name /\ SameSignature(c, x, comments)
                           /\ x \notin ColumnsThatChange(s, d, comments)
         /\ \A x \in s : x \in WrittenByPatch(s, d, comments, m) \/
              \E c \in d : c.name = x.name /\ c.name \notin GoneByPatch(s, d, comments, m)
         /\ WrittenByPatch(s, d, comments, m) \subseteq s
         /\ \A c \in d : c.name \in Names(s) \ Names(ColumnsThatChange(s, d, comments)) =>
              c.name \notin GoneByPatch(s, d, comments, m)
<1> DEFINE gone == GoneByPatch(s, d, comments, m)
           change == ColumnsThatChange(s, d, comments)
           go == ColumnsThatGo(s, d, m)
           come == ColumnsThatCome(s, d, m)
<1>0. /\ \A x, y \in s : x.name = y.name => x = y
      /\ \A x, y \in d : x.name = y.name => x = y
  BY DEF ColumnsOK
<1>r. \A p \in m : /\ p.from \in d /\ p.from.name \notin Names(s)
                   /\ p.to \in s /\ p.to.name \notin Names(d)
  BY RenamesAre
<1>1. ASSUME NEW c \in d, c.name \notin gone
      PROVE  \E x \in s : x.name = c.name /\ SameSignature(c, x, comments) /\ x \notin change
  <2>1. c.name \in Names(s)
    <3>1. c \notin go /\ \A p \in m : p.from.name # c.name
      BY <1>1 DEF GoneByPatch, Names
    <3> QED BY <3>1 DEF ColumnsThatGo
  <2>2. PICK x \in s : x.name = c.name
    BY <2>1 DEF Names
  <2>3. x \notin change
    BY <1>1, <2>2 DEF GoneByPatch, Names
  <2>4. x.name \in Names(d) /\ Column(d, x.name) = c
    BY <2>2, <1>0, ColumnUnique DEF Names
  <2>5. SameSignature(x, c, comments)
    BY <2>3, <2>4 DEF ColumnsThatChange
  <2> QED BY <2>2, <2>3, <2>5 DEF SameSignature
<1>2. ASSUME NEW c \in d, c.name \in Names(s), c.name \notin Names(change)
      PROVE  c.name \notin gone
  <2>1. c.name \notin {p.from.name : p \in m}
    BY <1>r, <1>2
  <2>2. c.name \notin Names(go)
    BY <1>2 DEF ColumnsThatGo, Names
  <2> QED BY <1>2, <2>1, <2>2 DEF GoneByPatch
<1>3. ASSUME NEW x \in s
      PROVE  x \in WrittenByPatch(s, d, comments, m) \/ \E c \in d : c.name = x.name /\ c.name \notin gone
  <2>1. CASE x.name \in Names(d) /\ x \notin change
    <3>1. PICK c \in d : c.name = x.name
      BY <2>1 DEF Names
    <3>2. c.name \in Names(s) /\ c.name \notin Names(change)
      BY <3>1, <2>1, <1>0 DEF Names, ColumnsThatChange
    <3> QED BY <3>1, <3>2, <1>2
  <2>2. CASE x \in change
    BY <2>2 DEF WrittenByPatch
  <2>3. CASE x.name \notin Names(d)
    <3>1. x \in come \/ \E p \in m : p.to = x
      BY <2>3 DEF ColumnsThatCome
    <3> QED BY <3>1 DEF WrittenByPatch
  <2> QED BY <2>1, <2>2, <2>3
<1>4. WrittenByPatch(s, d, comments, m) \subseteq s
  BY <1>r DEF WrittenByPatch, ColumnsThatCome, ColumnsThatChange
<1> QED BY <1>1, <1>2, <1>3, <1>4

Kept(have, gone) == {c \in have : c.name \notin gone}

\* Columns that the revert can start from.
BeforeRevert(s, d, comments, m, have) ==
  /\ \A x \in d : x.name \in Names(s) \ Names(ColumnsThatChange(s, d, comments)) => x \in have
  /\ \A y \in have : y.name \notin GoneByRevert(s, d, comments, m) => y \in d /\ y.name \in Names(s)

PatchColumnsOf(s, d, comments, m, have, from, to) ==
  Rewritten(Kept(have, GoneByPatch(s, d, comments, m)), WrittenByPatch(s, d, comments, m), from, to)

RevertColumnsOf(s, d, comments, m, have, from, to) ==
  Rewritten(Kept(have, GoneByRevert(s, d, comments, m)), WrittenByRevert(s, d, comments, m), from, to)

\* The columns of the target after the patch.
LEMMA PatchMakesColumns ==
  ASSUME NEW s, ColumnsOK(s), NEW d, ColumnsOK(d), NEW m \in Renames(s, d), NEW comments,
         NEW from, from # "", NEW to, SameCollation(to, from)
  PROVE  /\ ToldAlike(s, PatchColumnsOf(s, d, comments, m, d, from, to), comments)
         /\ BeforeRevert(s, d, comments, m, PatchColumnsOf(s, d, comments, m, d, from, to))
<1> DEFINE have == Kept(d, GoneByPatch(s, d, comments, m))
           P == WrittenByPatch(s, d, comments, m)
           put == {column_definition(x, from) : x \in P}
           after == PatchColumnsOf(s, d, comments, m, d, from, to)
<1>0. \A c \in d : ColumnOK(c)
  BY DEF ColumnsOK
<1>l. /\ \A c \in d : c.name \notin GoneByPatch(s, d, comments, m) =>
              \E x \in s : /\ x.name = c.name /\ SameSignature(c, x, comments)
                           /\ x \notin ColumnsThatChange(s, d, comments)
      /\ \A x \in s : x \in WrittenByPatch(s, d, comments, m) \/
              \E c \in d : c.name = x.name /\ c.name \notin GoneByPatch(s, d, comments, m)
      /\ WrittenByPatch(s, d, comments, m) \subseteq s
      /\ \A c \in d : c.name \in Names(s) \ Names(ColumnsThatChange(s, d, comments)) =>
              c.name \notin GoneByPatch(s, d, comments, m)
  BY PatchLeaves
<1>1. \A c \in have : ColumnOK(c) /\ \E x \in s : x.name = c.name /\ SameSignature(c, x, comments)
  BY <1>0, <1>l DEF Kept
<1>2. ASSUME NEW x \in s
      PROVE  x \in P \/ x.name \in Names(have)
  <2>1. CASE \E c \in d : c.name = x.name /\ c.name \notin GoneByPatch(s, d, comments, m)
    BY <2>1 DEF Names, Kept
  <2> QED BY <2>1, <1>l
<1>3. Ready(s, have, P, comments)
  BY <1>1, <1>2, <1>l DEF Ready
<1>4. ToldAlike(s, after, comments) /\ have \subseteq after
  <2> HIDE DEF have, P
  <2>1. ToldAlike(s, Rewritten(have, P, from, to), comments) /\ have \subseteq Rewritten(have, P, from, to)
    BY <1>3, BecomeLike
  <2>2. after = Rewritten(have, P, from, to)
    BY DEF PatchColumnsOf, have, P
  <2> QED BY <2>1, <2>2
<1>5. \A x \in d : x.name \in Names(s) \ Names(ColumnsThatChange(s, d, comments)) => x \in after
  <2> SUFFICES ASSUME NEW x \in d, x.name \in Names(s) \ Names(ColumnsThatChange(s, d, comments))
               PROVE  x \in have
    BY <1>4
  <2> QED BY <1>l DEF Kept
<1>6. ASSUME NEW y \in after, y.name \notin GoneByRevert(s, d, comments, m)
      PROVE  y \in d /\ y.name \in Names(s)
  <2>1. PICK c \in have \cup put : y = Filled(c, to)
    BY DEF PatchColumnsOf, Rewritten
  <2>2. CASE c \in have
    <3>0. c \in d
      BY <2>2 DEF Kept
    <3>1. y = c
      BY <2>1, <3>0, <1>0, FilledKeeps
    <3>2. c.name \in Names(s)
      BY <2>2, <1>1 DEF Names
    <3> QED BY <3>0, <3>1, <3>2
  <2>3. CASE c \in put
    <3>1. PICK x \in P : c = column_definition(x, from)
      BY <2>3
    <3>2. ColumnOK(x)
      BY <1>l DEF ColumnsOK
    <3>3. y.name = x.name
      BY <3>1, <3>2, <2>1, FilledDefinition
    <3>4. x.name \in GoneByRevert(s, d, comments, m)
      BY DEF WrittenByPatch, GoneByRevert, Names
    <3> QED BY <3>3, <3>4, <1>6
  <2> QED BY <2>1, <2>2, <2>3
<1> HIDE DEF after
<1>7. BeforeRevert(s, d, comments, m, after)
  BY <1>5, <1>6 DEF BeforeRevert
<1> QED BY <1>4, <1>7, Zenon DEF after

\* And after the revert: those of the target, comments included.
LEMMA RevertMakesColumns ==
  ASSUME NEW s, ColumnsOK(s), NEW d, ColumnsOK(d), NEW m \in Renames(s, d), NEW comments,
         NEW from, from # "", NEW to, SameCollation(to, from), NEW have, NEW all,
         BeforeRevert(s, d, comments, m, have)
  PROVE  ToldAlike(d, RevertColumnsOf(s, d, comments, m, have, from, to), all)
<1> DEFINE kept == Kept(have, GoneByRevert(s, d, comments, m))
           P == WrittenByRevert(s, d, comments, m)
           change == ColumnsThatChange(s, d, comments)
<1>b. /\ \A x \in d : x.name \in Names(s) \ Names(ColumnsThatChange(s, d, comments)) => x \in have
      /\ \A y \in have : y.name \notin GoneByRevert(s, d, comments, m) => y \in d /\ y.name \in Names(s)
  BY Zenon DEF BeforeRevert
<1>0. /\ \A x, y \in s : x.name = y.name => x = y
      /\ \A x, y \in d : x.name = y.name => x = y
      /\ \A c \in d : ColumnOK(c)
  BY DEF ColumnsOK
<1>r. \A p \in m : /\ p.from \in d /\ p.from.name \notin Names(s)
                   /\ p.to \in s /\ p.to.name \notin Names(d)
  BY RenamesAre
<1>1. \A c \in kept : ColumnOK(c) /\ \E x \in d : x.name = c.name /\ SameSignature(c, x, all)
  BY <1>0, <1>b DEF SameSignature, Kept
<1>2. ASSUME NEW x \in d PROVE x \in P \/ x.name \in Names(kept)
  <2>1. CASE x.name \notin Names(s)
    <3>1. x \in ColumnsThatGo(s, d, m) \/ \E p \in m : p.from = x
      BY <2>1 DEF ColumnsThatGo
    <3> QED BY <3>1 DEF WrittenByRevert
  <2>2. CASE x.name \in Names(change)
    <3>1. PICK c \in change : c.name = x.name
      BY <2>2 DEF Names
    <3>2. Column(d, c.name) = x
      BY <3>1, <1>0, ColumnUnique
    <3> QED BY <3>2 DEF WrittenByRevert
  <2>3. CASE x.name \in Names(s) \ Names(change)
    <3>1. x \in have
      BY <2>3, <1>b
    <3>2. x.name \notin {p.to.name : p \in m}
      BY <1>r DEF Names
    <3>3. x.name \notin Names(ColumnsThatCome(s, d, m))
      BY DEF ColumnsThatCome, Names
    <3>4. x \in kept
      BY <3>1, <3>2, <3>3, <2>3 DEF GoneByRevert, Kept
    <3> QED BY <3>4 DEF Names
  <2> QED BY <2>1, <2>2, <2>3
<1>3. P \subseteq d
  <2>1. \A c \in change : Column(d, c.name) \in d
    BY ColumnThere DEF ColumnsThatChange
  <2> QED BY <2>1, <1>r DEF WrittenByRevert, ColumnsThatGo
<1>5. Ready(d, kept, P, all)
  BY <1>1, <1>2, <1>3 DEF Ready
<1> HIDE DEF kept, P
<1>4. ToldAlike(d, Rewritten(kept, P, from, to), all)
  BY <1>5, BecomeLike
<1> QED BY <1>4, Zenon DEF kept, P, RevertColumnsOf

-----------------------------------------------------------------------------
(* Its options.                                                            *)

\* A table has an engine only if it has a collation.
OptionsOK(o) == o \in OptionType /\ (o.coll = "" => o.engine = "")

TheAlter(src, dst, w, m, side) == build_alter(diff_table(src, dst, w, m), side)

\* What a patch that is not refused says of the options of both tables, and what it makes of them.
LEMMA PatchOptions ==
  ASSUME NEW src, OptionsOK(src.options), NEW dst, OptionsOK(dst.options), NEW w \in WishType, NEW m,
         NEW table, table.options = dst.options,
         ~MySQLRefuses(table, TheAlter(src, dst, w, m, "patch"))
  PROVE  /\ src.options.coll # "" /\ dst.options.coll # ""
         /\ OptionAfter(table, TheAlter(src, dst, w, m, "patch"), "engine") = src.options.engine
         /\ SameCollation(OptionAfter(table, TheAlter(src, dst, w, m, "patch"), "coll"), src.options.coll)
<1> DEFINE alter == TheAlter(src, dst, w, m, "patch")
           s == src.options
           d == dst.options
<1>1. \A c : c \in alter /\ c.op = "option" <=> OptionPatch(s, d, w, s, c)
  BY PatchIs, Zenon DEF TheAlter
<1>2. /\ \A c \in alter : ~ClauseRefused(table, alter, c)
      /\ d.engine # ""
  BY Zenon DEF MySQLRefuses
<1>t. /\ OptionTold(s, "engine") = s.engine /\ OptionTold(s, "coll") = normalize_collation(s.coll)
  BY DEF OptionTold
<1>3. s.engine # ""
  <2> SUFFICES ASSUME s.engine = "" PROVE FALSE
    OBVIOUS
  <2> DEFINE c == OptionClause("engine", s.engine)
  <2>1. OptionDiffers(s, d, w, "engine")
    BY <1>2 DEF OptionDiffers
  <2>2. OptionPatch(s, d, w, s, c)
    <3>1. "engine" \in OptionFields
      BY DEF OptionFields
    <3> QED BY <3>1, <2>1, <1>t DEF OptionPatch
  <2>3. c \in alter /\ c.op = "option"
    BY <2>2, <1>1
  <2>4. c.field = "engine" /\ c.value = ""
    BY DEF OptionClause
  <2>5. ClauseRefused(table, alter, c)
    BY <2>3, <2>4 DEF ClauseRefused
  <2> QED BY <2>3, <2>5, <1>2
<1>4. s.coll # "" /\ d.coll # ""
  BY <1>2, <1>3 DEF OptionsOK
<1>5. \A f \in OptionFields : OptionAfter(table, alter, f) =
           IF OptionDiffers(s, d, w, f) /\ ~(f = "coll" /\ OptionTold(s, f) = "")
           THEN OptionTold(s, f) ELSE d[f]
  <2> HIDE DEF alter
  <2>1. OptionClausesAre(alter, s, d, w, s)
    BY <1>1, Zenon DEF OptionClausesAre
  <2>2. \A f \in OptionFields : OptionGets(table, alter, s, d, w, s, f)
    BY <2>1, OptionAfterIs
  <2> QED BY <2>2, Zenon DEF OptionGets
<1>6. OptionAfter(table, alter, "engine") = s.engine
  <2>1. OptionAfter(table, alter, "engine") =
           IF OptionDiffers(s, d, w, "engine") THEN s.engine ELSE d.engine
    BY <1>5, <1>t DEF OptionFields
  <2>2. OptionDiffers(s, d, w, "engine") <=> s.engine # d.engine
    BY DEF OptionDiffers
  <2> QED BY <2>1, <2>2
<1>7. SameCollation(OptionAfter(table, alter, "coll"), s.coll)
  <2>1. OptionAfter(table, alter, "coll") =
           IF OptionDiffers(s, d, w, "coll") /\ normalize_collation(s.coll) # ""
                THEN normalize_collation(s.coll) ELSE d.coll
    BY <1>5, <1>t DEF OptionFields
  <2>2. OptionDiffers(s, d, w, "coll") <=> normalize_collation(s.coll) # normalize_collation(d.coll)
    BY DEF OptionDiffers
  <2>3. normalize_collation(s.coll) # ""
    BY <1>4, NormalizedOnce
  <2> QED BY <2>1, <2>2, <2>3, NormalizedOnce DEF SameCollation
<1> QED BY <1>4, <1>6, <1>7

\* The two that a comparison may be asked to tell apart besides.
LEMMA PatchOptionsBesides ==
  ASSUME NEW src, NEW dst, NEW w \in WishType, NEW m, NEW table, table.options = dst.options
  PROVE  /\ w.comments => OptionAfter(table, TheAlter(src, dst, w, m, "patch"),
              "comment") = src.options.comment
         /\ w.auto /\ src.options.auto # 0 =>
              OptionAfter(table, TheAlter(src, dst, w, m, "patch"), "auto") = src.options.auto
<1> DEFINE alter == TheAlter(src, dst, w, m, "patch")
           s == src.options
           d == dst.options
<1>1. \A c : c \in alter /\ c.op = "option" <=> OptionPatch(s, d, w, s, c)
  BY PatchIs, Zenon DEF TheAlter
<1>5. \A f \in OptionFields : OptionAfter(table, alter, f) =
           IF OptionDiffers(s, d, w, f) /\ ~(f = "coll" /\ OptionTold(s, f) = "")
           THEN OptionTold(s, f) ELSE d[f]
  <2> HIDE DEF alter
  <2>1. OptionClausesAre(alter, s, d, w, s)
    BY <1>1, Zenon DEF OptionClausesAre
  <2>2. \A f \in OptionFields : OptionGets(table, alter, s, d, w, s, f)
    BY <2>1, OptionAfterIs
  <2> QED BY <2>2, Zenon DEF OptionGets
<1>6. /\ OptionAfter(table, alter, "comment") = IF OptionDiffers(s, d, w, "comment") THEN s.comment
           ELSE d.comment
      /\ OptionAfter(table, alter, "auto") = IF OptionDiffers(s, d, w, "auto") THEN s.auto ELSE d.auto
  BY <1>5 DEF OptionFields, OptionTold
<1>7. /\ OptionDiffers(s, d, w, "comment") <=> w.comments /\ s.comment # d.comment
      /\ OptionDiffers(s, d, w, "auto") <=> w.auto /\ s.auto # 0 /\ s.auto # d.auto
  BY DEF OptionDiffers
<1> QED BY <1>6, <1>7

\* The options after the patch and after its revert.
LEMMA RevertOptions ==
  ASSUME NEW src, OptionsOK(src.options), NEW dst, OptionsOK(dst.options), NEW w \in WishType, NEW m,
         ~MySQLRefuses(dst, TheAlter(src, dst, w, m, "patch")),
         NEW table, \A f \in OptionFields \ {"auto"} :
                      table.options[f] = OptionAfter(dst, TheAlter(src, dst, w, m, "patch"), f)
  PROVE  /\ OptionAfter(table, TheAlter(src, dst, w, m, "revert"), "engine") = dst.options.engine
         /\ SameCollation(OptionAfter(table, TheAlter(src, dst, w, m, "revert"), "coll"), dst.options.coll)
         /\ OptionAfter(table, TheAlter(src, dst, w, m, "revert"), "comment") = dst.options.comment
<1> DEFINE patch == TheAlter(src, dst, w, m, "patch")
           revert == TheAlter(src, dst, w, m, "revert")
           s == src.options
           d == dst.options
           Differs(f) == OptionDiffers(s, d, w, f)
<1>1. /\ \A c : c \in patch /\ c.op = "option" <=> OptionPatch(s, d, w, s, c)
      /\ \A c : c \in revert /\ c.op = "option" <=> OptionPatch(s, d, w, d, c)
  BY PatchIs, RevertIs, Zenon DEF TheAlter
<1>2. \A f \in OptionFields : OptionAfter(dst, patch, f) =
           IF Differs(f) /\ ~(f = "coll" /\ OptionTold(s, f) = "") THEN OptionTold(s, f) ELSE d[f]
  <2> HIDE DEF patch
  <2>1. OptionClausesAre(patch, s, d, w, s)
    BY <1>1, Zenon DEF OptionClausesAre
  <2>2. \A f \in OptionFields : OptionGets(dst, patch, s, d, w, s, f)
    BY <2>1, OptionAfterIs
  <2> QED BY <2>2, Zenon DEF OptionGets
<1>3. \A f \in OptionFields : OptionAfter(table, revert, f) =
           IF Differs(f) /\ ~(f = "coll" /\ OptionTold(d, f) = "") THEN OptionTold(d, f)
                ELSE table.options[f]
  <2> HIDE DEF revert
  <2>1. OptionClausesAre(revert, s, d, w, d)
    BY <1>1, Zenon DEF OptionClausesAre
  <2>2. \A f \in OptionFields : OptionGets(table, revert, s, d, w, d, f)
    BY <2>1, OptionAfterIs
  <2> QED BY <2>2, Zenon DEF OptionGets
<1>4. s.coll # "" /\ d.coll # ""
  BY PatchOptions, Zenon
<1>5. \A o : /\ OptionTold(o, "engine") = o.engine /\ OptionTold(o, "comment") = o.comment
             /\ OptionTold(o, "coll") = normalize_collation(o.coll)
  BY DEF OptionTold
<1> HIDE DEF patch, revert, Differs
<1>6. /\ "engine" \in OptionFields \ {"auto"} /\ "comment" \in OptionFields \ {"auto"}
      /\ "coll" \in OptionFields \ {"auto"}
  BY DEF OptionFields
<1>7. OptionAfter(table, revert, "engine") = d.engine
  BY <1>2, <1>3, <1>5, <1>6 DEF patch
<1>8. OptionAfter(table, revert, "comment") = d.comment
  BY <1>2, <1>3, <1>5, <1>6 DEF patch
<1>9. SameCollation(OptionAfter(table, revert, "coll"), d.coll)
  <2>1. OptionTold(d, "coll") # "" /\ OptionTold(s, "coll") # ""
    <3>1. \A x : x # "" => normalize_collation(x) # ""
      BY NormalizedOnce
    <3>2. OptionTold(d, "coll") = normalize_collation(d.coll) /\ OptionTold(s,
               "coll") = normalize_collation(s.coll)
      BY <1>5
    <3> QED BY <1>4, <3>1, <3>2
  <2>2. OptionAfter(table, revert, "coll") = IF Differs("coll") THEN normalize_collation(d.coll) ELSE d.coll
    BY <1>2, <1>3, <1>5, <1>6, <2>1 DEF patch
  <2> QED BY <2>2, NormalizedOnce DEF SameCollation
<1> QED BY <1>7, <1>8, <1>9 DEF revert

-----------------------------------------------------------------------------
(* Its indexes.                                                            *)

\* An ALTER that makes the indexes it should of those there are, and renames no column of them.
MakesIndexes(alter, want, have) ==
  /\ \A c \in alter : c.op = "unmake" => c.index.name \notin Names(want)
  /\ \A x \in have : x.name \notin Names(want) => \E c \in alter : c.op = "unmake" /\ c.index.name = x.name
  /\ \A c \in alter : c.op = "make" => c.index \in want
  /\ \A x \in want : x.name \notin Names(have) => \E c \in alter : c.op = "make" /\ c.index = x
  /\ \A x \in want, y \in have : x.name = y.name => x = y
  /\ \A c \in alter : c.op = "change" => \A i \in want : c.name \notin Range(i.columns)

\* It makes them.
LEMMA IndexesBecome ==
  ASSUME NEW table, NEW alter, NEW want, want \subseteq IndexType, MakesIndexes(alter, want, table.indexes)
  PROVE  IndexesAfter(table, alter) = want
<1> DEFINE changes == Clauses(alter, {"change"})
           New(name) == IF \E c \in changes : c.name = name
                        THEN (CHOOSE c \in changes : c.name = name).col.name ELSE name
           Follow(i) == [i EXCEPT !.columns = [k \in DOMAIN i.columns |-> New(i.columns[k])]]
           kept == {i \in table.indexes : \A c \in Clauses(alter, {"unmake"}) : c.index.name # i.name}
           made == {c.index : c \in Clauses(alter, {"make"})}
<1>0. IndexesAfter(table, alter) = {Follow(i) : i \in kept} \cup made
  BY DEF IndexesAfter
<1>c. /\ \A c : c \in changes <=> c \in alter /\ c.op = "change"
      /\ \A c : c \in Clauses(alter, {"unmake"}) <=> c \in alter /\ c.op = "unmake"
      /\ \A c : c \in Clauses(alter, {"make"}) <=> c \in alter /\ c.op = "make"
  BY DEF Clauses
<1>m. /\ \A c \in alter : c.op = "unmake" => c.index.name \notin Names(want)
      /\ \A x \in table.indexes : x.name \notin Names(want) => \E c \in alter : c.op = "unmake"
           /\ c.index.name = x.name
      /\ \A c \in alter : c.op = "make" => c.index \in want
      /\ \A x \in want : x.name \notin Names(table.indexes) => \E c \in alter : c.op = "make" /\ c.index = x
      /\ \A x \in want, y \in table.indexes : x.name = y.name => x = y
      /\ \A c \in alter : c.op = "change" => \A i \in want : c.name \notin Range(i.columns)
  BY Zenon DEF MakesIndexes
<1>1. ASSUME NEW i \in want
      PROVE  Follow(i) = i
  <2>1. i \in IndexType
    OBVIOUS
  <2>2. ASSUME NEW k \in DOMAIN i.columns
        PROVE  New(i.columns[k]) = i.columns[k]
    <3>1. i.columns[k] \in Range(i.columns)
      BY DEF Range
    <3>2. ~\E c \in changes : c.name = i.columns[k]
      BY <3>1, <1>c, <1>m
    <3> QED BY <3>2
  <2> HIDE DEF New
  <2>3. i.columns = [k \in DOMAIN i.columns |-> i.columns[k]]
    BY <2>1 DEF IndexType
  <2>4. [k \in DOMAIN i.columns |-> New(i.columns[k])] = [k \in DOMAIN i.columns |-> i.columns[k]]
    BY <2>2
  <2>5. Follow(i) = [i EXCEPT !.columns = i.columns]
    BY <2>3, <2>4
  <2> QED BY <2>5, <2>1 DEF IndexType
<1> HIDE DEF Follow
<1>2. ASSUME NEW i \in kept
      PROVE  i \in want
  <2>1. i.name \in Names(want)
    BY <1>c, <1>m
  <2>2. PICK x \in want : x.name = i.name
    BY <2>1 DEF Names
  <2> QED BY <2>2, <1>m
<1>3. ASSUME NEW i \in want, i.name \in Names(table.indexes)
      PROVE  i \in kept
  <2>1. PICK y \in table.indexes : y.name = i.name
    BY <1>3 DEF Names
  <2>2. i = y
    BY <2>1, <1>m
  <2>3. i.name \in Names(want)
    BY DEF Names
  <2>4. \A c \in Clauses(alter, {"unmake"}) : c.index.name # i.name
    BY <2>3, <1>c, <1>m
  <2> QED BY <2>1, <2>2, <2>4
<1>4. ASSUME NEW i \in want, i.name \notin Names(table.indexes)
      PROVE  i \in made
  <2>1. PICK c \in alter : c.op = "make" /\ c.index = i
    BY <1>4, <1>m
  <2> QED BY <2>1, <1>c
<1>5. made \subseteq want
  BY <1>c, <1>m
<1> HIDE DEF kept, made
<1>6. {Follow(i) : i \in kept} \subseteq want
  BY <1>1, <1>2
<1>7. \A i \in want : i \in {Follow(j) : j \in kept} \cup made
  <2> SUFFICES ASSUME NEW i \in want PROVE i \in {Follow(j) : j \in kept} \cup made
    OBVIOUS
  <2>1. CASE i.name \in Names(table.indexes)
    <3>1. i \in kept /\ i = Follow(i)
      BY <2>1, <1>1, <1>3
    <3> QED BY <3>1, Zenon
  <2>2. CASE i.name \notin Names(table.indexes)
    BY <2>2, <1>4
  <2> QED BY <2>1, <2>2
<1> QED BY <1>0, <1>5, <1>6, <1>7

\* No clause of an ALTER that is not refused changes an index.
LEMMA SharedIndexes ==
  ASSUME NEW src, TableShape(src), NEW dst, TableShape(dst), NEW w \in WishType, NEW m,
         NEW table, ~MySQLRefuses(table, TheAlter(src, dst, w, m, "patch"))
  PROVE  \A x \in src.indexes, y \in dst.indexes : x.name = y.name => x = y
<1> SUFFICES ASSUME NEW x \in src.indexes, NEW y \in dst.indexes, x.name = y.name, x # y PROVE FALSE
  OBVIOUS
<1> DEFINE alter == TheAlter(src, dst, w, m, "patch")
           c == IndexClause("swap", x)
<1>1. x \notin dst.indexes
  BY DEF TableShape
<1>2. x.name \in Names(dst.indexes)
  BY DEF Names
<1>3. IndexPatch(src.indexes, dst.indexes, c)
  BY <1>1, <1>2 DEF IndexPatch
<1>4. c \in alter
  BY <1>3, PatchIs, Zenon DEF TheAlter
<1>5. c.op = "swap"
  BY DEF IndexClause
<1>6. ClauseRefused(table, alter, c)
  BY <1>5 DEF ClauseRefused
<1> QED BY <1>4, <1>6, Zenon DEF MySQLRefuses

\* The indexes after the patch and after its revert.
LEMMA PatchMakesIndexes ==
  ASSUME NEW src, TableShape(src), NEW dst, TableShape(dst), NEW w \in WishType,
         NEW m \in Renames(src.columns, dst.columns),
         NEW table, ~MySQLRefuses(table, TheAlter(src, dst, w, m, "patch"))
  PROVE  /\ \A t : t.indexes = dst.indexes =>
              IndexesAfter(t, TheAlter(src, dst, w, m, "patch")) = src.indexes
         /\ \A t : t.indexes = src.indexes =>
              IndexesAfter(t, TheAlter(src, dst, w, m, "revert")) = dst.indexes
<1> DEFINE patch == TheAlter(src, dst, w, m, "patch")
           revert == TheAlter(src, dst, w, m, "revert")
           s == src.indexes
           d == dst.indexes
<1>i. \A op, x : IndexClause(op, x).op = op /\ IndexClause(op, x).index = x
  BY DEF IndexClause
<1>o. {"make", "unmake", "swap"} = IndexOps /\ "change" \in ColumnOps
  BY DEF IndexOps, ColumnOps
<1>p. /\ \A c : c \in patch /\ c.op \in IndexOps <=> IndexPatch(s, d, c)
      /\ \A c : c \in patch /\ c.op \in ColumnOps => c \in PatchClauses(src.columns, dst.columns,
           src.options.coll, w.comments, m)
  BY PatchIs, Zenon DEF TheAlter
<1>r. /\ \A c : c \in revert /\ c.op \in IndexOps <=> IndexRevert(s, d, c)
      /\ \A c : c \in revert /\ c.op \in ColumnOps => c \in RevertClauses(src.columns, dst.columns,
           dst.options.coll, w.comments, m)
  BY RevertIs, Zenon DEF TheAlter
<1>s. \A x \in s, y \in d : x.name = y.name => x = y
  BY SharedIndexes
<1>t. /\ s \subseteq IndexType /\ d \subseteq IndexType
      /\ \A x \in s : Range(x.columns) \subseteq Names(src.columns)
      /\ \A x \in d : Range(x.columns) \subseteq Names(dst.columns)
  BY DEF TableShape
<1>m. \A p \in m : p.from.name \notin Names(src.columns) /\ p.to.name \notin Names(dst.columns)
  BY RenamesAre
<1>q. \A op, name, col : Clause(op, name, col).op = op /\ Clause(op, name, col).name = name
  BY DEF Clause
<1> HIDE DEF patch, revert
<1>1. MakesIndexes(patch, s, d)
  <2>1. \A c \in patch : c.op = "unmake" => c.index.name \notin Names(s)
    BY <1>p, <1>i, <1>o DEF IndexPatch
  <2>2. ASSUME NEW x \in d, x.name \notin Names(s)
        PROVE  \E c \in patch : c.op = "unmake" /\ c.index.name = x.name
    <3>1. IndexPatch(s, d, IndexClause("unmake", x))
      BY <2>2 DEF IndexPatch
    <3> QED BY <3>1, <1>p, <1>i
  <2>3. \A c \in patch : c.op = "make" => c.index \in s
    BY <1>p, <1>i, <1>o DEF IndexPatch
  <2>4. ASSUME NEW x \in s, x.name \notin Names(d)
        PROVE  \E c \in patch : c.op = "make" /\ c.index = x
    <3>1. IndexPatch(s, d, IndexClause("make", x))
      BY <2>4 DEF IndexPatch
    <3> QED BY <3>1, <1>p, <1>i
  <2>5. ASSUME NEW c \in patch, c.op = "change", NEW i \in s
        PROVE  c.name \notin Range(i.columns)
    <3>1. c \in PatchClauses(src.columns, dst.columns, src.options.coll, w.comments, m)
      BY <2>5, <1>p, <1>o
    <3>2. PICK p \in m : c.name = p.from.name
      BY <3>1, <2>5, <1>q DEF PatchClauses
    <3> QED BY <3>2, <1>m, <1>t
  <2> QED BY <2>1, <2>2, <2>3, <2>4, <2>5, <1>s DEF MakesIndexes
<1>2. MakesIndexes(revert, d, s)
  <2>1. \A c \in revert : c.op = "unmake" => c.index.name \notin Names(d)
    BY <1>r, <1>i, <1>o DEF IndexRevert
  <2>2. ASSUME NEW x \in s, x.name \notin Names(d)
        PROVE  \E c \in revert : c.op = "unmake" /\ c.index.name = x.name
    <3>1. IndexRevert(s, d, IndexClause("unmake", x))
      BY <2>2 DEF IndexRevert
    <3> QED BY <3>1, <1>r, <1>i
  <2>3. \A c \in revert : c.op = "make" => c.index \in d
    BY <1>r, <1>i, <1>o DEF IndexRevert
  <2>4. ASSUME NEW x \in d, x.name \notin Names(s)
        PROVE  \E c \in revert : c.op = "make" /\ c.index = x
    <3>1. IndexRevert(s, d, IndexClause("make", x))
      BY <2>4 DEF IndexRevert
    <3> QED BY <3>1, <1>r, <1>i
  <2>5. ASSUME NEW c \in revert, c.op = "change", NEW i \in d
        PROVE  c.name \notin Range(i.columns)
    <3>1. c \in RevertClauses(src.columns, dst.columns, dst.options.coll, w.comments, m)
      BY <2>5, <1>r, <1>o
    <3>2. PICK p \in m : c.name = p.to.name
      BY <3>1, <2>5, <1>q DEF RevertClauses
    <3> QED BY <3>2, <1>m, <1>t
  <2> QED BY <2>1, <2>2, <2>3, <2>4, <2>5, <1>s DEF MakesIndexes
<1> QED BY <1>1, <1>2, <1>t, IndexesBecome DEF patch, revert

-----------------------------------------------------------------------------
(* The table as a whole.                                                   *)

\* A table as MySQL tells it.
LEMMA ShapeGives ==
  ASSUME NEW t, TableShape(t)
  PROVE  ColumnsOK(t.columns) /\ OptionsOK(t.options)
BY DEF TableShape, ColumnsOK, ColumnOK, OptionsOK

\* What an ALTER makes, part by part.
LEMMA AlteredIs ==
  ASSUME NEW table, NEW alter
  PROVE  /\ Altered(table, alter).indexes = IndexesAfter(table, alter)
         /\ \A f \in OptionFields \ {"auto"} : Altered(table, alter).options[f] = OptionAfter(table,
              alter, f)
         /\ Altered(table, alter).columns =
              {Filled(c, OptionAfter(table, alter, "coll")) : c \in ColumnsAfter(table, alter)}
         /\ (\E c \in Altered(table, alter).columns : c.def = "seq")
              /\ OptionAfter(table, alter, "auto") > table.highest =>
              Altered(table, alter).options.auto = OptionAfter(table, alter, "auto")
         /\ Altered(table, alter).highest = table.highest
<1> DEFINE coll == OptionAfter(table, alter, "coll")
           auto == OptionAfter(table, alter, "auto")
           columns == {Filled(c, coll) : c \in ColumnsAfter(table, alter)}
           options == [engine |-> OptionAfter(table, alter, "engine"), coll |-> coll,
                   comment |-> OptionAfter(table, alter, "comment"),
                   auto |-> IF \E c \in columns : c.def = "seq" THEN AutoAfter(table, alter) ELSE 0]
<1>1. Altered(table, alter) =
        [columns |-> columns, indexes |-> IndexesAfter(table, alter), options |-> options,
         highest |-> table.highest]
  BY DEF Altered
<1>2. ASSUME NEW f \in OptionFields \ {"auto"} PROVE options[f] = OptionAfter(table, alter, f)
  <2>1. /\ options["engine"] = OptionAfter(table, alter, "engine")
             /\ options["coll"] = OptionAfter(table, alter, "coll")
        /\ options["comment"] = OptionAfter(table, alter, "comment")
    OBVIOUS
  <2>2. f = "engine" \/ f = "coll" \/ f = "comment"
    BY DEF OptionFields
  <2> HIDE DEF options
  <2> QED BY <2>1, <2>2, Zenon
<1>3. (\E c \in columns : c.def = "seq") /\ auto > table.highest => options.auto = auto
  <2>1. auto > table.highest => AutoAfter(table, alter) = auto
    BY DEF AutoAfter
  <2> QED BY <2>1
<1> HIDE DEF columns, options
<1>4. /\ Altered(table, alter).columns = columns /\ Altered(table, alter).options = options
      /\ Altered(table, alter).indexes = IndexesAfter(table, alter)
      /\ Altered(table, alter).highest = table.highest
  BY <1>1
<1> QED BY <1>2, <1>3, <1>4, Zenon DEF columns

\* The columns that the patch makes of a target's, and the revert of those.
LEMMA AlteredColumns ==
  ASSUME NEW src, NEW dst, NEW w \in WishType, NEW m, NEW table
  PROVE  /\ Altered(table, TheAlter(src, dst, w, m, "patch")).columns =
              PatchColumnsOf(src.columns, dst.columns, w.comments, m, table.columns, src.options.coll,
                             OptionAfter(table, TheAlter(src, dst, w, m, "patch"), "coll"))
         /\ Altered(table, TheAlter(src, dst, w, m, "revert")).columns =
              RevertColumnsOf(src.columns, dst.columns, w.comments, m, table.columns, dst.options.coll,
                              OptionAfter(table, TheAlter(src, dst, w, m, "revert"), "coll"))
<1> DEFINE patch == TheAlter(src, dst, w, m, "patch")
           revert == TheAlter(src, dst, w, m, "revert")
<1>1. \A c : c \in patch /\ c.op \in ColumnOps <=>
               c \in PatchClauses(src.columns, dst.columns, src.options.coll, w.comments, m)
  BY PatchIs, Zenon DEF TheAlter
<1>2. \A c : c \in revert /\ c.op \in ColumnOps <=>
               c \in RevertClauses(src.columns, dst.columns, dst.options.coll, w.comments, m)
  BY RevertIs, Zenon DEF TheAlter
<1> HIDE DEF patch, revert
<1>3. ColumnsAfter(table, patch) =
        Kept(table.columns, GoneByPatch(src.columns, dst.columns, w.comments, m))
          \cup {column_definition(x, src.options.coll) : x \in WrittenByPatch(src.columns, dst.columns,
               w.comments, m)}
  BY <1>1, PatchColumns DEF Kept
<1>4. ColumnsAfter(table, revert) =
        Kept(table.columns, GoneByRevert(src.columns, dst.columns, w.comments, m))
          \cup {column_definition(x, dst.options.coll) : x \in WrittenByRevert(src.columns,
               dst.columns, w.comments, m)}
  BY <1>2, RevertColumns DEF Kept
<1>5. /\ Altered(table, patch).columns = {Filled(c, OptionAfter(table, patch, "coll")) :
           c \in ColumnsAfter(table, patch)}
      /\ Altered(table, revert).columns = {Filled(c, OptionAfter(table, revert, "coll")) :
           c \in ColumnsAfter(table, revert)}
  BY AlteredIs, Zenon
<1>6. Altered(table, patch).columns =
        PatchColumnsOf(src.columns, dst.columns, w.comments, m, table.columns, src.options.coll,
             OptionAfter(table, patch, "coll"))
  BY <1>3, <1>5, Zenon DEF PatchColumnsOf, Rewritten
<1>7. Altered(table, revert).columns =
        RevertColumnsOf(src.columns, dst.columns, w.comments, m, table.columns, dst.options.coll,
             OptionAfter(table, revert, "coll"))
  BY <1>4, <1>5, Zenon DEF RevertColumnsOf, Rewritten
<1> QED BY <1>6, <1>7 DEF patch, revert

\* Alike in all that the comparison was asked for.
LikeIn(s, t, w) ==
  /\ SameColumns(s.columns, t.columns, w.comments)
  /\ s.indexes = t.indexes
  /\ SameOptions(s.options, t.options)
  /\ w.comments => s.options.comment = t.options.comment
  /\ w.auto /\ s.options.auto > t.highest => s.options.auto = t.options.auto

LikeAll(s, t) ==
  /\ SameColumns(s.columns, t.columns, TRUE)
  /\ s.indexes = t.indexes
  /\ SameOptions(s.options, t.options)
  /\ s.options.comment = t.options.comment

\* The patch that is not refused makes a target like its source in all that was asked for,
LEMMA PatchMakesAlike ==
  ASSUME NEW src, TableShape(src), NEW dst, TableShape(dst), NEW w \in WishType,
         NEW m \in Renames(src.columns, dst.columns),
         ~MySQLRefuses(dst, TheAlter(src, dst, w, m, "patch"))
  PROVE  LikeIn(src, Altered(dst, TheAlter(src, dst, w, m, "patch")), w)
<1> DEFINE patch == TheAlter(src, dst, w, m, "patch")
           coll == OptionAfter(dst, patch, "coll")
<1>0. /\ ColumnsOK(src.columns) /\ OptionsOK(src.options)
      /\ ColumnsOK(dst.columns) /\ OptionsOK(dst.options)
  BY ShapeGives
<1>1. /\ src.options.coll # "" /\ OptionAfter(dst, patch, "engine") = src.options.engine
      /\ SameCollation(coll, src.options.coll)
  BY <1>0, PatchOptions
<1>2. /\ w.comments => OptionAfter(dst, patch, "comment") = src.options.comment
      /\ w.auto /\ src.options.auto # 0 => OptionAfter(dst, patch, "auto") = src.options.auto
  BY PatchOptionsBesides
<1> HIDE DEF coll
<1>3. ToldAlike(src.columns,
        PatchColumnsOf(src.columns, dst.columns, w.comments, m, dst.columns, src.options.coll, coll),
             w.comments)
  BY <1>0, <1>1, PatchMakesColumns
<1>4. Altered(dst, patch).columns =
        PatchColumnsOf(src.columns, dst.columns, w.comments, m, dst.columns, src.options.coll, coll)
  BY AlteredColumns, Zenon DEF coll
<1>5. ToldAlike(src.columns, Altered(dst, patch).columns, w.comments)
  BY <1>3, <1>4
<1>6. IndexesAfter(dst, patch) = src.indexes
  BY PatchMakesIndexes, Zenon
<1> HIDE DEF patch
<1> DEFINE after == Altered(dst, patch)
<1>7. /\ after.indexes = src.indexes
      /\ \A f \in OptionFields \ {"auto"} : after.options[f] = OptionAfter(dst, patch, f)
      /\ (\E c \in after.columns : c.def = "seq") /\ OptionAfter(dst, patch, "auto") > dst.highest =>
           after.options.auto = OptionAfter(dst, patch, "auto")
      /\ after.highest = dst.highest
  BY <1>6, AlteredIs, Zenon
<1> HIDE DEF after
<1>8. SameOptions(src.options, after.options)
  <2>1. after.options.engine = src.options.engine /\ after.options.coll = coll
    BY <1>7, <1>1 DEF OptionFields, coll
  <2> QED BY <2>1, <1>1 DEF SameOptions, SameCollation
<1>9. w.comments => src.options.comment = after.options.comment
  BY <1>7, <1>2 DEF OptionFields
<1>10. ASSUME w.auto, src.options.auto > after.highest
       PROVE  src.options.auto = after.options.auto
  <2>0. src.options.auto # 0 /\ src.options.auto > dst.highest
    <3>1. src.options.auto \in Nat /\ dst.highest \in Nat
      BY DEF TableShape, OptionType
    <3> QED BY <3>1, <1>7, <1>10
  <2>1. PICK x \in src.columns : x.def = "seq"
    BY <2>0 DEF TableShape
  <2>2. x.name \in Names(src.columns) /\ Column(src.columns, x.name) = x
    BY <1>0, ColumnUnique DEF ColumnsOK, Names
  <2> DEFINE y == Column(after.columns, x.name)
  <2>3. y \in after.columns
    BY <2>2, <1>5, ColumnThere DEF ToldAlike, after
  <2>4. column_signature(x, w.comments) = column_signature(y, w.comments)
    BY <2>2, <1>5, Zenon DEF ToldAlike, after
  <2>5. DefinitionTold(x.def) = DefinitionTold(y.def)
    BY <2>4 DEF column_signature
  <2>6. y.def = "seq"
    BY <2>5, <2>1 DEF DefinitionTold, DefinitionWritten, normalized_default
  <2> QED BY <2>0, <2>3, <2>6, <1>2, <1>7, <1>10
<1>11. SameColumns(src.columns, after.columns, w.comments)
  BY <1>5, ToldAlikeMeans DEF after
<1> QED BY <1>11, <1>7, <1>8, <1>9, <1>10 DEF LikeIn, patch, after

\* and its revert makes it as it was.
LEMMA RevertUndoes ==
  ASSUME NEW src, TableShape(src), NEW dst, TableShape(dst), NEW w \in WishType,
         NEW m \in Renames(src.columns, dst.columns),
         ~MySQLRefuses(dst, TheAlter(src, dst, w, m, "patch"))
  PROVE  LikeAll(dst, Altered(Altered(dst, TheAlter(src, dst, w, m, "patch")), TheAlter(src, dst, w, m,
              "revert")))
<1> DEFINE patch == TheAlter(src, dst, w, m, "patch")
           revert == TheAlter(src, dst, w, m, "revert")
           coll == OptionAfter(dst, patch, "coll")
           table == Altered(dst, patch)
           after == Altered(table, revert)
           back == OptionAfter(table, revert, "coll")
<1>0. /\ ColumnsOK(src.columns) /\ OptionsOK(src.options)
      /\ ColumnsOK(dst.columns) /\ OptionsOK(dst.options)
  BY ShapeGives
<1>1. /\ src.options.coll # "" /\ dst.options.coll # "" /\ SameCollation(coll, src.options.coll)
  BY <1>0, PatchOptions
<1>t. /\ table.indexes = IndexesAfter(dst, patch)
      /\ \A f \in OptionFields \ {"auto"} : table.options[f] = OptionAfter(dst, patch, f)
  BY AlteredIs, Zenon
<1>2. table.columns =
        PatchColumnsOf(src.columns, dst.columns, w.comments, m, dst.columns, src.options.coll, coll)
  BY AlteredColumns, Zenon
<1> HIDE DEF coll
<1>3. BeforeRevert(src.columns, dst.columns, w.comments, m, table.columns)
  <2>1. BeforeRevert(src.columns, dst.columns, w.comments, m,
          PatchColumnsOf(src.columns, dst.columns, w.comments, m, dst.columns, src.options.coll, coll))
    BY <1>0, <1>1, PatchMakesColumns
  <2> QED BY <2>1, <1>2, Zenon
<1>4. table.indexes = src.indexes
  BY <1>t, PatchMakesIndexes, Zenon
<1> HIDE DEF table
<1>5. /\ OptionAfter(table, revert, "engine") = dst.options.engine
      /\ SameCollation(back, dst.options.coll)
      /\ OptionAfter(table, revert, "comment") = dst.options.comment
  BY <1>0, <1>t, RevertOptions
<1>6. after.columns =
        RevertColumnsOf(src.columns, dst.columns, w.comments, m, table.columns, dst.options.coll, back)
  BY AlteredColumns, Zenon
<1>7. IndexesAfter(table, revert) = dst.indexes
  <2>1. \A t : t.indexes = src.indexes => IndexesAfter(t, revert) = dst.indexes
    BY PatchMakesIndexes, Zenon
  <2> QED BY <2>1, <1>4, Zenon
<1> HIDE DEF back
<1>8. \A all : ToldAlike(dst.columns,
        RevertColumnsOf(src.columns, dst.columns, w.comments, m, table.columns, dst.options.coll,
             back), all)
  BY <1>0, <1>1, <1>3, <1>5, RevertMakesColumns
<1>9. ToldAlike(dst.columns, after.columns, TRUE)
  BY <1>6, <1>8, Zenon
<1> HIDE DEF revert, patch
<1>10. /\ after.indexes = dst.indexes
       /\ \A f \in OptionFields \ {"auto"} : after.options[f] = OptionAfter(table, revert, f)
  BY <1>7, AlteredIs, Zenon
<1> HIDE DEF after
<1>11. /\ after.options.engine = dst.options.engine /\ after.options.coll = back
       /\ after.options.comment = dst.options.comment
  BY <1>10, <1>5 DEF OptionFields, back
<1>12. SameOptions(dst.options, after.options)
  BY <1>11, <1>5 DEF SameOptions, SameCollation
<1>a. SameColumns(dst.columns, after.columns, TRUE)
  BY <1>9, ToldAlikeMeans
<1>13. LikeAll(dst, after)
  BY <1>a, <1>10, <1>11, <1>12 DEF LikeAll
<1> QED BY <1>13, Zenon DEF after, table, revert, patch

-----------------------------------------------------------------------------
(* What the page says of the columns that go.                              *)

ItemsOn(items, action, name) == {i \in items : i.kind = "column" /\ i.action = action /\ i.object = name}

\* What the page shows of the columns.
LEMMA ColumnItemsAre ==
  ASSUME NEW s, NEW d, NEW colls, NEW comments, NEW m
  PROVE  /\ \A p \in m : \E i \in column_items(s, d, colls, comments, m) :
              i.kind = "column" /\ i.action = "rename" /\ i.object = p.from.name
         /\ \A c \in ColumnsThatGo(s, d, m) : \E i \in column_items(s, d, colls, comments, m) :
              i.kind = "column" /\ i.action = "drop" /\ i.object = c.name /\ i.danger
         /\ \A i \in column_items(s, d, colls, comments, m) : i.action = "add" =>
              \E x \in ColumnsThatCome(s, d, m) : x.name = i.object
<1> DEFINE come == ColumnsThatCome(s, d, m)
           go == ColumnsThatGo(s, d, m)
           change == ColumnsThatChange(s, d, comments)
           items == column_items(s, d, colls, comments, m)
           DefS(c) == column_definition(c, colls["source"])
           DefT(c) == column_definition(c, colls["target"])
           R(p) == Item("column", "rename", p.from.name, FALSE, Clause("change", p.from.name, DefS(p.to)),
                     Clause("change", p.to.name, DefT(p.from)))
           A(c) == Item("column", "add", c.name, FALSE, Clause("add", c.name, DefS(c)), Clause("drop",
                c.name, NoColumn))
           G(c) == Item("column", "drop", c.name, TRUE, Clause("drop", c.name, NoColumn), Clause("add",
                c.name, DefT(c)))
           M(c) == Item("column", "modify", c.name, FALSE, Clause("modify", c.name, DefS(c)),
                     Clause("modify", c.name, DefT(Column(d, c.name))))
<1>1. items = {R(p) : p \in m} \cup {A(c) : c \in come} \cup {G(c) : c \in go} \cup {M(c) : c \in change}
  <2>1. change = {c \in s : /\ c.name \in Names(d)
                            /\ column_signature(c, comments) # column_signature(Column(d, c.name),
                                 comments)}
    BY Zenon DEF ColumnsThatChange, SameSignature
  <2> HIDE DEF change
  <2> QED BY <2>1, Zenon DEF column_items, ColumnsThatCome, ColumnsThatGo
<1>2. /\ \A p : R(p).kind = "column" /\ R(p).action = "rename" /\ R(p).object = p.from.name
      /\ \A c : A(c).object = c.name
      /\ \A c : G(c).kind = "column" /\ G(c).action = "drop" /\ G(c).object = c.name /\ G(c).danger = TRUE
      /\ \A c : M(c).action = "modify"
  BY DEF Item
<1> HIDE DEF R, A, G, M, items
<1>3. ASSUME NEW i \in items, i.action = "add"
      PROVE  \E x \in come : x.name = i.object
  <2>1. \E c \in come : i = A(c)
    <3>1. ~(\E p \in m : i = R(p)) /\ ~(\E c \in go : i = G(c)) /\ ~(\E c \in change : i = M(c))
      BY <1>2, <1>3
    <3> QED BY <3>1, <1>1, Zenon
  <2> QED BY <2>1, <1>2
<1>4. \A p \in m : R(p) \in items
  BY <1>1, Zenon
<1>5. \A c \in go : G(c) \in items
  BY <1>1, Zenon
<1>6. ASSUME NEW p \in m
      PROVE  \E i \in items : i.kind = "column" /\ i.action = "rename" /\ i.object = p.from.name
  BY <1>4, <1>2
<1>7. ASSUME NEW c \in go
      PROVE  \E i \in items : i.kind = "column" /\ i.action = "drop" /\ i.object = c.name /\ i.danger
  BY <1>5, <1>2, Zenon
<1> QED BY <1>3, <1>6, <1>7, Zenon DEF items

\* and so the page of both tables.
LEMMA ItemsShown ==
  ASSUME NEW src, NEW dst, NEW w \in WishType, NEW m
  PROVE  /\ \A p \in m : ItemsOn(diff_table(src, dst, w, m), "rename", p.from.name) # {}
         /\ \A c \in ColumnsThatGo(src.columns, dst.columns, m) :
              \E i \in ItemsOn(diff_table(src, dst, w, m), "drop", c.name) : i.danger
         /\ \A k : ItemsOn(diff_table(src, dst, w, m), "add", k) # {} =>
              \E x \in ColumnsThatCome(src.columns, dst.columns, m) : x.name = k
<1>0. PICK colls : colls = [source |-> src.options.coll, target |-> dst.options.coll]
  OBVIOUS
<1> DEFINE cols == column_items(src.columns, dst.columns, colls, w.comments, m)
           idxs == index_items(src.indexes, dst.indexes)
           opts == table_option_diffs(src.options, dst.options, w.comments, w.auto)
           items == diff_table(src, dst, w, m)
<1>1. items = cols \cup idxs \cup opts
  BY <1>0, Zenon DEF diff_table
<1>2. /\ \A i \in idxs : i.kind = "index"
      /\ \A i \in opts : i.kind = "option"
  BY IndexItemClauses, OptionItemClauses
<1>3. /\ \A p \in m : \E i \in cols : i.kind = "column" /\ i.action = "rename" /\ i.object = p.from.name
      /\ \A c \in ColumnsThatGo(src.columns, dst.columns, m) : \E i \in cols :
              i.kind = "column" /\ i.action = "drop" /\ i.object = c.name /\ i.danger
      /\ \A i \in cols : i.action = "add" =>
              \E x \in ColumnsThatCome(src.columns, dst.columns, m) : x.name = i.object
  BY ColumnItemsAre
<1> HIDE DEF cols, idxs, opts, items
<1>4. ASSUME NEW k, ItemsOn(items, "add", k) # {}
      PROVE  \E x \in ColumnsThatCome(src.columns, dst.columns, m) : x.name = k
  <2>1. PICK i \in items : i.kind = "column" /\ i.action = "add" /\ i.object = k
    BY <1>4 DEF ItemsOn
  <2>2. i \in cols
    BY <2>1, <1>1, <1>2
  <2> QED BY <2>1, <2>2, <1>3
<1>5. ASSUME NEW p \in m PROVE ItemsOn(items, "rename", p.from.name) # {}
  BY <1>1, <1>3 DEF ItemsOn
<1>6. ASSUME NEW c \in ColumnsThatGo(src.columns, dst.columns, m)
      PROVE  \E i \in ItemsOn(items, "drop", c.name) : i.danger
  <2>1. PICK i \in cols : i.kind = "column" /\ i.action = "drop" /\ i.object = c.name /\ i.danger
    BY <1>3
  <2>2. i \in ItemsOn(items, "drop", c.name)
    BY <2>1, <1>1 DEF ItemsOn
  <2> QED BY <2>1, <2>2, Zenon
<1> QED BY <1>4, <1>5, <1>6, Zenon DEF items

\* A column's data goes only where the page says so, and never while a twin of it comes.
DataIsKept(items, before, after) ==
  \A n \in {x \in Names(before) \ Names(after) : ItemsOn(items, "rename", x) = {}} :
    /\ \E i \in ItemsOn(items, "drop", n) : i.danger
    /\ \A k \in {x \in Names(after) \ Names(before) : ItemsOn(items, "add", x) # {}} :
         column_signature(Column(before, n), FALSE) # column_signature(Column(after, k), FALSE)

\* No patch that goes through does otherwise, even on a target that lost columns since it was read.
LEMMA LostAndCame ==
  ASSUME NEW src, ColumnsOK(src.columns), OptionsOK(src.options),
         NEW dst, ColumnsOK(dst.columns), OptionsOK(dst.options),
         NEW w \in WishType, NEW m \in Renames(src.columns, dst.columns),
         NEW before, before.columns \subseteq dst.columns, before.options = dst.options,
         ~MySQLRefuses(before, TheAlter(src, dst, w, m, "patch"))
  PROVE  DataIsKept(diff_table(src, dst, w, m), before.columns,
                    Altered(before, TheAlter(src, dst, w, m, "patch")).columns)
<1> DEFINE patch == TheAlter(src, dst, w, m, "patch")
           items == diff_table(src, dst, w, m)
           coll == OptionAfter(before, patch, "coll")
           s == src.columns
           d == dst.columns
           b == before.columns
           after == Altered(before, patch).columns
           from == src.options.coll
           have == Kept(b, GoneByPatch(s, d, w.comments, m))
           P == WrittenByPatch(s, d, w.comments, m)
           Def(x) == Filled(column_definition(x, from), coll)
<1>0. /\ \A x, y \in s : x.name = y.name => x = y
      /\ \A x, y \in d : x.name = y.name => x = y
      /\ \A x \in s : ColumnOK(x)
      /\ \A x \in d : ColumnOK(x)
  BY DEF ColumnsOK
<1>1. from # "" /\ SameCollation(coll, from)
  BY PatchOptions
<1>2. after = Rewritten(have, P, from, coll)
  BY AlteredColumns, Zenon DEF PatchColumnsOf
<1> HIDE DEF coll, after, patch, items
<1>3. \A x \in s : Def(x).name = x.name /\ SameSignature(Def(x), x, FALSE)
  BY <1>0, <1>1, FilledDefinition
<1>4. \A x \in have : Filled(x, coll) = x
  BY <1>0, FilledKeeps DEF Kept
<1>5. P \subseteq s
  BY PatchLeaves
<1>i. /\ \A p \in m : ItemsOn(items, "rename", p.from.name) # {}
      /\ \A c \in ColumnsThatGo(s, d, m) : \E i \in ItemsOn(items, "drop", c.name) : i.danger
      /\ \A k : ItemsOn(items, "add", k) # {} => \E x \in ColumnsThatCome(s, d, m) : x.name = k
  BY ItemsShown DEF items
<1> HIDE DEF Def
<1>6. after = have \cup {Def(x) : x \in P}
  BY <1>2, <1>4, Zenon DEF Rewritten, Def
<1>7. ASSUME NEW n \in Names(b) \ Names(after), ItemsOn(items, "rename", n) = {}
      PROVE  \E y \in ColumnsThatGo(s, d, m) : y \in b /\ y.name = n
  <2>1. PICK y \in b : y.name = n
    BY <1>7 DEF Names
  <2>2. n \in GoneByPatch(s, d, w.comments, m)
    <3>1. y \notin have
      BY <2>1, <1>6, <1>7 DEF Names
    <3> QED BY <2>1, <3>1 DEF Kept
  <2>3. n \notin {p.from.name : p \in m}
    BY <1>i, <1>7
  <2>4. n \notin Names(ColumnsThatChange(s, d, w.comments))
    <3> SUFFICES ASSUME NEW x \in ColumnsThatChange(s, d, w.comments), x.name = n PROVE FALSE
      BY DEF Names
    <3>1. x \in P
      BY DEF WrittenByPatch
    <3>2. Def(x) \in after /\ Def(x).name = n
      BY <3>1, <1>3, <1>5, <1>6
    <3> QED BY <3>2, <1>7 DEF Names
  <2>5. PICK z \in ColumnsThatGo(s, d, m) : z.name = n
    BY <2>2, <2>3, <2>4 DEF GoneByPatch, Names
  <2>6. z = y
    BY <2>1, <2>5, <1>0 DEF ColumnsThatGo
  <2> QED BY <2>1, <2>5, <2>6
<1>8. ASSUME NEW k \in Names(after) \ Names(b), ItemsOn(items, "add", k) # {}
      PROVE  \E x \in ColumnsThatCome(s, d, m) : SameSignature(x, Column(after, k), FALSE)
  <2>1. PICK x \in ColumnsThatCome(s, d, m) : x.name = k
    BY <1>8, <1>i
  <2>2. Column(after, k) \in after /\ Column(after, k).name = k
    BY ColumnThere
  <2>3. Column(after, k) \notin have
    BY <2>2 DEF Kept, Names
  <2>4. PICK z \in P : Column(after, k) = Def(z)
    BY <2>2, <2>3, <1>6
  <2>5. z.name = k /\ z \in s
    BY <2>2, <2>4, <1>3, <1>5
  <2>6. x = z
    BY <2>1, <2>5, <1>0 DEF ColumnsThatCome
  <2>7. SameSignature(Def(z), z, FALSE)
    BY <2>5, <1>3
  <2> QED BY <2>4, <2>6, <2>7 DEF SameSignature
<1>9. ASSUME NEW n \in Names(b) \ Names(after), ItemsOn(items, "rename", n) = {},
             NEW k \in Names(after) \ Names(b), ItemsOn(items, "add", k) # {},
             column_signature(Column(b, n), FALSE) = column_signature(Column(after, k), FALSE)
      PROVE  FALSE
  <2>1. PICK y \in ColumnsThatGo(s, d, m) : y \in b /\ y.name = n
    BY <1>7, <1>9
  <2>2. PICK x \in ColumnsThatCome(s, d, m) : SameSignature(x, Column(after, k), FALSE)
    BY <1>8, <1>9
  <2>3. Column(b, n) = y
    BY <2>1, <1>0, ColumnUnique
  <2>4. Twins(y, x)
    BY <2>2, <2>3, <1>9 DEF Twins, SameSignature
  <2>5. /\ y \in d /\ y.name \notin Names(s) /\ \A p \in m : p.from # y
        /\ x \in s /\ x.name \notin Names(d) /\ \A p \in m : p.to # x
    BY <2>1, <2>2 DEF ColumnsThatGo, ColumnsThatCome
  <2>6. \E q \in m : q.from = y \/ q.to = x
    BY <2>4, <2>5, RenamesAre
  <2> QED BY <2>5, <2>6
<1>10. ASSUME NEW n \in Names(b) \ Names(after), ItemsOn(items, "rename", n) = {}
       PROVE  \E i \in ItemsOn(items, "drop", n) : i.danger
  BY <1>7, <1>10, <1>i
<1>11. DataIsKept(items, b, after)
  <2> SUFFICES ASSUME NEW n \in Names(b) \ Names(after), ItemsOn(items, "rename", n) = {}
               PROVE  /\ \E i \in ItemsOn(items, "drop", n) : i.danger
                      /\ \A k \in {x \in Names(after) \ Names(b) : ItemsOn(items, "add", x) # {}} :
                           column_signature(Column(b, n), FALSE) # column_signature(Column(after, k), FALSE)
    BY Zenon DEF DataIsKept
  <2>1. \E i \in ItemsOn(items, "drop", n) : i.danger
    BY <1>10
  <2>2. \A k \in {x \in Names(after) \ Names(b) : ItemsOn(items, "add", x) # {}} :
           column_signature(Column(b, n), FALSE) # column_signature(Column(after, k), FALSE)
    BY <1>9
  <2> QED BY <2>1, <2>2
<1> QED BY <1>11 DEF items, after, patch

-----------------------------------------------------------------------------
(* What is known of a comparison, its answers, what it shows and the ALTER *)
(* that was taken.                                                         *)

TableRecord ==
  [columns : SUBSET ColumnType, indexes : SUBSET IndexType, options : OptionType, highest : Nat]

\* A table as the queries may tell it, whatever others do between them,
PartsOK(t) == ColumnsOK(t.columns) /\ OptionsOK(t.options)

\* and as it is.
TableRead(t) == t \in TableRecord /\ ColumnsOK(t.columns) /\ OptionsOK(t.options)

\* All that is read of a table is equal.
SameParts(s, t) == s.columns = t.columns /\ s.indexes = t.indexes /\ s.options = t.options

\* Nothing else is compared.
LEMMA PartsCompared ==
  ASSUME NEW s, NEW d, NEW x, NEW y, SameParts(s, x), SameParts(d, y), NEW w, NEW m
  PROVE  diff_table(s, d, w, m) = diff_table(x, y, w, m)
BY DEF SameParts, diff_table

AnswerMaps == UNION {[N -> (SUBSET ColumnType) \cup (SUBSET IndexType) \cup OptionType] :
     N \in SUBSET TableNames}

Wanted == {n \in TableNames : wish.tables = {} \/ n \in wish.tables}

PartOK(of, v) ==
  /\ of = "columns" => ColumnsOK(v)
  /\ of = "indexes" => v \in SUBSET IndexType
  /\ of = "options" => OptionsOK(v)

\* Of a table as it is now, and a part of it as it was read.
StillThere(now, of, was) ==
  now # NoTable => /\ of = "columns" => now.columns \subseteq was
                   /\ of # "columns" => now[of] = was

AnswerHolds(k) ==
  LET q == Queries[k] IN
  /\ DOMAIN seen[k] \subseteq Wanted
  /\ \A n \in Wanted \ DOMAIN seen[k] : schemas[q.side][n] = NoTable
  /\ \A n \in DOMAIN seen[k] : PartOK(q.of, seen[k][n]) /\ StillThere(schemas[q.side][n], q.of, seen[k][n])
  /\ ~disturbed => \A n \in DOMAIN seen[k] :
                     schemas[q.side][n] # NoTable /\ seen[k][n] = schemas[q.side][n][q.of]

AnswersHold == seen \in Seq(AnswerMaps) /\ Len(seen) = reads /\ \A k \in 1..reads : AnswerHolds(k)

ShownFits(n) ==
  \E s, d :
    /\ PartsOK(s) /\ PartsOK(d)
    /\ \E m \in Renames(s.columns, d.columns) : shown[n] = diff_table(s, d, wish, m)
    /\ schemas["target"][n] # NoTable => /\ schemas["target"][n].columns \subseteq d.columns
                                         /\ schemas["target"][n].options = d.options
    /\ ~disturbed => /\ SameParts(s, schemas["source"][n]) /\ schemas["source"][n] # NoTable
                     /\ SameParts(d, schemas["target"][n]) /\ schemas["target"][n] # NoTable

Patched ==
  \E s, w, m :
    /\ s = schemas["source"][taken.table] /\ TableShape(s) /\ TableShape(taken.original)
    /\ w = wish /\ m \in Renames(s.columns, taken.original.columns)
    /\ shown[taken.table] = diff_table(s, taken.original, w, m)
    /\ ~MySQLRefuses(taken.original, TheAlter(s, taken.original, w, m, "patch"))
    /\ taken.after = Altered(taken.original, TheAlter(s, taken.original, w, m, "patch"))
    /\ schemas["target"][taken.table] = taken.after

TakenFits ==
  /\ taken.of = "patch" =>
       DataIsKept(shown[taken.table], taken.original.columns, taken.after.columns)
  /\ taken.of = "patch" /\ ~disturbed => Patched
  /\ taken.of = "revert" /\ ~disturbed => LikeAll(taken.original, taken.after)

SchemasAre == \E T : schemas \in [Sides -> [TableNames -> T]]

DiffTypes ==
  /\ SchemasAre
  /\ compared \in {"no", "reading", "shown", "refused", "failed"}
  /\ wish \in WishType /\ reads \in 0..6 /\ DOMAIN shown \subseteq TableNames
  /\ drifts \in 0..MaxDrifts /\ disturbed \in BOOLEAN

TablesFit ==
  \A side \in Sides, n \in TableNames : schemas[side][n] # NoTable =>
    TableRead(schemas[side][n]) /\ (~disturbed => TableShape(schemas[side][n]))

DiffInv ==
  /\ DiffTypes
  /\ compared = "no" => ~disturbed /\ reads = 0 /\ seen = NoDiff
  /\ compared # "shown" => taken = NoDiff
  /\ taken = NoDiff => TablesFit
  /\ compared = "reading" => AnswersHold
  /\ compared = "shown" /\ taken = NoDiff => \A n \in DOMAIN shown : ShownFits(n)
  /\ taken # NoDiff => TakenFits

\* What MySQL tells can be read.
LEMMA ShapeIsRead ==
  ASSUME NEW t, TableShape(t)
  PROVE  TableRead(t)
<1>1. t \in TableRecord
  BY DEF TableShape, TableRecord
<1> QED BY <1>1, ShapeGives DEF TableRead

\* What is known makes the property.
LEMMA TakenMeans ==
  ASSUME DiffInv
  PROVE  PatchesDoWhatTheySay
<1> SUFFICES ASSUME taken # NoDiff
             PROVE  /\ taken.of = "patch" /\ ~disturbed => Alike(schemas["source"][taken.table],
                         taken.after)
                    /\ taken.of = "revert" /\ ~disturbed => LikeAll(taken.original, taken.after)
                    /\ taken.of = "patch" => DataIsKept(shown[taken.table], taken.original.columns,
                         taken.after.columns)
  <2>1. ASSUME DataIsKept(shown[taken.table], taken.original.columns, taken.after.columns), NEW n \in Lost
        PROVE  /\ \E item \in ColumnItems("drop", n) : item.danger
               /\ \A m \in Came : column_signature(Column(taken.original.columns, n), FALSE)
                               # column_signature(Column(taken.after.columns, m), FALSE)
    <3>1. \A action, x : ColumnItems(action, x) = ItemsOn(shown[taken.table], action, x)
      BY DEF ColumnItems, ItemsOn
    <3>2. n \in {x \in Names(taken.original.columns) \ Names(taken.after.columns) :
                   ItemsOn(shown[taken.table], "rename", x) = {}}
      BY <3>1 DEF Lost
    <3>3. Came = {x \in Names(taken.after.columns) \ Names(taken.original.columns) :
                    ItemsOn(shown[taken.table], "add", x) # {}}
      BY <3>1 DEF Came
    <3> HIDE DEF Came
    <3> QED BY <2>1, <3>1, <3>2, <3>3, Zenon DEF DataIsKept
  <2> QED BY <2>1, Zenon DEF PatchesDoWhatTheySay, LikeAll
<1>1. TakenFits
  BY DEF DiffInv
<1>2. ASSUME Patched
      PROVE  Alike(schemas["source"][taken.table], taken.after)
  <2>1. PICK s, w, m :
    /\ s = schemas["source"][taken.table] /\ TableShape(s) /\ TableShape(taken.original)
    /\ w = wish /\ m \in Renames(s.columns, taken.original.columns)
    /\ ~MySQLRefuses(taken.original, TheAlter(s, taken.original, w, m, "patch"))
    /\ taken.after = Altered(taken.original, TheAlter(s, taken.original, w, m, "patch"))
    BY <1>2, Zenon DEF Patched
  <2>2. w \in WishType
    BY <2>1 DEF DiffInv, DiffTypes
  <2>3. LikeIn(s, taken.after, w)
    BY <2>1, <2>2, PatchMakesAlike
  <2>4. LikeIn(s, taken.after, wish)
    BY <2>1, <2>3
  <2> QED BY <2>1, <2>4, Zenon DEF LikeIn, Alike
<1> QED BY <1>1, <1>2, Zenon DEF TakenFits

-----------------------------------------------------------------------------
(* The steps of a comparison keep it.                                      *)

\* What others may make of a table.
Drifted(old, new) ==
  \/ new = old \/ new = NoTable
  \/ old # NoTable /\ \E c : new = [old EXCEPT !.columns = @ \ {c}]

\* A change by others is one of a table.
LEMMA DriftOnce ==
  ASSUME DiffTypes, Drift
  PROVE  /\ DiffTypes'
         /\ \A side \in Sides, n \in TableNames : Drifted(schemas[side][n], schemas'[side][n])
<1>1. PICK T : schemas \in [Sides -> [TableNames -> T]]
  BY DEF DiffTypes, SchemasAre
<1>s. PICK side \in Sides, n \in TableNames : \E new :
        /\ Drifted(schemas[side][n], new)
        /\ schemas' = [schemas EXCEPT ![side][n] = new]
  <2>1. PICK side \in Sides, n \in TableNames :
          LET table == schemas[side][n] IN
          /\ table # NoTable
          /\ \/ schemas' = [schemas EXCEPT ![side][n] = NoTable]
             \/ \E c \in table.columns : schemas' = [schemas EXCEPT ![side][n].columns = @ \ {c}]
    BY Zenon DEF Drift
  <2>2. CASE schemas' = [schemas EXCEPT ![side][n] = NoTable]
    <3>1. Drifted(schemas[side][n], NoTable)
      BY DEF Drifted
    <3> QED BY <2>1, <2>2, <3>1
  <2>3. ASSUME NEW c, schemas' = [schemas EXCEPT ![side][n].columns = @ \ {c}]
        PROVE  \E new : /\ Drifted(schemas[side][n], new)
                        /\ schemas' = [schemas EXCEPT ![side][n] = new]
    <3> DEFINE new == [schemas[side][n] EXCEPT !.columns = @ \ {c}]
    <3>1. Drifted(schemas[side][n], new)
      BY <2>1 DEF Drifted
    <3>2. schemas' = [schemas EXCEPT ![side][n] = new]
      BY <2>3, <1>1
    <3> QED BY <3>1, <3>2
  <2> QED BY <2>1, <2>2, <2>3
<1>2. PICK new : Drifted(schemas[side][n], new) /\ schemas' = [schemas EXCEPT ![side][n] = new]
  BY <1>s
<1>3. \A x \in Sides, k \in TableNames : schemas'[x][k] = IF x = side /\ k = n THEN new ELSE schemas[x][k]
  BY <1>1, <1>2
<1>4. schemas' \in [Sides -> [TableNames -> T \cup {new}]]
  BY <1>1, <1>2
<1>5. /\ drifts' \in 0..MaxDrifts /\ disturbed' = TRUE /\ UNCHANGED <<compared, wish, reads, seen,
           shown, taken>>
  <2>1. /\ drifts < MaxDrifts /\ drifts' = drifts + 1 /\ disturbed' = TRUE
        /\ UNCHANGED <<compared, wish, reads, seen, shown, taken>>
    BY Zenon DEF Drift
  <2>2. drifts \in 0..MaxDrifts /\ MaxDrifts \in Nat
    BY SchemaDiffAssumption DEF DiffTypes
  <2> QED BY <2>1, <2>2
<1>6. DiffTypes'
  <2>1. SchemasAre'
    BY <1>4, Zenon DEF SchemasAre
  <2> QED BY <2>1, <1>5 DEF DiffTypes
<1>7. \A x \in Sides, k \in TableNames : Drifted(schemas[x][k], schemas'[x][k])
  <2>1. \A old : Drifted(old, old)
    BY DEF Drifted
  <2> QED BY <1>2, <1>3, <2>1
<1> QED BY <1>6, <1>7

\* It stays one that the queries may tell, and what was read of it stays true of what there is.
LEMMA DriftedStays ==
  ASSUME NEW old, NEW new, old # NoTable => TableRead(old), Drifted(old, new)
  PROVE  /\ old = NoTable => new = NoTable
         /\ new # NoTable => /\ TableRead(new)
                             /\ new.columns \subseteq old.columns /\ new.options = old.options
         /\ \A was : \A of \in {"columns", "indexes", "options"} : StillThere(old, of, was) =>
              StillThere(new, of, was)
<1>1. old = NoTable => new = NoTable
  BY DEF Drifted
<1>2. ASSUME new # NoTable
      PROVE  /\ TableRead(new) /\ new.columns \subseteq old.columns
             /\ new.options = old.options /\ new.indexes = old.indexes
  <2>1. CASE new = old
    BY <2>1, <1>1, <1>2
  <2>2. CASE new # old
    <3>1. PICK c : new = [old EXCEPT !.columns = @ \ {c}]
      BY <1>2, <2>2 DEF Drifted
    <3>2. TableRead(old)
      BY <1>1, <1>2
    <3>3. /\ new \in TableRecord /\ new.columns = old.columns \ {c}
          /\ new.options = old.options /\ new.indexes = old.indexes
      BY <3>1, <3>2 DEF TableRead, TableRecord
    <3>4. ColumnsOK(new.columns)
      BY <3>2, <3>3 DEF TableRead, ColumnsOK
    <3> QED BY <3>2, <3>3, <3>4 DEF TableRead
  <2> QED BY <2>1, <2>2
<1>3. ASSUME NEW of \in {"columns", "indexes", "options"}, NEW was, StillThere(old, of, was)
      PROVE  StillThere(new, of, was)
  <2> SUFFICES ASSUME new # NoTable
               PROVE  /\ of = "columns" => new.columns \subseteq was
                      /\ of # "columns" => new[of] = was
    BY DEF StillThere
  <2>1. /\ of = "columns" => old.columns \subseteq was
        /\ of # "columns" => old[of] = was
    BY <1>1, <1>3 DEF StillThere
  <2>2. of # "columns" => new[of] = old[of]
    BY <1>2
  <2> QED BY <2>1, <2>2, <1>2
<1> QED BY <1>1, <1>2, <1>3

\* The six queries.
LEMMA QueriesAre ==
  /\ Len(Queries) = 6
  /\ \A k \in 1..6 : Queries[k].side \in Sides /\ Queries[k].of \in {"columns", "indexes", "options"}
  /\ Queries[1] = [side |-> "source", of |-> "options"] /\ Queries[2] = [side |-> "source",
       of |-> "columns"]
  /\ Queries[3] = [side |-> "source", of |-> "indexes"] /\ Queries[4] = [side |-> "target",
       of |-> "options"]
  /\ Queries[5] = [side |-> "target", of |-> "columns"] /\ Queries[6] = [side |-> "target",
       of |-> "indexes"]
BY DEF Queries, Sides

\* What others change takes nothing from what is known of the comparison.
LEMMA DriftKeeps ==
  ASSUME DiffInv, Drift
  PROVE  DiffInv'
<1>1. /\ DiffTypes'
      /\ \A side \in Sides, n \in TableNames : Drifted(schemas[side][n], schemas'[side][n])
  BY DriftOnce DEF DiffInv
<1>2. /\ UNCHANGED <<compared, wish, reads, seen, shown, taken>> /\ disturbed' = TRUE
      /\ compared \in {"reading", "shown"}
  BY Zenon DEF Drift
<1>3. ASSUME taken = NoDiff, NEW side \in Sides, NEW n \in TableNames
      PROVE  /\ schemas[side][n] = NoTable => schemas'[side][n] = NoTable
             /\ schemas'[side][n] # NoTable =>
                  /\ TableRead(schemas'[side][n])
                  /\ schemas'[side][n].columns \subseteq schemas[side][n].columns
                  /\ schemas'[side][n].options = schemas[side][n].options
             /\ \A was : \A of \in {"columns", "indexes", "options"} :
                  StillThere(schemas[side][n], of, was) => StillThere(schemas'[side][n], of, was)
  <2>1. schemas[side][n] # NoTable => TableRead(schemas[side][n])
    BY <1>3 DEF DiffInv, TablesFit
  <2> QED BY <2>1, <1>1, DriftedStays
<1>4. taken' = NoDiff => TablesFit'
  BY <1>2, <1>3 DEF TablesFit
<1>5. ASSUME compared' = "reading"
      PROVE  AnswersHold'
  <2>1. taken = NoDiff /\ AnswersHold /\ reads \in 0..6
    BY <1>2, <1>5 DEF DiffInv, DiffTypes
  <2>2. ASSUME NEW k \in 1..reads
        PROVE  AnswerHolds(k)'
    <3>0. PICK q : q = Queries[k]
      OBVIOUS
    <3>1. q.side \in Sides /\ q.of \in {"columns", "indexes", "options"}
      BY <2>1, <3>0, QueriesAre
    <3>2. /\ DOMAIN seen[k] \subseteq Wanted
          /\ \A n \in Wanted \ DOMAIN seen[k] : schemas[q.side][n] = NoTable
          /\ \A n \in DOMAIN seen[k] : PartOK(q.of, seen[k][n]) /\ StillThere(schemas[q.side][n], q.of,
               seen[k][n])
      BY <2>1, <3>0, Zenon DEF AnswersHold, AnswerHolds
    <3>3. Wanted \subseteq TableNames
      BY DEF Wanted
    <3>4. \A n \in Wanted \ DOMAIN seen[k] : schemas'[q.side][n] = NoTable
      BY <2>1, <3>1, <3>2, <3>3, <1>3
    <3>5. \A n \in DOMAIN seen[k] : StillThere(schemas'[q.side][n], q.of, seen[k][n])
      BY <2>1, <3>1, <3>2, <3>3, <1>3
    <3>6. Wanted' = Wanted /\ seen' = seen /\ disturbed' = TRUE
      BY <1>2 DEF Wanted
    <3>7. AnswerHolds(k)' = LET p == Queries[k] IN
            /\ DOMAIN seen'[k] \subseteq Wanted'
            /\ \A n \in Wanted' \ DOMAIN seen'[k] : schemas'[p.side][n] = NoTable
            /\ \A n \in DOMAIN seen'[k] : PartOK(p.of, seen'[k][n]) /\ StillThere(schemas'[p.side][n],
                 p.of, seen'[k][n])
            /\ ~disturbed' => \A n \in DOMAIN seen'[k] :
                     schemas'[p.side][n] # NoTable /\ seen'[k][n] = schemas'[p.side][n][p.of]
      BY DEF AnswerHolds, Queries
    <3> QED BY <3>0, <3>2, <3>4, <3>5, <3>6, <3>7, Zenon
  <2> QED BY <2>1, <2>2, <1>2 DEF AnswersHold
<1>6. ASSUME compared' = "shown", taken' = NoDiff, NEW n \in DOMAIN shown'
      PROVE  ShownFits(n)'
  <2>1. n \in DOMAIN shown /\ ShownFits(n) /\ taken = NoDiff
    BY <1>2, <1>6 DEF DiffInv
  <2>0. n \in TableNames
    BY <2>1 DEF DiffInv, DiffTypes
  <2>2. PICK s, d : /\ PartsOK(s) /\ PartsOK(d)
                    /\ \E m \in Renames(s.columns, d.columns) : shown[n] = diff_table(s, d, wish, m)
                    /\ schemas["target"][n] # NoTable => /\ schemas["target"][n].columns \subseteq d.columns
                                                         /\ schemas["target"][n].options = d.options
    BY <2>1, Zenon DEF ShownFits
  <2>3. "target" \in Sides
    BY DEF Sides
  <2>4. schemas'["target"][n] # NoTable => /\ schemas'["target"][n].columns \subseteq d.columns
                                           /\ schemas'["target"][n].options = d.options
    BY <2>0, <2>1, <2>2, <2>3, <1>3
  <2>5. \E m \in Renames(s.columns, d.columns) : shown'[n] = diff_table(s, d, wish', m)
    BY <2>2, <1>2
  <2> QED BY <2>2, <2>4, <2>5, <1>2, Zenon DEF ShownFits
<1>7. ASSUME taken' # NoDiff
      PROVE  TakenFits'
  <2>1. /\ taken.of = "patch" => DataIsKept(shown[taken.table], taken.original.columns, taken.after.columns)
    BY <1>2, <1>7 DEF DiffInv, TakenFits
  <2> QED BY <2>1, <1>2, Zenon DEF TakenFits
<1> QED BY <1>1, <1>2, <1>4, <1>5, <1>6, <1>7 DEF DiffInv

\* The actions, one by one.
LEMMA DiffInitHolds ==
  ASSUME DiffInit
  PROVE  DiffInv
<1>1. /\ schemas \in [Sides -> DiffSchemas]
      /\ compared = "no" /\ wish = NoWish /\ reads = 0 /\ seen = NoDiff /\ shown = NoDiff
      /\ drifts = 0 /\ disturbed = FALSE /\ taken = NoDiff
  BY DEF DiffInit
<1>2. ASSUME NEW side \in Sides
      PROVE  /\ schemas[side] = [n \in TableNames |-> schemas[side][n]]
             /\ \A n \in TableNames : schemas[side][n] = NoTable \/ TableShape(schemas[side][n])
  <2>1. schemas[side] \in DiffSchemas
    BY <1>1
  <2> QED BY <2>1, SchemaDiffAssumption
<1>3. SchemasAre
  <2> DEFINE T == {schemas[side][n] : side \in Sides, n \in TableNames}
  <2>1. \A side \in Sides : schemas[side] \in [TableNames -> T]
    <3> SUFFICES ASSUME NEW side \in Sides PROVE schemas[side] \in [TableNames -> T]
      OBVIOUS
    <3>1. \A n \in TableNames : schemas[side][n] \in T
      OBVIOUS
    <3> HIDE DEF T
    <3>2. [n \in TableNames |-> schemas[side][n]] \in [TableNames -> T]
      BY <3>1
    <3> QED BY <3>2, <1>2
  <2> HIDE DEF T
  <2>2. schemas \in [Sides -> [TableNames -> T]]
    BY <2>1, <1>1
  <2> QED BY <2>2, Zenon DEF SchemasAre
<1>4. wish \in WishType
  BY <1>1 DEF NoWish, WishType
<1>5. DOMAIN shown \subseteq TableNames
  BY <1>1 DEF NoDiff
<1>6. DiffTypes
  <2>1. MaxDrifts \in Nat
    BY SchemaDiffAssumption
  <2>2. reads \in 0..6 /\ drifts \in 0..MaxDrifts
    BY <1>1, <2>1
  <2>3. disturbed \in BOOLEAN /\ compared \in {"no", "reading", "shown", "refused", "failed"}
    BY <1>1
  <2> QED BY <1>3, <1>4, <1>5, <2>2, <2>3, Zenon DEF DiffTypes
<1>7. TablesFit
  BY <1>2, ShapeIsRead DEF TablesFit
<1> QED BY <1>1, <1>6, <1>7 DEF DiffInv

\* Where no table changed.
LEMMA TablesKept ==
  ASSUME SchemasAre, TablesFit, UNCHANGED <<schemas, disturbed>>
  PROVE  SchemasAre' /\ TablesFit'
<1>1. TablesFit'
  BY DEF TablesFit
<1>2. SchemasAre'
  BY Zenon DEF SchemasAre
<1> QED BY <1>1, <1>2

\* The request.
LEMMA TableDiffViewKeeps ==
  ASSUME DiffInv, TableDiffView
  PROVE  DiffInv'
<1>1. /\ compared = "no" /\ wish' \in WishType /\ compared' \in {"refused", "reading"} /\ disturbed' = FALSE
      /\ UNCHANGED <<schemas, reads, seen, shown, drifts, taken>>
  BY DEF TableDiffView, WishType
<1>2. ~disturbed /\ reads = 0 /\ seen = NoDiff /\ taken = NoDiff /\ DiffTypes /\ TablesFit
  BY <1>1 DEF DiffInv
<1>3. DiffTypes' /\ TablesFit'
  <2>1. disturbed' = disturbed
    BY <1>1, <1>2, Zenon DEF DiffTypes
  <2>2. SchemasAre' /\ TablesFit'
    BY <1>1, <1>2, <2>1, TablesKept DEF DiffTypes
  <2>3. compared' \in {"no", "reading", "shown", "refused", "failed"}
    BY <1>1
  <2> QED BY <1>1, <1>2, <2>1, <2>2, <2>3, Zenon DEF DiffTypes
<1>4. AnswersHold'
  <2>1. seen' \in Seq(AnswerMaps) /\ Len(seen') = reads'
    BY <1>1, <1>2 DEF NoDiff
  <2>2. 1..reads' = {}
    BY <1>1, <1>2
  <2> QED BY <2>1, <2>2 DEF AnswersHold
<1> QED BY <1>1, <1>2, <1>3, <1>4 DEF DiffInv

\* A failure of it.
LEMMA FailureKeeps ==
  ASSUME DiffInv, ResolveFails \/ QueryFails
  PROVE  DiffInv'
<1>1. /\ compared = "reading" /\ compared' = "failed" /\ reads' \in {0, reads}
      /\ UNCHANGED <<schemas, wish, shown, drifts, disturbed, taken>>
  BY DEF ResolveFails, QueryFails
<1>2. taken = NoDiff /\ DiffTypes /\ TablesFit
  BY <1>1 DEF DiffInv
<1>3. DiffTypes' /\ TablesFit'
  <2>1. SchemasAre' /\ TablesFit'
    BY <1>1, <1>2, TablesKept DEF DiffTypes
  <2>2. reads' \in 0..6
    BY <1>1, <1>2 DEF DiffTypes
  <2> QED BY <1>1, <1>2, <2>1, <2>2 DEF DiffTypes
<1> QED BY <1>1, <1>2, <1>3 DEF DiffInv

\* What the query that reads one part of the tables of one side is answered.
LEMMA RowsFit ==
  ASSUME DiffTypes, TablesFit, NEW q, q.side \in Sides, q.of \in {"columns", "indexes", "options"},
         NEW rows, rows = [n \in Listed(q.side) |-> schemas[q.side][n][q.of]]
  PROVE  /\ rows \in AnswerMaps
         /\ DOMAIN rows \subseteq Wanted
         /\ \A n \in Wanted \ DOMAIN rows : schemas[q.side][n] = NoTable
         /\ \A n \in DOMAIN rows : PartOK(q.of, rows[n]) /\ StillThere(schemas[q.side][n], q.of, rows[n])
         /\ \A n \in DOMAIN rows : schemas[q.side][n] # NoTable /\ rows[n] = schemas[q.side][n][q.of]
<1>1. DOMAIN rows = Listed(q.side)
  OBVIOUS
<1>2. Listed(q.side) = {n \in Wanted : schemas[q.side][n] # NoTable} /\ Wanted \subseteq TableNames
  BY DEF Listed, Wanted
<1>3. ASSUME NEW n \in DOMAIN rows
      PROVE  /\ schemas[q.side][n] # NoTable /\ rows[n] = schemas[q.side][n][q.of]
             /\ PartOK(q.of, rows[n]) /\ StillThere(schemas[q.side][n], q.of, rows[n])
             /\ rows[n] \in (SUBSET ColumnType) \cup (SUBSET IndexType) \cup OptionType
  <2>1. schemas[q.side][n] # NoTable /\ rows[n] = schemas[q.side][n][q.of] /\ n \in TableNames
    BY <1>1, <1>2
  <2>2. TableRead(schemas[q.side][n])
    BY <2>1 DEF TablesFit
  <2> DEFINE t == schemas[q.side][n]
  <2> HIDE DEF t
  <2>3. /\ t \in TableRecord /\ ColumnsOK(t.columns) /\ OptionsOK(t.options)
    BY <2>2 DEF TableRead, t
  <2>4. /\ PartOK("columns", t.columns) /\ PartOK("indexes", t.indexes) /\ PartOK("options", t.options)
    BY <2>3 DEF PartOK, TableRecord
  <2>5. PartOK(q.of, t[q.of]) /\ t[q.of] \in (SUBSET ColumnType) \cup (SUBSET IndexType) \cup OptionType
    <3>1. CASE q.of = "columns"
      BY <3>1, <2>3, <2>4 DEF TableRecord
    <3>2. CASE q.of = "indexes"
      BY <3>2, <2>3, <2>4 DEF TableRecord
    <3>3. CASE q.of = "options"
      BY <3>3, <2>3, <2>4 DEF TableRecord
    <3> QED BY <3>1, <3>2, <3>3
  <2>6. StillThere(t, q.of, t[q.of])
    BY DEF StillThere
  <2> QED BY <2>1, <2>5, <2>6 DEF t
<1>4. rows \in AnswerMaps
  <2>1. rows \in [Listed(q.side) -> (SUBSET ColumnType) \cup (SUBSET IndexType) \cup OptionType]
    BY <1>1, <1>3
  <2>2. Listed(q.side) \in SUBSET TableNames
    BY <1>2
  <2> QED BY <2>1, <2>2, Zenon DEF AnswerMaps
<1>5. \A n \in Wanted \ DOMAIN rows : schemas[q.side][n] = NoTable
  BY <1>1, <1>2
<1> QED BY <1>1, <1>2, <1>3, <1>4, <1>5

\* A query.
LEMMA ReadingKeeps ==
  ASSUME DiffInv, get_tables_schema
  PROVE  DiffInv'
<1>1. /\ compared = "reading" /\ reads < Len(Queries) /\ reads' = reads + 1
      /\ UNCHANGED <<schemas, compared, wish, shown, drifts, disturbed, taken>>
  BY DEF get_tables_schema
<1>2. taken = NoDiff /\ DiffTypes /\ TablesFit /\ AnswersHold /\ reads \in 0..5
  <2>1. taken = NoDiff /\ DiffTypes /\ TablesFit /\ AnswersHold
    BY <1>1 DEF DiffInv
  <2>2. reads \in 0..6
    BY <2>1 DEF DiffTypes
  <2> QED BY <2>1, <2>2, <1>1, QueriesAre
<1>q. PICK q : q = Queries[reads + 1]
  OBVIOUS
<1>p. q.side \in Sides /\ q.of \in {"columns", "indexes", "options"}
  BY <1>q, <1>2, QueriesAre
<1>r. PICK rows : rows = [n \in Listed(q.side) |-> schemas[q.side][n][q.of]]
  OBVIOUS
<1>3. seen' = Append(seen, rows)
  BY <1>q, <1>r, Zenon DEF get_tables_schema
<1>4. /\ rows \in AnswerMaps
      /\ DOMAIN rows \subseteq Wanted
      /\ \A n \in Wanted \ DOMAIN rows : schemas[q.side][n] = NoTable
      /\ \A n \in DOMAIN rows : PartOK(q.of, rows[n]) /\ StillThere(schemas[q.side][n], q.of, rows[n])
      /\ \A n \in DOMAIN rows : schemas[q.side][n] # NoTable /\ rows[n] = schemas[q.side][n][q.of]
  BY <1>2, <1>p, <1>r, RowsFit
<1>5. /\ seen \in Seq(AnswerMaps) /\ Len(seen) = reads /\ \A k \in 1..reads : AnswerHolds(k)
  BY <1>2 DEF AnswersHold
<1>6. /\ seen' \in Seq(AnswerMaps) /\ Len(seen') = reads + 1
      /\ \A k \in 1..reads : seen'[k] = seen[k]
      /\ seen'[reads + 1] = rows
  <2>1. Len(seen) \in Nat
    BY <1>5, LenProperties
  <2> QED BY <1>3, <1>4, <1>5, <2>1, AppendProperties
<1>7. Wanted' = Wanted
  BY <1>1 DEF Wanted
<1>8. ASSUME NEW k \in 1..(reads + 1)
      PROVE  AnswerHolds(k)'
  <2>1. AnswerHolds(k)' = LET p == Queries[k] IN
            /\ DOMAIN seen'[k] \subseteq Wanted'
            /\ \A n \in Wanted' \ DOMAIN seen'[k] : schemas'[p.side][n] = NoTable
            /\ \A n \in DOMAIN seen'[k] : PartOK(p.of, seen'[k][n]) /\ StillThere(schemas'[p.side][n],
                 p.of, seen'[k][n])
            /\ ~disturbed' => \A n \in DOMAIN seen'[k] :
                     schemas'[p.side][n] # NoTable /\ seen'[k][n] = schemas'[p.side][n][p.of]
    BY DEF AnswerHolds, Queries
  <2>2. CASE k = reads + 1
    <3>1. seen'[k] = rows /\ Queries[k] = q
      BY <2>2, <1>6, <1>q
    <3> QED BY <2>1, <3>1, <1>1, <1>4, <1>7, Zenon
  <2>3. CASE k # reads + 1
    <3>1. k \in 1..reads
      BY <2>3, <1>2
    <3>2. AnswerHolds(k) /\ seen'[k] = seen[k]
      BY <3>1, <1>5, <1>6
    <3> QED BY <2>1, <3>2, <1>1, <1>7, Zenon DEF AnswerHolds
  <2> QED BY <2>2, <2>3
<1>9. AnswersHold'
  BY <1>1, <1>6, <1>8 DEF AnswersHold
<1>10. DiffTypes' /\ TablesFit'
  <2>1. SchemasAre' /\ TablesFit'
    BY <1>1, <1>2, TablesKept DEF DiffTypes
  <2> QED BY <1>1, <1>2, <2>1 DEF DiffTypes
<1> QED BY <1>1, <1>2, <1>9, <1>10 DEF DiffInv

\* What one side's three answers tell of a table.
LEMMA FetchedFits ==
  ASSUME TablesFit, AnswersHold, reads = 6, NEW side \in Sides,
         NEW k \in {0, 3}, k = IF side = "source" THEN 0 ELSE 3, NEW n \in DOMAIN seen[k + 1]
  PROVE  /\ n \in TableNames
         /\ PartsOK(Fetched(side, n))
         /\ schemas[side][n] # NoTable => /\ schemas[side][n].columns \subseteq Fetched(side, n).columns
                                          /\ schemas[side][n].options = Fetched(side, n).options
         /\ ~disturbed => SameParts(Fetched(side, n), schemas[side][n]) /\ schemas[side][n] # NoTable
<1> DEFINE now == schemas[side][n]
           f == Fetched(side, n)
<1>1. f = [options |-> seen[k + 1][n],
           columns |-> IF n \in DOMAIN seen[k + 2] THEN seen[k + 2][n] ELSE {},
           indexes |-> IF n \in DOMAIN seen[k + 3] THEN seen[k + 3][n] ELSE {}]
  BY DEF Fetched
<1>2. /\ f.options = seen[k + 1][n]
      /\ f.columns = IF n \in DOMAIN seen[k + 2] THEN seen[k + 2][n] ELSE {}
      /\ f.indexes = IF n \in DOMAIN seen[k + 3] THEN seen[k + 3][n] ELSE {}
  BY <1>1
<1>3. /\ Queries[k + 1] = [side |-> side, of |-> "options"] /\ Queries[k + 2] = [side |-> side,
           of |-> "columns"]
      /\ Queries[k + 3] = [side |-> side, of |-> "indexes"]
  <2>1. CASE side = "source"
    BY <2>1, QueriesAre
  <2>2. CASE side # "source"
    <3>1. side = "target" /\ k = 3
      BY <2>2 DEF Sides
    <3> QED BY <3>1, QueriesAre
  <2> QED BY <2>1, <2>2
<1>4. k + 1 \in 1..6 /\ k + 2 \in 1..6 /\ k + 3 \in 1..6
  OBVIOUS
<1>5. \A j \in 1..6 : AnswerHolds(j)
  BY DEF AnswersHold
<1>6. /\ DOMAIN seen[k + 1] \subseteq Wanted
      /\ \A x \in DOMAIN seen[k + 1] : PartOK("options", seen[k + 1][x])
           /\ StillThere(schemas[side][x], "options", seen[k + 1][x])
      /\ ~disturbed => \A x \in DOMAIN seen[k + 1] : schemas[side][x] # NoTable
           /\ seen[k + 1][x] = schemas[side][x].options
  <2>1. PICK j, q : j = k + 1 /\ q = Queries[j]
    OBVIOUS
  <2>2. AnswerHolds(j) /\ q.side = side /\ q.of = "options"
    BY <2>1, <1>3, <1>4, <1>5
  <2>3. /\ DOMAIN seen[j] \subseteq Wanted
        /\ \A x \in Wanted \ DOMAIN seen[j] : schemas[q.side][x] = NoTable
        /\ \A x \in DOMAIN seen[j] : PartOK(q.of, seen[j][x]) /\ StillThere(schemas[q.side][x], q.of,
             seen[j][x])
        /\ ~disturbed => \A x \in DOMAIN seen[j] :
                     schemas[q.side][x] # NoTable /\ seen[j][x] = schemas[q.side][x][q.of]
    BY <2>1, <2>2, Zenon DEF AnswerHolds
  <2> QED BY <2>1, <2>2, <2>3
<1>7. /\ \A x \in Wanted \ DOMAIN seen[k + 2] : schemas[side][x] = NoTable
      /\ \A x \in DOMAIN seen[k + 2] : PartOK("columns", seen[k + 2][x])
           /\ StillThere(schemas[side][x], "columns", seen[k + 2][x])
      /\ ~disturbed => \A x \in DOMAIN seen[k + 2] : schemas[side][x] # NoTable
           /\ seen[k + 2][x] = schemas[side][x].columns
  <2>1. PICK j, q : j = k + 2 /\ q = Queries[j]
    OBVIOUS
  <2>2. AnswerHolds(j) /\ q.side = side /\ q.of = "columns"
    BY <2>1, <1>3, <1>4, <1>5
  <2>3. /\ DOMAIN seen[j] \subseteq Wanted
        /\ \A x \in Wanted \ DOMAIN seen[j] : schemas[q.side][x] = NoTable
        /\ \A x \in DOMAIN seen[j] : PartOK(q.of, seen[j][x]) /\ StillThere(schemas[q.side][x], q.of,
             seen[j][x])
        /\ ~disturbed => \A x \in DOMAIN seen[j] :
                     schemas[q.side][x] # NoTable /\ seen[j][x] = schemas[q.side][x][q.of]
    BY <2>1, <2>2, Zenon DEF AnswerHolds
  <2> QED BY <2>1, <2>2, <2>3
<1>8. /\ \A x \in Wanted \ DOMAIN seen[k + 3] : schemas[side][x] = NoTable
      /\ \A x \in DOMAIN seen[k + 3] : PartOK("indexes", seen[k + 3][x])
      /\ ~disturbed => \A x \in DOMAIN seen[k + 3] : schemas[side][x] # NoTable
           /\ seen[k + 3][x] = schemas[side][x].indexes
  <2>1. PICK j, q : j = k + 3 /\ q = Queries[j]
    OBVIOUS
  <2>2. AnswerHolds(j) /\ q.side = side /\ q.of = "indexes"
    BY <2>1, <1>3, <1>4, <1>5
  <2>3. /\ DOMAIN seen[j] \subseteq Wanted
        /\ \A x \in Wanted \ DOMAIN seen[j] : schemas[q.side][x] = NoTable
        /\ \A x \in DOMAIN seen[j] : PartOK(q.of, seen[j][x]) /\ StillThere(schemas[q.side][x], q.of,
             seen[j][x])
        /\ ~disturbed => \A x \in DOMAIN seen[j] :
                     schemas[q.side][x] # NoTable /\ seen[j][x] = schemas[q.side][x][q.of]
    BY <2>1, <2>2, Zenon DEF AnswerHolds
  <2> QED BY <2>1, <2>2, <2>3
<1>9. n \in Wanted /\ n \in TableNames
  BY <1>6 DEF Wanted
<1> HIDE DEF f, now
<1>10. ColumnsOK(f.columns)
  <2>1. CASE n \in DOMAIN seen[k + 2]
    BY <2>1, <1>2, <1>7 DEF PartOK
  <2>2. CASE n \notin DOMAIN seen[k + 2]
    BY <2>2, <1>2 DEF ColumnsOK
  <2> QED BY <2>1, <2>2
<1>11. OptionsOK(f.options)
  BY <1>2, <1>6 DEF PartOK
<1>14. PartsOK(f)
  BY <1>10, <1>11 DEF PartsOK
<1>15. ASSUME now # NoTable
       PROVE  now.columns \subseteq f.columns /\ now.options = f.options
  <2>1. n \in DOMAIN seen[k + 2]
    BY <1>7, <1>9, <1>15 DEF now
  <2>2. StillThere(now, "options", f.options) /\ StillThere(now, "columns", f.columns)
    BY <2>1, <1>2, <1>6, <1>7 DEF now
  <2> QED BY <2>2, <1>15 DEF StillThere
<1>16. ASSUME ~disturbed
       PROVE  SameParts(f, now) /\ now # NoTable
  <2>1. now # NoTable /\ seen[k + 1][n] = now.options
    BY <1>6, <1>16 DEF now
  <2>2. n \in DOMAIN seen[k + 2] /\ n \in DOMAIN seen[k + 3]
    BY <2>1, <1>7, <1>8, <1>9 DEF now
  <2>3. seen[k + 2][n] = now.columns /\ seen[k + 3][n] = now.indexes
    BY <2>2, <1>7, <1>8, <1>16 DEF now
  <2>6. f.options = now.options /\ f.columns = now.columns /\ f.indexes = now.indexes
    BY <2>1, <2>2, <2>3, <1>2
  <2> QED BY <2>1, <2>6 DEF SameParts
<1> QED BY <1>9, <1>14, <1>15, <1>16 DEF f, now

\* The comparison: what it shows are the differences of what was read.
LEMMA CompareKeeps ==
  ASSUME DiffInv, diff_schemas
  PROVE  DiffInv'
<1> DEFINE both == DOMAIN seen[1] \cap DOMAIN seen[4]
           S(n) == Fetched("source", n)
           D(n) == Fetched("target", n)
<1>1. /\ compared = "reading" /\ reads = 6 /\ compared' = "shown" /\ reads' = 0
      /\ UNCHANGED <<schemas, wish, drifts, disturbed, taken>>
  BY QueriesAre DEF diff_schemas
<1>2. taken = NoDiff /\ DiffTypes /\ TablesFit /\ AnswersHold
  BY <1>1 DEF DiffInv
<1>3. PICK renames : /\ \A n \in both : renames[n] \in Renames(S(n).columns, D(n).columns)
                     /\ shown' = [n \in both |-> diff_table(S(n), D(n), wish, renames[n])]
  BY Zenon DEF diff_schemas
<1>4. ASSUME NEW n \in both
      PROVE  /\ n \in TableNames /\ PartsOK(S(n)) /\ PartsOK(D(n))
             /\ schemas["target"][n] # NoTable => /\ schemas["target"][n].columns \subseteq D(n).columns
                                                  /\ schemas["target"][n].options = D(n).options
             /\ ~disturbed => /\ SameParts(S(n), schemas["source"][n]) /\ schemas["source"][n] # NoTable
                              /\ SameParts(D(n), schemas["target"][n]) /\ schemas["target"][n] # NoTable
  <2>1. "source" \in Sides /\ "target" \in Sides
    BY DEF Sides
  <2>2. /\ n \in TableNames /\ PartsOK(S(n))
        /\ ~disturbed => SameParts(S(n), schemas["source"][n]) /\ schemas["source"][n] # NoTable
    <3>1. n \in DOMAIN seen[0 + 1]
      OBVIOUS
    <3> QED BY <3>1, <2>1, <1>1, <1>2, FetchedFits
  <2>3. /\ PartsOK(D(n))
        /\ schemas["target"][n] # NoTable => /\ schemas["target"][n].columns \subseteq D(n).columns
                                             /\ schemas["target"][n].options = D(n).options
        /\ ~disturbed => SameParts(D(n), schemas["target"][n]) /\ schemas["target"][n] # NoTable
    <3>1. n \in DOMAIN seen[3 + 1]
      OBVIOUS
    <3> QED BY <3>1, <2>1, <1>1, <1>2, FetchedFits
  <2> QED BY <2>2, <2>3
<1> HIDE DEF both, S, D
<1>5. ASSUME NEW n \in DOMAIN shown'
      PROVE  ShownFits(n)'
  <2>1. n \in both
    BY <1>3
  <2>2. PICK s, d, m : s = S(n) /\ d = D(n) /\ m = renames[n]
    OBVIOUS
  <2>3. shown'[n] = diff_table(s, d, wish', m) /\ m \in Renames(s.columns, d.columns)
    BY <2>1, <2>2, <1>1, <1>3
  <2>4. /\ PartsOK(s) /\ PartsOK(d)
        /\ schemas'["target"][n] # NoTable => /\ schemas'["target"][n].columns \subseteq d.columns
                                              /\ schemas'["target"][n].options = d.options
        /\ ~disturbed' => /\ SameParts(s, schemas'["source"][n]) /\ schemas'["source"][n] # NoTable
                          /\ SameParts(d, schemas'["target"][n]) /\ schemas'["target"][n] # NoTable
    BY <2>1, <2>2, <1>1, <1>4
  <2> QED BY <2>3, <2>4, Zenon DEF ShownFits
<1>6. DiffTypes' /\ TablesFit'
  <2>1. SchemasAre' /\ TablesFit'
    BY <1>1, <1>2, TablesKept DEF DiffTypes
  <2>2. DOMAIN shown' \subseteq TableNames
    BY <1>3, <1>4
  <2> QED BY <1>1, <1>2, <2>1, <2>2 DEF DiffTypes
<1> QED BY <1>1, <1>2, <1>5, <1>6 DEF DiffInv

\* A ticket that goes through.
LEMMA TicketIs ==
  ASSUME DiffTypes, NEW n \in TableNames, NEW side, RunTicket(n, side)
  PROVE  /\ DiffTypes' /\ compared = "shown" /\ n \in DOMAIN shown /\ schemas["target"][n] # NoTable
         /\ UNCHANGED <<compared, wish, reads, seen, shown, drifts, disturbed>>
         /\ ~MySQLRefuses(schemas["target"][n], build_alter(shown[n], side))
         /\ schemas'["target"][n] = Altered(schemas["target"][n], build_alter(shown[n], side))
         /\ schemas'["source"][n] = schemas["source"][n]
         /\ taken' # NoDiff /\ taken'.table = n /\ taken'.of = side
         /\ taken'.after = Altered(schemas["target"][n], build_alter(shown[n], side))
         /\ taken'.original = IF taken = NoDiff THEN schemas["target"][n] ELSE taken.original
<1>0. PICK after : after = Altered(schemas["target"][n], build_alter(shown[n], side))
  OBVIOUS
<1>1. PICK T : schemas \in [Sides -> [TableNames -> T]]
  BY DEF DiffTypes, SchemasAre
<1>2. /\ compared = "shown" /\ n \in DOMAIN shown /\ schemas["target"][n] # NoTable
      /\ ~MySQLRefuses(schemas["target"][n], build_alter(shown[n], side))
      /\ schemas' = [schemas EXCEPT !["target"][n] = after]
      /\ taken' = [table |-> n, of |-> side, after |-> after,
                   original |-> IF taken = NoDiff THEN schemas["target"][n] ELSE taken.original]
      /\ UNCHANGED <<compared, wish, reads, seen, shown, drifts, disturbed>>
  BY <1>0, Zenon DEF RunTicket
<1>3. "target" \in Sides /\ "source" \in Sides
  BY DEF Sides
<1>4. /\ schemas' \in [Sides -> [TableNames -> T \cup {after}]]
      /\ schemas'["target"][n] = after /\ schemas'["source"][n] = schemas["source"][n]
  BY <1>1, <1>2, <1>3
<1>5. DiffTypes'
  <2>1. SchemasAre'
    BY <1>4, Zenon DEF SchemasAre
  <2> QED BY <2>1, <1>2 DEF DiffTypes
<1>6. /\ taken'.table = n /\ taken'.of = side /\ taken'.after = after
      /\ taken'.original = IF taken = NoDiff THEN schemas["target"][n] ELSE taken.original
  BY <1>2
<1>7. taken' # NoDiff
  <2>1. "table" \in DOMAIN taken'
    BY <1>2
  <2>2. "table" \notin DOMAIN NoDiff
    BY DEF NoDiff
  <2> QED BY <2>1, <2>2
<1> QED BY <1>0, <1>2, <1>4, <1>5, <1>6, <1>7

\* The ticket of the patch.
LEMMA PatchKeeps ==
  ASSUME DiffInv, RunPatch
  PROVE  DiffInv'
<1>1. PICK n \in DOMAIN shown : RunTicket(n, "patch")
  BY DEF RunPatch
<1>2. taken = NoDiff /\ DiffTypes /\ TablesFit /\ n \in TableNames
  BY DEF RunPatch, DiffInv, DiffTypes
<1>3. /\ DiffTypes' /\ compared = "shown" /\ schemas["target"][n] # NoTable
      /\ UNCHANGED <<compared, wish, reads, seen, shown, drifts, disturbed>>
      /\ ~MySQLRefuses(schemas["target"][n], build_alter(shown[n], "patch"))
      /\ schemas'["target"][n] = Altered(schemas["target"][n], build_alter(shown[n], "patch"))
      /\ schemas'["source"][n] = schemas["source"][n]
      /\ taken' # NoDiff /\ taken'.table = n /\ taken'.of = "patch"
      /\ taken'.after = Altered(schemas["target"][n], build_alter(shown[n], "patch"))
      /\ taken'.original = schemas["target"][n]
  BY <1>1, <1>2, TicketIs
<1>4. PICK s, d :
        /\ PartsOK(s) /\ PartsOK(d)
        /\ \E m \in Renames(s.columns, d.columns) : shown[n] = diff_table(s, d, wish, m)
        /\ schemas["target"][n] # NoTable => /\ schemas["target"][n].columns \subseteq d.columns
                                             /\ schemas["target"][n].options = d.options
        /\ ~disturbed => /\ SameParts(s, schemas["source"][n]) /\ schemas["source"][n] # NoTable
                         /\ SameParts(d, schemas["target"][n]) /\ schemas["target"][n] # NoTable
  BY <1>2, <1>3, Zenon DEF DiffInv, ShownFits
<1>5. PICK m \in Renames(s.columns, d.columns) : shown[n] = diff_table(s, d, wish, m)
  BY <1>4
<1>6. PICK w, table : w = wish /\ table = schemas["target"][n]
  OBVIOUS
<1>7. w \in WishType
  BY <1>2, <1>6 DEF DiffTypes
<1>8. build_alter(shown[n], "patch") = TheAlter(s, d, w, m, "patch")
  BY <1>5, <1>6, Zenon DEF TheAlter
<1>9. /\ ~MySQLRefuses(table, TheAlter(s, d, w, m, "patch"))
      /\ taken'.after = Altered(table, TheAlter(s, d, w, m, "patch"))
      /\ schemas'["target"][n] = taken'.after
  BY <1>3, <1>6, <1>8
<1>10. DataIsKept(diff_table(s, d, w, m), table.columns, Altered(table, TheAlter(s, d, w, m,
            "patch")).columns)
  <2>1. /\ ColumnsOK(s.columns) /\ OptionsOK(s.options) /\ ColumnsOK(d.columns) /\ OptionsOK(d.options)
    BY <1>4 DEF PartsOK
  <2>2. table.columns \subseteq d.columns /\ table.options = d.options
    BY <1>3, <1>4, <1>6
  <2> QED BY <2>1, <2>2, <1>7, <1>9, LostAndCame
<1>11. DataIsKept(shown'[taken'.table], taken'.original.columns, taken'.after.columns)
  BY <1>3, <1>5, <1>6, <1>9, <1>10
<1>12. ASSUME ~disturbed
       PROVE  Patched'
  <2>0. PICK src : src = schemas["source"][n]
    OBVIOUS
  <2>1. SameParts(s, src) /\ SameParts(d, table) /\ src # NoTable /\ table # NoTable
    BY <2>0, <1>4, <1>6, <1>12
  <2>2. TableShape(src) /\ TableShape(table)
    <3>1. "source" \in Sides /\ "target" \in Sides
      BY DEF Sides
    <3> QED BY <3>1, <2>0, <2>1, <1>2, <1>6, <1>12 DEF TablesFit
  <2>3. taken'.original = table
    BY <1>3, <1>6
  <2>5. diff_table(s, d, w, m) = diff_table(src, table, w, m)
    BY <2>1, PartsCompared
  <2>6. TheAlter(s, d, w, m, "patch") = TheAlter(src, table, w, m, "patch")
    BY <2>5, Zenon DEF TheAlter
  <2>7. m \in Renames(src.columns, table.columns)
    <3>1. s.columns = src.columns /\ d.columns = table.columns
      BY <2>1 DEF SameParts
    <3> QED BY <3>1, Zenon
  <2>4. \E x, v, r :
    /\ x = schemas'["source"][taken'.table] /\ TableShape(x) /\ TableShape(taken'.original)
    /\ v = wish' /\ r \in Renames(x.columns, taken'.original.columns)
    /\ shown'[taken'.table] = diff_table(x, taken'.original, v, r)
    /\ ~MySQLRefuses(taken'.original, TheAlter(x, taken'.original, v, r, "patch"))
    /\ taken'.after = Altered(taken'.original, TheAlter(x, taken'.original, v, r, "patch"))
    /\ schemas'["target"][taken'.table] = taken'.after
    <3>1. /\ src = schemas'["source"][taken'.table] /\ w = wish'
          /\ shown'[taken'.table] = diff_table(src, table, w, m)
          /\ schemas'["target"][taken'.table] = taken'.after
      BY <2>0, <2>5, <1>3, <1>5, <1>6, <1>9
    <3>2. /\ ~MySQLRefuses(table, TheAlter(src, table, w, m, "patch"))
          /\ taken'.after = Altered(table, TheAlter(src, table, w, m, "patch"))
      BY <2>6, <1>9
    <3> QED BY <3>1, <3>2, <2>2, <2>3, <2>7, Zenon
  <2> QED BY <2>4, Zenon DEF Patched
<1>13. TakenFits'
  BY <1>3, <1>11, <1>12 DEF TakenFits
<1> QED BY <1>2, <1>3, <1>13 DEF DiffInv

\* The ticket of the revert.
LEMMA RevertKeeps ==
  ASSUME DiffInv, RunRevert
  PROVE  DiffInv'
<1>1. taken # NoDiff /\ taken.of = "patch" /\ RunTicket(taken.table, "revert")
  BY DEF RunRevert
<1> DEFINE n == taken.table
<1>2. DiffTypes /\ TakenFits /\ n \in TableNames
  BY <1>1 DEF DiffInv, DiffTypes, RunTicket
<1>3. /\ DiffTypes' /\ compared = "shown"
      /\ UNCHANGED <<compared, wish, reads, seen, shown, drifts, disturbed>>
      /\ taken' # NoDiff /\ taken'.table = n /\ taken'.of = "revert"
      /\ taken'.after = Altered(schemas["target"][n], build_alter(shown[n], "revert"))
      /\ taken'.original = taken.original
  BY <1>1, <1>2, TicketIs
<1>4. ASSUME ~disturbed
      PROVE  LikeAll(taken'.original, taken'.after)
  <2>1. PICK s, w, m :
    /\ TableShape(s) /\ TableShape(taken.original)
    /\ w = wish /\ m \in Renames(s.columns, taken.original.columns)
    /\ shown[n] = diff_table(s, taken.original, w, m)
    /\ ~MySQLRefuses(taken.original, TheAlter(s, taken.original, w, m, "patch"))
    /\ taken.after = Altered(taken.original, TheAlter(s, taken.original, w, m, "patch"))
    /\ schemas["target"][n] = taken.after
    BY <1>1, <1>2, <1>4, Zenon DEF TakenFits, Patched
  <2>2. w \in WishType
    BY <2>1, <1>2 DEF DiffTypes
  <2>3. PICK d : d = taken.original
    OBVIOUS
  <2>4. LikeAll(d, Altered(Altered(d, TheAlter(s, d, w, m, "patch")), TheAlter(s, d, w, m, "revert")))
    BY <2>1, <2>2, <2>3, RevertUndoes
  <2>5. build_alter(shown[n], "revert") = TheAlter(s, d, w, m, "revert")
    BY <2>1, <2>3, Zenon DEF TheAlter
  <2>6. taken'.after = Altered(Altered(d, TheAlter(s, d, w, m, "patch")), TheAlter(s, d, w, m, "revert"))
    BY <2>1, <2>3, <2>5, <1>3
  <2> QED BY <2>3, <2>4, <2>6, <1>3
<1>5. TakenFits'
  BY <1>3, <1>4 DEF TakenFits
<1> QED BY <1>3, <1>5 DEF DiffInv

\* Nothing.
LEMMA NothingKeeps ==
  ASSUME DiffInv, UNCHANGED diffVars
  PROVE  DiffInv'
<1>1. UNCHANGED <<schemas, compared, wish, reads, seen, shown, drifts, disturbed, taken>>
  BY DEF diffVars
<1>2. DiffTypes'
  BY <1>1 DEF DiffInv, DiffTypes, SchemasAre
<1>3. taken' = NoDiff => TablesFit'
  BY <1>1 DEF DiffInv, TablesFit
<1>4. compared' = "reading" => AnswersHold'
  <2>1. AnswersHold => AnswersHold'
    BY <1>1 DEF AnswersHold, AnswerHolds, Wanted, Queries
  <2> QED BY <2>1, <1>1 DEF DiffInv
<1>5. \A n : ShownFits(n) => ShownFits(n)'
  BY <1>1, Zenon DEF ShownFits
<1>6. TakenFits => TakenFits'
  BY <1>1, Zenon DEF TakenFits, Patched
<1> QED BY <1>1, <1>2, <1>3, <1>4, <1>5, <1>6 DEF DiffInv

\* Every step keeps what is known.
LEMMA DiffInvHolds ==
  /\ DiffInit => DiffInv
  /\ DiffInv /\ [DiffNext]_diffVars => DiffInv'
<1>1. DiffInit => DiffInv
  BY DiffInitHolds
<1>2. DiffInv /\ [DiffNext]_diffVars => DiffInv'
  BY TableDiffViewKeeps, FailureKeeps, ReadingKeeps, CompareKeeps, PatchKeeps, RevertKeeps, DriftKeeps,
     NothingKeeps, Zenon DEF DiffNext
<1> QED BY <1>1, <1>2

\* The types, of what is known.
LEMMA DiffInvTypes == DiffInv => SchemaDiffTypeOK
<1> SUFFICES ASSUME DiffInv PROVE SchemaDiffTypeOK
  OBVIOUS
<1>1. DiffTypes
  BY DEF DiffInv
<1>2. \A side \in Sides : DOMAIN schemas[side] = TableNames
  BY <1>1 DEF DiffTypes, SchemasAre
<1> QED BY <1>1, <1>2, Zenon DEF DiffTypes, SchemaDiffTypeOK, WishType

\* The state of a comparison is of its types: it asks six queries at most, three of either side, and
\* what it shows is of the tables there are names of (get_tables_schema, diff_schemas).
THEOREM ComparisonTypes == DiffSpec => []SchemaDiffTypeOK
<1> QED BY DiffInvHolds, DiffInvTypes, PTL DEF DiffSpec

\* The ALTERs of diff_table and build_alter do what the page says of them, for every pair of tables
\* that MySQL can tell of: a patch that goes through on a target that is as it was read makes it
\* like its source, its revert takes it back, comments included, and no column goes that the page
\* does not mark, nor while one of the same signature is added, whatever others dropped meanwhile.
THEOREM PatchesAreTrue == DiffSpec => []PatchesDoWhatTheySay
<1> QED BY DiffInvHolds, TakenMeans, PTL DEF DiffSpec

=============================================================================
