------------------------------- MODULE RowIndex -------------------------------
(***************************************************************************)
(* Lists and lookups of rows: the parameters of a request (src/api:        *)
(* index_param.go, view_param.go), RowIndex.List, which counts and then    *)
(* lists in two statements, and the repository that uses them and updates  *)
(* and removes rows (src/service/repository/general), while other          *)
(* transactions change the table.  A client that lists goes from page to   *)
(* page until it has the number of rows it was told.                       *)
(*                                                                         *)
(* A filter is what fexpr parses: a comparison, or a sequence of groups    *)
(* each joined to the ones before; SQL text is a sequence of tokens.  A    *)
(* row has a key, a number that may be null, and in its JSON column a      *)
(* number, which SQL reads as text.                                        *)
(***************************************************************************)
EXTENDS Naturals, Integers, Sequences, SequencesExt, FiniteSets, FiniteSetsExt

CONSTANTS
  Rows,           \* rows there may be
  Filters,        \* filters a client may send
  Scopes,         \* conditions of the developer's: sequences of comparisons
  Sorts,          \* sort parameters: sequences of columns and directions
  Pages, Sizes,   \* of the first page
  DefaultSize, maxPageSize, maxPageSizeExport,
  MaxOps,         \* bound: requests
  MaxRowChanges   \* bound: changes by others

VARIABLES
  rows,           \* the table
  param,          \* the IndexParam of the request
  omitTotal,      \* in its context
  step,           \* where the request is
  total,          \* what it has counted
  answer,         \* what it was answered
  collected,      \* by the client, from its pages
  asked,          \* history: the request, as the client and the developer mean it
  seen,           \* history: the table its last statement has read
  touched,        \* history: the rows it has changed
  unchanged,      \* history: has nobody changed the table since page 1?
  ops, rowChanges

ivars == <<rows, param, omitTotal, step, total, answer, collected, asked, seen, touched,
           unchanged, ops, rowChanges>>

Null == -1
Itself == -2
Nil == [kind |-> "nil"]

(* A comparison: of a column with a number, with null, or with itself.     *)
Compare(col, op, value) == [kind |-> "expr", col |-> col, op |-> op, value |-> value]
Group(join, item) == [join |-> join, item |-> item]
Groups(of) == [kind |-> "groups", of |-> of]
NoFilter == Groups(<<>>)

NoParam == [page |-> 1, size |-> 1, filters |-> <<>>, sort |-> <<>>]
NoAnswer == [result |-> "none", rows |-> <<>>, total |-> 0]
NoRequest == [op |-> "none", filter |-> NoFilter, scope |-> <<>>, id |-> 0, paged |-> FALSE]

IndexInit ==
  /\ rows \in {r \in SUBSET Rows : \A a, b \in r : a.id = b.id => a = b}
  /\ param = NoParam /\ omitTotal = FALSE
  /\ step = "idle" /\ total = 0 /\ answer = NoAnswer
  /\ collected = <<>> /\ asked = NoRequest /\ seen = {} /\ touched = {}
  /\ unchanged = TRUE
  /\ ops = 0 /\ rowChanges = 0

-----------------------------------------------------------------------------
Token(t) == [t |-> t]
Paren(tokens) == <<Token("(")>> \o tokens \o <<Token(")")>>

(* A path into a JSON column is cast only beside a number; whatever the    *)
(* operator, null is compared with IS.                                     *)
ParseExpr(e) ==
  IF e.value = Null
  THEN [t |-> IF e.op = "=" THEN "IS NULL" ELSE "IS NOT NULL", col |-> e.col]
  ELSE [t |-> "compare", col |-> e.col, op |-> IF e.op = "~" THEN "ILIKE" ELSE e.op,
        value |-> e.value, numeric |-> e.col = "json" /\ e.op # "~"]

RECURSIVE ParseFilterAst(_)
ParseFilterAst(e) ==
  IF e.kind = "expr" THEN <<ParseExpr(e)>>
  ELSE FlattenSeq([i \in DOMAIN e.of |->
         LET item == e.of[i].item
         IN  (IF i = 1 THEN <<>> ELSE <<Token(e.of[i].join)>>)
               \o IF item.kind = "groups" THEN Paren(ParseFilterAst(item))
                  ELSE ParseFilterAst(item)])

(* A comparison of something with itself is refused, wherever it is.       *)
RECURSIVE Refused(_)
Refused(e) ==
  IF e.kind = "expr" THEN e.value = Itself
  ELSE \E i \in DOMAIN e.of : Refused(e.of[i].item)

(* Mutant of GenerateFilterStmt: the fragments are joined as they are.     *)
JoinFilters(filters) ==
  FlattenSeq([i \in DOMAIN filters |->
    (IF i = 1 THEN <<>> ELSE <<Token("AND")>>) \o filters[i]])

GenerateFilterStmt(filters) ==
  FlattenSeq([i \in DOMAIN filters |->
    (IF i = 1 THEN <<>> ELSE <<Token("AND")>>) \o Paren(filters[i])])

(* generateSortStmt.                                                       *)
SortInvalid(sort) == \E i \in DOMAIN sort : sort[i].col = ""

-----------------------------------------------------------------------------
(* SQL, as the database reads it: OR binds weaker than AND.                *)

TextRank(n) == IF n >= 10 THEN n \div 10 - 10 ELSE n     \* "10" sorts before "9"

CompareSql(c, row) ==
  LET v == row[c.col]
      less == IF c.col = "json" /\ ~c.numeric THEN TextRank(c.value) < TextRank(v)
              ELSE c.value < v
  IN  v # Null /\ CASE c.op \in {"=", "ILIKE"} -> v = c.value
                    [] c.op = "!=" -> v # c.value
                    [] c.op = ">" -> less

(* The places of a token outside parentheses.                              *)
TopLevel(tokens, t) ==
  {i \in DOMAIN tokens :
     /\ tokens[i].t = t
     /\ Cardinality({j \in 1 .. i : tokens[j].t = "("})
          = Cardinality({j \in 1 .. i : tokens[j].t = ")"})}

RECURSIVE HoldsSql(_, _)
HoldsSql(tokens, row) ==
  LET ors == TopLevel(tokens, "OR")
      ands == TopLevel(tokens, "AND")
      At(i) == HoldsSql(SubSeq(tokens, 1, i - 1), row)
      After(i) == HoldsSql(SubSeq(tokens, i + 1, Len(tokens)), row)
  IN  CASE tokens = <<>> -> TRUE
        [] ors # {} -> LET i == CHOOSE i \in ors : TRUE IN At(i) \/ After(i)
        [] ors = {} /\ ands # {} -> LET i == CHOOSE i \in ands : TRUE IN At(i) /\ After(i)
        [] OTHER ->
             LET first == tokens[1]
             IN  CASE first.t = "(" -> HoldsSql(SubSeq(tokens, 2, Len(tokens) - 1), row)
                   [] first.t = "IS NULL" -> row[first.col] = Null
                   [] first.t = "IS NOT NULL" -> row[first.col] # Null
                   [] OTHER -> CompareSql(first, row)

Where(table, tokens) == {row \in table : HoldsSql(tokens, row)}

(* NULL comes last in ascending order.                                     *)
Key(row, col) == IF row[col] = Null THEN 99 ELSE row[col]

Precedes(a, b, sort) ==
  \E i \in DOMAIN sort :
    /\ \A j \in 1 .. i - 1 : a[sort[j].col] = b[sort[j].col]
    /\ IF sort[i].desc THEN Key(b, sort[i].col) < Key(a, sort[i].col)
       ELSE Key(a, sort[i].col) < Key(b, sort[i].col)

(* The orders a statement may return rows in.                              *)
OrderBy(table, sort) ==
  {s \in SetToSeqs(table) : \A i, j \in DOMAIN s : i < j => ~Precedes(s[j], s[i], sort)}

-----------------------------------------------------------------------------
(* NewIndexParam.                                                          *)
Paged(page, size, omit, all) ==
  LET omitted == IF ~omit THEN [page |-> page, size |-> size]
                 ELSE [page |-> 1, size |-> IF size > 0 THEN size ELSE maxPageSize]
  IN  IF all THEN [page |-> 1, size |-> maxPageSizeExport]
      ELSE [omitted EXCEPT !.size = IF @ < 1 THEN DefaultSize ELSE @]

Fragments(filter, scope) ==
  (IF filter = NoFilter THEN <<>> ELSE <<ParseFilterAst(filter)>>)
    \o [i \in DOMAIN scope |-> <<ParseExpr(scope[i])>>]

Done(result, list, count) ==
  /\ step' = "idle"
  /\ answer' = [result |-> result, rows |-> list, total |-> count]

Request(op, filter, scope, id, paged) ==
  /\ step = "idle" /\ ops < MaxOps
  /\ ops' = ops + 1
  /\ asked' = [op |-> op, filter |-> filter, scope |-> scope, id |-> id, paged |-> paged]
  /\ collected' = <<>> /\ touched' = {} /\ unchanged' = TRUE /\ seen' = {}
  /\ total' = 0
  /\ UNCHANGED rowChanges

(* A list, with the developer's conditions added.                          *)
Index(filter, scope, sort, page, size, omit, all) ==
  LET p == Paged(page, size, omit, all)
  IN  /\ Request("index", filter, scope, 0, ~omit /\ ~all)
      /\ omitTotal' = omit
      /\ param' = [page |-> p.page, size |-> p.size, sort |-> sort,
                   filters |-> Fragments(filter, scope)]
      /\ IF Refused(filter) \/ SortInvalid(sort) THEN Done("err", <<>>, 0)
         ELSE step' = (IF omit THEN "list" ELSE "count") /\ answer' = NoAnswer
      /\ UNCHANGED rows

IdIs(id) == Compare("id", "=", id)

(* Repository.Get lists one row by its id and the conditions.              *)
Get(id, scope) ==
  /\ Request("get", NoFilter, scope, id, FALSE)
  /\ omitTotal' = TRUE
  /\ param' = [page |-> 1, size |-> 1, sort |-> <<>>,
               filters |-> Fragments(NoFilter, (IF id = 0 THEN <<>> ELSE <<IdIs(id)>>) \o scope)]
  /\ IF id = 0 /\ scope = <<>> THEN Done("err", <<>>, 0)
     ELSE step' = "list" /\ answer' = NoAnswer
  /\ UNCHANGED rows

Stmt == GenerateFilterStmt(param.filters)

Count ==
  /\ step = "count"
  /\ total' = Cardinality(Where(rows, Stmt))
  /\ step' = "list"
  /\ UNCHANGED <<rows, param, omitTotal, answer, collected, asked, seen, touched, unchanged,
                 ops, rowChanges>>

Offset == (param.page - 1) * param.size

Fetched(list) ==
  /\ collected' = collected \o list
  /\ IF asked.op = "get" /\ list = <<>> THEN Done("err", <<>>, 0) ELSE Done("ok", list, total)
  /\ seen' = rows

(* PostgreSQL refuses a negative offset.                                   *)
ListRows ==
  /\ step = "list"
  /\ IF Offset > total THEN Fetched(<<>>)
     ELSE IF Offset < 0 THEN Done("err", <<>>, 0) /\ UNCHANGED <<collected, seen>>
     ELSE \E s \in OrderBy(Where(rows, Stmt), param.sort) :
            Fetched(SubSeq(s, Offset + 1, Min({Offset + param.size, Len(s)})))
  /\ UNCHANGED <<rows, param, omitTotal, total, asked, touched, unchanged, ops, rowChanges>>

ListFails ==
  /\ step \in {"count", "list"}
  /\ Done("err", <<>>, 0)
  /\ unchanged' = FALSE
  /\ UNCHANGED <<rows, param, omitTotal, total, collected, asked, seen, touched, ops, rowChanges>>

More == answer.result = "ok" /\ asked.paged /\ param.page * param.size < answer.total

NextPage ==
  /\ step = "idle" /\ More
  /\ param' = [param EXCEPT !.page = @ + 1]
  /\ step' = "count" /\ answer' = NoAnswer /\ total' = 0
  /\ UNCHANGED <<rows, omitTotal, collected, asked, seen, touched, unchanged, ops, rowChanges>>

-----------------------------------------------------------------------------
(* Repository.Update and Repository.Remove: the condition is on the id if  *)
(* there is one, and all others that are not nil.  When only nil was given *)
(* the conjunction is empty, which squirrel renders as true.               *)
Conditions(id, where) ==
  (IF id = 0 THEN <<>> ELSE <<IdIs(id)>>) \o SelectSeq(where, LAMBDA w : w # Nil)

Affected(id, where) ==
  {row \in rows : \A i \in DOMAIN Conditions(id, where) :
                    HoldsSql(<<ParseExpr(Conditions(id, where)[i])>>, row)}

Modify(op, id, where, table) ==
  /\ step = "idle" /\ ops < MaxOps
  /\ ops' = ops + 1
  /\ asked' = [NoRequest EXCEPT !.op = op, !.scope = where, !.id = id]
  /\ IF id = 0 /\ where = <<>>
     THEN answer' = [NoAnswer EXCEPT !.result = "err"] /\ rows' = rows /\ touched' = {}
     ELSE /\ answer' = [NoAnswer EXCEPT !.result = "ok", !.total = Cardinality(Affected(id, where))]
          /\ rows' = table /\ touched' = Affected(id, where)
  /\ collected' = <<>> /\ seen' = rows
  /\ UNCHANGED <<param, omitTotal, step, total, unchanged, rowChanges>>

UpdateRows(id, where) ==
  Modify("update", id, where,
         {IF row \in Affected(id, where) THEN [row EXCEPT !.x = 1] ELSE row : row \in rows})

RemoveRows(id, where) == Modify("remove", id, where, rows \ Affected(id, where))

(* Another transaction commits.                                            *)
Others ==
  /\ rowChanges < MaxRowChanges /\ rowChanges' = rowChanges + 1
  /\ \E row \in Rows : rows' = {r \in rows : r.id # row.id} \cup (IF row \in rows THEN {} ELSE {row})
  /\ unchanged' = FALSE
  /\ UNCHANGED <<param, omitTotal, step, total, answer, collected, asked, seen, touched, ops>>

IndexNext ==
  \/ \E f \in Filters, c \in Scopes, o \in Sorts, p \in Pages, s \in Sizes, omit, all \in BOOLEAN :
       Index(f, c, o, p, s, omit, all)
  \/ \E id \in {0} \cup {row.id : row \in Rows}, c \in Scopes :
       \/ Get(id, c)
       \/ \E w \in {c, c \o <<Nil>>} : UpdateRows(id, w) \/ RemoveRows(id, w)
  \/ Count \/ ListRows \/ ListFails \/ NextPage \/ Others

-----------------------------------------------------------------------------
(* What a filter means: of the runs joined by AND, one holds.              *)
RECURSIVE Means(_, _)
Means(e, row) ==
  IF e.kind = "expr"
  THEN CASE e.value = Null -> (row[e.col] = Null) = (e.op = "=")
         [] e.value # Null -> row[e.col] # Null /\ CASE e.op \in {"=", "~"} -> row[e.col] = e.value
                                                     [] e.op = "!=" -> row[e.col] # e.value
                                                     [] e.op = ">" -> row[e.col] > e.value
  ELSE \/ e.of = <<>>
       \/ \E i \in DOMAIN e.of, j \in DOMAIN e.of :
            /\ i <= j
            /\ i = 1 \/ e.of[i].join = "OR"
            /\ j = Len(e.of) \/ e.of[j + 1].join = "OR"
            /\ \A k \in i .. j : (k = i \/ e.of[k].join = "AND") /\ Means(e.of[k].item, row)

InScope(scope, row) == \A i \in DOMAIN scope : scope[i] = Nil \/ Means(scope[i], row)

Asked(row) ==
  /\ Means(asked.filter, row) /\ InScope(asked.scope, row)
  /\ asked.op # "index" /\ asked.id # 0 => row.id = asked.id

(* The text of the filters asks the database for what the client and the   *)
(* developer mean, however groups nest and filters are combined: a page    *)
(* has only such rows of the table as it was, and no more than fit; the    *)
(* pages of a list that nothing disturbs, sorted by a key, together are    *)
(* all of them in order, or the first ones when the total was omitted; a   *)
(* row looked up, updated or removed is the one with the id, and in scope, *)
(* and is found if it is there; unless only nil conditions were given.     *)
RowsAsAsked ==
  step = "idle" /\ answer.result # "none" =>
    LET right == {row \in seen : Asked(row)}
        list == answer.rows
    IN  /\ ToSet(list) \subseteq right /\ IsInjective(list) /\ Len(list) <= param.size
        /\ asked.op = "index" /\ answer.result = "ok" /\ unchanged /\ ~More
             /\ (\E i \in DOMAIN param.sort : param.sort[i].col = "id")
             => \E s \in OrderBy(right, param.sort) :
                  collected = IF asked.paged THEN s ELSE SubSeq(s, 1, Min({param.size, Len(s)}))
        /\ asked.op = "get" /\ unchanged =>
             (answer.result = "ok" <=> ~(asked.id = 0 /\ asked.scope = <<>>)
                                         /\ {row \in rows : Asked(row)} # {})
        /\ asked.op \in {"update", "remove"} =>
             IF answer.result = "err" THEN touched = {}
             ELSE touched = right /\ answer.total = Cardinality(right)
=============================================================================
