------------------------------- MODULE TableDdl -------------------------------
(***************************************************************************)
(* How the repository generators learn a table (parser.go, and             *)
(* loadTableDefinition in main.go); TableFields is what they make of it.   *)
(* A table is read either from the text of its CREATE TABLE statement or   *)
(* from the catalog of a database in which that statement was run.         *)
(*                                                                         *)
(* A text is a sequence of tokens: words in upper case if they are         *)
(* keywords, single spaces, parentheses, commas, semicolons and quotes.    *)
(***************************************************************************)
EXTENDS TableFields, FiniteSetsExt

CONSTANTS
  Definitions,    \* the tables, each with its statement
  Types,          \* a column's type: as in the statement, and in the catalog
  Deparsed,       \* an expression as PostgreSQL prints it again
  Inside,         \* of a word of a type, the type words it has inside
  TagLiterals     \* struct tags that a developer leaves on a field

VARIABLES
  table,          \* the table looked at
  parsed, loaded  \* what the generators have read, from text and catalog

dvars == <<table, parsed, loaded>>

Single == "'"
Double == "\""
Space == " "

PrimaryKey == <<"PRIMARY", Space, "KEY">>
CreateTable == <<"CREATE", Space, "TABLE">>
IfNotExists == <<"IF", Space, "NOT", Space, "EXISTS">>

NoTable == [schema |-> <<>>, name |-> <<>>, columns |-> <<>>]
Unread == [NoTable EXCEPT !.name = <<"unread">>]

DdlInit ==
  /\ table \in Definitions
  /\ parsed = Unread /\ loaded = Unread

-----------------------------------------------------------------------------
(* The statement of a table in SQL, between others.                        *)

Spaced(texts) ==
  FlattenSeq([k \in DOMAIN texts |-> IF k = 1 THEN texts[k] ELSE <<Space>> \o texts[k]])

Literal == <<Single, ",", Single, Single, ")", ";", Double, Single>>

Clause(c, a) ==
  CASE a = "notNull" -> <<"NOT", Space, "NULL">>
    [] a = "key" -> <<"PRIMARY", Space, "KEY">>
    [] a = "default" -> <<"DEFAULT", Space>> \o Literal
    [] a = "check" -> <<"CHECK", Space, "(", "f", "(", "x", ",", Space, "y", ")", ")">>
    [] a = "generated" ->
         <<"GENERATED", Space, "ALWAYS", Space, "AS", Space, "(">> \o c.expression
           \o <<")", Space, "STORED">>

ColumnText(c) ==
  Spaced(<<IF c.quoted THEN <<Double>> \o c.name \o <<Double>> ELSE c.name, Types[c.type].ddl>>
           \o [k \in DOMAIN c.clauses |-> Clause(c, c.clauses[k])])

Commas(texts) ==
  FlattenSeq([k \in DOMAIN texts |-> IF k = 1 THEN texts[k] ELSE <<",", Space>> \o texts[k]])

KeyText(t) ==
  CASE t.keyStyle = "none" -> <<>>
    [] t.keyStyle = "plain" -> <<PrimaryKey \o <<Space, "(">> \o Commas(SetToSeq(t.key)) \o <<")">>>>
    [] t.keyStyle = "named" ->
         <<<<"CONSTRAINT", Space, "k", Space>> \o PrimaryKey \o <<"(">> \o Commas(SetToSeq(t.key))
             \o <<")">>>>

Statement(t) ==
  t.before
    \o CreateTable \o <<Space>> \o (IF t.ifNotExists THEN IfNotExists \o <<Space>> ELSE <<>>)
    \o (IF t.schema = <<>> THEN <<>> ELSE t.schema \o <<".">>) \o t.name \o <<Space, "(">>
    \o Commas([i \in DOMAIN t.columns |-> ColumnText(t.columns[i])] \o KeyText(t))
    \o <<")", ";">> \o t.after

-----------------------------------------------------------------------------
(* Scanning.                                                               *)

(* Mutant of Quote: quotes are not looked at.                              *)
QuoteNothing(s) == [i \in 1 .. Len(s) + 1 |-> "none"]

(* inSingle and inDouble before each token; the second quote of two in a   *)
(* literal is skipped.                                                     *)
Quote(s) ==
  LET q[i \in 1 .. Len(s) + 1] ==
        IF i = 1 THEN "none"
        ELSE LET before == q[i - 1]
                 doubled == i <= Len(s) /\ s[i] = Single
             IN  CASE before = "skip" -> Single
                   [] before = "none" /\ s[i - 1] \in {Single, Double} -> s[i - 1]
                   [] before = Double /\ s[i - 1] = Double -> "none"
                   [] before = Single /\ s[i - 1] = Single ->
                        IF doubled THEN "skip" ELSE "none"
                   [] OTHER -> before
  IN  q

Unquoted(s) == LET q == Quote(s) IN {i \in DOMAIN s : q[i] = "none"}

(* depth before each token.                                                *)
Depth(s) ==
  LET bare == Unquoted(s)
      d[i \in 1 .. Len(s) + 1] ==
        IF i = 1 THEN 0
        ELSE LET before == d[i - 1]
             IN  CASE i - 1 \in bare /\ s[i - 1] = "(" -> before + 1
                   [] i - 1 \in bare /\ s[i - 1] = ")" /\ before > 0 -> before - 1
                   [] OTHER -> before
  IN  d

(* strings.TrimSpace and strings.Fields.                                   *)
Trim(s) ==
  LET ink == {i \in DOMAIN s : s[i] # Space}
  IN  IF ink = {} THEN <<>> ELSE SubSeq(s, Min(ink), Max(ink))

CutAt(s, cuts) ==
  LET c == SelectSeq([i \in DOMAIN s |-> i], LAMBDA i : i \in cuts)
  IN  [k \in 1 .. Len(c) + 1 |->
         SubSeq(s, IF k = 1 THEN 1 ELSE c[k - 1] + 1,
                   IF k > Len(c) THEN Len(s) ELSE c[k] - 1)]

Words(s) == SelectSeq(CutAt(s, {i \in DOMAIN s : s[i] = Space}), LAMBDA w : w # <<>>)

(* The parts between the separators outside quotes and parentheses.        *)
Parts(s, separator) ==
  LET d == Depth(s)
  IN  CutAt(s, {i \in Unquoted(s) : s[i] = separator /\ d[i] = 0})

WithoutEmptyEnd(parts) == IF Last(parts) = <<>> THEN Front(parts) ELSE parts

splitStatements(s) == WithoutEmptyEnd(Parts(s, ";"))

splitComma(s) ==
  LET parts == Parts(s, ",")
  IN  WithoutEmptyEnd([k \in DOMAIN parts |-> Trim(parts[k])])

(* Of a text that begins with a parenthesis, where it is closed.           *)
Closings(s) ==
  LET d == Depth(s) IN {i \in Unquoted(s) : s[i] = ")" /\ d[i] = 1}

Inner(s) == SubSeq(s, 2, Min(Closings(s)) - 1)

At(s, token) == {i \in DOMAIN s : s[i] = token}

From(s, i) == SubSeq(s, i, Len(s))

Places(s, part) ==
  {i \in DOMAIN s : i + Len(part) <= Len(s) + 1 /\ SubSeq(s, i, i + Len(part) - 1) = part}

Has(s, part) == Places(s, part) # {}

After(s, part) == From(s, Min(Places(s, part)) + Len(part))

trimIdentifier(s) == SelectSeq(Trim(s), LAMBDA t : t # Double)

-----------------------------------------------------------------------------
(* A column.                                                               *)

isConstraintToken(words, i) ==
  \/ words[i] \in {<<k>> : k \in {"CONSTRAINT", "DEFAULT", "CHECK", "UNIQUE", "REFERENCES",
                                  "NULL", "GENERATED", "PRIMARY", "FOREIGN"}}
  \/ words[i] = <<"NOT">> /\ i < Len(words) /\ words[i + 1] = <<"NULL">>

(* splitTypeAndAttrs.                                                      *)
Attributes(words) ==
  From(words, Min({i \in DOMAIN words : isConstraintToken(words, i)} \cup {Len(words) + 1}))

containsPair(attrs, a, b) ==
  \E i \in 1 .. Len(attrs) - 1 : attrs[i] = <<a>> /\ attrs[i + 1] = <<b>>

containsKeyword(attrs, k) == <<k>> \in ToSet(attrs)

extractGeneratedExpression(s) ==
  LET generated == After(s, <<"GENERATED", Space>>)
      body == After(generated, <<Space, "AS", Space>>)
      open == From(body, Min(At(body, "(")))
  IN  IF /\ Has(s, <<"GENERATED", Space>>) /\ Has(generated, <<Space, "AS", Space>>)
         /\ At(body, "(") # {} /\ Closings(open) # {}
      THEN Trim(Inner(open)) ELSE <<>>

parseColumnDefinition(s) ==
  LET words == Words(s)
      rest == Tail(words)
      attrs == Attributes(rest)
      primary == containsPair(attrs, "PRIMARY", "KEY")
  IN  [name |-> trimIdentifier(words[1]),
       type |-> SubSeq(rest, 1, Len(rest) - Len(attrs)),
       notNull |-> primary \/ containsPair(attrs, "NOT", "NULL"),
       primary |-> primary,
       generated |-> containsKeyword(attrs, "GENERATED") /\ containsKeyword(attrs, "AS"),
       expression |-> extractGeneratedExpression(s)]

Invalid(s) == Len(Words(s)) < 2 \/ Attributes(Tail(Words(s))) = Tail(Words(s))

-----------------------------------------------------------------------------
(* A statement.                                                            *)

namesPrimaryKey(s) ==
  IsPrefix(PrimaryKey, s) \/ (IsPrefix(<<"CONSTRAINT">>, s) /\ Has(s, PrimaryKey))

extractPkColumns(s) ==
  IF At(s, "(") = {} \/ At(s, ")") = {} THEN {}
  ELSE {trimIdentifier(p) : p \in ToSet(splitComma(
          SubSeq(s, Min(At(s, "(")) + 1, Max(At(s, ")")) - 1)))} \ {<<>>}

(* What parseCreateStatement does with the primary key of the table.       *)
WithKeys(columns, keys) ==
  [i \in DOMAIN columns |->
     IF columns[i].name \in keys THEN [columns[i] EXCEPT !.primary = TRUE, !.notNull = TRUE]
     ELSE columns[i]]

Body(s) ==
  LET after == Trim(After(s, CreateTable))
  IN  IF IsPrefix(IfNotExists, after) THEN Trim(After(after, IfNotExists)) ELSE after

(* splitSchemaAndTable.                                                    *)
SchemaAndName(s) ==
  LET parts == CutAt(s, At(s, "."))
  IN  IF Len(parts) = 1 THEN [schema |-> <<>>, name |-> trimIdentifier(s)]
      ELSE [schema |-> trimIdentifier(parts[1]),
            name |-> trimIdentifier(After(s, <<".">>))]

parseCreateStatement(statement) ==
  LET body == Body(statement)
      open == Min(At(body, "("))
      ident == SchemaAndName(SubSeq(body, 1, open - 1))
      fragments == SelectSeq(splitComma(Inner(From(body, open))), LAMBDA f : f # <<>>)
      defs == SelectSeq(fragments, LAMBDA f : ~namesPrimaryKey(f))
      keys == UNION {extractPkColumns(f) : f \in {g \in ToSet(fragments) : namesPrimaryKey(g)}}
      columns == [i \in DOMAIN defs |-> parseColumnDefinition(defs[i])]
  IN  IF \/ ~Has(statement, CreateTable) \/ At(body, "(") = {} \/ ident.name = <<>>
         \/ Closings(From(body, open)) = {} \/ defs = <<>>
         \/ \E f \in ToSet(defs) : Invalid(f)
      THEN NoTable
      ELSE [schema |-> ident.schema, name |-> ident.name, columns |-> WithKeys(columns, keys)]

(* The first statement that can be parsed.                                 *)
ParseCreateTable(text) ==
  LET tables == SelectSeq([k \in DOMAIN splitStatements(text) |->
                             parseCreateStatement(splitStatements(text)[k])],
                          LAMBDA t : t # NoTable)
  IN  IF tables = <<>> THEN NoTable ELSE tables[1]

-----------------------------------------------------------------------------
(* PostgreSQL's catalog of the table.  generation_expression is not the    *)
(* text of the statement but printed from what was parsed, with casts.     *)
Catalog(t) ==
  [i \in DOMAIN t.columns |->
     LET c == t.columns[i]
         key == c.name \in t.key \/ "key" \in ToSet(c.clauses)
     IN  [name |-> c.name, key |-> key, data |-> Types[c.type].data, udt |-> Types[c.type].udt,
          notNull |-> key \/ "notNull" \in ToSet(c.clauses),
          generated |-> "generated" \in ToSet(c.clauses),
          expression |-> IF "generated" \in ToSet(c.clauses) THEN Deparsed[c.expression]
                         ELSE <<>>]]

(* An array's element type is its udt_name without the underscore.         *)
rawTypeFromColumn(data, udt) ==
  CASE data = <<"USER-DEFINED">> -> udt
    [] data = <<"ARRAY">> -> Tail(udt) \o <<"[]">>
    [] OTHER -> data

loadTableDefinition(t) ==
  LET catalog == Catalog(t)
  IN  [schema |-> t.schema, name |-> t.name,
       columns |-> [i \in DOMAIN catalog |->
         LET c == catalog[i]
         IN  [name |-> c.name,
              type |-> Words(rawTypeFromColumn(c.data, c.udt)),
              notNull |-> c.notNull \/ c.key,
              primary |-> c.key,
              generated |-> c.generated,
              expression |-> c.expression]]]

ReadTable ==
  /\ parsed = Unread
  /\ parsed' = ParseCreateTable(Statement(table))
  /\ loaded' = loadTableDefinition(table)
  /\ UNCHANGED table

-----------------------------------------------------------------------------
(* The Go type of a column: of these, the first that matches.              *)
Kinds ==
  << [inside |-> {"uuid"}, equal |-> {}, go |-> "string"],
     [inside |-> {"bigserial"}, equal |-> {<<"bigint">>}, go |-> "int64"],
     [inside |-> {"int", "serial"}, equal |-> {}, go |-> "int"],
     [inside |-> {"float", "numeric", "decimal", "double", "real"}, equal |-> {},
      go |-> "float64"],
     [inside |-> {"bool"}, equal |-> {}, go |-> "bool"],
     [inside |-> {"timestamp", "datetime"},
      equal |-> {<<"date">>, <<"time">>, <<"timetz">>}, go |-> "time.Time"],
     [inside |-> {"json"}, equal |-> {}, go |-> "json.RawMessage"],
     [inside |-> {"bytea"}, equal |-> {}, go |-> "[]byte"] >>

Flat(words) ==
  FlattenSeq([k \in DOMAIN words |-> IF k = 1 THEN words[k] ELSE <<Space>> \o words[k]])

Replaced(type) ==
  CASE type = <<"character", Space, "varying">> -> <<"varchar">>
    [] type = <<"time", Space, "without", Space, "time", Space, "zone">> -> <<"time">>
    [] type = <<"time", Space, "with", Space, "time", Space, "zone">> -> <<"timetz">>
    [] type = <<"timestamp", Space, "without", Space, "time", Space, "zone">> -> <<"timestamp">>
    [] type = <<"timestamp", Space, "with", Space, "time", Space, "zone">> -> <<"timestamptz">>
    [] type = <<"double", Space, "precision">> -> <<"double">>
    [] OTHER -> type

baseSQLType(raw) ==
  LET whole == Replaced(raw)
  IN  IF whole # raw \/ At(raw, "(") = {} THEN whole
      ELSE Replaced(Trim(SubSeq(raw, 1, Min(At(raw, "(")) - 1)))

buildGoType(column) ==
  LET base == baseSQLType(Flat(column.type))
      words == UNION {Inside[w] : w \in ToSet(base) \cap DOMAIN Inside}
      matches == {k \in DOMAIN Kinds : base \in Kinds[k].equal \/ words \cap Kinds[k].inside # {}}
  IN  IF matches = {} THEN "string" ELSE Kinds[Min(matches)].go

-----------------------------------------------------------------------------
(* Whether a table is read from the text of its statement, among other     *)
(* statements, literals and quoted names, or from the catalog, the         *)
(* generators learn the same columns, with the same keys, agree on which   *)
(* are generated, and give them the same Go types.  The expression of a    *)
(* generated column is the one written, whole, when it is read from text,  *)
(* and PostgreSQL's form of that one when it is read from the catalog; no  *)
(* other column has one.                                                   *)
SourcesAgree ==
  parsed # Unread =>
    /\ parsed.name = loaded.name /\ parsed.schema = loaded.schema
    /\ DOMAIN parsed.columns = DOMAIN loaded.columns
    /\ \A i \in DOMAIN parsed.columns :
         LET p == parsed.columns[i] l == loaded.columns[i] written == table.columns[i].expression
         IN  /\ \A part \in {"name", "notNull", "primary", "generated"} : p[part] = l[part]
             /\ <<p.expression, l.expression>> =
                  IF p.generated THEN <<written, Deparsed[written]>> ELSE <<<<>>, <<>>>>
             /\ buildGoType(p) = buildGoType(l)

(* What is generated from a table, and from what a developer has made of   *)
(* it, fits together.                                                      *)
FieldsFit ==
  /\ \A t \in {parsed, loaded} : HandlerFits(t.columns)
  /\ \A column \in {Id, Status}, literal \in TagLiterals : TagsKept(column, literal)
=============================================================================
