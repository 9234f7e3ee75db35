------------------------------- MODULE MCTools -------------------------------
(***************************************************************************)
(* The command line tools (src/cmd), one of them in a behaviour: the       *)
(* repository generator of GenRepo, the classic one, the reading of a      *)
(* table by both, the column generator and the migration generator; and    *)
(* the Postman collection alone, over more edits than the classic          *)
(* generator's behaviours have.                                            *)
(***************************************************************************)
EXTENDS Generators, Migrations, TLC

VARIABLES
  table, parsed, loaded,
  src, bad, dao, col, unparsed, phase, full, pending, answer, columnRuns, changes, current

ddl == <<table, parsed, loaded>>
columns == <<src, bad, dao, col, unparsed, phase, full, pending, answer, columnRuns, changes, current>>

toolVars == <<generatorVars, ddl, columns, mvars>>

-----------------------------------------------------------------------------
(* GenRepo: two of the five files a table's module has, the one whose tags *)
(* are read first, and the one with the handlers, three of which two are   *)
(* targets.                                                                *)
Always == <<"model">>
WithCtl == <<"http">>

Decls == "model" :> <<"Dto", "Row">> @@ "http" :> <<"Index", "Save", "View">>
TargetDecls == "model" :> {"Dto", "Row"} @@ "http" :> {"Index", "Save"}

(* GenRepoClassic: a run is given one table or two.                        *)
AlwaysFiles == <<"dto">>
CtlOnly == <<"http">>
OneOrTwo == {<<"a">>, <<"b", "a">>}
FlagsGiven == {{}, {"ctl"}, {"ctl", "force"}, {"ctl", "hard", "force"}, {"hard", "dryRun"},
               {"postman"}}
PathPrefixes == {<<>>, <<"api">>}

(* GenColumns: three files, two of one name; bodies with and without a     *)
(* column and embedded structs, which may be missing or embed one another. *)
K == INSTANCE GenColumns WITH
       Sources <- {"a", "sub/a", "b"}, BaseName <- "a" :> "a" @@ "sub/a" :> "a" @@ "b" :> "b",
       Structs <- {"S", "T", "U"},
       Bodies <- {[columns |-> {}, embeds |-> {}], [columns |-> {"x"}, embeds |-> {}],
                  [columns |-> {}, embeds |-> {"T"}], [columns |-> {"y"}, embeds |-> {"S", "U"}]},
       MaxColumnRuns <- 2, MaxChanges <- 3

-----------------------------------------------------------------------------
(* TableDdl: the types of the columns, as written and as in the catalog.   *)
Type(ddlType, data, udt) == [ddl |-> ddlType, data |-> data, udt |-> udt]

Zoned(t) == <<t, " ", "with", " ", "time", " ", "zone">>

ColumnTypes ==
  [uuid |-> Type(<<"uuid">>, <<"uuid">>, <<"uuid">>),
   int8 |-> Type(<<"bigint">>, <<"bigint">>, <<"int8">>),
   serial |-> Type(<<"bigserial">>, <<"bigint">>, <<"int8">>),
   number |-> Type(<<"numeric", "(", "10", ",", " ", "2", ")">>, <<"numeric">>, <<"numeric">>),
   double |-> Type(<<"double", " ", "precision">>, <<"double", " ", "precision">>, <<"float8">>),
   at |-> Type(<<"timestamp", "(", "3", ")", " ", "with", " ", "time", " ", "zone">>,
               Zoned("timestamp"), <<"timestamptz">>),
   clock |-> Type(<<"timetz">>, Zoned("time"), <<"timetz">>),
   array |-> Type(<<"text", "[]">>, <<"ARRAY">>, <<"_", "text">>),
   mood |-> Type(<<"mood">>, <<"USER-DEFINED">>, <<"mood">>)]

TypeWords ==
  "bigint" :> {"int"} @@ "bigserial" :> {"bigserial", "serial"} @@ "timestamptz" :> {"timestamp"}
    @@ [w \in {"uuid", "numeric", "double", "timestamp"} |-> {w}]

Clauses ==
  {<<>>, <<"notNull">>, <<"key">>, <<"default", "notNull">>, <<"check", "default">>,
   <<"notNull", "check">>, <<"generated">>, <<"generated", "notNull">>}

ColumnDef(name, quoted, type, clauses) ==
  [name |-> name, quoted |-> quoted, type |-> type, clauses |-> clauses,
   expression |-> <<"lower", "(", "'", ")", "'", ",", " ", "b", ")">>]

(* PostgreSQL prints lower(')', b) with casts and parentheses of its own.  *)
PrintedAgain ==
  <<"lower", "(", "'", ")", "'", ",", " ", "b", ")">> :>
    <<"lower", "(", "'", ")", "'", "::", "text", ",", " ", "(", "b", ")", "::", "text", ")">>

FirstColumns ==
  {ColumnDef(n, q, t, c) :
     n \in {<<"id">>, <<"b">>}, q \in BOOLEAN, t \in DOMAIN ColumnTypes, c \in Clauses}

OtherColumns ==
  {<<ColumnDef(<<"status">>, FALSE, "uuid", <<>>)>>,
   <<ColumnDef(<<"created_at">>, FALSE, "at", <<"default">>),
     ColumnDef(<<"no">>, FALSE, "int8", <<"check">>)>>}

Surroundings ==
  {[before |-> <<"INSERT", " ", "(", "'", "(", ";", "'", ")", ";", " ">>,
    after |-> <<" ", "COMMENT", "'", "(", "'", ";">>],
   [before |-> <<"CREATE", " ", "TABLE", " ", "z", ";">>, after |-> <<>>]}

TableOf(first, others, around, named) ==
  LET keyed == Len(others) = 2 /\ first.clauses # <<"key">>
  IN  [columns |-> <<first>> \o others, before |-> around.before, after |-> around.after,
       ifNotExists |-> named, schema |-> IF named THEN <<"s">> ELSE <<>>, name |-> <<"t">>,
       key |-> IF keyed THEN {<<"no">>} ELSE {},
       keyStyle |-> IF ~keyed THEN "none" ELSE IF named THEN "named" ELSE "plain"]

Tables ==
  {TableOf(f, o, s, TRUE) : f \in FirstColumns, o \in OtherColumns, s \in Surroundings}
    \cup {TableOf(f, o, [before |-> <<>>, after |-> <<>>], FALSE) :
            f \in FirstColumns, o \in OtherColumns}

Pair(key, value, wellFormed) == [key |-> key, value |-> value, wellFormed |-> wellFormed]

Tags ==
  {<<>>, <<Pair("json", "x", TRUE), Pair("bson", "y", TRUE)>>,
   <<Pair("db", "", TRUE), Pair("validate", "v", TRUE), Pair("x", "y", FALSE),
     Pair("form", "z", TRUE)>>,
   <<Pair("query", "q", TRUE), Pair("form", "f", TRUE), Pair("query", "", TRUE)>>}

D == INSTANCE TableDdl WITH
       Definitions <- Tables, Types <- ColumnTypes, Deparsed <- PrintedAgain,
       Inside <- TypeWords, TagLiterals <- Tags

-----------------------------------------------------------------------------
(* The collection without the rest of the project: runs that rebuild it,   *)
(* one of which may fail at it, and the developer's edits.                 *)
CollectionRuns == 3
CollectionEdits == 4

CollectionNext ==
  \/ /\ runs < CollectionRuns /\ runs' = runs + 1 /\ UNCHANGED <<edits, faults>>
     /\ \E prefix \in UrlPaths : PatchCollection(prefix)
  \/ Fault /\ CollectionFails(FALSE) /\ UNCHANGED <<runs, edits>>
  \/ edits < CollectionEdits /\ edits' = edits + 1 /\ EditItems /\ UNCHANGED <<runs, faults>>

BesideCollection == <<tool, repo, project, runInput, classicHistory, pc, todo, result>>

-----------------------------------------------------------------------------
(* The variables of the other tools stay as they are.                      *)
NoDdl == table = <<>> /\ parsed = <<>> /\ loaded = <<>>

ToolsInit ==
  /\ GeneratorsInit /\ K!ColumnsInit /\ MigrationsInit
  /\ tool # "repo" => usable = {"postman"}
  /\ IF tool = "ddl" THEN D!DdlInit ELSE NoDdl

ToolsNext ==
  \/ GeneratorsNext /\ UNCHANGED <<ddl, columns, mvars>>
  \/ tool = "collection" /\ CollectionNext /\ UNCHANGED <<BesideCollection, ddl, columns, mvars>>
  \/ tool = "ddl" /\ D!ReadTable /\ UNCHANGED <<generatorVars, columns, mvars>>
  \/ tool = "columns" /\ K!ColumnsNext /\ UNCHANGED <<generatorVars, ddl, mvars>>
  \/ tool = "migrations" /\ MigrationsNext /\ UNCHANGED <<generatorVars, ddl, columns>>

ToolsSpec == ToolsInit /\ [][ToolsNext]_toolVars

-----------------------------------------------------------------------------
(* A table reads the same from its statement and from the catalog.         *)
SourcesAgree == tool = "ddl" => D!SourcesAgree

(* What is generated fits together and what it is generated from: the      *)
(* structs, handlers and requests of a table, and the columns of the Go    *)
(* structs of a source tree.                                               *)
FieldsFit ==
  /\ tool = "ddl" => D!FieldsFit
  /\ tool = "columns" => K!ColumnsCurrent
=============================================================================
