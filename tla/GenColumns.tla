------------------------------ MODULE GenColumns ------------------------------
(***************************************************************************)
(* The column generator (src/cmd/gen-columns): a run removes the generated *)
(* files, parses the Go files of the source tree, collects the columns of  *)
(* every struct with those of the structs it embeds, and writes a file of  *)
(* columns for each source file (--full) and one with all columns.  The    *)
(* files for the source files lie, by default, in the directory that is    *)
(* parsed, and are named after the source without its ending, so that two  *)
(* sources (in two directories, or x.go and x.dao.go) may share one.       *)
(*                                                                         *)
(* A source file has the structs it declares; a struct has the columns in  *)
(* its db tags and the names of the structs it embeds.  A generated file   *)
(* is the structs it has, with their columns.                              *)
(***************************************************************************)
EXTENDS Naturals, FiniteSets, Relation

CONSTANTS
  Sources,        \* the source files
  BaseName,       \* of each, the name of its output file
  Structs,        \* struct names
  Bodies,         \* what a struct may be
  MaxColumnRuns,  \* bound: runs
  MaxChanges      \* bound: changes to the sources

VARIABLES
  src,            \* of each source file, the bodies of the structs it declares
  bad,            \* the source files that do not parse
  dao, col,       \* the generated files, and the columns in col.go
  unparsed,           \* are generated files there that do not parse?
  phase,          \* where the run is
  full,           \* its flag
  pending,        \* the source files it has not written the columns of
  answer,         \* of the last run
  columnRuns, changes,
  current         \* history: has no source changed since the run began?

cvars == <<src, bad, dao, col, unparsed, phase, full, pending, answer, columnRuns, changes, current>>

NoColumns == {}

ColumnsInit ==
  /\ src = [f \in Sources |-> [s \in {} |-> {}]]
  /\ bad = {}
  /\ dao = [f \in {} |-> {}] /\ col = NoColumns
  /\ unparsed = FALSE
  /\ phase = "idle" /\ full = FALSE /\ pending = {}
  /\ answer = "none"
  /\ columnRuns = 0 /\ changes = 0 /\ current = FALSE

-----------------------------------------------------------------------------
(* loadStructs keeps one struct of a name: that of the file walked last.   *)
Declaring(s) == {f \in Sources : s \in DOMAIN src[f]}
Known == UNION {DOMAIN src[f] : f \in Sources}
Body(s) == src[CHOOSE f \in Declaring(s) : TRUE][s]

(* Mutant of CollectFields: what an embedded struct embeds is not found.    *)
CollectOneLevel(s, seen) ==
  IF s \notin Known THEN {}
  ELSE Body(s).columns
         \cup UNION {Body(e).columns : e \in Body(s).embeds \cap Known}

RECURSIVE CollectFields(_, _)
CollectFields(s, seen) ==
  IF s \notin Known \/ s \in seen THEN {}
  ELSE Body(s).columns
         \cup UNION {CollectFields(e, seen \cup {s}) : e \in Body(s).embeds}

Fields(s) == CollectFields(s, {})

(* collectGeneratedStructs.                                                *)
Generated(f) ==
  [s \in {t \in DOMAIN src[f] : Fields(t) # {}} |-> Fields(s)]

AllColumns == UNION {Fields(s) : s \in Known}

-----------------------------------------------------------------------------
(* cleanColDir removes *.col.go: col.go itself is no such file.            *)
Clean ==
  /\ phase = "idle" /\ columnRuns < MaxColumnRuns
  /\ columnRuns' = columnRuns + 1
  /\ full' \in BOOLEAN
  /\ dao' = IF full' THEN [f \in {} |-> {}] ELSE dao
  /\ unparsed' = (unparsed /\ ~full')
  /\ phase' = "load" /\ answer' = "none" /\ current' = TRUE
  /\ UNCHANGED <<src, bad, col, pending, changes>>

Stop(r) == phase' = "idle" /\ pending' = {} /\ answer' = r

Load ==
  /\ phase = "load"
  /\ IF bad = {} /\ ~unparsed
     THEN phase' = "write" /\ pending' = Sources /\ UNCHANGED answer
     ELSE Stop("err")
  /\ UNCHANGED <<src, bad, dao, col, unparsed, full, columnRuns, changes, current>>

(* The files are written in the order of a Go map, and a file replaces an  *)
(* earlier one of its name.                                                *)
WriteColumns(f) ==
  /\ phase = "write" /\ f \in pending
  /\ pending' = pending \ {f}
  /\ dao' = IF full /\ DOMAIN Generated(f) # {}
            THEN [b \in DOMAIN dao \cup {BaseName[f]} |->
                    IF b = BaseName[f] THEN Generated(f) ELSE dao[b]]
            ELSE dao
  /\ UNCHANGED <<src, bad, col, unparsed, phase, full, answer, columnRuns, changes, current>>

(* The file that was being written is truncated.  Only whether it parses   *)
(* matters: a run with --full begins by removing it.                       *)
WriteFails ==
  /\ phase = "write"
  /\ Stop("err")
  /\ \/ \E f \in pending : full /\ DOMAIN Generated(f) # {} /\ unparsed' \in {unparsed, TRUE}
        /\ UNCHANGED col
     \/ pending = {} /\ AllColumns # {} /\ col' = NoColumns /\ UNCHANGED unparsed
     \/ UNCHANGED <<col, unparsed>>
  /\ UNCHANGED <<src, bad, dao, full, columnRuns, changes, current>>

(* writeAllColumns leaves an older file alone when there are no columns.   *)
WriteAll ==
  /\ phase = "write" /\ pending = {}
  /\ col' = IF AllColumns = {} THEN col ELSE AllColumns
  /\ Stop("ok")
  /\ UNCHANGED <<src, bad, dao, unparsed, full, columnRuns, changes, current>>

(* The developer changes, adds or removes a struct, or breaks a file.      *)
Change(f) ==
  /\ phase = "idle" /\ changes < MaxChanges
  /\ changes' = changes + 1
  /\ current' = FALSE
  /\ \/ /\ \E s \in Structs, b \in Bodies :
             /\ Declaring(s) \subseteq {f}
             /\ src' = [src EXCEPT ![f] = [t \in DOMAIN @ \cup {s} |->
                                             IF t = s THEN b ELSE @[t]]]
        /\ UNCHANGED bad
     \/ /\ \E s \in DOMAIN src[f] :
             src' = [src EXCEPT ![f] = [t \in DOMAIN @ \ {s} |-> @[t]]]
        /\ UNCHANGED bad
     \/ bad' \in {bad \cup {f}, bad \ {f}} /\ UNCHANGED src
  /\ UNCHANGED <<dao, col, unparsed, phase, full, pending, answer, columnRuns>>

ColumnsNext ==
  \/ Clean \/ Load \/ WriteFails \/ WriteAll
  \/ \E f \in Sources : WriteColumns(f) \/ Change(f)

-----------------------------------------------------------------------------
Embeds ==
  [p \in Structs \X Structs |->
     p[1] \in Known /\ p[2] \in Known /\ p[2] \in Body(p[1]).embeds]

(* The columns of a struct by definition: its own and those of every       *)
(* struct that can be reached by embedding, cycles included.               *)
ColumnsOf(s) ==
  LET reach == TransitiveClosure(Embeds, Structs)
  IN  UNION {Body(t).columns : t \in {u \in Known : u = s \/ reach[s, u]}}

(* What the output of a source file is to have.                            *)
Wanted(f) ==
  [s \in {t \in DOMAIN src[f] : ColumnsOf(t) # {}} |-> ColumnsOf(s)]

(* After a run that ends ok the generated files have the columns of the    *)
(* sources as they are, and nothing of structs that are gone, whatever     *)
(* earlier runs left behind; of source files that share an output file one *)
(* is there, whole.  col.go may stay old when there is no column.          *)
ColumnsCurrent ==
  answer = "ok" /\ current =>
    /\ full =>
         LET wanted == {f \in Sources : DOMAIN Wanted(f) # {}}
         IN  /\ DOMAIN dao = {BaseName[f] : f \in wanted}
             /\ \A b \in DOMAIN dao :
                  \E f \in wanted : BaseName[f] = b /\ dao[b] = Wanted(f)
    /\ AllColumns # {} => col = UNION {ColumnsOf(s) : s \in Known}
=============================================================================
