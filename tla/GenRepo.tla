------------------------------- MODULE GenRepo -------------------------------
(***************************************************************************)
(* The repository generator (src/cmd/gen-repo): a run writes the Go files  *)
(* of a table's module one after another, each in full, only if it does    *)
(* not hold one of its target declarations yet, or by appending to what is *)
(* there; then it registers the module's routes in the service's route     *)
(* file and rebuilds its Postman collection.  Any step may fail and end    *)
(* the run, and a failing write leaves the file truncated.  Between runs   *)
(* the developer edits what was generated.                                 *)
(*                                                                         *)
(* A Go file is the sequence of its declarations, the module's block in    *)
(* the route file the sequence of its registrations, and the collection a  *)
(* function from its folders to the names of their requests.               *)
(***************************************************************************)
EXTENDS GeneratorRun, Selections

CONSTANTS
  Base, Ctl,      \* the files generated always, and with --ctl, in order
  Gen,            \* the declarations generated into each file, in order
  Targets,        \* its target declarations
  MaxRuns,        \* bound: runs of the generator
  MaxEdits        \* bound: edits of the developer

Files == ToSet(Base \o Ctl)

Model == Base[1]            \* the file loadDTOFieldTags parses
Http == Ctl[Len(Ctl)]       \* the file with the handlers, one for each route

Routes == ToSet(Gen[Http])

Folders == {"module", "other"}

ASSUME GenAssumption ==
  /\ Base \in Seq(Files) \ {<<>>} /\ Ctl \in Seq(Files) \ {<<>>}
  /\ DOMAIN Gen = Files /\ DOMAIN Targets = Files
  /\ \A f \in Files : Gen[f] \in Seq(ToSet(Gen[f])) \ {<<>>} /\ IsInjective(Gen[f])
  /\ \A f \in Files : Targets[f] \subseteq ToSet(Gen[f]) /\ Head(Gen[f]) \in Targets[f]
  /\ \A f \in Files : Own \notin ToSet(Gen[f])
  /\ {"route", "postman"} \cap Files = {}
  /\ MaxRuns \in Nat /\ MaxEdits \in Nat /\ MaxFaults \in Nat

VARIABLES
  state,          \* of each Go file on disk
  decls,          \* its declarations
  usable,         \* has the route file an initRoute, and is the collection JSON?
  wired,          \* the import and the variable of the module in the route file
  regs,           \* its registrations
  folders,        \* the collection
  opts,           \* the flags of the run
  fresh,          \* history: has nothing been edited since the run began?
  partial,        \* history: files the developer left without something generated
  stripped,       \* history: and those he left with something, but no target
  wrote,          \* history: folders in which the developer wrote a request
  torn            \* history: files that a failing write left truncated

disk == <<state, decls, usable, wired, regs, folders>>
history == <<fresh, partial, stripped, wrote, torn>>
vars == <<disk, pc, todo, opts, result, runs, edits, faults, history>>

Decl == [name : {Own} \cup UNION {ToSet(Gen[f]) : f \in Files}, by : {"gen", "dev"}]
Reg == [route : Routes, fn : {"gen", Own}]
Flags == [force : BOOLEAN, ctl : BOOLEAN, postman : BOOLEAN, dryRun : BOOLEAN]

Names(f) == {decls[f][i].name : i \in DOMAIN decls[f]}

TypeOK ==
  /\ state \in [Files -> {"absent", "blank", "broken", "go"}]
  /\ \A f \in Files : decls[f] \in Seq(Decl) /\ (state[f] # "go" => decls[f] = <<>>)
  /\ usable \subseteq {"route", "postman"}
  /\ wired \subseteq {"import", "var"}
  /\ regs \in Seq(Reg)
  /\ DOMAIN folders \subseteq Folders
  /\ \A d \in DOMAIN folders : folders[d] \subseteq Routes \cup {Own}
  /\ pc \in {"idle", "tags", "files", "postman"}
  /\ todo = <<>> \/ IsSuffix(todo, Base) \/ IsSuffix(todo, Base \o Ctl)
  /\ opts \in Flags
  /\ result \in {"none", "ok", "err"}
  /\ runs \in 0 .. MaxRuns /\ edits \in 0 .. MaxEdits /\ faults \in 0 .. MaxFaults

Init ==
  /\ state = [f \in Files |-> "absent"]
  /\ decls = [f \in Files |-> <<>>]
  /\ usable \in {{"postman"}, {"route", "postman"}}
  /\ wired = {}
  /\ regs = <<>>
  /\ folders = <<>>
  /\ RunInit
  /\ opts = [force |-> FALSE, ctl |-> FALSE, postman |-> FALSE, dryRun |-> FALSE]
  /\ fresh = FALSE
  /\ partial = {} /\ stripped = {} /\ wrote = {} /\ torn = {}

-----------------------------------------------------------------------------
Run ==
  /\ pc = "idle" /\ runs < MaxRuns
  /\ runs' = runs + 1
  /\ opts' \in Flags
  /\ pc' = "tags"
  /\ todo' = IF opts'.ctl THEN Base \o Ctl ELSE Base
  /\ result' = "none"
  /\ fresh' = TRUE
  /\ UNCHANGED <<disk, edits, faults, partial, stripped, wrote, torn>>

(* loadDTOFieldTags, whose error ends the run even with --force.           *)
LoadTags ==
  /\ pc = "tags"
  /\ IF state[Model] \in {"absent", "go"}
     THEN pc' = "files" /\ UNCHANGED <<todo, result>>
     ELSE Ends("err")
  /\ UNCHANGED <<disk, opts, runs, edits, faults, history>>

LoadTagsFails ==
  /\ pc = "tags"
  /\ Fault
  /\ Ends("err")
  /\ UNCHANGED <<disk, opts, runs, edits, history>>

-----------------------------------------------------------------------------
Generated(f) == [i \in DOMAIN Gen[f] |-> [name |-> Gen[f][i], by |-> "gen"]]

(* Mutant of DeclExists: it looks for every target.                        *)
AllDeclsExist(f) == Targets[f] \subseteq Names(f)

DeclExists(f) == Targets[f] \cap Names(f) # {}

(* Mutant of Render: existing files are never merged into.                 *)
RenderWhole(f) == Generated(f)

(* What renderGeneratedFile returns for a file it wants to be written.     *)
Render(f) ==
  IF opts.force \/ state[f] # "go" THEN Generated(f) ELSE decls[f] \o Generated(f)

Wanted(f) == opts.force \/ state[f] \in {"absent", "blank"} \/ ~DeclExists(f)

WriteFile(f) ==
  /\ pc = "files" /\ todo # <<>> /\ f = Head(todo)
  /\ opts.force \/ state[f] # "broken"
  /\ todo' = Tail(todo)
  /\ IF Wanted(f) /\ ~opts.dryRun
     THEN /\ state' = [state EXCEPT ![f] = "go"]
          /\ decls' = [decls EXCEPT ![f] = Render(f)]
          /\ torn' = IF opts.force \/ state[f] # "go" THEN torn \ {f} ELSE torn
          /\ partial' = partial \ {f}
     ELSE UNCHANGED <<state, decls, torn, partial>>
  /\ UNCHANGED <<usable, wired, regs, folders, pc, opts, result, runs, edits,
                 faults, fresh, stripped, wrote>>

(* Mutant of Truncated: the file keeps its contents when a write fails.    *)
TruncatedKeeps(f) ==
  /\ Wanted(f) /\ ~opts.dryRun
  /\ torn' = torn \cup {f}
  /\ \E s \in {"blank", "broken"} : state' = [state EXCEPT ![f] = s]
  /\ UNCHANGED decls

(* os.WriteFile truncates the file before it writes.                       *)
Truncated(f) ==
  /\ Wanted(f) /\ ~opts.dryRun
  /\ torn' = torn \cup {f}
  /\ \/ /\ \E s \in {"blank", "broken"} : state' = [state EXCEPT ![f] = s]
        /\ decls' = [decls EXCEPT ![f] = <<>>]
     \/ /\ \E n \in 0 .. Len(Render(f)) - 1 :
             decls' = [decls EXCEPT ![f] = SubSeq(Render(f), 1, n)]
        /\ state' = [state EXCEPT ![f] = "go"]

(* Mutant of FileFails: the run goes on with the next file.                *)
FileFailsOnly(f) ==
  /\ pc = "files" /\ todo # <<>> /\ f = Head(todo)
  /\ Fault
  /\ todo' = Tail(todo)
  /\ UNCHANGED <<disk, pc, opts, result, runs, edits, history>>

(* The file cannot be read (--force does not) or written (--dry-run does   *)
(* not).                                                                   *)
FileFails(f) ==
  /\ pc = "files" /\ todo # <<>> /\ f = Head(todo)
  /\ ~(opts.force /\ opts.dryRun)
  /\ Fault
  /\ \/ UNCHANGED <<state, decls, torn>>
     \/ (opts.force \/ state[f] # "broken") /\ Truncated(f)
  /\ Ends("err")
  /\ UNCHANGED <<usable, wired, regs, folders, opts, runs, edits, fresh, partial,
                 stripped, wrote>>

(* The file cannot be parsed.                                              *)
InspectFails(f) ==
  /\ pc = "files" /\ todo # <<>> /\ f = Head(todo)
  /\ ~opts.force /\ state[f] = "broken"
  /\ Ends("err")
  /\ UNCHANGED <<disk, opts, runs, edits, faults, history>>

-----------------------------------------------------------------------------
(* The registrations mergeHTTPRouteFile adds: of every handler generated,  *)
(* whatever the file of handlers on disk holds.                            *)
Registration(i) == [route |-> Gen[Http][i], fn |-> "gen"]

Missing ==
  LET left == InOrder({i \in DOMAIN Gen[Http] : Registration(i) \notin ToSet(regs)})
  IN  [k \in DOMAIN left |-> Registration(left[k])]

AfterFiles == pc = "files" /\ todo = <<>>

PatchRoutes ==
  /\ AfterFiles
  /\ IF opts.ctl
     THEN /\ "route" \in usable
          /\ IF opts.dryRun
             THEN UNCHANGED <<wired, regs>>
             ELSE wired' = {"import", "var"} /\ regs' = regs \o Missing
     ELSE UNCHANGED <<wired, regs>>
  /\ pc' = "postman"
  /\ UNCHANGED <<state, decls, usable, folders, todo, opts, result, runs, edits,
                 faults, history>>

(* The route file is missing, has no initRoute, or cannot be read or       *)
(* written.                                                                *)
PatchRoutesFails ==
  /\ AfterFiles /\ opts.ctl
  /\ IF "route" \in usable THEN Fault ELSE UNCHANGED faults
  /\ \/ UNCHANGED <<usable, wired, regs, torn>>
     \/ /\ "route" \in usable /\ ~opts.dryRun
        /\ Missing # <<>> \/ wired # {"import", "var"}
        /\ usable' = usable \ {"route"}
        /\ wired' = {} /\ regs' = <<>>
        /\ torn' = torn \cup {"route"}
  /\ Ends("err")
  /\ UNCHANGED <<state, decls, folders, opts, runs, edits, fresh, partial, stripped,
                 wrote>>

-----------------------------------------------------------------------------
(* loadExistingPostmanFolder: the module's folder, or the only one.        *)
Existing ==
  IF "module" \in DOMAIN folders THEN folders["module"]
  ELSE IF Cardinality(DOMAIN folders) = 1
       THEN UNION {folders[d] : d \in DOMAIN folders}
       ELSE {}

(* buildPostmanCollection: the new collection has this folder alone.       *)
Collection == [d \in {"module"} |-> Routes \cup Existing]

PatchPostman ==
  /\ pc = "postman"
  /\ opts.postman => "postman" \in usable
  /\ folders' = IF opts.postman /\ ~opts.dryRun THEN Collection ELSE folders
  /\ Ends("ok")
  /\ UNCHANGED <<state, decls, usable, wired, regs, opts, runs, edits, faults, history>>

PatchPostmanFails ==
  /\ pc = "postman" /\ opts.postman
  /\ IF "postman" \in usable THEN Fault ELSE UNCHANGED faults
  /\ \/ UNCHANGED <<usable, folders, torn>>
     \/ /\ "postman" \in usable /\ ~opts.dryRun
        /\ usable' \in {usable, usable \ {"postman"}}
        /\ folders' = <<>>
        /\ torn' = torn \cup {"postman"}
  /\ Ends("err")
  /\ UNCHANGED <<state, decls, wired, regs, opts, runs, edits, fresh, partial,
                 stripped, wrote>>

-----------------------------------------------------------------------------
(* The developer, who does not edit while the generator runs.              *)

Edit ==
  /\ pc = "idle" /\ edits < MaxEdits
  /\ edits' = edits + 1
  /\ fresh' = FALSE
  /\ UNCHANGED <<usable, pc, todo, opts, result, runs, faults, torn>>

EditFile(f, d) ==
  LET names == {d[i].name : i \in DOMAIN d}
  IN  /\ Edit
      /\ state' = [state EXCEPT ![f] = "go"]
      /\ decls' = [decls EXCEPT ![f] = d]
      /\ partial' = IF ToSet(Gen[f]) \subseteq names THEN partial \ {f}
                    ELSE partial \cup {f}
      /\ stripped' = IF names \cap Targets[f] = {} /\ names \cap ToSet(Gen[f]) # {}
                     THEN stripped \cup {f} ELSE stripped
      /\ UNCHANGED <<wired, regs, folders, wrote>>

EditDecl(f, i) == EditFile(f, [decls[f] EXCEPT ![i].by = "dev"])

RemoveDecl(f, i) == EditFile(f, RemoveAt(decls[f], i))

(* He may well write what the generator would have written.                *)
AddDecl(f, n) ==
  /\ state[f] \in {"absent", "go"} /\ n \notin Names(f)
  /\ EditFile(f, Append(decls[f], [name |-> n, by |-> "dev"]))

(* Another handler for the route.                                          *)
OwnRoute(i) ==
  /\ Edit
  /\ regs' = [regs EXCEPT ![i].fn = Own]
  /\ UNCHANGED <<state, decls, wired, folders, partial, stripped, wrote>>

RemoveRoute(i) ==
  /\ Edit
  /\ regs' = RemoveAt(regs, i)
  /\ UNCHANGED <<state, decls, wired, folders, partial, stripped, wrote>>

WriteRequest(d) ==
  /\ Edit
  /\ "postman" \in usable
  /\ folders' = [e \in DOMAIN folders \cup {d} |->
                   (IF e \in DOMAIN folders THEN folders[e] ELSE {})
                     \cup (IF e = d THEN {Own} ELSE {})]
  /\ wrote' = wrote \cup {d}
  /\ UNCHANGED <<state, decls, wired, regs, partial, stripped>>

Ended == pc = "idle" /\ runs = MaxRuns /\ UNCHANGED vars

Next ==
  \/ Run \/ LoadTags \/ LoadTagsFails
  \/ \E f \in Files : WriteFile(f) \/ FileFails(f) \/ InspectFails(f)
  \/ PatchRoutes \/ PatchRoutesFails \/ PatchPostman \/ PatchPostmanFails
  \/ \E f \in Files : \/ \E n \in ToSet(Gen[f]) \cup {Own} : AddDecl(f, n)
                     \/ \E i \in DOMAIN decls[f] : EditDecl(f, i) \/ RemoveDecl(f, i)
  \/ \E i \in DOMAIN regs : OwnRoute(i) \/ RemoveRoute(i)
  \/ \E d \in Folders : WriteRequest(d)
  \/ Ended

Spec == Init /\ [][Next]_vars

-----------------------------------------------------------------------------
(* A run without --force keeps what is in a Go file, written or edited by  *)
(* the developer or not, in its order, and adds behind it; and so it does  *)
(* with routes, except in a file whose write fails half way.               *)
KeepsUserCode ==
  pc # "idle" =>
    /\ \A f \in Files : opts.force \/ f \in torn' \/ IsPrefix(decls[f], decls'[f])
    /\ "route" \in torn' \/ IsPrefix(regs, regs')

(* No file gets a declaration twice, except one that the developer left    *)
(* without any target: merging appends everything to it.                   *)
NeverTwice ==
  \A f \in Files \ stripped : IsInjective([i \in DOMAIN decls[f] |-> decls[f][i].name])

(* A route is not registered twice, except with the developer's handler.   *)
RegisteredOnce ==
  \A i, j \in DOMAIN regs :
    i # j /\ regs[i].route = regs[j].route => Own \in {regs[i].fn, regs[j].fn}

(* Whatever fails in which run, every generated registration names a       *)
(* handler that is there, because handlers are written before routes; only *)
(* the developer and truncating writes leave handlers out.                 *)
RoutesHaveHandlers ==
  \A i \in DOMAIN regs :
    \/ regs[i].fn = Own \/ regs[i].route \in Names(Http)
    \/ Http \in partial \cup torn

(* A run that answers ok leaves the module complete, whatever failed runs  *)
(* have left behind: everything generated is there, except in a file that  *)
(* had a target although the developer, or a truncating write, had left    *)
(* something else out.                                                     *)
OkMeansComplete ==
  pc = "idle" /\ result = "ok" /\ fresh /\ ~opts.dryRun =>
    /\ \A f \in IF opts.ctl THEN Files ELSE ToSet(Base) :
         \/ ToSet(Gen[f]) \subseteq Names(f)
         \/ f \in partial \cup torn /\ DeclExists(f)
    /\ opts.ctl => wired = {"import", "var"} /\ Missing = <<>>
    /\ opts.postman => Routes \subseteq folders["module"]

(* The requests the developer wrote in the module's folder are kept.       *)
RequestsKept ==
  "module" \in wrote /\ "postman" \notin torn => Own \in folders["module"]

(* README.md: "generate repositories, controller scaffolds, and Postman    *)
(* collections from a SQL DDL file, non-destructively".  A request the     *)
(* developer wrote in the collection is not lost, wherever he wrote it,    *)
(* unless to a run with --force, of which README.md says that it           *)
(* overwrites everything.                                                  *)
NonDestructive ==
  wrote # {} /\ "postman" \notin torn /\ ~opts.force =>
    \E d \in DOMAIN folders : Own \in folders[d]
=============================================================================
