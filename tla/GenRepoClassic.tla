---------------------------- MODULE GenRepoClassic ----------------------------
(***************************************************************************)
(* The classic repository generator (src/cmd/gen-repo-classic): for each   *)
(* table of a run it writes the files of the table's module, appends the   *)
(* module's interfaces to the registries of the service, registers its     *)
(* routes, adds its use case to NewGatewayHandler (field, parameter and    *)
(* literal) in handler.go and to the call of NewGatewayHandler (variable   *)
(* and argument) in services.go, and rebuilds its Postman collection.  Any *)
(* step may fail and end the run, and what was written stays.              *)
(*                                                                         *)
(* A module's file is how it reads and whose code it has: generated,       *)
(* a part of it, the developer's own, or the struct tags he changed.       *)
(***************************************************************************)
EXTENDS GeneratorRun, PostmanCollection

CONSTANTS
  Modules,        \* the modules of the tables
  BaseFiles, CtlFiles,  \* a module's files, always and with --ctl, in order
  Queues,         \* the tables a run may be given, as their modules
  FlagSets,       \* the flags it may be given
  Collected,      \* the module whose collection is modelled
  MaxClassicRuns, \* bound: runs of the generator
  MaxClassicEdits \* bound: edits of the developer

VARIABLES
  file,           \* of each module, its files
  intact,         \* the shared files that have what is patched in them
  ifaces,         \* the interfaces in the two registries
  routes,         \* of each module, its import and registrations in route.go
  handler,        \* handler.go: the fields, parameters and literal's elements
  services,       \* services.go: imports, variables and arguments
  queue,          \* the modules of the run's tables, the present one first
  flags,
  urlPath,        \* its --url-path, which matters only with --postman
  tags,           \* has the DTO the developer's tags, as the run has read it?
  incomplete,     \* history: of a module, files and registries that lack
                  \* something generated
  split,          \* history: modules at which a run has ended with parameters
                  \* and arguments different
  covered         \* history: modules of the last run, if nothing was edited since

project == <<file, intact, ifaces, routes, handler, services>>
runInput == <<queue, flags, urlPath, tags>>
counters == <<runs, edits, faults>>
classicHistory == <<incomplete, split, covered>>
gvars == <<project, postman, runInput, runVars, classicHistory>>

ModuleFiles == ToSet(BaseFiles \o CtlFiles)
Dto == BaseFiles[1]
Controller == Last(CtlFiles)     \* the file with the handlers
Shared == {"repository", "usecase", "route", "handler", "services"}
Registries == <<"repository", "usecase">>
Registered == {"import", "index", "add"}

(* A run is given at least one table, no table's module has the name that  *)
(* stands for what the developer adds, and a registry is not a module's.   *)
ASSUME ClassicAssumption ==
  /\ BaseFiles \in Seq(ModuleFiles) \ {<<>>} /\ CtlFiles \in Seq(ModuleFiles) \ {<<>>}
  /\ Queues \subseteq Seq(Modules) \ {<<>>}
  /\ UrlPaths \subseteq Seq(Segments)
  /\ Own \notin Modules
  /\ ModuleFiles \cap ToSet(Registries) = {}

File == [reads : {"absent", "blank", "broken", "go"},
         has : SUBSET {"gen", "part", "own", "tag"}]

Handlers == [fields : SUBSET (Modules \cup {Own}), params : Seq(Modules \cup {Own}),
             literal : SUBSET (Modules \cup {Own})]
Services == [imports : SUBSET Modules, ctrls : SUBSET (Modules \cup {Own}),
             args : Seq(Modules \cup {Own})]

ClassicTypeOK ==
  /\ file \in [Modules -> [ModuleFiles -> File]]
  /\ \A m \in Modules, f \in ModuleFiles :
       /\ file[m][f].reads # "go" => file[m][f].has = {}
       /\ "tag" \in file[m][f].has => f = Dto /\ "gen" \in file[m][f].has
  /\ intact \subseteq Shared
  /\ ifaces \in [ToSet(Registries) -> Seq(Modules)]
  /\ routes \in [Modules -> SUBSET Registered]
  /\ handler \in Handlers
  /\ services \in Services
  /\ pc \in {"idle", "tags", "files", "registries", "route", "handler", "services", "postman"}
  /\ todo \in Seq(ModuleFiles \cup ToSet(Registries))
  /\ queue \in Seq(Modules) /\ (queue = <<>> <=> pc = "idle")
  /\ flags \in FlagSets \cup {{}} /\ urlPath \in UrlPaths \cup {<<>>} /\ tags \in BOOLEAN
  /\ result \in {"none", "ok", "err"}
  /\ incomplete \subseteq Modules \X (ModuleFiles \cup ToSet(Registries))
  /\ split \subseteq Modules
  /\ covered \subseteq Modules
  /\ PostmanTypeOK

Empty == [reads |-> "absent", has |-> {}]

ClassicInit ==
  /\ file = [m \in Modules |-> [f \in ModuleFiles |-> Empty]]
  /\ intact = Shared
  /\ ifaces = [r \in ToSet(Registries) |-> <<>>]
  /\ routes = [m \in Modules |-> {}]
  /\ handler = [fields |-> {}, params |-> <<>>, literal |-> {}]
  /\ services = [imports |-> {}, ctrls |-> {}, args |-> <<>>]
  /\ RunInit /\ queue = <<>>
  /\ flags = {} /\ urlPath = <<>> /\ tags = FALSE
  /\ incomplete = {} /\ split = {} /\ covered = {}
  /\ PostmanInit

-----------------------------------------------------------------------------
Given(flag) == flag \in flags

Writes == ~Given("dryRun")

Now == Head(queue)

EndsRun(r) == Ends(r) /\ queue' = <<>>

ClassicRun ==
  /\ pc = "idle" /\ runs < MaxClassicRuns
  /\ runs' = runs + 1
  /\ queue' \in Queues
  /\ flags' \in FlagSets
  /\ urlPath' \in IF "postman" \in flags' THEN UrlPaths ELSE {<<>>}
  /\ pc' = "tags" /\ result' = "none"
  /\ covered' = ToSet(queue')
  /\ UNCHANGED <<project, postman, todo, tags, edits, faults, incomplete, split>>

(* loadDTOFieldTags: whatever the flags, an unreadable DTO ends the run.   *)
ReadTags ==
  /\ pc = "tags"
  /\ IF file[Now][Dto].reads \in {"absent", "go"}
     THEN /\ tags' = ("tag" \in file[Now][Dto].has)
          /\ pc' = "files"
          /\ todo' = IF Given("ctl") THEN BaseFiles \o CtlFiles ELSE BaseFiles
          /\ UNCHANGED <<queue, result>>
     ELSE EndsRun("err") /\ UNCHANGED tags
  /\ UNCHANGED <<project, postman, flags, urlPath, counters, classicHistory>>

(* It cannot be read, or the next table's definition cannot.               *)
ReadTagsFails ==
  /\ pc = "tags" /\ Fault
  /\ EndsRun("err")
  /\ UNCHANGED <<project, postman, flags, urlPath, tags, runs, edits, classicHistory>>

-----------------------------------------------------------------------------
(* buildDTOFile merges the tags it has read into those it generates.       *)
Whole(f) ==
  [reads |-> "go", has |-> {"gen"} \cup (IF f = Dto /\ tags THEN {"tag"} ELSE {})]

Exists(f) == file[Now][f].reads # "absent"

(* Mutant of TargetFound: anything in the file counts.                     *)
TargetFoundAny(f) == file[Now][f].has # {}

TargetFound(f) == file[Now][f].has \cap {"gen", "part"} # {}

(* renderGeneratedFile, for a file that --hard does not skip.              *)
Refused(f) ==
  IF Given("hard") THEN ~Given("force") /\ Exists(f)
  ELSE file[Now][f].reads = "broken"

Skipped(f) == ~Given("hard") /\ ~Given("force") /\ TargetFound(f)

Rendered(f) ==
  IF \/ Given("hard") \/ file[Now][f].reads \in {"absent", "blank"}
     \/ Given("force") /\ TargetFound(f)
  THEN Whole(f)
  ELSE [reads |-> "go", has |-> file[Now][f].has \cup {"gen"}]

WriteModuleFile(f) ==
  /\ pc = "files" /\ todo # <<>> /\ f = Head(todo)
  /\ ~Refused(f)
  /\ todo' = Tail(todo)
  /\ IF Skipped(f) \/ ~Writes
     THEN UNCHANGED <<file, incomplete>>
     ELSE /\ file' = [file EXCEPT ![Now][f] = Rendered(f)]
          /\ incomplete' = incomplete \ {<<Now, f>>}
  /\ UNCHANGED <<intact, ifaces, routes, handler, services, postman, pc, runInput,
                 result, counters, split, covered>>

FileRefused(f) ==
  /\ pc = "files" /\ todo # <<>> /\ f = Head(todo)
  /\ Refused(f)
  /\ EndsRun("err")
  /\ UNCHANGED <<project, postman, flags, urlPath, tags, counters, classicHistory>>

(* A file cut by a failing write holds a part of what it should.           *)
Cut(f) ==
  {[reads |-> r, has |-> {}] : r \in {"blank", "broken"}}
    \cup {[reads |-> "go", has |-> h] :
            h \in SUBSET ((Rendered(f).has \ {"gen", "tag"})
                            \cup (IF f = Dto THEN {} ELSE {"part"}))}

ModuleFileFails(f) ==
  /\ pc = "files" /\ todo # <<>> /\ f = Head(todo)
  /\ ~(Given("hard") /\ Given("force") /\ Given("dryRun"))
  /\ Fault
  /\ \/ UNCHANGED <<file, incomplete>>
     \/ /\ ~Refused(f) /\ ~Skipped(f) /\ Writes
        /\ \E c \in Cut(f) : file' = [file EXCEPT ![Now][f] = c]
        /\ incomplete' = incomplete \cup {<<Now, f>>}
  /\ EndsRun("err")
  /\ UNCHANGED <<intact, ifaces, routes, handler, services, postman, flags, urlPath,
                 tags, runs, edits, split, covered>>

-----------------------------------------------------------------------------
(* The steps after the module's files, each on a shared file.              *)

AddTo(s, m) == IF m \in ToSet(s) THEN s ELSE Append(s, m)

(* Mutant of AddArg: the argument goes in front.                           *)
AddArgFirst(s, m) == IF m \in ToSet(s) THEN s ELSE <<m>> \o s

(* ensureRegisterServiceGatewayArg.                                        *)
AddArg(s, m) == IF m \in ToSet(s) THEN s ELSE Append(s, m)

(* updateRegistryFiles reads both registries before either is written.     *)
ReadRegistries ==
  /\ pc = "files" /\ todo = <<>>
  /\ "repository" \in intact /\ (Given("ctl") => "usecase" \in intact)
  /\ pc' = "registries"
  /\ todo' = IF Given("ctl") THEN Registries ELSE <<"repository">>
  /\ UNCHANGED <<project, postman, runInput, result, counters, classicHistory>>

WriteRegistry(r) ==
  /\ pc = "registries" /\ todo # <<>> /\ r = Head(todo)
  /\ ifaces' = IF Writes THEN [ifaces EXCEPT ![r] = AddTo(@, Now)] ELSE ifaces
  /\ incomplete' = IF Writes THEN incomplete \ {<<Now, r>>} ELSE incomplete
  /\ todo' = Tail(todo)
  /\ UNCHANGED <<file, intact, routes, handler, services, postman, pc, runInput, result,
                 counters, split, covered>>

RegistriesDone ==
  /\ pc = "registries" /\ todo = <<>>
  /\ pc' = IF Given("ctl") THEN "route" ELSE "postman"
  /\ UNCHANGED <<project, postman, todo, runInput, result, counters, classicHistory>>

RoutesPatched == [routes EXCEPT ![Now] = Registered]

RegisterRoutes ==
  /\ pc = "route" /\ "route" \in intact
  /\ routes' = IF Writes THEN RoutesPatched ELSE routes
  /\ pc' = "handler"
  /\ UNCHANGED <<file, intact, ifaces, handler, services, postman, todo, runInput, result,
                 counters, classicHistory>>

(* Field, parameter and literal are looked for separately.                 *)
HandlerPatched ==
  [fields |-> handler.fields \cup {Now}, params |-> AddTo(handler.params, Now),
   literal |-> handler.literal \cup {Now}]

PatchHandler ==
  /\ pc = "handler" /\ "handler" \in intact
  /\ handler' = IF Writes THEN HandlerPatched ELSE handler
  /\ pc' = "services"
  /\ UNCHANGED <<file, intact, ifaces, routes, services, postman, todo, runInput, result,
                 counters, classicHistory>>

ServicesPatched ==
  [imports |-> services.imports \cup {Now}, ctrls |-> services.ctrls \cup {Now},
   args |-> AddArg(services.args, Now)]

(* A run of the module a run has ended at settles the order again.         *)
PatchServices ==
  /\ pc = "services" /\ "services" \in intact
  /\ services' = IF Writes THEN ServicesPatched ELSE services
  /\ split' = IF services'.args = handler.params THEN {} ELSE split
  /\ pc' = "postman"
  /\ UNCHANGED <<file, intact, ifaces, routes, handler, postman, todo, runInput, result,
                 counters, incomplete, covered>>

(* The file the run has come to.                                           *)
At ==
  CASE pc = "files" -> IF "repository" \in intact /\ Given("ctl") THEN "usecase"
                       ELSE "repository"
    [] pc = "registries" -> IF todo = <<>> THEN "none" ELSE Head(todo)
    [] OTHER -> pc

(* A failing write cuts the file.  What it leaves does not parse or lacks  *)
(* what is patched in it; or it still parses, a registry with the first of *)
(* its interfaces, another file with all that is patched in it.            *)
CutShort ==
  intact' = intact \ {At} /\ UNCHANGED <<ifaces, routes, handler, services, incomplete>>

CutRegistry ==
  /\ pc = "registries" /\ Now \notin ToSet(ifaces[At])
  /\ \E kept \in Prefixes(Append(ifaces[At], Now)) :
       /\ ifaces' = [ifaces EXCEPT ![At] = kept]
       /\ incomplete' = incomplete \cup {<<m, At>> : m \in ToSet(ifaces[At]) \ ToSet(kept)}
  /\ UNCHANGED <<intact, routes, handler, services>>

CutBehind ==
  /\ pc \in {"route", "handler", "services"}
  /\ routes' = IF pc = "route" THEN RoutesPatched ELSE routes
  /\ handler' = IF pc = "handler" THEN HandlerPatched ELSE handler
  /\ services' = IF pc = "services" THEN ServicesPatched ELSE services
  /\ UNCHANGED <<intact, ifaces, incomplete>>

(* A shared file cannot be read or written, does not parse or lacks what   *)
(* is to be patched.                                                       *)
SharedFails ==
  /\ At \in Shared /\ (pc = "files" => todo = <<>>)
  /\ IF At \in intact THEN Fault ELSE UNCHANGED faults
  /\ \/ UNCHANGED <<intact, ifaces, routes, handler, services, incomplete>>
     \/ /\ At \in intact /\ pc # "files" /\ Writes
        /\ CutShort \/ CutRegistry \/ CutBehind
  /\ split' = IF services'.args = handler'.params THEN {}
              ELSE IF pc \in {"handler", "services"} THEN split \cup {Now} ELSE split
  /\ EndsRun("err")
  /\ UNCHANGED <<file, postman, flags, urlPath, tags, runs, edits, covered>>

(* With --postman the module's collection is rebuilt; that of one module   *)
(* is modelled.                                                            *)
Collects == Given("postman") /\ Now = Collected

RebuildCollection ==
  /\ pc = "postman"
  /\ Collects => json # "broken"
  /\ IF Collects /\ Writes THEN PatchCollection(urlPath) ELSE UNCHANGED postman
  /\ IF Len(queue) = 1 THEN EndsRun("ok")
     ELSE pc' = "tags" /\ queue' = Tail(queue) /\ UNCHANGED <<todo, result>>
  /\ UNCHANGED <<project, flags, urlPath, tags, counters, classicHistory>>

RebuildFails ==
  /\ pc = "postman" /\ Given("postman")
  /\ IF Collects /\ json = "broken" THEN UNCHANGED faults ELSE Fault
  /\ IF Collects THEN CollectionFails(~Writes) ELSE UNCHANGED postman
  /\ EndsRun("err")
  /\ UNCHANGED <<project, flags, urlPath, tags, runs, edits, classicHistory>>

-----------------------------------------------------------------------------
(* The developer, who does not edit while the generator runs.              *)

ClassicEdit ==
  /\ pc = "idle" /\ edits < MaxClassicEdits
  /\ edits' = edits + 1
  /\ covered' = {}
  /\ UNCHANGED <<pc, todo, runInput, result, runs, faults, split>>

EditModuleFile(m, f, has) ==
  /\ ClassicEdit
  /\ file' = [file EXCEPT ![m][f] = [reads |-> "go", has |-> has]]
  /\ incomplete' = IF "gen" \in has THEN incomplete ELSE incomplete \cup {<<m, f>>}
  /\ UNCHANGED <<intact, ifaces, routes, handler, services, postman>>

AddOwn(m, f) ==
  file[m][f].reads # "broken" /\ EditModuleFile(m, f, file[m][f].has \cup {"own"})

ChangeTag(m) ==
  "gen" \in file[m][Dto].has /\ EditModuleFile(m, Dto, file[m][Dto].has \cup {"tag"})

RemoveGenerated(m, f) ==
  file[m][f].reads = "go" /\ EditModuleFile(m, f, file[m][f].has \cap {"own"})

(* A use case of his own in the constructor and in its call.               *)
AddUseCase ==
  /\ ClassicEdit
  /\ Own \notin handler.fields /\ {"handler", "services"} \subseteq intact
  /\ handler' = [fields |-> handler.fields \cup {Own}, params |-> Append(handler.params, Own),
                 literal |-> handler.literal \cup {Own}]
  /\ services' = [services EXCEPT !.ctrls = @ \cup {Own}, !.args = Append(@, Own)]
  /\ UNCHANGED <<file, intact, ifaces, routes, postman, incomplete>>

(* The module is taken out of the service.                                 *)
Unwire(m) ==
  /\ ClassicEdit
  /\ m \in handler.fields /\ {"handler", "services"} \subseteq intact
  /\ handler' = [fields |-> handler.fields \ {m},
                 params |-> Without(handler.params, m),
                 literal |-> handler.literal \ {m}]
  /\ services' = [imports |-> services.imports \ {m}, ctrls |-> services.ctrls \ {m},
                  args |-> Without(services.args, m)]
  /\ routes' = [routes EXCEPT ![m] = {}]
  /\ UNCHANGED <<file, intact, ifaces, postman, incomplete>>

DropRoute(m, r) ==
  /\ ClassicEdit
  /\ r \in routes[m] \ {"import"}
  /\ routes' = [routes EXCEPT ![m] = @ \ {r}]
  /\ UNCHANGED <<file, intact, ifaces, handler, services, postman, incomplete>>

DropField(m) ==
  /\ ClassicEdit
  /\ m \in handler.fields /\ "handler" \in intact
  /\ handler' = [handler EXCEPT !.fields = @ \ {m}]
  /\ UNCHANGED <<file, intact, ifaces, routes, services, postman, incomplete>>

(* He takes the last good version of a truncated file back.                *)
Restore(s) ==
  /\ ClassicEdit
  /\ s \notin intact
  /\ intact' = intact \cup {s}
  /\ UNCHANGED <<file, ifaces, routes, handler, services, postman, incomplete>>

EditCollection ==
  /\ ClassicEdit
  /\ EditItems
  /\ UNCHANGED <<project, incomplete>>

ClassicEnded == pc = "idle" /\ runs = MaxClassicRuns /\ UNCHANGED gvars

ClassicNext ==
  \/ ClassicRun \/ ReadTags \/ ReadTagsFails
  \/ \E f \in ModuleFiles : WriteModuleFile(f) \/ FileRefused(f) \/ ModuleFileFails(f)
  \/ ReadRegistries \/ RegistriesDone \/ \E r \in ToSet(Registries) : WriteRegistry(r)
  \/ RegisterRoutes \/ PatchHandler \/ PatchServices \/ SharedFails
  \/ RebuildCollection \/ RebuildFails
  \/ \E m \in Modules :
       \/ ChangeTag(m) \/ Unwire(m) \/ DropField(m)
       \/ \E f \in ModuleFiles : AddOwn(m, f) \/ RemoveGenerated(m, f)
       \/ \E r \in Registered : DropRoute(m, r)
  \/ AddUseCase \/ EditCollection \/ \E s \in Shared : Restore(s)
  \/ ClassicEnded

ClassicSpec == ClassicInit /\ [][ClassicNext]_gvars

-----------------------------------------------------------------------------
(* A run keeps the developer's code unless it is forced or a write fails   *)
(* half way, and even forced the tags he gave the DTO's fields; and it     *)
(* never moves or drops parameters and arguments of NewGatewayHandler.     *)
ClassicKeepsUserCode ==
  pc # "idle" =>
    /\ \A m \in Modules, f \in ModuleFiles :
         <<m, f>> \in incomplete'
           \/ /\ "own" \in file[m][f].has => Given("force") \/ "own" \in file'[m][f].has
              /\ "tag" \in file[m][f].has => "tag" \in file'[m][f].has
    /\ IsPrefix(handler.params, handler'.params)
    /\ IsPrefix(services.args, services'.args)

(* The call of NewGatewayHandler passes the use cases in the order of its  *)
(* parameters, although the two files are patched one after the other,     *)
(* each by appending; a run that ended at one of them may break this.      *)
ArgsMatchParams == pc = "idle" /\ split = {} => services.args = handler.params

(* Whatever failed when, what the shared files name is there: a registered *)
(* handler, the interface of a parameter, the constructor and the variable *)
(* of an argument; unless the developer or a truncating write removed it,  *)
(* which a registry shows only by what it lacks.                           *)
ClassicResolves ==
  \A m \in Modules :
    /\ routes[m] # {} => "import" \in routes[m]
                         /\ ("gen" \in file[m][Controller].has \/ <<m, Controller>> \in incomplete)
    /\ m \in ToSet(handler.params) =>
         /\ m \in handler.literal
         /\ m \in ToSet(ifaces["usecase"]) \/ <<m, "usecase">> \in incomplete
    /\ m \in ToSet(services.args) =>
         /\ m \in services.ctrls \cap services.imports
         /\ \A f \in ToSet(CtlFiles) : "gen" \in file[m][f].has \/ <<m, f>> \in incomplete

(* A run that ends ok leaves the modules of its tables complete, whatever  *)
(* failed runs and edits have left; only a file that had one of its        *)
(* targets although it was incomplete stays as it is.                      *)
ClassicComplete ==
  pc = "idle" /\ result = "ok" /\ Writes =>
    \A m \in covered :
      /\ \A f \in IF Given("ctl") THEN ModuleFiles ELSE ToSet(BaseFiles) :
           \/ "gen" \in file[m][f].has
           \/ "part" \in file[m][f].has /\ <<m, f>> \in incomplete
      /\ m \in ToSet(ifaces["repository"])
      /\ Given("ctl") =>
           /\ m \in ToSet(ifaces["usecase"]) /\ routes[m] = Registered
           /\ m \in handler.fields \cap ToSet(handler.params) \cap handler.literal
           /\ m \in services.imports \cap services.ctrls \cap ToSet(services.args)
      /\ Given("postman") /\ m = Collected => json = "json" /\ CollectionComplete

(* No interface, parameter or argument is there twice.                     *)
ClassicNeverTwice ==
  /\ IsInjective(handler.params) /\ IsInjective(services.args)
  /\ \A r \in ToSet(Registries) : IsInjective(ifaces[r])
=============================================================================
