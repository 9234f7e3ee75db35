----------------------------- MODULE ClassicProofs -----------------------------
(***************************************************************************)
(* Proofs about the classic repository generator (GenRepoClassic), the     *)
(* Postman collection it rebuilds (PostmanCollection) and what it has in   *)
(* common with the other one (Generators): for any modules, files, tables  *)
(* and flags of the runs, prefixes, and numbers of runs, edits and faults. *)
(*                                                                         *)
(* A run keeps account of the module it is at (NowInv) and of those it has *)
(* left behind (DoneInv): each shared file is patched after what it names  *)
(* was generated.  handler.go and services.go agree outside of the two     *)
(* steps that patch them, unless a run ended between the two (OrderInv).   *)
(* The collection's folder is found whatever the developer does to it      *)
(* (FolderInv), so that a rebuild starts from what he wrote (WrittenInv).  *)
(***************************************************************************)
EXTENDS Generators, ToolsProofs

-----------------------------------------------------------------------------
(* What a run has done of a module that it has left behind.                *)
RunFiles == IF Given("ctl") THEN BaseFiles \o CtlFiles ELSE BaseFiles

RunRegistries == IF Given("ctl") THEN {"repository", "usecase"} ELSE {"repository"}

FileSettled(m, f) ==
  "gen" \in file[m][f].has \/ ("part" \in file[m][f].has /\ <<m, f>> \in incomplete)

FilesSettled(m) == \A f \in ToSet(RunFiles) : FileSettled(m, f)

InRegistries(m) == \A r \in RunRegistries : m \in ToSet(ifaces[r])

InHandler(m) == m \in handler.fields \cap ToSet(handler.params) \cap handler.literal

InServices(m) == m \in services.imports \cap services.ctrls \cap ToSet(services.args)

ModuleDone(m) ==
  /\ FilesSettled(m) /\ InRegistries(m)
  /\ Given("ctl") => routes[m] = Registered /\ InHandler(m) /\ InServices(m)
  /\ Given("postman") /\ m = Collected => json = "json" /\ CollectionComplete

DoneInv ==
  (pc # "idle" \/ result = "ok") /\ Writes =>
    \A m \in covered \ ToSet(queue) : ModuleDone(m)

(* And of the present one.                                                 *)
NowInv ==
  pc # "idle" /\ Writes =>
    /\ pc = "files" => \A f \in ToSet(RunFiles) \ ToSet(todo) : FileSettled(Now, f)
    /\ pc \notin {"tags", "files"} => FilesSettled(Now)
    /\ pc = "registries" => \A r \in RunRegistries \ ToSet(todo) : Now \in ToSet(ifaces[r])
    /\ pc \in {"route", "handler", "services", "postman"} => InRegistries(Now)
    /\ pc \in {"handler", "services", "postman"} /\ Given("ctl") => routes[Now] = Registered
    /\ pc \in {"services", "postman"} /\ Given("ctl") => InHandler(Now)
    /\ pc = "postman" /\ Given("ctl") => InServices(Now)

(* The files left to the run are its own, and the controllers' steps are   *)
(* for runs with --ctl.                                                    *)
ControlInv ==
  /\ pc = "files" => todo \in Seq(ToSet(RunFiles))
  /\ pc = "registries" => todo \in Seq(RunRegistries)
  /\ pc \in {"route", "handler", "services"} => Given("ctl")
  /\ pc \notin {"files", "registries"} => todo = <<>>

(* Part of a file is left only where something is missing.                 *)
PartInv ==
  \A m \in Modules, f \in ModuleFiles : "part" \in file[m][f].has => FileSettled(m, f)

(* The run has seen the developer's tags before it writes the DTO.         *)
TagsInv == pc = "files" /\ "tag" \in file[Now][Dto].has => tags

(* Unless a run has ended with handler.go and services.go different, they  *)
(* name the same use cases in the same order, but for the one that is      *)
(* being added.                                                            *)
OrderInv ==
  split = {} =>
    IF pc = "services" /\ Writes THEN handler.params = AddTo(services.args, Now)
    ELSE handler.params = services.args

OwnInv == Own \in ToSet(handler.params) \cup ToSet(services.args) => Own \in handler.fields

(* The collection has the folder a run has built in front, with every      *)
(* generated request in it, and none of the others has its name.           *)
FolderInv ==
  json = "json" =>
    /\ items # <<>> /\ \A i \in DOMAIN items : i # 1 => items[i].name = "other"
    /\ link = id
    /\ \A n \in ToSet(ModelRoutes) : Named(items[1].requests, n) # {}

(* What the developer wrote into the folder is there as long as no write   *)
(* has failed.                                                             *)
Kept(rs, w, d, p, l, x) ==
  LET view == Named(rs, "view")
  IN  /\ "view" \notin d => \A i, j \in view : i = j
      /\ ~p => \A i \in view : Len(rs[i].path) = 3
      /\ ~l =>
           /\ "request" \in w => Named(rs, "own") # {}
           /\ "rest" \in w /\ "view" \notin d => \E i \in view : rs[i].rest = "dev"
           /\ "value" \in w /\ "view" \notin d /\ ~p => \E i \in view : Last(rs[i].path) = "dev"
           /\ "id" \in w => x = DevId

WrittenInv ==
  /\ json = "absent" => written = {}
  /\ json \in {"blank", "broken"} => lost
  /\ json = "json" => Kept(items[1].requests, written, doubled, prefixed, lost, id)

ClassicIInv ==
  /\ ClassicTypeOK /\ ControlInv /\ DoneInv /\ NowInv /\ PartInv /\ TagsInv
  /\ OrderInv /\ OwnInv /\ FolderInv /\ WrittenInv
  /\ ClassicResolves /\ ClassicNeverTwice

-----------------------------------------------------------------------------
(* Sequences.                                                              *)

LEMMA WithoutIs ==
  ASSUME NEW T, NEW s \in Seq(T), NEW m
  PROVE  /\ Without(s, m) \in Seq(T) /\ ToSet(Without(s, m)) = ToSet(s) \ {m}
         /\ IsInjective(s) => IsInjective(Without(s, m))
<1> DEFINE S == {i \in DOMAIN s : s[i] # m}
           p == Picked(s, S)
<1>1. /\ p \in Seq(T)
      /\ \A k \in 1 .. Len(p) : \E i \in S : p[k] = s[i]
      /\ \A i \in S : \E k \in 1 .. Len(p) : p[k] = s[i]
      /\ IsInjective(s) => IsInjective(p)
  <2>1. S \in SUBSET DOMAIN s
    OBVIOUS
  <2> HIDE DEF S
  <2> QED BY <2>1, PickedIs
<1>2. Without(s, m) = p
  BY DEF Without
<1> HIDE DEF p
<1>3. ToSet(p) = {p[k] : k \in 1 .. Len(p)} /\ ToSet(s) = {s[i] : i \in DOMAIN s}
  BY <1>1, SeqIs DEF ToSet
<1>4. ToSet(p) = ToSet(s) \ {m}
  BY <1>1, <1>3
<1> QED BY <1>1, <1>2, <1>4

LEMMA AppendIs ==
  ASSUME NEW T, NEW s \in Seq(T), NEW m \in T
  PROVE  /\ Append(s, m) \in Seq(T) /\ ToSet(Append(s, m)) = ToSet(s) \cup {m}
         /\ IsPrefix(s, Append(s, m)) /\ IsPrefix(s, s)
         /\ IsInjective(s) /\ m \notin ToSet(s) => IsInjective(Append(s, m))
<1> DEFINE a == Append(s, m)
<1>1. /\ Len(s) \in Nat /\ \A i \in 1 .. Len(s) : s[i] \in T
      /\ ToSet(s) = {s[i] : i \in 1 .. Len(s)}
      /\ IsInjective(s) <=> \A i, j \in 1 .. Len(s) : s[i] = s[j] => i = j
  BY SeqIs
<1>2. /\ a \in Seq(T) /\ Len(a) = Len(s) + 1 /\ a[Len(s) + 1] = m
      /\ \A i \in 1 .. Len(s) : a[i] = s[i]
  BY <1>1, AppendProperties
<1>3. IsPrefix(s, a) /\ IsPrefix(s, s)
  <2>1. <<m>> \in Seq(T) /\ a = s \o <<m>>
    <3>1. Len(<<m>>) = 1 /\ <<m>>[1] = m /\ <<m>> \in Seq(T)
      OBVIOUS
    <3>2. /\ s \o <<m>> \in Seq(T) /\ Len(s \o <<m>>) = Len(s) + 1
          /\ \A i \in 1 .. Len(s) + 1 :
               (s \o <<m>>)[i] = IF i <= Len(s) THEN s[i] ELSE <<m>>[i - Len(s)]
      BY <3>1, ConcatProperties
    <3>3. \A i \in 1 .. Len(s) + 1 : (s \o <<m>>)[i] = a[i]
      <4> TAKE i \in 1 .. Len(s) + 1
      <4>1. CASE i <= Len(s)
        BY <1>1, <1>2, <3>2, <4>1
      <4>2. CASE i = Len(s) + 1
        BY <1>1, <1>2, <3>1, <3>2, <4>2
      <4> QED BY <1>1, <4>1, <4>2
    <3> HIDE DEF a
    <3> QED BY <1>1, <1>2, <3>1, <3>2, <3>3, SeqEqual
  <2> QED BY <2>1, ConcatKeeps
<1> HIDE DEF a
<1>4. ToSet(a) = ToSet(s) \cup {m}
  <2>1. ToSet(a) = {a[i] : i \in 1 .. Len(s) + 1}
    BY <1>2, SeqIs
  <2>2. Len(s) + 1 \in 1 .. Len(s) + 1 /\ \A i \in 1 .. Len(s) + 1 : i \in 1 .. Len(s) \/ i = Len(s) + 1
    BY <1>1
  <2>3. \A i \in 1 .. Len(s) : i \in 1 .. Len(s) + 1
    BY <1>1
  <2> QED BY <1>1, <1>2, <2>1, <2>2, <2>3
<1>5. ASSUME IsInjective(s), m \notin ToSet(s) PROVE IsInjective(a)
  <2>1. ASSUME NEW i \in 1 .. Len(s) + 1, NEW j \in 1 .. Len(s) + 1, a[i] = a[j] PROVE i = j
    <3>1. (i \in 1 .. Len(s) \/ i = Len(s) + 1) /\ (j \in 1 .. Len(s) \/ j = Len(s) + 1)
      BY <1>1
    <3> QED BY <1>1, <1>2, <1>5, <2>1, <3>1
  <2> QED BY <1>2, <2>1, SeqIs
<1> QED BY <1>2, <1>3, <1>4, <1>5 DEF a

LEMMA AddToIs ==
  ASSUME NEW T, NEW s \in Seq(T), NEW m \in T
  PROVE  /\ AddTo(s, m) \in Seq(T) /\ ToSet(AddTo(s, m)) = ToSet(s) \cup {m}
         /\ AddArg(s, m) = AddTo(s, m)
         /\ IsPrefix(s, AddTo(s, m))
         /\ IsInjective(s) => IsInjective(AddTo(s, m))
<1>1. CASE m \in ToSet(s)
  BY <1>1, AppendIs DEF AddTo, AddArg
<1>2. CASE m \notin ToSet(s)
  BY <1>2, AppendIs DEF AddTo, AddArg
<1> QED BY <1>1, <1>2

LEMMA TailIs ==
  ASSUME NEW T, NEW s \in Seq(T), s # <<>>
  PROVE  /\ Head(s) \in T /\ Tail(s) \in Seq(T) /\ ToSet(s) = {Head(s)} \cup ToSet(Tail(s))
         /\ Head(s) \in ToSet(s) /\ (Len(s) = 1 <=> Tail(s) = <<>>)
<1>1. /\ Len(s) \in Nat /\ Len(s) > 0 /\ Head(s) = s[1] /\ Head(s) \in T
      /\ Tail(s) \in Seq(T) /\ Len(Tail(s)) = Len(s) - 1
      /\ \A i \in 1 .. Len(s) - 1 : Tail(s)[i] = s[i + 1]
  BY HeadTailProperties, EmptySeq, LenProperties
<1>2. /\ ToSet(s) = {s[i] : i \in 1 .. Len(s)}
      /\ ToSet(Tail(s)) = {Tail(s)[i] : i \in 1 .. Len(s) - 1}
  <2>1. ToSet(s) = {s[i] : i \in 1 .. Len(s)}
    BY SeqIs
  <2>2. ToSet(Tail(s)) = {Tail(s)[i] : i \in 1 .. Len(Tail(s))}
    BY <1>1, SeqIs
  <2> QED BY <1>1, <2>1, <2>2
<1>3. ASSUME NEW i \in 1 .. Len(s), i # 1 PROVE i - 1 \in 1 .. Len(s) - 1 /\ Tail(s)[i - 1] = s[i]
  BY <1>1, <1>3
<1>4. ASSUME NEW i \in 1 .. Len(s) - 1 PROVE i + 1 \in 1 .. Len(s)
  BY <1>1
<1>5. 1 \in 1 .. Len(s)
  BY <1>1
<1>6. ToSet(s) \subseteq {Head(s)} \cup ToSet(Tail(s))
  BY <1>1, <1>2, <1>3
<1>7. {Head(s)} \cup ToSet(Tail(s)) \subseteq ToSet(s)
  BY <1>1, <1>2, <1>4, <1>5
<1>8. Len(s) = 1 <=> Tail(s) = <<>>
  BY <1>1, EmptySeq
<1> QED BY <1>1, <1>6, <1>7, <1>8

-----------------------------------------------------------------------------
(* The Postman collection.                                                 *)

CollectionInv == PostmanTypeOK /\ FolderInv /\ WrittenInv

LEMMA ModelRoutesAre ==
  /\ DOMAIN ModelRoutes = {1, 2} /\ ModelRoutes[1] = "add" /\ ModelRoutes[2] = "view"
  /\ ToSet(ModelRoutes) = {"add", "view"} /\ "own" \notin ToSet(ModelRoutes)
<1>1. DOMAIN ModelRoutes = 1 .. 2 /\ ModelRoutes[1] = "add" /\ ModelRoutes[2] = "view"
  BY DEF ModelRoutes
<1>2. 1 .. 2 = {1, 2}
  OBVIOUS
<1>3. ToSet(ModelRoutes) = {"add", "view"}
  BY <1>1, <1>2 DEF ToSet
<1> QED BY <1>1, <1>2, <1>3

LEMMA RequestIs ==
  /\ \A q \in Request : q.name \in {"add", "view", "own"} /\ q.path \in Seq(Segments)
                        /\ q.rest \in {"template", "dev"}
  /\ \A n \in {"add", "view", "own"}, p \in Seq(Segments), x \in {"template", "dev"} :
       [name |-> n, path |-> p, rest |-> x] \in Request
  /\ \A q \in Request, p \in Seq(Segments) :
       LET e == [q EXCEPT !.path = p]
       IN  e \in Request /\ e.name = q.name /\ e.path = p /\ e.rest = q.rest
  /\ \A q \in Request :
       LET e == [q EXCEPT !.rest = "dev"]
       IN  e \in Request /\ e.name = q.name /\ e.path = q.path /\ e.rest = "dev"
<1>1. ToSet(ModelRoutes) \cup {"own"} = {"add", "view", "own"}
  BY ModelRoutesAre
<1>2. Request = [name : {"add", "view", "own"}, path : Seq(Segments), rest : {"template", "dev"}]
  BY <1>1 DEF Request
<1> DEFINE P == Seq(Segments)
<1>3. Request = [name : {"add", "view", "own"}, path : P, rest : {"template", "dev"}]
  BY <1>2
<1> HIDE DEF P
<1>4. /\ \A q \in Request : q.name \in {"add", "view", "own"} /\ q.path \in P
                            /\ q.rest \in {"template", "dev"}
      /\ \A n \in {"add", "view", "own"}, p \in P, x \in {"template", "dev"} :
           [name |-> n, path |-> p, rest |-> x] \in Request
  BY <1>3
<1>5. \A q \in Request, p \in P :
        LET e == [q EXCEPT !.path = p]
        IN  e \in Request /\ e.name = q.name /\ e.path = p /\ e.rest = q.rest
  BY <1>3
<1>6. \A q \in Request :
        LET e == [q EXCEPT !.rest = "dev"]
        IN  e \in Request /\ e.name = q.name /\ e.path = q.path /\ e.rest = "dev"
  BY <1>3
<1> QED BY <1>4, <1>5, <1>6 DEF P

LEMMA FolderIs ==
  /\ \A d \in Folder : d.name \in {"module", "other"} /\ d.requests \in Seq(Request)
  /\ \A n \in {"module", "other"}, rs \in Seq(Request) : [name |-> n, requests |-> rs] \in Folder
<1> DEFINE R == Seq(Request)
<1>1. Folder = [name : {"module", "other"}, requests : R]
  BY DEF Folder
<1> HIDE DEF R
<1>2. /\ \A d \in Folder : d.name \in {"module", "other"} /\ d.requests \in R
      /\ \A n \in {"module", "other"}, rs \in R : [name |-> n, requests |-> rs] \in Folder
  BY <1>1
<1> QED BY <1>2 DEF R

(* The last request of a name is one of that name.                         *)
LEMMA ByNameIs ==
  ASSUME NEW rs \in Seq(Request), NEW n, Named(rs, n) # {}
  PROVE  \E i \in Named(rs, n) : ByName(rs, n) = rs[i]
<1>1. Len(rs) \in Nat /\ Named(rs, n) \subseteq 1 .. Len(rs)
  BY SeqIs DEF Named
<1>2. Named(rs, n) \subseteq Nat /\ \A j \in Named(rs, n) : j <= Len(rs)
  BY <1>1
<1>3. /\ Max(Named(rs, n)) \in Named(rs, n)
      /\ \A j \in Named(rs, n) : Max(Named(rs, n)) >= j
  BY <1>1, <1>2, MaxIsHighest
<1>4. \A j \in Named(rs, n) : j <= Max(Named(rs, n))
  BY <1>2, <1>3
<1>5. \E i \in Named(rs, n) : \A j \in Named(rs, n) : j <= i
  BY <1>3, <1>4, Zenon
<1> QED BY <1>5, Zenon DEF ByName

(* The folder that a rebuild starts from.                                  *)
LEMMA ExistingIs ==
  ASSUME PostmanTypeOK, FolderInv
  PROVE  /\ ExistingRequests \in Seq(Request)
         /\ json = "json" => /\ Found \in {{}, {1}} /\ 1 \in DOMAIN items /\ items[1] \in Folder
                             /\ Len(items) = 1 \/ items[1].name = "module" => Found = {1}
                             /\ Found = {1} => ExistingRequests = items[1].requests
         /\ json # "json" => items = <<>> /\ Found = {}
         /\ Found = {} => ExistingRequests = <<>>
<1>1. items \in Seq(Folder)
  BY DEF PostmanTypeOK
<1>2. Len(items) \in Nat /\ DOMAIN items = 1 .. Len(items) /\ \A i \in 1 .. Len(items) : items[i] \in Folder
  BY <1>1, SeqIs
<1>3. <<>> \in Seq(Request)
  OBVIOUS
<1>4. Found = {} => ExistingRequests = <<>>
  BY DEF ExistingRequests
<1>5. CASE json = "json"
  <2>1. Len(items) > 0 /\ 1 \in DOMAIN items
    BY <1>1, <1>2, <1>5, EmptySeq DEF FolderInv
  <2> DEFINE mine == {i \in DOMAIN items : items[i].name = "module"}
  <2>2. mine \subseteq {1} /\ (items[1].name = "module" => mine = {1})
    <3>1. \A i \in DOMAIN items : i # 1 => items[i].name # "module"
      BY <1>5 DEF FolderInv
    <3> QED BY <2>1, <3>1
  <2>3. ASSUME mine # {} PROVE Found = {1}
    <3>1. mine = {1}
      BY <2>2, <2>3
    <3> DEFINE first == CHOOSE i \in mine : \A j \in mine : i <= j
    <3>2. first = 1
      <4>1. \E i \in mine : \A j \in mine : i <= j
        BY <3>1
      <4> QED BY <3>1, <4>1
    <3>3. Found = {first}
      BY <2>3 DEF Found
    <3> QED BY <3>2, <3>3
  <2>4. ASSUME mine = {} PROVE Found = IF Len(items) = 1 THEN {1} ELSE {}
    <3>1. Found = {i \in DOMAIN items : Len(items) = 1}
      BY <2>4 DEF Found
    <3> QED BY <1>2, <2>1, <3>1
  <2>5. Found \in {{}, {1}} /\ (Len(items) = 1 \/ items[1].name = "module" => Found = {1})
    BY <2>2, <2>3, <2>4
  <2>6. (CHOOSE i \in {1} : TRUE) = 1
    <3>1. \E i \in {1} : TRUE
      OBVIOUS
    <3> QED BY <3>1
  <2>7. Found = {1} => ExistingRequests = items[1].requests
    BY <2>6 DEF ExistingRequests
  <2>8. items[1] \in Folder /\ items[1].requests \in Seq(Request)
    BY <1>2, <2>1, FolderIs
  <2>9. ExistingRequests \in Seq(Request)
    BY <1>3, <1>4, <2>5, <2>7, <2>8
  <2> QED BY <1>4, <1>5, <2>1, <2>5, <2>7, <2>8, <2>9
<1>6. CASE json # "json"
  <2>1. items = <<>> /\ DOMAIN items = {}
    BY <1>2, <1>6 DEF PostmanTypeOK
  <2>2. Found = {}
    BY <2>1 DEF Found
  <2> QED BY <1>3, <1>4, <1>6, <2>1, <2>2
<1> QED BY <1>5, <1>6

LEMMA BaseItemIs ==
  ASSUME PostmanTypeOK, FolderInv, NEW n \in {"add", "view"}
  PROVE  /\ BaseItem(n) \in Request /\ BaseItem(n).name = n
         /\ Named(ExistingRequests, n) # {} =>
              \E i \in Named(ExistingRequests, n) : BaseItem(n) = ExistingRequests[i]
         /\ Named(ExistingRequests, n) = {} => Len(BaseItem(n).path) = IF n = "view" THEN 3 ELSE 2
<1>1. CASE Named(ExistingRequests, n) # {}
  <2>1. ExistingRequests \in Seq(Request)
    BY ExistingIs
  <2>2. PICK i \in Named(ExistingRequests, n) : ByName(ExistingRequests, n) = ExistingRequests[i]
    BY <1>1, <2>1, ByNameIs
  <2>3. ExistingRequests[i] \in Request /\ ExistingRequests[i].name = n
    BY <2>1, <2>2, SeqIs DEF Named
  <2>4. BaseItem(n) = ExistingRequests[i]
    BY <1>1, <2>2 DEF BaseItem
  <2> QED BY <1>1, <2>2, <2>3, <2>4
<1>2. CASE Named(ExistingRequests, n) = {}
  <2> DEFINE ts == TemplateRequests
             v == [name |-> "view", path |-> <<"office", "view", "template">>, rest |-> "template"]
             a == [name |-> "add", path |-> <<"office", "add">>, rest |-> "template"]
  <2>1. <<"office", "view", "template">> \in Seq(Segments) /\ <<"office", "add">> \in Seq(Segments)
    BY DEF Segments
  <2>2. v \in Request /\ a \in Request
    BY <2>1, RequestIs
  <2>3. v.name = "view" /\ a.name = "add" /\ Len(v.path) = 3 /\ Len(a.path) = 2
    OBVIOUS
  <2>4. ts = <<v, a>>
    BY DEF TemplateRequests
  <2> HIDE DEF v, a
  <2>5. ts \in Seq(Request) /\ DOMAIN ts = 1 .. 2 /\ ts[1] = v /\ ts[2] = a
    BY <2>2, <2>4
  <2> HIDE DEF ts
  <2>6. Named(ts, n) = IF n = "view" THEN {1} ELSE {2}
    <3>1. 1 .. 2 = {1, 2} /\ "view" # "add"
      OBVIOUS
    <3> QED BY <2>3, <2>5, <3>1 DEF Named
  <2>7. Named(ts, n) # {}
    BY <2>6
  <2>8. \E i \in Named(ts, n) : ByName(ts, n) = ts[i]
    BY <2>5, <2>7, ByNameIs
  <2>9. BaseItem(n) = IF n = "view" THEN v ELSE a
    BY <1>2, <2>5, <2>6, <2>8 DEF BaseItem, ts
  <2> QED BY <1>2, <2>2, <2>3, <2>9
<1> QED BY <1>1, <1>2

(* A path parameter keeps its value, as long as there is no prefix.        *)
LEMMA PathIs ==
  ASSUME NEW n \in {"add", "view"}, NEW prefix \in Seq(Segments), NEW old \in Seq(Segments)
  PROVE  /\ PathOf(n, prefix, old) \in Seq(Segments)
         /\ n = "view" /\ prefix = <<>> =>
              /\ Len(PathOf(n, prefix, old)) = 3
              /\ Len(old) = 3 => Last(PathOf(n, prefix, old)) = Last(old)
<1> DEFINE tail == [i \in DOMAIN RoutePath[n] |->
                      IF RoutePath[n][i] # ":id" THEN RoutePath[n][i]
                      ELSE IF Len(old) > i THEN old[i + 1] ELSE "sample"]
           front == prefix \o <<"module">>
<1>1. /\ Len(old) \in Nat /\ \A i \in 1 .. Len(old) : old[i] \in Segments
      /\ Len(prefix) \in Nat /\ \A i \in 1 .. Len(prefix) : prefix[i] \in Segments
  BY SeqIs
<1>2. {"add", "view", "sample", "module"} \subseteq Segments
  BY DEF Segments
<1>3. CASE n = "add"
  <2>1. RoutePath[n] = <<"add">>
    BY <1>3 DEF RoutePath
  <2>2. tail = [i \in 1 .. 1 |-> "add"]
    BY <2>1
  <2>3. tail \in Seq(Segments)
    BY <1>2, <2>2
  <2>4. <<"module">> \in Seq(Segments)
    BY <1>2
  <2> HIDE DEF tail
  <2>5. front \in Seq(Segments)
    BY <2>4, ConcatProperties
  <2>6. front \o tail \in Seq(Segments)
    BY <2>3, <2>5, ConcatProperties
  <2> QED BY <1>3, <2>6 DEF PathOf, tail
<1>4. CASE n = "view"
  <2>1. RoutePath[n] = <<"view", ":id">>
    BY <1>4 DEF RoutePath
  <2> DEFINE value == IF Len(old) > 2 THEN old[3] ELSE "sample"
  <2>2. DOMAIN RoutePath[n] = 1 .. 2 /\ RoutePath[n][1] = "view" /\ RoutePath[n][2] = ":id"
    BY <2>1
  <2>3. tail = [i \in 1 .. 2 |-> IF i = 1 THEN "view" ELSE value]
    <3>1. ASSUME NEW i \in 1 .. 2 PROVE tail[i] = IF i = 1 THEN "view" ELSE value
      <4>1. i = 1 \/ i = 2
        OBVIOUS
      <4>2. CASE i = 1
        BY <2>2, <4>2
      <4>3. CASE i = 2
        BY <2>2, <4>3
      <4> QED BY <4>1, <4>2, <4>3
    <3> QED BY <2>2, <3>1
  <2>4. value \in Segments
    BY <1>1, <1>2
  <2> HIDE DEF tail, value
  <2>5. tail \in Seq(Segments) /\ Len(tail) = 2 /\ tail[2] = value
    BY <1>2, <2>3, <2>4
  <2>6. <<"module">> \in Seq(Segments) /\ Len(<<"module">>) = 1
    BY <1>2
  <2>7. front \in Seq(Segments) /\ Len(front) = Len(prefix) + 1
    BY <2>6, ConcatProperties
  <2> HIDE DEF front
  <2>8. /\ front \o tail \in Seq(Segments) /\ Len(front \o tail) = Len(front) + 2
        /\ \A i \in 1 .. Len(front) + 2 :
             (front \o tail)[i] = IF i <= Len(front) THEN front[i] ELSE tail[i - Len(front)]
    <3>1. /\ front \o tail \in Seq(Segments) /\ Len(front \o tail) = Len(front) + Len(tail)
          /\ \A i \in 1 .. Len(front) + Len(tail) :
               (front \o tail)[i] = IF i <= Len(front) THEN front[i] ELSE tail[i - Len(front)]
      BY <2>5, <2>7, ConcatProperties
    <3> QED BY <2>5, <3>1
  <2>9. PathOf(n, prefix, old) = front \o tail
    BY DEF PathOf, front, tail
  <2> DEFINE path == front \o tail
  <2>10. ASSUME prefix = <<>> PROVE Len(path) = 3 /\ path[3] = value
    <3>1. Len(front) = 1
      BY <2>7, <2>10
    <3>2. 3 \in 1 .. Len(front) + 2 /\ ~(3 <= Len(front)) /\ 3 - Len(front) = 2
      BY <3>1
    <3> QED BY <2>5, <2>8, <3>1, <3>2
  <2>11. ASSUME prefix = <<>>, Len(old) = 3 PROVE Last(path) = Last(old)
    <3>1. value = old[3]
      BY <2>11 DEF value
    <3>2. Last(path) = path[3] /\ Last(old) = old[3]
      BY <2>10, <2>11 DEF Last
    <3> QED BY <2>10, <2>11, <3>1, <3>2
  <2> QED BY <2>8, <2>9, <2>10, <2>11
<1> QED BY <1>3, <1>4

(* What a rebuild writes: the two generated requests, each made from the   *)
(* last one of its name, and the others of the folder.                     *)
LEMMA BuiltIs ==
  ASSUME PostmanTypeOK, FolderInv, NEW prefix \in Seq(Segments)
  PROVE  LET rs == Built(prefix)[1].requests
         IN  /\ Built(prefix) \in Seq(Folder) /\ Len(Built(prefix)) = 1
             /\ Built(prefix)[1].name = "module"
             /\ rs \in Seq(Request) /\ rs = Built(prefix)[1].requests
             /\ Named(rs, "add") = {1} /\ Named(rs, "view") = {2}
             /\ rs[2] = [BaseItem("view") EXCEPT !.path = PathOf("view", prefix, @)]
             /\ Named(ExistingRequests, "own") # {} => Named(rs, "own") # {}
<1> DEFINE two == [i \in DOMAIN ModelRoutes |-> Configured(ModelRoutes[i], prefix)]
           rs == two \o Others
           E == ExistingRequests
           S == {i \in DOMAIN E : E[i].name \notin ToSet(ModelRoutes)}
<1>1. ASSUME NEW n \in {"add", "view"}
      PROVE  Configured(n, prefix) \in Request /\ Configured(n, prefix).name = n
  <2>1. BaseItem(n) \in Request /\ BaseItem(n).name = n
    BY BaseItemIs
  <2>2. PathOf(n, prefix, BaseItem(n).path) \in Seq(Segments)
    <3>1. BaseItem(n).path \in Seq(Segments)
      BY <2>1, RequestIs
    <3> QED BY <3>1, PathIs
  <2>3. Configured(n, prefix) = [BaseItem(n) EXCEPT !.path = PathOf(n, prefix, BaseItem(n).path)]
    BY DEF Configured
  <2> QED BY <2>1, <2>2, <2>3, RequestIs
<1>2. /\ two \in Seq(Request) /\ Len(two) = 2
      /\ two[1] = Configured("add", prefix) /\ two[2] = Configured("view", prefix)
  <2>1. DOMAIN ModelRoutes = 1 .. 2
    BY DEF ModelRoutes
  <2>2. \A i \in 1 .. 2 : ModelRoutes[i] \in {"add", "view"}
    BY DEF ModelRoutes
  <2>3. two = [i \in 1 .. 2 |-> Configured(ModelRoutes[i], prefix)]
    BY <2>1
  <2> HIDE DEF two
  <2> QED BY <1>1, <2>2, <2>3, ModelRoutesAre
<1>3. E \in Seq(Request)
  BY ExistingIs
<1>4. /\ Others \in Seq(Request)
      /\ \A k \in 1 .. Len(Others) : \E i \in S : Others[k] = E[i]
      /\ \A i \in S : \E k \in 1 .. Len(Others) : Others[k] = E[i]
  <2>1. S \in SUBSET DOMAIN E
    OBVIOUS
  <2> HIDE DEF S, E
  <2> DEFINE p == Picked(E, S)
  <2>2. /\ p \in Seq(Request)
        /\ \A k \in 1 .. Len(p) : \E i \in S : p[k] = E[i]
        /\ \A i \in S : \E k \in 1 .. Len(p) : p[k] = E[i]
    BY <1>3, <2>1, PickedIs
  <2>3. Others = p
    BY DEF Others, S, E
  <2> QED BY <2>2, <2>3
<1>5. Len(Others) \in Nat
  BY <1>4, SeqIs
<1> HIDE DEF two
<1>6. /\ rs \in Seq(Request) /\ Len(rs) = 2 + Len(Others)
      /\ \A i \in 1 .. 2 + Len(Others) : rs[i] = IF i <= 2 THEN two[i] ELSE Others[i - 2]
  <2>1. /\ rs \in Seq(Request) /\ Len(rs) = Len(two) + Len(Others)
        /\ \A i \in 1 .. Len(two) + Len(Others) :
             rs[i] = IF i <= Len(two) THEN two[i] ELSE Others[i - Len(two)]
    <3>1. two \in Seq(Request) /\ Others \in Seq(Request)
      BY <1>2, <1>4
    <3> QED BY <3>1, ConcatProperties
  <2> HIDE DEF rs
  <2> QED BY <1>2, <2>1
<1> HIDE DEF rs
<1>7. DOMAIN rs = 1 .. 2 + Len(Others) /\ rs[1] = two[1] /\ rs[2] = two[2]
  BY <1>5, <1>6, SeqIs
<1>8. \A k \in 1 .. Len(Others) : k + 2 \in 1 .. 2 + Len(Others) /\ rs[k + 2] = Others[k]
  BY <1>5, <1>6
<1>9. ASSUME NEW i \in DOMAIN rs
      PROVE  i = 1 \/ i = 2 \/ rs[i].name \notin ToSet(ModelRoutes)
  <2>1. CASE i > 2
    <3>1. i - 2 \in 1 .. Len(Others) /\ rs[i] = Others[i - 2]
      BY <1>5, <1>6, <1>7, <2>1
    <3> QED BY <1>4, <3>1
  <2> QED BY <1>7, <2>1
<1>10. rs[1].name = "add" /\ rs[2].name = "view"
  BY <1>1, <1>2, <1>7
<1>11. 1 \in DOMAIN rs /\ 2 \in DOMAIN rs
  BY <1>5, <1>7
<1>12. Named(rs, "add") = {1} /\ Named(rs, "view") = {2}
  <2>1. ASSUME NEW i \in DOMAIN rs
        PROVE  (rs[i].name = "add" <=> i = 1) /\ (rs[i].name = "view" <=> i = 2)
    BY <1>9, <1>10, ModelRoutesAre
  <2> QED BY <1>11, <2>1 DEF Named
<1>13. ASSUME Named(E, "own") # {} PROVE Named(rs, "own") # {}
  <2>1. PICK i \in DOMAIN E : E[i].name = "own"
    BY <1>13 DEF Named
  <2>2. i \in S
    BY <2>1, ModelRoutesAre
  <2>3. PICK k \in 1 .. Len(Others) : Others[k] = E[i]
    BY <1>4, <2>2
  <2>4. k + 2 \in DOMAIN rs /\ rs[k + 2].name = "own"
    BY <1>7, <1>8, <2>1, <2>3
  <2> QED BY <2>4 DEF Named
<1> DEFINE d == [name |-> "module", requests |-> rs]
<1>14. d \in Folder /\ d.name = "module" /\ d.requests = rs
  BY <1>6, FolderIs
<1>15. Built(prefix) = <<d>>
  BY DEF Built, rs, two
<1> HIDE DEF d
<1>16. Built(prefix) \in Seq(Folder) /\ Len(Built(prefix)) = 1 /\ Built(prefix)[1] = d
  BY <1>14, <1>15
<1>17. rs[2] = [BaseItem("view") EXCEPT !.path = PathOf("view", prefix, @)]
  BY <1>2, <1>7 DEF Configured
<1>18. rs = Built(prefix)[1].requests
  BY <1>14, <1>16
<1> QED BY <1>6, <1>12, <1>13, <1>14, <1>16, <1>17, <1>18

(* What the invariant says of the collection.                              *)
LEMMA CollectionIs ==
  CollectionInv => CollectionKeepsEdits /\ (Found # {} => CollectionComplete)
<1> SUFFICES ASSUME CollectionInv, json = "json"
             PROVE  CollectionKeepsEdits /\ (Found # {} => CollectionComplete)
  BY DEF CollectionComplete, CollectionKeepsEdits
<1>1. Found # {} => ExistingRequests = items[1].requests
  BY ExistingIs DEF CollectionInv
<1>2. Found # {} => CollectionComplete
  BY <1>1 DEF CollectionInv, FolderInv, CollectionComplete
<1>3. CollectionKeepsEdits
  BY <1>1 DEF CollectionInv, WrittenInv, Kept, CollectionKeepsEdits
<1> QED BY <1>2, <1>3

LEMMA AloneIsComplete ==
  CollectionInv /\ json = "json" /\ Len(items) = 1 => CollectionComplete
<1> SUFFICES ASSUME CollectionInv, json = "json", Len(items) = 1 PROVE CollectionComplete
  OBVIOUS
<1>1. Found # {}
  BY ExistingIs DEF CollectionInv
<1> QED BY <1>1, CollectionIs

LEMMA WrittenHolds ==
  ASSUME json' = "json", NEW rs, items'[1].requests = rs,
         Kept(rs, written', doubled', prefixed', lost', id')
  PROVE  WrittenInv'
BY DEF WrittenInv

LEMMA RebuildInv ==
  ASSUME CollectionInv, NEW prefix \in Seq(Segments), PatchCollection(prefix)
  PROVE  CollectionInv' /\ json' = "json" /\ CollectionComplete'
<1> DEFINE E == ExistingRequests
           b == BaseItem("view")
           rs == items'[1].requests
<1>1. /\ json # "broken" /\ json' = "json" /\ items' = Built(prefix)
      /\ id' = (IF KeepsId THEN id ELSE made + 1) /\ link' = id'
      /\ made' = (IF KeepsId THEN made ELSE made + 1)
      /\ prefixed' = (prefixed \/ prefix # <<>>)
      /\ written' = (IF json = "json" /\ Found = {} THEN written \cap {"id"} ELSE written)
      /\ doubled' = doubled /\ lost' = lost
  BY DEF PatchCollection
<1>2. PostmanTypeOK /\ FolderInv /\ WrittenInv
  BY DEF CollectionInv
<1>3. /\ items' \in Seq(Folder) /\ Len(items') = 1 /\ items'[1].name = "module"
      /\ rs \in Seq(Request) /\ Named(rs, "add") = {1} /\ Named(rs, "view") = {2}
      /\ rs[2] = [b EXCEPT !.path = PathOf("view", prefix, b.path)]
      /\ Named(E, "own") # {} => Named(rs, "own") # {}
  BY <1>1, <1>2, BuiltIs
<1>4. /\ b \in Request
      /\ Named(E, "view") # {} => \E i \in Named(E, "view") : b = E[i]
      /\ Named(E, "view") = {} => Len(b.path) = 3
  BY <1>2, BaseItemIs
<1>5. b.path \in Seq(Segments)
  BY <1>4, RequestIs
<1> DEFINE path == PathOf("view", prefix, b.path)
<1>6. /\ path \in Seq(Segments)
      /\ prefix = <<>> => Len(path) = 3 /\ (Len(b.path) = 3 => Last(path) = Last(b.path))
  BY <1>5, PathIs
<1>7. rs[2].path = path /\ rs[2].rest = b.rest
  BY <1>3, <1>4, <1>6, RequestIs
<1> HIDE DEF path, b, rs
<1>8. items' # <<>>
  <2>1. Len(items') = 1 /\ Len(<<>>) = 0
    BY <1>3, EmptySeq
  <2> QED BY <2>1
<1>9. FolderInv'
  <2>1. \A i \in DOMAIN items' : i = 1
    BY <1>3, SeqIs
  <2> QED BY <1>1, <1>3, <1>8, <2>1, ModelRoutesAre DEF FolderInv, rs
<1>10. PostmanTypeOK'
  <2>1. id' \in Nat /\ made' \in Nat
    BY <1>1, <1>2 DEF PostmanTypeOK, Ids
  <2>2. prefixed' \in BOOLEAN
    BY <1>1
  <2>3. written' \subseteq written
    BY <1>1
  <2> QED BY <1>1, <1>2, <1>3, <2>1, <2>2, <2>3 DEF PostmanTypeOK, Ids
<1>11. ASSUME json = "json", Found # {}
       PROVE  E = items[1].requests /\ (\A n \in ToSet(ModelRoutes) : Named(E, n) # {})
  BY <1>2, <1>11, ExistingIs DEF FolderInv
<1>12. /\ written' \subseteq written
       /\ \A x \in written' : ~lost => json = "json" /\ (x = "id" \/ Found # {})
  BY <1>1, <1>2 DEF WrittenInv, PostmanTypeOK
<1>13. ASSUME ~lost, "request" \in written' PROVE Named(rs, "own") # {}
  <2>1. json = "json" /\ Found # {} /\ "request" \in written
    BY <1>12, <1>13
  <2> QED BY <1>2, <1>3, <1>11, <1>13, <2>1 DEF WrittenInv, Kept
<1>14. ASSUME ~lost, "rest" \in written', "view" \notin doubled PROVE rs[2].rest = "dev"
  <2>1. json = "json" /\ Found # {} /\ "rest" \in written
    BY <1>12, <1>14
  <2>2. PICK i \in Named(E, "view") : E[i].rest = "dev"
    BY <1>2, <1>11, <1>14, <2>1 DEF WrittenInv, Kept
  <2>3. \A j \in Named(E, "view") : i = j
    BY <1>2, <1>11, <1>14, <2>1 DEF WrittenInv, Kept
  <2>4. b = E[i]
    BY <1>4, <2>2, <2>3
  <2> QED BY <1>7, <2>2, <2>4
<1>15. ASSUME ~lost, "value" \in written', "view" \notin doubled, ~prefixed, prefix = <<>>
       PROVE  Last(rs[2].path) = "dev"
  <2>1. json = "json" /\ Found # {} /\ "value" \in written
    BY <1>12, <1>15
  <2>2. PICK i \in Named(E, "view") : Last(E[i].path) = "dev"
    BY <1>2, <1>11, <1>15, <2>1 DEF WrittenInv, Kept
  <2>3. (\A j \in Named(E, "view") : i = j) /\ Len(E[i].path) = 3
    BY <1>2, <1>11, <1>15, <2>1, <2>2 DEF WrittenInv, Kept
  <2>4. b = E[i]
    BY <1>4, <2>2, <2>3
  <2> QED BY <1>6, <1>7, <1>15, <2>2, <2>3, <2>4
<1>16. ASSUME ~lost, "id" \in written' PROVE id' = DevId
  <2>1. json = "json" /\ "id" \in written
    BY <1>12, <1>16
  <2>2. id = DevId
    BY <1>2, <1>16, <2>1 DEF WrittenInv, Kept
  <2>3. KeepsId
    BY <2>1, <2>2 DEF KeepsId, DevId, Template, NotUuid
  <2> QED BY <1>1, <2>2, <2>3
<1>17. WrittenInv'
  <2>1. ~prefixed' => ~prefixed /\ prefix = <<>>
    BY <1>1
  <2>2. json' # "absent" /\ json' \notin {"blank", "broken"}
    BY <1>1
  <2>3. \A i, j \in Named(rs, "view") : i = j
    BY <1>3
  <2>4. ~prefixed' => \A i \in Named(rs, "view") : Len(rs[i].path) = 3
    BY <1>3, <1>6, <1>7, <2>1
  <2>5. ASSUME ~lost'
        PROVE  /\ "request" \in written' => Named(rs, "own") # {}
               /\ "rest" \in written' /\ "view" \notin doubled' =>
                    \E i \in Named(rs, "view") : rs[i].rest = "dev"
               /\ "value" \in written' /\ "view" \notin doubled' /\ ~prefixed' =>
                    \E i \in Named(rs, "view") : Last(rs[i].path) = "dev"
               /\ "id" \in written' => id' = DevId
    BY <1>1, <1>3, <1>13, <1>14, <1>15, <1>16, <2>1, <2>5
  <2> QED BY <2>2, <2>3, <2>4, <2>5 DEF WrittenInv, Kept, rs
<1>18. CollectionInv'
  BY <1>9, <1>10, <1>17 DEF CollectionInv
<1>19. CollectionComplete'
  <2>1. (CollectionInv /\ json = "json" /\ Len(items) = 1 => CollectionComplete)'
    BY AloneIsComplete, PTL
  <2> QED BY <1>1, <1>3, <1>18, <2>1
<1> QED BY <1>1, <1>18, <1>19

LEMMA CollectionFailsInv ==
  ASSUME CollectionInv, NEW dryRun, CollectionFails(dryRun) PROVE CollectionInv'
<1>1. CASE UNCHANGED postman
  BY <1>1 DEF CollectionInv, postman, collection, collectionHistory, PostmanTypeOK, FolderInv,
              WrittenInv, Kept, Named
<1>2. CASE ~UNCHANGED postman
  <2>1. /\ json' \in {"blank", "broken"} /\ items' = <<>> /\ lost' = TRUE
        /\ UNCHANGED <<id, link, made, written, prefixed, doubled>>
    BY <1>2 DEF CollectionFails
  <2>2. PostmanTypeOK'
    BY <2>1 DEF CollectionInv, PostmanTypeOK
  <2> QED BY <2>1, <2>2 DEF CollectionInv, FolderInv, WrittenInv
<1> QED BY <1>1, <1>2

(* The requests of a folder are edited.                                    *)
LEMMA EditedIs ==
  ASSUME PostmanTypeOK, FolderInv, json = "json", NEW i \in DOMAIN items,
         NEW rs \in Seq(Request), items' = [items EXCEPT ![i].requests = rs],
         \A n : Named(items[i].requests, n) # {} => Named(rs, n) # {},
         UNCHANGED <<json, id, link>>
  PROVE  /\ items' \in Seq(Folder) /\ FolderInv' /\ Found \subseteq {1}
         /\ items'[1].requests = IF i = 1 THEN rs ELSE items[1].requests
<1>1. /\ items \in Seq(Folder) /\ Len(items) \in Nat /\ DOMAIN items = 1 .. Len(items)
      /\ \A j \in 1 .. Len(items) : items[j] \in Folder
  BY SeqIs DEF PostmanTypeOK
<1>2. Found \subseteq {1} /\ 1 \in DOMAIN items
  BY ExistingIs
<1> DEFINE d == [items[i] EXCEPT !.requests = rs]
<1>3. d \in Folder /\ d.name = items[i].name /\ d.requests = rs
  <2>1. items[i] \in [name : {"module", "other"}, requests : Seq(Request)]
    BY <1>1 DEF Folder
  <2> DEFINE R == Seq(Request)
  <2>2. items[i] \in [name : {"module", "other"}, requests : R] /\ rs \in R
    BY <2>1
  <2> HIDE DEF R
  <2>3. d = [name |-> items[i].name, requests |-> rs] /\ items[i].name \in {"module", "other"}
    BY <2>2
  <2>4. d.name = items[i].name /\ d.requests = rs
    BY <2>3
  <2> HIDE DEF d
  <2> QED BY <2>3, <2>4, FolderIs
<1>4. items' = [items EXCEPT ![i] = d]
  BY <1>1
<1> HIDE DEF d
<1>5. /\ items' \in Seq(Folder) /\ Len(items') = Len(items)
      /\ items'[i] = d /\ \A j \in 1 .. Len(items) : j # i => items'[j] = items[j]
  <2>1. items' = [j \in 1 .. Len(items) |-> IF j = i THEN d ELSE items[j]]
    BY <1>1, <1>4
  <2>2. \A j \in 1 .. Len(items) : (IF j = i THEN d ELSE items[j]) \in Folder
    BY <1>1, <1>3
  <2>3. items' \in Seq(Folder) /\ Len(items') = Len(items)
    BY <1>1, <2>1, <2>2
  <2> QED BY <1>1, <2>1, <2>3
<1>6. /\ items'[1].requests = IF i = 1 THEN rs ELSE items[1].requests
      /\ items'[1].name = items[1].name
  BY <1>1, <1>2, <1>3, <1>5
<1>7. Len(items') > 0
  BY <1>1, <1>2, <1>5
<1>8. items' # <<>>
  <2>1. Len(<<>>) = 0
    BY EmptySeq
  <2> QED BY <1>7, <2>1
<1>9. \A j \in DOMAIN items' : j # 1 => items'[j].name = "other"
  <2>1. DOMAIN items' = 1 .. Len(items)
    BY <1>5, SeqIs
  <2>2. \A j \in DOMAIN items : j # 1 => items[j].name = "other"
    BY DEF FolderInv
  <2> QED BY <1>1, <1>3, <1>5, <2>1, <2>2
<1>10. \A n \in ToSet(ModelRoutes) : Named(items'[1].requests, n) # {}
  <2>1. \A n \in ToSet(ModelRoutes) : Named(items[1].requests, n) # {}
    BY DEF FolderInv
  <2> QED BY <1>6, <2>1
<1>11. FolderInv'
  BY <1>5, <1>6, <1>8, <1>9, <1>10 DEF FolderInv
<1> QED BY <1>2, <1>5, <1>6, <1>11

(* A folder's requests have their types.                                   *)
LEMMA RequestsAre ==
  ASSUME PostmanTypeOK, NEW i \in DOMAIN items
  PROVE  LET rs == items[i].requests
         IN  /\ rs \in Seq(Request) /\ Len(rs) \in Nat /\ DOMAIN rs = 1 .. Len(rs)
             /\ \A j \in 1 .. Len(rs) : rs[j] \in Request
<1>1. items[i] \in Folder
  BY SeqIs DEF PostmanTypeOK
<1>2. items[i].requests \in Seq(Request)
  BY <1>1, FolderIs
<1> QED BY <1>2, SeqIs

LEMMA AddRequestInv ==
  ASSUME CollectionInv, NEW i \in DOMAIN items, NEW n \in {"add", "view", "own"}, AddRequest(i, n)
  PROVE  CollectionInv'
<1> DEFINE old == items[i].requests
           q == [name |-> n, path |-> <<"module", n, "dev">>, rest |-> "dev"]
           rs == Append(old, q)
<1>1. PostmanTypeOK /\ FolderInv /\ WrittenInv
  BY DEF CollectionInv
<1>2. /\ json = "json" /\ items' = [items EXCEPT ![i].requests = Append(@, q)]
      /\ doubled' = (IF Named(old, n) # {} THEN doubled \cup {n} ELSE doubled)
      /\ written' = (IF n = "own" /\ i \in Found THEN written \cup {"request"} ELSE written)
      /\ json' = json /\ id' = id /\ link' = link /\ made' = made
      /\ prefixed' = prefixed /\ lost' = lost
  BY DEF AddRequest
<1>3. /\ old \in Seq(Request) /\ Len(old) \in Nat /\ DOMAIN old = 1 .. Len(old)
      /\ items \in Seq(Folder)
  BY <1>1, RequestsAre DEF PostmanTypeOK
<1>4. <<"module", n, "dev">> \in Seq(Segments) /\ Len(<<"module", n, "dev">>) = 3
  BY DEF Segments
<1>5. q \in Request /\ q.name = n /\ q.rest = "dev" /\ Len(q.path) = 3
  BY <1>4, RequestIs
<1> HIDE DEF q
<1>6. /\ rs \in Seq(Request) /\ Len(rs) = Len(old) + 1 /\ rs[Len(old) + 1] = q
      /\ \A j \in 1 .. Len(old) : rs[j] = old[j]
  BY <1>3, <1>5, AppendProperties
<1>7. items' = [items EXCEPT ![i].requests = rs]
  BY <1>2, <1>3, SeqIs
<1> HIDE DEF old, rs
<1>8. DOMAIN rs = 1 .. Len(old) + 1
  BY <1>6, SeqIs
<1>9. \A x : Named(rs, x) = Named(old, x) \cup (IF x = n THEN {Len(old) + 1} ELSE {})
  <2> TAKE x
  <2>1. ASSUME NEW j \in 1 .. Len(old) PROVE j \in DOMAIN rs /\ rs[j] = old[j]
    BY <1>3, <1>6, <1>8
  <2>2. \A j \in DOMAIN rs : j \in 1 .. Len(old) \/ j = Len(old) + 1
    BY <1>3, <1>8
  <2>3. Len(old) + 1 \in DOMAIN rs /\ rs[Len(old) + 1].name = n
    BY <1>3, <1>5, <1>6, <1>8
  <2> QED BY <1>3, <2>1, <2>2, <2>3 DEF Named
<1>10. \A x : Named(old, x) # {} => Named(rs, x) # {}
  BY <1>9
<1>11. /\ items' \in Seq(Folder) /\ FolderInv' /\ Found \subseteq {1}
       /\ items'[1].requests = IF i = 1 THEN rs ELSE items[1].requests
  BY <1>1, <1>2, <1>6, <1>7, <1>10, EditedIs DEF old
<1>12. PostmanTypeOK'
  BY <1>1, <1>2, <1>11, ModelRoutesAre DEF PostmanTypeOK
<1>13. items[1].requests = (IF i = 1 THEN old ELSE items[1].requests)
  BY DEF old
<1>14. ASSUME i # 1 PROVE WrittenInv'
  <2> DEFINE first == items[1].requests
  <2>1. items'[1].requests = first /\ written' = written /\ doubled \subseteq doubled'
    BY <1>2, <1>11, <1>14
  <2>2. Kept(first, written, doubled, prefixed, lost, id)
    BY <1>1, <1>2 DEF WrittenInv
  <2> HIDE DEF first
  <2>3. Kept(first, written, doubled', prefixed, lost, id)
    BY <2>1, <2>2 DEF Kept
  <2> QED BY <1>2, <2>1, <2>3, WrittenHolds
<1>15. ASSUME i = 1 PROVE WrittenInv'
  <2>1. items'[1].requests = rs /\ items[1].requests = old
    BY <1>11, <1>13, <1>15
  <2>2. Named(old, "view") # {}
    BY <1>1, <1>2, <2>1, ModelRoutesAre DEF FolderInv
  <2>3. \A j \in Named(old, "view") : rs[j] = old[j]
    BY <1>3, <1>6 DEF Named
  <2>4. Kept(old, written, doubled, prefixed, lost, id)
    BY <1>1, <1>2, <2>1 DEF WrittenInv
  <2>5. /\ "rest" \in written' <=> "rest" \in written
        /\ "value" \in written' <=> "value" \in written
        /\ "id" \in written' <=> "id" \in written
        /\ "request" \in written' => "request" \in written \/ n = "own"
    BY <1>2
  <2>6. ~lost /\ "request" \in written' => Named(rs, "own") # {}
    <3>1. CASE n = "own"
      BY <1>9, <3>1
    <3>2. CASE n # "own"
      BY <1>10, <2>4, <2>5, <3>2 DEF Kept
    <3> QED BY <3>1, <3>2
  <2>7. ~prefixed => \A j \in Named(rs, "view") : Len(rs[j].path) = 3
    <3>1. \A j \in Named(rs, "view") : j \in Named(old, "view") \/ j = Len(old) + 1
      BY <1>9
    <3> QED BY <1>5, <1>6, <2>3, <2>4, <3>1 DEF Kept
  <2> DEFINE w == written'
             d == doubled'
  <2>8. ASSUME n = "view" PROVE Kept(rs, w, d, prefixed, lost, id)
    <3>1. "view" \in d
      BY <1>2, <2>2, <2>8
    <3> QED BY <2>4, <2>5, <2>6, <2>7, <3>1 DEF Kept
  <2>9. ASSUME n # "view" PROVE Kept(rs, w, d, prefixed, lost, id)
    <3>1. Named(rs, "view") = Named(old, "view") /\ ("view" \in d <=> "view" \in doubled)
      BY <1>2, <1>9, <2>9
    <3> QED BY <2>3, <2>4, <2>5, <2>6, <2>7, <3>1 DEF Kept
  <2> QED BY <1>2, <2>1, <2>8, <2>9, WrittenHolds
<1> QED BY <1>11, <1>12, <1>14, <1>15 DEF CollectionInv

LEMMA ExceptIs ==
  ASSUME NEW T, NEW s \in Seq(T), NEW j, NEW x \in T
  PROVE  LET r == [s EXCEPT ![j] = x]
         IN  /\ r \in Seq(T) /\ Len(r) = Len(s) /\ DOMAIN r = DOMAIN s
             /\ j \in DOMAIN s => r[j] = x
             /\ \A k \in DOMAIN s : k # j => r[k] = s[k]
<1>1. Len(s) \in Nat /\ DOMAIN s = 1 .. Len(s) /\ \A k \in 1 .. Len(s) : s[k] \in T
  BY SeqIs
<1> DEFINE r == [s EXCEPT ![j] = x]
<1>2. r = [k \in 1 .. Len(s) |-> IF k = j THEN x ELSE s[k]]
  BY <1>1
<1>3. \A k \in 1 .. Len(s) : (IF k = j THEN x ELSE s[k]) \in T
  BY <1>1
<1> HIDE DEF r
<1>4. r \in Seq(T) /\ Len(r) = Len(s) /\ DOMAIN r = 1 .. Len(s)
  <2> DEFINE n == Len(s)
  <2>1. n \in Nat /\ r = [k \in 1 .. n |-> IF k = j THEN x ELSE s[k]]
    BY <1>1, <1>2
  <2> HIDE DEF n
  <2>2. r \in Seq(T) /\ Len(r) = n /\ DOMAIN r = 1 .. n
    BY <1>3, <2>1 DEF n
  <2> QED BY <2>2 DEF n
<1>5. /\ j \in 1 .. Len(s) => r[j] = x
      /\ \A k \in 1 .. Len(s) : k # j => r[k] = s[k]
  BY <1>2
<1>6. /\ r \in Seq(T) /\ Len(r) = Len(s) /\ DOMAIN r = DOMAIN s
      /\ j \in DOMAIN s => r[j] = x
      /\ \A k \in DOMAIN s : k # j => r[k] = s[k]
  BY <1>1, <1>4, <1>5
<1> QED BY <1>6 DEF r

(* A request is rewritten at its place, and keeps its name.                *)
LEMMA RewrittenIs ==
  ASSUME NEW old \in Seq(Request), NEW j \in DOMAIN old, NEW q \in Request, q.name = old[j].name
  PROVE  LET rs == [old EXCEPT ![j] = q]
         IN  /\ rs \in Seq(Request) /\ rs[j] = q /\ \A k \in DOMAIN old : k # j => rs[k] = old[k]
             /\ \A x : Named(rs, x) = Named(old, x)
<1> DEFINE rs == [old EXCEPT ![j] = q]
<1>1. /\ rs \in Seq(Request) /\ DOMAIN rs = DOMAIN old
      /\ rs[j] = q /\ \A k \in DOMAIN old : k # j => rs[k] = old[k]
  BY ExceptIs
<1> HIDE DEF rs
<1>4. \A k \in DOMAIN old : rs[k].name = old[k].name
  BY <1>1
<1>5. \A x : Named(rs, x) = Named(old, x)
  BY <1>1, <1>4 DEF Named
<1>6. /\ rs \in Seq(Request) /\ rs[j] = q /\ \A k \in DOMAIN old : k # j => rs[k] = old[k]
      /\ \A x : Named(rs, x) = Named(old, x)
  BY <1>1, <1>5
<1> QED BY <1>6 DEF rs

LEMMA EditRequestInv ==
  ASSUME CollectionInv, NEW i \in DOMAIN items, NEW j \in DOMAIN items[i].requests, EditRequest(i, j)
  PROVE  CollectionInv'
<1> DEFINE old == items[i].requests
           q == [old[j] EXCEPT !.rest = "dev"]
           rs == [old EXCEPT ![j] = q]
<1>1. PostmanTypeOK /\ FolderInv /\ WrittenInv
  BY DEF CollectionInv
<1>2. /\ json = "json" /\ items' = [items EXCEPT ![i].requests = rs]
      /\ written' = (IF i \in Found /\ old[j].name = "view" THEN written \cup {"rest"} ELSE written)
      /\ json' = json /\ id' = id /\ link' = link /\ made' = made
      /\ prefixed' = prefixed /\ doubled' = doubled /\ lost' = lost
  BY DEF EditRequest
<1>3. /\ old \in Seq(Request) /\ DOMAIN old = 1 .. Len(old)
      /\ \A k \in 1 .. Len(old) : old[k] \in Request
  BY <1>1, RequestsAre
<1>4. j \in DOMAIN old /\ old[j] \in Request
  BY <1>3
<1>5. q \in Request /\ q.name = old[j].name /\ q.path = old[j].path /\ q.rest = "dev"
  BY <1>4, RequestIs
<1>6. items[1].requests = (IF i = 1 THEN old ELSE items[1].requests)
  OBVIOUS
<1> HIDE DEF old, q
<1>7. /\ rs \in Seq(Request) /\ rs[j] = q /\ \A k \in DOMAIN old : k # j => rs[k] = old[k]
      /\ \A x : Named(rs, x) = Named(old, x)
  <2>1. old \in Seq(Request) /\ j \in DOMAIN old /\ q \in Request /\ q.name = old[j].name
    BY <1>3, <1>4, <1>5
  <2> QED BY <2>1, RewrittenIs
<1> HIDE DEF rs
<1>8. /\ items' \in Seq(Folder) /\ FolderInv' /\ Found \subseteq {1}
      /\ items'[1].requests = IF i = 1 THEN rs ELSE items[1].requests
  BY <1>1, <1>2, <1>7, EditedIs DEF old
<1>9. PostmanTypeOK'
  BY <1>1, <1>2, <1>8 DEF PostmanTypeOK
<1>10. ASSUME i # 1 PROVE WrittenInv'
  <2>1. written' = written /\ items'[1].requests = items[1].requests
    BY <1>2, <1>8, <1>10
  <2> QED BY <1>1, <1>2, <2>1 DEF WrittenInv
<1>11. ASSUME i = 1 PROVE WrittenInv'
  <2>1. items'[1].requests = rs /\ items[1].requests = old
    BY <1>6, <1>8, <1>11
  <2>2. Kept(old, written, doubled, prefixed, lost, id)
    BY <1>1, <1>2, <2>1 DEF WrittenInv
  <2>3. \A k \in Named(old, "view") :
          k \in DOMAIN old /\ rs[k].path = old[k].path
          /\ (old[k].rest = "dev" => rs[k].rest = "dev")
    <3> TAKE k \in Named(old, "view")
    <3>1. k \in DOMAIN old
      BY DEF Named
    <3>2. CASE k = j
      BY <1>5, <1>7, <3>1, <3>2
    <3>3. CASE k # j
      BY <1>7, <3>1, <3>3
    <3> QED BY <3>1, <3>2, <3>3
  <2>4. Kept(rs, written, doubled, prefixed, lost, id)
    BY <1>7, <2>2, <2>3 DEF Kept
  <2>5. ASSUME old[j].name = "view" PROVE j \in Named(rs, "view") /\ rs[j].rest = "dev"
    BY <1>4, <1>5, <1>7, <2>5 DEF Named
  <2>6. Kept(rs, written \cup {"rest"}, doubled, prefixed, lost, id) \/ old[j].name # "view"
    BY <2>4, <2>5 DEF Kept
  <2> DEFINE w == written'
  <2>7. Kept(rs, w, doubled, prefixed, lost, id)
    BY <1>2, <2>4, <2>6
  <2> QED BY <1>2, <2>1, <2>7, WrittenHolds
<1> QED BY <1>8, <1>9, <1>10, <1>11 DEF CollectionInv

LEMMA EditValueInv ==
  ASSUME CollectionInv, NEW i \in DOMAIN items, NEW j \in DOMAIN items[i].requests, EditValue(i, j)
  PROVE  CollectionInv'
<1> DEFINE old == items[i].requests
           p == old[j].path
           v == [p EXCEPT ![Len(p)] = "dev"]
           q == [old[j] EXCEPT !.path = v]
           rs == [old EXCEPT ![j] = q]
<1>1. PostmanTypeOK /\ FolderInv /\ WrittenInv
  BY DEF CollectionInv
<1>2. /\ json = "json" /\ old[j].name = "view" /\ items' = [items EXCEPT ![i].requests = rs]
      /\ written' = (IF i \in Found THEN written \cup {"value"} ELSE written)
      /\ json' = json /\ id' = id /\ link' = link /\ made' = made
      /\ prefixed' = prefixed /\ doubled' = doubled /\ lost' = lost
  BY DEF EditValue
<1>3. /\ old \in Seq(Request) /\ DOMAIN old = 1 .. Len(old)
      /\ \A k \in 1 .. Len(old) : old[k] \in Request
  BY <1>1, RequestsAre
<1>4. j \in DOMAIN old /\ old[j] \in Request
  BY <1>3
<1>5. p \in Seq(Segments)
  BY <1>4, RequestIs
<1>6. /\ v \in Seq(Segments) /\ Len(v) = Len(p)
      /\ Len(p) = 3 => Last(v) = "dev"
  <2>1. Len(p) \in Nat /\ DOMAIN p = 1 .. Len(p) /\ \A k \in 1 .. Len(p) : p[k] \in Segments
    BY <1>5, SeqIs
  <2> HIDE DEF p
  <2>2. "dev" \in Segments
    BY DEF Segments
  <2>3. /\ v \in Seq(Segments) /\ Len(v) = Len(p)
        /\ Len(p) \in DOMAIN p => v[Len(p)] = "dev"
    BY <1>5, <2>2, ExceptIs
  <2>4. Len(p) = 3 => Len(p) \in DOMAIN p
    BY <2>1
  <2>5. Len(p) = 3 => v[Len(v)] = "dev"
    BY <2>3, <2>4
  <2> QED BY <2>3, <2>5 DEF Last
<1> HIDE DEF v
<1>7. q \in Request /\ q.name = old[j].name /\ q.path = v /\ q.rest = old[j].rest
  BY <1>4, <1>6, RequestIs
<1>8. items[1].requests = (IF i = 1 THEN old ELSE items[1].requests)
  OBVIOUS
<1> HIDE DEF old, q
<1>9. /\ rs \in Seq(Request) /\ rs[j] = q /\ \A k \in DOMAIN old : k # j => rs[k] = old[k]
      /\ \A x : Named(rs, x) = Named(old, x)
  <2>1. old \in Seq(Request) /\ j \in DOMAIN old /\ q \in Request /\ q.name = old[j].name
    BY <1>3, <1>4, <1>7
  <2> QED BY <2>1, RewrittenIs
<1> HIDE DEF rs
<1>10. /\ items' \in Seq(Folder) /\ FolderInv' /\ Found \subseteq {1}
       /\ items'[1].requests = IF i = 1 THEN rs ELSE items[1].requests
  BY <1>1, <1>2, <1>9, EditedIs DEF old
<1>11. PostmanTypeOK'
  BY <1>1, <1>2, <1>10 DEF PostmanTypeOK
<1>12. ASSUME i # 1 PROVE WrittenInv'
  <2>1. written' = written /\ items'[1].requests = items[1].requests
    BY <1>2, <1>10, <1>12
  <2> QED BY <1>1, <1>2, <2>1 DEF WrittenInv
<1>13. ASSUME i = 1 PROVE WrittenInv'
  <2>1. items'[1].requests = rs /\ items[1].requests = old
    BY <1>8, <1>10, <1>13
  <2>2. Kept(old, written, doubled, prefixed, lost, id)
    BY <1>1, <1>2, <2>1 DEF WrittenInv
  <2>3. \A k \in Named(old, "view") :
          /\ k \in DOMAIN old /\ rs[k].rest = old[k].rest
          /\ Len(old[k].path) = 3 =>
               Len(rs[k].path) = 3 /\ (Last(old[k].path) = "dev" => Last(rs[k].path) = "dev")
    <3> TAKE k \in Named(old, "view")
    <3>1. k \in DOMAIN old
      BY DEF Named
    <3>2. CASE k = j
      BY <1>6, <1>7, <1>9, <3>1, <3>2
    <3>3. CASE k # j
      BY <1>9, <3>1, <3>3
    <3> QED BY <3>1, <3>2, <3>3
  <2>4. Kept(rs, written, doubled, prefixed, lost, id)
    BY <1>9, <2>2, <2>3 DEF Kept
  <2>5. j \in Named(old, "view")
    BY <1>2, <1>4 DEF Named
  <2>6. ~prefixed => Last(rs[j].path) = "dev"
    BY <1>6, <1>7, <1>9, <2>2, <2>5 DEF Kept
  <2>7. Kept(rs, written \cup {"value"}, doubled, prefixed, lost, id)
    BY <1>9, <2>4, <2>5, <2>6 DEF Kept
  <2> DEFINE w == written'
  <2>8. Kept(rs, w, doubled, prefixed, lost, id)
    BY <1>2, <2>4, <2>7
  <2> QED BY <1>2, <2>1, <2>8, WrittenHolds
<1> QED BY <1>10, <1>11, <1>12, <1>13 DEF CollectionInv

LEMMA RenameFolderInv ==
  ASSUME CollectionInv, NEW name \in {"module", "other"}, RenameFolder(name) PROVE CollectionInv'
<1> DEFINE d == [items[1] EXCEPT !.name = name]
<1>1. PostmanTypeOK /\ FolderInv /\ WrittenInv
  BY DEF CollectionInv
<1>2. /\ json = "json" /\ items' = [items EXCEPT ![1] = d]
      /\ json' = json /\ id' = id /\ link' = link /\ made' = made
      /\ written' = written /\ prefixed' = prefixed /\ doubled' = doubled /\ lost' = lost
  BY DEF RenameFolder, collectionHistory
<1>3. /\ items \in Seq(Folder) /\ items[1] \in Folder
      /\ 1 \in DOMAIN items /\ DOMAIN items = 1 .. Len(items)
  BY <1>1, <1>2, ExistingIs, SeqIs DEF PostmanTypeOK
<1>4. d \in Folder /\ d.requests = items[1].requests
  <2> DEFINE R == Seq(Request)
  <2>1. items[1] \in [name : {"module", "other"}, requests : R]
    BY <1>3 DEF Folder
  <2> HIDE DEF R
  <2>2. d = [name |-> name, requests |-> items[1].requests] /\ items[1].requests \in R
    BY <2>1
  <2>3. d.requests = items[1].requests
    BY <2>2
  <2> HIDE DEF d
  <2> QED BY <1>3, <2>2, <2>3, FolderIs DEF R
<1> HIDE DEF d
<1>5. /\ items' \in Seq(Folder) /\ Len(items') = Len(items) /\ items'[1] = d
      /\ \A j \in DOMAIN items : j # 1 => items'[j] = items[j]
  BY <1>2, <1>3, <1>4, ExceptIs
<1>6. PostmanTypeOK'
  BY <1>1, <1>2, <1>5 DEF PostmanTypeOK
<1>7. DOMAIN items' = DOMAIN items
  BY <1>3, <1>5, SeqIs
<1>8. items' # <<>>
  BY <1>3, <1>7
<1>9. FolderInv'
  BY <1>1, <1>2, <1>4, <1>5, <1>7, <1>8 DEF FolderInv
<1>10. WrittenInv'
  BY <1>1, <1>2, <1>4, <1>5 DEF WrittenInv
<1> QED BY <1>6, <1>9, <1>10 DEF CollectionInv

LEMMA AddFolderInv ==
  ASSUME CollectionInv, AddFolder PROVE CollectionInv'
<1> DEFINE d == [name |-> "other", requests |-> <<>>]
<1>1. PostmanTypeOK /\ FolderInv /\ WrittenInv
  BY DEF CollectionInv
<1>2. /\ json = "json" /\ items' = Append(items, d)
      /\ json' = json /\ id' = id /\ link' = link /\ made' = made
      /\ written' = written /\ prefixed' = prefixed /\ doubled' = doubled /\ lost' = lost
  BY DEF AddFolder, collectionHistory
<1>3. items \in Seq(Folder) /\ Len(items) \in Nat /\ 1 \in DOMAIN items /\ DOMAIN items = 1 .. Len(items)
  BY <1>1, <1>2, SeqIs, ExistingIs DEF PostmanTypeOK
<1>4. d \in Folder /\ d.name = "other"
  <2>1. <<>> \in Seq(Request)
    OBVIOUS
  <2> QED BY <2>1, FolderIs
<1> HIDE DEF d
<1>5. /\ items' \in Seq(Folder) /\ Len(items') = Len(items) + 1
      /\ items'[Len(items) + 1] = d /\ \A j \in 1 .. Len(items) : items'[j] = items[j]
  BY <1>2, <1>3, <1>4, AppendProperties
<1>6. items' # <<>>
  BY <1>3, <1>5, EmptySeq
<1>7. PostmanTypeOK'
  BY <1>1, <1>2, <1>5 DEF PostmanTypeOK
<1>8. FolderInv'
  <2>1. \A j \in DOMAIN items' : j \in DOMAIN items \/ j = Len(items) + 1
    BY <1>3, <1>5, SeqIs
  <2>2. \A j \in DOMAIN items' : j # 1 => items'[j].name = "other"
    BY <1>1, <1>2, <1>3, <1>4, <1>5, <2>1 DEF FolderInv
  <2>3. items'[1] = items[1]
    BY <1>3, <1>5
  <2> QED BY <1>1, <1>2, <1>6, <2>2, <2>3 DEF FolderInv
<1>9. WrittenInv'
  BY <1>1, <1>2, <1>3, <1>5 DEF WrittenInv
<1> QED BY <1>7, <1>8, <1>9 DEF CollectionInv

LEMMA ImportInv ==
  ASSUME CollectionInv, Import PROVE CollectionInv'
<1>1. PostmanTypeOK /\ FolderInv /\ WrittenInv
  BY DEF CollectionInv
<1>2. /\ json = "json" /\ id' = DevId /\ link' = DevId /\ written' = written \cup {"id"}
      /\ json' = json /\ items' = items /\ made' = made
      /\ prefixed' = prefixed /\ doubled' = doubled /\ lost' = lost
  BY DEF Import
<1>3. PostmanTypeOK'
  BY <1>1, <1>2 DEF PostmanTypeOK, Ids, DevId
<1>4. FolderInv'
  BY <1>1, <1>2 DEF FolderInv
<1> DEFINE rs == items[1].requests
<1>5. Kept(rs, written, doubled, prefixed, lost, id)
  BY <1>1, <1>2 DEF WrittenInv
<1> HIDE DEF rs
<1>6. Kept(rs, written \cup {"id"}, doubled, prefixed, lost, DevId)
  BY <1>5 DEF Kept
<1>7. WrittenInv'
  BY <1>2, <1>6 DEF WrittenInv, rs
<1> QED BY <1>3, <1>4, <1>7 DEF CollectionInv

LEMMA EditItemsInv ==
  ASSUME CollectionInv, EditItems PROVE CollectionInv'
<1>1. ASSUME NEW i \in DOMAIN items, NEW n \in ToSet(ModelRoutes) \cup {"own"}, AddRequest(i, n)
      PROVE  CollectionInv'
  <2>1. n \in {"add", "view", "own"}
    BY ModelRoutesAre
  <2> QED BY <1>1, <2>1, AddRequestInv
<1>2. ASSUME NEW i \in DOMAIN items, NEW j \in DOMAIN items[i].requests,
             EditRequest(i, j) \/ EditValue(i, j)
      PROVE  CollectionInv'
  BY <1>2, EditRequestInv, EditValueInv
<1>3. ASSUME NEW name \in {"module", "other"}, RenameFolder(name) PROVE CollectionInv'
  BY <1>3, RenameFolderInv
<1>4. ASSUME AddFolder \/ Import PROVE CollectionInv'
  BY <1>4, AddFolderInv, ImportInv
<1> QED BY <1>1, <1>2, <1>3, <1>4, Zenon DEF EditItems

LEMMA CollectionInitInv == PostmanInit => CollectionInv
<1> SUFFICES ASSUME PostmanInit PROVE CollectionInv
  OBVIOUS
<1>1. items \in Seq(Folder) /\ items = <<>>
  BY DEF PostmanInit
<1>2. PostmanTypeOK
  BY <1>1 DEF PostmanInit, PostmanTypeOK, Ids, Template, DevId
<1> QED BY <1>2 DEF PostmanInit, CollectionInv, FolderInv, WrittenInv

LEMMA CollectionSame == CollectionInv /\ UNCHANGED postman => CollectionInv'
BY DEF CollectionInv, postman, collection, collectionHistory, PostmanTypeOK, FolderInv,
       WrittenInv, Kept, Named

-----------------------------------------------------------------------------
(* The constants and the types of the classic generator.                   *)

LEMMA ModuleFilesAre ==
  /\ BaseFiles \in Seq(ModuleFiles) /\ BaseFiles # <<>>
  /\ CtlFiles \in Seq(ModuleFiles) /\ CtlFiles # <<>>
  /\ BaseFiles \o CtlFiles \in Seq(ModuleFiles)
  /\ ToSet(BaseFiles \o CtlFiles) = ModuleFiles
  /\ ToSet(BaseFiles) \cup ToSet(CtlFiles) = ModuleFiles
  /\ Dto \in ModuleFiles /\ Controller \in ToSet(CtlFiles) /\ Controller \in ModuleFiles
<1>1. /\ BaseFiles \in Seq(ModuleFiles) /\ BaseFiles # <<>>
      /\ CtlFiles \in Seq(ModuleFiles) /\ CtlFiles # <<>>
  BY ClassicAssumption
<1>2. ToSet(BaseFiles \o CtlFiles) = ModuleFiles
  BY DEF ModuleFiles
<1> DEFINE T == ModuleFiles
<1>3. BaseFiles \in Seq(T) /\ CtlFiles \in Seq(T)
  BY <1>1
<1> HIDE DEF T
<1>4. /\ BaseFiles \o CtlFiles \in Seq(T)
      /\ ToSet(BaseFiles \o CtlFiles) = ToSet(BaseFiles) \cup ToSet(CtlFiles)
  BY <1>3, ConcatSet
<1>5. Len(BaseFiles) \in Nat /\ Len(BaseFiles) > 0 /\ Len(CtlFiles) \in Nat /\ Len(CtlFiles) > 0
  BY <1>1, <1>3, EmptySeq, LenProperties
<1>6. Dto \in T
  BY <1>3, <1>5 DEF Dto
<1>7. ToSet(CtlFiles) = {CtlFiles[i] : i \in 1 .. Len(CtlFiles)}
  BY <1>3, SeqIs
<1>8. Controller \in ToSet(CtlFiles)
  BY <1>5, <1>7 DEF Controller, Last
<1> QED BY <1>1, <1>2, <1>4, <1>6, <1>8 DEF T

LEMMA RunFilesAre ==
  /\ RunFiles \in Seq(ModuleFiles) /\ ToSet(RunFiles) \subseteq ModuleFiles
  /\ RunFiles \in Seq(ToSet(RunFiles))
  /\ ToSet(BaseFiles) \subseteq ToSet(RunFiles)
  /\ Given("ctl") => ToSet(RunFiles) = ModuleFiles
<1>1. /\ RunFiles \in Seq(ModuleFiles) /\ ToSet(BaseFiles) \subseteq ToSet(RunFiles)
      /\ (Given("ctl") => ToSet(RunFiles) = ModuleFiles)
  BY ModuleFilesAre DEF RunFiles
<1>2. ToSet(RunFiles) \subseteq ModuleFiles /\ RunFiles \in Seq(ToSet(RunFiles))
  <2> DEFINE s == RunFiles
             T == ModuleFiles
  <2>1. s \in Seq(T)
    BY <1>1
  <2> HIDE DEF s, T
  <2>2. /\ Len(s) \in Nat /\ DOMAIN s = 1 .. Len(s)
        /\ ToSet(s) = {s[i] : i \in 1 .. Len(s)} /\ ToSet(s) \subseteq T
    BY <2>1, SeqIs
  <2>3. s = [i \in 1 .. Len(s) |-> s[i]]
    BY <2>1, <2>2
  <2>4. \A i \in 1 .. Len(s) : s[i] \in ToSet(s)
    BY <2>2
  <2>5. s \in Seq(ToSet(s))
    <3> DEFINE U == ToSet(s)
    <3>1. \A i \in 1 .. Len(s) : s[i] \in U
      BY <2>4
    <3> HIDE DEF U
    <3>2. s \in Seq(U)
      BY <2>2, <2>3, <3>1
    <3> QED BY <3>2 DEF U
  <2> QED BY <2>2, <2>5 DEF s, T
<1> QED BY <1>1, <1>2

LEMMA RegistriesAre ==
  /\ ToSet(Registries) = {"repository", "usecase"}
  /\ RunRegistries \subseteq ToSet(Registries) /\ "repository" \in RunRegistries
  /\ Given("ctl") <=> "usecase" \in RunRegistries
  /\ LET s == IF Given("ctl") THEN Registries ELSE <<"repository">>
     IN  s \in Seq(RunRegistries) /\ ToSet(s) = RunRegistries
<1>1. DOMAIN Registries = 1 .. 2 /\ Registries[1] = "repository" /\ Registries[2] = "usecase"
  BY DEF Registries
<1>2. 1 .. 2 = {1, 2} /\ 1 .. 1 = {1}
  OBVIOUS
<1>3. ToSet(Registries) = {"repository", "usecase"}
  BY <1>1, <1>2 DEF ToSet
<1>4. DOMAIN <<"repository">> = 1 .. 1 /\ <<"repository">>[1] = "repository"
  OBVIOUS
<1>5. ToSet(<<"repository">>) = {"repository"}
  BY <1>2, <1>4 DEF ToSet
<1>6. Registries \in Seq({"repository", "usecase"}) /\ <<"repository">> \in Seq({"repository"})
  BY DEF Registries
<1>7. RunRegistries = IF Given("ctl") THEN {"repository", "usecase"} ELSE {"repository"}
  BY DEF RunRegistries
<1>8. CASE Given("ctl")
  BY <1>3, <1>6, <1>7, <1>8
<1>9. CASE ~Given("ctl")
  <2>1. RunRegistries = {"repository"} /\ "usecase" # "repository"
    BY <1>7, <1>9
  <2> QED BY <1>3, <1>5, <1>6, <1>9, <2>1
<1> QED BY <1>8, <1>9

RunTypes ==
  /\ pc \in {"idle", "tags", "files", "registries", "route", "handler", "services", "postman"}
  /\ todo \in Seq(ModuleFiles \cup ToSet(Registries))
  /\ queue \in Seq(Modules) /\ (queue = <<>> <=> pc = "idle")
  /\ flags \in FlagSets \cup {{}} /\ urlPath \in UrlPaths \cup {<<>>} /\ tags \in BOOLEAN
  /\ result \in {"none", "ok", "err"}
  /\ split \subseteq Modules /\ covered \subseteq Modules

ProjectTypes ==
  /\ file \in [Modules -> [ModuleFiles -> File]]
  /\ \A m \in Modules, f \in ModuleFiles :
       /\ file[m][f].reads # "go" => file[m][f].has = {}
       /\ "tag" \in file[m][f].has => f = Dto /\ "gen" \in file[m][f].has
  /\ intact \subseteq Shared
  /\ ifaces \in [ToSet(Registries) -> Seq(Modules)]
  /\ routes \in [Modules -> SUBSET Registered]
  /\ handler \in Handlers /\ services \in Services
  /\ incomplete \subseteq Modules \X (ModuleFiles \cup ToSet(Registries))

LEMMA ClassicTypes == ClassicTypeOK <=> RunTypes /\ ProjectTypes /\ PostmanTypeOK
BY DEF ClassicTypeOK, RunTypes, ProjectTypes

(* The run and the project, with the account that is kept of each.         *)
AccountInv == RunTypes /\ ControlInv /\ DoneInv /\ NowInv /\ TagsInv /\ OrderInv

ProjectInv == ProjectTypes /\ PartInv /\ OwnInv /\ ClassicResolves /\ ClassicNeverTwice

LEMMA ClassicParts == ClassicIInv <=> AccountInv /\ ProjectInv /\ CollectionInv
BY ClassicTypes DEF ClassicIInv, AccountInv, ProjectInv, CollectionInv

LEMMA HandlersAre ==
  LET M == Modules \cup {Own}
  IN  /\ \A h \in Handlers : h.fields \subseteq M /\ h.params \in Seq(M) /\ h.literal \subseteq M
      /\ \A F \in SUBSET M, s \in Seq(M), L \in SUBSET M :
           [fields |-> F, params |-> s, literal |-> L] \in Handlers
      /\ \A h \in Handlers, F \in SUBSET M :
           LET e == [h EXCEPT !.fields = F]
           IN  e \in Handlers /\ e.fields = F /\ e.params = h.params /\ e.literal = h.literal
<1> DEFINE M == Modules \cup {Own}
           S == Seq(M)
<1>1. Handlers = [fields : SUBSET M, params : S, literal : SUBSET M]
  BY DEF Handlers
<1> HIDE DEF M, S
<1>2. /\ \A h \in Handlers : h.fields \subseteq M /\ h.params \in S /\ h.literal \subseteq M
      /\ \A F \in SUBSET M, s \in S, L \in SUBSET M :
           [fields |-> F, params |-> s, literal |-> L] \in Handlers
  BY <1>1
<1>3. \A h \in Handlers, F \in SUBSET M :
        LET e == [h EXCEPT !.fields = F]
        IN  e \in Handlers /\ e.fields = F /\ e.params = h.params /\ e.literal = h.literal
  BY <1>1
<1> QED BY <1>2, <1>3 DEF M, S

LEMMA ServicesAre ==
  LET M == Modules \cup {Own}
  IN  /\ \A s \in Services : s.imports \subseteq Modules /\ s.ctrls \subseteq M /\ s.args \in Seq(M)
      /\ \A I \in SUBSET Modules, C \in SUBSET M, a \in Seq(M) :
           [imports |-> I, ctrls |-> C, args |-> a] \in Services
<1> DEFINE M == Modules \cup {Own}
           S == Seq(M)
<1>1. Services = [imports : SUBSET Modules, ctrls : SUBSET M, args : S]
  BY DEF Services
<1> HIDE DEF M, S
<1>2. /\ \A s \in Services : s.imports \subseteq Modules /\ s.ctrls \subseteq M /\ s.args \in S
      /\ \A I \in SUBSET Modules, C \in SUBSET M, a \in S :
           [imports |-> I, ctrls |-> C, args |-> a] \in Services
  BY <1>1
<1> QED BY <1>2, Zenon DEF M, S

LEMMA ClassicInitInv == ClassicInit => ClassicIInv
<1> SUFFICES ASSUME ClassicInit PROVE ClassicIInv
  OBVIOUS
<1>1. /\ file = [m \in Modules |-> [f \in ModuleFiles |-> Empty]]
      /\ intact = Shared /\ ifaces = [r \in ToSet(Registries) |-> <<>>]
      /\ routes = [m \in Modules |-> {}]
      /\ handler = [fields |-> {}, params |-> <<>>, literal |-> {}]
      /\ services = [imports |-> {}, ctrls |-> {}, args |-> <<>>]
      /\ pc = "idle" /\ todo = <<>> /\ result = "none" /\ queue = <<>>
      /\ flags = {} /\ urlPath = <<>> /\ tags = FALSE
      /\ incomplete = {} /\ split = {} /\ covered = {}
  BY DEF ClassicInit, RunInit
<1>2. CollectionInv
  BY CollectionInitInv DEF ClassicInit
<1>3. \A T : <<>> \in Seq(T)
  OBVIOUS
<1>4. ToSet(<<>>) = {} /\ IsInjective(<<>>)
  BY DEF ToSet, IsInjective
<1>5. AccountInv
  BY <1>1, <1>3
     DEF AccountInv, RunTypes, ControlInv, DoneInv, NowInv, TagsInv, OrderInv
<1>6. /\ handler.params = <<>> /\ handler.literal = {} /\ handler.fields = {}
      /\ services.args = <<>> /\ services.imports = {} /\ services.ctrls = {}
  BY <1>1
<1>7. \A m \in Modules, f \in ModuleFiles : file[m][f].reads = "absent" /\ file[m][f].has = {}
  BY <1>1 DEF Empty
<1>8. ProjectTypes
  <2>1. Empty \in File
    BY DEF Empty, File
  <2>2. file \in [Modules -> [ModuleFiles -> File]]
    BY <1>1, <2>1
  <2>3. handler \in Handlers
    BY <1>1, <1>3, HandlersAre
  <2>4. services \in Services
    <3> DEFINE M == Modules \cup {Own}
    <3>1. {} \in SUBSET Modules /\ {} \in SUBSET M /\ <<>> \in Seq(M)
      BY <1>3
    <3>2. \A I \in SUBSET Modules, C \in SUBSET M, a \in Seq(M) :
            [imports |-> I, ctrls |-> C, args |-> a] \in Services
      BY ServicesAre, Zenon
    <3> QED BY <1>1, <3>1, <3>2, Zenon
  <2>5. ifaces \in [ToSet(Registries) -> Seq(Modules)] /\ routes \in [Modules -> SUBSET Registered]
    BY <1>1, <1>3
  <2> QED BY <1>1, <1>7, <2>2, <2>3, <2>4, <2>5 DEF ProjectTypes
<1>9. PartInv /\ OwnInv /\ ClassicNeverTwice
  BY <1>1, <1>4, <1>6, <1>7 DEF PartInv, OwnInv, ClassicNeverTwice
<1>10. ClassicResolves
  <2>1. \A m \in Modules : routes[m] = {}
    BY <1>1
  <2> QED BY <1>4, <1>6, <2>1 DEF ClassicResolves
<1> QED BY <1>2, <1>5, <1>8, <1>9, <1>10, ClassicParts DEF ProjectInv

(* The project, which a step leaves as it is, or truncates or restores.    *)
LEMMA ProjectLike ==
  ProjectInv /\ UNCHANGED <<file, ifaces, routes, handler, services, incomplete>>
             /\ intact' \subseteq Shared => ProjectInv'
BY DEF ProjectInv, ProjectTypes, PartInv, FileSettled, OwnInv, ClassicResolves, ClassicNeverTwice

LEMMA ProjectSame == ProjectInv /\ UNCHANGED <<project, incomplete>> => ProjectInv'
BY ProjectLike DEF project, ProjectInv, ProjectTypes

(* The account of a run that ends with an error, and of the developer.     *)
LEMMA EndsErrAt ==
  ASSUME RunTypes, pc # "idle", EndsRun("err"), UNCHANGED <<flags, urlPath, tags, covered>>,
         split' \in SUBSET Modules, split' = {} => services'.args = handler'.params
  PROVE  AccountInv'
<1>1. pc' = "idle" /\ todo' = <<>> /\ result' = "err" /\ queue' = <<>>
  BY DEF EndsRun, Ends
<1>2. \A T : <<>> \in Seq(T)
  OBVIOUS
<1>3. RunTypes'
  BY <1>1, <1>2 DEF RunTypes
<1>4. ControlInv' /\ DoneInv' /\ NowInv' /\ TagsInv'
  BY <1>1 DEF ControlInv, DoneInv, NowInv, TagsInv
<1>5. OrderInv'
  BY <1>1 DEF OrderInv
<1> QED BY <1>3, <1>4, <1>5 DEF AccountInv

LEMMA EndsErr ==
  ASSUME RunTypes, OrderInv, pc \notin {"idle", "services"}, EndsRun("err"),
         UNCHANGED <<handler, services, flags, urlPath, tags, covered, split>>
  PROVE  AccountInv'
<1>1. split' \in SUBSET Modules /\ (split' = {} => services'.args = handler'.params)
  BY DEF RunTypes, OrderInv
<1> QED BY <1>1, EndsErrAt

LEMMA EditAccount ==
  ASSUME AccountInv, ClassicEdit PROVE OrderInv' => AccountInv'
<1>1. /\ pc = "idle" /\ covered' = {}
      /\ UNCHANGED <<pc, todo, queue, flags, urlPath, tags, result, split>>
  BY DEF ClassicEdit, runInput
<1>2. RunTypes'
  BY <1>1 DEF AccountInv, RunTypes
<1>3. ControlInv'
  BY <1>1 DEF AccountInv, ControlInv
<1>4. DoneInv' /\ NowInv' /\ TagsInv'
  BY <1>1 DEF DoneInv, NowInv, TagsInv
<1> QED BY <1>2, <1>3, <1>4 DEF AccountInv

(* Of a module the run has left behind, nothing is undone.                 *)
LEMMA DoneKept ==
  ASSUME NEW m, ModuleDone(m), flags' = flags,
         \A f \in ModuleFiles : file'[m][f] = file[m][f],
         \A f \in ModuleFiles : <<m, f>> \in incomplete => <<m, f>> \in incomplete',
         \A r \in ToSet(Registries) : m \in ToSet(ifaces[r]) => m \in ToSet(ifaces'[r]),
         routes[m] = Registered => routes'[m] = Registered,
         InHandler(m) => InHandler(m)',
         InServices(m) => InServices(m)',
         json = "json" /\ CollectionComplete => json' = "json" /\ CollectionComplete'
  PROVE  ModuleDone(m)'
<1>1. RunFiles' = RunFiles /\ RunRegistries' = RunRegistries
      /\ \A x : Given(x)' <=> Given(x)
  BY DEF RunFiles, RunRegistries, Given
<1>2. FilesSettled(m)'
  BY <1>1, RunFilesAre DEF ModuleDone, FilesSettled, FileSettled
<1>3. InRegistries(m)'
  BY <1>1, RegistriesAre DEF ModuleDone, InRegistries
<1> QED BY <1>1, <1>2, <1>3 DEF ModuleDone

(* As long as a step leaves the flags as they are, it is still about the   *)
(* same files and registries.                                              *)
LEMMA FlagsSame ==
  flags' = flags => /\ RunFiles' = RunFiles /\ RunRegistries' = RunRegistries
                    /\ (Writes' <=> Writes) /\ (\A x : Given(x)' <=> Given(x))
BY DEF RunFiles, RunRegistries, Given, Writes

LEMMA NowIs ==
  ASSUME RunTypes, pc # "idle"
  PROVE  /\ Now \in Modules /\ Now \in ToSet(queue) /\ queue # <<>> /\ queue \in Seq(Modules)
         /\ Tail(queue) \in Seq(Modules) /\ ToSet(queue) = {Now} \cup ToSet(Tail(queue))
         /\ (Len(queue) = 1 <=> Tail(queue) = <<>>)
<1>1. queue \in Seq(Modules) /\ queue # <<>>
  BY DEF RunTypes
<1> QED BY <1>1, TailIs DEF Now

LEMMA CompleteSame ==
  UNCHANGED postman => json' = json /\ (CollectionComplete => CollectionComplete')
<1> SUFFICES ASSUME UNCHANGED postman
             PROVE  json' = json /\ (CollectionComplete => CollectionComplete')
  OBVIOUS
<1>1. json' = json /\ items' = items /\ lost' = lost /\ id' = id /\ link' = link
  BY DEF postman, collection, collectionHistory
<1>2. ExistingRequests' = ExistingRequests
  BY <1>1 DEF ExistingRequests, Found
<1> QED BY <1>1, <1>2 DEF CollectionComplete, Named

LEMMA DoneSame ==
  ASSUME NEW m, ModuleDone(m), UNCHANGED <<project, postman, flags, incomplete>>
  PROVE  ModuleDone(m)'
<1>1. /\ file' = file /\ ifaces' = ifaces /\ routes' = routes /\ handler' = handler
      /\ services' = services /\ flags' = flags /\ incomplete' = incomplete
  BY DEF project
<1>2. json' = json /\ (CollectionComplete => CollectionComplete')
  BY CompleteSame
<1>3. (InHandler(m) => InHandler(m)') /\ (InServices(m) => InServices(m)')
  BY <1>1 DEF InHandler, InServices
<1>4. \A f \in ModuleFiles : file'[m][f] = file[m][f]
  BY <1>1
<1>5. \A r \in ToSet(Registries) : m \in ToSet(ifaces[r]) => m \in ToSet(ifaces'[r])
  BY <1>1
<1> QED BY <1>1, <1>2, <1>3, <1>4, <1>5, DoneKept

(* A step of a run at the same module.                                     *)
LEMMA DoneStep ==
  ASSUME DoneInv, pc # "idle", UNCHANGED <<flags, queue, covered>>,
         \A m \in covered \ ToSet(queue) : ModuleDone(m) => ModuleDone(m)'
  PROVE  DoneInv'
<1>1. ASSUME Writes', NEW m \in covered \ ToSet(queue) PROVE ModuleDone(m)'
  <2>1. Writes
    BY <1>1, FlagsSame
  <2>2. ModuleDone(m)
    BY <1>1, <2>1 DEF DoneInv
  <2> QED BY <1>1, <2>2
<1>2. covered' = covered /\ queue' = queue
  OBVIOUS
<1> QED BY <1>1, <1>2 DEF DoneInv

LEMMA ClassicRunInv == ASSUME ClassicIInv, ClassicRun PROVE ClassicIInv'
<1>1. AccountInv /\ ProjectInv /\ CollectionInv
  BY ClassicParts
<1>2. /\ pc = "idle" /\ pc' = "tags" /\ result' = "none"
      /\ queue' \in Queues /\ flags' \in FlagSets
      /\ urlPath' \in (IF "postman" \in flags' THEN UrlPaths ELSE {<<>>})
      /\ covered' = ToSet(queue')
      /\ UNCHANGED <<project, postman, todo, tags, incomplete, split>>
  BY DEF ClassicRun
<1>3. queue' \in Seq(Modules) /\ queue' # <<>> /\ ToSet(queue') \subseteq Modules
  <2>1. queue' \in Seq(Modules) /\ queue' # <<>>
    BY <1>2, ClassicAssumption
  <2> QED BY <2>1, SeqIs
<1>4. RunTypes'
  BY <1>1, <1>2, <1>3 DEF AccountInv, RunTypes
<1>5. ControlInv'
  BY <1>1, <1>2 DEF AccountInv, ControlInv
<1>6. DoneInv' /\ NowInv' /\ TagsInv'
  BY <1>2 DEF DoneInv, NowInv, TagsInv
<1>7. OrderInv'
  BY <1>1, <1>2 DEF AccountInv, OrderInv, project
<1>8. ProjectInv' /\ CollectionInv'
  BY <1>1, <1>2, ProjectSame, CollectionSame
<1>9. AccountInv'
  BY <1>4, <1>5, <1>6, <1>7 DEF AccountInv
<1> QED BY <1>8, <1>9, ClassicParts, PTL

LEMMA ReadTagsInv == ASSUME ClassicIInv, ReadTags PROVE ClassicIInv'
<1>1. AccountInv /\ ProjectInv /\ CollectionInv
  BY ClassicParts
<1>2. /\ pc = "tags"
      /\ UNCHANGED <<project, postman, flags, urlPath, incomplete, split, covered>>
  BY DEF ReadTags, classicHistory
<1>3. ProjectInv' /\ CollectionInv'
  BY <1>1, <1>2, ProjectSame, CollectionSame
<1>4. CASE file[Now][Dto].reads \in {"absent", "go"}
  <2>1. /\ tags' = ("tag" \in file[Now][Dto].has) /\ pc' = "files" /\ todo' = RunFiles
        /\ queue' = queue /\ result' = result
    BY <1>4 DEF ReadTags, RunFiles
  <2>2. RunTypes'
    <3>1. RunFiles \in Seq(ModuleFiles \cup ToSet(Registries))
      <4>1. RunFiles \in Seq(ModuleFiles)
        BY RunFilesAre
      <4> QED BY <4>1
    <3> QED BY <1>1, <1>2, <2>1, <3>1 DEF AccountInv, RunTypes
  <2>3. ControlInv'
    <3>1. RunFiles' = RunFiles
      BY <1>2, FlagsSame
    <3> QED BY <2>1, <3>1, RunFilesAre DEF ControlInv
  <2>4. DoneInv'
    <3>1. \A m \in covered \ ToSet(queue) : ModuleDone(m) => ModuleDone(m)'
      BY <1>2, DoneSame
    <3> QED BY <1>1, <1>2, <2>1, <3>1, DoneStep DEF AccountInv
  <2>5. NowInv'
    <3>1. RunFiles' = RunFiles
      BY <1>2, FlagsSame
    <3> QED BY <2>1, <3>1 DEF NowInv
  <2>6. TagsInv'
    BY <1>2, <2>1 DEF TagsInv, project, Now
  <2>7. OrderInv'
    BY <1>1, <1>2, <2>1 DEF AccountInv, OrderInv, project
  <2>8. AccountInv'
    BY <2>2, <2>3, <2>4, <2>5, <2>6, <2>7 DEF AccountInv
  <2> QED BY <1>3, <2>8, ClassicParts, PTL
<1>5. CASE file[Now][Dto].reads \notin {"absent", "go"}
  <2>1. EndsRun("err") /\ tags' = tags
    BY <1>5 DEF ReadTags
  <2>2. AccountInv'
    BY <1>1, <1>2, <2>1, EndsErr DEF AccountInv, RunTypes, project
  <2> QED BY <1>3, <2>2, ClassicParts, PTL
<1> QED BY <1>4, <1>5

LEMMA ReadTagsFailsInv == ASSUME ClassicIInv, ReadTagsFails PROVE ClassicIInv'
<1>1. AccountInv /\ ProjectInv /\ CollectionInv
  BY ClassicParts
<1>2. /\ pc = "tags" /\ EndsRun("err")
      /\ UNCHANGED <<project, postman, flags, urlPath, tags, incomplete, split, covered>>
  BY DEF ReadTagsFails, classicHistory
<1>3. AccountInv'
  BY <1>1, <1>2, EndsErr DEF AccountInv, RunTypes, project
<1>4. ProjectInv' /\ CollectionInv'
  BY <1>1, <1>2, ProjectSame, CollectionSame
<1> QED BY <1>3, <1>4, ClassicParts, PTL

LEMMA FileRefusedInv == ASSUME ClassicIInv, NEW f, FileRefused(f) PROVE ClassicIInv'
<1>1. AccountInv /\ ProjectInv /\ CollectionInv
  BY ClassicParts
<1>2. /\ pc = "files" /\ EndsRun("err")
      /\ UNCHANGED <<project, postman, flags, urlPath, tags, incomplete, split, covered>>
  BY DEF FileRefused, classicHistory
<1>3. AccountInv'
  BY <1>1, <1>2, EndsErr DEF AccountInv, RunTypes, project
<1>4. ProjectInv' /\ CollectionInv'
  BY <1>1, <1>2, ProjectSame, CollectionSame
<1> QED BY <1>3, <1>4, ClassicParts, PTL

LEMMA ReadRegistriesInv == ASSUME ClassicIInv, ReadRegistries PROVE ClassicIInv'
<1>1. AccountInv /\ ProjectInv /\ CollectionInv
  BY ClassicParts
<1> DEFINE s == IF Given("ctl") THEN Registries ELSE <<"repository">>
<1>2. /\ pc = "files" /\ todo = <<>> /\ pc' = "registries" /\ todo' = s
      /\ UNCHANGED <<project, postman, queue, flags, urlPath, tags, result,
                     incomplete, split, covered>>
  BY DEF ReadRegistries, runInput, classicHistory
<1>3. s \in Seq(RunRegistries) /\ ToSet(s) = RunRegistries /\ RunRegistries \subseteq ToSet(Registries)
  BY RegistriesAre
<1> HIDE DEF s
<1>4. /\ RunFiles' = RunFiles /\ RunRegistries' = RunRegistries /\ (Writes' <=> Writes)
  BY <1>2, FlagsSame
<1>5. RunTypes'
  <2>1. s \in Seq(ModuleFiles \cup ToSet(Registries))
    <3> DEFINE T == RunRegistries
               U == ModuleFiles \cup ToSet(Registries)
    <3>1. s \in Seq(T) /\ T \subseteq U
      BY <1>3
    <3> HIDE DEF T, U
    <3>2. s \in Seq(U)
      BY <3>1
    <3> QED BY <3>2 DEF U
  <2> QED BY <1>1, <1>2, <2>1 DEF AccountInv, RunTypes
<1>6. ControlInv'
  BY <1>2, <1>3, <1>4 DEF ControlInv
<1>7. DoneInv'
  <2>1. \A m \in covered \ ToSet(queue) : ModuleDone(m) => ModuleDone(m)'
    BY <1>2, DoneSame
  <2> QED BY <1>1, <1>2, <2>1, DoneStep DEF AccountInv
<1>8. NowInv'
  <2>1. Now' = Now /\ (\A f : FileSettled(Now, f) => FileSettled(Now, f)')
    BY <1>2 DEF project, Now, FileSettled
  <2>2. ASSUME Writes PROVE FilesSettled(Now)'
    <3>1. ToSet(todo) = {}
      BY <1>2 DEF ToSet
    <3>2. \A f \in ToSet(RunFiles) : FileSettled(Now, f)
      BY <1>1, <1>2, <2>2, <3>1 DEF AccountInv, NowInv
    <3> QED BY <1>4, <2>1, <3>2 DEF FilesSettled
  <2> QED BY <1>2, <1>3, <1>4, <2>2 DEF NowInv
<1>9. TagsInv'
  BY <1>2 DEF TagsInv
<1>10. OrderInv'
  BY <1>1, <1>2 DEF AccountInv, OrderInv, project
<1>11. AccountInv'
  BY <1>5, <1>6, <1>7, <1>8, <1>9, <1>10 DEF AccountInv
<1>12. ProjectInv' /\ CollectionInv'
  BY <1>1, <1>2, ProjectSame, CollectionSame
<1> QED BY <1>11, <1>12, ClassicParts, PTL

(* A module's file is written, cut or edited: it has all that is generated *)
(* into it, or is known to be incomplete.                                  *)
LEMMA ProjectFile ==
  ASSUME ProjectInv, NEW n \in Modules, NEW f \in ModuleFiles, NEW x \in File,
         file' = [file EXCEPT ![n][f] = x],
         UNCHANGED <<intact, ifaces, routes, handler, services>>,
         x.reads # "go" => x.has = {},
         "tag" \in x.has => f = Dto /\ "gen" \in x.has,
         incomplete' \in SUBSET (Modules \X (ModuleFiles \cup ToSet(Registries))),
         \A m, g : <<m, g>> # <<n, f>> => (<<m, g>> \in incomplete' <=> <<m, g>> \in incomplete),
         "gen" \in x.has \/ <<n, f>> \in incomplete'
  PROVE  /\ ProjectInv' /\ file'[n][f] = x
         /\ \A m \in Modules, g \in ModuleFiles : m # n \/ g # f => file'[m][g] = file[m][g]
<1>1. ProjectTypes /\ PartInv /\ OwnInv /\ ClassicResolves /\ ClassicNeverTwice
  BY DEF ProjectInv
<1>2. /\ file' \in [Modules -> [ModuleFiles -> File]]
      /\ file'[n][f] = x
      /\ \A m \in Modules, g \in ModuleFiles : m # n \/ g # f => file'[m][g] = file[m][g]
  BY <1>1 DEF ProjectTypes
<1>3. ProjectTypes'
  <2>1. ASSUME NEW m \in Modules, NEW g \in ModuleFiles
        PROVE  /\ file'[m][g].reads # "go" => file'[m][g].has = {}
               /\ "tag" \in file'[m][g].has => g = Dto /\ "gen" \in file'[m][g].has
    <3>1. CASE m = n /\ g = f
      BY <1>2, <3>1
    <3>2. CASE m # n \/ g # f
      <4>1. file'[m][g] = file[m][g]
        BY <1>2, <3>2
      <4> QED BY <1>1, <4>1 DEF ProjectTypes
    <3> QED BY <3>1, <3>2
  <2>2. Dto' = Dto
    BY DEF Dto
  <2>3. UNCHANGED <<intact, ifaces, routes, handler, services>>
    OBVIOUS
  <2>4. /\ intact \subseteq Shared /\ ifaces \in [ToSet(Registries) -> Seq(Modules)]
        /\ routes \in [Modules -> SUBSET Registered] /\ handler \in Handlers /\ services \in Services
    BY <1>1 DEF ProjectTypes
  <2> QED BY <1>2, <2>1, <2>3, <2>4 DEF ProjectTypes
<1>4. ASSUME NEW m \in Modules, NEW g \in ModuleFiles, m # n \/ g # f
      PROVE  file'[m][g] = file[m][g] /\ (<<m, g>> \in incomplete' <=> <<m, g>> \in incomplete)
  <2>1. <<m, g>> # <<n, f>>
    BY <1>4
  <2> QED BY <1>2, <1>4, <2>1
<1>5. PartInv'
  <2>1. ASSUME NEW m \in Modules, NEW g \in ModuleFiles, "part" \in file'[m][g].has
        PROVE  FileSettled(m, g)'
    <3>1. CASE m = n /\ g = f
      BY <1>2, <2>1, <3>1 DEF FileSettled
    <3>2. CASE m # n \/ g # f
      <4>1. file'[m][g] = file[m][g] /\ (<<m, g>> \in incomplete' <=> <<m, g>> \in incomplete)
        BY <1>4, <3>2
      <4>2. FileSettled(m, g)
        BY <1>1, <2>1, <4>1 DEF PartInv
      <4> QED BY <4>1, <4>2 DEF FileSettled
    <3> QED BY <3>1, <3>2
  <2> QED BY <2>1 DEF PartInv
<1>6. OwnInv' /\ ClassicNeverTwice'
  BY <1>1 DEF OwnInv, ClassicNeverTwice
<1>7. ASSUME NEW m \in Modules, NEW g \in ModuleFiles,
             "gen" \in file[m][g].has \/ <<m, g>> \in incomplete
      PROVE  "gen" \in file'[m][g].has \/ <<m, g>> \in incomplete'
  <2>1. CASE m = n /\ g = f
    BY <1>2, <2>1
  <2>2. CASE m # n \/ g # f
    BY <1>4, <1>7, <2>2
  <2> QED BY <2>1, <2>2
<1>8. ClassicResolves'
  <2>1. Controller \in ModuleFiles /\ \A g \in ToSet(CtlFiles) : g \in ModuleFiles
    BY ModuleFilesAre
  <2>2. \A m : <<m, "usecase">> \in incomplete <=> <<m, "usecase">> \in incomplete'
    <3>1. "usecase" # f
      BY RegistriesAre, ClassicAssumption
    <3> QED BY <3>1
  <2>3. ASSUME NEW m \in Modules
        PROVE  /\ routes[m] # {} =>
                    /\ "import" \in routes[m]
                    /\ "gen" \in file'[m][Controller].has \/ <<m, Controller>> \in incomplete'
               /\ m \in ToSet(handler.params) =>
                    /\ m \in handler.literal
                    /\ m \in ToSet(ifaces["usecase"]) \/ <<m, "usecase">> \in incomplete'
               /\ m \in ToSet(services.args) =>
                    /\ m \in services.ctrls \cap services.imports
                    /\ \A g \in ToSet(CtlFiles) :
                         "gen" \in file'[m][g].has \/ <<m, g>> \in incomplete'
    <3>1. /\ routes[m] # {} =>
               /\ "import" \in routes[m]
               /\ "gen" \in file[m][Controller].has \/ <<m, Controller>> \in incomplete
          /\ m \in ToSet(handler.params) =>
               /\ m \in handler.literal
               /\ m \in ToSet(ifaces["usecase"]) \/ <<m, "usecase">> \in incomplete
          /\ m \in ToSet(services.args) =>
               /\ m \in services.ctrls \cap services.imports
               /\ \A g \in ToSet(CtlFiles) : "gen" \in file[m][g].has \/ <<m, g>> \in incomplete
      BY <1>1 DEF ClassicResolves
    <3> QED BY <1>7, <2>1, <2>2, <3>1
  <2>4. UNCHANGED <<ifaces, routes, handler, services>>
    OBVIOUS
  <2> QED BY <2>3, <2>4, Zenon DEF ClassicResolves
<1> QED BY <1>2, <1>3, <1>5, <1>6, <1>8 DEF ProjectInv

LEMMA RenderedIs ==
  ASSUME RunTypes, ProjectTypes, TagsInv, pc = "files", NEW f \in ModuleFiles
  PROVE  LET x == Rendered(f)
         IN  /\ x \in File /\ x.reads = "go" /\ "gen" \in x.has
             /\ "tag" \in x.has => f = Dto /\ tags
             /\ "own" \in file[Now][f].has =>
                  "own" \in x.has \/ Given("force") \/ Given("hard") \/ file[Now][f].reads = "blank"
<1> DEFINE o == file[Now][f]
<1>1. Now \in Modules
  BY NowIs
<1>2. o \in File /\ ("tag" \in o.has => f = Dto)
  BY <1>1 DEF ProjectTypes
<1>3. f = Dto /\ "tag" \in o.has => tags
  BY DEF TagsInv
<1> HIDE DEF o
<1>4. /\ o.has \subseteq {"gen", "part", "own", "tag"}
      /\ \A h \in SUBSET {"gen", "part", "own", "tag"} : [reads |-> "go", has |-> h] \in File
  BY <1>2 DEF File
<1>5. CASE Rendered(f) = Whole(f)
  <2> DEFINE h == {"gen"} \cup (IF f = Dto /\ tags THEN {"tag"} ELSE {})
  <2>1. h \subseteq {"gen", "part", "own", "tag"} /\ "gen" \in h /\ ("tag" \in h => f = Dto /\ tags)
    OBVIOUS
  <2> HIDE DEF h
  <2>2. Whole(f) = [reads |-> "go", has |-> h]
    BY DEF Whole, h
  <2>3. "own" \in o.has => Given("force") \/ Given("hard") \/ o.reads = "blank" \/ Rendered(f) # Whole(f) \/ "own" \in h
    <3>1. ASSUME ~Given("force"), ~Given("hard"), o.reads # "blank", "own" \in o.has
          PROVE  "own" \in h
      <4>1. o.reads # "absent"
        BY <1>1, <3>1 DEF o, ProjectTypes
      <4>2. Rendered(f) = [reads |-> "go", has |-> o.has \cup {"gen"}]
        BY <3>1, <4>1 DEF Rendered, o
      <4> QED BY <1>5, <2>2, <3>1, <4>2
    <3> QED BY <3>1
  <2> QED BY <1>4, <1>5, <2>1, <2>2, <2>3 DEF o
<1>6. CASE Rendered(f) # Whole(f)
  <2>1. Rendered(f) = [reads |-> "go", has |-> o.has \cup {"gen"}]
    BY <1>6 DEF Rendered, o
  <2>2. o.has \cup {"gen"} \in SUBSET {"gen", "part", "own", "tag"}
    BY <1>4
  <2> QED BY <1>2, <1>3, <1>4, <2>1, <2>2 DEF o
<1> QED BY <1>5, <1>6

LEMMA NextModuleFile ==
  ASSUME RunTypes, ControlInv, pc = "files", todo # <<>>
  PROVE  /\ Head(todo) \in ToSet(RunFiles) /\ Head(todo) \in ModuleFiles
         /\ Tail(todo) \in Seq(ToSet(RunFiles)) /\ Tail(todo) \in Seq(ModuleFiles \cup ToSet(Registries))
         /\ ToSet(todo) = {Head(todo)} \cup ToSet(Tail(todo))
<1> DEFINE T == ToSet(RunFiles)
           U == ModuleFiles \cup ToSet(Registries)
<1>1. todo \in Seq(T) /\ todo \in Seq(U) /\ T \subseteq ModuleFiles
  BY RunFilesAre DEF ControlInv, RunTypes
<1> HIDE DEF T, U
<1>2. Head(todo) \in T /\ Tail(todo) \in Seq(T) /\ ToSet(todo) = {Head(todo)} \cup ToSet(Tail(todo))
  BY <1>1, TailIs
<1>3. Tail(todo) \in Seq(U)
  BY <1>1, TailIs
<1> QED BY <1>1, <1>2, <1>3 DEF T, U

LEMMA WriteModuleFileInv == ASSUME ClassicIInv, NEW f, WriteModuleFile(f) PROVE ClassicIInv'
<1>1. AccountInv /\ ProjectInv /\ CollectionInv
  BY ClassicParts
<1>2. /\ RunTypes /\ ControlInv /\ DoneInv /\ NowInv /\ TagsInv /\ OrderInv
      /\ ProjectTypes /\ PartInv
  BY <1>1 DEF AccountInv, ProjectInv
<1>3. /\ pc = "files" /\ todo # <<>> /\ f = Head(todo) /\ todo' = Tail(todo) /\ pc' = pc
      /\ UNCHANGED <<intact, ifaces, routes, handler, services, postman,
                     queue, flags, urlPath, tags, result, split, covered>>
  BY DEF WriteModuleFile, runInput
<1>4. /\ f \in ToSet(RunFiles) /\ f \in ModuleFiles
      /\ Tail(todo) \in Seq(ToSet(RunFiles)) /\ Tail(todo) \in Seq(ModuleFiles \cup ToSet(Registries))
      /\ ToSet(todo) = {f} \cup ToSet(Tail(todo))
  BY <1>2, <1>3, NextModuleFile
<1>5. /\ Now \in Modules /\ Now \in ToSet(queue) /\ Now' = Now
  BY <1>2, <1>3, NowIs DEF Now
<1>6. /\ RunFiles' = RunFiles /\ RunRegistries' = RunRegistries /\ (Writes' <=> Writes)
      /\ \A x : Given(x)' <=> Given(x)
  BY <1>3, FlagsSame
<1>7. \/ file' = file /\ incomplete' = incomplete /\ (Writes => Skipped(f))
      \/ file' = [file EXCEPT ![Now][f] = Rendered(f)] /\ incomplete' = incomplete \ {<<Now, f>>}
  BY DEF WriteModuleFile
<1> DEFINE x == Rendered(f)
<1>8. x \in File /\ x.reads = "go" /\ "gen" \in x.has /\ ("tag" \in x.has => f = Dto /\ tags)
  BY <1>2, <1>3, <1>4, RenderedIs
<1> HIDE DEF x
<1>9. /\ ProjectInv'
      /\ \A m \in Modules, g \in ModuleFiles : m # Now \/ g # f => file'[m][g] = file[m][g]
      /\ \A m, g : <<m, g>> # <<Now, f>> => (<<m, g>> \in incomplete' <=> <<m, g>> \in incomplete)
      /\ file' = file \/ file'[Now][f] = x
      /\ Writes => "gen" \in file'[Now][f].has \/ FileSettled(Now, f)'
  <2>1. CASE file' = file /\ incomplete' = incomplete /\ (Writes => Skipped(f))
    <3>1. ProjectInv'
      BY <1>1, <1>3, <2>1, ProjectSame DEF project
    <3>2. Writes => "gen" \in file[Now][f].has \/ FileSettled(Now, f)
      BY <1>2, <1>4, <1>5, <2>1 DEF Skipped, TargetFound, PartInv
    <3>3. FileSettled(Now, f)' <=> FileSettled(Now, f)
      BY <1>5, <2>1 DEF FileSettled
    <3> QED BY <2>1, <3>1, <3>2, <3>3
  <2>2. CASE file' = [file EXCEPT ![Now][f] = x] /\ incomplete' = incomplete \ {<<Now, f>>}
    <3>1. incomplete' \in SUBSET (Modules \X (ModuleFiles \cup ToSet(Registries)))
      BY <1>2, <2>2 DEF ProjectTypes
    <3>2. UNCHANGED <<intact, ifaces, routes, handler, services>>
      BY <1>3
    <3>3. \A m, g : <<m, g>> # <<Now, f>> => (<<m, g>> \in incomplete' <=> <<m, g>> \in incomplete)
      BY <2>2
    <3>4. /\ ProjectInv' /\ file'[Now][f] = x
          /\ \A m \in Modules, g \in ModuleFiles : m # Now \/ g # f => file'[m][g] = file[m][g]
      <4>1. /\ x.reads # "go" => x.has = {}
            /\ "tag" \in x.has => f = Dto /\ "gen" \in x.has
            /\ "gen" \in x.has \/ <<Now, f>> \in incomplete'
            /\ x \in File /\ Now \in Modules /\ f \in ModuleFiles
        BY <1>4, <1>5, <1>8
      <4>2. ProjectInv /\ file' = [file EXCEPT ![Now][f] = x]
        BY <1>1, <2>2
      <4>3. ProjectInv'
        BY <3>1, <3>2, <3>3, <4>1, <4>2, ProjectFile
      <4>4. /\ file'[Now][f] = x
            /\ \A m \in Modules, g \in ModuleFiles : m # Now \/ g # f => file'[m][g] = file[m][g]
        BY <1>2, <4>1, <4>2 DEF ProjectTypes
      <4> QED BY <4>3, <4>4
    <3> QED BY <1>8, <3>3, <3>4
  <2> QED BY <1>7, <2>1, <2>2 DEF x
<1>10. RunTypes'
  BY <1>2, <1>3, <1>4 DEF RunTypes
<1>11. ControlInv'
  BY <1>2, <1>3, <1>4, <1>6 DEF ControlInv
<1>12. DoneInv'
  <2>1. ASSUME NEW m \in covered \ ToSet(queue), ModuleDone(m) PROVE ModuleDone(m)'
    <3>1. m \in Modules /\ m # Now
      BY <1>2, <1>5 DEF RunTypes
    <3>2. \A g \in ModuleFiles : file'[m][g] = file[m][g]
      BY <1>9, <3>1
    <3>3. \A g \in ModuleFiles : <<m, g>> \in incomplete => <<m, g>> \in incomplete'
      BY <1>9, <3>1
    <3>4. (InHandler(m) => InHandler(m)') /\ (InServices(m) => InServices(m)')
      BY <1>3 DEF InHandler, InServices
    <3>5. json = "json" /\ CollectionComplete => json' = "json" /\ CollectionComplete'
      BY <1>3, CompleteSame
    <3> QED BY <1>3, <2>1, <3>2, <3>3, <3>4, <3>5, DoneKept
  <2> QED BY <1>2, <1>3, <2>1, DoneStep
<1>13. NowInv'
  <2>1. ASSUME Writes, NEW g \in ToSet(RunFiles) \ ToSet(Tail(todo)) PROVE FileSettled(Now, g)'
    <3>1. CASE g = f
      BY <1>5, <1>9, <2>1, <3>1 DEF FileSettled
    <3>2. CASE g # f
      <4>1. FileSettled(Now, g)
        BY <1>2, <1>3, <1>4, <2>1, <3>2 DEF NowInv
      <4>2. g \in ModuleFiles
        BY RunFilesAre
      <4>3. file'[Now][g] = file[Now][g]
        BY <1>5, <1>9, <3>2, <4>2
      <4>4. <<Now, g>> # <<Now, f>>
        BY <3>2
      <4>5. <<Now, g>> \in incomplete => <<Now, g>> \in incomplete'
        BY <1>9, <4>4
      <4> QED BY <1>5, <4>1, <4>3, <4>5 DEF FileSettled
    <3> QED BY <3>1, <3>2
  <2> QED BY <1>3, <1>5, <1>6, <2>1 DEF NowInv
<1>14. TagsInv'
  <2>1. ASSUME "tag" \in file'[Now][Dto].has PROVE tags
    <3>1. CASE file'[Now][Dto] = file[Now][Dto]
      BY <1>2, <1>3, <2>1, <3>1 DEF TagsInv
    <3>2. CASE file'[Now][Dto] # file[Now][Dto]
      <4>1. Dto = f
        BY <1>5, <1>9, <3>2, ModuleFilesAre
      <4> QED BY <1>8, <1>9, <2>1, <3>2, <4>1
    <3> QED BY <3>1, <3>2
  <2> QED BY <1>3, <1>5, <2>1 DEF TagsInv, Dto
<1>15. OrderInv'
  BY <1>2, <1>3 DEF OrderInv
<1>16. CollectionInv'
  BY <1>1, <1>3, CollectionSame
<1>17. AccountInv'
  BY <1>10, <1>11, <1>12, <1>13, <1>14, <1>15 DEF AccountInv
<1> QED BY <1>9, <1>16, <1>17, ClassicParts, PTL

LEMMA ModuleFileFailsInv == ASSUME ClassicIInv, NEW f, ModuleFileFails(f) PROVE ClassicIInv'
<1>1. AccountInv /\ ProjectInv /\ CollectionInv
  BY ClassicParts
<1>2. RunTypes /\ ControlInv /\ TagsInv /\ OrderInv /\ ProjectTypes
  BY <1>1 DEF AccountInv, ProjectInv
<1>3. /\ pc = "files" /\ todo # <<>> /\ f = Head(todo) /\ EndsRun("err")
      /\ UNCHANGED <<intact, ifaces, routes, handler, services, postman,
                     flags, urlPath, tags, split, covered>>
      /\ \/ UNCHANGED <<file, incomplete>>
         \/ /\ \E c \in Cut(f) : file' = [file EXCEPT ![Now][f] = c]
            /\ incomplete' = incomplete \cup {<<Now, f>>}
  BY DEF ModuleFileFails
<1>4. f \in ModuleFiles /\ Now \in Modules
  BY <1>2, <1>3, NextModuleFile, NowIs
<1>5. AccountInv'
  BY <1>2, <1>3, EndsErr DEF RunTypes
<1>6. ProjectInv'
  <2>1. CASE UNCHANGED <<file, incomplete>>
    BY <1>1, <1>3, <2>1, ProjectSame DEF project
  <2>2. ASSUME NEW c \in Cut(f), file' = [file EXCEPT ![Now][f] = c],
               incomplete' = incomplete \cup {<<Now, f>>}
        PROVE  ProjectInv'
    <3>1. Rendered(f).has \subseteq {"gen", "part", "own", "tag"}
      <4>1. Rendered(f) \in File
        BY <1>2, <1>3, <1>4, RenderedIs
      <4> QED BY <4>1 DEF File
    <3>2. c \in File /\ (c.reads # "go" => c.has = {}) /\ "tag" \notin c.has
      BY <3>1 DEF Cut, File
    <3>3. incomplete' \in SUBSET (Modules \X (ModuleFiles \cup ToSet(Registries))) /\ <<Now, f>> \in incomplete'
      BY <1>2, <1>4, <2>2 DEF ProjectTypes
    <3>4. \A m, g : <<m, g>> # <<Now, f>> => (<<m, g>> \in incomplete' <=> <<m, g>> \in incomplete)
      BY <2>2
    <3>5. UNCHANGED <<intact, ifaces, routes, handler, services>>
      BY <1>3
    <3> QED BY <1>1, <1>4, <2>2, <3>2, <3>3, <3>4, <3>5, ProjectFile
  <2> QED BY <1>3, <2>1, <2>2
<1>7. CollectionInv'
  BY <1>1, <1>3, CollectionSame
<1> QED BY <1>5, <1>6, <1>7, ClassicParts, PTL

LEMMA EditModuleFileInv ==
  ASSUME ClassicIInv, NEW n \in Modules, NEW f \in ModuleFiles,
         NEW has \in SUBSET {"gen", "part", "own", "tag"}, EditModuleFile(n, f, has),
         "tag" \in has => f = Dto /\ "gen" \in has
  PROVE  ClassicIInv'
<1>1. AccountInv /\ ProjectInv /\ CollectionInv
  BY ClassicParts
<1> DEFINE x == [reads |-> "go", has |-> has]
<1>2. /\ ClassicEdit /\ file' = [file EXCEPT ![n][f] = x]
      /\ incomplete' = (IF "gen" \in has THEN incomplete ELSE incomplete \cup {<<n, f>>})
      /\ UNCHANGED <<intact, ifaces, routes, handler, services, postman>>
  BY DEF EditModuleFile
<1>3. x \in File /\ x.reads = "go" /\ x.has = has
  BY DEF File
<1> HIDE DEF x
<1>4. incomplete' \in SUBSET (Modules \X (ModuleFiles \cup ToSet(Registries)))
  BY <1>1, <1>2 DEF ProjectInv, ProjectTypes
<1>5. \A m, g : <<m, g>> # <<n, f>> => (<<m, g>> \in incomplete' <=> <<m, g>> \in incomplete)
  BY <1>2
<1>6. "gen" \in x.has \/ <<n, f>> \in incomplete'
  BY <1>2, <1>3
<1>7. UNCHANGED <<intact, ifaces, routes, handler, services>>
  BY <1>2
<1>8. ProjectInv'
  BY <1>1, <1>2, <1>3, <1>4, <1>5, <1>6, <1>7, ProjectFile
<1>9. OrderInv'
  BY <1>1, <1>2 DEF AccountInv, OrderInv, ClassicEdit
<1>10. AccountInv' /\ CollectionInv'
  BY <1>1, <1>2, <1>9, EditAccount, CollectionSame
<1> QED BY <1>8, <1>10, ClassicParts, PTL

LEMMA FileEditsInv ==
  ASSUME ClassicIInv, NEW m \in Modules, NEW f \in ModuleFiles,
         AddOwn(m, f) \/ RemoveGenerated(m, f) \/ ChangeTag(m)
  PROVE  ClassicIInv'
<1> DEFINE S == {"gen", "part", "own", "tag"}
<1>1. ProjectTypes
  BY ClassicParts DEF ProjectInv
<1>2. \A g \in ModuleFiles :
        file[m][g].has \in SUBSET S /\ ("tag" \in file[m][g].has => g = Dto /\ "gen" \in file[m][g].has)
  <2> TAKE g \in ModuleFiles
  <2>1. file[m][g] \in File
    BY <1>1 DEF ProjectTypes
  <2> QED BY <1>1, <2>1 DEF ProjectTypes, File
<1>3. CASE AddOwn(m, f)
  BY <1>2, <1>3, EditModuleFileInv DEF AddOwn
<1>4. CASE RemoveGenerated(m, f)
  BY <1>2, <1>4, EditModuleFileInv DEF RemoveGenerated
<1>5. CASE ChangeTag(m)
  BY <1>2, <1>5, ModuleFilesAre, EditModuleFileInv DEF ChangeTag
<1> QED BY <1>3, <1>4, <1>5

(* What holds of a module's files and interfaces is kept by what comes     *)
(* after them.                                                             *)
LEMMA SettledKept ==
  ASSUME NEW m, UNCHANGED <<flags, file, incomplete>>
  PROVE  /\ \A f : FileSettled(m, f) <=> FileSettled(m, f)'
         /\ FilesSettled(m) <=> FilesSettled(m)'
         /\ ifaces' = ifaces => (InRegistries(m) <=> InRegistries(m)')
         /\ handler' = handler => (InHandler(m) <=> InHandler(m)')
         /\ services' = services => (InServices(m) <=> InServices(m)')
<1>1. RunFiles' = RunFiles /\ RunRegistries' = RunRegistries
  BY FlagsSame
<1>2. \A f : FileSettled(m, f) <=> FileSettled(m, f)'
  BY DEF FileSettled
<1>3. FilesSettled(m) <=> FilesSettled(m)'
  BY <1>1, <1>2 DEF FilesSettled
<1>4. ifaces' = ifaces => (InRegistries(m) <=> InRegistries(m)')
  BY <1>1 DEF InRegistries
<1>5. /\ handler' = handler => (InHandler(m) <=> InHandler(m)')
      /\ services' = services => (InServices(m) <=> InServices(m)')
  BY DEF InHandler, InServices
<1> QED BY <1>2, <1>3, <1>4, <1>5

LEMMA RegistriesDoneInv == ASSUME ClassicIInv, RegistriesDone PROVE ClassicIInv'
<1>1. AccountInv /\ ProjectInv /\ CollectionInv
  BY ClassicParts
<1>2. /\ pc = "registries" /\ todo = <<>> /\ pc' = (IF Given("ctl") THEN "route" ELSE "postman")
      /\ UNCHANGED <<project, postman, todo, queue, flags, urlPath, tags, result,
                     incomplete, split, covered>>
  BY DEF RegistriesDone, runInput, classicHistory
<1>3. RunTypes /\ ControlInv /\ DoneInv /\ NowInv /\ OrderInv
  BY <1>1 DEF AccountInv
<1>4. PICK n \in Modules : n = Now
  BY <1>2, <1>3, NowIs
<1>5. Now' = n /\ (Writes' <=> Writes) /\ (\A x : Given(x)' <=> Given(x))
  BY <1>2, <1>4, FlagsSame DEF Now
<1>6. RunTypes'
  BY <1>2, <1>3 DEF RunTypes
<1>7. ControlInv'
  BY <1>2, <1>5 DEF ControlInv
<1>8. DoneInv'
  <2>1. \A m \in covered \ ToSet(queue) : ModuleDone(m) => ModuleDone(m)'
    BY <1>2, DoneSame
  <2> QED BY <1>2, <1>3, <2>1, DoneStep
<1>9. ASSUME Writes PROVE FilesSettled(n)' /\ InRegistries(n)'
  <2>1. FilesSettled(n)
    BY <1>2, <1>3, <1>4, <1>9 DEF NowInv
  <2>2. ToSet(todo) = {}
    BY <1>2 DEF ToSet
  <2>3. InRegistries(n)
    BY <1>2, <1>3, <1>4, <1>9, <2>2 DEF NowInv, InRegistries
  <2> QED BY <1>2, <2>1, <2>3, SettledKept DEF project
<1>10. NowInv'
  BY <1>2, <1>5, <1>9 DEF NowInv
<1>11. TagsInv'
  BY <1>2 DEF TagsInv
<1>12. OrderInv'
  BY <1>2, <1>3 DEF OrderInv, project
<1>13. ProjectInv' /\ CollectionInv'
  BY <1>1, <1>2, ProjectSame, CollectionSame
<1>14. AccountInv'
  BY <1>6, <1>7, <1>8, <1>10, <1>11, <1>12 DEF AccountInv
<1> QED BY <1>13, <1>14, ClassicParts, PTL

LEMMA WriteRegistryInv == ASSUME ClassicIInv, NEW r, WriteRegistry(r) PROVE ClassicIInv'
<1>1. AccountInv /\ ProjectInv /\ CollectionInv
  BY ClassicParts
<1>2. /\ pc = "registries" /\ todo # <<>> /\ r = Head(todo) /\ todo' = Tail(todo) /\ pc' = pc
      /\ ifaces' = (IF Writes THEN [ifaces EXCEPT ![r] = AddTo(@, Now)] ELSE ifaces)
      /\ incomplete' = (IF Writes THEN incomplete \ {<<Now, r>>} ELSE incomplete)
      /\ UNCHANGED <<file, intact, routes, handler, services, postman, queue, flags,
                     urlPath, tags, result, split, covered>>
  BY DEF WriteRegistry, runInput
<1>3. /\ RunTypes /\ ControlInv /\ DoneInv /\ NowInv /\ OrderInv
      /\ ProjectTypes /\ PartInv /\ OwnInv /\ ClassicResolves /\ ClassicNeverTwice
  BY <1>1 DEF AccountInv, ProjectInv
<1>4. PICK n \in Modules : n = Now
  BY <1>2, <1>3, NowIs
<1>5. /\ Now' = n /\ (Writes' <=> Writes) /\ (\A x : Given(x)' <=> Given(x))
      /\ RunFiles' = RunFiles /\ RunRegistries' = RunRegistries
  BY <1>2, <1>4, FlagsSame DEF Now
<1> DEFINE T == RunRegistries
           U == ModuleFiles \cup ToSet(Registries)
<1>6. /\ r \in T /\ Tail(todo) \in Seq(T) /\ Tail(todo) \in Seq(U)
      /\ ToSet(todo) = {r} \cup ToSet(Tail(todo))
  <2>1. todo \in Seq(T) /\ todo \in Seq(U)
    BY <1>2, <1>3 DEF ControlInv, RunTypes
  <2> HIDE DEF T, U
  <2> QED BY <1>2, <2>1, TailIs
<1> HIDE DEF T, U
<1>7. r \in ToSet(Registries)
  BY <1>6, RegistriesAre DEF T
<1>18. /\ \A m, f : f \in ModuleFiles => (<<m, f>> \in incomplete' <=> <<m, f>> \in incomplete)
       /\ incomplete' \subseteq incomplete
       /\ \A x \in incomplete \ incomplete' : x = <<n, r>> /\ Writes
  <2>1. r \notin ModuleFiles
    BY <1>7, ClassicAssumption
  <2> QED BY <1>2, <1>4, <2>1
<1>8. /\ ifaces' \in [ToSet(Registries) -> Seq(Modules)]
      /\ \A g \in ToSet(Registries) :
           /\ ToSet(ifaces[g]) \subseteq ToSet(ifaces'[g])
           /\ IsInjective(ifaces[g]) => IsInjective(ifaces'[g])
      /\ Writes => n \in ToSet(ifaces'[r])
  <2>1. ifaces \in [ToSet(Registries) -> Seq(Modules)]
    BY <1>3 DEF ProjectTypes
  <2>2. ifaces[r] \in Seq(Modules)
    BY <1>7, <2>1
  <2> DEFINE a == AddTo(ifaces[r], n)
  <2>3. /\ a \in Seq(Modules) /\ ToSet(a) = ToSet(ifaces[r]) \cup {n}
        /\ IsInjective(ifaces[r]) => IsInjective(a)
    BY <2>2, AddToIs
  <2>4. ifaces' = (IF Writes THEN [ifaces EXCEPT ![r] = a] ELSE ifaces)
    BY <1>2, <1>4
  <2> HIDE DEF a
  <2>5. CASE Writes
    <3>1. ifaces' = [g \in ToSet(Registries) |-> IF g = r THEN a ELSE ifaces[g]]
      BY <2>1, <2>4, <2>5
    <3>2. ifaces' \in [ToSet(Registries) -> Seq(Modules)]
      BY <2>1, <2>3, <3>1
    <3>3. \A g \in ToSet(Registries) : ifaces'[g] = IF g = r THEN a ELSE ifaces[g]
      BY <3>1
    <3> QED BY <1>7, <2>3, <3>2, <3>3
  <2>6. CASE ~Writes
    BY <2>1, <2>4, <2>6
  <2> QED BY <2>5, <2>6
<1>9. RunTypes'
  BY <1>2, <1>3, <1>6 DEF RunTypes, U
<1>10. ControlInv'
  BY <1>2, <1>3, <1>5, <1>6 DEF ControlInv, T
<1>11. DoneInv'
  <2>1. ASSUME NEW m \in covered \ ToSet(queue), ModuleDone(m) PROVE ModuleDone(m)'
    <3>1. \A g \in ToSet(Registries) : m \in ToSet(ifaces[g]) => m \in ToSet(ifaces'[g])
      BY <1>8
    <3>4. \A f \in ModuleFiles : <<m, f>> \in incomplete => <<m, f>> \in incomplete'
      BY <1>18
    <3>2. (InHandler(m) => InHandler(m)') /\ (InServices(m) => InServices(m)')
      BY <1>2 DEF InHandler, InServices
    <3>3. json = "json" /\ CollectionComplete => json' = "json" /\ CollectionComplete'
      BY <1>2, CompleteSame
    <3> QED BY <1>2, <2>1, <3>1, <3>2, <3>3, <3>4, DoneKept
  <2> QED BY <1>2, <1>3, <2>1, DoneStep
<1>12. NowInv'
  <2>1. ASSUME Writes
        PROVE  FilesSettled(n)' /\ \A g \in T \ ToSet(Tail(todo)) : n \in ToSet(ifaces'[g])
    <3>1. FilesSettled(n)
      BY <1>2, <1>3, <1>4, <2>1 DEF NowInv
    <3>2. ASSUME NEW g \in T \ ToSet(Tail(todo)) PROVE n \in ToSet(ifaces'[g])
      <4>1. CASE g = r
        BY <1>8, <2>1, <4>1
      <4>2. CASE g # r
        <5>1. n \in ToSet(ifaces[g])
          BY <1>2, <1>3, <1>4, <1>6, <2>1, <4>2 DEF NowInv, T
        <5> QED BY <1>8, <5>1, RegistriesAre DEF T
      <4> QED BY <4>1, <4>2
    <3>3. FilesSettled(n)'
      <4>1. \A f \in ToSet(RunFiles) : f \in ModuleFiles
        BY RunFilesAre
      <4> QED BY <1>2, <1>5, <1>18, <3>1, <4>1 DEF FilesSettled, FileSettled
    <3> QED BY <3>2, <3>3
  <2> QED BY <1>2, <1>5, <2>1 DEF NowInv, T
<1>13. TagsInv'
  BY <1>2 DEF TagsInv
<1>14. OrderInv'
  BY <1>2, <1>3 DEF OrderInv
<1>15. ProjectInv'
  <2>1. ProjectTypes'
    BY <1>2, <1>3, <1>8, <1>18 DEF ProjectTypes
  <2>2. PartInv' /\ OwnInv'
    BY <1>2, <1>3, <1>18 DEF PartInv, FileSettled, OwnInv
  <2>3. ClassicNeverTwice'
    BY <1>2, <1>3, <1>8, RegistriesAre DEF ClassicNeverTwice
  <2>4. ASSUME NEW m \in Modules,
               m \in ToSet(ifaces["usecase"]) \/ <<m, "usecase">> \in incomplete
        PROVE  m \in ToSet(ifaces'["usecase"]) \/ <<m, "usecase">> \in incomplete'
    BY <1>8, <1>18, <2>4, RegistriesAre
  <2>5. \A f \in ToSet(CtlFiles) : f \in ModuleFiles
    BY ModuleFilesAre
  <2>6. Controller \in ModuleFiles
    BY ModuleFilesAre
  <2>7. ClassicResolves'
    BY <1>2, <1>3, <1>18, <2>4, <2>5, <2>6 DEF ClassicResolves
  <2> QED BY <2>1, <2>2, <2>3, <2>7 DEF ProjectInv
<1>16. CollectionInv'
  BY <1>1, <1>2, CollectionSame
<1>17. AccountInv'
  BY <1>9, <1>10, <1>11, <1>12, <1>13, <1>14 DEF AccountInv
<1> QED BY <1>15, <1>16, <1>17, ClassicParts, PTL

(* What route.go, handler.go and services.go name once they are patched,   *)
(* whether the run goes on or its write has failed behind the patch.       *)
LEMMA RoutesStep ==
  ASSUME RunTypes, ControlInv, NowInv, ProjectInv, pc = "route",
         routes' = (IF Writes THEN RoutesPatched ELSE routes),
         UNCHANGED <<file, intact, ifaces, handler, services, incomplete>>
  PROVE  /\ \A m \in Modules : routes'[m] = IF Writes /\ m = Now THEN Registered ELSE routes[m]
         /\ ProjectInv'
<1>1. ProjectTypes /\ PartInv /\ OwnInv /\ ClassicResolves /\ ClassicNeverTwice
  BY DEF ProjectInv
<1>2. PICK n \in Modules : n = Now
  BY NowIs
<1>3. Given("ctl") /\ (Writes => FilesSettled(n) /\ InRegistries(n))
  BY <1>2 DEF ControlInv, NowInv
<1>4. /\ routes' \in [Modules -> SUBSET Registered]
      /\ \A m \in Modules : routes'[m] = IF Writes /\ m = n THEN Registered ELSE routes[m]
  BY <1>1, <1>2 DEF ProjectTypes, RoutesPatched
<1>5. ProjectTypes'
  BY <1>1, <1>4 DEF ProjectTypes
<1>6. PartInv' /\ OwnInv' /\ ClassicNeverTwice'
  BY <1>1 DEF PartInv, FileSettled, OwnInv, ClassicNeverTwice
<1>7. Writes => FileSettled(n, Controller)
  BY <1>3, RunFilesAre, ModuleFilesAre DEF FilesSettled
<1>8. "import" \in Registered
  BY DEF Registered
<1>9. \A m \in Modules :
        routes'[m] # {} => "import" \in routes'[m]
                           /\ ("gen" \in file[m][Controller].has \/ <<m, Controller>> \in incomplete)
  BY <1>1, <1>4, <1>7, <1>8 DEF ClassicResolves, FileSettled
<1>10. ClassicResolves'
  BY <1>1, <1>9 DEF ClassicResolves
<1> QED BY <1>2, <1>4, <1>5, <1>6, <1>10 DEF ProjectInv

LEMMA RegisterRoutesInv == ASSUME ClassicIInv, RegisterRoutes PROVE ClassicIInv'
<1>1. AccountInv /\ ProjectInv /\ CollectionInv
  BY ClassicParts
<1>2. /\ pc = "route" /\ pc' = "handler"
      /\ routes' = (IF Writes THEN RoutesPatched ELSE routes)
      /\ UNCHANGED <<file, intact, ifaces, handler, services, postman, todo, queue, flags,
                     urlPath, tags, result, incomplete, split, covered>>
  BY DEF RegisterRoutes, runInput, classicHistory
<1>3. /\ RunTypes /\ ControlInv /\ DoneInv /\ NowInv /\ OrderInv
      /\ ProjectTypes /\ PartInv /\ OwnInv /\ ClassicResolves /\ ClassicNeverTwice
  BY <1>1 DEF AccountInv, ProjectInv
<1>4. PICK n \in Modules : n = Now
  BY <1>2, <1>3, NowIs
<1>5. /\ Now' = n /\ (Writes' <=> Writes) /\ (\A x : Given(x)' <=> Given(x))
      /\ Given("ctl")
  BY <1>2, <1>3, <1>4, FlagsSame DEF Now, ControlInv
<1>6. /\ \A m \in Modules : routes'[m] = IF Writes /\ m = n THEN Registered ELSE routes[m]
      /\ ProjectInv'
  BY <1>1, <1>2, <1>3, <1>4, RoutesStep
<1>7. RunTypes'
  BY <1>2, <1>3 DEF RunTypes
<1>8. ControlInv'
  BY <1>2, <1>3, <1>5 DEF ControlInv
<1>9. DoneInv'
  <2>1. ASSUME NEW m \in covered \ ToSet(queue), ModuleDone(m) PROVE ModuleDone(m)'
    <3>1. routes[m] = Registered => routes'[m] = Registered
      BY <1>3, <1>6 DEF RunTypes
    <3>2. (InHandler(m) => InHandler(m)') /\ (InServices(m) => InServices(m)')
      BY <1>2 DEF InHandler, InServices
    <3>3. json = "json" /\ CollectionComplete => json' = "json" /\ CollectionComplete'
      BY <1>2, CompleteSame
    <3> QED BY <1>2, <2>1, <3>1, <3>2, <3>3, DoneKept
  <2> QED BY <1>2, <1>3, <2>1, DoneStep
<1>10. Writes => FilesSettled(n) /\ InRegistries(n)
  BY <1>2, <1>3, <1>4 DEF NowInv
<1>11. NowInv'
  <2>1. Writes => FilesSettled(n)' /\ InRegistries(n)' /\ routes'[n] = Registered
    BY <1>2, <1>6, <1>10, SettledKept
  <2> QED BY <1>2, <1>5, <2>1 DEF NowInv
<1>12. TagsInv'
  BY <1>2 DEF TagsInv
<1>13. OrderInv'
  BY <1>2, <1>3 DEF OrderInv
<1>15. CollectionInv'
  BY <1>1, <1>2, CollectionSame
<1>16. AccountInv'
  BY <1>7, <1>8, <1>9, <1>11, <1>12, <1>13 DEF AccountInv
<1> QED BY <1>6, <1>15, <1>16, ClassicParts, PTL

LEMMA HandlerStep ==
  ASSUME RunTypes, ControlInv, NowInv, ProjectInv, pc = "handler",
         handler' = (IF Writes THEN HandlerPatched ELSE handler),
         UNCHANGED <<file, intact, ifaces, routes, services, incomplete>>
  PROVE  /\ handler.fields \subseteq handler'.fields /\ handler.literal \subseteq handler'.literal
         /\ ToSet(handler.params) \subseteq ToSet(handler'.params)
         /\ Writes => /\ Now \in handler'.fields \cap ToSet(handler'.params) \cap handler'.literal
                      /\ handler'.params = AddTo(handler.params, Now)
         /\ ~Writes => handler'.params = handler.params
         /\ ProjectInv'
<1>3. ProjectTypes /\ PartInv /\ OwnInv /\ ClassicResolves /\ ClassicNeverTwice
  BY DEF ProjectInv
<1>4. PICK n \in Modules : n = Now
  BY NowIs
<1>5. Given("ctl")
  BY DEF ControlInv
<1> DEFINE M == Modules \cup {Own}
           a == AddTo(handler.params, n)
<1>6. /\ handler.fields \subseteq M /\ handler.params \in Seq(M) /\ handler.literal \subseteq M
      /\ handler \in Handlers
  BY <1>3, HandlersAre DEF ProjectTypes
<1>7. /\ a \in Seq(M) /\ ToSet(a) = ToSet(handler.params) \cup {n}
      /\ IsInjective(handler.params) => IsInjective(a)
  <2> HIDE DEF M
  <2>1. n \in M
    BY DEF M
  <2> QED BY <1>6, <2>1, AddToIs
<1> HIDE DEF a
<1>8. handler' = (IF Writes
                  THEN [fields |-> handler.fields \cup {n}, params |-> a,
                        literal |-> handler.literal \cup {n}]
                  ELSE handler)
  BY <1>4 DEF a, HandlerPatched
<1>9. handler' \in Handlers
  <2>1. handler.fields \cup {n} \in SUBSET M /\ handler.literal \cup {n} \in SUBSET M
    BY <1>6
  <2>2. \A F \in SUBSET M, s \in Seq(M), L \in SUBSET M :
          [fields |-> F, params |-> s, literal |-> L] \in Handlers
    BY HandlersAre, Zenon
  <2>3. [fields |-> handler.fields \cup {n}, params |-> a, literal |-> handler.literal \cup {n}] \in Handlers
    BY <1>7, <2>1, <2>2, Zenon
  <2> QED BY <1>6, <1>8, <2>3
<1> HIDE DEF M
<1>10. /\ handler.fields \subseteq handler'.fields /\ handler.literal \subseteq handler'.literal
       /\ ToSet(handler.params) \subseteq ToSet(handler'.params)
       /\ \A m \in Modules \cup {Own} : m # n =>
            /\ m \in handler'.fields <=> m \in handler.fields
            /\ m \in handler'.literal <=> m \in handler.literal
            /\ m \in ToSet(handler'.params) <=> m \in ToSet(handler.params)
       /\ Writes => /\ n \in handler'.fields \cap ToSet(handler'.params) \cap handler'.literal
                    /\ handler'.params = a
       /\ ~Writes => handler'.params = handler.params
       /\ IsInjective(handler.params) => IsInjective(handler'.params)
  BY <1>7, <1>8
<1>17. ProjectInv'
  <2>1. ProjectTypes'
    BY <1>3, <1>9 DEF ProjectTypes
  <2>2. PartInv'
    BY <1>3 DEF PartInv, FileSettled
  <2>3. OwnInv'
    <3>1. Own # n
      BY ClassicAssumption
    <3> QED BY <1>3, <1>10, <3>1 DEF OwnInv
  <2>4. ClassicNeverTwice'
    BY <1>3, <1>10 DEF ClassicNeverTwice
  <2>5. ASSUME NEW m \in Modules, m \in ToSet(handler'.params)
        PROVE  /\ m \in handler'.literal
               /\ m \in ToSet(ifaces["usecase"]) \/ <<m, "usecase">> \in incomplete
    <3>1. CASE m # n
      BY <1>3, <1>10, <2>5, <3>1 DEF ClassicResolves
    <3>2. CASE m = n /\ Writes
      <4>1. n \in ToSet(ifaces["usecase"])
        BY <1>3, <1>4, <1>5, <3>2, RegistriesAre DEF NowInv, InRegistries
      <4> QED BY <1>10, <3>2, <4>1
    <3>3. CASE ~Writes
      BY <1>3, <1>8, <2>5, <3>3 DEF ClassicResolves
    <3> QED BY <3>1, <3>2, <3>3
  <2>6. ClassicResolves'
    BY <1>3, <2>5 DEF ClassicResolves
  <2> QED BY <2>1, <2>2, <2>3, <2>4, <2>6 DEF ProjectInv
<1> QED BY <1>4, <1>10, <1>17 DEF a

LEMMA PatchHandlerInv == ASSUME ClassicIInv, PatchHandler PROVE ClassicIInv'
<1>1. AccountInv /\ ProjectInv /\ CollectionInv
  BY ClassicParts
<1>2. /\ pc = "handler" /\ pc' = "services"
      /\ handler' = (IF Writes THEN HandlerPatched ELSE handler)
      /\ UNCHANGED <<file, intact, ifaces, routes, services, postman, todo, queue, flags,
                     urlPath, tags, result, incomplete, split, covered>>
  BY DEF PatchHandler, runInput, classicHistory
<1>3. /\ RunTypes /\ ControlInv /\ DoneInv /\ NowInv /\ OrderInv
      /\ ProjectTypes /\ PartInv /\ OwnInv /\ ClassicResolves /\ ClassicNeverTwice
  BY <1>1 DEF AccountInv, ProjectInv
<1>4. PICK n \in Modules : n = Now
  BY <1>2, <1>3, NowIs
<1>5. /\ Now' = n /\ (Writes' <=> Writes) /\ (\A x : Given(x)' <=> Given(x))
      /\ Given("ctl")
  BY <1>2, <1>3, <1>4, FlagsSame DEF Now, ControlInv
<1>6. /\ handler.fields \subseteq handler'.fields /\ handler.literal \subseteq handler'.literal
      /\ ToSet(handler.params) \subseteq ToSet(handler'.params)
      /\ Writes => /\ n \in handler'.fields \cap ToSet(handler'.params) \cap handler'.literal
                   /\ handler'.params = AddTo(handler.params, n)
      /\ ~Writes => handler'.params = handler.params
      /\ ProjectInv'
  BY <1>1, <1>2, <1>3, <1>4, HandlerStep
<1>11. RunTypes'
  BY <1>2, <1>3 DEF RunTypes
<1>12. ControlInv'
  BY <1>2, <1>3, <1>5 DEF ControlInv
<1>13. DoneInv'
  <2>1. ASSUME NEW m \in covered \ ToSet(queue), ModuleDone(m) PROVE ModuleDone(m)'
    <3>1. InHandler(m) => InHandler(m)'
      BY <1>6 DEF InHandler
    <3>2. InServices(m) => InServices(m)'
      BY <1>2 DEF InServices
    <3>3. json = "json" /\ CollectionComplete => json' = "json" /\ CollectionComplete'
      BY <1>2, CompleteSame
    <3> QED BY <1>2, <2>1, <3>1, <3>2, <3>3, DoneKept
  <2> QED BY <1>2, <1>3, <2>1, DoneStep
<1>14. NowInv'
  <2>1. Writes => FilesSettled(n) /\ InRegistries(n) /\ routes[n] = Registered
    BY <1>2, <1>3, <1>4, <1>5 DEF NowInv
  <2>2. Writes => FilesSettled(n)' /\ InRegistries(n)' /\ routes'[n] = Registered /\ InHandler(n)'
    BY <1>2, <1>6, <2>1, SettledKept DEF InHandler
  <2> QED BY <1>2, <1>5, <2>2 DEF NowInv
<1>15. TagsInv'
  BY <1>2 DEF TagsInv
<1>16. OrderInv'
  <2>1. split = {} => handler.params = services.args
    BY <1>2, <1>3 DEF OrderInv
  <2>2. CASE Writes
    <3>1. split = {} => handler'.params = AddTo(services.args, n)
      BY <1>6, <2>1, <2>2
    <3>2. split' = {} => handler'.params = AddTo(services'.args, Now')
      BY <1>2, <1>5, <3>1
    <3> QED BY <1>2, <1>5, <2>2, <3>2 DEF OrderInv, AddTo
  <2>3. CASE ~Writes
    BY <1>2, <1>5, <1>6, <2>1, <2>3 DEF OrderInv
  <2> QED BY <2>2, <2>3
<1>18. CollectionInv'
  BY <1>1, <1>2, CollectionSame
<1>19. AccountInv'
  BY <1>11, <1>12, <1>13, <1>14, <1>15, <1>16 DEF AccountInv
<1> QED BY <1>6, <1>18, <1>19, ClassicParts, PTL

LEMMA ServicesStep ==
  ASSUME RunTypes, ControlInv, NowInv, ProjectInv, pc = "services",
         services' = (IF Writes THEN ServicesPatched ELSE services),
         UNCHANGED <<file, intact, ifaces, routes, handler, incomplete>>
  PROVE  /\ services.imports \subseteq services'.imports /\ services.ctrls \subseteq services'.ctrls
         /\ ToSet(services.args) \subseteq ToSet(services'.args)
         /\ Writes => /\ Now \in services'.imports \cap services'.ctrls \cap ToSet(services'.args)
                      /\ services'.args = AddTo(services.args, Now)
         /\ ~Writes => services'.args = services.args
         /\ ProjectInv'
<1>3. ProjectTypes /\ PartInv /\ OwnInv /\ ClassicResolves /\ ClassicNeverTwice
  BY DEF ProjectInv
<1>4. PICK n \in Modules : n = Now
  BY NowIs
<1>5. Given("ctl")
  BY DEF ControlInv
<1> DEFINE M == Modules \cup {Own}
           a == AddTo(services.args, n)
<1>6. /\ services.imports \subseteq Modules /\ services.args \in Seq(M) /\ services.ctrls \subseteq M
      /\ services \in Services
  <2>1. \A s \in Services : s.imports \subseteq Modules /\ s.ctrls \subseteq M /\ s.args \in Seq(M)
    BY ServicesAre, Zenon
  <2>2. services \in Services
    BY <1>3 DEF ProjectTypes
  <2> QED BY <2>1, <2>2
<1>7. /\ a \in Seq(M) /\ ToSet(a) = ToSet(services.args) \cup {n} /\ AddArg(services.args, n) = a
      /\ IsInjective(services.args) => IsInjective(a)
  <2> HIDE DEF M
  <2>1. n \in M
    BY DEF M
  <2> QED BY <1>6, <2>1, AddToIs
<1> HIDE DEF a
<1>8. services' = (IF Writes
                   THEN [imports |-> services.imports \cup {n}, ctrls |-> services.ctrls \cup {n},
                         args |-> a]
                   ELSE services)
  BY <1>4, <1>7 DEF ServicesPatched
<1>9. services' \in Services
  <2>1. services.imports \cup {n} \in SUBSET Modules /\ services.ctrls \cup {n} \in SUBSET M
    BY <1>6
  <2>2. \A I \in SUBSET Modules, C \in SUBSET M, s \in Seq(M) :
          [imports |-> I, ctrls |-> C, args |-> s] \in Services
    BY ServicesAre, Zenon
  <2>3. [imports |-> services.imports \cup {n}, ctrls |-> services.ctrls \cup {n}, args |-> a] \in Services
    BY <1>7, <2>1, <2>2, Zenon
  <2> QED BY <1>6, <1>8, <2>3
<1> HIDE DEF M
<1>10. /\ services.imports \subseteq services'.imports /\ services.ctrls \subseteq services'.ctrls
       /\ ToSet(services.args) \subseteq ToSet(services'.args)
       /\ \A m \in Modules \cup {Own} : m # n =>
            (m \in ToSet(services'.args) <=> m \in ToSet(services.args))
       /\ Writes => /\ n \in services'.imports \cap services'.ctrls \cap ToSet(services'.args)
                    /\ services'.args = a
       /\ ~Writes => services'.args = services.args
       /\ IsInjective(services.args) => IsInjective(services'.args)
  BY <1>7, <1>8
<1>14. Writes => FilesSettled(n)
  BY <1>4 DEF NowInv
<1>18. ProjectInv'
  <2>1. ProjectTypes'
    BY <1>3, <1>9 DEF ProjectTypes
  <2>2. PartInv'
    BY <1>3 DEF PartInv, FileSettled
  <2>3. OwnInv'
    <3>1. Own # n
      BY ClassicAssumption
    <3> QED BY <1>3, <1>10, <3>1 DEF OwnInv
  <2>4. ClassicNeverTwice'
    BY <1>3, <1>10 DEF ClassicNeverTwice
  <2>5. ASSUME NEW m \in Modules, m \in ToSet(services'.args)
        PROVE  /\ m \in services'.ctrls \cap services'.imports
               /\ \A f \in ToSet(CtlFiles) : "gen" \in file[m][f].has \/ <<m, f>> \in incomplete
    <3>1. CASE m # n \/ ~Writes
      <4>1. m \in ToSet(services.args)
        BY <1>10, <2>5, <3>1
      <4> QED BY <1>3, <1>10, <4>1 DEF ClassicResolves
    <3>2. CASE m = n /\ Writes
      <4>1. \A f \in ToSet(CtlFiles) : f \in ToSet(RunFiles)
        BY <1>5, RunFilesAre, ModuleFilesAre
      <4>2. \A f \in ToSet(CtlFiles) : "gen" \in file[n][f].has \/ <<n, f>> \in incomplete
        BY <1>14, <3>2, <4>1 DEF FilesSettled, FileSettled
      <4> QED BY <1>10, <3>2, <4>2
    <3> QED BY <3>1, <3>2
  <2>6. ClassicResolves'
    BY <1>3, <2>5 DEF ClassicResolves
  <2> QED BY <2>1, <2>2, <2>3, <2>4, <2>6 DEF ProjectInv
<1> QED BY <1>4, <1>10, <1>18 DEF a

LEMMA PatchServicesInv == ASSUME ClassicIInv, PatchServices PROVE ClassicIInv'
<1>1. AccountInv /\ ProjectInv /\ CollectionInv
  BY ClassicParts
<1>2. /\ pc = "services" /\ pc' = "postman"
      /\ services' = (IF Writes THEN ServicesPatched ELSE services)
      /\ split' = (IF services'.args = handler.params THEN {} ELSE split)
      /\ UNCHANGED <<file, intact, ifaces, routes, handler, postman, todo, queue, flags,
                     urlPath, tags, result, incomplete, covered>>
  BY DEF PatchServices, runInput
<1>3. /\ RunTypes /\ ControlInv /\ DoneInv /\ NowInv /\ OrderInv
      /\ ProjectTypes /\ PartInv /\ OwnInv /\ ClassicResolves /\ ClassicNeverTwice
  BY <1>1 DEF AccountInv, ProjectInv
<1>4. PICK n \in Modules : n = Now
  BY <1>2, <1>3, NowIs
<1>5. /\ Now' = n /\ (Writes' <=> Writes) /\ (\A x : Given(x)' <=> Given(x))
      /\ Given("ctl")
  BY <1>2, <1>3, <1>4, FlagsSame DEF Now, ControlInv
<1>6. /\ services.imports \subseteq services'.imports /\ services.ctrls \subseteq services'.ctrls
      /\ ToSet(services.args) \subseteq ToSet(services'.args)
      /\ Writes => /\ n \in services'.imports \cap services'.ctrls \cap ToSet(services'.args)
                   /\ services'.args = AddTo(services.args, n)
      /\ ~Writes => services'.args = services.args
      /\ ProjectInv'
  BY <1>1, <1>2, <1>3, <1>4, ServicesStep
<1>11. RunTypes'
  <2>1. split' \subseteq Modules
    BY <1>2, <1>3 DEF RunTypes
  <2> QED BY <1>2, <1>3, <2>1 DEF RunTypes
<1>12. ControlInv'
  BY <1>2, <1>3, <1>5 DEF ControlInv
<1>13. DoneInv'
  <2>1. ASSUME NEW m \in covered \ ToSet(queue), ModuleDone(m) PROVE ModuleDone(m)'
    <3>1. InServices(m) => InServices(m)'
      BY <1>6 DEF InServices
    <3>2. InHandler(m) => InHandler(m)'
      BY <1>2 DEF InHandler
    <3>3. json = "json" /\ CollectionComplete => json' = "json" /\ CollectionComplete'
      BY <1>2, CompleteSame
    <3> QED BY <1>2, <2>1, <3>1, <3>2, <3>3, DoneKept
  <2> QED BY <1>2, <1>3, <2>1, DoneStep
<1>14. Writes => FilesSettled(n) /\ InRegistries(n) /\ routes[n] = Registered /\ InHandler(n)
  BY <1>2, <1>3, <1>4, <1>5 DEF NowInv
<1>15. NowInv'
  <2>1. Writes => /\ FilesSettled(n)' /\ InRegistries(n)' /\ routes'[n] = Registered
                  /\ InHandler(n)' /\ InServices(n)'
    BY <1>2, <1>6, <1>14, SettledKept DEF InServices
  <2> QED BY <1>2, <1>5, <2>1 DEF NowInv
<1>16. TagsInv'
  BY <1>2 DEF TagsInv
<1>17. OrderInv'
  <2>1. split' = {} => services'.args = handler.params
    <3>1. CASE split = {}
      BY <1>2, <1>3, <1>4, <1>6, <3>1 DEF OrderInv
    <3>2. CASE split # {}
      BY <1>2, <3>2
    <3> QED BY <3>1, <3>2
  <2> QED BY <1>2, <2>1 DEF OrderInv
<1>19. CollectionInv'
  BY <1>1, <1>2, CollectionSame
<1>20. AccountInv'
  BY <1>11, <1>12, <1>13, <1>15, <1>16, <1>17 DEF AccountInv
<1> QED BY <1>6, <1>19, <1>20, ClassicParts, PTL

(* A registry that a failing write has cut lacks what is known to be       *)
(* missing.                                                                *)
LEMMA CutRegistryInv ==
  ASSUME RunTypes, ControlInv, ProjectInv, CutRegistry, UNCHANGED file, At \in Shared PROVE ProjectInv'
<1>1. ProjectTypes /\ PartInv /\ OwnInv /\ ClassicResolves /\ ClassicNeverTwice
  BY DEF ProjectInv
<1>2. pc = "registries" /\ At = Head(todo) /\ todo # <<>>
  BY DEF CutRegistry, At, Shared
<1>3. PICK n \in Modules : n = Now
  BY <1>2, NowIs
<1> DEFINE r == At
           s == Append(ifaces[r], n)
<1>4. PICK kept \in Prefixes(s) :
        /\ ifaces' = [ifaces EXCEPT ![r] = kept]
        /\ incomplete' = incomplete \cup {<<m, r>> : m \in ToSet(ifaces[r]) \ ToSet(kept)}
  BY <1>3 DEF CutRegistry
<1>5. UNCHANGED <<intact, routes, handler, services>> /\ n \notin ToSet(ifaces[r])
  BY <1>3 DEF CutRegistry
<1>6. r \in ToSet(Registries)
  <2> DEFINE T == RunRegistries
  <2>1. todo \in Seq(T)
    BY <1>2 DEF ControlInv
  <2> HIDE DEF T
  <2>2. Head(todo) \in T
    BY <1>2, <2>1, TailIs
  <2> QED BY <1>2, <2>2, RegistriesAre DEF T
<1>7. ifaces \in [ToSet(Registries) -> Seq(Modules)] /\ ifaces[r] \in Seq(Modules)
  BY <1>1, <1>6 DEF ProjectTypes
<1>8. s \in Seq(Modules) /\ (IsInjective(ifaces[r]) => IsInjective(s))
  BY <1>5, <1>7, AppendIs
<1> HIDE DEF r, s
<1>9. kept \in Seq(Modules) /\ (IsInjective(s) => IsInjective(kept))
  <2>1. Len(s) \in Nat /\ DOMAIN s = 1 .. Len(s)
    BY <1>8, SeqIs
  <2>2. PICK l \in 0 .. Len(s) : kept = SubSeq(s, 1, l)
    BY DEF Prefixes
  <2>3. /\ kept \in Seq(Modules) /\ Len(kept) = l /\ DOMAIN kept = 1 .. l
        /\ \A k \in 1 .. l : kept[k] = s[k]
    BY <1>8, <2>1, <2>2
  <2>4. \A k \in DOMAIN kept : k \in DOMAIN s /\ kept[k] = s[k]
    BY <2>1, <2>3
  <2> QED BY <2>3, <2>4 DEF IsInjective
<1>10. /\ ifaces' \in [ToSet(Registries) -> Seq(Modules)]
       /\ \A g \in ToSet(Registries) : ifaces'[g] = IF g = r THEN kept ELSE ifaces[g]
  BY <1>4, <1>6, <1>7, <1>9
<1>11. incomplete \subseteq incomplete'
  BY <1>4
<1>12. ProjectTypes'
  <2>1. incomplete' \subseteq Modules \X (ModuleFiles \cup ToSet(Registries))
    <3>1. ToSet(ifaces[r]) \subseteq Modules
      BY <1>7, SeqIs
    <3> QED BY <1>1, <1>4, <1>6, <3>1 DEF ProjectTypes
  <2> QED BY <1>1, <1>5, <1>10, <2>1 DEF ProjectTypes
<1>13. PartInv' /\ OwnInv'
  BY <1>1, <1>5, <1>11 DEF PartInv, FileSettled, OwnInv
<1>14. ClassicNeverTwice'
  BY <1>1, <1>5, <1>8, <1>9, <1>10 DEF ClassicNeverTwice
<1>15. ASSUME NEW m \in Modules, m \in ToSet(ifaces["usecase"])
       PROVE  m \in ToSet(ifaces'["usecase"]) \/ <<m, "usecase">> \in incomplete'
  BY <1>4, <1>10, <1>15, RegistriesAre
<1>16. ClassicResolves'
  BY <1>1, <1>5, <1>11, <1>15 DEF ClassicResolves
<1> QED BY <1>12, <1>13, <1>14, <1>16 DEF ProjectInv

LEMMA SharedFailsInv == ASSUME ClassicIInv, SharedFails PROVE ClassicIInv'
<1>1. AccountInv /\ ProjectInv /\ CollectionInv
  BY ClassicParts
<1>2. /\ At \in Shared /\ EndsRun("err")
      /\ \/ UNCHANGED <<intact, ifaces, routes, handler, services, incomplete>>
         \/ Writes /\ (CutShort \/ CutRegistry \/ CutBehind)
      /\ split' = (IF services'.args = handler'.params THEN {}
                   ELSE IF pc \in {"handler", "services"} THEN split \cup {Now} ELSE split)
      /\ UNCHANGED <<file, postman, flags, urlPath, tags, covered>>
  BY DEF SharedFails
<1>3. RunTypes /\ ControlInv /\ NowInv /\ OrderInv
  BY <1>1 DEF AccountInv
<1>4. pc # "idle"
  <2>1. ASSUME pc = "idle" PROVE FALSE
    <3>1. At = "idle"
      BY <2>1 DEF At
    <3> QED BY <1>2, <3>1 DEF Shared
  <2> QED BY <2>1
<1>5. Now \in Modules
  BY <1>3, <1>4, NowIs
<1>6. pc \notin {"handler", "services"} => UNCHANGED <<handler, services>>
  BY <1>2 DEF CutShort, CutRegistry, CutBehind
<1>7. split' \in SUBSET Modules /\ (split' = {} => services'.args = handler'.params)
  BY <1>2, <1>3, <1>5, <1>6 DEF RunTypes, OrderInv
<1>8. AccountInv'
  BY <1>2, <1>3, <1>4, <1>7, EndsErrAt
<1>9. ProjectInv'
  <2>1. ASSUME UNCHANGED <<ifaces, routes, handler, services, incomplete>>,
               intact' = intact \/ intact' = intact \ {At}
        PROVE  ProjectInv'
    <3>1. intact' \subseteq Shared
      BY <1>1, <2>1 DEF ProjectInv, ProjectTypes
    <3> QED BY <1>1, <1>2, <2>1, <3>1, ProjectLike
  <2>2. ASSUME CutRegistry PROVE ProjectInv'
    BY <1>1, <1>2, <1>3, <2>2, CutRegistryInv
  <2>3. ASSUME Writes, CutBehind PROVE ProjectInv'
    <3>1. /\ pc \in {"route", "handler", "services"}
          /\ routes' = (IF pc = "route" THEN RoutesPatched ELSE routes)
          /\ handler' = (IF pc = "handler" THEN HandlerPatched ELSE handler)
          /\ services' = (IF pc = "services" THEN ServicesPatched ELSE services)
          /\ UNCHANGED <<file, intact, ifaces, incomplete>>
      BY <1>2, <2>3 DEF CutBehind
    <3>2. CASE pc = "route"
      BY <1>1, <1>3, <2>3, <3>1, <3>2, RoutesStep
    <3>3. CASE pc = "handler"
      BY <1>1, <1>3, <2>3, <3>1, <3>3, HandlerStep
    <3>4. CASE pc = "services"
      BY <1>1, <1>3, <2>3, <3>1, <3>4, ServicesStep
    <3> QED BY <3>1, <3>2, <3>3, <3>4
  <2> QED BY <1>2, <2>1, <2>2, <2>3 DEF CutShort
<1>10. CollectionInv'
  BY <1>1, <1>2, CollectionSame
<1> QED BY <1>8, <1>9, <1>10, ClassicParts, PTL

LEMMA RebuildFailsInv == ASSUME ClassicIInv, RebuildFails PROVE ClassicIInv'
<1>1. AccountInv /\ ProjectInv /\ CollectionInv
  BY ClassicParts
<1>2. /\ pc = "postman" /\ EndsRun("err")
      /\ IF Collects THEN CollectionFails(~Writes) ELSE UNCHANGED postman
      /\ UNCHANGED <<project, flags, urlPath, tags, incomplete, split, covered>>
  BY DEF RebuildFails, classicHistory
<1>3. AccountInv'
  BY <1>1, <1>2, EndsErr DEF AccountInv, RunTypes, project
<1>4. ProjectInv'
  BY <1>1, <1>2, ProjectSame
<1>5. CollectionInv'
  BY <1>1, <1>2, CollectionSame, CollectionFailsInv
<1> QED BY <1>3, <1>4, <1>5, ClassicParts, PTL

LEMMA RebuildCollectionInv == ASSUME ClassicIInv, RebuildCollection PROVE ClassicIInv'
<1>1. AccountInv /\ ProjectInv /\ CollectionInv
  BY ClassicParts
<1>2. RunTypes /\ ControlInv /\ DoneInv /\ NowInv /\ OrderInv
  BY <1>1 DEF AccountInv
<1>3. /\ pc = "postman"
      /\ IF Collects /\ Writes THEN PatchCollection(urlPath) ELSE UNCHANGED postman
      /\ UNCHANGED <<project, flags, urlPath, tags, incomplete, split, covered>>
      /\ \/ Len(queue) = 1 /\ EndsRun("ok")
         \/ /\ Len(queue) # 1 /\ pc' = "tags" /\ queue' = Tail(queue)
            /\ UNCHANGED <<todo, result>>
  BY DEF RebuildCollection, classicHistory
<1>4. /\ Now \in Modules /\ queue # <<>> /\ Tail(queue) \in Seq(Modules)
      /\ ToSet(queue) = {Now} \cup ToSet(Tail(queue))
      /\ (Len(queue) = 1 <=> Tail(queue) = <<>>)
  BY <1>2, <1>3, NowIs
<1>5. /\ queue' = Tail(queue) /\ todo' = <<>>
      /\ \/ pc' = "idle" /\ result' = "ok" /\ queue' = <<>>
         \/ pc' = "tags" /\ queue' # <<>> /\ result' = result
  <2>1. todo = <<>>
    BY <1>2, <1>3 DEF ControlInv
  <2> QED BY <1>3, <1>4, <2>1 DEF EndsRun, Ends
<1>6. /\ CollectionInv'
      /\ Collects /\ Writes => json' = "json" /\ CollectionComplete'
      /\ json = "json" /\ CollectionComplete => json' = "json" /\ CollectionComplete'
  <2>1. CASE Collects /\ Writes
    <3>1. PatchCollection(urlPath)
      BY <1>3, <2>1
    <3>2. PICK u \in Seq(Segments) : u = urlPath
      <4>1. urlPath \in Seq(Segments)
        <5>1. <<>> \in Seq(Segments)
          OBVIOUS
        <5>2. urlPath \in UrlPaths \cup {<<>>} /\ UrlPaths \subseteq Seq(Segments)
          BY <1>2, ClassicAssumption DEF RunTypes
        <5> QED BY <5>1, <5>2
      <4> QED BY <4>1
    <3>3. PatchCollection(u)
      BY <3>1, <3>2
    <3> QED BY <1>1, <3>3, RebuildInv
  <2>2. CASE ~(Collects /\ Writes)
    <3>1. UNCHANGED postman
      BY <1>3, <2>2
    <3> QED BY <1>1, <2>2, <3>1, CollectionSame, CompleteSame
  <2> QED BY <2>1, <2>2
<1>7. RunTypes'
  <2>1. \A T : <<>> \in Seq(T)
    OBVIOUS
  <2> QED BY <1>2, <1>3, <1>4, <1>5, <2>1 DEF RunTypes, project
<1>8. ControlInv'
  BY <1>5 DEF ControlInv
<1>9. PICK n \in Modules : n = Now
  BY <1>4
<1>10. ASSUME Writes, NEW m \in covered \ ToSet(queue') PROVE ModuleDone(m)'
  <2>1. CASE m # n
    <3>1. ModuleDone(m)
      BY <1>2, <1>3, <1>4, <1>5, <1>9, <1>10, <2>1 DEF DoneInv
    <3>2. (InHandler(m) => InHandler(m)') /\ (InServices(m) => InServices(m)')
      BY <1>3 DEF InHandler, InServices, project
    <3> QED BY <1>3, <1>6, <3>1, <3>2, DoneKept DEF project
  <2>2. CASE m = n
    <3>1. /\ FilesSettled(n) /\ InRegistries(n)
          /\ Given("ctl") => routes[n] = Registered /\ InHandler(n) /\ InServices(n)
      BY <1>2, <1>3, <1>9, <1>10 DEF NowInv
    <3>2. /\ FilesSettled(n)' /\ InRegistries(n)'
          /\ Given("ctl") => routes'[n] = Registered /\ InHandler(n)' /\ InServices(n)'
      BY <1>3, <3>1, SettledKept DEF project
    <3>3. \A x : Given(x)' <=> Given(x)
      BY <1>3, FlagsSame
    <3>4. Given("postman") /\ n = Collected => json' = "json" /\ CollectionComplete'
      BY <1>6, <1>9, <1>10 DEF Collects
    <3>5. ModuleDone(n)'
      BY <3>2, <3>3, <3>4 DEF ModuleDone
    <3> QED BY <2>2, <3>5
  <2> QED BY <2>1, <2>2
<1>11. DoneInv'
  <2>1. Writes' <=> Writes
    BY <1>3, FlagsSame
  <2> QED BY <1>3, <1>10, <2>1 DEF DoneInv
<1>12. NowInv' /\ TagsInv'
  BY <1>5 DEF NowInv, TagsInv
<1>13. OrderInv'
  BY <1>2, <1>3, <1>5 DEF OrderInv, project
<1>14. ProjectInv'
  BY <1>1, <1>3, ProjectSame
<1>15. AccountInv'
  BY <1>7, <1>8, <1>11, <1>12, <1>13 DEF AccountInv
<1> QED BY <1>6, <1>14, <1>15, ClassicParts, PTL

(* The developer's edits of the shared files.                              *)
LEMMA AddUseCaseInv == ASSUME ClassicIInv, AddUseCase PROVE ClassicIInv'
<1>1. AccountInv /\ ProjectInv /\ CollectionInv
  BY ClassicParts
<1>2. /\ ClassicEdit /\ Own \notin handler.fields
      /\ handler' = [fields |-> handler.fields \cup {Own}, params |-> Append(handler.params, Own),
                     literal |-> handler.literal \cup {Own}]
      /\ services' = [services EXCEPT !.ctrls = @ \cup {Own}, !.args = Append(@, Own)]
      /\ UNCHANGED <<file, intact, ifaces, routes, postman, incomplete>>
  BY DEF AddUseCase
<1>3. /\ OrderInv
      /\ ProjectTypes /\ PartInv /\ OwnInv /\ ClassicResolves /\ ClassicNeverTwice
  BY <1>1 DEF AccountInv, ProjectInv
<1> DEFINE M == Modules \cup {Own}
           p == Append(handler.params, Own)
           a == Append(services.args, Own)
           C == services.ctrls \cup {Own}
<1>4. /\ handler.fields \subseteq M /\ handler.params \in Seq(M) /\ handler.literal \subseteq M
  BY <1>3, HandlersAre DEF ProjectTypes
<1>5. services \in Services /\ services.ctrls \subseteq M /\ services.args \in Seq(M)
  <2>1. \A s \in Services : s.imports \subseteq Modules /\ s.ctrls \subseteq M /\ s.args \in Seq(M)
    BY ServicesAre, Zenon
  <2>2. services \in Services
    BY <1>3 DEF ProjectTypes
  <2> QED BY <2>1, <2>2
<1>6. Own \notin ToSet(handler.params) /\ Own \notin ToSet(services.args)
  BY <1>2, <1>3 DEF OwnInv
<1>7. /\ p \in Seq(M) /\ ToSet(p) = ToSet(handler.params) \cup {Own}
      /\ a \in Seq(M) /\ ToSet(a) = ToSet(services.args) \cup {Own}
      /\ IsInjective(handler.params) => IsInjective(p)
      /\ IsInjective(services.args) => IsInjective(a)
  <2> HIDE DEF M
  <2>1. Own \in M
    BY DEF M
  <2> QED BY <1>4, <1>5, <1>6, <2>1, AppendIs
<1>8. handler' = [fields |-> handler.fields \cup {Own}, params |-> p,
                  literal |-> handler.literal \cup {Own}]
      /\ services' = [services EXCEPT !.ctrls = C, !.args = a]
  BY <1>2
<1>9. C \in SUBSET M
  BY <1>5
<1> HIDE DEF p, a, C
<1>10. /\ handler' \in Handlers /\ handler'.fields = handler.fields \cup {Own}
       /\ handler'.params = p /\ handler'.literal = handler.literal \cup {Own}
  <2>1. handler.fields \cup {Own} \in SUBSET M /\ handler.literal \cup {Own} \in SUBSET M
    BY <1>4
  <2>2. \A F \in SUBSET M, s \in Seq(M), L \in SUBSET M :
          [fields |-> F, params |-> s, literal |-> L] \in Handlers
    BY HandlersAre, Zenon
  <2>3. handler' \in Handlers
    BY <1>7, <1>8, <2>1, <2>2, Zenon
  <2> QED BY <1>8, <2>3
<1>11. /\ services' \in Services /\ services'.imports = services.imports
       /\ services'.ctrls = C /\ services'.args = a
  <2> DEFINE S == Seq(M)
  <2>1. Services = [imports : SUBSET Modules, ctrls : SUBSET M, args : S]
    BY DEF Services
  <2>2. services \in Services /\ C \in SUBSET M /\ a \in S
    BY <1>5, <1>7, <1>9
  <2> HIDE DEF M, S
  <2> QED BY <1>8, <2>1, <2>2
<1> HIDE DEF M
<1>12. OrderInv'
  <2>1. split = {} => handler.params = services.args
    BY <1>2, <1>3 DEF OrderInv, ClassicEdit
  <2>2. split' = {} => handler'.params = services'.args
    BY <1>2, <1>10, <1>11, <2>1 DEF ClassicEdit, p, a
  <2> QED BY <1>2, <2>2 DEF OrderInv, ClassicEdit
<1>13. ProjectInv'
  <2>1. ProjectTypes'
    BY <1>2, <1>3, <1>10, <1>11 DEF ProjectTypes
  <2>2. PartInv'
    BY <1>2, <1>3 DEF PartInv, FileSettled
  <2>3. OwnInv'
    BY <1>10 DEF OwnInv
  <2>4. ClassicNeverTwice'
    BY <1>2, <1>3, <1>7, <1>10, <1>11 DEF ClassicNeverTwice
  <2>5. \A m \in Modules : m # Own
    BY ClassicAssumption
  <2>6. ClassicResolves'
    BY <1>2, <1>3, <1>7, <1>10, <1>11, <2>5 DEF ClassicResolves, C
  <2> QED BY <2>1, <2>2, <2>3, <2>4, <2>6 DEF ProjectInv
<1>14. AccountInv' /\ CollectionInv'
  BY <1>1, <1>2, <1>12, EditAccount, CollectionSame
<1> QED BY <1>13, <1>14, ClassicParts, PTL

LEMMA UnwireInv == ASSUME ClassicIInv, NEW n \in Modules, Unwire(n) PROVE ClassicIInv'
<1>1. AccountInv /\ ProjectInv /\ CollectionInv
  BY ClassicParts
<1> DEFINE M == Modules \cup {Own}
           p == Without(handler.params, n)
           a == Without(services.args, n)
<1>2. /\ ClassicEdit
      /\ handler' = [fields |-> handler.fields \ {n}, params |-> p,
                     literal |-> handler.literal \ {n}]
      /\ services' = [imports |-> services.imports \ {n}, ctrls |-> services.ctrls \ {n}, args |-> a]
      /\ routes' = [routes EXCEPT ![n] = {}]
      /\ UNCHANGED <<file, intact, ifaces, postman, incomplete>>
  BY DEF Unwire
<1>3. /\ OrderInv
      /\ ProjectTypes /\ PartInv /\ OwnInv /\ ClassicResolves /\ ClassicNeverTwice
  BY <1>1 DEF AccountInv, ProjectInv
<1>4. /\ handler.fields \subseteq M /\ handler.params \in Seq(M) /\ handler.literal \subseteq M
  BY <1>3, HandlersAre DEF ProjectTypes
<1>5. services.imports \subseteq Modules /\ services.ctrls \subseteq M /\ services.args \in Seq(M)
  <2>1. \A s \in Services : s.imports \subseteq Modules /\ s.ctrls \subseteq M /\ s.args \in Seq(M)
    BY ServicesAre, Zenon
  <2>2. services \in Services
    BY <1>3 DEF ProjectTypes
  <2> QED BY <2>1, <2>2
<1>6. /\ p \in Seq(M) /\ ToSet(p) = ToSet(handler.params) \ {n}
      /\ a \in Seq(M) /\ ToSet(a) = ToSet(services.args) \ {n}
      /\ IsInjective(handler.params) => IsInjective(p)
      /\ IsInjective(services.args) => IsInjective(a)
  <2> HIDE DEF M
  <2> QED BY <1>4, <1>5, WithoutIs
<1> HIDE DEF p, a
<1>7. /\ handler' \in Handlers /\ handler'.fields = handler.fields \ {n}
      /\ handler'.params = p /\ handler'.literal = handler.literal \ {n}
  <2>1. handler.fields \ {n} \in SUBSET M /\ handler.literal \ {n} \in SUBSET M
    BY <1>4
  <2>2. \A F \in SUBSET M, s \in Seq(M), L \in SUBSET M :
          [fields |-> F, params |-> s, literal |-> L] \in Handlers
    BY HandlersAre, Zenon
  <2>3. handler' \in Handlers
    BY <1>2, <1>6, <2>1, <2>2, Zenon
  <2> QED BY <1>2, <2>3
<1>8. /\ services' \in Services /\ services'.imports = services.imports \ {n}
      /\ services'.ctrls = services.ctrls \ {n} /\ services'.args = a
  <2>1. services.imports \ {n} \in SUBSET Modules /\ services.ctrls \ {n} \in SUBSET M
    BY <1>5
  <2>2. \A I \in SUBSET Modules, C \in SUBSET M, s \in Seq(M) :
          [imports |-> I, ctrls |-> C, args |-> s] \in Services
    BY ServicesAre, Zenon
  <2>3. services' \in Services
    BY <1>2, <1>6, <2>1, <2>2, Zenon
  <2> QED BY <1>2, <2>3
<1> HIDE DEF M
<1>9. /\ routes' \in [Modules -> SUBSET Registered]
      /\ \A m \in Modules : routes'[m] = IF m = n THEN {} ELSE routes[m]
  BY <1>2, <1>3 DEF ProjectTypes
<1>10. OrderInv'
  <2>1. split = {} => handler.params = services.args
    BY <1>2, <1>3 DEF OrderInv, ClassicEdit
  <2>2. split' = {} => handler'.params = services'.args
    BY <1>2, <1>7, <1>8, <2>1 DEF ClassicEdit, p, a
  <2> QED BY <1>2, <2>2 DEF OrderInv, ClassicEdit
<1>11. ProjectInv'
  <2>1. ProjectTypes'
    BY <1>2, <1>3, <1>7, <1>8, <1>9 DEF ProjectTypes
  <2>2. PartInv'
    BY <1>2, <1>3 DEF PartInv, FileSettled
  <2>3. OwnInv'
    <3>1. Own # n
      BY ClassicAssumption
    <3> QED BY <1>3, <1>6, <1>7, <1>8, <3>1 DEF OwnInv
  <2>4. ClassicNeverTwice'
    BY <1>2, <1>3, <1>6, <1>7, <1>8 DEF ClassicNeverTwice
  <2>5. ClassicResolves'
    BY <1>2, <1>3, <1>6, <1>7, <1>8, <1>9 DEF ClassicResolves
  <2> QED BY <2>1, <2>2, <2>3, <2>4, <2>5 DEF ProjectInv
<1>12. AccountInv' /\ CollectionInv'
  BY <1>1, <1>2, <1>10, EditAccount, CollectionSame
<1> QED BY <1>11, <1>12, ClassicParts, PTL

LEMMA DropRouteInv ==
  ASSUME ClassicIInv, NEW n \in Modules, NEW r, DropRoute(n, r) PROVE ClassicIInv'
<1>1. AccountInv /\ ProjectInv /\ CollectionInv
  BY ClassicParts
<1>2. /\ ClassicEdit /\ r # "import" /\ r \in routes[n]
      /\ routes' = [routes EXCEPT ![n] = @ \ {r}]
      /\ UNCHANGED <<file, intact, ifaces, handler, services, postman, incomplete>>
  BY DEF DropRoute
<1>3. /\ OrderInv
      /\ ProjectTypes /\ PartInv /\ OwnInv /\ ClassicResolves /\ ClassicNeverTwice
  BY <1>1 DEF AccountInv, ProjectInv
<1>4. /\ routes' \in [Modules -> SUBSET Registered]
      /\ \A m \in Modules : routes'[m] = IF m = n THEN routes[m] \ {r} ELSE routes[m]
  BY <1>2, <1>3 DEF ProjectTypes
<1>5. OrderInv'
  BY <1>2, <1>3 DEF OrderInv, ClassicEdit
<1>6. ProjectInv'
  <2>1. ProjectTypes'
    BY <1>2, <1>3, <1>4 DEF ProjectTypes
  <2>2. PartInv' /\ OwnInv' /\ ClassicNeverTwice'
    BY <1>2, <1>3 DEF PartInv, FileSettled, OwnInv, ClassicNeverTwice
  <2>3. ClassicResolves'
    BY <1>2, <1>3, <1>4 DEF ClassicResolves
  <2> QED BY <2>1, <2>2, <2>3 DEF ProjectInv
<1>7. AccountInv' /\ CollectionInv'
  BY <1>1, <1>2, <1>5, EditAccount, CollectionSame
<1> QED BY <1>6, <1>7, ClassicParts, PTL

LEMMA DropFieldInv == ASSUME ClassicIInv, NEW n \in Modules, DropField(n) PROVE ClassicIInv'
<1>1. AccountInv /\ ProjectInv /\ CollectionInv
  BY ClassicParts
<1> DEFINE F == handler.fields \ {n}
<1>2. /\ ClassicEdit /\ handler' = [handler EXCEPT !.fields = F]
      /\ UNCHANGED <<file, intact, ifaces, routes, services, postman, incomplete>>
  BY DEF DropField
<1>3. /\ OrderInv
      /\ ProjectTypes /\ PartInv /\ OwnInv /\ ClassicResolves /\ ClassicNeverTwice
  BY <1>1 DEF AccountInv, ProjectInv
<1>4. handler \in Handlers /\ F \in SUBSET (Modules \cup {Own})
  BY <1>3, HandlersAre DEF ProjectTypes
<1> HIDE DEF F
<1>5. /\ handler' \in Handlers /\ handler'.fields = F
      /\ handler'.params = handler.params /\ handler'.literal = handler.literal
  BY <1>2, <1>4, HandlersAre
<1>6. OrderInv'
  BY <1>2, <1>3, <1>5 DEF OrderInv, ClassicEdit
<1>7. ProjectInv'
  <2>1. ProjectTypes'
    BY <1>2, <1>3, <1>5 DEF ProjectTypes
  <2>2. PartInv' /\ ClassicNeverTwice' /\ ClassicResolves'
    BY <1>2, <1>3, <1>5 DEF PartInv, FileSettled, ClassicNeverTwice, ClassicResolves
  <2>3. OwnInv'
    BY <1>2, <1>3, <1>5, ClassicAssumption DEF OwnInv, F
  <2> QED BY <2>1, <2>2, <2>3 DEF ProjectInv
<1>8. AccountInv' /\ CollectionInv'
  BY <1>1, <1>2, <1>6, EditAccount, CollectionSame
<1> QED BY <1>7, <1>8, ClassicParts, PTL

LEMMA RestoreInv == ASSUME ClassicIInv, NEW s \in Shared, Restore(s) PROVE ClassicIInv'
<1>1. AccountInv /\ ProjectInv /\ CollectionInv
  BY ClassicParts
<1>2. /\ ClassicEdit /\ intact' = intact \cup {s}
      /\ UNCHANGED <<file, ifaces, routes, handler, services, postman, incomplete>>
  BY DEF Restore
<1>3. OrderInv'
  BY <1>1, <1>2 DEF AccountInv, OrderInv, ClassicEdit
<1>4. intact' \subseteq Shared
  BY <1>1, <1>2 DEF ProjectInv, ProjectTypes
<1>5. ProjectInv'
  BY <1>1, <1>2, <1>4, ProjectLike
<1>6. AccountInv' /\ CollectionInv'
  BY <1>1, <1>2, <1>3, EditAccount, CollectionSame
<1> QED BY <1>5, <1>6, ClassicParts, PTL

LEMMA EditCollectionInv == ASSUME ClassicIInv, EditCollection PROVE ClassicIInv'
<1>1. AccountInv /\ ProjectInv /\ CollectionInv
  BY ClassicParts
<1>2. ClassicEdit /\ EditItems /\ UNCHANGED <<project, incomplete>>
  BY DEF EditCollection
<1>3. OrderInv'
  BY <1>1, <1>2 DEF AccountInv, OrderInv, ClassicEdit, project
<1>4. ProjectInv' /\ AccountInv' /\ CollectionInv'
  BY <1>1, <1>2, <1>3, ProjectSame, EditAccount, EditItemsInv
<1> QED BY <1>4, ClassicParts, PTL

LEMMA ClassicUnchanged == ASSUME ClassicIInv, UNCHANGED gvars PROVE ClassicIInv'
<1>1. AccountInv /\ ProjectInv /\ CollectionInv
  BY ClassicParts
<1>2. UNCHANGED <<project, postman, incomplete, pc, todo, queue, flags, urlPath, tags, result,
                  split, covered>>
  BY DEF gvars, runInput, runVars, classicHistory
<1>3. ProjectInv' /\ CollectionInv'
  BY <1>1, <1>2, ProjectSame, CollectionSame
<1>4. RunTypes' /\ ControlInv' /\ TagsInv' /\ OrderInv'
  <2>1. RunTypes' /\ TagsInv' /\ OrderInv'
    BY <1>1, <1>2 DEF AccountInv, RunTypes, TagsInv, OrderInv, Now, Writes, Given, project
  <2>2. ControlInv'
    BY <1>1, <1>2, FlagsSame DEF AccountInv, ControlInv
  <2> QED BY <2>1, <2>2
<1>5. DoneInv'
  <2>1. ASSUME pc # "idle" \/ result = "ok", Writes, NEW m \in covered \ ToSet(queue)
        PROVE  ModuleDone(m)'
    BY <1>1, <1>2, <2>1, DoneSame DEF AccountInv, DoneInv
  <2>2. Writes' <=> Writes
    BY <1>2, FlagsSame
  <2> QED BY <1>2, <2>1, <2>2 DEF DoneInv
<1>6. NowInv'
  <2>1. CASE pc = "idle"
    BY <1>2, <2>1 DEF NowInv
  <2>2. CASE pc # "idle"
    <3>1. PICK n \in Modules : n = Now
      BY <1>1, <2>2, NowIs DEF AccountInv
    <3>2. Now' = n
      BY <1>2, <3>1 DEF Now
    <3>3. /\ \A f : FileSettled(n, f) <=> FileSettled(n, f)'
          /\ FilesSettled(n) <=> FilesSettled(n)'
          /\ InRegistries(n) <=> InRegistries(n)'
          /\ InHandler(n) <=> InHandler(n)'
          /\ InServices(n) <=> InServices(n)'
      BY <1>2, SettledKept DEF project
    <3>4. /\ RunFiles' = RunFiles /\ RunRegistries' = RunRegistries /\ (Writes' <=> Writes)
          /\ \A x : Given(x)' <=> Given(x)
      BY <1>2, FlagsSame
    <3>5. routes' = routes /\ ifaces' = ifaces
      BY <1>2 DEF project
    <3> QED BY <1>1, <1>2, <3>1, <3>2, <3>3, <3>4, <3>5 DEF AccountInv, NowInv
  <2> QED BY <2>1, <2>2
<1>7. AccountInv'
  BY <1>4, <1>5, <1>6 DEF AccountInv
<1> QED BY <1>3, <1>7, ClassicParts, PTL

LEMMA ClassicStep == ClassicIInv /\ [ClassicNext]_gvars => ClassicIInv'
<1> SUFFICES ASSUME ClassicIInv, [ClassicNext]_gvars PROVE ClassicIInv'
  OBVIOUS
<1>1. ASSUME ClassicRun \/ ReadTags \/ ReadTagsFails \/ ReadRegistries \/ RegistriesDone \/ RegisterRoutes
             \/ PatchHandler \/ PatchServices \/ SharedFails \/ RebuildCollection \/ RebuildFails
      PROVE  ClassicIInv'
  BY <1>1, ClassicRunInv, ReadTagsInv, ReadTagsFailsInv, ReadRegistriesInv, RegistriesDoneInv, RegisterRoutesInv,
     PatchHandlerInv, PatchServicesInv, SharedFailsInv, RebuildCollectionInv, RebuildFailsInv
<1>2. ASSUME NEW f \in ModuleFiles, WriteModuleFile(f) \/ FileRefused(f) \/ ModuleFileFails(f)
      PROVE  ClassicIInv'
  BY <1>2, WriteModuleFileInv, FileRefusedInv, ModuleFileFailsInv
<1>3. ASSUME NEW r \in ToSet(Registries), WriteRegistry(r) PROVE ClassicIInv'
  BY <1>3, WriteRegistryInv
<1>4. ASSUME NEW m \in Modules, Unwire(m) \/ DropField(m) PROVE ClassicIInv'
  BY <1>4, UnwireInv, DropFieldInv
<1>5. ASSUME NEW m \in Modules, ChangeTag(m) PROVE ClassicIInv'
  BY <1>5, ModuleFilesAre, FileEditsInv
<1>6. ASSUME NEW m \in Modules, NEW f \in ModuleFiles, AddOwn(m, f) \/ RemoveGenerated(m, f)
      PROVE  ClassicIInv'
  BY <1>6, FileEditsInv
<1>7. ASSUME NEW m \in Modules, NEW r \in Registered, DropRoute(m, r) PROVE ClassicIInv'
  BY <1>7, DropRouteInv
<1>8. ASSUME AddUseCase \/ EditCollection PROVE ClassicIInv'
  BY <1>8, AddUseCaseInv, EditCollectionInv
<1>9. ASSUME NEW s \in Shared, Restore(s) PROVE ClassicIInv'
  BY <1>9, RestoreInv
<1>10. ASSUME ClassicEnded \/ UNCHANGED gvars PROVE ClassicIInv'
  BY <1>10, ClassicUnchanged DEF ClassicEnded
<1> QED BY <1>1, <1>2, <1>3, <1>4, <1>5, <1>6, <1>7, <1>8, <1>9, <1>10, Zenon DEF ClassicNext

-----------------------------------------------------------------------------
(* What a run may not do to the developer's code.                          *)

LEMMA TagKept ==
  ASSUME TagsInv, pc = "files", NEW f, "tag" \in file[Now][f].has => f = Dto
  PROVE  "tag" \in file[Now][f].has => "tag" \in Rendered(f).has
<1>1. f = Dto /\ "tag" \in file[Now][f].has => tags
  BY DEF TagsInv
<1>2. CASE Rendered(f) = Whole(f)
  <2>1. f = Dto /\ tags => "tag" \in Whole(f).has
    BY DEF Whole
  <2> QED BY <1>1, <1>2, <2>1
<1>3. CASE Rendered(f) # Whole(f)
  <2>1. Rendered(f) = [reads |-> "go", has |-> file[Now][f].has \cup {"gen"}]
    BY <1>3 DEF Rendered
  <2> QED BY <2>1
<1> QED BY <1>2, <1>3

LEMMA WriteKeeps ==
  ASSUME ClassicIInv, NEW f, WriteModuleFile(f)
  PROVE  \A m \in Modules, g \in ModuleFiles :
           /\ "own" \in file[m][g].has => Given("force") \/ "own" \in file'[m][g].has
           /\ "tag" \in file[m][g].has => "tag" \in file'[m][g].has
<1>1. RunTypes /\ ControlInv /\ TagsInv /\ ProjectTypes
  BY ClassicParts DEF AccountInv, ProjectInv
<1>2. /\ pc = "files" /\ todo # <<>> /\ f = Head(todo) /\ ~Refused(f)
      /\ file' = file \/ file' = [file EXCEPT ![Now][f] = Rendered(f)]
  BY DEF WriteModuleFile
<1>3. f \in ModuleFiles
  BY <1>1, <1>2, NextModuleFile
<1>4. PICK n \in Modules : n = Now
  BY <1>1, <1>2, NowIs
<1> DEFINE x == Rendered(f)
<1>5. /\ "tag" \in file[n][f].has => f = Dto
      /\ file[n][f].reads # "go" => file[n][f].has = {}
  BY <1>1, <1>3 DEF ProjectTypes
<1>6. /\ "own" \in file[n][f].has =>
           "own" \in x.has \/ Given("force") \/ Given("hard") \/ file[n][f].reads = "blank"
  BY <1>1, <1>2, <1>3, <1>4, RenderedIs
<1>7. "tag" \in file[n][f].has => "tag" \in x.has
  BY <1>1, <1>2, <1>4, <1>5, TagKept
<1>8. Given("hard") => Given("force") \/ file[n][f].reads = "absent"
  BY <1>2, <1>4 DEF Refused, Exists
<1> HIDE DEF x
<1>9. /\ "own" \in file[n][f].has => "own" \in x.has \/ Given("force")
  BY <1>5, <1>6, <1>8
<1>10. file' = file \/ file' = [file EXCEPT ![n][f] = x]
  BY <1>2, <1>4 DEF x
<1>11. ASSUME NEW m \in Modules, NEW g \in ModuleFiles
       PROVE  file'[m][g] = file[m][g] \/ (m = n /\ g = f /\ file'[m][g] = x)
  BY <1>1, <1>3, <1>10 DEF ProjectTypes
<1> QED BY <1>7, <1>9, <1>11

LEMMA FailsKeeps ==
  ASSUME ClassicIInv, NEW f, ModuleFileFails(f), NEW m \in Modules, NEW g \in ModuleFiles
  PROVE  <<m, g>> \in incomplete' \/ file'[m][g] = file[m][g]
<1>1. RunTypes /\ ControlInv /\ ProjectTypes
  BY ClassicParts DEF AccountInv, ProjectInv
<1>2. pc = "files" /\ todo # <<>> /\ f = Head(todo)
  BY DEF ModuleFileFails
<1>3. PICK n \in Modules : n = Now
  BY <1>1, <1>2, NowIs
<1>4. CASE file' = file
  BY <1>4
<1>5. CASE file' # file
  <2>1. PICK c \in Cut(f) : file' = [file EXCEPT ![n][f] = c]
    BY <1>3, <1>5 DEF ModuleFileFails
  <2>2. <<n, f>> \in incomplete'
    BY <1>3, <1>5 DEF ModuleFileFails
  <2>3. CASE m = n /\ g = f
    BY <2>2, <2>3
  <2>4. CASE m # n \/ g # f
    <3>1. file'[m][g] = file[m][g]
      BY <1>1, <2>1, <2>4 DEF ProjectTypes
    <3> QED BY <3>1
  <2> QED BY <2>3, <2>4
<1> QED BY <1>4, <1>5

LEMMA SharedKeeps ==
  ASSUME ClassicIInv, PatchHandler \/ PatchServices \/ SharedFails, pc # "idle"
  PROVE  /\ IsPrefix(handler.params, handler'.params)
         /\ IsPrefix(services.args, services'.args)
<1>1. RunTypes /\ ProjectTypes
  BY ClassicParts DEF AccountInv, ProjectInv
<1>3. PICK n \in Modules : n = Now
  BY <1>1, NowIs
<1> DEFINE M == Modules \cup {Own}
<1>4. handler.params \in Seq(M)
  BY <1>1, HandlersAre DEF ProjectTypes
<1>5. services.args \in Seq(M)
  <2>1. \A s \in Services : s.imports \subseteq Modules /\ s.ctrls \subseteq M /\ s.args \in Seq(M)
    BY ServicesAre, Zenon
  <2>2. services \in Services
    BY <1>1 DEF ProjectTypes
  <2> QED BY <2>1, <2>2
<1>6. n \in M
  OBVIOUS
<1> HIDE DEF M
<1>7. /\ IsPrefix(handler.params, handler.params) /\ IsPrefix(services.args, services.args)
      /\ IsPrefix(handler.params, AddTo(handler.params, n))
      /\ IsPrefix(services.args, AddArg(services.args, n))
  BY <1>4, <1>5, <1>6, AppendIs, AddToIs
<1>8. CASE PatchHandler
  <2>1. /\ services' = services
        /\ handler'.params = AddTo(handler.params, n) \/ handler'.params = handler.params
    BY <1>3, <1>8 DEF PatchHandler, HandlerPatched
  <2> QED BY <1>7, <2>1
<1>9. CASE PatchServices
  <2>1. /\ handler' = handler
        /\ services'.args = AddArg(services.args, n) \/ services'.args = services.args
    BY <1>3, <1>9 DEF PatchServices, ServicesPatched
  <2> QED BY <1>7, <2>1
<1>10. CASE SharedFails
  <2>1. /\ handler'.params = AddTo(handler.params, n) \/ handler' = handler
        /\ services'.args = AddArg(services.args, n) \/ services' = services
    BY <1>3, <1>10 DEF SharedFails, CutShort, CutRegistry, CutBehind, HandlerPatched, ServicesPatched
  <2> QED BY <1>7, <2>1
<1> QED BY <1>8, <1>9, <1>10

LEMMA ClassicStepKeeps == ClassicIInv /\ [ClassicNext]_gvars => ClassicKeepsUserCode
<1> SUFFICES ASSUME ClassicIInv, [ClassicNext]_gvars, pc # "idle" PROVE ClassicKeepsUserCode
  BY DEF ClassicKeepsUserCode
<1>1. ProjectTypes
  BY ClassicParts DEF ProjectInv
<1>2. IsPrefix(handler.params, handler.params) /\ IsPrefix(services.args, services.args)
  <2> DEFINE M == Modules \cup {Own}
  <2>1. handler.params \in Seq(M)
    BY <1>1, HandlersAre DEF ProjectTypes
  <2>2. services.args \in Seq(M)
    <3>1. \A s \in Services : s.imports \subseteq Modules /\ s.ctrls \subseteq M /\ s.args \in Seq(M)
      BY ServicesAre, Zenon
    <3>2. services \in Services
      BY <1>1 DEF ProjectTypes
    <3> QED BY <3>1, <3>2
  <2>3. Own \in M
    OBVIOUS
  <2> HIDE DEF M
  <2> QED BY <2>1, <2>2, <2>3, AppendIs
<1>3. ASSUME UNCHANGED <<file, handler, services>> PROVE ClassicKeepsUserCode
  BY <1>2, <1>3 DEF ClassicKeepsUserCode
<1>4. ASSUME NEW f \in ModuleFiles, WriteModuleFile(f) PROVE ClassicKeepsUserCode
  <2>1. handler' = handler /\ services' = services
    BY <1>4 DEF WriteModuleFile
  <2> QED BY <1>2, <1>4, <2>1, WriteKeeps DEF ClassicKeepsUserCode
<1>5. ASSUME NEW f \in ModuleFiles, ModuleFileFails(f) PROVE ClassicKeepsUserCode
  <2>1. handler' = handler /\ services' = services
    BY <1>5 DEF ModuleFileFails
  <2> QED BY <1>2, <1>5, <2>1, FailsKeeps DEF ClassicKeepsUserCode
<1>6. ASSUME PatchHandler \/ PatchServices \/ SharedFails PROVE ClassicKeepsUserCode
  <2>1. file' = file
    BY <1>6 DEF PatchHandler, PatchServices, SharedFails
  <2> QED BY <1>6, <2>1, SharedKeeps DEF ClassicKeepsUserCode
<1>7. ASSUME ClassicRun \/ ReadTags \/ ReadTagsFails \/ ReadRegistries \/ RegistriesDone
             \/ RegisterRoutes \/ RebuildCollection \/ RebuildFails \/ ClassicEnded \/ UNCHANGED gvars
      PROVE  ClassicKeepsUserCode
  <2>1. UNCHANGED <<file, handler, services>>
    BY <1>7 DEF ClassicRun, ReadTags, ReadTagsFails, ReadRegistries, RegistriesDone,
                RegisterRoutes, RebuildCollection, RebuildFails, ClassicEnded, gvars, project
  <2> QED BY <1>3, <2>1
<1>8. ASSUME NEW f \in ModuleFiles, FileRefused(f) PROVE ClassicKeepsUserCode
  BY <1>3, <1>8 DEF FileRefused, project
<1>9. ASSUME NEW r \in ToSet(Registries), WriteRegistry(r) PROVE ClassicKeepsUserCode
  BY <1>3, <1>9 DEF WriteRegistry
<1>10. ~ClassicEdit
  BY DEF ClassicEdit
<1>11. /\ \A m \in Modules :
            /\ ~ChangeTag(m) /\ ~Unwire(m) /\ ~DropField(m)
            /\ \A f \in ModuleFiles : ~AddOwn(m, f) /\ ~RemoveGenerated(m, f)
            /\ \A r \in Registered : ~DropRoute(m, r)
       /\ ~AddUseCase /\ ~EditCollection /\ \A s \in Shared : ~Restore(s)
  BY <1>10 DEF ChangeTag, Unwire, DropField, AddOwn, RemoveGenerated, DropRoute, AddUseCase,
               EditCollection, Restore, EditModuleFile
<1> QED BY <1>4, <1>5, <1>6, <1>7, <1>8, <1>9, <1>11, Zenon DEF ClassicNext

-----------------------------------------------------------------------------
(* What the invariant says.                                                *)

LEMMA ClassicTyped == ClassicIInv => ClassicTypeOK
BY DEF ClassicIInv

LEMMA ClassicNames == ClassicIInv => ClassicResolves /\ ArgsMatchParams /\ ClassicNeverTwice
BY DEF ClassicIInv, OrderInv, ArgsMatchParams

LEMMA ClassicDone == ClassicIInv => ClassicComplete
<1> SUFFICES ASSUME ClassicIInv, pc = "idle", result = "ok", Writes, NEW m \in covered
             PROVE  ModuleDone(m)
  <2>1. \A m \in Modules :
          ModuleDone(m) =>
            /\ \A f \in IF Given("ctl") THEN ModuleFiles ELSE ToSet(BaseFiles) :
                 \/ "gen" \in file[m][f].has
                 \/ "part" \in file[m][f].has /\ <<m, f>> \in incomplete
            /\ m \in ToSet(ifaces["repository"])
            /\ Given("ctl") =>
                 /\ m \in ToSet(ifaces["usecase"]) /\ routes[m] = Registered
                 /\ m \in handler.fields \cap ToSet(handler.params) \cap handler.literal
                 /\ m \in services.imports \cap services.ctrls \cap ToSet(services.args)
            /\ Given("postman") /\ m = Collected => json = "json" /\ CollectionComplete
    <3> SUFFICES ASSUME NEW m \in Modules, ModuleDone(m)
                 PROVE  /\ \A f \in IF Given("ctl") THEN ModuleFiles ELSE ToSet(BaseFiles) :
                             \/ "gen" \in file[m][f].has
                             \/ "part" \in file[m][f].has /\ <<m, f>> \in incomplete
                        /\ m \in ToSet(ifaces["repository"])
                        /\ Given("ctl") =>
                             /\ m \in ToSet(ifaces["usecase"]) /\ routes[m] = Registered
                             /\ m \in handler.fields \cap ToSet(handler.params) \cap handler.literal
                             /\ m \in services.imports \cap services.ctrls \cap ToSet(services.args)
                        /\ Given("postman") /\ m = Collected => json = "json" /\ CollectionComplete
      OBVIOUS
    <3>1. \A f \in IF Given("ctl") THEN ModuleFiles ELSE ToSet(BaseFiles) : f \in ToSet(RunFiles)
      BY RunFilesAre
    <3>2. \A f \in ToSet(RunFiles) : FileSettled(m, f)
      BY DEF ModuleDone, FilesSettled
    <3>3. m \in ToSet(ifaces["repository"]) /\ (Given("ctl") => m \in ToSet(ifaces["usecase"]))
      BY RegistriesAre DEF ModuleDone, InRegistries
    <3> QED BY <3>1, <3>2, <3>3 DEF ModuleDone, FileSettled, InHandler, InServices
  <2>2. ASSUME ClassicIInv PROVE covered \subseteq Modules
    BY <2>2, ClassicParts DEF AccountInv, RunTypes
  <2> QED BY <2>1, <2>2 DEF ClassicComplete
<1>1. DoneInv /\ queue = <<>>
  BY ClassicParts DEF AccountInv, RunTypes
<1>2. ToSet(queue) = {}
  BY <1>1 DEF ToSet
<1> QED BY <1>1, <1>2 DEF DoneInv

LEMMA ClassicKept == ClassicIInv => CollectionKeepsEdits
BY ClassicParts, CollectionIs

-----------------------------------------------------------------------------
(* What a run of the classic generator knows of the module it is at and of *)
(* those behind it, what the two files of NewGatewayHandler have in common *)
(* and what is left of the developer's in the collection, after any runs,  *)
(* faults and edits.                                                       *)
THEOREM ClassicInductive == ClassicSpec => []ClassicIInv
BY ClassicInitInv, ClassicStep, PTL DEF ClassicSpec

(* The handlers, interfaces, constructors and variables that route.go,     *)
(* handler.go and services.go of a classic project name are there, and the *)
(* call of NewGatewayHandler has its parameters' order.                    *)
THEOREM ClassicNamesResolve == ClassicSpec => [](ClassicResolves /\ ArgsMatchParams)
BY ClassicInductive, ClassicNames, PTL

(* A classic run that ends ok has completed the modules of all its tables. *)
THEOREM ClassicOkComplete == ClassicSpec => []ClassicComplete
BY ClassicInductive, ClassicDone, PTL

(* The rebuilt collection keeps what the developer wrote into it.          *)
THEOREM CollectionEditsStay == ClassicSpec => []CollectionKeepsEdits
BY ClassicInductive, ClassicKept, PTL

(* Both generators, one of them in a behaviour.                            *)
GeneratorsIInv ==
  /\ tool = "repo" => IInv
  /\ tool # "repo" => ClassicIInv

LEMMA GeneratorsStep ==
  [GeneratorsNext]_generatorVars =>
    /\ tool' = tool
    /\ tool = "repo" => [Next]_vars
    /\ tool # "repo" => [ClassicNext]_gvars
<1> SUFFICES ASSUME [GeneratorsNext]_generatorVars
             PROVE  /\ tool' = tool
                    /\ tool = "repo" => [Next]_vars
                    /\ tool # "repo" => [ClassicNext]_gvars
  OBVIOUS
<1>1. CASE UNCHANGED generatorVars
  BY <1>1 DEF generatorVars, repo, classic, runVars, vars, gvars
<1>2. CASE tool = "repo" /\ Next /\ UNCHANGED <<tool, classic>>
  BY <1>2
<1>3. CASE tool = "classic" /\ ClassicNext /\ UNCHANGED <<tool, repo>>
  BY <1>3
<1> QED BY <1>1, <1>2, <1>3 DEF GeneratorsNext

(* What either generator leaves in the project, whatever fails when.       *)
THEOREM GeneratorsInductive == GeneratorsSpec => []GeneratorsIInv
<1>1. GeneratorsInit => GeneratorsIInv
  BY InitInv, ClassicInitInv DEF GeneratorsInit, GeneratorsIInv
<1>2. GeneratorsIInv /\ [GeneratorsNext]_generatorVars => GeneratorsIInv'
  BY GeneratorsStep, Step, ClassicStep DEF GeneratorsIInv
<1> QED BY <1>1, <1>2, PTL DEF GeneratorsSpec

(* The variables of both generators have their types.                      *)
THEOREM ToolsTyped == GeneratorsSpec => []ToolsTypeOK
<1>1. IInv => TypeOK
  BY DEF IInv, GenTypes
<1>2. GeneratorsIInv => ToolsTypeOK
  BY <1>1, ClassicTyped DEF GeneratorsIInv, ToolsTypeOK
<1> QED BY <1>2, GeneratorsInductive, PTL

(* However often they run, fail and are run again, no declaration, route,  *)
(* interface, parameter or argument is generated twice.                    *)
THEOREM NothingIsTwice == GeneratorsSpec => []NothingTwice
<1>1. IInv => NeverTwice /\ RegisteredOnce
  BY DEF IInv, TargetInv, NeverTwice
<1>2. GeneratorsIInv => NothingTwice
  BY <1>1, ClassicNames DEF GeneratorsIInv, NothingTwice
<1> QED BY <1>2, GeneratorsInductive, PTL

(* Whichever step of which run fails, what the classic generator's shared  *)
(* files name is there, in one order.                                      *)
THEOREM EveryReferenceResolves == GeneratorsSpec => []ReferencesResolve
<1>1. GeneratorsIInv => ReferencesResolve
  BY ClassicNames DEF GeneratorsIInv, ReferencesResolve
<1> QED BY <1>1, GeneratorsInductive, PTL

(* A run of either generator that ends ok has left nothing out.            *)
THEOREM OkIsDone == GeneratorsSpec => []OkMeansDone
<1>1. IInv => OkMeansComplete
  BY DEF IInv
<1>2. GeneratorsIInv => OkMeansDone
  BY <1>1, ClassicDone DEF GeneratorsIInv, OkMeansDone
<1> QED BY <1>2, GeneratorsInductive, PTL

(* A collection keeps the developer's requests, and the classic one his    *)
(* headers, path values and its identity.                                  *)
THEOREM AllEditsSurvive == GeneratorsSpec => []EditsSurvive
<1>1. IInv => RequestsKept
  BY DEF IInv, RequestInv, RequestsKept
<1>2. GeneratorsIInv => EditsSurvive
  BY <1>1, ClassicKept DEF GeneratorsIInv, EditsSurvive
<1> QED BY <1>2, GeneratorsInductive, PTL

(* No run loses the developer's code, unless it is forced or one of its    *)
(* writes fails half way, or moves a parameter or an argument of           *)
(* NewGatewayHandler.                                                      *)
THEOREM UserCodeIsKept == GeneratorsSpec => UserCodeKept
<1>1. GeneratorsIInv /\ [GeneratorsNext]_generatorVars =>
        (tool = "repo" => KeepsUserCode) /\ (tool = "classic" => ClassicKeepsUserCode)
  BY GeneratorsStep, StepKeeps, ClassicStepKeeps DEF GeneratorsIInv
<1>2. GeneratorsIInv /\ [GeneratorsNext]_generatorVars =>
        [ /\ tool = "repo" => KeepsUserCode
          /\ tool = "classic" => ClassicKeepsUserCode ]_generatorVars
  BY <1>1
<1> QED BY <1>2, GeneratorsInductive, PTL DEF GeneratorsSpec, UserCodeKept
=============================================================================
