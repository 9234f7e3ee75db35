-------------------------- MODULE PostmanCollection --------------------------
(***************************************************************************)
(* The Postman collection of a module (postman.go of gen-repo-classic): a  *)
(* run with --postman reads the file, rebuilds the module's folder around  *)
(* the requests it finds there and writes a collection of that folder      *)
(* alone.  A request keeps its headers, scripts and responses, and the     *)
(* path value the developer gave it, and gets a new URL and body.          *)
(*                                                                         *)
(* A request is its lower-cased name, the segments of its path, and who    *)
(* wrote the rest of what regeneration keeps.                              *)
(***************************************************************************)
EXTENDS Selections

CONSTANTS
  UrlPaths,       \* the --url-path arguments, as segments
  MaxRequests,    \* bound: requests in one folder
  MaxFolders      \* bound: folders of the collection

VARIABLES
  json,           \* the file: "absent", "blank", "broken" or "json"
  id, link,       \* info._postman_id, and the id in info._collection_link
  items,          \* its folders
  made,           \* ids generated so far
  written,        \* history: what the developer has put into the collection
  prefixed,       \* history: has a run been given a prefix?
  doubled,        \* history: names he gave to two requests
  lost            \* history: has a write left the file truncated?

collection == <<json, id, link, items, made>>
collectionHistory == <<written, prefixed, doubled, lost>>
postman == <<collection, collectionHistory>>

(* _postman_id: the template's, one that is not a UUID, or a UUID of the   *)
(* developer's or of a run's.                                              *)
Template == 0
NotUuid == 1
DevId == 2
Ids == Nat

(* The generated routes that the model has, in their order: without and    *)
(* with a path parameter.                                                  *)
ModelRoutes == <<"add", "view">>
RoutePath == [add |-> <<"add">>, view |-> <<"view", ":id">>]

Segments == {"api", "module", "office", "add", "view", "own", "sample", "template", "dev"}
Request == [name : ToSet(ModelRoutes) \cup {"own"}, path : Seq(Segments),
            rest : {"template", "dev"}]
Folder == [name : {"module", "other"}, requests : Seq(Request)]

PostmanTypeOK ==
  /\ json \in {"absent", "blank", "broken", "json"}
  /\ id \in Ids /\ link \in Ids /\ made \in Ids
  /\ items \in Seq(Folder)
  /\ json # "json" => items = <<>>
  /\ written \subseteq {"request", "rest", "value", "id"} /\ prefixed \in BOOLEAN
  /\ doubled \subseteq ToSet(ModelRoutes) \cup {"own"} /\ lost \in BOOLEAN

PostmanInit ==
  /\ json = "absent" /\ items = <<>>
  /\ id = Template /\ link = Template
  /\ made = DevId
  /\ written = {} /\ prefixed = FALSE /\ doubled = {} /\ lost = FALSE

-----------------------------------------------------------------------------
(* defaultPostmanTemplateFolder.                                           *)
TemplateRequests ==
  << [name |-> "view", path |-> <<"office", "view", "template">>,
      rest |-> "template"],
     [name |-> "add", path |-> <<"office", "add">>,
      rest |-> "template"] >>

Named(rs, n) == {i \in DOMAIN rs : rs[i].name = n}

(* postmanItemsByName: of two requests with one name the last one counts.  *)
ByName(rs, n) == rs[CHOOSE i \in Named(rs, n) : \A j \in Named(rs, n) : j <= i]

(* loadExistingPostmanFolder: the module's folder, or the only one.        *)
Found ==
  LET mine == {i \in DOMAIN items : items[i].name = "module"}
  IN  IF mine # {} THEN {CHOOSE i \in mine : \A j \in mine : i <= j}
      ELSE {i \in DOMAIN items : Len(items) = 1}

ExistingRequests == IF Found = {} THEN <<>> ELSE items[CHOOSE i \in Found : TRUE].requests

(* What the request for a route is built from.                             *)
BaseItem(n) ==
  IF Named(ExistingRequests, n) # {} THEN ByName(ExistingRequests, n) ELSE ByName(TemplateRequests, n)

(* postmanPathSegments: the value of a path parameter is looked for where  *)
(* it is in a path without a prefix.                                       *)
PathOf(n, prefix, old) ==
  prefix \o <<"module">> \o
    [i \in DOMAIN RoutePath[n] |->
       IF RoutePath[n][i] # ":id" THEN RoutePath[n][i]
       ELSE IF Len(old) > i THEN old[i + 1] ELSE "sample"]

(* configurePostmanRequest.                                                *)
Configured(n, prefix) ==
  [BaseItem(n) EXCEPT !.path = PathOf(n, prefix, @)]

(* Mutant of Others: the requests of the folder that are not generated go. *)
NoOthers == <<>>

Others ==
  Picked(ExistingRequests,
         {i \in DOMAIN ExistingRequests : ExistingRequests[i].name \notin ToSet(ModelRoutes)})

Built(prefix) ==
  << [name |-> "module",
      requests |-> [i \in DOMAIN ModelRoutes |-> Configured(ModelRoutes[i], prefix)] \o Others] >>

(* buildPostmanCollectionInfo, without the name and the exporter's id.     *)
KeepsId == json = "json" /\ id \notin {Template, NotUuid}

(* Of a collection in which the module's folder is not found nothing is    *)
(* kept but its identity.                                                  *)
PatchCollection(prefix) ==
  /\ json # "broken"
  /\ json' = "json"
  /\ items' = Built(prefix)
  /\ id' = IF KeepsId THEN id ELSE made + 1
  /\ link' = id'
  /\ made' = IF KeepsId THEN made ELSE made + 1
  /\ prefixed' = (prefixed \/ prefix # <<>>)
  /\ written' = IF json = "json" /\ Found = {} THEN written \cap {"id"} ELSE written
  /\ UNCHANGED <<doubled, lost>>

(* The file is not JSON; it cannot be read or written; or the write stops  *)
(* half way.                                                               *)
CollectionFails(dryRun) ==
  \/ UNCHANGED postman
  \/ /\ json # "broken" /\ ~dryRun
     /\ json' \in {"blank", "broken"}
     /\ items' = <<>>
     /\ lost' = TRUE
     /\ UNCHANGED <<id, link, made, written, prefixed, doubled>>

-----------------------------------------------------------------------------
(* The developer edits the collection in Postman and exports it again.     *)

AddRequest(i, n) ==
  /\ json = "json" /\ Len(items[i].requests) < MaxRequests
  /\ items' = [items EXCEPT ![i].requests =
                 Append(@, [name |-> n, path |-> <<"module", n, "dev">>,
                            rest |-> "dev"])]
  /\ doubled' = IF Named(items[i].requests, n) # {} THEN doubled \cup {n} ELSE doubled
  /\ written' = IF n = "own" /\ i \in Found THEN written \cup {"request"} ELSE written
  /\ UNCHANGED <<json, id, link, made, prefixed, lost>>

(* Headers, scripts or an example.                                         *)
EditRequest(i, j) ==
  /\ json = "json"
  /\ items' = [items EXCEPT ![i].requests[j].rest = "dev"]
  /\ written' = IF i \in Found /\ items[i].requests[j].name = "view"
                THEN written \cup {"rest"} ELSE written
  /\ UNCHANGED <<json, id, link, made, prefixed, doubled, lost>>

(* A value of his own in the path of the view request.                     *)
EditValue(i, j) ==
  /\ json = "json" /\ items[i].requests[j].name = "view"
  /\ items' = [items EXCEPT ![i].requests[j].path[Len(items[i].requests[j].path)] = "dev"]
  /\ written' = IF i \in Found THEN written \cup {"value"} ELSE written
  /\ UNCHANGED <<json, id, link, made, prefixed, doubled, lost>>

(* He renames the module's folder, or names it as before.                  *)
RenameFolder(name) ==
  /\ json = "json" /\ items[1].name # name
  /\ items' = [items EXCEPT ![1].name = name]
  /\ UNCHANGED <<json, id, link, made, collectionHistory>>

(* A folder of his own, behind the module's.                               *)
AddFolder ==
  /\ json = "json" /\ Len(items) < MaxFolders
  /\ items' = Append(items, [name |-> "other", requests |-> <<>>])
  /\ UNCHANGED <<json, id, link, made, collectionHistory>>

(* Postman gives an imported collection an id of its own.                  *)
Import ==
  /\ json = "json"
  /\ id' = DevId /\ link' = DevId
  /\ written' = written \cup {"id"}
  /\ UNCHANGED <<json, items, made, prefixed, doubled, lost>>

EditItems ==
  \/ \E i \in DOMAIN items :
       \/ \E n \in ToSet(ModelRoutes) \cup {"own"} : AddRequest(i, n)
       \/ \E j \in DOMAIN items[i].requests : EditRequest(i, j) \/ EditValue(i, j)
  \/ \E name \in {"module", "other"} : RenameFolder(name)
  \/ AddFolder \/ Import

-----------------------------------------------------------------------------
(* Whatever runs there have been, what the developer put into the module's *)
(* folder is still there: the requests he added, what he gave a generated  *)
(* request outside its URL and body, the path value he chose as long as no *)
(* run had a prefix, and the identity of the collection; a request of a    *)
(* name he used twice and a truncated file aside.  A folder he has renamed *)
(* next to another one is not found: a run then loses what was in it, but  *)
(* until one does it is all there for him to name it back.                 *)
CollectionKeepsEdits ==
  json = "json" /\ ~lost =>
    /\ Found # {} =>
         /\ "request" \in written => Named(ExistingRequests, "own") # {}
         /\ "rest" \in written /\ "view" \notin doubled =>
              \E i \in Named(ExistingRequests, "view") : ExistingRequests[i].rest = "dev"
         /\ "value" \in written /\ "view" \notin doubled /\ ~prefixed =>
              \E i \in Named(ExistingRequests, "view") : Last(ExistingRequests[i].path) = "dev"
    /\ "id" \in written => id = DevId

(* Every generated request is in the module's folder as a run has left it, *)
(* and the link names the collection.                                      *)
CollectionComplete ==
  json = "json" =>
    /\ link = id
    /\ \A n \in ToSet(ModelRoutes) : Named(ExistingRequests, n) # {}
=============================================================================
