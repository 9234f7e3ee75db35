----------------------------- MODULE ObjectStore -----------------------------
(***************************************************************************)
(* The object storage usecase (src/controller/minio.ctrl.go) on its two    *)
(* backends (src/objstorage): callers upload, delete, stream, download and *)
(* zip objects concurrently; each call to the backend is a step, and may   *)
(* fail.  An object's id is the hash of its content, so that the model     *)
(* takes the content for both; two uploads of one content are one object,  *)
(* with the name of the upload that stored it.                             *)
(***************************************************************************)
EXTENDS Naturals, Sequences, SequencesExt, FiniteSets

CONSTANTS
  Callers,        \* calls under way at one time
  Contents,       \* contents, and their ids
  Names,          \* names of uploaded files
  Orders,         \* what callers ask for
  MaxCalls,       \* bound: calls
  MaxFailures     \* bound: calls of the backend that fail

VARIABLES
  driver,         \* "minio" or "azure"
  bucket,         \* does it exist?
  object,         \* of each id, the name it is stored with, or None
  at,             \* where each caller's call is
  order,          \* what it has asked for
  rest,           \* the ids it has not downloaded yet
  info,           \* the name StatObject or DownloadObject has found
  disk,           \* the files ZipObjects has written: name to content
  reply,          \* what it was answered
  removed,        \* history: ids removed since its call began
  named,          \* history: names each content was stored with
  calls, failures

ovars == <<driver, bucket, object, at, order, rest, info, disk, reply, removed, named,
           calls, failures>>

None == "none"
NoFiles == [n \in {} |-> None]
NoReply == [result |-> "none", id |-> None, name |-> None, body |-> None, files |-> NoFiles]

(* Uploads name a file, and every call names an object.                    *)
Ops == {"upload", "delete", "stream", "download", "zip"}

ASSUME StoreAssumption ==
  /\ None \notin Names
  /\ Orders # {}
  /\ Orders \subseteq [op : Ops, name : Names \cup {None}, ids : Seq(Contents)]
  /\ \A o \in Orders : o.ids # <<>> /\ (o.op = "upload" => o.name \in Names)

(* filepath.Base of such a name is no file's.                              *)
Unusable == "."

StoreInit ==
  /\ driver \in {"minio", "azure"}
  /\ bucket = FALSE
  /\ object = [c \in Contents |-> None]
  /\ at = [p \in Callers |-> "idle"]
  /\ order \in [Callers -> {CHOOSE o \in Orders : TRUE}]
  /\ rest = [p \in Callers |-> <<>>]
  /\ info = [p \in Callers |-> None]
  /\ disk = [p \in Callers |-> NoFiles]
  /\ reply = [p \in Callers |-> NoReply]
  /\ removed = [p \in Callers |-> {}]
  /\ named = [c \in Contents |-> {}]
  /\ calls = 0 /\ failures = 0

-----------------------------------------------------------------------------
Id(p) == Head(rest[p])
There(p) == object[Id(p)] # None
Goes(p, to) == at' = [at EXCEPT ![p] = to]
Answers(p, r) == Goes(p, "idle") /\ reply' = [reply EXCEPT ![p] = r]
Fails(p) == Answers(p, [NoReply EXCEPT !.result = "err"])

store == <<driver, bucket, object, named>>
call == <<order, removed, calls>>

First(op) ==
  CASE op = "upload" -> "EnsureBucket" [] op = "delete" -> "RemoveObject"
    [] op = "stream" -> "StatObject"   [] op \in {"download", "zip"} -> "GetObject"

Call(p, o) ==
  /\ at[p] = "idle" /\ calls < MaxCalls
  /\ calls' = calls + 1
  /\ order' = [order EXCEPT ![p] = o]
  /\ rest' = [rest EXCEPT ![p] = o.ids]
  /\ info' = [info EXCEPT ![p] = None]
  /\ disk' = [disk EXCEPT ![p] = NoFiles]
  /\ reply' = [reply EXCEPT ![p] = NoReply]
  /\ removed' = [removed EXCEPT ![p] = {}]
  /\ Goes(p, First(o.op))
  /\ UNCHANGED <<store, failures>>

(* Any call of the backend may fail, or HashObject before the upload asks  *)
(* for the file.                                                           *)
CallFails(p) ==
  /\ at[p] \in {"EnsureBucket", "MakeBucket", "IsFileExist", "PutObject", "RemoveObject",
                "StatObject", "GetObject", "DownloadStat"}
  /\ failures < MaxFailures /\ failures' = failures + 1
  /\ Fails(p)
  /\ UNCHANGED <<store, call, rest, info, disk>>

-----------------------------------------------------------------------------
(* UploadFromReadSeeker.  MinIO is asked for the bucket and then to make   *)
(* it, which fails if another caller has; Azure makes it in any case.      *)
EnsureBucket(p) ==
  /\ at[p] = "EnsureBucket"
  /\ bucket' = (bucket \/ driver = "azure")
  /\ Goes(p, IF bucket' THEN "IsFileExist" ELSE "MakeBucket")
  /\ UNCHANGED <<driver, object, named, call, rest, info, disk, reply, failures>>

MakeBucket(p) ==
  /\ at[p] = "MakeBucket"
  /\ bucket' = TRUE
  /\ IF bucket THEN Fails(p) ELSE Goes(p, "IsFileExist") /\ UNCHANGED reply
  /\ UNCHANGED <<driver, object, named, call, rest, info, disk, failures>>

Uploaded(p) == Answers(p, [NoReply EXCEPT !.result = "ok", !.id = Id(p)])

(* Mutant of IsFileExist: an error of the backend counts as existing.      *)
IsFileExistOnError(p) ==
  /\ at[p] = "IsFileExist"
  /\ \/ IF There(p) THEN Uploaded(p) ELSE Goes(p, "PutObject") /\ UNCHANGED reply
        /\ UNCHANGED failures
     \/ /\ failures < MaxFailures /\ failures' = failures + 1
        /\ Uploaded(p)
  /\ UNCHANGED <<store, call, rest, info, disk>>

(* Whatever the error of StatObject is, the object counts as missing.      *)
IsFileExist(p) ==
  /\ at[p] = "IsFileExist"
  /\ \/ /\ IF There(p) THEN Uploaded(p) ELSE Goes(p, "PutObject") /\ UNCHANGED reply
        /\ UNCHANGED failures
     \/ /\ failures < MaxFailures /\ failures' = failures + 1
        /\ Goes(p, "PutObject") /\ UNCHANGED reply
  /\ UNCHANGED <<store, call, rest, info, disk>>

Stores(p) ==
  /\ object' = [object EXCEPT ![Id(p)] = order[p].name]
  /\ named' = [named EXCEPT ![Id(p)] = @ \cup {order[p].name}]

PutObject(p) ==
  /\ at[p] = "PutObject"
  /\ Stores(p)
  /\ Uploaded(p)
  /\ UNCHANGED <<driver, bucket, call, rest, info, disk, failures>>

(* The backend has stored the object, but its answer is lost.              *)
PutUnheard(p) ==
  /\ at[p] = "PutObject"
  /\ failures < MaxFailures /\ failures' = failures + 1
  /\ Stores(p)
  /\ Fails(p)
  /\ UNCHANGED <<driver, bucket, call, rest, info, disk>>

-----------------------------------------------------------------------------
(* Neither backend minds an object that is not there.                      *)
RemoveObject(p) ==
  /\ at[p] = "RemoveObject"
  /\ object' = [object EXCEPT ![Id(p)] = None]
  /\ removed' = [q \in Callers |-> removed[q] \cup {Id(p)}]
  /\ Answers(p, [NoReply EXCEPT !.result = "ok"])
  /\ UNCHANGED <<driver, bucket, named, order, calls, rest, info, disk, failures>>

-----------------------------------------------------------------------------
(* StreamObject asks for the content type first.                           *)
StatObject(p) ==
  /\ at[p] = "StatObject"
  /\ IF There(p) THEN Goes(p, "GetObject") /\ UNCHANGED reply ELSE Fails(p)
  /\ UNCHANGED <<store, call, rest, info, disk, failures>>

(* MinIO's GetObject does not ask the backend before it is read from.      *)
GetObject(p) ==
  /\ at[p] = "GetObject"
  /\ IF driver = "minio" \/ There(p) THEN Goes(p, "Copy") /\ UNCHANGED reply
     ELSE Fails(p)
  /\ UNCHANGED <<store, call, rest, info, disk, failures>>

Streamed(p, body) == Answers(p, [NoReply EXCEPT !.result = "ok", !.body = body])

Copy(p) ==
  /\ at[p] = "Copy" /\ (There(p) \/ driver = "azure")
  /\ IF order[p].op = "stream" THEN Streamed(p, Id(p))
     ELSE Goes(p, "DownloadStat") /\ UNCHANGED reply
  /\ UNCHANGED <<store, call, rest, info, disk, failures>>

(* A stream that breaks off is only logged.                                *)
CopyFails(p) ==
  /\ at[p] = "Copy"
  /\ IF driver = "minio" /\ ~There(p) THEN UNCHANGED failures
     ELSE failures < MaxFailures /\ failures' = failures + 1
  /\ IF order[p].op = "stream" THEN Streamed(p, "cut") ELSE Fails(p)
  /\ UNCHANGED <<store, call, rest, info, disk>>

(* DownloadObject asks for the name when it has the content.               *)
DownloadStat(p) ==
  /\ at[p] = "DownloadStat"
  /\ info' = [info EXCEPT ![p] = object[Id(p)]]
  /\ IF ~There(p) THEN Fails(p)
     ELSE IF order[p].op = "zip" THEN Goes(p, "OpenFile") /\ UNCHANGED reply
     ELSE Answers(p, [NoReply EXCEPT !.result = "ok", !.name = object[Id(p)], !.body = Id(p)])
  /\ UNCHANGED <<store, call, rest, disk, failures>>

(* ZipObjects writes a file of that name, over one of an object before it, *)
(* and archives the directory when all are there.                          *)
OpenFile(p) ==
  /\ at[p] = "OpenFile"
  /\ rest' = [rest EXCEPT ![p] = Tail(@)]
  /\ IF info[p] = Unusable THEN Fails(p) /\ UNCHANGED disk
     ELSE /\ disk' = [disk EXCEPT ![p] =
                        [n \in DOMAIN @ \cup {info[p]} |-> IF n = info[p] THEN Id(p) ELSE @[n]]]
          /\ IF Len(rest[p]) > 1 THEN Goes(p, "GetObject") /\ UNCHANGED reply
             ELSE Answers(p, [NoReply EXCEPT !.result = "ok", !.files = disk'[p]])
  /\ UNCHANGED <<store, call, info, failures>>

StoreNext ==
  \E p \in Callers :
    \/ \E o \in Orders : Call(p, o)
    \/ CallFails(p) \/ EnsureBucket(p) \/ MakeBucket(p) \/ IsFileExist(p)
    \/ PutObject(p) \/ PutUnheard(p) \/ RemoveObject(p)
    \/ StatObject(p) \/ GetObject(p) \/ Copy(p) \/ CopyFails(p) \/ DownloadStat(p)
    \/ OpenFile(p)

-----------------------------------------------------------------------------
Answered(p, op) == at[p] = "idle" /\ order[p].op = op /\ reply[p].result = "ok"

(* Whatever is uploaded, removed and lost between the steps of a call: an  *)
(* id that an upload has answered names an object unless that object was   *)
(* removed since the upload began; a download's name is one its content    *)
(* was stored with, and a body is the content asked for, or breaks off; an *)
(* archive has each object asked for, except one whose file was written    *)
(* over by a later object that was uploaded under the same name.           *)
StoreAnswersTrue ==
  \A p \in Callers :
    LET ids == order[p].ids
    IN  /\ Answered(p, "upload") =>
             reply[p].id = ids[1] /\ (object[ids[1]] # None \/ ids[1] \in removed[p])
        /\ Answered(p, "download") => reply[p].body = ids[1] /\ reply[p].name \in named[ids[1]]
        /\ Answered(p, "stream") => reply[p].body \in {ids[1], "cut"}
        /\ Answered(p, "zip") =>
             \A i \in DOMAIN ids :
               \/ \E n \in named[ids[i]] \cap DOMAIN reply[p].files : reply[p].files[n] = ids[i]
               \/ \E j \in i + 1 .. Len(ids) : named[ids[i]] \cap named[ids[j]] # {}
=============================================================================
