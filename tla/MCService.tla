------------------------------ MODULE MCService ------------------------------
(***************************************************************************)
(* The parts of a service that guard requests, store objects and list      *)
(* rows (RouteGuard, ObjectStore, RowIndex), one of them in a behaviour.   *)
(***************************************************************************)
EXTENDS RouteGuard, ObjectStore, RowIndex

VARIABLE part

guards == <<m, wsClient, client, mutex, markers, session, expired, tickets, where, sent, roles,
            live, stored, steady, writes, dials>>
objects == <<driver, bucket, object, at, order, rest, info, disk, reply, removed, named, calls,
             failures>>
lists == <<rows, param, omitTotal, step, total, answer, collected, asked, seen, touched,
           unchanged, ops, rowChanges>>

serviceVars == <<part, guards, objects, lists>>

-----------------------------------------------------------------------------
(* RouteGuard: two requests, to a public, a guarded, an unknown route, and *)
(* to one that needs no portal.                                            *)
Sent(route, token, portal) == [route |-> route, token |-> token, portal |-> portal]

SomeSends ==
  {Sent("home", "t1", TRUE), Sent("home", "none", TRUE), Sent("hook", "t2", FALSE),
   Sent("login", "t1", TRUE), Sent("unknown", "t1", TRUE)}

SomeSessions == {<<"a", "">>, <<"b", "a">>}

SomeOptionLists ==
  {<<"WithNoRefRoute", "WithoutGuards", "WithPublicRoute">>,
   <<"WithBuiltinRoute", "WithoutGuards">>,
   <<"WithWebsocket", "WithPublicRoute">>}

(* ObjectStore: zips of two objects, and every other call on either.       *)
Order(op, name, ids) == [op |-> op, name |-> name, ids |-> ids]

SomeOrders ==
  {Order("upload", n, <<"a">>) : n \in {"x", "."}}
    \cup {Order("upload", n, <<"b">>) : n \in {"x", "y"}}
    \cup {Order(o, "none", <<"a">>) : o \in {"delete", "stream", "download"}}
    \cup {Order("zip", "none", <<"a", "b">>)}

(* RowIndex.                                                               *)
And(e, f) == Groups(<<Group("AND", e), Group("AND", f)>>)
Or(e, f) == Groups(<<Group("AND", e), Group("OR", f)>>)

One == Compare("x", "=", 1)
HasX == Compare("x", "!=", Null)
NoX == Compare("x", "=", Null)
Big == Compare("json", ">", 9)
Like == Compare("json", "~", 9)
NotFirst == Compare("id", "!=", 1)

SomeFilters ==
  {NoFilter, Groups(<<Group("AND", Compare("x", "=", Itself))>>), Or(One, NoX), And(Big, HasX),
   Groups(<<Group("AND", One), Group("OR", NoX), Group("AND", Big)>>),
   And(Or(One, NoX), Like), Or(And(NotFirst, Or(NoX, Big)), One)}

SomeScopes == {<<>>, <<HasX, NotFirst>>}

By(col, desc) == [col |-> col, desc |-> desc]
SomeSorts == {<<>>, <<By("x", TRUE), By("id", FALSE)>>, <<By("", FALSE)>>}

Row(id, x, json) == [id |-> id, x |-> x, json |-> json]
SomeRows == {Row(1, 1, 9), Row(2, Null, 10), Row(2, 2, 9), Row(3, 1, 10)}
SomePages == {0, 1}
SomeSizes == {0, 1}

-----------------------------------------------------------------------------
ServiceInit ==
  /\ part \in {"guard", "objects", "lists"}
  /\ GuardInit /\ StoreInit /\ IndexInit
  /\ part # "guard" =>
       m = RegisterService(<<"WithBuiltinRoute", "WithoutGuards">>) /\ markers = {}
         /\ session = Broken
  /\ part # "objects" => driver = "minio"
  /\ part # "lists" => rows = {}

ServiceNext ==
  \/ part = "guard" /\ GuardNext /\ UNCHANGED <<part, objects, lists>>
  \/ part = "objects" /\ StoreNext /\ UNCHANGED <<part, guards, lists>>
  \/ part = "lists" /\ IndexNext /\ UNCHANGED <<part, guards, objects>>

ServiceSpec == ServiceInit /\ [][ServiceNext]_serviceVars

-----------------------------------------------------------------------------
(* Lists and lookups return the rows that were asked for, and updates and  *)
(* removals change no others.                                              *)
RowsAsAskedFor == part = "lists" => RowsAsAsked
=============================================================================
