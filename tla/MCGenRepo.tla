------------------------------ MODULE MCGenRepo ------------------------------
(* Two of the five files a table's module has: the one whose tags are read *)
(* first, and the one with the handlers, three of which two are targets.   *)
EXTENDS GenRepo, TLC

Always == <<"model">>
WithCtl == <<"http">>

Decls == "model" :> <<"Dto", "Row">> @@ "http" :> <<"Index", "Save", "View">>
TargetDecls == "model" :> {"Dto", "Row"} @@ "http" :> {"Index", "Save"}
=============================================================================
