----------------------------- MODULE TableFields -----------------------------
(***************************************************************************)
(* What the repository generators make of the columns of a table           *)
(* (generator.go, postman.go): the fields of its structs, what the edit    *)
(* handler takes from a form and what the Postman request sends in one;    *)
(* and which tags of the Dto's fields are kept when it is generated again  *)
(* (dao_tags.go), which the two generators decide differently.             *)
(***************************************************************************)
EXTENDS Selections

Id == <<"id">>
Status == <<"status">>

isIDColumn(c) == c.primary \/ c.name = Id

isAuditColumn(c) == c.name \in {<<"created_at">>, <<"updated_by">>}

ColumnNames(columns) == [i \in DOMAIN columns |-> columns[i].name]

(* The names of the columns in S, and of the first of them.                *)
Select(columns, S) == Picked(ColumnNames(columns), S)

SelectFirst(columns, S) ==
  IF S = {} THEN <<>> ELSE <<columns[InOrder(S)[1]].name>>

IsGenerated(columns) == {i \in DOMAIN columns : columns[i].generated}
IsId(columns) == {i \in DOMAIN columns : isIDColumn(columns[i])}
IsStatus(columns) == {i \in DOMAIN columns : columns[i].name = Status}
IsPlain(columns) == {i \in DOMAIN columns : ~isIDColumn(columns[i]) /\ ~isAuditColumn(columns[i])}

(* The Dto struct, and what the read model has besides.                    *)
DtoFields(columns) == Select(columns, DOMAIN columns \ IsGenerated(columns))
ReadFields(columns) == Select(columns, IsGenerated(columns))

(* Mutant of EditableFields: generated columns are not left out.           *)
EditableAll(columns) ==
  SelectFirst(columns, IsId(columns) \ IsGenerated(columns))
    \o Select(columns, IsPlain(columns) \ IsStatus(columns))

(* buildEditableDTOFields: what the edit handler takes from the form.      *)
EditableFields(columns) ==
  SelectFirst(columns, IsId(columns) \ IsGenerated(columns))
    \o Select(columns, IsPlain(columns) \ (IsGenerated(columns) \cup IsStatus(columns)))

CreateValidation(columns) ==
  Select(columns, IsPlain(columns) \ (IsGenerated(columns) \cup IsStatus(columns)))

(* buildPostmanFormData.                                                   *)
FormData(columns, includeID) ==
  (IF includeID THEN SelectFirst(columns, IsId(columns)) ELSE <<>>)
    \o Select(columns, IsPlain(columns) \ IsGenerated(columns))

-----------------------------------------------------------------------------
(* Struct tags: pairs of a key and a value, which may be malformed.        *)

(* splitStructTags stops at the first malformed pair.                      *)
Readable(literal) ==
  LET bad == {i \in DOMAIN literal : ~literal[i].wellFormed}
  IN  IF bad = {} THEN literal ELSE SubSeq(literal, 1, InOrder(bad)[1] - 1)

NoValue == ""         \* key:""

KeysOf(pairs) == {pairs[i].key : i \in DOMAIN pairs}

(* Of pairs with one key, the last counts.                                 *)
ValueOf(pairs, key) ==
  pairs[CHOOSE i \in DOMAIN pairs :
          pairs[i].key = key /\ \A j \in DOMAIN pairs : pairs[j].key = key => j <= i].value

Chosen(pairs, key) == key \in KeysOf(pairs) /\ ValueOf(pairs, key) # NoValue

Defaults == {"form", "json", "db"}
ClassicDefaults == Defaults \cup {"query"}

(* Mutant of Filled: the defaults come over what was chosen.               *)
FilledAnew(pairs, defaults) ==
  [k \in KeysOf(pairs) \cup defaults |->
     IF k \in defaults THEN "column" ELSE ValueOf(pairs, k)]

(* The tags there are, and the column's name for the defaults not chosen.  *)
Filled(pairs, defaults) ==
  [k \in KeysOf(pairs) \cup defaults |->
     IF k \in defaults /\ ~Chosen(pairs, k) THEN "column" ELSE ValueOf(pairs, k)]

(* mergeDTOStructTags of the classic generator.                            *)
MergedClassic(pairs) == Filled(pairs, ClassicDefaults)

(* mergeDTOStructTags of the repository generator: it takes "query" away   *)
(* and sets the validation of a column "id".                               *)
Merged(column, pairs) ==
  LET filled == Filled(pairs, Defaults)
      ruled == IF column = Id THEN {"validate"} ELSE {}
  IN  [k \in (DOMAIN filled \ {"query"}) \cup ruled |->
         IF k \in ruled THEN "required|uuid" ELSE filled[k]]

Printed(tags) ==
  LET keys == SetToSeq(DOMAIN tags)
  IN  [i \in DOMAIN keys |-> [key |-> keys[i], value |-> tags[keys[i]], wellFormed |-> TRUE]]

-----------------------------------------------------------------------------
(* The generated handler reads no field from the form that the Dto has     *)
(* not, and all those that the generated edit request sends, except a      *)
(* status and an id that the database generates; a column is a field of    *)
(* exactly one of the two structs.                                         *)
HandlerFits(columns) ==
  LET edited == ToSet(EditableFields(columns))
      dto == DtoFields(columns)
      read == ReadFields(columns)
      sent == ToSet(FormData(columns, TRUE))
      created == ToSet(CreateValidation(columns))
  IN  /\ edited \cup created \subseteq ToSet(dto)
      /\ ToSet(dto) \cup ToSet(read) = ToSet(ColumnNames(columns))
      /\ IsInjective(dto) /\ IsInjective(read) /\ ToSet(dto) \cap ToSet(read) = {}
      /\ sent \ {Status} \subseteq edited \cup ToSet(read)
      /\ edited \subseteq sent \/ IsId(columns) \cap IsGenerated(columns) # {}
      /\ created \subseteq ToSet(FormData(columns, FALSE))

(* Nothing of the old tags is lost but under the keys given, and a value   *)
(* is replaced only where there was none.                                  *)
Keeps(old, new, given) ==
  \A k \in KeysOf(old) \ given : k \in DOMAIN new /\ ValueOf(old, k) \in {NoValue, new[k]}

(* When the Dto is generated again, the classic generator keeps every tag  *)
(* that the developer left on a field, up to the first malformed pair; the *)
(* repository generator all but "query", which it takes away, and, of a    *)
(* column "id", "validate", which it sets, as TestLoadDTOFieldTags         *)
(* expects.  No field is without a name for form, json and database, and   *)
(* generating once more changes nothing.                                   *)
TagsKept(column, literal) ==
  LET old == Readable(literal)
      classic == MergedClassic(old)
      new == Merged(column, old)
  IN  /\ Keeps(old, classic, {})
      /\ Keeps(old, new, {"query"} \cup (IF column = Id THEN {"validate"} ELSE {}))
      /\ "query" \notin DOMAIN new /\ (column = Id => new["validate"] = "required|uuid")
      /\ \A k \in Defaults : NoValue \notin {classic[k], new[k]}
      /\ MergedClassic(Readable(Printed(classic))) = classic
      /\ Merged(column, Readable(Printed(new))) = new
=============================================================================
