------------------------------- MODULE Transpb -------------------------------
(***************************************************************************)
(* One call of transpb_by_input (src/bin/transpb.lua): the user names a    *)
(* proto file and a message, MakeMessageTable walks the message's fields   *)
(* and asks for each, and the table is encoded.                            *)
(*                                                                         *)
(* MakeMessageTable and HandleMessageNestType call each other; stack holds *)
(* the message tables under construction, innermost last.  A place in the  *)
(* Lua table is a path, a sequence of <<field, index>> steps: t.phone[2].x *)
(* is <<<<"phone", 2>>, <<"x", 0>>>>, with index 0 where t has no array.   *)
(*                                                                         *)
(* lua-protobuf is a submodule that is not part of the repository: pb and  *)
(* protoc are modelled from the calls transpb.lua makes.                   *)
(***************************************************************************)
EXTENDS Integers, Sequences, SequencesExt

CONSTANTS
  Files,       \* proto files that protoc finds and can parse
  Defines,     \* Defines[f]: the types file f and its imports define
  Kind,        \* Kind[t]: "message", "enum" or "map", pb.type's third result
  Fields,      \* Fields[t]: pb.fields(t), a sequence of [name, type, option]
  EnumValues,  \* EnumValues[t]: the numbers enum t gives a name to
  GlobalPbs,   \* whether loading lua-protobuf also sets the global pb
  MaxCount     \* bound: the repeat count a user enters

Types   == DOMAIN Kind
Options == {"optional", "repeated", "packed"}

FieldRecords == UNION {{Fields[t][i] : i \in DOMAIN Fields[t]} : t \in Types}

ASSUME SchemaAssumption ==
  /\ DOMAIN Defines = Files
  /\ \A f \in Files : Defines[f] \subseteq Types
  /\ \A t \in Types : Kind[t] \in {"message", "enum", "map"}
  /\ Fields \in [Types -> Seq(FieldRecords)]
  /\ \A f \in FieldRecords : f.option \in Options
  /\ \A t \in Types : \A i, j \in DOMAIN Fields[t] :
       Fields[t][i].name = Fields[t][j].name => i = j
  /\ {t \in Types : Kind[t] = "enum"} \subseteq DOMAIN EnumValues
  /\ \A f \in FieldRecords : f.type # "none"
  /\ "none" \notin Types
  /\ GlobalPbs \subseteq BOOLEAN
  /\ MaxCount \in Nat \ {0}

VARIABLES
  GlobalPb, \* whether there is a global pb
  types,    \* the types pb knows, those of earlier calls included
  stage,    \* "file", "message": what is asked for; "fields", "encode"; "over"
  message,  \* the message the user named, or "none"
  stack,    \* the tables under construction: [type, path, at, rest], where at
            \* numbers the next field and rest counts the tables still to follow
            \* this one in HandleMessageNestType's loop
  tables,   \* the message tables made: their paths, with their types
  data,     \* what has been stored: paths, with [kind, num] for a value or list
  result    \* transpb_by_input's: "empty", "bytes" or "error"; "none" until then

vars == <<GlobalPb, types, stage, message, stack, tables, data, result>>

\* What a Lua value is, as far as pb.encode tells them apart: a number with and one
\* without an integer representation (1.5, or too large) are different to it.
ValueKinds == {"list", "boolean", "string", "integer", "fraction"}

FieldNames == {f.name : f \in FieldRecords}
Paths      == Seq(FieldNames \X (0..MaxCount))
StackTable == [type : Types, path : Paths, at : Nat, rest : 0..MaxCount]

\* A table under construction is one that has been made, at a field of its type
\* or past the last; tables and values are at places the schema can name.
TypeOK ==
  /\ GlobalPb \in BOOLEAN
  /\ types \subseteq Types
  /\ stage \in {"file", "message", "fields", "encode", "over"}
  /\ message \in Types \cup {"none"}
  /\ stack \in Seq(StackTable)
  /\ \A k \in DOMAIN stack :
       /\ stack[k].path \in DOMAIN tables /\ tables[stack[k].path] = stack[k].type
       /\ stack[k].at \in 1..(Len(Fields[stack[k].type]) + 1)
  /\ DOMAIN tables \cup DOMAIN data \subseteq Paths
  /\ \A p \in DOMAIN tables : tables[p] \in Types
  /\ \A p \in DOMAIN data : /\ data[p].kind \in ValueKinds
                            /\ data[p].num \in 0..MaxCount
  /\ result \in {"none", "empty", "bytes", "error"}

-----------------------------------------------------------------------------
\* The user's answers, as far as the code tells them apart.
Texts == {"an integer", "another number", "a word"}

Scalar(kind) == [kind |-> kind, num |-> 0]
List(n)      == [kind |-> "list", num |-> n]

\* randomData: the value a field of this type makes of a text, if any.  tonumber
\* has no value for a word, and assigning nil stores nothing.
RandomData(type, text) ==
  IF type = "bool" THEN {Scalar("boolean")}
  ELSE IF type \in {"string", "bytes"} THEN {Scalar("string")}
  ELSE IF text = "an integer" THEN {Scalar("integer")}
  ELSE IF text = "another number" THEN {Scalar("fraction")} ELSE {}

Top == Last(stack)
Fld == Fields[Top.type][Top.at]
AtField == stage = "fields" /\ Top.at <= Len(Fields[Top.type])

Place(table, field, i) == Append(table, <<field, i>>)

\* f with y at place x, which may be new: an assignment to a Lua table.
Written(f, x, y) == [z \in DOMAIN f \cup {x} |-> IF z = x THEN y ELSE f[z]]

\* The loop of MakeMessageTable goes to the table's next field.
Advanced(s) == [s EXCEPT ![Len(s)].at = @ + 1]

\* The tables s with the first of n tables of this type on top.
Nested(s, type, path, n) ==
  Append(s, [type |-> type, path |-> path, at |-> 1, rest |-> n - 1])

Over(r) == stage' = "over" /\ result' = r

-----------------------------------------------------------------------------
Init ==
  /\ GlobalPb \in GlobalPbs
  /\ types \in {UNION {Defines[f] : f \in S} : S \in SUBSET Files}
  /\ stage = "file" /\ message = "none" /\ stack = <<>>
  /\ tables = <<>> /\ data = <<>> /\ result = "none"

\* load_file: protoc adds the file's types and those it imports to pb.
LoadFile(f) ==
  /\ stage = "file"
  /\ types' = types \cup Defines[f]
  /\ stage' = "message"
  /\ UNCHANGED <<GlobalPb, message, stack, tables, data, result>>

\* load_file's pcall caught an error, whatever imports had been loaded before it.
LoadFileFails ==
  /\ stage = "file"
  /\ \E S \in SUBSET Files : types' = types \cup UNION {Defines[f] : f \in S}
  /\ Over("empty")
  /\ UNCHANGED <<GlobalPb, message, stack, tables, data>>

\* find_message knows the name, which may be any type's.
FindMessage(m) ==
  /\ stage = "message" /\ m \in types
  /\ message' = m /\ stage' = "fields"
  /\ stack' = Nested(<<>>, m, <<>>, 1)
  /\ tables' = Written(tables, <<>>, m)
  /\ UNCHANGED <<GlobalPb, types, data, result>>

\* find_message does not know the name.  At the end of the input there is none, and
\* appending nil to "." ends the script.
FindMessageFails ==
  /\ stage = "message"
  /\ Over("empty") \/ Over("error")
  /\ UNCHANGED <<GlobalPb, types, message, stack, tables, data>>

\* Mutant: the count is asked for a packed field only.
IsPacked(fld) == fld.option = "packed"

\* GetRepeatedFieldNums compares its argument with "repeated" and the global
\* option, which nobody sets, with "packed".
IsRepeated(fld) == fld.option = "repeated"

\* The repeat counts it can return.  A count that is no number becomes 0, and a
\* negative one repeats as often as 0.
Counts(fld) == IF IsRepeated(fld) THEN 0..MaxCount ELSE {1}

\* Mutant: the loop's upper bound taken for exclusive.
BaseEntriesShort(table, fld, n, text) ==
  IF IsRepeated(fld)
  THEN {<<Place(table, fld.name, 0), List(n)>>} \cup
       UNION {{<<Place(table, fld.name, i), v>> : v \in RandomData(fld.type, text[i])}
                : i \in 1..(n - 1)}
  ELSE {<<Place(table, fld.name, 0), v>> : v \in RandomData(fld.type, text[1])}

\* What HandleMessageBaseType stores for n texts: pairs of a place and a value.
BaseEntries(table, fld, n, text) ==
  IF IsRepeated(fld)
  THEN {<<Place(table, fld.name, 0), List(n)>>} \cup
       UNION {{<<Place(table, fld.name, i), v>> : v \in RandomData(fld.type, text[i])}
                : i \in 1..n}
  ELSE {<<Place(table, fld.name, 0), v>> : v \in RandomData(fld.type, text[1])}

\* data with these entries written over it.
Stored(entries) ==
  [p \in DOMAIN data \cup {e[1] : e \in entries} |->
     IF \E e \in entries : e[1] = p THEN (CHOOSE e \in entries : e[1] = p)[2] ELSE data[p]]

HandleMessageBaseType ==
  /\ AtField /\ Fld.type \notin types
  /\ \E n \in Counts(Fld) : \E text \in [1..n -> Texts] :
       data' = Stored(BaseEntries(Top.path, Fld, n, text))
  /\ stack' = Advanced(stack)
  /\ UNCHANGED <<GlobalPb, types, stage, message, tables, result>>

\* The values HandleMessageEnumType offers: it counts up from 0 to the first
\* number that has no name.
Offered(enum) == {v \in EnumValues[enum] : 0..v \subseteq EnumValues[enum]}

\* It never looks at the option, and a value it did not offer is left out.
HandleMessageEnumType ==
  /\ AtField /\ Fld.type \in types /\ Kind[Fld.type] = "enum"
  /\ GlobalPb
  /\ \/ /\ Offered(Fld.type) # {}
        /\ data' = Stored({<<Place(Top.path, Fld.name, 0), Scalar("string")>>})
     \/ data' = data
  /\ stack' = Advanced(stack)
  /\ UNCHANGED <<GlobalPb, types, stage, message, tables, result>>

\* The handler names the global pb: without one, indexing nil ends the script.
EnumHandlerFails ==
  /\ AtField /\ Fld.type \in types /\ Kind[Fld.type] = "enum"
  /\ ~GlobalPb
  /\ Over("error")
  /\ UNCHANGED <<GlobalPb, types, message, stack, tables, data>>

\* Mutant: the nested message is built in the table that contains it.
SubTableShared(table, field, i) == table

\* The table HandleMessageNestType passes for the i-th nested message: a fresh
\* one, which becomes MessageTable[FieldName][i].
SubTable(table, field, i) == Place(table, field, i)

\* HandleMessageNestType: an array, and as many message tables in it as asked
\* for, one even if the field is not repeated.
HandleMessageNestType ==
  /\ AtField /\ Fld.type \in types /\ Kind[Fld.type] = "message"
  /\ \E n \in Counts(Fld) :
       LET sub == SubTable(Top.path, Fld.name, 1)
       IN /\ data' = Written(data, Place(Top.path, Fld.name, 0), List(n))
          /\ IF n = 0
             THEN stack' = Advanced(stack) /\ UNCHANGED tables
             ELSE /\ stack' = Nested(stack, Fld.type, sub, n)
                  /\ tables' = Written(tables, sub, Fld.type)
  /\ UNCHANGED <<GlobalPb, types, stage, message, result>>

\* Mutant: an unknown kind of field ends the walk of its message.
SkipMapStops ==
  /\ AtField /\ Fld.type \in types /\ Kind[Fld.type] = "map"
  /\ stack' = [stack EXCEPT ![Len(stack)].at = Len(Fields[Top.type]) + 1]
  /\ UNCHANGED <<GlobalPb, types, stage, message, tables, data, result>>

\* A map entry's type is neither an enum nor a message: the field is passed over.
SkipMap ==
  /\ AtField /\ Fld.type \in types /\ Kind[Fld.type] = "map"
  /\ stack' = Advanced(stack)
  /\ UNCHANGED <<GlobalPb, types, stage, message, tables, data, result>>

AtEnd == stage = "fields" /\ Top.at > Len(Fields[Top.type])

\* Mutant: the loop does not move to the next element.
NextSiblingStays ==
  /\ AtEnd /\ Top.rest > 0
  /\ stack' = [stack EXCEPT ![Len(stack)].at = 1]
  /\ UNCHANGED <<GlobalPb, types, stage, message, tables, data, result>>

\* A nested message is complete and its siblings follow in the same array.
NextSibling ==
  /\ AtEnd /\ Top.rest > 0
  /\ LET last == Last(Top.path)
         next == SubTable(Front(Top.path), last[1], last[2] + 1)
     IN /\ stack' = Nested(Front(stack), Top.type, next, Top.rest)
        /\ tables' = Written(tables, next, Top.type)
  /\ UNCHANGED <<GlobalPb, types, stage, message, data, result>>

\* MakeMessageTable returns the last table of a field to HandleMessageNestType.
ReturnNested ==
  /\ AtEnd /\ Top.rest = 0 /\ Len(stack) > 1
  /\ stack' = Advanced(Front(stack))
  /\ UNCHANGED <<GlobalPb, types, stage, message, tables, data, result>>

\* MakeMessageTable returns to transpb_by_input.
ReturnMessage ==
  /\ AtEnd /\ Len(stack) = 1
  /\ stack' = <<>> /\ stage' = "encode"
  /\ UNCHANGED <<GlobalPb, types, message, tables, data, result>>

-----------------------------------------------------------------------------
\* What pb.encode expects: an array for a repeated field, packed or not, and
\* for any other field the value or the message's table itself.
Listy(fld) == fld.option \in {"repeated", "packed"}

FieldsOf(t) == {Fields[t][i] : i \in DOMAIN Fields[t]}

\* pb.encode throws on a repeated field that holds no array.
ArraysFit ==
  \A t \in DOMAIN tables : \A f \in FieldsOf(tables[t]) :
     LET p == Place(t, f.name, 0)
     IN Listy(f) /\ p \in DOMAIN data => data[p].kind = "list"

\* The field types whose values pb.encode converts to integers.
IntegerTypes == {"int32", "int64", "uint32", "uint64", "sint32", "sint64",
                 "fixed32", "fixed64", "sfixed32", "sfixed64"}

\* It throws as well on a number without an integer representation for such a field.
Inconvertible ==
  {p \in DOMAIN data :
     data[p].kind = "fraction" /\ \E f \in FieldsOf(tables[Front(p)]) :
                                   f.name = Last(p)[1] /\ f.type \in IntegerTypes}

\* The elements of an array behind a hole.
BehindHole ==
  {p \in DOMAIN data : \E i \in 1..(Last(p)[2] - 1) :
                          Place(Front(p), Last(p)[1], i) \notin DOMAIN data}

\* encode: pb.encode succeeds, or its error ends the script.  Whether it reads an
\* array beyond a hole is not known, nor what it does with the name of something that
\* is no message.
Encode ==
  /\ stage = "encode"
  /\ \/ ArraysFit /\ Inconvertible \subseteq BehindHole /\ Over("bytes")
     \/ /\ ~ArraysFit \/ Inconvertible # {} \/ Kind[message] # "message"
        /\ Over("error")
  /\ UNCHANGED <<GlobalPb, types, message, stack, tables, data>>

-----------------------------------------------------------------------------
Handle == HandleMessageBaseType \/ HandleMessageEnumType \/ EnumHandlerFails
            \/ HandleMessageNestType \/ SkipMap

Next ==
  \/ \E f \in Files : LoadFile(f)
  \/ LoadFileFails
  \/ \E m \in Types : FindMessage(m)
  \/ FindMessageFails
  \/ Handle
  \/ NextSibling
  \/ ReturnNested
  \/ ReturnMessage
  \/ Encode

Spec == Init /\ [][Next]_vars

\* The user answers what she is asked.
LiveSpec == Spec /\ WF_vars(Next)

-----------------------------------------------------------------------------
\* A value of this field is stored whatever the user types: tonumber may fail,
\* an enum value may be refused, and a map is never asked for.
AlwaysStored(f) == IF f.type \in types THEN Kind[f.type] = "message"
                                       ELSE f.type \in {"bool", "string", "bytes"}

\* When the walk is over, no message in the table, however deep and whichever of its
\* siblings, has been left without a message, string, bytes or bool field of its type
\* (MakeMessageTable's loop across its own recursion).  A number or an enum may be
\* missing because of what was typed, which AlwaysStored leaves out.
Complete ==
  stage = "encode" =>
    \A t \in DOMAIN tables : \A f \in FieldsOf(tables[t]) :
       AlwaysStored(f) => Place(t, f.name, 0) \in DOMAIN data

\* An array of messages, strings, bytes or bools has the number of elements the user
\* announced, 1 to n without a gap: the loops of the two handlers, one of which goes
\* through MakeMessageTable for each element.  (A word typed for an element leaves a
\* gap in an array of numbers.)
ListsAreWhole ==
  stage = "encode" =>
    \A t \in DOMAIN tables : \A f \in FieldsOf(tables[t]) :
       LET p     == Place(t, f.name, 0)
           items == {q \in DOMAIN data \cup DOMAIN tables :
                       q # <<>> /\ Front(q) = t /\ Last(q)[1] = f.name /\ Last(q)[2] > 0}
       IN AlwaysStored(f) /\ p \in DOMAIN data /\ data[p].kind = "list" =>
            items = {Place(t, f.name, i) : i \in 1..data[p].num}

\* The type of what a table of this type has at a step, "none" if it has no such
\* field or keeps an array where the step has no index, or the other way round.
StepType(type, step) ==
  LET f == {g \in FieldsOf(type) : g.name = step[1] /\ (Listy(g) <=> step[2] > 0)}
  IN IF type \in Types /\ f # {} THEN (CHOOSE g \in f : TRUE).type ELSE "none"

\* The type of what the schema has at place p, "none" if it has no such place: the
\* walk pb.encode makes from the message down.
SchemaType(p) ==
  LET at[k \in 0..Len(p)] == IF k = 0 THEN message ELSE StepType(at[k - 1], p[k])
  IN at[Len(p)]

\* Every value the user entered reaches the wire: following the schema from the
\* message down, pb.encode finds it where the handlers stored it, and its field
\* is one of its message's.
EnteredIsEncoded ==
  result = "bytes" =>
    \A p \in DOMAIN data : data[p].kind # "list" => SchemaType(p) # "none"

\* What pb knows suits HandleMessageNestType: where it makes an array, pb.encode
\* expects one.
NestedInArrays ==
  \A t \in types : \A f \in FieldsOf(t) :
     f.type \in types /\ Kind[f.type] = "message" => Listy(f)

\* g has all that f has.
Kept(f, g) == \A p \in DOMAIN f : p \in DOMAIN g /\ g[p] = f[p]

\* No answer overwrites an earlier one and no message table replaces another:
\* the handlers, called for one table inside the loop over another, never write
\* to the same place twice.
NothingOverwritten == [][ Kept(tables, tables') /\ Kept(data, data') ]_vars

\* b is a table further on in the walk than a: the same one at a later field, or a
\* later element of the same array.
Later(a, b) ==
  \/ b.path = a.path /\ b.at > a.at
  \/ /\ a.path # <<>> /\ b.path # <<>> /\ Front(b.path) = Front(a.path)
     /\ Last(b.path)[1] = Last(a.path)[1] /\ Last(b.path)[2] > Last(a.path)[2]

\* The tables t are further on than the tables s: there is one more, or the last of
\* t is later than the one it takes the place of.
Ahead(s, t) ==
  \/ Len(t) = Len(s) + 1 /\ \A k \in DOMAIN s : t[k] = s[k]
  \/ /\ Len(t) \in 1..Len(s) /\ Later(s[Len(t)], t[Len(t)])
     /\ \A k \in 1..(Len(t) - 1) : t[k] = s[k]

\* No question comes up again: whatever the answers, every step of MakeMessageTable
\* and of the loops below it leads further into the message, never back to a field
\* or an element that has been passed.
WalkAdvances ==
  [][ stage = "fields" /\ stage' = "fields" => Ahead(stack, stack') ]_vars

\* The script is ended by an error only where the input ends before a message is
\* named, where an enum is met without a global pb, where what was named is no message,
\* where the table holds what a handler stores without an array for a field that
\* pb.encode expects one for - a packed field or a repeated enum - or where a number
\* typed for an integer field is not an integer, which randomData lets pass.
ErrorsExplained ==
  result = "error" =>
    \/ message = "none" \/ ~GlobalPb \/ Kind[message] # "message"
    \/ \E t \in DOMAIN tables : \E f \in FieldsOf(tables[t]) :
         \/ /\ Place(t, f.name, 0) \in DOMAIN data
            /\ \/ f.option = "packed"
               \/ f.option = "repeated" /\ f.type \in types /\ Kind[f.type] = "enum"
         \/ /\ f.type \in IntegerTypes
            /\ \E i \in 0..MaxCount :
                 /\ Place(t, f.name, i) \in DOMAIN data
                 /\ data[Place(t, f.name, i)].kind = "fraction"

\* What pb knows suits GetRepeatedFieldNums, which misses packed fields.
NothingPacked == \A t \in types : \A f \in FieldsOf(t) : f.option # "packed"

\* "Handles the basic types": a table of basic values is one that pb.encode takes,
\* packed fields included.
BaseTypesEncode ==
  stage = "encode" =>
    \A t \in DOMAIN tables : \A f \in FieldsOf(tables[t]) :
       LET p == Place(t, f.name, 0)
       IN f.type \notin types /\ p \in DOMAIN data => (Listy(f) <=> data[p].kind = "list")

\* A user who answers is asked no endless questions, as long as no message
\* contains itself: MakeMessageTable's recursion and its loops end.
CallEnds == <>(stage = "over")

-----------------------------------------------------------------------------
(* The inductive invariant of Transpb_proofs. *)

\* The tables under construction: each lies one level below the one before it, and
\* those still to follow it in its array have an index as well.
StackOK ==
  /\ stage \in {"file", "message"} => message = "none" /\ stack = <<>> /\ tables = <<>>
  /\ stage = "fields" => stack # <<>>
  /\ stage = "encode" => stack = <<>>
  /\ \A k \in DOMAIN stack :
       /\ Len(stack[k].path) = k - 1
       /\ k = 1 => stack[k].rest = 0
       /\ k > 1 => Last(stack[k].path)[2] + stack[k].rest <= MaxCount

\* The field at which table k is, and where its value or array goes.
OpenPlace(k) == Place(stack[k].path, Fields[stack[k].type][stack[k].at].name, 0)

\* A field whose value is always stored has been asked for, or its table is still
\* on the stack and has not passed it; the fields that the tables below the top
\* are at have their arrays already.
Asked ==
  /\ \A t \in DOMAIN tables : \A i \in DOMAIN Fields[tables[t]] :
       AlwaysStored(Fields[tables[t]][i]) =>
         \/ Place(t, Fields[tables[t]][i].name, 0) \in DOMAIN data
         \/ \E k \in DOMAIN stack : stack[k].path = t /\ stack[k].at <= i
  /\ \A k \in DOMAIN stack : k < Len(stack) =>
       stack[k].at <= Len(Fields[stack[k].type]) /\ OpenPlace(k) \in DOMAIN data

\* The places where something has been stored.
Places == DOMAIN data \cup DOMAIN tables

\* Field i of the table at path t has been handled, or its messages are being made.
Passed(t, i) ==
  \A k \in DOMAIN stack :
     stack[k].path = t => i < stack[k].at \/ (i = stack[k].at /\ k < Len(stack))

\* Whatever is stored is at a field of a table that has been made, and the walk of
\* that table has come to it.
Reached ==
  \A q \in Places \ {<<>>} :
    /\ Front(q) \in DOMAIN tables
    /\ \E i \in DOMAIN Fields[tables[Front(q)]] :
         Fields[tables[Front(q)]][i].name = Last(q)[1] /\ Passed(Front(q), i)

\* The array of the field named has n elements, 1 to n.
Elements(t, name, n) ==
  \A i \in 1..MaxCount : Place(t, name, i) \in Places <=> i <= n

\* A loop of HandleMessageNestType is at field i of the table at path t.
InLoop(t, i) == \E k \in DOMAIN stack : k < Len(stack) /\ stack[k].path = t /\ stack[k].at = i

\* The arrays that no loop is filling are as long as announced.
Whole ==
  \A t \in DOMAIN tables : \A i \in DOMAIN Fields[tables[t]] :
     LET f == Fields[tables[t]][i]
         p == Place(t, f.name, 0)
     IN AlwaysStored(f) /\ p \in DOMAIN data /\ data[p].kind = "list" /\ ~InLoop(t, i) =>
          Elements(t, f.name, data[p].num)

\* The array a loop of table k is filling has the elements up to the next table.
FillingAt(k) ==
  LET f    == Fields[stack[k].type][stack[k].at]
      made == data[OpenPlace(k)].num - stack[k + 1].rest
  IN /\ AlwaysStored(f) /\ data[OpenPlace(k)].kind = "list" /\ made \in 1..MaxCount
     /\ stack[k + 1].path = Place(stack[k].path, f.name, made)
     /\ Elements(stack[k].path, f.name, made)

Filling == \A k \in DOMAIN stack : k < Len(stack) => FillingAt(k)

\* What pb.encode's walk relies on: the message's own table is at the top, every
\* other is an element of one of its table's message fields, and a value that is
\* an element belongs to a repeated field.
Placed ==
  /\ <<>> \in DOMAIN tables => tables[<<>>] = message
  /\ \A q \in DOMAIN tables \ {<<>>} : \E f \in FieldsOf(tables[Front(q)]) :
       /\ f.name = Last(q)[1] /\ Last(q)[2] > 0
       /\ f.type = tables[q] /\ Kind[f.type] = "message"
  /\ \A p \in DOMAIN data :
       /\ p # <<>>
       /\ Last(p)[2] > 0 =>
            \E f \in FieldsOf(tables[Front(p)]) : f.name = Last(p)[1] /\ IsRepeated(f)

\* A field whose handler makes an array.
Arrayed(f) == IF f.type \in types THEN Kind[f.type] = "message" ELSE IsRepeated(f)

\* A value that is an array if and only if the field's handler makes one, of a field
\* that has a handler, unlike a map.
HasShape(v, f) == /\ v.kind = "list" <=> Arrayed(f)
                  /\ f.type \in types => Kind[f.type] # "map"

\* What is stored for a field has the field's shape.
Shaped ==
  \A t \in DOMAIN tables : \A f \in FieldsOf(tables[t]) :
     LET p == Place(t, f.name, 0)
     IN p \in DOMAIN data => HasShape(data[p], f)

\* What was encoded, or refused, is not changed any more.
Encoded ==
  /\ result # "none" => stage = "over"
  /\ result = "bytes" => ArraysFit
  /\ result = "error" =>
       \/ message = "none" \/ ~GlobalPb \/ Kind[message] # "message"
       \/ ~ArraysFit \/ Inconvertible # {}

\* Every table is of a type pb knows.
Known == \A p \in DOMAIN tables : tables[p] \in types

WalkInv == TypeOK /\ StackOK /\ Asked
ListInv == Reached /\ Whole /\ Filling
WireInv == Placed /\ Shaped /\ Encoded

\* Every reachable state of a call satisfies the inductive invariant.
IInv == WalkInv /\ ListInv /\ WireInv /\ Known
=============================================================================
