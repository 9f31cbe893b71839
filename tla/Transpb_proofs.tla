--------------------------- MODULE Transpb_proofs ---------------------------
(***************************************************************************)
(* MakeMessageTable asks for every field of every message in the table,    *)
(* proved for every schema, those in which a message contains itself       *)
(* included, and every depth and count a user may choose.                  *)
(***************************************************************************)
EXTENDS Transpb, SequenceTheorems, TLAPS

\* A function with one value written over it.
LEMMA WriteOne ==
  ASSUME NEW f, NEW x, NEW y
  PROVE  /\ DOMAIN Written(f, x, y) = DOMAIN f \cup {x}
         /\ Written(f, x, y)[x] = y
         /\ \A z \in DOMAIN f : z # x => Written(f, x, y)[z] = f[z]
  BY DEF Written

\* The last element of a sequence and what is before it.
LEMMA LastFront ==
  ASSUME NEW S, NEW s \in Seq(S), s # <<>>
  PROVE  /\ Last(s) \in S /\ Last(s) = s[Len(s)] /\ Len(s) \in Nat \ {0}
         /\ Front(s) \in Seq(S) /\ Len(Front(s)) = Len(s) - 1
         /\ \A i \in 1..(Len(s) - 1) : Front(s)[i] = s[i]
<1>1. Len(s) \in Nat \ {0} /\ Len(s) \in 1..Len(s)
  OBVIOUS
<1>2. s[Len(s)] \in S
  BY <1>1
<1>3. /\ SubSeq(s, 1, Len(s) - 1) \in Seq(S)
      /\ Len(SubSeq(s, 1, Len(s) - 1)) = Len(s) - 1
      /\ \A i \in 1..(Len(s) - 1) : SubSeq(s, 1, Len(s) - 1)[i] = s[i]
  <2>1. Len(s) - 1 \in Int /\ \A i \in 1..(Len(s) - 1) : s[i] \in S
    BY <1>1
  <2>2. \A i \in 1..(Len(s) - 1) : 1 + i - 1 = i
    OBVIOUS
  <2> DEFINE m == Len(s) - 1
  <2>3. m - 1 + 1 = m /\ (1 <= m \/ m = 0)
    <3>1. m \in Nat
      BY <1>1
    <3> HIDE DEF m
    <3> QED
      BY <3>1
  <2>4. SubSeq(s, 1, m) \in Seq(S)
    BY <2>1, SubSeqProperties
  <2>5. Len(SubSeq(s, 1, m)) = IF 1 <= m THEN m - 1 + 1 ELSE 0
    BY <2>1, SubSeqProperties
  <2>6. \A i \in 1..(m - 1 + 1) : SubSeq(s, 1, m)[i] = s[1 + i - 1]
    BY <2>1, SubSeqProperties
  <2> QED
    BY <2>2, <2>3, <2>4, <2>5, <2>6
<1> QED
  BY <1>1, <1>2, <1>3 DEF Last, Front

\* A place is one step longer than its table's path.
LEMMA PlacePath ==
  ASSUME NEW p \in Paths, NEW n \in FieldNames, NEW i \in 0..MaxCount
  PROVE  /\ Place(p, n, i) \in Paths /\ Len(Place(p, n, i)) = Len(p) + 1
         /\ Last(Place(p, n, i))[2] = i
<1>1. <<n, i>> \in FieldNames \X (0..MaxCount)
  OBVIOUS
<1>2. Append(p, <<n, i>>) \in Paths /\ Len(Append(p, <<n, i>>)) = Len(p) + 1
      /\ Append(p, <<n, i>>)[Len(p) + 1] = <<n, i>>
  BY <1>1 DEF Paths
<1> QED
  BY <1>2 DEF Place, Last

\* The table on top of the stack.
LEMMA TopTable ==
  ASSUME TypeOK, stack # <<>>
  PROVE  /\ Len(stack) \in Nat \ {0} /\ Top = stack[Len(stack)] /\ Top \in StackTable
         /\ Top.path \in DOMAIN tables /\ tables[Top.path] = Top.type
         /\ Len(Fields[Top.type]) \in Nat
<1>1. stack \in Seq(StackTable)
  BY DEF TypeOK
<1>2. Len(stack) \in Nat \ {0} /\ Top = stack[Len(stack)] /\ Top \in StackTable
  BY <1>1, LastFront DEF Top
<1>3. Len(stack) \in DOMAIN stack
  BY <1>1, <1>2
<1>4. Len(Fields[Top.type]) \in Nat
  BY <1>2, SchemaAssumption DEF StackTable
<1> QED
  BY <1>2, <1>3, <1>4 DEF TypeOK

\* The field it is at.
LEMMA CurrentField ==
  ASSUME TypeOK, StackOK, AtField
  PROVE  /\ stack # <<>>
         /\ Top.at \in 1..Len(Fields[Top.type])
         /\ Fld \in FieldRecords /\ Fld.name \in FieldNames
<1>1. stack # <<>>
  BY DEF StackOK, AtField
<1>2. Top.at \in 1..Len(Fields[Top.type])
  BY <1>1, TopTable DEF AtField, StackTable, TypeOK
<1>3. Fld \in FieldRecords
  BY <1>1, <1>2, TopTable, SchemaAssumption DEF Fld, StackTable
<1> QED
  BY <1>1, <1>2, <1>3 DEF FieldNames

\* The table a handler puts on the stack, and the ones below it.
LEMMA NestedStack ==
  ASSUME NEW s \in Seq(StackTable), NEW t \in Types, NEW p \in Paths, NEW n \in 1..MaxCount
  PROVE  /\ Nested(s, t, p, n) \in Seq(StackTable)
         /\ Len(Nested(s, t, p, n)) = Len(s) + 1
         /\ \A k \in 1..Len(s) : Nested(s, t, p, n)[k] = s[k]
         /\ Nested(s, t, p, n)[Len(s) + 1] = [type |-> t, path |-> p, at |-> 1, rest |-> n - 1]
<1> DEFINE new == [type |-> t, path |-> p, at |-> 1, rest |-> n - 1]
<1>1. new \in StackTable
  <2>1. n - 1 \in 0..MaxCount
    BY SchemaAssumption
  <2> QED
    BY <2>1 DEF StackTable
<1> HIDE DEF new
<1>2. /\ Append(s, new) \in Seq(StackTable) /\ Len(Append(s, new)) = Len(s) + 1
      /\ \A k \in 1..Len(s) : Append(s, new)[k] = s[k]
      /\ Append(s, new)[Len(s) + 1] = new
  BY <1>1
<1> QED
  BY <1>2 DEF Nested, new

\* The step of a loop to its table's next field.
LEMMA AdvancedStack ==
  ASSUME NEW s \in Seq(StackTable), s # <<>>
  PROVE  /\ Advanced(s) \in Seq(StackTable)
         /\ Len(Advanced(s)) = Len(s)
         /\ \A k \in 1..(Len(s) - 1) : Advanced(s)[k] = s[k]
         /\ Advanced(s)[Len(s)] = [s[Len(s)] EXCEPT !.at = @ + 1]
<1>1. Len(s) \in Nat \ {0} /\ Len(s) \in 1..Len(s) /\ DOMAIN s = 1..Len(s)
  OBVIOUS
<1>2. s[Len(s)] \in StackTable
  BY <1>1
<1>3. [s[Len(s)] EXCEPT !.at = @ + 1] \in StackTable
  <2> SUFFICES ASSUME NEW t \in StackTable
               PROVE  [t EXCEPT !.at = @ + 1] \in StackTable
    BY <1>2
  <2> QED
    BY DEF StackTable
<1> DEFINE new == [s[Len(s)] EXCEPT !.at = @ + 1]
<1>4. Advanced(s) = [s EXCEPT ![Len(s)] = new]
  BY DEF Advanced
<1> HIDE DEF new
<1>5. /\ [s EXCEPT ![Len(s)] = new] \in Seq(StackTable)
      /\ Len([s EXCEPT ![Len(s)] = new]) = Len(s)
      /\ \A k \in 1..(Len(s) - 1) : [s EXCEPT ![Len(s)] = new][k] = s[k]
      /\ [s EXCEPT ![Len(s)] = new][Len(s)] = new
  BY <1>1, <1>3 DEF new
<1> QED
  BY <1>4, <1>5 DEF new

\* What a call has stored: values and lists at places.
Values(d) ==
  \A p \in DOMAIN d : /\ p \in Paths
                      /\ d[p].kind \in ValueKinds
                      /\ d[p].num \in 0..MaxCount

\* A step that puts a new table on some of those under construction keeps the
\* invariant: the tables it takes off have asked for everything, and the place of
\* the new one is longer than the places of the tables it leaves.
LEMMA Pushes ==
  ASSUME WalkInv, NEW below \in Seq(StackTable), NEW t \in Types, NEW p \in Paths,
         NEW n \in 1..MaxCount,
         Len(below) <= Len(stack), \A k \in 1..Len(below) : below[k] = stack[k],
         \A k \in DOMAIN stack :
            k > Len(below) => stack[k].at > Len(Fields[stack[k].type]),
         \A k \in 1..Len(below) :
            stack[k].at <= Len(Fields[stack[k].type]) /\ OpenPlace(k) \in DOMAIN data',
         Len(p) = Len(below), Len(below) = 0 => n = 1,
         Len(below) > 0 => Last(p)[2] + (n - 1) <= MaxCount,
         stack' = Nested(below, t, p, n), tables' = Written(tables, p, t),
         stage' = "fields", types' = types, GlobalPb' = GlobalPb,
         message' \in Types \cup {"none"}, result' = result,
         DOMAIN data \subseteq DOMAIN data', Values(data')
  PROVE  WalkInv'
<1> USE DEF WalkInv
<1> DEFINE new == [type |-> t, path |-> p, at |-> 1, rest |-> n - 1]
           top == Len(below) + 1
<1>1. /\ stack' \in Seq(StackTable) /\ DOMAIN stack' = 1..top /\ Len(stack') = top
      /\ \A k \in 1..Len(below) : stack'[k] = stack[k] /\ k \in DOMAIN stack
      /\ stack'[top] = new /\ top \in Nat \ {0} /\ Len(below) \in Nat
  <2>1. /\ stack' \in Seq(StackTable) /\ Len(stack') = top
        /\ \A k \in 1..Len(below) : stack'[k] = below[k]
        /\ stack'[top] = new
    BY NestedStack
  <2>2. Len(below) \in Nat /\ stack \in Seq(StackTable)
    BY DEF TypeOK
  <2> QED
    BY <2>1, <2>2
<1>2. /\ DOMAIN tables' = DOMAIN tables \cup {p} /\ tables'[p] = t
      /\ \A q \in DOMAIN tables : q # p => tables'[q] = tables[q]
  BY DEF Written
<1>3. \A k \in 1..Len(below) : stack[k].path # p
  BY <1>1 DEF StackOK
<1>4. new.type = t /\ new.path = p /\ new.at = 1 /\ new.rest = n - 1
  OBVIOUS
<1> HIDE DEF new
<1>5. TypeOK'
  <2>1. \A k \in DOMAIN stack' :
           /\ stack'[k].path \in DOMAIN tables' /\ tables'[stack'[k].path] = stack'[k].type
           /\ stack'[k].at \in 1..(Len(Fields[stack'[k].type]) + 1)
    <3> SUFFICES ASSUME NEW k \in 1..top
                 PROVE  /\ stack'[k].path \in DOMAIN tables'
                        /\ tables'[stack'[k].path] = stack'[k].type
                        /\ stack'[k].at \in 1..(Len(Fields[stack'[k].type]) + 1)
      BY <1>1
    <3>1. CASE k = top
      <4>1. Len(Fields[t]) \in Nat
        BY SchemaAssumption
      <4> QED
        BY <1>1, <1>2, <1>4, <3>1, <4>1
    <3>2. CASE k # top
      <4>1. k \in 1..Len(below)
        BY <1>1, <3>2
      <4> QED
        <5>1. /\ stack[k].path \in DOMAIN tables
              /\ tables[stack[k].path] = stack[k].type
              /\ stack[k].at \in 1..(Len(Fields[stack[k].type]) + 1)
          BY <1>1, <4>1 DEF TypeOK
        <5>2. stack'[k] = stack[k] /\ stack[k].path # p
          BY <1>1, <1>3, <4>1
        <5> QED
          BY <1>2, <5>1, <5>2
    <3> QED
      BY <3>1, <3>2
  <2>2. /\ DOMAIN tables' \cup DOMAIN data' \subseteq Paths
        /\ \A q \in DOMAIN tables' : tables'[q] \in Types
    BY <1>2 DEF TypeOK, Values
  <2>3. \A q \in DOMAIN data' : /\ data'[q].kind \in ValueKinds
                                /\ data'[q].num \in 0..MaxCount
    BY DEF Values
  <2> QED
    BY <1>1, <2>1, <2>2, <2>3 DEF TypeOK
<1>6. StackOK'
  <2>1. \A k \in DOMAIN stack' :
           /\ Len(stack'[k].path) = k - 1
           /\ k = 1 => stack'[k].rest = 0
           /\ k > 1 => Last(stack'[k].path)[2] + stack'[k].rest <= MaxCount
    <3> SUFFICES ASSUME NEW k \in 1..top
                 PROVE  /\ Len(stack'[k].path) = k - 1
                        /\ k = 1 => stack'[k].rest = 0
                        /\ k > 1 => Last(stack'[k].path)[2] + stack'[k].rest <= MaxCount
      BY <1>1
    <3>1. CASE k = top
      BY <1>1, <1>4, <3>1
    <3>2. CASE k # top
      <4>1. k \in 1..Len(below)
        BY <1>1, <3>2
      <4>2. stack'[k] = stack[k] /\ k \in DOMAIN stack
        BY <1>1, <4>1
      <4> QED
        BY <4>2 DEF StackOK
    <3> QED
      BY <3>1, <3>2
  <2>2. stack' # <<>>
    BY <1>1
  <2> QED
    BY <2>1, <2>2 DEF StackOK
<1>7. Asked'
  <2>1. ASSUME NEW q \in DOMAIN tables', NEW i \in DOMAIN Fields[tables'[q]],
               AlwaysStored(Fields[tables'[q]][i])
        PROVE  \/ Place(q, Fields[tables'[q]][i].name, 0) \in DOMAIN data'
               \/ \E k \in DOMAIN stack' : stack'[k].path = q /\ stack'[k].at <= i
    <3>1. tables'[q] \in Types /\ i \in 1..Len(Fields[tables'[q]])
          /\ Len(Fields[tables'[q]]) \in Nat
      <4>1. tables'[q] \in Types
        BY <1>2 DEF TypeOK
      <4> QED
        BY <4>1, SchemaAssumption
    <3>2. CASE q = p
      <4>1. top \in DOMAIN stack' /\ stack'[top].path = q /\ stack'[top].at <= i
        BY <1>1, <1>4, <3>1, <3>2
      <4> QED
        BY <4>1
    <3>3. CASE q # p
      <4>1. q \in DOMAIN tables /\ tables'[q] = tables[q]
        BY <1>2, <3>3
      <4>2. AlwaysStored(Fields[tables[q]][i])
        BY <2>1, <4>1 DEF AlwaysStored
      <4>3. CASE Place(q, Fields[tables[q]][i].name, 0) \in DOMAIN data
        BY <4>1, <4>3
      <4>4. CASE \E k \in DOMAIN stack : stack[k].path = q /\ stack[k].at <= i
        <5>1. PICK k \in DOMAIN stack : stack[k].path = q /\ stack[k].at <= i
          BY <4>4
        <5>2. tables[q] = stack[k].type /\ stack[k].at \in Nat
          BY <5>1 DEF TypeOK
        <5>3. ~(k > Len(below))
          BY <3>1, <4>1, <5>1, <5>2
        <5>4. k \in 1..Len(below)
          BY <1>1, <5>3 DEF TypeOK
        <5>5. k \in DOMAIN stack' /\ stack'[k] = stack[k]
          BY <1>1, <5>4
        <5> QED
          BY <5>1, <5>5
      <4>5. i \in DOMAIN Fields[tables[q]]
        BY <4>1
      <4> QED
        BY <4>1, <4>2, <4>3, <4>4, <4>5 DEF Asked
    <3> QED
      BY <3>2, <3>3
  <2>2. ASSUME NEW k \in DOMAIN stack', k < Len(stack')
        PROVE  stack'[k].at <= Len(Fields[stack'[k].type]) /\ OpenPlace(k)' \in DOMAIN data'
    <3>1. k \in 1..Len(below) /\ stack'[k] = stack[k]
      BY <1>1, <2>2
    <3> QED
      BY <3>1 DEF OpenPlace
  <2> QED
    BY <2>1, <2>2 DEF Asked, AlwaysStored
<1> QED
  BY <1>5, <1>6, <1>7

\* A step that takes some tables off, all asked for, and moves the one then on
\* top past the field it is at keeps the invariant, if the field's value is there.
LEMMA Advances ==
  ASSUME WalkInv, NEW below \in Seq(StackTable), below # <<>>,
         Len(below) <= Len(stack), \A k \in 1..Len(below) : below[k] = stack[k],
         \A k \in DOMAIN stack :
            k > Len(below) => stack[k].at > Len(Fields[stack[k].type]),
         stack[Len(below)].at <= Len(Fields[stack[Len(below)].type]),
         AlwaysStored(Fields[stack[Len(below)].type][stack[Len(below)].at])
            => OpenPlace(Len(below)) \in DOMAIN data',
         stack' = Advanced(below), stage = "fields",
         UNCHANGED <<GlobalPb, types, stage, message, tables, result>>,
         DOMAIN data \subseteq DOMAIN data', Values(data')
  PROVE  WalkInv'
<1> USE DEF WalkInv
<1> DEFINE top == Len(below)
<1>1. /\ stack' \in Seq(StackTable) /\ DOMAIN stack' = 1..top /\ Len(stack') = top
      /\ \A k \in 1..(top - 1) : stack'[k] = stack[k]
      /\ 1..top \subseteq DOMAIN stack
      /\ top \in Nat \ {0} /\ stack[top] \in StackTable
      /\ stack'[top] = [stack[top] EXCEPT !.at = @ + 1]
  <2>1. stack \in Seq(StackTable) /\ Len(below) \in Nat \ {0}
    BY DEF TypeOK
  <2>2. /\ stack' \in Seq(StackTable) /\ Len(stack') = top
        /\ \A k \in 1..(top - 1) : stack'[k] = below[k]
        /\ stack'[top] = [below[top] EXCEPT !.at = @ + 1]
    BY AdvancedStack
  <2>3. below[top] = stack[top] /\ 1..top \subseteq DOMAIN stack /\ stack[top] \in StackTable
    BY <2>1
  <2>4. \A k \in 1..(top - 1) : below[k] = stack[k]
    BY <2>1
  <2> QED
    BY <2>1, <2>2, <2>3, <2>4
<1>2. /\ stack'[top].type = stack[top].type /\ stack'[top].path = stack[top].path
      /\ stack'[top].at = stack[top].at + 1 /\ stack'[top].rest = stack[top].rest
      /\ stack[top].at \in Nat
  BY <1>1 DEF StackTable
<1>3. TypeOK'
  <2>1. \A k \in DOMAIN stack' :
           /\ stack'[k].path \in DOMAIN tables /\ tables[stack'[k].path] = stack'[k].type
           /\ stack'[k].at \in 1..(Len(Fields[stack'[k].type]) + 1)
    <3> SUFFICES ASSUME NEW k \in 1..top
                 PROVE  /\ stack'[k].path \in DOMAIN tables
                        /\ tables[stack'[k].path] = stack'[k].type
                        /\ stack'[k].at \in 1..(Len(Fields[stack'[k].type]) + 1)
      BY <1>1
    <3>1. k \in DOMAIN stack
      BY <1>1
    <3>2. CASE k = top
      <4>1. Len(Fields[stack[top].type]) \in Nat
        <5>1. stack[top].type \in Types
          BY <1>1 DEF StackTable
        <5> QED
          BY <5>1, SchemaAssumption
      <4>2. /\ stack[top].path \in DOMAIN tables
            /\ tables[stack[top].path] = stack[top].type
        BY <3>1, <3>2 DEF TypeOK
      <4>3. stack[top].at + 1 \in 1..(Len(Fields[stack[top].type]) + 1)
        BY <1>2, <4>1
      <4> QED
        BY <1>2, <3>2, <4>2, <4>3
    <3>3. CASE k # top
      <4>1. stack'[k] = stack[k]
        <5>1. k \in 1..(top - 1)
          BY <1>1, <3>3
        <5> QED
          BY <1>1, <5>1
      <4> QED
        BY <3>1, <4>1 DEF TypeOK
    <3> QED
      BY <3>2, <3>3
  <2>2. DOMAIN tables \cup DOMAIN data' \subseteq Paths
    BY DEF TypeOK, Values
  <2>3. \A q \in DOMAIN data' : /\ data'[q].kind \in ValueKinds
                                /\ data'[q].num \in 0..MaxCount
    BY DEF Values
  <2> QED
    BY <1>1, <2>1, <2>2, <2>3 DEF TypeOK
<1>4. StackOK'
  <2>1. \A k \in DOMAIN stack' :
           /\ Len(stack'[k].path) = k - 1
           /\ k = 1 => stack'[k].rest = 0
           /\ k > 1 => Last(stack'[k].path)[2] + stack'[k].rest <= MaxCount
    <3> SUFFICES ASSUME NEW k \in 1..top
                 PROVE  /\ Len(stack'[k].path) = k - 1
                        /\ k = 1 => stack'[k].rest = 0
                        /\ k > 1 => Last(stack'[k].path)[2] + stack'[k].rest <= MaxCount
      BY <1>1
    <3>1. stack'[k].path = stack[k].path /\ stack'[k].rest = stack[k].rest
      <4>1. CASE k = top
        BY <1>2, <4>1
      <4>2. CASE k # top
        <5>1. k \in 1..(top - 1)
          BY <1>1, <4>2
        <5> QED
          BY <1>1, <5>1
      <4> QED
        BY <4>1, <4>2
    <3> QED
      BY <1>1, <3>1 DEF StackOK
  <2>2. stack' # <<>>
    BY <1>1
  <2> QED
    BY <2>1, <2>2 DEF StackOK
<1>5. Asked'
  <2>1. ASSUME NEW q \in DOMAIN tables, NEW i \in DOMAIN Fields[tables[q]],
               AlwaysStored(Fields[tables[q]][i])
        PROVE  \/ Place(q, Fields[tables[q]][i].name, 0) \in DOMAIN data'
               \/ \E k \in DOMAIN stack' : stack'[k].path = q /\ stack'[k].at <= i
    <3>1. tables[q] \in Types /\ i \in 1..Len(Fields[tables[q]])
          /\ Len(Fields[tables[q]]) \in Nat
      <4>1. tables[q] \in Types
        BY DEF TypeOK
      <4> QED
        BY <4>1, SchemaAssumption
    <3>2. CASE Place(q, Fields[tables[q]][i].name, 0) \in DOMAIN data
      BY <3>2
    <3>3. CASE \E k \in DOMAIN stack : stack[k].path = q /\ stack[k].at <= i
      <4>1. PICK k \in DOMAIN stack : stack[k].path = q /\ stack[k].at <= i
        BY <3>3
      <4>2. tables[q] = stack[k].type /\ stack[k].at \in Nat
        BY <4>1 DEF TypeOK
      <4>3. ~(k > top)
        BY <3>1, <4>1, <4>2
      <4>4. k \in 1..top
        BY <1>1, <4>3 DEF TypeOK
      <4>5. CASE k < top
        <5>1. k \in DOMAIN stack' /\ stack'[k] = stack[k]
          BY <1>1, <4>4, <4>5
        <5> QED
          BY <4>1, <5>1
      <4>6. CASE k = top /\ stack[k].at = i
        <5>1. Place(q, Fields[tables[q]][i].name, 0) = OpenPlace(top)
          BY <4>1, <4>2, <4>6 DEF OpenPlace
        <5>2. AlwaysStored(Fields[stack[top].type][stack[top].at])
          BY <2>1, <4>2, <4>6
        <5> QED
          BY <5>1, <5>2
      <4>7. CASE k = top /\ stack[k].at # i
        <5>1. stack[k].at + 1 <= i
          BY <3>1, <4>1, <4>2, <4>7
        <5>2. top \in DOMAIN stack' /\ stack'[top].path = q /\ stack'[top].at <= i
          BY <1>1, <1>2, <4>1, <4>7, <5>1
        <5> QED
          BY <5>2
      <4> QED
        BY <1>1, <4>4, <4>5, <4>6, <4>7
    <3> QED
      BY <2>1, <3>2, <3>3 DEF Asked
  <2>2. ASSUME NEW k \in DOMAIN stack', k < Len(stack')
        PROVE  stack'[k].at <= Len(Fields[stack'[k].type]) /\ OpenPlace(k)' \in DOMAIN data'
    <3>1. k \in 1..(top - 1) /\ stack'[k] = stack[k] /\ k \in DOMAIN stack /\ k < Len(stack)
      <4>1. Len(stack) \in Nat
        BY DEF TypeOK
      <4> QED
        BY <1>1, <2>2, <4>1
    <3>2. stack[k].at <= Len(Fields[stack[k].type]) /\ OpenPlace(k) \in DOMAIN data
      BY <3>1 DEF Asked
    <3> QED
      BY <3>1, <3>2 DEF OpenPlace
  <2> QED
    BY <2>1, <2>2 DEF Asked, AlwaysStored
<1> QED
  BY <1>3, <1>4, <1>5

\* The step of MakeMessageTable's loop past the field at which its table is.
LEMMA AdvancesTop ==
  ASSUME WalkInv, AtField, stack' = Advanced(stack),
         UNCHANGED <<GlobalPb, types, stage, message, tables, result>>,
         DOMAIN data \subseteq DOMAIN data', Values(data'),
         AlwaysStored(Fld) => Place(Top.path, Fld.name, 0) \in DOMAIN data'
  PROVE  WalkInv'
<1> USE DEF WalkInv
<1>1. stack \in Seq(StackTable) /\ stack # <<>> /\ Len(stack) \in Nat \ {0}
  BY CurrentField, TopTable DEF TypeOK
<1>2. Top = stack[Len(stack)]
  BY <1>1, TopTable
<1>3. Top.at <= Len(Fields[Top.type]) /\ stage = "fields"
  BY DEF AtField
<1>4. OpenPlace(Len(stack)) = Place(Top.path, Fld.name, 0)
      /\ Fields[stack[Len(stack)].type][stack[Len(stack)].at] = Fld
  BY <1>2 DEF OpenPlace, Fld
<1>5. \A k \in DOMAIN stack : ~(k > Len(stack))
  BY <1>1
<1>6. stack[Len(stack)].at <= Len(Fields[stack[Len(stack)].type])
  BY <1>2, <1>3
<1>7. AlwaysStored(Fields[stack[Len(stack)].type][stack[Len(stack)].at])
        => OpenPlace(Len(stack)) \in DOMAIN data'
  BY <1>4
<1>8. Len(stack) <= Len(stack)
  BY <1>1
<1> QED
  BY <1>1, <1>3, <1>5, <1>6, <1>7, <1>8, Advances

\* The values of a reachable state.
LEMMA DataValues ==
  ASSUME TypeOK PROVE Values(data)
  BY DEF TypeOK, Values

\* The handlers' assignments store values at places.
LEMMA StoredValues ==
  ASSUME Values(data), NEW E,
         \A e \in E : /\ e[1] \in Paths
                      /\ e[2].kind \in ValueKinds
                      /\ e[2].num \in 0..MaxCount
  PROVE  Values(Stored(E)) /\ DOMAIN Stored(E) = DOMAIN data \cup {e[1] : e \in E}
<1>1. DOMAIN Stored(E) = DOMAIN data \cup {e[1] : e \in E}
  BY DEF Stored
<1>2. ASSUME NEW p \in DOMAIN Stored(E)
      PROVE  /\ p \in Paths
             /\ Stored(E)[p].kind \in ValueKinds
             /\ Stored(E)[p].num \in 0..MaxCount
  <2>1. CASE \E e \in E : e[1] = p
    <3>1. PICK e \in E : e[1] = p
      BY <2>1
    <3>2. Stored(E)[p] = (CHOOSE d \in E : d[1] = p)[2]
      BY <1>2, <1>1, <2>1 DEF Stored
    <3>3. (CHOOSE d \in E : d[1] = p) \in E
      BY <2>1
    <3> QED
      BY <3>1, <3>2, <3>3
  <2>2. CASE ~\E e \in E : e[1] = p
    <3>1. p \in DOMAIN data /\ Stored(E)[p] = data[p]
      BY <1>2, <1>1, <2>2 DEF Stored
    <3> QED
      BY <3>1 DEF Values
  <2> QED
    BY <2>1, <2>2
<1> QED
  BY <1>1, <1>2 DEF Values

\* randomData's functions: what they return, and that all but tonumber do.
LEMMA RandomValues ==
  ASSUME NEW type, NEW text
  PROVE  /\ \A v \in RandomData(type, text) :
              v.kind \in ValueKinds \ {"list"} /\ v.num = 0
         /\ type \in {"bool", "string", "bytes"} => RandomData(type, text) # {}
<1>1. \A kind : Scalar(kind).kind = kind /\ Scalar(kind).num = 0
  BY DEF Scalar
<1> QED
  BY <1>1 DEF RandomData, ValueKinds

\* What HandleMessageBaseType stores, and that it stores the field's own value or
\* array unless tonumber may fail.
LEMMA BaseValues ==
  ASSUME NEW p \in Paths, NEW fld, fld.name \in FieldNames,
         NEW n \in 0..MaxCount, ~IsRepeated(fld) => n = 1, NEW text
  PROVE  /\ \A e \in BaseEntries(p, fld, n, text) :
              /\ e[1] \in Paths
              /\ e[2].kind \in ValueKinds
              /\ e[2].num \in 0..MaxCount
         /\ fld.type \in {"bool", "string", "bytes"} =>
              Place(p, fld.name, 0) \in {e[1] : e \in BaseEntries(p, fld, n, text)}
<1>1. 0 \in 0..MaxCount /\ \A i \in 1..n : i \in 0..MaxCount
  BY SchemaAssumption
<1>2. \A i \in 0..MaxCount : Place(p, fld.name, i) \in Paths
  BY PlacePath
<1>3. List(n).kind = "list" /\ List(n).num = n
  BY DEF List
<1>4. CASE IsRepeated(fld)
  <2> DEFINE items == UNION {{<<Place(p, fld.name, i), v>> : v \in RandomData(fld.type, text[i])}
                               : i \in 1..n}
  <2>1. BaseEntries(p, fld, n, text) = {<<Place(p, fld.name, 0), List(n)>>} \cup items
    BY <1>4 DEF BaseEntries
  <2>2. ASSUME NEW e \in items
        PROVE  /\ e[1] \in Paths
               /\ e[2].kind \in ValueKinds
               /\ e[2].num \in 0..MaxCount
    <3>1. PICK i \in 1..n : \E v \in RandomData(fld.type, text[i]) :
                              e = <<Place(p, fld.name, i), v>>
      BY <2>2
    <3>2. PICK v \in RandomData(fld.type, text[i]) : e = <<Place(p, fld.name, i), v>>
      BY <3>1
    <3>3. v.kind \in ValueKinds \ {"list"} /\ v.num = 0
      BY RandomValues
    <3> QED
      BY <1>1, <1>2, <3>2, <3>3
  <2> HIDE DEF items
  <2>3. <<Place(p, fld.name, 0), List(n)>> \in BaseEntries(p, fld, n, text)
    BY <2>1
  <2>4. <<Place(p, fld.name, 0), List(n)>>[1] = Place(p, fld.name, 0)
        /\ <<Place(p, fld.name, 0), List(n)>>[2] = List(n)
    OBVIOUS
  <2>5. Place(p, fld.name, 0) \in {e[1] : e \in BaseEntries(p, fld, n, text)}
    BY <2>3, <2>4
  <2>6. ASSUME NEW e \in BaseEntries(p, fld, n, text)
        PROVE  /\ e[1] \in Paths
               /\ e[2].kind \in ValueKinds
               /\ e[2].num \in 0..MaxCount
    <3>1. CASE e \in items
      BY <2>2, <3>1
    <3>2. CASE e = <<Place(p, fld.name, 0), List(n)>>
      BY <1>1, <1>2, <1>3, <2>4, <3>2 DEF ValueKinds
    <3> QED
      BY <2>1, <2>6, <3>1, <3>2
  <2> QED
    BY <2>5, <2>6
<1>5. CASE ~IsRepeated(fld)
  <2>1. BaseEntries(p, fld, n, text)
          = {<<Place(p, fld.name, 0), v>> : v \in RandomData(fld.type, text[1])}
    BY <1>5 DEF BaseEntries
  <2>2. \A v \in RandomData(fld.type, text[1]) :
           v.kind \in ValueKinds \ {"list"} /\ v.num = 0
    BY RandomValues
  <2>3. fld.type \in {"bool", "string", "bytes"} => RandomData(fld.type, text[1]) # {}
    BY RandomValues
  <2>4. ASSUME NEW e \in BaseEntries(p, fld, n, text)
        PROVE  /\ e[1] \in Paths
               /\ e[2].kind \in ValueKinds
               /\ e[2].num \in 0..MaxCount
    BY <1>1, <1>2, <2>1, <2>2
  <2>5. ASSUME fld.type \in {"bool", "string", "bytes"}
        PROVE  Place(p, fld.name, 0) \in {e[1] : e \in BaseEntries(p, fld, n, text)}
    <3>1. PICK v \in RandomData(fld.type, text[1]) : TRUE
      BY <2>3, <2>5
    <3>2. <<Place(p, fld.name, 0), v>> \in BaseEntries(p, fld, n, text)
      BY <2>1
    <3>3. <<Place(p, fld.name, 0), v>>[1] = Place(p, fld.name, 0)
      OBVIOUS
    <3> QED
      BY <3>2, <3>3
  <2> QED
    BY <2>4, <2>5
<1> QED
  BY <1>4, <1>5

-----------------------------------------------------------------------------
\* A field's handler reads nothing but the field's own table.
LEMMA BaseTypeStep ==
  ASSUME WalkInv, HandleMessageBaseType PROVE WalkInv'
<1> USE DEF WalkInv
<1>1. /\ AtField /\ Fld.type \notin types /\ stack' = Advanced(stack)
      /\ UNCHANGED <<GlobalPb, types, stage, message, tables, result>>
      /\ \E n \in Counts(Fld) : \E text \in [1..n -> Texts] :
           data' = Stored(BaseEntries(Top.path, Fld, n, text))
  BY DEF HandleMessageBaseType
<1>2. PICK n \in Counts(Fld) : \E text \in [1..n -> Texts] :
        data' = Stored(BaseEntries(Top.path, Fld, n, text))
  BY <1>1
<1>2b. PICK text \in [1..n -> Texts] : data' = Stored(BaseEntries(Top.path, Fld, n, text))
  BY <1>2
<1>3. n \in 0..MaxCount /\ (~IsRepeated(Fld) => n = 1)
  BY <1>2, SchemaAssumption DEF Counts
<1>4. Top.path \in Paths /\ Fld.name \in FieldNames
  BY <1>1, CurrentField, TopTable DEF StackTable
<1> DEFINE E == BaseEntries(Top.path, Fld, n, text)
<1>5. /\ \A e \in E : /\ e[1] \in Paths
                      /\ e[2].kind \in ValueKinds
                      /\ e[2].num \in 0..MaxCount
      /\ Fld.type \in {"bool", "string", "bytes"} =>
           Place(Top.path, Fld.name, 0) \in {e[1] : e \in E}
  BY <1>3, <1>4, BaseValues
<1> HIDE DEF E
<1>6. data' = Stored(E)
  BY <1>2b DEF E
<1>7. Values(Stored(E)) /\ DOMAIN Stored(E) = DOMAIN data \cup {e[1] : e \in E}
  BY <1>5, DataValues, StoredValues
<1>8. /\ Values(data') /\ DOMAIN data \subseteq DOMAIN data'
      /\ AlwaysStored(Fld) => Place(Top.path, Fld.name, 0) \in DOMAIN data'
  BY <1>1, <1>5, <1>6, <1>7 DEF AlwaysStored, Values
<1> QED
  BY <1>1, <1>8, AdvancesTop

LEMMA EnumTypeStep ==
  ASSUME WalkInv, HandleMessageEnumType PROVE WalkInv'
<1> USE DEF WalkInv
<1>1. /\ AtField /\ Fld.type \in types /\ Kind[Fld.type] = "enum" /\ stack' = Advanced(stack)
      /\ UNCHANGED <<GlobalPb, types, stage, message, tables, result>>
      /\ \/ data' = Stored({<<Place(Top.path, Fld.name, 0), Scalar("string")>>})
         \/ data' = data
  BY DEF HandleMessageEnumType
<1>2. ~AlwaysStored(Fld)
  BY <1>1 DEF AlwaysStored
<1>3. Values(data') /\ DOMAIN data \subseteq DOMAIN data'
  <2>1. CASE data' = data
    <3>1. Values(data)
      BY DataValues
    <3> QED
      BY <2>1, <3>1 DEF Values
  <2>2. CASE data' = Stored({<<Place(Top.path, Fld.name, 0), Scalar("string")>>})
    <3> DEFINE E == {<<Place(Top.path, Fld.name, 0), Scalar("string")>>}
    <3>1. Place(Top.path, Fld.name, 0) \in Paths /\ 0 \in 0..MaxCount
      <4>1. Top.path \in Paths /\ Fld.name \in FieldNames
        BY <1>1, CurrentField, TopTable DEF StackTable
      <4>2. 0 \in 0..MaxCount
        BY SchemaAssumption
      <4> QED
        BY <4>1, <4>2, PlacePath
    <3>2. \A e \in E : /\ e[1] \in Paths
                       /\ e[2].kind \in ValueKinds
                       /\ e[2].num \in 0..MaxCount
      BY <3>1 DEF Scalar, ValueKinds
    <3> HIDE DEF E
    <3>3. data' = Stored(E)
      BY <2>2 DEF E
    <3>4. Values(Stored(E)) /\ DOMAIN Stored(E) = DOMAIN data \cup {e[1] : e \in E}
      BY <3>2, DataValues, StoredValues
    <3> QED
      BY <3>3, <3>4 DEF Values
  <2> QED
    BY <1>1, <2>1, <2>2
<1> QED
  BY <1>1, <1>2, <1>3, AdvancesTop

LEMMA NestTypeStep ==
  ASSUME WalkInv, HandleMessageNestType PROVE WalkInv'
<1> USE DEF WalkInv
<1> DEFINE sub == SubTable(Top.path, Fld.name, 1)
           open == Place(Top.path, Fld.name, 0)
<1>1. /\ AtField /\ Fld.type \in types
      /\ UNCHANGED <<GlobalPb, types, stage, message, result>>
      /\ \E n \in Counts(Fld) :
           /\ data' = Written(data, open, List(n))
           /\ IF n = 0
              THEN stack' = Advanced(stack) /\ UNCHANGED tables
              ELSE /\ stack' = Nested(stack, Fld.type, sub, n)
                   /\ tables' = Written(tables, sub, Fld.type)
  BY DEF HandleMessageNestType
<1>2. PICK n \in Counts(Fld) :
        /\ data' = Written(data, open, List(n))
        /\ IF n = 0
           THEN stack' = Advanced(stack) /\ UNCHANGED tables
           ELSE /\ stack' = Nested(stack, Fld.type, sub, n)
                /\ tables' = Written(tables, sub, Fld.type)
  BY <1>1
<1>3. n \in 0..MaxCount /\ 0 \in 0..MaxCount /\ 1 \in 0..MaxCount
  BY <1>2, SchemaAssumption DEF Counts
<1>4. Top.path \in Paths /\ Fld.name \in FieldNames /\ Fld.type \in Types
  BY <1>1, CurrentField, TopTable DEF StackTable, TypeOK
<1>5. /\ open \in Paths /\ sub \in Paths /\ Len(sub) = Len(Top.path) + 1
      /\ Last(sub)[2] = 1
  BY <1>3, <1>4, PlacePath DEF SubTable
<1>6. Values(data') /\ DOMAIN data' = DOMAIN data \cup {open}
  <2>1. Values(data)
    BY DataValues
  <2>2. List(n).kind = "list" /\ List(n).num = n
    BY DEF List
  <2> QED
    BY <1>2, <1>3, <1>5, <2>1, <2>2 DEF Written, Values, ValueKinds
<1>7. CASE n = 0
  BY <1>1, <1>2, <1>6, <1>7, AdvancesTop
<1>8. CASE n # 0
  <2>1. /\ stack \in Seq(StackTable) /\ stack # <<>> /\ Len(stack) \in Nat \ {0}
        /\ Top = stack[Len(stack)] /\ Len(stack) \in DOMAIN stack
    BY <1>1, CurrentField, TopTable DEF TypeOK
  <2>2. /\ \A k \in DOMAIN stack : ~(k > Len(stack))
        /\ Len(stack) <= Len(stack) /\ ~(Len(stack) = 0)
    BY <2>1
  <2>3. ASSUME NEW k \in 1..Len(stack)
        PROVE  stack[k].at <= Len(Fields[stack[k].type]) /\ OpenPlace(k) \in DOMAIN data'
    <3>1. CASE k = Len(stack)
      BY <1>1, <1>6, <2>1, <3>1 DEF OpenPlace, AtField, Fld
    <3>2. CASE k # Len(stack)
      <4>1. k \in DOMAIN stack /\ k < Len(stack)
        BY <2>1, <3>2
      <4> QED
        BY <1>6, <4>1 DEF Asked
    <3> QED
      BY <3>1, <3>2
  <2>4. Len(sub) = Len(stack)
    <3>1. Len(Top.path) = Len(stack) - 1
      BY <2>1 DEF StackOK
    <3> QED
      BY <1>5, <2>1, <3>1
  <2>5. n \in 1..MaxCount /\ 1 + (n - 1) <= MaxCount
    BY <1>3, <1>8, SchemaAssumption
  <2>6. Last(sub)[2] + (n - 1) <= MaxCount
    BY <1>5, <2>5
  <2>7. stage' = "fields" /\ message' \in Types \cup {"none"}
    BY <1>1 DEF AtField, TypeOK
  <2>8. stack' = Nested(stack, Fld.type, sub, n) /\ tables' = Written(tables, sub, Fld.type)
    BY <1>2, <1>8
  <2> HIDE DEF sub, open
  <2> QED
    BY <1>1, <1>4, <1>5, <1>6, <2>1, <2>2, <2>3, <2>4, <2>5, <2>6, <2>7, <2>8, Pushes
<1> QED
  BY <1>7, <1>8

\* At the end of a table's fields: the tables below it.
LEMMA TableDone ==
  ASSUME WalkInv, AtEnd
  PROVE  /\ stack \in Seq(StackTable) /\ stack # <<>> /\ Len(stack) \in Nat \ {0}
         /\ Top = stack[Len(stack)] /\ Top \in StackTable
         /\ Front(stack) \in Seq(StackTable) /\ Len(Front(stack)) = Len(stack) - 1
         /\ \A k \in 1..Len(Front(stack)) : Front(stack)[k] = stack[k]
         /\ \A k \in DOMAIN stack :
              k > Len(Front(stack)) => stack[k].at > Len(Fields[stack[k].type])
         /\ \A k \in 1..Len(Front(stack)) :
              stack[k].at <= Len(Fields[stack[k].type]) /\ OpenPlace(k) \in DOMAIN data
<1> USE DEF WalkInv
<1>1. stack \in Seq(StackTable) /\ stack # <<>>
  BY DEF TypeOK, StackOK, AtEnd
<1>2. /\ Len(stack) \in Nat \ {0} /\ Top = stack[Len(stack)] /\ Top \in StackTable
      /\ Front(stack) \in Seq(StackTable) /\ Len(Front(stack)) = Len(stack) - 1
      /\ \A k \in 1..(Len(stack) - 1) : Front(stack)[k] = stack[k]
  BY <1>1, LastFront DEF Top
<1>3. Top.at > Len(Fields[Top.type])
  BY DEF AtEnd
<1>4. ASSUME NEW k \in DOMAIN stack, k > Len(Front(stack))
      PROVE  stack[k].at > Len(Fields[stack[k].type])
  <2>1. k = Len(stack)
    BY <1>1, <1>2, <1>4
  <2> QED
    BY <1>2, <1>3, <2>1
<1>5. ASSUME NEW k \in 1..Len(Front(stack))
      PROVE  stack[k].at <= Len(Fields[stack[k].type]) /\ OpenPlace(k) \in DOMAIN data
  <2>1. k \in DOMAIN stack /\ k < Len(stack)
    BY <1>1, <1>2, <1>5
  <2> QED
    BY <2>1 DEF Asked
<1> QED
  BY <1>1, <1>2, <1>4, <1>5

LEMMA NextSiblingStep ==
  ASSUME WalkInv, NextSibling PROVE WalkInv'
<1> USE DEF WalkInv
<1> DEFINE last == Last(Top.path)
           next == SubTable(Front(Top.path), last[1], last[2] + 1)
           below == Front(stack)
<1>1. /\ AtEnd /\ Top.rest > 0
      /\ stack' = Nested(below, Top.type, next, Top.rest)
      /\ tables' = Written(tables, next, Top.type)
      /\ UNCHANGED <<GlobalPb, types, stage, message, data, result>>
  BY DEF NextSibling
<1>2. /\ stack \in Seq(StackTable) /\ stack # <<>> /\ Len(stack) \in Nat \ {0}
      /\ Top = stack[Len(stack)] /\ Top \in StackTable
      /\ below \in Seq(StackTable) /\ Len(below) = Len(stack) - 1
      /\ \A k \in 1..Len(below) : below[k] = stack[k]
      /\ \A k \in DOMAIN stack : k > Len(below) => stack[k].at > Len(Fields[stack[k].type])
      /\ \A k \in 1..Len(below) :
           stack[k].at <= Len(Fields[stack[k].type]) /\ OpenPlace(k) \in DOMAIN data
  BY <1>1, TableDone
<1>3. Top.path \in Paths /\ Top.type \in Types /\ Top.rest \in 0..MaxCount
  BY <1>2 DEF StackTable
<1>4. /\ Len(Top.path) = Len(stack) - 1 /\ Len(stack) > 1
      /\ last[2] + Top.rest <= MaxCount
  BY <1>1, <1>2 DEF StackOK
<1>5. /\ last \in FieldNames \X (0..MaxCount)
      /\ Front(Top.path) \in Paths /\ Len(Front(Top.path)) = Len(Top.path) - 1
  <2>1. Top.path # <<>>
    BY <1>2, <1>4
  <2> QED
    BY <1>3, <2>1, LastFront DEF Paths
<1>6. /\ last[1] \in FieldNames /\ last[2] \in 0..MaxCount /\ MaxCount \in Nat
  BY <1>5, SchemaAssumption
<1> HIDE DEF last
<1>7. /\ last[2] + 1 \in 0..MaxCount
      /\ last[2] + 1 + (Top.rest - 1) <= MaxCount /\ Top.rest \in 1..MaxCount
  BY <1>1, <1>3, <1>4, <1>6
<1>8. /\ next \in Paths /\ Len(next) = Len(Front(Top.path)) + 1
      /\ Last(next)[2] = last[2] + 1
  BY <1>5, <1>6, <1>7, PlacePath DEF SubTable
<1> HIDE DEF next, below
<1>9. Len(next) = Len(below) /\ Last(next)[2] + (Top.rest - 1) <= MaxCount
      /\ Len(below) # 0 /\ Len(below) <= Len(stack)
  <2>1. Len(stack) \in Nat /\ Len(below) = Len(stack) - 1
    BY <1>2
  <2>2. Len(next) = Len(below) /\ Len(below) # 0 /\ Len(below) <= Len(stack)
    <3>1. Len(next) = ((Len(stack) - 1) - 1) + 1 /\ Len(stack) > 1
      BY <1>4, <1>5, <1>8, Zenon
    <3>2. \A n \in Nat : ((n - 1) - 1) + 1 = n - 1 /\ (n > 1 => n - 1 # 0) /\ n - 1 <= n
      OBVIOUS
    <3> QED
      BY <2>1, <3>1, <3>2, Zenon
  <2>3. Last(next)[2] + (Top.rest - 1) <= MaxCount
    BY <1>7, <1>8
  <2> QED
    BY <2>2, <2>3
<1>10. Values(data') /\ DOMAIN data \subseteq DOMAIN data'
  <2>1. Values(data)
    BY DataValues
  <2> QED
    BY <1>1, <2>1 DEF Values
<1>11. stage' = "fields" /\ message' \in Types \cup {"none"}
  BY <1>1 DEF AtEnd, TypeOK
<1>12. \A k \in 1..Len(below) :
          stack[k].at <= Len(Fields[stack[k].type]) /\ OpenPlace(k) \in DOMAIN data'
  BY <1>1, <1>2
<1> QED
  BY <1>1, <1>2, <1>3, <1>7, <1>8, <1>9, <1>10, <1>11, <1>12, Pushes

LEMMA ReturnNestedStep ==
  ASSUME WalkInv, ReturnNested PROVE WalkInv'
<1> USE DEF WalkInv
<1> DEFINE below == Front(stack)
<1>1. /\ AtEnd /\ Len(stack) > 1 /\ stack' = Advanced(below)
      /\ UNCHANGED <<GlobalPb, types, stage, message, tables, data, result>>
  BY DEF ReturnNested
<1>2. /\ Len(stack) \in Nat \ {0}
      /\ below \in Seq(StackTable) /\ Len(below) = Len(stack) - 1
      /\ \A k \in 1..Len(below) : below[k] = stack[k]
      /\ \A k \in DOMAIN stack : k > Len(below) => stack[k].at > Len(Fields[stack[k].type])
      /\ \A k \in 1..Len(below) :
           stack[k].at <= Len(Fields[stack[k].type]) /\ OpenPlace(k) \in DOMAIN data
  BY <1>1, TableDone
<1> HIDE DEF below
<1>3. below # <<>> /\ Len(below) \in 1..Len(below) /\ Len(below) <= Len(stack)
  BY <1>1, <1>2
<1>4. stack[Len(below)].at <= Len(Fields[stack[Len(below)].type])
      /\ OpenPlace(Len(below)) \in DOMAIN data'
  BY <1>1, <1>2, <1>3
<1>5. Values(data') /\ DOMAIN data \subseteq DOMAIN data'
  <2>1. Values(data)
    BY DataValues
  <2> QED
    BY <1>1, <2>1 DEF Values
<1>6. stage = "fields"
  BY <1>1 DEF AtEnd
<1> QED
  BY <1>1, <1>2, <1>3, <1>4, <1>5, <1>6, Advances

\* A field that has not been asked for is one of a table under construction.
LEMMA ReturnMessageStep ==
  ASSUME WalkInv, ReturnMessage PROVE WalkInv'
<1> USE DEF WalkInv
<1>1. /\ AtEnd /\ Len(stack) = 1 /\ stack' = <<>> /\ stage' = "encode"
      /\ UNCHANGED <<GlobalPb, types, message, tables, data, result>>
  BY DEF ReturnMessage
<1>2. \A k \in DOMAIN stack : stack[k].at > Len(Fields[stack[k].type])
  <2>1. /\ Len(Front(stack)) = Len(stack) - 1 /\ stack \in Seq(StackTable)
        /\ \A k \in DOMAIN stack :
             k > Len(Front(stack)) => stack[k].at > Len(Fields[stack[k].type])
    BY <1>1, TableDone
  <2>2. \A k \in DOMAIN stack : k > Len(Front(stack))
    BY <1>1, <2>1
  <2> QED
    BY <2>1, <2>2
<1>3. TypeOK'
  BY <1>1 DEF TypeOK
<1>4. StackOK'
  BY <1>1 DEF StackOK
<1>5. Asked'
  <2>1. ASSUME NEW q \in DOMAIN tables, NEW i \in DOMAIN Fields[tables[q]],
               AlwaysStored(Fields[tables[q]][i])
        PROVE  Place(q, Fields[tables[q]][i].name, 0) \in DOMAIN data
    <3>1. tables[q] \in Types
      BY DEF TypeOK
    <3>2. i \in 1..Len(Fields[tables[q]]) /\ Len(Fields[tables[q]]) \in Nat
      BY <3>1, SchemaAssumption
    <3>3. ASSUME NEW k \in DOMAIN stack, stack[k].path = q, stack[k].at <= i
          PROVE  FALSE
      <4>1. tables[q] = stack[k].type /\ stack[k].at \in Nat
        BY <3>3 DEF TypeOK
      <4>2. stack[k].at > Len(Fields[tables[q]])
        BY <1>2, <4>1
      <4> QED
        BY <3>2, <3>3, <4>1, <4>2
    <3> QED
      BY <2>1, <3>3 DEF Asked
  <2> QED
    BY <1>1, <2>1 DEF Asked, AlwaysStored
<1> QED
  BY <1>3, <1>4, <1>5

LEMMA FindMessageStep ==
  ASSUME WalkInv, NEW m \in Types, FindMessage(m) PROVE WalkInv'
<1> USE DEF WalkInv
<1>1. /\ stage = "message" /\ message' = m /\ stage' = "fields"
      /\ stack' = Nested(<<>>, m, <<>>, 1) /\ tables' = Written(tables, <<>>, m)
      /\ UNCHANGED <<GlobalPb, types, data, result>>
  BY DEF FindMessage
<1>2. stack = <<>> /\ Len(stack) = 0 /\ DOMAIN stack = {}
  BY <1>1 DEF StackOK
<1>3. <<>> \in Seq(StackTable) /\ <<>> \in Paths /\ 1 \in 1..MaxCount
      /\ \A k \in 1..Len(<<>>) : FALSE
  BY SchemaAssumption DEF Paths
<1>4. Values(data') /\ DOMAIN data \subseteq DOMAIN data'
  <2>1. Values(data)
    BY DataValues
  <2> QED
    BY <1>1, <2>1 DEF Values
<1>5. /\ Len(<<>>) <= Len(stack) /\ Len(<<>>) = 0 /\ ~(Len(<<>>) > 0)
      /\ message' \in Types \cup {"none"}
  BY <1>1, <1>2
<1> QED
  BY <1>1, <1>2, <1>3, <1>4, <1>5, Pushes

\* The steps that end the call, and load_file, change nothing that is asked for.
LEMMA OverStep ==
  ASSUME WalkInv, stage' = "over", result' \in {"empty", "bytes", "error"},
         UNCHANGED <<GlobalPb, types, message, stack, tables, data>>
  PROVE  WalkInv'
<1> USE DEF WalkInv
<1>1. TypeOK'
  BY DEF TypeOK
<1>2. StackOK'
  BY DEF StackOK
<1>3. Asked'
  BY DEF Asked, AlwaysStored, OpenPlace
<1> QED
  BY <1>1, <1>2, <1>3

\* Types are loaded before any table is made, whether the file is read to its end or
\* only some of its imports are.
LEMMA TypesLoaded ==
  ASSUME WalkInv, stage = "file", stage' \in {"message", "over"},
         types' \subseteq Types, result' \in {"none", "empty", "bytes", "error"},
         UNCHANGED <<GlobalPb, message, stack, tables, data>>
  PROVE  WalkInv'
<1> USE DEF WalkInv
<1>1. stack = <<>> /\ tables = <<>> /\ DOMAIN stack = {} /\ DOMAIN tables = {}
  BY DEF StackOK
<1>2. TypeOK'
  BY <1>1 DEF TypeOK
<1>3. StackOK'
  BY <1>1 DEF StackOK
<1>4. Asked'
  BY <1>1 DEF Asked
<1> QED
  BY <1>2, <1>3, <1>4

LEMMA LoadFileStep ==
  ASSUME WalkInv, NEW f \in Files, LoadFile(f) PROVE WalkInv'
<1>1. types' \subseteq Types
  BY SchemaAssumption DEF LoadFile, WalkInv, TypeOK
<1>2. result' \in {"none", "empty", "bytes", "error"}
  BY DEF LoadFile, WalkInv, TypeOK
<1> QED
  BY <1>1, <1>2, TypesLoaded DEF LoadFile

LEMMA LoadFileFailsStep ==
  ASSUME WalkInv, LoadFileFails PROVE WalkInv'
<1>1. PICK S \in SUBSET Files : types' = types \cup UNION {Defines[f] : f \in S}
  BY DEF LoadFileFails
<1>2. \A f \in S : Defines[f] \subseteq Types
  BY SchemaAssumption
<1>3. types' \subseteq Types
  BY <1>1, <1>2 DEF WalkInv, TypeOK
<1> QED
  BY <1>3, TypesLoaded DEF LoadFileFails, Over


-----------------------------------------------------------------------------
\* The inductive invariant of a call: the stack of tables under construction, and
\* that a field not asked for belongs to one of them.
THEOREM WalkInvariance == Spec => []WalkInv
<1>1. Init => WalkInv
  <2> SUFFICES ASSUME Init PROVE WalkInv
    OBVIOUS
  <2>1. \A S \in SUBSET Files : UNION {Defines[f] : f \in S} \subseteq Types
    BY SchemaAssumption
  <2>2. /\ GlobalPb \in BOOLEAN /\ types \subseteq Types
        /\ stage = "file" /\ message = "none" /\ stack = <<>>
        /\ tables = <<>> /\ data = <<>> /\ result = "none"
    BY <2>1, SchemaAssumption DEF Init
  <2>3. DOMAIN stack = {} /\ DOMAIN tables = {} /\ DOMAIN data = {} /\ stack \in Seq(StackTable)
    BY <2>2
  <2>4. TypeOK
    BY <2>2, <2>3 DEF TypeOK
  <2>5. StackOK
    BY <2>2, <2>3 DEF StackOK
  <2>6. Asked
    BY <2>3 DEF Asked
  <2> QED
    BY <2>4, <2>5, <2>6 DEF WalkInv
<1>2. WalkInv /\ [Next]_vars => WalkInv'
  <2> SUFFICES ASSUME WalkInv, [Next]_vars PROVE WalkInv'
    OBVIOUS
  <2>1. ASSUME NEW f \in Files, LoadFile(f) PROVE WalkInv'
    BY <2>1, LoadFileStep
  <2>2. CASE LoadFileFails
    BY <2>2, LoadFileFailsStep
  <2>3. ASSUME NEW m \in Types, FindMessage(m) PROVE WalkInv'
    BY <2>3, FindMessageStep
  <2>4. CASE FindMessageFails
    BY <2>4, OverStep DEF FindMessageFails, Over
  <2>5. CASE HandleMessageBaseType
    BY <2>5, BaseTypeStep
  <2>6. CASE HandleMessageEnumType
    BY <2>6, EnumTypeStep
  <2>7. CASE EnumHandlerFails
    BY <2>7, OverStep DEF EnumHandlerFails, Over
  <2>8. CASE HandleMessageNestType
    BY <2>8, NestTypeStep
  <2>9. CASE SkipMap
    <3>1. /\ AtField /\ Fld.type \in types /\ Kind[Fld.type] = "map" /\ stack' = Advanced(stack)
          /\ UNCHANGED <<GlobalPb, types, stage, message, tables, data, result>>
      BY <2>9 DEF SkipMap
    <3>2. ~AlwaysStored(Fld)
      BY <3>1 DEF AlwaysStored
    <3>3. Values(data') /\ DOMAIN data \subseteq DOMAIN data'
      <4>1. Values(data)
        BY DataValues DEF WalkInv
      <4> QED
        BY <3>1, <4>1 DEF Values
    <3> QED
      BY <3>1, <3>2, <3>3, AdvancesTop
  <2>10. CASE NextSibling
    BY <2>10, NextSiblingStep
  <2>11. CASE ReturnNested
    BY <2>11, ReturnNestedStep
  <2>12. CASE ReturnMessage
    BY <2>12, ReturnMessageStep
  <2>13. CASE Encode
    BY <2>13, OverStep DEF Encode, Over
  <2>14. CASE UNCHANGED vars
    <3>1. TypeOK'
      BY <2>14 DEF vars, WalkInv, TypeOK
    <3>2. StackOK'
      BY <2>14 DEF vars, WalkInv, StackOK
    <3>3. Asked'
      BY <2>14 DEF vars, WalkInv, Asked, AlwaysStored, OpenPlace
    <3> QED
      BY <3>1, <3>2, <3>3 DEF WalkInv
  <2> QED
    BY <2>1, <2>2, <2>3, <2>4, <2>5, <2>6, <2>7, <2>8, <2>9, <2>10, <2>11, <2>12, <2>13, <2>14
    DEF Next, Handle
<1> QED
  BY <1>1, <1>2, PTL DEF Spec

\* Type correctness: tables and values are at places the schema names, and what
\* is under construction is a table that has been made.
THEOREM TypeCorrect == Spec => []TypeOK
<1>1. WalkInv => TypeOK
  BY DEF WalkInv
<1> QED
  BY <1>1, WalkInvariance, PTL

\* When pb.encode is called, MakeMessageTable has asked for every field of every
\* message in the table, at any depth, for any schema and any counts.
THEOREM EveryFieldAsked == Spec => []Complete
<1>1. WalkInv => Complete
  <2> SUFFICES ASSUME WalkInv, stage = "encode", NEW t \in DOMAIN tables,
                      NEW f \in FieldsOf(tables[t]), AlwaysStored(f)
               PROVE  Place(t, f.name, 0) \in DOMAIN data
    BY DEF Complete
  <2>1. PICK i \in DOMAIN Fields[tables[t]] : f = Fields[tables[t]][i]
    BY DEF FieldsOf
  <2>2. DOMAIN stack = {}
    BY DEF WalkInv, StackOK
  <2> QED
    BY <2>1, <2>2 DEF WalkInv, Asked
<1> QED
  BY <1>1, WalkInvariance, PTL
=============================================================================
