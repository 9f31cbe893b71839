------------------------ MODULE TranspbLists_proofs ------------------------
(***************************************************************************)
(* Every array in the table has the elements announced, 1 to n: the loops  *)
(* of HandleMessageNestType go through MakeMessageTable for each element,  *)
(* which runs further such loops, and no two of them write to one place.   *)
(* And what is in the table is where pb.encode's walk of the schema comes  *)
(* to it, as far as its field has the form that pb.encode expects.         *)
(***************************************************************************)
EXTENDS Transpb_proofs, WellFoundedInduction

\* A place has its parts.
LEMMA PlaceParts ==
  ASSUME NEW p \in Paths, NEW n \in FieldNames, NEW i \in 0..MaxCount
  PROVE  /\ Place(p, n, i) # <<>> /\ Front(Place(p, n, i)) = p
         /\ Last(Place(p, n, i))[1] = n /\ Last(Place(p, n, i))[2] = i
<1> DEFINE e == <<n, i>>
           S == FieldNames \X (0..MaxCount)
<1>1. e \in S /\ p \in Seq(S)
  BY DEF Paths
<1>2. e[1] = n /\ e[2] = i
  OBVIOUS
<1> HIDE DEF e, S
<1>3. /\ Append(p, e) \in Seq(S) /\ Append(p, e) # <<>>
      /\ Len(Append(p, e)) = Len(p) + 1 /\ Append(p, e)[Len(p) + 1] = e
      /\ \A k \in 1..Len(p) : Append(p, e)[k] = p[k]
  BY <1>1
<1>4. /\ Front(Append(p, e)) \in Seq(S) /\ Len(Front(Append(p, e))) = Len(p)
      /\ \A k \in 1..Len(p) : Front(Append(p, e))[k] = Append(p, e)[k]
      /\ Last(Append(p, e)) = e
  <2>1. Len(p) \in Nat /\ Len(p) + 1 - 1 = Len(p)
    BY <1>1
  <2> DEFINE q == Append(p, e)
  <2>2. q \in Seq(S) /\ q # <<>> /\ Len(q) - 1 = Len(p) /\ q[Len(q)] = e
    BY <1>3, <2>1
  <2> HIDE DEF q
  <2>3. /\ Front(q) \in Seq(S) /\ Len(Front(q)) = Len(q) - 1 /\ Last(q) = q[Len(q)]
        /\ \A k \in 1..(Len(q) - 1) : Front(q)[k] = q[k]
    BY <2>2, LastFront
  <2> QED
    BY <2>2, <2>3 DEF q
<1>5. Front(Append(p, e)) = p
  BY <1>1, <1>3, <1>4, SeqEqual
<1> QED
  BY <1>2, <1>3, <1>4, <1>5 DEF Place, e

\* Different parts are different places.
LEMMA PlacesDiffer ==
  ASSUME NEW p \in Paths, NEW n \in FieldNames, NEW i \in 0..MaxCount,
         NEW q \in Paths, NEW m \in FieldNames, NEW j \in 0..MaxCount,
         Place(p, n, i) = Place(q, m, j)
  PROVE  p = q /\ n = m /\ i = j
  BY PlaceParts

\* A place is made of its parts.
LEMMA PathParts ==
  ASSUME NEW q \in Paths, q # <<>>
  PROVE  /\ Front(q) \in Paths /\ Last(q)[1] \in FieldNames /\ Last(q)[2] \in 0..MaxCount
         /\ q = Place(Front(q), Last(q)[1], Last(q)[2])
<1> DEFINE S == FieldNames \X (0..MaxCount)
<1>1. q \in Seq(S)
  BY DEF Paths
<1>2. Last(q) \in S
  BY <1>1, LastFront
<1>3. /\ Front(q) \in Seq(S) /\ Last(q) = q[Len(q)] /\ Len(q) \in Nat \ {0}
      /\ Len(Front(q)) = Len(q) - 1
      /\ \A k \in 1..(Len(q) - 1) : Front(q)[k] = q[k]
  BY <1>1, LastFront
<1>4. Last(q)[1] \in FieldNames /\ Last(q)[2] \in 0..MaxCount
      /\ Last(q) = <<Last(q)[1], Last(q)[2]>>
  BY <1>2
<1> HIDE DEF S
<1>5. Append(Front(q), Last(q)) = q
  <2>1. /\ Append(Front(q), Last(q)) \in Seq(S)
        /\ Len(Append(Front(q), Last(q))) = Len(q)
    BY <1>2, <1>3
  <2>2. \A k \in 1..Len(q) : Append(Front(q), Last(q))[k] = q[k]
    BY <1>2, <1>3
  <2> QED
    BY <1>1, <2>1, <2>2, SeqEqual
<1> QED
  BY <1>3, <1>4, <1>5 DEF Place, Paths, S

\* What TypeOK says of the tables' fields and of the places.
LEMMA TableFields ==
  ASSUME TypeOK, NEW t \in DOMAIN tables
  PROVE  /\ t \in Paths /\ tables[t] \in Types /\ Len(Fields[tables[t]]) \in Nat
         /\ DOMAIN Fields[tables[t]] = 1..Len(Fields[tables[t]])
         /\ \A i \in DOMAIN Fields[tables[t]] : Fields[tables[t]][i].name \in FieldNames
         /\ \A i, j \in DOMAIN Fields[tables[t]] :
              Fields[tables[t]][i].name = Fields[tables[t]][j].name => i = j
<1>1. t \in Paths /\ tables[t] \in Types
  BY DEF TypeOK
<1>2. Fields[tables[t]] \in Seq(FieldRecords)
  BY <1>1, SchemaAssumption
<1>3. \A i \in DOMAIN Fields[tables[t]] : Fields[tables[t]][i] \in FieldRecords
  BY <1>2
<1>4. \A i, j \in DOMAIN Fields[tables[t]] :
        Fields[tables[t]][i].name = Fields[tables[t]][j].name => i = j
  BY <1>1, SchemaAssumption
<1> QED
  BY <1>1, <1>2, <1>3, <1>4 DEF FieldNames

\* The table k of the stack and the field it is at, if it is not past the last.
LEMMA StackField ==
  ASSUME WalkInv, NEW k \in DOMAIN stack, stack[k].at <= Len(Fields[stack[k].type])
  PROVE  /\ stack[k].path \in DOMAIN tables /\ stack[k].path \in Paths
         /\ tables[stack[k].path] = stack[k].type
         /\ stack[k].at \in DOMAIN Fields[stack[k].type]
         /\ Fields[stack[k].type][stack[k].at].name \in FieldNames
         /\ \A l \in DOMAIN stack : stack[l].path = stack[k].path => l = k
<1> USE DEF WalkInv
<1>1. stack[k].path \in DOMAIN tables /\ tables[stack[k].path] = stack[k].type
      /\ stack[k].at \in 1..(Len(Fields[stack[k].type]) + 1)
  BY DEF TypeOK
<1>2. \A l \in DOMAIN stack : stack[l].path = stack[k].path => l = k
  <2>1. \A l \in DOMAIN stack : l \in Nat
    BY DEF TypeOK
  <2> QED
    BY <2>1 DEF StackOK
<1> QED
  BY <1>1, <1>2, TableFields

\* The array of one table's field is at no place of another table.
LEMMA OtherOpen ==
  ASSUME NEW k, stack[k].path \in Paths,
         Fields[stack[k].type][stack[k].at].name \in FieldNames,
         NEW path \in Paths, NEW name \in FieldNames, stack[k].path # path,
         NEW i \in 0..MaxCount
  PROVE  OpenPlace(k) # Place(path, name, i)
<1>1. 0 \in 0..MaxCount
  BY SchemaAssumption
<1> QED
  BY <1>1, PlacesDiffer DEF OpenPlace

-----------------------------------------------------------------------------
\* The table m is at path, at the field named.
AtNamed(m, path, name) ==
  path = stack[m].path /\ name = Fields[stack[m].type][stack[m].at].name

\* The table m, on top once those above it are off, goes to its next field.
StackAdvances(m) ==
  /\ DOMAIN stack' = 1..m /\ Len(stack') = m
  /\ \A k \in 1..(m - 1) : stack'[k] = stack[k]
  /\ stack'[m].path = stack[m].path /\ stack'[m].rest = stack[m].rest
  /\ stack'[m].at = stack[m].at + 1

\* Nothing is stored but the field.
OnlyStores(path, name) ==
  /\ DOMAIN data \subseteq DOMAIN data'
  /\ \A q \in DOMAIN data' : \/ q \in DOMAIN data /\ data'[q] = data[q]
                             \/ \E i \in 0..MaxCount : q = Place(path, name, i)

\* If the field is an array, it has the elements announced.
LeavesWhole(f, path, name) ==
  (/\ AlwaysStored(f) /\ Place(path, name, 0) \in DOMAIN data'
   /\ data'[Place(path, name, 0)].kind = "list")
  => \A i \in 1..MaxCount :
       Place(path, name, i) \in Places' <=> i <= data'[Place(path, name, 0)].num

\* A step to the next field keeps the arrays whole, if it stores nothing but the
\* field and leaves the field's array whole.
LEMMA ListAdvances ==
  ASSUME IInv, NEW m \in DOMAIN stack, Len(stack) <= m + 1,
         stack[m].at <= Len(Fields[stack[m].type]),
         NEW path, NEW name, AtNamed(m, path, name),
         StackAdvances(m), UNCHANGED <<tables, types>>, OnlyStores(path, name),
         LeavesWhole(Fields[stack[m].type][stack[m].at], path, name)
  PROVE  ListInv'
<1>0. WalkInv /\ TypeOK /\ Asked /\ Reached /\ Whole /\ Filling
  BY DEF IInv, WalkInv, ListInv
<1>1. path \in DOMAIN tables /\ path \in Paths /\ name \in FieldNames
  BY <1>0, StackField DEF AtNamed
<1>2. /\ tables[path] = stack[m].type /\ stack[m].at \in DOMAIN Fields[tables[path]]
      /\ stack[m].at \in Nat /\ name = Fields[tables[path]][stack[m].at].name
  <2>1. stack[m].at \in Nat
    BY <1>0 DEF TypeOK
  <2> QED
    BY <1>0, <2>1, StackField DEF AtNamed
<1>3. \A l \in DOMAIN stack : stack[l].path = path => l = m
  BY <1>0, StackField DEF AtNamed
<1>4. /\ DOMAIN stack = 1..Len(stack) /\ Len(stack) \in Nat /\ m \in Nat \ {0}
      /\ \A k \in DOMAIN stack' : k \in DOMAIN stack /\ stack'[k].path = stack[k].path
                                  /\ stack'[k].rest = stack[k].rest
      /\ \A k \in DOMAIN stack' : k # m => k \in 1..(m - 1) /\ stack'[k] = stack[k]
  <2>1. DOMAIN stack = 1..Len(stack) /\ Len(stack) \in Nat
    BY <1>0 DEF TypeOK
  <2>2. m \in Nat \ {0}
    BY <2>1
  <2>3. \A k \in DOMAIN stack' : k # m => k \in 1..(m - 1) /\ stack'[k] = stack[k]
    BY <2>2 DEF StackAdvances
  <2>4. \A k \in DOMAIN stack' : k \in DOMAIN stack
    BY <2>1, <2>2 DEF StackAdvances
  <2>5. stack'[m].path = stack[m].path /\ stack'[m].rest = stack[m].rest
    BY DEF StackAdvances
  <2> QED
    BY <2>1, <2>2, <2>3, <2>4, <2>5
<1>5. /\ Places \subseteq Places'
      /\ \A q \in Places' : q \in Places \/ \E i \in 0..MaxCount : q = Place(path, name, i)
  BY DEF OnlyStores, Places
<1>6. Reached'
  <2> SUFFICES ASSUME NEW q \in Places', q # <<>>
               PROVE  /\ Front(q) \in DOMAIN tables
                      /\ \E i \in DOMAIN Fields[tables[Front(q)]] :
                           Fields[tables[Front(q)]][i].name = Last(q)[1] /\ Passed(Front(q), i)'
    BY DEF Reached
  <2>0. stack'[m].at = stack[m].at + 1
    BY DEF StackAdvances
  <2>1. CASE q \in Places
    <3>1. Front(q) \in DOMAIN tables
      BY <1>0, <2>1 DEF Reached
    <3>2. PICK i \in DOMAIN Fields[tables[Front(q)]] :
            Fields[tables[Front(q)]][i].name = Last(q)[1] /\ Passed(Front(q), i)
      BY <1>0, <2>1 DEF Reached
    <3>3. i \in Nat
      BY <1>0, <3>1, TableFields
    <3>4. ASSUME NEW k \in DOMAIN stack', stack'[k].path = Front(q)
          PROVE  i < stack'[k].at \/ (i = stack'[k].at /\ k < Len(stack'))
      <4>1. k \in DOMAIN stack /\ stack[k].path = Front(q)
        BY <1>4, <3>4
      <4>2. i < stack[k].at \/ (i = stack[k].at /\ k < Len(stack))
        BY <3>2, <4>1 DEF Passed
      <4>3. CASE k = m
        BY <1>2, <2>0, <3>3, <4>2, <4>3
      <4>4. CASE k # m
        <5>1. k \in 1..(m - 1) /\ stack'[k] = stack[k]
          BY <1>4, <4>4
        <5>2. k < Len(stack')
          BY <1>4, <5>1 DEF StackAdvances
        <5> QED
          BY <4>2, <5>1, <5>2
      <4> QED
        BY <4>3, <4>4
    <3> QED
      BY <3>1, <3>2, <3>4 DEF Passed
  <2>2. CASE \E i \in 0..MaxCount : q = Place(path, name, i)
    <3>1. Front(q) = path /\ Last(q)[1] = name
      <4>1. path \in Paths /\ name \in FieldNames
        BY <1>1
      <4> QED
        BY <2>2, <4>1, PlaceParts
    <3>2. ASSUME NEW k \in DOMAIN stack', stack'[k].path = path
          PROVE  stack[m].at < stack'[k].at
      <4>1. k = m
        BY <1>3, <1>4, <3>2
      <4> QED
        BY <1>2, <2>0, <4>1
    <3>3. PICK i : i = stack[m].at
      OBVIOUS
    <3>4. i \in DOMAIN Fields[tables[path]] /\ Fields[tables[path]][i].name = name
      BY <1>2, <3>3
    <3>5. Passed(path, i)'
      BY <3>2, <3>3 DEF Passed
    <3> QED
      BY <1>1, <3>1, <3>4, <3>5
  <2> QED
    BY <1>5, <2>1, <2>2
<1>7. ASSUME NEW t \in Paths, NEW n \in FieldNames, t # path \/ n # name
      PROVE  /\ \A i \in 0..MaxCount : Place(t, n, i) \in Places' <=> Place(t, n, i) \in Places
             /\ \A i \in 0..MaxCount : Place(t, n, i) \in DOMAIN data' =>
                  Place(t, n, i) \in DOMAIN data /\ data'[Place(t, n, i)] = data[Place(t, n, i)]
  <2>1. ASSUME NEW i \in 0..MaxCount, NEW j \in 0..MaxCount,
               Place(t, n, i) = Place(path, name, j)
        PROVE  FALSE
    BY <1>1, <1>7, <2>1, PlacesDiffer
  <2>2. \A i \in 0..MaxCount : Place(t, n, i) \in Places' => Place(t, n, i) \in Places
    BY <1>5, <2>1
  <2>3. ASSUME NEW i \in 0..MaxCount, Place(t, n, i) \in DOMAIN data'
        PROVE  Place(t, n, i) \in DOMAIN data /\ data'[Place(t, n, i)] = data[Place(t, n, i)]
    BY <2>1, <2>3 DEF OnlyStores
  <2> QED
    BY <1>5, <2>2, <2>3
<1>8. 0 \in 0..MaxCount /\ \A i \in 1..MaxCount : i \in 0..MaxCount
  BY SchemaAssumption
<1>9. Whole'
  <2> SUFFICES ASSUME NEW t \in DOMAIN tables, NEW i \in DOMAIN Fields[tables[t]],
                      NEW f, f = Fields[tables[t]][i], NEW p, p = Place(t, f.name, 0),
                      AlwaysStored(f), p \in DOMAIN data', data'[p].kind = "list",
                      ~InLoop(t, i)'
               PROVE  \A x \in 1..MaxCount : Place(t, f.name, x) \in Places' <=> x <= data'[p].num
    BY DEF Whole, Elements, AlwaysStored
  <2>1. t \in Paths /\ f.name \in FieldNames
    BY <1>0, TableFields
  <2>2. CASE t = path /\ i = stack[m].at
    <3>1. f = Fields[stack[m].type][stack[m].at] /\ p = Place(path, name, 0) /\ f.name = name
      <4>1. Fields[tables[t]][i] = Fields[stack[m].type][stack[m].at]
        BY <1>2, <2>2
      <4>2. Fields[tables[t]][i].name = name
        BY <1>2, <2>2
      <4> QED
        BY <2>2, <4>1, <4>2
    <3> QED
      BY <2>2, <3>1 DEF LeavesWhole
  <2>3. CASE ~(t = path /\ i = stack[m].at)
    <3>1. t # path \/ f.name # name
      BY <1>0, <1>2, <2>3, TableFields
    <3>2. /\ \A x \in 1..MaxCount : Place(t, f.name, x) \in Places' <=> Place(t, f.name, x) \in Places
          /\ p \in DOMAIN data /\ data'[p] = data[p]
      BY <1>7, <1>8, <2>1, <3>1
    <3>3. ~InLoop(t, i)
      <4> SUFFICES ASSUME NEW k \in DOMAIN stack, k < Len(stack), stack[k].path = t,
                          stack[k].at = i
                   PROVE  FALSE
        BY DEF InLoop
      <4>1. k # m
        BY <2>3 DEF AtNamed
      <4>2. k \in 1..(m - 1)
        BY <1>4, <4>1
      <4>3. k \in DOMAIN stack' /\ k < Len(stack') /\ stack'[k] = stack[k]
        BY <1>4, <4>2 DEF StackAdvances
      <4> QED
        BY <4>3 DEF InLoop
    <3>4. \A x \in 1..MaxCount : Place(t, f.name, x) \in Places <=> x <= data[p].num
      <4>1. AlwaysStored(Fields[tables[t]][i]) /\ data[p].kind = "list"
        BY <3>2
      <4>2. Elements(t, Fields[tables[t]][i].name, data[p].num)
        BY <1>0, <3>2, <3>3, <4>1 DEF Whole
      <4> QED
        BY <4>2 DEF Elements
    <3> QED
      BY <3>2, <3>4
  <2> QED
    BY <2>2, <2>3
<1>10. ASSUME NEW k \in DOMAIN stack', k < Len(stack')
      PROVE  FillingAt(k)'
  <2>1. k \in 1..(m - 1) /\ k + 1 \in 1..m /\ k \in DOMAIN stack /\ k < Len(stack) /\ k # m
    BY <1>4, <1>10 DEF StackAdvances
  <2>2. /\ stack'[k] = stack[k] /\ stack'[k + 1].path = stack[k + 1].path
        /\ stack'[k + 1].rest = stack[k + 1].rest
    BY <1>4, <2>1 DEF StackAdvances
  <2>3. stack[k].at <= Len(Fields[stack[k].type]) /\ OpenPlace(k) \in DOMAIN data
    BY <1>0, <2>1 DEF Asked
  <2>4. /\ stack[k].path \in Paths /\ stack[k].path # path
        /\ Fields[stack[k].type][stack[k].at].name \in FieldNames
    BY <1>0, <1>3, <2>1, <2>3, StackField
  <2>5. OpenPlace(k)' = OpenPlace(k)
    BY <2>2 DEF OpenPlace
  <2>6. data'[OpenPlace(k)] = data[OpenPlace(k)]
    <3>1. \A i \in 0..MaxCount : OpenPlace(k) # Place(path, name, i)
      BY <1>1, <2>4, OtherOpen
    <3> QED
      BY <2>3, <3>1 DEF OnlyStores
  <2>7. \A x \in 1..MaxCount :
           Place(stack[k].path, Fields[stack[k].type][stack[k].at].name, x) \in Places'
             <=> Place(stack[k].path, Fields[stack[k].type][stack[k].at].name, x) \in Places
    BY <1>7, <1>8, <2>4
  <2>8. FillingAt(k)
    BY <1>0, <2>1 DEF Filling
  <2> QED
    BY <2>2, <2>5, <2>6, <2>7, <2>8 DEF FillingAt, Elements, AlwaysStored
<1>11. Filling'
  BY <1>10 DEF Filling
<1> QED
  BY <1>6, <1>9, <1>11 DEF ListInv

\* The table m is at path, at the field named, whose array is at open; element c
\* of the array is at new, those before it have been made, and no other has.
Filled(m, path, name, open, c, new) ==
  /\ AtNamed(m, path, name)
  /\ AlwaysStored(Fields[stack[m].type][stack[m].at])
  /\ new = Place(path, name, c) /\ open = Place(path, name, 0)
  /\ \A i \in 1..MaxCount : Place(path, name, i) \in Places <=> i < c

\* A table at path new is put on the stack above the table m.
StackGrows(m, new) ==
  /\ DOMAIN stack' = 1..(m + 1) /\ Len(stack') = m + 1
  /\ \A k \in 1..m : stack'[k] = stack[k]
  /\ stack'[m + 1].path = new

\* A table is made at path new, and nothing else is.
TablesGrow(new) ==
  /\ DOMAIN tables' = DOMAIN tables \cup {new} /\ tables'[new] \in Types
  /\ \A q \in DOMAIN tables : q # new => tables'[q] = tables[q]

\* Nothing is stored but the array at open, announced with the c elements up to
\* the table m + 1 and those that follow it.
DataGrows(open, m, c) ==
  /\ DOMAIN data' = DOMAIN data \cup {open}
  /\ \A q \in DOMAIN data : q # open => data'[q] = data[q]
  /\ data'[open].kind = "list" /\ data'[open].num - stack'[m + 1].rest = c

\* A step that puts the next element of the array the table m is at on the stack
\* keeps the arrays whole.
LEMMA ListPushes ==
  ASSUME IInv, NEW m \in DOMAIN stack, Len(stack) <= m + 1,
         stack[m].at <= Len(Fields[stack[m].type]),
         NEW path, NEW name, NEW c \in 1..MaxCount, NEW new, NEW open,
         Filled(m, path, name, open, c, new),
         StackGrows(m, new), TablesGrow(new), DataGrows(open, m, c), types' = types
  PROVE  ListInv'
<1>0. WalkInv /\ TypeOK /\ Asked /\ Reached /\ Whole /\ Filling
  BY DEF IInv, WalkInv, ListInv
<1>1. path \in DOMAIN tables /\ path \in Paths /\ name \in FieldNames
  BY <1>0, StackField DEF Filled, AtNamed
<1>2. /\ tables[path] = stack[m].type /\ stack[m].at \in DOMAIN Fields[tables[path]]
      /\ stack[m].at \in Nat /\ name = Fields[tables[path]][stack[m].at].name
  <2>1. stack[m].at \in Nat
    BY <1>0 DEF TypeOK
  <2> QED
    BY <1>0, <2>1, StackField DEF Filled, AtNamed
<1>3. \A l \in DOMAIN stack : stack[l].path = path => l = m
  BY <1>0, StackField DEF Filled, AtNamed
<1>4. /\ new = Place(path, name, c) /\ open = Place(path, name, 0)
      /\ \A i \in 1..MaxCount : Place(path, name, i) \in Places <=> i < c
  BY DEF Filled
<1>5. /\ DOMAIN stack = 1..Len(stack) /\ Len(stack) \in Nat /\ m \in Nat \ {0}
      /\ \A k \in DOMAIN stack' : k # m + 1 \/ k < Len(stack') => k \in 1..m
      /\ \A k \in DOMAIN stack : k < Len(stack) => k \in 1..m
      /\ \A k \in 1..m : k \in DOMAIN stack /\ k \in DOMAIN stack' /\ k < Len(stack')
  <2>1. DOMAIN stack = 1..Len(stack) /\ Len(stack) \in Nat
    BY <1>0 DEF TypeOK
  <2>2. m \in Nat \ {0}
    BY <2>1
  <2>3. /\ \A k \in DOMAIN stack' : k # m + 1 \/ k < Len(stack') => k \in 1..m
        /\ \A k \in DOMAIN stack : k < Len(stack) => k \in 1..m
    BY <2>1, <2>2 DEF StackGrows
  <2>4. \A k \in 1..m : k \in DOMAIN stack /\ k \in DOMAIN stack' /\ k < Len(stack')
    BY <2>1, <2>2 DEF StackGrows
  <2> QED
    BY <2>1, <2>2, <2>3, <2>4
<1>6. /\ 0 \in 0..MaxCount /\ c \in Nat /\ c \in 0..MaxCount
      /\ \A i \in 1..MaxCount : i \in 0..MaxCount /\ i \in Nat /\ i # 0
  BY SchemaAssumption
<1>7. new \notin Places /\ new \notin DOMAIN tables
  <2>1. ~(c < c)
    BY <1>6
  <2> QED
    BY <1>4, <2>1 DEF Places
<1>8. /\ Places' = Places \cup {open, new}
      /\ \A q \in DOMAIN tables : q \in DOMAIN tables' /\ tables'[q] = tables[q]
  BY <1>7 DEF Places, TablesGrow, DataGrows
<1>9. Reached'
  <2> SUFFICES ASSUME NEW q \in Places', q # <<>>
               PROVE  /\ Front(q) \in DOMAIN tables
                      /\ \E i \in DOMAIN Fields[tables[Front(q)]] :
                           Fields[tables[Front(q)]][i].name = Last(q)[1] /\ Passed(Front(q), i)'
    BY <1>8 DEF Reached
  <2>1. CASE q \in Places
    <3>1. Front(q) \in DOMAIN tables
      BY <1>0, <2>1 DEF Reached
    <3>2. PICK i \in DOMAIN Fields[tables[Front(q)]] :
            Fields[tables[Front(q)]][i].name = Last(q)[1] /\ Passed(Front(q), i)
      BY <1>0, <2>1 DEF Reached
    <3>3. ASSUME NEW k \in DOMAIN stack', stack'[k].path = Front(q)
          PROVE  i < stack'[k].at \/ (i = stack'[k].at /\ k < Len(stack'))
      <4>1. k # m + 1
        BY <1>7, <3>1, <3>3 DEF StackGrows
      <4>2. k \in 1..m /\ k \in DOMAIN stack /\ k < Len(stack') /\ stack'[k] = stack[k]
        BY <1>5, <4>1 DEF StackGrows
      <4> QED
        BY <3>2, <3>3, <4>2 DEF Passed
    <3> QED
      BY <3>1, <3>2, <3>3 DEF Passed
  <2>2. CASE q \in {open, new}
    <3>1. Front(q) = path /\ Last(q)[1] = name
      BY <1>1, <1>4, <1>6, <2>2, PlaceParts
    <3>2. ASSUME NEW k \in DOMAIN stack', stack'[k].path = path
          PROVE  stack[m].at = stack'[k].at /\ k < Len(stack')
      <4>1. k # m + 1
        BY <1>1, <1>7, <3>2 DEF StackGrows
      <4>2. k \in 1..m /\ k \in DOMAIN stack /\ k < Len(stack') /\ stack'[k] = stack[k]
        BY <1>5, <4>1 DEF StackGrows
      <4>3. k = m
        BY <1>3, <3>2, <4>2
      <4> QED
        BY <4>2, <4>3
    <3>3. PICK i : i = stack[m].at
      OBVIOUS
    <3>4. i \in DOMAIN Fields[tables[path]] /\ Fields[tables[path]][i].name = name
      BY <1>2, <3>3
    <3>5. Passed(path, i)'
      BY <3>2, <3>3 DEF Passed
    <3> QED
      BY <1>1, <3>1, <3>4, <3>5
  <2> QED
    BY <1>8, <2>1, <2>2
<1>10. ASSUME NEW t \in Paths, NEW n \in FieldNames, t # path \/ n # name
      PROVE  /\ \A i \in 0..MaxCount : Place(t, n, i) \in Places' <=> Place(t, n, i) \in Places
             /\ \A i \in 0..MaxCount : Place(t, n, i) \in DOMAIN data' =>
                  Place(t, n, i) \in DOMAIN data /\ data'[Place(t, n, i)] = data[Place(t, n, i)]
  <2>1. ASSUME NEW i \in 0..MaxCount
        PROVE  Place(t, n, i) # open /\ Place(t, n, i) # new
    BY <1>1, <1>4, <1>6, <1>10, PlacesDiffer
  <2> QED
    BY <1>8, <2>1 DEF DataGrows
<1>11. Whole'
  <2> SUFFICES ASSUME NEW t \in DOMAIN tables', NEW i \in DOMAIN Fields[tables'[t]],
                      NEW f, f = Fields[tables'[t]][i], NEW p, p = Place(t, f.name, 0),
                      AlwaysStored(f), p \in DOMAIN data', data'[p].kind = "list",
                      ~InLoop(t, i)'
               PROVE  \A x \in 1..MaxCount : Place(t, f.name, x) \in Places' <=> x <= data'[p].num
    BY DEF Whole, Elements, AlwaysStored
  <2>1. f.name \in FieldNames /\ (t # new => t \in DOMAIN tables /\ tables'[t] = tables[t])
    <3>1. t # new => t \in DOMAIN tables /\ tables'[t] = tables[t]
      BY <1>8 DEF TablesGrow
    <3>2. tables'[t] \in Types
      BY <1>0, <3>1, TableFields DEF TablesGrow
    <3>3. Fields[tables'[t]] \in Seq(FieldRecords)
      BY <3>2, SchemaAssumption
    <3>4. f \in FieldRecords
      BY <3>3
    <3> QED
      BY <3>1, <3>4 DEF FieldNames
  <2>2. CASE t = new
    <3>1. new \in Paths /\ new # path
      <4>1. new \in Paths /\ Len(new) = Len(path) + 1
        BY <1>1, <1>4, <1>6, PlacePath
      <4>2. Len(path) \in Nat
        BY <1>1 DEF Paths
      <4> QED
        BY <4>1, <4>2
    <3>2. p \in DOMAIN data
      BY <1>6, <1>10, <2>1, <2>2, <3>1
    <3>3. p # <<>> /\ Front(p) = new
      BY <1>6, <2>1, <2>2, <3>1, PlaceParts
    <3>4. Front(p) \in DOMAIN tables
      BY <1>0, <3>2, <3>3 DEF Reached, Places
    <3> QED
      BY <1>7, <3>3, <3>4
  <2>3. CASE t # new
    <3>1. /\ t \in DOMAIN tables /\ tables'[t] = tables[t] /\ t \in Paths
          /\ i \in DOMAIN Fields[tables[t]] /\ f = Fields[tables[t]][i]
      BY <1>0, <2>1, <2>3, TableFields
    <3>2. ~(t = path /\ i = stack[m].at)
      <4> SUFFICES ASSUME t = path, i = stack[m].at PROVE FALSE
        OBVIOUS
      <4>1. m \in 1..m
        BY <1>5
      <4>2. m \in DOMAIN stack' /\ m < Len(stack') /\ stack'[m] = stack[m]
        BY <1>5, <4>1 DEF StackGrows
      <4> QED
        BY <4>2 DEF InLoop, Filled, AtNamed
    <3>3. t # path \/ f.name # name
      BY <1>0, <1>2, <3>1, <3>2, TableFields
    <3>4. /\ \A x \in 1..MaxCount : Place(t, f.name, x) \in Places' <=> Place(t, f.name, x) \in Places
          /\ p \in DOMAIN data /\ data'[p] = data[p]
      BY <1>6, <1>10, <2>1, <3>1, <3>3
    <3>5. ~InLoop(t, i)
      <4> SUFFICES ASSUME NEW k \in DOMAIN stack, k < Len(stack), stack[k].path = t,
                          stack[k].at = i
                   PROVE  FALSE
        BY DEF InLoop
      <4>1. k \in 1..m
        BY <1>5
      <4>2. k \in DOMAIN stack' /\ k < Len(stack') /\ stack'[k] = stack[k]
        BY <1>5, <4>1 DEF StackGrows
      <4> QED
        BY <4>2 DEF InLoop
    <3>6. \A x \in 1..MaxCount : Place(t, f.name, x) \in Places <=> x <= data[p].num
      <4>1. /\ AlwaysStored(Fields[tables[t]][i]) /\ data[p].kind = "list"
            /\ p = Place(t, Fields[tables[t]][i].name, 0)
        BY <3>1, <3>4
      <4>2. Elements(t, Fields[tables[t]][i].name, data[p].num)
        BY <1>0, <3>1, <3>4, <3>5, <4>1 DEF Whole
      <4> QED
        BY <3>1, <4>2 DEF Elements
    <3> QED
      BY <3>4, <3>6
  <2> QED
    BY <2>2, <2>3
<1>12. ASSUME NEW k \in DOMAIN stack', k < Len(stack')
      PROVE  FillingAt(k)'
  <2>1. k \in 1..m /\ k \in DOMAIN stack
    BY <1>5, <1>12
  <2>2. stack'[k] = stack[k]
    BY <2>1 DEF StackGrows
  <2>3. OpenPlace(k)' = OpenPlace(k)
    BY <2>2 DEF OpenPlace
  <2>4. CASE k = m
    <3>1. OpenPlace(k) = open
      BY <2>4 DEF OpenPlace, Filled, AtNamed
    <3>2. ASSUME NEW x \in 1..MaxCount
          PROVE  Place(path, name, x) \in Places' <=> x <= c
      <4>1. Place(path, name, x) # open /\ (Place(path, name, x) = new <=> x = c)
        BY <1>1, <1>4, <1>6, <3>2, PlacesDiffer
      <4>2. Place(path, name, x) \in Places <=> x < c
        BY <1>4
      <4>3. Place(path, name, x) \in Places' <=> x < c \/ x = c
        BY <1>8, <4>1, <4>2
      <4> QED
        BY <1>6, <4>3
    <3>3. /\ stack[m].path = path /\ Fields[stack[m].type][stack[m].at].name = name
          /\ AlwaysStored(Fields[stack[m].type][stack[m].at]) /\ new = Place(path, name, c)
      BY DEF Filled, AtNamed
    <3>4. /\ data'[open].kind = "list" /\ data'[open].num - stack'[m + 1].rest = c
          /\ stack'[m + 1].path = new
      BY DEF DataGrows, StackGrows
    <3> QED
      BY <2>2, <2>3, <2>4, <3>1, <3>2, <3>3, <3>4 DEF FillingAt, Elements, AlwaysStored
  <2>5. CASE k # m
    <3>1. k < m /\ k < Len(stack) /\ k + 1 \in 1..m
      BY <1>5, <2>1, <2>5
    <3>2. stack'[k + 1] = stack[k + 1]
      BY <3>1 DEF StackGrows
    <3>3. stack[k].at <= Len(Fields[stack[k].type]) /\ OpenPlace(k) \in DOMAIN data
      BY <1>0, <2>1, <3>1 DEF Asked
    <3>4. /\ stack[k].path \in Paths /\ stack[k].path # path
          /\ Fields[stack[k].type][stack[k].at].name \in FieldNames
      BY <1>0, <1>3, <2>1, <2>5, <3>3, StackField
    <3>5. data'[OpenPlace(k)] = data[OpenPlace(k)]
      <4>1. OpenPlace(k) # open
        <5>1. OpenPlace(k) # Place(path, name, 0)
          BY <1>1, <1>6, <3>4, OtherOpen
        <5> QED
          BY <1>4, <5>1
      <4> QED
        BY <3>3, <4>1 DEF DataGrows
    <3>6. \A x \in 1..MaxCount :
             Place(stack[k].path, Fields[stack[k].type][stack[k].at].name, x) \in Places'
               <=> Place(stack[k].path, Fields[stack[k].type][stack[k].at].name, x) \in Places
      BY <1>6, <1>10, <3>4
    <3>7. FillingAt(k)
      BY <1>0, <2>1, <3>1 DEF Filling
    <3> QED
      BY <2>2, <2>3, <3>2, <3>5, <3>6, <3>7 DEF FillingAt, Elements, AlwaysStored
  <2> QED
    BY <2>4, <2>5
<1> QED
  BY <1>9, <1>11, <1>12 DEF ListInv, Filling
-----------------------------------------------------------------------------
\* Nothing is stored at the field the walk is at before it is handled.
LEMMA FreshField ==
  ASSUME IInv, AtField, NEW i \in 0..MaxCount
  PROVE  Place(Top.path, Fld.name, i) \notin Places
<1> USE DEF IInv, WalkInv
<1>1. /\ stack # <<>> /\ Top.at \in 1..Len(Fields[Top.type]) /\ Fld.name \in FieldNames
      /\ Len(stack) \in Nat \ {0} /\ Top = stack[Len(stack)] /\ Top.path \in DOMAIN tables
      /\ tables[Top.path] = Top.type
  BY CurrentField, TopTable
<1>2. /\ Top.path \in Paths /\ DOMAIN Fields[Top.type] = 1..Len(Fields[Top.type])
      /\ \A x, y \in DOMAIN Fields[Top.type] :
           Fields[Top.type][x].name = Fields[Top.type][y].name => x = y
  BY <1>1, TableFields
<1> SUFFICES ASSUME Place(Top.path, Fld.name, i) \in Places PROVE FALSE
  OBVIOUS
<1>3. /\ Place(Top.path, Fld.name, i) # <<>> /\ Front(Place(Top.path, Fld.name, i)) = Top.path
      /\ Last(Place(Top.path, Fld.name, i))[1] = Fld.name
  BY <1>1, <1>2, PlaceParts
<1>4. PICK x \in DOMAIN Fields[Top.type] :
        Fields[Top.type][x].name = Fld.name /\ Passed(Top.path, x)
  BY <1>1, <1>3 DEF ListInv, Reached
<1>5. x = Top.at
  BY <1>1, <1>2, <1>4 DEF Fld
<1>6. Len(stack) \in DOMAIN stack
  BY <1>1 DEF TypeOK
<1> QED
  BY <1>1, <1>4, <1>5, <1>6 DEF Passed

\* A handler that goes to the next field keeps the arrays whole.
LEMMA ListAdvancesTop ==
  ASSUME IInv, AtField, stack' = Advanced(stack), UNCHANGED <<tables, types>>,
         OnlyStores(Top.path, Fld.name), LeavesWhole(Fld, Top.path, Fld.name)
  PROVE  ListInv'
<1> USE DEF IInv, WalkInv
<1>1. /\ stack # <<>> /\ Top.at \in 1..Len(Fields[Top.type])
      /\ Len(stack) \in Nat \ {0} /\ Top = stack[Len(stack)]
  BY CurrentField, TopTable
<1>2. stack \in Seq(StackTable)
  BY DEF TypeOK
<1>3. /\ Advanced(stack) \in Seq(StackTable) /\ Len(Advanced(stack)) = Len(stack)
      /\ \A k \in 1..(Len(stack) - 1) : Advanced(stack)[k] = stack[k]
      /\ Advanced(stack)[Len(stack)] = [stack[Len(stack)] EXCEPT !.at = @ + 1]
  BY <1>1, <1>2, AdvancedStack
<1>4. Len(stack) \in DOMAIN stack /\ stack[Len(stack)] \in StackTable
  BY <1>1, <1>2
<1>5. /\ [stack[Len(stack)] EXCEPT !.at = @ + 1].path = stack[Len(stack)].path
      /\ [stack[Len(stack)] EXCEPT !.at = @ + 1].rest = stack[Len(stack)].rest
      /\ [stack[Len(stack)] EXCEPT !.at = @ + 1].at = stack[Len(stack)].at + 1
  BY <1>4 DEF StackTable
<1>6. StackAdvances(Len(stack))
  <2>1. DOMAIN stack' = 1..Len(stack)
    BY <1>3
  <2> QED
    BY <1>3, <1>5, <2>1 DEF StackAdvances
<1>7. /\ AtNamed(Len(stack), Top.path, Fld.name)
      /\ Fld = Fields[stack[Len(stack)].type][stack[Len(stack)].at]
      /\ Len(stack) <= Len(stack) + 1
      /\ stack[Len(stack)].at <= Len(Fields[stack[Len(stack)].type])
  <2>1. /\ Top.path = stack[Len(stack)].path
        /\ Fld = Fields[stack[Len(stack)].type][stack[Len(stack)].at]
    BY <1>1 DEF Fld
  <2>2. stack[Len(stack)].at <= Len(Fields[stack[Len(stack)].type])
    BY <1>1 DEF AtField
  <2>3. AtNamed(Len(stack), Top.path, Fld.name)
    BY <2>1 DEF AtNamed
  <2>4. Len(stack) <= Len(stack) + 1
    BY <1>1
  <2> QED
    BY <2>1, <2>2, <2>3, <2>4
<1> QED
  BY <1>4, <1>6, <1>7, ListAdvances

\* What Stored stores, and where it stores nothing.
LEMMA StoredAt ==
  ASSUME NEW E, NEW q \in DOMAIN Stored(E)
  PROVE  \/ q \in DOMAIN data /\ Stored(E)[q] = data[q] /\ q \notin {e[1] : e \in E}
         \/ \E e \in E : e[1] = q /\ Stored(E)[q] = e[2]
<1>1. DOMAIN Stored(E) = DOMAIN data \cup {e[1] : e \in E}
  BY DEF Stored
<1>2. Stored(E)[q] = IF \E e \in E : e[1] = q THEN (CHOOSE e \in E : e[1] = q)[2] ELSE data[q]
  BY <1>1 DEF Stored
<1>3. CASE \E e \in E : e[1] = q
  BY <1>2, <1>3
<1>4. CASE ~\E e \in E : e[1] = q
  BY <1>1, <1>2, <1>4
<1> QED
  BY <1>3, <1>4

\* An enum value is no array, and a map stores nothing.
LEMMA ListSkips ==
  ASSUME IInv, AtField, ~AlwaysStored(Fld), stack' = Advanced(stack),
         UNCHANGED <<tables, types>>,
         data' = data \/ data' = Stored({<<Place(Top.path, Fld.name, 0), Scalar("string")>>})
  PROVE  ListInv'
<1>1. LeavesWhole(Fld, Top.path, Fld.name)
  BY DEF LeavesWhole
<1>2. OnlyStores(Top.path, Fld.name)
  <2>1. CASE data' = data
    BY <2>1 DEF OnlyStores
  <2>2. CASE data' = Stored({<<Place(Top.path, Fld.name, 0), Scalar("string")>>})
    <3> DEFINE E == {<<Place(Top.path, Fld.name, 0), Scalar("string")>>}
    <3>1. \A e \in E : e[1] = Place(Top.path, Fld.name, 0)
      OBVIOUS
    <3>2. 0 \in 0..MaxCount
      BY SchemaAssumption
    <3> HIDE DEF E
    <3>3. data' = Stored(E)
      BY <2>2 DEF E
    <3>4. DOMAIN data \subseteq DOMAIN data'
      BY <3>3 DEF Stored
    <3> QED
      BY <3>1, <3>2, <3>3, <3>4, StoredAt DEF OnlyStores
  <2> QED
    BY <2>1, <2>2
<1> QED
  BY <1>1, <1>2, ListAdvancesTop

\* The places where HandleMessageBaseType stores: those of the field, and for an
\* array of values that are always stored 1 to n.
LEMMA BaseItems ==
  ASSUME NEW p \in Paths, NEW fld, fld.name \in FieldNames,
         NEW n \in 0..MaxCount, ~IsRepeated(fld) => n = 1, NEW text
  PROVE  /\ \A e \in BaseEntries(p, fld, n, text) :
              \E i \in 0..MaxCount :
                 /\ e[1] = Place(p, fld.name, i) /\ (i > 0 => IsRepeated(fld))
                 /\ i = 0 => (e[2].kind = "list" <=> IsRepeated(fld))
         /\ \A e \in BaseEntries(p, fld, n, text) :
              e[1] = Place(p, fld.name, 0) /\ e[2].kind = "list" =>
                IsRepeated(fld) /\ e[2].num = n
         /\ IsRepeated(fld) /\ fld.type \in {"bool", "string", "bytes"} =>
              \A i \in 1..MaxCount :
                 Place(p, fld.name, i) \in {e[1] : e \in BaseEntries(p, fld, n, text)} <=> i <= n
<1>1. /\ 0 \in 0..MaxCount /\ \A i \in 1..n : i \in 0..MaxCount /\ i # 0
      /\ \A i \in 1..MaxCount : i \in 0..MaxCount /\ i # 0 /\ (i <= n <=> i \in 1..n)
  BY SchemaAssumption
<1>2. List(n).kind = "list" /\ List(n).num = n
  BY DEF List
<1>3. \A i, j \in 0..MaxCount : Place(p, fld.name, i) = Place(p, fld.name, j) => i = j
  BY PlacesDiffer
<1> DEFINE E == BaseEntries(p, fld, n, text)
<1>4. CASE IsRepeated(fld)
  <2> DEFINE head == <<Place(p, fld.name, 0), List(n)>>
             items == UNION {{<<Place(p, fld.name, i), v>> : v \in RandomData(fld.type, text[i])}
                               : i \in 1..n}
  <2>1. E = {head} \cup items
    BY <1>4 DEF BaseEntries
  <2>2. head[1] = Place(p, fld.name, 0) /\ head[2] = List(n)
    OBVIOUS
  <2>3. ASSUME NEW e \in items
        PROVE  \E i \in 1..n : e[1] = Place(p, fld.name, i)
    OBVIOUS
  <2>4. ASSUME NEW i \in 1..n, fld.type \in {"bool", "string", "bytes"}
        PROVE  \E e \in items : e[1] = Place(p, fld.name, i)
    <3>1. PICK v \in RandomData(fld.type, text[i]) : TRUE
      BY <2>4, RandomValues
    <3>2. <<Place(p, fld.name, i), v>> \in items
      BY <3>1
    <3>3. <<Place(p, fld.name, i), v>>[1] = Place(p, fld.name, i)
      OBVIOUS
    <3> QED
      BY <3>2, <3>3
  <2> HIDE DEF E, head, items
  <2>5. \A e \in E : \E i \in 0..MaxCount : e[1] = Place(p, fld.name, i)
    BY <1>1, <2>1, <2>2, <2>3
  <2>6. \A e \in E : e[1] = Place(p, fld.name, 0) => e = head
    BY <1>1, <1>3, <2>1, <2>3
  <2>7. ASSUME NEW i \in 1..MaxCount, fld.type \in {"bool", "string", "bytes"}
        PROVE  Place(p, fld.name, i) \in {e[1] : e \in E} <=> i <= n
    <3>1. CASE i \in 1..n
      <4>1. PICK e \in items : e[1] = Place(p, fld.name, i)
        BY <2>4, <2>7, <3>1
      <4> QED
        BY <1>1, <2>1, <3>1, <4>1
    <3>2. CASE i \notin 1..n
      <4>1. \A e \in E : e[1] # Place(p, fld.name, i)
        BY <1>1, <1>3, <2>1, <2>2, <2>3, <3>2
      <4> QED
        BY <1>1, <3>2, <4>1
    <3> QED
      BY <3>1, <3>2
  <2> QED
    BY <1>2, <1>4, <2>2, <2>5, <2>6, <2>7 DEF E
<1>5. CASE ~IsRepeated(fld)
  <2>1. E = {<<Place(p, fld.name, 0), v>> : v \in RandomData(fld.type, text[1])}
    BY <1>5 DEF BaseEntries
  <2>2. \A v \in RandomData(fld.type, text[1]) : v.kind \in ValueKinds \ {"list"}
    BY RandomValues
  <2>3. \A e \in E : e[1] = Place(p, fld.name, 0) /\ e[2].kind # "list"
    BY <2>1, <2>2
  <2> HIDE DEF E
  <2> QED
    BY <1>1, <1>5, <2>3 DEF E
<1> QED
  BY <1>4, <1>5

LEMMA ListBaseType ==
  ASSUME IInv, HandleMessageBaseType PROVE ListInv'
<1> USE DEF IInv, WalkInv
<1>1. /\ AtField /\ Fld.type \notin types /\ stack' = Advanced(stack)
      /\ UNCHANGED <<tables, types>>
      /\ \E n \in Counts(Fld) : \E text \in [1..n -> Texts] :
           data' = Stored(BaseEntries(Top.path, Fld, n, text))
  BY DEF HandleMessageBaseType
<1>2. PICK n \in Counts(Fld) : \E text \in [1..n -> Texts] :
        data' = Stored(BaseEntries(Top.path, Fld, n, text))
  BY <1>1
<1>3. PICK text \in [1..n -> Texts] : data' = Stored(BaseEntries(Top.path, Fld, n, text))
  BY <1>2
<1>4. n \in 0..MaxCount /\ (~IsRepeated(Fld) => n = 1) /\ 0 \in 0..MaxCount
  BY <1>2, SchemaAssumption DEF Counts
<1>5. Top.path \in Paths /\ Fld.name \in FieldNames
  BY <1>1, CurrentField, TopTable DEF StackTable
<1> DEFINE E == BaseEntries(Top.path, Fld, n, text)
           open == Place(Top.path, Fld.name, 0)
<1>6. /\ \A e \in E : \E i \in 0..MaxCount : e[1] = Place(Top.path, Fld.name, i)
      /\ \A e \in E : e[1] = open /\ e[2].kind = "list" => IsRepeated(Fld) /\ e[2].num = n
      /\ IsRepeated(Fld) /\ Fld.type \in {"bool", "string", "bytes"} =>
           \A i \in 1..MaxCount : Place(Top.path, Fld.name, i) \in {e[1] : e \in E} <=> i <= n
  BY <1>4, <1>5, BaseItems
<1> HIDE DEF E
<1>7. data' = Stored(E)
  BY <1>3 DEF E
<1>8. DOMAIN data' = DOMAIN data \cup {e[1] : e \in E}
  BY <1>7 DEF Stored
<1>9. OnlyStores(Top.path, Fld.name)
  BY <1>6, <1>7, <1>8, StoredAt DEF OnlyStores
<1>10. LeavesWhole(Fld, Top.path, Fld.name)
  <2> SUFFICES ASSUME AlwaysStored(Fld), open \in DOMAIN data', data'[open].kind = "list",
                      NEW i \in 1..MaxCount
               PROVE  Place(Top.path, Fld.name, i) \in Places' <=> i <= data'[open].num
    BY DEF LeavesWhole
  <2>1. i \in 0..MaxCount
    BY SchemaAssumption
  <2>2. open \notin Places /\ Place(Top.path, Fld.name, i) \notin Places
    BY <1>1, <1>4, <2>1, FreshField
  <2>3. Fld.type \in {"bool", "string", "bytes"}
    BY <1>1 DEF AlwaysStored
  <2>4. PICK e \in E : e[1] = open /\ data'[open] = e[2]
    BY <1>7, <2>2, StoredAt DEF Places
  <2>5. IsRepeated(Fld) /\ data'[open].num = n
    BY <1>6, <2>4
  <2>6. Place(Top.path, Fld.name, i) \in {x[1] : x \in E} <=> i <= n
    BY <1>6, <2>3, <2>5
  <2>7. Place(Top.path, Fld.name, i) \in Places' <=> Place(Top.path, Fld.name, i) \in {x[1] : x \in E}
    BY <1>1, <1>8, <2>2 DEF Places
  <2> QED
    BY <2>5, <2>6, <2>7
<1> QED
  BY <1>1, <1>9, <1>10, ListAdvancesTop

LEMMA ListNestType ==
  ASSUME IInv, HandleMessageNestType PROVE ListInv'
<1> USE DEF IInv, WalkInv
<1> DEFINE sub == SubTable(Top.path, Fld.name, 1)
           open == Place(Top.path, Fld.name, 0)
<1>1. /\ AtField /\ Fld.type \in types /\ Kind[Fld.type] = "message" /\ types' = types
      /\ \E n \in Counts(Fld) :
           /\ data' = Written(data, open, List(n))
           /\ IF n = 0
              THEN stack' = Advanced(stack) /\ UNCHANGED tables
              ELSE /\ stack' = Nested(stack, Fld.type, sub, n)
                   /\ tables' = Written(tables, sub, Fld.type)
  BY DEF HandleMessageNestType
<1>2. PICK n \in Counts(Fld) :
        /\ data' = Written(data, open, List(n))
        /\ IF n = 0
           THEN stack' = Advanced(stack) /\ UNCHANGED tables
           ELSE /\ stack' = Nested(stack, Fld.type, sub, n)
                /\ tables' = Written(tables, sub, Fld.type)
  BY <1>1
<1>3. /\ n \in 0..MaxCount /\ 0 \in 0..MaxCount /\ 1 \in 1..MaxCount
      /\ \A i \in 1..MaxCount : i \in 0..MaxCount /\ i # 0 /\ ~(i <= 0) /\ ~(i < 1)
  BY <1>2, SchemaAssumption DEF Counts
<1>4. Top.path \in Paths /\ Fld.name \in FieldNames /\ Fld.type \in Types
  BY <1>1, CurrentField, TopTable DEF StackTable, TypeOK
<1>5. AlwaysStored(Fld)
  BY <1>1 DEF AlwaysStored
<1>6. /\ DOMAIN data' = DOMAIN data \cup {open} /\ data'[open] = List(n)
      /\ \A q \in DOMAIN data : q # open => data'[q] = data[q]
  BY <1>2 DEF Written
<1>7. List(n).kind = "list" /\ List(n).num = n
  BY DEF List
<1>8. \A i \in 1..MaxCount : Place(Top.path, Fld.name, i) \notin Places
                             /\ Place(Top.path, Fld.name, i) # open
  BY <1>1, <1>3, <1>4, FreshField, PlacesDiffer
<1>9. CASE n = 0
  <2>1. stack' = Advanced(stack) /\ UNCHANGED <<tables, types>>
    BY <1>1, <1>2, <1>9
  <2>2. OnlyStores(Top.path, Fld.name)
    BY <1>3, <1>6 DEF OnlyStores
  <2>3. \A i \in 1..MaxCount : Place(Top.path, Fld.name, i) \notin Places'
    BY <1>6, <1>8, <2>1 DEF Places
  <2>4. LeavesWhole(Fld, Top.path, Fld.name)
    BY <1>3, <1>6, <1>7, <1>9, <2>3 DEF LeavesWhole
  <2> QED
    BY <1>1, <2>1, <2>2, <2>4, ListAdvancesTop
<1>10. CASE n # 0
  <2>1. /\ stack \in Seq(StackTable) /\ stack # <<>> /\ Len(stack) \in Nat \ {0}
        /\ Top = stack[Len(stack)] /\ Len(stack) \in DOMAIN stack
    BY <1>1, CurrentField, TopTable DEF TypeOK
  <2>2. n \in 1..MaxCount /\ sub \in Paths
    BY <1>3, <1>4, <1>10, PlacePath DEF SubTable
  <2>3. stack' = Nested(stack, Fld.type, sub, n) /\ tables' = Written(tables, sub, Fld.type)
    BY <1>2, <1>10
  <2> HIDE DEF sub
  <2>4. StackGrows(Len(stack), sub) /\ stack'[Len(stack) + 1].rest = n - 1
    <3> DEFINE s == Nested(stack, Fld.type, sub, n)
    <3>1. /\ s \in Seq(StackTable) /\ Len(s) = Len(stack) + 1
          /\ \A k \in 1..Len(stack) : s[k] = stack[k]
          /\ s[Len(stack) + 1] = [type |-> Fld.type, path |-> sub, at |-> 1, rest |-> n - 1]
      <4>1. stack \in Seq(StackTable) /\ Fld.type \in Types
        BY <1>4, <2>1
      <4> QED
        BY <4>1, <2>2, NestedStack
    <3> HIDE DEF s
    <3>2. stack' = s
      BY <2>3 DEF s
    <3>3. s[Len(stack) + 1].path = sub /\ s[Len(stack) + 1].rest = n - 1
      BY <3>1
    <3>4. DOMAIN s = 1..(Len(stack) + 1)
      BY <3>1
    <3> QED
      BY <3>1, <3>2, <3>3, <3>4 DEF StackGrows
  <2>5. TablesGrow(sub)
    BY <1>4, <2>3 DEF Written, TablesGrow
  <2>6. DataGrows(open, Len(stack), 1)
    <3>1. n - (n - 1) = 1
      BY <1>3
    <3> QED
      BY <1>6, <1>7, <2>4, <3>1 DEF DataGrows
  <2>7. Filled(Len(stack), Top.path, Fld.name, open, 1, sub)
    BY <1>3, <1>5, <1>8, <2>1 DEF Filled, AtNamed, Fld, sub, SubTable
  <2>8. Len(stack) <= Len(stack) + 1 /\ stack[Len(stack)].at <= Len(Fields[stack[Len(stack)].type])
    BY <1>1, <2>1 DEF AtField
  <2> QED
    BY <1>1, <1>3, <2>1, <2>4, <2>5, <2>6, <2>7, <2>8, ListPushes
<1> QED
  BY <1>9, <1>10

\* A nested table at its end: the array it is in and the loop that fills it.
LEMMA LoopBelow ==
  ASSUME IInv, AtEnd, Len(stack) > 1, NEW m, m = Len(stack) - 1,
         NEW path, path = Front(Top.path), NEW name, name = Last(Top.path)[1],
         NEW made, made = Last(Top.path)[2]
  PROVE  /\ m \in DOMAIN stack /\ m \in Nat \ {0} /\ Len(stack) = m + 1
         /\ stack[m].at <= Len(Fields[stack[m].type]) /\ AtNamed(m, path, name)
         /\ path \in Paths /\ name \in FieldNames
         /\ AlwaysStored(Fields[stack[m].type][stack[m].at])
         /\ Place(path, name, 0) \in DOMAIN data /\ data[Place(path, name, 0)].kind = "list"
         /\ made = data[Place(path, name, 0)].num - Top.rest /\ made \in 1..MaxCount
         /\ Top.rest \in 0..MaxCount /\ data[Place(path, name, 0)].num \in 0..MaxCount
         /\ \A i \in 1..MaxCount : Place(path, name, i) \in Places <=> i <= made
<1> USE DEF IInv, WalkInv
<1>1. /\ stack \in Seq(StackTable) /\ Len(stack) \in Nat \ {0}
      /\ Top = stack[Len(stack)] /\ Top \in StackTable
  BY TableDone
<1>2. m \in Nat \ {0} /\ Len(stack) = m + 1 /\ m \in DOMAIN stack /\ m < Len(stack)
  BY <1>1
<1>3. stack[m].at <= Len(Fields[stack[m].type]) /\ OpenPlace(m) \in DOMAIN data
  BY <1>2 DEF Asked
<1>4. FillingAt(m)
  BY <1>2 DEF ListInv, Filling
<1> DEFINE p == stack[m].path
           n == Fields[stack[m].type][stack[m].at].name
           c == data[OpenPlace(m)].num - Top.rest
<1>5. p \in Paths /\ n \in FieldNames
  BY <1>2, <1>3, StackField
<1>6. /\ AlwaysStored(Fields[stack[m].type][stack[m].at]) /\ data[OpenPlace(m)].kind = "list"
      /\ c \in 1..MaxCount /\ Top.path = Place(p, n, c)
      /\ \A i \in 1..MaxCount : Place(p, n, i) \in Places <=> i <= c
  BY <1>1, <1>2, <1>4 DEF FillingAt, Elements
<1>7. OpenPlace(m) = Place(p, n, 0)
  BY DEF OpenPlace
<1> HIDE DEF p, n, c
<1>8. p = path /\ n = name /\ c = made
  <2>1. c \in 0..MaxCount
    BY <1>6, SchemaAssumption
  <2> QED
    BY <1>5, <1>6, <2>1, PlaceParts
<1>9. AtNamed(m, path, name)
  BY <1>8 DEF AtNamed, p, n
<1>10. Top.rest \in 0..MaxCount /\ data[OpenPlace(m)].num \in 0..MaxCount
  BY <1>1, <1>3 DEF StackTable, TypeOK
<1>11. made = data[OpenPlace(m)].num - Top.rest
  BY <1>8 DEF c
<1> QED
  BY <1>2, <1>3, <1>5, <1>6, <1>7, <1>8, <1>9, <1>10, <1>11

LEMMA ListNextSibling ==
  ASSUME IInv, NextSibling PROVE ListInv'
<1> USE DEF IInv, WalkInv
<1> DEFINE m    == Len(stack) - 1
           path == Front(Top.path)
           name == Last(Top.path)[1]
           made == Last(Top.path)[2]
           open == Place(path, name, 0)
           next == Place(path, name, made + 1)
<1>1. /\ AtEnd /\ Top.rest > 0
      /\ stack' = Nested(Front(stack), Top.type, next, Top.rest)
      /\ tables' = Written(tables, next, Top.type)
      /\ UNCHANGED <<types, data>>
  BY DEF NextSibling, SubTable
<1>2. /\ stack \in Seq(StackTable) /\ stack # <<>> /\ Len(stack) \in Nat \ {0}
      /\ Top = stack[Len(stack)] /\ Top \in StackTable
      /\ Front(stack) \in Seq(StackTable) /\ Len(Front(stack)) = m
      /\ \A k \in 1..Len(Front(stack)) : Front(stack)[k] = stack[k]
  BY <1>1, TableDone
<1>3. Len(stack) > 1
  BY <1>1, <1>2 DEF StackOK
<1>4. /\ m \in DOMAIN stack /\ m \in Nat \ {0} /\ Len(stack) = m + 1
      /\ stack[m].at <= Len(Fields[stack[m].type]) /\ AtNamed(m, path, name)
      /\ path \in Paths /\ name \in FieldNames
      /\ AlwaysStored(Fields[stack[m].type][stack[m].at])
      /\ open \in DOMAIN data /\ data[open].kind = "list"
      /\ made = data[open].num - Top.rest /\ made \in 1..MaxCount
      /\ Top.rest \in 0..MaxCount /\ data[open].num \in 0..MaxCount
      /\ \A i \in 1..MaxCount : Place(path, name, i) \in Places <=> i <= made
  BY <1>1, <1>3, LoopBelow
<1> HIDE DEF m, path, name, made
<1>5. /\ made + 1 \in 1..MaxCount /\ made + 1 \in 0..MaxCount /\ Top.rest \in 1..MaxCount
      /\ data[open].num - (Top.rest - 1) = made + 1
      /\ \A i \in 1..MaxCount : i <= made <=> i < made + 1
  <2> DEFINE num == data[open].num
             rest == Top.rest
  <2>1. made = num - rest /\ num \in 0..MaxCount /\ rest \in 0..MaxCount /\ rest > 0
        /\ made \in 1..MaxCount /\ MaxCount \in Nat
    BY <1>1, <1>4, SchemaAssumption
  <2> HIDE DEF num, rest
  <2>2. /\ made + 1 \in 1..MaxCount /\ made + 1 \in 0..MaxCount /\ rest \in 1..MaxCount
        /\ num - (rest - 1) = made + 1
    BY <2>1
  <2>3. \A i \in 1..MaxCount : i <= made <=> i < made + 1
    BY <2>1
  <2> QED
    BY <2>2, <2>3 DEF num, rest
<1>6. next \in Paths /\ Top.type \in Types
  <2>1. Top.type \in Types
    BY <1>2 DEF StackTable
  <2> QED
    BY <1>4, <1>5, <2>1, PlacePath
<1> HIDE DEF next
<1>7. StackGrows(m, next) /\ stack'[m + 1].rest = Top.rest - 1
  <2> DEFINE below == Front(stack)
             type  == Top.type
             rest  == Top.rest
             s     == Nested(below, type, next, rest)
  <2>1. /\ s \in Seq(StackTable) /\ Len(s) = m + 1
        /\ \A k \in 1..m : s[k] = Front(stack)[k]
        /\ s[m + 1] = [type |-> Top.type, path |-> next, at |-> 1, rest |-> Top.rest - 1]
    <3>1. below \in Seq(StackTable) /\ type \in Types /\ next \in Paths /\ rest \in 1..MaxCount
      BY <1>2, <1>5, <1>6
    <3> HIDE DEF below, type, rest
    <3>2. /\ s \in Seq(StackTable) /\ Len(s) = Len(below) + 1
          /\ \A k \in 1..Len(below) : s[k] = below[k]
          /\ s[Len(below) + 1] = [type |-> type, path |-> next, at |-> 1, rest |-> rest - 1]
      BY <3>1, NestedStack
    <3> HIDE DEF s
    <3> QED
      BY <1>2, <3>2 DEF below, type, rest
  <2> HIDE DEF s
  <2>2. stack' = s
    BY <1>1 DEF s
  <2>3. s[m + 1].path = next /\ s[m + 1].rest = Top.rest - 1
    BY <2>1
  <2>4. DOMAIN s = 1..(m + 1) /\ \A k \in 1..m : s[k] = stack[k]
    BY <1>2, <2>1
  <2> QED
    BY <2>1, <2>2, <2>3, <2>4 DEF StackGrows
<1>8. TablesGrow(next)
  BY <1>1, <1>6 DEF Written, TablesGrow
<1>9. DataGrows(open, m, made + 1)
  BY <1>1, <1>4, <1>5, <1>7 DEF DataGrows
<1>10. Filled(m, path, name, open, made + 1, next)
  BY <1>4, <1>5 DEF Filled, next
<1> HIDE DEF open
<1>11. Len(stack) <= m + 1
  BY <1>4
<1> QED
  BY <1>1, <1>4, <1>5, <1>7, <1>8, <1>9, <1>10, <1>11, ListPushes

LEMMA ListReturnNested ==
  ASSUME IInv, ReturnNested PROVE ListInv'
<1> USE DEF IInv, WalkInv
<1> DEFINE m    == Len(stack) - 1
           path == Front(Top.path)
           name == Last(Top.path)[1]
           made == Last(Top.path)[2]
           open == Place(path, name, 0)
<1>1. /\ AtEnd /\ Top.rest = 0 /\ Len(stack) > 1 /\ stack' = Advanced(Front(stack))
      /\ UNCHANGED <<tables, types, data>>
  BY DEF ReturnNested
<1>2. /\ Front(stack) \in Seq(StackTable) /\ Len(Front(stack)) = m
      /\ \A k \in 1..Len(Front(stack)) : Front(stack)[k] = stack[k]
  BY <1>1, TableDone
<1>3. /\ m \in DOMAIN stack /\ m \in Nat \ {0} /\ Len(stack) = m + 1
      /\ stack[m].at <= Len(Fields[stack[m].type]) /\ AtNamed(m, path, name)
      /\ path \in Paths /\ name \in FieldNames
      /\ AlwaysStored(Fields[stack[m].type][stack[m].at])
      /\ open \in DOMAIN data /\ data[open].kind = "list"
      /\ made = data[open].num - Top.rest /\ made \in 1..MaxCount
      /\ Top.rest \in 0..MaxCount /\ data[open].num \in 0..MaxCount
      /\ \A i \in 1..MaxCount : Place(path, name, i) \in Places <=> i <= made
  BY <1>1, LoopBelow
<1> HIDE DEF m, path, name, made
<1>4. StackAdvances(m)
  <2> DEFINE s == Advanced(Front(stack))
             top == Front(stack)[m]
  <2>1. /\ s \in Seq(StackTable) /\ Len(s) = m
        /\ \A k \in 1..(m - 1) : s[k] = Front(stack)[k]
        /\ s[m] = [top EXCEPT !.at = @ + 1]
    <3>1. Front(stack) # <<>>
      BY <1>2, <1>3
    <3> QED
      BY <1>2, <3>1, AdvancedStack
  <2>2. m \in 1..m /\ top = stack[m] /\ top \in StackTable
    BY <1>2, <1>3
  <2>3. \A k \in 1..(m - 1) : Front(stack)[k] = stack[k]
    BY <1>2, <1>3
  <2> HIDE DEF s, top
  <2>4. s[m].path = top.path /\ s[m].rest = top.rest /\ s[m].at = top.at + 1
    BY <2>1, <2>2 DEF StackTable
  <2>5. stack' = s /\ DOMAIN s = 1..m
    BY <1>1, <2>1 DEF s
  <2> QED
    BY <2>1, <2>2, <2>3, <2>4, <2>5 DEF StackAdvances
<1>5. OnlyStores(path, name)
  BY <1>1 DEF OnlyStores
<1>6. made = data[open].num
  BY <1>1, <1>3
<1>7. LeavesWhole(Fields[stack[m].type][stack[m].at], path, name)
  BY <1>1, <1>3, <1>6 DEF LeavesWhole, Places
<1>8. Len(stack) <= m + 1
  BY <1>3
<1> HIDE DEF open
<1> QED
  BY <1>1, <1>3, <1>4, <1>5, <1>7, <1>8, ListAdvances

LEMMA ListReturnMessage ==
  ASSUME IInv, ReturnMessage PROVE ListInv'
<1>1. Len(stack) = 1 /\ stack' = <<>> /\ UNCHANGED <<types, tables, data>>
  BY DEF ReturnMessage
<1>2. /\ DOMAIN stack' = {} /\ Places' = Places
      /\ \A k \in DOMAIN stack : ~(k < Len(stack))
  BY <1>1 DEF IInv, WalkInv, TypeOK, Places
<1>3. Reached'
  BY <1>1, <1>2 DEF IInv, ListInv, Reached, Passed
<1>4. Whole'
  BY <1>1, <1>2 DEF IInv, ListInv, Whole, InLoop, AlwaysStored, Elements
<1>5. Filling'
  BY <1>2 DEF Filling
<1> QED
  BY <1>3, <1>4, <1>5 DEF ListInv

\* Before the walk begins nothing is stored.
LEMMA ListFindMessage ==
  ASSUME IInv, NEW t \in Types, FindMessage(t) PROVE ListInv'
<1> USE DEF IInv, WalkInv
<1>1. /\ stage = "message" /\ stack' = Nested(<<>>, t, <<>>, 1)
      /\ tables' = Written(tables, <<>>, t) /\ UNCHANGED <<types, data>>
  BY DEF FindMessage
<1>2. stack = <<>> /\ DOMAIN tables = {}
  BY <1>1 DEF StackOK
<1>3. Places \subseteq {<<>>}
  BY <1>2 DEF ListInv, Reached
<1>4. DOMAIN tables' = {<<>>} /\ tables'[<<>>] = t /\ Places' = {<<>>}
  BY <1>1, <1>2, <1>3 DEF Written, Places
<1>5. Reached'
  BY <1>4 DEF Reached
<1>6. Len(stack') = 1
  BY <1>1 DEF Nested
<1>7. Filling'
  <2>1. \A k \in DOMAIN stack' : ~(k < Len(stack'))
    <3>1. DOMAIN stack' = {1}
      BY <1>1 DEF Nested
    <3> QED
      BY <1>6, <3>1
  <2> QED
    BY <2>1 DEF Filling
<1>8. Whole'
  <2>1. <<>> \in Paths /\ 0 \in 0..MaxCount
    BY SchemaAssumption DEF Paths
  <2>2. ASSUME NEW i \in DOMAIN Fields[t] PROVE Place(<<>>, Fields[t][i].name, 0) \notin Places'
    <3>1. Fields[t] \in Seq(FieldRecords)
      BY SchemaAssumption
    <3>2. Fields[t][i].name \in FieldNames
      BY <3>1 DEF FieldNames
    <3>3. Place(<<>>, Fields[t][i].name, 0) # <<>>
      BY <2>1, <3>2, PlaceParts
    <3> QED
      BY <1>4, <3>3
  <2> QED
    BY <1>4, <2>2 DEF Whole, Places
<1> QED
  BY <1>5, <1>7, <1>8 DEF ListInv

\* Types are loaded before there is a table, by a load_file that succeeds or fails.
LEMMA ListLoadFile ==
  ASSUME IInv, (\E f \in Files : LoadFile(f)) \/ LoadFileFails PROVE ListInv'
<1>1. stage = "file" /\ UNCHANGED <<stack, tables, data>>
  BY DEF LoadFile, LoadFileFails
<1>2. stack = <<>> /\ tables = <<>> /\ DOMAIN stack = {} /\ DOMAIN tables = {}
  BY <1>1 DEF IInv, WalkInv, StackOK
<1>3. Reached'
  BY <1>1 DEF IInv, ListInv, Reached, Passed, Places
<1>4. Whole'
  BY <1>1, <1>2 DEF Whole
<1>5. Filling'
  BY <1>1, <1>2 DEF Filling
<1> QED
  BY <1>3, <1>4, <1>5 DEF ListInv

LEMMA ListUnchanged ==
  ASSUME IInv, UNCHANGED <<types, stack, tables, data>> PROVE ListInv'
<1>1. Reached'
  BY DEF IInv, ListInv, Reached, Passed, Places
<1>2. Whole'
  BY DEF IInv, ListInv, Whole, InLoop, AlwaysStored, Elements, Places
<1>3. ASSUME NEW k \in DOMAIN stack, FillingAt(k) PROVE FillingAt(k)'
  BY <1>3 DEF FillingAt, OpenPlace, AlwaysStored, Elements, Places
<1>4. Filling'
  BY <1>3 DEF IInv, ListInv, Filling
<1> QED
  BY <1>1, <1>2, <1>4 DEF ListInv

-----------------------------------------------------------------------------
\* Nothing is stored but the field f of the table at path: an array if its handler
\* makes one, and elements only if it is repeated.
StoresShaped(path, f) ==
  \A p \in DOMAIN data' :
     \/ p \in DOMAIN data /\ data'[p] = data[p]
     \/ \E i \in 0..MaxCount : /\ p = Place(path, f.name, i) /\ (i > 0 => IsRepeated(f))
                               /\ i = 0 => HasShape(data'[p], f)

\* No table is made, or one that is a new element of the message field f.
MakesElement(path, f) ==
  \/ tables' = tables
  \/ \E c \in 1..MaxCount :
       /\ Place(path, f.name, c) \notin DOMAIN tables
       /\ f.type \in Types /\ Kind[f.type] = "message"
       /\ tables' = Written(tables, Place(path, f.name, c), f.type)

\* A handler's step keeps what pb.encode's walk relies on.
LEMMA WireStep ==
  ASSUME IInv, stage # "over", NEW path \in DOMAIN tables, NEW f \in FieldsOf(tables[path]),
         StoresShaped(path, f), MakesElement(path, f), UNCHANGED <<types, message, result>>
  PROVE  WireInv'
<1>1. /\ path \in Paths /\ f.name \in FieldNames
      /\ \A g \in FieldsOf(tables[path]) : g.name \in FieldNames /\ (g.name = f.name => g = f)
  BY TableFields DEF IInv, WalkInv, FieldsOf
<1>2. \A p \in DOMAIN tables \ {<<>>} : Front(p) \in DOMAIN tables
  BY DEF IInv, ListInv, Reached, Places
<1>3. \A p \in DOMAIN data : p # <<>> /\ Front(p) \in DOMAIN tables
  BY DEF IInv, ListInv, WireInv, Placed, Reached, Places
<1>4. \A i \in 0..MaxCount : /\ Place(path, f.name, i) # <<>>
                             /\ Front(Place(path, f.name, i)) = path
                             /\ Last(Place(path, f.name, i))[1] = f.name
                             /\ Last(Place(path, f.name, i))[2] = i
  BY <1>1, PlaceParts
<1>5. /\ DOMAIN tables \subseteq DOMAIN tables'
      /\ \A q \in DOMAIN tables : tables'[q] = tables[q]
      /\ \A q \in DOMAIN tables' : q \in DOMAIN tables \/
           \E c \in 1..MaxCount : /\ q = Place(path, f.name, c) /\ q \notin DOMAIN tables
                                  /\ f.type \in Types /\ Kind[f.type] = "message"
                                  /\ tables'[q] = f.type
  BY DEF MakesElement, Written
<1>6. MaxCount \in Nat /\ \A c \in 1..MaxCount : c \in 0..MaxCount /\ c > 0
  BY SchemaAssumption
<1>7. Placed'
  <2>1. <<>> \in DOMAIN tables' => tables'[<<>>] = message'
    BY <1>4, <1>5, <1>6 DEF IInv, WireInv, Placed
  <2>2. ASSUME NEW q \in DOMAIN tables', q # <<>>
        PROVE  \E g \in FieldsOf(tables'[Front(q)]) :
                 /\ g.name = Last(q)[1] /\ Last(q)[2] > 0
                 /\ g.type = tables'[q] /\ Kind[g.type] = "message"
    <3>1. CASE q \in DOMAIN tables
      <4>1. Front(q) \in DOMAIN tables /\ tables'[Front(q)] = tables[Front(q)]
            /\ tables'[q] = tables[q]
        BY <1>2, <1>5, <2>2, <3>1
      <4>2. PICK g \in FieldsOf(tables[Front(q)]) :
              /\ g.name = Last(q)[1] /\ Last(q)[2] > 0
              /\ g.type = tables[q] /\ Kind[g.type] = "message"
        BY <2>2, <3>1 DEF IInv, WireInv, Placed
      <4> QED
        BY <4>1, <4>2
    <3>2. CASE q \notin DOMAIN tables
      <4>1. PICK c \in 1..MaxCount : /\ q = Place(path, f.name, c)
                                     /\ Kind[f.type] = "message" /\ tables'[q] = f.type
        BY <1>5, <2>2, <3>2
      <4>2. Front(q) = path /\ Last(q)[1] = f.name /\ Last(q)[2] > 0
        BY <1>4, <1>6, <4>1
      <4>3. f \in FieldsOf(tables'[Front(q)])
        BY <1>5, <4>2
      <4> QED
        BY <4>1, <4>2, <4>3
    <3> QED
      BY <3>1, <3>2
  <2>3. ASSUME NEW p \in DOMAIN data'
        PROVE  /\ p # <<>>
               /\ Last(p)[2] > 0 => \E g \in FieldsOf(tables'[Front(p)]) :
                                      g.name = Last(p)[1] /\ IsRepeated(g)
    <3>1. CASE p \in DOMAIN data
      <4>1. p # <<>> /\ tables'[Front(p)] = tables[Front(p)]
        BY <1>3, <1>5, <3>1
      <4> QED
        BY <3>1, <4>1 DEF IInv, WireInv, Placed
    <3>2. CASE \E i \in 0..MaxCount : p = Place(path, f.name, i) /\ (i > 0 => IsRepeated(f))
      BY <1>4, <1>5, <3>2
    <3> QED
      BY <3>1, <3>2 DEF StoresShaped
  <2> QED
    BY <2>1, <2>2, <2>3 DEF Placed
<1>8. Shaped'
  <2> SUFFICES ASSUME NEW t \in DOMAIN tables', NEW g \in FieldsOf(tables'[t]),
                      Place(t, g.name, 0) \in DOMAIN data'
               PROVE  HasShape(data'[Place(t, g.name, 0)], g)
    BY DEF Shaped, HasShape, Arrayed
  <2> DEFINE p == Place(t, g.name, 0)
  <2>1. t \in Paths /\ g.name \in FieldNames /\ 0 \in 0..MaxCount
    <3>1. CASE t \in DOMAIN tables
      BY <1>5, <1>6, <3>1, TableFields DEF IInv, WalkInv, FieldsOf
    <3>2. CASE t \notin DOMAIN tables
      <4>1. PICK c \in 1..MaxCount :
              t = Place(path, f.name, c) /\ tables'[t] = f.type /\ f.type \in Types
        BY <1>5, <3>2
      <4>2. t \in Paths
        BY <1>1, <1>6, <4>1, PlacePath
      <4>3. g \in FieldRecords
        BY <4>1 DEF FieldsOf, FieldRecords
      <4> QED
        BY <1>6, <4>2, <4>3 DEF FieldNames
    <3> QED
      BY <3>1, <3>2
  <2>2. CASE p \in DOMAIN data /\ data'[p] = data[p]
    <3>1. Front(p) = t
      BY <2>1, PlaceParts
    <3>2. t \in DOMAIN tables /\ tables'[t] = tables[t]
      BY <1>3, <1>5, <2>2, <3>1
    <3> QED
      BY <2>2, <3>2 DEF IInv, WireInv, Shaped
  <2>3. ASSUME NEW i \in 0..MaxCount, p = Place(path, f.name, i),
               i = 0 => HasShape(data'[p], f)
        PROVE  HasShape(data'[p], g)
    <3>1. t = path /\ g.name = f.name /\ i = 0
      BY <1>1, <2>1, <2>3, PlacesDiffer
    <3>2. g = f
      BY <1>1, <1>5, <3>1
    <3> QED
      BY <2>3, <3>1, <3>2
  <2> QED
    BY <2>2, <2>3 DEF StoresShaped
<1>9. Encoded'
  BY DEF IInv, WireInv, Encoded
<1> QED
  BY <1>7, <1>8, <1>9 DEF WireInv

\* The field the walk is at, as a field of its table.
LEMMA WireField ==
  ASSUME IInv, AtField
  PROVE  /\ Top.path \in DOMAIN tables /\ Fld \in FieldsOf(tables[Top.path])
         /\ stage # "over" /\ Top.path \in Paths /\ Fld.name \in FieldNames
<1> USE DEF IInv, WalkInv
<1>1. /\ stack # <<>> /\ Top.at \in 1..Len(Fields[Top.type]) /\ Fld.name \in FieldNames
      /\ Top.path \in DOMAIN tables /\ tables[Top.path] = Top.type
  BY CurrentField, TopTable
<1>2. DOMAIN Fields[Top.type] = 1..Len(Fields[Top.type]) /\ Top.path \in Paths
  BY <1>1, TableFields
<1> QED
  BY <1>1, <1>2 DEF AtField, Fld, FieldsOf

LEMMA WireBaseType ==
  ASSUME IInv, HandleMessageBaseType PROVE WireInv'
<1>1. /\ AtField /\ Fld.type \notin types /\ UNCHANGED <<tables, types, message, result>>
      /\ \E n \in Counts(Fld) : \E text \in [1..n -> Texts] :
           data' = Stored(BaseEntries(Top.path, Fld, n, text))
  BY DEF HandleMessageBaseType
<1>2. PICK n \in Counts(Fld) : \E text \in [1..n -> Texts] :
        data' = Stored(BaseEntries(Top.path, Fld, n, text))
  BY <1>1
<1>3. PICK text \in [1..n -> Texts] : data' = Stored(BaseEntries(Top.path, Fld, n, text))
  BY <1>2
<1>4. n \in 0..MaxCount /\ (~IsRepeated(Fld) => n = 1)
  BY <1>2, SchemaAssumption DEF Counts
<1>5. Top.path \in Paths /\ Fld.name \in FieldNames
  BY <1>1, WireField
<1> DEFINE E == BaseEntries(Top.path, Fld, n, text)
<1>6. \A e \in E : \E i \in 0..MaxCount :
         /\ e[1] = Place(Top.path, Fld.name, i) /\ (i > 0 => IsRepeated(Fld))
         /\ i = 0 => (e[2].kind = "list" <=> IsRepeated(Fld))
  BY <1>4, <1>5, BaseItems
<1> HIDE DEF E
<1>7. data' = Stored(E)
  BY <1>3 DEF E
<1>8. \A v : (v.kind = "list" <=> IsRepeated(Fld)) => HasShape(v, Fld)
  BY <1>1 DEF HasShape, Arrayed
<1>9. StoresShaped(Top.path, Fld)
  BY <1>6, <1>7, <1>8, StoredAt DEF StoresShaped
<1> QED
  BY <1>1, <1>9, WireField, WireStep DEF MakesElement

\* An enum value is no array, and a map stores nothing.
LEMMA WireSkips ==
  ASSUME IInv, AtField, UNCHANGED <<tables, types, message, result>>,
         Fld.type \in types, Kind[Fld.type] # "message",
         \/ data' = data
         \/ /\ Kind[Fld.type] = "enum"
            /\ data' = Stored({<<Place(Top.path, Fld.name, 0), Scalar("string")>>})
  PROVE  WireInv'
<1>1. StoresShaped(Top.path, Fld)
  <2>1. CASE data' = data
    BY <2>1 DEF StoresShaped
  <2>2. CASE /\ Kind[Fld.type] = "enum"
             /\ data' = Stored({<<Place(Top.path, Fld.name, 0), Scalar("string")>>})
    <3> DEFINE E == {<<Place(Top.path, Fld.name, 0), Scalar("string")>>}
    <3>1. \A e \in E : e[1] = Place(Top.path, Fld.name, 0) /\ HasShape(e[2], Fld)
      BY <2>2 DEF Scalar, HasShape, Arrayed
    <3>2. 0 \in 0..MaxCount /\ ~(0 > 0)
      BY SchemaAssumption
    <3> HIDE DEF E
    <3>3. data' = Stored(E)
      BY <2>2 DEF E
    <3> QED
      BY <3>1, <3>2, <3>3, StoredAt DEF StoresShaped
  <2> QED
    BY <2>1, <2>2
<1> QED
  BY <1>1, WireField, WireStep DEF MakesElement

LEMMA WireNestType ==
  ASSUME IInv, HandleMessageNestType PROVE WireInv'
<1> DEFINE sub  == SubTable(Top.path, Fld.name, 1)
           open == Place(Top.path, Fld.name, 0)
<1>1. /\ AtField /\ Fld.type \in types /\ Kind[Fld.type] = "message"
      /\ UNCHANGED <<types, message, result>>
      /\ \E n \in Counts(Fld) :
           /\ data' = Written(data, open, List(n))
           /\ tables' = tables \/ tables' = Written(tables, sub, Fld.type)
  BY DEF HandleMessageNestType
<1>2. PICK n \in Counts(Fld) : /\ data' = Written(data, open, List(n))
                               /\ tables' = tables \/ tables' = Written(tables, sub, Fld.type)
  BY <1>1
<1>3. 0 \in 0..MaxCount /\ ~(0 > 0) /\ 1 \in 1..MaxCount /\ 1 \in 0..MaxCount
  BY SchemaAssumption
<1>4. StoresShaped(Top.path, Fld)
  <2>1. HasShape(List(n), Fld)
    BY <1>1 DEF HasShape, Arrayed, List
  <2> QED
    BY <1>2, <1>3, <2>1 DEF StoresShaped, Written
<1>5. MakesElement(Top.path, Fld)
  <2>1. sub = Place(Top.path, Fld.name, 1) /\ sub \notin DOMAIN tables
    BY <1>1, <1>3, FreshField DEF SubTable, Places
  <2>2. Fld.type \in Types
    BY <1>1 DEF IInv, WalkInv, TypeOK
  <2> QED
    BY <1>1, <1>2, <1>3, <2>1, <2>2 DEF MakesElement
<1> QED
  BY <1>1, <1>4, <1>5, WireField, WireStep

\* Where NextSibling puts the next element.
NextPlace == Place(Front(Top.path), Last(Top.path)[1], Last(Top.path)[2] + 1)

\* A table that others follow is an element of an array, and the next place in the
\* array is free.
LEMMA NextIsFree ==
  ASSUME IInv, NextSibling
  PROVE  /\ NextPlace \notin Places /\ Last(Top.path)[2] + 1 \in 1..MaxCount
         /\ Top.path # <<>> /\ Front(Top.path) \in DOMAIN tables
         /\ Top.path \in DOMAIN tables /\ tables[Top.path] = Top.type
<1> DEFINE path == Front(Top.path)
           name == Last(Top.path)[1]
           made == Last(Top.path)[2]
<1>1. AtEnd /\ Top.rest > 0
  BY DEF NextSibling
<1>2. /\ Len(stack) \in Nat \ {0} /\ Top = stack[Len(stack)] /\ Len(stack) \in DOMAIN stack
      /\ Top.path \in DOMAIN tables /\ tables[Top.path] = Top.type
  BY <1>1, TableDone DEF IInv, WalkInv, TypeOK
<1>3. Len(stack) > 1
  BY <1>1, <1>2 DEF IInv, WalkInv, StackOK
<1>4. Top.path # <<>> /\ path \in DOMAIN tables
  <2>1. Len(Top.path) = Len(stack) - 1
    BY <1>2 DEF IInv, WalkInv, StackOK
  <2>2. Top.path # <<>>
    BY <1>2, <1>3, <2>1
  <2> QED
    BY <1>2, <2>2 DEF IInv, ListInv, Reached, Places
<1>5. /\ made \in 1..MaxCount /\ Top.rest \in 0..MaxCount
      /\ made = data[Place(path, name, 0)].num - Top.rest
      /\ data[Place(path, name, 0)].num \in 0..MaxCount
      /\ \A i \in 1..MaxCount : Place(path, name, i) \in Places <=> i <= made
  BY <1>1, <1>3, LoopBelow
<1> HIDE DEF path, name, made
<1>6. made + 1 \in 1..MaxCount /\ ~(made + 1 <= made)
  <2> DEFINE rest == Top.rest
             num  == data[Place(path, name, 0)].num
  <2>1. /\ made \in 1..MaxCount /\ rest \in 0..MaxCount /\ rest > 0 /\ made = num - rest
        /\ num \in 0..MaxCount /\ MaxCount \in Nat
    BY <1>1, <1>5, SchemaAssumption
  <2> HIDE DEF rest, num
  <2> QED
    BY <2>1
<1>7. Place(path, name, made + 1) \notin Places
  BY <1>5, <1>6
<1> QED
  BY <1>2, <1>4, <1>6, <1>7 DEF NextPlace, path, name, made

LEMMA WireNextSibling ==
  ASSUME IInv, NextSibling PROVE WireInv'
<1> DEFINE path == Front(Top.path)
           i    == Last(Top.path)[2] + 1
<1>1. /\ stage # "over" /\ tables' = Written(tables, NextPlace, Top.type)
      /\ UNCHANGED <<types, data, message, result>>
  BY DEF NextSibling, SubTable, AtEnd, NextPlace
<1>2. /\ NextPlace \notin DOMAIN tables /\ i \in 1..MaxCount
      /\ Top.path # <<>> /\ path \in DOMAIN tables
      /\ Top.path \in DOMAIN tables /\ tables[Top.path] = Top.type
  BY NextIsFree DEF Places
<1>3. PICK f \in FieldsOf(tables[path]) :
        f.name = Last(Top.path)[1] /\ f.type = Top.type /\ Kind[f.type] = "message"
  BY <1>2 DEF IInv, WireInv, Placed
<1>4. StoresShaped(path, f)
  BY <1>1 DEF StoresShaped
<1>5. Top.type \in Types /\ NextPlace = Place(path, f.name, i)
  BY <1>2, <1>3 DEF IInv, WalkInv, TypeOK, NextPlace
<1> HIDE DEF path, i
<1>6. MakesElement(path, f)
  BY <1>1, <1>2, <1>3, <1>5 DEF MakesElement
<1> QED
  BY <1>1, <1>2, <1>4, <1>6, WireStep

\* Nothing is stored before the walk begins, which begins at the message.
LEMMA WireFindMessage ==
  ASSUME IInv, NEW t \in Types, FindMessage(t) PROVE WireInv'
<1>1. /\ stage = "message" /\ message' = t /\ tables' = Written(tables, <<>>, t)
      /\ UNCHANGED <<types, data, result>>
  BY DEF FindMessage
<1>2. DOMAIN tables = {} /\ DOMAIN data = {}
  <2>1. DOMAIN tables = {}
    BY <1>1 DEF IInv, WalkInv, StackOK
  <2> QED
    BY <2>1 DEF IInv, ListInv, WireInv, Placed, Reached, Places
<1>3. DOMAIN tables' = {<<>>} /\ tables'[<<>>] = t
  BY <1>1, <1>2 DEF Written
<1>4. Placed'
  BY <1>1, <1>2, <1>3 DEF Placed
<1>5. Shaped'
  BY <1>1, <1>2 DEF Shaped
<1>6. Encoded'
  BY <1>1 DEF IInv, WireInv, Encoded
<1> QED
  BY <1>4, <1>5, <1>6 DEF WireInv

\* A step that stores nothing and knows no further type.
LEMMA WireUnchanged ==
  ASSUME IInv, UNCHANGED <<types, message, tables, data>>, Encoded'
  PROVE  WireInv'
<1>1. Placed'
  BY DEF IInv, WireInv, Placed
<1>2. Shaped'
  BY DEF IInv, WireInv, Shaped, HasShape, Arrayed
<1> QED
  BY <1>1, <1>2 DEF WireInv

LEMMA WireLoadFile ==
  ASSUME IInv, (\E f \in Files : LoadFile(f)) \/ LoadFileFails PROVE WireInv'
<1>1. /\ stage = "file" /\ UNCHANGED <<message, tables, data>>
      /\ result' = result \/ (stage' = "over" /\ result' = "empty")
  BY DEF LoadFile, LoadFileFails, Over
<1>2. DOMAIN tables = {} /\ result = "none"
  <2>1. DOMAIN tables = {}
    BY <1>1 DEF IInv, WalkInv, StackOK
  <2>2. result = "none"
    BY <1>1 DEF IInv, WireInv, Encoded
  <2> QED
    BY <2>1, <2>2
<1>3. Placed'
  BY <1>1 DEF IInv, WireInv, Placed
<1>4. Shaped'
  BY <1>1, <1>2 DEF Shaped
<1>5. Encoded'
  BY <1>1, <1>2 DEF Encoded
<1> QED
  BY <1>3, <1>4, <1>5 DEF WireInv

\* Encode judges the table as it stays.
LEMMA WireEncode ==
  ASSUME IInv, Encode PROVE WireInv'
<1>1. UNCHANGED <<types, message, tables, data>>
  BY DEF Encode
<1>2. Encoded'
  <2>1. (ArraysFit' <=> ArraysFit) /\ Inconvertible' = Inconvertible
    BY <1>1 DEF ArraysFit, Inconvertible
  <2> QED
    BY <1>1, <2>1 DEF Encode, Over, Encoded
<1> QED
  BY <1>1, <1>2, WireUnchanged

LEMMA WireQuiet ==
  ASSUME IInv,
         \/ FindMessageFails \/ EnumHandlerFails
         \/ ReturnNested \/ ReturnMessage \/ UNCHANGED vars
  PROVE  WireInv'
<1>1. UNCHANGED <<types, message, tables, data>>
  BY DEF FindMessageFails, EnumHandlerFails, ReturnNested, ReturnMessage, vars
<1>2. Encoded'
  <2>1. CASE FindMessageFails
    <3>1. stage = "message" /\ stage' = "over" /\ result' # "bytes"
      BY <2>1 DEF FindMessageFails, Over
    <3>2. message' = "none"
      BY <1>1, <3>1 DEF IInv, WalkInv, StackOK
    <3> QED
      BY <3>1, <3>2 DEF Encoded
  <2>1a. CASE EnumHandlerFails
    BY <2>1a DEF EnumHandlerFails, Over, Encoded
  <2>2. CASE ReturnNested \/ ReturnMessage
    BY <2>2 DEF ReturnNested, ReturnMessage, AtEnd, IInv, WireInv, Encoded
  <2>3. CASE UNCHANGED vars
    <3>1. (ArraysFit' <=> ArraysFit) /\ Inconvertible' = Inconvertible
      BY <1>1 DEF ArraysFit, Inconvertible
    <3> QED
      BY <2>3, <3>1 DEF vars, IInv, WireInv, Encoded
  <2> QED
    BY <2>1, <2>1a, <2>2, <2>3
<1> QED
  BY <1>1, <1>2, WireUnchanged

\* FindMessage makes a table of a type pb knows, and so do the handlers.
LEMMA KnownStep == WalkInv /\ Known /\ [Next]_vars => Known'
<1> SUFFICES ASSUME WalkInv, Known, [Next]_vars PROVE Known'
  OBVIOUS
<1> USE DEF Known
<1>1. ASSUME NEW f \in Files, LoadFile(f) PROVE Known'
  BY <1>1 DEF LoadFile
<1>2. ASSUME NEW m \in Types, FindMessage(m) PROVE Known'
  BY <1>2 DEF FindMessage, Written
<1>3. CASE HandleMessageNestType
  BY <1>3 DEF HandleMessageNestType, Written
<1>4. CASE NextSibling
  <2>1. Top.type \in types
    <3>1. Len(stack) \in DOMAIN stack
      BY <1>4 DEF NextSibling, AtEnd, WalkInv, TypeOK, StackOK
    <3> QED
      BY <3>1 DEF WalkInv, TypeOK, Top, Last
  <2> QED
    BY <1>4, <2>1 DEF NextSibling, Written
<1>5. CASE LoadFileFails
  BY <1>5 DEF LoadFileFails
<1>6. CASE UNCHANGED <<tables, types>>
  BY <1>6
<1> QED
  BY <1>1, <1>2, <1>3, <1>4, <1>5, <1>6
  DEF Next, Handle, FindMessageFails, HandleMessageBaseType,
      HandleMessageEnumType, EnumHandlerFails, SkipMap, ReturnNested, ReturnMessage, Encode, vars

-----------------------------------------------------------------------------
\* The inductive invariant: beside what is always true of the walk, each loop of
\* HandleMessageNestType writes to the next place of an array that is its own, and
\* every table and value has the form its field's handler gives it.
THEOREM Invariance == Spec => []IInv
<1>1. Init => ListInv
  <2> SUFFICES ASSUME Init PROVE ListInv
    OBVIOUS
  <2>1. DOMAIN stack = {} /\ DOMAIN tables = {} /\ DOMAIN data = {}
    BY DEF Init
  <2> QED
    BY <2>1 DEF ListInv, Reached, Whole, Filling, Places
<1>2. IInv /\ [Next]_vars => ListInv'
  <2> SUFFICES ASSUME IInv, [Next]_vars PROVE ListInv'
    OBVIOUS
  <2>1. CASE (\E f \in Files : LoadFile(f)) \/ LoadFileFails
    BY <2>1, ListLoadFile
  <2>2. CASE FindMessageFails \/ EnumHandlerFails \/ Encode \/ UNCHANGED vars
    BY <2>2, ListUnchanged DEF FindMessageFails, EnumHandlerFails, Encode, vars
  <2>3. ASSUME NEW t \in Types, FindMessage(t) PROVE ListInv'
    BY <2>3, ListFindMessage
  <2>4. CASE HandleMessageBaseType
    BY <2>4, ListBaseType
  <2>5. CASE HandleMessageEnumType
    BY <2>5, ListSkips DEF HandleMessageEnumType, AlwaysStored
  <2>6. CASE HandleMessageNestType
    BY <2>6, ListNestType
  <2>7. CASE SkipMap
    BY <2>7, ListSkips DEF SkipMap, AlwaysStored
  <2>8. CASE NextSibling
    BY <2>8, ListNextSibling
  <2>9. CASE ReturnNested
    BY <2>9, ListReturnNested
  <2>10. CASE ReturnMessage
    BY <2>10, ListReturnMessage
  <2> QED
    BY <2>1, <2>2, <2>3, <2>4, <2>5, <2>6, <2>7, <2>8, <2>9, <2>10 DEF Next, Handle
<1>3. Init => WireInv
  BY DEF Init, WireInv, Placed, Shaped, Encoded
<1>4. IInv /\ [Next]_vars => WireInv'
  <2> SUFFICES ASSUME IInv, [Next]_vars PROVE WireInv'
    OBVIOUS
  <2>1. CASE (\E f \in Files : LoadFile(f)) \/ LoadFileFails
    BY <2>1, WireLoadFile
  <2>2. CASE \/ FindMessageFails \/ EnumHandlerFails
             \/ ReturnNested \/ ReturnMessage \/ UNCHANGED vars
    BY <2>2, WireQuiet
  <2>3. ASSUME NEW t \in Types, FindMessage(t) PROVE WireInv'
    BY <2>3, WireFindMessage
  <2>4. CASE HandleMessageBaseType
    BY <2>4, WireBaseType
  <2>5. CASE HandleMessageEnumType
    BY <2>5, WireSkips DEF HandleMessageEnumType
  <2>6. CASE HandleMessageNestType
    BY <2>6, WireNestType
  <2>7. CASE SkipMap
    BY <2>7, WireSkips DEF SkipMap
  <2>8. CASE NextSibling
    BY <2>8, WireNextSibling
  <2>9. CASE Encode
    BY <2>9, WireEncode
  <2> QED
    BY <2>1, <2>2, <2>3, <2>4, <2>5, <2>6, <2>7, <2>8, <2>9 DEF Next, Handle
<1>5. Init => Known
  BY DEF Init, Known
<1>6. IInv <=> WalkInv /\ ListInv /\ WireInv /\ Known
  BY DEF IInv
<1> QED
  BY <1>1, <1>2, <1>3, <1>4, <1>5, <1>6, KnownStep, WalkInvariance, PTL DEF Spec

\* When pb.encode is called, every array in the table has the elements the user
\* announced, 1 to n: for any schema, any counts and any depth.
THEOREM ArraysWhole == Spec => []ListsAreWhole
<1>1. IInv => ListsAreWhole
  <2> USE DEF IInv, WalkInv
  <2> SUFFICES ASSUME IInv, stage = "encode", NEW t \in DOMAIN tables,
                      NEW i \in DOMAIN Fields[tables[t]],
                      AlwaysStored(Fields[tables[t]][i]),
                      Place(t, Fields[tables[t]][i].name, 0) \in DOMAIN data,
                      data[Place(t, Fields[tables[t]][i].name, 0)].kind = "list"
               PROVE  {q \in Places : q # <<>> /\ Front(q) = t
                         /\ Last(q)[1] = Fields[tables[t]][i].name /\ Last(q)[2] > 0}
                      = {Place(t, Fields[tables[t]][i].name, x) :
                           x \in 1..data[Place(t, Fields[tables[t]][i].name, 0)].num}
    BY DEF ListsAreWhole, FieldsOf, Places
  <2> DEFINE name == Fields[tables[t]][i].name
             num  == data[Place(t, name, 0)].num
  <2>1. t \in Paths /\ name \in FieldNames /\ num \in 0..MaxCount /\ Places \subseteq Paths
    BY TableFields DEF TypeOK, Places
  <2>2. ~InLoop(t, i)
    BY DEF StackOK, InLoop
  <2>3. \A x \in 1..MaxCount : Place(t, name, x) \in Places <=> x <= num
    BY <2>2 DEF ListInv, Whole, Elements
  <2> HIDE DEF name, num
  <2>4. ASSUME NEW q \in Places, q # <<>>, Front(q) = t, Last(q)[1] = name, Last(q)[2] > 0
        PROVE  \E x \in 1..num : q = Place(t, name, x)
    <3>1. q = Place(t, name, Last(q)[2]) /\ Last(q)[2] \in 0..MaxCount
      BY <2>1, <2>4, PathParts
    <3>2. Last(q)[2] \in 1..MaxCount /\ num \in Nat
      BY <2>1, <2>4, <3>1, SchemaAssumption
    <3>3. Last(q)[2] <= num
      BY <2>3, <2>4, <3>1, <3>2
    <3>4. Last(q)[2] \in 1..num
      BY <3>2, <3>3
    <3> QED
      BY <3>1, <3>4
  <2>5. ASSUME NEW x \in 1..num
        PROVE  /\ Place(t, name, x) \in Places /\ Place(t, name, x) # <<>>
               /\ Front(Place(t, name, x)) = t /\ Last(Place(t, name, x))[1] = name
               /\ Last(Place(t, name, x))[2] > 0
    <3>1. x \in 1..MaxCount /\ x \in 0..MaxCount /\ x <= num /\ x > 0
      BY <2>1, <2>5, SchemaAssumption
    <3> QED
      BY <2>1, <2>3, <3>1, PlaceParts
  <2> QED
    BY <2>4, <2>5 DEF name, num
<1> QED
  BY <1>1, Invariance, PTL

-----------------------------------------------------------------------------
\* A set of natural numbers has a least element.
LEMMA Least ==
  ASSUME NEW S \in SUBSET Nat, S # {}
  PROVE  \E n \in S : \A m \in S : n <= m
<1>1. PICK n \in S : \A m \in S : ~(<<m, n>> \in OpToRel(<, Nat))
  BY NatLessThanWellFounded, WFMin, Zenon
<1>2. ASSUME NEW m \in S PROVE n <= m
  <2>1. <<m, n>> \notin OpToRel(<, Nat)
    BY <1>1, Zenon
  <2>2. <<m, n>> \in Nat \X Nat
    OBVIOUS
  <2>3. ~(m < n)
    BY <2>1, <2>2 DEF OpToRel
  <2> QED
    BY <2>3
<1> QED
  BY <1>2

\* The places above a place.
Above(p, k) == SubSeq(p, 1, k)

\* Each is one step below the one before.
LEMMA AbovePlaces ==
  ASSUME NEW p \in Paths
  PROVE  /\ Above(p, 0) = <<>> /\ Above(p, Len(p)) = p
         /\ \A k \in 1..Len(p) :
              /\ Above(p, k) \in Paths /\ Above(p, k) # <<>>
              /\ Front(Above(p, k)) = Above(p, k - 1) /\ Last(Above(p, k)) = p[k]
<1> DEFINE S == FieldNames \X (0..MaxCount)
<1>1. p \in Seq(S) /\ Len(p) \in Nat
  BY DEF Paths
<1> HIDE DEF S
<1>2. \A k \in 0..Len(p) :
        /\ Above(p, k) \in Seq(S) /\ Len(Above(p, k)) = k
        /\ \A i \in 1..k : Above(p, k)[i] = p[i]
  <2> SUFFICES ASSUME NEW k \in 0..Len(p)
               PROVE  /\ Above(p, k) \in Seq(S) /\ Len(Above(p, k)) = k
                      /\ \A i \in 1..k : Above(p, k)[i] = p[i]
    OBVIOUS
  <2>1. \A i \in 1..k : p[i] \in S
    BY <1>1
  <2>2. SubSeq(p, 1, k) \in Seq(S)
    BY <1>1, <2>1, SubSeqProperties
  <2>3. Len(SubSeq(p, 1, k)) = IF 1 <= k THEN k - 1 + 1 ELSE 0
    BY <1>1, <2>1, SubSeqProperties
  <2>4. \A i \in 1..(k - 1 + 1) : SubSeq(p, 1, k)[i] = p[1 + i - 1]
    BY <1>1, <2>1, SubSeqProperties
  <2> QED
    BY <1>1, <2>2, <2>3, <2>4 DEF Above
<1>3. Above(p, 0) = <<>>
  BY <1>1, <1>2
<1>4. Above(p, Len(p)) = p
  BY <1>1, <1>2, SeqEqual
<1>5. ASSUME NEW k \in 1..Len(p)
      PROVE  /\ Above(p, k) \in Paths /\ Above(p, k) # <<>>
             /\ Front(Above(p, k)) = Above(p, k - 1) /\ Last(Above(p, k)) = p[k]
  <2>1. /\ Above(p, k) \in Seq(S) /\ Above(p, k) # <<>> /\ Len(Above(p, k)) = k
        /\ Above(p, k)[k] = p[k] /\ \A i \in 1..(k - 1) : Above(p, k)[i] = p[i]
    BY <1>1, <1>2
  <2>2. /\ Last(Above(p, k)) = Above(p, k)[k]
        /\ Front(Above(p, k)) \in Seq(S) /\ Len(Front(Above(p, k))) = k - 1
        /\ \A i \in 1..(k - 1) : Front(Above(p, k))[i] = Above(p, k)[i]
    BY <2>1, LastFront
  <2>3. Front(Above(p, k)) = Above(p, k - 1)
    <3>1. /\ Above(p, k - 1) \in Seq(S) /\ Len(Above(p, k - 1)) = k - 1
          /\ \A i \in 1..(k - 1) : Above(p, k - 1)[i] = p[i]
      <4>1. k - 1 \in 0..Len(p)
        BY <1>1
      <4> QED
        BY <1>2, <4>1
    <3> QED
      BY <2>1, <2>2, <3>1, SeqEqual
  <2> QED
    BY <2>1, <2>2, <2>3 DEF Paths, S
<1> QED
  BY <1>3, <1>4, <1>5

\* Above a table there are only tables.
LEMMA AboveTables ==
  ASSUME Reached, NEW p \in Paths, NEW n \in 0..Len(p), Above(p, n) \in DOMAIN tables,
         NEW k \in 0..n
  PROVE  Above(p, k) \in DOMAIN tables
<1>1. Len(p) \in Nat
  BY DEF Paths
<1> DEFINE S == {j \in 0..n : Above(p, n - j) \notin DOMAIN tables}
<1>2. \A j \in 0..n : j \in S <=> Above(p, n - j) \notin DOMAIN tables
  OBVIOUS
<1>3. S \in SUBSET Nat /\ S \subseteq 0..n
  BY <1>1
<1> HIDE DEF S
<1>4. ASSUME S # {} PROVE FALSE
  <2>1. PICK j \in S : \A m \in S : j <= m
    BY <1>3, <1>4, Least
  <2>2. j \in 1..n
    <3>1. n - 0 = n
      BY <1>1
    <3>2. j # 0
      BY <1>2, <1>3, <3>1
    <3> QED
      BY <1>1, <1>3, <3>2
  <2> DEFINE l == n - (j - 1)
  <2>3. l \in 1..Len(p) /\ l - 1 = n - j
    BY <1>1, <2>2
  <2>4. Above(p, l) \in DOMAIN tables
    BY <1>1, <1>2, <2>1, <2>2
  <2>5. Above(p, l) # <<>> /\ Front(Above(p, l)) = Above(p, l - 1)
    BY <1>1, <2>3, AbovePlaces
  <2>6. Above(p, n - j) \in DOMAIN tables
    BY <2>3, <2>4, <2>5 DEF Reached, Places
  <2> QED
    BY <1>2, <1>3, <2>1, <2>6
<1>5. n - k \in 0..n /\ n - (n - k) = k
  BY <1>1
<1> QED
  BY <1>2, <1>4, <1>5

\* The types along the walk pb.encode makes to place p.
WalkOf(p, w) ==
  w = [k \in 0..Len(p) |-> IF k = 0 THEN message ELSE StepType(w[k - 1], p[k])]

\* There is only one such walk.
LEMMA OneWalk ==
  ASSUME NEW p \in Paths, NEW v, WalkOf(p, v), NEW w, WalkOf(p, w)
  PROVE  v = w
<1>1. Len(p) \in Nat
  BY DEF Paths
<1>2. /\ \A k \in 0..Len(p) : v[k] = IF k = 0 THEN message ELSE StepType(v[k - 1], p[k])
      /\ v = [k \in 0..Len(p) |-> v[k]]
  BY DEF WalkOf
<1>3. /\ \A k \in 0..Len(p) : w[k] = IF k = 0 THEN message ELSE StepType(w[k - 1], p[k])
      /\ w = [k \in 0..Len(p) |-> w[k]]
  BY DEF WalkOf
<1> DEFINE S == {k \in 0..Len(p) : v[k] # w[k]}
<1>4. S \in SUBSET Nat /\ \A k \in 0..Len(p) : k \in S <=> v[k] # w[k]
  BY <1>1
<1>5. S \subseteq 0..Len(p)
  OBVIOUS
<1> HIDE DEF S
<1>6. ASSUME S # {} PROVE FALSE
  <2>1. PICK k \in S : \A m \in S : k <= m
    BY <1>4, <1>6, Least
  <2>2. k \in 0..Len(p) /\ v[k] # w[k]
    BY <1>4, <1>5
  <2>3. k # 0
    BY <1>1, <1>2, <1>3, <2>2
  <2>4. k - 1 \in 0..Len(p) /\ k - 1 \notin S
    BY <1>1, <1>4, <2>1, <2>2, <2>3
  <2>5. v[k - 1] = w[k - 1]
    BY <1>4, <2>4
  <2> QED
    BY <1>2, <1>3, <2>2, <2>3, <2>5
<1>7. \A k \in 0..Len(p) : v[k] = w[k]
  BY <1>4, <1>6
<1> QED
  BY <1>2, <1>3, <1>7

\* SchemaType is where that walk ends.
LEMMA SchemaWalk ==
  ASSUME NEW p \in Paths, NEW w, WalkOf(p, w)
  PROVE  SchemaType(p) = w[Len(p)]
<1> DEFINE at == CHOOSE v : WalkOf(p, v)
<1>1. WalkOf(p, at)
  OBVIOUS
<1>2. SchemaType(p) = at[Len(p)]
  BY DEF SchemaType, WalkOf
<1> HIDE DEF at
<1> QED
  BY <1>1, <1>2, OneWalk

\* A step to a field leads to what has that field's type.
LEMMA StepToField ==
  ASSUME TypeOK, NEW t \in DOMAIN tables, NEW f \in FieldsOf(tables[t]), NEW step,
         step[1] = f.name, Listy(f) <=> step[2] > 0
  PROVE  StepType(tables[t], step) = f.type
<1> DEFINE F == {g \in FieldsOf(tables[t]) :
                   g.name = step[1] /\ (Listy(g) <=> step[2] > 0)}
<1>1. tables[t] \in Types
  BY DEF TypeOK
<1>2. \A g \in FieldsOf(tables[t]) : g.name = f.name => g = f
  BY TableFields DEF FieldsOf
<1>3. f \in F /\ \A g \in F : g = f
  BY <1>2
<1>4. StepType(tables[t], step) = IF tables[t] \in Types /\ F # {}
                                  THEN (CHOOSE g \in F : TRUE).type ELSE "none"
  BY DEF StepType
<1> HIDE DEF F
<1>5. (CHOOSE g \in F : TRUE) = f
  BY <1>3
<1> QED
  BY <1>1, <1>3, <1>4, <1>5

\* Where the nested messages are elements of arrays, pb.encode's walk comes to every
\* value of a table it can encode.
LEMMA ValueReached ==
  ASSUME NestedInArrays, TypeOK, Reached, Placed, Known, ArraysFit,
         NEW p \in DOMAIN data, data[p].kind # "list"
  PROVE  SchemaType(p) # "none"
<1> DEFINE n == Len(p)
<1>1. p \in Paths /\ p # <<>> /\ n \in Nat \ {0}
  <2>1. p \in Paths /\ p # <<>>
    BY DEF TypeOK, Placed
  <2> QED
    BY <2>1 DEF Paths
<1> HIDE DEF n
<1>2. Front(p) = Above(p, n - 1) /\ Last(p) = p[n] /\ Above(p, 0) = <<>> /\ n - 1 \in 0..n
  BY <1>1, AbovePlaces DEF n
<1>3. Front(p) \in DOMAIN tables
  BY <1>1 DEF Reached, Places
<1>4. \A k \in 0..(n - 1) : Above(p, k) \in DOMAIN tables
  BY <1>1, <1>2, <1>3, AboveTables DEF n
<1>5. tables[Above(p, 0)] = message
  BY <1>1, <1>2, <1>4 DEF Placed
<1>6. ASSUME NEW k \in 1..(n - 1)
      PROVE  StepType(tables[Above(p, k - 1)], p[k]) = tables[Above(p, k)]
  <2>1. /\ k \in 1..n /\ k \in 0..(n - 1) /\ k - 1 \in 0..(n - 1)
    BY <1>1
  <2>2. /\ Above(p, k) # <<>> /\ Front(Above(p, k)) = Above(p, k - 1)
        /\ Last(Above(p, k)) = p[k]
    BY <1>1, <2>1, AbovePlaces DEF n
  <2>3. Above(p, k) \in DOMAIN tables /\ Above(p, k - 1) \in DOMAIN tables
    BY <1>4, <2>1
  <2>4. PICK f \in FieldsOf(tables[Above(p, k - 1)]) :
          /\ f.name = p[k][1] /\ p[k][2] > 0
          /\ f.type = tables[Above(p, k)] /\ Kind[f.type] = "message"
    BY <2>2, <2>3 DEF Placed
  <2>5. Listy(f)
    <3>1. tables[Above(p, k - 1)] \in types /\ f.type \in types
      BY <2>3, <2>4 DEF Known
    <3> QED
      BY <2>4, <3>1 DEF NestedInArrays
  <2> QED
    BY <2>3, <2>4, <2>5, StepToField
<1>7. PICK f \in FieldsOf(tables[Front(p)]) :
        f.name = Last(p)[1] /\ (Listy(f) <=> Last(p)[2] > 0)
  <2>1. /\ Last(p)[1] \in FieldNames /\ Last(p)[2] \in 0..MaxCount
        /\ p = Place(Front(p), Last(p)[1], Last(p)[2])
    BY <1>1, PathParts
  <2>2. CASE Last(p)[2] > 0
    BY <2>2 DEF Placed, IsRepeated, Listy
  <2>3. CASE Last(p)[2] = 0
    <3>1. PICK f \in FieldsOf(tables[Front(p)]) : f.name = Last(p)[1]
      BY <1>1 DEF Reached, Places, FieldsOf
    <3>2. ~Listy(f)
      BY <1>3, <2>1, <2>3, <3>1 DEF ArraysFit
    <3> QED
      BY <2>3, <3>1, <3>2
  <2> QED
    BY <2>1, <2>2, <2>3, SchemaAssumption
<1>8. StepType(tables[Above(p, n - 1)], p[n]) = f.type
  BY <1>2, <1>3, <1>7, StepToField
<1> DEFINE w == [k \in 0..n |-> IF k = n THEN f.type ELSE tables[Above(p, k)]]
<1>9. WalkOf(p, w)
  <2>1. \A k \in 0..n : w[k] = IF k = 0 THEN message ELSE StepType(w[k - 1], p[k])
    <3> SUFFICES ASSUME NEW k \in 0..n
                 PROVE  w[k] = IF k = 0 THEN message ELSE StepType(w[k - 1], p[k])
      OBVIOUS
    <3>1. CASE k = 0
      BY <1>1, <1>5, <3>1
    <3>2. CASE k \in 1..(n - 1)
      BY <1>1, <1>6, <3>2
    <3>3. CASE k = n
      BY <1>1, <1>8, <3>3
    <3> QED
      BY <1>1, <3>1, <3>2, <3>3
  <2>2. w = [k \in 0..n |-> w[k]]
    OBVIOUS
  <2> HIDE DEF w
  <2> QED
    BY <2>1, <2>2 DEF WalkOf, n
<1>10. w[n] = f.type
  BY <1>1
<1> HIDE DEF w
<1>11. SchemaType(p) = f.type
  BY <1>1, <1>9, <1>10, SchemaWalk DEF n
<1>12. f \in FieldRecords
  BY <1>3 DEF TypeOK, FieldsOf, FieldRecords
<1> QED
  BY <1>11, <1>12, SchemaAssumption

\* As long as every message field pb knows is repeated, what the user entered is
\* where pb.encode looks for it.  A message field that is not repeated gets an
\* array too (HandleMessageNestType), and what is in that is lost: transpb_nested.
THEOREM EnteredReaches == Spec => [](NestedInArrays => EnteredIsEncoded)
<1>1. IInv => (NestedInArrays => EnteredIsEncoded)
  BY ValueReached DEF IInv, WalkInv, ListInv, WireInv, Encoded, EnteredIsEncoded
<1> QED
  BY <1>1, Invariance, PTL

\* An error of the script is the end of the input, a missing pb, something that is no
\* message, one of the two fields for which no handler makes the array, or a number
\* typed for an integer field that is no integer: for any schema and answers.
THEOREM ErrorsHaveReasons == Spec => []ErrorsExplained
<1> DEFINE NoArray(t, f) ==
             /\ Place(t, f.name, 0) \in DOMAIN data
             /\ \/ f.option = "packed"
                \/ f.option = "repeated" /\ f.type \in types /\ Kind[f.type] = "enum"
           NoInteger(t, f) ==
             /\ f.type \in IntegerTypes
             /\ \E i \in 0..MaxCount :
                  /\ Place(t, f.name, i) \in DOMAIN data
                  /\ data[Place(t, f.name, i)].kind = "fraction"
<1>1. ASSUME IInv, ~ArraysFit
      PROVE  \E t \in DOMAIN tables : \E f \in FieldsOf(tables[t]) : NoArray(t, f)
  <2>1. PICK t \in DOMAIN tables : \E f \in FieldsOf(tables[t]) :
          /\ Listy(f) /\ Place(t, f.name, 0) \in DOMAIN data
          /\ data[Place(t, f.name, 0)].kind # "list"
    BY <1>1 DEF ArraysFit
  <2>2. PICK f \in FieldsOf(tables[t]) :
          /\ Listy(f) /\ Place(t, f.name, 0) \in DOMAIN data
          /\ data[Place(t, f.name, 0)].kind # "list"
    BY <2>1
  <2>3. HasShape(data[Place(t, f.name, 0)], f)
    BY <1>1, <2>2 DEF IInv, WireInv, Shaped
  <2>4. f.type \in types => Kind[f.type] \in {"message", "enum", "map"}
    BY <1>1, SchemaAssumption DEF IInv, WalkInv, TypeOK
  <2>5. NoArray(t, f)
    BY <2>2, <2>3, <2>4 DEF HasShape, Arrayed, IsRepeated, Listy
  <2> QED
    BY <2>5
<1>2. ASSUME IInv, Inconvertible # {}
      PROVE  \E t \in DOMAIN tables : \E f \in FieldsOf(tables[t]) : NoInteger(t, f)
  <2>1. PICK p \in DOMAIN data :
          /\ data[p].kind = "fraction"
          /\ \E f \in FieldsOf(tables[Front(p)]) : f.name = Last(p)[1] /\ f.type \in IntegerTypes
    BY <1>2 DEF Inconvertible
  <2>2. PICK f \in FieldsOf(tables[Front(p)]) : f.name = Last(p)[1] /\ f.type \in IntegerTypes
    BY <2>1
  <2>3. p \in Paths /\ p # <<>>
    BY <1>2 DEF IInv, WalkInv, TypeOK, WireInv, Placed
  <2>4. Front(p) \in DOMAIN tables
    BY <1>2, <2>3 DEF IInv, ListInv, Reached, Places
  <2>5. p = Place(Front(p), Last(p)[1], Last(p)[2]) /\ Last(p)[2] \in 0..MaxCount
    BY <2>3, PathParts
  <2>6. NoInteger(Front(p), f)
    BY <2>1, <2>2, <2>5
  <2> QED
    BY <2>4, <2>6
<1>3. IInv => ErrorsExplained
  <2> SUFFICES ASSUME IInv, result = "error", message # "none", GlobalPb,
                      Kind[message] = "message"
               PROVE  \E t \in DOMAIN tables : \E f \in FieldsOf(tables[t]) :
                        NoArray(t, f) \/ NoInteger(t, f)
    BY DEF ErrorsExplained
  <2>1. ~ArraysFit \/ Inconvertible # {}
    BY DEF IInv, WireInv, Encoded
  <2> HIDE DEF NoArray, NoInteger
  <2> QED
    BY <1>1, <1>2, <2>1
<1> QED
  BY <1>3, Invariance, PTL

\* Unless pb knows a packed field every basic value has the form pb.encode expects of its
\* field: the packed ones are all that GetRepeatedFieldNums misses (transpb_packed).
THEOREM BaseTypesFit == Spec => [](NothingPacked => BaseTypesEncode)
<1>1. IInv => (NothingPacked => BaseTypesEncode)
  <2> SUFFICES ASSUME IInv, NothingPacked,
                      NEW t \in DOMAIN tables, NEW f \in FieldsOf(tables[t]),
                      f.type \notin types, Place(t, f.name, 0) \in DOMAIN data
               PROVE  Listy(f) <=> data[Place(t, f.name, 0)].kind = "list"
    BY DEF BaseTypesEncode
  <2>1. HasShape(data[Place(t, f.name, 0)], f)
    BY DEF IInv, WireInv, Shaped
  <2>2. f.option # "packed"
    BY DEF IInv, Known, NothingPacked
  <2> QED
    BY <2>1, <2>2 DEF HasShape, Arrayed, IsRepeated, Listy
<1> QED
  BY <1>1, Invariance, PTL

\* Storing at places that are free keeps what is stored.
LEMMA StoredKeeps ==
  ASSUME NEW E, \A e \in E : e[1] \notin DOMAIN data PROVE Kept(data, Stored(E))
<1>1. DOMAIN data \subseteq DOMAIN Stored(E)
  BY DEF Stored
<1> QED
  BY <1>1, StoredAt DEF Kept

\* What a handler stores, it stores where nothing is.
LEMMA HandlerKeeps ==
  ASSUME IInv, Handle PROVE Kept(tables, tables') /\ Kept(data, data')
<1>1. AtField
  BY DEF Handle, HandleMessageBaseType, HandleMessageEnumType, EnumHandlerFails,
         HandleMessageNestType, SkipMap
<1>2. \A i \in 0..MaxCount : /\ Place(Top.path, Fld.name, i) \notin DOMAIN data
                             /\ Place(Top.path, Fld.name, i) \notin DOMAIN tables
  BY <1>1, FreshField DEF Places
<1>3. Kept(tables, tables) /\ Kept(data, data) /\ 0 \in 0..MaxCount /\ 1 \in 0..MaxCount
  BY SchemaAssumption DEF Kept
<1>4. CASE HandleMessageBaseType
  <2>1. tables' = tables /\ \E n \in Counts(Fld) : \E text \in [1..n -> Texts] :
          data' = Stored(BaseEntries(Top.path, Fld, n, text))
    BY <1>4 DEF HandleMessageBaseType
  <2>2. PICK n \in Counts(Fld) : \E text \in [1..n -> Texts] :
          data' = Stored(BaseEntries(Top.path, Fld, n, text))
    BY <2>1
  <2>3. PICK text \in [1..n -> Texts] : data' = Stored(BaseEntries(Top.path, Fld, n, text))
    BY <2>2
  <2>4. n \in 0..MaxCount /\ (~IsRepeated(Fld) => n = 1)
    BY <2>2, SchemaAssumption DEF Counts
  <2>5. \A e \in BaseEntries(Top.path, Fld, n, text) : e[1] \notin DOMAIN data
    BY <1>1, <1>2, <2>4, BaseItems, WireField
  <2> QED
    BY <1>3, <2>1, <2>3, <2>5, StoredKeeps
<1>5. CASE HandleMessageEnumType
  <2>1. /\ tables' = tables
        /\ data' = data \/ data' = Stored({<<Place(Top.path, Fld.name, 0), Scalar("string")>>})
    BY <1>5 DEF HandleMessageEnumType
  <2>2. \A e \in {<<Place(Top.path, Fld.name, 0), Scalar("string")>>} : e[1] \notin DOMAIN data
    BY <1>2, <1>3
  <2>3. Kept(data, Stored({<<Place(Top.path, Fld.name, 0), Scalar("string")>>}))
    BY <2>2, StoredKeeps
  <2> QED
    BY <1>3, <2>1, <2>3
<1>6. CASE HandleMessageNestType
  <2>1. \E n \in Counts(Fld) :
          /\ data' = Written(data, Place(Top.path, Fld.name, 0), List(n))
          /\ \/ tables' = tables
             \/ tables' = Written(tables, Place(Top.path, Fld.name, 1), Fld.type)
    BY <1>6 DEF HandleMessageNestType, SubTable
  <2> QED
    BY <1>2, <1>3, <2>1 DEF Kept, Written
<1>7. CASE EnumHandlerFails \/ SkipMap
  BY <1>3, <1>7 DEF EnumHandlerFails, SkipMap
<1> QED
  BY <1>4, <1>5, <1>6, <1>7 DEF Handle

\* Nothing that has been stored is ever overwritten.
THEOREM WritesOnce == Spec => NothingOverwritten
<1>1. IInv /\ [Next]_vars => Kept(tables, tables') /\ Kept(data, data')
  <2> SUFFICES ASSUME IInv, [Next]_vars PROVE Kept(tables, tables') /\ Kept(data, data')
    OBVIOUS
  <2>1. Kept(tables, tables) /\ Kept(data, data)
    BY DEF Kept
  <2>2. CASE Handle
    BY <2>2, HandlerKeeps
  <2>3. ASSUME NEW t \in Types, FindMessage(t) PROVE Kept(tables, tables') /\ Kept(data, data')
    <3>1. stage = "message" /\ data' = data
      BY <2>3 DEF FindMessage
    <3>2. DOMAIN tables = {}
      BY <3>1 DEF IInv, WalkInv, StackOK
    <3> QED
      BY <2>1, <3>1, <3>2 DEF Kept
  <2>4. CASE NextSibling
    <3>1. data' = data /\ tables' = Written(tables, NextPlace, Top.type)
      BY <2>4 DEF NextSibling, SubTable, NextPlace
    <3>2. NextPlace \notin DOMAIN tables
      BY <2>4, NextIsFree DEF Places
    <3> QED
      BY <2>1, <3>1, <3>2 DEF Kept, Written
  <2>5. CASE UNCHANGED <<tables, data>>
    BY <2>1, <2>5
  <2> QED
    BY <2>2, <2>3, <2>4, <2>5
    DEF Next, LoadFile, LoadFileFails, FindMessageFails, ReturnNested, ReturnMessage, Encode, vars
<1> QED
  BY <1>1, Invariance, PTL DEF Spec, NothingOverwritten

-----------------------------------------------------------------------------
\* A loop's step to the next field of a table, those above it having been made.
LEMMA AheadAdvanced ==
  ASSUME NEW s \in Seq(StackTable), NEW b \in Seq(StackTable), b # <<>>,
         Len(b) <= Len(s), \A k \in 1..Len(b) : b[k] = s[k]
  PROVE  Ahead(s, Advanced(b))
<1>1. Len(b) \in Nat \ {0} /\ Len(s) \in Nat /\ Len(b) \in 1..Len(b)
  OBVIOUS
<1>2. b[Len(b)] \in StackTable
  BY <1>1
<1>3. /\ Len(Advanced(b)) = Len(b) /\ \A k \in 1..(Len(b) - 1) : Advanced(b)[k] = b[k]
      /\ Advanced(b)[Len(b)] = [b[Len(b)] EXCEPT !.at = @ + 1]
  BY AdvancedStack
<1>4. Later(b[Len(b)], Advanced(b)[Len(b)])
  <2> SUFFICES ASSUME NEW t \in StackTable PROVE Later(t, [t EXCEPT !.at = @ + 1])
    BY <1>2, <1>3
  <2> QED
    BY DEF StackTable, Later
<1>5. b[Len(b)] = s[Len(b)] /\ \A k \in 1..(Len(b) - 1) : Advanced(b)[k] = s[k]
  BY <1>1, <1>3
<1> QED
  BY <1>1, <1>3, <1>4, <1>5 DEF Ahead

\* The next element of an array, in the place of the one before it.
LEMMA AheadSibling ==
  ASSUME WalkInv, NextSibling
  PROVE  Ahead(stack, stack')
<1> DEFINE last  == Last(Top.path)
           front == Front(Top.path)
           next  == Place(front, last[1], last[2] + 1)
           below == Front(stack)
           rest  == Top.rest
           type  == Top.type
<1>1. AtEnd /\ rest > 0 /\ stack' = Nested(below, type, next, rest)
  BY DEF NextSibling, SubTable
<1>2. /\ Len(stack) \in Nat \ {0} /\ Top = stack[Len(stack)] /\ Top \in StackTable
      /\ below \in Seq(StackTable) /\ Len(below) = Len(stack) - 1
      /\ \A k \in 1..Len(below) : below[k] = stack[k]
  BY <1>1, TableDone
<1>3. rest \in 0..MaxCount /\ type \in Types /\ Top.path \in Paths
  BY <1>2 DEF StackTable
<1>4. /\ Len(Top.path) = Len(stack) - 1 /\ Len(stack) > 1 /\ last[2] + rest <= MaxCount
  <2>1. Len(stack) \in DOMAIN stack
    BY <1>2 DEF WalkInv, TypeOK
  <2> QED
    BY <1>1, <1>2, <2>1 DEF WalkInv, StackOK
<1>5. Top.path # <<>>
  BY <1>4
<1>6. last[1] \in FieldNames /\ last[2] \in 0..MaxCount /\ front \in Paths
  BY <1>3, <1>5, PathParts
<1> HIDE DEF last, front, below, rest, type
<1>7. last[2] + 1 \in 0..MaxCount /\ last[2] + 1 > last[2] /\ rest \in 1..MaxCount
  BY <1>1, <1>3, <1>4, <1>6, SchemaAssumption
<1>8. /\ next \in Paths /\ next # <<>> /\ Front(next) = front
      /\ Last(next)[1] = last[1] /\ Last(next)[2] = last[2] + 1
  BY <1>6, <1>7, PlacePath, PlaceParts
<1> HIDE DEF next
<1>9. /\ Len(stack') = Len(below) + 1 /\ \A k \in 1..Len(below) : stack'[k] = below[k]
      /\ stack'[Len(below) + 1].path = next
  <2> DEFINE s == Nested(below, type, next, rest)
  <2>1. /\ Len(s) = Len(below) + 1 /\ \A k \in 1..Len(below) : s[k] = below[k]
        /\ s[Len(below) + 1] = [type |-> type, path |-> next, at |-> 1, rest |-> rest - 1]
    BY <1>2, <1>3, <1>7, <1>8, NestedStack
  <2>2. stack' = s
    BY <1>1
  <2> HIDE DEF s
  <2>3. s[Len(below) + 1].path = next
    BY <2>1
  <2> QED
    BY <2>1, <2>2, <2>3
<1>10. Later(stack[Len(stack)], stack'[Len(stack)])
  <2>1. stack'[Len(stack)].path = next
    BY <1>2, <1>9
  <2> QED
    BY <1>2, <1>5, <1>7, <1>8, <2>1 DEF Later, last, front
<1>11. /\ Len(stack') = Len(stack) /\ Len(stack') \in 1..Len(stack)
       /\ \A k \in 1..(Len(stack') - 1) : stack'[k] = stack[k]
  BY <1>2, <1>9
<1> QED
  BY <1>10, <1>11 DEF Ahead

\* A handler goes to the next field, or puts a table on the stack.
LEMMA AheadHandler ==
  ASSUME WalkInv, Handle, stage' = "fields"
  PROVE  Ahead(stack, stack')
<1>1. stack \in Seq(StackTable) /\ AtField
  BY DEF WalkInv, TypeOK, Handle, HandleMessageBaseType, HandleMessageEnumType,
         EnumHandlerFails, HandleMessageNestType, SkipMap
<1>2. stack # <<>> /\ Top.path \in Paths /\ Fld.name \in FieldNames
  BY <1>1, CurrentField, TopTable DEF WalkInv, StackTable
<1>3. Ahead(stack, Advanced(stack))
  BY <1>1, <1>2, AheadAdvanced
<1>4. CASE HandleMessageBaseType \/ HandleMessageEnumType \/ SkipMap
  BY <1>3, <1>4 DEF HandleMessageBaseType, HandleMessageEnumType, SkipMap
<1>5. CASE EnumHandlerFails
  BY <1>5 DEF EnumHandlerFails, Over
<1>6. CASE HandleMessageNestType
  <2> DEFINE sub == Place(Top.path, Fld.name, 1)
  <2>1. PICK n \in Counts(Fld) :
          IF n = 0 THEN stack' = Advanced(stack) ELSE stack' = Nested(stack, Fld.type, sub, n)
    BY <1>6 DEF HandleMessageNestType, SubTable
  <2>2. n \in 0..MaxCount /\ 1 \in 0..MaxCount
    BY SchemaAssumption DEF Counts
  <2>3. sub \in Paths
    BY <1>2, <2>2, PlacePath
  <2>4. Fld.type \in Types
    BY <1>6 DEF HandleMessageNestType, WalkInv, TypeOK
  <2> HIDE DEF sub
  <2>5. CASE n = 0
    BY <1>3, <2>1, <2>5
  <2>6. CASE n # 0
    <3>1. n \in 1..MaxCount /\ stack' = Nested(stack, Fld.type, sub, n)
      BY <2>1, <2>2, <2>6
    <3>2. Len(stack') = Len(stack) + 1 /\ \A k \in 1..Len(stack) : stack'[k] = stack[k]
      <4> DEFINE type == Fld.type
                 s    == Nested(stack, type, sub, n)
      <4>1. stack' = s /\ type \in Types
        BY <2>4, <3>1
      <4> HIDE DEF type
      <4>2. Len(s) = Len(stack) + 1 /\ \A k \in 1..Len(stack) : s[k] = stack[k]
        BY <1>1, <2>3, <3>1, <4>1, NestedStack
      <4> HIDE DEF s
      <4> QED
        BY <4>1, <4>2
    <3> QED
      BY <1>1, <3>2 DEF Ahead
  <2> QED
    BY <2>5, <2>6
<1> QED
  BY <1>4, <1>5, <1>6 DEF Handle

\* No step of the walk leads back to a field or an element that has been passed.
THEOREM WalkGoesOn == Spec => WalkAdvances
<1>1. ASSUME WalkInv, [Next]_vars, ~UNCHANGED vars, stage = "fields", stage' = "fields"
      PROVE  Ahead(stack, stack')
  <2>1. CASE Handle
    BY <1>1, <2>1, AheadHandler
  <2>2. CASE NextSibling
    BY <1>1, <2>2, AheadSibling
  <2>3. CASE ReturnNested
    <3>1. AtEnd /\ Len(stack) > 1 /\ stack' = Advanced(Front(stack))
      BY <2>3 DEF ReturnNested
    <3>2. /\ stack \in Seq(StackTable) /\ Front(stack) \in Seq(StackTable)
          /\ Len(stack) \in Nat /\ Len(Front(stack)) = Len(stack) - 1
          /\ \A k \in 1..Len(Front(stack)) : Front(stack)[k] = stack[k]
      BY <1>1, <3>1, TableDone
    <3>3. Front(stack) # <<>> /\ Len(Front(stack)) <= Len(stack)
      BY <3>1, <3>2
    <3> QED
      BY <3>1, <3>2, <3>3, AheadAdvanced
  <2> QED
    BY <1>1, <2>1, <2>2, <2>3
    DEF Next, LoadFile, LoadFileFails, FindMessage, FindMessageFails, ReturnMessage, Encode, Over
<1>2. IInv /\ [Next]_vars =>
        [ stage = "fields" /\ stage' = "fields" => Ahead(stack, stack') ]_vars
  BY <1>1 DEF IInv
<1> QED
  BY <1>2, Invariance, PTL DEF Spec, WalkAdvances
=============================================================================
