------------------------------ MODULE JsonObject ------------------------------
(***************************************************************************)
(* json::Object and json::Array under every sequence of the calls that     *)
(* change them, and implicit copies of objects, which share what they hold.*)
(***************************************************************************)
EXTENDS Naturals, Sequences, FiniteSets

LOCAL INSTANCE FiniteSetsExt    \* MapThenSumSet

CONSTANTS Object,     \* json::Object variables of a program
          Array,      \* json::Array variables of it
          Key,        \* keys it uses
          Scalars,    \* what it puts in an object: no arrays and no objects
          Items,      \* those of them it puts in an array
          MaxSize     \* bound on what the objects and arrays hold together

ASSUME NodesAssumption == IsFiniteSet(Object) /\ IsFiniteSet(Array)
ASSUME BoundAssumption == Items \subseteq Scalars /\ MaxSize \in Nat

VARIABLES
  null,       \* Object::null_ of each variable
  map,        \* Object::elements_ of each: the variable whose map it is
  elements,   \* what a map holds; arrays and objects are held by reference
  items,      \* Array::elements_ of each array
  shared      \* history: the maps that two objects held at a time

building == <<null, map, elements, items, shared>>

Nothing == [k \in {} |-> 0]

\* Arrays and objects are put as shared pointers.
Reference == {<<"ARRAY", a>> : a \in Array} \cup {<<"OBJECT", x>> : x \in Object}

BuildInit ==
  /\ null = [x \in Object |-> TRUE]
  /\ map = [x \in Object |-> x]
  /\ elements = [x \in Object |-> Nothing]
  /\ items = [a \in Array |-> <<>>]
  /\ shared = {}
-----------------------------------------------------------------------------
HasRoom ==
  MapThenSumSet(LAMBDA x : Cardinality(DOMAIN elements[x]), Object)
    + MapThenSumSet(LAMBDA a : Len(items[a]), Array) < MaxSize

\* A key that is there keeps its element, as std::map::insert has it.
PutValueIn(x, k, e) ==
  /\ HasRoom
  /\ null' = [null EXCEPT ![x] = FALSE]
  /\ elements' = [elements EXCEPT ![map[x]] =
                    [j \in DOMAIN @ \cup {k} |-> IF j \in DOMAIN @ THEN @[j] ELSE e]]
  /\ UNCHANGED <<map, items, shared>>

DeleteKey(x, k) ==
  /\ elements' = [elements EXCEPT ![map[x]] = [j \in DOMAIN @ \ {k} |-> @[j]]]
  /\ UNCHANGED <<null, map, items, shared>>

\* Mutation of SetNull: the elements stay.
KeepsElements(x, val) ==
  /\ null' = [null EXCEPT ![x] = val]
  /\ UNCHANGED <<map, elements, items, shared>>

SetNull(x, val) ==
  /\ null' = [null EXCEPT ![x] = val]
  /\ elements' = IF val THEN [elements EXCEPT ![map[x]] = Nothing] ELSE elements
  /\ UNCHANGED <<map, items, shared>>

\* The implicit copy: null_ is copied, elements_ is shared.  A map that nobody
\* holds any more is gone.
Copy(x, y) ==
  /\ x # y
  /\ null' = [null EXCEPT ![x] = null[y]]
  /\ map' = [map EXCEPT ![x] = map[y]]
  /\ elements' = [m \in Object |-> IF \E z \in Object : map'[z] = m THEN elements[m] ELSE Nothing]
  /\ shared' = shared \cup {map[y]}
  /\ UNCHANGED items

PutItem(a, e) ==
  /\ HasRoom
  /\ items' = [items EXCEPT ![a] = Append(@, e)]
  /\ UNCHANGED <<null, map, elements, shared>>

Build ==
  \/ \E x \in Object, k \in Key :
       \/ \E e \in Scalars \cup Reference : PutValueIn(x, k, e)
       \/ DeleteKey(x, k)
  \/ \E x \in Object, val \in BOOLEAN : SetNull(x, val)
  \/ \E x, y \in Object : Copy(x, y)
  \/ \E a \in Array, e \in Items \cup Reference : PutItem(a, e)

\* The program is done with its objects and begins again.
Forget ==
  /\ null' = [x \in Object |-> TRUE] /\ map' = [x \in Object |-> x]
  /\ elements' = [x \in Object |-> Nothing] /\ items' = [a \in Array |-> <<>>]
  /\ shared' = {}

BuildSpec == BuildInit /\ [][Build \/ Forget]_building
-----------------------------------------------------------------------------
(* Correctness *)

Elements == UNION {[keys -> Scalars \cup Reference] : keys \in SUBSET Key}

TypeOK ==
  /\ null \in [Object -> BOOLEAN]
  /\ map \in [Object -> Object]
  /\ elements \in [Object -> Elements]
  /\ items \in [Array -> Seq(Items \cup Reference)]
  /\ shared \subseteq Object

\* An object that says it is null holds nothing, unless its map was shared with
\* a copy, which has a null_ of its own.
NullIsEmpty ==
  \A x \in Object : null[x] /\ DOMAIN elements[map[x]] # {} => map[x] \in shared
=============================================================================
