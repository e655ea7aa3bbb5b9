-------------------------- MODULE WritableArrayProofs --------------------------
(***************************************************************************)
(* Proofs about WritableArray for all keys, values and sizes of the table. *)
(***************************************************************************)
EXTENDS WritableArray, SequenceTheorems, TLAPS

\* What the peer is given never outgrows its table either, and what it has
\* taken so far is no longer than what was sent.
WireFits ==
  /\ Asserts => Len(wire) <= MaxCount
  /\ Len(wire) <= MaxItems
  /\ Len(got) <= Len(wire)

\* The inductive invariant.
IInv == TypeOK /\ OneItemPerKey /\ PeerTakesAll /\ WireFits

LEMMA BoundFacts ==
  MaxCount \in Nat \ {0} /\ MaxItems \in Nat /\ MaxCount <= MaxItems
BY ConstantsAssumption

LEMMA InitHolds == Init => IInv
<1> SUFFICES ASSUME Init PROVE IInv
  OBVIOUS
<1>1. <<>> \in Seq(Item) /\ Len(<<>>) = 0 /\ \A n \in DOMAIN <<>> : FALSE
  OBVIOUS
<1>2. 0 <= (IF Asserts THEN MaxCount ELSE MaxItems) /\ 0 <= MaxCount /\ 0 <= MaxItems
  BY BoundFacts
<1>3. TypeOK
  BY <1>1, <1>2 DEF Init, TypeOK
<1>4. OneItemPerKey
  BY <1>1 DEF Init, OneItemPerKey
<1>5. PeerTakesAll /\ WireFits
  BY <1>1, <1>2 DEF Init, PeerTakesAll, WireFits
<1> QED
  BY <1>3, <1>4, <1>5 DEF IInv

\* Putting an item in adds one element at most, and only under a new key.
LEMMA PutFacts ==
  ASSUME TypeOK, OneItemPerKey, NEW k \in Key, NEW v \in Value
  PROVE  /\ Put(k, v) \in Seq(Item)
         /\ Len(Put(k, v)) <= Len(items) + 1
         /\ Keyed => \A m, n \in DOMAIN Put(k, v) :
                       Put(k, v)[m].key = Put(k, v)[n].key => m = n
<1> DEFINE it == [key |-> k, value |-> v]
<1>1. it \in Item /\ it.key = k
  BY DEF Item
<1>2. items \in Seq(Item) /\ Len(items) \in Nat /\ DOMAIN items = 1 .. Len(items)
  BY DEF TypeOK
<1>3. CASE Exists(k)
  <2> DEFINE new == [n \in DOMAIN items |-> IF FirstOf(n, k) THEN it ELSE items[n]]
  <2>1. Put(k, v) = new
    BY <1>3 DEF Put
  <2>2. ASSUME NEW n \in DOMAIN items
        PROVE  new[n] \in Item /\ new[n].key = items[n].key
    <3>1. items[n] \in Item
      BY <1>2
    <3>2. CASE FirstOf(n, k)
      BY <1>1, <3>2 DEF FirstOf
    <3>3. CASE ~FirstOf(n, k)
      BY <3>1, <3>3
    <3> QED
      BY <3>2, <3>3
  <2>3. new \in Seq(Item) /\ Len(new) = Len(items) /\ DOMAIN new = DOMAIN items
    BY <1>2, <2>2
  <2> HIDE DEF new
  <2> QED
    BY <1>2, <2>1, <2>2, <2>3 DEF OneItemPerKey
<1>4. CASE ~Exists(k)
  <2>1. Put(k, v) = Append(items, it)
    BY <1>4 DEF Put
  <2>2. /\ Append(items, it) \in Seq(Item)
        /\ Len(Append(items, it)) = Len(items) + 1
        /\ \A n \in 1 .. Len(items) : Append(items, it)[n] = items[n]
        /\ Append(items, it)[Len(items) + 1] = it
        /\ DOMAIN Append(items, it) = 1 .. Len(items) + 1
    BY <1>1, <1>2, AppendProperties
  <2>3. Keyed => \A n \in DOMAIN items : items[n].key # k
    BY <1>4 DEF Exists
  <2> HIDE DEF it
  <2> QED
    BY <1>1, <1>2, <2>1, <2>2, <2>3 DEF OneItemPerKey
<1> QED
  BY <1>3, <1>4

LEMMA StepKeepsIInv == IInv /\ [Next]_vars => IInv'
<1> SUFFICES ASSUME IInv, [Next]_vars PROVE IInv'
  OBVIOUS
<1>0. TypeOK /\ OneItemPerKey /\ PeerTakesAll /\ WireFits
  BY DEF IInv
<1> USE BoundFacts
<1>1. ASSUME NEW k \in Key, NEW v \in Value, Add(k, v) PROVE IInv'
  <2>1. /\ Put(k, v) \in Seq(Item) /\ Len(Put(k, v)) <= Len(items) + 1
        /\ Len(Put(k, v)) \in Nat /\ Len(items) \in Nat
    BY <1>0, PutFacts DEF TypeOK
  <2>2. Len(Put(k, v)) <= (IF Asserts THEN MaxCount ELSE MaxItems)
    BY <1>1, <2>1 DEF Add, HasRoom
  <2>3. TypeOK'
    BY <1>0, <1>1, <2>1, <2>2 DEF TypeOK, Add
  <2>4. OneItemPerKey'
    BY <1>0, <1>1, PutFacts DEF OneItemPerKey, Add
  <2>5. PeerTakesAll' /\ WireFits'
    BY <1>0, <1>1 DEF PeerTakesAll, WireFits, Add
  <2> QED
    BY <2>3, <2>4, <2>5 DEF IInv
<1>2. CASE AddAborts
  BY <1>0, <1>2 DEF AddAborts, IInv, TypeOK, OneItemPerKey, PeerTakesAll, WireFits
<1>3. CASE Clear
  <2>1. <<>> \in Seq(Item) /\ Len(<<>>) = 0 /\ \A n \in DOMAIN <<>> : FALSE
    OBVIOUS
  <2> QED
    BY <1>0, <1>3, <2>1 DEF Clear, IInv, TypeOK, OneItemPerKey, PeerTakesAll, WireFits
<1>4. CASE Serialize
  <2>1. <<>> \in Seq(Item) /\ Len(<<>>) = 0 /\ Len(items) \in Nat
    BY <1>0 DEF TypeOK
  <2>2. Len(items) <= MaxItems /\ (Asserts => Len(items) <= MaxCount)
    BY <1>0, <2>1 DEF TypeOK
  <2> QED
    BY <1>0, <1>4, <2>1, <2>2
    DEF Serialize, IInv, TypeOK, OneItemPerKey, PeerTakesAll, WireFits
<1>5. CASE Receive
  <2>1. got \in Seq(Item) /\ wire \in Seq(Item) /\ Len(got) \in Nat /\ Len(wire) \in Nat
    BY <1>0 DEF TypeOK
  <2>2. wire[Len(got) + 1] \in Item
    BY <1>5, <2>1 DEF Receive
  <2>3. CASE Len(got) < MaxCount
    <3>1. got' = Append(got, wire[Len(got) + 1]) /\ answer' = "reading"
      BY <1>5, <2>3 DEF Receive
    <3>2. got' \in Seq(Item) /\ Len(got') = Len(got) + 1
      BY <2>1, <2>2, <3>1, AppendProperties
    <3>3. UNCHANGED <<asked, items, aborted, wire>> /\ Len(got) < Len(wire)
      BY <1>5 DEF Receive
    <3> QED
      BY <1>0, <2>1, <3>1, <3>2, <3>3
      DEF IInv, TypeOK, OneItemPerKey, PeerTakesAll, WireFits
  <2>4. CASE ~(Len(got) < MaxCount)
    <3>1. ~Asserts
      BY <1>0, <1>5, <2>1, <2>4 DEF WireFits, Receive
    <3> QED
      BY <1>0, <1>5, <2>4, <3>1
      DEF Receive, IInv, TypeOK, OneItemPerKey, PeerTakesAll, WireFits
  <2> QED
    BY <2>3, <2>4
<1>6. CASE ReceivedAll
  BY <1>0, <1>6 DEF ReceivedAll, IInv, TypeOK, OneItemPerKey, PeerTakesAll, WireFits
<1>7. CASE GoOn
  BY <1>0, <1>7 DEF GoOn, IInv, TypeOK, OneItemPerKey, PeerTakesAll, WireFits
<1>8. CASE UNCHANGED vars
  BY <1>0, <1>8 DEF vars, IInv, TypeOK, OneItemPerKey, PeerTakesAll, WireFits
<1> QED
  BY <1>1, <1>2, <1>3, <1>4, <1>5, <1>6, <1>7, <1>8 DEF Next

\* The inductive invariant holds in every reachable state.
THEOREM Invariance == Spec => []IInv
BY InitHolds, StepKeepsIInv, PTL DEF Spec

\* No sequence of Add and Clear puts two items of one key into a keyed array.
THEOREM KeysAreUnique == Spec => []OneItemPerKey
<1>1. IInv => OneItemPerKey
  BY DEF IInv
<1> QED
  BY <1>1, Invariance, PTL

\* With ASSERT compiled in, no array that can be built is refused by the peer
\* for want of room, whatever max_count is.
THEOREM PeerHasRoom == Spec => []PeerTakesAll
<1>1. IInv => PeerTakesAll
  BY DEF IInv
<1> QED
  BY <1>1, Invariance, PTL

\* The array is well typed and, with ASSERT, never longer than the table of
\* the peer.
THEOREM TypeCorrect == Spec => []TypeOK
<1>1. IInv => TypeOK
  BY DEF IInv
<1> QED
  BY <1>1, Invariance, PTL

-----------------------------------------------------------------------------
(***************************************************************************)
(* What MessageWriter takes an array for: a list of which one item at a    *)
(* time is appended or replaced.                                           *)
(***************************************************************************)

\* One item more, or one in the place of another that has its key.
OneItemChanges ==
  \E x \in Item :
    \/ items' = Append(items, x)
    \/ \E n \in DOMAIN items :
         Keyed /\ items[n].key = x.key /\ items' = [items EXCEPT ![n] = x]

LEMMA PutChangesOne ==
  ASSUME IInv, NEW k \in Key, NEW v \in Value, items' = Put(k, v)
  PROVE  OneItemChanges
<1> PICK x : x = [key |-> k, value |-> v]
  OBVIOUS
<1>1. x \in Item /\ x.key = k
  BY DEF Item
<1>2. CASE Exists(k)
  <2>1. Keyed /\ \E n \in DOMAIN items : items[n].key = k
    BY <1>2 DEF Exists
  <2>2. PICK n \in DOMAIN items : items[n].key = k
    BY <2>1
  <2>3. \A m \in DOMAIN items : FirstOf(m, k) <=> m = n
    <3>1. items \in Seq(Item) /\ DOMAIN items = 1 .. Len(items) /\ Len(items) \in Nat
      BY DEF IInv, TypeOK
    <3>2. \A m \in DOMAIN items : items[m].key = k => m = n
      BY <2>1, <2>2 DEF IInv, OneItemPerKey
    <3>3. \A m \in 1 .. n - 1 : m \in DOMAIN items /\ m # n
      BY <2>2, <3>1
    <3> QED
      BY <2>2, <3>2, <3>3 DEF FirstOf
  <2>4. items' = [m \in DOMAIN items |-> IF FirstOf(m, k) THEN x ELSE items[m]]
    BY <1>2 DEF Put
  <2>5. items' = [m \in DOMAIN items |-> IF m = n THEN x ELSE items[m]]
    BY <2>3, <2>4
  <2>6. items' = [items EXCEPT ![n] = x]
    BY <2>2, <2>5 DEF IInv, TypeOK
  <2> QED
    BY <1>1, <2>1, <2>2, <2>6 DEF OneItemChanges
<1>3. CASE ~Exists(k)
  <2>1. items' = Append(items, x)
    BY <1>3 DEF Put
  <2> QED
    BY <1>1, <2>1 DEF OneItemChanges
<1> QED
  BY <1>2, <1>3

\* An array changes by one item at a time: Add appends it, or replaces the one
\* item that has its key, and leaves all the others where they are; and only
\* Clear takes items away.  This is what Add and Clear of MessageWriter do.
THEOREM ArrayIsAList == Spec => [][items' # items /\ items' # <<>> => OneItemChanges]_vars
<1>1. IInv /\ [Next]_vars => [items' # items /\ items' # <<>> => OneItemChanges]_vars
  <2> SUFFICES ASSUME IInv, Next, items' # items, items' # <<>> PROVE OneItemChanges
    OBVIOUS
  <2>1. PICK k \in Key, v \in Value : Add(k, v)
    BY DEF Next, AddAborts, Clear, Serialize, Receive, ReceivedAll, GoOn
  <2> QED
    BY <2>1, PutChangesOne DEF Add
<1> QED
  BY <1>1, Invariance, PTL DEF Spec
-----------------------------------------------------------------------------
(***************************************************************************)
(* A keyed array and its peer implement KeyedMap.                          *)
(***************************************************************************)

\* What has been taken so far is the beginning of what was sent.
GotIsSent ==
  /\ \A n \in 1 .. Len(got) : got[n] = wire[n]
  /\ answer = "taken" => got = wire

LEMMA StepKeepsGotIsSent == IInv /\ GotIsSent /\ [Next]_vars => GotIsSent'
<1> SUFFICES ASSUME IInv, GotIsSent, [Next]_vars PROVE GotIsSent'
  OBVIOUS
<1>0. got \in Seq(Item) /\ wire \in Seq(Item) /\ Len(got) \in Nat /\ Len(wire) \in Nat
  BY DEF IInv, TypeOK
<1>1. CASE Serialize
  <2>1. Len(<<>>) = 0
    OBVIOUS
  <2> QED
    BY <1>1, <2>1 DEF Serialize, GotIsSent
<1>2. CASE Receive
  <2>1. CASE Len(got) < MaxCount
    <3>1. got' = Append(got, wire[Len(got) + 1]) /\ wire' = wire /\ answer' = "reading"
      BY <1>2, <2>1 DEF Receive
    <3>2. /\ Len(got') = Len(got) + 1
          /\ \A n \in 1 .. Len(got) : got'[n] = got[n]
          /\ got'[Len(got) + 1] = wire[Len(got) + 1]
      BY <1>0, <1>2, <3>1, AppendProperties DEF Receive
    <3> QED
      BY <1>0, <3>1, <3>2 DEF GotIsSent
  <2>2. CASE ~(Len(got) < MaxCount)
    BY <1>2, <2>2 DEF Receive, GotIsSent
  <2> QED
    BY <2>1, <2>2
<1>3. CASE ReceivedAll
  <2>1. Len(got) = Len(wire) /\ UNCHANGED <<got, wire>>
    BY <1>3 DEF ReceivedAll
  <2>2. got = wire
    BY <1>0, <2>1, SeqEqual DEF GotIsSent
  <2> QED
    BY <2>1, <2>2 DEF GotIsSent
<1>4. ASSUME NEW k \in Key, NEW v \in Value, Add(k, v) PROVE GotIsSent'
  BY <1>4 DEF Add, GotIsSent
<1>5. CASE AddAborts \/ Clear \/ GoOn \/ UNCHANGED vars
  BY <1>5 DEF AddAborts, Clear, GoOn, vars, GotIsSent
<1> QED
  BY <1>1, <1>2, <1>3, <1>4, <1>5 DEF Next

UniqueKeys(s) == \A m, n \in DOMAIN s : s[m].key = s[n].key => m = n

\* The map of a sequence with unique keys.
LEMMA AsMapFacts ==
  ASSUME NEW s \in Seq(Item), UniqueKeys(s)
  PROVE  /\ DOMAIN AsMap(s) = {s[n].key : n \in DOMAIN s}
         /\ AsMap(s) = [k \in DOMAIN AsMap(s) |-> AsMap(s)[k]]
         /\ \A n \in DOMAIN s : AsMap(s)[s[n].key] = s[n].value
<1>1. ASSUME NEW n \in DOMAIN s PROVE AsMap(s)[s[n].key] = s[n].value
  <2> DEFINE S == {m \in DOMAIN s : s[m].key = s[n].key}
  <2>1. S = {n} /\ n \in Int
    BY DEF UniqueKeys
  <2>2. Min(S) = n
    BY <2>1 DEF Min
  <2> QED
    BY <2>2 DEF AsMap
<1> QED
  BY <1>1 DEF AsMap

\* Add sets the value of its key and leaves the others.
LEMMA PutSetsOne ==
  ASSUME IInv, Keyed, NEW k \in Key, NEW v \in Value
  PROVE  AsMap(Put(k, v)) =
           [j \in DOMAIN AsMap(items) \cup {k} |-> IF j = k THEN v ELSE AsMap(items)[j]]
<1> DEFINE new == Put(k, v)
           it == [key |-> k, value |-> v]
<1>1. /\ items \in Seq(Item) /\ UniqueKeys(items)
      /\ new \in Seq(Item) /\ UniqueKeys(new)
  BY PutFacts DEF IInv, TypeOK, OneItemPerKey, UniqueKeys
<1>2. /\ DOMAIN items = 1 .. Len(items) /\ Len(items) \in Nat
      /\ it.key = k /\ it.value = v
  BY <1>1
\* Whichever way the item gets in, it is there, and the others are as before.
<1>3. /\ \E n \in DOMAIN new : new[n] = it
      /\ \A n \in DOMAIN items : items[n].key # k => \E m \in DOMAIN new : new[m] = items[n]
      /\ \A n \in DOMAIN new :
           \/ new[n] = it
           \/ n \in DOMAIN items /\ new[n] = items[n] /\ items[n].key # k
  <2>1. CASE Exists(k)
    <3>1. new = [n \in DOMAIN items |-> IF FirstOf(n, k) THEN it ELSE items[n]]
      BY <2>1 DEF Put
    <3>2. PICK p \in DOMAIN items : items[p].key = k
      BY <2>1 DEF Exists
    <3>3. \A n \in DOMAIN items : FirstOf(n, k) <=> n = p
      BY <1>1, <1>2, <3>2 DEF FirstOf, UniqueKeys
    <3>4. \A n \in DOMAIN items : items[n].key = k => n = p
      BY <1>1, <3>2 DEF UniqueKeys
    <3> HIDE DEF new, it
    <3> QED
      BY <3>1, <3>2, <3>3, <3>4
  <2>2. CASE ~Exists(k)
    <3>1. new = Append(items, it) /\ it \in Item
      BY <2>2 DEF Put, Item
    <3>2. /\ \A n \in 1 .. Len(items) : new[n] = items[n]
          /\ new[Len(items) + 1] = it
          /\ DOMAIN new = 1 .. Len(items) + 1
      BY <1>1, <3>1, AppendProperties
    <3>3. \A n \in DOMAIN items : items[n].key # k
      BY <2>2 DEF Exists
    <3> HIDE DEF new, it
    <3> QED
      BY <1>2, <3>2, <3>3
  <2> QED
    BY <2>1, <2>2
<1> HIDE DEF new, it
<1>4. /\ DOMAIN AsMap(items) = {items[n].key : n \in DOMAIN items}
      /\ \A n \in DOMAIN items : AsMap(items)[items[n].key] = items[n].value
      /\ DOMAIN AsMap(new) = {new[n].key : n \in DOMAIN new}
      /\ AsMap(new) = [j \in DOMAIN AsMap(new) |-> AsMap(new)[j]]
      /\ \A n \in DOMAIN new : AsMap(new)[new[n].key] = new[n].value
  BY <1>1, AsMapFacts
<1>5. DOMAIN AsMap(new) = DOMAIN AsMap(items) \cup {k}
  BY <1>2, <1>3, <1>4
<1>6. ASSUME NEW j \in DOMAIN AsMap(new)
      PROVE  AsMap(new)[j] = IF j = k THEN v ELSE AsMap(items)[j]
  <2>1. PICK n \in DOMAIN new : new[n].key = j
    BY <1>4
  <2>2. CASE new[n] = it
    BY <1>2, <1>4, <2>1, <2>2
  <2>3. CASE n \in DOMAIN items /\ new[n] = items[n] /\ items[n].key # k
    BY <1>4, <2>1, <2>3
  <2> QED
    BY <1>3, <2>2, <2>3
<1> QED
  BY <1>4, <1>5, <1>6 DEF new

\* Every step of the array and its peer is a step of the map, or none.
LEMMA StepRefines ==
  ASSUME Keyed, IInv, GotIsSent, [Next]_vars
  PROVE  [Map!Next]_(Map!vars)
<1> DEFINE sent == IF answer = "taken" THEN AsMap(got) ELSE AsMap(wire)
           delivered == answer \in {"none", "taken"}
<1>1. ASSUME NEW k \in Key, NEW v \in Value, Add(k, v) PROVE Map!Next
  <2>1. AsMap(items)' = AsMap(Put(k, v))
    BY <1>1 DEF Add
  <2>2. Map!Put(k, v)
    BY <1>1, <2>1, PutSetsOne DEF Add, Running, Map!Put
  <2> QED
    BY <2>2 DEF Map!Next
<1>2. CASE AddAborts
  BY <1>2 DEF AddAborts, Running, Map!Stop, Map!Next
<1>3. CASE Clear
  <2>1. AsMap(<<>>) = Map!Empty
    BY DEF AsMap, Map!Empty
  <2> QED
    BY <1>3, <2>1 DEF Clear, Running, Map!Reset, Map!Next
<1>4. CASE Serialize
  BY <1>4 DEF Serialize, Running, Map!Send, Map!Next
<1>5. CASE Receive
  BY <1>5 DEF Receive, Map!vars
<1>6. CASE ReceivedAll
  <2>1. got = wire
    BY <1>6, SeqEqual DEF ReceivedAll, GotIsSent, IInv, TypeOK
  <2> QED
    BY <1>6, <2>1 DEF ReceivedAll, Map!Deliver, Map!Next
<1>7. CASE GoOn
  <2>1. CASE answer = "taken"
    BY <1>7, <2>1 DEF GoOn, GotIsSent, Map!vars
  <2>2. CASE answer = "refused"
    BY <1>7, <2>2 DEF GoOn, Map!Deliver, Map!Next
  <2> QED
    BY <1>7, <2>1, <2>2 DEF GoOn
<1>8. CASE UNCHANGED vars
  BY <1>8 DEF vars, Map!vars
<1> QED
  BY <1>1, <1>2, <1>3, <1>4, <1>5, <1>6, <1>7, <1>8 DEF Next

\* A keyed array, whatever is added to it and however often it is sent, is for
\* the application and its peer the map that KeyedMap describes.
THEOREM ImplementsMap ==
  ASSUME Keyed
  PROVE  Spec => ImplementsKeyedMap
<1>1. Init => Map!Init
  <2>1. AsMap(<<>>) = Map!Empty
    BY DEF AsMap, Map!Empty
  <2> QED
    BY <2>1 DEF Init, Map!Init
<1>2. Init => GotIsSent
  BY DEF Init, GotIsSent
<1>3. IInv /\ GotIsSent /\ [Next]_vars => [Map!Next]_(Map!vars)
  BY StepRefines
<1> QED
  BY <1>1, <1>2, <1>3, StepKeepsGotIsSent, Invariance, PTL DEF Spec, ImplementsKeyedMap
=============================================================================
