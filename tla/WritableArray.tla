----------------------------- MODULE WritableArray -----------------------------
(***************************************************************************)
(* The writing side of the repeated elements: every Writable<Element>Array *)
(* has Add, Clear and Serialize.  Add replaces an item with the same key   *)
(* in place and appends any other; which part of an item is the key is     *)
(* given per element in CapwapElements.  Serialize writes the items one    *)
(* after another, and the peer's Readable<Element>Array, whose max_count   *)
(* the writer asserts, takes them one by one.                              *)
(*                                                                         *)
(* ASSERT is assert(): with NDEBUG it is compiled away.                    *)
(***************************************************************************)
EXTENDS Integers, Sequences, FiniteSetsExt

CONSTANTS
  Key,       \* the keys items can have
  Value,     \* what an item carries besides its key
  Keyed,     \* FALSE for VendorSpecificPayload, which only appends
  MaxCount,  \* max_count of the readable array
  Asserts,   \* whether ASSERT is compiled in
  MaxItems   \* a bound on the items, for a build without ASSERT

ASSUME ConstantsAssumption ==
  /\ Keyed \in BOOLEAN /\ Asserts \in BOOLEAN
  /\ MaxCount \in Nat \ {0}
  /\ MaxItems \in Nat /\ MaxItems >= MaxCount

Item == [key : Key, value : Value]

VARIABLES
  asked,    \* the key and the value of the last Add, <<>> after Clear
  items,    \* std::vector<Item>
  aborted,  \* an ASSERT has failed
  wire,     \* what the last Serialize wrote
  got,      \* what the peer's array holds, in order
  answer    \* what the peer's Deserialize returned last

vars == <<asked, items, aborted, wire, got, answer>>

Init ==
  /\ asked = <<>>
  /\ items = <<>>
  /\ aborted = FALSE
  /\ wire = <<>>
  /\ got = <<>>
  /\ answer = "none"

Exists(k) == Keyed /\ \E n \in DOMAIN items : items[n].key = k

\* What find_if stops at.
FirstOf(n, k) == items[n].key = k /\ \A m \in 1 .. n - 1 : items[m].key # k

\* Mutant: only the last item is compared.
PutLast(k, v) ==
  IF Keyed /\ items # <<>> /\ items[Len(items)].key = k
    THEN [items EXCEPT ![Len(items)] = [key |-> k, value |-> v]]
    ELSE Append(items, [key |-> k, value |-> v])

\* Mutant: the item that is there is found, and kept as it is.
PutKept(k, v) ==
  IF Exists(k) THEN items ELSE Append(items, [key |-> k, value |-> v])

\* find_if, and then an assignment through the iterator or emplace_back.
Put(k, v) ==
  IF Exists(k)
    THEN [n \in DOMAIN items |->
            IF FirstOf(n, k) THEN [key |-> k, value |-> v] ELSE items[n]]
    ELSE Append(items, [key |-> k, value |-> v])

Running == ~aborted /\ answer = "none"

\* Mutant: <= max_count without the + 1.
HasRoomOffByOne == Len(items) <= MaxCount

\* The ASSERT at the top of Add, which comes before the key is looked up.
HasRoom == Len(items) + 1 <= MaxCount

Add(k, v) ==
  /\ Running
  /\ Asserts => HasRoom
  /\ Len(items) < MaxItems
  /\ asked' = <<k, v>>
  /\ items' = Put(k, v)
  /\ UNCHANGED <<aborted, wire, got, answer>>

AddAborts ==
  /\ Running
  /\ Asserts /\ ~HasRoom
  /\ aborted' = TRUE
  /\ UNCHANGED <<asked, items, wire, got, answer>>

Clear ==
  /\ Running
  /\ asked' = <<>>
  /\ items' = <<>>
  /\ UNCHANGED <<aborted, wire, got, answer>>

\* The buffer is large enough.
Serialize ==
  /\ Running
  /\ wire' = items
  /\ got' = <<>>
  /\ answer' = "reading"
  /\ UNCHANGED <<asked, items, aborted>>

\* The peer's reader, used for the first time, takes the next element.
Receive ==
  /\ answer = "reading"
  /\ Len(got) < Len(wire)
  /\ IF Len(got) < MaxCount
       THEN got' = Append(got, wire[Len(got) + 1]) /\ UNCHANGED answer
       ELSE answer' = "refused" /\ UNCHANGED got
  /\ UNCHANGED <<asked, items, aborted, wire>>

ReceivedAll ==
  /\ answer = "reading"
  /\ Len(got) = Len(wire)
  /\ answer' = "taken"
  /\ UNCHANGED <<asked, items, aborted, wire, got>>

\* The application goes on with its array.
GoOn ==
  /\ answer \in {"taken", "refused"}
  /\ answer' = "none"
  /\ UNCHANGED <<asked, items, aborted, wire, got>>

Next ==
  \/ \E k \in Key, v \in Value : Add(k, v)
  \/ AddAborts \/ Clear \/ Serialize \/ Receive \/ ReceivedAll \/ GoOn

Spec == Init /\ [][Next]_vars
-----------------------------------------------------------------------------
(***************************************************************************)
(* Properties.                                                             *)
(***************************************************************************)

\* The state of the array is well typed, and with ASSERT it never outgrows
\* the table of the peer.
TypeOK ==
  /\ asked \in {<<>>} \cup (Key \X Value)
  /\ items \in Seq(Item)
  /\ aborted \in BOOLEAN
  /\ wire \in Seq(Item)
  /\ got \in Seq(Item)
  /\ answer \in {"none", "reading", "taken", "refused"}
  /\ Len(items) <= (IF Asserts THEN MaxCount ELSE MaxItems)

\* No two items of a keyed array have the same key, after any sequence of
\* Add and Clear: the peer never has to choose between two of them.
OneItemPerKey ==
  Keyed => \A m, n \in DOMAIN items : items[m].key = items[n].key => m = n

\* As long as ASSERT is compiled in, what the writer could build the peer can
\* take: the two sides count against the same max_count.
PeerTakesAll == Asserts => answer # "refused"

\* What the peer holds of a message it has taken is what was sent, and what
\* was sent is, key by key, the last value added since Clear.
AsMap(s) ==
  [k \in {s[n].key : n \in DOMAIN s} |->
     s[Min({n \in DOMAIN s : s[n].key = k})].value]

Map == INSTANCE KeyedMap WITH
  map <- AsMap(items),
  sent <- IF answer = "taken" THEN AsMap(got) ELSE AsMap(wire),
  delivered <- answer \in {"none", "taken"},
  stopped <- aborted

ImplementsKeyedMap == Map!Init /\ [][Map!Next]_(Map!vars)
=============================================================================
