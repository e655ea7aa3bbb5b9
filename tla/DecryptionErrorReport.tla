------------------------- MODULE DecryptionErrorReport -------------------------
(***************************************************************************)
(* ReadableDecryptionErrorReportArray: the one reader that keeps a table   *)
(* in every slot of its table.  Slot count is filled in place while an     *)
(* element is read and becomes visible to Get() when count is raised at    *)
(* the end; nothing takes back what a failing element has put there.       *)
(*                                                                         *)
(* One Deserialize of the reader is one element.  The elements of a buffer *)
(* are read one after another until one fails or none is left; the owner   *)
(* may then use the same reader for another buffer.                        *)
(***************************************************************************)
EXTENDS Integers, Sequences, FiniteSetsExt

CONSTANTS
  MaxCount,     \* slots of the reader (32 in the code)
  MaxEntries,   \* entries of a slot (255 in the code)
  Elements,     \* the elements a buffer may hold
  MaxElements,  \* how many elements a buffer holds at most
  MaxBuffers    \* how often the reader object is used

(***************************************************************************)
(* An element: whether the header passes Validate, how much of it lies in  *)
(* the buffer - less than its six octets of header, at least those, or all *)
(* it declares -, NumOfEntries, how many good entries the walk meets, and  *)
(* whether it then ends on the end of the element (torn: it meets a bad    *)
(* entry, or one that lies across the end).                                *)
(***************************************************************************)
Element ==
  [valid : BOOLEAN, inside : {"less", "header", "all"}, num : Nat,
   entries : Nat, torn : BOOLEAN]

ASSUME ConstantsAssumption ==
  /\ MaxCount \in Nat \ {0} /\ MaxEntries \in Nat \ {0}
  /\ MaxElements \in Nat /\ MaxBuffers \in Nat \ {0}
  /\ Elements \subseteq Element

VARIABLES
  slots,    \* per slot the element its header points to and its entries
  count,    \* how many slots Get() shows
  element,  \* the serial number of the element read last
  left,     \* how many elements of this buffer are left
  used,     \* how many buffers there have been
  ok,       \* what the last Deserialize returned
  tornAt    \* history: the slots a torn element has been read into

vars == <<slots, count, element, left, used, ok, tornAt>>

EmptySlot == [header |-> 0, num |-> 0, entries |-> <<>>]

Init ==
  /\ slots = [k \in 1 .. MaxCount |-> EmptySlot]
  /\ count = 0
  /\ element = 0
  /\ left \in 0 .. MaxElements
  /\ used = 1
  /\ ok = TRUE
  /\ tornAt = {}

Reading == ok /\ left > 0

Arrives(e) ==
  /\ Reading
  /\ e \in Elements
  /\ element' = element + 1
  /\ left' = left - 1
  /\ UNCHANGED used

\* The table of elements is full, or the header is cut short: nothing is
\* touched.
RejectUntouched(e) ==
  /\ Arrives(e)
  /\ count >= MaxCount \/ e.inside = "less"
  /\ ok' = FALSE
  /\ UNCHANGED <<slots, count, tornAt>>

\* item.header is set before what it points to is looked at.
WithHeader(e) == [slots EXCEPT ![count + 1].header = element + 1,
                               ![count + 1].num = e.num]

HeaderGood(e) == e.valid /\ e.inside = "all"

Room(k) == MaxEntries - Len(slots[k].entries)

\* Mutant: num_of_entries is not looked at.
StoredUnbounded(e) == e.entries

\* The entries the walk stores before it ends or fails.
Stored(e) == IF e.entries <= Room(count + 1) THEN e.entries ELSE Room(count + 1)

WithEntries(e) ==
  [WithHeader(e) EXCEPT ![count + 1].entries =
     @ \o [n \in 1 .. Stored(e) |-> element + 1]]

\* Mutant: the extent of the element is looked at behind the walk.
RejectHeaderLate(e) ==
  /\ Arrives(e)
  /\ count < MaxCount /\ e.inside # "less"
  /\ ~HeaderGood(e)
  /\ slots' = WithEntries(e)
  /\ ok' = FALSE
  /\ UNCHANGED <<count, tornAt>>

RejectHeader(e) ==
  /\ Arrives(e)
  /\ count < MaxCount /\ e.inside # "less"
  /\ ~HeaderGood(e)
  /\ slots' = WithHeader(e)
  /\ ok' = FALSE
  /\ UNCHANGED <<count, tornAt>>

Whole(e) == ~e.torn /\ Stored(e) = e.entries

\* The element is taken: its slot becomes visible.
Take(e) ==
  /\ Arrives(e)
  /\ count < MaxCount
  /\ HeaderGood(e)
  /\ Whole(e)
  /\ slots' = WithEntries(e)
  /\ count' = count + 1
  /\ ok' = TRUE
  /\ UNCHANGED tornAt

\* Mutant: the slot is filled, and visible, although the walk failed.
RejectEntriesShown(e) ==
  /\ Arrives(e)
  /\ count < MaxCount
  /\ HeaderGood(e)
  /\ ~Whole(e)
  /\ slots' = WithEntries(e)
  /\ count' = count + 1
  /\ ok' = FALSE
  /\ UNCHANGED tornAt

\* A bad entry, one too many, or one across the end: what has been stored
\* stays in the slot, with its num_of_entries.
RejectEntries(e) ==
  /\ Arrives(e)
  /\ count < MaxCount
  /\ HeaderGood(e)
  /\ ~Whole(e)
  /\ slots' = WithEntries(e)
  /\ ok' = FALSE
  /\ tornAt' = tornAt \cup {count + 1}
  /\ UNCHANGED count

\* Another buffer for the same reader.
NextBuffer ==
  /\ ~Reading
  /\ used < MaxBuffers
  /\ used' = used + 1
  /\ left' \in 0 .. MaxElements
  /\ ok' = TRUE
  /\ UNCHANGED <<slots, count, element, tornAt>>

Next ==
  \/ \E e \in Elements :
       RejectUntouched(e) \/ RejectHeader(e) \/ Take(e) \/ RejectEntries(e)
  \/ NextBuffer

Spec == Init /\ [][Next]_vars
-----------------------------------------------------------------------------
\* What Get() shows.
Shown == 1 .. count

\* The state of the reader is well typed; neither table is overrun.
TypeOK ==
  /\ slots \in [1 .. MaxCount -> [header : Nat, num : Nat, entries : Seq(Nat)]]
  /\ \A k \in 1 .. MaxCount : Len(slots[k].entries) <= MaxEntries
  /\ count \in 0 .. MaxCount
  /\ element \in Nat
  /\ left \in 0 .. MaxElements
  /\ used \in 1 .. MaxBuffers
  /\ ok \in BOOLEAN
  /\ tornAt \subseteq 1 .. MaxCount

\* A slot that is shown has the entries of its own element only, unless a
\* torn element was read into the same slot before: then they come first, of
\* a buffer that was refused.
OwnEntriesUnlessTorn ==
  \A k \in Shown \ tornAt : \A n \in DOMAIN slots[k].entries :
    slots[k].entries[n] = slots[k].header

\* A refused element changes nothing that Get() shows, whatever it was
\* refused for; an accepted one adds exactly one slot, at the end.
RefusedChangesNothing ==
  [][/\ \A k \in Shown : slots'[k] = slots[k]
     /\ count' = count + (IF ok' /\ element' # element THEN 1 ELSE 0)]_vars

\* "Num of Entries: The number of instances of the Length/MAC Address fields
\* in the array" (DecryptionErrorReport.h:14).  The reader wants it not to be
\* zero and never compares it with what it reads.
AsManyAsCounted ==
  \A k \in Shown : Len(slots[k].entries) = slots[k].num
=============================================================================
