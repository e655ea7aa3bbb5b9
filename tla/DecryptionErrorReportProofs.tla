---------------------- MODULE DecryptionErrorReportProofs ----------------------
(***************************************************************************)
(* Proofs about DecryptionErrorReport for tables of every size and buffers *)
(* of any elements.                                                        *)
(***************************************************************************)
EXTENDS DecryptionErrorReport, SequenceTheorems, TLAPS

Slot == [header : Nat, num : Nat, entries : Seq(Nat)]

\* A slot that is not shown yet is empty unless a torn element was read into
\* it; this is why the entries of an element that is taken are its own.
EmptyAhead ==
  \A k \in (1 .. MaxCount) \ tornAt : k > count => slots[k].entries = <<>>

\* The inductive invariant.
IInv == TypeOK /\ OwnEntriesUnlessTorn /\ EmptyAhead

LEMMA InitHolds == Init => IInv
<1> SUFFICES ASSUME Init PROVE IInv
  OBVIOUS
<1>1. <<>> \in Seq(Nat) /\ Len(<<>>) = 0
  OBVIOUS
<1>2. EmptySlot \in Slot /\ EmptySlot.entries = <<>>
  BY <1>1 DEF EmptySlot, Slot
<1>3. TypeOK
  BY <1>1, <1>2, ConstantsAssumption DEF Init, TypeOK, Slot
<1>4. OwnEntriesUnlessTorn /\ EmptyAhead
  BY <1>2 DEF Init, OwnEntriesUnlessTorn, EmptyAhead, Shown
<1> QED
  BY <1>3, <1>4 DEF IInv

\* The slot that an element is read into once its header pointer is set; the
\* others stay.
LEMMA HeaderFacts ==
  ASSUME TypeOK, count < MaxCount, NEW e \in Elements
  PROVE  /\ count + 1 \in 1 .. MaxCount
         /\ WithHeader(e) \in [1 .. MaxCount -> Slot]
         /\ \A k \in 1 .. MaxCount : WithHeader(e)[k].entries = slots[k].entries
         /\ \A k \in 1 .. MaxCount : k # count + 1 => WithHeader(e)[k] = slots[k]
         /\ WithHeader(e)[count + 1].header = element + 1
<1> DEFINE c == count + 1
<1>1. c \in 1 .. MaxCount
  BY ConstantsAssumption DEF TypeOK
<1>2. slots \in [1 .. MaxCount -> Slot] /\ element + 1 \in Nat /\ e.num \in Nat
  BY ConstantsAssumption DEF TypeOK, Slot, Element
<1>3. WithHeader(e) = [slots EXCEPT ![c] = [slots[c] EXCEPT !.header = element + 1,
                                                            !.num = e.num]]
  BY <1>1, <1>2 DEF WithHeader
<1>4. slots[c] \in Slot
  BY <1>1, <1>2
<1>5. /\ [slots[c] EXCEPT !.header = element + 1, !.num = e.num] \in Slot
      /\ [slots[c] EXCEPT !.header = element + 1, !.num = e.num].entries = slots[c].entries
      /\ [slots[c] EXCEPT !.header = element + 1, !.num = e.num].header = element + 1
  BY <1>2, <1>4 DEF Slot
<1> HIDE DEF c
<1>6. /\ WithHeader(e) \in [1 .. MaxCount -> Slot]
      /\ \A k \in 1 .. MaxCount : WithHeader(e)[k].entries = slots[k].entries
      /\ \A k \in 1 .. MaxCount : k # c => WithHeader(e)[k] = slots[k]
      /\ WithHeader(e)[c].header = element + 1
  BY <1>1, <1>2, <1>3, <1>5
<1> QED
  BY <1>1, <1>6 DEF c

\* What the walk stores: entries of this element, behind those of the slot.
LEMMA EntriesFacts ==
  ASSUME TypeOK, count < MaxCount, NEW e \in Elements
  PROVE  /\ WithEntries(e) \in [1 .. MaxCount -> Slot]
         /\ \A k \in 1 .. MaxCount : k # count + 1 => WithEntries(e)[k] = slots[k]
         /\ Len(WithEntries(e)[count + 1].entries) <= MaxEntries
         /\ slots[count + 1].entries = <<>> =>
              \A n \in DOMAIN WithEntries(e)[count + 1].entries :
                WithEntries(e)[count + 1].entries[n] = WithEntries(e)[count + 1].header
<1> DEFINE c == count + 1
           old == slots[c].entries
           new == [n \in 1 .. Stored(e) |-> element + 1]
<1>1. /\ c \in 1 .. MaxCount
      /\ WithHeader(e) \in [1 .. MaxCount -> Slot]
      /\ WithHeader(e)[c].entries = old
      /\ \A k \in 1 .. MaxCount : k # c => WithHeader(e)[k] = slots[k]
      /\ WithHeader(e)[c].header = element + 1
  BY HeaderFacts
<1>2. old \in Seq(Nat) /\ Len(old) \in Nat /\ Len(old) <= MaxEntries
  BY <1>1 DEF TypeOK, Slot
<1>3. Stored(e) \in Nat /\ Stored(e) <= MaxEntries - Len(old)
  BY <1>2, ConstantsAssumption DEF Stored, Room, Element
<1>4. new \in Seq(Nat) /\ Len(new) = Stored(e) /\ \A n \in DOMAIN new : new[n] = element + 1
  BY <1>3 DEF TypeOK
<1> HIDE DEF new
<1>5. old \o new \in Seq(Nat) /\ Len(old \o new) = Len(old) + Len(new)
  BY <1>2, <1>4, ConcatProperties
<1>6. old = <<>> => old \o new = new
  BY <1>4, ConcatEmptySeq
<1>7. WithEntries(e) = [WithHeader(e) EXCEPT
                          ![c] = [WithHeader(e)[c] EXCEPT !.entries = old \o new]]
  BY <1>1 DEF WithEntries, new
<1>8. /\ [WithHeader(e)[c] EXCEPT !.entries = old \o new] \in Slot
      /\ [WithHeader(e)[c] EXCEPT !.entries = old \o new].entries = old \o new
      /\ [WithHeader(e)[c] EXCEPT !.entries = old \o new].header = element + 1
  <2>1. WithHeader(e)[c] \in Slot
    BY <1>1
  <2> QED
    BY <1>1, <1>5, <2>1 DEF Slot
<1>9. /\ WithEntries(e) \in [1 .. MaxCount -> Slot]
      /\ \A k \in 1 .. MaxCount : k # c => WithEntries(e)[k] = slots[k]
      /\ WithEntries(e)[c].entries = old \o new
      /\ WithEntries(e)[c].header = element + 1
  <2> HIDE DEF old, c
  <2> QED
    BY <1>1, <1>7, <1>8
<1>10. Len(WithEntries(e)[c].entries) <= MaxEntries
  BY <1>2, <1>3, <1>4, <1>5, <1>9, ConstantsAssumption
<1>11. old = <<>> => \A n \in DOMAIN WithEntries(e)[c].entries :
                       WithEntries(e)[c].entries[n] = WithEntries(e)[c].header
  BY <1>4, <1>6, <1>9
<1> QED
  BY <1>9, <1>10, <1>11

LEMMA ArrivesTypes ==
  ASSUME TypeOK, NEW e \in Elements, Arrives(e)
  PROVE  /\ element' \in Nat /\ element' # element
         /\ left' \in 0 .. MaxElements
         /\ used' = used
BY ConstantsAssumption DEF TypeOK, Arrives, Reading

LEMMA StepKeepsIInv == IInv /\ [Next]_vars => IInv'
<1> SUFFICES ASSUME IInv, [Next]_vars PROVE IInv'
  OBVIOUS
<1>0. /\ TypeOK /\ OwnEntriesUnlessTorn /\ EmptyAhead
      /\ slots \in [1 .. MaxCount -> Slot]
      /\ \A k \in 1 .. MaxCount : Len(slots[k].entries) <= MaxEntries
      /\ count \in 0 .. MaxCount /\ MaxCount \in Nat
  BY ConstantsAssumption DEF IInv, TypeOK, Slot
<1>1. ASSUME NEW e \in Elements, RejectUntouched(e) PROVE IInv'
  <2>1. Arrives(e) /\ ok' = FALSE /\ UNCHANGED <<slots, count, tornAt>>
    BY <1>1 DEF RejectUntouched
  <2> QED
    BY <1>0, <2>1, ArrivesTypes DEF IInv, TypeOK, OwnEntriesUnlessTorn, EmptyAhead, Shown
<1>2. ASSUME NEW e \in Elements, RejectHeader(e) PROVE IInv'
  <2>1. /\ Arrives(e) /\ ok' = FALSE /\ UNCHANGED <<count, tornAt>>
        /\ count < MaxCount /\ slots' = WithHeader(e)
    BY <1>2 DEF RejectHeader
  <2>2. /\ slots' \in [1 .. MaxCount -> Slot]
        /\ \A k \in 1 .. MaxCount : slots'[k].entries = slots[k].entries
        /\ \A k \in Shown : slots'[k] = slots[k]
    BY <1>0, <2>1, HeaderFacts DEF Shown
  <2>3. TypeOK'
    BY <1>0, <2>1, <2>2, ArrivesTypes DEF TypeOK, Slot
  <2>4. OwnEntriesUnlessTorn'
    BY <1>0, <2>1, <2>2 DEF OwnEntriesUnlessTorn, Shown
  <2>5. EmptyAhead'
    BY <1>0, <2>1, <2>2 DEF EmptyAhead
  <2> QED
    BY <2>3, <2>4, <2>5 DEF IInv
<1>3. ASSUME NEW e \in Elements, Take(e) PROVE IInv'
  <2>1. /\ Arrives(e) /\ ok' = TRUE /\ tornAt' = tornAt /\ count' = count + 1
        /\ count < MaxCount /\ slots' = WithEntries(e)
    BY <1>3 DEF Take
  <2>2. /\ slots' \in [1 .. MaxCount -> Slot]
        /\ \A k \in 1 .. MaxCount : k # count + 1 => slots'[k] = slots[k]
        /\ Len(slots'[count + 1].entries) <= MaxEntries
        /\ slots[count + 1].entries = <<>> =>
             \A n \in DOMAIN slots'[count + 1].entries :
               slots'[count + 1].entries[n] = slots'[count + 1].header
    BY <1>0, <2>1, EntriesFacts
  <2>3. TypeOK'
    <3>1. \A k \in 1 .. MaxCount : Len(slots'[k].entries) <= MaxEntries
      BY <1>0, <2>2
    <3>2. count' \in 0 .. MaxCount
      BY <1>0, <2>1
    <3> QED
      BY <1>0, <2>1, <2>2, <3>1, <3>2, ArrivesTypes DEF TypeOK, Slot
  <2>4. OwnEntriesUnlessTorn'
    <3> SUFFICES ASSUME NEW k \in Shown' \ tornAt', NEW n \in DOMAIN slots'[k].entries
                 PROVE  slots'[k].entries[n] = slots'[k].header
      BY DEF OwnEntriesUnlessTorn
    <3>1. CASE k = count + 1
      <4>1. slots[count + 1].entries = <<>>
        BY <1>0, <2>1, <3>1 DEF EmptyAhead
      <4> QED
        BY <2>2, <3>1, <4>1
    <3>2. CASE k # count + 1
      <4>1. k \in Shown \ tornAt /\ slots'[k] = slots[k]
        BY <1>0, <2>1, <2>2, <3>2 DEF Shown
      <4> QED
        BY <1>0, <4>1 DEF OwnEntriesUnlessTorn
    <3> QED
      BY <3>1, <3>2
  <2>5. EmptyAhead'
    BY <1>0, <2>1, <2>2 DEF EmptyAhead
  <2> QED
    BY <2>3, <2>4, <2>5 DEF IInv
<1>4. ASSUME NEW e \in Elements, RejectEntries(e) PROVE IInv'
  <2>1. /\ Arrives(e) /\ ok' = FALSE /\ tornAt' = tornAt \cup {count + 1} /\ count' = count
        /\ count < MaxCount /\ slots' = WithEntries(e)
    BY <1>4 DEF RejectEntries
  <2>2. /\ slots' \in [1 .. MaxCount -> Slot]
        /\ \A k \in 1 .. MaxCount : k # count + 1 => slots'[k] = slots[k]
        /\ Len(slots'[count + 1].entries) <= MaxEntries
    BY <1>0, <2>1, EntriesFacts
  <2>3. TypeOK'
    <3>1. \A k \in 1 .. MaxCount : Len(slots'[k].entries) <= MaxEntries
      BY <1>0, <2>2
    <3>2. tornAt' \subseteq 1 .. MaxCount
      BY <1>0, <2>1 DEF TypeOK
    <3> QED
      BY <1>0, <2>1, <2>2, <3>1, <3>2, ArrivesTypes DEF TypeOK, Slot
  <2>4. OwnEntriesUnlessTorn'
    BY <1>0, <2>1, <2>2 DEF OwnEntriesUnlessTorn, Shown
  <2>5. EmptyAhead'
    BY <1>0, <2>1, <2>2 DEF EmptyAhead
  <2> QED
    BY <2>3, <2>4, <2>5 DEF IInv
<1>5. CASE NextBuffer
  <2>1. used' \in 1 .. MaxBuffers
    BY <1>0, <1>5, ConstantsAssumption DEF NextBuffer, TypeOK
  <2> QED
    BY <1>0, <1>5, <2>1
    DEF NextBuffer, IInv, TypeOK, OwnEntriesUnlessTorn, EmptyAhead, Shown
<1>6. CASE UNCHANGED vars
  BY <1>0, <1>6 DEF vars, IInv, TypeOK, OwnEntriesUnlessTorn, EmptyAhead, Shown
<1> QED
  BY <1>1, <1>2, <1>3, <1>4, <1>5, <1>6 DEF Next

\* The inductive invariant holds in every reachable state.
THEOREM Invariance == Spec => []IInv
BY InitHolds, StepKeepsIInv, PTL DEF Spec

\* Neither the table of elements nor that of the entries of a slot is overrun,
\* whatever torn elements have left in it.
THEOREM TypeCorrect == Spec => []TypeOK
<1>1. IInv => TypeOK
  BY DEF IInv
<1> QED
  BY <1>1, Invariance, PTL

\* What Get() shows in a slot no torn element has been read into belongs to
\* one element.
THEOREM EntriesAreOwn == Spec => []OwnEntriesUnlessTorn
<1>1. IInv => OwnEntriesUnlessTorn
  BY DEF IInv
<1> QED
  BY <1>1, Invariance, PTL

\* No refused element changes what Get() shows, and one that is taken adds
\* exactly its own slot.
THEOREM RefusalsDoNotShow == Spec => RefusedChangesNothing
<1> DEFINE A == /\ \A k \in Shown : slots'[k] = slots[k]
                /\ count' = count + (IF ok' /\ element' # element THEN 1 ELSE 0)
<1>1. IInv /\ [Next]_vars => [A]_vars
  <2> SUFFICES ASSUME IInv, Next PROVE A
    OBVIOUS
  <2>0. TypeOK /\ count \in 0 .. MaxCount /\ MaxCount \in Nat
    BY ConstantsAssumption DEF IInv, TypeOK
  <2>1. ASSUME NEW e \in Elements, RejectUntouched(e) PROVE A
    BY <2>0, <2>1 DEF RejectUntouched
  <2>2. ASSUME NEW e \in Elements, RejectHeader(e) PROVE A
    BY <2>0, <2>2, HeaderFacts DEF RejectHeader, Shown
  <2>3. ASSUME NEW e \in Elements, Take(e) PROVE A
    BY <2>0, <2>3, EntriesFacts, ArrivesTypes DEF Take, Shown
  <2>4. ASSUME NEW e \in Elements, RejectEntries(e) PROVE A
    BY <2>0, <2>4, EntriesFacts DEF RejectEntries, Shown
  <2>5. CASE NextBuffer
    BY <2>0, <2>5 DEF NextBuffer
  <2> QED
    BY <2>1, <2>2, <2>3, <2>4, <2>5 DEF Next
<1> QED
  BY <1>1, Invariance, PTL DEF Spec, RefusedChangesNothing
=============================================================================
