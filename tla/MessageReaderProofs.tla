------------------------- MODULE MessageReaderProofs -------------------------
(***************************************************************************)
(* Proofs about MessageReader for every set of element types, readers,     *)
(* messages and buffers that satisfies its assumptions.  First what the    *)
(* loop stores: the cursor stays on the boundaries, no table overflows, and*)
(* only validated elements are pointed to.  Then what it makes of a buffer:*)
(* as long as nothing has failed it holds exactly what lies behind its     *)
(* cursor, and the answer it gives is the one a declarative reading of the *)
(* whole buffer gives.                                                     *)
(***************************************************************************)
EXTENDS MessageReader, NumberFacts, FiniteSetTheorems, SequenceTheorems, TLAPS

\* A frame of a well laid out buffer is a frame of a known type, and the
\* next offset after it is either the next frame or the end of the layout.
LEMMA FrameFacts ==
  ASSUME NEW b, WellLaidOut(b), NEW i \in DOMAIN b.frames
  PROVE  /\ b.frames[i] \in Frame
         /\ b.frames[i].type \in Type
         /\ IsDescriptor(Element[b.frames[i].type])
         /\ i \in Nat \ {0}
         /\ FrameEnd(b.frames[i]) \in Nat
         /\ FrameEnd(b.frames[i]) >= b.frames[i].at + HeaderSize
<1>1. b.frames \in Seq(Frame)
  BY DEF WellLaidOut
<1>2. b.frames[i] \in Frame /\ i \in Nat \ {0}
  BY <1>1
<1>3. b.frames[i].type \in Type /\ b.frames[i].at \in Nat /\ b.frames[i].len \in Nat
  BY <1>2 DEF Frame
<1>4. IsDescriptor(Element[b.frames[i].type])
  BY <1>3, ElementAssumption
<1> QED
  BY <1>2, <1>3, <1>4 DEF FrameEnd, HeaderSize

\* The end of a frame is the offset of the next one, or the end of the layout.
LEMMA NextBoundary ==
  ASSUME NEW b, WellLaidOut(b), NEW i \in DOMAIN b.frames
  PROVE  \/ FrameEnd(b.frames[i]) = LayoutEnd(b)
         \/ \E j \in DOMAIN b.frames : b.frames[j].at = FrameEnd(b.frames[i])
<1>1. b.frames \in Seq(Frame) /\ Len(b.frames) \in Nat /\ DOMAIN b.frames = 1 .. Len(b.frames)
  BY DEF WellLaidOut
<1>2. CASE i = Len(b.frames)
  <2>1. b.frames # <<>>
    BY <1>1
  <2> QED
    BY <1>2, <2>1 DEF LayoutEnd
<1>3. CASE i # Len(b.frames)
  <2>1. i \in 1 .. Len(b.frames) - 1 /\ i + 1 \in DOMAIN b.frames
    BY <1>1, <1>3
  <2>2. b.frames[i + 1].at = FrameEnd(b.frames[i])
    BY <2>1 DEF WellLaidOut
  <2> QED
    BY <2>1, <2>2
<1> QED
  BY <1>2, <1>3
-----------------------------------------------------------------------------
(***************************************************************************)
(* What the loop stores.                                                   *)
(***************************************************************************)

\* No pointer is younger than the current call.
NoneFromTheFuture ==
  \A t \in Type :
    /\ \A k \in DOMAIN store[t] : store[t][k][1] <= call
    /\ header[t][1] <= call

\* The inductive invariant.
IInv ==
  /\ TypeOK
  /\ OnFrameBoundary
  /\ CapsHold
  /\ NoneFromTheFuture
  /\ StoredAreValidated

\* A pointer to a frame of the current buffer is a pointer.
LEMMA PointerFacts ==
  ASSUME TypeOK, NEW i \in DOMAIN buf.frames
  PROVE  /\ Pointer(i) \in Pointers
         /\ Pointer(i) # Null
         /\ Pointer(i)[1] = call
         /\ Pointer(i)[2] = i
<1>1. i \in Nat \ {0}
  BY FrameFacts DEF TypeOK
<1>2. call \in 1 .. MaxCalls /\ call \in Nat \ {0}
  BY MaxCallsAssumption DEF TypeOK
<1> QED
  BY <1>1, <1>2 DEF Pointer, Pointers, Null

\* What a nested reader stores fits its table, and everything in it is either
\* an earlier pointer of that reader or points to the frame just read.
LEMMA WithSubsFacts ==
  ASSUME TypeOK, CapsHold, NEW i \in DOMAIN buf.frames
  PROVE  LET f == buf.frames[i]
             s == WithSubs(f, i)
         IN  /\ s \in Seq(Pointers)
             /\ Len(s) <= Element[f.type].cap
             /\ \A k \in DOMAIN s :
                  \/ s[k] = Pointer(i)
                  \/ k \in DOMAIN store[f.type] /\ s[k] = store[f.type][k]
<1> DEFINE f == buf.frames[i]
<1>1. f.type \in Type /\ Element[f.type].cap \in Nat /\ f.subs \in Nat
  BY FrameFacts DEF TypeOK, IsDescriptor, Frame
<1>2. store[f.type] \in Seq(Pointers) /\ Len(store[f.type]) <= Element[f.type].cap
  BY <1>1 DEF TypeOK, CapsHold
<1>3. Kept(f) = <<>> \/ Kept(f) = store[f.type]
  BY DEF Kept
<1>4. Kept(f) \in Seq(Pointers) /\ Len(Kept(f)) \in Nat /\ Len(Kept(f)) <= Element[f.type].cap
  <2>1. <<>> \in Seq(Pointers) /\ Len(<<>>) = 0
    OBVIOUS
  <2>2. CASE Kept(f) = <<>>
    BY <1>1, <2>1, <2>2
  <2>3. CASE Kept(f) = store[f.type]
    BY <1>1, <1>2, <2>3
  <2> QED
    BY <1>3, <2>2, <2>3
<1>5. Stored(f) \in Nat /\ Len(Kept(f)) + Stored(f) <= Element[f.type].cap
  BY <1>1, <1>4 DEF Stored
<1> DEFINE subs == [k \in 1 .. Stored(f) |-> Pointer(i)]
<1>6. subs \in Seq(Pointers) /\ Len(subs) = Stored(f)
  BY <1>5, PointerFacts
<1>7. WithSubs(f, i) = Kept(f) \o subs
  BY DEF WithSubs
<1> HIDE DEF subs
<1>8. WithSubs(f, i) \in Seq(Pointers) /\ Len(WithSubs(f, i)) = Len(Kept(f)) + Stored(f)
  BY <1>4, <1>6, <1>7, ConcatProperties
<1>9. ASSUME NEW k \in DOMAIN WithSubs(f, i)
      PROVE  \/ WithSubs(f, i)[k] = Pointer(i)
             \/ k \in DOMAIN store[f.type] /\ WithSubs(f, i)[k] = store[f.type][k]
  <2>1. k \in 1 .. Len(Kept(f)) + Stored(f)
    BY <1>8
  <2>2. CASE k <= Len(Kept(f))
    <3>1. k \in DOMAIN Kept(f) /\ WithSubs(f, i)[k] = Kept(f)[k]
      BY <1>4, <1>5, <1>6, <1>7, <2>1, <2>2
    <3> QED
      BY <1>3, <3>1
  <2>3. CASE k > Len(Kept(f))
    <3>1. WithSubs(f, i)[k] = subs[k - Len(Kept(f))] /\ k - Len(Kept(f)) \in 1 .. Stored(f)
      BY <1>4, <1>5, <1>6, <1>7, <2>1, <2>3
    <3> QED
      BY <3>1 DEF subs
  <2> QED
    BY <1>4, <2>1, <2>2, <2>3
<1>10. Len(WithSubs(f, i)) <= Element[f.type].cap
  BY <1>5, <1>8
<1> QED
  BY <1>8, <1>9, <1>10

\* A failing body leaves the cursor at one of the offsets the frame names.
LEMMA StopFacts ==
  ASSUME TypeOK, CapsHold, NEW i \in DOMAIN buf.frames
  PROVE  buf.frames[i].stop[Stored(buf.frames[i]) + 1] \in Nat
<1> DEFINE f == buf.frames[i]
<1>1. /\ f.type \in Type /\ f.subs \in Nat /\ f.stop \in Seq(Nat)
      /\ Element[f.type].cap \in Nat
  BY FrameFacts DEF TypeOK, IsDescriptor, Frame
<1>2. Len(f.stop) > f.subs
  BY DEF TypeOK, WellLaidOut
<1>3. Len(Kept(f)) \in Nat /\ Len(Kept(f)) <= Element[f.type].cap
  <2>1. store[f.type] \in Seq(Pointers) /\ Len(store[f.type]) <= Element[f.type].cap
    BY <1>1 DEF TypeOK, CapsHold
  <2>2. Kept(f) = <<>> \/ Kept(f) = store[f.type]
    BY DEF Kept
  <2>3. Len(<<>>) = 0
    OBVIOUS
  <2> QED
    BY <1>1, <2>1, <2>2, <2>3
<1>4. Stored(f) \in Nat /\ Stored(f) <= f.subs
  BY <1>1, <1>3 DEF Stored
<1> DEFINE n == Stored(f) + 1
<1>5. n \in 1 .. Len(f.stop)
  BY <1>1, <1>2, <1>4
<1> HIDE DEF n
<1>6. f.stop[n] \in Nat
  BY <1>1, <1>5
<1> QED
  BY <1>6 DEF n

\* A step that consumes a whole frame leaves the cursor on a boundary.
LEMMA AdvanceKeepsBoundary ==
  ASSUME TypeOK, NEW i \in DOMAIN buf.frames, Fits(buf.frames[i]),
         buf' = buf, cursor' = FrameEnd(buf.frames[i])
  PROVE  OnFrameBoundary' /\ cursor' \in Nat
<1>1. WellLaidOut(buf)
  BY DEF TypeOK
<1>2. cursor' \in Nat
  BY <1>1, FrameFacts
<1>3. cursor' <= buf'.size
  BY DEF Fits
<1>4. cursor' = LayoutEnd(buf') \/ \E j \in DOMAIN buf'.frames : buf'.frames[j].at = cursor'
  BY <1>1, NextBoundary
<1> QED
  BY <1>2, <1>3, <1>4 DEF OnFrameBoundary

\* While the buffer stays, what is pointed to stays.
LEMMA PointsToStays ==
  ASSUME UNCHANGED <<buf, call>>
  PROVE  \A p, t : PointsTo(p, t) => PointsTo(p, t)'
BY DEF PointsTo, HeaderOk, Fits, FrameEnd, HeaderSize

\* A step that puts frame i into the reader of its type, and touches no other:
\* what its table and its header hold is i or was held before.
Stores(i) ==
  LET y == buf.frames[i].type IN
  /\ store' \in [Type -> Seq(Pointers)]
  /\ header' \in [Type -> Pointers \cup {Null}]
  /\ \A t \in Type : t # y => store'[t] = store[t] /\ header'[t] = header[t]
  /\ Len(store'[y]) <= Element[y].cap
  /\ \A k \in DOMAIN store'[y] :
       \/ store'[y][k] = Pointer(i)
       \/ \E j \in DOMAIN store[y] : store'[y][k] = store[y][j]
  /\ \/ header'[y] = header[y]
     \/ Kind(y) = "nested" /\ header'[y] = Pointer(i)

\* Such a step keeps what the invariant says of the readers, if the frame has
\* a good header.
LEMMA StoringKeeps ==
  ASSUME IInv, NEW i \in DOMAIN buf.frames, HeaderOk(buf.frames[i]), Stores(i),
         UNCHANGED <<msg, buf, call, unknown>>,
         cursor' \in Nat, phase' \in {"reading", "rejected"}
  PROVE  TypeOK' /\ CapsHold' /\ NoneFromTheFuture' /\ StoredAreValidated'
<1> USE DEF IInv
<1> DEFINE y == buf.frames[i].type
<1>1. y \in Type /\ IsDescriptor(Element[y])
  BY FrameFacts DEF TypeOK
<1>2. /\ Pointer(i) \in Pointers
      /\ Pointer(i) # Null
      /\ Pointer(i)[1] = call
      /\ Pointer(i)[2] = i
  BY PointerFacts
<1>3. call \in Nat
  BY MaxCallsAssumption DEF TypeOK
<1>4. /\ store' \in [Type -> Seq(Pointers)]
      /\ header' \in [Type -> Pointers \cup {Null}]
      /\ Len(store'[y]) <= Element[y].cap
  BY DEF Stores
<1>5. \A t \in Type : t # y => store'[t] = store[t] /\ header'[t] = header[t]
  BY DEF Stores
<1>6. ASSUME NEW k \in DOMAIN store'[y]
      PROVE  \/ store'[y][k] = Pointer(i)
             \/ \E j \in DOMAIN store[y] : store'[y][k] = store[y][j]
  BY <1>6 DEF Stores
<1>7. \/ header'[y] = header[y]
      \/ Kind(y) = "nested" /\ header'[y] = Pointer(i)
  BY DEF Stores
<1> HIDE DEF y
<1>8. TypeOK'
  <2>1. Kind(y) = "single" => Len(store'[y]) <= 1
    BY <1>1, <1>4 DEF IsDescriptor, Kind
  <2>2. Kind(y) # "nested" => header'[y] = Null
    BY <1>1, <1>7 DEF TypeOK
  <2>3. \A t \in Type :
          /\ Kind(t) = "single" => Len(store'[t]) <= 1
          /\ Kind(t) # "nested" => header'[t] = Null
    BY <1>5, <2>1, <2>2 DEF TypeOK
  <2> QED
    BY <1>4, <2>3 DEF TypeOK, WellLaidOut, LayoutEnd, FrameEnd, Kind
<1>9. CapsHold'
  BY <1>4, <1>5 DEF CapsHold
<1>10. NoneFromTheFuture'
  <2>1. \A k \in DOMAIN store'[y] : store'[y][k][1] <= call
    BY <1>1, <1>2, <1>3, <1>6 DEF NoneFromTheFuture
  <2>2. header'[y][1] <= call
    BY <1>1, <1>2, <1>3, <1>7 DEF NoneFromTheFuture
  <2> QED
    BY <1>5, <2>1, <2>2 DEF NoneFromTheFuture
<1>11. StoredAreValidated'
  <2>1. PointsTo(Pointer(i), y)
    BY <1>2 DEF PointsTo, y
  <2>2. \A k \in DOMAIN store'[y] : PointsTo(store'[y][k], y)
    BY <1>1, <1>6, <2>1 DEF StoredAreValidated
  <2>3. PointsTo(header'[y], y)
    BY <1>1, <1>7, <2>1 DEF StoredAreValidated
  <2> QED
    BY <1>5, <2>2, <2>3, PointsToStays DEF StoredAreValidated
<1> QED
  BY <1>8, <1>9, <1>10, <1>11

\* A step that leaves the readers alone keeps what the invariant says of them.
LEMMA NotStoringKeeps ==
  ASSUME IInv, UNCHANGED <<msg, buf, call, store, header>>,
         cursor' \in Nat, unknown' \in Nat,
         phase' \in {"reading", "accepted", "rejected"}
  PROVE  TypeOK' /\ CapsHold' /\ NoneFromTheFuture' /\ StoredAreValidated'
<1> USE DEF IInv
<1>1. TypeOK'
  BY DEF TypeOK, WellLaidOut, LayoutEnd, FrameEnd, Kind
<1>2. CapsHold' /\ NoneFromTheFuture'
  BY DEF CapsHold, NoneFromTheFuture
<1>3. StoredAreValidated'
  BY PointsToStays DEF StoredAreValidated
<1> QED
  BY <1>1, <1>2, <1>3

-----------------------------------------------------------------------------
(***************************************************************************)
(* One lemma per action.                                                   *)
(***************************************************************************)

\* A reader object that has been constructed and given its first buffer.
Fresh ==
  /\ msg \in Messages
  /\ WellLaidOut(buf)
  /\ cursor = 0
  /\ phase = "reading"
  /\ call = 1
  /\ store = [t \in Type |-> <<>>]
  /\ header = [t \in Type |-> Null]
  /\ unknown = 0

LEMMA InitIsFresh == Init => Fresh
BY BuffersAssumption DEF Init, Fresh

LEMMA FreshIInv == Fresh => IInv
<1> SUFFICES ASSUME Fresh PROVE IInv
  OBVIOUS
<1> USE DEF Fresh
<1>1. WellLaidOut(buf)
  OBVIOUS
<1>2. Null \in Pointers \cup {Null} /\ <<>> \in Seq(Pointers) /\ Null[1] = 0
  BY DEF Null
<1>3. 1 \in 1 .. MaxCalls
  BY MaxCallsAssumption
<1>4. TypeOK
  BY <1>1, <1>2, <1>3 DEF TypeOK
<1>5. OnFrameBoundary
  <2>1. 0 <= buf.size
    BY <1>1 DEF WellLaidOut
  <2>2. CASE buf.frames = <<>>
    BY <2>1, <2>2 DEF OnFrameBoundary, LayoutEnd
  <2>3. CASE buf.frames # <<>>
    <3>1. 1 \in DOMAIN buf.frames /\ buf.frames[1].at = 0
      BY <1>1, <2>3 DEF WellLaidOut
    <3> QED
      BY <2>1, <3>1 DEF OnFrameBoundary
  <2> QED
    BY <2>2, <2>3
<1>6. CapsHold
  BY ElementAssumption DEF CapsHold, IsDescriptor
<1>7. NoneFromTheFuture /\ StoredAreValidated
  BY <1>2 DEF NoneFromTheFuture, StoredAreValidated, PointsTo
<1> QED
  BY <1>4, <1>5, <1>6, <1>7 DEF IInv

LEMMA ReadSingleKeeps ==
  ASSUME IInv, NEW i \in DOMAIN buf.frames, ReadSingle(i)
  PROVE  IInv'
<1> DEFINE y == buf.frames[i].type
<1>1. y \in Type /\ FrameEnd(buf.frames[i]) \in Nat
  BY FrameFacts DEF IInv, TypeOK
<1>2. /\ store \in [Type -> Seq(Pointers)] /\ header \in [Type -> Pointers \cup {Null}]
      /\ store' = [store EXCEPT ![y] = <<Pointer(i)>>] /\ header' = header
  BY DEF IInv, TypeOK, ReadSingle
<1>3. <<Pointer(i)>> \in Seq(Pointers) /\ Len(<<Pointer(i)>>) <= Element[y].cap
  BY <1>1, PointerFacts, ElementAssumption DEF IInv, ReadSingle, IsDescriptor, Kind
<1>4. Stores(i)
  BY <1>1, <1>2, <1>3 DEF Stores
<1>5. HeaderOk(buf.frames[i]) /\ phase = "reading" /\ cursor' = FrameEnd(buf.frames[i])
      /\ UNCHANGED <<msg, buf, call, unknown, phase>>
  BY DEF ReadSingle, Under
<1>6. TypeOK' /\ CapsHold' /\ NoneFromTheFuture' /\ StoredAreValidated'
  BY <1>1, <1>4, <1>5, StoringKeeps
<1>7. OnFrameBoundary'
  BY <1>5, AdvanceKeepsBoundary DEF IInv, HeaderOk
<1> QED
  BY <1>6, <1>7 DEF IInv

LEMMA ReadArrayKeeps ==
  ASSUME IInv, NEW i \in DOMAIN buf.frames, ReadArray(i)
  PROVE  IInv'
<1> DEFINE y == buf.frames[i].type
           s == Append(store[y], Pointer(i))
<1>1. y \in Type /\ FrameEnd(buf.frames[i]) \in Nat /\ Element[y].cap \in Nat
  BY FrameFacts DEF IInv, TypeOK, IsDescriptor
<1>2. /\ store \in [Type -> Seq(Pointers)] /\ header \in [Type -> Pointers \cup {Null}]
      /\ store' = [store EXCEPT ![y] = s] /\ header' = header
      /\ Len(store[y]) < Element[y].cap
  BY DEF IInv, TypeOK, ReadArray, HasRoom
<1>3. store[y] \in Seq(Pointers) /\ Pointer(i) \in Pointers
  BY <1>1, <1>2, PointerFacts DEF IInv
<1>4. s \in Seq(Pointers) /\ Len(s) <= Element[y].cap
  BY <1>1, <1>2, <1>3
<1>5. \A k \in DOMAIN s : s[k] = Pointer(i) \/ \E j \in DOMAIN store[y] : s[k] = store[y][j]
  BY <1>3
<1> HIDE DEF s
<1>6. Stores(i)
  BY <1>1, <1>2, <1>4, <1>5 DEF Stores
<1>7. HeaderOk(buf.frames[i]) /\ phase = "reading" /\ cursor' = FrameEnd(buf.frames[i])
      /\ UNCHANGED <<msg, buf, call, unknown, phase>>
  BY DEF ReadArray, Under
<1>8. TypeOK' /\ CapsHold' /\ NoneFromTheFuture' /\ StoredAreValidated'
  BY <1>1, <1>6, <1>7, StoringKeeps
<1>9. OnFrameBoundary'
  BY <1>7, AdvanceKeepsBoundary DEF IInv, HeaderOk
<1> QED
  BY <1>8, <1>9 DEF IInv

\* A nested reader that has come past its header stores what Stores allows.
LEMMA NestedStores ==
  ASSUME IInv, NEW i \in DOMAIN buf.frames, Kind(buf.frames[i].type) = "nested",
         store' = [store EXCEPT ![buf.frames[i].type] = WithSubs(buf.frames[i], i)],
         header' = [header EXCEPT ![buf.frames[i].type] = Pointer(i)]
  PROVE  Stores(i)
<1> DEFINE y == buf.frames[i].type
           s == WithSubs(buf.frames[i], i)
<1>1. y \in Type
  BY FrameFacts DEF IInv, TypeOK
<1>2. store \in [Type -> Seq(Pointers)] /\ header \in [Type -> Pointers \cup {Null}]
  BY DEF IInv, TypeOK
<1>3. /\ s \in Seq(Pointers)
      /\ Len(s) <= Element[y].cap
      /\ \A k \in DOMAIN s :
           \/ s[k] = Pointer(i)
           \/ k \in DOMAIN store[y] /\ s[k] = store[y][k]
  BY WithSubsFacts DEF IInv
<1>4. store' = [store EXCEPT ![y] = s] /\ header' = [header EXCEPT ![y] = Pointer(i)]
  BY DEF y
<1>5. Pointer(i) \in Pointers
  BY PointerFacts DEF IInv
<1> HIDE DEF s
<1> QED
  BY <1>1, <1>2, <1>3, <1>4, <1>5 DEF Stores

LEMMA ReadNestedKeeps ==
  ASSUME IInv, NEW i \in DOMAIN buf.frames, ReadNested(i)
  PROVE  IInv'
<1>1. FrameEnd(buf.frames[i]) \in Nat
  BY FrameFacts DEF IInv, TypeOK
<1>2. Stores(i)
  BY NestedStores DEF ReadNested
<1>3. HeaderOk(buf.frames[i]) /\ phase = "reading" /\ cursor' = FrameEnd(buf.frames[i])
      /\ UNCHANGED <<msg, buf, call, unknown, phase>>
  BY DEF ReadNested, Under
<1>4. TypeOK' /\ CapsHold' /\ NoneFromTheFuture' /\ StoredAreValidated'
  BY <1>1, <1>2, <1>3, StoringKeeps
<1>5. OnFrameBoundary'
  BY <1>3, AdvanceKeepsBoundary DEF IInv, HeaderOk
<1> QED
  BY <1>4, <1>5 DEF IInv

LEMMA SkipUnknownKeeps ==
  ASSUME IInv, NEW i \in DOMAIN buf.frames, SkipUnknown(i)
  PROVE  IInv'
<1>1. FrameEnd(buf.frames[i]) \in Nat
  BY FrameFacts DEF IInv, TypeOK
<1>2. TypeOK' /\ CapsHold' /\ NoneFromTheFuture' /\ StoredAreValidated'
  BY <1>1, NotStoringKeeps DEF SkipUnknown, Under, IInv, TypeOK
<1>3. OnFrameBoundary'
  BY AdvanceKeepsBoundary DEF IInv, SkipUnknown
<1> QED
  BY <1>2, <1>3 DEF IInv

LEMMA RejectUnknownKeeps ==
  ASSUME IInv, NEW i \in DOMAIN buf.frames, RejectUnknown(i)
  PROVE  IInv'
<1>1. TypeOK' /\ CapsHold' /\ NoneFromTheFuture' /\ StoredAreValidated'
  BY NotStoringKeeps DEF RejectUnknown, IInv, TypeOK
<1>2. OnFrameBoundary'
  BY DEF RejectUnknown, OnFrameBoundary
<1> QED
  BY <1>1, <1>2 DEF IInv

LEMMA RejectHeaderKeeps ==
  ASSUME IInv, NEW i \in DOMAIN buf.frames, RejectHeader(i)
  PROVE  IInv'
<1> DEFINE f == buf.frames[i]
<1> USE DEF IInv
<1>1. f.type \in Type /\ header \in [Type -> Pointers \cup {Null}]
  BY FrameFacts DEF TypeOK
<1>2. header' \in [Type -> Pointers \cup {Null}]
      /\ \A t \in Type : header'[t] = header[t] \/ header'[t] = Null
  BY <1>1 DEF RejectHeader
<1>3. TypeOK'
  BY <1>2 DEF TypeOK, RejectHeader, WellLaidOut, LayoutEnd, FrameEnd, Kind
<1>4. CapsHold'
  BY DEF CapsHold, RejectHeader
<1>5. call \in Nat \ {0} /\ Null[1] = 0
  BY MaxCallsAssumption DEF TypeOK, Null
<1>6. NoneFromTheFuture'
  BY <1>2, <1>5 DEF NoneFromTheFuture, RejectHeader
<1>7. StoredAreValidated'
  <2>1. \A t \in Type : PointsTo(Null, t)
    BY <1>5 DEF PointsTo
  <2> QED
    BY <1>2, <2>1, PointsToStays DEF StoredAreValidated, RejectHeader
<1>8. OnFrameBoundary'
  BY DEF RejectHeader, OnFrameBoundary
<1> QED
  BY <1>3, <1>4, <1>6, <1>7, <1>8

LEMMA RejectBodyKeeps ==
  ASSUME IInv, NEW i \in DOMAIN buf.frames, RejectBody(i)
  PROVE  IInv'
<1> DEFINE f == buf.frames[i]
<1>1. f \in Frame /\ f.type \in Type /\ cursor' \in Nat
  <2>1. WellLaidOut(buf) /\ buf.frames \in Seq(Frame) /\ f \in Frame
    BY FrameFacts DEF IInv, TypeOK, WellLaidOut
  <2>2. f.stop[Stored(f) + 1] \in Nat
    BY StopFacts DEF IInv
  <2>3. cursor' = f.at + f.stop[Stored(f) + 1]
    BY DEF RejectBody
  <2>4. f.at \in Nat /\ f.type \in Type
    BY <2>1 DEF Frame
  <2> QED
    BY <2>1, <2>2, <2>3, <2>4
<1>2. OnFrameBoundary'
  BY DEF RejectBody, OnFrameBoundary
<1>3. CASE Kind(f.type) = "nested"
  <2>1. Stores(i)
    BY <1>3, NestedStores DEF RejectBody
  <2>2. HeaderOk(f) /\ phase' = "rejected" /\ UNCHANGED <<msg, buf, call, unknown>>
    BY DEF RejectBody
  <2>3. TypeOK' /\ CapsHold' /\ NoneFromTheFuture' /\ StoredAreValidated'
    BY <1>1, <2>1, <2>2, StoringKeeps
  <2> QED
    BY <1>2, <2>3 DEF IInv
<1>4. CASE Kind(f.type) # "nested"
  <2>1. TypeOK' /\ CapsHold' /\ NoneFromTheFuture' /\ StoredAreValidated'
    BY <1>1, <1>4, NotStoringKeeps DEF RejectBody, IInv, TypeOK
  <2> QED
    BY <1>2, <2>1 DEF IInv
<1> QED
  BY <1>3, <1>4

LEMMA FinishKeeps ==
  ASSUME IInv, Finish
  PROVE  IInv'
<1>1. TypeOK' /\ CapsHold' /\ NoneFromTheFuture' /\ StoredAreValidated'
  BY NotStoringKeeps DEF Finish, IInv, TypeOK
<1>2. OnFrameBoundary'
  BY DEF Finish, OnFrameBoundary, IInv
<1> QED
  BY <1>1, <1>2 DEF IInv

\* The pointers of the calls before refer to no element of the new buffer.
LEMMA DeserializeAgainKeeps ==
  ASSUME IInv, DeserializeAgain(Buffers, Buffers)
  PROVE  IInv'
<1> USE DEF IInv, DeserializeAgain
<1>1. WellLaidOut(buf')
  BY BuffersAssumption
<1>2. call \in Nat \ {0} /\ call' = call + 1 /\ call' \in 1 .. MaxCalls
  BY MaxCallsAssumption DEF TypeOK
<1>3. TypeOK'
  BY <1>1, <1>2 DEF TypeOK, WellLaidOut, LayoutEnd, FrameEnd, Kind
<1>4. CapsHold'
  BY DEF CapsHold
<1>5. \A t \in Type :
        /\ \A k \in DOMAIN store[t] : store[t][k][1] \in Nat /\ store[t][k][1] <= call
        /\ header[t][1] \in Nat /\ header[t][1] <= call
  BY MaxCallsAssumption DEF TypeOK, NoneFromTheFuture, Pointers, Null
<1>6. NoneFromTheFuture'
  BY <1>2, <1>5 DEF NoneFromTheFuture
<1>7. StoredAreValidated'
  BY <1>2, <1>5 DEF StoredAreValidated, PointsTo
<1>8. OnFrameBoundary'
  <2>1. 0 <= buf'.size
    BY <1>1 DEF WellLaidOut
  <2>2. CASE buf'.frames = <<>>
    BY <2>1, <2>2 DEF OnFrameBoundary, LayoutEnd
  <2>3. CASE buf'.frames # <<>>
    <3>1. 1 \in DOMAIN buf'.frames /\ buf'.frames[1].at = 0
      BY <1>1, <2>3 DEF WellLaidOut
    <3> QED
      BY <2>1, <3>1 DEF OnFrameBoundary
  <2> QED
    BY <2>2, <2>3
<1> QED
  BY <1>3, <1>4, <1>6, <1>7, <1>8

LEMMA NextKeeps == IInv /\ [Next]_vars => IInv'
<1> SUFFICES ASSUME IInv, [Next]_vars PROVE IInv'
  OBVIOUS
<1>1. ASSUME NEW i \in DOMAIN buf.frames,
             \/ ReadSingle(i) \/ ReadArray(i) \/ ReadNested(i) \/ SkipUnknown(i)
             \/ RejectUnknown(i) \/ RejectHeader(i) \/ RejectBody(i)
      PROVE  IInv'
  BY <1>1, ReadSingleKeeps, ReadArrayKeeps, ReadNestedKeeps, SkipUnknownKeeps,
     RejectUnknownKeeps, RejectHeaderKeeps, RejectBodyKeeps
<1>2. CASE Finish
  BY <1>2, FinishKeeps
<1>3. CASE DeserializeAgain(Buffers, Buffers)
  BY <1>3, DeserializeAgainKeeps
<1>4. CASE UNCHANGED vars
  <2>1. TypeOK' /\ OnFrameBoundary' /\ CapsHold' /\ NoneFromTheFuture'
    BY <1>4 DEF vars, IInv, TypeOK, OnFrameBoundary, CapsHold, NoneFromTheFuture,
       WellLaidOut, LayoutEnd, FrameEnd, HeaderSize, Kind
  <2>2. StoredAreValidated'
    BY <1>4, PointsToStays DEF vars, IInv, StoredAreValidated
  <2> QED
    BY <2>1, <2>2 DEF IInv
<1> QED
  BY <1>1, <1>2, <1>3, <1>4 DEF Next, LoopStep

-----------------------------------------------------------------------------
(***************************************************************************)
(* The theorems.                                                           *)
(***************************************************************************)

\* The inductive invariant holds in every reachable state.
THEOREM Invariance == Spec => []IInv
BY InitIsFresh, FreshIInv, NextKeeps, PTL DEF Spec

\* The state stays well typed, whatever the readers, messages and buffers.
THEOREM TypeCorrect == Spec => []TypeOK
<1>1. IInv => TypeOK
  BY DEF IInv
<1> QED
  BY <1>1, Invariance, PTL

\* Until an element fails, every reader has consumed exactly the elements it
\* was given: the cursor stays in the buffer and on the boundary of a frame.
THEOREM CursorOnBoundary == Spec => []OnFrameBoundary
<1>1. IInv => OnFrameBoundary
  BY DEF IInv
<1> QED
  BY <1>1, Invariance, PTL

\* No table overflows, over however many buffers the reader is used for.
THEOREM TablesNeverOverflow == Spec => []CapsHold
<1>1. IInv => CapsHold
  BY DEF IInv
<1> QED
  BY <1>1, Invariance, PTL

\* Every pointer into the current buffer refers to a whole element of the
\* reader's type that passed its checks, after a rejection too.
THEOREM OnlyValidatedIsStored == Spec => []StoredAreValidated
<1>1. IInv => StoredAreValidated
  BY DEF IInv
<1> QED
  BY <1>1, Invariance, PTL
-----------------------------------------------------------------------------
(***************************************************************************)
(* Every call returns, but for the fairness of the scheduler: a turn of    *)
(* the loop is always possible, and there is a bound on their number.      *)
(***************************************************************************)

\* How many octets there still are to be read, the answer counted as a header.
Ahead == IF phase = "reading" THEN (buf.size - cursor) + HeaderSize ELSE 0

\* While a call is under way either there is no header left, which ends the
\* loop, or the cursor is on a frame, which is then taken, skipped or refused.
ATurnIsPossible ==
  phase = "reading" =>
    \/ cursor + HeaderSize > buf.size
    \/ \E i \in DOMAIN buf.frames : Under(i)

\* An element that is taken takes its header at least, and lies in the buffer.
LEMMA TakingMovesOn ==
  ASSUME IInv, NEW i \in DOMAIN buf.frames, Under(i), Fits(buf.frames[i]),
         cursor' = FrameEnd(buf.frames[i]), UNCHANGED <<buf, phase>>
  PROVE  Ahead' + HeaderSize <= Ahead
<1>1. WellLaidOut(buf) /\ cursor \in Nat /\ buf.size \in Nat
  BY DEF IInv, TypeOK, WellLaidOut
<1>2. /\ FrameEnd(buf.frames[i]) \in Nat
      /\ FrameEnd(buf.frames[i]) >= cursor + HeaderSize
  BY <1>1, FrameFacts DEF Under
<1> QED
  BY <1>1, <1>2 DEF Ahead, Under, HeaderSize

\* A call that ends had a header to go at least.
LEMMA EndingMovesOn ==
  ASSUME IInv, phase = "reading", phase' # "reading"
  PROVE  Ahead' + HeaderSize <= Ahead
<1>1. cursor \in Nat /\ buf.size \in Nat /\ cursor <= buf.size
  BY DEF IInv, TypeOK, WellLaidOut, OnFrameBoundary
<1> QED
  BY <1>1 DEF Ahead, HeaderSize

LEMMA TurnMovesOn ==
  ASSUME IInv, LoopStep
  PROVE  Ahead' + HeaderSize <= Ahead
<1>1. ASSUME NEW i \in DOMAIN buf.frames,
             ReadSingle(i) \/ ReadArray(i) \/ ReadNested(i) \/ SkipUnknown(i)
      PROVE  Ahead' + HeaderSize <= Ahead
  <2>1. /\ Under(i) /\ Fits(buf.frames[i]) /\ cursor' = FrameEnd(buf.frames[i])
        /\ UNCHANGED <<buf, phase>>
    BY <1>1 DEF ReadSingle, ReadArray, ReadNested, SkipUnknown, HeaderOk
  <2> QED
    BY <2>1, TakingMovesOn
<1>2. ASSUME NEW i \in DOMAIN buf.frames,
             RejectUnknown(i) \/ RejectHeader(i) \/ RejectBody(i)
      PROVE  Ahead' + HeaderSize <= Ahead
  <2>1. phase = "reading" /\ phase' # "reading"
    BY <1>2 DEF RejectUnknown, RejectHeader, RejectBody, Under
  <2> QED
    BY <2>1, EndingMovesOn
<1>3. CASE Finish
  BY <1>3, EndingMovesOn DEF Finish
<1> QED
  BY <1>1, <1>2, <1>3 DEF LoopStep

\* Each turn of the loop, whatever it meets, brings the end of the call nearer
\* by a header at least: a buffer of n octets takes n / 4 + 1 turns at most.
THEOREM TurnsAreBounded ==
  Spec => /\ [](Ahead \in Nat)
          /\ [][LoopStep => Ahead' + HeaderSize <= Ahead]_vars
<1>1. IInv => Ahead \in Nat
  BY DEF IInv, TypeOK, WellLaidOut, OnFrameBoundary, Ahead, HeaderSize
<1>2. IInv /\ [Next]_vars => [LoopStep => Ahead' + HeaderSize <= Ahead]_vars
  BY TurnMovesOn
<1> QED
  BY <1>1, <1>2, Invariance, PTL DEF Spec

\* The loop never stops with a header in front of it that no reader looks at:
\* while a call is under way the cursor is on a frame, or at the end.
THEOREM NothingIsStuck == Spec => []ATurnIsPossible
<1>1. IInv => ATurnIsPossible
  <2> SUFFICES ASSUME IInv, phase = "reading", ~(cursor + HeaderSize > buf.size)
               PROVE  \E i \in DOMAIN buf.frames : Under(i)
    BY DEF ATurnIsPossible
  <2>1. /\ WellLaidOut(buf) /\ cursor \in Nat /\ buf.size \in Nat
        /\ cursor + HeaderSize <= buf.size
    BY DEF IInv, TypeOK, WellLaidOut, HeaderSize
  <2>2. cursor = LayoutEnd(buf) \/ \E i \in DOMAIN buf.frames : buf.frames[i].at = cursor
    BY DEF IInv, OnFrameBoundary
  <2>3. cursor # LayoutEnd(buf)
    BY <2>1 DEF WellLaidOut, HeaderSize
  <2> QED
    BY <2>1, <2>2, <2>3 DEF Under
<1> QED
  BY <1>1, Invariance, PTL
-----------------------------------------------------------------------------
(***************************************************************************)
(* The order of the frames.                                                *)
(***************************************************************************)

\* The frames of a buffer do not overlap: what comes before ends before.
LEMMA FramesInOrder ==
  ASSUME NEW b, WellLaidOut(b), NEW i \in DOMAIN b.frames, NEW j \in DOMAIN b.frames,
         i < j
  PROVE  FrameEnd(b.frames[i]) <= b.frames[j].at
<1>1. b.frames \in Seq(Frame) /\ DOMAIN b.frames = 1 .. Len(b.frames) /\ Len(b.frames) \in Nat
  BY DEF WellLaidOut
<1> DEFINE T == {k \in DOMAIN b.frames : i < k /\ ~(FrameEnd(b.frames[i]) <= b.frames[k].at)}
<1> SUFFICES ASSUME T # {} PROVE FALSE
  OBVIOUS
<1>2. PICK k \in T : \A m \in T : k <= m
  <2>1. T \in SUBSET Nat
    BY <1>1
  <2> QED
    BY <2>1, LeastElement
<1>3. k - 1 \in 1 .. Len(b.frames) - 1 /\ k - 1 \in DOMAIN b.frames /\ k - 1 >= i
  BY <1>1, <1>2
<1>4. b.frames[k].at = FrameEnd(b.frames[k - 1])
  <2>1. (k - 1) + 1 = k
    BY <1>1, <1>2
  <2> QED
    BY <1>3, <2>1 DEF WellLaidOut
<1>5. /\ FrameEnd(b.frames[k - 1]) \in Nat /\ b.frames[k - 1].at \in Nat
      /\ FrameEnd(b.frames[k - 1]) >= b.frames[k - 1].at
      /\ FrameEnd(b.frames[i]) \in Nat
  <2>1. b.frames[k - 1] \in Frame /\ FrameEnd(b.frames[k - 1]) \in Nat
        /\ FrameEnd(b.frames[k - 1]) >= b.frames[k - 1].at + HeaderSize
    BY <1>3, FrameFacts
  <2>2. FrameEnd(b.frames[i]) \in Nat
    BY FrameFacts
  <2> QED
    BY <2>1, <2>2 DEF Frame, HeaderSize
<1>6. CASE k - 1 = i
  BY <1>2, <1>4, <1>5, <1>6
<1>7. CASE k - 1 > i
  <2>1. k - 1 \notin T
    BY <1>1, <1>2, <1>3
  <2>2. FrameEnd(b.frames[i]) <= b.frames[k - 1].at
    BY <1>3, <1>7, <2>1
  <2> QED
    BY <1>2, <1>4, <1>5, <2>2
<1> QED
  BY <1>1, <1>2, <1>3, <1>6, <1>7

\* A frame under the cursor: behind the cursor lie the frames before it, and
\* behind its end these and the frame itself.
LEMMA BehindTheCursor ==
  ASSUME TypeOK, NEW i \in DOMAIN buf.frames, buf.frames[i].at = cursor,
         NEW j \in DOMAIN buf.frames
  PROVE  /\ FrameEnd(buf.frames[j]) <= cursor <=> j < i
         /\ FrameEnd(buf.frames[j]) <= FrameEnd(buf.frames[i]) <=> j <= i
<1>1. WellLaidOut(buf) /\ i \in Nat \ {0} /\ j \in Nat \ {0}
  BY FrameFacts DEF TypeOK
<1>2. /\ FrameEnd(buf.frames[i]) \in Nat /\ FrameEnd(buf.frames[i]) >= buf.frames[i].at + 4
      /\ FrameEnd(buf.frames[j]) \in Nat /\ FrameEnd(buf.frames[j]) >= buf.frames[j].at + 4
      /\ buf.frames[i].at \in Nat /\ buf.frames[j].at \in Nat
  <2>1. buf.frames[i] \in Frame /\ buf.frames[j] \in Frame
    BY <1>1, FrameFacts
  <2> QED
    BY <1>1, <2>1, FrameFacts DEF Frame, HeaderSize
<1>3. j < i => FrameEnd(buf.frames[j]) <= buf.frames[i].at
  BY <1>1, FramesInOrder
<1>4. i < j => FrameEnd(buf.frames[i]) <= buf.frames[j].at
  BY <1>1, FramesInOrder
<1>5. CASE j < i
  BY <1>1, <1>2, <1>3, <1>5
<1>6. CASE i < j
  BY <1>1, <1>2, <1>4, <1>6
<1>7. CASE i = j
  BY <1>1, <1>2, <1>7
<1> QED
  BY <1>1, <1>5, <1>6, <1>7

\* Everything that has been read of a type comes before the frame under the
\* cursor.
LEMMA ConsumedBefore ==
  ASSUME TypeOK, NEW i \in DOMAIN buf.frames, buf.frames[i].at = cursor, NEW t
  PROVE  \A j \in Consumed(t) : j \in Nat /\ j < i
<1>1. SUFFICES ASSUME NEW j \in Consumed(t) PROVE j \in Nat /\ j < i
  OBVIOUS
<1>2. j \in DOMAIN buf.frames /\ FrameEnd(buf.frames[j]) <= cursor
  BY DEF Consumed
<1>3. j \in Nat
  BY <1>2, FrameFacts DEF TypeOK
<1> QED
  BY <1>2, <1>3, BehindTheCursor

\* A step over the frame under the cursor adds that frame to what has been
\* read of its type, and nothing to that of another.
LEMMA ConsumedGrows ==
  ASSUME TypeOK, NEW i \in DOMAIN buf.frames, buf.frames[i].at = cursor,
         buf' = buf, cursor' = FrameEnd(buf.frames[i]), NEW t
  PROVE  Consumed(t)' = IF buf.frames[i].type = t THEN Consumed(t) \cup {i} ELSE Consumed(t)
<1>1. \A j \in DOMAIN buf.frames :
        /\ FrameEnd(buf.frames[j]) <= cursor <=> j < i
        /\ FrameEnd(buf.frames[j]) <= FrameEnd(buf.frames[i]) <=> j <= i
  BY BehindTheCursor
<1>2. Consumed(t) = {j \in DOMAIN buf.frames : buf.frames[j].type = t /\ j < i}
  BY <1>1 DEF Consumed
<1>3. Consumed(t)' = {j \in DOMAIN buf.frames :
                        buf.frames[j].type = t /\ FrameEnd(buf.frames[j]) <= FrameEnd(buf.frames[i])}
  BY DEF Consumed, FrameEnd, HeaderSize
<1>4. Consumed(t)' = {j \in DOMAIN buf.frames : buf.frames[j].type = t /\ j <= i}
  BY <1>1, <1>3
<1>5. \A j \in DOMAIN buf.frames : j \in Nat /\ i \in Nat
  BY FrameFacts DEF TypeOK
<1> QED
  BY <1>2, <1>4, <1>5

\* Then that frame is the last one.
LEMMA LastConsumed ==
  ASSUME TypeOK, NEW i \in DOMAIN buf.frames, buf.frames[i].at = cursor, NEW t
  PROVE  Max(Consumed(t) \cup {i}) = i
<1>1. i \in Nat
  BY FrameFacts DEF TypeOK
<1>2. \A j \in Consumed(t) : j \in Nat /\ j <= i
  BY <1>1, ConsumedBefore
<1>3. Consumed(t) \cup {i} \in SUBSET Nat /\ \A j \in Consumed(t) \cup {i} : j <= i
  BY <1>1, <1>2
<1> QED
  BY <1>3, MaxIs

\* Of several frames of a buffer there is a last one.
LEMMA LastOfSome ==
  ASSUME TypeOK, NEW S \in SUBSET DOMAIN buf.frames, S # {}
  PROVE  /\ Max(S) \in S
         /\ \A j \in S : j <= Max(S)
<1>1. buf.frames \in Seq(Frame)
  BY DEF TypeOK, WellLaidOut
<1>2. Len(buf.frames) \in Nat /\ S \in SUBSET Nat /\ \A j \in S : j <= Len(buf.frames)
  BY <1>1
<1> QED
  BY <1>2, GreatestElement

\* The frames of a buffer are finitely many.
LEMMA FramesAreFinite ==
  ASSUME TypeOK, NEW S \in SUBSET DOMAIN buf.frames
  PROVE  IsFiniteSet(S) /\ Cardinality(S) \in Nat
<1>1. buf.frames \in Seq(Frame)
  BY DEF TypeOK, WellLaidOut
<1>2. Len(buf.frames) \in Nat /\ DOMAIN buf.frames = 1 .. Len(buf.frames)
  BY <1>1
<1>3. IsFiniteSet(DOMAIN buf.frames)
  BY <1>2, FS_Interval
<1> QED
  BY <1>3, FS_Subset, FS_CardinalityType
-----------------------------------------------------------------------------
(***************************************************************************)
(* How often a pointer is held.                                            *)
(***************************************************************************)

Places(s, p) == {k \in DOMAIN s : s[k] = p}

\* What has been appended is counted with what was there.
LEMMA PlacesOfConcat ==
  ASSUME NEW S, NEW s \in Seq(S), NEW p \in S, NEW n \in Nat, NEW q,
         NEW u \in Seq(S), Len(u) = n, \A k \in 1 .. n : u[k] = p
  PROVE  Cardinality(Places(s \o u, q)) =
           Cardinality(Places(s, q)) + IF p = q THEN n ELSE 0
<1> DEFINE A == Places(s, q)
           B == {k \in Len(s) + 1 .. Len(s) + n : p = q}
<1>1. Len(s) \in Nat /\ DOMAIN s = 1 .. Len(s)
  OBVIOUS
<1>2. /\ s \o u \in Seq(S) /\ Len(s \o u) = Len(s) + n
      /\ \A k \in 1 .. Len(s) + n : (s \o u)[k] = IF k <= Len(s) THEN s[k] ELSE p
  <2>1. \A k \in 1 .. Len(s) + n : k > Len(s) => k - Len(s) \in 1 .. n
    BY <1>1
  <2>2. /\ s \o u \in Seq(S) /\ Len(s \o u) = Len(s) + n
        /\ \A k \in 1 .. Len(s) + n :
             (s \o u)[k] = IF k <= Len(s) THEN s[k] ELSE u[k - Len(s)]
    BY <1>1, ConcatProperties
  <2> QED
    BY <1>1, <2>1, <2>2
<1>3. DOMAIN (s \o u) = 1 .. Len(s) + n
  BY <1>2
<1>4. Places(s \o u, q) = A \cup B
  BY <1>1, <1>2, <1>3 DEF Places
<1>5. IsFiniteSet(A) /\ A \cap B = {} /\ Cardinality(A) \in Nat
  <2>1. A \in SUBSET (1 .. Len(s))
    BY <1>1 DEF Places
  <2>2. IsFiniteSet(1 .. Len(s))
    BY <1>1, FS_Interval
  <2>3. IsFiniteSet(A)
    BY <2>1, <2>2, FS_Subset
  <2> QED
    BY <1>1, <2>1, <2>3, FS_CardinalityType
<1>6. IsFiniteSet(B) /\ Cardinality(B) = IF p = q THEN n ELSE 0
  <2>1. CASE p = q
    <3>1. B = Len(s) + 1 .. Len(s) + n
      BY <2>1
    <3>2. Len(s) + 1 \in Int /\ Len(s) + n \in Int
      BY <1>1
    <3>3. IsFiniteSet(B) /\ Cardinality(B) = IF Len(s) + 1 > Len(s) + n THEN 0
                                            ELSE (Len(s) + n) - (Len(s) + 1) + 1
      BY <3>1, <3>2, FS_Interval
    <3> HIDE DEF B
    <3> QED
      BY <1>1, <2>1, <3>3
  <2>2. CASE p # q
    BY <2>2, FS_EmptySet
  <2> QED
    BY <2>1, <2>2
<1> HIDE DEF A, B
<1>7. Cardinality(A \cup B) = Cardinality(A) + Cardinality(B)
  <2>1. Cardinality(A \cap B) = 0
    BY <1>5, FS_EmptySet
  <2>2. Cardinality(A \cup B) = Cardinality(A) + Cardinality(B) - Cardinality(A \cap B)
    BY <1>5, <1>6, FS_Union
  <2>3. Cardinality(B) \in Nat
    BY <1>6
  <2> QED
    BY <1>5, <2>1, <2>2, <2>3
<1> QED
  BY <1>4, <1>6, <1>7 DEF A
-----------------------------------------------------------------------------
(***************************************************************************)
(* What is held is what has been read.                                     *)
(***************************************************************************)

Skipped ==
  {j \in DOMAIN buf.frames :
     buf.frames[j].type \notin Handled /\ FrameEnd(buf.frames[j]) <= cursor}

\* A reader has pointers of this call only to what has been read of its type.
OnlyConsumed(t) == \A k \in OfThisCall(t) : store[t][k][2] \in Consumed(t)

Decoded(t) ==
  /\ Kind(t) = "single" => DecodedSingle(t)
  /\ Kind(t) = "array" => DecodedArray(t)
  /\ Kind(t) = "nested" => DecodedNested(t)

\* Inductive with IInv: what has not been read yet is not held.
Held ==
  phase # "rejected" =>
    /\ \A t \in Type : OnlyConsumed(t)
    /\ \A t \in Handled : Decoded(t)
    /\ call = 1 => unknown = Cardinality(Skipped)

LEMMA HandledTypes == TypeOK => Handled \subseteq Type
BY MessagesAssumption DEF TypeOK, MessageDescriptor, Handled

LEMMA HeldDecodes == IInv /\ Held => DecodesTheBuffer
<1> SUFFICES ASSUME IInv, Held, phase \in {"reading", "accepted"}
             PROVE  /\ \A t \in Handled :
                         CASE Kind(t) = "single" -> DecodedSingle(t)
                           [] Kind(t) = "array"  -> DecodedArray(t)
                           [] Kind(t) = "nested" -> DecodedNested(t)
                    /\ call = 1 =>
                         unknown = Cardinality(UNION {Consumed(t) : t \in Type \ Handled})
  BY DEF DecodesTheBuffer
<1>1. ASSUME NEW t \in Handled
      PROVE  CASE Kind(t) = "single" -> DecodedSingle(t)
               [] Kind(t) = "array"  -> DecodedArray(t)
               [] Kind(t) = "nested" -> DecodedNested(t)
  <2>1. Kind(t) \in {"single", "array", "nested"}
    BY HandledTypes, ElementAssumption DEF IInv, IsDescriptor, Kind
  <2>2. Decoded(t)
    BY DEF Held
  <2> QED
    BY <2>1, <2>2 DEF Decoded
<1>2. UNION {Consumed(t) : t \in Type \ Handled} = Skipped
  <2>1. \A j \in DOMAIN buf.frames : buf.frames[j].type \in Type
    BY FrameFacts DEF IInv, TypeOK
  <2> QED
    BY <2>1 DEF Consumed, Skipped
<1> QED
  BY <1>1, <1>2 DEF Held

\* A reader that keeps what it has, and has been given nothing, is as it was.
LEMMA SameReader ==
  ASSUME NEW t, UNCHANGED <<buf, call>>, store'[t] = store[t], header'[t] = header[t],
         Consumed(t)' = Consumed(t)
  PROVE  /\ OnlyConsumed(t) => OnlyConsumed(t)'
         /\ Decoded(t) => Decoded(t)'
<1>1. OfThisCall(t)' = OfThisCall(t)
  BY DEF OfThisCall
<1>2. OnlyConsumed(t) => OnlyConsumed(t)'
  BY <1>1 DEF OnlyConsumed
<1>3. DecodedSingle(t) => DecodedSingle(t)'
  BY <1>1 DEF DecodedSingle, Pointer
<1>4. DecodedArray(t) => DecodedArray(t)'
  BY <1>1 DEF DecodedArray
<1>5. DecodedNested(t) => DecodedNested(t)'
  BY DEF DecodedNested, Pointer
<1> QED
  BY <1>2, <1>3, <1>4, <1>5 DEF Decoded, Kind

\* What is skipped: the frame under the cursor, if nobody handles it.
LEMMA SkippedGrows ==
  ASSUME TypeOK, NEW i \in DOMAIN buf.frames, buf.frames[i].at = cursor,
         UNCHANGED <<msg, buf>>, cursor' = FrameEnd(buf.frames[i])
  PROVE  /\ Skipped' = IF buf.frames[i].type \in Handled THEN Skipped ELSE Skipped \cup {i}
         /\ i \notin Skipped
<1>1. \A j \in DOMAIN buf.frames :
        /\ FrameEnd(buf.frames[j]) <= cursor <=> j < i
        /\ FrameEnd(buf.frames[j]) <= FrameEnd(buf.frames[i]) <=> j <= i
  BY BehindTheCursor
<1>2. Skipped = {j \in DOMAIN buf.frames : buf.frames[j].type \notin Handled /\ j < i}
  BY <1>1 DEF Skipped
<1>3. Skipped' = {j \in DOMAIN buf.frames : buf.frames[j].type \notin Handled
                     /\ FrameEnd(buf.frames[j]) <= FrameEnd(buf.frames[i])}
  BY DEF Skipped, Handled, FrameEnd, HeaderSize
<1>4. Skipped' = {j \in DOMAIN buf.frames : buf.frames[j].type \notin Handled /\ j <= i}
  BY <1>1, <1>3
<1>5. \A j \in DOMAIN buf.frames : j \in Nat /\ i \in Nat
  BY FrameFacts DEF TypeOK
<1> QED
  BY <1>2, <1>4, <1>5

\* A step that takes the frame under the cursor keeps Held if it changes no
\* reader but the one of its type, and that one is right afterwards.
LEMMA TakingKeepsHeld ==
  ASSUME IInv, Held, NEW i \in DOMAIN buf.frames, buf.frames[i].at = cursor,
         UNCHANGED <<msg, buf, phase, call, unknown>>, cursor' = FrameEnd(buf.frames[i]),
         NEW y \in Handled, buf.frames[i].type = y,
         \A t \in Type : t # y => store'[t] = store[t] /\ header'[t] = header[t],
         phase # "rejected" => OnlyConsumed(y)' /\ Decoded(y)'
  PROVE  Held'
<1> SUFFICES ASSUME phase # "rejected"
             PROVE  /\ \A t \in Type : OnlyConsumed(t)'
                    /\ \A t \in Handled : Decoded(t)'
                    /\ call = 1 => unknown = Cardinality(Skipped')
  BY DEF Held, Handled
<1>1. \A t \in Type : t # y => Consumed(t)' = Consumed(t)
  BY ConsumedGrows DEF IInv
<1>2. \A t \in Type : t # y =>
        /\ OnlyConsumed(t) => OnlyConsumed(t)'
        /\ Decoded(t) => Decoded(t)'
  BY <1>1, SameReader
<1>3. Handled \subseteq Type
  BY HandledTypes DEF IInv
<1>4. Skipped' = Skipped
  BY SkippedGrows DEF IInv
<1> QED
  BY <1>2, <1>3, <1>4 DEF Held

LEMMA ReadSingleHeld ==
  ASSUME IInv, Held, NEW i \in DOMAIN buf.frames, ReadSingle(i)
  PROVE  Held'
<1> PICK y : buf.frames[i].type = y
  OBVIOUS
<1>1. /\ y \in Type /\ y \in Handled /\ Kind(y) = "single" /\ buf.frames[i].at = cursor
      /\ store \in [Type -> Seq(Pointers)]
      /\ store' = [store EXCEPT ![y] = <<Pointer(i)>>] /\ header' = header
      /\ cursor' = FrameEnd(buf.frames[i])
      /\ UNCHANGED <<msg, buf, phase, call, unknown>>
  BY FrameFacts DEF IInv, TypeOK, ReadSingle, Under
<1>2. store'[y] = <<Pointer(i)>> /\ \A t \in Type : t # y => store'[t] = store[t]
  BY <1>1
<1>3. Consumed(y)' = Consumed(y) \cup {i} /\ Max(Consumed(y)') = i
  BY <1>1, ConsumedGrows, LastConsumed DEF IInv
<1>4. Pointer(i)[2] = i /\ Pointer(i)' = Pointer(i)
  BY <1>1, PointerFacts DEF IInv, Pointer
<1>5. OnlyConsumed(y)'
  <2>1. ASSUME NEW k \in OfThisCall(y)' PROVE store'[y][k][2] \in Consumed(y)'
    <3>1. k = 1
      BY <1>2 DEF OfThisCall
    <3> QED
      BY <1>2, <1>3, <1>4, <3>1
  <2> QED
    BY <2>1 DEF OnlyConsumed
<1>6. Decoded(y)'
  <2>1. DecodedSingle(y)'
    <3>1. Consumed(y)' # {} /\ store'[y] = <<Pointer(Max(Consumed(y)))>>'
      BY <1>1, <1>2, <1>3 DEF Pointer
    <3> QED
      BY <3>1 DEF DecodedSingle
  <2> QED
    BY <1>1, <2>1 DEF Decoded, Kind
<1> QED
  BY <1>1, <1>2, <1>5, <1>6, TakingKeepsHeld

LEMMA ReadArrayHeld ==
  ASSUME IInv, Held, NEW i \in DOMAIN buf.frames, ReadArray(i)
  PROVE  Held'
<1> PICK y, n : buf.frames[i].type = y /\ n = Len(store[y])
  OBVIOUS
<1>1. /\ y \in Type /\ y \in Handled /\ Kind(y) = "array" /\ buf.frames[i].at = cursor
      /\ store \in [Type -> Seq(Pointers)] /\ store[y] \in Seq(Pointers)
      /\ store' = [store EXCEPT ![y] = Append(store[y], Pointer(i))] /\ header' = header
      /\ cursor' = FrameEnd(buf.frames[i]) /\ phase = "reading"
      /\ UNCHANGED <<msg, buf, phase, call, unknown>>
  BY FrameFacts DEF IInv, TypeOK, ReadArray, Under
<1>2. store'[y] = Append(store[y], Pointer(i)) /\ \A t \in Type : t # y => store'[t] = store[t]
  BY <1>1
<1>3. Consumed(y)' = Consumed(y) \cup {i} /\ \A j \in Consumed(y) : j \in Nat /\ j < i
  BY <1>1, ConsumedGrows, ConsumedBefore DEF IInv
<1>4. Pointer(i)[1] = call /\ Pointer(i)[2] = i /\ Pointer(i) \in Pointers
  BY PointerFacts DEF IInv
<1>5. /\ n \in Nat /\ DOMAIN store[y] = 1 .. n /\ DOMAIN store'[y] = 1 .. n + 1
      /\ \A k \in 1 .. n : store'[y][k] = store[y][k]
      /\ store'[y][n + 1] = Pointer(i)
  BY <1>1, <1>2, <1>4
<1>6. OfThisCall(y)' = OfThisCall(y) \cup {n + 1} /\ OfThisCall(y) \subseteq 1 .. n
  <2>1. OfThisCall(y)' = {k \in 1 .. n + 1 : store'[y][k][1] = call}
    BY <1>1, <1>5 DEF OfThisCall
  <2>2. OfThisCall(y) = {k \in 1 .. n : store[y][k][1] = call}
    BY <1>5 DEF OfThisCall
  <2> QED
    BY <1>4, <1>5, <2>1, <2>2
<1>7. OnlyConsumed(y) /\ DecodedArray(y)
  BY <1>1 DEF Held, Decoded
<1>8. OnlyConsumed(y)'
  BY <1>3, <1>4, <1>5, <1>6, <1>7 DEF OnlyConsumed
<1>9. DecodedArray(y)'
  <2>1. {store'[y][k][2] : k \in OfThisCall(y)'} = Consumed(y)'
    BY <1>3, <1>4, <1>5, <1>6, <1>7 DEF DecodedArray
  <2>2. ASSUME NEW j \in OfThisCall(y)', NEW k \in DOMAIN store'[y], j < k
        PROVE  k \in OfThisCall(y)' /\ store'[y][j][2] < store'[y][k][2]
    <3>1. j \in 1 .. n /\ j \in OfThisCall(y)
      BY <1>5, <1>6, <2>2
    <3>2. CASE k = n + 1
      <4>1. store[y][j][2] \in Consumed(y)
        BY <1>7, <3>1 DEF OnlyConsumed
      <4>2. store[y][j][2] < i
        BY <1>3, <4>1
      <4> QED
        BY <1>4, <1>5, <1>6, <3>1, <3>2, <4>2
    <3>3. CASE k \in 1 .. n
      <4>1. k \in OfThisCall(y) /\ store[y][j][2] < store[y][k][2]
        BY <1>5, <1>7, <2>2, <3>1, <3>3 DEF DecodedArray
      <4> QED
        BY <1>5, <1>6, <3>1, <3>3, <4>1
    <3> QED
      BY <1>5, <3>2, <3>3
  <2> QED
    BY <2>1, <2>2 DEF DecodedArray
<1>10. Decoded(y)'
  BY <1>1, <1>9 DEF Decoded, Kind
<1> QED
  BY <1>1, <1>2, <1>8, <1>10, TakingKeepsHeld

\* What a nested reader kept of earlier elements, behind a good body.
LEMMA KeptFacts ==
  ASSUME TypeOK, NEW i \in DOMAIN buf.frames, Kind(buf.frames[i].type) = "nested",
         BodyOk(buf.frames[i])
  PROVE  LET f == buf.frames[i]
         IN  /\ Kept(f) = IF Element[f.type].resets = "never" THEN store[f.type] ELSE <<>>
             /\ Kept(f) \in Seq(Pointers)
             /\ f.subs \in Nat
             /\ WithSubs(f, i) = Kept(f) \o [k \in 1 .. f.subs |-> Pointer(i)]
<1> DEFINE f == buf.frames[i]
<1>1. f.type \in Type /\ IsDescriptor(Element[f.type]) /\ f.subs \in Nat
  BY FrameFacts DEF TypeOK, Frame
<1>2. f.body = "ok" /\ Stored(f) = f.subs
  BY DEF BodyOk
<1>3. Kept(f) = IF Element[f.type].resets = "never" THEN store[f.type] ELSE <<>>
  BY <1>1, <1>2 DEF Kept, IsDescriptor
<1>4. store[f.type] \in Seq(Pointers) /\ <<>> \in Seq(Pointers)
  BY <1>1 DEF TypeOK
<1>5. Kept(f) \in Seq(Pointers)
  BY <1>3, <1>4
<1> QED
  BY <1>1, <1>2, <1>3, <1>5 DEF WithSubs

LEMMA ReadNestedHeld ==
  ASSUME IInv, Held, NEW i \in DOMAIN buf.frames, ReadNested(i)
  PROVE  Held'
<1> PICK y, n : buf.frames[i].type = y /\ n = buf.frames[i].subs
  OBVIOUS
<1> DEFINE s == Kept(buf.frames[i])
           u == [k \in 1 .. n |-> Pointer(i)]
<1>1. /\ y \in Type /\ y \in Handled /\ Kind(y) = "nested" /\ buf.frames[i].at = cursor
      /\ BodyOk(buf.frames[i])
      /\ store \in [Type -> Seq(Pointers)] /\ header \in [Type -> Pointers \cup {Null}]
      /\ store' = [store EXCEPT ![y] = WithSubs(buf.frames[i], i)]
      /\ header' = [header EXCEPT ![y] = Pointer(i)]
      /\ cursor' = FrameEnd(buf.frames[i]) /\ phase = "reading"
      /\ UNCHANGED <<msg, buf, phase, call, unknown>>
  BY FrameFacts DEF IInv, TypeOK, ReadNested, Under
<1>2. /\ s = IF Element[y].resets = "never" THEN store[y] ELSE <<>>
      /\ s \in Seq(Pointers) /\ n \in Nat
      /\ WithSubs(buf.frames[i], i) = s \o u
  BY <1>1, KeptFacts DEF IInv
<1>3. /\ store'[y] = s \o u /\ header'[y] = Pointer(i)
      /\ \A t \in Type : t # y => store'[t] = store[t] /\ header'[t] = header[t]
  BY <1>1, <1>2
<1>4. Consumed(y)' = Consumed(y) \cup {i} /\ Max(Consumed(y)') = i
      /\ \A j \in Consumed(y) : j \in Nat /\ j < i
  BY <1>1, ConsumedGrows, ConsumedBefore, LastConsumed DEF IInv
<1>5. Pointer(i)[1] = call /\ Pointer(i)[2] = i /\ Pointer(i) \in Pointers
  BY PointerFacts DEF IInv
<1>6. OnlyConsumed(y) /\ DecodedNested(y)
  BY <1>1 DEF Held, Decoded
<1>7. OnlyConsumed(y)'
  <2>1. SUFFICES ASSUME NEW k \in DOMAIN store'[y], store'[y][k][1] = call
                 PROVE  store'[y][k][2] \in Consumed(y)'
    BY <1>1 DEF OnlyConsumed, OfThisCall
  <2>2. \/ store'[y][k] = Pointer(i)
        \/ k \in DOMAIN store[y] /\ store'[y][k] = store[y][k]
    BY <1>2, <1>3, WithSubsFacts DEF IInv
  <2>3. CASE store'[y][k] = Pointer(i)
    BY <1>4, <1>5, <2>3
  <2>4. CASE k \in DOMAIN store[y] /\ store'[y][k] = store[y][k]
    BY <1>4, <1>6, <2>1, <2>4 DEF OnlyConsumed, OfThisCall
  <2> QED
    BY <2>2, <2>3, <2>4
<1>8. \A j \in Consumed(y)' :
        Cardinality(Places(store'[y], Pointer(j))) =
          IF Element[y].resets = "never" \/ j = i THEN buf.frames[j].subs ELSE 0
  <2>1. SUFFICES ASSUME NEW j \in Consumed(y)'
                 PROVE  Cardinality(Places(store'[y], Pointer(j))) =
                          IF Element[y].resets = "never" \/ j = i THEN buf.frames[j].subs ELSE 0
    OBVIOUS
  <2>2. Pointer(i) = Pointer(j) <=> i = j
    BY DEF Pointer
  <2>3. Cardinality(Places(store'[y], Pointer(j))) =
          Cardinality(Places(s, Pointer(j))) + IF i = j THEN n ELSE 0
    <3> HIDE DEF s
    <3>1. Cardinality(Places(s \o u, Pointer(j))) =
            Cardinality(Places(s, Pointer(j))) + IF Pointer(i) = Pointer(j) THEN n ELSE 0
      <4>1. s \in Seq(Pointers) /\ n \in Nat /\ Pointer(i) \in Pointers
        BY <1>2, <1>5
      <4>2. u \in Seq(Pointers) /\ Len(u) = n /\ \A k \in 1 .. n : u[k] = Pointer(i)
        BY <4>1
      <4> HIDE DEF u
      <4> QED
        BY <4>1, <4>2, PlacesOfConcat
    <3> QED
      BY <1>3, <2>2, <3>1
  <2>4. CASE Element[y].resets # "never" \/ j = i
    <3>1. Places(s, Pointer(j)) = {}
      <4>1. CASE s = <<>>
        BY <4>1 DEF Places
      <4>2. CASE s = store[y] /\ j = i
        <5>1. ASSUME NEW k \in DOMAIN store[y], store[y][k] = Pointer(i) PROVE FALSE
          <6>1. i \in Consumed(y)
            BY <1>5, <1>6, <5>1 DEF OnlyConsumed, OfThisCall
          <6> QED
            BY <1>4, <6>1
        <5> QED
          BY <4>2, <5>1 DEF Places
      <4> QED
        BY <1>2, <2>4, <4>1, <4>2
    <3>2. Cardinality(Places(s, Pointer(j))) = 0
      BY <3>1, FS_EmptySet
    <3> QED
      BY <1>2, <2>3, <2>4, <3>2
  <2>5. CASE Element[y].resets = "never" /\ j # i
    <3>1. j \in Consumed(y) /\ s = store[y]
      BY <1>2, <1>4, <2>5
    <3>2. Cardinality({k \in DOMAIN store[y] : store[y][k] = Pointer(j)}) = buf.frames[j].subs
      BY <1>6, <2>5, <3>1 DEF DecodedNested
    <3>3. buf.frames[j].subs \in Nat
      BY <3>1, FrameFacts DEF IInv, TypeOK, Consumed, Frame
    <3> QED
      BY <2>3, <2>5, <3>1, <3>2, <3>3 DEF Places
  <2> QED
    BY <2>4, <2>5
<1>9. DecodedNested(y)'
  <2>1. Consumed(y)' # {}
    BY <1>4
  <2>2. header'[y] = Pointer(Max(Consumed(y)))'
    BY <1>1, <1>3, <1>4 DEF Pointer
  <2>3. \A j \in Consumed(y)' :
          Cardinality({k \in DOMAIN store'[y] : store'[y][k] = Pointer(j)'}) =
            IF Element[y].resets = "never" \/ j = Max(Consumed(y)')
              THEN buf'.frames[j].subs ELSE 0
    BY <1>1, <1>4, <1>8 DEF Places, Pointer
  <2> QED
    BY <2>1, <2>2, <2>3 DEF DecodedNested
<1>10. Decoded(y)'
  BY <1>1, <1>9 DEF Decoded, Kind
<1> QED
  BY <1>1, <1>3, <1>7, <1>10, TakingKeepsHeld

LEMMA SkipUnknownHeld ==
  ASSUME IInv, Held, NEW i \in DOMAIN buf.frames, SkipUnknown(i)
  PROVE  Held'
<1> PICK y : buf.frames[i].type = y
  OBVIOUS
<1>1. /\ y \notin Handled /\ buf.frames[i].at = cursor /\ phase = "reading"
      /\ cursor' = FrameEnd(buf.frames[i]) /\ unknown' = unknown + 1
      /\ UNCHANGED <<msg, buf, phase, call, store, header>>
  BY DEF SkipUnknown, Under
<1>2. \A t : Consumed(t)' = IF y = t THEN Consumed(t) \cup {i} ELSE Consumed(t)
  BY <1>1, ConsumedGrows DEF IInv
<1>3. \A t \in Type : OnlyConsumed(t)'
  BY <1>1, <1>2 DEF Held, OnlyConsumed, OfThisCall
<1>4. \A t \in Handled : Decoded(t)'
  <2>1. \A t \in Handled : Consumed(t)' = Consumed(t)
    BY <1>1, <1>2
  <2> QED
    BY <1>1, <2>1, SameReader DEF Held
<1>5. call = 1 => unknown' = Cardinality(Skipped')
  <2>1. Skipped' = Skipped \cup {i} /\ i \notin Skipped
    BY <1>1, SkippedGrows DEF IInv
  <2>2. IsFiniteSet(Skipped)
    BY FramesAreFinite DEF IInv, Skipped
  <2>3. Cardinality(Skipped \cup {i}) = Cardinality(Skipped) + 1
    BY <2>1, <2>2, FS_AddElement
  <2> QED
    BY <1>1, <2>1, <2>3 DEF Held
<1> QED
  BY <1>1, <1>3, <1>4, <1>5 DEF Held, Handled

\* No frame ends where the buffer begins.
LEMMA NothingBehindZero ==
  ASSUME TypeOK, cursor = 0
  PROVE  \A j \in DOMAIN buf.frames : ~(FrameEnd(buf.frames[j]) <= cursor)
<1>1. SUFFICES ASSUME NEW j \in DOMAIN buf.frames PROVE ~(FrameEnd(buf.frames[j]) <= cursor)
  OBVIOUS
<1>2. buf.frames[j] \in Frame /\ FrameEnd(buf.frames[j]) \in Nat
      /\ FrameEnd(buf.frames[j]) >= buf.frames[j].at + HeaderSize
  BY FrameFacts DEF TypeOK
<1> QED
  BY <1>2 DEF Frame, HeaderSize

\* A reader that has not begun holds nothing of this buffer.
LEMMA FreshIsHeld ==
  ASSUME TypeOK, cursor = 0, call = 1 => unknown = 0,
         \A t \in Type : OfThisCall(t) = {} /\ header[t][1] # call
  PROVE  Held
<1>1. \A j \in DOMAIN buf.frames : ~(FrameEnd(buf.frames[j]) <= cursor)
  BY NothingBehindZero
<1>2. Skipped = {} /\ \A t : Consumed(t) = {}
  BY <1>1 DEF Skipped, Consumed
<1>3. \A t \in Type : OnlyConsumed(t) /\ DecodedSingle(t) /\ DecodedNested(t)
  BY <1>2 DEF OnlyConsumed, DecodedSingle, DecodedNested
<1>4. \A t \in Type : DecodedArray(t)
  BY <1>2 DEF DecodedArray
<1>5. Cardinality(Skipped) = 0
  BY <1>2, FS_EmptySet
<1> QED
  BY <1>3, <1>4, <1>5, HandledTypes DEF Held, Decoded

LEMMA FreshHeld == Fresh => Held
<1> SUFFICES ASSUME Fresh PROVE Held
  OBVIOUS
<1>1. TypeOK
  BY FreshIInv DEF IInv
<1>2. \A t \in Type : OfThisCall(t) = {} /\ header[t][1] # call
  BY DEF Fresh, OfThisCall, Null
<1> QED
  BY <1>1, <1>2, FreshIsHeld DEF Fresh

\* The pointers of the calls before are not counted as pointers of this one.
LEMMA DeserializeAgainHeld ==
  ASSUME IInv, DeserializeAgain(Buffers, Buffers)
  PROVE  Held'
<1>1. call \in Nat \ {0} /\ call' = call + 1 /\ cursor' = 0 /\ UNCHANGED <<store, header>>
  BY MaxCallsAssumption DEF IInv, TypeOK, DeserializeAgain
<1>2. ASSUME NEW t \in Type
      PROVE  OfThisCall(t)' = {} /\ header'[t][1] # call'
  <2>1. /\ \A k \in DOMAIN store[t] : store[t][k][1] \in Nat /\ store[t][k][1] <= call
        /\ header[t][1] \in Nat /\ header[t][1] <= call
    BY MaxCallsAssumption DEF IInv, TypeOK, NoneFromTheFuture, Pointers, Null
  <2>2. \A k \in DOMAIN store'[t] : store'[t][k][1] # call'
    BY <1>1, <2>1
  <2> QED
    BY <1>1, <2>1, <2>2 DEF OfThisCall
<1>3. TypeOK'
  BY DeserializeAgainKeeps DEF IInv
<1>4. \A j \in DOMAIN buf'.frames : ~(FrameEnd(buf.frames[j])' <= cursor')
  <2>1. SUFFICES ASSUME NEW j \in DOMAIN buf'.frames
                 PROVE  ~(FrameEnd(buf'.frames[j]) <= 0)
    BY <1>1 DEF FrameEnd, HeaderSize
  <2>2. buf'.frames[j] \in Frame /\ FrameEnd(buf'.frames[j]) \in Nat
        /\ FrameEnd(buf'.frames[j]) >= buf'.frames[j].at + HeaderSize
    BY <1>3, FrameFacts DEF TypeOK
  <2> QED
    BY <2>2 DEF Frame, HeaderSize
<1>5. \A t : Consumed(t)' = {}
  BY <1>4 DEF Consumed
<1>6. \A t \in Type :
        OnlyConsumed(t)' /\ DecodedSingle(t)' /\ DecodedArray(t)' /\ DecodedNested(t)'
  BY <1>2, <1>5 DEF OnlyConsumed, DecodedSingle, DecodedArray, DecodedNested
<1>7. Handled' \subseteq Type
  BY HandledTypes DEF IInv, DeserializeAgain, Handled
<1> QED
  BY <1>1, <1>6, <1>7 DEF Held, Decoded

\* A step that changes nothing of what Held speaks of, but the phase.
LEMMA RestingKeepsHeld ==
  ASSUME Held, UNCHANGED <<msg, buf, cursor, call, store, header, unknown>>,
         phase' # "rejected" => phase # "rejected"
  PROVE  Held'
<1>1. \A t : Consumed(t)' = Consumed(t)
  BY DEF Consumed, FrameEnd, HeaderSize
<1>2. \A t : (OnlyConsumed(t) => OnlyConsumed(t)') /\ (Decoded(t) => Decoded(t)')
  BY <1>1, SameReader
<1>3. Skipped' = Skipped /\ Handled' = Handled
  BY DEF Skipped, Handled, FrameEnd, HeaderSize
<1> QED
  BY <1>2, <1>3 DEF Held

LEMMA HeldStep == IInv /\ Held /\ [Next]_vars => Held'
<1> SUFFICES ASSUME IInv, Held, [Next]_vars PROVE Held'
  OBVIOUS
<1>1. ASSUME NEW i \in DOMAIN buf.frames,
             ReadSingle(i) \/ ReadArray(i) \/ ReadNested(i) \/ SkipUnknown(i)
      PROVE  Held'
  BY <1>1, ReadSingleHeld, ReadArrayHeld, ReadNestedHeld, SkipUnknownHeld
<1>2. ASSUME NEW i \in DOMAIN buf.frames,
             RejectUnknown(i) \/ RejectHeader(i) \/ RejectBody(i)
      PROVE  Held'
  BY <1>2 DEF Held, RejectUnknown, RejectHeader, RejectBody
<1>3. CASE Finish
  BY <1>3, RestingKeepsHeld DEF Finish
<1>4. CASE DeserializeAgain(Buffers, Buffers)
  BY <1>4, DeserializeAgainHeld
<1>5. CASE UNCHANGED vars
  BY <1>5, RestingKeepsHeld DEF vars
<1> QED
  BY <1>1, <1>2, <1>3, <1>4, <1>5 DEF Next, LoopStep

\* As long as nothing has failed, over however many buffers, a single holds
\* the last element of its type in this buffer, an array all of them in wire
\* order behind those of the buffers before, a nested reader their
\* sub-elements, and only the others are counted as unknown.
THEOREM HeldIsWhatIsBehindTheCursor == Spec => []DecodesTheBuffer
<1>1. Spec => []Held
  BY InitIsFresh, FreshHeld, HeldStep, Invariance, PTL DEF Spec
<1> QED
  BY <1>1, HeldDecodes, Invariance, PTL
-----------------------------------------------------------------------------
(***************************************************************************)
(* The verdict.                                                            *)
(***************************************************************************)

\* The numbers of sub-elements in a buffer have a bound.
LEMMA SubsAreBounded ==
  ASSUME TypeOK
  PROVE  \E b \in Nat : \A j \in DOMAIN buf.frames :
           buf.frames[j].subs \in Nat /\ buf.frames[j].subs <= b
<1>1. buf.frames \in Seq(Frame)
  BY DEF TypeOK, WellLaidOut
<1> PICK n : n = Len(buf.frames)
  OBVIOUS
<1>2. n \in Nat /\ DOMAIN buf.frames = 1 .. n
  BY <1>1
<1>3. \A j \in 1 .. n : buf.frames[j].subs \in Nat
  BY <1>2, FrameFacts DEF TypeOK, Frame
<1> DEFINE g == [j \in 1 .. n |-> buf.frames[j].subs]
<1>4. g \in [1 .. n -> Nat] /\ \A j \in 1 .. n : g[j] = buf.frames[j].subs
  BY <1>3
<1> HIDE DEF g
<1>5. \E b \in Nat : \A j \in 1 .. n : g[j] <= b
  BY <1>2, <1>4, BoundedFunction
<1> QED
  BY <1>2, <1>3, <1>4, <1>5

\* The greatest number of sub-elements fits a table if each of them does.
LEMMA GreatestFits ==
  ASSUME TypeOK, NEW S \in SUBSET DOMAIN buf.frames, NEW c \in Nat
  PROVE  Max({0} \cup {buf.frames[j].subs : j \in S}) <= c
           <=> \A j \in S : buf.frames[j].subs <= c
<1> DEFINE T == {0} \cup {buf.frames[j].subs : j \in S}
<1>1. PICK b \in Nat : \A j \in DOMAIN buf.frames :
        buf.frames[j].subs \in Nat /\ buf.frames[j].subs <= b
  BY SubsAreBounded
<1>2. T \in SUBSET Nat /\ T # {} /\ \A n \in T : n <= b
  BY <1>1
<1>3. \A j \in S : buf.frames[j].subs \in T
  OBVIOUS
<1>4. \A n \in T : n = 0 \/ \E j \in S : n = buf.frames[j].subs
  OBVIOUS
<1> HIDE DEF T
<1>5. Max(T) \in T /\ \A n \in T : n <= Max(T)
  BY <1>2, GreatestElement
<1>6. Max(T) \in Nat
  BY <1>2, <1>5
<1>7. ASSUME Max(T) <= c, NEW j \in S PROVE buf.frames[j].subs <= c
  <2>1. buf.frames[j].subs \in Nat /\ buf.frames[j].subs <= Max(T)
    BY <1>1, <1>3, <1>5
  <2> QED
    BY <1>6, <1>7, <2>1
<1>8. ASSUME \A j \in S : buf.frames[j].subs <= c PROVE Max(T) <= c
  BY <1>4, <1>5, <1>8
<1> QED
  BY <1>7, <1>8 DEF T

\* The sub-elements of some frames are finitely many, and those of one more
\* frame come on top.
LEMMA SubElementsFacts ==
  ASSUME TypeOK, NEW S \in SUBSET DOMAIN buf.frames
  PROVE  /\ IsFiniteSet(SubElements(S))
         /\ Cardinality(SubElements(S)) \in Nat
         /\ \A i \in DOMAIN buf.frames : i \notin S =>
              Cardinality(SubElements(S \cup {i})) =
                Cardinality(SubElements(S)) + buf.frames[i].subs
<1>1. PICK b \in Nat : \A j \in DOMAIN buf.frames :
        buf.frames[j].subs \in Nat /\ buf.frames[j].subs <= b
  BY SubsAreBounded
<1>2. ASSUME NEW R \in SUBSET DOMAIN buf.frames
      PROVE  IsFiniteSet(SubElements(R)) /\ Cardinality(SubElements(R)) \in Nat
  <2>1. IsFiniteSet(R) /\ IsFiniteSet(1 .. b)
    BY FramesAreFinite, FS_Interval
  <2>2. IsFiniteSet(R \X (1 .. b))
    BY <2>1, FS_Product
  <2>3. SubElements(R) \in SUBSET (R \X (1 .. b))
    <3>1. ASSUME NEW j \in R, NEW k \in 1 .. buf.frames[j].subs
          PROVE  k \in 1 .. b
      BY <1>1, <3>1
    <3> QED
      BY <3>1 DEF SubElements
  <2> QED
    BY <2>2, <2>3, FS_Subset, FS_CardinalityType
<1>3. ASSUME NEW i \in DOMAIN buf.frames, i \notin S
      PROVE  Cardinality(SubElements(S \cup {i})) =
               Cardinality(SubElements(S)) + buf.frames[i].subs
  <2> PICK n, X : n = buf.frames[i].subs /\ X = {i} \X (1 .. n)
    OBVIOUS
  <2>1. n \in Nat
    BY <1>1
  <2>2. SubElements(S \cup {i}) = SubElements(S) \cup X
    BY DEF SubElements
  <2>3. SubElements(S) \cap X = {}
    BY <1>3 DEF SubElements
  <2>4. IsFiniteSet(X) /\ Cardinality(X) = n
    <3>1. IsFiniteSet({i}) /\ Cardinality({i}) = 1
      BY FS_Singleton
    <3>2. IsFiniteSet(1 .. n) /\ Cardinality(1 .. n) = n
      <4>1. 1 \in Int /\ n \in Int
        BY <2>1
      <4>2. IsFiniteSet(1 .. n) /\ Cardinality(1 .. n) = IF 1 > n THEN 0 ELSE n - 1 + 1
        BY <4>1, FS_Interval
      <4> QED
        BY <2>1, <4>2
    <3>3. IsFiniteSet(X) /\ Cardinality(X) = Cardinality({i}) * Cardinality(1 .. n)
      BY <3>1, <3>2, FS_Product
    <3> QED
      BY <2>1, <3>1, <3>2, <3>3
  <2>5. IsFiniteSet(SubElements(S)) /\ Cardinality(SubElements(S)) \in Nat
    BY <1>2
  <2>6. Cardinality(SubElements(S) \cup X) =
          Cardinality(SubElements(S)) + n - Cardinality(SubElements(S) \cap X)
    BY <2>4, <2>5, FS_Union
  <2>7. Cardinality(SubElements(S) \cap X) = 0
    BY <2>3, FS_EmptySet
  <2>8. Cardinality(SubElements(S) \cup X) = Cardinality(SubElements(S)) + n
    BY <2>1, <2>5, <2>6, <2>7
  <2> QED
    BY <2>2, <2>8
<1> QED
  BY <1>2, <1>3

LEMMA SubElementsOfOne ==
  ASSUME TypeOK, NEW m \in DOMAIN buf.frames
  PROVE  Cardinality(SubElements({m})) = buf.frames[m].subs
<1>1. SubElements({}) = {} /\ {} \cup {m} = {m}
  BY DEF SubElements
<1>2. Cardinality(SubElements({} \cup {m})) = Cardinality(SubElements({})) + buf.frames[m].subs
  BY SubElementsFacts
<1>3. buf.frames[m].subs \in Nat /\ Cardinality({}) = 0
  BY SubsAreBounded, FS_EmptySet
<1> QED
  BY <1>1, <1>2, <1>3

\* More frames have at least as many sub-elements.
LEMMA SubElementsGrow ==
  ASSUME TypeOK, NEW T \in SUBSET DOMAIN buf.frames, NEW S \in SUBSET T
  PROVE  Cardinality(SubElements(S)) <= Cardinality(SubElements(T))
<1>1. SubElements(S) \in SUBSET SubElements(T)
  BY DEF SubElements
<1>2. IsFiniteSet(SubElements(T))
  BY SubElementsFacts
<1> QED
  BY <1>1, <1>2, FS_Subset

\* A frame that does not make the message malformed.
Good(j) ==
  LET f == buf.frames[j]
  IN  IF f.type \in Handled THEN HeaderOk(f) /\ f.body = "ok" ELSE Fits(f)

\* How full the table of a first-time reader is.
Filled(t) ==
  /\ Kind(t) = "array" => Len(store[t]) = Cardinality(Consumed(t))
  /\ Kind(t) = "nested" =>
       IF Element[t].resets = "never"
         THEN Len(store[t]) = Cardinality(SubElements(Consumed(t)))
         ELSE /\ Consumed(t) = {} => store[t] = <<>>
              /\ Consumed(t) # {} => Len(store[t]) = buf.frames[Max(Consumed(t))].subs
              /\ \A j \in Consumed(t) : buf.frames[j].subs <= Element[t].cap

\* Inductive with IInv and Held: all that has been read so far is good.
Sifted ==
  call = 1 /\ phase # "rejected" =>
    /\ \A j \in DOMAIN buf.frames : FrameEnd(buf.frames[j]) <= cursor => Good(j)
    /\ \A t \in Handled : Filled(t)

\* The message and the buffer alone decide whether the message is well formed.
LEMMA WellFormedStays ==
  ASSUME UNCHANGED <<msg, buf>>
  PROVE  WellFormed' <=> WellFormed
<1>1. Visible' = Visible /\ Handled' = Handled
  BY DEF Visible, Handled, HeaderSize
<1>2. \A t : VisibleOf(t)' = VisibleOf(t)
  BY <1>1 DEF VisibleOf
<1>3. \A S : SubElements(S)' = SubElements(S)
  BY DEF SubElements
<1>4. \A t : Load(t)' = Load(t)
  BY <1>2, <1>3 DEF Load, Kind
<1>5. \A t : Delivered(t)' <=> Delivered(t)
  BY <1>2, <1>4 DEF Delivered, Kind
<1>6. \A i : Good(i)' <=> Good(i)
  BY <1>1 DEF Good, HeaderOk, Fits, FrameEnd, HeaderSize
<1>7. {t \in msg.oneOf : Delivered(t)}' = {t \in msg.oneOf : Delivered(t)}
  BY <1>5
<1>8. (\A i \in Visible : Good(i))' <=> \A i \in Visible : Good(i)
  BY <1>1, <1>6
<1> QED
  BY <1>1, <1>4, <1>5, <1>7, <1>8 DEF WellFormed, Good

\* A well formed message has good frames and fits the tables.
LEMMA WellFormedFacts ==
  ASSUME WellFormed
  PROVE  /\ \A i \in Visible : Good(i)
         /\ \A t \in Handled : Load(t) <= Element[t].cap
BY DEF WellFormed, Good

\* The frame under the cursor, and all that has been read, can be seen.
LEMMA ReadIsVisible ==
  ASSUME IInv, phase # "rejected", NEW t
  PROVE  Consumed(t) \subseteq VisibleOf(t)
<1>1. SUFFICES ASSUME NEW j \in Consumed(t) PROVE j \in VisibleOf(t)
  OBVIOUS
<1>2. j \in DOMAIN buf.frames /\ buf.frames[j].type = t /\ FrameEnd(buf.frames[j]) <= cursor
  BY DEF Consumed
<1>3. buf.frames[j] \in Frame /\ FrameEnd(buf.frames[j]) \in Nat
      /\ FrameEnd(buf.frames[j]) >= buf.frames[j].at + HeaderSize
  BY <1>2, FrameFacts DEF IInv, TypeOK
<1>4. cursor \in Nat /\ buf.size \in Nat /\ cursor <= buf.size
  BY DEF IInv, TypeOK, WellLaidOut, OnFrameBoundary
<1>5. buf.frames[j].at \in Nat
  BY <1>3 DEF Frame
<1> QED
  BY <1>2, <1>3, <1>4, <1>5 DEF VisibleOf, Visible, HeaderSize

LEMMA UnderIsVisible ==
  ASSUME IInv, NEW i \in DOMAIN buf.frames, Under(i)
  PROVE  /\ i \in Visible /\ i \in VisibleOf(buf.frames[i].type)
         /\ \A t : i \notin Consumed(t)
<1>1. i \in Nat
  BY FrameFacts DEF IInv, TypeOK
<1>2. \A t : i \notin Consumed(t)
  BY <1>1, ConsumedBefore DEF IInv, Under
<1> QED
  BY <1>2 DEF Under, Visible, VisibleOf

\* A step that takes a good frame keeps Sifted if the table of its type is
\* as full as it should be afterwards.
LEMMA TakingKeepsSifted ==
  ASSUME IInv, Sifted, NEW i \in DOMAIN buf.frames, Under(i), Good(i),
         UNCHANGED <<msg, buf, phase, call>>, cursor' = FrameEnd(buf.frames[i]),
         \A t \in Type : t # buf.frames[i].type => store'[t] = store[t],
         NEW y, buf.frames[i].type = y,
         call = 1 /\ y \in Handled => Filled(y)'
  PROVE  Sifted'
<1> SUFFICES ASSUME call = 1
             PROVE  /\ \A j \in DOMAIN buf.frames :
                         FrameEnd(buf.frames[j]) <= cursor' => Good(j)
                    /\ \A t \in Handled : Filled(t)'
  <2>1. Handled' = Handled
    BY DEF Handled
  <2>2. \A j : Good(j)' <=> Good(j)
    BY <2>1 DEF Good, HeaderOk, Fits, FrameEnd, HeaderSize
  <2>3. \A j \in DOMAIN buf.frames : FrameEnd(buf.frames[j])' = FrameEnd(buf.frames[j])
    BY DEF FrameEnd, HeaderSize
  <2> QED
    BY <2>1, <2>2, <2>3 DEF Sifted
<1>1. phase = "reading" /\ buf.frames[i].at = cursor
  BY DEF Under
<1>2. ASSUME NEW j \in DOMAIN buf.frames, FrameEnd(buf.frames[j]) <= cursor'
      PROVE  Good(j)
  <2>1. j <= i /\ (j < i => FrameEnd(buf.frames[j]) <= cursor)
    BY <1>1, <1>2, BehindTheCursor DEF IInv
  <2>2. i \in Nat /\ j \in Nat
    BY FrameFacts DEF IInv, TypeOK
  <2>3. j = i \/ j < i
    BY <2>1, <2>2
  <2> QED
    BY <1>1, <2>1, <2>3 DEF Sifted
<1>3. ASSUME NEW t \in Handled PROVE Filled(t)'
  <2>1. CASE t = y
    BY <2>1
  <2>2. CASE t # y
    <3>1. Consumed(t)' = Consumed(t) /\ store'[t] = store[t]
      BY <1>1, <2>2, ConsumedGrows, HandledTypes DEF IInv
    <3>2. \A S : SubElements(S)' = SubElements(S)
      BY DEF SubElements
    <3>3. Filled(t)
      BY <1>1 DEF Sifted
    <3> QED
      BY <3>1, <3>2, <3>3 DEF Filled, Kind
  <2> QED
    BY <2>1, <2>2
<1> QED
  BY <1>2, <1>3

LEMMA ReadSingleSifted ==
  ASSUME IInv, Sifted, NEW i \in DOMAIN buf.frames, ReadSingle(i)
  PROVE  Sifted'
<1> PICK y : buf.frames[i].type = y
  OBVIOUS
<1>1. /\ y \in Type /\ y \in Handled /\ Kind(y) = "single" /\ Under(i)
      /\ store \in [Type -> Seq(Pointers)]
      /\ store' = [store EXCEPT ![y] = <<Pointer(i)>>]
      /\ cursor' = FrameEnd(buf.frames[i])
      /\ UNCHANGED <<msg, buf, phase, call>>
  BY FrameFacts DEF IInv, TypeOK, ReadSingle
<1>2. \A t \in Type : t # y => store'[t] = store[t]
  BY <1>1
<1>3. Good(i)
  BY DEF IInv, TypeOK, WellLaidOut, ReadSingle, Good
<1>4. Filled(y)'
  BY <1>1 DEF Filled, Kind
<1> QED
  BY <1>1, <1>2, <1>3, <1>4, TakingKeepsSifted

LEMMA ReadArraySifted ==
  ASSUME IInv, Sifted, NEW i \in DOMAIN buf.frames, ReadArray(i)
  PROVE  Sifted'
<1> PICK y : buf.frames[i].type = y
  OBVIOUS
<1>1. /\ y \in Type /\ y \in Handled /\ Kind(y) = "array" /\ Under(i)
      /\ store \in [Type -> Seq(Pointers)] /\ store[y] \in Seq(Pointers)
      /\ store' = [store EXCEPT ![y] = Append(store[y], Pointer(i))]
      /\ cursor' = FrameEnd(buf.frames[i])
      /\ UNCHANGED <<msg, buf, phase, call>>
  BY FrameFacts DEF IInv, TypeOK, ReadArray
<1>2. /\ \A t \in Type : t # y => store'[t] = store[t]
      /\ Len(store'[y]) = Len(store[y]) + 1
  BY <1>1
<1>3. Good(i)
  BY DEF ReadArray, Good, BodyOk
<1>4. ASSUME call = 1 PROVE Filled(y)'
  <2>1. Consumed(y)' = Consumed(y) \cup {i} /\ i \notin Consumed(y)
    BY <1>1, ConsumedGrows, UnderIsVisible DEF IInv, Under
  <2>2. IsFiniteSet(Consumed(y))
    BY FramesAreFinite DEF IInv, Consumed
  <2>3. Cardinality(Consumed(y)') = Cardinality(Consumed(y)) + 1
    BY <2>1, <2>2, FS_AddElement
  <2>4. Len(store[y]) = Cardinality(Consumed(y))
    BY <1>1, <1>4 DEF Sifted, Filled, Under
  <2> QED
    BY <1>1, <1>2, <2>3, <2>4 DEF Filled, Kind
<1> QED
  BY <1>1, <1>2, <1>3, <1>4, TakingKeepsSifted

LEMMA ReadNestedSifted ==
  ASSUME IInv, Sifted, NEW i \in DOMAIN buf.frames, ReadNested(i)
  PROVE  Sifted'
<1> PICK y, n : buf.frames[i].type = y /\ n = buf.frames[i].subs
  OBVIOUS
<1> DEFINE u == [k \in 1 .. n |-> Pointer(i)]
<1>1. /\ y \in Type /\ y \in Handled /\ Kind(y) = "nested" /\ Under(i)
      /\ BodyOk(buf.frames[i])
      /\ store \in [Type -> Seq(Pointers)]
      /\ store' = [store EXCEPT ![y] = WithSubs(buf.frames[i], i)]
      /\ cursor' = FrameEnd(buf.frames[i])
      /\ UNCHANGED <<msg, buf, phase, call>>
  BY FrameFacts DEF IInv, TypeOK, ReadNested
<1>2. /\ \A t \in Type : t # y => store'[t] = store[t]
      /\ store'[y] = WithSubs(buf.frames[i], i)
      /\ Len(store'[y]) <= Element[y].cap
  BY <1>1, WithSubsFacts DEF IInv
<1>3. Good(i)
  BY DEF ReadNested, Good, BodyOk
<1>4. /\ Kept(buf.frames[i]) = IF Element[y].resets = "never" THEN store[y] ELSE <<>>
      /\ Kept(buf.frames[i]) \in Seq(Pointers) /\ n \in Nat
      /\ store'[y] = Kept(buf.frames[i]) \o u
  BY <1>1, <1>2, KeptFacts DEF IInv
<1>5. Len(store'[y]) = Len(Kept(buf.frames[i])) + n
  <2>1. n \in Nat /\ Pointer(i) \in Pointers
    BY <1>4, PointerFacts DEF IInv
  <2>2. u \in Seq(Pointers) /\ Len(u) = n
    BY <2>1
  <2> HIDE DEF u
  <2> PICK s : s = Kept(buf.frames[i])
    OBVIOUS
  <2>3. s \in Seq(Pointers) /\ store'[y] = s \o u
    BY <1>4
  <2>4. Len(s \o u) = Len(s) + Len(u)
    BY <2>2, <2>3
  <2> QED
    BY <2>2, <2>3, <2>4
<1>6. ASSUME call = 1 PROVE Filled(y)'
  <2>1. Consumed(y)' = Consumed(y) \cup {i} /\ i \notin Consumed(y) /\ Max(Consumed(y)') = i
    BY <1>1, ConsumedGrows, UnderIsVisible, LastConsumed DEF IInv, Under
  <2>2. Filled(y)
    BY <1>1, <1>6 DEF Sifted, Under
  <2>3. \A S : SubElements(S)' = SubElements(S)
    BY <1>1 DEF SubElements
  <2>4. CASE Element[y].resets = "never"
    <3>1. Consumed(y) \in SUBSET DOMAIN buf.frames
      BY DEF Consumed
    <3>2. Cardinality(SubElements(Consumed(y) \cup {i})) = Cardinality(SubElements(Consumed(y))) + n
      BY <2>1, <3>1, SubElementsFacts DEF IInv
    <3>3. Len(store'[y]) = Cardinality(SubElements(Consumed(y) \cup {i}))
      BY <1>1, <1>4, <1>5, <2>2, <2>4, <3>2 DEF Filled
    <3> QED
      BY <1>1, <2>1, <2>3, <2>4, <3>3 DEF Filled, Kind
  <2>5. CASE Element[y].resets # "never"
    <3>1. Len(store'[y]) = n
      BY <1>4, <1>5, <2>5
    <3>2. \A j \in Consumed(y) \cup {i} : buf.frames[j].subs <= Element[y].cap
      BY <1>1, <1>2, <2>2, <2>5, <3>1 DEF Filled
    <3> QED
      BY <1>1, <2>1, <2>5, <3>1, <3>2 DEF Filled, Kind
  <2> QED
    BY <2>4, <2>5
<1> QED
  BY <1>1, <1>2, <1>3, <1>6, TakingKeepsSifted

LEMMA SkipUnknownSifted ==
  ASSUME IInv, Sifted, NEW i \in DOMAIN buf.frames, SkipUnknown(i)
  PROVE  Sifted'
<1> PICK y : buf.frames[i].type = y
  OBVIOUS
<1>1. /\ y \notin Handled /\ Under(i) /\ Good(i) /\ cursor' = FrameEnd(buf.frames[i])
      /\ UNCHANGED <<msg, buf, phase, call, store>>
  BY DEF SkipUnknown, Good
<1> QED
  BY <1>1, TakingKeepsSifted

LEMMA FreshSifted == Fresh => Sifted
<1> SUFFICES ASSUME Fresh PROVE Sifted
  OBVIOUS
<1>1. TypeOK
  BY FreshIInv DEF IInv
<1>2. \A j \in DOMAIN buf.frames : ~(FrameEnd(buf.frames[j]) <= cursor)
  BY <1>1, NothingBehindZero DEF Fresh
<1>3. \A t : Consumed(t) = {}
  BY <1>2 DEF Consumed
<1>4. SubElements({}) = {}
  BY DEF SubElements
<1>5. \A t \in Handled : store[t] = <<>>
  BY <1>1, HandledTypes DEF Fresh
<1>6. Cardinality({}) = 0 /\ Len(<<>>) = 0
  BY FS_EmptySet
<1>7. ASSUME NEW t \in Handled PROVE Filled(t)
  <2>1. Consumed(t) = {} /\ store[t] = <<>>
    BY <1>3, <1>5
  <2> QED
    BY <1>4, <1>6, <2>1 DEF Filled
<1> QED
  BY <1>2, <1>7 DEF Sifted

\* A step that changes nothing of what Sifted speaks of, but the phase.
LEMMA RestingKeepsSifted ==
  ASSUME Sifted, UNCHANGED <<msg, buf, cursor, call, store>>,
         phase' # "rejected" => phase # "rejected"
  PROVE  Sifted'
<1>1. \A t : Consumed(t)' = Consumed(t)
  BY DEF Consumed, FrameEnd, HeaderSize
<1>2. \A S : SubElements(S)' = SubElements(S)
  BY DEF SubElements
<1>3. \A t : Filled(t)' <=> Filled(t)
  BY <1>1, <1>2 DEF Filled, Kind
<1>4. Handled' = Handled
  BY DEF Handled
<1>5. \A j : Good(j)' <=> Good(j)
  BY <1>4 DEF Good, HeaderOk, Fits, FrameEnd, HeaderSize
<1>6. \A j \in DOMAIN buf.frames : FrameEnd(buf.frames[j])' = FrameEnd(buf.frames[j])
  BY DEF FrameEnd, HeaderSize
<1> QED
  BY <1>3, <1>4, <1>5, <1>6 DEF Sifted

LEMMA SiftedStep == IInv /\ Sifted /\ [Next]_vars => Sifted'
<1> SUFFICES ASSUME IInv, Sifted, [Next]_vars PROVE Sifted'
  OBVIOUS
<1>1. ASSUME NEW i \in DOMAIN buf.frames,
             ReadSingle(i) \/ ReadArray(i) \/ ReadNested(i) \/ SkipUnknown(i)
      PROVE  Sifted'
  BY <1>1, ReadSingleSifted, ReadArraySifted, ReadNestedSifted, SkipUnknownSifted
<1>2. ASSUME NEW i \in DOMAIN buf.frames,
             RejectUnknown(i) \/ RejectHeader(i) \/ RejectBody(i)
      PROVE  Sifted'
  BY <1>2 DEF Sifted, RejectUnknown, RejectHeader, RejectBody
<1>3. CASE Finish
  BY <1>3, RestingKeepsSifted DEF Finish
<1>4. CASE DeserializeAgain(Buffers, Buffers)
  <2>1. call \in Nat \ {0} /\ call' = call + 1
    BY <1>4, MaxCallsAssumption DEF IInv, TypeOK, DeserializeAgain
  <2> QED
    BY <2>1 DEF Sifted
<1>5. CASE UNCHANGED vars
  BY <1>5, RestingKeepsSifted DEF vars
<1> QED
  BY <1>1, <1>2, <1>3, <1>4, <1>5 DEF Next, LoopStep

LEMMA RejectUnknownIsRight ==
  ASSUME IInv, NEW i \in DOMAIN buf.frames, RejectUnknown(i)
  PROVE  ~WellFormed
<1>1. i \in Visible /\ ~Good(i)
  BY UnderIsVisible DEF RejectUnknown, Good
<1> QED
  BY <1>1, WellFormedFacts

LEMMA RejectHeaderIsRight ==
  ASSUME IInv, Sifted, call = 1, NEW i \in DOMAIN buf.frames, RejectHeader(i)
  PROVE  ~WellFormed
<1> PICK y : buf.frames[i].type = y
  OBVIOUS
<1>1. /\ y \in Handled /\ Under(i) /\ phase = "reading"
      /\ ~HasRoom(y) \/ ~HeaderOk(buf.frames[i])
  BY DEF RejectHeader, Under
<1>2. CASE ~HeaderOk(buf.frames[i])
  <2>1. i \in Visible /\ ~Good(i)
    BY <1>1, <1>2, UnderIsVisible DEF Good
  <2> QED
    BY <2>1, WellFormedFacts
<1>3. CASE ~HasRoom(y)
  <2>1. Kind(y) = "array" /\ ~(Len(store[y]) < Element[y].cap)
    BY <1>3 DEF HasRoom
  <2>2. Len(store[y]) = Cardinality(Consumed(y))
    BY <1>1, <2>1 DEF Sifted, Filled
  <2>3. Consumed(y) \cup {i} \in SUBSET VisibleOf(y) /\ i \notin Consumed(y)
    BY <1>1, UnderIsVisible, ReadIsVisible
  <2>4. IsFiniteSet(Consumed(y)) /\ Cardinality(Consumed(y)) \in Nat
    BY FramesAreFinite DEF IInv, Consumed
  <2>5. IsFiniteSet(VisibleOf(y)) /\ Cardinality(VisibleOf(y)) \in Nat
    BY FramesAreFinite DEF IInv, VisibleOf, Visible
  <2>6. Cardinality(Consumed(y) \cup {i}) = Cardinality(Consumed(y)) + 1
    BY <2>3, <2>4, FS_AddElement
  <2>7. Cardinality(Consumed(y) \cup {i}) <= Cardinality(VisibleOf(y))
    BY <2>3, <2>5, FS_Subset
  <2>8. Element[y].cap \in Nat
    BY FrameFacts DEF IInv, TypeOK, IsDescriptor
  <2>9. Load(y) = Cardinality(VisibleOf(y))
    BY <2>1 DEF Load
  <2>10. ~(Load(y) <= Element[y].cap)
    BY <2>1, <2>2, <2>4, <2>5, <2>6, <2>7, <2>8, <2>9
  <2> QED
    BY <1>1, <2>10, WellFormedFacts
<1> QED
  BY <1>1, <1>2, <1>3

\* The table of a nested reader is too small for what the element holds.
LEMMA NoRoomForSubElements ==
  ASSUME IInv, Sifted, call = 1, NEW i \in DOMAIN buf.frames, Under(i),
         NEW y \in Handled, buf.frames[i].type = y, Kind(y) = "nested",
         buf.frames[i].body = "ok", Stored(buf.frames[i]) # buf.frames[i].subs
  PROVE  ~(Load(y) <= Element[y].cap)
<1> PICK n : n = buf.frames[i].subs
  OBVIOUS
<1>1. n \in Nat /\ Element[y].cap \in Nat /\ y \in Type
      /\ Element[y].resets \in {"never", "start", "late"}
  BY FrameFacts DEF IInv, TypeOK, IsDescriptor, Frame
<1>2. Kept(buf.frames[i]) = IF Element[y].resets = "never" THEN store[y] ELSE <<>>
  BY <1>1 DEF Kept
<1>3. ~(n <= Element[y].cap - Len(Kept(buf.frames[i])))
  BY DEF Stored
<1>4. i \in VisibleOf(y) /\ i \notin Consumed(y) /\ Consumed(y) \in SUBSET VisibleOf(y)
  BY UnderIsVisible, ReadIsVisible DEF Under
<1>5. VisibleOf(y) \in SUBSET DOMAIN buf.frames /\ Consumed(y) \in SUBSET DOMAIN buf.frames
  BY DEF VisibleOf, Visible, Consumed
<1>6. CASE Element[y].resets = "never"
  <2>1. Len(store[y]) = Cardinality(SubElements(Consumed(y)))
    BY <1>6 DEF Sifted, Filled, Under
  <2>2. Cardinality(SubElements(Consumed(y))) \in Nat
        /\ Cardinality(SubElements(Consumed(y) \cup {i})) = Cardinality(SubElements(Consumed(y))) + n
    BY <1>4, <1>5, SubElementsFacts DEF IInv
  <2>3. Cardinality(SubElements(Consumed(y) \cup {i})) <= Cardinality(SubElements(VisibleOf(y)))
    BY <1>4, <1>5, SubElementsGrow DEF IInv
  <2>4. Cardinality(SubElements(VisibleOf(y))) \in Nat
    BY <1>5, SubElementsFacts DEF IInv
  <2>5. Load(y) = Cardinality(SubElements(VisibleOf(y)))
    BY <1>6 DEF Load
  <2> QED
    BY <1>1, <1>2, <1>3, <1>6, <2>1, <2>2, <2>3, <2>4, <2>5
<1>7. CASE Element[y].resets # "never"
  <2>1. ~(n <= Element[y].cap)
    <3>1. Len(Kept(buf.frames[i])) = 0
      BY <1>2, <1>7
    <3> QED
      BY <1>1, <1>3, <3>1
  <2>2. Load(y) = Max({0} \cup {buf.frames[j].subs : j \in VisibleOf(y)})
    BY <1>7 DEF Load
  <2> QED
    BY <1>1, <1>4, <1>5, <2>1, <2>2, GreatestFits DEF IInv
<1> QED
  BY <1>6, <1>7

LEMMA RejectBodyIsRight ==
  ASSUME IInv, Sifted, call = 1, NEW i \in DOMAIN buf.frames, RejectBody(i)
  PROVE  ~WellFormed
<1> PICK y : buf.frames[i].type = y
  OBVIOUS
<1>1. y \in Handled /\ Under(i) /\ ~BodyOk(buf.frames[i])
  BY DEF RejectBody
<1>2. CASE buf.frames[i].body # "ok"
  <2>1. i \in Visible /\ ~Good(i)
    BY <1>1, <1>2, UnderIsVisible DEF Good
  <2> QED
    BY <2>1, WellFormedFacts
<1>3. CASE buf.frames[i].body = "ok"
  <2>1. Kind(y) = "nested" /\ Stored(buf.frames[i]) # buf.frames[i].subs
    BY <1>1, <1>3 DEF BodyOk
  <2>2. ~(Load(y) <= Element[y].cap)
    BY <1>1, <1>3, <2>1, NoRoomForSubElements
  <2> QED
    BY <1>1, <2>2, WellFormedFacts
<1> QED
  BY <1>2, <1>3

\* When less than a header is left, all that can be seen has been read.
LEMMA AllIsRead ==
  ASSUME IInv, phase # "rejected", cursor + HeaderSize > buf.size,
         NEW j \in Visible
  PROVE  j \in DOMAIN buf.frames /\ FrameEnd(buf.frames[j]) <= cursor
<1>1. j \in DOMAIN buf.frames /\ buf.frames[j].at + HeaderSize <= buf.size
  BY DEF Visible
<1>2. /\ WellLaidOut(buf) /\ cursor \in Nat /\ buf.size \in Nat
      /\ buf.frames \in Seq(Frame) /\ Len(buf.frames) \in Nat
      /\ DOMAIN buf.frames = 1 .. Len(buf.frames)
  BY DEF IInv, TypeOK, WellLaidOut
<1>3. \A k \in DOMAIN buf.frames :
        /\ buf.frames[k].at \in Nat /\ FrameEnd(buf.frames[k]) \in Nat
        /\ FrameEnd(buf.frames[k]) >= buf.frames[k].at + HeaderSize
  BY <1>2, FrameFacts DEF Frame
<1>4. CASE cursor = LayoutEnd(buf)
  <2> PICK n : n = Len(buf.frames)
    OBVIOUS
  <2>1. n \in DOMAIN buf.frames /\ cursor = FrameEnd(buf.frames[n])
    BY <1>1, <1>2, <1>4 DEF LayoutEnd
  <2>2. CASE j = n
    BY <1>1, <1>3, <2>1, <2>2
  <2>3. CASE j < n
    <3>1. FrameEnd(buf.frames[j]) <= buf.frames[n].at
      BY <1>1, <1>2, <2>1, <2>3, FramesInOrder
    <3> QED
      BY <1>1, <1>3, <2>1, <3>1 DEF HeaderSize
  <2> QED
    BY <1>1, <1>2, <2>2, <2>3
<1>5. ASSUME NEW k \in DOMAIN buf.frames, buf.frames[k].at = cursor
      PROVE  FrameEnd(buf.frames[j]) <= cursor
  <2>1. CASE j < k
    BY <1>1, <1>2, <1>5, <2>1, FramesInOrder
  <2>2. CASE j = k
    BY <1>1, <1>2, <1>5, <2>2 DEF HeaderSize
  <2>3. CASE k < j
    <3>1. FrameEnd(buf.frames[k]) <= buf.frames[j].at
      BY <1>1, <1>2, <2>3, FramesInOrder
    <3>2. /\ buf.frames[j].at \in Nat /\ FrameEnd(buf.frames[k]) \in Nat
          /\ FrameEnd(buf.frames[k]) >= cursor + HeaderSize
      BY <1>1, <1>3, <1>5
    <3>3. \A a, e, c, z \in Nat :
            e <= a /\ e >= c + HeaderSize /\ c + HeaderSize > z => ~(a + HeaderSize <= z)
      BY DEF HeaderSize
    <3> QED
      BY <1>1, <1>2, <3>1, <3>2, <3>3
  <2> QED
    BY <1>1, <1>2, <2>1, <2>2, <2>3
<1> QED
  BY <1>1, <1>4, <1>5 DEF IInv, OnFrameBoundary

LEMMA AllIsConsumed ==
  ASSUME IInv, phase # "rejected", cursor + HeaderSize > buf.size, NEW t
  PROVE  VisibleOf(t) = Consumed(t)
<1>1. VisibleOf(t) \subseteq Consumed(t)
  BY AllIsRead DEF VisibleOf, Consumed
<1> QED
  BY <1>1, ReadIsVisible

\* What is held by a first-time reader was put there in this call.
LEMMA FirstCall ==
  ASSUME TypeOK, NoneFromTheFuture, call = 1, NEW t \in Type
  PROVE  OfThisCall(t) = DOMAIN store[t] /\ (header[t] # Null => header[t][1] = call)
<1>1. ASSUME NEW k \in DOMAIN store[t] PROVE store[t][k][1] = call
  <2>1. store[t][k] \in Pointers /\ store[t][k][1] <= call
    BY DEF TypeOK, NoneFromTheFuture
  <2> QED
    BY <2>1, MaxCallsAssumption DEF Pointers
<1>2. ASSUME header[t] # Null PROVE header[t][1] = call
  <2>1. header[t] \in Pointers /\ header[t][1] <= call
    BY <1>2 DEF TypeOK, NoneFromTheFuture
  <2> QED
    BY <2>1, MaxCallsAssumption DEF Pointers
<1> QED
  BY <1>1, <1>2 DEF OfThisCall

\* Once all is read, no table can have been too small.
LEMMA LoadsFit ==
  ASSUME IInv, Sifted, call = 1, phase = "reading", cursor + HeaderSize > buf.size,
         NEW t \in Handled
  PROVE  Load(t) <= Element[t].cap
<1>1. t \in Type /\ Element[t].cap \in Nat /\ Kind(t) \in {"single", "array", "nested"}
  BY HandledTypes, ElementAssumption DEF IInv, TypeOK, IsDescriptor, Kind
<1>2. VisibleOf(t) = Consumed(t) /\ Filled(t) /\ Len(store[t]) <= Element[t].cap
  BY <1>1, AllIsConsumed DEF Sifted, IInv, CapsHold
<1>3. CASE Kind(t) = "single"
  BY <1>1, <1>3 DEF Load
<1>4. CASE Kind(t) = "array"
  BY <1>2, <1>4 DEF Load, Filled
<1>5. CASE Kind(t) = "nested" /\ Element[t].resets = "never"
  BY <1>2, <1>5 DEF Load, Filled
<1>6. CASE Kind(t) = "nested" /\ Element[t].resets # "never"
  <2>1. Consumed(t) \in SUBSET DOMAIN buf.frames
    BY DEF Consumed
  <2>2. \A j \in Consumed(t) : buf.frames[j].subs <= Element[t].cap
    BY <1>2, <1>6 DEF Filled
  <2>3. Max({0} \cup {buf.frames[j].subs : j \in Consumed(t)}) <= Element[t].cap
    BY <1>1, <2>1, <2>2, GreatestFits DEF IInv
  <2> QED
    BY <1>2, <1>6, <2>3 DEF Load
<1> QED
  BY <1>1, <1>3, <1>4, <1>5, <1>6

\* Once all is read, a reader is present exactly if the buffer delivers its
\* type.
LEMMA PresentIsDelivered ==
  ASSUME IInv, Held, Sifted, call = 1, phase = "reading",
         cursor + HeaderSize > buf.size, NEW t \in Handled
  PROVE  IsPresent(t) <=> Delivered(t)
<1>1. t \in Type /\ Kind(t) \in {"single", "array", "nested"} /\ store[t] \in Seq(Pointers)
  BY HandledTypes, ElementAssumption DEF IInv, TypeOK, IsDescriptor, Kind
<1>2. VisibleOf(t) = Consumed(t) /\ Filled(t) /\ Decoded(t)
  BY AllIsConsumed DEF Sifted, Held
<1>3. OfThisCall(t) = DOMAIN store[t] /\ (header[t] # Null => header[t][1] = call)
  BY <1>1, FirstCall DEF IInv
<1>4. Consumed(t) \in SUBSET DOMAIN buf.frames
  BY DEF Consumed
<1>5. CASE Kind(t) = "single"
  <2> PICK p : p = Pointer(Max(Consumed(t)))
    OBVIOUS
  <2>0. IF Consumed(t) = {} THEN OfThisCall(t) = {} ELSE store[t] = <<p>>
    BY <1>2, <1>5 DEF Decoded, DecodedSingle
  <2>1. Consumed(t) = {} => store[t] = <<>>
    <3> SUFFICES ASSUME Consumed(t) = {} PROVE store[t] = <<>>
      OBVIOUS
    <3>1. DOMAIN store[t] = {} /\ DOMAIN store[t] = 1 .. Len(store[t]) /\ Len(store[t]) \in Nat
      BY <1>1, <1>3, <2>0
    <3>2. ASSUME Len(store[t]) # 0 PROVE FALSE
      <4>1. 1 \in 1 .. Len(store[t])
        BY <3>1, <3>2
      <4> QED
        BY <3>1, <4>1
    <3> QED
      BY <1>1, <3>2
  <2>2. Consumed(t) # {} => store[t] # <<>>
    <3>1. <<p>> # <<>>
      OBVIOUS
    <3> QED
      BY <2>0, <3>1
  <2> QED
    BY <1>2, <1>5, <2>1, <2>2 DEF IsPresent, Delivered
<1>6. CASE Kind(t) = "array"
  <2>1. IsFiniteSet(Consumed(t))
    BY <1>4, FramesAreFinite DEF IInv
  <2>2. Cardinality(Consumed(t)) = 0 <=> Consumed(t) = {}
    BY <2>1, FS_EmptySet
  <2>3. Len(store[t]) = 0 <=> store[t] = <<>>
    BY <1>1
  <2> QED
    BY <1>2, <1>6, <2>2, <2>3 DEF IsPresent, Delivered, Filled
<1>7. CASE Kind(t) = "nested" /\ Element[t].byHeader
  <2>1. Consumed(t) = {} => header[t] = Null
    BY <1>2, <1>3, <1>7 DEF Decoded, DecodedNested
  <2>2. Consumed(t) # {} => header[t] # Null
    BY <1>2, <1>7 DEF Decoded, DecodedNested, Pointer, Null
  <2> QED
    BY <1>2, <1>7, <2>1, <2>2 DEF IsPresent, Delivered
<1>8. CASE Kind(t) = "nested" /\ ~Element[t].byHeader
  <2> PICK m : m = Max(Consumed(t))
    OBVIOUS
  <2>1. Consumed(t) # {} => m \in Consumed(t) /\ buf.frames[m].subs \in Nat
    BY <1>4, LastOfSome, FrameFacts DEF IInv, TypeOK, Frame
  <2>2. Len(store[t]) = 0 <=> store[t] = <<>>
    BY <1>1
  <2>3. CASE Element[t].resets = "never"
    <3>1. IsFiniteSet(SubElements(Consumed(t)))
          /\ Cardinality(SubElements(Consumed(t))) \in Nat
      BY <1>4, SubElementsFacts DEF IInv
    <3>2. Cardinality(SubElements(Consumed(t))) = 0 <=> SubElements(Consumed(t)) = {}
      BY <3>1, FS_EmptySet
    <3>3. SubElements({}) = {}
      BY DEF SubElements
    <3>4. ASSUME Consumed(t) # {}, buf.frames[m].subs > 0
          PROVE  SubElements(Consumed(t)) # {}
      <4>1. 1 \in 1 .. buf.frames[m].subs
        BY <2>1, <3>4
      <4>2. <<m, 1>> \in {m} \X (1 .. buf.frames[m].subs)
        BY <4>1
      <4>3. <<m, 1>> \in SubElements(Consumed(t))
        BY <2>1, <3>4, <4>2 DEF SubElements
      <4> QED
        BY <4>3
    <3>5. Load(t) = Cardinality(SubElements(Consumed(t)))
      BY <1>2, <1>8, <2>3 DEF Load
    <3>6. Len(store[t]) = Cardinality(SubElements(Consumed(t)))
      BY <1>2, <1>8, <2>3 DEF Filled
    <3>7. IsPresent(t) <=> SubElements(Consumed(t)) # {}
      BY <1>8, <2>2, <3>2, <3>6 DEF IsPresent
    <3>8. Load(t) > 0 <=> SubElements(Consumed(t)) # {}
      BY <3>1, <3>2, <3>5
    <3>9. VisibleOf(t) = Consumed(t)
      BY <1>2
    <3>10. ASSUME Delivered(t) PROVE IsPresent(t)
      <4>1. Consumed(t) # {} /\ (buf.frames[m].subs > 0 \/ Load(t) > 0)
        BY <1>8, <2>3, <3>9, <3>10 DEF Delivered
      <4> QED
        BY <3>4, <3>7, <3>8, <4>1
    <3>11. ASSUME IsPresent(t) PROVE Delivered(t)
      <4>1. Consumed(t) # {} /\ Load(t) > 0
        BY <3>3, <3>7, <3>8, <3>11
      <4> QED
        BY <1>8, <2>3, <3>9, <4>1 DEF Delivered
    <3> QED
      BY <3>10, <3>11
  <2>4. CASE Element[t].resets # "never"
    <3>1. Consumed(t) = {} => store[t] = <<>>
      BY <1>2, <1>8, <2>4 DEF Filled
    <3>2. Consumed(t) # {} => Len(store[t]) = buf.frames[m].subs
      BY <1>2, <1>8, <2>4 DEF Filled
    <3>3. Delivered(t) <=> Consumed(t) # {} /\ buf.frames[m].subs > 0
      BY <1>2, <1>8, <2>4 DEF Delivered
    <3>4. IsPresent(t) <=> store[t] # <<>>
      BY <1>8 DEF IsPresent
    <3> QED
      BY <2>1, <2>2, <3>1, <3>2, <3>3, <3>4
  <2> QED
    BY <2>3, <2>4
<1> QED
  BY <1>1, <1>5, <1>6, <1>7, <1>8

\* Only finitely many types are delivered: each has a frame.
LEMMA DeliveredAreFinite ==
  ASSUME TypeOK
  PROVE  IsFiniteSet({t \in msg.oneOf : Delivered(t)})
<1> DEFINE f == [j \in DOMAIN buf.frames |-> buf.frames[j].type]
           T == {f[j] : j \in DOMAIN buf.frames}
<1>1. IsFiniteSet(DOMAIN buf.frames)
  BY FramesAreFinite
<1>2. f \in Surjection(DOMAIN buf.frames, T)
  BY DEF Surjection
<1>3. IsFiniteSet(T)
  <2> HIDE DEF f, T
  <2> QED
    BY <1>1, <1>2, FS_Surjection
<1>4. ASSUME NEW t \in msg.oneOf, Delivered(t) PROVE t \in T
  <2>1. PICK j \in DOMAIN buf.frames : buf.frames[j].type = t
    BY <1>4 DEF Delivered, VisibleOf, Visible
  <2> QED
    BY <2>1
<1> HIDE DEF T
<1>5. {t \in msg.oneOf : Delivered(t)} \in SUBSET T
  BY <1>4
<1> QED
  BY <1>3, <1>5, FS_Subset

\* The answer given at the end of the loop.
LEMMA FinishIsRight ==
  ASSUME IInv, Held, Sifted, call = 1, phase = "reading", cursor + HeaderSize > buf.size
  PROVE  RequiredPresent <=> WellFormed
<1>1. \A j \in Visible : Good(j)
  BY AllIsRead DEF Sifted
<1>2. \A t \in Handled : Load(t) <= Element[t].cap
  BY LoadsFit
<1>3. \A t \in Handled : IsPresent(t) <=> Delivered(t)
  BY PresentIsDelivered
<1>4. msg.required \subseteq Handled /\ msg.oneOf \subseteq Handled
  BY MessagesAssumption DEF IInv, TypeOK, Handled
<1> DEFINE Chosen == {t \in msg.oneOf : Delivered(t)}
<1>5. Cardinality(Chosen) = 1 <=> \E x : Chosen = {x}
  <2>1. IsFiniteSet(Chosen)
    BY DeliveredAreFinite DEF IInv
  <2> HIDE DEF Chosen
  <2> QED
    BY <2>1, FS_Singleton
<1>6. (\E x : Chosen = {x}) <=>
        \E t \in msg.oneOf : IsPresent(t) /\ \A u \in msg.oneOf : IsPresent(u) => u = t
  <2>1. \A t \in msg.oneOf : t \in Chosen <=> IsPresent(t)
    BY <1>3, <1>4
  <2>2. Chosen \subseteq msg.oneOf
    OBVIOUS
  <2> HIDE DEF Chosen
  <2>3. ASSUME NEW x, Chosen = {x}
        PROVE  x \in msg.oneOf /\ IsPresent(x) /\ \A u \in msg.oneOf : IsPresent(u) => u = x
    BY <2>1, <2>2, <2>3
  <2>4. ASSUME NEW x \in msg.oneOf, IsPresent(x),
               \A u \in msg.oneOf : IsPresent(u) => u = x
        PROVE  Chosen = {x}
    BY <2>1, <2>2, <2>4
  <2> QED
    BY <2>3, <2>4
<1>7. (\A t \in msg.required : Delivered(t)) <=> \A t \in msg.required : IsPresent(t)
  BY <1>3, <1>4
<1>8. WellFormed <=>
        /\ \A t \in msg.required : Delivered(t)
        /\ msg.oneOf # {} => Cardinality(Chosen) = 1
  BY <1>1, <1>2 DEF WellFormed, Good
<1> HIDE DEF Chosen
<1> QED
  BY <1>5, <1>6, <1>7, <1>8 DEF RequiredPresent

LEMMA VerdictStep ==
  IInv /\ Held /\ Sifted /\ VerdictIsExact /\ [Next]_vars => VerdictIsExact'
<1> SUFFICES ASSUME IInv, Held, Sifted, VerdictIsExact, [Next]_vars,
                    call' = 1, phase' # "reading"
             PROVE  phase' = "accepted" <=> WellFormed'
  BY DEF VerdictIsExact
<1>1. ASSUME NEW i \in DOMAIN buf.frames,
             ReadSingle(i) \/ ReadArray(i) \/ ReadNested(i) \/ SkipUnknown(i)
      PROVE  FALSE
  BY <1>1 DEF ReadSingle, ReadArray, ReadNested, SkipUnknown, Under
<1>2. ASSUME NEW i \in DOMAIN buf.frames,
             RejectUnknown(i) \/ RejectHeader(i) \/ RejectBody(i)
      PROVE  phase' = "accepted" <=> WellFormed'
  <2>1. UNCHANGED <<msg, buf, call>> /\ phase' = "rejected"
    BY <1>2 DEF RejectUnknown, RejectHeader, RejectBody
  <2>2. ~WellFormed
    BY <1>2, <2>1, RejectUnknownIsRight, RejectHeaderIsRight, RejectBodyIsRight
  <2> QED
    BY <2>1, <2>2, WellFormedStays
<1>3. CASE Finish
  <2>1. UNCHANGED <<msg, buf, call>> /\ (phase' = "accepted" <=> RequiredPresent)
    BY <1>3 DEF Finish
  <2>2. RequiredPresent <=> WellFormed
    BY <1>3, <2>1, FinishIsRight DEF Finish
  <2> QED
    BY <2>1, <2>2, WellFormedStays
<1>4. CASE DeserializeAgain(Buffers, Buffers)
  BY <1>4 DEF DeserializeAgain
<1>5. CASE UNCHANGED vars
  <2>1. UNCHANGED <<msg, buf, call, phase>>
    BY <1>5 DEF vars
  <2> QED
    BY <2>1, WellFormedStays DEF VerdictIsExact
<1> QED
  BY <1>1, <1>2, <1>3, <1>4, <1>5 DEF Next, LoopStep

\* A reader used for the first time accepts exactly the buffers a declarative
\* reading finds well formed: every element that can be seen is good, no
\* table overflows, what is required is there, one of the choice is, and
\* neither the order of the elements nor those nobody handles matter.
THEOREM VerdictIsThatOfTheBuffer == Spec => []VerdictIsExact
<1>1. Spec => []Held
  BY InitIsFresh, FreshHeld, HeldStep, Invariance, PTL DEF Spec
<1>2. Spec => []Sifted
  BY InitIsFresh, FreshSifted, SiftedStep, Invariance, PTL DEF Spec
<1>3. Init => VerdictIsExact
  BY DEF Init, VerdictIsExact
<1> QED
  BY <1>1, <1>2, <1>3, VerdictStep, Invariance, PTL DEF Spec
-----------------------------------------------------------------------------
(***************************************************************************)
(* What a reader used for the first time holds of a message it accepts.    *)
(***************************************************************************)

\* A message is accepted only once less than a header is left.
AtTheEnd == phase = "accepted" => cursor + HeaderSize > buf.size

LEMMA AtTheEndStep == IInv /\ AtTheEnd /\ [Next]_vars => AtTheEnd'
<1> SUFFICES ASSUME IInv, AtTheEnd, [Next]_vars PROVE AtTheEnd'
  OBVIOUS
<1>1. CASE LoopStep
  <2>1. ASSUME NEW i \in DOMAIN buf.frames,
               \/ ReadSingle(i) \/ ReadArray(i) \/ ReadNested(i) \/ SkipUnknown(i)
               \/ RejectUnknown(i) \/ RejectHeader(i) \/ RejectBody(i)
        PROVE  phase' # "accepted"
    BY <2>1 DEF ReadSingle, ReadArray, ReadNested, SkipUnknown, RejectUnknown,
                RejectHeader, RejectBody, Under
  <2>2. CASE Finish
    BY <2>2 DEF Finish, AtTheEnd
  <2> QED
    BY <1>1, <2>1, <2>2 DEF LoopStep, AtTheEnd
<1>2. CASE DeserializeAgain(Buffers, Buffers)
  BY <1>2 DEF DeserializeAgain, AtTheEnd
<1>3. CASE UNCHANGED vars
  BY <1>3 DEF vars, AtTheEnd
<1> QED
  BY <1>1, <1>2, <1>3 DEF Next

\* All that is invariant of a reader.
ReaderInv == IInv /\ Held /\ Sifted /\ VerdictIsExact /\ AtTheEnd

LEMMA FreshReader == Fresh => ReaderInv
<1>1. Fresh => VerdictIsExact /\ AtTheEnd
  BY DEF Fresh, VerdictIsExact, AtTheEnd
<1> QED
  BY <1>1, FreshIInv, FreshHeld, FreshSifted DEF ReaderInv

LEMMA ReaderStep == ReaderInv /\ [Next]_vars => ReaderInv'
BY NextKeeps, HeldStep, SiftedStep, VerdictStep, AtTheEndStep DEF ReaderInv

LEMMA AcceptedIsRead ==
  ASSUME ReaderInv, phase = "accepted", NEW t
  PROVE  /\ VisibleOf(t) = Consumed(t)
         /\ {k \in Visible : buf.frames[k].type \notin Handled} = Skipped
<1>1. IInv /\ phase # "rejected" /\ cursor + HeaderSize > buf.size
  BY DEF ReaderInv, AtTheEnd
<1>2. VisibleOf(t) = Consumed(t)
  BY <1>1, AllIsConsumed
<1>3. \A u : Consumed(u) \subseteq VisibleOf(u)
  BY <1>1, ReadIsVisible
<1>4. \A k \in Visible : FrameEnd(buf.frames[k]) <= cursor
  BY <1>1, AllIsRead
<1>5. \A k \in Skipped : k \in Consumed(buf.frames[k].type)
  BY DEF Skipped, Consumed
<1> QED
  BY <1>2, <1>3, <1>4, <1>5 DEF Skipped, Visible, VisibleOf

\* A single is the last of its type, an array has all of its type in the
\* order of the buffer, and of a nested element there are the header of the
\* last and as many pointers as that has sub-elements, if it is the only one
\* or its reader forgets the earlier ones.
LEMMA AcceptedHolds ==
  ASSUME ReaderInv, phase = "accepted", call = 1, NEW t \in Handled
  PROVE  /\ Kind(t) = "single" =>
              IF VisibleOf(t) = {} THEN store[t] = <<>>
              ELSE store[t] = <<Pointer(Max(VisibleOf(t)))>>
         /\ Kind(t) = "array" =>
              /\ {store[t][k][2] : k \in DOMAIN store[t]} = VisibleOf(t)
              /\ \A j, k \in DOMAIN store[t] : j < k => store[t][j][2] < store[t][k][2]
         /\ Kind(t) = "nested" /\ VisibleOf(t) # {} =>
              /\ header[t] = Pointer(Max(VisibleOf(t)))
              /\ Element[t].resets # "never" \/ VisibleOf(t) = {Max(VisibleOf(t))} =>
                   Len(store[t]) = buf.frames[Max(VisibleOf(t))].subs
<1>1. IInv /\ TypeOK /\ NoneFromTheFuture /\ Held /\ Sifted
  BY DEF ReaderInv, IInv
<1>2. t \in Type
  BY <1>1, HandledTypes
<1>3. VisibleOf(t) = Consumed(t) /\ Decoded(t) /\ Filled(t)
  BY <1>1, AcceptedIsRead DEF Held, Sifted
<1>4. OfThisCall(t) = DOMAIN store[t]
  BY <1>1, <1>2, FirstCall
<1>5. ASSUME Kind(t) = "single", VisibleOf(t) = {} PROVE store[t] = <<>>
  <2>1. DOMAIN store[t] = {}
    BY <1>3, <1>4, <1>5 DEF Decoded, DecodedSingle
  <2>2. PICK s \in Seq(Pointers) : s = store[t]
    BY <1>1, <1>2 DEF TypeOK
  <2>3. Len(s) \in Nat /\ DOMAIN s = 1 .. Len(s) /\ DOMAIN s = {}
    BY <2>1, <2>2
  <2>4. Len(s) = 0
    BY <2>3
  <2> QED
    BY <2>2, <2>4, EmptySeq
<1>6. ASSUME Kind(t) = "nested", Element[t].resets = "never", VisibleOf(t) = {Max(VisibleOf(t))}
      PROVE  Len(store[t]) = buf.frames[Max(VisibleOf(t))].subs
  <2> PICK m : m = Max(VisibleOf(t))
    OBVIOUS
  <2>1. Consumed(t) = {m} /\ m \in DOMAIN buf.frames
    BY <1>3, <1>6 DEF Consumed
  <2>2. Len(store[t]) = Cardinality(SubElements({m}))
    BY <1>3, <1>6, <2>1 DEF Filled
  <2>3. Cardinality(SubElements({m})) = buf.frames[m].subs
    BY <1>1, <2>1, SubElementsOfOne
  <2> QED
    BY <2>2, <2>3
<1>7. ASSUME Kind(t) = "nested", VisibleOf(t) # {}
      PROVE  /\ header[t] = Pointer(Max(VisibleOf(t)))
             /\ Element[t].resets # "never" =>
                  Len(store[t]) = buf.frames[Max(VisibleOf(t))].subs
  BY <1>3, <1>7 DEF Decoded, DecodedNested, Filled
<1>8. Kind(t) = "single" /\ VisibleOf(t) # {} => store[t] = <<Pointer(Max(VisibleOf(t)))>>
  BY <1>3 DEF Decoded, DecodedSingle
<1>9. Kind(t) = "array" =>
        /\ {store[t][k][2] : k \in DOMAIN store[t]} = VisibleOf(t)
        /\ \A j, k \in DOMAIN store[t] : j < k => store[t][j][2] < store[t][k][2]
  BY <1>3, <1>4 DEF Decoded, DecodedArray
<1> QED
  BY <1>5, <1>6, <1>7, <1>8, <1>9

LEMMA AcceptedSkips ==
  ASSUME ReaderInv, phase = "accepted", call = 1
  PROVE  unknown = Cardinality({k \in Visible : buf.frames[k].type \notin Handled})
<1>1. unknown = Cardinality(Skipped)
  BY DEF ReaderInv, Held
<1> QED
  BY <1>1, AcceptedIsRead
=============================================================================
