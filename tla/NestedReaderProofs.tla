--------------------------- MODULE NestedReaderProofs ---------------------------
(***************************************************************************)
(* Proofs about NestedReader and NestedWriter for every loop of this form, *)
(* all buffers that are laid out well and all values that are written:     *)
(* with tables of any size, any number of calls, and sub-elements of any   *)
(* length.                                                                 *)
(***************************************************************************)
EXTENDS NestedWriter, NumberFacts, FiniteSetTheorems, SequenceTheorems, TLAPS

\* While an element is walked over it is the one the header points to.
HeaderIsHere ==
  phase \in {"encryptions", "subs"} =>
    header[1] = call /\ header[2] \in DOMAIN buf.frames

\* Nothing points into a buffer that has not been read yet.
NoneFromTheFuture ==
  /\ header[1] <= call
  /\ \A k \in DOMAIN items : items[k][1] <= call

\* A sub-element that is kept of this buffer exists.
ItemsExist ==
  phase # "rejected" =>
    \A k \in DOMAIN items : items[k][1] = call =>
      /\ items[k][2] \in DOMAIN buf.frames
      /\ items[k][3] \in DOMAIN buf.frames[items[k][2]].subs

\* It lies within its element, or is one of the element that is walked over
\* and lies before the cursor.
ItemsInside ==
  phase # "rejected" =>
    \A k \in DOMAIN items : items[k][1] = call =>
      LET f == buf.frames[items[k][2]]
          end == SubEnd(L, f.subs[items[k][3]])
      IN  \/ end <= ElementEnd(f)
          \/ phase = "subs" /\ items[k][2] = header[2] /\ end <= cursor

\* The encryption sub-elements that have been counted are those of the header.
EncryptionsAreHere ==
  phase # "rejected" /\ L.encryptions > 0 /\ header[1] = call =>
    /\ \A e \in 1 .. encs : encr[e] = header
    /\ phase # "encryptions" => encs = Here.num

\* The inductive invariant.
IInv ==
  /\ TypeOK /\ HeaderIsHere /\ NoneFromTheFuture
  /\ ItemsExist /\ ItemsInside /\ EncryptionsAreHere

-----------------------------------------------------------------------------
\* What the layout says about one element and its sub-elements.
LEMMA LayoutFacts ==
  ASSUME NEW l, IsLoop(l), NEW b, WellLaidOut(l, b), NEW i \in DOMAIN b.frames
  PROVE  /\ b.frames[i] \in Element
         /\ ElementEnd(b.frames[i]) \in Nat
         /\ BodyStart(l, b.frames[i]) \in Nat
         /\ i \in Nat \ {0}
         /\ \A n \in DOMAIN b.frames[i].subs :
              /\ n \in Nat \ {0}
              /\ b.frames[i].subs[n].at \in Nat
              /\ b.frames[i].subs[n].len \in Nat
              /\ SubEnd(l, b.frames[i].subs[n]) \in Nat
<1>1. b.frames \in Seq(Element) /\ b.frames[i] \in Element /\ i \in Nat \ {0}
  BY DEF WellLaidOut
<1>2. b.frames[i].at \in Nat /\ b.frames[i].len \in Nat /\ b.frames[i].subs \in Seq(SubElement)
  <2>1. b.frames[i].len \in 0 .. MaxLength
    BY <1>1, Zenon DEF Element
  <2>2. \A n \in 0 .. MaxLength : n \in Nat
    OBVIOUS
  <2> QED
    BY <1>1, <2>1, <2>2 DEF Element
<1>3. l.fixed \in Nat /\ l.subHeader \in Nat
  BY DEF IsLoop
<1>4. ElementEnd(b.frames[i]) \in Nat /\ BodyStart(l, b.frames[i]) \in Nat
  <2>1. \A x, y \in Nat : x + 4 + y \in Nat
    OBVIOUS
  <2> QED
    BY <1>2, <1>3, <2>1, Zenon DEF ElementEnd, BodyStart, HeaderSize
<1>5. ASSUME NEW n \in DOMAIN b.frames[i].subs
      PROVE  /\ n \in Nat \ {0}
             /\ b.frames[i].subs[n].at \in Nat
             /\ b.frames[i].subs[n].len \in Nat
             /\ SubEnd(l, b.frames[i].subs[n]) \in Nat
  <2>1. b.frames[i].subs[n] \in SubElement /\ n \in Nat \ {0}
    BY <1>2
  <2>2. b.frames[i].subs[n].at \in Nat /\ b.frames[i].subs[n].len \in Nat
    BY <2>1 DEF SubElement
  <2> QED
    BY <1>3, <2>1, <2>2 DEF SubEnd
<1> QED
  BY <1>1, <1>4, <1>5

LEMMA LoopFacts ==
  ASSUME TypeOK
  PROVE  /\ IsLoop(L) /\ L.encryptions \in Nat /\ L.cap \in Nat
         /\ WellLaidOut(L, buf) /\ buf.size \in Nat
         /\ MaxCalls \in Nat /\ call \in Nat \ {0}
         /\ Len(items) \in Nat /\ Len(encr) \in Nat /\ encs \in Nat
<1>1. IsLoop(L) /\ WellLaidOut(L, buf)
  BY ReadersAssumption DEF TypeOK, L, Names
<1>2. L.encryptions \in Nat /\ L.cap \in Nat /\ buf.size \in Nat
  BY <1>1 DEF IsLoop, WellLaidOut
<1>3. MaxCalls \in Nat /\ call \in Nat \ {0}
  BY MaxCallsAssumption DEF TypeOK
<1>4. Len(items) \in Nat /\ Len(encr) \in Nat /\ encs \in Nat
  <2>1. items \in Seq((1 .. MaxCalls) \X (Nat \ {0}) \X (Nat \ {0}))
        /\ encr \in Seq((1 .. MaxCalls) \X (Nat \ {0})) /\ encs \in 0 .. Len(encr)
    BY DEF TypeOK
  <2> QED
    BY <2>1
<1> QED
  BY <1>1, <1>2, <1>3, <1>4

LEMMA InitHolds == Init => IInv
<1> SUFFICES ASSUME Init PROVE IInv
  OBVIOUS
<1>1. IsLoop(L) /\ WellLaidOut(L, buf)
  BY ReadersAssumption, BuffersAssumption DEF Init, L
<1>2. /\ <<>> \in Seq((1 .. MaxCalls) \X (Nat \ {0}) \X (Nat \ {0}))
      /\ <<>> \in Seq((1 .. MaxCalls) \X (Nat \ {0}))
      /\ Len(<<>>) = 0 /\ DOMAIN <<>> = {}
  OBVIOUS
<1>3. L.cap \in Nat /\ L.encryptions \in Nat /\ 1 \in 1 .. MaxCalls
  BY <1>1, MaxCallsAssumption DEF IsLoop
<1>4. TypeOK
  BY <1>1, <1>2, <1>3 DEF Init, TypeOK, Names
<1>5. HeaderIsHere /\ NoneFromTheFuture /\ ItemsExist /\ ItemsInside /\ EncryptionsAreHere
  BY <1>2 DEF Init, HeaderIsHere, NoneFromTheFuture, ItemsExist, ItemsInside,
     EncryptionsAreHere, Null
<1> QED
  BY <1>4, <1>5 DEF IInv
-----------------------------------------------------------------------------
(***************************************************************************)
(* The steps.                                                              *)
(***************************************************************************)

LEMMA BeginElementKeeps ==
  ASSUME IInv, NEW i \in DOMAIN buf.frames, BeginElement(i)
  PROVE  IInv'
<1>0. TypeOK /\ NoneFromTheFuture /\ ItemsExist /\ ItemsInside /\ phase = "between"
  BY DEF IInv, BeginElement, Under
<1>1. /\ header' = <<call, i>> /\ encs' = 0 /\ cursor' = BodyStart(L, buf.frames[i])
      /\ phase' = (IF L.encryptions > 0 THEN "encryptions" ELSE "subs")
      /\ items' = (IF L.resets = "start" THEN <<>> ELSE items)
      /\ shown' = [num |-> buf.frames[i].num, torn |-> FALSE]
      /\ UNCHANGED <<reader, buf, call, encr>>
  BY DEF BeginElement
<1>2. IsLoop(L) /\ WellLaidOut(L, buf) /\ call \in Nat \ {0} /\ Len(items) \in Nat
      /\ L.cap \in Nat /\ L.encryptions \in Nat /\ Len(encr) \in Nat
  BY <1>0, LoopFacts
<1>3. cursor' \in Nat /\ i \in Nat \ {0} /\ shown' \in [num : Nat, torn : BOOLEAN]
  BY <1>1, <1>2, LayoutFacts DEF Element
<1>4. /\ items' \in Seq((1 .. MaxCalls) \X (Nat \ {0}) \X (Nat \ {0}))
      /\ Len(items') <= L.cap
      /\ DOMAIN items' \subseteq DOMAIN items
      /\ \A k \in DOMAIN items' : items'[k] = items[k]
  <2>1. <<>> \in Seq((1 .. MaxCalls) \X (Nat \ {0}) \X (Nat \ {0}))
        /\ Len(<<>>) = 0 /\ DOMAIN <<>> = {}
    OBVIOUS
  <2> QED
    BY <1>0, <1>1, <1>2, <2>1 DEF TypeOK
<1>5. TypeOK'
  BY <1>0, <1>1, <1>2, <1>3, <1>4 DEF TypeOK, L
<1>6. HeaderIsHere' /\ NoneFromTheFuture'
  BY <1>0, <1>1, <1>2, <1>4 DEF HeaderIsHere, NoneFromTheFuture
<1>7. ItemsExist' /\ ItemsInside'
  BY <1>0, <1>1, <1>4 DEF ItemsExist, ItemsInside, L
<1>8. EncryptionsAreHere'
  BY <1>1, <1>2 DEF EncryptionsAreHere, L
<1> QED
  BY <1>5, <1>6, <1>7, <1>8 DEF IInv

LEMMA ReadEncryptionKeeps ==
  ASSUME IInv, ReadEncryption
  PROVE  IInv'
<1>0. /\ TypeOK /\ HeaderIsHere /\ NoneFromTheFuture /\ ItemsExist /\ ItemsInside
      /\ EncryptionsAreHere /\ phase = "encryptions" /\ encs < L.encryptions
      /\ header[1] = call
  BY DEF IInv, ReadEncryption, MoreEncryptions, EncryptionGood, HeaderIsHere
<1>1. /\ encr' = (IF encs < Len(encr) THEN [encr EXCEPT ![encs + 1] = header]
                                      ELSE Append(encr, header))
      /\ encs' = encs + 1 /\ cursor' = cursor + 3
      /\ UNCHANGED <<reader, buf, phase, call, header, items, shown>>
  BY DEF ReadEncryption, EncryptionSize
<1>2. /\ call \in Nat \ {0} /\ L.encryptions \in Nat /\ Len(encr) \in Nat /\ encs \in Nat
      /\ encs <= Len(encr) /\ encr \in Seq((1 .. MaxCalls) \X (Nat \ {0}))
      /\ Len(encr) <= L.encryptions
  BY <1>0, LoopFacts DEF TypeOK
<1>3. header \in (1 .. MaxCalls) \X (Nat \ {0})
  BY <1>0, <1>2 DEF TypeOK, Null
<1>4. /\ encr' \in Seq((1 .. MaxCalls) \X (Nat \ {0}))
      /\ Len(encr') <= L.encryptions /\ encs + 1 \in 0 .. Len(encr')
      /\ encr'[encs + 1] = header
      /\ \A e \in 1 .. encs : encr'[e] = encr[e]
  <2>1. CASE encs < Len(encr)
    <3>1. encr' = [encr EXCEPT ![encs + 1] = header] /\ encs + 1 \in 1 .. Len(encr)
      BY <1>1, <1>2, <2>1
    <3>2. /\ encr' \in Seq((1 .. MaxCalls) \X (Nat \ {0}))
          /\ Len(encr') = Len(encr)
          /\ \A e \in 1 .. Len(encr) : encr'[e] = (IF e = encs + 1 THEN header ELSE encr[e])
      BY <1>2, <1>3, <3>1, ExceptSeq
    <3> QED
      BY <1>2, <3>1, <3>2
  <2>2. CASE ~(encs < Len(encr))
    <3>1. encr' = Append(encr, header) /\ encs = Len(encr)
      BY <1>1, <1>2, <2>2
    <3>2. /\ encr' \in Seq((1 .. MaxCalls) \X (Nat \ {0}))
          /\ Len(encr') = Len(encr) + 1
          /\ \A e \in 1 .. Len(encr) : encr'[e] = encr[e]
          /\ encr'[Len(encr) + 1] = header
      BY <1>2, <1>3, <3>1, AppendProperties
    <3> QED
      BY <1>0, <1>2, <3>1, <3>2
  <2> QED
    BY <2>1, <2>2
<1>5. TypeOK'
  BY <1>0, <1>1, <1>2, <1>4 DEF TypeOK, L
<1>6. HeaderIsHere' /\ NoneFromTheFuture' /\ ItemsExist'
  BY <1>0, <1>1 DEF HeaderIsHere, NoneFromTheFuture, ItemsExist
<1>7. ItemsInside'
  BY <1>0, <1>1 DEF ItemsInside, L
<1>8. EncryptionsAreHere'
  <2>1. \A e \in 1 .. encs : encr'[e] = header
    <3>1. L.encryptions > 0
      BY <1>0, <1>2
    <3>2. \A e \in 1 .. encs : encr[e] = header
      BY <1>0, <3>1 DEF EncryptionsAreHere
    <3>3. \A e \in 1 .. encs : encr'[e] = encr[e]
      BY <1>4
    <3> QED
      BY <3>2, <3>3, Zenon
  <2>2. \A e \in 1 .. encs + 1 : encr'[e] = header
    BY <1>2, <1>4, <2>1
  <2> QED
    BY <1>0, <1>1, <2>2 DEF EncryptionsAreHere
<1> QED
  BY <1>5, <1>6, <1>7, <1>8 DEF IInv

LEMMA EndEncryptionsKeeps ==
  ASSUME IInv, EndEncryptions
  PROVE  IInv'
<1>0. /\ TypeOK /\ HeaderIsHere /\ NoneFromTheFuture /\ ItemsExist /\ ItemsInside
      /\ EncryptionsAreHere /\ phase = "encryptions"
      /\ UNCHANGED <<reader, buf, cursor, call, header, encr, encs>>
      /\ shown' \in [num : Nat, torn : BOOLEAN]
  BY DEF IInv, EndEncryptions, TypeOK
<1>1. CASE encs = Here.num
  <2>1. items' = <<>> /\ phase' = "subs"
    BY <1>1 DEF EndEncryptions
  <2>2. /\ <<>> \in Seq((1 .. MaxCalls) \X (Nat \ {0}) \X (Nat \ {0}))
        /\ Len(<<>>) = 0 /\ DOMAIN <<>> = {}
    OBVIOUS
  <2>3. TypeOK'
    <3>1. L.cap \in Nat
      BY <1>0, LoopFacts
    <3> QED
      BY <1>0, <2>1, <2>2, <3>1 DEF TypeOK, L
  <2>4. HeaderIsHere' /\ NoneFromTheFuture' /\ ItemsExist' /\ ItemsInside'
    BY <1>0, <2>1, <2>2 DEF HeaderIsHere, NoneFromTheFuture, ItemsExist, ItemsInside
  <2>5. EncryptionsAreHere'
    BY <1>0, <1>1, <2>1 DEF EncryptionsAreHere, L, Here
  <2> QED
    BY <2>3, <2>4, <2>5 DEF IInv
<1>2. CASE encs # Here.num
  <2>1. items' = items /\ phase' = "rejected"
    BY <1>2 DEF EndEncryptions
  <2> QED
    BY <1>0, <2>1 DEF IInv, TypeOK, L, HeaderIsHere, NoneFromTheFuture, ItemsExist,
       ItemsInside, EncryptionsAreHere
<1> QED
  BY <1>1, <1>2

LEMMA ReadSubKeeps ==
  ASSUME IInv, NEW n \in DOMAIN Here.subs, ReadSub(n)
  PROVE  IInv'
<1>0. /\ TypeOK /\ HeaderIsHere /\ NoneFromTheFuture /\ ItemsExist /\ ItemsInside
      /\ EncryptionsAreHere /\ phase = "subs" /\ Len(items) < L.cap
      /\ header[1] = call /\ header[2] \in DOMAIN buf.frames
      /\ Here.subs[n].at = cursor
  BY DEF IInv, ReadSub, UnderSub, SubGood, HasRoom, HeaderIsHere
<1> DEFINE it == <<call, header[2], n>>
<1>1. /\ items' = Append(items, it) /\ cursor' = SubEnd(L, Here.subs[n])
      /\ UNCHANGED <<reader, buf, phase, call, header, encr, encs, shown>>
  BY DEF ReadSub
<1>2. /\ IsLoop(L) /\ WellLaidOut(L, buf) /\ call \in Nat \ {0} /\ Len(items) \in Nat
      /\ L.cap \in Nat
  BY <1>0, LoopFacts
<1>3. /\ cursor' \in Nat /\ n \in Nat \ {0} /\ header[2] \in Nat \ {0}
      /\ cursor <= cursor' /\ cursor \in Nat
  <2>1. /\ SubEnd(L, Here.subs[n]) \in Nat /\ n \in Nat \ {0} /\ header[2] \in Nat \ {0}
        /\ Here.subs[n].len \in Nat /\ Here.subs[n].at \in Nat
    BY <1>0, <1>2, LayoutFacts DEF Here
  <2>2. L.subHeader \in Nat
    BY <1>2 DEF IsLoop
  <2>3. \A x, y, z \in Nat : x <= x + y + z
    OBVIOUS
  <2>4. Here.subs[n].at <= SubEnd(L, Here.subs[n])
    BY <2>1, <2>2, <2>3, Zenon DEF SubEnd
  <2> QED
    BY <1>0, <1>1, <2>1, <2>4, Zenon
<1>4. it \in (1 .. MaxCalls) \X (Nat \ {0}) \X (Nat \ {0})
  BY <1>0, <1>3 DEF TypeOK
<1>5. /\ items' \in Seq((1 .. MaxCalls) \X (Nat \ {0}) \X (Nat \ {0}))
      /\ Len(items') = Len(items) + 1
      /\ \A k \in 1 .. Len(items) : items'[k] = items[k]
      /\ items'[Len(items) + 1] = it
      /\ DOMAIN items' = 1 .. Len(items) + 1 /\ DOMAIN items = 1 .. Len(items)
  <2>1. items \in Seq((1 .. MaxCalls) \X (Nat \ {0}) \X (Nat \ {0}))
    BY <1>0 DEF TypeOK
  <2> QED
    BY <1>1, <1>4, <2>1, AppendProperties
<1>6. it[1] = call /\ it[2] = header[2] /\ it[3] = n
  OBVIOUS
<1> HIDE DEF it
<1>7. TypeOK'
  <2>1. L' = L
    BY <1>1 DEF L
  <2>2. Len(items') <= L.cap
    BY <1>0, <1>2, <1>5
  <2>3. UNCHANGED <<reader, buf, phase, call, header, encr, encs, shown>>
    BY <1>1
  <2> QED
    BY <1>0, <1>3, <1>5, <2>1, <2>2, <2>3 DEF TypeOK
<1>8. HeaderIsHere'
  BY <1>0, <1>1 DEF HeaderIsHere
<1>9. NoneFromTheFuture'
  <2>1. \A k \in DOMAIN items' : k = Len(items) + 1 \/ k \in DOMAIN items
    BY <1>2, <1>5
  <2> QED
    BY <1>0, <1>1, <1>2, <1>5, <1>6, <2>1 DEF NoneFromTheFuture
<1>10. ItemsExist'
  <2>1. n \in DOMAIN buf'.frames[header[2]].subs /\ header[2] \in DOMAIN buf'.frames
    BY <1>0, <1>1 DEF Here
  <2> SUFFICES ASSUME NEW k \in DOMAIN items', items'[k][1] = call
               PROVE  /\ items'[k][2] \in DOMAIN buf.frames
                      /\ items'[k][3] \in DOMAIN buf.frames[items'[k][2]].subs
    BY <1>0, <1>1 DEF ItemsExist
  <2>2. CASE k = Len(items) + 1
    BY <1>1, <1>5, <1>6, <2>1, <2>2
  <2>3. CASE k \in 1 .. Len(items)
    BY <1>0, <1>5, <2>3 DEF ItemsExist
  <2> QED
    BY <1>2, <1>5, <2>2, <2>3
<1>11. ItemsInside'
  <2> SUFFICES ASSUME NEW k \in DOMAIN items', items'[k][1] = call
               PROVE  \/ SubEnd(L, buf.frames[items'[k][2]].subs[items'[k][3]])
                           <= ElementEnd(buf.frames[items'[k][2]])
                      \/ /\ items'[k][2] = header[2]
                         /\ SubEnd(L, buf.frames[items'[k][2]].subs[items'[k][3]]) <= cursor'
    BY <1>0, <1>1 DEF ItemsInside, L
  <2>1. CASE k = Len(items) + 1
    BY <1>1, <1>3, <1>5, <1>6, <2>1 DEF Here
  <2>2. CASE k \in DOMAIN items
    <3>1. items'[k] = items[k]
      BY <1>5, <2>2
    <3>2. SubEnd(L, buf.frames[items[k][2]].subs[items[k][3]]) \in Nat
      BY <1>0, <1>2, <2>2, <3>1, LayoutFacts DEF ItemsExist
    <3> QED
      BY <1>0, <1>3, <2>2, <3>1, <3>2 DEF ItemsInside
  <2> QED
    BY <1>2, <1>5, <2>1, <2>2
<1>12. EncryptionsAreHere'
  BY <1>0, <1>1 DEF EncryptionsAreHere, L, Here
<1> QED
  BY <1>7, <1>8, <1>9, <1>10, <1>11, <1>12 DEF IInv

LEMMA EndElementKeeps ==
  ASSUME IInv, EndElement
  PROVE  IInv'
<1>0. /\ TypeOK /\ HeaderIsHere /\ NoneFromTheFuture /\ ItemsExist /\ ItemsInside
      /\ EncryptionsAreHere /\ phase = "subs"
      /\ UNCHANGED <<reader, buf, cursor, call, header, items, encr, encs, shown>>
  BY DEF IInv, EndElement
<1>1. /\ phase' \in {"between", "rejected"}
      /\ phase' = "between" => cursor = ElementEnd(Here)
  BY DEF EndElement
<1>2. TypeOK' /\ HeaderIsHere' /\ NoneFromTheFuture' /\ ItemsExist' /\ EncryptionsAreHere'
  BY <1>0, <1>1 DEF TypeOK, L, HeaderIsHere, NoneFromTheFuture, ItemsExist,
     EncryptionsAreHere, Here
<1>3. ItemsInside'
  BY <1>0, <1>1 DEF ItemsInside, L, Here
<1> QED
  BY <1>2, <1>3 DEF IInv

LEMMA RejectKeeps ==
  ASSUME IInv,
         \/ \E i \in DOMAIN buf.frames : RejectElement(i)
         \/ RejectEncryption
         \/ \E n \in DOMAIN Here.subs : RejectSub(n)
  PROVE  IInv'
<1>1. /\ phase' = "rejected" /\ header' \in {header, Null}
      /\ shown' \in {shown, [shown EXCEPT !.torn = TRUE]}
      /\ UNCHANGED <<reader, buf, cursor, call, items, encr, encs>>
  BY DEF RejectElement, RejectEncryption, RejectSub
<1>2. TypeOK /\ NoneFromTheFuture /\ call \in Nat \ {0}
  BY LoopFacts DEF IInv
<1>3. TypeOK'
  <2>1. shown' \in [num : Nat, torn : BOOLEAN]
    BY <1>1, <1>2 DEF TypeOK
  <2>2. header' \in ((1 .. MaxCalls) \X (Nat \ {0})) \cup {Null}
    BY <1>1, <1>2 DEF TypeOK
  <2> QED
    BY <1>1, <1>2, <2>1, <2>2 DEF TypeOK, L
<1> QED
  BY <1>1, <1>2, <1>3 DEF IInv, HeaderIsHere, NoneFromTheFuture, ItemsExist,
     ItemsInside, EncryptionsAreHere, Null

LEMMA FinishKeeps ==
  ASSUME IInv, Finish
  PROVE  IInv'
<1>1. /\ phase = "between" /\ phase' \in {"accepted", "rejected"}
      /\ UNCHANGED <<reader, buf, cursor, call, header, items, encr, encs, shown>>
  BY DEF Finish
<1> QED
  BY <1>1 DEF IInv, TypeOK, L, HeaderIsHere, NoneFromTheFuture, ItemsExist,
     ItemsInside, EncryptionsAreHere, Here

LEMMA DeserializeAgainKeeps ==
  ASSUME IInv, DeserializeAgain
  PROVE  IInv'
<1>1. /\ call < MaxCalls /\ call' = call + 1 /\ phase' = "between" /\ cursor' = 0
      /\ buf' \in Buffers[reader]
      /\ UNCHANGED <<reader, header, items, encr, encs, shown>>
  BY DEF DeserializeAgain
<1>2. TypeOK /\ NoneFromTheFuture /\ call \in Nat \ {0} /\ MaxCalls \in Nat
  BY LoopFacts DEF IInv
<1>3. WellLaidOut(L, buf')
  BY <1>1, <1>2, BuffersAssumption DEF TypeOK, L, Names
<1>4. TypeOK'
  BY <1>1, <1>2, <1>3 DEF TypeOK, L
<1>5. /\ header[1] \in Nat /\ header[1] <= call
      /\ \A k \in DOMAIN items : items[k][1] \in Nat /\ items[k][1] <= call
  <2>1. /\ header \in ((1 .. MaxCalls) \X (Nat \ {0})) \cup {Null}
        /\ items \in Seq((1 .. MaxCalls) \X (Nat \ {0}) \X (Nat \ {0}))
    BY <1>2 DEF TypeOK
  <2>2. header[1] \in Nat
    BY <1>2, <2>1 DEF Null
  <2>3. \A k \in DOMAIN items : items[k][1] \in Nat
    <3> SUFFICES ASSUME NEW k \in DOMAIN items PROVE items[k][1] \in Nat
      OBVIOUS
    <3>1. items[k] \in (1 .. MaxCalls) \X (Nat \ {0}) \X (Nat \ {0})
      BY <2>1
    <3> QED
      BY <1>2, <3>1
  <2> QED
    BY <1>2, <2>2, <2>3 DEF NoneFromTheFuture
<1>6. header'[1] < call' /\ \A k \in DOMAIN items' : items'[k][1] < call'
  BY <1>1, <1>2, <1>5
<1> QED
  BY <1>1, <1>2, <1>4, <1>5, <1>6 DEF IInv, HeaderIsHere, NoneFromTheFuture, ItemsExist,
     ItemsInside, EncryptionsAreHere

LEMMA StepKeepsIInv == IInv /\ [Next]_vars => IInv'
<1> SUFFICES ASSUME IInv, [Next]_vars PROVE IInv'
  OBVIOUS
<1>1. CASE \E i \in DOMAIN buf.frames : BeginElement(i)
  BY <1>1, BeginElementKeeps
<1>2. CASE ReadEncryption
  BY <1>2, ReadEncryptionKeeps
<1>3. CASE EndEncryptions
  BY <1>3, EndEncryptionsKeeps
<1>4. CASE \E n \in DOMAIN Here.subs : ReadSub(n)
  BY <1>4, ReadSubKeeps
<1>5. CASE EndElement
  BY <1>5, EndElementKeeps
<1>6. CASE \/ \E i \in DOMAIN buf.frames : RejectElement(i)
           \/ RejectEncryption
           \/ \E n \in DOMAIN Here.subs : RejectSub(n)
  BY <1>6, RejectKeeps
<1>7. CASE Finish
  BY <1>7, FinishKeeps
<1>8. CASE DeserializeAgain
  BY <1>8, DeserializeAgainKeeps
<1>9. CASE UNCHANGED vars
  BY <1>9 DEF vars, IInv, TypeOK, L, HeaderIsHere, NoneFromTheFuture, ItemsExist,
     ItemsInside, EncryptionsAreHere, Here
<1> QED
  BY <1>1, <1>2, <1>3, <1>4, <1>5, <1>6, <1>7, <1>8, <1>9 DEF Next, LoopStep
-----------------------------------------------------------------------------
(***************************************************************************)
(* The theorems.                                                           *)
(***************************************************************************)

\* The inductive invariant holds in every reachable state.
THEOREM Invariance == Spec => []IInv
BY InitHolds, StepKeepsIInv, PTL DEF Spec

\* The walk is well typed, and neither the table of sub-elements nor that of
\* encryption sub-elements is overrun, in any number of calls.
THEOREM TypeCorrect == Spec => []TypeOK
<1>1. IInv => TypeOK
  BY DEF IInv
<1> QED
  BY <1>1, Invariance, PTL

\* No sub-element that is kept of a taken element reaches beyond its end, for
\* all lengths sub-elements may declare.
THEOREM KeptSubElementsInside == Spec => []SubElementsInside
<1>1. IInv => SubElementsInside
  BY DEF IInv, ItemsInside, SubElementsInside
<1> QED
  BY <1>1, Invariance, PTL
-----------------------------------------------------------------------------
(***************************************************************************)
(* The walk as a whole: what has been read of the element so far, and what *)
(* of the time before it has been kept.                                    *)
(***************************************************************************)

BufferIsGiven == buf \in Buffers[reader]

\* Pointers to sub-elements that follow those of base are to the first n of
\* this element, in order.
Continues(its, base, n) ==
  /\ Len(its) = Len(base) + n
  /\ \A k \in 1 .. Len(base) : its[k] = base[k]
  /\ \A k \in 1 .. n : its[Len(base) + k] = <<call, header[2], k>>

\* What sub-elements are stored behind.
Base == IF L.resets = "never" THEN saved.items ELSE <<>>

\* A walk begins at an element whose header is good.
WalkBegan ==
  Walking =>
    /\ saved.cursor = Here.at /\ saved.cursor + HeaderSize <= buf.size
    /\ saved.items \in Seq((1 .. MaxCalls) \X (Nat \ {0}) \X (Nat \ {0}))
    /\ HeaderGood(Here)

\* Until the encryption sub-elements have all been read the sub-elements of
\* the earlier element are still there.
EncryptionsSoFar ==
  phase = "encryptions" =>
    /\ L.encryptions > 0 /\ items = saved.items /\ found = {}
    /\ cursor = BodyStart(L, Here) + EncryptionSize * encs
    /\ encs <= Here.num /\ encs <= Len(Here.encs) /\ encs <= L.encryptions
    /\ \A e \in 1 .. encs : EncryptionFine(L, buf, Here, e)

SubsSoFar ==
  phase = "subs" =>
    /\ Encrypted(L, buf, Here)
    /\ \E n \in 0 .. Len(Here.subs) :
         /\ Continues(items, Base, n)
         /\ cursor = AfterSubs(L, Here, n)
         /\ \A k \in 1 .. n : SubFine(L, buf, Here, k)
         /\ found = {Here.subs[k].type : k \in 1 .. n}

WalkInv == BufferIsGiven /\ WalkBegan /\ EncryptionsSoFar /\ SubsSoFar

LEMMA WalkFacts ==
  ASSUME IInv, Walking
  PROVE  /\ IsLoop(L) /\ WellLaidOut(L, buf) /\ WellWalked(L, Here)
         /\ header = <<call, header[2]>> /\ header[2] \in DOMAIN buf.frames
         /\ Here \in Element /\ call \in Nat /\ cursor \in Nat /\ encs \in Nat
         /\ Here.at \in Nat /\ Here.num \in Nat /\ ElementEnd(Here) \in Nat
         /\ BodyStart(L, Here) \in Nat /\ SubsStart(L, Here) \in Nat
         /\ Here.encs \in Seq(BOOLEAN) /\ Here.subs \in Seq(SubElement)
         /\ Len(Here.encs) \in Nat /\ Len(Here.subs) \in Nat
         /\ DOMAIN Here.encs = 1 .. Len(Here.encs)
         /\ DOMAIN Here.subs = 1 .. Len(Here.subs)
         /\ L.encryptions \in Nat /\ L.cap \in Nat /\ L.subHeader \in Nat \ {0}
         /\ buf.size \in Nat /\ L.fixed \in Nat
<1>1. /\ TypeOK /\ HeaderIsHere /\ header[1] = call /\ header[2] \in DOMAIN buf.frames
  BY DEF IInv, HeaderIsHere, Walking
<1>2. /\ IsLoop(L) /\ WellLaidOut(L, buf) /\ call \in Nat \ {0} /\ encs \in Nat
      /\ cursor \in Nat /\ buf.size \in Nat
  BY <1>1, LoopFacts DEF TypeOK
<1>3. header = <<call, header[2]>>
  BY <1>1, <1>2 DEF TypeOK, Null
<1>4. /\ Here \in Element /\ ElementEnd(Here) \in Nat /\ BodyStart(L, Here) \in Nat
  BY <1>1, <1>2, LayoutFacts DEF Here
<1>5. /\ Here.at \in Nat /\ Here.num \in Nat
      /\ Here.encs \in Seq(BOOLEAN) /\ Here.subs \in Seq(SubElement)
  BY <1>4 DEF Element
<1>6. /\ Len(Here.encs) \in Nat /\ Len(Here.subs) \in Nat
      /\ DOMAIN Here.encs = 1 .. Len(Here.encs)
      /\ DOMAIN Here.subs = 1 .. Len(Here.subs)
  BY <1>5
<1>7. SubsStart(L, Here) \in Nat
  BY <1>4, <1>6 DEF SubsStart, EncryptionSize
<1>8. WellWalked(L, Here)
  <2>1. header[2] \in 1 .. Len(buf.frames)
    BY <1>1, <1>2 DEF WellLaidOut
  <2> QED
    BY <1>2, <2>1 DEF WellLaidOut, Here
<1>9. L.encryptions \in Nat /\ L.cap \in Nat /\ L.subHeader \in Nat \ {0} /\ L.fixed \in Nat
  BY <1>2 DEF IsLoop
<1> QED
  BY <1>1, <1>2, <1>3, <1>4, <1>5, <1>6, <1>7, <1>8, <1>9

\* Where the walk is behind each sub-element, and that it gets ahead with
\* each of them, so that no two begin at the same place.
LEMMA SubsAhead ==
  ASSUME IInv, Walking
  PROVE  /\ \A n \in 0 .. Len(Here.subs) : AfterSubs(L, Here, n) \in Nat
         /\ \A n \in 1 .. Len(Here.subs) :
              /\ Here.subs[n].at = AfterSubs(L, Here, n - 1)
              /\ Here.subs[n].at < ElementEnd(Here)
              /\ AfterSubs(L, Here, n) = SubEnd(L, Here.subs[n])
         /\ \A m \in 0 .. Len(Here.subs) : \A n \in 1 .. Len(Here.subs) :
              Here.subs[n].at = AfterSubs(L, Here, m) => n = m + 1
<1> DEFINE g == [n \in 0 .. Len(Here.subs) |-> AfterSubs(L, Here, n)]
<1>1. /\ WellWalked(L, Here) /\ Len(Here.subs) \in Nat /\ SubsStart(L, Here) \in Nat
      /\ L.subHeader \in Nat \ {0} /\ Here.subs \in Seq(SubElement)
      /\ DOMAIN Here.subs = 1 .. Len(Here.subs)
  BY WalkFacts
<1>2. \A n \in 1 .. Len(Here.subs) :
        /\ Here.subs[n].at = AfterSubs(L, Here, n - 1)
        /\ Here.subs[n].at < ElementEnd(Here)
  BY <1>1 DEF WellWalked
<1>3. \A n \in 1 .. Len(Here.subs) : AfterSubs(L, Here, n) = SubEnd(L, Here.subs[n])
  BY <1>1 DEF AfterSubs
<1>4. \A n \in 1 .. Len(Here.subs) :
        /\ Here.subs[n].at \in Nat /\ SubEnd(L, Here.subs[n]) \in Nat
        /\ Here.subs[n].at < SubEnd(L, Here.subs[n])
  <2> SUFFICES ASSUME NEW n \in 1 .. Len(Here.subs)
               PROVE  /\ Here.subs[n].at \in Nat /\ SubEnd(L, Here.subs[n]) \in Nat
                      /\ Here.subs[n].at < SubEnd(L, Here.subs[n])
    OBVIOUS
  <2>1. Here.subs[n] \in SubElement
    BY <1>1
  <2>2. Here.subs[n].at \in Nat /\ Here.subs[n].len \in Nat
    BY <2>1 DEF SubElement
  <2> QED
    BY <1>1, <2>2 DEF SubEnd
<1>5. \A n \in 0 .. Len(Here.subs) : g[n] \in Nat
  <2> SUFFICES ASSUME NEW n \in 0 .. Len(Here.subs) PROVE AfterSubs(L, Here, n) \in Nat
    OBVIOUS
  <2>1. CASE n = 0
    BY <1>1, <2>1 DEF AfterSubs
  <2>2. CASE n \in 1 .. Len(Here.subs)
    BY <1>3, <1>4, <2>2
  <2> QED
    BY <1>1, <2>1, <2>2
<1>6. \A n \in 1 .. Len(Here.subs) : g[n - 1] < g[n]
  <2> SUFFICES ASSUME NEW n \in 1 .. Len(Here.subs) PROVE g[n - 1] < g[n]
    OBVIOUS
  <2>1. n - 1 \in 0 .. Len(Here.subs) /\ n \in 0 .. Len(Here.subs)
    BY <1>1
  <2> QED
    BY <1>2, <1>3, <1>4, <2>1
<1>7. ASSUME NEW m \in 0 .. Len(Here.subs), NEW n \in 1 .. Len(Here.subs),
             Here.subs[n].at = AfterSubs(L, Here, m)
      PROVE  n = m + 1
  <2>1. n - 1 \in 0 .. Len(Here.subs) /\ g[n - 1] = g[m]
    BY <1>1, <1>2, <1>7
  <2> HIDE DEF g
  <2>2. \A i, j \in 0 .. Len(Here.subs) : i < j => g[i] < g[j]
    BY <1>1, <1>5, <1>6, Ascending
  <2>3. g[m] \in Nat /\ ~(g[m] < g[m])
    BY <1>5
  <2>4. ~(n - 1 < m) /\ ~(m < n - 1)
    BY <2>1, <2>2, <2>3
  <2> QED
    BY <1>1, <2>1, <2>4
<1> QED
  BY <1>2, <1>3, <1>5, <1>7

\* Outside of an element there is nothing to remember but the buffer.
LEMMA WalkEnds ==
  ASSUME WalkInv, ~Walking', UNCHANGED <<reader, buf>>
  PROVE  WalkInv'
BY DEF WalkInv, BufferIsGiven, WalkBegan, EncryptionsSoFar, SubsSoFar, Walking

LEMMA BeginWalk ==
  ASSUME IInv, WalkInv, NEW i \in DOMAIN buf.frames, BeginElement(i)
  PROVE  WalkInv'
<1>1. /\ header' = <<call, i>> /\ encs' = 0 /\ cursor' = BodyStart(L, buf.frames[i])
      /\ phase' = (IF L.encryptions > 0 THEN "encryptions" ELSE "subs")
      /\ items' = (IF L.resets = "start" THEN <<>> ELSE items)
      /\ saved'.cursor = cursor /\ saved'.items = items
      /\ found' = {}
      /\ UNCHANGED <<reader, buf, call, encr>>
      /\ cursor + HeaderSize <= buf.size /\ buf.frames[i].at = cursor
      /\ HeaderGood(buf.frames[i])
  BY DEF BeginElement, Under
<1>2. Here' = buf.frames[i] /\ L' = L /\ header'[2] = i
  BY <1>1 DEF Here, L
<1>3. TypeOK /\ IsLoop(L) /\ WellLaidOut(L, buf)
  BY LoopFacts DEF IInv
<1>4. WellWalked(L, buf.frames[i])
  BY <1>3 DEF WellLaidOut
<1>5. /\ BodyStart(L, buf.frames[i]) \in Nat /\ buf.frames[i] \in Element
  BY <1>3, LayoutFacts
<1>6. /\ buf.frames[i].encs \in Seq(BOOLEAN) /\ buf.frames[i].subs \in Seq(SubElement)
      /\ buf.frames[i].num \in Nat
  BY <1>5 DEF Element
<1>7. BufferIsGiven'
  BY <1>1 DEF WalkInv, BufferIsGiven
<1>8. WalkBegan'
  BY <1>1, <1>2, <1>3 DEF WalkBegan, HeaderGood, TypeOK
<1>9. EncryptionsSoFar'
  <2> SUFFICES ASSUME phase' = "encryptions"
               PROVE  /\ L.encryptions > 0 /\ items' = saved'.items /\ found' = {}
                      /\ cursor' = BodyStart(L, Here') + EncryptionSize * encs'
                      /\ encs' <= Here'.num /\ encs' <= Len(Here'.encs)
                      /\ encs' <= L.encryptions
                      /\ \A e \in 1 .. encs' : EncryptionFine(L, buf, Here', e)
    BY <1>1, <1>2 DEF EncryptionsSoFar
  <2>1. L.encryptions > 0 /\ L.encryptions \in Nat /\ L.resets # "start"
    BY <1>1, <1>3 DEF IsLoop
  <2>2. cursor' = BodyStart(L, Here') + EncryptionSize * encs'
    BY <1>1, <1>2, <1>5 DEF EncryptionSize
  <2>3. encs' <= Here'.num /\ encs' <= Len(Here'.encs) /\ 1 .. encs' = {}
    BY <1>1, <1>2, <1>6
  <2> QED
    BY <1>1, <2>1, <2>2, <2>3
<1>10. SubsSoFar'
  <2> SUFFICES ASSUME phase' = "subs"
               PROVE  /\ Encrypted(L, buf, Here')
                      /\ Continues(items, Base, 0)'
                      /\ cursor' = AfterSubs(L, Here', 0)
                      /\ \A k \in 1 .. 0 : SubFine(L, buf, Here', k)
                      /\ found' = {Here'.subs[k].type : k \in 1 .. 0}
    <3>1. 0 \in 0 .. Len(Here'.subs)
      BY <1>2, <1>6
    <3> QED
      BY <1>1, <1>2, <3>1 DEF SubsSoFar
  <2>1. L.encryptions = 0 /\ L.resets \in {"never", "start"}
    BY <1>1, <1>3 DEF IsLoop
  <2>2. Encrypted(L, buf, Here')
    BY <2>1 DEF Encrypted
  <2>3. Base' = items'
    BY <1>1, <1>2, <2>1 DEF Base
  <2>4. Continues(items, Base, 0)'
    <3>1. Len(items') \in Nat
      BY <1>1, <1>3, LoopFacts
    <3> QED
      BY <2>3, <3>1 DEF Continues
  <2>5. cursor' = AfterSubs(L, Here', 0)
    <3>1. Here'.encs = <<>> /\ Len(<<>>) = 0
      BY <1>2, <1>4, <2>1 DEF WellWalked
    <3> QED
      BY <1>1, <1>2, <1>5, <3>1 DEF AfterSubs, SubsStart, EncryptionSize
  <2> QED
    BY <1>1, <2>2, <2>4, <2>5
<1> QED
  BY <1>7, <1>8, <1>9, <1>10 DEF WalkInv

LEMMA EncryptionRead ==
  ASSUME IInv, WalkInv, ReadEncryption
  PROVE  WalkInv'
<1>1. /\ phase = "encryptions" /\ cursor < ElementEnd(Here) /\ encs < Here.num
      /\ cursor + EncryptionSize <= buf.size /\ Here.encs[encs + 1]
      /\ encs < L.encryptions
      /\ encs' = encs + 1 /\ cursor' = cursor + EncryptionSize
      /\ UNCHANGED <<reader, buf, phase, call, header, items, found, saved>>
  BY DEF ReadEncryption, MoreEncryptions, EncryptionGood
<1>2. Walking /\ Here' = Here /\ L' = L
  BY <1>1 DEF Walking, Here, L
<1>3. /\ WellWalked(L, Here) /\ encs \in Nat /\ Len(Here.encs) \in Nat
      /\ BodyStart(L, Here) \in Nat /\ Here.num \in Nat /\ L.encryptions \in Nat
  BY <1>2, WalkFacts
<1>4. /\ items = saved.items /\ L.encryptions > 0 /\ found = {}
      /\ cursor = BodyStart(L, Here) + EncryptionSize * encs
      /\ encs <= Len(Here.encs)
      /\ \A e \in 1 .. encs : EncryptionFine(L, buf, Here, e)
  BY <1>1 DEF WalkInv, EncryptionsSoFar
<1>5. encs + 1 <= Len(Here.encs)
  <2> SUFFICES ASSUME encs = Len(Here.encs) PROVE FALSE
    BY <1>3, <1>4
  <2>1. SubsStart(L, Here) >= ElementEnd(Here)
    BY <1>1, <1>3, <1>4 DEF WellWalked
  <2> QED
    BY <1>1, <1>2, <1>4, <2>1, WalkFacts DEF SubsStart
<1>6. cursor' = BodyStart(L, Here) + EncryptionSize * (encs + 1)
  BY <1>1, <1>3, <1>4 DEF EncryptionSize
<1>7. \A e \in 1 .. encs + 1 : EncryptionFine(L, buf, Here, e)
  <2>1. EncryptionFine(L, buf, Here, encs + 1)
    BY <1>1, <1>6 DEF EncryptionFine
  <2> QED
    BY <1>3, <1>4, <2>1
<1>8. EncryptionsSoFar'
  BY <1>1, <1>2, <1>3, <1>4, <1>5, <1>6, <1>7 DEF EncryptionsSoFar
<1>9. BufferIsGiven' /\ SubsSoFar'
  BY <1>1 DEF WalkInv, BufferIsGiven, SubsSoFar
<1>10. WalkBegan'
  BY <1>1, <1>2 DEF WalkInv, WalkBegan, HeaderGood, Walking
<1> QED
  BY <1>8, <1>9, <1>10 DEF WalkInv

\* Behind the last encryption sub-element that could be read, the layout has
\* no other, and their number is that of the good ones.
LEMMA EncryptionsCounted ==
  ASSUME IInv, WalkInv, phase = "encryptions",
         \/ ~MoreEncryptions
         \/ MoreEncryptions /\ ~EncryptionGood
  PROVE  /\ GoodEncryptions(L, buf, Here) = encs
         /\ Encrypted(L, buf, Here) <=> ~MoreEncryptions /\ encs = Here.num
         /\ L.encryptions > 0
<1>1. Walking
  BY DEF Walking
<1>2. /\ WellWalked(L, Here) /\ encs \in Nat /\ Len(Here.encs) \in Nat
      /\ BodyStart(L, Here) \in Nat /\ Here.num \in Nat /\ L.encryptions \in Nat
      /\ ElementEnd(Here) \in Nat /\ cursor \in Nat /\ buf.size \in Nat
  BY <1>1, WalkFacts
<1>3. /\ L.encryptions > 0
      /\ cursor = BodyStart(L, Here) + EncryptionSize * encs
      /\ encs <= Here.num /\ encs <= Len(Here.encs) /\ encs <= L.encryptions
      /\ \A e \in 1 .. encs : EncryptionFine(L, buf, Here, e)
  BY DEF WalkInv, EncryptionsSoFar
<1>4. /\ Len(Here.encs) <= Here.num
      /\ \A e \in 1 .. Len(Here.encs) :
           BodyStart(L, Here) + EncryptionSize * (e - 1) < ElementEnd(Here)
      /\ Len(Here.encs) < Here.num => SubsStart(L, Here) >= ElementEnd(Here)
  BY <1>2, <1>3 DEF WellWalked
<1> DEFINE T == {n \in 0 .. Len(Here.encs) :
                   n <= L.encryptions /\ \A e \in 1 .. n : EncryptionFine(L, buf, Here, e)}
<1>5. encs \in T /\ T \in SUBSET Nat
  BY <1>2, <1>3
\* Either the layout has no more of them or the next one is not taken.
<1>6. \/ encs = Len(Here.encs)
      \/ encs < Len(Here.encs) /\ MoreEncryptions
           /\ ~(encs < L.encryptions /\ EncryptionFine(L, buf, Here, encs + 1))
  <2> SUFFICES ASSUME encs < Len(Here.encs)
               PROVE  MoreEncryptions
                        /\ ~(encs < L.encryptions /\ EncryptionFine(L, buf, Here, encs + 1))
    BY <1>2, <1>3
  <2>1. encs + 1 \in 1 .. Len(Here.encs) /\ (encs + 1) - 1 = encs
    BY <1>2
  <2>2. cursor < ElementEnd(Here)
    BY <1>3, <1>4, <2>1
  <2>3. encs < Here.num
    BY <1>2, <1>4
  <2>4. MoreEncryptions
    BY <2>2, <2>3 DEF MoreEncryptions
  <2>5. BodyStart(L, Here) + EncryptionSize * (encs + 1) = cursor + EncryptionSize
    BY <1>2, <1>3 DEF EncryptionSize
  <2>6. ~(encs < L.encryptions /\ EncryptionFine(L, buf, Here, encs + 1))
    BY <2>4, <2>5 DEF EncryptionGood, EncryptionFine
  <2> QED
    BY <2>4, <2>6
<1>7. ASSUME NEW n \in T PROVE n <= encs
  <2>1. n \in Nat /\ n <= Len(Here.encs) /\ n <= L.encryptions
        /\ \A e \in 1 .. n : EncryptionFine(L, buf, Here, e)
    BY <1>2
  <2> SUFFICES ASSUME encs < n PROVE FALSE
    BY <1>2, <2>1
  <2>2. encs + 1 \in 1 .. n /\ encs < Len(Here.encs) /\ encs < L.encryptions
    BY <1>2, <2>1
  <2>3. EncryptionFine(L, buf, Here, encs + 1)
    BY <2>1, <2>2
  <2> QED
    BY <1>2, <1>6, <2>2, <2>3
<1>8. GoodEncryptions(L, buf, Here) = encs
  <2>1. GoodEncryptions(L, buf, Here) = Max(T)
    BY DEF GoodEncryptions
  <2> HIDE DEF T
  <2> QED
    BY <1>5, <1>7, <2>1, MaxIs
<1>9. ~MoreEncryptions /\ encs = Here.num => Len(Here.encs) = Here.num
  BY <1>2, <1>3, <1>4
<1>10. encs = Here.num => ~MoreEncryptions
  BY <1>2 DEF MoreEncryptions
<1> QED
  BY <1>3, <1>8, <1>9, <1>10 DEF Encrypted

LEMMA EncryptionsEnd ==
  ASSUME IInv, WalkInv, EndEncryptions
  PROVE  WalkInv'
<1>1. /\ phase = "encryptions" /\ ~MoreEncryptions
      /\ UNCHANGED <<reader, buf, cursor, call, header, encs, found, saved>>
  BY DEF EndEncryptions
<1>2. CASE encs # Here.num
  <2>1. ~Walking'
    BY <1>2 DEF EndEncryptions, Walking
  <2> QED
    BY <1>1, <2>1, WalkEnds
<1>3. CASE encs = Here.num
  <2>1. items' = <<>> /\ phase' = "subs"
    BY <1>3 DEF EndEncryptions
  <2>2. Walking /\ Here' = Here /\ L' = L
    BY <1>1 DEF Walking, Here, L
  <2>3. Encrypted(L, buf, Here) /\ L.encryptions > 0
    BY <1>1, <1>3, EncryptionsCounted
  <2>4. /\ encs \in Nat /\ IsLoop(L) /\ Len(Here.encs) \in Nat /\ Here.num \in Nat
        /\ BodyStart(L, Here) \in Nat /\ Len(Here.subs) \in Nat
    BY <2>2, WalkFacts
  <2>5. cursor = AfterSubs(L, Here, 0)
    <3>1. cursor = BodyStart(L, Here) + EncryptionSize * encs
      BY <1>1 DEF WalkInv, EncryptionsSoFar
    <3>2. encs = Len(Here.encs)
      BY <1>3, <2>3 DEF Encrypted
    <3> QED
      BY <3>1, <3>2 DEF AfterSubs, SubsStart
  <2>6. Base' = <<>>
    <3>1. L.resets = "late"
      BY <2>3, <2>4 DEF IsLoop
    <3> QED
      BY <2>2, <3>1 DEF Base
  <2>7. Continues(items, Base, 0)'
    <3>1. Len(<<>>) = 0 /\ 1 .. 0 = {}
      OBVIOUS
    <3> QED
      BY <2>1, <2>6, <3>1 DEF Continues
  <2>8. found' = {Here'.subs[k].type : k \in 1 .. 0}
    <3>1. found = {} /\ 1 .. 0 = {}
      BY <1>1 DEF WalkInv, EncryptionsSoFar
    <3> QED
      BY <1>1, <3>1
  <2>9. SubsSoFar'
    <3>1. 0 \in 0 .. Len(Here'.subs) /\ 1 .. 0 = {}
      BY <2>2, <2>4
    <3> QED
      BY <1>1, <2>1, <2>2, <2>3, <2>5, <2>7, <2>8, <3>1 DEF SubsSoFar
  <2>10. BufferIsGiven' /\ EncryptionsSoFar'
    BY <1>1, <2>1 DEF WalkInv, BufferIsGiven, EncryptionsSoFar
  <2>11. WalkBegan'
    BY <1>1, <2>2 DEF WalkInv, WalkBegan, HeaderGood
  <2> QED
    BY <2>9, <2>10, <2>11 DEF WalkInv
<1> QED
  BY <1>2, <1>3

LEMMA BaseIsSeq ==
  ASSUME IInv, WalkInv, Walking
  PROVE  Base \in Seq((1 .. MaxCalls) \X (Nat \ {0}) \X (Nat \ {0})) /\ Len(Base) \in Nat
<1>1. saved.items \in Seq((1 .. MaxCalls) \X (Nat \ {0}) \X (Nat \ {0}))
  BY DEF WalkInv, WalkBegan
<1>2. Base \in Seq((1 .. MaxCalls) \X (Nat \ {0}) \X (Nat \ {0}))
  BY <1>1 DEF Base
<1> QED
  BY <1>2

LEMMA SubRead ==
  ASSUME IInv, WalkInv, NEW m \in DOMAIN Here.subs, ReadSub(m)
  PROVE  WalkInv'
<1>1. /\ phase = "subs" /\ Here.subs[m].at = cursor /\ SubGood(m)
      /\ items' = Append(items, <<call, header[2], m>>)
      /\ found' = found \cup {Here.subs[m].type}
      /\ cursor' = SubEnd(L, Here.subs[m])
      /\ UNCHANGED <<reader, buf, phase, call, header, encr, encs, saved>>
  BY DEF ReadSub, UnderSub
<1>2. Walking /\ Here' = Here /\ L' = L /\ Base' = Base
  BY <1>1 DEF Walking, Here, L, Base
<1>3. /\ Len(Here.subs) \in Nat /\ DOMAIN Here.subs = 1 .. Len(Here.subs)
      /\ Len(Base) \in Nat
  BY <1>2, WalkFacts, BaseIsSeq
<1>4. /\ Encrypted(L, buf, Here)
      /\ \E n \in 0 .. Len(Here.subs) :
           /\ Continues(items, Base, n)
           /\ cursor = AfterSubs(L, Here, n)
           /\ \A k \in 1 .. n : SubFine(L, buf, Here, k)
           /\ found = {Here.subs[k].type : k \in 1 .. n}
  BY <1>1 DEF WalkInv, SubsSoFar
<1>5. PICK n \in 0 .. Len(Here.subs) :
        /\ Continues(items, Base, n)
        /\ cursor = AfterSubs(L, Here, n)
        /\ \A k \in 1 .. n : SubFine(L, buf, Here, k)
        /\ found = {Here.subs[k].type : k \in 1 .. n}
  BY <1>4
<1>6. m = n + 1 /\ n + 1 \in 0 .. Len(Here.subs) /\ n \in Nat
  <2>1. m \in 1 .. Len(Here.subs) /\ Here.subs[m].at = AfterSubs(L, Here, n)
    BY <1>1, <1>3, <1>5
  <2>2. m = n + 1
    BY <1>2, <2>1, SubsAhead
  <2> QED
    BY <1>3, <2>1, <2>2
<1>7. Continues(items, Base, n + 1)'
  <2>1. items \in Seq((1 .. MaxCalls) \X (Nat \ {0}) \X (Nat \ {0})) /\ Len(items) \in Nat
    BY LoopFacts DEF IInv, TypeOK
  <2>2. <<call, header[2], m>> \in (1 .. MaxCalls) \X (Nat \ {0}) \X (Nat \ {0})
    <3>1. call \in 1 .. MaxCalls /\ WellLaidOut(L, buf) /\ header[2] \in DOMAIN buf.frames
      BY <1>2, WalkFacts DEF IInv, TypeOK
    <3>2. header[2] \in Nat \ {0} /\ m \in Nat \ {0}
      BY <1>3, <3>1 DEF WellLaidOut
    <3> QED
      BY <3>1, <3>2
  <2>3. /\ Len(items') = Len(items) + 1
        /\ \A k \in 1 .. Len(items) : items'[k] = items[k]
        /\ items'[Len(items) + 1] = <<call, header[2], m>>
    BY <1>1, <2>1, <2>2, AppendProperties
  <2>4. /\ Len(items) = Len(Base) + n
        /\ \A k \in 1 .. Len(Base) : items[k] = Base[k]
        /\ \A k \in 1 .. n : items[Len(Base) + k] = <<call, header[2], k>>
    BY <1>5 DEF Continues
  <2>5. \A k \in 1 .. Len(Base) : items'[k] = Base[k]
    <3>1. \A k \in 1 .. Len(Base) : k \in 1 .. Len(items)
      BY <1>3, <1>6, <2>1, <2>4
    <3> QED
      BY <2>3, <2>4, <3>1
  <2>6. \A k \in 1 .. n + 1 : items'[Len(Base) + k] = <<call, header[2], k>>
    <3> SUFFICES ASSUME NEW k \in 1 .. n + 1
                 PROVE  items'[Len(Base) + k] = <<call, header[2], k>>
      OBVIOUS
    <3>1. CASE k = n + 1
      BY <1>3, <1>6, <2>3, <2>4, <3>1
    <3>2. CASE k \in 1 .. n
      <4>1. Len(Base) + k \in 1 .. Len(items)
        BY <1>3, <1>6, <2>4, <3>2
      <4> QED
        BY <2>3, <2>4, <3>2, <4>1
    <3> QED
      BY <1>6, <3>1, <3>2
  <2>7. Len(items') = Len(Base) + (n + 1)
    BY <1>3, <1>6, <2>3, <2>4
  <2> QED
    BY <1>1, <1>2, <2>5, <2>6, <2>7 DEF Continues
<1>8. cursor' = AfterSubs(L, Here, n + 1)
  BY <1>1, <1>6 DEF AfterSubs
<1>9. \A k \in 1 .. n + 1 : SubFine(L, buf, Here, k)
  <2>1. SubFine(L, buf, Here, m)
    BY <1>1 DEF SubGood, SubFine
  <2>2. \A k \in 1 .. n + 1 : k \in 1 .. n \/ k = m
    BY <1>6
  <2> QED
    BY <1>5, <2>1, <2>2
<1>10. found' = {Here.subs[k].type : k \in 1 .. n + 1}
  <2>1. 1 .. n + 1 = (1 .. n) \cup {m}
    BY <1>6
  <2> QED
    BY <1>1, <1>5, <2>1
<1>11. SubsSoFar'
  <2>1. /\ Continues(items, Base, n + 1)'
        /\ cursor' = AfterSubs(L', Here', n + 1)
        /\ \A k \in 1 .. n + 1 : SubFine(L', buf', Here', k)
        /\ found' = {Here'.subs[k].type : k \in 1 .. n + 1}
        /\ n + 1 \in 0 .. Len(Here'.subs) /\ Encrypted(L', buf', Here')
    BY <1>1, <1>2, <1>4, <1>6, <1>7, <1>8, <1>9, <1>10
  <2> QED
    BY <2>1, Zenon DEF SubsSoFar
<1>12. BufferIsGiven' /\ EncryptionsSoFar'
  BY <1>1 DEF WalkInv, BufferIsGiven, EncryptionsSoFar
<1>13. WalkBegan'
  BY <1>1, <1>2 DEF WalkInv, WalkBegan, HeaderGood
<1> QED
  BY <1>11, <1>12, <1>13 DEF WalkInv

LEMMA StepKeepsWalkInv == IInv /\ WalkInv /\ [Next]_vars => WalkInv'
<1> SUFFICES ASSUME IInv, WalkInv, [Next]_vars PROVE WalkInv'
  OBVIOUS
<1>1. CASE \E i \in DOMAIN buf.frames : BeginElement(i)
  BY <1>1, BeginWalk
<1>2. CASE ReadEncryption
  BY <1>2, EncryptionRead
<1>3. CASE EndEncryptions
  BY <1>3, EncryptionsEnd
<1>4. CASE \E n \in DOMAIN Here.subs : ReadSub(n)
  BY <1>4, SubRead
<1>5. CASE EndElement \/ Finish
  <2>1. phase' \in {"between", "accepted", "rejected"} /\ UNCHANGED <<reader, buf>>
    BY <1>5 DEF EndElement, Finish
  <2> QED
    BY <2>1, WalkEnds DEF Walking
<1>6. CASE \/ \E i \in DOMAIN buf.frames : RejectElement(i)
           \/ RejectEncryption
           \/ \E n \in DOMAIN Here.subs : RejectSub(n)
  <2>1. phase' = "rejected" /\ UNCHANGED <<reader, buf>>
    BY <1>6 DEF RejectElement, RejectEncryption, RejectSub
  <2> QED
    BY <2>1, WalkEnds DEF Walking
<1>7. CASE DeserializeAgain
  BY <1>7 DEF DeserializeAgain, WalkInv, BufferIsGiven, WalkBegan, EncryptionsSoFar,
     SubsSoFar, Walking
<1>8. CASE UNCHANGED vars
  <2>1. /\ Here' = Here /\ L' = L /\ Base' = Base
        /\ UNCHANGED <<reader, buf, cursor, phase, call, header, items, encs, found, saved>>
    BY <1>8 DEF vars, Here, L, Base
  <2>2. BufferIsGiven' /\ WalkBegan' /\ EncryptionsSoFar'
    BY <2>1 DEF WalkInv, BufferIsGiven, WalkBegan, EncryptionsSoFar, Walking, HeaderGood
  <2>3. \A n : Continues(items, Base, n) => Continues(items, Base, n)'
    BY <2>1 DEF Continues
  <2>4. SubsSoFar'
    BY <2>1, <2>3 DEF WalkInv, SubsSoFar
  <2> QED
    BY <2>2, <2>4 DEF WalkInv
<1> QED
  BY <1>1, <1>2, <1>3, <1>4, <1>5, <1>6, <1>7, <1>8 DEF Next, LoopStep

\* What has been read of an element is what a walk along its sub-elements has
\* come past, in every reachable state.
THEOREM WalkHolds == Spec => []WalkInv
<1>1. Init => WalkInv
  BY DEF Init, WalkInv, BufferIsGiven, WalkBegan, EncryptionsSoFar, SubsSoFar, Walking
<1> QED
  BY <1>1, Invariance, StepKeepsWalkInv, PTL DEF Spec
-----------------------------------------------------------------------------
(***************************************************************************)
(* What the tables hold, also in the middle of an element, after a refusal *)
(* and of the elements of earlier buffers.                                 *)
(***************************************************************************)

\* The slots of this buffer are of elements that begin before the cursor, so
\* that none is taken for one of the element that begins there.
SlotsBehind ==
  \A e \in DOMAIN encr :
    /\ encr[e][1] <= call
    /\ encr[e][1] = call =>
         encr[e][2] \in DOMAIN buf.frames /\ buf.frames[encr[e][2]].at < cursor

\* The slots of the header are the first encs, and no other; it is torn once
\* its walk has gone past them with too few.
SlotsOfHeader ==
  L.encryptions > 0 /\ header # Null =>
    /\ encs <= shown.num
    /\ \A e \in 1 .. encs : encr[e] = header
    /\ \A e \in encs + 1 .. Len(encr) : encr[e] # header
    /\ phase = "encryptions" => ~shown.torn /\ shown.num = Here.num
    /\ phase # "encryptions" => (shown.torn <=> encs < shown.num)

TableInv == SlotsBehind /\ SlotsOfHeader /\ KeptAreValidated

\* A slot behind which the cursor goes on stays one.
LEMMA SlotStaysBehind ==
  ASSUME IInv, SlotsBehind, NEW e \in DOMAIN encr, encr[e][1] = call,
         NEW c \in Nat, cursor <= c
  PROVE  encr[e][2] \in DOMAIN buf.frames /\ buf.frames[encr[e][2]].at < c
<1>1. IsLoop(L) /\ WellLaidOut(L, buf) /\ cursor \in Nat
  BY LoopFacts DEF IInv, TypeOK
<1>2. encr[e][2] \in DOMAIN buf.frames /\ buf.frames[encr[e][2]].at < cursor
  BY DEF SlotsBehind
<1>3. buf.frames[encr[e][2]].at \in Nat
  BY <1>1, <1>2, LayoutFacts DEF Element
<1> QED
  BY <1>1, <1>2, <1>3

\* Steps that leave the tables alone and do not go back in the buffer.
LEMMA TablesLeft ==
  ASSUME IInv, TableInv, cursor' \in Nat, cursor <= cursor',
         items' = items \/ items' = <<>>, UNCHANGED <<reader, buf, call, encr>>
  PROVE  SlotsBehind' /\ KeptAreValidated'
<1>1. TypeOK /\ WellLaidOut(L, buf) /\ L' = L /\ cursor \in Nat
  BY LoopFacts DEF IInv, TypeOK, L
<1>2. SlotsBehind'
  <2>1. \A e \in DOMAIN encr : encr[e][1] <= call
    BY DEF TableInv, SlotsBehind
  <2>2. \A e \in DOMAIN encr : encr[e][1] = call =>
          encr[e][2] \in DOMAIN buf.frames /\ buf.frames[encr[e][2]].at < cursor'
    BY SlotStaysBehind DEF TableInv
  <2> QED
    BY <2>1, <2>2 DEF SlotsBehind
<1>3. KeptAreValidated'
  <2>1. Len(<<>>) = 0 /\ DOMAIN <<>> = {}
    OBVIOUS
  <2> QED
    BY <1>1, <2>1 DEF TableInv, KeptAreValidated, HeaderGood
<1> QED
  BY <1>2, <1>3

LEMMA BeginTables ==
  ASSUME IInv, TableInv, NEW i \in DOMAIN buf.frames, BeginElement(i)
  PROVE  TableInv'
<1>1. /\ header' = <<call, i>> /\ encs' = 0 /\ cursor' = BodyStart(L, buf.frames[i])
      /\ phase' = (IF L.encryptions > 0 THEN "encryptions" ELSE "subs")
      /\ items' = <<>> \/ items' = items
      /\ shown' = [num |-> buf.frames[i].num, torn |-> FALSE]
      /\ UNCHANGED <<reader, buf, call, encr>>
      /\ buf.frames[i].at = cursor
  BY DEF BeginElement, Under
<1>2. TypeOK /\ IsLoop(L) /\ WellLaidOut(L, buf) /\ Len(encr) \in Nat
  BY LoopFacts DEF IInv
<1>3. /\ buf.frames[i].num \in Nat /\ buf.frames[i].at \in Nat /\ L.fixed \in Nat
      /\ BodyStart(L, buf.frames[i]) \in Nat
  BY <1>2, LayoutFacts DEF Element, IsLoop
<1>4. cursor <= cursor' /\ cursor' \in Nat
  BY <1>1, <1>3 DEF BodyStart, HeaderSize
<1>5. SlotsBehind' /\ KeptAreValidated'
  BY <1>1, <1>4, TablesLeft
<1>6. \A e \in DOMAIN encr : encr[e] # <<call, i>>
  <2> SUFFICES ASSUME NEW e \in DOMAIN encr, encr[e] = <<call, i>> PROVE FALSE
    OBVIOUS
  <2>1. encr[e][1] = call /\ encr[e][2] = i
    OBVIOUS
  <2>2. buf.frames[i].at < cursor
    BY <2>1 DEF TableInv, SlotsBehind
  <2> QED
    BY <1>1, <1>3, <2>2
<1>7. SlotsOfHeader'
  <2>1. /\ encs' <= shown'.num /\ ~shown'.torn /\ ~(encs' < shown'.num /\ shown'.num = 0)
        /\ shown'.num = Here'.num
    BY <1>1, <1>3 DEF Here
  <2>2. \A e \in encs' + 1 .. Len(encr') : encr'[e] # header'
    BY <1>1, <1>2, <1>6 DEF TypeOK
  <2>3. \A e \in 1 .. encs' : encr'[e] = header'
    BY <1>1
  <2>4. L'.encryptions > 0 => phase' = "encryptions"
    BY <1>1 DEF L
  <2> QED
    BY <2>1, <2>2, <2>3, <2>4 DEF SlotsOfHeader
<1> QED
  BY <1>5, <1>7 DEF TableInv

LEMMA EncryptionInTable ==
  ASSUME IInv, WalkInv, TableInv, ReadEncryption
  PROVE  TableInv'
<1>1. /\ encr' = (IF encs < Len(encr) THEN [encr EXCEPT ![encs + 1] = header]
                                      ELSE Append(encr, header))
      /\ encs' = encs + 1 /\ cursor' = cursor + 3 /\ phase = "encryptions"
      /\ encs < Here.num /\ cursor + 3 <= buf.size /\ Here.encs[encs + 1]
      /\ UNCHANGED <<reader, buf, phase, call, header, items, shown>>
  BY DEF ReadEncryption, MoreEncryptions, EncryptionGood, EncryptionSize
<1>2. /\ Walking /\ Here' = Here /\ L' = L
  BY <1>1 DEF Walking, Here, L
<1>3. /\ buf.size \in Nat /\ header[1] = call
      /\ header[2] \in DOMAIN buf.frames /\ encs \in Nat /\ Here.num \in Nat
      /\ call \in Nat \ {0} /\ cursor \in Nat /\ BodyStart(L, Here) \in Nat
      /\ Here.at \in Nat /\ L.fixed \in Nat
  BY <1>2, WalkFacts, LoopFacts DEF IInv
<1>4. /\ encr \in Seq((1 .. MaxCalls) \X (Nat \ {0})) /\ Len(encr) \in Nat
      /\ encs <= Len(encr) /\ DOMAIN encr = 1 .. Len(encr)
      /\ header \in (1 .. MaxCalls) \X (Nat \ {0}) /\ header # Null
  BY <1>3, LoopFacts DEF IInv, TypeOK, Null
\* The slot behind those of the header becomes one of them, the others stay.
<1>5. /\ DOMAIN encr' = 1 .. Len(encr') /\ Len(encr') \in Nat /\ encs + 1 <= Len(encr')
      /\ encr'[encs + 1] = header
      /\ \A e \in DOMAIN encr' : e # encs + 1 => e \in DOMAIN encr /\ encr'[e] = encr[e]
  <2>1. CASE encs < Len(encr)
    <3>1. encr' = [encr EXCEPT ![encs + 1] = header] /\ encs + 1 \in 1 .. Len(encr)
      BY <1>1, <1>3, <1>4, <2>1
    <3>2. /\ encr' \in Seq((1 .. MaxCalls) \X (Nat \ {0})) /\ Len(encr') = Len(encr)
          /\ \A e \in 1 .. Len(encr) : encr'[e] = (IF e = encs + 1 THEN header ELSE encr[e])
      BY <1>4, <3>1, ExceptSeq
    <3> QED
      BY <1>4, <3>1, <3>2
  <2>2. CASE ~(encs < Len(encr))
    <3>1. encr' = Append(encr, header) /\ encs = Len(encr)
      <4>1. encr' = Append(encr, header)
        BY <1>1, <2>2
      <4>2. encs \in Nat /\ Len(encr) \in Nat /\ encs <= Len(encr)
        BY <1>3, <1>4
      <4>3. encs = Len(encr)
        BY <2>2, <4>2
      <4> QED
        BY <4>1, <4>3
    <3>2. /\ encr' \in Seq((1 .. MaxCalls) \X (Nat \ {0})) /\ Len(encr') = Len(encr) + 1
          /\ \A e \in 1 .. Len(encr) : encr'[e] = encr[e]
          /\ encr'[Len(encr) + 1] = header
      BY <1>4, <3>1, AppendProperties
    <3>3. DOMAIN encr' = 1 .. Len(encr) + 1
      BY <3>2
    <3>4. \A e \in DOMAIN encr' : e # Len(encr) + 1 => e \in 1 .. Len(encr)
      BY <1>4, <3>3
    <3> QED
      BY <1>4, <3>1, <3>2, <3>3, <3>4
  <2> QED
    BY <2>1, <2>2
<1>6. /\ cursor = BodyStart(L, Here) + EncryptionSize * encs
      /\ HeaderGood(Here)
  BY <1>1, <1>2 DEF WalkInv, EncryptionsSoFar, WalkBegan
<1>7. Here.at < cursor /\ cursor <= cursor' /\ cursor' \in Nat
  <2>1. \A x, y, z \in Nat : x < x + 4 + y + 3 * z
    OBVIOUS
  <2>2. Here.at < cursor
    BY <1>3, <1>6, <2>1, Zenon DEF BodyStart, HeaderSize, EncryptionSize
  <2>3. cursor \in Nat /\ cursor' = cursor + 3
    BY <1>1, <1>3
  <2> QED
    BY <2>2, <2>3
<1>8. SlotsBehind'
  <2> SUFFICES ASSUME NEW e \in DOMAIN encr'
               PROVE  /\ encr'[e][1] <= call
                      /\ encr'[e][1] = call =>
                           encr'[e][2] \in DOMAIN buf.frames
                             /\ buf.frames[encr'[e][2]].at < cursor'
    BY <1>1 DEF SlotsBehind
  <2>1. CASE e = encs + 1
    <3>1. encr'[e] = header /\ header[1] = call
      BY <1>3, <1>5, <2>1
    <3>2. buf.frames[header[2]].at < cursor'
      BY <1>3, <1>7 DEF Here
    <3> QED
      BY <1>3, <3>1, <3>2
  <2>2. CASE e # encs + 1
    <3>1. e \in DOMAIN encr /\ encr'[e] = encr[e]
      BY <1>5, <2>2
    <3>2. encr[e][1] <= call
      BY <3>1 DEF TableInv, SlotsBehind
    <3>3. encr[e][1] = call =>
            encr[e][2] \in DOMAIN buf.frames /\ buf.frames[encr[e][2]].at < cursor'
      BY <1>7, <3>1, SlotStaysBehind DEF TableInv
    <3> QED
      BY <3>1, <3>2, <3>3
  <2> QED
    BY <2>1, <2>2
<1>9. SlotsOfHeader'
  <2>1. header # Null /\ L.encryptions > 0
    BY <1>1, <1>4 DEF WalkInv, EncryptionsSoFar
  <2>2. /\ \A e \in 1 .. encs : encr[e] = header
        /\ \A e \in encs + 1 .. Len(encr) : encr[e] # header
        /\ ~shown.torn /\ shown.num = Here.num
    BY <1>1, <2>1 DEF TableInv, SlotsOfHeader
  <2>3. encs' <= shown'.num
    BY <1>1, <1>3, <2>2
  <2>4. \A e \in 1 .. encs + 1 : encr'[e] = header
    <3> SUFFICES ASSUME NEW e \in 1 .. encs + 1 PROVE encr'[e] = header
      OBVIOUS
    <3>1. e = encs + 1 \/ (e \in 1 .. encs /\ e # encs + 1)
      BY <1>3
    <3>2. e \in DOMAIN encr'
      BY <1>3, <1>5
    <3> QED
      BY <1>5, <2>2, <3>1, <3>2
  <2>5. \A e \in encs + 2 .. Len(encr') : encr'[e] # header
    <3> SUFFICES ASSUME NEW e \in encs + 2 .. Len(encr') PROVE encr'[e] # header
      OBVIOUS
    <3>1. e \in DOMAIN encr' /\ e # encs + 1 /\ e \in Nat /\ e > encs + 1
      BY <1>3, <1>5
    <3>2. e \in DOMAIN encr /\ encr'[e] = encr[e]
      BY <1>5, <3>1
    <3>3. e \in encs + 1 .. Len(encr)
      BY <1>3, <1>4, <3>1, <3>2
    <3> QED
      BY <2>2, <3>2, <3>3
  <2>6. encs' + 1 = encs + 2
    BY <1>1, <1>3
  <2> QED
    BY <1>1, <1>2, <2>2, <2>3, <2>4, <2>5, <2>6 DEF SlotsOfHeader
<1>10. KeptAreValidated'
  <2>1. EncryptionFine(L, buf, Here, encs + 1)
    <3>1. BodyStart(L, Here) + EncryptionSize * (encs + 1) = cursor + 3
      <4>1. \A x, y \in Nat : x + 3 * (y + 1) = x + 3 * y + 3
        OBVIOUS
      <4> QED
        BY <1>3, <1>6, <4>1, Zenon DEF EncryptionSize
    <3> QED
      BY <1>1, <3>1 DEF EncryptionFine
  <2>2. ASSUME NEW e \in DOMAIN encr', encr'[e][1] = call
        PROVE  HeaderGood(buf.frames[encr'[e][2]])
                 /\ EncryptionFine(L, buf, buf.frames[encr'[e][2]], e)
    <3>1. CASE e = encs + 1
      BY <1>5, <1>6, <2>1, <3>1 DEF Here
    <3>2. CASE e # encs + 1
      BY <1>5, <2>2, <3>2 DEF TableInv, KeptAreValidated
    <3> QED
      BY <3>1, <3>2
  <2>3. \A f : HeaderGood(f) => HeaderGood(f)'
    BY <1>1, <1>2 DEF HeaderGood
  <2> QED
    BY <1>1, <1>2, <2>2 DEF TableInv, KeptAreValidated, HeaderGood
<1> QED
  BY <1>8, <1>9, <1>10 DEF TableInv

\* Where the walk of an element ends among the encryption sub-elements, or
\* behind them.
LEMMA EncryptionsEndInTable ==
  ASSUME IInv, WalkInv, TableInv, EndEncryptions \/ RejectEncryption
  PROVE  TableInv'
<1>1. /\ phase = "encryptions" /\ phase' # "encryptions"
      /\ items' = items \/ items' = <<>>
      /\ UNCHANGED <<reader, buf, cursor, call, header, encr, encs>>
  BY DEF EndEncryptions, RejectEncryption, MoreEncryptions
<1>2. Walking /\ L' = L
  BY <1>1 DEF Walking, L
<1>3. encs \in Nat /\ Here.num \in Nat /\ cursor \in Nat
  BY <1>2, WalkFacts
<1>4. shown \in [num : Nat, torn : BOOLEAN]
  BY DEF IInv, TypeOK
<1>5. SlotsBehind' /\ KeptAreValidated'
  BY <1>1, <1>3, TablesLeft
<1>6. SlotsOfHeader'
  <2> SUFFICES ASSUME L.encryptions > 0, header # Null
               PROVE  /\ encs <= shown'.num
                      /\ \A e \in 1 .. encs : encr[e] = header
                      /\ \A e \in encs + 1 .. Len(encr) : encr[e] # header
                      /\ shown'.torn <=> encs < shown'.num
    BY <1>1, <1>2 DEF SlotsOfHeader
  <2>1. /\ encs <= shown.num /\ shown.num = Here.num
        /\ \A e \in 1 .. encs : encr[e] = header
        /\ \A e \in encs + 1 .. Len(encr) : encr[e] # header
    BY <1>1 DEF TableInv, SlotsOfHeader
  <2>2. CASE EndEncryptions
    <3>1. shown'.num = shown.num /\ (shown'.torn <=> encs # Here.num)
      BY <1>4, <2>2 DEF EndEncryptions
    <3>2. encs # Here.num <=> encs < shown.num
      BY <1>3, <2>1
    <3> QED
      BY <2>1, <3>1, <3>2, Zenon
  <2>3. CASE RejectEncryption
    <3>1. shown'.num = shown.num /\ shown'.torn = TRUE /\ encs < Here.num
      BY <1>4, <2>3 DEF RejectEncryption, MoreEncryptions
    <3> QED
      BY <1>3, <2>1, <3>1
  <2> QED
    BY <2>2, <2>3
<1> QED
  BY <1>5, <1>6 DEF TableInv

LEMMA SubInTable ==
  ASSUME IInv, WalkInv, TableInv, NEW n \in DOMAIN Here.subs, ReadSub(n)
  PROVE  TableInv'
<1> DEFINE it == <<call, header[2], n>>
<1>1. /\ phase = "subs" /\ cursor < ElementEnd(Here) /\ Here.subs[n].at = cursor
      /\ SubGood(n) /\ items' = Append(items, it)
      /\ cursor' = SubEnd(L, Here.subs[n])
      /\ UNCHANGED <<reader, buf, phase, call, header, encr, encs, shown>>
  BY DEF ReadSub, UnderSub
<1>2. Walking /\ Here' = Here /\ L' = L
  BY <1>1 DEF Walking, Here, L
<1>3. /\ IsLoop(L) /\ WellLaidOut(L, buf)
      /\ header[2] \in DOMAIN buf.frames /\ cursor \in Nat
      /\ ElementEnd(Here) \in Nat /\ L.subHeader \in Nat /\ call \in 1 .. MaxCalls
      /\ items \in Seq((1 .. MaxCalls) \X (Nat \ {0}) \X (Nat \ {0})) /\ Len(items) \in Nat
  BY <1>2, WalkFacts, LoopFacts DEF IInv, TypeOK
<1>4. /\ n \in Nat \ {0} /\ header[2] \in Nat \ {0} /\ Here.subs[n].len \in Nat
      /\ cursor' \in Nat
  BY <1>1, <1>3, LayoutFacts DEF Here
<1>5. cursor <= cursor'
  <2>1. \A x, y, z \in Nat : x <= x + y + z
    OBVIOUS
  <2> QED
    BY <1>1, <1>3, <1>4, <2>1, Zenon DEF SubEnd
<1>6. /\ Len(items') = Len(items) + 1
      /\ DOMAIN items' = 1 .. Len(items) + 1 /\ DOMAIN items = 1 .. Len(items)
      /\ \A k \in 1 .. Len(items) : items'[k] = items[k]
      /\ items'[Len(items) + 1] = it
  <2>1. it \in (1 .. MaxCalls) \X (Nat \ {0}) \X (Nat \ {0})
    BY <1>3, <1>4
  <2> QED
    BY <1>1, <1>3, <2>1, AppendProperties
<1>7. it[1] = call /\ it[2] = header[2] /\ it[3] = n
  OBVIOUS
<1> HIDE DEF it
<1>8. SlotsBehind' /\ SlotsOfHeader'
  <2>1. SlotsBehind'
    <3>1. \A e \in DOMAIN encr : encr[e][1] <= call
      BY DEF TableInv, SlotsBehind
    <3>2. \A e \in DOMAIN encr : encr[e][1] = call =>
            encr[e][2] \in DOMAIN buf.frames /\ buf.frames[encr[e][2]].at < cursor'
      BY <1>4, <1>5, SlotStaysBehind DEF TableInv
    <3> QED
      BY <1>1, <3>1, <3>2 DEF SlotsBehind
  <2>2. SlotsOfHeader'
    BY <1>1, <1>2 DEF TableInv, SlotsOfHeader
  <2> QED
    BY <2>1, <2>2
<1>9. SubFine(L, buf, Here, n) /\ HeaderGood(Here)
  BY <1>1, <1>2 DEF SubGood, SubFine, WalkInv, WalkBegan
<1>10. ASSUME NEW k \in DOMAIN items', items'[k][1] = call
       PROVE  /\ HeaderGood(buf.frames[items'[k][2]])
              /\ SubFine(L, buf, buf.frames[items'[k][2]], items'[k][3])
              /\ k < Len(items') =>
                   SubEnd(L, buf.frames[items'[k][2]].subs[items'[k][3]])
                     <= ElementEnd(buf.frames[items'[k][2]])
  <2>1. CASE k = Len(items) + 1
    BY <1>3, <1>6, <1>7, <1>9, <2>1 DEF Here
  <2>2. CASE k \in DOMAIN items
    <3> DEFINE f == buf.frames[items[k][2]]
    <3>1. items'[k] = items[k] /\ items[k][1] = call
      BY <1>6, <1>10, <2>2
    <3>2. HeaderGood(f) /\ SubFine(L, buf, f, items[k][3])
      BY <2>2, <3>1 DEF TableInv, KeptAreValidated
    <3>3. /\ items[k][2] \in DOMAIN buf.frames /\ items[k][3] \in DOMAIN f.subs
          /\ \/ SubEnd(L, f.subs[items[k][3]]) <= ElementEnd(f)
             \/ items[k][2] = header[2] /\ SubEnd(L, f.subs[items[k][3]]) <= cursor
      BY <1>1, <2>2, <3>1 DEF IInv, ItemsExist, ItemsInside
    <3>4. SubEnd(L, f.subs[items[k][3]]) \in Nat
      <4>1. items[k][2] \in DOMAIN buf.frames /\ items[k][3] \in DOMAIN f.subs
        BY <3>3
      <4>2. \A m \in DOMAIN f.subs : SubEnd(L, f.subs[m]) \in Nat
        BY <1>3, <4>1, LayoutFacts
      <4> QED
        BY <4>1, <4>2
    <3>5. SubEnd(L, f.subs[items[k][3]]) <= ElementEnd(f)
      <4>1. items[k][2] = header[2] => f = Here
        BY DEF Here
      <4>2. \A x, y, z \in Nat : x <= y /\ y < z => x <= z
        OBVIOUS
      <4> HIDE DEF f
      <4> QED
        BY <1>1, <1>3, <3>3, <3>4, <4>1, <4>2
    <3> QED
      BY <3>1, <3>2, <3>5
  <2> QED
    BY <1>3, <1>6, <2>1, <2>2
<1>11. KeptAreValidated'
  <2>1. \A e \in DOMAIN encr : encr[e][1] = call =>
          HeaderGood(buf.frames[encr[e][2]])
            /\ EncryptionFine(L, buf, buf.frames[encr[e][2]], e)
    BY DEF TableInv, KeptAreValidated
  <2> QED
    BY <1>1, <1>2, <1>10, <2>1 DEF KeptAreValidated, HeaderGood
<1> QED
  BY <1>8, <1>11 DEF TableInv

LEMMA OthersLeaveTables ==
  ASSUME IInv, TableInv, UNCHANGED <<reader, buf, cursor, call, items, encr, encs, shown>>,
         phase # "encryptions", phase' # "encryptions", header' \in {header, Null}
  PROVE  TableInv'
<1>1. SlotsBehind' /\ KeptAreValidated'
  BY TablesLeft DEF IInv, TypeOK
<1>2. SlotsOfHeader'
  BY DEF TableInv, SlotsOfHeader, L
<1> QED
  BY <1>1, <1>2 DEF TableInv

\* Nothing that is kept is of a buffer that is yet to come.
LEMMA AgainTables ==
  ASSUME IInv, TableInv, DeserializeAgain
  PROVE  TableInv'
<1>1. /\ call' = call + 1 /\ phase' = "between" /\ phase # "encryptions"
      /\ UNCHANGED <<reader, header, items, encr, encs, shown>>
  BY DEF DeserializeAgain
<1>2. TypeOK /\ NoneFromTheFuture /\ call \in Nat \ {0} /\ MaxCalls \in Nat
  BY LoopFacts DEF IInv
<1>3. \A k \in DOMAIN items : items[k][1] < call'
  <2> SUFFICES ASSUME NEW k \in DOMAIN items PROVE items[k][1] < call'
    OBVIOUS
  <2>1. items[k] \in (1 .. MaxCalls) \X (Nat \ {0}) \X (Nat \ {0})
    BY <1>2 DEF TypeOK
  <2>2. items[k][1] \in Nat
    BY <1>2, <2>1
  <2> QED
    BY <1>1, <1>2, <2>2 DEF NoneFromTheFuture
<1>4. \A e \in DOMAIN encr : encr[e][1] < call'
  <2> SUFFICES ASSUME NEW e \in DOMAIN encr PROVE encr[e][1] < call'
    OBVIOUS
  <2>1. encr[e] \in (1 .. MaxCalls) \X (Nat \ {0})
    BY <1>2 DEF TypeOK
  <2>2. encr[e][1] \in Nat
    BY <1>2, <2>1
  <2> QED
    BY <1>1, <1>2, <2>2 DEF TableInv, SlotsBehind
<1>5. \A k \in DOMAIN items : items[k][1] # call'
  <2>1. \A k \in DOMAIN items : items[k][1] = call' => call' < call'
    BY <1>3
  <2> QED
    BY <1>1, <1>2, <2>1
<1>6. \A e \in DOMAIN encr : encr[e][1] # call' /\ encr[e][1] <= call'
  <2> SUFFICES ASSUME NEW e \in DOMAIN encr PROVE encr[e][1] # call' /\ encr[e][1] <= call'
    OBVIOUS
  <2>1. encr[e] \in (1 .. MaxCalls) \X (Nat \ {0})
    BY <1>2 DEF TypeOK
  <2>2. encr[e][1] \in Nat /\ call' \in Nat
    BY <1>1, <1>2, <2>1
  <2> QED
    BY <1>4, <2>2
<1>7. SlotsBehind' /\ KeptAreValidated'
  BY <1>1, <1>5, <1>6 DEF SlotsBehind, KeptAreValidated
<1>8. SlotsOfHeader'
  BY <1>1 DEF TableInv, SlotsOfHeader, L
<1> QED
  BY <1>7, <1>8 DEF TableInv

LEMMA StepKeepsTableInv == IInv /\ WalkInv /\ TableInv /\ [Next]_vars => TableInv'
<1> SUFFICES ASSUME IInv, WalkInv, TableInv, [Next]_vars PROVE TableInv'
  OBVIOUS
<1>1. CASE \E i \in DOMAIN buf.frames : BeginElement(i)
  BY <1>1, BeginTables
<1>2. CASE ReadEncryption
  BY <1>2, EncryptionInTable
<1>3. CASE EndEncryptions \/ RejectEncryption
  BY <1>3, EncryptionsEndInTable
<1>4. CASE \E n \in DOMAIN Here.subs : ReadSub(n)
  BY <1>4, SubInTable
<1>5. CASE \/ \E i \in DOMAIN buf.frames : RejectElement(i)
           \/ \E n \in DOMAIN Here.subs : RejectSub(n)
           \/ EndElement \/ Finish
  <2>1. /\ phase # "encryptions" /\ phase' # "encryptions" /\ header' \in {header, Null}
        /\ UNCHANGED <<reader, buf, cursor, call, items, encr, encs, shown>>
    BY <1>5 DEF RejectElement, Under, RejectSub, UnderSub, EndElement, Finish
  <2> QED
    BY <2>1, OthersLeaveTables
<1>6. CASE DeserializeAgain
  BY <1>6, AgainTables
<1>7. CASE UNCHANGED vars
  <2>1. /\ Here' = Here /\ L' = L
        /\ UNCHANGED <<reader, buf, cursor, phase, call, header, items, encr, encs, shown>>
    BY <1>7 DEF vars, Here, L
  <2>2. SlotsBehind' /\ KeptAreValidated'
    BY <2>1, TablesLeft DEF IInv, TypeOK
  <2>3. SlotsOfHeader'
    BY <2>1 DEF TableInv, SlotsOfHeader
  <2> QED
    BY <2>2, <2>3 DEF TableInv
<1> QED
  BY <1>1, <1>2, <1>3, <1>4, <1>5, <1>6, <1>7 DEF Next, LoopStep

LEMMA TablesHold == Spec => []TableInv
<1>1. Init => TableInv
  <2>1. DOMAIN <<>> = {} /\ Len(<<>>) = 0
    OBVIOUS
  <2> QED
    BY <2>1 DEF Init, TableInv, SlotsBehind, SlotsOfHeader, KeptAreValidated
<1> QED
  BY <1>1, Invariance, WalkHolds, StepKeepsTableInv, PTL DEF Spec

\* Every sub-element of this buffer that is in the tables has passed the checks
\* of its reader, and all but the last lie in their elements, for all elements,
\* also in the middle of one and after a refusal.
THEOREM KeptSubElementsAreValidated == Spec => []KeptAreValidated
<1>1. TableInv => KeptAreValidated
  BY DEF TableInv
<1> QED
  BY <1>1, TablesHold, PTL

\* The slots GetEncryptions hands out have all been filled from the element of
\* the header that is shown, if and only if the walk of that element did not
\* fail among its encryption sub-elements - whether the header is of this
\* buffer or one that an earlier buffer left behind, accepted or refused.
THEOREM EncryptionsAreFilled == Spec => []EncryptionsCovered
<1>1. IInv /\ TableInv => EncryptionsCovered
  <2> SUFFICES ASSUME IInv, TableInv, ~Walking, L.encryptions > 0, header # Null
               PROVE  shown.torn <=>
                        ~(shown.num <= Len(encr)
                            /\ \A e \in 1 .. shown.num : encr[e] = header)
    BY DEF EncryptionsCovered
  <2>1. /\ encs <= shown.num /\ (shown.torn <=> encs < shown.num)
        /\ \A e \in 1 .. encs : encr[e] = header
        /\ \A e \in encs + 1 .. Len(encr) : encr[e] # header
    BY DEF TableInv, SlotsOfHeader, Walking
  <2>2. /\ encs \in Nat /\ Len(encr) \in Nat /\ encs <= Len(encr) /\ shown.num \in Nat
        /\ shown.torn \in BOOLEAN
    BY LoopFacts DEF IInv, TypeOK
  <2>3. CASE encs = shown.num
    BY <2>1, <2>2, <2>3
  <2>4. CASE encs < shown.num
    <3> SUFFICES ASSUME shown.num <= Len(encr) PROVE encr[encs + 1] # header
      BY <2>1, <2>2, <2>4
    <3>1. encs + 1 \in encs + 1 .. Len(encr)
      BY <2>2, <2>4
    <3> QED
      BY <2>1, <3>1
  <2> QED
    BY <2>1, <2>2, <2>3, <2>4
<1> QED
  BY <1>1, Invariance, TablesHold, PTL
-----------------------------------------------------------------------------
(***************************************************************************)
(* The refinement: what MessageReader sees.                                *)
(***************************************************************************)

Shown == Abstracted[reader][buf]

\* The frame the element under walk is to MessageReader.
Frame == AsFrame(reader, buf, Here)

LEMMA ShownBuffer ==
  ASSUME TypeOK, BufferIsGiven
  PROVE  /\ reader \in Names
         /\ Shown.size = buf.size
         /\ DOMAIN Shown.frames = DOMAIN buf.frames
         /\ \A i \in DOMAIN buf.frames :
              Shown.frames[i] = AsFrame(reader, buf, buf.frames[i])
         /\ Shown \in AbstractBuffers
<1>1. reader \in DOMAIN Readers /\ buf \in Buffers[reader]
  BY DEF TypeOK, Names, BufferIsGiven
<1>2. Shown = AsBuffer(reader, buf)
  BY <1>1 DEF Shown, Abstracted
<1>3. Shown \in AbstractBuffers
  BY <1>1 DEF AbstractBuffers, Shown
<1> QED
  BY <1>1, <1>2, <1>3 DEF AsBuffer, Names

LEMMA ShownReader ==
  ASSUME TypeOK
  PROVE  /\ OneStep!Handled = {reader}
         /\ OneStep!Kind(reader) = "nested"
         /\ AsElements[reader].minLen = L.fixed /\ AsElements[reader].maxLen = MaxLength
         /\ AsElements[reader].cap = L.cap /\ AsElements[reader].resets = L.resets
         /\ AsElements[reader].byHeader = L.byHeader
         /\ OneStep!HasRoom(reader)
<1>1. AsElements[reader] = AsElement(reader)
  BY DEF TypeOK, AsElements
<1>2. OneStep!Kind(reader) = "nested"
  BY <1>1 DEF AsElement, OneStep!Kind
<1>3. OneStep!Handled = {reader}
  BY DEF OneStep!Handled, AsMessage
<1>4. OneStep!HasRoom(reader)
  BY <1>2 DEF OneStep!HasRoom
<1> QED
  BY <1>1, <1>2, <1>3, <1>4 DEF AsElement, L

LEMMA ShownFrame ==
  ASSUME NEW f
  PROVE  /\ AsFrame(reader, buf, f).type = reader
         /\ AsFrame(reader, buf, f).at = f.at
         /\ AsFrame(reader, buf, f).len = f.len
         /\ AsFrame(reader, buf, f).ok = f.valid
         /\ ~Encrypted(L, buf, f) =>
              /\ AsFrame(reader, buf, f).body = "early"
              /\ AsFrame(reader, buf, f).stop[1] =
                   BodyStart(L, f) + EncryptionSize * GoodEncryptions(L, buf, f) - f.at
         /\ Encrypted(L, buf, f) =>
              /\ AsFrame(reader, buf, f).body =
                   (IF Complete(L, buf, f) THEN "ok" ELSE "late")
              /\ AsFrame(reader, buf, f).subs = GoodSubs(L, buf, f)
              /\ \A n \in 1 .. GoodSubs(L, buf, f) + 1 :
                   AsFrame(reader, buf, f).stop[n] = AfterSubs(L, f, n - 1) - f.at
<1>1. CASE Encrypted(L, buf, f)
  <2> DEFINE body == IF Complete(L, buf, f) THEN "ok" ELSE "late"
             stop == [n \in 1 .. GoodSubs(L, buf, f) + 1 |-> AfterSubs(L, f, n - 1) - f.at]
  <2>1. AsFrame(reader, buf, f) =
          [type |-> reader, at |-> f.at, len |-> f.len, ok |-> f.valid,
           body |-> body, subs |-> GoodSubs(L, buf, f), stop |-> stop]
    BY <1>1 DEF AsFrame, L
  <2> QED
    BY <1>1, <2>1
<1>2. CASE ~Encrypted(L, buf, f)
  <2> DEFINE stop == <<BodyStart(L, f) + EncryptionSize * GoodEncryptions(L, buf, f) - f.at>>
  <2>1. AsFrame(reader, buf, f) =
          [type |-> reader, at |-> f.at, len |-> f.len, ok |-> f.valid,
           body |-> "early", subs |-> 0, stop |-> stop]
    BY <1>2 DEF AsFrame, L
  <2> QED
    BY <1>2, <2>1
<1> QED
  BY <1>1, <1>2

LEMMA SameHeaderCheck ==
  ASSUME TypeOK, BufferIsGiven, NEW i \in DOMAIN buf.frames
  PROVE  OneStep!HeaderOk(AsFrame(reader, buf, buf.frames[i])) <=> HeaderGood(buf.frames[i])
<1> DEFINE f == buf.frames[i]
           F == AsFrame(reader, buf, f)
<1>1. F.type = reader /\ F.at = f.at /\ F.len = f.len /\ F.ok = f.valid
  BY ShownFrame
<1>2. /\ AsElements[reader].minLen = L.fixed /\ AsElements[reader].maxLen = MaxLength
      /\ Shown.size = buf.size
  BY ShownReader, ShownBuffer
<1>3. f.len <= MaxLength
  <2>1. f \in Element
    BY LoopFacts, LayoutFacts
  <2>2. f.len \in 0 .. MaxLength
    BY <2>1, Zenon DEF Element
  <2> QED
    BY <2>2
<1> HIDE DEF f, F
<1>4. OneStep!FrameEnd(F) = ElementEnd(f)
  BY <1>1 DEF OneStep!FrameEnd, OneStep!HeaderSize, ElementEnd, HeaderSize
<1>5. OneStep!HeaderOk(F) <=>
        F.len >= L.fixed /\ F.len <= MaxLength /\ F.ok /\ ElementEnd(f) <= buf.size
  BY <1>1, <1>2, <1>4 DEF OneStep!HeaderOk, OneStep!Fits, Shown
<1>6. OneStep!HeaderOk(F) <=> HeaderGood(f)
  BY <1>1, <1>3, <1>5 DEF HeaderGood
<1> QED
  BY <1>6 DEF f, F

\* While an element is walked over MessageReader is still in front of it.
LEMMA InFront ==
  ASSUME IInv, WalkInv, Walking
  PROVE  /\ OneStep!Under(header[2])
         /\ Shown.frames[header[2]] = Frame /\ header[2] \in DOMAIN Shown.frames
         /\ Frame.type = reader /\ Frame.at = Here.at
         /\ OneStep!HeaderOk(Frame)
         /\ SeenStore[reader] = ElementsOf(saved.items)
<1>1. /\ saved.cursor = Here.at /\ saved.cursor + HeaderSize <= buf.size
      /\ HeaderGood(Here)
  BY DEF WalkInv, WalkBegan
<1>2. SeenPhase = "reading" /\ Seen = saved
  BY DEF SeenPhase, Seen
<1>3. TypeOK /\ BufferIsGiven /\ header[2] \in DOMAIN buf.frames
  BY WalkFacts DEF IInv, WalkInv
<1>4. /\ Shown.frames[header[2]] = Frame /\ header[2] \in DOMAIN Shown.frames
      /\ Shown.size = buf.size /\ reader \in Names
  BY <1>3, ShownBuffer DEF Frame, Here
<1>5. Frame.type = reader /\ Frame.at = Here.at
  BY ShownFrame DEF Frame
<1>6. OneStep!Under(header[2])
  BY <1>1, <1>2, <1>4, <1>5 DEF OneStep!Under, Shown, OneStep!HeaderSize, HeaderSize
<1>7. OneStep!HeaderOk(Frame)
  BY <1>1, <1>3, SameHeaderCheck DEF Frame, Here
<1>8. SeenStore[reader] = ElementsOf(saved.items)
  BY <1>2, <1>4 DEF SeenStore
<1> QED
  BY <1>4, <1>5, <1>6, <1>7, <1>8

Pointer3 == (1 .. MaxCalls) \X (Nat \ {0}) \X (Nat \ {0})
Pointer2 == (1 .. MaxCalls) \X (Nat \ {0})

LEMMA ElementsOfFacts ==
  ASSUME NEW its \in Seq(Pointer3)
  PROVE  /\ ElementsOf(its) \in Seq(Pointer2)
         /\ Len(ElementsOf(its)) = Len(its) /\ Len(its) \in Nat
         /\ \A k \in 1 .. Len(its) : ElementsOf(its)[k] = <<its[k][1], its[k][2]>>
<1>1. DOMAIN its = 1 .. Len(its) /\ Len(its) \in Nat
  OBVIOUS
<1>2. \A k \in 1 .. Len(its) : <<its[k][1], its[k][2]>> \in Pointer2
  <2> SUFFICES ASSUME NEW k \in 1 .. Len(its) PROVE <<its[k][1], its[k][2]>> \in Pointer2
    OBVIOUS
  <2>1. its[k] \in Pointer3
    BY <1>1
  <2> QED
    BY <2>1 DEF Pointer3, Pointer2
<1>3. ElementsOf(its) = [k \in 1 .. Len(its) |-> <<its[k][1], its[k][2]>>]
  BY <1>1 DEF ElementsOf
<1>4. ElementsOf(its) \in Seq(Pointer2)
  BY <1>1, <1>2, <1>3
<1>5. Len(ElementsOf(its)) = Len(its)
  <2>1. DOMAIN ElementsOf(its) = 1 .. Len(its)
    BY <1>3
  <2> QED
    BY <1>1, <1>4, <2>1
<1> QED
  BY <1>1, <1>3, <1>4, <1>5

\* When an element has been walked over, the state as it was before gives way
\* to what there is now.
LEMMA NowSeen ==
  ASSUME IInv, WalkInv, Walking, ~Walking',
         UNCHANGED <<reader, buf, cursor, call, header, items>>
  PROVE  /\ Seen'.cursor = cursor
         /\ SeenHeader' = [SeenHeader EXCEPT ![reader] = <<call, header[2]>>]
         /\ SeenStore' = [SeenStore EXCEPT ![reader] = ElementsOf(items)]
         /\ UNCHANGED <<AsMessage(reader), Shown, call>>
<1>1. Seen' = [cursor |-> cursor', header |-> header', items |-> items']
  BY DEF Seen
<1>2. Seen'.cursor = cursor /\ Seen'.header = header /\ Seen'.items = items
  BY <1>1
<1>3. header = <<call, header[2]>> /\ reader \in Names
  BY WalkFacts DEF IInv, TypeOK
<1>4. SeenHeader' = [r \in Names |-> IF r = reader THEN <<call, header[2]>> ELSE Null]
  BY <1>2, <1>3 DEF SeenHeader, Names, Null
<1>5. SeenStore' = [r \in Names |-> IF r = reader THEN ElementsOf(items) ELSE <<>>]
  BY <1>2 DEF SeenStore, Names, ElementsOf
<1>6. SeenHeader' = [SeenHeader EXCEPT ![reader] = <<call, header[2]>>]
  BY <1>3, <1>4 DEF SeenHeader
<1>7. SeenStore' = [SeenStore EXCEPT ![reader] = ElementsOf(items)]
  BY <1>3, <1>5 DEF SeenStore
<1>8. UNCHANGED <<AsMessage(reader), Shown, call>>
  BY DEF AsMessage, Shown, Abstracted
<1> QED
  BY <1>2, <1>6, <1>7, <1>8

\* Every way to fail within an element is the one step of MessageReader.
LEMMA RejectedInBody ==
  ASSUME IInv, WalkInv, Walking, phase' = "rejected",
         UNCHANGED <<reader, buf, cursor, call, header, items>>,
         ~OneStep!BodyOk(Frame),
         cursor = Here.at + Frame.stop[OneStep!Stored(Frame) + 1],
         ElementsOf(items) = OneStep!WithSubs(Frame, header[2])
  PROVE  OneStep!RejectBody(header[2])
<1>1. ~Walking' /\ SeenPhase' = "rejected"
  BY DEF Walking, SeenPhase
<1>2. /\ OneStep!Under(header[2]) /\ Shown.frames[header[2]] = Frame
      /\ Frame.type = reader /\ Frame.at = Here.at /\ OneStep!HeaderOk(Frame)
  BY InFront
<1>3. /\ OneStep!Handled = {reader} /\ OneStep!Kind(reader) = "nested"
      /\ OneStep!HasRoom(reader)
  BY ShownReader DEF IInv
<1>4. /\ Seen'.cursor = cursor
      /\ SeenHeader' = [SeenHeader EXCEPT ![reader] = <<call, header[2]>>]
      /\ SeenStore' = [SeenStore EXCEPT ![reader] = ElementsOf(items)]
      /\ UNCHANGED <<AsMessage(reader), Shown, call>>
  BY <1>1, NowSeen
<1>5. OneStep!Pointer(header[2]) = <<call, header[2]>>
  BY DEF OneStep!Pointer
<1> QED
  BY <1>1, <1>2, <1>3, <1>4, <1>5 DEF OneStep!RejectBody, Shown

LEMMA TakenAsNested ==
  ASSUME IInv, WalkInv, Walking, phase' = "between",
         UNCHANGED <<reader, buf, cursor, call, header, items>>,
         OneStep!BodyOk(Frame), cursor = ElementEnd(Here),
         ElementsOf(items) = OneStep!WithSubs(Frame, header[2])
  PROVE  OneStep!ReadNested(header[2])
<1>1. ~Walking' /\ SeenPhase' = "reading" /\ SeenPhase = "reading"
  BY DEF Walking, SeenPhase
<1>2. /\ OneStep!Under(header[2]) /\ Shown.frames[header[2]] = Frame
      /\ Frame.type = reader /\ Frame.at = Here.at /\ OneStep!HeaderOk(Frame)
  BY InFront
<1>3. OneStep!Handled = {reader} /\ OneStep!Kind(reader) = "nested"
  BY ShownReader DEF IInv
<1>4. /\ Seen'.cursor = cursor
      /\ SeenHeader' = [SeenHeader EXCEPT ![reader] = <<call, header[2]>>]
      /\ SeenStore' = [SeenStore EXCEPT ![reader] = ElementsOf(items)]
      /\ UNCHANGED <<AsMessage(reader), Shown, call>>
  BY <1>1, NowSeen
<1>5. OneStep!Pointer(header[2]) = <<call, header[2]>>
  BY DEF OneStep!Pointer
<1>6. OneStep!FrameEnd(Frame) = ElementEnd(Here)
  BY ShownFrame DEF Frame, OneStep!FrameEnd, OneStep!HeaderSize, ElementEnd, HeaderSize
<1> QED
  BY <1>1, <1>2, <1>3, <1>4, <1>5, <1>6 DEF OneStep!ReadNested, Shown

\* A body that fails before sub-elements are counted leaves what there was.
LEMMA EarlyBody ==
  ASSUME IInv, WalkInv, phase = "encryptions",
         \/ ~MoreEncryptions
         \/ MoreEncryptions /\ ~EncryptionGood,
         ~Encrypted(L, buf, Here)
  PROVE  /\ ~OneStep!BodyOk(Frame)
         /\ cursor = Here.at + Frame.stop[OneStep!Stored(Frame) + 1]
         /\ ElementsOf(items) = OneStep!WithSubs(Frame, header[2])
<1>1. Walking
  BY DEF Walking
<1>2. /\ Frame.type = reader /\ Frame.body = "early"
      /\ Frame.stop[1] =
           BodyStart(L, Here) + EncryptionSize * GoodEncryptions(L, buf, Here) - Here.at
  BY ShownFrame DEF Frame
<1>3. OneStep!Stored(Frame) = 0 /\ ~OneStep!BodyOk(Frame)
  BY <1>2 DEF OneStep!Stored, OneStep!BodyOk
<1>4. GoodEncryptions(L, buf, Here) = encs /\ L.encryptions > 0
  BY EncryptionsCounted
<1>5. /\ cursor = BodyStart(L, Here) + EncryptionSize * encs /\ items = saved.items
  BY DEF WalkInv, EncryptionsSoFar
<1>6. cursor = Here.at + Frame.stop[1]
  <2>1. Frame.stop[1] = cursor - Here.at
    <3>1. Frame.stop[1] = BodyStart(L, Here) + (EncryptionSize * encs - Here.at)
      BY <1>2, <1>4, Zenon
    <3>2. BodyStart(L, Here) \in Nat /\ encs \in Nat /\ Here.at \in Nat
      BY <1>1, WalkFacts
    <3>3. EncryptionSize * encs \in Nat
      BY <3>2 DEF EncryptionSize
    <3>4. \A a, b, c \in Nat : a + (b - c) = (a + b) - c
      OBVIOUS
    <3>5. Frame.stop[1] = (BodyStart(L, Here) + EncryptionSize * encs) - Here.at
      BY <3>1, <3>2, <3>3, <3>4, Zenon
    <3> QED
      BY <1>5, <3>5, Zenon
  <2>2. cursor \in Nat /\ Here.at \in Nat
    BY <1>1, WalkFacts
  <2> QED
    BY <2>1, <2>2
<1>7. OneStep!Kept(Frame) = ElementsOf(items)
  <2>1. L.resets = "late"
    BY <1>1, <1>4, WalkFacts DEF IsLoop
  <2>2. AsElements[reader].resets = "late"
    BY <2>1, ShownReader DEF IInv
  <2> QED
    BY <1>1, <1>2, <1>5, <2>2, InFront DEF OneStep!Kept
<1>8. OneStep!WithSubs(Frame, header[2]) = ElementsOf(items)
  <2>1. items \in Seq(Pointer3)
    BY DEF IInv, TypeOK, Pointer3
  <2>2. ElementsOf(items) \in Seq(Pointer2)
    BY <2>1, ElementsOfFacts
  <2>3. OneStep!WithSubs(Frame, header[2]) =
          ElementsOf(items) \o [k \in 1 .. 0 |-> OneStep!Pointer(header[2])]
    BY <1>3, <1>7 DEF OneStep!WithSubs
  <2>4. [k \in 1 .. 0 |-> OneStep!Pointer(header[2])] = <<>>
    OBVIOUS
  <2> QED
    BY <2>2, <2>3, <2>4
<1> QED
  BY <1>3, <1>6, <1>8

\* How many sub-elements are good, when the first n are and the next is not;
\* and at least how many, whatever the next is.
LEMMA GoodSubsFacts ==
  ASSUME NEW f, Len(f.subs) \in Nat, NEW n \in 0 .. Len(f.subs),
         \A k \in 1 .. n : SubFine(L, buf, f, k)
  PROVE  /\ GoodSubs(L, buf, f) \in n .. Len(f.subs)
         /\ n = Len(f.subs) \/ ~SubFine(L, buf, f, n + 1) => GoodSubs(L, buf, f) = n
<1> DEFINE T == {m \in 0 .. Len(f.subs) : \A k \in 1 .. m : SubFine(L, buf, f, k)}
<1>1. GoodSubs(L, buf, f) = Max(T) /\ n \in T /\ T \in SUBSET Nat
  BY DEF GoodSubs
<1>2. \A m \in T : m \in 0 .. Len(f.subs) /\ \A k \in 1 .. m : SubFine(L, buf, f, k)
  OBVIOUS
<1> HIDE DEF T
<1>3. GoodSubs(L, buf, f) \in n .. Len(f.subs)
  <2>1. T # {} /\ \A m \in T : m <= Len(f.subs)
    BY <1>1, <1>2
  <2>2. Max(T) \in T /\ n <= Max(T)
    BY <1>1, <2>1, GreatestElement
  <2>3. Max(T) \in 0 .. Len(f.subs)
    BY <1>2, <2>2, Zenon
  <2>4. Max(T) \in n .. Len(f.subs)
    BY <2>2, <2>3
  <2> QED
    BY <1>1, <2>4
<1>4. ASSUME n = Len(f.subs) \/ ~SubFine(L, buf, f, n + 1)
      PROVE  GoodSubs(L, buf, f) = n
  <2>1. ASSUME NEW m \in T PROVE m <= n
    <3>1. m \in 0 .. Len(f.subs) /\ \A k \in 1 .. m : SubFine(L, buf, f, k)
      BY <1>2
    <3>2. n < m => n + 1 \in 1 .. m /\ n # Len(f.subs)
      BY <3>1
    <3> QED
      BY <1>4, <3>1, <3>2
  <2> QED
    BY <1>1, <2>1, MaxIs
<1> QED
  BY <1>3, <1>4

\* As far as sub-elements are good they are all stored, or as many as there is
\* room for, behind what is kept.
LEMMA LateBody ==
  ASSUME IInv, WalkInv, phase = "subs", NEW n \in 0 .. Len(Here.subs),
         Continues(items, Base, n), cursor = AfterSubs(L, Here, n),
         \A k \in 1 .. n : SubFine(L, buf, Here, k)
  PROVE  /\ Frame.body = (IF Complete(L, buf, Here) THEN "ok" ELSE "late")
         /\ Frame.subs = GoodSubs(L, buf, Here)
         /\ GoodSubs(L, buf, Here) \in n .. Len(Here.subs)
         /\ cursor = Here.at + Frame.stop[n + 1]
         /\ OneStep!BodyOk(Frame) <=>
              Complete(L, buf, Here) /\ OneStep!Stored(Frame) = GoodSubs(L, buf, Here)
         /\ Len(items) = Len(Base) + n /\ Len(Base) \in Nat
         /\ OneStep!Stored(Frame) = (IF GoodSubs(L, buf, Here) <= L.cap - Len(Base)
                                       THEN GoodSubs(L, buf, Here) ELSE L.cap - Len(Base))
         /\ OneStep!Stored(Frame) = n =>
              ElementsOf(items) = OneStep!WithSubs(Frame, header[2])
<1>1. Walking
  BY DEF Walking
<1>2. Encrypted(L, buf, Here)
  BY DEF WalkInv, SubsSoFar
<1>3. /\ Frame.type = reader
      /\ Frame.body = (IF Complete(L, buf, Here) THEN "ok" ELSE "late")
      /\ Frame.subs = GoodSubs(L, buf, Here)
      /\ \A m \in 1 .. GoodSubs(L, buf, Here) + 1 :
           Frame.stop[m] = AfterSubs(L, Here, m - 1) - Here.at
  BY <1>2, ShownFrame DEF Frame
<1>4. /\ Len(Here.subs) \in Nat /\ cursor \in Nat /\ Here.at \in Nat /\ L.cap \in Nat
      /\ call \in Nat /\ IsLoop(L)
  BY <1>1, WalkFacts
<1>5. GoodSubs(L, buf, Here) \in n .. Len(Here.subs)
  BY <1>4, GoodSubsFacts
<1>6. cursor = Here.at + Frame.stop[n + 1]
  <2>1. n + 1 \in 1 .. GoodSubs(L, buf, Here) + 1 /\ (n + 1) - 1 = n
    BY <1>4, <1>5
  <2>2. Frame.stop[n + 1] = cursor - Here.at
    BY <1>3, <2>1
  <2> QED
    BY <1>4, <2>2
<1>7. Base \in Seq(Pointer3) /\ Len(Base) \in Nat /\ items \in Seq(Pointer3)
  BY <1>1, BaseIsSeq DEF IInv, TypeOK, Pointer3
<1>8. /\ OneStep!Kind(reader) = "nested" /\ AsElements[reader].cap = L.cap
      /\ AsElements[reader].resets = L.resets
  BY ShownReader DEF IInv
<1>9. /\ OneStep!BodyOk(Frame) <=>
           Complete(L, buf, Here) /\ OneStep!Stored(Frame) = GoodSubs(L, buf, Here)
  BY <1>3, <1>8 DEF OneStep!BodyOk
<1>10. OneStep!Kept(Frame) = ElementsOf(Base)
  <2>1. ElementsOf(<<>>) = <<>>
    BY DEF ElementsOf
  <2>2. SeenStore[reader] = ElementsOf(saved.items)
    BY <1>1, InFront
  <2>3. Frame.body # "early" /\ L.resets \in {"never", "start", "late"}
    BY <1>3, <1>4 DEF IsLoop
  <2> QED
    BY <1>3, <1>8, <2>1, <2>2, <2>3 DEF OneStep!Kept, Base
<1>11. /\ Len(items) = Len(Base) + n
       /\ \A k \in 1 .. Len(Base) : items[k] = Base[k]
       /\ \A k \in 1 .. n : items[Len(Base) + k] = <<call, header[2], k>>
  BY DEF Continues
<1>12. /\ ElementsOf(Base) \in Seq(Pointer2) /\ Len(ElementsOf(Base)) = Len(Base)
       /\ \A k \in 1 .. Len(Base) : ElementsOf(Base)[k] = <<Base[k][1], Base[k][2]>>
       /\ ElementsOf(items) \in Seq(Pointer2) /\ Len(ElementsOf(items)) = Len(items)
       /\ \A k \in 1 .. Len(items) : ElementsOf(items)[k] = <<items[k][1], items[k][2]>>
  BY <1>7, ElementsOfFacts
<1>13. OneStep!Stored(Frame) = (IF GoodSubs(L, buf, Here) <= L.cap - Len(Base)
                                  THEN GoodSubs(L, buf, Here) ELSE L.cap - Len(Base))
  <2>1. Frame.body # "early"
    BY <1>3
  <2> QED
    BY <1>3, <1>8, <1>10, <1>12, <2>1 DEF OneStep!Stored
<1>14. ASSUME OneStep!Stored(Frame) = n
       PROVE  ElementsOf(items) = OneStep!WithSubs(Frame, header[2])
  <2> DEFINE more == [k \in 1 .. n |-> <<call, header[2]>>]
  <2>1. OneStep!WithSubs(Frame, header[2]) = ElementsOf(Base) \o more
    BY <1>10, <1>14 DEF OneStep!WithSubs, OneStep!Pointer
  <2>2. <<call, header[2]>> \in Pointer2
    <3>1. call \in 1 .. MaxCalls /\ WellLaidOut(L, buf) /\ header[2] \in DOMAIN buf.frames
      BY <1>1, WalkFacts DEF IInv, TypeOK
    <3>2. header[2] \in Nat \ {0}
      BY <3>1 DEF WellLaidOut
    <3> QED
      BY <3>1, <3>2 DEF Pointer2
  <2>3. n \in Nat /\ more \in Seq(Pointer2) /\ Len(more) = n
        /\ \A k \in 1 .. n : more[k] = <<call, header[2]>>
    BY <2>2
  <2> HIDE DEF more
  <2>4. /\ ElementsOf(Base) \o more \in Seq(Pointer2)
        /\ Len(ElementsOf(Base) \o more) = Len(Base) + n
        /\ \A k \in 1 .. Len(Base) + n : (ElementsOf(Base) \o more)[k] =
             IF k <= Len(Base) THEN ElementsOf(Base)[k] ELSE more[k - Len(Base)]
    <3>1. /\ ElementsOf(Base) \o more \in Seq(Pointer2)
          /\ Len(ElementsOf(Base) \o more) = Len(ElementsOf(Base)) + Len(more)
          /\ \A k \in 1 .. Len(ElementsOf(Base)) + Len(more) :
               (ElementsOf(Base) \o more)[k] =
                 IF k <= Len(ElementsOf(Base)) THEN ElementsOf(Base)[k]
                                               ELSE more[k - Len(ElementsOf(Base))]
      BY <1>12, <2>3, ConcatProperties
    <3>2. Len(ElementsOf(Base)) = Len(Base) /\ Len(more) = n
      BY <1>12, <2>3
    <3> QED
      BY <3>1, <3>2, Zenon
  <2>5. ASSUME NEW k \in 1 .. Len(items)
        PROVE  ElementsOf(items)[k] = (ElementsOf(Base) \o more)[k]
    <3>1. CASE k \in 1 .. Len(Base)
      <4>1. items[k] = Base[k] /\ k <= Len(Base) /\ k \in 1 .. Len(Base) + n
        BY <1>7, <1>11, <3>1
      <4> QED
        BY <1>12, <2>4, <3>1, <4>1
    <3>2. CASE k \notin 1 .. Len(Base)
      <4>1. /\ k - Len(Base) \in 1 .. n /\ Len(Base) + (k - Len(Base)) = k
            /\ ~(k <= Len(Base)) /\ k \in 1 .. Len(Base) + n
        BY <1>7, <1>11, <3>2
      <4>2. items[k] = <<call, header[2], k - Len(Base)>>
        BY <1>11, <4>1
      <4>3. ElementsOf(items)[k] = <<call, header[2]>>
        BY <1>12, <4>2
      <4> QED
        BY <2>3, <2>4, <4>1, <4>3
    <3> QED
      BY <3>1, <3>2
  <2> QED
    BY <1>11, <1>12, <2>1, <2>4, <2>5, SeqEqual
<1> QED
  BY <1>3, <1>5, <1>6, <1>7, <1>9, <1>11, <1>13, <1>14

LEMMA SubRefused ==
  ASSUME IInv, WalkInv, NEW m \in DOMAIN Here.subs, RejectSub(m)
  PROVE  OneStep!RejectBody(header[2])
<1>1. /\ phase = "subs" /\ Here.subs[m].at = cursor /\ ~SubGood(m)
      /\ phase' = "rejected" /\ UNCHANGED <<reader, buf, cursor, call, header, items>>
  BY DEF RejectSub, UnderSub
<1>2. Walking
  BY <1>1 DEF Walking
<1>3. PICK n \in 0 .. Len(Here.subs) :
        /\ Continues(items, Base, n)
        /\ cursor = AfterSubs(L, Here, n)
        /\ \A k \in 1 .. n : SubFine(L, buf, Here, k)
  BY <1>1 DEF WalkInv, SubsSoFar
<1>4. /\ Len(Here.subs) \in Nat /\ DOMAIN Here.subs = 1 .. Len(Here.subs) /\ L.cap \in Nat
  BY <1>2, WalkFacts
<1>5. m = n + 1 /\ n + 1 \in 0 .. Len(Here.subs) /\ n \in Nat /\ n # Len(Here.subs)
  <2>1. m \in 1 .. Len(Here.subs) /\ Here.subs[m].at = AfterSubs(L, Here, n)
    BY <1>1, <1>3, <1>4
  <2>2. m = n + 1
    BY <1>2, <2>1, SubsAhead
  <2> QED
    BY <1>4, <2>1, <2>2
<1> DEFINE good == GoodSubs(L, buf, Here)
<1>6. /\ good \in n .. Len(Here.subs)
      /\ cursor = Here.at + Frame.stop[n + 1]
      /\ OneStep!BodyOk(Frame) <=>
           Complete(L, buf, Here) /\ OneStep!Stored(Frame) = good
      /\ Len(items) = Len(Base) + n /\ Len(Base) \in Nat
      /\ OneStep!Stored(Frame) =
           (IF good <= L.cap - Len(Base) THEN good ELSE L.cap - Len(Base))
      /\ OneStep!Stored(Frame) = n =>
           ElementsOf(items) = OneStep!WithSubs(Frame, header[2])
  BY <1>1, <1>3, LateBody
<1>7. Complete(L, buf, Here) => good = Len(Here.subs)
  BY DEF Complete
<1>8. Len(items) <= L.cap
  BY DEF IInv, TypeOK
<1>9. OneStep!Stored(Frame) = n /\ ~OneStep!BodyOk(Frame)
  <2>1. CASE ~SubFine(L, buf, Here, m)
    <3>1. good = n
      BY <1>3, <1>4, <1>5, <2>1, GoodSubsFacts
    <3> HIDE DEF good
    <3> QED
      BY <1>4, <1>5, <1>6, <1>7, <1>8, <3>1
  <2>2. CASE SubFine(L, buf, Here, m)
    <3>1. \A k \in 1 .. n + 1 : SubFine(L, buf, Here, k)
      <4>1. \A k \in 1 .. n + 1 : k \in 1 .. n \/ k = m
        BY <1>5
      <4> QED
        BY <1>3, <2>2, <4>1
    <3>2. good \in n + 1 .. Len(Here.subs)
      BY <1>4, <1>5, <3>1, GoodSubsFacts
    <3>3. ~HasRoom
      BY <1>1, <2>2 DEF SubGood, SubFine
    <3> HIDE DEF good
    <3>4. L.cap - Len(Base) = n
      BY <1>4, <1>5, <1>6, <1>8, <3>3 DEF HasRoom
    <3> QED
      BY <1>4, <1>5, <1>6, <3>2, <3>4
  <2> QED
    BY <2>1, <2>2
<1> QED
  BY <1>1, <1>2, <1>6, <1>9, RejectedInBody

LEMMA ElementEnded ==
  ASSUME IInv, WalkInv, EndElement
  PROVE  OneStep!ReadNested(header[2]) \/ OneStep!RejectBody(header[2])
<1>1. /\ phase = "subs" /\ cursor >= ElementEnd(Here)
      /\ phase' = (IF cursor = ElementEnd(Here) /\ L.needs \subseteq found
                     THEN "between" ELSE "rejected")
      /\ UNCHANGED <<reader, buf, cursor, call, header, items>>
  BY DEF EndElement
<1>2. Walking
  BY <1>1 DEF Walking
<1>3. PICK n \in 0 .. Len(Here.subs) :
        /\ Continues(items, Base, n)
        /\ cursor = AfterSubs(L, Here, n)
        /\ \A k \in 1 .. n : SubFine(L, buf, Here, k)
        /\ found = {Here.subs[k].type : k \in 1 .. n}
  BY <1>1 DEF WalkInv, SubsSoFar
<1>4. /\ Len(Here.subs) \in Nat /\ DOMAIN Here.subs = 1 .. Len(Here.subs) /\ L.cap \in Nat
      /\ cursor \in Nat /\ ElementEnd(Here) \in Nat
  BY <1>2, WalkFacts
<1>5. n = Len(Here.subs)
  <2> SUFFICES ASSUME n # Len(Here.subs) PROVE FALSE
    OBVIOUS
  <2>1. n + 1 \in 1 .. Len(Here.subs) /\ (n + 1) - 1 = n
    BY <1>4
  <2>2. Here.subs[n + 1].at = cursor /\ Here.subs[n + 1].at < ElementEnd(Here)
    BY <1>2, <1>3, <2>1, SubsAhead
  <2> QED
    BY <1>1, <1>4, <2>2
<1> DEFINE good == GoodSubs(L, buf, Here)
<1>6. good = n
  BY <1>3, <1>4, <1>5, GoodSubsFacts
<1>7. /\ cursor = Here.at + Frame.stop[n + 1]
      /\ OneStep!BodyOk(Frame) <=>
           Complete(L, buf, Here) /\ OneStep!Stored(Frame) = good
      /\ Len(items) = Len(Base) + n /\ Len(Base) \in Nat
      /\ OneStep!Stored(Frame) =
           (IF good <= L.cap - Len(Base) THEN good ELSE L.cap - Len(Base))
      /\ OneStep!Stored(Frame) = n =>
           ElementsOf(items) = OneStep!WithSubs(Frame, header[2])
  BY <1>1, <1>3, LateBody
<1>8. OneStep!Stored(Frame) = n
  <2>1. Len(items) <= L.cap
    BY DEF IInv, TypeOK
  <2> HIDE DEF good
  <2> QED
    BY <1>4, <1>6, <1>7, <2>1
<1>9. Complete(L, buf, Here) <=> cursor = ElementEnd(Here) /\ L.needs \subseteq found
  BY <1>3, <1>4, <1>5, <1>6 DEF Complete
<1>10. CASE Complete(L, buf, Here)
  BY <1>1, <1>2, <1>6, <1>7, <1>8, <1>9, <1>10, TakenAsNested
<1>11. CASE ~Complete(L, buf, Here)
  BY <1>1, <1>2, <1>6, <1>7, <1>8, <1>9, <1>11, RejectedInBody
<1> QED
  BY <1>10, <1>11

\* What an outsider does not see is no step.
LEMMA NotSeen ==
  ASSUME Seen' = Seen, SeenPhase' = SeenPhase, UNCHANGED <<reader, buf, call>>
  PROVE  UNCHANGED OneStep!vars
<1>1. SeenStore' = SeenStore /\ SeenHeader' = SeenHeader
  BY DEF SeenStore, SeenHeader, ElementsOf, Names, Null
<1>2. AsMessage(reader)' = AsMessage(reader) /\ Abstracted[reader][buf]' = Abstracted[reader][buf]
  BY DEF AsMessage, Abstracted
<1> QED
  BY <1>1, <1>2 DEF OneStep!vars

LEMMA BeginNotSeen ==
  ASSUME NEW i \in DOMAIN buf.frames, BeginElement(i)
  PROVE  UNCHANGED OneStep!vars
<1>1. /\ phase = "between" /\ phase' \in {"encryptions", "subs"}
      /\ saved' = [cursor |-> cursor, header |-> header, items |-> items]
      /\ UNCHANGED <<reader, buf, call>>
  BY DEF BeginElement, Under
<1>2. Seen' = Seen /\ SeenPhase' = SeenPhase
  BY <1>1 DEF Seen, SeenPhase, Walking
<1> QED
  BY <1>1, <1>2, NotSeen

LEMMA WalkNotSeen ==
  ASSUME Walking, Walking', UNCHANGED <<reader, buf, call, saved>>
  PROVE  UNCHANGED OneStep!vars
<1>1. Seen' = Seen /\ SeenPhase' = SeenPhase
  BY DEF Seen, SeenPhase
<1> QED
  BY <1>1, NotSeen

LEMMA HeaderRefused ==
  ASSUME IInv, WalkInv, NEW i \in DOMAIN buf.frames, RejectElement(i)
  PROVE  OneStep!RejectHeader(i)
<1>1. /\ phase = "between" /\ cursor + HeaderSize <= buf.size
      /\ buf.frames[i].at = cursor /\ ~HeaderGood(buf.frames[i])
      /\ header' = Null /\ phase' = "rejected"
      /\ UNCHANGED <<reader, buf, cursor, call, items>>
  BY DEF RejectElement, Under
<1>2. /\ Seen = [cursor |-> cursor, header |-> header, items |-> items]
      /\ Seen' = [cursor |-> cursor, header |-> Null, items |-> items]
      /\ SeenPhase = "reading" /\ SeenPhase' = "rejected"
  BY <1>1 DEF Seen, SeenPhase, Walking, Null
<1>3. /\ TypeOK /\ BufferIsGiven /\ reader \in Names
  BY DEF IInv, WalkInv, TypeOK
<1> DEFINE F == AsFrame(reader, buf, buf.frames[i])
<1>4. /\ Shown.frames[i] = F /\ Shown.size = buf.size /\ i \in DOMAIN Shown.frames
  BY <1>3, ShownBuffer
<1>5. F.type = reader /\ F.at = cursor /\ ~OneStep!HeaderOk(F)
  BY <1>1, <1>3, ShownFrame, SameHeaderCheck
<1>6. OneStep!Handled = {reader} /\ OneStep!Kind(reader) = "nested"
  BY <1>3, ShownReader
<1>7. OneStep!Under(i)
  BY <1>1, <1>2, <1>4, <1>5 DEF OneStep!Under, Shown, OneStep!HeaderSize, HeaderSize
<1>8. SeenHeader' = [SeenHeader EXCEPT ![reader] = Null] /\ OneStep!Null = Null
  BY <1>1, <1>2, <1>3 DEF SeenHeader, Names, Null, OneStep!Null
<1>9. SeenStore' = SeenStore
  BY <1>1, <1>2 DEF SeenStore, Names, ElementsOf
<1>10. UNCHANGED <<AsMessage(reader), Shown, call>> /\ Seen'.cursor = Seen.cursor
  BY <1>1, <1>2 DEF AsMessage, Shown, Abstracted
<1> HIDE DEF F
<1> QED
  BY <1>2, <1>4, <1>5, <1>6, <1>7, <1>8, <1>9, <1>10 DEF OneStep!RejectHeader, Shown

\* The message that needs the element finds it present or does not, as here.
LEMMA FinishSeen ==
  ASSUME IInv, WalkInv, Finish
  PROVE  OneStep!Finish
<1>1. /\ phase = "between" /\ cursor + HeaderSize > buf.size
      /\ phase' = (IF IsPresent THEN "accepted" ELSE "rejected")
      /\ UNCHANGED <<reader, buf, cursor, call, header, items>>
  BY DEF Finish
<1>2. /\ Seen = [cursor |-> cursor, header |-> header, items |-> items]
      /\ Seen' = Seen /\ SeenPhase = "reading" /\ SeenPhase' = phase'
  BY <1>1 DEF Seen, SeenPhase, Walking
<1>3. /\ TypeOK /\ BufferIsGiven /\ reader \in Names /\ items \in Seq(Pointer3)
  BY DEF IInv, WalkInv, TypeOK, Pointer3
<1>4. Shown.size = buf.size
  BY <1>3, ShownBuffer
<1>5. /\ OneStep!Kind(reader) = "nested" /\ AsElements[reader].byHeader = L.byHeader
  BY <1>3, ShownReader
<1>6. SeenHeader[reader] = header /\ SeenStore[reader] = ElementsOf(items)
  BY <1>2, <1>3 DEF SeenHeader, SeenStore
<1>7. ElementsOf(items) # <<>> <=> items # <<>>
  <2>1. /\ ElementsOf(items) \in Seq(Pointer2) /\ Len(ElementsOf(items)) = Len(items)
    BY <1>3, ElementsOfFacts
  <2> QED
    BY <1>3, <2>1
<1>8. OneStep!IsPresent(reader) <=> IsPresent
  BY <1>5, <1>6, <1>7 DEF OneStep!IsPresent, IsPresent, OneStep!Null, Null
<1>9. OneStep!RequiredPresent <=> IsPresent
  BY <1>8 DEF OneStep!RequiredPresent, AsMessage
<1>10. SeenStore' = SeenStore /\ SeenHeader' = SeenHeader
       /\ UNCHANGED <<AsMessage(reader), Shown, call>>
  BY <1>1, <1>2 DEF SeenStore, SeenHeader, ElementsOf, Names, Null, AsMessage, Shown, Abstracted
<1> QED
  BY <1>1, <1>2, <1>4, <1>9, <1>10 DEF OneStep!Finish, Shown, OneStep!HeaderSize, HeaderSize

LEMMA AgainSeen ==
  ASSUME IInv, WalkInv, DeserializeAgain
  PROVE  OneStep!DeserializeAgain(AbstractBuffers, AbstractBuffers)
<1>1. /\ phase \in {"accepted", "rejected"} /\ call < MaxCalls /\ buf' \in Buffers[reader]
      /\ cursor' = 0 /\ phase' = "between" /\ call' = call + 1
      /\ UNCHANGED <<reader, header, items>>
  BY DEF DeserializeAgain
<1>2. /\ Seen = [cursor |-> cursor, header |-> header, items |-> items]
      /\ Seen' = [cursor |-> 0, header |-> header, items |-> items]
      /\ SeenPhase = phase /\ SeenPhase' = "reading"
  BY <1>1 DEF Seen, SeenPhase, Walking
<1>3. TypeOK /\ BufferIsGiven /\ TypeOK' /\ BufferIsGiven'
  BY <1>1, DeserializeAgainKeeps DEF IInv, WalkInv, BufferIsGiven
<1>4. Shown \in AbstractBuffers
  BY <1>3, ShownBuffer
<1>5. Shown' \in AbstractBuffers
  <2>1. reader \in DOMAIN Readers /\ buf' \in Buffers[reader]
    BY <1>1, <1>3 DEF TypeOK, Names
  <2> QED
    BY <1>1, <2>1 DEF AbstractBuffers, Shown, Abstracted
<1>6. SeenStore' = SeenStore /\ SeenHeader' = SeenHeader /\ UNCHANGED AsMessage(reader)
  BY <1>1, <1>2 DEF SeenStore, SeenHeader, ElementsOf, Names, Null, AsMessage
<1> QED
  BY <1>1, <1>2, <1>4, <1>5, <1>6 DEF OneStep!DeserializeAgain, Shown

\* Every step of the loops is one of MessageReader or not seen there.
LEMMA StepSeen == IInv /\ WalkInv /\ [Next]_vars => [OneStep!Next]_(OneStep!vars)
<1> SUFFICES ASSUME IInv, WalkInv, [Next]_vars PROVE [OneStep!Next]_(OneStep!vars)
  OBVIOUS
<1>1. DOMAIN Shown.frames = DOMAIN buf.frames
  BY ShownBuffer DEF IInv, WalkInv
<1>2. ASSUME NEW i \in DOMAIN buf.frames,
             OneStep!RejectHeader(i) \/ OneStep!RejectBody(i) \/ OneStep!ReadNested(i)
      PROVE  OneStep!Next
  BY <1>1, <1>2 DEF OneStep!Next, OneStep!LoopStep, Shown
<1>3. Walking => header[2] \in DOMAIN buf.frames
  BY WalkFacts
<1>4. CASE \E i \in DOMAIN buf.frames : BeginElement(i)
  BY <1>4, BeginNotSeen
<1>5. CASE \E i \in DOMAIN buf.frames : RejectElement(i)
  BY <1>2, <1>5, HeaderRefused
<1>6. CASE ReadEncryption \/ \E n \in DOMAIN Here.subs : ReadSub(n)
  <2>1. Walking /\ Walking' /\ UNCHANGED <<reader, buf, call, saved>>
    BY <1>6 DEF ReadEncryption, MoreEncryptions, ReadSub, UnderSub, Walking
  <2> QED
    BY <2>1, WalkNotSeen
<1>7. CASE RejectEncryption
  <2>1. /\ phase = "encryptions" /\ MoreEncryptions /\ ~EncryptionGood /\ phase' = "rejected"
        /\ UNCHANGED <<reader, buf, cursor, call, header, items>>
    BY <1>7 DEF RejectEncryption, MoreEncryptions
  <2>2. Walking /\ ~Encrypted(L, buf, Here)
    BY <2>1, EncryptionsCounted DEF Walking
  <2> QED
    BY <1>2, <1>3, <2>1, <2>2, EarlyBody, RejectedInBody
<1>8. CASE EndEncryptions
  <2>1. /\ phase = "encryptions" /\ ~MoreEncryptions
        /\ UNCHANGED <<reader, buf, cursor, call, header, saved>>
    BY <1>8 DEF EndEncryptions
  <2>2. Walking
    BY <2>1 DEF Walking
  <2>3. CASE encs = Here.num
    BY <1>8, <2>1, <2>2, <2>3, WalkNotSeen DEF EndEncryptions, Walking
  <2>4. CASE encs # Here.num
    <3>1. phase' = "rejected" /\ UNCHANGED items
      BY <1>8, <2>4 DEF EndEncryptions
    <3>2. ~Encrypted(L, buf, Here)
      BY <2>1, <2>4, EncryptionsCounted
    <3> QED
      BY <1>2, <1>3, <2>1, <2>2, <3>1, <3>2, EarlyBody, RejectedInBody
  <2> QED
    BY <2>3, <2>4
<1>9. CASE \E n \in DOMAIN Here.subs : RejectSub(n)
  <2>1. Walking
    BY <1>9 DEF RejectSub, UnderSub, Walking
  <2> QED
    BY <1>2, <1>3, <1>9, <2>1, SubRefused
<1>10. CASE EndElement
  <2>1. Walking
    BY <1>10 DEF EndElement, Walking
  <2> QED
    BY <1>2, <1>3, <1>10, <2>1, ElementEnded
<1>11. CASE Finish
  BY <1>11, FinishSeen DEF OneStep!Next, OneStep!LoopStep
<1>12. CASE DeserializeAgain
  BY <1>12, AgainSeen DEF OneStep!Next
<1>13. CASE UNCHANGED vars
  <2>1. Seen' = Seen /\ SeenPhase' = SeenPhase /\ UNCHANGED <<reader, buf, call>>
    BY <1>13 DEF vars, Seen, SeenPhase, Walking
  <2> QED
    BY <2>1, NotSeen
<1> QED
  BY <1>4, <1>5, <1>6, <1>7, <1>8, <1>9, <1>10, <1>11, <1>12, <1>13 DEF Next, LoopStep

LEMMA InitSeen == Init => OneStep!Init
<1> SUFFICES ASSUME Init PROVE OneStep!Init
  OBVIOUS
<1>1. /\ reader \in Names /\ buf \in Buffers[reader] /\ cursor = 0 /\ phase = "between"
      /\ call = 1 /\ header = Null /\ items = <<>>
  BY DEF Init, Names
<1>2. /\ Seen = [cursor |-> 0, header |-> Null, items |-> <<>>] /\ SeenPhase = "reading"
  BY <1>1 DEF Seen, SeenPhase, Walking
<1>3. AsMessage(reader) \in AsMessages /\ Abstracted[reader][buf] \in AbstractBuffers
  BY <1>1 DEF AsMessages, AbstractBuffers, Names
<1>4. SeenStore = [r \in Names |-> <<>>] /\ SeenHeader = [r \in Names |-> Null]
  <2>1. ElementsOf(<<>>) = <<>>
    BY DEF ElementsOf
  <2> QED
    BY <1>2, <2>1 DEF SeenStore, SeenHeader
<1> QED
  BY <1>1, <1>2, <1>3, <1>4 DEF OneStep!Init, OneStep!Null, Null

\* The loops over sub-elements, turn by turn, do what MessageReader does in one
\* step, for every loop and every buffer: an element is taken as a whole or the
\* message is refused where the loop stopped, with what it had stored.
THEOREM LoopsTakeOneStep == Spec => ImplementsOneStep
<1>1. Init => OneStep!Init
  BY InitSeen
<1>2. IInv /\ WalkInv /\ [Next]_vars => [OneStep!Next]_(OneStep!vars)
  BY StepSeen
<1> QED
  BY <1>1, <1>2, Invariance, WalkHolds, PTL DEF Spec, ImplementsOneStep
-----------------------------------------------------------------------------
(***************************************************************************)
(* What is proved of MessageReader is true of the loops.                   *)
(***************************************************************************)
Whole == INSTANCE MessageReaderProofs WITH
  Type <- Names,
  Element <- AsElements,
  Messages <- AsMessages,
  Buffers <- AbstractBuffers,
  msg <- AsMessage(reader),
  buf <- Abstracted[reader][buf],
  cursor <- Seen.cursor,
  phase <- SeenPhase,
  store <- SeenStore,
  header <- SeenHeader,
  unknown <- 0

\* How many sub-elements, and how many encryption sub-elements, are good.
LEMMA GoodAreCounted ==
  ASSUME NEW l, NEW b, NEW f, Len(f.subs) \in Nat, Len(f.encs) \in Nat, l.encryptions \in Nat
  PROVE  /\ GoodSubs(l, b, f) \in 0 .. Len(f.subs)
         /\ GoodEncryptions(l, b, f) \in Nat
<1> DEFINE S == {n \in 0 .. Len(f.subs) : \A k \in 1 .. n : SubFine(l, b, f, k)}
           E == {n \in 0 .. Len(f.encs) :
                   n <= l.encryptions /\ \A e \in 1 .. n : EncryptionFine(l, b, f, e)}
<1>1. /\ GoodSubs(l, b, f) = Max(S) /\ S \in SUBSET Nat /\ 0 \in S
      /\ \A n \in S : n \in 0 .. Len(f.subs) /\ n <= Len(f.subs)
  BY DEF GoodSubs
<1>2. /\ GoodEncryptions(l, b, f) = Max(E) /\ E \in SUBSET Nat /\ 0 \in E
      /\ \A n \in E : n <= Len(f.encs)
  BY DEF GoodEncryptions
<1> HIDE DEF S, E
<1>3. Max(S) \in S
  <2>1. S # {} /\ \A n \in S : n <= Len(f.subs)
    BY <1>1
  <2> QED
    BY <1>1, <2>1, GreatestElement
<1>4. Max(E) \in E
  <2>1. E # {} /\ \A n \in E : n <= Len(f.encs)
    BY <1>2
  <2> QED
    BY <1>2, <2>1, GreatestElement
<1> QED
  BY <1>1, <1>2, <1>3, <1>4

\* A walk never gets back before the beginning of its element.
LEMMA WalkGoesAhead ==
  ASSUME NEW l, IsLoop(l), NEW f \in Element, WellWalked(l, f), NEW n \in 0 .. Len(f.subs)
  PROVE  AfterSubs(l, f, n) - f.at \in Nat
<1>1. /\ f.at \in Nat /\ l.fixed \in Nat /\ l.subHeader \in Nat
      /\ f.subs \in Seq(SubElement) /\ Len(f.subs) \in Nat /\ Len(f.encs) \in Nat
      /\ DOMAIN f.subs = 1 .. Len(f.subs)
  <2>1. f.at \in Nat /\ f.subs \in Seq(SubElement) /\ f.encs \in Seq(BOOLEAN)
    BY DEF Element
  <2> QED
    BY <2>1 DEF IsLoop
<1>2. AfterSubs(l, f, 0) \in Nat /\ AfterSubs(l, f, 0) >= f.at
  <2>1. AfterSubs(l, f, 0) = f.at + HeaderSize + l.fixed + EncryptionSize * Len(f.encs)
    BY DEF AfterSubs, SubsStart, BodyStart
  <2>2. \A x, h, y, z \in Nat : x + h + y + z \in Nat /\ x + h + y + z >= x
    OBVIOUS
  <2>3. HeaderSize \in Nat /\ EncryptionSize * Len(f.encs) \in Nat
    BY <1>1 DEF HeaderSize, EncryptionSize
  <2>4. /\ f.at + HeaderSize + l.fixed + EncryptionSize * Len(f.encs) \in Nat
        /\ f.at + HeaderSize + l.fixed + EncryptionSize * Len(f.encs) >= f.at
    BY <1>1, <2>2, <2>3
  <2> QED
    BY <2>1, <2>4
<1>3. ASSUME NEW k \in 1 .. Len(f.subs)
      PROVE  /\ f.subs[k].at \in Nat /\ f.subs[k].len \in Nat
             /\ AfterSubs(l, f, k) = f.subs[k].at + l.subHeader + f.subs[k].len
             /\ f.subs[k].at = AfterSubs(l, f, k - 1)
  <2>1. f.subs[k] \in SubElement
    BY <1>1
  <2>2. k # 0
    OBVIOUS
  <2> QED
    BY <2>1, <2>2 DEF SubElement, WellWalked, AfterSubs, SubEnd
<1>4. \A k \in 0 .. Len(f.subs) : AfterSubs(l, f, k) \in Nat
  <2> SUFFICES ASSUME NEW k \in 0 .. Len(f.subs) PROVE AfterSubs(l, f, k) \in Nat
    OBVIOUS
  <2>1. k = 0 \/ k \in 1 .. Len(f.subs)
    BY <1>1
  <2>2. CASE k = 0
    BY <1>2, <2>2
  <2>3. CASE k \in 1 .. Len(f.subs)
    <3>1. /\ f.subs[k].at \in Nat /\ f.subs[k].len \in Nat
          /\ AfterSubs(l, f, k) = f.subs[k].at + l.subHeader + f.subs[k].len
      BY <1>3, <2>3
    <3>2. \A x, y, z \in Nat : x + y + z \in Nat
      OBVIOUS
    <3>3. f.subs[k].at + l.subHeader + f.subs[k].len \in Nat
      BY <1>1, <3>1, <3>2
    <3> QED
      BY <3>1, <3>3
  <2> QED
    BY <2>1, <2>2, <2>3
<1> DEFINE T == {k \in 0 .. Len(f.subs) : AfterSubs(l, f, k) < f.at}
<1>5. T \in SUBSET (0 .. Len(f.subs)) /\ 0 \notin T
  BY <1>1, <1>2
<1>6. ASSUME NEW k \in 1 .. Len(f.subs), k \in T PROVE k - 1 \in T
  <2>1. k - 1 \in 0 .. Len(f.subs) /\ k \in 0 .. Len(f.subs)
    BY <1>1
  <2>2. /\ AfterSubs(l, f, k) = AfterSubs(l, f, k - 1) + l.subHeader + f.subs[k].len
        /\ f.subs[k].len \in Nat
    BY <1>3
  <2>3. AfterSubs(l, f, k - 1) \in Nat /\ AfterSubs(l, f, k) < f.at
    BY <1>4, <1>6, <2>1
  <2>4. \A x, y, z, a \in Nat : x + y + z < a => x < a
    OBVIOUS
  <2> QED
    BY <1>1, <2>1, <2>2, <2>3, <2>4
<1> HIDE DEF T
<1>7. T = {}
  BY <1>1, <1>5, <1>6, NoneIsLeft
<1>8. AfterSubs(l, f, n) \in Nat /\ ~(AfterSubs(l, f, n) < f.at)
  BY <1>4, <1>7 DEF T
<1> QED
  BY <1>1, <1>8

\* To MessageReader an element is a frame, and a buffer is laid out well.
LEMMA FrameOfElement ==
  ASSUME NEW r \in Names, NEW b, NEW f \in Element,
         IsLoop(Readers[r]), WellWalked(Readers[r], f)
  PROVE  /\ AsFrame(r, b, f) \in Whole!Frame
         /\ AsFrame(r, b, f).type = r /\ AsFrame(r, b, f).at = f.at
         /\ AsFrame(r, b, f).len = f.len
         /\ Len(AsFrame(r, b, f).stop) > AsFrame(r, b, f).subs
<1> DEFINE l == Readers[r]
           g == GoodSubs(l, b, f)
           e == GoodEncryptions(l, b, f)
           whole == [n \in 1 .. g + 1 |-> AfterSubs(l, f, n - 1) - f.at]
           early == <<BodyStart(l, f) + EncryptionSize * e - f.at>>
<1>1. /\ f.at \in Nat /\ f.len \in Nat /\ f.valid \in BOOLEAN
      /\ Len(f.subs) \in Nat /\ Len(f.encs) \in Nat
  <2>1. /\ f.at \in Nat /\ f.len \in 0 .. MaxLength /\ f.valid \in BOOLEAN
        /\ f.encs \in Seq(BOOLEAN) /\ f.subs \in Seq(SubElement)
    BY DEF Element
  <2>2. \A n \in 0 .. MaxLength : n \in Nat
    OBVIOUS
  <2> QED
    BY <2>1, <2>2
<1>2. g \in 0 .. Len(f.subs) /\ g \in Nat /\ e \in Nat /\ l.fixed \in Nat
  <2>1. l.encryptions \in Nat /\ l.fixed \in Nat
    BY DEF IsLoop
  <2>2. g \in 0 .. Len(f.subs) /\ e \in Nat
    BY <1>1, <2>1, GoodAreCounted
  <2> QED
    BY <1>1, <2>1, <2>2
<1>3. whole \in Seq(Nat) /\ Len(whole) = g + 1
  <2>1. \A n \in 1 .. g + 1 : n - 1 \in 0 .. Len(f.subs)
    BY <1>1, <1>2
  <2>2. \A n \in 1 .. g + 1 : AfterSubs(l, f, n - 1) - f.at \in Nat
    BY <2>1, WalkGoesAhead
  <2> HIDE DEF g
  <2>3. whole \in [1 .. g + 1 -> Nat] /\ g + 1 \in Nat
    BY <1>2, <2>2
  <2> HIDE DEF whole
  <2> QED
    BY <2>3
<1>4. early \in Seq(Nat) /\ Len(early) = 1
  <2>1. BodyStart(l, f) + EncryptionSize * e - f.at = HeaderSize + l.fixed + EncryptionSize * e
    <3>1. \A x, h, y, z \in Int : x + h + y + (z - x) = h + y + z
      OBVIOUS
    <3>2. HeaderSize \in Int /\ f.at \in Int /\ l.fixed \in Int
      BY <1>1, <1>2 DEF HeaderSize
    <3>3. EncryptionSize * e \in Int
      BY <1>2 DEF EncryptionSize
    <3>4. BodyStart(l, f) = f.at + HeaderSize + l.fixed
      BY DEF BodyStart
    <3> HIDE DEF l
    <3>5. f.at + HeaderSize + l.fixed + (EncryptionSize * e - f.at)
            = HeaderSize + l.fixed + EncryptionSize * e
      BY <3>1, <3>2, <3>3
    <3> QED
      BY <3>4, <3>5, Zenon
  <2>2. HeaderSize + l.fixed + EncryptionSize * e \in Nat
    BY <1>2 DEF HeaderSize, EncryptionSize
  <2> QED
    BY <2>1, <2>2
<1> HIDE DEF whole, early, g, e
<1>5. CASE ~Encrypted(l, b, f)
  <2>1. AsFrame(r, b, f) =
          [type |-> r, at |-> f.at, len |-> f.len, ok |-> f.valid,
           body |-> "early", subs |-> 0, stop |-> early]
    BY <1>5 DEF AsFrame, early, e
  <2>2. 1 > 0 /\ 0 \in Nat /\ "early" \in {"ok", "early", "late"}
    OBVIOUS
  <2>3. AsFrame(r, b, f) \in Whole!Frame
    BY <1>1, <1>4, <2>1, <2>2 DEF Whole!Frame
  <2>4. Len(AsFrame(r, b, f).stop) = 1 /\ AsFrame(r, b, f).subs = 0
    BY <1>4, <2>1
  <2>5. Len(AsFrame(r, b, f).stop) > AsFrame(r, b, f).subs
    BY <2>4
  <2> QED
    BY <2>1, <2>3, <2>5
<1>6. CASE Encrypted(l, b, f)
  <2> DEFINE body == IF Complete(l, b, f) THEN "ok" ELSE "late"
  <2>1. AsFrame(r, b, f) =
          [type |-> r, at |-> f.at, len |-> f.len, ok |-> f.valid,
           body |-> body, subs |-> g, stop |-> whole]
    BY <1>6 DEF AsFrame, whole, g
  <2>2. body \in {"ok", "late"}
    OBVIOUS
  <2> HIDE DEF body
  <2>3. g + 1 > g
    BY <1>2
  <2> QED
    BY <1>1, <1>2, <1>3, <2>1, <2>2, <2>3 DEF Whole!Frame
<1> QED
  BY <1>5, <1>6

LEMMA BufferOfElements ==
  ASSUME NEW r \in Names, NEW b, IsLoop(Readers[r]), WellLaidOut(Readers[r], b)
  PROVE  Whole!WellLaidOut(AsBuffer(r, b))
<1> DEFINE frames == [i \in DOMAIN b.frames |-> AsFrame(r, b, b.frames[i])]
<1>1. /\ b.frames \in Seq(Element) /\ Len(b.frames) \in Nat /\ b.size \in Nat
      /\ DOMAIN b.frames = 1 .. Len(b.frames)
      /\ \A i \in 1 .. Len(b.frames) :
           /\ b.frames[i] \in Element
           /\ WellWalked(Readers[r], b.frames[i])
           /\ b.frames[i].at = (IF i = 1 THEN 0 ELSE ElementEnd(b.frames[i - 1]))
      /\ b.size < (IF b.frames = <<>> THEN 0
                   ELSE ElementEnd(b.frames[Len(b.frames)])) + HeaderSize
  BY DEF WellLaidOut
<1>2. AsBuffer(r, b).size = b.size /\ AsBuffer(r, b).frames = frames
  BY DEF AsBuffer
<1>3. \A i \in 1 .. Len(b.frames) :
        /\ frames[i] \in Whole!Frame
        /\ frames[i].type = r /\ frames[i].at = b.frames[i].at
        /\ frames[i].len = b.frames[i].len
        /\ Len(frames[i].stop) > frames[i].subs
  BY <1>1, FrameOfElement
<1>4. DOMAIN frames = 1 .. Len(b.frames)
  BY <1>1
<1>5. frames \in [1 .. Len(b.frames) -> Whole!Frame]
  BY <1>3, <1>4
<1> HIDE DEF frames
<1>6. frames \in Seq(Whole!Frame) /\ Len(frames) = Len(b.frames)
  BY <1>1, <1>5
<1>7. \A i \in 1 .. Len(b.frames) : Whole!FrameEnd(frames[i]) = ElementEnd(b.frames[i])
  BY <1>3 DEF Whole!FrameEnd, Whole!HeaderSize, ElementEnd, HeaderSize
<1>8. (frames = <<>>) <=> (b.frames = <<>>)
  BY <1>1, <1>6, EmptySeq
<1>9. frames # <<>> => frames[1].at = 0
  <2>1. frames # <<>> => 1 \in 1 .. Len(b.frames)
    BY <1>1, <1>8, EmptySeq
  <2> QED
    BY <1>1, <1>3, <2>1
<1>10. ASSUME NEW i \in 1 .. Len(frames) - 1
       PROVE  frames[i + 1].at = Whole!FrameEnd(frames[i])
  <2>1. /\ i \in 1 .. Len(b.frames) /\ i + 1 \in 1 .. Len(b.frames)
        /\ i + 1 # 1 /\ (i + 1) - 1 = i
    BY <1>1, <1>6
  <2> QED
    BY <1>1, <1>3, <1>7, <2>1
<1>11. Whole!LayoutEnd(AsBuffer(r, b)) =
         IF b.frames = <<>> THEN 0 ELSE ElementEnd(b.frames[Len(b.frames)])
  <2>1. b.frames # <<>> => Len(b.frames) \in 1 .. Len(b.frames)
    BY <1>1, EmptySeq
  <2> QED
    BY <1>2, <1>6, <1>7, <1>8, <2>1 DEF Whole!LayoutEnd
<1>12. \A i \in DOMAIN frames : Whole!Kind(frames[i].type) = "nested"
  <2>1. Whole!Kind(r) = "nested"
    BY DEF Whole!Kind, AsElements, AsElement
  <2> QED
    BY <1>3, <1>4, <2>1
<1>13. /\ AsBuffer(r, b).size < Whole!LayoutEnd(AsBuffer(r, b)) + Whole!HeaderSize
       /\ AsBuffer(r, b).size \in Nat
  BY <1>1, <1>2, <1>11 DEF Whole!HeaderSize, HeaderSize
<1>14. \A i \in DOMAIN frames : Len(frames[i].stop) > frames[i].subs
  BY <1>3, <1>4
<1> QED
  BY <1>2, <1>6, <1>9, <1>10, <1>12, <1>13, <1>14 DEF Whole!WellLaidOut

\* The loops, their messages and their buffers are what MessageReader assumes
\* of its elements, messages and buffers.
THEOREM LoopsMeetTheAssumptions ==
  /\ \A t \in Names : Whole!IsDescriptor(AsElements[t])
  /\ \A m \in AsMessages :
       m \in Whole!MessageDescriptor /\ m.required \cup m.oneOf \subseteq m.members
  /\ \A b \in AbstractBuffers : Whole!WellLaidOut(b)
  /\ MaxCalls \in Nat \ {0}
<1>1. ASSUME NEW r \in Names PROVE Whole!IsDescriptor(AsElements[r])
  <2>1. IsLoop(Readers[r])
    BY ReadersAssumption DEF Names
  <2>2. AsElements[r] = AsElement(r)
    BY DEF AsElements
  <2> QED
    BY <2>1, <2>2 DEF IsLoop, AsElement, MaxLength, Whole!IsDescriptor
<1>2. ASSUME NEW r \in Names
      PROVE  /\ AsMessage(r) \in Whole!MessageDescriptor
             /\ AsMessage(r).required \cup AsMessage(r).oneOf \subseteq AsMessage(r).members
  <2>1. {r} \in SUBSET Names
    OBVIOUS
  <2>2. {} \in SUBSET Names
    BY Zenon
  <2>3. \A s \in STRING : \A A, B, C, D \in SUBSET Names :
          [name |-> s, members |-> A, optional |-> B, required |-> C, oneOf |-> D]
            \in Whole!MessageDescriptor
    BY DEF Whole!MessageDescriptor
  <2>4. r \in STRING
    BY ReadersAssumption DEF Names
  <2>5. AsMessage(r) = [name |-> r, members |-> {r}, optional |-> {},
                        required |-> {r}, oneOf |-> {}]
    BY DEF AsMessage
  <2>6. AsMessage(r) \in Whole!MessageDescriptor
    BY <2>1, <2>2, <2>3, <2>4, <2>5, Zenon
  <2> QED
    BY <2>5, <2>6
<1>3. ASSUME NEW b \in AbstractBuffers PROVE Whole!WellLaidOut(b)
  <2>1. PICK r \in Names : \E c \in Buffers[r] : b = Abstracted[r][c]
    BY DEF AbstractBuffers, Names
  <2>2. PICK c \in Buffers[r] : b = Abstracted[r][c]
    BY <2>1
  <2>3. b = AsBuffer(r, c)
    BY <2>2 DEF Abstracted, Names
  <2>4. IsLoop(Readers[r]) /\ WellLaidOut(Readers[r], c)
    BY ReadersAssumption, BuffersAssumption DEF Names
  <2> QED
    BY <2>3, <2>4, BufferOfElements
<1>4. \A m \in AsMessages :
        m \in Whole!MessageDescriptor /\ m.required \cup m.oneOf \subseteq m.members
  BY <1>2 DEF AsMessages
<1> QED
  BY <1>1, <1>3, <1>4, MaxCallsAssumption

\* The lemmas of MessageReaderProofs, with what they assume.
LEMMA WholeFresh == Whole!Fresh => Whole!ReaderInv
BY LoopsMeetTheAssumptions, Whole!FreshReader

LEMMA WholeStep == Whole!ReaderInv /\ [Whole!Next]_Whole!vars => Whole!ReaderInv'
BY LoopsMeetTheAssumptions, Whole!ReaderStep

\* Both instances are the same module.
LEMMA SameWholeStep == [OneStep!Next]_(OneStep!vars) => [Whole!Next]_Whole!vars
BY DEF OneStep!Next, Whole!Next, OneStep!DeserializeAgain, Whole!DeserializeAgain,
    OneStep!LoopStep, Whole!LoopStep, OneStep!ReadSingle, Whole!ReadSingle,
    OneStep!ReadArray, Whole!ReadArray, OneStep!ReadNested, Whole!ReadNested,
    OneStep!SkipUnknown, Whole!SkipUnknown, OneStep!RejectUnknown, Whole!RejectUnknown,
    OneStep!RejectHeader, Whole!RejectHeader, OneStep!RejectBody, Whole!RejectBody,
    OneStep!Finish, Whole!Finish, OneStep!Under, Whole!Under,
    OneStep!HeaderSize, Whole!HeaderSize, OneStep!Handled, Whole!Handled,
    OneStep!Kind, Whole!Kind, OneStep!HeaderOk, Whole!HeaderOk, OneStep!Fits, Whole!Fits,
    OneStep!FrameEnd, Whole!FrameEnd, OneStep!Pointer, Whole!Pointer,
    OneStep!BodyOk, Whole!BodyOk, OneStep!Stored, Whole!Stored,
    OneStep!WithSubs, Whole!WithSubs, OneStep!Kept, Whole!Kept,
    OneStep!HasRoom, Whole!HasRoom, OneStep!Null, Whole!Null,
    OneStep!RequiredPresent, Whole!RequiredPresent, OneStep!IsPresent, Whole!IsPresent,
    OneStep!vars, Whole!vars

\* The operators of one instance are those of the other.
LEMMA SameWholeOperators ==
  /\ \A S : OneStep!Cardinality(S) = Whole!Cardinality(S) /\ OneStep!Max(S) = Whole!Max(S)
  /\ OneStep!Handled = Whole!Handled
BY DEF OneStep!Cardinality, Whole!Cardinality, OneStep!Max, Whole!Max,
    OneStep!Handled, Whole!Handled

LEMMA SameWholeDecoded ==
  \A t : /\ Whole!Consumed(t) = OneStep!Consumed(t)
         /\ Whole!DecodedSingle(t) = OneStep!DecodedSingle(t)
         /\ Whole!DecodedArray(t) = OneStep!DecodedArray(t)
         /\ Whole!DecodedNested(t) = OneStep!DecodedNested(t)
<1> SUFFICES ASSUME NEW t
             PROVE  /\ Whole!Consumed(t) = OneStep!Consumed(t)
                    /\ Whole!DecodedSingle(t) = OneStep!DecodedSingle(t)
                    /\ Whole!DecodedArray(t) = OneStep!DecodedArray(t)
                    /\ Whole!DecodedNested(t) = OneStep!DecodedNested(t)
  OBVIOUS
<1>1. Whole!Consumed(t) = OneStep!Consumed(t)
  BY DEF Whole!Consumed, OneStep!Consumed, Whole!FrameEnd, OneStep!FrameEnd,
     Whole!HeaderSize, OneStep!HeaderSize
<1>2. Whole!DecodedSingle(t) = OneStep!DecodedSingle(t)
  BY <1>1, SameWholeOperators DEF Whole!DecodedSingle, OneStep!DecodedSingle,
     Whole!OfThisCall, OneStep!OfThisCall, Whole!Pointer, OneStep!Pointer
<1>3. Whole!DecodedArray(t) = OneStep!DecodedArray(t)
  BY <1>1 DEF Whole!DecodedArray, OneStep!DecodedArray, Whole!OfThisCall, OneStep!OfThisCall
<1>4. Whole!DecodedNested(t) = OneStep!DecodedNested(t)
  BY <1>1, SameWholeOperators DEF Whole!DecodedNested, OneStep!DecodedNested,
     Whole!Pointer, OneStep!Pointer
<1> QED
  BY <1>1, <1>2, <1>3, <1>4

LEMMA SameWholeVerdict ==
  /\ Whole!Visible = OneStep!Visible
  /\ \A t : Whole!Load(t) = OneStep!Load(t) /\ Whole!Delivered(t) = OneStep!Delivered(t)
  /\ Whole!WellFormed = OneStep!WellFormed
<1>1. Whole!Visible = OneStep!Visible
  BY DEF Whole!Visible, OneStep!Visible, Whole!HeaderSize, OneStep!HeaderSize
<1>2. \A t : Whole!VisibleOf(t) = OneStep!VisibleOf(t)
  BY <1>1 DEF Whole!VisibleOf, OneStep!VisibleOf
<1>3. \A t : Whole!Load(t) = OneStep!Load(t)
  BY <1>2, SameWholeOperators DEF Whole!Load, OneStep!Load, Whole!Kind, OneStep!Kind,
     Whole!SubElements, OneStep!SubElements
<1>4. \A t : Whole!Delivered(t) = OneStep!Delivered(t)
  BY <1>2, <1>3, SameWholeOperators DEF Whole!Delivered, OneStep!Delivered,
     Whole!Kind, OneStep!Kind
<1>5. Whole!WellFormed = OneStep!WellFormed
  BY <1>1, <1>3, <1>4, SameWholeOperators DEF Whole!WellFormed, OneStep!WellFormed,
     Whole!HeaderOk, OneStep!HeaderOk, Whole!Fits, OneStep!Fits, Whole!FrameEnd,
     OneStep!FrameEnd, Whole!HeaderSize, OneStep!HeaderSize
<1> QED
  BY <1>1, <1>3, <1>4, <1>5

LEMMA SameWholeProperties ==
  Whole!DecodesTheBuffer /\ Whole!VerdictIsExact => DecodesAsAWhole
<1>1. Whole!DecodesTheBuffer = OneStep!DecodesTheBuffer
  BY SameWholeOperators, SameWholeDecoded DEF Whole!DecodesTheBuffer,
     OneStep!DecodesTheBuffer, Whole!Kind, OneStep!Kind
<1>2. Whole!VerdictIsExact = OneStep!VerdictIsExact
  BY SameWholeVerdict DEF Whole!VerdictIsExact, OneStep!VerdictIsExact
<1> QED
  BY <1>1, <1>2 DEF DecodesAsAWhole

LEMMA WholeBegins == Init => Whole!ReaderInv
<1>1. OneStep!Init => Whole!Fresh
  BY LoopsMeetTheAssumptions DEF OneStep!Init, Whole!Fresh, OneStep!Null, Whole!Null
<1> QED
  BY <1>1, InitSeen, WholeFresh

\* The loops keep the invariant of the reader that takes an element in one
\* step.
LEMMA LoopsStayReaders == Spec => []Whole!ReaderInv
<1>1. IInv /\ WalkInv /\ Whole!ReaderInv /\ [Next]_vars => Whole!ReaderInv'
  BY StepSeen, SameWholeStep, WholeStep
<1> QED
  BY <1>1, WholeBegins, Invariance, WalkHolds, PTL DEF Spec

\* What is proved of the reader that takes an element in one step holds of the
\* loops: they accept just what a reading of the buffer without any loop finds
\* good, and show what the buffer says.
THEOREM LoopsDecode == Spec => []DecodesAsAWhole
<1>1. Whole!ReaderInv => DecodesAsAWhole
  BY LoopsMeetTheAssumptions, Whole!HeldDecodes, SameWholeProperties DEF Whole!ReaderInv
<1> QED
  BY <1>1, LoopsStayReaders, PTL
-----------------------------------------------------------------------------
(***************************************************************************)
(* Every walk ends, but for the fairness of the scheduler: a turn of some  *)
(* loop is always possible, and there is a bound on their number.          *)
(***************************************************************************)

Rest == IF cursor <= buf.size THEN buf.size - cursor ELSE 0

\* How many turns there can be, the loops over elements, over encryption
\* sub-elements and over sub-elements taken together.
TurnsAhead ==
  CASE phase = "between" -> 3 * Rest + 1
    [] phase = "encryptions" -> 3 * Rest + 3
    [] phase = "subs" -> 3 * Rest + 2
    [] OTHER -> 0

\* Whatever a walk has come past, its cursor is at the end of the element or
\* on a sub-element, and outside of a walk it is at the end of the buffer or
\* on an element.
ATurnIsPossible ==
  /\ phase = "between" =>
       cursor + HeaderSize > buf.size \/ \E i \in DOMAIN buf.frames : Under(i)
  /\ phase = "subs" =>
       cursor >= ElementEnd(Here) \/ \E n \in DOMAIN Here.subs : UnderSub(n)

\* Between elements the cursor is in the buffer, because it is where the
\* reader that takes elements in one step has it.
LEMMA BetweenElements ==
  ASSUME IInv, WalkInv, Whole!ReaderInv, phase = "between"
  PROVE  /\ cursor <= buf.size
         /\ \/ cursor + HeaderSize > buf.size
            \/ \E i \in DOMAIN buf.frames : Under(i)
<1>1. /\ TypeOK /\ BufferIsGiven /\ cursor \in Nat /\ buf.size \in Nat
  BY LoopFacts DEF IInv, WalkInv, TypeOK
<1>2. /\ Shown.size = buf.size /\ DOMAIN Shown.frames = DOMAIN buf.frames
      /\ \A i \in DOMAIN buf.frames : Shown.frames[i].at = buf.frames[i].at
  BY <1>1, ShownBuffer, ShownFrame
<1>3. Seen.cursor = cursor /\ SeenPhase = "reading"
  BY DEF Seen, SeenPhase, Walking
<1>4. Whole!OnFrameBoundary /\ Whole!WellLaidOut(Shown)
  BY LoopsMeetTheAssumptions DEF Whole!ReaderInv, Whole!IInv, Whole!TypeOK, Shown
<1>5. /\ cursor <= Shown.size
      /\ \/ cursor = Whole!LayoutEnd(Shown)
         \/ \E i \in DOMAIN Shown.frames : Shown.frames[i].at = cursor
  BY <1>3, <1>4 DEF Whole!OnFrameBoundary, Shown
<1>6. Shown.size < Whole!LayoutEnd(Shown) + HeaderSize
  BY <1>4 DEF Whole!WellLaidOut, Whole!HeaderSize, HeaderSize
<1>7. cursor + HeaderSize > buf.size \/ cursor + HeaderSize <= buf.size
  BY <1>1 DEF HeaderSize
<1> QED
  BY <1>1, <1>2, <1>5, <1>6, <1>7 DEF Under

\* Inside a walk the cursor may have passed the end of the element, but the
\* end of the element is in the buffer.
LEMMA TurnEndsSooner ==
  ASSUME IInv, WalkInv, Whole!ReaderInv, LoopStep
  PROVE  TurnsAhead' < TurnsAhead
<1>1. /\ TypeOK /\ cursor \in Nat /\ buf.size \in Nat /\ Rest \in Nat
      /\ IsLoop(L) /\ WellLaidOut(L, buf)
  BY LoopFacts DEF IInv, TypeOK, Rest
<1>2. Walking => HeaderGood(Here) /\ ElementEnd(Here) <= buf.size /\ ElementEnd(Here) \in Nat
  BY WalkFacts DEF WalkInv, WalkBegan, HeaderGood
<1>3. ASSUME NEW c \in Nat, cursor' = c, cursor < c, cursor < buf.size, buf' = buf
      PROVE  Rest' \in Nat /\ Rest' < Rest
  BY <1>1, <1>3 DEF Rest
<1>4. ASSUME NEW i \in DOMAIN buf.frames, BeginElement(i)
      PROVE  TurnsAhead' < TurnsAhead
  <2>1. /\ cursor' = BodyStart(L, buf.frames[i]) /\ buf' = buf /\ phase = "between"
        /\ phase' \in {"encryptions", "subs"}
        /\ cursor + HeaderSize <= buf.size /\ buf.frames[i].at = cursor
    BY <1>4 DEF BeginElement, Under
  <2>2. cursor' \in Nat /\ cursor < cursor'
    BY <1>1, <2>1, LayoutFacts DEF IsLoop, BodyStart, HeaderSize
  <2>3. Rest' \in Nat /\ Rest' < Rest
    BY <1>1, <1>3, <2>1, <2>2 DEF HeaderSize
  <2> QED
    BY <1>1, <2>1, <2>3 DEF TurnsAhead
<1>5. CASE ReadEncryption
  <2>1. /\ cursor' = cursor + EncryptionSize /\ buf' = buf
        /\ phase = "encryptions" /\ phase' = phase /\ cursor < ElementEnd(Here)
    BY <1>5 DEF ReadEncryption, MoreEncryptions
  <2>2. Rest' \in Nat /\ Rest' < Rest
    BY <1>1, <1>2, <1>3, <2>1 DEF EncryptionSize, Walking
  <2> QED
    BY <1>1, <2>1, <2>2 DEF TurnsAhead
<1>6. ASSUME NEW n \in DOMAIN Here.subs, ReadSub(n)
      PROVE  TurnsAhead' < TurnsAhead
  <2>1. /\ cursor' = SubEnd(L, Here.subs[n]) /\ buf' = buf /\ phase = "subs"
        /\ phase' = phase /\ cursor < ElementEnd(Here) /\ Here.subs[n].at = cursor
    BY <1>6 DEF ReadSub, UnderSub
  <2>2. Here.subs[n].len \in Nat /\ L.subHeader \in Nat \ {0}
    BY <1>1, <2>1, LayoutFacts DEF IInv, HeaderIsHere, Here, IsLoop
  <2>3. cursor' \in Nat /\ cursor < cursor'
    BY <1>1, <2>1, <2>2 DEF SubEnd
  <2>4. Rest' \in Nat /\ Rest' < Rest
    BY <1>1, <1>2, <1>3, <2>1, <2>3 DEF Walking
  <2> QED
    BY <1>1, <2>1, <2>4 DEF TurnsAhead
<1>7. CASE EndEncryptions \/ EndElement
  <2>1. /\ UNCHANGED <<buf, cursor>> /\ Rest' = Rest
        /\ \/ phase = "encryptions" /\ phase' \in {"subs", "rejected"}
           \/ phase = "subs" /\ phase' \in {"between", "rejected"}
    BY <1>7 DEF EndEncryptions, EndElement, Rest
  <2> QED
    BY <1>1, <2>1 DEF TurnsAhead
<1>8. CASE \/ \E i \in DOMAIN buf.frames : RejectElement(i)
           \/ RejectEncryption
           \/ phase = "subs" /\ \E n \in DOMAIN Here.subs : RejectSub(n)
           \/ Finish
  <2>1. /\ phase \in {"between", "encryptions", "subs"}
        /\ phase' \in {"accepted", "rejected"}
    BY <1>8 DEF RejectElement, Under, RejectEncryption, MoreEncryptions, RejectSub, UnderSub,
       Finish
  <2> QED
    BY <1>1, <2>1 DEF TurnsAhead
<1> QED
  BY <1>4, <1>5, <1>6, <1>7, <1>8 DEF LoopStep

LEMMA SubIsUnder ==
  ASSUME IInv, WalkInv, phase = "subs", ~(cursor >= ElementEnd(Here))
  PROVE  \E n \in DOMAIN Here.subs : UnderSub(n)
<1>1. /\ WellWalked(L, Here) /\ cursor \in Nat /\ ElementEnd(Here) \in Nat
      /\ Len(Here.subs) \in Nat /\ DOMAIN Here.subs = 1 .. Len(Here.subs)
  BY WalkFacts DEF Walking
<1>2. cursor < ElementEnd(Here)
  BY <1>1
<1>3. PICK n \in 0 .. Len(Here.subs) : cursor = AfterSubs(L, Here, n)
  BY DEF WalkInv, SubsSoFar
<1>4. AfterSubs(L, Here, Len(Here.subs)) >= ElementEnd(Here)
  BY <1>1 DEF WalkInv, WalkBegan, Walking, HeaderGood, WellWalked
<1>5. n # Len(Here.subs)
  BY <1>1, <1>2, <1>3, <1>4
<1>6. n + 1 \in 1 .. Len(Here.subs) /\ (n + 1) - 1 = n
  BY <1>1, <1>5
<1>7. Here.subs[n + 1].at = cursor
  BY <1>1, <1>3, <1>6 DEF WellWalked
<1> QED
  BY <1>1, <1>2, <1>6, <1>7 DEF UnderSub

\* Each turn of each of the loops leaves fewer of them to come, whatever
\* lengths the sub-elements declare, zero included: their headers are not
\* empty.  Three loops that hand over to each other make no circle either.
THEOREM TurnsAreBounded ==
  Spec => /\ [](TurnsAhead \in Nat)
          /\ [][LoopStep => TurnsAhead' < TurnsAhead]_vars
<1>1. IInv => TurnsAhead \in Nat
  <2> SUFFICES ASSUME IInv PROVE TurnsAhead \in Nat
    OBVIOUS
  <2>1. Rest \in Nat
    BY LoopFacts DEF IInv, TypeOK, Rest
  <2> QED
    BY <2>1 DEF TurnsAhead
<1>2. /\ IInv /\ WalkInv /\ Whole!ReaderInv /\ [Next]_vars
      => [LoopStep => TurnsAhead' < TurnsAhead]_vars
  BY TurnEndsSooner
<1> QED
  BY <1>1, <1>2, Invariance, WalkHolds, LoopsStayReaders, PTL DEF Spec

\* No walk stops between two sub-elements, and no message between two
\* elements, with octets left that no turn looks at.
THEOREM NothingIsStuck == Spec => []ATurnIsPossible
<1>1. IInv /\ WalkInv /\ Whole!ReaderInv => ATurnIsPossible
  BY BetweenElements, SubIsUnder DEF ATurnIsPossible
<1> QED
  BY <1>1, Invariance, WalkHolds, LoopsStayReaders, PTL
-----------------------------------------------------------------------------
(***************************************************************************)
(* A fresh reader and a buffer with one element, or none: the verdict is   *)
(* that of a reading of the element without a loop.                        *)
(***************************************************************************)

\* The element is taken, whatever the message around it requires.
Taken(f) ==
  HeaderGood(f) /\ Encrypted(L, buf, f) /\ Complete(L, buf, f) /\ Len(f.subs) <= L.cap

\* It counts as present, too.
Counts(f) == Taken(f) /\ (L.byHeader \/ Len(f.subs) > 0)

Fresh == items = <<>> /\ header = Null

Done(f) ==
  /\ cursor = ElementEnd(f) /\ header = <<1, 1>> /\ Taken(f)
  /\ items = [n \in 1 .. Len(f.subs) |-> <<1, 1, n>>]
  /\ L.encryptions > 0 => encs = f.num

ReadAlone ==
  call = 1 =>
    /\ buf.frames = <<>> => phase \in {"between", "rejected"} /\ Fresh
    /\ Len(buf.frames) = 1 =>
         /\ phase = "between" => (cursor = 0 /\ Fresh) \/ Done(buf.frames[1])
         /\ Walking => saved.items = <<>>
         /\ phase = "accepted" => Done(buf.frames[1]) /\ Counts(buf.frames[1])
         /\ phase = "rejected" => ~Counts(buf.frames[1])

\* The only element there is.
LEMMA OnlyElement ==
  ASSUME TypeOK, Len(buf.frames) = 1
  PROVE  /\ DOMAIN buf.frames = {1} /\ buf.frames[1] \in Element /\ buf.frames[1].at = 0
         /\ ElementEnd(buf.frames[1]) \in Nat /\ ElementEnd(buf.frames[1]) >= HeaderSize
<1>1. WellLaidOut(L, buf) /\ IsLoop(L)
  BY LoopFacts
<1>2. DOMAIN buf.frames = {1} /\ buf.frames[1].at = 0
  <2>1. buf.frames \in Seq(Element)
    BY <1>1 DEF WellLaidOut
  <2>2. DOMAIN buf.frames = 1 .. 1 /\ 1 \in 1 .. Len(buf.frames)
    BY <2>1
  <2>3. buf.frames[1].at = (IF 1 = 1 THEN 0 ELSE ElementEnd(buf.frames[1 - 1]))
    BY <1>1, <2>2 DEF WellLaidOut
  <2> QED
    BY <2>2, <2>3
<1>3. buf.frames[1] \in Element /\ ElementEnd(buf.frames[1]) \in Nat
  BY <1>1, <1>2, LayoutFacts
<1>4. ElementEnd(buf.frames[1]) >= HeaderSize
  <2>1. buf.frames[1].len \in 0 .. MaxLength
    BY <1>3, Zenon DEF Element
  <2>2. \A n \in 0 .. MaxLength : 0 + 4 + n >= 4
    OBVIOUS
  <2> QED
    BY <1>2, <2>1, <2>2 DEF ElementEnd, HeaderSize
<1> QED
  BY <1>2, <1>3, <1>4

\* A sub-element is only refused where the element cannot be taken.
LEMMA RefusedIsNotTaken ==
  ASSUME IInv, WalkInv, saved.items = <<>>, NEW m \in DOMAIN Here.subs, RejectSub(m)
  PROVE  ~Taken(Here)
<1>1. phase = "subs" /\ Here.subs[m].at = cursor /\ ~SubGood(m)
  BY DEF RejectSub, UnderSub
<1>2. Walking
  BY <1>1 DEF Walking
<1>3. PICK n \in 0 .. Len(Here.subs) :
        /\ Continues(items, Base, n)
        /\ cursor = AfterSubs(L, Here, n)
        /\ \A k \in 1 .. n : SubFine(L, buf, Here, k)
  BY <1>1 DEF WalkInv, SubsSoFar
<1>4. /\ Len(Here.subs) \in Nat /\ DOMAIN Here.subs = 1 .. Len(Here.subs) /\ L.cap \in Nat
  BY <1>2, WalkFacts
<1>5. m = n + 1 /\ n + 1 \in 0 .. Len(Here.subs) /\ n \in Nat
  <2>1. m \in 1 .. Len(Here.subs) /\ Here.subs[m].at = AfterSubs(L, Here, n)
    BY <1>1, <1>3, <1>4
  <2>2. m = n + 1
    BY <1>2, <2>1, SubsAhead
  <2> QED
    BY <1>4, <2>1, <2>2
<1>6. Len(items) = n
  <2>1. Len(items) = Len(Base) + n
    BY <1>3 DEF Continues
  <2>2. Base = <<>> /\ Len(<<>>) = 0
    BY DEF Base
  <2> QED
    BY <1>5, <2>1, <2>2
<1>7. CASE ~SubFine(L, buf, Here, m)
  <2>1. GoodSubs(L, buf, Here) = n
    BY <1>3, <1>4, <1>5, <1>7, GoodSubsFacts
  <2>2. GoodSubs(L, buf, Here) # Len(Here.subs)
    BY <1>4, <1>5, <2>1
  <2> QED
    BY <2>2 DEF Taken, Complete
<1>8. CASE SubFine(L, buf, Here, m)
  <2>1. ~(n < L.cap)
    BY <1>1, <1>6, <1>8 DEF SubGood, SubFine, HasRoom
  <2> QED
    BY <1>4, <1>5, <2>1 DEF Taken
<1> QED
  BY <1>7, <1>8

\* At its end, a walk that has begun with nothing holds the sub-elements.
LEMMA EndOfWalk ==
  ASSUME IInv, WalkInv, saved.items = <<>>, EndElement
  PROVE  /\ phase' = "between" =>
              /\ cursor = ElementEnd(Here) /\ Taken(Here)
              /\ items = [n \in 1 .. Len(Here.subs) |-> <<call, header[2], n>>]
              /\ L.encryptions > 0 => encs = Here.num
         /\ phase' = "rejected" => ~Taken(Here)
<1>1. /\ phase = "subs" /\ cursor >= ElementEnd(Here)
      /\ phase' = (IF cursor = ElementEnd(Here) /\ L.needs \subseteq found
                     THEN "between" ELSE "rejected")
  BY DEF EndElement
<1>2. Walking
  BY <1>1 DEF Walking
<1>3. PICK n \in 0 .. Len(Here.subs) :
        /\ Continues(items, Base, n)
        /\ cursor = AfterSubs(L, Here, n)
        /\ \A k \in 1 .. n : SubFine(L, buf, Here, k)
        /\ found = {Here.subs[k].type : k \in 1 .. n}
  BY <1>1 DEF WalkInv, SubsSoFar
<1>4. /\ Len(Here.subs) \in Nat /\ DOMAIN Here.subs = 1 .. Len(Here.subs) /\ L.cap \in Nat
      /\ cursor \in Nat /\ ElementEnd(Here) \in Nat /\ header = <<call, header[2]>>
  BY <1>2, WalkFacts
<1>5. n = Len(Here.subs)
  <2> SUFFICES ASSUME n # Len(Here.subs) PROVE FALSE
    OBVIOUS
  <2>1. n + 1 \in 1 .. Len(Here.subs) /\ (n + 1) - 1 = n
    BY <1>4
  <2>2. Here.subs[n + 1].at = cursor /\ Here.subs[n + 1].at < ElementEnd(Here)
    BY <1>2, <1>3, <2>1, SubsAhead
  <2> QED
    BY <1>1, <1>4, <2>2
<1>6. GoodSubs(L, buf, Here) = n
  BY <1>3, <1>4, <1>5, GoodSubsFacts
<1>7. Complete(L, buf, Here) <=> cursor = ElementEnd(Here) /\ L.needs \subseteq found
  BY <1>3, <1>4, <1>5, <1>6 DEF Complete
<1>8. /\ Len(items) = n /\ \A k \in 1 .. n : items[k] = <<call, header[2], k>>
  <2>1. Base = <<>> /\ Len(<<>>) = 0
    BY DEF Base
  <2>2. /\ Len(items) = Len(Base) + n
        /\ \A k \in 1 .. n : items[Len(Base) + k] = <<call, header[2], k>>
    BY <1>3 DEF Continues
  <2>3. n \in Nat /\ \A k \in 1 .. n : 0 + k = k
    BY <1>4
  <2> QED
    BY <2>1, <2>2, <2>3
<1>9. items = [k \in 1 .. n |-> <<call, header[2], k>>]
  <2>1. items \in Seq(Pointer3) /\ n \in Nat
    BY <1>4 DEF IInv, TypeOK, Pointer3
  <2>2. DOMAIN items = 1 .. n /\ items = [k \in DOMAIN items |-> items[k]]
    BY <1>8, <2>1
  <2> QED
    BY <1>8, <2>2
<1>10. Len(items) <= L.cap
  BY DEF IInv, TypeOK
<1>11. HeaderGood(Here) /\ Encrypted(L, buf, Here)
  BY <1>1, <1>2 DEF WalkInv, WalkBegan, SubsSoFar
<1>12. L.encryptions > 0 => encs = Here.num
  BY <1>1, <1>2, WalkFacts DEF IInv, HeaderIsHere, EncryptionsAreHere
<1>13. phase' = "between" => Taken(Here)
  BY <1>1, <1>5, <1>7, <1>8, <1>10, <1>11 DEF Taken
<1>14. phase' = "rejected" => ~Taken(Here)
  BY <1>1, <1>7 DEF Taken
<1> QED
  BY <1>1, <1>5, <1>9, <1>12, <1>13, <1>14

LEMMA StepKeepsReadAlone == IInv /\ WalkInv /\ ReadAlone /\ [Next]_vars => ReadAlone'
<1> SUFFICES ASSUME IInv, WalkInv, ReadAlone, [Next]_vars, call' = 1
             PROVE  /\ buf'.frames = <<>> => phase' \in {"between", "rejected"} /\ Fresh'
                    /\ Len(buf'.frames) = 1 =>
                         /\ phase' = "between" =>
                              (cursor' = 0 /\ Fresh') \/ Done(buf.frames[1])'
                         /\ Walking' => saved'.items = <<>>
                         /\ phase' = "accepted" => Done(buf.frames[1])' /\ Counts(buf.frames[1])'
                         /\ phase' = "rejected" => ~Counts(buf.frames[1])'
  BY DEF ReadAlone
<1>1. call = 1 /\ UNCHANGED <<reader, buf, call>>
  <2>1. ~DeserializeAgain
    <3>1. call \in Nat \ {0}
      BY LoopFacts DEF IInv
    <3> QED
      BY <3>1 DEF DeserializeAgain
  <2> QED
    BY <2>1 DEF Next, LoopStep, BeginElement, RejectElement, ReadEncryption, RejectEncryption,
       EndEncryptions, ReadSub, RejectSub, EndElement, Finish, vars
<1>3. ASSUME buf.frames = <<>>
      PROVE  phase' \in {"between", "rejected"} /\ Fresh'
  <2>1. DOMAIN buf.frames = {} /\ phase \in {"between", "rejected"} /\ Fresh /\ ~Walking
    BY <1>1, <1>3 DEF ReadAlone, Walking
  <2>2. ~IsPresent
    BY <2>1 DEF IsPresent, Fresh
  <2>3. Finish \/ UNCHANGED vars
    BY <1>1, <2>1 DEF Next, LoopStep, EndElement, ReadEncryption, RejectEncryption,
       MoreEncryptions, EndEncryptions, DeserializeAgain, Walking
  <2> QED
    BY <2>1, <2>2, <2>3 DEF Finish, vars, Fresh, Null
<1> SUFFICES ASSUME Len(buf.frames) = 1
             PROVE  /\ phase' = "between" =>
                         (cursor' = 0 /\ Fresh') \/ Done(buf.frames[1])'
                    /\ Walking' => saved'.items = <<>>
                    /\ phase' = "accepted" => Done(buf.frames[1])' /\ Counts(buf.frames[1])'
                    /\ phase' = "rejected" => ~Counts(buf.frames[1])'
  BY <1>1, <1>3
<1> DEFINE f == buf.frames[1]
<1>4. /\ phase = "between" => (cursor = 0 /\ Fresh) \/ Done(f)
      /\ Walking => saved.items = <<>>
      /\ phase = "accepted" => Done(f) /\ Counts(f)
      /\ phase = "rejected" => ~Counts(f)
  BY <1>1 DEF ReadAlone
<1>5. /\ TypeOK /\ DOMAIN buf.frames = {1} /\ f.at = 0
      /\ ElementEnd(f) \in Nat /\ ElementEnd(f) >= HeaderSize
  BY OnlyElement DEF IInv
<1>6. Walking => Here = f /\ header = <<1, 1>> /\ header[2] = 1
  BY <1>1, <1>5, WalkFacts DEF Here
<1>7. /\ Taken(f)' <=> Taken(f)
      /\ Counts(f)' <=> Counts(f)
  BY <1>1 DEF Taken, Counts, HeaderGood, L
<1> HIDE DEF f
<1>8. CASE \E i \in DOMAIN buf.frames : BeginElement(i)
  <2>1. BeginElement(1)
    BY <1>5, <1>8
  <2>2. /\ phase = "between" /\ cursor = 0 /\ saved'.items = items
        /\ phase' \in {"encryptions", "subs"}
    BY <1>5, <2>1 DEF BeginElement, Under, f
  <2>3. ~Done(f)
    BY <1>5, <2>2 DEF Done, HeaderSize
  <2>4. saved'.items = <<>>
    BY <1>4, <2>2, <2>3 DEF Fresh
  <2> QED
    BY <2>2, <2>4
<1>9. CASE \E i \in DOMAIN buf.frames : RejectElement(i)
  <2>1. RejectElement(1)
    BY <1>5, <1>9
  <2>2. ~HeaderGood(f) /\ phase' = "rejected"
    BY <2>1 DEF RejectElement, f
  <2> QED
    BY <1>7, <2>2 DEF Counts, Taken, Walking, f
<1>10. CASE ReadEncryption \/ \E n \in DOMAIN Here.subs : ReadSub(n)
  BY <1>4, <1>10 DEF ReadEncryption, MoreEncryptions, ReadSub, UnderSub, Walking
<1>11. CASE RejectEncryption
  <2>1. /\ phase = "encryptions" /\ MoreEncryptions /\ ~EncryptionGood /\ phase' = "rejected"
    BY <1>11 DEF RejectEncryption, MoreEncryptions
  <2>2. ~Encrypted(L, buf, f)
    BY <1>6, <2>1, EncryptionsCounted DEF Walking
  <2> QED
    BY <1>7, <2>1, <2>2 DEF Counts, Taken, Walking, f
<1>12. CASE EndEncryptions
  <2>1. phase = "encryptions" /\ ~MoreEncryptions /\ saved' = saved /\ phase' \in {"subs", "rejected"}
    BY <1>12 DEF EndEncryptions
  <2>2. Walking
    BY <2>1 DEF Walking
  <2>3. CASE encs = Here.num
    BY <1>4, <1>12, <2>1, <2>2, <2>3 DEF EndEncryptions, Walking
  <2>4. CASE encs # Here.num
    <3>1. phase' = "rejected"
      BY <1>12, <2>4 DEF EndEncryptions
    <3>2. ~Encrypted(L, buf, f)
      BY <1>6, <2>1, <2>2, <2>4, EncryptionsCounted
    <3> QED
      BY <1>7, <3>1, <3>2 DEF Counts, Taken, Walking, f
  <2> QED
    BY <2>3, <2>4
<1>13. CASE \E n \in DOMAIN Here.subs : RejectSub(n)
  <2>1. Walking /\ phase' = "rejected"
    BY <1>13 DEF RejectSub, UnderSub, Walking
  <2>2. ~Taken(f)
    BY <1>4, <1>6, <1>13, <2>1, RefusedIsNotTaken
  <2> QED
    BY <1>7, <2>1, <2>2 DEF Counts, Walking, f
<1>14. CASE EndElement
  <2>1. /\ Walking /\ phase' \in {"between", "rejected"}
        /\ UNCHANGED <<cursor, header, items, encs>>
    BY <1>14 DEF EndElement, Walking
  <2>2. /\ phase' = "between" =>
             /\ cursor = ElementEnd(f) /\ Taken(f)
             /\ items = [n \in 1 .. Len(f.subs) |-> <<1, 1, n>>]
             /\ L.encryptions > 0 => encs = f.num
        /\ phase' = "rejected" => ~Taken(f)
    BY <1>1, <1>4, <1>6, <1>14, <2>1, EndOfWalk
  <2>3. phase' = "between" => Done(f)'
    BY <1>1, <1>6, <1>7, <2>1, <2>2 DEF Done, f, L
  <2> QED
    BY <1>7, <2>1, <2>2, <2>3 DEF Counts, Walking, f
<1>15. CASE Finish
  <2>1. /\ phase = "between" /\ cursor + HeaderSize > buf.size
        /\ phase' = (IF IsPresent THEN "accepted" ELSE "rejected")
        /\ UNCHANGED <<cursor, header, items, encs>>
    BY <1>15 DEF Finish
  <2>2. ~Walking'
    BY <2>1 DEF Walking
  <2>3. CASE cursor = 0 /\ Fresh
    <3>1. ~IsPresent
      BY <2>3 DEF IsPresent, Fresh
    <3>2. ~Taken(f)
      <4>1. buf.size \in Nat
        BY <1>5, LoopFacts
      <4> QED
        BY <1>5, <2>1, <2>3, <4>1 DEF Taken, HeaderGood, HeaderSize
    <3> QED
      BY <1>7, <2>1, <2>2, <3>1, <3>2 DEF Counts, f
  <2>4. CASE Done(f)
    <3>1. Done(f)'
      BY <1>1, <1>7, <2>1, <2>4 DEF Done, f, L
    <3>2. IsPresent <=> L.byHeader \/ Len(f.subs) > 0
      <4>1. f.subs \in Seq(SubElement) /\ header # Null
        <5>1. f \in Element
          BY OnlyElement DEF IInv, f
        <5> QED
          BY <2>4, <5>1 DEF Element, Done, Null
      <4>2. items # <<>> <=> Len(f.subs) > 0
        <5>1. items = [n \in 1 .. Len(f.subs) |-> <<1, 1, n>>] /\ Len(f.subs) \in Nat
          BY <2>4, <4>1 DEF Done
        <5>2. DOMAIN items = 1 .. Len(f.subs)
          BY <5>1
        <5>3. items \in Seq(Pointer3)
          BY DEF IInv, TypeOK, Pointer3
        <5>4. Len(items) = Len(f.subs)
          BY <5>1, <5>2, <5>3
        <5>5. items # <<>> <=> Len(items) > 0
          BY <5>3
        <5> QED
          BY <5>4, <5>5
      <4>3. L.byHeader \in BOOLEAN
        BY <1>5, LoopFacts DEF IsLoop
      <4> QED
        BY <4>1, <4>2, <4>3 DEF IsPresent
    <3>3. Counts(f) <=> IsPresent
      BY <2>4, <3>2 DEF Counts, Done
    <3> QED
      BY <1>7, <2>1, <2>2, <3>1, <3>3 DEF f
  <2> QED
    BY <1>4, <2>1, <2>3, <2>4
<1>16. CASE UNCHANGED vars
  <2>1. UNCHANGED <<cursor, phase, header, items, encs, saved>>
    BY <1>16 DEF vars
  <2>2. (Done(f)' <=> Done(f)) /\ (Fresh' <=> Fresh) /\ (Walking' <=> Walking)
    BY <1>1, <1>7, <2>1 DEF Done, Fresh, Walking, f, L, Null
  <2> QED
    BY <1>4, <1>7, <2>1, <2>2 DEF f
<1>17. ~DeserializeAgain
  <2>1. call \in Nat
    BY LoopFacts DEF IInv
  <2> QED
    BY <1>1, <2>1 DEF DeserializeAgain
<1> QED
  BY <1>8, <1>9, <1>10, <1>11, <1>12, <1>13, <1>14, <1>15, <1>16, <1>17 DEF Next, LoopStep

\* A fresh reader with one element to read decides as one would without a loop.
THEOREM ReadsAlone == Spec => []ReadAlone
<1>1. Init => ReadAlone
  BY DEF Init, ReadAlone, Walking, Fresh
<1> QED
  BY <1>1, Invariance, WalkHolds, StepKeepsReadAlone, PTL DEF Spec
-----------------------------------------------------------------------------
(***************************************************************************)
(* What a writer writes.                                                   *)
(***************************************************************************)

LEMMA OctetsFacts ==
  ASSUME NEW l, IsLoop(l), NEW v, IsValue(v)
  PROVE  /\ Len(v.subs) \in Nat /\ DOMAIN v.subs = 1 .. Len(v.subs) /\ v.num \in Nat
         /\ \A n \in 1 .. Len(v.subs) : v.subs[n].len \in Nat /\ v.subs[n].ok \in BOOLEAN
         /\ Octets(l, v, 0) = EncryptionSize * v.num
         /\ \A n \in 0 .. Len(v.subs) :
              /\ Octets(l, v, n) \in Nat
              /\ EncryptionSize * v.num <= Octets(l, v, n)
              /\ Octets(l, v, n) <= Octets(l, v, Len(v.subs))
         /\ \A n \in 1 .. Len(v.subs) :
              /\ Octets(l, v, n) = Octets(l, v, n - 1) + l.subHeader + v.subs[n].len
              /\ Octets(l, v, n - 1) + l.subHeader <= Octets(l, v, n)
              /\ Octets(l, v, n - 1) < Octets(l, v, n)
<1> DEFINE N == Len(v.subs)
           a == SubSizes(l, v)
           S(n) == SumUpTo(a, n)
<1>1. /\ v.subs \in Seq([type : STRING, len : Nat, ok : BOOLEAN]) /\ v.num \in Nat
      /\ l.subHeader \in Nat \ {0}
  BY DEF IsValue, IsLoop
<1>2. N \in Nat /\ DOMAIN v.subs = 1 .. N
      /\ \A n \in 1 .. N : v.subs[n].len \in Nat /\ v.subs[n].ok \in BOOLEAN
  <2>1. N \in Nat /\ DOMAIN v.subs = 1 .. N
    BY <1>1
  <2>2. ASSUME NEW n \in 1 .. N PROVE v.subs[n].len \in Nat /\ v.subs[n].ok \in BOOLEAN
    <3>1. v.subs[n] \in [type : STRING, len : Nat, ok : BOOLEAN]
      BY <1>1, <2>1, ElementOfSeq, Zenon
    <3> QED
      BY <3>1
  <2> QED
    BY <2>1, <2>2
<1>3. \A n \in 1 .. N : a[n] = l.subHeader + v.subs[n].len /\ a[n] \in Nat
  BY <1>1, <1>2 DEF SubSizes
<1> HIDE DEF a
<1>4. S(0) = 0 /\ \A n \in Nat : S(n + 1) = S(n) + a[n + 1]
  BY SumUpToSteps
<1>5. \A n \in 0 .. N : S(n) \in Nat /\ S(n) <= S(N)
  BY <1>2, <1>3, SumIsNat
<1>6. EncryptionSize * v.num \in Nat
  BY <1>1 DEF EncryptionSize
<1>7. \A n : Octets(l, v, n) = EncryptionSize * v.num + S(n)
  BY DEF Octets, a
<1> HIDE DEF S, N
<1>8. \A n \in 1 .. N : S(n) = S(n - 1) + a[n] /\ n - 1 \in 0 .. N
  <2> SUFFICES ASSUME NEW n \in 1 .. N PROVE S(n) = S(n - 1) + a[n] /\ n - 1 \in 0 .. N
    OBVIOUS
  <2>1. n - 1 \in Nat /\ (n - 1) + 1 = n /\ n - 1 \in 0 .. N
    BY <1>2
  <2> QED
    BY <1>4, <2>1
<1>8a. PICK e : e = EncryptionSize * v.num
  OBVIOUS
<1>9. e \in Nat /\ \A n : Octets(l, v, n) = e + S(n)
  BY <1>6, <1>7, <1>8a
<1>10. Octets(l, v, 0) = e
  BY <1>4, <1>9
<1>11. ASSUME NEW n \in 0 .. N
       PROVE  /\ Octets(l, v, n) \in Nat /\ e <= Octets(l, v, n)
              /\ Octets(l, v, n) <= Octets(l, v, N)
  <2>1. S(n) \in Nat /\ S(n) <= S(N) /\ S(N) \in Nat
    BY <1>2, <1>5
  <2>2. Octets(l, v, n) = e + S(n) /\ Octets(l, v, N) = e + S(N)
    BY <1>9
  <2> QED
    BY <1>9, <2>1, <2>2
<1>12. ASSUME NEW n \in 1 .. N
       PROVE  /\ Octets(l, v, n) = Octets(l, v, n - 1) + l.subHeader + v.subs[n].len
              /\ Octets(l, v, n - 1) + l.subHeader <= Octets(l, v, n)
              /\ Octets(l, v, n - 1) < Octets(l, v, n)
  <2>1. /\ S(n) = S(n - 1) + a[n] /\ S(n - 1) \in Nat /\ v.subs[n].len \in Nat
        /\ a[n] = l.subHeader + v.subs[n].len
    BY <1>2, <1>3, <1>5, <1>8
  <2>2. Octets(l, v, n) = e + S(n) /\ Octets(l, v, n - 1) = e + S(n - 1)
    BY <1>9
  <2>4. l.subHeader \in Nat /\ l.subHeader > 0
    BY <1>1
  <2>5. Octets(l, v, n) = e + (S(n - 1) + (l.subHeader + v.subs[n].len))
    BY <2>1, <2>2, Zenon
  <2> DEFINE o == Octets(l, v, n)
             p == Octets(l, v, n - 1)
             x == S(n - 1)
             h == l.subHeader
             y == v.subs[n].len
  <2>6. /\ x \in Nat /\ h \in Nat /\ y \in Nat /\ h > 0
        /\ o = e + (x + (h + y)) /\ p = e + x
    BY <2>1, <2>2, <2>4, <2>5
  <2> HIDE DEF o, p, x, h, y
  <2>7. o = p + h + y /\ p + h <= o /\ p < o
    BY <1>9, <2>6
  <2> QED
    BY <2>7 DEF o, p, x, h, y
<1>13. /\ v.num \in Nat
       /\ Octets(l, v, 0) = EncryptionSize * v.num
       /\ \A n \in 0 .. N : EncryptionSize * v.num <= Octets(l, v, n)
  BY <1>1, <1>8a, <1>10, <1>11
<1> QED
  BY <1>2, <1>11, <1>12, <1>13, Zenon DEF N

\* When no sum is cut down, all sub-elements begin in the octets the element
\* says it has, back to back behind the header and up to the end.
LEMMA WrittenFacts ==
  ASSUME NEW l, IsLoop(l), NEW v, IsValue(v), SumFits(l, v), IsWritten(l, v),
         NEW b, b = Serialize(l, v), NEW f, f = b.frames[1]
  PROVE  /\ Len(b.frames) = 1
         /\ f.at = 0 /\ f.len = l.fixed + Octets(l, v, Len(v.subs))
         /\ f.valid = Header(l, v).valid /\ f.num = v.num % UInt8
         /\ Len(f.encs) = v.num /\ \A e \in 1 .. v.num : f.encs[e]
         /\ Len(f.subs) = Len(v.subs) /\ DOMAIN f.subs = 1 .. Len(v.subs)
         /\ \A n \in 1 .. Len(v.subs) :
              /\ f.subs[n].type = v.subs[n].type /\ f.subs[n].ok = v.subs[n].ok
              /\ f.subs[n].at = HeaderSize + l.fixed + Octets(l, v, n - 1)
              /\ f.subs[n].len = v.subs[n].len
         /\ b.size = HeaderSize + l.fixed + Octets(l, v, Len(v.subs))
<1> DEFINE N == Len(v.subs)
           start == HeaderSize + l.fixed
           begun == {n \in DOMAIN v.subs : start + Octets(l, v, n - 1) < GetTotalLength(l, v)}
           marks == [e \in 1 .. v.num |-> TRUE]
           parts == [n \in 1 .. Cardinality(begun) |->
                      [type |-> v.subs[n].type, at |-> start + Octets(l, v, n - 1),
                       len |-> v.subs[n].len, ok |-> v.subs[n].ok]]
           g == [at |-> 0, len |-> Header(l, v).len, valid |-> Header(l, v).valid,
                 num |-> Header(l, v).num, encs |-> marks, subs |-> parts]
<1>1. b = [size |-> GetTotalLength(l, v), frames |-> <<g>>]
  BY DEF Serialize
<1>2. b.size = GetTotalLength(l, v) /\ b.frames = <<g>> /\ f = g /\ Len(b.frames) = 1
  <2> HIDE DEF g
  <2>1. b.size = GetTotalLength(l, v) /\ b.frames = <<g>>
    BY <1>1
  <2> QED
    BY <2>1
<1>3. /\ N \in Nat /\ DOMAIN v.subs = 1 .. N /\ v.num \in Nat
      /\ Octets(l, v, N) \in Nat /\ l.fixed \in Nat
      /\ \A n \in 1 .. N : Octets(l, v, n - 1) \in Nat /\ Octets(l, v, n - 1) < Octets(l, v, N)
  <2>1. N \in Nat /\ DOMAIN v.subs = 1 .. N /\ v.num \in Nat
        /\ Octets(l, v, N) \in Nat /\ l.fixed \in Nat
    BY OctetsFacts DEF IsLoop
  <2>2. ASSUME NEW n \in 1 .. N
        PROVE  Octets(l, v, n - 1) \in Nat /\ Octets(l, v, n - 1) < Octets(l, v, N)
    <3>1. n - 1 \in 0 .. N /\ n \in 0 .. N
      BY <2>1
    <3>2. /\ Octets(l, v, n - 1) \in Nat /\ Octets(l, v, n) \in Nat
          /\ Octets(l, v, n) <= Octets(l, v, N)
      BY <3>1, OctetsFacts
    <3>3. Octets(l, v, n - 1) < Octets(l, v, n)
      BY OctetsFacts
    <3> QED
      BY <2>1, <3>2, <3>3
  <2> QED
    BY <2>1, <2>2
<1> HIDE DEF N
<1>4. Header(l, v).len = l.fixed + Octets(l, v, N) /\ Header(l, v).num = v.num % UInt8
  <2>1. l.fixed + Octets(l, v, N) < UInt16
    BY DEF SumFits, N
  <2>2. \A x, y \in Nat : x + y < UInt16 => y % UInt16 = y /\ (x + y) % UInt16 = x + y
    BY DEF UInt16
  <2>3. GetSubElementsSize(l, v) = Octets(l, v, N)
    BY <1>3, <2>1, <2>2 DEF GetSubElementsSize, N
  <2>4. Header(l, v).len = (l.fixed + GetSubElementsSize(l, v)) % UInt16
        /\ Header(l, v).num = v.num % UInt8
    BY DEF Header
  <2> QED
    BY <1>3, <2>1, <2>2, <2>3, <2>4
<1>5. GetTotalLength(l, v) = start + Octets(l, v, N)
  BY <1>3, <1>4 DEF GetTotalLength, HeaderSize
<1>6. begun = 1 .. N
  BY <1>3, <1>5 DEF HeaderSize
<1>7. Cardinality(begun) = N
  <2>1. \A n \in Nat : Cardinality(1 .. n) = n
    <3> SUFFICES ASSUME NEW n \in Nat PROVE Cardinality(1 .. n) = n
      OBVIOUS
    <3>1. 1 \in Int /\ n \in Int
      OBVIOUS
    <3>2. Cardinality(1 .. n) = (IF 1 > n THEN 0 ELSE n - 1 + 1)
      BY <3>1, FS_Interval
    <3> QED
      BY <3>2
  <2> QED
    BY <1>3, <1>6, <2>1
<1> HIDE DEF begun
<1>8. /\ DOMAIN parts = 1 .. N
      /\ \A n \in 1 .. N :
           /\ parts[n].type = v.subs[n].type /\ parts[n].ok = v.subs[n].ok
           /\ parts[n].at = start + Octets(l, v, n - 1) /\ parts[n].len = v.subs[n].len
  BY <1>7
<1>9. Len(parts) = N
  BY <1>3, <1>7
<1>10. Len(marks) = v.num /\ \A e \in 1 .. v.num : marks[e]
  BY <1>3
<1>11. /\ f.at = 0 /\ f.len = Header(l, v).len /\ f.valid = Header(l, v).valid
       /\ f.num = Header(l, v).num /\ f.encs = marks /\ f.subs = parts
  <2> HIDE DEF parts, marks
  <2> QED
    BY <1>2
<1> HIDE DEF parts, marks, g
<1> QED
  BY <1>2, <1>3, <1>4, <1>5, <1>8, <1>9, <1>10, <1>11 DEF N

\* All sub-elements are good exactly when each of them is.
LEMMA AllSubsGood ==
  ASSUME NEW f, Len(f.subs) \in Nat
  PROVE  GoodSubs(L, buf, f) = Len(f.subs) <=> \A k \in 1 .. Len(f.subs) : SubFine(L, buf, f, k)
<1> DEFINE N == Len(f.subs)
           T == {m \in 0 .. N : \A k \in 1 .. m : SubFine(L, buf, f, k)}
<1>1. ASSUME \A k \in 1 .. N : SubFine(L, buf, f, k) PROVE GoodSubs(L, buf, f) = N
  BY <1>1, GoodSubsFacts
<1>2. ASSUME GoodSubs(L, buf, f) = N PROVE \A k \in 1 .. N : SubFine(L, buf, f, k)
  <2>1. 0 \in T /\ T \in SUBSET Nat /\ (\A m \in T : m <= N) /\ Max(T) = N
    BY <1>2 DEF GoodSubs
  <2>2. \A m \in T : \A k \in 1 .. m : SubFine(L, buf, f, k)
    OBVIOUS
  <2> HIDE DEF T
  <2>3. N \in T
    BY <2>1, GreatestElement
  <2> QED
    BY <2>2, <2>3
<1> QED
  BY <1>1, <1>2

\* A writer's encryption sub-elements are all there; they are too many for the
\* header only where the layout is another one.
LEMMA WrittenEncrypted ==
  ASSUME TypeOK, NEW f \in Element, WellWalked(L, f), NEW k \in Nat,
         f.num = k % UInt8, Len(f.encs) = k, \A e \in 1 .. k : f.encs[e],
         BodyStart(L, f) \in Nat, BodyStart(L, f) + EncryptionSize * k <= buf.size
  PROVE  /\ Encrypted(L, buf, f) <=> (L.encryptions > 0 => k <= L.encryptions)
         /\ L.encryptions > 0 => f.num = k
<1>1. L.encryptions \in Nat /\ buf.size \in Nat
  BY LoopFacts
<1> SUFFICES ASSUME L.encryptions > 0
             PROVE  f.num = k /\ (Encrypted(L, buf, f) <=> k <= L.encryptions)
  BY <1>1 DEF Encrypted
<1>2. f.num = k
  <2>1. k <= f.num
    BY <1>1 DEF WellWalked
  <2>2. \A n \in Nat : n <= n % UInt8 => n % UInt8 = n
    BY DEF UInt8
  <2> QED
    BY <2>1, <2>2
<1>3. ASSUME NEW e \in 1 .. k PROVE EncryptionFine(L, buf, f, e)
  <2>1. e \in Nat /\ e <= k
    OBVIOUS
  <2>2. BodyStart(L, f) + EncryptionSize * e <= buf.size
    BY <1>1, <2>1 DEF EncryptionSize
  <2> QED
    BY <2>2 DEF EncryptionFine
<1> DEFINE T == {n \in 0 .. Len(f.encs) :
                   n <= L.encryptions /\ \A e \in 1 .. n : EncryptionFine(L, buf, f, e)}
<1>4. /\ GoodEncryptions(L, buf, f) = Max(T) /\ 0 \in T /\ T \in SUBSET Nat
      /\ \A n \in T : n <= k /\ n <= L.encryptions
      /\ k <= L.encryptions => k \in T
  <2>1. GoodEncryptions(L, buf, f) = Max(T)
    BY DEF GoodEncryptions
  <2> QED
    BY <1>1, <1>3, <2>1
<1> HIDE DEF T
<1>5. CASE k <= L.encryptions
  <2>1. Max(T) = k
    BY <1>4, <1>5, MaxIs
  <2> QED
    BY <1>2, <1>4, <1>5, <2>1 DEF Encrypted
<1>6. CASE ~(k <= L.encryptions)
  <2>1. Max(T) \in T
    BY <1>4, GreatestElement
  <2>2. Max(T) # k
    BY <1>4, <1>6, <2>1
  <2> QED
    BY <1>2, <1>4, <1>6, <2>2 DEF Encrypted
<1> QED
  BY <1>2, <1>5, <1>6

\* Read without a loop, what is written is taken exactly when it is sound.
LEMMA WrittenCounts ==
  ASSUME TypeOK, IsAcl(L) => L.cap < UInt8, NEW v, IsValue(v), SumFits(L, v),
         IsWritten(L, v), buf = Serialize(L, v), NEW f, f = buf.frames[1]
  PROVE  /\ Counts(f) <=> Sound(L, v)
         /\ Len(f.subs) = Len(v.subs)
         /\ L.encryptions > 0 => f.num = v.num
<1> DEFINE N == Len(v.subs)
           o(n) == Octets(L, v, n)
           start == HeaderSize + L.fixed
<1>1. IsLoop(L) /\ WellLaidOut(L, buf)
  BY LoopFacts
<1>2. /\ Len(buf.frames) = 1
      /\ f.at = 0 /\ f.len = L.fixed + o(N)
      /\ f.valid = Header(L, v).valid /\ f.num = v.num % UInt8
      /\ Len(f.encs) = v.num /\ \A e \in 1 .. v.num : f.encs[e]
      /\ Len(f.subs) = N /\ DOMAIN f.subs = 1 .. N
      /\ \A n \in 1 .. N :
           /\ f.subs[n].type = v.subs[n].type /\ f.subs[n].ok = v.subs[n].ok
           /\ f.subs[n].at = start + o(n - 1)
           /\ f.subs[n].len = v.subs[n].len
      /\ buf.size = start + o(N)
  BY <1>1, WrittenFacts
<1>3. /\ N \in Nat /\ DOMAIN v.subs = 1 .. N /\ v.num \in Nat /\ o(0) = EncryptionSize * v.num
      /\ \A n \in 1 .. N : v.subs[n].len \in Nat /\ v.subs[n].ok \in BOOLEAN
      /\ \A n \in 0 .. N : o(n) \in Nat /\ EncryptionSize * v.num <= o(n) /\ o(n) <= o(N)
      /\ \A n \in 1 .. N : o(n) = o(n - 1) + L.subHeader + v.subs[n].len
                           /\ o(n - 1) + L.subHeader <= o(n)
  BY <1>1, OctetsFacts
<1>4. L.fixed \in Nat /\ L.subHeader \in Nat /\ L.encryptions \in Nat /\ L.cap \in Nat
      /\ L.byHeader \in BOOLEAN
  BY <1>1 DEF IsLoop
<1> HIDE DEF o, N
<1>5. o(N) \in Nat /\ EncryptionSize * v.num <= o(N) /\ EncryptionSize * v.num \in Nat
  BY <1>3 DEF EncryptionSize
<1>6. /\ BodyStart(L, f) = start /\ start \in Nat
      /\ ElementEnd(f) = start + o(N)
      /\ SubsStart(L, f) = start + EncryptionSize * v.num
  BY <1>2, <1>4, <1>5 DEF BodyStart, ElementEnd, SubsStart, HeaderSize
<1> HIDE DEF start
<1>7. HeaderGood(f) <=> Header(L, v).valid
  BY <1>2, <1>4, <1>5, <1>6 DEF HeaderGood
<1>8. f \in Element /\ WellWalked(L, f)
  <2>1. 1 \in DOMAIN buf.frames /\ f \in Element
    BY <1>2, OnlyElement
  <2>2. 1 \in 1 .. Len(buf.frames)
    BY <1>2
  <2> QED
    BY <1>1, <2>1, <2>2 DEF WellLaidOut
<1>9. /\ Encrypted(L, buf, f) <=> (L.encryptions > 0 => v.num <= L.encryptions)
      /\ L.encryptions > 0 => f.num = v.num
  <2>1. BodyStart(L, f) \in Nat /\ BodyStart(L, f) + EncryptionSize * v.num <= buf.size
    BY <1>2, <1>5, <1>6
  <2> QED
    BY <1>2, <1>3, <1>8, <2>1, WrittenEncrypted
<1>10. ASSUME NEW k \in 1 .. N
       PROVE  SubFine(L, buf, f, k) <=> v.subs[k].ok
  <2>1. k \in 0 .. N /\ k - 1 \in 0 .. N
    BY <1>3
  <2>2. o(k - 1) + L.subHeader <= o(k) /\ o(k) <= o(N) /\ o(k - 1) \in Nat /\ o(k) \in Nat
    BY <1>3, <2>1
  <2>3. f.subs[k].at = start + o(k - 1) /\ f.subs[k].ok = v.subs[k].ok
    BY <1>2
  <2>4. f.subs[k].at + L.subHeader <= buf.size
    BY <1>2, <1>4, <1>5, <1>6, <2>2, <2>3
  <2> QED
    BY <2>3, <2>4 DEF SubFine
<1>11. AfterSubs(L, f, N) = ElementEnd(f)
  <2>1. CASE N = 0
    BY <1>3, <1>6, <2>1 DEF AfterSubs
  <2>2. CASE N # 0
    <3>1. N \in 1 .. N /\ N - 1 \in 0 .. N
      BY <1>3, <2>2
    <3>2. o(N) = o(N - 1) + L.subHeader + v.subs[N].len /\ o(N - 1) \in Nat /\ v.subs[N].len \in Nat
      BY <1>3, <3>1
    <3>3. f.subs[N].at = start + o(N - 1) /\ f.subs[N].len = v.subs[N].len
      BY <1>2, <3>1
    <3>4. SubEnd(L, f.subs[N]) = start + o(N)
      BY <1>4, <1>6, <3>2, <3>3 DEF SubEnd
    <3> QED
      BY <1>6, <2>2, <3>4 DEF AfterSubs
  <2> QED
    BY <2>1, <2>2
<1>12. Complete(L, buf, f) <=>
         /\ \A n \in DOMAIN v.subs : v.subs[n].ok
         /\ L.needs \subseteq {v.subs[n].type : n \in DOMAIN v.subs}
  <2>1. GoodSubs(L, buf, f) = Len(f.subs) <=> \A n \in 1 .. N : v.subs[n].ok
    <3>1. GoodSubs(L, buf, f) = Len(f.subs) <=> \A k \in 1 .. Len(f.subs) : SubFine(L, buf, f, k)
      BY <1>2, <1>3, AllSubsGood
    <3>2. Len(f.subs) = N
      BY <1>2
    <3> QED
      BY <1>10, <3>1, <3>2, Zenon
  <2>2. {f.subs[n].type : n \in DOMAIN f.subs} = {v.subs[n].type : n \in DOMAIN v.subs}
    <3>1. /\ DOMAIN f.subs = 1 .. N /\ DOMAIN v.subs = 1 .. N
          /\ \A n \in 1 .. N : f.subs[n].type = v.subs[n].type
      BY <1>2, <1>3
    <3> QED
      BY <3>1, Zenon
  <2> QED
    BY <1>2, <1>3, <1>11, <2>1, <2>2 DEF Complete
<1>13. v.subs # <<>> <=> N > 0
  <2>1. v.subs \in Seq([type : STRING, len : Nat, ok : BOOLEAN])
    BY DEF IsValue
  <2> QED
    BY <1>3, <2>1, EmptySeq DEF N
<1>14. Header(L, v).valid <=>
         /\ v.vendor
         /\ L.encryptions > 0 => v.num % UInt8 # 0
         /\ IsAcl(L) => N % UInt8 # 0
  BY DEF Header, N
<1>15. L.encryptions > 0 => (v.num % UInt8 # 0 <=> v.num >= 1)
  BY <1>2, <1>3, <1>9
<1>16. IsAcl(L) /\ N <= L.cap => N % UInt8 # 0
  <2>1. \A n \in Nat : n > 0 /\ n < UInt8 => n % UInt8 # 0
    BY DEF UInt8
  <2>2. ASSUME IsAcl(L), N <= L.cap PROVE N > 0 /\ N < UInt8
    <3>1. v.subs # <<>> /\ L.cap < UInt8
      BY <2>2 DEF IsWritten
    <3>2. UInt8 \in Nat
      BY DEF UInt8
    <3> QED
      BY <1>3, <1>4, <1>13, <2>2, <3>1, <3>2
  <2> QED
    BY <1>3, <2>1, <2>2
<1>17. Counts(f) <=>
         /\ Header(L, v).valid
         /\ L.encryptions > 0 => v.num <= L.encryptions
         /\ \A n \in DOMAIN v.subs : v.subs[n].ok
         /\ L.needs \subseteq {v.subs[n].type : n \in DOMAIN v.subs}
         /\ N <= L.cap
         /\ L.byHeader \/ v.subs # <<>>
  BY <1>2, <1>7, <1>9, <1>12, <1>13 DEF Counts, Taken
<1>18. Sound(L, v) <=>
         /\ v.vendor
         /\ L.encryptions > 0 => v.num >= 1 /\ v.num <= L.encryptions
         /\ \A n \in DOMAIN v.subs : v.subs[n].ok
         /\ N <= L.cap
         /\ ~L.byHeader => v.subs # <<>>
         /\ L.needs \subseteq {v.subs[n].type : n \in DOMAIN v.subs}
  <2>1. v.num \in 1 .. L.encryptions <=> v.num >= 1 /\ v.num <= L.encryptions
    BY <1>3, <1>4
  <2> QED
    BY <2>1, Zenon DEF Sound, N
<1> DEFINE allOk == \A n \in DOMAIN v.subs : v.subs[n].ok
           hasAll == L.needs \subseteq {v.subs[n].type : n \in DOMAIN v.subs}
<1> HIDE DEF allOk, hasAll
<1>19. Counts(f) <=> Sound(L, v)
  BY <1>4, <1>14, <1>15, <1>16, <1>17, <1>18, Zenon DEF allOk, hasAll
<1> QED
  BY <1>2, <1>9, <1>19 DEF N

\* What the writers write their readers read back, whole, when it is sound and
\* the sum of the lengths is not cut down; otherwise it is refused.
THEOREM WrittenAndRead == Spec => []WrittenIsReadBack
<1>1. IInv /\ WalkInv /\ ReadAlone => WrittenIsReadBack
  <2> SUFFICES ASSUME IInv, WalkInv, ReadAlone,
                      phase \in {"accepted", "rejected"}, call = 1,
                      NEW v \in Given[reader], buf = Written[reader][v], SumFits(L, v)
               PROVE  /\ phase = "accepted" <=> Sound(L, v)
                      /\ phase = "accepted" =>
                           /\ items = [n \in DOMAIN v.subs |-> <<1, 1, n>>]
                           /\ L.encryptions > 0 => encs = v.num
    BY DEF WrittenIsReadBack
  <2>1. reader \in DOMAIN Readers /\ TypeOK
    BY DEF IInv, TypeOK, Names
  <2>2. /\ IsValue(v) /\ reader \in DOMAIN Given
        /\ IsAcl(L) => L.cap < UInt8 /\ ~L.byHeader
    BY <2>1, GivenAssumption, AclAssumption DEF L
  <2>3. buf = Serialize(L, v)
    BY <2>2 DEF Written, L
  <2>4. CASE ~IsWritten(L, v)
    <3>1. buf.frames = <<>>
      BY <2>3, <2>4 DEF Serialize
    <3>2. phase = "rejected"
      BY <3>1 DEF ReadAlone
    <3>3. ~Sound(L, v)
      BY <2>2, <2>4 DEF IsWritten, Sound
    <3> QED
      BY <3>2, <3>3
  <2>5. CASE IsWritten(L, v)
    <3> DEFINE f == buf.frames[1]
    <3>1. Len(buf.frames) = 1
      BY <2>1, <2>2, <2>3, <2>5, LoopFacts, WrittenFacts
    <3>2. /\ Counts(f) <=> Sound(L, v)
          /\ Len(f.subs) = Len(v.subs)
          /\ L.encryptions > 0 => f.num = v.num
      BY <2>1, <2>2, <2>3, <2>5, WrittenCounts
    <3>3. /\ phase = "accepted" => Done(f) /\ Counts(f)
          /\ phase = "rejected" => ~Counts(f)
      BY <3>1 DEF ReadAlone
    <3>4. DOMAIN v.subs = 1 .. Len(f.subs)
      BY <2>1, <2>2, <3>2, LoopFacts, OctetsFacts
    <3>5. phase = "accepted" =>
            /\ items = [n \in 1 .. Len(f.subs) |-> <<1, 1, n>>]
            /\ L.encryptions > 0 => encs = f.num
      BY <3>3 DEF Done
    <3> QED
      BY <3>2, <3>3, <3>4, <3>5
  <2> QED
    BY <2>4, <2>5
<1> QED
  BY <1>1, Invariance, WalkHolds, ReadsAlone, PTL
=============================================================================
