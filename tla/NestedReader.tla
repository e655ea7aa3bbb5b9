----------------------------- MODULE NestedReader -----------------------------
(***************************************************************************)
(* The readers of the elements that hold sub-elements - AC Descriptor, WTP *)
(* Board Data, WTP Descriptor, Add and Delete MAC ACL Entry - one turn of  *)
(* their loops at a time.  MessageReader takes such an element in one      *)
(* step; here it is shown that the loops keep to that.                     *)
(*                                                                         *)
(* One reader object reads buffers that hold elements of its own type.     *)
(* A walk over an element looks at the sub-element under the cursor as     *)
(* long as the cursor is before the end the element declares; the last     *)
(* sub-element may lie across that end, and so may its header, whose       *)
(* fields are then whatever follows.                                       *)
(***************************************************************************)
EXTENDS Integers, Sequences, FiniteSetsExt

CONSTANTS
  Readers,   \* the loops that are checked: a function from names to loops
  Buffers,   \* per reader, the buffers it may be given
  MaxCalls   \* how often one reader object is used

HeaderSize == 4
EncryptionSize == 3   \* sizeof(EncryptionSubElement)
MaxLength == 65535    \* of an element: the length has two octets

(***************************************************************************)
(* The loops, as records:                                                  *)
(*   fixed        octets of the fixed part, which minLen is too            *)
(*   subHeader    octets of the header of a sub-element                    *)
(*   cap          slots of the table                                       *)
(*   capFirst     the table is looked at before the sub-element            *)
(*   bounded      a sub-element's header must lie in the raw data          *)
(*   resets, byHeader   as in MessageReader                                *)
(*   encryptions  slots for encryption sub-elements, 0 if there are none   *)
(*   needs        the sub-elements that must have been seen in the end     *)
(***************************************************************************)
Loop(fixed, subHeader, cap, capFirst, bounded, resets, byHeader, encryptions, needs) ==
  [fixed |-> fixed, subHeader |-> subHeader, cap |-> cap, capFirst |-> capFirst,
   bounded |-> bounded, resets |-> resets, byHeader |-> byHeader,
   encryptions |-> encryptions, needs |-> needs]

ACDescriptorLoop == Loop(12, 8, 8, TRUE, FALSE, "never", FALSE, 0, {})

WTPBoardDataLoop ==
  Loop(4, 4, 10, FALSE, TRUE, "never", TRUE, 0, {"WTPModelNumber", "WTPSerialNumber"})

WTPDescriptorLoop ==
  Loop(3, 8, 8, FALSE, TRUE, "late", TRUE, 4,
       {"HardwareVersion", "ActiveSoftwareVersion", "BootVersion"})

AddMacAclEntryLoop == Loop(1, 1, 255, TRUE, FALSE, "start", FALSE, 0, {})
DeleteMacAclEntryLoop == Loop(1, 1, 255, TRUE, FALSE, "start", FALSE, 0, {})

\* An element in a buffer: where it starts, its declared length, whether its
\* fixed part passes Validate, NumEncrypt, which of its encryption
\* sub-elements are valid, and the sub-elements as the walk meets them.
SubElement == [type : STRING, at : Nat, len : Nat, ok : BOOLEAN]
Element == [at : Nat, len : 0 .. MaxLength, valid : BOOLEAN, num : Nat,
            encs : Seq(BOOLEAN), subs : Seq(SubElement)]

ElementEnd(f) == f.at + HeaderSize + f.len
BodyStart(l, f) == f.at + HeaderSize + l.fixed
SubsStart(l, f) == BodyStart(l, f) + EncryptionSize * Len(f.encs)
SubEnd(l, s) == s.at + l.subHeader + s.len

\* Where the cursor is after n sub-elements.
AfterSubs(l, f, n) == IF n = 0 THEN SubsStart(l, f) ELSE SubEnd(l, f.subs[n])

\* The walk is complete: as many encryption sub-elements as are asked for and
\* begin before the end, then sub-elements back to back up to the end.
WellWalked(l, f) ==
  /\ IF l.encryptions = 0 THEN f.encs = <<>>
     ELSE /\ Len(f.encs) <= f.num
          /\ \A e \in 1 .. Len(f.encs) :
               BodyStart(l, f) + EncryptionSize * (e - 1) < ElementEnd(f)
          /\ Len(f.encs) < f.num => SubsStart(l, f) >= ElementEnd(f)
  /\ \A n \in 1 .. Len(f.subs) :
       /\ f.subs[n].at = AfterSubs(l, f, n - 1)
       /\ f.subs[n].at < ElementEnd(f)
  /\ f.len >= l.fixed => AfterSubs(l, f, Len(f.subs)) >= ElementEnd(f)

WellLaidOut(l, b) ==
  /\ b.size \in Nat
  /\ b.frames \in Seq(Element)
  /\ \A i \in 1 .. Len(b.frames) :
       /\ WellWalked(l, b.frames[i])
       /\ b.frames[i].at = (IF i = 1 THEN 0 ELSE ElementEnd(b.frames[i - 1]))
  /\ b.size < (IF b.frames = <<>> THEN 0 ELSE ElementEnd(b.frames[Len(b.frames)])) + HeaderSize

IsLoop(l) ==
  /\ l.fixed \in Nat /\ l.subHeader \in Nat \ {0} /\ l.cap \in Nat /\ l.encryptions \in Nat
  /\ l.capFirst \in BOOLEAN /\ l.bounded \in BOOLEAN /\ l.byHeader \in BOOLEAN
  /\ l.resets \in {"never", "start", "late"}
  /\ l.resets = "late" <=> l.encryptions > 0

ASSUME ReadersAssumption ==
  \A r \in DOMAIN Readers : r \in STRING /\ IsLoop(Readers[r])

ASSUME BuffersAssumption ==
  \A r \in DOMAIN Readers : \A b \in Buffers[r] : WellLaidOut(Readers[r], b)

ASSUME MaxCallsAssumption == MaxCalls \in Nat \ {0}
-----------------------------------------------------------------------------
VARIABLES
  reader,   \* which of the readers this object is
  buf,      \* the buffer of the current call
  cursor,   \* RawData::current
  phase,    \* "between" elements, "encryptions", "subs", or the answer
  call,     \* how many calls there have been
  header,   \* the header pointer, <<call, i>>
  items,    \* items[0 .. count - 1], pointers <<call, i, n>>
  encr,     \* encr_items, never shortened; encs of them are of this walk
  encs,     \* encr_count of this walk
  found,    \* which of the sub-elements that are needed have been seen
  shown,    \* NumEncrypt under the header pointer, in whichever buffer that is;
            \* history: torn, its walk failed among the encryption sub-elements
  saved     \* history: cursor, header and items when the walk began

vars == <<reader, buf, cursor, phase, call, header, items, encr, encs, found, shown, saved>>

L == Readers[reader]
Null == <<0, 0>>
Here == buf.frames[header[2]]

HeaderGood(f) == f.valid /\ f.len >= L.fixed /\ ElementEnd(f) <= buf.size

IsPresent == IF L.byHeader THEN header # Null ELSE items # <<>>

Init ==
  /\ reader \in DOMAIN Readers
  /\ buf \in Buffers[reader]
  /\ cursor = 0
  /\ phase = "between"
  /\ call = 1
  /\ header = Null
  /\ items = <<>>
  /\ encr = <<>>
  /\ encs = 0
  /\ found = {}
  /\ shown = [num |-> 0, torn |-> FALSE]
  /\ saved = [cursor |-> 0, header |-> Null, items |-> <<>>]

\* The element under the cursor, when at least a header is left.
Under(i) ==
  /\ phase = "between"
  /\ cursor + HeaderSize <= buf.size
  /\ i \in DOMAIN buf.frames
  /\ buf.frames[i].at = cursor

BeginElement(i) ==
  /\ Under(i)
  /\ HeaderGood(buf.frames[i])
  /\ header' = <<call, i>>
  /\ items' = IF L.resets = "start" THEN <<>> ELSE items
  /\ encs' = 0
  /\ found' = {}
  /\ shown' = [num |-> buf.frames[i].num, torn |-> FALSE]
  /\ cursor' = BodyStart(L, buf.frames[i])
  /\ phase' = IF L.encryptions > 0 THEN "encryptions" ELSE "subs"
  /\ saved' = [cursor |-> cursor, header |-> header, items |-> items]
  /\ UNCHANGED <<reader, buf, call, encr>>

RejectElement(i) ==
  /\ Under(i)
  /\ ~HeaderGood(buf.frames[i])
  /\ header' = Null
  /\ phase' = "rejected"
  /\ UNCHANGED <<reader, buf, cursor, call, items, encr, encs, found, shown, saved>>

MoreEncryptions ==
  /\ phase = "encryptions"
  /\ cursor < ElementEnd(Here)
  /\ encs < Here.num

EncryptionGood ==
  /\ cursor + EncryptionSize <= buf.size
  /\ Here.encs[encs + 1]
  /\ encs < L.encryptions

\* Mutant: the slots behind those of an earlier element are filled.
ReadEncryptionBehind ==
  /\ MoreEncryptions
  /\ EncryptionGood
  /\ encr' = Append(encr, header)
  /\ encs' = encs + 1
  /\ cursor' = cursor + EncryptionSize
  /\ UNCHANGED <<reader, buf, phase, call, header, items, found, shown, saved>>

ReadEncryption ==
  /\ MoreEncryptions
  /\ EncryptionGood
  /\ encr' = IF encs < Len(encr) THEN [encr EXCEPT ![encs + 1] = header]
                                 ELSE Append(encr, header)
  /\ encs' = encs + 1
  /\ cursor' = cursor + EncryptionSize
  /\ UNCHANGED <<reader, buf, phase, call, header, items, found, shown, saved>>

RejectEncryption ==
  /\ MoreEncryptions
  /\ ~EncryptionGood
  /\ shown' = [shown EXCEPT !.torn = TRUE]
  /\ phase' = "rejected"
  /\ UNCHANGED <<reader, buf, cursor, call, header, items, encr, encs, found, saved>>

\* Mutant: desc_count is not reset.
EndEncryptionsKept ==
  /\ phase = "encryptions"
  /\ ~MoreEncryptions
  /\ phase' = IF encs = Here.num THEN "subs" ELSE "rejected"
  /\ shown' = [shown EXCEPT !.torn = encs # Here.num]
  /\ UNCHANGED <<reader, buf, cursor, call, header, items, encr, encs, found, saved>>

EndEncryptions ==
  /\ phase = "encryptions"
  /\ ~MoreEncryptions
  /\ IF encs = Here.num
       THEN items' = <<>> /\ phase' = "subs"
       ELSE UNCHANGED items /\ phase' = "rejected"
  /\ shown' = [shown EXCEPT !.torn = encs # Here.num]
  /\ UNCHANGED <<reader, buf, cursor, call, header, encr, encs, found, saved>>

\* The n-th sub-element of the element is under the cursor.
UnderSub(n) ==
  /\ phase = "subs"
  /\ cursor < ElementEnd(Here)
  /\ n \in DOMAIN Here.subs
  /\ Here.subs[n].at = cursor

HasRoom == Len(items) < L.cap

\* Mutant: one sub-element more than there are slots.
SubGoodOffByOne(n) ==
  /\ Len(items) <= L.cap
  /\ L.bounded => cursor + L.subHeader <= buf.size
  /\ Here.subs[n].ok

\* Which of the checks comes first makes no difference to the answer.
SubGood(n) ==
  /\ HasRoom
  /\ L.bounded => cursor + L.subHeader <= buf.size
  /\ Here.subs[n].ok

ReadSub(n) ==
  /\ UnderSub(n)
  /\ SubGood(n)
  /\ items' = Append(items, <<call, header[2], n>>)
  /\ found' = found \cup {Here.subs[n].type}
  /\ cursor' = SubEnd(L, Here.subs[n])
  /\ UNCHANGED <<reader, buf, phase, call, header, encr, encs, shown, saved>>

\* Mutant: a sub-element is stored before it is looked at.
RejectSubStored(n) ==
  /\ UnderSub(n)
  /\ ~SubGood(n)
  /\ items' = IF HasRoom THEN Append(items, <<call, header[2], n>>) ELSE items
  /\ phase' = "rejected"
  /\ UNCHANGED <<reader, buf, cursor, call, header, encr, encs, found, shown, saved>>

\* Mutant: an invalid sub-element is passed over, without a step.
RejectSubIgnored(n) ==
  /\ UnderSub(n)
  /\ ~SubGood(n)
  /\ UNCHANGED vars

RejectSub(n) ==
  /\ UnderSub(n)
  /\ ~SubGood(n)
  /\ phase' = "rejected"
  /\ UNCHANGED <<reader, buf, cursor, call, header, items, encr, encs, found, shown, saved>>

\* Mutant: an element without the sub-elements it must have is taken.
EndElementWithoutNeeds ==
  /\ phase = "subs"
  /\ cursor >= ElementEnd(Here)
  /\ phase' = IF cursor = ElementEnd(Here) THEN "between" ELSE "rejected"
  /\ UNCHANGED <<reader, buf, cursor, call, header, items, encr, encs, found, shown, saved>>

\* Mutant: the "length negative" check is missing.
EndElementUnchecked ==
  /\ phase = "subs"
  /\ cursor >= ElementEnd(Here)
  /\ phase' = IF L.needs \subseteq found THEN "between" ELSE "rejected"
  /\ UNCHANGED <<reader, buf, cursor, call, header, items, encr, encs, found, shown, saved>>

EndElement ==
  /\ phase = "subs"
  /\ cursor >= ElementEnd(Here)
  /\ phase' = IF cursor = ElementEnd(Here) /\ L.needs \subseteq found
                THEN "between" ELSE "rejected"
  /\ UNCHANGED <<reader, buf, cursor, call, header, items, encr, encs, found, shown, saved>>

\* The message around the elements ends; it requires the element.
Finish ==
  /\ phase = "between"
  /\ cursor + HeaderSize > buf.size
  /\ phase' = IF IsPresent THEN "accepted" ELSE "rejected"
  /\ UNCHANGED <<reader, buf, cursor, call, header, items, encr, encs, found, shown, saved>>

\* The owner hands another buffer to the same reader object.
DeserializeAgain ==
  /\ phase \in {"accepted", "rejected"}
  /\ call < MaxCalls
  /\ buf' \in Buffers[reader]
  /\ cursor' = 0
  /\ phase' = "between"
  /\ call' = call + 1
  /\ UNCHANGED <<reader, header, items, encr, encs, found, shown, saved>>

LoopStep ==
  \/ \E i \in DOMAIN buf.frames : BeginElement(i) \/ RejectElement(i)
  \/ ReadEncryption \/ RejectEncryption \/ EndEncryptions
  \/ phase = "subs" /\ \E n \in DOMAIN Here.subs : ReadSub(n) \/ RejectSub(n)
  \/ EndElement
  \/ Finish

Next == LoopStep \/ DeserializeAgain

\* As in MessageReader: the loops run in one thread without blocking.
Spec == Init /\ [][Next]_vars /\ WF_vars(LoopStep)
-----------------------------------------------------------------------------
(***************************************************************************)
(* The element as MessageReader sees it.                                   *)
(***************************************************************************)

\* One sub-element, at its place in the buffer, whatever the tables hold.
EncryptionFine(l, b, f, e) ==
  f.encs[e] /\ BodyStart(l, f) + EncryptionSize * e <= b.size

SubFine(l, b, f, n) ==
  f.subs[n].ok /\ (l.bounded => f.subs[n].at + l.subHeader <= b.size)

\* How many of them are taken, one after the other.
GoodEncryptions(l, b, f) ==
  Max({n \in 0 .. Len(f.encs) :
         n <= l.encryptions /\ \A e \in 1 .. n : EncryptionFine(l, b, f, e)})

\* Everything about encryption is in order.
Encrypted(l, b, f) ==
  l.encryptions > 0 =>
    Len(f.encs) = f.num /\ GoodEncryptions(l, b, f) = f.num

GoodSubs(l, b, f) ==
  Max({n \in 0 .. Len(f.subs) : \A k \in 1 .. n : SubFine(l, b, f, k)})

Complete(l, b, f) ==
  /\ GoodSubs(l, b, f) = Len(f.subs)
  /\ AfterSubs(l, f, Len(f.subs)) = ElementEnd(f)
  /\ l.needs \subseteq {f.subs[n].type : n \in DOMAIN f.subs}

AsFrame(r, b, f) ==
  LET l == Readers[r]
      body == IF ~Encrypted(l, b, f) THEN "early"
              ELSE IF Complete(l, b, f) THEN "ok" ELSE "late"
      subs == IF body = "early" THEN 0 ELSE GoodSubs(l, b, f)
      stop == IF body = "early"
                THEN <<BodyStart(l, f) + EncryptionSize * GoodEncryptions(l, b, f) - f.at>>
                ELSE [n \in 1 .. subs + 1 |-> AfterSubs(l, f, n - 1) - f.at]
  IN  [type |-> r, at |-> f.at, len |-> f.len, ok |-> f.valid,
       body |-> body, subs |-> subs, stop |-> stop]

AsBuffer(r, b) ==
  [size |-> b.size, frames |-> [i \in DOMAIN b.frames |-> AsFrame(r, b, b.frames[i])]]

\* The same as a function, which TLC evaluates once.
Abstracted == [r \in DOMAIN Readers |-> [b \in Buffers[r] |-> AsBuffer(r, b)]]
AbstractBuffers ==
  UNION {{Abstracted[r][b] : b \in Buffers[r]} : r \in DOMAIN Readers}

AsElement(r) ==
  [kind |-> "nested", minLen |-> Readers[r].fixed, maxLen |-> MaxLength,
   cap |-> Readers[r].cap, resets |-> Readers[r].resets, byHeader |-> Readers[r].byHeader]

AsMessage(r) ==
  [name |-> r, members |-> {r}, optional |-> {}, required |-> {r}, oneOf |-> {}]

Walking == phase \in {"encryptions", "subs"}

\* What an outsider sees of the reader while it is in the middle of an
\* element is what it was when the walk began.
Seen == IF Walking THEN saved ELSE [cursor |-> cursor, header |-> header, items |-> items]

SeenPhase == IF Walking \/ phase = "between" THEN "reading" ELSE phase

\* A pointer to a sub-element is one to its element there.
ElementsOf(its) == [k \in DOMAIN its |-> <<its[k][1], its[k][2]>>]

Names == DOMAIN Readers
SeenStore == [r \in Names |-> IF r = reader THEN ElementsOf(Seen.items) ELSE <<>>]
SeenHeader == [r \in Names |-> IF r = reader THEN Seen.header ELSE Null]

AsElements == [r \in Names |-> AsElement(r)]
AsMessages == {AsMessage(r) : r \in Names}

OneStep == INSTANCE MessageReader WITH
  Type <- Names,
  Element <- AsElements,
  Messages <- AsMessages,
  Buffers <- AbstractBuffers,
  msg <- AsMessage(reader),
  buf <- Abstracted[reader][buf],
  cursor <- Seen.cursor,
  phase <- SeenPhase,
  store <- SeenStore,
  header <- SeenHeader,
  unknown <- 0
-----------------------------------------------------------------------------
(***************************************************************************)
(* Properties.                                                             *)
(***************************************************************************)

\* The state of the walk is well typed, and the tables are not overrun.
TypeOK ==
  /\ reader \in Names
  /\ WellLaidOut(L, buf)
  /\ cursor \in Nat
  /\ phase \in {"between", "encryptions", "subs", "accepted", "rejected"}
  /\ call \in 1 .. MaxCalls
  /\ header \in ((1 .. MaxCalls) \X (Nat \ {0})) \cup {Null}
  /\ items \in Seq((1 .. MaxCalls) \X (Nat \ {0}) \X (Nat \ {0}))
  /\ encr \in Seq((1 .. MaxCalls) \X (Nat \ {0}))
  /\ Len(items) <= L.cap
  /\ Len(encr) <= L.encryptions
  /\ encs \in 0 .. Len(encr)
  /\ shown \in [num : Nat, torn : BOOLEAN]

\* The loops do what MessageReader says in one step: whether an element is
\* taken, what is kept of earlier elements, what is stored before a failure,
\* and where a failure leaves the cursor.
ImplementsOneStep == OneStep!Init /\ [][OneStep!Next]_(OneStep!vars)

\* So a reader of nested elements promises its caller what every reader does:
\* a message is accepted exactly if a reading of the buffer without any loop
\* finds nothing wrong with it, and what the reader then shows is what the
\* buffer says, whatever an earlier buffer or a torn element has left.
DecodesAsAWhole == OneStep!DecodesTheBuffer /\ OneStep!VerdictIsExact

\* A sub-element that is kept of an element that was taken lies within it:
\* its value, whose length is only its own word for it, does not reach into
\* the next element.
SubElementsInside ==
  phase \in {"between", "accepted"} =>
    \A k \in DOMAIN items : items[k][1] = call =>
      LET f == buf.frames[items[k][2]]
      IN  SubEnd(L, f.subs[items[k][3]]) <= ElementEnd(f)

\* Whatever is in the tables of this buffer has passed its checks, in the middle
\* of an element and after a refusal as well: the element's header is good, the
\* encryption sub-elements are good and inside the buffer, and so is each
\* sub-element as far as its reader looks.  A sub-element is stored before its
\* extent is compared with that of the element, so that the value of the last
\* one may reach beyond, also after a refusal; no other does.
KeptAreValidated ==
  /\ \A k \in DOMAIN items : items[k][1] = call =>
       LET f == buf.frames[items[k][2]]
           n == items[k][3]
       IN  /\ HeaderGood(f)
           /\ SubFine(L, buf, f, n)
           /\ k < Len(items) => SubEnd(L, f.subs[n]) <= ElementEnd(f)
  /\ \A e \in DOMAIN encr : encr[e][1] = call =>
       LET f == buf.frames[encr[e][2]]
       IN  HeaderGood(f) /\ EncryptionFine(L, buf, f, e)

\* GetEncryptions, and Log, hand out header->NumEncrypt slots of the table, the
\* header being the last that was good, of this buffer or an earlier one.  All
\* of these slots exist and belong to that header, exactly unless its walk has
\* failed among the encryption sub-elements.  A header like that is shown after
\* the refusal - and, as nothing is reset, after a later message that has no
\* such element and is accepted on the strength of it.
EncryptionsCovered ==
  ~Walking /\ L.encryptions > 0 /\ header # Null =>
    (shown.torn <=>
       ~(shown.num <= Len(encr) /\ \A e \in 1 .. shown.num : encr[e] = header))

\* Every walk ends, whatever lengths the sub-elements declare.
EveryWalkEnds == Walking ~> ~Walking
=============================================================================
