---------------------------- MODULE MessageReader ----------------------------
(***************************************************************************)
(* The reading side of every CAPWAP control message.  All Readable<Message>*)
(* classes share one Deserialize: a loop that looks at the element header  *)
(* under the cursor, lets the reader of that element type consume the      *)
(* element, skips an element nobody handles, and gives up at the first     *)
(* element that fails; when fewer than four octets are left it answers     *)
(* whether the elements the message requires are present.                  *)
(*                                                                         *)
(* A buffer is the element area of one message: its size in octets and the *)
(* frames a sender laid out in it, the last of which may be cut short by   *)
(* the size.  Readers keep pointers into the buffer, here <<call, i>>:     *)
(* frame i of the buffer of the call-th Deserialize on the same reader     *)
(* object.  A pointer to an element of a message that has been replaced by *)
(* another buffer is recognised by its call.                               *)
(***************************************************************************)
EXTENDS Integers, Sequences, FiniteSetsExt

CONSTANTS
  Type,      \* the element types a buffer may carry
  Element,   \* per type, the descriptor of its reader (see IsDescriptor)
  Messages,  \* the message descriptors (see MessageDescriptor)
  Buffers,   \* the buffers a caller may hand to Deserialize
  MaxCalls   \* how often one reader object is used

HeaderSize == 4   \* sizeof(ElementHeader): type and length, two octets each

(***************************************************************************)
(* How the reader of one element type behaves:                             *)
(*   kind      "single" keeps the last element, "array" keeps them all,    *)
(*             "nested" keeps a header and the sub-elements                *)
(*   minLen, maxLen   the declared lengths Validate lets through           *)
(*   cap       how many elements (sub-elements, for "nested") it can hold  *)
(*   resets    when a nested reader forgets the sub-elements of an earlier *)
(*             element: "never", at the "start", or "late", after its      *)
(*             fixed-size sub-elements have been read                      *)
(*   byHeader  IsPresent looks at the header pointer and not at the count  *)
(***************************************************************************)
IsDescriptor(d) ==
  /\ d.kind \in {"single", "array", "nested"}
  /\ d.minLen \in Nat /\ d.maxLen \in Nat /\ d.cap \in Nat
  /\ d.resets \in {"never", "start", "late"}
  /\ d.byHeader \in BOOLEAN
  /\ d.kind = "single" => d.cap = 1

(***************************************************************************)
(* members: the types the switch of Deserialize names; optional: the types *)
(* of the optional readers the caller registered; required and oneOf: what *)
(* the final answer looks at.                                              *)
(***************************************************************************)
MessageDescriptor ==
  [name : STRING, members : SUBSET Type, optional : SUBSET Type,
   required : SUBSET Type, oneOf : SUBSET Type]

(***************************************************************************)
(* One element as the sender laid it out: its offset and declared length,  *)
(* whether its values pass Validate (the length and the extent are checked *)
(* apart), and for a nested one how its body fares: body is "ok", "early"  *)
(* (it fails in the part before the sub-elements are counted) or "late",   *)
(* subs the sub-elements it holds up to the point where it succeeds or     *)
(* fails, stop the offsets in the element at which the cursor is left when *)
(* the body fails with none, one, two... of them stored.                   *)
(***************************************************************************)
Frame ==
  [type : Type, at : Nat, len : Nat, ok : BOOLEAN,
   body : {"ok", "early", "late"}, subs : Nat, stop : Seq(Nat)]

FrameEnd(f) == f.at + HeaderSize + f.len

\* Where the last frame of a buffer ends: the size, had nothing been cut off
\* or appended.
LayoutEnd(b) ==
  IF b.frames = <<>> THEN 0 ELSE FrameEnd(b.frames[Len(b.frames)])

Kind(t) == Element[t].kind

\* Frames are laid out back to back, and less than a header follows the last.
\* A single has no body that could fail behind its header; every number of
\* sub-elements a body can fail with has its offset.
WellLaidOut(b) ==
  /\ b.frames \in Seq(Frame)
  /\ b.size \in Nat
  /\ b.frames # <<>> => b.frames[1].at = 0
  /\ \A i \in 1 .. Len(b.frames) - 1 :
       b.frames[i + 1].at = FrameEnd(b.frames[i])
  /\ b.size < LayoutEnd(b) + HeaderSize
  /\ \A i \in DOMAIN b.frames :
       /\ Kind(b.frames[i].type) = "single" => b.frames[i].body = "ok"
       /\ Len(b.frames[i].stop) > b.frames[i].subs

ASSUME ElementAssumption == \A t \in Type : IsDescriptor(Element[t])

ASSUME MessagesAssumption ==
  \A m \in Messages :
    m \in MessageDescriptor /\ m.required \cup m.oneOf \subseteq m.members

ASSUME BuffersAssumption == \A b \in Buffers : WellLaidOut(b)

ASSUME MaxCallsAssumption == MaxCalls \in Nat \ {0}

-----------------------------------------------------------------------------
VARIABLES
  msg,      \* which message this reader object is for
  buf,      \* the buffer of the current call: RawData's end is its size
  cursor,   \* RawData::current, as an offset in buf
  phase,    \* "reading", or what the last Deserialize returned
  call,     \* how many Deserialize calls there have been
  store,    \* per type, the pointers its reader holds, in order
  header,   \* per type, the header pointer of a nested reader
  unknown   \* unknown_elements

vars == <<msg, buf, cursor, phase, call, store, header, unknown>>

Null == <<0, 0>>
Pointer(i) == <<call, i>>

Handled == msg.members \cup msg.optional

\* IsPresent(), or Get().size() > 0, of the reader of type t.
IsPresent(t) ==
  IF Kind(t) = "nested" /\ Element[t].byHeader
    THEN header[t] # Null
    ELSE store[t] # <<>>

\* Mutant: only the choice is looked at, the required elements are forgotten.
RequiredPresentForgotten ==
  \/ msg.oneOf = {}
  \/ \E t \in msg.oneOf :
       IsPresent(t) /\ \A u \in msg.oneOf : IsPresent(u) => u = t

\* Mutant: at least one of the choice instead of exactly one.
RequiredPresentAnyChoice ==
  /\ \A t \in msg.required : IsPresent(t)
  /\ \/ msg.oneOf = {}
     \/ \E t \in msg.oneOf : IsPresent(t)

\* The answer Deserialize gives once the loop has ended.
RequiredPresent ==
  /\ \A t \in msg.required : IsPresent(t)
  /\ \/ msg.oneOf = {}
     \/ \E t \in msg.oneOf :
          IsPresent(t) /\ \A u \in msg.oneOf : IsPresent(u) => u = t

Fits(f) == FrameEnd(f) <= buf.size

\* The checks every element reader makes before it moves the cursor: the
\* header fits, Validate, the declared extent fits.
HeaderOk(f) ==
  /\ f.len >= Element[f.type].minLen
  /\ f.len <= Element[f.type].maxLen
  /\ f.ok
  /\ Fits(f)

\* What a nested reader still holds of earlier elements when it begins to
\* store the sub-elements of f.
Kept(f) ==
  LET how == Element[f.type].resets
  IN  IF how = "start" \/ (how = "late" /\ f.body # "early")
        THEN <<>> ELSE store[f.type]

\* The sub-elements of f that are stored before the body succeeds or fails.
Stored(f) ==
  LET room == Element[f.type].cap - Len(Kept(f))
  IN  IF f.body = "early" THEN 0 ELSE IF f.subs <= room THEN f.subs ELSE room

WithSubs(f, i) == Kept(f) \o [k \in 1 .. Stored(f) |-> Pointer(i)]

BodyOk(f) == f.body = "ok" /\ (Kind(f.type) = "nested" => Stored(f) = f.subs)

\* Mutant: one more element than the table has slots.
HasRoomOffByOne(t) == Kind(t) = "array" => Len(store[t]) <= Element[t].cap

HasRoom(t) == Kind(t) = "array" => Len(store[t]) < Element[t].cap

\* The frame under the cursor, when at least a header is left.
Under(i) ==
  /\ phase = "reading"
  /\ cursor + HeaderSize <= buf.size
  /\ i \in DOMAIN buf.frames
  /\ buf.frames[i].at = cursor
-----------------------------------------------------------------------------
Init ==
  /\ msg \in Messages
  /\ buf \in Buffers
  /\ cursor = 0
  /\ phase = "reading"
  /\ call = 1
  /\ store = [t \in Type |-> <<>>]
  /\ header = [t \in Type |-> Null]
  /\ unknown = 0

\* Mutant: a repeated single is queued instead of replacing the earlier one.
ReadSingleQueued(i) ==
  LET f == buf.frames[i] IN
  /\ Under(i)
  /\ f.type \in Handled
  /\ Kind(f.type) = "single"
  /\ HeaderOk(f)
  /\ store' = [store EXCEPT ![f.type] = Append(@, Pointer(i))]
  /\ cursor' = FrameEnd(f)
  /\ UNCHANGED <<msg, buf, phase, call, header, unknown>>

\* Mutant: a repeated single is consumed but the first one is kept.
ReadSingleFirstWins(i) ==
  LET f == buf.frames[i] IN
  /\ Under(i)
  /\ f.type \in Handled
  /\ Kind(f.type) = "single"
  /\ HeaderOk(f)
  /\ store' = IF IsPresent(f.type) THEN store
                ELSE [store EXCEPT ![f.type] = <<Pointer(i)>>]
  /\ cursor' = FrameEnd(f)
  /\ UNCHANGED <<msg, buf, phase, call, header, unknown>>

ReadSingle(i) ==
  LET f == buf.frames[i] IN
  /\ Under(i)
  /\ f.type \in Handled
  /\ Kind(f.type) = "single"
  /\ HeaderOk(f)
  /\ store' = [store EXCEPT ![f.type] = <<Pointer(i)>>]
  /\ cursor' = FrameEnd(f)
  /\ UNCHANGED <<msg, buf, phase, call, header, unknown>>

ReadArray(i) ==
  LET f == buf.frames[i] IN
  /\ Under(i)
  /\ f.type \in Handled
  /\ Kind(f.type) = "array"
  /\ HasRoom(f.type)
  /\ HeaderOk(f)
  /\ BodyOk(f)
  /\ store' = [store EXCEPT ![f.type] = Append(@, Pointer(i))]
  /\ cursor' = FrameEnd(f)
  /\ UNCHANGED <<msg, buf, phase, call, header, unknown>>

\* The loop over the sub-elements is collapsed into one step; it ends on the
\* end of the element or fails.
ReadNested(i) ==
  LET f == buf.frames[i] IN
  /\ Under(i)
  /\ f.type \in Handled
  /\ Kind(f.type) = "nested"
  /\ HeaderOk(f)
  /\ BodyOk(f)
  /\ header' = [header EXCEPT ![f.type] = Pointer(i)]
  /\ store' = [store EXCEPT ![f.type] = WithSubs(f, i)]
  /\ cursor' = FrameEnd(f)
  /\ UNCHANGED <<msg, buf, phase, call, unknown>>

\* Mutant: the length of the skipped element does not count its header.
SkipUnknownShort(i) ==
  LET f == buf.frames[i] IN
  /\ Under(i)
  /\ f.type \notin Handled
  /\ Fits(f)
  /\ unknown' = unknown + 1
  /\ cursor' = f.at + f.len
  /\ UNCHANGED <<msg, buf, phase, call, store, header>>

SkipUnknown(i) ==
  LET f == buf.frames[i] IN
  /\ Under(i)
  /\ f.type \notin Handled
  /\ Fits(f)
  /\ unknown' = unknown + 1
  /\ cursor' = FrameEnd(f)
  /\ UNCHANGED <<msg, buf, phase, call, store, header>>

\* Mutant: the nullptr is not looked at and the loop goes on.
RejectUnknownIgnored(i) ==
  /\ Under(i)
  /\ buf.frames[i].type \notin Handled
  /\ ~Fits(buf.frames[i])
  /\ UNCHANGED vars

\* UnrecognizedElement::Deserialize returns nullptr.
RejectUnknown(i) ==
  /\ Under(i)
  /\ buf.frames[i].type \notin Handled
  /\ ~Fits(buf.frames[i])
  /\ phase' = "rejected"
  /\ UNCHANGED <<msg, buf, cursor, call, store, header, unknown>>

\* Mutant: the header pointer is kept although the header did not pass.
RejectHeaderKept(i) ==
  LET f == buf.frames[i] IN
  /\ Under(i)
  /\ f.type \in Handled
  /\ ~HasRoom(f.type) \/ ~HeaderOk(f)
  /\ header' = IF Kind(f.type) = "nested"
                 THEN [header EXCEPT ![f.type] = Pointer(i)] ELSE header
  /\ phase' = "rejected"
  /\ UNCHANGED <<msg, buf, cursor, call, store, unknown>>

\* A full array, or one of the checks of HeaderOk: a nested reader has
\* already overwritten its header pointer with nullptr, the others are as
\* they were.
RejectHeader(i) ==
  LET f == buf.frames[i] IN
  /\ Under(i)
  /\ f.type \in Handled
  /\ ~HasRoom(f.type) \/ ~HeaderOk(f)
  /\ header' = IF Kind(f.type) = "nested"
                 THEN [header EXCEPT ![f.type] = Null] ELSE header
  /\ phase' = "rejected"
  /\ UNCHANGED <<msg, buf, cursor, call, store, unknown>>

\* The body fails behind a good header: the cursor stays where the failure
\* was met, and a nested reader keeps the header and what it has stored.
RejectBody(i) ==
  LET f == buf.frames[i] IN
  /\ Under(i)
  /\ f.type \in Handled
  /\ HasRoom(f.type)
  /\ HeaderOk(f)
  /\ ~BodyOk(f)
  /\ cursor' = f.at + f.stop[Stored(f) + 1]
  /\ IF Kind(f.type) = "nested"
       THEN /\ header' = [header EXCEPT ![f.type] = Pointer(i)]
            /\ store' = [store EXCEPT ![f.type] = WithSubs(f, i)]
       ELSE UNCHANGED <<header, store>>
  /\ phase' = "rejected"
  /\ UNCHANGED <<msg, buf, call, unknown>>

\* Fewer than four octets are left: they are ignored.
Finish ==
  /\ phase = "reading"
  /\ cursor + HeaderSize > buf.size
  /\ phase' = IF RequiredPresent THEN "accepted" ELSE "rejected"
  /\ UNCHANGED <<msg, buf, cursor, call, store, header, unknown>>

\* The owner hands another buffer to the same reader object.  Nothing in
\* it is reset.
DeserializeAgain(first, second) ==
  /\ phase # "reading"
  /\ call < MaxCalls
  /\ buf \in first
  /\ buf' \in second
  /\ cursor' = 0
  /\ phase' = "reading"
  /\ call' = call + 1
  /\ UNCHANGED <<msg, store, header, unknown>>

LoopStep ==
  \/ \E i \in DOMAIN buf.frames :
       \/ ReadSingle(i) \/ ReadArray(i) \/ ReadNested(i) \/ SkipUnknown(i)
       \/ RejectUnknown(i) \/ RejectHeader(i) \/ RejectBody(i)
  \/ Finish

Next == LoopStep \/ DeserializeAgain(Buffers, Buffers)

\* The loop runs in one thread without blocking, so it is not abandoned; the
\* owner need not call again.
Spec == Init /\ [][Next]_vars /\ WF_vars(LoopStep)
-----------------------------------------------------------------------------
(***************************************************************************)
(* Properties.                                                             *)
(***************************************************************************)

\* A pointer into a buffer that has been read.
Pointers == (1 .. MaxCalls) \X (Nat \ {0})

\* The state of the loop is well typed: a single holds one element at most,
\* and only a nested reader has a header.
TypeOK ==
  /\ msg \in Messages
  /\ WellLaidOut(buf)
  /\ cursor \in Nat
  /\ phase \in {"reading", "accepted", "rejected"}
  /\ call \in 1 .. MaxCalls
  /\ store \in [Type -> Seq(Pointers)]
  /\ header \in [Type -> Pointers \cup {Null}]
  /\ unknown \in Nat
  /\ \A t \in Type :
       /\ Kind(t) = "single" => Len(store[t]) <= 1
       /\ Kind(t) # "nested" => header[t] = Null

\* As long as no element has failed, the cursor is inside the buffer and on
\* the boundary of a frame: no reader consumes more or less than the element
\* it was given declares, whatever mixture of readers the message uses.
OnFrameBoundary ==
  phase # "rejected" =>
    /\ cursor <= buf.size
    /\ \/ cursor = LayoutEnd(buf)
       \/ \E i \in DOMAIN buf.frames : buf.frames[i].at = cursor

\* No reader ever holds more than its fixed-size table, however many elements
\* arrive, over however many buffers.
CapsHold ==
  \A t \in Type : Len(store[t]) <= Element[t].cap

\* A pointer into the current buffer refers to an element of the reader's own
\* type that passed Validate and lies in the buffer as a whole, after a
\* rejection too.  This is about elements: KeptAreValidated of NestedReader is about
\* their sub-elements.  Neither makes Log() of a rejected message safe: the
\* header it reads through may be Null then.
PointsTo(p, t) ==
  p[1] = call =>
    /\ p[2] \in DOMAIN buf.frames
    /\ buf.frames[p[2]].type = t
    /\ HeaderOk(buf.frames[p[2]])

StoredAreValidated ==
  \A t \in Type :
    /\ \A k \in DOMAIN store[t] : PointsTo(store[t][k], t)
    /\ PointsTo(header[t], t)

\* Behind the cursor, the readers hold exactly what the buffer says: the last
\* element of a single, every element of an array in wire order, the
\* sub-elements of a nested one, and nothing of them is counted as unknown.
Consumed(t) ==
  {i \in DOMAIN buf.frames :
     buf.frames[i].type = t /\ FrameEnd(buf.frames[i]) <= cursor}

OfThisCall(t) == {k \in DOMAIN store[t] : store[t][k][1] = call}

DecodedSingle(t) ==
  IF Consumed(t) = {} THEN OfThisCall(t) = {}
                      ELSE store[t] = <<Pointer(Max(Consumed(t)))>>

DecodedArray(t) ==
  /\ {store[t][k][2] : k \in OfThisCall(t)} = Consumed(t)
  /\ \A j \in OfThisCall(t) : \A k \in DOMAIN store[t] :
       j < k => k \in OfThisCall(t) /\ store[t][j][2] < store[t][k][2]

DecodedNested(t) ==
  LET kept(i) == Cardinality({k \in DOMAIN store[t] : store[t][k] = Pointer(i)})
  IN  IF Consumed(t) = {}
        THEN header[t][1] # call
        ELSE /\ header[t] = Pointer(Max(Consumed(t)))
             /\ \A i \in Consumed(t) :
                  kept(i) = IF Element[t].resets = "never" \/ i = Max(Consumed(t))
                              THEN buf.frames[i].subs ELSE 0

DecodesTheBuffer ==
  phase \in {"reading", "accepted"} =>
    /\ \A t \in Handled :
         CASE Kind(t) = "single" -> DecodedSingle(t)
           [] Kind(t) = "array"  -> DecodedArray(t)
           [] Kind(t) = "nested" -> DecodedNested(t)
    /\ call = 1 =>
         unknown = Cardinality(UNION {Consumed(t) : t \in Type \ Handled})

\* The verdict of a reader used for the first time is the one a declarative
\* reading of the buffer gives: every visible element is good, no table
\* overflows, what is required is there, and nothing else matters.
Visible == {i \in DOMAIN buf.frames : buf.frames[i].at + HeaderSize <= buf.size}

VisibleOf(t) == {i \in Visible : buf.frames[i].type = t}

\* The sub-elements of some frames, one by one.
SubElements(frames) == UNION {{i} \X (1 .. buf.frames[i].subs) : i \in frames}

Load(t) ==
  CASE Kind(t) = "single" -> 0
    [] Kind(t) = "array"  -> Cardinality(VisibleOf(t))
    [] Kind(t) = "nested" ->
         IF Element[t].resets = "never"
           THEN Cardinality(SubElements(VisibleOf(t)))
           ELSE Max({0} \cup {buf.frames[i].subs : i \in VisibleOf(t)})

Delivered(t) ==
  /\ VisibleOf(t) # {}
  /\ Kind(t) = "nested" /\ ~Element[t].byHeader =>
       buf.frames[Max(VisibleOf(t))].subs > 0
         \/ (Element[t].resets = "never" /\ Load(t) > 0)

WellFormed ==
  /\ \A i \in Visible :
       LET f == buf.frames[i] IN
       IF f.type \in Handled THEN HeaderOk(f) /\ f.body = "ok" ELSE Fits(f)
  /\ \A t \in Handled : Load(t) <= Element[t].cap
  /\ \A t \in msg.required : Delivered(t)
  /\ msg.oneOf # {} => Cardinality({t \in msg.oneOf : Delivered(t)}) = 1

VerdictIsExact ==
  call = 1 /\ phase # "reading" => (phase = "accepted" <=> WellFormed)

\* Every Deserialize returns: each turn of the loop consumes at least a
\* header, so neither a skipped element nor an empty one keeps it going.
EveryCallReturns == phase = "reading" ~> phase # "reading"
=============================================================================
