----------------------------- MODULE MessageWriter -----------------------------
(***************************************************************************)
(* The writing side of the control messages.  An application prepares the  *)
(* writers of the elements, constructs a Writable<Message> from them, and  *)
(* serializes it: first the elements the constructor takes, in its order,  *)
(* then the optional ones, and for a Discovery Request that probes an MTU  *)
(* the padding.                                                            *)
(*                                                                         *)
(* The message refers to the application's arrays and does not copy them.  *)
(* What its constructor works out - the padding, whether a Join Request    *)
(* has enough radio informations, whether the returned elements of a Change*)
(* State Event Request are valid - is about the arrays as they were then;  *)
(* Serialize writes them as they are.                                      *)
(***************************************************************************)
EXTENDS Integers, Sequences, FiniteSetsExt, Sums

CONSTANTS
  Element,      \* per type, the catalogue entry of its reader and writer
  Excess(_),    \* what the ASSERT on room asks for too much, per type
  Loads,        \* what applications start from (see IsLoad)
  NewItems(_)   \* per type, the items an application may add later

HeaderSize == 4    \* sizeof(ElementHeader), and of MTUDiscoveryPadding
TransportSize == 16   \* sizeof(ClearHeader) + sizeof(ControlHeader)
UInt16 == 65536

(***************************************************************************)
(* An element as its writer holds it: the length it will declare, whether  *)
(* Validate likes its values, the number of its sub-elements, and -        *)
(* history, no part of the code - whether it was added after the           *)
(* construction.                                                           *)
(***************************************************************************)
Item == [len : Nat, ok : BOOLEAN, subs : Nat, late : BOOLEAN]

\* Validate as a whole, of an item or of the element that is written of it.
IsValid(t, x) == x.ok /\ x.len \in Element[t].minLen .. Element[t].maxLen

\* An element writer: the elements it will write.
ElementWriter == [type : DOMAIN Element, items : Seq(Item)]

HasItsItems(p) ==
  /\ Element[p.type].kind = "single" => Len(p.items) = 1
  /\ Element[p.type].kind = "nested" => Len(p.items) <= 1

\* A Writable<Message> class: see CapwapWriters.
MessageSender ==
  [name : STRING, order : Seq(DOMAIN Element),
   shared : SUBSET DOMAIN Element, optional : SUBSET DOMAIN Element]

\* What an application starts from: the message, the element writers for it,
\* RadiosInUse of its WTP Descriptor, probe_mtu_size, by how much its buffer
\* will be larger than the message, and how many changes it makes to its
\* arrays after the construction (a bound of the model).  Only an array has
\* more than one element, and of the others only an empty list of MAC addresses
\* is not written at all.
IsLoad(l) ==
  /\ l \in [sender : MessageSender, parts : Seq(ElementWriter), radios : Nat,
            probe : 0 .. UInt16 - 1, spare : Nat, changes : Nat]
  /\ Len(l.parts) >= Len(l.sender.order)
  /\ \A i \in DOMAIN l.parts :
       IF i <= Len(l.sender.order)
         THEN l.parts[i].type = l.sender.order[i]
         ELSE l.parts[i].type \in l.sender.optional
  /\ \A i \in DOMAIN l.parts : HasItsItems(l.parts[i])

ASSUME LoadsAssumption == \A l \in Loads : IsLoad(l)

ASSUME NewItemsAssumption ==
  \A l \in Loads : \A i \in DOMAIN l.parts : NewItems(l.parts[i].type) \subseteq Item

ASSUME ElementAssumption ==
  /\ "MTUDiscoveryPadding" \in DOMAIN Element
  /\ Element["MTUDiscoveryPadding"].kind = "single"
  /\ "ReturnedMessageElement" \in DOMAIN Element =>
       Element["ReturnedMessageElement"].kind = "array"
  /\ \A l \in Loads : \A i \in DOMAIN l.parts : Element[l.parts[i].type].cap \in Nat

\* The elements whose ASSERT asks for more room than they take.
Demanding ==
  {"ACDescriptor", "AddMACACLEntry", "DeleteMACACLEntry", "DeleteStation",
   "DuplicateIPv4Address"}

\* None asks for more than twelve octets too much; behind the AC Descriptor
\* the constructors that take one take at least three more.
ASSUME ExcessAssumption ==
  /\ Excess("MTUDiscoveryPadding") = 0
  /\ \A l \in Loads : \A i \in DOMAIN l.parts :
       LET t == l.parts[i].type
       IN  /\ Excess(t) \in 0 .. 12
           /\ Excess(t) > 0 => t \in Demanding
           /\ t = "ACDescriptor" => i + 3 <= Len(l.sender.order)
-----------------------------------------------------------------------------
VARIABLES
  load,      \* what the application started from
  asserts,   \* whether the library is built with ASSERT
  parts,     \* the element writers: those of the constructor, the optional
  result,    \* the application's ResultCode: "given" or "unrecognized"
  padding,   \* the length of the MTU Discovery Padding, 0 for none
  stage,     \* "prepared", "constructed", "writing", "written", "aborted"
  built,     \* history: the parts as the constructor left them, whether it
             \* dropped elements, the parts cleared and the code set since
  part,      \* the part that is written next
  room,      \* the size of the buffer
  offset,    \* RawData::current
  wire       \* the elements written, each with its offset

writerVars ==
  <<load, asserts, parts, result, padding, stage, built, part, room, offset, wire>>

sender == load.sender
IsArray(t) == Element[t].kind = "array"
Overfull(p) == IsArray(p.type) /\ Len(p.items) > Element[p.type].cap

\* GetTotalLength of one writer, and the sum over all of them, before it is
\* cut down to 16 bits.
Sizes(items) == [k \in DOMAIN items |-> HeaderSize + items[k].len]
Octets(items) == SumUpTo(Sizes(items), Len(items))
PartSizes(ps) == [i \in DOMAIN ps |-> Octets(ps[i].items)]
TotalSize(ps) == SumUpTo(PartSizes(ps), Len(ps))

\* With ASSERT, Add never lets an array grow beyond the table of the peer.
Init ==
  /\ load \in Loads
  /\ asserts \in BOOLEAN
  /\ asserts => \A i \in DOMAIN load.parts : ~Overfull(load.parts[i])
  /\ parts = load.parts
  /\ result = "given"
  /\ padding = 0
  /\ stage = "prepared"
  /\ built = [parts |-> <<>>, dropped |-> FALSE, cleared |-> {}, set |-> FALSE]
  /\ part = 1
  /\ room = 0
  /\ offset = 0
  /\ wire = <<>>

-----------------------------------------------------------------------------
(***************************************************************************)
(* The constructors.                                                       *)
(***************************************************************************)

\* Mutant: the header of the padding itself is forgotten.
ProbeHeadersShort == TransportSize

\* header_size of CalcMTUPadding.
ProbeHeaders == TransportSize + HeaderSize

CalcTotalSize == TotalSize(parts) % UInt16

Probing == sender.name = "DiscoveryRequest" /\ load.probe # 0

\* Both ASSERTs of CalcMTUPadding.
ProbeHasRoom ==
  /\ ProbeHeaders < load.probe
  /\ (CalcTotalSize + ProbeHeaders) % UInt16 < load.probe

CalcMTUPadding ==
  IF Probing THEN (load.probe - CalcTotalSize - ProbeHeaders) % UInt16 ELSE 0

\* How many elements of one type there are, per writer and altogether.
Counts(ps, t) ==
  [i \in DOMAIN ps |-> IF ps[i].type = t THEN Len(ps[i].items) ELSE 0]
Count(ps, t) == SumUpTo(Counts(ps, t), Len(ps))

\* Mutant: the comparison is the wrong way round.
RadiosCoveredSwapped ==
  sender.name = "JoinRequest" =>
    load.radios >= Count(parts, "WTPRadioInformation")

\* The ASSERT of the Join Request.
RadiosCovered ==
  sender.name = "JoinRequest" =>
    load.radios <= Count(parts, "WTPRadioInformation")

ConstructorAsserts == RadiosCovered /\ (Probing => ProbeHasRoom)

\* The first optional writer of returned message elements, if there is one:
\* a set of one part or none.
FirstReturned ==
  IF sender.name # "ChangeStateEventRequest" THEN {}
  ELSE {i \in DOMAIN parts :
          /\ parts[i].type = "ReturnedMessageElement"
          /\ \A j \in 1 .. i - 1 : parts[j].type # "ReturnedMessageElement"}

\* Mutant: Validate looks at the reason alone.
SomeInvalidByReason(i) == \E k \in DOMAIN parts[i].items : ~parts[i].items[k].ok

SomeInvalid(i) ==
  \E k \in DOMAIN parts[i].items : ~IsValid(parts[i].type, parts[i].items[k])

Dropped == {i \in FirstReturned : SomeInvalid(i)}

\* The returned elements are dropped altogether if one of them is invalid,
\* and the application's result code is overwritten.
Construct ==
  /\ stage = "prepared"
  /\ asserts => ConstructorAsserts
  /\ padding' = CalcMTUPadding
  /\ parts' = [i \in DOMAIN parts |->
                 IF i \in Dropped THEN [parts[i] EXCEPT !.items = <<>>] ELSE parts[i]]
  /\ result' = IF Dropped = {} THEN result ELSE "unrecognized"
  /\ built' = [built EXCEPT !.parts = parts', !.dropped = Dropped # {}]
  /\ stage' = "constructed"
  /\ UNCHANGED <<load, asserts, part, room, offset, wire>>

ConstructAborts ==
  /\ stage = "prepared"
  /\ asserts /\ ~ConstructorAsserts
  /\ stage' = "aborted"
  /\ UNCHANGED <<load, asserts, parts, result, padding, built, part, room, offset, wire>>
-----------------------------------------------------------------------------
(***************************************************************************)
(* What the application can still do to what the message refers to.        *)
(***************************************************************************)

\* An array of the application, with Add and Clear.
Shared(i) ==
  /\ IsArray(parts[i].type)
  /\ i > Len(sender.order) \/ parts[i].type \in sender.shared

MayChange ==
  stage = "constructed" /\ load.changes > 0

\* Whether Add can find old when it is given new: only arrays that look for a
\* key do, and where the whole value is the key, new is the same once more.
Replaces(t, new, old) ==
  /\ Element[t].key # "none"
  /\ Element[t].key = "value" => [new EXCEPT !.late = old.late] = old

\* What Add may make of a list: an item with a new key comes behind the others,
\* one with an old key takes the place of the item that has it.  Which it is
\* depends on the keys; they are WritableArray's subject.
WithItem(t, items, x) ==
  {Append(items, x)}
    \cup {[items EXCEPT ![k] = x] : k \in {j \in DOMAIN items : Replaces(t, x, items[j])}}

\* The ASSERT comes before the key is looked up.
Add(i, x) ==
  /\ MayChange
  /\ Shared(i)
  /\ asserts => Len(parts[i].items) < Element[parts[i].type].cap
  /\ \E items \in WithItem(parts[i].type, parts[i].items, [x EXCEPT !.late = TRUE]) :
       parts' = [parts EXCEPT ![i].items = items]
  /\ load' = [load EXCEPT !.changes = @ - 1]
  /\ UNCHANGED <<asserts, result, padding, stage, built, part, room, offset, wire>>

Clear(i) ==
  /\ MayChange
  /\ Shared(i)
  /\ parts' = [parts EXCEPT ![i].items = <<>>]
  /\ built' = [built EXCEPT !.cleared = @ \cup {i}]
  /\ load' = [load EXCEPT !.changes = @ - 1]
  /\ UNCHANGED <<asserts, result, padding, stage, part, room, offset, wire>>

\* The Change State Event Request refers to the application's ResultCode.
SetResult ==
  /\ MayChange
  /\ sender.name = "ChangeStateEventRequest"
  /\ result' = "given"
  /\ built' = [built EXCEPT !.set = TRUE]
  /\ load' = [load EXCEPT !.changes = @ - 1]
  /\ UNCHANGED <<asserts, parts, padding, stage, part, room, offset, wire>>
-----------------------------------------------------------------------------
(***************************************************************************)
(* Serialize.                                                              *)
(***************************************************************************)

\* All there is to write.
PaddingItem == [len |-> padding, ok |-> TRUE, subs |-> 0, late |-> FALSE]

ToWrite ==
  IF padding = 0 THEN parts
  ELSE Append(parts, [type |-> "MTUDiscoveryPadding", items |-> <<PaddingItem>>])

\* Mutant: the buffer is sized without the padding.
BeginSerializeUnpadded ==
  /\ stage = "constructed"
  /\ room' = TotalSize(parts) + load.spare
  /\ stage' = "writing"
  /\ UNCHANGED <<load, asserts, parts, result, padding, built, part, offset, wire>>

\* A caller provides a buffer the message fits into.
BeginSerialize ==
  /\ stage = "constructed"
  /\ room' = TotalSize(ToWrite) + load.spare
  /\ stage' = "writing"
  /\ UNCHANGED <<load, asserts, parts, result, padding, built, part, offset, wire>>

\* The elements of one writer, laid out from the cursor on.  What they were is
\* history: late, part and item do not get into the octets.
Frames(p) ==
  [k \in DOMAIN p.items |->
     [type |-> p.type, at |-> offset + SumUpTo(Sizes(p.items), k - 1),
      len |-> p.items[k].len, ok |-> p.items[k].ok, body |-> "ok",
      subs |-> p.items[k].subs,
      stop |-> [n \in 1 .. p.items[k].subs + 1 |-> HeaderSize],
      late |-> p.items[k].late, part |-> part, item |-> k]]

\* Mutant: every writer counts the element header twice.
AsksForTwoHeaders(f) == f.at + 2 * HeaderSize + f.len + Excess(f.type)

\* The element, and what its ASSERT asks for beyond.  Many ask for the fixed
\* part of the element only; in a buffer the message fits they never fail, and
\* neither does one that asks for just the element.
AsksFor(f) == f.at + HeaderSize + f.len + Excess(f.type)

\* The ASSERTs of the element writers: the number of items or sub-elements,
\* and the room for each element.
ElementAsserts(p) ==
  /\ ~Overfull(p)
  /\ Element[p.type].kind = "nested" =>
       \A k \in DOMAIN p.items : p.items[k].subs <= Element[p.type].cap
  /\ \A k \in DOMAIN p.items : AsksFor(Frames(p)[k]) <= room

\* Mutant: the last item of an array is left out.
WritePartButLast ==
  /\ stage = "writing"
  /\ part \in DOMAIN ToWrite
  /\ LET p == ToWrite[part]
         n == IF IsArray(p.type) /\ Len(p.items) > 1 THEN Len(p.items) - 1
                                                     ELSE Len(p.items)
     IN /\ asserts => ElementAsserts(p)
        /\ wire' = wire \o SubSeq(Frames(p), 1, n)
        /\ offset' = offset + SumUpTo(Sizes(p.items), n)
  /\ part' = part + 1
  /\ UNCHANGED <<load, asserts, parts, result, padding, stage, built, room>>

WritePart ==
  /\ stage = "writing"
  /\ part \in DOMAIN ToWrite
  /\ asserts => ElementAsserts(ToWrite[part])
  /\ wire' = wire \o Frames(ToWrite[part])
  /\ offset' = offset + Octets(ToWrite[part].items)
  /\ part' = part + 1
  /\ UNCHANGED <<load, asserts, parts, result, padding, stage, built, room>>

WriteAborts ==
  /\ stage = "writing"
  /\ part \in DOMAIN ToWrite
  /\ asserts /\ ~ElementAsserts(ToWrite[part])
  /\ stage' = "aborted"
  /\ UNCHANGED <<load, asserts, parts, result, padding, built, part, room, offset, wire>>

EndSerialize ==
  /\ stage = "writing"
  /\ part > Len(ToWrite)
  /\ stage' = "written"
  /\ UNCHANGED <<load, asserts, parts, result, padding, built, part, room, offset, wire>>

Application ==
  \/ Construct \/ ConstructAborts \/ SetResult \/ BeginSerialize
  \/ \E i \in DOMAIN parts : Clear(i) \/ \E x \in NewItems(parts[i].type) : Add(i, x)

Serialize == WritePart \/ WriteAborts \/ EndSerialize

Next == Application \/ Serialize

Spec == Init /\ [][Next]_writerVars
-----------------------------------------------------------------------------
(***************************************************************************)
(* Properties.                                                             *)
(***************************************************************************)
TypeOK ==
  /\ IsLoad(load)
  /\ asserts \in BOOLEAN
  /\ parts \in Seq(ElementWriter)
  /\ result \in {"given", "unrecognized"}
  /\ padding \in 0 .. UInt16 - 1
  /\ stage \in {"prepared", "constructed", "writing", "written", "aborted"}
  /\ built \in [parts : Seq(ElementWriter), dropped : BOOLEAN,
                cleared : SUBSET Nat, set : BOOLEAN]
  /\ part \in 1 .. Len(ToWrite) + 1
  /\ room \in Nat /\ offset \in Nat
  /\ stage \in {"writing", "written"} => offset <= room

\* A Discovery Request that probes an MTU is exactly as long as the MTU, the
\* two headers in front of it included, and off by exactly what has been
\* added to and cleared from its arrays since it was constructed.  Without
\* ASSERT this holds if at least one octet of padding was wanted, and in
\* either build if the sizes do not exceed 16 bits.
ProbeFillsTheMTU ==
  LET then == TotalSize(built.parts) + ProbeHeaders
  IN  stage = "written" /\ Probing /\ then < UInt16 /\ (asserts \/ then < load.probe) =>
        offset + TransportSize - load.probe = TotalSize(parts) - TotalSize(built.parts)

\* A Join Request is written with at least as many radio informations as its
\* WTP Descriptor says are in use, whatever has been added since it was
\* constructed; only Clear can undo what the constructor has asserted.
JoinHasItsRadios ==
  stage = "written" /\ sender.name = "JoinRequest" /\ asserts
    /\ (\A i \in built.cleared : parts[i].type # "WTPRadioInformation") =>
      load.radios <= Cardinality({k \in DOMAIN wire : wire[k].type = "WTPRadioInformation"})

\* What the Change State Event Request says about its returned elements: an
\* invalid one, of an unknown reason or longer than 255 octets of data, is
\* written only if it was added after the construction or is in a second array,
\* and if elements have been dropped, it says so, unless the application has
\* set another code since.
ReturnedElementsAreSound ==
  stage = "written" /\ sender.name = "ChangeStateEventRequest" =>
    /\ \A k \in DOMAIN wire :
         wire[k].type = "ReturnedMessageElement" /\ ~IsValid(wire[k].type, wire[k]) =>
           wire[k].late \/ wire[k].part \notin FirstReturned
    /\ built.dropped /\ ~built.set => result = "unrecognized"

\* Serialize fails for want of room, in a buffer the message fits into, only
\* because of the five elements that ask for more than they write, and only
\* if fewer octets follow than they ask for too much: twelve spare octets
\* are always enough, and an AC Descriptor never fails in a message that has
\* all its elements.
RoomSuffices ==
  stage = "aborted" /\ built.parts # <<>> =>
    LET p == ToWrite[part]
    IN  \/ \E k \in DOMAIN p.items : p.items[k].subs > Element[p.type].cap
        \/ /\ p.type \in Demanding
           /\ load.spare < 12
           /\ p.type = "ACDescriptor" =>
                \E i \in 1 .. Len(sender.order) : parts[i].items = <<>>

\* "the wtp_radio_info array must contain at least radios_in_use elements",
\* one of the requirements that "are enforced by runtime assertions in the
\* library" (README.md:158-163): a message that carries both says the same
\* in both.
RadiosInUseAreDescribed ==
  stage = "written" /\ asserts /\ built.cleared = {} /\ Count(parts, "WTPDescriptor") > 0 =>
    load.radios <= Count(parts, "WTPRadioInformation")
=============================================================================
