------------------------ MODULE MessageExchangeProofs ------------------------
(***************************************************************************)
(* Proofs about MessageWriter, between the construction of a message and   *)
(* its last octet, and about MessageExchange, for all applications,        *)
(* messages and element types that satisfy their assumptions: a message is *)
(* accepted exactly if it was put together rightly, and the peer then has  *)
(* what was put in.                                                        *)
(*                                                                         *)
(* The writer comes first.  The reader is an instance, known from          *)
(* MessageReaderProofs.  What joins them is how the elements on the wire   *)
(* correspond to the items of the application's writers.                   *)
(***************************************************************************)
EXTENDS MessageExchange, NumberFacts, FiniteSetTheorems, SequenceTheorems, TLAPS

(***************************************************************************)
(* Elements and their sizes.                                               *)
(***************************************************************************)

LEMMA SizesFacts ==
  ASSUME NEW its \in Seq(Item)
  PROVE  /\ Len(its) \in Nat /\ DOMAIN its = 1 .. Len(its)
         /\ \A k \in 1 .. Len(its) : its[k] \in Item
         /\ \A k \in 1 .. Len(its) :
              Sizes(its)[k] = HeaderSize + its[k].len /\ Sizes(its)[k] \in Nat
         /\ Octets(its) \in Nat
<1>1. Len(its) \in Nat /\ DOMAIN its = 1 .. Len(its) /\ \A k \in 1 .. Len(its) : its[k] \in Item
  OBVIOUS
<1>2. \A k \in 1 .. Len(its) :
        Sizes(its)[k] = HeaderSize + its[k].len /\ Sizes(its)[k] \in Nat
  BY <1>1 DEF Sizes, HeaderSize, Item
<1>3. SumUpTo(Sizes(its), Len(its)) \in Nat
  BY <1>1, <1>2, SumIsNat
<1> QED
  BY <1>1, <1>2, <1>3 DEF Octets

LEMMA PartSizesFacts ==
  ASSUME NEW ps \in Seq(ElementWriter)
  PROVE  /\ Len(ps) \in Nat /\ DOMAIN ps = 1 .. Len(ps)
         /\ \A i \in 1 .. Len(ps) :
              /\ ps[i] \in ElementWriter /\ ps[i].items \in Seq(Item)
              /\ PartSizes(ps)[i] = Octets(ps[i].items) /\ PartSizes(ps)[i] \in Nat
         /\ TotalSize(ps) \in Nat
         /\ \A m \in 0 .. Len(ps) :
              /\ SumUpTo(PartSizes(ps), m) \in Nat
              /\ SumUpTo(PartSizes(ps), m) <= TotalSize(ps)
<1>1. /\ Len(ps) \in Nat /\ DOMAIN ps = 1 .. Len(ps)
      /\ \A i \in 1 .. Len(ps) : ps[i] \in ElementWriter /\ ps[i].items \in Seq(Item)
  <2>1. Len(ps) \in Nat /\ DOMAIN ps = 1 .. Len(ps) /\ \A i \in 1 .. Len(ps) : ps[i] \in ElementWriter
    OBVIOUS
  <2>2. \A w \in ElementWriter : w.items \in Seq(Item)
    BY DEF ElementWriter
  <2> QED
    BY <2>1, <2>2
<1>2. \A i \in 1 .. Len(ps) :
        PartSizes(ps)[i] = Octets(ps[i].items) /\ PartSizes(ps)[i] \in Nat
  BY <1>1, SizesFacts DEF PartSizes
<1>3. /\ SumUpTo(PartSizes(ps), Len(ps)) \in Nat
      /\ \A m \in 0 .. Len(ps) :
           /\ SumUpTo(PartSizes(ps), m) \in Nat
           /\ SumUpTo(PartSizes(ps), m) <= SumUpTo(PartSizes(ps), Len(ps))
  BY <1>1, <1>2, SumIsNat
<1> QED
  BY <1>1, <1>2, <1>3 DEF TotalSize

\* What replacing the items of one writer does.
WithItems(ps, i, its) == [ps EXCEPT ![i].items = its]

LEMMA ItemsReplaced ==
  ASSUME NEW ps \in Seq(ElementWriter), NEW i \in DOMAIN ps, NEW its \in Seq(Item),
         NEW qs, qs = WithItems(ps, i, its)
  PROVE  /\ qs \in Seq(ElementWriter) /\ Len(qs) = Len(ps) /\ DOMAIN qs = DOMAIN ps
         /\ \A j \in DOMAIN ps :
              /\ qs[j].type = ps[j].type
              /\ qs[j].items = IF j = i THEN its ELSE ps[j].items
<1>1. \A j \in DOMAIN ps : ps[j] \in ElementWriter
  OBVIOUS
<1>2. [ps[i] EXCEPT !.items = its] \in ElementWriter
      /\ [ps[i] EXCEPT !.items = its].type = ps[i].type
      /\ [ps[i] EXCEPT !.items = its].items = its
  BY <1>1 DEF ElementWriter
<1>3. qs = [ps EXCEPT ![i] = [ps[i] EXCEPT !.items = its]]
  BY DEF WithItems
<1> PICK w : w = [ps[i] EXCEPT !.items = its]
  OBVIOUS
<1>4. w \in ElementWriter /\ w.type = ps[i].type /\ w.items = its
  BY <1>2
<1>5. qs = [ps EXCEPT ![i] = w]
  BY <1>3
<1>6. qs \in Seq(ElementWriter) /\ Len(qs) = Len(ps) /\ DOMAIN qs = DOMAIN ps
      /\ \A j \in DOMAIN ps : qs[j] = IF j = i THEN w ELSE ps[j]
  BY <1>4, <1>5
<1> QED
  BY <1>4, <1>6
-----------------------------------------------------------------------------
(***************************************************************************)
(* The inductive invariant.                                                *)
(***************************************************************************)

\* What is written of one element.
WireFrame ==
  [type : DOMAIN Element, at : Nat, len : Nat, ok : BOOLEAN, body : {"ok"}, subs : Nat,
   stop : Seq(Nat), late : BOOLEAN, part : Nat,
   item : Nat]

\* The constructor has returned, and nothing has failed since.
Made == stage \in {"constructed", "writing", "written"}

\* The application's writers stay those it started from, with other items.
Known ==
  /\ Len(parts) = Len(load.parts)
  /\ \A i \in DOMAIN parts :
       LET t == parts[i].type
       IN  /\ NewItems(t) \subseteq Item
           /\ Element[t].cap \in Nat
           /\ Excess(t) \in 0 .. 12
           /\ Excess(t) > 0 => t \in Demanding
           /\ t = "ACDescriptor" => i + 3 <= Len(sender.order)

\* The cursor is behind all the parts that have been written.
Progress ==
  /\ stage \in {"prepared", "constructed"} => part = 1 /\ wire = <<>>
  /\ stage = "prepared" => padding = 0 /\ built.parts = <<>> /\ ~built.dropped
  /\ stage = "written" => part = Len(ToWrite) + 1
  /\ stage \in {"writing", "written"} => room = TotalSize(ToWrite) + load.spare
  /\ offset = SumUpTo(PartSizes(ToWrite), part - 1)

\* As many radio informations have been written as the writers had.
RadiosWritten ==
  /\ wire \in Seq(WireFrame)
  /\ Cardinality({k \in DOMAIN wire : wire[k].type = "WTPRadioInformation"}) =
       SumUpTo(Counts(ToWrite, "WTPRadioInformation"), part - 1)

NoneOverfull == asserts => \A i \in DOMAIN parts : ~Overfull(parts[i])

\* The first returned elements are valid, but for those that came later.
ReturnedAreValid ==
  /\ Made => \A i \in FirstReturned : \A k \in DOMAIN parts[i].items :
       IsValid(parts[i].type, parts[i].items[k]) \/ parts[i].items[k].late
  /\ \A k \in DOMAIN wire :
       wire[k].type = "ReturnedMessageElement" /\ ~IsValid(wire[k].type, wire[k]) =>
         wire[k].late \/ wire[k].part \notin FirstReturned
  /\ built.dropped /\ ~built.set => result = "unrecognized"

\* What the constructor worked out is true of what it saw, and what has not
\* been cleared since has not become less.
SinceBuilt ==
  Made =>
    /\ Len(built.parts) = Len(parts)
    /\ \A i \in DOMAIN parts :
         /\ built.parts[i].type = parts[i].type
         /\ i \notin built.cleared => Len(built.parts[i].items) <= Len(parts[i].items)
    /\ padding = IF Probing
                   THEN (load.probe - (TotalSize(built.parts) % UInt16) - ProbeHeaders) % UInt16
                   ELSE 0
    /\ asserts /\ Probing =>
         ((TotalSize(built.parts) % UInt16) + ProbeHeaders) % UInt16 < load.probe
    /\ asserts /\ sender.name = "JoinRequest" =>
         load.radios <= Count(built.parts, "WTPRadioInformation")

WriterInv ==
  /\ TypeOK
  /\ Known
  /\ Progress
  /\ RadiosWritten
  /\ NoneOverfull
  /\ ReturnedAreValid
  /\ SinceBuilt

\* All there is to write, of given writers and a given padding.
Whole(ps, n) ==
  IF n = 0 THEN ps
  ELSE Append(ps, [type |-> "MTUDiscoveryPadding",
                   items |-> <<[len |-> n, ok |-> TRUE, subs |-> 0, late |-> FALSE]>>])

\* The size of a list with one element.
LEMMA OctetsOfOne ==
  ASSUME NEW s \in Seq(Item), Len(s) = 1
  PROVE  Octets(s) = HeaderSize + s[1].len
<1>1. \A k \in 1 .. Len(s) : Sizes(s)[k] = HeaderSize + s[k].len /\ Sizes(s)[k] \in Nat
  BY SizesFacts
<1>2. 1 \in 1 .. Len(s)
  OBVIOUS
<1>3. Sizes(s)[1] = HeaderSize + s[1].len /\ Sizes(s)[1] \in Nat
  BY <1>1, <1>2
<1>4. SumUpTo(Sizes(s), 0 + 1) = SumUpTo(Sizes(s), 0) + Sizes(s)[0 + 1]
      /\ SumUpTo(Sizes(s), 0) = 0
  BY SumUpToSteps
<1>5. SumUpTo(Sizes(s), 1) = Sizes(s)[1]
  BY <1>3, <1>4
<1> QED
  BY <1>3, <1>5 DEF Octets

\* One more writer adds its octets.
LEMMA OneMoreWriter ==
  ASSUME NEW ps \in Seq(ElementWriter), NEW w \in ElementWriter,
         NEW all \in Seq(ElementWriter), Len(all) = Len(ps) + 1,
         \A i \in 1 .. Len(ps) : all[i] = ps[i], all[Len(ps) + 1] = w
  PROVE  TotalSize(all) = TotalSize(ps) + Octets(w.items)
<1>1. /\ \A i \in 1 .. Len(all) : PartSizes(all)[i] = Octets(all[i].items)
      /\ \A i \in 1 .. Len(ps) : PartSizes(ps)[i] = Octets(ps[i].items)
      /\ Len(ps) \in Nat
  BY PartSizesFacts
<1>2. (\A i \in 1 .. Len(ps) : i \in 1 .. Len(all)) /\ Len(ps) + 1 \in 1 .. Len(all)
  BY <1>1
<1>3. \A i \in 1 .. Len(ps) : PartSizes(all)[i] = PartSizes(ps)[i]
  BY <1>1, <1>2
<1>4. SumUpTo(PartSizes(all), Len(ps)) = SumUpTo(PartSizes(ps), Len(ps))
  BY <1>1, <1>3, SumOfSame
<1>5. PartSizes(all)[Len(ps) + 1] = Octets(w.items)
  BY <1>1, <1>2
<1>6. SumUpTo(PartSizes(all), Len(ps) + 1) =
        SumUpTo(PartSizes(all), Len(ps)) + PartSizes(all)[Len(ps) + 1]
  BY <1>1, SumUpToSteps
<1>7. TotalSize(all) = SumUpTo(PartSizes(all), Len(ps) + 1)
      /\ TotalSize(ps) = SumUpTo(PartSizes(ps), Len(ps))
  BY DEF TotalSize
<1> QED
  BY <1>4, <1>5, <1>6, <1>7

LEMMA PaddingWriter ==
  ASSUME NEW n \in Nat, NEW x, x = [len |-> n, ok |-> TRUE, subs |-> 0, late |-> FALSE]
  PROVE  <<x>> \in Seq(Item) /\ Octets(<<x>>) = HeaderSize + n
<1>1. x \in Item /\ x.len = n
  BY DEF Item
<1>2. PICK s : s = <<x>>
  OBVIOUS
<1>3. s \in Seq(Item) /\ Len(s) = 1 /\ s[1] = x
  BY <1>1, <1>2
<1>4. Octets(s) = HeaderSize + n
  BY <1>1, <1>3, OctetsOfOne
<1> QED
  BY <1>2, <1>3, <1>4

LEMMA WholeFacts ==
  ASSUME NEW ps \in Seq(ElementWriter), NEW n \in Nat
  PROVE  /\ Whole(ps, n) \in Seq(ElementWriter)
         /\ Len(Whole(ps, n)) = Len(ps) + IF n = 0 THEN 0 ELSE 1
         /\ \A i \in 1 .. Len(ps) : Whole(ps, n)[i] = ps[i]
         /\ n # 0 => Whole(ps, n)[Len(ps) + 1].type = "MTUDiscoveryPadding"
         /\ TotalSize(Whole(ps, n)) = TotalSize(ps) + IF n = 0 THEN 0 ELSE HeaderSize + n
<1>1. CASE n = 0
  <2>1. TotalSize(ps) \in Nat /\ Len(ps) \in Nat
    BY PartSizesFacts
  <2> QED
    BY <1>1, <2>1 DEF Whole
<1>2. CASE n # 0
  <2>1. PICK s, w : /\ s = <<[len |-> n, ok |-> TRUE, subs |-> 0, late |-> FALSE]>>
                    /\ w = [type |-> "MTUDiscoveryPadding", items |-> s]
    OBVIOUS
  <2>2. s \in Seq(Item) /\ Octets(s) = HeaderSize + n
    BY <2>1, PaddingWriter
  <2>3. w \in ElementWriter /\ w.type = "MTUDiscoveryPadding" /\ w.items = s
    <3>1. w = [type |-> "MTUDiscoveryPadding", items |-> s]
      BY <2>1
    <3>2. w.type = "MTUDiscoveryPadding" /\ w.items = s
      BY <3>1
    <3>3. "MTUDiscoveryPadding" \in DOMAIN Element
      BY ElementAssumption
    <3> QED
      BY <2>2, <3>1, <3>2, <3>3 DEF ElementWriter
  <2>4. PICK all : all = Append(ps, w)
    OBVIOUS
  <2>5. Whole(ps, n) = all
    BY <1>2, <2>1, <2>4 DEF Whole
  <2>6. /\ all \in Seq(ElementWriter) /\ Len(all) = Len(ps) + 1 /\ Len(ps) \in Nat
        /\ \A i \in 1 .. Len(ps) : all[i] = ps[i]
        /\ all[Len(ps) + 1] = w
    BY <2>3, <2>4
  <2>7. TotalSize(all) = TotalSize(ps) + Octets(w.items)
    BY <2>3, <2>6, OneMoreWriter
  <2> QED
    BY <1>2, <2>2, <2>3, <2>5, <2>6, <2>7
<1> QED
  BY <1>1, <1>2

LEMMA ToWriteIs == ToWrite = Whole(parts, padding)
BY DEF ToWrite, PaddingItem, Whole

\* Numbers of 16 bits.
LEMMA SixteenBits == UInt16 \in Nat /\ UInt16 > 0
BY DEF UInt16

LEMMA ShortIsNat ==
  /\ \A n \in 0 .. UInt16 - 1 : n \in Nat
  /\ 0 \in 0 .. UInt16 - 1
<1>1. \A d \in Nat : d > 0 => 0 \in 0 .. d - 1 /\ \A n \in 0 .. d - 1 : n \in Nat
  OBVIOUS
<1> QED
  BY <1>1, SixteenBits, Zenon

\* What is true of all there is to write.
LEMMA ToWriteFacts ==
  ASSUME TypeOK
  PROVE  /\ ToWrite \in Seq(ElementWriter)
         /\ Len(parts) \in Nat /\ DOMAIN parts = 1 .. Len(parts)
         /\ DOMAIN ToWrite = 1 .. Len(ToWrite)
         /\ Len(ToWrite) = Len(parts) + IF padding = 0 THEN 0 ELSE 1
         /\ \A i \in 1 .. Len(parts) : ToWrite[i] = parts[i]
         /\ padding # 0 => ToWrite[Len(parts) + 1].type = "MTUDiscoveryPadding"
         /\ TotalSize(ToWrite) = TotalSize(parts) + IF padding = 0 THEN 0 ELSE HeaderSize + padding
<1> PICK all : all = Whole(parts, padding)
  OBVIOUS
<1>1. parts \in Seq(ElementWriter) /\ padding \in Nat
  <2>1. parts \in Seq(ElementWriter) /\ padding \in 0 .. UInt16 - 1
    BY DEF TypeOK
  <2> QED
    BY <2>1, ShortIsNat
<1>2. /\ all \in Seq(ElementWriter)
      /\ Len(all) = Len(parts) + IF padding = 0 THEN 0 ELSE 1
      /\ \A i \in 1 .. Len(parts) : all[i] = parts[i]
      /\ padding # 0 => all[Len(parts) + 1].type = "MTUDiscoveryPadding"
      /\ TotalSize(all) = TotalSize(parts) + IF padding = 0 THEN 0 ELSE HeaderSize + padding
  BY <1>1, WholeFacts
<1>3. DOMAIN all = 1 .. Len(all) /\ Len(parts) \in Nat /\ DOMAIN parts = 1 .. Len(parts)
  BY <1>1, <1>2
<1>4. ToWrite = all
  BY ToWriteIs
<1> QED
  BY <1>2, <1>3, <1>4

\* The first returned elements are found by the types of the writers.
LEMMA FirstReturnedStays ==
  ASSUME parts \in Seq(ElementWriter), sender' = sender, DOMAIN parts' = DOMAIN parts,
         \A i \in DOMAIN parts : parts'[i].type = parts[i].type
  PROVE  FirstReturned' = FirstReturned /\ FirstReturned \subseteq DOMAIN parts
<1>1. DOMAIN parts = 1 .. Len(parts) /\ Len(parts) \in Nat
  OBVIOUS
<1>2. \A i \in DOMAIN parts : \A j \in 1 .. i - 1 : j \in DOMAIN parts
  BY <1>1
<1> QED
  BY <1>2 DEF FirstReturned

\* A load of which a change has been spent.
LEMMA Spent ==
  ASSUME IsLoad(load), load.changes > 0, load' = [load EXCEPT !.changes = load.changes - 1]
  PROVE  /\ IsLoad(load')
         /\ sender' = sender /\ load'.parts = load.parts /\ load'.radios = load.radios
         /\ load'.probe = load.probe /\ load'.spare = load.spare
<1>1. load.changes - 1 \in Nat
  BY DEF IsLoad
<1>2. load' \in [sender : MessageSender, parts : Seq(ElementWriter), radios : Nat,
                 probe : 0 .. UInt16 - 1, spare : Nat, changes : Nat]
  BY <1>1 DEF IsLoad
<1>3. /\ load'.sender = load.sender /\ load'.parts = load.parts /\ load'.radios = load.radios
      /\ load'.probe = load.probe /\ load'.spare = load.spare
  BY DEF IsLoad
<1> QED
  BY <1>2, <1>3 DEF IsLoad, sender

LEMMA InitWriter == Init => WriterInv
<1> SUFFICES ASSUME Init PROVE WriterInv
  OBVIOUS
<1>1. IsLoad(load) /\ parts = load.parts /\ parts \in Seq(ElementWriter)
  BY LoadsAssumption DEF Init, IsLoad
<1>2. padding = 0 /\ part = 1 /\ ToWrite = parts /\ stage = "prepared" /\ wire = <<>> /\ offset = 0
  BY DEF Init, ToWrite
<1>3. part \in 1 .. Len(ToWrite) + 1
  <2>1. Len(parts) \in Nat
    BY <1>1
  <2> QED
    BY <1>2, <2>1
<1>4. TypeOK
  <2>1. built \in [parts : Seq(ElementWriter), dropped : BOOLEAN, cleared : SUBSET Nat, set : BOOLEAN]
    BY DEF Init
  <2>2. padding \in 0 .. UInt16 - 1
    BY <1>2, ShortIsNat
  <2> QED
    BY <1>1, <1>2, <1>3, <2>1, <2>2 DEF TypeOK, Init
<1>5. Known
  BY <1>1, NewItemsAssumption, ElementAssumption, ExcessAssumption DEF Init, Known, sender
<1>6. Progress
  <2>1. SumUpTo(PartSizes(ToWrite), 0) = 0
    BY SumUpToSteps
  <2> QED
    BY <1>2, <2>1 DEF Progress, Init
<1>7. RadiosWritten
  <2>1. SumUpTo(Counts(ToWrite, "WTPRadioInformation"), 0) = 0
    BY SumUpToSteps
  <2>2. {k \in DOMAIN wire : wire[k].type = "WTPRadioInformation"} = {}
    BY <1>2
  <2>3. Cardinality({k \in DOMAIN wire : wire[k].type = "WTPRadioInformation"}) = 0
    BY <2>2, FS_EmptySet
  <2>4. wire \in Seq(WireFrame)
    BY <1>2
  <2> QED
    BY <1>2, <2>1, <2>3, <2>4 DEF RadiosWritten
<1>8. NoneOverfull
  BY <1>1 DEF Init, NoneOverfull
<1>9. ReturnedAreValid
  BY <1>2 DEF Init, ReturnedAreValid, Made
<1>10. SinceBuilt
  BY <1>2 DEF SinceBuilt, Made
<1> QED
  BY <1>4, <1>5, <1>6, <1>7, <1>8, <1>9, <1>10 DEF WriterInv

\* What a step that leaves the element writers alone has nothing to do with.
LEMMA SameWriters ==
  ASSUME WriterInv, UNCHANGED <<asserts, parts, padding>>,
         sender' = sender, load'.parts = load.parts, load'.radios = load.radios,
         load'.probe = load.probe, built'.parts = built.parts,
         built'.cleared = built.cleared, Made' => Made
  PROVE  /\ Known' /\ NoneOverfull' /\ SinceBuilt'
         /\ ToWrite' = ToWrite /\ FirstReturned' = FirstReturned
<1>1. ToWrite' = ToWrite
  BY DEF ToWrite, PaddingItem
<1>2. FirstReturned' = FirstReturned
  BY DEF FirstReturned
<1>3. Known'
  BY DEF WriterInv, Known
<1>4. NoneOverfull'
  BY DEF WriterInv, NoneOverfull, Overfull, IsArray
<1>5. Probing' = Probing
  BY DEF Probing
<1>6. SinceBuilt'
  BY <1>5 DEF WriterInv, SinceBuilt
<1> QED
  BY <1>1, <1>2, <1>3, <1>4, <1>6

\* Both ways to fail, and a step that changes nothing.
LEMMA FailingKeeps ==
  ASSUME WriterInv, stage' \in {stage, "aborted"},
         UNCHANGED <<load, asserts, parts, result, padding, built, part, room, offset, wire>>
  PROVE  WriterInv'
<1>1. /\ Known' /\ NoneOverfull' /\ SinceBuilt'
      /\ ToWrite' = ToWrite /\ FirstReturned' = FirstReturned
  BY SameWriters DEF sender, Made
<1>2. TypeOK'
  BY <1>1 DEF WriterInv, TypeOK
<1>3. Progress'
  BY <1>1 DEF WriterInv, Progress
<1>4. RadiosWritten'
  BY <1>1 DEF WriterInv, RadiosWritten
<1>5. ReturnedAreValid'
  BY <1>1 DEF WriterInv, ReturnedAreValid, Made
<1> QED
  BY <1>1, <1>2, <1>3, <1>4, <1>5 DEF WriterInv

LEMMA SetResultKeeps ==
  ASSUME WriterInv, SetResult
  PROVE  WriterInv'
<1>1. /\ IsLoad(load') /\ sender' = sender /\ load'.parts = load.parts
      /\ load'.radios = load.radios /\ load'.probe = load.probe /\ load'.spare = load.spare
  BY Spent DEF WriterInv, TypeOK, SetResult, MayChange
<1>2. /\ built' \in [parts : Seq(ElementWriter), dropped : BOOLEAN, cleared : SUBSET Nat, set : BOOLEAN]
      /\ built'.parts = built.parts /\ built'.cleared = built.cleared /\ built'.set
  BY DEF WriterInv, TypeOK, SetResult
<1>3. stage = "constructed"
      /\ UNCHANGED <<asserts, parts, padding, stage, part, room, offset, wire>>
      /\ result' = "given"
  BY DEF SetResult, MayChange
<1>4. /\ Known' /\ NoneOverfull' /\ SinceBuilt'
      /\ ToWrite' = ToWrite /\ FirstReturned' = FirstReturned
  BY <1>1, <1>2, <1>3, SameWriters DEF Made
<1>5. TypeOK'
  BY <1>1, <1>2, <1>3, <1>4 DEF WriterInv, TypeOK
<1>6. Progress'
  BY <1>3, <1>4 DEF WriterInv, Progress
<1>7. RadiosWritten'
  BY <1>3, <1>4 DEF WriterInv, RadiosWritten
<1>8. ReturnedAreValid'
  BY <1>2, <1>3, <1>4 DEF WriterInv, ReturnedAreValid, Made
<1> QED
  BY <1>4, <1>5, <1>6, <1>7, <1>8 DEF WriterInv

LEMMA BeginSerializeKeeps ==
  ASSUME WriterInv, BeginSerialize
  PROVE  WriterInv'
<1>1. stage = "constructed" /\ stage' = "writing" /\ room' = TotalSize(ToWrite) + load.spare
      /\ UNCHANGED <<load, asserts, parts, result, padding, built, part, offset, wire>>
  BY DEF BeginSerialize
<1>2. /\ Known' /\ NoneOverfull' /\ SinceBuilt'
      /\ ToWrite' = ToWrite /\ FirstReturned' = FirstReturned
  BY <1>1, SameWriters DEF sender, Made
<1>3. TotalSize(ToWrite) \in Nat /\ load.spare \in Nat
  BY ToWriteFacts, PartSizesFacts DEF WriterInv, TypeOK, IsLoad
<1>4. offset = 0
  <2>1. offset = SumUpTo(PartSizes(ToWrite), 1 - 1)
    BY <1>1 DEF WriterInv, Progress
  <2> QED
    BY <2>1, SumUpToSteps
<1>5. TypeOK'
  BY <1>1, <1>2, <1>3, <1>4 DEF WriterInv, TypeOK
<1>6. Progress'
  <2>1. TotalSize(ToWrite)' = TotalSize(ToWrite)
    BY <1>2
  <2> QED
    BY <1>1, <1>2, <2>1 DEF WriterInv, Progress
<1>7. RadiosWritten'
  BY <1>1, <1>2 DEF WriterInv, RadiosWritten
<1>8. ReturnedAreValid'
  BY <1>1, <1>2 DEF WriterInv, ReturnedAreValid, Made
<1> QED
  BY <1>2, <1>5, <1>6, <1>7, <1>8 DEF WriterInv

LEMMA EndSerializeKeeps ==
  ASSUME WriterInv, EndSerialize
  PROVE  WriterInv'
<1>1. stage = "writing" /\ stage' = "written" /\ part > Len(ToWrite)
      /\ UNCHANGED <<load, asserts, parts, result, padding, built, part, room, offset, wire>>
  BY DEF EndSerialize
<1>2. /\ Known' /\ NoneOverfull' /\ SinceBuilt'
      /\ ToWrite' = ToWrite /\ FirstReturned' = FirstReturned
  BY <1>1, SameWriters DEF sender, Made
<1>3. TypeOK'
  BY <1>1, <1>2 DEF WriterInv, TypeOK
<1>4. part = Len(ToWrite) + 1
  <2>1. Len(ToWrite) \in Nat /\ part \in 1 .. Len(ToWrite) + 1
    BY ToWriteFacts DEF WriterInv, TypeOK
  <2> QED
    BY <1>1, <2>1
<1>5. Progress'
  BY <1>1, <1>2, <1>4 DEF WriterInv, Progress
<1>6. RadiosWritten'
  BY <1>1, <1>2 DEF WriterInv, RadiosWritten
<1>7. ReturnedAreValid'
  BY <1>1, <1>2 DEF WriterInv, ReturnedAreValid, Made
<1> QED
  BY <1>2, <1>3, <1>5, <1>6, <1>7 DEF WriterInv

\* What dropping all the items of some writers does.
LEMMA ItemsDropped ==
  ASSUME NEW ps \in Seq(ElementWriter), NEW D, NEW qs,
         qs = [i \in DOMAIN ps |-> IF i \in D THEN [ps[i] EXCEPT !.items = <<>>] ELSE ps[i]]
  PROVE  /\ qs \in Seq(ElementWriter) /\ Len(qs) = Len(ps) /\ DOMAIN qs = DOMAIN ps
         /\ \A j \in DOMAIN ps :
              /\ qs[j].type = ps[j].type
              /\ qs[j].items = IF j \in D THEN <<>> ELSE ps[j].items
         /\ D = {} => qs = ps
<1>1. ASSUME NEW j \in DOMAIN ps
      PROVE  /\ qs[j] \in ElementWriter
             /\ qs[j].type = ps[j].type
             /\ qs[j].items = IF j \in D THEN <<>> ELSE ps[j].items
  <2>1. ps[j] \in ElementWriter /\ <<>> \in Seq(Item)
    OBVIOUS
  <2>2. /\ [ps[j] EXCEPT !.items = <<>>] \in ElementWriter
        /\ [ps[j] EXCEPT !.items = <<>>].type = ps[j].type
        /\ [ps[j] EXCEPT !.items = <<>>].items = <<>>
    BY <2>1 DEF ElementWriter
  <2>3. qs[j] = IF j \in D THEN [ps[j] EXCEPT !.items = <<>>] ELSE ps[j]
    OBVIOUS
  <2> QED
    BY <2>1, <2>2, <2>3
<1>2. DOMAIN qs = DOMAIN ps /\ DOMAIN ps = 1 .. Len(ps) /\ Len(ps) \in Nat
  OBVIOUS
<1>3. qs = [j \in 1 .. Len(ps) |-> qs[j]]
  BY <1>2
<1>4. qs \in Seq(ElementWriter) /\ Len(qs) = Len(ps)
  BY <1>1, <1>2, <1>3
<1>5. D = {} => qs = ps
  OBVIOUS
<1> QED
  BY <1>1, <1>2, <1>4, <1>5

\* Before anything is written, the writers and the padding may change.
LEMMA NotBegun ==
  ASSUME WriterInv, stage = "prepared" \/ stage = "constructed",
         UNCHANGED <<part, offset, wire>>,
         parts' \in Seq(ElementWriter), padding' \in Nat
  PROVE  /\ part = 1 /\ wire = <<>> /\ offset = 0
         /\ part' \in 1 .. Len(ToWrite') + 1
         /\ offset' = SumUpTo(PartSizes(ToWrite'), part' - 1)
         /\ RadiosWritten'
<1>1. part = 1 /\ wire = <<>>
  BY DEF WriterInv, Progress
<1>2. \A a : SumUpTo(a, 1 - 1) = 0
  BY SumUpToSteps
<1>3. offset = 0
  BY <1>1, <1>2 DEF WriterInv, Progress
<1>4. Len(ToWrite') \in Nat
  <2>1. ToWrite' = Whole(parts', padding')
    BY DEF ToWrite, PaddingItem, Whole
  <2>2. Whole(parts', padding') \in Seq(ElementWriter)
    BY WholeFacts
  <2> QED
    BY <2>1, <2>2
<1>5. RadiosWritten'
  BY <1>1, <1>2 DEF WriterInv, RadiosWritten
<1> QED
  BY <1>1, <1>2, <1>3, <1>4, <1>5

\* Numbers in 16 bits.
LEMMA CutTo16Bits ==
  ASSUME NEW n \in Int
  PROVE  /\ n % UInt16 \in 0 .. UInt16 - 1 /\ n % UInt16 \in Nat
         /\ n \in 0 .. UInt16 - 1 => n % UInt16 = n
<1>1. \A d \in Int : d > 0 => n % d \in 0 .. d - 1
  OBVIOUS
<1>2. \A d \in Int : d > 0 /\ n \in 0 .. d - 1 => n % d = n
  OBVIOUS
<1>3. UInt16 \in Int /\ UInt16 > 0
  BY SixteenBits
<1>4. \A m \in 0 .. UInt16 - 1 : m \in Nat
  BY ShortIsNat
<1>5. n % UInt16 \in 0 .. UInt16 - 1
  BY <1>1, <1>3
<1>6. n \in 0 .. UInt16 - 1 => n % UInt16 = n
  BY <1>2, <1>3
<1> QED
  BY <1>4, <1>5, <1>6

LEMMA ConstructKeeps ==
  ASSUME WriterInv, Construct
  PROVE  WriterInv'
<1>1. /\ stage = "prepared" /\ stage' = "constructed" /\ padding' = CalcMTUPadding
      /\ UNCHANGED <<load, asserts, part, room, offset, wire>>
      /\ asserts => ConstructorAsserts
      /\ result' = IF Dropped = {} THEN result ELSE "unrecognized"
      /\ parts \in Seq(ElementWriter) /\ sender' = sender
      /\ ~built.dropped
  BY DEF WriterInv, TypeOK, Construct, sender, Progress
<1>2. /\ parts' \in Seq(ElementWriter) /\ Len(parts') = Len(parts) /\ DOMAIN parts' = DOMAIN parts
      /\ \A j \in DOMAIN parts :
           /\ parts'[j].type = parts[j].type
           /\ parts'[j].items = IF j \in Dropped THEN <<>> ELSE parts[j].items
      /\ Dropped = {} => parts' = parts
  <2>1. parts' = [i \in DOMAIN parts |->
                    IF i \in Dropped THEN [parts[i] EXCEPT !.items = <<>>] ELSE parts[i]]
    BY DEF Construct
  <2> QED
    BY <1>1, <2>1, ItemsDropped
<1>3. FirstReturned' = FirstReturned /\ FirstReturned \subseteq DOMAIN parts
  BY <1>1, <1>2, FirstReturnedStays
<1>4. /\ built' \in [parts : Seq(ElementWriter), dropped : BOOLEAN, cleared : SUBSET Nat, set : BOOLEAN]
      /\ built'.parts = parts' /\ built'.dropped = (Dropped # {})
      /\ built'.set = built.set /\ built'.cleared = built.cleared
  <2>1. built' = [built EXCEPT !.parts = parts', !.dropped = Dropped # {}]
    BY DEF Construct
  <2> QED
    BY <1>2, <2>1 DEF WriterInv, TypeOK
<1>5. padding' \in 0 .. UInt16 - 1 /\ padding' \in Nat
  <2>1. TotalSize(parts) \in Nat /\ load.probe \in Int
    BY <1>1, PartSizesFacts DEF WriterInv, TypeOK, IsLoad
  <2>2. CalcTotalSize \in Nat
    BY <2>1, CutTo16Bits DEF CalcTotalSize
  <2>3. load.probe - CalcTotalSize - ProbeHeaders \in Int
    BY <2>1, <2>2 DEF ProbeHeaders, TransportSize, HeaderSize
  <2>4. CalcMTUPadding \in 0 .. UInt16 - 1
    <3>1. 0 \in 0 .. UInt16 - 1
      BY ShortIsNat
    <3> QED
      BY <2>3, <3>1, CutTo16Bits DEF CalcMTUPadding
  <2> QED
    BY <1>1, <2>4, ShortIsNat
<1>6. /\ part = 1 /\ wire = <<>> /\ offset = 0 /\ part' \in 1 .. Len(ToWrite') + 1
      /\ offset' = SumUpTo(PartSizes(ToWrite'), part' - 1) /\ RadiosWritten'
  BY <1>1, <1>2, <1>5, NotBegun
<1>7. TypeOK'
  BY <1>1, <1>2, <1>4, <1>5, <1>6 DEF WriterInv, TypeOK
<1>8. Known'
  BY <1>1, <1>2 DEF WriterInv, Known
<1>9. Progress'
  BY <1>1, <1>6 DEF Progress
<1>10. NoneOverfull'
  <2> SUFFICES ASSUME asserts, NEW i \in DOMAIN parts PROVE ~Overfull(parts'[i])
    BY <1>1, <1>2 DEF NoneOverfull, Overfull, IsArray
  <2>1. ~Overfull(parts[i]) /\ Element[parts[i].type].cap \in Nat /\ Len(<<>>) = 0
    BY DEF WriterInv, NoneOverfull, Known
  <2>2. parts'[i].type = parts[i].type /\ (parts'[i].items = <<>> \/ parts'[i].items = parts[i].items)
    BY <1>2
  <2> QED
    BY <2>1, <2>2 DEF Overfull
<1>11. ReturnedAreValid'
  <2>1. ASSUME NEW i \in FirstReturned, NEW k \in DOMAIN parts'[i].items
        PROVE  IsValid(parts'[i].type, parts'[i].items[k])
    <3>1. /\ parts'[i].type = parts[i].type
          /\ parts'[i].items = IF i \in Dropped THEN <<>> ELSE parts[i].items
      BY <1>2, <1>3
    <3>2. i \notin Dropped
      BY <2>1, <3>1
    <3> QED
      BY <2>1, <3>1, <3>2 DEF Dropped, SomeInvalid
  <2>2. built'.dropped => result' = "unrecognized"
    BY <1>1, <1>4
  <2> QED
    BY <1>1, <1>3, <1>6, <2>1, <2>2 DEF ReturnedAreValid
<1>12. SinceBuilt'
  <2>1. sender.name # "ChangeStateEventRequest" => parts' = parts
    BY <1>2 DEF Dropped, FirstReturned
  <2>2. Len(built'.parts) = Len(parts')
        /\ \A i \in DOMAIN parts' : built'.parts[i].type = parts'[i].type
                                    /\ Len(built'.parts[i].items) <= Len(parts'[i].items)
    <3>1. \A i \in DOMAIN parts' : Len(parts'[i].items) \in Nat
      BY <1>2, PartSizesFacts
    <3> QED
      BY <1>4, <3>1
  <2>3. Probing' = Probing /\ (Probing => parts' = parts)
    BY <1>1, <2>1 DEF Probing, sender
  <2>4. padding' = IF Probing
                     THEN (load.probe - (TotalSize(built'.parts) % UInt16) - ProbeHeaders) % UInt16
                     ELSE 0
    BY <1>1, <1>4, <2>3 DEF CalcMTUPadding, CalcTotalSize
  <2>5. asserts /\ Probing =>
          ((TotalSize(built'.parts) % UInt16) + ProbeHeaders) % UInt16 < load.probe
    BY <1>1, <1>4, <2>3 DEF ConstructorAsserts, ProbeHasRoom, CalcTotalSize
  <2>6. asserts /\ sender.name = "JoinRequest" =>
          load.radios <= Count(built'.parts, "WTPRadioInformation")
    BY <1>1, <1>4, <2>1 DEF ConstructorAsserts, RadiosCovered
  <2> QED
    BY <1>1, <2>2, <2>3, <2>4, <2>5, <2>6 DEF SinceBuilt
<1> QED
  BY <1>6, <1>7, <1>8, <1>9, <1>10, <1>11, <1>12 DEF WriterInv

\* The parts of a change of the application's arrays.
OnlyLateIn(its, old) ==
  \A k \in DOMAIN its : its[k].late \/ (k \in DOMAIN old /\ its[k] = old[k])
ChangeSpent(l) == [l EXCEPT !.changes = l.changes - 1]
Histories ==
  [parts : Seq(ElementWriter), dropped : BOOLEAN, cleared : SUBSET Nat, set : BOOLEAN]

\* What replacing the items of one of the application's arrays may do.
LEMMA ChangeKeeps ==
  ASSUME WriterInv, MayChange, NEW i \in DOMAIN parts, NEW its \in Seq(Item),
         parts' = WithItems(parts, i, its), load' = ChangeSpent(load),
         UNCHANGED <<asserts, result, padding, stage, part, room, offset, wire>>,
         asserts => Len(its) <= Element[parts[i].type].cap,
         OnlyLateIn(its, parts[i].items),
         built' \in Histories,
         built'.parts = built.parts, built'.dropped = built.dropped, built'.set = built.set,
         built.cleared \subseteq built'.cleared,
         i \in built'.cleared \/ Len(parts[i].items) <= Len(its)
  PROVE  WriterInv'
<1>1. /\ stage = "constructed" /\ load.changes > 0 /\ IsLoad(load)
      /\ parts \in Seq(ElementWriter) /\ padding \in Nat
  BY ShortIsNat DEF MayChange, WriterInv, TypeOK
<1>2. /\ IsLoad(load') /\ sender' = sender /\ load'.parts = load.parts
      /\ load'.radios = load.radios /\ load'.probe = load.probe /\ load'.spare = load.spare
  BY <1>1, Spent DEF ChangeSpent
<1>3. /\ parts' \in Seq(ElementWriter) /\ Len(parts') = Len(parts) /\ DOMAIN parts' = DOMAIN parts
      /\ \A j \in DOMAIN parts :
           /\ parts'[j].type = parts[j].type
           /\ parts'[j].items = IF j = i THEN its ELSE parts[j].items
  BY <1>1, ItemsReplaced
<1>4. FirstReturned' = FirstReturned /\ FirstReturned \subseteq DOMAIN parts
  BY <1>1, <1>2, <1>3, FirstReturnedStays
<1>5. /\ part = 1 /\ wire = <<>> /\ offset = 0 /\ part' \in 1 .. Len(ToWrite') + 1
      /\ offset' = SumUpTo(PartSizes(ToWrite'), part' - 1) /\ RadiosWritten'
  BY <1>1, <1>3, NotBegun
<1>6. TypeOK'
  BY <1>1, <1>2, <1>3, <1>5 DEF WriterInv, TypeOK, Histories
<1>7. Known'
  BY <1>2, <1>3 DEF WriterInv, Known
<1>8. Progress'
  BY <1>1, <1>5 DEF Progress
<1>9. NoneOverfull'
  <2> SUFFICES ASSUME asserts, NEW j \in DOMAIN parts PROVE ~Overfull(parts'[j])
    BY <1>3 DEF NoneOverfull, Overfull, IsArray
  <2>1. ~Overfull(parts[j]) /\ Element[parts[j].type].cap \in Nat
    BY DEF WriterInv, NoneOverfull, Known
  <2>2. Len(its) \in Nat
    BY SizesFacts
  <2> QED
    BY <1>3, <2>1, <2>2 DEF Overfull
<1>10. ReturnedAreValid'
  <2>1. ASSUME NEW j \in FirstReturned, NEW k \in DOMAIN parts'[j].items
        PROVE  IsValid(parts'[j].type, parts'[j].items[k]) \/ parts'[j].items[k].late
    <3>1. \A h \in DOMAIN parts[j].items :
            IsValid(parts[j].type, parts[j].items[h]) \/ parts[j].items[h].late
      BY <1>1 DEF WriterInv, ReturnedAreValid, Made
    <3>2. /\ parts'[j].type = parts[j].type
          /\ parts'[j].items = IF j = i THEN its ELSE parts[j].items
      BY <1>3, <1>4
    <3> QED
      BY <3>1, <3>2 DEF OnlyLateIn
  <2> QED
    BY <1>4, <1>5, <2>1 DEF WriterInv, ReturnedAreValid
<1>11. SinceBuilt'
  <2>1. SinceBuilt /\ Made /\ Probing' = Probing
    BY <1>1, <1>2 DEF WriterInv, Made, Probing
  <2>2. ASSUME NEW j \in DOMAIN parts
        PROVE  /\ built'.parts[j].type = parts'[j].type
               /\ j \notin built'.cleared => Len(built'.parts[j].items) <= Len(parts'[j].items)
    <3>1. /\ built.parts[j].type = parts[j].type
          /\ j \notin built.cleared => Len(built.parts[j].items) <= Len(parts[j].items)
          /\ Len(built.parts) = Len(parts)
      BY <2>1 DEF SinceBuilt
    <3>2. j \in DOMAIN built.parts /\ built.parts \in Seq(ElementWriter)
      <4>1. built.parts \in Seq(ElementWriter)
        BY DEF WriterInv, TypeOK
      <4> QED
        BY <1>1, <3>1, <4>1
    <3>3. Len(built.parts[j].items) \in Nat /\ Len(parts[j].items) \in Nat /\ Len(its) \in Nat
      BY <1>1, <3>2, PartSizesFacts, SizesFacts
    <3>4. CASE j = i
      BY <1>3, <3>1, <3>3, <3>4
    <3>5. CASE j # i
      BY <1>3, <3>1, <3>5
    <3> QED
      BY <3>4, <3>5
  <2> QED
    BY <1>2, <1>3, <2>1, <2>2 DEF SinceBuilt, Made
<1> QED
  BY <1>5, <1>6, <1>7, <1>8, <1>9, <1>10, <1>11 DEF WriterInv

LEMMA AddKeeps ==
  ASSUME WriterInv, NEW i \in DOMAIN parts, NEW x \in NewItems(parts[i].type), Add(i, x)
  PROVE  WriterInv'
<1>1. PICK y : y = [x EXCEPT !.late = TRUE]
  OBVIOUS
<1>2. y \in Item /\ y.late
  <2>1. x \in Item
    BY DEF WriterInv, Known
  <2> QED
    BY <1>1, <2>1 DEF Item
<1>3. PICK its \in WithItem(parts[i].type, parts[i].items, y) : parts' = WithItems(parts, i, its)
  BY <1>1 DEF Add, WithItems
<1>4. parts[i].items \in Seq(Item) /\ Element[parts[i].type].cap \in Nat
  BY PartSizesFacts DEF WriterInv, TypeOK, Known
<1>5. /\ its \in Seq(Item) /\ OnlyLateIn(its, parts[i].items)
      /\ Len(parts[i].items) \in Nat
      /\ Len(its) \in {Len(parts[i].items), Len(parts[i].items) + 1}
  <2>1. CASE its = Append(parts[i].items, y)
    BY <1>2, <1>4, <2>1 DEF OnlyLateIn
  <2>2. CASE \E k \in DOMAIN parts[i].items : its = [parts[i].items EXCEPT ![k] = y]
    BY <1>2, <1>4, <2>2 DEF OnlyLateIn
  <2> QED
    BY <1>3, <2>1, <2>2 DEF WithItem
<1>6. /\ MayChange /\ load' = ChangeSpent(load)
      /\ UNCHANGED <<asserts, result, padding, stage, built, part, room, offset, wire>>
      /\ asserts => Len(parts[i].items) < Element[parts[i].type].cap
  BY DEF Add, ChangeSpent
<1>7. asserts => Len(its) <= Element[parts[i].type].cap
  BY <1>4, <1>5, <1>6
<1>8. built' \in Histories /\ built' = built
  BY <1>6 DEF WriterInv, TypeOK, Histories
<1>9. Len(parts[i].items) <= Len(its)
  BY <1>5
<1> QED
  BY <1>3, <1>5, <1>6, <1>7, <1>8, <1>9, ChangeKeeps

LEMMA ClearKeeps ==
  ASSUME WriterInv, NEW i \in DOMAIN parts, Clear(i)
  PROVE  WriterInv'
<1>0. <<>> \in Seq(Item)
  OBVIOUS
<1>1. PICK its \in Seq(Item) : its = <<>>
  BY <1>0
<1>2. /\ MayChange /\ parts' = WithItems(parts, i, its) /\ load' = ChangeSpent(load)
      /\ UNCHANGED <<asserts, result, padding, stage, part, room, offset, wire>>
      /\ built' = [built EXCEPT !.cleared = built.cleared \cup {i}]
  BY <1>1 DEF Clear, WithItems, ChangeSpent
<1>3. Len(its) <= Element[parts[i].type].cap /\ OnlyLateIn(its, parts[i].items)
  <2>1. Element[parts[i].type].cap \in Nat
    BY DEF WriterInv, Known
  <2> QED
    BY <1>1, <2>1 DEF OnlyLateIn
<1>4. /\ built' \in Histories
      /\ built'.parts = built.parts /\ built'.dropped = built.dropped /\ built'.set = built.set
      /\ built'.cleared = built.cleared \cup {i}
  <2>1. i \in Nat
    BY DEF WriterInv, TypeOK
  <2>2. built \in Histories
    BY DEF WriterInv, TypeOK, Histories
  <2> QED
    BY <1>2, <2>1, <2>2 DEF Histories
<1> QED
  BY <1>2, <1>3, <1>4, ChangeKeeps
-----------------------------------------------------------------------------
(***************************************************************************)
(* Writing the elements.                                                   *)
(***************************************************************************)

LEMMA FunctionIsSeq ==
  ASSUME NEW S, NEW n \in Nat, NEW f, f = [k \in 1 .. n |-> f[k]],
         \A k \in 1 .. n : f[k] \in S
  PROVE  f \in Seq(S) /\ Len(f) = n
OBVIOUS

LEMMA FramesFacts ==
  ASSUME NEW p \in ElementWriter, offset \in Nat, part \in Nat
  PROVE  /\ Frames(p) \in Seq(WireFrame) /\ Len(Frames(p)) = Len(p.items)
         /\ Len(p.items) \in Nat /\ DOMAIN p.items = 1 .. Len(p.items)
         /\ \A k \in 1 .. Len(p.items) :
              /\ Frames(p)[k].type = p.type /\ Frames(p)[k].len = p.items[k].len
              /\ Frames(p)[k].ok = p.items[k].ok /\ Frames(p)[k].late = p.items[k].late
              /\ Frames(p)[k].part = part /\ Frames(p)[k].item = k
              /\ Frames(p)[k].subs = p.items[k].subs
              /\ Len(Frames(p)[k].stop) = p.items[k].subs + 1
              /\ Frames(p)[k].at = offset + SumUpTo(Sizes(p.items), k - 1)
<1>1. p.type \in DOMAIN Element /\ p.items \in Seq(Item)
  BY DEF ElementWriter
<1>2. /\ Len(p.items) \in Nat /\ DOMAIN p.items = 1 .. Len(p.items)
      /\ \A k \in 1 .. Len(p.items) : p.items[k] \in Item
      /\ \A k \in 1 .. Len(p.items) : Sizes(p.items)[k] \in Nat
  BY <1>1, SizesFacts
<1>3. ASSUME NEW k \in 1 .. Len(p.items)
      PROVE  /\ Frames(p)[k] \in WireFrame
             /\ Frames(p)[k].type = p.type /\ Frames(p)[k].len = p.items[k].len
             /\ Frames(p)[k].ok = p.items[k].ok /\ Frames(p)[k].late = p.items[k].late
             /\ Frames(p)[k].part = part /\ Frames(p)[k].item = k
             /\ Frames(p)[k].subs = p.items[k].subs
             /\ Len(Frames(p)[k].stop) = p.items[k].subs + 1
             /\ Frames(p)[k].at = offset + SumUpTo(Sizes(p.items), k - 1)
  <2>1. p.items[k] \in Item
    BY <1>2
  <2>2. /\ p.items[k].len \in Nat /\ p.items[k].ok \in BOOLEAN
        /\ p.items[k].subs \in Nat /\ p.items[k].late \in BOOLEAN
    BY <2>1 DEF Item
  <2> DEFINE stop == [n \in 1 .. p.items[k].subs + 1 |-> HeaderSize]
  <2>3. stop \in Seq(Nat) /\ Len(stop) = p.items[k].subs + 1
    BY <2>2 DEF HeaderSize
  <2>4. offset + SumUpTo(Sizes(p.items), k - 1) \in Nat
    <3>1. k - 1 \in 0 .. Len(p.items)
      BY <1>2
    <3>2. SumUpTo(Sizes(p.items), k - 1) \in Nat
      BY <1>2, <3>1, SumIsNat
    <3> QED
      BY <3>2
  <2>5. Frames(p)[k] =
          [type |-> p.type, at |-> offset + SumUpTo(Sizes(p.items), k - 1),
           len |-> p.items[k].len, ok |-> p.items[k].ok, body |-> "ok",
           subs |-> p.items[k].subs,
           stop |-> stop,
           late |-> p.items[k].late, part |-> part, item |-> k]
    BY <1>2 DEF Frames
  <2> HIDE DEF stop
  <2>6. Frames(p)[k] \in WireFrame
    BY <1>1, <2>2, <2>3, <2>4, <2>5 DEF WireFrame
  <2>7. /\ Frames(p)[k].type = p.type /\ Frames(p)[k].len = p.items[k].len
        /\ Frames(p)[k].ok = p.items[k].ok /\ Frames(p)[k].late = p.items[k].late
        /\ Frames(p)[k].part = part /\ Frames(p)[k].item = k
        /\ Frames(p)[k].subs = p.items[k].subs
        /\ Len(Frames(p)[k].stop) = p.items[k].subs + 1
        /\ Frames(p)[k].at = offset + SumUpTo(Sizes(p.items), k - 1)
    BY <2>3, <2>5
  <2> QED
    BY <2>6, <2>7
<1>4. DOMAIN Frames(p) = 1 .. Len(p.items) /\ Frames(p) = [k \in DOMAIN p.items |-> Frames(p)[k]]
  BY <1>2 DEF Frames
<1>5. Frames(p) \in Seq(WireFrame) /\ Len(Frames(p)) = Len(p.items)
  <2> PICK f : f = Frames(p)
    OBVIOUS
  <2>1. f = [k \in 1 .. Len(p.items) |-> f[k]]
    BY <1>2, <1>4
  <2>2. \A k \in 1 .. Len(p.items) : f[k] \in WireFrame
    BY <1>3
  <2> QED
    BY <1>2, <2>1, <2>2, FunctionIsSeq
<1> QED
  BY <1>2, <1>3, <1>5

\* A list with more elements behind it.
IsConcat(q, s, u) == q = s \o u

LEMMA Concatenated ==
  ASSUME NEW s \in Seq(WireFrame), NEW u \in Seq(WireFrame), NEW q, IsConcat(q, s, u)
  PROVE  /\ q \in Seq(WireFrame) /\ Len(q) = Len(s) + Len(u)
         /\ Len(s) \in Nat /\ DOMAIN s = 1 .. Len(s)
         /\ Len(u) \in Nat /\ DOMAIN u = 1 .. Len(u)
         /\ DOMAIN q = 1 .. Len(s) + Len(u)
         /\ \A k \in 1 .. Len(s) + Len(u) :
              q[k] = IF k <= Len(s) THEN s[k] ELSE u[k - Len(s)]
<1>1. /\ q \in Seq(WireFrame) /\ Len(q) = Len(s) + Len(u)
      /\ \A k \in 1 .. Len(s) + Len(u) :
           q[k] = IF k <= Len(s) THEN s[k] ELSE u[k - Len(s)]
  BY ConcatProperties DEF IsConcat
<1> QED
  BY <1>1

\* What has been written is counted with what was there.
OfType(q, t) == {k \in DOMAIN q : q[k].type = t}
AllOf(u, y) == \A k \in DOMAIN u : u[k].type = y

LEMMA MoreOfType ==
  ASSUME NEW s \in Seq(WireFrame), NEW u \in Seq(WireFrame), NEW q, IsConcat(q, s, u),
         NEW y, AllOf(u, y), NEW t
  PROVE  Cardinality(OfType(q, t)) = Cardinality(OfType(s, t)) + IF y = t THEN Len(u) ELSE 0
<1> PICK n \in Nat : Len(u) = n
  OBVIOUS
<1> DEFINE A == {k \in DOMAIN s : s[k].type = t}
           B == {k \in Len(s) + 1 .. Len(s) + n : y = t}
           C == {k \in DOMAIN q : q[k].type = t}
<1>1. Len(s) \in Nat /\ DOMAIN s = 1 .. Len(s) /\ DOMAIN u = 1 .. n
  OBVIOUS
<1>2. /\ DOMAIN q = 1 .. Len(s) + n
      /\ \A k \in 1 .. Len(s) + n : q[k].type = IF k <= Len(s) THEN s[k].type ELSE y
  <2>1. \A k \in 1 .. Len(s) + n : k > Len(s) => k - Len(s) \in 1 .. n
    BY <1>1
  <2>2. \A k \in 1 .. n : u[k].type = y
    BY <1>1 DEF AllOf
  <2>3. /\ DOMAIN q = 1 .. Len(s) + n
        /\ \A k \in 1 .. Len(s) + n :
             q[k] = IF k <= Len(s) THEN s[k] ELSE u[k - Len(s)]
    BY Concatenated
  <2> QED
    BY <1>1, <2>1, <2>2, <2>3
<1>3. C = A \cup B
  BY <1>1, <1>2
<1>4. IsFiniteSet(A) /\ A \cap B = {} /\ Cardinality(A) \in Nat
  <2>1. A \in SUBSET (1 .. Len(s))
    BY <1>1
  <2>2. IsFiniteSet(1 .. Len(s))
    BY <1>1, FS_Interval
  <2>3. IsFiniteSet(A)
    BY <2>1, <2>2, FS_Subset
  <2> QED
    BY <1>1, <2>1, <2>3, FS_CardinalityType
<1>5. IsFiniteSet(B) /\ Cardinality(B) = IF y = t THEN n ELSE 0
  <2>1. CASE y = t
    <3>1. B = Len(s) + 1 .. Len(s) + n
      BY <2>1
    <3>2. Len(s) + 1 \in Int /\ Len(s) + n \in Int
      BY <1>1
    <3>3. IsFiniteSet(B) /\ Cardinality(B) = IF Len(s) + 1 > Len(s) + n THEN 0
                                            ELSE (Len(s) + n) - (Len(s) + 1) + 1
      BY <3>1, <3>2, FS_Interval
    <3> HIDE DEF B
    <3> QED
      BY <1>1, <2>1, <3>3
  <2>2. CASE y # t
    BY <2>2, FS_EmptySet
  <2> QED
    BY <2>1, <2>2
<1> HIDE DEF A, B, C
<1>6. Cardinality(C) = Cardinality(A) + Cardinality(B)
  <2>1. Cardinality(A \cap B) = 0
    BY <1>4, FS_EmptySet
  <2>2. Cardinality(A \cup B) = Cardinality(A) + Cardinality(B) - Cardinality(A \cap B)
    BY <1>4, <1>5, FS_Union
  <2>3. Cardinality(B) \in Nat
    BY <1>5
  <2> QED
    BY <1>3, <1>4, <2>1, <2>2, <2>3
<1> QED
  BY <1>5, <1>6 DEF A, C, OfType

\* Where the next writer ends.
LEMMA NextEnds ==
  ASSUME WriterInv, stage = "writing", part \in DOMAIN ToWrite
  PROVE  /\ part \in 1 .. Len(ToWrite) /\ part \in Nat /\ part - 1 \in Nat
         /\ ToWrite[part] \in ElementWriter /\ ToWrite[part].items \in Seq(Item)
         /\ PartSizes(ToWrite)[part] = Octets(ToWrite[part].items)
         /\ offset + Octets(ToWrite[part].items) = SumUpTo(PartSizes(ToWrite), part)
         /\ offset + Octets(ToWrite[part].items) \in Nat
         /\ offset + Octets(ToWrite[part].items) <= TotalSize(ToWrite)
         /\ TotalSize(ToWrite) \in Nat
         /\ room = TotalSize(ToWrite) + load.spare /\ load.spare \in Nat
<1>1. /\ ToWrite \in Seq(ElementWriter)
      /\ DOMAIN ToWrite = 1 .. Len(ToWrite) /\ Len(ToWrite) \in Nat
  BY ToWriteFacts, PartSizesFacts DEF WriterInv
<1>2. part \in 1 .. Len(ToWrite) /\ part \in Nat /\ part - 1 \in Nat /\ part \in 0 .. Len(ToWrite)
      /\ (part - 1) + 1 = part
  BY <1>1
<1>3. /\ ToWrite[part] \in ElementWriter /\ ToWrite[part].items \in Seq(Item)
      /\ PartSizes(ToWrite)[part] = Octets(ToWrite[part].items)
      /\ SumUpTo(PartSizes(ToWrite), part) \in Nat
      /\ SumUpTo(PartSizes(ToWrite), part) <= TotalSize(ToWrite)
      /\ TotalSize(ToWrite) \in Nat
  BY <1>1, <1>2, PartSizesFacts
<1>4. SumUpTo(PartSizes(ToWrite), part) =
        SumUpTo(PartSizes(ToWrite), part - 1) + PartSizes(ToWrite)[part]
  BY <1>2, SumUpToSteps
<1>5. offset = SumUpTo(PartSizes(ToWrite), part - 1)
      /\ room = TotalSize(ToWrite) + load.spare
  BY DEF WriterInv, Progress
<1>6. load.spare \in Nat
  BY DEF WriterInv, TypeOK, IsLoad
<1> QED
  BY <1>2, <1>3, <1>4, <1>5, <1>6

LEMMA WritePartKeeps ==
  ASSUME WriterInv, WritePart
  PROVE  WriterInv'
<1>1. /\ stage = "writing" /\ part \in DOMAIN ToWrite /\ part' = part + 1
      /\ wire' = wire \o Frames(ToWrite[part])
      /\ offset' = offset + Octets(ToWrite[part].items)
      /\ UNCHANGED <<load, asserts, parts, result, padding, stage, built, room>>
  BY DEF WritePart
<1>2. /\ Known' /\ NoneOverfull' /\ SinceBuilt'
      /\ ToWrite' = ToWrite /\ FirstReturned' = FirstReturned
  BY <1>1, SameWriters DEF sender, Made
<1>3. /\ part \in 1 .. Len(ToWrite) /\ part \in Nat /\ part - 1 \in Nat
      /\ ToWrite[part] \in ElementWriter
      /\ offset' = SumUpTo(PartSizes(ToWrite), part) /\ offset' \in Nat
      /\ offset' <= room
  <2>1. \A a, b, c \in Nat : a <= b => a <= b + c
    OBVIOUS
  <2> QED
    BY <1>1, <2>1, NextEnds
<1>4. part' \in 1 .. Len(ToWrite) + 1 /\ part' - 1 = part
  BY <1>1, <1>3
<1> PICK p \in ElementWriter : p = ToWrite[part]
  BY <1>3
<1>5. offset \in Nat
  BY DEF WriterInv, TypeOK
<1>6. /\ Frames(p) \in Seq(WireFrame) /\ Len(Frames(p)) = Len(p.items)
      /\ Len(p.items) \in Nat /\ DOMAIN p.items = 1 .. Len(p.items)
      /\ \A k \in 1 .. Len(p.items) :
           /\ Frames(p)[k].type = p.type /\ Frames(p)[k].ok = p.items[k].ok
           /\ Frames(p)[k].len = p.items[k].len
           /\ Frames(p)[k].late = p.items[k].late /\ Frames(p)[k].part = part
  BY <1>3, <1>5, FramesFacts
<1>7. PICK s, u, q :
        /\ s \in Seq(WireFrame) /\ u \in Seq(WireFrame)
        /\ s = wire /\ u = Frames(p) /\ q = wire'
        /\ IsConcat(q, s, u)
  <2>1. wire \in Seq(WireFrame) /\ wire' = wire \o Frames(p)
    BY <1>1 DEF WriterInv, RadiosWritten
  <2> QED
    BY <1>6, <2>1 DEF IsConcat
<1>8. /\ Len(u) = Len(p.items) /\ Len(p.items) \in Nat
       /\ AllOf(u, p.type)
  BY <1>6, <1>7 DEF AllOf
<1>9. s \in Seq(WireFrame) /\ u \in Seq(WireFrame) /\ IsConcat(q, s, u)
  BY <1>7
<1>10. TypeOK'
  BY <1>1, <1>2, <1>3, <1>4 DEF WriterInv, TypeOK
<1>11. Progress'
  <2>1. room' = TotalSize(ToWrite') + load'.spare
    BY <1>1, <1>2 DEF WriterInv, Progress
  <2>2. offset' = SumUpTo(PartSizes(ToWrite'), part' - 1)
    BY <1>2, <1>3, <1>4
  <2> QED
    BY <1>1, <2>1, <2>2 DEF Progress
<1>12. RadiosWritten'
  <2> DEFINE R == "WTPRadioInformation"
             S(n) == SumUpTo(Counts(ToWrite, R), n)
  <2>1. Cardinality({k \in DOMAIN wire' : wire'[k].type = R}) =
          Cardinality({k \in DOMAIN wire : wire[k].type = R})
            + IF p.type = R THEN Len(p.items) ELSE 0
    <3> PICK t : t = R
      OBVIOUS
    <3>1. Cardinality(OfType(q, t)) =
            Cardinality(OfType(s, t)) + IF p.type = t THEN Len(u) ELSE 0
      BY <1>8, <1>9, MoreOfType
    <3>2. s = wire /\ q = wire'
      BY <1>7
    <3> QED
      BY <1>8, <3>1, <3>2 DEF OfType
  <2>2. Cardinality({k \in DOMAIN wire : wire[k].type = R}) = S(part - 1)
    BY DEF WriterInv, RadiosWritten
  <2>3. Counts(ToWrite, R)[part] = IF p.type = R THEN Len(p.items) ELSE 0
    BY <1>1 DEF Counts
  <2>4. (part - 1) + 1 = part
    BY <1>3
  <2>5. S(part) = S(part - 1) + Counts(ToWrite, R)[part]
    BY <1>3, <2>4, SumUpToSteps
  <2>6. wire' \in Seq(WireFrame)
    BY <1>7, <1>9, Concatenated
  <2>7. Cardinality({k \in DOMAIN wire' : wire'[k].type = R}) = S(part)
    BY <2>1, <2>2, <2>3, <2>5
  <2> QED
    BY <1>2, <1>4, <2>6, <2>7 DEF RadiosWritten
<1>13. ReturnedAreValid'
  <2>1. ASSUME NEW k \in 1 .. Len(p.items), p.type = "ReturnedMessageElement",
               ~IsValid(p.type, p.items[k]), ~p.items[k].late
        PROVE  part \notin FirstReturned
    <3> SUFFICES ASSUME part \in FirstReturned PROVE FALSE
      OBVIOUS
    <3>1. part \in DOMAIN parts
      BY DEF FirstReturned
    <3>2. p = parts[part]
      BY <3>1, ToWriteFacts DEF WriterInv
    <3>3. \A h \in DOMAIN parts[part].items :
            IsValid(parts[part].type, parts[part].items[h]) \/ parts[part].items[h].late
      BY <1>1 DEF WriterInv, ReturnedAreValid, Made
    <3> QED
      BY <1>6, <2>1, <3>2, <3>3
  <2>2. ASSUME NEW k \in DOMAIN wire', wire'[k].type = "ReturnedMessageElement",
               ~IsValid(wire'[k].type, wire'[k])
        PROVE  wire'[k].late \/ wire'[k].part \notin FirstReturned
    <3>1. /\ Len(wire) \in Nat /\ DOMAIN wire = 1 .. Len(wire)
          /\ DOMAIN wire' = 1 .. Len(wire) + Len(p.items)
          /\ wire'[k] = IF k <= Len(wire) THEN wire[k] ELSE Frames(p)[k - Len(wire)]
      <4>1. /\ Len(s) \in Nat /\ DOMAIN s = 1 .. Len(s)
            /\ DOMAIN q = 1 .. Len(s) + Len(u)
            /\ \A j \in 1 .. Len(s) + Len(u) :
                 q[j] = IF j <= Len(s) THEN s[j] ELSE u[j - Len(s)]
        BY <1>9, Concatenated
      <4>2. s = wire /\ u = Frames(p) /\ q = wire'
        BY <1>7
      <4> QED
        BY <1>8, <4>1, <4>2
    <3>2. CASE k <= Len(wire)
      <4>1. k \in DOMAIN wire /\ wire'[k] = wire[k]
        BY <3>1, <3>2
      <4> QED
        BY <2>2, <4>1 DEF WriterInv, ReturnedAreValid
    <3>3. CASE ~(k <= Len(wire))
      <4>1. PICK h \in 1 .. Len(p.items) : wire'[k] = Frames(p)[h]
        <5>1. k - Len(wire) \in 1 .. Len(p.items)
          BY <1>6, <3>1, <3>3
        <5> QED
          BY <3>1, <3>3, <5>1
      <4>2. /\ wire'[k].type = p.type /\ wire'[k].late = p.items[h].late
            /\ wire'[k].part = part
            /\ IsValid(wire'[k].type, wire'[k]) <=> IsValid(p.type, p.items[h])
        BY <1>6, <4>1 DEF IsValid
      <4> QED
        BY <2>1, <2>2, <4>2
    <3> QED
      BY <3>2, <3>3
  <2> QED
    BY <1>1, <1>2, <2>2 DEF WriterInv, ReturnedAreValid, Made
<1> QED
  BY <1>2, <1>10, <1>11, <1>12, <1>13 DEF WriterInv

LEMMA WriterStep ==
  ASSUME WriterInv, [Next]_writerVars
  PROVE  WriterInv'
<1>1. CASE Construct
  BY <1>1, ConstructKeeps
<1>2. CASE ConstructAborts
  BY <1>2, FailingKeeps DEF ConstructAborts
<1>3. CASE SetResult
  BY <1>3, SetResultKeeps
<1>4. CASE BeginSerialize
  BY <1>4, BeginSerializeKeeps
<1>5. ASSUME NEW i \in DOMAIN parts, Clear(i) PROVE WriterInv'
  BY <1>5, ClearKeeps
<1>6. ASSUME NEW i \in DOMAIN parts, NEW x \in NewItems(parts[i].type), Add(i, x)
      PROVE  WriterInv'
  BY <1>6, AddKeeps
<1>7. CASE WritePart
  BY <1>7, WritePartKeeps
<1>8. CASE WriteAborts
  BY <1>8, FailingKeeps DEF WriteAborts
<1>9. CASE EndSerialize
  BY <1>9, EndSerializeKeeps
<1>10. CASE UNCHANGED writerVars
  BY <1>10, FailingKeeps DEF writerVars
<1> QED
  BY <1>1, <1>2, <1>3, <1>4, <1>5, <1>6, <1>7, <1>8, <1>9, <1>10
     DEF Next, Application, Serialize

\* The invariant the theorems rest on.
THEOREM WriterHolds == Spec => []WriterInv
<1>1. Init => WriterInv
  BY InitWriter
<1>2. WriterInv /\ [Next]_writerVars => WriterInv'
  BY WriterStep
<1> QED
  BY <1>1, <1>2, PTL DEF Spec

\* Every variable keeps its type: the cursor stays in the buffer and the part
\* that is written next is one of those there are to write.
THEOREM TypesHold == Spec => []TypeOK
<1>1. WriterInv => TypeOK
  BY DEF WriterInv
<1> QED
  BY <1>1, WriterHolds, PTL

\* What a Change State Event Request says of its returned elements, however
\* many arrays it has and whatever has been added to them since.
THEOREM ReturnedHolds == Spec => []ReturnedElementsAreSound
<1>1. WriterInv => ReturnedElementsAreSound
  BY DEF WriterInv, ReturnedAreValid, ReturnedElementsAreSound
<1> QED
  BY <1>1, WriterHolds, PTL
-----------------------------------------------------------------------------
(***************************************************************************)
(* What has been written in the end.                                       *)
(***************************************************************************)

\* At the end of the message all of it has been written.
LEMMA AllIsWritten ==
  ASSUME WriterInv, stage = "written"
  PROVE  /\ part - 1 = Len(ToWrite) /\ Len(ToWrite) \in Nat
         /\ offset = TotalSize(ToWrite)
<1>1. Len(ToWrite) \in Nat
  BY ToWriteFacts, PartSizesFacts DEF WriterInv
<1>2. part = Len(ToWrite) + 1 /\ offset = SumUpTo(PartSizes(ToWrite), part - 1)
  BY DEF WriterInv, Progress
<1>3. part - 1 = Len(ToWrite)
  BY <1>1, <1>2
<1> QED
  BY <1>1, <1>2, <1>3 DEF TotalSize

LEMMA CountsFacts ==
  ASSUME NEW ps \in Seq(ElementWriter), NEW t
  PROVE  \A i \in 1 .. Len(ps) :
           /\ Counts(ps, t)[i] = IF ps[i].type = t THEN Len(ps[i].items) ELSE 0
           /\ Counts(ps, t)[i] \in Nat
<1> SUFFICES ASSUME NEW i \in 1 .. Len(ps)
             PROVE  /\ Counts(ps, t)[i] = IF ps[i].type = t THEN Len(ps[i].items) ELSE 0
                    /\ Counts(ps, t)[i] \in Nat
  OBVIOUS
<1>1. i \in DOMAIN ps /\ ps[i].items \in Seq(Item)
  BY PartSizesFacts
<1>2. Len(ps[i].items) \in Nat
  BY <1>1
<1>3. Counts(ps, t)[i] = IF ps[i].type = t THEN Len(ps[i].items) ELSE 0
  BY <1>1 DEF Counts
<1> QED
  BY <1>2, <1>3

\* From the informations the constructor counted to those that are written:
\* what has not been cleared has not become less, and all of it is written.
LEMMA RadiosReachTheWire == WriterInv => JoinHasItsRadios
<1> SUFFICES ASSUME WriterInv, stage = "written", sender.name = "JoinRequest", asserts,
                    NEW R, R = "WTPRadioInformation",
                    \A i \in built.cleared : parts[i].type # R
             PROVE  load.radios <= Cardinality({k \in DOMAIN wire : wire[k].type = R})
  BY DEF JoinHasItsRadios
<1>1. /\ parts \in Seq(ElementWriter) /\ built.parts \in Seq(ElementWriter)
      /\ ToWrite \in Seq(ElementWriter) /\ load.radios \in Nat
  BY ToWriteFacts DEF WriterInv, TypeOK, IsLoad
<1>2. /\ load.radios <= Count(built.parts, R)
      /\ Len(built.parts) = Len(parts)
      /\ \A i \in DOMAIN parts :
           /\ built.parts[i].type = parts[i].type
           /\ i \notin built.cleared => Len(built.parts[i].items) <= Len(parts[i].items)
  BY DEF WriterInv, SinceBuilt, Made
<1> PICK ps \in Seq(ElementWriter), bs \in Seq(ElementWriter), all \in Seq(ElementWriter) :
      ps = parts /\ bs = built.parts /\ all = ToWrite
  BY <1>1
<1> PICK n \in Nat : n = Len(ps)
  OBVIOUS
<1>3. /\ \A i \in 1 .. Len(bs) : /\ Counts(bs, R)[i] \in Nat
                                /\ Counts(bs, R)[i] = IF bs[i].type = R THEN Len(bs[i].items) ELSE 0
      /\ \A i \in 1 .. Len(ps) : /\ Counts(ps, R)[i] \in Nat
                                /\ Counts(ps, R)[i] = IF ps[i].type = R THEN Len(ps[i].items) ELSE 0
      /\ \A i \in 1 .. Len(all) : /\ Counts(all, R)[i] \in Nat
                                 /\ Counts(all, R)[i] = IF all[i].type = R THEN Len(all[i].items) ELSE 0
  BY CountsFacts
<1>4. Len(bs) = n /\ DOMAIN ps = 1 .. n
  BY <1>2
<1>5. Count(bs, R) <= Count(ps, R)
  <2>1. ASSUME NEW i \in 1 .. n PROVE Counts(bs, R)[i] <= Counts(ps, R)[i]
    <3>1. CASE ps[i].type = R
      <4>1. i \notin built.cleared
        BY <3>1
      <4>2. bs[i].type = R /\ Len(bs[i].items) <= Len(ps[i].items)
        BY <1>2, <1>4, <3>1, <4>1
      <4> QED
        BY <1>3, <1>4, <3>1, <4>2
    <3>2. CASE ps[i].type # R
      <4>1. bs[i].type # R
        BY <1>2, <1>4, <3>2
      <4> QED
        BY <1>3, <1>4, <3>2, <4>1
    <3> QED
      BY <3>1, <3>2
  <2>2. SumUpTo(Counts(bs, R), n) <= SumUpTo(Counts(ps, R), n)
    BY <1>3, <1>4, <2>1, SumAtMost
  <2> QED
    BY <1>4, <2>2 DEF Count
<1>6. /\ n \in 0 .. Len(all) /\ Len(all) \in Nat
      /\ \A i \in 1 .. n : all[i] = ps[i] /\ i \in 1 .. Len(all)
  <2>1. Len(ToWrite) = Len(parts) + (IF padding = 0 THEN 0 ELSE 1)
        /\ \A i \in 1 .. Len(parts) : ToWrite[i] = parts[i]
    BY ToWriteFacts DEF WriterInv
  <2>2. Len(all) = n \/ Len(all) = n + 1
    BY <2>1
  <2>3. \A i \in 1 .. n : all[i] = ps[i]
    BY <2>1
  <2> QED
    BY <2>2, <2>3
<1>7. SumUpTo(Counts(ps, R), n) = SumUpTo(Counts(all, R), n)
  <2>1. \A i \in 1 .. n : Counts(ps, R)[i] = Counts(all, R)[i]
    BY <1>3, <1>6
  <2> QED
    BY <2>1, SumOfSame
<1>8. /\ SumUpTo(Counts(all, R), n) <= SumUpTo(Counts(all, R), Len(all))
      /\ SumUpTo(Counts(all, R), n) \in Nat /\ SumUpTo(Counts(all, R), Len(all)) \in Nat
  BY <1>3, <1>6, SumIsNat
<1>9. Count(bs, R) \in Nat
  BY <1>3, <1>4, SumIsNat DEF Count
<1>10. Cardinality({k \in DOMAIN wire : wire[k].type = R}) = SumUpTo(Counts(all, R), Len(all))
  BY AllIsWritten DEF WriterInv, RadiosWritten
<1>11. Count(ps, R) = SumUpTo(Counts(all, R), n) /\ load.radios <= Count(bs, R)
  BY <1>2, <1>7 DEF Count
<1>12. \A a, b, c, d \in Nat : a <= b /\ b <= c /\ c <= d => a <= d
  OBVIOUS
<1> QED
  BY <1>1, <1>5, <1>8, <1>9, <1>10, <1>11, <1>12

\* A Join Request reaches the wire with at least as many radio informations
\* as its WTP Descriptor says are in use, unless the application has cleared
\* some, for any number of arrays and of elements in them.
THEOREM JoinHolds == Spec => []JoinHasItsRadios
<1> QED
  BY RadiosReachTheWire, WriterHolds, PTL

\* What CalcMTUPadding works out if nothing is cut down to 16 bits.
LEMMA PaddingIsTheRest ==
  ASSUME NEW b \in Nat, NEW probe \in 0 .. UInt16 - 1, b + ProbeHeaders < UInt16,
         \/ b + ProbeHeaders < probe
         \/ ((b % UInt16) + ProbeHeaders) % UInt16 < probe
  PROVE  (probe - (b % UInt16) - ProbeHeaders) % UInt16 = probe - b - ProbeHeaders
         /\ probe - b - ProbeHeaders > 0
<1>1. /\ ProbeHeaders \in Nat /\ UInt16 \in Nat
      /\ probe \in Nat /\ probe < UInt16
  <2>1. ProbeHeaders \in Nat
    BY DEF ProbeHeaders, TransportSize, HeaderSize
  <2> QED
    BY <2>1, ShortIsNat, SixteenBits
<1> PICK h \in Nat, u \in Nat : h = ProbeHeaders /\ u = UInt16
  BY <1>1
<1>2. b + h < u /\ probe \in Nat /\ probe < u
  BY <1>1
<1>3. b % UInt16 = b
  <2>1. b \in 0 .. UInt16 - 1
    BY <1>2
  <2> QED
    BY <2>1, CutTo16Bits
<1>4. (b + ProbeHeaders) % UInt16 = b + ProbeHeaders
  <2>1. b + h \in 0 .. u - 1 /\ b + h \in Int
    BY <1>2
  <2> QED
    BY <2>1, CutTo16Bits
<1>5. b + h < probe
  BY <1>3, <1>4
<1>6. probe - b - h \in 0 .. u - 1 /\ probe - b - h \in Int /\ probe - b - h > 0
  BY <1>2, <1>5
<1>7. (probe - b - ProbeHeaders) % UInt16 = probe - b - ProbeHeaders
  BY <1>6, CutTo16Bits
<1> QED
  BY <1>3, <1>6, <1>7

LEMMA PaddingReachesTheMTU == WriterInv => ProbeFillsTheMTU
<1> SUFFICES ASSUME WriterInv, stage = "written", Probing,
                    TotalSize(built.parts) + ProbeHeaders < UInt16,
                    asserts \/ TotalSize(built.parts) + ProbeHeaders < load.probe
             PROVE  offset + TransportSize - load.probe = TotalSize(parts) - TotalSize(built.parts)
  BY DEF ProbeFillsTheMTU
<1>1. /\ TotalSize(built.parts) \in Nat /\ TotalSize(parts) \in Nat
      /\ load.probe \in 0 .. UInt16 - 1 /\ load.probe \in Nat
  BY PartSizesFacts, ShortIsNat DEF WriterInv, TypeOK, IsLoad
<1>2. /\ padding = (load.probe - (TotalSize(built.parts) % UInt16) - ProbeHeaders) % UInt16
      /\ asserts => ((TotalSize(built.parts) % UInt16) + ProbeHeaders) % UInt16 < load.probe
  BY DEF WriterInv, SinceBuilt, Made
<1>3. padding = load.probe - TotalSize(built.parts) - ProbeHeaders /\ padding > 0
  BY <1>1, <1>2, PaddingIsTheRest
<1>4. offset = TotalSize(parts) + (HeaderSize + padding)
  BY <1>3, AllIsWritten, ToWriteFacts DEF WriterInv
<1> QED
  BY <1>1, <1>3, <1>4 DEF ProbeHeaders, TransportSize, HeaderSize

\* A Discovery Request that probes an MTU is as long as the MTU, but for what
\* has been added and cleared since, for any MTU and any elements.
THEOREM ProbeHolds == Spec => []ProbeFillsTheMTU
<1> QED
  BY PaddingReachesTheMTU, WriterHolds, PTL
-----------------------------------------------------------------------------
(***************************************************************************)
(* Why Serialize fails.                                                    *)
(***************************************************************************)

\* What RoomSuffices says of the writer Serialize has failed at.
Excused ==
  LET p == ToWrite[part]
  IN  \/ \E k \in DOMAIN p.items : p.items[k].subs > Element[p.type].cap
      \/ /\ p.type \in Demanding
         /\ load.spare < 12
         /\ p.type = "ACDescriptor" =>
              \E i \in 1 .. Len(sender.order) : parts[i].items = <<>>

LEMMA NonemptyOctets ==
  ASSUME NEW its \in Seq(Item), its # <<>>
  PROVE  Octets(its) >= HeaderSize /\ Octets(its) \in Nat
<1>1. /\ Len(its) \in Nat /\ \A k \in 1 .. Len(its) : its[k] \in Item
      /\ \A k \in 1 .. Len(its) :
           Sizes(its)[k] = HeaderSize + its[k].len /\ Sizes(its)[k] \in Nat
      /\ Octets(its) \in Nat
  BY SizesFacts
<1>2. 1 \in 1 .. Len(its) /\ 1 \in 0 .. Len(its)
  OBVIOUS
<1>3. its[1].len \in Nat /\ Sizes(its)[1] = HeaderSize + its[1].len
  BY <1>1, <1>2 DEF Item
<1>4. SumUpTo(Sizes(its), 0 + 1) = SumUpTo(Sizes(its), 0) + Sizes(its)[0 + 1]
      /\ SumUpTo(Sizes(its), 0) = 0
  BY SumUpToSteps
<1>5. SumUpTo(Sizes(its), 1) <= SumUpTo(Sizes(its), Len(its))
  BY <1>1, <1>2, SumIsNat
<1> QED
  BY <1>1, <1>3, <1>4, <1>5 DEF Octets, HeaderSize

\* Each element ends where the octets of its writer do, at the latest.
LEMMA FramesEnd ==
  ASSUME NEW p \in ElementWriter, offset \in Nat, part \in Nat, NEW k \in DOMAIN p.items
  PROVE  /\ Frames(p)[k].type = p.type
         /\ Frames(p)[k].at \in Nat /\ Frames(p)[k].len \in Nat
         /\ Frames(p)[k].at + HeaderSize + Frames(p)[k].len <= offset + Octets(p.items)
<1>1. p.items \in Seq(Item)
  BY DEF ElementWriter
<1>2. /\ k \in 1 .. Len(p.items) /\ k \in 0 .. Len(p.items) /\ k - 1 \in 0 .. Len(p.items)
      /\ k - 1 \in Nat /\ (k - 1) + 1 = k /\ Len(p.items) \in Nat
  BY <1>1
<1>3. /\ p.items[k] \in Item
      /\ \A j \in 1 .. Len(p.items) : Sizes(p.items)[j] \in Nat
      /\ Sizes(p.items)[k] = HeaderSize + p.items[k].len
      /\ Octets(p.items) \in Nat
  BY <1>1, <1>2, SizesFacts
<1>4. /\ Frames(p)[k].type = p.type /\ Frames(p)[k].len = p.items[k].len
      /\ Frames(p)[k].at = offset + SumUpTo(Sizes(p.items), k - 1)
  BY <1>2, FramesFacts
<1>5. p.items[k].len \in Nat
  BY <1>3 DEF Item
<1>6. SumUpTo(Sizes(p.items), k) = SumUpTo(Sizes(p.items), k - 1) + Sizes(p.items)[k]
  BY <1>2, SumUpToSteps
<1>7. /\ SumUpTo(Sizes(p.items), k - 1) \in Nat /\ SumUpTo(Sizes(p.items), k) \in Nat
      /\ SumUpTo(Sizes(p.items), k) <= Octets(p.items)
  BY <1>2, <1>3, SumIsNat DEF Octets
<1> QED
  BY <1>3, <1>4, <1>5, <1>6, <1>7 DEF HeaderSize

\* Behind three writers that have elements there are twelve octets more.
LEMMA ThreeMoreWriters ==
  ASSUME NEW all \in Seq(ElementWriter), NEW m \in Nat, m + 3 <= Len(all),
         \A i \in m + 1 .. m + 3 : all[i].items # <<>>
  PROVE  SumUpTo(PartSizes(all), m) + 12 <= TotalSize(all)
<1> DEFINE S(i) == SumUpTo(PartSizes(all), i)
           O(i) == PartSizes(all)[i]
<1>1. Len(all) \in Nat /\ m + 1 \in 1 .. Len(all) /\ m + 2 \in 1 .. Len(all)
      /\ m + 3 \in 1 .. Len(all) /\ m + 3 \in 0 .. Len(all) /\ m \in 0 .. Len(all)
  OBVIOUS
<1>2. ASSUME NEW i \in m + 1 .. m + 3 PROVE O(i) \in Nat /\ O(i) >= HeaderSize
  <2>1. i \in 1 .. Len(all)
    BY <1>1
  <2>2. all[i].items \in Seq(Item) /\ O(i) = Octets(all[i].items)
    BY <2>1, PartSizesFacts
  <2> QED
    BY <2>2, NonemptyOctets
<1>3. S(m + 1) = S(m) + O(m + 1)
  BY SumUpToSteps
<1>4. S(m + 2) = S(m + 1) + O(m + 2)
  <2>1. m + 1 \in Nat /\ (m + 1) + 1 = m + 2
    OBVIOUS
  <2> QED
    BY <2>1, SumUpToSteps
<1>5. S(m + 3) = S(m + 2) + O(m + 3)
  <2>1. m + 2 \in Nat /\ (m + 2) + 1 = m + 3
    OBVIOUS
  <2> QED
    BY <2>1, SumUpToSteps
<1>6. S(m) \in Nat /\ S(m + 3) \in Nat /\ S(m + 3) <= TotalSize(all)
  BY <1>1, PartSizesFacts
<1>7. TotalSize(all) \in Nat
  BY PartSizesFacts
<1>8. /\ m + 1 \in m + 1 .. m + 3 /\ m + 2 \in m + 1 .. m + 3 /\ m + 3 \in m + 1 .. m + 3
  OBVIOUS
<1>9. /\ O(m + 1) \in Nat /\ O(m + 1) >= 4 /\ O(m + 2) \in Nat /\ O(m + 2) >= 4
      /\ O(m + 3) \in Nat /\ O(m + 3) >= 4
  BY <1>2, <1>8 DEF HeaderSize
<1> HIDE DEF S, O
<1>10. S(m) + 12 <= TotalSize(all)
  BY <1>3, <1>4, <1>5, <1>6, <1>7, <1>9
<1> QED
  BY <1>10 DEF S

\* What is known of the writer Serialize is at: it is one of the application's
\* or the padding, which is a single element that asks for no more than it is.
LEMMA WriterAtHand ==
  ASSUME WriterInv, stage = "writing", part \in DOMAIN ToWrite, NEW p, p = ToWrite[part]
  PROVE  \/ /\ part \in DOMAIN parts /\ p = parts[part]
            /\ Element[p.type].cap \in Nat
            /\ Excess(p.type) \in 0 .. 12
            /\ Excess(p.type) > 0 => p.type \in Demanding
            /\ p.type = "ACDescriptor" => part + 3 <= Len(sender.order)
         \/ /\ p.type = "MTUDiscoveryPadding"
            /\ Element[p.type].kind = "single"
            /\ Excess(p.type) = 0
<1>1. /\ Len(parts) \in Nat /\ DOMAIN parts = 1 .. Len(parts)
      /\ part \in 1 .. Len(ToWrite)
      /\ \A i \in 1 .. Len(parts) : ToWrite[i] = parts[i]
      /\ padding # 0 => ToWrite[Len(parts) + 1].type = "MTUDiscoveryPadding"
  BY ToWriteFacts DEF WriterInv
<1>2. Len(ToWrite) = Len(parts) + IF padding = 0 THEN 0 ELSE 1
  BY ToWriteFacts DEF WriterInv
<1>3. CASE part \in DOMAIN parts
  BY <1>1, <1>3 DEF WriterInv, Known
<1>4. CASE part \notin DOMAIN parts
  <2>1. padding # 0 /\ part = Len(parts) + 1
    BY <1>1, <1>2, <1>4
  <2>2. p.type = "MTUDiscoveryPadding"
    BY <1>1, <2>1
  <2> QED
    BY <2>2, ElementAssumption, ExcessAssumption
<1> QED
  BY <1>3, <1>4

LEMMA FailsForAReason ==
  ASSUME WriterInv, WriteAborts
  PROVE  Excused
<1>1. /\ stage = "writing" /\ part \in DOMAIN ToWrite /\ asserts
      /\ ~ElementAsserts(ToWrite[part])
  BY DEF WriteAborts
<1>2. /\ part \in Nat /\ ToWrite[part] \in ElementWriter
      /\ offset + Octets(ToWrite[part].items) = SumUpTo(PartSizes(ToWrite), part)
      /\ offset + Octets(ToWrite[part].items) \in Nat
      /\ offset + Octets(ToWrite[part].items) <= TotalSize(ToWrite)
      /\ TotalSize(ToWrite) \in Nat
      /\ room = TotalSize(ToWrite) + load.spare /\ load.spare \in Nat
  BY <1>1, NextEnds
<1> PICK p \in ElementWriter : p = ToWrite[part]
  BY <1>2
<1>3. \/ /\ part \in DOMAIN parts /\ p = parts[part]
         /\ Element[p.type].cap \in Nat
         /\ Excess(p.type) \in 0 .. 12
         /\ Excess(p.type) > 0 => p.type \in Demanding
         /\ p.type = "ACDescriptor" => part + 3 <= Len(sender.order)
      \/ /\ p.type = "MTUDiscoveryPadding"
         /\ Element[p.type].kind = "single"
         /\ Excess(p.type) = 0
  BY <1>1, WriterAtHand
<1>4. ~Overfull(p)
  <2>1. part \in DOMAIN parts /\ p = parts[part] => ~Overfull(p)
    BY <1>1 DEF WriterInv, NoneOverfull
  <2>2. Element[p.type].kind = "single" => ~Overfull(p)
    BY DEF Overfull, IsArray
  <2> QED
    BY <1>3, <2>1, <2>2
<1>5. ASSUME NEW k \in DOMAIN p.items, Element[p.type].kind = "nested",
             ~(p.items[k].subs <= Element[p.type].cap)
      PROVE  Excused
  <2>1. Element[p.type].cap \in Nat
    BY <1>3, <1>5
  <2>2. p.items[k].subs \in Nat
    BY SizesFacts DEF ElementWriter, Item
  <2>3. p.items[k].subs > Element[p.type].cap
    BY <1>5, <2>1, <2>2
  <2> QED
    BY <2>3 DEF Excused
<1>6. ASSUME NEW k \in DOMAIN p.items, ~(AsksFor(Frames(p)[k]) <= room)
      PROVE  Excused
  <2>1. offset \in Nat
    BY DEF WriterInv, TypeOK
  <2>2. /\ Frames(p)[k].type = p.type
        /\ Frames(p)[k].at \in Nat /\ Frames(p)[k].len \in Nat
        /\ Frames(p)[k].at + HeaderSize + Frames(p)[k].len <= offset + Octets(p.items)
    BY <1>2, <2>1, FramesEnd
  <2> PICK e \in Nat : e = Frames(p)[k].at + HeaderSize + Frames(p)[k].len
    BY <2>2 DEF HeaderSize
  <2>3. e <= offset + Octets(p.items) /\ e <= TotalSize(ToWrite)
    BY <1>2, <2>2
  <2>4. AsksFor(Frames(p)[k]) = e + Excess(p.type)
    BY <2>2 DEF AsksFor
  <2>5. Excess(p.type) \in 0 .. 12
    BY <1>3
  <2>6. Excess(p.type) > load.spare
    BY <1>2, <1>6, <2>3, <2>4, <2>5
  <2>7. load.spare < 12 /\ Excess(p.type) > 0
    BY <1>2, <2>5, <2>6
  <2>8. /\ p.type \in Demanding
        /\ p.type = "ACDescriptor" => part + 3 <= Len(sender.order)
    BY <1>3, <2>7
  <2>9. ASSUME p.type = "ACDescriptor"
        PROVE  \E i \in 1 .. Len(sender.order) : parts[i].items = <<>>
    <3> SUFFICES ASSUME \A i \in 1 .. Len(sender.order) : parts[i].items # <<>>
                 PROVE  FALSE
      OBVIOUS
    <3>1. /\ part + 3 <= Len(sender.order) /\ Len(sender.order) \in Nat
          /\ Len(sender.order) <= Len(parts)
      <4>1. part + 3 <= Len(sender.order)
        BY <2>8, <2>9
      <4>2. /\ sender.order \in Seq(DOMAIN Element)
            /\ Len(load.parts) >= Len(sender.order)
            /\ Len(parts) = Len(load.parts)
        BY DEF WriterInv, TypeOK, Known, IsLoad, MessageSender, sender
      <4>3. Len(sender.order) \in Nat /\ Len(parts) \in Nat
        BY <4>2, ToWriteFacts DEF WriterInv
      <4> QED
        BY <4>1, <4>2, <4>3
    <3>2. /\ ToWrite \in Seq(ElementWriter) /\ Len(parts) \in Nat
          /\ \A i \in 1 .. Len(parts) : ToWrite[i] = parts[i]
          /\ Len(ToWrite) = Len(parts) \/ Len(ToWrite) = Len(parts) + 1
      <4>1. /\ ToWrite \in Seq(ElementWriter) /\ Len(parts) \in Nat
            /\ \A i \in 1 .. Len(parts) : ToWrite[i] = parts[i]
        BY ToWriteFacts DEF WriterInv
      <4>2. Len(ToWrite) = Len(parts) + IF padding = 0 THEN 0 ELSE 1
        BY ToWriteFacts DEF WriterInv
      <4>3. Len(ToWrite) = Len(parts) \/ Len(ToWrite) = Len(parts) + 1
        BY <4>1, <4>2
      <4> QED
        BY <4>1, <4>3
    <3>3. part + 3 <= Len(ToWrite)
      BY <1>2, <3>1, <3>2
    <3>4. ASSUME NEW i \in part + 1 .. part + 3 PROVE ToWrite[i].items # <<>>
      <4>1. i \in 1 .. Len(sender.order) /\ i \in 1 .. Len(parts)
        BY <1>2, <3>1, <3>2
      <4> QED
        BY <3>2, <4>1
    <3>5. SumUpTo(PartSizes(ToWrite), part) + 12 <= TotalSize(ToWrite)
      BY <1>2, <3>2, <3>3, <3>4, ThreeMoreWriters
    <3>6. e + 12 <= TotalSize(ToWrite)
      BY <1>2, <2>3, <3>5
    <3>7. e + Excess(p.type) <= room
      <4>1. \A t, r \in Nat : \A x \in 0 .. 12 : e + 12 <= t => e + x <= t + r
        OBVIOUS
      <4>2. room = TotalSize(ToWrite) + load.spare /\ load.spare \in Nat
            /\ TotalSize(ToWrite) \in Nat
        BY <1>2
      <4> QED
        BY <2>5, <3>6, <4>1, <4>2
    <3> QED
      BY <1>6, <2>4, <3>7
  <2> QED
    BY <2>7, <2>8, <2>9 DEF Excused
<1> QED
  BY <1>1, <1>4, <1>5, <1>6 DEF ElementAsserts

\* Nothing happens any more after a failure, and no other step is one.
LEMMA FailuresAreExcused ==
  ASSUME WriterInv, RoomSuffices, [Next]_writerVars
  PROVE  RoomSuffices'
<1> USE DEF RoomSuffices
<1>1. CASE WriteAborts
  <2>1. Excused
    BY <1>1, FailsForAReason
  <2>2. UNCHANGED <<load, asserts, parts, result, padding, built, part, room, offset, wire>>
    BY <1>1 DEF WriteAborts
  <2>3. ToWrite' = ToWrite
    BY <2>2 DEF ToWrite, PaddingItem
  <2>4. Excused'
    BY <2>1, <2>2, <2>3 DEF Excused, sender
  <2> QED
    BY <2>4 DEF Excused
<1>2. CASE ConstructAborts
  <2>1. built.parts = <<>> /\ built' = built
    BY <1>2 DEF ConstructAborts, WriterInv, Progress
  <2> QED
    BY <2>1
<1>3. CASE UNCHANGED writerVars
  <2>1. UNCHANGED <<load, parts, padding, stage, built, part>>
    BY <1>3 DEF writerVars
  <2>2. ToWrite' = ToWrite
    BY <2>1 DEF ToWrite, PaddingItem
  <2> QED
    BY <2>1, <2>2 DEF sender
<1>4. CASE Construct \/ SetResult \/ BeginSerialize \/ WritePart \/ EndSerialize
  BY <1>4 DEF Construct, SetResult, BeginSerialize, WritePart, EndSerialize, MayChange
<1>5. ASSUME NEW i \in DOMAIN parts, Clear(i) PROVE RoomSuffices'
  BY <1>5 DEF Clear, MayChange
<1>6. ASSUME NEW i \in DOMAIN parts, NEW x \in NewItems(parts[i].type), Add(i, x)
      PROVE  RoomSuffices'
  BY <1>6 DEF Add, MayChange
<1> QED
  BY <1>1, <1>2, <1>3, <1>4, <1>5, <1>6 DEF Next, Application, Serialize

\* Whenever Serialize fails for want of room, in a buffer the message fits
\* into, it is at one of the five elements that ask for more than they are,
\* and the buffer has fewer than twelve octets to spare; at the AC Descriptor
\* only if the message lacks elements its constructor takes.
THEOREM RoomHolds == Spec => []RoomSuffices
<1>1. Init => RoomSuffices
  BY DEF Init, RoomSuffices
<1>2. WriterInv /\ RoomSuffices /\ [Next]_writerVars => RoomSuffices'
  BY FailuresAreExcused
<1> QED
  BY <1>1, <1>2, WriterHolds, PTL DEF Spec
-----------------------------------------------------------------------------
Reader == INSTANCE MessageReaderProofs WITH
  Messages <- UNION {Peers(l) : l \in Loads}, Buffers <- {}, MaxCalls <- 1

(***************************************************************************)
(* The writers and the wire.                                               *)
(***************************************************************************)

\* The writers are those of the constructor and the optional ones, each with
\* as many items as its kind allows.
OwnParts ==
  \A i \in DOMAIN parts :
    /\ HasItsItems(parts[i])
    /\ IF i <= Len(sender.order) THEN parts[i].type = sender.order[i]
                                 ELSE parts[i].type \in sender.optional

WireEnd(f) == f.at + HeaderSize + f.len
OriginOf(f) == <<f.part, f.item>>

\* What is on the wire is an item of one of the parts written so far.
IsCopy(f, p) ==
  /\ f.item \in DOMAIN p.items
  /\ f.type = p.type
  /\ f.len = p.items[f.item].len
  /\ f.ok = p.items[f.item].ok
  /\ f.subs = p.items[f.item].subs
  /\ Len(f.stop) = f.subs + 1

Copies ==
  \A k \in DOMAIN wire : wire[k].part \in 1 .. part - 1 /\ IsCopy(wire[k], ToWrite[wire[k].part])

\* Every item of the parts written so far is on the wire.
Complete ==
  \A i \in 1 .. part - 1 : \A j \in DOMAIN ToWrite[i].items :
    \E k \in DOMAIN wire : OriginOf(wire[k]) = <<i, j>>

\* They are in the order of the parts and of their items.
InOrder ==
  \A j, k \in DOMAIN wire : j < k => Before(OriginOf(wire[j]), OriginOf(wire[k]))

\* They lie back to back, from the first octet on up to the cursor.
BackToBack ==
  /\ wire = <<>> => offset = 0
  /\ wire # <<>> => wire[1].at = 0 /\ offset = WireEnd(wire[Len(wire)])
  /\ \A k \in 1 .. Len(wire) - 1 : wire[k + 1].at = WireEnd(wire[k])

Wired == Copies /\ Complete /\ InOrder /\ BackToBack

LEMMA NothingWired ==
  ASSUME wire = <<>>, part = 1, offset = 0
  PROVE  Wired
BY DEF Wired, Copies, Complete, InOrder, BackToBack

LEMMA SameWire ==
  ASSUME Wired, UNCHANGED <<parts, padding, part, offset, wire>>
  PROVE  Wired'
<1>1. ToWrite' = ToWrite
  BY DEF ToWrite, PaddingItem
<1>2. Copies'
  BY <1>1 DEF Wired, Copies
<1>3. Complete'
  BY <1>1 DEF Wired, Complete
<1>4. InOrder' /\ BackToBack'
  BY DEF Wired, InOrder, BackToBack, HeaderSize
<1> QED
  BY <1>2, <1>3, <1>4 DEF Wired

\* Where a frame put down behind c + a octets ends.
LEMMA EndOfFrame ==
  ASSUME NEW f, NEW c \in Nat, NEW a \in Nat, NEW l \in Nat, f.at = c + a, f.len = l
  PROVE  WireEnd(f) = c + (a + (HeaderSize + l))
BY DEF WireEnd, HeaderSize

\* One more part on the wire.
LEMMA WritePartWired ==
  ASSUME WriterInv, Wired, WritePart
  PROVE  Wired'
<1>1. /\ stage = "writing" /\ part \in DOMAIN ToWrite /\ part' = part + 1
      /\ wire' = wire \o Frames(ToWrite[part])
      /\ offset' = offset + Octets(ToWrite[part].items)
      /\ UNCHANGED <<parts, padding>>
  BY DEF WritePart
<1>2. ToWrite' = ToWrite
  BY <1>1 DEF ToWrite, PaddingItem
<1>3. /\ part \in 1 .. Len(ToWrite) /\ part \in Nat /\ part - 1 \in Nat
      /\ ToWrite[part] \in ElementWriter
  BY <1>1, NextEnds
<1>p. PICK p \in ElementWriter : p = ToWrite[part]
  BY <1>3
<1>4. offset \in Nat
  BY DEF WriterInv, TypeOK
<1>f. /\ Len(p.items) \in Nat /\ DOMAIN p.items = 1 .. Len(p.items)
       /\ Frames(p) \in Seq(WireFrame) /\ Len(Frames(p)) = Len(p.items)
       /\ \A k \in 1 .. Len(p.items) :
            /\ Frames(p)[k].type = p.type /\ Frames(p)[k].len = p.items[k].len
            /\ Frames(p)[k].ok = p.items[k].ok /\ Frames(p)[k].subs = p.items[k].subs
            /\ Frames(p)[k].part = part /\ Frames(p)[k].item = k
            /\ Len(Frames(p)[k].stop) = p.items[k].subs + 1
            /\ Frames(p)[k].at = offset + SumUpTo(Sizes(p.items), k - 1)
  BY <1>3, <1>4, FramesFacts
<1>5. PICK n \in Nat, u \in Seq(WireFrame) :
        /\ n = Len(p.items) /\ DOMAIN p.items = 1 .. n
        /\ u = Frames(p) /\ Len(u) = n
        /\ \A k \in 1 .. n :
             /\ u[k].type = p.type /\ u[k].len = p.items[k].len
             /\ u[k].ok = p.items[k].ok /\ u[k].subs = p.items[k].subs
             /\ u[k].part = part /\ u[k].item = k
             /\ Len(u[k].stop) = p.items[k].subs + 1
             /\ u[k].at = offset + SumUpTo(Sizes(p.items), k - 1)
  BY <1>f, Zenon
<1>6. PICK s \in Seq(WireFrame), q \in Seq(WireFrame) :
        s = wire /\ q = wire' /\ IsConcat(q, s, u)
  <2>1. wire \in Seq(WireFrame) /\ u \in Seq(WireFrame) /\ IsConcat(wire', wire, u)
    BY <1>1, <1>5, <1>p DEF WriterInv, RadiosWritten, IsConcat
  <2>2. wire' \in Seq(WireFrame)
    BY <2>1, Concatenated
  <2> QED
    BY <2>1, <2>2
<1> PICK m \in Nat : m = Len(s)
  OBVIOUS
<1>7. /\ DOMAIN s = 1 .. m /\ DOMAIN u = 1 .. n /\ DOMAIN q = 1 .. m + n /\ Len(q) = m + n
      /\ \A k \in 1 .. m : k \in 1 .. m + n /\ q[k] = s[k]
      /\ \A k \in 1 .. n : m + k \in 1 .. m + n /\ q[m + k] = u[k]
  <2>1. /\ q \in Seq(WireFrame) /\ Len(q) = Len(s) + Len(u)
        /\ DOMAIN s = 1 .. Len(s) /\ DOMAIN u = 1 .. Len(u)
        /\ DOMAIN q = 1 .. Len(s) + Len(u)
        /\ \A k \in 1 .. Len(s) + Len(u) :
             q[k] = IF k <= Len(s) THEN s[k] ELSE u[k - Len(s)]
    <3>1. s \in Seq(WireFrame) /\ u \in Seq(WireFrame) /\ IsConcat(q, s, u)
      BY <1>6
    <3> QED
      BY <3>1, Concatenated
  <2>2. \A k \in 1 .. m : k \in 1 .. m + n /\ k <= m
    OBVIOUS
  <2>3. \A k \in 1 .. n : m + k \in 1 .. m + n /\ ~(m + k <= m) /\ (m + k) - m = k
    OBVIOUS
  <2> QED
    BY <1>5, <2>1, <2>2, <2>3
<1>8. \A k \in 1 .. m + n : k \in 1 .. m \/ (k - m \in 1 .. n /\ m + (k - m) = k)
  OBVIOUS
<1>9. /\ \A k \in 1 .. m : s[k].part \in 1 .. part - 1 /\ IsCopy(s[k], ToWrite[s[k].part])
      /\ \A i \in 1 .. part - 1 : \A j \in DOMAIN ToWrite[i].items :
           \E k \in 1 .. m : OriginOf(s[k]) = <<i, j>>
      /\ \A j, k \in 1 .. m : j < k => Before(OriginOf(s[j]), OriginOf(s[k]))
  BY <1>6, <1>7 DEF Wired, Copies, Complete, InOrder
<1>10. \A k \in 1 .. n : OriginOf(u[k]) = <<part, k>>
  BY <1>5 DEF OriginOf
<1>11. \A k \in 1 .. n : u[k].part \in 1 .. part /\ IsCopy(u[k], ToWrite[u[k].part])
  <2>1. \A k \in 1 .. n : IsCopy(u[k], p)
    BY <1>5 DEF IsCopy
  <2> QED
    BY <1>3, <1>5, <1>p, <2>1
<1>12. part' - 1 = part /\ \A i \in 1 .. part - 1 : i \in 1 .. part
  BY <1>1, <1>3
<1>13. Copies'
  <2> SUFFICES ASSUME NEW k \in 1 .. m + n
               PROVE  q[k].part \in 1 .. part /\ IsCopy(q[k], ToWrite[q[k].part])
    BY <1>2, <1>6, <1>7, <1>12 DEF Copies
  <2>1. CASE k \in 1 .. m
    BY <1>7, <1>9, <1>12, <2>1
  <2>2. CASE k - m \in 1 .. n /\ m + (k - m) = k
    <3>1. q[k] = u[k - m]
      BY <1>7, <2>2
    <3> QED
      BY <1>11, <2>2, <3>1
  <2> QED
    BY <1>8, <2>1, <2>2
<1>14. Complete'
  <2> SUFFICES ASSUME NEW i \in 1 .. part, NEW j \in DOMAIN ToWrite[i].items
               PROVE  \E k \in 1 .. m + n : OriginOf(q[k]) = <<i, j>>
    BY <1>2, <1>6, <1>7, <1>12 DEF Complete
  <2>1. CASE i = part
    <3>1. j \in 1 .. n /\ OriginOf(u[j]) = <<i, j>>
      BY <1>5, <1>10, <1>p, <2>1
    <3> QED
      BY <1>7, <3>1
  <2>2. CASE i # part
    <3>1. i \in 1 .. part - 1
      BY <1>3, <2>2
    <3> QED
      BY <1>7, <1>9, <3>1
  <2> QED
    BY <2>1, <2>2
<1>15. InOrder'
  <2> SUFFICES ASSUME NEW j \in 1 .. m + n, NEW k \in 1 .. m + n, j < k
               PROVE  Before(OriginOf(q[j]), OriginOf(q[k]))
    BY <1>6, <1>7 DEF InOrder
  <2>1. CASE k \in 1 .. m
    <3>1. j \in 1 .. m
      BY <2>1
    <3> QED
      BY <1>7, <1>9, <2>1, <3>1
  <2>2. CASE j \in 1 .. m /\ k - m \in 1 .. n /\ m + (k - m) = k
    <3>1. OriginOf(q[k]) = <<part, k - m>> /\ OriginOf(q[j]) = OriginOf(s[j])
      BY <1>7, <1>10, <2>2
    <3>2. s[j].part \in 1 .. part - 1
      BY <1>9, <2>2
    <3>3. s[j].part < part
      BY <1>3, <3>2
    <3> QED
      BY <3>1, <3>3 DEF OriginOf, Before
  <2>3. CASE j - m \in 1 .. n /\ m + (j - m) = j /\ k - m \in 1 .. n /\ m + (k - m) = k
    <3>1. OriginOf(q[j]) = <<part, j - m>> /\ OriginOf(q[k]) = <<part, k - m>>
      BY <1>7, <1>10, <2>3
    <3>2. j - m < k - m
      OBVIOUS
    <3> QED
      BY <3>1, <3>2 DEF Before
  <2> QED
    BY <1>8, <2>1, <2>2, <2>3
<1>16. BackToBack'
  <2>1. /\ m = 0 => offset = 0
        /\ m # 0 => s[1].at = 0 /\ offset = WireEnd(s[m])
        /\ \A k \in 1 .. m - 1 : s[k + 1].at = WireEnd(s[k])
    <3>1. s = <<>> <=> m = 0
      BY EmptySeq
    <3> QED
      BY <1>6, <3>1 DEF Wired, BackToBack
  <2>2. /\ \A k \in 1 .. n : Sizes(p.items)[k] = HeaderSize + p.items[k].len
                             /\ p.items[k].len \in Nat /\ Sizes(p.items)[k] \in Nat
        /\ \A k \in 0 .. n : SumUpTo(Sizes(p.items), k) \in Nat
        /\ Octets(p.items) = SumUpTo(Sizes(p.items), n)
    <3>1. p.items \in Seq(Item)
      BY DEF ElementWriter
    <3>2. /\ \A k \in 1 .. n : p.items[k] \in Item
          /\ \A k \in 1 .. n : Sizes(p.items)[k] = HeaderSize + p.items[k].len
                               /\ Sizes(p.items)[k] \in Nat
      BY <1>5, <3>1, SizesFacts
    <3>3. \A k \in 1 .. n : p.items[k].len \in Nat
      BY <3>2 DEF Item
    <3>4. \A k \in 0 .. n : SumUpTo(Sizes(p.items), k) \in Nat
      BY <3>2, SumIsNat
    <3> QED
      BY <1>5, <3>2, <3>3, <3>4 DEF Octets
  <2>3. ASSUME NEW k \in 1 .. n
        PROVE  WireEnd(u[k]) = offset + SumUpTo(Sizes(p.items), k)
    <3>1. k - 1 \in 0 .. n /\ k - 1 \in Nat /\ (k - 1) + 1 = k
      OBVIOUS
    <3>2. SumUpTo(Sizes(p.items), k) = SumUpTo(Sizes(p.items), k - 1) + Sizes(p.items)[k]
      BY <3>1, SumUpToSteps
    <3>3. /\ SumUpTo(Sizes(p.items), k - 1) \in Nat
          /\ Sizes(p.items)[k] = HeaderSize + p.items[k].len /\ p.items[k].len \in Nat
      BY <2>2, <3>1
    <3>4. u[k].at = offset + SumUpTo(Sizes(p.items), k - 1) /\ u[k].len = p.items[k].len
      BY <1>5
    <3>5. WireEnd(u[k]) = offset + (SumUpTo(Sizes(p.items), k - 1) + (HeaderSize + p.items[k].len))
      BY <1>4, <3>3, <3>4, EndOfFrame
    <3> QED
      BY <3>2, <3>3, <3>5
  <2>4. SumUpTo(Sizes(p.items), 1 - 1) = 0 /\ SumUpTo(Sizes(p.items), 0) = 0
    BY SumUpToSteps
  <2>5. n # 0 => u[1].at = offset
    BY <1>4, <1>5, <2>4
  <2>6. offset' = IF n = 0 THEN offset ELSE WireEnd(u[n])
    <3>1. offset' = offset + SumUpTo(Sizes(p.items), n)
      BY <1>1, <1>5, <1>p, <2>2
    <3>2. n # 0 => n \in 1 .. n
      OBVIOUS
    <3> QED
      BY <1>4, <2>3, <2>4, <3>1, <3>2
  <2>7. q = <<>> <=> m + n = 0
    <3>1. q \in Seq(WireFrame)
      BY <1>6, Concatenated
    <3> QED
      BY <1>7, <3>1, EmptySeq
  <2>8. m + n # 0 => q[1].at = 0 /\ offset' = WireEnd(q[m + n])
    <3>1. CASE m = 0 /\ n # 0
      <4>1. q[1] = u[1] /\ q[m + n] = u[n]
        <5>1. 1 \in 1 .. n /\ n \in 1 .. n /\ m + 1 = 1
          BY <3>1
        <5> QED
          BY <1>7, <5>1
      <4> QED
        BY <2>1, <2>5, <2>6, <3>1, <4>1
    <3>2. CASE m # 0 /\ n # 0
      <4>1. q[1] = s[1] /\ q[m + n] = u[n]
        <5>1. 1 \in 1 .. m /\ n \in 1 .. n
          BY <3>2
        <5> QED
          BY <1>7, <5>1
      <4> QED
        BY <2>1, <2>6, <3>2, <4>1
    <3>3. CASE m # 0 /\ n = 0
      <4>1. q[1] = s[1] /\ q[m + n] = s[m]
        <5>1. 1 \in 1 .. m /\ m \in 1 .. m /\ m + n = m
          BY <3>3
        <5> QED
          BY <1>7, <5>1
      <4> QED
        BY <2>1, <2>6, <3>3, <4>1
    <3> QED
      BY <3>1, <3>2, <3>3
  <2>9. ASSUME NEW k \in 1 .. m + n - 1
        PROVE  q[k + 1].at = WireEnd(q[k])
    <3>1. CASE k < m
      <4>1. k \in 1 .. m - 1 /\ k \in 1 .. m /\ k + 1 \in 1 .. m
        BY <3>1
      <4> QED
        BY <1>7, <2>1, <4>1
    <3>2. CASE k = m
      <4>1. k \in 1 .. m /\ 1 \in 1 .. n /\ k + 1 = m + 1 /\ m # 0 /\ n # 0
        BY <3>2
      <4>2. q[k] = s[m] /\ q[k + 1] = u[1]
        BY <1>7, <3>2, <4>1
      <4> QED
        BY <2>1, <2>5, <4>1, <4>2
    <3>3. CASE k > m
      <4> PICK h \in 1 .. n - 1 : k = m + h
        <5>1. k - m \in 1 .. n - 1 /\ k = m + (k - m)
          BY <3>3
        <5> QED
          BY <5>1
      <4>1. h \in 1 .. n /\ h + 1 \in 1 .. n /\ k + 1 = m + (h + 1) /\ (h + 1) - 1 = h
        OBVIOUS
      <4>2. q[k] = u[h] /\ q[k + 1] = u[h + 1]
        BY <1>7, <4>1
      <4>3. u[h + 1].at = offset + SumUpTo(Sizes(p.items), h)
        BY <1>5, <4>1
      <4> QED
        BY <2>3, <4>1, <4>2, <4>3
    <3> QED
      BY <3>1, <3>2, <3>3
  <2>10. /\ q = <<>> => offset' = 0
         /\ q # <<>> => q[1].at = 0 /\ offset' = WireEnd(q[Len(q)])
         /\ \A k \in 1 .. Len(q) - 1 : q[k + 1].at = WireEnd(q[k])
    <3>1. m = 0 /\ n = 0 => offset' = 0
      BY <2>1, <2>6
    <3>2. q = <<>> => m = 0 /\ n = 0
      BY <2>7
    <3> QED
      BY <1>7, <2>7, <2>8, <2>9, <3>1, <3>2
  <2> QED
    BY <1>6, <2>10 DEF BackToBack, WireEnd
<1> QED
  BY <1>13, <1>14, <1>15, <1>16 DEF Wired

\* Only the items of arrays change.
LEMMA ArraysChange ==
  ASSUME OwnParts, sender' = sender, DOMAIN parts' = DOMAIN parts,
         \A i \in DOMAIN parts :
           /\ parts'[i].type = parts[i].type
           /\ IsArray(parts[i].type) \/ parts'[i].items = parts[i].items
  PROVE  OwnParts'
<1>1. ASSUME NEW i \in DOMAIN parts
      PROVE  HasItsItems(parts'[i])
  BY DEF OwnParts, HasItsItems, IsArray
<1> QED
  BY <1>1 DEF OwnParts, HasItsItems

LEMMA InitWired == Init => OwnParts /\ Wired
<1> SUFFICES ASSUME Init PROVE OwnParts /\ Wired
  OBVIOUS
<1>1. OwnParts
  BY LoadsAssumption DEF Init, OwnParts, IsLoad, sender
<1>2. Wired
  BY NothingWired DEF Init
<1> QED
  BY <1>1, <1>2

\* Nothing is written before the application is through with its arrays.
LEMMA StillNothing ==
  ASSUME WriterInv, stage = "prepared" \/ stage = "constructed",
         UNCHANGED <<part, offset, wire>>,
         parts' \in Seq(ElementWriter), padding' \in Nat
  PROVE  Wired'
<1>1. wire' = <<>> /\ part' = 1 /\ offset' = 0
  BY NotBegun
<1> QED
  BY <1>1 DEF Wired, Copies, Complete, InOrder, BackToBack, WireEnd

LEMMA ConstructWired ==
  ASSUME WriterInv, OwnParts, Construct
  PROVE  OwnParts' /\ Wired'
<1>1. /\ stage = "prepared" /\ padding' = CalcMTUPadding
      /\ UNCHANGED <<load, part, offset, wire>>
      /\ parts \in Seq(ElementWriter) /\ sender' = sender
      /\ parts' = [i \in DOMAIN parts |->
                     IF i \in Dropped THEN [parts[i] EXCEPT !.items = <<>>] ELSE parts[i]]
  BY DEF WriterInv, TypeOK, Construct, sender
<1>2. /\ parts' \in Seq(ElementWriter) /\ DOMAIN parts' = DOMAIN parts
      /\ \A j \in DOMAIN parts :
           /\ parts'[j].type = parts[j].type
           /\ parts'[j].items = IF j \in Dropped THEN <<>> ELSE parts[j].items
  BY <1>1, ItemsDropped
<1>3. ASSUME NEW i \in DOMAIN parts, i \in Dropped
      PROVE  IsArray(parts[i].type)
  <2>1. parts[i] \in ElementWriter /\ parts[i].type = "ReturnedMessageElement"
    BY <1>1, <1>3 DEF Dropped, FirstReturned
  <2>2. parts[i].type \in DOMAIN Element
    BY <2>1 DEF ElementWriter
  <2> QED
    BY <2>1, <2>2, ElementAssumption DEF IsArray
<1>4. OwnParts'
  BY <1>1, <1>2, <1>3, ArraysChange
<1>5. WriterInv'
  BY ConstructKeeps
<1>6. padding' \in Nat
  BY <1>5, ShortIsNat DEF WriterInv, TypeOK
<1> QED
  BY <1>1, <1>2, <1>4, <1>6, StillNothing

LEMMA ChangeWired ==
  ASSUME WriterInv, OwnParts, NEW i \in DOMAIN parts, IsArray(parts[i].type), MayChange,
         NEW its, parts' = WithItems(parts, i, its), WriterInv',
         load' = [load EXCEPT !.changes = load.changes - 1],
         UNCHANGED <<padding, part, offset, wire>>
  PROVE  OwnParts' /\ Wired'
<1>1. /\ parts \in Seq(ElementWriter) /\ padding' \in Nat /\ stage = "constructed"
      /\ IsLoad(load) /\ load.changes > 0
      /\ parts' \in Seq(ElementWriter)
  BY ShortIsNat DEF WriterInv, TypeOK, MayChange
<1>2. sender' = sender
  BY <1>1, Spent
<1>3. DOMAIN parts' = DOMAIN parts
      /\ \A j \in DOMAIN parts :
           /\ parts'[j].type = parts[j].type
           /\ j = i \/ parts'[j].items = parts[j].items
  <2>1. \A j \in DOMAIN parts : parts[j] \in ElementWriter
    BY <1>1
  <2>2. [parts[i] EXCEPT !.items = its].type = parts[i].type
    BY <2>1 DEF ElementWriter
  <2> PICK w : w = [parts[i] EXCEPT !.items = its]
    OBVIOUS
  <2>3. parts' = [parts EXCEPT ![i] = w] /\ w.type = parts[i].type
    BY <2>2 DEF WithItems
  <2> QED
    BY <1>1, <2>3
<1>4. OwnParts'
  BY <1>2, <1>3, ArraysChange
<1> QED
  BY <1>1, <1>4, StillNothing

LEMMA SameParts ==
  ASSUME OwnParts, Wired, sender' = sender, UNCHANGED <<parts, padding, part, offset, wire>>
  PROVE  OwnParts' /\ Wired'
BY SameWire DEF OwnParts, HasItsItems

LEMMA WiredStep ==
  ASSUME WriterInv, OwnParts, Wired, [Next]_writerVars
  PROVE  OwnParts' /\ Wired'
<1>0. WriterInv'
  BY WriterStep
<1>1. CASE Construct
  BY <1>1, ConstructWired
<1>2. CASE SetResult
  <2>1. /\ load' = [load EXCEPT !.changes = load.changes - 1] /\ load.changes > 0
        /\ UNCHANGED <<parts, padding, part, offset, wire>>
    BY <1>2 DEF SetResult, MayChange
  <2>2. sender' = sender
    BY <2>1, Spent DEF WriterInv, TypeOK
  <2> QED
    BY <2>1, <2>2, SameParts
<1>3. ASSUME NEW i \in DOMAIN parts, Clear(i) PROVE OwnParts' /\ Wired'
  <2>1. /\ MayChange /\ parts' = WithItems(parts, i, <<>>) /\ IsArray(parts[i].type)
        /\ load' = [load EXCEPT !.changes = load.changes - 1]
        /\ UNCHANGED <<padding, part, offset, wire>>
    BY <1>3 DEF Clear, Shared, WithItems
  <2> QED
    BY <1>0, <2>1, ChangeWired
<1>4. ASSUME NEW i \in DOMAIN parts, NEW x \in NewItems(parts[i].type), Add(i, x)
      PROVE  OwnParts' /\ Wired'
  <2>1. PICK its : parts' = WithItems(parts, i, its)
    BY <1>4 DEF Add, WithItems
  <2>2. /\ MayChange /\ IsArray(parts[i].type)
        /\ load' = [load EXCEPT !.changes = load.changes - 1]
        /\ UNCHANGED <<padding, part, offset, wire>>
    BY <1>4 DEF Add, Shared
  <2> QED
    BY <1>0, <2>1, <2>2, ChangeWired
<1>5. CASE WritePart
  <2>1. Wired'
    BY <1>5, WritePartWired
  <2>2. sender' = sender /\ parts' = parts
    BY <1>5 DEF WritePart, sender
  <2> QED
    BY <2>1, <2>2 DEF OwnParts, HasItsItems
<1>6. CASE ConstructAborts \/ BeginSerialize \/ WriteAborts \/ EndSerialize \/ UNCHANGED writerVars
  <2>1. sender' = sender /\ UNCHANGED <<parts, padding, part, offset, wire>>
    BY <1>6 DEF ConstructAborts, BeginSerialize, WriteAborts, EndSerialize, writerVars, sender
  <2> QED
    BY <2>1, SameParts
<1> QED
  BY <1>1, <1>2, <1>3, <1>4, <1>5, <1>6 DEF Next, Application, Serialize
-----------------------------------------------------------------------------
(***************************************************************************)
(* The reader.                                                             *)
(***************************************************************************)

\* The reader of the exchange is the one the proofs are about.
LEMMA SameStep == Peer!LoopStep => Reader!LoopStep
BY DEF Peer!LoopStep, Reader!LoopStep, Peer!ReadSingle, Reader!ReadSingle, Peer!ReadArray,
    Reader!ReadArray, Peer!ReadNested, Reader!ReadNested, Peer!SkipUnknown,
    Reader!SkipUnknown, Peer!RejectUnknown, Reader!RejectUnknown, Peer!RejectHeader,
    Reader!RejectHeader, Peer!RejectBody, Reader!RejectBody, Peer!Finish, Reader!Finish,
    Peer!Under, Reader!Under, Peer!HeaderSize, Reader!HeaderSize, Peer!Handled,
    Reader!Handled, Peer!Kind, Reader!Kind, Peer!HeaderOk, Reader!HeaderOk, Peer!Fits,
    Reader!Fits, Peer!FrameEnd, Reader!FrameEnd, Peer!Pointer, Reader!Pointer,
    Peer!BodyOk, Reader!BodyOk, Peer!Stored, Reader!Stored, Peer!WithSubs,
    Reader!WithSubs, Peer!Kept, Reader!Kept, Peer!HasRoom, Reader!HasRoom, Peer!Null,
    Reader!Null, Peer!RequiredPresent, Reader!RequiredPresent, Peer!IsPresent,
    Reader!IsPresent, Peer!vars, Reader!vars

LEMMA SameReading ==
  /\ Peer!Handled = Reader!Handled
  /\ Peer!Null = Reader!Null
BY DEF Peer!Handled, Reader!Handled, Peer!Null, Reader!Null

\* What the reader's proofs assume holds of the elements and the peers.
LEMMA PeersAreReaders ==
  /\ \A t \in Type : Reader!IsDescriptor(Element[t])
  /\ \A m \in UNION {Peers(l) : l \in Loads} :
       m \in Reader!MessageDescriptor /\ m.required \cup m.oneOf \subseteq m.members
  /\ \A b \in {} : Reader!WellLaidOut(b)
  /\ 1 \in Nat \ {0}
<1>1. \A t \in Type : Reader!IsDescriptor(Element[t])
  BY CatalogueAssumption DEF Peer!IsDescriptor, Reader!IsDescriptor
<1>2. \A l \in Loads : \A m \in Peers(l) :
        m \in Reader!MessageDescriptor /\ m.required \cup m.oneOf \subseteq m.members
  BY PeersAssumption DEF Peer!MessageDescriptor, Reader!MessageDescriptor
<1> QED
  BY <1>1, <1>2

LEMMA FreshIsFine == Reader!Fresh => Reader!ReaderInv
BY PeersAreReaders, Reader!FreshReader

LEMMA ReadingIsFine == Reader!ReaderInv /\ [Reader!Next]_Reader!vars => Reader!ReaderInv'
BY PeersAreReaders, Reader!ReaderStep

\* The buffer the reader gets.
OnArrival == [k \in DOMAIN wire |-> Sent(wire[k])]
Received == [size |-> offset, frames |-> OnArrival]

LEMMA WireFacts ==
  ASSUME WriterInv
  PROVE  /\ Len(wire) \in Nat /\ DOMAIN wire = 1 .. Len(wire)
         /\ \A k \in DOMAIN wire :
              /\ wire[k].type \in Type /\ wire[k].at \in Nat /\ wire[k].len \in Nat
              /\ wire[k].ok \in BOOLEAN /\ wire[k].body = "ok" /\ wire[k].subs \in Nat
              /\ wire[k].stop \in Seq(Nat) /\ wire[k].part \in Nat /\ wire[k].item \in Nat
<1>1. wire \in Seq(WireFrame)
  BY DEF WriterInv, RadiosWritten
<1>2. Len(wire) \in Nat /\ DOMAIN wire = 1 .. Len(wire)
  BY <1>1
<1>3. \A k \in DOMAIN wire : wire[k] \in WireFrame
  BY <1>1
<1> QED
  BY <1>2, <1>3 DEF WireFrame, Type

LEMMA SentFacts ==
  ASSUME WriterInv
  PROVE  /\ OnArrival \in Seq(Reader!Frame) /\ Len(OnArrival) = Len(wire)
         /\ DOMAIN OnArrival = DOMAIN wire
         /\ \A k \in DOMAIN wire :
              /\ OnArrival[k].type = wire[k].type /\ OnArrival[k].at = wire[k].at
              /\ OnArrival[k].len = wire[k].len /\ OnArrival[k].ok = wire[k].ok
              /\ OnArrival[k].body = "ok" /\ OnArrival[k].subs = wire[k].subs
              /\ OnArrival[k].stop = wire[k].stop
<1>1. ASSUME NEW k \in DOMAIN wire
      PROVE  /\ OnArrival[k] \in Reader!Frame
             /\ OnArrival[k].type = wire[k].type /\ OnArrival[k].at = wire[k].at
             /\ OnArrival[k].len = wire[k].len /\ OnArrival[k].ok = wire[k].ok
             /\ OnArrival[k].body = "ok" /\ OnArrival[k].subs = wire[k].subs
             /\ OnArrival[k].stop = wire[k].stop
  <2>1. OnArrival[k] = Sent(wire[k])
    BY DEF OnArrival
  <2>2. /\ Sent(wire[k]).type = wire[k].type /\ Sent(wire[k]).at = wire[k].at
        /\ Sent(wire[k]).len = wire[k].len /\ Sent(wire[k]).ok = wire[k].ok
        /\ Sent(wire[k]).body = wire[k].body /\ Sent(wire[k]).subs = wire[k].subs
        /\ Sent(wire[k]).stop = wire[k].stop
    BY DEF Sent
  <2>3. Sent(wire[k]) \in Reader!Frame
    <3>1. /\ wire[k].type \in Type /\ wire[k].at \in Nat /\ wire[k].len \in Nat
          /\ wire[k].ok \in BOOLEAN /\ wire[k].body \in {"ok", "early", "late"}
          /\ wire[k].subs \in Nat /\ wire[k].stop \in Seq(Nat)
      BY WireFacts
    <3> QED
      BY <3>1 DEF Sent, Reader!Frame
  <2> QED
    BY <2>1, <2>2, <2>3, WireFacts
<1>2. OnArrival = [k \in 1 .. Len(wire) |-> OnArrival[k]] /\ DOMAIN OnArrival = DOMAIN wire
  BY WireFacts DEF OnArrival
<1>3. OnArrival \in Seq(Reader!Frame) /\ Len(OnArrival) = Len(wire)
  BY <1>1, <1>2, WireFacts, FunctionIsSeq
<1> QED
  BY <1>1, <1>2, <1>3

LEMMA ReceivedIsLaidOut ==
  ASSUME WriterInv, Wired
  PROVE  Reader!WellLaidOut(Received)
<1> PICK b : b = Received
  OBVIOUS
<1> PICK n \in Nat : n = Len(wire)
  BY WireFacts
<1>1. b.size = offset /\ b.frames = OnArrival
  BY DEF Received
<1>2. /\ offset \in Nat /\ DOMAIN wire = 1 .. n
      /\ wire = <<>> <=> n = 0
  BY WireFacts, EmptySeq DEF WriterInv, TypeOK, RadiosWritten
<1>3. /\ b.frames \in Seq(Reader!Frame) /\ Len(b.frames) = n /\ DOMAIN b.frames = 1 .. n
      /\ \A k \in 1 .. n :
           /\ b.frames[k].type = wire[k].type /\ b.frames[k].at = wire[k].at
           /\ b.frames[k].len = wire[k].len /\ b.frames[k].body = "ok"
           /\ b.frames[k].subs = wire[k].subs /\ b.frames[k].stop = wire[k].stop
           /\ Reader!FrameEnd(b.frames[k]) = WireEnd(wire[k])
  BY <1>1, <1>2, SentFacts DEF Reader!FrameEnd, Reader!HeaderSize, WireEnd, HeaderSize
<1>4. b.frames = <<>> <=> n = 0
  BY <1>3, EmptySeq
<1>5. /\ n = 0 => offset = 0
      /\ n # 0 => wire[1].at = 0 /\ offset = WireEnd(wire[n])
      /\ \A k \in 1 .. n - 1 : wire[k + 1].at = WireEnd(wire[k])
  BY <1>2 DEF Wired, BackToBack
<1>6. n # 0 => 1 \in 1 .. n /\ n \in 1 .. n
  OBVIOUS
<1>7. \A k \in 1 .. n - 1 : k \in 1 .. n /\ k + 1 \in 1 .. n
  OBVIOUS
<1>8. /\ b.frames # <<>> => b.frames[1].at = 0
      /\ \A k \in 1 .. Len(b.frames) - 1 : b.frames[k + 1].at = Reader!FrameEnd(b.frames[k])
  BY <1>3, <1>4, <1>5, <1>6, <1>7
<1>9. Reader!LayoutEnd(b) = offset
  BY <1>3, <1>4, <1>5, <1>6 DEF Reader!LayoutEnd
<1>10. \A k \in DOMAIN b.frames : Len(b.frames[k].stop) > b.frames[k].subs
  <2>1. ASSUME NEW k \in 1 .. n
        PROVE  Len(wire[k].stop) = wire[k].subs + 1 /\ wire[k].subs \in Nat
    BY <1>2, WireFacts DEF Wired, Copies, IsCopy
  <2>2. ASSUME NEW k \in 1 .. n
        PROVE  wire[k].subs + 1 > wire[k].subs
    BY <2>1
  <2> QED
    BY <1>3, <2>1, <2>2
<1> QED
  BY <1>1, <1>2, <1>3, <1>8, <1>9, <1>10 DEF Reader!WellLaidOut, Reader!HeaderSize
-----------------------------------------------------------------------------
(***************************************************************************)
(* The inductive invariant of the exchange.                                *)
(***************************************************************************)
ReaderWaits ==
  /\ cursor = 0 /\ call = 1 /\ unknown = 0
  /\ store = [t \in Type |-> <<>>]
  /\ header = [t \in Type |-> Reader!Null]

\* The writer is as it is on its own, and the wire is in keeping with it; the
\* reader has what was written, and is as it is on its own.
ExchangeInv ==
  /\ WriterInv /\ OwnParts /\ Wired
  /\ \E l \in Loads : sender = l.sender /\ msg \in Peers(l)
  /\ IF phase = "waiting" THEN ReaderWaits
     ELSE stage = "written" /\ buf = Received /\ Reader!ReaderInv

LEMMA InitExchange == ExchangeInit => ExchangeInv
<1> SUFFICES ASSUME ExchangeInit PROVE ExchangeInv
  OBVIOUS
<1>1. Init /\ load \in Loads /\ msg \in Peers(load) /\ phase = "waiting"
  BY DEF ExchangeInit, Init
<1>2. WriterInv /\ OwnParts /\ Wired
  BY <1>1, InitWriter, InitWired
<1>3. ReaderWaits
  BY SameReading DEF ExchangeInit, ReaderWaits
<1> QED
  BY <1>1, <1>2, <1>3 DEF ExchangeInv, sender

LEMMA SenderStays == [Next]_writerVars => sender' = sender
<1> SUFFICES ASSUME [Next]_writerVars PROVE sender' = sender
  OBVIOUS
<1>1. ASSUME load' = [load EXCEPT !.changes = load.changes - 1] PROVE sender' = sender
  BY <1>1 DEF sender
<1>2. CASE UNCHANGED load
  BY <1>2 DEF sender
<1> QED
  BY <1>1, <1>2 DEF Next, Application, Serialize, Construct, ConstructAborts, SetResult,
     BeginSerialize, Clear, Add, WritePart, WriteAborts, EndSerialize, writerVars

LEMMA SamePeers ==
  ASSUME ExchangeInv, sender' = sender, msg' = msg
  PROVE  (\E l \in Loads : sender = l.sender /\ msg \in Peers(l))'
BY DEF ExchangeInv

LEMMA WriteKeeps == ExchangeInv /\ Write => ExchangeInv'
<1> SUFFICES ASSUME ExchangeInv, Write PROVE ExchangeInv'
  OBVIOUS
<1>1. Next /\ UNCHANGED readerVars
  BY DEF Write
<1>2. WriterInv' /\ OwnParts' /\ Wired'
  BY <1>1, WriterStep, WiredStep DEF ExchangeInv
<1>3. stage # "written"
  BY <1>1 DEF Next, Application, Serialize, Construct, ConstructAborts, SetResult,
     BeginSerialize, Clear, Add, MayChange, WritePart, WriteAborts, EndSerialize
<1>4. phase' = "waiting" /\ ReaderWaits'
  BY <1>1, <1>3 DEF ExchangeInv, readerVars, ReaderWaits, Reader!Null
<1>5. (\E l \in Loads : sender = l.sender /\ msg \in Peers(l))'
  BY <1>1, SenderStays, SamePeers DEF readerVars
<1> QED
  BY <1>2, <1>4, <1>5 DEF ExchangeInv

LEMMA Delivered == ExchangeInv /\ Deliver => ExchangeInv'
<1> SUFFICES ASSUME ExchangeInv, Deliver PROVE ExchangeInv'
  OBVIOUS
<1>1. /\ stage = "written" /\ phase = "waiting" /\ phase' = "reading"
      /\ buf' = [size |-> offset, frames |-> [k \in DOMAIN wire |-> Sent(wire[k])]]
      /\ UNCHANGED <<msg, cursor, call, store, header, unknown, writerVars>>
  BY DEF Deliver
<1>2. WriterInv' /\ OwnParts' /\ Wired'
  BY <1>1, WriterStep, WiredStep DEF ExchangeInv
<1>3. stage' = "written" /\ buf' = Received'
  BY <1>1 DEF Received, OnArrival, writerVars, Sent
<1>4. (\E l \in Loads : sender = l.sender /\ msg \in Peers(l))'
  BY <1>1, SenderStays, SamePeers
<1>5. Reader!WellLaidOut(Received)
  BY ReceivedIsLaidOut DEF ExchangeInv
<1>6. Received' = Received
  BY <1>1 DEF Received, OnArrival, writerVars, Sent
<1>7. Reader!Fresh'
  <2>1. msg' \in UNION {Peers(l) : l \in Loads}
    BY <1>4
  <2>2. Reader!WellLaidOut(buf')
    BY <1>3, <1>5, <1>6
  <2>3. Reader!WellLaidOut(buf)'
    BY <2>2 DEF Reader!WellLaidOut, Reader!LayoutEnd, Reader!FrameEnd, Reader!Kind,
       Reader!Frame, Reader!HeaderSize, Type
  <2> QED
    BY <1>1, <2>1, <2>3 DEF ExchangeInv, ReaderWaits, Reader!Fresh, Reader!Null
<1>8. Reader!Fresh' => Reader!ReaderInv'
  BY FreshIsFine, PTL
<1> QED
  BY <1>1, <1>2, <1>3, <1>4, <1>7, <1>8 DEF ExchangeInv

LEMMA ReadKeeps == ExchangeInv /\ Read => ExchangeInv'
<1> SUFFICES ASSUME ExchangeInv, Read PROVE ExchangeInv'
  OBVIOUS
<1>1. Reader!LoopStep /\ UNCHANGED writerVars
  BY SameStep DEF Read
<1>2. phase = "reading" /\ UNCHANGED <<msg, buf>>
  BY <1>1 DEF Reader!LoopStep, Reader!ReadSingle, Reader!ReadArray, Reader!ReadNested,
     Reader!SkipUnknown, Reader!RejectUnknown, Reader!RejectHeader, Reader!RejectBody,
     Reader!Finish, Reader!Under
<1>3. WriterInv' /\ OwnParts' /\ Wired'
  BY <1>1, WriterStep, WiredStep DEF ExchangeInv
<1>4. (\E l \in Loads : sender = l.sender /\ msg \in Peers(l))'
  BY <1>1, <1>2, SenderStays, SamePeers
<1>5. Reader!ReaderInv'
  BY <1>1, <1>2, ReadingIsFine DEF ExchangeInv, Reader!Next
<1>6. phase' # "waiting"
  BY <1>5 DEF Reader!ReaderInv, Reader!IInv, Reader!TypeOK
<1>7. stage' = "written" /\ buf' = Received'
  BY <1>1, <1>2 DEF ExchangeInv, Received, OnArrival, writerVars, Sent
<1> QED
  BY <1>3, <1>4, <1>5, <1>6, <1>7 DEF ExchangeInv

\* Nothing changes.
LEMMA StutterKeeps == ExchangeInv /\ UNCHANGED vars => ExchangeInv'
<1> SUFFICES ASSUME ExchangeInv, UNCHANGED vars PROVE ExchangeInv'
  OBVIOUS
<1>1. UNCHANGED writerVars /\ UNCHANGED readerVars
  BY DEF vars
<1>2. WriterInv' /\ OwnParts' /\ Wired'
  BY <1>1, WriterStep, WiredStep DEF ExchangeInv
<1>3. (\E l \in Loads : sender = l.sender /\ msg \in Peers(l))'
  BY <1>1, SenderStays, SamePeers DEF readerVars
<1>4. phase = "waiting" => phase' = "waiting" /\ ReaderWaits'
  BY <1>1 DEF ExchangeInv, ReaderWaits, readerVars, Reader!Null
<1>5. phase # "waiting" =>
        /\ phase' # "waiting" /\ stage' = "written"
        /\ buf' = Received' /\ Reader!ReaderInv'
  <2>1. UNCHANGED Reader!vars /\ UNCHANGED phase
    BY <1>1 DEF readerVars, Reader!vars
  <2>2. phase # "waiting" => Reader!ReaderInv'
    BY <2>1, ReadingIsFine DEF ExchangeInv
  <2>3. phase # "waiting" => stage' = "written" /\ buf' = Received'
    BY <1>1 DEF ExchangeInv, Received, OnArrival, writerVars, readerVars, Sent
  <2> QED
    BY <2>1, <2>2, <2>3
<1> QED
  BY <1>2, <1>3, <1>4, <1>5 DEF ExchangeInv

\* The invariant the theorems rest on.
THEOREM ExchangeHolds == ExchangeSpec => []ExchangeInv
<1>1. ExchangeInv /\ [ExchangeNext]_vars => ExchangeInv'
  BY WriteKeeps, Delivered, ReadKeeps, StutterKeeps DEF ExchangeNext
<1> QED
  BY <1>1, InitExchange, PTL DEF ExchangeSpec
-----------------------------------------------------------------------------
(***************************************************************************)
(* What has arrived, and what was put in.                                  *)
(***************************************************************************)
WiredOf(t) == {k \in DOMAIN wire : wire[k].type = t}

LEMMA EarlierEnds ==
  ASSUME NEW x \in Nat, NEW l \in Nat, NEW y \in Nat, NEW h \in Nat, x + 4 + l <= y
  PROVE  x + 4 + l <= y + 4 + h /\ x + 4 <= y + 4 + h
OBVIOUS

\* What is written can be seen as a whole.
LEMMA Arrived ==
  ASSUME ExchangeInv, phase # "waiting"
  PROVE  /\ DOMAIN buf.frames = DOMAIN wire
         /\ \A k \in DOMAIN wire :
              /\ buf.frames[k].type = wire[k].type /\ buf.frames[k].len = wire[k].len
              /\ buf.frames[k].ok = wire[k].ok /\ buf.frames[k].subs = wire[k].subs
              /\ buf.frames[k].body = "ok"
              /\ Reader!Fits(buf.frames[k])
         /\ Reader!Visible = DOMAIN wire
         /\ \A t : Reader!VisibleOf(t) = WiredOf(t)
         /\ call = 1
<1> PICK b : b = buf
  OBVIOUS
<1> PICK n \in Nat : n = Len(wire)
  BY WireFacts DEF ExchangeInv
<1>1. /\ Reader!ReaderInv /\ Reader!WellLaidOut(b) /\ call = 1
      /\ b.size = offset /\ b.frames = OnArrival
  <2>1. buf = Received /\ Reader!ReaderInv
    BY DEF ExchangeInv
  <2> QED
    BY <2>1 DEF Received, Reader!ReaderInv, Reader!IInv, Reader!TypeOK
<1>2. /\ offset \in Nat /\ DOMAIN wire = 1 .. n
      /\ n # 0 => offset = WireEnd(wire[n])
      /\ \A k \in 1 .. n : wire[k].at \in Nat /\ wire[k].len \in Nat
  <2>1. wire = <<>> <=> n = 0
    BY EmptySeq DEF ExchangeInv, WriterInv, RadiosWritten
  <2> QED
    BY <2>1, WireFacts DEF ExchangeInv, WriterInv, TypeOK, Wired, BackToBack
<1>3. /\ DOMAIN b.frames = 1 .. n
      /\ \A k \in 1 .. n :
           /\ b.frames[k].type = wire[k].type /\ b.frames[k].at = wire[k].at
           /\ b.frames[k].len = wire[k].len /\ b.frames[k].ok = wire[k].ok
           /\ b.frames[k].subs = wire[k].subs /\ b.frames[k].body = "ok"
           /\ Reader!FrameEnd(b.frames[k]) = wire[k].at + 4 + wire[k].len
  BY <1>1, <1>2, SentFacts DEF ExchangeInv, Reader!FrameEnd, Reader!HeaderSize
<1>4. ASSUME NEW k \in 1 .. n
      PROVE  Reader!FrameEnd(b.frames[k]) <= offset /\ wire[k].at + 4 <= offset
  <2>1. n \in 1 .. n /\ n # 0
    OBVIOUS
  <2>2. Reader!FrameEnd(b.frames[n]) = offset
    BY <1>2, <1>3, <2>1 DEF WireEnd, HeaderSize
  <2>3. CASE k = n
    BY <1>2, <1>3, <2>2, <2>3
  <2>4. CASE k < n
    <3>1. Reader!FrameEnd(b.frames[k]) <= b.frames[n].at
      BY <1>1, <1>3, <2>1, <2>4, PeersAreReaders, Reader!FramesInOrder
    <3>2. /\ Reader!FrameEnd(b.frames[k]) = wire[k].at + 4 + wire[k].len
          /\ wire[k].at \in Nat /\ wire[k].len \in Nat
          /\ b.frames[n].at = wire[n].at /\ offset = wire[n].at + 4 + wire[n].len
          /\ wire[n].at \in Nat /\ wire[n].len \in Nat
      BY <1>2, <1>3, <2>1, <2>2
    <3>3. wire[k].at + 4 + wire[k].len <= wire[n].at
      BY <3>1, <3>2
    <3> QED
      BY <3>2, <3>3, EarlierEnds
  <2> QED
    BY <2>3, <2>4
<1>5. \A k \in 1 .. n : Reader!Fits(b.frames[k])
  BY <1>1, <1>4 DEF Reader!Fits
<1>6. Reader!Visible = 1 .. n
  BY <1>1, <1>3, <1>4 DEF Reader!Visible, Reader!HeaderSize
<1>7. \A t : Reader!VisibleOf(t) = WiredOf(t)
  BY <1>2, <1>3, <1>6 DEF Reader!VisibleOf, WiredOf
<1> QED
  BY <1>1, <1>2, <1>3, <1>5, <1>6, <1>7

LEMMA ItemsOfFacts ==
  ASSUME NEW t, NEW o
  PROVE  o \in ItemsOf(t) <=>
           \E i \in DOMAIN parts : \E k \in DOMAIN parts[i].items :
             parts[i].type = t /\ o = <<i, k>>
BY DEF ItemsOf

\* Everything is written, the writers' items first.
LEMMA AllWired ==
  ASSUME ExchangeInv, phase # "waiting"
  PROVE  /\ DOMAIN parts = 1 .. Len(parts) /\ Len(parts) \in Nat
         /\ Len(ToWrite) = Len(parts) + IF padding = 0 THEN 0 ELSE 1
         /\ \A i \in DOMAIN parts : i \in 1 .. Len(ToWrite) /\ ToWrite[i] = parts[i]
         /\ \A k \in DOMAIN wire :
              wire[k].part \in 1 .. Len(ToWrite) /\ IsCopy(wire[k], ToWrite[wire[k].part])
         /\ \A i \in 1 .. Len(ToWrite) : \A j \in DOMAIN ToWrite[i].items :
              \E k \in DOMAIN wire : OriginOf(wire[k]) = <<i, j>>
         /\ padding # 0 => ToWrite[Len(parts) + 1].type = "MTUDiscoveryPadding"
<1>1. WriterInv /\ Wired /\ stage = "written" /\ TypeOK
  BY DEF ExchangeInv, WriterInv
<1>2. part - 1 = Len(ToWrite)
  BY <1>1, AllIsWritten
<1>3. /\ DOMAIN parts = 1 .. Len(parts) /\ Len(parts) \in Nat
      /\ Len(ToWrite) = Len(parts) + IF padding = 0 THEN 0 ELSE 1
      /\ \A i \in 1 .. Len(parts) : ToWrite[i] = parts[i]
      /\ padding # 0 => ToWrite[Len(parts) + 1].type = "MTUDiscoveryPadding"
  BY <1>1, ToWriteFacts
<1>4. \A i \in 1 .. Len(parts) : i \in 1 .. Len(ToWrite)
  BY <1>3
<1> QED
  BY <1>1, <1>2, <1>3, <1>4 DEF Wired, Copies, Complete

\* The padding is none of the application's elements.
LEMMA NoPaddingWriter ==
  ASSUME ExchangeInv
  PROVE  /\ SidesAgree(sender, msg)
         /\ \A i \in DOMAIN parts : parts[i].type # "MTUDiscoveryPadding"
         /\ ItemsOf("MTUDiscoveryPadding") = {}
<1>1. SidesAgree(sender, msg)
  BY PeersAssumption DEF ExchangeInv
<1>2. ASSUME NEW i \in DOMAIN parts
      PROVE  parts[i].type # "MTUDiscoveryPadding"
  <2>1. parts[i].type \in Taken(sender) \cup sender.optional
    <3>1. IsLoad(load) /\ i \in Nat \ {0} /\ DOMAIN parts = 1 .. Len(parts)
      BY DEF ExchangeInv, WriterInv, TypeOK
    <3>2. Len(sender.order) \in Nat /\ DOMAIN sender.order = 1 .. Len(sender.order)
      BY <3>1 DEF IsLoad, MessageSender, sender
    <3>3. CASE i <= Len(sender.order)
      <4>1. i \in DOMAIN sender.order
        BY <3>1, <3>2, <3>3
      <4> QED
        BY <3>3, <4>1 DEF ExchangeInv, OwnParts, Taken
    <3>4. CASE ~(i <= Len(sender.order))
      BY <3>4 DEF ExchangeInv, OwnParts
    <3> QED
      BY <3>3, <3>4
  <2> QED
    BY <1>1, <2>1 DEF SidesAgree
<1> QED
  BY <1>1, <1>2, ItemsOfFacts

\* On the wire are just the items of the application's writers, but for the
\* padding.
LEMMA ItemsArrive ==
  ASSUME ExchangeInv, phase # "waiting", NEW t, t # "MTUDiscoveryPadding"
  PROVE  /\ \A k \in WiredOf(t) :
              /\ OriginOf(wire[k]) \in ItemsOf(t)
              /\ ItemAt(OriginOf(wire[k])).len = wire[k].len
              /\ ItemAt(OriginOf(wire[k])).ok = wire[k].ok
              /\ ItemAt(OriginOf(wire[k])).subs = wire[k].subs
         /\ \A o \in ItemsOf(t) : \E k \in WiredOf(t) : OriginOf(wire[k]) = o
<1>1. ASSUME NEW k \in WiredOf(t)
      PROVE  /\ OriginOf(wire[k]) \in ItemsOf(t)
             /\ ItemAt(OriginOf(wire[k])).len = wire[k].len
             /\ ItemAt(OriginOf(wire[k])).ok = wire[k].ok
             /\ ItemAt(OriginOf(wire[k])).subs = wire[k].subs
  <2>1. /\ k \in DOMAIN wire /\ wire[k].type = t
        /\ wire[k].part \in 1 .. Len(ToWrite) /\ IsCopy(wire[k], ToWrite[wire[k].part])
    BY AllWired DEF WiredOf
  <2>2. wire[k].part \in DOMAIN parts
    <3>1. wire[k].part # Len(parts) + 1 \/ padding = 0
      BY <2>1, AllWired DEF IsCopy
    <3> QED
      BY <2>1, <3>1, AllWired
  <2>3. IsCopy(wire[k], parts[wire[k].part])
    BY <2>1, <2>2, AllWired
  <2>4. OriginOf(wire[k]) \in ItemsOf(t)
    BY <2>1, <2>2, <2>3, ItemsOfFacts DEF IsCopy, OriginOf
  <2> QED
    BY <2>3, <2>4 DEF IsCopy, OriginOf, ItemAt
<1>2. ASSUME NEW o \in ItemsOf(t)
      PROVE  \E k \in WiredOf(t) : OriginOf(wire[k]) = o
  <2>0. PICK i \in DOMAIN parts : \E j \in DOMAIN parts[i].items : parts[i].type = t /\ o = <<i, j>>
    BY ItemsOfFacts
  <2>1. PICK j \in DOMAIN parts[i].items : parts[i].type = t /\ o = <<i, j>>
    BY <2>0
  <2>2. i \in 1 .. Len(ToWrite) /\ ToWrite[i] = parts[i]
    BY AllWired
  <2>3. PICK k \in DOMAIN wire : OriginOf(wire[k]) = <<i, j>>
    BY <2>2, AllWired
  <2>4. wire[k].part = i /\ wire[k].type = ToWrite[wire[k].part].type
    BY <2>3, AllWired DEF OriginOf, IsCopy
  <2> QED
    BY <2>1, <2>2, <2>3, <2>4 DEF WiredOf
<1> QED
  BY <1>1, <1>2

\* No two elements on the wire are the same item.
LEMMA OriginsDiffer ==
  ASSUME ExchangeInv, NEW j \in DOMAIN wire, NEW k \in DOMAIN wire
  PROVE  /\ OriginOf(wire[j]) = OriginOf(wire[k]) => j = k
         /\ j < k => Before(OriginOf(wire[j]), OriginOf(wire[k]))
<1>1. \A h \in DOMAIN wire : wire[h].part \in Nat /\ wire[h].item \in Nat /\ h \in Nat
  BY WireFacts DEF ExchangeInv
<1>2. \A g, h \in DOMAIN wire : g < h => Before(OriginOf(wire[g]), OriginOf(wire[h]))
  BY DEF ExchangeInv, Wired, InOrder
<1>3. ASSUME NEW h \in DOMAIN wire PROVE ~Before(OriginOf(wire[h]), OriginOf(wire[h]))
  BY <1>1 DEF Before, OriginOf
<1>4. j < k \/ k < j \/ j = k
  BY <1>1
<1> QED
  BY <1>2, <1>3, <1>4

\* The padding is an element the peer takes, whatever its length.
LEMMA PaddingIsTaken ==
  ASSUME ExchangeInv, phase # "waiting", NEW k \in WiredOf("MTUDiscoveryPadding")
  PROVE  "MTUDiscoveryPadding" \in msg.members /\ Reader!HeaderOk(buf.frames[k])
<1>1. /\ k \in DOMAIN wire /\ wire[k].type = "MTUDiscoveryPadding"
      /\ wire[k].part \in 1 .. Len(ToWrite) /\ IsCopy(wire[k], ToWrite[wire[k].part])
  BY AllWired DEF WiredOf
<1>2. padding # 0 /\ wire[k].part = Len(parts) + 1
  <2>1. wire[k].part \notin DOMAIN parts
    BY <1>1, NoPaddingWriter, AllWired DEF IsCopy
  <2> QED
    BY <1>1, <2>1, AllWired
<1>3. ToWrite[Len(parts) + 1] = [type |-> "MTUDiscoveryPadding", items |-> <<PaddingItem>>]
  <2>1. parts \in Seq(ElementWriter)
    BY DEF ExchangeInv, WriterInv, TypeOK
  <2> QED
    BY <1>2, <2>1 DEF ToWrite
<1>4. wire[k].len = padding /\ wire[k].ok = TRUE
  BY <1>1, <1>2, <1>3 DEF IsCopy, PaddingItem
<1>5. padding \in 0 .. UInt16 - 1 /\ Probing
  BY <1>2 DEF ExchangeInv, WriterInv, TypeOK, SinceBuilt, Made
<1>6. "MTUDiscoveryPadding" \in msg.members
  BY <1>5, NoPaddingWriter DEF SidesAgree, Probing
<1>7. /\ buf.frames[k].type = "MTUDiscoveryPadding" /\ buf.frames[k].len = padding
      /\ buf.frames[k].ok = TRUE /\ Reader!Fits(buf.frames[k])
  BY <1>1, <1>4, Arrived
<1>8. /\ Element["MTUDiscoveryPadding"].minLen = 0
      /\ Element["MTUDiscoveryPadding"].maxLen \in Nat
      /\ Element["MTUDiscoveryPadding"].maxLen >= UInt16 - 1
  <2>1. "MTUDiscoveryPadding" \in Type
    BY ElementAssumption DEF Type
  <2> QED
    BY <2>1, CatalogueAssumption DEF Peer!IsDescriptor
<1>9. buf.frames[k].len >= 0 /\ buf.frames[k].len <= Element["MTUDiscoveryPadding"].maxLen
  <2>1. padding \in Nat /\ padding >= 0 /\ padding <= UInt16 - 1 /\ UInt16 - 1 \in Nat
    BY <1>5, ShortIsNat, SixteenBits
  <2>2. \A a, b, c \in Nat : a <= b /\ c >= b => a <= c
    OBVIOUS
  <2>3. padding <= Element["MTUDiscoveryPadding"].maxLen
    BY <1>8, <2>1, <2>2
  <2> QED
    BY <1>7, <2>1, <2>3
<1> QED
  BY <1>6, <1>7, <1>8, <1>9 DEF Reader!HeaderOk

\* As many elements are on the wire as there are items they come from.
LEMMA SameNumber ==
  ASSUME ExchangeInv, NEW K \in SUBSET DOMAIN wire, NEW I,
         \A k \in K : OriginOf(wire[k]) \in I,
         \A o \in I : \E k \in K : OriginOf(wire[k]) = o
  PROVE  Cardinality(I) = Cardinality(K)
<1> PICK f : f = [k \in K |-> OriginOf(wire[k])]
  OBVIOUS
<1>1. IsFiniteSet(K)
  <2>1. Len(wire) \in Nat /\ DOMAIN wire = 1 .. Len(wire) /\ 1 \in Int /\ Len(wire) \in Int
    BY WireFacts DEF ExchangeInv
  <2>2. IsFiniteSet(1 .. Len(wire))
    BY <2>1, FS_Interval
  <2> QED
    BY <2>1, <2>2, FS_Subset
<1>2. f \in [K -> I] /\ DOMAIN f = K /\ \A k \in K : f[k] = OriginOf(wire[k])
  OBVIOUS
<1>3. \A o \in I : \E k \in K : f[k] = o
  BY <1>2
<1>4. f \in Surjection(K, I)
  BY <1>2, <1>3 DEF Surjection
<1>5. \A j, k \in K : f[j] = f[k] => j = k
  BY <1>2, OriginsDiffer
<1>6. f \in Injection(K, I)
  BY <1>2, <1>5 DEF Injection, IsInjective
<1> QED
  BY <1>1, <1>4, <1>6, FS_Surjection

LEMMA AsManyArrive ==
  ASSUME ExchangeInv, phase # "waiting", NEW t, t # "MTUDiscoveryPadding"
  PROVE  /\ Cardinality(WiredOf(t)) = Cardinality(ItemsOf(t))
         /\ WiredOf(t) = {} <=> ItemsOf(t) = {}
<1>1. WiredOf(t) \in SUBSET DOMAIN wire
  BY DEF WiredOf
<1> QED
  BY <1>1, ItemsArrive, SameNumber

\* The types of what the peer looks at.
LEMMA HandledAre ==
  ASSUME ExchangeInv
  PROVE  /\ msg \in Reader!MessageDescriptor /\ msg.required \cup msg.oneOf \subseteq msg.members
         /\ Reader!Handled \subseteq Type
         /\ \A t \in Reader!Handled : Reader!IsDescriptor(Element[t])
         /\ msg.required \cup msg.oneOf \subseteq Reader!Handled
<1>1. msg \in UNION {Peers(l) : l \in Loads}
  BY DEF ExchangeInv
<1>2. msg \in Reader!MessageDescriptor /\ msg.required \cup msg.oneOf \subseteq msg.members
  BY <1>1, PeersAreReaders
<1>3. Reader!Handled \subseteq Type
  BY <1>2 DEF Reader!MessageDescriptor, Reader!Handled
<1> QED
  BY <1>2, <1>3, PeersAreReaders DEF Reader!Handled

\* Every element is good exactly if every item the peer looks at is.
ItemGood(o, t) == IsValid(t, ItemAt(o))

FramesGood ==
  \A k \in Reader!Visible :
    LET f == buf.frames[k] IN
    IF f.type \in Reader!Handled THEN Reader!HeaderOk(f) /\ f.body = "ok" ELSE Reader!Fits(f)

LEMMA GoodAsMeant ==
  ASSUME ExchangeInv, phase # "waiting"
  PROVE  FramesGood <=> \A t \in Reader!Handled : \A o \in ItemsOf(t) : ItemGood(o, t)
<1>1. ASSUME NEW t \in Reader!Handled, t # "MTUDiscoveryPadding", NEW k \in WiredOf(t)
      PROVE  Reader!HeaderOk(buf.frames[k]) <=> ItemGood(OriginOf(wire[k]), t)
  <2>1. k \in DOMAIN wire /\ wire[k].type = t
    BY DEF WiredOf
  <2>2. /\ buf.frames[k].type = t /\ buf.frames[k].len = wire[k].len
        /\ buf.frames[k].ok = wire[k].ok /\ Reader!Fits(buf.frames[k])
    BY <2>1, Arrived
  <2>3. wire[k].len \in Nat /\ Element[t].minLen \in Nat /\ Element[t].maxLen \in Nat
    BY <2>1, WireFacts, HandledAre DEF ExchangeInv, Reader!IsDescriptor
  <2>4. wire[k].len \in Element[t].minLen .. Element[t].maxLen
          <=> wire[k].len >= Element[t].minLen /\ wire[k].len <= Element[t].maxLen
    BY <2>3
  <2>5. /\ ItemAt(OriginOf(wire[k])).len = wire[k].len
        /\ ItemAt(OriginOf(wire[k])).ok = wire[k].ok
    BY <1>1, ItemsArrive
  <2> QED
    BY <2>2, <2>4, <2>5 DEF Reader!HeaderOk, ItemGood, IsValid
<1>2. ASSUME FramesGood, NEW t \in Reader!Handled, NEW o \in ItemsOf(t)
      PROVE  ItemGood(o, t)
  <2>1. t # "MTUDiscoveryPadding"
    BY <1>2, NoPaddingWriter
  <2>2. PICK k \in WiredOf(t) : OriginOf(wire[k]) = o
    BY <1>2, <2>1, ItemsArrive
  <2>3. k \in Reader!Visible /\ buf.frames[k].type = t
    BY Arrived DEF WiredOf
  <2>4. Reader!HeaderOk(buf.frames[k])
    BY <1>2, <2>3 DEF FramesGood
  <2> QED
    BY <1>1, <1>2, <2>1, <2>2, <2>4
<1>3. ASSUME \A t \in Reader!Handled : \A o \in ItemsOf(t) : ItemGood(o, t)
      PROVE  FramesGood
  <2> SUFFICES ASSUME NEW k \in DOMAIN wire, buf.frames[k].type \in Reader!Handled
               PROVE  Reader!HeaderOk(buf.frames[k])
    BY Arrived DEF FramesGood
  <2>1. k \in WiredOf(buf.frames[k].type)
    BY Arrived DEF WiredOf
  <2>2. CASE buf.frames[k].type = "MTUDiscoveryPadding"
    BY <2>1, <2>2, PaddingIsTaken
  <2>3. CASE buf.frames[k].type # "MTUDiscoveryPadding"
    BY <1>1, <1>3, <2>1, <2>3, ItemsArrive
  <2> QED
    BY <2>2, <2>3
<1> QED
  BY <1>2, <1>3

\* What is known of the writers of one type.
LEMMA WritersAre ==
  ASSUME ExchangeInv
  PROVE  /\ Len(sender.order) \in Nat /\ DOMAIN sender.order = 1 .. Len(sender.order)
         /\ \A i \in DOMAIN sender.order :
              i \in DOMAIN parts /\ parts[i].type = sender.order[i]
         /\ \A i \in DOMAIN parts :
              i \notin DOMAIN sender.order => parts[i].type \in sender.optional
         /\ \A i \in DOMAIN parts :
              /\ Len(parts[i].items) \in Nat
              /\ DOMAIN parts[i].items = 1 .. Len(parts[i].items)
              /\ Element[parts[i].type].kind = "single" => Len(parts[i].items) = 1
              /\ Element[parts[i].type].kind = "nested" => Len(parts[i].items) <= 1
<1>1. /\ IsLoad(load) /\ parts \in Seq(ElementWriter) /\ Len(parts) = Len(load.parts)
  BY DEF ExchangeInv, WriterInv, TypeOK, Known
<1>2. /\ Len(sender.order) \in Nat /\ DOMAIN sender.order = 1 .. Len(sender.order)
      /\ Len(sender.order) <= Len(parts)
  BY <1>1 DEF IsLoad, MessageSender, sender
<1>3. /\ DOMAIN parts = 1 .. Len(parts) /\ Len(parts) \in Nat
      /\ \A i \in 1 .. Len(parts) : parts[i].items \in Seq(Item)
  BY <1>1, PartSizesFacts
<1>4. \A i \in 1 .. Len(sender.order) : i \in 1 .. Len(parts) /\ i <= Len(sender.order)
  BY <1>2, <1>3
<1>5. \A i \in 1 .. Len(parts) : i \notin 1 .. Len(sender.order) => ~(i <= Len(sender.order))
  BY <1>2, <1>3
<1>6. \A i \in 1 .. Len(parts) :
        /\ Len(parts[i].items) \in Nat
        /\ DOMAIN parts[i].items = 1 .. Len(parts[i].items)
  BY <1>3
<1>7. \A i \in 1 .. Len(parts) :
        /\ Element[parts[i].type].kind = "single" => Len(parts[i].items) = 1
        /\ Element[parts[i].type].kind = "nested" => Len(parts[i].items) <= 1
        /\ IF i <= Len(sender.order) THEN parts[i].type = sender.order[i]
                                     ELSE parts[i].type \in sender.optional
  BY <1>3 DEF ExchangeInv, OwnParts, HasItsItems
<1> QED
  BY <1>2, <1>3, <1>4, <1>5, <1>6, <1>7

\* A nested element that is not optional is written once at most.
LEMMA NestedOnce ==
  ASSUME ExchangeInv, NEW t, Element[t].kind = "nested", t \notin sender.optional,
         NEW a \in ItemsOf(t), NEW b \in ItemsOf(t)
  PROVE  a = b
<1>1. PICK i \in DOMAIN parts : \E k \in DOMAIN parts[i].items : parts[i].type = t /\ a = <<i, k>>
  BY ItemsOfFacts
<1>2. PICK j \in DOMAIN parts : \E k \in DOMAIN parts[j].items : parts[j].type = t /\ b = <<j, k>>
  BY ItemsOfFacts
<1>3. i = j
  <2>1. i \in DOMAIN sender.order /\ j \in DOMAIN sender.order
    BY <1>1, <1>2, WritersAre
  <2>2. sender.order[i] = sender.order[j]
    BY <1>1, <1>2, <2>1, WritersAre
  <2> QED
    BY <2>1, <2>2, NoPaddingWriter DEF SidesAgree
<1>4. \A k \in DOMAIN parts[i].items : k = 1
  BY <1>1, WritersAre
<1> QED
  BY <1>1, <1>2, <1>3, <1>4

LEMMA NestedArrivesOnce ==
  ASSUME ExchangeInv, phase # "waiting", NEW t, t # "MTUDiscoveryPadding",
         Element[t].kind = "nested", t \notin sender.optional,
         NEW j \in WiredOf(t), NEW k \in WiredOf(t)
  PROVE  j = k
<1>1. OriginOf(wire[j]) = OriginOf(wire[k])
  BY ItemsArrive, NestedOnce
<1>2. j \in DOMAIN wire /\ k \in DOMAIN wire
  BY DEF WiredOf
<1> QED
  BY <1>1, <1>2, OriginsDiffer
-----------------------------------------------------------------------------
(***************************************************************************)
(* The verdict.                                                            *)
(***************************************************************************)

\* The operators of an instance are those of this module.
LEMMA SameOperators ==
  /\ \A S : Reader!Cardinality(S) = Cardinality(S)
  /\ \A S : Reader!Max(S) = Max(S)
BY DEF Reader!Cardinality, Cardinality, Reader!Max, Max

\* No table overflows exactly if the application has put in no more.
RoomFor(t) ==
  /\ IsArray(t) => Cardinality(ItemsOf(t)) <= Element[t].cap
  /\ Element[t].kind = "nested" => \A o \in ItemsOf(t) : ItemAt(o).subs <= Element[t].cap

LEMMA ReaderTyped ==
  ASSUME ExchangeInv, phase # "waiting"
  PROVE  /\ Reader!TypeOK
         /\ \A t : WiredOf(t) \in SUBSET DOMAIN buf.frames
BY Arrived DEF ExchangeInv, Reader!ReaderInv, Reader!IInv, WiredOf

LEMMA LoadAsMeant ==
  ASSUME ExchangeInv, phase # "waiting", NEW t \in Reader!Handled
  PROVE  Reader!Load(t) <= Element[t].cap <=> RoomFor(t)
<1>1. /\ Element[t].kind \in {"single", "array", "nested"} /\ Element[t].cap \in Nat
      /\ t \in Type
  BY HandledAre DEF Reader!IsDescriptor
<1>2. CASE Element[t].kind = "single"
  <2>1. Reader!Load(t) = 0
    BY <1>2 DEF Reader!Load, Reader!Kind
  <2> QED
    BY <1>1, <1>2, <2>1 DEF RoomFor, IsArray
<1>3. CASE Element[t].kind = "array"
  <2>1. t # "MTUDiscoveryPadding"
    BY <1>3, ElementAssumption
  <2>2. Reader!Load(t) = Cardinality(WiredOf(t))
    BY <1>3, Arrived, SameOperators DEF Reader!Load, Reader!Kind
  <2> QED
    BY <1>3, <2>1, <2>2, AsManyArrive DEF RoomFor, IsArray
<1>4. CASE Element[t].kind = "nested"
  <2>1. t # "MTUDiscoveryPadding"
    BY <1>4, ElementAssumption
  <2>2. RoomFor(t) <=> \A k \in WiredOf(t) : buf.frames[k].subs <= Element[t].cap
    <3>1. \A k \in WiredOf(t) : /\ OriginOf(wire[k]) \in ItemsOf(t)
                                /\ ItemAt(OriginOf(wire[k])).subs = buf.frames[k].subs
      BY <2>1, ItemsArrive, Arrived DEF WiredOf
    <3>2. \A o \in ItemsOf(t) : \E k \in WiredOf(t) : OriginOf(wire[k]) = o
      BY <2>1, ItemsArrive
    <3>3. RoomFor(t) <=> \A o \in ItemsOf(t) : ItemAt(o).subs <= Element[t].cap
      BY <1>4 DEF RoomFor, IsArray
    <3> QED
      BY <3>1, <3>2, <3>3
  <2>3. CASE Element[t].resets # "never"
    <3>1. Reader!Load(t) = Max({0} \cup {buf.frames[k].subs : k \in WiredOf(t)})
      BY <1>4, <2>3, Arrived, SameOperators DEF Reader!Load, Reader!Kind
    <3>2. Max({0} \cup {buf.frames[k].subs : k \in WiredOf(t)}) <= Element[t].cap
            <=> \A k \in WiredOf(t) : buf.frames[k].subs <= Element[t].cap
      BY <1>1, ReaderTyped, PeersAreReaders, SameOperators, Reader!GreatestFits
    <3> QED
      BY <2>2, <3>1, <3>2
  <2>4. CASE Element[t].resets = "never"
    <3>1. t \notin sender.optional
      BY <1>4, <2>4, NoPaddingWriter DEF SidesAgree
    <3>2. Reader!Load(t) = Cardinality(Reader!SubElements(WiredOf(t)))
      BY <1>4, <2>4, Arrived, SameOperators DEF Reader!Load, Reader!Kind
    <3>3. CASE WiredOf(t) = {}
      <4>1. Reader!SubElements({}) = {}
        BY DEF Reader!SubElements
      <4>2. Reader!Load(t) = 0
        BY <3>2, <3>3, <4>1, FS_EmptySet
      <4> QED
        BY <1>1, <2>2, <3>3, <4>2
    <3>4. ASSUME NEW k \in WiredOf(t)
          PROVE  Reader!Load(t) <= Element[t].cap <=> RoomFor(t)
      <4>1. WiredOf(t) = {k}
        BY <1>4, <2>1, <3>1, NestedArrivesOnce
      <4>2. k \in DOMAIN buf.frames
        BY ReaderTyped
      <4>3. Cardinality(Reader!SubElements({k})) = buf.frames[k].subs
        BY <4>2, ReaderTyped, PeersAreReaders, SameOperators,
           Reader!SubElementsOfOne
      <4> QED
        BY <2>2, <3>2, <4>1, <4>3
    <3> QED
      BY <3>3, <3>4
  <2> QED
    BY <2>3, <2>4
<1> QED
  BY <1>1, <1>2, <1>3, <1>4

\* What the peer requires it gets exactly if there is an item of it that
\* counts.
Counted(o, t) == NeedsSubs(t) => ItemAt(o).subs > 0

LEMMA DeliveredAsMeant ==
  ASSUME ExchangeInv, phase # "waiting", NEW t \in Type, t # "MTUDiscoveryPadding",
         NeedsSubs(t) => t \notin sender.optional
  PROVE  Reader!Delivered(t) <=> \E o \in ItemsOf(t) : Counted(o, t)
<1>1. CASE ~NeedsSubs(t)
  <2>1. Reader!Delivered(t) <=> WiredOf(t) # {}
    BY <1>1, Arrived DEF Reader!Delivered, NeedsSubs, Reader!Kind
  <2> QED
    BY <1>1, <2>1, AsManyArrive DEF Counted
<1>2. CASE NeedsSubs(t)
  <2>1. CASE WiredOf(t) = {}
    BY <2>1, Arrived, AsManyArrive DEF Reader!Delivered
  <2>2. ASSUME NEW k \in WiredOf(t)
        PROVE  Reader!Delivered(t) <=> \E o \in ItemsOf(t) : Counted(o, t)
    <3>0. k \in DOMAIN buf.frames /\ buf.frames[k].subs = wire[k].subs
      BY Arrived DEF WiredOf
    <3>1. WiredOf(t) = {k}
      BY <1>2, NestedArrivesOnce DEF NeedsSubs
    <3>2. Max(WiredOf(t)) = k
      <4>1. Max(WiredOf(t)) \in WiredOf(t)
        BY ReaderTyped, PeersAreReaders, SameOperators, Reader!LastOfSome
      <4> QED
        BY <3>1, <4>1
    <3>3. Element[t].resets = "never" => Reader!Load(t) = buf.frames[k].subs
      <4>1. Element[t].resets = "never" => Reader!Load(t) = Cardinality(Reader!SubElements({k}))
        BY <1>2, <3>1, Arrived, SameOperators DEF Reader!Load, Reader!Kind, NeedsSubs
      <4>2. Cardinality(Reader!SubElements({k})) = buf.frames[k].subs
        BY <3>0, ReaderTyped, PeersAreReaders, SameOperators,
           Reader!SubElementsOfOne
      <4> QED
        BY <4>1, <4>2
    <3>4. Reader!Delivered(t) <=> buf.frames[k].subs > 0
      BY <1>2, <3>1, <3>2, <3>3, Arrived, SameOperators DEF Reader!Delivered, Reader!Kind, NeedsSubs
    <3>5. /\ OriginOf(wire[k]) \in ItemsOf(t)
          /\ ItemAt(OriginOf(wire[k])).subs = buf.frames[k].subs
      BY <3>0, ItemsArrive
    <3>6. \A o \in ItemsOf(t) : o = OriginOf(wire[k])
      BY <3>1, ItemsArrive
    <3> QED
      BY <1>2, <3>4, <3>5, <3>6 DEF Counted
  <2> QED
    BY <2>1, <2>2
<1> QED
  BY <1>1, <1>2

\* The items of what is required are those of one writer of the constructor.
LEMMA RequiredAsMeant ==
  ASSUME ExchangeInv, phase # "waiting", NEW t \in msg.required,
         NEW i \in DOMAIN sender.order, sender.order[i] = t
  PROVE  Reader!Delivered(t) <=>
           \E k \in DOMAIN parts[i].items : NeedsSubs(t) => parts[i].items[k].subs > 0
<1>1. /\ t \in Taken(sender) /\ t \notin msg.oneOf /\ t \in Type
      /\ t # "MTUDiscoveryPadding"
      /\ t \in sender.optional => Element[t].kind = "single"
  BY NoPaddingWriter, HandledAre DEF SidesAgree, Taken
<1>2. i \in DOMAIN parts /\ parts[i].type = t
  BY WritersAre
<1>3. Reader!Delivered(t) <=> \E o \in ItemsOf(t) : Counted(o, t)
  BY <1>1, DeliveredAsMeant DEF NeedsSubs
<1>4. ASSUME NEW k \in DOMAIN parts[i].items, NeedsSubs(t) => parts[i].items[k].subs > 0
      PROVE  \E o \in ItemsOf(t) : Counted(o, t)
  <2>1. <<i, k>> \in ItemsOf(t)
    BY <1>2, ItemsOfFacts
  <2>2. ItemAt(<<i, k>>) = parts[i].items[k]
    BY DEF ItemAt
  <2> QED
    BY <1>4, <2>1, <2>2 DEF Counted
<1>5. ASSUME NEW o \in ItemsOf(t), Counted(o, t)
      PROVE  \E k \in DOMAIN parts[i].items : NeedsSubs(t) => parts[i].items[k].subs > 0
  <2>1. PICK j \in DOMAIN parts : \E k \in DOMAIN parts[j].items : parts[j].type = t /\ o = <<j, k>>
    BY ItemsOfFacts
  <2>2. PICK k \in DOMAIN parts[j].items : parts[j].type = t /\ o = <<j, k>>
    BY <2>1
  <2>3. CASE j \in DOMAIN sender.order
    <3>1. j = i
      BY <2>2, <2>3, WritersAre, NoPaddingWriter DEF SidesAgree
    <3> QED
      BY <1>5, <2>2, <3>1 DEF Counted, ItemAt
  <2>4. CASE j \notin DOMAIN sender.order
    <3>1. Element[t].kind = "single"
      BY <1>1, <2>2, <2>4, WritersAre
    <3>2. Len(parts[i].items) = 1 /\ 1 \in DOMAIN parts[i].items
      BY <1>2, <3>1, WritersAre
    <3> QED
      BY <3>1, <3>2 DEF NeedsSubs
  <2> QED
    BY <2>3, <2>4
<1> QED
  BY <1>3, <1>4, <1>5

\* The reader's own view of what is well formed is the application's of what
\* can be taken.
LEMMA WellFormedAsMeant ==
  ASSUME ExchangeInv, phase # "waiting"
  PROVE  Reader!WellFormed <=> Takeable
<1>1. FramesGood <=> \A t \in Reader!Handled : \A o \in ItemsOf(t) : ItemGood(o, t)
  BY GoodAsMeant
<1>2. \A t \in Reader!Handled : Reader!Load(t) <= Element[t].cap <=> RoomFor(t)
  BY LoadAsMeant
<1>3. (\A t \in msg.required : Reader!Delivered(t)) <=>
        \A i \in 1 .. Len(sender.order) :
          \/ parts[i].type \in msg.oneOf
          \/ \E k \in DOMAIN parts[i].items :
               NeedsSubs(parts[i].type) => parts[i].items[k].subs > 0
  <2>1. \A t \in msg.required :
          \E i \in DOMAIN sender.order : sender.order[i] = t /\ t \notin msg.oneOf
    BY NoPaddingWriter DEF SidesAgree, Taken
  <2>2. \A i \in DOMAIN sender.order :
          sender.order[i] \in msg.required \/ sender.order[i] \in msg.oneOf
    BY NoPaddingWriter DEF SidesAgree, Taken
  <2>3. \A i \in DOMAIN sender.order : parts[i].type = sender.order[i]
    BY WritersAre
  <2>4. \A i \in DOMAIN sender.order : sender.order[i] \in msg.required =>
          (Reader!Delivered(sender.order[i]) <=>
             \E k \in DOMAIN parts[i].items :
               NeedsSubs(sender.order[i]) => parts[i].items[k].subs > 0)
    BY RequiredAsMeant
  <2>5. DOMAIN sender.order = 1 .. Len(sender.order)
    BY WritersAre
  <2> QED
    BY <2>1, <2>2, <2>3, <2>4, <2>5, Zenon
<1>4. {t \in msg.oneOf : Reader!Delivered(t)} = {t \in msg.oneOf : ItemsOf(t) # {}}
  <2>1. ASSUME NEW t \in msg.oneOf
        PROVE  Reader!Delivered(t) <=> ItemsOf(t) # {}
    <3>1. t \in Type /\ ~NeedsSubs(t) /\ t # "MTUDiscoveryPadding"
      BY NoPaddingWriter, HandledAre, ElementAssumption DEF SidesAgree, IsArray, NeedsSubs
    <3> QED
      BY <3>1, DeliveredAsMeant DEF Counted
  <2> QED
    BY <2>1
<1>5. Reader!WellFormed <=>
        /\ FramesGood
        /\ \A t \in Reader!Handled : Reader!Load(t) <= Element[t].cap
        /\ \A t \in msg.required : Reader!Delivered(t)
        /\ msg.oneOf # {} => Cardinality({t \in msg.oneOf : Reader!Delivered(t)}) = 1
  BY SameOperators DEF Reader!WellFormed, FramesGood
<1>6. Takeable <=>
        /\ \A t \in Reader!Handled : \A o \in ItemsOf(t) : ItemGood(o, t)
        /\ \A t \in Reader!Handled : RoomFor(t)
        /\ \A i \in 1 .. Len(sender.order) :
             \/ parts[i].type \in msg.oneOf
             \/ \E k \in DOMAIN parts[i].items :
                  NeedsSubs(parts[i].type) => parts[i].items[k].subs > 0
        /\ msg.oneOf # {} => Cardinality({t \in msg.oneOf : ItemsOf(t) # {}}) = 1
  BY SameReading DEF Takeable, ItemGood, RoomFor
<1> QED
  BY <1>1, <1>2, <1>3, <1>4, <1>5, <1>6

\* A message is accepted exactly if it was put together rightly: whatever the
\* application has, whatever it does to it, whichever optional readers the
\* peer has.
THEOREM AcceptedHolds == ExchangeSpec => []AcceptedAsMeant
<1>1. ExchangeInv => AcceptedAsMeant
  <2> SUFFICES ASSUME ExchangeInv, phase \in {"accepted", "rejected"}
               PROVE  phase = "accepted" <=> Takeable
    BY DEF AcceptedAsMeant
  <2>1. phase # "waiting" /\ phase # "reading"
    OBVIOUS
  <2>2. phase = "accepted" <=> Reader!WellFormed
    BY <2>1, Arrived DEF ExchangeInv, Reader!ReaderInv, Reader!VerdictIsExact
  <2> QED
    BY <2>1, <2>2, WellFormedAsMeant
<1> QED
  BY <1>1, ExchangeHolds, PTL
-----------------------------------------------------------------------------
(***************************************************************************)
(* What the peer has.                                                      *)
(***************************************************************************)
LEMMA LastIsLatest ==
  ASSUME ExchangeInv, phase # "waiting", NEW t, t # "MTUDiscoveryPadding", WiredOf(t) # {},
         NEW m, m = Max(WiredOf(t))
  PROVE  m \in WiredOf(t) /\ Latest(OriginOf(wire[m]), t)
<1>1. m \in WiredOf(t) /\ \A k \in WiredOf(t) : k <= m
  BY ReaderTyped, PeersAreReaders, SameOperators, Reader!LastOfSome
<1>2. \A k \in WiredOf(t) : k \in DOMAIN wire /\ k \in Nat
  BY WireFacts DEF WiredOf, ExchangeInv
<1>3. ASSUME NEW x \in ItemsOf(t)
      PROVE  x = OriginOf(wire[m]) \/ Before(x, OriginOf(wire[m]))
  <2>1. PICK k \in WiredOf(t) : OriginOf(wire[k]) = x
    BY ItemsArrive
  <2>2. k = m \/ k < m
    BY <1>1, <1>2
  <2> QED
    BY <1>1, <1>2, <2>1, <2>2, OriginsDiffer
<1>4. OriginOf(wire[m]) \in ItemsOf(t)
  BY <1>1, ItemsArrive
<1> QED
  BY <1>1, <1>3, <1>4 DEF Latest

LEMMA OriginOfPointer ==
  ASSUME NEW p, NEW k, p[2] = k
  PROVE  Origin(p) = OriginOf(wire[k])
BY DEF Origin, OriginOf

LEMMA ReaderHas ==
  ASSUME ExchangeInv, phase = "accepted", NEW t \in Reader!Handled
  PROVE  /\ Element[t].kind = "single" =>
              IF WiredOf(t) = {} THEN store[t] = <<>>
              ELSE store[t] = <<<<1, Max(WiredOf(t))>>>>
         /\ Element[t].kind = "array" =>
              /\ {store[t][k][2] : k \in DOMAIN store[t]} = WiredOf(t)
              /\ \A j, k \in DOMAIN store[t] : j < k => store[t][j][2] < store[t][k][2]
         /\ Element[t].kind = "nested" /\ WiredOf(t) # {} =>
              /\ header[t] = <<1, Max(WiredOf(t))>>
              /\ Element[t].resets # "never" \/ WiredOf(t) = {Max(WiredOf(t))} =>
                   Len(store[t]) = buf.frames[Max(WiredOf(t))].subs
<1>1. Reader!ReaderInv /\ call = 1 /\ Reader!VisibleOf(t) = WiredOf(t)
  BY Arrived DEF ExchangeInv
<1>2. Reader!Max(WiredOf(t)) = Max(WiredOf(t))
  BY SameOperators
<1>3. /\ Reader!Kind(t) = Element[t].kind
      /\ \A i : Reader!Pointer(i) = <<1, i>>
  BY <1>1 DEF Reader!Kind, Reader!Pointer
<1>4. /\ Reader!Kind(t) = "single" =>
           IF Reader!VisibleOf(t) = {} THEN store[t] = <<>>
           ELSE store[t] = <<Reader!Pointer(Reader!Max(Reader!VisibleOf(t)))>>
      /\ Reader!Kind(t) = "array" =>
           /\ {store[t][k][2] : k \in DOMAIN store[t]} = Reader!VisibleOf(t)
           /\ \A j, k \in DOMAIN store[t] : j < k => store[t][j][2] < store[t][k][2]
      /\ Reader!Kind(t) = "nested" /\ Reader!VisibleOf(t) # {} =>
           /\ header[t] = Reader!Pointer(Reader!Max(Reader!VisibleOf(t)))
           /\ Element[t].resets # "never"
                \/ Reader!VisibleOf(t) = {Reader!Max(Reader!VisibleOf(t))} =>
                Len(store[t]) = buf.frames[Reader!Max(Reader!VisibleOf(t))].subs
  BY <1>1, PeersAreReaders, Reader!AcceptedHolds
<1> QED
  BY <1>1, <1>2, <1>3, <1>4

LEMMA SingleArrives ==
  ASSUME ExchangeInv, phase = "accepted", NEW t \in Reader!Handled,
         t # "MTUDiscoveryPadding", Element[t].kind = "single"
  PROVE  SingleAsSent(t)
<1>1. CASE WiredOf(t) = {}
  BY <1>1, ReaderHas, AsManyArrive DEF SingleAsSent
<1>2. CASE WiredOf(t) # {}
  <2>1. PICK m : m = Max(WiredOf(t))
    OBVIOUS
  <2>2. Latest(OriginOf(wire[m]), t)
    BY <1>2, <2>1, LastIsLatest
  <2>3. store[t] = <<<<1, m>>>>
    BY <1>2, <2>1, ReaderHas
  <2>4. Len(store[t]) = 1 /\ store[t][1][2] = m
    BY <2>3
  <2>5. ItemsOf(t) # {}
    BY <1>2, AsManyArrive
  <2> QED
    BY <2>2, <2>4, <2>5, OriginOfPointer DEF SingleAsSent
<1> QED
  BY <1>1, <1>2

LEMMA ArrayArrives ==
  ASSUME ExchangeInv, phase = "accepted", NEW t \in Reader!Handled,
         t # "MTUDiscoveryPadding", Element[t].kind = "array"
  PROVE  ArrayAsSent(t)
<1>1. /\ {store[t][k][2] : k \in DOMAIN store[t]} = WiredOf(t)
      /\ \A j, k \in DOMAIN store[t] : j < k => store[t][j][2] < store[t][k][2]
  BY ReaderHas
<1>2. \A k \in DOMAIN store[t] :
        store[t][k][2] \in WiredOf(t) /\ Origin(store[t][k]) = OriginOf(wire[store[t][k][2]])
  BY <1>1, OriginOfPointer
<1>3. {Origin(store[t][k]) : k \in DOMAIN store[t]} = ItemsOf(t)
  <2>1. \A k \in DOMAIN store[t] : Origin(store[t][k]) \in ItemsOf(t)
    BY <1>2, ItemsArrive
  <2>2. ASSUME NEW o \in ItemsOf(t)
        PROVE  \E k \in DOMAIN store[t] : Origin(store[t][k]) = o
    <3>1. PICK h \in WiredOf(t) : OriginOf(wire[h]) = o
      BY ItemsArrive
    <3>2. PICK k \in DOMAIN store[t] : store[t][k][2] = h
      BY <1>1
    <3> QED
      BY <1>2, <3>1, <3>2
  <2> QED
    BY <2>1, <2>2
<1>4. ASSUME NEW j \in DOMAIN store[t], NEW k \in DOMAIN store[t], j < k
      PROVE  Before(Origin(store[t][j]), Origin(store[t][k]))
  <2>1. /\ store[t][j][2] \in DOMAIN wire /\ store[t][k][2] \in DOMAIN wire
        /\ store[t][j][2] < store[t][k][2]
    BY <1>1, <1>2, <1>4 DEF WiredOf
  <2> QED
    BY <1>2, <2>1, OriginsDiffer
<1> QED
  BY <1>3, <1>4 DEF ArrayAsSent

LEMMA NestedArrives ==
  ASSUME ExchangeInv, phase = "accepted", NEW t \in Reader!Handled,
         t # "MTUDiscoveryPadding", Element[t].kind = "nested"
  PROVE  NestedAsSent(t)
<1> SUFFICES ASSUME ItemsOf(t) # {}
             PROVE  /\ Latest(Origin(header[t]), t)
                    /\ Len(store[t]) = ItemAt(Origin(header[t])).subs
  BY DEF NestedAsSent
<1>1. WiredOf(t) # {}
  BY AsManyArrive
<1>2. PICK m : m = Max(WiredOf(t))
  OBVIOUS
<1>3. m \in WiredOf(t) /\ Latest(OriginOf(wire[m]), t)
  BY <1>1, <1>2, LastIsLatest
<1>4. header[t] = <<1, m>>
  BY <1>1, <1>2, ReaderHas
<1>5. Origin(header[t]) = OriginOf(wire[m])
  BY <1>4, OriginOfPointer
<1>6. Element[t].resets = "never" => WiredOf(t) = {m}
  <2>1. Element[t].resets = "never" => t \notin sender.optional
    BY NoPaddingWriter DEF SidesAgree
  <2> QED
    BY <1>3, <2>1, NestedArrivesOnce
<1>7. Len(store[t]) = buf.frames[m].subs
  BY <1>1, <1>2, <1>6, ReaderHas
<1>8. buf.frames[m].subs = ItemAt(OriginOf(wire[m])).subs
  BY <1>3, Arrived, ItemsArrive DEF WiredOf
<1> QED
  BY <1>3, <1>5, <1>7, <1>8

LEMMA RestIsSkipped ==
  ASSUME ExchangeInv, phase = "accepted"
  PROVE  unknown = Cardinality(UNION {ItemsOf(t) : t \in Type \ Reader!Handled})
<1>1. PICK K : K = {k \in DOMAIN wire : wire[k].type \notin Reader!Handled}
  OBVIOUS
<1> DEFINE I == UNION {ItemsOf(t) : t \in Type \ Reader!Handled}
<1>2. \A o : o \in I <=> \E t \in Type \ Reader!Handled : o \in ItemsOf(t)
  OBVIOUS
<1> HIDE DEF I
<1>3. unknown = Cardinality(K)
  <2>1. unknown = Reader!Cardinality(
                    {k \in Reader!Visible : buf.frames[k].type \notin Reader!Handled})
    BY Arrived, PeersAreReaders, Reader!AcceptedSkips DEF ExchangeInv
  <2>2. K = {k \in Reader!Visible : buf.frames[k].type \notin Reader!Handled}
    BY <1>1, Arrived
  <2> QED
    BY <2>1, <2>2, SameOperators
<1>4. ASSUME NEW k \in K
      PROVE  OriginOf(wire[k]) \in I
  <2>1. /\ k \in WiredOf(wire[k].type) /\ wire[k].type \notin Reader!Handled
        /\ wire[k].type \in Type
    BY <1>1, WireFacts DEF WiredOf, ExchangeInv
  <2>2. wire[k].type # "MTUDiscoveryPadding"
    BY <2>1, PaddingIsTaken DEF Reader!Handled
  <2>3. OriginOf(wire[k]) \in ItemsOf(wire[k].type)
    BY <2>1, <2>2, ItemsArrive
  <2> QED
    BY <1>2, <2>1, <2>3
<1>5. ASSUME NEW o \in I
      PROVE  \E k \in K : OriginOf(wire[k]) = o
  <2>1. PICK t \in Type \ Reader!Handled : o \in ItemsOf(t)
    BY <1>2
  <2>2. t # "MTUDiscoveryPadding"
    BY <2>1, NoPaddingWriter
  <2>3. PICK k \in WiredOf(t) : OriginOf(wire[k]) = o
    BY <2>1, <2>2, ItemsArrive
  <2> QED
    BY <1>1, <2>1, <2>3 DEF WiredOf
<1>6. K \in SUBSET DOMAIN wire
  BY <1>1
<1> QED
  BY <1>3, <1>4, <1>5, <1>6, SameNumber DEF I

\* What the peer has of an accepted message is what was put in: nothing is
\* lost, doubled or exchanged, and arrays keep their order.
THEOREM ReceivedHolds == ExchangeSpec => []ReceivedAsSent
<1>1. ExchangeInv => ReceivedAsSent
  <2> SUFFICES ASSUME ExchangeInv, phase = "accepted" PROVE ReceivedAsSent
    BY DEF ReceivedAsSent
  <2>1. ASSUME NEW t \in Peer!Handled \ {"MTUDiscoveryPadding"}
        PROVE  /\ Element[t].kind = "array" => ArrayAsSent(t)
               /\ Element[t].kind = "single" => SingleAsSent(t)
               /\ Element[t].kind = "nested" => NestedAsSent(t)
               /\ Element[t].kind \in {"single", "array", "nested"}
    BY SameReading, ArrayArrives, SingleArrives, NestedArrives, HandledAre DEF Reader!IsDescriptor
  <2>2. unknown = Cardinality(UNION {ItemsOf(t) : t \in Type \ Peer!Handled})
    BY SameReading, RestIsSkipped
  <2> QED
    BY <2>1, <2>2 DEF ReceivedAsSent
<1> QED
  BY <1>1, ExchangeHolds, PTL
=============================================================================
