# A TLA+ model of vi-capwap-protocol

vi-capwap-protocol is a C++17 library that writes and reads the control
messages of CAPWAP (RFC 5415) and of its IEEE 802.11 binding (RFC 5416). It is
a codec and nothing else: there are no threads, no timers, no sockets, nothing
is stored, and the CAPWAP state machine is left to the application. Reading is
zero-copy, so that every `Readable...` object is a set of pointers into the
buffer it was given; what is hard about it is therefore not concurrency but

  - sequences: elements in any order and number, one object used for message
    after message, nothing of which is reset;
  - partial failure: a reader that gives up half way keeps what it has;
  - boundaries: lengths that end on, before or behind an end, tables that are
    full, and cursors that are moved before they are checked.

The modules below model that control flow; names follow the source. Paths are
relative to the repository.

## Inventory

| Component | State | Operations | Hard part | What makes it correct |
|---|---|---|---|---|
| **Message readers**, `src/Readable<Message>`, 20 of them | one reader object per element type, the map of optional readers, `unknown_elements` | `Deserialize`: a loop that dispatches on the element type, then an answer | order, repetition, unknown types, early exits, reuse of the object | cursor on element boundaries; the answer is exactly what the buffer deserves; what is held is what was sent |
| **Element readers**, `src/elements/**`, 66 of them | a pointer (single), a table of pointers and `count` (array) | `Deserialize`, `Get`, `IsPresent` | length bounds, capacity | only validated elements are kept, tables do not overflow |
| **Nested element readers**: AC Descriptor, WTP Board Data, WTP Descriptor, Add / Delete MAC ACL Entry | header pointer, table of sub-elements, `count`; WTP Descriptor also `encr_items` | a loop over sub-elements | header overwritten first, `count` reset early, late or never, sub-elements across the end | a kept sub-element lies within its element; what `GetEncryptions` spans has been filled |
| **Decryption Error Report reader** | a table of slots, each with a table and a count of its own | as an array, filled in place | what a failed element leaves in the slot | refused elements are not shown |
| **Writable arrays**, `Writable<Element>Array` | `std::vector` of items | `Add` (replace or append), `Clear`, `Serialize` | replacing, the full table, `ASSERT` | one item per key, the last value wins, the peer takes it all |
| **Transport header**: `ClearHeader`, `DTLSHeader`, `ControlHeader`, `DataChannelKeepAlive` | three pointers of `ReadableCapwapHeader` | `Serialize`, `Deserialize` | optional parts, padding, HLEN, reuse | parts are those of this datagram; cut short means refused |
| **Message writers**, `Writable<Message>` | references to the elements, a padding computed in the constructor | constructor, `Serialize` | what the constructor works out is about arrays that can still change, 16-bit sums, `ASSERT`s on room | a probe is as long as its MTU, what was asserted still holds, the peer gets what was meant |
| **Nested element writers**: the five above, writing | header with the sum of the sub-elements' sizes, a span of them | constructor, `Serialize`, `GetTotalLength` | the length is declared in advance, in 16 bits, the count in 8 | the reader finds the sub-elements that were given, and the end |
| Field values, byte order, logging, utilities | none | getters, formatting | none | not modelled |

Interaction: an application reads a datagram with `ReadableCapwapHeader`, then
`ControlHeader`, and hands the rest of it to the `Readable<Message>` that the
type calls for. That calls one element reader after another, all of which share
the cursor `RawData::current` and the limit `RawData::end`. On the sending side
a `Writable<Message>` calls the `Serialize` of its elements in order. The only
shared state is the cursor; the only callbacks are the virtual `Deserialize`
and `Serialize` of optional elements.

## Modules

| Module | Models | State and actions |
|---|---|---|
| `MessageReader` | the loop of every `Readable<Message>::Deserialize` and the element readers as it meets them | `cursor` is `RawData::current` as an offset, `store[t]` and `header[t]` are the pointers of the reader of type `t`, `phase` is the answer; one action per way an element is taken, skipped or refused, `Finish` for the answer, `DeserializeAgain` for the next buffer |
| `CapwapElements` | the table of the 66 element readers: kind, least and greatest length, capacity, when they reset, what `Add` compares | no state |
| `CapwapMessages` | the table of the 20 messages: switch cases, optional readers, what is required | no state |
| `CapwapRFC` | what RFC 5415 and RFC 5416 lay down for each message and element, and what the real readers, `MessageReader` with the two tables above, owe to it | no state |
| `NestedReader` | the five loops over sub-elements, one turn per step, and a refinement mapping to `MessageReader` | `BeginElement`, `ReadEncryption`, `EndEncryptions`, `ReadSub`, `EndElement` and a `Reject...` for every early return |
| `DecryptionErrorReport` | the reader that keeps tables in a table | one action per exit of `Deserialize` |
| `KeyedMap` | abstract: a map that is changed key by key and sent as a whole | `Put`, `Reset`, `Stop`, `Send`, `Deliver` |
| `WritableArray` | `Add`, `Clear`, `Serialize`, and the peer's array that reads it; implements `KeyedMap` | `items`, `wire`, `got`; `AddAborts` is a failing `ASSERT` |
| `TransportHeader` | everything in front of the elements | one action per part that is read or refused, `NextPacket` for the reuse of the object |
| `CapwapWriters` | the table of the 20 writing messages: the elements of the constructor in the order of `Serialize`, which of them are held by reference and can change, what may be optional, and what `ASSERT`s ask for too much | no state |
| `MessageWriter` | an application with a `Writable<Message>`: constructor, changes, `Serialize` | `parts` are the element writers, those of the constructor first; `Construct` computes `padding`, drops invalid returned elements, or `ConstructAborts`; `Add` (appends an item, or replaces one; which of the two is left to the keys, the subject of `WritableArray`), `Clear`, `SetResult` are the application's; `WritePart` is one `Serialize` of an element, or `WriteAborts`; `wire` and `offset` are the buffer |
| `MessageExchange` | a `MessageWriter` and, with `INSTANCE`, a `MessageReader` that gets what was written | `Write`, `Deliver`, `Read` |
| `NestedWriter` | the writers of the elements with sub-elements, as functions from what is given to what is in the buffer, and `NestedReader` on it | no state of its own |
| `Sums` | the loops that add up sizes | no state |
| `MessageReaderProofs`, `MessageExchangeProofs`, `CapwapRFCProofs`, `WritableArrayProofs`, `NestedReaderProofs`, `DecryptionErrorReportProofs`, `TransportHeaderProofs` | theorems about the module of that name; in `MessageExchangeProofs` those about `MessageWriter` too, and in `NestedReaderProofs` those about `NestedWriter` | |
| `NumberFacts` | lemmas about numbers, greatest elements and sums | |
| `MC...` | instances for TLC | |

What is abstracted: a pointer is `<<call, i>>`, frame `i` of the buffer of the
`call`-th use of the object. Of an element only its type, offset, declared
length and one bit, whether its field values pass `Validate`, are kept; of a
nested one in `MessageReader` also how its body fares, which `NestedReader`
derives from the octet positions of the sub-elements. `HeaderOk` puts the
checks of one reader (room for the header, `Validate`, extent) into one
condition, because all three refuse with the same effect. A buffer ends less
than a header behind its last frame: a sender that puts more there has put
another frame there. In `NestedReader` the octets of a sub-element header that
lies across the end are whatever the model chooses, as they are in the code.

## Runs

| Run | Question | Instance |
|---|---|---|
| `message_reader` | one object, one buffer, and a second one: does the cursor keep to boundaries, is the verdict that of a declarative reading of the buffer (`VerdictIsExact`), do tables hold, is nothing kept that was not validated, does the reader hold what the current buffer says (`DecodesTheBuffer`), does every call return? | three messages that between them use every kind of reader, a required set, an optional reader, a choice of one, and an unknown type; all buffers of up to 3 frames from 8 plain or 11 nested shapes, whole or cut by 1 octet, those of up to 2 also with 3 odd octets behind or cut by 5; reuse with every pair of buffers of up to 2 frames, the first whole or cut by 1, the second whole; tables of 2 and 3, which fill up across buffers |
| `capwap_messages` | the real 20 messages and 66 elements against the RFCs | per message, with readers for all the optional elements or for none: conforming ones (rotated, reversed, with each and all optional elements, least and greatest lengths, unknown elements between) and ones with one fault, arrays of 31 to 33 more elements; those with a fault also cut by an octet, cut inside their last header, and with 3 octets behind |
| `nested_reader` | do the loops implement the step `MessageReader` takes, keep sub-elements inside, fill what is spanned, and end; do they decide and show what a reading without a loop does; do they read back what the writers write? | the five real loops with tables of 2 or 3 and 2 encryption slots; elements that end on, one before and well before their last sub-element, cut short, repeated; two buffers. What is written (`WrittenIsReadBack`): values of 0, 300, 1023 and 1024 octets, too few and too many sub-elements, 0 to 3 encryptions, vendor 0 |
| `decryption_error_report` | what a failed element leaves behind | 2 slots of 3 entries, 3 elements per buffer, 2 buffers |
| `writable_array` | does the array with its peer implement a map that is sent? | 4 keys for a table of 3, 2 values, symmetric |
| `transport_header` | parts, flags, padding, reuse | all 12 headers the library writes, whole and cut at every octet; foreign headers with every combination of flags and wrong lengths; two datagrams |
| `message_exchange` | does what the constructor worked out hold when the message is written, is the room enough, does the peer get what was meant? | the real 20 messages, 66 elements and capacities; applications that do one thing out of the ordinary: any one element invalid, too long, absent, too many; each optional element, two writers of one type, all of them; 8 MTUs around the exact size, and vendor elements whose sum exceeds 16 bits; 0 to 2 radios; two arrays of returned elements; up to 2 changes after the construction in the last three; with and without `ASSERT`; a peer with all the optional readers and one with none |
| `event_request`, `empty_texts`, `entries_count`, `header_length`, `radios_in_use` | expected violations, see Findings | as above |

Bounds. Sizes of tables (`cap`, `MaxCount`, `MaxEntries`) are 2 or 3 instead
of 8 to 1024 and the instances send one more than fits; in `capwap_messages`
they are the real ones. A loop looks at one element and at its own tables only,
so three frames meet every pair of a kept element and a failing one with one
between; two calls meet everything that is left from an earlier buffer, as no
reader keeps anything older than that apart from the table entries, which the
capacities bound and the proofs cover for any number of calls. `MaxItems` lets
a writer without `ASSERT` go one past the table of its peer. In
`message_exchange` an application does one thing out of the ordinary at a time,
because element writers know nothing of each other: the only things they share
are the cursor, which every pair of neighbours meets, and the sums. `changes`
bounds what is done to the arrays after the construction to two calls, enough
for a `Clear` and an `Add` in either order. `CHECK_DEADLOCK
FALSE` is right in every run: after its last call an object may never be used
again, and after a failed `ASSERT` the process has ended.

Fairness is `WF_vars(LoopStep)` in `MessageReader` and `NestedReader`: the
loops run in one thread and never block, so that as long as a turn is possible
it is taken. `DeserializeAgain` has no fairness: nobody has to call again. The
other modules state no liveness: a writer is called when the application likes.

The caller of `Serialize` is outside the library. The model has it provide a
buffer the message fits into, with `spare` octets behind: `RoomSuffices` says
when an `ASSERT` fails all the same. What happens in smaller buffers is left
out; most `ASSERT`s on room ask for the fixed part of the element only. Optional
elements are never `nullptr`.

Properties that are worth a second look:

  - `VerdictIsExact` compares the loop with a definition that has no loop:
    every visible element good, no table overflown, what is required there. It
    holds for an object that is used for the first time only; a used one
    accepts on what earlier buffers have left, which is what the code does.
  - `DecodesTheBuffer` holds for used objects too: of the current buffer the
    readers hold just the right pointers, whatever is left of earlier ones.
  - `StoredAreValidated` and `KeptAreValidated` hold after a rejection as well.
    The first is about elements only: a table of elements points to headers that
    have passed their checks. The second is about the tables inside an element:
    a sub-element has passed its reader's checks, but it is stored before its
    extent is compared (`ACDescriptor.cpp:222`), so that the last one may reach
    beyond its element. Neither makes it safe to call `Log()` on a rejected
    message: the header of a nested element is null if it was what was rejected,
    and `Log()` reads it (`ACDescriptor.cpp:245`), and the encryption slots may
    be unfilled, see the next point.
  - `EncryptionsCovered` says exactly when `GetEncryptions` and `Log()` hand out
    slots that were not filled for the header they show
    (`WTPDescriptor.cpp:252`, `:267`): if, and only if, the WTP Descriptor of that
    header has failed among its encryption sub-elements (`shown.torn`). That is
    not only after the refusal. `header` and the slots are never reset, so that
    a second message with no WTP Descriptor is accepted, as `IsPresent` looks at
    `header` alone (`:287`), and shows them. An object should not be used again
    after a refusal.
  - `ConformingIsAccepted` says what conforming is in `Conforms`, which knows
    nothing of the loop: lengths and values of the elements the reader handles
    are as the RFCs want them, all that is mandatory is there, in any order.
    Two things in it are the library's: no more elements of a type than its
    table takes, which the RFCs do not limit, and a greatest length where they
    name none, or more than the library takes: it reads 16 addresses of an AC
    IPv4 List (`ACIPv4List.h`), the RFC allows 1024 (`docs/rfc5415.txt:3561`).
    It is about an object's first use, because a table that is full of an
    earlier buffer's elements refuses a conforming message too.
  - `AcceptedMeetsRFC` counts as carried what the reader can see of the buffer,
    not every frame of it: an element that is cut inside its header is not
    read, and not missed either if nothing requires it.
  - `OwnEntriesUnlessTorn` is as strong as the code allows: a slot into which
    a torn element was read shows its entries in front of the next element's,
    if the owner goes on using the reader although it has refused a buffer.
  - `CutShortIsRefused`: `RadioMACAddress::Deserialize` checks seven octets and
    moves the cursor by up to twelve, so that the cursor may be five octets
    behind the end (`TypeOK`); no written datagram that is cut short passes
    nonetheless, because what is read next notices.
  - `ProbeFillsTheMTU` allows for what the application has added and cleared
    since the construction, and for nothing else. It does not hold when the
    sizes exceed 16 bits, in which case the `ASSERT`s pass on the remainder,
    and, without `ASSERT`, when there is no room for a single octet of padding.
  - `ReturnedElementsAreSound`: only the first array of returned elements is
    validated, once, and the result code it switches is the application's own.
    Invalid is a reason the library does not know, or a length beyond its limits
    (`ReturnedMessageElement.cpp:28`): `IsValid` has both.
  - `RoomSuffices`: five elements ask for their fixed part twice. An AC
    Descriptor gets away with it in every complete message, as enough follows
    it; the others do not if they are the last in an exact buffer.
  - `AcceptedAsMeant` is an equivalence: what an application has put together
    rightly is accepted, and what it has not is refused by the peer, even if no
    `ASSERT` has noticed, as with an array that is empty, two optional arrays
    that together exceed the peer's table, a second kind of WLAN element, or an
    AC Descriptor that has a header and no sub-elements (`NeedsSubs`).
  - `ReceivedAsSent` goes by the item, not by the number: each pointer of the
    reader is traced back to the writer and the item it was, which the writer
    keeps as history (`part`, `item` of a frame). `Sent` keeps that history from
    the reader.
  - `WrittenIsReadBack` is about values whose sizes do not exceed 16 bits in
    sum; `SizesFit` works out that no values within the limits of RFC 5415 do.
    Board Data of exactly 1024 octets is written but refused when read.
  - `PeerTakesAll` needs `Asserts`; without (`NDEBUG`) the writer can build
    what the peer refuses.

## Findings

Five places where the code does something else than a text of the repository
says, each shown by a run that TLC finds violated:

  - `event_request`: `ReadableWTPEventRequest::Deserialize` accepts a message
    without any event; `docs/rfc5415.txt:7119` demands one.
  - `empty_texts`: AC Name, WTP Name and Location Data of length 0 are
    accepted, as is an Image Identifier without text; `docs/rfc5415.txt:3612`
    and its siblings say `>= 1`.
  - `entries_count`: Num of Entries of a Decryption Error Report is not
    compared with the entries; `elements/DecryptionErrorReport.h:14` says it is
    their number.
  - `header_length`: HLEN is compared with a lower bound and then not used;
    `ClearHeader.h:77` says it is the length of the header. What the library
    writes has both equal (`WrittenIsRead`).
  - `radios_in_use`: `README.md:158` asks for at least as many radio
    informations as there are radios in use, "enforced by runtime assertions in
    the library". The Join Request has the assertion, the Discovery Request,
    which carries both elements too, has not.

## Proofs

`MessageReaderProofs` proves, for every catalogue of elements, set of messages,
set of well laid out buffers and number of calls (assumptions
`ElementAssumption`, `MessagesAssumption`, `BuffersAssumption`,
`MaxCallsAssumption` of `MessageReader`, which TLC evaluates in every run):
`TypeOK`, `OnFrameBoundary`, `CapsHold` and `StoredAreValidated`. The inductive
invariant is

    IInv == TypeOK /\ OnFrameBoundary /\ CapsHold /\ NoneFromTheFuture
              /\ StoredAreValidated

`StoredAreValidated` speaks of pointers of the current call, so that a new call
could make it false if some pointer were already dated with it:
`NoneFromTheFuture` rules that out. The steps go action by action; the lemmas
in front say what a frame of a laid out buffer is, where the next boundary lies,
and what `WithSubs` stores and how much.

Its second part builds on that and proves the two properties that say what a
reader is for, `DecodesTheBuffer` and `VerdictIsExact`. `DecodesTheBuffer` is
inductive on top of `IInv` once it says, in the invariant `Held`, that what is
held of the current buffer lies in front of the cursor, and that a rejected
message ends the claim. Each way of taking an element moves the cursor past
exactly one frame (`ConsumedGrows`), so that the last of a single, the next of
an array and the count of what is skipped follow. `VerdictIsExact` compares the
loop with a definition that has none. Its invariant `Sifted` says, of an object
used for the first time, that everything in front of the cursor is good and
that the tables hold as many pointers as the frames there call for (`Filled`).
A refusal then shows that the buffer is not well formed, because the frame
under the cursor is bad or because its table is full (`RejectHeaderIsRight`,
`RejectBodyIsRight`); at the end of the loop all that is visible has been read
(`AllIsRead`), so that what is present is what the buffer delivers
(`FinishIsRight`).

Its third part is what liveness rests on. `NothingIsStuck` says that while a
call is under way some turn is possible, because the cursor is on a frame or at
the end; `TurnsAreBounded` says that each turn brings the cursor a header closer
to the end or ends the call, so that a buffer of n octets takes at most n / 4 + 1
turns. `EveryCallReturns` then needs no more than a scheduler that lets the
thread run.

`CapwapRFCProofs` is about the tables of the library: `CapwapAssumption` takes
the 66 element readers and the 20 messages as they are, each with readers for
any subset of its optional elements. It proves `ConformingIsAccepted` and
`AcceptedMeetsRFC` for every buffer there is, not just for those the run builds.
`VerdictIsExact` has already done away with the loop, so that what is left is
to compare tables, row by row: the limits of `Validate` are no narrower than the
RFC's (`LengthsAreTaken`), and what a reader requires is what the RFC demands,
no less and no more (`MessagesFollowTheRFC`). `ReaderFollowsTheRFC` carries
this to a reader with some of the optional elements: the mandatory ones are
never among those. A conforming buffer is then well formed
(`ConformingIsWellFormed`), and an accepted one carries what is required
(`AcceptedCarries`, for a fresh object: what it holds it has read from this
buffer). The comparison is the part that a change of one row would break.

`WritableArrayProofs` proves `TypeOK`, `OneItemPerKey` and `PeerTakesAll` for
all sets of keys and values and all sizes. Here the inductive invariant adds
`WireFits`, the bound on what is under way: `PeerTakesAll` is about `answer`,
which says nothing about the `wire` it depends on. `ImplementsMap` is the
refinement: with keys, `WritableArray` implements `KeyedMap`. Each action maps
to one of the map's; the work is in `PutSetsOne`, that replacing in place or
appending changes the map at one key, for which keys must be unique, and in
`GotIsSent`, that what is read is the map that was on the wire. `ArrayIsAList`
says what `MessageWriter` relies on when it has lists for arrays: unless it is
cleared, an array changes by one item, which is appended or takes the place of
one with its key, and no other item moves.

The first part of `MessageExchangeProofs` proves the five properties of
`MessageWriter`, for every application `Loads`, every catalogue and any number of changes. The inductive
invariant is

    WriterInv == TypeOK /\ Known /\ Progress /\ RadiosWritten /\ NoneOverfull
                   /\ ReturnedAreValid /\ SinceBuilt

`Known` keeps of the assumptions what changes of the arrays preserve; `Progress`
is the cursor as the sum of the sizes of the writers that are done, and the room
as the sum of all; `RadiosWritten` counts on the wire what the writers count;
`ReturnedAreValid` follows each returned element from the constructor to the
wire; `SinceBuilt` relates what the constructor has worked out to the arrays as
it saw them and as they are. `ProbeFillsTheMTU` is then arithmetic on remainders
of 2^16, and `RoomSuffices` compares the octets still to come with what an
element asks for too much. The assumptions are about fixed tables of the source:
an element asks for at most twelve octets too much, only five do, and every
constructor that takes an AC Descriptor takes three elements more behind it.

Its second part puts the two sides together and proves `AcceptedAsMeant`
and `ReceivedAsSent`: for every message, every application, any number of
changes and every choice of optional readers, a message is accepted exactly if
it was put together rightly, and the peer then has what was put in. The writer
is known from the first part; the theorems of `MessageReaderProofs` come
with an `INSTANCE`, whose assumptions about buffers are shown here of the one
that is delivered (`ReceivedIsLaidOut`). What joins them is the invariant

    OwnParts:   each writer has the items its kind allows, those of the
                constructor first
    Copies:     an element on the wire is the item of a part that it names
    Complete:   each item of a part that has been written is on the wire
    InOrder:    in the order of the parts and of their items
    BackToBack: each element begins where the one before it ends

of which `WritePartWired` is the step that matters. At the end of `Serialize`
the elements of a type on the wire and the items of that type correspond one to
one (`ItemsArrive`, `OriginsDiffer`), so that there are as many of either
(`AsManyArrive`). The verdict of the reader, about the elements of the buffer,
is then turned into one about the application's items, condition by condition:
what is good (`GoodAsMeant`), what the tables can take (`LoadAsMeant`), what is
required (`RequiredAsMeant`). For `ReceivedAsSent` the last element of a type
on the wire is the latest item (`LastIsLatest`).

The two assumptions are about the tables of the source, and TLC evaluates them
for the real ones. `CatalogueAssumption` says that a Discovery Request's padding
of any 16-bit length is within the bounds of its reader. `PeersAssumption` says,
in `SidesAgree`, that what the reader of a message requires is what the
constructor of its writer takes: the two lists are kept by hand in different
functions (`JoinRequest.cpp:60` and `:169`), and if they came apart this is what
would fail first.

`NumberFacts` makes up for induction over a predicate, which the provers cannot
instantiate: a set of numbers that is not empty has a least element
(`LeastElement`, from the well-foundedness of `<`), so that a claim about all
numbers is one about the empty set of its exceptions (`NoneIsLeft`). A sum is
the last value of the function that lists the partial sums, which exists and is
unique by the same argument (`SumExists`, `SumUnique`), whence the equations of
`SumUpTo` (`SumUpToSteps`).

`NestedReaderProofs` proves `TypeOK`, `SubElementsInside`, `KeptAreValidated`
and `EncryptionsCovered` for every loop with the form `IsLoop` (a fixed part, a
sub-element header, tables of any size; the table is emptied late exactly in the
loops that have encryption sub-elements) and every set of well laid out buffers.
The inductive invariant needs, of the middle of a walk, that the header shown is
that of the element (`HeaderIsHere`), that a sub-element kept of it ends at or
before the cursor (`ItemsInside`: only at the end of the element is the cursor
compared), and that the slots counted so far are the element's own
(`EncryptionsAreHere`).

The last two properties are about the tables in every phase, and about what
earlier buffers have left there. `TableInv` is the invariant they take on top of
that of the walk: the slots dated with this buffer are of elements that begin
before the cursor (`SlotsBehind`), so that no slot is already dated with the
element that begins next, and the slots of the header are the first `encs` and
no other (`SlotsOfHeader`), so that it is torn just if `encs` fell short of the
number it declares.

`LoopsTakeOneStep` is the refinement: `NestedReader` implements `MessageReader`
for any loops, not just for the tables TLC counts with. A second invariant,
`WalkInv`, says what has happened since the walk began: how many encryption
sub-elements were taken and that each was good, which sub-elements lie in front
of the cursor, that what is stored is what was kept and these, and that what is
`found` are their types. A step inside a walk is then a step in which
`MessageReader` does nothing; `RejectElement` is its `RejectHeader`, a refused
encryption sub-element its `RejectBody` with an early body, a refused
sub-element or a walk that ends beyond the element its `RejectBody` with a late
one, or with a good body for which there is no room, and a walk that ends well
is its `ReadNested`. So what `MessageReader` takes on trust in `WithSubs`,
`Stored` and `stop` is shown of the loops. `LoopsMeetTheAssumptions` adds that
every buffer and every loop is, as `MessageReader` sees it, what that module
assumes: the numbers of good sub-elements and the places where a walk can stop
are natural numbers, and the elements lie back to back. So its theorems apply,
and `LoopsDecode` is the two results put together: a reader of nested elements,
turn by turn, decides and shows what the definitions without a loop say
(`DecodesAsAWhole`). That is the composition the whole model relies on, where
`MessageReader` stands for the nested readers.

`NothingIsStuck` and `TurnsAreBounded` are stated of the nested loops too. The
bound takes more here, because a sub-element may take the cursor past the end of
its element, or of the buffer, before that is noticed: the measure counts three
turns for each octet left and none behind the end. Between elements the cursor
is inside the buffer because that is where `MessageReader` has it, by
`LoopsTakeOneStep`.

`WrittenAndRead` proves `WrittenIsReadBack` for every loop and every value.
`ReadsAlone` first brings a fresh reader and a single element down to a
definition without a loop: it is taken if its header is good, its encryption
sub-elements are, all sub-elements are good and the last ends where the element
does. `WrittenCounts` then evaluates that definition on what `Serialize`
writes: the sub-elements begin at the partial sums of the sizes, and the last
ends on the length in the header, provided that the sum has not been cut down to
16 bits. The number of encryptions is cut down to 8 bits in the header; the
layout of the buffer (`BuffersAssumption`) is that of the header's number, so
that a value with more than 255 is none the property speaks of. That an ACL
reader's table has fewer than 256 slots is `AclAssumption`.

`DecryptionErrorReportProofs` proves `TypeOK`, `OwnEntriesUnlessTorn` and
`RefusedChangesNothing` for all sizes of both tables. The inductive invariant
adds `EmptyAhead`: a slot that is not shown yet has no entries
unless a torn element has left some.

`TransportHeaderProofs` proves `TypeOK`, `PartsFollowFlags`, `WrittenIsRead` and
`CutShortIsRefused` for all datagrams, any number of them read with one object.
The inductive invariant `Position` says where the cursor is in each phase, and
which parts it has gone past; the sum of the rounded parts is then compared with
HLEN and with the size.

Only model-checked:

  - Liveness, `EveryCallReturns` and `EveryWalkEnds`: `ENABLED` and fairness are
    out of the prover's reach. That turns are bounded in number and never stuck,
    which is all these need besides fairness, is proved.
  - The assumptions about the tables (`PeersAssumption`, `ElementAssumption` and
    their like): TLC evaluates them on the tables of the source.

## Not modelled

  - The values of fields (one bit says whether they pass `Validate`), byte
    order and bit fields, `Log()`, `NetworkUtils.h`, the vendored `span.hpp`,
    tests and benchmarks: none of them has state or decides what is read next.
  - Inner lengths of a plain element: that the key of an Add WLAN leaves the
    rest to the SSID, and that counts agree with lengths in Antenna and Update
    WLAN, is in the bit as well.
  - A caller who registers two optional readers for one type gets the first
    only (`JoinRequest.cpp:222`); the model has a set of types there.
  - A caller of `Serialize` whose buffer is too small, see above.
  - Changes to the addresses of a MAC ACL entry after the construction; an
    entry is an optional element that nothing has been worked out from.
  - The CAPWAP state machine, retransmission, sequence numbers and fragments:
    the library has the fields and leaves all of it to the application.

## Plan

Done: inventory, `MessageReader` with its tables, `NestedReader`,
`DecryptionErrorReport`, `WritableArray` with `KeyedMap`, `TransportHeader`,
`MessageWriter` and `MessageExchange` with the table `CapwapWriters`,
`NestedWriter`; the comparison with the RFC's tables, `CapwapRFC`; the proofs of
all of them, the refinements `KeyedMap` by `WritableArray` and `MessageReader`
by `NestedReader` included.

Left: the inner lengths of Add WLAN, Update WLAN and Antenna, which would take a
module of their own next to `NestedReader`.
