---------------------------- MODULE MessageExchange ----------------------------
(***************************************************************************)
(* A message from one application to another: MessageWriter on one side,   *)
(* MessageReader on the other, with the elements that were written as the  *)
(* buffer that is read.  The datagram gets there whole; what becomes of    *)
(* torn ones is MessageReader's own subject.                               *)
(***************************************************************************)
EXTENDS MessageWriter

CONSTANT
  Peers(_)     \* per load, the message descriptors of the readers it may
               \* meet: they differ in the optional readers

Type == DOMAIN Element

VARIABLES
  msg, buf, cursor, phase, call, store, header, unknown   \* see MessageReader

readerVars == <<msg, buf, cursor, phase, call, store, header, unknown>>

Peer == INSTANCE MessageReader WITH
  Messages <- UNION {Peers(l) : l \in Loads}, Buffers <- {}, MaxCalls <- 1

ASSUME CatalogueAssumption ==
  /\ \A t \in Type : Peer!IsDescriptor(Element[t])
  /\ Element["MTUDiscoveryPadding"].minLen = 0
  /\ Element["MTUDiscoveryPadding"].maxLen >= UInt16 - 1

Taken(s) == {s.order[i] : i \in DOMAIN s.order}

(***************************************************************************)
(* What the lists of the two sides have in common: the constructor takes   *)
(* what the peer requires or wants one of, each once; what it takes may be *)
(* optional too only if the peer cannot miss it for that; a nested element *)
(* whose reader never forgets is not optional; and the padding is for the  *)
(* Discovery Request alone.                                                *)
(***************************************************************************)
SidesAgree(s, m) ==
  /\ m.required \subseteq Taken(s) /\ Taken(s) \subseteq m.required \cup m.oneOf
  /\ m.required \cap m.oneOf = {}
  /\ \A i, j \in DOMAIN s.order : s.order[i] = s.order[j] => i = j
  /\ \A t \in m.oneOf : IsArray(t)
  /\ \A t \in Taken(s) \cap s.optional : t \in m.oneOf \/ Element[t].kind = "single"
  /\ \A t \in s.optional : Element[t].kind = "nested" => Element[t].resets # "never"
  /\ "MTUDiscoveryPadding" \notin Taken(s) \cup s.optional
  /\ s.name = "DiscoveryRequest" => "MTUDiscoveryPadding" \in m.members

ASSUME PeersAssumption ==
  \A l \in Loads : \A m \in Peers(l) :
    /\ m \in Peer!MessageDescriptor
    /\ m.required \cup m.oneOf \subseteq m.members
    /\ SidesAgree(l.sender, m)

ExchangeInit ==
  /\ Init
  /\ msg \in Peers(load)
  /\ buf = [size |-> 0, frames |-> <<>>]
  /\ cursor = 0
  /\ phase = "waiting"
  /\ call = 1
  /\ store = [t \in Type |-> <<>>]
  /\ header = [t \in Type |-> Peer!Null]
  /\ unknown = 0

Write == Next /\ UNCHANGED readerVars

\* What the reader can see of an element.
Sent(f) ==
  [type |-> f.type, at |-> f.at, len |-> f.len, ok |-> f.ok, body |-> f.body,
   subs |-> f.subs, stop |-> f.stop]

\* The reader gets what was written: the data up to the writer's cursor.
Deliver ==
  /\ stage = "written"
  /\ phase = "waiting"
  /\ buf' = [size |-> offset, frames |-> [k \in DOMAIN wire |-> Sent(wire[k])]]
  /\ phase' = "reading"
  /\ UNCHANGED <<msg, cursor, call, store, header, unknown, writerVars>>

Read == Peer!LoopStep /\ UNCHANGED writerVars

ExchangeNext == Write \/ Deliver \/ Read

vars == <<writerVars, readerVars>>

ExchangeSpec == ExchangeInit /\ [][ExchangeNext]_vars
-----------------------------------------------------------------------------
(***************************************************************************)
(* Properties.                                                             *)
(***************************************************************************)

ItemsOf(t) == UNION {{<<i, k>> : k \in DOMAIN parts[i].items} :
                       i \in {j \in DOMAIN parts : parts[j].type = t}}

ItemAt(o) == parts[o[1]].items[o[2]]

\* A reader that judges by the sub-elements whether its element was there.
NeedsSubs(t) == Element[t].kind = "nested" /\ ~Element[t].byHeader

\* What the application has put together can be taken: every element the
\* peer looks at is valid, there are not more of a type than it has slots
\* for, over all the arrays of that type, nothing the constructor took is
\* empty, and of the kinds of which the peer wants one there is one.
Takeable ==
  /\ \A t \in Peer!Handled : \A o \in ItemsOf(t) :
       /\ IsValid(t, ItemAt(o))
       /\ Element[t].kind = "nested" => ItemAt(o).subs <= Element[t].cap
  /\ \A t \in Peer!Handled : IsArray(t) => Cardinality(ItemsOf(t)) <= Element[t].cap
  /\ \A i \in 1 .. Len(sender.order) :
       \/ parts[i].type \in msg.oneOf
       \/ \E k \in DOMAIN parts[i].items :
            NeedsSubs(parts[i].type) => parts[i].items[k].subs > 0
  /\ msg.oneOf # {} => Cardinality({t \in msg.oneOf : ItemsOf(t) # {}}) = 1

\* A message is accepted exactly if the application put it together rightly:
\* nothing in the writing of it, and in the order of the elements, makes the
\* peer refuse it or take it for something else.
AcceptedAsMeant ==
  phase \in {"accepted", "rejected"} => (phase = "accepted" <=> Takeable)

\* Where an element the reader points to comes from: its writer, and which of
\* the writer's items it was; and the order in which they were written.
Origin(p) == <<wire[p[2]].part, wire[p[2]].item>>
Before(a, b) == a[1] < b[1] \/ (a[1] = b[1] /\ a[2] < b[2])

Latest(o, t) == o \in ItemsOf(t) /\ \A x \in ItemsOf(t) : x = o \/ Before(x, o)

SingleAsSent(t) ==
  IF ItemsOf(t) = {} THEN store[t] = <<>>
  ELSE Len(store[t]) = 1 /\ Latest(Origin(store[t][1]), t)

ArrayAsSent(t) ==
  /\ {Origin(store[t][k]) : k \in DOMAIN store[t]} = ItemsOf(t)
  /\ \A j, k \in DOMAIN store[t] :
       j < k => Before(Origin(store[t][j]), Origin(store[t][k]))

NestedAsSent(t) ==
  ItemsOf(t) # {} =>
    /\ Latest(Origin(header[t]), t)
    /\ Len(store[t]) = ItemAt(Origin(header[t])).subs

\* What the peer has of an accepted message is what the application put in:
\* of an array, the items of all the writers of its type, in the order of the
\* writers and of their items; of a single, the last; of a nested element the
\* last, with all of its sub-elements; and it has skipped just those it has no
\* reader for.
ReceivedAsSent ==
  phase = "accepted" =>
    /\ \A t \in Peer!Handled \ {"MTUDiscoveryPadding"} :
         CASE Element[t].kind = "array" -> ArrayAsSent(t)
           [] Element[t].kind = "single" -> SingleAsSent(t)
           [] Element[t].kind = "nested" -> NestedAsSent(t)
    /\ unknown = Cardinality(UNION {ItemsOf(t) : t \in Type \ Peer!Handled})
=============================================================================
