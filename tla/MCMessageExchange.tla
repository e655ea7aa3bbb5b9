--------------------------- MODULE MCMessageExchange ---------------------------
(***************************************************************************)
(* MessageExchange with the real messages and elements: what applications  *)
(* may put into each message, one thing at a time, and what they may do to *)
(* it between its construction and Serialize.                              *)
(***************************************************************************)
EXTENDS MessageExchange, CapwapElements, CapwapWriters, SequencesExt

MCType == DOMAIN Catalogue

Thing(len, ok, subs) == [len |-> len, ok |-> ok, subs |-> subs, late |-> FALSE]

\* Hardware and software version, model and serial number, the three parts
\* of a WTP Descriptor.
Subs(t) ==
  CASE t = "WTPDescriptor" -> 3 [] Catalogue[t].kind = "nested" -> 2 [] OTHER -> 0

Good(t) == Thing(Catalogue[t].minLen, TRUE, Subs(t))
Bad(t) == [Good(t) EXCEPT !.ok = FALSE]

\* Too long or, if the length field ends first, too short.
Wrong(t) ==
  Thing(IF Catalogue[t].maxLen < UInt16 - 1 THEN Catalogue[t].maxLen + 1
                                            ELSE Catalogue[t].minLen - 1, TRUE, Subs(t))

Copies(t, n) == [k \in 1 .. n |-> Good(t)]
Part(t, items) == [type |-> t, items |-> items]

\* A list of MAC addresses that is empty is not written; an AC Descriptor
\* without sub-elements is.
Bare(t) ==
  CASE t = "ACDescriptor" -> {<<[Good(t) EXCEPT !.subs = 0]>>}
    [] t \in {"AddMACACLEntry", "DeleteMACACLEntry"} -> {<<>>}
    [] OTHER -> {}

\* Singles are one item; an array has none, two, all or one too many.
Contents(t) ==
  LET cap == Catalogue[t].cap IN
  CASE Catalogue[t].kind = "single" -> {<<Good(t)>>, <<Bad(t)>>, <<Wrong(t)>>}
    [] Catalogue[t].kind = "nested" ->
         {<<Good(t)>>, <<Bad(t)>>, <<[Good(t) EXCEPT !.subs = cap + 1]>>} \cup Bare(t)
    [] OTHER -> {<<>>, <<Good(t)>>, <<Good(t), Good(t)>>, <<Good(t), Bad(t)>>, <<Wrong(t)>>}
                  \cup (IF cap < 33 THEN {Copies(t, cap), Copies(t, cap + 1)} ELSE {})

\* An application that has all the elements of the constructor, none of the
\* optional ones, and probes nothing.
Plain(s) ==
  [sender |-> s, radios |-> 1, probe |-> 0, spare |-> 0, changes |-> 0,
   parts |-> [i \in DOMAIN s.order |-> Part(s.order[i], <<Good(s.order[i])>>)]]

With(l, ps) == [l EXCEPT !.parts = @ \o ps]
SetPart(l, i, items) == [l EXCEPT !.parts[i].items = items]

\* One part of the constructor is something else.
OtherPart(s) ==
  UNION {{SetPart(Plain(s), i, c) : c \in Contents(s.order[i])} : i \in DOMAIN s.order}

\* One optional writer, two of the same type, or each of them.
OtherOptional(s) ==
  UNION {
    {With(Plain(s), <<Part(t, c)>>) : c \in Contents(t)}
      \cup {With(Plain(s), <<Part(t, c), Part(t, <<Good(t)>>)>>) :
              c \in {d \in Contents(t) : Len(d) > 1}} :
    t \in s.optional}
    \cup {With(Plain(s), FoldSet(LAMBDA t, ps : Append(ps, Part(t, <<Good(t)>>)), <<>>,
                                 s.optional))}

\* The room some elements ask for: an AC Descriptor followed by nothing but a
\* short name, and the others at the end of a message.
Strict == {"AddMACACLEntry", "DeleteMACACLEntry", "DeleteStation", "DuplicateIPv4Address"}
Tight(s) ==
  {[Plain(s) EXCEPT !.spare = n, !.parts = [i \in DOMAIN s.order |->
      IF Catalogue[s.order[i]].kind = "array" THEN Part(s.order[i], <<>>)
                                            ELSE Plain(s).parts[i]]] :
     n \in IF "ACDescriptor" \in Range(s.order) THEN {0, 7, 8, 11} ELSE {}}
    \cup {[With(Plain(s), <<Part(t, <<Good(t)>>)>>) EXCEPT !.spare = n] :
            t \in Strict \cap s.optional, n \in {0, 1, 2, 5, 6}}

Nth(s, t) == CHOOSE i \in DOMAIN s.order : s.order[i] = t

\* Probes of many sizes, with and without a vendor's element behind, and with
\* as many of its longest as exceed 16 bits.
Vendor(n) == Part("VendorSpecificPayload",
                  [k \in 1 .. n |-> [Good("VendorSpecificPayload") EXCEPT !.len = 2054]])
Probes ==
  LET s == DiscoveryRequestWriter
      l == Plain(s)
      exact == TotalSize(l.parts) + ProbeHeaders
  IN  {[With(l, ps) EXCEPT !.probe = p, !.changes = 2] :
         ps \in {<<>>, <<Part("VendorSpecificPayload", <<>>)>>},
         p \in {1, 20, 21, exact - 1, exact, exact + 1, 1400, UInt16 - 1}}
        \cup {[With(l, <<Vendor(32)>>) EXCEPT !.probe = p] : p \in {exact, 1400}}

Radios(s) ==
  {[SetPart(Plain(s), Nth(s, "WTPRadioInformation"), Copies("WTPRadioInformation", n))
      EXCEPT !.radios = r, !.changes = 2] : r \in 0 .. 2, n \in 0 .. 2}

Returned ==
  LET t == "ReturnedMessageElement"
      lists == {<<>>, <<Good(t)>>, <<Bad(t)>>, <<Good(t), Bad(t)>>, <<Good(t), Wrong(t)>>}
  IN  {[With(Plain(ChangeStateEventRequestWriter), <<Part(t, a), Part(t, b)>>)
          EXCEPT !.changes = 2] : a \in lists, b \in lists}

MCLoads ==
  UNION {{Plain(s)} \cup OtherPart(s) \cup OtherOptional(s) \cup Tight(s) :
           s \in ControlMessageWriters}
    \cup Probes \cup Radios(JoinRequestWriter) \cup Radios(DiscoveryRequestWriter)
    \cup Returned

MCNewItems(t) ==
  IF t = "ReturnedMessageElement" THEN {Good(t), Bad(t), Wrong(t)}
  ELSE IF t \in MCType THEN {Good(t), Bad(t)} ELSE {}

\* The reader has all the optional readers there are, or none.
MCPeers(l) ==
  LET m == CHOOSE x \in ControlMessages : x.name = l.sender.name
  IN  {m} \cup (IF Len(l.parts) > Len(l.sender.order) + 2
                 THEN {[m EXCEPT !.optional = {}]} ELSE {})
=============================================================================
