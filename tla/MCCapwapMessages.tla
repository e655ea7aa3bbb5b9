-------------------------- MODULE MCCapwapMessages --------------------------
(***************************************************************************)
(* MessageReader over the real messages (CapwapMessages) and the real      *)
(* element readers (CapwapElements), fed with what RFC 5415 and RFC 5416   *)
(* lay down: messages with all they demand, in any of a few orders, with   *)
(* each or all of the optional elements, and messages with one fault.      *)
(***************************************************************************)
EXTENDS CapwapRFC, SequencesExt

MCType == DOMAIN Catalogue

\* The caller has a reader for every optional element, or for none.
MCMessages == ControlMessages \cup {[m EXCEPT !.optional = {}] : m \in ControlMessages}

\* A type no control message of the library handles.
Alien == "Station"
-----------------------------------------------------------------------------
Shape(type, len, ok, subs) ==
  [type |-> type, len |-> len, ok |-> ok, body |-> "ok", subs |-> subs]

Good(t) == Shape(t, RFCLength[t][1], TRUE, RFCSubs(t))
Longest(t) == Shape(t, RFCLength[t][2], TRUE, RFCSubs(t))

Each(Op(_), types) == FoldSet(LAMBDA t, s : Append(s, Op(t)), <<>>, types)

Rotations(s) ==
  {SubSeq(s, i, Len(s)) \o SubSeq(s, 1, i - 1) : i \in 1 .. Len(s)} \cup {Reverse(s)}

\* The elements a message has to carry: the mandatory ones and a choice.
Loads(m) ==
  IF OneOf(m) = {} THEN {Mandatory(m)} ELSE {Mandatory(m) \cup {c} : c \in OneOf(m)}

Optionals(m) == m.optional \cup (m.members \ (Mandatory(m) \cup OneOf(m)))

\* Messages as the RFCs want them.
Conforming(m) ==
  UNION {
    LET least == Each(Good, load)
        full  == least \o Each(Longest, Optionals(m))
    IN  Rotations(least) \cup {least, Each(Longest, load), full, Reverse(full)}
          \cup {Append(least, Good(t)) : t \in Optionals(m)}
          \cup {InsertAt(least, i, Good(Alien)) : i \in 1 .. Len(least) + 1} :
    load \in Loads(m)}

\* Messages with one thing wrong: an element is missing, is there twice, has
\* a value or a length that is not allowed; an array is one short of its
\* table, fills it or overflows it.
Faulty(m) ==
  UNION {
    LET least == Each(Good, load)
        Set(i, s) == ReplaceAt(least, i, s)
    IN  {RemoveAt(least, i) : i \in DOMAIN least}
          \cup {Append(least, least[i]) : i \in DOMAIN least}
          \cup {Set(i, [least[i] EXCEPT !.ok = FALSE]) : i \in DOMAIN least}
          \cup {Set(i, [least[i] EXCEPT !.len = n]) :
                  i \in DOMAIN least, n \in {0, 1, 3, 1029, 16386}}
          \cup UNION {{least \o [k \in 1 .. n |-> Good(t)] : n \in 31 .. 33} :
                        t \in {u \in load \cup {Alien} : Kind(u) = "array"}}
          \cup {Append(least, Good(t)) : t \in OneOf(m) \ load}
          \cup {<<>>} :
    load \in Loads(m)}

Layout(s) ==
  LET ends == FoldLeft(LAMBDA acc, x : Append(acc, acc[Len(acc)] + HeaderSize + x.len),
                       <<0>>, s)
  IN  [frames |-> [i \in DOMAIN s |->
          [type |-> s[i].type, at |-> ends[i], len |-> s[i].len, ok |-> s[i].ok,
           body |-> s[i].body, subs |-> s[i].subs,
           stop |-> [k \in 1 .. s[i].subs + 1 |-> HeaderSize]]],
       size |-> ends[Len(ends)]]

\* The whole buffer, with octets behind it, cut inside the last element or its
\* header.
Cuts(b) ==
  LET inside == IF b.frames = <<>> THEN {} ELSE {b.size - 1, b.frames[Len(b.frames)].at + 3}
  IN  {[b EXCEPT !.size = n] : n \in {b.size, b.size + 3} \cup inside}

Laid(m) == {Layout(s) : s \in Conforming(m)}

BuffersFor ==
  [name \in {m.name : m \in ControlMessages} |->
     LET m == CHOOSE c \in ControlMessages : c.name = name
     IN  Laid(m) \cup UNION {Cuts(Layout(s)) : s \in Faulty(m)}]

MCBuffers == UNION {BuffersFor[m.name] : m \in ControlMessages}

\* Init, each message with its own buffers.
MCInit ==
  /\ msg \in Messages
  /\ buf \in BuffersFor[msg.name]
  /\ cursor = 0
  /\ phase = "reading"
  /\ call = 1
  /\ store = [t \in Type |-> <<>>]
  /\ header = [t \in Type |-> Null]
  /\ unknown = 0

MCSpec == MCInit /\ [][Next]_vars /\ WF_vars(LoopStep)
=============================================================================
