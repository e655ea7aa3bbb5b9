--------------------------- MODULE MCMessageReader ---------------------------
(***************************************************************************)
(* MessageReader on small messages whose members cover every kind of       *)
(* reader the library has, and on every buffer of up to MaxFrames frames   *)
(* in any order, good and bad, whole, cut short or with odd octets behind. *)
(* An object is used again for whole buffers of up to MaxReused frames,    *)
(* after one of as many frames that is whole or cut inside the last one.   *)
(***************************************************************************)
EXTENDS MessageReader, SequencesExt

CONSTANTS MaxFrames, MaxReused

MCType == {"single", "array", "acd", "mac", "desc", "text", "alien"}

Fixed(len) == [kind |-> "single", minLen |-> len, maxLen |-> len, cap |-> 1,
               resets |-> "never", byHeader |-> FALSE]

\* acd behaves as ACDescriptor (the count is never reset and is what presence
\* means), mac as the MAC ACL entries, desc as WTPDescriptor.
MCElement ==
  [single |-> Fixed(1),
   text   |-> [Fixed(0) EXCEPT !.maxLen = 2],
   array  |-> [Fixed(1) EXCEPT !.kind = "array", !.cap = 2],
   acd    |-> [Fixed(1) EXCEPT !.kind = "nested", !.maxLen = 9, !.cap = 3],
   mac    |-> [Fixed(1) EXCEPT !.kind = "nested", !.maxLen = 9, !.cap = 3,
                               !.resets = "start"],
   desc   |-> [Fixed(1) EXCEPT !.kind = "nested", !.maxLen = 9, !.cap = 3,
                               !.resets = "late", !.byHeader = TRUE],
   alien  |-> Fixed(0)]

Message(name, members, optional, required, oneOf) ==
  [name |-> name, members |-> members, optional |-> optional,
   required |-> required, oneOf |-> oneOf]

Plain  == Message("plain", {"single", "array"}, {"text"}, {"single", "array"}, {})
Nested == Message("nested", {"acd", "desc"}, {"mac"}, {"acd", "desc"}, {})
Choice == Message("choice", {"single", "array", "text"}, {}, {},
                  {"single", "array", "text"})

MCMessages == {Plain, Nested, Choice}

Shape(type, len, ok, body, subs) ==
  [type |-> type, len |-> len, ok |-> ok, body |-> body, subs |-> subs]

\* What a sender may put in a buffer, without the place where it is put.
Plainly == {Shape("single", 1, TRUE, "ok", 0), Shape("single", 1, FALSE, "ok", 0),
            Shape("array", 1, TRUE, "ok", 0), Shape("array", 2, TRUE, "ok", 0),
            Shape("array", 1, TRUE, "late", 0),
            Shape("text", 2, TRUE, "ok", 0), Shape("text", 3, TRUE, "ok", 0),
            Shape("alien", 1, TRUE, "ok", 0)}

Nestedly == {Shape("acd", 4, TRUE, "ok", n) : n \in {0, 2}}
              \cup {Shape("desc", 2, TRUE, "ok", n) : n \in {1, 2, 4}}
              \cup {Shape("desc", 2, TRUE, "early", 0), Shape("desc", 2, TRUE, "late", 1),
                    Shape("acd", 2, TRUE, "late", 1), Shape("acd", 0, TRUE, "ok", 1),
                    Shape("mac", 3, TRUE, "ok", 2), Shape("mac", 3, TRUE, "late", 2)}

At(s, i) == FoldLeft(LAMBDA n, x : n + HeaderSize + x.len, 0, SubSeq(s, 1, i - 1))

Layout(s) ==
  [i \in DOMAIN s |->
     [type |-> s[i].type, at |-> At(s, i), len |-> s[i].len, ok |-> s[i].ok,
      body |-> s[i].body, subs |-> s[i].subs,
      stop |-> [k \in 1 .. s[i].subs + 1 |-> HeaderSize + k]]]

\* The size of the buffer relative to its layout: whole, cut inside the last
\* body and, unless it is a long one, with odd octets behind, cut inside the
\* last header.
Sizes(s) ==
  LET end == At(s, Len(s) + 1)
  IN  {n \in {end, end - 1} \cup (IF Len(s) > MaxReused THEN {} ELSE {end + 3, end - 5}) :
         n >= 0}

BuffersOf(shapes) ==
  UNION {{[frames |-> Layout(s), size |-> n] : n \in Sizes(s)} :
           s \in BoundedSeq(shapes, MaxFrames)}

\* As comprehensions, which TLC enumerates once.
MCBuffers == {b : b \in BuffersOf(Plainly) \cup BuffersOf(Nestedly)}

FirstBuffers ==
  {b \in MCBuffers : /\ Len(b.frames) <= MaxReused
                     /\ b.size \in {LayoutEnd(b), LayoutEnd(b) - 1}}
SecondBuffers == {b \in FirstBuffers : b.size = LayoutEnd(b)}

MCNext == LoopStep \/ DeserializeAgain(FirstBuffers, SecondBuffers)

MCSpec == Init /\ [][MCNext]_vars /\ WF_vars(LoopStep)
=============================================================================
