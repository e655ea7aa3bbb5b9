---------------------------- MODULE MCNestedReader ----------------------------
(***************************************************************************)
(* NestedReader with the real loops, their tables shortened, over elements *)
(* whose sub-elements are good, bad, too many, missing, or lie across the  *)
(* end the element declares, and over what the writers write.              *)
(***************************************************************************)
EXTENDS NestedWriter, SequencesExt

MCReaders ==
  [ACDescriptor  |-> [ACDescriptorLoop EXCEPT !.cap = 2],
   WTPBoardData  |-> [WTPBoardDataLoop EXCEPT !.cap = 3],
   WTPDescriptor |-> [WTPDescriptorLoop EXCEPT !.cap = 3, !.encryptions = 2],
   AddMacAcl     |-> [AddMacAclEntryLoop EXCEPT !.cap = 2],
   DeleteMacAcl  |-> [DeleteMacAclEntryLoop EXCEPT !.cap = 2]]

Sub(type, len, ok) == [type |-> type, len |-> len, ok |-> ok]

\* The values a sender may put into an element: any for the readers that
\* need nothing, with and without what the others need.
Values(r) ==
  CASE r = "WTPBoardData" ->
         LET m == Sub("WTPModelNumber", 1, TRUE)
             s == Sub("WTPSerialNumber", 0, TRUE)
             x == Sub("WTPModelNumber", 0, FALSE)
         IN  {<<>>, <<m>>, <<m, s>>, <<s, m>>, <<m, m, s>>, <<m, s, s, s>>, <<m, x>>,
              <<m, s, x>>, <<x, m, s>>}
    [] r = "WTPDescriptor" ->
         LET h == Sub("HardwareVersion", 1, TRUE)
             a == Sub("ActiveSoftwareVersion", 0, TRUE)
             b == Sub("BootVersion", 2, TRUE)
             x == Sub("BootVersion", 0, FALSE)
         IN  {<<>>, <<h, a>>, <<h, a, b>>, <<b, h, a>>, <<h, a, b, h>>, <<h, h, a>>,
              <<h, x>>, <<h, a, x>>}
    [] r = "ACDescriptor" ->
         BoundedSeq({Sub("any", 0, TRUE), Sub("any", 2, TRUE)}, 3)
    [] OTHER ->
         BoundedSeq({Sub("any", 6, TRUE), Sub("any", 8, TRUE), Sub("any", 7, FALSE)}, 2)
           \cup {[k \in 1 .. 3 |-> Sub("any", 6, TRUE)]}

\* NumEncrypt and the encryption sub-elements that follow.
Encryptions(r) ==
  IF r = "WTPDescriptor"
    THEN {<<1, <<TRUE>>>>, <<2, <<TRUE, TRUE>>>>, <<2, <<TRUE, FALSE>>>>,
          <<3, <<TRUE, TRUE, TRUE>>>>}
    ELSE {<<0, <<>>>>}

\* Sub-elements back to back from an offset on.
Placed(l, at, v) ==
  FoldLeft(LAMBDA acc, x :
             Append(acc, [type |-> x.type, len |-> x.len, ok |-> x.ok,
                          at |-> IF acc = <<>> THEN at ELSE SubEnd(l, acc[Len(acc)])]),
           <<>>, v)

\* One element at an offset: its end is where the last sub-element ends, or
\* it comes too early by one octet, or just behind its first octet.
ElementsAt(r, at) ==
  LET l == Readers[r]
      f(valid, e, v) ==
        LET start == at + HeaderSize + l.fixed
        IN  [at |-> at, len |-> 0, valid |-> valid, num |-> e[1], encs |-> e[2],
             subs |-> Placed(l, start + EncryptionSize * Len(e[2]), v)]
      ends(g) ==
        LET end == AfterSubs(l, g, Len(g.subs))
        IN  IF g.subs = <<>> THEN {end}
            ELSE {end, end - 1, g.subs[Len(g.subs)].at + 1}
      all == {f(TRUE, e, v) : e \in Encryptions(r), v \in Values(r)}
               \cup {f(FALSE, CHOOSE e \in Encryptions(r) : TRUE, <<>>)}
      whole == UNION {{[g EXCEPT !.len = n - at - HeaderSize] :
                         n \in {k \in ends(g) :
                                  g.subs = <<>> \/ g.subs[Len(g.subs)].at < k}} : g \in all}
      \* Too short for the encryption sub-elements that are announced, or
      \* for the fixed part.
      short == {[f(TRUE, <<2, <<TRUE>>>>, <<>>) EXCEPT !.len = l.fixed + k] :
                  k \in IF l.encryptions > 0 THEN {1, 3} ELSE {}}
      stub == [f(TRUE, <<0, <<>>>>, <<>>) EXCEPT !.len = l.fixed - 1]
  IN  whole \cup short \cup {stub}

\* Elements that are followed by another one: as few sub-elements as will do,
\* and as many as there is room for.
First(r) ==
  LET l == Readers[r]
      large == [size |-> 1000]
      taken(n) == CHOOSE f \in ElementsAt(r, 0) :
        /\ Len(f.subs) = n /\ f.valid /\ f.len >= l.fixed
        /\ Encrypted(l, large, f) /\ Complete(l, large, f)
  IN  {taken(Max({1, Cardinality(l.needs)})), taken(l.cap)}

\* What is written: sub-elements up to the 1024 octets RFC 5415 permits - of
\* which Board Data takes one less - and too few or too many of anything.
Content(r) ==
  CASE r = "WTPBoardData" ->
         {<<Sub("WTPModelNumber", n, n < 1024), Sub("WTPSerialNumber", 300, TRUE)>> :
            n \in {0, 1023, 1024}}
           \cup {<<Sub("WTPModelNumber", 300, TRUE)>>, <<>>}
    [] r = "WTPDescriptor" ->
         {<<Sub("BootVersion", 0, TRUE), Sub("HardwareVersion", 1024, TRUE),
            Sub("ActiveSoftwareVersion", 300, TRUE)>>, <<>>}
    [] r = "ACDescriptor" ->
         {<<Sub("any", 1024, TRUE), Sub("any", 1, TRUE)>>, <<>>,
          [k \in 1 .. 3 |-> Sub("any", 300, TRUE)]}
    [] OTHER ->
         {<<Sub("any", 6, TRUE), Sub("any", 8, TRUE)>>, <<Sub("any", 5, FALSE)>>, <<>>,
          [k \in 1 .. 3 |-> Sub("any", 6, TRUE)]}

MCGiven ==
  [r \in DOMAIN MCReaders |->
     {[vendor |-> TRUE, num |-> n, subs |-> v] :
        n \in IF r = "WTPDescriptor" THEN 0 .. 3 ELSE {0}, v \in Content(r)}
       \cup IF r = "WTPBoardData"
              THEN {[vendor |-> FALSE, num |-> 0, subs |-> v] : v \in Content(r)}
              ELSE {}]

\* With the real tables no sum of sizes RFC 5415 permits exceeds 16 bits.
ASSUME SizesFit ==
  \A l \in {ACDescriptorLoop, WTPBoardDataLoop, WTPDescriptorLoop} :
    l.fixed + EncryptionSize * l.encryptions + l.cap * (l.subHeader + 1024) < UInt16

MCBuffers ==
  [r \in DOMAIN MCReaders |->
     {[size |-> 0, frames |-> <<>>]}
       \cup UNION {{[size |-> ElementEnd(f) + k, frames |-> <<f>>] : k \in {0, 3, -1}} :
                     f \in ElementsAt(r, 0)}
       \cup UNION {{[size |-> ElementEnd(g), frames |-> <<f, g>>] :
                      g \in ElementsAt(r, ElementEnd(f))} : f \in First(r)}
       \cup {Written[r][v] : v \in MCGiven[r]}]
=============================================================================
