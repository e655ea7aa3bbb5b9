----------------------------- MODULE NestedWriter -----------------------------
(***************************************************************************)
(* The writers of the elements that hold sub-elements, and their readers   *)
(* on what they write.                                                     *)
(*                                                                         *)
(* AC Descriptor, WTP Board Data and WTP Descriptor add up the sizes of    *)
(* their sub-elements in the constructor, in 16 bits, and declare the sum  *)
(* as the length; Serialize copies the sub-elements behind the header      *)
(* without another look at it.  The two MAC ACL entries write the addresses*)
(* first and the header last, with the length the cursor has gone.         *)
(***************************************************************************)
EXTENDS NestedReader, Sums

CONSTANT Given   \* per reader, what applications hand to its writer

UInt8 == 256
UInt16 == 65536

\* What a writer gets: whether the vendor is not 0, the number of encryption
\* sub-elements (whose WBID the constructor sets), and the sub-elements.
IsValue(v) ==
  /\ v.vendor \in BOOLEAN /\ v.num \in Nat
  /\ v.subs \in Seq([type : STRING, len : Nat, ok : BOOLEAN])

ASSUME GivenAssumption ==
  /\ DOMAIN Given = DOMAIN Readers
  /\ \A r \in DOMAIN Given : \A v \in Given[r] : IsValue(v)

\* An ACL entry: the header of an address is its length octet.
IsAcl(l) == l.subHeader = 1

\* The number of addresses, like the table of their reader, is one octet's.
ASSUME AclAssumption ==
  \A r \in DOMAIN Readers :
    IsAcl(Readers[r]) => Readers[r].cap < UInt8 /\ ~Readers[r].byHeader

\* The octets of the first n sub-elements, those for encryption in front.
SubSizes(l, v) == [k \in DOMAIN v.subs |-> l.subHeader + v.subs[k].len]
Octets(l, v, n) == EncryptionSize * v.num + SumUpTo(SubSizes(l, v), n)

\* Mutant: the sum is kept in one octet.
GetSubElementsSizeInAnOctet(l, v) == Octets(l, v, Len(v.subs)) % UInt8

GetSubElementsSize(l, v) == Octets(l, v, Len(v.subs)) % UInt16

\* An ACL without an address is not written; the other writers always write.
IsWritten(l, v) == IsAcl(l) => v.subs # <<>>

\* The header as it is made, and what Validate says of it: NumEncrypt and the
\* number of addresses are cut down to 8 bits and must not be 0, nor may the
\* vendor of the Board Data be.
Header(l, v) ==
  [len |-> (l.fixed + GetSubElementsSize(l, v)) % UInt16,
   valid |-> v.vendor /\ (l.encryptions > 0 => v.num % UInt8 # 0)
              /\ (IsAcl(l) => Len(v.subs) % UInt8 # 0),
   num |-> v.num % UInt8]

GetTotalLength(l, v) == HeaderSize + Header(l, v).len

\* The element in as many octets as the writer says it has, with the
\* sub-elements that begin in them.
Serialize(l, v) ==
  LET start == HeaderSize + l.fixed
      at(n) == start + Octets(l, v, n - 1)
      begun == {n \in DOMAIN v.subs : at(n) < GetTotalLength(l, v)}
  IN  IF ~IsWritten(l, v) THEN [size |-> 0, frames |-> <<>>]
      ELSE [size |-> GetTotalLength(l, v),
            frames |->
              <<[at |-> 0, len |-> Header(l, v).len, valid |-> Header(l, v).valid,
                 num |-> Header(l, v).num, encs |-> [e \in 1 .. v.num |-> TRUE],
                 subs |-> [n \in 1 .. Cardinality(begun) |->
                             [type |-> v.subs[n].type, at |-> at(n),
                              len |-> v.subs[n].len, ok |-> v.subs[n].ok]]]>>]

\* The same as a function, which TLC evaluates once.
Written == [r \in DOMAIN Given |-> [v \in Given[r] |-> Serialize(Readers[r], v)]]
-----------------------------------------------------------------------------
(***************************************************************************)
(* Properties.                                                             *)
(***************************************************************************)

\* No sum is cut down to 16 bits.
SumFits(l, v) == l.fixed + Octets(l, v, Len(v.subs)) < UInt16

\* What the element is meant to hold, by the tables and by Validate.
Sound(l, v) ==
  /\ v.vendor
  /\ l.encryptions > 0 => v.num \in 1 .. l.encryptions
  /\ \A n \in DOMAIN v.subs : v.subs[n].ok
  /\ Len(v.subs) <= l.cap
  /\ ~l.byHeader => v.subs # <<>>
  /\ l.needs \subseteq {v.subs[n].type : n \in DOMAIN v.subs}

\* The writers write what their readers read: an element with sound values is
\* accepted by a fresh reader, which then shows exactly the sub-elements that
\* were given, and one without is refused - the length in the header, added
\* up beforehand or taken from the cursor afterwards, is the one the walk
\* over the sub-elements arrives at.
WrittenIsReadBack ==
  phase \in {"accepted", "rejected"} /\ call = 1 =>
    \A v \in Given[reader] : buf = Written[reader][v] /\ SumFits(L, v) =>
      /\ phase = "accepted" <=> Sound(L, v)
      /\ phase = "accepted" =>
           /\ items = [n \in DOMAIN v.subs |-> <<1, 1, n>>]
           /\ L.encryptions > 0 => encs = v.num
=============================================================================
