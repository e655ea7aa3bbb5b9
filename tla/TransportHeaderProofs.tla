------------------------- MODULE TransportHeaderProofs -------------------------
(***************************************************************************)
(* Proofs about TransportHeader for all datagrams and any number of calls. *)
(***************************************************************************)
EXTENDS TransportHeader, TLAPS

\* Where the optional parts end.
AfterMac == IF pkt.m THEN ClearSize + RoundTo4(1 + pkt.macLen) ELSE ClearSize
AfterInfo == IF pkt.w THEN AfterMac + RoundTo4(1 + pkt.infoLen) ELSE AfterMac

\* Each phase has the cursor behind what has been read, the pointers to it,
\* and the length octets it has been accepted with.
Position ==
  /\ phase = "preamble" => cursor = 0
  /\ phase \in {"mac", "info", "next", "accepted"} => header = <<call, 0>>
  /\ phase = "mac" => pkt.m /\ cursor = ClearSize /\ cursor <= pkt.size
  /\ phase \in {"info", "next", "accepted"} /\ pkt.m =>
       mac = <<call, ClearSize>> /\ pkt.macLen \in {EUI48, EUI64}
  /\ phase = "info" => pkt.w /\ cursor = AfterMac
  /\ phase \in {"next", "accepted"} /\ pkt.w =>
       info = <<call, AfterMac>> /\ pkt.infoLen = FrameInfoSize - 1
  /\ phase = "next" => cursor = AfterInfo
  /\ phase = "accepted" => cursor = AfterInfo + NextSize /\ cursor <= pkt.size

WrittenIsNotRejected == pkt \in WrittenPackets => phase # "rejected"

\* The inductive invariant.
IInv == TypeOK /\ Position /\ WrittenIsNotRejected
-----------------------------------------------------------------------------
LEMMA RoundFacts == RoundTo4(7) = 8 /\ RoundTo4(9) = 12 /\ RoundTo4(5) = 8
<1>1. 10 \div 4 = 2 /\ 12 \div 4 = 3 /\ 8 \div 4 = 2
  OBVIOUS
<1> QED
  BY <1>1 DEF RoundTo4

LEMMA PacketFacts ==
  ASSUME NEW p \in Packets
  PROVE  /\ p \in Datagram /\ p.size \in Nat /\ p.hlen \in Nat
         /\ p.macLen \in Nat /\ p.infoLen \in Nat
         /\ p.m \in BOOLEAN /\ p.w \in BOOLEAN /\ p.k \in BOOLEAN
<1>1. p \in Datagram
  BY PacketsAssumption
<1> QED
  BY <1>1 DEF Datagram

\* The lengths of the parts that are accepted.
LEMMA PartFacts ==
  /\ \A n \in {EUI48, EUI64} : RoundTo4(1 + n) \in {8, 12} /\ n \in Nat
  /\ \A n \in {EUI48, EUI64} : RoundTo4(1 + n) % 4 = 0
  /\ RoundTo4(1 + (FrameInfoSize - 1)) = 8
<1>1. 1 + EUI48 = 7 /\ 1 + EUI64 = 9 /\ 1 + (FrameInfoSize - 1) = 5
  BY DEF EUI48, EUI64, FrameInfoSize
<1>2. EUI48 \in Nat /\ EUI64 \in Nat /\ 8 % 4 = 0 /\ 12 % 4 = 0
  BY DEF EUI48, EUI64
<1> QED
  BY <1>1, <1>2, RoundFacts

\* What the library writes: its HLEN counts its parts.
LEMMA WrittenFacts ==
  ASSUME NEW p \in WrittenPackets
  PROVE  /\ p.version /\ p.type = "clear" /\ p.nextOk /\ p.wbid = "IEEE_80211"
         /\ p.m \in BOOLEAN /\ p.w \in BOOLEAN /\ p.k \in BOOLEAN
         /\ p.m => p.macLen \in {EUI48, EUI64}
         /\ p.w => p.infoLen = FrameInfoSize - 1
         /\ 4 * p.hlen = (ClearSize + (IF p.m THEN RoundTo4(1 + p.macLen) ELSE 0))
                           + (IF p.w THEN 8 ELSE 0)
         /\ p.hlen \in Nat
         /\ p.size = 4 * p.hlen + (IF p.k THEN KeepAliveSize ELSE ControlSize)
<1>1. PICK a \in {0, EUI48, EUI64}, i \in BOOLEAN, k \in BOOLEAN : p = Written(a, i, k)
  BY DEF WrittenPackets
<1>2. /\ p.version /\ p.type = "clear" /\ p.nextOk /\ p.wbid = "IEEE_80211"
      /\ p.m = (a # 0) /\ p.w = i /\ p.k = k /\ p.macLen = a
      /\ p.infoLen = (IF i THEN FrameInfoSize - 1 ELSE 0)
      /\ p.hlen = WrittenHLEN(a, i)
      /\ p.size = 4 * WrittenHLEN(a, i) + (IF k THEN KeepAliveSize ELSE ControlSize)
  BY <1>1 DEF Written
<1>3. EUI48 # 0 /\ EUI64 # 0
  BY DEF EUI48, EUI64
<1>4. InfoRounded(i) = (IF i THEN 8 ELSE 0)
  BY RoundFacts DEF InfoRounded, FrameInfoSize
<1>5. /\ MacRounded(a) = (IF a # 0 THEN RoundTo4(1 + a) ELSE 0)
      /\ MacRounded(a) \in {0, 8, 12}
  BY <1>3, PartFacts DEF MacRounded
<1>6. \A x \in {0, 8, 12}, y \in {0, 8} :
        /\ (8 + y + x) \div 4 \in Nat
        /\ 4 * ((8 + y + x) \div 4) = (8 + x) + y
  <2>1. /\ 8 \div 4 = 2 /\ 16 \div 4 = 4 /\ 20 \div 4 = 5 /\ 24 \div 4 = 6
        /\ 28 \div 4 = 7
    OBVIOUS
  <2> QED
    BY <2>1
<1>7. WrittenHLEN(a, i) \in Nat /\ 4 * WrittenHLEN(a, i) = (8 + MacRounded(a)) + InfoRounded(i)
  BY <1>4, <1>5, <1>6 DEF WrittenHLEN, ClearSize
<1> QED
  BY <1>2, <1>3, <1>4, <1>5, <1>7 DEF ClearSize

LEMMA InitHolds == Init => IInv
<1> SUFFICES ASSUME Init PROVE IInv
  OBVIOUS
<1>1. pkt.size \in Nat
  BY PacketFacts DEF Init
<1> QED
  BY <1>1, MaxCallsAssumption
  DEF Init, IInv, TypeOK, Position, WrittenIsNotRejected, Pointers
-----------------------------------------------------------------------------
(***************************************************************************)
(* The steps.                                                              *)
(***************************************************************************)

LEMMA TypeFacts ==
  ASSUME IInv
  PROVE  /\ TypeOK /\ Position /\ WrittenIsNotRejected
         /\ pkt \in Packets /\ pkt.size \in Nat /\ pkt.macLen \in Nat /\ pkt.infoLen \in Nat
         /\ cursor \in Nat /\ call \in 1 .. MaxCalls /\ MaxCalls \in Nat
BY PacketFacts, MaxCallsAssumption DEF IInv, TypeOK

\* Behind the two parts that have been accepted the cursor is on a word.
LEMMA AfterFacts ==
  ASSUME IInv
  PROVE  /\ phase \in {"info", "next", "accepted"} => AfterMac \in {8, 16, 20}
         /\ phase \in {"next", "accepted"} => AfterInfo \in {8, 16, 20, 24, 28}
BY TypeFacts, PartFacts DEF Position, AfterMac, AfterInfo, ClearSize

LEMMA ReadClearKeeps == ASSUME IInv, ReadClear PROVE IInv'
<1>1. /\ phase = "preamble" /\ cursor = 0 /\ ClearSize <= pkt.size
      /\ header' = <<call, 0>> /\ cursor' = 8 /\ phase' = AfterClear
      /\ UNCHANGED <<pkt, call, mac, info>>
  BY TypeFacts DEF ReadClear, Position, ClearGood, Left, Here, ClearSize
<1>2. /\ phase' \in {"mac", "info", "next"}
      /\ phase' = "mac" <=> pkt.m
      /\ phase' = "info" => pkt.w /\ ~pkt.m
      /\ phase' = "next" => ~pkt.w /\ ~pkt.m
  BY <1>1, TypeFacts, PacketFacts DEF AfterClear
<1>3. TypeOK'
  BY <1>1, <1>2, TypeFacts DEF TypeOK, Pointers, ClearSize
<1>4. Position'
  BY <1>1, <1>2, TypeFacts DEF Position, AfterMac, AfterInfo, ClearSize
<1>5. WrittenIsNotRejected'
  BY <1>2 DEF WrittenIsNotRejected
<1> QED
  BY <1>3, <1>4, <1>5 DEF IInv

LEMMA RejectClearKeeps == ASSUME IInv, RejectClear PROVE IInv'
<1>1. /\ phase = "preamble" /\ cursor = 0 /\ ~ClearGood /\ phase' = "rejected"
      /\ header' = Null /\ UNCHANGED <<pkt, cursor, call, mac, info>>
  BY TypeFacts DEF RejectClear, Position
<1>2. TypeOK' /\ Position'
  BY <1>1, TypeFacts DEF TypeOK, Position, Pointers
<1>3. ASSUME pkt \in WrittenPackets PROVE FALSE
  <2>1. /\ RoundTo4(FrameInfoSize) = 8 /\ RoundTo4(1 + EUI48) = 8
        /\ 8 \div 4 = 2 /\ 16 \div 4 = 4 /\ 24 \div 4 = 6
    BY RoundFacts DEF FrameInfoSize, EUI48
  <2>2. 4 * MinHLEN = (8 + (IF pkt.w THEN 8 ELSE 0)) + (IF pkt.m THEN 8 ELSE 0)
        /\ MinHLEN \in Nat
    BY <1>3, <2>1, WrittenFacts DEF MinHLEN, ClearSize
  <2>3. pkt.m => RoundTo4(1 + pkt.macLen) \in {8, 12}
    BY <1>3, WrittenFacts, PartFacts
  <2>4. pkt.hlen >= MinHLEN /\ pkt.size >= 8
    BY <1>3, <2>2, <2>3, WrittenFacts DEF ClearSize, ControlSize, KeepAliveSize
  <2>5. Left(1) /\ Left(ClearSize)
    BY <1>1, <2>4, TypeFacts DEF Left, ClearSize
  <2> QED
    BY <1>1, <1>3, <2>4, <2>5, WrittenFacts DEF ClearGood, PreambleGood
<1> QED
  BY <1>1, <1>2, <1>3 DEF IInv, WrittenIsNotRejected

LEMMA ReadMacKeeps == ASSUME IInv, ReadMac PROVE IInv'
<1>1. /\ phase = "mac" /\ MacGood /\ mac' = <<call, 8>>
      /\ cursor' = 8 + RoundTo4(1 + pkt.macLen)
      /\ phase' = (IF pkt.w THEN "info" ELSE "next")
      /\ UNCHANGED <<pkt, call, header, info>>
      /\ header = <<call, 0>> /\ pkt.m /\ cursor = 8
  BY TypeFacts DEF ReadMac, Position, Here, ClearSize
<1>2. /\ 15 <= pkt.size /\ pkt.macLen \in {EUI48, EUI64}
      /\ RoundTo4(1 + pkt.macLen) \in {8, 12}
  BY <1>1, TypeFacts, PartFacts DEF MacGood, Left, EUI48, EUI64
<1>3. cursor' \in {16, 20} /\ cursor' <= pkt.size + 5 /\ cursor' % 4 = 0
  BY <1>1, <1>2, TypeFacts
<1>4. TypeOK'
  BY <1>1, <1>3, TypeFacts DEF TypeOK, Pointers
<1>5. Position'
  BY <1>1, <1>2, TypeFacts DEF Position, AfterMac, AfterInfo, ClearSize
<1>6. WrittenIsNotRejected'
  BY <1>1 DEF WrittenIsNotRejected
<1> QED
  BY <1>4, <1>5, <1>6 DEF IInv

LEMMA RejectMacKeeps == ASSUME IInv, RejectMac PROVE IInv'
<1>1. /\ phase = "mac" /\ ~MacGood /\ mac' = Null /\ phase' = "rejected"
      /\ UNCHANGED <<pkt, cursor, call, header, info>>
      /\ pkt.m /\ cursor = 8
  BY TypeFacts DEF RejectMac, Position, ClearSize
<1>2. TypeOK' /\ Position'
  BY <1>1, TypeFacts DEF TypeOK, Position, Pointers
<1>3. ASSUME pkt \in WrittenPackets PROVE FALSE
  <2>1. /\ pkt.macLen \in {EUI48, EUI64}
        /\ RoundTo4(1 + pkt.macLen) \in {8, 12}
    BY <1>1, <1>3, WrittenFacts, PartFacts
  <2>2. pkt.size >= 8 + 8
    BY <1>1, <1>3, <2>1, WrittenFacts DEF ClearSize, ControlSize, KeepAliveSize
  <2> QED
    BY <1>1, <2>1, <2>2, TypeFacts DEF MacGood, Left, EUI48, EUI64
<1> QED
  BY <1>1, <1>2, <1>3 DEF IInv, WrittenIsNotRejected

LEMMA ReadInfoKeeps == ASSUME IInv, ReadInfo PROVE IInv'
<1>1. /\ phase = "info" /\ cursor + 5 <= pkt.size /\ pkt.infoLen = FrameInfoSize - 1
      /\ info' = <<call, cursor>> /\ cursor' = cursor + RoundTo4(1 + pkt.infoLen)
      /\ phase' = "next" /\ UNCHANGED <<pkt, call, header, mac>>
      /\ header = <<call, 0>> /\ pkt.w /\ cursor = AfterMac
      /\ pkt.m => mac = <<call, ClearSize>> /\ pkt.macLen \in {EUI48, EUI64}
  BY TypeFacts DEF ReadInfo, InfoGood, Left, FrameInfoSize, Position, Here
<1>2. RoundTo4(1 + pkt.infoLen) = 8 /\ cursor \in {8, 16, 20}
  BY <1>1, PartFacts, AfterFacts
<1>3. cursor' \in {16, 24, 28} /\ cursor' <= pkt.size + 5 /\ cursor' % 4 = 0
  BY <1>1, <1>2, TypeFacts
<1>4. TypeOK'
  BY <1>1, <1>3, TypeFacts DEF TypeOK, Pointers
<1>5. Position'
  BY <1>1, <1>2, TypeFacts DEF Position, AfterMac, AfterInfo
<1>6. WrittenIsNotRejected'
  BY <1>1 DEF WrittenIsNotRejected
<1> QED
  BY <1>4, <1>5, <1>6 DEF IInv

LEMMA RejectInfoKeeps == ASSUME IInv, RejectInfo PROVE IInv'
<1>1. /\ phase = "info" /\ ~InfoGood /\ info' = Null /\ phase' = "rejected"
      /\ UNCHANGED <<pkt, cursor, call, header, mac>>
      /\ pkt.w /\ cursor = AfterMac
  BY TypeFacts DEF RejectInfo, Position
<1>2. TypeOK' /\ Position'
  BY <1>1, TypeFacts DEF TypeOK, Position, Pointers
<1>3. ASSUME pkt \in WrittenPackets PROVE FALSE
  <2>1. pkt.infoLen = FrameInfoSize - 1 /\ cursor \in {8, 16, 20}
    BY <1>1, <1>3, WrittenFacts, AfterFacts
  <2>2. pkt.size >= cursor + 8
    BY <1>1, <1>3, <2>1, WrittenFacts DEF AfterMac, ClearSize, ControlSize, KeepAliveSize
  <2> QED
    BY <1>1, <2>1, <2>2, TypeFacts DEF InfoGood, Left, FrameInfoSize
<1> QED
  BY <1>1, <1>2, <1>3 DEF IInv, WrittenIsNotRejected

LEMMA ReadNextKeeps == ASSUME IInv, ReadNext PROVE IInv'
<1>1. /\ phase = "next" /\ cursor + NextSize <= pkt.size /\ cursor' = cursor + NextSize
      /\ phase' = "accepted" /\ UNCHANGED <<pkt, call, header, mac, info>>
      /\ cursor = AfterInfo
  BY TypeFacts DEF ReadNext, NextGood, Left, Position
<1>2. NextSize \in Nat
  BY DEF NextSize, KeepAliveSize, ControlSize
<1>3. TypeOK'
  BY <1>1, <1>2, TypeFacts DEF TypeOK, Pointers
<1>4. Position'
  BY <1>1, <1>2, TypeFacts DEF Position, AfterMac, AfterInfo, NextSize
<1>5. WrittenIsNotRejected'
  BY <1>1 DEF WrittenIsNotRejected
<1> QED
  BY <1>3, <1>4, <1>5 DEF IInv

LEMMA RejectNextKeeps == ASSUME IInv, RejectNext PROVE IInv'
<1>1. /\ phase = "next" /\ ~NextGood /\ phase' = "rejected"
      /\ UNCHANGED <<pkt, cursor, call, header, mac, info>>
      /\ cursor = AfterInfo
  BY TypeFacts DEF RejectNext, Position
<1>2. TypeOK' /\ Position'
  BY <1>1, TypeFacts DEF TypeOK, Position, Pointers
<1>3. ASSUME pkt \in WrittenPackets PROVE FALSE
  <2>1. pkt.m => RoundTo4(1 + pkt.macLen) \in {8, 12}
    BY <1>3, WrittenFacts, PartFacts
  <2>2. pkt.w => RoundTo4(1 + pkt.infoLen) = 8
    BY <1>3, WrittenFacts, PartFacts
  <2>3. cursor = 4 * pkt.hlen
    BY <1>1, <1>3, <2>1, <2>2, WrittenFacts DEF AfterInfo, AfterMac, ClearSize
  <2>4. Left(NextSize) /\ pkt.nextOk
    BY <1>3, <2>3, WrittenFacts DEF Left, NextSize, KeepAliveSize, ControlSize
  <2> QED
    BY <1>1, <2>4 DEF NextGood
<1> QED
  BY <1>1, <1>2, <1>3 DEF IInv, WrittenIsNotRejected

LEMMA ReadDTLSKeeps == ASSUME IInv, ReadDTLS PROVE IInv'
<1>1. /\ phase = "preamble" /\ pkt.type = "dtls" /\ phase' \in {"encrypted", "rejected"}
      /\ UNCHANGED <<pkt, call, header, mac, info>>
      /\ cursor' \in Nat /\ cursor' <= pkt.size + 5
  BY TypeFacts DEF ReadDTLS, DTLSGood, Left, DTLSSize, TypeOK
<1>2. TypeOK' /\ Position'
  BY <1>1, TypeFacts DEF TypeOK, Position, Pointers
<1>3. WrittenIsNotRejected'
  BY <1>1, WrittenFacts DEF WrittenIsNotRejected
<1> QED
  BY <1>2, <1>3 DEF IInv

LEMMA NextPacketKeeps == ASSUME IInv, NextPacket PROVE IInv'
<1>1. /\ pkt' \in Packets /\ cursor' = 0 /\ phase' = "preamble"
      /\ call' = call + 1 /\ call < MaxCalls /\ UNCHANGED <<header, mac, info>>
  BY DEF NextPacket
<1>2. pkt'.size \in Nat /\ call' \in 1 .. MaxCalls
  BY <1>1, TypeFacts, PacketFacts
<1> QED
  BY <1>1, <1>2, TypeFacts DEF IInv, TypeOK, Position, WrittenIsNotRejected, Pointers

LEMMA StepKeepsIInv == IInv /\ [Next]_vars => IInv'
<1> SUFFICES ASSUME IInv, [Next]_vars PROVE IInv'
  OBVIOUS
<1>1. CASE UNCHANGED vars
  BY <1>1 DEF vars, IInv, TypeOK, Position, WrittenIsNotRejected, Pointers, AfterMac,
     AfterInfo, NextSize
<1>2. CASE Next
  BY <1>2, ReadClearKeeps, RejectClearKeeps, ReadMacKeeps, RejectMacKeeps, ReadInfoKeeps,
     RejectInfoKeeps, ReadNextKeeps, RejectNextKeeps, ReadDTLSKeeps, NextPacketKeeps
  DEF Next
<1> QED
  BY <1>1, <1>2
-----------------------------------------------------------------------------
(***************************************************************************)
(* The theorems.                                                           *)
(***************************************************************************)

\* The inductive invariant holds in every reachable state.
THEOREM Invariance == Spec => []IInv
BY InitHolds, StepKeepsIInv, PTL DEF Spec

\* The cursor leaves no datagram by more than the five octets that are padded
\* but not checked, and keeps to words.
THEOREM TypeCorrect == Spec => []TypeOK
<1>1. IInv => TypeOK
  BY DEF IInv
<1> QED
  BY <1>1, Invariance, PTL

\* The pointers of an accepted header are those of this datagram, one part
\* behind the other, however often the object has been used.
THEOREM PartsAreOwn == Spec => []PartsFollowFlags
<1>1. IInv => PartsFollowFlags
  BY DEF IInv, Position, PartsFollowFlags, AfterMac
<1> QED
  BY <1>1, Invariance, PTL

\* What the library writes is never refused, and takes HLEN words.
THEOREM OwnHeadersAreRead == Spec => []WrittenIsRead
<1>1. IInv => WrittenIsRead
  <2> SUFFICES ASSUME IInv, pkt \in WrittenPackets, phase = "next"
               PROVE  cursor = 4 * pkt.hlen
    BY DEF IInv, WrittenIsRead, WrittenIsNotRejected
  <2>1. cursor = AfterInfo /\ (pkt.w => RoundTo4(1 + pkt.infoLen) = 8)
    BY WrittenFacts, PartFacts DEF IInv, Position
  <2>2. pkt.m => RoundTo4(1 + pkt.macLen) \in {8, 12}
    BY WrittenFacts, PartFacts
  <2> QED
    BY <2>1, <2>2, WrittenFacts DEF AfterInfo, AfterMac, ClearSize
<1> QED
  BY <1>1, Invariance, PTL

\* Whatever is missing of a datagram the library has written, it is noticed.
THEOREM CutShortIsNoticed == Spec => []CutShortIsRefused
<1>1. IInv => CutShortIsRefused
  <2> DEFINE p == [pkt EXCEPT !.size = 4 * pkt.hlen + NextSize]
  <2> SUFFICES ASSUME IInv, p \in WrittenPackets, phase = "accepted",
                      pkt.size < 4 * pkt.hlen + NextSize
               PROVE  FALSE
    BY DEF CutShortIsRefused
  <2>1. pkt \in Datagram
    BY TypeFacts, PacketFacts
  <2>2. /\ p.hlen = pkt.hlen /\ p.m = pkt.m /\ p.w = pkt.w
        /\ p.macLen = pkt.macLen /\ p.infoLen = pkt.infoLen
    BY <2>1 DEF Datagram
  <2> HIDE DEF p
  <2>3. pkt.w => RoundTo4(1 + pkt.infoLen) = 8
    BY <2>2, WrittenFacts, PartFacts
  <2>4. pkt.m => RoundTo4(1 + pkt.macLen) \in {8, 12}
    BY <2>2, WrittenFacts, PartFacts
  <2>5. /\ 4 * pkt.hlen = (ClearSize + (IF pkt.m THEN RoundTo4(1 + pkt.macLen) ELSE 0))
                            + (IF pkt.w THEN 8 ELSE 0)
        /\ pkt.hlen \in Nat
    BY <2>2, WrittenFacts
  <2>6. AfterInfo = 4 * pkt.hlen
    BY <2>3, <2>4, <2>5 DEF AfterInfo, AfterMac, ClearSize
  <2>7. cursor = AfterInfo + NextSize /\ cursor <= pkt.size
    BY DEF IInv, Position
  <2>8. NextSize \in Nat
    BY DEF NextSize, KeepAliveSize, ControlSize
  <2> QED
    BY <2>5, <2>6, <2>7, <2>8, TypeFacts
<1> QED
  BY <1>1, Invariance, PTL
=============================================================================
