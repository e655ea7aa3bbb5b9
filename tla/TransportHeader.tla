---------------------------- MODULE TransportHeader ----------------------------
(***************************************************************************)
(* The head of every datagram: the CAPWAP transport header with its two    *)
(* optional parts, or the DTLS header, and what the caller reads behind    *)
(* it - a control header, or a keep-alive of the data channel.             *)
(*                                                                         *)
(* ReadableCapwapHeader goes by the M and W bits and by the length octets  *)
(* of the optional parts; HLEN is only compared with a lower bound.  Each  *)
(* part is checked for the octets it has, and the cursor is then moved by  *)
(* a multiple of four.                                                     *)
(***************************************************************************)
EXTENDS Integers, Sequences

CONSTANTS
  Packets,  \* the datagrams that may arrive
  MaxCalls  \* how often one ReadableCapwapHeader is used

ClearSize == 8       \* sizeof(ClearHeader)
DTLSSize == 4        \* sizeof(DTLSHeader)
EUI48 == 6
EUI64 == 8
FrameInfoSize == 5   \* sizeof(IEEE80211FrameInfo)
ControlSize == 8     \* sizeof(ControlHeader)
KeepAliveSize == 22  \* sizeof(DataChannelKeepAlive)

\* Mutant: the size as it is.
RoundTo4Not(n) == n

RoundTo4(n) == 4 * ((n + 3) \div 4)

(***************************************************************************)
(* A datagram: its size, the preamble (version is that of RFC 5415; type), *)
(* the fields of the header that are looked at, the length octets of the   *)
(* Radio MAC Address and of the IEEE 802.11 Frame Info where the walk      *)
(* meets them, whether the reserved field of a DTLS header is zero, and    *)
(* whether the control header or keep-alive behind it passes Validate.     *)
(***************************************************************************)
Datagram ==
  [size : Nat, version : BOOLEAN, type : {"clear", "dtls", "other"},
   hlen : 0 .. 31, m : BOOLEAN, w : BOOLEAN, k : BOOLEAN,
   wbid : {"IEEE_80211", "other"}, macLen : 0 .. 255, infoLen : 0 .. 255,
   reserved : BOOLEAN, nextOk : BOOLEAN]

ASSUME PacketsAssumption == Packets \subseteq Datagram
ASSUME MaxCallsAssumption == MaxCalls \in Nat \ {0}
-----------------------------------------------------------------------------
(***************************************************************************)
(* What WritableCapwapHeader writes.  mac is the length of the address, 0  *)
(* for nullptr; info says whether there is Frame Info.                     *)
(***************************************************************************)
MacRounded(mac) == IF mac = 0 THEN 0 ELSE RoundTo4(1 + mac)
InfoRounded(info) == IF info THEN RoundTo4(FrameInfoSize) ELSE 0

WrittenHLEN(mac, info) == (ClearSize + InfoRounded(info) + MacRounded(mac)) \div 4

\* The header, and behind it a control header or a keep-alive.
Written(mac, info, k) ==
  [size |-> 4 * WrittenHLEN(mac, info) + (IF k THEN KeepAliveSize ELSE ControlSize),
   version |-> TRUE, type |-> "clear", hlen |-> WrittenHLEN(mac, info),
   m |-> mac # 0, w |-> info, k |-> k, wbid |-> "IEEE_80211",
   macLen |-> mac, infoLen |-> IF info THEN FrameInfoSize - 1 ELSE 0,
   reserved |-> TRUE, nextOk |-> TRUE]

WrittenPackets ==
  {Written(mac, info, k) : mac \in {0, EUI48, EUI64}, info \in BOOLEAN, k \in BOOLEAN}
-----------------------------------------------------------------------------
VARIABLES
  pkt,     \* the datagram
  cursor,  \* RawData::current
  phase,   \* "preamble", "mac", "info", "next", or how it ended
  call,    \* how many datagrams there have been
  header,  \* the three pointers of ReadableCapwapHeader: the call they were
  mac,     \* set in and the offset they point to
  info

vars == <<pkt, cursor, phase, call, header, mac, info>>

Null == <<0, 0>>
Here == <<call, cursor>>

Init ==
  /\ pkt \in Packets
  /\ cursor = 0
  /\ phase = "preamble"
  /\ call = 1
  /\ header = Null /\ mac = Null /\ info = Null

Left(n) == cursor + n <= pkt.size

PreambleGood == Left(1) /\ pkt.version

MinHLEN ==
  (ClearSize + (IF pkt.w THEN RoundTo4(FrameInfoSize) ELSE 0)
             + (IF pkt.m THEN RoundTo4(1 + EUI48) ELSE 0)) \div 4

\* Mutant: one word more is asked for.
ClearGoodStrict ==
  /\ PreambleGood /\ pkt.type = "clear"
  /\ Left(ClearSize)
  /\ pkt.w => pkt.wbid = "IEEE_80211"
  /\ pkt.hlen > MinHLEN

\* Every RID and T of the header fits its bits and passes.
ClearGood ==
  /\ PreambleGood /\ pkt.type = "clear"
  /\ Left(ClearSize)
  /\ pkt.w => pkt.wbid = "IEEE_80211"
  /\ pkt.hlen >= MinHLEN

\* Where ReadableCapwapHeader::Deserialize goes on.
AfterClear == IF pkt.m THEN "mac" ELSE IF pkt.w THEN "info" ELSE "next"

ReadClear ==
  /\ phase = "preamble"
  /\ ClearGood
  /\ header' = Here
  /\ cursor' = cursor + ClearSize
  /\ phase' = AfterClear
  /\ UNCHANGED <<pkt, call, mac, info>>

\* The pointer is overwritten with nullptr; the other two are left alone.
RejectClear ==
  /\ phase = "preamble"
  /\ ~ClearGood /\ ~(PreambleGood /\ pkt.type = "dtls")
  /\ header' = Null
  /\ phase' = "rejected"
  /\ UNCHANGED <<pkt, cursor, call, mac, info>>

\* Only if neither of the two lengths fits does the check fail.
MacGood ==
  /\ Left(1 + EUI48) \/ Left(1 + EUI64)
  /\ pkt.macLen \in {EUI48, EUI64}

\* Mutant: the pointer of an earlier datagram is kept.
ReadMacKept ==
  /\ phase = "mac"
  /\ MacGood
  /\ mac' = IF mac = Null THEN Here ELSE mac
  /\ cursor' = cursor + RoundTo4(1 + pkt.macLen)
  /\ phase' = IF pkt.w THEN "info" ELSE "next"
  /\ UNCHANGED <<pkt, call, header, info>>

ReadMac ==
  /\ phase = "mac"
  /\ MacGood
  /\ mac' = Here
  /\ cursor' = cursor + RoundTo4(1 + pkt.macLen)
  /\ phase' = IF pkt.w THEN "info" ELSE "next"
  /\ UNCHANGED <<pkt, call, header, info>>

RejectMac ==
  /\ phase = "mac"
  /\ ~MacGood
  /\ mac' = Null
  /\ phase' = "rejected"
  /\ UNCHANGED <<pkt, cursor, call, header, info>>

InfoGood == Left(FrameInfoSize) /\ pkt.infoLen = FrameInfoSize - 1

ReadInfo ==
  /\ phase = "info"
  /\ InfoGood
  /\ info' = Here
  /\ cursor' = cursor + RoundTo4(1 + pkt.infoLen)
  /\ phase' = "next"
  /\ UNCHANGED <<pkt, call, header, mac>>

RejectInfo ==
  /\ phase = "info"
  /\ ~InfoGood
  /\ info' = Null
  /\ phase' = "rejected"
  /\ UNCHANGED <<pkt, cursor, call, header, mac>>

\* What is behind the header: the K bit tells the caller which.
NextSize == IF pkt.k THEN KeepAliveSize ELSE ControlSize

\* Mutant: the extent is not looked at.
NextGoodUnchecked == pkt.nextOk

NextGood == Left(NextSize) /\ pkt.nextOk

ReadNext ==
  /\ phase = "next"
  /\ NextGood
  /\ cursor' = cursor + NextSize
  /\ phase' = "accepted"
  /\ UNCHANGED <<pkt, call, header, mac, info>>

RejectNext ==
  /\ phase = "next"
  /\ ~NextGood
  /\ phase' = "rejected"
  /\ UNCHANGED <<pkt, cursor, call, header, mac, info>>

DTLSGood == Left(DTLSSize) /\ pkt.reserved

\* The caller looks at the preamble and takes the datagram for encrypted.
ReadDTLS ==
  /\ phase = "preamble"
  /\ PreambleGood /\ pkt.type = "dtls"
  /\ IF DTLSGood THEN cursor' = cursor + DTLSSize /\ phase' = "encrypted"
                 ELSE phase' = "rejected" /\ UNCHANGED cursor
  /\ UNCHANGED <<pkt, call, header, mac, info>>

\* The next datagram is read with the same object.
NextPacket ==
  /\ phase \in {"accepted", "rejected", "encrypted"}
  /\ call < MaxCalls
  /\ pkt' \in Packets
  /\ cursor' = 0
  /\ phase' = "preamble"
  /\ call' = call + 1
  /\ UNCHANGED <<header, mac, info>>

Next ==
  \/ ReadClear \/ RejectClear \/ ReadMac \/ RejectMac \/ ReadInfo \/ RejectInfo
  \/ ReadNext \/ RejectNext \/ ReadDTLS \/ NextPacket

Spec == Init /\ [][Next]_vars
-----------------------------------------------------------------------------
(***************************************************************************)
(* Properties.                                                             *)
(***************************************************************************)
Pointers == ((1 .. MaxCalls) \X Nat) \cup {Null}

\* The state is well typed.  The cursor may leave the datagram by the octets
\* that are padded but not checked, five at the most (a MAC of eight octets
\* of which six are there), and stays on a word up to the last part.
TypeOK ==
  /\ pkt \in Packets
  /\ cursor \in Nat
  /\ phase \in {"preamble", "mac", "info", "next", "accepted", "rejected", "encrypted"}
  /\ call \in 1 .. MaxCalls
  /\ header \in Pointers /\ mac \in Pointers /\ info \in Pointers
  /\ cursor <= pkt.size + 5
  /\ phase \in {"mac", "info", "next"} => cursor % 4 = 0

\* A datagram written by this library is accepted whatever parts it has, and
\* the header takes exactly the HLEN words it says.
WrittenIsRead ==
  pkt \in WrittenPackets =>
    /\ phase # "rejected"
    /\ phase = "next" => cursor = 4 * pkt.hlen

\* Behind an accepted header the parts that the flags announce are those of
\* this datagram and lie one behind the other, on word boundaries, where the
\* length octets before them say - also if the object has been used before.
PartsFollowFlags ==
  phase \in {"next", "accepted"} =>
    /\ header = <<call, 0>>
    /\ pkt.m => mac = <<call, ClearSize>>
    /\ pkt.w => info = <<call, IF pkt.m THEN ClearSize + RoundTo4(1 + pkt.macLen)
                                        ELSE ClearSize>>

\* A datagram written by this library and cut short anywhere is refused: the
\* octets that the header's readers pass over unchecked are missed by what is
\* read behind it.
CutShortIsRefused ==
  pkt \notin WrittenPackets
    /\ [pkt EXCEPT !.size = 4 * pkt.hlen + NextSize] \in WrittenPackets
    /\ pkt.size < 4 * pkt.hlen + NextSize
    => phase # "accepted"

\* "length of the CAPWAP transport header in 4-byte words" (ClearHeader.h:77),
\* which "includes the optional headers" (rfc5415.txt:2640): what is read
\* behind an accepted header begins HLEN words into the datagram.
HLENIsTheLength ==
  phase = "accepted" => cursor = 4 * pkt.hlen + NextSize
=============================================================================
