--------------------------- MODULE MCTransportHeader ---------------------------
(***************************************************************************)
(* TransportHeader over what the library writes, whole or cut short        *)
(* anywhere, and over headers with every combination of flags and with     *)
(* lengths that are right, too small or too large.                         *)
(***************************************************************************)
EXTENDS TransportHeader

CutShort ==
  UNION {{[p EXCEPT !.size = n] : n \in 0 .. p.size} : p \in WrittenPackets}

Foreign ==
  [size : {7, 15, 20, 28, 36}, version : {TRUE}, type : {"clear"},
   hlen : {1, 4, 6, 31}, m : BOOLEAN, w : BOOLEAN, k : {FALSE},
   wbid : {"IEEE_80211"}, macLen : {6, 7, 8}, infoLen : {4, 5}, reserved : {TRUE},
   nextOk : {TRUE}]
  \cup
  [size : {36}, version : {TRUE}, type : {"clear"}, hlen : {2, 6}, m : BOOLEAN,
   w : BOOLEAN, k : BOOLEAN, wbid : {"IEEE_80211", "other"}, macLen : {6, 8},
   infoLen : {4}, reserved : {TRUE}, nextOk : BOOLEAN]

OtherPreambles ==
  [size : {0, 1, 3, 4}, version : BOOLEAN, type : {"clear", "dtls", "other"},
   hlen : {2}, m : {FALSE}, w : {FALSE}, k : {FALSE}, wbid : {"IEEE_80211"},
   macLen : {0}, infoLen : {0}, reserved : BOOLEAN, nextOk : {TRUE}]

MCPackets == WrittenPackets \cup CutShort \cup Foreign \cup OtherPreambles
=============================================================================
