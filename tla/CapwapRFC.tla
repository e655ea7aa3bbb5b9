------------------------------ MODULE CapwapRFC ------------------------------
(***************************************************************************)
(* What RFC 5415 and RFC 5416 lay down for the control messages, and what  *)
(* a reader of the library - MessageReader with the catalogue of its       *)
(* elements and the descriptors of its messages - owes to them.            *)
(***************************************************************************)
EXTENDS MessageReader, CapwapElements, CapwapMessages

\* The element readers are the ones of the library; a message is one of its
\* own, with readers for as many of the optional elements as the caller likes.
ASSUME CapwapAssumption ==
  /\ Type = DOMAIN Catalogue
  /\ Element = Catalogue
  /\ \A m \in Messages :
       \E c \in ControlMessages :
         /\ m.optional \subseteq c.optional
         /\ m = [c EXCEPT !.optional = m.optional]

(***************************************************************************)
(* What the RFCs demand, as one set of element types per message.  Where   *)
(* they leave the choice between IPv4 and IPv6 the set names the IPv4      *)
(* element, the only one of the two the library has.                       *)
(***************************************************************************)
RFCMandatory ==
  [DiscoveryRequest |->                                  \* rfc5415.txt:5818
     {"DiscoveryType", "WTPBoardData", "WTPDescriptor", "WTPFrameTunnelMode",
      "WTPMACType", "WTPRadioInformation"},
   DiscoveryResponse |->                                 \* rfc5415.txt:5876
     {"ACDescriptor", "ACName", "WTPRadioInformation", "CAPWAPControlIPv4Address"},
   JoinRequest |->                                       \* rfc5415.txt:6066
     {"LocationData", "WTPBoardData", "WTPDescriptor", "WTPName", "SessionID",
      "WTPFrameTunnelMode", "WTPMACType", "WTPRadioInformation", "ECNSupport",
      "CAPWAPLocalIPv4Address"},
   JoinResponse |->                                      \* rfc5415.txt:6147
     {"ResultCode", "ACDescriptor", "ACName", "WTPRadioInformation", "ECNSupport",
      "CAPWAPControlIPv4Address", "CAPWAPLocalIPv4Address"},
   ConfigurationStatusRequest |->                        \* rfc5415.txt:6359
     {"ACName", "RadioAdministrativeState", "StatisticsTimer", "WTPRebootStatistics"},
   ConfigurationStatusResponse |->                       \* rfc5415.txt:6414
     {"CAPWAPTimers", "DecryptionErrorReportPeriod", "IdleTimeout", "WTPFallback",
      "ACIPv4List"},
   ConfigurationUpdateResponse |-> {"ResultCode"},       \* rfc5415.txt:6522
   ChangeStateEventRequest |->                           \* rfc5415.txt:6581
     {"RadioOperationalState", "ResultCode"},
   ImageDataResponse |-> {"ResultCode"},                 \* rfc5415.txt:7007
   ResetRequest |-> {"ImageIdentifier"},                 \* rfc5415.txt:7039
   WlanConfigurationResponse |-> {"ResultCode"}]         \* rfc5416.txt:1252

\* Of these a message demands one: exactly one for the WLAN Configuration
\* Request (rfc5416.txt:1224), at least one for the WTP Event Request
\* (rfc5415.txt:7119).
RFCOneOf ==
  [WlanConfigurationRequest |-> {"AddWlan", "DeleteWlan", "UpdateWlan"},
   WTPEventRequest |->
     {"DecryptionErrorReport", "DuplicateIPv4Address", "WTPRadioStatistics",
      "WTPRebootStatistics", "DeleteStation", "VendorSpecificPayload",
      "MICCountermeasures", "RSNAErrorReportFromStation", "Statistics"}]

Mandatory(m) == IF m.name \in DOMAIN RFCMandatory THEN RFCMandatory[m.name] ELSE {}
OneOf(m) == IF m.name \in DOMAIN RFCOneOf THEN RFCOneOf[m.name] ELSE {}

\* The least and the greatest length an element may have.  Where the RFCs name
\* no greatest it is the one the library has room for; so it is for the AC IPv4
\* List, of which they allow 1024 addresses and the library takes 16.
Exactly(n) == <<n, n>>
Beyond(n) == <<n, 65535>>
RFCLength ==
  [ACDescriptor |-> Beyond(12), ACIPv4List |-> <<4, 64>>, ACName |-> <<1, 512>>,
   ACNameWithPriority |-> <<2, 513>>, ACTimestamp |-> Exactly(4),
   AddMACACLEntry |-> Beyond(8), CAPWAPControlIPv4Address |-> Exactly(6),
   CAPWAPLocalIPv4Address |-> Exactly(4), CAPWAPTimers |-> Exactly(2),
   CAPWAPTransportProtocol |-> Exactly(1), DecryptionErrorReport |-> Beyond(9),
   DecryptionErrorReportPeriod |-> Exactly(3), DeleteMACACLEntry |-> Beyond(8),
   DeleteStation |-> <<8, 10>>, DiscoveryType |-> Exactly(1),
   DuplicateIPv4Address |-> <<12, 14>>, IdleTimeout |-> Exactly(4),
   ECNSupport |-> Exactly(1), ImageData |-> <<1, 1025>>,
   ImageIdentifier |-> <<5, 1028>>, ImageInformation |-> Exactly(20),
   InitiateDownload |-> Exactly(0), LocationData |-> <<1, 1024>>,
   MaximumMessageLength |-> Exactly(2), MTUDiscoveryPadding |-> <<0, 65535>>,
   RadioAdministrativeState |-> Exactly(2), RadioOperationalState |-> Exactly(3),
   ResultCode |-> Exactly(4), ReturnedMessageElement |-> <<6, 257>>,
   SessionID |-> Exactly(16), StatisticsTimer |-> Exactly(2),
   VendorSpecificPayload |-> <<7, 2054>>, WTPBoardData |-> Beyond(14),
   WTPDescriptor |-> Beyond(33), WTPFallback |-> Exactly(1),
   WTPFrameTunnelMode |-> Exactly(1), WTPMACType |-> Exactly(1),
   WTPName |-> <<1, 512>>, WTPRadioStatistics |-> Exactly(20),
   WTPRebootStatistics |-> Exactly(15), WTPStaticIPAddressInformation |-> Exactly(13),
   AddWlan |-> <<20, 307>>, Antenna |-> <<5, 259>>, AssignedWtpBssid |-> Exactly(8),
   DeleteWlan |-> Exactly(2), DirectSequenceControl |-> Exactly(8),
   InformationElement |-> <<4, 258>>, MACOperation |-> Exactly(16),
   MICCountermeasures |-> Exactly(8), MultiDomainCapability |-> Exactly(8),
   OFDMControl |-> Exactly(8), RateSet |-> <<3, 9>>,
   RSNAErrorReportFromStation |-> Exactly(40), Station |-> <<14, 139>>,
   Statistics |-> Exactly(80), SupportedRates |-> <<3, 9>>, TxPower |-> Exactly(4),
   TxPowerLevel |-> <<4, 18>>, UpdateWlan |-> <<8, 72>>,
   WTPQualityOfService |-> Exactly(34), WTPRadioConfiguration |-> Exactly(16),
   WTPRadioFailAlarmIndication |-> Exactly(4), WTPRadioInformation |-> Exactly(5)]

\* How many sub-elements an element has to have: hardware, software and boot
\* version of a WTP, hardware and software version of an AC, model and serial
\* number of a board, and an address in an entry of an access control list.
RFCSubs(t) ==
  CASE t = "WTPDescriptor" -> 3
    [] t \in {"ACDescriptor", "WTPBoardData"} -> 2
    [] t \in {"AddMACACLEntry", "DeleteMACACLEntry"} -> 1
    [] OTHER -> 0
-----------------------------------------------------------------------------
\* What the buffer carries and the reader can see of it.
Carried == {buf.frames[i].type : i \in Visible}

\* An element as the RFCs want it.
WithinRFC(f) ==
  /\ RFCLength[f.type][1] <= f.len /\ f.len <= RFCLength[f.type][2]
  /\ f.ok
  /\ f.body = "ok"
  /\ RFCSubs(f.type) <= f.subs

\* A message as the RFCs want it, in any order, with anything in the elements
\* its reader knows nothing of, and with no more of an element than there is
\* room for, on which the RFCs do not speak.
Conforms ==
  /\ buf.size = LayoutEnd(buf)
  /\ \A i \in DOMAIN buf.frames :
       buf.frames[i].type \in Handled => WithinRFC(buf.frames[i])
  /\ \A t \in Handled : Load(t) <= Element[t].cap
  /\ Mandatory(msg) \subseteq Carried
  /\ OneOf(msg) # {} => Carried \cap OneOf(msg) # {}
  /\ msg.name = "WlanConfigurationRequest" =>
       Cardinality(Carried \cap OneOf(msg)) = 1

\* A reader must not expect the elements in any specific order
\* (rfc5415.txt:3255) and takes every length the RFC allows: a message laid
\* out as the RFCs want it is accepted, with every optional element the
\* caller has a reader for and with elements the message knows nothing of.
ConformingIsAccepted == call = 1 /\ Conforms => phase # "rejected"

\* A message a mandatory element is missing from is not accepted, whatever
\* else it carries, however often; nor is a WLAN Configuration Request with
\* none or two of its three elements.
AcceptedMeetsRFC ==
  phase = "accepted" /\ call = 1 =>
    /\ Mandatory(msg) \subseteq Carried
    /\ msg.name = "WlanConfigurationRequest" =>
         Cardinality(Carried \cap OneOf(msg)) = 1

\* "The WTP Event Request message MUST contain one of the message elements
\* listed below, or a message element that is defined for a specific wireless
\* technology" (rfc5415.txt:7119).  The reader answers true to any message
\* whose elements can be read, to an empty one too.
EventRequestHasAnEvent ==
  phase = "accepted" /\ msg.name = "WTPEventRequest" => Carried \cap OneOf(msg) # {}

\* "Length: >= 1" (rfc5415.txt:3612, 4515, 5247) and ">= 5" for the Image
\* Identifier (4433): names, locations and image identifiers are not empty.
\* Validate bounds their lengths from above only.
AcceptedTextsAreNotEmpty ==
  phase = "accepted" =>
    \A i \in DOMAIN buf.frames :
      LET f == buf.frames[i] IN
      f.type \in {"ACName", "WTPName", "LocationData", "ImageIdentifier"} \cap Handled =>
        f.len >= RFCLength[f.type][1]
=============================================================================
