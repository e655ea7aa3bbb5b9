--------------------------- MODULE CapwapElements ---------------------------
(***************************************************************************)
(* The catalogue of the message elements of src/elements: how the reader   *)
(* and the writer of each behave, in the terms of MessageReader and of     *)
(* WritableArray.                                                          *)
(*                                                                         *)
(*   kind       "single", "array" or "nested"                              *)
(*   minLen, maxLen   the declared lengths that Validate, and the length   *)
(*              arithmetic of Deserialize, let through; a length between   *)
(*              the two that is refused all the same (9 for DeleteStation, *)
(*              no multiple of four for ACIPv4List) is a value that fails  *)
(*              Validate, as a bad Radio ID or MAC length is               *)
(*   cap        max_count of the reader, which the writer asserts too      *)
(*   resets, byHeader   see MessageReader                                  *)
(*   key        what Add of the writable array looks for to find out       *)
(*              whether it replaces: the "radio" id, the "mac" address,    *)
(*              the "value" as a whole; "none": it always appends;         *)
(*              "whole": there is no Add, the array is given as a span     *)
(*                                                                         *)
(* Per element the code is the stretch of its file from Validate to the    *)
(* end of Deserialize: of what lies between them, Add and the ASSERTs give *)
(* key and cap, and Serialize writes the length that Validate asks for.    *)
(***************************************************************************)
EXTENDS Integers

Entry(kind, lo, hi, cap, resets, byHeader, key) ==
  [kind |-> kind, minLen |-> lo, maxLen |-> hi, cap |-> cap,
   resets |-> resets, byHeader |-> byHeader, key |-> key]

Ranged(lo, hi) == Entry("single", lo, hi, 1, "never", FALSE, "whole")

\* size is sizeof the packed structure, its four octets of header included.
Fixed(size) == Ranged(size - 4, size - 4)

Array(lo, hi, cap, key) == Entry("array", lo, hi, cap, "never", FALSE, key)

\* The length of a nested element is bounded by its 16-bit field only.
Nested(lo, cap, resets, byHeader) ==
  Entry("nested", lo, 65535, cap, resets, byHeader, "whole")

-----------------------------------------------------------------------------
\* Elements of a fixed size that occur once.
ACTimestamp == Fixed(8)
CAPWAPTimers == Fixed(6)
CAPWAPTransportProtocol == Fixed(5)
DiscoveryType == Fixed(5)
ECNSupport == Fixed(5)
IdleTimeout == Fixed(8)
ImageInformation == Fixed(24)
InitiateDownload == Fixed(4)
MaximumMessageLength == Fixed(6)
ResultCode == Fixed(8)
SessionID == Fixed(20)
StatisticsTimer == Fixed(6)
WTPFallback == Fixed(5)
WTPFrameTunnelMode == Fixed(5)
WTPMACType == Fixed(5)
WTPRebootStatistics == Fixed(19)
WTPStaticIPAddressInformation == Fixed(17)

-----------------------------------------------------------------------------
\* Elements of a variable size that occur once.
\* Mutant: < instead of <= in the comparison with max_data_size.
ACNameTooShort == Ranged(0, 511)

ACName == Ranged(0, 512)
WTPName == Ranged(0, 512)
LocationData == Ranged(0, 1024)
ACIPv4List == Ranged(0, 64)
ImageData == Ranged(1, 16385)
ImageIdentifier == Ranged(4, 1028)
MTUDiscoveryPadding == Ranged(0, 65535)

-----------------------------------------------------------------------------
\* Elements that may be repeated, RFC 5415.
CAPWAPControlIPv4Address == Array(6, 6, 32, "whole")
CAPWAPLocalIPv4Address == Array(4, 4, 32, "whole")
DecryptionErrorReportPeriod == Array(3, 3, 32, "radio")
RadioAdministrativeState == Array(2, 2, 32, "radio")
RadioOperationalState == Array(3, 3, 32, "radio")
WTPRadioStatistics == Array(20, 20, 32, "value")
ACNameWithPriority == Array(1, 513, 32, "value")
DeleteStation == Array(8, 10, 32, "radio and mac")
DuplicateIPv4Address == Array(12, 14, 32, "value")
ReturnedMessageElement == Array(2, 257, 32, "value")
VendorSpecificPayload == Array(6, 2054, 1024, "none")
DecryptionErrorReport == Array(2, 65535, 32, "value")

-----------------------------------------------------------------------------
\* Elements with sub-elements.
ACDescriptor == Nested(12, 8, "never", FALSE)
WTPBoardData == Nested(4, 10, "never", TRUE)
WTPDescriptor == Nested(3, 8, "late", TRUE)
AddMACACLEntry == Nested(1, 255, "start", FALSE)
DeleteMACACLEntry == Nested(1, 255, "start", FALSE)

-----------------------------------------------------------------------------
\* Elements that may be repeated, RFC 5416.
AssignedWtpBssid == Array(8, 8, 32, "radio and wlan")
DeleteWlan == Array(2, 2, 32, "radio and wlan")
DirectSequenceControl == Array(8, 8, 32, "radio")
MACOperation == Array(16, 16, 32, "radio")
MICCountermeasures == Array(8, 8, 32, "radio and wlan")
MultiDomainCapability == Array(8, 8, 32, "radio")
OFDMControl == Array(8, 8, 32, "radio")
RSNAErrorReportFromStation == Array(40, 40, 32, "mac")
StationQoSProfile == Array(8, 8, 32, "mac")
Statistics == Array(80, 80, 32, "radio")
TxPower == Array(4, 4, 32, "radio")
UpdateStationQoS == Array(9, 9, 32, "mac")
WTPQualityOfService == Array(34, 34, 32, "radio")
WTPRadioConfiguration == Array(16, 16, 32, "radio")
WTPRadioFailAlarmIndication == Array(4, 4, 32, "radio")
WTPRadioInformation == Array(5, 5, 32, "radio")
Antenna == Array(4, 259, 32, "radio")
InformationElement == Array(3, 258, 32, "radio and wlan")
RateSet == Array(3, 9, 32, "radio")
Station == Array(13, 139, 32, "radio and mac")
StationSessionKey == Array(20, 276, 32, "mac")
SupportedRates == Array(3, 9, 32, "radio")
TxPowerLevel == Array(4, 18, 32, "radio")
UpdateWlan == Array(8, 72, 32, "radio and wlan")
AddWlan == Array(19, 307, 16, "radio and wlan")

-----------------------------------------------------------------------------
(***************************************************************************)
(* The catalogue, by element type.                                         *)
(***************************************************************************)

Catalogue ==
  [ACTimestamp |-> ACTimestamp,
   CAPWAPTimers |-> CAPWAPTimers,
   CAPWAPTransportProtocol |-> CAPWAPTransportProtocol,
   DiscoveryType |-> DiscoveryType,
   ECNSupport |-> ECNSupport,
   IdleTimeout |-> IdleTimeout,
   ImageInformation |-> ImageInformation,
   InitiateDownload |-> InitiateDownload,
   MaximumMessageLength |-> MaximumMessageLength,
   ResultCode |-> ResultCode,
   SessionID |-> SessionID,
   StatisticsTimer |-> StatisticsTimer,
   WTPFallback |-> WTPFallback,
   WTPFrameTunnelMode |-> WTPFrameTunnelMode,
   WTPMACType |-> WTPMACType,
   WTPRebootStatistics |-> WTPRebootStatistics,
   WTPStaticIPAddressInformation |-> WTPStaticIPAddressInformation,
   ACName |-> ACName,
   WTPName |-> WTPName,
   LocationData |-> LocationData,
   ACIPv4List |-> ACIPv4List,
   ImageData |-> ImageData,
   ImageIdentifier |-> ImageIdentifier,
   MTUDiscoveryPadding |-> MTUDiscoveryPadding,
   CAPWAPControlIPv4Address |-> CAPWAPControlIPv4Address,
   CAPWAPLocalIPv4Address |-> CAPWAPLocalIPv4Address,
   DecryptionErrorReportPeriod |-> DecryptionErrorReportPeriod,
   RadioAdministrativeState |-> RadioAdministrativeState,
   RadioOperationalState |-> RadioOperationalState,
   WTPRadioStatistics |-> WTPRadioStatistics,
   ACNameWithPriority |-> ACNameWithPriority,
   DeleteStation |-> DeleteStation,
   DuplicateIPv4Address |-> DuplicateIPv4Address,
   ReturnedMessageElement |-> ReturnedMessageElement,
   VendorSpecificPayload |-> VendorSpecificPayload,
   DecryptionErrorReport |-> DecryptionErrorReport,
   ACDescriptor |-> ACDescriptor,
   WTPBoardData |-> WTPBoardData,
   WTPDescriptor |-> WTPDescriptor,
   AddMACACLEntry |-> AddMACACLEntry,
   DeleteMACACLEntry |-> DeleteMACACLEntry,
   AssignedWtpBssid |-> AssignedWtpBssid,
   DeleteWlan |-> DeleteWlan,
   DirectSequenceControl |-> DirectSequenceControl,
   MACOperation |-> MACOperation,
   MICCountermeasures |-> MICCountermeasures,
   MultiDomainCapability |-> MultiDomainCapability,
   OFDMControl |-> OFDMControl,
   RSNAErrorReportFromStation |-> RSNAErrorReportFromStation,
   StationQoSProfile |-> StationQoSProfile,
   Statistics |-> Statistics,
   TxPower |-> TxPower,
   UpdateStationQoS |-> UpdateStationQoS,
   WTPQualityOfService |-> WTPQualityOfService,
   WTPRadioConfiguration |-> WTPRadioConfiguration,
   WTPRadioFailAlarmIndication |-> WTPRadioFailAlarmIndication,
   WTPRadioInformation |-> WTPRadioInformation,
   Antenna |-> Antenna,
   InformationElement |-> InformationElement,
   RateSet |-> RateSet,
   Station |-> Station,
   StationSessionKey |-> StationSessionKey,
   SupportedRates |-> SupportedRates,
   TxPowerLevel |-> TxPowerLevel,
   UpdateWlan |-> UpdateWlan,
   AddWlan |-> AddWlan]
=============================================================================
