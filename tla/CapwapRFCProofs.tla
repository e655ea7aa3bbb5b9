--------------------------- MODULE CapwapRFCProofs ---------------------------
(***************************************************************************)
(* Proofs that the readers keep to the RFCs, for every buffer and for any  *)
(* choice of optional readers.  MessageReaderProofs has shown that a fresh *)
(* reader accepts a buffer exactly if it is well formed and delivers what  *)
(* is required, so that what is left is to compare tables: the lengths of  *)
(* RFC 5415 and RFC 5416 with those of the element readers, and what they  *)
(* demand of a message with what its reader asks for.                      *)
(***************************************************************************)
EXTENDS CapwapRFC, MessageReaderProofs

(***************************************************************************)
(* The two tables of the library against those of the RFCs, row by row.    *)
(***************************************************************************)

\* The limits of Validate are no narrower than the RFCs are, and an element
\* with sub-elements has to have some.
Takes(e, t) ==
  /\ RFCLength[t] \in Nat \X Nat
  /\ e.minLen <= RFCLength[t][1] /\ RFCLength[t][2] <= e.maxLen
  /\ RFCSubs(t) \in Nat
  /\ e.kind = "nested" => RFCSubs(t) > 0

LEMMA LengthsAreTaken ==
  ASSUME NEW t \in DOMAIN RFCLength
  PROVE  Takes(Catalogue[t], t)
<1> USE DEF Takes, RFCLength, Entry, Ranged, Fixed, Array, Nested, Exactly,
      Beyond, RFCSubs
<1>1. /\ Takes(ACDescriptor, "ACDescriptor")
      /\ Takes(ACIPv4List, "ACIPv4List")
      /\ Takes(ACName, "ACName")
      /\ Takes(ACNameWithPriority, "ACNameWithPriority")
      /\ Takes(ACTimestamp, "ACTimestamp")
      /\ Takes(AddMACACLEntry, "AddMACACLEntry")
      /\ Takes(CAPWAPControlIPv4Address, "CAPWAPControlIPv4Address")
      /\ Takes(CAPWAPLocalIPv4Address, "CAPWAPLocalIPv4Address")
  BY DEF ACDescriptor, ACIPv4List, ACName, ACNameWithPriority, ACTimestamp,
    AddMACACLEntry, CAPWAPControlIPv4Address, CAPWAPLocalIPv4Address
<1>2. /\ Takes(CAPWAPTimers, "CAPWAPTimers")
      /\ Takes(CAPWAPTransportProtocol, "CAPWAPTransportProtocol")
      /\ Takes(DecryptionErrorReport, "DecryptionErrorReport")
      /\ Takes(DecryptionErrorReportPeriod, "DecryptionErrorReportPeriod")
      /\ Takes(DeleteMACACLEntry, "DeleteMACACLEntry")
      /\ Takes(DeleteStation, "DeleteStation")
      /\ Takes(DiscoveryType, "DiscoveryType")
      /\ Takes(DuplicateIPv4Address, "DuplicateIPv4Address")
  BY DEF CAPWAPTimers, CAPWAPTransportProtocol, DecryptionErrorReport,
    DecryptionErrorReportPeriod, DeleteMACACLEntry, DeleteStation,
    DiscoveryType, DuplicateIPv4Address
<1>3. /\ Takes(IdleTimeout, "IdleTimeout")
      /\ Takes(ECNSupport, "ECNSupport")
      /\ Takes(ImageData, "ImageData")
      /\ Takes(ImageIdentifier, "ImageIdentifier")
      /\ Takes(ImageInformation, "ImageInformation")
      /\ Takes(InitiateDownload, "InitiateDownload")
      /\ Takes(LocationData, "LocationData")
      /\ Takes(MaximumMessageLength, "MaximumMessageLength")
  BY DEF IdleTimeout, ECNSupport, ImageData, ImageIdentifier, ImageInformation,
    InitiateDownload, LocationData, MaximumMessageLength
<1>4. /\ Takes(MTUDiscoveryPadding, "MTUDiscoveryPadding")
      /\ Takes(RadioAdministrativeState, "RadioAdministrativeState")
      /\ Takes(RadioOperationalState, "RadioOperationalState")
      /\ Takes(ResultCode, "ResultCode")
      /\ Takes(ReturnedMessageElement, "ReturnedMessageElement")
      /\ Takes(SessionID, "SessionID")
      /\ Takes(StatisticsTimer, "StatisticsTimer")
      /\ Takes(VendorSpecificPayload, "VendorSpecificPayload")
  BY DEF MTUDiscoveryPadding, RadioAdministrativeState, RadioOperationalState,
    ResultCode, ReturnedMessageElement, SessionID, StatisticsTimer,
    VendorSpecificPayload
<1>5. /\ Takes(WTPBoardData, "WTPBoardData")
      /\ Takes(WTPDescriptor, "WTPDescriptor")
      /\ Takes(WTPFallback, "WTPFallback")
      /\ Takes(WTPFrameTunnelMode, "WTPFrameTunnelMode")
      /\ Takes(WTPMACType, "WTPMACType")
      /\ Takes(WTPName, "WTPName")
      /\ Takes(WTPRadioStatistics, "WTPRadioStatistics")
      /\ Takes(WTPRebootStatistics, "WTPRebootStatistics")
  BY DEF WTPBoardData, WTPDescriptor, WTPFallback, WTPFrameTunnelMode,
    WTPMACType, WTPName, WTPRadioStatistics, WTPRebootStatistics
<1>6. /\ Takes(WTPStaticIPAddressInformation, "WTPStaticIPAddressInformation")
      /\ Takes(AddWlan, "AddWlan")
      /\ Takes(Antenna, "Antenna")
      /\ Takes(AssignedWtpBssid, "AssignedWtpBssid")
      /\ Takes(DeleteWlan, "DeleteWlan")
      /\ Takes(DirectSequenceControl, "DirectSequenceControl")
      /\ Takes(InformationElement, "InformationElement")
      /\ Takes(MACOperation, "MACOperation")
  BY DEF WTPStaticIPAddressInformation, AddWlan, Antenna, AssignedWtpBssid,
    DeleteWlan, DirectSequenceControl, InformationElement, MACOperation
<1>7. /\ Takes(MICCountermeasures, "MICCountermeasures")
      /\ Takes(MultiDomainCapability, "MultiDomainCapability")
      /\ Takes(OFDMControl, "OFDMControl")
      /\ Takes(RateSet, "RateSet")
      /\ Takes(RSNAErrorReportFromStation, "RSNAErrorReportFromStation")
      /\ Takes(Station, "Station")
      /\ Takes(Statistics, "Statistics")
      /\ Takes(SupportedRates, "SupportedRates")
  BY DEF MICCountermeasures, MultiDomainCapability, OFDMControl, RateSet,
    RSNAErrorReportFromStation, Station, Statistics, SupportedRates
<1>8. /\ Takes(TxPower, "TxPower")
      /\ Takes(TxPowerLevel, "TxPowerLevel")
      /\ Takes(UpdateWlan, "UpdateWlan")
      /\ Takes(WTPQualityOfService, "WTPQualityOfService")
      /\ Takes(WTPRadioConfiguration, "WTPRadioConfiguration")
      /\ Takes(WTPRadioFailAlarmIndication, "WTPRadioFailAlarmIndication")
      /\ Takes(WTPRadioInformation, "WTPRadioInformation")
  BY DEF TxPower, TxPowerLevel, UpdateWlan, WTPQualityOfService,
    WTPRadioConfiguration, WTPRadioFailAlarmIndication,
    WTPRadioInformation
<1> HIDE DEF Takes
<1>9. DOMAIN RFCLength = {"ACDescriptor", "ACIPv4List", "ACName",
                         "ACNameWithPriority", "ACTimestamp", "AddMACACLEntry",
                         "CAPWAPControlIPv4Address", "CAPWAPLocalIPv4Address",
                         "CAPWAPTimers", "CAPWAPTransportProtocol",
                         "DecryptionErrorReport", "DecryptionErrorReportPeriod",
                         "DeleteMACACLEntry", "DeleteStation", "DiscoveryType",
                         "DuplicateIPv4Address", "IdleTimeout", "ECNSupport",
                         "ImageData", "ImageIdentifier", "ImageInformation",
                         "InitiateDownload", "LocationData",
                         "MaximumMessageLength", "MTUDiscoveryPadding",
                         "RadioAdministrativeState", "RadioOperationalState",
                         "ResultCode", "ReturnedMessageElement", "SessionID",
                         "StatisticsTimer", "VendorSpecificPayload",
                         "WTPBoardData", "WTPDescriptor", "WTPFallback",
                         "WTPFrameTunnelMode", "WTPMACType", "WTPName",
                         "WTPRadioStatistics", "WTPRebootStatistics",
                         "WTPStaticIPAddressInformation", "AddWlan", "Antenna",
                         "AssignedWtpBssid", "DeleteWlan",
                         "DirectSequenceControl", "InformationElement",
                         "MACOperation", "MICCountermeasures",
                         "MultiDomainCapability", "OFDMControl", "RateSet",
                         "RSNAErrorReportFromStation", "Station", "Statistics",
                         "SupportedRates", "TxPower", "TxPowerLevel",
                         "UpdateWlan", "WTPQualityOfService",
                         "WTPRadioConfiguration", "WTPRadioFailAlarmIndication",
                         "WTPRadioInformation"}
  OBVIOUS
<1> HIDE DEF RFCLength
<1> QED
  BY <1>1, <1>2, <1>3, <1>4, <1>5, <1>6, <1>7, <1>8, <1>9, SMTT(30) DEF Catalogue

\* The answers of the messages, one by one: each requires what the RFCs demand,
\* makes a choice where they do, and reads nothing they do not know.
Follows(c) ==
  /\ DOMAIN c = {"name", "members", "optional", "required", "oneOf"}
  /\ c.required = Mandatory(c)
  /\ c.oneOf = IF c.name = "WlanConfigurationRequest" THEN OneOf(c) ELSE {}
  /\ c.members \cup c.optional \subseteq DOMAIN RFCLength

LEMMA MessagesFollowTheRFC == \A c \in ControlMessages : Follows(c)
<1> USE DEF Follows, Requiring, Message, Mandatory, RFCMandatory, OneOf, RFCOneOf,
      RFCLength
<1>1. Follows(DiscoveryRequest)
  BY DEF DiscoveryRequest
<1>2. Follows(DiscoveryResponse)
  BY DEF DiscoveryResponse
<1>3. Follows(JoinRequest)
  BY DEF JoinRequest
<1>4. Follows(JoinResponse)
  BY DEF JoinResponse
<1>5. Follows(ConfigurationStatusRequest)
  BY DEF ConfigurationStatusRequest
<1>6. Follows(ConfigurationStatusResponse)
  BY DEF ConfigurationStatusResponse
<1>7. Follows(ConfigurationUpdateRequest)
  BY DEF ConfigurationUpdateRequest
<1>8. Follows(ConfigurationUpdateResponse)
  BY DEF ConfigurationUpdateResponse
<1>9. Follows(ChangeStateEventRequest)
  BY DEF ChangeStateEventRequest
<1>10. Follows(ChangeStateEventResponse)
  BY DEF ChangeStateEventResponse
<1>11. Follows(EchoRequest)
  BY DEF EchoRequest
<1>12. Follows(EchoResponse)
  BY DEF EchoResponse
<1>13. Follows(ImageDataRequest)
  BY DEF ImageDataRequest
<1>14. Follows(ImageDataResponse)
  BY DEF ImageDataResponse
<1>15. Follows(ResetRequest)
  BY DEF ResetRequest
<1>16. Follows(ResetResponse)
  BY DEF ResetResponse
<1>17. Follows(WTPEventRequest)
  BY DEF WTPEventRequest
<1>18. Follows(WTPEventResponse)
  BY DEF WTPEventResponse
<1>19. Follows(WlanConfigurationRequest)
  BY DEF WlanConfigurationRequest
<1>20. Follows(WlanConfigurationResponse)
  BY DEF WlanConfigurationResponse
<1> HIDE DEF Follows
<1> QED
  BY <1>1, <1>2, <1>3, <1>4, <1>5, <1>6, <1>7, <1>8, <1>9, <1>10, <1>11, <1>12,
    <1>13, <1>14, <1>15, <1>16, <1>17, <1>18, <1>19, <1>20 DEF ControlMessages

\* Whatever optional readers the caller has registered.
LEMMA ReaderFollowsTheRFC ==
  ASSUME TypeOK
  PROVE  /\ msg.required = Mandatory(msg)
         /\ msg.oneOf = IF msg.name = "WlanConfigurationRequest" THEN OneOf(msg) ELSE {}
         /\ Handled \subseteq DOMAIN RFCLength
<1>1. PICK c \in ControlMessages :
        msg.optional \subseteq c.optional /\ msg = [c EXCEPT !.optional = msg.optional]
  BY CapwapAssumption DEF TypeOK
<1>2. Follows(c)
  BY MessagesFollowTheRFC
<1>3. /\ msg.name = c.name /\ msg.members = c.members
      /\ msg.required = c.required /\ msg.oneOf = c.oneOf
  BY <1>1, <1>2 DEF Follows
<1>4. Mandatory(msg) = Mandatory(c) /\ OneOf(msg) = OneOf(c)
  BY <1>3 DEF Mandatory, OneOf
<1> QED
  BY <1>1, <1>2, <1>3, <1>4 DEF Follows, Handled
-----------------------------------------------------------------------------
(***************************************************************************)
(* The verdict against the RFCs.                                           *)
(***************************************************************************)

\* The three elements a WLAN Configuration Request chooses from have no
\* sub-elements: to be carried is to be present.
LEMMA ChoiceIsPlain ==
  ASSUME TypeOK, msg.name = "WlanConfigurationRequest"
  PROVE  {t \in msg.oneOf : Delivered(t)} = Carried \cap OneOf(msg)
<1>1. OneOf(msg) = {"AddWlan", "DeleteWlan", "UpdateWlan"}
  BY DEF OneOf, RFCOneOf
<1>2. \A t \in OneOf(msg) : Catalogue[t].kind = "array"
  <2>1. \A t \in OneOf(msg) : Catalogue[t] \in {AddWlan, DeleteWlan, UpdateWlan}
    BY <1>1 DEF Catalogue
  <2>2. AddWlan.kind = "array" /\ DeleteWlan.kind = "array" /\ UpdateWlan.kind = "array"
    BY DEF AddWlan, DeleteWlan, UpdateWlan, Array, Entry
  <2> QED
    BY <2>1, <2>2
<1>3. \A t \in OneOf(msg) : Delivered(t) <=> t \in Carried
  BY <1>2, CapwapAssumption DEF Delivered, Carried, VisibleOf, Kind
<1> QED
  BY <1>3, ReaderFollowsTheRFC

\* What is accepted carries all the RFCs demand.
LEMMA AcceptedCarries == TypeOK /\ VerdictIsExact => AcceptedMeetsRFC
<1> SUFFICES ASSUME TypeOK, VerdictIsExact, phase = "accepted", call = 1
             PROVE  /\ Mandatory(msg) \subseteq Carried
                    /\ msg.name = "WlanConfigurationRequest" =>
                         Cardinality(Carried \cap OneOf(msg)) = 1
  BY DEF AcceptedMeetsRFC
<1>1. WellFormed
  BY DEF VerdictIsExact
<1>2. \A t \in Mandatory(msg) : VisibleOf(t) # {}
  BY <1>1, ReaderFollowsTheRFC DEF WellFormed, Delivered
<1>3. Mandatory(msg) \subseteq Carried
  BY <1>2 DEF Carried, VisibleOf
<1>4. ASSUME msg.name = "WlanConfigurationRequest"
      PROVE  Cardinality(Carried \cap OneOf(msg)) = 1
  <2>1. msg.oneOf # {}
    BY <1>4, ReaderFollowsTheRFC DEF OneOf, RFCOneOf
  <2> QED
    BY <1>1, <1>4, <2>1, ChoiceIsPlain DEF WellFormed
<1> QED
  BY <1>3, <1>4

\* In a buffer that is whole every element is.
LEMMA WholeFits ==
  ASSUME TypeOK, buf.size = LayoutEnd(buf), NEW i \in DOMAIN buf.frames
  PROVE  Fits(buf.frames[i])
<1>1. WellLaidOut(buf) /\ buf.frames \in Seq(Frame) /\ Len(buf.frames) \in Nat
      /\ DOMAIN buf.frames = 1 .. Len(buf.frames)
  BY DEF TypeOK, WellLaidOut
<1> PICK n : n = Len(buf.frames)
  OBVIOUS
<1>2. n \in DOMAIN buf.frames /\ i \in 1 .. n
  BY <1>1
<1>3. buf.size = FrameEnd(buf.frames[n])
  BY <1>2 DEF LayoutEnd
<1>4. CASE i = n
  BY <1>3, <1>4, <1>1, FrameFacts DEF Fits
<1>5. CASE i < n
  <2>1. FrameEnd(buf.frames[i]) <= buf.frames[n].at
    BY <1>1, <1>2, <1>5, FramesInOrder
  <2>2. /\ FrameEnd(buf.frames[i]) \in Nat /\ FrameEnd(buf.frames[n]) \in Nat
        /\ FrameEnd(buf.frames[n]) >= buf.frames[n].at + HeaderSize
        /\ buf.frames[n].at \in Nat
    BY <1>1, <1>2, FrameFacts DEF Frame
  <2> QED
    BY <1>3, <2>1, <2>2 DEF Fits, HeaderSize
<1> QED
  BY <1>1, <1>2, <1>4, <1>5

\* An element as the RFCs want it passes Validate.
LEMMA WithinPasses ==
  ASSUME TypeOK, NEW i \in DOMAIN buf.frames, buf.frames[i].type \in Handled,
         WithinRFC(buf.frames[i]), Fits(buf.frames[i])
  PROVE  /\ HeaderOk(buf.frames[i]) /\ buf.frames[i].body = "ok"
         /\ Kind(buf.frames[i].type) = "nested" => buf.frames[i].subs > 0
<1> DEFINE t == buf.frames[i].type
<1>1. Takes(Element[t], t)
  BY ReaderFollowsTheRFC, LengthsAreTaken, CapwapAssumption
<1>2. /\ buf.frames[i] \in Frame /\ IsDescriptor(Element[t])
      /\ buf.frames[i].len \in Nat /\ buf.frames[i].subs \in Nat
  BY FrameFacts DEF TypeOK, Frame
<1>3. Element[t].minLen \in Nat /\ Element[t].maxLen \in Nat
      /\ RFCLength[t][1] \in Nat /\ RFCLength[t][2] \in Nat
  BY <1>1, <1>2 DEF Takes, IsDescriptor
<1>4. Element[t].minLen <= buf.frames[i].len /\ buf.frames[i].len <= Element[t].maxLen
  BY <1>1, <1>2, <1>3 DEF Takes, WithinRFC
<1>5. Kind(t) = "nested" => buf.frames[i].subs > 0
  BY <1>1, <1>2 DEF Takes, WithinRFC, Kind
<1> QED
  BY <1>4, <1>5 DEF HeaderOk, WithinRFC

\* A buffer that conforms is one a declarative reading finds well formed.
LEMMA ConformingIsWellFormed ==
  ASSUME TypeOK, Conforms
  PROVE  WellFormed
<1>1. ASSUME NEW i \in Visible
      PROVE  LET f == buf.frames[i] IN
             IF f.type \in Handled THEN HeaderOk(f) /\ f.body = "ok" ELSE Fits(f)
  <2>1. i \in DOMAIN buf.frames
    BY DEF Visible
  <2>2. Fits(buf.frames[i])
    BY <2>1, WholeFits DEF Conforms
  <2> QED
    BY <2>1, <2>2, WithinPasses DEF Conforms
<1>2. ASSUME NEW t \in Handled, t \in Carried PROVE Delivered(t)
  <2>1. VisibleOf(t) # {} /\ VisibleOf(t) \subseteq DOMAIN buf.frames
    BY <1>2 DEF Carried, VisibleOf, Visible
  <2>2. Max(VisibleOf(t)) \in VisibleOf(t)
    BY <2>1, LastOfSome
  <2> PICK last : last = Max(VisibleOf(t))
    OBVIOUS
  <2>3. last \in DOMAIN buf.frames /\ buf.frames[last].type = t
    BY <2>2 DEF VisibleOf, Visible
  <2>4. Kind(t) = "nested" => buf.frames[last].subs > 0
    BY <2>3, WithinPasses, WholeFits DEF Conforms
  <2> QED
    BY <2>1, <2>4 DEF Delivered
<1>3. \A t \in msg.required : Delivered(t)
  <2>1. msg.required \subseteq Handled
    BY MessagesAssumption DEF TypeOK, Handled
  <2> QED
    BY <1>2, <2>1, ReaderFollowsTheRFC DEF Conforms
<1>4. msg.oneOf # {} => Cardinality({t \in msg.oneOf : Delivered(t)}) = 1
  BY ReaderFollowsTheRFC, ChoiceIsPlain DEF Conforms
<1> QED
  BY <1>1, <1>3, <1>4 DEF WellFormed, Conforms

\* A reader used for the first time never refuses a message as the RFCs want
\* it: whatever the order of its elements, whatever lengths within their limits
\* they have, whatever optional elements it carries and the caller has readers
\* for, and whatever is in the elements nobody handles.
THEOREM ConformingHolds == Spec => []ConformingIsAccepted
<1>1. TypeOK /\ VerdictIsExact => ConformingIsAccepted
  BY ConformingIsWellFormed DEF ConformingIsAccepted, VerdictIsExact, TypeOK
<1> QED
  BY <1>1, TypeCorrect, VerdictIsThatOfTheBuffer, PTL

\* Nor does it accept one that lacks a mandatory element of the RFCs, or a WLAN
\* Configuration Request with none or two of its three, whatever else it holds.
THEOREM AcceptedMeetsHolds == Spec => []AcceptedMeetsRFC
BY AcceptedCarries, TypeCorrect, VerdictIsThatOfTheBuffer, PTL
==============================================================================
