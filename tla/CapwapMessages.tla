--------------------------- MODULE CapwapMessages ---------------------------
(***************************************************************************)
(* The control messages: for each Readable<Message>, the element types its *)
(* switch names, those a caller may register an optional reader for (the   *)
(* readers that implement IReadable<Message>OptionalElement), those it     *)
(* requires, and - WLAN Configuration Request only - those of which it     *)
(* wants exactly one.                                                      *)
(***************************************************************************)
EXTENDS Integers

Message(name, members, optional, required, oneOf) ==
  [name |-> name, members |-> members, optional |-> optional,
   required |-> required, oneOf |-> oneOf]

\* A message whose switch names only what it requires.
Requiring(name, required, optional) ==
  Message(name, required, optional, required, {})

DiscoveryRequest ==
  LET required == {"DiscoveryType", "WTPBoardData", "WTPDescriptor",
                   "WTPFrameTunnelMode", "WTPMACType", "WTPRadioInformation"}
  IN  Message("DiscoveryRequest", required \cup {"MTUDiscoveryPadding"},
              {"VendorSpecificPayload"}, required, {})

DiscoveryResponse ==
  Requiring("DiscoveryResponse",
    {"ACDescriptor", "ACName", "WTPRadioInformation", "CAPWAPControlIPv4Address"},
    {"VendorSpecificPayload"})

JoinRequest ==
  Requiring("JoinRequest",
    {"LocationData", "WTPBoardData", "WTPDescriptor", "WTPName", "SessionID",
     "WTPFrameTunnelMode", "WTPMACType", "WTPRadioInformation", "ECNSupport",
     "CAPWAPLocalIPv4Address"},
    {"CAPWAPTransportProtocol", "MaximumMessageLength", "WTPRebootStatistics",
     "VendorSpecificPayload"})

\* Mutant: ecn_support.IsPresent() is left out of the answer.
JoinResponseWithoutECN ==
  LET members == {"ResultCode", "ACDescriptor", "ACName", "WTPRadioInformation",
                  "ECNSupport", "CAPWAPControlIPv4Address", "CAPWAPLocalIPv4Address"}
  IN  Message("JoinResponse", members, {}, members \ {"ECNSupport"}, {})

JoinResponse ==
  Requiring("JoinResponse",
    {"ResultCode", "ACDescriptor", "ACName", "WTPRadioInformation", "ECNSupport",
     "CAPWAPControlIPv4Address", "CAPWAPLocalIPv4Address"},
    {"CAPWAPTransportProtocol", "MaximumMessageLength", "ACIPv4List",
     "ImageIdentifier", "VendorSpecificPayload"})

ConfigurationStatusRequest ==
  Requiring("ConfigurationStatusRequest",
    {"ACName", "RadioAdministrativeState", "StatisticsTimer", "WTPRebootStatistics"},
    {"CAPWAPTransportProtocol", "WTPStaticIPAddressInformation",
     "ACNameWithPriority", "VendorSpecificPayload", "DirectSequenceControl",
     "MACOperation", "MultiDomainCapability", "OFDMControl", "TxPower",
     "WTPRadioConfiguration", "WTPRadioInformation", "Antenna", "SupportedRates",
     "TxPowerLevel"})

ConfigurationStatusResponse ==
  Requiring("ConfigurationStatusResponse",
    {"CAPWAPTimers", "DecryptionErrorReportPeriod", "IdleTimeout", "WTPFallback",
     "ACIPv4List"},
    {"WTPStaticIPAddressInformation", "VendorSpecificPayload",
     "DirectSequenceControl", "MACOperation", "MultiDomainCapability", "OFDMControl",
     "TxPower", "WTPQualityOfService", "WTPRadioConfiguration", "Antenna", "RateSet",
     "SupportedRates"})

ConfigurationUpdateRequest ==
  Requiring("ConfigurationUpdateRequest",
    {},
    {"ACTimestamp", "CAPWAPTimers", "IdleTimeout", "StatisticsTimer", "WTPFallback",
     "WTPStaticIPAddressInformation", "WTPName", "LocationData", "ImageIdentifier",
     "DecryptionErrorReportPeriod", "RadioAdministrativeState", "ACNameWithPriority",
     "VendorSpecificPayload", "AddMACACLEntry", "DeleteMACACLEntry",
     "DirectSequenceControl", "MACOperation", "MultiDomainCapability", "OFDMControl",
     "RSNAErrorReportFromStation", "TxPower", "WTPQualityOfService",
     "WTPRadioConfiguration", "Antenna", "RateSet"})

ConfigurationUpdateResponse ==
  Requiring("ConfigurationUpdateResponse",
    {"ResultCode"},
    {"RadioOperationalState", "VendorSpecificPayload"})

ChangeStateEventRequest ==
  Requiring("ChangeStateEventRequest",
    {"RadioOperationalState", "ResultCode"},
    {"ReturnedMessageElement", "VendorSpecificPayload", "WTPRadioFailAlarmIndication"})

ChangeStateEventResponse ==
  Requiring("ChangeStateEventResponse",
    {},
    {"VendorSpecificPayload"})

EchoRequest ==
  Requiring("EchoRequest",
    {},
    {"VendorSpecificPayload"})

EchoResponse ==
  Requiring("EchoResponse",
    {},
    {"VendorSpecificPayload"})

ImageDataRequest ==
  Requiring("ImageDataRequest",
    {},
    {"CAPWAPTransportProtocol", "InitiateDownload", "ImageData", "ImageIdentifier",
     "VendorSpecificPayload"})

ImageDataResponse ==
  Requiring("ImageDataResponse",
    {"ResultCode"},
    {"ImageInformation", "VendorSpecificPayload"})

ResetRequest ==
  Requiring("ResetRequest",
    {"ImageIdentifier"},
    {"VendorSpecificPayload"})

ResetResponse ==
  Requiring("ResetResponse",
    {},
    {"ResultCode", "VendorSpecificPayload"})

WTPEventRequest ==
  Requiring("WTPEventRequest",
    {},
    {"WTPRebootStatistics", "WTPRadioStatistics", "DeleteStation",
     "DuplicateIPv4Address", "VendorSpecificPayload", "DecryptionErrorReport",
     "MICCountermeasures", "RSNAErrorReportFromStation", "Statistics"})

WTPEventResponse ==
  Requiring("WTPEventResponse",
    {},
    {"VendorSpecificPayload"})

WlanConfigurationRequest ==
  LET choice == {"AddWlan", "DeleteWlan", "UpdateWlan"}
  IN  Message("WlanConfigurationRequest", choice,
              {"VendorSpecificPayload", "InformationElement"}, {}, choice)

WlanConfigurationResponse ==
  Requiring("WlanConfigurationResponse",
    {"ResultCode"},
    {"VendorSpecificPayload", "AssignedWtpBssid"})

ControlMessages ==
  {DiscoveryRequest, DiscoveryResponse, JoinRequest, JoinResponse,
   ConfigurationStatusRequest, ConfigurationStatusResponse,
   ConfigurationUpdateRequest, ConfigurationUpdateResponse,
   ChangeStateEventRequest, ChangeStateEventResponse, EchoRequest,
   EchoResponse, ImageDataRequest, ImageDataResponse, ResetRequest,
   ResetResponse, WTPEventRequest, WTPEventResponse,
   WlanConfigurationRequest, WlanConfigurationResponse}
=============================================================================
