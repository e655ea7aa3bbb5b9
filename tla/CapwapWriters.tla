----------------------------- MODULE CapwapWriters -----------------------------
(***************************************************************************)
(* The writing side of the control messages: for each Writable<Message>,   *)
(* the elements its constructors take, in the order in which Serialize     *)
(* writes them.  The optional elements follow behind them.                 *)
(*                                                                         *)
(*   order      the types of the elements of the constructors              *)
(*   shared     those of them that are held by reference and that the      *)
(*              application can still change: the arrays with Add and Clear*)
(*   optional   the types an application may pass as optional elements (the*)
(*              writers that implement IWritable<Message>OptionalElement)  *)
(***************************************************************************)
EXTENDS CapwapMessages, Sequences

Sender(m, order, shared, optional) ==
  [name |-> m.name, order |-> order, shared |-> shared, optional |-> optional]

\* The writers of optional elements are those the peer can have readers for.
Writing(m, order, shared) == Sender(m, order, shared, m.optional)

DiscoveryRequestWriter ==
  Writing(DiscoveryRequest,
    <<"DiscoveryType", "WTPBoardData", "WTPDescriptor", "WTPFrameTunnelMode",
      "WTPMACType", "WTPRadioInformation">>,
    {"WTPRadioInformation"})

DiscoveryResponseWriter ==
  Writing(DiscoveryResponse,
    <<"ACDescriptor", "ACName", "WTPRadioInformation", "CAPWAPControlIPv4Address">>,
    {"WTPRadioInformation"})

JoinRequestWriter ==
  Writing(JoinRequest,
    <<"LocationData", "WTPBoardData", "WTPDescriptor", "WTPName", "SessionID",
      "WTPFrameTunnelMode", "WTPMACType", "WTPRadioInformation", "ECNSupport",
      "CAPWAPLocalIPv4Address">>,
    {"WTPRadioInformation"})

JoinResponseWriter ==
  Writing(JoinResponse,
    <<"ResultCode", "ACDescriptor", "ACName", "WTPRadioInformation", "ECNSupport",
      "CAPWAPControlIPv4Address", "CAPWAPLocalIPv4Address">>,
    {"WTPRadioInformation"})

\* The reboot statistics could be passed as an optional element once more.
ConfigurationStatusRequestWriter ==
  Sender(ConfigurationStatusRequest,
    <<"ACName", "RadioAdministrativeState", "StatisticsTimer", "WTPRebootStatistics">>,
    {"RadioAdministrativeState"},
    ConfigurationStatusRequest.optional \cup {"WTPRebootStatistics"})

ConfigurationStatusResponseWriter ==
  Writing(ConfigurationStatusResponse,
    <<"CAPWAPTimers", "DecryptionErrorReportPeriod", "IdleTimeout", "WTPFallback",
      "ACIPv4List">>,
    {"DecryptionErrorReportPeriod"})

ConfigurationUpdateRequestWriter == Writing(ConfigurationUpdateRequest, <<>>, {})

ConfigurationUpdateResponseWriter ==
  Writing(ConfigurationUpdateResponse, <<"ResultCode">>, {})

ChangeStateEventRequestWriter ==
  Writing(ChangeStateEventRequest, <<"RadioOperationalState", "ResultCode">>,
          {"RadioOperationalState"})

ChangeStateEventResponseWriter == Writing(ChangeStateEventResponse, <<>>, {})
EchoRequestWriter == Writing(EchoRequest, <<>>, {})
EchoResponseWriter == Writing(EchoResponse, <<>>, {})
ImageDataRequestWriter == Writing(ImageDataRequest, <<>>, {})
ImageDataResponseWriter == Writing(ImageDataResponse, <<"ResultCode">>, {})
ResetRequestWriter == Writing(ResetRequest, <<"ImageIdentifier">>, {})
ResetResponseWriter == Writing(ResetResponse, <<>>, {})
WTPEventRequestWriter == Writing(WTPEventRequest, <<>>, {})
WTPEventResponseWriter == Writing(WTPEventResponse, <<>>, {})
WlanConfigurationResponseWriter == Writing(WlanConfigurationResponse, <<"ResultCode">>, {})

\* One pair of constructors for each of the three arrays; the other two stay
\* nullptr, which is what the ASSERT of Serialize wants.  All three are also
\* optional elements of this message.
WlanConfigurationRequestWriter(kind) ==
  Sender(WlanConfigurationRequest, <<kind>>, {kind},
         WlanConfigurationRequest.optional \cup WlanConfigurationRequest.oneOf)

ControlMessageWriters ==
  {DiscoveryRequestWriter, DiscoveryResponseWriter, JoinRequestWriter,
   JoinResponseWriter, ConfigurationStatusRequestWriter,
   ConfigurationStatusResponseWriter, ConfigurationUpdateRequestWriter,
   ConfigurationUpdateResponseWriter, ChangeStateEventRequestWriter,
   ChangeStateEventResponseWriter, EchoRequestWriter, EchoResponseWriter,
   ImageDataRequestWriter, ImageDataResponseWriter, ResetRequestWriter,
   ResetResponseWriter, WTPEventRequestWriter, WTPEventResponseWriter,
   WlanConfigurationResponseWriter}
    \cup {WlanConfigurationRequestWriter(kind) : kind \in WlanConfigurationRequest.oneOf}

-----------------------------------------------------------------------------
(***************************************************************************)
(* What the ASSERT of an element's Serialize asks for beyond the octets it *)
(* then writes: the fixed part counted twice, as a whole or without its    *)
(* element header.                                                         *)
(***************************************************************************)
ACDescriptorExcess == 12
MacAclEntriesExcess == 1
DeleteStationExcess == 2
DuplicateIPv4AddressExcess == 6

RoomExcess(t) ==
  CASE t = "ACDescriptor" -> ACDescriptorExcess
    [] t \in {"AddMACACLEntry", "DeleteMACACLEntry"} -> MacAclEntriesExcess
    [] t = "DeleteStation" -> DeleteStationExcess
    [] t = "DuplicateIPv4Address" -> DuplicateIPv4AddressExcess
    [] OTHER -> 0
=============================================================================
