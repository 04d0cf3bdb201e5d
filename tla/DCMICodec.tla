------------------------------ MODULE DCMICodec ------------------------------
(***************************************************************************)
(* The values of the DCMI parameters (types_dcmi_params.go), decoded and   *)
(* encoded by the library, composed with a controller written from the     *)
(* DCMI v1.5 tables (6-3 .. 6-7 capabilities, 6-14 configuration).        *)
(*                                                                         *)
(*  - DiscoveryDCMICapabilities reads the controller's five capability     *)
(*    parameters and decodes each with its parameter Unpack;               *)
(*  - SetDCMIConfigurationParams packs a configuration parameter into a    *)
(*    Set DCMI Configuration Parameters request, which the controller      *)
(*    stores;                                                              *)
(*  - GetDCMIConfigurations reads the five configuration parameters back.  *)
(*                                                                         *)
(* Only replies the controller builds by the tables are sent, so every     *)
(* exchange succeeds; what a malformed or failing reply does is checked in *)
(* DCMIParamDiscovery.  `last` holds the result of the last call.          *)
(***************************************************************************)
EXTENDS Naturals, Sequences, ByteCodec

CONSTANTS
  NULL,
  Platforms,      \* capability attributes the controller may have
  ConfigValues    \* selector -> the values a caller may set

GroupExtensionDCMI == 220   \* 0xDC
Selectors == 1..5

\* The header the controller puts before ParamData: marker, DCMI 1.5,
\* parameter revision 1.
Header == <<GroupExtensionDCMI, 1, 5, 1>>

Bit(c, n) == IF c THEN 2^n ELSE 0

\* Seconds per rolling-average unit (DCMI table 6-7: 00b s .. 11b days).
UnitSeconds == <<1, 60, 3600, 86400>>

-----------------------------------------------------------------------------
(* The controller, from the DCMI tables (ParamData octet k = table byte    *)
(* k + 1).                                                                 *)
CapLayout(s, p) ==
  CASE s = 1 -> <<0, Bit(p[1].SupportPowerManagement, 0),
                  Bit(p[1].SupportInBandKCS, 0) + Bit(p[1].SupportOutOfBandSerial, 1)
                    + Bit(p[1].SupportOutOfBandLAN, 2)>>
    [] s = 2 -> <<p[2].SELEntriesCount % 256,
                  p[2].SELEntriesCount \div 256 + Bit(p[2].SELAutoRolloverEnabled, 7)
                    + Bit(p[2].EntireSELFlushUponRollOver, 6)
                    + Bit(p[2].RecordLevelSELFlushUponRollOver, 5),
                  0, 0, p[2].TemperatrureSamplingFrequencySec>>
    [] s = 3 -> <<p[3].PowerMgmtDeviceSlaveAddr,
                  16 * p[3].PewerMgmtControllerChannelNumber + p[3].DeviceRevision>>
    [] s = 4 -> <<p[4].PrimaryLANChannelNumber, p[4].SecondaryLANChannelNumber,
                  p[4].SerialChannelNumber>>
    [] s = 5 -> <<Len(p[5])>> \o [k \in DOMAIN p[5] |-> 64 * p[5][k].unit + p[5][k].number]

\* What a capability parameter means: the attributes themselves, and each
\* rolling-average period in seconds.
Meaning(p) ==
  [p EXCEPT ![5] = [RollingAverageTimePeriodsSec |->
                      [k \in DOMAIN p[5] |-> p[5][k].number * UnitSeconds[p[5][k].unit + 1]]]]

\* Set DCMI Configuration Parameters: request octet 1 is the selector and
\* octet 3 the data.  Activate DHCP (1) restarts DHCP and stores nothing.
BmcStoreConfig(store, req) ==
  LET s == At(req, 1)  d == At(req, 3)
  IN  CASE s = 1 -> store
        [] s = 2 -> [store EXCEPT ![2] = [RandomBackoffEnabled |-> IsBitSet(d, 7),
                                          IncludeDHCPOption60And43 |-> IsBitSet(d, 1),
                                          IncludeDHCPOption12 |-> IsBitSet(d, 0)]]
        [] OTHER -> [store EXCEPT ![s] = d]

\* Get DCMI Configuration Parameters: Activate DHCP always reads 00h.
ConfigLayout(s, store) ==
  CASE s = 1 -> <<0>>
    [] s = 2 -> <<Bit(store[2].RandomBackoffEnabled, 7)
                  + Bit(store[2].IncludeDHCPOption60And43, 1)
                  + Bit(store[2].IncludeDHCPOption12, 0)>>
    [] OTHER -> <<store[s]>>

-----------------------------------------------------------------------------
(* The library.  An Unpack that fails returns NULL.                       *)

\* GetDCMICapabilitiesInfoResponse.Unpack / GetDCMIConfigurationParams-
\* Response.Unpack: length, marker, then ParamData = msg[4:].
ParamDataOf(msg) ==
  IF Len(msg) < 5 \/ At(msg, 0) # GroupExtensionDCMI THEN NULL
  ELSE SubSeq(msg, 5, Len(msg))

UnpackSupported(d) ==
  IF Len(d) < 3 THEN NULL
  ELSE [SupportPowerManagement |-> IsBitSet(At(d, 1), 0),
        SupportInBandKCS |-> IsBitSet(At(d, 2), 0),
        SupportOutOfBandSerial |-> IsBitSet(At(d, 2), 1),
        SupportOutOfBandLAN |-> IsBitSet(At(d, 2), 2)]

\* Mutant: the SEL attribute bits left in the entry count.
UnpackMandatoryUnmasked(d) ==
  IF Len(d) < 5 THEN NULL
  ELSE [SELAutoRolloverEnabled |-> IsBitSet(At(d, 1), 7),
        EntireSELFlushUponRollOver |-> IsBitSet(At(d, 1), 6),
        RecordLevelSELFlushUponRollOver |-> IsBitSet(At(d, 1), 5),
        SELEntriesCount |-> GetU16L(d, 0),
        TemperatrureSamplingFrequencySec |-> At(d, 4)]

\* Mutant: the SEL entry count masked to its low octet.
UnpackMandatoryLowOctet(d) ==
  IF Len(d) < 5 THEN NULL
  ELSE [SELAutoRolloverEnabled |-> IsBitSet(At(d, 1), 7),
        EntireSELFlushUponRollOver |-> IsBitSet(At(d, 1), 6),
        RecordLevelSELFlushUponRollOver |-> IsBitSet(At(d, 1), 5),
        SELEntriesCount |-> GetU16L(d, 0) & 255,
        TemperatrureSamplingFrequencySec |-> At(d, 4)]

UnpackMandatory(d) ==
  IF Len(d) < 5 THEN NULL
  ELSE [SELAutoRolloverEnabled |-> IsBitSet(At(d, 1), 7),
        EntireSELFlushUponRollOver |-> IsBitSet(At(d, 1), 6),
        RecordLevelSELFlushUponRollOver |-> IsBitSet(At(d, 1), 5),
        SELEntriesCount |-> GetU16L(d, 0) & 4095,
        TemperatrureSamplingFrequencySec |-> At(d, 4)]

UnpackOptional(d) ==
  IF Len(d) < 2 THEN NULL
  ELSE [PowerMgmtDeviceSlaveAddr |-> At(d, 0),
        PewerMgmtControllerChannelNumber |-> At(d, 1) & 240,
        DeviceRevision |-> At(d, 1) & 15]

UnpackManageability(d) ==
  IF Len(d) < 3 THEN NULL
  ELSE [PrimaryLANChannelNumber |-> At(d, 0), SecondaryLANChannelNumber |-> At(d, 1),
        SerialChannelNumber |-> At(d, 2)]

\* The `switch durationUnit` of one period octet.
PeriodSec(b) ==
  LET unit == ShiftR8(b, 6)  number == b & 63
  IN  CASE unit = 0 -> number
        [] unit = 1 -> number * 60
        [] unit = 2 -> number * 60 * 60
        [] unit = 3 -> number * 60 * 60 * 24

UnpackEnhanced(d) ==
  IF Len(d) < 2 \/ Len(d) < 1 + At(d, 0) THEN NULL
  ELSE [RollingAverageTimePeriodsSec |-> [k \in 1..At(d, 0) |-> PeriodSec(At(d, k))]]

UnpackCap(s, d) ==
  IF d = NULL THEN NULL
  ELSE CASE s = 1 -> UnpackSupported(d)    [] s = 2 -> UnpackMandatory(d)
         [] s = 3 -> UnpackOptional(d)     [] s = 4 -> UnpackManageability(d)
         [] s = 5 -> UnpackEnhanced(d)

\* Mutant: bits 1 and 0 swapped in Pack.
PackDiscoveryConfigurationSwapped(v) ==
  <<Bit(v.RandomBackoffEnabled, 7) + Bit(v.IncludeDHCPOption60And43, 0)
    + Bit(v.IncludeDHCPOption12, 1)>>

\* The configuration parameters' Pack: one octet each.
PackActivateDHCP(v) == <<IF v.Activate THEN 1 ELSE 0>>

PackDiscoveryConfiguration(v) ==
  LET b7 == IF v.RandomBackoffEnabled THEN SetBit(0, 7) ELSE 0
      b1 == IF v.IncludeDHCPOption60And43 THEN SetBit(b7, 1) ELSE b7
      b0 == IF v.IncludeDHCPOption12 THEN SetBit(b1, 0) ELSE b1
  IN  <<b0>>

PackDHCPTiming(v) == <<v>>

PackConfig(s, v) ==
  CASE s = 1 -> PackActivateDHCP(v)
    [] s = 2 -> PackDiscoveryConfiguration(v)
    [] OTHER -> PackDHCPTiming(v)

\* The configuration parameters' Unpack.
UnpackActivateDHCP(d) == IF Len(d) < 1 THEN NULL ELSE [Activate |-> At(d, 0) = 1]

UnpackDiscoveryConfiguration(d) ==
  IF Len(d) < 1 THEN NULL
  ELSE [RandomBackoffEnabled |-> IsBitSet(At(d, 0), 7),
        IncludeDHCPOption60And43 |-> IsBitSet(At(d, 0), 1),
        IncludeDHCPOption12 |-> IsBitSet(At(d, 0), 0)]

UnpackDHCPTiming(d) == IF Len(d) < 1 THEN NULL ELSE At(d, 0)

UnpackConfig(s, d) ==
  IF d = NULL THEN NULL
  ELSE CASE s = 1 -> UnpackActivateDHCP(d)
         [] s = 2 -> UnpackDiscoveryConfiguration(d)
         [] OTHER -> UnpackDHCPTiming(d)

\* SetDCMIConfigurationParamsRequest.Pack: marker, selector, set selector,
\* then ParamData.
PackSetConfigRequest(s, set, data) == <<GroupExtensionDCMI, s, set>> \o data

\* SetDCMIConfigurationParamsResponse.Unpack: at least one octet, the marker.
UnpackSetConfigResponse(msg) == Len(msg) >= 1 /\ At(msg, 0) = GroupExtensionDCMI

-----------------------------------------------------------------------------
VARIABLES
  store,     \* the controller's configuration parameters 2..5
  wanted,    \* ghost: the last value the caller set, per selector
  last       \* the result of the last call, or NULL

vars == <<store, wanted, last>>

\* DCMI defaults: no discovery option, timings 4 s, 120 s, 64 s.
DefaultStore ==
  <<NULL, [RandomBackoffEnabled |-> FALSE, IncludeDHCPOption60And43 |-> FALSE,
           IncludeDHCPOption12 |-> FALSE], 4, 120, 64>>

Init ==
  /\ store = DefaultStore
  /\ wanted = [DefaultStore EXCEPT ![1] = [Activate |-> FALSE]]
  /\ last = NULL

\* Client.DiscoveryDCMICapabilities against a controller with capability
\* attributes p: five exchanges, each decoded into a fresh parameter; the
\* first failure returns nil.
DiscoveryDCMICapabilities ==
  \E p \in Platforms :
    LET got == [s \in Selectors |-> UnpackCap(s, ParamDataOf(Header \o CapLayout(s, p)))]
    IN  /\ last' = [call |-> "capabilities", platform |-> p,
                    result |-> IF \E s \in Selectors : got[s] = NULL THEN NULL ELSE got]
        /\ UNCHANGED <<store, wanted>>

\* Client.SetDCMIConfigurationParams(s, 0, param): Pack, request Pack,
\* Exchange; the controller stores the parameter.
SetDCMIConfigurationParams ==
  \E s \in Selectors : \E v \in ConfigValues[s] :
    LET req == PackSetConfigRequest(s, 0, PackConfig(s, v))
    IN  /\ store' = BmcStoreConfig(store, req)
        /\ wanted' = [wanted EXCEPT ![s] = v]
        /\ last' = [call |-> "set",
                    result |-> UnpackSetConfigResponse(<<GroupExtensionDCMI>>)]

\* Client.GetDCMIConfigurations: five exchanges, each decoded into a
\* fresh parameter; the first failure returns nil.
GetDCMIConfigurations ==
  LET got == [s \in Selectors |-> UnpackConfig(s, ParamDataOf(Header \o ConfigLayout(s, store)))]
  IN  /\ last' = [call |-> "configuration",
                  result |-> IF \E s \in Selectors : got[s] = NULL THEN NULL ELSE got]
      /\ UNCHANGED <<store, wanted>>

Next == DiscoveryDCMICapabilities \/ SetDCMIConfigurationParams \/ GetDCMIConfigurations

Spec == Init /\ [][Next]_vars

-----------------------------------------------------------------------------
TypeOK ==
  /\ store[3] \in Octets /\ store[4] \in Octets /\ store[5] \in Octets
  /\ last = NULL \/ last.call \in {"capabilities", "set", "configuration"}
  /\ last # NULL /\ last.call = "capabilities" /\ last.result # NULL
       => last.result[2].SELEntriesCount \in 0..4095   \* a 12-bit field

\* DiscoveryDCMICapabilities succeeds and reports the controller's
\* capabilities as the DCMI tables define them: every flag, the 12-bit
\* SEL entry count, the channel and revision nibbles, the channel numbers
\* and each rolling-average period in seconds.
CapabilitiesReported ==
  last # NULL /\ last.call = "capabilities" => last.result = Meaning(last.platform)

\* After any sequence of Set DCMI Configuration Parameters calls,
\* GetDCMIConfigurations succeeds and returns, for every parameter, the
\* value last set (Activate DHCP, a trigger, always reads back false):
\* Pack, the request layout, the controller's table and Unpack agree.
ConfigRoundTrip ==
  last # NULL /\ last.call = "configuration" =>
    last.result = [wanted EXCEPT ![1] = [Activate |-> FALSE]]
=============================================================================
