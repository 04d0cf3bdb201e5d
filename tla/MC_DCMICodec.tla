----------------------------- MODULE MC_DCMICodec -----------------------------
(* Capability attributes: no flag, each flag alone and all flags; SEL     *)
(* entry counts 0ABCh (a different non-zero nibble in each position) and  *)
(* the 12-bit maximum 4095; the revision nibble at 0 and 15; distinct     *)
(* channel numbers; rolling-average periods in every unit, at the spec's  *)
(* examples (2 minutes, 5 seconds) and the 6-bit maximum.  Configuration  *)
(* values: every discovery flag combination, and timings at 255 beside   *)
(* their defaults 4, 120 and 64.                                          *)
EXTENDS DCMICodec

Flags4(pm, kcs, ser, lan) ==
  [SupportPowerManagement |-> pm, SupportInBandKCS |-> kcs,
   SupportOutOfBandSerial |-> ser, SupportOutOfBandLAN |-> lan]
MCSupported ==
  {Flags4(FALSE, FALSE, FALSE, FALSE), Flags4(TRUE, FALSE, FALSE, FALSE),
   Flags4(FALSE, TRUE, FALSE, FALSE), Flags4(FALSE, FALSE, TRUE, FALSE),
   Flags4(FALSE, FALSE, FALSE, TRUE), Flags4(TRUE, TRUE, TRUE, TRUE)}

Mandatory(r, e, l, n) ==
  [SELAutoRolloverEnabled |-> r, EntireSELFlushUponRollOver |-> e,
   RecordLevelSELFlushUponRollOver |-> l, SELEntriesCount |-> n,
   TemperatrureSamplingFrequencySec |-> 7]
MCMandatory ==
  {Mandatory(TRUE, FALSE, FALSE, 2748), Mandatory(FALSE, TRUE, FALSE, 2748),
   Mandatory(FALSE, FALSE, TRUE, 2748), Mandatory(TRUE, TRUE, TRUE, 4095)}

Optional(ch, rev) ==
  [PowerMgmtDeviceSlaveAddr |-> 32, PewerMgmtControllerChannelNumber |-> ch,
   DeviceRevision |-> rev]

MCManageability ==
  {[PrimaryLANChannelNumber |-> 1, SecondaryLANChannelNumber |-> 2,
    SerialChannelNumber |-> 255]}

Period(u, n) == [unit |-> u, number |-> n]
MCPeriods ==
  {<<Period(1, 2)>>, <<Period(0, 5)>>, <<Period(3, 63), Period(2, 1)>>}

\* The parameters are decoded independently, so each value is tried
\* against one base controller rather than in every combination.
PlatformsWith(channels) ==
  LET vals == <<MCSupported, MCMandatory,
                {Optional(ch, rev) : ch \in channels, rev \in {0, 15}},
                MCManageability, MCPeriods>>
      base == [s \in 1..5 |-> CHOOSE v \in vals[s] : TRUE]
  IN  UNION {{[base EXCEPT ![s] = v] : v \in vals[s]} : s \in 1..5}

\* The primary BMC (channel 0), and a controller on channel 1.
MCPlatforms == PlatformsWith({0})
MCPlatformsChannel == PlatformsWith({1})

MCConfigValues ==
  <<{[Activate |-> TRUE], [Activate |-> FALSE]},
    [RandomBackoffEnabled : BOOLEAN, IncludeDHCPOption60And43 : BOOLEAN,
     IncludeDHCPOption12 : BOOLEAN],
    {255}, {255}, {255}>>
=============================================================================
