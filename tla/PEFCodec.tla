------------------------------- MODULE PEFCodec -------------------------------
(***************************************************************************)
(* The bit-packed PEF records and their codecs: the PEF Control and Action *)
(* Global Control parameters (src/types_pef_params.go), the Event Filter   *)
(* and Alert Policy table entries (src/types_pef.go), the Event Filter,    *)
(* Alert Policy and Group Control Table parameters, and the Get PEF        *)
(* Configuration Parameters request (src/cmd_get_pef_config_parameters.go),*)
(* and the single-octet, GUID and alert-string parameters.                 *)
(* A step packs one record a caller built, or unpacks the octets the last  *)
(* pack produced.  Each packed buffer is also compared with the layout the *)
(* IPMI v2.0 tables (17.7, 17.11, 30.3, 30.4) give that record.            *)
(***************************************************************************)
EXTENDS Naturals, Sequences, ByteCodec

LOCAL INSTANCE SequencesExt

CONSTANTS
  NULL,
  TooShort,       \* ErrUnpackedDataTooShortWith
  Panic,          \* a pack that indexes past its buffer
  Values          \* Values[k]: the records of kind k a caller may build

\* The parameters whose data is one octet kept in a named field: the two
\* startup delays and the four read-only counts.
OctetKinds == {"StartupDelay", "AlertStartupDelay", "NumberOfEventFilters",
               "NumberOfAlertPolicies", "NumberOfAlertStrings",
               "NumberOfGroupControlTableEntries"}

Kinds == {"Control", "ActionGlobalControl", "EventFilter", "AlertPolicy",
          "EventFilterParam", "AlertPolicyParam", "GroupControlTable",
          "Request", "SetInProgress", "EventFilterData1", "SystemGUID",
          "AlertStringKeys", "AlertStrings"} \cup OctetKinds

\* Kinds with an Unpack: the request is only ever packed by the client.
Unpackable == Kinds \ {"Request"}

PEFEventFilterType_Configurable == 0     \* 00h
PEFEventFilterType_PreConfigured == 16   \* 10h

B(c) == IF c THEN 1 ELSE 0

\* setOrClearBitN applied in order: flags is a sequence of <<bit, cond>>.
SetFlags(b, flags) == FoldLeft(LAMBDA acc, f : SetOrClearBit(acc, f[1], f[2]), b, flags)

-----------------------------------------------------------------------------
(* PEFConfigParam_Control / PEFConfigParam_ActionGlobalControl            *)
ControlFlags(p) ==
  <<<<3, p.EnablePEFAlertStartupDelay>>, <<2, p.EnablePEFStartupDelay>>,
    <<1, p.EnableEventMessage>>, <<0, p.EnablePEF>>>>

PackControl(p) == <<SetFlags(0, ControlFlags(p))>>

UnpackControl(d) ==
  IF Len(d) < 1 THEN TooShort
  ELSE [EnablePEFAlertStartupDelay |-> IsBitSet(d[1], 3),
        EnablePEFStartupDelay |-> IsBitSet(d[1], 2),
        EnableEventMessage |-> IsBitSet(d[1], 1), EnablePEF |-> IsBitSet(d[1], 0)]

AGCFlags(p) ==
  <<<<5, p.DiagnosticInterruptEnabled>>, <<4, p.OEMActionEnabled>>,
    <<3, p.PowerCycleActionEnabled>>, <<2, p.ResetActionEnabled>>,
    <<1, p.PowerDownActionEnabled>>, <<0, p.AlertActionEnabled>>>>

PackActionGlobalControl(p) == <<SetFlags(0, AGCFlags(p))>>

UnpackActionGlobalControl(d) ==
  IF Len(d) < 1 THEN TooShort
  ELSE [DiagnosticInterruptEnabled |-> IsBitSet(d[1], 5),
        OEMActionEnabled |-> IsBitSet(d[1], 4),
        PowerCycleActionEnabled |-> IsBitSet(d[1], 3),
        ResetActionEnabled |-> IsBitSet(d[1], 2),
        PowerDownActionEnabled |-> IsBitSet(d[1], 1),
        AlertActionEnabled |-> IsBitSet(d[1], 0)]

-----------------------------------------------------------------------------
(* PEFEventFilter (20 octets).  Octets 3..19 are plain copies.            *)
FilterActionFlags(e) ==
  <<<<6, e.ActionGroupControlOperation>>, <<5, e.ActionDiagnosticInterrupt>>,
    <<4, e.ActionOEM>>, <<3, e.ActionPowerCycle>>, <<2, e.ActionReset>>,
    <<1, e.ActionPowerOff>>, <<0, e.ActionAlert>>>>

\* out[k] in Go is out[k + 1] here.
PackEventFilter(e) ==
  LET out == [Zeros(20) EXCEPT
                ![1] = SetOrClearBit(ShiftL8(e.FilterType, 5), 7, e.FilterEnabled),
                ![2] = SetFlags(0, FilterActionFlags(e)),
                ![3] = ShiftL8(e.GroupControlSelector, 4) | (e.AlertPolicyNumber & 15),
                ![4] = e.EventSeverity,
                ![7] = e.SensorType, ![8] = e.SensorNumber, ![9] = e.EventReadingType,
                ![12] = e.EventData1ANDMask, ![13] = e.EventData1Compare1,
                ![14] = e.EventData1Compare2, ![15] = e.EventData2ANDMask,
                ![16] = e.EventData2Compare1, ![17] = e.EventData2Compare2,
                ![18] = e.EventData3ANDMask, ![19] = e.EventData3Compare1,
                ![20] = e.EventData3Compare2]
  IN  PutU16L(PutU16L(out, e.GeneratorID, 4), e.EventData1EventOffsetMask, 9)

UnpackEventFilter(d) ==
  IF Len(d) < 20 THEN TooShort
  ELSE [FilterEnabled |-> IsBitSet(d[1], 7),
        FilterType |-> ShiftR8(d[1], 5) & 3,
        ActionGroupControlOperation |-> IsBitSet(d[2], 6),
        ActionDiagnosticInterrupt |-> IsBitSet(d[2], 5),
        ActionOEM |-> IsBitSet(d[2], 4), ActionPowerCycle |-> IsBitSet(d[2], 3),
        ActionReset |-> IsBitSet(d[2], 2), ActionPowerOff |-> IsBitSet(d[2], 1),
        ActionAlert |-> IsBitSet(d[2], 0),
        GroupControlSelector |-> ShiftR8(d[3], 4) & 7,
        AlertPolicyNumber |-> d[3] & 15,
        EventSeverity |-> d[4], GeneratorID |-> GetU16L(d, 4),
        SensorType |-> d[7], SensorNumber |-> d[8], EventReadingType |-> d[9],
        EventData1EventOffsetMask |-> GetU16L(d, 9),
        EventData1ANDMask |-> d[12], EventData1Compare1 |-> d[13],
        EventData1Compare2 |-> d[14], EventData2ANDMask |-> d[15],
        EventData2Compare1 |-> d[16], EventData2Compare2 |-> d[17],
        EventData3ANDMask |-> d[18], EventData3Compare1 |-> d[19],
        EventData3Compare2 |-> d[20]]

-----------------------------------------------------------------------------
(* PEFAlertPolicy (3 octets).                                             *)
\* Mutant: channel and destination read from the wrong nibbles.
UnpackAlertPolicyNibblesSwapped(d) ==
  IF Len(d) < 3 THEN TooShort
  ELSE [PolicyNumber |-> ShiftR8(d[1], 4), PolicyEnabled |-> IsBitSet(d[1], 3),
        PolicyAction |-> d[1] & 7,
        Channel |-> d[2] & 15, Destination |-> ShiftR8(d[2], 4),
        IsEventSpecific |-> IsBitSet(d[3], 7), AlertStringKey |-> d[3] & 127]

PackAlertPolicy(a) ==
  << SetOrClearBit(a.PolicyAction & 7, 3, a.PolicyEnabled)
       | ShiftL8(a.PolicyNumber, 4),
     (a.Destination & 15) | ShiftL8(a.Channel, 4),
     SetOrClearBit(a.AlertStringKey & 127, 7, a.IsEventSpecific) >>

UnpackAlertPolicy(d) ==
  IF Len(d) < 3 THEN TooShort
  ELSE [PolicyNumber |-> ShiftR8(d[1], 4), PolicyEnabled |-> IsBitSet(d[1], 3),
        PolicyAction |-> d[1] & 7,
        Channel |-> ShiftR8(d[2], 4), Destination |-> d[2] & 15,
        IsEventSpecific |-> IsBitSet(d[3], 7), AlertStringKey |-> d[3] & 127]

-----------------------------------------------------------------------------
(* PEFConfigParam_EventFilter / PEFConfigParam_AlertPolicy: the entry     *)
(* number octet followed by the packed entry.                             *)

\* EventFilter Pack allocates len(entryData) = 20 octets and writes the 20
\* entry octets from offset 1: the last write is past the buffer.  packBytes
\* either panics on it or copies only what fits.
PackEventFilterParam(p) ==
  LET entryData == PackEventFilter(p.Entry)
  IN  {Panic, <<p.EntryNumber>> \o SubSeq(entryData, 1, Len(entryData) - 1)}

UnpackEventFilterParam(d) ==
  IF Len(d) < 21 THEN TooShort
  ELSE LET entry == UnpackEventFilter(SubSeq(d, 2, 21))
       IN  IF entry = TooShort THEN TooShort
           ELSE [EntryNumber |-> d[1], Entry |-> entry]

\* Mutant: the buffer sized to the entry alone, as in EventFilter's Pack.
PackAlertPolicyParamShort(p) ==
  <<p.EntryNumber>> \o SubSeq(PackAlertPolicy(p.Entry), 1, 2)

PackAlertPolicyParam(p) == <<p.EntryNumber>> \o PackAlertPolicy(p.Entry)

UnpackAlertPolicyParam(d) ==
  IF Len(d) < 4 THEN TooShort
  ELSE LET entry == UnpackAlertPolicy(Tail(d))
       IN  IF entry = TooShort THEN TooShort
           ELSE [EntryNumber |-> d[1], Entry |-> entry]

-----------------------------------------------------------------------------
(* PEFConfigParam_GroupControlTable (11 octets): four (group ID, member   *)
(* ID, disable-check) triples; member IDs and the check flag share octets.*)
GroupIDs(g) == <<g.GroupID0, g.GroupID1, g.GroupID2, g.GroupID3>>
MemberIDs(g) == <<g.MemberID0, g.MemberID1, g.MemberID2, g.MemberID3>>
DisableChecks(g) ==
  <<g.DisableMemberID0Check, g.DisableMemberID1Check,
    g.DisableMemberID2Check, g.DisableMemberID3Check>>

PackGroupControlTable(g) ==
  <<g.EntrySelector,
    SetFlags(g.ChannelNumber & 15,
             <<<<5, g.ForceControlOperation>>, <<4, g.DelayedControl>>>>)>>
  \o FoldLeft(LAMBDA acc, j :
        acc \o <<GroupIDs(g)[j],
                 SetOrClearBit(MemberIDs(g)[j] & 15, 4, DisableChecks(g)[j])>>,
      <<>>, <<1, 2, 3, 4>>)
  \o <<ShiftL8(g.RetryCount, 4) | g.Operation>>

UnpackGroupControlTable(d) ==
  IF Len(d) < 11 THEN TooShort
  ELSE [EntrySelector |-> d[1],
        ForceControlOperation |-> IsBitSet(d[2], 5),
        DelayedControl |-> IsBitSet(d[2], 4), ChannelNumber |-> d[2] & 15,
        GroupID0 |-> d[3], MemberID0 |-> d[4] & 15,
        DisableMemberID0Check |-> IsBitSet(d[4], 4),
        GroupID1 |-> d[5], MemberID1 |-> d[6] & 15,
        DisableMemberID1Check |-> IsBitSet(d[6], 4),
        GroupID2 |-> d[7], MemberID2 |-> d[8] & 15,
        DisableMemberID2Check |-> IsBitSet(d[8], 4),
        GroupID3 |-> d[9], MemberID3 |-> d[10] & 15,
        DisableMemberID3Check |-> IsBitSet(d[10], 4),
        RetryCount |-> ShiftR8(d[11] & 127, 4), Operation |-> d[11] & 15]

-----------------------------------------------------------------------------
(* GetPEFConfigParametersRequest.Pack                                     *)
\* Mutant: the revision-only flag set in bit 6 instead of bit 7.
PackRequestRevisionBit6(r) ==
  <<IF r.GetRevisionOnly THEN SetBit(r.ParamSelector & 63, 6)
    ELSE r.ParamSelector & 63, r.SetSelector, r.BlockSelector>>

PackRequest(r) ==
  <<IF r.GetRevisionOnly THEN SetBit(r.ParamSelector & 63, 7)
    ELSE r.ParamSelector & 63, r.SetSelector, r.BlockSelector>>

-----------------------------------------------------------------------------
(* The single-octet parameters.  PEFConfigParam_SetInProgress is itself   *)
(* the octet; the others keep it in DelaySec or Value.                    *)
PackSetInProgress(p) == <<p>>

UnpackSetInProgress(d) == IF Len(d) < 1 THEN TooShort ELSE d[1]

OctetField(k) ==
  IF k \in {"StartupDelay", "AlertStartupDelay"} THEN "DelaySec" ELSE "Value"

PackOctetParam(k, p) == <<p[OctetField(k)]>>

UnpackOctetParam(k, d) ==
  IF Len(d) < 1 THEN TooShort ELSE [f \in {OctetField(k)} |-> d[1]]

-----------------------------------------------------------------------------
(* PEFConfigParam_EventFilterData1: Pack makes a 21-octet buffer and fills *)
(* the first two; Unpack needs two.                                       *)
PackEventFilterData1(p) ==
  [Zeros(21) EXCEPT ![1] = p.FilterNumber, ![2] = p.Data1]

UnpackEventFilterData1(d) ==
  IF Len(d) < 2 THEN TooShort ELSE [FilterNumber |-> d[1], Data1 |-> d[2]]

-----------------------------------------------------------------------------
(* PEFConfigParam_SystemGUID (17 octets): the use-GUID flag in bit 0, then *)
(* the 16 GUID octets copied as they are.                                 *)
PackSystemGUID(p) == <<SetOrClearBit(0, 0, p.UseGUID)>> \o p.GUID

UnpackSystemGUID(d) ==
  IF Len(d) < 17 THEN TooShort
  ELSE [UseGUID |-> IsBitSet(d[1], 0), GUID |-> SubSeq(d, 2, 17)]

-----------------------------------------------------------------------------
(* PEFConfigParam_AlertStringKeys (3 octets) and PEFConfigParam_AlertStrings*)
(* (string selector, block selector, then the block's octets).            *)
PackAlertStringKeys(p) ==
  <<p.AlertStringSelector, p.EventFilterNumber, p.AlertStringSet>>

UnpackAlertStringKeys(d) ==
  IF Len(d) < 3 THEN TooShort
  ELSE [AlertStringSelector |-> d[1], EventFilterNumber |-> d[2],
        AlertStringSet |-> d[3]]

PackAlertStrings(p) == <<p.StringSelector, p.BlockSelector>> \o p.StringData

\* unpackBytes(data, 2, len(data)-2): every octet after the two selectors.
UnpackAlertStrings(d) ==
  IF Len(d) < 3 THEN TooShort
  ELSE [StringSelector |-> d[1], BlockSelector |-> d[2],
        StringData |-> SubSeq(d, 3, Len(d))]

-----------------------------------------------------------------------------
PackOutcomes(k, x) ==
  CASE k = "Control"             -> {PackControl(x)}
    [] k = "ActionGlobalControl" -> {PackActionGlobalControl(x)}
    [] k = "EventFilter"         -> {PackEventFilter(x)}
    [] k = "AlertPolicy"         -> {PackAlertPolicy(x)}
    [] k = "EventFilterParam"    -> PackEventFilterParam(x)
    [] k = "AlertPolicyParam"    -> {PackAlertPolicyParam(x)}
    [] k = "GroupControlTable"   -> {PackGroupControlTable(x)}
    [] k = "Request"             -> {PackRequest(x)}
    [] k = "SetInProgress"       -> {PackSetInProgress(x)}
    [] k \in OctetKinds          -> {PackOctetParam(k, x)}
    [] k = "EventFilterData1"    -> {PackEventFilterData1(x)}
    [] k = "SystemGUID"          -> {PackSystemGUID(x)}
    [] k = "AlertStringKeys"     -> {PackAlertStringKeys(x)}
    [] k = "AlertStrings"        -> {PackAlertStrings(x)}

UnpackOf(k, d) ==
  CASE k = "Control"             -> UnpackControl(d)
    [] k = "ActionGlobalControl" -> UnpackActionGlobalControl(d)
    [] k = "EventFilter"         -> UnpackEventFilter(d)
    [] k = "AlertPolicy"         -> UnpackAlertPolicy(d)
    [] k = "EventFilterParam"    -> UnpackEventFilterParam(d)
    [] k = "AlertPolicyParam"    -> UnpackAlertPolicyParam(d)
    [] k = "GroupControlTable"   -> UnpackGroupControlTable(d)
    [] k = "SetInProgress"       -> UnpackSetInProgress(d)
    [] k \in OctetKinds          -> UnpackOctetParam(k, d)
    [] k = "EventFilterData1"    -> UnpackEventFilterData1(d)
    [] k = "SystemGUID"          -> UnpackSystemGUID(d)
    [] k = "AlertStringKeys"     -> UnpackAlertStringKeys(d)
    [] k = "AlertStrings"        -> UnpackAlertStrings(d)

VARIABLES
  kind,      \* the record type last packed, or NULL
  value,     \* the record the caller built
  wire,      \* what Pack returned, or Panic
  decoded    \* what Unpack made of wire, or NULL before it ran

vars == <<kind, value, wire, decoded>>

Init == kind = NULL /\ value = NULL /\ wire = NULL /\ decoded = NULL

\* x.Pack() on a record of kind k.
Pack(k) ==
  \E x \in Values[k] : \E w \in PackOutcomes(k, x) :
    /\ kind' = k
    /\ value' = x
    /\ wire' = w
    /\ decoded' = NULL

\* Unpack(data) of the same record type on the octets Pack returned.
Unpack ==
  /\ kind \in Unpackable
  /\ wire \notin {NULL, Panic}
  /\ decoded = NULL
  /\ decoded' = UnpackOf(kind, wire)
  /\ UNCHANGED <<kind, value, wire>>

Next == (\E k \in Kinds : Pack(k)) \/ Unpack

Spec == Init /\ [][Next]_vars
-----------------------------------------------------------------------------
(* The layouts the IPMI tables give each record, field by field, as       *)
(* weighted sums: the reference the packed octets are compared with.      *)
LE16(v) == <<v % 256, v \div 256>>

\* IPMI 17.7 byte 1 [6:5]: 00b software configurable, 10b pre-configured.
FilterTypeCode(t) == IF t = PEFEventFilterType_PreConfigured THEN 2 ELSE t

LayoutEventFilter(e) ==
  <<128 * B(e.FilterEnabled) + 32 * FilterTypeCode(e.FilterType),
    64 * B(e.ActionGroupControlOperation) + 32 * B(e.ActionDiagnosticInterrupt)
      + 16 * B(e.ActionOEM) + 8 * B(e.ActionPowerCycle) + 4 * B(e.ActionReset)
      + 2 * B(e.ActionPowerOff) + B(e.ActionAlert),
    16 * e.GroupControlSelector + e.AlertPolicyNumber, e.EventSeverity>>
  \o LE16(e.GeneratorID) \o <<e.SensorType, e.SensorNumber, e.EventReadingType>>
  \o LE16(e.EventData1EventOffsetMask)
  \o <<e.EventData1ANDMask, e.EventData1Compare1, e.EventData1Compare2,
       e.EventData2ANDMask, e.EventData2Compare1, e.EventData2Compare2,
       e.EventData3ANDMask, e.EventData3Compare1, e.EventData3Compare2>>

LayoutAlertPolicy(a) ==
  <<16 * a.PolicyNumber + 8 * B(a.PolicyEnabled) + a.PolicyAction,
    16 * a.Channel + a.Destination, 128 * B(a.IsEventSpecific) + a.AlertStringKey>>

Layout(k, x) ==
  CASE k = "Control" ->
         <<8 * B(x.EnablePEFAlertStartupDelay) + 4 * B(x.EnablePEFStartupDelay)
           + 2 * B(x.EnableEventMessage) + B(x.EnablePEF)>>
    [] k = "ActionGlobalControl" ->
         <<32 * B(x.DiagnosticInterruptEnabled) + 16 * B(x.OEMActionEnabled)
           + 8 * B(x.PowerCycleActionEnabled) + 4 * B(x.ResetActionEnabled)
           + 2 * B(x.PowerDownActionEnabled) + B(x.AlertActionEnabled)>>
    [] k = "EventFilter" -> LayoutEventFilter(x)
    [] k = "AlertPolicy" -> LayoutAlertPolicy(x)
    [] k = "EventFilterParam" -> <<x.EntryNumber>> \o LayoutEventFilter(x.Entry)
    [] k = "AlertPolicyParam" -> <<x.EntryNumber>> \o LayoutAlertPolicy(x.Entry)
    [] k = "GroupControlTable" ->
         <<x.EntrySelector,
           32 * B(x.ForceControlOperation) + 16 * B(x.DelayedControl) + x.ChannelNumber,
           x.GroupID0, 16 * B(x.DisableMemberID0Check) + x.MemberID0,
           x.GroupID1, 16 * B(x.DisableMemberID1Check) + x.MemberID1,
           x.GroupID2, 16 * B(x.DisableMemberID2Check) + x.MemberID2,
           x.GroupID3, 16 * B(x.DisableMemberID3Check) + x.MemberID3,
           16 * x.RetryCount + x.Operation>>
    [] k = "Request" ->
         <<128 * B(x.GetRevisionOnly) + x.ParamSelector, x.SetSelector,
           x.BlockSelector>>
    \* IPMI 30.4 table 30-6, parameters 0..13.
    [] k = "SetInProgress" -> <<x>>
    [] k \in OctetKinds -> <<x[OctetField(k)]>>
    [] k = "EventFilterData1" -> <<x.FilterNumber, x.Data1>>
    [] k = "SystemGUID" -> <<B(x.UseGUID)>> \o x.GUID
    [] k = "AlertStringKeys" ->
         <<x.AlertStringSelector, x.EventFilterNumber, x.AlertStringSet>>
    [] k = "AlertStrings" -> <<x.StringSelector, x.BlockSelector>> \o x.StringData

\* The length of each packed record in the IPMI tables.
PackedLen(k, x) ==
  CASE k \in {"Control", "ActionGlobalControl", "SetInProgress"} \cup OctetKinds -> 1
    [] k = "EventFilter" -> 20
    [] k \in {"AlertPolicy", "Request", "AlertStringKeys"} -> 3
    [] k = "EventFilterParam" -> 21
    [] k = "AlertPolicyParam" -> 4
    [] k = "GroupControlTable" -> 11
    [] k = "EventFilterData1" -> 2
    [] k = "SystemGUID" -> 17
    [] k = "AlertStrings" -> 2 + Len(x.StringData)

-----------------------------------------------------------------------------
TypeOK ==
  /\ kind \in Kinds \cup {NULL}
  /\ kind # NULL => value \in Values[kind]
  /\ wire = NULL \/ wire = Panic \/ wire \in Seq(Octets)
  /\ kind # NULL /\ wire # Panic => Len(wire) = PackedLen(kind, value)

\* Round trip (spec 8): unpacking what Pack produced never fails and gives
\* back exactly the record that was packed, every sub-octet field included.
RoundTrip == decoded # NULL => decoded = value

\* Pack returns a buffer of the record's fixed length in which every field,
\* flag and nibble sits where the IPMI table puts it, so no field disturbs
\* a sibling sharing its octet and the controller reads what was meant.
WireLayout == kind # NULL => wire = Layout(kind, value)

\* The fields that share an octet with a sibling, as <<field, octet, low
\* bit, width>> (spec 4.4 / IPMI 17.7, 17.11, 30-6 parameter 12).
SubFields(k) ==
  CASE k = "EventFilter" ->
         {<<"GroupControlSelector", 3, 4, 3>>, <<"AlertPolicyNumber", 3, 0, 4>>}
    [] k = "AlertPolicy" ->
         {<<"PolicyNumber", 1, 4, 4>>, <<"PolicyAction", 1, 0, 3>>,
          <<"Channel", 2, 4, 4>>, <<"Destination", 2, 0, 4>>,
          <<"AlertStringKey", 3, 0, 7>>}
    [] k = "GroupControlTable" ->
         {<<"ChannelNumber", 2, 0, 4>>, <<"MemberID0", 4, 0, 4>>,
          <<"MemberID1", 6, 0, 4>>, <<"MemberID2", 8, 0, 4>>,
          <<"MemberID3", 10, 0, 4>>, <<"RetryCount", 11, 4, 3>>,
          <<"Operation", 11, 0, 4>>}
    [] OTHER -> {}

\* Octet b with bits lo .. lo+w-1 cleared.
Outside(b, lo, w) == b - ((b \div 2^lo) % 2^w) * 2^lo

\* Spec 4.4: every sub-octet field occupies its own bit range, and packing
\* one field never disturbs the bits of a sibling in the same octet.  So
\* whatever value a caller puts in a field (a Go uint8 may hold more than
\* the field's width), the octet outside the field's range is what it is
\* with that field zero.
SiblingsUndisturbed ==
  kind # NULL /\ wire # Panic =>
    \A f \in SubFields(kind) :
      \A w0 \in PackOutcomes(kind, [value EXCEPT ![f[1]] = 0]) :
        Outside(wire[f[2]], f[3], f[4]) = Outside(w0[f[2]], f[3], f[4])
====
