------------------------------ MODULE MC_PEFCLI ------------------------------
(* Instantiates the `goipmi pef` commands for TLC.                         *)
(* Filter list: counts 0..3 cover the empty list, one entry and a loop     *)
(* that iterates; 254 is the largest count whose loop test still fails at  *)
(* i = 255; 255 is the uint8 edge.  The controller's filters differ in the *)
(* enabled bit and in which actions are set (none, one, all, two), so a    *)
(* row printed for the wrong entry, a missing or extra row, or an action   *)
(* out of order shows.                                                     *)
(* Status: every Action Global Control octet with reserved bits clear, and *)
(* every Control octet whose two startup-delay bits agree; a Control octet *)
(* with only one of them set is kept for its own configuration.            *)
EXTENDS PEFCLI

MCCountsSmall == (0..3) \cup {254}
MCCountsEdge  == {255}

\* A filter with the given enabled bit, type and action flags (in the
\* order of enabledActions); the other fields are arbitrary but fixed.
Filter(en, type, acts) ==
  [FilterEnabled |-> en, FilterType |-> type,
   ActionGroupControlOperation |-> acts[1], ActionDiagnosticInterrupt |-> acts[2],
   ActionOEM |-> acts[3], ActionPowerCycle |-> acts[4], ActionReset |-> acts[5],
   ActionPowerOff |-> acts[6], ActionAlert |-> acts[7],
   GroupControlSelector |-> 1, AlertPolicyNumber |-> 2, EventSeverity |-> 16,
   GeneratorID |-> 32, SensorType |-> 1, SensorNumber |-> 2, EventReadingType |-> 3,
   EventData1EventOffsetMask |-> 1029, EventData1ANDMask |-> 0,
   EventData1Compare1 |-> 0, EventData1Compare2 |-> 0, EventData2ANDMask |-> 0,
   EventData2Compare1 |-> 0, EventData2Compare2 |-> 0, EventData3ANDMask |-> 0,
   EventData3Compare1 |-> 0, EventData3Compare2 |-> 0]

None == <<FALSE, FALSE, FALSE, FALSE, FALSE, FALSE, FALSE>>
All  == <<TRUE, TRUE, TRUE, TRUE, TRUE, TRUE, TRUE>>
AlertOnly == <<FALSE, FALSE, FALSE, FALSE, FALSE, FALSE, TRUE>>
ResetOEM  == <<FALSE, FALSE, TRUE, FALSE, TRUE, FALSE, FALSE>>

\* PEFEventFilterType_Configurable and _PreConfigured (PEFCodec).
MCConfigurable  == 0
MCPreConfigured == 16

\* Software-configurable filters only.
MCStored ==
  <<Filter(TRUE, MCConfigurable, AlertOnly),
    Filter(FALSE, MCConfigurable, None),
    Filter(TRUE, MCConfigurable, All),
    Filter(TRUE, MCConfigurable, ResetOEM)>>

\* A manufacturer pre-configured filter first (IPMI 17.7 type 10b).
MCStoredPreConfigured ==
  <<Filter(TRUE, MCPreConfigured, AlertOnly)>>
MCCountsOne == {1}

MCControlAgreeing == {c \in 0..15 : (c \div 4) % 2 = (c \div 8) % 2}
MCControlOneDelay == {4}
MCAGCOctets       == 0..63
MCRevision        == 17   \* 11h, the revision of every parameter in IPMI 2.0
=============================================================================
