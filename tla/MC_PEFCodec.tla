------------------------------ MODULE MC_PEFCodec ------------------------------
(* Records a caller can build.  Every flag ranges over BOOLEAN; each       *)
(* multi-bit field takes its smallest and largest valid value (so a        *)
(* missing mask or a wrong shift spills into a neighbour); each plain      *)
(* octet has a value of its own, so a field copied to the wrong offset is  *)
(* visible.                                                                *)
EXTENDS PEFCodec

MCControls == [EnablePEFAlertStartupDelay : BOOLEAN, EnablePEFStartupDelay : BOOLEAN,
               EnableEventMessage : BOOLEAN, EnablePEF : BOOLEAN]

MCActionGlobalControls ==
  [DiagnosticInterruptEnabled : BOOLEAN, OEMActionEnabled : BOOLEAN,
   PowerCycleActionEnabled : BOOLEAN, ResetActionEnabled : BOOLEAN,
   PowerDownActionEnabled : BOOLEAN, AlertActionEnabled : BOOLEAN]

EventFilters(types, enabled) ==
  [FilterEnabled : enabled, FilterType : types,
   ActionGroupControlOperation : BOOLEAN, ActionDiagnosticInterrupt : BOOLEAN,
   ActionOEM : BOOLEAN, ActionPowerCycle : BOOLEAN, ActionReset : BOOLEAN,
   ActionPowerOff : BOOLEAN, ActionAlert : BOOLEAN,
   GroupControlSelector : {0, 7}, AlertPolicyNumber : {0, 15},
   EventSeverity : {16}, GeneratorID : {8257},        \* 2041h
   SensorType : {1}, SensorNumber : {2}, EventReadingType : {3},
   EventData1EventOffsetMask : {1029},                \* 0405h
   EventData1ANDMask : {6}, EventData1Compare1 : {7}, EventData1Compare2 : {8},
   EventData2ANDMask : {9}, EventData2Compare1 : {10}, EventData2Compare2 : {11},
   EventData3ANDMask : {12}, EventData3Compare1 : {13}, EventData3Compare2 : {14}]

MCAlertPolicies ==
  [PolicyNumber : {1, 15}, PolicyEnabled : BOOLEAN, PolicyAction : {0, 4},
   Channel : {0, 15}, Destination : {0, 15},
   IsEventSpecific : BOOLEAN, AlertStringKey : {0, 127}]

MCGroupControlTables ==
  [EntrySelector : {1}, ForceControlOperation : BOOLEAN, DelayedControl : BOOLEAN,
   ChannelNumber : {0, 15},
   GroupID0 : {2}, MemberID0 : {0, 15}, DisableMemberID0Check : BOOLEAN,
   GroupID1 : {3}, MemberID1 : {15}, DisableMemberID1Check : {FALSE},
   GroupID2 : {4}, MemberID2 : {0}, DisableMemberID2Check : {TRUE},
   GroupID3 : {5}, MemberID3 : {15}, DisableMemberID3Check : BOOLEAN,
   RetryCount : {0, 7}, Operation : {0, 15}]

Requests(selectors) ==
  [GetRevisionOnly : BOOLEAN, ParamSelector : selectors,
   SetSelector : {0, 255}, BlockSelector : {0, 1}]

\* A GUID with sixteen distinct octets, the high bit set in one of them.
MCGUID == [j \in 1..16 |-> IF j = 16 THEN 255 ELSE j + 16]

\* The single-octet parameters: the smallest and largest octet.
MCOctetValues(k) == [{OctetField(k)} -> {0, 255}]

\* The standard PEF parameters 0..19 (IPMI 30.3), software-configurable filters.
MCValues ==
  [k \in Kinds |->
     CASE k = "Control" -> MCControls
       [] k = "ActionGlobalControl" -> MCActionGlobalControls
       [] k = "EventFilter" -> EventFilters({PEFEventFilterType_Configurable}, BOOLEAN)
       [] k = "AlertPolicy" -> MCAlertPolicies
       [] k = "EventFilterParam" -> {}
       [] k = "AlertPolicyParam" ->
            [EntryNumber : {1, 255}, Entry : MCAlertPolicies]
       [] k = "GroupControlTable" -> MCGroupControlTables
       [] k = "Request" -> Requests({0, 19})
       [] k = "SetInProgress" -> {0, 1, 2}      \* set complete / in progress / commit write
       [] k \in OctetKinds -> MCOctetValues(k)
       [] k = "EventFilterData1" -> {}
       [] k = "SystemGUID" -> [UseGUID : BOOLEAN, GUID : {MCGUID}]
       [] k = "AlertStringKeys" ->
            [AlertStringSelector : {0, 127}, EventFilterNumber : {1, 127},
             AlertStringSet : {0, 127}]
       [] k = "AlertStrings" ->
            [StringSelector : {0, 127}, BlockSelector : {1},
             StringData : {<<72>>, [j \in 1..16 |-> 64 + j]}]]

OnlyKind(k0, vals) == [k \in Kinds |-> IF k = k0 THEN vals ELSE {}]

\* A manufacturer pre-configured filter (PEFEventFilterType_PreConfigured).
MCValuesPreConfigured ==
  OnlyKind("EventFilter",
           EventFilters({PEFEventFilterType_PreConfigured}, {FALSE, TRUE}))

\* An Event Filter parameter (the entry number and a filter).
MCValuesEventFilterParam ==
  OnlyKind("EventFilterParam",
           [EntryNumber : {1}, Entry :
              {CHOOSE e \in EventFilters({PEFEventFilterType_Configurable}, {TRUE}) :
                 e.ActionAlert /\ ~e.ActionOEM}])

\* Event Filter Table Data 1 (parameter 7): a filter number and its octet 1.
MCValuesEventFilterData1 ==
  OnlyKind("EventFilterData1", [FilterNumber : {1}, Data1 : {128}])

\* OEM parameters 96..127 (60h..7Fh) of IPMI 30.3.
MCValuesOEMSelector == OnlyKind("Request", Requests({96, 127}))

\* A Group Control Table entry built with RetryCount 0 and an Operation
\* of 16, one past its four bits (both are uint8 fields in Go).
MCValuesGroupControlSpill ==
  OnlyKind("GroupControlTable",
           {[CHOOSE g \in MCGroupControlTables : TRUE
               EXCEPT !.RetryCount = 0, !.Operation = 16]})
====
