------------------------- MODULE PEFConfigRetrieval -------------------------
(***************************************************************************)
(* Client.GetPEFConfig (cmd_get_pef_config_parameters.go): a fixed order   *)
(* of single-parameter exchanges, three of which read a count that drives  *)
(* a loop of per-entry exchanges.  Every exchange goes through             *)
(* GetPEFConfigForParameter, which fails if Exchange fails or if the       *)
(* parameter cannot be unpacked; the first failure aborts the whole call.  *)
(* The controller is the environment: each exchange may succeed or fail,   *)
(* and a count read may return any of CountValues.  Loop counters are Go   *)
(* uint8 and wrap modulo ByteMod.                                          *)
(***************************************************************************)
EXTENDS Naturals, Sequences

CONSTANTS
  NULL,
  CountValues     \* counts the controller may report (subset of 0..255)

ASSUME CountValues \subseteq 0..255

ByteMod == 256    \* width of the uint8 loop counter i

\* A PEFConfig array driven by a uint8 count holds at most 255 entries; a
\* loop that has appended MaxEntries of them has run away.  The model
\* takes no step past this bound, so a runaway loop never returns.
MaxEntries == ByteMod

ScalarParams == {"Control", "ActionGlobalControl", "StartupDelay",
                 "AlertStartupDelay", "SystemGUID"}
CountParams  == {"NumberOfEventFilters", "NumberOfAlertPolicies",
                 "NumberOfAlertStrings"}
Arrays       == {"EventFilters", "EventFiltersData1", "AlertPolicies",
                 "AlertStringKeys", "AlertStrings"}

\* The blocks of GetPEFConfig in source order; "Return" is line 268.
Steps ==
  <<"Control", "ActionGlobalControl", "StartupDelay", "AlertStartupDelay",
    "NumberOfEventFilters", "EventFilters", "EventFiltersData1",
    "NumberOfAlertPolicies", "AlertPolicies", "SystemGUID",
    "NumberOfAlertStrings", "AlertStringKeys", "AlertStrings", "Return">>

VARIABLES
  pc,        \* the block of GetPEFConfig being executed, or Done / Failed
  i,         \* the uint8 loop counter of the current array block
  scalars,   \* scalar parameters assigned into pefConfig so far
  counts,    \* count parameters assigned into pefConfig (NULL = nil)
  arrays,    \* set selectors of the entries appended to each array
  lastReq,   \* the last GetPEFConfigParameters request sent
  ret        \* the returned *PEFConfig (NULL = nil)

vars == <<pc, i, scalars, counts, arrays, lastReq, ret>>

Abs == INSTANCE PEFConfigAbstract
         WITH status <- IF pc \in {"Done", "Failed"} THEN pc ELSE "Running",
              result <- ret

StepIndex(s) == CHOOSE k \in 1..Len(Steps) : Steps[k] = s
NextStep(s)  == Steps[StepIndex(s) + 1]

\* Mutant: every loop tested with `<`.
LoopCondAllLT(a) == i < counts[Abs!CountOf(a)]

\* The count an array loop is bounded by (Abs!CountOf) and its loop test:
\* `i <= n` for filters, filter data and string keys, `i < n` for alert
\* policies and alert strings.
LoopCond(a) ==
  LET n == counts[Abs!CountOf(a)]
  IN  IF a \in {"AlertPolicies", "AlertStrings"} THEN i < n ELSE i <= n

\* Block selector 1 for alert strings, 0 for every other parameter.
BlockOf(s) == IF s = "AlertStrings" THEN 1 ELSE 0

\* The request the current block sends (set selector i inside a loop).
CurrentReq ==
  IF pc \in Arrays
  THEN [param |-> pc, set |-> i, block |-> BlockOf(pc)]
  ELSE [param |-> pc, set |-> 0, block |-> 0]

\* Mutant: loops start at 0.
GotoFromZero(s) == pc' = s /\ i' = 0

\* Entering a block; each loop starts with `i := uint8(1)`.
Goto(s) == pc' = s /\ i' = 1

IssuesRequest ==
  \/ pc \in ScalarParams \cup CountParams
  \/ /\ pc \in Arrays
     /\ LoopCond(pc)
     /\ Len(arrays[pc]) < MaxEntries

-----------------------------------------------------------------------------
Init ==
  /\ pc = Steps[1]
  /\ i = 1
  /\ scalars = {}
  /\ counts = [c \in CountParams |-> NULL]
  /\ arrays = [a \in Arrays |-> <<>>]
  /\ lastReq = NULL
  /\ ret = NULL

\* Mutant: a copied block assigns its parameter to the next block's field.
FetchScalarIntoNext ==
  /\ pc \in ScalarParams
  /\ lastReq' = CurrentReq
  /\ scalars' = scalars \cup {NextStep(pc)}
  /\ Goto(NextStep(pc))
  /\ UNCHANGED <<counts, arrays, ret>>

\* A scalar block: GetPEFConfigForParameter(param, 0, 0) succeeds and the
\* parameter is stored into pefConfig.
FetchScalar ==
  /\ pc \in ScalarParams
  /\ lastReq' = CurrentReq
  /\ scalars' = scalars \cup {pc}
  /\ Goto(NextStep(pc))
  /\ UNCHANGED <<counts, arrays, ret>>

\* A count block: the controller reports some count v, stored as .Value.
FetchCount ==
  /\ pc \in CountParams
  /\ lastReq' = CurrentReq
  /\ \E v \in CountValues : counts' = [counts EXCEPT ![pc] = v]
  /\ Goto(NextStep(pc))
  /\ UNCHANGED <<scalars, arrays, ret>>

\* Mutant: the loop counter is never advanced.
FetchEntryNoIncrement ==
  /\ pc \in Arrays
  /\ IssuesRequest
  /\ lastReq' = CurrentReq
  /\ arrays' = [arrays EXCEPT ![pc] = Append(@, i)]
  /\ UNCHANGED <<pc, i, scalars, counts, ret>>

\* One loop iteration: fetch entry i, append it, i++ (uint8).
FetchEntry ==
  /\ pc \in Arrays
  /\ IssuesRequest
  /\ lastReq' = CurrentReq
  /\ arrays' = [arrays EXCEPT ![pc] = Append(@, i)]
  /\ i' = (i + 1) % ByteMod
  /\ UNCHANGED <<pc, scalars, counts, ret>>

\* The loop test fails: go on with the next block.
EndLoop ==
  /\ pc \in Arrays
  /\ ~LoopCond(pc)
  /\ Goto(NextStep(pc))
  /\ UNCHANGED <<scalars, counts, arrays, lastReq, ret>>

\* Exchange or Unpack fails for the current request: `return nil, err`.
FetchFailed ==
  /\ IssuesRequest
  /\ lastReq' = CurrentReq
  /\ pc' = "Failed"
  /\ UNCHANGED <<i, scalars, counts, arrays, ret>>

\* `return pefConfig, nil`.
Finish ==
  /\ pc = "Return"
  /\ pc' = "Done"
  /\ ret' = [scalars |-> scalars, counts |-> counts, arrays |-> arrays]
  /\ UNCHANGED <<i, scalars, counts, arrays, lastReq>>

Next ==
  \/ FetchScalar
  \/ FetchCount
  \/ FetchEntry
  \/ EndLoop
  \/ FetchFailed
  \/ Finish

\* The call runs on the caller's goroutine and Exchange always returns
\* (result or error), so the call keeps taking steps.
Spec == Init /\ [][Next]_vars /\ WF_vars(Next)

-----------------------------------------------------------------------------
TypeOK ==
  /\ pc \in {s : s \in {Steps[k] : k \in 1..Len(Steps)}} \cup {"Done", "Failed"}
  /\ i \in 0..(ByteMod - 1)
  /\ scalars \subseteq ScalarParams
  /\ counts \in [CountParams -> CountValues \cup {NULL}]
  /\ \A a \in Arrays : arrays[a] \in Seq(0..(ByteMod - 1))
  /\ lastReq = NULL \/ lastReq.param \in ScalarParams \cup CountParams \cup Arrays

\* Every per-entry request of a count-driven loop addresses an entry that
\* exists: its set selector lies in 1..count (selector 0 is not an entry
\* of these tables).  A uint8 counter that wraps past 255 breaks it.
SelectorsInRange ==
  lastReq # NULL /\ lastReq.param \in Arrays
    => lastReq.set \in 1..counts[Abs!CountOf(lastReq.param)]

\* GetPEFConfig always returns: every loop ends.
Terminates == <>(pc \in {"Done", "Failed"})

\* The step-by-step call implements the atomic all-or-nothing promise.
Refinement == Abs!SafetySpec

\* Spec 9 / IPMI 30.7: the alert policy table holds entries 1..count and
\* the non-volatile alert strings are 1..count; a returned configuration
\* should hold all of them.
AlertTablesComplete ==
  pc = "Done" =>
    /\ ret.arrays["AlertPolicies"] =
         [k \in 1..ret.counts["NumberOfAlertPolicies"] |-> k]
    /\ ret.arrays["AlertStrings"] =
         [k \in 1..ret.counts["NumberOfAlertStrings"] |-> k]
=============================================================================
