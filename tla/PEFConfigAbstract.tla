-------------------------- MODULE PEFConfigAbstract --------------------------
(***************************************************************************)
(* What Client.GetPEFConfig promises its caller (spec 4.5, 7): one call    *)
(* either returns a fully assembled PEFConfig or fails with nothing; the   *)
(* arrays are shaped by the counts read in the same call, with the         *)
(* iteration bounds the spec records (1..=count for event filters, their   *)
(* data-1 bytes and alert string keys; 1..count-1 for alert policies and   *)
(* alert strings).  Intermediate exchanges are invisible at this level.    *)
(***************************************************************************)
EXTENDS Naturals, Sequences

CONSTANTS
  NULL,
  CountValues,    \* counts the controller may report
  ScalarParams,   \* single-valued parameters of PEFConfig
  CountParams,    \* the three count parameters
  Arrays          \* the count-driven arrays of PEFConfig

VARIABLES status, result

vars == <<status, result>>

\* The count each array is driven by, and the last set selector read.
CountOf(a) ==
  CASE a \in {"EventFilters", "EventFiltersData1"} -> "NumberOfEventFilters"
    [] a = "AlertPolicies"                         -> "NumberOfAlertPolicies"
    [] a \in {"AlertStringKeys", "AlertStrings"}   -> "NumberOfAlertStrings"

LastEntry(a, n) ==
  IF a \in {"AlertPolicies", "AlertStrings"} THEN n - 1 ELSE n

\* The configuration assembled from counts c: entry k of each array is the
\* entry fetched with set selector k.
Assembled(c) ==
  [scalars |-> ScalarParams,
   counts  |-> c,
   arrays  |-> [a \in Arrays |->
                  [k \in 1..LastEntry(a, c[CountOf(a)]) |-> k]]]

Init == status = "Running" /\ result = NULL

Return ==
  /\ status = "Running"
  /\ \E c \in [CountParams -> CountValues] :
       /\ result' = Assembled(c)
       /\ status' = "Done"

Fail ==
  /\ status = "Running"
  /\ status' = "Failed"
  /\ UNCHANGED result

Next == Return \/ Fail

SafetySpec == Init /\ [][Next]_vars
=============================================================================
