---------------------------- MODULE PEFFilterList ----------------------------
(***************************************************************************)
(* The `goipmi pef filter list` command (cmd/goipmi/commands/pef.go,       *)
(* NewCmdPEFFilterList): read NumberOfEventFilters, make a slice of that   *)
(* many entries, then fetch event filter entries i = 1..count with a uint8 *)
(* loop counter and store entry i at index i-1 (a uint8 subtraction).  A   *)
(* failing GetPEFConfigForParameter goes to CheckErr, which reports the    *)
(* error and exits; an index outside the slice is a Go runtime panic.      *)
(* The controller's count is any of CountValues.  It holds event filter  *)
(* k as the 20 octets IPMI table 17.7 gives StoredFilter(k), and answers   *)
(* the request for set selector k with k and those octets; the entry is    *)
(* PEFConfigParam_EventFilter.Unpack of that reply (PEFCodec), Entry(k).   *)
(* Printing is FormatEventFilters (types_pef.go), of                       *)
(* which the columns converted from the entry are kept: the enabled word,   *)
(* the filter type's String and the enabledActions list; the numeric       *)
(* columns are `%v` of a field and are left out.                           *)
(***************************************************************************)
EXTENDS Naturals, Sequences, FiniteSets

LOCAL INSTANCE SequencesExt

CONSTANTS
  NULL,
  CountValues,    \* counts the controller may report (subset of 0..255)
  StoredFilters   \* a non-empty sequence of PEFEventFilter records

ASSUME CountValues \subseteq 0..255

ByteMod == 256    \* width of the uint8 counter i and of i-1

C == INSTANCE PEFCodec
       WITH TooShort <- NULL, Panic <- NULL, Values <- <<>>,
            kind <- NULL, value <- NULL, wire <- NULL, decoded <- NULL

\* The controller's event filter k (spec-modelled).
StoredFilter(k) == StoredFilters[((k - 1) % Len(StoredFilters)) + 1]

\* The entry GetPEFConfigForParameter(param, k, 0) unpacks for selector k.
Entry(k) == C!UnpackEventFilterParam(<<k>> \o C!LayoutEventFilter(StoredFilter(k))).Entry

VARIABLES
  n,          \* numberOfEventFilters (NULL until read)
  filters,    \* the slice eventFilters: a sequence of unpacked entries or nil
  i,          \* the uint8 loop counter
  lastSet,    \* set selector of the last event filter request (NULL: none)
  status,     \* "count", "loop", "printed", "exited" or "panicked"
  rows        \* the table printed: one row per entry (NULL until printed)

vars == <<n, filters, i, lastSet, status, rows>>

Init ==
  /\ n = NULL
  /\ filters = <<>>
  /\ i = 0
  /\ lastSet = NULL
  /\ status = "count"
  /\ rows = NULL

\* Mutant: the slice made one short.
MakeFiltersShort(c) == [k \in 1..(c - 1) |-> NULL]

\* `make([]*ipmi.PEFEventFilter, numberOfEventFilters)`: c nil entries.
MakeFilters(c) == [k \in 1..c |-> NULL]

\* `i <= numberOfEventFilters`.
LoopCond == i <= n

\* Mutant: the loop counter starts at 0.
FirstIndexZero == 0

\* `i := uint8(1)`: set selector 0 is not an event filter entry.
FirstIndex == 1

\* The count is read; the slice is made and the loop starts at i = 1.
ReadCount ==
  /\ status = "count"
  /\ \E c \in CountValues :
       /\ n' = c
       /\ filters' = MakeFilters(c)
  /\ i' = FirstIndex
  /\ status' = "loop"
  /\ UNCHANGED <<lastSet, rows>>

\* Go index `i-1` of the slice, computed in uint8; sequence index is +1.
SlotOf(k) == ((k + ByteMod - 1) % ByteMod) + 1

\* One iteration: entry i is fetched and stored at eventFilters[i-1], then
\* i++ (uint8).  An index past the slice panics.
FetchEntry ==
  /\ status = "loop"
  /\ LoopCond
  /\ lastSet' = i
  /\ IF SlotOf(i) \in DOMAIN filters
       THEN /\ filters' = [filters EXCEPT ![SlotOf(i)] = Entry(i)]
            /\ i' = (i + 1) % ByteMod
            /\ UNCHANGED status
       ELSE /\ status' = "panicked"
            /\ UNCHANGED <<filters, i>>
  /\ UNCHANGED <<n, rows>>

\* Reading the count fails: CheckErr exits.
CountFailed ==
  /\ status = "count"
  /\ status' = "exited"
  /\ UNCHANGED <<n, filters, i, lastSet, rows>>

\* Fetching entry i fails: CheckErr exits.
EntryFailed ==
  /\ status = "loop"
  /\ LoopCond
  /\ lastSet' = i
  /\ status' = "exited"
  /\ UNCHANGED <<n, filters, i, rows>>

-----------------------------------------------------------------------------
(* FormatEventFilters and the conversions its rows make.                  *)

\* enabledActions: the flags tested in this order, each appending its name.
ActionNames ==
  <<<<"ActionGroupControlOperation", "Group Control Operation">>,
    <<"ActionDiagnosticInterrupt", "DiagnosticInterrupt">>,
    <<"ActionOEM", "OEM-defined">>, <<"ActionPowerCycle", "PowerCycle">>,
    <<"ActionReset", "Reset">>, <<"ActionPowerOff", "PowerOff">>,
    <<"ActionAlert", "Alert">>>>

EnabledActions(f) ==
  FoldLeft(LAMBDA out, a : IF f[a[1]] THEN Append(out, a[2]) ELSE out,
           <<>>, ActionNames)

\* fmt.Sprintf("%#02x", v): "0x" and the hex digits, no padding past two.
HexDigit(d) == SubSeq("0123456789abcdef", d + 1, d + 1)
Hex(v) == "0x" \o (IF v < 16 THEN HexDigit(v)
                   ELSE HexDigit(v \div 16) \o HexDigit(v % 16))

\* PEFEventFilterType.String: the map's two names, else the hex value.
FilterTypeString(t) ==
  CASE t = C!PEFEventFilterType_Configurable  -> "Configurable"
    [] t = C!PEFEventFilterType_PreConfigured -> "Pre-Configured"
    [] OTHER                                  -> Hex(t)

\* The converted columns of one row.
Row(f) ==
  [enabled |-> IF f.FilterEnabled THEN "enabled" ELSE "disabled",
   type    |-> FilterTypeString(f.FilterType),
   actions |-> EnabledActions(f)]

\* The zero PEFEventFilter{} put first so the headers are always made: every
\* field zero or false, which is the entry twenty zero octets unpack to.
Fake == C!UnpackEventFilter(C!Zeros(20))

\* Mutant: the fake first item formatted as a row too.
FormatRowsWithFake(fs) ==
  LET all == <<Fake>> \o fs IN [j \in 1..Len(all) |-> Row(all[j])]

\* `for i, f := range append({{}}, eventFilters...)`: item 0 gives the
\* headers, every later item a row.
FormatRows(fs) ==
  LET all == <<Fake>> \o fs IN [j \in 1..(Len(all) - 1) |-> Row(all[j + 1])]

\* The loop test fails: FormatEventFilters(eventFilters) is printed.  A nil
\* entry is dereferenced by the row's first column: a runtime panic.
PrintList ==
  /\ status = "loop"
  /\ ~LoopCond
  /\ IF \E k \in DOMAIN filters : filters[k] = NULL
       THEN /\ status' = "panicked"
            /\ UNCHANGED rows
       ELSE /\ status' = "printed"
            /\ rows' = FormatRows(filters)
  /\ UNCHANGED <<n, filters, i, lastSet>>

Next == ReadCount \/ CountFailed \/ FetchEntry \/ EntryFailed \/ PrintList

\* One goroutine, and every call returns: the command keeps stepping.
Spec == Init /\ [][Next]_vars /\ WF_vars(Next)

-----------------------------------------------------------------------------
TypeOK ==
  /\ n \in CountValues \cup {NULL}
  /\ \A k \in DOMAIN filters : filters[k] \in {NULL} \cup {Entry(j) : j \in 1..Len(StoredFilters)}
  /\ i \in 0..(ByteMod - 1)
  /\ lastSet \in (1..(ByteMod - 1)) \cup {NULL}
  /\ status \in {"count", "loop", "printed", "exited", "panicked"}
  /\ rows = NULL \/ rows \in Seq([enabled : {"enabled", "disabled"},
                                   type : STRING, actions : Seq(STRING)])

\* IPMI 17.6 / 17.7 names of the action bits 0..6 of byte 2 and of the
\* filter type codes of byte 1 [6:5].
ActionBitName == <<"Alert", "PowerOff", "Reset", "PowerCycle", "OEM-defined",
                   "DiagnosticInterrupt", "Group Control Operation">>
TypeCodeName == <<"Configurable", "reserved", "Pre-Configured", "reserved">>

\* What row k should show for the controller's filter k, read off the
\* octets it stores: bit 7 of byte 1, the type code, and the names of the
\* action bits set in byte 2 from bit 6 down.
Intended(k) ==
  LET o == C!LayoutEventFilter(StoredFilter(k))
      set == {b \in 0..6 : (o[2] \div 2^b) % 2 = 1}
  IN  [enabled |-> IF o[1] >= 128 THEN "enabled" ELSE "disabled",
       type    |-> TypeCodeName[((o[1] \div 32) % 4) + 1],
       actions |-> [j \in 1..Cardinality(set) |->
                      ActionBitName[1 + CHOOSE b \in set :
                        Cardinality({c \in set : c >= b}) = j] ]]

\* `pef filter list` prints one row per event filter of the controller,
\* row k for filter k, each showing the filter's enabled state, its type
\* and the actions it has enabled: the uint8 loop, the slice index, the
\* entry Unpack, the fake header item and the row conversions agree.
ListShowsFilters ==
  status = "printed" => rows = [k \in 1..n |-> Intended(k)]

\* The command ends normally, printing the list or reporting the failing
\* call, whatever count the controller reports; it never panics.
Terminates == <>(status \in {"printed", "exited"})
=============================================================================
