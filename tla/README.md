# TLA+ models of go-ipmi's PEF and DCMI core

This directory holds TLA+ models of the parts of `src/` that encode IPMI
PEF and DCMI records and run the multi-exchange retrievals built on them.
It also holds the TLC configurations that check them and `PROJECT.json`,
which lists every component, run, mutant, hazard and finding and maps each
modelled definition to the source lines it translates.

## 1. The system

The library is a client: every operation builds a request, hands it to
`Client.Exchange`, and decodes the reply. Exchange lives outside `src/` and
is the only blocking call. It fails on a transport error or a non-zero
completion code; otherwise it runs the response's `Unpack`. The library
runs nothing concurrently. The hard parts are these:

| Part | Source | Operations that change state |
|---|---|---|
| Byte/bit primitives | utils.go (not in src/) | packUintN/unpackUintN, bit helpers |
| PEF record codecs | types_pef.go, types_pef_params.go | Pack/Unpack of every record |
| PEF request | cmd_get_pef_config_parameters.go 37-60 | request Pack, response Unpack |
| PEF retrieval | cmd_get_pef_config_parameters.go 80-269 | GetPEFConfig: 8 scalar/count fetches plus 3 count-driven loops |
| DCMI discovery | cmd_get_dcmi_capabilities_info.go, cmd_get_dcmi_config_param.go, types_dcmi_params.go | five fixed fetches each, response and parameter Unpack |
| DCMI limits | cmd_{set,get}_dcmi_{power,thermal}_limit.go | Pack, Unpack, the Client wrappers |
| DCMI config set | cmd_set_dcmi_config_param.go | Pack, Unpack |
| CLI | cmd/goipmi/commands/{dcmi,pef}.go | argument parsing, printing, two read loops |

How the parts interact:
- **Codecs.** Every record codec is built from the byte/bit primitives.
- **PEF retrieval.** Each step sends one request and decodes one parameter. The counts it decodes decide how many later requests it sends.
- **DCMI discovery.** It sends a fixed sequence of five requests. Every reply must start with the DCMI group-extension octet (DCh).
- **DCMI limits.** A set call and a later get call meet at the controller. A set only matters through what a later get reads back.

What makes the code hard to test:
- Counters are `uint8`. A count of 255 wraps the counter.
- The loops are count-driven, with `<=` in some and `<` in others.
- Every retrieval must be all-or-nothing across 8+3n exchanges.
- A decode must never read past the end of a reply. The period count of a reply bounds how much is read.
- The marker must be checked before anything else is read.
- Sub-octet fields share octets.
- Pack and Unpack use offsets that differ from each other.
- Several Client wrappers have preconditions, or lack them.

## 2. Modules

| Module | Models | State | Actions |
|---|---|---|---|
| `ByteCodec` | the utils.go primitives (from spec 4.1) | - | operators only |
| `PEFConfigRetrieval` | `Client.GetPEFConfig` | pc, uint8 loop counter i, scalars, counts, arrays, last request, returned value | FetchScalar, FetchCount, FetchEntry, EndLoop, FetchFailed, Finish |
| `PEFConfigAbstract` | what GetPEFConfig promises | status, result | Return (whole config at once), Fail |
| `DCMIParamDiscovery` | `DiscoveryDCMICapabilities`, `GetDCMIConfigurations` | family, block, status, stored selectors, last reply, octets read, error, result | FetchParam, Finish |
| `DCMILimits` | the four limit commands + a controller | controller's power/thermal limits, last requests sent, last get outcome | ExchangeSetPowerLimit, SetDCMIPowerLimit, GetDCMIPowerLimit, GetDCMIThermalLimit, SetDCMIThermalLimit |
| `PEFCodec` | every PEF configuration parameter, the two PEF table entries and the Get PEF request | kind, record, packed octets, decoded record | Pack(k), Unpack |
| `PEFConfigConcurrent` | GetPEFConfig (via `INSTANCE PEFConfigRetrieval`) beside another session that sets PEF parameters | the retrieval's state, the controller's items with versions, what each exchange read, the store's history | ReadParam, ReaderStep, SetParam |
| `AssetTagRead` | `goipmi dcmi asset_tag` (dcmi.go 167-189) | tag length, uint8 offset, assembled tag, status, call count | ReadChunk, ReadFailed |
| `PEFFilterList` | `goipmi pef filter list` (pef.go 95-124) with `FormatEventFilters`, `enabledActions` and `FilterType.String` (types_pef.go), composed with `PEFCodec` | count, slice of unpacked entries, uint8 counter, last set selector, status, printed rows | ReadCount, CountFailed, FetchEntry, EntryFailed, PrintList |
| `PEFStatus` | `goipmi pef status` (pef.go 46-79) with `GetPEFConfigForParameter`, the Get PEF response Unpack and the Control and Action Global Control `Format`, composed with `PEFCodec` | the controller's two octets, block index, status, last request, printed lines | LastProcessedEventId, GetPEFConfigForParameter |
| `DCMICLI` | the `goipmi dcmi` command tree (dcmi.go 11-294, 428-446) except `thermalpolicy set|get`: one process runs one command line; composes `DCMIParamDiscovery` and `AssetTagRead` by `INSTANCE ... WITH` | command line, status, sensors block, the call that failed and the call its CheckErr message names, and the two instances' variables renamed | Help, SingleCall, Discovery, AssetTag, Sensors |
| `PEFCLI` | the `goipmi pef` command tree (pef.go 10-44, 81-93): one process runs one subcommand; composes `PEFFilterList` and `PEFStatus` by `INSTANCE ... WITH` | subcommand, `capabilities` status, and the two instances' variables renamed | Capabilities, FilterList, Status |
| `DCMICodec` | the DCMI capability and configuration parameter values, `SetDCMIConfigurationParams`, and a controller | the controller's configuration store, the last value set per selector (ghost), the last call's result | DiscoveryDCMICapabilities, SetDCMIConfigurationParams, GetDCMIConfigurations |
| `DCMIThermalCLI` | `goipmi dcmi thermalpolicy set/get` (dcmi.go 311-426) composed with `DCMILimits` | the DCMILimits state and the last command line with its outcome | CmdThermalPolicySet, CmdThermalPolicyGet |

### How the modules correspond to the code

**PEFConfigRetrieval.**
- `pc` walks the `Steps` sequence, which follows the source order of the blocks in GetPEFConfig.
- Each block is one action, covering the whole block:
  - build the request;
  - Exchange;
  - Unpack;
  - store the value, or return nil with an error.
- `i` is the Go `uint8` loop variable, incremented `% 256`.
- `LoopCond` keeps the code's `<=` for event filters and alert string keys and `<` for alert policies and alert strings.
- A controller's counts come from `CountValues`.
- `MaxEntries` caps the length of a table. It only makes the 255-wraparound state space finite, and it is never reached with the small counts.
- `Abs == INSTANCE PEFConfigAbstract WITH ...` maps the detailed state onto the atomic specification. The abstract specification states what the code promises, including the short alert tables. The run that catches the short tables is a separate violation run.

**DCMIParamDiscovery.**
- A reply is abstracted to four things: the completion code, the payload length, the first octet, and (for capabilities selector 5) the rolling-average period count.
- Each block's decode follows the code's order:
  1. Exchange fails on the completion code.
  2. The response Unpack checks the length, then the marker, then reads the header and `ParamData = msg[4:]`.
  3. The parameter Unpack checks its minimum length, then the period count, then reads its octets.
- `reads` records which octet of which buffer each step reads. This lets an out-of-range read or an early read be stated as a property.

**DCMILimits.**
- The client operators are the Go Pack/Unpack functions, octet by octet.
- The controller (`BmcStore*`, `BmcGet*Response`) is written from the DCMI v1.5 tables (6.6.2-6.6.3, 6.7.1-6.7.2). It uses the tables' 1-based byte numbers, independently of the client code. Its defaults are: no active power limit (the get fails with completion code 80h), and a zero thermal limit for each inlet entity. It rejects thermal sets for entities that are not inlet entities.
- Ghost variables `sentPower` and `sentThermal` remember the request that produced the controller's current state. `wanted` records what a caller of the argument-less `SetDCMIPowerLimit()` meant to set.

**PEFCodec.**
- Each `PackX`/`UnpackX` operator translates its Go function: the same shifts, masks and `setOrClearBitN` calls, in the same order.
- A `Pack(k)` step packs a record the caller built. An `Unpack` step decodes the octets the last Pack produced.
- `Layout(k, x)` is the reference definition. It is the IPMI table for the record written as weighted sums, one term per field.
- The six single-octet parameters (the startup delays and the four counts) share `PackOctetParam`/`UnpackOctetParam`, with `OctetField` naming the struct field (`DelaySec` or `Value`). `SetInProgress` is the octet itself.
- `UnpackAlertStrings` keeps every octet after the two selectors, as `unpackBytes(data, 2, len(data)-2)` does.
- `PackEventFilterParam` returns two outcomes, `Panic` or the truncated copy. The code writes past its buffer, and utils.go (outside `src/`) decides which of the two happens.

**PEFConfigConcurrent.**
- `R == INSTANCE PEFConfigRetrieval` reuses the retrieval unchanged. `ReadParam` is a successful FetchScalar, FetchCount or FetchEntry step that also records, in `got`, the version of the item the request read. `ReaderStep` is every other retrieval step.
- The controller (from IPMI 30.4 and table 30-6, since it is not in `src/`) holds every item with a version. Parameter 7 (Event Filter Table Data 1) is octet 1 of the entry of parameter 6 with the same set selector, so both read one item (`Storage`).
- `SetParam` is the other session's Set PEF Configuration Parameters. It may happen between any two retrieval steps, at most `MaxWrites` times. `history` holds every state the store had since the call began.

**AssetTagRead.**
- One `ReadChunk` step is one loop iteration of the command: `GetDCMIAssetTag(offset)`, the append, the `uint8` end test `TotalLength <= offset+len`, and the `offset +=` line. `ReadFailed` is the `CheckErr` exit.
- GetDCMIAssetTag is outside `src/`. The controller answers a read at `offset` with at most `c` further octets of its tag, `c` chosen from `ChunkLens`, and the tag's total length. An octet is represented by its position, so a gap, repeat or reorder shows.
- `calls` counts the exchanges. `MaxCalls = 64` exceeds the 52 exchanges the longest legitimate read takes, so it only stops a runaway loop.

**PEFFilterList.** `ReadCount` is the count block and the `make`. `FetchEntry` is one iteration: the request for entry `i`, the store at the `uint8` index `i-1`, and `i++` in `uint8`. An index outside the slice is the Go runtime panic. The stored value is `Entry(i)`: the controller holds filter `k` as `PEFCodec`'s IPMI layout of `StoredFilter(k)`, and the client unpacks `<<k>>` followed by those octets through the `PEFCodec` instance. `CountFailed` and `EntryFailed` are the `CheckErr` exits. `PrintList` is the print after the loop. A nil slot (an entry never fetched) makes `FormatEventFilters` dereference nil, which is a panic. Otherwise the rows are built as the code builds them: a zero-valued header item `Fake` first, skipped by the row loop, then for each filter the enabled word, `FilterType.String()` and `enabledActions` in its fixed order. Only the columns a property reads are kept. `Intended(k)` is the reference row, written from IPMI table 30-6 on the stored octets.

**PEFStatus.**
- `LastProcessedEventId` is the first block. `GetLastProcessedEventId` is outside `src/`, so it is a call that succeeds (an empty block is printed) or fails (`Exit`, the `CheckErr`).
- `GetPEFConfigForParameter` is one of the other two blocks, in order. It sends `Request(p)`, the `PEFCodec` Pack of `GetPEFConfigParameters(false, selector, 0, 0)`. The answer is chosen from `Replies(p)`: a failed Exchange, an empty reply, the revision octet alone, or the revision and the controller's octet. `UnpackResponse` is the response Unpack, and `C!UnpackOf` the parameter's Unpack. Any failure exits. Otherwise the block's `Format` lines are printed.
- A printed block is the sequence of `<<label, word>>` lines Format writes. The reference `Intended(p)` is read off the controller's octet with the labels of IPMI table 30-6.

**DCMICLI.**
- `cmd` is the command line cobra dispatches, abstracted to the command's path and whether the argument it needs is there. `Help` is every Run that prints help and returns: the parents, `dcmi` with an unknown word, and commands given too few arguments.
- `SingleCall` is every command that makes one library call outside the modelled code and prints. `SingleCalls` holds, per command, the call it makes and what its `fmt.Errorf` names. The tables are split by source function (`PowerCommands`, `SetAssetTagCommand`, `MCIDStringCommands`, `TempReadingCommand`).
- `Discovery` is one step of `DCMIParamDiscovery` for `discover` or `get_conf_param`. The family is fixed by the command. When the aggregation returns, the command prints or goes to `CheckErr` with the selector the error names.
- `AssetTag` is one iteration of `AssetTagRead`.
- `Sensors` is one of the three `GetDCMISensors` blocks, in order.
- `failed` is a history variable: the call that returned the error. `reported` is what the `CheckErr` message names. A message that states no argument is recorded with `NULL` there.
- The asset tag controller and the discovery family are pinned under the other commands, as in `PEFCLI`.

**PEFCLI.**
- `cmd` is the subcommand cobra dispatches to, chosen once in `Init` from the paths `NewCmdPEF` and `NewCmdPEFFilter` register. `pef` and `pef filter` alone print help and take no step.
- `Capabilities` is `pef capabilities`: one call outside `src/` that prints or exits.
- `FilterList` and `Status` are the steps of the two instances, each guarded by its subcommand and leaving the other instance's variables unchanged. The instances' variables are renamed (`fN`, ..., `sOut`) as the hermes ICS02 environment composes its chains.
- The status controller is read only by `pef status`. Under any other subcommand it is pinned to one value (`IdleCtrl`), so its choices do not multiply the filter list's states.

**DCMIThermalCLI.**
- A command line is abstracted to its parsed fields: numbers as the integers `parseStringToInt64` returns, and the two action words as strings. The volatile word is never read by the code, so it is left out.
- `CmdThermalPolicySet` follows the command in order. The literal word `default` exits, the switches map the words, `CLIThermalRequest` builds the request literal with the `uint8`/`uint16` conversions, and then `L!SetThermalLimit`, the DCMILimits client-and-controller step, runs. The controller's answer decides between the success message and `CheckErr`.
- `CmdThermalPolicyGet` is `L!GetThermalLimit` on the narrowed entity and instance.

**DCMICodec.**
- Each `UnpackX`/`PackX` operator translates one parameter's Go function: the same octets, masks (`& 0x0FFF`, `& 0xF0`, `& 0x3F`), shifts and the `switch durationUnit`. `UnpackCap` and `UnpackConfig` dispatch on the selector, as the five blocks of the two aggregations do.
- The controller is not in `src/`. It is written from the DCMI v1.5 tables as weighted sums: `CapLayout` builds the capability parameter data, `BmcStoreConfig` stores a Set request, and `ConfigLayout` answers a Get. Activate DHCP is a trigger that stores nothing and always reads 00h.
- Each call is one step, on its success path. What a short, mis-marked or failing reply does is DCMIParamDiscovery's subject. `DiscoveryDCMICapabilities` picks the controller's capability attributes from `Platforms` and records them in `last`.

**ByteCodec.** Go index `k` is sequence index `k + 1`. Shifts of a `uint8` are taken `% 256`.

## 3. Runs

Runs named `*.cfg` check the MC module named in `PROJECT.json`. Each of the 24 properties of the seven passing runs, TypeOK included, has a mutant. The mutant is a plausible one-line bug in a mapped definition, and TLC finds the property violated under the run's own configuration.

| Run | Expect | What it shows |
|---|---|---|
| pef_config | pass (265 states) | With counts 0..2 and any exchange failing, GetPEFConfig terminates, requests only entries 1..count, and refines the atomic all-or-nothing specification. |
| pef_config_concurrent | violation | One Set from another session, between the read of event filter 1 and the read of its Data 1 octet, makes GetPEFConfig return a configuration the controller never held. |
| dcmi_cli | pass (2 019 states) | Every `goipmi dcmi` command line, with any call failing, ends (`Terminates`). For `discover` and `get_conf_param`, against replies of length 0, 4..10, with a right or wrong marker, a good or failing completion code and 0..2 periods: no read past a buffer, and the result is all five parameters or nil naming the first failing selector. For `asset_tag`, with tags of 0, 16, 37 and 255 octets in chunks of 5 or 16, the command prints exactly the controller's tag. |
| dcmi_limits | pass (12 012 states) | Any interleaving of sets and gets, through the wrappers or through Exchange: every successful get reports exactly what the last accepted set sent, including both thermal exception bits. |
| pef_codec | pass (3 563 states) | Round trip and IPMI layout hold for every valid record of every PEF parameter and table type except the cases with findings, each in its own configuration: parameters 6 and 7, pre-configured filters and OEM selectors 60h..7Fh. |
| pef_cli | pass (4 121 states) | Whichever `pef` subcommand runs, the process ends (`Terminates`). For filter counts 0..3 and 254, with any call failing, `pef filter list` prints row k with filter k's enabled bit, type and set actions as IPMI table 30-6 defines them, in order. For every Action Global Control octet and every Control octet whose startup-delay bits agree, with any exchange failing or answering short, `pef status` prints each setting as the controller holds it, or exits. |
| dcmi_thermal_cli | pass (6 485 states) | In any sequence of `thermalpolicy set` and `get` commands, a success reported for a valid command line leaves the controller holding exactly the actions, limit and time typed. |
| pef_alert_tables | violation | The alert policy and alert string tables come back one entry short. |
| dcmi_thermal_cli_invalid | violation | `set 64 1 volatile off sel 281 1027` reports success. The word "off" was sent as no power-off action, and the limit was stored as 25. |
| dcmi_codec | pass (1 793 states) | For a primary-BMC controller, DiscoveryDCMICapabilities reports every flag, the 12-bit SEL count, the revision nibble, the channel numbers and each rolling-average period in seconds as the DCMI tables define them. After any sequence of configuration sets, GetDCMIConfigurations returns the values last set, with Activate DHCP reading back false. |
| pef_group_control_spill | violation | A Group Control Table entry with Operation 16 (a value wider than its 4-bit field) and RetryCount 0 packs octet 11 as 10h: the unmasked Operation sets bit 4, which belongs to RetryCount (`SiblingsUndisturbed`, spec 4.4). |
| dcmi_sensors_error | violation | `dcmi sensors` whose CPU call fails reports `GetDCMISensors for entityID (0x40) failed`: all three blocks format `EntityID_DCMI_Inlet` (`ErrorNamesFailingStep`, spec 7). |

### Further counterexamples

The configurations below are not runs of `PROJECT.json`. Each reproduces a finding listed there with `tlc -config X.cfg MC_Module`, and TLC reports the named property violated.

| cfg (module) | Property | What TLC shows |
|---|---|---|
| PEFConfigWrap.cfg (MC_PEFConfigRetrieval) | SelectorsInRange | Count 255: `i` wraps to 0, entry 0 is requested, and the loop never ends. |
| PEFEventFilterParam.cfg (MC_PEFCodec) | RoundTrip | The EventFilter parameter Pack overruns its 20-octet buffer. |
| AssetTagZeroChunk.cfg (MC_DCMICLI) | Terminates | A controller that returns an empty chunk before the end makes the loop repeat the same read forever. |
| DCMISetPowerLimit.cfg (MC_DCMILimits) | SetPowerLimitHonoured | `Client.SetDCMIPowerLimit()` sets 0 W whatever the caller wanted. |
| PEFStatusLabels.cfg (MC_PEFCLI) | StatusShowsController | Control octet 04h (only PEF Startup Delay enabled) is printed as "PEF startup delay: disabled" and "Alert startup delay: enabled": `PEFConfigParam_Control.Format` swaps the two labels. |
| DCMIThermalEntity.cfg (MC_DCMILimits) | InletEntitiesOnly | `SetDCMIThermalLimit` sends a request for entity 41h. |
| PEFPreConfigured.cfg (MC_PEFCodec) | RoundTrip | `FilterType = PreConfigured (0x10)` packs as 0. |
| PEFOEMSelector.cfg (MC_PEFCodec) | WireLayout | Selectors 60h..7Fh are sent with bit 6 cleared. |
| PEFEventFilterData1.cfg (MC_PEFCodec) | WireLayout | Parameter 7 (Event Filter Table Data 1) is packed as 21 octets; IPMI table 30-6 gives it two. |
| DCMICodecChannel.cfg (MC_DCMICodec) | CapabilitiesReported | A power management controller on channel 1 is reported as channel 16 (`& 0xF0` with no shift). |
| DCMIDiscoverError.cfg (MC_DCMICLI) | ErrorNamesFailingStep | A failed `DiscoveryDCMICapabilities` is reported as "GetDCMIPowerReading failed". |
| DCMITempReadingError.cfg (MC_DCMICLI) | ErrorNamesFailingStep | A failed `GetDCMITemperatureReadingsForEntities` for three entities is reported as "GetDCMISensors for entityID (0x40) failed". |
| PEFFilterListWrap.cfg (MC_PEFCLI) | Terminates | Count 255: the `uint8` counter wraps and `eventFilters[i-1]` indexes 255 of a 255-entry slice, which panics. |
| PEFFilterListPreConfigured.cfg (MC_PEFCLI) | ListShowsFilters | A pre-configured filter (type bits 10b) is printed with type "0x2": `FilterType.String` compares the decoded value with the constant 0x10 it never holds. |

### Properties worth naming

- **`Refinement`.** The retrieval, with all its partial failures, is indistinguishable from one atomic step that returns the whole configuration or nothing. It implies that no half-filled configuration is returned, so that is not stated as an invariant of its own.
- **`Terminates`** (liveness, under `WF_vars(Next)`). Each step is one call to Exchange. Exchange always returns, with a reply or an error, and the code has no other wait. The fairness assumed is therefore only that the caller's goroutine keeps running.
- **`NoOutOfRangeRead`.** This relates the octets a decode read to the length of the reply and of its ParamData. The minimum lengths and the period-count check have to keep every read inside them.
- **`PowerLimitRoundTrip` and `ThermalRoundTrip`.** These are action properties: a get step's result equals the request that last changed the controller's state. They tie the client Pack, the controller's independent DCMI layout and the client Unpack together over any call sequence.
- **`ResultWasConfiguration`.** This relates what each exchange of one call read to the whole history of the controller during the call. No single-session test can reach it.
- **`AssetTagComplete` and `ListShowsFilters`.** The printed result is exactly the controller's data, with every octet or entry present once and in order. This is what the `uint8` end test and the `uint8` index have to get right together. `ListShowsFilters` also goes through the entry Unpack, the header item the row loop must skip, and the action order of `enabledActions`, against a reference row read off the stored octets.
- **`StatusShowsController`.** Every block `pef status` prints says, setting by setting, what the controller's octet holds, and a command that ends without error printed all of them. It goes through the request, the response Unpack (where a revision-only reply must leave nothing to decode), the parameter Unpack and Format.
- **`SiblingsUndisturbed`.** Spec 4.4 asks every Pack to mask a field to its width before it shifts it in. Setting any field to 0 must leave the other bits of its octet as they were. This is the property that catches a value too wide for its field spilling into a neighbour. `WireLayout` cannot catch it, because it only takes valid records.
- **`ErrorNamesFailingStep`.** Spec 7 says a CLI caller reports the step that failed. This compares the call that really returned the error with the one the message names, and with the argument where the message gives one. Only a controller that fails part-way reaches the error paths of the later blocks.
- **`CLISetHonoured`.** This goes from the words typed, through the switches, the narrowing, Pack and the controller's DCMI layout, to what the controller stores.
- **`CapabilitiesReported` and `ConfigRoundTrip`.** These relate what the library reports to what the controller holds, as the DCMI tables define it. `ConfigRoundTrip` goes through a whole sequence of sets: parameter Pack, request Pack, the controller's store, its reply, response Unpack and parameter Unpack.
- **`RoundTrip` and `WireLayout`.** These state spec 8's round-trip and bit-independence properties. The reference layout puts each field at its weight, so it also states that no field disturbs a sibling in the same octet.

### Bounds, and why they are enough

- **Retrieval counts {0,1,2}.** These exercise the empty loop, the loop with one entry, and the loop that must iterate. The `<` against `<=` difference already shows at 1. The wrap needs 255, which gets its own run.
- **DCMI reply lengths {0,4,5,...,10}.** These cover one short of the response minimum (5), and a ParamData one short of each parameter's minimum (1, 2, 3, 5). Periods 0..2 cover a count that fits and one that does not.
- **Limits.**
  - Each multi-octet field has one value with a different non-zero byte in every octet: 012Ch, 01020304h, 0102h, 0403h. A wrong offset or width therefore always changes what is read back.
  - The exception actions are 0 and 1.
  - The entities are 37h and 40h (inlet) and 41h (CPU).
  - TLC integers are 32-bit signed, so the largest 32-bit value used is below 2^31.
- **Codec.** The single-octet parameters take 0 and 255, SetInProgress its three states. The GUID has sixteen distinct octets, so a shifted copy shows. An alert string block has 1 or 16 octets: IPMI blocks are 16 octets, and `Unpack` requires at least one data octet, so an empty block is not packed. Every flag ranges over both values. Every multi-bit field takes its smallest and largest valid value, so a missing mask or a shift off by one spills into the neighbouring field. Every plain octet has its own value.

- **Asset tag.** Tag lengths 0, 16, 37 and 255 give an empty tag, an exact multiple of the chunk, spec 8's 37-octet example, and the largest tag a `uint8` offset can address. Chunks of 5 and 16 give full chunks and short chunks. Mixing them shows that the end test uses the real chunk length. The zero-chunk run uses chunks {0, 16}.
- **Filter list.** Counts 0..3 cover the empty list and loops that iterate. 254 is the largest count that works. 255, the wrap, is in its own configuration. The controller's filters cycle through four distinct configurable filters: enabled with only Alert, disabled with none, enabled with all seven actions, and enabled with Reset and OEM. So every row differs from its neighbours, and each action bit is seen both set and clear.
- **Concurrent writer.** One Set (`MaxWrites = 1`) and one event filter are enough for the mixed result. More writes only add interleavings of the same kind.
- **DCMI codec.**
  - The capability values are tried one parameter at a time against a base controller, because the five decoders share no octet.
  - Flags: none, each alone, and all. SEL counts: 0ABCh (every nibble non-zero) and 4095. Revision nibble: 0 and 15. Periods: 2 minutes and 5 seconds (spec 8's examples), 63 days and 1 hour.
  - Configuration: every combination of the three discovery flags, and each timing at 255 beside its default.
  - The passing run keeps to channel 0, the only channel the code decodes right. Channel 1 is in DCMICodecChannel.cfg.
- **PEF status.** The Action Global Control octet takes all 64 values of its six bits. The Control octet takes the 8 of its 16 values whose bits 2 and 3 agree, because the two labels are swapped (a finding). Bit 4 of the revision 11h is set, so a ConfigData read from octet 0 shows.
- **Thermal CLI.** The entities are 40h (inlet), 41h, and 140h, which narrows to 40h. The words cover each meaning in the usage text plus the literal `default`. The temperature is 25 and the time is 1027, which has a non-zero high octet. The passing run keeps to numbers that fit, because `CLISetHonoured` is about valid lines. The violation run has only an invalid line.

`CHECK_DEADLOCK FALSE` is set where the program ends: the retrieval and discovery runs (the call returns), and the `dcmi` and `pef` command runs (the command prints or exits). The limit, codec, DCMI codec and thermal CLI runs check deadlock, because a command can always be issued again.

### Fairness

- `PEFConfigRetrieval`, `DCMICLI` (which carries `AssetTagRead` and `DCMIParamDiscovery`) and `PEFCLI` (which carries `PEFFilterList` and `PEFStatus`) assume `WF_vars(Next)`. Each step is one call on the caller's goroutine, and every call returns, with a reply or an error. The controller's choice (which reply, how long a chunk, whether a call fails) is not fair. So the zero-chunk controller may return empty chunks forever, and that is the counterexample.
- `AssetTagRead` counts calls so that a repeated read is a real step and not a stutter. Otherwise weak fairness would force the failure action and hide the loop.
- `PEFConfigConcurrent`, `DCMILimits`, `DCMIThermalCLI`, `DCMICodec` have no fairness; `PEFStatus` and `PEFFilterList` are checked only inside `PEFCLI`. Their properties are safety properties.

## 4. Not modelled, and why

- **Most Format/String methods, the tablewriter output, and CLI argument parsing.** These are layout and wording. The exceptions are the outputs a property reads: `FormatEventFilters` with `FilterType.String` (PEFFilterList), and the Control and Action Global Control `Format` (PEFStatus). There each label and word is kept, and the layout is not. `parseStringToInt64` and `CheckErr` are outside `src/`. A parsed number is an integer, and `CheckErr` is the exit.
- **The library calls of the single-call CLI commands.** `GetDCMIPowerReading`, `ActivateDCMIPowerLimit`, the asset tag and controller ID string calls, `GetDCMISensors` and the temperature readings are outside `src/`. `DCMICLI` models each as a call that returns or fails. `GetDCMIPowerLimit` is in `DCMILimits`.
- **`errors.go` and `types_dcmi.go`.** These are error constructors and an enum. An error is modelled by its effect: the step fails and the caller gets NULL or TooShort.
- **Exchange and the transport.** These are outside `src/`. Each caller models Exchange as a reply from the controller, or a failure, chosen nondeterministically.
- **Not yet modelled:**
  - the capability parameters' Pack, which returns an empty slice and is never called.

## 5. Plan

Done so far:
- the core: PEF retrieval with its abstract specification, DCMI discovery, DCMI limits with a controller, and the PEF codecs;
- the CLI loops (`AssetTagRead`, `PEFFilterList`), the thermal policy commands composed with the limits (`DCMIThermalCLI`), and a concurrent writer composed with the retrieval (`PEFConfigConcurrent`);
- every PEF configuration parameter's Pack and Unpack (`PEFCodec`);
- the DCMI parameter values, and `SetDCMIConfigurationParams` with a Set-then-Get round trip through a controller (`DCMICodec`);
- the filter list's printed rows, composed with the PEF entry codec (`PEFFilterList` instantiating `PEFCodec`);
- `pef status`, with the Get PEF response Unpack and the Control and Action Global Control Format (`PEFStatus`);
- the `dcmi` command tree composing discovery and the asset tag loop with every other `dcmi` command, and what each CheckErr message names (`DCMICLI`);
- the `pef` command tree composing `pef status` and `pef filter list` (`PEFCLI`), and the masking rule of spec 4.4 for the multi-bit fields of the event filter, alert policy and group control entries (`SiblingsUndisturbed`).

Next, in order:
1. **The length guards.** For every Unpack, state that an input one octet short of its minimum is refused. This needs a short input beside each packed one.
2. **Larger bounds** for the concurrent writer: two writes and two filters, to see how many distinct mixed results GetPEFConfig can return.
