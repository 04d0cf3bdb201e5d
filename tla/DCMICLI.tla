------------------------------- MODULE DCMICLI -------------------------------
(***************************************************************************)
(* The `goipmi dcmi` command tree (cmd/goipmi/commands/dcmi.go, NewCmdDCMI *)
(* and the commands it registers).  One process runs one command line:     *)
(* cobra picks the command from it, PersistentPreRunE opens the client and *)
(* PersistentPostRunE closes it (both outside src/).                       *)
(*   - `dcmi`, `power`, `thermalpolicy` and `thermalpolicy get` only print *)
(*     help, as do `set_asset_tag` and `set_mc_id_string` without an       *)
(*     argument; `dcmi` with an unknown word prints a line and the help.   *)
(*   - `discover` and `get_conf_param` are DiscoveryDCMICapabilities and   *)
(*     GetDCMIConfigurations (DCMIParamDiscovery), then a print.           *)
(*   - `asset_tag` is the read loop of AssetTagRead.                       *)
(*   - `sensors` is three GetDCMISensors calls, one per DCMI entity.       *)
(*   - every other command is one library call and a print.                *)
(* `thermalpolicy set` is DCMIThermalCLI's subject and is not repeated.    *)
(* A failing call goes to CheckErr with a message naming a call and, for   *)
(* some, its argument; CheckErr reports it and exits.  `failed` records    *)
(* the call that really failed, `reported` what the message names.         *)
(***************************************************************************)
EXTENDS Naturals, Sequences, TLC

CONSTANTS
  NULL,
  Commands,               \* the command lines a run may be started with
  MsgLens, MaxPeriods,    \* the DCMI parameter replies (DCMIParamDiscovery)
  TagLens, ChunkLens      \* the asset tag controller (AssetTagRead)

VARIABLES
  cmd,                    \* the command line run
  status,                 \* "running", "help", "printed" or "exited"
  blk,                    \* `sensors`: the block being run (1..3, 4 = done)
  failed,                 \* <<call, argument>> that returned the error
  reported,               \* <<call, argument>> the CheckErr message names
  dFamily, dPc, dStatus, dOut, dReply, dReads, dErr, dRet,   \* discovery
  aTagLen, aOffset, aAssetTag, aStatus, aCalls               \* asset tag

discVars == <<dFamily, dPc, dStatus, dOut, dReply, dReads, dErr, dRet>>
tagVars  == <<aTagLen, aOffset, aAssetTag, aStatus, aCalls>>
vars == <<cmd, status, blk, failed, reported, discVars, tagVars>>

D == INSTANCE DCMIParamDiscovery
       WITH family <- dFamily, pc <- dPc, status <- dStatus, out <- dOut,
            reply <- dReply, reads <- dReads, err <- dErr, ret <- dRet

A == INSTANCE AssetTagRead
       WITH tagLen <- aTagLen, offset <- aOffset, assetTag <- aAssetTag,
            status <- aStatus, calls <- aCalls

\* The command lines NewCmdDCMI and the commands it registers accept.
CommandLines ==
  {"dcmi", "dcmi other", "power", "power reading", "power get_limit",
   "power activate", "power deactivate", "asset_tag", "set_asset_tag",
   "set_asset_tag tag", "discover", "get_conf_param", "sensors",
   "get_mc_id_string", "set_mc_id_string", "set_mc_id_string id",
   "thermalpolicy", "thermalpolicy get", "thermalpolicy set",
   "get_temp_reading"}

\* The parents with no command word, and the commands given fewer
\* arguments than they need: their Run prints help and returns.
HelpLines ==
  {"dcmi", "dcmi other", "power", "thermalpolicy", "thermalpolicy get",
   "thermalpolicy set", "set_asset_tag", "set_mc_id_string"}

EntityID_DCMI_Inlet     == 64   \* 0x40
EntityID_DCMI_CPU       == 65   \* 0x41
EntityID_DCMI_Baseboard == 66   \* 0x42

\* The entity of each `sensors` block, in order.
SensorEntities == <<EntityID_DCMI_Inlet, EntityID_DCMI_CPU, EntityID_DCMI_Baseboard>>

\* For each command that makes one library call: the call with its
\* argument, and what its fmt.Errorf names.
Invocation(f, a, mf, ma) == [call |-> <<f, a>>, message |-> <<mf, ma>>]

PowerCommands ==
     ("power reading"    :> Invocation("GetDCMIPowerReading", NULL, "GetDCMIPowerReading", NULL))
  @@ ("power get_limit"  :> Invocation("GetDCMIPowerLimit", NULL, "GetDCMIPowerLimit", NULL))
  @@ ("power activate"   :> Invocation("ActivateDCMIPowerLimit", TRUE, "ActivateDCMIPowerLimit", TRUE))
  @@ ("power deactivate" :> Invocation("ActivateDCMIPowerLimit", FALSE, "ActivateDCMIPowerLimit", FALSE))

SetAssetTagCommand ==
  "set_asset_tag tag" :> Invocation("SetDCMIAssetTagFull", NULL, "SetDCMIAssetTagFull", NULL)

MCIDStringCommands ==
     ("get_mc_id_string"    :> Invocation("GetDCMIMgmtControllerIdentifierFull", NULL,
                                          "GetDCMIMgmtControllerIdentifierFull", NULL))
  @@ ("set_mc_id_string id" :> Invocation("SetDCMIMgmtControllerIdentifierFull", NULL,
                                          "SetDCMIMgmtControllerIdentifierFull", NULL))

TempReadingCommand ==
  "get_temp_reading" :>
    Invocation("GetDCMITemperatureReadingsForEntities",
               {EntityID_DCMI_Inlet, EntityID_DCMI_CPU, EntityID_DCMI_Baseboard},
               "GetDCMISensors", EntityID_DCMI_Inlet)

SingleCalls == PowerCommands @@ SetAssetTagCommand @@ MCIDStringCommands @@ TempReadingCommand

\* The aggregation each discovery command runs, the call, and the name
\* its fmt.Errorf gives it.
DiscoveryCommands ==
  [discover       |-> [family |-> "Capabilities", call |-> "DiscoveryDCMICapabilities",
                       message |-> "GetDCMIPowerReading"],
   get_conf_param |-> [family |-> "Configuration", call |-> "GetDCMIConfigurations",
                       message |-> "GetDCMIConfigurations"]]

\* The outcome a finished library call leaves the command in.
Outcome(s) == CASE s \in {"Done", "printed"} -> "printed"
                [] s \in {"Failed", "exited"} -> "exited"
                [] OTHER -> "running"

-----------------------------------------------------------------------------
Init ==
  /\ cmd \in Commands
  /\ status = "running"
  /\ blk = 1
  /\ failed = NULL
  /\ reported = NULL
  /\ D!Init
  /\ dFamily = IF cmd \in DOMAIN DiscoveryCommands
               THEN DiscoveryCommands[cmd].family ELSE "Capabilities"
  /\ A!Init
  /\ cmd # "asset_tag" => aTagLen = CHOOSE t \in TagLens : TRUE

\* CheckErr on an error returned by call f, with message naming r.
CheckErr(f, r) == status' = "exited" /\ failed' = f /\ reported' = r

\* cmd.Help() and return, or a command that is not runnable.
Help ==
  /\ cmd \in HelpLines /\ status = "running"
  /\ status' = "help"
  /\ UNCHANGED <<cmd, blk, failed, reported, discVars, tagVars>>

\* A command that makes one library call: it prints what the call returns
\* (or a fixed line), or the error goes to CheckErr.
SingleCall ==
  /\ cmd \in DOMAIN SingleCalls /\ status = "running"
  /\ \/ status' = "printed" /\ UNCHANGED <<failed, reported>>
     \/ CheckErr(SingleCalls[cmd].call, SingleCalls[cmd].message)
  /\ UNCHANGED <<cmd, blk, discVars, tagVars>>

\* NewCmdDCMIDiscover and NewCmdDCMIGetConfigParam: one step of the
\* aggregation; when it returns, its Format is printed or its error goes
\* to CheckErr with the selector the error names.
Discovery ==
  /\ cmd \in DOMAIN DiscoveryCommands /\ status = "running"
  /\ D!Next
  /\ status' = Outcome(dStatus')
  /\ IF dStatus' = "Failed"
     THEN /\ failed' = <<DiscoveryCommands[cmd].call, dErr'>>
          /\ reported' = <<DiscoveryCommands[cmd].message, dErr'>>
     ELSE UNCHANGED <<failed, reported>>
  /\ UNCHANGED <<cmd, blk, tagVars>>

\* NewCmdDCMIAssetTag: one iteration of the read loop.  The message names
\* the call and not the offset it read at.
AssetTag ==
  /\ cmd = "asset_tag" /\ status = "running"
  /\ A!Next
  /\ status' = Outcome(aStatus')
  /\ IF aStatus' = "exited"
     THEN /\ failed' = <<"GetDCMIAssetTag", aOffset>>
          /\ reported' = <<"GetDCMIAssetTag", NULL>>
     ELSE UNCHANGED <<failed, reported>>
  /\ UNCHANGED <<cmd, blk, discVars>>

\* NewCmdDCMISensors: one block, GetDCMISensors for its entity, then the
\* count and the SDR table are printed; every block's error message names
\* EntityID_DCMI_Inlet.
Sensors ==
  /\ cmd = "sensors" /\ status = "running"
  /\ \/ /\ blk' = blk + 1
        /\ status' = IF blk = Len(SensorEntities) THEN "printed" ELSE "running"
        /\ UNCHANGED <<failed, reported>>
     \/ /\ CheckErr(<<"GetDCMISensors", SensorEntities[blk]>>,
                    <<"GetDCMISensors", EntityID_DCMI_Inlet>>)
        /\ UNCHANGED blk
  /\ UNCHANGED <<cmd, discVars, tagVars>>

Next == Help \/ SingleCall \/ Discovery \/ AssetTag \/ Sensors

\* The process's one goroutine keeps running and every call returns; the
\* controller's choice of reply or chunk is not fair.
Spec == Init /\ [][Next]_vars /\ WF_vars(Next)

-----------------------------------------------------------------------------
TypeOK ==
  /\ cmd \in CommandLines
  /\ status \in {"running", "help", "printed", "exited"}
  /\ blk \in 1..(Len(SensorEntities) + 1)
  /\ (failed = NULL) = (reported = NULL)
  /\ (failed # NULL) = (status = "exited")
  /\ D!TypeOK
  /\ A!TypeOK

\* DiscoveryDCMICapabilities and GetDCMIConfigurations, as `discover` and
\* `get_conf_param` run them: no decode reads past its buffer, and the
\* result is all five parameters or an error naming the first failing
\* selector.
NoOutOfRangeRead == D!NoOutOfRangeRead
AllOrNothing == D!AllOrNothing

\* `asset_tag` prints the controller's whole tag, each octet once and in
\* order (AssetTagRead).
AssetTagComplete == A!AssetTagComplete

\* Whatever command line it is given, the process ends: it prints help or
\* a result, or reports a failed call; it never loops or blocks.
Terminates == <>(status # "running")

\* Spec 7: a CLI command that fails reports the call that failed and, when
\* its message names an argument (an entity, a selector), the argument of
\* that call, so the unsupported feature can be told apart.
ErrorNamesFailingStep ==
  status = "exited" =>
    /\ reported[1] = failed[1]
    /\ reported[2] # NULL => reported[2] = failed[2]
=============================================================================
