---------------------------- MODULE DCMIThermalCLI ----------------------------
(***************************************************************************)
(* The `goipmi dcmi thermalpolicy set|get` commands (cmd/goipmi/commands/  *)
(* dcmi.go, newCmdDCMIThermalPolicySet / Get) composed with the thermal    *)
(* limit commands and the controller of DCMILimits.  A command line is     *)
(* abstracted to its parsed fields: the numbers as integers (what          *)
(* parseStringToInt64 returns), the action words as strings.  The set     *)
(* command maps the words with two switch statements, narrows the numbers *)
(* to the request's uint8 / uint16 fields, and calls SetDCMIThermalLimit; *)
(* any error goes to CheckErr, which reports it and exits.  The volatile  *)
(* word (args[2]) is never read.                                          *)
(***************************************************************************)
EXTENDS Naturals, ByteCodec

CONSTANTS
  NULL,
  CLIEntities, CLIInstances, CLITemps, CLITimes,   \* parsed numbers
  PowerWords, SelWords                             \* action words typed

VARIABLES bmcPower, bmcThermal, sentPower, sentThermal, wanted, sent, got,
          cli    \* the last command: [cmd, args, outcome]

limitVars == <<bmcPower, bmcThermal, sentPower, sentThermal, wanted, sent, got>>
vars == <<limitVars, cli>>

L == INSTANCE DCMILimits
       WITH ExceptionActions <- {}, Watts <- {}, Millis <- {}, Seconds <- {},
            EntityIDs <- CLIEntities, Instances <- CLIInstances,
            TempLimits <- CLITemps, ExceptionTimes <- CLITimes

SetArgs == [entity : CLIEntities, instance : CLIInstances, power : PowerWords,
            sel : SelWords, temp : CLITemps, time : CLITimes]
GetArgs == [entity : CLIEntities, instance : CLIInstances]

\* The words the usage text lists.
ValidPower == {"poweroff", "nopoweroff", "disabled"}
ValidSel   == {"sel", "nosel", "disabled"}

\* `switch powerParam`: "poweroff" sets it; "nopoweroff", "disabled" and
\* every word no case names leave it false; `case "default"` is a case
\* for the literal word "default", which goes to CheckErr.
PowerOff(w) == w = "poweroff"
Sel(w)      == w = "sel"
Refused(a)  == a.power = "default" \/ a.sel = "default"

\* Mutant: the SEL flag filled from the power-off word.
CLIThermalRequestSelFromPower(a) ==
  [EntityID |-> a.entity % 256, EntityInstance |-> a.instance % 256,
   ExceptionAction_PowerOffAndLogSEL |-> PowerOff(a.power),
   ExceptionAction_LogSELOnly |-> PowerOff(a.power),
   TemperatureLimit |-> a.temp % 256, ExceptionTimeSec |-> a.time % 65536]

\* Mutant: the temperature not narrowed to the uint8 field.
CLIThermalRequestWide(a) ==
  [EntityID |-> a.entity % 256, EntityInstance |-> a.instance % 256,
   ExceptionAction_PowerOffAndLogSEL |-> PowerOff(a.power),
   ExceptionAction_LogSELOnly |-> Sel(a.sel),
   TemperatureLimit |-> a.temp, ExceptionTimeSec |-> a.time % 65536]

\* The SetDCMIThermalLimitRequest literal: ipmi.EntityID(..), uint8(..)
\* and uint16(..) keep the low 8 or 16 bits.
CLIThermalRequest(a) ==
  [EntityID |-> a.entity % 256, EntityInstance |-> a.instance % 256,
   ExceptionAction_PowerOffAndLogSEL |-> PowerOff(a.power),
   ExceptionAction_LogSELOnly |-> Sel(a.sel),
   TemperatureLimit |-> a.temp % 256, ExceptionTimeSec |-> a.time % 65536]

Init == L!Init /\ cli = NULL

\* `thermalpolicy set`: a refused word exits before anything is sent;
\* otherwise the request is sent and the controller's answer decides
\* between the success message and CheckErr.
CmdThermalPolicySet ==
  \E a \in SetArgs :
    IF Refused(a)
    THEN /\ cli' = [cmd |-> "set", args |-> a, outcome |-> "exited"]
         /\ UNCHANGED limitVars
    ELSE LET req == CLIThermalRequest(a)
         IN  /\ L!SetThermalLimit(req)
             /\ cli' = [cmd |-> "set", args |-> a,
                        outcome |-> IF req.EntityID \in L!InletEntities
                                    THEN "printed" ELSE "exited"]

\* `thermalpolicy get`: GetDCMIThermalLimit(EntityID(e), EntityInstance(i)),
\* which refuses entities other than 37h/40h; the result is printed.
CmdThermalPolicyGet ==
  \E a \in GetArgs :
    /\ L!GetThermalLimit(a.entity % 256, a.instance % 256)
    /\ cli' = [cmd |-> "get", args |-> a,
               outcome |-> IF got'.value # NULL THEN "printed" ELSE "exited"]

Next == CmdThermalPolicySet \/ CmdThermalPolicyGet

Spec == Init /\ [][Next]_vars

-----------------------------------------------------------------------------
TypeOK ==
  /\ bmcThermal \in [L!InletEntities ->
                       [action : Octets, limit : Octets, time : 0..65535]]
  /\ cli = NULL \/ cli.outcome \in {"printed", "exited"}

\* A command line within the usage text: listed words, and numbers that
\* fit the request's fields.
ValidLine(a) ==
  /\ a.power \in ValidPower /\ a.sel \in ValidSel
  /\ a.entity \in 0..255 /\ a.instance \in 0..255
  /\ a.temp \in 0..255 /\ a.time \in 0..65535

\* The controller's stored limit a command line asks for (DCMI 6.7.2:
\* bit 6 power off and log, bit 5 log only).
Intended(a) ==
  [action |-> (IF PowerOff(a.power) THEN 64 ELSE 0) + (IF Sel(a.sel) THEN 32 ELSE 0),
   limit |-> a.temp, time |-> a.time]

\* After `thermalpolicy set` prints success for a valid command line, the
\* controller holds, for the entity typed, exactly the actions, limit and
\* time typed: word mapping, narrowing, Pack and the DCMI layout agree.
CLISetHonoured ==
  cli # NULL /\ cli.cmd = "set" /\ cli.outcome = "printed" /\ ValidLine(cli.args)
    => bmcThermal[cli.args.entity] = Intended(cli.args)

\* `thermalpolicy set` prints success only for a command line its usage
\* text accepts: an unknown word or a number that does not fit is reported,
\* never silently replaced.
CLIRejectsInvalid ==
  cli # NULL /\ cli.cmd = "set" /\ cli.outcome = "printed" => ValidLine(cli.args)
=============================================================================
