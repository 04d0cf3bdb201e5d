------------------------------ MODULE PEFStatus ------------------------------
(***************************************************************************)
(* The `goipmi pef status` command (cmd/goipmi/commands/pef.go,            *)
(* NewCmdPEFStatus): three blocks in order, each one call and a print.     *)
(* The first is GetLastProcessedEventId, outside src/, a call that         *)
(* succeeds or fails.  The other two are GetPEFConfigForParameter for the  *)
(* PEF Control and the PEF Action Global Control parameters: the request   *)
(* GetPEFConfigParameters(false, selector, 0, 0), Exchange, the response   *)
(* Unpack (revision octet, then ConfigData), the parameter's Unpack        *)
(* (PEFCodec) and its Format.  Any failure goes to CheckErr, which         *)
(* reports the error and exits.                                            *)
(* The controller holds one octet per parameter, as IPMI table 30-6 lays   *)
(* it out.  Its answer to an exchange is a failure (transport or           *)
(* completion code), an empty reply, the revision octet alone, or the      *)
(* revision octet and the parameter octet.  A printed block is kept as     *)
(* the sequence of <<label, word>> lines Format writes.                    *)
(***************************************************************************)
EXTENDS Naturals, Sequences

LOCAL INSTANCE Functions

CONSTANTS
  NULL,
  ControlOctets,  \* PEF Control octets the controller may hold
  AGCOctets,      \* PEF Action Global Control octets it may hold
  Revision        \* the parameter revision it answers with (11h)

C == INSTANCE PEFCodec
       WITH TooShort <- NULL, Panic <- NULL, Values <- <<>>,
            kind <- NULL, value <- NULL, wire <- NULL, decoded <- NULL

Params == {"Control", "ActionGlobalControl"}

\* PEFConfigParamSelector_Control / _ActionGlobalControl, the selector each
\* parameter's PEFConfigParamSelector() returns.
Selector == [Control |-> 1, ActionGlobalControl |-> 2]

\* The blocks of the command in source order.
Blocks == <<"LastProcessedEventId", "Control", "ActionGlobalControl">>

VARIABLES
  ctrl,     \* the controller's octet for each parameter
  pc,       \* index in Blocks of the block being run, or Len(Blocks) + 1
  status,   \* "running", "done" or "exited"
  lastReq,  \* octets of the last GetPEFConfigParameters request (NULL: none)
  out       \* what has been printed: one entry per finished block

vars == <<ctrl, pc, status, lastReq, out>>

-----------------------------------------------------------------------------
\* Mutant: ConfigData taken from octet 0, the revision included.
UnpackResponseFromZero(msg) ==
  IF Len(msg) < 1 THEN NULL
  ELSE [Revision |-> msg[1], ConfigData |-> msg]

(* GetPEFConfigParametersResponse.Unpack.  An empty reply is an error;     *)
(* ConfigData stays nil (<<>>) when only the revision came back.           *)
UnpackResponse(msg) ==
  IF Len(msg) < 1 THEN NULL
  ELSE [Revision |-> msg[1],
        ConfigData |-> IF Len(msg) > 1 THEN SubSeq(msg, 2, Len(msg)) ELSE <<>>]

\* The request GetPEFConfigParameters builds and Exchange packs.
Request(p) ==
  C!PackRequest([GetRevisionOnly |-> FALSE, ParamSelector |-> Selector[p],
                 SetSelector |-> 0, BlockSelector |-> 0])

\* The replies the controller may send for parameter p; NULL is a failed
\* Exchange.
Replies(p) == {NULL, <<>>, <<Revision>>, <<Revision, ctrl[p]>>}

\* Mutant: the bool printed with %v instead of the two words.
FormatBoolVerbatim(b, t, f) == IF b THEN "true" ELSE "false"

\* formatBool (outside src/).
FormatBool(b, t, f) == IF b THEN t ELSE f

\* PEFConfigParam_Control.Format.
FormatControl(x) ==
  <<<<"PEF startup delay", FormatBool(x.EnablePEFAlertStartupDelay, "enabled", "disabled")>>,
    <<"Alert startup delay", FormatBool(x.EnablePEFStartupDelay, "enabled", "disabled")>>,
    <<"PEF event messages", FormatBool(x.EnableEventMessage, "enabled", "disabled")>>,
    <<"PEF", FormatBool(x.EnablePEF, "enabled", "disabled")>>>>

\* PEFConfigParam_ActionGlobalControl.Format.
FormatActionGlobalControl(x) ==
  <<<<"Diagnostic-interrupt", FormatBool(x.DiagnosticInterruptEnabled, "active", "inactive")>>,
    <<"OEM-defined", FormatBool(x.OEMActionEnabled, "active", "inactive")>>,
    <<"Power-cycle", FormatBool(x.PowerCycleActionEnabled, "active", "inactive")>>,
    <<"Reset", FormatBool(x.ResetActionEnabled, "active", "inactive")>>,
    <<"Power-off", FormatBool(x.PowerDownActionEnabled, "active", "inactive")>>,
    <<"Alert", FormatBool(x.AlertActionEnabled, "active", "inactive")>>>>

Format(p, x) ==
  IF p = "Control" THEN FormatControl(x) ELSE FormatActionGlobalControl(x)

-----------------------------------------------------------------------------
Init ==
  /\ ctrl \in {[Control |-> c, ActionGlobalControl |-> a] : c \in ControlOctets, a \in AGCOctets}
  /\ pc = 1
  /\ status = "running"
  /\ lastReq = NULL
  /\ out = <<>>

Exit == status' = "exited" /\ UNCHANGED <<ctrl, pc, out>>

\* Block 1: GetLastProcessedEventId, then its Format is printed.
LastProcessedEventId ==
  /\ status = "running" /\ Blocks[pc] = "LastProcessedEventId"
  /\ \/ /\ pc' = pc + 1
        /\ out' = Append(out, <<>>)
        /\ UNCHANGED <<ctrl, status>>
     \/ Exit
  /\ UNCHANGED lastReq

\* Blocks 2 and 3: GetPEFConfigForParameter(param, 0, 0), then
\* fmt.Println(param.Format()).  A failed Exchange, an unpack of the
\* response or of the parameter that fails, each goes to CheckErr.
GetPEFConfigForParameter ==
  /\ status = "running" /\ Blocks[pc] \in Params
  /\ LET p == Blocks[pc] IN
     /\ lastReq' = Request(p)
     /\ \E reply \in Replies(p) :
          LET res == IF reply = NULL THEN NULL ELSE UnpackResponse(reply)
              x   == IF res = NULL THEN NULL ELSE C!UnpackOf(p, res.ConfigData)
          IN  IF x = NULL THEN Exit
              ELSE /\ out' = Append(out, Format(p, x))
                   /\ pc' = pc + 1
                   /\ status' = IF pc + 1 > Len(Blocks) THEN "done" ELSE status
                   /\ UNCHANGED ctrl

Next == LastProcessedEventId \/ GetPEFConfigForParameter

Spec == Init /\ [][Next]_vars

-----------------------------------------------------------------------------
(* Properties.                                                             *)

Lines == Seq({"PEF startup delay", "Alert startup delay", "PEF event messages",
              "PEF", "Diagnostic-interrupt", "OEM-defined", "Power-cycle",
              "Reset", "Power-off", "Alert"}
             \X {"enabled", "disabled", "active", "inactive"})

TypeOK ==
  /\ ctrl \in [Params -> 0..255]
  /\ pc \in 1..(Len(Blocks) + 1)
  /\ status \in {"running", "done", "exited"}
  /\ lastReq \in {NULL} \cup Seq(0..255)
  /\ out \in Seq(Lines)

\* IPMI table 30-6: the label of each bit of the PEF Control octet (bit 0
\* first) and of the PEF Action Global Control octet.
ControlBitLabel == <<"PEF", "PEF event messages", "PEF startup delay", "Alert startup delay">>
AGCBitLabel == <<"Alert", "Power-off", "Reset", "Power-cycle", "OEM-defined",
                 "Diagnostic-interrupt">>

\* The lines a correct Format prints for octet o, as a set.
IntendedLines(labels, on, off, o) ==
  { <<labels[b + 1], IF (o \div 2^b) % 2 = 1 THEN on ELSE off>> :
      b \in 0..(Len(labels) - 1) }

Intended(p) ==
  IF p = "Control" THEN IntendedLines(ControlBitLabel, "enabled", "disabled", ctrl[p])
  ELSE IntendedLines(AGCBitLabel, "active", "inactive", ctrl[p])

\* `pef status` shows the controller's PEF settings: every parameter block
\* printed has one line per setting of IPMI table 30-6, each saying what
\* the controller's octet holds, and a command that ends without an error
\* has printed all three blocks.  This goes through the request, the
\* response Unpack, the parameter Unpack and Format.
StatusShowsController ==
  /\ \A j \in DOMAIN out : Blocks[j] \in Params => Range(out[j]) = Intended(Blocks[j])
  /\ status = "done" => Len(out) = Len(Blocks)
=============================================================================
