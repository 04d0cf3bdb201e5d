------------------------- MODULE DCMIParamDiscovery -------------------------
(***************************************************************************)
(* The two fixed-sequence DCMI aggregations: Client.DiscoveryDCMICapabili- *)
(* ties (selectors 1..5 of Get DCMI Capabilities Info) and                 *)
(* Client.GetDCMIConfigurations (selectors 1..5 of Get DCMI Configuration  *)
(* Parameters).  Each block sends one request; Exchange fails on a non-    *)
(* zero completion code, otherwise it runs the response Unpack (length,    *)
(* group extension marker, header fields, ParamData = msg[4:]); then the   *)
(* block runs the selector's parameter Unpack on ParamData.  The first     *)
(* failure returns nil.  A reply is abstracted to its completion code, its *)
(* length, its first octet and, for selector 5 of the capabilities, the    *)
(* period count in ParamData[0]; the model records which octets of which   *)
(* buffer each decode reads.                                               *)
(***************************************************************************)
EXTENDS Naturals, FiniteSets

CONSTANTS
  NULL,
  MsgLens,       \* reply payload lengths the controller may send
  MaxPeriods     \* largest rolling-average period count in a reply

ASSUME MsgLens \subseteq Nat /\ MaxPeriods \in Nat

Families == {"Capabilities", "Configuration"}
Selectors == 1..5

GroupExtensionDCMI == "DC"
Markers == {GroupExtensionDCMI, "other"}

\* A reply to one request: completion code, payload length, msg[0], and
\* ParamData[0] (= msg[4]) which selector 5 reads as its period count.
Replies == [cc : {"ok", "error"}, len : MsgLens, marker : Markers,
            periods : 0..MaxPeriods]

Read(buf, idx) == [buf |-> buf, idx |-> idx]

VARIABLES
  family,    \* which aggregation the caller invoked
  pc,        \* selector of the block being executed; 6 = the return
  status,    \* "Running", then "Done" or "Failed" once the call returned
  out,       \* selectors whose parameter is stored in the result
  reply,     \* the reply to the last request
  reads,     \* octets read while decoding the last reply
  err,       \* selector named by the returned error, or NULL
  ret        \* returned result: NULL, or the set of stored parameters

vars == <<family, pc, status, out, reply, reads, err, ret>>

-----------------------------------------------------------------------------
(* GetDCMICapabilitiesInfoResponse.Unpack and                             *)
(* GetDCMIConfigurationParamsResponse.Unpack: length, then marker, then   *)
(* the header octets and ParamData.                                       *)
ResponseOK(r) == r.len >= 5 /\ r.marker = GroupExtensionDCMI

ResponseReads(r) ==
  IF r.len < 5 THEN {}
  ELSE IF r.marker # GroupExtensionDCMI THEN {Read("msg", 0)}
  ELSE {Read("msg", k) : k \in 0..(r.len - 1)}

(* Minimum ParamData length checked first by each parameter Unpack.       *)
ParamMinLenOptionalOne(f, s) ==
  IF f = "Capabilities"
  THEN CASE s = 1 -> 3 [] s = 2 -> 5 [] s = 3 -> 1 [] s = 4 -> 3 [] s = 5 -> 2
  ELSE 1

ParamMinLen(f, s) ==
  IF f = "Capabilities"
  THEN CASE s = 1 -> 3 [] s = 2 -> 5 [] s = 3 -> 2 [] s = 4 -> 3 [] s = 5 -> 2
  ELSE 1

(* Octets of ParamData each parameter Unpack reads once its checks pass.  *)
ParamFieldReads(f, s, r) ==
  IF f = "Capabilities"
  THEN CASE s = 1 -> {1, 2}
         [] s = 2 -> {0, 1, 4}
         [] s = 3 -> {0, 1}
         [] s = 4 -> {0, 1, 2}
         [] s = 5 -> {0} \cup 1..r.periods
  ELSE {0}

ParamLen(r) == r.len - 4

\* EnhancedSystemPowerStatisticsAttributes.Unpack's second check.
PeriodsOK(f, s, r) ==
  f = "Capabilities" /\ s = 5 => ParamLen(r) >= 1 + r.periods

ParamOK(f, s, r) == ParamLen(r) >= ParamMinLen(f, s) /\ PeriodsOK(f, s, r)

ParamReads(f, s, r) ==
  IF ParamLen(r) < ParamMinLen(f, s) THEN {}
  ELSE IF ~PeriodsOK(f, s, r) THEN {Read("param", 0)}
  ELSE {Read("param", k) : k \in ParamFieldReads(f, s, r)}

\* The whole decode of one reply, in code order.
DecodeOK(f, s, r) == r.cc = "ok" /\ ResponseOK(r) /\ ParamOK(f, s, r)

DecodeReads(f, s, r) ==
  IF r.cc # "ok" THEN {}
  ELSE IF ~ResponseOK(r) THEN ResponseReads(r)
  ELSE ResponseReads(r) \cup ParamReads(f, s, r)

-----------------------------------------------------------------------------
Init ==
  /\ family \in Families
  /\ pc = 1
  /\ status = "Running"
  /\ out = {}
  /\ reply = NULL
  /\ reads = {}
  /\ err = NULL
  /\ ret = NULL

\* Mutant: a copied block stores its parameter into the next block's field.
FetchParamIntoNext ==
  /\ status = "Running"
  /\ pc \in Selectors
  /\ \E r \in Replies :
       /\ reply' = r
       /\ reads' = DecodeReads(family, pc, r)
       /\ IF DecodeOK(family, pc, r)
          THEN /\ out' = out \cup {pc + 1}
               /\ pc' = pc + 1
               /\ UNCHANGED <<status, err>>
          ELSE /\ status' = "Failed"
               /\ err' = pc
               /\ UNCHANGED <<pc, out>>
  /\ UNCHANGED <<family, ret>>

\* Mutant: a block whose parameter-Unpack error is not returned.
FetchParamUnpackErrDropped ==
  /\ status = "Running"
  /\ pc \in Selectors
  /\ \E r \in Replies :
       /\ reply' = r
       /\ reads' = DecodeReads(family, pc, r)
       /\ IF r.cc = "ok" /\ ResponseOK(r)
          THEN /\ out' = IF ParamOK(family, pc, r) THEN out \cup {pc} ELSE out
               /\ pc' = pc + 1
               /\ UNCHANGED <<status, err>>
          ELSE /\ status' = "Failed"
               /\ err' = pc
               /\ UNCHANGED <<pc, out>>
  /\ UNCHANGED <<family, ret>>

\* One block: build the request, Exchange, unpack the parameter; store it
\* and go on, or `return nil, fmt.Errorf("... <selector> ...")`.
FetchParam ==
  /\ status = "Running"
  /\ pc \in Selectors
  /\ \E r \in Replies :
       /\ reply' = r
       /\ reads' = DecodeReads(family, pc, r)
       /\ IF DecodeOK(family, pc, r)
          THEN /\ out' = out \cup {pc}
               /\ pc' = pc + 1
               /\ UNCHANGED <<status, err>>
          ELSE /\ status' = "Failed"
               /\ err' = pc
               /\ UNCHANGED <<pc, out>>
  /\ UNCHANGED <<family, ret>>

\* `return out, nil`.
Finish ==
  /\ status = "Running"
  /\ pc = 6
  /\ status' = "Done"
  /\ ret' = out
  /\ UNCHANGED <<family, pc, out, reply, reads, err>>

Next == FetchParam \/ Finish

Spec == Init /\ [][Next]_vars

-----------------------------------------------------------------------------
TypeOK ==
  /\ family \in Families
  /\ pc \in 1..6
  /\ status \in {"Running", "Done", "Failed"}
  /\ out \subseteq Selectors
  /\ reply \in Replies \cup {NULL}
  /\ reads \subseteq [buf : {"msg", "param"}, idx : Nat]
  /\ err \in Selectors \cup {NULL}
  /\ ret = NULL \/ ret \subseteq Selectors

\* No decode reads past the end of the buffer it reads (spec 8, length
\* guard): every octet read from the reply or from its ParamData lies
\* below that buffer's length, whatever the controller sent.
NoOutOfRangeRead ==
  \A rd \in reads :
    rd.idx < (IF rd.buf = "msg" THEN reply.len ELSE ParamLen(reply))

\* The caller gets either all five parameters or nil with an error that
\* names the first selector whose exchange or decode failed, all earlier
\* ones having been decoded.
AllOrNothing ==
  /\ status = "Done" => ret = Selectors
  /\ status = "Failed" => /\ ret = NULL
                      /\ out = 1..(err - 1)
                      /\ ~DecodeOK(family, err, reply)
=============================================================================
