------------------------------ MODULE DCMILimits ------------------------------
(***************************************************************************)
(* The DCMI power-limit and thermal-limit commands against a controller.  *)
(* Client side (src/cmd_*_dcmi_{power,thermal}_limit.go): request Pack,   *)
(* the Client wrappers with their preconditions, response Unpack.         *)
(* Controller side (DCMI v1.5, 6.6.2-6.6.3, 6.7.1-6.7.2): it reads a set  *)
(* request by the DCMI byte numbering, stores the limit, and answers a    *)
(* get with the stored limit; no power limit is active until one is set   *)
(* (completion code 80h).  Calls are sequential, one at a time.           *)
(***************************************************************************)
EXTENDS Naturals, Sequences, ByteCodec

CONSTANTS
  NULL,
  ExceptionActions, Watts, Millis, Seconds,      \* power limit inputs
  EntityIDs, Instances, TempLimits, ExceptionTimes  \* thermal inputs

GroupExtensionDCMI == 220   \* 0xDC
InletEntities == {55, 64}   \* 0x37, 0x40

PowerReqs == [ExceptionAction : ExceptionActions, PowerLimitRequested : Watts,
              CorrectionTimeLimitMilliSec : Millis,
              StatisticsSamplingPeriodSec : Seconds]

ThermalReqs == [EntityID : EntityIDs, EntityInstance : Instances,
                ExceptionAction_PowerOffAndLogSEL : BOOLEAN,
                ExceptionAction_LogSELOnly : BOOLEAN,
                TemperatureLimit : TempLimits, ExceptionTimeSec : ExceptionTimes]

\* The part of a thermal request a get reports back.
ThermalLimitOf(r) ==
  [ExceptionAction_PowerOffAndLogSEL |-> r.ExceptionAction_PowerOffAndLogSEL,
   ExceptionAction_LogSELOnly |-> r.ExceptionAction_LogSELOnly,
   TemperatureLimit |-> r.TemperatureLimit, ExceptionTimeSec |-> r.ExceptionTimeSec]

-----------------------------------------------------------------------------
(* Client codec.                                                          *)

\* Mutant: the power limit packed one octet early, over the action byte.
PackSetPowerLimitShifted(req) ==
  PutU16L(PutU32L(PutU16L(PutU8(PutU8(Zeros(15), GroupExtensionDCMI, 0),
      req.ExceptionAction, 4), req.PowerLimitRequested, 4),
      req.CorrectionTimeLimitMilliSec, 7), req.StatisticsSamplingPeriodSec, 13)

\* SetDCMIPowerLimitRequest.Pack
PackSetPowerLimit(req) ==
  PutU16L(PutU32L(PutU16L(PutU8(PutU8(Zeros(15), GroupExtensionDCMI, 0),
      req.ExceptionAction, 4), req.PowerLimitRequested, 5),
      req.CorrectionTimeLimitMilliSec, 7), req.StatisticsSamplingPeriodSec, 13)

\* Mutant: the power limit read as a 32-bit value.
UnpackGetPowerLimitWide(msg) ==
  IF Len(msg) < 14 \/ At(msg, 0) # GroupExtensionDCMI THEN NULL
  ELSE [ExceptionAction |-> At(msg, 3),
        PowerLimitRequested |-> GetU32L(msg, 4),
        CorrectionTimeLimitMilliSec |-> GetU32L(msg, 6),
        StatisticsSamplingPeriodSec |-> GetU16L(msg, 12)]

\* GetDCMIPowerLimitResponse.Unpack (NULL = error)
UnpackGetPowerLimit(msg) ==
  IF Len(msg) < 14 \/ At(msg, 0) # GroupExtensionDCMI THEN NULL
  ELSE [ExceptionAction |-> At(msg, 3),
        PowerLimitRequested |-> GetU16L(msg, 4),
        CorrectionTimeLimitMilliSec |-> GetU32L(msg, 6),
        StatisticsSamplingPeriodSec |-> GetU16L(msg, 12)]

\* GetDCMIThermalLimitRequest.Pack
PackGetThermalLimit(e, inst) == <<GroupExtensionDCMI, e, inst>>

\* SetDCMIThermalLimitRequest.Pack
PackSetThermalLimit(req) ==
  LET action == SetOrClearBit(
                  SetOrClearBit(0, 6, req.ExceptionAction_PowerOffAndLogSEL),
                  5, req.ExceptionAction_LogSELOnly)
  IN  PutU16L(<<GroupExtensionDCMI, req.EntityID, req.EntityInstance,
                action, req.TemperatureLimit, 0, 0>>, req.ExceptionTimeSec, 5)

\* Mutant: the two exception-action bits read swapped.
UnpackGetThermalLimitSwapped(msg) ==
  IF Len(msg) < 5 \/ At(msg, 0) # GroupExtensionDCMI THEN NULL
  ELSE [ExceptionAction_PowerOffAndLogSEL |-> IsBitSet(At(msg, 1), 5),
        ExceptionAction_LogSELOnly |-> IsBitSet(At(msg, 1), 6),
        TemperatureLimit |-> At(msg, 2), ExceptionTimeSec |-> GetU16L(msg, 3)]

\* GetDCMIThermalLimitResponse.Unpack (NULL = error)
UnpackGetThermalLimit(msg) ==
  IF Len(msg) < 5 \/ At(msg, 0) # GroupExtensionDCMI THEN NULL
  ELSE [ExceptionAction_PowerOffAndLogSEL |-> IsBitSet(At(msg, 1), 6),
        ExceptionAction_LogSELOnly |-> IsBitSet(At(msg, 1), 5),
        TemperatureLimit |-> At(msg, 2), ExceptionTimeSec |-> GetU16L(msg, 3)]

-----------------------------------------------------------------------------
(* Controller, by the DCMI byte numbering: request data byte n is         *)
(* req[n]; a response is written from its completion code (byte 1) on    *)
(* and the client sees bytes 2.. .                                        *)
LE16(v) == <<v % 256, (v \div 256) % 256>>
LE32(v) == LE16(v % 65536) \o LE16(v \div 65536)
Word(req, n) == req[n] + 256 * req[n + 1]
DWord(req, n) == Word(req, n) + 65536 * Word(req, n + 2)

BmcStorePower(req) ==
  [action |-> req[5], limit |-> Word(req, 6), corr |-> DWord(req, 8),
   sampling |-> Word(req, 14)]

BmcGetPowerResponse(p) ==
  <<GroupExtensionDCMI, 0, 0, p.action>> \o LE16(p.limit) \o LE32(p.corr)
    \o <<0, 0>> \o LE16(p.sampling)

BmcStoreThermal(req) ==
  [action |-> req[4], limit |-> req[5], time |-> Word(req, 6)]

BmcGetThermalResponse(t) ==
  <<GroupExtensionDCMI, t.action, t.limit>> \o LE16(t.time)

-----------------------------------------------------------------------------
VARIABLES
  bmcPower,     \* the controller's power limit, NULL = none active
  bmcThermal,   \* the controller's thermal limit per inlet entity
  sentPower,    \* the SetDCMIPowerLimitRequest that set bmcPower
  sentThermal,  \* per inlet entity, the request that set its limit
  wanted,       \* limit a caller of Client.SetDCMIPowerLimit meant to set
  sent,         \* the last request put on the wire: [cmd, bytes]
  got           \* the last get's outcome: [cmd, entity, value] (NULL = err)

vars == <<bmcPower, bmcThermal, sentPower, sentThermal, wanted, sent, got>>

ZeroPowerReq == [ExceptionAction |-> 0, PowerLimitRequested |-> 0,
                 CorrectionTimeLimitMilliSec |-> 0, StatisticsSamplingPeriodSec |-> 0]

ZeroThermal == [action |-> 0, limit |-> 0, time |-> 0]

Init ==
  /\ bmcPower = NULL
  /\ bmcThermal = [e \in InletEntities |-> ZeroThermal]
  /\ sentPower = NULL
  /\ sentThermal = [e \in InletEntities |->
                      [ExceptionAction_PowerOffAndLogSEL |-> FALSE,
                       ExceptionAction_LogSELOnly |-> FALSE,
                       TemperatureLimit |-> 0, ExceptionTimeSec |-> 0]]
  /\ wanted = NULL
  /\ sent = NULL
  /\ got = NULL

\* c.Exchange(SetDCMIPowerLimitRequest, ...): the controller stores the
\* limit and answers <<DCh>>, which SetDCMIPowerLimitResponse.Unpack accepts.
SendSetPowerLimit(req) ==
  LET bytes == PackSetPowerLimit(req)
  IN  /\ sent' = [cmd |-> "SetPowerLimit", bytes |-> bytes]
      /\ bmcPower' = BmcStorePower(bytes)
      /\ sentPower' = req

\* A caller exchanging a request it built itself.
ExchangeSetPowerLimit ==
  /\ \E req \in PowerReqs : SendSetPowerLimit(req)
  /\ wanted' = NULL
  /\ UNCHANGED <<bmcThermal, sentThermal, got>>

\* Client.SetDCMIPowerLimit(): takes no limit and sends an empty request.
SetDCMIPowerLimit ==
  /\ \E w \in PowerReqs : wanted' = w
  /\ SendSetPowerLimit(ZeroPowerReq)
  /\ UNCHANGED <<bmcThermal, sentThermal, got>>

\* Client.GetDCMIPowerLimit: completion code 80h when no limit is active.
GetDCMIPowerLimit ==
  /\ sent' = [cmd |-> "GetPowerLimit", bytes |-> <<GroupExtensionDCMI, 0, 0>>]
  /\ got' = [cmd |-> "GetPowerLimit", entity |-> 0,
             value |-> IF bmcPower = NULL THEN NULL
                       ELSE UnpackGetPowerLimit(BmcGetPowerResponse(bmcPower))]
  /\ UNCHANGED <<bmcPower, bmcThermal, sentPower, sentThermal, wanted>>

\* Client.GetDCMIThermalLimit(e, inst): entity IDs other than 37h/40h are
\* refused before anything is sent.
GetThermalLimit(e, inst) ==
  /\ IF e \in InletEntities
     THEN /\ sent' = [cmd |-> "GetThermalLimit",
                      bytes |-> PackGetThermalLimit(e, inst)]
          /\ got' = [cmd |-> "GetThermalLimit", entity |-> e,
                     value |-> UnpackGetThermalLimit(
                                 BmcGetThermalResponse(bmcThermal[e]))]
     ELSE /\ got' = [cmd |-> "GetThermalLimit", entity |-> e, value |-> NULL]
          /\ UNCHANGED sent
  /\ UNCHANGED <<bmcPower, bmcThermal, sentPower, sentThermal, wanted>>

GetDCMIThermalLimit == \E e \in EntityIDs, inst \in Instances : GetThermalLimit(e, inst)

\* Client.SetDCMIThermalLimit(request): sent as given; the controller
\* rejects an entity it has no inlet limit for.
SetThermalLimit(req) ==
  LET bytes == PackSetThermalLimit(req)
  IN  /\ sent' = [cmd |-> "SetThermalLimit", bytes |-> bytes]
      /\ IF req.EntityID \in InletEntities
         THEN /\ bmcThermal' = [bmcThermal EXCEPT ![req.EntityID] =
                                  BmcStoreThermal(bytes)]
              /\ sentThermal' = [sentThermal EXCEPT ![req.EntityID] =
                                   ThermalLimitOf(req)]
         ELSE UNCHANGED <<bmcThermal, sentThermal>>
      /\ UNCHANGED <<bmcPower, sentPower, wanted, got>>

SetDCMIThermalLimit == \E req \in ThermalReqs : SetThermalLimit(req)

Next ==
  \/ ExchangeSetPowerLimit
  \/ SetDCMIPowerLimit
  \/ GetDCMIPowerLimit
  \/ GetDCMIThermalLimit
  \/ SetDCMIThermalLimit

Spec == Init /\ [][Next]_vars

-----------------------------------------------------------------------------
TypeOK ==
  /\ bmcPower = NULL \/ bmcPower.limit \in 0..65535
  /\ sentPower \in PowerReqs \cup {ZeroPowerReq, NULL}
  /\ wanted \in PowerReqs \cup {NULL}
  /\ sent = NULL \/ \A k \in DOMAIN sent.bytes : sent.bytes[k] \in Octets
  /\ got = NULL \/ got.cmd \in {"GetPowerLimit", "GetThermalLimit"}
  /\ got # NULL /\ got.cmd = "GetPowerLimit" /\ got.value # NULL
       => got.value \in [ExceptionAction : Octets, PowerLimitRequested : 0..65535,
                         CorrectionTimeLimitMilliSec : Nat,
                         StatisticsSamplingPeriodSec : 0..65535]

\* Every get power limit that succeeds reports exactly the last set request
\* the controller accepted: Pack's offsets and widths, the controller's
\* DCMI layout and Unpack's offsets agree on every field.
PowerLimitRoundTrip ==
  [][got' # got /\ got'.cmd = "GetPowerLimit" /\ got'.value # NULL
       => got'.value = sentPower]_vars

\* Every get thermal limit that succeeds for an inlet entity reports what
\* the last set for that entity asked for, both exception-action bits
\* included.
ThermalRoundTrip ==
  [][got' # got /\ got'.cmd = "GetThermalLimit" /\ got'.value # NULL
       => got'.value = sentThermal[got'.entity]]_vars

\* After Client.SetDCMIPowerLimit the controller holds the limit its
\* caller meant to set.
SetPowerLimitHonoured ==
  wanted # NULL => bmcPower = BmcStorePower(PackSetPowerLimit(wanted))

\* Spec 4.3: thermal-limit requests only ever carry entity 37h or 40h;
\* any other entity is refused by the client before sending.
InletEntitiesOnly ==
  sent # NULL /\ sent.cmd \in {"GetThermalLimit", "SetThermalLimit"}
    => At(sent.bytes, 1) \in InletEntities
=============================================================================
