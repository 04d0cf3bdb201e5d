---------------------------- MODULE MC_DCMILimits ----------------------------
(* One value per multi-octet field, each with a different non-zero value  *)
(* in every octet (012Ch, 01020304h, 0102h, ...), so a field packed or    *)
(* read at the wrong offset or width changes what is read back; entity   *)
(* 41h (CPU) is not an inlet entity.                                      *)
EXTENDS DCMILimits

MCExceptionActions == {0, 1}               \* no action, hard power off
MCWatts            == {300}                \* 012Ch
MCMillis           == {16909060}           \* 01020304h
MCSeconds          == {258}                \* 0102h
MCEntityIDs        == {55, 64, 65}         \* 37h, 40h, 41h
MCInstances        == {1}
MCTempLimits       == {25}
MCExceptionTimes   == {1027}               \* 0403h
=============================================================================
