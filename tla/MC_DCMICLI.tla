------------------------------ MODULE MC_DCMICLI ------------------------------
(* Instantiates the `goipmi dcmi` commands for TLC.                        *)
(* Discovery: reply lengths around every decoder threshold: empty, header- *)
(* only (4), the response minimum (5), and ParamData of 1..6 octets, which *)
(* covers every parameter minimum (largest 5) and a period list of up to   *)
(* 2.  Asset tag: empty, one full chunk, spec 6's 37 octets (three reads   *)
(* of 16), and the uint8 maximum 255, where the last end test is           *)
(* 240 + 15 = 255; a controller returns full 16-octet or shorter 5-octet   *)
(* chunks.                                                                 *)
EXTENDS DCMICLI

MCCommandsAll == CommandLines
MCMsgLens     == {0, 4, 5, 6, 7, 8, 9, 10}
MCTagLens     == {0, 16, 37, 255}
MCChunkLens   == {5, 16}

\* One command line each, for the configurations kept beside the runs.
MCCommandsSensors     == {"sensors"}
MCCommandsDiscover    == {"discover"}
MCCommandsTempReading == {"get_temp_reading"}
MCCommandsAssetTag    == {"asset_tag"}
\* A controller that may answer with an empty chunk before the end.
MCChunkLensZero == {0, 16}
=============================================================================
