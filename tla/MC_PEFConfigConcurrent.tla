------------------------ MODULE MC_PEFConfigConcurrent ------------------------
(* GetPEFConfig against a controller with one event filter, one alert     *)
(* policy slot and one alert string, and one Set from another session.    *)
EXTENDS PEFConfigConcurrent

MCCounts == {1}
=============================================================================
