-------------------------- MODULE MC_DCMIThermalCLI --------------------------
(* Command lines for the thermal policy commands.  Entities: inlet 40h, a *)
(* CPU entity 41h, and 140h, which narrows to 40h.  Temperatures 25 and   *)
(* 281, which narrows to 25, so a line that does not fit stores what a    *)
(* valid one does.  Words: one of each meaning in the usage text, the     *)
(* literal "default", and a mistyped "off".                               *)
EXTENDS DCMIThermalCLI

MCEntities    == {64, 65, 320}
MCInstances   == {1}
MCTemps       == {25, 281}
MCTempsValid  == {25}
MCTimes       == {1027}
MCPowerWords  == {"poweroff", "disabled", "default", "off"}
MCPowerValid  == {"poweroff", "disabled", "default"}
MCSelWords    == {"sel", "nosel", "default"}

\* A line that is invalid in both ways: a mistyped word and a temperature
\* that does not fit.
MCEntitiesInlet == {64}
MCTempsWide     == {281}
MCPowerTypo     == {"off"}
MCSelListed     == {"sel"}
=============================================================================
