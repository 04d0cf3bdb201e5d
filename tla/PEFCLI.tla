------------------------------- MODULE PEFCLI -------------------------------
(***************************************************************************)
(* The `goipmi pef` command tree (cmd/goipmi/commands/pef.go, NewCmdPEF).  *)
(* One process runs one subcommand: cobra picks it from the command line,  *)
(* PersistentPreRunE opens the client and PersistentPostRunE closes it     *)
(* (both outside src/).  `pef` and `pef filter` without a subcommand print *)
(* help and do nothing else; `pef capabilities` is one call and a print;   *)
(* `pef status` is PEFStatus and `pef filter list` is PEFFilterList.  The  *)
(* two instances keep their own variables; the one not chosen stays at its *)
(* initial state.                                                          *)
(***************************************************************************)
EXTENDS Naturals, Sequences

CONSTANTS
  NULL,
  CountValues, StoredFilters,           \* the filter list's controller
  ControlOctets, AGCOctets, Revision    \* the status command's controller

VARIABLES
  cmd,                                          \* the subcommand run
  capStatus,                                    \* `pef capabilities`
  fN, fFilters, fI, fLastSet, fStatus, fRows,   \* `pef filter list`
  sCtrl, sPc, sStatus, sLastReq, sOut           \* `pef status`

filterVars == <<fN, fFilters, fI, fLastSet, fStatus, fRows>>
statusVars == <<sCtrl, sPc, sStatus, sLastReq, sOut>>
vars == <<cmd, capStatus, filterVars, statusVars>>

FL == INSTANCE PEFFilterList
        WITH n <- fN, filters <- fFilters, i <- fI, lastSet <- fLastSet,
             status <- fStatus, rows <- fRows

ST == INSTANCE PEFStatus
        WITH ctrl <- sCtrl, pc <- sPc, status <- sStatus, lastReq <- sLastReq,
             out <- sOut

\* The commands NewCmdPEF and NewCmdPEFFilter register, by their paths.
Subcommands == {"pef", "capabilities", "status", "filter", "filter list"}

\* The status command's controller is read only by `pef status`; under the
\* other commands it is one fixed choice.
IdleCtrl ==
  CHOOSE c \in {[Control |-> x, ActionGlobalControl |-> y] :
                  x \in ControlOctets, y \in AGCOctets} : TRUE

Init ==
  /\ cmd \in Subcommands
  /\ capStatus = "running"
  /\ FL!Init
  /\ ST!Init
  /\ cmd # "status" => sCtrl = IdleCtrl

\* NewCmdPEFCapabilities: GetPEFCapabilities (outside src/) returns, and
\* its Format is printed, or it fails and CheckErr exits.
Capabilities ==
  /\ cmd = "capabilities" /\ capStatus = "running"
  /\ capStatus' \in {"printed", "exited"}
  /\ UNCHANGED <<cmd, filterVars, statusVars>>

FilterList ==
  /\ cmd = "filter list"
  /\ FL!Next
  /\ UNCHANGED <<cmd, capStatus, statusVars>>

Status ==
  /\ cmd = "status"
  /\ ST!Next
  /\ UNCHANGED <<cmd, capStatus, filterVars>>

Next == Capabilities \/ FilterList \/ Status

\* The process's one goroutine keeps running, and every call returns.
Spec == Init /\ [][Next]_vars /\ WF_vars(Next)

-----------------------------------------------------------------------------
TypeOK ==
  /\ cmd \in Subcommands
  /\ capStatus \in {"running", "printed", "exited"}
  /\ FL!TypeOK
  /\ ST!TypeOK

\* `pef filter list` prints one row per event filter of the controller,
\* in order, each showing the filter's enabled state, type and enabled
\* actions as IPMI 17.7 defines them (PEFFilterList).
ListShowsFilters == FL!ListShowsFilters

\* `pef status` prints every PEF Control and Action Global Control setting
\* as the controller holds it, and all blocks when it ends without an
\* error (PEFStatus).
StatusShowsController == ST!StatusShowsController

\* Whichever subcommand is given, the process ends normally: it prints
\* what it read or reports the failing call, and never panics or loops.
Finished ==
  CASE cmd \in {"pef", "filter"} -> TRUE
    [] cmd = "capabilities"       -> capStatus # "running"
    [] cmd = "status"             -> sStatus # "running"
    [] cmd = "filter list"        -> fStatus \in {"printed", "exited"}

Terminates == <>Finished
=============================================================================
