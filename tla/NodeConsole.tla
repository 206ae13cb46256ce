----------------------------- MODULE NodeConsole -----------------------------
(***************************************************************************)
(* main, openInterfaceAndDevice, openDevice and execNodeConsole of         *)
(* exampleSrc/GenTLInterfaceExample.cpp: the user opens interfaces,        *)
(* devices and ports of a GenTL producer one after the other, and every    *)
(* call on the way may fail.                                               *)
(*                                                                         *)
(* A handle is a number: no handle, the system's, or a new one for every   *)
(* module that is opened.  A node map is named by the handle of its module; *)
(* the remote device's by that of its device.                              *)
(***************************************************************************)
EXTENDS Naturals

CONSTANT NcMaxOpens \* bound of the modules opened

VARIABLES
  ncPc,             \* where the console is
  ncCmd,            \* cmd, of the two that open a device: "setif" or "setdev"
  ncOpen,           \* the modules the producer has open; none once GCCloseLib was called
  ncIf, ncDev,      \* hIf, hDev
  ncRemote,         \* remDevPort, remDevNodeMap
  ncActive,         \* activeNodePort, activeNodeMap
  ncPort,           \* hModulePort
  ncNext            \* the next new handle

ncVars == <<ncPc, ncCmd, ncOpen, ncIf, ncDev, ncRemote, ncActive, ncPort, ncNext>>

NullHandle == 0
SystemHandle == 1

NcOff == ncPc = "off"

NcInit ==
  /\ ncPc = "off" /\ ncCmd = "setif" /\ ncOpen = {}
  /\ ncIf = NullHandle /\ ncDev = NullHandle
  /\ ncRemote = NullHandle /\ ncActive = NullHandle /\ ncPort = NullHandle
  /\ ncNext = SystemHandle + 1

NcGoes(from, to) == ncPc = from /\ ncPc' = to

\* Choose and open a CTI file, GCInitLib, TLOpen; the console's first command is setif.
NcOpenSystem ==
  /\ \/ NcGoes("off", "setif") /\ ncOpen' = {SystemHandle}
     \/ NcGoes("off", "returned") /\ UNCHANGED ncOpen
  /\ UNCHANGED <<ncCmd, ncIf, ncDev, ncRemote, ncActive, ncPort, ncNext>>

\* Faulty variant: the active node map survives.
NcSetIf_Keep ==
  /\ NcGoes("setif", "closeDev") /\ ncCmd' = "setif"
  /\ UNCHANGED <<ncOpen, ncIf, ncDev, ncRemote, ncActive, ncPort, ncNext>>

NcSetIf ==
  /\ NcGoes("setif", "closeDev") /\ ncCmd' = "setif"
  /\ ncActive' = NullHandle
  /\ UNCHANGED <<ncOpen, ncIf, ncDev, ncRemote, ncPort, ncNext>>

NcSetDev ==
  /\ NcGoes("setdev", IF ncIf = NullHandle THEN "prompt" ELSE "closeDev")
  /\ ncCmd' = "setdev"
  /\ ncActive' = IF ncIf = NullHandle THEN ncActive ELSE NullHandle
  /\ UNCHANGED <<ncOpen, ncIf, ncDev, ncRemote, ncPort, ncNext>>

\* DevClose, if there is a device; when it fails the command ends with the device as
\* it was.
NcCloseDevice ==
  /\ \/ /\ NcGoes("closeDev", IF ncCmd = "setif" THEN "closeIf" ELSE "openDev")
        /\ ncDev \in ncOpen \cup {NullHandle}
        /\ ncOpen' = ncOpen \ {ncDev}
        /\ ncDev' = NullHandle /\ ncRemote' = NullHandle
     \/ /\ NcGoes("closeDev", "prompt") /\ ncDev # NullHandle
        /\ UNCHANGED <<ncOpen, ncDev, ncRemote>>
  /\ UNCHANGED <<ncCmd, ncIf, ncActive, ncPort, ncNext>>

\* IFClose, which fails for ever once the library was closed with the handle kept.
NcCloseInterface ==
  /\ \/ /\ NcGoes("closeIf", "openIf")
        /\ ncIf \in ncOpen \cup {NullHandle}
        /\ ncOpen' = ncOpen \ {ncIf} /\ ncIf' = NullHandle
     \/ /\ NcGoes("closeIf", "prompt") /\ ncIf # NullHandle
        /\ UNCHANGED <<ncOpen, ncIf>>
  /\ UNCHANGED <<ncCmd, ncDev, ncRemote, ncActive, ncPort, ncNext>>

\* A failed call on the way to an open module: GCCloseLib, and back to the console.
NcCloseLib == ncPc' = "prompt" /\ ncOpen' = {}

\* The list of interfaces, the user's choice (or none), TLOpenInterface.
NcOpenInterface ==
  /\ ncPc = "openIf"
  /\ \/ NcCloseLib /\ UNCHANGED <<ncIf, ncNext>>
     \/ /\ SystemHandle \in ncOpen
        /\ ncPc' = "prompt" /\ UNCHANGED <<ncOpen, ncIf, ncNext>>
     \/ /\ SystemHandle \in ncOpen /\ ncNext <= NcMaxOpens
        /\ ncIf' = ncNext /\ ncNext' = ncNext + 1
        /\ ncOpen' = ncOpen \cup {ncNext}
        /\ ncPc' = "openDev"
  /\ UNCHANGED <<ncCmd, ncDev, ncRemote, ncActive, ncPort>>

\* The list of devices, the user's choice (or none), IFOpenDevice, whose failure is
\* not GCCloseLib; then the remote port and its node map.
NcOpenDevice ==
  /\ ncPc = "openDev"
  /\ \/ NcCloseLib /\ UNCHANGED <<ncDev, ncRemote, ncActive, ncPort, ncNext>>
     \/ /\ ncIf \in ncOpen
        /\ ncPc' = "prompt"
        /\ UNCHANGED <<ncOpen, ncDev, ncRemote, ncActive, ncPort, ncNext>>
     \/ /\ ncIf \in ncOpen /\ ncNext <= NcMaxOpens
        /\ ncDev' = ncNext /\ ncNext' = ncNext + 1
        /\ ncOpen' = ncOpen \cup {ncNext}
        /\ ncPc' = "prompt"
        /\ \/ UNCHANGED <<ncRemote, ncActive, ncPort>>
           \/ ncRemote' = ncNext /\ ncActive' = ncNext /\ ncPort' = ncNext
  /\ UNCHANGED <<ncCmd, ncIf>>

\* setport asks until a node map is loaded (or an exception ends the command); the
\* remote device's map is there already.
NcSetPort ==
  /\ ncPc = "setport"
  /\ \/ /\ ncPort' \in {SystemHandle, ncIf, ncDev} \ {NullHandle}
        /\ \/ ncActive' = NullHandle
           \/ ncPort' \in ncOpen /\ ncActive' = ncPort'
     \/ /\ ncPort' = ncDev
        /\ ncActive' \in {NullHandle, ncRemote}
  /\ ncPc' \in IF ncActive' = NullHandle THEN {"setport", "prompt"} ELSE {"prompt"}
  /\ UNCHANGED <<ncCmd, ncOpen, ncIf, ncDev, ncRemote, ncNext>>

\* The user's next command, of those that change what the console holds.
NcCommand ==
  /\ ncPc = "prompt" /\ ncPc' \in {"setif", "setdev", "setport"}
  /\ UNCHANGED <<ncCmd, ncOpen, ncIf, ncDev, ncRemote, ncActive, ncPort, ncNext>>

\* "exit": the node maps go, and main calls GCCloseLib.
NcExit ==
  /\ NcGoes("prompt", "returned")
  /\ ncOpen' = {} /\ ncActive' = NullHandle /\ ncRemote' = NullHandle
  /\ UNCHANGED <<ncCmd, ncIf, ncDev, ncPort, ncNext>>

NcNextStep ==
  \/ NcOpenSystem \/ NcSetIf \/ NcSetDev \/ NcCloseDevice \/ NcCloseInterface
  \/ NcOpenInterface \/ NcOpenDevice \/ NcSetPort \/ NcCommand \/ NcExit

-----------------------------------------------------------------------------
\* Whatever fails on the way, a node map the console can use belongs to a module that
\* is open now (not to one that setif or setdev has closed); no module stays open that
\* the console has forgotten; and until a failure calls GCCloseLib the console's
\* handles are open ones.  (hModulePort is not among them: it keeps the handle of a
\* closed device, for evtview to register an event with.)
NcMapsOfOpenModules ==
  /\ {ncActive, ncRemote} \ {NullHandle} \subseteq ncOpen
  /\ ncOpen \subseteq {SystemHandle, ncIf, ncDev}
  /\ ncOpen # {} => {ncIf, ncDev} \ {NullHandle} \subseteq ncOpen
=============================================================================
