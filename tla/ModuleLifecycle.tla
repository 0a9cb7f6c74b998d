--------------------------- MODULE ModuleLifecycle ---------------------------
(***************************************************************************)
(* What an adapter promises about one module: its thread runs from the     *)
(* creation of the module to its removal, the module is attached to the    *)
(* thread in between, interfaces come and go only while both are there,    *)
(* and the thread stops only when no interface is left.                    *)
(***************************************************************************)
EXTENDS FiniteSets

CONSTANT HostIf

VARIABLES
  phase,     \* of the thread: "absent", "running" or "ended"
  attached,  \* the thread may use the module
  netif,     \* the network interface exists
  hostifs    \* the host interfaces that exist

lifecycleVars == <<phase, attached, netif, hostifs>>

Bare == ~netif /\ hostifs = {}

Init == phase = "absent" /\ ~attached /\ Bare

Start ==
  /\ phase = "absent"
  /\ phase' = "running"
  /\ UNCHANGED <<attached, netif, hostifs>>

Attach ==
  /\ phase = "running"
  /\ ~attached
  /\ attached' = TRUE
  /\ UNCHANGED <<phase, netif, hostifs>>

ChangeNetif ==
  /\ phase = "running"
  /\ attached
  /\ netif' = ~netif
  /\ UNCHANGED <<phase, attached, hostifs>>

ChangeHostifs ==
  /\ phase = "running"
  /\ attached
  /\ hostifs' \in SUBSET HostIf
  /\ UNCHANGED <<phase, attached, netif>>

Stop ==
  /\ phase = "running"
  /\ attached
  /\ Bare
  /\ phase' = "ended"
  /\ UNCHANGED <<attached, netif, hostifs>>

Detach ==
  /\ phase = "ended"
  /\ attached
  /\ attached' = FALSE
  /\ UNCHANGED <<phase, netif, hostifs>>

Forget ==
  /\ phase = "ended"
  /\ ~attached
  /\ phase' = "absent"
  /\ UNCHANGED <<attached, netif, hostifs>>

Next == Start \/ Attach \/ ChangeNetif \/ ChangeHostifs \/ Stop \/ Detach \/ Forget

Spec == Init /\ [][Next]_lifecycleVars
=============================================================================
