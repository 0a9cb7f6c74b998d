----------------------------- MODULE ObjectTree -----------------------------
(***************************************************************************)
(* What a registry of TAI objects promises, seen through the object ids a  *)
(* client holds: modules, and interfaces that live on a module and never   *)
(* longer than it.                                                         *)
(***************************************************************************)
EXTENDS Integers

CONSTANTS
  Module,    \* what identifies a module
  Interface  \* what identifies an interface on its module

VARIABLES
  modules,    \* the modules that exist
  interfaces  \* the interfaces that exist: pairs of module and interface

treeVars == <<modules, interfaces>>

Bare(m) == \A p \in Interface : <<m, p>> \notin interfaces

Init == modules = {} /\ interfaces = {}

AddModule(m) ==
  /\ m \notin modules
  /\ modules' = modules \cup {m}
  /\ UNCHANGED interfaces

AddInterface(m, p) ==
  /\ m \in modules
  /\ <<m, p>> \notin interfaces
  /\ interfaces' = interfaces \cup {<<m, p>>}
  /\ UNCHANGED modules

DropInterface(m, p) ==
  /\ <<m, p>> \in interfaces
  /\ interfaces' = interfaces \ {<<m, p>>}
  /\ UNCHANGED modules

DropModule(m) ==
  /\ m \in modules
  /\ Bare(m)
  /\ modules' = modules \ {m}
  /\ UNCHANGED interfaces

(* The end of the registry, which outlives every interface.                *)
Clear ==
  /\ interfaces = {}
  /\ modules' = {}
  /\ UNCHANGED interfaces

Next ==
  \/ \E m \in Module :
       \/ AddModule(m)
       \/ DropModule(m)
       \/ \E p \in Interface : AddInterface(m, p) \/ DropInterface(m, p)
  \/ Clear

Spec == Init /\ [][Next]_treeVars
=============================================================================
