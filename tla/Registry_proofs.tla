--------------------------- MODULE Registry_proofs ---------------------------
(***************************************************************************)
(* Proofs about Registry, for all locations, whatever numbers they stand   *)
(* for, and any number of modules and host interfaces.                     *)
(***************************************************************************)
EXTENDS Registry, TLAPS

(* The parts of a module are told apart by their type.                     *)
LEMMA Parts ==
  /\ Self \in Part
  /\ Self \notin Interface
  /\ \A p \in Part : p[1] = "module" <=> p = Self
  /\ \A p \in Interface : p \in Part /\ p[1] \in {"netif", "hostif"}
BY DEF Part, Interface, Self

(* Ids are made of a module's number and a part, and nothing else.         *)
LEMMA Ids ==
  /\ \A n \in ModuleNumber : ModuleId(n) \in ObjectId
  /\ \A n \in ModuleNumber : \A p \in Interface :
       InterfaceId(n, p) \in ObjectId /\ InterfaceId(n, p) # ModuleId(n)
  /\ \A id \in ObjectId :
       /\ id.module \in ModuleNumber
       /\ id.module \in Int
       /\ id.part \in Part
       /\ id.part = Self => id = ModuleId(id.module)
       /\ id.part # Self => id.part \in Interface /\ id = InterfaceId(id.module, id.part)
<1>1. ModuleNumber \subseteq Int
  BY RegistryAssumption DEF ModuleNumber, Numeric
<1>2. \A id \in ObjectId : id = [module |-> id.module, part |-> id.part]
  BY DEF ObjectId
<1>3. Part = Interface \cup {Self}
  BY DEF Part
<1> QED
  BY <1>1, <1>2, <1>3, Parts DEF ObjectId, ModuleId, InterfaceId

(* An index that passes the test of a constructor names an interface.      *)
LEMMA Indices ==
  ASSUME NEW type \in {"netif", "hostif"}, NEW index \in Index,
         index >= 0, index < NumOf(type)
  PROVE  <<type, index>> \in Interface
<1>1. index \in Int
  BY RegistryAssumption
<1>2. NumNetIf \in Int /\ NumHostIf \in Int
  BY RegistryAssumption DEF NumNetIf
<1>3. index \in 0..NumOf(type) - 1
  BY <1>1, <1>2 DEF NumOf
<1> QED
  BY <1>3 DEF NumOf, Interface
-----------------------------------------------------------------------------
LEMMA SetInterfacesFacts ==
  ASSUME TypeOK, NEW l \in Location, NEW ps \in SUBSET Interface
  PROVE  /\ SetInterfaces(l, ps) \in [Location -> FsmType]
         /\ SetInterfaces(l, ps)[l].thread = fsms[l].thread
         /\ SetInterfaces(l, ps)[l].attached = ps
         /\ \A k \in Location \ {l} : SetInterfaces(l, ps)[k] = fsms[k]
BY DEF SetInterfaces, TypeOK, FsmType

(***************************************************************************)
(* What the operations do, in terms of objects and fsms alone.             *)
(***************************************************************************)
LEMMA EnterFacts ==
  ASSUME TypeOK, NEW id \in ObjectId, NEW l \in Location, Enter(id, l)
  PROVE  /\ objects' = [objects EXCEPT ![id] = IF @ = None THEN l ELSE @]
         /\ objects' \in [ObjectId -> Location \cup {None}]
         /\ reply' \in [status : Status, id : ObjectId \cup {None}]
<1>1. CASE objects[id] # None
  BY <1>1 DEF Enter, Reply, TypeOK, Status
<1>2. CASE objects[id] = None
  BY <1>2 DEF Enter, Reply, TypeOK, Status
<1> QED
  BY <1>1, <1>2

(* A removal takes out a bare module with its FSM, or an interface that    *)
(* its FSM knows, or is refused.                                           *)
LEMMA RemoveFacts ==
  ASSUME TypeOK, NEW id \in ObjectId, RemoveObject(id)
  PROVE  /\ reply' \in [status : Status, id : ObjectId \cup {None}]
         /\ \/ \E l \in Location :
                 /\ id = ModuleId(id.module)
                 /\ objects[id] = l
                 /\ fsms[l].attached = {}
                 /\ fsms' = [fsms EXCEPT ![l] = NoFsm]
                 /\ objects' = [objects EXCEPT ![id] = None]
            \/ \E l \in Location :
                 /\ id.part \in Interface
                 /\ id = InterfaceId(id.module, id.part)
                 /\ objects[id] # None
                 /\ objects[ModuleId(id.module)] = l
                 /\ fsms' = SetInterfaces(l, fsms[l].attached \ {id.part})
                 /\ objects' = [objects EXCEPT ![id] = None]
            \/ UNCHANGED <<objects, fsms>>
<1>1. CASE RemoveModule(id)
  <2>1. objects[id] # None /\ TypeField(id) = "module"
    BY <1>1 DEF RemoveModule, get_object_type
  <2>2. id.part = Self
    BY <2>1, Ids, Parts DEF TypeField
  <2> QED
    BY <1>1, <2>1, <2>2, Ids DEF RemoveModule, Drop, Reply, InUse, TypeOK, Status
<1>2. CASE RemoveInterface(id)
  <2>1. /\ id.part \in Interface
        /\ objects[id] # None
        /\ objects[ModuleId(id.module)] # None
        /\ get_module_id(id) = ModuleId(id.module)
    BY <1>2 DEF RemoveInterface, get_module_id, get_object_type
  <2>2. id = InterfaceId(id.module, id.part) /\ ModuleId(id.module) \in ObjectId
    BY <2>1, Ids, Parts
  <2> QED
    BY <1>2, <2>1, <2>2 DEF RemoveInterface, Drop, Reply, TypeOK, Status
<1>3. CASE RemoveRefused(id)
  <2>1. RemoveFault(id) \in Status
    BY DEF RemoveFault, Status
  <2> QED
    BY <1>3, <2>1 DEF RemoveRefused, Reply
<1> QED
  BY <1>1, <1>2, <1>3 DEF RemoveObject

(* The same for a creation of an interface: the FSM of the module, which   *)
(* is registered, comes to know it.                                        *)
LEMMA CreateInterfaceFacts ==
  ASSUME TypeOK, NEW mid \in ObjectId, NEW type \in {"netif", "hostif"},
         NEW index \in Index, CreateInterface(mid, type, index)
  PROVE  LET p == <<type, index>>
             id == InterfaceId(mid.module, p)
             l == objects[mid]
         IN  /\ p \in Interface
             /\ mid = ModuleId(mid.module)
             /\ id \in ObjectId
             /\ l \in Location
             /\ fsms' = SetInterfaces(l, fsms[l].attached \cup {p})
             /\ objects' = [objects EXCEPT ![id] = IF @ = None THEN l ELSE @]
             /\ objects' \in [ObjectId -> Location \cup {None}]
             /\ reply' \in [status : Status, id : ObjectId \cup {None}]
<1> DEFINE p == <<type, index>>
           id == InterfaceId(mid.module, p)
           l == objects[mid]
<1>1. /\ TypeField(mid) = "module"
      /\ objects[mid] # None
      /\ ~(index < 0)
      /\ ~(index >= NumOf(type))
  BY DEF CreateInterface, InterfaceFault
<1>2. index \in Int /\ NumOf(type) \in Int
  BY RegistryAssumption DEF NumOf, NumNetIf
<1>3. p \in Interface
  BY <1>1, <1>2, Indices
<1>4. mid = ModuleId(mid.module)
  BY <1>1, Ids, Parts DEF TypeField
<1>5. id \in ObjectId
  BY <1>3, Ids
<1>6. l \in Location
  BY <1>1 DEF TypeOK
<1>7. Enter(id, l) /\ fsms' = SetInterfaces(l, fsms[l].attached \cup {p})
  BY DEF CreateInterface
<1> QED
  BY <1>3, <1>4, <1>5, <1>6, <1>7, EnterFacts

(* A refused creation leaves the registry alone.                           *)
LEMMA RefuseFacts ==
  ASSUME NEW status \in Status, NEW id \in ObjectId \cup {None}, Refuse(status, id)
  PROVE  /\ UNCHANGED <<platform, objects, fsms, left, pass, leaked>>
         /\ reply' \in [status : Status, id : ObjectId \cup {None}]
BY DEF Refuse, Reply

LEMMA Faults ==
  /\ \A l, accepted : ModuleFault(l, accepted) \in Status
  /\ \A mid, type, index, accepted : InterfaceFault(mid, type, index, accepted) \in Status
BY DEF ModuleFault, InterfaceFault, Status

LEMMA IdAtFacts == \A l \in Location : IdAt(l) \in ObjectId \cup {None}
BY Ids DEF IdAt, ModuleNumber

-----------------------------------------------------------------------------
(***************************************************************************)
(* Typing.                                                                 *)
(***************************************************************************)
LEMMA NextTypeOK == TypeOK /\ [Next]_vars => TypeOK'
<1> SUFFICES ASSUME TypeOK, [Next]_vars
             PROVE  TypeOK'
  OBVIOUS
<1>0. /\ NoFsm \in FsmType
      /\ \A t \in {"created", "failed", "running"} : Fsm(t) \in FsmType
  BY DEF NoFsm, Fsm, FsmType
<1>1. CASE Initialize
  BY <1>1 DEF Initialize, Reply, TypeOK, Status
<1>2. CASE InitializeAgain \/ CallUninitialized \/ CreateNowhere
  BY <1>2 DEF InitializeAgain, CallUninitialized, CreateNowhere, Refuse, Reply, TypeOK, Status
<1>3. ASSUME NEW l \in Location, CreateKnown(l)
      PROVE  TypeOK'
  BY <1>3, IdAtFacts DEF CreateKnown, Refuse, Reply, TypeOK, Status
<1>4. ASSUME NEW l \in Location, CreateFails(l)
      PROVE  TypeOK'
  BY <1>4, <1>0, IdAtFacts DEF CreateFails, Reply, TypeOK, Status
<1>5. ASSUME NEW l \in Location, CreateModule(l)
      PROVE  TypeOK'
  <2>1. ModuleId(Number[l]) \in ObjectId
    <3>1. l \in Numeric
      BY <1>5 DEF CreateModule, ModuleFault
    <3> QED
      BY <3>1, Ids DEF ModuleNumber
  <2>2. /\ objects' \in [ObjectId -> Location \cup {None}]
        /\ reply' \in [status : Status, id : ObjectId \cup {None}]
    BY <1>5, <2>1, EnterFacts DEF CreateModule
  <2> QED
    BY <1>5, <1>0, <2>2 DEF CreateModule, TypeOK
<1>6. ASSUME NEW l \in Location, NEW accepted \in BOOLEAN, CreateThrows(l, accepted)
      PROVE  TypeOK'
  BY <1>6, <1>0, Faults, IdAtFacts DEF CreateThrows, Reply, TypeOK
<1>7. ASSUME NEW id \in ObjectId, RemoveObject(id),
             UNCHANGED <<platform, pass, leaked>>, left' \in SUBSET ObjectId
      PROVE  TypeOK'
  <2>1. /\ objects' \in [ObjectId -> Location \cup {None}]
        /\ fsms' \in [Location -> FsmType]
        /\ reply' \in [status : Status, id : ObjectId \cup {None}]
    <3>1. \A l \in Location : fsms[l].attached \ {id.part} \in SUBSET Interface
      BY DEF TypeOK, FsmType
    <3>2. \A l \in Location :
            SetInterfaces(l, fsms[l].attached \ {id.part}) \in [Location -> FsmType]
      BY <3>1, SetInterfacesFacts
    <3>3. [objects EXCEPT ![id] = None] \in [ObjectId -> Location \cup {None}]
      BY DEF TypeOK
    <3>4. \A l \in Location : [fsms EXCEPT ![l] = NoFsm] \in [Location -> FsmType]
      BY <1>0 DEF TypeOK
    <3>5. objects \in [ObjectId -> Location \cup {None}] /\ fsms \in [Location -> FsmType]
      BY DEF TypeOK
    <3>6. reply' \in [status : Status, id : ObjectId \cup {None}]
      BY <1>7, RemoveFacts
    <3>7. CASE UNCHANGED <<objects, fsms>>
      BY <3>5, <3>6, <3>7
    <3>8. CASE /\ objects' = [objects EXCEPT ![id] = None]
               /\ \E l \in Location :
                    \/ fsms' = [fsms EXCEPT ![l] = NoFsm]
                    \/ fsms' = SetInterfaces(l, fsms[l].attached \ {id.part})
      BY <3>2, <3>3, <3>4, <3>6, <3>8
    <3> QED
      BY <1>7, <3>7, <3>8, RemoveFacts
  <2> QED
    BY <1>7, <2>1 DEF TypeOK
<1>8. ASSUME NEW id \in ObjectId, Remove(id)
      PROVE  TypeOK'
  BY <1>7, <1>8 DEF Remove, TypeOK
<1>9. ASSUME NEW id \in ObjectId, DestroyNext(id)
      PROVE  TypeOK'
  BY <1>7, <1>9 DEF DestroyNext, TypeOK
<1>10. ASSUME NEW id \in ObjectId, NEW filter \in {"module", "netif", "hostif"},
              Access(id, filter)
       PROVE  TypeOK'
  BY <1>10 DEF Access, Refuse, Reply, TypeOK, Status
<1>11. ASSUME NEW id \in ObjectId, NEW type \in {"netif", "hostif"}, NEW index \in Index,
              CreateInterface(id, type, index)
       PROVE  TypeOK'
  <2>1. /\ objects' \in [ObjectId -> Location \cup {None}]
        /\ fsms' \in [Location -> FsmType]
        /\ reply' \in [status : Status, id : ObjectId \cup {None}]
    <3>1. /\ <<type, index>> \in Interface
          /\ objects[id] \in Location
          /\ fsms' = SetInterfaces(objects[id], fsms[objects[id]].attached \cup {<<type, index>>})
          /\ objects' \in [ObjectId -> Location \cup {None}]
          /\ reply' \in [status : Status, id : ObjectId \cup {None}]
      BY <1>11, CreateInterfaceFacts
    <3>2. fsms[objects[id]].attached \cup {<<type, index>>} \in SUBSET Interface
      BY <3>1 DEF TypeOK, FsmType
    <3> QED
      BY <3>1, <3>2, SetInterfacesFacts
  <2> QED
    BY <1>11, <2>1 DEF CreateInterface, TypeOK
<1>12. ASSUME NEW id \in ObjectId, NEW type \in {"netif", "hostif"}, NEW index \in Index,
              NEW accepted \in BOOLEAN, CreateRefused(id, type, index, accepted)
       PROVE  TypeOK'
  BY <1>12, Faults, RefuseFacts DEF CreateRefused, TypeOK
<1>13. CASE Uninitialize
  BY <1>13 DEF Uninitialize, Reply, Registered, TypeOK, Status
<1>14. CASE DestroyAgain
  BY <1>14 DEF DestroyAgain, Registered, Passes, TypeOK
<1>15. CASE DestroyEnd
  BY <1>15, <1>0 DEF DestroyEnd, TypeOK
<1>16. CASE DestroyAborts
  BY <1>16 DEF DestroyAborts, TypeOK
<1>17. CASE UNCHANGED vars
  BY <1>17 DEF vars, TypeOK
<1> QED
  BY <1>1, <1>2, <1>3, <1>4, <1>5, <1>6, <1>8, <1>9, <1>10, <1>11, <1>12,
     <1>13, <1>14, <1>15, <1>16, <1>17 DEF Next

(* Every variable keeps its type, whatever the locations and their numbers.*)
THEOREM TypeCorrect == Spec => []TypeOK
<1>1. Init => TypeOK
  BY DEF Init, TypeOK, NoFsm, FsmType, Status
<1> QED
  BY <1>1, NextTypeOK, PTL DEF Spec

-----------------------------------------------------------------------------
(***************************************************************************)
(* The ways in which a step changes objects and fsms.                      *)
(***************************************************************************)
Kept == UNCHANGED <<objects, fsms>>

(* An FSM is entered, and no object.                                       *)
FsmAdded(l, t) ==
  /\ fsms[l].thread = "none"
  /\ fsms' = [fsms EXCEPT ![l] = Fsm(t)]
  /\ UNCHANGED objects

ModuleAdded(l) ==
  /\ l \in Numeric
  /\ fsms[l].thread = "none"
  /\ fsms' = [fsms EXCEPT ![l] = Fsm("running")]
  /\ objects[ModuleId(Number[l])] = None
  /\ objects' = [objects EXCEPT ![ModuleId(Number[l])] = l]

(* The interface may have been there.                                      *)
InterfaceAdded(l, n, p) ==
  /\ n >= 0
  /\ objects[ModuleId(n)] = l
  /\ fsms' = SetInterfaces(l, fsms[l].attached \cup {p})
  /\ objects' = [objects EXCEPT ![InterfaceId(n, p)] = IF @ = None THEN l ELSE @]

ModuleDropped(l, n) ==
  /\ objects[ModuleId(n)] = l
  /\ fsms[l].attached = {}
  /\ fsms' = [fsms EXCEPT ![l] = NoFsm]
  /\ objects' = [objects EXCEPT ![ModuleId(n)] = None]

InterfaceDropped(l, n, p) ==
  /\ objects[ModuleId(n)] = l
  /\ objects[InterfaceId(n, p)] # None
  /\ fsms' = SetInterfaces(l, fsms[l].attached \ {p})
  /\ objects' = [objects EXCEPT ![InterfaceId(n, p)] = None]

Changed ==
  \/ Kept
  \/ \E l \in Location :
       \/ \E t \in {"created", "failed", "running"} : FsmAdded(l, t)
       \/ ModuleAdded(l)
       \/ \E n \in ModuleNumber : ModuleDropped(l, n)
       \/ \E n \in ModuleNumber, p \in Interface :
            InterfaceAdded(l, n, p) \/ InterfaceDropped(l, n, p)

(* A removal is one of these.                                              *)
LEMMA RemoveChanges ==
  ASSUME TypeOK, NEW id \in ObjectId, RemoveObject(id)
  PROVE  Changed
<1>1. id.module \in ModuleNumber
  BY Ids
<1>2. \/ \E l \in Location : ModuleDropped(l, id.module)
      \/ /\ id.part \in Interface
         /\ \E l \in Location : InterfaceDropped(l, id.module, id.part)
      \/ Kept
  <2>1. CASE id = ModuleId(id.module)
    <3>1. id.part \notin Interface
      BY <2>1, Parts DEF ModuleId
    <3> QED
      BY <2>1, <3>1, RemoveFacts DEF Kept, ModuleDropped
  <2>2. CASE id # ModuleId(id.module)
    <3>1. id.part \in Interface /\ id = InterfaceId(id.module, id.part)
      BY <2>2, Ids
    <3> QED
      BY <2>2, <3>1, RemoveFacts DEF Kept, InterfaceDropped
  <2> QED
    BY <2>1, <2>2
<1> QED
  BY <1>1, <1>2 DEF Changed

(* Every step is one of these, except for the end of the destructor.       *)
LEMMA NextChanges == TypeOK /\ [Next]_vars /\ ~DestroyEnd => Changed
<1> SUFFICES ASSUME TypeOK, [Next]_vars, ~DestroyEnd
             PROVE  Changed
  OBVIOUS
<1>1. CASE Kept
  BY <1>1 DEF Changed
<1>2. CASE \/ Initialize \/ InitializeAgain \/ CallUninitialized \/ CreateNowhere
           \/ Uninitialize \/ DestroyAgain \/ DestroyAborts \/ UNCHANGED vars
  BY <1>1, <1>2 DEF Initialize, InitializeAgain, CallUninitialized, CreateNowhere,
     Uninitialize, DestroyAgain, DestroyAborts, Refuse, Kept, vars
<1>3. ASSUME NEW l \in Location, CreateKnown(l)
      PROVE  Changed
  BY <1>1, <1>3 DEF CreateKnown, Refuse, Kept
<1>4. ASSUME NEW l \in Location, CreateFails(l)
      PROVE  Changed
  BY <1>4 DEF CreateFails, Known, Changed, FsmAdded
<1>5. ASSUME NEW l \in Location, CreateModule(l)
      PROVE  Changed
  <2>1. l \in Numeric
    BY <1>5 DEF CreateModule, ModuleFault
  <2>2. /\ fsms[l].thread = "none"
        /\ fsms' = [fsms EXCEPT ![l] = Fsm("running")]
        /\ Enter(ModuleId(Number[l]), l)
    BY <1>5 DEF CreateModule, Known
  <2>3. CASE objects[ModuleId(Number[l])] # None
    <3>1. FsmAdded(l, "running")
      BY <2>2, <2>3 DEF Enter, FsmAdded
    <3> QED
      BY <3>1 DEF Changed
  <2>4. CASE objects[ModuleId(Number[l])] = None
    <3>1. ModuleAdded(l)
      BY <2>1, <2>2, <2>4 DEF Enter, ModuleAdded
    <3> QED
      BY <3>1 DEF Changed
  <2> QED
    BY <2>3, <2>4
<1>6. ASSUME NEW l \in Location, NEW accepted \in BOOLEAN, CreateThrows(l, accepted)
      PROVE  Changed
  BY <1>6 DEF CreateThrows, Known, Changed, FsmAdded
<1>7. ASSUME NEW id \in ObjectId, Remove(id) \/ DestroyNext(id)
      PROVE  Changed
  BY <1>7, RemoveChanges DEF Remove, DestroyNext
<1>8. ASSUME NEW id \in ObjectId, NEW filter \in {"module", "netif", "hostif"},
             Access(id, filter)
      PROVE  Changed
  BY <1>1, <1>8 DEF Access, Refuse, Kept
<1>9. ASSUME NEW id \in ObjectId, NEW type \in {"netif", "hostif"}, NEW index \in Index,
             CreateInterface(id, type, index)
      PROVE  Changed
  <2>1. id.module \in ModuleNumber /\ id.module \in Int
    BY Ids
  <2>2. TypeField(id) = "module"
    BY <1>9 DEF CreateInterface, InterfaceFault
  <2>3. id.module >= 0
    BY <2>1, <2>2 DEF TypeField
  <2>4. /\ <<type, index>> \in Interface
        /\ objects[id] \in Location
        /\ InterfaceAdded(objects[id], id.module, <<type, index>>)
    BY <1>9, <2>3, CreateInterfaceFacts DEF InterfaceAdded
  <2> QED
    BY <2>1, <2>4 DEF Changed
<1>10. ASSUME NEW id \in ObjectId, NEW type \in {"netif", "hostif"}, NEW index \in Index,
              NEW accepted \in BOOLEAN, CreateRefused(id, type, index, accepted)
       PROVE  Changed
  BY <1>1, <1>10 DEF CreateRefused, Refuse, Kept
<1> QED
  BY <1>2, <1>3, <1>4, <1>5, <1>6, <1>7, <1>8, <1>9, <1>10 DEF Next

-----------------------------------------------------------------------------
(***************************************************************************)
(* The inductive invariant: the two invariants of the run need each other, *)
(* and an id of an interface holds a proper module number.                 *)
(***************************************************************************)
InterfacesAreProper ==
  \A n \in ModuleNumber : \A p \in Interface :
    objects[InterfaceId(n, p)] # None => n >= 0

(* In the destructor, an interface is still to be removed in this pass.    *)
InterfacesGoFirst ==
  platform = "destroying" =>
    \A n \in ModuleNumber : \A p \in Interface :
      objects[InterfaceId(n, p)] # None => pass = 1 /\ InterfaceId(n, p) \in left

(* ObjectHasFsm by kind of object.                                         *)
ModuleHasFsm ==
  \A n \in ModuleNumber : objects[ModuleId(n)] # None =>
    /\ objects[ModuleId(n)] \in Numeric
    /\ Number[objects[ModuleId(n)]] = n
    /\ fsms[objects[ModuleId(n)]].thread = "running"

InterfaceHasModule ==
  \A n \in ModuleNumber : \A p \in Interface :
    objects[InterfaceId(n, p)] # None =>
      objects[ModuleId(n)] = objects[InterfaceId(n, p)]

Consistent ==
  /\ ModuleHasFsm
  /\ InterfaceHasModule
  /\ InterfacesAreProper
  /\ AttachedIsRegistered

IInv == TypeOK /\ Consistent /\ InterfacesGoFirst

(* The ids of different objects differ.                                    *)
LEMMA DistinctIds ==
  /\ \A m, n : ModuleId(m) = ModuleId(n) => m = n
  /\ \A m, n, p, q : InterfaceId(m, p) = InterfaceId(n, q) => m = n /\ p = q
  /\ \A m, n : \A p \in Interface : ModuleId(m) # InterfaceId(n, p)
BY Parts DEF ModuleId, InterfaceId

LEMMA ChangedConsistent ==
  ASSUME TypeOK, TypeOK', Consistent, Changed
  PROVE  Consistent'
<1> USE DEF Consistent
<1>0. /\ NoFsm.attached = {}
      /\ \A t \in {"created", "failed", "running"} : Fsm(t).attached = {} /\ Fsm(t).thread = t
      /\ Numeric \subseteq Location
      /\ \A l \in Numeric : Number[l] \in ModuleNumber
      /\ None \notin Location
  BY RegistryAssumption DEF NoFsm, Fsm, ModuleNumber
<1>1. CASE Kept
  BY <1>1 DEF Kept, ModuleHasFsm, InterfaceHasModule, InterfacesAreProper, AttachedIsRegistered
<1>2. ASSUME NEW l \in Location, NEW t \in {"created", "failed", "running"}, FsmAdded(l, t)
      PROVE  Consistent'
  <2>1. \A n \in ModuleNumber : objects[ModuleId(n)] # l
    BY <1>0, <1>2 DEF FsmAdded, ModuleHasFsm
  <2>2. \A n \in ModuleNumber : \A p \in Interface : objects[InterfaceId(n, p)] # l
    BY <1>0, <2>1 DEF InterfaceHasModule
  <2>3. fsms' = [fsms EXCEPT ![l] = Fsm(t)] /\ objects' = objects
    BY <1>2 DEF FsmAdded
  <2>4. fsms'[l].attached = {} /\ \A k \in Location \ {l} : fsms'[k] = fsms[k]
    BY <1>0, <2>3 DEF TypeOK
  <2>5. ModuleHasFsm'
    BY <1>0, <2>1, <2>3, <2>4 DEF ModuleHasFsm
  <2>6. InterfaceHasModule' /\ InterfacesAreProper'
    BY <2>3 DEF InterfaceHasModule, InterfacesAreProper
  <2>7. AttachedIsRegistered'
    BY <1>0, <2>2, <2>3, <2>4 DEF AttachedIsRegistered
  <2> QED
    BY <2>5, <2>6, <2>7
<1>3. ASSUME NEW l \in Location, ModuleAdded(l)
      PROVE  Consistent'
  <2> DEFINE m == Number[l]
  <2>1. /\ l \in Numeric /\ m \in ModuleNumber
        /\ objects[ModuleId(m)] = None
        /\ objects' = [objects EXCEPT ![ModuleId(m)] = l]
        /\ fsms' = [fsms EXCEPT ![l] = Fsm("running")]
    BY <1>0, <1>3 DEF ModuleAdded
  <2>2. \A n \in ModuleNumber : objects[ModuleId(n)] # l
    BY <1>0, <1>3 DEF ModuleAdded, ModuleHasFsm
  <2>3. \A p \in Interface : objects[InterfaceId(m, p)] = None
    BY <1>0, <2>1 DEF InterfaceHasModule
  <2>4. /\ objects'[ModuleId(m)] = l
        /\ \A n \in ModuleNumber \ {m} : objects'[ModuleId(n)] = objects[ModuleId(n)]
        /\ \A n \in ModuleNumber : \A p \in Interface :
             objects'[InterfaceId(n, p)] = objects[InterfaceId(n, p)]
    BY <2>1, Ids, DistinctIds DEF TypeOK
  <2>5. /\ fsms'[l].attached = {} /\ fsms'[l].thread = "running"
        /\ \A k \in Location \ {l} : fsms'[k] = fsms[k]
    BY <1>0, <2>1 DEF TypeOK
  <2>6. ModuleHasFsm'
    BY <1>0, <2>1, <2>2, <2>4, <2>5 DEF ModuleHasFsm
  <2>7. InterfaceHasModule' /\ InterfacesAreProper'
    BY <2>3, <2>4 DEF InterfaceHasModule, InterfacesAreProper
  <2>8. \A n \in ModuleNumber : \A p \in Interface : objects[InterfaceId(n, p)] # l
    BY <1>0, <2>2 DEF InterfaceHasModule
  <2>9. AttachedIsRegistered'
    BY <1>0, <2>4, <2>5, <2>8 DEF AttachedIsRegistered
  <2> QED
    BY <2>6, <2>7, <2>9
<1>4. ASSUME NEW l \in Location, NEW m \in ModuleNumber, NEW q \in Interface,
             InterfaceAdded(l, m, q)
      PROVE  Consistent'
  <2>1. /\ objects[ModuleId(m)] = l
        /\ m >= 0
        /\ fsms' = SetInterfaces(l, fsms[l].attached \cup {q})
        /\ objects' = [objects EXCEPT ![InterfaceId(m, q)] = IF @ = None THEN l ELSE @]
    BY <1>4 DEF InterfaceAdded
  <2>2. l \in Numeric /\ Number[l] = m
    BY <1>0, <2>1 DEF ModuleHasFsm
  <2>3. objects'[InterfaceId(m, q)] = l
    BY <1>0, <2>1, Ids DEF InterfaceHasModule, TypeOK
  <2>4. /\ \A n \in ModuleNumber : objects'[ModuleId(n)] = objects[ModuleId(n)]
        /\ \A n \in ModuleNumber : \A p \in Interface :
             (n = m /\ p = q) \/ objects'[InterfaceId(n, p)] = objects[InterfaceId(n, p)]
    BY <2>1, Ids, DistinctIds DEF TypeOK, ModuleId, InterfaceId
  <2>5. fsms[l].attached \cup {q} \in SUBSET Interface
    BY DEF TypeOK, FsmType
  <2>6. /\ fsms'[l].attached = fsms[l].attached \cup {q}
        /\ fsms'[l].thread = fsms[l].thread
        /\ \A k \in Location \ {l} : fsms'[k] = fsms[k]
    BY <2>1, <2>5, SetInterfacesFacts
  <2>7. ModuleHasFsm'
    BY <1>0, <2>4, <2>6 DEF ModuleHasFsm
  <2>8. InterfaceHasModule' /\ InterfacesAreProper'
    BY <2>1, <2>3, <2>4 DEF InterfaceHasModule, InterfacesAreProper
  <2>9. ASSUME NEW k \in Location, NEW p \in Interface
        PROVE  (p \in fsms[k].attached <=>
                  k \in Numeric /\ objects[InterfaceId(Number[k], p)] = k)'
    <3>1. p \in fsms[k].attached <=>
            k \in Numeric /\ objects[InterfaceId(Number[k], p)] = k
      BY DEF AttachedIsRegistered
    <3>2. CASE k = l
      BY <1>0, <2>2, <2>3, <2>4, <2>6, <3>1, <3>2
    <3>3. CASE k # l
      <4>1. k \in Numeric =>
              (objects'[InterfaceId(Number[k], p)] = k <=> objects[InterfaceId(Number[k], p)] = k)
        BY <1>0, <2>1, <2>3, <2>4, <3>3 DEF InterfaceHasModule
      <4> QED
        BY <2>6, <3>1, <3>3, <4>1
    <3> QED
      BY <3>2, <3>3
  <2> QED
    BY <2>7, <2>8, <2>9 DEF AttachedIsRegistered
<1>5. ASSUME NEW l \in Location, NEW m \in ModuleNumber, ModuleDropped(l, m)
      PROVE  Consistent'
  <2>1. /\ objects[ModuleId(m)] = l
        /\ fsms[l].attached = {}
        /\ fsms' = [fsms EXCEPT ![l] = NoFsm]
        /\ objects' = [objects EXCEPT ![ModuleId(m)] = None]
    BY <1>5 DEF ModuleDropped
  <2>2. l \in Numeric /\ Number[l] = m
    BY <1>0, <2>1 DEF ModuleHasFsm
  <2>3. \A p \in Interface : objects[InterfaceId(m, p)] = None
    BY <1>0, <2>1, <2>2 DEF AttachedIsRegistered, InterfaceHasModule
  <2>4. /\ objects'[ModuleId(m)] = None
        /\ \A n \in ModuleNumber \ {m} : objects'[ModuleId(n)] = objects[ModuleId(n)]
        /\ \A n \in ModuleNumber : \A p \in Interface :
             objects'[InterfaceId(n, p)] = objects[InterfaceId(n, p)]
    BY <2>1, Ids, DistinctIds DEF TypeOK
  <2>5. fsms'[l].attached = {} /\ \A k \in Location \ {l} : fsms'[k] = fsms[k]
    BY <1>0, <2>1 DEF TypeOK
  <2>6. ModuleHasFsm'
    BY <1>0, <2>2, <2>4, <2>5 DEF ModuleHasFsm
  <2>7. InterfaceHasModule' /\ InterfacesAreProper'
    BY <2>3, <2>4 DEF InterfaceHasModule, InterfacesAreProper
  <2>8. AttachedIsRegistered'
    BY <1>0, <2>1, <2>4, <2>5 DEF AttachedIsRegistered
  <2> QED
    BY <2>6, <2>7, <2>8
<1>6. ASSUME NEW l \in Location, NEW m \in ModuleNumber, NEW q \in Interface,
             InterfaceDropped(l, m, q)
      PROVE  Consistent'
  <2>1. /\ objects[ModuleId(m)] = l
        /\ objects[InterfaceId(m, q)] # None
        /\ fsms' = SetInterfaces(l, fsms[l].attached \ {q})
        /\ objects' = [objects EXCEPT ![InterfaceId(m, q)] = None]
    BY <1>6 DEF InterfaceDropped
  <2>2. l \in Numeric /\ Number[l] = m
    BY <1>0, <2>1 DEF ModuleHasFsm
  <2>3. objects'[InterfaceId(m, q)] = None
    BY <2>1, Ids DEF TypeOK
  <2>4. /\ \A n \in ModuleNumber : objects'[ModuleId(n)] = objects[ModuleId(n)]
        /\ \A n \in ModuleNumber : \A p \in Interface :
             (n = m /\ p = q) \/ objects'[InterfaceId(n, p)] = objects[InterfaceId(n, p)]
    BY <2>1, Ids, DistinctIds DEF TypeOK, ModuleId, InterfaceId
  <2>5. fsms[l].attached \ {q} \in SUBSET Interface
    BY DEF TypeOK, FsmType
  <2>6. /\ fsms'[l].attached = fsms[l].attached \ {q}
        /\ fsms'[l].thread = fsms[l].thread
        /\ \A k \in Location \ {l} : fsms'[k] = fsms[k]
    BY <2>1, <2>5, SetInterfacesFacts
  <2>7. ModuleHasFsm'
    BY <1>0, <2>4, <2>6 DEF ModuleHasFsm
  <2>8. InterfaceHasModule' /\ InterfacesAreProper'
    BY <2>3, <2>4 DEF InterfaceHasModule, InterfacesAreProper
  <2>9. ASSUME NEW k \in Location, NEW p \in Interface
        PROVE  (p \in fsms[k].attached <=>
                  k \in Numeric /\ objects[InterfaceId(Number[k], p)] = k)'
    <3>1. p \in fsms[k].attached <=>
            k \in Numeric /\ objects[InterfaceId(Number[k], p)] = k
      BY DEF AttachedIsRegistered
    <3>2. CASE k = l
      BY <1>0, <2>2, <2>3, <2>4, <2>6, <3>1, <3>2
    <3>3. CASE k # l
      <4>1. k \in Numeric =>
              (objects'[InterfaceId(Number[k], p)] = k <=> objects[InterfaceId(Number[k], p)] = k)
        BY <1>0, <2>1, <2>3, <2>4, <3>3 DEF InterfaceHasModule
      <4> QED
        BY <2>6, <3>1, <3>3, <4>1
    <3> QED
      BY <3>2, <3>3
  <2> QED
    BY <2>7, <2>8, <2>9 DEF AttachedIsRegistered
<1> QED
  BY <1>1, <1>2, <1>3, <1>4, <1>5, <1>6 DEF Changed

(* The removal of a registered interface is not refused.                   *)
LEMMA InterfaceRemoved ==
  ASSUME TypeOK, Consistent, NEW id \in ObjectId, id.part \in Interface,
         objects[id] # None, RemoveObject(id)
  PROVE  objects' = [objects EXCEPT ![id] = None]
<1> DEFINE l == objects[ModuleId(id.module)]
<1>1. id.module \in ModuleNumber /\ id.module \in Int /\ id = InterfaceId(id.module, id.part)
  BY Ids, Parts
<1>2. l = objects[id] /\ l # None /\ id.module >= 0
  BY <1>1 DEF Consistent, InterfaceHasModule, InterfacesAreProper
<1>3. l \in Numeric /\ Number[l] = id.module
  BY <1>1, <1>2 DEF Consistent, ModuleHasFsm
<1>4. id.part \in fsms[l].attached
  BY <1>1, <1>2, <1>3, RegistryAssumption DEF Consistent, AttachedIsRegistered
<1>5. TypeField(id) \in {"netif", "hostif"}
  BY <1>1, <1>2, Parts DEF TypeField
<1>6. get_object_type(id) = TypeField(id) /\ get_module_id(id) = ModuleId(id.module)
  BY <1>2, <1>5 DEF get_object_type, get_module_id
<1>7. ModuleId(id.module) # None
  BY <1>1, Ids, NoneAssumption
<1>8. RemoveFault(id) = "none"
  BY <1>2, <1>4, <1>5, <1>6, <1>7 DEF RemoveFault
<1>9. RemoveModule(id) \/ RemoveInterface(id)
  BY <1>8 DEF RemoveObject, RemoveRefused
<1> QED
  BY <1>9 DEF RemoveModule, RemoveInterface, Drop

LEMMA NextInterfacesGoFirst ==
  TypeOK /\ Consistent /\ InterfacesGoFirst /\ [Next]_vars => InterfacesGoFirst'
<1> SUFFICES ASSUME TypeOK, Consistent, InterfacesGoFirst, [Next]_vars,
                    platform' = "destroying",
                    NEW n \in ModuleNumber, NEW p \in Interface,
                    objects'[InterfaceId(n, p)] # None
             PROVE  pass' = 1 /\ InterfaceId(n, p) \in left'
  BY DEF InterfacesGoFirst
<1> DEFINE x == InterfaceId(n, p)
<1>0. x \in ObjectId /\ x.part = p
  BY Ids DEF InterfaceId
<1>1. CASE Uninitialize
  BY <1>0, <1>1 DEF Uninitialize, Registered
<1>2. ASSUME NEW id \in ObjectId, DestroyNext(id)
      PROVE  pass' = 1 /\ x \in left'
  <2>1. platform = "destroying" /\ pass' = pass /\ left' = left \ {id} /\ RemoveObject(id)
    BY <1>2 DEF DestroyNext
  <2>2. objects' = objects \/ objects' = [objects EXCEPT ![id] = None]
    BY <2>1, RemoveFacts
  <2>3. objects[x] # None
    BY <1>0, <2>2 DEF TypeOK
  <2>4. pass = 1 /\ x \in left
    BY <2>1, <2>3 DEF InterfacesGoFirst
  <2>5. x # id
    <3> SUFFICES ASSUME x = id PROVE FALSE
      OBVIOUS
    <3>1. objects' = [objects EXCEPT ![id] = None]
      BY <1>0, <2>1, <2>3, InterfaceRemoved
    <3> QED
      BY <3>1 DEF TypeOK
  <2> QED
    BY <2>1, <2>4, <2>5
<1>3. CASE DestroyAgain
  BY <1>3 DEF DestroyAgain, InterfacesGoFirst
<1>4. CASE UNCHANGED vars
  BY <1>4 DEF vars, InterfacesGoFirst
<1>5. ASSUME Next, ~Uninitialize, ~DestroyAgain, \A id \in ObjectId : ~DestroyNext(id)
      PROVE  FALSE
  BY <1>5 DEF Next, Initialize, InitializeAgain, CallUninitialized, CreateNowhere, CreateKnown,
     CreateFails, CreateModule, CreateThrows, Remove, Access, CreateInterface, CreateRefused,
     DestroyEnd, DestroyAborts, Refuse, Accepting
<1> QED
  BY <1>1, <1>2, <1>3, <1>4, <1>5

LEMMA NextConsistent == TypeOK /\ Consistent /\ [Next]_vars => Consistent'
<1> SUFFICES ASSUME TypeOK, Consistent, [Next]_vars
             PROVE  Consistent'
  OBVIOUS
<1>1. CASE DestroyEnd
  <2>1. /\ \A id \in ObjectId : objects'[id] = None
        /\ \A l \in Location : fsms'[l].attached = {}
    BY <1>1 DEF DestroyEnd, NoFsm
  <2>2. /\ \A n \in ModuleNumber : objects'[ModuleId(n)] = None
        /\ \A n \in ModuleNumber : \A p \in Interface : objects'[InterfaceId(n, p)] = None
    BY <2>1, Ids
  <2>3. AttachedIsRegistered'
    BY <2>1, <2>2, RegistryAssumption DEF AttachedIsRegistered, ModuleNumber
  <2> QED
    BY <2>2, <2>3 DEF Consistent, ModuleHasFsm, InterfaceHasModule, InterfacesAreProper
<1>2. CASE ~DestroyEnd
  BY <1>2, NextChanges, NextTypeOK, ChangedConsistent
<1> QED
  BY <1>1, <1>2

(* The inductive invariant holds in every reachable state.                 *)
THEOREM InductiveInvariant == Spec => []IInv
<1>1. Init => IInv
  <2> SUFFICES ASSUME Init PROVE IInv
    OBVIOUS
  <2>1. TypeOK /\ InterfacesGoFirst
    BY DEF Init, TypeOK, NoFsm, FsmType, Status, InterfacesGoFirst
  <2>2. /\ \A n \in ModuleNumber : objects[ModuleId(n)] = None
        /\ \A n \in ModuleNumber : \A p \in Interface : objects[InterfaceId(n, p)] = None
    BY Ids DEF Init
  <2>3. AttachedIsRegistered
    BY <2>2, RegistryAssumption DEF Init, NoFsm, AttachedIsRegistered, ModuleNumber
  <2> QED
    BY <2>1, <2>2, <2>3 DEF IInv, Consistent, ModuleHasFsm, InterfaceHasModule, InterfacesAreProper
<1>2. IInv /\ [Next]_vars => IInv'
  BY NextTypeOK, NextConsistent, NextInterfacesGoFirst DEF IInv
<1> QED
  BY <1>1, <1>2, PTL DEF Spec

(* The FSM that a getter, a setter, a creation or a removal reaches through*)
(* an object's id is there and running, for all objects and locations.     *)
THEOREM ObjectHasFsmCorrect == Spec => []ObjectHasFsm
<1>1. IInv => ObjectHasFsm
  <2> SUFFICES ASSUME IInv, NEW id \in ObjectId, objects[id] # None
               PROVE  /\ objects[id] \in Numeric
                      /\ Number[objects[id]] = id.module
                      /\ fsms[objects[id]].thread = "running"
                      /\ objects[ModuleId(id.module)] = objects[id]
    BY DEF ObjectHasFsm
  <2>1. CASE id.part = Self
    BY <2>1, Ids DEF IInv, Consistent, ModuleHasFsm
  <2>2. CASE id.part # Self
    <3>1. objects[ModuleId(id.module)] = objects[id]
      BY <2>2, Ids DEF IInv, Consistent, InterfaceHasModule
    <3> QED
      BY <3>1, Ids DEF IInv, Consistent, ModuleHasFsm
  <2> QED
    BY <2>1, <2>2
<1> QED
  BY <1>1, InductiveInvariant, PTL

(* An FSM knows exactly the interfaces that are registered on its module.  *)
THEOREM AttachedCorrect == Spec => []AttachedIsRegistered
<1>1. IInv => AttachedIsRegistered
  BY DEF IInv, Consistent
<1> QED
  BY <1>1, InductiveInvariant, PTL

-----------------------------------------------------------------------------
(***************************************************************************)
(* The destructor.  Only a location with a number gets a thread, and in    *)
(* the second pass, with the interfaces gone, a module is still ahead.     *)
(***************************************************************************)
RunningIsNumeric == \A l \in Location : fsms[l].thread = "running" => l \in Numeric

ModulesGoSecond ==
  platform = "destroying" /\ pass = 2 =>
    \A n \in ModuleNumber : n >= 0 /\ objects[ModuleId(n)] # None => ModuleId(n) \in left

LEMMA NextRunning ==
  ASSUME TypeOK, RunningIsNumeric, [Next]_vars
  PROVE  RunningIsNumeric'
<1> USE DEF TypeOK, FsmType, RunningIsNumeric
<1>1. ASSUME NEW l \in Location,
             CreateFails(l) \/ CreateModule(l) \/ \E accepted \in BOOLEAN : CreateThrows(l, accepted)
      PROVE  RunningIsNumeric'
  BY <1>1 DEF CreateFails, CreateModule, CreateThrows, ModuleFault, Fsm
<1>2. ASSUME NEW mid \in ObjectId, NEW type \in {"netif", "hostif"}, NEW index \in Index,
             CreateInterface(mid, type, index)
      PROVE  RunningIsNumeric'
  <2>1. fsms' = SetInterfaces(objects[mid], fsms[objects[mid]].attached \cup {<<type, index>>})
    BY <1>2 DEF CreateInterface
  <2> QED
    BY <2>1 DEF SetInterfaces
<1>3. ASSUME NEW id \in ObjectId, RemoveObject(id)
      PROVE  RunningIsNumeric'
  BY <1>3, RemoveFacts DEF SetInterfaces, NoFsm
<1>4. CASE DestroyEnd
  BY <1>4 DEF DestroyEnd, NoFsm
<1>5. CASE UNCHANGED fsms
  BY <1>5
<1> QED
  BY <1>1, <1>2, <1>3, <1>4, <1>5 DEF Next, vars, Initialize, InitializeAgain,
     CallUninitialized, CreateNowhere, CreateKnown, Remove, DestroyNext, Access,
     CreateRefused, Refuse, Uninitialize, DestroyAgain, DestroyAborts

(* Without interfaces the removal of a registered module is not refused.   *)
LEMMA ModuleRemoved ==
  ASSUME TypeOK, Consistent, NEW n \in ModuleNumber, n >= 0, objects[ModuleId(n)] # None,
         \A p \in Interface : objects[InterfaceId(n, p)] = None,
         RemoveObject(ModuleId(n))
  PROVE  objects' = [objects EXCEPT ![ModuleId(n)] = None]
<1> DEFINE id == ModuleId(n)
           l == objects[id]
<1>1. id \in ObjectId /\ id.module = n /\ id.part = Self
  BY Ids DEF ModuleId
<1>2. l \in Numeric /\ Number[l] = n /\ l \in Location
  BY <1>1, RegistryAssumption DEF Consistent, ModuleHasFsm, TypeOK
<1>3. fsms[l].attached = {}
  <2>1. \A p \in Interface : p \notin fsms[l].attached
    BY <1>2, RegistryAssumption DEF Consistent, AttachedIsRegistered
  <2> QED
    BY <1>2, <2>1 DEF TypeOK, FsmType
<1>4. n \in Int
  BY <1>1, Ids
<1>5. TypeField(id) = "module"
  BY <1>1, <1>4, Parts DEF TypeField
<1>6. RemoveFault(id) = "none"
  BY <1>3, <1>5 DEF RemoveFault, get_object_type, InUse
<1>7. RemoveModule(id) \/ RemoveInterface(id)
  BY <1>6 DEF RemoveObject, RemoveRefused
<1> QED
  BY <1>7 DEF RemoveModule, RemoveInterface, Drop

LEMMA NextModulesGoSecond ==
  TypeOK /\ Consistent /\ InterfacesGoFirst /\ ModulesGoSecond /\ [Next]_vars => ModulesGoSecond'
<1> SUFFICES ASSUME TypeOK, Consistent, InterfacesGoFirst, ModulesGoSecond, [Next]_vars,
                    platform' = "destroying", pass' = 2,
                    NEW n \in ModuleNumber, n >= 0, objects'[ModuleId(n)] # None
             PROVE  ModuleId(n) \in left'
  BY DEF ModulesGoSecond
<1> DEFINE x == ModuleId(n)
<1>0. x \in ObjectId
  BY Ids
<1>1. CASE DestroyAgain
  BY <1>0, <1>1 DEF DestroyAgain, Registered
<1>2. ASSUME NEW id \in ObjectId, DestroyNext(id)
      PROVE  x \in left'
  <2>1. platform = "destroying" /\ pass = 2 /\ left' = left \ {id} /\ RemoveObject(id)
    BY <1>2 DEF DestroyNext
  <2>2. objects' = objects \/ objects' = [objects EXCEPT ![id] = None]
    BY <2>1, RemoveFacts
  <2>3. objects[x] # None
    BY <1>0, <2>2 DEF TypeOK
  <2>4. x \in left
    BY <2>1, <2>3 DEF ModulesGoSecond
  <2>5. x # id
    <3> SUFFICES ASSUME x = id PROVE FALSE
      OBVIOUS
    <3>1. \A p \in Interface : objects[InterfaceId(n, p)] = None
      BY <2>1 DEF InterfacesGoFirst
    <3>2. objects' = [objects EXCEPT ![x] = None]
      BY <2>1, <2>3, <3>1, ModuleRemoved
    <3> QED
      BY <1>0, <3>2 DEF TypeOK
  <2> QED
    BY <2>1, <2>4, <2>5
<1>3. CASE Uninitialize
  BY <1>3 DEF Uninitialize
<1>4. CASE UNCHANGED vars
  BY <1>4 DEF vars, ModulesGoSecond
<1>5. ASSUME Next, ~Uninitialize, ~DestroyAgain, \A id \in ObjectId : ~DestroyNext(id)
      PROVE  FALSE
  BY <1>5 DEF Next, Initialize, InitializeAgain, CallUninitialized, CreateNowhere, CreateKnown,
     CreateFails, CreateModule, CreateThrows, Remove, Access, CreateInterface, CreateRefused,
     DestroyEnd, DestroyAborts, Refuse, Accepting
<1> QED
  BY <1>1, <1>2, <1>3, <1>4, <1>5

(* Two passes take down every module with an id and a proper number, for   *)
(* any number of modules and interfaces (basic.cpp:31-43).                 *)
THEOREM NotLeakedCorrect == Spec => NoModuleIsLeaked
<1>1. Init => RunningIsNumeric /\ ModulesGoSecond
  BY DEF Init, RunningIsNumeric, ModulesGoSecond, NoFsm
<1>2. IInv /\ RunningIsNumeric /\ ModulesGoSecond /\ [Next]_vars
        => (RunningIsNumeric /\ ModulesGoSecond)'
  BY NextRunning, NextModulesGoSecond DEF IInv
<1> DEFINE Leaked == \A l \in leaked' \ leaked :
                       Number[l] < 0 \/ objects[ModuleId(Number[l])] # l
<1>3. IInv /\ RunningIsNumeric /\ ModulesGoSecond /\ [Next]_vars => [Leaked]_vars
  <2> SUFFICES ASSUME IInv, RunningIsNumeric, ModulesGoSecond, [Next]_vars,
                      NEW l \in leaked' \ leaked
               PROVE  Number[l] < 0 \/ objects[ModuleId(Number[l])] # l
    OBVIOUS
  <2>1. CASE DestroyEnd
    <3>1. /\ platform = "destroying" /\ pass = 2 /\ left = {}
          /\ l \in Location /\ fsms[l].thread = "running"
      BY <2>1 DEF DestroyEnd, Passes
    <3>2. l \in Numeric /\ Number[l] \in ModuleNumber /\ Number[l] \in Int
      BY <3>1, RegistryAssumption DEF RunningIsNumeric, ModuleNumber
    <3>3. Number[l] < 0 \/ objects[ModuleId(Number[l])] = None
      BY <3>1, <3>2 DEF ModulesGoSecond
    <3> QED
      BY <3>1, <3>3, RegistryAssumption
  <2>2. CASE ~DestroyEnd
    BY <2>2 DEF vars, Next, Initialize, InitializeAgain, CallUninitialized, CreateNowhere,
       CreateKnown, CreateFails, CreateModule, CreateThrows, Remove, DestroyNext, Access,
       CreateInterface, CreateRefused, Refuse, Uninitialize, DestroyAgain, DestroyAborts
  <2> QED
    BY <2>1, <2>2
<1> QED
  BY <1>1, <1>2, <1>3, InductiveInvariant, PTL DEF Spec, NoModuleIsLeaked

-----------------------------------------------------------------------------
(***************************************************************************)
(* The registry implements ObjectTree.                                     *)
(***************************************************************************)
Modules == {n \in ModuleNumber : objects[ModuleId(n)] # None}

Interfaces == {x \in ModuleNumber \X Interface : objects[InterfaceId(x[1], x[2])] # None}

LEMMA InterfacesFacts ==
  /\ Interfaces \subseteq ModuleNumber \X Interface
  /\ \A n \in ModuleNumber : \A p \in Interface :
       <<n, p>> \in Interfaces <=> objects[InterfaceId(n, p)] # None
BY DEF Interfaces

LEMMA InterfacesFactsPrime ==
  /\ Interfaces' \subseteq ModuleNumber \X Interface
  /\ \A n \in ModuleNumber : \A p \in Interface :
       <<n, p>> \in Interfaces' <=> objects'[InterfaceId(n, p)] # None
BY DEF Interfaces

LEMMA ChangedImplements ==
  ASSUME TypeOK, Consistent, Changed
  PROVE  Tree!Next \/ UNCHANGED <<Modules, Interfaces>>
<1>0. None \notin Location
  BY RegistryAssumption
<1>1. CASE Kept
  BY <1>1 DEF Kept, Modules, Interfaces
<1>2. ASSUME NEW l \in Location, NEW t \in {"created", "failed", "running"}, FsmAdded(l, t)
      PROVE  UNCHANGED <<Modules, Interfaces>>
  BY <1>2 DEF FsmAdded, Modules, Interfaces
<1>3. ASSUME NEW l \in Location, ModuleAdded(l)
      PROVE  Tree!Next
  <2> DEFINE m == Number[l]
  <2>1. /\ m \in ModuleNumber
        /\ objects[ModuleId(m)] = None
        /\ objects' = [objects EXCEPT ![ModuleId(m)] = l]
    BY <1>3 DEF ModuleAdded, ModuleNumber
  <2>2. /\ objects'[ModuleId(m)] = l
        /\ \A n \in ModuleNumber \ {m} : objects'[ModuleId(n)] = objects[ModuleId(n)]
        /\ \A n \in ModuleNumber : \A p \in Interface :
             objects'[InterfaceId(n, p)] = objects[InterfaceId(n, p)]
    BY <2>1, Ids, DistinctIds DEF TypeOK
  <2>3. m \notin Modules /\ Modules' = Modules \cup {m}
    BY <1>0, <2>1, <2>2 DEF Modules
  <2>4. Interfaces' = Interfaces
    BY <2>2, InterfacesFacts, InterfacesFactsPrime
  <2>5. Tree!AddModule(m)
    BY <2>3, <2>4 DEF Tree!AddModule, Modules, Interfaces
  <2> QED
    BY <2>1, <2>5 DEF Tree!Next
<1>4. ASSUME NEW l \in Location, NEW m \in ModuleNumber, NEW q \in Interface,
             InterfaceAdded(l, m, q)
      PROVE  Tree!Next \/ UNCHANGED <<Modules, Interfaces>>
  <2>1. /\ objects[ModuleId(m)] = l
        /\ objects' = [objects EXCEPT ![InterfaceId(m, q)] = IF @ = None THEN l ELSE @]
    BY <1>4 DEF InterfaceAdded
  <2>2. /\ \A n \in ModuleNumber : objects'[ModuleId(n)] = objects[ModuleId(n)]
        /\ objects'[InterfaceId(m, q)] # None
        /\ \A n \in ModuleNumber : \A p \in Interface :
             (n = m /\ p = q) \/ objects'[InterfaceId(n, p)] = objects[InterfaceId(n, p)]
    BY <1>0, <2>1, Ids, DistinctIds DEF TypeOK
  <2>3. m \in Modules /\ Modules' = Modules
    BY <1>0, <2>1, <2>2 DEF Modules
  <2>4. Interfaces' = Interfaces \cup {<<m, q>>}
    BY <2>2, InterfacesFacts, InterfacesFactsPrime
  <2>5. CASE <<m, q>> \in Interfaces
    BY <2>3, <2>4, <2>5
  <2>6. CASE <<m, q>> \notin Interfaces
    <3>1. Tree!AddInterface(m, q)
      BY <2>3, <2>4, <2>6 DEF Tree!AddInterface, Modules, Interfaces
    <3> QED
      BY <3>1 DEF Tree!Next
  <2> QED
    BY <2>5, <2>6
<1>5. ASSUME NEW l \in Location, NEW m \in ModuleNumber, ModuleDropped(l, m)
      PROVE  Tree!Next
  <2>1. /\ objects[ModuleId(m)] = l
        /\ fsms[l].attached = {}
        /\ objects' = [objects EXCEPT ![ModuleId(m)] = None]
    BY <1>5 DEF ModuleDropped
  <2>2. l \in Numeric /\ Number[l] = m
    BY <1>0, <2>1 DEF Consistent, ModuleHasFsm
  <2>3. \A p \in Interface : objects[InterfaceId(m, p)] = None
    BY <2>1, <2>2 DEF Consistent, AttachedIsRegistered, InterfaceHasModule
  <2>4. /\ objects'[ModuleId(m)] = None
        /\ \A n \in ModuleNumber \ {m} : objects'[ModuleId(n)] = objects[ModuleId(n)]
        /\ \A n \in ModuleNumber : \A p \in Interface :
             objects'[InterfaceId(n, p)] = objects[InterfaceId(n, p)]
    BY <2>1, Ids, DistinctIds DEF TypeOK
  <2>5. m \in Modules /\ Modules' = Modules \ {m}
    BY <1>0, <2>1, <2>4 DEF Modules
  <2>6. Interfaces' = Interfaces /\ \A p \in Interface : <<m, p>> \notin Interfaces
    <3>1. Interfaces' = Interfaces
      BY <2>4, InterfacesFacts, InterfacesFactsPrime
    <3>2. \A p \in Interface : <<m, p>> \notin Interfaces
      BY <2>3, InterfacesFacts
    <3> QED
      BY <3>1, <3>2
  <2>7. Tree!DropModule(m)
    BY <2>5, <2>6 DEF Tree!DropModule, Tree!Bare, Modules, Interfaces
  <2> QED
    BY <2>7 DEF Tree!Next
<1>6. ASSUME NEW l \in Location, NEW m \in ModuleNumber, NEW q \in Interface,
             InterfaceDropped(l, m, q)
      PROVE  Tree!Next
  <2>1. /\ objects[InterfaceId(m, q)] # None
        /\ objects' = [objects EXCEPT ![InterfaceId(m, q)] = None]
    BY <1>6 DEF InterfaceDropped
  <2>2. /\ \A n \in ModuleNumber : objects'[ModuleId(n)] = objects[ModuleId(n)]
        /\ objects'[InterfaceId(m, q)] = None
        /\ \A n \in ModuleNumber : \A p \in Interface :
             (n = m /\ p = q) \/ objects'[InterfaceId(n, p)] = objects[InterfaceId(n, p)]
    BY <2>1, Ids, DistinctIds DEF TypeOK
  <2>3. Modules' = Modules
    BY <2>2 DEF Modules
  <2>4. <<m, q>> \in Interfaces /\ Interfaces' = Interfaces \ {<<m, q>>}
    BY <2>1, <2>2, InterfacesFacts, InterfacesFactsPrime
  <2>5. Tree!DropInterface(m, q)
    BY <2>3, <2>4 DEF Tree!DropInterface, Modules, Interfaces
  <2> QED
    BY <2>5 DEF Tree!Next
<1> QED
  BY <1>1, <1>2, <1>3, <1>4, <1>5, <1>6 DEF Changed

(* Every step of the registry is a step of the tree or leaves it alone: no *)
(* client sees an interface without its module.                            *)
THEOREM Implementation == Spec => ImplementsTree
<1>1. Init => Tree!Init
  <2> SUFFICES ASSUME Init PROVE Modules = {} /\ Interfaces = {}
    BY DEF Tree!Init, Modules, Interfaces
  <2>1. /\ \A n \in ModuleNumber : objects[ModuleId(n)] = None
        /\ \A n \in ModuleNumber : \A p \in Interface : objects[InterfaceId(n, p)] = None
    BY Ids DEF Init
  <2> QED
    BY <2>1, InterfacesFacts DEF Modules
<1>2. IInv /\ IInv' /\ [Next]_vars => [Tree!Next]_(Tree!treeVars)
  <2> SUFFICES ASSUME IInv, IInv', [Next]_vars
               PROVE  Tree!Next \/ UNCHANGED <<Modules, Interfaces>>
    BY DEF Tree!treeVars, Modules, Interfaces
  <2>1. CASE DestroyEnd
    <3>1. \A n \in ModuleNumber : \A p \in Interface : objects[InterfaceId(n, p)] = None
      BY <2>1 DEF DestroyEnd, IInv, InterfacesGoFirst
    <3>2. /\ \A n \in ModuleNumber : objects'[ModuleId(n)] = None
          /\ \A n \in ModuleNumber : \A p \in Interface : objects'[InterfaceId(n, p)] = None
      BY <2>1, Ids DEF DestroyEnd
    <3>3. Interfaces = {} /\ Interfaces' = {} /\ Modules' = {}
      BY <3>1, <3>2, InterfacesFacts, InterfacesFactsPrime DEF Modules
    <3>4. Tree!Clear
      BY <3>3 DEF Tree!Clear, Modules, Interfaces
    <3> QED
      BY <3>4 DEF Tree!Next
  <2>2. CASE ~DestroyEnd
    BY <2>2, NextChanges, ChangedImplements DEF IInv
  <2> QED
    BY <2>1, <2>2
<1> QED
  BY <1>1, <1>2, InductiveInvariant, PTL DEF Spec, ImplementsTree, Tree!Spec
=============================================================================
