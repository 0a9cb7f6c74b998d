------------------------------ MODULE Registry ------------------------------
(***************************************************************************)
(* The object registry of the framework's basic adapter: the C entry       *)
(* points of framework/tai.cpp over Platform of examples/basic/basic.cpp,  *)
(* with m_objects and m_fsms.  The TAI API is not thread-safe              *)
(* (framework/platform.hpp:72): a call is one step, except for the         *)
(* destructor of the platform, which is a sequence of removals.  What an   *)
(* FSM does between its creation and its removal is BasicModule's subject. *)
(***************************************************************************)
EXTENDS Integers

CONSTANTS
  Location,   \* the values of the LOCATION attribute a client may give
  Number,     \* std::stoi() of those locations that begin with a number
  Index,      \* the values of the INDEX attribute as an int, -1 for none
  NumModule,  \* BASIC_NUM_MODULE
  NumHostIf,  \* BASIC_NUM_HOSTIF
  None

Numeric == DOMAIN Number

ASSUME RegistryAssumption ==
  /\ Numeric \subseteq Location
  /\ Number \in [Numeric -> Int]
  /\ None \notin Location
  /\ Index \subseteq Int
  /\ NumModule \in Nat /\ NumHostIf \in Nat

(***************************************************************************)
(* An object id holds a type, the number of the module's location and, for *)
(* an interface, its index (examples/stub/stub.hpp:22-40).  There is one   *)
(* network interface per module, BASIC_NUM_NETIF.                          *)
(***************************************************************************)
NumNetIf == 1

Self == <<"module", 0>>

Interface == ({"netif"} \X (0..NumNetIf - 1)) \cup ({"hostif"} \X (0..NumHostIf - 1))

Part == Interface \cup {Self}

ModuleNumber == {Number[l] : l \in Numeric}

ObjectId == [module : ModuleNumber, part : Part]

ASSUME NoneAssumption == None \notin ObjectId

ModuleId(n) == [module |-> n, part |-> Self]

InterfaceId(n, p) == [module |-> n, part |-> p]

(* The type in the upper bits of an id.  A negative number is extended     *)
(* with ones over the type, and what is left names no type.                *)
TypeField(id) == IF id.module < 0 THEN "null" ELSE id.part[1]

(***************************************************************************)
(* An FSM in m_fsms: "created" but never started, "failed" if start() got  *)
(* no eventfd, "running" with its module attached.  attached are m_netif   *)
(* and m_hostif[], as far as they are set.                                 *)
(***************************************************************************)
FsmType == [thread : {"none", "created", "failed", "running"}, attached : SUBSET Interface]

NoFsm == [thread |-> "none", attached |-> {}]

Fsm(t) == [thread |-> t, attached |-> {}]

VARIABLES
  platform,  \* g_platform: "none", "up", "destroying", or "aborted" by it
  objects,   \* m_objects: the location of an object's FSM, or None
  fsms,      \* m_fsms
  left,      \* the ids the destructor has yet to remove in this pass
  pass,      \* the destructor's pass over the ids
  leaked,    \* the FSM threads, by location, the last destructor left running
  reply      \* the status of the last call, and the id it was about

vars == <<platform, objects, fsms, left, pass, leaked, reply>>

Status == {"none", "SUCCESS", "ANSWERED", "FAILURE", "UNINITIALIZED", "NOT_SUPPORTED",
           "ITEM_NOT_FOUND", "ITEM_ALREADY_EXISTS", "OBJECT_IN_USE",
           "INVALID_PARAMETER", "INVALID_OBJECT_ID",
           "MANDATORY_ATTRIBUTE_MISSING", "BAD_ATTRIBUTE"}

Registered == {id \in ObjectId : objects[id] # None}

TypeOK ==
  /\ platform \in {"none", "up", "destroying", "aborted"}
  /\ objects \in [ObjectId -> Location \cup {None}]
  /\ fsms \in [Location -> FsmType]
  /\ left \in SUBSET ObjectId
  /\ pass \in 0..2
  /\ leaked \in SUBSET Location
  /\ reply \in [status : Status, id : ObjectId \cup {None}]

Init ==
  /\ platform = "none"
  /\ objects = [id \in ObjectId |-> None]
  /\ fsms = [l \in Location |-> NoFsm]
  /\ left = {}
  /\ pass = 0
  /\ leaked = {}
  /\ reply = [status |-> "none", id |-> None]

(* m_netif and m_hostif[] of an FSM.                                       *)
SetInterfaces(l, ps) == [fsms EXCEPT ![l] = [thread |-> @.thread, attached |-> ps]]

Reply(status, id) == reply' = [status |-> status, id |-> id]

Refuse(status, id) ==
  /\ Reply(status, id)
  /\ UNCHANGED <<platform, objects, fsms, left, pass, leaked>>

Accepting == platform = "up"

Calling == platform \in {"none", "up"}

-----------------------------------------------------------------------------
(***************************************************************************)
(* tai_api_initialize(), and any call without a platform.                  *)
(***************************************************************************)
Initialize ==
  /\ platform = "none"
  /\ platform' = "up"
  /\ leaked' = {}
  /\ Reply("SUCCESS", None)
  /\ UNCHANGED <<objects, fsms, left, pass>>

InitializeAgain == Accepting /\ Refuse("FAILURE", None)

CallUninitialized == platform = "none" /\ Refuse("UNINITIALIZED", None)

-----------------------------------------------------------------------------
(***************************************************************************)
(* Platform::create() of a module.  The FSM is entered in m_fsms before    *)
(* the constructor of the module, which throws if Config does not accept   *)
(* the attributes, or for the location, and before start().                *)
(***************************************************************************)
CreateNowhere == Accepting /\ Refuse("MANDATORY_ATTRIBUTE_MISSING", None)

IdAt(l) == IF l \in Numeric THEN ModuleId(Number[l]) ELSE None

Known(l) == fsms[l].thread # "none"

CreateKnown(l) ==
  /\ Accepting
  /\ Known(l)
  /\ Refuse("ITEM_ALREADY_EXISTS", IdAt(l))

ModuleFault(l, accepted) ==
  IF ~accepted THEN "BAD_ATTRIBUTE"
  ELSE IF l \notin Numeric THEN "FAILURE"
  ELSE IF Number[l] >= NumModule THEN "INVALID_PARAMETER"
  ELSE "none"

CreateThrows(l, accepted) ==
  /\ Accepting
  /\ ~Known(l)
  /\ ModuleFault(l, accepted) # "none"
  /\ fsms' = [fsms EXCEPT ![l] = Fsm("created")]
  /\ Reply(ModuleFault(l, accepted), IdAt(l))
  /\ UNCHANGED <<platform, objects, left, pass, leaked>>

CreateFails(l) ==
  /\ Accepting
  /\ ~Known(l)
  /\ ModuleFault(l, TRUE) = "none"
  /\ fsms' = [fsms EXCEPT ![l] = Fsm("failed")]
  /\ Reply("FAILURE", IdAt(l))
  /\ UNCHANGED <<platform, objects, left, pass, leaked>>

(* Mutant of Enter: the id is not looked up.                               *)
EnterAnyway(id, l) ==
  Reply("SUCCESS", id) /\ objects' = [objects EXCEPT ![id] = l]

(* The thread runs and has the module before the id is looked up.          *)
Enter(id, l) ==
  IF objects[id] # None
  THEN Reply("ITEM_ALREADY_EXISTS", id) /\ UNCHANGED objects
  ELSE Reply("SUCCESS", id) /\ objects' = [objects EXCEPT ![id] = l]

CreateModule(l) ==
  /\ Accepting
  /\ ~Known(l)
  /\ ModuleFault(l, TRUE) = "none"
  /\ fsms' = [fsms EXCEPT ![l] = Fsm("running")]
  /\ Enter(ModuleId(Number[l]), l)
  /\ UNCHANGED <<platform, left, pass, leaked>>

-----------------------------------------------------------------------------
(***************************************************************************)
(* Platform::create() of an interface on the object mid.  set_netif() and  *)
(* set_hostif() keep an interface that is there, and nobody looks at what  *)
(* they return; the id is looked up afterwards.                            *)
(***************************************************************************)
NumOf(type) == IF type = "netif" THEN NumNetIf ELSE NumHostIf

InterfaceFault(mid, type, index, accepted) ==
  IF TypeField(mid) # "module" THEN "INVALID_OBJECT_ID"
  ELSE IF objects[mid] = None THEN "UNINITIALIZED"
  ELSE IF ~accepted THEN "BAD_ATTRIBUTE"
  ELSE IF index < 0 THEN "MANDATORY_ATTRIBUTE_MISSING"
  ELSE IF index >= NumOf(type) THEN "INVALID_PARAMETER"
  ELSE "none"

CreateRefused(mid, type, index, accepted) ==
  /\ Accepting
  /\ InterfaceFault(mid, type, index, accepted) # "none"
  /\ Refuse(InterfaceFault(mid, type, index, accepted), mid)

CreateInterface(mid, type, index) ==
  /\ Accepting
  /\ InterfaceFault(mid, type, index, TRUE) = "none"
  /\ LET l == objects[mid] IN
       /\ fsms' = SetInterfaces(l, fsms[l].attached \cup {<<type, index>>})
       /\ Enter(InterfaceId(mid.module, <<type, index>>), l)
  /\ UNCHANGED <<platform, left, pass, leaked>>

-----------------------------------------------------------------------------
(***************************************************************************)
(* Platform::remove().  remove_module(), remove_netif() and                *)
(* remove_hostif() return, as BasicModule shows; without its entry in      *)
(* m_fsms the FSM, which has ended, is destroyed.                          *)
(***************************************************************************)
get_object_type(id) == IF objects[id] = None THEN "null" ELSE TypeField(id)

get_module_id(id) ==
  IF get_object_type(id) = "null" \/ objects[ModuleId(id.module)] = None
  THEN None ELSE ModuleId(id.module)

(* Mutant of InUse: the host interfaces are forgotten.                     *)
InUseByNetIf(l) == <<"netif", 0>> \in fsms[l].attached

(* Mutant of Drop: the iterator of the inner block, the module's, is used. *)
DropModule(id) ==
  /\ objects' = [objects EXCEPT ![ModuleId(id.module)] = None]
  /\ Reply("SUCCESS", id)

Drop(id) ==
  /\ objects' = [objects EXCEPT ![id] = None]
  /\ Reply("SUCCESS", id)

InUse(l) == fsms[l].attached # {}

RemoveModule(id) ==
  /\ get_object_type(id) = "module"
  /\ ~InUse(objects[id])
  /\ fsms' = [fsms EXCEPT ![objects[id]] = NoFsm]
  /\ Drop(id)

RemoveInterface(id) ==
  /\ id.part \in Interface
  /\ get_module_id(id) # None
  /\ LET l == objects[get_module_id(id)] IN
       /\ id.part \in fsms[l].attached
       /\ fsms' = SetInterfaces(l, fsms[l].attached \ {id.part})
  /\ Drop(id)

RemoveFault(id) ==
  IF objects[id] = None THEN "ITEM_NOT_FOUND"
  ELSE IF get_object_type(id) = "null" THEN "NOT_SUPPORTED"
  ELSE IF get_object_type(id) = "module"
       THEN IF InUse(objects[id]) THEN "OBJECT_IN_USE" ELSE "none"
  ELSE IF get_module_id(id) = None THEN "INVALID_OBJECT_ID"
  ELSE IF id.part \notin fsms[objects[get_module_id(id)]].attached THEN "ITEM_NOT_FOUND"
  ELSE "none"

RemoveRefused(id) ==
  /\ RemoveFault(id) # "none"
  /\ Reply(RemoveFault(id), id)
  /\ UNCHANGED <<objects, fsms>>

RemoveObject(id) == RemoveModule(id) \/ RemoveInterface(id) \/ RemoveRefused(id)

Remove(id) ==
  /\ Accepting
  /\ RemoveObject(id)
  /\ UNCHANGED <<platform, left, pass, leaked>>

-----------------------------------------------------------------------------
(***************************************************************************)
(* The attribute calls of a type look the object up by id and by its own   *)
(* type, not by that in the id, and leave the answer to it.                *)
(***************************************************************************)
get(id, filter) == objects[id] # None /\ id.part[1] = filter

Access(id, filter) ==
  /\ Accepting
  /\ Refuse(IF get(id, filter) THEN "ANSWERED" ELSE "ITEM_NOT_FOUND", id)

-----------------------------------------------------------------------------
(***************************************************************************)
(* tai_api_uninitialize(): the destructor removes every id, in the order   *)
(* of the map, twice, as a module can only be removed after its            *)
(* interfaces, which come later in the map.  In the second pass an id      *)
(* removed in the first is not found.                                      *)
(***************************************************************************)
Uninitialize ==
  /\ Accepting
  /\ platform' = "destroying"
  /\ left' = Registered
  /\ pass' = 1
  /\ Reply("SUCCESS", None)
  /\ UNCHANGED <<objects, fsms, leaked>>

Rank(id) == CASE TypeField(id) = "module" -> 1
              [] TypeField(id) = "hostif" -> 2
              [] TypeField(id) = "netif"  -> 3
              [] OTHER                    -> 4

Before(a, b) ==
  \/ Rank(a) < Rank(b)
  \/ Rank(a) = Rank(b) /\ a.module < b.module
  \/ Rank(a) = Rank(b) /\ a.module = b.module /\ a.part[2] <= b.part[2]

DestroyNext(id) ==
  /\ platform = "destroying"
  /\ id \in left
  /\ \A other \in left : Before(id, other)
  /\ RemoveObject(id)
  /\ left' = left \ {id}
  /\ UNCHANGED <<platform, pass, leaked>>

(* Mutants of Passes: interfaces go, and their modules stay; one more than *)
(* needed.                                                                 *)
OnePass == 1

ThreePasses == 3

Passes == 2

DestroyAgain ==
  /\ platform = "destroying"
  /\ left = {}
  /\ pass < Passes
  /\ left' = Registered
  /\ pass' = pass + 1
  /\ UNCHANGED <<platform, objects, fsms, leaked, reply>>

(***************************************************************************)
(* m_fsms and m_objects are emptied.  A running FSM and its module hold a  *)
(* reference to each other, so neither is destroyed and the thread goes    *)
(* on.  The destructor of an FSM whose start() failed joins a thread that  *)
(* was never there, which throws and ends the program.                     *)
(***************************************************************************)
DestroyEnd ==
  /\ platform = "destroying"
  /\ left = {}
  /\ pass = Passes
  /\ \A l \in Location : fsms[l].thread # "failed"
  /\ leaked' = {l \in Location : fsms[l].thread = "running"}
  /\ objects' = [id \in ObjectId |-> None]
  /\ fsms' = [l \in Location |-> NoFsm]
  /\ platform' = "none"
  /\ pass' = 0
  /\ UNCHANGED <<left, reply>>

DestroyAborts ==
  /\ platform = "destroying"
  /\ left = {}
  /\ pass = Passes
  /\ \E l \in Location : fsms[l].thread = "failed"
  /\ platform' = "aborted"
  /\ UNCHANGED <<objects, fsms, left, pass, leaked, reply>>

-----------------------------------------------------------------------------
Next ==
  \/ Initialize \/ InitializeAgain \/ CallUninitialized
  \/ CreateNowhere
  \/ \E l \in Location :
       \/ CreateKnown(l) \/ CreateFails(l) \/ CreateModule(l)
       \/ \E accepted \in BOOLEAN : CreateThrows(l, accepted)
  \/ \E id \in ObjectId :
       \/ Remove(id) \/ DestroyNext(id)
       \/ \E filter \in {"module", "netif", "hostif"} : Access(id, filter)
       \/ \E type \in {"netif", "hostif"}, index \in Index :
            \/ CreateInterface(id, type, index)
            \/ \E accepted \in BOOLEAN : CreateRefused(id, type, index, accepted)
  \/ Uninitialize \/ DestroyAgain \/ DestroyEnd \/ DestroyAborts

Spec == Init /\ [][Next]_vars

-----------------------------------------------------------------------------
(* An object id leads to the FSM of its own location, which is running,    *)
(* and so does the id of its module: the getters and setters use the FSM   *)
(* without a check (basic.cpp:304-322), and an interface is created and    *)
(* removed through the module's (basic.cpp:83, 148).                       *)
ObjectHasFsm ==
  \A id \in ObjectId : objects[id] # None =>
    /\ objects[id] \in Numeric
    /\ Number[objects[id]] = id.module
    /\ fsms[objects[id]].thread = "running"
    /\ objects[ModuleId(id.module)] = objects[id]

(* An interface is known to its FSM exactly when it is in the registry,    *)
(* although the FSM is told first and what it answers is not looked at     *)
(* (basic.cpp:86-91, 104-109): get_tx_dis() dereferences m_netif.          *)
AttachedIsRegistered ==
  \A l \in Location : \A p \in Interface :
    p \in fsms[l].attached <=>
      l \in Numeric /\ objects[InterfaceId(Number[l], p)] = l

(* When the platform is destroyed, no thread of a module that has an id    *)
(* and a proper location number is left running: two passes do for every   *)
(* set of objects, though each is refused in some order (basic.cpp:31-43). *)
NoModuleIsLeaked ==
  [][\A l \in leaked' \ leaked :
       Number[l] < 0 \/ objects[ModuleId(Number[l])] # l]_vars

(* A client's view of the object ids is that of ObjectTree.                *)
Tree == INSTANCE ObjectTree WITH
  Module <- ModuleNumber,
  modules <- {n \in ModuleNumber : objects[ModuleId(n)] # None},
  interfaces <- {x \in ModuleNumber \X Interface : objects[InterfaceId(x[1], x[2])] # None}

ImplementsTree == Tree!Spec
=============================================================================
