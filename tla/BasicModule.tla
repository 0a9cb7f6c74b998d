----------------------------- MODULE BasicModule -----------------------------
(***************************************************************************)
(* One module of the framework's basic adapter: the FSM thread running the *)
(* callbacks of examples/basic/basic.cpp, and the thread that calls the    *)
(* TAI API on the module and its interfaces (framework/object.hpp).  The   *)
(* TAI API is not thread-safe (framework/platform.hpp:72), so there is one *)
(* API thread; a step of it is what happens between two accesses to data   *)
(* the FSM thread shares.                                                  *)
(***************************************************************************)
EXTENDS FrameworkFsm, FiniteSets

CONSTANTS
  HostIf,    \* the host interface indices, 0..BASIC_NUM_HOSTIF-1
  Requests   \* the set_attributes() calls the API thread may make

(***************************************************************************)
(* A set_attributes() call: the object it is made on, which selects the    *)
(* mutex that is held; the attribute that matters to the FSM, "other" for  *)
(* any attribute with no FSM state of its own; and whether the whole list  *)
(* is accepted.  A list with an attribute unknown to the metadata is       *)
(* rejected after its other attributes have been stored.  OPER_STATUS is   *)
(* READ_ONLY, yet a client may set it: the adapter's default setter stores *)
(* what Config refused (basic.hpp:126-140).                                *)
(***************************************************************************)
AdminStatus == {"default", "up", "down"}

OperStatus == {"unknown", "initialize", "ready"}

RequestType ==
       [object : {"module"}, attr : {"admin"}, value : {"up", "down"},
        accepted : BOOLEAN]
  \cup [object : {"module"}, attr : {"notify"}, value : {"set", "cleared"},
        accepted : BOOLEAN]
  \cup [object : {"module"}, attr : {"oper"}, value : OperStatus,
        accepted : BOOLEAN]
  \cup [object : {"module", "netif"}, attr : {"other"}, value : {"any"},
        accepted : BOOLEAN]

NoRequest == [object |-> "none", attr |-> "other", value |-> "any",
              accepted |-> TRUE]

ASSUME RequestsAssumption == Requests \subseteq RequestType

ASSUME HostIfAssumption == IsFiniteSet(HostIf)

VARIABLES
  api,           \* where the API thread is
  request,       \* the set_attributes() call under way
  target,        \* its local next_state
  module,        \* m_module # nullptr
  netif,         \* m_netif # nullptr
  hostifs,       \* the indices with m_hostif[i] # nullptr
  no_transit,    \* m_no_transit
  admin_status,  \* the module's ADMIN_STATUS in its Config
  oper_status,   \* the module's OPER_STATUS in its Config
  handler,       \* the module's NOTIFY attribute holds a callback
  told,          \* history: the OPER_STATUS last delivered to that callback
  overridden     \* history: a client has stored the OPER_STATUS there is

objectVars == <<module, netif, hostifs, no_transit>>
configVars == <<admin_status, oper_status, handler, told, overridden>>
apiVars    == <<api, request, target>>
vars == <<fsmVars, apiVars, objectVars, configVars>>

ApiStep == {"absent", "created", "idle", "store", "check", "transit",
            "removeNetif", "pollNetif", "clearFlag", "pollEnd", "destroy"}

TypeOK ==
  /\ FsmTypeOK
  /\ api \in ApiStep
  /\ request \in RequestType \cup {NoRequest}
  /\ target \in FSMState
  /\ module \in BOOLEAN
  /\ netif \in BOOLEAN
  /\ hostifs \subseteq HostIf
  /\ no_transit \in BOOLEAN
  /\ admin_status \in AdminStatus
  /\ oper_status \in OperStatus \cup {"unset"}
  /\ handler \in BOOLEAN
  /\ told \in OperStatus \cup {"none", "unset"}
  /\ overridden \in BOOLEAN

Init ==
  /\ FsmInit
  /\ api = "absent"
  /\ request = NoRequest
  /\ target = FSM_STATE_INIT
  /\ module = FALSE
  /\ netif = FALSE
  /\ hostifs = {}
  /\ no_transit = FALSE
  /\ admin_status = "default"
  /\ oper_status = "unset"
  /\ handler = FALSE
  /\ told = "none"
  /\ overridden = FALSE

(***************************************************************************)
(* FSM::configured().  ADMIN_STATUS defaults to UP (inc/taimodule.h:202).  *)
(***************************************************************************)
AdminUp == admin_status # "down"

configured == module /\ netif /\ AdminUp

Min2(a, b) == IF a < b THEN a ELSE b

-----------------------------------------------------------------------------
(***************************************************************************)
(* The API thread.                                                         *)
(***************************************************************************)

(***************************************************************************)
(* Platform::create(MODULE): the Module is built with its attributes, to   *)
(* which a client may add OPER_STATUS; the FSM is started, and only then   *)
(* does the FSM learn of the module.                                       *)
(***************************************************************************)
CreateModule ==
  /\ api = "absent"
  /\ Start
  /\ api' = "created"
  /\ admin_status' \in AdminStatus
  /\ handler' \in BOOLEAN
  /\ oper_status' \in OperStatus \cup {"unset"}
  /\ overridden' = (oper_status' # "unset")
  /\ told' = "none"
  /\ UNCHANGED <<request, target, objectVars>>

SetModule ==
  /\ api = "created"
  /\ module' = TRUE
  /\ api' = "idle"
  /\ UNCHANGED <<fsmVars, request, target, netif, hostifs, no_transit,
                 configVars>>

CreateNetif ==
  /\ api = "idle"
  /\ ~netif
  /\ netif' = TRUE
  /\ UNCHANGED <<fsmVars, apiVars, module, hostifs, no_transit, configVars>>

CreateHostif(i) ==
  /\ api = "idle"
  /\ i \notin hostifs
  /\ hostifs' = hostifs \cup {i}
  /\ UNCHANGED <<fsmVars, apiVars, module, netif, no_transit, configVars>>

RemoveHostif(i) ==
  /\ api = "idle"
  /\ i \in hostifs
  /\ hostifs' = hostifs \ {i}
  /\ UNCHANGED <<fsmVars, apiVars, module, netif, no_transit, configVars>>

(***************************************************************************)
(* Object::_set_attributes(), with the object's mutex held from here to    *)
(* the end of the call.  It starts by reading the FSM state.               *)
(***************************************************************************)
SetAttributes(r) ==
  /\ api = "idle"
  /\ r.object = "netif" => netif
  /\ request' = r
  /\ target' = current_state
  /\ api' = "store"
  /\ UNCHANGED <<fsmVars, objectVars, configVars>>

ObjectLocked == api \in {"store", "check", "transit"} /\ request.object = "module"

(***************************************************************************)
(* Config::set_attributes() stores what differs.  ADMIN_STATUS carries the *)
(* FSM state WAITING_CONFIGURATION: it lowers the target and never raises  *)
(* it.  A rejected list returns here, what it stored stays stored.         *)
(***************************************************************************)
AdminChanges == request.attr = "admin" /\ admin_status # request.value

Lowered == IF AdminChanges THEN Min2(target, FSM_STATE_WAITING_CONFIGURATION)
           ELSE target

(* OPER_STATUS is stored after the other attributes, by the default setter, *)
(* unless that meets an attribute without metadata first; nobody is told.   *)
StoreOperStatus ==
  \/ /\ request.attr = "oper"
     /\ oper_status' = request.value
     /\ overridden' = TRUE
  \/ /\ request.attr = "oper" => ~request.accepted
     /\ UNCHANGED <<oper_status, overridden>>

EndSet == api' = "idle" /\ request' = NoRequest

StoreAttributes ==
  /\ api = "store"
  /\ admin_status' = IF request.attr = "admin" THEN request.value ELSE admin_status
  /\ IF request.attr = "notify"
     THEN handler' = (request.value = "set") /\ told' = "none"
     ELSE UNCHANGED <<handler, told>>
  /\ StoreOperStatus
  /\ IF request.accepted
     THEN api' = "check" /\ target' = Lowered /\ UNCHANGED request
     ELSE EndSet /\ UNCHANGED target
  /\ UNCHANGED <<fsmVars, objectVars>>

(***************************************************************************)
(* Object::_transit(): the target is capped by configured(), compared with *)
(* the state, which is read again, and requested if it differs.            *)
(***************************************************************************)
Capped == Min2(target, IF configured THEN FSM_STATE_READY
                       ELSE FSM_STATE_WAITING_CONFIGURATION)

CheckState ==
  /\ api = "check"
  /\ target' = Capped
  /\ IF current_state # Capped
     THEN api' = "transit" /\ UNCHANGED request
     ELSE EndSet
  /\ UNCHANGED <<fsmVars, objectVars, configVars>>

RequestState ==
  /\ api = "transit"
  /\ Transit(target)
  /\ EndSet
  /\ UNCHANGED <<thread, current_state, next_state, target, objectVars,
                 configVars>>

(***************************************************************************)
(* FSM::remove_netif(): forbid the timer's move to READY, ask for          *)
(* WAITING_CONFIGURATION, poll the state, then drop the interface.         *)
(***************************************************************************)
RemoveNetif ==
  /\ api = "idle"
  /\ netif
  /\ no_transit' = TRUE
  /\ api' = "removeNetif"
  /\ UNCHANGED <<fsmVars, request, target, module, netif, hostifs, configVars>>

RequestWaiting ==
  /\ api = "removeNetif"
  /\ Transit(FSM_STATE_WAITING_CONFIGURATION)
  /\ api' = "pollNetif"
  /\ UNCHANGED <<thread, current_state, next_state, request, target,
                 objectVars, configVars>>

(* Mutant: an off-by-one.                                                  *)
BelowWaiting ==
  \/ current_state < FSM_STATE_WAITING_CONFIGURATION
  \/ current_state = FSM_STATE_END

WaitingReached ==
  \/ current_state <= FSM_STATE_WAITING_CONFIGURATION
  \/ current_state = FSM_STATE_END

PollWaiting ==
  /\ api = "pollNetif"
  /\ WaitingReached
  /\ netif' = FALSE
  /\ api' = "clearFlag"
  /\ UNCHANGED <<fsmVars, request, target, module, hostifs, no_transit,
                 configVars>>

(* Mutant of ClearFlag: the flag stays up.                                 *)
KeepFlag ==
  /\ api = "clearFlag"
  /\ api' = "idle"
  /\ UNCHANGED <<fsmVars, request, target, objectVars, configVars>>

ClearFlag ==
  /\ api = "clearFlag"
  /\ no_transit' = FALSE
  /\ api' = "idle"
  /\ UNCHANGED <<fsmVars, request, target, module, netif, hostifs, configVars>>

(***************************************************************************)
(* FSM::remove_module(): refused while an interface is left; otherwise ask *)
(* for END, poll for it, and drop the module.  Platform::remove() then     *)
(* forgets the FSM, whose destructor runs.                                 *)
(***************************************************************************)
(* Mutants: the host interfaces are not looked at; and the call does not   *)
(* wait for the thread to end.                                             *)
NetifInUse == netif

InUse == netif \/ hostifs # {}

RemoveModuleAtOnce ==
  /\ api = "idle"
  /\ ~InUse
  /\ Transit(FSM_STATE_END)
  /\ UNCHANGED <<thread, current_state, next_state, apiVars, objectVars,
                 configVars>>

RemoveModule ==
  /\ api = "idle"
  /\ ~InUse
  /\ Transit(FSM_STATE_END)
  /\ api' = "pollEnd"
  /\ UNCHANGED <<thread, current_state, next_state, request, target,
                 objectVars, configVars>>

(* Mutants: a timeout; the thread's decision is taken for its state; the   *)
(* poll waits for a state beyond END.                                      *)
EndTimesOut == TRUE

EndDecided == next_state = FSM_STATE_END

BeyondEnd == current_state > FSM_STATE_END

EndReached == current_state = FSM_STATE_END

PollEnd ==
  /\ api = "pollEnd"
  /\ EndReached
  /\ module' = FALSE
  /\ api' = "destroy"
  /\ UNCHANGED <<fsmVars, request, target, netif, hostifs, no_transit,
                 configVars>>

Destroy ==
  /\ api = "destroy"
  /\ Shutdown
  /\ api' = "absent"
  /\ target' = FSM_STATE_INIT
  /\ admin_status' = "default"
  /\ oper_status' = "unset"
  /\ handler' = FALSE
  /\ told' = "none"
  /\ overridden' = FALSE
  /\ UNCHANGED <<request, objectVars>>

-----------------------------------------------------------------------------
(***************************************************************************)
(* The FSM thread.                                                         *)
(***************************************************************************)

(***************************************************************************)
(* cb(state): _init_cb decides at once, the other two wait in select() on  *)
(* the eventfd and a timer.                                                *)
(***************************************************************************)
Enter ==
  /\ thread = "enter"
  /\ IF current_state = FSM_STATE_INIT
     THEN next_state' = FSM_STATE_WAITING_CONFIGURATION /\ thread' = "changed"
     ELSE thread' = "select" /\ UNCHANGED next_state
  /\ UNCHANGED <<current_state, queue, events, apiVars, objectVars, configVars>>

TakeEvent == ReadEvent /\ UNCHANGED <<apiVars, objectVars, configVars>>

TakeRequest == PopRequest /\ UNCHANGED <<apiVars, objectVars, configVars>>

(***************************************************************************)
(* The timer, looked at only when the eventfd was not readable.  In        *)
(* WAITING_CONFIGURATION it evaluates configured(), one access to shared   *)
(* data at a time, and m_no_transit last.  In READY it notifies            *)
(* NUM_HOST_INTERFACES, which needs the module's mutex.                    *)
(***************************************************************************)
Tick ==
  /\ thread = "select"
  /\ events = 0
  /\ \/ /\ current_state = FSM_STATE_WAITING_CONFIGURATION
        /\ thread' = "checkNetif"
     \/ /\ current_state = FSM_STATE_READY
        /\ module
        /\ thread' = "tickNotify"
  /\ UNCHANGED <<current_state, next_state, queue, events, apiVars,
                 objectVars, configVars>>

CheckNetif ==
  /\ thread = "checkNetif"
  /\ thread' = IF module /\ netif THEN "checkAdmin" ELSE "select"
  /\ UNCHANGED <<current_state, next_state, queue, events, apiVars,
                 objectVars, configVars>>

CheckAdmin ==
  /\ thread = "checkAdmin"
  /\ thread' = IF AdminUp THEN "checkFlag" ELSE "select"
  /\ UNCHANGED <<current_state, next_state, queue, events, apiVars,
                 objectVars, configVars>>

CheckFlag ==
  /\ thread = "checkFlag"
  /\ IF no_transit
     THEN thread' = "select" /\ UNCHANGED next_state
     ELSE thread' = "changed" /\ next_state' = FSM_STATE_READY
  /\ UNCHANGED <<current_state, queue, events, apiVars, objectVars, configVars>>

NotifyTick ==
  /\ thread = "tickNotify"
  /\ ~ObjectLocked
  /\ thread' = "select"
  /\ UNCHANGED <<current_state, next_state, queue, events, apiVars,
                 objectVars, configVars>>

(***************************************************************************)
(* _state_change_cb(): OPER_STATUS is stored, then notified through        *)
(* Object::notify() under the module's mutex.  Without a module, or        *)
(* without a callback in NOTIFY, nothing is sent.                          *)
(***************************************************************************)
(* Mutant: the state that is left is reported.                             *)
ReportOfCurrent == IF current_state = FSM_STATE_READY THEN "ready" ELSE "initialize"

Report == IF next_state = FSM_STATE_READY THEN "ready" ELSE "initialize"

StateChange ==
  /\ thread = "changed"
  /\ IF module
     THEN oper_status' = Report /\ overridden' = FALSE /\ thread' = "notify"
     ELSE thread' = "commit" /\ UNCHANGED <<oper_status, overridden>>
  /\ UNCHANGED <<current_state, next_state, queue, events, apiVars,
                 objectVars, admin_status, handler, told>>

(* What the subscriber knows after; mutant: only READY is sent.            *)
ToldReady == IF handler /\ oper_status = "ready" THEN oper_status ELSE told

Told == IF handler THEN oper_status ELSE told

NotifyOperStatus ==
  /\ thread = "notify"
  /\ ~ObjectLocked
  /\ told' = Told
  /\ thread' = "commit"
  /\ UNCHANGED <<current_state, next_state, queue, events, apiVars,
                 objectVars, admin_status, oper_status, handler, overridden>>

CommitState == Commit /\ UNCHANGED <<apiVars, objectVars, configVars>>

-----------------------------------------------------------------------------
ApiCall ==
  \/ CreateModule
  \/ CreateNetif
  \/ \E i \in HostIf : CreateHostif(i) \/ RemoveHostif(i)
  \/ \E r \in Requests : SetAttributes(r)
  \/ RemoveNetif
  \/ RemoveModule

ApiProgress ==
  \/ SetModule
  \/ StoreAttributes
  \/ CheckState
  \/ RequestState
  \/ RequestWaiting
  \/ PollWaiting
  \/ ClearFlag
  \/ PollEnd
  \/ Destroy

FsmThread ==
  \/ Enter
  \/ TakeEvent
  \/ TakeRequest
  \/ Tick
  \/ CheckNetif
  \/ CheckAdmin
  \/ CheckFlag
  \/ NotifyTick
  \/ StateChange
  \/ NotifyOperStatus
  \/ CommitState

Next == ApiCall \/ ApiProgress \/ FsmThread

Spec == Init /\ [][Next]_vars

(***************************************************************************)
(* A call that was made runs on, and the FSM thread is scheduled (its      *)
(* timer keeps firing).  Nobody has to make another call.                  *)
(***************************************************************************)
Fairness == WF_vars(ApiProgress) /\ WF_vars(FsmThread)

FairSpec == Spec /\ Fairness
-----------------------------------------------------------------------------
(***************************************************************************)
(* Safety.                                                                 *)
(***************************************************************************)

(* Every queued request has its event, whatever the two threads do: the    *)
(* event is written and the request queued under one lock, but the thread  *)
(* reads the event before it takes the lock.  A lost event would leave a   *)
(* request in the queue forever (basic.cpp:415-418).                       *)
EventsMatchQueue ==
  thread # "none" =>
    Len(queue) = events + (IF thread = "pop" THEN 1 ELSE 0)

(* next_state() never finds the queue empty, so the fallback to the        *)
(* current state (fsm.hpp:114-116) is never taken after an event.          *)
PopFindsRequest == thread = "pop" => queue # <<>>

(* The thread dereferences m_module only while it is set, although the     *)
(* null check and the use are separate steps and remove_module() clears it *)
(* from the other thread (basic.cpp:206-210, 353-363, 468-469).            *)
UsesModuleSafely == thread \in {"checkAdmin", "notify", "tickNotify"} => module

(* remove_module() drops the module only when the thread has left its      *)
(* loop, so that Destroy never waits for a thread that still uses it, and  *)
(* the thread ends only because remove_module() asked for it.              *)
EndsOnlyForRemoval ==
  /\ thread = "ended" => api \in {"pollEnd", "destroy"}
  /\ api = "destroy" => thread = "ended"

(* Nothing is queued behind END: no request can be lost when the loop      *)
(* breaks (fsm.hpp:83-85).                                                 *)
EndIsLast ==
  \A i \in 1..Len(Pending) :
    Pending[i] = FSM_STATE_END => i = Len(Pending)

(* While the thread waits for something to do, OPER_STATUS tells its state *)
(* (basic.cpp:352-369), once a state change has been seen with the module  *)
(* attached, and as long as no client has stored another value since, as   *)
(* the default setter lets it (basic.hpp:134).                             *)
OperStatusTellsState ==
  thread = "select" /\ oper_status # "unset" /\ ~overridden =>
    oper_status = (IF current_state = FSM_STATE_READY THEN "ready" ELSE "initialize")

(* And the callback registered in NOTIFY was last told that status, also   *)
(* one a client stored between the change and the notification: only a     *)
(* store of a client with no state change since, which notifies nobody,    *)
(* leaves a subscriber with a stale OPER_STATUS (basic.hpp:134).           *)
SubscriberIsUpToDate ==
  thread = "select" /\ told # "none" /\ ~overridden => told = oper_status

(* The queue is bounded although transit() only drops a request equal to   *)
(* the last one (fsm.hpp:93): at most five states, then END.  A request is *)
(* made from a state that was read, and a state to read costs a request    *)
(* already in the queue.                                                   *)
QueueIsBounded ==
  \A i \in 1..Len(queue) : queue[i] # FSM_STATE_END => i <= 5

-----------------------------------------------------------------------------
(***************************************************************************)
(* Liveness.                                                               *)
(***************************************************************************)

(* remove_netif() and remove_module() poll without a timeout               *)
(* (basic.cpp:278-285, 261-267): they return all the same.                 *)
RemoveNetifReturns == api = "pollNetif" ~> api = "idle"

RemoveModuleReturns == api = "pollEnd" ~> api = "absent"

(* Once the module stays configured and the host makes no more calls, the  *)
(* FSM reaches READY and stays, whatever requests were left in the queue.  *)
QuietlyConfigured == <>[](configured /\ api = "idle") => <>[](current_state = FSM_STATE_READY)

-----------------------------------------------------------------------------
(***************************************************************************)
(* The abstract lifecycle this module implements.                          *)
(***************************************************************************)
Phase == CASE thread = "none"  -> "absent"
           [] thread = "ended" -> "ended"
           [] OTHER            -> "running"

Lifecycle == INSTANCE ModuleLifecycle WITH phase <- Phase, attached <- module

(* Creating and removing the module and its interfaces, with the thread    *)
(* running beside, is one of the lifecycles ModuleLifecycle allows: the    *)
(* thread is never stopped under an interface, no interface is attached to *)
(* a stopped one, and the module outlives the thread's last use of it.     *)
ImplementsLifecycle == Lifecycle!Spec

-----------------------------------------------------------------------------
(***************************************************************************)
(* What comments of the code say and the code does not do.                 *)
(***************************************************************************)

(* basic.cpp:286-287: "the FSM state is now waiting-configuration. we      *)
(* don't access netif in waiting-configuration. safe to make m_netif       *)
(* null".  The thread may already have decided to go to READY.             *)
NoReadyWithoutNetif == module /\ ~netif => current_state # FSM_STATE_READY
=============================================================================
