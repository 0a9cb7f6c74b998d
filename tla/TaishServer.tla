---------------------------- MODULE TaishServer ----------------------------
(***************************************************************************)
(* The taish server around the TAI library: the main thread of             *)
(* tools/taish/server/main.cpp, the module_presence callback, the signal   *)
(* handler, and the gRPC calls of tools/taish/lib/server.cpp that use the  *)
(* library and the server's own list of modules, g_modules.                *)
(*                                                                         *)
(* A call of the library takes two steps, in and out, so that calls of     *)
(* different threads overlap in the model as they do in the program; it    *)
(* takes effect when it returns.  What one thread does between two lock    *)
(* operations or library calls is one step.  object_update(), which takes  *)
(* no lock, is one step too: that its accesses to g_modules race with the  *)
(* main thread's at the level of the map is not visible here.              *)
(*                                                                         *)
(* An object is named by its place, <<location, interface>>, and so is its *)
(* id: both adapters compute ids from the location and the index.  Host    *)
(* and network interfaces of a module are numbered in the order in which   *)
(* create_hostif() and create_netif() make them.                           *)
(***************************************************************************)
EXTENDS Naturals, Sequences, FiniteSets

CONSTANTS
  Location,       \* places of modules, numbers ordered as the map orders them
  NumInterfaces,  \* what NUM_HOST_INTERFACES and NUM_NETWORK_INTERFACES sum to
  Client,         \* the gRPC threads
  Event,          \* what the library may report, <<present, location>>
  Refused,        \* the objects whose creation the library refuses
  Misconfigured,  \* the sets of objects whose attributes in the configuration
                  \* file may be ones the metadata does not know
  Requested,      \* the objects the gRPC calls create and remove
  Interrupted,    \* the threads a signal may be delivered to
  AutoCreation,   \* the server runs without -n
  MaxEvents,      \* bound on the calls of module_presence()
  MaxCalls,       \* bound on the gRPC calls
  MaxSignals,     \* bound on SIGINT and SIGTERM
  None

Interface == 1..NumInterfaces
Module(l) == <<l, 0>>
Object == Location \X (0..NumInterfaces)

(* What the gRPC calls ask for.                                            *)
Op == {"create", "remove", "access", "capability", "list"}

ASSUME ServerAssumption ==
  /\ Location \subseteq Nat
  /\ NumInterfaces \in Nat
  /\ Event \subseteq BOOLEAN \X Location
  /\ Refused \subseteq Object
  /\ Misconfigured \subseteq SUBSET Object
  /\ Requested \subseteq Object
  /\ AutoCreation \in BOOLEAN
  /\ MaxEvents \in Nat /\ MaxCalls \in Nat /\ MaxSignals \in Nat
  /\ {"main", "library", None} \cap Client = {}
  /\ None \notin Object \cup Location \cup Op \cup {"main", "library"}

Thread == Client \cup {"main", "library"}

ASSUME InterruptedAssumption == Interrupted \subseteq Thread

VARIABLES
  status,     \* of the process
  pc,         \* where the main thread is
  created,    \* main's new module: create_module() succeeded
  made,       \* main's new module: how many interfaces it has
  q,          \* the queue of presence events and shutdown requests
  count,      \* the counter of the eventfd
  unsignalled,\* a request was queued before the eventfd existed
  m,          \* holder of the mutex m
  pushing,    \* the event module_presence() is about to push
  reported,   \* number of events reported
  sig,        \* the thread the signal handler has interrupted
  signals,    \* number of signals so far
  serving,    \* the gRPC server accepts calls
  misconfigured, \* the objects load_config() fails for
  calls,      \* the call each gRPC thread works on
  begun,      \* number of gRPC calls begun
  m_mtx,      \* holder of TAIServiceImpl::m_mtx
  g_modules,  \* what the server knows of each location
  objects,    \* the objects that exist in the library
  raced,      \* history: locations with overlapping creations or removals
  strayed     \* history: locations that were given an interface whose module
              \* the library did not know any more

setupVars == <<serving, misconfigured>>
mainVars == <<pc, created, made>>
queueVars == <<q, count, unsignalled>>
eventVars == <<pushing, reported>>
signalVars == <<sig, signals>>
callVars == <<calls, begun, m_mtx>>
listVars == <<g_modules, raced, strayed>>
vars == <<status, setupVars, mainVars, queueVars, m, eventVars, signalVars,
          callVars, listVars, objects>>

-----------------------------------------------------------------------------
(* The process: running, out of main(), ended by an exception no one       *)
(* catches, or by a null pointer.                                          *)
Status == {"running", "exited", "terminated", "crashed"}

MainStep == {"start", "init", "serve", "config", "read", "lock", "drain",
             "create", "creating", "query", "querying", "attach", "attaching",
             "enter", "exit", "exiting"}

(* Where main works on a new module, with m locked.                        *)
MakesModule == {"create", "creating", "query", "querying", "attach",
                "attaching", "enter"}

SHUTDOWN == <<FALSE, None>>
Entry == Event \cup {SHUTDOWN}

Idle == [pc |-> "idle", op |-> None, object |-> None, mid |-> None]
CallStep == {"locate", "locating", "call", "calling", "ask", "asking",
             "update", "list", "listing"}
Call == [pc : CallStep, op : Op, object : Object \cup {None},
         mid : Location \cup {None}]

(* g_modules[l]: not in the map, a null pointer, or a module with its id   *)
(* set or not, the presence last reported, and the ids in its maps netifs  *)
(* and hostifs, each at its index.                                         *)
Listed == [id : BOOLEAN, present : BOOLEAN,
           interfaces : SUBSET (Location \X Interface)]
UNKNOWN == [entry |-> "none"]
NULL == [entry |-> "null"]

TypeOK ==
  /\ status \in Status
  /\ pc \in MainStep
  /\ created \in BOOLEAN
  /\ made \in 0..NumInterfaces
  /\ q \in Seq(Entry)
  /\ count \in Nat
  /\ unsignalled \in BOOLEAN
  /\ m \in Thread \cup {None}
  /\ pushing \in Event \cup {None}
  /\ reported \in 0..MaxEvents
  /\ sig \in Thread \cup {None}
  /\ signals \in 0..MaxSignals
  /\ serving \in BOOLEAN
  /\ misconfigured \subseteq Object
  /\ calls \in [Client -> Call \cup {Idle}]
  /\ begun \in 0..MaxCalls
  /\ m_mtx \in Client \cup {None}
  /\ g_modules \in [Location -> Listed \cup {UNKNOWN, NULL}]
  /\ objects \subseteq Object
  /\ raced \subseteq Location
  /\ strayed \subseteq Location

Init ==
  /\ status = "running"
  /\ pc = "start" /\ created = FALSE /\ made = 0
  /\ q = <<>> /\ count = 0 /\ unsignalled = FALSE
  /\ m = None
  /\ pushing = None /\ reported = 0
  /\ sig = None /\ signals = 0
  /\ serving = FALSE /\ misconfigured = {}
  /\ calls = [c \in Client |-> Idle] /\ begun = 0
  /\ m_mtx = None
  /\ g_modules = [l \in Location |-> UNKNOWN]
  /\ objects = {}
  /\ raced = {} /\ strayed = {}

(* A thread runs unless the signal handler has interrupted it.             *)
Runs(t) == status = "running" /\ sig # t

Known(l) == g_modules[l] \notin {UNKNOWN, NULL}

-----------------------------------------------------------------------------
(***************************************************************************)
(* The library, as the server uses it.                                     *)
(***************************************************************************)
InterfacesOf(l) == {i \in Interface : <<l, i>> \in objects}
CanCreate(o) ==
  /\ o \notin objects \cup Refused
  /\ o[2] # 0 => Module(o[1]) \in objects
CanRemove(o) ==
  /\ o \in objects
  /\ o[2] = 0 => InterfacesOf(o[1]) = {}

(* The threads that are inside the library.                                *)
InLibrary ==
  {c \in Client : calls[c].pc \in {"locating", "calling", "asking"}}
    \cup (IF pc \in {"creating", "querying", "attaching", "exiting"}
          THEN {"main"} ELSE {})

(* The threads that create or remove the module of l or one of its         *)
(* interfaces, from the call of the library to the update of g_modules.    *)
(* With -n, main enters a module it has not created.                       *)
Changes(c, l) ==
  /\ calls[c].op \in {"create", "remove"}
  /\ calls[c].object[1] = l
Busy(l) ==
  {c \in Client : Changes(c, l)}
    \cup (IF pc \in MakesModule /\ Head(q)[2] = l
          THEN {"main"} ELSE {})

-----------------------------------------------------------------------------
(***************************************************************************)
(* module_presence(): a thread of the library queues the event under m and *)
(* counts the eventfd up.  The library may call from tai_api_initialize()  *)
(* on, at any time.                                                        *)
(***************************************************************************)
Report(e) ==
  /\ Runs("library")
  /\ pc # "start"
  /\ pushing = None /\ reported < MaxEvents
  /\ m = None
  /\ m' = "library"
  /\ pushing' = e
  /\ reported' = reported + 1
  /\ UNCHANGED <<status, setupVars, mainVars, queueVars, signalVars, callVars,
                 listVars, objects>>

(* push and write, and the lock given up.                                  *)
Push ==
  /\ Runs("library")
  /\ pushing # None
  /\ q' = Append(q, pushing)
  /\ count' = count + 1
  /\ m' = None
  /\ pushing' = None
  /\ UNCHANGED <<status, setupVars, mainVars, unsignalled, reported, signalVars,
                 callVars, listVars, objects>>

(* A signal interrupts one of the threads ...                              *)
Signal(t) ==
  /\ status = "running"
  /\ sig = None /\ signals < MaxSignals
  /\ t \in Client => calls[t] # Idle
  /\ t = "library" => pushing # None
  /\ sig' = t
  /\ signals' = signals + 1
  /\ UNCHANGED <<status, setupVars, mainVars, queueVars, m, eventVars, callVars,
                 listVars, objects>>

(* Mutant of HandleSignal: the request is queued and nobody is told.       *)
HandleSignalQuietly ==
  /\ status = "running"
  /\ sig # None
  /\ m = None
  /\ q' = Append(q, SHUTDOWN)
  /\ sig' = None
  /\ UNCHANGED <<status, setupVars, mainVars, count, unsignalled, m, eventVars,
                 signals, callVars, listVars, objects>>

(* ... and signal_handler() locks m there, which never succeeds when that  *)
(* thread holds it, and queues "shutdown".  main() installs the handler    *)
(* before it opens the eventfd: until then event_fd is 0, and the counter  *)
(* is written to the standard input.                                       *)
HandleSignal ==
  /\ status = "running"
  /\ sig # None
  /\ m = None
  /\ q' = Append(q, SHUTDOWN)
  /\ IF pc = "start"
     THEN unsignalled' = TRUE /\ UNCHANGED count
     ELSE count' = count + 1 /\ UNCHANGED unsignalled
  /\ sig' = None
  /\ UNCHANGED <<status, setupVars, mainVars, m, eventVars, signals, callVars,
                 listVars, objects>>

-----------------------------------------------------------------------------
(***************************************************************************)
(* main(): the eventfd, the library, the gRPC server and the configuration *)
(* file.  Each of the last three may fail; main() then uninitializes the   *)
(* library and returns.                                                    *)
(***************************************************************************)
GoMain(step) == pc' = step
SameModule == UNCHANGED <<created, made>>

Start ==
  /\ Runs("main")
  /\ pc = "start"
  /\ GoMain("init") /\ SameModule
  /\ UNCHANGED <<status, setupVars, queueVars, m, eventVars, signalVars, callVars,
                 listVars, objects>>

(* tai_api_initialize(), tai_log_set() and the queries of the method       *)
(* tables.                                                                 *)
Initialize ==
  /\ Runs("main")
  /\ pc = "init"
  /\ GoMain("serve") \/ GoMain("exit")
  /\ SameModule
  /\ UNCHANGED <<status, setupVars, queueVars, m, eventVars, signalVars, callVars,
                 listVars, objects>>

start_grpc_server ==
  /\ Runs("main")
  /\ pc = "serve"
  /\ serving' = TRUE
  /\ GoMain("config") /\ SameModule
  /\ UNCHANGED <<status, misconfigured, queueVars, m, eventVars, signalVars, callVars,
                 listVars, objects>>

(* A file that is missing or holds no object ends main(), one that is not  *)
(* JSON ends it by an exception.                                           *)
ReadConfig ==
  /\ Runs("main")
  /\ pc = "config"
  /\ \/ GoMain("read") /\ misconfigured' \in Misconfigured /\ UNCHANGED status
     \/ GoMain("exit") /\ UNCHANGED <<misconfigured, status>>
     \/ status' = "terminated" /\ UNCHANGED <<misconfigured, pc>>
  /\ SameModule
  /\ UNCHANGED <<serving, queueVars, m, eventVars, signalVars, callVars, listVars,
                 objects>>

-----------------------------------------------------------------------------
(***************************************************************************)
(* The main loop.  read() blocks while the counter is 0 and resets it; the *)
(* queue is then emptied under m, which stays locked while a new module is *)
(* made.                                                                   *)
(***************************************************************************)
Read ==
  /\ Runs("main")
  /\ pc = "read"
  /\ count > 0
  /\ count' = 0
  /\ GoMain("lock") /\ SameModule
  /\ UNCHANGED <<status, setupVars, q, unsignalled, m, eventVars, signalVars,
                 callVars, listVars, objects>>

Lock ==
  /\ Runs("main")
  /\ pc = "lock"
  /\ m = None
  /\ m' = "main"
  /\ GoMain("drain") /\ SameModule
  /\ UNCHANGED <<status, setupVars, queueVars, eventVars, signalVars, callVars,
                 listVars, objects>>

HeadLocation == Head(q)[2]

(* The end of the inner loop: the queue is empty, or asks for the end.     *)
(* The "shutdown" entry stays in the queue.                                *)
EndDrain ==
  /\ Runs("main")
  /\ pc = "drain"
  /\ \/ q = <<>> /\ GoMain("read")
     \/ q # <<>> /\ Head(q) = SHUTDOWN /\ GoMain("exit")
  /\ m' = None
  /\ SameModule
  /\ UNCHANGED <<status, setupVars, queueVars, eventVars, signalVars, callVars,
                 listVars, objects>>

(* Mutant of Present: one event for each read of the eventfd.              *)
PresentOne ==
  /\ Runs("main")
  /\ pc = "drain"
  /\ q # <<>> /\ Head(q) # SHUTDOWN
  /\ Known(HeadLocation)
  /\ g_modules' = [g_modules EXCEPT ![HeadLocation].present = Head(q)[1]]
  /\ q' = Tail(q)
  /\ m' = None
  /\ GoMain("read")
  /\ UNCHANGED <<status, setupVars, created, made, count, unsignalled, eventVars,
                 signalVars, callVars, raced, strayed, objects>>

(* The event of a location in the map: g_modules[loc]->present = p.first.  *)
Present ==
  /\ Runs("main")
  /\ pc = "drain"
  /\ q # <<>> /\ Head(q) # SHUTDOWN
  /\ Known(HeadLocation)
  /\ g_modules' = [g_modules EXCEPT ![HeadLocation].present = Head(q)[1]]
  /\ q' = Tail(q)
  /\ UNCHANGED <<status, setupVars, mainVars, count, unsignalled, m, eventVars,
                 signalVars, callVars, raced, strayed, objects>>

(* The same through a null pointer that object_update() left in the map.   *)
PresentNull ==
  /\ Runs("main")
  /\ pc = "drain"
  /\ q # <<>> /\ Head(q) # SHUTDOWN
  /\ g_modules[HeadLocation] = NULL
  /\ status' = "crashed"
  /\ UNCHANGED <<setupVars, mainVars, queueVars, m, eventVars, signalVars, callVars,
                 listVars, objects>>

(* A location that is not in the map, whether present or not: new module() *)
(* creates the module and its interfaces in the library, unless -n.        *)
NewModule ==
  /\ Runs("main")
  /\ pc = "drain"
  /\ q # <<>> /\ Head(q) # SHUTDOWN
  /\ g_modules[HeadLocation] = UNKNOWN
  /\ GoMain(IF AutoCreation THEN "create" ELSE "enter") /\ SameModule
  /\ raced' = IF Busy(HeadLocation) # {}
              THEN raced \cup {HeadLocation} ELSE raced
  /\ UNCHANGED <<status, setupVars, queueVars, m, eventVars, signalVars, callVars,
                 g_modules, strayed, objects>>

-----------------------------------------------------------------------------
(***************************************************************************)
(* The constructor of module: none of its library calls is under m_mtx.    *)
(***************************************************************************)
CallLibrary(from, to) ==
  /\ Runs("main")
  /\ pc = from
  /\ GoMain(to) /\ SameModule
  /\ UNCHANGED <<status, setupVars, queueVars, m, eventVars, signalVars, callVars,
                 listVars, objects>>

(* load_config(): the attributes of the object in the configuration file   *)
(* are looked up in the metadata and parsed.  What fails is thrown.        *)
Configure(o, from, to) ==
  /\ Runs("main")
  /\ pc = from
  /\ IF o \in misconfigured THEN status' = "terminated" /\ UNCHANGED pc
                             ELSE GoMain(to) /\ UNCHANGED status
  /\ SameModule
  /\ UNCHANGED <<setupVars, queueVars, m, eventVars, signalVars, callVars, listVars,
                 objects>>

CreateModule == Configure(Module(HeadLocation), "create", "creating")

(* A module that cannot be created is entered with the id 0.               *)
ModuleCreated ==
  /\ Runs("main")
  /\ pc = "creating"
  /\ LET o == Module(HeadLocation) IN
     IF CanCreate(o)
     THEN created' = TRUE /\ objects' = objects \cup {o} /\ GoMain("query")
     ELSE UNCHANGED <<created, objects>> /\ GoMain("enter")
  /\ UNCHANGED <<status, setupVars, made, queueVars, m, eventVars, signalVars,
                 callVars, listVars>>

(* The numbers of interfaces.  A failure is thrown, and nothing in main()  *)
(* catches it.                                                             *)
QueryModule == CallLibrary("query", "querying")

(* Mutant of MoreToMake: one interface too many.                           *)
MoreToMakeOnceMore(n) == n <= NumInterfaces

MoreToMake(n) == n < NumInterfaces
NextInterface(n) == IF MoreToMake(n) THEN "attach" ELSE "enter"

ModuleQueried ==
  /\ Runs("main")
  /\ pc = "querying"
  /\ IF Module(HeadLocation) \in objects
     THEN GoMain(NextInterface(0)) /\ UNCHANGED status
     ELSE status' = "terminated" /\ UNCHANGED pc
  /\ SameModule
  /\ UNCHANGED <<setupVars, queueVars, m, eventVars, signalVars, callVars, listVars,
                 objects>>

CreateInterface == Configure(<<HeadLocation, made + 1>>, "attach", "attaching")

InterfaceCreated ==
  /\ Runs("main")
  /\ pc = "attaching"
  /\ LET o == <<HeadLocation, made + 1>> IN
     IF o \in Object /\ CanCreate(o)
     THEN /\ objects' = objects \cup {o}
          /\ made' = made + 1
          /\ GoMain(NextInterface(made + 1))
          /\ UNCHANGED status
     ELSE status' = "terminated" /\ UNCHANGED <<objects, made, pc>>
  /\ UNCHANGED <<setupVars, created, queueVars, m, eventVars, signalVars, callVars,
                 listVars>>

(* g_modules[loc] = m, its presence, and the event taken out of the queue. *)
EnterModule ==
  /\ Runs("main")
  /\ pc = "enter"
  /\ g_modules' = [g_modules EXCEPT ![HeadLocation] =
                     [id |-> created, present |-> Head(q)[1],
                      interfaces |-> {HeadLocation} \X (1..made)]]
  /\ q' = Tail(q)
  /\ GoMain("drain")
  /\ created' = FALSE /\ made' = 0
  /\ UNCHANGED <<status, setupVars, count, unsignalled, m, eventVars, signalVars,
                 callVars, raced, strayed, objects>>

-----------------------------------------------------------------------------
(* exit: tai_api_uninitialize(), while the gRPC threads go on, and the end *)
(* of the process.                                                         *)
Uninitialize == CallLibrary("exit", "exiting")

Exit ==
  /\ Runs("main")
  /\ pc = "exiting"
  /\ status' = "exited"
  /\ UNCHANGED <<setupVars, mainVars, queueVars, m, eventVars, signalVars, callVars,
                 listVars, objects>>

-----------------------------------------------------------------------------
(***************************************************************************)
(* The gRPC calls.  Create() of an interface first reads the location of   *)
(* its module; Create(), Remove(), GetAttribute(), SetAttribute() and      *)
(* ClearAttribute() ("access") call the library under m_mtx.               *)
(* GetAttributeCapability() and SetLogLevel() ("capability") call it       *)
(* without.  ListModule() copies g_modules under m.                        *)
(***************************************************************************)
Step(c, step) == calls' = [calls EXCEPT ![c].pc = step]
Return(c) == calls' = [calls EXCEPT ![c] = Idle]

Begin(c, op, o) ==
  /\ Runs(c)
  /\ serving /\ begun < MaxCalls
  /\ calls[c] = Idle
  /\ calls' = [calls EXCEPT ![c] = [op |-> op, object |-> o, mid |-> None, pc |->
       CASE op = "create" /\ o[2] # 0 -> "locate"
         [] op = "list" -> "list"
         [] op = "capability" -> "ask"
         [] OTHER -> "call"]]
  /\ begun' = begun + 1
  /\ raced' = IF op \in {"create", "remove"} /\ Busy(o[1]) # {}
              THEN raced \cup {o[1]} ELSE raced
  /\ UNCHANGED <<status, setupVars, mainVars, queueVars, m, eventVars, signalVars,
                 m_mtx, g_modules, strayed, objects>>

LockApi(c) ==
  /\ Runs(c)
  /\ calls[c].pc \in {"locate", "call"}
  /\ m_mtx = None
  /\ m_mtx' = c
  /\ Step(c, IF calls[c].pc = "locate" THEN "locating" ELSE "calling")
  /\ UNCHANGED <<status, setupVars, mainVars, queueVars, m, eventVars, signalVars,
                 begun, listVars, objects>>

Locate(c) ==
  /\ Runs(c)
  /\ calls[c].pc = "locating"
  /\ m_mtx' = None
  /\ IF Module(calls[c].object[1]) \in objects THEN Step(c, "call") ELSE Return(c)
  /\ UNCHANGED <<status, setupVars, mainVars, queueVars, m, eventVars, signalVars,
                 begun, listVars, objects>>

(* The library's call, and m_mtx given up.  What was created or removed is *)
(* still to be told to object_update().                                    *)
CallReturns(c) ==
  /\ Runs(c)
  /\ calls[c].pc = "calling"
  /\ m_mtx' = None
  /\ LET o == calls[c].object IN
     \/ /\ calls[c].op = "create" /\ CanCreate(o)
        /\ objects' = objects \cup {o}
        /\ Step(c, "ask")
     \/ /\ calls[c].op = "remove" /\ CanRemove(o)
        /\ objects' = objects \ {o}
        /\ Step(c, IF o[2] = 0 THEN "update" ELSE "ask")
     \/ /\ \/ calls[c].op = "create" /\ ~CanCreate(o)
           \/ calls[c].op = "remove" /\ ~CanRemove(o)
           \/ calls[c].op = "access"
        /\ Return(c) /\ UNCHANGED objects
  /\ UNCHANGED <<status, setupVars, mainVars, queueVars, m, eventVars, signalVars,
                 begun, listVars>>

(* Library calls without m_mtx.                                            *)
Ask(c) ==
  /\ Runs(c)
  /\ calls[c].pc = "ask"
  /\ Step(c, "asking")
  /\ UNCHANGED <<status, setupVars, mainVars, queueVars, m, eventVars, signalVars,
                 begun, m_mtx, listVars, objects>>

Asked(c) ==
  /\ Runs(c)
  /\ calls[c].pc = "asking"
  /\ calls[c].op = "capability"
  /\ Return(c)
  /\ UNCHANGED <<status, setupVars, mainVars, queueVars, m, eventVars, signalVars,
                 begun, m_mtx, listVars, objects>>

-----------------------------------------------------------------------------
(***************************************************************************)
(* object_update().  It first asks the library for the location of a new   *)
(* module, and gives up if that is gone ...                                *)
(***************************************************************************)
LocationAnswered(c) ==
  /\ Runs(c)
  /\ calls[c].pc = "asking"
  /\ calls[c].op = "create" /\ calls[c].object[2] = 0
  /\ IF calls[c].object \in objects THEN Step(c, "update") ELSE Return(c)
  /\ UNCHANGED <<status, setupVars, mainVars, queueVars, m, eventVars, signalVars,
                 begun, m_mtx, listVars, objects>>

(* ... and for the module of an interface, tai_module_id_query().  Of one  *)
(* that is gone the basic adapter knows no module; the stub adapter takes  *)
(* it from the id.  It is not used for one that was removed.               *)
ModuleAnswered(c) ==
  /\ Runs(c)
  /\ calls[c].pc = "asking"
  /\ calls[c].op \in {"create", "remove"} /\ calls[c].object[2] # 0
  /\ LET o == calls[c].object IN
     \E mid \in {o[1], None} :
       /\ calls[c].op = "create" /\ o \in objects => mid = o[1]
       /\ calls[c].op = "remove" => mid = None
       /\ calls' = [calls EXCEPT ![c].pc = "update", ![c].mid = mid]
  /\ UNCHANGED <<status, setupVars, mainVars, queueVars, m, eventVars, signalVars,
                 begun, m_mtx, listVars, objects>>

(* Mutant of ModuleIs: an entry is made for an unknown location.           *)
ModuleIsOrNew(l) ==
  IF g_modules[l] = UNKNOWN THEN [id |-> TRUE, interfaces |-> {}]
  ELSE IF Known(l) THEN [g_modules[l] EXCEPT !.id = TRUE] ELSE NULL

(* A new module: operator[] inserts a null pointer at an unknown location. *)
ModuleIs(l) ==
  IF Known(l) THEN [g_modules[l] EXCEPT !.id = TRUE] ELSE NULL

UpdateModule(c) ==
  /\ Runs(c)
  /\ calls[c].pc = "update"
  /\ calls[c].op = "create" /\ calls[c].object[2] = 0
  /\ LET l == calls[c].object[1] IN
     g_modules' = [g_modules EXCEPT ![l] = ModuleIs(l)]
  /\ Return(c)
  /\ UNCHANGED <<status, setupVars, mainVars, queueVars, m, eventVars, signalVars,
                 begun, m_mtx, raced, strayed, objects>>

(* Otherwise a loop looks through g_modules, in the order of the map: for  *)
(* the module that was removed or that has the new interface -- an id of 0 *)
(* is that of every module whose id is not set --, or for the interface    *)
(* that was removed.                                                       *)
WithId(mid) ==
  {k \in Location : /\ Known(k)
                    /\ g_modules[k].id <=> mid # None
                    /\ mid # None => k = mid}

Sought(call) ==
  CASE call.object[2] = 0 -> WithId(call.object[1])
    [] call.object[2] # 0 /\ call.op = "create" -> WithId(call.mid)
    [] OTHER -> {k \in Location : Known(k) /\ call.object \in g_modules[k].interfaces}

(* Mutant of UpdateEntry: a removed interface stays listed.                *)
UpdateEntryOnce(g, call) ==
  IF call.object[2] = 0 THEN [g EXCEPT !.id = FALSE]
  ELSE [g EXCEPT !.interfaces = @ \cup {call.object}]

(* The entry the loop ends at.  emplace() leaves an index that is taken.   *)
UpdateEntry(g, call) ==
  CASE call.object[2] = 0 -> [g EXCEPT !.id = FALSE]
    [] call.object[2] # 0 /\ call.op = "create" ->
         IF \E o \in g.interfaces : o[2] = call.object[2] THEN g
         ELSE [g EXCEPT !.interfaces = @ \cup {call.object}]
    [] OTHER -> [g EXCEPT !.interfaces = @ \ {call.object}]

Loops(c) ==
  /\ Runs(c)
  /\ calls[c].pc = "update"
  /\ calls[c].op = "create" => calls[c].object[2] # 0

UpdateFirst(c) ==
  /\ Loops(c)
  /\ \E k \in Sought(calls[c]) :
       /\ \A j \in Location : j < k => j \notin Sought(calls[c]) /\ g_modules[j] # NULL
       /\ g_modules' = [g_modules EXCEPT ![k] = UpdateEntry(@, calls[c])]
       /\ strayed' = IF calls[c].op = "create" /\ calls[c].mid = None
                     THEN strayed \cup {k} ELSE strayed
  /\ Return(c)
  /\ UNCHANGED <<status, setupVars, mainVars, queueVars, m, eventVars, signalVars,
                 begun, m_mtx, raced, objects>>

UpdateNone(c) ==
  /\ Loops(c)
  /\ Sought(calls[c]) = {}
  /\ \A j \in Location : g_modules[j] # NULL
  /\ Return(c)
  /\ UNCHANGED <<status, setupVars, mainVars, queueVars, m, eventVars, signalVars,
                 begun, m_mtx, listVars, objects>>

(* The loop goes through a null pointer that comes first.                  *)
UpdateNull(c) ==
  /\ Loops(c)
  /\ \E j \in Location :
       g_modules[j] = NULL /\ \A k \in Sought(calls[c]) : j < k
  /\ status' = "crashed"
  /\ UNCHANGED <<setupVars, mainVars, queueVars, m, eventVars, signalVars, callVars,
                 listVars, objects>>

-----------------------------------------------------------------------------
(* ListModule(): list_module() reads every entry under m.                  *)
LockList(c) ==
  /\ Runs(c)
  /\ calls[c].pc = "list"
  /\ m = None
  /\ m' = c
  /\ Step(c, "listing")
  /\ UNCHANGED <<status, setupVars, mainVars, queueVars, eventVars, signalVars, begun,
                 m_mtx, listVars, objects>>

List(c) ==
  /\ Runs(c)
  /\ calls[c].pc = "listing"
  /\ IF \E l \in Location : g_modules[l] = NULL
     THEN status' = "crashed" /\ UNCHANGED <<calls, m>>
     ELSE Return(c) /\ m' = None /\ UNCHANGED status
  /\ UNCHANGED <<setupVars, mainVars, queueVars, eventVars, signalVars, begun, m_mtx,
                 listVars, objects>>

-----------------------------------------------------------------------------
MainNext ==
  \/ Start \/ Initialize \/ start_grpc_server \/ ReadConfig
  \/ Read \/ Lock \/ EndDrain \/ Present \/ PresentNull \/ NewModule
  \/ CreateModule \/ ModuleCreated \/ QueryModule \/ ModuleQueried
  \/ CreateInterface \/ InterfaceCreated \/ EnterModule
  \/ Uninitialize \/ Exit

ClientNext(c) ==
  \/ LockApi(c) \/ Locate(c) \/ CallReturns(c)
  \/ Ask(c) \/ Asked(c) \/ LocationAnswered(c) \/ ModuleAnswered(c)
  \/ UpdateModule(c) \/ UpdateFirst(c) \/ UpdateNone(c) \/ UpdateNull(c)
  \/ LockList(c) \/ List(c)

Request(c) ==
  \/ \E op \in {"create", "remove"}, o \in Requested : Begin(c, op, o)
  \/ \E op \in {"access", "capability", "list"} : Begin(c, op, None)

Next ==
  \/ MainNext
  \/ \E c \in Client : ClientNext(c) \/ Request(c)
  \/ \E e \in Event : Report(e)
  \/ Push
  \/ \E t \in Interrupted : Signal(t)
  \/ HandleSignal

(* Threads run, library calls return, and a free mutex is taken: since the *)
(* calls and events are bounded no thread can be kept from a mutex forever *)
(* by others, and weak fairness is enough.                                 *)
Fairness ==
  /\ WF_vars(MainNext)
  /\ WF_vars(Push)
  /\ WF_vars(HandleSignal)
  /\ \A c \in Client : WF_vars(ClientNext(c))

Spec == Init /\ [][Next]_vars
FairSpec == Spec /\ Fairness

-----------------------------------------------------------------------------
(* No wakeup is lost: main does not wait in read() with requests queued,   *)
(* though it resets the counter before it locks the queue (main.cpp:513)   *)
(* and others push in between -- unless the handler ran before main()      *)
(* opened the eventfd (main.cpp:412, 452).                                 *)
QueuedIsSignalled ==
  pc = "read" /\ q # <<>> => count > 0 \/ unsignalled

(* What ListModule() tells of a location is what the library has there,    *)
(* whenever no creation or removal at that location is under way.  It may  *)
(* be wrong where two of them have overlapped: object_update() is called   *)
(* after m_mtx was given up (server.cpp:694-700, 711-740), so updates may  *)
(* come in another order than the library's calls.  It may also be wrong   *)
(* where an interface was entered that had been removed elsewhere before   *)
(* the library was asked for its module: the id 0 it answered is that of   *)
(* every module that does not exist (main.cpp:316-331).                    *)
ListingIsLibrary ==
  \A l \in Location :
    Known(l) /\ Busy(l) = {} /\ l \notin raced \cup strayed
      => /\ g_modules[l].id <=> Module(l) \in objects
         /\ g_modules[l].interfaces = {l} \X InterfacesOf(l)

(* The server ends by an uncaught exception (main.cpp:150, 221, 261) only  *)
(* for a configuration file that is not JSON or that has an attribute the  *)
(* metadata does not know, where a client changed a module while main made *)
(* it, or where the library refuses an interface.                          *)
TerminatedIsExplained ==
  status = "terminated" =>
    \/ pc = "config"
    \/ pc = "create" /\ Module(HeadLocation) \in misconfigured
    \/ pc = "attach" /\ <<HeadLocation, made + 1>> \in misconfigured
    \/ pc = "querying" /\ HeadLocation \in raced
    \/ pc = "attaching" /\ \/ HeadLocation \in raced
                           \/ <<HeadLocation, made + 1>> \in Refused

(* The signal handler waits for a mutex that the thread it interrupted     *)
(* holds: that thread, and all that need m, wait for ever.                 *)
Stuck == sig # None /\ m = sig

(* Every event reported and every request to shut down is taken out of the *)
(* queue or ends the process, unless the handler has locked out its own    *)
(* thread or ran before the eventfd was open.                              *)
RequestsAreServed ==
  (q # <<>> \/ sig # None)
    ~> \/ q = <<>> /\ sig = None
       \/ status # "running"
       \/ Stuck
       \/ unsignalled

(* TAI functions are not thread-safe, and m_mtx is the "mutex for          *)
(* serialized TAI API calls" (taigrpc.hpp:125): until main() takes the     *)
(* library down no two threads are inside it.                              *)
OneCallAtATime == pc # "exiting" => Cardinality(InLibrary) <= 1
=============================================================================
