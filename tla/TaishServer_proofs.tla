------------------------- MODULE TaishServer_proofs -------------------------
(***************************************************************************)
(* Proofs about TaishServer, for any locations, interfaces, clients, any   *)
(* events and refusals, and any number of calls.                           *)
(***************************************************************************)
EXTENDS TaishServer, TLAPS

(***************************************************************************)
(* Where the main thread is, and what it works on.                         *)
(***************************************************************************)
MainControl ==
  /\ pc \in MakesModule => q # <<>> /\ Head(q) \in Event
  /\ pc \notin {"query", "querying", "attach", "attaching", "enter"} => ~created
  /\ pc \in {"query", "querying", "attach", "attaching"} => created
  /\ pc \notin {"attach", "attaching", "enter"} => made = 0
  /\ pc \in {"attach", "attaching"} => made < NumInterfaces
  /\ ~created => made = 0

(* Where a gRPC thread is, and which call it works on.                     *)
ClientControl(c) ==
  /\ calls[c].op \in {"create", "remove"} => calls[c].object \in Object
  /\ calls[c].pc \in {"locate", "locating"} => calls[c].op = "create"
  /\ calls[c].pc \in {"ask", "asking"} => calls[c].op \in {"capability", "create", "remove"}
  /\ calls[c].pc = "update" => calls[c].op \in {"create", "remove"}
  /\ calls[c].pc \in {"list", "listing"} => calls[c].op = "list"

CallControl == \A c \in Client : ClientControl(c)

Control == MainControl /\ CallControl

(* The interfaces of a module are there only while the module is.          *)
Hierarchy ==
  \A l \in Location : \A i \in Interface :
    <<l, i>> \in objects => Module(l) \in objects

-----------------------------------------------------------------------------
(***************************************************************************)
(* What follows at once from the assumptions.                              *)
(***************************************************************************)
LEMMA ObjectFacts ==
  /\ \A l \in Location : Module(l) \in Object /\ \A i \in Interface : <<l, i>> \in Object
  /\ \A o \in Object : /\ o = <<o[1], o[2]>> /\ o[1] \in Location
                       /\ o[2] \in 0..NumInterfaces
                       /\ o[2] # 0 => o[2] \in Interface
BY ServerAssumption DEF Object, Module, Interface

(* An entry of the queue is an event, of a location, or the shutdown.      *)
LEMMA EntryFacts ==
  ASSUME q \in Seq(Entry), q # <<>>
  PROVE  /\ Tail(q) \in Seq(Entry)
         /\ Head(q) # SHUTDOWN => Head(q) \in Event
         /\ Head(q) \in Event =>
              HeadLocation \in Location /\ Head(q)[1] \in BOOLEAN /\ Head(q) # SHUTDOWN
<1>1. Head(q) \in Entry /\ Tail(q) \in Seq(Entry)
  OBVIOUS
<1>2. \A e \in Event : e[1] \in BOOLEAN /\ e[2] \in Location
  BY ServerAssumption
<1>3. SHUTDOWN[2] = None /\ None \notin Location
  BY ServerAssumption DEF SHUTDOWN
<1> QED
  BY <1>1, <1>2, <1>3, Zenon DEF Entry, HeadLocation

(* A request behind the first leaves the first where it is.                *)
LEMMA AppendFacts ==
  ASSUME q \in Seq(Entry), NEW e \in Entry
  PROVE  /\ Append(q, e) \in Seq(Entry)
         /\ Append(q, e) # <<>>
         /\ q # <<>> => Head(Append(q, e)) = Head(q)
OBVIOUS

(* A call goes on: only its place changes.                                 *)
LEMMA StepFacts ==
  ASSUME TypeOK, NEW c \in Client, NEW step \in CallStep, calls[c].pc # "idle",
         Step(c, step)
  PROVE  /\ calls' \in [Client -> Call \cup {Idle}]
         /\ \A d \in Client \ {c} : calls'[d] = calls[d]
         /\ calls'[c].pc = step
         /\ calls'[c].op = calls[c].op
         /\ calls'[c].object = calls[c].object
<1>1. calls[c] \in Call
  BY DEF TypeOK, Idle
<1>2. calls' = [calls EXCEPT ![c] = [calls[c] EXCEPT !.pc = step]]
  BY DEF Step
<1>3. [calls[c] EXCEPT !.pc = step] \in Call
  BY <1>1 DEF Call
<1>4. /\ [calls[c] EXCEPT !.pc = step].pc = step
      /\ [calls[c] EXCEPT !.pc = step].op = calls[c].op
      /\ [calls[c] EXCEPT !.pc = step].object = calls[c].object
  BY <1>1 DEF Call
<1> QED
  BY <1>2, <1>3, <1>4, Zenon DEF TypeOK

(* A call is answered.                                                     *)
LEMMA ReturnFacts ==
  ASSUME TypeOK, NEW c \in Client, Return(c)
  PROVE  /\ calls' \in [Client -> Call \cup {Idle}]
         /\ \A d \in Client \ {c} : calls'[d] = calls[d]
         /\ calls'[c] = Idle
BY DEF Return, TypeOK

(* What a client asks for.                                                 *)
LEMMA RequestFacts ==
  ASSUME NEW c \in Client, Request(c)
  PROVE  \E op \in Op, o \in Object \cup {None} :
           /\ op \in {"create", "remove"} => o \in Object
           /\ Begin(c, op, o)
<1>1. CASE \E op \in {"create", "remove"}, o \in Requested : Begin(c, op, o)
  <2> PICK op \in {"create", "remove"}, o \in Requested : Begin(c, op, o)
    BY <1>1
  <2>1. o \in Object /\ op \in Op
    BY ServerAssumption DEF Op
  <2> QED
    BY <2>1, Zenon
<1>2. CASE \E op \in {"access", "capability", "list"} : Begin(c, op, None)
  <2> PICK op \in {"access", "capability", "list"} : Begin(c, op, None)
    BY <1>2
  <2>1. op \in Op /\ op \notin {"create", "remove"}
    BY DEF Op
  <2> QED
    BY <2>1, Zenon
<1> QED
  BY <1>1, <1>2 DEF Request

(* The library has answered which module an interface belongs to.          *)
LEMMA AnswerFacts ==
  ASSUME TypeOK, CallControl, NEW c \in Client, ModuleAnswered(c)
  PROVE  /\ calls' \in [Client -> Call \cup {Idle}]
         /\ \A d \in Client \ {c} : calls'[d] = calls[d]
         /\ calls'[c].pc = "update"
         /\ calls'[c].op = calls[c].op
         /\ calls'[c].object = calls[c].object
         /\ calls[c].op = "create" =>
              \/ calls'[c].mid = calls[c].object[1]
              \/ calls'[c].mid = None /\ calls[c].object \notin objects
<1>1. calls[c] \in Call
  BY DEF ModuleAnswered, TypeOK, Idle
<1>2. calls[c].object \in Object /\ calls[c].object[1] \in Location
  BY ObjectFacts DEF ModuleAnswered, CallControl, ClientControl
<1>3. PICK mid \in {calls[c].object[1], None} :
        /\ calls[c].op = "create" /\ calls[c].object \in objects => mid = calls[c].object[1]
        /\ calls' = [calls EXCEPT ![c].pc = "update", ![c].mid = mid]
  BY DEF ModuleAnswered
<1> DEFINE new == [calls[c] EXCEPT !.pc = "update", !.mid = mid]
<1>4. calls' = [calls EXCEPT ![c] = new]
  BY <1>3
<1>5. /\ new \in Call /\ new.pc = "update" /\ new.op = calls[c].op
      /\ new.object = calls[c].object /\ new.mid = mid
  BY <1>1, <1>2, <1>3 DEF Call, CallStep
<1> HIDE DEF new
<1>6. /\ calls' \in [Client -> Call \cup {Idle}] /\ calls'[c] = new
      /\ \A d \in Client \ {c} : calls'[d] = calls[d]
  BY <1>4, <1>5 DEF TypeOK
<1> QED
  BY <1>3, <1>5, <1>6

(* The entry the loop of object_update() ends at stays one.                *)
LEMMA EntryUpdated ==
  ASSUME NEW g \in Listed, NEW call \in Call, call.object \in Object
  PROVE  UpdateEntry(g, call) \in Listed
<1>1. call.object[2] # 0 => call.object \in Location \X Interface
  BY ObjectFacts
<1>2. [g EXCEPT !.id = FALSE] \in Listed
  BY DEF Listed
<1>3. \A S \in SUBSET (Location \X Interface) : [g EXCEPT !.interfaces = S] \in Listed
  BY DEF Listed
<1>4. g.interfaces \in SUBSET (Location \X Interface)
  BY DEF Listed
<1>5. /\ call.object[2] # 0 =>
           g.interfaces \cup {call.object} \in SUBSET (Location \X Interface)
      /\ g.interfaces \ {call.object} \in SUBSET (Location \X Interface)
  BY <1>1, <1>4
<1> QED
  BY <1>2, <1>3, <1>5, Zenon DEF UpdateEntry

(* What Sought() finds is in the map.                                      *)
LEMMA SoughtFacts ==
  ASSUME NEW call
  PROVE  \A k \in Sought(call) : k \in Location /\ Known(k)
BY DEF Sought, WithId

-----------------------------------------------------------------------------
(***************************************************************************)
(* Types.  They hold only together with Control: the location main works   *)
(* on is that of an event, and it makes no more interfaces than there are. *)
(***************************************************************************)
LEMMA NextTypeOK == TypeOK /\ Control /\ [Next]_vars => TypeOK'
<1> SUFFICES ASSUME TypeOK, Control, [Next]_vars
             PROVE  TypeOK'
  OBVIOUS
<1> USE DEF setupVars, mainVars, queueVars, eventVars, signalVars, callVars, listVars
<1>1. CASE Start \/ Initialize \/ start_grpc_server \/ ReadConfig
  <2>1. misconfigured' \subseteq Object
    BY <1>1, ServerAssumption DEF TypeOK, Start, Initialize, start_grpc_server, ReadConfig
  <2> QED
    BY <1>1, <2>1, ZenonT(30) DEF TypeOK, Start, Initialize, start_grpc_server, ReadConfig,
       GoMain, SameModule, MainStep, Status
<1>2. CASE Read
  BY <1>2 DEF TypeOK, Read, GoMain, SameModule, MainStep
<1>3. CASE Lock \/ EndDrain \/ NewModule
  <2>1. CASE Lock
    BY <2>1, ZenonT(30) DEF TypeOK, Lock, GoMain, SameModule, MainStep, Thread
  <2>2. CASE EndDrain
    BY <2>2, ZenonT(30) DEF TypeOK, EndDrain, GoMain, SameModule, MainStep
  <2>3. CASE NewModule
    <3>1. HeadLocation \in Location
      BY <2>3, EntryFacts DEF NewModule, TypeOK
    <3>2. raced' \subseteq Location
      BY <2>3, <3>1 DEF NewModule, TypeOK
    <3> QED
      BY <2>3, <3>2, ZenonT(30) DEF TypeOK, NewModule, GoMain, SameModule, MainStep
  <2> QED
    BY <1>3, <2>1, <2>2, <2>3
<1>4. CASE Present
  <2>1. /\ HeadLocation \in Location /\ Head(q)[1] \in BOOLEAN
        /\ Tail(q) \in Seq(Entry)
    BY <1>4, EntryFacts DEF Present, TypeOK
  <2>2. g_modules[HeadLocation] \in Listed
    BY <1>4, <2>1 DEF Present, Known, TypeOK
  <2>3. [g_modules[HeadLocation] EXCEPT !.present = Head(q)[1]] \in Listed
    BY <2>1, <2>2 DEF Listed
  <2>4. g_modules' \in [Location -> Listed \cup {UNKNOWN, NULL}]
    BY <1>4, <2>3, Zenon DEF Present, TypeOK
  <2> QED
    BY <1>4, <2>1, <2>4, ZenonT(30) DEF Present, TypeOK
<1>5. CASE PresentNull \/ Exit
  BY <1>5, ZenonT(30) DEF PresentNull, Exit, TypeOK, Status
<1>6. CASE CreateModule \/ QueryModule \/ CreateInterface \/ Uninitialize
  BY <1>6, ZenonT(30) DEF CreateModule, QueryModule, CreateInterface, Uninitialize,
       Configure, CallLibrary, GoMain, SameModule, TypeOK, MainStep, Status
<1>7. CASE ModuleCreated
  <2>1. HeadLocation \in Location
    BY <1>7, EntryFacts DEF ModuleCreated, Control, MainControl, MakesModule, TypeOK
  <2>2. objects' \subseteq Object
    BY <1>7, <2>1, ObjectFacts DEF ModuleCreated, TypeOK
  <2> QED
    BY <1>7, <2>2, ZenonT(30) DEF ModuleCreated, GoMain, TypeOK, MainStep
<1>8. CASE ModuleQueried
  BY <1>8, ZenonT(30) DEF ModuleQueried, GoMain, SameModule, NextInterface, TypeOK,
       MainStep, Status
<1>9. CASE InterfaceCreated
  <2>1. made' \in 0..NumInterfaces
    BY <1>9, ServerAssumption DEF InterfaceCreated, Control, MainControl, TypeOK
  <2>2. objects' \subseteq Object
    BY <1>9 DEF InterfaceCreated, TypeOK
  <2> QED
    BY <1>9, <2>1, <2>2, ZenonT(30) DEF InterfaceCreated, GoMain, NextInterface, TypeOK,
         MainStep, Status
<1>10. CASE EnterModule
  <2>1. HeadLocation \in Location /\ Head(q)[1] \in BOOLEAN /\ Tail(q) \in Seq(Entry)
    BY <1>10, EntryFacts DEF EnterModule, Control, MainControl, MakesModule, TypeOK
  <2>2. [id |-> created, present |-> Head(q)[1], interfaces |-> {HeadLocation} \X (1..made)]
          \in Listed
    <3>1. 1..made \subseteq Interface
      BY ServerAssumption DEF TypeOK, Interface
    <3> QED
      BY <2>1, <3>1 DEF TypeOK, Listed
  <2>3. g_modules' \in [Location -> Listed \cup {UNKNOWN, NULL}]
    BY <1>10, <2>2, Zenon DEF EnterModule, TypeOK
  <2>4. made' \in 0..NumInterfaces
    BY <1>10, ServerAssumption DEF EnterModule
  <2> QED
    BY <1>10, <2>1, <2>3, <2>4, ZenonT(30) DEF EnterModule, GoMain, TypeOK, MainStep
<1>11. CASE \E c \in Client : LockApi(c)
  <2> PICK c \in Client : LockApi(c)
    BY <1>11
  <2>1. calls' \in [Client -> Call \cup {Idle}]
    BY StepFacts DEF LockApi, CallStep
  <2> QED
    BY <2>1, ZenonT(30) DEF LockApi, TypeOK
<1>12. CASE \E c \in Client : Locate(c)
  <2> PICK c \in Client : Locate(c)
    BY <1>12
  <2>1. calls' \in [Client -> Call \cup {Idle}]
    BY StepFacts, ReturnFacts DEF Locate, CallStep
  <2> QED
    BY <2>1, ZenonT(30) DEF Locate, TypeOK
<1>13. CASE \E c \in Client : CallReturns(c)
  <2> PICK c \in Client : CallReturns(c)
    BY <1>13
  <2>1. calls' \in [Client -> Call \cup {Idle}]
    BY StepFacts, ReturnFacts DEF CallReturns, CallStep
  <2>2. objects' \subseteq Object
    BY DEF CallReturns, Control, CallControl, ClientControl, TypeOK
  <2> QED
    BY <2>1, <2>2, ZenonT(30) DEF CallReturns, TypeOK
<1>14. CASE \E c \in Client : Ask(c) \/ Asked(c) \/ LocationAnswered(c) \/ ModuleAnswered(c)
  <2> PICK c \in Client : Ask(c) \/ Asked(c) \/ LocationAnswered(c) \/ ModuleAnswered(c)
    BY <1>14
  <2>1. calls' \in [Client -> Call \cup {Idle}]
    <3>1. CASE Ask(c) \/ Asked(c) \/ LocationAnswered(c)
      <4>1. Return(c) \/ Step(c, "asking") \/ Step(c, "update")
        BY <3>1, Zenon DEF Ask, Asked, LocationAnswered
      <4>2. calls[c].pc # "idle"
        BY <3>1 DEF Ask, Asked, LocationAnswered
      <4>3. "asking" \in CallStep /\ "update" \in CallStep
        BY DEF CallStep
      <4>4. CASE Return(c)
        BY <4>4, ReturnFacts
      <4>5. CASE Step(c, "asking")
        BY <4>2, <4>3, <4>5, StepFacts
      <4>6. CASE Step(c, "update")
        BY <4>2, <4>3, <4>6, StepFacts
      <4> QED
        BY <4>1, <4>4, <4>5, <4>6
    <3>2. CASE ModuleAnswered(c)
      BY <3>2, AnswerFacts DEF Control
    <3> QED
      BY <3>1, <3>2
  <2> QED
    BY <2>1, ZenonT(30) DEF Ask, Asked, LocationAnswered, ModuleAnswered, TypeOK
<1>15. CASE \E c \in Client : UpdateModule(c) \/ UpdateFirst(c) \/ UpdateNone(c) \/ UpdateNull(c)
  <2> PICK c \in Client : UpdateModule(c) \/ UpdateFirst(c) \/ UpdateNone(c) \/ UpdateNull(c)
    BY <1>15
  <2>1. /\ calls[c] \in Call /\ calls[c].object \in Object
        /\ calls[c].object[1] \in Location
    BY ObjectFacts DEF UpdateModule, UpdateFirst, UpdateNone, UpdateNull, Loops, Control,
       CallControl, ClientControl, TypeOK, Idle
  <2>2. \A k \in Location : /\ g_modules[k] \in Listed \cup {UNKNOWN, NULL}
                            /\ Known(k) => g_modules[k] \in Listed
    BY DEF TypeOK, Known
  <2>3. CASE UpdateModule(c)
    <3> DEFINE l == calls[c].object[1]
    <3>1. Known(l) => [g_modules[l] EXCEPT !.id = TRUE] \in Listed
      BY <2>1, <2>2 DEF Listed
    <3>2. ModuleIs(l) \in Listed \cup {UNKNOWN, NULL}
      BY <3>1, Zenon DEF ModuleIs
    <3> HIDE DEF l
    <3>3. g_modules' = [g_modules EXCEPT ![l] = ModuleIs(l)] /\ Return(c)
      BY <2>3 DEF UpdateModule, l
    <3>4. g_modules' \in [Location -> Listed \cup {UNKNOWN, NULL}]
      BY <3>2, <3>3, Zenon DEF TypeOK
    <3>5. calls' \in [Client -> Call \cup {Idle}]
      BY <3>3, ReturnFacts
    <3> QED
      BY <2>3, <3>4, <3>5, ZenonT(30) DEF UpdateModule, TypeOK
  <2>4. CASE UpdateFirst(c)
    <3>1. PICK k \in Sought(calls[c]) :
            /\ g_modules' = [g_modules EXCEPT ![k] = UpdateEntry(@, calls[c])]
            /\ strayed' \subseteq strayed \cup {k}
      BY <2>4 DEF UpdateFirst
    <3>2. k \in Location /\ g_modules[k] \in Listed
      BY <2>2, SoughtFacts
    <3>3. UpdateEntry(g_modules[k], calls[c]) \in Listed
      BY <2>1, <3>2, EntryUpdated
    <3>4. g_modules' \in [Location -> Listed \cup {UNKNOWN, NULL}]
      BY <3>1, <3>3, Zenon DEF TypeOK
    <3>5. calls' \in [Client -> Call \cup {Idle}]
      BY <2>4, ReturnFacts DEF UpdateFirst
    <3>6. strayed' \subseteq Location
      BY <3>1, <3>2 DEF TypeOK
    <3> QED
      BY <2>4, <3>4, <3>5, <3>6, ZenonT(30) DEF UpdateFirst, TypeOK
  <2>5. CASE UpdateNone(c)
    <3>1. calls' \in [Client -> Call \cup {Idle}]
      BY <2>5, ReturnFacts DEF UpdateNone
    <3> QED
      BY <2>5, <3>1, ZenonT(30) DEF UpdateNone, TypeOK
  <2>6. CASE UpdateNull(c)
    BY <2>6, ZenonT(30) DEF UpdateNull, TypeOK, Status
  <2> QED
    BY <2>3, <2>4, <2>5, <2>6
<1>16. CASE \E c \in Client : LockList(c) \/ List(c)
  <2> PICK c \in Client : LockList(c) \/ List(c)
    BY <1>16
  <2>1. calls' \in [Client -> Call \cup {Idle}]
    BY StepFacts, ReturnFacts DEF LockList, List, CallStep, TypeOK
  <2>2. m' \in Thread \cup {None} /\ status' \in Status
    BY DEF LockList, List, TypeOK, Thread, Status
  <2> QED
    BY <2>1, <2>2, ZenonT(30) DEF LockList, List, TypeOK
<1>17. CASE \E c \in Client : Request(c)
  <2> PICK c \in Client, op \in Op, o \in Object \cup {None} :
              /\ op \in {"create", "remove"} => o \in Object
              /\ Begin(c, op, o)
    BY <1>17, RequestFacts, Zenon
  <2> DEFINE first == CASE op = "create" /\ o[2] # 0 -> "locate"
                        [] op = "list" -> "list"
                        [] op = "capability" -> "ask"
                        [] OTHER -> "call"
  <2>1. first \in CallStep
    BY DEF CallStep, Op
  <2>2. calls' = [calls EXCEPT ![c] = [op |-> op, object |-> o, mid |-> None, pc |-> first]]
    BY DEF Begin
  <2> HIDE DEF first
  <2>3. calls' \in [Client -> Call \cup {Idle}]
    BY <2>1, <2>2 DEF TypeOK, Call
  <2>4. begun' \in 0..MaxCalls
    BY ServerAssumption DEF Begin, TypeOK
  <2>5. raced' \subseteq Location
    BY ObjectFacts DEF Begin, TypeOK
  <2> QED
    BY <2>3, <2>4, <2>5, ZenonT(30) DEF Begin, TypeOK
<1>18. CASE \E e \in Event : Report(e)
  <2> PICK e \in Event : Report(e)
    BY <1>18
  <2>1. reported' \in 0..MaxEvents
    BY ServerAssumption DEF Report, TypeOK
  <2> QED
    BY <2>1, ZenonT(30) DEF Report, TypeOK, Thread
<1>19. CASE Push \/ HandleSignal
  <2>1. q' \in Seq(Entry)
    BY <1>19, AppendFacts DEF Push, HandleSignal, TypeOK, Entry
  <2>2. count' \in Nat
    BY <1>19 DEF Push, HandleSignal, TypeOK
  <2> QED
    BY <1>19, <2>1, <2>2, ZenonT(30) DEF Push, HandleSignal, TypeOK
<1>20. CASE \E t \in Interrupted : Signal(t)
  <2>0. PICK t \in Thread : Signal(t)
    BY <1>20, InterruptedAssumption
  <2>1. signals' \in 0..MaxSignals
    BY <2>0, ServerAssumption DEF Signal, TypeOK
  <2> QED
    BY <2>0, <2>1, ZenonT(30) DEF Signal, TypeOK
<1>21. CASE UNCHANGED vars
  BY <1>21, ZenonT(30) DEF vars, TypeOK
<1> QED
  BY <1>1, <1>2, <1>3, <1>4, <1>5, <1>6, <1>7, <1>8, <1>9, <1>10, <1>11, <1>12,
     <1>13, <1>14, <1>15, <1>16, <1>17, <1>18, <1>19, <1>20, <1>21
     DEF Next, MainNext, ClientNext

-----------------------------------------------------------------------------
(***************************************************************************)
(* Control.  Others only append to the queue main works on, and a gRPC     *)
(* thread's call is its own.                                               *)
(***************************************************************************)
LEMMA NextMainControl == TypeOK /\ MainControl /\ [Next]_vars => MainControl'
<1> SUFFICES ASSUME TypeOK, MainControl, [Next]_vars
             PROVE  MainControl'
  OBVIOUS
<1> USE DEF mainVars, queueVars
<1>1. CASE UNCHANGED <<mainVars, q>>
  BY <1>1, Zenon DEF MainControl
<1>2. CASE Push \/ HandleSignal
  <2>1. \E e \in Entry : q' = Append(q, e)
    BY <1>2 DEF Push, HandleSignal, TypeOK, Entry
  <2>2. q # <<>> => q' # <<>> /\ Head(q') = Head(q)
    BY <2>1, AppendFacts DEF TypeOK
  <2>3. UNCHANGED mainVars
    BY <1>2 DEF Push, HandleSignal
  <2> QED
    BY <2>2, <2>3, Zenon DEF MainControl
<1>3. CASE Start \/ Initialize \/ start_grpc_server \/ ReadConfig \/ Read \/ Lock \/ EndDrain
  BY <1>3 DEF Start, Initialize, start_grpc_server, ReadConfig, Read, Lock, EndDrain,
       GoMain, SameModule, MainControl, MakesModule
<1>4. CASE Present
  BY <1>4 DEF Present, MainControl, MakesModule
<1>5. CASE NewModule
  <2>1. Head(q) \in Event
    BY <1>5, EntryFacts DEF NewModule, TypeOK
  <2> QED
    BY <1>5, <2>1 DEF NewModule, GoMain, SameModule, MainControl, MakesModule
<1>6. CASE CreateModule \/ QueryModule \/ CreateInterface \/ Uninitialize
  BY <1>6 DEF CreateModule, QueryModule, CreateInterface, Uninitialize, Configure, CallLibrary,
       GoMain, SameModule, MainControl, MakesModule
<1>7. CASE ModuleCreated
  BY <1>7 DEF ModuleCreated, GoMain, MainControl, MakesModule
<1>8. CASE ModuleQueried
  BY <1>8 DEF ModuleQueried, NextInterface, MoreToMake, GoMain, SameModule, MainControl,
       MakesModule
<1>9. CASE InterfaceCreated
  BY <1>9 DEF InterfaceCreated, NextInterface, MoreToMake, GoMain, MainControl,
       MakesModule
<1>10. CASE EnterModule
  BY <1>10 DEF EnterModule, GoMain, MainControl, MakesModule
<1>11. CASE PresentNull \/ Exit
  BY <1>11 DEF PresentNull, Exit, MainControl
<1>12. CASE \E c \in Client : ClientNext(c) \/ Request(c)
  <2>1. UNCHANGED <<mainVars, q>>
    BY <1>12, Zenon DEF ClientNext, Request, LockApi, Locate, CallReturns, Ask, Asked,
         LocationAnswered, ModuleAnswered, UpdateModule, UpdateFirst, UpdateNone,
         UpdateNull, LockList, List, Begin
  <2> QED
    BY <1>1, <2>1
<1>13. CASE (\E e \in Event : Report(e)) \/ (\E t \in Interrupted : Signal(t))
  <2>1. UNCHANGED <<mainVars, q>>
    BY <1>13, Zenon DEF Report, Signal
  <2> QED
    BY <1>1, <2>1
<1>14. CASE UNCHANGED vars
  BY <1>1, <1>14 DEF vars
<1> QED
  BY <1>2, <1>3, <1>4, <1>5, <1>6, <1>7, <1>8, <1>9, <1>10, <1>11, <1>12, <1>13, <1>14
     DEF Next, MainNext

(* What the other steps of a thread mean for its own call.                 *)
LEMMA NextCallControl == TypeOK /\ CallControl /\ [Next]_vars => CallControl'
<1> SUFFICES ASSUME TypeOK, CallControl, [Next]_vars, NEW d \in Client
             PROVE  ClientControl(d)'
  BY DEF CallControl
<1>1. ClientControl(d)
  BY DEF CallControl
<1>2. CASE calls'[d] = calls[d]
  BY <1>1, <1>2 DEF ClientControl
<1>3. CASE calls'[d] = Idle
  <2>1. None \notin Op
    BY ServerAssumption
  <2> QED
    BY <1>3, <2>1 DEF ClientControl, Idle, Op
<1>4. CASE \E c \in Client : LockApi(c) \/ Locate(c) \/ Ask(c) \/ LockList(c)
  <2> PICK c \in Client : LockApi(c) \/ Locate(c) \/ Ask(c) \/ LockList(c)
    BY <1>4
  <2>1. \/ Return(c)
        \/ /\ Step(c, "locating") /\ calls[c].pc = "locate"
        \/ /\ Step(c, "calling") /\ calls[c].pc = "call"
        \/ /\ Step(c, "call") /\ calls[c].pc = "locating"
        \/ /\ Step(c, "asking") /\ calls[c].pc = "ask"
        \/ /\ Step(c, "listing") /\ calls[c].pc = "list"
    BY Zenon DEF LockApi, Locate, Ask, LockList
  <2>2. CASE Return(c)
    BY <1>2, <1>3, <2>2, ReturnFacts
  <2>3. CASE d # c
    BY <1>2, <2>1, <2>3, ReturnFacts, StepFacts DEF CallStep
  <2>4. CASE d = c /\ ~Return(c)
    BY <1>1, <2>1, <2>4, StepFacts DEF ClientControl, CallStep
  <2> QED
    BY <2>2, <2>3, <2>4
<1>5. CASE \E c \in Client : CallReturns(c) \/ Asked(c) \/ LocationAnswered(c)
  <2> PICK c \in Client : CallReturns(c) \/ Asked(c) \/ LocationAnswered(c)
    BY <1>5
  <2>1. \/ Return(c)
        \/ /\ Step(c, "update") /\ calls[c].op \in {"create", "remove"}
           /\ calls[c].pc \in {"calling", "asking"}
        \/ /\ Step(c, "ask") /\ calls[c].op \in {"create", "remove"}
           /\ calls[c].pc = "calling"
    BY DEF CallReturns, Asked, LocationAnswered
  <2>2. CASE Return(c)
    BY <1>2, <1>3, <2>2, ReturnFacts
  <2>3. CASE d # c
    BY <1>2, <2>1, <2>3, ReturnFacts, StepFacts DEF CallStep
  <2>4. CASE d = c /\ ~Return(c)
    BY <1>1, <2>1, <2>4, StepFacts DEF ClientControl, CallStep
  <2> QED
    BY <2>2, <2>3, <2>4
<1>6. CASE \E c \in Client : \/ UpdateModule(c) \/ UpdateFirst(c) \/ UpdateNone(c)
                             \/ UpdateNull(c) \/ List(c)
  <2> PICK c \in Client : \/ UpdateModule(c) \/ UpdateFirst(c) \/ UpdateNone(c)
                         \/ UpdateNull(c) \/ List(c)
    BY <1>6
  <2>1. Return(c) \/ UNCHANGED calls
    BY Zenon DEF UpdateModule, UpdateFirst, UpdateNone, UpdateNull, List, callVars
  <2> QED
    BY <1>2, <1>3, <2>1, ReturnFacts
<1>9. CASE \E c \in Client : ModuleAnswered(c)
  <2> PICK c \in Client : ModuleAnswered(c)
    BY <1>9
  <2>1. CASE d # c
    BY <1>2, <2>1, AnswerFacts
  <2>2. CASE d = c
    BY <1>1, <2>2, AnswerFacts DEF ModuleAnswered, ClientControl
  <2> QED
    BY <2>1, <2>2
<1>7. CASE \E c \in Client : Request(c)
  <2> PICK c \in Client : Request(c)
    BY <1>7
  <2>1. PICK op \in Op, o \in Object \cup {None} :
          /\ op \in {"create", "remove"} => o \in Object
          /\ Begin(c, op, o)
    BY RequestFacts, Zenon
  <2> DEFINE first == CASE op = "create" /\ o[2] # 0 -> "locate"
                        [] op = "list" -> "list"
                        [] op = "capability" -> "ask"
                        [] OTHER -> "call"
  <2>2. /\ first \in {"locate", "list", "ask", "call"}
        /\ first = "locate" => op = "create"
        /\ first = "ask" => op = "capability"
        /\ first = "list" => op = "list"
    OBVIOUS
  <2>3. calls' = [calls EXCEPT ![c] = [op |-> op, object |-> o, mid |-> None, pc |-> first]]
    BY <2>1 DEF Begin
  <2> HIDE DEF first
  <2>4. CASE d # c
    BY <1>2, <2>3, <2>4 DEF TypeOK
  <2>5. CASE d = c
    BY <2>1, <2>2, <2>3, <2>5 DEF TypeOK, ClientControl
  <2> QED
    BY <2>4, <2>5
<1>8. CASE MainNext \/ Push \/ HandleSignal \/ UNCHANGED vars
             \/ (\E e \in Event : Report(e)) \/ (\E t \in Interrupted : Signal(t))
  <2>1. UNCHANGED calls
    BY <1>8, Zenon DEF MainNext, Start, Initialize, start_grpc_server, ReadConfig,
         Read, Lock, EndDrain, Present, PresentNull, NewModule, CreateModule,
         ModuleCreated, QueryModule, ModuleQueried, CreateInterface, InterfaceCreated,
         EnterModule, Uninitialize, Exit, Configure, CallLibrary, Push, HandleSignal, Report,
         Signal, callVars, vars
  <2> QED
    BY <1>2, <2>1
<1> QED
  BY <1>4, <1>5, <1>6, <1>7, <1>8, <1>9 DEF Next, ClientNext

(***************************************************************************)
(* Types and control together are inductive.                               *)
(***************************************************************************)
LEMMA ControlInvariant == Spec => [](TypeOK /\ Control)
<1>1. Init => TypeOK
  <2>1. Init => /\ q \in Seq(Entry) /\ count \in Nat /\ made \in 0..NumInterfaces
                /\ reported \in 0..MaxEvents /\ signals \in 0..MaxSignals
                /\ begun \in 0..MaxCalls
    BY ServerAssumption DEF Init
  <2> QED
    BY <2>1, ZenonT(30) DEF Init, TypeOK, Status, MainStep
<1>2. Init => Control
  <2>1. None \notin Op
    BY ServerAssumption
  <2>2. Init => MainControl
    BY DEF Init, MainControl, MakesModule
  <2>3. Init => CallControl
    BY <2>1 DEF Init, CallControl, ClientControl, Idle, Op
  <2> QED
    BY <2>2, <2>3 DEF Control
<1>3. TypeOK /\ Control /\ [Next]_vars => TypeOK' /\ Control'
  BY NextTypeOK, NextMainControl, NextCallControl DEF Control
<1> QED
  BY <1>1, <1>2, <1>3, PTL DEF Spec

(* Every variable keeps its type, however many threads call and whatever   *)
(* the library reports or refuses.                                         *)
THEOREM TypeCorrect == Spec => []TypeOK
BY ControlInvariant, PTL

-----------------------------------------------------------------------------
(***************************************************************************)
(* Whoever pushes counts the eventfd up, and main comes back to read()     *)
(* only when it has found the queue empty under the lock.                  *)
(***************************************************************************)
Signalled ==
  pc \in {"start", "init", "serve", "config", "read"} /\ q # <<>>
    => count > 0 \/ unsignalled

(* No request is left in the queue while main waits for the eventfd.       *)
THEOREM SignalledCorrect == Spec => []QueuedIsSignalled
<1>1. Init => Signalled
  BY DEF Init, Signalled
<1>2. TypeOK /\ Signalled /\ [Next]_vars => Signalled'
  <2> SUFFICES ASSUME TypeOK, Signalled, [Next]_vars
               PROVE  Signalled'
    OBVIOUS
  <2> USE DEF mainVars, queueVars
  <2>1. CASE UNCHANGED <<pc, q, count, unsignalled>>
    BY <2>1, Zenon DEF Signalled
  <2>2. CASE Push \/ HandleSignal
    BY <2>2 DEF Push, HandleSignal, TypeOK, Signalled
  <2>3. CASE Start \/ Initialize \/ start_grpc_server \/ ReadConfig \/ Read \/ Lock
    BY <2>3 DEF Start, Initialize, start_grpc_server, ReadConfig, Read, Lock, GoMain,
         SameModule, Signalled
  <2>4. CASE EndDrain
    BY <2>4 DEF EndDrain, GoMain, SameModule, Signalled
  <2>5. CASE Present \/ NewModule \/ CreateModule \/ ModuleCreated \/ QueryModule
              \/ CreateInterface \/ EnterModule \/ Uninitialize
    BY <2>5 DEF Present, NewModule, CreateModule, ModuleCreated, QueryModule,
         CreateInterface, EnterModule, Uninitialize, Configure, CallLibrary, GoMain,
         Signalled
  <2>6. CASE ModuleQueried \/ InterfaceCreated
    BY <2>6 DEF ModuleQueried, InterfaceCreated, NextInterface, GoMain, Signalled
  <2>7. CASE PresentNull \/ Exit
    BY <2>1, <2>7, Zenon DEF PresentNull, Exit
  <2>8. CASE \E c \in Client : ClientNext(c) \/ Request(c)
    <3>1. UNCHANGED <<pc, q, count, unsignalled>>
      BY <2>8, Zenon DEF ClientNext, Request, LockApi, Locate, CallReturns, Ask, Asked,
           LocationAnswered, ModuleAnswered, UpdateModule, UpdateFirst, UpdateNone,
           UpdateNull, LockList, List, Begin
    <3> QED
      BY <2>1, <3>1
  <2>9. CASE (\E e \in Event : Report(e)) \/ (\E t \in Interrupted : Signal(t))
    BY <2>1, <2>9, Zenon DEF Report, Signal
  <2>10. CASE UNCHANGED vars
    BY <2>1, <2>10 DEF vars
  <2> QED
    BY <2>2, <2>3, <2>4, <2>5, <2>6, <2>7, <2>8, <2>9, <2>10 DEF Next, MainNext
<1>3. Signalled => QueuedIsSignalled
  BY DEF Signalled, QueuedIsSignalled
<1> QED
  BY <1>1, <1>2, <1>3, TypeCorrect, PTL DEF Spec

-----------------------------------------------------------------------------
(***************************************************************************)
(* The server's list and the library.  Between the library's call and the  *)
(* update of the list they differ by the one object that is pending.       *)
(***************************************************************************)
Told(c) ==
  calls[c].op \in {"create", "remove"} => calls[c].pc \notin {"ask", "asking", "update"}

Pending(l, i) ==
  \E c \in Client : Changes(c, l) /\ ~Told(c) /\ calls[c].object = <<l, i>>

(* What the list should say.                                               *)
Shown(l, i) == <<l, i>> \in objects <=> ~Pending(l, i)

MainMakes(l) == pc \in MakesModule /\ HeadLocation = l

OneAtATime(l) ==
  /\ \A c, d \in Client : Changes(c, l) /\ Changes(d, l) => c = d
  /\ MainMakes(l) => \A c \in Client : ~Changes(c, l)

ChangeIsPending(l) ==
  \A c \in Client : Changes(c, l) /\ ~Told(c) =>
    (calls[c].op = "create" <=> calls[c].object \in objects)

ListingIsShown(l) ==
  ~MainMakes(l) =>
    /\ Known(l) /\ l \notin strayed =>
         /\ g_modules[l].id <=> Shown(l, 0)
         /\ \A i \in Interface : <<l, i>> \in g_modules[l].interfaces <=> Shown(l, i)
    /\ g_modules[l] = UNKNOWN => \A i \in 0..NumInterfaces : ~Shown(l, i)

NewModuleIsMade(l) ==
  MainMakes(l) =>
    /\ <<l, 0>> \in objects <=> created
    /\ \A i \in Interface : <<l, i>> \in objects <=> i <= made

Apart(l) ==
  OneAtATime(l) /\ ChangeIsPending(l) /\ ListingIsShown(l) /\ NewModuleIsMade(l)

Separate == \A l \in Location \ raced : Apart(l)

(***************************************************************************)
(* An interface whose module is not known when it is asked for was removed *)
(* meanwhile, so that changes at its location have overlapped: only such   *)
(* interfaces are ever listed at another location.                         *)
(***************************************************************************)
OwnInterfaces ==
  \A k \in Location : Known(k) =>
    \A o \in g_modules[k].interfaces : o[1] # k => o[1] \in raced /\ k \in strayed

MidIsKnown(c) ==
  calls[c].pc = "update" /\ calls[c].op = "create" /\ calls[c].object[2] # 0 =>
    \/ calls[c].mid = calls[c].object[1]
    \/ calls[c].mid = None /\ calls[c].object[1] \in raced

Strays == OwnInterfaces /\ \A c \in Client : MidIsKnown(c)

(***************************************************************************)
(* What a step leaves as it was at a location.  A call may end there if    *)
(* the list agrees with what it did.                                       *)
(***************************************************************************)
SameObjects(l) == \A i \in 0..NumInterfaces : <<l, i>> \in objects' <=> <<l, i>> \in objects

SameList(l) ==
  /\ l \in strayed => l \in strayed'
  /\ \/ g_modules'[l] = g_modules[l]
     \/ /\ Known(l) /\ Known(l)'
        /\ g_modules'[l].id = g_modules[l].id
        /\ \A i \in Interface :
             <<l, i>> \in g_modules'[l].interfaces <=> <<l, i>> \in g_modules[l].interfaces
     \/ Known(l) /\ Known(l)' /\ l \in strayed'

SameMain(l) ==
  /\ MainMakes(l)' <=> MainMakes(l)
  /\ MainMakes(l) => created' = created /\ made' = made

SameCalls(l) ==
  \A c \in Client :
    /\ Changes(c, l)' => /\ Changes(c, l)
                         /\ calls'[c].op = calls[c].op
                         /\ calls'[c].object = calls[c].object
                         /\ Told(c)' <=> Told(c)
    /\ Changes(c, l) /\ ~Changes(c, l)' => Told(c)

LEMMA Frame ==
  ASSUME NEW l \in Location, CallControl, Apart(l),
         SameObjects(l), SameList(l), SameMain(l), SameCalls(l)
  PROVE  Apart(l)'
<1>1. \A i \in 0..NumInterfaces : Pending(l, i)' <=> Pending(l, i)
  BY Zenon DEF Pending, SameCalls
<1>2. \A i \in 0..NumInterfaces : Shown(l, i)' <=> Shown(l, i)
  BY <1>1 DEF Shown, SameObjects
<1>3. 0 \in 0..NumInterfaces /\ Interface \subseteq 0..NumInterfaces
  BY ServerAssumption DEF Interface
<1>4. OneAtATime(l)'
  BY Zenon DEF Apart, OneAtATime, SameCalls, SameMain
<1>5. ChangeIsPending(l)'
  <2> SUFFICES ASSUME NEW c \in Client, Changes(c, l)', ~Told(c)'
               PROVE  calls'[c].op = "create" <=> calls'[c].object \in objects'
    BY DEF ChangeIsPending
  <2>1. /\ Changes(c, l) /\ ~Told(c)
        /\ calls'[c].op = calls[c].op /\ calls'[c].object = calls[c].object
    BY DEF SameCalls
  <2>2. calls[c].op = "create" <=> calls[c].object \in objects
    BY <2>1 DEF Apart, ChangeIsPending
  <2>3. \E i \in 0..NumInterfaces : calls[c].object = <<l, i>>
    BY <2>1, ObjectFacts, Zenon DEF Changes, CallControl, ClientControl
  <2> QED
    BY <2>1, <2>2, <2>3 DEF SameObjects
<1>6. ListingIsShown(l)'
  <2>1. CASE g_modules'[l] = g_modules[l] /\ (l \in strayed => l \in strayed')
    <3>1. Known(l)' <=> Known(l)
      BY <2>1 DEF Known
    <3> QED
      BY <1>2, <1>3, <2>1, <3>1 DEF Apart, ListingIsShown, SameMain
  <2>2. CASE /\ Known(l) /\ Known(l)'
             /\ l \in strayed => l \in strayed'
             /\ g_modules'[l].id = g_modules[l].id
             /\ \A i \in Interface :
                  <<l, i>> \in g_modules'[l].interfaces <=> <<l, i>> \in g_modules[l].interfaces
    <3>1. g_modules'[l] # UNKNOWN
      BY <2>2 DEF Known
    <3>2. ASSUME ~MainMakes(l)', l \notin strayed'
          PROVE  /\ g_modules'[l].id <=> Shown(l, 0)'
                 /\ \A i \in Interface : <<l, i>> \in g_modules'[l].interfaces <=> Shown(l, i)'
      <4>1. ~MainMakes(l) /\ l \notin strayed
        BY <2>2, <3>2 DEF SameMain
      <4>2. /\ g_modules[l].id <=> Shown(l, 0)
            /\ \A i \in Interface : <<l, i>> \in g_modules[l].interfaces <=> Shown(l, i)
        BY <2>2, <4>1 DEF Apart, ListingIsShown
      <4> QED
        BY <1>2, <1>3, <2>2, <4>2
    <3> QED
      BY <3>1, <3>2, Zenon DEF ListingIsShown
  <2>3. CASE Known(l) /\ Known(l)' /\ l \in strayed'
    BY <2>3, Zenon DEF ListingIsShown, Known
  <2> QED
    BY <2>1, <2>2, <2>3 DEF SameList
<1>7. NewModuleIsMade(l)'
  BY <1>3 DEF Apart, NewModuleIsMade, SameMain, SameObjects
<1> QED
  BY <1>4, <1>5, <1>6, <1>7 DEF Apart

(* A call that goes on, before the library's call or after.                *)
LEMMA StepSame ==
  ASSUME TypeOK, NEW c \in Client, NEW step \in CallStep, calls[c].pc # "idle",
         Step(c, step),
         calls[c].op \in {"create", "remove"} =>
           (calls[c].pc \in {"ask", "asking", "update"} <=>
              step \in {"ask", "asking", "update"}),
         NEW l \in Location
  PROVE  SameCalls(l)
<1> SUFFICES ASSUME NEW d \in Client
             PROVE  /\ Changes(d, l)' <=> Changes(d, l)
                    /\ calls'[d].op = calls[d].op
                    /\ calls'[d].object = calls[d].object
                    /\ Told(d)' <=> Told(d)
  BY DEF SameCalls
<1>1. CASE d = c
  BY <1>1, StepFacts DEF Changes, Told
<1>2. CASE d # c
  BY <1>2, StepFacts DEF Changes, Told
<1> QED
  BY <1>1, <1>2

(* A call that ends without anything left to tell.                         *)
LEMMA ReturnSame ==
  ASSUME TypeOK, NEW c \in Client, Return(c), Told(c), NEW l \in Location
  PROVE  SameCalls(l)
<1>1. ~Changes(c, l)'
  <2>1. None \notin Op
    BY ServerAssumption
  <2> QED
    BY <2>1, ReturnFacts DEF Changes, Idle, Op
<1>2. \A d \in Client \ {c} : calls'[d] = calls[d]
  BY ReturnFacts
<1>3. \A d \in Client \ {c} : (Changes(d, l)' <=> Changes(d, l)) /\ (Told(d)' <=> Told(d))
  BY <1>2 DEF Changes, Told
<1> QED
  BY <1>1, <1>2, <1>3 DEF SameCalls

LEMMA UnchangedSame ==
  ASSUME NEW l \in Location
  PROVE  /\ UNCHANGED objects => SameObjects(l)
         /\ UNCHANGED <<g_modules, strayed>> => SameList(l)
         /\ UNCHANGED <<pc, created, made, q>> => SameMain(l)
         /\ UNCHANGED calls => SameCalls(l)
BY DEF SameObjects, SameList, SameMain, SameCalls, MainMakes, HeadLocation, Changes, Told

(* The steps of main that make nothing, and of the others that push.       *)
LEMMA MainSame ==
  ASSUME TypeOK, Control, NEW l \in Location,
         \/ Start \/ Initialize \/ start_grpc_server \/ ReadConfig \/ Read \/ Lock
         \/ EndDrain \/ Present \/ PresentNull \/ CreateModule \/ QueryModule
         \/ ModuleQueried \/ CreateInterface \/ Uninitialize \/ Exit
         \/ Push \/ HandleSignal
  PROVE  SameObjects(l) /\ SameList(l) /\ SameMain(l) /\ SameCalls(l)
<1> USE DEF setupVars, mainVars, queueVars, callVars, listVars
<1>1. UNCHANGED <<objects, calls, strayed>>
  BY Zenon DEF Start, Initialize, start_grpc_server, ReadConfig, Read, Lock, EndDrain,
       Present, PresentNull, CreateModule, QueryModule, ModuleQueried, CreateInterface,
       Uninitialize, Exit, Push, HandleSignal, Configure, CallLibrary
<1>2. SameList(l)
  <2>1. CASE Present
    <3>1. HeadLocation \in Location
      BY <2>1, EntryFacts DEF Present, TypeOK
    <3>2. CASE l # HeadLocation
      BY <1>1, <2>1, <3>1, <3>2 DEF Present, SameList, TypeOK
    <3>3. CASE l = HeadLocation
      <4>1. g_modules[l] \in Listed
        BY <2>1, <3>3 DEF Present, Known, TypeOK
      <4>2. g_modules'[l] = [g_modules[l] EXCEPT !.present = Head(q)[1]]
        BY <2>1, <3>3 DEF Present, TypeOK
      <4>3. /\ g_modules'[l].id = g_modules[l].id
            /\ g_modules'[l].interfaces = g_modules[l].interfaces
        BY <4>1, <4>2 DEF Listed
      <4>4. g_modules'[l] \in Listed
        <5>1. Head(q)[1] \in BOOLEAN
          BY <2>1, EntryFacts DEF Present, TypeOK
        <5> QED
          BY <4>1, <4>2, <5>1 DEF Listed
      <4>5. UNKNOWN \notin Listed /\ NULL \notin Listed
        BY DEF UNKNOWN, NULL, Listed
      <4> QED
        BY <1>1, <4>1, <4>3, <4>4, <4>5, Zenon DEF SameList, Known
    <3> QED
      BY <3>2, <3>3
  <2>2. CASE ~Present
    BY <2>2, Zenon DEF SameList, Start, Initialize, start_grpc_server, ReadConfig, Read,
       Lock, EndDrain, PresentNull, CreateModule, QueryModule, ModuleQueried,
       CreateInterface, Uninitialize, Exit, Push, HandleSignal, Configure, CallLibrary
  <2> QED
    BY <2>1, <2>2
<1>3. SameMain(l)
  <2>1. CASE Push \/ HandleSignal
    <3>1. \E e \in Entry : q' = Append(q, e)
      BY <2>1 DEF Push, HandleSignal, TypeOK, Entry
    <3>2. q # <<>> => Head(q') = Head(q)
      BY <3>1, AppendFacts DEF TypeOK
    <3>3. UNCHANGED mainVars
      BY <2>1 DEF Push, HandleSignal
    <3> QED
      BY <3>2, <3>3 DEF SameMain, MainMakes, HeadLocation, Control, MainControl
  <2>2. CASE Present
    BY <2>2 DEF Present, SameMain, MainMakes, MakesModule
  <2>3. CASE Start \/ Initialize \/ start_grpc_server \/ ReadConfig \/ Read \/ Lock
             \/ EndDrain \/ Uninitialize
    BY <2>3 DEF Start, Initialize, start_grpc_server, ReadConfig, Read, Lock, EndDrain,
         Uninitialize, CallLibrary, GoMain, SameModule, SameMain, MainMakes, MakesModule
  <2>4. CASE PresentNull \/ Exit
    BY <2>4, UnchangedSame DEF PresentNull, Exit
  <2>5. CASE CreateModule \/ QueryModule \/ CreateInterface
    BY <2>5 DEF CreateModule, QueryModule, CreateInterface, Configure, CallLibrary,
         GoMain, SameModule, SameMain, MainMakes, MakesModule, HeadLocation
  <2>6. CASE ModuleQueried
    BY <2>6 DEF ModuleQueried, NextInterface, GoMain, SameModule, SameMain, MainMakes,
         MakesModule, HeadLocation
  <2> QED
    BY <2>1, <2>2, <2>3, <2>4, <2>5, <2>6
<1> QED
  BY <1>1, <1>2, <1>3, UnchangedSame

(* Main begins with a module of which the server knows nothing.            *)
LEMMA NewModuleApart ==
  ASSUME TypeOK, Control, Hierarchy, Separate, NewModule, NEW l \in Location \ raced'
  PROVE  Apart(l)'
<1> USE DEF setupVars, mainVars, queueVars, callVars, listVars
<1>1. /\ UNCHANGED <<objects, calls, g_modules, strayed, created, made, q>>
      /\ pc = "drain" /\ pc' \in {"create", "enter"}
      /\ g_modules[HeadLocation] = UNKNOWN
      /\ l \notin raced
      /\ l = HeadLocation => Busy(l) = {}
  BY DEF NewModule, GoMain, SameModule
<1>2. Apart(l)
  BY <1>1 DEF Separate
<1>3. CASE l # HeadLocation
  <2>1. SameMain(l)
    BY <1>1, <1>3 DEF SameMain, MainMakes, HeadLocation, MakesModule
  <2> QED
    BY <1>1, <1>2, <2>1, UnchangedSame, Frame DEF Control
<1>4. CASE l = HeadLocation
  <2>1. \A c \in Client : ~Changes(c, l)
    BY <1>1, <1>4 DEF Busy
  <2>2. \A c \in Client : ~Changes(c, l)'
    BY <1>1, <2>1 DEF Changes
  <2>3. \A i \in 0..NumInterfaces : <<l, i>> \notin objects
    <3>1. \A i \in 0..NumInterfaces : ~Shown(l, i)
      BY <1>1, <1>2, <1>4 DEF Apart, ListingIsShown, MainMakes, MakesModule
    <3> QED
      BY <2>1, <3>1 DEF Shown, Pending
  <2>4. 0 \in 0..NumInterfaces /\ \A i \in Interface : i \in 0..NumInterfaces /\ ~(i <= 0)
    BY ServerAssumption DEF Interface
  <2>5. ~created /\ made = 0
    BY <1>1 DEF Control, MainControl
  <2>6. NewModuleIsMade(l)'
    BY <1>1, <2>3, <2>4, <2>5 DEF NewModuleIsMade
  <2>7. MainMakes(l)'
    BY <1>1, <1>4 DEF MainMakes, MakesModule, HeadLocation
  <2> QED
    BY <2>2, <2>6, <2>7 DEF Apart, OneAtATime, ChangeIsPending, ListingIsShown
<1> QED
  BY <1>3, <1>4

(* Main makes the module and its interfaces in the library ...             *)
LEMMA CreatedApart ==
  ASSUME TypeOK, Control, Hierarchy, Separate, ModuleCreated \/ InterfaceCreated,
         NEW l \in Location \ raced'
  PROVE  Apart(l)'
<1> USE DEF setupVars, mainVars, queueVars, callVars, listVars
<1>1. /\ UNCHANGED <<calls, g_modules, strayed, q>>
      /\ l \notin raced
      /\ pc \in MakesModule /\ pc' \in MakesModule
  BY DEF ModuleCreated, InterfaceCreated, GoMain, NextInterface, MakesModule
<1>2. Apart(l)
  BY <1>1 DEF Separate
<1>3. HeadLocation \in Location
  BY <1>1, EntryFacts DEF Control, MainControl, TypeOK
<1>4. CASE l # HeadLocation
  <2>1. SameObjects(l)
    BY <1>4 DEF ModuleCreated, InterfaceCreated, SameObjects, Module
  <2>2. SameMain(l)
    BY <1>1, <1>4 DEF SameMain, MainMakes, HeadLocation
  <2> QED
    BY <1>1, <1>2, <2>1, <2>2, UnchangedSame, Frame DEF Control
<1>5. CASE l = HeadLocation
  <2>1. MainMakes(l) /\ MainMakes(l)'
    BY <1>1, <1>5 DEF MainMakes, HeadLocation
  <2>2. \A c \in Client : ~Changes(c, l) /\ ~Changes(c, l)'
    BY <1>1, <1>2, <2>1 DEF Apart, OneAtATime, Changes
  <2>3. /\ <<l, 0>> \in objects <=> created
        /\ \A i \in Interface : <<l, i>> \in objects <=> i <= made
    BY <1>2, <2>1 DEF Apart, NewModuleIsMade
  <2>4. /\ <<l, 0>> \in objects' <=> created'
        /\ \A i \in Interface : <<l, i>> \in objects' <=> i <= made'
    <3>1. CASE ModuleCreated
      <4>1. ~created /\ made' = made
        BY <3>1 DEF ModuleCreated, Control, MainControl
      <4>2. \/ objects' = objects \cup {<<l, 0>>} /\ created'
            \/ UNCHANGED <<objects, created>>
        BY <1>5, <3>1 DEF ModuleCreated, Module
      <4>3. \A i \in Interface : <<l, i>> # <<l, 0>>
        BY DEF Interface
      <4> QED
        BY <2>3, <4>1, <4>2, <4>3
    <3>2. CASE InterfaceCreated
      <4>1. made \in Nat /\ Interface \subseteq Nat \ {0}
        BY ServerAssumption DEF TypeOK, Interface
      <4>2. \/ /\ objects' = objects \cup {<<l, made + 1>>}
               /\ made' = made + 1
            \/ UNCHANGED <<objects, made>>
        BY <1>5, <3>2 DEF InterfaceCreated
      <4>3. created' = created
        BY <3>2 DEF InterfaceCreated
      <4>4. CASE /\ objects' = objects \cup {<<l, made + 1>>}
                 /\ made' = made + 1
        <5>1. \A i \in Nat : <<l, i>> = <<l, made + 1>> <=> i = made + 1
          OBVIOUS
        <5>2. \A i \in Interface : i <= made + 1 <=> i <= made \/ i = made + 1
          BY <4>1
        <5>3. 0 # made + 1
          BY <4>1
        <5> QED
          BY <2>3, <4>1, <4>3, <4>4, <5>1, <5>2, <5>3
      <4> QED
        BY <2>3, <4>2, <4>3, <4>4
    <3> QED
      BY <3>1, <3>2
  <2>5. NewModuleIsMade(l)'
    BY <2>4 DEF NewModuleIsMade
  <2> QED
    BY <2>1, <2>2, <2>5 DEF Apart, OneAtATime, ChangeIsPending, ListingIsShown
<1> QED
  BY <1>4, <1>5

(* ... and enters it in the list as it made it.                            *)
LEMMA EnterApart ==
  ASSUME TypeOK, Control, Hierarchy, Separate, EnterModule, NEW l \in Location \ raced'
  PROVE  Apart(l)'
<1> USE DEF setupVars, mainVars, queueVars, callVars, listVars
<1>1. /\ UNCHANGED <<calls, objects, strayed>>
      /\ l \notin raced
      /\ pc \in MakesModule /\ pc' \notin MakesModule
  BY DEF EnterModule, GoMain, MakesModule
<1>2. Apart(l)
  BY <1>1 DEF Separate
<1>3. HeadLocation \in Location
  BY <1>1, EntryFacts DEF Control, MainControl, TypeOK
<1>4. CASE l # HeadLocation
  <2>1. SameList(l)
    BY <1>1, <1>3, <1>4 DEF EnterModule, SameList, TypeOK
  <2>2. SameMain(l)
    BY <1>1, <1>4 DEF SameMain, MainMakes
  <2> QED
    BY <1>1, <1>2, <2>1, <2>2, UnchangedSame, Frame DEF Control
<1>5. CASE l = HeadLocation
  <2>1. MainMakes(l) /\ ~MainMakes(l)'
    BY <1>1, <1>5 DEF MainMakes
  <2>2. \A c \in Client : ~Changes(c, l)'
    BY <1>1, <1>2, <2>1 DEF Apart, OneAtATime, Changes
  <2>3. /\ <<l, 0>> \in objects <=> created
        /\ \A i \in Interface : <<l, i>> \in objects <=> i <= made
    BY <1>2, <2>1 DEF Apart, NewModuleIsMade
  <2>4. g_modules'[l] = [id |-> created, present |-> Head(q)[1],
                         interfaces |-> {l} \X (1..made)]
    BY <1>5 DEF EnterModule, TypeOK
  <2>5. /\ g_modules'[l].id = created
        /\ \A i \in Interface : <<l, i>> \in g_modules'[l].interfaces <=> i <= made
    BY <2>4, ServerAssumption DEF TypeOK, Interface
  <2>6. g_modules'[l] # UNKNOWN
    BY <2>4 DEF UNKNOWN
  <2>7. \A i \in 0..NumInterfaces : Shown(l, i)' <=> <<l, i>> \in objects'
    BY <2>2 DEF Shown, Pending
  <2>8. 0 \in 0..NumInterfaces /\ Interface \subseteq 0..NumInterfaces
    BY ServerAssumption DEF Interface
  <2>9. ListingIsShown(l)'
    BY <1>1, <2>3, <2>5, <2>6, <2>7, <2>8 DEF ListingIsShown
  <2> QED
    BY <2>1, <2>2, <2>9 DEF Apart, OneAtATime, ChangeIsPending, NewModuleIsMade
<1> QED
  BY <1>4, <1>5

(* A client's call begins: where it changes a location it is alone there,  *)
(* or the location is raced.                                               *)
LEMMA BeginApart ==
  ASSUME TypeOK, Control, Separate, NEW c \in Client, NEW op \in Op,
         NEW o \in Object \cup {None}, op \in {"create", "remove"} => o \in Object,
         Begin(c, op, o), NEW l \in Location \ raced'
  PROVE  Apart(l)'
<1> USE DEF setupVars, mainVars, queueVars, callVars, listVars
<1> DEFINE first == CASE op = "create" /\ o[2] # 0 -> "locate"
                      [] op = "list" -> "list"
                      [] op = "capability" -> "ask"
                      [] OTHER -> "call"
<1>1. /\ UNCHANGED <<objects, g_modules, strayed, pc, created, made, q>>
      /\ l \notin raced
      /\ calls[c] = Idle
      /\ op \in {"create", "remove"} /\ o[1] = l => Busy(l) = {}
  BY DEF Begin
<1>2. Apart(l)
  BY <1>1 DEF Separate
<1>3. first \in {"locate", "list", "ask", "call"} /\ (first = "ask" => op = "capability")
  OBVIOUS
<1>4. calls' = [calls EXCEPT ![c] = [op |-> op, object |-> o, mid |-> None, pc |-> first]]
  BY DEF Begin
<1> HIDE DEF first
<1>5. /\ calls'[c].op = op /\ calls'[c].object = o /\ calls'[c].pc = first
      /\ \A d \in Client \ {c} : calls'[d] = calls[d]
  BY <1>4 DEF TypeOK
<1>6. ~Changes(c, l)
  <2>1. None \notin Op
    BY ServerAssumption
  <2> QED
    BY <1>1, <2>1 DEF Changes, Idle, Op
<1>7. \A d \in Client \ {c} : (Changes(d, l)' <=> Changes(d, l)) /\ (Told(d)' <=> Told(d))
  BY <1>5 DEF Changes, Told
<1>8. Changes(c, l)' => op \in {"create", "remove"} /\ o[1] = l
  BY <1>5 DEF Changes
<1>9. CASE ~Changes(c, l)'
  <2>1. SameCalls(l)
    BY <1>5, <1>6, <1>7, <1>9 DEF SameCalls
  <2> QED
    BY <1>1, <1>2, <2>1, UnchangedSame, Frame DEF Control
<1>10. CASE Changes(c, l)'
  <2>1. (\A d \in Client : ~Changes(d, l)) /\ ~MainMakes(l)
    BY <1>1, <1>8, <1>10 DEF Busy, MainMakes, HeadLocation
  <2>2. ~MainMakes(l)'
    BY <1>1, <2>1 DEF MainMakes, HeadLocation
  <2>3. Told(c)'
    BY <1>3, <1>5, <1>8, <1>10 DEF Told
  <2>4. \A d \in Client : Changes(d, l)' => d = c
    BY <1>7, <2>1
  <2>5. \A i \in 0..NumInterfaces : Shown(l, i)' <=> Shown(l, i)
    BY <1>1, <2>1, <2>3, <2>4 DEF Shown, Pending
  <2>6. 0 \in 0..NumInterfaces /\ Interface \subseteq 0..NumInterfaces
    BY ServerAssumption DEF Interface
  <2>7. Known(l)' <=> Known(l)
    BY <1>1 DEF Known
  <2>8. ListingIsShown(l)'
    BY <1>1, <1>2, <2>1, <2>5, <2>6, <2>7 DEF Apart, ListingIsShown
  <2> QED
    BY <2>2, <2>3, <2>4, <2>8 DEF Apart, OneAtATime, ChangeIsPending, NewModuleIsMade
<1> QED
  BY <1>9, <1>10

(* The library's call returns: from then on its object is pending.         *)
LEMMA CallReturnsApart ==
  ASSUME TypeOK, Control, Separate, NEW c \in Client, CallReturns(c),
         NEW l \in Location \ raced'
  PROVE  Apart(l)'
<1> USE DEF setupVars, mainVars, queueVars, callVars, listVars
<1>1. /\ UNCHANGED <<g_modules, strayed, pc, created, made, q>>
      /\ l \notin raced
      /\ calls[c].pc = "calling"
  BY DEF CallReturns
<1>2. Apart(l)
  BY <1>1 DEF Separate
<1>3. Told(c)
  BY <1>1 DEF Told
<1> DEFINE o == calls[c].object
<1>4. CASE Return(c) /\ UNCHANGED objects
  BY <1>1, <1>2, <1>3, <1>4, ReturnSame, UnchangedSame, Frame DEF Control
<1>5. CASE ~(Return(c) /\ UNCHANGED objects)
  <2>1. /\ calls[c].op \in {"create", "remove"}
        /\ calls[c].op = "create" => o \notin objects /\ objects' = objects \cup {o}
        /\ calls[c].op = "remove" => o \in objects /\ objects' = objects \ {o}
        /\ Step(c, "ask") \/ Step(c, "update")
    BY <1>5 DEF CallReturns, CanCreate, CanRemove
  <2>2. o \in Object /\ o = <<o[1], o[2]>> /\ o[2] \in 0..NumInterfaces
    BY <2>1, ObjectFacts DEF Control, CallControl, ClientControl
  <2>3. /\ calls'[c].pc \in {"ask", "update"}
        /\ calls'[c].op = calls[c].op /\ calls'[c].object = o
        /\ \A d \in Client \ {c} : calls'[d] = calls[d]
    BY <1>1, <2>1, StepFacts DEF CallStep
  <2>4. \A d \in Client : Changes(d, l)' <=> Changes(d, l)
    BY <2>3 DEF Changes
  <2>5. \A d \in Client \ {c} : Told(d)' <=> Told(d)
    BY <2>3 DEF Told
  <2>6. ~Told(c)'
    BY <2>1, <2>3 DEF Told
  <2> HIDE DEF o
  <2>7. CASE o[1] # l
    <3>1. ~Changes(c, l)
      BY <2>7 DEF Changes, o
    <3>2. SameCalls(l)
      BY <2>3, <2>4, <2>5, <3>1 DEF SameCalls
    <3>3. \A i \in 0..NumInterfaces : <<l, i>> # o
      BY <2>7
    <3>4. SameObjects(l)
      BY <2>1, <3>3 DEF SameObjects
    <3> QED
      BY <1>1, <1>2, <3>2, <3>4, UnchangedSame, Frame DEF Control
  <2>8. CASE o[1] = l
    <3>1. Changes(c, l)
      BY <2>1, <2>8 DEF Changes, o
    <3>2. (\A d \in Client : Changes(d, l) => d = c) /\ ~MainMakes(l)
      BY <1>2, <3>1 DEF Apart, OneAtATime
    <3>3. ~MainMakes(l)'
      BY <1>1, <3>2 DEF MainMakes, HeadLocation
    <3>4. \A i \in 0..NumInterfaces : Pending(l, i)' <=> <<l, i>> = o
      BY <2>3, <2>4, <2>6, <3>1, <3>2 DEF Pending
    <3>5. \A i \in 0..NumInterfaces : ~Pending(l, i)
      BY <1>3, <3>2 DEF Pending
    <3>6. \A i \in 0..NumInterfaces : Shown(l, i)' <=> Shown(l, i)
      BY <2>1, <3>4, <3>5 DEF Shown
    <3>7. 0 \in 0..NumInterfaces /\ Interface \subseteq 0..NumInterfaces
      BY ServerAssumption DEF Interface
    <3>8. Known(l)' <=> Known(l)
      BY <1>1 DEF Known
    <3>9. ListingIsShown(l)'
      BY <1>1, <1>2, <3>2, <3>6, <3>7, <3>8 DEF Apart, ListingIsShown
    <3>10. ChangeIsPending(l)'
      BY <2>1, <2>3, <2>4, <3>2 DEF ChangeIsPending
    <3>11. OneAtATime(l)'
      BY <2>4, <3>2, <3>3 DEF OneAtATime
    <3> QED
      BY <3>3, <3>9, <3>10, <3>11 DEF Apart, NewModuleIsMade
  <2> QED
    BY <2>7, <2>8
<1> QED
  BY <1>4, <1>5

(* What a call that has returned from the library finds at its location,   *)
(* where it is alone.                                                      *)
LEMMA PendingFacts ==
  ASSUME TypeOK, Control, Separate, NEW c \in Client, calls[c].pc = "update",
         calls[c].object[1] \notin raced
  PROVE  LET l == calls[c].object[1]
             i == calls[c].object[2]
         IN  /\ l \in Location /\ i \in 0..NumInterfaces /\ calls[c].object = <<l, i>>
             /\ Changes(c, l) /\ ~Told(c) /\ ~MainMakes(l)
             /\ \A d \in Client : Changes(d, l) => d = c
             /\ calls[c].op = "create" <=> <<l, i>> \in objects
             /\ \A j \in 0..NumInterfaces :
                  Shown(l, j) <=> (<<l, j>> \in objects <=> j # i)
<1> DEFINE l == calls[c].object[1]
           i == calls[c].object[2]
<1>1. calls[c].op \in {"create", "remove"}
  BY DEF Control, CallControl, ClientControl
<1>2. /\ l \in Location /\ i \in 0..NumInterfaces /\ calls[c].object = <<l, i>>
  BY <1>1, ObjectFacts DEF Control, CallControl, ClientControl
<1>3. Changes(c, l) /\ ~Told(c)
  BY <1>1 DEF Changes, Told
<1>4. Apart(l)
  BY <1>2 DEF Separate
<1> HIDE DEF l, i
<1>5. ~MainMakes(l) /\ \A d \in Client : Changes(d, l) => d = c
  BY <1>3, <1>4 DEF Apart, OneAtATime
<1>6. calls[c].op = "create" <=> <<l, i>> \in objects
  BY <1>2, <1>3, <1>4 DEF Apart, ChangeIsPending
<1>7. \A j \in 0..NumInterfaces : Pending(l, j) <=> j = i
  BY <1>2, <1>3, <1>5 DEF Pending
<1>8. \A j \in 0..NumInterfaces : Shown(l, j) <=> (<<l, j>> \in objects <=> j # i)
  BY <1>7 DEF Shown
<1> QED
  BY <1>2, <1>3, <1>5, <1>6, <1>8 DEF l, i

(* The end of an update at a location where nothing is under way: the list *)
(* says what is there.                                                     *)
LEMMA UpdatedApart ==
  ASSUME TypeOK, Control, Separate, NEW c \in Client, calls[c].pc = "update",
         NEW l \in Location \ raced, calls[c].object[1] = l, Return(c),
         UNCHANGED <<objects, pc, q, raced>>,
         Known(l)' /\ l \notin strayed' =>
           /\ g_modules'[l].id <=> <<l, 0>> \in objects
           /\ \A j \in Interface : <<l, j>> \in g_modules'[l].interfaces <=> <<l, j>> \in objects,
         g_modules'[l] # UNKNOWN
  PROVE  Apart(l)'
<1>1. /\ calls'[c] = Idle
      /\ \A d \in Client \ {c} : calls'[d] = calls[d]
  BY ReturnFacts
<1>2. ~Changes(c, l)'
  <2>1. None \notin Op
    BY ServerAssumption
  <2> QED
    BY <1>1, <2>1 DEF Changes, Idle, Op
<1>3. (\A d \in Client : Changes(d, l) => d = c) /\ ~MainMakes(l)
  BY PendingFacts
<1>4. \A d \in Client : ~Changes(d, l)'
  BY <1>1, <1>2, <1>3 DEF Changes
<1>5. ~MainMakes(l)'
  BY <1>3 DEF MainMakes, HeadLocation
<1>6. \A j \in 0..NumInterfaces : Shown(l, j)' <=> <<l, j>> \in objects
  BY <1>4 DEF Shown, Pending
<1>7. 0 \in 0..NumInterfaces /\ Interface \subseteq 0..NumInterfaces
  BY ServerAssumption DEF Interface
<1>8. ListingIsShown(l)'
  BY <1>6, <1>7 DEF ListingIsShown
<1> QED
  BY <1>4, <1>5, <1>8 DEF Apart, OneAtATime, ChangeIsPending, NewModuleIsMade

(* An update, seen from another location.                                  *)
LEMMA UpdateElsewhere ==
  ASSUME TypeOK, Control, NEW c \in Client, calls[c].pc = "update",
         NEW l \in Location, Apart(l), calls[c].object[1] # l, Return(c),
         UNCHANGED <<objects, pc, created, made, q>>, SameList(l)
  PROVE  Apart(l)'
<1>1. /\ calls'[c] = Idle
      /\ \A d \in Client \ {c} : calls'[d] = calls[d]
  BY ReturnFacts
<1>2. ~Changes(c, l)'
  <2>1. None \notin Op
    BY ServerAssumption
  <2> QED
    BY <1>1, <2>1 DEF Changes, Idle, Op
<1>3. \A d \in Client \ {c} : (Changes(d, l)' <=> Changes(d, l)) /\ (Told(d)' <=> Told(d))
  BY <1>1 DEF Changes, Told
<1>4. ~Changes(c, l)
  BY DEF Changes
<1>5. SameCalls(l)
  BY <1>1, <1>2, <1>3, <1>4 DEF SameCalls
<1> QED
  BY <1>5, UnchangedSame, Frame DEF Control

(* object_update() of a new module ...                                     *)
LEMMA UpdateModuleApart ==
  ASSUME TypeOK, Control, Separate, NEW c \in Client, UpdateModule(c),
         NEW l \in Location \ raced'
  PROVE  Apart(l)'
<1> USE DEF setupVars, mainVars, queueVars, callVars, listVars
<1> DEFINE k == calls[c].object[1]
<1>1. /\ UNCHANGED <<objects, pc, created, made, q, raced, strayed>>
      /\ calls[c].pc = "update" /\ calls[c].op = "create" /\ calls[c].object[2] = 0
      /\ g_modules' = [g_modules EXCEPT ![k] = ModuleIs(k)]
      /\ Return(c)
  BY DEF UpdateModule
<1>2. Apart(l)
  BY <1>1 DEF Separate
<1>3. CASE k # l
  <2>1. g_modules'[l] = g_modules[l]
    BY <1>1, <1>3 DEF TypeOK
  <2>2. SameList(l)
    BY <1>1, <2>1 DEF SameList
  <2> QED
    BY <1>1, <1>2, <1>3, <2>2, UpdateElsewhere
<1>4. CASE k = l
  <2>1. /\ ~MainMakes(l) /\ <<l, 0>> \in objects
        /\ \A j \in 0..NumInterfaces : Shown(l, j) <=> (<<l, j>> \in objects <=> j # 0)
    BY <1>1, <1>4, PendingFacts
  <2>2. g_modules'[l] = ModuleIs(l)
    BY <1>1, <1>4 DEF TypeOK
  <2>3. UNKNOWN # NULL /\ UNKNOWN \notin Listed /\ NULL \notin Listed
    BY DEF UNKNOWN, NULL, Listed
  <2>4. ASSUME Known(l)
        PROVE  /\ g_modules'[l] \in Listed /\ g_modules'[l].id
               /\ g_modules'[l].interfaces = g_modules[l].interfaces
    <3>1. g_modules[l] \in Listed
      BY <2>4 DEF TypeOK, Known
    <3>2. g_modules'[l] = [g_modules[l] EXCEPT !.id = TRUE]
      BY <2>2, <2>4 DEF ModuleIs
    <3> QED
      BY <3>1, <3>2 DEF Listed
  <2>5. ~Known(l) => g_modules'[l] = NULL
    BY <2>2 DEF ModuleIs
  <2>6. g_modules'[l] # UNKNOWN
    BY <2>3, <2>4, <2>5
  <2>7. Interface \subseteq 0..NumInterfaces \ {0}
    BY ServerAssumption DEF Interface
  <2>8. ASSUME Known(l)', l \notin strayed'
        PROVE  /\ g_modules'[l].id <=> <<l, 0>> \in objects
               /\ \A j \in Interface :
                    <<l, j>> \in g_modules'[l].interfaces <=> <<l, j>> \in objects
    <3>1. Known(l)
      BY <2>5, <2>8 DEF Known
    <3>2. \A j \in Interface : <<l, j>> \in g_modules[l].interfaces <=> Shown(l, j)
      BY <1>1, <1>2, <2>1, <2>8, <3>1 DEF Apart, ListingIsShown
    <3> QED
      BY <2>1, <2>4, <2>7, <3>1, <3>2
  <2> QED
    BY <1>1, <1>4, <2>6, <2>8, UpdatedApart
<1> QED
  BY <1>3, <1>4

(* ... of one whose loop ends at an entry: it is the right one, or the     *)
(* entry is strayed ...                                                    *)
LEMMA SoughtIsOwn ==
  ASSUME TypeOK, Control, Strays, NEW c \in Client, Loops(c), NEW k \in Sought(calls[c]),
         calls[c].object[1] # k
  PROVE  /\ calls[c].object[1] \in raced
         /\ \/ calls[c].op = "create" /\ calls[c].mid = None
            \/ calls[c].op = "remove" /\ calls[c].object[2] # 0
<1>1. k \in Location /\ Known(k)
  BY SoughtFacts
<1>2. calls[c].op \in {"create", "remove"} /\ calls[c].pc = "update"
  BY DEF Loops, Control, CallControl, ClientControl
<1>3. calls[c].object \in Object /\ calls[c].object[1] \in Location
  BY <1>2, ObjectFacts DEF Control, CallControl, ClientControl
<1>4. None \notin Location
  BY ServerAssumption
<1>5. calls[c].object[2] # 0
  <2>1. CASE calls[c].object[2] = 0
    BY <1>3, <1>4, <2>1 DEF Sought, WithId
  <2> QED
    BY <2>1
<1>6. CASE calls[c].op = "create"
  <2>1. k \in WithId(calls[c].mid)
    BY <1>5, <1>6 DEF Sought
  <2>2. \/ calls[c].mid = calls[c].object[1]
        \/ calls[c].mid = None /\ calls[c].object[1] \in raced
    BY <1>2, <1>5, <1>6 DEF Strays, MidIsKnown
  <2>3. calls[c].mid # calls[c].object[1]
    BY <1>3, <1>4, <2>1 DEF WithId
  <2> QED
    BY <1>6, <2>2, <2>3
<1>7. CASE calls[c].op = "remove"
  <2>1. calls[c].object \in g_modules[k].interfaces
    BY <1>5, <1>7 DEF Sought
  <2> QED
    BY <1>1, <1>5, <1>7, <2>1 DEF Strays, OwnInterfaces
<1> QED
  BY <1>2, <1>6, <1>7

(* What the loop does to the entry it ends at.                             *)
LEMMA UpdateEntryFacts ==
  ASSUME NEW g \in Listed, NEW call \in Call, call.object \in Object
  PROVE  LET n == UpdateEntry(g, call) IN
         /\ call.object[2] = 0 => ~n.id /\ n.interfaces = g.interfaces
         /\ call.object[2] # 0 => n.id = g.id
         /\ call.object[2] # 0 /\ call.op = "create" =>
              \/ n.interfaces = g.interfaces \cup {call.object}
              \/ n = g /\ \E o \in g.interfaces : o[2] = call.object[2]
         /\ call.object[2] # 0 /\ call.op # "create" =>
              n.interfaces = g.interfaces \ {call.object}
<1>1. /\ [g EXCEPT !.id = FALSE].id = FALSE
      /\ [g EXCEPT !.id = FALSE].interfaces = g.interfaces
  BY DEF Listed
<1>2. \A S : /\ [g EXCEPT !.interfaces = S].id = g.id
             /\ [g EXCEPT !.interfaces = S].interfaces = S
  BY DEF Listed
<1> QED
  BY <1>1, <1>2, Zenon DEF UpdateEntry

LEMMA UpdateFirstApart ==
  ASSUME TypeOK, Control, Hierarchy, Separate, Strays, NEW c \in Client, UpdateFirst(c),
         NEW l \in Location \ raced'
  PROVE  Apart(l)'
<1> USE DEF setupVars, mainVars, queueVars, callVars, listVars
<1>1. /\ UNCHANGED <<objects, pc, created, made, q, raced>>
      /\ Loops(c) /\ calls[c].pc = "update" /\ Return(c)
  BY DEF UpdateFirst, Loops
<1>2. Apart(l)
  BY <1>1 DEF Separate
<1>3. PICK k \in Sought(calls[c]) :
        /\ g_modules' = [g_modules EXCEPT ![k] = UpdateEntry(@, calls[c])]
        /\ strayed' = IF calls[c].op = "create" /\ calls[c].mid = None
                      THEN strayed \cup {k} ELSE strayed
  BY DEF UpdateFirst
<1>4. k \in Location /\ Known(k) /\ g_modules[k] \in Listed
  BY SoughtFacts DEF TypeOK, Known
<1>5. calls[c] \in Call /\ calls[c].object \in Object /\ calls[c].op \in {"create", "remove"}
  BY <1>1 DEF Control, CallControl, ClientControl, TypeOK, Idle
<1> DEFINE o == calls[c].object
           n == UpdateEntry(g_modules[k], calls[c])
<1>6. /\ o = <<o[1], o[2]>> /\ (o[2] # 0 => o[2] \in Interface)
  BY <1>5, ObjectFacts
<1>7. n \in Listed
  BY <1>4, <1>5, EntryUpdated
<1>8. /\ o[2] = 0 => ~n.id /\ n.interfaces = g_modules[k].interfaces
      /\ o[2] # 0 => n.id = g_modules[k].id
      /\ o[2] # 0 /\ calls[c].op = "create" =>
           \/ n.interfaces = g_modules[k].interfaces \cup {o}
           \/ n = g_modules[k] /\ \E p \in g_modules[k].interfaces : p[2] = o[2]
      /\ o[2] # 0 /\ calls[c].op # "create" => n.interfaces = g_modules[k].interfaces \ {o}
  BY <1>4, <1>5, UpdateEntryFacts
<1>9. /\ g_modules'[k] = n
      /\ l # k => g_modules'[l] = g_modules[l]
  BY <1>3, <1>4 DEF TypeOK
<1>10. strayed \subseteq strayed'
  BY <1>3
<1>11. UNKNOWN \notin Listed /\ NULL \notin Listed
  BY DEF UNKNOWN, NULL, Listed
<1> HIDE DEF o, n
<1>12. CASE o[1] # l
  <2>1. CASE l # k
    <3>1. SameList(l)
      BY <1>9, <1>10, <2>1 DEF SameList
    <3> QED
      BY <1>1, <1>2, <1>12, <3>1, UpdateElsewhere DEF o
  <2>2. CASE l = k
    <3>1. Known(l) /\ Known(l)'
      BY <1>4, <1>7, <1>9, <1>11, <2>2 DEF Known
    <3>2. \/ calls[c].op = "create" /\ calls[c].mid = None
          \/ calls[c].op = "remove" /\ o[2] # 0
      BY <1>1, <1>12, <2>2, SoughtIsOwn DEF o
    <3>3. CASE calls[c].op = "create" /\ calls[c].mid = None
      <4>1. l \in strayed'
        BY <1>3, <2>2, <3>3
      <4>2. SameList(l)
        BY <3>1, <4>1 DEF SameList
      <4> QED
        BY <1>1, <1>2, <1>12, <4>2, UpdateElsewhere DEF o
    <3>4. CASE calls[c].op = "remove" /\ o[2] # 0
      <4>1. /\ g_modules'[l].id = g_modules[l].id
            /\ g_modules'[l].interfaces = g_modules[l].interfaces \ {o}
        BY <1>8, <1>9, <2>2, <3>4
      <4>2. \A i \in Interface : <<l, i>> # o
        BY <1>6, <1>12
      <4>3. SameList(l)
        BY <1>10, <3>1, <4>1, <4>2 DEF SameList
      <4> QED
        BY <1>1, <1>2, <1>12, <4>3, UpdateElsewhere DEF o
    <3> QED
      BY <3>2, <3>3, <3>4
  <2> QED
    BY <2>1, <2>2
<1>13. CASE o[1] = l
  <2>1. l = k
    BY <1>1, <1>13, SoughtIsOwn DEF o
  <2>2. /\ ~MainMakes(l)
        /\ calls[c].op = "create" <=> <<l, o[2]>> \in objects
        /\ \A j \in 0..NumInterfaces : Shown(l, j) <=> (<<l, j>> \in objects <=> j # o[2])
    BY <1>1, <1>13, PendingFacts DEF o
  <2>3. 0 \in 0..NumInterfaces /\ Interface \subseteq 0..NumInterfaces \ {0}
    BY ServerAssumption DEF Interface
  <2>4. g_modules'[l] # UNKNOWN
    BY <1>7, <1>9, <1>11, <2>1
  <2>5. ASSUME l \notin strayed'
        PROVE  /\ g_modules'[l].id <=> <<l, 0>> \in objects
               /\ \A j \in Interface :
                    <<l, j>> \in g_modules'[l].interfaces <=> <<l, j>> \in objects
    <3>1. /\ g_modules[l].id <=> Shown(l, 0)
          /\ \A j \in Interface : <<l, j>> \in g_modules[l].interfaces <=> Shown(l, j)
      BY <1>2, <1>4, <1>10, <2>1, <2>2, <2>5 DEF Apart, ListingIsShown
    <3>2. \A p \in g_modules[l].interfaces : p[1] = l /\ p = <<p[1], p[2]>>
      BY <1>4, <1>10, <2>1, <2>5 DEF Strays, OwnInterfaces, Listed
    <3>3. CASE o[2] = 0
      <4>1. calls[c].op = "remove"
        BY <1>1, <1>5, <3>3 DEF Loops, o
      <4>2. ~n.id /\ n.interfaces = g_modules[l].interfaces
        BY <1>8, <2>1, <3>3
      <4> QED
        BY <1>9, <2>1, <2>2, <2>3, <3>1, <3>3, <4>1, <4>2
    <3>4. CASE o[2] # 0 /\ calls[c].op = "create"
      <4>1. n.id = g_modules[l].id /\ n.interfaces = g_modules[l].interfaces \cup {o}
        <5>1. (\E p \in g_modules[l].interfaces : p[2] = o[2])
                => o \in g_modules[l].interfaces
          BY <1>6, <1>13, <3>2
        <5> QED
          BY <1>8, <2>1, <3>4, <5>1
      <4>2. g_modules[l].id /\ <<l, 0>> \in objects
        <5>1. Module(l) \in objects
          BY <1>6, <1>13, <2>2, <3>4 DEF Hierarchy
        <5> QED
          BY <2>2, <2>3, <3>1, <3>4, <5>1 DEF Module
      <4> QED
        BY <1>6, <1>9, <1>13, <2>1, <2>2, <2>3, <3>1, <3>4, <4>1, <4>2
    <3>5. CASE o[2] # 0 /\ calls[c].op # "create"
      <4>1. n.id = g_modules[l].id /\ n.interfaces = g_modules[l].interfaces \ {o}
        BY <1>8, <2>1, <3>5
      <4> QED
        BY <1>6, <1>9, <1>13, <2>1, <2>2, <2>3, <3>1, <3>5, <4>1
    <3> QED
      BY <3>3, <3>4, <3>5
  <2> QED
    BY <1>1, <1>13, <2>4, <2>5, UpdatedApart DEF o
<1> QED
  BY <1>12, <1>13

(* ... and of one whose loop finds no entry, which there is if the         *)
(* location is known and not strayed.                                      *)
LEMMA UpdateNoneApart ==
  ASSUME TypeOK, Control, Hierarchy, Separate, Strays, NEW c \in Client, UpdateNone(c),
         NEW l \in Location \ raced'
  PROVE  Apart(l)'
<1> USE DEF setupVars, mainVars, queueVars, callVars, listVars
<1>1. /\ UNCHANGED <<objects, g_modules, strayed, pc, created, made, q, raced>>
      /\ Loops(c) /\ calls[c].pc = "update" /\ Return(c)
      /\ Sought(calls[c]) = {}
  BY DEF UpdateNone, Loops
<1>2. Apart(l)
  BY <1>1 DEF Separate
<1> DEFINE o == calls[c].object
<1>3. CASE o[1] # l
  <2>1. SameList(l)
    BY <1>1 DEF SameList
  <2> QED
    BY <1>1, <1>2, <1>3, <2>1, UpdateElsewhere
<1>4. CASE o[1] = l
  <2>1. /\ ~MainMakes(l) /\ o[2] \in 0..NumInterfaces /\ o = <<l, o[2]>>
        /\ calls[c].op = "create" <=> <<l, o[2]>> \in objects
        /\ \A j \in 0..NumInterfaces : Shown(l, j) <=> (<<l, j>> \in objects <=> j # o[2])
    BY <1>1, <1>4, PendingFacts
  <2>2. calls[c].op \in {"create", "remove"}
    BY <1>1 DEF Control, CallControl, ClientControl
  <2>3. 0 \in 0..NumInterfaces /\ (o[2] # 0 => o[2] \in Interface)
    BY <2>1, ServerAssumption DEF Interface
  <2>4. None # l
    BY ServerAssumption
  <2> HIDE DEF o
  <2>5. CASE o[2] = 0
    <3>1. calls[c].op = "remove"
      BY <1>1, <2>2, <2>5 DEF Loops, o
    <3>2. Shown(l, 0)
      BY <2>1, <2>3, <2>5, <3>1
    <3>3. l \notin WithId(l)
      BY <1>1, <1>4, <2>5 DEF Sought, o
    <3>4. ~(Known(l) /\ g_modules[l].id)
      BY <2>4, <3>3 DEF WithId
    <3>5. (Known(l) => l \in strayed) /\ g_modules[l] # UNKNOWN
      BY <1>2, <2>1, <2>3, <3>2, <3>4 DEF Apart, ListingIsShown
    <3>6. (Known(l)' => l \in strayed') /\ g_modules'[l] # UNKNOWN
      BY <1>1, <3>5 DEF Known
    <3> QED
      BY <1>1, <1>4, <3>6, UpdatedApart DEF o
  <2>6. CASE o[2] # 0 /\ calls[c].op = "create"
    <3>1. calls[c].mid = l
      BY <1>1, <1>4, <2>6 DEF Strays, MidIsKnown, o
    <3>2. Shown(l, 0)
      <4>1. Module(l) \in objects
        BY <2>1, <2>3, <2>6 DEF Hierarchy
      <4> QED
        BY <2>1, <2>3, <2>6, <4>1 DEF Module
    <3>3. l \notin WithId(l)
      BY <1>1, <2>6, <3>1 DEF Sought, o
    <3>4. ~(Known(l) /\ g_modules[l].id)
      BY <2>4, <3>3 DEF WithId
    <3>5. (Known(l) => l \in strayed) /\ g_modules[l] # UNKNOWN
      BY <1>2, <2>1, <2>3, <3>2, <3>4 DEF Apart, ListingIsShown
    <3>6. (Known(l)' => l \in strayed') /\ g_modules'[l] # UNKNOWN
      BY <1>1, <3>5 DEF Known
    <3> QED
      BY <1>1, <1>4, <3>6, UpdatedApart DEF o
  <2>7. CASE o[2] # 0 /\ calls[c].op # "create"
    <3>1. Shown(l, o[2])
      BY <2>1, <2>3, <2>7
    <3>2. ~(Known(l) /\ <<l, o[2]>> \in g_modules[l].interfaces)
      BY <1>1, <2>1, <2>7 DEF Sought, o
    <3>3. (Known(l) => l \in strayed) /\ g_modules[l] # UNKNOWN
      BY <1>2, <2>1, <2>3, <2>7, <3>1, <3>2 DEF Apart, ListingIsShown
    <3>4. (Known(l)' => l \in strayed') /\ g_modules'[l] # UNKNOWN
      BY <1>1, <3>3 DEF Known
    <3> QED
      BY <1>1, <1>4, <3>4, UpdatedApart DEF o
  <2> QED
    BY <2>5, <2>6, <2>7
<1> QED
  BY <1>3, <1>4

LEMMA UpdateApart ==
  ASSUME TypeOK, Control, Hierarchy, Separate, Strays, NEW c \in Client,
         UpdateModule(c) \/ UpdateFirst(c) \/ UpdateNone(c) \/ UpdateNull(c),
         NEW l \in Location \ raced'
  PROVE  Apart(l)'
<1> USE DEF setupVars, mainVars, queueVars, callVars, listVars
<1>1. CASE UpdateNull(c)
  <2>1. UNCHANGED <<objects, g_modules, strayed, raced, calls, pc, created, made, q>>
    BY <1>1 DEF UpdateNull
  <2>2. Apart(l)
    BY <2>1 DEF Separate
  <2> QED
    BY <2>1, <2>2, UnchangedSame, Frame DEF Control
<1> QED
  BY <1>1, UpdateModuleApart, UpdateFirstApart, UpdateNoneApart

(* A call goes on, or ends: only one that has nothing left to tell ends.   *)
LEMMA ClientApart ==
  ASSUME TypeOK, Control, Separate, NEW c \in Client,
         \/ LockApi(c) \/ Locate(c) \/ Ask(c) \/ Asked(c) \/ LocationAnswered(c)
         \/ ModuleAnswered(c) \/ LockList(c) \/ List(c),
         NEW l \in Location \ raced'
  PROVE  Apart(l)'
<1> USE DEF setupVars, mainVars, queueVars, callVars, listVars
<1>1. UNCHANGED <<objects, g_modules, strayed, raced, pc, created, made, q>>
  BY Zenon DEF LockApi, Locate, Ask, Asked, LocationAnswered, ModuleAnswered, LockList, List
<1>2. Apart(l)
  BY <1>1 DEF Separate
<1>3. SameCalls(l)
  <2>1. CASE LockApi(c)
    BY <2>1, StepSame DEF LockApi, CallStep
  <2>2. CASE Locate(c)
    <3>1. Told(c) /\ calls[c].pc = "locating"
      BY <2>2 DEF Locate, Told
    <3>2. Step(c, "call") \/ Return(c)
      BY <2>2, Zenon DEF Locate
    <3> QED
      BY <3>1, <3>2, StepSame, ReturnSame DEF CallStep
  <2>3. CASE Ask(c)
    BY <2>3, StepSame DEF Ask, CallStep
  <2>4. CASE LockList(c)
    BY <2>4, StepSame DEF LockList, CallStep, Control, CallControl, ClientControl
  <2>5. CASE List(c)
    <3>1. Told(c)
      BY <2>5 DEF List, Told
    <3>2. Return(c) \/ UNCHANGED calls
      BY <2>5, Zenon DEF List
    <3> QED
      BY <3>1, <3>2, ReturnSame, UnchangedSame
  <2>7. CASE Asked(c)
    <3>1. Told(c)
      BY <2>7 DEF Asked, Told
    <3> QED
      BY <2>7, <3>1, ReturnSame DEF Asked
  <2>8. CASE ModuleAnswered(c)
    <3>1. calls[c].pc = "asking" /\ calls[c].op \in {"create", "remove"}
      BY <2>8 DEF ModuleAnswered
    <3>2. SUFFICES ASSUME NEW d \in Client
                   PROVE  /\ Changes(d, l)' <=> Changes(d, l)
                          /\ calls'[d].op = calls[d].op
                          /\ calls'[d].object = calls[d].object
                          /\ Told(d)' <=> Told(d)
      BY DEF SameCalls
    <3>3. CASE d = c
      BY <2>8, <3>1, <3>3, AnswerFacts DEF Changes, Told, Control
    <3>4. CASE d # c
      BY <2>8, <3>4, AnswerFacts DEF Changes, Told, Control
    <3> QED
      BY <3>3, <3>4
  <2>6. CASE LocationAnswered(c)
    <3>1. calls[c].pc = "asking" /\ calls[c].op = "create"
      BY <2>6 DEF LocationAnswered
    <3>2. CASE Step(c, "update")
      BY <3>1, <3>2, StepSame DEF CallStep
    <3>3. CASE Return(c) /\ calls[c].object \notin objects
      <4>1. CASE Told(c)
        BY <3>3, <4>1, ReturnSame
      <4>2. CASE ~Told(c)
        <5>1. calls[c].op = "create" /\ calls[c].object \notin objects
          BY <3>1, <3>3
        <5>2. ~Changes(c, l)
          BY <1>2, <4>2, <5>1 DEF Apart, ChangeIsPending
        <5>3. ~Changes(c, l)'
          <6>1. None \notin Op
            BY ServerAssumption
          <6> QED
            BY <3>3, <6>1, ReturnFacts DEF Changes, Idle, Op
        <5>4. \A d \in Client \ {c} : calls'[d] = calls[d]
          BY <3>3, ReturnFacts
        <5>5. \A d \in Client \ {c} :
                (Changes(d, l)' <=> Changes(d, l)) /\ (Told(d)' <=> Told(d))
          BY <5>4 DEF Changes, Told
        <5> QED
          BY <5>2, <5>3, <5>4, <5>5 DEF SameCalls
      <4> QED
        BY <4>1, <4>2
    <3> QED
      BY <2>6, <3>2, <3>3 DEF LocationAnswered
  <2> QED
    BY <2>1, <2>2, <2>3, <2>4, <2>5, <2>6, <2>7, <2>8
<1> QED
  BY <1>1, <1>2, <1>3, UnchangedSame, Frame DEF Control

(* Objects come and go in three steps only, by the rules of the library.   *)
LEMMA NextHierarchy == TypeOK /\ Control /\ Hierarchy /\ [Next]_vars => Hierarchy'
<1> SUFFICES ASSUME TypeOK, Control, Hierarchy, [Next]_vars
             PROVE  Hierarchy'
  OBVIOUS
<1>1. CASE UNCHANGED objects
  BY <1>1 DEF Hierarchy
<1>2. ASSUME NEW o \in Object, CanCreate(o), objects' = objects \cup {o}
      PROVE  Hierarchy'
  <2> SUFFICES ASSUME NEW l \in Location, NEW i \in Interface, <<l, i>> \in objects'
               PROVE  Module(l) \in objects'
    BY DEF Hierarchy
  <2>1. CASE <<l, i>> \in objects
    BY <1>2, <2>1 DEF Hierarchy
  <2>2. CASE <<l, i>> = o
    <3>1. o[1] = l /\ o[2] # 0
      BY <2>2, ServerAssumption DEF Interface
    <3> QED
      BY <1>2, <3>1 DEF CanCreate
  <2> QED
    BY <1>2, <2>1, <2>2
<1>3. ASSUME NEW o \in Object, CanRemove(o), objects' = objects \ {o}
      PROVE  Hierarchy'
  <2> SUFFICES ASSUME NEW l \in Location, NEW i \in Interface, <<l, i>> \in objects'
               PROVE  Module(l) \in objects'
    BY DEF Hierarchy
  <2>1. <<l, i>> \in objects /\ Module(l) \in objects
    BY <1>3 DEF Hierarchy
  <2>2. o # Module(l)
    <3>1. i \in InterfacesOf(l)
      BY <2>1 DEF InterfacesOf
    <3> QED
      BY <1>3, <3>1 DEF CanRemove, Module
  <2> QED
    BY <1>3, <2>1, <2>2
<1>4. CASE ModuleCreated
  <2>1. Module(HeadLocation) \in Object
    BY <1>4, EntryFacts, ObjectFacts DEF ModuleCreated, Control, MainControl,
         MakesModule, TypeOK
  <2> QED
    BY <1>1, <1>2, <1>4, <2>1 DEF ModuleCreated
<1>5. CASE InterfaceCreated
  BY <1>1, <1>2, <1>5 DEF InterfaceCreated
<1>6. CASE \E c \in Client : CallReturns(c)
  <2> PICK c \in Client : CallReturns(c)
    BY <1>6
  <2>1. calls[c].op \in {"create", "remove"} => calls[c].object \in Object
    BY DEF Control, CallControl, ClientControl
  <2> QED
    BY <1>1, <1>2, <1>3, <2>1 DEF CallReturns
<1>7. CASE /\ [Next]_vars
           /\ ~(ModuleCreated \/ InterfaceCreated \/ \E c \in Client : CallReturns(c))
  <2>1. UNCHANGED objects
    BY <1>7, Zenon DEF Next, MainNext, ClientNext, Request, Start, Initialize,
       start_grpc_server, ReadConfig, Read, Lock, EndDrain, Present, PresentNull,
       NewModule, CreateModule, QueryModule, ModuleQueried, CreateInterface, EnterModule,
       Uninitialize, Exit, Configure, CallLibrary, LockApi, Locate, Ask, Asked,
       LocationAnswered, ModuleAnswered, UpdateModule, UpdateFirst, UpdateNone,
       UpdateNull, LockList, List, Begin, Report, Push, Signal, HandleSignal, vars
  <2> QED
    BY <1>1, <2>1
<1> QED
  BY <1>4, <1>5, <1>6, <1>7

(* Every step keeps what is apart apart, or counts the location as raced.  *)
LEMMA NextSeparate ==
  TypeOK /\ Control /\ Hierarchy /\ Separate /\ Strays /\ [Next]_vars => Separate'
<1> SUFFICES ASSUME TypeOK, Control, Hierarchy, Separate, Strays, [Next]_vars,
                    NEW l \in Location \ raced'
             PROVE  Apart(l)'
  BY DEF Separate
<1> USE DEF setupVars, mainVars, queueVars, callVars, listVars
<1>1. CASE UNCHANGED <<objects, g_modules, strayed, raced, calls, pc, created, made, q>>
  <2>1. Apart(l)
    BY <1>1 DEF Separate
  <2> QED
    BY <1>1, <2>1, UnchangedSame, Frame DEF Control
<1>2. CASE \/ Start \/ Initialize \/ start_grpc_server \/ ReadConfig \/ Read \/ Lock
           \/ EndDrain \/ Present \/ PresentNull \/ CreateModule \/ QueryModule
           \/ ModuleQueried \/ CreateInterface \/ Uninitialize \/ Exit
           \/ Push \/ HandleSignal
  <2>1. UNCHANGED raced
    BY <1>2, Zenon DEF Start, Initialize, start_grpc_server, ReadConfig, Read, Lock,
       EndDrain, Present, PresentNull, CreateModule, QueryModule, ModuleQueried,
       CreateInterface, Uninitialize, Exit, Push, HandleSignal, Configure, CallLibrary
  <2>2. Apart(l)
    BY <2>1 DEF Separate
  <2>3. SameObjects(l) /\ SameList(l) /\ SameMain(l) /\ SameCalls(l)
    BY <1>2, MainSame
  <2> QED
    BY <2>2, <2>3, Frame DEF Control
<1>3. CASE NewModule
  BY <1>3, NewModuleApart
<1>4. CASE ModuleCreated \/ InterfaceCreated
  BY <1>4, CreatedApart
<1>5. CASE EnterModule
  BY <1>5, EnterApart
<1>6. CASE \E c \in Client : ClientNext(c)
  BY <1>6, ClientApart, CallReturnsApart, UpdateApart DEF ClientNext
<1>7. CASE \E c \in Client : Request(c)
  <2> PICK c \in Client : Request(c)
    BY <1>7
  <2>1. PICK op \in Op, o \in Object \cup {None} :
          /\ op \in {"create", "remove"} => o \in Object
          /\ Begin(c, op, o)
    BY RequestFacts, Zenon
  <2> QED
    BY <2>1, BeginApart
<1>8. CASE (\E e \in Event : Report(e)) \/ (\E t \in Interrupted : Signal(t)) \/ UNCHANGED vars
  <2>1. UNCHANGED <<objects, g_modules, strayed, raced, calls, pc, created, made, q>>
    BY <1>8, Zenon DEF Report, Signal, vars
  <2> QED
    BY <1>1, <2>1
<1> QED
  BY <1>2, <1>3, <1>4, <1>5, <1>6, <1>7, <1>8 DEF Next, MainNext

(* Only what was removed meanwhile goes astray.                            *)
LEMMA NextStrays ==
  TypeOK /\ Control /\ Separate /\ Strays /\ [Next]_vars => Strays'
<1> SUFFICES ASSUME TypeOK, Control, Separate, Strays, [Next]_vars
             PROVE  Strays'
  OBVIOUS
<1> USE DEF setupVars, mainVars, queueVars, callVars, listVars
<1>1. raced \subseteq raced'
  <2>1. CASE UNCHANGED raced
    BY <2>1
  <2>2. CASE NewModule
    BY <2>2 DEF NewModule
  <2>3. CASE \E c \in Client : Request(c)
    BY <2>3 DEF Request, Begin
  <2>4. CASE [Next]_vars /\ ~NewModule /\ ~(\E c \in Client : Request(c))
    BY <2>1, <2>4, Zenon DEF Next, MainNext, ClientNext, Start, Initialize,
       start_grpc_server, ReadConfig, Read, Lock, EndDrain, Present, PresentNull,
       CreateModule, ModuleCreated, QueryModule, ModuleQueried, CreateInterface,
       InterfaceCreated, EnterModule, Uninitialize, Exit, Configure, CallLibrary, LockApi,
       Locate, CallReturns, Ask, Asked, LocationAnswered, ModuleAnswered, UpdateModule,
       UpdateFirst, UpdateNone, UpdateNull, LockList, List, Report, Push, Signal,
       HandleSignal, vars
  <2> QED
    BY <2>2, <2>3, <2>4
<1>2. OwnInterfaces'
  <2> SUFFICES ASSUME NEW k \in Location, Known(k)', NEW o \in g_modules'[k].interfaces,
                      o[1] # k
               PROVE  o[1] \in raced' /\ k \in strayed'
    BY DEF OwnInterfaces
  <2>1. ASSUME strayed \subseteq strayed', Known(k), o \in g_modules[k].interfaces
        PROVE  o[1] \in raced' /\ k \in strayed'
    BY <1>1, <2>1 DEF Strays, OwnInterfaces
  <2>2. CASE UNCHANGED <<g_modules, strayed>>
    BY <2>1, <2>2 DEF Known
  <2>3. CASE Present
    <3>1. HeadLocation \in Location /\ Known(HeadLocation)
      BY <2>3, EntryFacts DEF Present, TypeOK
    <3>2. g_modules[HeadLocation] \in Listed
      BY <3>1 DEF Known, TypeOK
    <3>3. /\ g_modules' = [g_modules EXCEPT ![HeadLocation].present = Head(q)[1]]
          /\ strayed' = strayed
      BY <2>3 DEF Present
    <3>4. CASE k = HeadLocation
      <4>1. g_modules'[k] = [g_modules[k] EXCEPT !.present = Head(q)[1]]
        BY <3>1, <3>3, <3>4 DEF TypeOK
      <4>2. g_modules'[k].interfaces = g_modules[k].interfaces
        BY <3>2, <3>4, <4>1 DEF Listed
      <4> QED
        BY <2>1, <3>1, <3>3, <3>4, <4>2
    <3>5. CASE k # HeadLocation
      <4>1. g_modules'[k] = g_modules[k]
        BY <3>3, <3>5 DEF TypeOK
      <4> QED
        BY <2>1, <3>3, <4>1 DEF Known
    <3> QED
      BY <3>4, <3>5
  <2>4. CASE EnterModule
    <3>1. HeadLocation \in Location
      BY <2>4, EntryFacts DEF EnterModule, Control, MainControl, MakesModule, TypeOK
    <3>2. strayed' = strayed
      BY <2>4 DEF EnterModule
    <3>3. k # HeadLocation
      <4>1. g_modules'[HeadLocation].interfaces = {HeadLocation} \X (1..made)
        BY <2>4, <3>1 DEF EnterModule, TypeOK
      <4> QED
        BY <4>1
    <3>4. g_modules'[k] = g_modules[k]
      BY <2>4, <3>3 DEF EnterModule, TypeOK
    <3> QED
      BY <2>1, <3>2, <3>4 DEF Known
  <2>5. CASE \E c \in Client : UpdateModule(c)
    <3> PICK c \in Client : UpdateModule(c)
      BY <2>5
    <3> DEFINE l == calls[c].object[1]
    <3>1. g_modules' = [g_modules EXCEPT ![l] = ModuleIs(l)] /\ strayed' = strayed
      BY DEF UpdateModule
    <3> HIDE DEF l
    <3>2. CASE k # l
      <4>1. g_modules'[k] = g_modules[k]
        BY <3>1, <3>2 DEF TypeOK
      <4> QED
        BY <2>1, <3>1, <4>1 DEF Known
    <3>3. CASE k = l
      <4>1. g_modules'[k] = ModuleIs(k)
        BY <3>1, <3>3 DEF TypeOK
      <4>2. Known(k) /\ g_modules'[k] = [g_modules[k] EXCEPT !.id = TRUE]
        BY <4>1 DEF ModuleIs, Known
      <4>3. g_modules[k] \in Listed
        BY <4>2 DEF Known, TypeOK
      <4>4. g_modules'[k].interfaces = g_modules[k].interfaces
        BY <4>2, <4>3 DEF Listed
      <4> QED
        BY <2>1, <3>1, <4>2, <4>4
    <3> QED
      BY <3>2, <3>3
  <2>6. CASE \E c \in Client : UpdateFirst(c)
    <3> PICK c \in Client : UpdateFirst(c)
      BY <2>6
    <3>1. PICK e \in Sought(calls[c]) :
            /\ g_modules' = [g_modules EXCEPT ![e] = UpdateEntry(@, calls[c])]
            /\ strayed' = IF calls[c].op = "create" /\ calls[c].mid = None
                          THEN strayed \cup {e} ELSE strayed
      BY DEF UpdateFirst
    <3>2. e \in Location /\ Known(e) /\ g_modules[e] \in Listed
      BY SoughtFacts DEF TypeOK, Known
    <3>3. Loops(c) /\ calls[c] \in Call /\ calls[c].object \in Object
      BY DEF UpdateFirst, Loops, Control, CallControl, ClientControl, TypeOK, Idle
    <3>4. CASE k # e
      <4>1. g_modules'[k] = g_modules[k]
        BY <3>1, <3>4 DEF TypeOK
      <4> QED
        BY <2>1, <3>1, <4>1 DEF Known
    <3>5. CASE k = e
      <4>1. g_modules'[k] = UpdateEntry(g_modules[k], calls[c])
        BY <3>1, <3>2, <3>5 DEF TypeOK
      <4>2. \/ o \in g_modules[k].interfaces
            \/ /\ o = calls[c].object
               /\ calls[c].object[2] # 0 /\ calls[c].op = "create"
        BY <3>2, <3>3, <3>5, <4>1, UpdateEntryFacts
      <4>3. CASE o \in g_modules[k].interfaces
        BY <2>1, <3>1, <3>2, <3>5, <4>3
      <4>4. CASE o = calls[c].object /\ calls[c].op = "create"
        <5>1. calls[c].object[1] \in raced /\ calls[c].mid = None
          BY <3>3, <3>5, <4>4, SoughtIsOwn
        <5> QED
          BY <1>1, <3>1, <3>5, <4>4, <5>1
      <4> QED
        BY <4>2, <4>3, <4>4
    <3> QED
      BY <3>4, <3>5
  <2>7. CASE /\ [Next]_vars
             /\ ~Present /\ ~EnterModule
             /\ ~\E c \in Client : UpdateModule(c)
             /\ ~\E c \in Client : UpdateFirst(c)
    <3>1. UNCHANGED <<g_modules, strayed>>
      BY <2>7, Zenon DEF Next, MainNext, ClientNext, Request, Start, Initialize,
         start_grpc_server, ReadConfig, Read, Lock, EndDrain, PresentNull, NewModule,
         CreateModule, ModuleCreated, QueryModule, ModuleQueried, CreateInterface,
         InterfaceCreated, Uninitialize, Exit, Configure, CallLibrary, LockApi, Locate,
         CallReturns, Ask, Asked, LocationAnswered, ModuleAnswered, UpdateNone, UpdateNull,
         LockList, List, Begin, Report, Push, Signal, HandleSignal, vars
    <3> QED
      BY <2>2, <3>1
  <2> QED
    BY <2>3, <2>4, <2>5, <2>6, <2>7
<1>3. ASSUME NEW d \in Client PROVE MidIsKnown(d)'
  <2>1. MidIsKnown(d)
    BY DEF Strays
  <2>2. CASE calls'[d] = calls[d]
    BY <1>1, <2>1, <2>2 DEF MidIsKnown
  <2>3. CASE calls'[d].pc # "update"
    BY <2>3 DEF MidIsKnown
  <2>4. CASE calls'[d].pc = "update" /\ calls'[d] # calls[d]
    <3>1. \E c \in Client : ClientNext(c) \/ Request(c)
      <4>1. CASE MainNext \/ Push \/ HandleSignal \/ UNCHANGED vars
             \/ (\E e \in Event : Report(e)) \/ (\E t \in Interrupted : Signal(t))
        <5>1. UNCHANGED calls
          BY <4>1, Zenon DEF MainNext, Start, Initialize, start_grpc_server, ReadConfig,
             Read, Lock, EndDrain, Present, PresentNull, NewModule, CreateModule,
             ModuleCreated, QueryModule, ModuleQueried, CreateInterface, InterfaceCreated,
             EnterModule, Uninitialize, Exit, Configure, CallLibrary, Push, HandleSignal,
             Report, Signal, vars
        <5> QED
          BY <2>4, <5>1
      <4> QED
        BY <4>1 DEF Next
    <3>2. PICK c \in Client : ClientNext(c) \/ Request(c)
      BY <3>1
    <3>3. CASE CallReturns(c) \/ LocationAnswered(c)
      <4>1. CASE Return(c)
        BY <2>4, <4>1, ReturnFacts DEF Idle
      <4>2. CASE ~Return(c)
        <5>1. \/ Step(c, "ask")
              \/ /\ Step(c, "update")
                 /\ calls[c].op = "remove" \/ calls[c].object[2] = 0
          BY <3>3, <4>2 DEF CallReturns, LocationAnswered
        <5>2. calls[c].pc # "idle"
          BY <3>3 DEF CallReturns, LocationAnswered
        <5>3. d = c
          BY <2>4, <5>1, <5>2, StepFacts DEF CallStep
        <5>4. /\ calls'[d].op = calls[d].op /\ calls'[d].object = calls[d].object
              /\ calls[d].op = "remove" \/ calls[d].object[2] = 0
          BY <2>4, <5>1, <5>2, <5>3, StepFacts DEF CallStep
        <5> QED
          BY <5>4 DEF MidIsKnown
      <4> QED
        BY <4>1, <4>2
    <3>4. CASE ModuleAnswered(c)
      <4>1. /\ \A b \in Client \ {c} : calls'[b] = calls[b]
            /\ calls'[c].op = calls[c].op /\ calls'[c].object = calls[c].object
            /\ calls[c].op = "create" =>
                 \/ calls'[c].mid = calls[c].object[1]
                 \/ calls'[c].mid = None /\ calls[c].object \notin objects
        BY <3>4, AnswerFacts DEF Control
      <4>2. d = c
        BY <2>4, <4>1
      <4>3. ASSUME calls[c].op = "create", calls[c].object \notin objects
            PROVE  calls[c].object[1] \in raced
        <5>1. calls[c].object[1] \in Location
          BY <4>3, ObjectFacts DEF Control, CallControl, ClientControl
        <5>2. Changes(c, calls[c].object[1]) /\ ~Told(c)
          BY <3>4, <4>3 DEF ModuleAnswered, Changes, Told
        <5> QED
          BY <4>3, <5>1, <5>2 DEF Separate, Apart, ChangeIsPending
      <4> QED
        BY <1>1, <4>1, <4>2, <4>3 DEF MidIsKnown
    <3>5. CASE LockApi(c) \/ Locate(c) \/ Ask(c) \/ Asked(c) \/ LockList(c) \/ List(c)
      <4>1. \/ Return(c) \/ UNCHANGED calls
            \/ /\ calls[c].pc \in CallStep
               /\ \/ Step(c, "locating") \/ Step(c, "calling") \/ Step(c, "call")
                  \/ Step(c, "asking") \/ Step(c, "listing")
        BY <3>5 DEF LockApi, Locate, Ask, Asked, LockList, List, CallStep
      <4> QED
        BY <2>4, <4>1, ReturnFacts, StepFacts DEF Idle, CallStep
    <3>6. CASE UpdateModule(c) \/ UpdateFirst(c) \/ UpdateNone(c) \/ UpdateNull(c)
      <4>1. Return(c) \/ UNCHANGED calls
        BY <3>6, Zenon DEF UpdateModule, UpdateFirst, UpdateNone, UpdateNull
      <4> QED
        BY <2>4, <4>1, ReturnFacts DEF Idle
    <3>7. CASE Request(c)
      <4>1. PICK op \in Op, o \in Object \cup {None} : Begin(c, op, o)
        BY <3>7, ServerAssumption DEF Request, Op
      <4> DEFINE first == CASE op = "create" /\ o[2] # 0 -> "locate"
                            [] op = "list" -> "list"
                            [] op = "capability" -> "ask"
                            [] OTHER -> "call"
      <4>2. first # "update"
        OBVIOUS
      <4>3. calls' = [calls EXCEPT ![c] =
                        [op |-> op, object |-> o, mid |-> None, pc |-> first]]
        BY <4>1 DEF Begin
      <4> HIDE DEF first
      <4> QED
        BY <2>4, <4>2, <4>3 DEF TypeOK
    <3> QED
      BY <3>2, <3>3, <3>4, <3>5, <3>6, <3>7 DEF ClientNext
  <2> QED
    BY <2>2, <2>3, <2>4
<1> QED
  BY <1>2, <1>3 DEF Strays

(* Together they are inductive, and hold of the server at its start.       *)
LEMMA SeparateInvariant == Spec => [](Hierarchy /\ Separate /\ Strays)
<1>1. Init => Hierarchy
  BY DEF Init, Hierarchy
<1>2. Init => Separate
  <2> SUFFICES ASSUME Init, NEW l \in Location \ raced
               PROVE  Apart(l)
    BY DEF Separate
  <2>1. None \notin Op /\ {"create", "remove"} \subseteq Op
    BY ServerAssumption DEF Op
  <2>2. \A c \in Client : ~Changes(c, l)
    BY <2>1 DEF Init, Changes, Idle
  <2>3. ~MainMakes(l)
    BY DEF Init, MainMakes, MakesModule
  <2>4. \A i \in 0..NumInterfaces : ~Shown(l, i)
    BY <2>2 DEF Init, Shown, Pending
  <2>5. ~Known(l)
    BY DEF Init, Known
  <2> QED
    BY <2>2, <2>3, <2>4, <2>5 DEF Apart, OneAtATime, ChangeIsPending, ListingIsShown,
         NewModuleIsMade
<1>3. Init => Strays
  BY DEF Init, Strays, OwnInterfaces, MidIsKnown, Known, Idle
<1>4. (TypeOK /\ Control) /\ (Hierarchy /\ Separate /\ Strays) /\ [Next]_vars
        => (Hierarchy /\ Separate /\ Strays)'
  BY NextHierarchy, NextSeparate, NextStrays
<1> QED
  BY <1>1, <1>2, <1>3, <1>4, ControlInvariant, PTL DEF Spec

(* What ListModule() tells of a location is what the library has there,    *)
(* whenever nothing is under way there, nothing has overlapped and no      *)
(* removed interface has strayed there.                                    *)
THEOREM ListingCorrect == Spec => []ListingIsLibrary
<1>1. TypeOK /\ Control /\ Separate /\ Strays => ListingIsLibrary
  <2> SUFFICES ASSUME TypeOK, Control, Separate, Strays, NEW l \in Location,
                      Known(l), Busy(l) = {}, l \notin raced \cup strayed
               PROVE  /\ g_modules[l].id <=> Module(l) \in objects
                      /\ g_modules[l].interfaces = {l} \X InterfacesOf(l)
    BY DEF ListingIsLibrary
  <2>1. ListingIsShown(l)
    BY DEF Separate, Apart
  <2>2. ~MainMakes(l) /\ \A c \in Client : ~Changes(c, l)
    BY DEF Busy, MainMakes, HeadLocation
  <2>3. \A i \in 0..NumInterfaces : Shown(l, i) <=> <<l, i>> \in objects
    BY <2>2 DEF Shown, Pending
  <2>4. 0 \in 0..NumInterfaces /\ Interface \subseteq 0..NumInterfaces
    BY ServerAssumption DEF Interface
  <2>5. g_modules[l].id <=> <<l, 0>> \in objects
    BY <2>1, <2>2, <2>3, <2>4 DEF ListingIsShown
  <2>6. \A i \in Interface : <<l, i>> \in g_modules[l].interfaces <=> <<l, i>> \in objects
    BY <2>1, <2>2, <2>3, <2>4 DEF ListingIsShown
  <2>7. \A o \in g_modules[l].interfaces :
          o[1] = l /\ o[2] \in Interface /\ o = <<o[1], o[2]>>
    <3>1. g_modules[l].interfaces \subseteq Location \X Interface
      BY DEF TypeOK, Known, Listed
    <3> QED
      BY <3>1 DEF Strays, OwnInterfaces
  <2>8. \A o \in g_modules[l].interfaces : o \in {l} \X InterfacesOf(l)
    BY <2>6, <2>7 DEF InterfacesOf
  <2>9. \A o \in {l} \X InterfacesOf(l) : o \in g_modules[l].interfaces
    BY <2>6 DEF InterfacesOf
  <2> QED
    BY <2>5, <2>8, <2>9 DEF Module
<1> QED
  BY <1>1, ControlInvariant, SeparateInvariant, PTL

(* The server ends by an uncaught exception only for its configuration     *)
(* file or an object that is wrong in it, for a client that changes a      *)
(* module while main makes it, or for a refused interface.                 *)
THEOREM TerminatedCorrect == Spec => []TerminatedIsExplained
<1>1. Init => TerminatedIsExplained
  BY DEF Init, TerminatedIsExplained
<1>2. (TypeOK /\ Control) /\ (Hierarchy /\ Separate /\ Strays) /\ TerminatedIsExplained
        /\ [Next]_vars => TerminatedIsExplained'
  <2> SUFFICES ASSUME TypeOK, Control, Separate, TerminatedIsExplained, [Next]_vars,
                      status' = "terminated"
               PROVE  TerminatedIsExplained'
    BY DEF TerminatedIsExplained
  <2> USE DEF setupVars, mainVars, queueVars, callVars, listVars
  <2>1. CASE UNCHANGED vars
    BY <2>1 DEF TerminatedIsExplained, HeadLocation, vars
  <2>2. CASE ReadConfig
    BY <2>2 DEF ReadConfig, GoMain, Runs, TerminatedIsExplained
  <2>3. CASE CreateModule \/ CreateInterface
    <3>1. /\ UNCHANGED <<pc, made, q, misconfigured>>
          /\ \/ pc = "create" /\ Module(HeadLocation) \in misconfigured
             \/ pc = "attach" /\ <<HeadLocation, made + 1>> \in misconfigured
      BY <2>3 DEF CreateModule, CreateInterface, Configure, GoMain, SameModule, Runs
    <3>2. HeadLocation' = HeadLocation
      BY <3>1 DEF HeadLocation
    <3> QED
      BY <3>1, <3>2 DEF TerminatedIsExplained, Module
  <2>4. CASE ModuleQueried \/ InterfaceCreated
    <3> DEFINE l == HeadLocation
    <3>1. /\ UNCHANGED <<q, raced, pc, made>>
          /\ \/ ModuleQueried /\ pc = "querying" /\ Module(l) \notin objects
             \/ InterfaceCreated /\ pc = "attaching"
                  /\ ~(<<l, made + 1>> \in Object /\ CanCreate(<<l, made + 1>>))
      BY <2>4 DEF ModuleQueried, InterfaceCreated, SameModule, Runs
    <3>2. l \in Location /\ created
      BY <3>1, EntryFacts DEF TypeOK, Control, MainControl, MakesModule
    <3>3. HeadLocation' = l
      BY <3>1 DEF HeadLocation
    <3>4. MainMakes(l)
      BY <3>1 DEF MainMakes, MakesModule
    <3> HIDE DEF l
    <3>5. CASE l \in raced
      BY <3>1, <3>3, <3>5 DEF TerminatedIsExplained
    <3>6. CASE l \notin raced
      <4>1. /\ <<l, 0>> \in objects
            /\ \A i \in Interface : <<l, i>> \in objects <=> i <= made
        BY <3>2, <3>4, <3>6 DEF Separate, Apart, NewModuleIsMade
      <4>2. InterfaceCreated /\ pc = "attaching" /\ ~CanCreate(<<l, made + 1>>)
        <5>1. InterfaceCreated /\ pc = "attaching"
          BY <3>1, <4>1 DEF Module
        <5>2. <<l, made + 1>> \in Object
          BY <3>2, <5>1, ServerAssumption DEF Control, MainControl, TypeOK, Object
        <5> QED
          BY <3>1, <5>1, <5>2
      <4>3. made + 1 \in Interface /\ ~(made + 1 <= made)
        BY <4>2, ServerAssumption DEF Control, MainControl, TypeOK, Interface
      <4>4. <<l, made + 1>> \in Refused
        BY <4>1, <4>2, <4>3 DEF CanCreate, Module
      <4> QED
        BY <3>1, <3>3, <4>2, <4>4 DEF TerminatedIsExplained
    <3> QED
      BY <3>5, <3>6
  <2>5. CASE /\ Next
             /\ ~(ReadConfig \/ CreateModule \/ CreateInterface \/ ModuleQueried
                    \/ InterfaceCreated)
    <3>1. status = "running" /\ status' \in {"running", "crashed", "exited"}
      <4>1. CASE MainNext
        BY <2>5, <4>1, ZenonT(30) DEF MainNext, Start, Initialize, start_grpc_server, Read,
           Lock, EndDrain, Present, PresentNull, NewModule, ModuleCreated, QueryModule,
           EnterModule, Uninitialize, Exit, CallLibrary, Runs
      <4>2. CASE \E c \in Client : ClientNext(c)
        BY <4>2, ZenonT(30) DEF ClientNext, LockApi, Locate, CallReturns, Ask, Asked,
           LocationAnswered, ModuleAnswered, UpdateModule, UpdateFirst, UpdateNone,
           UpdateNull, Loops, LockList, List, Runs
      <4>3. CASE \E c \in Client : Request(c)
        BY <4>3, ZenonT(30) DEF Request, Begin, Runs
      <4>4. CASE (\E e \in Event : Report(e)) \/ Push \/ (\E t \in Interrupted : Signal(t))
                   \/ HandleSignal
        BY <4>4, ZenonT(30) DEF Report, Push, Signal, HandleSignal, Runs
      <4> QED
        BY <2>5, <4>1, <4>2, <4>3, <4>4 DEF Next
    <3> QED
      BY <3>1
  <2> QED
    BY <2>1, <2>2, <2>3, <2>4, <2>5
<1> QED
  BY <1>1, <1>2, ControlInvariant, SeparateInvariant, PTL DEF Spec
=============================================================================
