------------------------- MODULE BasicModule_proofs -------------------------
(***************************************************************************)
(* Proofs about BasicModule, for every set of host interfaces and every    *)
(* set of set_attributes() calls.                                          *)
(***************************************************************************)
EXTENDS BasicModule, TLAPS

(* The four states of the framework's own machine. *)
LEMMA States ==
  /\ \A s \in FSMState :
       \/ s = FSM_STATE_INIT
       \/ s = FSM_STATE_WAITING_CONFIGURATION
       \/ s = FSM_STATE_READY
       \/ s = FSM_STATE_END
  /\ FSM_STATE_INIT \in FSMState
  /\ FSM_STATE_WAITING_CONFIGURATION \in FSMState
  /\ FSM_STATE_READY \in FSMState
  /\ FSM_STATE_END \in FSMState
BY DEF FSMState

(***************************************************************************)
(* What transit() does to the queue: it is extended by the request or left *)
(* alone, and the eventfd is signalled exactly when it is extended.        *)
(***************************************************************************)
LEMMA TransitFacts ==
  ASSUME FsmTypeOK, thread # "none", NEW s \in FSMState, Transit(s)
  PROVE  /\ queue' \in Seq(FSMState)
         /\ events' \in Nat
         /\ \/ queue' = queue /\ events' = events
            \/ /\ queue' = Append(queue, s)
               /\ Len(queue') = Len(queue) + 1
               /\ events' = events + 1
         /\ \A i \in 1..Len(queue') :
              queue'[i] = s \/ (i <= Len(queue) /\ queue'[i] = queue[i])
BY DEF FsmTypeOK, Transit, LastIs

(* A request on a status carries one of the values it can be set to.       *)
LEMMA RequestValues ==
  \A r \in RequestType \cup {NoRequest} :
    /\ r.attr = "admin" => r.value \in {"up", "down"}
    /\ r.attr = "oper" => r.value \in OperStatus
BY DEF RequestType, NoRequest

(***************************************************************************)
(* Typing is inductive by itself.                                          *)
(***************************************************************************)
LEMMA NextTypeOK == TypeOK /\ [Next]_vars => TypeOK'
<1> SUFFICES ASSUME TypeOK, [Next]_vars
             PROVE  TypeOK'
  OBVIOUS
<1> USE DEF TypeOK, FsmTypeOK, ThreadStep, ApiStep, AdminStatus,
            fsmVars, apiVars, objectVars, configVars
<1>1. CASE CreateModule
  BY <1>1, ZenonT(30) DEF CreateModule, Start
<1>2. CASE SetModule
  BY <1>2, ZenonT(30) DEF SetModule
<1>3. CASE CreateNetif
  BY <1>3, ZenonT(30) DEF CreateNetif
<1>4. CASE \E i \in HostIf : CreateHostif(i)
  BY <1>4 DEF CreateHostif
<1>5. CASE \E i \in HostIf : RemoveHostif(i)
  BY <1>5 DEF RemoveHostif
<1>6. CASE \E r \in Requests : SetAttributes(r)
  BY <1>6, RequestsAssumption DEF SetAttributes
<1>7. CASE StoreAttributes
  <2> USE <1>7 DEF StoreAttributes
  <2>1. FsmTypeOK'
    OBVIOUS
  <2>2. admin_status' \in AdminStatus
    BY RequestValues
  <2>3. handler' \in BOOLEAN
    BY Zenon
  <2>4. target' \in FSMState
    BY States DEF Lowered, Min2
  <2>5. told' \in OperStatus \cup {"none", "unset"}
    BY Zenon
  <2>6. api' \in ApiStep /\ request' \in RequestType \cup {NoRequest}
    BY DEF EndSet
  <2>7. UNCHANGED objectVars
    OBVIOUS
  <2>8. oper_status' \in OperStatus \cup {"unset"} /\ overridden' \in BOOLEAN
    BY RequestValues, Zenon DEF StoreOperStatus
  <2> QED
    BY <2>1, <2>2, <2>3, <2>4, <2>5, <2>6, <2>7, <2>8, Zenon
<1>8. CASE CheckState
  BY <1>8, States DEF CheckState, Capped, Min2, EndSet
<1>9. CASE RequestState
  BY <1>9, States DEF RequestState, EndSet, Transit
<1>10. CASE RemoveNetif
  BY <1>10 DEF RemoveNetif
<1>11. CASE RequestWaiting
  BY <1>11, States DEF RequestWaiting, Transit
<1>12. CASE PollWaiting
  BY <1>12, ZenonT(30) DEF PollWaiting
<1>13. CASE ClearFlag
  BY <1>13, ZenonT(30) DEF ClearFlag
<1>14. CASE RemoveModule
  BY <1>14, States DEF RemoveModule, InUse, Transit
<1>15. CASE PollEnd
  BY <1>15, ZenonT(30) DEF PollEnd, EndReached
<1>16. CASE Destroy
  <2> USE <1>16, States DEF Destroy, Shutdown
  <2>1. queue' \in Seq(FSMState) /\ events' \in Nat
    OBVIOUS
  <2> QED
    BY <2>1, ZenonT(30)
<1>17. CASE Enter
  BY <1>17, States DEF Enter
<1>18. CASE TakeEvent
  BY <1>18 DEF TakeEvent, ReadEvent
<1>19. CASE TakeRequest
  BY <1>19 DEF TakeRequest, PopRequest
<1>20. CASE Tick
  BY <1>20 DEF Tick
<1>21. CASE CheckNetif
  BY <1>21 DEF CheckNetif
<1>22. CASE CheckAdmin
  BY <1>22 DEF CheckAdmin
<1>23. CASE CheckFlag
  BY <1>23, States DEF CheckFlag
<1>24. CASE NotifyTick
  BY <1>24 DEF NotifyTick
<1>25. CASE StateChange
  <2>1. Report \in OperStatus
    BY DEF Report, OperStatus
  <2> HIDE DEF Report
  <2>2. /\ oper_status' \in OperStatus \cup {"unset"}
        /\ overridden' \in BOOLEAN
        /\ thread' \in ThreadStep
    BY <1>25, <2>1, Zenon DEF StateChange
  <2> QED
    BY <1>25, <2>2, Zenon DEF StateChange
<1>26. CASE NotifyOperStatus
  BY <1>26 DEF NotifyOperStatus, Told
<1>27. CASE CommitState
  BY <1>27 DEF CommitState, Commit
<1>28. CASE UNCHANGED vars
  BY <1>28 DEF vars
<1> QED
  BY <1>1, <1>2, <1>3, <1>4, <1>5, <1>6, <1>7, <1>8, <1>9, <1>10, <1>11,
     <1>12, <1>13, <1>14, <1>15, <1>16, <1>17, <1>18, <1>19, <1>20, <1>21,
     <1>22, <1>23, <1>24, <1>25, <1>26, <1>27, <1>28 DEF Next, ApiCall,
     ApiProgress, FsmThread

(* Every variable keeps its type, whatever calls the host makes.           *)
THEOREM TypeCorrect == Spec => []TypeOK
<1>1. Init => TypeOK
  <2>1. Init => queue \in Seq(FSMState) /\ events \in Nat
    BY DEF Init, FsmInit
  <2> QED
    BY <2>1, States, ZenonT(30) DEF Init, FsmInit, TypeOK, FsmTypeOK, ThreadStep,
       ApiStep, AdminStatus, OperStatus
<1> QED
  BY <1>1, NextTypeOK, PTL DEF Spec

USE DEF FSM_STATE_INIT, FSM_STATE_WAITING_CONFIGURATION, FSM_STATE_READY,
        FSM_STATE_END, FSMState

(***************************************************************************)
(* The inductive invariant, beyond typing.  The thread may end only if END *)
(* was requested; END is requested only by the API thread, in              *)
(* remove_module(), which makes no other call until the thread has ended.  *)
(* Control relates where the two threads are, Requests the queue to both.  *)
(***************************************************************************)
Removing == api \in {"pollEnd", "destroy"}

Control ==
  /\ thread = "none" <=> api = "absent"
  /\ thread = "none" => queue = <<>> /\ events = 0
  /\ module <=> api \notin {"absent", "created", "destroy"}
  /\ thread \in {"checkAdmin", "notify", "tickNotify"} => module
  /\ current_state = FSM_STATE_END <=> thread = "ended"
  /\ api = "destroy" => thread = "ended"
  /\ Removing => ~netif /\ hostifs = {}

EndOnlyWhenRemoving ==
  /\ target # FSM_STATE_END
  /\ ~Removing =>
       /\ current_state # FSM_STATE_END
       /\ next_state # FSM_STATE_END
       /\ \A i \in 1..Len(queue) : queue[i] # FSM_STATE_END

EndClosesQueue ==
  /\ \A i \in 1..Len(queue) : queue[i] = FSM_STATE_END => i = Len(queue)
  /\ next_state = FSM_STATE_END => queue = <<>>

IInv == Control /\ EventsMatchQueue /\ EndOnlyWhenRemoving /\ EndClosesQueue

LEMMA InitIInv == Init => IInv
BY DEF Init, FsmInit, IInv, Control, Removing, EventsMatchQueue,
       EndOnlyWhenRemoving, EndClosesQueue

(* The two threads stay in step.                                           *)
LEMMA NextControl ==
  ASSUME TypeOK, Control, EndOnlyWhenRemoving, [Next]_vars
  PROVE  Control'
<1> USE DEF TypeOK, FsmTypeOK, Control, Removing, EndOnlyWhenRemoving,
            fsmVars, apiVars, objectVars, configVars
<1>1. CASE CreateModule
  BY <1>1 DEF CreateModule, Start
<1>2. CASE SetModule
  BY <1>2 DEF SetModule
<1>3. CASE CreateNetif
  BY <1>3 DEF CreateNetif
<1>4. CASE \E i \in HostIf : CreateHostif(i)
  BY <1>4 DEF CreateHostif
<1>5. CASE \E i \in HostIf : RemoveHostif(i)
  BY <1>5 DEF RemoveHostif
<1>6. CASE \E r \in Requests : SetAttributes(r)
  BY <1>6, RequestsAssumption DEF SetAttributes
<1>7. CASE StoreAttributes
  BY <1>7, RequestValues DEF StoreAttributes, Lowered, AdminChanges, Min2, EndSet
<1>8. CASE CheckState
  BY <1>8 DEF CheckState, Capped, Min2, EndSet
<1>9. CASE RequestState
  BY <1>9, TransitFacts DEF RequestState, EndSet
<1>10. CASE RemoveNetif
  BY <1>10 DEF RemoveNetif
<1>11. CASE RequestWaiting
  BY <1>11, TransitFacts DEF RequestWaiting
<1>12. CASE PollWaiting
  BY <1>12 DEF PollWaiting
<1>13. CASE ClearFlag
  BY <1>13 DEF ClearFlag
<1>14. CASE RemoveModule
  BY <1>14, TransitFacts DEF RemoveModule, InUse
<1>15. CASE PollEnd
  BY <1>15 DEF PollEnd, EndReached
<1>16. CASE Destroy
  BY <1>16 DEF Destroy, Shutdown
<1>17. CASE Enter
  BY <1>17 DEF Enter
<1>18. CASE TakeEvent
  BY <1>18 DEF TakeEvent, ReadEvent
<1>19. CASE TakeRequest
  BY <1>19 DEF TakeRequest, PopRequest
<1>20. CASE Tick
  BY <1>20 DEF Tick
<1>21. CASE CheckNetif
  BY <1>21 DEF CheckNetif
<1>22. CASE CheckAdmin
  BY <1>22 DEF CheckAdmin
<1>23. CASE CheckFlag
  BY <1>23 DEF CheckFlag
<1>24. CASE NotifyTick
  BY <1>24 DEF NotifyTick
<1>25. CASE StateChange
  BY <1>25 DEF StateChange, Report
<1>26. CASE NotifyOperStatus
  BY <1>26 DEF NotifyOperStatus, Told
<1>27. CASE CommitState
  BY <1>27 DEF CommitState, Commit
<1>28. CASE UNCHANGED vars
  BY <1>28 DEF vars
<1> QED
  BY <1>1, <1>2, <1>3, <1>4, <1>5, <1>6, <1>7, <1>8, <1>9, <1>10, <1>11,
     <1>12, <1>13, <1>14, <1>15, <1>16, <1>17, <1>18, <1>19, <1>20, <1>21,
     <1>22, <1>23, <1>24, <1>25, <1>26, <1>27, <1>28 DEF Next, ApiCall,
     ApiProgress, FsmThread

(* Requests and events stay in step.                                       *)
LEMMA NextEvents ==
  ASSUME TypeOK, Control, EventsMatchQueue, [Next]_vars
  PROVE  EventsMatchQueue'
<1> USE DEF TypeOK, FsmTypeOK, Control, EventsMatchQueue,
            fsmVars, apiVars, objectVars, configVars
<1>1. CASE CreateModule
  BY <1>1 DEF CreateModule, Start
<1>2. CASE SetModule
  BY <1>2 DEF SetModule
<1>3. CASE CreateNetif
  BY <1>3 DEF CreateNetif
<1>4. CASE \E i \in HostIf : CreateHostif(i)
  BY <1>4 DEF CreateHostif
<1>5. CASE \E i \in HostIf : RemoveHostif(i)
  BY <1>5 DEF RemoveHostif
<1>6. CASE \E r \in Requests : SetAttributes(r)
  BY <1>6, RequestsAssumption DEF SetAttributes
<1>7. CASE StoreAttributes
  BY <1>7, RequestValues DEF StoreAttributes, Lowered, AdminChanges, Min2, EndSet
<1>8. CASE CheckState
  BY <1>8 DEF CheckState, Capped, Min2, EndSet
<1>9. CASE RequestState
  BY <1>9, TransitFacts DEF RequestState, EndSet
<1>10. CASE RemoveNetif
  BY <1>10 DEF RemoveNetif
<1>11. CASE RequestWaiting
  BY <1>11, TransitFacts DEF RequestWaiting
<1>12. CASE PollWaiting
  BY <1>12 DEF PollWaiting
<1>13. CASE ClearFlag
  BY <1>13 DEF ClearFlag
<1>14. CASE RemoveModule
  BY <1>14, TransitFacts DEF RemoveModule, InUse
<1>15. CASE PollEnd
  BY <1>15 DEF PollEnd, EndReached
<1>16. CASE Destroy
  BY <1>16 DEF Destroy, Shutdown
<1>17. CASE Enter
  BY <1>17 DEF Enter
<1>18. CASE TakeEvent
  BY <1>18 DEF TakeEvent, ReadEvent
<1>19. CASE TakeRequest
  BY <1>19 DEF TakeRequest, PopRequest
<1>20. CASE Tick
  BY <1>20 DEF Tick
<1>21. CASE CheckNetif
  BY <1>21 DEF CheckNetif
<1>22. CASE CheckAdmin
  BY <1>22 DEF CheckAdmin
<1>23. CASE CheckFlag
  BY <1>23 DEF CheckFlag
<1>24. CASE NotifyTick
  BY <1>24 DEF NotifyTick
<1>25. CASE StateChange
  BY <1>25 DEF StateChange, Report
<1>26. CASE NotifyOperStatus
  BY <1>26 DEF NotifyOperStatus, Told
<1>27. CASE CommitState
  BY <1>27 DEF CommitState, Commit
<1>28. CASE UNCHANGED vars
  BY <1>28 DEF vars
<1> QED
  BY <1>1, <1>2, <1>3, <1>4, <1>5, <1>6, <1>7, <1>8, <1>9, <1>10, <1>11,
     <1>12, <1>13, <1>14, <1>15, <1>16, <1>17, <1>18, <1>19, <1>20, <1>21,
     <1>22, <1>23, <1>24, <1>25, <1>26, <1>27, <1>28 DEF Next, ApiCall,
     ApiProgress, FsmThread

(* END stays behind every other request, and only remove_module() asks it. *)
LEMMA NextEnd ==
  ASSUME TypeOK, IInv, [Next]_vars
  PROVE  (EndOnlyWhenRemoving /\ EndClosesQueue)'
<1> USE DEF IInv, TypeOK, FsmTypeOK, Control, Removing, EventsMatchQueue,
            EndOnlyWhenRemoving, EndClosesQueue,
            fsmVars, apiVars, objectVars, configVars
<1>1. CASE CreateModule
  BY <1>1 DEF CreateModule, Start
<1>2. CASE SetModule
  BY <1>2 DEF SetModule
<1>3. CASE CreateNetif
  BY <1>3 DEF CreateNetif
<1>4. CASE \E i \in HostIf : CreateHostif(i)
  BY <1>4 DEF CreateHostif
<1>5. CASE \E i \in HostIf : RemoveHostif(i)
  BY <1>5 DEF RemoveHostif
<1>6. CASE \E r \in Requests : SetAttributes(r)
  BY <1>6, RequestsAssumption DEF SetAttributes
<1>7. CASE StoreAttributes
  BY <1>7, RequestValues DEF StoreAttributes, Lowered, AdminChanges, Min2, EndSet
<1>8. CASE CheckState
  BY <1>8 DEF CheckState, Capped, Min2, EndSet
<1>9. CASE RequestState
  <2>1. /\ target \in FSMState
        /\ target # FSM_STATE_END
        /\ Transit(target)
        /\ api = "transit"
        /\ UNCHANGED <<thread, current_state, next_state, target>>
    BY <1>9 DEF RequestState
  <2>2. \A i \in 1..Len(queue') :
          queue'[i] = target \/ (i <= Len(queue) /\ queue'[i] = queue[i])
    BY <2>1, TransitFacts
  <2>3. \A i \in 1..Len(queue) : queue[i] # FSM_STATE_END
    BY <2>1
  <2>4. \A i \in 1..Len(queue') : queue'[i] # FSM_STATE_END
    BY <2>1, <2>2, <2>3, TransitFacts
  <2>5. next_state' # FSM_STATE_END
    BY <2>1
  <2> QED
    BY <2>1, <2>4, <2>5
<1>10. CASE RemoveNetif
  BY <1>10 DEF RemoveNetif
<1>11. CASE RequestWaiting
  BY <1>11, TransitFacts DEF RequestWaiting
<1>12. CASE PollWaiting
  BY <1>12 DEF PollWaiting
<1>13. CASE ClearFlag
  BY <1>13 DEF ClearFlag
<1>14. CASE RemoveModule
  BY <1>14, TransitFacts DEF RemoveModule, InUse
<1>15. CASE PollEnd
  BY <1>15 DEF PollEnd, EndReached
<1>16. CASE Destroy
  BY <1>16 DEF Destroy, Shutdown
<1>17. CASE Enter
  BY <1>17 DEF Enter
<1>18. CASE TakeEvent
  BY <1>18 DEF TakeEvent, ReadEvent
<1>19. CASE TakeRequest
  BY <1>19 DEF TakeRequest, PopRequest
<1>20. CASE Tick
  BY <1>20 DEF Tick
<1>21. CASE CheckNetif
  BY <1>21 DEF CheckNetif
<1>22. CASE CheckAdmin
  BY <1>22 DEF CheckAdmin
<1>23. CASE CheckFlag
  BY <1>23 DEF CheckFlag
<1>24. CASE NotifyTick
  BY <1>24 DEF NotifyTick
<1>25. CASE StateChange
  BY <1>25 DEF StateChange, Report
<1>26. CASE NotifyOperStatus
  BY <1>26 DEF NotifyOperStatus, Told
<1>27. CASE CommitState
  BY <1>27 DEF CommitState, Commit
<1>28. CASE UNCHANGED vars
  BY <1>28 DEF vars
<1> QED
  BY <1>1, <1>2, <1>3, <1>4, <1>5, <1>6, <1>7, <1>8, <1>9, <1>10, <1>11,
     <1>12, <1>13, <1>14, <1>15, <1>16, <1>17, <1>18, <1>19, <1>20, <1>21,
     <1>22, <1>23, <1>24, <1>25, <1>26, <1>27, <1>28 DEF Next, ApiCall,
     ApiProgress, FsmThread

(***************************************************************************)
(* The invariant holds in every reachable state.                           *)
(***************************************************************************)
THEOREM InductiveInvariant == Spec => []IInv
<1>1. Init => IInv
  BY InitIInv
<1>2. TypeOK /\ IInv /\ [Next]_vars => IInv'
  BY NextControl, NextEvents, NextEnd DEF IInv
<1> QED
  BY <1>1, <1>2, TypeCorrect, PTL DEF Spec

(* No event of the eventfd is lost or spurious (fsm.hpp:91-102, 112-120).  *)
THEOREM EventsCorrect == Spec => [](EventsMatchQueue /\ PopFindsRequest)
<1>1. TypeOK /\ IInv => EventsMatchQueue /\ PopFindsRequest
  BY DEF IInv, TypeOK, FsmTypeOK, EventsMatchQueue, PopFindsRequest
<1> QED
  BY <1>1, InductiveInvariant, TypeCorrect, PTL

(* The FSM thread never uses a module that remove_module() has dropped     *)
(* (basic.cpp:252-270, 352-369, 468-469).                                  *)
THEOREM ModuleUseCorrect == Spec => []UsesModuleSafely
<1>1. TypeOK /\ IInv => UsesModuleSafely
  BY DEF IInv, Control, UsesModuleSafely
<1> QED
  BY <1>1, InductiveInvariant, TypeCorrect, PTL

(* The thread ends only because remove_module() asked for it, and the FSM  *)
(* is destroyed only after the thread ended (basic.cpp:260-268).           *)
THEOREM EndCorrect == Spec => []EndsOnlyForRemoval
<1>1. TypeOK /\ IInv => EndsOnlyForRemoval
  BY DEF IInv, EndsOnlyForRemoval, Control, EndOnlyWhenRemoving, Removing
<1> QED
  BY <1>1, InductiveInvariant, TypeCorrect, PTL

(* No request is ever behind END, so the loop abandons none when it breaks *)
(* (fsm.hpp:83-85).                                                        *)
THEOREM EndIsLastCorrect == Spec => []EndIsLast
<1>1. TypeOK /\ IInv => EndIsLast
  <2> SUFFICES ASSUME TypeOK, IInv, NEW i \in 1..Len(Pending), Pending[i] = FSM_STATE_END
               PROVE  i = Len(Pending)
    BY DEF EndIsLast
  <2> USE DEF IInv, TypeOK, FsmTypeOK, EndClosesQueue
  <2>1. CASE InHand = <<>>
    <3>1. Pending = queue
      BY <2>1 DEF Pending
    <3> QED
      BY <3>1
  <2>2. CASE InHand = <<next_state>>
    <3>1. /\ Len(Pending) = Len(queue) + 1
          /\ Pending[1] = next_state
          /\ \A j \in 2..Len(Pending) : Pending[j] = queue[j-1]
      BY <2>2 DEF Pending
    <3>2. CASE i = 1
      BY <3>1, <3>2
    <3>3. CASE i # 1
      <4>1. i - 1 \in 1..Len(queue) /\ queue[i-1] = FSM_STATE_END
        BY <3>1, <3>3
      <4> QED
        BY <4>1, <3>1
    <3> QED
      BY <3>2, <3>3
  <2> QED
    BY <2>1, <2>2 DEF InHand
<1> QED
  BY <1>1, InductiveInvariant, TypeCorrect, PTL

-----------------------------------------------------------------------------
(***************************************************************************)
(* OPER_STATUS.  It is stored ahead of the state it announces and notified *)
(* in between; who registers or cancels a callback in that window has not  *)
(* been told anything yet.                                                 *)
(***************************************************************************)
Deciding == {"enter", "select", "pop", "checkNetif", "checkAdmin", "checkFlag",
             "changed", "tickNotify"}

StatusFollows ==
  /\ api = "created" => oper_status = "unset" \/ overridden
  /\ thread \in Deciding /\ oper_status # "unset" /\ ~overridden =>
       oper_status = (IF current_state = FSM_STATE_READY THEN "ready" ELSE "initialize")
  /\ thread \in {"notify", "commit"} /\ oper_status # "unset" /\ ~overridden =>
       oper_status = Report

SubscriberFollows ==
  /\ told # "none" => handler
  /\ thread # "notify" /\ told # "none" /\ ~overridden => told = oper_status

LEMMA NextStatus ==
  ASSUME TypeOK, Control, StatusFollows, SubscriberFollows, [Next]_vars
  PROVE  (StatusFollows /\ SubscriberFollows)'
<1> USE DEF Control, StatusFollows, SubscriberFollows, Deciding, Report,
            fsmVars, apiVars, objectVars, configVars
<1>1. CASE UNCHANGED <<thread, current_state, next_state, oper_status, handler, told,
                     overridden>>
           /\ api' # "created"
  BY <1>1
<1>2. CASE CreateModule
  BY <1>2 DEF CreateModule, Start
<1>3. CASE \/ SetModule \/ CreateNetif \/ RemoveNetif \/ PollWaiting \/ ClearFlag
           \/ PollEnd \/ CheckState \/ RequestState \/ RequestWaiting \/ RemoveModule
           \/ \E i \in HostIf : CreateHostif(i) \/ RemoveHostif(i)
           \/ \E r \in Requests : SetAttributes(r)
  BY <1>1, <1>3 DEF SetModule, CreateNetif, RemoveNetif, PollWaiting, ClearFlag, PollEnd,
       CheckState, RequestState, RequestWaiting, RemoveModule, CreateHostif,
       RemoveHostif, SetAttributes, EndSet
<1>4. CASE StoreAttributes
  BY <1>4 DEF StoreAttributes, StoreOperStatus, EndSet
<1>5. CASE Destroy
  BY <1>5 DEF Destroy, Shutdown
<1>6. CASE Enter \/ TakeEvent \/ TakeRequest \/ Tick \/ CheckNetif \/ CheckAdmin
           \/ CheckFlag \/ NotifyTick
  BY <1>6 DEF Enter, TakeEvent, ReadEvent, TakeRequest, PopRequest, Tick, CheckNetif,
       CheckAdmin, CheckFlag, NotifyTick
<1>7. CASE StateChange
  BY <1>7 DEF StateChange
<1>8. CASE NotifyOperStatus
  BY <1>8 DEF NotifyOperStatus, Told
<1>9. CASE CommitState
  BY <1>9 DEF CommitState, Commit
<1>10. CASE UNCHANGED vars
  BY <1>10 DEF vars
<1> QED
  BY <1>2, <1>3, <1>4, <1>5, <1>6, <1>7, <1>8, <1>9, <1>10
     DEF Next, ApiCall, ApiProgress, FsmThread

LEMMA StatusInvariant == Spec => [](StatusFollows /\ SubscriberFollows)
<1>1. Init => StatusFollows /\ SubscriberFollows
  BY DEF Init, FsmInit, StatusFollows, SubscriberFollows, Deciding
<1>2. TypeOK /\ IInv /\ (StatusFollows /\ SubscriberFollows) /\ [Next]_vars
        => (StatusFollows /\ SubscriberFollows)'
  BY NextStatus DEF IInv
<1> QED
  BY <1>1, <1>2, TypeCorrect, InductiveInvariant, PTL DEF Spec

(* While the thread waits for something to do, OPER_STATUS tells its state *)
(* (basic.cpp:352-369), unless it is one a client has stored since the     *)
(* last state change (basic.hpp:134).                                      *)
THEOREM OperStatusCorrect == Spec => []OperStatusTellsState
<1>1. StatusFollows => OperStatusTellsState
  BY DEF StatusFollows, Deciding, OperStatusTellsState
<1> QED
  BY <1>1, StatusInvariant, PTL

(* And no subscriber is left with a stale one, but for such a store, which *)
(* notifies nobody.                                                        *)
THEOREM SubscriberCorrect == Spec => []SubscriberIsUpToDate
<1>1. SubscriberFollows => SubscriberIsUpToDate
  BY DEF SubscriberFollows, SubscriberIsUpToDate
<1> QED
  BY <1>1, StatusInvariant, PTL

-----------------------------------------------------------------------------
(***************************************************************************)
(* The queue is bounded.  INIT is requested only by a call that read it    *)
(* and, once it is left, only a request brings it back; READY can also be  *)
(* reached by the timer, which decides with an empty queue.  So neither is *)
(* queued twice, and neighbours in the queue differ.                       *)
(***************************************************************************)
Absent(s) == \A i \in 1..Len(queue) : queue[i] # s

Once(s) == \A i, j \in 1..Len(queue) : queue[i] = s /\ queue[j] = s => i = j

OnlyFirst(s) == \A i \in 1..Len(queue) : queue[i] = s => i = 1

(* A call holds the state it read, until it returns.                       *)
Holds(s) == api \in {"store", "check", "transit"} /\ target = s

Carries == thread \in {"changed", "notify", "commit"}

Checks == thread \in {"checkNetif", "checkAdmin", "checkFlag"}

NeighboursDiffer == \A i \in 1..Len(queue) : i > 1 => queue[i] # queue[i-1]

InitOnce ==
  /\ Once(FSM_STATE_INIT)
  /\ Holds(FSM_STATE_INIT) \/ current_state = FSM_STATE_INIT =>
       /\ Absent(FSM_STATE_INIT)
       /\ Carries => next_state # FSM_STATE_INIT
  /\ Carries /\ next_state = FSM_STATE_INIT => Absent(FSM_STATE_INIT)
  /\ api = "transit" /\ target = FSM_STATE_INIT => current_state # FSM_STATE_INIT

ReadyOnce ==
  /\ Once(FSM_STATE_READY)
  /\ Checks => /\ current_state = FSM_STATE_WAITING_CONFIGURATION
               /\ OnlyFirst(FSM_STATE_READY)
  /\ Carries /\ next_state = FSM_STATE_READY => OnlyFirst(FSM_STATE_READY)
  /\ current_state = FSM_STATE_READY =>
       /\ OnlyFirst(FSM_STATE_READY)
       /\ Carries => Absent(FSM_STATE_READY)
  /\ Holds(FSM_STATE_READY) =>
       /\ current_state # FSM_STATE_READY => Absent(FSM_STATE_READY)
       /\ Checks => queue = <<>>
       /\ Carries /\ next_state = FSM_STATE_READY /\ current_state # FSM_STATE_READY
            => queue = <<>>
       /\ api = "transit" /\ current_state = FSM_STATE_READY
            => queue = <<>> /\ ~Carries

QueueInv == NeighboursDiffer /\ InitOnce /\ ReadyOnce

(* A queued request goes last, and only where it differs from the last.    *)
LEMMA RequestQueued ==
  ASSUME FsmTypeOK, thread # "none", NEW s \in FSMState, Transit(s),
         NeighboursDiffer
  PROVE  /\ NeighboursDiffer'
         /\ \A x \in FSMState :
              /\ x # s /\ Once(x) => Once(x)'
              /\ x # s /\ Absent(x) => Absent(x)'
              /\ x # s /\ OnlyFirst(x) => OnlyFirst(x)'
         /\ Absent(s) => Once(s)'
         /\ queue = <<>> => OnlyFirst(s)'
<1> USE DEF FsmTypeOK
<1>1. \/ queue' = queue
      \/ /\ ~LastIs(s)
         /\ Len(queue') = Len(queue) + 1
         /\ queue'[Len(queue')] = s
         /\ \A i \in 1..Len(queue) : queue'[i] = queue[i]
  BY DEF Transit
<1>2. CASE queue' = queue
  BY <1>2 DEF NeighboursDiffer, Once, Absent, OnlyFirst
<1>3. CASE /\ ~LastIs(s)
           /\ Len(queue') = Len(queue) + 1
           /\ queue'[Len(queue')] = s
           /\ \A i \in 1..Len(queue) : queue'[i] = queue[i]
  <2>1. NeighboursDiffer'
    <3> SUFFICES ASSUME NEW i \in 1..Len(queue'), i > 1
                 PROVE  queue'[i] # queue'[i-1]
      BY DEF NeighboursDiffer
    <3>1. CASE i = Len(queue')
      BY <1>3, <3>1 DEF LastIs
    <3>2. CASE i # Len(queue')
      BY <1>3, <3>2 DEF NeighboursDiffer
    <3> QED
      BY <3>1, <3>2
  <2>2. ASSUME NEW x \in FSMState, x # s
        PROVE  /\ Once(x) => Once(x)'
               /\ Absent(x) => Absent(x)'
               /\ OnlyFirst(x) => OnlyFirst(x)'
    <3>1. \A i \in 1..Len(queue') :
            queue'[i] = x => i \in 1..Len(queue) /\ queue[i] = x
      BY <1>3, <2>2
    <3> QED
      BY <3>1 DEF Once, Absent, OnlyFirst
  <2>3. Absent(s) => Once(s)'
    <3>1. Absent(s) => \A i \in 1..Len(queue') : queue'[i] = s => i = Len(queue')
      BY <1>3 DEF Absent
    <3> QED
      BY <3>1 DEF Once
  <2>4. queue = <<>> => OnlyFirst(s)'
    BY <1>3 DEF OnlyFirst
  <2> QED
    BY <2>1, <2>2, <2>3, <2>4
<1> QED
  BY <1>1, <1>2, <1>3

(* Taking the first request shifts the others.                             *)
LEMMA RequestTaken ==
  ASSUME FsmTypeOK, queue # <<>>, queue' = Tail(queue), NeighboursDiffer
  PROVE  /\ NeighboursDiffer'
         /\ Head(queue) \in FSMState
         /\ \A x \in FSMState :
              /\ Once(x) => Once(x)'
              /\ Absent(x) => Absent(x)' /\ Head(queue) # x
              /\ OnlyFirst(x) => Absent(x)'
              /\ Once(x) /\ Head(queue) = x => Absent(x)'
<1> USE DEF FsmTypeOK
<1>1. /\ Len(queue') = Len(queue) - 1
      /\ \A i \in 1..Len(queue') : i + 1 \in 1..Len(queue) /\ queue'[i] = queue[i+1]
      /\ 1 \in 1..Len(queue) /\ Head(queue) = queue[1] /\ queue[1] \in FSMState
  OBVIOUS
<1>2. NeighboursDiffer'
  <2> SUFFICES ASSUME NEW i \in 1..Len(queue'), i > 1
               PROVE  queue'[i] # queue'[i-1]
    BY DEF NeighboursDiffer
  <2>1. queue'[i] = queue[i+1] /\ queue'[i-1] = queue[i] /\ i + 1 \in 1..Len(queue)
    BY <1>1
  <2> QED
    BY <2>1 DEF NeighboursDiffer
<1>3. ASSUME NEW x \in FSMState, Once(x)
      PROVE  Once(x)' /\ (Head(queue) = x => Absent(x)')
  <2>1. Once(x)'
    <3> SUFFICES ASSUME NEW i \in 1..Len(queue'), NEW j \in 1..Len(queue'),
                        queue'[i] = x, queue'[j] = x
                 PROVE  i = j
      BY DEF Once
    <3>1. queue[i+1] = x /\ queue[j+1] = x
      BY <1>1
    <3>2. i + 1 = j + 1
      BY <1>1, <1>3, <3>1 DEF Once
    <3> QED
      BY <3>2
  <2>2. ASSUME Head(queue) = x, NEW i \in 1..Len(queue'), queue'[i] = x
        PROVE  FALSE
    <3>1. queue[i+1] = x /\ queue[1] = x
      BY <1>1, <2>2
    <3>2. i + 1 = 1
      BY <1>1, <1>3, <3>1 DEF Once
    <3> QED
      BY <3>2
  <2> QED
    BY <2>1, <2>2 DEF Absent
<1>4. ASSUME NEW x \in FSMState, Absent(x)
      PROVE  Absent(x)' /\ Head(queue) # x
  BY <1>1, <1>4 DEF Absent
<1>5. ASSUME NEW x \in FSMState, OnlyFirst(x)
      PROVE  Absent(x)'
  <2> SUFFICES ASSUME NEW i \in 1..Len(queue'), queue'[i] = x
               PROVE  FALSE
    BY DEF Absent
  <2>1. i + 1 = 1
    BY <1>1, <1>5 DEF OnlyFirst
  <2> QED
    BY <2>1
<1> QED
  BY <1>1, <1>2, <1>3, <1>4, <1>5

(* An empty queue holds nothing.                                           *)
LEMMA NothingQueued ==
  ASSUME queue = <<>>
  PROVE  NeighboursDiffer /\ \A x : Once(x) /\ Absent(x) /\ OnlyFirst(x)
BY DEF NeighboursDiffer, Once, Absent, OnlyFirst

(* A step that leaves the queue alone leaves what is said of it alone.     *)
LEMMA QueueKept ==
  ASSUME UNCHANGED queue
  PROVE  /\ NeighboursDiffer' <=> NeighboursDiffer
         /\ \A x : Once(x)' <=> Once(x)
         /\ \A x : Absent(x)' <=> Absent(x)
         /\ \A x : OnlyFirst(x)' <=> OnlyFirst(x)
BY DEF NeighboursDiffer, Once, Absent, OnlyFirst

(* What occurs nowhere occurs at most once, and at most first.             *)
LEMMA AbsentIsLess ==
  \A x : Absent(x) => Once(x) /\ OnlyFirst(x)
BY DEF Absent, Once, OnlyFirst

LEMMA NextQueue ==
  ASSUME TypeOK, IInv, QueueInv, [Next]_vars
  PROVE  QueueInv'
<1> USE DEF IInv, Control, EventsMatchQueue, EndOnlyWhenRemoving, Removing,
            QueueInv, InitOnce, ReadyOnce, Holds, Carries, Checks,
            fsmVars, apiVars, objectVars, configVars
<1>t. FsmTypeOK /\ target \in FSMState
  BY DEF TypeOK
<1>k. CASE UNCHANGED <<queue, thread, current_state, next_state, api, target>>
  BY <1>k, QueueKept
<1>1. CASE CreateModule
  BY <1>1, NothingQueued, QueueKept DEF CreateModule, Start
<1>2. CASE \/ SetModule \/ CreateNetif \/ RemoveNetif \/ PollWaiting \/ ClearFlag
           \/ PollEnd \/ \E i \in HostIf : CreateHostif(i) \/ RemoveHostif(i)
  BY <1>2, QueueKept DEF SetModule, CreateNetif, RemoveNetif, PollWaiting, ClearFlag,
     PollEnd, CreateHostif, RemoveHostif
<1>3. CASE \E r \in Requests : SetAttributes(r)
  BY <1>3, QueueKept DEF SetAttributes
<1>4. CASE StoreAttributes
  <2>1. \A s \in {FSM_STATE_INIT, FSM_STATE_READY} : target' = s => target = s
    BY <1>4, <1>t DEF StoreAttributes, Lowered, Min2
  <2>2. api' \in {"check", "idle"}
        /\ UNCHANGED <<queue, thread, current_state, next_state>>
    BY <1>4 DEF StoreAttributes, EndSet
  <2> QED
    BY <1>4, <2>1, <2>2, QueueKept DEF StoreAttributes
<1>5. CASE CheckState
  <2>1. \A s \in {FSM_STATE_INIT, FSM_STATE_READY} : target' = s => target = s
    BY <1>5, <1>t DEF CheckState, Capped, Min2
  <2>2. /\ api = "check"
        /\ api' = "idle" \/ (api' = "transit" /\ current_state # target')
        /\ UNCHANGED <<queue, thread, current_state, next_state>>
    BY <1>5 DEF CheckState, EndSet
  <2> QED
    BY <2>1, <2>2, QueueKept
<1>6. CASE RequestState
  <2>1. /\ api = "transit" /\ api' = "idle" /\ thread # "none"
        /\ Transit(target)
        /\ UNCHANGED <<thread, current_state, next_state, target>>
    BY <1>6 DEF RequestState, EndSet
  <2>2. NeighboursDiffer'
    BY <1>t, <2>1, RequestQueued
  <2>3. CASE target = FSM_STATE_INIT
    BY <1>t, <2>1, <2>2, <2>3, RequestQueued
  <2>4. CASE target = FSM_STATE_READY
    BY <1>t, <2>1, <2>2, <2>4, RequestQueued, NothingQueued, AbsentIsLess
  <2>5. CASE target \notin {FSM_STATE_INIT, FSM_STATE_READY}
    BY <1>t, <2>1, <2>2, <2>5, RequestQueued
  <2> QED
    BY <2>3, <2>4, <2>5
<1>7. CASE RequestWaiting
  BY <1>7, <1>t, RequestQueued DEF RequestWaiting
<1>8. CASE RemoveModule
  BY <1>8, <1>t, RequestQueued DEF RemoveModule
<1>9. CASE Destroy
  <2>1. queue' = <<>>
    BY <1>9 DEF Destroy, Shutdown
  <2>2. NeighboursDiffer' /\ \A x : Once(x)' /\ Absent(x)' /\ OnlyFirst(x)'
    BY <2>1 DEF NeighboursDiffer, Once, Absent, OnlyFirst
  <2> QED
    BY <1>9, <2>2 DEF Destroy, Shutdown
<1>10. CASE Enter
  BY <1>10, QueueKept DEF Enter
<1>11. CASE TakeEvent
  BY <1>11, QueueKept DEF TakeEvent, ReadEvent
<1>12. CASE TakeRequest
  <2>1. /\ thread = "pop" /\ thread' = "changed"
        /\ queue # <<>> /\ queue' = Tail(queue) /\ next_state' = Head(queue)
        /\ UNCHANGED <<current_state, api, target>>
    BY <1>12, <1>t DEF TakeRequest, PopRequest, FsmTypeOK
  <2>2. NeighboursDiffer'
    BY <1>t, <2>1, RequestTaken
  <2>3. InitOnce'
    BY <1>t, <2>1, RequestTaken
  <2>4. ReadyOnce'
    <3>1. /\ Once(FSM_STATE_READY)'
          /\ Absent(FSM_STATE_READY) =>
               Absent(FSM_STATE_READY)' /\ Head(queue) # FSM_STATE_READY
          /\ OnlyFirst(FSM_STATE_READY) => Absent(FSM_STATE_READY)'
          /\ Head(queue) = FSM_STATE_READY => Absent(FSM_STATE_READY)'
      BY <1>t, <2>1, RequestTaken
    <3>2. Absent(FSM_STATE_READY)' => OnlyFirst(FSM_STATE_READY)'
      BY DEF Absent, OnlyFirst
    <3> QED
      BY <2>1, <3>1, <3>2
  <2> QED
    BY <2>2, <2>3, <2>4
<1>13. CASE Tick
  <2>1. queue = <<>> \/ ~Checks'
    BY <1>13, <1>t DEF Tick, FsmTypeOK
  <2> QED
    BY <1>13, <2>1, QueueKept, NothingQueued DEF Tick
<1>14. CASE CheckNetif
  BY <1>14, QueueKept DEF CheckNetif
<1>15. CASE CheckAdmin
  BY <1>15, QueueKept DEF CheckAdmin
<1>16. CASE CheckFlag
  BY <1>16, QueueKept DEF CheckFlag
<1>17. CASE NotifyTick
  BY <1>17, QueueKept DEF NotifyTick
<1>18. CASE StateChange
  BY <1>18, QueueKept DEF StateChange
<1>19. CASE NotifyOperStatus
  BY <1>19, QueueKept DEF NotifyOperStatus
<1>20. CASE CommitState
  BY <1>20, QueueKept, AbsentIsLess DEF CommitState, Commit
<1>21. CASE UNCHANGED vars
  BY <1>21, <1>k DEF vars
<1> QED
  BY <1>1, <1>2, <1>3, <1>4, <1>5, <1>6, <1>7, <1>8, <1>9, <1>10, <1>11,
     <1>12, <1>13, <1>14, <1>15, <1>16, <1>17, <1>18, <1>19, <1>20, <1>21
     DEF Next, ApiCall, ApiProgress, FsmThread

(* A sixth state in the queue would need two neighbours that are equal.    *)
LEMMA QueueInvBounds ==
  ASSUME TypeOK, EndClosesQueue, NeighboursDiffer,
         Once(FSM_STATE_INIT), Once(FSM_STATE_READY)
  PROVE  QueueIsBounded
<1> SUFFICES ASSUME NEW n \in 1..Len(queue), queue[n] # FSM_STATE_END, n > 5
             PROVE  FALSE
  BY DEF QueueIsBounded
<1>1. \A i \in 1..6 : i \in 1..Len(queue)
  BY DEF TypeOK, FsmTypeOK
<1>2. \A i \in 1..6 : queue[i] \in {FSM_STATE_INIT, FSM_STATE_WAITING_CONFIGURATION,
                                   FSM_STATE_READY}
  <2> SUFFICES ASSUME NEW i \in 1..6
               PROVE  queue[i] # FSM_STATE_END
    BY <1>1 DEF TypeOK, FsmTypeOK
  <2>1. CASE i = Len(queue)
    BY <2>1 DEF TypeOK, FsmTypeOK
  <2>2. CASE i # Len(queue)
    BY <1>1, <2>2 DEF EndClosesQueue
  <2> QED
    BY <2>1, <2>2
<1>3. queue[1] # queue[2] /\ queue[3] # queue[4] /\ queue[5] # queue[6]
  BY <1>1 DEF NeighboursDiffer
<1>4. \A i, j \in 1..6 : queue[i] = queue[j] /\ i # j
                         => queue[i] = FSM_STATE_WAITING_CONFIGURATION
  BY <1>1, <1>2 DEF Once
<1>5. PICK a \in {1, 2} : queue[a] # FSM_STATE_WAITING_CONFIGURATION
  BY <1>3
<1>6. PICK b \in {3, 4} : queue[b] # FSM_STATE_WAITING_CONFIGURATION
  BY <1>3
<1>7. PICK c \in {5, 6} : queue[c] # FSM_STATE_WAITING_CONFIGURATION
  BY <1>3
<1>8. a \in 1..6 /\ b \in 1..6 /\ c \in 1..6 /\ a # b /\ a # c /\ b # c
  OBVIOUS
<1> QED
  BY <1>2, <1>4, <1>5, <1>6, <1>7, <1>8

(* No schedule of calls and of the thread makes the queue grow: five       *)
(* states and END is all it ever holds (fsm.hpp:91-102).                   *)
THEOREM QueueCorrect == Spec => []QueueIsBounded
<1>1. Init => QueueInv
  BY NothingQueued DEF Init, FsmInit, QueueInv, InitOnce, ReadyOnce, Holds, Carries, Checks
<1>2. TypeOK /\ IInv /\ QueueInv /\ [Next]_vars => QueueInv'
  BY NextQueue
<1>3. TypeOK /\ IInv /\ QueueInv => QueueIsBounded
  BY QueueInvBounds DEF IInv, QueueInv, InitOnce, ReadyOnce
<1> QED
  BY <1>1, <1>2, <1>3, TypeCorrect, InductiveInvariant, PTL DEF Spec

-----------------------------------------------------------------------------
(***************************************************************************)
(* The lifecycle.  The abstract thread stops when the FSM thread commits   *)
(* END, at which time remove_module() waits and nothing is attached.       *)
(***************************************************************************)
LEMMA NextLifecycle ==
  ASSUME TypeOK, IInv, [Next]_vars
  PROVE  [Lifecycle!Next]_<<Phase, module, netif, hostifs>>
<1> USE DEF IInv, Control, EndOnlyWhenRemoving, Removing, Phase,
            fsmVars, apiVars, objectVars, configVars
<1>1. CASE UNCHANGED <<Phase, module, netif, hostifs>>
  BY <1>1, Zenon
<1>2. CASE CreateModule
  <2>1. Lifecycle!Start
    BY <1>2 DEF CreateModule, Start, Lifecycle!Start
  <2> QED
    BY <2>1 DEF Lifecycle!Next
<1>3. CASE SetModule
  <2>1. Lifecycle!Attach
    BY <1>3 DEF SetModule, Lifecycle!Attach
  <2> QED
    BY <2>1 DEF Lifecycle!Next
<1>4. CASE CreateNetif \/ PollWaiting
  <2>1. Lifecycle!ChangeNetif \/ UNCHANGED <<Phase, module, netif, hostifs>>
    BY <1>4 DEF TypeOK, CreateNetif, PollWaiting, Lifecycle!ChangeNetif
  <2> QED
    BY <2>1 DEF Lifecycle!Next
<1>5. CASE \E i \in HostIf : CreateHostif(i) \/ RemoveHostif(i)
  <2>1. hostifs' \in SUBSET HostIf
    BY <1>5 DEF TypeOK, CreateHostif, RemoveHostif
  <2>2. Lifecycle!ChangeHostifs
    BY <1>5, <2>1 DEF CreateHostif, RemoveHostif, Lifecycle!ChangeHostifs
  <2> QED
    BY <2>2 DEF Lifecycle!Next
<1>6. CASE CommitState
  <2>1. CASE next_state # FSM_STATE_END
    BY <1>1, <1>6, <2>1 DEF CommitState, Commit
  <2>2. CASE next_state = FSM_STATE_END
    <3>1. Lifecycle!Stop
      BY <1>6, <2>2 DEF CommitState, Commit, Lifecycle!Stop, Lifecycle!Bare
    <3> QED
      BY <3>1 DEF Lifecycle!Next
  <2> QED
    BY <2>1, <2>2
<1>7. CASE PollEnd
  <2>1. Lifecycle!Detach
    BY <1>7 DEF PollEnd, EndReached, Lifecycle!Detach
  <2> QED
    BY <2>1 DEF Lifecycle!Next
<1>8. CASE Destroy
  <2>1. Lifecycle!Forget
    BY <1>8 DEF Destroy, Shutdown, Lifecycle!Forget
  <2> QED
    BY <2>1 DEF Lifecycle!Next
<1>9. CASE \/ StoreAttributes \/ CheckState \/ RequestState \/ RemoveNetif
           \/ RequestWaiting \/ ClearFlag \/ RemoveModule
           \/ \E r \in Requests : SetAttributes(r)
  <2>1. UNCHANGED <<thread, module, netif, hostifs>>
    BY <1>9 DEF StoreAttributes, CheckState, RequestState, RemoveNetif, RequestWaiting,
         ClearFlag, RemoveModule, SetAttributes
  <2> QED
    BY <1>1, <2>1
<1>10. CASE Enter \/ TakeEvent \/ TakeRequest \/ Tick \/ CheckNetif \/ CheckAdmin
            \/ CheckFlag \/ NotifyTick \/ StateChange \/ NotifyOperStatus
  <2>1. /\ UNCHANGED <<module, netif, hostifs>>
        /\ thread \notin {"none", "ended"} /\ thread' \notin {"none", "ended"}
    BY <1>10 DEF Enter, TakeEvent, ReadEvent, TakeRequest, PopRequest, Tick, CheckNetif,
         CheckAdmin, CheckFlag, NotifyTick, StateChange, NotifyOperStatus
  <2> QED
    BY <1>1, <2>1
<1>11. CASE UNCHANGED vars
  BY <1>1, <1>11 DEF vars
<1> QED
  BY <1>2, <1>3, <1>4, <1>5, <1>6, <1>7, <1>8, <1>9, <1>10, <1>11
     DEF Next, ApiCall, ApiProgress, FsmThread

(* The thread is never stopped under an interface, nothing is attached to  *)
(* a stopped one, and the module outlives the thread's last use of it.     *)
THEOREM Implementation == Spec => ImplementsLifecycle
<1>1. Init => Lifecycle!Init
  BY DEF Init, FsmInit, Phase, Lifecycle!Init, Lifecycle!Bare
<1>2. TypeOK /\ IInv /\ [Next]_vars => [Lifecycle!Next]_<<Phase, module, netif, hostifs>>
  BY NextLifecycle
<1> QED
  BY <1>1, <1>2, TypeCorrect, InductiveInvariant, PTL
     DEF Spec, ImplementsLifecycle, Lifecycle!Spec, Lifecycle!lifecycleVars
=============================================================================
