---------------------------- MODULE FrameworkFsm ----------------------------
(***************************************************************************)
(* The state machine of the TAI library framework, tools/framework/fsm.hpp:*)
(* a request queue guarded by a mutex, an eventfd in semaphore mode that   *)
(* wakes the thread, and the thread's loop.  What a state does (its        *)
(* callback, the state-change callback) is left to the adapter, see        *)
(* BasicModule.                                                            *)
(*                                                                         *)
(* m_prev_state is not modelled: nothing reads it.                         *)
(***************************************************************************)
EXTENDS Integers, Sequences

FSM_STATE_INIT                  == 0
FSM_STATE_WAITING_CONFIGURATION == 100
FSM_STATE_READY                 == 200
FSM_STATE_END                   == 300

FSMState == {FSM_STATE_INIT, FSM_STATE_WAITING_CONFIGURATION,
             FSM_STATE_READY, FSM_STATE_END}

VARIABLES
  thread,        \* where the FSM thread is in loop(), "none" before start()
  current_state, \* m_current_state, read by every thread without a lock
  next_state,    \* m_next_state, the thread's own decision until it commits
  queue,         \* m_queue, the requests not consumed yet
  events         \* the count in the eventfd

fsmVars == <<thread, current_state, next_state, queue, events>>

(***************************************************************************)
(* The steps of loop() and of the callbacks the adapter runs inside it.    *)
(***************************************************************************)
ThreadStep == {"none", "enter", "select", "pop",
               "checkNetif", "checkAdmin", "checkFlag",
               "changed", "notify", "tickNotify", "commit", "ended"}

FsmTypeOK ==
  /\ thread \in ThreadStep
  /\ current_state \in FSMState
  /\ next_state \in FSMState
  /\ queue \in Seq(FSMState)
  /\ events \in Nat

FsmInit ==
  /\ thread = "none"
  /\ current_state = FSM_STATE_INIT
  /\ next_state = FSM_STATE_INIT
  /\ queue = <<>>
  /\ events = 0

(***************************************************************************)
(* start(): the eventfd is opened and the thread begins its loop.  The FSM *)
(* was built a moment ago, so nothing is queued.                           *)
(***************************************************************************)
Start ==
  /\ thread = "none"
  /\ thread' = "enter"
  /\ UNCHANGED <<current_state, next_state, queue, events>>

(***************************************************************************)
(* transit(state): under m_queue_mutex, a request equal to the last one in *)
(* the queue is dropped, any other is queued and signalled.                *)
(***************************************************************************)
LastIs(state) == queue # <<>> /\ queue[Len(queue)] = state

(* Mutants of Transit: every request is queued; and the drop comes after   *)
(* the signal.                                                             *)
TransitAlways(state) ==
  /\ queue' = Append(queue, state)
  /\ events' = IF thread = "none" THEN events ELSE events + 1

TransitSignalsFirst(state) ==
  /\ queue' = IF LastIs(state) THEN queue ELSE Append(queue, state)
  /\ events' = IF thread = "none" THEN events ELSE events + 1

Transit(state) ==
  IF LastIs(state)
  THEN UNCHANGED <<queue, events>>
  ELSE /\ queue' = Append(queue, state)
       /\ events' = IF thread = "none" THEN events ELSE events + 1

(***************************************************************************)
(* A callback that found the eventfd readable: read() takes one event off  *)
(* the semaphore, and next_state() then pops the request under the lock.   *)
(***************************************************************************)
(* Mutant of ReadEvent: the callback reads without asking select() first.  *)
ReadEventUnasked ==
  /\ thread = "select"
  /\ events' = events - 1
  /\ thread' = "pop"
  /\ UNCHANGED <<current_state, next_state, queue>>

ReadEvent ==
  /\ thread = "select"
  /\ events > 0
  /\ events' = events - 1
  /\ thread' = "pop"
  /\ UNCHANGED <<current_state, next_state, queue>>

PopRequest ==
  /\ thread = "pop"
  /\ IF queue = <<>>
     THEN next_state' = current_state /\ UNCHANGED queue
     ELSE next_state' = Head(queue) /\ queue' = Tail(queue)
  /\ thread' = "changed"
  /\ UNCHANGED <<current_state, events>>

(***************************************************************************)
(* The end of an iteration of loop(): the state the callback returned      *)
(* becomes visible, after the state-change callback has run.               *)
(***************************************************************************)
Commit ==
  /\ thread = "commit"
  /\ current_state' = next_state
  /\ thread' = IF next_state = FSM_STATE_END THEN "ended" ELSE "enter"
  /\ UNCHANGED <<next_state, queue, events>>

(***************************************************************************)
(* ~FSM() -> shutdown(): one more END request, join(), close().  The       *)
(* thread of an adapter that has reached END has nothing left to run; the  *)
(* object is gone and a module created later gets a fresh one.             *)
(***************************************************************************)
Shutdown ==
  /\ thread = "ended"
  /\ thread' = "none"
  /\ current_state' = FSM_STATE_INIT
  /\ next_state' = FSM_STATE_INIT
  /\ queue' = <<>>
  /\ events' = 0

(***************************************************************************)
(* The request the thread has taken but not applied yet, as a sequence, so *)
(* that taken and queued requests read as one list.                        *)
(***************************************************************************)
InHand == IF thread \in {"changed", "notify", "commit"}
          THEN <<next_state>> ELSE <<>>

Pending == InHand \o queue
=============================================================================
