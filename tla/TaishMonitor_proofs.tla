------------------------ MODULE TaishMonitor_proofs ------------------------
(***************************************************************************)
(* Proofs about TaishMonitor, for any number of Monitor() calls and        *)
(* notifications.                                                          *)
(***************************************************************************)
EXTENDS TaishMonitor, TLAPS, FiniteSetTheorems, SequenceTheorems

(***************************************************************************)
(* What a process works with where: a stream writes what is in its queue,  *)
(* and whoever notifies has a notifier.                                    *)
(***************************************************************************)
InHand ==
  /\ \A s \in Stream : pc[s] = "write" => q[s] # <<>>
  /\ \A p \in {"library", "remover"} : pc[p] \in NotifyStep => local[p] \in Stream

LEMMA ProcessFacts ==
  /\ Stream \subseteq Process /\ "library" \in Process /\ "remover" \in Process
  /\ None \notin Process
  /\ \A s \in Stream : s # "library" /\ s # "remover" /\ s # None
  /\ \A p \in Process : p \in Stream \/ p = "library" \/ p = "remover"
BY StreamAssumption DEF Process

StreamPlace == {"call"} \cup SetupStep \cup LoopStep \cup CleanupStep \cup EndStep
RemoverPlace == {"idle", "remove", "forget", "done"} \cup NotifyStep
LibraryPlace == {"idle"} \cup NotifyStep

LEMMA Places ==
  /\ \A s \in Stream : StepOf(s) = StreamPlace
  /\ StepOf("library") = LibraryPlace
  /\ StepOf("remover") = RemoverPlace
  /\ StreamPlace \cup RemoverPlace \cup LibraryPlace \subseteq Step
<1>1. ASSUME NEW s \in Stream
      PROVE  StepOf(s) = StreamPlace
  <2>1. s # "library" /\ s # "remover"
    BY ProcessFacts
  <2> QED
    BY <2>1 DEF StepOf, StreamPlace
<1>2. StepOf("library") = LibraryPlace /\ StepOf("remover") = RemoverPlace
  BY DEF StepOf, LibraryPlace, RemoverPlace
<1>3. StreamPlace \cup RemoverPlace \cup LibraryPlace \subseteq Step
  BY DEF StreamPlace, RemoverPlace, LibraryPlace, Step
<1> QED
  BY <1>1, <1>2, <1>3

(* A process goes on to a step of its own.                                 *)
LEMMA GoFacts ==
  ASSUME pc \in [Process -> Step], NEW p \in Process, NEW step \in Step, Go(p, step)
  PROVE  /\ pc' \in [Process -> Step]
         /\ pc'[p] = step
         /\ \A r \in Process \ {p} : pc'[r] = pc[r]
BY DEF Go

(***************************************************************************)
(* Types.                                                                  *)
(***************************************************************************)
PcOK == pc \in [Process -> Step] /\ \A p \in Process : pc[p] \in StepOf(p)

LEMMA StreamGoes ==
  ASSUME PcOK, NEW s \in Stream, NEW step \in StreamPlace, Go(s, step)
  PROVE  PcOK'
<1>1. s \in Process /\ step \in Step /\ step \in StepOf(s)
  BY Places, ProcessFacts
<1>2. /\ pc' \in [Process -> Step] /\ pc'[s] = step
      /\ \A r \in Process \ {s} : pc'[r] = pc[r]
  BY <1>1, GoFacts DEF PcOK
<1> QED
  BY <1>1, <1>2, Zenon DEF PcOK, StepOf

LEMMA NextPcOK ==
  ASSUME PcOK, [Next]_vars
  PROVE  PcOK'
<1>1. ASSUME NEW s \in Stream, StreamStep(s)
      PROVE  PcOK'
  <2>1. \E step \in StreamPlace : Go(s, step)
    BY <1>1 DEF StreamStep, Call, Get, Lookup, SetNotify, CheckOthers, Subscribe, Wake,
       CheckCancelled, LookForKey, WriteFront, CleanUp, CheckLast, LockApi, UnsetNotify,
       Desubscribe, CheckNone, EraseKey, StreamPlace, SetupStep, LoopStep, CleanupStep,
       EndStep
  <2> QED
    BY <2>1, StreamGoes
<1>2. CASE LibraryNotify \/ LibraryStep
  <2>1. UNCHANGED pc \/ \E step \in LibraryPlace : Go("library", step)
    BY <1>2 DEF LibraryNotify, LibraryStep, NotifierStep, Notify, Push, LibraryDone,
       LibraryPlace, NotifyStep
  <2> QED
    BY <2>1, GoFacts, Places, ProcessFacts DEF PcOK
<1>3. CASE Remove \/ RemoverStep
  <2>1. UNCHANGED pc \/ \E step \in RemoverPlace : Go("remover", step)
    BY <1>3 DEF Remove, RemoverStep, NotifierStep, Notify, Push, RemoveObject,
       ForgetNotifier, RemoveDone, RemoverPlace, NotifyStep
  <2> QED
    BY <2>1, GoFacts, Places, ProcessFacts DEF PcOK
<1>4. CASE Create \/ (\E s \in Stream : Cancel(s)) \/ UNCHANGED vars
  BY <1>4 DEF Create, Cancel, vars, PcOK
<1> QED
  BY <1>1, <1>2, <1>3, <1>4 DEF Next

LocksOK ==
  /\ {api_mtx, map_mtx, object_mtx} \subseteq Process \cup {None}
  /\ notifier_mtx \in [Stream -> Process \cup {None}]
  /\ stream_mtx \in [Stream -> Process \cup {None}]

LEMMA NextLocksOK ==
  ASSUME LocksOK, [Next]_vars
  PROVE  LocksOK'
<1> USE DEF LocksOK, locks
<1>1. ASSUME NEW s \in Stream, StreamStep(s)
      PROVE  LocksOK'
  <2>1. UNCHANGED <<object_mtx, notifier_mtx>>
    BY <1>1, Zenon DEF StreamStep, Call, Get, Lookup, SetNotify, CheckOthers, Subscribe,
       Wake, CheckCancelled, LookForKey, WriteFront, CleanUp, CheckLast, LockApi,
       UnsetNotify, Desubscribe, CheckNone, EraseKey
  <2>2. api_mtx' \in {api_mtx, s, None}
    BY <1>1 DEF StreamStep, Call, Get, Lookup, SetNotify, CheckOthers, Subscribe,
       Wake, CheckCancelled, LookForKey, WriteFront, CleanUp, CheckLast, LockApi,
       UnsetNotify, Desubscribe, CheckNone, EraseKey
  <2>3. map_mtx' \in {map_mtx, s, None}
    BY <1>1 DEF StreamStep, Call, Get, Lookup, SetNotify, CheckOthers, Subscribe,
       Wake, CheckCancelled, LookForKey, WriteFront, CleanUp, CheckLast, LockApi,
       UnsetNotify, Desubscribe, CheckNone, EraseKey
  <2>4. \/ UNCHANGED stream_mtx
        \/ stream_mtx' = [stream_mtx EXCEPT ![s] = s]
        \/ stream_mtx' = [stream_mtx EXCEPT ![s] = None]
    BY <1>1, Zenon DEF StreamStep, Call, Get, Lookup, SetNotify, CheckOthers, Subscribe,
       Wake, CheckCancelled, LookForKey, WriteFront, CleanUp, CheckLast, LockApi,
       UnsetNotify, Desubscribe, CheckNone, EraseKey
  <2> QED
    BY <2>1, <2>2, <2>3, <2>4, ProcessFacts
<1>2. CASE LibraryNotify \/ LibraryStep
  BY <1>2, ProcessFacts DEF LibraryNotify, LibraryStep, NotifierStep, Notify, Push,
     LibraryDone
<1>3. CASE Remove \/ RemoverStep
  BY <1>3, ProcessFacts DEF Remove, RemoverStep, NotifierStep, Notify, Push,
     RemoveObject, ForgetNotifier, RemoveDone
<1>4. CASE Create \/ (\E s \in Stream : Cancel(s)) \/ UNCHANGED vars
  BY <1>4 DEF Create, Cancel, vars
<1> QED
  BY <1>1, <1>2, <1>3, <1>4 DEF Next

ObjectOK ==
  /\ present \in BOOLEAN /\ removed \in BOOLEAN
  /\ attr \in Stream \cup {None} /\ registered \in Stream \cup {None}
  /\ subscribers \in [Stream -> SUBSET Stream]
  /\ cancelled \subseteq Cancelling
  /\ local \in [Process -> Stream \cup {None}]
  /\ todo \in [Process -> SUBSET Stream]

LEMMA NextObjectOK ==
  ASSUME ObjectOK, InHand, PcOK, [Next]_vars
  PROVE  ObjectOK'
<1> USE ProcessFacts DEF ObjectOK, object, notifiers, streams
<1>1. ASSUME NEW s \in Stream, StreamStep(s)
      PROVE  ObjectOK'
  <2>1. CASE Call(s) \/ Get(s) \/ Lookup(s) \/ SetNotify(s) \/ CheckOthers(s) \/ Subscribe(s)
    BY <2>1 DEF Call, Get, Lookup, NotifierFor, SetNotify, CheckOthers, Subscribe
  <2>2. CASE Wake(s) \/ CheckCancelled(s) \/ LookForKey(s) \/ WriteFront(s)
    BY <2>2 DEF Wake, CheckCancelled, LookForKey, WriteFront
  <2>3. CASE CleanUp(s) \/ CheckLast(s) \/ LockApi(s) \/ UnsetNotify(s)
    BY <2>3 DEF CleanUp, CheckLast, LockApi, UnsetNotify, NullContext
  <2>4. CASE Desubscribe(s) \/ CheckNone(s) \/ EraseKey(s)
    BY <2>4 DEF Desubscribe, Remaining, CheckNone, EraseKey
  <2> QED
    BY <1>1, <2>1, <2>2, <2>3, <2>4 DEF StreamStep
<1>2. ASSUME NEW p \in {"library", "remover"}, NotifierStep(p)
      PROVE  ObjectOK'
  <2>1. CASE Notify(p)
    BY <2>1 DEF Notify, At, InHand, NotifyStep
  <2>2. ASSUME NEW s \in Stream, Push(p, s)
        PROVE  ObjectOK'
    BY <2>2 DEF Push
  <2> QED
    BY <1>2, <2>1, <2>2 DEF NotifierStep
<1>3. CASE LibraryNotify \/ LibraryDone
  BY <1>3 DEF LibraryNotify, LibraryDone
<1>4. CASE Remove \/ RemoveObject \/ ForgetNotifier \/ RemoveDone \/ Create
  BY <1>4 DEF Remove, RemoveObject, ForgetNotifier, RemoveDone, Create
<1>5. CASE (\E s \in Stream : Cancel(s)) \/ UNCHANGED vars
  BY <1>5 DEF Cancel, vars, Open
<1> QED
  BY <1>1, <1>2, <1>3, <1>4, <1>5 DEF Next, LibraryStep, RemoverStep

QueuesOK ==
  /\ q \in [Stream -> Seq(0..MaxNotify)] /\ written \in [Stream -> Seq(0..MaxNotify)]
  /\ sent \in 0..MaxNotify

LEMMA NextQueuesOK ==
  ASSUME QueuesOK, InHand, [Next]_vars
  PROVE  QueuesOK'
<1> USE StreamAssumption DEF QueuesOK, streams
<1>1. ASSUME NEW s \in Stream, StreamStep(s)
      PROVE  QueuesOK'
  <2>1. CASE WriteFront(s)
    <3>1. /\ q[s] \in Seq(0..MaxNotify) /\ q[s] # <<>>
          /\ written[s] \in Seq(0..MaxNotify)
      BY <2>1 DEF WriteFront, At, InHand
    <3>2. Tail(q[s]) \in Seq(0..MaxNotify) /\ Head(q[s]) \in 0..MaxNotify
      BY <3>1
    <3>3. Append(written[s], Head(q[s])) \in Seq(0..MaxNotify)
      BY <3>1, <3>2
    <3> QED
      BY <2>1, <3>2, <3>3, ZenonT(30) DEF WriteFront
  <2>2. CASE ~ WriteFront(s)
    BY <1>1, <2>2, Zenon DEF StreamStep, Call, Get, Lookup, SetNotify, CheckOthers,
       Subscribe, Wake, CheckCancelled, LookForKey, CleanUp, CheckLast, LockApi,
       UnsetNotify, Desubscribe, CheckNone, EraseKey
  <2> QED
    BY <2>1, <2>2
<1>2. ASSUME NEW p \in {"library", "remover"}, NotifierStep(p)
      PROVE  QueuesOK'
  <2>1. CASE Notify(p)
    BY <2>1 DEF Notify
  <2>2. ASSUME NEW s \in Stream, Push(p, s)
        PROVE  QueuesOK'
    <3>1. Append(q[s], Notification(p)) \in Seq(0..MaxNotify)
      BY DEF Notification, REMOVED
    <3> QED
      BY <2>2, <3>1 DEF Push, Pushed
  <2> QED
    BY <1>2, <2>1, <2>2 DEF NotifierStep
<1>3. CASE LibraryNotify
  BY <1>3 DEF LibraryNotify
<1>4. CASE LibraryDone \/ Remove \/ RemoveObject \/ ForgetNotifier \/ RemoveDone \/ Create
  BY <1>4 DEF LibraryDone, Remove, RemoveObject, ForgetNotifier, RemoveDone, Create
<1>5. CASE (\E s \in Stream : Cancel(s)) \/ UNCHANGED vars
  BY <1>5 DEF Cancel, vars
<1> QED
  BY <1>1, <1>2, <1>3, <1>4, <1>5 DEF Next, LibraryStep, RemoverStep

LEMMA AppendIsNotEmpty ==
  ASSUME NEW S, NEW u \in Seq(S), NEW x \in S
  PROVE  Append(u, x) # <<>>
BY AppendProperties

LEMMA NextInHand ==
  ASSUME InHand, PcOK, ObjectOK, QueuesOK, [Next]_vars
  PROVE  InHand'
<1> USE ProcessFacts DEF InHand, Go, At, NotifyStep, streams
<1>1. ASSUME NEW s \in Stream, StreamStep(s)
      PROVE  InHand'
  <2>1. /\ \A p \in Process \ {s} : pc'[p] = pc[p] /\ local'[p] = local[p]
        /\ \A r \in Stream \ {s} : q'[r] = q[r]
    BY <1>1 DEF StreamStep, Call, Get, Lookup, SetNotify, CheckOthers, Subscribe, Wake,
       CheckCancelled, LookForKey, WriteFront, CleanUp, CheckLast, LockApi, UnsetNotify,
       Desubscribe, CheckNone, EraseKey, PcOK, ObjectOK, QueuesOK
  <2>2. pc'[s] = "write" => q'[s] # <<>>
    BY <1>1 DEF StreamStep, Call, Get, Lookup, SetNotify, CheckOthers, Subscribe, Wake,
       CheckCancelled, LookForKey, WriteFront, CleanUp, CheckLast, LockApi, UnsetNotify,
       Desubscribe, CheckNone, EraseKey, PcOK
  <2> QED
    BY <2>1, <2>2
<1>2. ASSUME NEW p \in {"library", "remover"}, NotifierStep(p)
      PROVE  InHand'
  <2>1. CASE Notify(p)
    BY <2>1 DEF Notify, PcOK
  <2>2. ASSUME NEW s \in Stream, Push(p, s)
        PROVE  InHand'
    <3>1. q'[s] # <<>> /\ \A r \in Stream \ {s} : q'[r] = q[r]
      <4>1. Append(q[s], Notification(p)) # <<>>
        <5>1. q[s] \in Seq(0..MaxNotify) /\ Notification(p) \in 0..MaxNotify
          BY StreamAssumption DEF QueuesOK, Notification, REMOVED
        <5> QED
          BY <5>1, AppendIsNotEmpty
      <4> QED
        BY <2>2, <4>1 DEF Push, Pushed, QueuesOK
    <3> QED
      BY <2>2, <3>1 DEF Push
  <2> QED
    BY <1>2, <2>1, <2>2 DEF NotifierStep
<1>3. CASE LibraryNotify \/ LibraryDone
  BY <1>3 DEF LibraryNotify, LibraryDone, PcOK, ObjectOK
<1>4. CASE Remove \/ RemoveObject \/ ForgetNotifier \/ RemoveDone \/ Create
  BY <1>4 DEF Remove, RemoveObject, ForgetNotifier, RemoveDone, Create, PcOK, ObjectOK
<1>5. CASE (\E s \in Stream : Cancel(s)) \/ UNCHANGED vars
  BY <1>5 DEF Cancel, vars
<1> QED
  BY <1>1, <1>2, <1>3, <1>4, <1>5 DEF Next, LibraryStep, RemoverStep

HistoryOK == since \in [Stream -> 0..MaxNotify] /\ crossed \in BOOLEAN

LEMMA NextHistoryOK ==
  ASSUME HistoryOK, QueuesOK, [Next]_vars
  PROVE  HistoryOK'
<1> USE DEF HistoryOK, streams
<1>1. ASSUME NEW s \in Stream, StreamStep(s)
      PROVE  HistoryOK'
  <2>1. \/ UNCHANGED since
        \/ since' = [since EXCEPT ![s] = sent]
    BY <1>1, Zenon DEF StreamStep, Call, Get, Lookup, SetNotify, CheckOthers, Subscribe, Wake,
       CheckCancelled, LookForKey, WriteFront, CleanUp, CheckLast, LockApi, UnsetNotify,
       Desubscribe, CheckNone, EraseKey
  <2>2. \/ UNCHANGED crossed
        \/ crossed' = (crossed \/ Erasing)
        \/ crossed' = (crossed \/ Joining(s))
    BY <1>1, Zenon DEF StreamStep, Call, Get, Lookup, SetNotify, CheckOthers, Subscribe, Wake,
       CheckCancelled, LookForKey, WriteFront, CleanUp, CheckLast, LockApi, UnsetNotify,
       Desubscribe, CheckNone, EraseKey
  <2>3. since' \in [Stream -> 0..MaxNotify]
    BY <2>1 DEF QueuesOK
  <2>4. crossed' \in BOOLEAN
    BY <2>2, Zenon
  <2> QED
    BY <2>3, <2>4
<1>2. ASSUME NEW p \in {"library", "remover"}, NotifierStep(p)
      PROVE  HistoryOK'
  BY <1>2, Zenon DEF NotifierStep, Notify, Push
<1>3. CASE LibraryNotify \/ LibraryDone
  BY <1>3, Zenon DEF LibraryNotify, LibraryDone
<1>4. CASE Remove \/ RemoveObject \/ ForgetNotifier \/ RemoveDone \/ Create
  BY <1>4, Zenon DEF Remove, RemoveObject, ForgetNotifier, RemoveDone, Create
<1>5. CASE (\E s \in Stream : Cancel(s)) \/ UNCHANGED vars
  BY <1>5, Zenon DEF Cancel, vars
<1> QED
  BY <1>1, <1>2, <1>3, <1>4, <1>5 DEF Next, LibraryStep, RemoverStep

Types == PcOK /\ LocksOK /\ ObjectOK /\ QueuesOK /\ HistoryOK

LEMMA InitTypes == Init => Types /\ InHand
<1> SUFFICES ASSUME Init PROVE Types /\ InHand
  OBVIOUS
<1>1. PcOK
  BY Places, ProcessFacts DEF Init, PcOK, StreamPlace, RemoverPlace, LibraryPlace, Step
<1>2. LocksOK
  BY DEF Init, LocksOK
<1>3. ObjectOK
  BY DEF Init, ObjectOK
<1>4. QueuesOK
  BY StreamAssumption DEF Init, QueuesOK
<1>5. InHand
  BY ProcessFacts DEF Init, InHand, NotifyStep
<1>6. HistoryOK
  <2>1. since \in [Stream -> 0..MaxNotify]
    BY StreamAssumption DEF Init
  <2>2. crossed \in BOOLEAN
    BY Zenon DEF Init
  <2> QED
    BY <2>1, <2>2 DEF HistoryOK
<1> QED
  BY <1>1, <1>2, <1>3, <1>4, <1>5, <1>6 DEF Types

LEMMA TypesInvariant == Spec => [](Types /\ InHand)
<1>1. Types /\ InHand /\ [Next]_vars => Types' /\ InHand'
  BY NextPcOK, NextLocksOK, NextObjectOK, NextQueuesOK, NextHistoryOK, NextInHand DEF Types
<1> QED
  BY <1>1, InitTypes, PTL DEF Spec

(***************************************************************************)
(* Every lock, queue and notifier keeps its type, and no stream writes     *)
(* from an empty queue (server.cpp:545-552).                               *)
(***************************************************************************)
THEOREM TypeCorrect == Spec => []TypeOK
<1>1. Types => TypeOK
  BY DEF Types, PcOK, LocksOK, ObjectOK, QueuesOK, HistoryOK, TypeOK
<1> QED
  BY <1>1, TypesInvariant, PTL

(***************************************************************************)
(* As long as nobody cancels and the object stays, at most one Monitor()   *)
(* call is in its first block, the object exists, and no call gets to its  *)
(* last block; the notifier everybody works with is the registered one.    *)
(***************************************************************************)
Shared ==
  /\ present
  /\ pc["remover"] \in {"idle", "remove"}
  /\ attr \in {None, registered}
  /\ \A s \in Stream :
       /\ pc[s] \notin CleanupStep
       /\ pc[s] \in SetupStep => api_mtx = s
       /\ pc[s] \in {"set", "check", "subscribe"} \cup LoopStep
            => registered # None /\ local[s] = registered
       /\ pc[s] \in {"check", "subscribe"} \cup LoopStep => attr = registered

LEMMA NextShared ==
  ASSUME Types, Shared, [Next]_vars, Undisturbed, Undisturbed'
  PROVE  Shared'
<1> USE ProcessFacts DEF Types, PcOK, Shared, Go, At, Undisturbed, SetupStep, LoopStep,
    CleanupStep, locks, object, notifiers, streams
<1>1. ASSUME NEW s \in Stream, StreamStep(s)
      PROVE  Shared'
  <2>1. UNCHANGED <<present, removed, cancelled>> /\ pc'["remover"] = pc["remover"]
    BY <1>1 DEF StreamStep, Call, Get, Lookup, SetNotify, CheckOthers, Subscribe, Wake,
       CheckCancelled, LookForKey, WriteFront, CleanUp, CheckLast, LockApi, UnsetNotify,
       Desubscribe, CheckNone, EraseKey
  <2>2. CASE Call(s) \/ Get(s)
    BY <2>1, <2>2 DEF Call, Get
  <2>3. CASE Lookup(s)
    BY <2>1, <2>3 DEF Lookup, NotifierFor, ObjectOK
  <2>4. CASE SetNotify(s)
    BY <2>1, <2>4 DEF SetNotify
  <2>5. CASE CheckOthers(s) \/ Subscribe(s)
    BY <2>1, <2>5 DEF CheckOthers, Subscribe
  <2>6. CASE Wake(s) \/ CheckCancelled(s) \/ LookForKey(s) \/ WriteFront(s)
    BY <2>1, <2>6 DEF Wake, CheckCancelled, IsCancelled, LookForKey, WriteFront
  <2>7. CASE \/ CleanUp(s) \/ CheckLast(s) \/ LockApi(s) \/ UnsetNotify(s)
             \/ Desubscribe(s) \/ CheckNone(s) \/ EraseKey(s)
    BY <2>7 DEF CleanUp, CheckLast, LockApi, UnsetNotify, Desubscribe, CheckNone, EraseKey
  <2> QED
    BY <1>1, <2>2, <2>3, <2>4, <2>5, <2>6, <2>7 DEF StreamStep
<1>2. ASSUME NEW p \in {"library", "remover"}, NotifierStep(p)
      PROVE  Shared'
  BY <1>2 DEF NotifierStep, Notify, Push
<1>3. CASE LibraryNotify \/ LibraryDone
  BY <1>3 DEF LibraryNotify, LibraryDone, ObjectOK
<1>4. CASE Remove \/ RemoveObject \/ ForgetNotifier \/ RemoveDone \/ Create
  BY <1>4 DEF Remove, RemoveObject, ForgetNotifier, RemoveDone, Create
<1>5. CASE (\E s \in Stream : Cancel(s)) \/ UNCHANGED vars
  BY <1>5 DEF Cancel, vars
<1> QED
  BY <1>1, <1>2, <1>3, <1>4, <1>5 DEF Next, LibraryStep, RemoverStep

(* What was disturbed stays so.                                            *)
LEMMA StaysDisturbed ==
  ASSUME [Next]_vars, Undisturbed'
  PROVE  Undisturbed
<1> USE DEF Undisturbed, object, streams
<1>1. ASSUME NEW s \in Stream, StreamStep(s)
      PROVE  UNCHANGED <<cancelled, removed>>
  BY <1>1, Zenon DEF StreamStep, Call, Get, Lookup, SetNotify, CheckOthers, Subscribe, Wake,
     CheckCancelled, LookForKey, WriteFront, CleanUp, CheckLast, LockApi, UnsetNotify,
     Desubscribe, CheckNone, EraseKey
<1>2. ASSUME NEW p \in {"library", "remover"}, NotifierStep(p)
      PROVE  UNCHANGED <<cancelled, removed>>
  BY <1>2 DEF NotifierStep, Notify, Push
<1>3. CASE LibraryNotify \/ LibraryDone
  BY <1>3 DEF LibraryNotify, LibraryDone
<1>4. CASE Remove \/ RemoveObject \/ ForgetNotifier \/ RemoveDone \/ Create
  BY <1>4 DEF Remove, RemoveObject, ForgetNotifier, RemoveDone, Create
<1>5. CASE (\E s \in Stream : Cancel(s)) \/ UNCHANGED vars
  BY <1>5 DEF Cancel, vars
<1> QED
  BY <1>1, <1>2, <1>3, <1>4, <1>5 DEF Next, LibraryStep, RemoverStep

(***************************************************************************)
(* For any number of overlapping Monitor() calls: while no client has gone *)
(* away and the object is not removed, the callback in the object leads to *)
(* the notifier of every stream in its loop (server.cpp:491-515).          *)
(***************************************************************************)
THEOREM SubscribersCorrect == Spec => []SubscribersAreCalledBack
<1> DEFINE Inv == Undisturbed => Shared
<1>1. Init => Inv
  <2> SUFFICES ASSUME Init PROVE Shared
    OBVIOUS
  <2> QED
    BY ProcessFacts DEF Init, Shared, CleanupStep, SetupStep, LoopStep
<1>2. Types /\ Inv /\ [Next]_vars => Inv'
  BY NextShared, StaysDisturbed
<1>3. Inv => SubscribersAreCalledBack
  BY DEF Shared, SubscribersAreCalledBack, Looping
<1> HIDE DEF Inv
<1> QED
  BY <1>1, <1>2, <1>3, TypesInvariant, PTL DEF Spec

(***************************************************************************)
(* One Monitor() call after the other on an object that stays: everything  *)
(* is told by the place of the one call that is open.                      *)
(***************************************************************************)
OneByOne == MaxOpen = 1 /\ ~Removable

(* Where the open stream is subscribed, and where its context is stored.   *)
SubscribedStep == LoopStep \cup {"cleanup", "size", "unset", "unsetObject", "desubscribe"}
StoredStep == LoopStep \cup {"subscribe", "cleanup", "size", "unset", "unsetObject"}
RegisteredStep == {"set", "subscribe"} \cup LoopStep \cup CleanupStep
ClosedStep == {"call"} \cup EndStep

OthersClosed(s) ==
  \A t \in Stream \ {s} :
    pc[t] \in ClosedStep \ {"toldRemoved"} /\ subscribers[t] = {}

Stage(s) ==
  /\ pc[s] \notin {"check", "toldRemoved"}
  /\ pc[s] \in RegisteredStep => local[s] = s
  /\ registered = IF pc[s] \in RegisteredStep THEN s ELSE None
  /\ attr = IF pc[s] \in StoredStep THEN s ELSE None
  /\ subscribers[s] = IF pc[s] \in SubscribedStep THEN {s} ELSE {}

(* The library's thread holds the object, so that nobody changes the       *)
(* context it works with, and what it still has to reach is subscribed.    *)
LibraryStage ==
  /\ pc["library"] \in NotifyStep =>
       object_mtx = "library" /\ attr # None /\ local["library"] = attr
  /\ todo["library"] # {} =>
       pc["library"] = "push" /\ todo["library"] \subseteq subscribers[attr]

Alone ==
  /\ present /\ ~removed /\ pc["remover"] = "idle" /\ todo["remover"] = {}
  /\ Stream = {} => attr = None /\ registered = None
  /\ Stream # {} => \E s \in Stream : OthersClosed(s) /\ Stage(s)
  /\ LibraryStage

LEMMA NoneOpen ==
  ASSUME OneByOne, Cardinality(Open) < MaxOpen
  PROVE  \A s \in Stream : pc[s] \in ClosedStep
<1>1. Open \subseteq Stream
  BY DEF Open
<1>2. IsFiniteSet(Open) /\ Cardinality(Open) \in Nat
  BY <1>1, StreamAssumption, FS_Subset, FS_CardinalityType
<1>3. Cardinality(Open) = 0
  BY <1>2 DEF OneByOne
<1>4. Open = {}
  BY <1>2, <1>3, FS_EmptySet
<1> QED
  BY <1>4 DEF Open, ClosedStep

LEMMA StreamAlone ==
  ASSUME Types, NEW s \in Stream, OthersClosed(s), Stage(s), LibraryStage, present,
         StreamStep(s), ~Call(s)
  PROVE  OthersClosed(s)' /\ Stage(s)' /\ LibraryStage'
<1> USE ProcessFacts DEF Types, PcOK, LocksOK, ObjectOK, Go, At, locks, object, notifiers,
    streams
<1>1. /\ \A p \in Process \ {s} : pc'[p] = pc[p] /\ local'[p] = local[p]
      /\ UNCHANGED <<object_mtx, todo>>
  BY DEF StreamStep, Call, Get, Lookup, SetNotify, CheckOthers, Subscribe, Wake,
     CheckCancelled, LookForKey, WriteFront, CleanUp, CheckLast, LockApi, UnsetNotify,
     Desubscribe, CheckNone, EraseKey
<1> USE DEF LoopStep, CleanupStep, EndStep, SubscribedStep, StoredStep, RegisteredStep, Stage
<1>2. CASE Get(s) \/ CheckOthers(s)
  <2>1. /\ UNCHANGED <<attr, registered, subscribers, local>>
        /\ pc[s] = "get" /\ pc'[s] = "lookup"
    BY <1>2 DEF Get, CheckOthers
  <2> QED
    BY <1>1, <2>1 DEF OthersClosed, LibraryStage
<1>3. CASE Lookup(s)
  BY <1>1, <1>3 DEF Lookup, NotifierFor, OthersClosed, LibraryStage
<1>4. CASE SetNotify(s)
  <2>1. /\ UNCHANGED <<registered, subscribers, local>>
        /\ pc[s] = "set" /\ pc'[s] = "subscribe" /\ attr' = s
    BY <1>4 DEF SetNotify
  <2>2. pc["library"] \notin NotifyStep
    BY <1>4 DEF SetNotify, LibraryStage
  <2>3. LibraryStage'
    BY <1>1, <2>2 DEF LibraryStage, NotifyStep
  <2> QED
    BY <1>1, <2>1, <2>3 DEF OthersClosed
<1>5. CASE Subscribe(s)
  <2>1. local[s] = s /\ attr = s /\ subscribers[s] = {}
    BY <1>5 DEF Subscribe
  <2>2. subscribers' = [subscribers EXCEPT ![s] = {s}] /\ UNCHANGED <<attr, registered>>
    BY <1>5, <2>1 DEF Subscribe
  <2>3. pc'[s] = "wait" /\ local'[s] = s
    BY <1>5, <2>1 DEF Subscribe
  <2>4. Stage(s)'
    BY <1>5, <2>1, <2>2, <2>3 DEF Subscribe
  <2>5. OthersClosed(s)'
    BY <1>1, <2>2 DEF OthersClosed
  <2>6. LibraryStage'
    BY <1>1, <2>1, <2>2 DEF LibraryStage
  <2> QED
    BY <2>4, <2>5, <2>6
<1>6. CASE Wake(s) \/ CheckCancelled(s) \/ LookForKey(s) \/ WriteFront(s)
  <2>1. UNCHANGED <<attr, registered, subscribers, local>> /\ pc'[s] \in LoopStep \cup {"cleanup"}
    BY <1>6 DEF Wake, CheckCancelled, LookForKey, WriteFront
  <2>2. pc[s] \in LoopStep
    BY <1>6 DEF Wake, CheckCancelled, LookForKey, WriteFront
  <2> QED
    BY <1>1, <2>1, <2>2 DEF OthersClosed, LibraryStage
<1>7. CASE CleanUp(s) \/ CheckLast(s) \/ LockApi(s)
  <2>1. pc[s] = "size" => Cardinality(subscribers[local[s]]) = 1
    BY FS_Singleton
  <2>2. UNCHANGED <<attr, registered, subscribers, local>> /\ pc'[s] \in {"size", "unset", "unsetObject"}
    BY <1>7, <2>1 DEF CleanUp, CheckLast, LockApi, IsLast
  <2>3. pc[s] \in {"cleanup", "size", "unset"}
    BY <1>7 DEF CleanUp, CheckLast, LockApi
  <2> QED
    BY <1>1, <2>2, <2>3 DEF OthersClosed, LibraryStage
<1>8. CASE UnsetNotify(s)
  <2>1. /\ UNCHANGED <<registered, subscribers, local>>
        /\ pc[s] = "unsetObject" /\ pc'[s] = "desubscribe" /\ attr' = None
    BY <1>8 DEF UnsetNotify, NullContext
  <2>2. pc["library"] \notin NotifyStep
    BY <1>8 DEF UnsetNotify, LibraryStage
  <2>3. LibraryStage'
    BY <1>1, <2>2 DEF LibraryStage, NotifyStep
  <2> QED
    BY <1>1, <2>1, <2>3 DEF OthersClosed
<1>9. CASE Desubscribe(s)
  <2>1. local[s] = s /\ attr = None /\ subscribers[s] = {s}
    BY <1>9 DEF Desubscribe
  <2>2. subscribers' = [subscribers EXCEPT ![s] = {}] /\ UNCHANGED <<attr, registered, local>>
    BY <1>9, <2>1 DEF Desubscribe, Remaining
  <2>3. pc'[s] = "size0" /\ pc[s] = "desubscribe"
    BY <1>9 DEF Desubscribe
  <2>4. Stage(s)'
    BY <2>1, <2>2, <2>3
  <2>5. OthersClosed(s)'
    BY <1>1, <2>2 DEF OthersClosed
  <2>6. LibraryStage'
    BY <1>1, <2>1, <2>2 DEF LibraryStage, NotifyStep
  <2> QED
    BY <2>4, <2>5, <2>6
<1>10. CASE CheckNone(s) \/ EraseKey(s)
  <2>1. UNCHANGED <<attr, subscribers, local>>
    BY <1>10 DEF CheckNone, EraseKey
  <2>2. OthersClosed(s)' /\ LibraryStage'
    BY <1>1, <2>1 DEF OthersClosed, LibraryStage
  <2>3. CASE CheckNone(s)
    BY <2>1, <2>2, <2>3 DEF CheckNone, IsEmpty
  <2>4. CASE EraseKey(s)
    BY <2>1, <2>2, <2>4 DEF EraseKey
  <2> QED
    BY <1>10, <2>3, <2>4
<1> QED
  BY <1>2, <1>3, <1>4, <1>5, <1>6, <1>7, <1>8, <1>9, <1>10 DEF StreamStep

LEMMA NextAlone ==
  ASSUME OneByOne, Types, InHand, Alone, [Next]_vars
  PROVE  Alone'
<1> USE ProcessFacts DEF OneByOne, Types, PcOK, LocksOK, ObjectOK, Go, At, locks, object,
    notifiers, streams
<1>1. ASSUME NEW s \in Stream, StreamStep(s)
      PROVE  Alone'
  <2>1. /\ UNCHANGED <<present, removed, todo>>
        /\ \A p \in Process \ {s} : pc'[p] = pc[p] /\ local'[p] = local[p]
    BY <1>1 DEF StreamStep, Call, Get, Lookup, SetNotify, CheckOthers, Subscribe, Wake,
       CheckCancelled, LookForKey, WriteFront, CleanUp, CheckLast, LockApi, UnsetNotify,
       Desubscribe, CheckNone, EraseKey
  <2>2. PICK t \in Stream : OthersClosed(t) /\ Stage(t)
    BY DEF Alone
  <2>3. CASE Call(s)
    <3>1. \A r \in Stream : pc[r] \in ClosedStep
      BY <2>3, NoneOpen DEF Call
    <3>2. OthersClosed(s) /\ Stage(s)
      BY <2>2, <2>3, <3>1 DEF OthersClosed, Stage, ClosedStep, EndStep, RegisteredStep,
         StoredStep, SubscribedStep, LoopStep, CleanupStep, Call
    <3>3. OthersClosed(s)' /\ Stage(s)'
      BY <2>3, <3>2 DEF OthersClosed, Stage, Call, RegisteredStep,
         StoredStep, SubscribedStep, LoopStep, CleanupStep
    <3>4. LibraryStage'
      BY <2>3 DEF Call, LibraryStage, Alone
    <3> QED
      BY <2>1, <3>3, <3>4 DEF Alone
  <2>4. CASE ~Call(s)
    <3>1. pc[s] \notin ClosedStep
      BY <1>1, <2>4 DEF StreamStep, Get, Lookup, SetNotify, CheckOthers, Subscribe, Wake,
         CheckCancelled, LookForKey, WriteFront, CleanUp, CheckLast, LockApi, UnsetNotify,
         Desubscribe, CheckNone, EraseKey, ClosedStep, EndStep
    <3>2. s = t
      BY <2>2, <3>1 DEF OthersClosed
    <3>3. OthersClosed(s)' /\ Stage(s)' /\ LibraryStage'
      BY <1>1, <2>2, <2>4, <3>2, StreamAlone DEF Alone
    <3> QED
      BY <2>1, <3>3 DEF Alone
  <2> QED
    BY <2>3, <2>4
<1>2. CASE \/ NotifierStep("library") \/ LibraryNotify \/ LibraryDone
           \/ (\E s \in Stream : Cancel(s)) \/ UNCHANGED vars
  <2>1. /\ UNCHANGED <<present, removed, attr, registered, subscribers>>
        /\ \A p \in Process \ {"library"} :
             pc'[p] = pc[p] /\ local'[p] = local[p] /\ todo'[p] = todo[p]
    BY <1>2 DEF NotifierStep, Notify, Push, LibraryNotify, LibraryDone, Cancel, vars
  <2>2. ASSUME NEW s \in Stream, OthersClosed(s), Stage(s)
        PROVE  OthersClosed(s)' /\ Stage(s)'
    BY <2>1, <2>2 DEF OthersClosed, Stage
  <2>3. LibraryStage'
    <3> USE DEF Alone, LibraryStage, NotifyStep
    <3>1. CASE Notify("library")
      BY <3>1 DEF Notify
    <3>2. ASSUME NEW s \in Stream, Push("library", s)
          PROVE  LibraryStage'
      BY <3>2 DEF Push
    <3>3. CASE LibraryNotify
      BY <3>3 DEF LibraryNotify
    <3>4. CASE LibraryDone
      BY <3>4 DEF LibraryDone
    <3>5. CASE (\E s \in Stream : Cancel(s)) \/ UNCHANGED vars
      BY <3>5 DEF Cancel, vars
    <3> QED
      BY <1>2, <3>1, <3>2, <3>3, <3>4, <3>5 DEF NotifierStep
  <2> QED
    BY <2>1, <2>2, <2>3 DEF Alone
<1>3. ~ (Remove \/ RemoverStep \/ Create)
  BY DEF Alone, Remove, RemoverStep, NotifierStep, Notify, Push, RemoveObject,
     ForgetNotifier, RemoveDone, Create
<1> QED
  BY <1>1, <1>2, <1>3 DEF Next, LibraryStep

LEMMA AloneInvariant ==
  ASSUME OneByOne
  PROVE  Spec => []Alone
<1>1. Init => Alone
  BY ProcessFacts DEF OneByOne, Init, Alone, OthersClosed, Stage, LibraryStage, ClosedStep, SubscribedStep,
     StoredStep, RegisteredStep, LoopStep, CleanupStep, EndStep, NotifyStep
<1>2. Types /\ InHand /\ Alone /\ [Next]_vars => Alone'
  BY NextAlone
<1> QED
  BY <1>1, <1>2, TypesInvariant, PTL DEF Spec

(***************************************************************************)
(* For any number of Monitor() calls in turn, each cancelled anywhere or   *)
(* not at all: the context the library keeps is a notifier that exists     *)
(* (server.cpp:494-495, 566-568).                                          *)
(***************************************************************************)
THEOREM ContextCorrect == OneByOne => (Spec => []ContextIsAlive)
<1> SUFFICES ASSUME OneByOne PROVE Spec => []ContextIsAlive
  OBVIOUS
<1>1. Types /\ Alone => ContextIsAlive
  BY DEF Types, ObjectOK, Alone, Stage, OthersClosed, ContextIsAlive, Alive, StoredStep, RegisteredStep,
     LoopStep, CleanupStep
<1> QED
  BY <1>1, AloneInvariant, TypesInvariant, PTL

(***************************************************************************)
(* Likewise a notification reaches only subscriptions that live on the     *)
(* stack of a running Monitor() call (server.cpp:416-421, 451).            *)
(***************************************************************************)
THEOREM ReachesCorrect == OneByOne => (Spec => []ReachesLiveStreams)
<1> SUFFICES ASSUME OneByOne PROVE Spec => []ReachesLiveStreams
  OBVIOUS
<1>1. Types /\ Alone => ReachesLiveStreams
  <2> SUFFICES ASSUME Types, Alone, NEW p \in {"library", "remover"}, NEW r \in todo[p]
               PROVE  pc[r] \notin EndStep
    BY DEF ReachesLiveStreams
  <2>1. p = "library" /\ r \in Stream
    BY ProcessFacts DEF Alone, Types, ObjectOK
  <2>2. PICK s \in Stream : OthersClosed(s) /\ Stage(s)
    BY <2>1 DEF Alone
  <2>3. attr # None /\ r \in subscribers[attr]
    BY <2>1 DEF Alone, LibraryStage, NotifyStep
  <2>4. r = s /\ pc[s] \in SubscribedStep
    BY <2>2, <2>3 DEF Stage
  <2> QED
    BY <2>4 DEF SubscribedStep, LoopStep, EndStep
<1> QED
  BY <1>1, AloneInvariant, TypesInvariant, PTL

(***************************************************************************)
(* And when all calls have ended neither the callback in the object nor a  *)
(* notifier is left (server.cpp:566-568, 592-593).                         *)
(***************************************************************************)
THEOREM NothingLeftCorrect == OneByOne => (Spec => []NothingLeftBehind)
<1> SUFFICES ASSUME OneByOne PROVE Spec => []NothingLeftBehind
  OBVIOUS
<1>1. Types /\ Alone => NothingLeftBehind
  BY DEF Types, ObjectOK, Alone, Stage, OthersClosed, NothingLeftBehind, StoredStep, RegisteredStep, LoopStep,
     CleanupStep, EndStep
<1> QED
  BY <1>1, AloneInvariant, TypesInvariant, PTL

-----------------------------------------------------------------------------
(***************************************************************************)
(* The order of the notifications, over any number of Monitor() calls that *)
(* overlap, clients that go away, and the removal of the object and its    *)
(* creation again.                                                         *)
(***************************************************************************)

(* The first block of Monitor(), and what comes before.                    *)
FirstStep == {"call"} \cup SetupStep

(* One call at a time is in its first block or takes the callback out, and *)
(* not while Remove() is in the library.                                   *)
Exclusive ==
  /\ \A s \in Stream : pc[s] \in SetupStep \cup {"unsetObject"} => api_mtx = s
  /\ pc["remover"] = "remove" => api_mtx = "remover"

(* While the library notifies, the object keeps its context.               *)
InFlight ==
  pc["library"] \in NotifyStep =>
    object_mtx = "library" /\ attr = local["library"] /\ attr # None /\ sent > 0

(* A notifier is allocated once: nobody knows it before.                   *)
Unknown(n) ==
  /\ registered # n /\ attr # n /\ subscribers[n] = {}
  /\ \A s \in Stream : local[s] # n

AllocatedOnce == \A n \in Stream : pc[n] \in {"call", "get", "lookup"} => Unknown(n)

(* A stream subscribes to the notifier it works with, and is reached       *)
(* through it.                                                             *)
Subscribed ==
  /\ \A n \in Stream : \A s \in subscribers[n] : local[s] = n /\ pc[s] \notin FirstStep
  /\ \A s \in Stream : Looping(s) => local[s] \in Stream /\ s \in subscribers[local[s]]

Reached ==
  \A p \in {"library", "remover"} :
    /\ todo[p] # {} => pc[p] = "push"
    /\ \A s \in todo[p] : local[s] = local[p] /\ pc[s] \notin FirstStep

(* What a call in its first block has found out still holds.               *)
SettingUp ==
  \A s \in Stream :
    /\ pc[s] \in FirstStep => q[s] = <<>> /\ written[s] = <<>>
    /\ pc[s] \in {"set", "check", "subscribe"} =>
         local[s] \in Stream /\ registered \in {local[s], None}
    /\ pc[s] = "set" => attr = None
    /\ pc[s] = "check" => attr = local[s] \/ subscribers[local[s]] = {}
    /\ pc[s] = "subscribe" => attr = local[s]

(* A notifier that replaced the one in the object has no subscribers: the  *)
(* calls that find it are refused.                                         *)
OneInUse ==
  attr # None /\ registered # None /\ attr # registered => subscribers[registered] = {}

(* The notifiers the library may still call, and the streams it is about   *)
(* to reach with the notification it has sent.                             *)
InUse(n) ==
  attr = n \/ registered = n \/ \E s \in Stream : pc[s] = "set" /\ local[s] = n

Pending(s) ==
  /\ local["library"] = local[s]
  /\ pc["library"] = "notify" \/ s \in todo["library"]

(* The last notification in it, if there is one, is the n-th.              *)
UpTo(u, n) == \A i \in Notified(u) : (\A k \in Notified(u) : k <= i) => u[i] = n

(* A stream on a notifier in use has got everything, the last notification *)
(* aside while it is about to.                                             *)
UpToDate ==
  \A s \in Stream :
    Looping(s) /\ InUse(local[s]) => UpTo(Got(s), IF Pending(s) THEN sent - 1 ELSE sent)

(* And every one since it subscribed, with the same exception.             *)
Complete ==
  \A s \in Stream :
    Looping(s) /\ InUse(local[s]) =>
      \A n \in (since[s] + 1)..(IF Pending(s) THEN sent - 1 ELSE sent) : Has(Got(s), n)

Protocol == Exclusive /\ InFlight /\ AllocatedOnce /\ Subscribed /\ Reached /\ SettingUp /\ OneInUse
-----------------------------------------------------------------------------
(***************************************************************************)
(* What a stream has written and what is queued for it, as one sequence.   *)
(***************************************************************************)
LEMMA ConcatFacts ==
  ASSUME NEW S, NEW u \in Seq(S), NEW v \in Seq(S)
  PROVE  /\ u \o v \in Seq(S)
         /\ Len(u \o v) = Len(u) + Len(v)
         /\ \A i \in 1..Len(u) : (u \o v)[i] = u[i]
         /\ \A i \in 1..Len(v) : (u \o v)[Len(u) + i] = v[i]
         /\ u \o <<>> = u
BY ConcatProperties, ConcatEmptySeq, LenProperties

(* The front of the queue moves to what is written.                        *)
LEMMA MoveFront ==
  ASSUME NEW S, NEW u \in Seq(S), NEW v \in Seq(S), v # <<>>
  PROVE  Append(u, Head(v)) \o Tail(v) = u \o v
<1> DEFINE w == Append(u, Head(v))
<1>1. /\ Head(v) \in S /\ Head(v) = v[1]
      /\ Tail(v) \in Seq(S) /\ Len(Tail(v)) = Len(v) - 1
      /\ \A i \in 1..Len(Tail(v)) : Tail(v)[i] = v[i+1]
      /\ Len(u) \in Nat /\ Len(v) \in Nat \ {0}
  BY HeadTailProperties, LenProperties, EmptySeq
<1>2. /\ w \in Seq(S) /\ Len(w) = Len(u) + 1
      /\ \A i \in 1..Len(u) : w[i] = u[i]
      /\ w[Len(u) + 1] = v[1]
  BY <1>1, AppendProperties
<1> HIDE DEF w
<1>3. /\ w \o Tail(v) \in Seq(S) /\ u \o v \in Seq(S)
      /\ Len(w \o Tail(v)) = Len(u \o v)
  <2>1. w \o Tail(v) \in Seq(S) /\ Len(w \o Tail(v)) = Len(w) + Len(Tail(v))
    BY <1>1, <1>2, ConcatFacts
  <2>2. u \o v \in Seq(S) /\ Len(u \o v) = Len(u) + Len(v)
    BY ConcatFacts
  <2> QED
    BY <1>1, <1>2, <2>1, <2>2
<1>4. Len(w) = Len(u) + 1 /\ Len(Tail(v)) = Len(v) - 1 /\ Len(u) \in Nat /\ Len(v) \in Nat \ {0}
  BY <1>1, <1>2
<1>5. ASSUME NEW i \in 1..Len(u \o v) PROVE (w \o Tail(v))[i] = (u \o v)[i]
  <2>1. Len(u \o v) = Len(u) + Len(v) /\ i \in Nat
    BY <1>1, <1>3, <1>5, ConcatFacts
  <2>2. CASE i \in 1..Len(u)
    BY <1>1, <1>2, <2>2, ConcatFacts
  <2>3. CASE i = Len(u) + 1
    <3>1. (u \o v)[Len(u) + 1] = v[1]
      BY <1>1, ConcatFacts
    <3>2. (w \o Tail(v))[i] = w[i]
      BY <1>1, <1>2, <2>3, ConcatFacts
    <3> QED
      BY <1>2, <2>3, <3>1, <3>2
  <2>4. CASE i > Len(u) + 1
    <3>1. PICK j : j = i - (Len(u) + 1)
      OBVIOUS
    <3>2. j \in 1..Len(Tail(v)) /\ j + 1 \in 1..Len(v)
      BY <1>4, <2>1, <2>4, <3>1
    <3>3. i = Len(w) + j /\ i = Len(u) + (j + 1)
      BY <1>4, <2>1, <2>4, <3>1
    <3>4. \A k \in 1..Len(Tail(v)) : (w \o Tail(v))[Len(w) + k] = Tail(v)[k]
      BY <1>1, <1>2, ConcatFacts
    <3>5. \A k \in 1..Len(v) : (u \o v)[Len(u) + k] = v[k]
      BY ConcatFacts
    <3>6. Tail(v)[j] = v[j + 1]
      BY <1>1, <3>2
    <3>7. (u \o v)[i] = v[j + 1] /\ (w \o Tail(v))[i] = Tail(v)[j]
      BY <3>4, <3>5, <3>2, <3>3
    <3> QED
      BY <3>6, <3>7
  <2>5. i \in 1..Len(u) \/ i = Len(u) + 1 \/ i > Len(u) + 1
    BY <1>1, <1>5, <2>1
  <2> QED
    BY <2>2, <2>3, <2>4, <2>5
<1> QED
  BY <1>3, <1>5, SeqEqual DEF w

(* What is pushed comes last.                                              *)
LEMMA PushBack ==
  ASSUME NEW S, NEW u \in Seq(S), NEW v \in Seq(S), NEW x \in S
  PROVE  u \o Append(v, x) = Append(u \o v, x)
<1>1. Len(u) \in Nat /\ Len(v) \in Nat
  BY LenProperties
<1>2. /\ Append(v, x) \in Seq(S) /\ Len(Append(v, x)) = Len(v) + 1
      /\ \A i \in 1..Len(v) : Append(v, x)[i] = v[i]
      /\ Append(v, x)[Len(v) + 1] = x
  BY AppendProperties
<1>3. /\ u \o v \in Seq(S) /\ Len(u \o v) = Len(u) + Len(v)
      /\ Append(u \o v, x) \in Seq(S) /\ Len(Append(u \o v, x)) = Len(u) + Len(v) + 1
      /\ \A i \in 1..(Len(u) + Len(v)) : Append(u \o v, x)[i] = (u \o v)[i]
      /\ Append(u \o v, x)[Len(u) + Len(v) + 1] = x
  BY ConcatFacts, AppendProperties
<1>4. /\ u \o Append(v, x) \in Seq(S)
      /\ Len(u \o Append(v, x)) = Len(u) + Len(v) + 1
  BY <1>1, <1>2, ConcatFacts
<1>6. \A k \in 1..(Len(v) + 1) : (u \o Append(v, x))[Len(u) + k] = Append(v, x)[k]
  BY <1>2, ConcatFacts
<1>5. ASSUME NEW i \in 1..(Len(u) + Len(v) + 1)
      PROVE  (u \o Append(v, x))[i] = Append(u \o v, x)[i]
  <2>1. CASE i \in 1..Len(u)
    BY <1>1, <1>2, <1>3, <2>1, ConcatFacts
  <2>2. CASE i > Len(u)
    <3> DEFINE j == i - Len(u)
    <3>1. i = Len(u) + j /\ j \in 1..(Len(v) + 1)
      BY <1>1, <2>2
    <3>2. (u \o Append(v, x))[i] = Append(v, x)[j]
      BY <1>6, <3>1
    <3>3. CASE j \in 1..Len(v)
      <4>1. (u \o v)[i] = v[j]
        BY <3>1, <3>3, ConcatFacts
      <4> QED
        BY <1>1, <1>2, <1>3, <3>1, <3>2, <3>3, <4>1
    <3>4. CASE j = Len(v) + 1
      BY <1>1, <1>2, <1>3, <3>1, <3>2, <3>4
    <3> QED
      BY <1>1, <3>1, <3>3, <3>4
  <2> QED
    BY <1>1, <2>1, <2>2
<1> QED
  BY <1>3, <1>4, <1>5, SeqEqual

LEMMA PrefixConsecutive ==
  ASSUME NEW u \in Seq(Nat), NEW v \in Seq(Nat), Consecutive(u \o v)
  PROVE  Consecutive(u)
<1>1. Len(u) \in Nat /\ Len(v) \in Nat
  BY LenProperties
<1>2. \A k : k \in Notified(u) <=> k \in Notified(u \o v) /\ k <= Len(u)
  BY <1>1, ConcatFacts DEF Notified
<1>3. \A i \in 1..Len(u) : (u \o v)[i] = u[i]
  BY ConcatFacts
<1> SUFFICES ASSUME NEW i \in Notified(u), NEW j \in Notified(u), i < j,
                    \A k \in Notified(u) : k <= i \/ k >= j
             PROVE  u[j] = u[i] + 1
  BY DEF Consecutive
<1>4. ASSUME NEW k \in Notified(u \o v) PROVE k <= i \/ k >= j
  <2>1. k \in Nat /\ j \in Nat /\ j <= Len(u)
    BY <1>1, ConcatFacts DEF Notified
  <2> QED
    BY <1>1, <1>2, <2>1
<1>5. i \in 1..Len(u) /\ j \in 1..Len(u) /\ i \in Notified(u \o v) /\ j \in Notified(u \o v)
  BY <1>2 DEF Notified
<1> QED
  BY <1>3, <1>4, <1>5 DEF Consecutive

(* The next notification follows the last one, and is the last one then;   *)
(* the signal of a deletion is not counted.                                *)
LEMMA NotifiedFacts ==
  ASSUME NEW u \in Seq(Nat), NEW n \in Nat
  PROVE  /\ \A i \in 1..Len(u) : Append(u, n)[i] = u[i]
         /\ Append(u, n)[Len(u) + 1] = n
         /\ Notified(Append(u, n)) = Notified(u) \cup (IF n = REMOVED THEN {} ELSE {Len(u) + 1})
         /\ \A i \in Notified(u) : i \in 1..Len(u)
         /\ Len(u) \in Nat
<1>1. Len(u) \in Nat
  BY LenProperties
<1>2. /\ Len(Append(u, n)) = Len(u) + 1
      /\ \A i \in 1..Len(u) : Append(u, n)[i] = u[i]
      /\ Append(u, n)[Len(u) + 1] = n
  BY AppendProperties
<1>3. \A i : i \in 1..(Len(u) + 1) <=> i \in 1..Len(u) \/ i = Len(u) + 1
  BY <1>1
<1> QED
  BY <1>1, <1>2, <1>3 DEF Notified

LEMMA AppendNotification ==
  ASSUME NEW u \in Seq(Nat), NEW n \in Nat \ {0}, Consecutive(u), UpTo(u, n - 1)
  PROVE  Consecutive(Append(u, n)) /\ UpTo(Append(u, n), n)
<1> DEFINE w == Append(u, n)
<1>1. /\ \A i \in Notified(u) : i \in 1..Len(u) /\ w[i] = u[i]
      /\ w[Len(u) + 1] = n
      /\ Notified(w) = Notified(u) \cup {Len(u) + 1}
      /\ Len(u) \in Nat
  BY NotifiedFacts DEF REMOVED
<1> HIDE DEF w
<1>2. ASSUME NEW i \in Notified(w), NEW j \in Notified(w), i < j,
             \A k \in Notified(w) : k <= i \/ k >= j
      PROVE  w[j] = w[i] + 1
  <2>1. i \in Notified(u)
    BY <1>1, <1>2
  <2>2. CASE j \in Notified(u)
    BY <1>1, <1>2, <2>1, <2>2 DEF Consecutive
  <2>3. CASE j = Len(u) + 1
    <3>1. \A k \in Notified(u) : k <= i
      BY <1>1, <1>2, <2>3
    <3>2. u[i] = n - 1
      BY <2>1, <3>1 DEF UpTo
    <3> QED
      BY <1>1, <2>1, <2>3, <3>2
  <2> QED
    BY <1>1, <2>2, <2>3
<1>3. ASSUME NEW i \in Notified(w), \A k \in Notified(w) : k <= i
      PROVE  w[i] = n
  <2>1. i = Len(u) + 1
    BY <1>1, <1>3
  <2> QED
    BY <1>1, <2>1
<1> QED
  BY <1>2, <1>3 DEF Consecutive, UpTo, w

LEMMA AppendRemoved ==
  ASSUME NEW u \in Seq(Nat)
  PROVE  /\ Consecutive(u) => Consecutive(Append(u, REMOVED))
         /\ \A n : UpTo(u, n) => UpTo(Append(u, REMOVED), n)
<1> DEFINE w == Append(u, REMOVED)
<1>1. /\ \A i \in Notified(u) : i \in 1..Len(u) /\ w[i] = u[i]
      /\ Notified(w) = Notified(u)
  <2>1. REMOVED \in Nat
    BY DEF REMOVED
  <2>2. Notified(w) = Notified(u) \cup {}
    BY <2>1, NotifiedFacts
  <2>3. \A i \in 1..Len(u) : w[i] = u[i]
    BY <2>1, NotifiedFacts
  <2>4. \A i \in Notified(u) : i \in 1..Len(u)
    BY <2>1, NotifiedFacts
  <2> QED
    BY <2>2, <2>3, <2>4
<1> HIDE DEF w
<1>2. /\ Consecutive(u) => Consecutive(w)
      /\ \A n : UpTo(u, n) => UpTo(w, n)
  BY <1>1 DEF Consecutive, UpTo
<1> QED
  BY <1>2 DEF w

(* What is in it stays in it when something is appended.                   *)
LEMMA AppendHas ==
  ASSUME NEW u \in Seq(Nat), NEW x \in Nat
  PROVE  /\ Has(Append(u, x), x)
         /\ \A n : Has(u, n) => Has(Append(u, x), n)
<1>1. /\ Len(Append(u, x)) = Len(u) + 1 /\ Len(u) \in Nat
      /\ \A i \in 1..Len(u) : Append(u, x)[i] = u[i]
      /\ Append(u, x)[Len(u) + 1] = x
  BY AppendProperties, LenProperties
<1>2. 1..Len(u) \subseteq 1..Len(Append(u, x)) /\ Len(u) + 1 \in 1..Len(Append(u, x))
  BY <1>1
<1> QED
  BY <1>1, <1>2 DEF Has

LEMMA NothingNotified ==
  /\ Notified(<<>>) = {}
  /\ Consecutive(<<>>)
  /\ \A n : UpTo(<<>>, n)
BY DEF Notified, Consecutive, UpTo
-----------------------------------------------------------------------------
(***************************************************************************)
(* The protocol of the first and the last block.                           *)
(***************************************************************************)
LEMMA StreamFrame ==
  ASSUME Types, NEW s \in Stream, StreamStep(s)
  PROVE  /\ \A p \in Process \ {s} : pc'[p] = pc[p] /\ local'[p] = local[p]
         /\ \A r \in Stream \ {s} : q'[r] = q[r] /\ written'[r] = written[r]
         /\ UNCHANGED <<todo, sent, object_mtx>>
<1> USE DEF Go, Types, PcOK, ObjectOK, QueuesOK, streams
<1>1. \A p \in Process \ {s} : pc'[p] = pc[p] /\ local'[p] = local[p]
  BY DEF StreamStep, Call, Get, Lookup, SetNotify, CheckOthers, Subscribe, Wake,
     CheckCancelled, LookForKey, WriteFront, CleanUp, CheckLast, LockApi, UnsetNotify,
     Desubscribe, CheckNone, EraseKey
<1>2. \A r \in Stream \ {s} : q'[r] = q[r] /\ written'[r] = written[r]
  BY DEF StreamStep, Call, Get, Lookup, SetNotify, CheckOthers, Subscribe, Wake,
     CheckCancelled, LookForKey, WriteFront, CleanUp, CheckLast, LockApi, UnsetNotify,
     Desubscribe, CheckNone, EraseKey
<1>3. UNCHANGED <<todo, sent, object_mtx>>
  BY Zenon DEF StreamStep, Call, Get, Lookup, SetNotify, CheckOthers, Subscribe, Wake,
     CheckCancelled, LookForKey, WriteFront, CleanUp, CheckLast, LockApi, UnsetNotify,
     Desubscribe, CheckNone, EraseKey, locks
<1> QED
  BY <1>1, <1>2, <1>3

(* Steps of the loop and of the last block that only take or give up a     *)
(* lock, or look.                                                          *)
QuietStep(s) ==
  \/ Wake(s) \/ CheckCancelled(s) \/ LookForKey(s) \/ WriteFront(s) \/ CleanUp(s)
  \/ CheckLast(s) \/ CheckNone(s)

LEMMA QuietFacts ==
  ASSUME Types, NEW s \in Stream, QuietStep(s)
  PROVE  /\ UNCHANGED <<attr, registered, subscribers, local, todo, sent, api_mtx, object_mtx>>
         /\ pc[s] \in LoopStep \cup {"cleanup", "size", "size0"}
         /\ pc'[s] \in (LoopStep \cup CleanupStep \cup EndStep) \ {"unsetObject"}
         /\ pc'[s] \in LoopStep => pc[s] \in LoopStep
         /\ \A p \in Process \ {s} : pc'[p] = pc[p]
<1> USE DEF QuietStep, Go, At, Types, PcOK, ObjectOK, locks, object, notifiers, streams
<1>1. UNCHANGED <<attr, registered, subscribers, local, todo, sent, api_mtx, object_mtx>>
  BY Zenon DEF Wake, CheckCancelled, LookForKey, WriteFront, CleanUp, CheckLast, CheckNone
<1>2. /\ pc[s] \in LoopStep \cup {"cleanup", "size", "size0"}
      /\ pc'[s] \in (LoopStep \cup CleanupStep \cup EndStep) \ {"unsetObject"}
      /\ pc'[s] \in LoopStep => pc[s] \in LoopStep
  BY ProcessFacts DEF Wake, CheckCancelled, LookForKey, WriteFront, CleanUp, CheckLast, CheckNone,
     LoopStep, CleanupStep, EndStep
<1>3. \A p \in Process \ {s} : pc'[p] = pc[p]
  BY StreamFrame DEF StreamStep
<1> QED
  BY <1>1, <1>2, <1>3

LEMMA NotifierFrame ==
  ASSUME Types, NEW p \in {"library", "remover"}, NotifierStep(p)
  PROVE  /\ UNCHANGED <<api_mtx, object_mtx, attr, registered, subscribers, local, written,
                        sent>>
         /\ \A r \in Process \ {p} : pc'[r] = pc[r] /\ todo'[r] = todo[r]
         /\ pc[p] \in NotifyStep /\ pc'[p] = "push"
         /\ todo'[p] \subseteq todo[p] \/ todo'[p] = subscribers[local[p]]
<1> USE ProcessFacts DEF NotifierStep, Go, At, Types, PcOK, ObjectOK, locks, object, notifiers,
    streams, NotifyStep
<1>1. CASE Notify(p)
  BY <1>1 DEF Notify
<1>2. ASSUME NEW s \in Stream, Push(p, s)
      PROVE  /\ UNCHANGED <<pc, api_mtx, object_mtx, attr, registered, subscribers, local,
                            written, sent>>
             /\ \A r \in Process \ {p} : todo'[r] = todo[r]
             /\ pc[p] = "push"
             /\ todo'[p] \subseteq todo[p]
  BY <1>2 DEF Push
<1> QED
  BY <1>1, <1>2

LEMMA NextExclusive ==
  ASSUME Types, Exclusive, [Next]_vars
  PROVE  Exclusive'
<1> USE ProcessFacts DEF Exclusive, Go, At, Types, PcOK, SetupStep, locks
<1>1. ASSUME NEW s \in Stream, StreamStep(s)
      PROVE  Exclusive'
  <2>1. \A p \in Process \ {s} : pc'[p] = pc[p]
    BY <1>1, StreamFrame
  <2>2. CASE Call(s) \/ LockApi(s)
    BY <2>1, <2>2 DEF Call, LockApi
  <2>3. CASE Get(s) \/ CheckOthers(s) \/ Subscribe(s) \/ UnsetNotify(s)
    BY <2>1, <2>3 DEF Get, CheckOthers, Subscribe, UnsetNotify
  <2>4. CASE Lookup(s) \/ SetNotify(s) \/ Desubscribe(s) \/ EraseKey(s)
    BY <2>1, <2>4 DEF Lookup, SetNotify, Desubscribe, EraseKey
  <2>5. CASE QuietStep(s)
    BY <2>1, <2>5, QuietFacts DEF LoopStep, CleanupStep, EndStep
  <2> QED
    BY <1>1, <2>2, <2>3, <2>4, <2>5 DEF StreamStep, QuietStep
<1>2. ASSUME NEW p \in {"library", "remover"}, NotifierStep(p)
      PROVE  Exclusive'
  BY <1>2, NotifierFrame
<1>3. CASE LibraryNotify \/ LibraryDone
  BY <1>3 DEF LibraryNotify, LibraryDone
<1>4. CASE Remove \/ RemoveObject \/ ForgetNotifier \/ RemoveDone \/ Create
  BY <1>4 DEF Remove, RemoveObject, ForgetNotifier, RemoveDone, Create
<1>5. CASE (\E s \in Stream : Cancel(s)) \/ UNCHANGED vars
  BY <1>5 DEF Cancel, vars
<1> QED
  BY <1>1, <1>2, <1>3, <1>4, <1>5 DEF Next, LibraryStep, RemoverStep

LEMMA NextInFlight ==
  ASSUME Types, InFlight, [Next]_vars
  PROVE  InFlight'
<1> USE ProcessFacts DEF InFlight, Go, At, Types, PcOK, ObjectOK, NotifyStep, locks, object
<1>1. ASSUME NEW s \in Stream, StreamStep(s)
      PROVE  InFlight'
  <2>1. /\ pc'["library"] = pc["library"] /\ local'["library"] = local["library"]
        /\ UNCHANGED <<sent, object_mtx>>
    BY <1>1, StreamFrame
  <2>2. CASE SetNotify(s) \/ UnsetNotify(s)
    BY <2>1, <2>2 DEF SetNotify, UnsetNotify
  <2>3. CASE ~ (SetNotify(s) \/ UnsetNotify(s))
    <3>1. UNCHANGED attr
      BY <1>1, <2>3, Zenon DEF StreamStep, Call, Get, Lookup, CheckOthers, Subscribe, Wake,
         CheckCancelled, LookForKey, WriteFront, CleanUp, CheckLast, LockApi, Desubscribe,
         CheckNone, EraseKey
    <3> QED
      BY <2>1, <3>1
  <2> QED
    BY <2>2, <2>3
<1>2. ASSUME NEW p \in {"library", "remover"}, NotifierStep(p)
      PROVE  InFlight'
  BY <1>2, NotifierFrame
<1>3. CASE LibraryNotify \/ LibraryDone
  BY <1>3 DEF LibraryNotify, LibraryDone, QueuesOK
<1>4. CASE Remove \/ RemoveObject \/ ForgetNotifier \/ RemoveDone \/ Create
  BY <1>4 DEF Remove, RemoveObject, ForgetNotifier, RemoveDone, Create
<1>5. CASE (\E s \in Stream : Cancel(s)) \/ UNCHANGED vars
  BY <1>5 DEF Cancel, vars
<1> QED
  BY <1>1, <1>2, <1>3, <1>4, <1>5 DEF Next, LibraryStep, RemoverStep

LEMMA NextAllocatedOnce ==
  ASSUME Types, AllocatedOnce, [Next]_vars
  PROVE  AllocatedOnce'
<1> USE ProcessFacts DEF AllocatedOnce, Unknown, Go, At, Types, PcOK, ObjectOK, object, notifiers
<1>1. ASSUME NEW s \in Stream, StreamStep(s)
      PROVE  AllocatedOnce'
  <2>1. /\ \A p \in Process \ {s} : pc'[p] = pc[p] /\ local'[p] = local[p]
    BY <1>1, StreamFrame
  <2>2. CASE Call(s) \/ Get(s) \/ CheckOthers(s) \/ LockApi(s)
    BY <2>1, <2>2 DEF Call, Get, CheckOthers, LockApi
  <2>3. CASE Lookup(s)
    <3>1. pc'[s] \notin {"call", "get", "lookup"} /\ UNCHANGED <<attr, subscribers>>
      BY <2>3 DEF Lookup
    <3>2. registered' \in {s, registered} /\ local'[s] \in {s, registered}
      BY <2>3 DEF Lookup, NotifierFor
    <3> QED
      BY <2>1, <3>1, <3>2
  <2>4. CASE SetNotify(s) \/ UnsetNotify(s)
    BY <2>1, <2>4 DEF SetNotify, UnsetNotify, NullContext
  <2>5. CASE Subscribe(s) \/ Desubscribe(s)
    BY <2>1, <2>5 DEF Subscribe, Desubscribe, Remaining
  <2>6. CASE EraseKey(s)
    BY <2>1, <2>6 DEF EraseKey
  <2>7. CASE QuietStep(s)
    BY <2>1, <2>7, QuietFacts DEF LoopStep, CleanupStep, EndStep
  <2> QED
    BY <1>1, <2>2, <2>3, <2>4, <2>5, <2>6, <2>7 DEF StreamStep, QuietStep
<1>2. ASSUME NEW p \in {"library", "remover"}, NotifierStep(p)
      PROVE  AllocatedOnce'
  BY <1>2, NotifierFrame
<1>3. CASE LibraryNotify \/ LibraryDone
  BY <1>3 DEF LibraryNotify, LibraryDone
<1>4. CASE Remove \/ RemoveObject \/ ForgetNotifier \/ RemoveDone \/ Create
  BY <1>4 DEF Remove, RemoveObject, ForgetNotifier, RemoveDone, Create
<1>5. CASE (\E s \in Stream : Cancel(s)) \/ UNCHANGED vars
  BY <1>5 DEF Cancel, vars
<1> QED
  BY <1>1, <1>2, <1>3, <1>4, <1>5 DEF Next, LibraryStep, RemoverStep

LEMMA NextSubscribed ==
  ASSUME Types, Subscribed, SettingUp, [Next]_vars
  PROVE  Subscribed'
<1> USE ProcessFacts DEF Subscribed, Looping, Go, At, Types, PcOK, ObjectOK, FirstStep, SetupStep, LoopStep,
    CleanupStep, EndStep, notifiers
<1>1. ASSUME NEW s \in Stream, StreamStep(s)
      PROVE  Subscribed'
  <2>1. /\ \A p \in Process \ {s} : pc'[p] = pc[p] /\ local'[p] = local[p]
    BY <1>1, StreamFrame
  <2>2. CASE Call(s) \/ Get(s) \/ CheckOthers(s) \/ LockApi(s) \/ SetNotify(s) \/ UnsetNotify(s)
             \/ EraseKey(s)
    BY <2>1, <2>2 DEF Call, Get, CheckOthers, LockApi, SetNotify, UnsetNotify, EraseKey
  <2>3. CASE Lookup(s)
    BY <2>1, <2>3 DEF Lookup
  <2>4. CASE Subscribe(s)
    BY <2>1, <2>4 DEF Subscribe, SettingUp
  <2>5. CASE Desubscribe(s)
    BY <2>1, <2>5 DEF Desubscribe, Remaining
  <2>6. CASE QuietStep(s)
    BY <2>1, <2>6, QuietFacts
  <2> QED
    BY <1>1, <2>2, <2>3, <2>4, <2>5, <2>6 DEF StreamStep, QuietStep
<1>2. ASSUME NEW p \in {"library", "remover"}, NotifierStep(p)
      PROVE  Subscribed'
  BY <1>2, NotifierFrame
<1>3. CASE LibraryNotify \/ LibraryDone
  BY <1>3 DEF LibraryNotify, LibraryDone
<1>4. CASE Remove \/ RemoveObject \/ ForgetNotifier \/ RemoveDone \/ Create
  BY <1>4 DEF Remove, RemoveObject, ForgetNotifier, RemoveDone, Create
<1>5. CASE (\E s \in Stream : Cancel(s)) \/ UNCHANGED vars
  BY <1>5 DEF Cancel, vars
<1> QED
  BY <1>1, <1>2, <1>3, <1>4, <1>5 DEF Next, LibraryStep, RemoverStep

LEMMA NextReached ==
  ASSUME Types, InHand, Reached, Subscribed, [Next]_vars
  PROVE  Reached'
<1> USE ProcessFacts DEF Reached, Go, At, Types, PcOK, ObjectOK, FirstStep, SetupStep
<1>1. ASSUME NEW s \in Stream, StreamStep(s)
      PROVE  Reached'
  <2>1. /\ \A p \in Process \ {s} : pc'[p] = pc[p] /\ local'[p] = local[p]
        /\ UNCHANGED todo
    BY <1>1, StreamFrame
  <2>2. pc[s] \notin FirstStep => pc'[s] \notin FirstStep /\ local'[s] = local[s]
    BY <1>1 DEF StreamStep, Call, Get, Lookup, SetNotify, CheckOthers, Subscribe, Wake,
       CheckCancelled, LookForKey, WriteFront, CleanUp, CheckLast, LockApi, UnsetNotify,
       Desubscribe, CheckNone, EraseKey
  <2> QED
    BY <2>1, <2>2
<1>2. ASSUME NEW p \in {"library", "remover"}, NotifierStep(p)
      PROVE  Reached'
  <2>1. /\ UNCHANGED local
        /\ \A r \in Process \ {p} : pc'[r] = pc[r] /\ todo'[r] = todo[r]
        /\ pc[p] \in NotifyStep /\ pc'[p] = "push"
        /\ todo'[p] \subseteq todo[p] \/ todo'[p] = subscribers[local[p]]
    BY <1>2, NotifierFrame
  <2>2. \A s \in subscribers[local[p]] : local[s] = local[p] /\ pc[s] \notin FirstStep
    BY <2>1 DEF InHand, Subscribed
  <2>3. \A s \in todo'[p] : s \in Stream /\ local[s] = local[p] /\ pc[s] \notin FirstStep
    BY <2>1, <2>2 DEF InHand
  <2>4. \A s \in Stream : pc'[s] = pc[s]
    BY <2>1
  <2>5. \A r \in {"library", "remover"} \ {p} : \A s \in todo'[r] : s \in Stream /\ s \in todo[r]
    BY <2>1
  <2> QED
    BY <2>1, <2>3, <2>4, <2>5
<1>3. CASE LibraryNotify \/ LibraryDone
  <2>1. /\ UNCHANGED todo /\ todo["library"] = {}
        /\ \A p \in Process \ {"library"} : pc'[p] = pc[p] /\ local'[p] = local[p]
    BY <1>3 DEF LibraryNotify, LibraryDone
  <2>2. \A p \in {"library", "remover"} : \A s \in todo[p] :
          s \in Stream /\ pc'[s] = pc[s] /\ local'[s] = local[s]
    BY <2>1
  <2> QED
    BY <2>1, <2>2
<1>4. CASE Remove \/ RemoveObject \/ ForgetNotifier \/ RemoveDone \/ Create
  <2>1. /\ UNCHANGED todo
        /\ todo["remover"] = {} \/ UNCHANGED <<pc, local>>
        /\ \A p \in Process \ {"remover"} : pc'[p] = pc[p] /\ local'[p] = local[p]
    BY <1>4 DEF Remove, RemoveObject, ForgetNotifier, RemoveDone, Create
  <2>2. \A p \in {"library", "remover"} : \A s \in todo[p] :
          s \in Stream /\ pc'[s] = pc[s] /\ local'[s] = local[s]
    BY <2>1
  <2> QED
    BY <2>1, <2>2
<1>5. CASE (\E s \in Stream : Cancel(s)) \/ UNCHANGED vars
  BY <1>5 DEF Cancel, vars
<1> QED
  BY <1>1, <1>2, <1>3, <1>4, <1>5 DEF Next, LibraryStep, RemoverStep

LEMMA NextSettingUp ==
  ASSUME Types, Exclusive, AllocatedOnce, Reached, SettingUp, OneInUse, [Next]_vars
  PROVE  SettingUp'
<1> USE ProcessFacts DEF Go, At, Types, PcOK, ObjectOK, FirstStep, SetupStep, object, notifiers,
    streams, locks
<1>1. ASSUME NEW s \in Stream, StreamStep(s)
      PROVE  SettingUp'
  <2>1. /\ \A p \in Process \ {s} : pc'[p] = pc[p] /\ local'[p] = local[p]
        /\ \A r \in Stream \ {s} : q'[r] = q[r] /\ written'[r] = written[r]
    BY <1>1, StreamFrame
  <2> DEFINE Own(t) ==
        /\ pc[t] \in FirstStep => q[t] = <<>> /\ written[t] = <<>>
        /\ pc[t] \in {"set", "check", "subscribe"} =>
             local[t] \in Stream /\ registered \in {local[t], None}
        /\ pc[t] = "set" => attr = None
        /\ pc[t] = "check" => attr = local[t] \/ subscribers[local[t]] = {}
        /\ pc[t] = "subscribe" => attr = local[t]
  <2>2. ASSUME NEW t \in Stream \ {s}
        PROVE  Own(t)'
    <3>1. CASE pc[t] \notin SetupStep
      BY <2>1, <3>1 DEF SettingUp
    <3>2. CASE pc[t] \in SetupStep
      <4>1. api_mtx = t /\ pc[s] \notin SetupStep \cup {"unsetObject"}
        BY <2>2, <3>2 DEF Exclusive
      <4>2. Desubscribe(s) \/ EraseKey(s) \/ QuietStep(s)
        BY <1>1, <4>1 DEF StreamStep, QuietStep, Call, Get, Lookup, SetNotify, CheckOthers,
           Subscribe, LockApi, UnsetNotify
      <4>3. /\ UNCHANGED attr
            /\ registered' \in {registered, None}
            /\ \A n \in Stream : subscribers'[n] \subseteq subscribers[n]
        BY <4>2, QuietFacts DEF Desubscribe, Remaining, EraseKey
      <4> QED
        BY <2>1, <2>2, <4>3 DEF SettingUp
    <3> QED
      BY <3>1, <3>2
  <2>3. Own(s)'
    <3>1. CASE Call(s) \/ Get(s)
      BY <3>1 DEF SettingUp, Call, Get
    <3>2. CASE Lookup(s)
      <4>1. /\ UNCHANGED <<attr, subscribers, q, written>>
            /\ pc[s] = "lookup" /\ pc'[s] = IF attr = None THEN "set" ELSE "check"
            /\ local'[s] = registered' /\ registered' = NotifierFor(s)
        BY <3>2 DEF Lookup
      <4>2. registered' \in Stream
        BY <4>1 DEF NotifierFor
      <4>3. attr # None => attr = registered' \/ subscribers[registered'] = {}
        BY <4>1 DEF NotifierFor, AllocatedOnce, Unknown, OneInUse
      <4> QED
        BY <4>1, <4>2, <4>3 DEF SettingUp
    <3>3. CASE SetNotify(s) \/ CheckOthers(s)
      BY <3>3 DEF SettingUp, SetNotify, CheckOthers
    <3>4. CASE Subscribe(s) \/ LockApi(s) \/ UnsetNotify(s) \/ Desubscribe(s) \/ EraseKey(s)
      BY <3>4 DEF Subscribe, LockApi, UnsetNotify, Desubscribe, EraseKey
    <3>5. CASE QuietStep(s)
      BY <3>5, QuietFacts DEF LoopStep, CleanupStep, EndStep
    <3> QED
      BY <1>1, <3>1, <3>2, <3>3, <3>4, <3>5 DEF StreamStep, QuietStep
  <2> QED
    BY <2>2, <2>3 DEF SettingUp
<1> USE DEF SettingUp
<1>2. ASSUME NEW p \in {"library", "remover"}, NotifierStep(p)
      PROVE  SettingUp'
  <2>1. /\ UNCHANGED <<attr, registered, subscribers, local, written>>
        /\ \A r \in Stream : pc'[r] = pc[r]
    BY <1>2, NotifierFrame
  <2>2. \A r \in Stream : pc[r] \in FirstStep => q'[r] = q[r]
    BY <1>2 DEF NotifierStep, Notify, Push, Reached, QueuesOK
  <2> QED
    BY <2>1, <2>2
<1>3. CASE LibraryNotify \/ LibraryDone
  BY <1>3 DEF LibraryNotify, LibraryDone
<1>4. CASE Remove \/ ForgetNotifier \/ RemoveDone \/ Create
  BY <1>4 DEF Remove, ForgetNotifier, RemoveDone, Create
<1>5. CASE RemoveObject
  <2>1. \A s \in Stream : pc[s] \notin SetupStep
    BY <1>5 DEF RemoveObject, Exclusive
  <2> QED
    BY <1>5, <2>1 DEF RemoveObject
<1>6. CASE (\E s \in Stream : Cancel(s)) \/ UNCHANGED vars
  BY <1>6 DEF Cancel, vars
<1> QED
  BY <1>1, <1>2, <1>3, <1>4, <1>5, <1>6 DEF Next, LibraryStep, RemoverStep

LEMMA NextOneInUse ==
  ASSUME Types, AllocatedOnce, SettingUp, OneInUse, [Next]_vars
  PROVE  OneInUse'
<1> USE ProcessFacts DEF OneInUse, Go, At, Types, PcOK, ObjectOK, object, notifiers
<1>1. ASSUME NEW s \in Stream, StreamStep(s)
      PROVE  OneInUse'
  <2>1. CASE Lookup(s)
    BY <2>1 DEF Lookup, NotifierFor, AllocatedOnce, Unknown
  <2>2. CASE SetNotify(s)
    BY <2>2 DEF SetNotify, SettingUp
  <2>3. CASE Subscribe(s)
    BY <2>3 DEF Subscribe, SettingUp
  <2>4. CASE UnsetNotify(s)
    BY <2>4 DEF UnsetNotify, NullContext
  <2>5. CASE Desubscribe(s)
    BY <2>5 DEF Desubscribe, Remaining
  <2>6. CASE Call(s) \/ Get(s) \/ CheckOthers(s) \/ LockApi(s) \/ EraseKey(s)
    BY <2>6 DEF Call, Get, CheckOthers, LockApi, EraseKey
  <2>7. CASE QuietStep(s)
    BY <2>7, QuietFacts
  <2> QED
    BY <1>1, <2>1, <2>2, <2>3, <2>4, <2>5, <2>6, <2>7 DEF StreamStep, QuietStep
<1>2. ASSUME NEW p \in {"library", "remover"}, NotifierStep(p)
      PROVE  OneInUse'
  BY <1>2, NotifierFrame
<1>3. CASE LibraryNotify \/ LibraryDone
  BY <1>3 DEF LibraryNotify, LibraryDone
<1>4. CASE Remove \/ RemoveObject \/ ForgetNotifier \/ RemoveDone \/ Create
  BY <1>4 DEF Remove, RemoveObject, ForgetNotifier, RemoveDone, Create
<1>5. CASE (\E s \in Stream : Cancel(s)) \/ UNCHANGED vars
  BY <1>5 DEF Cancel, vars
<1> QED
  BY <1>1, <1>2, <1>3, <1>4, <1>5 DEF Next, LibraryStep, RemoverStep

LEMMA InitProtocol == Init => Protocol
<1> SUFFICES ASSUME Init PROVE Protocol
  OBVIOUS
<1> USE ProcessFacts DEF Init
<1>1. Exclusive /\ InFlight /\ OneInUse
  BY DEF Exclusive, InFlight, OneInUse, SetupStep, NotifyStep
<1>2. AllocatedOnce /\ Reached
  BY DEF AllocatedOnce, Unknown, Reached
<1>3. Subscribed /\ SettingUp
  BY DEF Subscribed, SettingUp, Looping, LoopStep
<1> QED
  BY <1>1, <1>2, <1>3 DEF Protocol

LEMMA ProtocolInvariant == Spec => [](Types /\ InHand /\ Protocol)
<1>1. Types /\ InHand /\ Protocol /\ [Next]_vars => Protocol'
  BY NextExclusive, NextInFlight, NextAllocatedOnce, NextSubscribed, NextReached,
     NextSettingUp, NextOneInUse DEF Protocol
<1> QED
  BY <1>1, InitProtocol, TypesInvariant, PTL DEF Spec
-----------------------------------------------------------------------------
(***************************************************************************)
(* What each step does to what a stream got.                               *)
(***************************************************************************)
LEMMA Numbers ==
  ASSUME Types, NEW s \in Stream
  PROVE  /\ q[s] \in Seq(Nat) /\ written[s] \in Seq(Nat) /\ Got(s) \in Seq(Nat)
         /\ Looping(s) => Got(s) = written[s] \o q[s]
         /\ ~Looping(s) => Got(s) = written[s]
         /\ sent \in Nat
<1>1. /\ q[s] \in Seq(0..MaxNotify) /\ written[s] \in Seq(0..MaxNotify)
      /\ MaxNotify \in Nat /\ sent \in Nat
  BY StreamAssumption DEF Types, QueuesOK
<1>2. 0..MaxNotify \subseteq Nat
  BY <1>1
<1>3. q[s] \in Seq(Nat) /\ written[s] \in Seq(Nat)
  BY <1>1, <1>2
<1>4. written[s] \o <<>> = written[s] /\ written[s] \o q[s] \in Seq(Nat)
  BY <1>3, ConcatFacts
<1> QED
  BY <1>1, <1>3, <1>4 DEF Got

LEMMA NumbersNext ==
  ASSUME Types', NEW s \in Stream
  PROVE  Got(s)' \in Seq(Nat)
<1>1. /\ q'[s] \in Seq(0..MaxNotify) /\ written'[s] \in Seq(0..MaxNotify)
      /\ MaxNotify \in Nat
  BY StreamAssumption DEF Types, QueuesOK
<1>2. 0..MaxNotify \subseteq Nat
  BY <1>1
<1>3. q'[s] \in Seq(Nat) /\ written'[s] \in Seq(Nat)
  BY <1>1, <1>2
<1>4. written'[s] \o <<>> \in Seq(Nat) /\ written'[s] \o q'[s] \in Seq(Nat)
  BY <1>3, ConcatFacts
<1> QED
  BY <1>4 DEF Got

(* It stays as it is, or what is queued is lost when the loop ends, or one *)
(* more notification is pushed.                                            *)
Unmoved(t) == Got(t)' = Got(t) /\ (Looping(t)' => Looping(t) \/ Got(t) = <<>>)

Dropped(t) == (\E u \in Seq(Nat) : Got(t) = Got(t)' \o u) /\ ~Looping(t)'

Extended(t) ==
  \E p \in {"library", "remover"} :
    Push(p, t) /\ Looping(t) /\ Got(t)' = Append(Got(t), Notification(p))

(* What is left of it when the loop ends.                                  *)
LEMMA LoopEnds ==
  ASSUME Types, NEW t \in Stream, Looping(t), ~Looping(t)', written'[t] = written[t]
  PROVE  Dropped(t)
<1>1. /\ q[t] \in Seq(Nat) /\ written[t] \in Seq(Nat)
      /\ Got(t) = written[t] \o q[t]
  BY Numbers
<1>2. Got(t)' = written[t]
  <2>1. Got(t)' = written[t] \o <<>>
    BY DEF Got
  <2> QED
    BY <1>1, <2>1, ConcatFacts
<1> QED
  BY <1>1, <1>2 DEF Dropped

(* What a push adds.                                                       *)
LEMMA PushExtends ==
  ASSUME Types, NEW p \in {"library", "remover"}, NEW t \in Stream, Looping(t), Push(p, t)
  PROVE  Got(t)' = Append(Got(t), Notification(p))
<1> DEFINE u == written[t]
           v == q[t]
<1>1. u \in Seq(Nat) /\ v \in Seq(Nat) /\ Notification(p) \in Nat /\ Got(t) = u \o v
  BY Numbers DEF Notification, REMOVED
<1>2. q \in [Stream -> Seq(0..MaxNotify)]
  BY DEF Types, QueuesOK
<1>3. q'[t] = Append(v, Notification(p)) /\ written'[t] = u /\ Looping(t)'
  BY <1>2 DEF Push, Pushed, streams, Looping
<1>4. Got(t)' = u \o Append(v, Notification(p))
  BY <1>3 DEF Got
<1> HIDE DEF u, v
<1>5. \A x \in Nat : u \o Append(v, x) = Append(u \o v, x)
  BY <1>1, PushBack
<1> QED
  BY <1>1, <1>4, <1>5

LEMMA GotFacts ==
  ASSUME Types, Types', InHand, Protocol, [Next]_vars, NEW t \in Stream
  PROVE  Unmoved(t) \/ Dropped(t) \/ Extended(t)
<1> USE ProcessFacts DEF Go, At
<1>1. /\ pc \in [Process -> Step] /\ q \in [Stream -> Seq(0..MaxNotify)]
      /\ written \in [Stream -> Seq(0..MaxNotify)]
  BY DEF Types, PcOK, QueuesOK
<1>2. ASSUME q'[t] = q[t], written'[t] = written[t], Looping(t)' = Looping(t)
      PROVE  Unmoved(t)
  BY <1>2 DEF Unmoved, Got
<1>3. ASSUME ~Looping(t), ~Looping(t)', written'[t] = written[t]
      PROVE  Unmoved(t)
  BY <1>3 DEF Unmoved, Got
<1>4. CASE StreamStep(t)
  <2>1. CASE Subscribe(t)
    <3>1. /\ q[t] = <<>> /\ written[t] = <<>>
          /\ q'[t] = <<>> /\ written'[t] = <<>>
      BY <2>1 DEF Subscribe, Protocol, SettingUp, FirstStep, SetupStep, streams
    <3>2. <<>> \o <<>> = <<>>
      OBVIOUS
    <3>3. Got(t) = <<>> /\ Got(t)' = <<>>
      BY <3>1, <3>2 DEF Got
    <3> QED
      BY <3>3 DEF Unmoved
  <2>2. CASE Wake(t) \/ CheckCancelled(t) \/ LookForKey(t)
    <3>1. /\ q'[t] = q[t] /\ written'[t] = written[t] /\ Looping(t)
      BY <2>2 DEF Wake, CheckCancelled, LookForKey, streams, Looping, LoopStep
    <3>2. CASE Looping(t)'
      BY <1>2, <3>1, <3>2
    <3>3. CASE ~Looping(t)'
      BY <3>1, <3>3, LoopEnds
    <3> QED
      BY <3>2, <3>3
  <2>3. CASE WriteFront(t)
    <3>1. /\ q[t] # <<>> /\ q'[t] = Tail(q[t]) /\ Looping(t)
          /\ \/ ~Looping(t)' /\ written'[t] = written[t]
             \/ Looping(t)' /\ written'[t] = Append(written[t], Head(q[t]))
      BY <1>1, <2>3 DEF WriteFront, InHand, Looping, LoopStep
    <3>2. CASE ~Looping(t)'
      BY <3>1, <3>2, LoopEnds
    <3>3. CASE Looping(t)'
      <4>1. Got(t)' = Append(written[t], Head(q[t])) \o Tail(q[t])
        BY <3>1, <3>3 DEF Got
      <4>2. Got(t)' = Got(t)
        BY <3>1, <4>1, Numbers, MoveFront
      <4> QED
        BY <3>1, <4>2 DEF Unmoved
    <3> QED
      BY <3>2, <3>3
  <2>4. CASE \/ Call(t) \/ Get(t) \/ Lookup(t) \/ SetNotify(t) \/ CheckOthers(t)
             \/ CleanUp(t) \/ CheckLast(t) \/ LockApi(t) \/ UnsetNotify(t)
             \/ Desubscribe(t) \/ CheckNone(t) \/ EraseKey(t)
    <3>1. ~Looping(t) /\ ~Looping(t)' /\ written'[t] = written[t]
      BY <1>1, <2>4 DEF Call, Get, Lookup, SetNotify, CheckOthers, CleanUp, CheckLast,
         LockApi, UnsetNotify, Desubscribe, CheckNone, EraseKey, streams, Looping, LoopStep
    <3> QED
      BY <1>3, <3>1
  <2> QED
    BY <1>4, <2>1, <2>2, <2>3, <2>4 DEF StreamStep
<1>5. ASSUME NEW s \in Stream \ {t}, StreamStep(s)
      PROVE  Unmoved(t)
  BY <1>2, <1>5, StreamFrame DEF Looping
<1>6. ASSUME NEW p \in {"library", "remover"}, NotifierStep(p)
      PROVE  Unmoved(t) \/ Extended(t)
  <2>1. Looping(t)' = Looping(t) /\ written'[t] = written[t]
    BY <1>6, NotifierFrame DEF Looping
  <2>2. CASE q'[t] = q[t]
    BY <1>2, <2>1, <2>2
  <2>3. CASE q'[t] # q[t]
    <3>1. Push(p, t) /\ q'[t] = Append(q[t], Notification(p))
      BY <1>1, <1>6, <2>3 DEF NotifierStep, Notify, Push, Pushed, streams
    <3>2. CASE ~Looping(t)
      BY <1>3, <2>1, <3>2
    <3>3. CASE Looping(t)
      BY <3>1, <3>3, PushExtends DEF Extended
    <3> QED
      BY <3>2, <3>3
  <2> QED
    BY <2>2, <2>3
<1>7. CASE LibraryNotify \/ LibraryDone
  <2>1. q'[t] = q[t] /\ written'[t] = written[t] /\ pc'[t] = pc[t]
    BY <1>1, <1>7 DEF LibraryNotify, LibraryDone, streams
  <2> QED
    BY <1>2, <2>1 DEF Looping
<1>8. CASE Remove \/ RemoveObject \/ ForgetNotifier \/ RemoveDone \/ Create
  <2>1. q'[t] = q[t] /\ written'[t] = written[t] /\ pc'[t] = pc[t]
    BY <1>1, <1>8 DEF Remove, RemoveObject, ForgetNotifier, RemoveDone, Create, streams
  <2> QED
    BY <1>2, <2>1 DEF Looping
<1>9. CASE (\E s \in Stream : Cancel(s)) \/ UNCHANGED vars
  <2>1. q'[t] = q[t] /\ written'[t] = written[t] /\ pc'[t] = pc[t]
    BY <1>9 DEF Cancel, vars, streams
  <2> QED
    BY <1>2, <2>1 DEF Looping
<1> QED
  BY <1>4, <1>5, <1>6, <1>7, <1>8, <1>9 DEF Next, LibraryStep, RemoverStep

(* A push by the library is the notification the stream has not got yet.   *)
LEMMA LibraryPush ==
  ASSUME Types, Protocol, UpToDate, NEW t \in Stream, Looping(t), Push("library", t)
  PROVE  /\ sent \in Nat \ {0}
         /\ InUse(local[t])
         /\ UpTo(Got(t), sent - 1)
<1>1. pc["library"] = "push" /\ t \in todo["library"]
  BY DEF Push, At
<1>2. local[t] = local["library"] /\ attr = local[t] /\ sent > 0
  BY <1>1 DEF Protocol, Reached, InFlight, NotifyStep
<1>3. InUse(local[t]) /\ Pending(t)
  BY <1>1, <1>2 DEF InUse, Pending
<1>4. UpTo(Got(t), sent - 1)
  BY <1>3 DEF UpToDate
<1>5. sent \in Nat
  BY Numbers
<1> QED
  BY <1>2, <1>3, <1>4, <1>5

LEMMA NextInOrder ==
  ASSUME Types, Types', InHand, Protocol, UpToDate, InOrder, [Next]_vars
  PROVE  InOrder'
<1> SUFFICES ASSUME NEW t \in Stream PROVE Consecutive(Got(t)')
  BY DEF InOrder
<1>1. Got(t) \in Seq(Nat) /\ Got(t)' \in Seq(Nat) /\ Consecutive(Got(t))
  BY Numbers, NumbersNext DEF InOrder
<1>2. CASE Unmoved(t)
  BY <1>1, <1>2 DEF Unmoved
<1>3. CASE Dropped(t)
  BY <1>1, <1>3, PrefixConsecutive DEF Dropped
<1>4. CASE Extended(t)
  <2>1. PICK p \in {"library", "remover"} :
          Push(p, t) /\ Looping(t) /\ Got(t)' = Append(Got(t), Notification(p))
    BY <1>4 DEF Extended
  <2>2. CASE p = "library"
    <3>1. sent \in Nat \ {0} /\ UpTo(Got(t), sent - 1) /\ Notification(p) = sent
      BY <2>1, <2>2, LibraryPush DEF Notification
    <3> QED
      BY <1>1, <2>1, <3>1, AppendNotification
  <2>3. CASE p = "remover"
    BY <1>1, <2>1, <2>3, AppendRemoved DEF Notification
  <2> QED
    BY <2>2, <2>3
<1> QED
  BY <1>2, <1>3, <1>4, GotFacts

(* A notifier that is in use was so before, or has no streams in the loop. *)
LEMMA UseFacts ==
  ASSUME Types, Types', InHand, Protocol, [Next]_vars, NEW t \in Stream,
         Looping(t), Looping(t)', InUse(local[t])'
  PROVE  local'[t] = local[t] /\ InUse(local[t])
<1> USE ProcessFacts DEF Go, At, Looping, LoopStep, object, notifiers
<1>1. /\ pc \in [Process -> Step] /\ local \in [Process -> Stream \cup {None}]
      /\ pc[t] \in LoopStep /\ local[t] \in Stream
  BY DEF Types, PcOK, ObjectOK, Protocol, Subscribed
<1>2. local'[t] = local[t]
  <2>1. CASE StreamStep(t)
    BY <1>1, <2>1 DEF StreamStep, Call, Get, Lookup, SetNotify, CheckOthers, Subscribe, Wake,
       CheckCancelled, LookForKey, WriteFront, CleanUp, CheckLast, LockApi, UnsetNotify,
       Desubscribe, CheckNone, EraseKey
  <2>2. ASSUME NEW s \in Stream \ {t}, StreamStep(s) PROVE local'[t] = local[t]
    BY <2>2, StreamFrame
  <2>3. ASSUME NEW p \in {"library", "remover"}, NotifierStep(p) PROVE local'[t] = local[t]
    BY <2>3, NotifierFrame
  <2>4. CASE LibraryNotify \/ LibraryDone \/ Remove \/ RemoveObject \/ ForgetNotifier
             \/ RemoveDone \/ Create
    BY <1>1, <2>4 DEF LibraryNotify, LibraryDone, Remove, RemoveObject, ForgetNotifier,
       RemoveDone, Create
  <2>5. CASE (\E s \in Stream : Cancel(s)) \/ UNCHANGED vars
    BY <2>5 DEF Cancel, vars
  <2> QED
    BY <2>1, <2>2, <2>3, <2>4, <2>5 DEF Next, LibraryStep, RemoverStep
<1> DEFINE n == local[t]
<1>3. \/ attr' = n \/ registered' = n
      \/ \E s \in Stream : pc'[s] = "set" /\ local'[s] = n
  BY <1>2 DEF InUse
<1>4. ASSUME /\ attr' = n => InUse(n)
             /\ registered' = n => InUse(n)
             /\ \A s \in Stream : pc'[s] = "set" /\ local'[s] = n => InUse(n)
      PROVE  InUse(n)
  BY <1>3, <1>4
<1>5. ASSUME attr' \in {attr, None}, registered' \in {registered, None},
             \A s \in Stream : pc'[s] = "set" => pc[s] = "set" /\ local'[s] = local[s]
      PROVE  InUse(n)
  BY <1>1, <1>3, <1>5 DEF InUse
<1>6. ASSUME NEW s \in Stream, StreamStep(s)
      PROVE  InUse(n)
  <2>1. \A r \in Stream \ {s} : pc'[r] = pc[r] /\ local'[r] = local[r]
    BY <1>6, StreamFrame
  <2>2. CASE Lookup(s)
    <3>1. /\ UNCHANGED attr /\ pc[s] = "lookup"
          /\ local'[s] = registered' /\ registered' = NotifierFor(s)
      BY <1>1, <2>2 DEF Lookup
    <3>2. n # s
      BY <3>1 DEF Protocol, AllocatedOnce, Unknown
    <3>3. registered' = n => registered = n
      BY <3>1, <3>2 DEF NotifierFor
    <3> QED
      BY <1>3, <2>1, <3>1, <3>3 DEF InUse
  <2>3. CASE SetNotify(s)
    <3>1. /\ attr' = local[s] /\ pc[s] = "set" /\ UNCHANGED <<registered, local>>
          /\ pc'[s] = "subscribe"
      BY <1>1, <2>3 DEF SetNotify
    <3> QED
      BY <1>3, <2>1, <3>1 DEF InUse
  <2>4. CASE \/ Call(s) \/ Get(s) \/ CheckOthers(s) \/ Subscribe(s) \/ LockApi(s)
             \/ UnsetNotify(s) \/ Desubscribe(s) \/ EraseKey(s)
    <3>1. /\ attr' \in {attr, None} /\ registered' \in {registered, None}
          /\ pc'[s] # "set"
      BY <1>1, <2>4 DEF Call, Get, CheckOthers, Subscribe, LockApi, UnsetNotify, NullContext,
         Desubscribe, EraseKey
    <3> QED
      BY <1>5, <2>1, <3>1
  <2>5. CASE QuietStep(s)
    <3>1. UNCHANGED <<attr, registered>> /\ pc'[s] # "set"
      BY <2>5, QuietFacts DEF CleanupStep, EndStep
    <3> QED
      BY <1>5, <2>1, <3>1
  <2> QED
    BY <1>6, <2>2, <2>3, <2>4, <2>5 DEF StreamStep, QuietStep
<1>7. ASSUME NEW p \in {"library", "remover"}, NotifierStep(p)
      PROVE  InUse(n)
  BY <1>5, <1>7, NotifierFrame
<1>8. CASE LibraryNotify \/ LibraryDone \/ Remove \/ RemoveObject \/ ForgetNotifier
           \/ RemoveDone \/ Create
  <2>1. /\ attr' \in {attr, None} /\ registered' \in {registered, None}
        /\ \A s \in Stream : pc'[s] = pc[s] /\ local'[s] = local[s]
    BY <1>1, <1>8 DEF LibraryNotify, LibraryDone, Remove, RemoveObject, ForgetNotifier,
       RemoveDone, Create
  <2> QED
    BY <1>5, <2>1
<1>9. CASE (\E s \in Stream : Cancel(s)) \/ UNCHANGED vars
  <2>1. UNCHANGED <<attr, registered, pc, local>>
    BY <1>9 DEF Cancel, vars
  <2> QED
    BY <1>5, <2>1
<1>10. InUse(n)
  BY <1>6, <1>7, <1>8, <1>9 DEF Next, LibraryStep, RemoverStep
<1> QED
  BY <1>2, <1>10

(* Which notification a stream is still to get: a new one it is, as the    *)
(* object's context is the notifier in use; and it gets it when pushed.    *)
Missing(s) == IF Pending(s) THEN sent - 1 ELSE sent

LEMMA PendingFacts ==
  ASSUME Types, Types', InHand, Protocol, [Next]_vars, NEW t \in Stream,
         Looping(t), InUse(local[t]), local'[t] = local[t], ~Push("library", t)
  PROVE  Missing(t)' = Missing(t)
<1> USE ProcessFacts DEF Go, At
<1>1. /\ pc \in [Process -> Step] /\ local \in [Process -> Stream \cup {None}]
      /\ local[t] \in Stream /\ t \in subscribers[local[t]]
      /\ sent \in Nat /\ todo \in [Process -> SUBSET Stream]
  BY Numbers DEF Types, PcOK, ObjectOK, Protocol, Subscribed
<1>2. ASSUME sent' = sent, local'["library"] = local["library"],
             todo'["library"] = todo["library"], pc'["library"] = pc["library"]
      PROVE  Missing(t)' = Missing(t)
  BY <1>2 DEF Missing, Pending
<1>3. ASSUME NEW s \in Stream, StreamStep(s)
      PROVE  Missing(t)' = Missing(t)
  BY <1>2, <1>3, StreamFrame
<1>4. CASE NotifierStep("remover")
  BY <1>2, <1>4, NotifierFrame
<1>5. CASE Notify("library")
  <2>1. /\ pc["library"] = "notify" /\ pc'["library"] = "push"
        /\ todo'["library"] = subscribers[local["library"]]
        /\ sent' = sent /\ local' = local
    BY <1>1, <1>5 DEF Notify
  <2>2. Pending(t)' <=> Pending(t)
    BY <1>1, <2>1 DEF Pending
  <2> QED
    BY <2>1, <2>2 DEF Missing
<1>6. ASSUME NEW s \in Stream \ {t}, Push("library", s)
      PROVE  Missing(t)' = Missing(t)
  <2>1. /\ UNCHANGED <<pc, sent, local>>
        /\ todo'["library"] = todo["library"] \ {s}
    BY <1>1, <1>6 DEF Push
  <2>2. Pending(t)' <=> Pending(t)
    BY <2>1 DEF Pending
  <2> QED
    BY <2>1, <2>2 DEF Missing
<1>7. CASE LibraryNotify
  <2>1. /\ pc["library"] = "idle" /\ pc'["library"] = "notify" /\ attr # None
        /\ sent' = sent + 1 /\ local'["library"] = attr
    BY <1>1, <1>7 DEF LibraryNotify
  <2>2. ~Pending(t)
    BY <2>1 DEF Pending, Protocol, Reached
  <2>3. attr = local[t]
    <3>1. registered # local[t] \/ attr = local[t]
      BY <1>1, <2>1 DEF Protocol, OneInUse
    <3>2. \A s \in Stream : pc[s] # "set"
      BY <2>1 DEF Protocol, SettingUp
    <3> QED
      BY <3>1, <3>2 DEF InUse
  <2>4. Pending(t)'
    BY <2>1, <2>3 DEF Pending
  <2> QED
    BY <1>1, <2>1, <2>2, <2>4 DEF Missing
<1>8. CASE LibraryDone
  <2>1. /\ pc["library"] = "push" /\ todo["library"] = {}
        /\ pc'["library"] = "idle" /\ UNCHANGED <<todo, sent>>
    BY <1>1, <1>8 DEF LibraryDone
  <2>2. ~Pending(t) /\ ~Pending(t)'
    BY <2>1 DEF Pending
  <2> QED
    BY <2>1, <2>2 DEF Missing
<1>9. CASE Remove \/ RemoveObject \/ ForgetNotifier \/ RemoveDone \/ Create
  BY <1>1, <1>2, <1>9 DEF Remove, RemoveObject, ForgetNotifier, RemoveDone, Create
<1>10. CASE (\E s \in Stream : Cancel(s)) \/ UNCHANGED vars
  BY <1>2, <1>10 DEF Cancel, vars
<1> QED
  BY <1>3, <1>4, <1>5, <1>6, <1>7, <1>8, <1>9, <1>10
     DEF Next, LibraryStep, RemoverStep, NotifierStep

LEMMA NextUpToDate ==
  ASSUME Types, Types', InHand, Protocol, UpToDate, InOrder, [Next]_vars
  PROVE  UpToDate'
<1> SUFFICES ASSUME NEW t \in Stream, Looping(t)', InUse(local[t])'
             PROVE  UpTo(Got(t)', Missing(t)')
  BY DEF UpToDate, Missing
<1>1. Got(t) \in Seq(Nat) /\ Got(t)' \in Seq(Nat) /\ Consecutive(Got(t))
  BY Numbers, NumbersNext DEF InOrder
<1>2. CASE ~Looping(t)
  <2>1. Unmoved(t)
    BY <1>2, GotFacts DEF Dropped, Extended
  <2>2. Got(t)' = <<>>
    BY <1>2, <2>1 DEF Unmoved
  <2> QED
    BY <2>2, NothingNotified
<1>3. CASE Looping(t)
  <2>1. local'[t] = local[t] /\ InUse(local[t])
    BY <1>3, UseFacts
  <2>2. UpTo(Got(t), Missing(t))
    BY <1>3, <2>1 DEF UpToDate, Missing
  <2>3. CASE Push("library", t)
    <3>1. sent \in Nat \ {0} /\ UpTo(Got(t), sent - 1)
      BY <1>3, <2>3, LibraryPush
    <3>2. Got(t)' = Append(Got(t), sent)
      BY <1>3, <2>3, PushExtends DEF Notification
    <3>3. ~Pending(t)' /\ sent' = sent
      BY <2>3 DEF Push, Pending, Types, ObjectOK, At, Protocol
    <3> QED
      BY <1>1, <3>1, <3>2, <3>3, AppendNotification DEF Missing
  <2>4. CASE ~Push("library", t)
    <3>1. Missing(t)' = Missing(t)
      BY <1>3, <2>1, <2>4, PendingFacts
    <3>2. CASE Unmoved(t)
      BY <2>2, <3>1, <3>2 DEF Unmoved
    <3>3. CASE Extended(t)
      <4>1. Got(t)' = Append(Got(t), REMOVED)
        BY <2>4, <3>3 DEF Extended, Notification
      <4> QED
        BY <1>1, <2>2, <3>1, <4>1, AppendRemoved
    <3> QED
      BY <3>2, <3>3, GotFacts DEF Dropped
  <2> QED
    BY <2>3, <2>4
<1> QED
  BY <1>2, <1>3

(* When a stream enters its loop, nothing has been sent since; nothing is  *)
(* taken back from one that is in it.                                      *)
LEMMA SinceFacts ==
  ASSUME Types, [Next]_vars, NEW t \in Stream, Looping(t)'
  PROVE  \/ Looping(t) /\ since'[t] = since[t]
         \/ ~Looping(t) /\ since'[t] = sent /\ sent' = sent
<1> USE ProcessFacts DEF Go, At, Looping, LoopStep, streams
<1>1. pc \in [Process -> Step] /\ since \in [Stream -> 0..MaxNotify]
  BY DEF Types, PcOK, HistoryOK
<1>2. CASE StreamStep(t)
  <2>1. CASE Subscribe(t)
    BY <1>1, <2>1 DEF Subscribe
  <2>2. CASE ~Subscribe(t)
    <3>1. UNCHANGED since
      BY <1>2, <2>2, Zenon DEF StreamStep, Call, Get, Lookup, SetNotify, CheckOthers, Wake,
         CheckCancelled, LookForKey, WriteFront, CleanUp, CheckLast, LockApi, UnsetNotify,
         Desubscribe, CheckNone, EraseKey
    <3>2. Looping(t)
      BY <1>1, <1>2, <2>2 DEF StreamStep, Call, Get, Lookup, SetNotify, CheckOthers, Wake,
         CheckCancelled, LookForKey, WriteFront, CleanUp, CheckLast, LockApi, UnsetNotify,
         Desubscribe, CheckNone, EraseKey
    <3> QED
      BY <3>1, <3>2
  <2> QED
    BY <2>1, <2>2
<1>3. ASSUME NEW s \in Stream \ {t}, StreamStep(s)
      PROVE  Looping(t) /\ since'[t] = since[t]
  <2>1. pc'[t] = pc[t]
    BY <1>3, StreamFrame
  <2>2. UNCHANGED since \/ since' = [since EXCEPT ![s] = sent]
    BY <1>3, Zenon DEF StreamStep, Call, Get, Lookup, SetNotify, CheckOthers, Subscribe, Wake,
       CheckCancelled, LookForKey, WriteFront, CleanUp, CheckLast, LockApi, UnsetNotify,
       Desubscribe, CheckNone, EraseKey
  <2> QED
    BY <1>1, <1>3, <2>1, <2>2
<1>4. ASSUME NEW p \in {"library", "remover"}, NotifierStep(p)
      PROVE  Looping(t) /\ since'[t] = since[t]
  <2>1. UNCHANGED since
    BY <1>4, Zenon DEF NotifierStep, Notify, Push
  <2> QED
    BY <1>4, <2>1, NotifierFrame
<1>5. CASE LibraryNotify \/ LibraryDone
  BY <1>1, <1>5 DEF LibraryNotify, LibraryDone
<1>6. CASE Remove \/ RemoveObject \/ ForgetNotifier \/ RemoveDone \/ Create
  BY <1>1, <1>6 DEF Remove, RemoveObject, ForgetNotifier, RemoveDone, Create
<1>7. CASE (\E s \in Stream : Cancel(s)) \/ UNCHANGED vars
  BY <1>7 DEF Cancel, vars
<1> QED
  BY <1>2, <1>3, <1>4, <1>5, <1>6, <1>7 DEF Next, LibraryStep, RemoverStep

LEMMA NextComplete ==
  ASSUME Types, Types', InHand, Protocol, UpToDate, Complete, [Next]_vars
  PROVE  Complete'
<1> SUFFICES ASSUME NEW t \in Stream, Looping(t)', InUse(local[t])',
                    NEW n \in (since'[t] + 1)..Missing(t)'
             PROVE  Has(Got(t)', n)
  BY DEF Complete, Missing
<1>1. /\ Got(t) \in Seq(Nat) /\ Got(t)' \in Seq(Nat)
      /\ sent \in Nat /\ sent' \in Nat /\ since[t] \in Nat /\ since'[t] \in Nat
  BY Numbers, NumbersNext, StreamAssumption DEF Types, QueuesOK, HistoryOK
<1>2. /\ n \in Nat /\ since'[t] + 1 <= n /\ n <= Missing(t)'
      /\ Missing(t)' \in Int /\ n <= sent'
  <2>1. Missing(t)' \in {sent', sent' - 1}
    BY DEF Missing
  <2>2. Missing(t)' \in Int /\ Missing(t)' <= sent'
    BY <1>1, <2>1
  <2> QED
    BY <1>1, <2>2
<1>3. Looping(t) /\ since'[t] = since[t]
  <2>1. since'[t] # sent'
    BY <1>1, <1>2
  <2> QED
    BY <2>1, SinceFacts
<1>4. local'[t] = local[t] /\ InUse(local[t])
  BY <1>3, UseFacts
<1>5. n <= Missing(t) => Has(Got(t), n)
  <2>1. \A k \in (since[t] + 1)..Missing(t) : Has(Got(t), k)
    BY <1>3, <1>4 DEF Complete, Missing
  <2>2. n <= Missing(t) => n \in (since[t] + 1)..Missing(t)
    BY <1>1, <1>2, <1>3 DEF Missing
  <2> QED
    BY <2>1, <2>2
<1>6. CASE Push("library", t)
  <2>1. sent \in Nat \ {0} /\ Pending(t)
    BY <1>3, <1>6, LibraryPush DEF Push, At, Pending, Protocol, Reached
  <2>2. Got(t)' = Append(Got(t), sent) /\ sent' = sent
    BY <1>3, <1>6, PushExtends DEF Notification, Push
  <2>3. n <= Missing(t) \/ n = sent
    BY <1>1, <1>2, <2>1, <2>2 DEF Missing
  <2> QED
    BY <1>1, <1>5, <2>2, <2>3, AppendHas
<1>7. CASE ~Push("library", t)
  <2>1. Has(Got(t), n)
    BY <1>2, <1>3, <1>4, <1>5, <1>7, PendingFacts
  <2>2. CASE Unmoved(t)
    BY <2>1, <2>2 DEF Unmoved
  <2>3. CASE Extended(t)
    <3>1. Got(t)' = Append(Got(t), REMOVED) /\ REMOVED \in Nat
      BY <1>7, <2>3 DEF Extended, Notification, REMOVED
    <3> QED
      BY <1>1, <2>1, <3>1, AppendHas
  <2> QED
    BY <2>2, <2>3, GotFacts DEF Dropped
<1> QED
  BY <1>6, <1>7

LEMMA DeliveryInvariant ==
  Spec => [](Types /\ InHand /\ Protocol /\ InOrder /\ UpToDate /\ Complete)
<1>1. Init => InOrder /\ UpToDate /\ Complete
  <2> SUFFICES ASSUME Init, NEW s \in Stream PROVE Consecutive(Got(s)) /\ ~Looping(s)
    BY DEF InOrder, UpToDate, Complete
  <2>1. ~Looping(s) /\ written[s] = <<>>
    BY ProcessFacts DEF Init, Looping, LoopStep
  <2>2. <<>> \o <<>> = <<>>
    OBVIOUS
  <2>3. Got(s) = <<>>
    BY <2>1, <2>2 DEF Got
  <2> QED
    BY <2>1, <2>3, NothingNotified
<1>2. /\ Types /\ InHand /\ Protocol /\ InOrder /\ UpToDate /\ Complete /\ [Next]_vars
      /\ Types'
      => InOrder' /\ UpToDate' /\ Complete'
  BY NextInOrder, NextUpToDate, NextComplete
<1> QED
  BY <1>1, <1>2, ProtocolInvariant, PTL DEF Spec

(***************************************************************************)
(* The notifications each client reads are consecutive and in order, over  *)
(* any number of streams that come and go, and over the removal of the     *)
(* object and its creation again (server.cpp:414-423, 545-552).            *)
(***************************************************************************)
THEOREM InOrderCorrect == Spec => []InOrder
BY DeliveryInvariant, PTL

(***************************************************************************)
(* As long as no client goes away and the object stays, a stream in its    *)
(* loop has got every notification sent since it subscribed, the one the   *)
(* library is about to deliver aside (server.cpp:416-421, 491-515).        *)
(***************************************************************************)
THEOREM NothingMissedCorrect == Spec => []NothingMissed
<1>1. Types /\ Protocol /\ Complete /\ SubscribersAreCalledBack => NothingMissed
  <2> SUFFICES ASSUME Types, Protocol, Complete, SubscribersAreCalledBack,
                      NEW s \in Stream, Undisturbed, Looping(s), At("library", "idle")
               PROVE  \A n \in (since[s] + 1)..sent : Has(Got(s), n)
    BY DEF NothingMissed
  <2>1. attr = local[s]
    BY DEF SubscribersAreCalledBack
  <2>2. ~Pending(s)
    BY DEF Pending, At, Protocol, Reached
  <2> QED
    BY <2>1, <2>2 DEF Complete, InUse
<1> QED
  BY <1>1, DeliveryInvariant, SubscribersCorrect, PTL
-----------------------------------------------------------------------------
(***************************************************************************)
(* Who drops a notifier, as long as the object is not removed and no call  *)
(* joins a notifier while it is dropped: one stream at a time is in the    *)
(* last block, and it finds the notifier empty only if nobody else is on   *)
(* it, for every stream is on the one that is registered.                  *)
(***************************************************************************)
JoiningStep == {"set", "check", "subscribe"}
OnStep == LoopStep \cup {"cleanup", "size", "unset", "unsetObject", "desubscribe"}
HeldStep == JoiningStep \cup OnStep \cup {"size0", "erase"}

Kept ==
  /\ present /\ pc["remover"] \in {"idle", "remove"}
  /\ \A s \in Stream :
       /\ pc[s] # "toldRemoved"
       /\ pc[s] \in CleanupStep \ {"cleanup"} => map_mtx = s
       /\ pc[s] \in HeldStep => local[s] \in Stream /\ registered = local[s]
       /\ pc[s] \in OnStep => s \in subscribers[local[s]]
       /\ pc[s] = "erase" => subscribers[local[s]] = {} /\ ~Joining(s)

Uncrossed == ~removed /\ ~crossed

LEMMA NextKept ==
  ASSUME Types, Kept, [Next]_vars, Uncrossed, Uncrossed'
  PROVE  Kept'
<1> USE ProcessFacts DEF Types, PcOK, ObjectOK, LocksOK, Go, At, JoiningStep, OnStep, HeldStep,
    LoopStep, CleanupStep, SetupStep, locks, object, notifiers, streams
<1>1. ASSUME NEW s \in Stream, StreamStep(s)
      PROVE  Kept'
  <2>1. /\ \A p \in Process \ {s} : pc'[p] = pc[p] /\ local'[p] = local[p]
    BY <1>1, StreamFrame
  <2>2. present /\ present'
    BY <1>1 DEF Kept, StreamStep, Call, Get, Lookup, SetNotify, CheckOthers, Subscribe, Wake,
       CheckCancelled, LookForKey, WriteFront, CleanUp, CheckLast, LockApi, UnsetNotify,
       Desubscribe, CheckNone, EraseKey
  <2>3. CASE Call(s) \/ Get(s)
    BY <2>1, <2>2, <2>3 DEF Kept, Joining, Call, Get
  <2>4. CASE Lookup(s)
    <3>1. \A r \in Stream : pc[r] # "erase"
      BY <2>4, Zenon DEF Uncrossed, Erasing, Lookup
    <3> QED
      BY <2>1, <2>2, <2>4, <3>1 DEF Kept, Joining, Lookup, NotifierFor
  <2>5. CASE SetNotify(s) \/ CheckOthers(s)
    BY <2>1, <2>2, <2>5 DEF Kept, Joining, SetNotify, CheckOthers
  <2>6. CASE Subscribe(s)
    BY <2>1, <2>2, <2>6 DEF Kept, Joining, Subscribe
  <2>7. CASE Wake(s) \/ CheckCancelled(s) \/ LookForKey(s) \/ WriteFront(s)
    BY <2>1, <2>2, <2>7 DEF Kept, Joining, Wake, CheckCancelled, LookForKey, WriteFront
  <2>8. CASE CleanUp(s) \/ CheckLast(s) \/ LockApi(s) \/ UnsetNotify(s)
    BY <2>1, <2>2, <2>8 DEF Kept, Joining, CleanUp, CheckLast, LockApi, UnsetNotify
  <2>9. CASE Desubscribe(s)
    BY <2>1, <2>2, <2>9 DEF Kept, Joining, Desubscribe, Remaining
  <2>10. CASE CheckNone(s)
    <3>1. pc[s] = "size0" /\ UNCHANGED <<local, registered, subscribers>>
      BY <2>10 DEF CheckNone
    <3>2. \/ pc'[s] = "erase" /\ subscribers[local[s]] = {} /\ UNCHANGED map_mtx
          \/ pc'[s] = "ended" /\ map_mtx' = None
      BY <2>10 DEF CheckNone, IsEmpty
    <3>3. pc'[s] = "erase" => ~Joining(s)
      BY <2>10, <3>2, Zenon DEF CheckNone, IsEmpty, Uncrossed
    <3>4. \A r \in Stream \ {s} : pc[r] \notin CleanupStep \ {"cleanup"}
      BY <3>1 DEF Kept
    <3> QED
      BY <2>1, <2>2, <3>1, <3>2, <3>3, <3>4 DEF Kept, Joining
  <2>11. CASE EraseKey(s)
    BY <2>1, <2>2, <2>11 DEF Kept, Joining, EraseKey
  <2> QED
    BY <1>1, <2>3, <2>4, <2>5, <2>6, <2>7, <2>8, <2>9, <2>10, <2>11 DEF StreamStep
<1>2. ASSUME \A s \in Stream : pc'[s] = pc[s] /\ local'[s] = local[s],
             pc'["remover"] \in {"idle", "remove"},
             UNCHANGED <<present, map_mtx, registered, subscribers>>
      PROVE  Kept'
  BY <1>2 DEF Kept, Joining
<1>3. ASSUME NEW p \in {"library", "remover"}, NotifierStep(p)
      PROVE  Kept'
  <2>1. p = "library"
    BY <1>3 DEF Kept, NotifierStep, Notify, Push
  <2>2. UNCHANGED <<present, map_mtx, registered, subscribers>>
    BY <1>3 DEF NotifierStep, Notify, Push
  <2>3. pc'["remover"] = pc["remover"]
    BY <1>3, <2>1, NotifierFrame
  <2>4. \A s \in Stream : pc'[s] = pc[s] /\ local'[s] = local[s]
    BY <1>3, NotifierFrame
  <2> QED
    BY <1>2, <2>2, <2>3, <2>4 DEF Kept
<1>4. CASE LibraryNotify \/ LibraryDone
  <2>1. UNCHANGED <<present, map_mtx, registered, subscribers>>
    BY <1>4 DEF LibraryNotify, LibraryDone
  <2>2. pc'["remover"] = pc["remover"]
    BY <1>4 DEF LibraryNotify, LibraryDone
  <2>3. \A s \in Stream : pc'[s] = pc[s] /\ local'[s] = local[s]
    BY <1>4 DEF LibraryNotify, LibraryDone
  <2> QED
    BY <1>2, <2>1, <2>2, <2>3 DEF Kept
<1>5. CASE Remove \/ RemoveObject \/ ForgetNotifier \/ RemoveDone \/ Create
  <2>1. Remove
    BY <1>5 DEF Kept, Uncrossed, RemoveObject, ForgetNotifier, RemoveDone, Create
  <2> QED
    BY <1>2, <2>1 DEF Kept, Remove
<1>6. CASE (\E s \in Stream : Cancel(s)) \/ UNCHANGED vars
  BY <1>2, <1>6 DEF Kept, Cancel, vars
<1> QED
  BY <1>1, <1>3, <1>4, <1>5, <1>6 DEF Next, LibraryStep, RemoverStep

(* What was removed or crossed stays so.                                   *)
LEMMA StaysCrossed ==
  ASSUME [Next]_vars, Uncrossed'
  PROVE  Uncrossed
<1> USE DEF Uncrossed, object, streams
<1>1. ASSUME NEW s \in Stream, StreamStep(s)
      PROVE  UNCHANGED removed /\ (UNCHANGED crossed \/ \E b : crossed' = (crossed \/ b))
  BY <1>1, Zenon DEF StreamStep, Call, Get, Lookup, SetNotify, CheckOthers, Subscribe, Wake,
     CheckCancelled, LookForKey, WriteFront, CleanUp, CheckLast, LockApi, UnsetNotify,
     Desubscribe, CheckNone, EraseKey
<1>2. ASSUME NEW p \in {"library", "remover"}, NotifierStep(p)
      PROVE  UNCHANGED <<crossed, removed>>
  BY <1>2 DEF NotifierStep, Notify, Push
<1>3. CASE LibraryNotify \/ LibraryDone
  BY <1>3 DEF LibraryNotify, LibraryDone
<1>4. CASE Remove \/ RemoveObject \/ ForgetNotifier \/ RemoveDone \/ Create
  BY <1>4 DEF Remove, RemoveObject, ForgetNotifier, RemoveDone, Create
<1>5. CASE (\E s \in Stream : Cancel(s)) \/ UNCHANGED vars
  BY <1>5 DEF Cancel, vars
<1> QED
  BY <1>1, <1>2, <1>3, <1>4, <1>5 DEF Next, LibraryStep, RemoverStep

(***************************************************************************)
(* For any number of streams that overlap, are cancelled and ended by a    *)
(* removal: one is told that the object is removed only if it was, or a    *)
(* notifier was dropped while a call was joining it (server.cpp:491-515,   *)
(* 535-537, 592-593).                                                      *)
(***************************************************************************)
THEOREM ToldCorrect == Spec => []ToldRemovedOnlyIfRemoved
<1> DEFINE Inv == Uncrossed => Kept
<1>1. Init => Inv
  <2> SUFFICES ASSUME Init PROVE Kept
    OBVIOUS
  <2> QED
    BY ProcessFacts DEF Init, Kept, CleanupStep, JoiningStep, LoopStep, OnStep, HeldStep
<1>2. Types /\ Inv /\ [Next]_vars => Inv'
  BY NextKept, StaysCrossed
<1>3. Inv => ToldRemovedOnlyIfRemoved
  BY DEF Kept, Uncrossed, ToldRemovedOnlyIfRemoved
<1> HIDE DEF Inv
<1> QED
  BY <1>1, <1>2, <1>3, TypesInvariant, PTL DEF Spec
=============================================================================
