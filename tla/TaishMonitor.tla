---------------------------- MODULE TaishMonitor ----------------------------
(***************************************************************************)
(* The notification streams of the taish gRPC server                       *)
(* (tools/taish/lib/server.cpp, tools/taish/include/taigrpc.hpp): the      *)
(* Monitor() calls on one notification attribute of one object, the thread *)
(* of the TAI library that notifies, and a Remove() call on that object.   *)
(* Each runs on a thread of its own; five kinds of mutex order them.       *)
(*                                                                         *)
(* A step is what a thread does between two lock operations.  A critical   *)
(* section that takes no other lock is one step, enabled while its mutex   *)
(* is free.  The find-then-insert of get_notifier(), which takes no lock   *)
(* (m_notifiers_mtx is not held there), is taken as one step too.          *)
(*                                                                         *)
(* A TAINotifier is named after the call that allocated it.                *)
(***************************************************************************)
EXTENDS Naturals, Sequences, FiniteSets

CONSTANTS
  Stream,      \* the Monitor() calls, each made once
  Cancelling,  \* those whose client may go away
  MaxOpen,     \* how many of them are under way at a time
  Removable,   \* the object may be removed, and created again
  MaxNotify,   \* bound on the notifications of the library
  None

ASSUME StreamAssumption ==
  /\ IsFiniteSet(Stream)
  /\ Cancelling \subseteq Stream
  /\ MaxOpen \in Nat
  /\ Removable \in BOOLEAN
  /\ MaxNotify \in Nat
  /\ None \notin Stream \cup {"library", "remover"}
  /\ {"library", "remover"} \cap Stream = {}

Process == Stream \cup {"library", "remover"}

VARIABLES
  pc,             \* where each process is
  api_mtx,        \* holder of TAIServiceImpl::m_mtx
  map_mtx,        \* holder of m_notifiers_mtx
  object_mtx,     \* holder of the mutex of the object in the library
  notifier_mtx,   \* holder of the mutex of each TAINotifier
  stream_mtx,     \* holder of the mutex of each tai_subscription_t
  present,        \* the object exists in the library
  attr,           \* the context of its NOTIFY attribute, None when it is null
  registered,     \* the entry of m_notifiers for this object and attribute
  subscribers,    \* the map m of each TAINotifier
  q,              \* the queue of each tai_subscription_t
  local,          \* the TAINotifier a process works with
  todo,           \* the subscribers notify() has still to reach
  cancelled,      \* the streams whose client is gone
  sent,           \* the notifications of the library so far
  written,        \* history: what each stream has written to its client
  since,          \* history: the last notification sent when a stream subscribed
  crossed,        \* history: a notifier was dropped while a call was joining it
  removed         \* history: the object has been removed once

locks == <<api_mtx, map_mtx, object_mtx, notifier_mtx, stream_mtx>>
object == <<present, attr, removed>>
notifiers == <<registered, subscribers>>
streams == <<q, cancelled, written, since, crossed>>
vars == <<pc, locks, object, notifiers, streams, local, todo, sent>>

REMOVED == 0     \* the empty notification that signals the deletion

SetupStep == {"get", "lookup", "set", "check", "subscribe"}
LoopStep == {"wait", "woken", "look", "write"}
CleanupStep == {"cleanup", "size", "unset", "unsetObject", "desubscribe", "size0", "erase"}
EndStep == {"ended", "toldRemoved", "refused", "failed"}
NotifyStep == {"notify", "push"}

Step ==
  {"call", "idle", "remove", "forget", "done"}
    \cup SetupStep \cup LoopStep \cup CleanupStep \cup EndStep \cup NotifyStep

StepOf(p) ==
  CASE p = "library" -> {"idle"} \cup NotifyStep
    [] p = "remover" -> {"idle", "remove", "forget", "done"} \cup NotifyStep
    [] OTHER -> {"call"} \cup SetupStep \cup LoopStep \cup CleanupStep \cup EndStep

TypeOK ==
  /\ pc \in [Process -> Step] /\ \A p \in Process : pc[p] \in StepOf(p)
  /\ {api_mtx, map_mtx, object_mtx} \subseteq Process \cup {None}
  /\ notifier_mtx \in [Stream -> Process \cup {None}]
  /\ stream_mtx \in [Stream -> Process \cup {None}]
  /\ present \in BOOLEAN
  /\ {attr, registered} \subseteq Stream \cup {None}
  /\ subscribers \in [Stream -> SUBSET Stream]
  /\ {q, written} \subseteq [Stream -> Seq(0..MaxNotify)]
  /\ local \in [Process -> Stream \cup {None}]
  /\ todo \in [Process -> SUBSET Stream]
  /\ cancelled \subseteq Cancelling
  /\ sent \in 0..MaxNotify
  /\ since \in [Stream -> 0..MaxNotify]
  /\ {removed, crossed} \subseteq BOOLEAN

Init ==
  /\ pc = [p \in Process |-> IF p \in Stream THEN "call" ELSE "idle"]
  /\ api_mtx = None /\ map_mtx = None /\ object_mtx = None
  /\ notifier_mtx = [n \in Stream |-> None]
  /\ stream_mtx = [s \in Stream |-> None]
  /\ present = TRUE
  /\ attr = None
  /\ registered = None
  /\ subscribers = [n \in Stream |-> {}]
  /\ q = [s \in Stream |-> <<>>]
  /\ local = [p \in Process |-> None]
  /\ todo = [p \in Process |-> {}]
  /\ cancelled = {}
  /\ sent = 0
  /\ written = [s \in Stream |-> <<>>]
  /\ since = [s \in Stream |-> 0]
  /\ removed = FALSE
  /\ crossed = FALSE

At(p, step) == pc[p] = step
Go(p, step) == pc' = [pc EXCEPT ![p] = step]

-----------------------------------------------------------------------------
(***************************************************************************)
(* Monitor(), first block: under m_mtx the NOTIFY attribute is read, the   *)
(* notifier looked up, the callback installed if there is none, and the    *)
(* stream subscribed.                                                      *)
(***************************************************************************)
Open == {s \in Stream : pc[s] \notin {"call"} \cup EndStep}

Call(s) ==
  /\ At(s, "call")
  /\ Cardinality(Open) < MaxOpen
  /\ api_mtx = None
  /\ api_mtx' = s
  /\ Go(s, "get")
  /\ UNCHANGED <<map_mtx, object_mtx, notifier_mtx, stream_mtx, object,
                 notifiers, streams, local, todo, sent>>

Get(s) ==
  /\ At(s, "get")
  /\ object_mtx = None
  /\ IF present
     THEN Go(s, "lookup") /\ UNCHANGED api_mtx
     ELSE Go(s, "failed") /\ api_mtx' = None
  /\ UNCHANGED <<map_mtx, object_mtx, notifier_mtx, stream_mtx, object,
                 notifiers, streams, local, todo, sent>>

(* get_notifier().                                                         *)
NotifierFor(s) == IF registered = None THEN s ELSE registered

(* Whether a stream that ends is about to erase the entry found here: this  *)
(* block does not hold m_notifiers_mtx.                                     *)
Erasing == \E t \in Stream : At(t, "erase")

(* Mutant of Lookup: each stream makes a notifier of its own, and installs *)
(* it.                                                                     *)
LookupAndReplace(s) ==
  /\ At(s, "lookup")
  /\ registered' = s
  /\ local' = [local EXCEPT ![s] = s]
  /\ crossed' = (crossed \/ Erasing)
  /\ Go(s, "set")
  /\ UNCHANGED <<locks, object, subscribers, q, cancelled, written, since, todo, sent>>

Lookup(s) ==
  /\ At(s, "lookup")
  /\ registered' = NotifierFor(s)
  /\ local' = [local EXCEPT ![s] = registered']
  /\ crossed' = (crossed \/ Erasing)
  /\ Go(s, IF attr = None THEN "set" ELSE "check")
  /\ UNCHANGED <<locks, object, subscribers, q, cancelled, written, since, todo, sent>>

SetNotify(s) ==
  /\ At(s, "set")
  /\ object_mtx = None
  /\ attr' = local[s]
  /\ Go(s, "subscribe")
  /\ UNCHANGED <<locks, present, removed, notifiers, streams, local, todo, sent>>

CheckOthers(s) ==
  /\ At(s, "check")
  /\ notifier_mtx[local[s]] = None
  /\ IF subscribers[local[s]] = {}
     THEN Go(s, "refused") /\ api_mtx' = None
     ELSE Go(s, "subscribe") /\ UNCHANGED api_mtx
  /\ UNCHANGED <<map_mtx, object_mtx, notifier_mtx, stream_mtx, object,
                 notifiers, streams, local, todo, sent>>

Subscribe(s) ==
  /\ At(s, "subscribe")
  /\ notifier_mtx[local[s]] = None
  /\ subscribers' = [subscribers EXCEPT ![local[s]] = @ \cup {s}]
  /\ since' = [since EXCEPT ![s] = sent]
  /\ api_mtx' = None
  /\ Go(s, "wait")
  /\ UNCHANGED <<map_mtx, object_mtx, notifier_mtx, stream_mtx, object,
                 registered, q, cancelled, written, crossed, local, todo, sent>>

-----------------------------------------------------------------------------
(***************************************************************************)
(* Monitor(), the loop: s.mtx is held throughout, except inside wait_for,  *)
(* which ends after a second or with a notification in the queue.          *)
(***************************************************************************)
(* Mutant of Wake: no timeout, and the predicate is inverted.              *)
WakeIfEmpty(s) ==
  /\ At(s, "wait")
  /\ q[s] = <<>>
  /\ stream_mtx[s] = None
  /\ stream_mtx' = [stream_mtx EXCEPT ![s] = s]
  /\ Go(s, "woken")
  /\ UNCHANGED <<api_mtx, map_mtx, object_mtx, notifier_mtx, object,
                 notifiers, streams, local, todo, sent>>

Wake(s) ==
  /\ At(s, "wait")
  /\ stream_mtx[s] = None
  /\ stream_mtx' = [stream_mtx EXCEPT ![s] = s]
  /\ Go(s, "woken")
  /\ UNCHANGED <<api_mtx, map_mtx, object_mtx, notifier_mtx, object,
                 notifiers, streams, local, todo, sent>>

(* Mutant: only a failed write ends the loop.                              *)
NeverCancelled(s) == FALSE

IsCancelled(s) == s \in cancelled

CheckCancelled(s) ==
  /\ At(s, "woken")
  /\ IF IsCancelled(s)
     THEN Go(s, "cleanup") /\ stream_mtx' = [stream_mtx EXCEPT ![s] = None]
     ELSE Go(s, "look") /\ UNCHANGED stream_mtx
  /\ UNCHANGED <<api_mtx, map_mtx, object_mtx, notifier_mtx, object,
                 notifiers, streams, local, todo, sent>>

(* Under m_notifiers_mtx.  The key is looked for, not the notifier.  A     *)
(* stream that does not find it returns at once: it stays subscribed.      *)
LookForKey(s) ==
  /\ At(s, "look")
  /\ map_mtx = None
  /\ IF registered # None /\ q[s] # <<>>
     THEN Go(s, "write") /\ UNCHANGED stream_mtx
     ELSE /\ Go(s, IF registered = None THEN "toldRemoved" ELSE "wait")
          /\ stream_mtx' = [stream_mtx EXCEPT ![s] = None]
  /\ UNCHANGED <<api_mtx, map_mtx, object_mtx, notifier_mtx, object,
                 notifiers, streams, local, todo, sent>>

(* Write() fails when the client is gone.  With more in the queue wait_for *)
(* returns without having waited, and without having released the mutex.   *)
WriteFront(s) ==
  /\ At(s, "write")
  /\ q' = [q EXCEPT ![s] = Tail(@)]
  /\ IF s \in cancelled
     THEN /\ Go(s, "cleanup")
          /\ stream_mtx' = [stream_mtx EXCEPT ![s] = None]
          /\ UNCHANGED written
     ELSE /\ written' = [written EXCEPT ![s] = Append(@, Head(q[s]))]
          /\ IF q'[s] # <<>>
             THEN Go(s, "woken") /\ UNCHANGED stream_mtx
             ELSE Go(s, "wait") /\ stream_mtx' = [stream_mtx EXCEPT ![s] = None]
  /\ UNCHANGED <<api_mtx, map_mtx, object_mtx, notifier_mtx, object,
                 notifiers, cancelled, since, crossed, local, todo, sent>>

-----------------------------------------------------------------------------
(***************************************************************************)
(* Monitor(), last block, under m_notifiers_mtx: the last subscriber takes *)
(* the callback out of the object, under m_mtx; then the stream            *)
(* unsubscribes, and a notifier without subscribers is dropped.            *)
(***************************************************************************)
CleanUp(s) ==
  /\ At(s, "cleanup")
  /\ map_mtx = None
  /\ map_mtx' = s
  /\ Go(s, "size")
  /\ UNCHANGED <<api_mtx, object_mtx, notifier_mtx, stream_mtx, object,
                 notifiers, streams, local, todo, sent>>

(* size() == 0 and size() == 1.  Mutants: the one for the other; and a     *)
(* notifier with one subscriber left passes for empty.                     *)
AtMostOne(s) == Cardinality(subscribers[local[s]]) <= 1

IsEmpty(s) == subscribers[local[s]] = {}

IsLast(s) == Cardinality(subscribers[local[s]]) = 1

CheckLast(s) ==
  /\ At(s, "size")
  /\ notifier_mtx[local[s]] = None
  /\ Go(s, IF IsLast(s) THEN "unset" ELSE "desubscribe")
  /\ UNCHANGED <<locks, object, notifiers, streams, local, todo, sent>>

LockApi(s) ==
  /\ At(s, "unset")
  /\ api_mtx = None
  /\ api_mtx' = s
  /\ Go(s, "unsetObject")
  /\ UNCHANGED <<map_mtx, object_mtx, notifier_mtx, stream_mtx, object,
                 notifiers, streams, local, todo, sent>>

(* The attribute the last stream stores.                                   *)
NullContext == None

(* An object that is gone refuses: the stream returns, still subscribed.   *)
UnsetNotify(s) ==
  /\ At(s, "unsetObject")
  /\ object_mtx = None
  /\ api_mtx' = None
  /\ IF present
     THEN attr' = NullContext /\ Go(s, "desubscribe") /\ UNCHANGED map_mtx
     ELSE map_mtx' = None /\ Go(s, "failed") /\ UNCHANGED attr
  /\ UNCHANGED <<object_mtx, notifier_mtx, stream_mtx, present, removed,
                 notifiers, streams, local, todo, sent>>

(* Mutant: erase() with the wrong key.                                     *)
StillSubscribed(s) == subscribers[local[s]]

Remaining(s) == subscribers[local[s]] \ {s}

Desubscribe(s) ==
  /\ At(s, "desubscribe")
  /\ notifier_mtx[local[s]] = None
  /\ subscribers' = [subscribers EXCEPT ![local[s]] = Remaining(s)]
  /\ Go(s, "size0")
  /\ UNCHANGED <<locks, object, registered, streams, local, todo, sent>>

(* Whether a call has looked the same notifier up and not yet subscribed.  *)
Joining(s) ==
  \E t \in Stream : pc[t] \in {"set", "check", "subscribe"} /\ local[t] = local[s]

CheckNone(s) ==
  /\ At(s, "size0")
  /\ notifier_mtx[local[s]] = None
  /\ IF IsEmpty(s)
     THEN Go(s, "erase") /\ crossed' = (crossed \/ Joining(s)) /\ UNCHANGED map_mtx
     ELSE Go(s, "ended") /\ map_mtx' = None /\ UNCHANGED crossed
  /\ UNCHANGED <<api_mtx, object_mtx, notifier_mtx, stream_mtx, object,
                 notifiers, q, cancelled, written, since, local, todo, sent>>

(* Mutant of EraseKey: the notifier stays in the map.                      *)
EraseNothing(s) ==
  /\ At(s, "erase")
  /\ map_mtx' = None
  /\ Go(s, "ended")
  /\ UNCHANGED <<api_mtx, object_mtx, notifier_mtx, stream_mtx, object,
                 notifiers, streams, local, todo, sent>>

EraseKey(s) ==
  /\ At(s, "erase")
  /\ registered' = None
  /\ map_mtx' = None
  /\ Go(s, "ended")
  /\ UNCHANGED <<api_mtx, object_mtx, notifier_mtx, stream_mtx, object,
                 subscribers, streams, local, todo, sent>>

(* The client goes away, at any time.                                      *)
Cancel(s) ==
  /\ s \in (Cancelling \cap Open) \ cancelled
  /\ cancelled' = cancelled \cup {s}
  /\ UNCHANGED <<pc, locks, object, notifiers, q, written, since, crossed, local,
                 todo, sent>>

-----------------------------------------------------------------------------
(***************************************************************************)
(* TAINotifier::notify(), by the library's thread or by Remove(): under    *)
(* the notifier's mutex, each subscriber's queue is filled under its own.  *)
(***************************************************************************)
Notify(p) ==
  /\ At(p, "notify")
  /\ notifier_mtx[local[p]] = None
  /\ notifier_mtx' = [notifier_mtx EXCEPT ![local[p]] = p]
  /\ todo' = [todo EXCEPT ![p] = subscribers[local[p]]]
  /\ Go(p, "push")
  /\ UNCHANGED <<api_mtx, map_mtx, object_mtx, stream_mtx, object, notifiers,
                 streams, local, sent>>

(* Mutant of Notification: the counter is read too late.                   *)
NextNotification(p) == IF p = "remover" THEN REMOVED ELSE sent + 1

Notification(p) == IF p = "remover" THEN REMOVED ELSE sent

(* The queue after push(); mutants: the newest goes first; a subscriber    *)
(* that has something to read gets nothing more.                           *)
PushedFirst(p, s) == <<Notification(p)>> \o q[s]

PushedIfEmpty(p, s) == IF q[s] = <<>> THEN <<Notification(p)>> ELSE q[s]

Pushed(p, s) == Append(q[s], Notification(p))

Push(p, s) ==
  /\ At(p, "push")
  /\ s \in todo[p]
  /\ stream_mtx[s] = None
  /\ q' = [q EXCEPT ![s] = Pushed(p, s)]
  /\ todo' = [todo EXCEPT ![p] = @ \ {s}]
  /\ UNCHANGED <<pc, locks, object, notifiers, cancelled, written, since, crossed,
                 local, sent>>

-----------------------------------------------------------------------------
(***************************************************************************)
(* The library's thread, Object::notify(): the object's mutex is held      *)
(* while the callback runs.  Without a callback nothing is sent.           *)
(***************************************************************************)
LibraryNotify ==
  /\ At("library", "idle")
  /\ present
  /\ object_mtx = None
  /\ attr # None
  /\ sent < MaxNotify
  /\ object_mtx' = "library"
  /\ sent' = sent + 1
  /\ local' = [local EXCEPT !["library"] = attr]
  /\ Go("library", "notify")
  /\ UNCHANGED <<api_mtx, map_mtx, notifier_mtx, stream_mtx, object,
                 notifiers, streams, todo>>

LibraryDone ==
  /\ At("library", "push")
  /\ todo["library"] = {}
  /\ notifier_mtx' = [notifier_mtx EXCEPT ![local["library"]] = None]
  /\ object_mtx' = None
  /\ local' = [local EXCEPT !["library"] = None]
  /\ Go("library", "idle")
  /\ UNCHANGED <<api_mtx, map_mtx, stream_mtx, object, notifiers, streams,
                 todo, sent>>

-----------------------------------------------------------------------------
(***************************************************************************)
(* Remove(): under m_mtx the library removes the object, which waits for   *)
(* the thread that notifies; then, under m_notifiers_mtx, the notifier is  *)
(* dropped and its subscribers are signalled.                              *)
(***************************************************************************)
Remove ==
  /\ Removable
  /\ At("remover", "idle")
  /\ api_mtx = None
  /\ api_mtx' = "remover"
  /\ Go("remover", "remove")
  /\ UNCHANGED <<map_mtx, object_mtx, notifier_mtx, stream_mtx, object,
                 notifiers, streams, local, todo, sent>>

RemoveObject ==
  /\ At("remover", "remove")
  /\ At("library", "idle")
  /\ present' = FALSE
  /\ attr' = None
  /\ removed' = TRUE
  /\ api_mtx' = None
  /\ Go("remover", "forget")
  /\ UNCHANGED <<map_mtx, object_mtx, notifier_mtx, stream_mtx, notifiers,
                 streams, local, todo, sent>>

ForgetNotifier ==
  /\ At("remover", "forget")
  /\ map_mtx = None
  /\ IF registered = None
     THEN Go("remover", "done") /\ UNCHANGED <<map_mtx, registered, local>>
     ELSE /\ map_mtx' = "remover"
          /\ local' = [local EXCEPT !["remover"] = registered]
          /\ registered' = None
          /\ Go("remover", "notify")
  /\ UNCHANGED <<api_mtx, object_mtx, notifier_mtx, stream_mtx, object,
                 subscribers, streams, todo, sent>>

RemoveDone ==
  /\ At("remover", "push")
  /\ todo["remover"] = {}
  /\ notifier_mtx' = [notifier_mtx EXCEPT ![local["remover"]] = None]
  /\ map_mtx' = None
  /\ local' = [local EXCEPT !["remover"] = None]
  /\ Go("remover", "done")
  /\ UNCHANGED <<api_mtx, object_mtx, stream_mtx, object, notifiers, streams,
                 todo, sent>>

(***************************************************************************)
(* Create() of the object again, which has the same object id.             *)
(***************************************************************************)
Create ==
  /\ ~present
  /\ api_mtx = None
  /\ present' = TRUE
  /\ UNCHANGED <<pc, locks, attr, removed, notifiers, streams, local, todo, sent>>

-----------------------------------------------------------------------------
StreamStep(s) ==
  \/ Call(s) \/ Get(s) \/ Lookup(s) \/ SetNotify(s) \/ CheckOthers(s) \/ Subscribe(s)
  \/ Wake(s) \/ CheckCancelled(s) \/ LookForKey(s) \/ WriteFront(s)
  \/ CleanUp(s) \/ CheckLast(s) \/ LockApi(s) \/ UnsetNotify(s) \/ Desubscribe(s)
  \/ CheckNone(s) \/ EraseKey(s)

NotifierStep(p) == Notify(p) \/ \E s \in Stream : Push(p, s)

LibraryStep == NotifierStep("library") \/ LibraryDone

RemoverStep == NotifierStep("remover") \/ RemoveObject \/ ForgetNotifier \/ RemoveDone

Next ==
  \/ \E s \in Stream : StreamStep(s) \/ Cancel(s)
  \/ LibraryNotify \/ LibraryStep
  \/ Remove \/ RemoverStep \/ Create

Spec == Init /\ [][Next]_vars

(***************************************************************************)
(* Every thread that can run does, and one that waits for a mutex gets it  *)
(* if it is free again and again; a client reads what is written to it.    *)
(* The library need not notify, nobody need cancel or remove.              *)
(***************************************************************************)
FairSpec ==
  /\ Spec
  /\ \A s \in Stream : SF_vars(StreamStep(s))
  /\ SF_vars(LibraryStep)
  /\ SF_vars(RemoverStep)
-----------------------------------------------------------------------------
Looping(s) == pc[s] \in LoopStep

(* The shared_ptr's to a TAINotifier: m_notifiers, and the locals.         *)
Alive(n) ==
  \/ registered = n
  \/ \E s \in Open : local[s] = n
  \/ local["remover"] = n

(* What a stream got so far.  What is in the queue when the loop ends is   *)
(* lost with it.                                                           *)
Got(s) == written[s] \o (IF Looping(s) THEN q[s] ELSE <<>>)

(* The notifications of the library in it, the signal of a deletion aside: *)
(* each is one more than the one before; and whether n is among them.      *)
Notified(u) == {i \in 1..Len(u) : u[i] # REMOVED}

Consecutive(u) ==
  \A i, j \in Notified(u) :
    i < j /\ (\A k \in Notified(u) : k <= i \/ k >= j) => u[j] = u[i] + 1

Has(u, n) == \E i \in 1..Len(u) : u[i] = n

(* The callback's context, a raw pointer stored in the library             *)
(* (server.cpp:494-495), is a notifier that still exists: the last stream  *)
(* takes it out before it lets go of the notifier.                         *)
ContextIsAlive == attr # None => Alive(attr)

(* notify() reaches only subscriptions whose Monitor() call is running: a  *)
(* tai_subscription_t lives on the stack of that call (server.cpp:451).    *)
ReachesLiveStreams ==
  \A p \in {"library", "remover"} : \A s \in todo[p] : pc[s] \notin EndStep

(* As long as no client has gone away and the object is not removed.       *)
Undisturbed == cancelled = {} /\ ~removed

(* While a stream is in its loop, the object's callback leads to the       *)
(* notifier it is subscribed to: whoever set it (server.cpp:491-515).      *)
SubscribersAreCalledBack ==
  \A s \in Stream : Undisturbed /\ Looping(s) => attr = local[s]

(* And it has got every notification sent since it subscribed, those it    *)
(* has written and those in its queue (server.cpp:416-421).                *)
NothingMissed ==
  \A s \in Stream :
    Undisturbed /\ Looping(s) /\ At("library", "idle") =>
      \A n \in (since[s] + 1)..sent : Has(Got(s), n)

(* The notifications of a stream are consecutive and in order, over any    *)
(* number of other streams that come and go, and over the removal of the   *)
(* object and its creation again.                                          *)
InOrder == \A s \in Stream : Consecutive(Got(s))

(* Whatever streams overlap and are cancelled, one ends with "object is    *)
(* removed" (server.cpp:535-537) only if the object has been removed, or a *)
(* notifier was found empty and erased (592-593) while a call had looked   *)
(* it up and not yet subscribed (491-515), for which no mutex is held: the *)
(* last of the streams on a notifier, and no other, takes it away.         *)
ToldRemovedOnlyIfRemoved ==
  \A s \in Stream : pc[s] = "toldRemoved" => removed \/ crossed

(* When all streams have ended neither a callback nor a notifier is left.  *)
NothingLeftBehind ==
  (\A s \in Stream : pc[s] \in EndStep) => attr = None /\ registered = None

-----------------------------------------------------------------------------
(* What is queued for a stream is written to its client, unless the client *)
(* goes away.                                                              *)
QueuesDrain ==
  \A s \in Stream : q[s] # <<>> ~> q[s] = <<>> \/ s \in cancelled

(* A stream whose client went away ends (server.cpp:530-532, 562-596).     *)
CancelEnds == \A s \in Stream : s \in cancelled ~> pc[s] \in EndStep

(* Remove() signals the deletion (server.cpp:735) to the streams on the    *)
(* object: each of them ends.                                              *)
RemovalEndsStreams ==
  \A s \in Stream : (At("remover", "forget") /\ Looping(s)) ~> pc[s] \in EndStep
=============================================================================
