# A TLA+ model of OOPT-TAI

TAI (Transponder Abstraction Interface) is a C API between a network operating system
and the library of an optical module. This repository holds the API headers, a C++
framework to write such libraries with, example adapters, a stub library, metadata and
serialization helpers, and `taish`, a gRPC server and shell in front of any TAI library.
This directory models the parts whose correctness depends on order: threads, queues,
locks and partial failures.

## 1. Inventory

| Component | State | Operations | Interacts with |
|---|---|---|---|
| Framework FSM, `tools/framework/fsm.hpp` | request queue, eventfd, current/next state, thread | `start`, `transit`, `next_state`, `loop`, `shutdown` | API thread writes requests, FSM thread runs the adapter's callbacks |
| Basic adapter, `examples/basic/basic.cpp` | `m_module`, `m_netif`, `m_hostif[]`, `m_no_transit` | state callbacks, `set_*`/`remove_*` of module, netif, hostif, `_state_change_cb` | polls the FSM's state, notifies through the object |
| Framework object, `object.hpp` | mutex, `Config`, FSM pointer | `set/clear/get_attributes`, `_transit`, `notify` | holds its mutex over `Config` and over the user's callback |
| Attribute store, `config.hpp` | `m_config` under `m_mtx` | constructor, `set_attributes`, `clear_attributes`, `set_readonly`, `direct_set`, gets | API thread and FSM thread |
| Object registry, `Platform` in `basic.cpp` | `m_objects`, `m_fsms` | `create`, `remove` | builds objects, starts FSMs |
| taish notification streams, `taish/lib/server.cpp` | `m_notifiers`, `TAINotifier`, `tai_subscription_t`, the NOTIFY attribute in the library | `Monitor`, `Remove`, `Create`, `monitor_callback` | one gRPC thread per call, the library's thread |
| taish attribute calls, `taish/lib/server.cpp`, `tools/lib/attribute.hpp` | the reader's buffer, tries left; the value in the library | `GetAttribute`, `SetAttribute`, `ClearAttribute`, three tries of a read | one mutex around the library, taken anew for every try |
| taish module presence, `server/main.cpp` | `g_modules`, presence queue `q`, eventfd, mutex `m` | main loop, `module_presence`, creation of a module and its interfaces, `object_update`, `list_module`, signal handler | library thread, gRPC threads, signals, the library |
| Metadata utilities, `meta/taimetadatautils.c` | attribute memory: count and room of a list | allocate, deep copy, compare | BUFFER_OVERFLOW protocol with library and reader |
| Parsers of lists, `meta/taiserialize.c` | the buffer a text is read into | deserialize lists, enum lists, characters, attribute lists, object maps | the same protocol, with the texts clients send |
| Stub library, `stub/stub_tai.c` | tables of modules and interfaces | create/remove/get/set | sequential |
| Other serialization, client, generator, headers, vendored JSON, tests | - | formatting, parsing, declarations | - |

What is hard here: the FSM thread and the API thread share the state, the module
pointers and the configuration mostly without locks; removals poll; the timer decides on
data it reads piece by piece; `set_attributes()` is two passes with a gap and three ways
to fail; the streams of the server involve five kinds of mutex taken in several orders,
and a raw pointer that the library keeps. `PROJECT.json` lists each such hazard at its
line, with the properties that would catch it.

What makes each component correct:

- FSM: an event for every queued request; nothing queued behind END; bounded queue.
- Adapter: the thread never uses a module that was dropped, ends only for a removal;
  OPER_STATUS and what subscribers were told agree with the state; the removals return;
  a configured module becomes READY, an unconfigured one does not stay so.
- Attribute store: a successful call stores the whole list, a failed one nothing from
  the fault on; READ_ONLY attributes belong to the adapter; the state asked for is the
  lowest; the index in a status is that of the list.
- Streams: notifications complete and in order; no callback into freed memory; the
  callback is removed with the last stream; every stream can end.
- Registry: an object id and a location name at most one object; a failed creation
  leaves nothing behind; the destructor takes every module down.
- Presence: no event lost, one TAI call at a time, the list of modules tells what the
  library has, the server does not end by itself.
- Attribute calls: a read returns a value that was stored, whole; a set text is stored
  as the parser takes it; no copy runs over its buffer; three tries are enough unless
  the value keeps changing.

## 2. Plan

Done, in this order:

1. `FrameworkFsm`, `BasicModule`, `ModuleLifecycle`, with `BasicModule_proofs`.
2. `TaishMonitor`, with `TaishMonitor_proofs`.
3. `ConfigStore`, with `ConfigStore_proofs`.
4. `Registry`, `ObjectTree`, with `Registry_proofs`.
5. `TaishServer`, with `TaishServer_proofs`.
6. `AttributeValue`, `AttributeCalls`, with `AttributeCalls_proofs`.

What remains: `get_attributes()` of lists of attributes and the default values of
`Config`, its capabilities, the alarm cache of `notify_alarm()`. A module for the stub
library was planned and dropped, see section 7.

## 3. Modules

**`FrameworkFsm`** is `fsm.hpp`. `thread` is the place of the FSM thread in `loop()` and
the callbacks; `current_state`, `next_state`, `queue` and `events` are
`m_current_state`, `m_next_state`, `m_queue` and the eventfd's count. `Transit` is an
operator on the queue, used by the adapter's actions; `ReadEvent` and `PopRequest` are
separate, since `read()` is outside the lock; `Commit` is the end of an iteration.

**`BasicModule`** extends it with one module of the basic adapter. The TAI API is not
thread-safe (`platform.hpp:72`), so there is one API thread, `api`, and one FSM thread.
A step is what happens between two accesses to shared data: the timer's `configured() &&
!m_no_transit` is `CheckNetif`, `CheckAdmin`, `CheckFlag`; `remove_netif()` is
`RemoveNetif`, `RequestWaiting`, `PollWaiting`, `ClearFlag`; `set_attributes()` is
`SetAttributes`, `StoreAttributes`, `CheckState`, `RequestState`, with the object's
mutex held throughout (`ObjectLocked`), which is what `notify()` waits for. Lists of
attributes are abstracted to the one attribute the FSM depends on and whether the whole
list is accepted; `ConfigStore` has the detail. One of the calls is a client's of
OPER_STATUS: `StoreOperStatus` is the default setter, which stores it without telling
anyone, and `overridden` is history: a client stored the OPER_STATUS there is.

**`ModuleLifecycle`** is the abstract promise: the thread runs from creation to removal,
interfaces come and go in between, it stops only when bare.
`BasicModule!ImplementsLifecycle` refines it (`phase` from `thread`, `attached` is
`m_module # nullptr`).

**`TaishMonitor`** is the server's `Monitor()` calls on one notification attribute of
one object, a library thread and a `Remove()`; `pc` names the place of each, five
variables hold the mutexes, `registered` is the entry of `m_notifiers`, `attr` the
context stored in the library, `subscribers` and `q` the notifiers and subscriptions. A
critical section that takes no other lock is one step. `since`, `removed` and `crossed`
are history: the last notification sent when a stream subscribed, that the object was
removed, and that a notifier was erased (`Erasing`) while a call had looked it up and
not yet subscribed (`Joining`), for which no mutex is held.

**`ConfigStore`** is `Config<T>`: `Create`, `SetAttributes` and `ClearAttributes` are
calls that arrive, `Validate` and `Store` the two passes of `set_attributes()`, between
which the FSM thread's `SetReadonly` may come; `Clear` is `clear_attributes()`; `given`
is history: what the READ_ONLY attributes were given by the list of the creation or by
the adapter. Validation is the set of values that pass; the setter hooks, which in both
adapters always succeed, are left out. Part of a list, such as `diff`, is the set of its
positions, so that an index is the number of positions before it. `StoreAll` is the pass
without a default setter (stub adapter), `StoreRest` that with the basic adapter's.
`Inputs` are the settings clients pass.

**`Registry`** is `Platform` of the basic adapter behind the entry points of `tai.cpp`.
A call is one step, as the TAI API is not thread-safe, and `BasicModule` shows that the
removals return; the destructor is a sequence of removals (`DestroyNext`,
`DestroyAgain`, `DestroyEnd`). `objects` is `m_objects` and maps an id to the location
of the object's FSM, `fsms` is `m_fsms` with the thread and the attached interfaces of
each FSM. An id is the record of what its bits hold; `Number` is what `std::stoi()`
makes of a location. `reply` is the status returned.

**`ObjectTree`** is what a client may rely on: modules and interfaces come and go one at
a time, an interface only on a module that exists, a module only goes when it is bare.
`Registry!ImplementsTree` refines it.

**`TaishServer`** is the server around a library: the main thread of `main.cpp` (`pc`),
the library's thread in `module_presence()` (`Report`, `Push`), the signal handler
(`Signal`, `HandleSignal`), which runs on a thread that stands still meanwhile (`sig`),
and the gRPC threads (`calls`). `Read`, `Lock`, `EndDrain` and `Present...` are the main
loop; `NewModule` to `EnterModule` are the constructor `module::module()`, whose calls
of the library are `Create...`, `Query...` and their returns; `Configure` is the
`load_config()` before each creation, which throws for an attribute in the configuration
file that the metadata does not know (`misconfigured`). A gRPC call is `Begin`, `Locate`
for the location of its object, `LockApi`, `CallReturns`, `Ask`/`Asked` for the calls
made without the mutex, `LockList` and `List` for `list_module()`. `object_update()` is
`LocationAnswered` or `ModuleAnswered`, what the library answers when it is asked for
the location of a new module or the module of an interface (none, in the basic adapter,
when it is gone), then `UpdateModule` or the loop through `g_modules`: it ends at the
first entry that is `Sought` (`UpdateFirst`), at none (`UpdateNone`), or at a null
pointer (`UpdateNull`). An id of 0 is sought at whatever module has none. A call of the
library takes two steps, so that `InLibrary` sees who is inside together. `objects` is
what exists in the library, `g_modules` what the server believes; `raced` and `strayed`
are history: locations at which creations or removals overlapped, and locations where an
interface was entered whose module the library did not know any more.

**`AttributeValue`** is the memory of attributes of variable size: a buffer has a
`count` and a room, the length of its `list`, whose unwritten items are `JUNK`.
`AllocList`, `AllocRows`, `AllocLike` and `AllocAgain` are
`tai_metadata_alloc_attr_value()` and its kin, `CopyList`, `CopyRows` and `Copy` the
deep copies, with the count they write when the room is too small, `DeepEqual` the
comparison. There are five kinds: lists of numbers or object ids (`list`), of characters
(`charlist`) and of the values of an enum (`enumlist`), lists of enum lists (`attrlist`)
and object maps (`objmap`); what `malloc()` leaves in the sizes of an objmap is a choice
from `Garbage`. A text is the list it says, with `BAD` for an item that is none, or is
`BAD` where it says no list. `Deserialize` is the parser of each kind: `Meant` is what
it takes a text for (characters are cut at 32, an unknown value of an enum leaves the
memory as it was), `Refused` says when it answers with an error, `RunsOver` when that of
an enum list in a text that is not JSON writes outside its buffer (through the null
pointer of the first try, or one item past the end), and `Parse` is the rest, which is
like a copy. `FromText` is `Attribute(meta, text)`, with its second try.

**`AttributeCalls`** extends it with one attribute in the store of `Config` and a reader
with `tai::Attribute`'s three tries: `BeginGet`, `Allocate` (with the text the client
passed along, `Filled`), `GetAttribute`, `Return`, while `SetAttribute` (a text, in JSON
or not, of every kind), `AdapterSets` and `ClearAttribute` change the value.
`GetAttribute` is `Config`'s part, under its mutex; what is not listed or not set goes
to the default getter, which takes a pointer to the value (`DirectGet`) and copies
through it (`DirectCopy`) without that mutex. Clients are kept out meanwhile by the
server's `m_mtx` (`Locked`), the adapter's thread is not: `freed` says that the value
pointed to is gone. `status` becomes `undefined` where memory is touched that is not the
value's.

`MCBasicModule`, `MCTaishMonitor`, `MCConfigStore`, `MCRegistry`, `MCTaishServer` and
`MCAttributeCalls` give the constants their values. A comment "Mutant" marks an operator
that no specification uses: it is a plausible mistake in the definition that follows it,
and with it in place the run finds the property violated. The proofs of a module are in
the module named after it with `_proofs`; `SetLemmas` has what several of them need
about the least and the greatest element of a finite set of integers.

## 4. Runs

| Run | Checks | Shows |
|---|---|---|
| `basic` | `TypeOK`, `EventsMatchQueue`, `UsesModuleSafely`, `EndsOnlyForRemoval`, `EndIsLast`, `OperStatusTellsState`, `SubscriberIsUpToDate`, `QueueIsBounded`, `ImplementsLifecycle`, `RemoveNetifReturns`, `RemoveModuleReturns`, `QuietlyConfigured` | queue, eventfd, pointers and OPER_STATUS agree; removals return; a configured module becomes READY; every kind of call |
| `basic_netif` | `NoReadyWithoutNetif`, violated | see Findings |
| `monitor_alone` | `ContextIsAlive`, `ReachesLiveStreams`, `NothingLeftBehind`, `CancelEnds`, `QueuesDrain` | three streams in turn, cancelled anywhere: no dangling pointer, delivery, nothing left |
| `monitor_order` | `TypeOK`, `SubscribersAreCalledBack`, `NothingMissed`, `InOrder`, `ToldRemovedOnlyIfRemoved` | two overlapping streams, cancelled, with removal and re-creation: order and completeness, and that a stream is told of a removal only for one, or for the race of section 5; `SYMMETRY` over streams, as no liveness is checked |
| `monitor_deadlock` | `RemovalEndsStreams`, violated | see Findings |
| `registry` | `TypeOK`, `ObjectHasFsm`, `AttachedIsRegistered`, `NoModuleIsLeaked`, `ImplementsTree` | ids, FSMs and interfaces agree under every failure of a creation; the destructor takes all modules down |
| `config` | `TypeOK`, `SuccessStoresTheList`, `FailureKeepsTheRest`, `ChangeLowersTheState` | with and without a default setter, a successful call stores the whole list; without one a failed call stores only what precedes the first fault, a READ_ONLY attribute passed with the value it holds being none; the lowest state is asked for |
| `config_readonly` | `ReadOnlyIsKept`, violated | see Findings |
| `server` | `TypeOK`, `QueuedIsSignalled`, `ListingIsLibrary`, `TerminatedIsExplained`, `RequestsAreServed` | events, signals, the main loop and two gRPC clients: no event is lost, the list agrees with the library where calls do not overlap and no removed interface strayed in, an uncaught exception has one of four reasons |
| `server_overlap` | `OneCallAtATime`, violated | see Findings |
| `attributes` | `TypeOK`, `MemoryIsSafe`, `ReaderSeesWhatWasSet`, `RetryIsEnough` | reads of all five kinds, with and without an entry in the adapter's table and a text passed along, against up to three changes by texts and by the adapter |
| `attributes_overflow` | `OverflowIsReported`, violated | see Findings |

**Bounds.** `BasicModule` needs none: requests are made only from a state that was read,
and the queue stays within the bound `QueueIsBounded` states, so the run is of the full
state space of one module (581,134 states). Host interfaces only matter to
`remove_module`, which waits for none to be left: one is enough. Of the three values of
OPER_STATUS a client may store, `MCBasicModule` takes the one that is right in one state
and wrong in another. `TaishMonitor`: `Stream` is the set of calls, each made once; two
overlapping streams show all pairs of lock orders, three in turn show what a stream
leaves to the next and the one after. `MaxNotify` bounds the library's notifications:
three show a gap and a swap, two are enough where the order is not looked at. `MaxOpen`
bounds the overlap: `monitor_alone` is about calls that do not overlap, because with
overlapping ones the deadlocks and the race of section 5 make its properties false
(32,991 states; `monitor_order` has 2,278,822). Those runs say `CHECK_DEADLOCK FALSE`:
when every stream has ended and the counter is exhausted, the system stops.
`ConfigStore`: lists of up to three attributes (`MaxList`), one attribute of each kind
(`admin` has an FSM state, `oper` is READ_ONLY, `freq` has values that do not validate
and can be cleared, `custom` has metadata but is not in the store's table, `bogus` has
none), two values, of which `MCInputs` passes one for `custom` and `bogus`; an index, a
duplicate, an order and a failure half way, between settings that are stored and others
that are not, all show with three (358,415 states). `Registry`: two modules, one
location of each kind (two spellings of a number, one beyond the last module, a negative
one, no number), one host interface, as the proofs cover any number; `registry` looks at
the states without `reply` (`VIEW`), which no action reads. It stops when the destructor
aborts, hence `CHECK_DEADLOCK FALSE`. `TaishServer`: two locations, both reported by the
library, with one interface each, as the loop over interfaces is the same for every next
one. The module of the first is refused (`Refused`), so that it is listed with the id 0
and comes first in the map: the place an interface that is gone strays to. `Requested`:
the gRPC calls are about the second, as those about a refused module change nothing.
`Misconfigured`: the file is in order, or wrong about the interface, which comes after
the module was made. `Interrupted`: a signal is delivered to the main or the library's
thread, as Linux gives it to the main thread if that does not block it; the proofs are
for all threads; `MaxEvents = 2` lets an event arrive while another is handled,
`MaxCalls = 2` lets two clients overlap, and `MaxSignals = 1` interrupts each of the two
threads at each step (1,087,814 states). It stops when the server has ended or all calls
are used up. `AttributeCalls`: the default size is 2 instead of 16 and the limit of
characters 3 instead of 32, so that values and texts are shorter, equal and longer than
either; rows are so too, and some are longer than the default, in what is stored and in
what a client passes along; texts have a bad item first, last, within and past the
count, in JSON and not. `MaxSets = 3` allows a change before each of the three tries
(215,697 states), after which nothing may be left to do.

**Fairness.** `BasicModule`: weak fairness of the FSM thread (it is scheduled and its
timer fires again and again) and of the API thread inside a call; nobody has to make
calls. The locks are held over a bounded number of steps, so weak fairness is enough.
`TaishMonitor`: strong fairness of each thread, as a thread that waits for a mutex
others take again and again gets it eventually; the `wait_for` ends after a second; a
client reads what is written. Neither notifying, cancelling nor removing is fair.
`TaishServer`: weak fairness of the main thread, of the callback once it has begun, of
the signal handler and of the gRPC calls that have begun; weak is enough, as calls and
events are bounded and nobody can take a mutex from another for ever. Events, signals
and calls need not come. `ConfigStore`, `Registry` and `AttributeCalls` are checked for
safety only.

## 5. Findings

Each has a run that ends with the counterexample:

1. `basic_netif`: `remove_netif()` takes WAITING_CONFIGURATION for granted while the
   timer has decided for READY; the FSM enters READY without a netif.
2. `monitor_deadlock`: `Remove()` holds `m_notifiers_mtx` and waits for a stream's
   mutex, the stream holds that and waits for `m_notifiers_mtx`.
3. `config_readonly`: the basic adapter stores READ_ONLY attributes a client sets (those
   that are CLEARABLE as well, the counters, a client may clear). An OPER_STATUS a
   client stored stands until the next state change, and no subscriber is told:
   `OperStatusTellsState` and `SubscriberIsUpToDate` except it (`overridden`).
4. `server_overlap`: the main loop makes a module without the mutex that serializes the
   TAI calls of the gRPC threads; `GetAttributeCapability()`, `SetLogLevel()` and
   `object_update()` do without it too. The property is about the time until `main()`
   leaves its loop: that `tai_api_uninitialize()` is called while gRPC threads run is a
   case of its own.
5. `attributes_overflow`: the default getter answers a deep copy that did not fit with
   the status it was called for, so that the reader is told ATTR_NOT_SUPPORTED, and
   neither allocates more nor tries again.

Visible in the models, without a run of their own:

- An unconfigured FSM may stay READY (`fsm.hpp:46-48`): ADMIN_STATUS set to DOWN between
  the timer's decision and its commit requests nothing, as `_transit()` sees no
  difference; or the timer reads `m_no_transit` after `configured()`, with a complete
  `remove_netif()` in between. Hence `QuietlyConfigured` speaks of configured modules.
- `get_notifier()` does not take `m_notifiers_mtx` (`taigrpc.hpp:128`); a stream may
  subscribe (`server.cpp:491`) to a notifier just erased (`:593`), and is told that the
  object is removed, though it is not: `ToldRemovedOnlyIfRemoved` excepts it
  (`crossed`).
- A stream that begins while the last other one ends may find the callback it relies on
  taken out (`server.cpp:565`): nothing is claimed of such streams. One that subscribes
  between a removal and the erasure of the notifiers, to the object created again, may
  be told of the removal before it (`server.cpp:711`).
- The constructor of `Config` stores the READ_ONLY attributes the list of a creation
  holds (`config.hpp:182`), which `inc/taistatus.h:175-176` names as an error;
  `ReadOnlyIsKept` speaks of existing objects.
- The index in a status of the second pass counts the settings that differ
  (`config.hpp:362`), not those of the caller's list, as `inc/taistatus.h:179-180` says.
- A creation refused for an attribute leaves its FSM in `m_fsms` (`basic.cpp:66`), and
  the location is reported as existing from then on. The FSM thread of a module refused
  for its id, or with a negative location, is never ended (`leaked`), and an FSM whose
  `eventfd()` failed terminates the program when it is destroyed (`DestroyAborts`).
- `object_update()` leaves null entries in `g_modules` that the main loop,
  `list_module()` and later updates dereference (`PresentNull`, `List`, `UpdateNull`).
- An interface that is removed before its creator's `object_update()` asks for its
  module is entered at the first module without an id (`main.cpp:316-331`), or not at
  all where its index is taken (`strayed`).
- The signal handler locks a mutex that the thread it interrupted may hold (`Stuck`),
  and is installed before the eventfd it writes to is open (`unsignalled`).
  `RequestsAreServed` excepts both, and the end of the process.
- An interface the library refuses, a module removed while the main loop makes it, or an
  attribute in the configuration file that the metadata does not know, which is looked
  up only when a module is plugged in, ends the server by an uncaught exception
  (`TerminatedIsExplained` says when).
- `MemoryIsSafe` lets three cases pass in which memory that is not the value's is
  touched: a copy of an empty `attrlist` reads a row that is not there
  (`taimetadatautils.c:698`); the parser of an enum list in a text that is not JSON
  compares with the count when it is past it (`taiserialize.c:848`), and writes through
  the null pointer of the first try, or one item past the end; the default getter copies
  through a pointer it took without `Config`'s mutex (`basic.hpp:146`), and the adapter
  may have replaced the value.
- A text of more than 32 characters is stored cut, with success (`taiserialize.c:472`);
  passed along with a read, it makes the buffer shrink to 32 at every try, so that three
  tries do not reach the size of a longer value the adapter has set. `Excused` lists
  this with the other reasons why three tries may not do.
- An item of an enum list that is no value of the enum is not an error: in JSON its
  place in the list keeps what the memory held (`taiserialize.c:838`, the result is not
  looked at).

## 6. Proofs

A proof holds for every value of the constants that the named assumptions of the module
allow. TLC has checked each property before, on the instance of its run.

`BasicModule_proofs` (`HostIfAssumption`, `RequestsAssumption`):

- `TypeCorrect`, and `InductiveInvariant`: `Spec => []IInv`. None of the invariants is
  inductive alone: `IInv` is `Control` (which places of the two threads go together, and
  that the module is attached from `SetModule` to `PollEnd`), `EventsMatchQueue`,
  `EndOnlyWhenRemoving` (END is pending, decided or current only while `remove_module()`
  runs) and `EndClosesQueue` (once END is pending it is last, as no other call can be
  made). `NextControl`, `NextEvents` and `NextEnd` show that each part is preserved,
  given the others.
- `EventsCorrect`, `ModuleUseCorrect`, `EndCorrect`, `EndIsLastCorrect`: the invariants
  of the run `basic` that follow from `IInv`.
- `OperStatusCorrect`, `SubscriberCorrect`: `StatusFollows` and `SubscriberFollows` say,
  for each place of the FSM thread, which of the states OPER_STATUS and the last
  notification tell of, until a client overrides it (finding 3).
- `Implementation`: `Spec => ImplementsLifecycle`; every step of the two threads is a
  step of `ModuleLifecycle` or a stutter.
- `QueueCorrect`: at most five states wait in the queue. A bound is not inductive;
  `QueueInv` says what the queue is made of. Neighbours differ, as `transit()` does not
  queue what is last already (`NeighboursDiffer`); INIT is in it at most once and goes
  with `remove_module()` (`InitOnce`); READY is in it at most once, and none is left
  when a call decides to request it again (`ReadyOnce`). The longest queue has WAITING
  before, between and behind those two.

`Registry_proofs` (`RegistryAssumption`, `NoneAssumption`):

- `TypeCorrect`, and `InductiveInvariant`: `Spec => []IInv`. `IInv` says by kind of
  object that it has its FSM (`ModuleHasFsm`, `InterfaceHasModule`), that ids of
  interfaces hold a proper number, `AttachedIsRegistered`, and `InterfacesGoFirst`: in
  the destructor an interface is still ahead in the first pass. `NextChanges` reduces
  every step to one of six changes of `objects` and `fsms`; `ChangedConsistent` and
  `ChangedImplements` look at those.
- `ObjectHasFsmCorrect`, `AttachedCorrect`, and `Implementation`: `Spec =>
  ImplementsTree`, the refinement for every instance.
- `NotLeakedCorrect`: the destructor leaves no thread running of a module that has an id
  and a proper location number, from `RunningIsNumeric` (an FSM that runs belongs to a
  location that is a number) and `ModulesGoSecond`.

`TaishServer_proofs` (`ServerAssumption`), for any locations, clients, events and
interfaces:

- `TypeCorrect`, with `Control`: which mutexes go with which places.
- `SignalledCorrect`: `Signalled` ties counter, queue and the main thread's place.
- `SeparateInvariant`, and from it `ListingCorrect` and `TerminatedCorrect`: `Separate`
  speaks of the locations with no overlap so far: one call at a time is at work there
  (`OneAtATime`), what it did to the library is what it will tell `g_modules`
  (`ChangeIsPending`), otherwise the two agree (`ListingIsShown`, but where an interface
  strayed in), and what the main thread has made so far is in the library
  (`NewModuleIsMade`). `Strays`: only an interface at whose own location changes
  overlapped is unknown to the library when its module is asked for, and only such a one
  is listed away from home. `Hierarchy`: an interface exists on a module only. A step
  disturbs one location; a frame lemma carries `Separate` over for the others.

`TaishMonitor_proofs` (`StreamAssumption`), for any finite set of streams:

- `TypeCorrect`: `Types` and `InHand`, what each thread holds at each place.
- `SubscribersCorrect`: `SubscribersAreCalledBack` for streams that overlap in any
  number, from `Shared`, which says which notifier is registered while nothing erased
  one (the condition `Undisturbed` of the property).
- `ContextCorrect`, `ReachesCorrect`, `NothingLeftCorrect`: under `OneByOne`, that is,
  calls that do not overlap and no removal, as in `monitor_alone`. `Alone` is the
  invariant: all other streams are closed (`OthersClosed`), `Stage` says for each place
  of the open one what is registered, stored in the library and subscribed,
  `LibraryStage` the same for the library's thread. Without the hypothesis the
  properties are false, by the deadlocks and the race of section 5.
- `ToldCorrect`: without `OneByOne`, for streams that overlap in any number and are
  cancelled anywhere. `Kept`: until the object is removed or a notifier is dropped under
  a call that joins it, every stream holds the notifier that is registered and is among
  its subscribers, so that nobody finds it empty and erases it.
- `InOrderCorrect`, `NothingMissedCorrect`: without `OneByOne`, for any streams that
  overlap, cancel, and see the object removed and made again. What a stream has written,
  followed by its queue, is one sequence, `Got`, which a step leaves alone, extends by
  the notification just sent, or stops for good. That the extension is the next number
  needs `Protocol`: one call at a time is in its first block (`Exclusive`), a notifier
  is allocated once (`AllocatedOnce`), a stream is reached through the notifier it works
  with only (`Subscribed`, `Reached`), what a call found out at the start still holds
  when it subscribes (`SettingUp`), and of two notifiers one has no subscribers
  (`OneInUse`). `UpToDate` then says that streams on a notifier in use miss nothing, and
  `Complete` that they have everything since they subscribed. `NothingMissedCorrect` is
  about streams none of which ends and an object that stays.

`ConfigStore_proofs` (`ConfigAssumption`), for any attributes, metadata, values and
length of lists:

- `TypeCorrect`, by `IInv`: the types, and what the second pass relies on: a list under
  way was validated (`Validated`), and belongs to an object that exists (`Existing`).
- `SuccessCorrect`, `FailureCorrect`, `ChangeCorrect`: the action properties of the run
  `config`. `EndsByAPass` reduces the end of a call to a pass; the lemmas
  `StoreAllFacts`, `StoreRestFacts` and `ClearFacts` say what each pass leaves in the
  store and in the status, `PositionFacts`, `BeforeFacts` and `LowestFacts` what the
  first fault and the lowest state are.
- `ReadOnlyCorrect`: `ReadOnlyIsKept` holds of every adapter without a default setter:
  no `set_attributes()` on an existing object changes a READ_ONLY attribute. What the
  list of the creation says of one is stored by the constructor and stands until the
  adapter reports (`given` counts both); the theorem does not say that a creation with
  one fails, and in the code it does not. The run `config_readonly` shows it violated
  with the basic adapter's.
- The first of the positions of a list, and the lowest of the states, are least
  elements. That there is one is shown in `SetLemmas` without induction: among the sets
  without a least element, a smallest (the library's well-founded order on finite sets
  gives one) would still have none when an element is taken out.

`AttributeCalls_proofs` (`SizeAssumption`, `CallsAssumption`), for values and texts of
every kind and any length, with any default size, any limit of characters, any content
of fresh memory and any number of changes:

- `TypeCorrect`, `MemoryCorrect`, `ReaderCorrect`, `RetryCorrect`. `IInv` is `Stored`
  (what `Config` keeps is whole, and among what the reader may see), `Undefined` (the
  three cases in which foreign memory is touched), `Reading` (the reader's buffer has
  the room its counts say), `Looking` (the default getter comes to a listed value only
  if it was not set when `Config` looked, and it is freed under the copy only by a
  second change since) and `Trying`: a try that found the value too long has left the
  room for it, or was overtaken by a change (`WithoutInput`, `WithInput`), and why a
  failure was one (`FailedForReason`).
- `Excused` names the reasons other than changes for which three tries may not do; one
  stays while the read goes on (`ExcusedStays`).
- Each operation of `AttributeValue` has a lemma for lists, one for rows (`CopyFacts`
  and `CopyRowsFacts`, `AllocFacts` and `AllocRowsFacts`) and one for every kind
  (`CopyWhole`, `AllocAgainWhole`, `ParseWhole`, `DeserializeWhole`, `FromTextWhole`,
  `StoreWhole`); the proof that a step keeps `IInv` uses the last.

Every safety invariant, action property and refinement that a passing run checks is so
proved, some under the hypothesis named. Only model-checked, being out of the prover's
reach, is liveness: `RemoveNetifReturns`, `RemoveModuleReturns`, `QuietlyConfigured`,
`CancelEnds`, `QueuesDrain`, `RequestsAreServed`.

## 7. Not modelled

Much of the repository's text holds no behaviour a state machine could show. Most of its
lines are two vendored JSON parsers (`json.hpp`, `cJSON.c`), headers of declarations and
generated tables. Then there are pure functions on text: serialization, and the parsing
of scalars (that of lists is modelled as far as counts, cuts, errors and memory go),
logging, and the Python client, which sends one request per command.

- Stub library: sequential, and not one the server runs with, since `tai_log_set()`
  refuses a handler, which ends `main()` at start. Its functions are table look-ups;
  reading them showed that the `remove_*` functions leave the object's pointer to its
  entry behind, that a refused longer list still raises the count stored, that a
  location index one beyond `STUB_NUM_MODULE` passes the check, and that
  `tai_module_id_query()` answers NULL for a module.
- Stub adapter: its `create()` has the shape of the basic adapter's, without an FSM; its
  use of `Config`, without a default setter, is in `ConfigStore`.
- Within the modelled parts: file descriptors and memory (the timer descriptor that the
  READY branch of `_waiting_configuration_cb` does not close, the reference cycle of FSM
  and module), the pointer `Config::get()` returns after unlocking, the setter and
  getter hooks of `Config`, which in both adapters only forward, default values,
  capabilities, the alarm cache, and gRPC itself.
- Within `TaishServer`: the configuration file is read in one step; races on the memory
  of the map `g_modules` itself.
- Within `AttributeCalls`: the keys of an object map, more than one reader (readers
  change nothing others see), the memory a repeated allocation of rows leaks, the items
  a failed try leaves in a buffer (the next try gets another, or the read ends). A row
  of an `attrlist` that is no list at all counts as a text that is none. Attributes with
  a getter of their own or a default value (`TAI_MODULE_ATTR_TRIBUTARY_MAPPING` has an
  empty list for one) are read differently when they are not set. The rows of an
  `attrlist` are enum lists, as those of the only such attribute are; of lists of
  characters the parser would take the length it returns for an error
  (`taiserialize.c:485`, `910`). The look-up of the default getter in `m_config` is one
  step, though it is without the mutex as well.
- `tai_api_uninitialize()` in `TaishServer` does nothing to the calls in progress.
- Not covered, though in the models: with two overlapping streams of which one is
  cancelled, three threads may wait for each other (`server.cpp:565`), so that
  `CancelEnds` is checked with one stream at a time; streams that begin while another
  ends (section 5); `ReachesLiveStreams` after a removal (`server.cpp:583`); which
  setting the index of a status names (section 5).
