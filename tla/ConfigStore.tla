----------------------------- MODULE ConfigStore -----------------------------
(***************************************************************************)
(* The attributes of one object: Config<T> of tools/framework/config.hpp,  *)
(* with the default setter of the basic adapter (examples/basic/basic.hpp) *)
(* or, as in the stub adapter, without one.                                *)
(*                                                                         *)
(* An attribute's value is a member of a small set; validation (minimum,   *)
(* maximum, enumerations, validator, capability) is the set of the values  *)
(* that pass.  The setter hooks of both adapters always succeed and are    *)
(* left out.  Calls run one at a time, under the object's mutex, but       *)
(* set_attributes() gives m_mtx up between validating the list and storing *)
(* it, and the FSM thread, which reports through set_readonly() without    *)
(* the object's mutex, may come in between.                                *)
(*                                                                         *)
(* Part of a list is the set of its positions.                             *)
(***************************************************************************)
EXTENDS Integers, Sequences, FiniteSetsExt

CONSTANTS
  Attr,              \* attribute ids
  Value,             \* attribute values
  Info,              \* [Attr -> InfoType], the metadata and m_info
  Inputs,            \* the settings the clients pass, [id |-> Attr, value |-> Value]
  State,             \* FSM states, as numbers; 0 is FSM_STATE_INIT
  DefaultSetter,     \* whether the adapter has one: a set of Booleans
  MaxList,           \* bound on the length of an attribute list
  None

FSM_STATE_INIT == 0

Setting == [id : Attr, value : Value]

InfoType == [known     : BOOLEAN,       \* there is metadata for the id
             listed    : BOOLEAN,       \* the id is in m_info
             readonly  : BOOLEAN,
             clearable : BOOLEAN,
             fsm       : State,         \* set_fsm_state()
             valid     : SUBSET Value]  \* the values _validate() accepts

ASSUME ConfigAssumption ==
  /\ Info \in [Attr -> InfoType]
  /\ \A a \in Attr : Info[a].listed => Info[a].known
  /\ Inputs \subseteq Setting
  /\ State \subseteq Int
  /\ FSM_STATE_INIT \in State
  /\ DefaultSetter \subseteq BOOLEAN
  /\ MaxList \in Nat \ {0}
  /\ None \notin Value

Lists(S) == UNION {[1..n -> S] : n \in 0..MaxList}

VARIABLES
  default_setter,  \* m_default_setter # nullptr
  exists,   \* the object has been created
  config,   \* m_config
  call,     \* the call in hand
  outcome,  \* what the last call returned, and the state it asked for
  given     \* history: what the READ_ONLY attributes were given, by the list
            \* the object was created with and by the FSM thread since

vars == <<default_setter, exists, config, call, outcome, given>>

StatusCode == {"success", "invalid", "readonly", "unsupported", "unclearable"}

(* A status of the ranges that carry an index into the attribute list.     *)
Status == [code : StatusCode, index : 0..MaxList-1]

Success == [code |-> "success", index |-> 0]

Config == [Attr -> Value \cup {None}]

NoCall == [op |-> "none"]

Call ==
  {NoCall}
  \cup [op : {"create", "set"}, stage : {"validate"}, list : Lists(Setting), from : State]
  \cup [op : {"create", "set"}, stage : {"store"}, list : Lists(Setting), from : State,
        diff : SUBSET (1..MaxList)]
  \cup [op : {"clear"}, ids : Lists(Attr), from : State]

TypeOK ==
  /\ default_setter \in BOOLEAN
  /\ exists \in BOOLEAN
  /\ config \in Config
  /\ call \in Call
  /\ outcome \in [status : Status, next : State]
  /\ given \in Config

Empty == [a \in Attr |-> None]

Quiet == [status |-> Success, next |-> FSM_STATE_INIT]

Init ==
  /\ default_setter \in DefaultSetter
  /\ exists = FALSE
  /\ config = Empty
  /\ call = NoCall
  /\ outcome = Quiet
  /\ given = Empty

-----------------------------------------------------------------------------
(* The positions before the first that is bad.                             *)
Before(P, bad) == {i \in P : \A j \in bad : i < j}

(* m_config[id] = value, for the settings at the positions P of a list in  *)
(* turn.                                                                   *)
Stored(c, list, P) ==
  [a \in Attr |-> LET of == {i \in P : list[i].id = a} IN
                  IF of = {} THEN c[a] ELSE list[Max(of)].value]

(* Mutant: positions count from 1.                                         *)
convertFromOne(code, i) == [code |-> code, index |-> i]

(* convert_tai_error_to_list(): the index is added to the status.          *)
convert(code, i) == [code |-> code, index |-> i - 1]

(***************************************************************************)
(* set_attributes(), first pass: the whole list is validated, and what the *)
(* config holds already is dropped.                                        *)
(***************************************************************************)
Unacceptable(s) ==
  IF Info[s.id].listed THEN s.value \notin Info[s.id].valid
  ELSE ~default_setter

(* Mutant: an attribute that has a value already is dropped.               *)
DiffersIfUnset(c, s) == Info[s.id].listed => c[s.id] = None

Differs(c, s) == Info[s.id].listed => c[s.id] # s.value

Diff(c, list) == {i \in 1..Len(list) : Differs(c, list[i])}

WhyNot(s) == IF Info[s.id].listed THEN "invalid" ELSE "unsupported"

(***************************************************************************)
(* Second pass, _set() on what is left.  A setting that cannot be stored   *)
(* ends the call or, with a default setter, is left to it.                 *)
(***************************************************************************)
Storable(s, readonly) ==
  Info[s.id].listed /\ (Info[s.id].readonly => readonly)

WhyNotStored(s) == IF Info[s.id].listed THEN "readonly" ELSE "unsupported"

(* The lowest of the states the stored settings ask for, if it is below    *)
(* the current one.                                                        *)
Asked(s, readonly, current) ==
  IF Storable(s, readonly) /\ Info[s.id].fsm # FSM_STATE_INIT
  THEN Info[s.id].fsm ELSE current

(* Mutant: the last setting decides.                                       *)
LastAsked(list, diff, readonly, current) ==
  LET asked == Asked(list[Max(diff)], readonly, current)
  IN  IF asked < current THEN asked ELSE current

Lowest(list, diff, readonly, current) ==
  Min({current} \cup {Asked(list[i], readonly, current) : i \in diff})

Result(c, status, next) == [config |-> c, status |-> status, next |-> next]

Refused(list, diff, readonly) == {i \in diff : ~Storable(list[i], readonly)}

(* Mutant: a failure does not end the pass.                                *)
StoreOn(c, list, diff, readonly, current) ==
  LET bad == Refused(list, diff, readonly) IN
  Result(Stored(c, list, diff \ bad),
         IF bad = {} THEN Success
         ELSE convert(WhyNotStored(list[Min(bad)]), Cardinality(Before(diff, bad)) + 1),
         IF bad = {} THEN Lowest(list, diff, readonly, current) ELSE current)

(* Without a default setter: the first failure returns, with its position  *)
(* in diff.                                                                *)
StoreAll(c, list, diff, readonly, current) ==
  LET bad == Refused(list, diff, readonly)
      stored == Before(diff, bad) IN
  Result(Stored(c, list, stored),
         IF bad = {} THEN Success
         ELSE convert(WhyNotStored(list[Min(bad)]), Cardinality(stored) + 1),
         IF bad = {} THEN Lowest(list, diff, readonly, current) ELSE current)

(* Mutant: what the default setter is given is not stored.                 *)
StoreNoRest(c, list, diff, readonly, current) ==
  Result(Stored(c, list, diff \ Refused(list, diff, readonly)), Success,
         Lowest(list, diff, readonly, current))

(* default_setter(): what has metadata is stored by direct_set(); what has *)
(* none returns the status it came with, which was not converted.          *)
StoreRest(c, list, diff, readonly, current) ==
  LET failed == Refused(list, diff, readonly)
      bad == {i \in failed : ~Info[list[i].id].known} IN
  Result(Stored(Stored(c, list, diff \ failed), list, Before(failed, bad)),
         IF bad = {} THEN Success ELSE convert("unsupported", 1),
         IF bad = {} THEN Lowest(list, diff, readonly, current) ELSE current)

-----------------------------------------------------------------------------
(* The constructor passes the list the object is created with to           *)
(* set_attributes(), READ_ONLY attributes included.                        *)
Create(list) ==
  /\ ~exists
  /\ call = NoCall
  /\ call' = [op |-> "create", stage |-> "validate", list |-> list, from |-> FSM_STATE_INIT]
  /\ outcome' = Quiet
  /\ UNCHANGED <<exists, config, given>>

(* Object::set_attributes(), with the state the FSM is in.                 *)
SetAttributes(list, current) ==
  /\ exists
  /\ call = NoCall
  /\ call' = [op |-> "set", stage |-> "validate", list |-> list, from |-> current]
  /\ outcome' = Quiet
  /\ UNCHANGED <<exists, config, given>>

ClearAttributes(ids, current) ==
  /\ exists
  /\ call = NoCall
  /\ call' = [op |-> "clear", ids |-> ids, from |-> current]
  /\ outcome' = Quiet
  /\ UNCHANGED <<exists, config, given>>

Return(status, next) ==
  /\ call' = NoCall
  /\ outcome' = [status |-> status, next |-> next]

Running(stage) == call.op \in {"create", "set"} /\ call.stage = stage

(* The first pass.  A constructor that fails throws: there is no object.   *)
Validate ==
  /\ Running("validate")
  /\ LET bad == {i \in 1..Len(call.list) : Unacceptable(call.list[i])}
         diff == Diff(config, call.list) IN
     IF bad # {} THEN Return(convert(WhyNot(call.list[Min(bad)]), Min(bad)), call.from)
     ELSE IF diff = {} THEN Return(Success, call.from)
     ELSE /\ call' = [op |-> call.op, stage |-> "store", list |-> call.list,
                      from |-> call.from, diff |-> diff]
          /\ UNCHANGED outcome
  /\ exists' = (exists \/ (call' = NoCall /\ outcome'.status = Success))
  /\ UNCHANGED <<config, given>>

(* The second pass.                                                        *)
Store ==
  /\ Running("store")
  /\ LET readonly == call.op = "create"
         r == IF default_setter
              THEN StoreRest(config, call.list, call.diff, readonly, call.from)
              ELSE StoreAll(config, call.list, call.diff, readonly, call.from) IN
     /\ Return(r.status, r.next)
     /\ exists' = (exists \/ r.status = Success)
     /\ config' = IF exists' THEN r.config ELSE Empty
     /\ given' = IF exists THEN given
                    ELSE [a \in Attr |-> IF Info[a].readonly THEN config'[a] ELSE None]

(***************************************************************************)
(* clear_attributes(): one after the other, up to the first that cannot be *)
(* cleared.  The target state is left alone.                               *)
(***************************************************************************)
Unclearable(a) == ~(Info[a].listed /\ Info[a].clearable)

Clear ==
  /\ call.op = "clear"
  /\ LET bad == {i \in 1..Len(call.ids) : Unclearable(call.ids[i])}
         cleared == Before(1..Len(call.ids), bad) IN
     /\ config' = [a \in Attr |-> IF \E i \in cleared : call.ids[i] = a
                                  THEN None ELSE config[a]]
     /\ Return(IF bad = {} THEN Success
               ELSE convert(IF Info[call.ids[Min(bad)]].listed THEN "unclearable"
                            ELSE "unsupported", Min(bad)), call.from)
  /\ UNCHANGED <<exists, given>>

(* set_readonly(), by which the FSM thread reports OPER_STATUS.            *)
SetReadonly(s) ==
  /\ exists
  /\ Info[s.id].listed
  /\ Info[s.id].readonly
  /\ config' = [config EXCEPT ![s.id] = s.value]
  /\ given' = [given EXCEPT ![s.id] = s.value]
  /\ UNCHANGED <<exists, call, outcome>>

Next ==
  /\ \/ \E list \in Lists(Inputs) : Create(list)
     \/ \E list \in Lists(Inputs), s \in State : SetAttributes(list, s)
     \/ \E ids \in Lists(Attr), s \in State : ClearAttributes(ids, s)
     \/ Validate
     \/ Store
     \/ Clear
     \/ \E s \in Setting : SetReadonly(s)
  /\ UNCHANGED default_setter

Spec == Init /\ [][Next]_vars
-----------------------------------------------------------------------------
Distinct(list) == \A i, j \in 1..Len(list) : list[i].id = list[j].id => i = j

(* The step at which a call of a client's ends, and how.                   *)
Ends == call # NoCall /\ call' = NoCall

SetSucceeds == Ends /\ call.op \in {"create", "set"} /\ outcome'.status = Success

SetFails == Ends /\ call.op = "set" /\ outcome'.status # Success

(* When a call succeeds the attributes hold what its list says, every      *)
(* value valid, whichever of them differed before (config.hpp:317-379) and *)
(* whatever the FSM thread stored between the passes; the READ_ONLY ones   *)
(* are its own to change.                                                  *)
SuccessStoresTheList ==
  [][SetSucceeds /\ Distinct(call.list) =>
       \A i \in 1..Len(call.list) :
         LET s == call.list[i] IN
         /\ Info[s.id].readonly \/ config'[s.id] = s.value
         /\ Info[s.id].listed => s.value \in Info[s.id].valid]_vars

(* Without a default setter a call that fails has stored nothing from the  *)
(* fault on: only settings that precede every faulty one are applied       *)
(* (config.hpp:353-370).  A READ_ONLY attribute that was passed with the   *)
(* value it had is no fault (config.hpp:335-343).                          *)
FailureKeepsTheRest ==
  [][SetFails /\ ~default_setter =>
       \A a \in Attr : config'[a] # config[a] =>
         \E i \in call.diff :
           /\ call.list[i] = [id |-> a, value |-> config'[a]]
           /\ \A j \in 1..i :
                /\ ~Unacceptable(call.list[j])
                /\ j \in call.diff => ~Info[call.list[j].id].readonly]_vars

(* Changing an attribute that has an FSM state takes the FSM down to it,   *)
(* whatever else is in the list, and no call takes the FSM up              *)
(* (config.hpp:384-391).                                                   *)
ChangeLowersTheState ==
  [][SetSucceeds =>
       /\ outcome'.next <= call.from
       /\ \A a \in Attr :
            config'[a] # config[a] /\ Info[a].listed /\ ~Info[a].readonly
              /\ Info[a].fsm # FSM_STATE_INIT => outcome'.next <= Info[a].fsm]_vars

(* Once an object is created only the adapter changes its READ_ONLY        *)
(* attributes: a set_attributes() that passes one fails                    *)
(* (inc/taistatus.h:175-176).  One that is CLEARABLE as well, like the     *)
(* counters of a host interface, a client may clear.  Nothing is said of   *)
(* the creation: the constructor stores whatever READ_ONLY values its list *)
(* holds (config.hpp:182), so an attribute the adapter has not reported    *)
(* yet has the value the client created it with.                           *)
ReadOnlyIsKept ==
  \A a \in Attr : Info[a].readonly =>
    \/ config[a] = given[a]
    \/ Info[a].clearable /\ config[a] = None
=============================================================================
