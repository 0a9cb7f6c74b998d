--------------------------- MODULE AttributeCalls ---------------------------
(***************************************************************************)
(* One attribute of variable size of one object, read by GetAttribute() of *)
(* the taish server (tools/taish/lib/server.cpp) with the wrapper of       *)
(* tools/lib/attribute.hpp, which tries three times, while SetAttribute()  *)
(* calls of other clients, ClearAttribute() and the adapter change it.     *)
(* The library is the framework: Config of tools/framework/config.hpp,     *)
(* with the default setter and getter of the basic adapter.  The attribute *)
(* has no getter of its own and no default value.                          *)
(*                                                                         *)
(* Each try takes the server's m_mtx anew, for the call of the library.    *)
(* What a call does to its own buffer is one step with what it does next   *)
(* to the store: nobody else sees the buffer.  Config takes its mutex for  *)
(* what is listed; the default getter reads without it, in two steps.      *)
(* There is one reader, as readers change nothing another one sees.        *)
(***************************************************************************)
EXTENDS AttributeValue

CONSTANTS
  Kinds,    \* the kinds of attribute
  Listed,   \* whether the adapter's table (m_info) lists it: a set of Booleans
  Json,     \* whether clients write JSON: a set of Booleans
  Values,   \* [Kind -> the values the adapter sets]
  Texts,    \* [Kind -> the texts clients set]
  Inputs,   \* [Kind -> the texts a client passes along with a read]
  MaxSets,  \* bound on the number of changes
  None

Tries == 3

ASSUME CallsAssumption ==
  /\ Kinds \subseteq Kind
  /\ Listed \subseteq BOOLEAN
  /\ MaxSets \in Nat
  /\ Json \subseteq BOOLEAN
  /\ \A k \in Kinds : Values[k] \subseteq ValueType(k) /\ Texts[k] \cup Inputs[k] \subseteq Text(k)
  /\ None \notin Buffer \cup NestedBuffer
  /\ \A k \in Kinds : None \notin ValueType(k) \cup Text(k)

VARIABLES
  kind,    \* of the attribute
  listed,  \* whether m_info lists it
  status,  \* of the process
  store,   \* m_config[id], a buffer
  pc,      \* where the reader is
  attr,    \* the reader's buffer
  tries,   \* what is left of its tries
  input,   \* the text the client passed along
  json,    \* whether that is JSON
  ret,     \* why the read failed
  freed,   \* the value the default getter is about to copy is no more
  sets,    \* number of changes
  seen,    \* history: the values set, from the last one before the read on
  since    \* history: the number of changes since the read began

attribute == <<kind, listed>>
reader == <<pc, attr, tries, input, json, ret>>
history == <<sets, seen, since>>
vars == <<attribute, status, store, reader, freed, history>>

Failure == {"overflow", "error", "no_memory", "uninitialized", "unsupported"}

(* The values there can be: what the adapter sets, and what the texts      *)
(* clients set are taken for.                                              *)
Settable(k) == Values[k] \cup {Meant(k, v) : v \in Texts[k] \ {BAD}}

TypeOK ==
  /\ kind \in Kinds
  /\ listed \in Listed
  /\ status \in {"running", "undefined"}
  /\ store # None => ValueOf(kind, store) \in Settable(kind)
  /\ pc \in {"idle", "alloc", "get", "direct", "copy", "done", "failed"}
  /\ tries \in 0..Tries
  /\ input \in Inputs[kind] \cup {None}
  /\ json \in BOOLEAN
  /\ ret \in Failure \cup {None}
  /\ freed \in BOOLEAN
  /\ sets \in 0..MaxSets
  /\ seen \subseteq Settable(kind) \cup {None}
  /\ since \in 0..MaxSets

Init ==
  /\ kind \in Kinds
  /\ listed \in Listed
  /\ status = "running"
  /\ store = None
  /\ pc = "idle" /\ attr = NullList /\ tries = Tries
  /\ input = None /\ json = TRUE /\ ret = None
  /\ freed = FALSE
  /\ sets = 0
  /\ seen = {None} /\ since = 0

-----------------------------------------------------------------------------
(***************************************************************************)
(* The changes of the store.                                               *)
(***************************************************************************)
(* The value that was there is freed.                                      *)
Changed(v) ==
  /\ freed' = (pc = "copy")
  /\ sets' = sets + 1
  /\ seen' = IF pc = "idle" THEN {v} ELSE seen \cup {v}
  /\ since' = IF pc = "idle" THEN 0 ELSE since + 1

Same(in) == listed /\ store # None /\ DeepEqual(kind, in, store)

(* Config keeps a copy, made by the second constructor of tai::Attribute.  *)
(* It reads through the null pointer of an empty attrlist.                 *)
Store(in) ==
  IF RowsAreThere(kind, in)
  THEN store' = Copy(kind, in, AllocLike(kind, in)).out /\ UNCHANGED status
  ELSE status' = "undefined" /\ UNCHANGED store

(* Mutant: the server does without m_mtx.                                  *)
NotLocked == FALSE

(* The server's m_mtx is the reader's, for as long as the library's call   *)
(* takes; SetAttribute() and ClearAttribute() take it too.                 *)
Locked == pc \in {"direct", "copy"}

(* Outside of JSON, any text is a list of characters.                      *)
Sayable(js, v) == kind = "charlist" /\ ~js => v # BAD

(* SetAttribute(): the text is parsed, the library called under m_mtx, and *)
(* what the store holds already is not stored again.  A text that is an    *)
(* error, or for which there is no memory, changes nothing.                *)
SetAttribute(js, v) ==
  /\ status = "running" /\ sets < MaxSets
  /\ Sayable(js, v)
  /\ \E parsed \in FromText(kind, js, v) :
       \/ /\ parsed.ret = "undefined"
          /\ status' = "undefined" /\ UNCHANGED <<store, freed, history>>
       \/ /\ parsed.ret = "success"
          /\ ~Locked
          /\ IF Same(parsed.out) THEN UNCHANGED <<store, status>> ELSE Store(parsed.out)
          /\ Changed(Meant(kind, v))
  /\ UNCHANGED <<attribute, reader>>

(* The adapter's set_readonly(), which refuses what is not listed, takes   *)
(* Config's mutex only.                                                    *)
AdapterSets(v) ==
  /\ status = "running" /\ sets < MaxSets
  /\ listed
  /\ Store(Exact(kind, v))
  /\ Changed(v)
  /\ UNCHANGED <<attribute, reader>>

(* clear_attributes() refuses what is not listed.                          *)
ClearAttribute ==
  /\ status = "running" /\ sets < MaxSets
  /\ listed /\ ~Locked
  /\ store' = None
  /\ Changed(None)
  /\ UNCHANGED <<attribute, status, reader>>

-----------------------------------------------------------------------------
(***************************************************************************)
(* The read.                                                               *)
(***************************************************************************)
(* An empty text is none.                                                  *)
BeginGet(js, v) ==
  /\ status = "running"
  /\ pc = "idle"
  /\ v = None => js
  /\ v # None => Sayable(js, v) /\ (v = <<>> => js)
  /\ pc' = "alloc" /\ attr' = NullList /\ tries' = Tries /\ input' = v /\ json' = js
  /\ UNCHANGED <<attribute, status, store, ret, freed, history>>

Fail(why) == pc' = "failed" /\ ret' = why

(* BUFFER_OVERFLOW: the next try, if one is left.                          *)
TryAgain ==
  /\ IF tries = 1 THEN Fail("overflow") ELSE pc' = "alloc" /\ UNCHANGED ret
  /\ tries' = tries - 1

(* tai_metadata_alloc_attr_value() and, where the client passed a text,    *)
(* its deserialization into the buffer b.                                  *)
Filled(b) ==
  IF input = None THEN [ret |-> "success", out |-> b]
  ELSE Deserialize(kind, json, input, b)

Allocate ==
  /\ status = "running"
  /\ pc = "alloc"
  /\ \E b \in AllocAgain(kind, attr) :
       IF b = NO_MEMORY
       THEN Fail("no_memory") /\ UNCHANGED <<status, attr, tries>>
       ELSE LET filled == Filled(b) IN
            /\ attr' = filled.out
            /\ \/ filled.ret = "success" /\ pc' = "get" /\ UNCHANGED <<status, tries, ret>>
               \/ filled.ret = "overflow" /\ TryAgain /\ UNCHANGED status
               \/ filled.ret = "error" /\ Fail("error") /\ UNCHANGED <<status, tries>>
               \/ filled.ret = "undefined" /\ status' = "undefined"
                    /\ UNCHANGED <<pc, tries, ret>>
  /\ UNCHANGED <<attribute, store, input, json, freed, history>>

(* The library's get_attributes(): Config copies what m_info lists and is  *)
(* set, and leaves the rest to the adapter's default getter.               *)
GetAttribute ==
  /\ status = "running"
  /\ pc = "get"
  /\ \/ /\ listed /\ store # None
        /\ LET copied == Copy(kind, store, attr) IN
           /\ attr' = copied.out
           /\ IF copied.fits THEN pc' = "done" /\ UNCHANGED <<tries, ret>> ELSE TryAgain
     \/ /\ ~listed \/ store = None
        /\ pc' = "direct" /\ UNCHANGED <<attr, tries, ret>>
  /\ UNCHANGED <<attribute, status, store, input, json, freed, history>>

(* The status the default getter was called for.                           *)
Reason == IF listed THEN "uninitialized" ELSE "unsupported"

(* direct_get(): a pointer to the value, without the mutex.  Without one,  *)
(* the answer depends on whether the attribute is READ_ONLY.               *)
DirectGet ==
  /\ status = "running"
  /\ pc = "direct"
  /\ IF store # None THEN pc' = "copy" /\ UNCHANGED ret
                     ELSE Fail(Reason) \/ Fail("uninitialized")
  /\ UNCHANGED <<attribute, status, store, attr, tries, input, json, freed, history>>

(* The copy of that value.  Any failure is answered with the status the    *)
(* getter was called for.                                                  *)
DirectCopy ==
  /\ status = "running"
  /\ pc = "copy"
  /\ \/ freed /\ status' = "undefined" /\ UNCHANGED <<pc, attr, ret>>
     \/ /\ ~freed /\ UNCHANGED status
        /\ LET copied == Copy(kind, store, attr) IN
           /\ attr' = copied.out
           /\ IF copied.fits THEN pc' = "done" /\ UNCHANGED ret ELSE Fail(Reason)
  /\ UNCHANGED <<attribute, store, tries, input, json, freed, history>>

(* The answer is sent and the buffer freed.                                *)
Return ==
  /\ status = "running"
  /\ pc \in {"done", "failed"}
  /\ pc' = "idle" /\ attr' = NullList /\ tries' = Tries
  /\ input' = None /\ json' = TRUE /\ ret' = None
  /\ seen' = {IF store = None THEN None ELSE ValueOf(kind, store)}
  /\ since' = 0
  /\ UNCHANGED <<attribute, status, store, freed, sets>>

Next ==
  \/ \E js \in Json, v \in Texts[kind] : SetAttribute(js, v)
  \/ \E v \in Values[kind] : AdapterSets(v)
  \/ ClearAttribute
  \/ \E js \in Json \cup {TRUE}, v \in Inputs[kind] \cup {None} : BeginGet(js, v)
  \/ Allocate \/ GetAttribute \/ DirectGet \/ DirectCopy \/ Return

Spec == Init /\ [][Next]_vars

-----------------------------------------------------------------------------
Covered(b) ==
  /\ b.count <= Room(b)
  /\ kind \in Nested => \A i \in 1..Room(b) : b.list[i].count <= Room(b.list[i])

(* No copy runs over its buffer: the count the library is given, or keeps, *)
(* is no more than the room there is, in every row too, though failed      *)
(* copies raise it (taimetadatautils.c:342).  Memory that is not the       *)
(* value's is touched in three cases only: the copy of an empty attrlist   *)
(* (taimetadatautils.c:698), an enum list in a text that is not JSON       *)
(* (taiserialize.c:847), and the default getter's copy of a listed value   *)
(* that was not set when Config looked and was set twice since             *)
(* (basic.hpp:146).                                                        *)
MemoryIsSafe ==
  /\ pc \in {"get", "direct", "copy"} => Covered(attr)
  /\ store # None => Covered(store)
  /\ status = "undefined" =>
       \/ kind = "attrlist" /\ <<>> \in seen
       \/ kind = "enumlist" /\ FALSE \in Json
       \/ pc = "copy" /\ listed /\ None \in seen /\ since >= 2

(* A read returns a value that was set, whole: through the text, the copy  *)
(* Config keeps, and the tries that failed, with others setting longer and *)
(* shorter values in between.  Of a text, that is what the parser takes it *)
(* for: characters are cut and unknown values of an enum are not written.  *)
ReaderSeesWhatWasSet ==
  pc = "done" => ValueOf(kind, attr) \in seen \ {None}

Longer(v, w) ==
  Len(v) > Len(w) \/ (kind \in Nested /\ \E i \in DOMAIN v : Len(v[i]) > Len(w[i]))

Passed == IF input \in {None, BAD} THEN {} ELSE {Meant(kind, input)}

(* The client passed a text along, to whose size the buffer shrinks with   *)
(* every try, or one that asks for more and more; a row is longer than the *)
(* default, and the next try knows nothing of that; or two rows or more of *)
(* an objmap are given sizes by chance.                                    *)
Excused ==
  LET values == seen \ {None} IN
  \/ \E w \in Passed : \E v \in values : Longer(v, w)
  \/ Passed # {} /\ kind = "enumlist" /\ ~json /\ HasBad(input)
  \/ kind = "attrlist" /\ \E v \in values \cup Passed :
       \E i \in DOMAIN v : Len(v[i]) > DEFAULT_LIST_SIZE
  \/ kind = "objmap" /\ \E v \in values \cup Passed : Len(v) >= 2

(* Three tries are enough unless the value was changed twice meanwhile, or *)
(* for one of the reasons above; an error is one of the text that was      *)
(* passed along.                                                           *)
RetryIsEnough ==
  pc = "failed" =>
    CASE ret = "overflow" -> since >= 2 \/ Excused
      [] ret = "error" -> input # None /\ Faulty(kind, input)
      [] ret = "no_memory" -> kind = "objmap"
      [] ret = "uninitialized" -> None \in seen
      [] ret = "unsupported" -> ~listed

(* Where the memory is not enough the library says so, "must return        *)
(* TAI_STATUS_BUFFER_OVERFLOW" (docs/attributes.md:66), and an attribute   *)
(* that has a value is not reported as unsupported.                        *)
OverflowIsReported ==
  pc = "failed" /\ ret = "unsupported" => None \in seen
=============================================================================
