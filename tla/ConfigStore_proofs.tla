------------------------- MODULE ConfigStore_proofs -------------------------
(***************************************************************************)
(* Proofs about ConfigStore, for any table of attributes, any states and   *)
(* lists of any length.                                                    *)
(***************************************************************************)
EXTENDS ConfigStore, SequenceTheorems, SetLemmas

(***************************************************************************)
(* Positions and lists.                                                    *)
(***************************************************************************)

LEMMA ListFacts ==
  ASSUME NEW S, NEW list \in Lists(S)
  PROVE  /\ Len(list) \in Nat
         /\ Len(list) <= MaxList
         /\ \A i \in 1..Len(list) : list[i] \in S
<1>1. PICK n \in 0..MaxList : list \in [1..n -> S]
  BY DEF Lists
<1>2. MaxList \in Nat
  BY ConfigAssumption
<1>3. n \in Nat /\ n <= MaxList
  BY <1>1, <1>2
<1>4. list \in Seq(S) /\ Len(list) = n
  BY <1>1, <1>3, IsASeq, LenProperties
<1> QED
  BY <1>1, <1>3, <1>4

LEMMA PositionFacts ==
  ASSUME NEW S, NEW list \in Lists(S), NEW P \in SUBSET (1..Len(list))
  PROVE  /\ P \in SUBSET Int
         /\ P \in SUBSET (1..MaxList)
         /\ IsFiniteSet(P)
         /\ P # {} => Min(P) \in P /\ Min(P) \in 1..MaxList
         /\ P # {} => Max(P) \in P
<1>1. Len(list) \in Nat /\ Len(list) <= MaxList /\ MaxList \in Nat
  BY ListFacts, ConfigAssumption
<1>2. IsFiniteSet(1..Len(list))
  BY <1>1, FS_Interval
<1>3. P \in SUBSET Int /\ P \in SUBSET (1..MaxList) /\ IsFiniteSet(P)
  <2>1. \A i \in P : i \in Int /\ i \in 1..MaxList
    BY <1>1
  <2>2. IsFiniteSet(P)
    BY <1>2, FS_Subset
  <2> QED
    BY <2>1, <2>2
<1> QED
  BY <1>3, MinFacts, MaxFacts

(* The positions before a failure are fewer than the list has.             *)
LEMMA BeforeFacts ==
  ASSUME NEW S, NEW list \in Lists(S), NEW P \in SUBSET (1..Len(list)),
         NEW bad \in SUBSET P
  PROVE  /\ Before(P, bad) \in SUBSET (P \ bad)
         /\ bad = {} => Before(P, bad) = P
         /\ bad # {} => Cardinality(Before(P, bad)) \in 0..MaxList-1
<1>1. P \in SUBSET (1..MaxList) /\ P \in SUBSET Int /\ MaxList \in Nat
  BY PositionFacts, ConfigAssumption
<1>2. Before(P, bad) \in SUBSET (P \ bad) /\ (bad = {} => Before(P, bad) = P)
  <2>1. \A i \in P : ~(i < i)
    BY <1>1
  <2>2. \A i \in Before(P, bad) : i \in P /\ i \notin bad
    BY <2>1 DEF Before
  <2> QED
    BY <2>2 DEF Before
<1>3. ASSUME bad # {} PROVE Cardinality(Before(P, bad)) \in 0..MaxList-1
  <2>1. PICK b \in bad : TRUE
    BY <1>3
  <2>2. IsFiniteSet(1..MaxList) /\ Cardinality(1..MaxList) = MaxList
    BY <1>1, FS_Interval
  <2>3. IsFiniteSet((1..MaxList) \ {b}) /\ Cardinality((1..MaxList) \ {b}) = MaxList - 1
    <3>1. b \in 1..MaxList
      BY <1>1, <2>1
    <3> QED
      BY <2>2, <3>1, FS_RemoveElement
  <2>4. Before(P, bad) \in SUBSET ((1..MaxList) \ {b})
    BY <1>1, <1>2, <2>1
  <2>5. /\ IsFiniteSet(Before(P, bad))
        /\ Cardinality(Before(P, bad)) <= MaxList - 1
    BY <2>3, <2>4, FS_Subset
  <2>6. Cardinality(Before(P, bad)) \in Nat
    BY <2>5, FS_CardinalityType
  <2> QED
    BY <1>1, <2>5, <2>6
<1> QED
  BY <1>2, <1>3
-----------------------------------------------------------------------------
(***************************************************************************)
(* What the two passes do to a list.                                       *)
(***************************************************************************)
LEMMA SettingFacts ==
  ASSUME NEW s \in Setting
  PROVE  /\ s.id \in Attr
         /\ s.value \in Value
         /\ s = [id |-> s.id, value |-> s.value]
         /\ Info[s.id] \in InfoType
         /\ Info[s.id].fsm \in State
BY ConfigAssumption DEF Setting, InfoType

(* An attribute that the positions name gets a value they name, any other  *)
(* keeps its own.                                                          *)
LEMMA StoredFacts ==
  ASSUME NEW c \in Config, NEW list \in Lists(Setting), NEW P \in SUBSET (1..Len(list))
  PROVE  /\ Stored(c, list, P) \in Config
         /\ \A a \in Attr :
              \/ /\ \A i \in P : list[i].id # a
                 /\ Stored(c, list, P)[a] = c[a]
              \/ \E i \in P : list[i].id = a /\ Stored(c, list, P)[a] = list[i].value
<1> DEFINE of(a) == {i \in P : list[i].id = a}
<1>1. ASSUME NEW a \in Attr
      PROVE  /\ of(a) = {} => Stored(c, list, P)[a] = c[a]
             /\ of(a) # {} => \E i \in of(a) : Stored(c, list, P)[a] = list[i].value
  <2>1. Stored(c, list, P)[a] = IF of(a) = {} THEN c[a] ELSE list[Max(of(a))].value
    BY DEF Stored
  <2>2. of(a) # {} => Max(of(a)) \in of(a)
    <3>1. of(a) \in SUBSET (1..Len(list))
      OBVIOUS
    <3> HIDE DEF of
    <3> QED
      BY <3>1, PositionFacts
  <2> HIDE DEF of
  <2> QED
    BY <2>1, <2>2
<1>2. \A i \in P : list[i].value \in Value
  BY ListFacts, SettingFacts
<1>3. \A a \in Attr : Stored(c, list, P)[a] \in Value \cup {None}
  BY <1>1, <1>2 DEF Config
<1>4. Stored(c, list, P) = [a \in Attr |-> Stored(c, list, P)[a]]
  BY DEF Stored
<1>5. Stored(c, list, P) \in Config
  BY <1>3, <1>4 DEF Config
<1> QED
  BY <1>1, <1>5

(* The state asked for is a state, no higher than the current one nor than *)
(* what any of the settings asks for.                                      *)
LEMMA LowestFacts ==
  ASSUME NEW list \in Lists(Setting), NEW diff \in SUBSET (1..Len(list)),
         NEW readonly \in BOOLEAN, NEW current \in State
  PROVE  /\ Lowest(list, diff, readonly, current) \in State
         /\ Lowest(list, diff, readonly, current) <= current
         /\ \A i \in diff :
              Lowest(list, diff, readonly, current) <= Asked(list[i], readonly, current)
<1> DEFINE asked == {Asked(list[i], readonly, current) : i \in diff}
           states == {current} \cup asked
<1>1. states \subseteq State /\ current \in states
  <2>1. \A i \in diff : list[i] \in Setting
    BY ListFacts
  <2> QED
    BY <2>1, SettingFacts DEF Asked
<1>2. states \in SUBSET Int
  BY <1>1, ConfigAssumption
<1>3. IsFiniteSet(states)
  <2>1. IsFiniteSet(diff)
    BY PositionFacts
  <2> DEFINE f == [i \in diff |-> Asked(list[i], readonly, current)]
  <2>2. f \in Surjection(diff, asked)
    BY DEF Surjection
  <2>3. IsFiniteSet(asked)
    BY <2>1, <2>2, FS_Surjection
  <2>4. IsFiniteSet(asked \cup {current})
    BY <2>3, FS_AddElement
  <2>5. states = asked \cup {current}
    OBVIOUS
  <2> QED
    BY <2>4, <2>5
<1>4. Lowest(list, diff, readonly, current) = Min(states)
  BY DEF Lowest
<1>5. Min(states) \in states /\ \A y \in states : Min(states) <= y
  <2> HIDE DEF states
  <2> QED
    BY <1>1, <1>2, <1>3, MinFacts
<1>6. \A i \in diff : Asked(list[i], readonly, current) \in states
  OBVIOUS
<1> HIDE DEF states
<1> QED
  BY <1>1, <1>4, <1>5, <1>6

LEMMA LowestOfChanged ==
  ASSUME NEW list \in Lists(Setting), NEW diff \in SUBSET (1..Len(list)),
         NEW readonly \in BOOLEAN, NEW current \in State, NEW i \in diff,
         Info[list[i].id].listed, ~Info[list[i].id].readonly,
         Info[list[i].id].fsm # FSM_STATE_INIT
  PROVE  Lowest(list, diff, readonly, current) <= Info[list[i].id].fsm
<1>1. Asked(list[i], readonly, current) = Info[list[i].id].fsm
  BY DEF Asked, Storable
<1> QED
  BY <1>1, LowestFacts

(* What a successful second pass leaves of config.                         *)
StoresAll(r, c, list, diff, readonly, current) ==
  /\ r.next = Lowest(list, diff, readonly, current)
  /\ \A a \in Attr :
       \/ (\A i \in diff : list[i].id # a) /\ r.config[a] = c[a]
       \/ \E i \in diff : list[i].id = a /\ r.config[a] = list[i].value

(* And of any: what has changed is in the list, before every setting that   *)
(* was refused.                                                            *)
StopsAtFault(r, c, list, diff, readonly) ==
  \A a \in Attr : r.config[a] # c[a] =>
    \E i \in diff :
      /\ list[i].id = a /\ r.config[a] = list[i].value
      /\ \A j \in diff : j <= i => Storable(list[j], readonly)

IsResult(r) == r.config \in Config /\ r.status \in Status /\ r.next \in State

LEMMA StatusFacts ==
  /\ Success \in Status
  /\ \A code \in StatusCode : \A i \in 1..MaxList : convert(code, i) \in Status
  /\ \A code \in StatusCode \ {"success"} : \A i : convert(code, i) # Success
BY ConfigAssumption DEF Status, Success, StatusCode, convert

LEMMA RefusedFacts ==
  ASSUME NEW list \in Lists(Setting), NEW diff \in SUBSET (1..Len(list)),
         NEW readonly \in BOOLEAN
  PROVE  /\ Refused(list, diff, readonly) \in SUBSET diff
         /\ \A i \in diff : i \notin Refused(list, diff, readonly)
                              <=> Storable(list[i], readonly)
BY DEF Refused

(* Without a default setter.                                               *)
LEMMA StoreAllFacts ==
  ASSUME NEW c \in Config, NEW list \in Lists(Setting),
         NEW diff \in SUBSET (1..Len(list)), NEW readonly \in BOOLEAN, NEW current \in State
  PROVE  LET r == StoreAll(c, list, diff, readonly, current) IN
         /\ IsResult(r)
         /\ r.status = Success => StoresAll(r, c, list, diff, readonly, current)
         /\ StopsAtFault(r, c, list, diff, readonly)
<1> DEFINE bad == Refused(list, diff, readonly)
           stored == Before(diff, bad)
           r == StoreAll(c, list, diff, readonly, current)
           code == WhyNotStored(list[Min(bad)])
<1>1. /\ bad \in SUBSET diff
      /\ \A i \in diff : i \notin bad <=> Storable(list[i], readonly)
      /\ stored \in SUBSET (diff \ bad)
      /\ bad = {} => stored = diff
      /\ bad # {} => Cardinality(stored) \in 0..MaxList-1
  <2>1. bad \in SUBSET diff /\ \A i \in diff : i \notin bad <=> Storable(list[i], readonly)
    BY RefusedFacts
  <2> HIDE DEF bad
  <2> QED
    BY <2>1, BeforeFacts
<1>2. stored \in SUBSET (1..Len(list))
  BY <1>1
<1>3. /\ r.config = Stored(c, list, stored)
      /\ r.status = IF bad = {} THEN Success ELSE convert(code, Cardinality(stored) + 1)
      /\ r.next = IF bad = {} THEN Lowest(list, diff, readonly, current) ELSE current
  BY DEF StoreAll, Result
<1>4. code \in StatusCode \ {"success"}
  BY DEF WhyNotStored, StatusCode
<1>5. bad # {} => Cardinality(stored) + 1 \in 1..MaxList
  BY <1>1, ConfigAssumption
<1>6. \A i \in stored : \A j \in diff : j <= i => Storable(list[j], readonly)
  <2>1. ASSUME NEW i \in stored, NEW j \in diff, j <= i, j \in bad PROVE FALSE
    <3>1. i < j
      BY <2>1 DEF Before
    <3>2. i \in Int /\ j \in Int
      BY <1>2, PositionFacts
    <3> QED
      BY <2>1, <3>1, <3>2
  <2> QED
    BY <1>1, <2>1
<1>7. /\ Stored(c, list, stored) \in Config
      /\ \A a \in Attr :
           \/ /\ \A i \in stored : list[i].id # a
              /\ Stored(c, list, stored)[a] = c[a]
           \/ \E i \in stored : list[i].id = a /\ Stored(c, list, stored)[a] = list[i].value
  BY <1>2, StoredFacts
<1> HIDE DEF bad, stored, r, code
<1>8. IsResult(r)
  BY <1>3, <1>4, <1>5, <1>7, StatusFacts, LowestFacts DEF IsResult
<1>9. r.status = Success => StoresAll(r, c, list, diff, readonly, current)
  BY <1>1, <1>3, <1>4, <1>7, StatusFacts DEF StoresAll
<1>10. StopsAtFault(r, c, list, diff, readonly)
  BY <1>1, <1>3, <1>6, <1>7 DEF StopsAtFault
<1> QED
  BY <1>8, <1>9, <1>10 DEF r

(* With one: what is refused is stored after the rest.                     *)
LEMMA StoreRestFacts ==
  ASSUME NEW c \in Config, NEW list \in Lists(Setting),
         NEW diff \in SUBSET (1..Len(list)), NEW readonly \in BOOLEAN, NEW current \in State
  PROVE  LET r == StoreRest(c, list, diff, readonly, current) IN
         /\ IsResult(r)
         /\ r.status = Success => StoresAll(r, c, list, diff, readonly, current)
<1> DEFINE failed == Refused(list, diff, readonly)
           bad == {i \in failed : ~Info[list[i].id].known}
           first == Stored(c, list, diff \ failed)
           rest == Before(failed, bad)
           r == StoreRest(c, list, diff, readonly, current)
<1>1. /\ failed \in SUBSET (1..Len(list)) /\ failed \in SUBSET diff
      /\ diff \ failed \in SUBSET (1..Len(list))
      /\ bad \in SUBSET failed
  BY RefusedFacts
<1>2. rest \in SUBSET failed /\ (bad = {} => rest = failed)
  <2> HIDE DEF failed, bad
  <2> QED
    BY <1>1, BeforeFacts
<1>3. /\ r.config = Stored(first, list, rest)
      /\ r.status = IF bad = {} THEN Success ELSE convert("unsupported", 1)
      /\ r.next = IF bad = {} THEN Lowest(list, diff, readonly, current) ELSE current
  BY DEF StoreRest, Result
<1> HIDE DEF failed, bad, rest, r
<1>4. /\ first \in Config
      /\ \A a \in Attr :
           \/ (\A i \in diff \ failed : list[i].id # a) /\ first[a] = c[a]
           \/ \E i \in diff \ failed : list[i].id = a /\ first[a] = list[i].value
  BY <1>1, StoredFacts
<1> HIDE DEF first
<1>5. /\ r.config \in Config
      /\ \A a \in Attr :
           \/ (\A i \in rest : list[i].id # a) /\ r.config[a] = first[a]
           \/ \E i \in rest : list[i].id = a /\ r.config[a] = list[i].value
  <2>1. rest \in SUBSET (1..Len(list))
    BY <1>1, <1>2
  <2> QED
    BY <1>3, <1>4, <2>1, StoredFacts
<1>6. "unsupported" \in StatusCode \ {"success"} /\ 1 \in 1..MaxList
  BY ConfigAssumption DEF StatusCode
<1>7. IsResult(r)
  BY <1>3, <1>5, <1>6, StatusFacts, LowestFacts DEF IsResult
<1>8. ASSUME r.status = Success PROVE StoresAll(r, c, list, diff, readonly, current)
  <2>1. bad = {} /\ rest = failed
    BY <1>2, <1>3, <1>6, <1>8, StatusFacts
  <2>2. ASSUME NEW a \in Attr
        PROVE  \/ (\A i \in diff : list[i].id # a) /\ r.config[a] = c[a]
               \/ \E i \in diff : list[i].id = a /\ r.config[a] = list[i].value
    BY <1>1, <1>4, <1>5, <2>1
  <2> QED
    BY <1>3, <2>1, <2>2 DEF StoresAll
<1> QED
  BY <1>7, <1>8 DEF r
-----------------------------------------------------------------------------
(***************************************************************************)
(* Type correctness, and what holds between the two passes of a call.      *)
(***************************************************************************)

(* What the first pass has found out still holds when the second begins,   *)
(* as the FSM thread changes READ_ONLY attributes only.                    *)
Validated ==
  Running("store") =>
    /\ call.diff \subseteq 1..Len(call.list)
    /\ \A i \in 1..Len(call.list) : ~Unacceptable(call.list[i])
    /\ \A i \in (1..Len(call.list)) \ call.diff :
         LET s == call.list[i] IN
         Info[s.id].listed /\ (Info[s.id].readonly \/ config[s.id] = s.value)

(* Only a constructor works on an object that does not exist yet.          *)
Existing ==
  /\ ~exists => config = Empty /\ given = Empty
  /\ call.op = "create" => ~exists
  /\ call.op \in {"set", "clear"} => exists

IInv == TypeOK /\ Validated /\ Existing

LEMMA RunningFacts ==
  ASSUME TypeOK, NEW stage \in {"validate", "store"}, Running(stage)
  PROVE  /\ call.op \in {"create", "set"}
         /\ call # NoCall
         /\ call.list \in Lists(Setting)
         /\ call.from \in State
BY DEF TypeOK, Call, Running, NoCall

LEMMA InitIInv == Init => IInv
<1> SUFFICES ASSUME Init PROVE IInv
  OBVIOUS
<1>1. Empty \in Config
  BY DEF Empty, Config
<1>2. default_setter \in BOOLEAN
  BY ConfigAssumption DEF Init
<1>3. outcome \in [status : Status, next : State]
  BY StatusFacts, ConfigAssumption DEF Init, Quiet
<1>4. call = NoCall /\ call \in Call /\ call.op = "none"
  BY DEF Init, Call, NoCall
<1>5. TypeOK
  BY <1>1, <1>2, <1>3, <1>4 DEF TypeOK, Init
<1> QED
  BY <1>4, <1>5 DEF IInv, Validated, Existing, Running, Init

(* A call that arrives.                                                    *)
LEMMA InputsAreLists == Lists(Inputs) \subseteq Lists(Setting)
<1>1. \A n \in Nat : [1..n -> Inputs] \subseteq [1..n -> Setting]
  BY ConfigAssumption
<1> QED
  BY <1>1, ConfigAssumption DEF Lists

LEMMA NextArrives ==
  ASSUME IInv, UNCHANGED default_setter,
         \/ \E list \in Lists(Inputs) : Create(list)
         \/ \E list \in Lists(Inputs), s \in State : SetAttributes(list, s)
         \/ \E ids \in Lists(Attr), s \in State : ClearAttributes(ids, s)
  PROVE  IInv' /\ call = NoCall /\ call' # NoCall
<1>1. outcome' = Quiet /\ Quiet \in [status : Status, next : State]
  BY StatusFacts, ConfigAssumption
     DEF Quiet, Create, SetAttributes, ClearAttributes
<1>2. /\ call = NoCall
      /\ call' \in Call /\ call' # NoCall
      /\ ~Running("store")'
      /\ call'.op = "create" => ~exists
      /\ call'.op \in {"set", "clear"} => exists
  <2>1. CASE \E list \in Lists(Inputs) : Create(list)
    <3>1. PICK list \in Lists(Setting) : Create(list)
      BY <2>1, InputsAreLists
    <3> QED
      BY <3>1, ConfigAssumption DEF Create, Call, NoCall, Running
  <2>2. CASE \E list \in Lists(Inputs), s \in State : SetAttributes(list, s)
    <3>1. PICK list \in Lists(Setting), s \in State : SetAttributes(list, s)
      BY <2>2, InputsAreLists
    <3> QED
      BY <3>1 DEF SetAttributes, Call, NoCall, Running
  <2>3. CASE \E ids \in Lists(Attr), s \in State : ClearAttributes(ids, s)
    BY <2>3 DEF ClearAttributes, Call, NoCall, Running
  <2> QED
    BY <2>1, <2>2, <2>3
<1>3. UNCHANGED <<exists, config, given>>
  BY DEF Create, SetAttributes, ClearAttributes
<1> QED
  BY <1>1, <1>2, <1>3 DEF IInv, TypeOK, Validated, Existing

(* A call that returns from a state it leaves alone.                       *)
LEMMA NextReturns ==
  ASSUME IInv, UNCHANGED default_setter,
         NEW status \in Status, NEW next \in State, Return(status, next),
         exists' \in BOOLEAN, exists => exists', config' \in Config, given' \in Config,
         ~exists' => config' = Empty /\ given' = Empty
  PROVE  IInv'
<1>1. call' = NoCall /\ call' \in Call /\ call'.op = "none"
  BY DEF Return, NoCall, Call
<1>2. outcome' \in [status : Status, next : State]
  BY DEF Return
<1> QED
  BY <1>1, <1>2 DEF IInv, TypeOK, Validated, Existing, Running

(* The first pass fails, finds nothing to store, or goes on.               *)
LEMMA ValidateFacts ==
  ASSUME IInv, Validate
  PROVE  /\ UNCHANGED <<config, given>>
         /\ \/ \E status \in Status :
                 status # Success /\ Return(status, call.from) /\ UNCHANGED exists
            \/ /\ Return(Success, call.from) /\ exists' = TRUE
               /\ \A i \in 1..Len(call.list) :
                    /\ ~Unacceptable(call.list[i])
                    /\ ~Differs(config, call.list[i])
            \/ /\ call' = [op |-> call.op, stage |-> "store", list |-> call.list,
                           from |-> call.from, diff |-> Diff(config, call.list)]
               /\ \A i \in 1..Len(call.list) : ~Unacceptable(call.list[i])
               /\ UNCHANGED <<exists, outcome>>
<1> DEFINE bad == {i \in 1..Len(call.list) : Unacceptable(call.list[i])}
           diff == Diff(config, call.list)
           code == WhyNot(call.list[Min(bad)])
<1>1. TypeOK /\ Running("validate") /\ call.list \in Lists(Setting)
  BY RunningFacts DEF IInv, Validate
<1>2. bad # {} => Min(bad) \in 1..MaxList
  <2>1. bad \in SUBSET (1..Len(call.list))
    OBVIOUS
  <2> HIDE DEF bad
  <2> QED
    BY <1>1, <2>1, PositionFacts
<1>3. code \in StatusCode \ {"success"}
  BY DEF WhyNot, StatusCode
<1>4. bad # {} => /\ convert(code, Min(bad)) \in Status
                  /\ convert(code, Min(bad)) # Success
  BY <1>2, <1>3, StatusFacts
<1>5. exists \in BOOLEAN
  BY DEF IInv, TypeOK
<1>6. /\ UNCHANGED <<config, given>>
      /\ exists' = (exists \/ (call' = NoCall /\ outcome'.status = Success))
      /\ IF bad # {} THEN Return(convert(code, Min(bad)), call.from)
         ELSE IF diff = {} THEN Return(Success, call.from)
         ELSE /\ call' = [op |-> call.op, stage |-> "store", list |-> call.list,
                          from |-> call.from, diff |-> diff]
              /\ UNCHANGED outcome
  BY DEF Validate
<1>7. CASE bad # {}
  <2>1. Return(convert(code, Min(bad)), call.from)
    BY <1>6, <1>7
  <2>2. outcome'.status # Success
    BY <1>4, <1>7, <2>1 DEF Return
  <2>3. UNCHANGED exists
    BY <1>5, <1>6, <2>2
  <2> HIDE DEF bad, code
  <2> QED
    BY <1>4, <1>6, <1>7, <2>1, <2>3
<1>8. CASE bad = {} /\ diff = {}
  <2>1. Return(Success, call.from)
    BY <1>6, <1>8
  <2>2. exists' = TRUE
    BY <1>6, <2>1 DEF Return
  <2>3. \A i \in 1..Len(call.list) : /\ ~Unacceptable(call.list[i])
                                     /\ ~Differs(config, call.list[i])
    BY <1>8 DEF Diff
  <2> QED
    BY <1>6, <2>1, <2>2, <2>3
<1>9. CASE bad = {} /\ diff # {}
  <2>1. /\ call' = [op |-> call.op, stage |-> "store", list |-> call.list,
                    from |-> call.from, diff |-> diff]
        /\ UNCHANGED outcome
    BY <1>6, <1>9
  <2>2. UNCHANGED exists
    BY <1>5, <1>6, <2>1 DEF NoCall
  <2>3. \A i \in 1..Len(call.list) : ~Unacceptable(call.list[i])
    BY <1>9
  <2> QED
    BY <1>6, <2>1, <2>2, <2>3
<1> QED
  BY <1>7, <1>8, <1>9

LEMMA NextValidate ==
  ASSUME IInv, Validate, UNCHANGED default_setter
  PROVE  IInv'
<1>1. /\ TypeOK /\ call.op \in {"create", "set"}
      /\ call.list \in Lists(Setting) /\ call.from \in State
  BY RunningFacts DEF IInv, Validate
<1>2. /\ UNCHANGED <<config, given>>
      /\ exists \in BOOLEAN /\ config \in Config /\ given \in Config
      /\ ~exists => config = Empty /\ given = Empty
  BY ValidateFacts DEF IInv, TypeOK, Existing
<1>3. CASE \E status \in Status : Return(status, call.from) /\ UNCHANGED exists
  BY <1>1, <1>2, <1>3, NextReturns
<1>4. CASE Return(Success, call.from) /\ exists' = TRUE
  BY <1>1, <1>2, <1>4, NextReturns, StatusFacts
<1>5. CASE /\ call' = [op |-> call.op, stage |-> "store", list |-> call.list,
                       from |-> call.from, diff |-> Diff(config, call.list)]
           /\ \A i \in 1..Len(call.list) : ~Unacceptable(call.list[i])
           /\ UNCHANGED <<exists, outcome>>
  <2> DEFINE diff == Diff(config, call.list)
  <2>1. diff \in SUBSET (1..Len(call.list)) /\ diff \in SUBSET (1..MaxList)
    <3>1. diff \in SUBSET (1..Len(call.list))
      BY DEF Diff
    <3> HIDE DEF diff
    <3>2. Len(call.list) \in Nat /\ Len(call.list) <= MaxList /\ MaxList \in Nat
      BY <1>1, ListFacts, ConfigAssumption
    <3>3. \A i \in diff : i \in 1..MaxList
      BY <3>1, <3>2
    <3> QED
      BY <3>1, <3>3
  <2>2. call' \in Call
    BY <1>1, <1>5, <2>1 DEF Call
  <2>3. TypeOK'
    BY <1>2, <1>5, <2>2 DEF IInv, TypeOK
  <2>4. Existing'
    BY <1>2, <1>5 DEF IInv, Existing
  <2>5. Validated'
    <3>1. call'.diff = diff /\ call'.list = call.list
      BY <1>5
    <3>2. \A i \in (1..Len(call.list)) \ diff :
            LET s == call.list[i] IN
            Info[s.id].listed /\ config[s.id] = s.value
      BY DEF Diff, Differs
    <3> HIDE DEF diff
    <3>3. \A s : Unacceptable(s)' <=> Unacceptable(s)
      BY DEF Unacceptable
    <3> QED
      BY <1>2, <1>5, <2>1, <3>1, <3>2, <3>3 DEF Validated
  <2> QED
    BY <2>3, <2>4, <2>5 DEF IInv
<1> QED
  BY ValidateFacts, <1>3, <1>4, <1>5

(* The second pass, with a default setter or without one.                  *)
LEMMA StoreFacts ==
  ASSUME IInv, Store
  PROVE  /\ call.op \in {"create", "set"}
         /\ call # NoCall
         /\ call.list \in Lists(Setting)
         /\ call.diff \in SUBSET (1..Len(call.list))
         /\ call.from \in State
         /\ LET readonly == call.op = "create" IN
            \E r :
              /\ IsResult(r)
              /\ r.status = Success =>
                   StoresAll(r, config, call.list, call.diff, readonly, call.from)
              /\ ~default_setter =>
                   StopsAtFault(r, config, call.list, call.diff, readonly)
              /\ Return(r.status, r.next)
              /\ exists' = (exists \/ r.status = Success)
              /\ config' = IF exists' THEN r.config ELSE Empty
              /\ given' = IF exists THEN given
                             ELSE [a \in Attr |-> IF Info[a].readonly THEN config'[a]
                                                  ELSE None]
<1> DEFINE readonly == call.op = "create"
           r == IF default_setter
                THEN StoreRest(config, call.list, call.diff, readonly, call.from)
                ELSE StoreAll(config, call.list, call.diff, readonly, call.from)
<1>1. /\ call.op \in {"create", "set"} /\ call # NoCall
      /\ call.list \in Lists(Setting) /\ call.from \in State
  BY RunningFacts DEF IInv, Store
<1>2. call.diff \in SUBSET (1..Len(call.list))
  BY DEF IInv, Validated, Store
<1>3. config \in Config /\ default_setter \in BOOLEAN /\ readonly \in BOOLEAN
  BY DEF IInv, TypeOK
<1>4. /\ Return(r.status, r.next)
      /\ exists' = (exists \/ r.status = Success)
      /\ config' = IF exists' THEN r.config ELSE Empty
      /\ given' = IF exists THEN given
                     ELSE [a \in Attr |-> IF Info[a].readonly THEN config'[a] ELSE None]
  BY DEF Store
<1> HIDE DEF readonly
<1>5. CASE default_setter
  <2>1. r = StoreRest(config, call.list, call.diff, readonly, call.from)
    BY <1>5
  <2>2. /\ IsResult(r)
        /\ r.status = Success =>
             StoresAll(r, config, call.list, call.diff, readonly, call.from)
    <3> HIDE DEF r
    <3> QED
      BY <1>1, <1>2, <1>3, <2>1, StoreRestFacts
  <2> HIDE DEF r
  <2> QED
    BY <1>1, <1>2, <1>4, <1>5, <2>2 DEF readonly
<1>6. CASE ~default_setter
  <2>1. r = StoreAll(config, call.list, call.diff, readonly, call.from)
    BY <1>6
  <2>2. /\ IsResult(r)
        /\ r.status = Success =>
             StoresAll(r, config, call.list, call.diff, readonly, call.from)
        /\ StopsAtFault(r, config, call.list, call.diff, readonly)
    <3> HIDE DEF r
    <3> QED
      BY <1>1, <1>2, <1>3, <2>1, StoreAllFacts
  <2> HIDE DEF r
  <2> QED
    BY <1>1, <1>2, <1>4, <2>2 DEF readonly
<1> QED
  BY <1>5, <1>6

LEMMA NextStore ==
  ASSUME IInv, Store, UNCHANGED default_setter
  PROVE  IInv'
<1>1. PICK r :
        /\ IsResult(r)
        /\ Return(r.status, r.next)
        /\ exists' = (exists \/ r.status = Success)
        /\ config' = IF exists' THEN r.config ELSE Empty
        /\ given' = IF exists THEN given
                       ELSE [a \in Attr |-> IF Info[a].readonly THEN config'[a] ELSE None]
  BY StoreFacts
<1>2. exists \in BOOLEAN /\ given \in Config
  BY DEF IInv, TypeOK
<1>3. exists' \in BOOLEAN /\ (exists => exists')
  BY <1>1, <1>2
<1>4. config' \in Config
  BY <1>1 DEF IsResult, Empty, Config
<1>5. given' \in Config
  BY <1>1, <1>2, <1>4 DEF Config
<1>6. ASSUME ~exists' PROVE config' = Empty /\ given' = Empty
  <2>1. config' = Empty /\ ~exists
    BY <1>1, <1>6, <1>3
  <2>2. given' = [a \in Attr |-> IF Info[a].readonly THEN Empty[a] ELSE None]
    BY <1>1, <2>1
  <2>3. \A a \in Attr : Empty[a] = None
    BY DEF Empty
  <2>4. given' = [a \in Attr |-> None]
    BY <2>2, <2>3
  <2> QED
    BY <2>1, <2>4 DEF Empty
<1> QED
  BY <1>1, <1>3, <1>4, <1>5, <1>6, NextReturns DEF IsResult

LEMMA ClearFacts ==
  ASSUME IInv, Clear
  PROVE  /\ call.ids \in Lists(Attr)
         /\ config' \in Config
         /\ \A a \in Attr :
              config'[a] # config[a] =>
                config'[a] = None /\ Info[a].listed /\ Info[a].clearable
         /\ \E status \in Status : Return(status, call.from)
         /\ call.from \in State
<1> DEFINE bad == {i \in 1..Len(call.ids) : Unclearable(call.ids[i])}
           cleared == Before(1..Len(call.ids), bad)
           code == IF Info[call.ids[Min(bad)]].listed THEN "unclearable" ELSE "unsupported"
<1>1. call.op = "clear" /\ call.ids \in Lists(Attr) /\ call.from \in State
  BY DEF IInv, TypeOK, Call, Clear, NoCall
<1>2. config \in Config
  BY DEF IInv, TypeOK
<1>3. config' = [a \in Attr |-> IF \E i \in cleared : call.ids[i] = a
                                THEN None ELSE config[a]]
  BY DEF Clear
<1>4. Return(IF bad = {} THEN Success ELSE convert(code, Min(bad)), call.from)
  BY DEF Clear
<1>5. bad \in SUBSET (1..Len(call.ids))
  OBVIOUS
<1>6. \A i \in cleared : ~Unclearable(call.ids[i])
  <2>1. cleared \in SUBSET ((1..Len(call.ids)) \ bad)
    <3> HIDE DEF bad
    <3> QED
      BY <1>1, <1>5, BeforeFacts
  <2> QED
    BY <2>1
<1>7. bad # {} => Min(bad) \in 1..MaxList
  <2> HIDE DEF bad
  <2> QED
    BY <1>1, <1>5, PositionFacts
<1>8. code \in StatusCode
  BY DEF StatusCode
<1> HIDE DEF bad, cleared, code
<1>9. \E status \in Status : Return(status, call.from)
  BY <1>4, <1>7, <1>8, StatusFacts
<1>10. config' \in Config
  BY <1>2, <1>3 DEF Config
<1>11. \A a \in Attr : config'[a] # config[a] =>
         config'[a] = None /\ Info[a].listed /\ Info[a].clearable
  BY <1>3, <1>6 DEF Unclearable
<1> QED
  BY <1>1, <1>9, <1>10, <1>11

LEMMA NextClear ==
  ASSUME IInv, Clear, UNCHANGED default_setter
  PROVE  IInv'
<1>1. UNCHANGED <<exists, given>> /\ exists = TRUE
  BY DEF IInv, TypeOK, Existing, Clear
<1>2. given \in Config
  BY DEF IInv, TypeOK
<1> QED
  BY <1>1, <1>2, ClearFacts, NextReturns

LEMMA NextSetReadonly ==
  ASSUME IInv, NEW s \in Setting, SetReadonly(s), UNCHANGED default_setter
  PROVE  IInv'
<1>1. s.id \in Attr /\ s.value \in Value
  BY SettingFacts
<1>2. TypeOK'
  BY <1>1 DEF IInv, TypeOK, SetReadonly, Config
<1>3. Existing'
  BY DEF IInv, Existing, SetReadonly
<1>4. ASSUME Running("store") PROVE Validated'
  <2>1. call.list \in Lists(Setting)
    BY <1>4, RunningFacts DEF IInv
  <2>2. \A i \in 1..Len(call.list) : call.list[i].id \in Attr
    BY <2>1, ListFacts, SettingFacts
  <2>3. \A a \in Attr : Info[a].readonly \/ config'[a] = config[a]
    BY <1>1 DEF IInv, TypeOK, Config, SetReadonly
  <2>4. \A x : Unacceptable(x)' <=> Unacceptable(x)
    BY DEF Unacceptable
  <2> QED
    BY <1>4, <2>2, <2>3, <2>4 DEF IInv, Validated, Running, SetReadonly
<1>5. Validated'
  BY <1>4 DEF Validated, Running, SetReadonly
<1> QED
  BY <1>2, <1>3, <1>5 DEF IInv

LEMMA NextIInv == IInv /\ [Next]_vars => IInv'
<1> SUFFICES ASSUME IInv, [Next]_vars PROVE IInv'
  OBVIOUS
<1>1. CASE UNCHANGED vars
  BY <1>1 DEF vars, IInv, TypeOK, Validated, Existing, Running, Unacceptable
<1>2. CASE \/ \E list \in Lists(Inputs) : Create(list)
           \/ \E list \in Lists(Inputs), s \in State : SetAttributes(list, s)
           \/ \E ids \in Lists(Attr), s \in State : ClearAttributes(ids, s)
  <2>1. CASE UNCHANGED default_setter
    BY <1>2, <2>1, NextArrives
  <2> QED
    BY <1>1, <2>1 DEF Next, vars
<1>3. CASE Validate /\ UNCHANGED default_setter
  BY <1>3, NextValidate
<1>4. CASE Store /\ UNCHANGED default_setter
  BY <1>4, NextStore
<1>5. CASE Clear /\ UNCHANGED default_setter
  BY <1>5, NextClear
<1>6. CASE (\E s \in Setting : SetReadonly(s)) /\ UNCHANGED default_setter
  BY <1>6, NextSetReadonly
<1> QED
  BY <1>1, <1>2, <1>3, <1>4, <1>5, <1>6 DEF Next

(* The variables keep to their types: the state a call asks for is one of  *)
(* the FSM's, and the index in its status is a position of the list        *)
(* (config.hpp:307-395).                                                   *)
THEOREM TypeCorrect == Spec => []TypeOK
<1>1. IInv => TypeOK
  BY DEF IInv
<1> QED
  BY <1>1, InitIInv, NextIInv, PTL DEF Spec
-----------------------------------------------------------------------------
(***************************************************************************)
(* What a call does.                                                       *)
(***************************************************************************)

(* Only the two passes end a call that stores a list.                      *)
LEMMA EndsByAPass ==
  ASSUME IInv, [Next]_vars, Ends, call.op \in {"create", "set"}
  PROVE  Validate \/ Store
<1>1. call' # call
  BY DEF Ends
<1>2. Next
  BY <1>1 DEF vars
<1>3. ~Clear
  BY DEF Clear
<1>4. \A s : ~SetReadonly(s)
  BY <1>1 DEF SetReadonly
<1>5. call # NoCall
  BY DEF Ends
<1> QED
  BY <1>2, <1>3, <1>4, <1>5 DEF Next, Create, SetAttributes, ClearAttributes

(* When a call succeeds the attributes hold what its list says, whatever   *)
(* the FSM thread stored between the passes (config.hpp:317-379).          *)
THEOREM SuccessCorrect == Spec => SuccessStoresTheList
<1> DEFINE Told ==
      SetSucceeds /\ Distinct(call.list) =>
        \A i \in 1..Len(call.list) :
          LET s == call.list[i] IN
          /\ Info[s.id].readonly \/ config'[s.id] = s.value
          /\ Info[s.id].listed => s.value \in Info[s.id].valid
<1>1. ASSUME IInv, [Next]_vars, SetSucceeds, Distinct(call.list),
             NEW i \in 1..Len(call.list)
      PROVE  LET s == call.list[i] IN
             /\ Info[s.id].readonly \/ config'[s.id] = s.value
             /\ Info[s.id].listed => s.value \in Info[s.id].valid
  <2> DEFINE s == call.list[i]
  <2>1. Ends /\ call' = NoCall /\ outcome'.status = Success /\ (Validate \/ Store)
    BY <1>1, EndsByAPass DEF SetSucceeds, Ends
  <2>2. CASE Validate
    <3>1. /\ UNCHANGED config
          /\ \A j \in 1..Len(call.list) :
               ~Unacceptable(call.list[j]) /\ ~Differs(config, call.list[j])
      <4>1. call' # [op |-> call.op, stage |-> "store", list |-> call.list,
                     from |-> call.from, diff |-> Diff(config, call.list)]
        BY <1>1, <2>1, <2>2, RunningFacts DEF NoCall, IInv, Validate
      <4>2. \A status : Return(status, call.from) => status = Success
        BY <2>1 DEF Return
      <4> QED
        BY <1>1, <2>2, <4>1, <4>2, ValidateFacts
    <3> QED
      BY <3>1 DEF Unacceptable, Differs
  <2>3. CASE Store
    <3>1. PICK r :
            /\ r.status = Success =>
                 StoresAll(r, config, call.list, call.diff, call.op = "create", call.from)
            /\ Return(r.status, r.next)
            /\ exists' = (exists \/ r.status = Success)
            /\ config' = IF exists' THEN r.config ELSE Empty
      BY <1>1, <2>3, StoreFacts
    <3>2. /\ config' = r.config
          /\ StoresAll(r, config, call.list, call.diff, call.op = "create", call.from)
      BY <2>1, <3>1 DEF Return
    <3>3. /\ call.list \in Lists(Setting)
          /\ call.diff \in SUBSET (1..Len(call.list))
      BY <1>1, <2>3, StoreFacts
    <3>4. s \in Setting /\ s.id \in Attr
      BY <3>3, ListFacts, SettingFacts
    <3>5. /\ ~Unacceptable(s)
          /\ i \notin call.diff => Info[s.id].readonly \/ config[s.id] = s.value
      BY <1>1, <2>3 DEF IInv, Validated, Store
    <3>6. \A j \in call.diff : call.list[j].id = s.id => j = i
      BY <1>1, <3>3 DEF Distinct
    <3>7. Info[s.id].readonly \/ config'[s.id] = s.value
      BY <3>2, <3>4, <3>5, <3>6 DEF StoresAll
    <3> QED
      BY <3>5, <3>7 DEF Unacceptable
  <2> QED
    BY <2>1, <2>2, <2>3
<1>2. IInv /\ [Next]_vars => [Told]_vars
  BY <1>1
<1> QED
  BY <1>2, InitIInv, NextIInv, PTL DEF Spec, SuccessStoresTheList

(* Without a default setter a call that fails stores only what precedes    *)
(* every fault of its list (config.hpp:353-370).                           *)
THEOREM FailureCorrect == Spec => FailureKeepsTheRest
<1> DEFINE Kept ==
      SetFails /\ ~default_setter =>
        \A a \in Attr : config'[a] # config[a] =>
          \E i \in call.diff :
            /\ call.list[i] = [id |-> a, value |-> config'[a]]
            /\ \A j \in 1..i :
                 /\ ~Unacceptable(call.list[j])
                 /\ j \in call.diff => ~Info[call.list[j].id].readonly
<1>1. ASSUME IInv, [Next]_vars, SetFails, ~default_setter,
             NEW a \in Attr, config'[a] # config[a]
      PROVE  \E i \in call.diff :
               /\ call.list[i] = [id |-> a, value |-> config'[a]]
               /\ \A j \in 1..i :
                    /\ ~Unacceptable(call.list[j])
                    /\ j \in call.diff => ~Info[call.list[j].id].readonly
  <2>1. Ends /\ call.op = "set" /\ (Validate \/ Store)
    BY <1>1, EndsByAPass DEF SetFails
  <2>2. Store
    BY <1>1, <2>1 DEF Validate
  <2>3. PICK r :
          /\ ~default_setter =>
               StopsAtFault(r, config, call.list, call.diff, call.op = "create")
          /\ exists' = (exists \/ r.status = Success)
          /\ config' = IF exists' THEN r.config ELSE Empty
    BY <1>1, <2>2, StoreFacts
  <2>4. config' = r.config /\ StopsAtFault(r, config, call.list, call.diff, FALSE)
    BY <1>1, <2>1, <2>3 DEF IInv, Existing
  <2>5. PICK i \in call.diff :
          /\ call.list[i].id = a /\ r.config[a] = call.list[i].value
          /\ \A j \in call.diff : j <= i => Storable(call.list[j], FALSE)
    BY <1>1, <2>4 DEF StopsAtFault
  <2>6. /\ call.list \in Lists(Setting)
        /\ call.diff \in SUBSET (1..Len(call.list))
        /\ \A j \in 1..Len(call.list) : ~Unacceptable(call.list[j])
    BY <1>1, <2>2, StoreFacts DEF IInv, Validated, Store
  <2>7. call.list[i] = [id |-> a, value |-> config'[a]]
    <3>1. call.list[i] \in Setting
      BY <2>6, ListFacts
    <3> QED
      BY <2>4, <2>5, <3>1, SettingFacts
  <2>8. \A j \in 1..i : j \in 1..Len(call.list) /\ j <= i
    BY <2>6, ListFacts
  <2> QED
    BY <2>5, <2>6, <2>7, <2>8 DEF Storable
<1>2. IInv /\ [Next]_vars => [Kept]_vars
  BY <1>1
<1> QED
  BY <1>2, InitIInv, NextIInv, PTL DEF Spec, FailureKeepsTheRest

(* Changing an attribute takes the FSM down to the state it asks for, and  *)
(* no call takes the FSM up (config.hpp:384-391).                          *)
THEOREM ChangeCorrect == Spec => ChangeLowersTheState
<1> DEFINE Lowered ==
      SetSucceeds =>
        /\ outcome'.next <= call.from
        /\ \A a \in Attr :
             config'[a] # config[a] /\ Info[a].listed /\ ~Info[a].readonly
               /\ Info[a].fsm # FSM_STATE_INIT => outcome'.next <= Info[a].fsm
<1>1. ASSUME IInv, [Next]_vars, SetSucceeds
      PROVE  Lowered
  <2>1. Ends /\ call' = NoCall /\ outcome'.status = Success /\ (Validate \/ Store)
    BY <1>1, EndsByAPass DEF SetSucceeds, Ends
  <2>2. CASE Validate
    <3>1. UNCHANGED config /\ call.from \in Int
      BY <1>1, <2>2, RunningFacts, ConfigAssumption DEF IInv, Validate
    <3>2. outcome'.next = call.from
      <4>1. call' # [op |-> call.op, stage |-> "store", list |-> call.list,
                     from |-> call.from, diff |-> Diff(config, call.list)]
        BY <1>1, <2>1, <2>2, RunningFacts DEF NoCall, IInv, Validate
      <4>2. \A status : Return(status, call.from) => outcome'.next = call.from
        BY DEF Return
      <4> QED
        BY <1>1, <2>2, <4>1, <4>2, ValidateFacts
    <3> QED
      BY <3>1, <3>2
  <2>3. CASE Store
    <3> DEFINE readonly == call.op = "create"
    <3>1. PICK r :
            /\ r.status = Success =>
                 StoresAll(r, config, call.list, call.diff, readonly, call.from)
            /\ Return(r.status, r.next)
            /\ exists' = (exists \/ r.status = Success)
            /\ config' = IF exists' THEN r.config ELSE Empty
      BY <1>1, <2>3, StoreFacts
    <3>2. /\ config' = r.config
          /\ StoresAll(r, config, call.list, call.diff, readonly, call.from)
      BY <2>1, <3>1 DEF Return
    <3>3. outcome'.next = Lowest(call.list, call.diff, readonly, call.from)
      BY <3>1, <3>2 DEF Return, StoresAll
    <3>4. /\ call.list \in Lists(Setting)
          /\ call.diff \in SUBSET (1..Len(call.list))
          /\ call.from \in State
          /\ readonly \in BOOLEAN
      BY <1>1, <2>3, StoreFacts
    <3> HIDE DEF readonly
    <3>5. outcome'.next <= call.from
      BY <3>3, <3>4, LowestFacts
    <3>6. ASSUME NEW a \in Attr, config'[a] # config[a], Info[a].listed,
                 ~Info[a].readonly, Info[a].fsm # FSM_STATE_INIT
          PROVE  outcome'.next <= Info[a].fsm
      <4>1. PICK i \in call.diff : call.list[i].id = a
        BY <3>2, <3>6 DEF StoresAll
      <4> QED
        BY <3>3, <3>4, <3>6, <4>1, LowestOfChanged
    <3> QED
      BY <3>5, <3>6
  <2> QED
    BY <2>1, <2>2, <2>3
<1>2. IInv /\ [Next]_vars => [Lowered]_vars
  BY <1>1
<1> QED
  BY <1>2, InitIInv, NextIInv, PTL DEF Spec, ChangeLowersTheState

(* Without a default setter, as in the stub adapter, no client's call on an *)
(* object that exists changes a READ_ONLY attribute, except to clear one   *)
(* that is CLEARABLE: it has what set_readonly() gave it last              *)
(* (config.hpp:466-477) or, if the adapter has reported nothing, what the  *)
(* list of the creation said.  It takes the default setter of the basic    *)
(* adapter to let set_attributes() write one.                              *)
THEOREM ReadOnlyCorrect ==
  DefaultSetter = {FALSE} => (Spec => []ReadOnlyIsKept)
<1> SUFFICES ASSUME DefaultSetter = {FALSE} PROVE Spec => []ReadOnlyIsKept
  OBVIOUS
<1> DEFINE ROInv == ReadOnlyIsKept /\ default_setter = FALSE
<1>1. Init => ROInv
  BY DEF Init, ReadOnlyIsKept
<1>2. ASSUME IInv, ROInv, [Next]_vars PROVE ROInv'
  <2>1. default_setter' = FALSE
    BY <1>2 DEF Next, vars
  <2>2. CASE UNCHANGED <<config, given>>
    <3>1. ReadOnlyIsKept'
      BY <1>2, <2>2 DEF ReadOnlyIsKept
    <3> QED
      BY <2>1, <3>1
  <2>3. CASE Store
    <3>1. PICK r :
            /\ StopsAtFault(r, config, call.list, call.diff, call.op = "create")
            /\ exists' = (exists \/ r.status = Success)
            /\ config' = IF exists' THEN r.config ELSE Empty
            /\ given' = IF exists THEN given
                           ELSE [a \in Attr |-> IF Info[a].readonly THEN config'[a]
                                                ELSE None]
      BY <1>2, <2>3, StoreFacts
    <3>2. CASE exists
      <4>1. config' = r.config /\ given' = given /\ call.op # "create"
        BY <1>2, <3>1, <3>2 DEF IInv, TypeOK, Existing
      <4>2. \A i \in call.diff : i <= i
        BY <1>2, <2>3, StoreFacts, ListFacts
      <4>3. \A a \in Attr : Info[a].readonly => config'[a] = config[a]
        BY <3>1, <4>1, <4>2 DEF StopsAtFault, Storable
      <4>4. ReadOnlyIsKept'
        BY <1>2, <4>1, <4>3 DEF ReadOnlyIsKept
      <4> QED
        BY <2>1, <4>4
    <3>3. CASE ~exists
      BY <2>1, <3>1, <3>3 DEF ReadOnlyIsKept
    <3> QED
      BY <3>2, <3>3
  <2>4. CASE Clear
    <3>1. UNCHANGED given
      BY <2>4 DEF Clear
    <3>2. ReadOnlyIsKept'
      BY <1>2, <2>4, <3>1, ClearFacts DEF ReadOnlyIsKept
    <3> QED
      BY <2>1, <3>2
  <2>5. CASE \E s \in Setting : SetReadonly(s)
    <3>1. PICK s \in Setting : SetReadonly(s)
      BY <2>5
    <3>2. ReadOnlyIsKept'
      BY <1>2, <3>1, SettingFacts DEF IInv, TypeOK, Config, ReadOnlyIsKept, SetReadonly
    <3> QED
      BY <2>1, <3>2
  <2> QED
    BY <1>2, <2>2, <2>3, <2>4, <2>5
       DEF Next, vars, Create, SetAttributes, ClearAttributes, Validate
<1>3. ROInv => ReadOnlyIsKept
  OBVIOUS
<1>4. IInv /\ ROInv /\ [Next]_vars => ROInv'
  BY <1>2
<1> QED
  BY <1>1, <1>3, <1>4, InitIInv, NextIInv, PTL DEF Spec
=============================================================================
