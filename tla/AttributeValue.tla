--------------------------- MODULE AttributeValue ---------------------------
(***************************************************************************)
(* Attribute values of variable size, what meta/taimetadatautils.c does    *)
(* with their memory and how meta/taiserialize.c reads them from a text.   *)
(* A list is a count and a buffer, list; a nested list                     *)
(* (TAI_ATTR_VALUE_TYPE_ATTRLIST, "attrlist", or ..._OBJMAPLIST, "objmap") *)
(* is a list of lists.  The count a caller passes in is what the callee    *)
(* takes for the room; how much there is really is Room().                 *)
(*                                                                         *)
(* The items of a list are told apart, their types only as far as the      *)
(* parsers differ: lists of numbers and object ids ("list"), of characters *)
(* ("charlist") and of the values of an enum ("enumlist").  The rows of an *)
(* attrlist are enum lists (TAI_HOST_INTERFACE_ATTR_LANE_FAULT is the only *)
(* one there is).  The keys of an objmap are left out.                     *)
(***************************************************************************)
EXTENDS Naturals, Sequences, FiniteSetsExt

CONSTANTS
  Item,         \* what lists hold
  DEFAULT_LIST_SIZE,
  TAI_CHARDATA_LENGTH,
  Garbage,      \* row sizes that uninitialized memory may hold
  JUNK,         \* an item in memory no one wrote to
  BAD,          \* what the parser cannot read: an item of a text, or all of it
  NO_MEMORY     \* an allocation that failed

(* The memory of a list that is not nested, and of one that is.            *)
Buffer == [count : Nat, list : Seq(Item \cup {JUNK})]
NestedBuffer == [count : Nat, list : Seq(Buffer)]

ASSUME SizeAssumption ==
  /\ DEFAULT_LIST_SIZE \in Nat \ {0}
  /\ TAI_CHARDATA_LENGTH \in Nat
  /\ Garbage \subseteq Nat
  /\ NO_MEMORY \notin Buffer \cup NestedBuffer

Nested == {"attrlist", "objmap"}
Kind == {"list", "charlist", "enumlist"} \cup Nested

ValueType(kind) ==
  IF kind \in Nested THEN Seq(Seq(Item \cup {JUNK})) ELSE Seq(Item \cup {JUNK})

Room(b) == Len(b.list)

(* A zeroed tai_attribute_value_t.                                         *)
NullList == [count |-> 0, list |-> <<>>]

(* What the buffer says, and a buffer that says v and holds no more.       *)
ListValue(b) == SubSeq(b.list, 1, b.count)
ExactList(v) == [count |-> Len(v), list |-> v]

ValueOf(kind, b) ==
  IF kind \in Nested THEN [i \in 1..b.count |-> ListValue(b.list[i])]
  ELSE ListValue(b)

Exact(kind, v) ==
  IF kind \in Nested THEN ExactList([i \in DOMAIN v |-> ExactList(v[i])])
  ELSE ExactList(v)

-----------------------------------------------------------------------------
(***************************************************************************)
(* tai_metadata_alloc_attr_value(): a buffer with the room its count says. *)
(***************************************************************************)
SizeFor(n) == IF n = 0 THEN DEFAULT_LIST_SIZE ELSE n

(* realloc() keeps what was there and fits.                                *)
AllocList(b, n) ==
  [count |-> SizeFor(n),
   list |-> [i \in 1..SizeFor(n) |-> IF i <= Room(b) THEN b.list[i] ELSE JUNK]]

AllocRows(sizes) ==
  ExactList([i \in DOMAIN sizes |-> AllocList(NullList, sizes[i])])

(* The attribute itself is the reference, as in the first constructor of   *)
(* tai::Attribute: the count is that of the last try.  The rows of an      *)
(* attrlist are zeroed before their sizes are read, so that all get the    *)
(* default size; those of an objmap are not, and rows that are new have    *)
(* the size the memory happens to hold.  The result is a set of outcomes.  *)
AllocAgain(kind, b) ==
  LET n == SizeFor(b.count) IN
  CASE kind \notin Nested -> {AllocList(b, b.count)}
    [] kind = "attrlist" -> {AllocRows([i \in 1..n |-> 0])}
    [] kind = "objmap"   ->
         {AllocRows([i \in 1..n |-> IF i <= Room(b) THEN b.list[i].count ELSE g[i]])
            : g \in [1..n -> Garbage]}
           \cup (IF Room(b) < n THEN {NO_MEMORY} ELSE {})

(* Another attribute is the reference.  As many rows of an attrlist are    *)
(* read from it as are allocated, that is, the default number from an      *)
(* empty one: RowsAreThere is what makes that defined.                     *)
RowsAreThere(kind, in) == kind = "attrlist" => SizeFor(in.count) <= Room(in)

AllocLike(kind, in) ==
  CASE kind \notin Nested -> AllocList(NullList, in.count)
    [] kind = "attrlist" ->
         AllocRows([i \in 1..SizeFor(in.count) |-> in.list[i].count])
    [] kind = "objmap"   ->
         AllocRows([i \in 1..SizeFor(in.count) |->
                      IF i <= in.count THEN in.list[i].count ELSE 0])

-----------------------------------------------------------------------------
(***************************************************************************)
(* tai_metadata_deepcopy_attr_value(): whether it fitted, and the buffer   *)
(* after; the count of one that is too small becomes the size required.    *)
(***************************************************************************)
(* Mutant: a list that does not fit is refused without saying why.         *)
CopyListSilently(in, out) ==
  IF out.count < in.count THEN [fits |-> FALSE, out |-> out]
  ELSE [fits |-> TRUE,
        out  |-> [count |-> in.count,
                  list |-> [i \in DOMAIN out.list |->
                              IF i <= in.count THEN in.list[i] ELSE out.list[i]]]]

(* Mutant: a shorter list leaves the count as it was.                      *)
CopyListOver(in, out) ==
  [fits |-> out.count >= in.count,
   out  |-> IF out.count < in.count THEN [out EXCEPT !.count = in.count]
            ELSE [out EXCEPT !.list =
                    [i \in DOMAIN out.list |->
                       IF i <= in.count THEN in.list[i] ELSE out.list[i]]]]

CopyList(in, out) ==
  IF out.count < in.count
  THEN [fits |-> FALSE, out |-> [out EXCEPT !.count = in.count]]
  ELSE [fits |-> TRUE,
        out  |-> [count |-> in.count,
                  list |-> [i \in DOMAIN out.list |->
                              IF i <= in.count THEN in.list[i] ELSE out.list[i]]]]

(* Row by row up to the first that does not fit.                           *)
CopyRows(in, out) ==
  LET Row(i) == CopyList(in.list[i], out.list[i])
      short == {i \in 1..in.count : ~Row(i).fits}
      last == IF short = {} THEN in.count ELSE Min(short)
  IN IF out.count < in.count
     THEN [fits |-> FALSE, out |-> [out EXCEPT !.count = in.count]]
     ELSE [fits |-> short = {},
           out  |-> [count |-> in.count,
                     list |-> [i \in DOMAIN out.list |->
                                 IF i <= last THEN Row(i).out ELSE out.list[i]]]]

Copy(kind, in, out) ==
  IF kind \in Nested THEN CopyRows(in, out) ELSE CopyList(in, out)

(* tai_metadata_deepequal_attr_value(): attrlists are not supported, and   *)
(* its callers take them for different.                                    *)
DeepEqual(kind, a, b) ==
  kind # "attrlist" /\ ValueOf(kind, a) = ValueOf(kind, b)

-----------------------------------------------------------------------------
(***************************************************************************)
(* tai_deserialize_attribute_value(), of a text, in JSON or not; nested    *)
(* lists are always JSON.  A text is the list it says, with BAD for what   *)
(* is no item, or is BAD where it says no list.                            *)
(***************************************************************************)
Text(kind) ==
  {BAD} \cup CASE kind \in Nested    -> Seq(Seq(Item \cup {BAD}))
               [] kind = "charlist" -> Seq(Item)
               [] OTHER             -> Seq(Item \cup {BAD})

HasBad(u) == \E i \in DOMAIN u : u[i] = BAD

(* Where there is an error in a text.                                      *)
Faulty(kind, v) ==
  v = BAD \/ IF kind \in Nested THEN \E i \in DOMAIN v : HasBad(v[i]) ELSE HasBad(v)

(* What the parser takes a text for when it succeeds: of characters the    *)
(* first TAI_CHARDATA_LENGTH, and what is no value of the enum leaves the  *)
(* memory as it was.                                                       *)
Cut(u) ==
  IF Len(u) <= TAI_CHARDATA_LENGTH THEN u ELSE SubSeq(u, 1, TAI_CHARDATA_LENGTH)

Unread(u) == [i \in DOMAIN u |-> IF u[i] = BAD THEN JUNK ELSE u[i]]

Meant(kind, v) ==
  CASE kind \in Nested    -> [i \in DOMAIN v |-> Unread(v[i])]
    [] kind = "charlist" -> Unread(Cut(v))
    [] OTHER             -> Unread(v)

(* A bad item is an error of a list of numbers, in JSON once it is known   *)
(* that all fit, and of a row of an objmap when it is this row's turn.     *)
Refused(kind, json, v, out) ==
  \/ v = BAD /\ (kind = "enumlist" => json)
  \/ v # BAD /\ kind = "list" /\ HasBad(v) /\ (json => Len(v) <= out.count)
  \/ /\ v # BAD /\ kind = "objmap" /\ Len(v) <= out.count
     /\ \E i \in DOMAIN v : /\ HasBad(v[i])
                            /\ \A j \in 1..i : Len(v[j]) <= out.list[j].count

(* An enum list that is not JSON is written item by item until one is past *)
(* the count: a list that is longer gets written one too many, and a bad   *)
(* item is retried from the byte before it, which the first one has not.   *)
(* After any other it stays where it is until the count is exceeded.       *)
Readable(v) ==
  IF v = BAD THEN 0
  ELSE Cardinality({n \in DOMAIN v : \A i \in 1..n : v[i] # BAD})

RunsOver(v, out) == Readable(v) = 0 \/ Readable(v) > out.count

(* The rest is like a copy, but that the count of a nested list is set at  *)
(* the end only.  Left out are the items a failed try has written.         *)
Parse(kind, v, out) ==
  LET c == Copy(kind, Exact(kind, Meant(kind, v)), out) IN
  CASE c.fits -> [ret |-> "success", out |-> c.out]
    [] ~c.fits /\ Len(Meant(kind, v)) > out.count -> [ret |-> "overflow", out |-> c.out]
    [] OTHER -> [ret |-> "overflow", out |-> [c.out EXCEPT !.count = out.count]]

Deserialize(kind, json, v, out) ==
  CASE Refused(kind, json, v, out) -> [ret |-> "error", out |-> out]
    [] kind = "enumlist" /\ ~json /\ RunsOver(v, out) -> [ret |-> "undefined", out |-> out]
    [] kind = "enumlist" /\ ~json /\ ~RunsOver(v, out) /\ HasBad(v) ->
         [ret |-> "overflow", out |-> [out EXCEPT !.count = 2 * (@ + 1)]]
    [] OTHER -> Parse(kind, v, out)

(* The third constructor of tai::Attribute, Attribute(meta, text): a       *)
(* second try in a buffer of the size the first one asked for.  The rows   *)
(* of that buffer have the default size, or one by chance.                 *)
FromText(kind, json, v) ==
  LET first == Deserialize(kind, json, v, NullList)
      second(b) == IF b = NO_MEMORY THEN [ret |-> "error", out |-> NullList]
                   ELSE Deserialize(kind, json, v, b)
  IN IF first.ret # "overflow" THEN {first}
     ELSE {second(b) : b \in AllocAgain(kind, first.out)}
=============================================================================
