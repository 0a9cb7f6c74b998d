-------------------------- MODULE MCAttributeCalls --------------------------
(***************************************************************************)
(* Values around a default size of 2: shorter, longer, and longer by one   *)
(* again and again, so that every try may meet a value that has grown;     *)
(* lists of characters around a limit of 3; texts with a bad item first,   *)
(* last, and within and past the count.                                    *)
(***************************************************************************)
EXTENDS AttributeCalls

CONSTANTS x, y

AllKinds == {"list", "charlist", "enumlist", "attrlist", "objmap"}
Items == {x, y}
OneOrThree == {0, 1, 3}

Lists == {<<>>, <<x>>, <<x, y, x>>, <<y, y, x, y>>}
Rows == {<<>>, <<<<x>>>>, <<<<y>>, <<>>>>, <<<<x, y, x>>>>, <<<<x>>, <<y, y>>, <<x>>>>}

AdapterValues == [k \in AllKinds |-> IF k \in Nested THEN Rows ELSE Lists]

SetTexts ==
  [k \in AllKinds |->
     CASE k = "list"     -> {<<>>, <<x, y, x>>, <<x, x, x, x, y>>}
       [] k = "charlist" -> {<<>>, <<x, y, x>>, <<x, x, x, x, y>>}
       [] k = "enumlist" -> {<<>>, <<x, y, x>>, <<x, BAD>>}
       [] k = "attrlist" -> Rows \cup {<<<<x, BAD>>>>}
       [] k = "objmap"   -> Rows \ {<<>>}]

ReadTexts ==
  [k \in AllKinds |->
     CASE k = "list"     -> {BAD, <<y>>, <<x, y, x>>, <<x, y, BAD>>}
       [] k = "charlist" -> {BAD, <<y>>, <<x, y, x>>, <<x, x, x, x>>}
       [] k = "enumlist" -> {BAD, <<y>>, <<x, y, x>>, <<x, BAD>>, <<x, y, x, BAD>>}
       [] k = "attrlist" -> {BAD, <<<<y>>, <<>>>>, <<<<x, y, x>>>>}
       [] k = "objmap"   -> {BAD, <<<<y>>>>, <<<<BAD>>>>}]
=============================================================================
