--------------------------- MODULE MCConfigStore ---------------------------
(***************************************************************************)
(* ConfigStore with one attribute of each kind.  One value is enough for   *)
(* the two that are not in the adapter's table, as nothing is compared     *)
(* with what they hold.                                                    *)
(***************************************************************************)
EXTENDS ConfigStore

MCAttr == {"admin", "oper", "freq", "custom", "bogus"}

MCInputs ==
  [id : {"admin", "oper", "freq"}, value : Value] \cup [id : {"custom", "bogus"}, value : {1}]

MCState == {0, 100, 200}

Kind(known, listed, readonly, clearable, fsm, valid) ==
  [known |-> known, listed |-> listed, readonly |-> readonly,
   clearable |-> clearable, fsm |-> fsm, valid |-> valid]

MCInfo == [a \in MCAttr |->
  CASE a = "admin"  -> Kind(TRUE, TRUE, FALSE, FALSE, 100, Value)
    [] a = "oper"   -> Kind(TRUE, TRUE, TRUE, FALSE, 0, Value)
    [] a = "freq"   -> Kind(TRUE, TRUE, FALSE, TRUE, 0, {1})
    [] a = "custom" -> Kind(TRUE, FALSE, FALSE, TRUE, 0, Value)
    [] a = "bogus"  -> Kind(FALSE, FALSE, FALSE, FALSE, 0, Value)]
=============================================================================
