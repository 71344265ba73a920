--------------------------- MODULE ModuleRegistry ---------------------------
(***************************************************************************)
(* What a Safe promises about its modules: a set that grows and shrinks by *)
(* one module at a time.  ModuleManager implements it with a linked list;  *)
(* GnosisSafe uses this view.                                              *)
(***************************************************************************)
CONSTANT Module         \* the addresses that may be enabled

VARIABLE enabled

Init == enabled = {}

Enable(m) == m \notin enabled /\ enabled' = enabled \cup {m}

Disable(m) == m \in enabled /\ enabled' = enabled \ {m}

Next == \E m \in Module : Enable(m) \/ Disable(m)

Spec == Init /\ [][Next]_enabled
=============================================================================
