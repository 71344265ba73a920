----------------------------- MODULE MCSafeLists -----------------------------
(* Four accounts: lists long enough to have a first, two inner and a last    *)
(* owner, so that an owner is removed or swapped at every position.  Four    *)
(* modules, listed whole or in pages of one or two, so that a list has a     *)
(* first, an inner and a last page and a page may end at any module.  No     *)
(* account and no module differs from another: no call compares them but     *)
(* for equality.                                                             *)
EXTENDS SafeLists, TLC

Symmetry == Permutations(Owner) \cup Permutations(Module)
==============================================================================
