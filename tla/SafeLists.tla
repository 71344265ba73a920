------------------------------ MODULE SafeLists ------------------------------
(***************************************************************************)
(* The two linked lists in the storage of one Safe: setup of               *)
(* contracts/GnosisSafe.sol starts both, and the calls that the Safe then  *)
(* makes to itself change the one or the other (OwnerManager,              *)
(* ModuleManager).                                                         *)
(***************************************************************************)
EXTENDS OwnerManager, ModuleManager

listVars == <<owners, ownerCount, threshold, modules, reader>>

ListInit == Init /\ ModuleInit

\* GS200 and GS100 both guard it.  What the delegatecall of setup does to the
\* lists, it does by the calls below.
setup(list, t) == setupOwners(list, t) /\ setupModules

OwnerCall ==
    /\ \/ \E o \in Address, t \in ThresholdArg : addOwnerWithThreshold(o, t)
       \/ \E prev, o \in Address, t \in ThresholdArg : removeOwner(prev, o, t)
       \/ \E prev, old, new \in Address : swapOwner(prev, old, new)
       \/ \E t \in ThresholdArg : changeThreshold(t)
    /\ UNCHANGED moduleVars

ModuleCall ==
    /\ \/ \E m \in ModuleAddress : enableModule(m)
       \/ \E prev, m \in ModuleAddress : disableModule(prev, m)
       \/ \E pageSize \in PageSizes : ReadPage(pageSize)
       \/ Restart
    /\ UNCHANGED vars

ListNext ==
    \/ \E list \in OwnerList, t \in ThresholdArg : setup(list, t)
    \/ OwnerCall
    \/ ModuleCall

ListSpec == ListInit /\ [][ListNext]_listVars
==============================================================================
