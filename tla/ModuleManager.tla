---------------------------- MODULE ModuleManager ----------------------------
(***************************************************************************)
(* contracts/base/ModuleManager.sol: the modules of a Safe as a circular   *)
(* linked list, and a client that lists them page by page.                 *)
(*                                                                         *)
(* Every action is one external call that succeeds.  The list is paged by  *)
(* a client off chain with one view call per page; enabling or disabling a *)
(* module in between makes it start again.                                 *)
(***************************************************************************)
EXTENDS Sequences, FiniteSets, LinkedList

CONSTANTS
    Module,         \* ordinary addresses; any of them may be a module
    PageSizes       \* bound: page sizes that clients ask for

ASSUME ModuleAssumption ==
    /\ IsFiniteSet(Module)
    /\ Zero # SENTINEL /\ {Zero, SENTINEL} \cap Module = {}
    /\ PageSizes \subseteq Nat

ModuleAddress == Module \cup {Zero, SENTINEL}

VARIABLES
    modules,        \* mapping(address => address): each entry names the next
    reader          \* the client: where its next page starts, what it has seen

moduleVars == <<modules, reader>>

isModuleEnabled(m) == SENTINEL # m /\ modules[m] # Zero

Enabled == {m \in ModuleAddress : isModuleEnabled(m)}

AtStart == [start |-> SENTINEL, seen |-> <<>>, done |-> FALSE]

ModuleInit ==
    /\ modules = [a \in ModuleAddress |-> Zero]
    /\ reader = AtStart

ModulesSetUp == modules[SENTINEL] # Zero

-----------------------------------------------------------------------------
(* The calls that change the list; the last two are `authorized`, which    *)
(* a Safe can satisfy from its setup on.                                   *)

\* GS100.  The delegatecall of setup may already enable modules, through
\* enableModule.
setupModules ==
    /\ ~ModulesSetUp
    /\ modules' = [modules EXCEPT ![SENTINEL] = SENTINEL]
    /\ UNCHANGED reader

\* Mutant of CanEnable: GS102 dropped.
CanEnableTwice(m) == m \notin {Zero, SENTINEL}

CanEnable(m) ==
    /\ m \notin {Zero, SENTINEL}                            \* GS101
    /\ modules[m] = Zero                                    \* GS102

enableModule(m) ==
    /\ ModulesSetUp
    /\ CanEnable(m)
    /\ modules' = [modules EXCEPT ![m] = modules[SENTINEL], ![SENTINEL] = m]
    /\ reader' = AtStart

\* Mutant of CanDisable: GS103 dropped, prev is trusted.
CanDisableAnywhere(prev, m) == m \notin {Zero, SENTINEL}

CanDisable(prev, m) ==
    /\ m \notin {Zero, SENTINEL}                            \* GS101
    /\ modules[prev] = m                                    \* GS103

\* Mutant of disableModule: the entry of the module is not reset.
disableModuleKeepsEntry(prev, m) ==
    /\ ModulesSetUp /\ CanDisable(prev, m)
    /\ modules' = [modules EXCEPT ![prev] = modules[m]]
    /\ reader' = AtStart

disableModule(prev, m) ==
    /\ ModulesSetUp
    /\ CanDisable(prev, m)
    /\ modules' = [modules EXCEPT ![prev] = modules[m], ![m] = Zero]
    /\ reader' = AtStart

-----------------------------------------------------------------------------
(* getModulesPaginated *)

\* currentModule after k iterations of the loop.
Follow(start) ==
    LET current[k \in Nat] ==
            IF k = 0 THEN modules[start] ELSE modules[current[k - 1]]
    IN  current

\* Mutant of PageEnds: the page may be overfilled by one.
PageEndsBeyond(current, k, pageSize) == current \in {Zero, SENTINEL} \/ k > pageSize

\* The loop condition no longer holds.
PageEnds(current, k, pageSize) == current \in {Zero, SENTINEL} \/ k = pageSize

moduleCount(start, pageSize) ==
    CHOOSE k \in 0..(pageSize + 1) :
        /\ PageEnds(Follow(start)[k], k, pageSize)
        /\ \A j \in 0..(k - 1) : ~PageEnds(Follow(start)[j], j, pageSize)

getModulesPaginated(start, pageSize) ==
    LET n == moduleCount(start, pageSize)
    IN  [array |-> [k \in 1..n |-> Follow(start)[k - 1]], next |-> Follow(start)[n]]

\* The client asks for the page that starts where the last one told it to.
ReadPage(pageSize) ==
    /\ ModulesSetUp /\ ~reader.done
    /\ LET page == getModulesPaginated(reader.start, pageSize)
       IN  reader' = [start |-> page.next, seen |-> reader.seen \o page.array,
                      done |-> page.next \in {Zero, SENTINEL}]
    /\ UNCHANGED modules

Restart == reader.done /\ reader' = AtStart /\ UNCHANGED modules

ModuleNext ==
    \/ setupModules
    \/ \E m \in ModuleAddress : enableModule(m)
    \/ \E prev, m \in ModuleAddress : disableModule(prev, m)
    \/ \E pageSize \in PageSizes : ReadPage(pageSize)
    \/ Restart

ModuleSpec == ModuleInit /\ [][ModuleNext]_moduleVars

-----------------------------------------------------------------------------
(* Properties *)

\* One page that is long enough lists every enabled module exactly once and
\* nothing else, whatever modules were enabled and disabled before, with
\* any claimed predecessor: the list is one ring.
WholePage ==
    LET size == Cardinality(Enabled)
        page == getModulesPaginated(SENTINEL, size)
    IN  ModulesSetUp =>
            /\ {page.array[k] : k \in DOMAIN page.array} = Enabled
            /\ Len(page.array) = size
            /\ page.next = SENTINEL

\* Pages fit together without a gap: two pages, the second one asked for
\* from the last module of the first, are the page of both sizes.
PagesCompose ==
    \A start \in Enabled \cup {SENTINEL}, size, more \in PageSizes :
        LET page == getModulesPaginated(start, size)
            rest == getModulesPaginated(page.array[Len(page.array)], more)
        IN  ModulesSetUp /\ page.array # <<>> =>
                getModulesPaginated(start, size + more) =
                    [array |-> page.array \o rest.array, next |-> rest.next]

\* The modules on the pages that the client has read.
Seen == {reader.seen[i] : i \in DOMAIN reader.seen}

\* A client that follows `next` from page to page, with pages of any mix of
\* sizes, sees no module twice and only enabled ones.
PagesDistinct == Cardinality(Seen) = Len(reader.seen) /\ Seen \subseteq Enabled

\* The page that starts at `next` (ModuleManager.sol:113: "Start of the next
\* page") continues the one before: the client has seen every enabled module
\* when it comes to the end.
PagesComplete == reader.done => Seen = Enabled

ModuleSet == INSTANCE ModuleRegistry WITH enabled <- Enabled

\* The linked list implements a set of modules.
ModuleSetSpec == ModuleSet!Spec
=============================================================================
