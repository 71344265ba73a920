------------------------- MODULE ModuleManagerProofs -------------------------
(***************************************************************************)
(* The linked list of ModuleManager stays one ring and implements the set  *)
(* of ModuleRegistry, for every finite set of module addresses; and the    *)
(* two lists of a Safe (SafeLists) behave as the two managers specify.     *)
(***************************************************************************)
EXTENDS SafeLists, LinkedListProofs

-----------------------------------------------------------------------------
LEMMA ModuleSpace == Space(Module, ModuleAddress)
  BY ModuleAssumption DEF Space, ModuleAddress

\* Before setupModules nothing is written; from then on the entries are a
\* ring of some length, which the contract does not count.
IInv ==
    /\ modules \in [ModuleAddress -> ModuleAddress] /\ modules[Zero] = Zero
    /\ ~ModulesSetUp => modules = [a \in ModuleAddress |-> Zero]
    /\ ModulesSetUp => \E n \in Nat : Ring(modules, n, Module)

LEMMA EnabledAreMembers == IInv => Enabled = Members(modules)
  BY DEF IInv, Enabled, isModuleEnabled, Members

LEMMA InitIInv == ModuleInit => IInv
  BY ModuleAssumption DEF ModuleInit, IInv, ModulesSetUp, ModuleAddress

\* The empty ring: the sentinel names itself.
LEMMA SetupStep == ASSUME IInv, setupModules PROVE IInv' /\ Enabled' = Enabled
<1>1. /\ SENTINEL \in ModuleAddress /\ Zero \in ModuleAddress /\ SENTINEL # Zero
      /\ modules = [a \in ModuleAddress |-> Zero]
      /\ modules' = [modules EXCEPT ![SENTINEL] = SENTINEL]
  BY ModuleAssumption DEF setupModules, IInv, ModuleAddress
<1> DEFINE p == [i \in 0..0 |-> SENTINEL]
<1>2. RingOrder(modules', 0, p, Module)
  BY <1>1 DEF RingOrder
<1>3. p \in [0..0 -> Module \cup {SENTINEL}]
  OBVIOUS
<1>4. Ring(modules', 0, Module)
  <2> HIDE DEF p
  <2> QED
    BY <1>2, <1>3 DEF Ring
<1>5. Enabled' = Enabled
  BY <1>1 DEF Enabled, isModuleEnabled
<1> QED
  BY <1>1, <1>4, <1>5 DEF IInv, ModulesSetUp

LEMMA EnableStep ==
    ASSUME IInv, NEW m \in ModuleAddress, enableModule(m)
    PROVE  IInv' /\ m \in Module /\ ModuleSet!Enable(m)
<1>1. /\ m \in Module /\ modules[m] = Zero /\ ModulesSetUp
      /\ modules \in [ModuleAddress -> ModuleAddress] /\ modules[Zero] = Zero
      /\ modules' = [modules EXCEPT ![m] = modules[SENTINEL], ![SENTINEL] = m]
      /\ SENTINEL \in ModuleAddress /\ m \notin {Zero, SENTINEL} /\ Zero # SENTINEL
  BY ModuleAssumption DEF enableModule, CanEnable, IInv, ModuleAddress
<1>2. PICK n \in Nat : Ring(modules, n, Module)
  BY <1>1 DEF IInv
<1>3. Ring(modules', n + 1, Module)
  BY <1>1, <1>2, RingInsert, ModuleSpace
<1>4. modules[SENTINEL] # Zero
  BY <1>1 DEF ModulesSetUp
<1>5. /\ modules' \in [ModuleAddress -> ModuleAddress] /\ modules'[Zero] = Zero
      /\ modules'[SENTINEL] # Zero
  BY <1>1
<1>6. IInv'
  <2>1. n + 1 \in Nat
    OBVIOUS
  <2> QED
    BY <1>3, <1>5, <2>1 DEF IInv, ModulesSetUp
<1>7. m \notin Enabled /\ Enabled' = Enabled \cup {m}
  BY <1>1, <1>4 DEF Enabled, isModuleEnabled
<1> QED
  BY <1>1, <1>6, <1>7 DEF ModuleSet!Enable

\* prev may be any address: GS103 and the ring leave one.
LEMMA DisableStep ==
    ASSUME IInv, NEW prev \in ModuleAddress, NEW m \in ModuleAddress, disableModule(prev, m)
    PROVE  IInv' /\ m \in Module /\ ModuleSet!Disable(m)
<1>1. /\ modules[prev] = m /\ m \notin {Zero, SENTINEL} /\ ModulesSetUp
      /\ modules \in [ModuleAddress -> ModuleAddress] /\ modules[Zero] = Zero
      /\ modules' = [modules EXCEPT ![prev] = modules[m], ![m] = Zero]
      /\ SENTINEL \in ModuleAddress /\ Zero \in ModuleAddress /\ Zero # SENTINEL
  BY ModuleAssumption DEF disableModule, CanDisable, IInv, ModuleAddress
<1>2. m \in Module
  BY <1>1 DEF ModuleAddress
<1>3. PICK n \in Nat : Ring(modules, n, Module)
  BY <1>1 DEF IInv
<1>4. PICK p \in [0..n -> Module \cup {SENTINEL}] : RingOrder(modules, n, p, Module)
  BY <1>3 DEF Ring
<1>5. PICK k \in 1..n : p[k] = m /\ p[k - 1] = prev
  <2>1. modules \in [ModuleAddress -> ModuleAddress] /\ modules[Zero] = Zero /\ modules[prev] = m
    BY <1>1
  <2>2. m \notin {Zero, SENTINEL}
    BY <1>1
  <2> QED
    BY <1>4, <2>1, <2>2, RingPredecessor, ModuleSpace
<1>6. Ring(modules', n - 1, Module)
  <2>1. Ring([modules EXCEPT ![p[k - 1]] = modules[p[k]], ![p[k]] = Zero], n - 1, Module)
    BY <1>4, RingDelete, ModuleSpace DEF IInv
  <2> QED
    BY <1>1, <1>5, <2>1
<1>7. modules[m] # Zero /\ prev # m
  <2>1. modules[p[k]] # Zero /\ p[k - 1] # p[k]
    BY <1>4, RingPlace, ModuleSpace DEF IInv
  <2> QED
    BY <1>5, <2>1
<1>8. modules[SENTINEL] # Zero /\ prev # Zero
  BY <1>1 DEF ModulesSetUp
<1>9. /\ modules' \in [ModuleAddress -> ModuleAddress] /\ modules'[Zero] = Zero
      /\ modules'[SENTINEL] # Zero
  BY <1>1, <1>2, <1>7, <1>8
<1>10. IInv'
  <2>1. n - 1 \in Nat
    OBVIOUS
  <2> QED
    BY <1>6, <1>9, <2>1 DEF IInv, ModulesSetUp
<1>11. m \in Enabled /\ Enabled' = Enabled \ {m}
  BY <1>1, <1>7, <1>8 DEF Enabled, isModuleEnabled
<1> QED
  BY <1>2, <1>10, <1>11 DEF ModuleSet!Disable

LEMMA NextIInv ==
    ASSUME IInv, [ModuleNext]_moduleVars
    PROVE  IInv' /\ [ModuleSet!Next]_Enabled
<1>1. CASE setupModules
  BY <1>1, SetupStep
<1>2. ASSUME NEW m \in ModuleAddress, enableModule(m)
      PROVE  IInv' /\ [ModuleSet!Next]_Enabled
  BY <1>2, EnableStep DEF ModuleSet!Next
<1>3. ASSUME NEW prev \in ModuleAddress, NEW m \in ModuleAddress, disableModule(prev, m)
      PROVE  IInv' /\ [ModuleSet!Next]_Enabled
  BY <1>3, DisableStep DEF ModuleSet!Next
<1>4. CASE UNCHANGED modules
  BY <1>4 DEF IInv, ModulesSetUp, Enabled, isModuleEnabled
<1> QED
  BY <1>1, <1>2, <1>3, <1>4 DEF ModuleNext, ReadPage, Restart, moduleVars

-----------------------------------------------------------------------------
(* The theorems. *)

\* Every reachable state satisfies the inductive invariant.
THEOREM Invariance == ModuleSpec => []IInv
<1>1. IInv /\ [ModuleNext]_moduleVars => IInv'
  BY NextIInv
<1> QED
  BY <1>1, InitIInv, PTL DEF ModuleSpec

\* From setupModules on, the entries of the mapping are one ring through the
\* sentinel, whatever modules were enabled and disabled with any claimed
\* predecessor.
THEOREM RingCorrect == ModuleSpec => [](ModulesSetUp => \E n \in Nat : Ring(modules, n, Module))
<1>1. IInv => (ModulesSetUp => \E n \in Nat : Ring(modules, n, Module))
  BY DEF IInv
<1> QED
  BY <1>1, Invariance, PTL

\* The list implements a set of modules: enableModule puts one module in,
\* disableModule takes exactly the named one out, and no other call of the
\* contract, the paging views included, changes the set.
THEOREM ImplementsRegistry == ModuleSpec => ModuleSetSpec
<1>1. ModuleInit => ModuleSet!Init
  BY ModuleAssumption DEF ModuleInit, ModuleSet!Init, Enabled, isModuleEnabled, ModuleAddress
<1>2. IInv /\ [ModuleNext]_moduleVars => IInv' /\ [ModuleSet!Next]_Enabled
  BY NextIInv
<1> QED
  BY <1>1, <1>2, InitIInv, PTL DEF ModuleSpec, ModuleSetSpec, ModuleSet!Spec
-----------------------------------------------------------------------------
(* Paging. *)

\* The walk of getModulesPaginated is the recursive function that its loop
\* computes.
LEMMA FollowWalks ==
    ASSUME modules \in [ModuleAddress -> ModuleAddress], NEW start \in ModuleAddress
    PROVE  Follow(start) \in [Nat -> ModuleAddress] /\ Walks(Follow(start), modules, start)
<1>1. Follow(start) =
        [k \in Nat |-> IF k = 0 THEN modules[start] ELSE modules[Follow(start)[k - 1]]]
  BY WalkExists DEF Follow
<1> QED
  BY <1>1, WalkType

\* How many modules a page of the given size from the a-th place of n has,
\* and what a page that ends at the b-th place says to be next.
PageLength(n, a, size) == IF size <= n - a THEN size ELSE n - a

PageNext(p, n, b) == IF b = n THEN SENTINEL ELSE p[b + 1]

\* The page of c modules behind the a-th place.
PageAt(p, n, a, c) ==
    [array |-> [k \in 1..c |-> p[a + k]], next |-> PageNext(p, n, a + c)]

LEMMA PageLengthFits ==
    ASSUME NEW n \in Nat, NEW a \in 0..n, NEW size \in Nat
    PROVE  PageLength(n, a, size) \in Nat /\ a + PageLength(n, a, size) \in 0..n
  BY DEF PageLength

\* A page from the a-th place of a ring holds the members behind that place,
\* in their order, until it is full or the ring ends.
LEMMA PageFromPlace ==
    ASSUME modules \in [ModuleAddress -> ModuleAddress],
           NEW n \in Nat, NEW p \in [0..n -> Module \cup {SENTINEL}],
           RingOrder(modules, n, p, Module),
           NEW a \in 0..n, NEW size \in Nat
    PROVE  getModulesPaginated(p[a], size) = PageAt(p, n, a, PageLength(n, a, size))
<1> DEFINE c == PageLength(n, a, size)
<1>1. c \in Nat /\ a + c \in 0..n /\ c <= size /\ c <= n - a
  BY DEF PageLength
<1>2. p[a] \in ModuleAddress
  BY DEF ModuleAddress
<1> HIDE DEF c
<1> DEFINE f == Follow(p[a])
<1> HIDE DEF f
<1>3. Passes(f, p, n, a)
  <2>1. Walks(f, modules, p[a])
    BY <1>2, FollowWalks DEF f
  <2> QED
    BY <2>1, RingWalk
<1>4. \A j \in Nat : j < n - a => f[j] \notin {Zero, SENTINEL}
  <2> SUFFICES ASSUME NEW j \in Nat, j < n - a
               PROVE  f[j] \notin {Zero, SENTINEL}
    OBVIOUS
  <2>1. a + j + 1 \in 1..n /\ f[j] = p[a + j + 1]
    BY <1>3 DEF Passes
  <2> QED
    BY <2>1, ModuleAssumption DEF RingOrder
<1>5. f[c] = PageNext(p, n, a + c)
  <2>1. CASE c = n - a
    BY <1>1, <1>3, <2>1 DEF Passes, PageNext
  <2>2. CASE c # n - a
    <3>1. c < n - a /\ a + c # n
      BY <1>1, <2>2
    <3>2. f[c] = p[a + c + 1]
      BY <1>1, <1>3, <3>1 DEF Passes
    <3> QED
      BY <3>1, <3>2 DEF PageNext
  <2> QED
    BY <2>1, <2>2
<1>6. moduleCount(p[a], size) = c
  <2>1. PageEnds(f[c], c, size)
    <3>1. CASE size <= n - a
      BY <3>1 DEF PageEnds, PageLength, c
    <3>2. CASE ~(size <= n - a)
      BY <3>2, <1>3 DEF PageEnds, PageLength, Passes, c
    <3> QED
      BY <3>1, <3>2
  <2>2. \A j \in 0..(c - 1) : ~PageEnds(f[j], j, size)
    <3> SUFFICES ASSUME NEW j \in 0..(c - 1)
                 PROVE  ~PageEnds(f[j], j, size)
      OBVIOUS
    <3>1. j \in Nat /\ j < n - a /\ j # size
      BY <1>1
    <3> QED
      BY <3>1, <1>4 DEF PageEnds
  <2> DEFINE End(k) == /\ PageEnds(f[k], k, size)
                       /\ \A j \in 0..(k - 1) : ~PageEnds(f[j], j, size)
  <2>3. c \in 0..(size + 1) /\ End(c)
    BY <1>1, <2>1, <2>2
  <2>4. \A k \in 0..(size + 1) : End(k) => k = c
    <3> SUFFICES ASSUME NEW k \in 0..(size + 1), End(k), k # c
                 PROVE  FALSE
      OBVIOUS
    <3>1. CASE k < c
      BY <3>1, <1>1, <2>2
    <3>2. CASE c < k
      BY <3>2, <1>1, <2>1
    <3> QED
      BY <3>1, <3>2, <1>1
  <2>5. moduleCount(p[a], size) = CHOOSE k \in 0..(size + 1) : End(k)
    BY DEF moduleCount, f
  <2> HIDE DEF End
  <2> QED
    BY <2>3, <2>4, <2>5
<1>7. \A k \in 1..c : f[k - 1] = p[a + k]
  <2> SUFFICES ASSUME NEW k \in 1..c
               PROVE  f[k - 1] = p[a + k]
    OBVIOUS
  <2>1. k - 1 \in Nat /\ k - 1 < n - a /\ a + (k - 1) + 1 = a + k
    BY <1>1
  <2> QED
    BY <1>3, <2>1 DEF Passes
<1>8. getModulesPaginated(p[a], size) = [array |-> [k \in 1..c |-> f[k - 1]], next |-> f[c]]
  BY <1>6 DEF getModulesPaginated, f
<1>9. [k \in 1..c |-> f[k - 1]] = [k \in 1..c |-> p[a + k]]
  BY <1>7
<1> QED
  BY <1>1, <1>5, <1>8, <1>9 DEF PageAt, c
\* The places 1..n of the ring are the enabled modules.
LEMMA EnabledPlaces ==
    ASSUME modules \in [ModuleAddress -> ModuleAddress], modules[Zero] = Zero,
           NEW n \in Nat, NEW p \in [0..n -> Module \cup {SENTINEL}],
           RingOrder(modules, n, p, Module)
    PROVE  /\ \A i \in 1..n : p[i] \in Enabled
           /\ \A m \in Enabled : \E i \in 1..n : p[i] = m
           /\ Enabled \subseteq Module
           /\ Cardinality(Enabled) = n
<1>1. \A i \in 1..n : p[i] \in Enabled
  <2> SUFFICES ASSUME NEW i \in 1..n
               PROVE  p[i] \in Enabled
    OBVIOUS
  <2>1. p[i] \in Module /\ modules[p[i]] # Zero
    BY RingPlace, ModuleSpace
  <2> QED
    BY <2>1, ModuleAssumption DEF Enabled, isModuleEnabled, ModuleAddress
<1>2. \A m \in Enabled : \E i \in 1..n : p[i] = m
  BY DEF Enabled, isModuleEnabled, RingOrder
<1>3. Enabled = Members(modules)
  BY DEF Enabled, isModuleEnabled, Members
<1>4. Ring(modules, n, Module)
  BY DEF Ring
<1>5. Enabled \subseteq Module /\ Cardinality(Enabled) = n
  BY <1>3, <1>4, RingMembers, ModuleSpace
<1> QED
  BY <1>1, <1>2, <1>5

\* One page that is long enough lists every enabled module exactly once and
\* ends the list, for any number of modules and whatever calls came before.
THEOREM WholePageCorrect == ModuleSpec => []WholePage
<1>1. IInv => WholePage
  <2> DEFINE size == Cardinality(Enabled)
             page == getModulesPaginated(SENTINEL, size)
  <2> SUFFICES ASSUME IInv, ModulesSetUp
               PROVE  /\ {page.array[k] : k \in DOMAIN page.array} = Enabled
                      /\ Len(page.array) = size
                      /\ page.next = SENTINEL
    BY DEF WholePage
  <2>1. modules \in [ModuleAddress -> ModuleAddress] /\ modules[Zero] = Zero
    BY DEF IInv
  <2>0. PICK n \in Nat : Ring(modules, n, Module)
    BY DEF IInv
  <2>2. PICK p \in [0..n -> Module \cup {SENTINEL}] : RingOrder(modules, n, p, Module)
    BY <2>0 DEF Ring
  <2>3. /\ size = n
        /\ \A i \in 1..n : p[i] \in Enabled
        /\ \A m \in Enabled : \E i \in 1..n : p[i] = m
    BY <2>1, <2>2, EnabledPlaces
  <2>4. PICK a \in 0..n : a = 0 /\ p[a] = SENTINEL /\ PageLength(n, a, n) = n
    <3>1. 0 \in 0..n /\ p[0] = SENTINEL /\ PageLength(n, 0, n) = n
      BY <2>2 DEF RingOrder, PageLength
    <3> QED
      BY <3>1
  <2>5. getModulesPaginated(p[a], n) = PageAt(p, n, a, PageLength(n, a, n))
    BY <2>1, <2>2, PageFromPlace
  <2>6. page = PageAt(p, n, a, n)
    BY <2>3, <2>4, <2>5
  <2> HIDE DEF page, size
  <2>7. page.array = [k \in 1..n |-> p[0 + k]] /\ page.next = PageNext(p, n, 0 + n)
    BY <2>4, <2>6 DEF PageAt
  <2>8. DOMAIN page.array = 1..n /\ \A k \in 1..n : page.array[k] = p[k]
    BY <2>7
  <2>9. {page.array[k] : k \in DOMAIN page.array} = Enabled
    <3>1. \A k \in 1..n : page.array[k] \in Enabled
      BY <2>3, <2>8
    <3>2. \A m \in Enabled : \E k \in 1..n : page.array[k] = m
      BY <2>3, <2>8
    <3> QED
      BY <2>8, <3>1, <3>2
  <2>10. Len(page.array) = size
    BY <2>3, <2>7
  <2>11. page.next = SENTINEL
    BY <2>7 DEF PageNext
  <2> QED
    BY <2>9, <2>10, <2>11
<1> QED
  BY <1>1, Invariance, PTL

\* The c entries of p behind the a-th place, as a sequence.
Places(p, a, c) == [k \in 1..c |-> p[a + k]]

LEMMA PlacesConcat ==
    ASSUME NEW S, NEW n \in Nat, NEW p \in [0..n -> S],
           NEW a \in Nat, NEW c \in Nat, NEW d \in Nat, a + c + d <= n
    PROVE  Places(p, a, c + d) = Places(p, a, c) \o Places(p, a + c, d)
<1> DEFINE u == Places(p, a, c)
           v == Places(p, a + c, d)
<1>1. u \in Seq(S) /\ Len(u) = c
  <2>1. \A k \in 1..c : p[a + k] \in S
    BY SMT
  <2> QED
    BY <2>1 DEF Places
<1>2. v \in Seq(S) /\ Len(v) = d
  <2>1. \A k \in 1..d : p[a + c + k] \in S
    BY SMT
  <2> QED
    BY <2>1 DEF Places
<1>3. \A k \in 1..c : u[k] = p[a + k]
  BY DEF Places
<1>4. \A k \in 1..d : v[k] = p[a + c + k]
  BY DEF Places
<1> HIDE DEF u, v
<1>5. /\ u \o v \in Seq(S) /\ Len(u \o v) = c + d
      /\ \A k \in 1..(c + d) : (u \o v)[k] = IF k <= c THEN u[k] ELSE v[k - c]
  BY <1>1, <1>2
<1>6. \A k \in 1..(c + d) : (u \o v)[k] = p[a + k]
  <2> SUFFICES ASSUME NEW k \in 1..(c + d)
               PROVE  (u \o v)[k] = p[a + k]
    OBVIOUS
  <2>1. CASE k <= c
    BY <1>3, <1>5, <2>1
  <2>2. CASE ~(k <= c)
    <3>1. k - c \in 1..d /\ a + c + (k - c) = a + k
      BY <2>2
    <3> QED
      BY <1>4, <1>5, <2>2, <3>1
  <2> QED
    BY <2>1, <2>2
<1>7. u \o v = [k \in 1..(c + d) |-> (u \o v)[k]]
  <2>1. PICK w : w = u \o v
    OBVIOUS
  <2>2. w \in Seq(S) /\ Len(w) = c + d
    BY <1>5, <2>1
  <2>3. w = [k \in 1..(c + d) |-> w[k]]
    BY <2>2
  <2> QED
    BY <2>1, <2>3
<1>8. [k \in 1..(c + d) |-> (u \o v)[k]] = [k \in 1..(c + d) |-> p[a + k]]
  BY <1>6
<1> QED
  BY <1>7, <1>8 DEF u, v, Places

\* Pages fit together: whatever the sizes, a page and the one that starts at
\* its last module are the page of both sizes.
THEOREM PagesFit == ModuleSpec => []PagesCompose
<1>1. IInv => PagesCompose
  <2> SUFFICES ASSUME IInv, ModulesSetUp,
                      NEW start \in Enabled \cup {SENTINEL},
                      NEW size \in PageSizes, NEW more \in PageSizes,
                      getModulesPaginated(start, size).array # <<>>
               PROVE  LET page == getModulesPaginated(start, size)
                          rest == getModulesPaginated(page.array[Len(page.array)], more)
                      IN  getModulesPaginated(start, size + more) =
                            [array |-> page.array \o rest.array, next |-> rest.next]
    BY DEF PagesCompose
  <2> DEFINE page == getModulesPaginated(start, size)
             rest == getModulesPaginated(page.array[Len(page.array)], more)
             both == getModulesPaginated(start, size + more)
  <2>1. modules \in [ModuleAddress -> ModuleAddress] /\ modules[Zero] = Zero
    BY DEF IInv
  <2>0. PICK n \in Nat : Ring(modules, n, Module)
    BY DEF IInv
  <2>2. PICK p \in [0..n -> Module \cup {SENTINEL}] : RingOrder(modules, n, p, Module)
    BY <2>0 DEF Ring
  <2>3. PICK a \in 0..n : p[a] = start
    <3>1. CASE start = SENTINEL
      <4>1. 0 \in 0..n /\ p[0] = start
        BY <2>2, <3>1 DEF RingOrder
      <4> QED
        BY <4>1
    <3>2. CASE start \in Enabled
      <4>1. PICK i \in 1..n : p[i] = start
        BY <2>1, <2>2, <3>2, EnabledPlaces
      <4>2. i \in 0..n
        OBVIOUS
      <4> QED
        BY <4>1, <4>2
    <3> QED
      BY <3>1, <3>2
  <2>4. size \in Nat /\ more \in Nat /\ size + more \in Nat
    BY ModuleAssumption
  <2> DEFINE c == PageLength(n, a, size)
             d == PageLength(n, a + c, more)
  <2> HIDE DEF page, rest, both, c, d
  <2>5. /\ c \in Nat /\ a + c \in 0..n
        /\ page = [array |-> [k \in 1..c |-> p[a + k]], next |-> PageNext(p, n, a + c)]
    <3>1. c \in Nat /\ a + c \in 0..n
      BY <2>4, PageLengthFits DEF c
    <3>2. getModulesPaginated(p[a], size) = PageAt(p, n, a, PageLength(n, a, size))
      BY <2>1, <2>2, <2>4, PageFromPlace
    <3>3. page = PageAt(p, n, a, c)
      BY <2>3, <3>2 DEF page, c
    <3> QED
      BY <3>1, <3>3 DEF PageAt
  <2>6. page.array = [k \in 1..c |-> p[a + k]] /\ Len(page.array) = c
    BY <2>5
  <2>7. c \in 1..c
    <3>1. CASE c = 0
      <4>1. page.array = <<>>
        BY <2>6, <3>1
      <4> QED
        BY <4>1 DEF page
    <3>2. CASE c # 0
      BY <2>5, <3>2
    <3> QED
      BY <3>1, <3>2
  <2>8. page.array[Len(page.array)] = p[a + c]
    BY <2>6, <2>7
  <2>9. rest = getModulesPaginated(p[a + c], more)
    BY <2>8 DEF rest
  <2>10. /\ d \in Nat
         /\ rest = [array |-> [k \in 1..d |-> p[a + c + k]],
                    next |-> PageNext(p, n, a + c + d)]
    <3>1. PICK e \in 0..n : e = a + c
      BY <2>5
    <3>2. d \in Nat
      BY <2>4, <2>5, PageLengthFits DEF d
    <3>3. getModulesPaginated(p[e], more) = PageAt(p, n, e, PageLength(n, e, more))
      BY <2>1, <2>2, <2>4, PageFromPlace
    <3>4. rest = PageAt(p, n, a + c, d)
      BY <2>9, <3>1, <3>3 DEF d
    <3> QED
      BY <3>2, <3>4 DEF PageAt
  <2>11. c + d = PageLength(n, a, size + more)
    BY <2>4 DEF c, d, PageLength
  <2>12. both = [array |-> [k \in 1..(c + d) |-> p[a + k]],
                 next |-> PageNext(p, n, a + (c + d))]
    <3>1. PICK sum \in Nat : sum = size + more
      BY <2>4
    <3>2. getModulesPaginated(p[a], sum) = PageAt(p, n, a, PageLength(n, a, sum))
      BY <2>1, <2>2, PageFromPlace
    <3>3. both = PageAt(p, n, a, c + d)
      BY <2>3, <2>11, <3>1, <3>2 DEF both
    <3> QED
      BY <3>3 DEF PageAt
  <2>13. [k \in 1..(c + d) |-> p[a + k]] = page.array \o rest.array
    <3>1. a \in Nat /\ a + c + d <= n
      <4>1. PICK e \in 0..n : e = a + c
        BY <2>5
      <4>2. e + d \in 0..n
        BY <2>4, <4>1, PageLengthFits DEF d
      <4> QED
        BY <4>1, <4>2
    <3> QED
      BY <2>5, <2>6, <2>10, <3>1, PlacesConcat DEF Places
  <2>14. rest.next = PageNext(p, n, a + (c + d))
    <3>1. a + (c + d) = a + c + d
      BY <2>5, <2>10
    <3> QED
      BY <2>10, <3>1
  <2> QED
    <3>1. both = [array |-> page.array \o rest.array, next |-> rest.next]
      BY <2>12, <2>13, <2>14
    <3> QED
      BY <3>1 DEF both, page, rest
<1> QED
  BY <1>1, Invariance, PTL
-----------------------------------------------------------------------------
(* The client that follows `next` from page to page. *)

\* The values of f at the places of I.
At(f, I) == {f[i] : i \in I}

\* No value occurs twice in s, and all occur up to the b-th place of p.
Distinct(s) == \A i, j \in 1..Len(s) : s[i] = s[j] => i = j

Within(s, p, b) == \A i \in 1..Len(s) : \E k \in 1..b : s[i] = p[k]

SeenSet == At(reader.seen, DOMAIN reader.seen)

\* The client has read the ring up to its b-th place: what it has seen lies
\* before, and its next page starts at the b-th, unless it has come to the end.
ReaderAt(n, p, b) ==
    /\ SeenSet \subseteq At(p, 1..b)
    /\ IF reader.done THEN b = n ELSE reader.start = p[b]

\* No module is seen twice.
SeenApart ==
    /\ reader \in [start : ModuleAddress, seen : Seq(Module), done : BOOLEAN]
    /\ Distinct(reader.seen)

\* The ring, with a place in it that the client has come to.
ReaderInv ==
    /\ SeenApart
    /\ ~ModulesSetUp => reader = AtStart
    /\ ModulesSetUp =>
          \E n \in Nat : \E p \in [0..n -> Module \cup {SENTINEL}] :
              RingOrder(modules, n, p, Module) /\ \E b \in 0..n : ReaderAt(n, p, b)

\* A client that starts from the beginning has seen nothing yet.
LEMMA FreshReader == IInv /\ reader = AtStart => ReaderInv
<1> SUFFICES ASSUME IInv, reader = AtStart
             PROVE  ReaderInv
  OBVIOUS
<1>1. reader.start = SENTINEL /\ reader.seen = <<>> /\ reader.done = FALSE
  BY DEF AtStart
<1>2. SeenSet = {}
  BY <1>1 DEF SeenSet, At
<1>3. SeenApart
  <2>1. <<>> \in Seq(Module) /\ SENTINEL \in ModuleAddress
    BY DEF ModuleAddress
  <2>2. reader \in [start : ModuleAddress, seen : Seq(Module), done : BOOLEAN]
    BY <2>1 DEF AtStart
  <2>3. Len(reader.seen) = 0
    BY <1>1
  <2> QED
    BY <1>1, <2>2, <2>3 DEF SeenApart, Distinct
<1>4. ASSUME ModulesSetUp
      PROVE  \E n \in Nat : \E p \in [0..n -> Module \cup {SENTINEL}] :
                RingOrder(modules, n, p, Module) /\ \E b \in 0..n : ReaderAt(n, p, b)
  <2>1. PICK n \in Nat : Ring(modules, n, Module)
    BY <1>4 DEF IInv
  <2>2. PICK p \in [0..n -> Module \cup {SENTINEL}] : RingOrder(modules, n, p, Module)
    BY <2>1 DEF Ring
  <2>3. 0 \in 0..n /\ p[0] = SENTINEL
    BY <2>2 DEF RingOrder
  <2>4. At(p, 1..0) = {}
    BY DEF At
  <2>5. ReaderAt(n, p, 0)
    BY <1>1, <1>2, <2>3, <2>4 DEF ReaderAt
  <2> QED
    BY <2>2, <2>3, <2>5
<1> QED
  BY <1>3, <1>4 DEF ReaderInv

\* t is s with v behind it.
Joins(t, s, v) ==
    /\ Len(t) = Len(s) + Len(v)
    /\ \A k \in 1..Len(s) : t[k] = s[k]
    /\ \A k \in 1..Len(v) : t[Len(s) + k] = v[k]

LEMMA ConcatJoins ==
    ASSUME NEW S, NEW s \in Seq(S), NEW v \in Seq(S)
    PROVE  s \o v \in Seq(S) /\ Joins(s \o v, s, v)
  BY DEF Joins

\* On I, t takes exactly the values that f takes on J and that g takes on K.
Gathers(t, I, f, J, g, K) ==
    /\ \A i \in I : (\E k \in J : t[i] = f[k]) \/ (\E k \in K : t[i] = g[k])
    /\ \A k \in J : \E i \in I : t[i] = f[k]
    /\ \A k \in K : \E i \in I : t[i] = g[k]

LEMMA GatheredValues ==
    ASSUME NEW t, NEW I, NEW f, NEW J, NEW g, NEW K, Gathers(t, I, f, J, g, K)
    PROVE  At(t, I) = At(f, J) \cup At(g, K)
  BY DEF Gathers, At

\* Adding the c members behind the b-th place to a sequence of members up to
\* that place repeats none.
LEMMA SeenGrows ==
    ASSUME NEW S, NEW n \in Nat, NEW p \in [0..n -> S \cup {SENTINEL}],
           p[0] = SENTINEL, \A i \in 1..n : p[i] \in S,
           \A i, j \in 0..n : p[i] = p[j] => i = j,
           NEW b \in 0..n, NEW c \in Nat, b + c <= n,
           NEW s \in Seq(S),
           Distinct(s), Within(s, p, b),
           NEW t, t = s \o Places(p, b, c)
    PROVE  /\ t \in Seq(S) /\ Distinct(t)
           /\ At(t, DOMAIN t) = At(s, DOMAIN s) \cup At(p, (b + 1)..(b + c))
<1> DEFINE v == Places(p, b, c)
<1>1. v \in Seq(S) /\ Len(v) = c
  <2>1. \A k \in 1..c : b + k \in 1..n /\ p[b + k] \in S
    BY SMT
  <2> QED
    BY <2>1 DEF Places
<1>2. \A k \in 1..c : v[k] = p[b + k]
  BY DEF Places
<1> HIDE DEF v
<1>3. t = s \o v
  BY DEF v
<1>4. t \in Seq(S) /\ Joins(t, s, v)
  BY <1>1, <1>3, ConcatJoins
<1>5. /\ Len(s) \in Nat /\ DOMAIN s = 1..Len(s)
      /\ Len(t) = Len(s) + c /\ DOMAIN t = 1..(Len(s) + c)
  BY <1>1, <1>4 DEF Joins
<1>6. \A k \in 1..Len(s) : t[k] = s[k]
  BY <1>4 DEF Joins
<1>7. \A k \in (Len(s) + 1)..(Len(s) + c) :
         b + (k - Len(s)) \in (b + 1)..(b + c) /\ t[k] = p[b + (k - Len(s))]
  <2> SUFFICES ASSUME NEW k \in (Len(s) + 1)..(Len(s) + c)
               PROVE  b + (k - Len(s)) \in (b + 1)..(b + c) /\ t[k] = p[b + (k - Len(s))]
    OBVIOUS
  <2>1. k - Len(s) \in 1..c /\ Len(s) + (k - Len(s)) = k
    BY <1>5
  <2>2. t[k] = v[k - Len(s)]
    BY <1>1, <1>4, <2>1 DEF Joins
  <2>3. b + (k - Len(s)) \in (b + 1)..(b + c)
    BY <2>1
  <2> QED
    BY <1>2, <2>1, <2>2, <2>3
<1>8. ASSUME NEW i \in 1..Len(t), NEW j \in 1..Len(t), t[i] = t[j]
      PROVE  i = j
  <2>1. CASE i <= Len(s) /\ j <= Len(s)
    BY <1>5, <1>6, <1>8, <2>1 DEF Distinct
  <2>2. CASE ~(i <= Len(s)) /\ ~(j <= Len(s))
    <3>1. i \in (Len(s) + 1)..(Len(s) + c) /\ j \in (Len(s) + 1)..(Len(s) + c)
      BY <1>4, <1>5, <2>2
    <3>2. p[b + (i - Len(s))] = p[b + (j - Len(s))]
      BY <1>7, <1>8, <3>1
    <3>3. b + (i - Len(s)) \in 0..n /\ b + (j - Len(s)) \in 0..n
      BY <1>5, <3>1
    <3>4. b + (i - Len(s)) = b + (j - Len(s))
      BY <3>2, <3>3
    <3> QED
      BY <1>5, <3>4
  <2>3. ASSUME NEW x \in 1..Len(t), NEW y \in 1..Len(t), t[x] = t[y],
               x <= Len(s), ~(y <= Len(s))
        PROVE  FALSE
    <3>1. y \in (Len(s) + 1)..(Len(s) + c) /\ x \in 1..Len(s)
      BY <1>4, <1>5, <2>3
    <3>2. PICK k \in 1..b : s[x] = p[k]
      BY <3>1 DEF Within
    <3>3. p[k] = p[b + (y - Len(s))] /\ b + (y - Len(s)) \in (b + 1)..(b + c)
      BY <1>6, <1>7, <2>3, <3>1, <3>2
    <3>4. k \in 0..n /\ b + (y - Len(s)) \in 0..n /\ k < b + (y - Len(s))
      BY <3>3
    <3>5. k = b + (y - Len(s))
      BY <3>3, <3>4
    <3> QED
      BY <3>4, <3>5
  <2> QED
    BY <1>8, <2>1, <2>2, <2>3
<1>9. \A i \in DOMAIN t : (\E k \in DOMAIN s : t[i] = s[k])
                              \/ (\E k \in (b + 1)..(b + c) : t[i] = p[k])
  <2> SUFFICES ASSUME NEW i \in DOMAIN t
               PROVE  \/ \E k \in DOMAIN s : t[i] = s[k]
                      \/ \E k \in (b + 1)..(b + c) : t[i] = p[k]
    OBVIOUS
  <2>1. CASE i <= Len(s)
    <3>1. i \in DOMAIN s /\ t[i] = s[i]
      BY <1>5, <1>6, <2>1
    <3> QED
      BY <3>1
  <2>2. CASE ~(i <= Len(s))
    <3>1. i \in (Len(s) + 1)..(Len(s) + c)
      BY <1>5, <2>2
    <3> QED
      BY <1>7, <3>1
  <2> QED
    BY <2>1, <2>2
<1>10. \A k \in DOMAIN s : \E i \in DOMAIN t : t[i] = s[k]
  <2> SUFFICES ASSUME NEW k \in DOMAIN s
               PROVE  \E i \in DOMAIN t : t[i] = s[k]
    OBVIOUS
  <2>1. k \in DOMAIN t /\ t[k] = s[k]
    BY <1>5, <1>6
  <2> QED
    BY <2>1
<1>11. \A k \in (b + 1)..(b + c) : \E i \in DOMAIN t : t[i] = p[k]
  <2> SUFFICES ASSUME NEW k \in (b + 1)..(b + c)
               PROVE  \E i \in DOMAIN t : t[i] = p[k]
    OBVIOUS
  <2> DEFINE i == Len(s) + (k - b)
  <2>1. i \in (Len(s) + 1)..(Len(s) + c) /\ i \in DOMAIN t /\ b + (i - Len(s)) = k
    BY <1>5
  <2> HIDE DEF i
  <2>2. t[i] = p[b + (i - Len(s))]
    BY <1>7, <2>1
  <2> QED
    BY <2>1, <2>2
<1>12. At(t, DOMAIN t) = At(s, DOMAIN s) \cup At(p, (b + 1)..(b + c))
  <2>1. Gathers(t, DOMAIN t, s, DOMAIN s, p, (b + 1)..(b + c))
    BY <1>9, <1>10, <1>11 DEF Gathers
  <2> QED
    BY <2>1, GatheredValues
<1> QED
  BY <1>4, <1>8, <1>12 DEF Distinct
\* Reading a page moves the client from the b-th place to the end of the ring
\* or to the module behind the page.
LEMMA ReadPageStep ==
    ASSUME IInv, ReaderInv, NEW pageSize \in PageSizes, ReadPage(pageSize)
    PROVE  ReaderInv'
<1>1. /\ ModulesSetUp /\ reader.done = FALSE
      /\ modules' = modules
      /\ modules \in [ModuleAddress -> ModuleAddress] /\ pageSize \in Nat
  BY ModuleAssumption DEF ReadPage, IInv, ReaderInv, SeenApart
<1>2. PICK n \in Nat : \E p \in [0..n -> Module \cup {SENTINEL}] :
        RingOrder(modules, n, p, Module) /\ \E b \in 0..n : ReaderAt(n, p, b)
  BY <1>1 DEF ReaderInv
<1>3. PICK p \in [0..n -> Module \cup {SENTINEL}] :
        RingOrder(modules, n, p, Module) /\ \E b \in 0..n : ReaderAt(n, p, b)
  BY <1>2
<1>4. PICK b \in 0..n : ReaderAt(n, p, b)
  BY <1>3
<1>5. reader.start = p[b] /\ SeenSet \subseteq At(p, 1..b)
  BY <1>1, <1>4 DEF ReaderAt
<1>6. reader.seen \in Seq(Module) /\ Distinct(reader.seen)
  BY DEF ReaderInv, SeenApart
<1>7. /\ p[0] = SENTINEL /\ SENTINEL \notin Module /\ Zero \notin Module
      /\ \A i \in 1..n : p[i] \in Module
      /\ \A i, j \in 0..n : p[i] = p[j] => i = j
  BY <1>3, ModuleAssumption DEF RingOrder
<1> DEFINE c == PageLength(n, b, pageSize)
           page == getModulesPaginated(reader.start, pageSize)
<1> HIDE DEF c, page
<1>8. c \in Nat /\ b + c \in 0..n
  BY <1>1, PageLengthFits DEF c
<1>9. page.array = Places(p, b, c) /\ page.next = PageNext(p, n, b + c)
  <2>1. getModulesPaginated(p[b], pageSize) = PageAt(p, n, b, PageLength(n, b, pageSize))
    BY <1>1, <1>3, PageFromPlace
  <2>2. page = PageAt(p, n, b, c)
    BY <1>5, <2>1 DEF page, c
  <2> QED
    BY <2>2 DEF PageAt, Places
<1>10. reader' = [start |-> page.next, seen |-> reader.seen \o page.array,
                  done |-> page.next \in {Zero, SENTINEL}]
  BY DEF ReadPage, page
<1>11. /\ reader'.start = page.next
       /\ reader'.seen = reader.seen \o Places(p, b, c)
       /\ reader'.done = (page.next \in {Zero, SENTINEL})
  BY <1>9, <1>10
<1>12. Within(reader.seen, p, b)
  <2>1. \A i \in 1..Len(reader.seen) : reader.seen[i] \in At(p, 1..b)
    <3>1. \A i \in DOMAIN reader.seen : reader.seen[i] \in SeenSet
      BY DEF SeenSet, At
    <3>2. DOMAIN reader.seen = 1..Len(reader.seen)
      BY <1>6
    <3> QED
      BY <1>5, <3>1, <3>2
  <2> QED
    BY <2>1 DEF Within, At
<1>13. /\ reader'.seen \in Seq(Module) /\ Distinct(reader'.seen)
       /\ At(reader'.seen, DOMAIN reader'.seen) = SeenSet \cup At(p, (b + 1)..(b + c))
  <2>1. b + c <= n
    BY <1>8
  <2>2. PICK s, t : s \in Seq(Module) /\ s = reader.seen /\ t = reader'.seen
    BY <1>6
  <2>3. s \in Seq(Module) /\ Distinct(s) /\ Within(s, p, b) /\ t = s \o Places(p, b, c)
    BY <1>6, <1>11, <1>12, <2>2
  <2>4. /\ t \in Seq(Module) /\ Distinct(t)
        /\ At(t, DOMAIN t) = At(s, DOMAIN s) \cup At(p, (b + 1)..(b + c))
    BY <1>7, <1>8, <2>1, <2>3, SeenGrows
  <2> QED
    BY <2>2, <2>4 DEF SeenSet
<1>14. SeenSet' = SeenSet \cup At(p, (b + 1)..(b + c))
  BY <1>13 DEF SeenSet
<1>15. At(p, 1..b) \cup At(p, (b + 1)..(b + c)) = At(p, 1..(b + c))
  <2>1. PICK e \in Nat : e = b + c /\ b <= e
    BY <1>8
  <2>2. 1..e = (1..b) \cup ((b + 1)..e)
    BY <2>1
  <2> QED
    BY <2>1, <2>2 DEF At
<1>16. SeenSet' \subseteq At(p, 1..(b + c))
  BY <1>5, <1>14, <1>15
<1>18. CASE b + c = n
  <2>1. page.next = SENTINEL
    BY <1>9, <1>18 DEF PageNext
  <2>2. reader'.done = TRUE
    BY <1>11, <2>1, Zenon
  <2>3. reader' \in [start : ModuleAddress, seen : Seq(Module), done : BOOLEAN]
    BY <1>6, <1>7, <1>9, <1>10, <1>13, <2>1, <2>2 DEF ModuleAddress
  <2>4. SeenApart'
    BY <1>13, <2>3 DEF SeenApart
  <2>5. ReaderAt(n, p, n)'
    BY <1>16, <1>18, <2>2 DEF ReaderAt
  <2>6. n \in 0..n
    OBVIOUS
  <2> QED
    BY <1>1, <1>3, <2>4, <2>5, <2>6 DEF ReaderInv, ModulesSetUp
<1>19. CASE b + c # n
  <2>1. PICK e \in 1..n : e = b + c + 1
    BY <1>8, <1>19
  <2>2. page.next = p[e] /\ p[e] \in Module
    BY <1>7, <1>9, <1>19, <2>1 DEF PageNext
  <2>3. reader'.done = FALSE
    <3>1. p[e] \notin {Zero, SENTINEL}
      BY <1>7, <2>2
    <3>2. (page.next \in {Zero, SENTINEL}) = FALSE
      BY <2>2, <3>1
    <3> QED
      BY <1>11, <3>2, Zenon
  <2>4. At(p, 1..(b + c)) \subseteq At(p, 1..e)
    <3>1. 1..(b + c) \subseteq 1..e
      BY <1>8, <2>1
    <3> QED
      BY <3>1 DEF At
  <2>5. reader' \in [start : ModuleAddress, seen : Seq(Module), done : BOOLEAN]
    BY <1>6, <1>7, <1>9, <1>10, <1>13, <2>2, <2>3 DEF ModuleAddress
  <2>6. SeenApart'
    BY <1>13, <2>5 DEF SeenApart
  <2>7. ReaderAt(n, p, e)'
    BY <1>11, <1>16, <2>2, <2>3, <2>4 DEF ReaderAt
  <2>8. e \in 0..n
    OBVIOUS
  <2> QED
    BY <1>1, <1>3, <2>6, <2>7, <2>8 DEF ReaderInv, ModulesSetUp
<1> QED
  BY <1>18, <1>19

LEMMA NextReaderInv ==
    ASSUME IInv, ReaderInv, [ModuleNext]_moduleVars
    PROVE  ReaderInv'
<1>1. IInv'
  BY NextIInv
<1>2. CASE reader' = AtStart
  <2>1. AtStart' = AtStart
    BY DEF AtStart
  <2>2. (IInv /\ reader = AtStart => ReaderInv)'
    BY FreshReader, PTL
  <2> QED
    BY <1>1, <1>2, <2>1, <2>2
<1>3. CASE setupModules
  <2>1. reader' = AtStart
    BY <1>3 DEF setupModules, ReaderInv
  <2> QED
    BY <1>2, <2>1
<1>4. ASSUME NEW pageSize \in PageSizes, ReadPage(pageSize)
      PROVE  ReaderInv'
  BY <1>4, ReadPageStep
<1>5. CASE UNCHANGED moduleVars
  BY <1>5 DEF moduleVars, ReaderInv, SeenApart, SeenSet, ReaderAt, ModulesSetUp
<1> QED
  BY <1>2, <1>3, <1>4, <1>5 DEF ModuleNext, enableModule, disableModule, Restart

\* A sequence without repetition has as many values as entries.
LEMMA DistinctCardinality ==
    ASSUME NEW S, NEW s \in Seq(S), Distinct(s)
    PROVE  Cardinality(At(s, DOMAIN s)) = Len(s)
<1>1. Len(s) \in Nat /\ DOMAIN s = 1..Len(s)
  OBVIOUS
<1> DEFINE T == At(s, DOMAIN s)
           f == [i \in 1..Len(s) |-> s[i]]
<1>2. \A i \in 1..Len(s) : s[i] \in T
  BY <1>1 DEF At
<1>3. \A x \in T : \E i \in 1..Len(s) : s[i] = x
  BY <1>1 DEF At
<1> HIDE DEF T
<1>4. f \in [1..Len(s) -> T]
  BY <1>2
<1>5. f \in Bijection(1..Len(s), T)
  <2>1. \A i, j \in 1..Len(s) : f[i] = f[j] => i = j
    BY DEF Distinct
  <2>2. \A x \in T : \E i \in 1..Len(s) : f[i] = x
    BY <1>3
  <2> HIDE DEF f
  <2> QED
    BY <1>4, <2>1, <2>2, Fun_IsBij
<1>6. ExistsBijection(1..Len(s), T)
  BY <1>5, Fun_ExistsBij
<1>7. IsFiniteSet(1..Len(s)) /\ Cardinality(1..Len(s)) = Len(s)
  BY <1>1, FS_Interval
<1> QED
  BY <1>6, <1>7, FS_Bijection DEF T

\* PagesDistinct: a client that follows `next` with pages of any mix of sizes
\* sees no module twice, and none that is not enabled.
THEOREM DistinctPages == ModuleSpec => []PagesDistinct
<1>1. ModuleInit => ReaderInv
  BY InitIInv, FreshReader DEF ModuleInit
<1>2. IInv /\ ReaderInv /\ [ModuleNext]_moduleVars => ReaderInv'
  BY NextReaderInv
<1>3. IInv /\ ReaderInv => PagesDistinct
  <2> SUFFICES ASSUME IInv, ReaderInv
               PROVE  PagesDistinct
    OBVIOUS
  <2>1. SeenSet = {reader.seen[i] : i \in DOMAIN reader.seen}
    BY DEF SeenSet, At
  <2>2. Cardinality(SeenSet) = Len(reader.seen)
    BY DistinctCardinality DEF ReaderInv, SeenApart, SeenSet
  <2>3. SeenSet \subseteq Enabled
    <3>1. CASE ModulesSetUp
      <4>1. PICK n \in Nat : \E p \in [0..n -> Module \cup {SENTINEL}] :
              RingOrder(modules, n, p, Module) /\ \E b \in 0..n : ReaderAt(n, p, b)
        BY <3>1 DEF ReaderInv
      <4>2. PICK p \in [0..n -> Module \cup {SENTINEL}] :
              RingOrder(modules, n, p, Module) /\ \E b \in 0..n : ReaderAt(n, p, b)
        BY <4>1
      <4>3. SeenSet \subseteq At(p, 1..n)
        BY <4>2 DEF ReaderAt, At
      <4>4. \A i \in 1..n : p[i] \in Enabled
        BY <4>2, EnabledPlaces DEF IInv
      <4> QED
        BY <4>3, <4>4 DEF At
    <3>2. CASE ~ModulesSetUp
      <4>1. reader.seen = <<>>
        BY <3>2 DEF ReaderInv, AtStart
      <4> QED
        BY <4>1 DEF SeenSet, At
    <3> QED
      BY <3>1, <3>2
  <2> QED
    BY <2>1, <2>2, <2>3 DEF PagesDistinct, Seen
<1> QED
  BY <1>1, <1>2, <1>3, Invariance, PTL DEF ModuleSpec

-----------------------------------------------------------------------------
(* SafeLists *)

\* What is proved of OwnerManager and of ModuleManager holds of a Safe with
\* both: each of its calls, setup included, is a call of theirs or leaves
\* their storage alone.
THEOREM ListsCompose == ListSpec => Spec /\ ModuleSpec
<1>1. ListInit => Init /\ ModuleInit
  BY DEF ListInit
<1>2. ASSUME [ListNext]_listVars
      PROVE  [Next]_vars /\ [ModuleNext]_moduleVars
  <2>1. CASE UNCHANGED listVars
    BY <2>1 DEF listVars, vars, moduleVars
  <2>2. CASE \E list \in OwnerList, t \in ThresholdArg : setup(list, t)
    BY <2>2 DEF setup, Next, ModuleNext
  <2>3. CASE OwnerCall
    BY <2>3 DEF OwnerCall, Next
  <2>4. CASE ModuleCall
    BY <2>4 DEF ModuleCall, ModuleNext
  <2> QED
    BY <1>2, <2>1, <2>2, <2>3, <2>4 DEF ListNext
<1> QED
  BY <1>1, <1>2, PTL DEF ListSpec, Spec, ModuleSpec
=============================================================================
