------------------------ MODULE SafeDeploymentProofs ------------------------
(***************************************************************************)
(* A Safe is set up once, whole and as its creation promised, for every    *)
(* number of proxies and arguments and every depth of nested calls; and    *)
(* what the wallet scripts send once it stands reverts only for a reason   *)
(* they can name.                                                          *)
(***************************************************************************)
EXTENDS SafeDeployment, WalletScripts, FiniteSetTheorems, SequenceTheorems, TLAPS

-----------------------------------------------------------------------------
(* Types *)

Address == Proxy \cup {Singleton}

SafeType ==
    [owners : SUBSET Account, threshold : Nat, modulesSet : BOOLEAN,
     promised : Initializer, setups : Seq(Setup)]

\* Some addresses are deployed.
Deployed == UNION {[D -> SafeType] : D \in SUBSET Address}

Storage == [safes : Deployed, created : 0..MaxProxies]

SetupFrames ==
    [kind : {"setup"}, addr : Address, args : Setup, before : Storage,
     phase : {"delegate", "payment", "end"}]

CreateFrames ==
    [kind : {"create"}, addr : Address, callback : BOOLEAN, before : Storage,
     phase : {"initializer", "callback", "end"}]

Frames == SetupFrames \cup CreateFrames

-----------------------------------------------------------------------------
(* The invariant *)

\* Untouched, or set up once with all that belongs to it.
Whole(safe) ==
    \/ safe.threshold = 0 /\ safe.modulesSet = FALSE /\ safe.setups = <<>>
    \/ /\ safe.threshold \in 1..Cardinality(safe.owners)
       /\ safe.modulesSet = TRUE /\ Len(safe.setups) = 1

AsPromised(safe) == safe.promised \in Setup => safe.setups = <<safe.promised>>

Sound(s) == s \in Deployed /\ \A a \in DOMAIN s : Whole(s[a]) /\ AsPromised(s[a])

\* A revert brings back the storage of a frame unless the frame is that of an
\* initializer: then the factory reverts with it.
Recoverable(st, k) ==
    (k > 1 => st[k].kind = "create" \/ st[k - 1].phase # "initializer")
        => Sound(st[k].before.safes)

IInv ==
    /\ Sound(safes) /\ created \in 0..MaxProxies
    /\ stack \in Seq(Frames)
    /\ \A k \in 1..Len(stack) : Recoverable(stack, k)

LEMMA StackFacts ==
    ASSUME IInv
    PROVE  /\ Len(stack) \in Nat /\ stack \in Seq(Frames)
           /\ \A k \in 1..Len(stack) : stack[k] \in Frames
           /\ stack # <<>> => Len(stack) \in 1..Len(stack) /\ Len(stack) \in Nat \ {0}
<1>1. Len(stack) \in Nat /\ \A k \in 1..Len(stack) : stack[k] \in Frames
  BY LenProperties, ElementOfSeq DEF IInv
<1>2. stack # <<>> => Len(stack) \in Nat \ {0}
  BY EmptySeq DEF IInv
<1> QED
  BY <1>1, <1>2 DEF IInv

LEMMA FrameFacts ==
    ASSUME NEW f \in Frames
    PROVE  /\ f.before \in Storage /\ f.before.safes \in Deployed
           /\ f.before.created \in 0..MaxProxies
           /\ f.phase = "initializer" => f.kind = "create"
BY DEF Frames, SetupFrames, CreateFrames, Storage

LEMMA DeployedFacts ==
    ASSUME NEW s \in Deployed
    PROVE  /\ DOMAIN s \subseteq Address /\ s = [a \in DOMAIN s |-> s[a]]
           /\ \A a \in DOMAIN s : s[a] \in SafeType
BY DEF Deployed

LEMMA DeployedIntro ==
    ASSUME NEW D \in SUBSET Address, NEW s \in [D -> SafeType]
    PROVE  s \in Deployed /\ DOMAIN s = D
BY DEF Deployed

\* The state of one Safe changes.
LEMMA SoundUpdate ==
    ASSUME NEW s, Sound(s), NEW a \in DOMAIN s, NEW x \in SafeType, Whole(x), AsPromised(x)
    PROVE  Sound([s EXCEPT ![a] = x])
<1> DEFINE t == [s EXCEPT ![a] = x]
<1>1. s \in Deployed
  BY DEF Sound
<1>2. t \in [DOMAIN s -> SafeType] /\ DOMAIN s \in SUBSET Address
  BY <1>1, DeployedFacts
<1>3. DOMAIN t = DOMAIN s /\ \A b \in DOMAIN s : t[b] = IF b = a THEN x ELSE s[b]
  BY <1>1, DeployedFacts
<1> HIDE DEF t
<1>4. t \in Deployed
  BY <1>2, DeployedIntro
<1> QED
  BY <1>3, <1>4 DEF Sound, t

\* setupOwners and setupModules, on a Safe that has no owners.
LEMMA SetUpWell ==
    ASSUME NEW x \in SafeType, NEW args \in Setup, CanSetup(x, args), Whole(x),
           x.promised \in Setup => x.promised = args
    PROVE  /\ SetUp(x, args) \in SafeType
           /\ Whole(SetUp(x, args)) /\ AsPromised(SetUp(x, args))
<1> DEFINE y == SetUp(x, args)
<1>1. args.owners \in SUBSET Account /\ args.threshold \in 1..Cardinality(args.owners)
  BY DeploymentAssumption DEF CanSetup, SetupArgs
<1>2. args.threshold \in Nat
  BY DeploymentAssumption DEF SetupArgs
<1>3. x.setups = <<>> /\ x.setups \in Seq(Setup)
  BY DEF Whole, CanSetup, SafeType
<1>4. Append(x.setups, args) = <<args>> /\ <<args>> \in Seq(Setup) /\ Len(<<args>>) = 1
  BY <1>3
<1>5. /\ y.owners = args.owners /\ y.threshold = args.threshold /\ y.modulesSet = TRUE
      /\ y.setups = Append(x.setups, args) /\ y.promised = x.promised
  BY DEF SetUp, SafeType
<1>6. y \in SafeType
  BY <1>1, <1>2, <1>4 DEF SetUp, SafeType
<1> HIDE DEF y
<1>7. Whole(y) /\ AsPromised(y)
  BY <1>1, <1>4, <1>5 DEF Whole, AsPromised
<1> QED
  BY <1>6, <1>7 DEF y

-----------------------------------------------------------------------------
(* The steps *)

LEMMA Pushed ==
    ASSUME NEW st \in Seq(Frames), NEW f \in Frames,
           \A k \in 1..Len(st) : Recoverable(st, k), Sound(f.before.safes)
    PROVE  /\ Append(st, f) \in Seq(Frames)
           /\ \A k \in 1..Len(Append(st, f)) : Recoverable(Append(st, f), k)
<1> DEFINE tt == Append(st, f)
<1>1. /\ tt \in Seq(Frames) /\ Len(st) \in Nat /\ Len(tt) = Len(st) + 1
      /\ tt[Len(st) + 1] = f /\ \A k \in 1..Len(st) : tt[k] = st[k]
  BY AppendProperties, LenProperties
<1> HIDE DEF tt
<1>2. \A k \in 1..Len(tt) : k = Len(st) + 1 \/ (k \in 1..Len(st) /\ (k > 1 => k - 1 \in 1..Len(st)))
  BY <1>1
<1>3. \A k \in 1..Len(tt) : Recoverable(tt, k)
  BY <1>1, <1>2 DEF Recoverable
<1> QED
  BY <1>1, <1>3 DEF tt

LEMMA SetupStep == ASSUME IInv, NEW a \in DOMAIN safes, NEW args \in Setup, setup(a, args) PROVE IInv'
<1> DEFINE e == SetupFrame(a, args, [safes |-> safes, created |-> created])
           x == safes[a]
<1>1. /\ CanSetup(x, args) /\ stack' = Append(stack, e) /\ created' = created
      /\ safes' = [safes EXCEPT ![a] = SetUp(x, args)]
  BY DEF setup
<1>2. /\ Sound(safes) /\ safes \in Deployed /\ x \in SafeType /\ Whole(x) /\ AsPromised(x)
      /\ a \in Address
  BY DeployedFacts DEF IInv, Sound
<1>3. x.promised \in Setup => x.promised = args
  <2>1. x.setups = <<>>
    BY <1>1, <1>2 DEF Whole, CanSetup
  <2> QED
    BY <1>2, <2>1 DEF AsPromised
<1>4. Sound(safes')
  <2>1. SetUp(x, args) \in SafeType /\ Whole(SetUp(x, args)) /\ AsPromised(SetUp(x, args))
    BY <1>1, <1>2, <1>3, SetUpWell
  <2> QED
    BY <1>1, <1>2, <2>1, SoundUpdate
<1>5. e \in Frames /\ e.before.safes = safes
  BY <1>2 DEF IInv, SetupFrame, AfterDelegate, Frames, SetupFrames, Storage
<1> HIDE DEF e
<1>6. stack' \in Seq(Frames) /\ \A k \in 1..Len(stack') : Recoverable(stack', k)
  BY <1>1, <1>2, <1>5, Pushed DEF IInv
<1> QED
  BY <1>1, <1>4, <1>6 DEF IInv
\* A proxy without storage, and the one the factory has initialised.
LEMMA BornWell ==
    ASSUME NEW init \in Initializer
    PROVE  /\ Fresh(init) \in SafeType /\ Whole(Fresh(init)) /\ Fresh(init).promised = init
           /\ init \notin Setup => AsPromised(Fresh(init))
BY DEF Fresh, SafeType, Whole, AsPromised

\* One more Safe is deployed.
Plus(s, a, x) == [b \in DOMAIN s \cup {a} |-> IF b = a THEN x ELSE s[b]]

LEMMA SoundBirth ==
    ASSUME NEW s, Sound(s), NEW a \in Address, a \notin DOMAIN s, NEW x \in SafeType
    PROVE  /\ Plus(s, a, x) \in Deployed /\ DOMAIN Plus(s, a, x) = DOMAIN s \cup {a}
           /\ Plus(s, a, x)[a] = x /\ \A b \in DOMAIN s : Plus(s, a, x)[b] = s[b]
           /\ Whole(x) /\ AsPromised(x) => Sound(Plus(s, a, x))
<1> DEFINE t == Plus(s, a, x)
<1>1. DOMAIN s \subseteq Address /\ \A b \in DOMAIN s : s[b] \in SafeType
  BY DeployedFacts DEF Sound
<1>2. t \in [DOMAIN s \cup {a} -> SafeType] /\ DOMAIN s \cup {a} \in SUBSET Address
  BY <1>1 DEF Plus
<1>3. t[a] = x /\ \A b \in DOMAIN s : t[b] = s[b]
  BY DEF Plus
<1> HIDE DEF t
<1>4. t \in Deployed /\ DOMAIN t = DOMAIN s \cup {a}
  BY <1>2, DeployedIntro
<1>5. Whole(x) /\ AsPromised(x) => Sound(t)
  BY <1>3, <1>4 DEF Sound
<1> QED
  BY <1>3, <1>4, <1>5 DEF t

LEMMA CreateStep ==
    ASSUME IInv, NEW a \in Address, NEW init \in Initializer, NEW callback \in BOOLEAN,
           created' \in 0..MaxProxies, Create(a, init, callback)
    PROVE  IInv'
<1> DEFINE born == Plus(safes, a, Fresh(init))
           f == CreateFrame(a, init, callback, [safes |-> safes, created |-> created])
           g == SetupFrame(a, init, [safes |-> born, created |-> created'])
           x == SetUp(born[a], init)
<1>1. /\ a \notin DOMAIN safes
      /\ IF init \in Setup
         THEN /\ CanSetup(Fresh(init), init)
              /\ safes' = [born EXCEPT ![a] = x]
              /\ stack' = stack \o <<f, g>>
         ELSE safes' = born /\ stack' = Append(stack, f)
  BY DEF Create, Plus
<1>2. /\ Sound(safes) /\ safes \in Deployed /\ created \in 0..MaxProxies
      /\ stack \in Seq(Frames) /\ \A k \in 1..Len(stack) : Recoverable(stack, k)
  BY DEF IInv, Sound
<1>3. /\ Fresh(init) \in SafeType /\ Whole(Fresh(init)) /\ Fresh(init).promised = init
      /\ init \notin Setup => AsPromised(Fresh(init))
  BY BornWell
<1>4. /\ born \in Deployed /\ DOMAIN born = DOMAIN safes \cup {a}
      /\ born[a] = Fresh(init) /\ \A b \in DOMAIN safes : born[b] = safes[b]
      /\ AsPromised(Fresh(init)) => Sound(born)
  <2>1. a \notin DOMAIN safes /\ Sound(safes) /\ Fresh(init) \in SafeType /\ Whole(Fresh(init))
    BY <1>1, <1>2, <1>3
  <2> QED
    BY <2>1, SoundBirth
<1>5. f \in Frames /\ f.before.safes = safes /\ f.kind = "create"
  BY <1>2 DEF CreateFrame, Frames, CreateFrames, Storage
<1>6. CASE init \notin Setup
  <2>1. Sound(safes')
    BY <1>1, <1>3, <1>4, <1>6
  <2> HIDE DEF f
  <2>2. stack' \in Seq(Frames) /\ \A k \in 1..Len(stack') : Recoverable(stack', k)
    BY <1>1, <1>2, <1>5, <1>6, Pushed
  <2> QED
    BY <2>1, <2>2 DEF IInv
<1>7. CASE init \in Setup
  <2>1. g \in Frames /\ g.kind = "setup"
    BY <1>4, <1>7 DEF SetupFrame, AfterDelegate, Frames, SetupFrames, Storage
  <2>2. f.phase = "initializer"
    BY <1>7 DEF CreateFrame
  <2>3. safes' = Plus(safes, a, x)
    BY <1>1, <1>7 DEF Plus
  <2>4. x \in SafeType /\ Whole(x) /\ AsPromised(x)
    BY <1>1, <1>3, <1>4, <1>7, SetUpWell
  <2> HIDE DEF f, g, x, born
  <2>5. Sound(safes')
    <3>1. Sound(safes) /\ a \notin DOMAIN safes
      BY <1>1, <1>2
    <3> QED
      BY <3>1, <2>3, <2>4, SoundBirth
  <2> DEFINE st == Append(stack, f)
  <2>6. st \in Seq(Frames) /\ \A k \in 1..Len(st) : Recoverable(st, k)
    BY <1>2, <1>5, Pushed
  <2>7. stack' = Append(st, g)
    BY <1>1, <1>2, <1>5, <1>7, <2>1
  <2>8. /\ Len(stack) \in Nat /\ Len(st) = Len(stack) + 1 /\ st[Len(st)] = f
    BY <1>2, <1>5, AppendProperties, LenProperties
  <2> HIDE DEF st
  <2>9. /\ stack' \in Seq(Frames) /\ Len(stack') = Len(st) + 1
        /\ stack'[Len(st) + 1] = g /\ \A k \in 1..Len(st) : stack'[k] = st[k]
    BY <2>1, <2>6, <2>7, AppendProperties
  <2>10. ASSUME NEW k \in 1..Len(stack') PROVE Recoverable(stack', k)
    <3>1. CASE k \in 1..Len(st)
      <4>1. k > 1 => k - 1 \in 1..Len(st)
        BY <2>8, <3>1
      <4> QED
        BY <2>6, <2>9, <3>1, <4>1 DEF Recoverable
    <3>2. CASE k = Len(st) + 1
      <4>1. k > 1 /\ stack'[k] = g /\ k - 1 \in 1..Len(st) /\ k - 1 = Len(st)
        BY <2>8, <2>9, <3>2
      <4>2. stack'[k - 1] = f
        BY <2>8, <2>9, <4>1
      <4> QED
        BY <2>1, <2>2, <4>1, <4>2 DEF Recoverable
    <3> QED
      BY <2>8, <2>9, <3>1, <3>2
  <2> QED
    BY <2>5, <2>9, <2>10 DEF IInv
<1> QED
  BY <1>6, <1>7

\* The calls inside the innermost frame are over, one after the other.
LEMMA AdvanceStep ==
    ASSUME IInv, stack # <<>>, NEW p, Advance(p), UNCHANGED <<safes, created>>,
           [Top EXCEPT !.phase = p] \in Frames
    PROVE  IInv'
<1> DEFINE n == Len(stack)
           e == [Top EXCEPT !.phase = p]
<1>1. n \in 1..n /\ n \in Nat \ {0} /\ stack \in Seq(Frames) /\ Top = stack[n] /\ stack[n] \in Frames
  BY StackFacts DEF Top
<1>2. stack' = [stack EXCEPT ![n] = e]
  BY <1>1 DEF Advance
<1>3. e.before = Top.before /\ e.kind = Top.kind
  BY <1>1 DEF Frames, SetupFrames, CreateFrames
<1> HIDE DEF e
<1>4. /\ stack' \in Seq(Frames) /\ Len(stack') = n /\ stack'[n] = e
      /\ \A k \in 1..n : k # n => stack'[k] = stack[k]
  BY <1>1, <1>2, ExceptSeq DEF e
<1>5. ASSUME NEW k \in 1..n PROVE Recoverable(stack', k)
  <2>1. Recoverable(stack, k) /\ k - 1 # n /\ (k > 1 => k - 1 \in 1..n)
    BY <1>1 DEF IInv
  <2>2. stack'[k].before = stack[k].before /\ stack'[k].kind = stack[k].kind
    BY <1>1, <1>3, <1>4
  <2>3. k > 1 => stack'[k - 1] = stack[k - 1]
    BY <1>4, <2>1
  <2> QED
    BY <2>1, <2>2, <2>3 DEF Recoverable
<1> QED
  BY <1>4, <1>5 DEF IInv

\* Calls end, and the storage is one that has been found sound.
LEMMA PoppedStep ==
    ASSUME IInv, NEW m \in 0..Len(stack), stack' = SubSeq(stack, 1, m),
           Sound(safes'), created' \in 0..MaxProxies
    PROVE  IInv'
<1>1. Len(stack) \in Nat /\ stack \in Seq(Frames) /\ \A k \in 1..m : stack[k] \in Frames
  BY StackFacts
<1>2. /\ stack' \in Seq(Frames) /\ Len(stack') = IF 1 <= m THEN m - 1 + 1 ELSE 0
      /\ \A k \in 1..(m - 1 + 1) : stack'[k] = stack[1 + k - 1]
  BY <1>1, SubSeqProperties
<1>3. Len(stack') = m /\ \A k \in 1..m : stack'[k] = stack[k]
  <2>1. \A j \in Nat : (IF 1 <= j THEN j - 1 + 1 ELSE 0) = j /\ j - 1 + 1 = j
    OBVIOUS
  <2>2. Len(stack') = m /\ m - 1 + 1 = m
    BY <1>1, <1>2, <2>1
  <2>3. \A k \in 1..m : 1 + k - 1 = k
    BY <1>1
  <2> QED
    BY <1>2, <2>2, <2>3
<1>4. ASSUME NEW k \in 1..m PROVE Recoverable(stack', k)
  <2>1. Recoverable(stack, k) /\ (k > 1 => k - 1 \in 1..m)
    BY <1>1 DEF IInv
  <2> QED
    BY <1>3, <2>1 DEF Recoverable
<1> QED
  BY <1>2, <1>3, <1>4 DEF IInv

LEMMA RevertStep == ASSUME IInv, Revert PROVE IInv'
<1> DEFINE n == Len(stack)
           r == LastReverted
<1>1. /\ stack # <<>> /\ safes' = stack[r].before.safes /\ created' = stack[r].before.created
      /\ stack' = SubSeq(stack, 1, r - 1)
  BY DEF Revert
<1>2. n \in 1..n /\ n \in Nat \ {0} /\ \A k \in 1..n : stack[k] \in Frames /\ Recoverable(stack, k)
  BY <1>1, StackFacts DEF IInv
<1>3. r \in 1..n /\ Sound(stack[r].before.safes)
  <2>1. CASE n > 1 /\ stack[n - 1].phase = "initializer"
    <3>1. r = n - 1 /\ n - 1 \in 1..n
      BY <1>2, <2>1 DEF LastReverted
    <3>2. stack[r].kind = "create"
      BY <1>2, <2>1, <3>1, FrameFacts
    <3> QED
      BY <1>2, <3>1, <3>2 DEF Recoverable
  <2>2. CASE ~(n > 1 /\ stack[n - 1].phase = "initializer")
    BY <1>2, <2>2 DEF LastReverted, Recoverable
  <2> QED
    BY <2>1, <2>2
<1>4. stack[r].before.created \in 0..MaxProxies
  BY <1>2, <1>3, FrameFacts
<1>5. r - 1 \in 0..Len(stack)
  BY <1>2, <1>3
<1> HIDE DEF r
<1> QED
  BY <1>1, <1>3, <1>4, <1>5, PoppedStep

LEMMA ReconfigureStep == ASSUME IInv, NEW a \in DOMAIN safes, Reconfigure(a) PROVE IInv'
<1>1. PICK c \in Configs :
         /\ c.threshold <= Cardinality(c.owners)
         /\ safes' = [safes EXCEPT ![a].owners = c.owners, ![a].threshold = c.threshold]
  BY DEF Reconfigure
<1> DEFINE x == [safes[a] EXCEPT !.owners = c.owners, !.threshold = c.threshold]
<1>2. /\ Sound(safes) /\ safes[a] \in SafeType /\ Whole(safes[a]) /\ AsPromised(safes[a])
      /\ safes[a].threshold > 0 /\ UNCHANGED <<created, stack>>
  BY DeployedFacts DEF IInv, Sound, Reconfigure
<1>3. /\ c.owners \in SUBSET Account /\ c.threshold \in 1..Cardinality(Account)
      /\ Cardinality(c.owners) \in Nat
  <2>1. c.owners \in SUBSET Account /\ c.threshold \in 1..Cardinality(Account)
    BY DeploymentAssumption
  <2>2. IsFiniteSet(c.owners)
    BY <2>1, DeploymentAssumption, FS_Subset
  <2> QED
    BY <2>1, <2>2, FS_CardinalityType
<1>4. Cardinality(Account) \in Nat
  BY DeploymentAssumption, FS_CardinalityType
<1>5. /\ x \in SafeType /\ x.threshold = c.threshold /\ x.owners = c.owners
      /\ x.modulesSet = safes[a].modulesSet /\ x.setups = safes[a].setups
      /\ x.promised = safes[a].promised
  <2>1. c.threshold \in Nat
    BY <1>3, <1>4
  <2>2. safes[a] \in SafeType /\ c.owners \in SUBSET Account
    BY <1>2, <1>3
  <2> QED
    BY <2>1, <2>2 DEF SafeType
<1>6. safes' = [safes EXCEPT ![a] = x]
  BY <1>1
<1> HIDE DEF x
<1>7. Whole(x) /\ AsPromised(x)
  BY <1>1, <1>2, <1>3, <1>4, <1>5 DEF Whole, AsPromised
<1>8. Sound(safes')
  BY <1>2, <1>5, <1>6, <1>7, SoundUpdate
<1> QED
  BY <1>2, <1>8 DEF IInv, Recoverable

LEMMA InitIInv == Init => IInv
<1> SUFFICES ASSUME Init PROVE IInv
  OBVIOUS
<1>1. /\ safes = [a \in {Singleton} |-> Fresh(None)] /\ created = 0 /\ stack = <<>>
  BY DEF Init
<1>2. None \in Initializer /\ None \notin Setup
  BY DeploymentAssumption DEF Initializer
<1>3. Fresh(None) \in SafeType /\ Whole(Fresh(None)) /\ AsPromised(Fresh(None))
  BY <1>2, BornWell
<1>4. safes \in [{Singleton} -> SafeType] /\ {Singleton} \in SUBSET Address
  BY <1>1, <1>3 DEF Address
<1>5. safes \in Deployed /\ DOMAIN safes = {Singleton}
  BY <1>4, DeployedIntro
<1>6. Sound(safes)
  BY <1>1, <1>3, <1>5 DEF Sound
<1>7. 0 \in 0..MaxProxies
  BY DeploymentAssumption
<1> QED
  BY <1>1, <1>6, <1>7 DEF IInv

LEMMA NextIInv == IInv /\ [Next]_vars => IInv'
<1> SUFFICES ASSUME IInv, [Next]_vars PROVE IInv'
  OBVIOUS
<1>1. CASE \E a \in DOMAIN safes, args \in Setup : setup(a, args)
  BY <1>1, SetupStep
<1>2. ASSUME NEW init \in Initializer, createProxy(init) PROVE IInv'
  <2>1. created + 1 \in 1..MaxProxies /\ created' = created + 1
    BY <1>2, DeploymentAssumption DEF createProxy, IInv
  <2>2. [created |-> created + 1] \in Address /\ created' \in 0..MaxProxies
    BY <2>1 DEF Address, Proxy, CreateAddress
  <2> QED
    BY <1>2, <2>2, CreateStep DEF createProxy
<1>3. ASSUME NEW init \in Initializer, NEW salt \in Salt,
             createProxyWithNonce(init, salt) \/ createProxyWithCallback(init, salt)
      PROVE  IInv'
  <2>1. \A c \in BOOLEAN : [initializer |-> init, salt |-> salt, withCallback |-> c] \in Address
    BY DEF Address, Proxy, Create2Address
  <2>2. created' \in 0..MaxProxies
    BY <1>3 DEF createProxyWithNonce, createProxyWithCallback, IInv
  <2> QED
    BY <1>3, <2>1, <2>2, CreateStep DEF createProxyWithNonce, createProxyWithCallback
<1>4. CASE DelegateReturns \/ PaymentReturns \/ InitializerReturns \/ CallbackReturns
  <2>1. stack # <<>> /\ Top \in Frames /\ UNCHANGED <<safes, created>>
    BY <1>4, StackFacts DEF DelegateReturns, PaymentReturns, InitializerReturns,
                            CallbackReturns, InPhase, Top
  <2>2. CASE DelegateReturns \/ PaymentReturns
    <3>1. PICK p \in {"payment", "end"} : Advance(p)
      BY <2>2 DEF DelegateReturns, PaymentReturns, AfterDelegate
    <3>2. Top \in SetupFrames
      BY <2>1, <2>2 DEF DelegateReturns, PaymentReturns, InPhase, Frames, CreateFrames
    <3>3. [Top EXCEPT !.phase = p] \in Frames
      BY <3>2 DEF SetupFrames, Frames
    <3> QED
      BY <2>1, <3>1, <3>3, AdvanceStep
  <2>3. CASE InitializerReturns \/ CallbackReturns
    <3>1. PICK p \in {"callback", "end"} : Advance(p)
      BY <2>3 DEF InitializerReturns, CallbackReturns
    <3>2. Top \in CreateFrames
      BY <2>1, <2>3 DEF InitializerReturns, CallbackReturns, InPhase, Frames, SetupFrames
    <3>3. [Top EXCEPT !.phase = p] \in Frames
      BY <3>2 DEF CreateFrames, Frames
    <3> QED
      BY <2>1, <3>1, <3>3, AdvanceStep
  <2> QED
    BY <1>4, <2>2, <2>3
<1>5. CASE End
  <2>1. Len(stack) - 1 \in 0..Len(stack)
    BY <1>5, StackFacts DEF End
  <2>2. stack' = SubSeq(stack, 1, Len(stack) - 1) /\ UNCHANGED <<safes, created>>
    BY <1>5 DEF End, Rest
  <2>3. Sound(safes') /\ created' \in 0..MaxProxies
    BY <2>2 DEF IInv
  <2> QED
    BY <2>1, <2>2, <2>3, PoppedStep
<1>6. CASE Revert
  BY <1>6, RevertStep
<1>7. CASE \E a \in DOMAIN safes : Reconfigure(a)
  BY <1>7, ReconfigureStep
<1>8. CASE UNCHANGED vars
  BY <1>8 DEF vars, IInv, Recoverable
<1> QED
  BY <1>1, <1>2, <1>3, <1>4, <1>5, <1>6, <1>7, <1>8 DEF Next

-----------------------------------------------------------------------------
(* The theorems. *)

\* Every storage, the current one and those that reverts bring back, holds
\* only Safes that are untouched or set up once, as promised.
THEOREM Invariance == Spec => []IInv
BY InitIInv, NextIInv, PTL DEF Spec

\* The checks of setupOwners and setupModules let setup through only once for
\* a Safe, in whatever calls it is nested and whatever its owners do later.
THEOREM SingleSetup == Spec => []SetupOnce
<1>1. IInv => SetupOnce
  <2> SUFFICES ASSUME IInv, NEW a \in DOMAIN safes PROVE Len(safes[a].setups) <= 1
    BY DEF SetupOnce
  <2>1. safes[a].setups = <<>> \/ Len(safes[a].setups) = 1
    BY DEF IInv, Sound, Whole
  <2>2. CASE safes[a].setups = <<>>
    BY <2>2
  <2>3. CASE Len(safes[a].setups) = 1
    BY <2>3
  <2> QED
    BY <2>1, <2>2, <2>3
<1> QED
  BY <1>1, Invariance, PTL

\* The factory initialises a proxy before any other code sees it and reverts
\* with a failed initializer, so a proxy is what its creation promises.
THEOREM PromiseKept == Spec => []BornAsPromised
<1>1. IInv => BornAsPromised
  BY DEF IInv, Sound, AsPromised, BornAsPromised
<1> QED
  BY <1>1, Invariance, PTL

\* No code ever sees a Safe with owners and no list of modules, or with a
\* threshold that its owners cannot reach.
THEOREM NeverHalf == Spec => []SetUpWhole
<1>1. IInv => SetUpWhole
  <2> SUFFICES ASSUME IInv, NEW a \in DOMAIN safes
               PROVE  /\ safes[a].threshold > 0 <=> safes[a].modulesSet
                      /\ safes[a].threshold > 0 <=> Len(safes[a].setups) = 1
                      /\ safes[a].threshold <= Cardinality(safes[a].owners)
    BY DEF SetUpWhole
  <2>1. Whole(safes[a]) /\ safes[a] \in SafeType
    BY DeployedFacts DEF IInv, Sound
  <2>2. Cardinality(safes[a].owners) \in Nat
    <3>1. IsFiniteSet(safes[a].owners)
      BY <2>1, DeploymentAssumption, FS_Subset DEF SafeType
    <3> QED
      BY <3>1, FS_CardinalityType
  <2>3. CASE safes[a].threshold = 0
    <3>1. safes[a].modulesSet = FALSE /\ safes[a].setups = <<>>
      BY <2>1, <2>2, <2>3 DEF Whole
    <3>2. Len(safes[a].setups) # 1
      BY <3>1
    <3> QED
      BY <2>2, <2>3, <3>1, <3>2
  <2>4. CASE safes[a].threshold # 0
    BY <2>1, <2>2, <2>4 DEF Whole
  <2> QED
    BY <2>3, <2>4
<1> QED
  BY <1>1, Invariance, PTL

-----------------------------------------------------------------------------
(* The commands of WalletScripts, which deploy a wallet, set it up and use *)
(* it: for every set of executions and every order of what is mined.       *)

Command(r) == Job[r].command

ScriptTypes ==
    /\ process \in [Run -> {"idle", "running", "signed", "sent", "failed", "landed", "reverted"}]
    /\ known \in [Run -> {<<>>} \cup {<<n>> : n \in Nat} \cup ({"ether", "erc20"} \X Nat \X Nat)]
    /\ pending \in [{"deployer", "accepter"} -> Seq(Run)]
    /\ balance \in [Place -> [Asset -> Int]]
    /\ nonce \in Nat /\ clock \in Nat
    /\ holder \in {"nobody", "script", "stranger"}

\* What waits at the node waits once.
Waiting ==
    \A s \in {"deployer", "accepter"} :
        /\ \A k \in DOMAIN pending[s] :
              process[pending[s][k]] = "sent" /\ Sender(pending[s][k]) = s
        /\ \A j, k \in DOMAIN pending[s] : pending[s][j] = pending[s][k] => j = k

\* What is on the chain, and who brought it there.
Caused ==
    /\ holder = "script" => Landed("setup") # {}
    /\ \A m \in 0..(nonce - 1) : \E q \in Landed("move") : known[q] = <<m>>
    /\ \A m \in register : \E q \in Landed("check") : known[q] = m

\* What the estimate has found still holds, or what ended it is known.
MoveEstimated(r) ==
    /\ SignaturesAccepted
    /\ \E m \in 0..nonce : known[r] = <<m>>
    /\ known[r] = <<nonce>> => balance["multiSigWallet"][Job[r].what] >= Job[r].amount

CheckEstimated(r) ==
    \/ r \in blind
    \/ /\ SignaturesAccepted
       /\ \/ balance["checkExecutor"][Job[r].what] >= Job[r].amount
          \/ OfAsset(Landed("check"), Job[r].what) # {}

Estimated ==
    \A r \in Run : process[r] = "sent" =>
        /\ Command(r) = "move" => MoveEstimated(r)
        /\ Command(r) = "check" => CheckEstimated(r)

Explained(r) ==
    CASE Command(r) = "setup" -> holder = "stranger" \/ Landed("setup") # {}
      [] Command(r) = "move" -> \E q \in Landed("move") \ {r} : known[q] = known[r]
      [] Command(r) = "check" ->
            r \in blind \/ Clash(r)
              \/ OfAsset(Landed("check"), Job[r].what) # {}
      [] OTHER -> FALSE

ScriptInv ==
    /\ ScriptTypes /\ Waiting /\ Caused /\ Estimated
    /\ \A r \in Run : process[r] = "reverted" => Explained(r)

LEMMA InitScripts == ScriptInit => ScriptInv
<1> SUFFICES ASSUME ScriptInit
             PROVE  ScriptInv
  OBVIOUS
<1>1. ScriptTypes
  BY DEF ScriptInit, ScriptTypes, Unread, Place, Asset
<1>2. Waiting /\ Caused /\ Estimated
  BY DEF ScriptInit, Waiting, Caused, Estimated
<1>3. \A r \in Run : process[r] # "reverted"
  BY DEF ScriptInit
<1> QED
  BY <1>1, <1>2, <1>3 DEF ScriptInv

\* What has landed remains, with what it knew: the causes of a revert are
\* not lost, whoever moves next.
Later(r) ==
    /\ process[r] = "landed" => process'[r] = "landed" /\ known'[r] = known[r]
    /\ process[r] \in {"sent", "reverted"} => known'[r] = known[r]
    /\ r \in blind => r \in blind'
    /\ process'[r] = "reverted" =>
          process[r] = "reverted" \/ (process[r] = "sent" /\ Explained(r))

LEMMA LandedStay ==
    ASSUME \A r \in Run : Later(r), NEW command
    PROVE  Landed(command) \subseteq Landed(command)'
  BY DEF Later, Landed, Doing

LEMMA ExplainedStays ==
    ASSUME \A r \in Run : Later(r), holder = "stranger" => holder' = "stranger",
           NEW r \in Run, process[r] \in {"sent", "reverted"}, Explained(r)
    PROVE  Explained(r)'
<1>1. \A command : Landed(command) \subseteq Landed(command)'
  BY LandedStay
<1>2. \A command, q : q \in Landed(command) =>
                         q \in Run /\ process[q] = "landed" /\ known'[q] = known[q]
  BY DEF Later, Landed, Doing
<1>3. known'[r] = known[r] /\ (r \in blind => r \in blind')
  BY DEF Later
<1>4. CASE Command(r) = "setup"
  BY <1>1, <1>4 DEF Explained, Command
<1>5. CASE Command(r) = "move"
  BY <1>1, <1>2, <1>3, <1>5 DEF Explained, Command
<1>6. CASE Command(r) = "check"
  <2>1. Clash(r) => Clash(r)'
    BY <1>1, <1>2, <1>3 DEF Clash
  <2>2. OfAsset(Landed("check"), Job[r].what) # {} =>
          OfAsset(Landed("check"), Job[r].what)' # {}
    BY <1>1 DEF OfAsset
  <2> QED
    BY <1>3, <1>6, <2>1, <2>2 DEF Explained, Command
<1> QED
  BY <1>4, <1>5, <1>6 DEF Explained
\* A step of a process that neither sends nor reaches the chain.
LEMMA QuietStep ==
    ASSUME ScriptInv, NEW r \in Run, process[r] \in {"idle", "running", "signed"},
           NEW st \in {"running", "signed", "failed"},
           process' = [process EXCEPT ![r] = st],
           known' \in [Run -> {<<>>} \cup {<<n>> : n \in Nat} \cup ({"ether", "erc20"} \X Nat \X Nat)],
           \A q \in Run : q # r => known'[q] = known[q],
           UNCHANGED <<pending, blind, code, holder, nonce, register, balance, clock>>
    PROVE  ScriptInv'
<1>1. \A q \in Run : process'[q] = IF q = r THEN st ELSE process[q]
  BY DEF ScriptInv, ScriptTypes
<1>2. ScriptTypes'
  BY <1>1 DEF ScriptInv, ScriptTypes
<1>3. \A q \in Run : Later(q)
  BY <1>1 DEF Later
<1>4. \A command : Landed(command)' = Landed(command)
  BY <1>1 DEF Landed, Doing
<1>5. \A command, q : q \in Landed(command) => known'[q] = known[q]
  BY <1>3 DEF Later, Landed, Doing
<1>6. Waiting'
  <2>1. \A q \in Run : process[q] = "sent" => process'[q] = "sent"
    BY <1>1
  <2>2. \A s \in {"deployer", "accepter"} : \A k \in DOMAIN pending[s] : pending[s][k] \in Run
    BY DEF ScriptInv, ScriptTypes
  <2> QED
    BY <2>1, <2>2 DEF ScriptInv, Waiting, Sender
<1>7. Caused'
  BY <1>4, <1>5 DEF ScriptInv, Caused
<1>8. Estimated'
  <2> SUFFICES ASSUME NEW q \in Run, process'[q] = "sent"
               PROVE  /\ (Command(q) = "move" => MoveEstimated(q))'
                      /\ (Command(q) = "check" => CheckEstimated(q))'
    BY DEF Estimated
  <2>1. process[q] = "sent" /\ known'[q] = known[q]
    BY <1>1
  <2>2. Command(q) = "move" => MoveEstimated(q)
    BY <2>1 DEF ScriptInv, Estimated
  <2>3. Command(q) = "check" => CheckEstimated(q)
    BY <2>1 DEF ScriptInv, Estimated
  <2>4. (Command(q) = "move" => MoveEstimated(q))'
    BY <2>1, <2>2 DEF MoveEstimated, SignaturesAccepted, Command
  <2>5. (Command(q) = "check" => CheckEstimated(q))'
    BY <2>3, <1>4 DEF CheckEstimated, SignaturesAccepted, OfAsset, Command
  <2> QED
    BY <2>4, <2>5
<1>9. \A q \in Run : process'[q] = "reverted" => Explained(q)'
  BY <1>1, <1>3, ExplainedStays DEF ScriptInv
<1> QED
  BY <1>2, <1>6, <1>7, <1>8, <1>9 DEF ScriptInv

LEMMA LaunchStep ==
    ASSUME ScriptInv, NEW r \in Run, Launch(r)
    PROVE  ScriptInv'
<1>1. /\ process[r] = "idle" /\ process' = [process EXCEPT ![r] = "running"] /\ known' = known
      /\ UNCHANGED <<pending, blind, code, holder, nonce, register, balance, clock>>
  BY DEF Launch, chain
<1> QED
  BY <1>1, QuietStep DEF ScriptInv, ScriptTypes

LEMMA ReadStep ==
    ASSUME ScriptInv, NEW r \in Run, ReadNonce(r)
    PROVE  ScriptInv'
<1>1. process[r] = "running"
      /\ UNCHANGED <<pending, blind, code, holder, nonce, register, balance, clock>>
  BY DEF ReadNonce, Learn, chain
<1>2. CASE "multiSigWallet" \in code
  <2>1. process' = [process EXCEPT ![r] = "signed"] /\ known' = [known EXCEPT ![r] = <<nonce>>]
    BY <1>2 DEF ReadNonce, Learn, Exit
  <2>2. <<nonce>> \in {<<n>> : n \in Nat}
    BY DEF ScriptInv, ScriptTypes
  <2> DEFINE value == <<nonce>>
  <2>3. known' = [known EXCEPT ![r] = value] /\ value \in {<<n>> : n \in Nat}
    BY <2>1, <2>2
  <2> HIDE DEF value
  <2>4. known' \in [Run -> {<<>>} \cup {<<n>> : n \in Nat} \cup ({"ether", "erc20"} \X Nat \X Nat)]
        /\ \A q \in Run : q # r => known'[q] = known[q]
    BY <2>3 DEF ScriptInv, ScriptTypes
  <2> QED
    BY <1>1, <2>1, <2>4, QuietStep
<1>3. CASE "multiSigWallet" \notin code
  <2>1. process' = [process EXCEPT ![r] = "failed"] /\ known' = known
    BY <1>3 DEF ReadNonce, Exit
  <2> QED
    BY <1>1, <2>1, QuietStep DEF ScriptInv, ScriptTypes
<1> QED
  BY <1>2, <1>3

LEMMA CheckStep ==
    ASSUME ScriptInv, NEW r \in Run, MakeCheck(r)
    PROVE  ScriptInv'
<1>1. process[r] = "running" /\ Job[r].command = "check"
      /\ UNCHANGED <<pending, blind, code, holder, nonce, register, balance, clock>>
  BY DEF MakeCheck, Learn, chain
<1> DEFINE value == checkNonce(r)
<1>2. process' = [process EXCEPT ![r] = "signed"] /\ known' = [known EXCEPT ![r] = value]
  BY DEF MakeCheck, Learn, Exit
<1>3. value \in {"ether", "erc20"} \X Nat \X Nat
  <2>1. Job[r].amount \in Nat
    BY <1>1, ScriptAssumption
  <2> QED
    BY <2>1 DEF checkNonce, ScriptInv, ScriptTypes
<1> HIDE DEF value
<1>4. known' \in [Run -> {<<>>} \cup {<<n>> : n \in Nat} \cup ({"ether", "erc20"} \X Nat \X Nat)]
      /\ \A q \in Run : q # r => known'[q] = known[q]
  BY <1>2, <1>3 DEF ScriptInv, ScriptTypes
<1> QED
  BY <1>1, <1>2, <1>4, QuietStep

LEMMA ReadyPlace ==
    ASSUME NEW r \in Run, Ready(r)
    PROVE  process[r] \in {"running", "signed"}
  BY DEF Ready

LEMMA RefuseStep ==
    ASSUME ScriptInv, NEW r \in Run, Refuse(r)
    PROVE  ScriptInv'
<1>1. /\ process[r] \in {"running", "signed"}
      /\ process' = [process EXCEPT ![r] = "failed"] /\ known' = known
      /\ UNCHANGED <<pending, blind, code, holder, nonce, register, balance, clock>>
  BY ReadyPlace DEF Refuse, Exit, chain
<1> QED
  BY <1>1, QuietStep DEF ScriptInv, ScriptTypes

\* The estimate of Send is what makes a later revert a lost race.
LEMMA SendStep ==
    ASSUME ScriptInv, NEW r \in Run, Send(r)
    PROVE  ScriptInv'
<1>1. process[r] \in {"running", "signed"} /\ known' = known
      /\ UNCHANGED <<code, holder, nonce, register, balance, clock>>
  BY ReadyPlace DEF Send, chain
<1>2. CASE Reverts(r)
  <2>1. process' = [process EXCEPT ![r] = "failed"] /\ UNCHANGED <<pending, blind>>
    BY <1>2 DEF Send, Exit
  <2> QED
    BY <1>1, <2>1, QuietStep DEF ScriptInv, ScriptTypes
<1>3. CASE ~Reverts(r)
  <2> DEFINE s == Sender(r)
  <2>1. /\ process' = [process EXCEPT ![r] = "sent"]
        /\ pending' = [pending EXCEPT ![s] = Append(pending[s], r)]
        /\ blind' = IF Callee(r) \in code THEN blind ELSE blind \cup {r}
    BY <1>3 DEF Send, Exit
  <2>2. s \in {"deployer", "accepter"}
    BY DEF Sender
  <2>3. \A q \in Run : process'[q] = IF q = r THEN "sent" ELSE process[q]
    BY <2>1 DEF ScriptInv, ScriptTypes
  <2>4. ScriptTypes'
    <3>1. pending' \in [{"deployer", "accepter"} -> Seq(Run)]
      BY <2>1, <2>2 DEF ScriptInv, ScriptTypes
    <3> QED
      BY <1>1, <2>1, <3>1 DEF ScriptInv, ScriptTypes
  <2>5. \A q \in Run : Later(q)
    BY <1>1, <2>1, <2>3 DEF Later
  <2>6. \A command : Landed(command)' = Landed(command)
    BY <1>1, <2>3 DEF Landed, Doing
  <2>7. Waiting'
    <3> SUFFICES ASSUME NEW t \in {"deployer", "accepter"}
                 PROVE  /\ \A k \in DOMAIN pending'[t] :
                             process'[pending'[t][k]] = "sent" /\ Sender(pending'[t][k]) = t
                        /\ \A j, k \in DOMAIN pending'[t] : pending'[t][j] = pending'[t][k] => j = k
      BY DEF Waiting, Sender
    <3>1. pending[t] \in Seq(Run) /\ \A k \in DOMAIN pending[t] : pending[t][k] \in Run
      BY DEF ScriptInv, ScriptTypes
    <3>2. \A k \in DOMAIN pending[t] :
            process[pending[t][k]] = "sent" /\ Sender(pending[t][k]) = t
      BY DEF ScriptInv, Waiting
    <3>3. \A j, k \in DOMAIN pending[t] : pending[t][j] = pending[t][k] => j = k
      BY DEF ScriptInv, Waiting
    <3>4. CASE t # s
      <4>1. pending'[t] = pending[t]
        BY <2>1, <2>2, <3>4 DEF ScriptInv, ScriptTypes
      <4> QED
        BY <2>3, <3>1, <3>2, <3>3, <4>1
    <3>5. CASE t = s
      <4>1. pending'[t] = Append(pending[t], r)
        BY <2>1, <2>2, <3>5 DEF ScriptInv, ScriptTypes
      <4>2. DOMAIN pending'[t] = DOMAIN pending[t] \cup {Len(pending[t]) + 1}
            /\ pending'[t][Len(pending[t]) + 1] = r
            /\ \A k \in DOMAIN pending[t] : pending'[t][k] = pending[t][k]
        BY <3>1, <4>1
      <4>3. \A k \in DOMAIN pending[t] : pending[t][k] # r
        BY <1>1, <3>2
      <4> HIDE DEF s
      <4>4. Sender(r) = t
        BY <3>5 DEF s
      <4> QED
        BY <2>3, <3>1, <3>2, <3>3, <4>2, <4>3, <4>4
    <3> QED
      BY <3>4, <3>5
  <2>8. Caused'
    BY <1>1, <2>6 DEF ScriptInv, Caused
  <2>9. Estimated'
    <3> SUFFICES ASSUME NEW q \in Run, process'[q] = "sent"
                 PROVE  /\ (Command(q) = "move" => MoveEstimated(q))'
                        /\ (Command(q) = "check" => CheckEstimated(q))'
      BY DEF Estimated
    <3>1. Command(q) = "move" => MoveEstimated(q)
      <4>1. CASE q = r
        <5> SUFFICES ASSUME Command(r) = "move"
                     PROVE  MoveEstimated(r)
          BY <4>1
        <5>1. ~TransactionReverts(r)
          BY <1>3 DEF Reverts, Command
        <5>2. balance["multiSigWallet"][Job[r].what] \in Int /\ Job[r].amount \in Nat
          BY ScriptAssumption DEF ScriptInv, ScriptTypes, Place, Asset, Command
        <5>3. nonce \in 0..nonce
          BY DEF ScriptInv, ScriptTypes
        <5> QED
          BY <5>1, <5>2, <5>3 DEF TransactionReverts, MoveEstimated
      <4>2. CASE q # r
        BY <2>3, <4>2 DEF ScriptInv, Estimated
      <4> QED
        BY <4>1, <4>2
    <3>2. Command(q) = "check" => q \in blind' \/ CheckEstimated(q)
      <4>1. CASE q = r
        <5> SUFFICES ASSUME Command(r) = "check", Callee(r) \in code
                     PROVE  CheckEstimated(r)
          BY <2>1, <4>1
        <5>1. ~CheckReverts(r) /\ "checkExecutor" \in code
          BY <1>3 DEF Reverts, Command, Callee
        <5>2. balance["checkExecutor"][Job[r].what] \in Int /\ Job[r].amount \in Nat
          BY ScriptAssumption DEF ScriptInv, ScriptTypes, Place, Asset, Command
        <5> QED
          BY <5>1, <5>2 DEF CheckReverts, CheckEstimated
      <4>2. CASE q # r
        BY <2>3, <4>2 DEF ScriptInv, Estimated
      <4> QED
        BY <4>1, <4>2
    <3>3. (Command(q) = "move" => MoveEstimated(q))'
      BY <1>1, <3>1 DEF MoveEstimated, SignaturesAccepted, Command
    <3>4. (Command(q) = "check" => CheckEstimated(q))'
      BY <1>1, <2>1, <2>6, <3>2
      DEF CheckEstimated, SignaturesAccepted, OfAsset, Command
    <3> QED
      BY <3>3, <3>4
  <2>10. \A q \in Run : process'[q] = "reverted" => Explained(q)'
    BY <1>1, <2>3, <2>5, ExplainedStays DEF ScriptInv
  <2> QED
    BY <2>4, <2>7, <2>8, <2>9, <2>10 DEF ScriptInv
<1> QED
  BY <1>2, <1>3
\* A transaction that was accepted and would revert now has lost to another.
LEMMA RevertHasCause ==
    ASSUME ScriptInv, NEW r \in Run, process[r] = "sent",
           Reverts(r)
    PROVE  Explained(r)
<1>1. CASE Command(r) = "setup"
  <2>1. holder # "nobody"
    BY <1>1 DEF Reverts, Command
  <2> QED
    BY <1>1, <2>1 DEF Explained, ScriptInv, ScriptTypes, Caused
<1>2. CASE Command(r) = "move"
  <2>1. TransactionReverts(r)
    BY <1>2 DEF Reverts, Command
  <2>2. MoveEstimated(r)
    BY <1>2 DEF ScriptInv, Estimated
  <2>3. balance["multiSigWallet"][Job[r].what] \in Int /\ Job[r].amount \in Nat /\ nonce \in Nat
    BY <1>2, ScriptAssumption DEF ScriptInv, ScriptTypes, Place, Asset, Command
  <2>4. known[r] # <<nonce>>
    BY <2>1, <2>2, <2>3 DEF MoveEstimated, TransactionReverts
  <2>5. PICK m \in 0..nonce : known[r] = <<m>>
    BY <2>2 DEF MoveEstimated
  <2>6. m \in 0..(nonce - 1)
    BY <2>3, <2>4, <2>5
  <2>7. PICK q \in Landed("move") : known[q] = <<m>>
    BY <2>6 DEF ScriptInv, Caused
  <2>8. q # r
    BY DEF Landed
  <2> QED
    BY <1>2, <2>5, <2>7, <2>8 DEF Explained
<1>3. CASE Command(r) = "check"
  <2>1. CheckReverts(r)
    BY <1>3 DEF Reverts, Command
  <2>2. CheckEstimated(r)
    BY <1>3 DEF ScriptInv, Estimated
  <2>3. balance["checkExecutor"][Job[r].what] \in Int /\ Job[r].amount \in Nat
    BY <1>3, ScriptAssumption DEF ScriptInv, ScriptTypes, Place, Asset, Command
  <2>4. CASE known[r] \in register
    <3>1. PICK q \in Landed("check") : known[q] = known[r]
      BY <2>4 DEF ScriptInv, Caused
    <3>2. q # r
      BY DEF Landed
    <3>3. Clash(r)
      BY <3>1, <3>2 DEF Clash
    <3> QED
      BY <1>3, <3>3 DEF Explained
  <2>5. CASE known[r] \notin register
    <3>1. r \in blind \/ OfAsset(Landed("check"), Job[r].what) # {}
      BY <2>1, <2>2, <2>3, <2>5 DEF CheckReverts, CheckEstimated
    <3> QED
      BY <1>3, <3>1 DEF Explained
  <2> QED
    BY <2>4, <2>5
<1>4. Command(r) \in {"setup", "move", "check"}
  BY DEF Reverts, Command
<1> QED
  BY <1>1, <1>2, <1>3, <1>4

\* What a transaction that lands can do to the estimates of the others.
Effects(r) ==
    /\ code \subseteq code'
    /\ holder' = holder \/ (Command(r) = "setup" /\ holder = "nobody" /\ holder' = "script")
    /\ \/ /\ nonce' = nonce
          /\ \A a \in Asset : balance'["multiSigWallet"][a] >= balance["multiSigWallet"][a]
       \/ Command(r) = "move" /\ nonce' = nonce + 1 /\ known[r] = <<nonce>>
    /\ \A a \in Asset :
          \/ balance'["checkExecutor"][a] >= balance["checkExecutor"][a]
          \/ Command(r) = "check" /\ Job[r].what = a
    /\ register' = register \/ (Command(r) = "check" /\ register' = register \cup {known[r]})

\* One entry of a table changes.
LEMMA Entry ==
    ASSUME NEW P, NEW A, NEW b \in [P -> [A -> Int]], NEW p \in P, NEW a \in A, NEW v \in Int,
           NEW c, c = [b EXCEPT ![p] = [b[p] EXCEPT ![a] = v]]
    PROVE  /\ c \in [P -> [A -> Int]]
           /\ \A x \in P, y \in A : c[x][y] = IF x = p /\ y = a THEN v ELSE b[x][y]
OBVIOUS

LEMMA TransferMoves ==
    ASSUME balance \in [Place -> [Asset -> Int]],
           NEW from \in Place, NEW to \in Place, from # to,
           NEW r \in Run, Job[r].what \in Asset, Job[r].amount \in Nat,
           Transfer(from, to, r)
    PROVE  /\ balance' \in [Place -> [Asset -> Int]]
           /\ \A y \in Asset : balance'[to][y] >= balance[to][y]
           /\ \A x \in Place, y \in Asset :
                 x \notin {from, to} \/ y # Job[r].what => balance'[x][y] = balance[x][y]
<1> DEFINE w == Job[r].what
           less == balance[from][w] - Job[r].amount
           more == balance[to][w] + Job[r].amount
           half == [balance EXCEPT ![from] = [balance[from] EXCEPT ![w] = less]]
<1>1. \A x \in Place, y \in Asset : balance[x][y] \in Int
  OBVIOUS
<1>2. less \in Int /\ more \in Int
  BY <1>1
<1>3. balance' = [half EXCEPT ![to] = [half[to] EXCEPT ![w] = more]]
  BY DEF Transfer
<1>4. more >= balance[to][w]
  BY <1>1
<1> HIDE DEF less, more, w
<1>5. /\ half \in [Place -> [Asset -> Int]]
      /\ \A x \in Place, y \in Asset :
            half[x][y] = IF x = from /\ y = w THEN less ELSE balance[x][y]
  BY <1>2, Entry DEF w
<1> HIDE DEF half
<1>6. /\ balance' \in [Place -> [Asset -> Int]]
      /\ \A x \in Place, y \in Asset :
            balance'[x][y] = IF x = to /\ y = w THEN more ELSE half[x][y]
  BY <1>2, <1>3, <1>5, Entry DEF w
<1> QED
  BY <1>1, <1>4, <1>5, <1>6 DEF w

LEMMA LandingEffects ==
    ASSUME ScriptInv, NEW r \in Run, ~Reverts(r), Effect(r)
    PROVE  /\ Effects(r)
           /\ balance' \in [Place -> [Asset -> Int]]
           /\ nonce' \in Nat /\ holder' \in {"nobody", "script", "stranger"}
<1> DEFINE w == Job[r].what
           n == Job[r].amount
           a0 == "multiSigWallet"
           b0 == "checkExecutor"
           c0 == "accepter"
<1>1. balance \in [Place -> [Asset -> Int]] /\ nonce \in Nat
      /\ holder \in {"nobody", "script", "stranger"}
  BY DEF ScriptInv, ScriptTypes
<1>2. Place = {a0, b0, c0}
  BY DEF Place
<1>8. \A p \in Place : \A a \in Asset : balance[p][a] \in Int
  BY <1>1
<1>3. CASE Deploys(r)
  BY <1>1, <1>2, <1>3, <1>8 DEF Deploys, Effects
<1>4. CASE SetsUp(r)
  BY <1>1, <1>2, <1>4, <1>8 DEF SetsUp, Effects, Reverts, Command
<1>5. CASE Funds(r)
  <2>1. w \in Asset /\ n \in Nat
    BY <1>5, ScriptAssumption DEF Funds
  <2>2. balance' = [balance EXCEPT ![a0] = [balance[a0] EXCEPT ![w] = balance[a0][w] + n]]
        /\ UNCHANGED <<code, holder, nonce, register>>
    BY <1>5 DEF Funds, Gain
  <2> DEFINE v == balance[a0][w] + n
  <2>3. v \in Int
    BY <1>2, <1>8, <2>1
  <2>4. /\ balance' \in [Place -> [Asset -> Int]]
        /\ \A x \in Place, y \in Asset :
              balance'[x][y] = IF x = a0 /\ y = w THEN v ELSE balance[x][y]
    <3> HIDE DEF v, w
    <3> QED
      BY <1>1, <1>2, <2>1, <2>2, <2>3, Entry DEF v
  <2> QED
    BY <1>1, <1>2, <1>8, <2>1, <2>2, <2>4 DEF Effects
<1>6. CASE Moves(r)
  <2>1. w \in Asset /\ n \in Nat /\ Command(r) = "move"
    BY <1>6, ScriptAssumption DEF Moves, Command
  <2>2. nonce' = nonce + 1 /\ UNCHANGED <<code, holder, register>>
    BY <1>6 DEF Moves
  <2>3. known[r] = <<nonce>>
    BY <2>1 DEF Reverts, TransactionReverts, Command
  <2>4. /\ balance' \in [Place -> [Asset -> Int]]
        /\ \A y \in Asset : balance'[b0][y] >= balance[b0][y]
    <3>1. Transfer(a0, b0, r)
      BY <1>6 DEF Moves
    <3> QED
      BY <1>2, <2>1, <3>1, TransferMoves DEF ScriptInv, ScriptTypes
  <2> QED
    BY <1>1, <1>2, <2>1, <2>2, <2>3, <2>4 DEF Effects
<1>7. CASE Cashes(r)
  <2>1. w \in Asset /\ n \in Nat /\ Command(r) = "check"
    BY <1>7, ScriptAssumption DEF Cashes, Command
  <2>2. CASE "checkExecutor" \in code
    <3>1. register' = register \cup {known[r]} /\ UNCHANGED <<code, holder, nonce>>
          /\ Transfer(b0, c0, r)
      BY <1>7, <2>2 DEF Cashes
    <3>2. /\ balance' \in [Place -> [Asset -> Int]]
          /\ \A y \in Asset : balance'[a0][y] = balance[a0][y]
          /\ \A y \in Asset : y # w => balance'[b0][y] = balance[b0][y]
      BY <1>2, <2>1, <3>1, TransferMoves DEF ScriptInv, ScriptTypes
    <3> QED
      BY <1>1, <1>2, <1>8, <2>1, <3>1, <3>2 DEF Effects
  <2>3. CASE "checkExecutor" \notin code
    <3>1. UNCHANGED <<code, holder, nonce, register, balance>>
      BY <1>7, <2>3 DEF Cashes
    <3> QED
      BY <1>1, <1>2, <1>8, <3>1 DEF Effects
  <2> QED
    BY <2>2, <2>3
<1> QED
  BY <1>3, <1>4, <1>5, <1>6, <1>7 DEF Effect

LEMMA TailPlaces ==
    ASSUME NEW S, NEW q \in Seq(S), q # <<>>
    PROVE  \A k \in DOMAIN Tail(q) :
              k \in Nat \ {0} /\ k + 1 \in DOMAIN q /\ Tail(q)[k] = q[k + 1]
OBVIOUS

\* The first transaction of a sender leaves the queue.
LEMMA QueueShrinks ==
    ASSUME ScriptInv, NEW s \in {"deployer", "accepter"}, pending[s] # <<>>,
           NEW r, r = Head(pending[s]), NEW st,
           process' = [process EXCEPT ![r] = st],
           pending' = [pending EXCEPT ![s] = Tail(pending[s])]
    PROVE  /\ r \in Run /\ process[r] = "sent"
           /\ pending' \in [{"deployer", "accepter"} -> Seq(Run)]
           /\ Waiting'
<1>1. \A t \in {"deployer", "accepter"} : pending[t] \in Seq(Run)
      /\ \A k \in DOMAIN pending[t] : pending[t][k] \in Run
  BY DEF ScriptInv, ScriptTypes
<1>2. 1 \in DOMAIN pending[s] /\ r = pending[s][1]
  BY <1>1
<1>3. r \in Run /\ process[r] = "sent" /\ Sender(r) = s
  BY <1>1, <1>2 DEF ScriptInv, Waiting
<1>4. pending' \in [{"deployer", "accepter"} -> Seq(Run)]
  BY <1>1 DEF ScriptInv, ScriptTypes
<1>5. \A q \in Run : q # r => process'[q] = process[q]
  BY DEF ScriptInv, ScriptTypes
<1>6. ASSUME NEW t \in {"deployer", "accepter"}
      PROVE  /\ \A k \in DOMAIN pending'[t] :
                   process'[pending'[t][k]] = "sent" /\ Sender(pending'[t][k]) = t
             /\ \A j, k \in DOMAIN pending'[t] : pending'[t][j] = pending'[t][k] => j = k
  <2>1. \A k \in DOMAIN pending[t] :
          process[pending[t][k]] = "sent" /\ Sender(pending[t][k]) = t
    BY DEF ScriptInv, Waiting
  <2>2. \A j, k \in DOMAIN pending[t] : pending[t][j] = pending[t][k] => j = k
    BY DEF ScriptInv, Waiting
  <2>3. CASE t # s
    <3>1. pending'[t] = pending[t]
      BY <2>3 DEF ScriptInv, ScriptTypes
    <3>2. \A k \in DOMAIN pending[t] : pending[t][k] # r
      BY <1>3, <2>1, <2>3
    <3> QED
      BY <1>1, <1>5, <2>1, <2>2, <3>1, <3>2
  <2>4. CASE t = s
    <3>1. pending'[t] = Tail(pending[t])
      BY <2>4 DEF ScriptInv, ScriptTypes
    <3>2. \A k \in DOMAIN pending'[t] :
            k \in Nat \ {0} /\ k + 1 \in DOMAIN pending[t] /\ pending'[t][k] = pending[t][k + 1]
      <4>1. \A q \in Seq(Run) : q # <<>> =>
              \A k \in DOMAIN Tail(q) :
                 k \in Nat \ {0} /\ k + 1 \in DOMAIN q /\ Tail(q)[k] = q[k + 1]
        BY TailPlaces
      <4>2. pending[t] \in Seq(Run) /\ pending[t] # <<>>
        BY <1>1, <2>4
      <4> QED
        BY <3>1, <4>1, <4>2
    <3>3. \A k \in DOMAIN pending'[t] : pending[t][k + 1] # r
      <4> SUFFICES ASSUME NEW k \in DOMAIN pending'[t]
                   PROVE  pending[t][k + 1] # r
        OBVIOUS
      <4>1. k + 1 # 1 /\ k + 1 \in DOMAIN pending[t]
        BY <3>2
      <4> QED
        BY <1>2, <2>2, <2>4, <4>1
    <3>4. \A k \in DOMAIN pending'[t] :
            process'[pending'[t][k]] = "sent" /\ Sender(pending'[t][k]) = t
      <4> SUFFICES ASSUME NEW k \in DOMAIN pending'[t]
                   PROVE  process'[pending'[t][k]] = "sent" /\ Sender(pending'[t][k]) = t
        OBVIOUS
      <4>1. k + 1 \in DOMAIN pending[t] /\ pending'[t][k] = pending[t][k + 1]
        BY <3>2
      <4>2. pending[t][k + 1] \in Run /\ pending[t][k + 1] # r
        BY <1>1, <3>3, <4>1
      <4>3. process[pending[t][k + 1]] = "sent" /\ Sender(pending[t][k + 1]) = t
        BY <2>1, <4>1
      <4> QED
        BY <1>5, <4>1, <4>2, <4>3
    <3>5. ASSUME NEW j \in DOMAIN pending'[t], NEW k \in DOMAIN pending'[t],
                 pending'[t][j] = pending'[t][k]
          PROVE  j = k
      <4>1. j + 1 = k + 1
        BY <2>2, <3>2, <3>5
      <4> QED
        BY <3>2, <4>1
    <3> QED
      BY <3>4, <3>5
  <2> QED
    BY <2>3, <2>4
<1> QED
  BY <1>3, <1>4, <1>6 DEF Waiting, Sender

LEMMA MineStep ==
    ASSUME ScriptInv, NEW s \in DOMAIN pending, Mine(s)
    PROVE  ScriptInv'
<1>0. PICK r : r = Head(pending[s])
  OBVIOUS
<1>1. s \in {"deployer", "accepter"} /\ pending[s] # <<>>
      /\ pending' = [pending EXCEPT ![s] = Tail(pending[s])]
      /\ UNCHANGED <<known, blind, clock>>
  BY DEF ScriptInv, ScriptTypes, Mine
<1>2. CASE Reverts(r)
  <2>1. process' = [process EXCEPT ![r] = "reverted"]
        /\ UNCHANGED <<code, holder, nonce, register, balance>>
    BY <1>0, <1>2 DEF Mine, Exit, chain
  <2>2. /\ r \in Run /\ process[r] = "sent"
        /\ pending' \in [{"deployer", "accepter"} -> Seq(Run)]
        /\ Waiting'
    BY <1>0, <1>1, <2>1, QueueShrinks
  <2>3. Explained(r)
    BY <1>2, <2>2, RevertHasCause
  <2>4. \A q \in Run : process'[q] = IF q = r THEN "reverted" ELSE process[q]
    BY <2>1 DEF ScriptInv, ScriptTypes
  <2>5. ScriptTypes'
    BY <1>1, <2>1, <2>2 DEF ScriptInv, ScriptTypes
  <2>6. \A q \in Run : Later(q)
    BY <1>1, <2>2, <2>3, <2>4 DEF Later
  <2>7. \A command : Landed(command)' = Landed(command)
    BY <2>2, <2>4 DEF Landed, Doing
  <2>8. Caused'
    BY <1>1, <2>1, <2>7 DEF ScriptInv, Caused
  <2>9. Estimated'
    <3> SUFFICES ASSUME NEW q \in Run, process'[q] = "sent"
                 PROVE  /\ (Command(q) = "move" => MoveEstimated(q))'
                        /\ (Command(q) = "check" => CheckEstimated(q))'
      BY DEF Estimated
    <3>1. process[q] = "sent"
      BY <2>4
    <3>2. (Command(q) = "move" => MoveEstimated(q))'
      BY <1>1, <2>1, <3>1 DEF ScriptInv, Estimated, MoveEstimated, SignaturesAccepted, Command
    <3>3. (Command(q) = "check" => CheckEstimated(q))'
      BY <1>1, <2>1, <2>7, <3>1
      DEF ScriptInv, Estimated, CheckEstimated, SignaturesAccepted, OfAsset, Command
    <3> QED
      BY <3>2, <3>3
  <2>10. ASSUME NEW q \in Run, process'[q] = "reverted"
         PROVE  Explained(q)'
    <3>1. process[q] \in {"sent", "reverted"} /\ Explained(q)
      BY <2>2, <2>3, <2>4, <2>10 DEF ScriptInv
    <3> QED
      BY <2>1, <2>6, <3>1, ExplainedStays
  <2> QED
    BY <2>2, <2>5, <2>8, <2>9, <2>10 DEF ScriptInv
<1>3. CASE ~Reverts(r)
  <2>1. process' = [process EXCEPT ![r] = "landed"] /\ Effect(r)
    BY <1>0, <1>3 DEF Mine, Exit
  <2>2. /\ r \in Run /\ process[r] = "sent"
        /\ pending' \in [{"deployer", "accepter"} -> Seq(Run)]
        /\ Waiting'
    BY <1>0, <1>1, <2>1, QueueShrinks
  <2>3. /\ Effects(r)
        /\ balance' \in [Place -> [Asset -> Int]]
        /\ nonce' \in Nat /\ holder' \in {"nobody", "script", "stranger"}
    BY <1>3, <2>1, <2>2, LandingEffects
  <2>4. \A q \in Run : process'[q] = IF q = r THEN "landed" ELSE process[q]
    BY <2>1 DEF ScriptInv, ScriptTypes
  <2>5. ScriptTypes'
    BY <1>1, <2>1, <2>2, <2>3 DEF ScriptInv, ScriptTypes
  <2>6. \A q \in Run : Later(q)
    BY <1>1, <2>2, <2>4 DEF Later
  <2>7. \A command : Landed(command) \subseteq Landed(command)'
    BY <2>6, LandedStay
  <2>8. r \in Landed(Command(r))'
    BY <2>2, <2>4 DEF Landed, Doing, Command
  <2>9. Caused'
    <3>1. holder' = "script" => Landed("setup")' # {}
      BY <2>3, <2>7, <2>8 DEF Effects, ScriptInv, Caused
    <3>2. ASSUME NEW m \in 0..(nonce' - 1)
          PROVE  \E q \in Landed("move")' : known'[q] = <<m>>
      <4>1. nonce \in Nat
        BY DEF ScriptInv, ScriptTypes
      <4>2. CASE m \in 0..(nonce - 1)
        BY <1>1, <2>7, <4>2 DEF ScriptInv, Caused
      <4>3. CASE m \notin 0..(nonce - 1)
        <5>1. nonce' # nonce
          BY <3>2, <4>3
        <5>2. nonce' = nonce + 1 /\ Command(r) = "move" /\ known[r] = <<nonce>>
          BY <2>3, <5>1 DEF Effects
        <5>3. m = nonce
          BY <3>2, <4>1, <4>3, <5>2
        <5> QED
          BY <1>1, <2>8, <5>2, <5>3
      <4> QED
        BY <4>2, <4>3
    <3>3. ASSUME NEW m \in register'
          PROVE  \E q \in Landed("check")' : known'[q] = m
      BY <1>1, <2>3, <2>7, <2>8, <3>3 DEF Effects, ScriptInv, Caused
    <3> QED
      BY <3>1, <3>2, <3>3 DEF Caused
  <2>10. Estimated'
    <3> SUFFICES ASSUME NEW q \in Run, process'[q] = "sent"
                 PROVE  /\ (Command(q) = "move" => MoveEstimated(q))'
                        /\ (Command(q) = "check" => CheckEstimated(q))'
      BY DEF Estimated
    <3>1. process[q] = "sent"
      BY <2>4
    <3>2. SignaturesAccepted => SignaturesAccepted'
      BY <2>3 DEF Effects, SignaturesAccepted
    <3>3. Command(q) \in {"move", "check"} => Job[q].what \in Asset /\ Job[q].amount \in Nat
      BY ScriptAssumption DEF Command
    <3>4. \A p \in Place, a \in Asset : balance[p][a] \in Int /\ balance'[p][a] \in Int
      BY <2>3 DEF ScriptInv, ScriptTypes
    <3>5. "multiSigWallet" \in Place /\ "checkExecutor" \in Place
      BY DEF Place
    <3>6. ASSUME Command(q) = "move"
          PROVE  MoveEstimated(q)'
      <4>1. MoveEstimated(q)
        BY <3>1, <3>6 DEF ScriptInv, Estimated
      <4>2. PICK m \in 0..nonce : known[q] = <<m>>
        BY <4>1 DEF MoveEstimated
      <4>3. nonce \in Nat /\ nonce' \in {nonce, nonce + 1}
        BY <2>3 DEF Effects, ScriptInv, ScriptTypes
      <4>4. m \in 0..nonce' /\ known'[q] = <<m>>
        BY <1>1, <4>2, <4>3
      <4>5. known'[q] = <<nonce'>> =>
              balance'["multiSigWallet"][Job[q].what] >= Job[q].amount
        <5> SUFFICES ASSUME known'[q] = <<nonce'>>
                     PROVE  balance'["multiSigWallet"][Job[q].what] >= Job[q].amount
          OBVIOUS
        <5>1. m = nonce'
          BY <4>4
        <5>2. nonce' = nonce
          BY <4>2, <4>3, <5>1
        <5>3. balance["multiSigWallet"][Job[q].what] >= Job[q].amount
          BY <1>1, <4>1, <5>2 DEF MoveEstimated
        <5>4. balance'["multiSigWallet"][Job[q].what] >= balance["multiSigWallet"][Job[q].what]
          <6>1. nonce + 1 # nonce
            BY <4>3
          <6> QED
            BY <2>3, <3>3, <3>6, <5>2, <6>1 DEF Effects
        <5> QED
          BY <3>3, <3>4, <3>5, <3>6, <5>3, <5>4
      <4> QED
        BY <3>2, <4>1, <4>4, <4>5 DEF MoveEstimated
    <3>7. ASSUME Command(q) = "check"
          PROVE  CheckEstimated(q)'
      <4>1. CheckEstimated(q)
        BY <3>1, <3>7 DEF ScriptInv, Estimated
      <4>2. CASE q \in blind
        BY <1>1, <4>2 DEF CheckEstimated
      <4>3. CASE q \notin blind
        <5>1. SignaturesAccepted'
          BY <3>2, <4>1, <4>3 DEF CheckEstimated
        <5>2. CASE OfAsset(Landed("check"), Job[q].what) # {}
          <6>1. OfAsset(Landed("check"), Job[q].what)' # {}
            BY <2>7, <5>2 DEF OfAsset
          <6> QED
            BY <5>1, <6>1 DEF CheckEstimated
        <5>3. CASE Command(r) = "check" /\ Job[r].what = Job[q].what
          <6>1. OfAsset(Landed("check"), Job[q].what)' # {}
            BY <2>8, <5>3 DEF OfAsset
          <6> QED
            BY <5>1, <6>1 DEF CheckEstimated
        <5>4. CASE /\ OfAsset(Landed("check"), Job[q].what) = {}
                   /\ ~(Command(r) = "check" /\ Job[r].what = Job[q].what)
          <6>1. balance["checkExecutor"][Job[q].what] >= Job[q].amount
            BY <4>1, <4>3, <5>4 DEF CheckEstimated
          <6>2. balance'["checkExecutor"][Job[q].what] >= balance["checkExecutor"][Job[q].what]
            BY <2>3, <3>3, <3>7, <5>4 DEF Effects
          <6>3. balance'["checkExecutor"][Job[q].what] >= Job[q].amount
            BY <3>3, <3>4, <3>5, <3>7, <6>1, <6>2
          <6> QED
            BY <5>1, <6>3 DEF CheckEstimated
        <5> QED
          BY <5>2, <5>3, <5>4
      <4> QED
        BY <4>2, <4>3
    <3> QED
      BY <3>6, <3>7 DEF Command
  <2>11. ASSUME NEW q \in Run, process'[q] = "reverted"
         PROVE  Explained(q)'
    <3>1. process[q] = "reverted" /\ Explained(q)
      BY <2>4, <2>11 DEF ScriptInv
    <3>2. holder = "stranger" => holder' = "stranger"
      BY <2>3 DEF Effects
    <3> QED
      BY <2>6, <3>1, <3>2, ExplainedStays
  <2> QED
    BY <2>2, <2>5, <2>9, <2>10, <2>11 DEF ScriptInv
<1> QED
  BY <1>2, <1>3

\* The chain changes by others, or the clock moves.
LEMMA BystanderStep ==
    ASSUME ScriptInv, UNCHANGED <<process, known, pending, blind, code, nonce, register, balance>>,
           clock' \in Nat, holder' = holder \/ (holder = "nobody" /\ holder' = "stranger")
    PROVE  ScriptInv'
<1>1. ScriptTypes'
  BY DEF ScriptInv, ScriptTypes
<1>2. \A q \in Run : Later(q)
  BY DEF Later
<1>3. \A command : Landed(command)' = Landed(command)
  BY DEF Landed, Doing
<1>4. Waiting'
  BY DEF ScriptInv, Waiting, Sender
<1>5. Caused'
  BY <1>3 DEF ScriptInv, Caused
<1>6. Estimated'
  <2> SUFFICES ASSUME NEW q \in Run, process'[q] = "sent"
               PROVE  /\ (Command(q) = "move" => MoveEstimated(q))'
                      /\ (Command(q) = "check" => CheckEstimated(q))'
    BY DEF Estimated
  <2>1. (Command(q) = "move" => MoveEstimated(q))'
    BY DEF ScriptInv, Estimated, MoveEstimated, SignaturesAccepted, Command
  <2>2. (Command(q) = "check" => CheckEstimated(q))'
    BY <1>3
    DEF ScriptInv, Estimated, CheckEstimated, SignaturesAccepted, OfAsset, Command
  <2> QED
    BY <2>1, <2>2
<1>7. ASSUME NEW q \in Run, process'[q] = "reverted"
      PROVE  Explained(q)'
  <2>1. process[q] = "reverted" /\ Explained(q)
    BY <1>7 DEF ScriptInv
  <2> QED
    BY <1>2, <2>1, ExplainedStays
<1> QED
  BY <1>1, <1>4, <1>5, <1>6, <1>7 DEF ScriptInv

LEMMA NextScripts ==
    ScriptInv /\ [ScriptNext]_scriptVars => ScriptInv'
<1> SUFFICES ASSUME ScriptInv, [ScriptNext]_scriptVars
             PROVE  ScriptInv'
  OBVIOUS
<1>1. CASE \E r \in Run : Launch(r)
  BY <1>1, LaunchStep
<1>2. CASE \E r \in Run : ReadNonce(r)
  BY <1>2, ReadStep
<1>3. CASE \E r \in Run : MakeCheck(r)
  BY <1>3, CheckStep
<1>4. CASE \E r \in Run : Send(r)
  BY <1>4, SendStep
<1>5. CASE \E r \in Run : Refuse(r)
  BY <1>5, RefuseStep
<1>6. CASE \E s \in DOMAIN pending : Mine(s)
  BY <1>6, MineStep
<1>7. CASE StrangerSetsUp
  BY <1>7, BystanderStep DEF StrangerSetsUp, ScriptInv, ScriptTypes
<1>8. CASE Tick
  BY <1>8, BystanderStep DEF Tick, chain, ScriptInv, ScriptTypes
<1>9. CASE UNCHANGED scriptVars
  BY <1>9, BystanderStep DEF scriptVars, ScriptInv, ScriptTypes
<1> QED
  BY <1>1, <1>2, <1>3, <1>4, <1>5, <1>6, <1>7, <1>8, <1>9 DEF ScriptNext

\* A transaction that passed its estimate reverts only if it lost a race of
\* a known kind, for every set of executions of the commands, every order
\* the operator keeps them in and every order in which they are mined.
THEOREM RevertsHaveCauses == ScriptSpec => []RevertExplained
<1>1. ScriptInv => RevertExplained
  BY DEF ScriptInv, RevertExplained, Explained, Command
<1> QED
  BY <1>1, InitScripts, NextScripts, PTL DEF ScriptSpec
=============================================================================
