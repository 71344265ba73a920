----------------------------- MODULE LinkedList -----------------------------
(***************************************************************************)
(* The circular linked lists of OwnerManager and ModuleManager: a mapping  *)
(* in contract storage in which every member names the next one and a      *)
(* sentinel is head and tail.                                              *)
(***************************************************************************)
EXTENDS Integers

CONSTANTS
    Zero,           \* address(0): the value of an unwritten mapping entry
    SENTINEL        \* address(1): SENTINEL_OWNERS, SENTINEL_MODULES

\* p lists the sentinel and n members of S in the order of the links: the
\* links form one ring through the sentinel, and only its members have an
\* entry.
RingOrder(links, n, p, S) ==
    /\ p[0] = SENTINEL
    /\ \A i \in 1..n : p[i] \in S
    /\ \A i, j \in 0..n : p[i] = p[j] => i = j
    /\ \A i \in 0..n : links[p[i]] = IF i = n THEN SENTINEL ELSE p[i + 1]
    /\ \A a \in DOMAIN links : links[a] # Zero => \E i \in 0..n : p[i] = a

Ring(links, n, S) == \E p \in [0..n -> S \cup {SENTINEL}] : RingOrder(links, n, p, S)
=============================================================================
