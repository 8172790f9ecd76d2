---------------------------- MODULE LeasedObjects ----------------------------
(***************************************************************************)
(* What artifact storage promises, without statements, locks or            *)
(* transactions: names refer to objects, a request takes a lease on the    *)
(* object it stores or finds before a name is bound to it, and an object   *)
(* is collected only when no name refers to it and no lease is out on it.  *)
(***************************************************************************)
CONSTANTS Names,
          Objects,
          None

VARIABLES names,      \* names[n]: the object n refers to, or None
          held,       \* the objects in storage
          leased      \* the objects some request counts on

vars == <<names, held, leased>>

Init ==
    /\ names = [n \in Names |-> None]
    /\ held = {}
    /\ leased = {}

(* A request stores o, and from then on counts on it and on those of S.    *)
Put(o, S) ==
    /\ held' = held \cup {o}
    /\ leased' = leased \cup {o} \cup S
    /\ UNCHANGED names

Find(o) ==
    /\ o \in held
    /\ leased' = leased \cup {o}
    /\ UNCHANGED <<names, held>>

(* The request may end with it; its leases may be other requests' as well. *)
Bind(n, o) ==
    /\ o \in held \cap leased
    /\ names' = [names EXCEPT ![n] = o]
    /\ leased' \in SUBSET leased
    /\ UNCHANGED held

Unbind(S) ==
    /\ names' = [n \in Names |-> IF n \in S THEN None ELSE names[n]]
    /\ UNCHANGED <<held, leased>>

Release ==
    /\ leased' \in SUBSET leased
    /\ UNCHANGED <<names, held>>

Collect(o) ==
    /\ o \notin leased
    /\ \A n \in Names : names[n] # o
    /\ held' = held \ {o}
    /\ UNCHANGED <<names, leased>>

Next ==
    \/ \E o \in Objects :
          \/ \E S \in SUBSET Objects : Put(o, S)
          \/ Find(o) \/ Collect(o)
          \/ \E n \in Names : Bind(n, o)
    \/ \E S \in SUBSET Names : Unbind(S)
    \/ Release

Spec == Init /\ [][Next]_vars
=============================================================================
