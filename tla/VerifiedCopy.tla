---------------------------- MODULE VerifiedCopy ----------------------------
(***************************************************************************)
(* What a migration promises of its destination, without workers, pages,   *)
(* items or crashes: content is stored once it was verified for some       *)
(* artifact, an artifact is published once, with stored content that was   *)
(* verified for it, and is recorded as done when it is published.  Nothing *)
(* stored or published is taken back; a record of being done may be.       *)
(***************************************************************************)
CONSTANTS Artifacts,
          Bodies,
          None,
          Verified      \* <<a, b>>: body b passes the checks of artifact a

VARIABLES stored,       \* the contents of the destination
          published,    \* published[a]: the content of artifact a, or None
          done          \* the artifacts recorded as migrated

vars == <<stored, published, done>>

(* The destination may hold artifacts of its own.                          *)
Init ==
    /\ published \in [Artifacts -> Bodies \cup {None}]
    /\ stored = {published[a] : a \in Artifacts} \ {None}
    /\ done = {}

Store(a, b) ==
    /\ <<a, b>> \in Verified
    /\ stored' = stored \cup {b}
    /\ UNCHANGED <<published, done>>

Publish(a, b) ==
    /\ <<a, b>> \in Verified
    /\ published[a] = None
    /\ b \in stored
    /\ published' = [published EXCEPT ![a] = b]
    /\ UNCHANGED <<stored, done>>

Complete(a) ==
    /\ published[a] # None
    /\ done' = done \cup {a}
    /\ UNCHANGED <<stored, published>>

Reopen(a) ==
    /\ done' = done \ {a}
    /\ UNCHANGED <<stored, published>>

Next ==
    \E a \in Artifacts :
        \/ \E b \in Bodies : Store(a, b) \/ Publish(a, b)
        \/ Complete(a) \/ Reopen(a)

Spec == Init /\ [][Next]_vars
=============================================================================
