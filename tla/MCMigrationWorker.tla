-------------------------- MODULE MCMigrationWorker --------------------------
(***************************************************************************)
(* Instances of MigrationWorker for TLC.                                   *)
(***************************************************************************)
EXTENDS MigrationWorker, TLC

CONSTANTS a1, a2, a3, c1, c2, c3

(* Two artifacts in a first repository, one in a second.                   *)
TwoAndOne == <<<<a1, a2>>, <<a3>>>>
TwoAndNone == <<<<a1, a2>>, <<>>>>
OneAndOne == <<<<a1>>, <<a2>>>>
One == <<<<a1>>>>

Contained == [a \in Artifacts |-> CASE a = a1 -> c1 [] a = a2 -> c2 [] OTHER -> c3]
ByShaOrNone == [a \in Artifacts |-> CASE a = a1 -> "sha256" [] a = a2 -> "sha1"
                                     [] OTHER -> "none"]

Nothing == [a \in Artifacts |-> None]
SecondExists == [a \in Artifacts |-> IF a = a2 THEN c1 ELSE None]
FirstExists == [a \in Artifacts |-> IF a = a1 THEN c2 ELSE None]

NoArtifacts == {}
NoRepositories == {}
FirstRepository == {1}
=============================================================================
