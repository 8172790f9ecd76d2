-------------------------- MODULE MCScanLifecycle --------------------------
(***************************************************************************)
(* Instances of ScanLifecycle for TLC.                                     *)
(***************************************************************************)
EXTENDS ScanLifecycle, TLC

CONSTANTS a1, a2, clean, vulnerable, trivy, grype

(* Only trivy finds something, and only in one of the contents.            *)
FoundByTrivy == {<<vulnerable, trivy>>}

(* grype does not apply to a1.                                             *)
PartlyApplicable == {<<a1, grype>>}
AllApplicable == {}

ScanSymmetry == Permutations(Workers) \cup Permutations(Artifacts)
=============================================================================
