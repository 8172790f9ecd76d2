---------------------------- MODULE MCSyncWorker ----------------------------
(***************************************************************************)
(* Instances of SyncWorker for TLC.                                        *)
(***************************************************************************)
EXTENDS SyncWorker, TLC

CONSTANTS p1, p2, a1, a2

NoPairs == {}
FilterSecondPeer == {<<p2, a1>>}
FilterSecondArtifact == {<<p1, a2>>}
SecondPeerHasChunks == {<<p2, a1>>}

TransferSymmetry == Permutations(Transfers)
WorkerAndTransferSymmetry == Permutations(Transfers) \cup Permutations(Workers)
=============================================================================
