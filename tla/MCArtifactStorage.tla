-------------------------- MODULE MCArtifactStorage --------------------------
EXTENDS ArtifactStorage, TLC

CONSTANTS r1, r2, r3, here, there, index, child, image

MixedLocations == r1 :> here @@ r2 :> here @@ r3 :> there
SeparateLocations == r1 :> here @@ r2 :> there
OneRepo == r1 :> here
IndexChildren == index :> {child} @@ child :> {}
PlainImage == image :> {}
PackageSymmetry == Permutations(GcWorkers) \cup Permutations(Packages)
NoManifests == [m \in {} |-> {}]
=============================================================================
