SPECIFICATION Spec
CONSTANTS
    r1 = r1
    r2 = r2
    r3 = r3
    here = here
    there = there
    index = index
    child = child
    image = image
    Repos = {r1, r2, r3}
    Location <- MixedLocations
    CloudLocations = {here}
    References = {}
    Names = {n}
    Manifests = {}
    Packages = {k1}
    Children <- NoManifests
    Versions = {v}
    GcWorkers = {w1, w2}
    Uploaders = {u}
    OciClients = {}
    CascadeScopes = {}
    Nil = Nil
    MaxFailures = 1
INVARIANTS LiveRowsHaveContent 
PROPERTIES  ImplementsLeases
SYMMETRY PackageSymmetry
