SPECIFICATION Spec
CONSTANTS
    r1 = r1
    r2 = r2
    r3 = r3
    here = here
    there = there
    index = index
    child = child
    image = image
    Repos = {r1}
    Location <- OneRepo
    CloudLocations = {here}
    References = {}
    Names = {n}
    Manifests = {}
    Packages = {k1}
    Children <- NoManifests
    Versions = {v}
    GcWorkers = {w1}
    Uploaders = {u}
    OciClients = {}
    CascadeScopes = {}
    Nil = Nil
    MaxFailures = 0
INVARIANTS NoContentLoss
