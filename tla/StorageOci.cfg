SPECIFICATION FairSpec
CONSTANTS
    r1 = r1
    r2 = r2
    r3 = r3
    here = here
    there = there
    index = index
    child = child
    image = image
    Repos = {r1}
    Location <- OneRepo
    CloudLocations = {here}
    References = {t1, t2}
    Names = {}
    Manifests = {index, child}
    Packages = {}
    Children <- IndexChildren
    Versions = {v}
    GcWorkers = {w1}
    Uploaders = {}
    OciClients = {c1}
    CascadeScopes = {{r1}}
    Nil = Nil
    MaxFailures = 1
INVARIANT TaggedManifestsHaveContent
PROPERTIES  OrphansAreCollected StaleTagsAreRemoved
