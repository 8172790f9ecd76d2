CONSTANTS
    a1 = a1
    a2 = a2
    clean = clean
    vulnerable = vulnerable
    trivy = trivy
    grype = grype
    Artifacts = {a1}
    Contents = {clean, vulnerable}
    Vulnerable <- FoundByTrivy
    Types = {trivy, grype}
    Inapplicable <- AllApplicable
    Workers = {w1, w2}
    Holds = TRUE
    MaxRows = 3
    MaxUploads = 0
    Nil = Nil
SPECIFICATION Spec
PROPERTY RejectionsStand
