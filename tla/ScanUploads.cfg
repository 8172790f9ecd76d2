CONSTANTS
    a1 = a1
    a2 = a2
    clean = clean
    vulnerable = vulnerable
    trivy = trivy
    grype = grype
    Artifacts = {a1}
    Contents = {clean, vulnerable}
    Vulnerable <- FoundByTrivy
    Types = {trivy, grype}
    Inapplicable <- PartlyApplicable
    Workers = {w1}
    Holds = TRUE
    MaxRows = 3
    MaxUploads = 1
    Nil = Nil
SPECIFICATION FairSpec
 
PROPERTY ScansSettle
