CONSTANTS
    a1 = a1
    a2 = a2
    clean = clean
    vulnerable = vulnerable
    trivy = trivy
    grype = grype
    Artifacts = {a1, a2}
    Contents = {clean, vulnerable}
    Vulnerable <- FoundByTrivy
    Types = {trivy}
    Inapplicable <- AllApplicable
    Workers = {w1, w2}
    Holds = FALSE
    MaxRows = 2
    MaxUploads = 0
    Nil = Nil
SPECIFICATION Spec
INVARIANTS
    TypeOK
    CountedFindingsExist
    ResultsMatchChecksum
SYMMETRY ScanSymmetry
