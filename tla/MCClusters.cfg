\* Two packages: external-secrets (1) comes from Git through Argo CD, yugabyte (2)
\* is applied directly.
CONSTANTS
    Packages = {1, 2}
    Direct = {2}
    ClassPackages = {2}
    ExternalSecrets = 1
    Yugabyte = 2
    Tokens = {k1, k2}
    InitialToken = k1
    None = None
    MaxEvents = 2
SPECIFICATION Spec
INVARIANTS  ClientIsCurrent
PROPERTIES PackagesConverge ArgoRegistrationCatchesUp 
