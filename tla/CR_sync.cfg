SPECIFICATION FairSpec
CONSTANTS
    package = package
    Packages = {package}
    CRs = {a, u, r}
    PackageOf <- Owner
    UserCRs = {u, r}
    Remote = {r}
    Http = {h1}
    Pool = {w1}
    Loop = loop
    Free = free
    MaxRequests = 3
    MaxCrashes = 1
INVARIANTS TypeOK RowsFollowFiles DeletedStaysGone
PROPERTIES DropHasCause Converges
CHECK_DEADLOCK FALSE
