SPECIFICATION FairSpec
CONSTANTS
    f = f
    m = m
    Members = {f}
    Masters = {m}
    Threads = {"p", "q"}
    Teams = {"a", "b"}
    IPs = {"1", "2"}
    Ports = {80, 90}
    Hosts <- AnyMove
    Configured <- FirstTeam
    Expiry = 2
    MaxEvents = 3
INVARIANTS TypeOK TokenIsEntry LiveMemberListed
PROPERTIES LostMemberGoes TokenFollows
