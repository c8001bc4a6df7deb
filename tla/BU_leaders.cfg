SPECIFICATION FairBullySpec
CONSTANTS
    Nodes = {1, 2, 3}
    Weight <- Rising
    MaxWaiting = 2
    MaxStops = 2
INVARIANTS BullyTypeOK FollowsBigger
PROPERTIES LeadersLive
