\* Three calls and three events on their way, one download of each list.
CONSTANTS
    MaxQueue = 3
    MaxFetch = 1
SPECIFICATION FairSpec
INVARIANTS
    ProxyFollowsSwitches
    ThreatOffDropsNothing
PROPERTIES
    ThreatListComesBack
