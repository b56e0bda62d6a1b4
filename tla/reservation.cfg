SPECIFICATION FairSpec
CONSTANTS
    Sessions = {s1, s2, s3}
    None = none
    MaxCalls = 2
INVARIANTS
    HolderIsAlive
    GrantedIsHeld
    AtMostOneLateCall
PROPERTY
    ReservationGivenBack
