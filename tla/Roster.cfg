SPECIFICATION Spec
CONSTANTS
    Participants = {p1, p2, p3, p4, p5}
    Host = host
    Details = {d1, d2}
    NoDetails = none
    Requests = {r1, r2}
    Limits = {1, 2}
    MaxImport = 2
SYMMETRY Symmetry
INVARIANTS
    TypeOK
    LiveRoomHasHost
    RosterBounded
PROPERTY
    HostFixed
CHECK_DEADLOCK FALSE
