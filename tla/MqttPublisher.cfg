SPECIFICATION Spec
CONSTANTS
    Zones = {z1}
    Knobs = {k1}
    Docs = {d1, d2}
    Absent = Absent
    Unknown = Unknown
    Availability = Availability
    Subscription = Subscription
    Capacity = 5
    BusCapacity = 1
    MaxStarts = 2
    MaxChanges = 2
    MaxFaults = 2
INVARIANTS
    QuietMeansCurrent
    GoneIsRetracted
CHECK_DEADLOCK FALSE
