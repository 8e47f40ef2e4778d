\* Two new projects with an item each, and a fault of any kind: two turns
\* may initialise, or release, at once.
CONSTANTS
    p1 = p1
    p2 = p2
    op = op
    a = a
    b = b
    r = r
    h = h
    target = target
    other = other
    Project = {p1, p2}
    Operator = op
    Actor <- MCActor
    NoActor = NoActor
    Veterans = {}
    Late <- MCActor
    NoLedger = NoLedger
    Item = {a, b}
    NeedsHuman = {}
    RuleItem = {}
    Cycle = {target, other}
    Fires <- MCFiresNone
    Wants <- MCWantsApart
    Targets <- MCTargetsNone
    MaxVersion = 3
    MaxFaults = 1
SPECIFICATION Spec
INVARIANTS TagsAreOnMain TaggedAsPushed FleetKeepsAll
PROPERTY ImplementsHistory
SYMMETRY MCSwap
CHECK_DEADLOCK FALSE
