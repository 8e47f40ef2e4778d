\* Two projects with items in common, a death or failed push, a rollback.
CONSTANTS
    p1 = p1
    p2 = p2
    op = op
    a = a
    b = b
    r = r
    h = h
    target = target
    other = other
    Project = {p1, p2}
    Operator = op
    Actor <- MCActor
    NoActor = NoActor
    Veterans = {p1, p2}
    Late = {}
    NoLedger = NoLedger
    Item = {a, r, h}
    NeedsHuman = {h}
    RuleItem = {r}
    Cycle = {target, other}
    Fires <- MCFires
    Wants <- MCWants
    Targets <- MCTargets
    MaxVersion = 3
    MaxFaults = 1
SPECIFICATION Spec
INVARIANTS TypeOK ItemsOnce RuleIsBacktested ClosedIsHandled RuleCanPass
CHECK_DEADLOCK FALSE
