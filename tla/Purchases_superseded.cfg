\* A load that is superseded while it waits.
CONSTANTS
    Loads = {l1, l2}
    Restores = {r1}
    Buys = {b1}
    First = l1
    None = None
SPECIFICATION Spec
INVARIANTS LatestLoadIsShown
