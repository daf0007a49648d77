\* Two actors of one process on main and one other branch, and one more tag. Deadlock is not
\* checked: nobody has to begin another operation.
SPECIFICATION Spec
CONSTANTS
    a1 = a1
    a2 = a2
    x = x
    v = v
    Main = Main
    None = None
    Actors = {a1, a2}
    Branches = {Main, x}
    Releases = {v}
    Strategies = {"merge", "rebase"}
    Disputed = {2, 3}
    MaxSnapshots = 4
    MaxOperations = 3
INVARIANTS TypeOK WorkIsNamed PublishesItsOwn
PROPERTIES LinesStay OpenStands FetchDecidesNothing
SYMMETRY ActorSymmetry
CHECK_DEADLOCK FALSE
