\* A canonical block, two derived from it in turn; a scheme, its two classes,
\* a hierarchy of them and a placement in one.
SPECIFICATION Spec
CONSTANTS
    c = c  d = d  e = e  s = s  l = l  m = m  h = h  p = p
    Canonical = {c}
    Derived = {d, e}
    Schemes = {s}
    Classes = {l, m}
    Hierarchies = {h}
    Placements = {p}
    Needs <- MCNeeds
    Starts <- MCStarts
    MaxChanges = 2
INVARIANTS ReportAccounts
PROPERTIES ImplementsRecreation
\* A finished migration is the end.
CHECK_DEADLOCK FALSE
