\* Two sources, their declarations and what they offer changing, pulled again and again.
SPECIFICATION FairSpec
CONSTANTS
    s1 = s1
    s2 = s2
    i1 = i1
    i2 = i2
    i3 = i3
    o1 = o1
    o2 = o2
    o3 = o3
    d1 = d1
    d2 = d2
    pdf = pdf
    pipe = pipe
    AllSources <- TwoSources
    Listing <- TwoAndOne
    Origin <- Distinct
    Offers <- PullOffers
    Declarations <- PullTables
    Modes <- PullModes
    Data = {d1, d2}
    Large = {d2}
    Types = {pdf}
    Generic = Generic
    Pipelines = {pipe}
    Unknown = Unknown
    NoLimit = NoLimit
    MaxEdits = 2
    ByHand <- PullByHand
INVARIANTS DeclarationsTakeEffect HeldIsNotFetched
PROPERTIES RedactionsHold PullsDrain
