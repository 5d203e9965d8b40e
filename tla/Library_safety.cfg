SPECIFICATION LibrarySpec
CONSTANTS
    i1 = i1
    i2 = i2
    i3 = i3
    Parts = {"list", "radix", "table", "cstd", "shell"}
    Roots = {r, s}
    Items = {i1, i2, i3}
    Rank <- MCRank
    Slots = 2
    Vals = {1}
    MaxNode = 5
    Indices <- MCIndices
    Keys = {"a", "b", "c", "d"}
    H1 <- MCH1
    H2 <- MCH2
    Word = 16
    HVals = {"x", "y"}
    FirstSize = 4
    MaxSlots = 7
    MaxTry = 1
    MemSize = 5
    Bytes = {0, 1, 2}
    Long = 2
    IntSize = 256
    Strings <- MCStrings
    Behind <- MCBehind
    Formats <- MCFormats
    Sizes = {0, 1, 2, 3, 5, 9}
    MaxNode_s = 4
    Simple = {"BUILT_IN"}
    Ops = {"MINUS"}
    Words = {"x"}
    Ints = {1}
    Fuel = 2
INVARIANTS
    ListsHoldTheirItems
    LoopsVisitEveryItem
    
    TableIsADictionary
    
    ScriptsAreFreedOnce
CHECK_DEADLOCK FALSE
