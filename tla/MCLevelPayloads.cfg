SPECIFICATION Spec
CONSTANTS
    x = x
    e = e
    test = test
    stock = stock
    text = text
    Fill = Fill
    Null = Null
    spelling = "high"
    LevelCount = 3
    Test = 1
    CoreTables = {"layer1"}
    Layer1 = "layer1"
    Tables <- MCTables
    Payloads <- MCPayloads
    ExitPlanes <- MCExitPlanes
    AreaLen = 5
    ImageLen = 13
    BankSize = 11
    Protected = {12}
    Gaps = {0}
    Owners <- MCOwners
    Marker = 1
    MarkerText = text
    OldImage <- MCOldImage
    OldPointers <- MCOldPointers
    OldExits = Null
INVARIANTS ServedAsAsked LiveIsScanned
PROPERTIES ForeignIsKept DeletionFrees
CONSTRAINT TestLevelIsWhole
