SPECIFICATION FilesSpec
CONSTANTS
    ghosts = ghosts
    other = other
    Threads = {t1, t2}
    Fds = {d1, d2}
    Files = {ghosts, other}
    NoFile = NoFile
    Kind <- MCKind
    Cap = 2
    MaxPos = 3
    Appending = {FALSE}
    Sharing = FALSE
    Parts = {"saves", "assets", "paths", "methods", "objects"}
    Askers = {k1, k2}
    Imports = {"open", "fopen", "stat", "opendir", "mkdir", "rmdir", "unlink", "remove", "rename"}
    LookedUp = {"open", "GetBatteryLevel", "x", "y"}
    Lookers = {1, 2}
    Handles = {1, 2}
    AssetFds = {3, 4}
    Cards <- MCCards
    BankMax = 2
    Lengths = {5, 30}
    Shorts = {0, 7}
    Names = {"x", "y"}
    Values = {1, 2}
    MaxLength = 2
    MaxNames = 2
    ElementKinds = {1, 3, 4, 5, 6}
    ArrayLengths = {1, 3}
    Elements = {1, 2}
    Texts <- MCTexts
    Listings <- MCListings
    MaxListed = 2
    MaxObjects = 1
    AUDIO_GRAIN = 1
SYMMETRY Symmetry
INVARIANTS GhostCapped PositionsKept ReadsWanted FailsCleanly SamePlace CallsRightMethod JavaDataKept
