SPECIFICATION Spec
CONSTANTS
    Target = {"ts", "service", "my"}
    Backend = {"dexie", "my-store"}
    Storeless = {"service"}
    Supports <- Pairs
    None = ""
    Files <- Paths
    Manifest <- ManifestPath
    Options <- Claims
    Text <- Strings
    Maps <- Tables
    Listed <- Lists
    Words <- Spelt
    Reserved = {"REFERENCE"}
    Misspelt = {"TS", "B"}
    Caps <- StoreCaps
    Accepts <- StoreAccepts
    Families <- Runs
CHECK_DEADLOCK FALSE
INVARIANTS TypeOK UnderstoodBeforeRendered EnvironmentSaid HeldOrSaid EveryFileOfEveryEntry SettingsInForce ConfigAnswersForBuild
