SPECIFICATION MCSpec
CONSTANTS
    Kits <- MCKits
    OtherRules = {"eqeqeq", "use-isnan"}
    Settings = {"number", "word"}
    Number = 2
    MaxFiles = 2
    MaxMessages = 4
INVARIANT RuleCatchesLost
\* A file is linted once and one report is printed.
CHECK_DEADLOCK FALSE
