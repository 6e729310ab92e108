SPECIFICATION MCSpec
CONSTANTS
    Participants = {rust, typescript}
    Paths = {a, b}
    Contents = {old, new}
    CaseIds = {redact}
    MaxEdits = 3
    Languages = {"typescript", "rust"}
    Packages = {"interfaces"}
    Requirements = {"^1", "^2"}
    Styles = {"basic", "other"}
    MaxChanges = 4
SYMMETRY Symmetry
INVARIANTS
    PassMeansConformant FreshEvidenceCounts
     HonestPasses
\* The run ends where the bounds on edits are reached.
CHECK_DEADLOCK FALSE
