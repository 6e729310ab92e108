SPECIFICATION MCSpec
CONSTANTS
    Names = {dev, prod}
    Mine = {dev}
    Values = {a}
    MultiLine = {}
    MaxLayers = 2
    Terminals = {t}
    Recipes <- RoundTrip
    Kills = TRUE
    OneName = {dev}
    SomeValues = {a, b}
    SomeMultiLine = {b}
    TwoTerminals = {t1, t2}
    Profiles = {dev, staging, prod}
    LinkTerminals = {t}
    None = None
    Torn = Torn
    Zeros = Zeros
    Blank = Blank
SYMMETRY Symmetry

    
PROPERTIES
    
    CiphertextSurvives
    NeverClobbered
    UseActivates
