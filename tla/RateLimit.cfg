SPECIFICATION Spec
CONSTANTS
  Configurations <- MC_Configurations
  StrayLabels <- MC_StrayLabels
  StrayValues <- MC_StrayValues
  NewMetricLabels <- MC_Vocabulary
  MaxDrift = 2
INVARIANTS  DecisionsComplete 
