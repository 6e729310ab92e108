SPECIFICATION ConnectSpec
CONSTANTS
    Contexts = {web, api}
    Readers = {web}
    Configs <- MCConfigs
    MaxSessions = 2
INVARIANTS
    ProbeSpeaksForPool
    ReadersAndWritersApart
