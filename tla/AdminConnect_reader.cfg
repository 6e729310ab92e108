SPECIFICATION ConnectSpec
CONSTANTS
    Contexts = {web, api}
    Readers = {web}
    Configs <- MCConfigs
    MaxSessions = 2
PROPERTIES
    ReadersCannotWrite
