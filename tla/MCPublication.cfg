SPECIFICATION PublicationSpec
CONSTANTS
    Exporters = {e1, e2}
    Replacing = {e1, e2}
    Paths <- BundlePaths
    MaxFaults = 0
    MaxKills = 0
    MaxForeign = 1
    NoDir = NoDir
PROPERTY ForeignFilesSurvive
CHECK_DEADLOCK FALSE
