SPECIFICATION FairSpec
CONSTANTS
    AsMode <- AS
    Deciding = {0, 1}
    MaxFaults = 2
    MaxAnswers <- UnderWay
    MaxPatches = 2
PROPERTIES
    Settles
    FailsOver
