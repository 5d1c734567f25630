\* One search for each query, against one torrent.
CONSTANTS
    Scenarios <- QueryScenarios
    maxQueryLength = 9
    MaxCount = 3
    processedTorrentLogSampleLimit = 1
    latestLimit = 2
    invalidTorrentLogSampleLimit = 1
SPECIFICATION Spec
INVARIANT
    EveryTokenTakenOut
CHECK_DEADLOCK FALSE
