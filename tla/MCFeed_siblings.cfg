\* One search, against the answers of one to three torrents and odd ones.
CONSTANTS
    Scenarios <- AnswerScenarios
    maxQueryLength = 9
    MaxCount = 3
    processedTorrentLogSampleLimit = 1
    latestLimit = 2
    invalidTorrentLogSampleLimit = 1
SPECIFICATION Spec
INVARIANT
    SiblingsSurvive
CHECK_DEADLOCK FALSE
