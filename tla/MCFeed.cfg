\* Some thirteen thousand queries against one torrent, the labels of a torrent
\* under the filters of a search, and up to three torrents of ten kinds.
CONSTANTS
    Scenarios <- AllScenarios
    maxQueryLength = 9
    MaxCount = 3
    processedTorrentLogSampleLimit = 1
    latestLimit = 2
    invalidTorrentLogSampleLimit = 1
SPECIFICATION Spec
INVARIANTS
    FirstOccurrenceDecides
    PagesPartitionFeed
    RejectionsAccounted
    TitleTextKept
    FoundByItsTitle
    UnsafeSeasonNotReplaced
CHECK_DEADLOCK FALSE
