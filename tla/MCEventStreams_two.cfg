SPECIFICATION EventStreamsSpec
CONSTANTS
    Streams = {"s1", "s2"}
    Base <- BaseTopics
    Filters <- StreamFilters
    Reserved = {"$SYS"}
    MaxBreaks = 1
    Orgs = {"o1", "o2"}
    NoOrg = "none"
    Names <- TopicNames
    OrgOf <- Owners
    MemberOf <- Memberships
    MaxRecent = 1
    MaxQueue = 1
    MaxEvents = 2
    Devices = {"d1", "d2"}
    Levels <- TopicLevels
    Spelling <- Spelled
    MaxLevels = 4
CHECK_DEADLOCK FALSE
INVARIANTS
    StreamsTypeOK
    ReadyMeansAnswered
    WatchedAreSubscribed
    NothingTwice
    NothingLost
PROPERTIES
    PublishingResumes
    SlowStreamDelaysNobody
