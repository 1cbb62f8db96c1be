SPECIFICATION MCSpec
CONSTANTS
    Opener = {new, m1, m2}
    Older = {m1, m2}
    Known <- Binaries
    MaxLists = 2
    ListId = {"a", "2"}
    KeySpelledBy <- Numerals
    ListAddress = {u1, u2}
    Policies = {"open"}
    Person = {o1}
    MaxOwners = 1
    Author = {m1, m2}
    MailDates <- TwoDates
    PostPolicies = {"none", "announce_only", "subscription_only", "approval_needed"}
    MaxSub = 2
    Browser = {m1, m2}
    Address = {u1, u2}
    Name = {n1, n2}
    MaxAccounts = 1
    MaxTokens = 2
    MaxTime = 2
    Expiry = 2
    Member = {m1, m2}
    MaxRows = 2
    MaxPosts = 1
    Selections <- LintSelections
    Incoming <- BadPosts
    QueueName = {"error", "deferred"}
    Letter = {m1, m2}
    MaxEntries = 2
    TemplateList = {"list"}
    MaxTemplates = 3
    Updater = {m1, m2}
    Originals <- MasterFiles
    MaxLines = 6
    MaxListNo = 2
    MessageId = {u1, u2}
    Timestamp = {1, 2}
    MonthOf <- Months
    MaxArchived = 2
    Correspondent = {"a", "b"}
    MaxAddress = 5
    MaxTable = 4
SYMMETRY Symmetry
INVARIANTS
    TypesOK
    NamesFindTheirList
    CompletedSiteIsSound
    FilteredPosts
    AnnouncementsHold
    ThreadsShowReplies
PROPERTIES
    OnlyCreationSpoilsDatabases
    SettingsSurviveUpgrades
    OnlyRemovalLeavesStrangersWriting
    DescriptionLostOnlyOnRequest
    ArchivedByRight
    OnlyLeavingMisdirectsUpdate
    TokenOutlivesVisits
    UserLostOnlyToAnotherLogin
    MemoryFalseOnlyWhenOvertaken
    OnlyLateRowsAreLost
    UnseenDeletedOnlyIfLate
    LastCopyLostOnlyByLaterRun
    OtherServicesAreKept
CHECK_DEADLOCK FALSE
