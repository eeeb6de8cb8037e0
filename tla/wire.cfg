\* A reader that has read everything waits: CHECK_DEADLOCK FALSE.
SPECIFICATION RSpec
CONSTANTS
    Feeds <- MCFeeds
    MaxDrains = 2
    Deserialize <- Deserialized
    BeginString <- Fix44
    Dictionary <- MCDictionary
    Specified <- MCSpecified
    FieldValue <- MCFieldValue
    Layouts <- MCLayouts
    SpecifiedLayouts <- MCSpecifiedLayouts
INVARIANTS
    ReaderInv
    FramesMatch
    RoundTrip
PROPERTIES
    ReaderProgress
CHECK_DEADLOCK FALSE
