SPECIFICATION FairSpec
CONSTANTS
    MaxTopics = 2
    NRetry = 5
    TRetry = 3
    Radix = 2
    RuntimeTimeout = 4
    SetupTicks = 1
    Leaves <- OneLeaf
    TopicOf <- OwnTopic
    Chatter <- Talkative
    MaxChatter = 2
    Misread <- Garbage
    Rough = TRUE
    Prompt = TRUE
INVARIANTS
    PubackMeansTaken
    PublishesOwnTopic
PROPERTIES
    FieldImplementsLeaf
    ReadingsGetThrough
