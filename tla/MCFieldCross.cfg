SPECIFICATION Spec
CONSTANTS
    MaxTopics = 2
    NRetry = 5
    TRetry = 3
    Radix = 2
    RuntimeTimeout = 4
    SetupTicks = 0
    Leaves <- TwoLeaves
    TopicOf <- OwnTopic
    Chatter <- Silent
    MaxChatter = 0
    Misread <- Garbage
    Rough = FALSE
    Prompt = TRUE
INVARIANT PublishesOwnTopic
