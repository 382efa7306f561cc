SPECIFICATION FairSpec
CONSTANTS
    Retries = 1
    MaxMessages = 2
INVARIANTS TypeOK ReadyForMessages
PROPERTIES EndsForCause RepliesPublished SubscriptionResumes
CHECK_DEADLOCK FALSE
