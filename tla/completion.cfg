SPECIFICATION Spec
CONSTANTS
    NoStop = NoStop
    Characters <- MCCharacters
    Merges <- MCMerges
    DefaultSystem <- MCSystem
    Vocabulary <- MCVocabulary
    Requests <- MCRequests
    Logits <- MCLogits
CHECK_DEADLOCK FALSE
INVARIANTS
    AnswerExact HeldOnlyIfNeeded EntriesFollowText
    WindowFits NewestKept OldestDroppedFirst
    GreedyIsArgmax SampledFromTheTop
