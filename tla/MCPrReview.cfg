CONSTANTS
    MAX_ROUNDS = 3
    MaxFindings = 1
    MaxHead = 2
    MaxReviews = 2
    Budgets <- MCBudgets
SPECIFICATION Spec
INVARIANTS
    TypeInvariant
    OneReviewUnderWay
    HumanWordStands
PROPERTIES
    MergesWhatWasReviewed
    NobodyWaitsForEver
    GitHubEndsReviews
CHECK_DEADLOCK FALSE
