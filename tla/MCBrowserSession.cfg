SPECIFICATION FairSpec
CONSTANTS
    MaxRetries = 2
    MaxOffers = 3
    MaxHubIce = 3
    MaxPageIce = 2
CHECK_DEADLOCK FALSE
INVARIANTS CandidateLostOnlyBeforeOffer
PROPERTIES RetryAsksUser OffersAnswered ImplementsPeer
