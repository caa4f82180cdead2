\* Either mode, two requests at a time; three domains, so more requests than the
\* six pairs of gateways.
CONSTANTS
    Requests = 7
    Concurrency = 2
    Warmup = 2
    Domains = 3
SPECIFICATION FairSpec
INVARIANTS TypeOK EvenLoad ClaimCoversEveryRequest
PROPERTY CampaignEnds
CHECK_DEADLOCK FALSE
