SPECIFICATION FairSpec
CONSTANTS
    c1 = c1
    c2 = c2
    news = news
    jobs = jobs
    Client = {c1, c2}
    Channel = {news, jobs}
    Everyone = Everyone
    Wants <- MCWants
    HubBuffer = 1
    ClientBuffer = 1
    MaxEvents = 3
INVARIANTS
    Consistent
    InOrder
PROPERTIES
    PublishersGoOn
    Forgotten
CHECK_DEADLOCK FALSE
