SPECIFICATION BackgroundSpec

CONSTANTS
    Sources = {mic}
    Workers = {w1, w2}
    MaxSequence = 3
    MaxPerDrain = 2
    MaxReplays = 1
    MaxStops = 0
    MaxCrashes = 1
    MaxOverruns = 1
    Deliveries = {d1}
    MaxPosts = 2
    MaxDeliverRetries = 3
    MaxWebhookFaults = 1
    Charges = {t1}
    MaxChargeRetries = 1
    Syncs = {s1, s2}
    LastRevision = 2
    MaxSyncRetries = 1
    MaxSyncFaults = 1
    MaxZoomTrouble = 2
    MaxBacklog = 1

INVARIANTS
    SpeechOnce
    RowsSentOnce
    OneDrainOwnsTheTail
    DeliveredWithinBounds
    OnePaymentPerTask
    BotFollowsEvent
    RecordedAsSaid

PROPERTIES
    AutopayTriedWhenItHelps
    EventArrivesForGood
    AttemptsEnd

CHECK_DEADLOCK FALSE
