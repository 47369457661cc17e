SPECIFICATION FairSpec
CONSTANTS
    Drivers = {d1, d2, d3}
    MaxFaults = 2
    None = None
INVARIANTS TypeOK OneExperiment ReceiptTellsClaim
PROPERTIES ClaimIsFenced EvidenceIsDelivered
CHECK_DEADLOCK FALSE
