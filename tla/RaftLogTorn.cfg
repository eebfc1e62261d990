SPECIFICATION Spec
CONSTANTS
    Self = 1
    Peers = {2, 3}
    MaxTerm = 2
    MaxEntries = 2
    MaxGarbage = 1
    Block = 2
    MaxCrashes = 2
    MaxFaults = 0
INVARIANT VoteSurvives
