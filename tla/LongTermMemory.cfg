\* A conversation of a summary and up to two facts, an eraser that may run again and again.
CONSTANTS
    s1 = s1
    e1 = e1
    Stores = {s1}
    Erasers = {e1}
    MaxFacts = 2
    DecayDays = 1
    Importances = {0, 7}
    MaxCrashes = 1
SPECIFICATION FairMemorySpec
INVARIANT ErasedForGood
PROPERTY StoredIsKept
PROPERTY Fades
