\* Two chunks, up to two phrasings: similarities of 0.2 and 0.8, and the cutoff of 0.3.
CONSTANTS
    c1 = c1
    c2 = c2
    c3 = c3
    Chunks = {c1, c2}
    Similarities = {200000, 800000}
    MaxPhrasings = 2
    RetrievalK = 20
    TopK = 1
    Cutoff = 300000
CHECK_DEADLOCK FALSE
SPECIFICATION Spec
INVARIANT CutoffIsAFloor
