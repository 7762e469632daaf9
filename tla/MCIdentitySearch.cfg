CONSTANTS
    Segments <- MCSegments
    IdentityFree = {1, 2, 6, 8}
    MaxCount = 3
    Alignments = {1, 2, 4}
SPECIFICATION Spec
INVARIANT IdentitySearchCorrect
