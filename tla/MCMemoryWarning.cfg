CONSTANTS
    TotalPages = 200
    MaxRun = 2
SPECIFICATION Spec
PROPERTY NoRefireAtLevel1
