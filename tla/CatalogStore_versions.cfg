SPECIFICATION StoreSpec
CONSTANTS
    s1 = s1
    s2 = s2
    s3 = s3
    x = x
    y = y
    Sessions <- TwoSessions
    Contents <- TwoContents
    MaxRevision = 2
PROPERTIES
    SavingAddsAVersion
