SPECIFICATION PipelineSpec
CONSTANTS
    maxReadLength = 6
    Alphabet <- MCAlphabet
    Preambles <- NoPreamble
    Bursts <- NoBursts
    MaxBursts = 9
    MaxWire = 7
    Streams <- MCStreams
    ReportSizes = {5}
    MaxJoins = 2
    MaxReports = 9
INVARIANTS TypeOK WindowMatches OnceInOrder NoneLost AtMostOneLost
PROPERTY EachConnectionFramed
CHECK_DEADLOCK FALSE
