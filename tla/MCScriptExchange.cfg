SPECIFICATION FairExchange
CONSTANTS
    Bodies <- AllBodies
    Headers <- AllHeaders
    Styles = {"slurp", "filter", "ignore", "hang"}
    PipeSize = 3
    MayDie = TRUE
    ChunkLen = 3
    MaxU32 = 8
    MaxBody = 10
    NoSent = NoSent
INVARIANTS
    GoodScriptAnswered
    AnswerIsOutput
    StallsWhenPipesFull
    DecodesToBody
    CutOnlyIfEmpty
PROPERTY
    EndsUnlessPipesFull
CHECK_DEADLOCK FALSE
