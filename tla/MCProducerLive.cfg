SPECIFICATION ProducerSpec
CONSTANTS
    m1 = m1
    m2 = m2
    m3 = m3
    big = big
    Messages = {m1, m2}
    RawSize <- MCRawSize
    PackedSizes <- MCPackedSizes
    Buffers = {b1, b2}
    Entries = {e1, e2}
    Workers = {w1, w2}
    inputBufferSize = 1
    outputBufferSize = 1
    maxEntriesPerRequest = 5
    maxEntrySize = 5
    maxRequestSize = 10
    entryMetadataSize = 1
    partitionKeySize = 1
    None = None
PROPERTIES
    MessagesMoveOn
    CloseEnds
