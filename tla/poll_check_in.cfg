SPECIFICATION LiveSpec
CONSTANTS
    Bufs = {b1, b2, b3}
    EpBuf = NoBuf
    MaxStarts = 3
    MaxStops = 2
    MaxNoResponses = 2
INVARIANTS TypeOK ChainsGoOn FastPollEnds
PROPERTIES CheckInsRecur BuffersComeBack
