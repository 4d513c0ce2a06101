SPECIFICATION LibSpec
CONSTANTS
    Wires <- MCWires
    Size <- MCSize
    Content = {c1, c2}
    NoContent = NoContent
    PayloadSpan = 4
    MaxMessages = 2
    MaxMarshals = 2
    Key = {k1, k2}
    NoAddress = NoAddress
    MaxUint = 7
    Interval = 3
    Loop = {l1, l2}
INVARIANTS
    Conserved
    HeaderInPieces
    RegularIsRead
    SegmentRoundTrip
    AddressRoundTrip
    SearchCorrect
PROPERTIES
    ChannelSpec
    SearchEnds
    SpacedCalls
    DueIsCalled
    LoopsEnd
CHECK_DEADLOCK FALSE
