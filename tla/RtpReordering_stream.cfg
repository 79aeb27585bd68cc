SPECIFICATION RtpSpec
CONSTANTS
    Sources <- MCSources
    Streams <- MCStreams
    FirstSeqNos = {5}
    Modulus = 8
    MaxWaiting = 4
INVARIANTS ListInOrder WholeFrames
PROPERTY NothingElseLost
