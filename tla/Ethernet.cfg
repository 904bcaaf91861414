SPECIFICATION EthLiveSpec
CONSTANTS
    NUM_TX_FRAG = 2
    NUM_SENDERS = 2
    NUM_RX_FRAG = 3
INVARIANTS
    AcceptedIsInRing
    WaitIsAnswered
    ReadsAFrame
    TokensCountFrames
PROPERTIES
    EveryFrameIsRead
