CONSTANTS
    Numbers <- MCNumbers
    Tails <- MCTails
    Noise <- MCNoise
    Psdus <- MCPsdus
    TxMetadata <- MCTxMetadata
    RxMetadata <- MCRxMetadata
SPECIFICATION PackedSpec
INVARIANTS
    NumbersSurvive
    ReadersAgree
    StreamRawSurvives
