CONSTANTS
    ExtentIds = {e1}
    Calls = {c1, c2}
    NoExtent = NoExtent
    extent_block_count = 2
    bitmap_block_count = 2
    k_block_data_size = 2
    U32 = 16
    OwnHeader <- CodecOutcome
SPECIFICATION FairSpec
PROPERTIES
    EveryCallReturns
