CONSTANTS
    ExtentIds = {e1, e2, e3}
    Calls = {c1}
    NoExtent = NoExtent
    extent_block_count = 3
    bitmap_block_count = 2
    k_block_data_size = 2
    U32 = 16
    OwnHeader <- CodecOutcome
SPECIFICATION Spec
PROPERTIES
    CodeErrorNotReached
