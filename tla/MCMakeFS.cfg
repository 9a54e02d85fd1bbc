CONSTANTS
    k_block_data_size = 16
    k_block_size = 20
    k_extent_block_size = 200
    k_start_padding_block_count = 4
    U32 = 128
    U64 = 4096
    DeviceSizes <- Sizes
    k_min_device_size = 400
SPECIFICATION Spec
INVARIANTS
    TypeOK
    MadeLayoutIsAccepted
    MadeRegionsInOrder
