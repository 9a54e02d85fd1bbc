------------------------ MODULE PancakeMakeFSProofs ------------------------
(***************************************************************************)
(* Proofs about PancakeMakeFS, for every size of device, block, extent and *)
(* machine word that LayoutAssumption allows: the sizes of the code, which *)
(* are beyond TLC's integers, included.                                    *)
(***************************************************************************)
EXTENDS PancakeMakeFS, TLAPS

-----------------------------------------------------------------------------
(* The arithmetic of BuildLayout.                                          *)

\* BitmapBlockCount is the division rounded up: the bitmap blocks have an entry
\* for every extent, and less than one block of entries is left over.
LEMMA BitmapCovers ==
    ASSUME NEW n \in Nat
    PROVE  /\ BitmapBlockCount(n) \in Nat
           /\ n <= BitmapBlockCount(n) * k_block_data_size
           /\ BitmapBlockCount(n) * k_block_data_size < n + k_block_data_size
<1> DEFINE k == k_block_data_size
           q == n \div k
           r == n % k
<1>1. k \in Nat /\ k > 0
  BY LayoutAssumption
<1>2. q \in Nat /\ r \in 0 .. k - 1 /\ q * k + r = n
  BY <1>1, Z3
<1>3. BitmapBlockCount(n) = q + (IF r # 0 THEN 1 ELSE 0)
  BY DEF BitmapBlockCount
<1> HIDE DEF k, q, r
<1>4. CASE r = 0
  <2>1. BitmapBlockCount(n) = q
    BY <1>2, <1>3, <1>4
  <2> QED BY <1>1, <1>2, <1>4, <2>1 DEF k
<1>5. CASE r # 0
  <2>1. BitmapBlockCount(n) = q + 1
    BY <1>2, <1>3, <1>5
  <2>2. (q + 1) * k = q * k + k
    BY <1>1, <1>2
  <2> QED BY <1>1, <1>2, <1>5, <2>1, <2>2 DEF k
<1> QED BY <1>4, <1>5

\* A value below the modulus is not changed by the reduction of an unsigned
\* type.
LEMMA SmallMod ==
    ASSUME NEW a \in Nat, NEW m \in Nat, a < m
    PROVE  a % m = a
OBVIOUS

\* Multiplication by a natural number keeps the order.
LEMMA ProductGrows ==
    ASSUME NEW a \in Nat, NEW b \in Nat, NEW k \in Nat, a <= b
    PROVE  a * k <= b * k
OBVIOUS

\* The same with the factors exchanged.
LEMMA ProductGrowsRight ==
    ASSUME NEW a \in Nat, NEW b \in Nat, NEW k \in Nat, a <= b
    PROVE  k * a <= k * b
OBVIOUS

\* The number of extents is a machine word.
LEMMA ExtentCountType ==
    ASSUME NEW size \in Nat
    PROVE  extentBlockCount(size) \in 0 .. U32 - 1
<1>1. size \div k_block_data_size \in Int
  BY LayoutAssumption
<1> QED BY <1>1, LayoutAssumption DEF extentBlockCount

\* On a device for which CountsFit, neither the extent count of BuildLayout nor
\* the product in PancakeExtentManager::Init wraps, and Init accepts.
LEMMA LayoutAccepted ==
    ASSUME NEW size \in Nat, CountsFit(size)
    PROVE  ManagerAccepts(BuildLayout(size))
<1> DEFINE k == k_block_data_size
           d == size \div k
           n == extentBlockCount(size)
           B == BitmapBlockCount(n)
<1>1. k \in Nat /\ k > 0 /\ U32 \in Nat
  BY LayoutAssumption
<1>2. d \in Nat /\ d + k <= U32
  BY <1>1, Z3 DEF CountsFit
<1>3. d >= 1
  <2>1. size >= k
    BY DEF CountsFit
  <2>2. size % k \in 0 .. k - 1 /\ d * k + (size % k) = size
    BY <1>1, Z3
  <2>3. ASSUME d = 0 PROVE FALSE
    <3>1. d * k = 0
      BY <1>1, <2>3
    <3> QED BY <1>1, <2>1, <2>2, <3>1
  <2> QED BY <1>2, <2>3
<1>4. n = d - 1 /\ n \in Nat
  BY <1>1, <1>2, <1>3, SmallMod DEF extentBlockCount
<1>5. B \in Nat /\ n <= B * k /\ B * k < n + k
  BY <1>4, BitmapCovers
<1>6. B * k \in Nat /\ B * k < U32
  BY <1>1, <1>2, <1>4, <1>5
<1>7. (B * k) % U32 = B * k
  BY <1>1, <1>6, SmallMod
<1>8. /\ BuildLayout(size).extent_blocks.block_count = n
      /\ BuildLayout(size).extent_bit_map.block_count = B
  BY DEF BuildLayout
<1> QED BY <1>5, <1>7, <1>8 DEF ManagerAccepts

\* On a device for which MetadataFits, the subtraction that pads the metadata
\* up to the first extent does not wrap, and the regions lie in order.
LEMMA LayoutInOrder ==
    ASSUME NEW size \in Nat, MetadataFits(size)
    PROVE  RegionsInOrder(BuildLayout(size))
<1> DEFINE L == BuildLayout(size)
           B == BitmapBlockCount(extentBlockCount(size))
           super == k_start_padding_block_count
           padding == super + 2 + B
<1>1. B \in Nat /\ super \in Nat
  BY ExtentCountType, BitmapCovers, LayoutAssumption
<1>2. meta_blocks \in Nat /\ meta_blocks < U64
  <2>1. /\ k_extent_block_size \in Nat /\ k_block_size \in Nat /\ k_block_size > 0
        /\ k_extent_block_size < U64 /\ U64 \in Nat
    BY LayoutAssumption
  <2>2. /\ k_extent_block_size \div k_block_size \in Nat
        /\ k_extent_block_size \div k_block_size <= k_extent_block_size
    BY <2>1, Z3
  <2> QED BY <2>1, <2>2 DEF meta_blocks
<1>3. padding <= meta_blocks
  BY DEF MetadataFits
<1>4. (meta_blocks - padding) % U64 = meta_blocks - padding
  BY <1>1, <1>2, <1>3, LayoutAssumption, SmallMod
<1>5. (padding + (meta_blocks - padding)) % U64 = meta_blocks
  <2>1. padding + (meta_blocks - padding) = meta_blocks
    BY <1>1, <1>2
  <2> QED BY <1>2, <2>1, LayoutAssumption, SmallMod
<1>6. /\ L.super_block = [block_index |-> super, block_count |-> 1]
      /\ L.super_block_backup = [block_index |-> super + 1, block_count |-> 1]
      /\ L.extent_bit_map = [block_index |-> super + 1 + 1, block_count |-> B]
      /\ L.extent_blocks.block_index =
            (super + 1 + 1 + B + ((meta_blocks - (super + 1 + 1 + B)) % U64)) % U64
  BY DEF BuildLayout
<1>7. super + 1 + 1 + B = padding
  BY <1>1
<1>8. L.extent_blocks.block_index = meta_blocks
  BY <1>4, <1>5, <1>6, <1>7
<1> QED BY <1>1, <1>2, <1>3, <1>6, <1>8 DEF RegionsInOrder, End

\* On any other device the subtraction wraps, and the extents begin at the block
\* at which they always begin, in front of the end of the bitmap.
LEMMA LayoutOutOfOrder ==
    ASSUME NEW size \in Nat, ~MetadataFits(size)
    PROVE  ~RegionsInOrder(BuildLayout(size))
<1> DEFINE L == BuildLayout(size)
           n == extentBlockCount(size)
           B == BitmapBlockCount(n)
           super == k_start_padding_block_count
           padding == super + 1 + 1 + B
           U == U64
<1>1. n \in Nat /\ n < U32 /\ B \in Nat /\ super \in Nat
  BY ExtentCountType, BitmapCovers, LayoutAssumption
<1>2. B <= n
  <2>1. k_block_data_size \in Nat /\ k_block_data_size > 0
    BY LayoutAssumption
  <2>2. B * k_block_data_size < n + k_block_data_size
    BY <1>1, BitmapCovers
  <2>3. ASSUME B >= n + 1 PROVE FALSE
    <3>1. B * k_block_data_size >= (n + 1) * k_block_data_size
      BY <1>1, <2>1, <2>3, ProductGrows
    <3>2. (n + 1) * k_block_data_size = n * k_block_data_size + k_block_data_size
      BY <1>1, <2>1
    <3>3. n * k_block_data_size >= n
      <4>1. n * k_block_data_size >= n * 1
        BY <1>1, <2>1, ProductGrowsRight
      <4> QED BY <1>1, <4>1
    <3>4. n * k_block_data_size \in Int /\ B * k_block_data_size \in Int
      BY <1>1, <2>1
    <3> QED BY <1>1, <2>1, <2>2, <3>1, <3>2, <3>3, <3>4
  <2> QED BY <1>1, <2>3
<1>3. meta_blocks \in Nat
  BY LayoutAssumption, Z3 DEF meta_blocks
<1>4. U \in Nat /\ padding \in Nat /\ padding > meta_blocks /\ padding < U
  BY <1>1, <1>2, <1>3, LayoutAssumption DEF MetadataFits
<1> HIDE DEF U, n
<1>5. (meta_blocks - padding) % U = meta_blocks - padding + U
  <2>1. meta_blocks - padding + U \in Nat /\ meta_blocks - padding + U < U
    BY <1>3, <1>4
  <2> QED BY <1>3, <1>4, <2>1, Z3
<1>6. (padding + (meta_blocks - padding + U)) % U = (meta_blocks + U) % U
  BY <1>3, <1>4
<1>7. meta_blocks < U
  BY <1>3, <1>4
<1>8. (meta_blocks + U) % U = meta_blocks
  BY <1>3, <1>4, <1>7, Z3
<1>9. /\ L.extent_bit_map = [block_index |-> super + 1 + 1, block_count |-> B]
      /\ L.extent_blocks.block_index = (padding + ((meta_blocks - padding) % U)) % U
  BY DEF BuildLayout, U, n
<1>10. L.extent_blocks.block_index = meta_blocks
  BY <1>5, <1>6, <1>8, <1>9
<1> QED BY <1>1, <1>3, <1>4, <1>9, <1>10 DEF RegionsInOrder, End

-----------------------------------------------------------------------------
(* MakeFS.                                                                 *)

\* The layout that is kept is the one of the capacity that is noted, and a
\* MakeFS that is under way or was answered OK has one.
LayoutKept ==
    /\ TypeOK
    /\ stage = "open" \/ answer = OK => layout = BuildLayout(device_capacity_)

\* LayoutKept holds in every state, whatever the operating system answers.
THEOREM MakeFSInvariant == Spec => []LayoutKept
<1>1. Init => LayoutKept
  BY DEF Init, LayoutKept, TypeOK, OK
<1>2. LayoutKept /\ [Next]_vars => LayoutKept'
  <2> SUFFICES ASSUME LayoutKept, [Next]_vars PROVE LayoutKept'
    OBVIOUS
  <2>1. ASSUME NEW p \in BOOLEAN, NEW mounted \in IsDeviceMounted,
               NEW uuid \in GetDeviceUUID, NEW size \in GetDeviceSize,
               MakeFSRefused(p, mounted, uuid, size)
        PROVE  LayoutKept'
    <3>1. Check(p, mounted, uuid, size) \in
            {CodeError, FileNotExist, FileSystemError, AlreadyMounted, TooSmall}
      BY <2>1 DEF MakeFSRefused, Check, GetDeviceUUID
    <3>2. answer' = Check(p, mounted, uuid, size) /\ answer' # OK
      BY <2>1 DEF MakeFSRefused
    <3> QED BY <2>1, <3>1, <3>2 DEF MakeFSRefused, LayoutKept, TypeOK
  <2>2. ASSUME NEW p \in BOOLEAN, NEW mounted \in IsDeviceMounted,
               NEW uuid \in GetDeviceUUID, NEW size \in GetDeviceSize,
               MakeFS(p, mounted, uuid, size)
        PROVE  LayoutKept'
    <3>1. size # NoSize
      BY <2>2 DEF MakeFS, Check, OK, CodeError, FileNotExist, AlreadyMounted
    <3>2. size \in DeviceSizes \cup {0}
      BY <3>1 DEF GetDeviceSize
    <3> QED BY <2>2, <3>2 DEF MakeFS, LayoutKept, TypeOK
  <2>3. CASE OpenDeviceFailed
    BY <2>3 DEF OpenDeviceFailed, LayoutKept, TypeOK, OpenFailed, OK
  <2>4. CASE OpenDevice
    BY <2>4 DEF OpenDevice, LayoutKept, TypeOK
  <2>5. CASE UNCHANGED vars
    BY <2>5 DEF vars, LayoutKept, TypeOK
  <2> QED BY <2>1, <2>2, <2>3, <2>4, <2>5 DEF Next
<1> QED BY <1>1, <1>2, PTL DEF Spec

\* The part of it that TLC checks as TypeOK: whatever path a MakeFS takes, a layout
\* that is kept is that of the capacity noted in device_capacity_.
THEOREM MakeFSTypeCorrect == Spec => []TypeOK
BY MakeFSInvariant, PTL DEF LayoutKept

\* For every device whose extent count fits in the machine word, the extent
\* manager's Init accepts the layout that MakeFS made.
THEOREM MadeLayoutIsAcceptedHolds == Spec => []MadeLayoutIsAccepted
<1>1. LayoutKept => MadeLayoutIsAccepted
  <2> SUFFICES ASSUME LayoutKept, answer = OK, CountsFit(device_capacity_)
               PROVE  ManagerAccepts(layout)
    BY DEF MadeLayoutIsAccepted
  <2>1. device_capacity_ \in Nat /\ layout = BuildLayout(device_capacity_)
    BY SizesAssumption DEF LayoutKept, TypeOK
  <2> QED BY <2>1, LayoutAccepted
<1> QED BY <1>1, MakeFSInvariant, PTL

\* For every device: the regions of the layout that MakeFS made lie in order if
\* the bitmap fits in front of the extents, and only then.
THEOREM MadeRegionsInOrderHolds == Spec => []MadeRegionsInOrder
<1>1. LayoutKept => MadeRegionsInOrder
  <2> SUFFICES ASSUME LayoutKept, answer = OK
               PROVE  RegionsInOrder(layout) <=> MetadataFits(device_capacity_)
    BY DEF MadeRegionsInOrder
  <2>1. device_capacity_ \in Nat /\ layout = BuildLayout(device_capacity_)
    BY SizesAssumption DEF LayoutKept, TypeOK
  <2> QED BY <2>1, LayoutInOrder, LayoutOutOfOrder
<1> QED BY <1>1, MakeFSInvariant, PTL

\* A device of the least size has extents for at least one bitmap block, and no
\* device has more bitmap blocks than extents.
LEMMA BitmapIsSmaller ==
    ASSUME NEW n \in Nat, n # 0
    PROVE  BitmapBlockCount(n) \in 1 .. n
<1> DEFINE k == k_block_data_size
           B == BitmapBlockCount(n)
<1>1. k \in Nat /\ k > 0
  BY LayoutAssumption
<1>2. B \in Nat /\ n <= B * k /\ B * k < n + k
  BY BitmapCovers
<1> HIDE DEF k, B
<1>3. B # 0
  <2>1. ASSUME B = 0 PROVE FALSE
    <3>1. B * k = 0
      BY <1>1, <2>1
    <3> QED BY <1>2, <3>1
  <2> QED BY <2>1
<1>4. B <= n
  <2>1. ASSUME n + 1 <= B PROVE FALSE
    <3>1. (n + 1) * k <= B * k
      BY <1>1, <1>2, <2>1, ProductGrows
    <3>2. (n + 1) * k = n * k + k /\ n * k >= n
      BY <1>1
    <3> QED BY <1>1, <1>2, <3>1, <3>2
  <2> QED BY <1>2, <2>1
<1> QED BY <1>2, <1>3, <1>4 DEF B

\* The counts of a layout are what PancakeExtentManager is taken to be given
\* (SizeAssumption): extents, at least one and at most one bitmap block for each,
\* and entries for all of them.
SuitsManager(L) ==
    LET extents == L.extent_blocks.block_count
        bitmap_blocks == L.extent_bit_map.block_count
    IN  /\ extents \in Nat \ {0}
        /\ bitmap_blocks \in 1 .. extents
        /\ ManagerAccepts(L)

\* A MakeFS that was answered OK has made a layout on which the extent manager can
\* be started, the least size that it accepts being that of two data blocks or more.
THEOREM MadeLayoutSuitsManager ==
    ASSUME 2 * k_block_data_size <= k_min_device_size
    PROVE  Spec => [](answer = OK /\ CountsFit(device_capacity_) => SuitsManager(layout))
<1> DEFINE Suits == answer = OK /\ CountsFit(device_capacity_) => SuitsManager(layout)
           LargeEnough == stage = "open" \/ answer = OK => device_capacity_ >= k_min_device_size
<1>1. Init => LargeEnough
  BY DEF Init, OK
<1>2. LayoutKept /\ LargeEnough /\ [Next]_vars => LargeEnough'
  <2> SUFFICES ASSUME LayoutKept, LargeEnough, [Next]_vars PROVE LargeEnough'
    OBVIOUS
  <2>1. ASSUME NEW p \in BOOLEAN, NEW mounted \in IsDeviceMounted,
               NEW uuid \in GetDeviceUUID, NEW size \in GetDeviceSize,
               MakeFSRefused(p, mounted, uuid, size)
        PROVE  LargeEnough'
    BY <2>1 DEF MakeFSRefused
  <2>2. ASSUME NEW p \in BOOLEAN, NEW mounted \in IsDeviceMounted,
               NEW uuid \in GetDeviceUUID, NEW size \in GetDeviceSize,
               MakeFS(p, mounted, uuid, size)
        PROVE  LargeEnough'
    <3>1. ~(size < k_min_device_size) /\ size # NoSize
      BY <2>2 DEF MakeFS, Check, OK, TooSmall, CodeError, FileNotExist, AlreadyMounted
    <3>2. size \in DeviceSizes \cup {0}
      BY <2>2, <3>1 DEF GetDeviceSize
    <3>3. size \in Nat
      BY <3>2, SizesAssumption
    <3> QED BY <2>2, <3>1, <3>3, SizesAssumption DEF MakeFS
  <2>3. CASE OpenDeviceFailed
    BY <2>3 DEF OpenDeviceFailed, OpenFailed, OK
  <2>4. CASE OpenDevice
    BY <2>4 DEF OpenDevice
  <2>5. CASE UNCHANGED vars
    BY <2>5 DEF vars
  <2> QED BY <2>1, <2>2, <2>3, <2>4, <2>5 DEF Next
<1>3. LayoutKept /\ LargeEnough => Suits
  <2> SUFFICES ASSUME LayoutKept, LargeEnough, answer = OK, CountsFit(device_capacity_)
               PROVE  SuitsManager(layout)
    OBVIOUS
  <2> DEFINE size == device_capacity_
             k == k_block_data_size
             d == size \div k
             n == extentBlockCount(size)
             B == BitmapBlockCount(n)
  <2>1. size \in Nat /\ layout = BuildLayout(size) /\ size >= 2 * k
    BY SizesAssumption, LayoutAssumption DEF LayoutKept, TypeOK
  <2>2. k \in Nat /\ k > 0 /\ U32 \in Nat
    BY LayoutAssumption
  <2>3. d \in Nat /\ d + k <= U32
    BY <2>1, <2>2, Z3 DEF CountsFit
  <2>4. d >= 2
    <3>1. size % k \in 0 .. k - 1 /\ d * k + (size % k) = size
      BY <2>1, <2>2, Z3
    <3>2. ASSUME d <= 1 PROVE FALSE
      <4>1. d * k <= 1 * k
        BY <2>2, <2>3, <3>2, ProductGrows
      <4> QED BY <2>1, <2>2, <3>1, <4>1
    <3> QED BY <2>3, <3>2
  <2>5. n = d - 1 /\ n \in Nat /\ n # 0
    BY <2>2, <2>3, <2>4, SmallMod DEF extentBlockCount
  <2>6. B \in 1 .. n
    BY <2>5, BitmapIsSmaller
  <2>7. layout.extent_blocks.block_count = n /\ layout.extent_bit_map.block_count = B
    BY <2>1 DEF BuildLayout
  <2>8. ManagerAccepts(layout)
    BY <2>1, LayoutAccepted
  <2> QED BY <2>5, <2>6, <2>7, <2>8 DEF SuitsManager
<1> QED BY <1>1, <1>2, <1>3, MakeFSInvariant, PTL DEF Spec
=============================================================================
