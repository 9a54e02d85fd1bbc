--------------------- MODULE PancakeExtentManagerProofs ---------------------
(***************************************************************************)
(* Proofs about PancakeExtentManager, for every device size, every number  *)
(* of extents and calls, and whatever Deserialize makes of an own header.  *)
(***************************************************************************)
EXTENDS PancakeExtentManager, TLAPS

-----------------------------------------------------------------------------
(* Arithmetic of the bitmap blocks.                                        *)

\* bitmapIndex and InnerIndex: a slot is the entry InnerIndex of the bitmap
\* block bitmapIndex, counted from the block's first slot.
LEMMA SlotPlace ==
    ASSUME NEW i \in Slots
    PROVE  /\ bitmapIndex(i) \in BitmapBlocks
           /\ InnerIndex(i) \in Entries
           /\ bitmapIndex(i) * k_block_data_size + InnerIndex(i) = i
<1> DEFINE k == k_block_data_size
<1>1. k \in Nat /\ k > 0 /\ i \in Nat
  BY SizeAssumption DEF Slots
<1>2. i \div k \in Nat /\ i % k \in 0 .. k - 1 /\ (i \div k) * k + (i % k) = i
  BY <1>1, Z3
<1>3. i \div k < bitmap_block_count
  <2>1. i < bitmap_block_count * k
    <3> DEFINE p == bitmap_block_count * k
    <3>1. p \in Nat /\ extent_block_count <= p % U32 /\ U32 \in Nat /\ U32 > 0
      BY SizeAssumption DEF InitAccepts
    <3> HIDE DEF p
    <3>2. p % U32 <= p /\ p % U32 \in Nat
      BY <3>1, Z3
    <3> QED BY <3>1, <3>2, SizeAssumption DEF Slots, p
  <2>2. (i \div k) * k < bitmap_block_count * k
    BY <1>1, <1>2, <2>1, SizeAssumption
  <2> QED BY <1>1, <1>2, <2>2, SizeAssumption
<1> QED BY <1>1, <1>2, <1>3, SizeAssumption DEF bitmapIndex, InnerIndex, BitmapBlocks, Entries

\* ... and of no other entry: two slots never share a byte of a bitmap block.
LEMMA PlaceUnique ==
    ASSUME NEW i \in Slots, NEW b \in BitmapBlocks, NEW e \in Entries,
           b * k_block_data_size + e = i
    PROVE  b = bitmapIndex(i) /\ e = InnerIndex(i)
<1> DEFINE k == k_block_data_size
           q == bitmapIndex(i)
           r == InnerIndex(i)
<1>1. /\ k \in Nat /\ k > 0 /\ q \in Nat /\ b \in Nat
      /\ r \in 0 .. k - 1 /\ e \in 0 .. k - 1
      /\ q * k + r = b * k + e
  BY SlotPlace, SizeAssumption DEF BitmapBlocks, Entries
<1> HIDE DEF k, q, r
<1>2. ~(q < b)
  <2> SUFFICES ASSUME q < b PROVE FALSE
    OBVIOUS
  <2>1. q + 1 <= b
    BY <1>1
  <2>2. (q + 1) * k <= b * k
    BY <1>1, <2>1
  <2> QED BY <1>1, <2>2
<1>3. ~(b < q)
  <2> SUFFICES ASSUME b < q PROVE FALSE
    OBVIOUS
  <2>1. b + 1 <= q
    BY <1>1
  <2>2. (b + 1) * k <= q * k
    BY <1>1, <2>1
  <2> QED BY <1>1, <2>2
<1>4. b = q
  BY <1>1, <1>2, <1>3
<1>5. e = r
  BY <1>1, <1>4
<1> QED BY <1>4, <1>5 DEF q, r

-----------------------------------------------------------------------------
(* Types.                                                                  *)

\* The search of AddExtent stays inside bitmap_: cursor_ is below
\* bitmap_block_count, which is at most extent_block_count.
LEMMA VisitedInRange ==
    ASSUME TypeOK, NEW k \in Turns
    PROVE  Visited(k) \in 0 .. bitmap_block_count - 1 /\ Visited(k) \in Slots
<1>1. cursor_ + k \in Nat
  BY DEF TypeOK, Turns
<1>2. (cursor_ + k) % bitmap_block_count \in 0 .. bitmap_block_count - 1
  BY <1>1, SizeAssumption
<1> QED BY <1>2, SizeAssumption DEF Visited, Slots

\* The initial states are well typed.
LEMMA TypeInit == Init => TypeOK
<1> SUFFICES ASSUME Init PROVE TypeOK
  OBVIOUS
<1>1. NoReply \in ErrorCode
  BY DEF ErrorCode
<1>2. \A id \in ExtentIds : ForeignHeader(id) \in HeaderBlock
  BY DEF ForeignHeader, HeaderBlock
<1>3. JunkHeader \in HeaderBlock /\ JunkBitmap \in BitMapBlock
  BY DEF JunkHeader, HeaderBlock, JunkBitmap, BitMapBlock
<1>4. headers \in [Slots -> HeaderBlock]
  BY <1>2, <1>3 DEF Init
<1>5. req \in [Calls -> [op : Ops, id : ExtentIds \cup {NoExtent}, index : Slots \cup {NoIndex}]]
  BY DEF Init, NoRequest, Ops
<1>6. reply \in [Calls -> [code : ErrorCode, value : Int]]
  BY <1>1 DEF Init, NoIndex
<1>7. bitmaps \in [BitmapBlocks -> BitMapBlock]
  BY <1>3 DEF Init
<1>8. mutex_ \in Seq(Calls)
  BY DEF Init
<1>13. up \in BOOLEAN
  BY DEF Init
<1>9. bitmap_ \in SUBSET Slots /\ synced \in SUBSET BitmapBlocks
  BY DEF Init
<1>10. cursor_ \in 0 .. bitmap_block_count /\ used_cnt_ \in 0 .. extent_block_count
  BY SizeAssumption DEF Init
<1>11. /\ extent_offset_map_ \in [ExtentIds -> Slots \cup {NoIndex}]
       /\ acked \in [ExtentIds -> Slots \cup {NoIndex}]
  BY DEF Init
<1>12. /\ pc \in [Calls -> {"idle", "queued", "header", "read", "bitmap"}]
       /\ buf \in [Calls -> SUBSET Entries]
  BY DEF Init
<1> QED BY <1>4, <1>5, <1>6, <1>7, <1>8, <1>9, <1>10, <1>11, <1>12, <1>13 DEF TypeOK

\* Invoke, Return and Await keep the types of the state of the calls.
LEMMA InvokeType ==
    ASSUME TypeOK, NEW c \in Calls, NEW op \in Ops, NEW id \in ExtentIds \cup {NoExtent},
           NEW index \in Slots \cup {NoIndex}, Invoke(c, op, id, index)
    PROVE  TypeOK'
<1>1. [op |-> op, id |-> id, index |-> index]
        \in [op : Ops, id : ExtentIds \cup {NoExtent}, index : Slots \cup {NoIndex}]
  OBVIOUS
<1>2. [code |-> NoReply, value |-> NoIndex] \in [code : ErrorCode, value : Int]
  BY DEF ErrorCode, NoIndex
<1>3. req' \in [Calls -> [op : Ops, id : ExtentIds \cup {NoExtent}, index : Slots \cup {NoIndex}]]
  BY <1>1 DEF Invoke, TypeOK
<1>4. reply' \in [Calls -> [code : ErrorCode, value : Int]]
  BY <1>2 DEF Invoke, TypeOK
<1>5. mutex_' \in Seq(Calls)
  BY DEF Invoke, TypeOK
<1>6. pc' \in [Calls -> {"idle", "queued", "header", "read", "bitmap"}]
  BY DEF Invoke, TypeOK
<1> QED BY <1>3, <1>4, <1>5, <1>6 DEF Invoke, TypeOK, memory, device, history

\* Return: the answer is an error code and an index, the lock loses its head.
LEMMA ReturnType ==
    ASSUME TypeOK, NEW c \in Calls, NEW code \in ErrorCode, NEW value \in Int,
           Holds(c), Return(c, code, value)
    PROVE  /\ mutex_' \in Seq(Calls)
           /\ pc' \in [Calls -> {"idle", "queued", "header", "read", "bitmap"}]
           /\ req' \in [Calls -> [op : Ops, id : ExtentIds \cup {NoExtent},
                                  index : Slots \cup {NoIndex}]]
           /\ buf' \in [Calls -> SUBSET Entries]
           /\ reply' \in [Calls -> [code : ErrorCode, value : Int]]
<1>1. mutex_' \in Seq(Calls)
  BY DEF TypeOK, Holds, Return
<1>2. NoRequest \in [op : Ops, id : ExtentIds \cup {NoExtent}, index : Slots \cup {NoIndex}]
  BY DEF NoRequest, Ops
<1>3. [code |-> code, value |-> value] \in [code : ErrorCode, value : Int]
  OBVIOUS
<1> QED BY <1>1, <1>2, <1>3 DEF TypeOK, Return

\* What a torn or successful write leaves on the device is a block.
LEMMA DeviceType ==
    ASSUME TypeOK, NEW c \in Calls
    PROVE  /\ TornHeader(c) => headers' \in [Slots -> HeaderBlock]
           /\ \A m \in {bitmaps[bitmapIndex(req[c].index)], BitmapOf(buf[c]), JunkBitmap} :
                [bitmaps EXCEPT ![bitmapIndex(req[c].index)] = m]
                    \in [BitmapBlocks -> BitMapBlock]
<1>1. JunkHeader \in HeaderBlock /\ JunkBitmap \in BitMapBlock
  BY DEF JunkHeader, HeaderBlock, JunkBitmap, BitMapBlock
<1>2. HeaderFor(req[c].id, req[c].index) \in HeaderBlock
  BY DEF HeaderFor, HeaderBlock, TypeOK
<1>3. BitmapOf(buf[c]) \in BitMapBlock
  BY DEF BitmapOf, BitMapBlock, TypeOK
<1>4. TornHeader(c) => headers' \in [Slots -> HeaderBlock]
  <2> SUFFICES ASSUME TornHeader(c) PROVE headers' \in [Slots -> HeaderBlock]
    OBVIOUS
  <2>1. PICK h \in {headers[req[c].index], HeaderFor(req[c].id, req[c].index), JunkHeader} :
           headers' = [headers EXCEPT ![req[c].index] = h]
    BY DEF TornHeader
  <2>2. CASE req[c].index \in Slots
    <3>1. h \in HeaderBlock
      BY <1>1, <1>2, <2>2 DEF TypeOK
    <3> QED BY <2>1, <3>1 DEF TypeOK
  <2>3. CASE req[c].index \notin Slots
    BY <2>1, <2>3 DEF TypeOK
  <2> QED BY <2>2, <2>3
<1>5. ASSUME NEW m \in {bitmaps[bitmapIndex(req[c].index)], BitmapOf(buf[c]), JunkBitmap}
      PROVE  [bitmaps EXCEPT ![bitmapIndex(req[c].index)] = m] \in [BitmapBlocks -> BitMapBlock]
  <2>1. CASE bitmapIndex(req[c].index) \in BitmapBlocks
    <3>1. m \in BitMapBlock
      BY <1>1, <1>3, <2>1 DEF TypeOK
    <3> QED BY <3>1 DEF TypeOK
  <2>2. CASE bitmapIndex(req[c].index) \notin BitmapBlocks
    BY <2>2 DEF TypeOK
  <2> QED BY <2>1, <2>2
<1> QED BY <1>4, <1>5

\* LoseMemory leaves a well typed, empty memory.
LEMMA LoseMemoryType ==
    ASSUME TypeOK, LoseMemory, synced' = {},
           headers' \in [Slots -> HeaderBlock], bitmaps' \in [BitmapBlocks -> BitMapBlock]
    PROVE  TypeOK'
<1>1. req' \in [Calls -> [op : Ops, id : ExtentIds \cup {NoExtent}, index : Slots \cup {NoIndex}]]
  BY DEF LoseMemory, NoRequest, Ops
<1>2. reply' \in [Calls -> [code : ErrorCode, value : Int]]
  <2>1. [code |-> NoReply, value |-> NoIndex] \in [code : ErrorCode, value : Int]
    BY DEF ErrorCode, NoIndex
  <2> QED BY <2>1 DEF LoseMemory
<1>3. up' \in BOOLEAN
  BY DEF LoseMemory
<1>4. mutex_' \in Seq(Calls)
  BY DEF LoseMemory
<1>5. bitmap_' \in SUBSET Slots /\ synced' \in SUBSET BitmapBlocks
  BY DEF LoseMemory
<1>6. cursor_' \in 0 .. bitmap_block_count /\ used_cnt_' \in 0 .. extent_block_count
  BY SizeAssumption DEF LoseMemory
<1>7. /\ extent_offset_map_' \in [ExtentIds -> Slots \cup {NoIndex}]
      /\ acked' \in [ExtentIds -> Slots \cup {NoIndex}]
  BY DEF LoseMemory, TypeOK
<1>8. /\ pc' \in [Calls -> {"idle", "queued", "header", "read", "bitmap"}]
      /\ buf' \in [Calls -> SUBSET Entries]
  BY DEF LoseMemory
<1> QED BY <1>1, <1>2, <1>3, <1>4, <1>5, <1>6, <1>7, <1>8 DEF TypeOK

\* Every step keeps the types.  It needs CallsWellFormed: the slot a call sets
\* in bitmap_ is one it took or checked before.
LEMMA TypeStep ==
    ASSUME TypeOK, CallsWellFormed, [Next]_vars
    PROVE  TypeOK'
<1> USE DEF memory, device, history, calls
<1>1. CASE Start
  <2>1. up' \in BOOLEAN
    BY <1>1 DEF Start
  <2>2. cursor_' \in 0 .. bitmap_block_count /\ used_cnt_' \in 0 .. extent_block_count
    BY <1>1, SizeAssumption DEF Start
  <2> QED BY <1>1, <2>1, <2>2 DEF Start, TypeOK
<1>2. CASE CrashQuiet
  <2>1. headers' = headers /\ bitmaps' = bitmaps
    BY <1>2 DEF CrashQuiet
  <2> QED BY <1>2, <2>1, LoseMemoryType DEF CrashQuiet, TypeOK
<1>3. ASSUME NEW c \in Calls, CrashInHeaderWrite(c) PROVE TypeOK'
  <2>1. headers' \in [Slots -> HeaderBlock] /\ bitmaps' = bitmaps
    BY <1>3, DeviceType DEF CrashInHeaderWrite
  <2> QED BY <1>3, <2>1, LoseMemoryType DEF CrashInHeaderWrite, TypeOK
<1>4. ASSUME NEW c \in Calls, CrashInBitmapWrite(c) PROVE TypeOK'
  <2>1. headers' = headers /\ bitmaps' \in [BitmapBlocks -> BitMapBlock]
    BY <1>4, DeviceType DEF CrashInBitmapWrite
  <2> QED BY <1>4, <2>1, LoseMemoryType DEF CrashInBitmapWrite, TypeOK
<1>5. ASSUME NEW c \in Calls, NEW id \in ExtentIds, AddExtent(c, id) PROVE TypeOK'
  BY <1>5, InvokeType DEF AddExtent, Ops
<1>6. ASSUME NEW c \in Calls, NEW id \in ExtentIds, NEW i \in Slots, DelExtent(c, id, i)
      PROVE  TypeOK'
  BY <1>6, InvokeType DEF DelExtent, Ops
<1>7. ASSUME NEW c \in Calls, CurrentAllocCount(c) \/ CurrentFreeCount(c) PROVE TypeOK'
  BY <1>7, InvokeType DEF CurrentAllocCount, CurrentFreeCount, Ops
<1>8. ASSUME NEW c \in Calls, AddRefused(c) PROVE TypeOK'
  <2>1. AddRefusal(req[c].id) \in ErrorCode
    BY DEF AddRefusal, ErrorCode
  <2>2. NoIndex \in Int /\ extent_block_count - 1 \in Turns
    BY SizeAssumption DEF NoIndex, Turns
  <2>3. cursor_' \in 0 .. bitmap_block_count
    BY <1>8, <2>2, VisitedInRange, SizeAssumption DEF AddRefused, TypeOK
  <2> QED BY <1>8, <2>1, <2>2, <2>3, ReturnType DEF AddRefused, In, TypeOK
<1>9. ASSUME NEW c \in Calls, AddAllocate(c) PROVE TypeOK'
  <2>1. PICK k \in Turns : /\ cursor_' = Visited(k) + 1
                           /\ req' = [req EXCEPT ![c].index = Visited(k)]
    BY <1>9 DEF AddAllocate
  <2>2. cursor_' \in 0 .. bitmap_block_count
    BY <2>1, VisitedInRange, SizeAssumption
  <2>3. req' \in [Calls -> [op : Ops, id : ExtentIds \cup {NoExtent}, index : Slots \cup {NoIndex}]]
    BY <2>1, VisitedInRange DEF TypeOK
  <2> QED BY <1>9, <2>2, <2>3 DEF AddAllocate, Await, TypeOK
<1>10. ASSUME NEW c \in Calls, AddHeaderFailed(c) PROVE TypeOK'
  <2>1. WriteFailed \in ErrorCode /\ req[c].index \in Int
    BY DEF ErrorCode, TypeOK, NoIndex, Slots
  <2> QED BY <1>10, <2>1, ReturnType, DeviceType DEF AddHeaderFailed, In, TypeOK
<1>11. ASSUME NEW c \in Calls, AddHeaderWritten(c) PROVE TypeOK'
  <2>1. req[c].index \in Slots
    BY <1>11 DEF AddHeaderWritten, In, CallsWellFormed
  <2>2. headers' \in [Slots -> HeaderBlock]
    BY <1>11 DEF AddHeaderWritten, HeaderFor, HeaderBlock, TypeOK
  <2>3. buf' \in [Calls -> SUBSET Entries]
    BY <1>11, <2>1, SlotPlace
    DEF AddHeaderWritten, CloneBitMapBlock, markExtentBlockUsed, TypeOK
  <2> QED BY <1>11, <2>2, <2>3 DEF AddHeaderWritten, Await, TypeOK
<1>12. ASSUME NEW c \in Calls, BitmapFailed(c) PROVE TypeOK'
  <2>1. WriteFailed \in ErrorCode /\ req[c].index \in Int
    BY DEF ErrorCode, TypeOK, NoIndex, Slots
  <2>2. bitmaps' \in [BitmapBlocks -> BitMapBlock] /\ synced' \in SUBSET BitmapBlocks
    BY <1>12, DeviceType DEF BitmapFailed, TornBitmap, TypeOK
  <2> QED BY <1>12, <2>1, <2>2, ReturnType DEF BitmapFailed, TypeOK
<1>13. ASSUME NEW c \in Calls, AddBitmapWritten(c) PROVE TypeOK'
  <2>1. req[c].index \in Slots /\ req[c].index \in Int /\ OK \in ErrorCode
    BY <1>13 DEF AddBitmapWritten, In, CallsWellFormed, Slots, ErrorCode
  <2>2. bitmaps' \in [BitmapBlocks -> BitMapBlock] /\ synced' \in SUBSET BitmapBlocks
    BY <1>13, <2>1, DeviceType, SlotPlace DEF AddBitmapWritten, WriteBitmap, TypeOK
  <2>3. bitmap_' \in SUBSET Slots
    BY <1>13, <2>1 DEF AddBitmapWritten, TypeOK
  <2> QED BY <1>13, <2>1, <2>2, <2>3, ReturnType DEF AddBitmapWritten, In, TypeOK
<1>14. ASSUME NEW c \in Calls, DelRead(c) PROVE TypeOK'
  BY <1>14 DEF DelRead, Await, TypeOK
<1>15. ASSUME NEW c \in Calls, DelReadFailed(c) PROVE TypeOK'
  <2>1. ReadFailed \in ErrorCode /\ req[c].index \in Int
    BY DEF ErrorCode, TypeOK, NoIndex, Slots
  <2> QED BY <1>15, <2>1, ReturnType DEF DelReadFailed, In, TypeOK
<1>16. ASSUME NEW c \in Calls, DelRejected(c) PROVE TypeOK'
  <2>1. Deserialize(headers[req[c].index]) \subseteq ErrorCode
    BY CodecAssumption DEF Deserialize, ErrorCode
  <2>2. InternalError \in ErrorCode /\ req[c].index \in Int
    BY DEF ErrorCode, TypeOK, NoIndex, Slots
  <2>3. PICK code \in ErrorCode : Return(c, code, req[c].index)
    BY <1>16, <2>1, <2>2 DEF DelRejected
  <2> QED BY <1>16, <2>2, <2>3, ReturnType DEF DelRejected, In, TypeOK
<1>17. ASSUME NEW c \in Calls, DelChecked(c) PROVE TypeOK'
  <2>1. buf' \in [Calls -> SUBSET Entries]
    BY <1>17 DEF DelChecked, CloneBitMapBlock, markExtentBlockUnused, TypeOK
  <2>2. acked' \in [ExtentIds -> Slots \cup {NoIndex}]
    BY <1>17 DEF DelChecked, TypeOK
  <2> QED BY <1>17, <2>1, <2>2 DEF DelChecked, Await, TypeOK
<1>18. ASSUME NEW c \in Calls, DelBitmapWritten(c) PROVE TypeOK'
  <2>1. req[c].index \in Slots /\ req[c].index \in Int /\ OK \in ErrorCode
    BY <1>18 DEF DelBitmapWritten, In, CallsWellFormed, Slots, ErrorCode
  <2>2. bitmaps' \in [BitmapBlocks -> BitMapBlock] /\ synced' \in SUBSET BitmapBlocks
    BY <1>18, <2>1, DeviceType, SlotPlace DEF DelBitmapWritten, WriteBitmap, TypeOK
  <2> QED BY <1>18, <2>1, <2>2, ReturnType DEF DelBitmapWritten, In, TypeOK
<1>19. ASSUME NEW c \in Calls, CountAnswered(c) PROVE TypeOK'
  <2>1. OK \in ErrorCode /\ used_cnt_ \in Int /\ extent_block_count - used_cnt_ \in Int
    BY SizeAssumption DEF ErrorCode, TypeOK
  <2>2. PICK v \in Int : Return(c, OK, v)
    BY <1>19, <2>1 DEF CountAnswered
  <2> QED BY <1>19, <2>1, <2>2, ReturnType DEF CountAnswered, TypeOK
<1>20. CASE UNCHANGED vars
  BY <1>20 DEF vars, TypeOK
<1> QED
  BY <1>1, <1>2, <1>3, <1>4, <1>5, <1>6, <1>7, <1>8, <1>9, <1>10, <1>11, <1>12, <1>13,
     <1>14, <1>15, <1>16, <1>17, <1>18, <1>19, <1>20 DEF Next, Progress

-----------------------------------------------------------------------------
(* The lock and the requests.                                              *)

\* Mutual exclusion: while c holds the lock nobody else is past it.
LEMMA OthersWait ==
    ASSUME TypeOK, CallsWellFormed, NEW c \in Calls, Holds(c), NEW d \in Calls, d # c
    PROVE  pc[d] \in {"idle", "queued"}
BY DEF TypeOK, CallsWellFormed, Holds

\* Invoke appends to the queue of the lock: its head stays the head.
LEMMA InvokeCalls ==
    ASSUME TypeOK, CallsWellFormed, NEW c \in Calls, NEW op \in Ops,
           NEW id \in ExtentIds \cup {NoExtent}, NEW index \in Slots \cup {NoIndex},
           Invoke(c, op, id, index),
           op \in {"AddExtent", "DelExtent"} => id \in ExtentIds,
           op = "DelExtent" => index \in Slots
    PROVE  CallsWellFormed'
<1> SUFFICES ASSUME NEW d \in Calls PROVE CallsWellFormed!(d)'
  BY DEF CallsWellFormed
<1>1. up /\ up' = up
  BY DEF Invoke, memory
<1>2. pc[d] \in {"header", "read", "bitmap"} => d # c
  BY DEF Invoke
<1>3. pc'[d] = (IF d = c THEN "queued" ELSE pc[d])
  BY DEF Invoke, TypeOK
<1>4. req'[d] = (IF d = c THEN [op |-> op, id |-> id, index |-> index] ELSE req[d])
  BY DEF Invoke, TypeOK
<1>5. Holds(d) => Holds(d)'
  <2>1. ASSUME NEW m \in Seq(Calls), m # <<>>
        PROVE  Append(m, c) # <<>> /\ Head(Append(m, c)) = Head(m)
    BY <2>1
  <2> QED BY <2>1 DEF Invoke, Holds, TypeOK
<1> QED BY <1>1, <1>2, <1>3, <1>4, <1>5 DEF CallsWellFormed

\* Return takes away the only call that was past the lock.
LEMMA ReturnCalls ==
    ASSUME TypeOK, CallsWellFormed, NEW c \in Calls, NEW code, NEW value,
           Holds(c), Return(c, code, value), up' = up
    PROVE  CallsWellFormed'
<1> SUFFICES ASSUME NEW d \in Calls PROVE CallsWellFormed!(d)'
  BY DEF CallsWellFormed
<1>1. CASE d = c
  <2>1. pc'[d] = "idle"
    BY <1>1 DEF Return, TypeOK
  <2> QED BY <2>1
<1>2. CASE d # c
  <2>1. pc'[d] = pc[d] /\ req'[d] = req[d]
    BY <1>2 DEF Return, TypeOK
  <2>2. pc[d] \in {"idle", "queued"}
    BY <1>2, OthersWait
  <2> QED BY <2>1, <2>2 DEF CallsWellFormed
<1> QED BY <1>1, <1>2

\* No call outlives the process.
LEMMA LoseMemoryCalls ==
    ASSUME LoseMemory
    PROVE  CallsWellFormed'
BY DEF LoseMemory, CallsWellFormed

\* The holder goes on to its next await, with the request that belongs there.
LEMMA AwaitCalls ==
    ASSUME TypeOK, CallsWellFormed, NEW c \in Calls, Holds(c), pc[c] # "idle",
           NEW at \in {"header", "read", "bitmap"}, Await(c, at), up' = up,
           \A d \in Calls : d # c => req'[d] = req[d],
           at = "header" => req'[c].op = "AddExtent",
           at = "read" => req'[c].op = "DelExtent",
           req'[c].op \in {"AddExtent", "DelExtent"},
           req'[c].id \in ExtentIds,
           at # "read" \/ req'[c].op = "DelExtent" => req'[c].index \in Slots
    PROVE  CallsWellFormed'
<1> SUFFICES ASSUME NEW d \in Calls PROVE CallsWellFormed!(d)'
  BY DEF CallsWellFormed
<1>1. Holds(d)' <=> Holds(d)
  BY DEF Await, Holds
<1>2. CASE d = c
  <2>1. pc'[d] = at
    BY <1>2 DEF Await, TypeOK
  <2>2. up'
    BY DEF CallsWellFormed
  <2> QED BY <1>1, <1>2, <2>1, <2>2
<1>3. CASE d # c
  <2>1. pc'[d] = pc[d] /\ req'[d] = req[d]
    BY <1>3 DEF Await, TypeOK
  <2> QED BY <1>1, <2>1 DEF CallsWellFormed
<1> QED BY <1>2, <1>3

\* Every step keeps the lock and the requests in order.
LEMMA CallsStep ==
    ASSUME TypeOK, CallsWellFormed, [Next]_vars
    PROVE  CallsWellFormed'
<1> USE DEF memory, device, history, calls
<1>1. CASE Start
  <2>1. \A c \in Calls : pc[c] = "idle" /\ pc'[c] = "idle"
    BY <1>1 DEF Start, CallsWellFormed
  <2> QED BY <2>1 DEF CallsWellFormed
<1>2. CASE CrashQuiet
  BY <1>2, LoseMemoryCalls DEF CrashQuiet
<1>3. ASSUME NEW c \in Calls, CrashInHeaderWrite(c) \/ CrashInBitmapWrite(c)
      PROVE  CallsWellFormed'
  BY <1>3, LoseMemoryCalls DEF CrashInHeaderWrite, CrashInBitmapWrite
<1>4. ASSUME NEW c \in Calls, NEW id \in ExtentIds, AddExtent(c, id)
      PROVE  CallsWellFormed'
  BY <1>4, InvokeCalls DEF AddExtent, Ops
<1>5. ASSUME NEW c \in Calls, NEW id \in ExtentIds, NEW i \in Slots, DelExtent(c, id, i)
      PROVE  CallsWellFormed'
  BY <1>5, InvokeCalls DEF DelExtent, Ops
<1>6. ASSUME NEW c \in Calls, CurrentAllocCount(c) \/ CurrentFreeCount(c)
      PROVE  CallsWellFormed'
  BY <1>6, InvokeCalls DEF CurrentAllocCount, CurrentFreeCount, Ops
<1>7. ASSUME NEW c \in Calls, NEW code, NEW value, Holds(c), Return(c, code, value), up' = up
      PROVE  CallsWellFormed'
  BY <1>7, ReturnCalls
<1>8. ASSUME NEW c \in Calls, AddRefused(c) PROVE CallsWellFormed'
  BY <1>7, <1>8 DEF AddRefused, In
<1>9. ASSUME NEW c \in Calls, AddAllocate(c) PROVE CallsWellFormed'
  <2>1. PICK k \in Turns : req' = [req EXCEPT ![c].index = Visited(k)]
    BY <1>9 DEF AddAllocate
  <2>2. /\ req'[c].op = "AddExtent" /\ req'[c].id = req[c].id /\ req'[c].index \in Slots
        /\ \A d \in Calls : d # c => req'[d] = req[d]
    BY <1>9, <2>1, VisitedInRange DEF AddAllocate, In, TypeOK
  <2>3. req[c].id \in ExtentIds
    BY <1>9 DEF AddAllocate, In, CallsWellFormed
  <2> QED BY <1>9, <2>2, <2>3, AwaitCalls DEF AddAllocate, In
<1>10. ASSUME NEW c \in Calls, AddHeaderFailed(c) PROVE CallsWellFormed'
  BY <1>7, <1>10 DEF AddHeaderFailed, In
<1>11. ASSUME NEW c \in Calls, AddHeaderWritten(c) PROVE CallsWellFormed'
  <2>1. req[c].id \in ExtentIds /\ req[c].index \in Slots
    BY <1>11 DEF AddHeaderWritten, In, CallsWellFormed
  <2> QED BY <1>11, <2>1, AwaitCalls DEF AddHeaderWritten, In
<1>12. ASSUME NEW c \in Calls, BitmapFailed(c) PROVE CallsWellFormed'
  BY <1>7, <1>12 DEF BitmapFailed
<1>13. ASSUME NEW c \in Calls, AddBitmapWritten(c) PROVE CallsWellFormed'
  BY <1>7, <1>13 DEF AddBitmapWritten, In
<1>14. ASSUME NEW c \in Calls, DelRead(c) PROVE CallsWellFormed'
  <2>1. req[c].id \in ExtentIds /\ req[c].index \in Slots
    BY <1>14 DEF DelRead, In, CallsWellFormed
  <2> QED BY <1>14, <2>1, AwaitCalls DEF DelRead, In
<1>15. ASSUME NEW c \in Calls, DelReadFailed(c) PROVE CallsWellFormed'
  BY <1>7, <1>15 DEF DelReadFailed, In
<1>16. ASSUME NEW c \in Calls, DelRejected(c) PROVE CallsWellFormed'
  BY <1>7, <1>16 DEF DelRejected, In
<1>17. ASSUME NEW c \in Calls, DelChecked(c) PROVE CallsWellFormed'
  <2>1. req[c].id \in ExtentIds /\ req[c].index \in Slots
    BY <1>17 DEF DelChecked, In, CallsWellFormed
  <2> QED BY <1>17, <2>1, AwaitCalls DEF DelChecked, In
<1>18. ASSUME NEW c \in Calls, DelBitmapWritten(c) PROVE CallsWellFormed'
  BY <1>7, <1>18 DEF DelBitmapWritten, In
<1>19. ASSUME NEW c \in Calls, CountAnswered(c) PROVE CallsWellFormed'
  BY <1>7, <1>19 DEF CountAnswered
<1>20. CASE UNCHANGED vars
  BY <1>20 DEF vars, CallsWellFormed, Holds
<1> QED
  BY <1>1, <1>2, <1>3, <1>4, <1>5, <1>6, <1>8, <1>9, <1>10, <1>11, <1>12, <1>13,
     <1>14, <1>15, <1>16, <1>17, <1>18, <1>19, <1>20 DEF Next, Progress

\* TypeOK holds in every state the manager reaches, for every device size and
\* every set of extents and calls; with it, at most one call is past the lock.
THEOREM TypeCorrect == Spec => [](TypeOK /\ CallsWellFormed)
<1>1. Init => TypeOK /\ CallsWellFormed
  BY TypeInit DEF Init, CallsWellFormed
<1>2. TypeOK /\ CallsWellFormed /\ [Next]_vars => (TypeOK /\ CallsWellFormed)'
  BY TypeStep, CallsStep
<1> QED BY <1>1, <1>2, PTL DEF Spec

-----------------------------------------------------------------------------
(* The bitmap block a call writes.                                         *)

\* That the clone ends at extent_block_count cuts off nothing of bitmap_.
LEMMA CloneIsPart ==
    ASSUME NEW S \in SUBSET Slots, NEW b \in BitmapBlocks
    PROVE  LET start == b * k_block_data_size
           IN  {e \in Entries : start + e < extent_block_count /\ start + e \in S}
                 = {e \in Entries : start + e \in S}
<1>1. \A i \in S : i < extent_block_count
  BY SizeAssumption DEF Slots
<1> QED BY <1>1

\* An entry of a bitmap block stands for the slot with that place.
LEMMA CloneMember ==
    ASSUME TypeOK, NEW b \in BitmapBlocks, NEW j \in Slots
    PROVE  j \in bitmap_ /\ bitmapIndex(j) = b => InnerIndex(j) \in CloneBitMapBlock(b)
<1>1. j < extent_block_count
  BY SizeAssumption DEF Slots
<1> QED BY <1>1, SlotPlace DEF CloneBitMapBlock

\* cloneBitMapBlockWithoutLock followed by markExtentBlockUsed is the clone of
\* the bitmap in which the slot's bit is set; other blocks are not affected.
LEMMA CloneAdd ==
    ASSUME TypeOK, NEW i \in Slots, bitmap_' = bitmap_ \cup {i}, NEW b \in BitmapBlocks
    PROVE  CloneBitMapBlock(b)' =
               IF b = bitmapIndex(i) THEN markExtentBlockUsed(CloneBitMapBlock(b), i)
               ELSE CloneBitMapBlock(b)
<1>1. \A e \in Entries : b * k_block_data_size + e = i <=>
                           b = bitmapIndex(i) /\ e = InnerIndex(i)
  BY SlotPlace, PlaceUnique
<1>2. InnerIndex(i) \in Entries /\ i < extent_block_count
  BY SlotPlace, SizeAssumption DEF Slots
<1> QED BY <1>1, <1>2 DEF CloneBitMapBlock, markExtentBlockUsed

\* ... and the same for markExtentBlockUnused and a bit that is cleared.
LEMMA CloneRemove ==
    ASSUME TypeOK, NEW i \in Slots, bitmap_' = bitmap_ \ {i}, NEW b \in BitmapBlocks
    PROVE  CloneBitMapBlock(b)' =
               IF b = bitmapIndex(i) THEN markExtentBlockUnused(CloneBitMapBlock(b), i)
               ELSE CloneBitMapBlock(b)
<1>1. \A e \in Entries : b * k_block_data_size + e = i <=>
                           b = bitmapIndex(i) /\ e = InnerIndex(i)
  BY SlotPlace, PlaceUnique
<1> QED BY <1>1 DEF CloneBitMapBlock, markExtentBlockUnused

\* The block in flight keeps the entry of every acknowledged extent it covers.
LEMMA BufferKeepsAcked ==
    ASSUME IInv, NEW c \in Calls, pc[c] = "bitmap", NEW id \in ExtentIds,
           acked[id] # NoIndex, bitmapIndex(acked[id]) = bitmapIndex(req[c].index)
    PROVE  InnerIndex(acked[id]) \in buf[c]
<1> DEFINE j == acked[id]
           i == req[c].index
           b == bitmapIndex(i)
<1>1. j \in Slots /\ i \in Slots /\ b \in BitmapBlocks /\ j \in bitmap_
  BY SlotPlace DEF IInv, TypeOK, CallsWellFormed, AckedInUse
<1>2. InnerIndex(j) \in CloneBitMapBlock(b)
  BY <1>1, CloneMember DEF IInv
<1>3. CASE req[c].op = "AddExtent"
  <2>1. buf[c] = markExtentBlockUsed(CloneBitMapBlock(b), i)
    BY <1>3 DEF IInv, BitmapInFlight
  <2> QED BY <1>2, <2>1 DEF markExtentBlockUsed
<1>4. CASE req[c].op = "DelExtent"
  <2>1. buf[c] = markExtentBlockUnused(CloneBitMapBlock(b), i) /\ j # i
    BY <1>4 DEF IInv, BitmapInFlight
  <2>2. InnerIndex(j) # InnerIndex(i)
    <3>1. /\ bitmapIndex(j) * k_block_data_size + InnerIndex(j) = j
          /\ bitmapIndex(i) * k_block_data_size + InnerIndex(i) = i
      BY <1>1, SlotPlace
    <3> QED BY <2>1, <3>1
  <2> QED BY <1>2, <2>1, <2>2 DEF markExtentBlockUnused
<1> QED BY <1>3, <1>4 DEF IInv, CallsWellFormed

\* Whatever becomes of a bitmap write, acknowledged extents keep their entry.
LEMMA BitmapWriteKeepsAcked ==
    ASSUME IInv, NEW c \in Calls, pc[c] = "bitmap",
           NEW m \in {bitmaps[bitmapIndex(req[c].index)], BitmapOf(buf[c]), JunkBitmap},
           bitmaps' = [bitmaps EXCEPT ![bitmapIndex(req[c].index)] = m],
           headers' = headers, acked' = acked
    PROVE  AckedIsDurable'
<1> SUFFICES ASSUME NEW id \in ExtentIds, acked[id] # NoIndex
             PROVE  /\ headers[acked[id]] = HeaderFor(id, acked[id])
                    /\ LET n == bitmaps'[bitmapIndex(acked[id])]
                       IN  n.kind = "bitmap" => InnerIndex(acked[id]) \in n.used
  BY DEF AckedIsDurable
<1> DEFINE j == acked[id]
           b == bitmapIndex(req[c].index)
<1>1. headers[j] = HeaderFor(id, j)
  BY DEF IInv, AckedIsDurable
<1>2. j \in Slots /\ bitmapIndex(j) \in BitmapBlocks
  BY SlotPlace DEF IInv, TypeOK
<1>3. CASE bitmapIndex(j) # b
  <2>1. bitmaps'[bitmapIndex(j)] = bitmaps[bitmapIndex(j)]
    BY <1>2, <1>3 DEF IInv, TypeOK
  <2> QED BY <1>1, <2>1 DEF IInv, AckedIsDurable
<1>4. CASE bitmapIndex(j) = b
  <2>1. bitmaps'[bitmapIndex(j)] = m
    BY <1>2, <1>4 DEF IInv, TypeOK
  <2>2. CASE m = bitmaps[b]
    BY <1>1, <1>4, <2>1, <2>2 DEF IInv, AckedIsDurable
  <2>3. CASE m = BitmapOf(buf[c])
    <3>1. InnerIndex(j) \in buf[c]
      BY <1>4, BufferKeepsAcked
    <3> QED BY <1>1, <2>1, <2>3, <3>1 DEF BitmapOf
  <2>4. CASE m = JunkBitmap
    BY <1>1, <2>1, <2>4 DEF JunkBitmap
  <2> QED BY <2>2, <2>3, <2>4
<1> QED BY <1>3, <1>4

-----------------------------------------------------------------------------
(* The steps.  Safe is the part of IInv beyond types and lock.             *)

\* IInv without TypeOK and CallsWellFormed.
Safe ==
    /\ AddInFlight
    /\ BitmapInFlight
    /\ AckedInUse
    /\ DownIsEmpty
    /\ SlotOwner
    /\ AckedIsDurable
    /\ BitmapWriteThrough

\* A step that leaves memory bitmap, map, device and history alone, and starts
\* no write.
LEMMA QuietStep ==
    ASSUME IInv,
           UNCHANGED <<up, bitmap_, extent_offset_map_, headers, bitmaps, acked, synced>>,
           \A d \in Calls : pc'[d] \in {"header", "bitmap"} =>
               pc'[d] = pc[d] /\ req'[d] = req[d] /\ buf'[d] = buf[d]
    PROVE  Safe'
<1>1. SlotOwner' /\ AckedIsDurable' /\ AckedInUse' /\ DownIsEmpty'
  BY DEF IInv, SlotOwner, AckedIsDurable, AckedInUse, DownIsEmpty
<1>2. BitmapWriteThrough'
  BY DEF IInv, BitmapWriteThrough, CloneBitMapBlock
<1>3. AddInFlight'
  BY DEF IInv, AddInFlight, Contains
<1>4. BitmapInFlight'
  BY DEF IInv, BitmapInFlight, CloneBitMapBlock, markExtentBlockUsed, markExtentBlockUnused
<1> QED BY <1>1, <1>2, <1>3, <1>4 DEF Safe

\* After a return nothing is in flight: the holder was the only one.
LEMMA ReturnEndsFlight ==
    ASSUME IInv, NEW c \in Calls, NEW code, NEW value, Holds(c), Return(c, code, value)
    PROVE  \A d \in Calls : pc'[d] \in {"idle", "queued"}
BY OthersWait DEF IInv, Return, TypeOK

\* With nothing in flight, the two invariants about calls in flight hold.
LEMMA NoFlight ==
    ASSUME \A d \in Calls : pc'[d] \in {"idle", "queued"}
    PROVE  AddInFlight' /\ BitmapInFlight'
BY DEF AddInFlight, BitmapInFlight

\* A header write in flight, whatever becomes of it, spares the slots in use.
LEMMA HeaderWriteSparesUsed ==
    ASSUME IInv, NEW c \in Calls, pc[c] = "header", NEW h,
           headers' = [headers EXCEPT ![req[c].index] = h]
    PROVE  /\ \A i \in bitmap_ : headers'[i] = headers[i]
           /\ \A id \in ExtentIds : acked[id] # NoIndex => headers'[acked[id]] = headers[acked[id]]
<1>1. req[c].index \notin bitmap_ /\ up
  BY DEF IInv, CallsWellFormed, AddInFlight
<1>2. \A i \in bitmap_ : headers'[i] = headers[i]
  BY <1>1 DEF IInv, TypeOK
<1> QED BY <1>1, <1>2 DEF IInv, AckedInUse

\* ... in particular when PancakeIO::WriteAt did not complete.
LEMMA TornHeaderSparesUsed ==
    ASSUME IInv, NEW c \in Calls, pc[c] = "header", TornHeader(c)
    PROVE  /\ \A i \in bitmap_ : headers'[i] = headers[i]
           /\ \A id \in ExtentIds : acked[id] # NoIndex => headers'[acked[id]] = headers[acked[id]]
BY HeaderWriteSparesUsed DEF TornHeader

\* When the process stops, what was acknowledged has only the device to lie on.
LEMMA CrashStep ==
    ASSUME IInv, LoseMemory, AckedIsDurable'
    PROVE  Safe'
<1>1. ~up' /\ bitmap_' = {} /\ \A d \in Calls : pc'[d] = "idle"
  BY DEF LoseMemory
<1>2. SlotOwner' /\ AckedInUse' /\ DownIsEmpty' /\ BitmapWriteThrough'
  BY <1>1 DEF SlotOwner, AckedInUse, DownIsEmpty, BitmapWriteThrough
<1> QED BY <1>1, <1>2, NoFlight DEF Safe

\* AddHeaderFailed.
LEMMA AddHeaderFailedStep ==
    ASSUME IInv, NEW c \in Calls, AddHeaderFailed(c)
    PROVE  Safe'
<1> USE DEF memory, history
<1>1. /\ \A i \in bitmap_ : headers'[i] = headers[i]
      /\ \A id \in ExtentIds : acked[id] # NoIndex => headers'[acked[id]] = headers[acked[id]]
  BY TornHeaderSparesUsed DEF AddHeaderFailed, In
<1>2. UNCHANGED <<up, bitmap_, extent_offset_map_, bitmaps, acked, synced>>
  BY DEF AddHeaderFailed
<1>3. AddInFlight' /\ BitmapInFlight'
  BY ReturnEndsFlight, NoFlight DEF AddHeaderFailed, In
<1>4. SlotOwner' /\ AckedIsDurable' /\ AckedInUse' /\ DownIsEmpty'
  BY <1>1, <1>2 DEF IInv, SlotOwner, AckedIsDurable, AckedInUse, DownIsEmpty
<1>5. BitmapWriteThrough'
  BY <1>2 DEF IInv, BitmapWriteThrough, CloneBitMapBlock
<1> QED BY <1>3, <1>4, <1>5 DEF Safe

\* AddHeaderWritten: the header stands, and the block built from bitmap_ is in
\* flight.
LEMMA AddHeaderWrittenStep ==
    ASSUME IInv, NEW c \in Calls, AddHeaderWritten(c)
    PROVE  Safe'
<1> USE DEF memory, history
<1> DEFINE i == req[c].index
<1>1. /\ \A j \in bitmap_ : headers'[j] = headers[j]
      /\ \A id \in ExtentIds : acked[id] # NoIndex => headers'[acked[id]] = headers[acked[id]]
  BY HeaderWriteSparesUsed DEF AddHeaderWritten, In
<1>2. UNCHANGED <<up, bitmap_, extent_offset_map_, bitmaps, acked, synced, req>>
  BY DEF AddHeaderWritten
<1>3. \A d \in Calls : IF d = c THEN pc[d] = "header" /\ pc'[d] = "bitmap"
                                ELSE pc'[d] \in {"idle", "queued"}
  BY OthersWait DEF AddHeaderWritten, In, Await, IInv, TypeOK
<1>4. AddInFlight'
  BY <1>2, <1>3 DEF IInv, AddInFlight, Contains
<1>5. BitmapInFlight'
  <2>1. req[c].op = "AddExtent" /\ i \in Slots
    BY DEF AddHeaderWritten, In, IInv, CallsWellFormed
  <2>2. headers'[i] = HeaderFor(req[c].id, i)
    BY <2>1 DEF AddHeaderWritten, IInv, TypeOK
  <2>3. buf'[c] = markExtentBlockUsed(CloneBitMapBlock(bitmapIndex(i)), i)
    BY DEF AddHeaderWritten, IInv, TypeOK
  <2>4. CloneBitMapBlock(bitmapIndex(i))' = CloneBitMapBlock(bitmapIndex(i))
    BY <1>2 DEF CloneBitMapBlock
  <2> QED BY <1>2, <1>3, <2>1, <2>2, <2>3, <2>4 DEF BitmapInFlight, markExtentBlockUsed
<1>6. SlotOwner' /\ AckedIsDurable' /\ AckedInUse' /\ DownIsEmpty'
  BY <1>1, <1>2 DEF IInv, SlotOwner, AckedIsDurable, AckedInUse, DownIsEmpty
<1>7. BitmapWriteThrough'
  BY <1>2 DEF IInv, BitmapWriteThrough, CloneBitMapBlock
<1> QED BY <1>4, <1>5, <1>6, <1>7 DEF Safe

\* BitmapFailed: disk and memory may now disagree on the block, so it is no
\* longer synced; acknowledged entries are in what was being written.
LEMMA BitmapFailedStep ==
    ASSUME IInv, NEW c \in Calls, BitmapFailed(c)
    PROVE  Safe'
<1> USE DEF memory
<1> DEFINE b == bitmapIndex(req[c].index)
<1>1. UNCHANGED <<up, bitmap_, extent_offset_map_, headers, acked>>
  BY DEF BitmapFailed
<1>2. AddInFlight' /\ BitmapInFlight'
  BY ReturnEndsFlight, NoFlight DEF BitmapFailed
<1>3. AckedIsDurable'
  BY <1>1, BitmapWriteKeepsAcked DEF BitmapFailed, TornBitmap
<1>4. SlotOwner' /\ AckedInUse' /\ DownIsEmpty'
  BY <1>1 DEF IInv, SlotOwner, AckedInUse, DownIsEmpty
<1>5. BitmapWriteThrough'
  <2>1. synced' = synced \ {b} /\ \A a \in BitmapBlocks : a # b => bitmaps'[a] = bitmaps[a]
    BY DEF BitmapFailed, TornBitmap, IInv, TypeOK
  <2> QED BY <1>1, <2>1 DEF IInv, TypeOK, BitmapWriteThrough, CloneBitMapBlock
<1> QED BY <1>2, <1>3, <1>4, <1>5 DEF Safe

\* AddBitmapWritten: the commit of an add.
LEMMA AddBitmapWrittenStep ==
    ASSUME IInv, NEW c \in Calls, AddBitmapWritten(c)
    PROVE  Safe'
<1> DEFINE i == req[c].index
           id == req[c].id
           b == bitmapIndex(i)
<1>1. /\ pc[c] = "bitmap" /\ req[c].op = "AddExtent" /\ up
      /\ i \in Slots /\ id \in ExtentIds /\ b \in BitmapBlocks
  BY SlotPlace DEF AddBitmapWritten, In, IInv, CallsWellFormed
<1>2. /\ UNCHANGED <<up, headers>>
      /\ bitmap_' = bitmap_ \cup {i}
      /\ extent_offset_map_' = [extent_offset_map_ EXCEPT ![id] = i]
      /\ acked' = [acked EXCEPT ![id] = i]
      /\ bitmaps' = [bitmaps EXCEPT ![b] = BitmapOf(buf[c])]
      /\ synced' = synced \cup {b}
  BY DEF AddBitmapWritten, WriteBitmap
<1>3. /\ i \notin bitmap_ /\ extent_offset_map_[id] = NoIndex
      /\ headers[i] = HeaderFor(id, i)
      /\ buf[c] = markExtentBlockUsed(CloneBitMapBlock(b), i)
  BY <1>1 DEF IInv, AddInFlight, BitmapInFlight, Contains
<1>4. AddInFlight' /\ BitmapInFlight'
  BY ReturnEndsFlight, NoFlight DEF AddBitmapWritten, In
<1>5. SlotOwner'
  <2> SUFFICES ASSUME NEW j \in bitmap_'
               PROVE  /\ headers[j].kind = "own" /\ headers[j].index = j
                      /\ headers[j].id \in ExtentIds
                      /\ extent_offset_map_'[headers[j].id] = j
    BY <1>2 DEF SlotOwner
  <2>1. CASE j = i
    BY <1>1, <1>2, <1>3, <2>1 DEF HeaderFor, IInv, TypeOK
  <2>2. CASE j # i
    <3>1. j \in bitmap_ /\ j \in Slots
      BY <1>2, <2>2 DEF IInv, TypeOK
    <3>2. /\ headers[j].kind = "own" /\ headers[j].index = j
          /\ headers[j].id \in ExtentIds /\ extent_offset_map_[headers[j].id] = j
      BY <3>1 DEF IInv, SlotOwner
    <3>3. headers[j].id # id
      BY <1>3, <3>1, <3>2 DEF NoIndex, Slots
    <3> QED BY <1>1, <1>2, <3>2, <3>3 DEF IInv, TypeOK
  <2> QED BY <2>1, <2>2
<1>6. AckedIsDurable'
  <2> SUFFICES ASSUME NEW x \in ExtentIds, acked'[x] # NoIndex
               PROVE  /\ headers[acked'[x]] = HeaderFor(x, acked'[x])
                      /\ LET m == bitmaps'[bitmapIndex(acked'[x])]
                         IN  m.kind = "bitmap" => InnerIndex(acked'[x]) \in m.used
    BY <1>2 DEF AckedIsDurable
  <2>1. CASE x = id
    <3>1. acked'[x] = i /\ bitmaps'[b] = BitmapOf(buf[c])
      BY <1>1, <1>2, <2>1 DEF IInv, TypeOK
    <3>2. InnerIndex(i) \in buf[c]
      BY <1>3 DEF markExtentBlockUsed
    <3> QED BY <1>3, <2>1, <3>1, <3>2 DEF BitmapOf
  <2>2. CASE x # id
    <3>1. acked'[x] = acked[x]
      BY <1>1, <1>2, <2>2 DEF IInv, TypeOK
    <3>2. headers[acked[x]] = HeaderFor(x, acked[x])
      BY <3>1 DEF IInv, AckedIsDurable
    <3>3. bitmapIndex(acked[x]) \in BitmapBlocks
      BY <3>1, SlotPlace DEF IInv, TypeOK
    <3>4. CASE bitmapIndex(acked[x]) = b
      <4>1. InnerIndex(acked[x]) \in buf[c] /\ bitmaps'[b] = BitmapOf(buf[c])
        BY <1>1, <1>2, <3>1, <3>4, BufferKeepsAcked DEF IInv, TypeOK
      <4> QED BY <3>1, <3>2, <3>4, <4>1 DEF BitmapOf
    <3>5. CASE bitmapIndex(acked[x]) # b
      <4>1. bitmaps'[bitmapIndex(acked[x])] = bitmaps[bitmapIndex(acked[x])]
        BY <1>2, <3>3, <3>5 DEF IInv, TypeOK
      <4> QED BY <3>1, <3>2, <4>1 DEF IInv, AckedIsDurable
    <3> QED BY <3>4, <3>5
  <2> QED BY <2>1, <2>2
<1>7. AckedInUse' /\ DownIsEmpty'
  BY <1>1, <1>2 DEF IInv, AckedInUse, DownIsEmpty, TypeOK
<1>8. BitmapWriteThrough'
  <2>t. bitmap_ \in SUBSET Slots /\ bitmap_' \in SUBSET Slots /\ synced' \in SUBSET BitmapBlocks
    BY <1>1, <1>2 DEF IInv, TypeOK
  <2> SUFFICES ASSUME NEW a \in synced' PROVE bitmaps'[a] = BitmapOf(CloneBitMapBlock(a)')
    BY <2>t, CloneIsPart DEF BitmapWriteThrough, CloneBitMapBlock
  <2>1. a \in BitmapBlocks
    BY <2>t
  <2>2. CASE a = b
    BY <1>1, <1>2, <1>3, <2>1, <2>2, CloneAdd DEF IInv, TypeOK
  <2>3. CASE a # b
    <3>1. a \in synced /\ bitmaps'[a] = bitmaps[a]
      BY <1>2, <2>1, <2>3 DEF IInv, TypeOK
    <3>2. CloneBitMapBlock(a)' = CloneBitMapBlock(a)
      BY <1>1, <1>2, <2>1, <2>3, CloneAdd DEF IInv
    <3>3. bitmaps[a] = BitmapOf(CloneBitMapBlock(a))
      BY <1>1, <2>t, <2>1, <3>1, CloneIsPart DEF IInv, BitmapWriteThrough, CloneBitMapBlock
    <3> QED BY <3>1, <3>2, <3>3
  <2> QED BY <2>2, <2>3
<1> QED BY <1>4, <1>5, <1>6, <1>7, <1>8 DEF Safe

\* AddAllocate: the slot found by the search is free, the extent unknown.
LEMMA AddAllocateStep ==
    ASSUME IInv, NEW c \in Calls, AddAllocate(c)
    PROVE  Safe'
<1> USE DEF device, history
<1>1. UNCHANGED <<up, bitmap_, extent_offset_map_, headers, bitmaps, acked, synced, buf>>
  BY DEF AddAllocate
<1>2. PICK k \in Turns : /\ Visited(k) \notin bitmap_
                         /\ req' = [req EXCEPT ![c].index = Visited(k)]
  BY DEF AddAllocate
<1>3. req'[c].index \notin bitmap_ /\ ~Contains(req'[c].id)
  <2>1. req'[c].index = Visited(k) /\ req'[c].id = req[c].id
    BY <1>2 DEF IInv, TypeOK
  <2>2. ~Contains(req[c].id)
    BY DEF AddAllocate, AddRefusal, AlreadyExists, OK
  <2> QED BY <1>2, <2>1, <2>2
<1>4. \A d \in Calls : IF d = c THEN pc'[d] = "header" ELSE pc'[d] \in {"idle", "queued"}
  BY OthersWait DEF AddAllocate, In, Await, IInv, TypeOK
<1>5. AddInFlight'
  BY <1>1, <1>3, <1>4 DEF AddInFlight, Contains
<1>6. BitmapInFlight'
  BY <1>4 DEF BitmapInFlight
<1>7. SlotOwner' /\ AckedIsDurable' /\ AckedInUse' /\ DownIsEmpty'
  BY <1>1 DEF IInv, SlotOwner, AckedIsDurable, AckedInUse, DownIsEmpty
<1>8. BitmapWriteThrough'
  BY <1>1 DEF IInv, BitmapWriteThrough, CloneBitMapBlock
<1> QED BY <1>5, <1>6, <1>7, <1>8 DEF Safe

\* DelChecked: the header on the device names the extent, so an acknowledged
\* extent on that slot can only be the one that is being deleted.
LEMMA DelCheckedStep ==
    ASSUME IInv, NEW c \in Calls, DelChecked(c)
    PROVE  Safe'
<1> USE DEF memory, device
<1> DEFINE i == req[c].index
           id == req[c].id
<1>1. /\ pc[c] = "read" /\ req[c].op = "DelExtent" /\ up
      /\ i \in Slots /\ id \in ExtentIds /\ headers[i].id = id
  BY DEF DelChecked, In, IInv, CallsWellFormed
<1>2. UNCHANGED <<up, bitmap_, extent_offset_map_, headers, bitmaps, synced, req>>
  BY DEF DelChecked
<1>3. \A d \in Calls : IF d = c THEN pc'[d] = "bitmap" ELSE pc'[d] \in {"idle", "queued"}
  BY OthersWait DEF DelChecked, In, Await, IInv, TypeOK
<1>4. \A x \in ExtentIds : acked'[x] = NoIndex \/ acked'[x] = acked[x]
  BY <1>1 DEF DelChecked, IInv, TypeOK
<1>5. ASSUME NEW x \in ExtentIds PROVE acked'[x] # i
  <2>1. CASE acked[x] # i
    BY <1>1, <1>4, <2>1 DEF NoIndex, Slots
  <2>2. CASE acked[x] = i
    <3>1. headers[i] = HeaderFor(x, i)
      BY <1>1, <2>2 DEF IInv, AckedIsDurable, NoIndex, Slots
    <3>2. x = id
      BY <1>1, <3>1 DEF HeaderFor
    <3>3. acked'[x] = NoIndex
      BY <1>1, <2>2, <3>2 DEF DelChecked, IInv, TypeOK
    <3> QED BY <1>1, <3>3 DEF NoIndex, Slots
  <2> QED BY <2>1, <2>2
<1>6. AddInFlight'
  BY <1>1, <1>2, <1>3 DEF AddInFlight
<1>7. BitmapInFlight'
  <2>1. buf'[c] = markExtentBlockUnused(CloneBitMapBlock(bitmapIndex(i)), i)
    BY DEF DelChecked, IInv, TypeOK
  <2>2. CloneBitMapBlock(bitmapIndex(i))' = CloneBitMapBlock(bitmapIndex(i))
    BY <1>2 DEF CloneBitMapBlock
  <2> QED BY <1>1, <1>2, <1>3, <1>5, <2>1, <2>2 DEF BitmapInFlight, markExtentBlockUnused
<1>8. SlotOwner' /\ DownIsEmpty'
  BY <1>2 DEF IInv, SlotOwner, DownIsEmpty
<1>9. AckedIsDurable' /\ AckedInUse'
  BY <1>2, <1>4 DEF IInv, AckedIsDurable, AckedInUse
<1>10. BitmapWriteThrough'
  BY <1>2 DEF IInv, BitmapWriteThrough, CloneBitMapBlock
<1> QED BY <1>6, <1>7, <1>8, <1>9, <1>10 DEF Safe

\* DelBitmapWritten: the commit of a delete.
LEMMA DelBitmapWrittenStep ==
    ASSUME IInv, NEW c \in Calls, DelBitmapWritten(c)
    PROVE  Safe'
<1> DEFINE i == req[c].index
           b == bitmapIndex(i)
<1>1. /\ pc[c] = "bitmap" /\ req[c].op = "DelExtent" /\ up
      /\ i \in Slots /\ b \in BitmapBlocks
  BY SlotPlace DEF DelBitmapWritten, In, IInv, CallsWellFormed
<1>2. /\ UNCHANGED <<up, headers, extent_offset_map_, acked>>
      /\ bitmap_' = bitmap_ \ {i}
      /\ bitmaps' = [bitmaps EXCEPT ![b] = BitmapOf(buf[c])]
      /\ synced' = synced \cup {b}
  BY DEF DelBitmapWritten, WriteBitmap
<1>3. /\ buf[c] = markExtentBlockUnused(CloneBitMapBlock(b), i)
      /\ \A x \in ExtentIds : acked[x] # i
  BY <1>1 DEF IInv, BitmapInFlight
<1>4. AddInFlight' /\ BitmapInFlight'
  BY ReturnEndsFlight, NoFlight DEF DelBitmapWritten, In
<1>5. AckedIsDurable'
  BY <1>1, <1>2, BitmapWriteKeepsAcked
<1>6. SlotOwner' /\ AckedInUse' /\ DownIsEmpty'
  BY <1>1, <1>2, <1>3 DEF IInv, SlotOwner, AckedInUse, DownIsEmpty
<1>7. BitmapWriteThrough'
  <2>t. bitmap_ \in SUBSET Slots /\ bitmap_' \in SUBSET Slots /\ synced' \in SUBSET BitmapBlocks
    BY <1>1, <1>2 DEF IInv, TypeOK
  <2> SUFFICES ASSUME NEW a \in synced' PROVE bitmaps'[a] = BitmapOf(CloneBitMapBlock(a)')
    BY <2>t, CloneIsPart DEF BitmapWriteThrough, CloneBitMapBlock
  <2>1. a \in BitmapBlocks
    BY <2>t
  <2>2. CASE a = b
    BY <1>1, <1>2, <1>3, <2>1, <2>2, CloneRemove DEF IInv, TypeOK
  <2>3. CASE a # b
    <3>1. a \in synced /\ bitmaps'[a] = bitmaps[a]
      BY <1>2, <2>1, <2>3 DEF IInv, TypeOK
    <3>2. CloneBitMapBlock(a)' = CloneBitMapBlock(a)
      BY <1>1, <1>2, <2>1, <2>3, CloneRemove DEF IInv
    <3>3. bitmaps[a] = BitmapOf(CloneBitMapBlock(a))
      BY <1>1, <2>t, <2>1, <3>1, CloneIsPart DEF IInv, BitmapWriteThrough, CloneBitMapBlock
    <3> QED BY <3>1, <3>2, <3>3
  <2> QED BY <2>2, <2>3
<1> QED BY <1>4, <1>5, <1>6, <1>7 DEF Safe

\* Every step of the manager, its callers and the process keeps Safe.
LEMMA SafeStep ==
    ASSUME IInv, [Next]_vars
    PROVE  Safe'
<1> USE DEF memory, device, history, calls
<1>1. CASE Start
  <2>1. \A d \in Calls : pc'[d] = "idle"
    BY <1>1 DEF Start, IInv, CallsWellFormed
  <2>2. AddInFlight' /\ BitmapInFlight'
    BY <2>1, NoFlight
  <2>3. /\ up' /\ bitmap_' = {} /\ synced' = {}
        /\ \A id \in ExtentIds : acked'[id] = NoIndex
    BY <1>1 DEF Start
  <2> QED BY <2>2, <2>3
      DEF Safe, SlotOwner, AckedIsDurable, AckedInUse, DownIsEmpty, BitmapWriteThrough
<1>2. CASE CrashQuiet
  <2>1. AckedIsDurable'
    BY <1>2 DEF CrashQuiet, LoseMemory, IInv, AckedIsDurable
  <2> QED BY <1>2, <2>1, CrashStep DEF CrashQuiet
<1>3. ASSUME NEW c \in Calls, CrashInHeaderWrite(c) PROVE Safe'
  <2>1. AckedIsDurable'
    BY <1>3, TornHeaderSparesUsed DEF CrashInHeaderWrite, LoseMemory, IInv, AckedIsDurable
  <2> QED BY <1>3, <2>1, CrashStep DEF CrashInHeaderWrite
<1>4. ASSUME NEW c \in Calls, CrashInBitmapWrite(c) PROVE Safe'
  <2>1. AckedIsDurable'
    BY <1>4, BitmapWriteKeepsAcked DEF CrashInBitmapWrite, LoseMemory
  <2> QED BY <1>4, <2>1, CrashStep DEF CrashInBitmapWrite
<1>5. ASSUME NEW c \in Calls, NEW op, NEW id, NEW index, Invoke(c, op, id, index)
      PROVE  Safe'
  <2>1. UNCHANGED <<up, bitmap_, extent_offset_map_, headers, bitmaps, acked, synced, buf>>
    BY <1>5 DEF Invoke
  <2>2. \A d \in Calls : pc'[d] \in {"header", "bitmap"} =>
            pc'[d] = pc[d] /\ req'[d] = req[d] /\ buf'[d] = buf[d]
    BY <1>5, <2>1 DEF Invoke, IInv, TypeOK
  <2> QED BY <2>1, <2>2, QuietStep
<1>6. ASSUME NEW c \in Calls, NEW code, NEW value, Holds(c), Return(c, code, value),
             UNCHANGED <<up, bitmap_, extent_offset_map_, headers, bitmaps, acked, synced>>
      PROVE  Safe'
  <2>1. \A d \in Calls : pc'[d] \in {"idle", "queued"}
    BY <1>6, ReturnEndsFlight
  <2> QED BY <1>6, <2>1, QuietStep
<1>7. ASSUME NEW c \in Calls, AddRefused(c) PROVE Safe'
  BY <1>6, <1>7 DEF AddRefused, In
<1>8. ASSUME NEW c \in Calls, DelRead(c) PROVE Safe'
  <2>1. UNCHANGED <<up, bitmap_, extent_offset_map_, headers, bitmaps, acked, synced, buf, req>>
    BY <1>8 DEF DelRead
  <2>2. \A d \in Calls : pc'[d] \in {"header", "bitmap"} => pc'[d] = pc[d]
    BY <1>8 DEF DelRead, Await, IInv, TypeOK
  <2> QED BY <2>1, <2>2, QuietStep
<1>9. ASSUME NEW c \in Calls, DelReadFailed(c) PROVE Safe'
  BY <1>6, <1>9 DEF DelReadFailed, In
<1>10. ASSUME NEW c \in Calls, DelRejected(c) PROVE Safe'
  BY <1>6, <1>10 DEF DelRejected, In
<1>11. ASSUME NEW c \in Calls, CountAnswered(c) PROVE Safe'
  BY <1>6, <1>11 DEF CountAnswered
<1>12. CASE UNCHANGED vars
  BY <1>12, QuietStep DEF vars
<1>13. ASSUME NEW c \in Calls, Progress(c) PROVE Safe'
  BY <1>7, <1>8, <1>9, <1>10, <1>11, <1>13, AddAllocateStep, AddHeaderFailedStep,
     AddHeaderWrittenStep, AddBitmapWrittenStep, BitmapFailedStep, DelCheckedStep,
     DelBitmapWrittenStep DEF Progress
<1> QED
  BY <1>1, <1>2, <1>3, <1>4, <1>5, <1>12, <1>13
  DEF Next, AddExtent, DelExtent, CurrentAllocCount, CurrentFreeCount

\* IInv is an inductive invariant of the manager.
LEMMA Invariance == Spec => []IInv
<1>1. Init => IInv
  BY TypeInit
  DEF Init, IInv, CallsWellFormed, AddInFlight, BitmapInFlight, AckedInUse, DownIsEmpty,
      SlotOwner, AckedIsDurable, BitmapWriteThrough
<1>2. IInv /\ [Next]_vars => IInv'
  <2> SUFFICES ASSUME IInv, [Next]_vars PROVE IInv'
    OBVIOUS
  <2>1. TypeOK' /\ CallsWellFormed'
    BY TypeStep, CallsStep DEF IInv
  <2> QED BY <2>1, SafeStep DEF IInv, Safe
<1> QED BY <1>1, <1>2, PTL DEF Spec

-----------------------------------------------------------------------------
(* Theorems.                                                               *)

\* Two extents never share a slot, and a slot in use has its header on the
\* device, whatever the order of calls and the failures of writes.
THEOREM SlotOwnerHolds == Spec => []SlotOwner
<1>1. IInv => SlotOwner
  BY DEF IInv
<1> QED BY <1>1, Invariance, PTL

\* An extent that was acknowledged survives later calls, failed and torn writes
\* and a stop of the process.
THEOREM AckedIsDurableHolds == Spec => []AckedIsDurable
<1>1. IInv => AckedIsDurable
  BY DEF IInv
<1> QED BY <1>1, Invariance, PTL

\* A bitmap block whose last write succeeded is bitmap_, on every device.
THEOREM BitmapWriteThroughHolds == Spec => []BitmapWriteThrough
<1>1. IInv => BitmapWriteThrough
  BY DEF IInv
<1> QED BY <1>1, Invariance, PTL

\* No step, a crash in the middle of a header write included, changes the
\* header of a slot in use.
THEOREM HeaderKept == Spec => HeaderOfUsedSlotKept
<1> USE DEF memory, device, history, calls
<1>1. ASSUME IInv, [Next]_vars
      PROVE  [\A i \in bitmap_ : headers'[i] = headers[i]]_vars
  <2>1. ASSUME NEW c \in Calls,
               AddHeaderFailed(c) \/ CrashInHeaderWrite(c) \/ AddHeaderWritten(c)
        PROVE  \A i \in bitmap_ : headers'[i] = headers[i]
    BY <1>1, <2>1, TornHeaderSparesUsed, HeaderWriteSparesUsed
    DEF AddHeaderFailed, CrashInHeaderWrite, AddHeaderWritten, In
  <2>2. CASE Start \/ CrashQuiet
    BY <2>2 DEF Start, CrashQuiet
  <2>3. ASSUME NEW c \in Calls, CrashInBitmapWrite(c)
        PROVE  headers' = headers
    BY <2>3 DEF CrashInBitmapWrite
  <2>4. ASSUME NEW c \in Calls, NEW op, NEW id, NEW index, Invoke(c, op, id, index)
        PROVE  headers' = headers
    BY <2>4 DEF Invoke
  <2>5. ASSUME NEW c \in Calls, Progress(c), ~AddHeaderFailed(c), ~AddHeaderWritten(c)
        PROVE  headers' = headers
    BY <2>5 DEF Progress, AddRefused, AddAllocate, AddBitmapWritten, BitmapFailed, DelRead,
        DelReadFailed, DelRejected, DelChecked, DelBitmapWritten, CountAnswered
  <2>6. CASE UNCHANGED vars
    BY <2>6 DEF vars
  <2> QED BY <1>1, <2>1, <2>2, <2>3, <2>4, <2>5, <2>6
      DEF Next, AddExtent, DelExtent, CurrentAllocCount, CurrentFreeCount
<1> QED BY <1>1, Invariance, PTL DEF Spec, HeaderOfUsedSlotKept

\* While Deserialize rejects the headers that Serialize writes, DelExtent cannot
\* take back an acknowledged extent, so the map and the acknowledged extents
\* are the same.
THEOREM MapIsAcknowledgedHolds ==
    ASSUME OwnHeader # OK
    PROVE  Spec => []MapIsAcknowledged
<1> USE DEF memory, device, history, calls
<1>1. Init => MapIsAcknowledged
  BY DEF Init, MapIsAcknowledged
<1>2. ASSUME IInv, MapIsAcknowledged, [Next]_vars
      PROVE  MapIsAcknowledged'
  <2>1. CASE Start
    BY <2>1 DEF Start, MapIsAcknowledged
  <2>2. ASSUME LoseMemory PROVE MapIsAcknowledged'
    BY <2>2 DEF LoseMemory, MapIsAcknowledged
  <2>3. ASSUME NEW c \in Calls, DelChecked(c) PROVE MapIsAcknowledged'
    <3>1. req[c].id \in ExtentIds /\ req[c].index \in Slots
      BY <1>2, <2>3 DEF DelChecked, In, IInv, CallsWellFormed
    <3>2. acked[req[c].id] # req[c].index
      <4> SUFFICES ASSUME acked[req[c].id] = req[c].index PROVE FALSE
        OBVIOUS
      <4>1. headers[req[c].index] = HeaderFor(req[c].id, req[c].index)
        BY <1>2, <3>1 DEF IInv, AckedIsDurable, NoIndex, Slots
      <4>2. Deserialize(headers[req[c].index]) = {OwnHeader}
        BY <4>1 DEF Deserialize, HeaderFor
      <4> QED BY <2>3, <4>2 DEF DelChecked
    <3> QED BY <1>2, <2>3, <3>2 DEF DelChecked, MapIsAcknowledged
  <2>4. ASSUME NEW c \in Calls, AddBitmapWritten(c) PROVE MapIsAcknowledged'
    BY <1>2, <2>4 DEF AddBitmapWritten, In, IInv, CallsWellFormed, MapIsAcknowledged
  <2>5. ASSUME UNCHANGED <<up, extent_offset_map_, acked>> PROVE MapIsAcknowledged'
    BY <1>2, <2>5 DEF MapIsAcknowledged
  <2>6. ASSUME NEW c \in Calls, Progress(c), ~DelChecked(c), ~AddBitmapWritten(c)
        PROVE  UNCHANGED <<up, extent_offset_map_, acked>>
    BY <2>6 DEF Progress, AddRefused, AddAllocate, AddHeaderFailed, AddHeaderWritten,
        BitmapFailed, DelRead, DelReadFailed, DelRejected, DelBitmapWritten, CountAnswered
  <2>7. ASSUME NEW c \in Calls, NEW op, NEW id, NEW index, Invoke(c, op, id, index)
        PROVE  UNCHANGED <<up, extent_offset_map_, acked>>
    BY <2>7 DEF Invoke
  <2>8. CASE UNCHANGED vars
    BY <2>5, <2>8 DEF vars
  <2> QED BY <1>2, <2>1, <2>2, <2>3, <2>4, <2>5, <2>6, <2>7, <2>8
      DEF Next, CrashQuiet, CrashInHeaderWrite, CrashInBitmapWrite, AddExtent, DelExtent,
          CurrentAllocCount, CurrentFreeCount
<1> QED BY <1>1, <1>2, Invariance, PTL DEF Spec

\* The codec of the blocks, on a device with sectors of 512 bytes.
Codec == INSTANCE PancakeBlockProofs WITH sector_size <- 512

\* The hypothesis is met by the code: with the codec as it is written, DelExtent
\* takes no acknowledged extent back.
THEOREM MapIsAcknowledgedWithCodec ==
    ASSUME OwnHeader \in Codec!OwnHeaderOutcome
    PROVE  Spec => []MapIsAcknowledged
<1>1. Codec!OwnHeaderOutcome = {Codec!MagicIllegal}
  BY Codec!OwnHeaderIsRejected DEF Codec!SectorAssumption
<1>2. OwnHeader # OK
  BY <1>1 DEF Codec!MagicIllegal, OK
<1> QED BY <1>2, MapIsAcknowledgedHolds

-----------------------------------------------------------------------------
(* The queue of the lock.                                                  *)

\* Invoke puts an idle call, which is not in the queue, at its end.
LEMMA InvokeQueue ==
    ASSUME TypeOK, QueueIsPending, NEW c \in Calls, NEW op, NEW id, NEW index,
           Invoke(c, op, id, index)
    PROVE  QueueIsPending'
<1> DEFINE q == mutex_
           r == Append(mutex_, c)
           len == Len(mutex_)
<1>1. /\ q \in Seq(Calls) /\ len \in Nat /\ DOMAIN q = 1 .. len
      /\ DOMAIN r = 1 .. len + 1 /\ r[len + 1] = c
      /\ \A n \in 1 .. len : r[n] = q[n] /\ q[n] \in Calls
  BY DEF TypeOK
<1>2. /\ mutex_' = r /\ pc[c] = "idle" /\ pc'[c] = "queued"
      /\ \A d \in Calls : d # c => pc'[d] = pc[d]
  BY DEF Invoke, TypeOK
<1>3. \A n \in 1 .. len : pc[q[n]] # "idle" /\ q[n] # c
  BY <1>1, <1>2 DEF QueueIsPending
<1>4. \A n, m \in 1 .. len : q[m] = q[n] => m = n
  BY <1>1 DEF QueueIsPending
<1>5. \A d \in Calls : pc[d] # "idle" => \E n \in 1 .. len : q[n] = d
  BY <1>1 DEF QueueIsPending
<1> HIDE DEF q, r, len
<1>6. \A n \in 1 .. len + 1 : n = len + 1 \/ n \in 1 .. len
  BY <1>1
<1>7. ASSUME NEW n \in 1 .. len + 1 PROVE pc'[r[n]] # "idle"
  BY <1>1, <1>2, <1>3, <1>6
<1>8. ASSUME NEW n \in 1 .. len + 1, NEW m \in 1 .. len + 1, r[m] = r[n] PROVE m = n
  BY <1>1, <1>3, <1>4, <1>6, <1>8
<1>9. ASSUME NEW d \in Calls, pc'[d] # "idle" PROVE \E n \in 1 .. len + 1 : r[n] = d
  <2>1. CASE d = c
    <3>1. len + 1 \in 1 .. len + 1
      BY <1>1
    <3> QED BY <1>1, <2>1, <3>1
  <2>2. CASE d # c
    <3>1. PICK n \in 1 .. len : q[n] = d
      BY <1>2, <1>5, <1>9, <2>2
    <3>2. n \in 1 .. len + 1 /\ r[n] = d
      BY <1>1, <3>1
    <3> QED BY <3>2
  <2> QED BY <2>1, <2>2
<1> QED BY <1>1, <1>2, <1>7, <1>8, <1>9 DEF QueueIsPending

\* Return takes the head of the queue, which is the call that is answered, away.
LEMMA ReturnQueue ==
    ASSUME TypeOK, QueueIsPending, NEW c \in Calls, NEW code, NEW value,
           Holds(c), Return(c, code, value)
    PROVE  QueueIsPending'
<1> DEFINE q == mutex_
           r == Tail(mutex_)
           len == Len(mutex_)
<1>1. /\ q \in Seq(Calls) /\ len \in Nat /\ len # 0 /\ DOMAIN q = 1 .. len
      /\ q[1] = c /\ DOMAIN r = 1 .. len - 1
      /\ \A n \in 1 .. len - 1 : r[n] = q[n + 1]
      /\ \A n \in 1 .. len : q[n] \in Calls
  BY DEF TypeOK, Holds
<1>2. /\ mutex_' = r /\ pc'[c] = "idle"
      /\ \A d \in Calls : d # c => pc'[d] = pc[d]
  BY DEF Return, TypeOK
<1>3. /\ \A n \in 1 .. len : pc[q[n]] # "idle"
      /\ \A n, m \in 1 .. len : q[m] = q[n] => m = n
      /\ \A d \in Calls : pc[d] # "idle" => \E n \in 1 .. len : q[n] = d
  BY <1>1 DEF QueueIsPending
<1> HIDE DEF q, r, len
<1>4. /\ 1 \in 1 .. len
      /\ \A n \in 1 .. len - 1 : n \in Nat /\ n + 1 \in 1 .. len /\ n + 1 # 1
  BY <1>1
<1>5. ASSUME NEW n \in 1 .. len - 1 PROVE pc'[r[n]] # "idle"
  <2>1. n + 1 \in 1 .. len /\ n + 1 # 1
    BY <1>4
  <2>2. q[n + 1] # c /\ q[n + 1] \in Calls /\ pc[q[n + 1]] # "idle"
    BY <1>1, <1>3, <1>4, <2>1
  <2>3. r[n] = q[n + 1]
    BY <1>1
  <2> QED BY <1>2, <2>2, <2>3
<1>6. ASSUME NEW n \in 1 .. len - 1, NEW m \in 1 .. len - 1, r[m] = r[n] PROVE m = n
  <2>1. m + 1 = n + 1
    BY <1>1, <1>3, <1>4, <1>6
  <2> QED BY <1>4, <2>1
<1>7. ASSUME NEW d \in Calls, pc'[d] # "idle" PROVE \E n \in 1 .. len - 1 : r[n] = d
  <2>1. d # c /\ pc[d] # "idle"
    BY <1>2, <1>7
  <2>2. PICK n \in 1 .. len : q[n] = d
    BY <1>3, <2>1
  <2>3. n - 1 \in 1 .. len - 1 /\ (n - 1) + 1 = n
    BY <1>1, <2>1, <2>2
  <2> QED BY <1>1, <2>2, <2>3
<1> QED BY <1>1, <1>2, <1>5, <1>6, <1>7 DEF QueueIsPending

\* No call is left in the queue that was answered, and none is out of it that was
\* not, on every path through the operations.
THEOREM QueueIsPendingHolds == Spec => []QueueIsPending
<1> USE DEF memory, device, history, calls
<1>1. Init => QueueIsPending
  BY DEF Init, QueueIsPending
<1>2. ASSUME IInv, QueueIsPending, [Next]_vars
      PROVE  QueueIsPending'
  <2>t. TypeOK
    BY <1>2 DEF IInv
  <2>1. ASSUME NEW c \in Calls, NEW op, NEW id, NEW index, Invoke(c, op, id, index)
        PROVE  QueueIsPending'
    BY <1>2, <2>t, <2>1, InvokeQueue
  <2>2. ASSUME NEW c \in Calls, NEW code, NEW value, Holds(c), Return(c, code, value)
        PROVE  QueueIsPending'
    BY <1>2, <2>t, <2>2, ReturnQueue
  <2>3. ASSUME NEW c \in Calls, NEW at \in {"header", "read", "bitmap"},
               Await(c, at), pc[c] # "idle"
        PROVE  QueueIsPending'
    <3>1. mutex_' = mutex_ /\ pc'[c] # "idle" /\ \A d \in Calls : d # c => pc'[d] = pc[d]
      BY <2>t, <2>3 DEF Await, TypeOK
    <3>2. \A d \in Calls : pc'[d] = "idle" <=> pc[d] = "idle"
      BY <2>3, <3>1
    <3>3. \A n \in DOMAIN mutex_ : mutex_[n] \in Calls
      BY <2>t DEF TypeOK
    <3> QED BY <1>2, <3>1, <3>2, <3>3 DEF QueueIsPending
  <2>4. ASSUME LoseMemory PROVE QueueIsPending'
    BY <2>4 DEF LoseMemory, QueueIsPending
  <2>5. CASE Start
    BY <1>2, <2>5 DEF Start, QueueIsPending
  <2>6. ASSUME NEW c \in Calls, Progress(c) PROVE QueueIsPending'
    <3>1. CASE AddAllocate(c)
      BY <2>3, <3>1 DEF AddAllocate, In
    <3>2. CASE AddHeaderWritten(c)
      BY <2>3, <3>2 DEF AddHeaderWritten, In
    <3>3. CASE DelRead(c)
      BY <2>3, <3>3 DEF DelRead, In
    <3>4. CASE DelChecked(c)
      BY <2>3, <3>4 DEF DelChecked, In
    <3>5. CASE AddRefused(c)
      BY <2>2, <3>5 DEF AddRefused, In
    <3>6. CASE AddHeaderFailed(c)
      BY <2>2, <3>6 DEF AddHeaderFailed, In
    <3>7. CASE AddBitmapWritten(c)
      BY <2>2, <3>7 DEF AddBitmapWritten, In
    <3>8. CASE BitmapFailed(c)
      BY <2>2, <3>8 DEF BitmapFailed
    <3>9. CASE DelReadFailed(c)
      BY <2>2, <3>9 DEF DelReadFailed, In
    <3>10. CASE DelRejected(c)
      BY <2>2, <3>10 DEF DelRejected, In
    <3>11. CASE DelBitmapWritten(c)
      BY <2>2, <3>11 DEF DelBitmapWritten, In
    <3>12. CASE CountAnswered(c)
      BY <2>2, <3>12 DEF CountAnswered
    <3> QED BY <2>6, <3>1, <3>2, <3>3, <3>4, <3>5, <3>6, <3>7, <3>8, <3>9, <3>10, <3>11, <3>12
        DEF Progress
  <2>7. CASE UNCHANGED vars
    BY <1>2, <2>7 DEF vars, QueueIsPending
  <2> QED BY <1>2, <2>1, <2>4, <2>5, <2>6, <2>7
      DEF Next, CrashQuiet, CrashInHeaderWrite, CrashInBitmapWrite, AddExtent, DelExtent,
          CurrentAllocCount, CurrentFreeCount
<1> QED BY <1>1, <1>2, Invariance, PTL DEF Spec

-----------------------------------------------------------------------------
(* The search of AddExtent.                                                *)

\* Wherever the cursor stands, the search visits every slot below
\* bitmap_block_count.
LEMMA SearchVisits ==
    ASSUME TypeOK, NEW i \in Reach
    PROVE  \E k \in Turns : Visited(k) = i
<1> DEFINE n == bitmap_block_count
<1>1. /\ n \in Nat /\ n # 0 /\ n <= extent_block_count /\ extent_block_count \in Nat
      /\ i \in Nat /\ i < n /\ cursor_ \in Nat /\ cursor_ <= n
  BY SizeAssumption DEF TypeOK, Reach
<1> HIDE DEF n
<1>2. i % n = i /\ (i + n) % n = i
  BY <1>1
<1>3. CASE cursor_ <= i
  <2>1. i - cursor_ \in Turns /\ cursor_ + (i - cursor_) = i
    BY <1>1, <1>3 DEF Turns
  <2> QED BY <1>2, <2>1 DEF Visited, n
<1>4. CASE i < cursor_
  <2>1. i + n - cursor_ \in Turns /\ cursor_ + (i + n - cursor_) = i + n
    BY <1>1, <1>4 DEF Turns
  <2> QED BY <1>2, <2>1 DEF Visited, n
<1> QED BY <1>1, <1>3, <1>4

\* Slots in use, and those that an add has taken, are slots that the search gets to;
\* used_cnt_, which nothing counts up, never makes the device full.
InReach ==
    /\ used_cnt_ = 0
    /\ bitmap_ \subseteq Reach
    /\ \A c \in Calls :
         pc[c] \in {"header", "bitmap"} /\ req[c].op = "AddExtent" => req[c].index \in Reach

\* AddExtent finds a free slot among the first bitmap_block_count if there is one,
\* and uses no other, whatever was added, given back or failed before.
THEOREM SearchIsExhaustiveHolds == Spec => []SearchIsExhaustive
<1> USE DEF memory, device, history, calls
<1>1. Init => InReach
  BY DEF Init, InReach
<1>2. ASSUME IInv, InReach, [Next]_vars
      PROVE  InReach'
  <2>t. TypeOK /\ CallsWellFormed
    BY <1>2 DEF IInv
  <2>1. ASSUME UNCHANGED <<used_cnt_, bitmap_>>,
               NEW c \in Calls, \A d \in Calls : d # c => pc'[d] = pc[d] /\ req'[d] = req[d],
               pc'[c] \notin {"header", "bitmap"}
        PROVE  InReach'
    BY <1>2, <2>1 DEF InReach
  <2>2. ASSUME NEW c \in Calls, NEW op, NEW id, NEW index, Invoke(c, op, id, index)
        PROVE  InReach'
    <3>1. /\ UNCHANGED <<used_cnt_, bitmap_>> /\ pc'[c] = "queued"
          /\ \A d \in Calls : d # c => pc'[d] = pc[d] /\ req'[d] = req[d]
      BY <2>t, <2>2 DEF Invoke, TypeOK
    <3> QED BY <2>1, <3>1
  <2>3. ASSUME NEW c \in Calls, NEW code, NEW value, Return(c, code, value)
        PROVE  /\ pc'[c] = "idle"
               /\ \A d \in Calls : d # c => pc'[d] = pc[d] /\ req'[d] = req[d]
    BY <2>t, <2>3 DEF Return, TypeOK
  <2>4. ASSUME NEW c \in Calls, NEW code, NEW value, Return(c, code, value),
               UNCHANGED <<used_cnt_, bitmap_>>
        PROVE  InReach'
    BY <2>1, <2>3, <2>4
  <2>5. ASSUME LoseMemory PROVE InReach'
    BY <2>5 DEF LoseMemory, InReach
  <2>6. CASE Start
    BY <1>2, <2>6 DEF Start, InReach
  <2>7. ASSUME NEW c \in Calls, Progress(c) PROVE InReach'
    <3>1. CASE AddAllocate(c)
      <4>1. PICK k \in Turns : req' = [req EXCEPT ![c].index = Visited(k)]
        BY <3>1 DEF AddAllocate
      <4>2. Visited(k) \in Reach
        BY <2>t, <4>1, VisitedInRange DEF Reach
      <4>3. /\ req'[c].index \in Reach
            /\ \A d \in Calls : d # c => pc'[d] = pc[d] /\ req'[d] = req[d]
            /\ UNCHANGED <<used_cnt_, bitmap_>>
        BY <2>t, <3>1, <4>1, <4>2 DEF AddAllocate, Await, TypeOK
      <4> QED BY <1>2, <4>3 DEF InReach
    <3>2. CASE AddHeaderWritten(c)
      <4>1. /\ UNCHANGED <<used_cnt_, bitmap_, req>>
            /\ \A d \in Calls : d # c => pc'[d] = pc[d]
            /\ pc[c] = "header"
        BY <2>t, <3>2 DEF AddHeaderWritten, Await, TypeOK, In
      <4> QED BY <1>2, <4>1 DEF InReach
    <3>3. CASE DelRead(c)
      <4>1. /\ UNCHANGED <<used_cnt_, bitmap_, req>> /\ pc'[c] = "read"
            /\ \A d \in Calls : d # c => pc'[d] = pc[d]
        BY <2>t, <3>3 DEF DelRead, Await, TypeOK
      <4> QED BY <2>1, <4>1
    <3>4. CASE DelChecked(c)
      <4>1. /\ UNCHANGED <<used_cnt_, bitmap_, req>> /\ req[c].op = "DelExtent"
            /\ \A d \in Calls : d # c => pc'[d] = pc[d]
        BY <2>t, <3>4 DEF DelChecked, Await, TypeOK, In
      <4> QED BY <1>2, <4>1 DEF InReach
    <3>5. CASE AddBitmapWritten(c)
      <4>1. req[c].index \in Reach
        BY <1>2, <3>5 DEF AddBitmapWritten, In, InReach
      <4>2. used_cnt_' = used_cnt_ /\ bitmap_' = bitmap_ \cup {req[c].index}
        BY <3>5 DEF AddBitmapWritten
      <4>3. PICK code, value : Return(c, code, value)
        BY <3>5 DEF AddBitmapWritten
      <4> QED BY <1>2, <2>3, <4>1, <4>2, <4>3 DEF InReach
    <3>6. CASE DelBitmapWritten(c)
      <4>1. used_cnt_' = used_cnt_ /\ bitmap_' \subseteq bitmap_
        BY <3>6 DEF DelBitmapWritten
      <4>2. PICK code, value : Return(c, code, value)
        BY <3>6 DEF DelBitmapWritten
      <4> QED BY <1>2, <2>3, <4>1, <4>2 DEF InReach
    <3>7. CASE AddRefused(c)
      BY <2>4, <3>7 DEF AddRefused
    <3>8. CASE AddHeaderFailed(c) \/ BitmapFailed(c)
      BY <2>4, <3>8 DEF AddHeaderFailed, BitmapFailed
    <3>9. CASE DelReadFailed(c) \/ DelRejected(c) \/ CountAnswered(c)
      BY <2>4, <3>9 DEF DelReadFailed, DelRejected, CountAnswered
    <3> QED BY <2>7, <3>1, <3>2, <3>3, <3>4, <3>5, <3>6, <3>7, <3>8, <3>9 DEF Progress
  <2>8. CASE UNCHANGED vars
    BY <1>2, <2>8 DEF vars, InReach
  <2> QED BY <1>2, <2>2, <2>5, <2>6, <2>7, <2>8
      DEF Next, CrashQuiet, CrashInHeaderWrite, CrashInBitmapWrite, AddExtent, DelExtent,
          CurrentAllocCount, CurrentFreeCount
<1>3. ASSUME IInv, InReach PROVE SearchIsExhaustive
  <2>t. TypeOK
    BY <1>3 DEF IInv
  <2>1. used_cnt_ # extent_block_count
    BY <1>3, SizeAssumption DEF InReach
  <2>2. (\A k \in Turns : Visited(k) \in bitmap_) <=> bitmap_ = Reach
    <3>1. \A k \in Turns : Visited(k) \in Reach
      BY <2>t, VisitedInRange DEF Reach
    <3>2. \A i \in Reach : \E k \in Turns : Visited(k) = i
      BY <2>t, SearchVisits
    <3> QED BY <1>3, <3>1, <3>2 DEF InReach
  <2>3. \A id \in ExtentIds : AddRefusal(id) = OK <=> ~Contains(id) /\ bitmap_ # Reach
    BY <2>1, <2>2 DEF AddRefusal, OK, AlreadyExists, FsFull, CodeError
  <2> QED BY <1>3, <2>3 DEF SearchIsExhaustive, InReach
<1> QED BY <1>1, <1>2, <1>3, Invariance, PTL DEF Spec

-----------------------------------------------------------------------------
(* Refinement.                                                             *)

\* The refinement mapping of Allocation.
Owner == [i \in Slots |-> IF i \in bitmap_ THEN headers[i].id ELSE NoExtent]
Known == {id \in ExtentIds : Contains(id)}

\* A step that leaves the bits, the map and the headers of used slots alone is
\* a stutter of the abstract allocation.
LEMMA StutterStep ==
    ASSUME UNCHANGED <<bitmap_, extent_offset_map_>>,
           \A i \in bitmap_ : headers'[i] = headers[i]
    PROVE  Owner' = Owner /\ Known' = Known
BY DEF Owner, Known, Contains

\* The manager, with its locks, awaits, failing writes and crashes, implements
\* ExtentAllocation: adds and deletes take effect at once, at their commit.
THEOREM Refinement == Spec => ImplementsAllocation
<1> USE DEF memory, device, history, calls
<1>1. Init => Allocation!Init
  <2> SUFFICES ASSUME Init PROVE Allocation!Init
    OBVIOUS
  <2>1. Owner = [i \in Slots |-> NoExtent]
    BY DEF Init, Owner
  <2>2. Known = {}
    BY DEF Init, Known, Contains
  <2> QED BY <2>1, <2>2 DEF Allocation!Init, Owner, Known
<1>2. ASSUME IInv, [Next]_vars
      PROVE  [Allocation!Next]_(Allocation!vars)
  <2>1. ASSUME Owner' = Owner, Known' = Known
        PROVE  UNCHANGED Allocation!vars
    BY <2>1 DEF Allocation!vars, Owner, Known
  <2>2. ASSUME bitmap_' = {}, extent_offset_map_' = [id \in ExtentIds |-> NoIndex]
        PROVE  Allocation!Next
    <3>1. Owner' = [i \in Slots |-> NoExtent] /\ Known' = {}
      BY <2>2 DEF Owner, Known, Contains
    <3> QED BY <3>1 DEF Allocation!Next, Allocation!Forget, Owner, Known
  <2>3. CASE Start \/ LoseMemory
    BY <2>2, <2>3 DEF Start, LoseMemory
  <2>4. ASSUME NEW c \in Calls, AddBitmapWritten(c) PROVE Allocation!Next
    <3>0. PICK i \in Slots, id \in ExtentIds : i = req[c].index /\ id = req[c].id
      BY <1>2, <2>4 DEF AddBitmapWritten, In, IInv, CallsWellFormed
    <3>1. i \notin bitmap_ /\ ~Contains(id) /\ headers[i] = HeaderFor(id, i)
      BY <1>2, <2>4, <3>0
      DEF AddBitmapWritten, In, IInv, CallsWellFormed, AddInFlight, BitmapInFlight
    <3>2. /\ headers' = headers /\ bitmap_' = bitmap_ \cup {i}
          /\ extent_offset_map_' = [extent_offset_map_ EXCEPT ![id] = i]
      BY <2>4, <3>0 DEF AddBitmapWritten
    <3>3. id \notin Known /\ Owner[i] = NoExtent
      BY <3>1 DEF Known, Owner
    <3>4. Owner' = [Owner EXCEPT ![i] = id]
      <4>1. headers[i].id = id
        BY <3>1 DEF HeaderFor
      <4> QED BY <3>2, <4>1 DEF Owner
    <3>5. Known' = Known \cup {id}
      BY <1>2, <3>1, <3>2 DEF Known, Contains, IInv, TypeOK, NoIndex, Slots
    <3>6. Allocation!Allocate(id, i)
      BY <3>3, <3>4, <3>5 DEF Allocation!Allocate, Owner, Known
    <3> QED BY <3>6 DEF Allocation!Next
  <2>5. ASSUME NEW c \in Calls, DelBitmapWritten(c)
        PROVE  Allocation!Next \/ UNCHANGED Allocation!vars
    <3>0. PICK i \in Slots : i = req[c].index
      BY <1>2, <2>5 DEF DelBitmapWritten, In, IInv, CallsWellFormed
    <3>1. /\ headers' = headers /\ bitmap_' = bitmap_ \ {i}
          /\ extent_offset_map_' = extent_offset_map_
      BY <2>5, <3>0 DEF DelBitmapWritten
    <3>2. CASE i \notin bitmap_
      <4>1. bitmap_' = bitmap_
        BY <3>1, <3>2
      <4> QED BY <2>1, <3>1, <4>1, StutterStep
    <3>3. CASE i \in bitmap_
      <4>1. Owner[i] # NoExtent
        BY <1>2, <3>1, <3>3, IdAssumption DEF Owner, IInv, SlotOwner
      <4>2. Owner' = [Owner EXCEPT ![i] = NoExtent] /\ Known' = Known
        BY <3>1 DEF Owner, Known, Contains
      <4>3. Allocation!Release(i)
        BY <4>1, <4>2 DEF Allocation!Release, Owner, Known
      <4> QED BY <4>3 DEF Allocation!Next
    <3> QED BY <3>2, <3>3
  <2>6. ASSUME NEW c \in Calls, AddHeaderFailed(c) \/ AddHeaderWritten(c)
        PROVE  UNCHANGED Allocation!vars
    <3>1. \A i \in bitmap_ : headers'[i] = headers[i]
      BY <1>2, <2>6, TornHeaderSparesUsed, HeaderWriteSparesUsed
      DEF AddHeaderFailed, AddHeaderWritten, In
    <3> QED BY <2>1, <2>6, <3>1, StutterStep DEF AddHeaderFailed, AddHeaderWritten
  <2>7. ASSUME UNCHANGED <<bitmap_, extent_offset_map_, headers>>
        PROVE  UNCHANGED Allocation!vars
    BY <2>1, <2>7, StutterStep
  <2>8. ASSUME NEW c \in Calls, Progress(c), ~AddHeaderFailed(c), ~AddHeaderWritten(c),
               ~AddBitmapWritten(c), ~DelBitmapWritten(c)
        PROVE  UNCHANGED <<bitmap_, extent_offset_map_, headers>>
    BY <2>8 DEF Progress, AddRefused, AddAllocate, BitmapFailed, DelRead,
        DelReadFailed, DelRejected, DelChecked, CountAnswered
  <2>9. ASSUME NEW c \in Calls, NEW op, NEW id, NEW index, Invoke(c, op, id, index)
        PROVE  UNCHANGED <<bitmap_, extent_offset_map_, headers>>
    BY <2>9 DEF Invoke
  <2>10. CASE UNCHANGED vars
    BY <2>7, <2>10 DEF vars
  <2> QED BY <1>2, <2>3, <2>4, <2>5, <2>6, <2>7, <2>8, <2>9, <2>10
      DEF Next, CrashQuiet, CrashInHeaderWrite, CrashInBitmapWrite, AddExtent, DelExtent,
          CurrentAllocCount, CurrentFreeCount
<1> QED BY <1>1, <1>2, Invariance, PTL DEF Spec, ImplementsAllocation, Allocation!Spec
=============================================================================
