----------------------- MODULE PancakeExtentManager -----------------------
(***************************************************************************)
(* PancakeExtentManager (pancake_extent_mgr.{h,cc}) over a raw device: the *)
(* allocator of extent blocks.  Every operation runs under one FIFO mutex  *)
(* and is cut into steps at its co_await points: between two steps of a    *)
(* call other calls may queue up, the awaited device operation may fail or *)
(* tear the block, and the process may stop.                               *)
(*                                                                         *)
(* A "slot" is the index of an extent block (ext_block_index).  A bitmap   *)
(* block is the set of its entries that are marked used.                   *)
(***************************************************************************)
EXTENDS Integers, Sequences

CONSTANTS
    ExtentIds,              \* extent ids that callers use
    Calls,                  \* calls that may be in flight at once
    NoExtent,               \* the id field of a block that is no header
    extent_block_count,     \* arguments of PancakeExtentManager::Init
    bitmap_block_count,
    k_block_data_size,      \* entries per bitmap block (one byte each)
    U32,                    \* 2^32, the modulus of uint32_t
    OwnHeader               \* what ExtentHeaderBlock::Deserialize answers on
                            \* the bytes ExtentHeaderBlock::Serialize wrote

OK == "PANCAKE_STORE_OK"
MagicIllegal == "DATANODE_STORAGE_BLOCK_MAGIC_ILLEGAL"
CrcMismatch == "DATANODE_STORAGE_BLOCK_CRC_MISMATCH"
ReadFailed == "DATANODE_STORAGE_IO_READ_AT_FAILED"
WriteFailed == "DATANODE_STORAGE_IO_WRITE_AT_FAILED"
AlreadyExists == "DATANODE_STORAGE_EXTENT_ALREADY_EXISTS"
NotExists == "DATANODE_STORAGE_EXTENT_NOT_EXISTS"
FsFull == "DATANODE_STORAGE_FS_FULL"
CodeError == "PANCAKE_STORE_CODE_ERROR"
InternalError == "DATANODE_STORAGE_INTERNAL_ERROR"
NoReply == "NO_REPLY"

ErrorCode == {OK, MagicIllegal, CrcMismatch, ReadFailed, WriteFailed, NotExists,
              AlreadyExists, FsFull, CodeError, InternalError, NoReply}

\* The check of the counts at the head of PancakeExtentManager::Init, with the
\* product in uint32_t.
InitAccepts(bitmap_blocks, extents) == extents <= (bitmap_blocks * k_block_data_size) % U32

ASSUME SizeAssumption ==
    /\ k_block_data_size \in Nat \ {0}
    /\ U32 \in Nat \ {0}
    /\ bitmap_block_count \in Nat \ {0}
    /\ extent_block_count \in Nat \ {0}
    /\ bitmap_block_count <= extent_block_count
    /\ InitAccepts(bitmap_block_count, extent_block_count)

ASSUME IdAssumption == NoExtent \notin ExtentIds

ASSUME CodecAssumption == OwnHeader \in ErrorCode

Slots == 0 .. extent_block_count - 1
BitmapBlocks == 0 .. bitmap_block_count - 1
Entries == 0 .. k_block_data_size - 1
NoIndex == -1       \* std::numeric_limits<uint32_t>::max()

Ops == {"AddExtent", "DelExtent", "CurrentAllocCount", "CurrentFreeCount"}
NoRequest == [op |-> "CurrentAllocCount", id |-> NoExtent, index |-> NoIndex]

\* The first block of an extent block.  "own": written by AddExtent; "foreign":
\* already there when the device was handed over (MakeFS erases nothing), and
\* well formed for Deserialize; "junk": anything else, a torn write included.
HeaderBlock == [kind : {"own", "foreign", "junk"},
                id : ExtentIds \cup {NoExtent}, index : Slots \cup {NoIndex}]
JunkHeader == [kind |-> "junk", id |-> NoExtent, index |-> NoIndex]
ForeignHeader(id) == [kind |-> "foreign", id |-> id, index |-> NoIndex]

\* AddExtent stores the slot in the header before it serializes it.
HeaderFor(id, i) == [kind |-> "own", id |-> id, index |-> i]

\* A block of the bitmap area.
BitMapBlock == [kind : {"bitmap", "junk"}, used : SUBSET Entries]
JunkBitmap == [kind |-> "junk", used |-> {}]
BitmapOf(used) == [kind |-> "bitmap", used |-> used]

VARIABLES
    up,                 \* the manager object exists and Init has returned OK
    bitmap_,            \* the slots whose bit is set
    cursor_,
    used_cnt_,
    extent_offset_map_, \* extent -> slot of its device offset, or NoIndex
    mutex_,             \* calls holding or awaiting the lock; the head holds it
    pc,                 \* call -> where it is suspended
    req,                \* call -> its operation and the caller's header
    buf,                \* call -> the bitmap block being written
    reply,              \* call -> code and value of its last answer
    headers,            \* device: slot -> its header block
    bitmaps,            \* device: the bitmap area
    acked,              \* history: extent -> slot acknowledged to a caller and
                        \* not asked to be deleted since, or NoIndex
    synced              \* history: bitmap blocks whose last write succeeded

memory == <<up, bitmap_, cursor_, used_cnt_, extent_offset_map_>>
calls == <<mutex_, pc, req, buf, reply>>
device == <<headers, bitmaps>>
history == <<acked, synced>>
vars == <<memory, calls, device, history>>

TypeOK ==
    /\ up \in BOOLEAN
    /\ bitmap_ \in SUBSET Slots
    /\ cursor_ \in 0 .. bitmap_block_count
    /\ used_cnt_ \in 0 .. extent_block_count
    /\ extent_offset_map_ \in [ExtentIds -> Slots \cup {NoIndex}]
    /\ mutex_ \in Seq(Calls)
    /\ pc \in [Calls -> {"idle", "queued", "header", "read", "bitmap"}]
    /\ req \in [Calls -> [op : Ops, id : ExtentIds \cup {NoExtent},
                          index : Slots \cup {NoIndex}]]
    /\ buf \in [Calls -> SUBSET Entries]
    /\ reply \in [Calls -> [code : ErrorCode, value : Int]]
    /\ headers \in [Slots -> HeaderBlock]
    /\ bitmaps \in [BitmapBlocks -> BitMapBlock]
    /\ acked \in [ExtentIds -> Slots \cup {NoIndex}]
    /\ synced \in SUBSET BitmapBlocks

-----------------------------------------------------------------------------
(* The bitmap blocks.                                                      *)

bitmapIndex(i) == i \div k_block_data_size

\* The byte of its bitmap block that stands for slot i.
InnerIndex(i) == i % k_block_data_size

\* Mutant of CloneBitMapBlock: the first slot of the block is off by one.
CloneFromNextSlot(b) ==
    {e \in Entries : b * k_block_data_size + e + 1 \in bitmap_}

\* Mutant of CloneBitMapBlock: the last block is not cut off at extent_block_count,
\* and what lies behind the end of bitmap_ reads as set.
CloneOverruns(b) ==
    LET start == b * k_block_data_size
    IN  {e \in Entries : start + e >= extent_block_count \/ start + e \in bitmap_}

\* cloneBitMapBlockWithoutLock: the part of bitmap_ that block b covers,
\* counted from the block's first slot; the last block ends with bitmap_.
CloneBitMapBlock(b) ==
    LET start == b * k_block_data_size
    IN  {e \in Entries : start + e < extent_block_count /\ start + e \in bitmap_}

markExtentBlockUsed(block, i) == block \cup {InnerIndex(i)}

markExtentBlockUnused(block, i) == block \ {InnerIndex(i)}

-----------------------------------------------------------------------------
(* The mutex, the calls and the device.                                    *)

\* Mutant of Holds: the lock is taken shared, so every queued call runs.
HoldsShared(c) == \E n \in 1 .. Len(mutex_) : mutex_[n] = c

Holds(c) == mutex_ # <<>> /\ Head(mutex_) = c

\* A caller invokes an operation: with_lock queues it.
Invoke(c, op, id, index) ==
    /\ up
    /\ pc[c] = "idle"
    /\ pc' = [pc EXCEPT ![c] = "queued"]
    /\ req' = [req EXCEPT ![c] = [op |-> op, id |-> id, index |-> index]]
    /\ reply' = [reply EXCEPT ![c] = [code |-> NoReply, value |-> NoIndex]]
    /\ mutex_' = Append(mutex_, c)
    /\ UNCHANGED <<memory, buf, device, history>>

\* The holder is suspended at `at` in operation op.
In(c, op, at) == Holds(c) /\ pc[c] = at /\ req[c].op = op

\* The holder awaits a device operation.
Await(c, at) ==
    /\ pc' = [pc EXCEPT ![c] = at]
    /\ UNCHANGED <<mutex_, reply>>

\* The holder answers, releases the lock, and its frame is gone.
Return(c, code, value) ==
    /\ pc' = [pc EXCEPT ![c] = "idle"]
    /\ mutex_' = Tail(mutex_)
    /\ req' = [req EXCEPT ![c] = NoRequest]
    /\ buf' = [buf EXCEPT ![c] = {}]
    /\ reply' = [reply EXCEPT ![c] = [code |-> code, value |-> value]]

\* PancakeIO::WriteAt did not complete: the block may hold what it held, what
\* was being written, or neither.
TornHeader(c) ==
    \E h \in {headers[req[c].index], HeaderFor(req[c].id, req[c].index), JunkHeader} :
        headers' = [headers EXCEPT ![req[c].index] = h]

TornBitmap(c) ==
    LET b == bitmapIndex(req[c].index)
    IN  /\ \E m \in {bitmaps[b], BitmapOf(buf[c]), JunkBitmap} :
             bitmaps' = [bitmaps EXCEPT ![b] = m]
        /\ synced' = synced \ {b}

\* The bitmap write of call c succeeds.
WriteBitmap(c) ==
    LET b == bitmapIndex(req[c].index)
    IN  /\ bitmaps' = [bitmaps EXCEPT ![b] = BitmapOf(buf[c])]
        /\ synced' = synced \cup {b}

-----------------------------------------------------------------------------
(* AddExtent.                                                              *)

\* Mutant of Turns: the search ends at the last extent block.
TurnsToEnd == 0 .. extent_block_count - 1 - cursor_

\* The slots the search visits: cursor_ wraps at bitmap_block_count_, and the
\* loop makes extent_block_count_ turns.
Turns == 0 .. extent_block_count - 1

\* Mutant of Visited: the cursor is not wrapped.
VisitedUnwrapped(k) == cursor_ + k

Visited(k) == (cursor_ + k) % bitmap_block_count

Contains(id) == extent_offset_map_[id] # NoIndex

\* Mutant of AddRefusal: an extent already in the map is not refused.
AddRefusalUnchecked(id) ==
    IF used_cnt_ = extent_block_count THEN FsFull
    ELSE IF \A k \in Turns : Visited(k) \in bitmap_ THEN CodeError
    ELSE OK

\* What AddExtent answers before it touches the device; OK to go on.
AddRefusal(id) ==
    IF Contains(id) THEN AlreadyExists
    ELSE IF used_cnt_ = extent_block_count THEN FsFull
    ELSE IF \A k \in Turns : Visited(k) \in bitmap_ THEN CodeError
    ELSE OK

AddExtent(c, id) == Invoke(c, "AddExtent", id, NoIndex)

AddRefused(c) ==
    LET code == AddRefusal(req[c].id)
    IN  /\ In(c, "AddExtent", "queued")
        /\ code # OK
        /\ Return(c, code, NoIndex)
        /\ cursor_' = IF code = CodeError THEN Visited(extent_block_count - 1) + 1
                                          ELSE cursor_
        /\ UNCHANGED <<up, bitmap_, used_cnt_, extent_offset_map_, device, history>>

\* Mutant of AddAllocate: the slot under the cursor is taken without a look at
\* its bit.
AddAllocateAnySlot(c) ==
    /\ In(c, "AddExtent", "queued")
    /\ AddRefusal(req[c].id) = OK
    /\ cursor_' = Visited(0) + 1
    /\ req' = [req EXCEPT ![c].index = Visited(0)]
    /\ Await(c, "header")
    /\ UNCHANGED <<up, bitmap_, used_cnt_, extent_offset_map_, buf, device, history>>

\* The first free slot from cursor_ on is taken, put into the caller's header,
\* and the header write is issued.
AddAllocate(c) ==
    /\ In(c, "AddExtent", "queued")
    /\ AddRefusal(req[c].id) = OK
    /\ \E k \in Turns :
         /\ Visited(k) \notin bitmap_
         /\ \A j \in 0 .. k - 1 : Visited(j) \in bitmap_
         /\ cursor_' = Visited(k) + 1
         /\ req' = [req EXCEPT ![c].index = Visited(k)]
    /\ Await(c, "header")
    /\ UNCHANGED <<up, bitmap_, used_cnt_, extent_offset_map_, buf, device, history>>

\* Mutant of AddHeaderFailed: the error return forgets the lock.
AddHeaderFailedKeepsLock(c) ==
    /\ In(c, "AddExtent", "header")
    /\ TornHeader(c)
    /\ pc' = [pc EXCEPT ![c] = "idle"]
    /\ UNCHANGED <<memory, mutex_, req, buf, reply, bitmaps, history>>

AddHeaderFailed(c) ==
    /\ In(c, "AddExtent", "header")
    /\ TornHeader(c)
    /\ Return(c, WriteFailed, req[c].index)
    /\ UNCHANGED <<memory, bitmaps, history>>

\* Mutant of AddHeaderWritten: the map is updated before the bitmap is written.
AddHeaderWrittenMapsEarly(c) ==
    LET i == req[c].index
    IN  /\ In(c, "AddExtent", "header")
        /\ headers' = [headers EXCEPT ![i] = HeaderFor(req[c].id, i)]
        /\ buf' = [buf EXCEPT ![c] =
                       markExtentBlockUsed(CloneBitMapBlock(bitmapIndex(i)), i)]
        /\ extent_offset_map_' = [extent_offset_map_ EXCEPT ![req[c].id] = i]
        /\ Await(c, "bitmap")
        /\ UNCHANGED <<up, bitmap_, cursor_, used_cnt_, req, bitmaps, history>>

\* The header is on the device: the bitmap block is built from the memory
\* bitmap and its write is issued.
AddHeaderWritten(c) ==
    LET i == req[c].index
    IN  /\ In(c, "AddExtent", "header")
        /\ headers' = [headers EXCEPT ![i] = HeaderFor(req[c].id, i)]
        /\ buf' = [buf EXCEPT ![c] =
                       markExtentBlockUsed(CloneBitMapBlock(bitmapIndex(i)), i)]
        /\ Await(c, "bitmap")
        /\ UNCHANGED <<memory, req, bitmaps, history>>

\* Shared by AddExtent and DelExtent: the error goes to the caller and the
\* memory bitmap keeps its bit as it was.
BitmapFailed(c) ==
    /\ Holds(c) /\ pc[c] = "bitmap"
    /\ TornBitmap(c)
    /\ Return(c, WriteFailed, req[c].index)
    /\ UNCHANGED <<memory, headers, acked>>

AddBitmapWritten(c) ==
    LET i == req[c].index
        id == req[c].id
    IN  /\ In(c, "AddExtent", "bitmap")
        /\ WriteBitmap(c)
        /\ bitmap_' = bitmap_ \cup {i}
        /\ extent_offset_map_' = [extent_offset_map_ EXCEPT ![id] = i]
        /\ Return(c, OK, i)
        /\ acked' = [acked EXCEPT ![id] = i]
        /\ UNCHANGED <<up, cursor_, used_cnt_, headers>>

-----------------------------------------------------------------------------
(* DelExtent.  index is the bitmap_ext_index_ of the caller's header; an    *)
(* extent that is not in the map is only logged.                           *)

DelExtent(c, id, index) == Invoke(c, "DelExtent", id, index)

DelRead(c) ==
    /\ In(c, "DelExtent", "queued")
    /\ Await(c, "read")
    /\ UNCHANGED <<memory, req, buf, device, history>>

DelReadFailed(c) ==
    /\ In(c, "DelExtent", "read")
    /\ Return(c, ReadFailed, req[c].index)
    /\ UNCHANGED <<memory, device, history>>

\* ExtentHeaderBlock::Deserialize on a header block of the device.
Deserialize(h) ==
    CASE h.kind = "own" -> {OwnHeader}
      [] h.kind = "foreign" -> {OK}
      [] OTHER -> {MagicIllegal, CrcMismatch}

DelRejected(c) ==
    LET h == headers[req[c].index]
    IN  /\ In(c, "DelExtent", "read")
        /\ \E code \in Deserialize(h) :
             \/ /\ code # OK
                /\ Return(c, code, req[c].index)
             \/ /\ code = OK
                /\ h.id # req[c].id
                /\ Return(c, InternalError, req[c].index)
        /\ UNCHANGED <<memory, device, history>>

\* Mutant of DelChecked: the extent id read from the device is not compared.
DelCheckedAnyExtent(c) ==
    LET i == req[c].index
        id == req[c].id
    IN  /\ In(c, "DelExtent", "read")
        /\ OK \in Deserialize(headers[i])
        /\ buf' = [buf EXCEPT ![c] =
                       markExtentBlockUnused(CloneBitMapBlock(bitmapIndex(i)), i)]
        /\ Await(c, "bitmap")
        /\ acked' = IF acked[id] = i THEN [acked EXCEPT ![id] = NoIndex] ELSE acked
        /\ UNCHANGED <<memory, req, device, synced>>

\* The header on the device names the extent: the slot's bit is to be cleared.
DelChecked(c) ==
    LET i == req[c].index
        id == req[c].id
    IN  /\ In(c, "DelExtent", "read")
        /\ OK \in Deserialize(headers[i])
        /\ headers[i].id = id
        /\ buf' = [buf EXCEPT ![c] =
                       markExtentBlockUnused(CloneBitMapBlock(bitmapIndex(i)), i)]
        /\ Await(c, "bitmap")
        /\ acked' = IF acked[id] = i THEN [acked EXCEPT ![id] = NoIndex] ELSE acked
        /\ UNCHANGED <<memory, req, device, synced>>

\* The map entry of the extent stays.
DelBitmapWritten(c) ==
    LET i == req[c].index
    IN  /\ In(c, "DelExtent", "bitmap")
        /\ WriteBitmap(c)
        /\ bitmap_' = bitmap_ \ {i}
        /\ Return(c, OK, i)
        /\ UNCHANGED <<up, cursor_, used_cnt_, extent_offset_map_, headers, acked>>

-----------------------------------------------------------------------------
(* The counters.                                                           *)

CurrentAllocCount(c) == Invoke(c, "CurrentAllocCount", NoExtent, NoIndex)

CurrentFreeCount(c) == Invoke(c, "CurrentFreeCount", NoExtent, NoIndex)

CountAnswered(c) ==
    /\ Holds(c) /\ pc[c] = "queued"
    /\ \/ /\ req[c].op = "CurrentAllocCount"
          /\ Return(c, OK, used_cnt_)
       \/ /\ req[c].op = "CurrentFreeCount"
          /\ Return(c, OK, extent_block_count - used_cnt_)
    /\ UNCHANGED <<memory, device, history>>

-----------------------------------------------------------------------------
(* Start and stop of the process.                                          *)

\* A new object is given to PancakeExtentManager::Init; nothing is read back
\* from the device.  What it acknowledges from here on is a new history.
Start ==
    /\ ~up
    /\ InitAccepts(bitmap_block_count, extent_block_count)
    /\ up' = TRUE
    /\ bitmap_' = {}
    /\ cursor_' = 0
    /\ used_cnt_' = 0
    /\ extent_offset_map_' = [id \in ExtentIds |-> NoIndex]
    /\ acked' = [id \in ExtentIds |-> NoIndex]
    /\ synced' = {}
    /\ UNCHANGED <<calls, device>>

\* Everything but the device and the history is lost.
LoseMemory ==
    /\ up
    /\ up' = FALSE
    /\ bitmap_' = {}
    /\ cursor_' = 0
    /\ used_cnt_' = 0
    /\ extent_offset_map_' = [id \in ExtentIds |-> NoIndex]
    /\ mutex_' = <<>>
    /\ pc' = [c \in Calls |-> "idle"]
    /\ req' = [c \in Calls |-> NoRequest]
    /\ buf' = [c \in Calls |-> {}]
    /\ reply' = [c \in Calls |-> [code |-> NoReply, value |-> NoIndex]]
    /\ UNCHANGED acked

\* The process stops; a write in flight may or may not have reached the device.
CrashQuiet ==
    /\ \A c \in Calls : pc[c] \notin {"header", "bitmap"}
    /\ LoseMemory
    /\ synced' = {}
    /\ UNCHANGED device

CrashInHeaderWrite(c) ==
    /\ pc[c] = "header"
    /\ TornHeader(c)
    /\ LoseMemory
    /\ synced' = {}
    /\ UNCHANGED bitmaps

CrashInBitmapWrite(c) ==
    LET b == bitmapIndex(req[c].index)
    IN  /\ pc[c] = "bitmap"
        /\ \E m \in {bitmaps[b], BitmapOf(buf[c]), JunkBitmap} :
             bitmaps' = [bitmaps EXCEPT ![b] = m]
        /\ LoseMemory
        /\ synced' = {}
        /\ UNCHANGED headers

-----------------------------------------------------------------------------
Init ==
    /\ up = FALSE
    /\ bitmap_ = {}
    /\ cursor_ = 0
    /\ used_cnt_ = 0
    /\ extent_offset_map_ = [id \in ExtentIds |-> NoIndex]
    /\ mutex_ = <<>>
    /\ pc = [c \in Calls |-> "idle"]
    /\ req = [c \in Calls |-> NoRequest]
    /\ buf = [c \in Calls |-> {}]
    /\ reply = [c \in Calls |-> [code |-> NoReply, value |-> NoIndex]]
    /\ headers \in [Slots -> {JunkHeader} \cup {ForeignHeader(id) : id \in ExtentIds}]
    /\ bitmaps = [b \in BitmapBlocks |-> JunkBitmap]
    /\ acked = [id \in ExtentIds |-> NoIndex]
    /\ synced = {}

\* What a call does once it is queued; nothing here waits for a caller.
Progress(c) ==
    \/ AddRefused(c) \/ AddAllocate(c)
    \/ AddHeaderFailed(c) \/ AddHeaderWritten(c)
    \/ AddBitmapWritten(c) \/ BitmapFailed(c)
    \/ DelRead(c) \/ DelReadFailed(c) \/ DelRejected(c) \/ DelChecked(c)
    \/ DelBitmapWritten(c)
    \/ CountAnswered(c)

Next ==
    \/ Start
    \/ CrashQuiet
    \/ \E c \in Calls :
         \/ CrashInHeaderWrite(c)
         \/ CrashInBitmapWrite(c)
         \/ \E id \in ExtentIds : AddExtent(c, id)
         \/ \E id \in ExtentIds, i \in Slots : DelExtent(c, id, i)
         \/ CurrentAllocCount(c)
         \/ CurrentFreeCount(c)
         \/ Progress(c)

Spec == Init /\ [][Next]_vars

\* The reactor runs every ready continuation and every device operation is
\* answered, with success or with an error.
Fairness == \A c \in Calls : WF_vars(Progress(c))

FairSpec == Spec /\ Fairness

-----------------------------------------------------------------------------
(* Properties.                                                             *)

\* AddExtent's two device writes and its memory update: a slot whose bit is
\* set in bitmap_ holds, on the device, the intact header of the one extent
\* that extent_offset_map_ places there, so two extents never share a slot.
SlotOwner ==
    \A i \in bitmap_ :
        /\ headers[i].kind = "own"
        /\ headers[i].index = i
        /\ headers[i].id \in ExtentIds
        /\ extent_offset_map_[headers[i].id] = i

\* An extent whose AddExtent was answered OK stays on the device through later
\* calls, failed writes and a stop of the process: its header is intact, and
\* its bitmap entry is marked unless the whole bitmap block was torn.
AckedIsDurable ==
    \A id \in ExtentIds :
        LET i == acked[id]
        IN  i # NoIndex =>
                /\ headers[i] = HeaderFor(id, i)
                /\ LET m == bitmaps[bitmapIndex(i)]
                   IN  m.kind = "bitmap" => InnerIndex(i) \in m.used

\* Write-through of the bitmap: a bitmap block whose last write was answered
\* without error is, on the device, exactly what bitmap_ says, whichever calls
\* wrote it and in whatever order they were queued.
BitmapWriteThrough ==
    up => \A b \in synced :
            bitmaps[b] = BitmapOf({e \in Entries : b * k_block_data_size + e \in bitmap_})

\* An add that is not acknowledged leaves nothing behind in memory: the map
\* holds exactly the extents whose slot was acknowledged.  It relies on
\* DelExtent never getting past the header check on a header of its own.
MapIsAcknowledged ==
    up => extent_offset_map_ = acked

\* The lock is passed on, on the error returns too: a call that was not answered
\* is in the queue of the lock, once, and no call is left in it that was, so that
\* nobody waits behind a call that is over.
QueueIsPending ==
    /\ \A n \in DOMAIN mutex_ :
         /\ pc[mutex_[n]] # "idle"
         /\ \A m \in DOMAIN mutex_ : mutex_[m] = mutex_[n] => m = n
    /\ \A c \in Calls : pc[c] # "idle" => \E n \in DOMAIN mutex_ : mutex_[n] = c

\* The search of AddExtent gives up only when all the slots are in use that it
\* ever gets to, wherever the cursor stands and whichever slots were given back:
\* a new extent is placed exactly when one of them is free, and nowhere else.
\* They are as many as there are bitmap blocks (pancake_extent_mgr.cc 59), not as
\* there are extent blocks.
Reach == 0 .. bitmap_block_count - 1
SearchIsExhaustive ==
    /\ bitmap_ \subseteq Reach
    /\ \A id \in ExtentIds : AddRefusal(id) = OK <=> ~Contains(id) /\ bitmap_ # Reach

\* AddExtent never writes over the header of a slot in use: a step changes a
\* header block only while the slot's bit is clear.
HeaderOfUsedSlotKept ==
    [][\A i \in bitmap_ : headers'[i] = headers[i]]_vars

\* "code error!!!! not found usable extent block.": AddExtent does not get there,
\* as a full device is refused before the search and on any other the search
\* finds an unused block.
CodeErrorNotReached ==
    [][\A c \in Calls : AddRefused(c) => reply'[c].code # CodeError]_vars

\* Every call is answered (or the process stops): the lock is always handed
\* on, on the error returns too.
EveryCallReturns ==
    \A c \in Calls : pc[c] # "idle" ~> pc[c] = "idle"

\* The manager with its locks, awaits and failing writes implements the
\* abstract allocation: AddExtent and DelExtent take effect in one step, and
\* an extent is placed at most once in the life of the object.
Allocation ==
    INSTANCE ExtentAllocation WITH
        owner <- [i \in Slots |-> IF i \in bitmap_ THEN headers[i].id ELSE NoExtent],
        known <- {id \in ExtentIds : Contains(id)}

ImplementsAllocation == Allocation!Spec

-----------------------------------------------------------------------------
(* The inductive invariant behind the properties above.                    *)

\* Who is suspended past the lock holds it, and its request has the arguments
\* of its operation.
CallsWellFormed ==
    \A c \in Calls :
        /\ pc[c] # "idle" => up
        /\ pc[c] \in {"header", "read", "bitmap"} => Holds(c)
        /\ pc[c] = "header" => req[c].op = "AddExtent"
        /\ pc[c] = "read" => req[c].op = "DelExtent"
        /\ pc[c] = "bitmap" => req[c].op \in {"AddExtent", "DelExtent"}
        /\ pc[c] # "idle" /\ req[c].op \in {"AddExtent", "DelExtent"} =>
               req[c].id \in ExtentIds
        /\ pc[c] # "idle" /\ req[c].op = "DelExtent" => req[c].index \in Slots
        /\ pc[c] \in {"header", "bitmap"} => req[c].index \in Slots

\* An add past its search: the slot it took is still free, its extent unknown.
AddInFlight ==
    \A c \in Calls :
        pc[c] \in {"header", "bitmap"} /\ req[c].op = "AddExtent" =>
            /\ req[c].index \notin bitmap_
            /\ ~Contains(req[c].id)

\* A call at its second write: what it writes is bitmap_ with the one bit
\* changed, its header stands, and no acknowledged extent loses its entry.
BitmapInFlight ==
    \A c \in Calls : pc[c] = "bitmap" =>
        LET i == req[c].index
            clone == CloneBitMapBlock(bitmapIndex(i))
        IN  /\ req[c].op = "AddExtent" =>
                  /\ headers[i] = HeaderFor(req[c].id, i)
                  /\ buf[c] = markExtentBlockUsed(clone, i)
            /\ req[c].op = "DelExtent" =>
                  /\ buf[c] = markExtentBlockUnused(clone, i)
                  /\ \A id \in ExtentIds : acked[id] # i

\* What is acknowledged is in use.
AckedInUse ==
    up => \A id \in ExtentIds : acked[id] # NoIndex => acked[id] \in bitmap_

\* bitmap_ is empty while there is no manager object.
DownIsEmpty == ~up => bitmap_ = {}

IInv ==
    /\ TypeOK
    /\ CallsWellFormed
    /\ AddInFlight
    /\ BitmapInFlight
    /\ AckedInUse
    /\ DownIsEmpty
    /\ SlotOwner
    /\ AckedIsDurable
    /\ BitmapWriteThrough
=============================================================================
