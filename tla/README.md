# pancake-store: a TLA+ verification project

pancake-store is a C++ (Seastar) storage node.  A *datanode* owns raw block
devices; on each device the *pancake engine* keeps 64 MB *extents*, an
allocation bitmap, super blocks and (planned by its authors) a journal.  This
project models the parts of the node that hold state and can be got wrong in
ways a unit test hardly reaches: the extent allocator, the on-device blocks, the
making of a file system, the RPC layer with both its ends, the service that
manages devices, and the configuration a node starts with.  Paths below are relative to the repository
root; `pancake/` stands for `src/datanode/storage/engine/pancake/`.

## 1. Inventory

| component | state | operations | interacts with | hard behaviour |
|---|---|---|---|---|
| extent manager (`pancake/pancake_extent_mgr.*`) | `bitmap_`, `cursor_`, `used_cnt_`, `extent_offset_map_`, one `shared_mutex`; header and bitmap blocks on the device | `Init`, `AddExtent`, `DelExtent`, `CurrentAllocCount`, `CurrentFreeCount` | writes and reads through `PancakeIO`, uses the block codec | calls queue on the lock and are suspended at each `co_await`; two device writes per add, each may fail or tear; the process may stop between them |
| block codec (`pancake/pancake_block.*`) | none; five on-device formats | `Serialize`, `Deserialize` of `SuperBlock`, `BitMapBlock`, `DataBlock`, `JournalBlock`, `ExtentHeaderBlock` | used by the extent manager | the field list is written down twice per block; lengths used before the CRC; sizes |
| device I/O (`pancake/pancake_io.*`, `pancake_comm.*`) | the open file | `Init`, `ReadAt`, `WriteAt` | used by extent manager and engine | short and failed writes |
| layout (`pancake/pancake_layout.*`) | six regions | `BuildLayout`, getters | used by `MakeFS`; its counts are the arguments of the extent manager's `Init` | unsigned wrap, units |
| pancake engine (`pancake/pancake.*`, `engine.*`) | `device_capacity_`, ids | `MakeFS`; all other bodies are empty or return a field | layout, device functions, I/O | partial failure |
| device functions (`src/datanode/comm/device.*`) | none | mount state, uuid, size from `/proc`, `/sys`, `/dev` | used by `MakeFS` | answers of the OS |
| CRC (`src/comm/crc.*`) | none | `CRC32` | codec | - |
| configuration and start (`src/datanode/comm/config.*`, `main.cc`) | singleton | `ParseConfig`, `CheckConfig`, start of the first worker | manager service | shapes of values, exceptions in the middle of assignments |
| manager service (`src/datanode/service/manager_service.*`) | `data_services_`, a lock | `addDevice`, `delDevice` | RPC layer, configuration | request kept by reference over a lock |
| RPC layer (`src/rpc/*`) | handler table; request and response of each call | registration, decoding, answer, release | manager service, callers | which handler a verb reaches, what is decoded, lifetime |
| RPC callers (`src/pkg/rpc_caller/*`; `tools/client` does the same by hand) | connection, `closed_` | construction, eight calls, `Close`, destructor | RPC layer | lost and silent connections, server stops, late answers |
| data service, storage, posix and SPDK engines, cache, statistics | - | empty classes | - | - |

What makes each modelled component correct:

* *extent manager*: two extents never share an extent block; an extent that was
  acknowledged stays readable on the device through later calls, failed writes
  and a stop of the process; the bitmap on the device is the bitmap in memory
  wherever the last write succeeded; a failed add leaves nothing behind; every
  call is answered; seen from outside, an add or a delete takes effect at once.
* *codec and I/O*: what a `Deserialize` accepts is one image that was written,
  never a mixture; what was written without error is read back; no block is
  longer than its place.
* *layout and MakeFS*: the regions do not overlap, lie on the device, and are
  accepted by the extent manager.
* *RPC layer and callers*: a call is answered by its own operation's handler, run
  at most once; its caller is told one code, the handler's or that the call
  failed, and is told eventually; a request exists while its handler runs.
* *manager service*: OK only for what was really asked; nobody waits behind a
  call that is over.
* *configuration*: a datanode serves only with a whole, checked configuration.

The hazards behind these properties are listed, line by line, in
`PROJECT.json`.

## 2. Modules

| module | models |
|---|---|
| `ExtentAllocation` | what the extent manager promises: a slot has one owner, an extent is placed at most once per object |
| `PancakeExtentManager` | the extent manager over its device |
| `PancakeExtentManagerProofs` | theorems about it |
| `PancakeBlock` | layouts of the blocks, size of what `Serialize` returns, outcome of `Deserialize` |
| `PancakeBlockProofs` | theorems about the layouts and about what `Deserialize` accepts |
| `PancakeBlockDevice` | one device block under writes of all kinds, torn writes and rot |
| `PancakeBlockDeviceProofs` | theorems about it |
| `PancakeLayout` | `BuildLayout` in the arithmetic of its types |
| `PancakeMakeFS` | `MakeFS` step by step |
| `PancakeMakeFSProofs` | theorems about layout and `MakeFS` |
| `RemoteCall` | what a remote call promises to who makes it |
| `DatanodeRpc` | RPC layer, callers and network, with handlers of any kind |
| `DatanodeRpcProofs` | theorems about it |
| `ManagerService` | `DatanodeRpc` with the handlers of the device server |
| `ManagerServiceProofs` | theorems about it |
| `DatanodeConfig` | configuration and start of a datanode |
| `DatanodeConfigProofs` | theorems about it |
| `MCExtentManager`, `MCBlockDevice`, `MCMakeFS`, `MCDatanodeRpc`, `MCManagerService`, `MCDatanodeConfig` | instances for TLC |

`MCExtentManager` joins the codec to the manager: the constant `OwnHeader` (what
`Deserialize` answers on a header that `AddExtent` wrote) is taken from
`PancakeBlock!OwnHeaderOutcome`, so a repair of the codec changes the manager's
runs by itself.

### PancakeExtentManager

*State.*  `bitmap_` is the set of slots whose bit is set; the offsets in
`extent_offset_map_` are represented by their slots (the offset is an injective
function of the slot).  `mutex_` is the FIFO queue of the lock, its head the
holder.  A call has a `pc`: `queued` (waiting for the lock, or just granted),
`header`, `read`, `bitmap` (suspended at the `co_await` on that device
operation).  `headers` and `bitmaps` are the blocks on the device.  `acked` and
`synced` are history: what callers were told, and which bitmap blocks were last
written without error.

*Actions.*  One call is the chain of actions between its `co_await`s:

| code | actions |
|---|---|
| `AddExtent` 43-46 | `AddExtent` (queue) |
| 47-70 | `AddRefused`: exists, full, nothing found (the cursor has moved) |
| 57-82 | `AddAllocate`: search, slot into the header, header write issued |
| 82-86 | `AddHeaderFailed` |
| 82-98 | `AddHeaderWritten`: clone, mark, bitmap write issued |
| 98-102, 164-168 | `BitmapFailed` |
| 98-111 | `AddBitmapWritten`: commit |
| `DelExtent` 115-130 | `DelExtent`, `DelRead` |
| 130-152 | `DelReadFailed`, `DelRejected` |
| 146-164 | `DelChecked` |
| 164-173 | `DelBitmapWritten` (the map entry stays) |
| counters 183-193 | `CurrentAllocCount`, `CurrentFreeCount`, `CountAnswered` |
| `Init` 12-41 | `Start` |

A write that fails, or during which the process stops (`CrashQuiet`,
`CrashInHeaderWrite`, `CrashInBitmapWrite`), leaves the old block, the new block
or junk.  The process can stop at any point; a new object starts from `Init`,
which reads nothing back, and begins a new history.

*Reading of the code.*  The lambdas mix `return` and `co_await` and capture the
parameters by reference, so they do not compile as they stand; they are modelled
with `return` read as `co_return` and the captures as the values they stand for.
`MakeFS` writes nothing, so a device begins with whatever it held: blocks that no
`Deserialize` accepts, or blocks that read as the header of an extent
(`foreign`).  Callers of `DelExtent` pass a slot of the device.

*Assumptions* (`SizeAssumption`): the counts passed `Init`'s check, whose product is
taken in 32 bits (the checks of the offsets behind it have no counterpart, as slots
stand for offsets), and there
are at most as many bitmap blocks as extents (`BuildLayout` divides and rounds
up); otherwise `bitmap_[cursor_]` would be out of range.

### PancakeBlock and PancakeBlockDevice

A layout is the sequence of (field, width) that `Serialize` appends, and that
`Deserialize` reads, with the repository's real sizes.  A device block is known
by the image each of its sectors comes from and by its rotten bytes.
`Deserialize` is: all magics where they are looked for, lengths as written, and
the CRC over exactly the bytes that were summed.  The CRC is ideal, and payload
bytes do not imitate a magic.  The size check at the head of each `Deserialize`
always passes: what is read is one block.  A sector is written whole or not at
all.  `Builds` tells builds with `assert` from builds without.

### PancakeLayout and PancakeMakeFS

`BuildLayout` keeps the widths of the code: the extent count is cut to 32 bits,
the padding count wraps at 64 bits.  `MakeFS` is two steps, before and after the
`co_await` on opening the device; what the operating system answers is an input.

### DatanodeRpc and ManagerService

*State.*  Of each call: who made it and what it asks (`call`), where its request
or answer is (`stage`), what the server has sent (`answer`), whether request and
response objects exist (`live`), and what its caller returned (`reported`).  Of
each caller: the state of `client_` (`connection`) and `closed_`.  Of the server:
whether it listens, and its handler table.  `ManagerService` adds `data_services_`
and `mutex_`, the FIFO queue of the lock.

| code | actions |
|---|---|
| `ManagerService::Start` 13-29, `Register*` | `Start` (registration, listening) |
| the lambda of a verb, `datanode.cc` 20-30 | `Receive`; in the service `Invoke`, which goes on into `addDevice` up to the lock |
| its continuation 31-41 | `HandlerReturns`; `HandlerThrows` when the handler's future has failed |
| `addDevice` 37-51, 53-66 | `addDeviceRefused`, `addDevice` |
| `delDevice` | `delDevice` |
| callers: constructor, call, answer, exception | `Connect`, `Send`, `Deliver`, `Fail` |
| `Close`, destructor | `Close`, `Closed`, `Destroy`, `Terminate` |
| external: network, transport, process | `Break`, `Silence`, `Lose`, `ReceiveUnknown`, `Crash` |

The eight `Register` functions and the eight methods of the callers have one shape
each and are one definition each, with the operation as parameter.

A request is the values of its fields, the first field whose bytes hold a zero byte,
and what the part in front of that byte reads as.  `ParseFromString(c_str())` cuts
there; the parser has by then set the fields in front and, in part, the field
itself, which may so read as any value.  A varint has no zero byte; a message does
when one of its strings has, or when it is empty (its length).

*Reading of Seastar.*  Request and answer are carried as strings by `serializer.h`, a
length and that many bytes, which keeps zero bytes; it is taken as part of the
transport.  A verb keeps its first registration.  (If the library throws
at the second, `Start` fails and the node never listens: `DatanodeConfig` has that
outcome, and no property here depends on the choice except `AnsweredByOwnHandler`,
which is about it.)  A verb without a handler is answered with an exception.  The
client fails the calls that wait on a connection that breaks or is stopped.
`AddDevice` is the first handler the device server registers, which
`RpcAssumption` asks of every order of registrations that contains it.

*Owners.*  No code in the repository owns a caller.  `Destroy` asks its owner to
have waited for its calls, because their continuations keep raw pointers to it;
`Terminate` is the destructor of a caller that was not closed.  All callers are in
one client process.

### `Repaired`

Three defects of the code hide what lies behind them: under one verb only
`addDevice` is ever reached; no answer is ever read as one; no configuration is ever
accepted.  The constant `Repaired` names those to take as repaired (`"verb"`,
`"answer"`, `"scalar"`); `{}` is the code as it stands.  The runs say which they
use, and the theorems hold for every value unless they say otherwise.

### DatanodeConfig

A file is missing, unreadable, not a map, or a map whose node for each key is absent,
null, a sequence or map, or a scalar with its value.  `as<std::string>` reads a
null as the text "null" and refuses structures; `as<uint16_t>` refuses what is no
number of 16 bits.  `ParseConfig` assigns the fields in order until one throws.
`main` ends without an error status when the file is refused, with the exception
otherwise.  `--version` ends the process at once and is left out.

## 3. Runs

| run | result | what it shows |
|---|---|---|
| `extent_manager` | holds, 918,562 states | all safety properties and the refinement, for the code as it stands |
| `extent_manager_decodable` | holds, 297,239 states | the same with a header codec that works, so that deletes of added extents succeed and slots are reused; the properties do not rest on the broken codec |
| `extent_manager_live` | holds, 43,233 states | `EveryCallReturns` |
| `code_error_reached` | violated | the search of `AddExtent` wraps at the number of bitmap blocks and comes to "code error!!!!" |
| `block_device` | holds, 56,080 states | what each `Deserialize` can accept after torn writes and rot |
| `header_not_readable` | violated | `Deserialize` of the header misses a byte |
| `make_fs` | holds, 2,814 states | layouts are in order exactly while the bitmap fits, and accepted while the count fits |
| `datanode_rpc` | holds, 1,416,187 states | RPC layer with data operations and handlers that return or throw; verbs and answers repaired |
| `manager_service` | holds, 307,140 states | the device server as the code stands |
| `manager_service_live` | holds, 171,156 states | `EveryCallReported`, `ClosedCallerIsDone` and `ToldAddedAsAsked`, with `delDevice` reached; verbs and answers repaired |
| `good_answer_parse_failure` | violated | every well-formed answer is reported as one that cannot be parsed |
| `datanode_config` | holds, 15,558 states | what a node that serves has for a configuration; scalar tests repaired |

The violated properties state what a comment or a log line of the code says;
`PROJECT.json` quotes each under `findings`.  Other places where the code does not
do what is written beside it, met while modelling and not given a run:

* `pancake_extent_mgr.cc:53` tests `used_cnt_`, which is never counted, so a full
  device is never answered FS_FULL (it ends in `code_error_reached` too);
* `pancake_extent_mgr.cc:120` logs that an extent is not found and goes on to delete
  it; the model's `DelRead` does so;
* `pancake_block.cc:487` appends `reserved_` twice, so a journal block is 3 bytes
  too long for the assertion at 493; `NoOversizedBlock` shows that it never
  reaches the device;
* `pancake_layout.cc:39` wraps on devices whose bitmap does not fit in front of the
  extents: `MadeRegionsInOrder` says exactly there;
* `pancake_layout.cc:64` counts extents in units of 4064 bytes, not of 64 MB, so
  the extents of a layout reach beyond the device;
* `rpc/datanode.cc:47` and all further registrations use the verb of AddDevice, so
  DelDevice fails on a connection that is up (`ReceiveUnknown` in
  `manager_service`);
* `rpc/datanode.cc:23` cuts requests at a zero byte: `AddedAsAsked` shows that
  `addDevice` is safe from it, `WriteAtRequest.data` will not be;
* `manager_service.cc:60` records nothing, so a device is added again and again;
* nothing reads `timeout_ms` (`common.proto:10`): a call on a connection that goes
  silent is reported only when its caller is closed (`EveryCallReported`,
  `ClosedCallerIsDone`);
* `config.cc:27`-`52` refuse a key that is there: `NoFileIsAcceptedHolds`.

*Properties of the passing runs.*

* `SlotOwner`: a set bit means an intact header, of the extent the map places
  there.
* `AckedIsDurable`: an acknowledged extent keeps its header, and its bitmap entry
  unless the whole bitmap block was torn.  (That exception is real: there is no
  journal, so a torn rewrite can lose the entries of older extents.  Their
  headers remain.)
* `BitmapWriteThrough`: a bitmap block on the device is the part of `bitmap_` it
  stands for.  It is stated without the code's clone, so that the start and the end
  of the copy are checked as well as the exclusion of other calls.
* `MapIsAcknowledged`, `HeaderOfUsedSlotKept`: see the comments in the module.  `MapIsAcknowledged` is checked only for the code as it
  stands: with a working codec a deleted extent stays in the map.
* `ImplementsAllocation`: refinement of `ExtentAllocation` with the owner of a
  slot read from its header.  The abstract specification records that an
  extent's id is not placed again after its delete, which is what the code does.
* `QueueIsPending`: a call is in the queue of the lock exactly until it is answered.
  An error return that forgot the lock, or gave back another's, breaks it.
* `SearchIsExhaustive`: `AddExtent` places an extent exactly when one of the first
  `bitmap_block_count` slots is free, wherever the cursor stands.  This is the
  search as it is; `code_error_reached` shows that it is not the search that was
  meant.
* `EveryCallReturns`: under weak fairness of the steps of each call.
* `AcceptedIsOneImage`: besides torn blocks it says which kinds can be mistaken
  for which: the footers carry no type, so an extent header or data block passes
  as a bitmap block.
* `AcknowledgedReadsBack`, `NoOversizedBlock`, `MadeLayoutIsAccepted`,
  `MadeRegionsInOrder`: see the modules.
* `AnsweredByOwnHandler`: with one verb for all it rests on which registration
  stays and on their order.  It is checked for the code as it stands only; with the
  verbs repaired it holds by definition.
* `RequestLivesWithHandler`, `LockedCallsAreAlive`: handlers keep their request by
  reference over a wait for the lock, while connections break and callers close.
  An exception leaks the request; the property says that nothing else does.
* `ImplementsRemoteCall`: a caller is told one code once; a handler runs at most
  once; RPC_CALLER_INVOKE_FAILED leaves open whether it ran.
* `AddedAsAsked`: a request cut short may have a cluster or datanode id that reads
  as the right one; the disk id lies behind both and is then 0, which is refused.
* `ToldAddedAsAsked`: the same seen by the caller, across the network.  It is checked
  with the reading of answers repaired; as the code stands nobody is told OK.
* `EveryCallReported`: a call on a connection that goes silent is excepted, as no
  timeout ends it.
* `ClosedCallerIsDone`: those calls are ended by `Close`.  The owner of a caller has to
  wait for its calls before it destroys it; this says that the wait ends.
* `ServesItsFile`: see the module.

*Bounds.*  Two calls are enough for one to hold the lock and one to wait; two
extents for one to be in the way of the other.  Three slots over two bitmap
blocks of two entries give a full and a partly used bitmap block and slots the
cursor never reaches.  The runs with one call and three extents fill the device.
Blocks have four sectors of 1024 bytes, so a write tears in three places; the
super block paths end in the first sector, in the second, exactly at the end of
the block and one byte beyond; one byte may rot at the start and one at the
end.  TLC's integers have 32 bits, so `MCMakeFS` scales all sizes down, with
machine words of 7 and 12 bits: devices range from too small, over the size at
which the bitmap outgrows the first extent, to beyond the wrap of the count.
Extents, calls and callers are symmetric; the liveness runs do not use symmetry.
Two calls let one hold the service's lock while the other waits, and one caller
break while the other goes on; each call is made once, and a retry is another call.
`datanode_rpc` has two callers and three orders of registration, one of them of a
server that lacks an operation.  The requests of `manager_service` are right, of
another cluster, for another datanode, and without a disk, each cut at every place.
The ports of `datanode_config` have 3 bits, the least one allowed being 4, with
values below, at and beyond both limits.

*Fairness.*  `Fairness` asks that a call which can take a step takes one.  The
Seastar reactor runs every ready continuation, the lock is FIFO, and every device
operation is answered with success or an error (`handle_exception` in
`PancakeIO`).  Nothing is asked of callers, of `Start`, or that writes succeed.  For
the manager service, `Fairness` asks that a continuation that is ready is run, in
the server (`Handle`, `ReceiveUnknown`) and in the client (`Deliver`, `Fail`): an
answer over a connection that stays up arrives, and a connection that is gone is
noticed.  The last is what the callers rely on, as they set no
timeout; of a peer that vanishes silently nothing is asked.

## 4. Proofs

Every safety property of the passing runs, invariants and action properties and the
two refinements, is proved for all values of the constants.  TLC alone checks the
three liveness properties.

### The extent manager

`PancakeExtentManagerProofs` proves, for every number of slots, bitmap blocks,
entries, extents and calls allowed by the assumptions, and whatever
`Deserialize` makes of an own header:

* `TypeCorrect`: types and mutual exclusion;
* `SlotOwnerHolds`, `AckedIsDurableHolds`, `BitmapWriteThroughHolds`,
  `HeaderKept`;
* `MapIsAcknowledgedHolds`, for codecs that reject own headers (`OwnHeader # OK`), and
  `MapIsAcknowledgedWithCodec`, which instantiates the codec of the repository and
  gets that hypothesis from `OwnHeaderIsRejected` (below);
* `QueueIsPendingHolds` and `SearchIsExhaustiveHolds`;
* `Refinement`: `Spec => ImplementsAllocation`.

None of the properties is inductive by itself.  `IInv` adds

* `CallsWellFormed`: who is past the lock holds it (so nobody else does), with
  the arguments of its operation.  Needed by everything else: it makes the state
  of the call in flight the only one to look at;
* `AddInFlight`: the slot of an add in flight is still free and its extent
  unknown.  Without it the commit could put a second owner on a slot;
* `BitmapInFlight`: the block in flight is `bitmap_` with one bit changed, the
  header of the add stands, and no acknowledged extent sits on the slot of a
  delete in flight.  Without it a bitmap write could undo another call;
* `AckedInUse` (what is acknowledged has its bit set) and `DownIsEmpty`.

The argument runs by the step: lemmas on the arithmetic of bitmap blocks
(`SlotPlace`, `PlaceUnique`) say that a slot has one byte of one block;
`CloneAdd` and `CloneRemove` that the block in flight is the clone of the bitmap
after the commit; then one lemma per action, joined in `SafeStep`.

`QueueIsPending` is inductive next to `IInv` and rests on two lemmas on the queue: a
call that is not in it joins at its end (`InvokeQueue`), and a call that returns was
its head (`ReturnQueue`).  It is the part of `EveryCallReturns` that is a safety
property.  `SearchIsExhaustive` needs `InReach`, that the slot of an add in flight is
one the search gets to, and the lemma `SearchVisits`, that a cursor which wraps at
`bitmap_block_count` and makes `extent_block_count` turns, which are no fewer, visits
each of those slots from every start.

### Blocks and device

`PancakeBlockProofs` is about `PancakeBlock` for every block whose first sector holds an
image, with any bytes rotten.  Where a field lies is the sum of the widths in front
of it, a recursive function over the layout.  Its equations come from
`SetInduction`: induction for a *set* of numbers, by its least element, which needs no
operator as a parameter.  `FieldEnds` then says that a table of the ends of the fields
that agrees with the widths *is* those sums, and one table for each layout
(`SuperLayout`, `FooterLayout` and the like) is checked by arithmetic; the lengths of the
two names in the super block stay variables.
From there:

* `HeaderIsNeverAccepted`: `ExtentHeaderBlock::Deserialize` accepts no block
  whatever.  It looks for the footer's magic where no `Serialize` puts one;
* `OwnHeaderIsRejected`: on a whole header it answers BLOCK_MAGIC_ILLEGAL and nothing
  else, for every sector size.

`PancakeBlockDeviceProofs` proves the four properties of the run `block_device` for
every set of images whose uuid and path are no longer than 255 and 4095 bytes, the
limits of file names, every set of bytes that rot, both builds and all four sector
sizes: `DeviceTypeCorrect`, `NoOversizedBlockHolds`,
`AcknowledgedReadsBackHolds`, `AcceptedIsOneImageHolds`.  The inductive invariant
`DeviceInv` joins the type and `NoOversizedBlock` with `AnsweredIsWhole`: a write that
was answered OK has left one image in all sectors.  That is what a short write, a stop
or rot could take away, and what reading back rests on.  `AcceptedIsOneImage` follows
from the checks of `Deserialize` alone, in each state (`AcceptedImage`): the CRC is the
last field of every layout, so that when it matches, all that is decoded is of the one
image that wrote it; where that image has its CRC and its magics then leaves only the
kinds that the property names.

### Layout and MakeFS

`PancakeMakeFSProofs` proves for all sizes, those of the code included:
`MakeFSInvariant` (the layout kept is that of the capacity noted),
`MakeFSTypeCorrect`, `MadeLayoutIsAcceptedHolds` and `MadeRegionsInOrderHolds`.
The lemmas are that `BitmapBlockCount` rounds up, that neither reduction wraps
within the limits (`CountsFit`, `MetadataFits`), and that beyond them the extents
still begin at `meta_blocks`, behind which the bitmap ends (`LayoutOutOfOrder`).
The assumptions are that an extent is smaller than 2^64 bytes and that 2^32 blocks
and the padding are fewer than 2^64.

`MadeLayoutSuitsManager` adds that the counts of such a layout satisfy the
`SizeAssumption` of the extent manager, so that what is proved of the manager is proved of
every device that `MakeFS` accepts and whose count fits.  It needs that the least
device holds two data blocks (`k_min_device_size` is two extents,
`pancake_comm.h:19`), as `extentBlockCount` takes one off the number of blocks.

### RPC layer and manager service

`DatanodeRpcProofs` proves, for all calls, callers, operations, orders of
registration and requests, repaired or not: `RpcTypeCorrect`, `OwnHandlerHolds`,
`RequestLivesHolds` and `RpcRefinement` (`Spec => ImplementsRemoteCall`).  The
inductive invariant `RpcInv` adds `AtServer` (a request inside the server is there
with the handlers of the process that took it), `AnswerInPlace` (an answer belongs to
a call that is past its handler, so it is given once) and `ReportIsFinal` (what was
reported is the answer's, or the connection is not coming back).  Without the
last, an answer could be delivered after the call was failed.

`ToldIsAnsweredHolds` is drawn from the refinement: it is shown of `RemoteCall`'s steps
and holds of the layer because each of its steps is one of those or changes nothing
they speak of.  Two theorems are about the code as it stands: `NoCodeIsTold` (while
the answers are misread no caller learns what its handler returned) and
`OnlyAddDeviceIsRun` (while all registrations use one verb no other handler runs, on
any server).  They say how far the two defects reach, for which TLC shows single
examples.

`ManagerServiceProofs` proves `ManagerImplementsRpc` step by step, which carries
over `RpcInv`, `ManagerOwnHandler` among it; `LockedCallsHold` with an invariant on
the queue (`QueueInv`: distinct calls, handled, by `addDevice`, with a request that
passed the checks); `AddedAsAskedHolds` from the lemma `DecodedIsSent`.
`ManagerImplementsRemoteCall` follows from the refinement proved of `DatanodeRpc`.
`ToldAddedAsAskedHolds` joins both ends: what a caller is told is what `addDevice` answered
(`ToldIsAnswered`), and `addDevice` answers OK to nothing else than was sent
(`AddedAsAsked`).  It says something once answers are read (`"answer"` repaired).

### Configuration

`DatanodeConfigProofs` proves `ServesItsFileHolds` for every set of files, from the
invariant that from `parsed` on every field is the file's and from `checked` on
`CheckConfig` has passed; and `NoFileIsAcceptedHolds`, for the code as it stands:
what the inverted tests let through is not scalar, and no such node converts to a
port.  `ConfigTypeCorrect` says that every field is its default or the value assigned
from the file of this start, also after a conversion has thrown in the middle; it
needs `BootIsDefault`, that a process begins with the defaults.

### What stays with TLC

`EveryCallReturns`, `EveryCallReported` and `ClosedCallerIsDone`: liveness under fairness is out of the
prover's reach.  The three violations are counterexamples and have nothing to prove.

## 5. Not modelled

The CRC's own arithmetic; parsing of `/proc/mounts` and `/sys`; `ReadAt` past the
end of the device; operations of the engine that have no body (`Mount`, `ReadAt`,
`WriteAt`, `RecoverExtent`, ...); `ExtentDeviceOffset`, which is declared only;
the empty classes (data service, storage, posix and SPDK engines, cache,
statistics); the device offset that `MakeFS` computes and does not use; logging (the
line "device service start success!!" of `main` is never reached, as `Start` does
not return); `tools/client`, which makes one call by hand and reads its answer as
the callers do; the fields of the answers, as no handler sets one.

`MakeFS` and the extent manager are not composed: nothing in the repository calls
`PancakeExtentManager::Init`, so which offsets it will be given is not decided.
`ManagerAccepts` checks the counts that a layout would give it.  Likewise no code
connects the manager service to an engine.

## 6. Plan

Done: extent manager with refinement, liveness and proofs; codec and device
block, with proofs; layout and `MakeFS`, with proofs; RPC layer, callers and manager
service, with refinements, liveness and proofs; configuration and start, with proofs.

Next:

1. What follows from the abstract specifications alone (`ExtentAllocation`,
   `RemoteCall`), stated there and carried over to their implementations, as
   `ToldIsAnswered` is.
2. When the repository gets callers for it: the composition of layout, device and
   extent manager, with headers and bitmap blocks at their device offsets (with
   `MadeLayoutSuitsManager` for its counts); and of `addDevice` with the engine it will
   start.
