# TLA+ specification of bios-bmc-smm-error-logger

The daemon reads error logs that the BIOS (in system management mode) leaves in
a memory region shared with the BMC, decodes them with the RDE dictionaries the
BIOS has sent before, and stores them as Redfish JSON files. This directory
specifies the parts of it that are hard to test: the queue that two processors
share without a lock, the flag handshakes next to it, the reassembly of
dictionaries from packets that can get lost, the files that are kept while
operations fail and the daemon restarts, and the composition of these.

## 1. The system

| Component | State | Operations | Interacts with |
|---|---|---|---|
| `PciDataHandler` (`pci_handler.cpp`) | the mapped region | `read`, `write`, byte by byte, clamped to the region | shared memory; called by `BufferImpl` |
| `BufferImpl` (`buffer.cpp`) | `cachedBufferHeader` | `initialize`, `readErrorLogs` (with `readBufferHeader`, `readEntry`, `wraparoundRead`, `updateReadPtr`), `readUeLogFromReservedRegion`, `checkForOverflowAndAcknowledge`, `updateBmcFlags` | the BIOS, through the region |
| `readLoop`, `main` (`main.cpp`) | the timer | one pass every `READ_INTERVAL_MS`; reinitialize on any exception | calls `BufferImpl` and `RdeCommandHandler` |
| `RdeCommandHandler` (`rde_handler.cpp`) | `flagState`, `prevDictResourceId`, `crc` | `decodeRdeCommand`: `multiPartReceiveResp`, `operationInitRequest` | `DictionaryManager`, libbej, the storer |
| `DictionaryManager` (`rde_dictionary_manager.cpp`) | the map of dictionaries, the counter of valid ones | start, add, mark complete, invalidate, get | called by the handler |
| `ExternalStorerFileInterface` (`external_storer_file.cpp`) | `logServiceId`, two retention queues | `publishJson` | file writer, D-Bus notifier |
| `ExternalStorerFileWriter` (`external_storer_file.cpp`) | the base directory | `createFolder`, `createFile`, `removeAll` | file system |
| `CperFileNotifierHandler` (`notifier_dbus_handler.cpp`, `file_notifier.hpp`) | next D-Bus entry number | `createEntry` | D-Bus |
| the BIOS (not in this repository) | queue write pointer, its flags | append an entry, hand over an uncorrectable error (UE) log, report an overflow, transfer dictionaries | the shared region |

The daemon is single-threaded. Its concurrency is with the BIOS, which writes
the region at any moment, and with itself across restarts: systemd restarts it
(`Restart=always`) and `main()` reinitializes a region the BIOS may be in the
middle of using.

What is hard, and what makes each part correct:

* **Queue.** Entries wrap around the end of the region at any byte; the BIOS
  appends during a read; the read pointer is released piecewise, before the
  checksum is known; the header is read once per call, and both sides copy
  pointers byte by byte, so that each can meet one the other has half written.
  Correct means: every entry exactly once and in order while nothing fails, no
  entry twice and no stale entry after a restart, and self-recovery from
  corruption and from half-written pointers.
* **Flags.** Three bits of one word are rewritten from a cached header in three
  places. Correct means: no update undoes another, a UE log is acknowledged only
  after it was published and never published twice, and both toggle handshakes
  always come to rest.
* **Dictionaries.** Packets belong to several dictionaries, separated only by a
  change of resource id; one CRC covers them all; transfers are aborted by host
  reboots. Correct means: an accepted transfer is what was sent, a complete
  transfer is accepted whatever was before it, a log is decoded with whole
  dictionaries only, and the counter is exact.
* **Storer.** Two retention queues in memory, files on disk that outlive the
  process, and file operations that fail, throw or are cut off by a restart
  between any two of them. Correct means: the first entries are never removed,
  the latest ones are on disk, nothing is announced before it was written,
  leftovers are bounded, and nothing is written outside the root folder.
* **All together.** The outcome of decoding depends on every packet before it,
  while resets erase the queue but not the handler, restarts clear the handler
  but not the BIOS's memory of it, UE logs overtake everything, and a single
  packet can be dropped at a full queue or change without the one-byte checksum
  telling. Correct means: an undisturbed transfer always leads to the ready bit
  with whole dictionaries, whatever state it finds, and what erases packets takes
  the bit away.

`PROJECT.json` lists the hazards with the line where each one bites and the
properties that watch it.

## 2. The modules

| Module | Models |
|---|---|
| `Buffer` | `readErrorLogs` and everything it calls, `initialize`, the BIOS's appends, restarts and corruption |
| `BufferProofs` | theorems about `Buffer`: types, pointers, the arithmetic of reads |
| `BufferChannelProofs` | theorems about `Buffer`: a reliable channel without faults, a lossy one with restarts, until a pointer is seen half written |
| `ReadLoop` | `readLoop` as a whole: UE region, overflow flag, ready bit, queue, exceptions, restarts |
| `ReadLoopProofs` | theorems about `ReadLoop`: types and flags |
| `LoopChannelsProofs` | theorems about what `ReadLoop` hands on, and the channels it implements |
| `DictionaryManager` | the manager's operations, as functions on its state |
| `RdeHandler` | `RdeCommandHandler`, on top of `DictionaryManager` |
| `DictionaryTransfer` | `RdeHandler` fed by the BIOS's transfers over a way that loses packets |
| `RdeHandlerProofs` | lemmas about `DictionaryManager` and `RdeHandler`: what each operation and packet does |
| `DictionaryTransferProofs` | theorems about `DictionaryTransfer`: types, the counter, the dictionaries that transfers leave |
| `Crc32` | the CRC of the handler bit by bit, and IEEE 802.3 as polynomial division |
| `LogChannel` | abstract specification: a channel for numbered logs, reliable or lossy |
| `BufferChannel`, `LoopChannels` | `Buffer` and `ReadLoop` as implementations of `LogChannel` |
| `Daemon` | `ReadLoop` composed with `RdeHandler` and a BIOS that sends dictionaries and logs |
| `DaemonProofs` | theorems about `Daemon`: what the ready bit stands for |
| `FileWriter` | the paths of `ExternalStorerFileWriter` |
| `ExternalStorer` | `publishJson`, the file operations and the notifier, on top of `FileWriter` |
| `ExternalStorerProofs` | theorems about `FileWriter` and `ExternalStorer` |
| `PciDataHandler` | the clamped accesses to the mapped region |
| `BufferAccess` | `Buffer` on top of `PciDataHandler` |
| `MCBuffer`, `MCReadLoop`, `MCDictionaryTransfer`, `MCDaemon`, `MCExternalStorer` | instances for TLC |

### Buffer

One BMC action is one access to the shared memory with the local computation up
to the next, so the BIOS can act between any two accesses. `hdr` and `cells` are
the region, `cached` is `cachedBufferHeader`, `call` holds the locals of the
`readErrorLogs` in progress, `pc` says where it is:

| `pc` | next action(s) | code |
|---|---|---|
| idle, header | `ReadHeaderLow`, `ReadHeaderHigh` | `readBufferHeader`, which can copy `biosWritePtr` half before and half after a write of it |
| check | `CheckFails`, `CheckFindsNothing`, `CheckFindsEntries` | the checks of `readErrorLogs` and `getMaxOffset` |
| loop | `ReadEntryHeader`, `ReturnEntries`, `PointersDiffer` | the `while` loop, its exit and the comparison after it |
| toEnd, wrapped, update | `ReadToQueueEnd`, `ReadWrapped`, `UpdateReadPtr` | `wraparoundRead` |
| parse, checksum | `ReadPayload`, `AcceptEntry`, `RejectEntry` | `readEntry` |
| erase, writeHeader | `InitializeErase`, `InitializeHeader` | `initialize` from a catch block or `main` |

A cell of the queue remembers which byte of which entry it is, instead of a
value: this decides how a header parses and whether a checksum matches. Zeroed
memory parses as empty entries with a matching checksum, as in the code. Bytes
that are not one header can parse as any `entrySize`, and the XOR of bytes that
are not one entry can match or not: both are nondeterministic choices.

`PciDataHandler` copies byte by byte, and nothing keeps the two sides from each
other's pointers meanwhile. A pointer has two bytes of `ByteBase` values, the
lowest first (`MixedPtr`): `ReadHeaderHigh` may combine the low byte of one
`biosWritePtr` with the high byte of the next, the BIOS may take a `bmcReadPtr`
of which `updateReadPtr` has written the low byte only, and a crash may leave one
(`HalfWrittenPtrs`). The variable `torn` remembers that one of the two acted on
such a pointer. This is no fault: the default queue has 384 bytes
(`MaxOffset`), so that its pointers change in two bytes. What follows is in
section 3. With `MaxOffset <= ByteBase` it cannot happen
(`SmallQueueIntact`).

The BIOS (external) takes the pointers, writes an entry into free space, then
publishes it, as three steps; it keeps one byte free so that equal pointers mean
empty, and it does not notice a reinitialization in between.

### ReadLoop

The loop around it. The queue is a sequence of entries that are taken in one
step (`Buffer` is the detail of that step), and what `decodeRdeCommand` makes of
an entry is chosen when it is decoded: `log` (RdeOk), `stop`
(RdeStopFlagReceived), `refused` with another status, or `throws`. A UE log is
`good` or `bad`; the region filled with zeros decodes as a request without
payload (`RdeOk`, nothing published). Sizes in the header are the right ones,
zero or wrong; with a wrong size of the UE region the read comes short, which
throws, or what is decoded is cut, or nothing comes of it. An entry in the queue
can be corrupted so that the checks of `readEntry` tell (`CorruptDetected`), or so
that they do not (`CorruptUnnoticed`): then it is decoded, to whatever its bytes
are now, and may have swallowed entries behind it. The catch blocks are `Throw`,
`InitializeErase`, `InitializeHeader`; `ReinitializeFails` and `AsyncWaitFails`
end the loop as the code's early returns do, while the process stays alive.

### LogChannel and its implementations

`LogChannel` says what the shared memory is for: logs are sent one by one and
received in batches, in order, none before it was sent and none twice; all of
them (reliable) or some of them (lossy). `BufferChannel` maps `BiosPublish` to
`Send`, the return of `readErrorLogs` to `Receive`, and the first half-written
pointer that is acted on (`torn`) to `Break`, after which the channel promises
nothing: until then `Buffer` is a reliable channel without faults, and a lossy
one with restarts. The lossy channel also lets through the empty entries that
zeroed memory parses as, and promises nothing any more once a mixture of bytes
has passed the one-byte checksum.
`LoopChannels` does the same for `ReadLoop`, once for UE logs and once for the
queue, where a log is received when it was decoded. These channels never break.

### RdeHandler, DictionaryManager and DictionaryTransfer

One action is one `decodeRdeCommand`. Data is a sequence of chunks. CRC-32 is
taken to be free of collisions: its value is the sequence of chunks since it was
last reset, over the data portion only, which is what the code computes (the
comment on `updateCrc` in `rde_handler.hpp` speaks of the whole packet). In
`DictionaryTransfer` the BIOS sends transfers, packets get lost (the BMC erases
the queue, or the BIOS finds it full), a transfer can be abandoned for a new one, and stray packets with any
flag come in between. The BIOS is assumed to send one dictionary after the other
(`OneAfterAnother`): the handler starts a dictionary whenever the resource id
changes, so pieces that alternate could not be put together by any receiver of
this format. `IsDataOf` says which data a resource's pieces (`PiecesOf`) make up
then. What libbej and the storer return is a nondeterministic
choice.

### Crc32

A 32-bit word is the set of its one bits. `crcTable`, `UpdateCrc`,
`FinalChecksum` and the comparison of `handleCrc` are the code's. The reference
divides the polynomial of the data by the generator of IEEE 802.3, with the
generator written down independently of `crcDevisor`; an assumption of
`MCDictionaryTransfer` checks the reference itself against the published check
value of the text "123456789". `NoCollision` is the assumption of `RdeHandler`,
for short streams: no CRC is free of collisions for long ones.

`Crc32`, `FileWriter` and `PciDataHandler` have no state. Their properties
quantify over all inputs within a bound; each is evaluated in the run of the
component that calls them.

### Daemon

`ReadLoop` with the outcome of each decoding computed by `RdeHandler` (it extends
both, and takes all the outcomes that `ReadLoop` tells apart): the handler keeps
its state over exceptions and `initialize()`, and loses it in a restart. An entry
of the queue is a packet of the dictionary transfer or a log. The BIOS is assumed
to send its dictionaries after each boot of the host, and logs after them while
it sees the ready bit (the look at the bit and the append are one step); UE logs,
overflows and boots come at any time. libbej and the storer can refuse a log or
throw.

Entries are lost in three ways. A reset erases all of them, together with the
ready bit (`whole` becomes false). A packet that finds the queue full, which is
what the overflow flags report, waits or is dropped (`DropPacket`). An entry whose
bytes change in a way that the one-byte checksum does not tell becomes `Altered`
(`AlterStep`), and decodes to another packet, to a log with another resource id,
or to a command that is refused. The last two leave the ready bit as it is and
set `disturbed`.

### FileWriter and ExternalStorer

A path is the sequence of its parts. `IsValidPath` is the code's count of depth
(`Depth`, a function of how many parts were counted), `Resolve` (external) is
the walk through the file system it has to agree with (`Walk`, likewise).
`FoldersOn` are the folders `create_directories` makes on the way, the root
folder first, and also those that a later `..` leaves again. `EntriesPath`
drops a trailing slash, as appending to a `std::filesystem::path` does.
One action of `ExternalStorer` is one operation on the file system or D-Bus, so
that the daemon can die between any two:

| `call.step` | action | code |
|---|---|---|
| idle | `PublishJson` | `publishJson`, `getSchemaType` and each type up to its first file operation |
| remove | `RemoveOldest` | `removeAll` of the entry that was popped |
| folder | `CreateFolder` | `isValidPath` and `create_directories` |
| write | `WriteFile`, `FileCreated` | the stream in `createFile`, and what follows a `true` |
| notify | `CreateEntry` | the D-Bus object, then the push into a queue |

`folders` and `files` are what is on disk; a file is in `files` while its
`index.json` is complete. `createFile` does not look at the state of its stream,
so a write that fails changes nothing else in the daemon: the file is then in
`lost` instead, until it is written again or removed (or a restart happens in the
middle of writing it). A document keeps what the code looks at: whether it
parses, its type, and the two fields, each a string, another type (a
`type_error` that nothing in the storer catches) or missing. The faults are a
removal that fails, with the file gone or not; a folder that cannot be created,
with `false` or an exception; a write that is lost; an exception from
D-Bus; and a restart, which can leave a file empty that was being rewritten.
A UUID is never drawn twice and is not a name that occurs elsewhere in a path
(`UuidAssumption`). The Id of a service is one part of a path: Ids with slashes
in them are not modelled.

### PciDataHandler

The widths of `uint32_t` and `uint16_t` are the constants `AddressValues` and
`LengthValues`, the numbers of values they have, scaled down for TLC. A
byte is its offset in the mapping, which is whole pages and so may be larger
than the region. `AccessLengths` are the lengths tried, among them some that the
16-bit counter of `write` (`WrittenLength`) does not hold. Then fewer bytes are
written than asked for, and the returned size shows it, as it does at the end of
the region. The lengths of `BufferImpl` are 16-bit sizes or bounded by them,
except that `initialize()` writes the whole region at once. No sum of an offset
and a length wraps at 32 bits; the assumption is stated (`WidthAssumption`). For
larger lengths the code's comparison could wrap, but nothing in this repository
passes them.

## 3. The runs

Definitions named "Faulty variant" in the modules are the mutants of
`PROJECT.json`: each property is violated when its mutant takes the place of the
definition it is a variant of.

| Run | Question | Properties | Distinct states |
|---|---|---|---|
| `buffer_clean` | Is the queue reliable with a correct BIOS and no fault, as long as neither side acts on a pointer the other has half written? | `ReadIsComplete`, `ExactlyOnce`, `UnreadIsWhole`, `NoSpuriousReset`, `NoOverrun`, `EveryEntryReturned`, `ImplementsReliableChannel` | 153 thousand |
| `buffer_restart` | What survives two restarts at any point? | `ReadPtrInRange`, `CacheCoherent`, `ImplementsLossyChannel` | 2.9 million |
| `buffer_corrupt` | Does it recover from any single corruption, a restart or half-written pointers? Do accesses stay in the region? | `TypeOK`, `Recovers`, `AccessesStayInRegion` | 137 thousand |
| `loop_clean` | Do the handshakes and the queue work next to each other? | `AckedIsProcessed`, `EverythingProcessed`, `ImplementsReliableChannels` | 6 thousand |
| `loop_faults` | What holds when things throw, crash or get corrupted, noticed or not? | `FlagsCoherent`, `AtMostOnceInOrder`, `ReadyStays`, `HandshakesSettle` | 258 thousand |
| `rde_packets` | What is accepted, with packets lost, transfers aborted and strange packets in between? Is it the CRC of IEEE 802.3? | `DictionaryCount`, `CompleteTransferAccepted`, `AcceptedIsIntact`, `WholeUnlessLost`, `AcceptsReference`, `NoCollision` | 281 thousand |
| `daemon_faults` | What does the ready bit stand for, and what brings it back? | `ReadyMeansDictionaries`, `QueueLogsDecodedWhole`, `TransferMakesReady`, `LogsFindDictionaries` | 917 thousand |
| `storer_faults` | What is kept, left behind and announced when operations fail, writes are lost or the daemon dies, with flawed documents in between? Which paths are accepted? | `TypeOK`, `BelowRoot`, `ValidIffInside`, `KeepsFirstAndLatest`, `OnlyRetainedOnDisk`, `SavedForGood`, `FoldersBounded`, `AnnouncedIsStored`, `ServicesSurviveRestarts` | 2.5 million |

Where more can happen in a run than a property allows, the property says so
itself:

* The properties of `buffer_clean` and both channels of `Buffer` hold until
  `torn`: until one side has acted on a pointer that the other had half written.
  `EveryEntryReturned` promises that or the entry.
* `ReadyMeansDictionaries`, `QueueLogsDecodedWhole` and `LogsFindDictionaries`
  hold until `disturbed`: until a single packet was dropped at a full queue, or an
  entry changed without the checksum telling. Resets, restarts and boots are
  allowed. `TransferMakesReady` has no such condition, and speaks of any later
  transfer that arrives whole.
* `KeepsFirstAndLatest`, `SavedForGood` and `AnnouncedIsStored` hold of what was
  written or `lost`. `OnlyRetainedOnDisk` speaks of states before any fault,
  `ServicesSurviveRestarts` of behaviours whose only faults are restarts and of
  services that lie at the path of their Id (`InPlace`).
* `AcceptedIsIntact` speaks of transfers without stray packets, `WholeUnlessLost`
  of dictionaries of which no packet was lost.

Four runs show where the code does not do what a comment in it says (the
`findings` of `PROJECT.json` quote the lines):

* `rde_incomplete`: with a lost packet, a truncated dictionary is "complete" as
  soon as the next resource begins, and a log can be decoded with it before the
  CRC is compared.
* `loop_erased_ue`: a UE log that a restart erases during the handover is
  acknowledged as "Successfully processed".
* `storer_no_service`: a LogService whose files could not be created still
  receives entries.
* `storer_lost_write`: `createFile` returns true for a file whose write failed, so
  a log is reported as stored that is not on disk.

Smaller observations, each of which TLC shows when a run is changed as said:

* `prevDictResourceId` (`rde_handler.cpp:208`) is assigned by refused packets as
  well, although the comment above calls that "not useful": an invalid flag with
  another resource id makes the next packet flush a dictionary, and the CRC does
  not notice. Without its condition on stray packets `AcceptedIsIntact` is
  violated in `rde_packets`.
* A pointer is copied byte by byte, and the default queue (384 bytes) needs two of
  them. `readBufferHeader` can see a `biosWritePtr` that was never in memory.
  It may fail the checks, and then the queue is erased with the entries in it.
  Or it passes them: with seven bytes, headers of two bytes and `ByteBase` 4, let
  entries lie at 0-1, 2-3, 4-5, 6-1 and again 2-3. When the last one is published,
  the pointer goes from 2 to 4 and can be read as 6. The call returns the new
  entry and then the old one at 4-5 a second time, without an exception, and leaves
  the read pointer past the write pointer. Likewise the BIOS can take a
  half-written `bmcReadPtr` for free space and overwrite bytes that were not read
  yet. Without `~torn`, `ExactlyOnce`, `UnreadIsWhole`, `NoSpuriousReset` and
  `NoOverrun` are each violated in `buffer_clean`. `Recovers`, in `buffer_corrupt`,
  shows that entries get through again after all of this.
* A packet that is dropped at a full queue leaves the ready bit as it is. If the
  bit is still set from an earlier transfer, END then fails its CRC, every
  dictionary is invalidated (`rde_handler.cpp:267`), and logs find none while the
  bit says "ready". If END is dropped as well, and the log's schema is not the last
  resource, the log is decoded with a truncated dictionary.
  Without `~disturbed`, `"drop"` alone violates `ReadyMeansDictionaries` and
  `LogsFindDictionaries` in `daemon_faults`, and `"entry"` alone violates these and
  `QueueLogsDecodedWhole`. Nothing in the daemon clears the bit then: what ends
  the state is the next whole transfer (`TransferMakesReady`), and nothing
  tells the BIOS that it is needed.
* A UE log that comes before the dictionaries is reported as "Corruption detected"
  (`main.cpp:69`), and the queue with the dictionaries in it is erased: in
  `daemon_faults`, `pc = "erase"` is reached without any fault.

### Bounds

* `Buffer`: queues of 6 or 7 bytes, entry headers of 2 and payloads of 0 to 3
  bytes. Header and payload are split by the end of the queue at every position,
  reads end exactly at it, and the queue fills up to its last byte. `ByteBase` is
  4 in all runs, so that pointers have two bytes that change, as in the default
  build. Five entries in `buffer_clean` (payloads of 1 and 3) and four in
  `buffer_restart` (0 to 2) take the BIOS around the queue more than once;
  `buffer_corrupt` has two.
* `ReadLoop`: three UE logs and four entries suffice for both toggles to return
  to their initial value and for entries to follow one another; with faults, two
  UE logs, three entries, a queue of two (so that an exception can drop the rest
  of a batch) and two faults at any point.
* `DictionaryTransfer`: two resources, transfers of one, two and four packets, up to
  three transfers in a row, and one stray packet of either resource, with an
  invalid flag or with another flag than START and a size that does not fit. A
  transfer remembers whether a packet was lost in it or in an earlier one.
* `Daemon`: a transfer of three packets over two resources, through a queue of
  two, sent after each of two boots, with one or two logs after it (`MaxEntries`
  is 7); one UE log and one fault: a restart, a wrong size, an entry that fails its
  checks, is altered or swallows others, or a packet that is dropped. An altered
  entry is a log for another resource, a refused command, or the middle packet
  with one of four fields changed.
* `ExternalStorer`: one entry that is saved for good and two others; four documents
  as the BIOS sends them, for two services, and 13 flawed ones, six documents in
  all. Both queues fill up, entries make room for others after faults, and two
  operations can fail in different ways. The bound of `FoldersBounded` after a
  restart needs more documents to be reached; that it is never exceeded is a
  theorem.
* `FileWriter`: paths of up to five parts, with names that also occur in the base
  directory.
* `PciDataHandler`: regions of 2, 4 and 6 bytes in a mapping of 8, a 2-bit count,
  and lengths below, at and above what it can hold (0, 1, 3, 4, 5, 7).
* `Crc32`: all streams of up to four bytes over four values, 0x00 and 0xFF among
  them, split in two at any place.
* `MaxFaults` is at most 2: the second restart can hit the recovery from the
  first.

### Fairness

`WF_vars(Bmc)` only (in `Daemon`, `WF` of `BmcStep`, which is the same loop):
`readLoop` re-arms its timer at the end of every pass and
`io.run()` serves it, so the BMC always takes its next step. Nothing is assumed
of the BIOS, which may stop in the middle of an append (a host reset), and
nothing of faults.

`loop_faults` is checked without deadlock detection: when the timer or
`initialize()` fails, `readLoop` returns for good. So are the storer's runs:
after the last document there is nothing to do.

## 4. The proofs

All theorems hold for every value of the constants that satisfies the `ASSUME`s:
the region is larger than an entry header, entries can fit the queue, resource
ids are finitely many, transfers are non-empty sequences of pieces with one
dictionary after the other, parts of paths are strings, no UUID is drawn twice.
A hypothesis beyond those is part of the theorem and is named below.

### The queue (`BufferProofs`, `BufferChannelProofs`)

* **`TypeCorrect`**, `Spec => []TypeInv`, with the corollaries **`TypesKept`**
  (`TypeOK`) and **`ReadsAreComplete`** (`ReadIsComplete`), for every kind of
  fault. `TypeOK` alone is not inductive: a read stays within the region only if
  the cached pointer passed the checks of `readErrorLogs` (`CacheValid`), and the
  cells handed to the parser are cells only if both parts of a wrapped read add
  up. The lemmas about `NumWraparoundBytes` and `UpdatedReadPtr` carry the
  arithmetic.
* **`ReadPointer`** and **`CacheStaysCoherent`**: unless a pointer is corrupted
  from outside (`"pointer" \notin FaultKinds`), the read pointer is in range and
  the cached one is the one in memory, restarts and other corruption included.
  The invariant adds that the pointer just copied from the header is the one in
  memory while it is being checked.
* **`StreamKept`**, `Spec => [](torn \/ StreamInv)`, for `FaultKinds = {}`.
  The bytes between the two pointers are seen as a stream (`Unread`) that starts
  at the read pointer, so that offsets do not wrap in it. `StreamInv` says that
  the stream consists of whole entries, numbered up to `nextId` (`Stream`), where
  in it the loop stands for every value of `pc` (`Reader`), what the BIOS has
  written beyond it so far (`Appending`), and that what was collected is in order
  (`InOrder`). Reading drops a prefix of the stream and publishing adds one entry
  to its end, and each position of the loop survives both; this is where the
  interleaving of the two processors is dealt with.
* From it **`EntriesOnce`** (`ExactlyOnce`), **`NeverResets`** (`NoSpuriousReset`),
  **`UnreadStaysWhole`** (`UnreadIsWhole`), **`NeverOverruns`** (`NoOverrun`) and
  **`ReliableQueue`** (`ImplementsReliableChannel`), the refinement of `LogChannel`.
* `torn` is part of these statements, and they say nothing of what follows it. It
  is a real condition: a queue of more than 256 bytes meets it without any fault,
  with the consequences of section 3. What has to be shown is that nothing goes
  wrong before one side acts on a half-written pointer; the copy that
  `readBufferHeader` makes is then one of the two values it raced between.
  **`SmallQueueIntact`** proves `Spec => []~torn` if offsets fit in the low byte
  (`MaxOffset <= ByteBase`), restarts included: a build with a queue of at most
  256 bytes needs no condition.
* **`LossyKept`**, `Spec => [](torn \/ LossyInv)`, for `FaultKinds
  \subseteq {"crash"}`: any number of restarts, at any point of the call, of
  `initialize()` and of an append. There is no stream of whole entries any more: a
  BIOS that took the pointers before the erasure publishes into the empty queue,
  and the read pointer then stands on zeroed bytes and a piece of that entry. What
  survives is the order. `LossyInv` says that the unread bytes are zero or bytes
  of entries in ascending order, each at its distance from the others of its
  entry (`Ascending`), all newer than what was received (`AllNewer`), and that the
  entry the loop is at lies between the two (`AtHand`). An append that is running
  is either behind the unread bytes (`Appending`) or the only thing in an erased
  queue (`Straddling`).
* A call that misreads a piece of an entry as a header can break all of this: it
  moves the read pointer to anywhere, also past the write pointer, and the BIOS
  then takes unread bytes for free ones. For such a call the invariant keeps only
  what makes it harmless (`InCall`): a header that passed for one without being
  one stays visible in what is returned (`Misread`); otherwise the bytes left and
  the distance of the two pointers agree up to whole rounds of the queue
  (`Located`), so that a call that read beyond its write pointer ends with
  pointers that differ. Then it throws, and `initialize()` leaves an empty queue.
* From it **`LossyQueue`** (`ImplementsLossyChannel`), the refinement of
  `LogChannel`.

### The loop (`ReadLoopProofs`, `LoopChannelsProofs`)

* **`FlagsStayCoherent`** (`FlagsCoherent`), **`TypeCorrect`** (`TypeOK`) and
  **`ReadyIsKept`** (`ReadyStays`), whatever fails. The invariant is
  `FlagsCoherent` with the types it needs and the fact that the flags are zero
  between the two writes of `initialize()`.
* **`NothingTwice`** (`AtMostOnceInOrder`), whatever fails. The invariant relates
  all places a log can be: entries that were decoded are older than those of the
  current batch, these older than those in the queue, these older than the next
  one of the BIOS, and likewise for UE logs with the two toggle bits.
* **`AckedAfterProcessing`** (`AckedIsProcessed`), if nothing throws
  (`NothingThrows`: no faults, UE logs that decode, no exception from the
  decoder), and **`LoopRefinesChannels`** (`ImplementsReliableChannels`), if in
  addition no entry is refused. Both need these hypotheses: `loop_erased_ue` is
  the counterexample with a restart.

### Dictionaries (`DictionaryTransferProofs`, with the lemmas of `RdeHandlerProofs`)

* **`CountCorrect`**, `Spec => [](TypeOK /\ DictionaryCount)`. The lemmas show that
  each operation of `DictionaryManager` keeps "the counter is the cardinality of
  the set of valid entries, and valid entries are in the map"; the handler's
  actions then only compose operations.
* **`CompleteAccepted`** (`CompleteTransferAccepted`). The invariant `KeepsUp` says
  what the handler holds in the middle of an unbroken transfer: the checksum over
  the pieces sent so far, and each resource's data. START establishes it from any
  state, which is why nothing is needed of what came before.
* **`AcceptedIntact`** (`AcceptedIsIntact`). Here packets do get lost, so the
  invariant `GathersSent` is about some sequence of pieces that was received, and
  the checksum shows at END that it is the transfer. The hypothesis
  `ChunksNameResources` says that two dictionaries have no chunk in common: the
  checksum does not cover the resource ids, so a piece that the two dictionaries
  share could be moved from one to the other unnoticed.
* **`WholeDictionaries`** (`WholeUnlessLost`): a valid dictionary that came without
  a loss is whole (`OnlyWhole`), in the middle of a transfer and after one that
  was given up.

### The daemon (`DaemonProofs`)

* **`DaemonStaysInStep`**, `DaemonSpec => []DaemonInv`, for every transfer, every
  capacity of the queue and kind of fault, and any number of boots. `DaemonInv` is
  `disturbed \/ UndisturbedInv`: resets, restarts and boots are all dealt with, a
  single packet that is dropped or an entry that changes unnoticed ends it, since
  the ready bit then means nothing any more (section 3). The entries
  of the BIOS are numbered, and each one's content follows from the one before
  (`InSequence`: the next packet, a first packet after a boot, or a log at the
  end). What waits in the queue and in the batch are the last entries with nothing
  missing between them (`Numbered`), since entries are only lost all at once until
  then.
  So the handler has seen everything up to the entry decoded next, and stands
  where the BIOS was when it wrote the entry before that one: it holds the first
  packets of the transfer, or it is idle with whole dictionaries (`InStep`). This
  is only so while the ready bit is set: before that, the handler may hold what
  is left of a transfer that lost packets (`Gathering`), and the checksum decides
  at END. Finally, a log that waits was written under the ready bit, which still
  is set (`LogsWait`): what clears it erases the log, too.
* From it **`ReadyIsMeant`** (`ReadyMeansDictionaries`), **`QueueLogsAreWhole`**
  (`QueueLogsDecodedWhole`) and **`LogsAreNotRefused`** (`LogsFindDictionaries`).
  `ReadyMeansDictionaries` alone is far from inductive: in the middle of a
  transfer it says nothing.
* All four rest on `ChunksNameResources`, as `AcceptedIntact` does: what is left of
  two transfers, one broken off by a boot and each with packets erased, may have
  the right checksum if two dictionaries share a chunk.

### The storer (`ExternalStorerProofs`)

* **`PathCheckExact`**: for every base directory and every path of any length,
  `IsValidPath` accepts exactly the paths no part of which leads out of the base
  directory. The count of depth and the walk are related by induction over the
  parts (from well-foundedness of the order on the natural numbers, since the
  library's induction theorem takes an operator). **`ValidPathsInside`**
  (`ValidIffInside`) is the case of the run. Both assume a base directory that is
  not the file system's root (`baseDir # <<>>`): `..` does not leave the root, but
  the count of depth goes below zero.
* **`BooksKept`**, `Spec => []Inv`, for every kind of fault. `Inv` has five parts:
  `Shape` (types, and what a call in progress can be at), `Rooted` (all folders
  are below the root folder, files are in folders), `Retained` (the two queues
  are the first and the latest of `stored`, and how long they are), `Fresh` (no
  UUID occurs twice among what was ever saved or is being handled) and `OnDisk`
  (what is kept or about to be announced was written, that is, is in `files` or in
  `lost`). `Fresh` is what makes `OnDisk` inductive: a removal hits the popped
  entry and no entry that is kept, since the last part of its path is its UUID
  alone.
* From it **`StorerTypes`** (`TypeOK`), **`NothingOutside`** (`BelowRoot`),
  **`FirstAndLatestKept`** (`KeepsFirstAndLatest`), **`SavedStay`**
  (`SavedForGood`) and **`AnnouncementsAreTrue`** (`AnnouncedIsStored`). None of
  them says that what the code reports is on disk: `storer_lost_write` is the
  counterexample.
* **`LeftoversCounted`** and **`EntryFoldersBounded`** (`FoldersBounded`): entry
  folders that neither queue knows were left by a start, which forgets at most
  what the queues and the call in progress held, or by a failed operation, which
  loses at most one. `Served` says which paths a call can be working on, `Counts`
  that starts are counted as faults, `FewOrphans` bounds the cardinality.
* **`NothingLeftBehind`** (`OnlyRetainedOnDisk`) and **`ServicesBeforeEntries`**
  (`ServicesSurviveRestarts`), from two more invariants: without a fault the
  second queue is full once it was (`NoneMissing`), and after nothing but starts
  the two files of the current service are there or are being created
  (`ServiceThere`).
* These last four speak of documents as a BIOS sends them, and the theorems say
  how: only log entries have folders inside an `Entries` folder (`EntriesOnly`,
  for all four), and service Ids are plain names, not `..` (`PlainServices`, for
  the last two). The storer checks none of this; a document with another
  `@odata.id` can put its file into the folder of an entry. The documents of
  `storer_faults` satisfy both. A LogService that does not lie at the path of its
  Id can pass in `ServicesBeforeEntries`; nothing is promised of its own files.

### What is only model-checked

* The liveness properties (`EveryEntryReturned`, `Recovers`, `EverythingProcessed`,
  `HandshakesSettle`, `TransferMakesReady`), which the proof system does not reach.
* `AccessesStayInRegion`, which quantifies over accesses of a few lengths in small
  regions.
* `AcceptsReference` and `NoCollision`: what the table of `Crc32` computes is a
  recursion over data, and the second only holds of short streams.

## 5. What is left out

* Byte layout, endianness and the XOR of the queue's checksum; the version and
  magic number fields, which the daemon writes and never reads.
* Short reads and writes inside `Buffer`: the region is configured larger than
  the queue, so `PciDataHandler` never clamps there, and `AccessesStayInRegion`
  shows that a write that is cut is visible in the size it returns. A failing
  `initialize()` is in `ReadLoop`.
* Writes to the region in smaller steps than the pointers: each of the two writes
  of `initialize()`, the BIOS's writing of an entry's bytes and its publishing of
  a pointer are one step each, as is the reading of the bytes of one access. What a
  reader can see of a half-written pointer is a choice of the reader
  (`MixedPtr`, `HalfWrittenPtrs`).
* In `ReadLoop` and `Daemon`, an altered entry becomes one other entry and may
  swallow those behind it, but does not split into several. What a UE region of a
  wrong size decodes to is a choice of outcomes.
* Whatever is promised no more once `torn` or `disturbed` is set, beyond the
  recovery that `Recovers` and `TransferMakesReady` show. In `daemon_faults` one
  packet at most is dropped or altered.
* What the lossy channel promises ends where the one-byte checksum lets a
  mixture of bytes pass; that it can is in the model (`Garbled`).
* JSON texts beyond the fields the storer looks at, file contents, symbolic links
  below the root folder, and other programs that change files there.
* The storer inside `Daemon`: its result is a choice there, as everything else it
  does is independent of the read loop.
* libbej, sdbusplus, stdplus and nlohmann-json, except for the outcomes this code
  can meet.

## 6. Plan

All items are done.

1. `Buffer`, its runs, its type and pointer invariants proved.
2. `DictionaryManager`, `RdeHandler`; the counter proved.
3. `ReadLoop`; the flag invariants proved.
4. The disagreements between comments and code, each with its run.
5. `FileWriter` and `ExternalStorer`.
6. `Daemon`.
7. `LogChannel`, implemented by `Buffer` and twice by `ReadLoop`.
8. `PciDataHandler` and `Crc32`.
9. Proofs: the queue as a reliable channel; `AtMostOnceInOrder`,
   `AckedIsProcessed` and the channels of `ReadLoop`; what transfers leave; the
   books, the files and the leftovers of the storer.
10. `DaemonProofs`: `ReadyMeansDictionaries`, `QueueLogsDecodedWhole` and
   `LogsFindDictionaries`.
11. The queue as a lossy channel under restarts: `LossyInv`, on what is left of
   the stream when a BIOS publishes into an erased region.
