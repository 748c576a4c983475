# FormatStickPro: TLA+ models, checks and proofs

FormatStickPro is an Android app that formats USB sticks without root: a Kotlin
activity and a foreground service start one native call, which drives the stick
with SCSI commands over libusb and runs vendored file-system tools on top of a
small block driver. This directory holds the TLA+ models of the program's own
code and of the parts of three file-system tools whose decisions are worth checking,
the TLC configurations that check them and the proofs TLAPS checks.

Paths below are relative to `src/app/src/main/`.

## Inventory

| Component | Code | State | Operations | What makes it correct |
|---|---|---|---|---|
| Bulk-Only transport | `cpp/usb_scsi.cpp` `usb_transfer`, `scsi_command` | `g_tag`, `g_sync_cache_supported`, the two pipes | one SCSI command in three transfers, REQUEST SENSE after a bad status | host and stick stay in step; 0 means that this command was completed; every command returns |
| Block I/O and cache | `scsi_io_internal`, `scsi_flush_cache_internal`, `usb_scsi_sync`, entry points of the engines | `g_write_cache`, `g_cache_lba`, `g_cache_sectors`, `g_cur_pos`, partition variables | pread, pwrite, read, write, lseek, sync | reads see writes; nothing is mixed up or overrun; nothing below the partition is touched; sync is a barrier |
| Initialisation | `usb_scsi_init` | `g_sector_count`, `g_sector_size`, endpoints | resets, INQUIRY, attempts at TEST UNIT READY and READ CAPACITY | a slow stick is measured too; one that never was is not written to |
| Tables and wipes | `usb_scsi_wipe_*`, `usb_scsi_write_mbr`, `usb_scsi_write_gpt`, `update_mbr_type` | the medium | raw WRITE(10) commands, past the cache | partition inside the stick; tables still there at the end |
| FAT formatter | `usb_scsi_format_fat` | the medium | block writes | every structure where the boot sector says; the FAT has an entry for the clusters it leaves |
| Session | `cpp/native-lib.cpp` `startStableFormat` | libusb context and handle, service reference, progress | all of the above, in order | resources released on every path; progress monotone; result truthful |
| Service | `FormatService.kt` | wake lock, foreground state, notification, worker threads | start command, progress, result broadcast, `stopSelf` | every start ends; the lock is released; a session stays in the foreground |
| Activity | `MainActivity.kt` | button, device, status | USB events, permission answers, broadcasts, recreation | an enabled button has a device; one session at a time; the button comes back |
| NTFS allocator | `cpp/ntfs-3g-lib/ntfsprogs/mkntfs.c` | `g_allocation`, `g_mft_lcn` and other globals | layout, `bitmap_allocate`, scattered allocation, cleanup | no cluster in two files; runlists complete; bitmap exact; the scan ends |
| F2FS | `cpp/f2fs_bridge.cpp`, `cpp/f2fs_src/` | superblock, cache, medium | layout, fills, writes, sync and pause | areas sound for every size; a visible superblock leads to written structures |
| exFAT | `cpp/exfat_bridge.cpp`, `cpp/exfat_src/` | objects, cache, medium | erase, create, flush | boot record, FAT, bitmap and directory agree; success means linked |
| Other bridges and tools | `cpp/ext_bridge.cpp`, `udf_bridge.cpp`, `xfs_bridge.cpp`, e2fsprogs, udftools, xfsprogs, libusb | | | not modelled (see below) |

Interaction: the activity starts the service with an intent; the service runs
`startStableFormat` on a thread of its own; that function calls the driver and one
engine; the engines call back into the block I/O; the block I/O sends commands
through the transport; progress goes back through JNI and broadcasts. The driver's
variables are process-wide globals, so one session inherits what the last one left.

What is hard here: data that is accepted, cached and lost later; commands that
fail in the middle of a sequence whose results nobody looks at; a status block left
on the pipe; globals that outlive a stick; fixed lengths meeting small sticks; 33
against 34 sectors and other boundaries; the threads of the app. `PROJECT.json`
lists these hazards line by line.

## Modules

* `BotTransport` models `scsi_command`. Each transfer is an action (`SendCbw`,
  `DataOut`, `DataIn`, `CswGood`, ...) with its failing counterpart. The stick is
  the other end: it answers in order (`inq`), may stall, report bad status, be late
  or be pulled out. What the host reads as a status is the next item of the pipe
  whatever it is, as in the code, which checks neither tag nor signature. `inStep`
  is history: no transfer outside REQUEST SENSE has failed.
* `UsbScsiIo` models the block I/O in units of which `SectorSize` make a sector.
  One call is open at a time; each SCSI command is a step of its own and may fail
  (a flush may break off after any number of sectors). `written` (what was last
  accepted) and `lost` (units whose accepted contents a failed command lost) are
  history variables. `lseek` takes any position, negative ones too, as in the code,
  which looks at none; that engines read and write at positions of the volume only is a
  guard of the calls.
* `WriteBackStore` is the abstract specification of the block I/O: a unit
  changes only while a write request covers it, or becomes unknown because it was
  pending when a command failed. `UsbScsiIo` implements it under the mapping
  `AbsImg`, `AbsPending`, `AbsOpen`.
* `DiskLayout` is the arithmetic: partition size, table entries, wipe length, FAT
  geometry, with the program's real constants. Where the boot record says that a FAT or
  the root directory lies (`FatAt`, `RootAt`) and where it is written (`FatStart`,
  `RootStart`, byte offsets kept in 32 bits) are different operators.
* `FormatSession` (extends `DiskLayout`) models `startStableFormat` and the functions it
  calls, one action per call, over several sessions that share the driver's globals. The
  call of an engine is one action, `Mkfs`: it leaves its mark inside the volume it is
  given, or only the beginning of it. The medium is sampled: only the first and last
  sectors of every structure are kept, each with a tag of what was last written there.
  `held` is the set of resources not given back; each return path names what it frees.
* `FormatApp` models the Android side: the main thread (both receivers, the scan, the
  button, creation and destruction of the activity), the service (`onStartCommand`,
  `stopSelf`, `onDestroy`) and one worker thread per start command, call by call.
  Broadcasts are queues: those of one kind keep their order, those of different kinds
  do not, and only a registered receiver gets one. The process may die. The native
  session is reduced to what it does to `g_service_obj`, `g_usb_handle` and the open
  connection. `early` is history: an event enabled the button while a run was
  unfinished. Without such an event runs cannot overlap, simply because a click
  disables the button; what happens with one is the finding of `app_overlap`.
* `MkntfsClusters` models which clusters `mkntfs_main` gives to which file: the
  layout arithmetic, the sorted list `g_allocation` with its insertions, splits and
  removals, the search of `allocate_scattered_clusters` zone by zone, the bitmap built
  from the list, and what stays in the globals for the next call in the process.
* `F2fsFormat` models `f2fs_prepare_super_block`, the fills and writes of
  `f2fs_format_device` in their order, and the end of the bridge (sync, pause, final
  sync). Every write passes through the write-back cache, whose flush fails unheard;
  wherever a function asks for memory it may give up, with what it has written still in
  the cache; the stick may be pulled out between any two steps.
* `ExfatFormat` models the objects of exFAT, where `vbr.c`, `fat.c`, `cbm.c`, `uct.c`
  and `rootdir.c` each believe them to be, and every request of `erase` and `create`
  on its way through the cache (whole sectors) or past it (parts of sectors).
* `MCUsbScsiIo`, `MCFormatSession` and `MCExfatFormat` give the constants of the runs;
  the other modules get theirs directly from the configuration files.
* `UsbScsiIoProofs`, `UsbScsiIoRefinement`, `BotTransportProofs`,
  `FormatSessionProofs`, `FormatAppProofs`, `F2fsFormatProofs`, `ExfatFormatProofs` and
  `MkntfsClustersProofs` hold the proofs.

A definition marked "Mutated form" is a plausible bug in the definition it precedes:
substituting it must make a property fail. No specification uses it.

The layers are composed by abstraction, not by one product: `UsbScsiIo` takes a
command to succeed or fail as a whole, which is what `BotTransport` shows while no
transfer fails; `FormatSession`, `F2fsFormat` and `ExfatFormat` take a block write to
land or to be lost silently, which is what `UsbScsiIo` shows; `FormatApp` takes a
session to end with success or failure, which is what `FormatSession` shows.

## Runs

| Run | Result | What it checks and shows |
|---|---|---|
| `io` | pass | 3 calls of every kind, alignment and length around a full cache, 1 failing command: `CacheFits`, `Coherent`, `ReadsReturnWrites`, `SyncPublishes`, `BelowPartitionUntouched`, the refinement `ImplementsStore`, and `CallReturns` |
| `bot` | pass | 3 commands to 2 sticks, 1 late answer, any stall, status and unplugging: `CallsLeavePipesClean`, `SuccessIsTrueInStep`, `NoSuccessWhenGone` |
| `session` | pass | 2 sessions, 6 sticks, 30 jobs, 1 failure anywhere, real sizes: `PartitionInside`, `TablesSurvive`, `FatStructuresIntact`, `FatLacksTwoAtMost`, `UnmeasuredStickUntouched`, `WakingStickMeasured`, `ResourcesReleased`, `ProgressMonotone` |
| `session_fat` | violation | `FatFitsPartition`: a FAT16 volume larger than its capped partition |
| `app` | pass | a stick, another USB device, 2 sessions, a recreation, a death of the process, in every order: `EnabledHasDevice`, `OwnsDriver`, `NotificationSettles`, `ForegroundUnlessShared` |
| `app_live` | pass | `StartEnds`, `ButtonReturns`, `ServiceStops` |
| `app_overlap` | violation | `HandleIsOwn`: an event enables the button during a format; the second session takes the handle from the first |
| `ntfs` | pass | 12 partition sizes, 5 cluster sizes, 1 failing allocation or transfer: `NoClusterShared`, `RunlistsComplete`, `BitmapExact`, `MkntfsReturns` |
| `ntfs_mft` | violation | `MftBehindItsBitmap`: the second call in a process keeps `g_mft_lcn` and puts the MFT on its own bitmap |
| `f2fs` | pass | 13 sizes from 2 MB to 64 GB, 2 failing commands, memory refused at any allocation, the stick pulled out at any step: `LayoutSound`, `SuperblockSeals`, `PausedAfterFlush`, `TrapsOnlyBelow18MB` |
| `f2fs_fill` | violation | `SitNatZeroed`: `dev_fill` never reaches the stick, so NAT segments beyond the wiped 128 MB keep old data |
| `exfat` | pass | 11 volumes from 50 KB to 64 GB, 2 failing commands, the stick pulled out at any request: `LayoutAgrees`, `SuccessMeansLinked`, `ErasedBeforeBoot`, `FlushedWhenSaid` |

Bounds and why they are enough.

* `io`: a sector has two units, so that requests may begin and end inside one; three
  sectors and a cache of two make the cache full, replaced, appended to, flushed and
  rejected at the end of the stick; three calls are what it takes to fill, disturb
  and observe.
* `bot`: two commands suffice for one to be answered in place of another; the third
  shows that the shift goes on. The second stick is there for what the driver keeps
  of the first.
* `session`: the stick sizes lie below and above each limit: too small to partition,
  just large enough for the wipe of 32 MB to spare the GPT backup, as large as the wipe
  of 128 MB, which on F2FS does not spare it, one whose FAT32 comes out full, beyond the
  FAT16 cap, and above 64 GB, where the length of a FAT16 no longer fits 16 bits. The
  cluster sizes are the smallest and the largest the app offers. One failure anywhere
  covers every single-fault path; two sessions are needed for state left by the first. A
  stick rejects no command, two (inside the first loop of `usb_scsi_init`), seven (the
  last attempt succeeds) or eight (none does). Sticks whose FAT volume has no room for
  its reserved sectors, root directory, one sector of each FAT and one of data are
  excluded (`FatVolumeAssumption`): there the unsigned arithmetic wraps or the volume has
  no cluster. The weaker assumption that only the reserved sectors fit is not enough: the
  attempt to prove `FatLacksTwoAtMost` from it ended in a volume without data. A stick
  has at most 2^32 sectors (`SessionAssumption`), as READ CAPACITY(10) reports them.
* `app`: two sessions are needed to overlap, one other device or one recreation to
  enable the button; safety is proved without the bounds. `app_live` leaves out
  reports and the other device, which its properties do not depend on and which make
  the liveness graph too large.
* `ntfs`: the sizes lie on both sides of every step of the layout (log file size,
  bitmap of one cluster more, volume too small); one call per process, because what a
  second call does to the globals is the finding of `ntfs_mft`.
* `f2fs`: sizes around the size test, the division by zero, the borders of the
  overprovision table and of one more SIT, NAT or SSA segment; two glitches, so that
  a write and its flush can both fail. The proof covers the other sizes.
* `exfat`: sizes just below and above "large enough", a FAT that ends with a sector,
  bitmaps and FATs of one and of several erase blocks, the largest and the smallest
  cluster. The proof covers the other sizes.

`CHECK_DEADLOCK FALSE` is set because a run ends when its bound of calls, sessions or
events is used up, and the program may indeed stop there.

Fairness. `io`: weak fairness of the steps inside an open call, never of the calls;
the caller's thread runs the call to its end, and each transfer ends by itself after
at most 60 s (`usb_transfer`). `ntfs`: the same for the steps of `mkntfs_main`.
`app_live`: weak fairness of each worker thread and of the main thread for every
kind of message queued for it; nothing makes the user, the USB port, the
permission dialog or the system do anything. The other runs assume none.

### Disagreements kept as conditions

The four violation runs are disagreements between what the repository says and what
the code does. Others met while modelling are visible as the conditions under which
the passing properties hold:

* a flush that fails is not heard (`lost` in `UsbScsiIo`): sync returns 0 with data lost;
* after a failed data phase the status block stays on the pipe and the next command
  takes it (`inStep` in `BotTransport`);
* a stick that rejects SYNCHRONIZE CACHE switches it off for every later stick; what
  sync then returns says nothing about the stick, and no property is stated of it;
* the head wipe and the first write of a FAT have fixed lengths and reach the GPT backup
  of a small stick (`BackupOutOfReach` in `TablesSurvive`; the tables at the front
  survive on every stick);
* the length of a FAT does not count its two reserved entries: where the FAT comes out
  full, as on the stick of 299616 sectors, the last two clusters have no entry
  (`FatLacksTwoAtMost`);
* a table that could not be written does not stop the session (`spoiled` in
  `Succeeded`);
* a failed `usb_scsi_init` leaves the size of the previous stick: `PartitionInside` says
  whose size the partition is that of, `UnmeasuredStickUntouched` that there must have
  been one;
* a FAT16 longer than 65535 sectors does not fit its field (`FatStructuresIntact`);
* a session started in a service that is about to stop leaves the foreground
  (`ForegroundUnlessShared`);
* a second call of mkntfs starts from the lists of the first (`Undisturbed`);
* F2FS divides by zero on volumes of 16 to 18 MB (`TrapsOnlyBelow18MB`).

One disagreement is outside the models: the exFAT boot record is given first sector
2048 (`exfat_bridge.cpp:143`) while the partition begins at 4096 or 0; the field is
data no modelled step reads.

## What is proved

All proofs hold for every value of the constants; there is no bound on sectors,
cache size, calls, commands, sessions, events or failures beyond the assumptions named
in the modules (sizes are naturals, one transfer fits the cache, inputs have their
type, READ CAPACITY(10) reports at most 2^32 sectors).

* Block I/O: `Invariance`, then `TypeCorrect`, `CacheNeverOverflows`,
  `CacheCoherent`, `ReadYourWrites`, `SyncIsBarrier`. Coherence alone is not
  inductive: the read-modify-write writes back a sector read one step earlier. The
  inductive invariant `IndInv` adds `Control` (what holds at each label: that the
  cache is empty between a flush and the command after it, that offsets lie above
  the partition start) and `BounceOk` (the bounce buffer is the sector on the medium
  with the request merged in).
* `PartitionTableSafe` and `Refinement` follow step by step from `IndInv`; each
  action maps to one of `Frame`, `Take`, `Drain`, `Spoil` or a stutter.
* Transport: `TransportTypeCorrect`, `PipesClean`, `SuccessIsTrue`, `GoneFails`. The
  invariant says, for each phase, exactly what is on the IN pipe while host and stick
  are in step, and that every tag on it was handed out.
* Session: `SessionInvariance`, then `SessionTypeCorrect`, `PartitionIsInside`,
  `NothingLeaks`, `UnmeasuredSticksUntouched`, `WakingStickIsMeasured`. `SInv` says what
  the session knows at each stage (the capacity is that of the stick, the partition is
  the one computed from it, the driver has been told) and what it may hold;
  `CapacityRead` adds that a session nothing failed in has read the capacity, `Measured`
  that the driver holds the size of some stick or zero, `Patience` relates the commands
  a stick has rejected to the counters of the two loops. `UnmeasuredStickUntouched` is
  inductive beside `SInv`: the early return for a stick that is too small is what it
  rests on. The arithmetic is in the lemmas `PartitionPlaced` and `TablesMatch`.
* What the session leaves on the stick: `TablesAlwaysSurvive` and `FatStaysIntact`. Both
  speak of the end of a session, so the invariants `TablesOnStick` and `FatOnStick` say
  for each label what has been written so far and is still there; `OwnWay` that the
  labels a session passes are those of its partition table and file system; `Sampled`
  that the landmarks of the model are those of the stick at hand. Every later wipe or
  write is shown to keep off what an earlier one left. `NothingWraps` shows that with
  the cluster sizes of the app and at most 2^32 sectors the 32-bit byte offsets of the
  FAT formatter do not wrap: the FATs take less than 1/513 of such a stick, which is
  below 4 GB. (With 512-byte clusters they would wrap above about 0.5 TB; the app has no
  way to ask for them.) `FatsLackTwoAtMost` is the FAT geometry (a rounded quotient with
  the cluster size in the divisor, lemma `QuotientBound`); `ProgressIsMonotone` needs
  the value reported at each label (`Reported`).
* App: `AppTypeCorrect`, `EnabledHasADevice`, `DriverOwned`, from `AppInv`.
  Its part `OneRun` is not inductive: `Queued` adds that a start command on its
  way belongs to exactly one queued run, `Globals` what the native globals are at
  every label of the thread, `Homed` that a thread knows its service.
* Service: `ForegroundLostOnlyByShare` and `NotificationAlwaysSettles`, from
  `ServiceInv` and `NoteInv`. Which session a stop takes out of the foreground depends
  on the order in which start and stop commands reach the service: `Numbered` and
  `InOrder` say that service objects are numbered as they are created and that the queue
  keeps that order, `Stops` that one stop command at most is on its way, for the object
  that exists and from a thread that has ended, `Current` and `Shielded` that a session
  still going on has its object and is in the foreground, or shares its service with one
  past its outcome.
* F2FS: `LayoutAlwaysSound`. The layout is a chain of roundings; a lemma per divisor
  bounds each, and they are combined for every segment count up to 2^20.
  `OnlyOneSizeTraps` follows from the same lemmas; it is about the division only, not
  about what mkfs says of the other sizes it cannot use.
* F2FS, order of writes: `SuperblockAlwaysSeals` and `AlwaysPausedAfterFlush`, from
  `SealInv`. The list of writes is of unknown length (one write per block of the two
  bitmaps); the invariant splits it at every step into what is on the stick or lost, what
  the cache holds and what is still to come (`Unsealed`), and says that the two copies of
  the superblock are the last of it, that no two writes go to one block, and what a flush
  that fails leaves (`Sealed`). Where mkfs gives up for want of memory, no superblock is
  in the cache yet (`Headless`), so the last sync of the session cannot send one.
* exFAT: `LayoutAlwaysAgrees`, for a volume of any size, by cases on the five cluster
  sizes. `AlwaysFlushedWhenSaid`, from `EndInv`: whatever the layout, the list of requests
  ends with a part of a sector, which goes past the cache and flushes it.
  `AlwaysErasedBeforeBoot` and `SuccessAlwaysLinked`, from `FormatInv`: at every step the
  list of requests, of whatever length, is what the stick was asked for, what the cache
  holds and what is to do (`Placed`). `Plan` says of the list that its first part writes
  only zeros and that its second part has one value for every cell (`Want`), in runs and
  in parts of different cells. `Written` says what is then on the stick, or lost by a
  flush nobody heard fail. The cache never holds requests of both parts: the first
  request of create is at sector 0 and no run ends there, so it cannot join. Otherwise a
  flush could leave zeros over a structure. `FitsPlaces` and `FatChains` then show that
  the clusters counted in `fat.c` are those where the objects lie.
* mkntfs: `ClustersNeverShared`, `RunlistsAlwaysComplete` and `BitmapAlwaysExact`, from
  `MkInv`, on every partition and with every cluster size. First come facts about the
  sorted list: `BitExact` (`bitmap_get_and_set` looks at one run and finds every
  allocated cluster) and `MarkedExact` (`bitmap_allocate` of free clusters marks just
  these and keeps the list sorted, whether a run grows or one is put in), which need the
  least element of a set of indices but no induction. Then the layout: `Places` and
  `LogPlaced` (the log file, halved often enough, fits). The invariant: `Exact` says
  that the list marks just what has been given away, what the scan has in hand and the
  bits behind the volume; `Rising` that the single runs are given away one behind the
  other, so that the results that nobody looks at would have been "free"; `Scan` that
  what the scan has lies above the zone it looks at or behind its position, so that no
  cluster is counted twice when it comes back to a smaller zone; `Counted`, `Fresh` and
  `Private` the rest. `RunlistsAlwaysComplete` needs neither `Exact` nor `Private`: it
  holds in a later call of the process too, whose list is left over from the call
  before.

Only model-checked: the liveness properties (`CallReturns`, `MkntfsReturns`,
`StartEnds`, `ButtonReturns`, `ServiceStops`), which need fairness and are outside the
prover's reach.

## Not modelled

* Vendored code. Most of the repository's lines are libusb, e2fsprogs, xfsprogs,
  ntfs-3g, udftools and f2fs-tools. Much of that is never reached from the app
  (other platforms' back ends, check and dump tools, drivers of mounted volumes). The
  models cover the app's own code and, of the tools, the three for which the app's
  changes matter (state kept between calls, redirected device functions, missing
  syncs). For all of them `FormatSession` has the one action `Mkfs`.
* The ext, UDF and XFS bridges: they translate offsets and return codes for tools that
  are not modelled.
* Inside the modelled tools: bytes of MFT records, indexes, inodes, checkpoints and
  boot records; options the bridges never set.
* GUIDs, CRCs, boot-sector bytes, stage texts and logs: data no property tells apart.
* Sticks with a sector size other than 512 bytes (`usb_scsi.cpp:317`).
* In the app: two activities at once, animations, the about dialog, log sharing, the
  crash Android raises when a foreground service is stopped before a pending start is
  answered.

## Plan

1. Done: `UsbScsiIo`, `WriteBackStore`, `BotTransport`, `DiskLayout`,
   `FormatSession`, `FormatApp`, `MkntfsClusters`, `F2fsFormat`, `ExfatFormat`, and
   the proofs above.
2. The space allocation of mkudffs (`split_space`) and its `exit` inside the process.
