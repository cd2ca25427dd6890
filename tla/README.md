# FatFs-Particle: verification project

TLA+ models, TLC runs and TLAPS proofs for the FatFs library for Particle
(`firmware/`): ChaN's FatFs R0.12a core (`ff.c`), the Particle glue
(`FatFs.cpp`, `syscall.c`), the SD-over-SPI driver (`FatFs-SD.h`), the
DMA/trampoline helper, and the logging utilities (`utils.cpp`).

The configuration modelled is the one `ffconf.h` selects on a threaded Particle
device: `_FS_REENTRANT = 1`, `_FS_LOCK = 10`, `_FS_TIMEOUT = 0` (wait for
ever), `_VOLUMES = 1`, `_FS_TINY = 0`, no long names, no exFAT, no relative
paths, 512-byte sectors.

## 1. Inventory

| Part | Source | State | Operations | Interacts with |
|---|---|---|---|---|
| Open-object table | `ff.c` 753-858 and its callers | `Files[_FS_LOCK]` (fs, clu, ofs, ctr), `lockid` of each FIL/DIR | `chk_lock`, `enq_lock`, `inc_lock`, `dec_lock`, `clear_lock`; used by `f_open`, `f_close`, `f_opendir`, `f_closedir`, `f_unlink`, `f_rename`, `find_volume`, `f_mount` | directories, volume mount |
| Volume mount and validation | `ff.c` 2853-3236 | `FatFs[]`, `fs_type`, `id`, `Fsid`, BPB fields | `get_ldnumber`, `check_fs`, `find_volume`, `validate`, `f_mount` | driver registry, lock table, volume mutex |
| Disk window | `ff.c` 865-958 | `win`, `winsect`, `wflag`, `fsi_flag` | `sync_window`, `move_window`, `sync_fs` | disk I/O |
| FAT and cluster chains | `ff.c` 965-1384 | the FAT on disk, `last_clst`, `free_clst` | `get_fat`, `put_fat`, `create_chain`, `remove_chain`, `f_getfree`, `f_expand` | disk window |
| Directories | `ff.c` 1423-2486, 2765-2843 | 32-byte entries, `DIR` cursor | `dir_sdi`, `dir_next`, `dir_alloc`, `dir_read`, `dir_find`, `dir_register`, `dir_remove`, `follow_path`, `f_readdir`, `f_mkdir`, `f_unlink`, `f_rename`, labels | window, chains |
| File data path | `ff.c` 3245-4083, 4405-4446, 5135-5196 | `FIL`: `fptr`, `clust`, `sect`, `buf`, `flag`, `err`, `objsize`, `sclust` | `f_open`, `f_read`, `f_write`, `f_sync`, `f_close`, `f_lseek`, `f_truncate`, `f_forward` | chains, disk |
| String I/O, formatting | `ff.c` 5206-6032 | - | `f_mkfs`, `f_gets`, `f_putc`, `f_puts`, `f_printf` | files, disk |
| Volume mutex | `syscall.c`, `FatFs.cpp` 226-274 | one recursive mutex per volume | `ff_req_grant`, `ff_rel_grant`, ... | every `f_*` call |
| Driver registry | `FatFs.cpp` 24-148 | `_drivers`, `_attached`, `_driveNumber` | `attach`, `detach`, destructor, `disk_*` | mount, driver |
| SD/SPI driver | `FatFs-SD.h` | `_status`, `_cardType`, `_busy`, `_busy_check`, `_active_clock`, bus mutex | `initialize`, `status`, `read`, `write`, `ioctl`, `wasBusySinceLastCheck` | card, SPI bus |
| Timeouts | `FatFs-SD.h` 43-51, `FatFs.cpp` 226, 244-262 | 32-bit millisecond tick | `TimeoutChecker`, `timeBetween`, `__ff_lock` | driver, mutex |
| DMA hand-off | `FatFs-SD.cpp`, `trampoline*.c*` | signal queue of one slot | `__ff_spi_send_dma`, `__ff_spi_receive_dma`, `invoke_trampoline` | SPI interrupt |
| Utilities, file log | `utils.cpp`, `FatFs.cpp` 155-224 | `_filename`, handler mutex | `FileLogHandler`, `f_append_string`, `f_copy`, `f_getline`, `scan_files` | all of the above |

How they interact. An application thread calls `f_*`; each call locks the volume
mutex (`ENTER_FF`), works on the directory, the FAT and the file data through
the disk window or the file's own sector cache, and reaches the card through
`disk_*`, the registered driver and the SPI bus. The mutex of the SPI bus is
shared with other devices. `status()` and `wasBusySinceLastCheck()` are called
from any thread without a lock. Card insertion, removal and the write-protect
switch are events of the outside. A DMA completion arrives from an interrupt
through a trampoline. The file log runs `f_open`, `f_write`, `f_close` under a
mutex of its own.

### What is hard in this code

- *Threads.* `f_close` holds the volume mutex twice and not in between;
  `validate` looks at the volume before the mutex is taken; `f_mount` changes
  the volume without it; `status()` changes `_status` under the feet of
  `initialize()`; `read()` gives the bus away in the middle of a call.
- *Order of writes.* FAT and directory sectors share one window. Which of the
  two is first on the card follows from the order in which calls move the
  window, and that decides what a power loss leaves.
- *Failure in the middle.* Every sector transfer may fail, and a failed write
  may still have been done. `create_chain`, `remove_chain`, `f_truncate`,
  `f_mkdir` and the sector cache are then half changed.
- *Caches and hints.* `last_clst`, `free_clst`, `fp->clust`, `fp->sect`,
  `lockid` and `Fsid` are kept across calls and must be right, or harmless when
  stale.
- *Limits.* A full lock table, a full volume, the end of the FAT, a chain that
  ends on a cluster boundary, the 256th reader, the wrap of a 32-bit tick.
- *Progress.* `read()` loops until the card answers; a timeout of 0 waits for
  ever.

`PROJECT.json` lists these hazards one by one, each at its line, with the
properties that watch it or the reason none does yet.

### What makes each part correct

| Part | Correct when |
|---|---|
| Open-object table | one writer or many readers of an object, across remounts; the table agrees with the live handles; an open object is not removed |
| FAT and chains, disk window | files share no cluster, in memory and on the card at every moment; no cluster is lost by successful calls; what was synced survives; "full" means full |
| File data path | what is written is read; what was synced stays, whatever fails later; a file never writes into another file's cluster |
| SD driver | the bus mutex balances, the driver's own bus settings are used; RES_OK means the sectors asked for; a protected card is not written; calls return |
| Directories | an entry is found if it is there, no name twice, tables share no cluster, `..` leads back; a call that fails or loses power has done its work or none of it; a listing delivers each entry once |
| Volume mount | what `f_mkfs` made mounts as what it was made; calls work on the mount their object was opened in |
| Volume mutex | every path out of a call releases it, as often as it was taken |
| Driver registry | a mounted volume is served by its own driver; `_drivers`, `_driveNumber` and `FatFs[]` agree |
| Timeouts | a deadline is not reported early, and is reported until the tick wraps; a wait without a timeout does not give up |
| String I/O, names | `f_printf` delivers all or says EOF; a pattern means what it says; a name shown leads back to its entry; lines are cut where they end |
| DMA hand-off | the completion is neither lost nor delivered to a dead frame |
| Utilities | `f_copy` copies and ends; the log's mutex and the volume's are taken in one order |

## 2. Modules

`MC*` modules only fix the constants and the symmetry sets of the runs.

| Module | Models | Extends / instantiates |
|---|---|---|
| `SharingPolicy` | what the open-object table promises, without the table | - |
| `FileLock` | the table, and every call that reads or writes it | `SharingPolicy` through `OpenView` |
| `FileLockProofs` | the table's invariant, writer exclusion, the entries of open files, the refinement of `SharingPolicy` | `FileLock`, `TLAPS` |
| `SdDriver` | `SDSPIDriver` between the volume, the bus, the card and unlocked callers | - |
| `SdDriverProofs` | its safety invariants | `SdDriver`, `TLAPS` |
| `FatVolume` | allocation, the disk window, what is on the card | - |
| `FatVolumeChains` | lemmas about chains, the inductive invariant, the steps of `create_chain`, `remove_chain`, `f_open`, `f_unlink`, `f_mkdir`, `f_getfree`, `f_sync` | `FatVolume`, `TLAPS` |
| `FatVolumeProofs` | the other steps, the theorems on what is reached, the count of free clusters and that none is lost | `FatVolumeChains` |
| `FileIO` | bytes of one file and its sector cache | - |
| `FileIOProofs` | arithmetic of offsets, the inductive invariant, lemmas about the chain of the file and the cache, the step of every call, and the theorems | `FileIO`, `TLAPS` |
| `Namespace` | what the directory calls promise: names in a tree, no tables | - |
| `Directory` | directory tables slot by slot, and every call on them | `Namespace` through `Promise` |
| `DirectoryProofs` | the inductive invariant of the tables through every call and stop, and the theorems on tables, tree and answers | `Directory`, `TLAPS` |
| `Threads` | the volume mutex, the driver registry and the file log between threads | - |
| `ThreadsProofs` | its safety invariants | `Threads`, `TLAPS` |
| `Format` | `f_mkfs`, and the mount that reads its work | - |
| `Names`, `Strings`, `Timeouts` | functions of their input: names and patterns, string I/O, tick arithmetic | - |
| `Algorithms` | the four above as one specification, with reference definitions | `Format`, `Names`, `Strings`, `Timeouts` |
| `AlgorithmsProofs` | what `f_mkfs` leaves mounts, deadlines are kept | `Algorithms`, `TLAPS` |

`PROJECT.json` maps every definition to its lines. The correspondence in short:

**FileLock** - `files` is `Files[]` (`key` stands for the pair `clu`, `ofs`; the
single volume makes `fs` redundant), `hnd` the FIL and DIR objects (`lockid`,
`id`, access), `ent` the root directory's entries, `vol` the pointer `FatFs[0]`
with `fs_type`, `fsid` the counter `Fsid`, `ready` the absence of `STA_NOINIT`.
`ChkLock`, `IncLock`, `DecLock`, `ClearLock` are the four functions of the table
on a table value; each call of the API is one action, and begins with
`FindVolume`, the set of outcomes of `find_volume` (use as it is, remount,
fail). `f_close` is two actions because the code holds the mutex twice.
An entry in the root has key `<<0, offset>>`; a directory opened by `f_opendir`
has `<<own cluster, 0>>`, because the code locks after it has entered and
rewound it.

**SdDriver** - `status`, `ctype`, `active`, `busy`, `busyCheck` are the fields;
`spi` says who configured the peripheral last; `depth` counts the locks of the
recursive bus mutex. `pc` and `call` are a call in progress; one action is one
command to the card with the decision that follows. `StatusLoad`/`StatusStore`
are an unlocked `status()` on another thread, whose load and store of `_status`
other steps may separate. The card is not simulated: it may refuse any command,
and accepts only while inserted and initialised. It takes the argument of a command
for a block number or a byte address by its kind (`Suits`, `Reach`, `Block`),
whatever the driver thinks it is; `Address` is what the driver makes of a sector,
from `_cardType`, and `call.addr` keeps it for the call.

**FatVolume** - `fat` and `ents` are the FAT and the directory as the code sees
them through the window, `disk` what the card holds, `win`/`wflag` the window;
`MoveWindow` gives the outcomes of an access, with its write-back. `fil` are the
FIL objects open for writing, `last` and `free` are `last_clst` and `free_clst`.
A call is a record with a program counter, one step per FAT or directory access,
so that the power (`Crash`) can fail between any two. `ChainFind`/`ChainLink`
are `create_chain`, `RemoveCut`/`RemoveOne` are `remove_chain`; the calls go
through them and continue in an action named for the call and the place
(`WriteGot`, `Truncated`, `MkdirRegister`, ...). `SyncFs` and `SyncEnd` write the
window back.

**FileIO** - `fat` and `ent` are what the calls see, `data` the sectors of the
data area byte by byte, `fil` the FIL with its cache (`sect`, `buf`, `dirty` for
`FA_DIRTY`, `mod` for `FA_MODIFIED`, `err`). A byte is known by the number of
the `f_write` that wrote it. Each round of the loops of `f_read`, `f_forward`,
`f_write` and `f_lseek` is one action, split by which branch of the loop it
takes (whole sectors directly, or a part through the cache). Any transfer may
fail; a failed write may have been done, a failed direct write to any extent,
and a failed read leaves junk in the cache. `OtherTakes`/`OtherFrees` are other
files that allocate and free clusters between the calls.

`FatVolume` and `FileIO` divide `f_write` and its relatives: the first has whole
clusters, the window and crashes, the second bytes, sectors and the file's cache
with a FAT whose accesses only succeed or fail. Both take the mutual exclusion
of calls from the volume mutex, and one writer per file from `FileLock`.

**Directory** - `card` holds the sectors and the FAT, `win` the window over them.
The volume mutex lets one call run at a time, so a call is one step; it is a
function of a record `v` (card, window, result, position of the `DIR`), and the
operators are chained as the C functions call each other, with `Then` where the
C goes on only after `FR_OK`. `v.left` counts the transfers: `Endings` gives the
call that comes to its end and one for each transfer at which it fails or the
power goes, so that a step stops wherever the call can. `tree` and `saved` are what the tables say, in the window and on the
card: the refinement mapping to `Namespace`. `dir` is a `DIR` of `f_opendir`;
`told` and `due` remember what its listing has delivered. A slot has a kind, a
name, a start cluster and an object number (for size and times); the root is a
static table of `RootSects` sectors, sub-directories are chains.

**Threads** - `grant` and `handler` are the two recursive mutexes, `drivers` is
`_drivers[0]`, `attached` and `num` are fields of the drivers, `volume` is
`FatFs[0]`, `fs` each driver's `FATFS` with `fs_type # 0` and `id`. A thread has
a stack of calls, because the file log calls the API and the API logs: `find`,
`enter`, `check`, `init`, `work`, `leave` are the places of a call on a path,
`validate`, `enter`, `work`, `leave` those of a call on an open object. What the
work does is the matter of the other modules. `attach` and `detach` run alone, as
`ffconf.h:253` demands of `f_mount`.

**Format** - `want` is the request and what the drive answers, `fmt` and `au` the
locals that a retry changes, `geo` the geometry settled. One round of the retry
loop is a step, and so is every write, in the order of the code; the card is
known by its boot sectors and by how far FAT and root have been cleared.
`FindVolume` translates `check_fs` and the boot sector part of `find_volume`,
so `MountsAsFormatted` sets two pieces of code against each other.

**Names, Strings, Timeouts** - strings are sequences of characters; a character
class that the code tells apart has one or two members. `Algorithms` picks one
input in each behaviour and its properties compare the function with a reference
definition (the meaning of a glob, the value of a numeral, the first line of a
text), or with the function that reads its result back.

Together: `Directory` has the whole calls that `FileLock` (which asks about open
objects) and `FatVolume` (which asks about clusters) take as steps on a set of
entries; `Threads` has the order of locks, mounts and validation that lets the
three of them take a call, or a part of one, as undisturbed.

## 3. Runs

| Run | Module, configuration | Distinct states | Asks |
|---|---|---|---|
| `file_lock` | 3 handles, 2 names, 2 entries, 1 sub-directory cluster, 2 slots, 2 mounts | 185,330 | sharing, bookkeeping, entries of open files, refinement |
| `file_lock_opendir` | the same | violated | is an open directory safe from removal? |
| `sd_driver` | 2 cards (one addressed in blocks, one in bytes), requests of 1 or 2 sectors from sector 1 on, card detect and protect detect on, fair | 1,270,384 | locking, bus settings, busy notice, results, protection; does every call return when a card is left in place? |
| `sd_write_address` | 1 card addressed in blocks, requests of 1 sector, no protect switch | violated | does `write()` write the sector asked for? |
| `fat_volume` | 2 files, 3 clusters, FAT of 2 sectors, calls of up to 2 clusters, no faults | 1,959,514 | the card at every moment, lost clusters, cursors, disk full |
| `fat_faults` | 2 files, 2 clusters; 1 failed transfer and 1 power loss, or `f_getfree` and no trouble | 1,805,737 | chains after faults, what a power loss leaves, the count of free clusters |
| `fat_sync_ok` | 2 files, 2 clusters, 1 failed transfer | violated | is the entry on the card once `f_sync` said OK? |
| `file_io` | 2 clusters of 2 sectors of 2 bytes, 2 writes of 5 bytes, 1 failed access | 3,485,364 | the sector cache, durable bytes, other files |
| `directory` | 2 names, 1 level of directories, root of 2 sectors, 3 clusters, 2 slots a sector, 2 objects, 1 failure or power loss | 72,620 | tables, tree, search, refinement of `Namespace` |
| `dir_listing` | a directory of 2 names, 3 objects, 2 clusters, 1 failure or power loss | 55,496 | what a listing delivers while others work |
| `algorithms` | 22 drive sizes, 6 erase blocks, 6 units; strings up to 5 characters; 4-bit numbers, 5-bit tick | 378,508 | formatting, names, patterns, printing, lines, deadlines |
| `threads` | 2 threads, 2 drivers, 3 mounts, calls nested 4 deep | 3,630,131 | mutexes, fresh objects, registry |

What they show:

- *file_lock.* `WriterExclusive`: while a handle has an object open for writing,
  no other live handle has it, across remounts and the gap inside `f_close`.
  `TableAgrees`: the slot of a live handle carries its key, no object has two
  slots, the counter counts the readers or marks the single writer.
  `OpenFileKeepsEntry`: `f_unlink` and `f_rename` never take the entry away under
  an open file. `SharingRefinement`: all of it implements `SharingPolicy`, where
  opening or closing one handle does nothing to another.
- *sd_driver.* `LockBalanced`: across `lock_guard`, the unlock, `initialize()`,
  lock sequence inside `read()`, and the nested guard of the erase command, no
  call returns with the mutex or `_busy`. `OwnSettings`: the driver never talks
  with another device's SPI settings. `BusyNoticed`: an access since the last
  `wasBusySinceLastCheck` is never missed. `WriteOkMeansWritten`: `RES_OK` from
  `write()` means every block, in order, on one card, from the sector asked for, in
  the unit that the card counts in; the one exception is below.
  `ProtectedUntouched`: the switch is obeyed even when `_status` has been inverted by
  `initialize()`. `CallsReturn`: if a card that takes the address asked for is left in
  place from some time on, every call returns, through the loop in which `read()`
  re-initialises a card.
- *sd_write_address.* `WriteAddressed` is `WriteOkMeansWritten` without the exception.
  In the trace `status()` on another thread finds no card; one is inserted, and
  `initialize()` fails although the card is ready by then, so that `_cardType` is 0;
  `status()` then stores its `STA_NODISK` over `STA_NOINIT`. `write()` sends a byte
  address to a card that counts in blocks, and answers `RES_OK`.
- *fat_volume, fat_faults.* `ChainsSound`: no two files share a cluster, no chain
  runs into a free cluster, every file has the clusters of its size, after any
  fault and power loss. `CrashSound`: the same of what is on the card, at every
  moment. `SyncedSurvives`: what `f_sync` made durable is reached from the entry
  on the card for ever after, until it is truncated, overwritten or removed.
  `NothingLost`: no sequence of successful calls loses a cluster. `CursorOnChain`:
  `fp->clust` is the cluster of `fptr`. `FullMeansFull`: a call is told the volume
  is full only if it is.
  `FreeNotUnderstated`: `f_getfree` never reports less than there is. It can
  report more: the count is not taken down from an empty volume
  (`ff.c:1377`) nor by `f_expand` (`ff.c:5115`). Failures and power losses do not
  concern it, so it is asked in behaviours of `fat_faults` without them.
- *file_io.* `ReadsBack`: a written byte is in the cache if its sector is cached,
  else on the card. `DeliversWritten`: `f_read` and `f_forward` hand out what was
  written last. `DurableStays`: a byte made durable by a successful `f_sync` or
  `f_close`, and which no later call was asked to change, is on the card in every
  state, also between two transfers and after any failure. `OthersUntouched`: no
  call writes into a cluster of another file.
- *directory.* `TablesSound`: names are unique, at most one label, nothing behind
  the first slot never used, no slot that no call wrote. `TreeSound`: two
  directories share no cluster, each begins with its dot entries and `..` leads to
  the directory that has the entry, also when `f_rename` moved it and was stopped.
  `Answers`: `f_stat` finds a name exactly when the tables hold it, `f_getlabel`
  the label. `KeepsPromise`: the calls implement `Namespace`: FR_OK means the
  operation, the whole operation, on the card; a failure or a power loss leaves
  the operation done or not done, for `f_rename` also both names.
- *dir_listing.* `ListedOnce`: an entry that is there from the begin of a listing
  to its end is delivered exactly once and nothing else is delivered, while
  entries around it are created, renamed and removed and the table is stretched.
- *algorithms.* `MountsAsFormatted`: a volume made by `f_mkfs` mounts with the type,
  the clusters and the areas that `f_mkfs` settled and cleared, inside the drive,
  aligned to the erase block. `BlankUntilDone`: a blank card that is given a
  partition does not mount before its FAT is cleared, wherever `f_mkfs` stops.
  `ShownReopens`, `MatchesGlob`, `PrintsAllOrEof`, `LinesDelivered`,
  `ExpiresInTime`: each function against its reference, for all inputs up to the
  bounds. In `ExpiresInTime`, `__ff_lock` with a timeout of 0, the one that
  `_FS_TIMEOUT` gives it, or of `CONCURRENT_WAIT_FOREVER` waits for ever; with another
  it gives up, neither before its time nor more than a pause after it.
- *threads.* `LocksBalanced`: on every path, the failures before and after the lock
  and calls within calls included, each mutex is held as often as calls in
  progress took it, by one thread. `ObjectsFresh`: a call works on an object only
  while its volume is mounted as it was when the object was opened.
  `AttachedServes`: outside `attach` and `detach`, a mounted volume is the one in
  `FatFs[0]` and its own driver is registered, and `driveNumber()` tells which
  driver is registered.

### Exceptions written into properties, and why

- `CrashSound` leaves out a file that `f_truncate` shortened until its new entry
  is on the card (`cut`): the code frees the clusters first (`ff.c:4420`) and
  gives no guarantee. The model ends a behaviour that crashes there.
- `NothingLost` and `FreeNotUnderstated` speak of behaviours in which no call has
  failed (`failed`): an error in the middle of a chain loses clusters by design. The
  `FR_INT_ERR` of `f_expand` on a sound volume (`ff.c:5092`) is such a failure too.
- `WriteOkMeansWritten` does not promise the sector when `_cardType` is 0 and the card
  counts in blocks, which is the race of `sd_write_address`, nor when the byte address
  does not fit 32 bits; the blocks are consecutive and on one card all the same.
- `CallsReturn` asks for a card that takes the address (`Suits`): `read()` makes it
  before its loop (`FatFs-SD.h:431`), and a card addressed in bytes that takes the
  place of one addressed in blocks meanwhile refuses it each time.
- `OthersUntouched` leaves out behaviours in which an `f_truncate` failed
  (`halfCut`). Without the exception TLC finds in nine steps that `f_close`, which
  does not look at `fp->err`, writes the dirty cache into a cluster that was freed
  and belongs to another file by then (`ff.c:4441`).
- `TablesSound` and `ListedOnce` leave out what follows a call that was stopped while
  it stretched a table (`torn`): the new cluster is linked before it is cleaned
  (`ff.c:1514`), and a table that ends in old contents is the result.
- `TreeSound` speaks of states in which no directory has two names (`Single`), and
  the calls that change the tree are asked only there: once `f_rename` was stopped
  with both names of a directory on the card, removing one frees the table of both.
- `ListedOnce` leaves out a listing in which `f_readdir` failed: `dir_next` has
  stepped the sector by then (`ff.c:1491`), and going on skips or invents entries.
- `Namespace` lets a directory that is renamed to a place below itself be lost with
  its contents (`Lose`): `f_rename` does not refuse it.
- `MountsAsFormatted` leaves out a volume without a cluster (`NoCluster`), and the
  count of free clusters when the write of FSINFO, whose result nobody reads, has
  failed (`unwritten`). `ShownReopens` leaves out the name of eleven spaces that
  `create_name` makes of the path `.`. `PrintsAllOrEof` does not read back a signed
  number filled up with zeros, `ExpiresInTime` excepts deadlines of 0 ms and on the
  last tick, `LinesDelivered` a last line without an end. Section 5 lists each.
- `ObjectsFresh` leaves out behaviours in which the volume was given up or mounted
  while a call was between `validate` and the lock (`slipped`: the race of
  `ff.c:3172`), or a message was logged from inside a call (`nested`).
- `AttachedServes` lets a volume stay mounted without its driver when a message was
  logged from inside a call (`nested`): section 5 says how.
- `ReadsBack` says nothing about a file object with an error, which no call but
  `f_sync` and `f_close` accepts.

### Bounds, and why they are enough

- Three handles over two slots fill the table, give two readers beside a third
  open, and a writer beside two rivals; two mounts make a handle stale and let a
  newer one reuse its slot; two names and two entries let a rename collide.
- Two cards differ in kind and in the unit of their addresses, so that a swap is
  visible in `_cardType` and in the block that is reached; sector 1 has another address
  in each unit, which 0 has not. Requests of two sectors take the multi-block branch of
  `write()` and the loop of `read()`. `Word`, 2^32 in the code, is 1024: it has room for
  the byte address of sector 1. Addresses that are cut to the width are left to the
  proof.
- Three clusters in a FAT of two sectors make the window move between FAT sectors,
  let the search wrap, and let two files interleave; two files are what a
  cross-link needs. A call writes, seeks or expands by up to two clusters; appends
  reach the full volume. `Bounds` says what a behaviour may meet (failed transfers,
  power losses, `f_getfree`), so that a run is asked only the combinations that its
  properties are about. One fault in each behaviour reaches every single failing
  transfer; `fat_volume`'s properties were also seen to hold, once, with one fault
  at three clusters (12.8 million states), and with one power loss at three clusters.
- Two clusters of two sectors of two bytes have every kind of boundary (within a
  sector, sector, cluster, end of volume). A write of 5 bytes goes through the
  direct branch, then the cache, in one call, and the second write begins in the
  middle of a sector; a read of 8 bytes covers the whole file from any position;
  a seek to 5 lands one byte past a cluster boundary, within or past the file.
- The search, the window and the chains compare cluster numbers only for equality
  and order, and the lock table keys only for equality, so larger instances add
  more of the same situations.
- Two slots a sector and one sector a cluster make every second entry stretch a
  sub-directory and every walk cross sectors; a root of two sectors is walked across
  its sectors and fills up; three clusters are two directories and a stretch, or a
  stretched directory and a full volume. One failure or power loss comes at each
  transfer of each call.
- The drive sizes lie at and beside every limit of `f_mkfs`: 128 sectors, 4085 and
  65525 clusters, the tables of default cluster sizes, the largest FAT32. Strings of
  five characters reach two wildcards with a character between, before and after.
  A name has a body of two characters and an extension of one; a number has four
  bits, the buffer of `f_puts` six places with its limit at three, the tick five
  bits: the code compares these sizes and wraps at them, and does nothing else.
- Two threads and the stack of four make every interleaving of a call with a call,
  with the log, and with a log inside a call, also inside the mount of an `attach`;
  three mounts make an object stale twice; two drivers follow each other in one place.
- Deadlock is checked in every run but two. A behaviour of `algorithms` is one case
  and ends. In `threads` the system really stops: a message logged inside a call
  takes the two mutexes in the wrong order (section 5).

### Fairness

Only `sd_driver` uses it, through `FairSpec`, for `CallsReturn`:

- strong fairness of `CallSteps`: a thread inside the driver runs on, and gets the
  bus mutex whenever it comes free again and again (an RTOS mutex with a queue);
- weak fairness of `OtherGives`: another device's transaction ends;
- strong fairness of `CardIdentified` and `ReadBlock`: a card that is in place and
  asked over and over answers some day. Without it a card that never answers makes
  `read()` loop, which is a property of the card.

Nothing is assumed of the application, of insertions and removals, or of
`status()`. `CallsReturn` needs a card in place from some time on, and one that takes the
address of the call (`Suits`). The hypothesis matters: with the card gone for good, or
one addressed in bytes in the place of one addressed in blocks, `read()` never returns.

## 4. Proofs

Every theorem is about `Spec`, for all values of the constants that satisfy the
named assumptions of its module, and rests on an inductive invariant `IInv`: `Init`
establishes it, every action keeps it, it implies the property. TLC checked the
invariants on the instances of the runs before they were proved; of `FatVolume`'s,
which asks for a function on the clusters, only what follows from it.

### The open-object table

`FileLockProofs` proves, for every number of handles below the write mark, every
number of slots, entries, clusters and mounts:

- `TypeCorrect` - `Spec => []TypeOK`
- `TableAlwaysAgrees` - `Spec => []TableAgrees`
- `WritersExclude` - `Spec => []WriterExclusive`

Assumptions: `ConstantsAssumption` (finite handles, at least one slot, natural
numbers where the code has them), and `HandlesBelowMark`: fewer handles than
`0x100`. The second is needed: the 256th reader of an object would give the
counter the value that means "open for writing" (`ff.c:819`).

The inductive invariant is `TypeOK` and `TableInv`, the conjunction of five parts.
`WriterExclusive` alone is not inductive: two handles could share a key and be in
two slots (excluded by `OneSlotEach`), a slot could carry another key than its
holder's (`HeldSlots`), a counter could have forgotten a holder (`Counted`), a
directory's slot could bear the write mark, which `f_opendir`'s unconditional
`inc_lock` would then add to (`DirsRead`), and a handle could have the id of a
mount that has not happened (`PastIds`), so that the remount would bring it to
life with a cleared table.

The argument: `LockSlotFacts` says what slot `inc_lock` picks. `TakeSlot` shows
that a handle that was not live and takes a slot for a key keeps the five parts;
`ReleaseSlot` that a live handle giving its slot back does; `VolumeStep` that
`find_volume` does, because either nothing changes or nobody is live after it
(`NobodyLive`, `ClearLockFacts`). Each API call is then a composition of these
(`FOpenStep`, `FOpendirStep`, `FCloseStep`, ...), `Step` puts the actions
together, and `AgreementExcludes` derives writer exclusion from the invariant by
counting holders.

The second part of `FileLockProofs` builds on it:

- `ImplementsPolicy` - `Spec => SharingRefinement`: what the handles have open
  changes only as `SharingPolicy` allows. Each call is looked at in the order of the
  code: `find_volume` leaves the view as it is or empties it (`VolumeView`), then the
  call opens or closes one handle of it (`OpenedView`, `CloseView`); that the handle
  may be opened is what `TableInv` says of a slot that `chk_lock` accepted.
- `EntriesStay` - `Spec => []OpenFileKeepsEntry`: `chk_lock(dj, 2)` refuses exactly
  when a live handle has the key, so the entries that `f_unlink` and `f_rename` take
  away are nobody's.

### The SD driver

`SdDriverProofs`, for any cards, sectors, length of a request, width of an address and
settings of the two detection pins (`DriverAssumption`: a sector fits the width):

- `TypeCorrect`, `LocksBalance`, `SettingsAreOwn`, `AccessNoticed`, `WritesComplete`,
  `ProtectionHolds`: the six invariants of the run `sd_driver`.

`LockBalanced` and `OwnSettings` need to know of one another and of the place of the
call (`Shape`, `Bus`): the mutex is held exactly between `lock()` and `unlock()`, and
whoever took it last before a command was the driver. `WriteOkMeansWritten` is not
inductive: `Written` adds that the blocks sent so far are consecutive (`InOrder`) from
what the card takes the address of the call for (`Reach`), that the address is what
`Address` makes of the sector, and that the blocks make up the request together with
those left. The card may go at any step; what keeps the blocks on one card is that a
card that goes loses its initialisation and does not answer again. `Known` says when
the address is right: a card that answers is the one `_cardType` stands for, or
`_cardType` is 0. It holds because a card answers only after an `initialize()`, which
set `_cardType` to its kind or to 0, whatever `status()` did to `_status` meanwhile.

### Threads

`ThreadsProofs`, for any threads, drivers, number of mounts and depth of calls in one
another (`ThreadsAssumption`: `None` is no thread and no driver):

- `TypeCorrect`, `LocksBalance`, `FreshObjects`, `Serves`: the types and the three
  invariants of the run `threads`.

The invariant says where each call of a stack can be and what it has there
(`GoodCall`), and which call may lie on which (`Fits`): a call of the log's on
`f_append_string`, the mount on `attach`, the log on a call that logs. A step swaps
the call on top, pushes one or pops one; what that does to the number of calls that
have a mutex is counted once for each (`CountSwap`, `CountPush`, `CountPop`), and
every action is then one of the three with its counts (`...Base`). The rest of the
invariant is about the registry: a thread in `attach` or `detach` is alone (`Lone`);
while `attach` has its driver entered and not mounted nothing is mounted (`Barren`),
unless a message was logged; a call past `find_volume` is on the volume in `FatFs[0]`
(`OnVolume`). `SlipsSeen` ties `ObjectsFresh` to the mutex: whoever mounts has it, so
every other call on an object is before its lock, which is what `slipped` records.

### Allocation and the card

`FatVolumeProofs`, for any number of clusters, any layout of their entries in sectors
of the FAT, any files and sizes, and any number of failed transfers and power losses
(`VolumeAssumption`):

- `VolumeTypes` - `Spec => []TypeOK`
- `ChainsStaySound` - `Spec => []ChainsSound`
- `CardStaysSound` - `Spec => []CrashSound`
- `SyncedIsKept` - `Spec => []SyncedSurvives`
- `CursorStays` - `Spec => []CursorOnChain`
- `FullIsFull` - `Spec => []FullMeansFull`

The properties speak of walks along a list in the FAT, and a step in the middle of a
list changes every walk through it. The invariant therefore does not speak of walks.
It says that there is a witness `w`: the owner of each cluster (`w.own`), its place in
the chain of that owner (`w.idx`), and the length of each chain (`w.len`), such that a
cluster links to the one in the next place, or is the last and ends the chain, and no
place is taken twice (`Good`). The owners are, for each file, what its object leads to
(`Now`) and what its entry still leads to while the object leads elsewhere (`Old`);
the clusters that a call has in hand, taken and not linked or cut off and not freed
(`Hand`); and nobody. In these terms every step is local: a free cluster goes into
hand (`AllocGood`), is linked (`LinkGood`), a chain is cut (`CutGood`) and freed one
cluster after the other (`FreeGood`), goes from one owner to another or to nobody
(`MoveGood`, `DropGood`), a row of `f_expand` gets its owner (`RowGood`).

`IInv` is `\E w : Inv(w)`, and `Inv(w)` has these parts:

- `FileOk`: object and entry of each file lead to a chain of at least its size, and the
  first clusters of it are those made durable (`Leads`); `clust` is in place `pos`. Not
  in the middle of `f_lseek`, whose cursor is ahead of its place, nor, for the entry, of
  `f_truncate` until the next `f_sync`.
- `CallOk`: what the call in progress has in hand and where it will go on, at each of
  its steps (`Growing`, `Removing`, `Expanding`, ...). Without it `create_chain` could
  link a cluster that had been freed, or `remove_chain` free one of another file.
- `Windows`: only the sector in the window differs from the card, and only if it is
  dirty. `CardOk`: the card has a witness of its own. `CrashSound` and
  `SyncedSurvives` need both: the card changes when the window is written, and is
  then what a read through the window sees, for which `w` is a witness (`FlushIs`).
  A change in the window leaves the card, and so its witness, alone. A power loss
  makes the card's witness the one of both.

The files that `CrashSound` leaves out (`cut`) are left out of `CardOk` too, and a
power loss while there are any ends the behaviour in the model.

Each action has its lemma (`ChainLinkStep`, `WriteGotStep`, ...), and `NextInv` puts
them together. What `Walk` and `Reach` see of a chain with a witness is proved once
(`WalkSteps`, `ReachSteps`): the prover has no induction over data, so that the
argument is by the least number of steps for which it would be wrong, taken from the
library's theorem that the natural numbers are well-founded. `TypeOK` bounds the sizes
by the number of clusters: a chain has no cluster twice, so it is no longer
(`InvFits`), and a size is no longer than its chain (`Small`).

`FatVolumeProofs` also proves what is true only as long as no call has failed:

- `SpaceIsKept` - `Spec => []NothingLost`
- `FreeIsEnough` - `Spec => []FreeNotUnderstated`

The witness above cannot give them: failures leave clusters behind that are taken and
nobody's, so it must allow those. For the count the invariant is `Counted`: it is at
least the number of free clusters, and one more while `create_chain` has marked a
cluster and not counted it down. For the space it is `Space`: while all went
`Smoothly`, every cluster that is not free is led to by an object or an entry, is in
the hand of the call in progress, or is the next of another cluster (`AllRooted`); and
some numbering of the clusters goes up along every link (`Ranked`). The first alone
would be satisfied by a ring of clusters that nobody leads to. `EntryFits` and
`ObjectFits` say when an object leads to another chain than its entry (so that dropping
one of the two drops nothing), and `StepFits` what the call in progress knows of the
clusters in its hand. In the end, if there were lost clusters one would have the least
number; what leads to it is a file, and then it is not lost, or a cluster of a lower
number, and that is lost too. `create_chain` keeps `Ranked` because the new cluster
leads nowhere when it is linked (`RankOne`), and cutting a chain takes a link away.

### Bytes and the sector cache

`FileIOProofs`, for any number of clusters, any sectors in a cluster and bytes in a
sector, any arguments of the calls and any number of failed transfers
(`FileAssumption`: the marks of a FAT entry differ from each other and from the
clusters, the sizes are at least one):

- `TypesHold` - `Spec => []TypeOK`
- `WrittenReadsBack` - `Spec => []ReadsBack`
- `ReadDeliversWritten` - `Spec => []DeliversWritten`
- `DurableBytesStay` - `Spec => []DurableStays`
- `OtherFilesUntouched` - `Spec => []OthersUntouched`

Again the invariant is `\E w : Inv(w)`, with a witness `w` that gives each cluster its
place in the chain of the file (`Chained`). The byte at offset `i` is in the cluster of
place `Plc(i)`, in its sector `Sec(i)`, at `i % SS`; what is said of the cache and the
card is said of the sectors with that place (`At`), and `SectorIs` proves that they are
what `SectorOf` finds along the FAT. `Inv(w)` has, beside the types:

- `Reads`: a written byte is in the cache if its sector is, and on the card too unless
  the cache is dirty. Unlike `ReadsBack` it says where the card is as new as the cache:
  without that, `Fill` and `WriteSector` could drop a cache that is not.
- `Keeps`: a durable byte is on the card, and a dirty cache of its sector has it as
  well. `DurableStays` alone would not survive the write-back.
- `Dirt`: a dirty cache is of a cluster in the chain, until an `f_truncate` fails; the
  chain has no cluster of another file, hence `OthersUntouched`.
- `CallOk`: between the rounds `clust` is the cluster of the byte before `fptr`, and
  inside a sector the cache names the sector of `fptr` (`Cursor`); in the loop of
  `f_lseek` it is the cluster from `fptr` on (`Seeking`). The bytes that an `f_write` in
  progress will still reach are not durable.
- `EntryOk`: with `FA_MODIFIED` clear, entry and object agree and the cache is clean, but
  in the middle of an `f_write`. `SafeOk`: durable bytes lie within both sizes.

An error takes `Reads` away from the object, which `f_read` and `f_write` then refuse,
and leaves the other parts: `f_sync` and `f_close` still write the cache back.

A call in the middle of a round is described by `Frame`: the object and the data area
then fit a chain that may have grown since. The lemmas about `create_chain`
(`CreateChainIs`), `get_fat` (`FollowingIs`) and `remove_chain` (`RemoveChainIs`) say how
the witness changes; those about the cache (`WriteBackFrame`, `FillIs`,
`WriteSectorIs`) what each outcome leaves. A round ends in `AbortStep`, `ReadRound` or
`WroteStep`, `f_truncate` in `CutStep`, `f_sync` and `f_close` in `SyncedStep` and
`ClosedStep`; each action has its lemma, and `NextInv` puts them together. The
arithmetic (division, remainder, products of unknown sizes) is in a few lemmas at the
beginning, since the provers do none of it on their own.

### Directories

`DirectoryProofs`, for any number of clusters, sectors in a cluster, slots in a sector
and sectors of the root, any names, labels and paths, any number of objects, and calls
that are stopped at any transfer, by an error or a power loss (`DirectoryAssumption`:
a sector holds at least the two dot entries; `PathAssumption`: a path has at least one
name, and no name is empty):

- `TablesStaySane` - `Spec => []Inv`, the inductive invariant
- `DirectoryTyped` - `Spec => []TypeOK`
- `TablesStaySound` - `Spec => []TablesSound`
- `TreeStaysSound` - `Spec => []TreeSound`
- `AnswersHold` - `Spec => []Answers`

The properties speak of tables strung together by the FAT, the invariant of slots. A
witness `w` gives each cluster its table (`w.own`), its place there (`w.idx`) and each
table its length (`w.len`), and `Good` says four things in its terms: the FAT links the
places in order (`Chained`); the entry of a directory leads to a table that begins with
its dot entries, and `..` leads back while the directory has one entry (`Led`); what is
used lies in a table and before its end, and no two entries of one table have one name
(`Ordered`); no table that an entry leads to holds what its clusters held before
(`Clean`; not once a table was torn). `Sound` asks for a witness twice, for the card and
for what the calls see of it through the window (`Now`): either can be what a call that
is stopped leaves, and neither follows from the other. `Listens` adds where the position
of the listing may be.

A call is a chain of functions on a volume (`Vol`): a search does not change what is
seen (`Reads`), `dir_alloc` may have the table grown (`Grew`, with the next witness), and
the whole call ends sound, or ends sound and torn (`Kept`, `Fine`). The loops of
`follow_path`, `dir_find`, `dir_alloc` and `dir_next` are recursive functions; what they
return is not computed but described by the steps that lead there, again with the least
step at which it would be wrong (`UpTo`), as in `FatVolumeProofs`. The order of the
writes matters in `f_mkdir` (the table is written before its entry), in `f_rename` (the
new entry, then `..`, then the old one goes) and in `remove_chain`; each has its lemma
for the state between two transfers.

`ChainOfIs`, `SectorsOfIs`, `TableIs` and `TablesAre` then tie the properties' own terms
to the witness, so that what is said of slots is said of positions in tables. `Alone` is
`Unique` under `Single`, which gives `TreeSound`.

`Answers` needs no other invariant but a description of the search that is exact: with
no transfer failing (`Steady`), `DirFind` ends on an entry with the name or on none
(`Meets`), segment by segment (`SegmentMeets`); the tables that `Leading` collects are
never more than one, because names are unique (`LeadOne`).

### Formatting and deadlines

`AlgorithmsProofs`, for drives of up to 2^30 sectors, any erase block and allocation
unit, any set of options (`FormatAssumption`), any pause (`AlgorithmsAssumption`) and
any width of the tick (`TimeoutsAssumption`); the sizes at which `f_mkfs` changes its
mind are those of the code:

- `FormatsWhatMounts` - `AlgSpec => []MountsAsFormatted`
- `BlankStaysBlank` - `AlgSpec => []BlankUntilDone`
- `DeadlinesAreKept` - `AlgSpec => []ExpiresInTime`

The invariant is `FormatInv`. `Asked`: a unit that the loop tries is a power of two up
to 128 sectors, and the type that it tries was asked for; this is where the retries
could go wrong. `Settled`: what the round that leaves the loop has found out, in terms
of the sizes alone: the number of clusters is what is left for them, fits the type and
has room in the FAT, and the data area starts at an erase block. `OnCard`, `Cleared`:
which of it is on the card at each step of the writing. `Blank`: without a partition
table the first sector of a blank card is still what it was, and with one everything
else is there.

`PlanSettles` is the core: the loop estimates the FAT from all sectors of the volume,
then takes reserved sectors, FAT, root directory and padding away, and recomputes the
number of clusters; the FAT is large enough for it because the second number is at most
the first, and rounding keeps that order (`Divided`, `SectorsFor`, `Fat12Fits`). A
negative room, which wraps in the code, is refused as too many clusters (`RoomNeeded`).
`MountIs` then computes from the boot sector what `find_volume` does; the fields that
are cut to 16 bits are small enough (`FieldsAre`). The powers of two are listed once
(`PowersAre`).

`ExpiresInTime` speaks of one input at a time, so its invariant is only that the input
is one (`DeadlineAsked`); the proof is arithmetic of a tick that wraps at most once
between two readings (`TickIs`, `BetweenIs`). `LockWaits` is never over for a timeout of
0 or `CONCURRENT_WAIT_FOREVER`, for which `__ff_lock` calls `lock()`. For another it is
the least of the moments at which the polling ends; `WaitsThen` names one, which shows
that there is a least (`LeastOf`) and bounds it. A timeout within a pause of the tick's
width may be missed over the wrap, and is excepted.

### What stays with TLC

- Liveness (`CallsReturn`), since the prover does not reason about fairness and
  `ENABLED`.
- `ListedOnce` and `KeepsPromise` of `Directory`: the first needs a record of which slots
  the listing has passed, through every call in between; the second compares sets of
  paths, whose recursion over the depth of the tree is induction over data.
- `ShownReopens`, `MatchesGlob`, `PrintsAllOrEof` and `LinesDelivered` of `Algorithms`:
  what recursive functions over strings compute for every input is induction over data.

## 5. Findings

With a run (see `PROJECT.json`, "findings"):

1. An open directory can be removed or renamed (`f_opendir` locks another key than
   the one `f_unlink` and `f_rename` check).
2. `write()` puts a block at the byte address of its sector on a card that counts in
   blocks, and answers `RES_OK` (`FatFs-SD.h:473`), after a failed `initialize()` whose
   `STA_NOINIT` an unlocked `status()` has overwritten.
3. `f_sync` after a failed `f_sync` returns `FR_OK` with the entry not on the card.

Found by model checking, and written into the models as an exception or a history
variable (section 3):

- A message logged from inside a call enters the API again through the recursive
  mutex, or deadlocks with a thread that logs on its own: that one has the
  handler's mutex and waits for the volume's (`utils.cpp:280`, `FatFs.cpp:26`).
- `validate` looks at the volume before it has the mutex: a call can go on with an
  object whose volume another thread has given up or mounted anew meanwhile
  (`ff.c:3172`, although the comment at `ff.c:3159` promises the check).
- A message that `disk_initialize` logs inside `attach` (`FatFs.cpp:26`) opens the log
  file and so mounts the new volume; when the mount of `attach` itself then fails,
  `attach` takes the driver out of `_drivers` and leaves `FatFs[0]` with a volume that
  is mounted (`FatFs.cpp:92-100`). Four calls deep, so that a smaller instance of
  `threads` did not reach it.
- With the card pulled for good, `read()` re-initialises for ever and never returns
  `RES_ERROR` (`FatFs-SD.h:434`, against `diskio.h`: "1: R/W Error"). So it does when a
  card addressed in bytes takes the place of one addressed in blocks: the address is
  made before the loop (`FatFs-SD.h:431`), and refused each time. In the other direction
  it reads another block than the one asked for.
- `f_expand` answers `FR_INT_ERR` on a sound volume and loses clusters: its search wraps
  while it counts a contiguous block, and the fill then runs off the FAT (`ff.c:5092`).
- `f_truncate` that fails after it freed the cluster of the dirty cache lets
  `f_close` write into another file (`ff.c:4441`).
- A directory table that is stretched is linked before it is cleaned; stopped in
  between, it ends in entries of whatever the cluster held (`ff.c:1514`).
- `f_rename` that is stopped leaves both names (`ff.c:4707`), and moves a directory
  below itself without complaint: the whole tree is lost (`ff.c:4693`).
- `f_readdir` that failed in `dir_next` must not be called again: it skips entries or
  reads another table's (`ff.c:1491`; `ff.c:2153` says "Terminate the read operation
  on error or EOT", which only `dir_read` does).
- `f_mkfs` answers `FR_OK` for a volume whose data area the alignment has eaten, which
  then does not mount (`ff.c:5493` tests before it aligns); it ignores the results of
  the FSINFO writes, so that a FSINFO of an older volume may stay and be believed
  (`ff.c:5565`); interrupted, it can leave a card that had a volume mountable with
  the FAT of the old one.
- `create_name` takes `.` for a name of eleven spaces (`ff.c:2748` means to reject the
  null name); `f_readdir` shows such an entry as the end of the directory.
- `f_printf` fills zeros in before the sign (`%05d` of -42 is `00-42`).
- `f_getline` on a last line without an end scans what the buffer held before
  (`FatFs.cpp:205`), and refuses a line that fills the buffer.
- `TimeoutChecker` never reports a deadline of 0 ms, nor one on the last tick
  (`FatFs-SD.h:43`); `timeBetween` loses a millisecond at the wrap (`FatFs.cpp:226`).

Met while reading, without a run of their own:

- `ff.c`: a slot stays taken when the seek of `FA_OPEN_APPEND` fails after
  `inc_lock` (3405); `f_write` that fails before it set `FA_MODIFIED` loses the
  clusters it allocated (3595-3618); a full disk is `FR_OK` with a short count;
  `f_getfree` stores a partial count (4389); `f_mkdir` ignores
  the result of `remove_chain` (4627); `f_rename` has two entries between 4696 and
  4725.
- `FatFs.cpp`: `detach` leaves `_attached` TRUE and `_driveNumber` 255, which the
  destructor uses as an index (93, 116); a failed `attach` leaves `FatFs[]`
  registered; `driver(0)->ioctl(drv, &mp)` sends `CTRL_SYNC` and leaves `mp` null
  (239); `attach` of a card without a volume fails, so that it cannot be formatted
  through `f_mkfs` (92); `detach` passes a path that is right for drive 0 only (111);
  `f_copy` takes the result of an ioctl as its block size, loops for ever when it is
  0, ignores `bw` and does not cut a longer destination (155-191). `README.md:3` says "Up to 4 drivers", `ffconf.h` has `_VOLUMES 1`.
- `FatFs-SD.h`: `read()` asks for the same sector for every block of a request (435),
  although `f_read` relies on it to "Read maximum contiguous sectors directly"
  (`ff.c:3493`); `STA_PROTECT` is inverted by `initialize()` (401-405); the timeout test
  for SDv1 and MMC is inverted (379); a re-initialisation runs at the high speed while
  `README.md` says "Low speed is used for initialization" (326, 267);
  `MMC_GET_CSD` is not implemented, so an erase always fails (559). `README.md`
  documents `begin()` with `std::mutex&`, the code takes a `recursive_mutex`.
- `utils.cpp`: `f_append_string` ignores the result of `f_close` (149-159); `scan_files` shares a static `FILINFO` across its recursion (53) and
  tests a result so that it never stops on an error; `f_getfree_out` uses `fs` when
  `f_getfree` has failed.

## 6. Not modelled

- The DMA hand-off (`FatFs-SD.cpp`, `trampoline*`): one thread starts a transfer and
  waits on a queue of one slot that one interrupt fills once. What can go wrong is
  in the queue calls of the firmware and the nested function of the compiler.
- FAT12 and FAT32 on the data path: FSINFO, the nibble layout. `FatVolume` and
  `Directory` have a FAT of 16-bit entries and a static root; `Format` knows the
  three types.
- Time stamps and attributes, except where a call decides on them (read-only in
  `f_unlink`, the label attribute). `f_fdisk`, exFAT, long names, `f_chdir`: not
  configured.
- `SdDriver` leaves out response bytes and CRC, and whether what `read()` returns is what
  was asked for: it is not, for more than one sector (section 5).
- `Format` is about the card: that `f_mkfs` clears `fs_type` of the volume it formats, so
  that the next call mounts it anew, is in no model. `FileLock` and `Threads` have the
  mount.
- The destructor of `FatFsDriver`; `f_copy`, `scan_files`, `setFilename`, the retry of
  the log's error callback and the texts of `utils.cpp`; `f_findfirst`/`f_findnext`
  beyond `f_readdir` and the pattern they are made of.
- Weak default functions of `diskio.c`, code page tables: nothing to check.

## 7. Plan

Every part that keeps state is modelled but the ones of section 6, and the invariants of
the parts that run step by step are proved, but for the listing. What is left: a proof
of `ListedOnce`, for which `DirectoryProofs` has the positions (`AtSlot`, `Passed`) and the
invariant would need what the listing has heard; and the refinement of `Namespace`.
`Names` and `Strings` are recursive functions over strings, whose values for every input
are out of the prover's reach; TLC checks them.
