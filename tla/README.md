# Verification of flashdb.ko

TLA+ models, TLC configurations and TLAPS proofs for this repository: FlashDB
(a key-value and a time series database for NOR flash) built as a Linux kernel
module.

```
tlc   -config MCKvdb_calls.cfg MCKvdb      # any other cfg likewise
tlc   -config MCTsdb_calls.cfg MCTsdbQuery # so queries, full_restart, stale_end, exact_fit,
                                           # stale_query, reverse; other MCTsdb_* with MCTsdb
tlc   -config MCFdbStatus.cfg FdbStatus
tlapm KvdbProofs.tla                       # and KvStoreProofs, OrderLemmas, FdbStatusProofs,
                                           # KvCacheProofs, TsdbProofs, DbCallsProofs, DriverProofs
```

## The system

| Part | Source | State it keeps | Operations |
|---|---|---|---|
| Status tables | `fdb_utils.c` 89-178 | a few flash cells per sector header, KV and TSL | write a status, read it |
| KVDB | `fdb_kvdb.c` | flash: sector headers (store and dirty status) and KV nodes; RAM: `struct fdb_kvdb` | set, get, delete, iterate, set default, init, deinit |
| KVDB collection | `fdb_kvdb.c` 938-1167 | `gc_request`, the GC dirty status, `oldest_addr` | collect one sector or all, move a node |
| KVDB recovery | `fdb_kvdb.c` 1558-1675 | `in_recovery_check` | check headers, resume a collection, give up or restore nodes |
| KV and sector cache | `fdb_kvdb.c` 145-268 | `kv_cache_table`, `sector_cache_table` | look up, update, evict |
| TSDB | `fdb_tsdb.c` | flash: sector headers with start and end information, index and data; RAM: `cur_sec`, `last_time` | append, iterate, query by time, set status, clean, init |
| Database object | `fdb.c` | name, partition, sector size, `init_ok`, lock callbacks | init, finish, deinit |
| FAL | `port/fal/src` | device table, partition table | init, find, read, write, erase within bounds |
| Module and ports | `main.c`, `porting/` | character device, memory block | init, exit, copy |

**Interaction.** A caller's request takes the database lock, scans or caches its
way to a node, and writes flash through `_fdb_flash_write` -> FAL partition ->
device.  A set may run a collection twice: when `new_kv` finds no room, and at
its end when one was requested meanwhile.  The collection moves nodes with
`move_kv`, which allocates with the same `alloc_kv` as the set that started it,
and deletes with the same `del_kv`; they share `gc_request` and
`last_is_complete_del`.  The boot runs the same collection and the same
`move_kv` with `in_recovery_check` set.

**What is hard.** Power may fail between any two flash writes; a collection may
itself be cut short and be resumed by the boot, which may again be cut short;
the reserved empty sector is the only room a collection has; NOR flash cannot
take a status back; a cache in RAM is trusted over the flash.  A TSDB keeps the
end of a sector in two places and its order in RAM only.  Iterators, blobs and
`fdb_tsl_set_status` take no lock, the time queries take it too late, and parts of
the initialisation run outside of it.  Any allocation and any step of the module's
init may fail, and the initialisation of the flash layer is called again after that,
while its table can be read through sysfs.

**What makes each part correct**

* Status tables: a table reads back the highest status written since the erase.
* KVDB: a set or delete takes effect at one instant; a power cut leaves the map
  of before or after; a get returns the map; collection and recovery change no
  key; calls return.
* Collection: every node that is moved finds room; the reserve survives; what is
  begun is finished.
* Layout: a node is programmed over erased cells only; until power fails every status
  is programmed over a lower one.
* TSDB: logs are kept in time order; rollover drops the oldest logs only; an
  iteration returns the stored logs in order, and a query by time what a plain scan
  returns; a cut loses at most the log being written.
* Database object: an open database has a valid geometry; flash is written by one
  thread at a time; the lock is given back on every path.
* FAL: partitions are separate areas of memory; the initialisation can be repeated.
* Module: a failing init releases exactly what it acquired, in order.

## Modules

| Module | What it is |
|---|---|
| `FdbStatus` | the status tables, cell by cell, with its properties |
| `FdbStatusProofs` | its theorems |
| `KvStore` | what the KVDB promises: an atomic map that power cuts do not change |
| `Kvdb` | the KVDB, one action per flash write, with its properties |
| `MCKvdb` | sizes for the instances of `Kvdb` |
| `OrderLemmas` | sets of naturals have least and greatest elements |
| `KvdbProofs` | the inductive invariant of `Kvdb`, lemmas on its operators and writes, one lemma per part of the invariant, and the theorems that hold for any power cuts |
| `KvStoreProofs` | the invariant of `Kvdb` before the first power cut, the proof that it then implements `KvStore`, that boots find the order of the sectors again where their scan sees the headers or its default is right, and what the readers of `KvReaders` see |
| `KvReaders` | composes `Kvdb` with the iterator, `fdb_kv_get_obj` with `fdb_blob_read`, and the integrity check |
| `KvCache` | the table of the KV cache |
| `KvCacheProofs` | its inductive invariant and theorems |
| `TsLog` | what the TSDB promises: logs in time order, of which the oldest may be dropped |
| `Tsdb` | the TSDB, one action per flash write, with its properties; implements `TsLog` |
| `TsdbProofs` | the inductive invariants of `Tsdb`, lemmas on its counts and sums, and the theorems, among them that it implements `TsLog` |
| `TsdbQuery` | composes `Tsdb` with its readers: the iterations, the query by time, the count |
| `DbCalls` | the database object shared by threads: control calls, init, lock, nested calls |
| `DbCallsProofs` | what the stacks of the threads can hold, and its theorems |
| `FalStore` | what the flash layer promises: a storage of its own for each partition |
| `Fal` | the flash layer and the ports: one action per step, composed by `Driver` |
| `Driver` | composes `Fal` with the kernel module's init, exit and sysfs readers; implements `FalStore` |
| `DriverProofs` | what the module holds at each step, the invariant of the layer, and the proof that it implements `FalStore` |
| `MCTsdb`, `MCTsdbQuery`, `MCKvReaders`, `MCKvCache`, `MCDbCalls`, `MCDriver` | instances for TLC |

Definitions whose names have a suffix after an underscore
(`Alloc_UsesReserve`, `Superseded_Never`...) are mutants: what an operator would be
with a plausible bug in the code.  No specification uses them; they serve to see
that the property in question notices.

### How Kvdb corresponds to the code

*State.* `hdr` and `node` are the flash.  A sector has a store and a dirty status
(0 when the header is missing) and `Cap` units of data area; a node has a key, a
value, a status, and `crc`, which is good once name and value are written.  A
value stands for its length too, `Size[v]`.  The RAM variables are the fields
of `struct fdb_kvdb`: `oldest_addr`, `gc_request`, `in_recovery_check`,
`last_is_complete_del`, `cur_sector.empty_kv` (`tgt`), `cur_kv` (`old`), and the KV
cache as a map from key to address.  `gc`, `mv` and `at` are the locals of
`gc_collect_by_free_size` and `do_gc`, of `move_kv`, and the cursor of the
recovery's iteration.  `pc` says which flash write comes next.

*Actions.* Code between two flash writes is one action, so a power cut falls
between any two writes:

| Code | Actions |
|---|---|
| `set_kv`, `new_kv`, `create_kv_blob` | `BeginSet`, `SetStart`, `SetCollect`, `SetFull`, `SetPreDirty`, `SetUsing`, `SetHeader`, `SetBody`, `SetCommit`, `End` |
| `del_kv(.., true)`, `fdb_kv_del` | `BeginDel`, `DelMissing`, `Delete`, `DelDirty` |
| `get_kv` | `Get` (only the cache changes) |
| `fdb_kv_set_default` | `BeginReset`, `EraseAll`, `FormatAll` |
| `gc_collect_by_free_size`, `do_gc` | `StartGc` (in its callers), `GcPick`, `GcMove`, `GcErase`, `GcFormat`, `GcDone` |
| `move_kv` | `MoveFails`, `MoveSkip`, `MoveStart`, `MoveHeader`, `MoveBody`, `MoveCommit`, `MoveDelete`, `MoveDirty` |
| `fdb_kvdb_init`, `_fdb_kv_load` | `BootScan`, `BootFormat`, `BootHeadersOk`, `BootGc`, `BootPreDelete`, `BootPreWrite`, `BootKvDone`, `BootCheck` |
| `fdb_kvdb_deinit`, power | `Stop`, `PowerCut` |

A power cut resets every RAM variable and keeps the flash.  `zeroed` says that
`struct fdb_kvdb` is all zeros, as it is after power-on.  `Stop` stands for two things: a deinit,
which leaves the object as it is (so that `last_is_complete_del`, which `fdb_kvdb_init` does
not reset, and the sector cache are kept), and power lost between calls.

*The scan for the oldest sector.* `fdb_kvdb_init` reads the sectors through
`sector_cache_table` (`fdb_kvdb.c:1786-1789`) before it sets the table up (1795-1800).  In an
object that is all zeros each entry answers for address 0 (423-427), with `combined` 0, so
the iteration never leaves sector 0 (506-516) and the default stays: `OldestFound` is 0 after
power-on, and what the headers say (`OldestOnFlash`) in an object that was in use.  From sector 0 the
recovery, the traversals and the next collections start.

*Abstractions.*

* Each flash program and each erase is atomic.  A node's PRE_WRITE status and its
  header are one write, and so are its name and value (the CRC is bad until both
  are there).  A node cut short in the middle of its body thus counts as one whose
  body was not written.
* A sector put in use whose first header was never written reads as holding a
  node of bad length; the traversal gives up one header there (`UsedEnd`).
* The sector cache is taken to agree with the flash, except in the scan above.  It also
  differs in the dirty status GC, which `do_gc` does not tell it, and only while `gc_request` is set,
  when `alloc_kv_cb` treats DIRTY and GC alike.
* The KV cache is large enough for all keys (64 entries in the code), and no two
  keys share a `name_crc`; `KvCache` looks at a table that is too small and at names
  that collide.
* Flash operations return no error; values fit a sector with the threshold to
  spare (`KvdbAssumption`); there are no default KVs.
* Flash is NOR flash, as the library requires: a program takes the maximum (`Program`).  The
  memory block port copies instead.  Until power fails that is the same, since every
  status is programmed over a lower one (`WritesRise`).  After a cut it need not be: a failed move
  leaves `last_is_complete_del` set, the next `fdb_kv_del` keeps the cache entry of the key,
  and the next set writes PRE_DELETE over DELETED (`fdb_kvdb.c:590`, `962`), which NOR
  flash ignores and the memory block takes.
* Calls are serialised by the lock, so one request is served at a time.
* A collection of the whole database asks for as much space as the database has
  and never frees it; one for a single node stops after one sector, because a
  node is smaller than a sector.

*Reset.* `KvStore` lets a reset remove keys in groups and lets a cut leave some of
them: `fdb_kv_set_default` erases the sectors one after the other and promises no
more.

### How Tsdb and TsdbQuery correspond to the code

*State.* `hdr` and `slot` are the flash: per sector the store status, the magic, the
start time and the two copies of the end information; per index slot the status, the
time and `data`, the set of logs programmed into the cells (more than one when cells
were programmed twice).  Indexes grow from the top and logs from the bottom as in the
code, so `Cap` units hold both.  `cur` is `db->cur_sec`, with `lastTime`, `oldest` and
`rollover` the RAM of `struct fdb_tsdb`; `req` and `fmt` are the arguments and the
cursor of the call served, `pc` the next flash write.

| Code | Actions |
|---|---|
| `tsl_append`: refusals | `Refuse`, `RefuseFull` |
| `update_sec_status` | `BeginAppend`, `EndPrepare`, `EndBody`, `EndCommit`, `MarkFull`, `MarkLastFull`, `UseSector`, `StartTime` |
| `write_tsl`, end of `tsl_append` | `IdxPrepare`, `IdxBody`, `WriteLog`, `Commit`, `WriteNowhere` |
| `format_sector`, for an append, a clean or an init | `Erase`, `WriteEmpty`, `WriteMagic` |
| `fdb_tsl_clean` | `BeginClean`, then the formats |
| `fdb_tsdb_init` | `InitTsdb`, `InitFormats`, `InitAsserts` |
| `fdb_tsdb_control`, `fdb_tsl_set_status`, `fdb_tsdb_deinit`, power | `SetRollover`, `TslSetStatus`, `Deinit`, `PowerCut` |

The iterations (`Iter`, `IterReverse`, `IterByTime` with the binary search
`SearchStart`, `QueryCount`) are operators on that state that return the sequence of
nodes handed to the callback.  They read all sectors into one struct, as the code
does, so that a sector without an end of its own has the end read before.  A reader
holds the lock while it reads, but takes its first sector before: `TakeStart` and
`Read` are two steps with other calls between them.  `Iter` and the queries are also
evaluated in every state in which a call could run.

*Abstractions.*

* Every flash program and erase is atomic, apart from the splits above.
* A log fits a sector together with its index (`TsdbAssumption`); the assertion at
  `fdb_tsdb.c:943` asks for less.
* An index whose length differs from that of a torn log in the same slot would be the
  AND of both.  The runs in which slots are used again after a cut have logs of
  one length, where it is that length.
* `fdb_tsl_set_status` takes no lock and so may come between any two steps, but only
  for logs that are stored; a handle to an erased one is the caller's mistake.
* Reads at `FAILED_ADDR` fail.  Times are signed, as with `FDB_USING_TIMESTAMP_64BIT` or
  without.
* What is on the stack of `fdb_tsdb_init` is any time.

### How KvReaders and KvCache correspond to the code

`KvReaders` adds to `Kvdb` one reader: an iterator (`IterInit`, `IterNext`, `IterEnd`) or
an object (`GetObj`, then `BlobRead` at any later time).  One call of `fdb_kv_iterate` is
one step.  With `Shared = FALSE` the reader runs between the writer's calls, in the same
thread; with `Shared = TRUE` between any two of its flash writes.  Reading is not
harmless: where `read_kv` finds erased cells instead of a node it programs `ERR_HDR`
(`fdb_kvdb.c:360`).  `spoiled` keeps these addresses, and `SetHeaderSpoiled` and
`MoveHeaderSpoiled` are the header writes that land on them.

`KvCache` has `update_kv_cache`, `get_kv_from_cache` and the calls that use them, one
step each: `Find`, `Write`, `Delete`, `Erase`.  CRC and prefix relation of names are
constants.

### How DbCalls corresponds to the code

A thread has a stack of frames: `_fdb_kv_load` calls `fdb_kv_set_default`, and the
callback of an iteration may call the library.  A frame goes through the check of
`init_ok`, the lock, the body and the unlock; `Api` lists for each call which of them
it has.  `db` is a KVDB or a TSDB, chosen by `Init`.  `Open`, `Geometry`, `TsdbCheck`, `KvdbSettings`, `KvdbLoad`, ..., `Finish` are
`fdb_kvdb_init` and `fdb_tsdb_init` around `_fdb_init_ex` and `_fdb_init_finish`, with
the fields of `struct fdb_db` a failed attempt leaves behind.  A body is the interval
in which a thread is on the flash; what it does there is in `Kvdb` and `Tsdb`.

Lock functions are installed before threads start.  `Close` and the options come when no
call runs, since neither takes the lock.  One thread, `Main`, opens the database; any
may call the init of one that is open (`Again`).  `Early` are the calls an application
makes before the database is open.  A callback calls the library once.  A callback that appends would wait for itself; the
interface leaves that to the caller.

### How Fal and Driver correspond to the code

`Fal` has one action per step of `fal_init` at which a reader of the table may come in
between or an allocation may fail: `fal_flash_init` with the `init` of each port,
`fal_partition_init` (fill, publish, cache), `check_and_update_part_cache`, and
`fal_set_partition_table_temp`.  `PartRead`, `PartWrite` and `PartErase` are the partition
calls with their bounds, `ShowBegin` and `ShowStep` the two passes of
`fal_print_part_table`.  `mtds` is the board.  A step the code has no answer to (an error
pointer followed, an access outside of the memory) sets `fault`, and nothing happens
after it.

* One caller at a time is in `fal_init`.
* A board has at most 16 partitions of the chosen master, the size of `flash_mem`.
* While a reader runs, a temporary table is not longer than the loaded one.
* NOR and virtual devices are stubs that store nothing and return 0, which
  `fdb_utils.c:309` takes for success; asserts of FAL are compiled out.

`Driver` has one action per step of `_driver_init`, each of which may fail (`MayFail`), one
per label of its error path and one per step of `_driver_exit`.  It composes `Fal`: the
steps of the layer go on by themselves, calls on partitions and of `fal_init` come while
the module is loaded, readers while the attribute exists.

## What is checked

### KVDB

All instances of `Kvdb` have 3 sectors of 7 units, or 6 in `kvdb_calls`, headers of 1 and a
threshold of 1.  A value takes 2 units, or 3 for the large one of the mixed sizes, so a sector
holds one or two nodes and collections are frequent; with 3 sectors there is the
reserve, and two sectors that fill up in turn and wrap.  Everything else is
unbounded: behaviours of any length with any number of calls, collections and
restarts.  The one bound is `MaxCuts`, the number of power cuts.

| Run | Instance | Shows |
|---|---|---|
| `status` | 8 statuses, both granularities | `ReadsHighestWritten`, `NeverBackward` |
| `kvdb_calls` | 3 keys, mixed sizes, no cut in a call | the database implements `KvStore` (`AtomicStore`), calls and boots return (`CallsReturn`), reads return the content (`ReadsSeeContent`), every move of a collection finds room (`MovesFindRoom`), every status is programmed over a lower one (`WritesRise`) |
| `kvdb_one_cut` | 2 keys, one size, power lost only while sector 0 is the oldest on flash, in a call at most once | `AtomicStore`, `ReadsSeeContent`, one live node per key between calls (`OneLive`), and until the cut a boot finds the order of the sectors (`OldestRecovered`) |
| `kvdb_cuts` | 2 keys, mixed sizes, 1 cut anywhere | the layout: `TypeOK`, `TargetErased`, `NeverFull`, `ReserveKept`, `RequestOver`, `RecoveryOver`, `TornNodesInert` |

`kvdb_calls` has sectors of 6 units and a third key because the collection must be pressed: a
sector holds two small values or one large, so live data can fill all but the reserve.  Its
restarts, with power lost between calls or without, come at any time.

The result of `kvdb_one_cut` depends on its instance.  `InOrderSpec` has power lost, in a call or between
calls, only while sector 0 is the oldest on flash, when the scan of the next boot is right; without
that `kvdb_old_value` refutes it (below).  Sector 0 comes to be the oldest again each time
the database wraps, and the cut falls on any write of a call, a collection or a boot there.  With
values of two sizes, a third key or a second cut the properties fail, too, as the configurations
below show.

`RecoveryOver` has two parts, `GcOver` and `NoneHalfWritten`, that are results for one cut
as well; with `MaxCuts = 2` TLC violates them:

* `NoneHalfWritten` - a second cut during the boot's own move leaves two unfinished
  nodes, and one boot gives up only the first (`fdb_kvdb.c:1626`).
* `GcOver` - a resumed collection covers the whole database, so it may put a second
  sector into GC after it has freed the first.  Cut there, the next boot finds two
  empty sectors, more than the threshold, and `gc_collect` does nothing: the sector
  stays marked GC (`fdb_kvdb.c:1152`) until a later collection takes it.

All the others of `kvdb_cuts` are proved for any number of cuts (below).

### Readers of the KVDB, and its cache

| Run | Instance | Shows |
|---|---|---|
| `kv_readers` | 2 keys, one size, the reader at any step of the writer | an iteration during which nothing was written hands over every stored key once, whatever collections left behind (`QuietIteration`); the integrity check passes after every call (`CheckPasses`); an object reads the same until its sector is erased (`ObjStable`) |
| `cache_entries` | 2 entries, 4 names, two with one CRC | a hit is the live node of the name (`HitsLive`) |

`kv_readers` has no power cut; a reader dies with the power.  The keys are symmetric: no
handler tells one from another but by comparing names.  Two entries are fewer than there
are names and as many as a collision needs; the counter's limit is low enough to be
reached.

### TSDB

| Run | Instance | Shows |
|---|---|---|
| `tsdb_calls` | 3 sectors of 7 units, logs of one size (2 to a sector), 1 cut, 1 restart, both readers | the database implements `TsLog` (`TimeOrderedLog`); `IterRight`; `QueryRight` for every range of times, and the count in both directions; `StaleIterComplete`; `CallsReturn` |
| `tsdb_cuts` | 2 sectors of one log, logs of two contents, 2 cuts anywhere and 1 restart, statuses, rollover switched off | `TypeOK`, `OneInUse`, `CurrentKnown`, `AssertsOnlyAtInit`, `StoredLogsStay` |

The bounds are `MaxTime`, which bounds the accepted logs since each needs a newer time,
`MaxCuts` and `MaxRestarts`.  In `tsdb_calls` seven times are one more than the three
sectors hold, enough to fill all of them, wrap and drop the oldest sector, and a search
meets ranges before, between, inside and behind the sectors.  In `tsdb_cuts`, whose
sectors hold one log, three times wrap.  `CHECK_DEADLOCK FALSE`: a database whose init
asserts, or whose times have run out, stops.  `MCTsdb_queries.cfg` is the same question
for 2 sectors of three logs, where the binary search has a middle; it passes, too.

`CutAt` names the points where power fails.  `EndCuts`, of `tsdb_calls`, are those where a
cut costs no log: between calls and while the end of a sector is saved.  At the others (`Anywhere`, of `tsdb_cuts`) a cut costs what is listed
below.

### Database object

| Run | Instance | Shows |
|---|---|---|
| `db_calls` | KVDB or TSDB, 2 threads, 4 partitions, 3 sector sizes, NOT_FORMAT on the KVDB, repeated inits of the TSDB, callbacks that set statuses, calls before the init | `GeometryOk` after any failed attempts and under every call, `Exclusive`, `NotFormatKept`, `CallsReturn` |

The partitions differ in block size and length, so that an init may fail at each of its
checks.  What is left out of the instance is what the code does wrong (below): NOT_FORMAT
on a TSDB, an open KVDB opened again, and iterations before the init.  `CHECK_DEADLOCK
FALSE`: an init whose sector size fails the assertion hangs for good.

### Flash layer and module

| Run | Instance | Shows |
|---|---|---|
| `module` | 2 boards, 2 temporary tables of two partitions, accesses inside and across their ends, one failing allocation, any step of the load fails but `class_create` | `NothingLeft`, `ReleasedInOrder`, `SeparateAreas` (the layer implements `FalStore`), `UsableInTheEnd` |

`MaxFails` bounds the failing allocations: one reaches each place that allocates, and what
it leaves behind meets every later call.  `CHECK_DEADLOCK FALSE`: a fault ends a
behaviour, a reader of a table that is being replaced meets one (below).

### What the code does not do

The run `gc_loses` ends in a counterexample that was compared with the code line by line:
`do_gc` erases the sector although `move_kv` failed (`fdb_kvdb.c:1124-1129`).  Without
cuts this does not happen (`MovesFindRoom`), but a collection that is resumed after a cut
may find the reserve in use, and then it erases keys that no call was about
(`OnlyOwnKeyChanges`).

The run `kvdb_old_value` comes from the scan that gives sector 0 after power-on.  A key's old node is
PRE_DELETE in sector 2 and its new one PRE_WRITE in sector 0, just used again, when power
fails.  The recovery begins at sector 0 instead of 2, meets the unfinished node, marks it and
ends (`fdb_kvdb.c:1626`): the old value is on flash, and `fdb_kv_get` does not find the key
(`ReadsSeeContent`).  From sector 2 it would have been restored first, as in `kvdb_one_cut`.

The following configurations are kept for the same purpose.  TLC refutes each property
named; where a configuration has several, TLC stops at the first, so check them one by
one.

| Configuration | Property | What the code does |
|---|---|---|
| `MCKvdb_open` | `ReadsSeeContent` | `check_and_recovery_kv_cb` returns `true` after an unfinished node (`fdb_kvdb.c:1626`), which ends `kv_iterator` for the whole database: nodes prepared for deletion in later sectors are not restored, and an old value stays on flash but cannot be read until a later boot |
| | `CacheLive` | with values of two sizes a move may fail: it has set `last_is_complete_del`, and the next `fdb_kv_del` keeps the cache entry of the key it deletes (`fdb_kvdb.c:967`) |
| | `OldestRecovered` | the oldest sector is 0 after power-on, whatever the headers say (`fdb_kvdb.c:1787`), also when no call was cut short; the test of it (`tests/fdb_kvdb_tc.c:263`) initialises the same object again, whose sector cache is in order |
| | `WritesRise` | a collection resumed at boot marks GC the sector that is marked GC; after a failed move a set writes PRE_DELETE over DELETED (`fdb_kvdb.c:590`, `962`) |
| | `CallsReturn` | a node prepared for deletion that finds no room makes the boot request a collection, after which it fails again: `_fdb_kv_load` never leaves its `goto __retry` (`fdb_kvdb.c:1667-1670`) |
| `MCKvReaders_race` | `SetStores` | an iterator takes a node whose header is being written for a broken one and marks it; the set reports success and has stored nothing (`fdb_kvdb.c:360`) |
| `MCKvReaders_open` | `IteratesAll` | a collection between two calls of `fdb_kv_iterate` moves nodes to where the iterator does not come any more (`fdb_kvdb.c:1905`) |
| | `ObjKeepsValue` | an object whose sector was collected reads what lies there now (`fdb_kvdb.c:653`) |
| `MCKvCache_prefix` | `HitsLive` | `strncmp` with the length of the name asked for: a prefix of the cached name with the same 16 bits of CRC hits (`fdb_kvdb.c:255`) |
| `MCTsdb_cut_anywhere` | `LogsWhole` | the slot and the cells of a log cut short are used again (`fdb_tsdb.c:300-314`) |
| | `InitKeepsLogs` | one header without magic and the init formats everything (`fdb_tsdb.c:948`); a cut in `format_sector` leaves one |
| | `TimesIncrease` | the init may not find the last time, and a log older than stored ones is accepted (`fdb_tsdb.c:980-994`) |
| `MCTsdb_asserts` | `CallsReturn` | two cuts while an end is saved, and every init stops at `FDB_ASSERT(0)` (`fdb_tsdb.c:227`) |
| `MCTsdb_rollover` | `RolloverAccepts` | a full database stays full when rollover is switched on (`fdb_tsdb.c:365`) |
| | `NoRolloverKeepsLogs` | one that wrapped keeps dropping logs when it is switched off (`fdb_tsdb.c:348`) |
| `MCTsdb_full_restart` | `IterRight` | a database filled up with rollover off has neither a current nor an oldest sector after an init, which always takes rollover for on (`fdb_tsdb.c:961`) |
| `MCTsdb_stale_end` | `IterRight` | a sector without an end of its own is read with another's (`fdb_tsdb.c:219-228`) |
| `MCTsdb_reverse` | `IterRight` | the reverse iteration ends at an empty current sector (`fdb_tsdb.c:567`) |
| `MCTsdb_stale_query` | `StaleQueryComplete` | a query whose start was overtaken by a rollover ends early (`fdb_tsdb.c:630`) |
| `MCTsdb_exact_fit` | `QueryRight` | the search ends behind the last index, where a log's bytes are (`fdb_tsdb.c:582`) |
| `MCDbCalls_open` | `LockGivenBack` | the error path jumps behind the unlock (`fdb_tsdb.c:952`) |
| | `UsesHaveGeometry` | iterations of a database that was not opened go on (`fdb_tsdb.c:486`) |
| | `Exclusive` | a second `fdb_kvdb_init` runs the recovery without the lock (`fdb_kvdb.c:1809`) |
| `MCDriver_no_mtd`, `MCDriver_other_first` | `NoFault` | a board without MTD device makes the layer follow an error pointer (`fal_flash_nor_flash.c:43`); where the first one has another master, a partition's device is not found, its entry of the cache stays unset (`fal_partition.c:181`) and is followed all the same (`fal_partition.c:440`) |
| `MCDriver_wrap` | `NoFault` | with a 32-bit `size_t` the bounds check wraps (`fal_partition.c:497`) |
| `MCDriver_parameters` | `PartitionsFit` | the partition is as long as the built-in size, not as the memory block (`fal_flash_mem_blk.c:135`) |
| | `PhysicalFirst` | the memory partition hides a physical one of the same name (`fal_partition.c:424`) |
| | `ClassFailureHandled` | the result of `class_create` is not what is tested (`main.c:40`) |
| `MCDriver_alloc_fails` | `OkMeansUsable` | the flag is set although the cache could not be allocated (`fal.c:40`) |
| | `LoadedUsable` | `fal_init` fails with 0, which is not tested for (`main.c:125`) |
| | `PrintsTable` | a retry replaces the table below a reader (`fal_partition.c:357`) |

`NeverFull` also shows that the second of the two scenes in the comment above
`gc_collect` (`fdb_kvdb.c:1159-1163`), a collection after a write that filled a sector,
does not occur: `alloc_kv_cb` leaves more than the threshold, so `update_sec_status`
never writes FULL and `is_full` stays false.

### Fairness

`Kvdb!Spec` has weak fairness of `Serve \/ Collect \/ Boot`: the caller's thread runs the
library to the end of the call as long as there is power.  Starting a call,
switching on, switching off and losing power are not fair: nobody has to do them.
`InOrderSpec` has the same fairness and restricts the steps only.
`CallsReturn` needs no more than this; it is a leads-to from "a call or a boot is
under way" to "idle or off".

* `Tsdb`: weak fairness of `Step`, the steps of a call or an init that is under way.  Calls,
  cuts and deinit are not fair.
* `DbCalls`: weak fairness of each thread's steps, and strong fairness of taking the lock:
  the user's mutex does not pass over one waiting thread for ever.  The repository does
  not implement that mutex; this is an assumption on it.
* `TsdbQuery`: the same, with the readers beside it; a reader need not go on.
* `Driver`: weak fairness of the steps of a load, an unload or a call of the layer that is
  under way and of a reader's, as the kernel runs them.  `UsableInTheEnd` supposes in its statement that the
  caller comes back.

`TsLog`, `FalStore`, `KvCache` and `KvReaders` state safety only.

## What is proved

TLAPS proves the following for any number of sectors, sector size, header length,
keys, values, lengths and power cuts, from `KvdbAssumption` alone (at least two
sectors, positive header, threshold at least a header, every node fits a sector with the
threshold to spare) and `NoOpAssumption` (the value for "no request" is not a request), and for
any number of statuses up to 8.

| Theorem | Says |
|---|---|
| `FdbStatusProofs!ReadsHighest` | the status read is the highest written since the erase |
| `FdbStatusProofs!StatusNeverBackward` | only an erase takes it back |
| `FdbStatusProofs!WriteIsMaximum` | a write takes the maximum: why `Kvdb` keeps statuses as numbers and writes them with `Program` |
| `KvdbProofs!Inductive` | `Spec => []IInv` |
| `KvdbProofs!TypeCorrect` | `Spec => []TypeOK` |
| `KvdbProofs!ProgramsErasedCells` | `Spec => []TargetErased` |
| `KvdbProofs!NoSectorFull` | `Spec => []NeverFull` |
| `KvdbProofs!NoRequestLeft` | `Spec => []RequestOver` |
| `KvdbProofs!TornStayInert` | `Spec => []TornNodesInert` |
| `KvdbProofs!ReserveStays` | `Spec => []ReserveKept` |
| `KvStoreProofs!AtomicUntilCut` | `Spec => Abstract!Init /\ [][cuts = 0 => Abstract!Next \/ UNCHANGED Abstract!vars]_vars` |
| `KvStoreProofs!AtomicWithoutCuts` | `Spec => AtomicStore` when `MaxCuts = 0` |
| `KvStoreProofs!ReadsSeeContentUntilCut` | `Spec => [](cuts = 0 => ReadsSeeContent)` |
| `KvStoreProofs!MovesFindRoomUntilCut` | `Spec => [](cuts = 0 => MovesFindRoom)` |
| `KvStoreProofs!OneLiveUntilCut` | `Spec => [](cuts = 0 => OneLive)` |
| `KvStoreProofs!RecoveryOverUntilCut` | `Spec => [](cuts = 0 => RecoveryOver)` |
| `KvStoreProofs!WritesRiseUntilCut` | `Spec => [](cuts = 0 => WritesRise)` |
| `KvStoreProofs!OldestRecoveredInOrder` | `InOrderSpec => []OldestRecovered`: until a call is cut short, and if power is lost between calls only while sector 0 is the oldest |
| `KvStoreProofs!ObjectsReadBack` | `RSpec => []ObjStable`, power cuts and readers in other threads included |
| `KvStoreProofs!CheckNeverFails` | `RSpec => []CheckPasses`, readers in other threads included |
| `KvStoreProofs!IterationsReturnAll` | `RSpec => [](cuts = 0 => QuietIteration)` when readers and writer share a thread (`~Shared`) |
| `KvCacheProofs!CacheInductive` | `Spec => []IInv` of the KV cache |
| `KvCacheProofs!CacheHitsLive` | `Spec => []HitsLive` when no name is a prefix of another with its CRC |
| `TsdbProofs!TsdbInductive` | `Spec => []IInv` of the TSDB |
| `TsdbProofs!NeverTwoInUse` | `Spec => []OneInUse` |
| `TsdbProofs!NoAssertAfterInit` | `Spec => []AssertsOnlyAtInit` |
| `TsdbProofs!StoredLogsKept` | `Spec => StoredLogsStay` |
| `TsdbProofs!CurrentAgrees` | `Spec => []CurrentKnown` when the lengths of logs are read back right |
| `TsdbProofs!TypesHold` | `Spec => []TypeOK`, likewise |
| `TsdbProofs!OrderInductive` | `Spec => [](SInv /\ DInv /\ TInv)` when power fails only where no log is at stake (`KeepsOrder`) |
| `TsdbProofs!TsdbImplementsLog` | `Spec => TimeOrderedLog`, likewise: the TSDB implements `TsLog` |
| `TsdbProofs!LogsStayWhole`, `TimesAlwaysIncrease`, `InitsFormatNothing`, `OffKeepsLogs` | `Spec => []LogsWhole`, `Spec => TimesIncrease`, `Spec => InitKeepsLogs`, `Spec => NoRolloverKeepsLogs`, likewise: what `MCTsdb_cut_anywhere.cfg` and `MCTsdb_rollover.cfg` refute without the hypothesis |
| `DbCallsProofs!CallsInductive` | `Spec => []IInv` of the database object, when the calls made before it is open check `init_ok` |
| `DbCallsProofs!OpenHasGeometry` | `Spec => []GeometryOk`, likewise |
| `DbCallsProofs!OpenNeverFormats` | `Spec => NotFormatKept`, likewise |
| `DbCallsProofs!WritersAreAlone` | `Spec => []Exclusive`, when moreover the calls take the lock themselves and no open KVDB is opened again |
| `DriverProofs!DriverInductive` | `DriverSpec => []IInv` of the kernel module |
| `DriverProofs!NothingIsLeft` | `DriverSpec => []NothingLeft` |
| `DriverProofs!OrderOfRelease` | `DriverSpec => []ReleasedInOrder` |
| `DriverProofs!PartitionsAreSeparate` | `DriverSpec => SeparateAreas` when partitions fit and lie apart (`BoardsOk`, `TempTablesOk`, `SizesOk`) |

Those of `KvCacheProofs` hold for any names, CRCs, addresses, table size and limit of the
counters (`KvCacheAssumption`); those of `TsdbProofs` for any number and size of sectors,
lengths of logs, user statuses, points and number of power cuts (`TsdbAssumption`), those after
`StoredLogsKept` under the hypothesis the table names; those of `DbCallsProofs` for any threads, calls, callbacks, partitions and sector sizes
(`DbCallsAssumption`); those of `DriverProofs` for any boards, partition tables,
accesses, and any set of kernel calls and number of allocations that fail, the last one
of them under the three hypotheses it names.

*The argument.* None of these is inductive alone.  `IInv` (in `KvdbProofs`) adds

* `Control`: who waits for what - a collection for its caller, a move for the
  collection or the boot - so that returning to `gc.ret` or `mv.ret` is safe;
* `Requests`: where `gc_request` may be set, so that it is down when a call ends;
* `Headers`: an unformatted or EMPTY sector has no nodes, and no sector is FULL;
* `Formatting`: the sector being formatted is erased, and the boot formats no more
  sectors than there are (a counting argument over the sectors without header);
* `Targets`: the address chosen by `alloc_kv` stays behind all nodes of its sector,
  with the node and the threshold to spare, until the node is written there, and
  the nodes to be deleted or moved are written ones.

`Targets` is the core: it carries what `alloc_kv` established across the writes that
come between choosing the address and using it, and gives `TargetErased`; that the
threshold is still there when `update_sec_status` looks gives `NeverFull`.  Each part
has a lemma with one step per action.  The lemmas at the beginning of
`KvdbProofs` say what the operators return: that `CHOOSE` over an iteration order has a witness, and
that `Alloc` lies behind all nodes.

Two theorems of `Kvdb` need more than `IInv`, and each adds an invariant of its own to it.

* `TornStayInert`: an address must be known to be that of a whole node from the moment a
  step finds it until another step writes a status there.  `WholeNodes` says so of the
  addresses that `del_kv`, the commits and `move_kv` hold.  `find_kv` takes an address
  from the cache when the name there matches, which is before the data is checked, so
  `Trusted` says that such an entry is that of a whole node; a stale entry is the
  exception for as long as a node is being written over it, and no call looks into the
  cache then.
* `ReserveStays`: `alloc_kv` spends the last empty sector only when a collection is
  requested.  `NotLast` has the requests down wherever a call or the boot allocates, and
  carries from the choice of the address to the writes of the header that another sector is
  empty.  `Reserve` says what stands for the reserve while a collection has spent it: the
  sector being collected, which is marked GC until it is erased (`Marked`), and then is
  without header until it is formatted.  After a cut the boot finds one of the three on
  flash, and has an empty sector before it accepts a call.

*The atomic store.* With power cuts `AtomicStore` and the properties of the theorems that end in `UntilCut` are refuted (see
`kvdb_old_value`, `gc_loses` and the configurations above), so their theorems speak of the states before
the first one: `cuts = 0`, where `cuts` counts the cuts so far.  This is no bound on the behaviour:
calls, collections, closing and booting go on for any length.  `AtomicUntilCut` is about steps
that start in such a state, so the cut itself is covered, which leaves the content and drops the
request.  Layout (`Clean`: what was just formatted is clean; `Laid`: nodes do not overlap and
end before the threshold) holds with cuts, too.  The rest is `Uncut`:

* `Phases`: what each step is about, among others that a boot neither collects nor moves,
  and that `last_is_complete_del` is set exactly while an old node waits for its deletion;
* `Statuses`, `RequestNodes`, `MoveNodes`: a node that is neither live nor deleted is the one
  the call or the move works on, and has the key and value of it;
* `OneHolder`: a key has one node with its value, but for the old and the new one of a
  replacement or a move of which the old one is not deleted yet;
* `Collected`: of the sector being collected nothing is left behind the cursor of the
  collection, and no other sector is marked GC;
* `RoomLeft`: some sector that the collection may use ends before the nodes yet to be moved;
* `Cached`: an entry of the cache is that of a live node, or its key is being written;
* `Erased`: how far a reset or the first boot has come.

`RoomLeft` is why moves find room.  When a collection picks a sector the reserve is empty
(`ReserveStays`), so in it whatever lies at offset `o` of the picked sector fits at or before `o`.
Moves go up from the least offset.  If `alloc_kv` puts the node into another sector, the one of
`RoomLeft` is as it was; if into that one, the node starts at or before its old offset, ends at or
before its old end, and the nodes yet to be moved lie behind that (`Laid`, `RoomStarted`,
`RoomHeader`).  So no bound on the number or the lengths of the values is needed.

The refinement then goes step by step (`StepRefines`).  The content of a key is
the value of the node that `Stands` for it: the live one, or the outgoing one when no
live one exists.  `ContentOf` says so of `Content`, and the lemmas on it say what a write
does to it: nothing to another key, nothing when the standing node is
replaced by one of the same value.  Then `SetCommit` is `Apply` of a set, `Delete` that of a
delete, or a stutter when a set deletes what it replaced (`DeleteApplies`); the erases of a reset are
`ResetSome` and its last format is `Apply`, when nothing is left; everything else is a
stutter (`WorkContent`, `WorkRequest`).

*The order of the sectors.* The oldest sector is kept in RAM only, and the boot looks for a sector in use
behind an empty one - in an object that was in use; after power-on it takes sector 0, so
`OldestRecoveredInOrder` is about behaviours in which power is lost only where that is
right (`InOrderSpec`).  It rests on `Ordered`: between calls
the empty sectors are either those at the top of the database, the oldest being the first (`Unwrapped`), or a
single one, the oldest being the next (`Wrapped`), and in both a scan that sees the headers finds the same
(`FoundAgain`).  Calls keep that because `alloc_kv` takes of several empty sectors the lowest (`OrderAfterAlloc`).
A collection for one value starts when one empty sector is left and every sector in use is
`Crowded`, without room for the value (`OrderAtCollect`).  It may not need that sector for
its moves: then there are two empty ones for a moment (`Freed`), and the database is in order again
only because the value must go into an empty one, no sector in use having gained room, and of the two `alloc_kv`
takes the older: the one just freed comes last in the order.  After any other loss of power the iterations begin
at another sector than before, until collections have moved the oldest on.

*Readers.* The steps of readers change no variable of `Kvdb` but through what they program into
erased cells, and that shows only when a header is written there: `SetHeaderSpoiled` and
`MoveHeaderSpoiled` are no steps of `Kvdb`.  To `IInv` they are what `SetHeader` and `MoveHeader` are
(`SpoiledStep`): a node of the same length where `alloc_kv` left room, only with another status.
So `IInv` and `Laid` hold with any readers (`LayoutKept`).

* `ObjectsReadBack`: of a node that is written, name, value and place stay until its sector is
  erased (`NodesStay`), and by `Laid` no other node begins inside it.
* `CheckNeverFails`: `Sound` says that only the node being written is torn, and that a sector in use
  has a node at its beginning or gets it with the next write, because in an empty sector `alloc_kv` returns
  the first address and nothing is written there between the choice and the header.
* `IterationsReturnAll`: of the nodes left `IterNext` takes the first, whose end is before all others
  (`PassedNext`, from `Laid`), so what was returned is always the keys of the nodes passed
  (`Returned`), and none twice because a key has one live node at rest (`OneHolder`).  With `Sound` no sector that
  an iteration enters is without a node, so such readers spoil nothing (`CalmNext`) and `Uncut` holds beside
  them.  With readers in another thread it does not: they spoil addresses, and the
  set that is under way is lost (`kv_readers` checks `QuietIteration` there, and
  `MCKvReaders_race.cfg` refutes `SetStores`).

For the cache, `HitsLive` looks at one name and one entry, but names share entries.  Its
`IInv` says why they do not mix: the entry in use of a CRC is the first with that CRC
(`FirstOfCrc`), because the loops of `update_kv_cache` stop there and every path that adds
an entry has seen that there is none, and it has the address of some live node of that
CRC (`Owned`), because a deletion clears the entry whoever it belongs to and a write takes
it over.  A live node can be read (`LiveNamed`), so an entry whose name matches has the
address of that name's node.  The configuration `MCKvCache_prefix` shows that the
assumption on prefixes cannot be dropped.

For the TSDB, what a step may rely on is scattered over the flash, `cur_sec` and the step
the call is at.  Its `IInv` has three layers.

* `Flash`: the nodes of a sector have no gap (`Packed`), so the first slot that is not
  written is behind all of them; a sector that is not USING or FULL has no nodes; at most
  one is USING, because a sector is taken only after the one before was marked FULL.
* `FormatSteps`, `Jobs`, `HangsOnlyAtEnd`: how far a format has come at each step, and
  that both ends of a sector are begun with none complete only while the second one is
  written or after power failed there.  Therefore only an init can meet the assertion.
* `StoreKnown`, `StatKnown`, `Room`: while the database serves calls, `cur_sec` says of
  its sector what the flash does, and the log that is being placed still has the room that
  `tsl_append` saw.  `Off` is what a deinit leaves in RAM and the next init trusts.

So `cur.n` is the slot behind the nodes at each of the writes of a node, which is all that
`StoredLogsStay` needs: `NextKeeps` goes through the programs and finds that each goes to
a slot that is not written, or raises a status.

`CurrentKnown` and `TypeOK` also speak of the room taken, which an init adds up from the
lengths in the indexes.  A length is only read back right when no log was half written
over another one of a different length, so these two suppose `LengthsRead`: all logs have
one length, or power does not fail between a log and its commit.  In both runs of
`Tsdb` all logs have one length.  `LInv` then carries that a log that is not yet committed has the
length about to be counted (`Landed`) and that the slots behind it are bare.  The other theorems
do not need it: a torn log may shift the next ones, but cannot make them overwrite a slot.

*The time-ordered log.* `TsdbImplementsLog` has a hypothesis on the constants, `KeepsOrder`,
each part of which keeps out one thing the code does wrong.

* Options are set on an empty database (`~Late`): a full one stays full when rollover is
  switched on and one that wrapped keeps dropping logs when it is switched off
  (`MCTsdb_rollover.cfg`).
* Power fails, if ever, between calls or while the end of a sector is saved: anywhere else a
  slot may be used twice, an init may format everything, and the last time may be lost
  (`MCTsdb_cut_anywhere.cfg`).
* Where it fails between calls, rollover stays on: the init after a cut finds no sector to go
  on with in a database that filled up with rollover off, and the next append writes over a
  header (`WriteNowhere`).

Restarts, statuses set by other threads, cleans, and the number and size of sectors and logs are
unrestricted; `tsdb_calls` is an instance with a cut and a restart.  The argument has three invariants
besides `IInv`.

* `SInv` is the order of the sectors.  `AtHead` names the one with the newest logs, which is
  `cur_sec` but for two moments: while `cur_sec` is the one about to be erased it is the one before, and
  after a power cut it is the one in use.  All sectors below it are full, and those above are all full or all
  empty (`Laid`), so the scan of an init finds the right one and never a reason to format
  (`NoFormats`); a sector is formatted for an append only when all others are full and
  rollover is on (`Wrapped`).
* `DInv` is about the cells: behind the nodes they are erased, but for the log under way
  (`Bare`), so programming over them is writing, and `And` does nothing.
* `TInv` is the order of the times: they grow within a sector and along the round that starts
  behind `AtHead` (`Sorted`), and `last_time` is at or after all of them (`Latest`), which an
  init restores from the last node of the sector in use (`InitTimes`).

Then each step maps to one of `TsLog`: the erase for an append to `Drop`, since the sector
erased is first in the round; the commit to `Append`; the erases of a clean to `Clean` and
its last magic word to `CleanEnd`; `fdb_tsl_set_status` to `Mark`, since no two logs have the
same time (`TimesDiffer`); an init to `SetRollover`; a cut to `End`.  All others stutter.

For the database object, `IInv` says which frames can lie on each other (`Nesting`): a frame
has another above it only in its callback or in the load, and an attempt to open is at the
bottom of its stack.  `Opening` says that until `init_ok` is set every other thread has at most a call that
is about to be refused, so nobody sees the fields a failed attempt leaves, and that an
attempt past its checks has the geometry it found.  The hypothesis on `Early` is needed:
`fdb_tsl_iter` and others print a warning and go on (`UsesHaveGeometry`, in
`MCDbCalls_open.cfg`, is refuted).  For `Exclusive`, `LockHeld` says that a frame between the lock and the
unlock is the only one of its thread, and that its thread is the holder; a callback runs
under the lock of the iteration below it, whether or not the call it makes takes one.
Its two further hypotheses leave out what the code does wrong: a KVDB that is opened again
while in use, and, of the calls made directly, `fdb_kv_iterate` and `fdb_tsl_set_status`,
which take no lock.

For the module, `IInv` is a table of what is held at each step (`HeldByStep`): a jump to
a label must arrive with what the label's step supposes, and the steps of the unload with
what the load has acquired.  `Lifetimes` ties the memory of the layer to the device and
its readers to the class; the steps of the layer preserve it because only a loaded module
is accessed, and `class_destroy` waits for readers.

`SeparateAreas` needs an invariant of the layer, `LInv`, which holds until a fault stops the kernel.
`Devices` says what each device is called and how large it is once they are initialised, `Stages` what is
still to be initialised at each step, `HasMemory` that the memory has its size, and `TablesFit`
that the table in use names known devices, has partitions that end inside them and apart from each
other, and agrees with the device cache.  The hard steps are those between which the table, its
length and the cache disagree: the three of a temporary table, which `TempSound` takes together.
Then a call that passes the bounds check reaches only cells of its own partition
(`ApartCells`, `CellCovered`), so it is a `Get`, a `Put` or a `Refuse` of that
storage (`CallStores`), and everything else leaves the storages or replaces all of them.
The hypotheses are on what the layer is given and does not check: the chosen master is that of the
first MTD device (without it a partition names no device the layer knows), the partitions of a
temporary table end inside their devices and apart, and no address wraps.  `MCDriver_other_first.cfg`,
`MCDriver_wrap.cfg` and `MCDriver_parameters.cfg` show what happens otherwise.

*Only model-checked.* That `AtomicStore`, `ReadsSeeContent` and `OneLive` survive a power cut holds
only for some values of the constants and some moments of the cut (see above) and stays with TLC, as does `RecoveryOver` after
one cut; `QuietIteration` of `KvReaders` beside another thread and the properties of `TsdbQuery`
are checked by TLC on the instances above.
Liveness is out of the prover's reach, as are `ENABLED` and induction over data (so the
binary search and the traversals of `TsdbQuery` stay with TLC); no module that is
proved about declares a recursive operator.

## Not modelled

* `kv_auto_update` (not compiled in), default KVs, values too large for a sector, and flash
  operations that return an error in the middle of a KVDB or TSDB call.
* The sector cache of the KVDB, beyond what is said above; `fdb_kv_print`, which makes the
  traversal of the check under the lock and changes nothing.
* The table of CRC32, byte-level layout and alignment, the string wrappers, printing.
* `fdb_file.c` and `fal_rtt.c`, which are not compiled into the module; samples and tests,
  which are callers of the library.
* `fal_set_partition_table_temp` beside a reader with a longer table, a `flash_mem` with more
  than 16 entries, `_fdb_deinit` beside a call, handles to erased logs: the interfaces leave
  these to the caller.

What is worth proving next: `RecoveryOver` and `AtomicStore` of `Kvdb` for one cut and values of one
size (`kvdb_cuts` and the configurations say why not for more), and `IterRight` of `TsdbQuery`
from `SInv` and `TInv`, as far as it needs no induction.
