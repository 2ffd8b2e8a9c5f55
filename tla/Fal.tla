--------------------------------- MODULE Fal ---------------------------------
(* The flash abstraction layer of the kernel module: the devices of porting/,  *)
(* fal_init with its two levels, the partition table and its cache, the calls  *)
(* on partitions, and the reader of /sys/class/flashdb/partition, which takes  *)
(* no lock and may run at any step of fal_init and fal_set_partition_table_temp.*)
(*                                                                             *)
(* Sizes and addresses count cells; Word is 2^32 in these units.  Built as the *)
(* Makefile does: FDB_LKM, no FAL_PART_HAS_TABLE_CFG, FAL_DEBUG 0, so that an  *)
(* assert is nothing.                                                          *)
EXTENDS Integers, Sequences, SequencesExt, FiniteSetsExt

CONSTANTS
    MtdLists,      \* the MTD devices a board may have, in order of their numbers
    MasterLen,     \* the size of each master MTD device
    MtdName,       \* param_mtd_name
    PartName,      \* param_part_name
    MemSize,       \* param_part_size
    FlashSize,     \* FLASH_SIZE of the MEM device before it is initialised
    TableCap,      \* entries that fit flash_mem of the device "virt"
    TempTables,    \* arguments of fal_set_partition_table_temp
    Addrs, Sizes,  \* arguments of the partition calls
    Values,        \* what is written
    Word,          \* addresses are computed modulo Word
    MaxFails       \* bound on the allocations that fail

VARIABLES
    mtds,          \* the board: a sequence of [name, master, off, len]
    virt,          \* the entries of flash_mem
    memLen,        \* mem_blk.len
    nor,           \* nor_flash0: [name, len]
    mem,           \* the memory of the MEM device, or Null
    flashOk,       \* init_ok of fal_flash.c
    partOk,        \* init_ok of fal_partition.c
    falOk,         \* init_ok of fal.c
    table,         \* partition_table, or Null
    tableLen,      \* partition_table_len
    cache,         \* part_flash_cache, or Null
    pc,            \* the step of fal_init or fal_set_partition_table_temp that is next
    temp,          \* the argument of fal_set_partition_table_temp
    show,          \* partition_show: [pass, i]; pass 0 when it does not run
    reply,         \* what the last call returned
    fails,         \* allocations that failed so far
    fault          \* what went wrong that no code handles, or "none"

ram   == <<mem, table, tableLen, cache>>
flags == <<flashOk, partOk, falOk>>
devs  == <<virt, memLen, nor>>
vars  == <<mtds, devs, ram, flags, pc, temp, show, reply, fails, fault>>

Null    == <<>>            \* NULL: no table, cache or memory is that short
Junk    == "junk"          \* whatever kmalloc'ed memory held
NoEntry == [name |-> Junk, dev |-> Junk, off |-> 0, len |-> 0]
Erased  == "erased"        \* 0xFF
MEM     == "MEM"
NorName == "norflash0"

ASSUME FalAssumption ==
    /\ MemSize \in Nat /\ FlashSize \in Nat /\ Word \in Nat \ {0} /\ MaxFails \in Nat
    /\ TableCap \in Nat \ {0}
    /\ Addrs \subseteq Nat /\ Sizes \subseteq Nat \ {0}
    /\ \A t \in TempTables : Len(t) > 0

(* ---------------------------- flash devices ------------------------------ *)

\* fal_flash_nor_flash_detect: the MTD devices of the chosen master ...
NorParts(ms) ==
    LET mine == SelectSeq(ms, LAMBDA m : m.master = MtdName)
    IN  [i \in 1..Len(mine) |->
            [name |-> mine[i].name, dev |-> mine[i].master,
             off |-> mine[i].off, len |-> mine[i].len]]

\* fal_flash_mem_blk_detect: ... and behind them the MEM partition, with the
\* length the device has at that time.
MemPart(len) == [name |-> PartName, dev |-> MEM, off |-> 0, len |-> len]

\* detect_partition, the _init of the device "virt".
Detected(ms, len) == Append(NorParts(ms), MemPart(len))

\* fal_flash_device_find, by the names the devices have now.
Missing(part) == part.dev \notin {MEM, nor.name}
DevLen(dev)   == IF dev = MEM THEN memLen ELSE nor.len

Crash(what) == fault' = what

\* fal_flash_init: the devices initialise in table order, "virt", "MEM",
\* nor_flash0; the last looks at MTD device 0 without a check.
FlashInit ==
    /\ pc = "flash"
    /\ IF flashOk
         THEN UNCHANGED <<devs, flashOk, fault>>
         ELSE /\ virt' = Detected(mtds, memLen)
              /\ memLen' = MemSize
              /\ IF Len(virt') > TableCap THEN Crash("overrun") /\ UNCHANGED <<nor, flashOk>>
                 ELSE IF mtds = <<>> THEN Crash("oops") /\ UNCHANGED <<nor, flashOk>>
                 ELSE /\ nor' = [name |-> mtds[1].master, len |-> MasterLen[mtds[1].master]]
                      /\ flashOk' = TRUE
                      /\ UNCHANGED fault
    /\ pc' = "part"
    /\ UNCHANGED <<mtds, ram, partOk, falOk, temp, show, reply, fails>>

(* --------------------------- partition table ----------------------------- *)

\* The search finds the last entry and the load goes down from it.
Loaded == [i \in 1..Len(virt) |-> virt[Len(virt) + 1 - i]]

AllocFails == fails < MaxFails /\ fails' = fails + 1
AllocWorks == UNCHANGED fails

\* Mutant: the table alone tells that it is loaded.
PartInit_KeepsTable ==
    /\ pc = "part"
    /\ IF table # Null
         THEN pc' = "finish" /\ AllocWorks /\ UNCHANGED table
         ELSE \/ AllocFails /\ pc' = "finish" /\ UNCHANGED table
              \/ AllocWorks /\ pc' = "fill" /\ table' = [i \in 1..Len(virt) |-> NoEntry]
    /\ UNCHANGED <<mtds, devs, mem, tableLen, cache, flags, temp, show, reply, fault>>

\* fal_partition_init up to the allocation of the table.
PartInit ==
    /\ pc = "part"
    /\ \/ /\ partOk
          /\ pc' = "finish" /\ AllocWorks /\ UNCHANGED table
       \/ /\ ~ partOk
          /\ AllocFails                             \* new_part
          /\ pc' = "finish" /\ UNCHANGED table
       \/ /\ ~ partOk
          /\ AllocFails                             \* partition_table
          /\ pc' = "finish" /\ table' = Null
       \/ /\ ~ partOk
          /\ AllocWorks
          /\ table' = [i \in 1..Len(virt) |-> NoEntry]
          /\ pc' = "fill"
    /\ UNCHANGED <<mtds, devs, mem, tableLen, cache, flags, temp, show, reply, fault>>

FillTable ==
    /\ pc = "fill"
    /\ table' = Loaded
    /\ pc' = "publish"
    /\ UNCHANGED <<mtds, devs, mem, tableLen, cache, flags, temp, show, reply, fails, fault>>

PublishLen ==
    /\ pc = "publish"
    /\ tableLen' = Len(table)
    /\ pc' = "cache"
    /\ UNCHANGED <<mtds, devs, mem, table, cache, flags, temp, show, reply, fails, fault>>

\* check_and_update_part_cache stops at a partition that starts outside of its
\* device and passes over one without a device; the entries it did not reach
\* are as they were allocated.
OutOfBound(part) == ~ Missing(part) /\ part.off >= DevLen(part.dev)

CacheOf(t) ==
    [i \in 1..Len(t) |->
        IF Missing(t[i]) \/ \E j \in 1..i : OutOfBound(t[j]) THEN Junk ELSE t[i].dev]

CheckedOk(t) == \A i \in 1..Len(t) : ~ OutOfBound(t[i])

UpdateCache(t) ==
    \/ /\ AllocFails
       /\ cache' = Null /\ UNCHANGED tableLen
    \/ /\ AllocWorks
       /\ cache' = CacheOf(t)
       /\ tableLen' = IF CheckedOk(t) THEN tableLen ELSE 0

BuildCache ==
    /\ pc = "cache"
    /\ UpdateCache(table)
    /\ partOk' = (cache' # Null /\ CheckedOk(table))
    /\ pc' = "finish"
    /\ UNCHANGED <<mtds, devs, mem, table, flashOk, falOk, temp, show, reply, fault>>

\* The end of fal_init.
Finish ==
    /\ pc = "finish"
    /\ falOk' = (tableLen > 0)
    /\ reply' = [ret |-> tableLen, data |-> <<>>]
    /\ pc' = "idle"
    /\ UNCHANGED <<mtds, devs, ram, flashOk, partOk, temp, show, fails, fault>>

FalInit ==
    /\ pc = "idle"
    /\ pc' = "flash"
    /\ UNCHANGED <<mtds, devs, ram, flags, temp, show, reply, fails, fault>>

\* fal_set_partition_table_temp: its three steps, whatever the check says.
SetTemp(t) ==
    /\ pc = "idle" /\ partOk
    /\ temp' = t
    /\ pc' = "temp_cache"
    /\ UNCHANGED <<mtds, devs, ram, flags, show, reply, fails, fault>>

TempCache ==
    /\ pc = "temp_cache"
    /\ UpdateCache(temp)
    /\ pc' = "temp_len"
    /\ UNCHANGED <<mtds, devs, mem, table, flags, temp, show, reply, fault>>

TempLen ==
    /\ pc = "temp_len"
    /\ tableLen' = Len(temp)
    /\ pc' = "temp_table"
    /\ UNCHANGED <<mtds, devs, mem, table, cache, flags, temp, show, reply, fails, fault>>

TempTable ==
    /\ pc = "temp_table"
    /\ table' = temp
    /\ pc' = "idle"
    /\ UNCHANGED <<mtds, devs, mem, tableLen, cache, flags, temp, show, reply, fails, fault>>

\* fal_partition_find: the first entry of that name, 0 when there is none.
Find(name) ==
    LET named == {i \in 1..tableLen : table[i].name = name}
    IN  IF named = {} THEN 0 ELSE Min(named)

(* --------------------------- partition calls ------------------------------ *)

Answer(ret, data) == reply' = [ret |-> ret, data |-> data]

\* _get_mem_blk_addr
Memory  == IF mem = Null THEN [c \in 0..(memLen - 1) |-> Junk] ELSE mem
NoMemory == mem = Null /\ AllocFails

MemRead(at, size) ==
    \/ NoMemory /\ Answer(0, <<>>) /\ UNCHANGED mem
    \/ AllocWorks /\ mem' = Memory /\ Answer(size, [k \in 1..size |-> Memory[at + k - 1]])

\* _write and _erase
MemPut(at, size, v) ==
    \/ NoMemory /\ Answer(0, <<>>) /\ UNCHANGED mem
    \/ /\ AllocWorks
       /\ mem' = [c \in DOMAIN Memory |-> IF c \in at..(at + size - 1) THEN v ELSE Memory[c]]
       /\ Answer(size, <<>>)

\* The stubs of the NOR device.
NorCall == Answer(0, <<>>) /\ AllocWorks /\ UNCHANGED mem

\* Mutant: the offset of the partition is not added.
At_NoOffset(part, addr)             == addr % Word

InBounds(part, addr, size) == (addr + size) % Word <= part.len
At(part, addr)             == (part.off + addr) % Word

\* fal_partition_read, _write and _erase up to the call of the device: op is it.
PartCall(p, addr, size, op(_, _)) ==
    LET part == table[p]
        at   == At(part, addr)
    IN  /\ pc = "idle" /\ tableLen > 0
        /\ IF ~ InBounds(part, addr, size)
             THEN Answer(-1, <<>>) /\ AllocWorks /\ UNCHANGED <<mem, fault>>
           ELSE IF cache = Null
             THEN Crash("oops") /\ AllocWorks /\ UNCHANGED <<mem, reply>>
           ELSE IF cache[p] = Junk       \* no device by chance, or any address
             THEN /\ \/ Answer(-1, <<>>) /\ UNCHANGED fault
                     \/ Crash("oops") /\ UNCHANGED reply
                  /\ AllocWorks /\ UNCHANGED mem
           ELSE IF cache[p] # MEM
             THEN NorCall /\ UNCHANGED fault
           ELSE IF at + size > memLen
             THEN Crash("outside") /\ AllocWorks /\ UNCHANGED <<mem, reply>>
           ELSE op(at, size) /\ UNCHANGED fault
        /\ UNCHANGED <<mtds, devs, table, tableLen, cache, flags, pc, temp, show>>

PartRead(p, addr, size)     == PartCall(p, addr, size, MemRead)
PartWrite(p, addr, size, v) == PartCall(p, addr, size, LAMBDA at, n : MemPut(at, n, v))
PartErase(p, addr, size)    == PartCall(p, addr, size, LAMBDA at, n : MemPut(at, n, Erased))

(* ------------------------- the reader of the table ------------------------ *)

\* fal_print_part_table goes over the table twice, up for the widths and down
\* for the lines, and reads partition_table_len anew at each turn.
Entry == IF show.pass = 1 THEN show.i + 1 ELSE tableLen - show.i

ShowBegin ==
    /\ show.pass = 0
    /\ show' = [pass |-> 1, i |-> 0]
    /\ UNCHANGED <<mtds, devs, ram, flags, pc, temp, reply, fails, fault>>

ShowStep ==
    /\ show.pass > 0
    /\ IF show.i < tableLen
         THEN /\ show' = [show EXCEPT !.i = @ + 1]
              /\ fault' = IF table = Null \/ Entry > Len(table) \/ table[Entry] = NoEntry
                            THEN "badprint" ELSE fault
         ELSE /\ show' = [pass |-> (show.pass + 1) % 3, i |-> 0]
              /\ UNCHANGED fault
    /\ UNCHANGED <<mtds, devs, ram, flags, pc, temp, reply, fails>>

(* ------------------------------ specification ----------------------------- *)

InitState ==
    /\ mtds \in MtdLists
    /\ virt = <<>> /\ memLen = FlashSize /\ nor = [name |-> NorName, len |-> 0]
    /\ mem = Null /\ table = Null /\ tableLen = 0 /\ cache = Null
    /\ flashOk = FALSE /\ partOk = FALSE /\ falOk = FALSE
    /\ pc = "idle" /\ temp = <<>> /\ show = [pass |-> 0, i |-> 0]
    /\ reply = [ret |-> 0, data |-> <<>>]
    /\ fails = 0 /\ fault = "none"

InitStep == FlashInit \/ PartInit \/ FillTable \/ PublishLen \/ BuildCache \/ Finish
TempStep == TempCache \/ TempLen \/ TempTable

UseNext ==
    \E p \in 1..tableLen, addr \in Addrs, size \in Sizes :
        \/ PartRead(p, addr, size)
        \/ PartErase(p, addr, size)
        \/ \E v \in Values : PartWrite(p, addr, size, v)

(* ------------------------------- properties ------------------------------- *)

\* No step dereferences a pointer it does not have or leaves the memory of the
\* MEM device (the bound checks of fal_partition_read, _write and _erase, and
\* the order in which fal_partition_init publishes its table to a reader).
NoFault == fault = "none"

\* Every partition call has a table and a cache.
Usable == partOk /\ cache # Null /\ table # Null /\ tableLen > 0 /\ Len(cache) >= tableLen

\* partition_show prints entries of the table (fal_partition.c:114).
PrintsTable == fault # "badprint"

\* Every partition lies inside of its device (main.c:177-178: the parameter
\* "size" gives the size of the MEM partition).
PartitionsFit ==
    pc = "idle" /\ partOk =>
        \A i \in 1..tableLen : table[i].dev = MEM => table[i].off + table[i].len <= memLen

\* A fal_init_check that answers 1 means that the layer can be used (fal.c:57).
OkMeansUsable == pc = "idle" /\ falOk => Usable

\* The MEM partition is used only when no physical partition has the name
\* (main.c:178).
PhysicalFirst ==
    pc = "idle" /\ partOk /\ (\E i \in 1..Len(mtds) : mtds[i].name = PartName /\ mtds[i].master = MtdName)
        => table[Find(PartName)].dev # MEM
=============================================================================
