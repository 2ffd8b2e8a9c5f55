---------------------------- MODULE DriverProofs ----------------------------
(* What the module holds at each step of its load and of its unload, for any   *)
(* board, partition tables, allocations that fail and calls of the kernel that *)
(* fail; and that the partitions of the flash layer are separate storages.     *)
EXTENDS Driver, TLAPS, SequenceTheorems

Steps == {"absent", "cdev", "class", "attr", "device", "fal", "wait", "loaded",
          "undo_class", "destroy_device", "destroy_class", "del_cdev", "del_unregister",
          "exit_device", "exit_class", "exit_cdev", "exit_region"}

\* Each step holds what the steps before it acquired, whether it was reached by the
\* load, by a jump to its label or by the unload.  The attribute goes in two steps.
HeldByStep ==
    /\ drv \in Steps
    /\ held \subseteq {Region, Cdev, Class, Attr, Device}
    /\ Region \in held <=> drv # "absent"
    /\ Cdev \in held <=> drv \notin {"absent", "cdev", "del_unregister", "exit_region"}
    /\ Class \in held <=> drv \in {"attr", "device", "fal", "wait", "loaded", "undo_class",
                                   "destroy_device", "destroy_class", "exit_device", "exit_class"}
    /\ Attr \in held => drv \in {"device", "fal", "wait", "loaded", "destroy_device",
                                 "destroy_class", "exit_device", "exit_class"}
    /\ Device \in held <=> drv \in {"fal", "wait", "loaded", "destroy_device", "exit_device"}

\* The memory of the MEM device lives within the device, a reader within the class.
Lifetimes ==
    /\ mem # Null => Device \in held
    /\ show.pass # 0 => Class \in held

IInv == HeldByStep /\ Lifetimes

LEMMA InitInvariant == DriverInit => IInv
BY DEF DriverInit, InitState, IInv, HeldByStep, Lifetimes, Steps, Null,
       Region, Cdev, Class, Attr, Device

\* A step that keeps memory and readers, and what it does to the rest.
LEMMA AcquireKeeps ==
    ASSUME IInv,
           AllocRegion \/ AddCdev \/ CreateFile \/ CreateDevice \/ CreateClass \/ CallFal
             \/ FalResult \/ ExitBegin
    PROVE  IInv'
<1>0. UNCHANGED <<mem, show>>
  BY DEF AllocRegion, AddCdev, CreateFile, CreateDevice, CreateClass, CallFal, FalResult,
         ExitBegin, Acquire, FalInit, vars, ram
<1>1. Lifetimes'
  BY <1>0 DEF IInv, HeldByStep, Lifetimes, Region, Cdev, Class, Attr, Device, AllocRegion, AddCdev,
     CreateFile, CreateDevice, CreateClass, CallFal, FalResult, ExitBegin, Acquire
<1>2. HeldByStep'
  BY DEF IInv, HeldByStep, Region, Cdev, Class, Attr, Device, AllocRegion, AddCdev, Steps,
     CreateFile, CreateDevice, CreateClass, CallFal, FalResult, ExitBegin, Acquire
<1>3. QED
  BY <1>1, <1>2 DEF IInv

LEMMA DestroyClassKeeps ==
    ASSUME IInv, DestroyClass
    PROVE  IInv'
<1>1. UNCHANGED <<mem, show>>
  BY DEF DestroyClass, vars, ram
<1>2. Class \in held /\ Device \notin held /\ mem = Null
  BY DEF DestroyClass, IInv, HeldByStep, Lifetimes
<1>3. CASE Attr \in held /\ held' = held \ {Attr} /\ UNCHANGED drv
  BY <1>1, <1>2, <1>3
  DEF IInv, HeldByStep, Lifetimes, Region, Cdev, Class, Attr, Device
<1>4. CASE Attr \notin held /\ show.pass = 0 /\ held' = held \ {Class} /\ drv' = After[drv]
  <2>1. \/ drv \in {"undo_class", "destroy_class"} /\ drv' = "del_cdev"
        \/ drv = "exit_class" /\ drv' = "exit_cdev"
    BY <1>4 DEF DestroyClass, After
  <2>2. HeldByStep'
    BY <1>4, <2>1 DEF IInv, HeldByStep, Steps, Region, Cdev, Class, Attr, Device
  <2>3. Lifetimes'
    BY <1>1, <1>2, <1>4 DEF Lifetimes
  <2>4. QED
    BY <2>2, <2>3 DEF IInv
<1>5. QED
  BY <1>3, <1>4 DEF DestroyClass

LEMMA ReleaseKeeps ==
    ASSUME IInv, DestroyDevice \/ DeleteCdev \/ UnregisterRegion \/ ExitRegion
    PROVE  IInv'
<1>1. CASE DestroyDevice
  BY <1>1 DEF IInv, HeldByStep, Lifetimes, Steps, Region, Cdev, Class, Attr, Device,
              DestroyDevice, After
<1>2. CASE DeleteCdev
  BY <1>2 DEF IInv, HeldByStep, Lifetimes, Steps, Region, Cdev, Class, Attr, Device,
              DeleteCdev, After, vars, ram
<1>3. CASE UnregisterRegion
  BY <1>3 DEF IInv, HeldByStep, Lifetimes, Steps, Region, Cdev, Class, Attr, Device,
              UnregisterRegion, After, vars, ram
<1>4. CASE ExitRegion
  <2>1. drv = "exit_region" /\ held' = held \ {Region} /\ drv' = "absent"
        /\ mem' = Null /\ show' = show
    BY <1>4 DEF ExitRegion, Fresh
  <2>2. HeldByStep'
    BY <2>1 DEF IInv, HeldByStep, Steps, Region, Cdev, Class, Attr, Device
  <2>3. Class \notin held
    BY <2>1 DEF IInv, HeldByStep
  <2>4. Lifetimes'
    BY <2>1, <2>3 DEF IInv, Lifetimes
  <2>5. QED
    BY <2>2, <2>4 DEF IInv
<1>5. QED
  BY <1>1, <1>2, <1>3, <1>4

\* The steps of the layer keep what the module holds; only calls on partitions,
\* in a loaded module, touch the memory.
LEMMA InitStepKeeps == InitStep \/ TempStep => UNCHANGED <<mem, show>>
BY DEF InitStep, TempStep, FlashInit, PartInit, FillTable, PublishLen, BuildCache, Finish,
       TempCache, TempLen, TempTable, ram

LEMMA UseKeeps == UseNext => UNCHANGED show
BY DEF UseNext, PartRead, PartWrite, PartErase, PartCall

LEMMA LayerKeeps ==
    ASSUME IInv, LayerNext
    PROVE  IInv'
<1>0. UNCHANGED <<drv, held>>
  BY DEF LayerNext, Within, drvVars
<1>1. HeldByStep'
  BY <1>0 DEF IInv, HeldByStep
<1>2. CASE Within(InitStep \/ TempStep)
  BY <1>0, <1>1, <1>2, InitStepKeeps DEF Within, IInv, Lifetimes
<1>3. CASE Within(drv = "loaded" /\ (FalInit \/ UseNext \/ \E t \in TempTables : SetTemp(t)))
  <2>1. UNCHANGED show
    BY <1>3, UseKeeps DEF Within, FalInit, SetTemp
  <2>2. Device \in held
    BY <1>3 DEF Within, IInv, HeldByStep
  <2>3. QED
    BY <1>0, <1>1, <2>1, <2>2 DEF IInv, Lifetimes
<1>4. CASE Within(Attr \in held /\ ShowBegin)
  <2>1. Class \in held
    BY <1>4 DEF Within, IInv, HeldByStep
  <2>2. UNCHANGED mem
    BY <1>4 DEF Within, ShowBegin, ram
  <2>3. QED
    BY <1>0, <1>1, <2>1, <2>2 DEF IInv, Lifetimes
<1>5. CASE Within(ShowStep)
  <2>1. show.pass # 0 /\ UNCHANGED mem
    BY <1>5 DEF Within, ShowStep, ram
  <2>2. QED
    BY <1>0, <1>1, <2>1 DEF IInv, Lifetimes
<1>6. QED
  BY <1>2, <1>3, <1>4, <1>5 DEF LayerNext

LEMMA StepKeeps == IInv /\ [DriverNext]_<<vars, drvVars>> => IInv'
<1> SUFFICES ASSUME IInv, [DriverNext]_<<vars, drvVars>> PROVE IInv'
  OBVIOUS
<1>1. CASE UNCHANGED <<vars, drvVars>>
  BY <1>1 DEF IInv, HeldByStep, Lifetimes, vars, ram, drvVars
<1>2. CASE AllocRegion \/ AddCdev \/ CreateFile \/ CreateDevice \/ CreateClass \/ CallFal
             \/ FalResult \/ ExitBegin
  BY <1>2, AcquireKeeps
<1>3. CASE DestroyDevice \/ DestroyClass \/ DeleteCdev \/ UnregisterRegion \/ ExitRegion
  BY <1>3, DestroyClassKeeps, ReleaseKeeps
<1>4. CASE LayerNext
  BY <1>4, LayerKeeps
<1>5. QED
  BY <1>1, <1>2, <1>3, <1>4 DEF DriverNext, DriverStep

THEOREM DriverInductive == DriverSpec => []IInv
BY InitInvariant, StepKeeps, PTL DEF DriverSpec

\* A module that is not loaded holds nothing and nothing of it runs.
THEOREM NothingIsLeft == DriverSpec => []NothingLeft
<1>1. IInv => NothingLeft
  <2> SUFFICES ASSUME IInv, drv = "absent" PROVE held = {} /\ show.pass = 0 /\ mem = Null
    BY DEF NothingLeft
  <2>1. \A x \in {Region, Cdev, Class, Attr, Device} : x \notin held
    BY DEF IInv, HeldByStep
  <2>2. held = {}
    BY <2>1 DEF IInv, HeldByStep
  <2>3. QED
    BY <2>2 DEF IInv, Lifetimes
<1>2. QED
  BY <1>1, DriverInductive, PTL

\* Whatever is held, what it is built on is held, too, and the memory of the MEM
\* device is freed with the device that owns it.
THEOREM OrderOfRelease == DriverSpec => []ReleasedInOrder
<1>1. IInv => ReleasedInOrder
  <2> SUFFICES ASSUME IInv PROVE ReleasedInOrder
    OBVIOUS
  <2>1. /\ Cdev \in held => Region \in held
        /\ Class \in held => Cdev \in held
        /\ Attr \in held => Class \in held
        /\ Device \in held => Class \in held /\ Cdev \in held
    BY DEF IInv, HeldByStep
  <2>2. \A p \in BuiltOn : p[1] \in held => p[2] \in held
    BY <2>1 DEF BuiltOn
  <2>3. QED
    BY <2>2 DEF ReleasedInOrder, IInv, Lifetimes
<1>2. QED
  BY <1>1, DriverInductive, PTL

-----------------------------------------------------------------------------
(* Separate storages.                                                      *)

\* What is asked of a partition whose flash device is dev: its device exists, it
\* starts within it, and one on the MEM device lies within the memory.
Fits(part, dev) ==
    /\ part.off \in Nat /\ part.len \in Nat
    /\ part.dev \in {MEM, dev}
    /\ part.dev = MEM => part.off < MemSize /\ part.off + part.len <= MemSize
    /\ part.dev # MEM => part.off < MasterLen[dev]

Apart(p, q) == p.dev = MEM /\ q.dev = MEM => p.off + p.len <= q.off \/ q.off + q.len <= p.off

\* The first MTD device of a board that has one is on the chosen master, and the
\* MEM device has a name of its own.
BoardsOk ==
    \A ms \in MtdLists : ms # <<>> =>
       /\ ms[1].master \notin {MEM, Junk} /\ MasterLen[ms[1].master] \in Nat
       /\ NorParts(ms) \in Seq(Range(NorParts(ms)))
       /\ \A i \in 1..Len(NorParts(ms)) :
             /\ NorParts(ms)[i].off \in Nat /\ NorParts(ms)[i].len \in Nat
             /\ NorParts(ms)[i].dev = ms[1].master

\* The tables that a caller sets.
TempTablesOk ==
    \A t \in TempTables :
       /\ t \in Seq(Range(t))
       /\ \A ms \in MtdLists : ms # <<>> => \A i \in 1..Len(t) : Fits(t[i], ms[1].master)
       /\ \A i, j \in 1..Len(t) : i # j => Apart(t[i], t[j])

\* The sizes: the memory is not smaller than built in, and no address wraps.
SizesOk ==
    /\ FlashSize <= MemSize /\ MemSize <= Word
    /\ \A addr \in Addrs, size \in Sizes : addr + size < Word

-----------------------------------------------------------------------------
(* The invariant of the layer.                                             *)

InitPCs == {"flash", "part", "fill", "publish", "cache", "finish"}
TempPCs == {"temp_cache", "temp_len", "temp_table"}

\* Only a load or a loaded module is in the layer.
Where == /\ pc \in {"idle"} \cup InitPCs \cup TempPCs
         /\ pc # "idle" => drv \in {"wait", "loaded"}

\* The devices are initialised once, and then known by their final names and sizes.
Devices ==
    /\ mtds \in MtdLists
    /\ IF flashOk
         THEN /\ mtds # <<>>
              /\ nor = [name |-> mtds[1].master, len |-> MasterLen[mtds[1].master]]
              /\ memLen = MemSize
              /\ virt = Detected(mtds, FlashSize)
         ELSE memLen = FlashSize /\ mem = Null

\* What has to be initialised at each step.
Stages ==
    /\ partOk \/ tableLen # 0 \/ pc \in (InitPCs \ {"flash"}) \cup TempPCs => flashOk
    /\ pc \in {"fill", "publish", "cache"} => ~partOk
    /\ pc \in {"publish", "cache"} => table = Loaded
    /\ pc = "cache" => tableLen = Len(table)
    /\ pc \in TempPCs => partOk /\ temp \in TempTables
    /\ tableLen \in Nat

\* The memory of the MEM device, when there is any, has its size.
HasMemory == mem # Null => mem = [c \in 0..(memLen - 1) |-> mem[c]]

\* A table whose partitions are separate, and the cache of their devices.
SoundTable(t) ==
    /\ Len(t) \in Nat
    /\ \A i \in 1..Len(t) : Fits(t[i], mtds[1].master)
    /\ \A i, j \in 1..Len(t) : i # j => Apart(t[i], t[j])
CachesFor(t) == cache = Null \/ \A i \in 1..Len(t) : cache[i] = t[i].dev

TablesFit ==
    partOk =>
       /\ pc \notin TempPCs => tableLen = Len(table) /\ SoundTable(table) /\ CachesFor(table)
       /\ pc \in {"temp_len", "temp_table"} => CachesFor(temp)
       /\ pc = "temp_table" => tableLen = Len(temp)

LInv == Where /\ Devices /\ Stages /\ HasMemory /\ TablesFit
LInvHolds == fault = "none" => LInv

LEMMA InitLayer ==
    ASSUME BoardsOk, SizesOk
    PROVE  DriverInit => LInvHolds
BY DEF DriverInit, InitState, LInvHolds, LInv, Where, Devices, Stages, HasMemory, TablesFit,
       InitPCs, TempPCs, Null

\* Steps outside of the layer.
LEMMA LayerKept ==
    ASSUME LInv, UNCHANGED <<mtds, devs, ram, flags, pc, temp>>, pc # "idle" => drv' = drv
    PROVE  LInv'
<1> USE DEF LInv, devs, ram, flags
<1>1. Where' /\ Devices' /\ HasMemory'
  BY DEF Where, Devices, HasMemory
<1>2. Stages'
  BY DEF Stages, Loaded
<1>3. TablesFit'
  BY DEF TablesFit, SoundTable, CachesFor
<1>4. QED
  BY <1>1, <1>2, <1>3

LEMMA KernelKeeps ==
    ASSUME LInv,
           \/ AllocRegion \/ AddCdev \/ CreateClass \/ CreateFile \/ CreateDevice \/ FalResult
           \/ DestroyClass \/ DeleteCdev \/ UnregisterRegion \/ ExitBegin
           \/ Within(Attr \in held /\ ShowBegin) \/ Within(ShowStep)
           \/ UNCHANGED <<vars, drvVars>>
    PROVE  LInv'
<1>1. UNCHANGED <<mtds, devs, ram, flags, pc, temp>>
  BY DEF AllocRegion, AddCdev, CreateClass, CreateFile, CreateDevice, FalResult, DestroyClass,
     DeleteCdev, UnregisterRegion, ExitBegin, Acquire, Within, ShowBegin, ShowStep, vars, ram
<1>2. pc # "idle" => drv' = drv
  BY DEF AllocRegion, AddCdev, CreateClass, CreateFile, CreateDevice, FalResult, DestroyClass,
     DeleteCdev, UnregisterRegion, ExitBegin, Acquire, Within, drvVars, LInv, Where
<1>3. QED
  BY <1>1, <1>2, LayerKept

LEMMA DestroyKeeps ==
    ASSUME LInv, DestroyDevice
    PROVE  LInv'
<1>1. /\ UNCHANGED <<mtds, devs, table, tableLen, cache, flags, pc, temp>>
      /\ mem' = Null /\ pc = "idle"
  BY DEF DestroyDevice, LInv, Where
<1> USE DEF LInv, devs, flags
<1>2. Where' /\ Devices' /\ HasMemory'
  BY <1>1 DEF Where, Devices, HasMemory
<1>3. Stages'
  BY <1>1 DEF Stages, Loaded
<1>4. TablesFit'
  BY <1>1 DEF TablesFit, SoundTable, CachesFor
<1>5. QED
  BY <1>2, <1>3, <1>4

LEMMA FreshKeeps ==
    ASSUME LInv, ExitRegion
    PROVE  LInv'
<1>1. pc' = "idle" /\ mtds' = mtds
  BY DEF ExitRegion, LInv, Where
<1>2. QED
  BY <1>1 DEF ExitRegion, Fresh, LInv, Where, Devices, Stages, HasMemory, TablesFit, InitPCs,
     TempPCs, Null

\* Steps that only take the layer from one step to the next.
LEMMA TurnKeeps ==
    ASSUME LInv,
           \/ CallFal \/ Within(Finish)
           \/ Within(drv = "loaded" /\ (FalInit \/ \E t \in TempTables : SetTemp(t)))
    PROVE  LInv'
<1> USE DEF LInv, devs, flags, ram, Within, drvVars
<1>1. CASE CallFal \/ Within(drv = "loaded" /\ FalInit)
  <2>1. /\ UNCHANGED <<mtds, devs, ram, flags, temp>> /\ pc = "idle" /\ pc' = "flash"
        /\ drv' \in {"wait", "loaded"}
    BY <1>1 DEF CallFal, FalInit
  <2>2. Where' /\ Devices' /\ HasMemory' /\ Stages'
    BY <2>1 DEF Where, Devices, HasMemory, Stages, InitPCs, TempPCs
  <2>3. TablesFit'
    BY <2>1 DEF TablesFit, SoundTable, CachesFor, TempPCs
  <2>4. QED
    BY <2>2, <2>3
<1>2. CASE Within(Finish)
  <2>1. /\ UNCHANGED <<mtds, devs, ram, flashOk, partOk, temp, drv>> /\ pc = "finish" /\ pc' = "idle"
    BY <1>2 DEF Finish
  <2>2. Where' /\ Devices' /\ HasMemory' /\ Stages'
    BY <2>1 DEF Where, Devices, HasMemory, Stages, InitPCs, TempPCs
  <2>3. TablesFit'
    BY <2>1 DEF TablesFit, SoundTable, CachesFor, TempPCs
  <2>4. QED
    BY <2>2, <2>3
<1>3. ASSUME NEW t \in TempTables, Within(drv = "loaded" /\ SetTemp(t))
      PROVE  LInv'
  <2>1. /\ UNCHANGED <<mtds, devs, ram, flags>> /\ pc = "idle" /\ pc' = "temp_cache"
        /\ drv' = "loaded" /\ partOk /\ temp' \in TempTables
    BY <1>3 DEF SetTemp
  <2>2. Where' /\ Devices' /\ HasMemory' /\ Stages'
    BY <2>1 DEF Where, Devices, HasMemory, Stages, InitPCs, TempPCs
  <2>3. TablesFit'
    BY <2>1 DEF TablesFit, SoundTable, CachesFor, TempPCs
  <2>4. QED
    BY <2>2, <2>3
<1>4. QED
  BY <1>1, <1>2, <1>3

LEMMA FlashInitKeeps ==
    ASSUME LInv, Within(FlashInit), fault' = "none", fault = "none"
    PROVE  LInv'
<1> USE DEF LInv, Within, drvVars, devs, ram
<1>1. /\ UNCHANGED <<mtds, ram, partOk, temp, drv>> /\ pc = "flash" /\ pc' = "part"
  BY DEF FlashInit
<1>2. CASE flashOk
  <2>1. UNCHANGED <<devs, flashOk>>
    BY <1>2 DEF FlashInit
  <2>2. Where' /\ Devices' /\ HasMemory' /\ Stages'
    BY <1>1, <1>2, <2>1 DEF Where, Devices, HasMemory, Stages, InitPCs, TempPCs
  <2>3. TablesFit'
    BY <1>1, <2>1 DEF TablesFit, SoundTable, CachesFor, TempPCs
  <2>4. QED
    BY <2>2, <2>3
<1>3. CASE ~flashOk
  <2>1. /\ virt' = Detected(mtds, memLen) /\ memLen' = MemSize /\ mtds # <<>> /\ flashOk'
        /\ nor' = [name |-> mtds[1].master, len |-> MasterLen[mtds[1].master]]
    BY <1>3 DEF FlashInit, Crash
  <2>2. memLen = FlashSize /\ mem = Null /\ ~partOk
    BY <1>3 DEF Devices, Stages
  <2>3. Where' /\ Devices' /\ HasMemory'
    BY <1>1, <2>1, <2>2 DEF Where, Devices, HasMemory, InitPCs, TempPCs
  <2>4. Stages'
    BY <1>1, <2>1, <2>2 DEF Stages, InitPCs, TempPCs
  <2>5. TablesFit'
    BY <1>1, <2>2 DEF TablesFit
  <2>6. QED
    BY <2>3, <2>4, <2>5
<1>4. QED
  BY <1>2, <1>3

\* What the boot has detected.
LEMMA DetectedTable ==
    ASSUME BoardsOk, LInv, flashOk
    PROVE  /\ Len(Loaded) \in Nat
           /\ \A i \in 1..Len(Loaded) :
                 /\ Loaded[i].off \in Nat /\ Loaded[i].len \in Nat
                 /\ Loaded[i].dev \in {MEM, mtds[1].master}
                 /\ Loaded[i].dev = MEM => Loaded[i] = MemPart(FlashSize) /\ i = 1
<1> DEFINE parts == NorParts(mtds)
           mp    == MemPart(FlashSize)
           S     == Range(parts) \cup {mp}
           n     == Len(parts)
<1>1. /\ mtds[1].master \notin {MEM, Junk} /\ parts \in Seq(Range(parts))
      /\ \A i \in 1..n : /\ parts[i].off \in Nat /\ parts[i].len \in Nat
                        /\ parts[i].dev = mtds[1].master
      /\ virt = Append(parts, mp)
  BY DEF LInv, Devices, BoardsOk, Detected
<1> HIDE DEF parts
<1>2. parts \in Seq(S) /\ mp \in S
  BY <1>1, SeqMonotonic
<1>3. n \in Nat /\ Len(virt) = n + 1 /\ virt[n + 1] = mp /\ \A i \in 1..n : virt[i] = parts[i]
  BY <1>1, <1>2, LenProperties, AppendProperties
<1>4. Loaded = [i \in 1..(n + 1) |-> virt[n + 2 - i]]
  BY <1>3 DEF Loaded
<1>5. Len(Loaded) = n + 1
  BY <1>3, <1>4
<1>6. /\ mp.off = 0 /\ mp.len = FlashSize /\ mp.dev = MEM
  BY DEF MemPart
<1>7. ASSUME NEW i \in 1..(n + 1)
      PROVE  /\ Loaded[i].off \in Nat /\ Loaded[i].len \in Nat
             /\ Loaded[i].dev \in {MEM, mtds[1].master}
             /\ Loaded[i].dev = MEM => Loaded[i] = mp /\ i = 1
  <2>1. CASE i = 1
    BY <1>3, <1>4, <1>6, <2>1, FalAssumption
  <2>2. CASE i # 1
    <3>1. n + 2 - i \in 1..n /\ Loaded[i] = parts[n + 2 - i]
      BY <1>3, <1>4, <1>7, <2>2
    <3>2. QED
      BY <1>1, <3>1
  <2>3. QED
    BY <2>1, <2>2
<1>8. QED
  BY <1>3, <1>5, <1>7

\* Steps that make a table, which is not used yet.
LEMMA FillKeeps ==
    ASSUME BoardsOk, LInv, Within(PartInit \/ FillTable \/ PublishLen)
    PROVE  LInv'
<1> USE DEF LInv, Within, drvVars, devs, flags
<1>1. /\ UNCHANGED <<mtds, devs, mem, cache, flags, temp, drv>>
      /\ pc \in {"part", "fill", "publish"} /\ pc' \in {"fill", "publish", "cache", "finish"}
  BY DEF PartInit, FillTable, PublishLen
<1>2. Where' /\ Devices' /\ HasMemory'
  BY <1>1 DEF Where, Devices, HasMemory, InitPCs, TempPCs
<1>3. Loaded' = Loaded
  BY <1>1 DEF Loaded
<1>4. CASE PartInit
  <2>1. tableLen' = tableLen /\ pc' \in {"fill", "finish"} /\ (pc' = "fill" => ~partOk)
        /\ (partOk => table' = table)
    BY <1>4 DEF PartInit
  <2>2. Stages'
    BY <1>1, <2>1 DEF Stages, InitPCs, TempPCs
  <2>3. TablesFit'
    BY <1>1, <2>1 DEF TablesFit, SoundTable, CachesFor, TempPCs
  <2>4. QED
    BY <1>2, <2>2, <2>3
<1>5. CASE FillTable
  <2>1. tableLen' = tableLen /\ table' = Loaded /\ pc = "fill" /\ pc' = "publish"
    BY <1>5 DEF FillTable
  <2>2. Stages'
    BY <1>1, <1>3, <2>1 DEF Stages, InitPCs, TempPCs
  <2>3. TablesFit'
    BY <1>1, <2>1 DEF TablesFit, Stages
  <2>4. QED
    BY <1>2, <2>2, <2>3
<1>6. CASE PublishLen
  <2>1. tableLen' = Len(table) /\ table' = table /\ pc = "publish" /\ pc' = "cache"
    BY <1>6 DEF PublishLen
  <2>2. Len(table) \in Nat
    BY <2>1, DetectedTable DEF Stages, InitPCs
  <2>3. Stages'
    BY <1>1, <1>3, <2>1, <2>2 DEF Stages, InitPCs, TempPCs
  <2>4. TablesFit'
    BY <1>1, <2>1 DEF TablesFit, Stages
  <2>5. QED
    BY <1>2, <2>3, <2>4
<1>7. QED
  BY <1>4, <1>5, <1>6

\* A cache that was built for a table whose partitions have devices and start within
\* them names the device of each.
LEMMA CacheNames ==
    ASSUME NEW t, \A i \in 1..Len(t) : ~Missing(t[i]) /\ ~OutOfBound(t[i])
    PROVE  \A i \in 1..Len(t) : CacheOf(t)[i] = t[i].dev
<1> SUFFICES ASSUME NEW i \in 1..Len(t) PROVE CacheOf(t)[i] = t[i].dev
  OBVIOUS
<1>1. \A j \in 1..i : j \in 1..Len(t)
  OBVIOUS
<1>2. QED
  BY <1>1 DEF CacheOf

LEMMA BuildCacheKeeps ==
    ASSUME BoardsOk, SizesOk, LInv, Within(BuildCache)
    PROVE  LInv'
<1> USE DEF LInv, Within, drvVars, devs
<1>1. /\ UNCHANGED <<mtds, devs, mem, table, flashOk, temp, drv>> /\ pc = "cache" /\ pc' = "finish"
      /\ UpdateCache(table) /\ partOk' = (cache' # Null /\ CheckedOk(table))
  BY DEF BuildCache
<1>2. flashOk /\ table = Loaded /\ tableLen = Len(table)
  BY <1>1 DEF Stages, InitPCs
<1>3. Len(table) \in Nat
  BY <1>2, DetectedTable
<1>4. Where' /\ Devices' /\ HasMemory'
  BY <1>1 DEF Where, Devices, HasMemory, InitPCs, TempPCs
<1>5. Stages'
  <2>1. tableLen' \in Nat
    BY <1>1, <1>2, <1>3 DEF UpdateCache
  <2>2. QED
    BY <1>1, <1>2, <2>1 DEF Stages, InitPCs, TempPCs
<1>6. TablesFit'
  <2>1. SUFFICES ASSUME partOk' PROVE tableLen' = Len(table) /\ SoundTable(table)' /\ CachesFor(table)'
    BY <1>1 DEF TablesFit, TempPCs
  <2>2. cache' # Null /\ \A i \in 1..Len(table) : ~OutOfBound(table[i])
    BY <1>1, <2>1 DEF CheckedOk
  <2>3. cache' = CacheOf(table) /\ tableLen' = Len(table)
    BY <1>1, <1>2, <2>1, <2>2 DEF UpdateCache
  <2>4. /\ memLen = MemSize /\ nor = [name |-> mtds[1].master, len |-> MasterLen[mtds[1].master]]
        /\ mtds[1].master # MEM /\ MasterLen[mtds[1].master] \in Nat
    BY <1>2 DEF Devices, BoardsOk
  <2>5. ASSUME NEW i \in 1..Len(table)
        PROVE  Fits(table[i], mtds[1].master) /\ ~Missing(table[i])
    <3>1. /\ table[i].off \in Nat /\ table[i].len \in Nat /\ table[i].dev \in {MEM, mtds[1].master}
          /\ table[i].dev = MEM => table[i].off = 0 /\ table[i].len = FlashSize
      BY <1>2, DetectedTable DEF MemPart
    <3>2. ~Missing(table[i])
      BY <2>4, <3>1 DEF Missing
    <3>3. ~(table[i].off >= DevLen(table[i].dev))
      BY <2>2, <3>2 DEF OutOfBound
    <3>4. CASE table[i].dev = MEM
      BY <2>4, <3>1, <3>2, <3>3, <3>4, FalAssumption DEF Fits, DevLen, SizesOk
    <3>5. CASE table[i].dev # MEM
      <4>1. ~(table[i].off >= MasterLen[mtds[1].master])
        BY <2>4, <3>3, <3>5 DEF DevLen
      <4>2. QED
        BY <2>4, <3>1, <3>2, <3>5, <4>1 DEF Fits
    <3>6. QED
      BY <3>4, <3>5
  <2>6. \A i, j \in 1..Len(table) : i # j => Apart(table[i], table[j])
    BY <1>2, DetectedTable DEF Apart
  <2>7. SoundTable(table)'
    BY <1>1, <1>3, <2>5, <2>6 DEF SoundTable
  <2>8. CachesFor(table)'
    BY <1>1, <2>2, <2>3, <2>5, CacheNames DEF CachesFor
  <2>9. QED
    BY <2>3, <2>7, <2>8
<1>7. QED
  BY <1>4, <1>5, <1>6

\* A table that a caller sets is sound.
LEMMA TempSound ==
    ASSUME TempTablesOk, BoardsOk, LInv, flashOk, NEW t \in TempTables
    PROVE  /\ SoundTable(t)
           /\ \A i \in 1..Len(t) : ~Missing(t[i]) /\ ~OutOfBound(t[i])
<1>1. /\ memLen = MemSize /\ nor = [name |-> mtds[1].master, len |-> MasterLen[mtds[1].master]]
      /\ mtds \in MtdLists /\ mtds # <<>> /\ MasterLen[mtds[1].master] \in Nat
  BY DEF LInv, Devices, BoardsOk
<1>2. Len(t) \in Nat /\ \A i \in 1..Len(t) : Fits(t[i], mtds[1].master)
  BY <1>1, LenProperties DEF TempTablesOk
<1>3. SoundTable(t)
  BY <1>2 DEF SoundTable, TempTablesOk
<1>4. ASSUME NEW i \in 1..Len(t)
      PROVE  ~Missing(t[i]) /\ ~OutOfBound(t[i])
  <2>1. Fits(t[i], mtds[1].master)
    BY <1>2
  <2>2. ~Missing(t[i])
    BY <1>1, <2>1 DEF Fits, Missing
  <2>3. CASE t[i].dev = MEM
    <3>1. t[i].off \in Nat /\ t[i].off < MemSize /\ DevLen(t[i].dev) = MemSize
      BY <1>1, <2>1, <2>3 DEF Fits, DevLen
    <3>2. QED
      BY <2>2, <3>1, FalAssumption DEF OutOfBound
  <2>4. CASE t[i].dev # MEM
    <3>1. t[i].off < MasterLen[mtds[1].master] /\ DevLen(t[i].dev) = MasterLen[mtds[1].master]
      BY <1>1, <2>1, <2>4 DEF Fits, DevLen
    <3>2. QED
      BY <1>1, <2>1, <2>2, <3>1 DEF OutOfBound, Fits
  <2>5. QED
    BY <2>2, <2>3, <2>4
<1>5. QED
  BY <1>3, <1>4

LEMMA TempKeeps ==
    ASSUME TempTablesOk, BoardsOk, LInv, Within(TempStep)
    PROVE  LInv'
<1> USE DEF LInv, Within, drvVars, devs, flags
<1>1. /\ UNCHANGED <<mtds, devs, mem, flags, temp, drv>>
      /\ pc \in TempPCs /\ pc' \in {"temp_len", "temp_table", "idle"}
  BY DEF TempStep, TempCache, TempLen, TempTable, TempPCs
<1>2. flashOk /\ partOk /\ temp \in TempTables
  BY <1>1 DEF Stages
<1>3. Len(temp) \in Nat /\ SoundTable(temp)
  BY <1>2, TempSound DEF SoundTable
<1>4. Where' /\ Devices' /\ HasMemory'
  BY <1>1 DEF Where, Devices, HasMemory, TempPCs
<1>5. tableLen' \in Nat
  BY <1>3 DEF TempStep, TempCache, TempLen, TempTable, UpdateCache, Stages
<1>6. Stages'
  BY <1>1, <1>2, <1>5 DEF Stages, InitPCs, TempPCs
<1>7. TablesFit'
  <2>1. CASE TempCache
    <3>1. pc' = "temp_len" /\ (cache' = Null \/ cache' = CacheOf(temp))
      BY <2>1 DEF TempCache, UpdateCache
    <3>2. CachesFor(temp)'
      BY <1>1, <1>2, <3>1, TempSound, CacheNames DEF CachesFor
    <3>3. QED
      BY <1>1, <3>1, <3>2 DEF TablesFit, TempPCs
  <2>2. CASE TempLen
    <3>1. pc = "temp_len" /\ pc' = "temp_table" /\ tableLen' = Len(temp) /\ cache' = cache
      BY <2>2 DEF TempLen
    <3>2. QED
      BY <1>1, <1>2, <3>1 DEF TablesFit, TempPCs, CachesFor
  <2>3. CASE TempTable
    <3>1. pc = "temp_table" /\ pc' = "idle" /\ tableLen' = tableLen /\ table' = temp /\ cache' = cache
      BY <2>3 DEF TempTable
    <3>2. SoundTable(temp)'
      BY <1>1, <1>3 DEF SoundTable
    <3>3. QED
      BY <1>1, <1>2, <3>1, <3>2 DEF TablesFit, TempPCs, CachesFor, SoundTable
  <2>4. QED
    BY <2>1, <2>2, <2>3 DEF TempStep
<1>8. QED
  BY <1>4, <1>6, <1>7

-----------------------------------------------------------------------------
(* The calls on partitions.                                                *)

\* The memory after v was put into the cells from at on.
Put(at, size, v) ==
    [c \in DOMAIN Memory |-> IF c \in at..(at + size - 1) THEN v ELSE Memory[c]]

\* What a call may do: refuse, follow a pointer it does not have, meet a device
\* without storage, or reach the memory.
CallOn(p, addr, size) ==
    LET at == At(table[p], addr)
    IN  \/ ~InBounds(table[p], addr, size) /\ Answer(-1, <<>>) /\ UNCHANGED mem
        \/ UNCHANGED <<mem, reply>>
        \/ cache # Null /\ cache[p] = Junk /\ Answer(-1, <<>>) /\ UNCHANGED mem
        \/ Answer(0, <<>>) /\ UNCHANGED mem
        \/ /\ InBounds(table[p], addr, size) /\ cache # Null /\ cache[p] = MEM
           /\ ~(at + size > memLen)
           /\ \/ mem' = Memory /\ Answer(size, [k \in 1..size |-> Memory[at + k - 1]])
              \/ \E v \in Values \cup {Erased} : mem' = Put(at, size, v) /\ Answer(size, <<>>)

LEMMA CallCases ==
    ASSUME NEW p, NEW addr, NEW size,
           \/ PartRead(p, addr, size) \/ PartErase(p, addr, size)
           \/ \E v \in Values : PartWrite(p, addr, size, v)
    PROVE  /\ pc = "idle" /\ tableLen > 0
           /\ UNCHANGED <<mtds, devs, table, tableLen, cache, flags, pc, temp>>
           /\ CallOn(p, addr, size)
<1>1. CASE PartRead(p, addr, size)
  BY <1>1 DEF PartRead, PartCall, MemRead, NorCall, NoMemory, CallOn
<1>2. CASE PartErase(p, addr, size)
  BY <1>2 DEF PartErase, PartCall, MemPut, NorCall, NoMemory, CallOn, Put
<1>3. ASSUME NEW v \in Values, PartWrite(p, addr, size, v)
      PROVE  /\ pc = "idle" /\ tableLen > 0
             /\ UNCHANGED <<mtds, devs, table, tableLen, cache, flags, pc, temp>>
             /\ CallOn(p, addr, size)
  BY <1>3 DEF PartWrite, PartCall, MemPut, NorCall, NoMemory, CallOn, Put
<1>4. QED
  BY <1>1, <1>2, <1>3

LEMMA MemoryDomain ==
    ASSUME HasMemory
    PROVE  Memory = [c \in 0..(memLen - 1) |-> Memory[c]]
BY DEF HasMemory, Memory

LEMMA CallKeeps ==
    ASSUME LInv, Within(drv = "loaded" /\ UseNext)
    PROVE  LInv'
<1> USE DEF LInv, Within, drvVars, devs, flags
<1>1. PICK p \in 1..tableLen, addr \in Addrs, size \in Sizes :
         \/ PartRead(p, addr, size) \/ PartErase(p, addr, size)
         \/ \E v \in Values : PartWrite(p, addr, size, v)
  BY DEF UseNext
<1>2. /\ pc = "idle" /\ tableLen > 0 /\ drv' = drv
      /\ UNCHANGED <<mtds, devs, table, tableLen, cache, flags, pc, temp>>
      /\ CallOn(p, addr, size)
  BY <1>1, CallCases
<1>3. flashOk
  BY <1>2 DEF Stages
<1>4. HasMemory'
  <2>1. \/ mem' = mem
        \/ mem' = [c \in 0..(memLen - 1) |-> mem'[c]]
    BY <1>2, MemoryDomain DEF CallOn, Put
  <2>2. QED
    BY <1>2, <2>1 DEF HasMemory
<1>5. Where' /\ Devices'
  BY <1>2, <1>3 DEF Where, Devices
<1>6. Stages'
  BY <1>2 DEF Stages, Loaded
<1>7. TablesFit'
  BY <1>2 DEF TablesFit, SoundTable, CachesFor
<1>8. QED
  BY <1>4, <1>5, <1>6, <1>7

\* The invariant of the layer holds as long as nothing has gone wrong that no code
\* handles, after which nothing happens.
LEMMA LayerInductive ==
    ASSUME BoardsOk, TempTablesOk, SizesOk
    PROVE  DriverSpec => []LInvHolds
<1>1. LInvHolds /\ [DriverNext]_<<vars, drvVars>> => LInvHolds'
  <2> SUFFICES ASSUME LInvHolds, [DriverNext]_<<vars, drvVars>>, fault' = "none"
               PROVE  LInv'
    BY DEF LInvHolds
  <2>1. CASE UNCHANGED <<vars, drvVars>>
    BY <2>1, KernelKeeps DEF LInvHolds, vars
  <2>2. CASE DriverNext
    <3>1. LInv /\ fault = "none"
      BY <2>2 DEF DriverNext, LInvHolds
    <3>2. CASE AllocRegion \/ DriverStep \/ ExitBegin
      BY <3>1, <3>2, KernelKeeps, DestroyKeeps, FreshKeeps, TurnKeeps DEF DriverStep
    <3>3. CASE LayerNext
      <4>1. CASE Within(InitStep \/ TempStep)
        BY <3>1, <4>1, FlashInitKeeps, FillKeeps, BuildCacheKeeps, TurnKeeps, TempKeeps
           DEF InitStep, Within
      <4>2. CASE Within(drv = "loaded" /\ (FalInit \/ UseNext \/ \E t \in TempTables : SetTemp(t)))
        BY <3>1, <4>2, TurnKeeps, CallKeeps DEF Within
      <4>3. CASE Within(Attr \in held /\ ShowBegin) \/ Within(ShowStep)
        BY <3>1, <4>3, KernelKeeps
      <4>4. QED
        BY <3>3, <4>1, <4>2, <4>3 DEF LayerNext
    <3>4. QED
      BY <2>2, <3>2, <3>3 DEF DriverNext
  <2>3. QED
    BY <2>1, <2>2
<1>2. QED
  BY <1>1, InitLayer, PTL DEF DriverSpec

-----------------------------------------------------------------------------
(* Every step is one of separate storages.                                 *)

Areas == [i \in 1..tableLen |-> AreaOf(table[i])]

LEMMA AreaShape ==
    ASSUME NEW part, part.len \in Nat
    PROVE  /\ AreaOf(part) = [c \in 1..part.len |-> AreaOf(part)[c]]
           /\ AreaOf(part) \in Seq({AreaOf(part)[c] : c \in 1..part.len})
           /\ Len(AreaOf(part)) = part.len
<1> DEFINE f == AreaOf(part)
           S == {f[c] : c \in 1..part.len}
<1>1. f = [c \in 1..part.len |-> f[c]]
  BY DEF AreaOf
<1> HIDE DEF f
<1>2. f \in [1..part.len -> S]
  BY <1>1
<1>3. f \in Seq(S)
  BY <1>2, SeqDef
<1>4. DOMAIN f = 1..Len(f) /\ Len(f) \in Nat
  BY <1>3, LenProperties
<1>5. DOMAIN f = 1..part.len
  BY <1>1
<1>6. Len(f) = part.len
  BY <1>4, <1>5
<1>7. QED
  BY <1>1, <1>3, <1>6 DEF f

\* What is known while the layer is in use.
LEMMA UseKnown ==
    ASSUME BoardsOk, SizesOk, LInv, InUse
    PROVE  /\ partOk /\ flashOk /\ memLen = MemSize /\ MemSize \in Nat
           /\ tableLen \in Nat /\ tableLen = Len(table)
           /\ \A i \in 1..tableLen : Fits(table[i], mtds[1].master)
           /\ \A i, j \in 1..tableLen : i # j => Apart(table[i], table[j])
           /\ CachesFor(table)
           /\ mtds[1].master \notin {MEM, Junk}
           /\ pc \notin TempPCs \cup {"fill", "publish", "cache"}
<1>1. partOk /\ pc \notin TempPCs
  BY DEF InUse, TempPCs
<1>2. flashOk /\ pc \notin {"fill", "publish", "cache"} /\ tableLen \in Nat
  BY <1>1 DEF LInv, Stages
<1>3. memLen = MemSize /\ mtds[1].master \notin {MEM, Junk}
  BY <1>2 DEF LInv, Devices, BoardsOk
<1>4. tableLen = Len(table) /\ SoundTable(table) /\ CachesFor(table)
  BY <1>1 DEF LInv, TablesFit
<1>5. QED
  BY <1>1, <1>2, <1>3, <1>4, FalAssumption DEF SoundTable

\* Memory that was given cells keeps them.
LEMMA MemoryGiven ==
    ASSUME memLen \in Nat, memLen > 0, memLen' = memLen,
           mem' = [c \in 0..(memLen - 1) |-> mem'[c]]
    PROVE  Memory' = mem'
<1>1. 0 \in DOMAIN mem'
  OBVIOUS
<1>2. mem' # Null
  BY <1>1 DEF Null
<1>3. QED
  BY <1>2 DEF Memory

\* The cells of one partition are not those of another.
LEMMA ApartCells ==
    ASSUME NEW o \in Nat, NEW l \in Nat, NEW addr \in Nat, NEW size \in Nat, addr + size <= l,
           NEW q \in Nat, NEW m \in Nat, NEW c \in 1..m, o + l <= q \/ q + m <= o
    PROVE  q + c - 1 \notin (o + addr)..(o + addr + size - 1)
OBVIOUS

\* A cell of a partition that ends inside the memory is a cell of the memory.
LEMMA CellInside ==
    ASSUME NEW o \in Nat, NEW l \in Nat, NEW c \in 1..l, NEW n \in Nat, o + l <= n
    PROVE  o + c - 1 \in 0..(n - 1)
OBVIOUS

\* Which cells of a partition a range at an offset of it covers.
LEMMA CellCovered ==
    ASSUME NEW o \in Nat, NEW addr \in Nat, NEW size \in Nat, NEW l \in Nat, NEW c \in 1..l
    PROVE  o + c - 1 \in (o + addr)..(o + addr + size - 1) <=> c \in (addr + 1)..(addr + size)
OBVIOUS

\* A call on a partition, while the layer is in use, is one of its storage.
LEMMA CallStores ==
    ASSUME BoardsOk, SizesOk, LInv, InUse, Within(drv = "loaded" /\ UseNext)
    PROVE  Store!Next \/ UNCHANGED Store!storeVars
<1>1. PICK p \in 1..tableLen, addr \in Addrs, size \in Sizes :
         \/ PartRead(p, addr, size) \/ PartErase(p, addr, size)
         \/ \E v \in Values : PartWrite(p, addr, size, v)
  BY DEF UseNext, Within
<1>2. /\ UNCHANGED <<mtds, memLen, table, tableLen, cache, partOk, pc, drv>>
      /\ CallOn(p, addr, size)
  BY <1>1, CallCases DEF Within, drvVars, devs, flags
<1>3. InUse'
  BY <1>2 DEF InUse
<1> DEFINE part == table[p]
           at   == At(part, addr)
           area == AreaOf(part)
<1>4. /\ addr \in Nat /\ size \in Nat /\ size > 0 /\ addr + size < Word /\ Word \in Nat
      /\ MemSize \in Nat /\ MemSize <= Word
  BY FalAssumption DEF SizesOk
<1>5. /\ Fits(part, mtds[1].master) /\ part.off \in Nat /\ part.len \in Nat
      /\ memLen = MemSize /\ tableLen \in Nat /\ mtds[1].master \notin {MEM, Junk}
      /\ cache # Null => cache[p] = part.dev
      /\ p \in 1..Len(table)
  BY UseKnown DEF Fits, CachesFor
<1>6. Len(area) = part.len
  BY <1>5, AreaShape
<1>7. InBounds(part, addr, size) <=> addr + size <= part.len
  <2>1. (addr + size) % Word = addr + size
    BY <1>4
  <2>2. QED
    BY <2>1 DEF InBounds
<1>8. Areas[p] = area /\ p \in DOMAIN Areas /\ Len(Areas) = tableLen
  BY <1>5 DEF Areas
<1>9. ASSUME mem' = mem
      PROVE  Areas' = Areas
  <2>1. Memory' = Memory
    BY <1>2, <1>9 DEF Memory
  <2>2. QED
    BY <1>2, <2>1 DEF Areas, AreaOf
<1>10. CASE ~InBounds(part, addr, size) /\ Answer(-1, <<>>) /\ UNCHANGED mem
  <2>1. Areas' = Areas
    BY <1>9, <1>10
  <2>2. ~(addr + size <= Len(Areas[p]))
    BY <1>6, <1>7, <1>8, <1>10
  <2>3. Store!Refuse(p, addr, size)
    BY <1>2, <1>3, <1>10, <2>1, <2>2 DEF Store!Refuse, Store!Inside, Areas, Answer
  <2>4. QED
    BY <1>3, <1>8, <2>3 DEF Store!Next, Areas
<1>11. CASE UNCHANGED <<mem, reply>>
  BY <1>2, <1>3, <1>9, <1>11 DEF Store!storeVars, Areas
<1>12. ~(cache # Null /\ cache[p] = Junk)
  BY <1>5 DEF Fits, MEM, Junk
<1>13. CASE Answer(0, <<>>) /\ UNCHANGED mem
  <2>1. Store!NoStorage
    BY <1>2, <1>3, <1>9, <1>13 DEF Store!NoStorage, Areas, Answer
  <2>2. QED
    BY <2>1 DEF Store!Next
<1>14. ASSUME InBounds(part, addr, size), cache # Null, cache[p] = MEM, ~(at + size > memLen),
              \/ mem' = Memory /\ Answer(size, [k \in 1..size |-> Memory[at + k - 1]])
              \/ \E v \in Values \cup {Erased} : mem' = Put(at, size, v) /\ Answer(size, <<>>)
       PROVE  Store!Next
  <2>1. addr + size <= part.len /\ part.dev = MEM /\ part.off + part.len <= MemSize
    BY <1>5, <1>7, <1>14 DEF Fits
  <2>2. at = part.off + addr /\ at \in Nat
    <3>1. part.off + addr < Word /\ part.off + addr \in Nat
      BY <1>4, <1>5, <2>1
    <3>2. QED
      BY <1>4, <3>1 DEF At
  <2>3. memLen > 0 /\ memLen \in Nat /\ HasMemory
    BY <1>4, <1>5, <2>1 DEF LInv
  <2>4. area = [c \in 1..part.len |-> Memory[part.off + c - 1]]
    BY <2>1 DEF AreaOf
  <2> HIDE DEF part, at, area
  <2>5. CASE mem' = Memory /\ Answer(size, [k \in 1..size |-> Memory[at + k - 1]])
    <3>1. Memory' = Memory
      BY <1>2, <2>3, <2>5, MemoryDomain, MemoryGiven
    <3>2. Areas' = Areas
      BY <1>2, <3>1 DEF Areas, AreaOf
    <3>3. SubSeq(area, addr + 1, addr + size) = [k \in 1..size |-> Memory[at + k - 1]]
      <4> DEFINE S   == {area[c] : c \in 1..part.len}
                 sub == SubSeq(area, addr + 1, addr + size)
      <4>1. \A i \in (addr + 1)..(addr + size) : area[i] \in S
        BY <1>4, <1>5, <2>1
      <4>2. /\ sub \in Seq(S)
            /\ Len(sub) = size
            /\ \A i \in 1..size : sub[i] = area[addr + i]
        <5>1. addr + 1 \in Int /\ addr + size \in Int /\ addr + 1 <= addr + size
              /\ (addr + size) - (addr + 1) + 1 = size
              /\ \A i \in 1..size : (addr + 1) + i - 1 = addr + i
          BY <1>4
        <5>2. QED
          BY <4>1, <5>1, SubSeqProperties
      <4>3. sub = [k \in 1..size |-> sub[k]]
        BY <4>2, LenProperties
      <4>4. \A k \in 1..size : sub[k] = Memory[at + k - 1]
        <5>1. SUFFICES ASSUME NEW k \in 1..size PROVE area[addr + k] = Memory[at + k - 1]
          BY <4>2
        <5>2. addr + k \in 1..part.len /\ part.off + (addr + k) - 1 = at + k - 1
          <6>1. part.off \in Nat /\ part.len \in Nat
            BY <1>5
          <6>2. addr \in Nat /\ size \in Nat
            BY <1>4
          <6>3. QED
            BY <2>1, <2>2, <6>1, <6>2
        <5>3. QED
          BY <2>4, <5>2
      <4>5. QED
        BY <4>3, <4>4
    <3>4. Store!Get(p, addr, size)
      <4>1. /\ addr + size <= Len(Areas[p])
            /\ reply' = [ret |-> size, data |-> SubSeq(Areas[p], addr + 1, addr + size)]
        BY <1>6, <1>8, <2>1, <2>5, <3>3 DEF Answer
      <4>2. QED
        BY <1>2, <1>3, <3>2, <4>1 DEF Store!Get, Store!Inside, Areas
    <3>5. QED
      BY <1>3, <1>8, <3>4 DEF Store!Next, Areas
  <2>6. ASSUME NEW v \in Values \cup {Erased}, mem' = Put(at, size, v), Answer(size, <<>>)
        PROVE  Store!Next
    <3>1. Memory' = Put(at, size, v) /\ DOMAIN Memory = 0..(memLen - 1)
      BY <1>2, <2>3, <2>6, MemoryDomain, MemoryGiven DEF Put
    <3>2. \A x \in 0..(memLen - 1) :
             Memory'[x] = IF x \in at..(at + size - 1) THEN v ELSE Memory[x]
      BY <3>1 DEF Put
    <3>3. ASSUME NEW q \in 1..tableLen, q # p
          PROVE  Areas'[q] = Areas[q]
      <4>1. /\ Fits(table[q], mtds[1].master) /\ Apart(table[p], table[q])
            /\ table[q].off \in Nat /\ table[q].len \in Nat
        BY <3>3, UseKnown DEF Fits
      <4>2. Areas'[q] = AreaOf(table[q])' /\ Areas[q] = AreaOf(table[q])
        BY <1>2 DEF Areas
      <4>3. CASE table[q].dev # MEM
        BY <1>2, <4>2, <4>3 DEF AreaOf
      <4>4. CASE table[q].dev = MEM
        <5>1. table[q].off + table[q].len <= MemSize
          BY <4>1, <4>4 DEF Fits
        <5>2. part.off + part.len <= table[q].off \/ table[q].off + table[q].len <= part.off
          BY <2>1, <4>1, <4>4 DEF Apart, part
        <5>3. ASSUME NEW c \in 1..table[q].len
              PROVE  Memory'[table[q].off + c - 1] = Memory[table[q].off + c - 1]
          <6>1. table[q].off + c - 1 \in 0..(memLen - 1)
            BY <1>4, <1>5, <4>1, <5>1, CellInside
          <6>2. table[q].off + c - 1 \notin at..(at + size - 1)
            BY <1>4, <1>5, <2>1, <2>2, <4>1, <5>2, ApartCells
          <6>3. QED
            BY <3>2, <6>1, <6>2
        <5>4. QED
          BY <1>2, <4>2, <4>4, <5>3 DEF AreaOf
      <4>5. QED
        BY <4>3, <4>4
    <3>4. Areas'[p] = [c \in DOMAIN area |-> IF c \in (addr + 1)..(addr + size) THEN v ELSE area[c]]
      <4>1. Areas'[p] = [c \in 1..part.len |-> Memory'[part.off + c - 1]]
        BY <1>2, <2>1 DEF Areas, AreaOf, part
      <4>2. ASSUME NEW c \in 1..part.len
            PROVE  Memory'[part.off + c - 1] =
                      IF c \in (addr + 1)..(addr + size) THEN v ELSE area[c]
        <5>1. part.off + c - 1 \in 0..(memLen - 1)
          BY <1>4, <1>5, <2>1, CellInside
        <5>2. part.off + c - 1 \in at..(at + size - 1) <=> c \in (addr + 1)..(addr + size)
          BY <1>4, <1>5, <2>2, CellCovered
        <5>3. area[c] = Memory[part.off + c - 1]
          BY <2>4
        <5>4. QED
          BY <3>2, <5>1, <5>2, <5>3
      <4>3. DOMAIN area = 1..part.len
        BY <2>4
      <4>4. QED
        BY <4>1, <4>2, <4>3
    <3>5. Areas' = [Areas EXCEPT ![p] =
              [c \in DOMAIN @ |-> IF c \in (addr + 1)..(addr + size) THEN v ELSE @[c]]]
      <4>1. Areas' = [i \in 1..tableLen |-> Areas'[i]] /\ Areas = [i \in 1..tableLen |-> Areas[i]]
        BY <1>2 DEF Areas
      <4>2. QED
        BY <1>8, <3>3, <3>4, <4>1
    <3>6. addr + size <= Len(Areas[p])
      BY <1>6, <1>8, <2>1
    <3>7. Store!Put(p, addr, size, v)
      BY <1>2, <1>3, <2>6, <3>5, <3>6 DEF Store!Put, Store!Inside, Areas, Answer
    <3>8. QED
      BY <1>3, <1>8, <3>7 DEF Store!Next, Areas
  <2>7. QED
    BY <1>14, <2>5, <2>6
<1>15. QED
  BY <1>2, <1>10, <1>11, <1>12, <1>13, <1>14 DEF CallOn

\* Outside of its use the layer promises nothing, and a new table replaces the storages.
LEMMA UseEnds ==
    ASSUME ~InUse \/ ~InUse'
    PROVE  Store!Next \/ UNCHANGED Store!storeVars
<1>1. CASE ~InUse /\ ~InUse'
  BY <1>1 DEF Store!storeVars
<1>2. CASE InUse /\ ~InUse'
  BY <1>2 DEF Store!Next, Store!Retable
<1>3. CASE ~InUse /\ InUse'
  BY <1>3 DEF Store!Next, Store!Retable
<1>4. QED
  BY <1>1, <1>2, <1>3

LEMMA StaysTheSame ==
    ASSUME InUse, InUse', UNCHANGED <<table, tableLen, mem, memLen, reply>>
    PROVE  UNCHANGED Store!storeVars
<1>1. Memory' = Memory
  BY DEF Memory
<1>2. Areas' = Areas
  BY <1>1 DEF Areas, AreaOf
<1>3. QED
  BY <1>2 DEF Store!storeVars, Areas

LEMMA StoreRefines ==
    ASSUME BoardsOk, SizesOk, LInvHolds, [DriverNext]_<<vars, drvVars>>
    PROVE  Store!Next \/ UNCHANGED Store!storeVars
<1>1. SUFFICES ASSUME InUse, InUse' PROVE Store!Next \/ UNCHANGED Store!storeVars
  BY UseEnds
<1>2. drv = "loaded" /\ drv' = "loaded" /\ partOk /\ partOk'
      /\ pc \notin TempPCs /\ pc' \notin TempPCs
  BY <1>1 DEF InUse, TempPCs
<1>3. CASE UNCHANGED <<vars, drvVars>>
  BY <1>1, <1>3, StaysTheSame DEF vars, ram, devs
<1>4. CASE DriverNext
  <2>1. LInv
    BY <1>4 DEF DriverNext, LInvHolds
  <2>2. LayerNext
    BY <1>2, <1>4 DEF DriverNext, AllocRegion, ExitBegin, DriverStep, AddCdev, CreateClass, CreateFile,
       CreateDevice, CallFal, FalResult, DestroyDevice, DestroyClass, DeleteCdev,
       UnregisterRegion, ExitRegion, Acquire
  <2>3. flashOk /\ pc \notin {"fill", "publish", "cache"}
    BY <1>1, <2>1, UseKnown
  <2>4. CASE Within(FlashInit)
    BY <1>1, <2>3, <2>4, StaysTheSame DEF Within, FlashInit, devs, ram
  <2>5. CASE Within(PartInit)
    BY <1>1, <1>2, <2>5, StaysTheSame DEF Within, PartInit, devs
  <2>6. CASE Within(Finish)
    <3>1. UNCHANGED <<table, tableLen, mem, memLen>> /\ reply' = [ret |-> tableLen, data |-> <<>>]
      BY <2>6 DEF Within, Finish, devs, ram
    <3>2. Memory' = Memory
      BY <3>1 DEF Memory
    <3>3. Areas' = Areas
      BY <3>1, <3>2 DEF Areas, AreaOf
    <3>4. tableLen \in Nat
      BY <1>1, <2>1, UseKnown
    <3>5. Len(Areas) = tableLen
      BY <3>4 DEF Areas
    <3>6. Store!InitAgain
      BY <1>1, <3>1, <3>3, <3>5 DEF Store!InitAgain, Areas
    <3>7. QED
      BY <3>6 DEF Store!Next
  <2>7. CASE Within(drv = "loaded" /\ FalInit)
    BY <1>1, <2>7, StaysTheSame DEF Within, FalInit, devs, ram
  <2>8. CASE Within(drv = "loaded" /\ UseNext)
    BY <1>1, <2>1, <2>8, CallStores
  <2>9. CASE Within(Attr \in held /\ ShowBegin) \/ Within(ShowStep)
    BY <1>1, <2>9, StaysTheSame DEF Within, ShowBegin, ShowStep, devs, ram
  <2>10. /\ ~ (TempStep \/ FillTable \/ PublishLen \/ BuildCache)
         /\ ~ \E t \in TempTables : SetTemp(t)
    BY <1>2, <2>3 DEF TempStep, TempCache, TempLen, TempTable, FillTable, PublishLen, BuildCache,
       SetTemp, TempPCs
  <2>11. QED
    BY <2>2, <2>4, <2>5, <2>6, <2>7, <2>8, <2>9, <2>10 DEF LayerNext, InitStep, Within
<1>5. QED
  BY <1>3, <1>4

\* For any board, tables and calls as supposed above, whatever allocations and calls of
\* the kernel fail: a partition reads back what was written to it, a call outside of it
\* is refused, and neither a call on another one nor fal_init, called for every database
\* that is opened, changes it.
THEOREM PartitionsAreSeparate ==
    ASSUME BoardsOk, TempTablesOk, SizesOk
    PROVE  DriverSpec => SeparateAreas
<1>1. DriverInit => Store!Init
  BY DEF DriverInit, Store!Init, InUse
<1>2. LInvHolds /\ [DriverNext]_<<vars, drvVars>> => [Store!Next]_(Store!storeVars)
  BY StoreRefines
<1>3. QED
  BY <1>1, <1>2, LayerInductive, PTL DEF DriverSpec, SeparateAreas, Store!Spec
=============================================================================
