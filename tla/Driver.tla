------------------------------- MODULE Driver -------------------------------
(* The kernel module of main.c around the flash abstraction layer: what        *)
(* _driver_init acquires in order, what it gives back when a step fails, and   *)
(* _driver_exit.  Readers of the class attribute "partition" run from the       *)
(* moment the attribute exists; the device owns the memory of the MEM device.  *)
(* Loading again starts from fresh static variables.                           *)
EXTENDS Fal

CONSTANT MayFail       \* the calls of the kernel that may fail

VARIABLES drv,         \* the step of _driver_init or _driver_exit that is next
          held         \* what the module holds of the kernel

drvVars == <<drv, held>>

\* What is held, in the order it is acquired.
Region == "region"   \* alloc_chrdev_region
Cdev   == "cdev"     \* cdev_add
Class  == "class"    \* class_create
Attr   == "attr"     \* class_create_file
Device == "device"   \* device_create

\* A step of _driver_init: it acquires what and goes on, or jumps to a label.
Acquire(step, what, next, label) ==
    /\ drv = step
    /\ \/ held' = held \cup {what} /\ drv' = next
       \/ what \in MayFail /\ drv' = label /\ UNCHANGED held
    /\ UNCHANGED vars

AllocRegion  == Acquire("absent", Region, "cdev", "absent")

\* Mutant: the class is left when its attribute fails.
CreateFile_LeavesClass == Acquire("attr", Attr, "device", "del_cdev")

AddCdev      == Acquire("cdev", Cdev, "class", "del_unregister")
CreateFile   == Acquire("attr", Attr, "device", "undo_class")
CreateDevice == Acquire("device", Device, "fal", "destroy_class")

\* The result of class_create is new_class; the check looks at class, which is
\* NULL at that time, so an error goes on to class_create_file.
CreateClass ==
    /\ drv = "class"
    /\ \/ held' = held \cup {Class} /\ drv' = "attr" /\ UNCHANGED fault
       \/ Class \in MayFail /\ Crash("oops") /\ UNCHANGED <<held, drv>>
    /\ UNCHANGED <<mtds, devs, ram, flags, pc, temp, show, reply, fails>>

\* fal_init is called, and its result compared with < 0.
CallFal   == drv = "fal" /\ FalInit /\ drv' = "wait" /\ UNCHANGED held
FalResult ==
    /\ drv = "wait" /\ pc = "idle"
    /\ drv' = IF reply.ret < 0 THEN "destroy_device" ELSE "loaded"
    /\ UNCHANGED <<held, vars>>

\* The labels at the end of _driver_init fall through; _driver_exit takes the
\* same steps; undo_class is the class_destroy of flashdb_create_class.
After == [undo_class     |-> "del_cdev",
          destroy_device |-> "destroy_class",  exit_device |-> "exit_class",
          destroy_class  |-> "del_cdev",       exit_class  |-> "exit_cdev",
          del_cdev       |-> "del_unregister", exit_cdev   |-> "exit_region",
          del_unregister |-> "absent"]

\* device_destroy frees what was allocated for the device, too.
DestroyDevice ==
    /\ drv \in {"destroy_device", "exit_device"}
    /\ held' = held \ {Device} /\ drv' = After[drv]
    /\ mem' = Null
    /\ UNCHANGED <<mtds, devs, table, tableLen, cache, flags, pc, temp, show, reply, fails, fault>>

\* class_destroy closes the attribute and waits for the readers inside of it.
DestroyClass ==
    /\ drv \in {"undo_class", "destroy_class", "exit_class"}
    /\ \/ Attr \in held /\ held' = held \ {Attr} /\ UNCHANGED drv
       \/ /\ Attr \notin held /\ show.pass = 0
          /\ held' = held \ {Class} /\ drv' = After[drv]
    /\ UNCHANGED vars

DeleteCdev ==
    /\ drv \in {"del_cdev", "exit_cdev"}
    /\ held' = held \ {Cdev} /\ drv' = After[drv]
    /\ UNCHANGED vars

UnregisterRegion ==
    /\ drv = "del_unregister"
    /\ held' = held \ {Region} /\ drv' = After[drv]
    /\ UNCHANGED vars

\* Mutant: _driver_exit forgets device_destroy.
ExitBegin_NoDevice == drv = "loaded" /\ pc = "idle" /\ drv' = "exit_class" /\ UNCHANGED <<held, vars>>

\* _driver_exit, when no call of the layer is under way.
ExitBegin == drv = "loaded" /\ pc = "idle" /\ drv' = "exit_device" /\ UNCHANGED <<held, vars>>

Fresh ==
    /\ virt' = <<>> /\ memLen' = FlashSize /\ nor' = [name |-> NorName, len |-> 0]
    /\ mem' = Null /\ table' = Null /\ tableLen' = 0 /\ cache' = Null
    /\ flashOk' = FALSE /\ partOk' = FALSE /\ falOk' = FALSE
    /\ temp' = <<>> /\ reply' = [ret |-> 0, data |-> <<>>]

\* The last step of _driver_exit ends the module and its variables.
ExitRegion ==
    /\ drv = "exit_region"
    /\ held' = held \ {Region} /\ drv' = "absent"
    /\ Fresh
    /\ UNCHANGED <<mtds, pc, show, fails, fault>>

\* The layer as the module lets it be used: databases after the load, readers
\* while the attribute is there.
Within(A) == A /\ UNCHANGED drvVars

LayerNext ==
    \/ Within(InitStep \/ TempStep)
    \/ Within(drv = "loaded" /\ (FalInit \/ UseNext \/ \E t \in TempTables : SetTemp(t)))
    \/ Within(Attr \in held /\ ShowBegin)
    \/ Within(ShowStep)

DriverStep ==
    \/ AddCdev \/ CreateClass \/ CreateFile \/ CreateDevice \/ CallFal \/ FalResult
    \/ DestroyDevice \/ DestroyClass \/ DeleteCdev \/ UnregisterRegion \/ ExitRegion

DriverNext == fault = "none" /\ (AllocRegion \/ DriverStep \/ ExitBegin \/ LayerNext)

DriverInit == InitState /\ drv = "absent" /\ held = {}

\* The kernel runs a load or an unload to its end, and a reader.
DriverSpec ==
    /\ DriverInit /\ [][DriverNext]_<<vars, drvVars>>
    /\ WF_<<vars, drvVars>>(fault = "none" /\ (DriverStep \/ Within(InitStep \/ TempStep)))
    /\ WF_<<vars, drvVars>>(fault = "none" /\ Within(ShowStep))

(* ------------------------------- properties ------------------------------- *)

\* A module that is not loaded, because it was removed or its load failed at
\* any step, holds nothing and nothing of it runs (the labels of _driver_init).
NothingLeft == drv = "absent" => held = {} /\ show.pass = 0 /\ mem = Null

\* What is built on something is released before it, by every path, and the
\* memory of the MEM device never outlives the device that owns it.
BuiltOn == {<<Cdev, Region>>, <<Class, Cdev>>, <<Attr, Class>>, <<Device, Class>>, <<Device, Cdev>>}

ReleasedInOrder == /\ \A p \in BuiltOn : p[1] \in held => p[2] \in held
                   /\ mem # Null => Device \in held

\* The partitions as storages of their own, while the module is loaded.
InUse == drv = "loaded" /\ partOk /\ pc \notin {"temp_cache", "temp_len", "temp_table"}
AreaOf(part) ==
    [c \in 1..part.len |-> IF part.dev = MEM THEN Memory[part.off + c - 1] ELSE Junk]

Store == INSTANCE FalStore WITH
            tab    <- IF InUse THEN <<table, tableLen>> ELSE <<>>,
            areas  <- IF InUse THEN [i \in 1..tableLen |-> AreaOf(table[i])] ELSE <<>>,
            answer <- IF InUse THEN reply ELSE [ret |-> 0, data |-> <<>>]

\* Reads return what was written to that partition and nothing else changes it,
\* and fal_init, which every database calls when it is opened, changes none: the
\* layer implements separate storages.
SeparateAreas == Store!Spec

\* While allocations fail fal_init leaves halves of its work behind; a database
\* that calls it again and again has a usable layer in the end.
UsableInTheEnd == []<>(pc = "flash") => <>(Usable \/ fault # "none")

\* A load that succeeds leaves a usable layer (main.c:127 reports the failure
\* of fal_init).
LoadedUsable == drv = "loaded" /\ pc = "idle" => tableLen > 0

\* A failure of class_create is reported and the load undone (main.c:42).
ClassFailureHandled == fault = "none"
=============================================================================
