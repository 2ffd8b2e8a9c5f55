------------------------------ MODULE MCDriver ------------------------------
(* Boards, partition tables and failures for the kernel module.               *)
EXTENDS Driver

Mtd(name, master, off, len) == [name |-> name, master |-> master, off |-> off, len |-> len]

Whole == Mtd("nor", "spi0.0", 0, 8)
Boot  == Mtd("boot", "spi0.0", 0, 3)
Data  == Mtd("data", "spi0.0", 3, 5)
Own   == Mtd("flashdb", "spi0.0", 3, 5)
Other == Mtd("nand", "nand0", 0, 6)

MasterSizes == [m \in {"spi0.0", "nand0"} |-> IF m = "nand0" THEN 6 ELSE 8]

\* Boards whose first MTD device belongs to the chosen master.
Boards  == {<<Whole>>, <<Boot, Other, Data>>}
OwnPart == {<<Boot, Own>>}
OtherFirst == {<<Other, Boot>>}
NoMtd   == {<<>>}

Part(name, dev, off, len) == [name |-> name, dev |-> dev, off |-> off, len |-> len]

\* Two databases on the MEM device, and a table with a NOR partition before one.
TwoParts == {<<Part("kv", MEM, 0, 2), Part("ts", MEM, 2, 2)>>}
Tables   == TwoParts \cup {<<Part("boot", "spi0.0", 0, 3), Part("kv", MEM, 1, 3)>>}
NoTables == {}

\* What may fail of the kernel.
Most      == {Region, Cdev, Attr, Device}
ClassOnly == {Class}
Nothing   == {}
=============================================================================
