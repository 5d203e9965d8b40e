------------------------------ MODULE Platform --------------------------------
(***************************************************************************)
(* From the device tree to the interrupt routines: soc_init() (hal/soc/    *)
(* almo1-mips/soc.c) turns the nodes of the tree into devices              *)
(* (kernel/kdev.c) and fills the interrupt vector (kernel/kirq.c);         *)
(* isrcall() then runs the routine of the device that raised its line, as  *)
(* the platform wires them.  The addresses that a program gives for a copy *)
(* by the DMA are tested by kernel/ksyscalls.c.                            *)
(*                                                                         *)
(* The boot of QEMU virt calls functions that the repository does not      *)
(* define (icu_alloc(), chardev_alloc(), timer_alloc() and their _get())   *)
(* and leaves out the argument minor of the drivers: what it is meant to   *)
(* do is external here, and no property is about it.                       *)
(***************************************************************************)
EXTENDS Integers, Sequences, FiniteSets

CONSTANTS
    Trees,       \* device trees: sequences of nodes [compatible, reg, interrupts]
    Wiring,      \* almo1_top.cpp, QEMU: the pin of the ICU that each device drives
    MaxDevices, MaxMinor,  \* bounds: the devices allocated after the boot, their numbers
    WordSize,    \* number of values of a 32-bit word
    Sizes_       \* bound: the lengths that a program gives

ASSUME PlatformAssumption ==
    /\ MaxDevices \in Nat /\ MaxMinor \in Nat /\ WordSize \in Nat /\ WordSize % 2 = 0
    /\ Sizes_ \subseteq 0 .. WordSize - 1

VARIABLES
    tree,      \* the tree the bootloader gives to kinit()
    todo,      \* the nodes that soc_init() has not reached, by their number
    devList,   \* DevList: devices [tag, minor, base]
    vector,    \* InterruptVector: [handler, arg] of each irq registered
    mask,      \* the irqs unmasked in the ICU
    raised,    \* the devices, by their base, that ask for an interrupt
    touched,   \* the addresses that the last copy read and wrote
    fault      \* the device that the kernel lacked when it crashed, or "none"

pvars == <<tree, todo, devList, vector, mask, raised, touched, fault>>

(***************************************************************************)
(* The drivers of the two platforms: when soc_init() looks for their nodes *)
(* (step), the tag of their devices, their interrupt routine, and what the *)
(* interrupt goes through: a controller, or nothing but the processor.     *)
(***************************************************************************)
Almo1Driver ==
    [c \in {"soclib,icu", "soclib,tty", "soclib,bd", "soclib,dma", "soclib,timer"} |->
        CASE c = "soclib,icu"   -> [step |-> 1, tag |-> "ICU_DEV", isr |-> "none", by |-> "none"]
          [] c = "soclib,tty"   -> [step |-> 2, tag |-> "CHAR_DEV", isr |-> "soclib_tty_isr", by |-> "icu"]
          [] c = "soclib,bd"    -> [step |-> 3, tag |-> "BLOCK_DEV", isr |-> "soclib_bd_isr", by |-> "icu"]
          [] c = "soclib,dma"   -> [step |-> 4, tag |-> "DMA_DEV", isr |-> "none", by |-> "none"]
          [] c = "soclib,timer" -> [step |-> 5, tag |-> "TIMER_DEV", isr |-> "soclib_timer_isr", by |-> "icu"]]
VirtDriver ==
    [c \in {"riscv,plic0", "ns16550a", "sifive,clint0"} |->
        CASE c = "riscv,plic0"   -> [step |-> 1, tag |-> "ICU_DEV", isr |-> "none", by |-> "none"]
          [] c = "ns16550a"      -> [step |-> 2, tag |-> "CHAR_DEV", isr |-> "ns16550_isr", by |-> "plic"]
          [] c = "sifive,clint0" -> [step |-> 3, tag |-> "TIMER_DEV", isr |-> "clint_timer_isr", by |-> "cpu"]]
Driver ==
    [c \in DOMAIN Almo1Driver \cup DOMAIN VirtDriver |->
        IF c \in DOMAIN Almo1Driver THEN Almo1Driver[c] ELSE VirtDriver[c]]

\* The nodes that soc_init() reaches: of the block devices, only the first.  On QEMU
\* virt none is reached without a controller, as icu_get() is meant.
soc_init(t) ==
    {n \in DOMAIN t :
        /\ t[n].compatible \in DOMAIN Driver
        /\ t[n].compatible \in DOMAIN VirtDriver => \E m \in DOMAIN t : t[m].compatible = "riscv,plic0"
        /\ t[n].compatible = "soclib,bd" => \A m \in 1 .. n - 1 : t[m].compatible # "soclib,bd"}

\* What a platform is: nodes whose interrupt is the pin that their device drives, and
\* every device has its own base and pin.
ASSUME TreesAssumption ==
    \A t \in Trees : \A n \in soc_init(t) :
        /\ t[n].reg \in Nat \ {0}
        /\ Driver[t[n].compatible].by = "icu" => Wiring[t[n].reg] = t[n].interrupts
        /\ \A m \in soc_init(t) \ {n} :
              /\ t[m].reg # t[n].reg
              /\ Driver[t[m].compatible].by # "none" /\ Driver[t[n].compatible].by # "none" =>
                    t[m].interrupts # t[n].interrupts

\* soc_init() of almo1 and of QEMU virt: one kind of device after the other, and
\* the nodes of a kind in the order of the tree.
Before(n, m) ==
    LET step(k) == Driver[tree[k].compatible].step
    IN  step(n) < step(m) \/ (step(n) = step(m) /\ n <= m)

PlatformInit ==
    /\ tree \in Trees
    /\ todo = soc_init(tree)
    /\ devList = <<>>
    /\ vector = [q \in {} |-> 0]
    /\ mask = {} /\ raised = {} /\ touched = {} /\ fault = "none"

(***************************************************************************)
(* The registry of devices.                                                *)
(***************************************************************************)
Tagged(tag) == {n \in DOMAIN devList : devList[n].tag = tag}
\* Mutant: the number of devices is taken for the next free minor.
dev_next_minor_count(tag) == Cardinality(Tagged(tag))
dev_next_minor(tag) ==
    IF Tagged(tag) = {} THEN 0
    ELSE devList[CHOOSE n \in Tagged(tag) : \A m \in Tagged(tag) : m <= n].minor + 1

dev_alloc(tag, base) ==
    devList' = Append(devList, [tag |-> tag, minor |-> dev_next_minor(tag), base |-> base])

dev_get(tag, minor) ==
    LET found == {n \in Tagged(tag) : devList[n].minor = minor}
    IN  IF found = {} THEN {} ELSE {devList[CHOOSE n \in found : \A m \in found : n <= m]}

\* The device is unlinked: it is the one at place i of the list.
dev_free(i) ==
    devList' = [n \in 1 .. Len(devList) - 1 |-> devList[IF n < i THEN n ELSE n + 1]]

(***************************************************************************)
(* The boot.  A step is one node: allocation, initialisation of the        *)
(* driver, unmasking of the interrupt, registration of its routine.        *)
(***************************************************************************)
\* Mutant: the lines are numbered in the order of the devices.
get_irq_order(n) == Len(devList)
get_irq(n) == n.interrupts

register_interrupt(irq, isr, base) ==
    vector' = [q \in DOMAIN vector \cup {irq} |->
                 IF q = irq THEN [handler |-> isr, arg |-> base] ELSE vector[q]]

\* plic_unmask(): the word of the enable bits is found with irq / 32 bytes, not words.
plic_unmask(irq) == 8 * (irq \div 32) + (irq % 32)
icu_unmask(n) ==
    mask' = mask \cup {IF Driver[n.compatible].by = "plic" THEN plic_unmask(get_irq(n)) ELSE get_irq(n)}

\* A node of almo1.  Its device is allocated before the controller is used.  The data
\* of a device is an array inside of it, so that icudev_get() of a missing device is
\* not NULL but NULL plus an offset: the test of soc_*_init() never fires, and the
\* kernel calls the driver of a controller that does not exist.
InitNode(n) ==
    /\ fault = "none" /\ tree[n].compatible \in DOMAIN Almo1Driver
    /\ \A m \in todo : Before(n, m)
    /\ todo' = todo \ {n}
    /\ LET drv == Driver[tree[n].compatible]
       IN  /\ dev_alloc(drv.tag, tree[n].reg)
           /\ IF drv.by = "none" THEN UNCHANGED <<mask, vector, fault>>
              ELSE IF dev_get("ICU_DEV", 0) = {} THEN fault' = "icu" /\ UNCHANGED <<mask, vector>>
              ELSE /\ icu_unmask(tree[n])
                   /\ register_interrupt(get_irq(tree[n]), drv.isr, tree[n].reg)
                   /\ UNCHANGED fault
    /\ UNCHANGED <<tree, raised, touched>>

\* A node of QEMU virt, as its calls are meant.
InitVirtNode(n) ==
    /\ fault = "none" /\ tree[n].compatible \in DOMAIN VirtDriver
    /\ \A m \in todo : Before(n, m)
    /\ todo' = todo \ {n}
    /\ LET drv == Driver[tree[n].compatible]
       IN  /\ dev_alloc(drv.tag, tree[n].reg)
           /\ IF drv.by # "plic" THEN UNCHANGED <<mask, vector>>
              ELSE /\ icu_unmask(tree[n])
                   /\ register_interrupt(get_irq(tree[n]), drv.isr, tree[n].reg)
    /\ UNCHANGED <<tree, raised, touched, fault>>

(***************************************************************************)
(* Interrupts.                                                             *)
(***************************************************************************)
Clints == {tree[n].reg : n \in {m \in DOMAIN tree : tree[m].compatible = "sifive,clint0"}}
Raise(b) ==
    /\ fault = "none" /\ b \in DOMAIN Wiring \cup Clints
    /\ raised' = raised \cup {b}
    /\ UNCHANGED <<tree, todo, devList, vector, mask, touched, fault>>

\* The ICU gives the lowest irq that is active.
Active == {Wiring[b] : b \in raised \cap DOMAIN Wiring} \cap mask
icu_get_highest == CHOOSE q \in Active : \A p \in Active : q <= p

\* The routine of a driver lowers the line of its device.
Acknowledged(b) == raised \ {b}
route_interrupt(irq) ==
    raised' = IF irq \in DOMAIN vector THEN Acknowledged(vector[irq].arg) ELSE raised

Running == todo = {} /\ fault = "none"
OnVirt == \E n \in DOMAIN tree : tree[n].compatible = "riscv,plic0"
\* icudev_get(cpuid()) is not NULL without a controller either.
isrcall ==
    /\ Running /\ Active # {} /\ ~OnVirt
    /\ IF dev_get("ICU_DEV", 0) = {} THEN fault' = "icu" /\ UNCHANGED raised
       ELSE route_interrupt(icu_get_highest) /\ UNCHANGED fault
    /\ UNCHANGED <<tree, todo, devList, vector, mask, touched>>

\* The PLIC: the number 0 says that there is nothing to claim, and a lower number
\* goes first, as every priority is 1.
plic_get_highest ==
    IF Active \ {0} = {} THEN 0
    ELSE CHOOSE q \in Active \ {0} : \A p \in Active \ {0} : q <= p

\* isrcall() of QEMU virt when mcause is 11: the interrupt is claimed, its routine
\* runs, and the acknowledgement lets the PLIC present it again.
isrcall_external ==
    /\ Running /\ Active # {} /\ OnVirt
    /\ route_interrupt(plic_get_highest)
    /\ UNCHANGED <<tree, todo, devList, vector, mask, touched, fault>>

\* clint_timer_set_tick() writes the low words only: its line goes down, unless the
\* counter has gone through 2^32, when it stays up.
clint_timer_set_tick(b) == raised' \in {raised, raised \ {b}}
clint_timer_isr(timer) == clint_timer_set_tick(timer.base)

\* isrcall() of QEMU virt when mcause is 7: the routine of timer 0, without a vector.
isrcall_timer ==
    /\ Running /\ raised \cap Clints # {}
    /\ \E timer \in dev_get("TIMER_DEV", 0) : clint_timer_isr(timer)
    /\ UNCHANGED <<tree, todo, devList, vector, mask, touched, fault>>

\* A driver that comes and goes: unregister_interrupt() and dev_free(), dev_alloc().
Remove(i) ==
    /\ Running
    /\ dev_free(i)
    /\ vector' = [q \in {p \in DOMAIN vector : vector[p].arg # devList[i].base} |-> vector[q]]
    /\ UNCHANGED <<tree, todo, mask, raised, touched, fault>>
Add(tag) ==
    /\ Running /\ Len(devList) < MaxDevices /\ dev_next_minor(tag) <= MaxMinor
    /\ dev_alloc(tag, 0)
    /\ UNCHANGED <<tree, todo, vector, mask, raised, touched, fault>>

(***************************************************************************)
(* dma_memcpy_user(): the upper half of the addresses is the kernel's.     *)
(***************************************************************************)
KernelBase == WordSize \div 2
Plus(a, n) == (a + n) % WordSize
\* Mutant: the length is not tested, and a sum may wrap.
Refused_ends(dest, src, n) ==
    \/ src >= KernelBase \/ dest >= KernelBase
    \/ Plus(src, n) >= KernelBase \/ Plus(dest, n) >= KernelBase
Refused(dest, src, n) ==
    \/ src >= KernelBase \/ dest >= KernelBase
    \/ Plus(src, n) >= KernelBase \/ Plus(dest, n) >= KernelBase
    \/ n >= KernelBase
Area(dest, src, n) == {Plus(a, k) : a \in {dest, src}, k \in 0 .. n - 1}

\* dmadev_get(): the data of the device, which is NULL plus an offset without one.
NULL_ == "NULL"
dmadev_get(minor) == IF dev_get("DMA_DEV", minor) = {} THEN "NULL + offset" ELSE "dma"

\* The copy by the processor, of four bytes for every one that was tested, is for a
\* pointer that dmadev_get() never gives.
dma_memcpy_user(dest, src, n) ==
    LET dma == dmadev_get(0)
    IN /\ Running
       /\ touched' = IF Refused(dest, src, n) THEN {}
                     ELSE IF dma = NULL_ THEN Area(dest, src, 4 * n)
                     ELSE IF dma = "dma" THEN Area(dest, src, n) ELSE {}
       /\ fault' = IF ~Refused(dest, src, n) /\ dma \notin {NULL_, "dma"} THEN "dma" ELSE fault
       /\ UNCHANGED <<tree, todo, devList, vector, mask, raised>>

Boot == \E n \in todo : InitNode(n) \/ InitVirtNode(n)
Interrupts ==
    \/ isrcall \/ isrcall_external \/ isrcall_timer
    \/ \E n \in DOMAIN tree : Raise(tree[n].reg)
Registry == \/ \E i \in DOMAIN devList : Remove(i)
            \/ \E tag \in {"CHAR_DEV", "TIMER_DEV"} : Add(tag)
Copies == \E dest, src \in 0 .. WordSize - 1, n \in Sizes_ : dma_memcpy_user(dest, src, n)

PlatformNext == Boot \/ Interrupts \/ Registry \/ Copies
PlatformSpec == PlatformInit /\ [][PlatformNext]_pvars

(***************************************************************************)
(* Properties.                                                             *)
(***************************************************************************)
\* Two devices never answer to the same name, whatever was removed before
\* (dev_next_minor(), dev_get()).
DevicesHaveOneName ==
    /\ \A n \in DOMAIN devList : dev_get(devList[n].tag, devList[n].minor) = {devList[n]}
    /\ \A m, n \in DOMAIN devList :
         (devList[m].tag = devList[n].tag /\ devList[m].minor = devList[n].minor) => m = n

\* On almo1 an interrupt runs the routine of the device that raised it, with this
\* device as its argument, and every device that was initialised and not removed has
\* its routine in the vector and its line unmasked: the tree, the list, the vector,
\* the controller and the wires agree, in whatever order devices came and went
\* (soc_*_init(), register_interrupt(), isrcall()).
InterruptsFindTheirDevice ==
    ~OnVirt =>
        /\ \A q \in DOMAIN vector :
              /\ q \in mask
              /\ Wiring[vector[q].arg] = q
              /\ \E n \in DOMAIN devList : devList[n].base = vector[q].arg
        /\ fault # "icu" => \A n \in soc_init(tree), d \in DOMAIN devList :
              /\ devList[d].base = tree[n].reg
              /\ Driver[tree[n].compatible].by = "icu"
              => /\ tree[n].interrupts \in DOMAIN vector
                 /\ vector[tree[n].interrupts] =
                       [handler |-> Driver[tree[n].compatible].isr, arg |-> tree[n].reg]

\* A copy asked by a program never touches the kernel, although the sum of an
\* address and a length wraps around, and whatever devices there are
\* (dma_memcpy_user()).
UserCopiesAvoidTheKernel == \A a \in touched : a < KernelBase

\* soc_init() gives up on a tree without a controller (soc_tty_init(): "Check that the
\* ICU has already been initialized", "-1 if the initialization failed").
BootNeedsItsController == fault # "icu"

\* A copy without a DMA is done by the processor (dma_memcpy_user(): "If no DMA is
\* available, do a reguler memcpy").
CopiesNeedNoDma == fault # "dma"
=============================================================================
