------------------------------ MODULE MCDevices ------------------------------
(***************************************************************************)
(* The devices and the drivers on small instances, one group of them per   *)
(* behaviour: a terminal and its readers ("tty"), the device registry at   *)
(* boot with interrupts and user copies ("irq") or with drivers that come  *)
(* and go ("reg"), a block device ("bd"), the processor's cache with the   *)
(* bus and its targets ("soc"), the frame buffer alone ("fb").             *)
(***************************************************************************)
EXTENDS Terminal, Platform, BlockDev, Soc, TLC

CONSTANT Groups \* the groups of the run
VARIABLE part   \* the group that runs

deviceVars == <<tvars, pvars, bvars, socvars, init, part>>

MCThreads == 0 .. 1

\* The tree of almo1, a smaller one in another order, and the one of QEMU virt.
DtNode(c, base, irq) == [compatible |-> c, reg |-> base, interrupts |-> irq]
MCTrees ==
    {<<DtNode("soclib,tty", 1, 10), DtNode("soclib,tty", 2, 11), DtNode("soclib,dma", 3, 9),
       DtNode("soclib,icu", 4, 0), DtNode("soclib,timer", 5, 0), DtNode("soclib,bd", 6, 8)>>,
     <<DtNode("soclib,timer", 5, 0), DtNode("soclib,tty", 1, 10), DtNode("soclib,icu", 4, 0)>>,
     <<DtNode("soclib,timer", 5, 0), DtNode("soclib,tty", 1, 10)>>,
     <<DtNode("sifive,clint0", 7, 0), DtNode("ns16550a", 8, 10), DtNode("riscv,plic0", 9, 0),
       DtNode("simple-bus", 0, 0)>>}
MCTreesIcu == {t \in MCTrees : \E n \in DOMAIN t : t[n].compatible = "soclib,icu"}
MCWiring == (8 :> 10) @@ (1 :> 10) @@ (2 :> 11) @@ (3 :> 9) @@ (5 :> 0) @@ (6 :> 8)

\* Programs that share a line, a set or the write buffer between their accesses.
DoLoad(a)     == [type |-> "READ", addr |-> a, wdata |-> 0, be |-> 4]
DoStore(a, v) == [type |-> "WRITE", addr |-> a, wdata |-> v, be |-> 4]
Do(t, a, v, b) == [type |-> t, addr |-> a, wdata |-> v, be |-> b]
MCPrograms ==
    {[data |-> {DoLoad(<<0, 0>>), DoLoad(<<1, 0>>), DoStore(<<0, 0>>, 1), DoStore(<<0, 1>>, 1)}, ins |-> {}],
     [data |-> {DoLoad(<<0, 0>>), DoStore(<<0, 0>>, 1), DoStore(<<0, 0>>, 0), Do("INVAL", <<0, 0>>, 0, 4)},
      ins |-> {}],
     [data |-> {DoLoad(<<0, 0>>), DoStore(<<0, 0>>, 1), DoStore(<<1, 0>>, 1)}, ins |-> {}],
     [data |-> {DoLoad(<<2, 0>>), DoStore(<<2, 0>>, 1), DoStore(<<0, 1>>, 1), DoLoad(<<0, 1>>)}, ins |-> {}],
     [data |-> {DoLoad(<<0, 0>>), DoLoad(<<6, 0>>), DoStore(<<0, 0>>, 1), Do("SYNC", <<0, 0>>, 0, 4)},
      ins |-> {<<1, 0>>}],
     [data |-> {DoLoad(<<0, 0>>)}, ins |-> {<<0, 0>>, <<1, 0>>, <<9, 0>>}],
     [data |-> {DoLoad(<<4, 0>>), DoStore(<<4, 0>>, 1), DoStore(<<4, 1>>, 1), DoStore(<<5, 0>>, 1)}, ins |-> {}],
     [data |-> {Do("LL", <<2, 0>>, 0, 4), Do("SC", <<2, 0>>, 1, 4), Do("READ", <<9, 0>>, 0, 1)},
      ins |-> {<<2, 0>>}]}

\* Packets to the surface, to the registers and outside, whole and broken.
CmdFlit(op, w, v, plen, last_flit) ==
    [val |-> TRUE, op |-> op, index |-> w, data |-> v, be |-> TRUE, plen |-> plen, eop |-> last_flit]
Alone(op, w, v) == <<CmdFlit(op, w, v, 4, TRUE)>>
Pair(w1, v1, w2, v2) == <<CmdFlit("WRITE", w1, v1, 8, FALSE), CmdFlit("WRITE", w2, v2, 8, TRUE)>>
MCPackets ==
    {<<CmdFlit("READ", 0, 0, 8, TRUE)>>, <<CmdFlit("READ", 7, 0, 8, TRUE)>>,
     Alone("READ", 1, 0), Alone("READ", 2, 0), Alone("READ", 3, 0), Alone("READ", 5, 0),
     Alone("WRITE", 0, 1), Alone("WRITE", 2, 0), Alone("LL", 2, 0),
     Pair(0, 0, 1, 1), Pair(0, 1, 2, 1), Pair(1, 1, 2, 0), Pair(2, 0, 3, 0), Pair(7, 0, 8, 0),
     <<CmdFlit("WRITE", 0, 1, 8, FALSE), CmdFlit("WRITE", 2, 1, 8, FALSE), CmdFlit("WRITE", 3, 1, 8, TRUE)>>}

\* What a group does not use has one initial value.
DevicesInit ==
    /\ part \in Groups
    /\ TerminalInit /\ PlatformInit /\ BlockDevInit /\ SocInit
    /\ IF part = "fb" THEN InitiatorInit ELSE init = NoInitiator
    /\ part # "tty" \/ chip = "ns16550" => readers = {0}
    /\ part # "tty" => chip = "soclib_tty"
    /\ part \notin {"irq", "reg"} => Len(tree) = 3
    /\ part # "soc" => prog.ins = {<<2, 0>>}

NotTty == UNCHANGED <<pvars, bvars, socvars, init, part>>
NotSoc == UNCHANGED <<tvars, pvars, bvars, init, part>>

DevicesNext ==
    \/ part = "tty" /\ TerminalNext /\ NotTty
    \/ part = "soc" /\ SocNext /\ NotSoc
    \/ /\ part \in {"irq", "reg"}
       /\ Boot \/ (part = "irq" /\ (Interrupts \/ Copies)) \/ (part = "reg" /\ Registry)
       /\ UNCHANGED <<tvars, bvars, socvars, init, part>>
    \/ part = "bd" /\ BlockDevNext /\ UNCHANGED <<tvars, pvars, socvars, init, part>>
    \/ part = "fb" /\ FbNext /\ UNCHANGED <<tvars, pvars, bvars, xvars, ram, mem, ref, prog, part>>

\* The fairness of Terminal and of Soc.
DevicesSpec ==
    /\ DevicesInit /\ [][DevicesNext]_deviceVars
    /\ SF_deviceVars(part = "tty" /\ Kernel /\ NotTty)
    /\ WF_deviceVars(part = "tty" /\ tty_isr /\ NotTty)
    /\ SF_deviceVars(part = "tty" /\ tick_event /\ NotTty)
    /\ WF_deviceVars(part = "soc" /\ SocStep(TRUE) /\ NotSoc)
=============================================================================
