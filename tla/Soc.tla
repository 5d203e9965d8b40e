--------------------------------- MODULE Soc ----------------------------------
(***************************************************************************)
(* A processor of almo1 with its caches, the memory and the frame buffer   *)
(* on the bus, as hard/almo1/almo1_top.cpp connects them.  The processor,  *)
(* the memory and the bus are components of soclib: they are modelled from *)
(* what the cache controller and the frame buffer exchange with them.      *)
(***************************************************************************)
EXTENDS Xcache, FrameBuffer

CONSTANTS
    RamLines,      \* the lines of the memory
    FbLine,        \* the first line of the frame buffer
    Programs       \* what the processor does: [data, ins], sets of accesses

ASSUME SocAssumption == FbLine \in Nat /\ \A l \in RamLines : l \in Nat /\ l < FbLine

VARIABLES
    ram,   \* the automaton of the memory
    mem,   \* the words of the memory
    ref,   \* the value the program gave to each word last
    prog   \* the program of the processor

socvars == <<xvars, fbvars, ram, mem, ref, prog>>

RamAddrs == RamLines \X Words
FbIndex(a) == (a[1] - FbLine) * LineWords + a[2]
FbAddrs == {a \in (FbLine .. FbLine + SurfaceSize) \X Words : FbIndex(a) \in Pixels}

\* What the caches need of the programs: the devices are not cacheable (almo1_top),
\* the pixels are read by whole words and without LL and SC, and a cacheable word that
\* SC writes past the data cache is read by LL only, as in spin_lock(); atomic_add(),
\* the other user of SC, has no caller.
Request == [type : {"READ", "WRITE", "LL", "SC", "INVAL", "SYNC"}, addr : Nat \X Words,
            wdata : Int, be : 1 .. 4]
ASSUME ProgramsAssumption ==
    /\ \A l \in Cached : l \in Nat /\ l < FbLine
    /\ \A p \in Programs :
         /\ p.data \subseteq Request /\ p.ins \subseteq Nat \X Words
         /\ \A r \in p.data : FbIndex(r.addr) \in Pixels =>
               r.type \notin {"LL", "SC"} /\ (r.type = "READ" => r.be = 4)
         /\ \A r, s \in p.data :
               r.type = "SC" /\ s.type = "READ" /\ s.addr = r.addr => r.addr[1] \notin Cached

SocInit ==
    /\ XcacheInit /\ FbInit
    /\ ram = [fsm |-> "IDLE", addr |-> NoReq.addr, op |-> "READ", left |-> 0]
    /\ mem = [a \in RamAddrs |-> 0]
    /\ ref = [a \in RamAddrs \cup FbAddrs |-> 0]
    /\ prog \in Programs

(***************************************************************************)
(* The memory: an access out of it is answered by one error flit.          *)
(***************************************************************************)
RamError == ram.addr \notin RamAddrs
RamRsp ==
    [val |-> ram.fsm = "RSP",
     error |-> RamError,
     eop |-> ram.left = 1,
     data |-> IF RamError \/ ram.op \notin {"READ", "LL"} THEN 0 ELSE mem[ram.addr]]

RamFlits(c) == IF c.op = "READ" /\ c.addr \in RamAddrs THEN (c.plen + 3) \div 4 ELSE 1

RamStep(c, rspack) ==
    \/ /\ ram.fsm \in {"IDLE", "WRITE"} /\ c.val
       /\ ram' = [fsm |-> IF c.eop THEN "RSP" ELSE "WRITE", addr |-> c.addr, op |-> c.op,
                  left |-> RamFlits(c)]
       /\ mem' = IF c.op \in {"WRITE", "SC"} /\ c.be /\ c.addr \in RamAddrs
                 THEN [mem EXCEPT ![c.addr] = c.data] ELSE mem
    \/ /\ ram.fsm = "RSP" /\ rspack
       /\ ram' = [ram EXCEPT !.left = @ - 1, !.addr = <<@[1], @[2] + 1>>,
                             !.fsm = IF ram.left = 1 THEN "IDLE" ELSE @]
       /\ UNCHANGED mem
    \/ /\ IF ram.fsm = "RSP" THEN ~rspack ELSE ~c.val
       /\ UNCHANGED <<ram, mem>>

(***************************************************************************)
(* The bus: a flit passes in a cycle where the bus is granted.             *)
(***************************************************************************)
ToFb(c) == c.addr[1] >= FbLine
FbFlit(c, granted) ==
    [val |-> granted /\ c.val /\ ToFb(c), op |-> c.op, data |-> c.data, be |-> c.be,
     index |-> FbIndex(c.addr), plen |-> c.plen, eop |-> c.eop]
RamFlit(c, granted) == [c EXCEPT !.val = granted /\ @ /\ ~ToFb(c)]
TargetRsp == IF FbRsp.val THEN FbRsp ELSE RamRsp
CmdAck(granted) ==
    /\ granted /\ VciCmd.val
    /\ IF ToFb(VciCmd) THEN FbCmdack ELSE ram.fsm # "RSP"

(***************************************************************************)
(* The processor keeps a request until it is answered.  SC succeeds.       *)
(***************************************************************************)
Processor ==
    /\ dreq' \in IF DRsp.valid \/ dreq = NoReq THEN prog.data \cup {NoReq} ELSE {dreq}
    /\ ireq' \in IF IRsp.valid \/ ireq = NoReq
                 THEN {[NoReq EXCEPT !.type = "READ", !.addr = a] : a \in prog.ins} \cup {NoReq}
                 ELSE {ireq}
    /\ UNCHANGED prog
    /\ ref' = IF DRsp.valid /\ dreq.type \in {"WRITE", "SC"} /\ dreq.addr \in DOMAIN ref
              THEN [ref EXCEPT ![dreq.addr] = dreq.wdata] ELSE ref

\* The display of the frame buffer has no effect on the port and is left out here.
SocStep(granted) ==
    /\ Processor
    /\ Cycle(CmdAck(granted), [TargetRsp EXCEPT !.val = granted /\ @])
    /\ RamStep(RamFlit(VciCmd, granted), granted)
    /\ FbAutomaton(FbFlit(VciCmd, granted), granted)
    /\ UNCHANGED <<timeout, shown>>

SocNext == \E granted \in BOOLEAN : SocStep(granted)
SocSpec == SocInit /\ [][SocNext]_socvars /\ WF_socvars(SocStep(TRUE))

(***************************************************************************)
(* Properties.                                                             *)
(***************************************************************************)
\* A load gives the value the program stored last at this address, whether the
\* word comes from the data cache, from memory while older stores wait in the
\* write buffer, or from an uncached read (transition(), DCACHE and CMD automata).
LoadsSeeTheLastStore ==
    (DRsp.valid /\ ~DRsp.error /\ dreq.type \in {"READ", "LL"} /\ dreq.addr \in DOMAIN ref)
        => DRsp.rdata = ref[dreq.addr]

\* What comes on the port is what the response automaton expects: its assertions
\* hold, and a word is never lost although the port acknowledges it without
\* looking at the fifo (vci_xcache_wrapper.cpp, RSP_* states and rspack).
ResponsesAreExpected == init = NoInitiator => Expected(TargetRsp)

\* An access of the processor is answered, with its data or with an error: the
\* automata of the caches, of the commands and of the responses never wait for
\* each other for ever.
AccessesAreAnswered == dreq # NoReq ~> DRsp.valid
=============================================================================
