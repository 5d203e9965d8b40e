------------------------------- MODULE Xcache --------------------------------
(***************************************************************************)
(* The cache controller that stands between a MIPS core and the bus of     *)
(* almo1 (hard/almo1/vci_xcache_wrapper): the instruction cache, the data  *)
(* cache, the write buffer and the two automata that send commands on the  *)
(* VCI port and receive responses from it.                                 *)
(*                                                                         *)
(* One step is one clock cycle: every automaton reads the registers of the *)
(* current state (sc_signal) and writes those of the next one.  An address *)
(* is a pair <<line, word>>; both caches are direct mapped, as almo1_top   *)
(* builds them by default.  Write accesses cover a whole word; the byte    *)
(* enable of a read only fixes the length of the command.                  *)
(***************************************************************************)
EXTENDS Integers, Sequences, FiniteSets

CONSTANTS
    LineWords,   \* m_dcache_words, m_icache_words: words in a cache line
    Sets,        \* number of sets of each cache
    Cached       \* the lines that m_cacheability_table calls cacheable

ASSUME XcacheAssumption == LineWords \in Nat \ {0} /\ Sets \in Nat \ {0}

VARIABLES
    dreq, ireq,      \* m_dreq, m_ireq: the requests of the processor
    d, i,            \* registers r_dcache_*, r_icache_* of the two automata
    dcache, icache,  \* r_dcache, r_icache
    wbuf,            \* r_wbuf
    req,             \* the flip-flops r_*_req that are set
    cmd, rsp,        \* registers r_vci_cmd_*, r_vci_rsp_*
    fifo             \* r_vci_rsp_fifo_data and r_vci_rsp_fifo_ins

xvars == <<dreq, ireq, d, i, dcache, icache, wbuf, req, cmd, rsp, fifo>>

Words == 0 .. LineWords - 1
NoLine == -1
NoReq == [type |-> "NONE", addr |-> <<NoLine, 0>>, wdata |-> 0, be |-> 4]
NoRsp == [valid |-> FALSE, error |-> FALSE, rdata |-> 0]
Answer(v) == [valid |-> TRUE, error |-> FALSE, rdata |-> v]
BusError == [valid |-> TRUE, error |-> TRUE, rdata |-> 0]
EmptyWbuf == [line |-> NoLine, data |-> [w \in {} |-> 0]]
EmptyCache == [s \in 0 .. Sets - 1 |-> [line |-> NoLine, data |-> [w \in Words |-> 0]]]

\* The registers of the data cache for a request r.
DataRegs(fsm, cacheable, r) ==
    [fsm |-> fsm, word |-> 0, cacheable |-> cacheable,
     type |-> r.type, addr |-> r.addr, wdata |-> r.wdata, be |-> r.be]

XcacheInit ==
    /\ dreq = NoReq /\ ireq = NoReq
    /\ d = DataRegs("IDLE", FALSE, NoReq)
    /\ i = [fsm |-> "IDLE", word |-> 0, addr |-> NoReq.addr]
    /\ dcache = EmptyCache /\ icache = EmptyCache
    /\ wbuf = EmptyWbuf
    /\ req = {}
    /\ cmd = [fsm |-> "IDLE", cpt |-> 0, max |-> 0]
    /\ rsp = [fsm |-> "IDLE", cpt |-> 0, error |-> {}]
    /\ fifo = [DATA |-> <<>>, INS |-> <<>>]

(***************************************************************************)
(* The caches and the write buffer (GenericCache, WriteBuffer of soclib).  *)
(***************************************************************************)
SetOf(a) == a[1] % Sets
Hit(cache, a) == cache[SetOf(a)].line = a[1]
Read(cache, a) == cache[SetOf(a)].data[a[2]]
WriteWord(cache, a, w, v) == [cache EXCEPT ![SetOf(a)].data[w] = v]
Inval(cache, a) == [cache EXCEPT ![SetOf(a)].line = NoLine]
Tag(cache, a) == [cache EXCEPT ![SetOf(a)].line = a[1]]

\* The buffer holds at most one line.
wok(a) == wbuf.line \in {NoLine, a[1]}
MinWord(S) == CHOOSE w \in S : \A v \in S : w <= v
MaxWord(S) == CHOOSE w \in S : \A v \in S : w >= v

(***************************************************************************)
(* The data cache.  A request is looked at in IDLE, and in WRITE_REQ once  *)
(* the previous write could be posted in the buffer.                       *)
(***************************************************************************)
Posts == d.fsm = "WRITE_REQ" /\ "DATA_WRITE" \notin req /\ wok(d.addr)
Accepts == d.fsm = "IDLE" \/ Posts

\* LL, SC and the cache instructions are never cacheable.
Cacheable(r) == r.type \in {"READ", "WRITE"} /\ r.addr[1] \in Cached
ReadMiss(r) == r.type = "READ" /\ Cacheable(r) /\ ~Hit(dcache, r.addr)
Uncached(r) == r.type \in {"READ", "LL", "SC"} /\ ~Cacheable(r)

\* m_drsp: the answer to the processor in this cycle.
DRsp ==
    CASE Accepts /\ dreq.type = "READ" /\ Cacheable(dreq) /\ Hit(dcache, dreq.addr) ->
           Answer(Read(dcache, dreq.addr))
      [] Accepts /\ dreq.type \in {"WRITE", "SYNC"} -> Answer(0)
      [] d.fsm \in {"MISS_WAIT", "UNC_WAIT"} /\ "DATA" \in rsp.error -> BusError
      [] d.fsm = "UNC_WAIT" /\ "DATA" \notin rsp.error /\ fifo.DATA # <<>>
            /\ dreq.addr = d.addr -> Answer(Head(fifo.DATA))
      [] d.fsm = "XTN_HIT" /\ ~Hit(dcache, d.addr) -> Answer(0)
      [] d.fsm = "XTN_INVAL" -> Answer(0)
      [] OTHER -> NoRsp

NextDataState ==
    CASE dreq = NoReq -> "IDLE"
      [] ReadMiss(dreq) -> "MISS_SELECT"
      [] Uncached(dreq) -> "UNC_WAIT"
      [] dreq.type = "INVAL" -> "XTN_HIT"
      [] dreq.type = "WRITE" ->
           IF Cacheable(dreq) /\ Hit(dcache, dreq.addr) THEN "WRITE_UPDT" ELSE "WRITE_REQ"
      [] OTHER -> "IDLE"

\* The registers keep the last request when there is no new one.
Accept ==
    /\ Accepts
    /\ d' = IF dreq = NoReq THEN [d EXCEPT !.fsm = "IDLE"]
            ELSE DataRegs(NextDataState, Cacheable(dreq), dreq)
    /\ UNCHANGED dcache

\* The write burst stays in the buffer: the automaton waits in WRITE_REQ.
WaitForBuffer ==
    /\ d.fsm = "WRITE_REQ" /\ ~Posts
    /\ UNCHANGED <<d, dcache>>

DataGoto(s) == d' = [d EXCEPT !.fsm = s]

WriteUpdate ==
    /\ d.fsm = "WRITE_UPDT" /\ DataGoto("WRITE_REQ")
    /\ dcache' = WriteWord(dcache, d.addr, d.addr[2], d.wdata)

MissSelect ==
    /\ d.fsm = "MISS_SELECT"
    /\ DataGoto(IF dcache[SetOf(d.addr)].line # NoLine THEN "MISS_INVAL" ELSE "MISS_WAIT")
    /\ UNCHANGED dcache

MissInval ==
    /\ d.fsm = "MISS_INVAL" /\ DataGoto("MISS_WAIT")
    /\ dcache' = Inval(dcache, d.addr)

\* The words of the missing line come one by one; its tag is written last.
MissWait ==
    /\ d.fsm = "MISS_WAIT"
    /\ IF "DATA" \in rsp.error THEN DataGoto("IDLE") /\ UNCHANGED dcache
       ELSE IF fifo.DATA = <<>> THEN UNCHANGED <<d, dcache>>
       ELSE LET filled == WriteWord(dcache, d.addr, d.word, Head(fifo.DATA))
                last == d.word = LineWords - 1
            IN  /\ d' = [d EXCEPT !.word = @ + 1, !.fsm = IF last THEN "IDLE" ELSE @]
                /\ dcache' = IF last THEN Tag(filled, d.addr) ELSE filled

UncachedWait ==
    /\ d.fsm = "UNC_WAIT"
    /\ UNCHANGED dcache
    /\ IF "DATA" \in rsp.error \/ fifo.DATA # <<>> THEN DataGoto("IDLE") ELSE UNCHANGED d

ExternHit ==
    /\ d.fsm = "XTN_HIT"
    /\ DataGoto(IF Hit(dcache, d.addr) THEN "XTN_INVAL" ELSE "IDLE")
    /\ UNCHANGED dcache

ExternInval ==
    /\ d.fsm = "XTN_INVAL" /\ DataGoto("IDLE")
    /\ dcache' = Inval(dcache, d.addr)

DcacheStep ==
    \/ Accept \/ WaitForBuffer \/ WriteUpdate \/ MissSelect \/ MissInval
    \/ MissWait \/ UncachedWait \/ ExternHit \/ ExternInval

\* Mutant: a burst is closed by the end of the line only.
ClosesBurst_end ==
    /\ d.fsm = "WRITE_REQ" /\ "DATA_WRITE" \notin req
    /\ ~d.cacheable \/ dreq.type # "WRITE"

\* The flip-flops the data cache sets.  A burst is closed when the buffer holds
\* another line, after an uncached write, and when no write follows.
ClosesBurst ==
    /\ d.fsm = "WRITE_REQ" /\ "DATA_WRITE" \notin req
    /\ ~wok(d.addr) \/ ~d.cacheable \/ dreq.type # "WRITE"
SetByData ==
    (IF ClosesBurst THEN {"DATA_WRITE"} ELSE {})
        \cup (IF Accepts /\ ReadMiss(dreq) THEN {"DATA_MISS"} ELSE {})
        \cup (IF Accepts /\ Uncached(dreq) THEN {"DATA_UNC"} ELSE {})
GetData == d.fsm \in {"MISS_WAIT", "UNC_WAIT"} /\ "DATA" \notin rsp.error /\ fifo.DATA # <<>>
ClearDataError == d.fsm \in {"MISS_WAIT", "UNC_WAIT"} /\ "DATA" \in rsp.error

(***************************************************************************)
(* The instruction cache.                                                  *)
(***************************************************************************)
InsMiss == i.fsm = "IDLE" /\ ireq # NoReq /\ ireq.addr[1] \in Cached /\ ~Hit(icache, ireq.addr)
InsUncached == i.fsm = "IDLE" /\ ireq # NoReq /\ ireq.addr[1] \notin Cached
GetIns == i.fsm \in {"MISS_WAIT", "UNC_WAIT"} /\ "INS" \notin rsp.error /\ fifo.INS # <<>>
ClearInsError == i.fsm \in {"MISS_WAIT", "UNC_WAIT"} /\ "INS" \in rsp.error

IRsp ==
    CASE i.fsm = "IDLE" /\ ireq # NoReq /\ ~InsMiss /\ ~InsUncached -> Answer(Read(icache, ireq.addr))
      [] ClearInsError -> BusError
      [] i.fsm = "UNC_WAIT" /\ GetIns /\ ireq.addr = i.addr -> Answer(Head(fifo.INS))
      [] OTHER -> NoRsp

IcacheIdle ==
    /\ i.fsm = "IDLE"
    /\ i' = IF InsMiss THEN [fsm |-> "MISS_SELECT", word |-> 0, addr |-> ireq.addr]
            ELSE IF InsUncached THEN [i EXCEPT !.fsm = "UNC_WAIT", !.addr = ireq.addr]
            ELSE i
    /\ UNCHANGED icache

\* MISS_SELECT, MISS_INVAL: the victim line leaves the cache.
IcacheVictim ==
    \/ /\ i.fsm = "MISS_SELECT"
       /\ i' = [i EXCEPT !.fsm =
                  IF icache[SetOf(i.addr)].line # NoLine THEN "MISS_INVAL" ELSE "MISS_WAIT"]
       /\ UNCHANGED icache
    \/ /\ i.fsm = "MISS_INVAL"
       /\ i' = [i EXCEPT !.fsm = "MISS_WAIT"]
       /\ icache' = Inval(icache, i.addr)

IcacheWait ==
    \/ /\ i.fsm = "MISS_WAIT" /\ GetIns
       /\ LET filled == WriteWord(icache, i.addr, i.word, Head(fifo.INS))
              last == i.word = LineWords - 1
          IN  /\ i' = [i EXCEPT !.word = @ + 1, !.fsm = IF last THEN "IDLE" ELSE @]
              /\ icache' = IF last THEN Tag(filled, i.addr) ELSE filled
    \/ /\ i.fsm = "UNC_WAIT" /\ GetIns
       /\ i' = [i EXCEPT !.fsm = "IDLE"] /\ UNCHANGED icache
    \/ /\ ClearInsError
       /\ i' = [i EXCEPT !.fsm = "IDLE"] /\ UNCHANGED icache
    \/ /\ i.fsm \in {"MISS_WAIT", "UNC_WAIT"} /\ ~GetIns /\ ~ClearInsError
       /\ UNCHANGED <<i, icache>>

IcacheStep == IcacheIdle \/ IcacheVictim \/ IcacheWait

SetByIns == (IF InsMiss THEN {"INS_MISS"} ELSE {}) \cup (IF InsUncached THEN {"INS_UNC"} ELSE {})

(***************************************************************************)
(* The VCI port.  The two automata leave IDLE together, for the request of *)
(* highest priority: an instruction, then the writes, then the data reads. *)
(***************************************************************************)
\* Mutant: reads overtake the posted writes.
Priority_reads == <<"INS_MISS", "INS_UNC", "DATA_MISS", "DATA_UNC", "DATA_WRITE">>
Priority == <<"INS_MISS", "INS_UNC", "DATA_WRITE", "DATA_MISS", "DATA_UNC">>
First(S) == Priority[MinWord({n \in 1 .. 5 : Priority[n] \in S})]
\* Mutant: a command starts while the response of the last one is awaited.
Start_early == cmd.fsm = "IDLE" /\ req # {}
Start == cmd.fsm = "IDLE" /\ rsp.fsm = "IDLE" /\ req # {}
LastFlit == cmd.fsm # "DATA_WRITE" \/ cmd.cpt = cmd.max
WriteSent(cmdack) == cmd.fsm = "DATA_WRITE" /\ cmdack /\ LastFlit

\* genMoore(): the command flit on the port.  A burst is a range of words of the
\* buffer; be is 0 in a hole.
Read_(addr, plen) == [val |-> TRUE, op |-> "READ", addr |-> addr, data |-> 0, be |-> TRUE,
                      plen |-> plen, eop |-> TRUE]
VciCmd ==
    CASE cmd.fsm = "IDLE" -> [Read_(NoReq.addr, 0) EXCEPT !.val = FALSE]
      [] cmd.fsm = "INS_MISS" -> Read_(<<i.addr[1], 0>>, 4 * LineWords)
      [] cmd.fsm = "INS_UNC" -> Read_(i.addr, 4)
      [] cmd.fsm = "DATA_MISS" -> Read_(<<d.addr[1], 0>>, 4 * LineWords)
      [] cmd.fsm = "DATA_UNC" ->
           [Read_(d.addr, IF d.type = "READ" THEN d.be ELSE 4)
              EXCEPT !.op = d.type, !.data = d.wdata]
      [] cmd.fsm = "DATA_WRITE" ->
           [val |-> TRUE, op |-> "WRITE", addr |-> <<wbuf.line, cmd.cpt>>,
            data |-> IF cmd.cpt \in DOMAIN wbuf.data THEN wbuf.data[cmd.cpt] ELSE 0,
            be |-> cmd.cpt \in DOMAIN wbuf.data,
            plen |-> 4 * (cmd.max - MinWord(DOMAIN wbuf.data) + 1), eop |-> LastFlit]

CmdStep(cmdack) ==
    IF Start
    THEN cmd' = [fsm |-> First(req),
                 cpt |-> IF First(req) = "DATA_WRITE" THEN MinWord(DOMAIN wbuf.data) ELSE 0,
                 max |-> IF First(req) = "DATA_WRITE" THEN MaxWord(DOMAIN wbuf.data) ELSE 0]
    ELSE IF cmd.fsm # "IDLE" /\ cmdack
    THEN cmd' = IF LastFlit THEN [cmd EXCEPT !.fsm = "IDLE"] ELSE [cmd EXCEPT !.cpt = @ + 1]
    ELSE UNCHANGED cmd

\* The flip-flops that the command automaton resets.
Cleared(cmdack) ==
    IF Start THEN {First(req)} \ {"DATA_WRITE"}
    ELSE IF WriteSent(cmdack) THEN {"DATA_WRITE"} ELSE {}

\* r is the response flit on the port.  The port always acknowledges it.
Side == IF rsp.fsm \in {"INS_MISS", "INS_UNC"} THEN "INS" ELSE "DATA"
Puts(r) == /\ r.val /\ ~r.error /\ rsp.fsm \notin {"IDLE", "DATA_WRITE"}
           /\ Len(fifo[Side]) < 2
RspCleared == (IF ClearDataError THEN {"DATA"} ELSE {}) \cup (IF ClearInsError THEN {"INS"} ELSE {})

\* An error answer to a posted write only interrupts the processor (setWriteBerr()),
\* which is external: the automaton ends the write as it does without an error.
RspStep(r) ==
    LET failed == r.val /\ r.error /\ rsp.fsm \notin {"IDLE", "DATA_WRITE"}
        ended == r.val /\ r.eop /\ (r.error \/ Puts(r) \/ rsp.fsm = "DATA_WRITE")
    IN  rsp' = [fsm |-> IF Start THEN First(req) ELSE IF ended THEN "IDLE" ELSE rsp.fsm,
                cpt |-> IF Start THEN 0 ELSE IF Puts(r) THEN rsp.cpt + 1 ELSE rsp.cpt,
                error |-> (rsp.error \ RspCleared) \cup (IF failed THEN {Side} ELSE {})]

FifoStep(r) ==
    LET after(side, get) ==
          (IF get THEN Tail(fifo[side]) ELSE fifo[side])
             \o (IF Puts(r) /\ Side = side THEN <<r.data>> ELSE <<>>)
    IN  fifo' = [DATA |-> after("DATA", GetData), INS |-> after("INS", GetIns)]

Posted ==
    [line |-> d.addr[1],
     data |-> [w \in DOMAIN wbuf.data \cup {d.addr[2]} |->
                 IF w = d.addr[2] THEN d.wdata ELSE wbuf.data[w]]]

\* One clock cycle of transition(), given what the port receives.
Cycle(cmdack, r) ==
    /\ DcacheStep
    /\ IcacheStep
    /\ CmdStep(cmdack)
    /\ RspStep(r)
    /\ FifoStep(r)
    /\ req' = (req \cup SetByData \cup SetByIns) \ Cleared(cmdack)
    /\ wbuf' = IF WriteSent(cmdack) THEN EmptyWbuf ELSE IF Posts THEN Posted ELSE wbuf

\* The assertions of the response automaton, and the one the port relies on: a
\* word that comes finds room in its fifo, since rspack is always true.
Expected(r) ==
    r.val =>
        /\ rsp.fsm # "IDLE"
        /\ rsp.fsm \in {"INS_UNC", "DATA_UNC"} => r.eop
        /\ (rsp.fsm \in {"INS_MISS", "DATA_MISS"} /\ ~r.error) =>
              rsp.cpt < LineWords /\ (r.eop <=> rsp.cpt = LineWords - 1)
        /\ (rsp.fsm # "DATA_WRITE" /\ ~r.error) => Len(fifo[Side]) < 2
=============================================================================
