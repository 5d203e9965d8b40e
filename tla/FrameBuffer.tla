----------------------------- MODULE FrameBuffer ------------------------------
(***************************************************************************)
(* The frame buffer of almo1 (hard/almo1/vci_framebuffer), a target of the *)
(* VCI bus: a surface of pixels that the processors read and write, three  *)
(* read-only registers, and the delayed display of what was written.       *)
(*                                                                         *)
(* One step is one clock cycle.  A command flit c is a record [val, op,    *)
(* index, data, be, plen, eop]: index counts the words from m_seg_base, be *)
(* says whether the word is written, plen is the number of bytes.          *)
(***************************************************************************)
EXTENDS Integers, Sequences

CONSTANTS
    SurfaceSize,  \* words of the surface; the registers start there (FBF_REGS_BASE)
    SegmentSize,  \* words of the segment, the surface and the registers
    CountSize,    \* number of values of r_flit_count
    Deferred      \* cycles before the display of a write (30 in the code)

ASSUME FrameBufferAssumption ==
    /\ SurfaceSize \in Nat \ {0} /\ SegmentSize \in Nat /\ SegmentSize >= SurfaceSize + 4
    /\ CountSize \in Nat \ {0} /\ Deferred \in Nat \ {0}

VARIABLES
    fb,        \* r_fsm_state, r_index, r_flit_count, r_data
    surface,   \* the pixels
    timeout,   \* m_defered_timeout
    shown      \* the pixels the window displays

fbvars == <<fb, surface, timeout, shown>>

Pixels == 0 .. SurfaceSize - 1
Register == <<2, 3, 4>>   \* m_width, m_height, m_subsampling: no value of a pixel

\* The time since m_last_update, which is not initialised: any of less than 40 ms,
\* less than 1 s, less than 2 s, more.
Times == 0 .. 3

FbInit ==
    /\ fb = [fsm |-> "IDLE", index |-> 0, count |-> 0, data |-> 0]
    /\ surface = [p \in Pixels |-> 0]
    /\ shown = surface
    /\ timeout = 0

(***************************************************************************)
(* genMoore(): what the target drives on the port.                         *)
(***************************************************************************)
FbCmdack == fb.fsm \in {"IDLE", "WRITE_BUF_CMD", "ERROR_CMD"}
FbRspval == ~FbCmdack
FbRsp ==
    [val |-> FbRspval,
     error |-> fb.fsm = "ERROR_RSP",
     eop |-> fb.fsm = "READ_BUF_RSP" => fb.count = 1,
     data |-> IF fb.fsm = "READ_REG_RSP" THEN fb.data
              ELSE IF fb.fsm = "READ_BUF_RSP" /\ fb.index \in Pixels THEN surface[fb.index]
              ELSE 0]

(***************************************************************************)
(* The automaton.                                                          *)
(***************************************************************************)
InSegment(c) == c.index \in 0 .. SegmentSize - 1
Config(c) == InSegment(c) /\ c.index >= SurfaceSize
RegIndex(c) == c.index % 4
\* The surface fills the addresses up to the registers: a smaller one has words
\* after it that are memory of the host and not of the frame buffer.  A burst may
\* run past the surface, into memory that is not modelled either.
write_fb(c) == IF c.be THEN [surface EXCEPT ![c.index] = c.data] ELSE surface

\* Mutant: a register access of several words is accepted.
RegisterState_multi(c) ==
    IF c.op = "READ" /\ RegIndex(c) < 3 THEN "READ_REG_RSP"
    ELSE IF c.op = "WRITE" THEN "WRITE_REG_RSP" ELSE "ERROR_RSP"

\* Register access: the registers cannot be written, and the command is one flit.
RegisterState(c) ==
    CASE c.op = "READ" /\ c.eop -> IF RegIndex(c) < 3 THEN "READ_REG_RSP" ELSE "ERROR_RSP"
      [] c.op = "WRITE" /\ c.eop -> "WRITE_REG_RSP"
      [] c.op \notin {"READ", "WRITE"} /\ c.eop -> "ERROR_RSP"
      [] OTHER -> "ERROR_CMD"

FbRegister(c) ==
    /\ fb.fsm = "IDLE" /\ c.val /\ Config(c)
    /\ fb' = [fb EXCEPT !.fsm = RegisterState(c), !.index = RegIndex(c),
                        !.data = IF RegisterState(c) = "READ_REG_RSP"
                                 THEN Register[RegIndex(c) + 1] ELSE @]
    /\ UNCHANGED surface

FbWrite(c) ==
    /\ fb.fsm = "IDLE" /\ c.val /\ ~Config(c) /\ InSegment(c) /\ c.op = "WRITE"
    /\ surface' = write_fb(c)
    /\ fb' = [fb EXCEPT !.fsm = IF c.eop THEN "WRITE_BUF_RSP" ELSE "WRITE_BUF_CMD",
                        !.index = c.index + 1]

\* A read returns one flit per word of plen.
FlitCount(c) == c.plen \div 4
FbRead(c) ==
    /\ fb.fsm = "IDLE" /\ c.val /\ ~Config(c) /\ InSegment(c) /\ c.op = "READ"
    /\ fb' = [fb EXCEPT !.fsm = "READ_BUF_RSP", !.index = c.index, !.count = FlitCount(c)]
    /\ UNCHANGED surface

\* Out of the segment, or neither a read nor a write.
FbIllegal(c) ==
    /\ fb.fsm = "IDLE" /\ c.val /\ ~Config(c)
    /\ ~InSegment(c) \/ c.op \notin {"READ", "WRITE"}
    /\ fb' = [fb EXCEPT !.fsm = IF ~InSegment(c) /\ c.eop THEN "ERROR_RSP" ELSE "ERROR_CMD"]
    /\ UNCHANGED surface

\* Another flit of a write burst, whose addresses are contiguous.
FbBurst(c) ==
    /\ fb.fsm = "WRITE_BUF_CMD" /\ c.val
    /\ IF c.index = fb.index
       THEN /\ surface' = write_fb(c)
            /\ fb' = [fb EXCEPT !.fsm = IF c.eop THEN "WRITE_BUF_RSP" ELSE @, !.index = c.index + 1]
       ELSE /\ fb' = [fb EXCEPT !.fsm = IF c.eop THEN "ERROR_RSP" ELSE "ERROR_CMD"]
            /\ UNCHANGED surface

FbSwallow(c) ==
    /\ fb.fsm = "ERROR_CMD" /\ c.val /\ c.eop
    /\ fb' = [fb EXCEPT !.fsm = "ERROR_RSP"]
    /\ UNCHANGED surface

FbReadFlit(rspack) ==
    /\ fb.fsm = "READ_BUF_RSP" /\ rspack
    /\ fb' = [fb EXCEPT !.count = (@ + CountSize - 1) % CountSize, !.index = @ + 1,
                        !.fsm = IF fb.count = 1 THEN "IDLE" ELSE @]
    /\ UNCHANGED surface

FbAnswered(rspack) ==
    /\ FbRspval /\ fb.fsm # "READ_BUF_RSP" /\ rspack
    /\ fb' = [fb EXCEPT !.fsm = "IDLE"]
    /\ UNCHANGED surface

FbWaits(c, rspack) ==
    /\ IF FbCmdack THEN ~c.val \/ (fb.fsm = "ERROR_CMD" /\ ~c.eop) ELSE ~rspack
    /\ UNCHANGED <<fb, surface>>

\* Mutant: the first word of a burst restarts the delay, the others do not.
Restarts_first(c) ==
    c.val /\ c.op = "WRITE" /\ InSegment(c) /\ ~Config(c) /\ fb.fsm = "IDLE"

\* The last flit of a write restarts the delay; in a burst its address must follow.
Restarts(c) ==
    /\ c.val /\ c.eop
    /\ \/ fb.fsm = "IDLE" /\ c.op = "WRITE" /\ InSegment(c) /\ ~Config(c)
       \/ fb.fsm = "WRITE_BUF_CMD" /\ c.index = fb.index

\* The delayed display: not more than 25 updates per second.  A time between one
\* and two seconds counts as too short.
Due(elapsed) == elapsed \in {1, 3}
Display(c) ==
    \E elapsed \in Times :
      LET update == timeout = 1 /\ Due(elapsed)
      IN  /\ shown' = IF update THEN surface ELSE shown
          /\ timeout' = CASE Restarts(c) -> Deferred
                          [] ~Restarts(c) /\ timeout = 1 -> IF update THEN 0 ELSE Deferred
                          [] ~Restarts(c) /\ timeout = 0 -> 0
                          [] OTHER -> timeout - 1

FbAutomaton(c, rspack) ==
    \/ FbRegister(c) \/ FbWrite(c) \/ FbRead(c) \/ FbIllegal(c) \/ FbBurst(c)
    \/ FbSwallow(c) \/ FbReadFlit(rspack) \/ FbAnswered(rspack) \/ FbWaits(c, rspack)

FbTransition(c, rspack) == FbAutomaton(c, rspack) /\ Display(c)

(***************************************************************************)
(* An initiator of the bus, a processor or the DMA, that sends any packet. *)
(***************************************************************************)
CONSTANT Packets   \* sequences of command flits, the last one with eop

\* What the target needs of its initiators: the surface is not read in bursts of
\* commands nor by less than a word, and not accessed by LL and SC, which
\* transition() takes for a packet that goes on.
ASSUME PacketsAssumption ==
    \A p \in Packets :
        /\ Len(p) \in Nat \ {0}
        /\ \A n \in 1 .. Len(p) : p[n].val = TRUE /\ p[n].eop = (n = Len(p)) /\ p[n].index \in Int
        /\ p[1].index \in Pixels =>
              \/ p[1].op = "WRITE"
              \/ p[1].op = "READ" /\ Len(p) = 1 /\ p[1].plen \div 4 \in 1 .. CountSize - 1

VARIABLE init      \* the packet, the flits sent, the flits of the response

Answer_(p) == IF p[1].op = "READ" /\ p[1].index \in Pixels THEN p[1].plen \div 4 ELSE 1
NoFlit == [val |-> FALSE, op |-> "READ", index |-> 0, data |-> 0, be |-> TRUE, plen |-> 4, eop |-> TRUE]

NoInitiator == << >>   \* another component is on the port
InitiatorInit == init = [packet |-> <<>>, sent |-> 0, left |-> 0, broken |-> FALSE]

Broken(p) == \E n \in 2 .. Len(p) : p[n].index # p[n - 1].index + 1

\* The initiator sends the flits of a packet, then takes those of its response.
Initiator(granted) ==
    CASE init.packet = <<>> ->
           \E p \in Packets : init' = [packet |-> p, sent |-> 0, left |-> Answer_(p),
                                       broken |-> init.broken \/ Broken(p)]
      [] init.packet # <<>> /\ init.sent < Len(init.packet) ->
           init' = [init EXCEPT !.sent = IF granted /\ FbCmdack THEN @ + 1 ELSE @]
      [] OTHER ->
           init' = IF ~granted \/ ~FbRspval THEN init
                   ELSE IF FbRsp.eop THEN [init EXCEPT !.packet = <<>>, !.left = 0]
                   ELSE [init EXCEPT !.left = @ - 1]

Flit(granted) ==
    IF granted /\ init.packet # <<>> /\ init.sent < Len(init.packet)
    THEN init.packet[init.sent + 1] ELSE NoFlit

FbNext == \E granted \in BOOLEAN :
             Initiator(granted) /\ FbTransition(Flit(granted), granted /\ FbRspval)

FbSpec == FbInit /\ InitiatorInit /\ [][FbNext]_<<fbvars, init>>

(***************************************************************************)
(* Properties.                                                             *)
(***************************************************************************)
\* A packet gets one response, when its last flit was taken, as long as the
\* request asked for; illegal packets too (transition() and genMoore()).
PacketsAreAnswered ==
    init # NoInitiator =>
        /\ FbRspval <=> init.packet # <<>> /\ init.sent = Len(init.packet)
        /\ FbRspval => (FbRsp.eop <=> init.left = 1)

\* A pixel that the window does not show yet is on its way: the packet that
\* writes it is not finished or its display is scheduled (m_defered_timeout).
\* A burst that breaks off in the middle is the exception.
PixelsAreShownOrScheduled ==
    init # NoInitiator =>
        shown = surface \/ timeout > 0 \/ fb.fsm = "WRITE_BUF_CMD" \/ init.broken
=============================================================================
