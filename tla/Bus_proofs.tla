------------------------------ MODULE Bus_proofs ------------------------------
(***************************************************************************)
(* Proofs about the bus of almo1 and what is on it.                        *)
(***************************************************************************)
EXTENDS Soc, SequenceTheorems, WellFoundedInduction, TLAPS

(***************************************************************************)
(* FrameBuffer.                                                            *)
(***************************************************************************)
FbCmdStates == {"IDLE", "WRITE_BUF_CMD", "ERROR_CMD"}
FbRspStates == {"READ_REG_RSP", "WRITE_REG_RSP", "READ_BUF_RSP", "WRITE_BUF_RSP", "ERROR_RSP"}
FbRegs == [fsm : FbCmdStates \cup FbRspStates, index : Int, count : Nat, data : Int]

FbTypeOK ==
    /\ fb \in FbRegs
    /\ timeout \in Nat
    /\ init = [packet |-> init.packet, sent |-> init.sent, left |-> init.left, broken |-> init.broken]
    /\ init.broken \in BOOLEAN
    /\ init.packet = <<>> \/ init.packet \in Packets
    /\ init.packet # <<>> => init.sent \in 0 .. Len(init.packet) /\ init.left \in Nat

\* The automaton follows the packet: between two packets and before the first
\* flit it is idle, then it takes the other flits, then it answers.
FbFollows ==
    /\ init.packet = <<>> => fb.fsm = "IDLE"
    /\ init.packet # <<>> =>
          /\ init.sent = 0 => fb.fsm = "IDLE" /\ init.left = Answer_(init.packet)
          /\ 0 < init.sent /\ init.sent < Len(init.packet) =>
                fb.fsm \in {"WRITE_BUF_CMD", "ERROR_CMD"} /\ init.left = 1
          /\ init.sent = Len(init.packet) =>
                /\ fb.fsm \in FbRspStates
                /\ IF fb.fsm = "READ_BUF_RSP"
                   THEN fb.count \in 1 .. CountSize - 1 /\ init.left = fb.count
                   ELSE init.left = 1

\* A burst is followed word by word, and a packet that breaks off is recorded.
BurstFollows ==
    /\ init.packet # <<>> /\ Broken(init.packet) => init.broken
    /\ fb.fsm = "WRITE_BUF_CMD" =>
          /\ init.packet # <<>> /\ init.sent \in 1 .. Len(init.packet)
          /\ fb.index = init.packet[init.sent].index + 1

FbInv == FbTypeOK /\ FbFollows /\ BurstFollows
         /\ (shown = surface \/ timeout > 0 \/ fb.fsm = "WRITE_BUF_CMD" \/ init.broken)

LEMMA FbInvInit == FbInit /\ InitiatorInit => FbInv
  BY FrameBufferAssumption DEF FbInit, InitiatorInit, FbInv, FbTypeOK, FbFollows, BurstFollows, FbRegs, FbCmdStates, FbRspStates

\* What the flit of a cycle is, and what the initiator does in the same cycle.
LEMMA FlitOfPacket ==
  ASSUME FbInv, NEW granted \in BOOLEAN, Flit(granted).val
  PROVE  /\ init.packet # <<>> /\ init.packet \in Packets /\ init.sent < Len(init.packet)
         /\ init.sent \in Nat /\ Len(init.packet) \in Nat
         /\ granted = TRUE
         /\ Flit(granted) = init.packet[init.sent + 1]
         /\ Flit(granted).index \in Int
         /\ Flit(granted).eop = (init.sent + 1 = Len(init.packet))
<1>1. init.packet # <<>> /\ init.sent < Len(init.packet) /\ granted
      /\ Flit(granted) = init.packet[init.sent + 1]
  BY DEF Flit, NoFlit
<1>2. init.packet \in Packets /\ init.sent \in 0 .. Len(init.packet)
  BY <1>1 DEF FbInv, FbTypeOK
<1>3. Len(init.packet) \in Nat \ {0}
  BY <1>2, PacketsAssumption
<1>4. init.sent + 1 \in 1 .. Len(init.packet)
  BY <1>1, <1>2, <1>3
<1>5. ASSUME NEW p \in Packets, NEW n \in 1 .. Len(p)
      PROVE  p[n].eop = (n = Len(p)) /\ p[n].index \in Int
  BY <1>5, PacketsAssumption
<1>6. /\ init.packet[init.sent + 1].eop = (init.sent + 1 = Len(init.packet))
      /\ init.packet[init.sent + 1].index \in Int
  BY <1>2, <1>4, <1>5
<1>7. init.sent \in Nat
  BY <1>2, <1>3
<1> QED BY <1>1, <1>2, <1>3, <1>6, <1>7, Zenon

\* What Display() leaves: a write that ends schedules a display, and a display
\* that was scheduled happens or stays so.
LEMMA DisplayEffect ==
  ASSUME timeout \in Nat, NEW c, Display(c)
  PROVE  /\ timeout' \in Nat
         /\ Restarts(c) => timeout' > 0
         /\ shown' = surface \/ timeout' > 0 \/ (shown' = shown /\ timeout = 0)
<1>1. PICK elapsed \in Times :
        LET update == timeout = 1 /\ Due(elapsed)
        IN  /\ shown' = IF update THEN surface ELSE shown
            /\ timeout' = CASE Restarts(c) -> Deferred
                          [] ~Restarts(c) /\ timeout = 1 -> IF update THEN 0 ELSE Deferred
                          [] ~Restarts(c) /\ timeout = 0 -> 0
                          [] OTHER -> timeout - 1
  BY DEF Display
<1>2. CASE Restarts(c)
  BY <1>1, <1>2, FrameBufferAssumption
<1>3. CASE ~Restarts(c) /\ timeout = 1
  BY <1>1, <1>3, FrameBufferAssumption
<1>4. CASE ~Restarts(c) /\ timeout = 0
  BY <1>1, <1>4, FrameBufferAssumption
<1>5. CASE ~Restarts(c) /\ timeout # 1 /\ timeout # 0
  <2>1. timeout' = timeout - 1
    BY <1>1, <1>5
  <2> QED BY <1>5, <2>1
<1> QED BY <1>2, <1>3, <1>4, <1>5

\* Between two packets.
LEMMA FbBetween ==
  ASSUME FbInv, NEW granted \in BOOLEAN, Initiator(granted),
         FbTransition(Flit(granted), granted /\ FbRspval), init.packet = <<>>
  PROVE  FbInv'
<1>1. PICK p \in Packets : init' = [packet |-> p, sent |-> 0, left |-> Answer_(p),
                                    broken |-> init.broken \/ Broken(p)]
  BY DEF Initiator
<1>2. fb.fsm = "IDLE" /\ ~Flit(granted).val
  BY DEF FbInv, FbFollows, Flit, NoFlit
<1>3. fb' = fb /\ surface' = surface
  BY <1>2 DEF FbTransition, FbAutomaton, FbRegister, FbWrite, FbRead, FbIllegal, FbBurst,
              FbSwallow, FbReadFlit, FbAnswered, FbWaits, FbRspval, FbCmdack
<1>4. Len(p) \in Nat \ {0} /\ p # <<>>
  BY PacketsAssumption
<1>5. Answer_(p) \in Nat
  <2>1. CASE p[1].op = "READ" /\ p[1].index \in Pixels
    BY <2>1, PacketsAssumption, FrameBufferAssumption DEF Answer_
  <2>2. CASE ~(p[1].op = "READ" /\ p[1].index \in Pixels)
    BY <2>2 DEF Answer_
  <2> QED BY <2>1, <2>2
<1>6. FbTypeOK'
  BY <1>1, <1>3, <1>4, <1>5, DisplayEffect DEF FbInv, FbTypeOK, FbTransition
<1>7. FbFollows'
  BY <1>1, <1>2, <1>3, <1>4 DEF FbInv, FbFollows
<1>8. BurstFollows'
  BY <1>1, <1>2, <1>3, <1>4 DEF BurstFollows, Broken
<1>9. (shown = surface \/ timeout > 0 \/ fb.fsm = "WRITE_BUF_CMD" \/ init.broken)'
  BY <1>1, <1>2, <1>3, DisplayEffect DEF FbInv, FbTypeOK, FbTransition
<1> QED BY <1>6, <1>7, <1>8, <1>9 DEF FbInv
\* What the automaton makes of a flit of a packet.
LEMMA FbTakes ==
  ASSUME FbInv, NEW granted \in BOOLEAN, init.packet # <<>>, init.sent < Len(init.packet),
         FbAutomaton(Flit(granted), granted /\ FbRspval)
  PROVE  IF granted
         THEN /\ fb' \in FbRegs
              /\ fb'.fsm # "IDLE"
              /\ fb'.fsm \in FbRspStates <=> Flit(granted).eop
              /\ fb'.fsm = "READ_BUF_RSP" <=>
                    fb.fsm = "IDLE" /\ Flit(granted).op = "READ" /\ Flit(granted).index \in Pixels
              /\ fb'.fsm = "READ_BUF_RSP" =>
                    fb'.count = Flit(granted).plen \div 4 /\ fb'.count \in 1 .. CountSize - 1
              /\ fb'.fsm = "WRITE_BUF_CMD" => fb'.index = Flit(granted).index + 1
              /\ surface' = surface \/ fb'.fsm = "WRITE_BUF_CMD" \/ Restarts(Flit(granted))
              /\ fb.fsm = "WRITE_BUF_CMD" =>
                    \/ fb'.fsm = "WRITE_BUF_CMD"
                    \/ Restarts(Flit(granted))
                    \/ Flit(granted).index # fb.index
         ELSE fb' = fb /\ surface' = surface
<1>1. fb.fsm \in FbCmdStates
  BY DEF FbInv, FbTypeOK, FbFollows, FbCmdStates
<1>2. CASE ~granted
  <2>1. ~Flit(granted).val
    BY <1>2 DEF Flit, NoFlit
  <2> QED
    BY <1>1, <1>2, <2>1 DEF FbCmdStates, FbAutomaton, FbRegister, FbWrite, FbRead, FbIllegal,
         FbBurst, FbSwallow, FbReadFlit, FbAnswered, FbWaits, FbRspval, FbCmdack
<1>3. CASE granted
  <2> DEFINE c == Flit(granted)
             p == init.packet
             n == init.sent + 1
  <2>1. p \in Packets /\ init.sent \in Nat /\ Len(p) \in Nat /\ c = p[n] /\ n \in 1 .. Len(p)
    BY <1>3, PacketsAssumption DEF FbInv, FbTypeOK, Flit
  <2>2. c.val = TRUE /\ c.index \in Int /\ c.eop = (n = Len(p))
    BY <2>1, PacketsAssumption
  <2>3. fb.fsm = "IDLE" => n = 1
    BY <2>1 DEF FbInv, FbTypeOK, FbFollows
  <2>4. fb.fsm = "IDLE" /\ c.index \in Pixels =>
           c.op = "WRITE" \/ (c.op = "READ" /\ c.eop /\ c.plen \div 4 \in 1 .. CountSize - 1)
    <3>1. p[1].index \in Pixels =>
             \/ p[1].op = "WRITE"
             \/ p[1].op = "READ" /\ Len(p) = 1 /\ p[1].plen \div 4 \in 1 .. CountSize - 1
      BY <2>1, PacketsAssumption, Zenon
    <3>2. fb.fsm = "IDLE" => c = p[1] /\ (Len(p) = 1 => c.eop)
      BY <2>1, <2>2, <2>3
    <3> HIDE DEF c, p, n
    <3> QED BY <3>1, <3>2, Zenon
  <2>5. FbCmdack /\ ~FbRspval
    BY <1>1 DEF FbCmdack, FbRspval, FbCmdStates
  <2>6. fb \in FbRegs
    BY DEF FbInv, FbTypeOK
  <2>7. c.index \in Pixels <=> InSegment(c) /\ ~Config(c)
    BY <2>2, FrameBufferAssumption DEF Pixels, InSegment, Config
  <2> HIDE DEF c, p, n
  <2>8. CASE FbRegister(c)
    <3>1. c.index % 4 \in 0 .. 3
      BY <2>2
    <3>2. RegIndex(c) \in Int /\ (RegIndex(c) < 3 => RegIndex(c) + 1 \in 1 .. 3)
      BY <3>1 DEF RegIndex
    <3>3. RegisterState(c) \in {"READ_REG_RSP", "WRITE_REG_RSP", "ERROR_RSP", "ERROR_CMD"}
          /\ (RegisterState(c) = "ERROR_CMD" <=> ~c.eop)
          /\ (RegisterState(c) = "READ_REG_RSP" => RegIndex(c) < 3)
      BY <2>2 DEF RegisterState
    <3>4. RegisterState(c) = "READ_REG_RSP" => Register[RegIndex(c) + 1] \in Int
      BY <3>2, <3>3 DEF Register
    <3>5. fb.fsm = "IDLE" /\ Config(c) /\ surface' = surface
      BY <2>8 DEF FbRegister
    <3>6. fb' = [fb EXCEPT !.fsm = RegisterState(c), !.index = RegIndex(c),
                           !.data = IF RegisterState(c) = "READ_REG_RSP"
                                    THEN Register[RegIndex(c) + 1] ELSE @]
      BY <2>8 DEF FbRegister
    <3>7. fb'.fsm = RegisterState(c) /\ fb'.index = RegIndex(c) /\ fb'.count = fb.count
          /\ fb'.data \in Int
          /\ fb' \in FbRegs
      BY <2>6, <3>2, <3>3, <3>4, <3>6 DEF FbRegs, FbCmdStates, FbRspStates
    <3> QED
      BY <1>3, <2>2, <2>6, <2>7, <3>2, <3>3, <3>5, <3>7 DEF FbCmdStates, FbRspStates, c
  <2>9. CASE FbWrite(c)
    <3>1. fb.fsm = "IDLE" /\ ~Config(c) /\ InSegment(c) /\ c.op = "WRITE"
      BY <2>9 DEF FbWrite
    <3>2. fb' = [fb EXCEPT !.fsm = IF c.eop THEN "WRITE_BUF_RSP" ELSE "WRITE_BUF_CMD",
                           !.index = c.index + 1]
      BY <2>9 DEF FbWrite
    <3>3. c.eop => Restarts(c)
      BY <2>2, <3>1 DEF Restarts
    <3>4. /\ fb'.fsm = IF c.eop THEN "WRITE_BUF_RSP" ELSE "WRITE_BUF_CMD"
          /\ fb'.index = c.index + 1 /\ fb'.count = fb.count /\ fb'.data = fb.data
          /\ fb' \in FbRegs
      <4> DEFINE j == c.index + 1
                 t == IF c.eop THEN "WRITE_BUF_RSP" ELSE "WRITE_BUF_CMD"
      <4>1. j \in Int /\ t \in FbCmdStates \cup FbRspStates /\ fb' = [fb EXCEPT !.fsm = t, !.index = j]
        BY <2>2, <3>2 DEF FbCmdStates, FbRspStates
      <4> HIDE DEF j, t
      <4>2. fb' \in FbRegs /\ fb'.fsm = t /\ fb'.index = j /\ fb'.count = fb.count /\ fb'.data = fb.data
        BY <2>6, <4>1 DEF FbRegs
      <4> QED BY <4>2, Zenon DEF j, t
    <3> QED
      <4>1. CASE c.eop
        BY <1>3, <2>2, <2>6, <3>1, <3>3, <3>4, <4>1 DEF FbRegs, FbCmdStates, FbRspStates, c
      <4>2. CASE ~c.eop
        BY <1>3, <2>2, <2>6, <3>1, <3>4, <4>2 DEF FbRegs, FbCmdStates, FbRspStates, c
      <4> QED BY <4>1, <4>2
  <2>10. CASE FbRead(c)
    <3>1. fb.fsm = "IDLE" /\ ~Config(c) /\ InSegment(c) /\ c.op = "READ" /\ surface' = surface
      BY <2>10 DEF FbRead
    <3>2. fb' = [fb EXCEPT !.fsm = "READ_BUF_RSP", !.index = c.index, !.count = c.plen \div 4]
      BY <2>10 DEF FbRead, FlitCount
    <3>3. c.eop /\ c.plen \div 4 \in 1 .. CountSize - 1 /\ c.index \in Pixels
      BY <2>4, <2>7, <3>1
    <3> DEFINE k == c.plen \div 4
    <3>4. k \in Nat
      BY <3>3, FrameBufferAssumption
    <3> HIDE DEF k
    <3>5. /\ fb'.fsm = "READ_BUF_RSP" /\ fb'.index = c.index /\ fb'.count = k /\ fb'.data = fb.data
          /\ fb' \in FbRegs
      BY <2>2, <2>6, <3>2, <3>4 DEF k, FbRegs, FbCmdStates, FbRspStates
    <3> QED
      BY <1>3, <2>2, <2>6, <3>1, <3>3, <3>4, <3>5 DEF FbRegs, FbCmdStates, FbRspStates, c, k
  <2>11. CASE FbIllegal(c)
    <3>1. fb.fsm = "IDLE" /\ ~Config(c) /\ surface' = surface
          /\ (~InSegment(c) \/ c.op \notin {"READ", "WRITE"})
      BY <2>11 DEF FbIllegal
    <3>2. fb' = [fb EXCEPT !.fsm = IF ~InSegment(c) /\ c.eop THEN "ERROR_RSP" ELSE "ERROR_CMD"]
      BY <2>11 DEF FbIllegal
    <3>3. ~InSegment(c)
      BY <2>4, <2>7, <3>1
    <3> QED
      BY <1>3, <2>2, <2>6, <2>7, <3>1, <3>2, <3>3 DEF FbRegs, FbCmdStates, FbRspStates, c
  <2>12. CASE FbBurst(c)
    <3>1. fb.fsm = "WRITE_BUF_CMD"
      BY <2>12 DEF FbBurst
    <3>2. CASE c.index = fb.index
      <4>1. fb' = [fb EXCEPT !.fsm = IF c.eop THEN "WRITE_BUF_RSP" ELSE @, !.index = c.index + 1]
        BY <2>12, <3>2 DEF FbBurst
      <4>2. c.eop => Restarts(c)
        BY <2>2, <3>1, <3>2 DEF Restarts
      <4>3. /\ fb'.fsm = IF c.eop THEN "WRITE_BUF_RSP" ELSE "WRITE_BUF_CMD"
            /\ fb'.index = c.index + 1 /\ fb'.count = fb.count /\ fb'.data = fb.data
          /\ fb' \in FbRegs
        <5> DEFINE j == c.index + 1
                   t == IF c.eop THEN "WRITE_BUF_RSP" ELSE "WRITE_BUF_CMD"
        <5>1. j \in Int /\ t \in FbCmdStates \cup FbRspStates /\ fb' = [fb EXCEPT !.fsm = t, !.index = j]
          BY <2>2, <2>6, <3>1, <4>1 DEF FbCmdStates, FbRspStates, FbRegs
        <5> HIDE DEF j, t
        <5>2. fb' \in FbRegs /\ fb'.fsm = t /\ fb'.index = j /\ fb'.count = fb.count /\ fb'.data = fb.data
          BY <2>6, <5>1 DEF FbRegs
        <5> QED BY <5>2, Zenon DEF j, t
      <4>4. CASE c.eop
        BY <1>3, <2>2, <2>6, <3>1, <4>2, <4>3, <4>4 DEF FbRegs, FbCmdStates, FbRspStates, c
      <4>5. CASE ~c.eop
        BY <1>3, <2>2, <2>6, <3>1, <4>3, <4>5 DEF FbRegs, FbCmdStates, FbRspStates, c
      <4> QED BY <4>4, <4>5
    <3>3. CASE c.index # fb.index
      <4>1. fb' = [fb EXCEPT !.fsm = IF c.eop THEN "ERROR_RSP" ELSE "ERROR_CMD"]
            /\ surface' = surface
        BY <2>12, <3>3 DEF FbBurst
      <4> QED
        BY <1>3, <2>2, <2>6, <3>1, <3>3, <4>1 DEF FbRegs, FbCmdStates, FbRspStates, c
    <3> QED BY <3>2, <3>3
  <2>13. CASE FbSwallow(c)
    <3>1. fb.fsm = "ERROR_CMD" /\ c.eop /\ surface' = surface
          /\ fb' = [fb EXCEPT !.fsm = "ERROR_RSP"]
      BY <2>13 DEF FbSwallow
    <3> QED
      BY <1>3, <2>2, <2>6, <3>1 DEF FbRegs, FbCmdStates, FbRspStates, c
  <2>14. ~FbReadFlit(granted /\ FbRspval) /\ ~FbAnswered(granted /\ FbRspval)
    BY <2>5 DEF FbReadFlit, FbAnswered
  <2>15. CASE FbWaits(c, granted /\ FbRspval)
    <3>1. fb.fsm = "ERROR_CMD" /\ ~c.eop /\ surface' = surface /\ fb' = fb
      BY <2>2, <2>5, <2>15 DEF FbWaits
    <3> QED
      BY <1>3, <2>2, <2>6, <3>1 DEF FbRegs, FbCmdStates, FbRspStates, c
  <2> QED
    BY <2>8, <2>9, <2>10, <2>11, <2>12, <2>13, <2>14, <2>15 DEF FbAutomaton, c
<1> QED BY <1>2, <1>3
\* The initiator sends a flit or waits for the bus.
LEMMA FbSending ==
  ASSUME FbInv, NEW granted \in BOOLEAN, Initiator(granted),
         FbTransition(Flit(granted), granted /\ FbRspval),
         init.packet # <<>>, init.sent < Len(init.packet)
  PROVE  FbInv'
<1>1. init.packet \in Packets /\ init.sent \in 0 .. Len(init.packet) /\ Len(init.packet) \in Nat
      /\ init.left \in Nat /\ init.broken \in BOOLEAN
      /\ init = [packet |-> init.packet, sent |-> init.sent, left |-> init.left,
                 broken |-> init.broken]
  BY PacketsAssumption DEF FbInv, FbTypeOK
<1>2. fb.fsm \in FbCmdStates
  BY DEF FbInv, FbTypeOK, FbFollows, FbCmdStates
<1>3. init' = [init EXCEPT !.sent = IF granted /\ FbCmdack THEN @ + 1 ELSE @]
  BY <1>1 DEF Initiator
<1>4. /\ timeout' \in Nat
      /\ Restarts(Flit(granted)) => timeout' > 0
      /\ shown' = surface \/ timeout' > 0 \/ (shown' = shown /\ timeout = 0)
  BY DisplayEffect DEF FbInv, FbTypeOK, FbTransition
<1>5. CASE ~granted
  <2>1. fb' = fb /\ surface' = surface
    BY <1>5, FbTakes DEF FbTransition
  <2>2. init' = init
    BY <1>1, <1>3, <1>5
  <2> QED
    BY <1>4, <2>1, <2>2 DEF FbInv, FbTypeOK, FbFollows, BurstFollows, Broken, Answer_
<1>6. CASE granted
  <2> DEFINE c == Flit(granted)
             p == init.packet
             n == init.sent + 1
  <2>1. /\ fb' \in FbRegs
        /\ fb'.fsm # "IDLE"
        /\ fb'.fsm \in FbRspStates <=> c.eop
        /\ fb'.fsm = "READ_BUF_RSP" <=> fb.fsm = "IDLE" /\ c.op = "READ" /\ c.index \in Pixels
        /\ fb'.fsm = "READ_BUF_RSP" => fb'.count = c.plen \div 4 /\ fb'.count \in 1 .. CountSize - 1
        /\ fb'.fsm = "WRITE_BUF_CMD" => fb'.index = c.index + 1
        /\ surface' = surface \/ fb'.fsm = "WRITE_BUF_CMD" \/ Restarts(c)
        /\ fb.fsm = "WRITE_BUF_CMD" =>
              fb'.fsm = "WRITE_BUF_CMD" \/ Restarts(c) \/ c.index # fb.index
    BY <1>6, FbTakes DEF FbTransition
  <2>2. /\ init'.packet = p /\ init'.sent = n /\ init'.left = init.left /\ init'.broken = init.broken
        /\ init' = [packet |-> init'.packet, sent |-> init'.sent, left |-> init'.left,
                    broken |-> init'.broken]
    BY <1>1, <1>2, <1>3, <1>6 DEF FbCmdack, FbCmdStates
  <2>3. c = p[n] /\ n \in 1 .. Len(p) /\ p \in Packets
    BY <1>1, <1>6 DEF Flit
  <2>4. c.val = TRUE /\ c.eop = (n = Len(p)) /\ c.index \in Int
    BY <2>3, PacketsAssumption
  <2>5. (fb.fsm = "IDLE") = (n = 1) /\ (n > 1 => init.left = 1)
    BY <1>1 DEF FbInv, FbFollows, FbTypeOK
  <2>6. n = 1 => init.left = IF c.op = "READ" /\ c.index \in Pixels THEN c.plen \div 4 ELSE 1
    <3>1. n = 1 => init.left = Answer_(p) /\ c = p[1]
      BY <1>1, <2>3 DEF FbInv, FbFollows
    <3> QED BY <3>1, Zenon DEF Answer_
  <2>7. p # <<>>
    OBVIOUS
  <2>8. fb.fsm = "WRITE_BUF_CMD" => n > 1 /\ fb.index = p[n - 1].index + 1
    BY <1>1 DEF FbInv, BurstFollows
  <2>9. Broken(p) => init.broken
    BY <2>7 DEF FbInv, BurstFollows
  <2>10. fb.fsm = "WRITE_BUF_CMD" /\ c.index # fb.index => init.broken
    <3>1. fb.fsm = "WRITE_BUF_CMD" /\ c.index # fb.index => n \in 2 .. Len(p) /\ p[n].index # p[n - 1].index + 1
      BY <2>3, <2>8
    <3> QED BY <2>9, <3>1 DEF Broken
  <2>11. shown = surface \/ timeout > 0 \/ fb.fsm = "WRITE_BUF_CMD" \/ init.broken
    BY DEF FbInv
  <2> HIDE DEF c, p, n
  <2>12. FbTypeOK'
    BY <1>1, <1>4, <2>1, <2>2, <2>3 DEF FbTypeOK
  <2>13. fb'.fsm = "READ_BUF_RSP" => init.left = fb'.count /\ n = 1
    BY <2>1, <2>5, <2>6, Zenon
  <2>14. fb'.fsm # "READ_BUF_RSP" => init.left = 1
    <3>1. CASE n = 1
      BY <2>1, <2>5, <2>6, <3>1, Zenon
    <3>2. CASE n # 1
      BY <2>3, <2>5, <3>2
    <3> QED BY <3>1, <3>2
  <2>15. FbFollows'
    <3>1. n = Len(p) => fb'.fsm \in FbRspStates
      BY <2>1, <2>4, Zenon
    <3>2. n < Len(p) => fb'.fsm \in {"WRITE_BUF_CMD", "ERROR_CMD"}
      <4>0. n < Len(p) => n # Len(p)
        BY <1>1, <2>3 DEF p
      <4>1. n < Len(p) => fb'.fsm \notin FbRspStates
        BY <2>1, <2>4, <4>0, Zenon
      <4> QED BY <2>1, <4>1 DEF FbRegs, FbCmdStates
    <3>3. n # 0
      BY <2>3
    <3>4. fb'.fsm = "READ_BUF_RSP" => fb'.count \in 1 .. CountSize - 1
      BY <2>1, Zenon
    <3>5. n < Len(p) => init.left = 1
      BY <2>14, <3>2
    <3> QED
      BY <2>2, <2>7, <2>13, <2>14, <3>1, <3>2, <3>3, <3>4, <3>5 DEF FbFollows, p
  <2>16. BurstFollows'
    <3>1. (init.packet # <<>> /\ Broken(init.packet) => init.broken)'
      BY <2>2, <2>9, Zenon DEF Broken
    <3>2. fb'.fsm = "WRITE_BUF_CMD" => fb'.index = p[n].index + 1
      BY <2>1, <2>3, Zenon
    <3> QED BY <2>2, <2>3, <2>7, <3>1, <3>2 DEF BurstFollows, p
  <2>17. (shown = surface \/ timeout > 0 \/ fb.fsm = "WRITE_BUF_CMD" \/ init.broken)'
    <3>1. CASE Restarts(c)
      BY <1>4, <3>1 DEF c
    <3>2. CASE ~Restarts(c)
      BY <1>4, <2>1, <2>2, <2>10, <2>11, <3>2
    <3> QED BY <3>1, <3>2
  <2> QED BY <2>12, <2>15, <2>16, <2>17 DEF FbInv
<1> QED BY <1>5, <1>6

\* The target answers.
LEMMA FbAnswering ==
  ASSUME FbInv, NEW granted \in BOOLEAN, Initiator(granted),
         FbTransition(Flit(granted), granted /\ FbRspval),
         init.packet # <<>>, ~(init.sent < Len(init.packet))
  PROVE  FbInv'
<1>1. init.packet \in Packets /\ init.sent = Len(init.packet) /\ Len(init.packet) \in Nat \ {0}
      /\ init.left \in Nat /\ init.broken \in BOOLEAN
      /\ init = [packet |-> init.packet, sent |-> init.sent, left |-> init.left,
                 broken |-> init.broken]
  BY PacketsAssumption DEF FbInv, FbTypeOK
<1>2. /\ fb.fsm \in FbRspStates
      /\ IF fb.fsm = "READ_BUF_RSP"
         THEN fb.count \in 1 .. CountSize - 1 /\ init.left = fb.count
         ELSE init.left = 1
  BY <1>1 DEF FbInv, FbFollows
<1>3. FbRspval /\ ~FbCmdack
  BY <1>2 DEF FbRspval, FbCmdack, FbRspStates
<1>4. init' = IF ~granted \/ ~FbRspval THEN init
              ELSE IF FbRsp.eop THEN [init EXCEPT !.packet = <<>>, !.left = 0]
              ELSE [init EXCEPT !.left = @ - 1]
  BY <1>1 DEF Initiator
<1>5. ~Flit(granted).val
  BY <1>1 DEF Flit, NoFlit
<1>6. /\ timeout' \in Nat
      /\ shown' = surface \/ timeout' > 0 \/ (shown' = shown /\ timeout = 0)
  BY DisplayEffect DEF FbInv, FbTypeOK, FbTransition
<1>7. FbReadFlit(granted) \/ FbAnswered(granted) \/ (~granted /\ UNCHANGED <<fb, surface>>)
  BY <1>2, <1>3, <1>5 DEF FbTransition, FbAutomaton, FbRegister, FbWrite, FbRead, FbIllegal,
       FbBurst, FbSwallow, FbReadFlit, FbAnswered, FbWaits, FbRspStates
<1>8. fb \in FbRegs
  BY DEF FbInv, FbTypeOK
<1>9. fb.fsm # "WRITE_BUF_CMD" /\ (Broken(init.packet) => init.broken)
  BY <1>2 DEF FbInv, BurstFollows, FbRspStates
<1>10. surface' = surface
  BY <1>7 DEF FbReadFlit, FbAnswered
<1>11. shown' = surface' \/ timeout' > 0 \/ init.broken
  BY <1>6, <1>9, <1>10 DEF FbInv
<1>12. CASE ~granted
  <2>1. fb' = fb
    BY <1>7, <1>12 DEF FbReadFlit, FbAnswered
  <2>2. init' = init
    BY <1>4, <1>12
  <2> QED
    BY <1>6, <1>10, <1>11, <2>1, <2>2 DEF FbInv, FbTypeOK, FbFollows, BurstFollows, Broken, Answer_
<1>13. CASE granted /\ fb.fsm = "READ_BUF_RSP" /\ fb.count # 1
  <2>1. fb' = [fb EXCEPT !.count = (@ + CountSize - 1) % CountSize, !.index = @ + 1, !.fsm = "READ_BUF_RSP"]
    BY <1>7, <1>8, <1>13 DEF FbReadFlit, FbAnswered
  <2>2. (fb.count + CountSize - 1) % CountSize = fb.count - 1
    <3>1. fb.count - 1 \in 0 .. CountSize - 1 /\ fb.count + CountSize - 1 = fb.count - 1 + CountSize
      BY <1>2, <1>13, FrameBufferAssumption
    <3>2. \A a \in Nat, b \in Nat \ {0} : a < b => (a + b) % b = a
      OBVIOUS
    <3> QED BY <3>1, <3>2, FrameBufferAssumption
  <2>3. /\ fb'.count = fb.count - 1 /\ fb'.index \in Int /\ fb'.fsm = "READ_BUF_RSP" /\ fb'.data = fb.data
          /\ fb' \in FbRegs
    <3> DEFINE k == (fb.count + CountSize - 1) % CountSize
               j == fb.index + 1
    <3>1. fb' = [fb EXCEPT !.count = k, !.index = j, !.fsm = "READ_BUF_RSP"]
      BY <2>1
    <3>4. j \in Int /\ "READ_BUF_RSP" \in FbCmdStates \cup FbRspStates
      BY <1>8 DEF FbRegs, FbRspStates
    <3>2. k = fb.count - 1
      BY <2>2
    <3> HIDE DEF k, j
    <3>3. k \in Nat
      BY <1>2, <1>13, <3>2
    <3>5. fb' \in FbRegs /\ fb'.fsm = "READ_BUF_RSP" /\ fb'.index = j /\ fb'.count = k
          /\ fb'.data = fb.data
      BY <1>8, <3>1, <3>3, <3>4 DEF FbRegs
    <3> QED BY <3>2, <3>4, <3>5, Zenon
  <2>4. ~FbRsp.eop
    BY <1>13 DEF FbRsp
  <2>5. init' = [packet |-> init.packet, sent |-> init.sent, left |-> init.left - 1,
                 broken |-> init.broken]
    BY <1>1, <1>3, <1>4, <1>13, <2>4
  <2>6. fb.count - 1 \in 1 .. CountSize - 1 /\ init.left = fb.count
    BY <1>2, <1>13, FrameBufferAssumption
  <2>7. FbTypeOK'
    BY <1>1, <1>6, <1>8, <2>3, <2>5, <2>6 DEF FbTypeOK, FbRspStates
  <2>8. FbFollows'
    BY <1>1, <2>3, <2>5, <2>6 DEF FbFollows, FbRspStates
  <2>9. BurstFollows'
    BY <1>9, <2>3, <2>5 DEF BurstFollows, Broken
  <2> QED BY <1>10, <1>11, <2>5, <2>7, <2>8, <2>9 DEF FbInv
<1>14. CASE granted /\ ~(fb.fsm = "READ_BUF_RSP" /\ fb.count # 1)
  <2>1. /\ fb'.fsm = "IDLE" /\ fb'.index \in Int /\ fb'.count \in Nat /\ fb'.data = fb.data
          /\ fb' \in FbRegs
    <3>1. CASE FbReadFlit(granted)
      <4>1. fb' = [fb EXCEPT !.count = (@ + CountSize - 1) % CountSize, !.index = @ + 1, !.fsm = "IDLE"]
        BY <1>14, <3>1 DEF FbReadFlit
      <4>2. (fb.count + CountSize - 1) \in Nat /\ CountSize \in Nat \ {0}
        BY <1>8, FrameBufferAssumption DEF FbRegs
      <4>3. (fb.count + CountSize - 1) % CountSize \in Nat
        <5> DEFINE a == fb.count + CountSize - 1
        <5>1. a \in Nat
          BY <4>2
        <5> HIDE DEF a
        <5>2. a % CountSize \in Nat
          BY <5>1, <4>2
        <5> QED BY <5>2 DEF a
      <4> DEFINE k == (fb.count + CountSize - 1) % CountSize
                 j == fb.index + 1
      <4>4. fb' = [fb EXCEPT !.count = k, !.index = j, !.fsm = "IDLE"] /\ k \in Nat
        BY <4>1, <4>3
      <4>5. j \in Int /\ "IDLE" \in FbCmdStates \cup FbRspStates
        BY <1>8 DEF FbRegs, FbCmdStates
      <4> HIDE DEF k, j
      <4>6. fb' \in FbRegs /\ fb'.fsm = "IDLE" /\ fb'.index = j /\ fb'.count = k
            /\ fb'.data = fb.data
        BY <1>8, <4>4, <4>5 DEF FbRegs
      <4> QED BY <4>4, <4>5, <4>6, Zenon
    <3>2. CASE FbAnswered(granted)
      BY <1>8, <3>2 DEF FbAnswered, FbRegs, FbCmdStates, FbRspStates
    <3> QED BY <1>7, <1>14, <3>1, <3>2
  <2>2. FbRsp.eop
    BY <1>14 DEF FbRsp
  <2>3. init' = [packet |-> <<>>, sent |-> init.sent, left |-> 0, broken |-> init.broken]
    BY <1>1, <1>3, <1>4, <1>14, <2>2
  <2>4. FbTypeOK'
    BY <1>1, <1>6, <1>8, <2>1, <2>3 DEF FbTypeOK, FbCmdStates
  <2>5. FbFollows' /\ BurstFollows'
    BY <2>1, <2>3 DEF FbFollows, BurstFollows
  <2> QED BY <1>10, <1>11, <2>3, <2>4, <2>5 DEF FbInv
<1> QED BY <1>12, <1>13, <1>14

\* The invariant of the frame buffer and of its initiator holds in every cycle.
THEOREM FbInvariant == FbSpec => []FbInv
<1>1. FbInit /\ InitiatorInit => FbInv
  BY FbInvInit
<1>2. FbInv /\ [FbNext]_<<fbvars, init>> => FbInv'
  <2> SUFFICES ASSUME FbInv, [FbNext]_<<fbvars, init>> PROVE FbInv'
    OBVIOUS
  <2>1. CASE UNCHANGED <<fbvars, init>>
    BY <2>1 DEF fbvars, FbInv, FbTypeOK, FbFollows, BurstFollows, Broken, Answer_
  <2>2. ASSUME NEW granted \in BOOLEAN, Initiator(granted),
               FbTransition(Flit(granted), granted /\ FbRspval)
        PROVE  FbInv'
    BY <2>2, FbBetween, FbSending, FbAnswering
  <2> QED BY <2>1, <2>2 DEF FbNext
<1> QED BY <1>1, <1>2, PTL DEF FbSpec

\* Every packet that an initiator sends, legal or not, is answered by one response
\* of the length it asks for, when its last flit was taken (transition()).
THEOREM FbAnswersPackets == FbSpec => []PacketsAreAnswered
<1>1. FbInv => PacketsAreAnswered
  <2> SUFFICES ASSUME FbInv PROVE PacketsAreAnswered
    OBVIOUS
  <2>1. FbRspval <=> init.packet # <<>> /\ init.sent = Len(init.packet)
    <3>1. CASE init.packet = <<>>
      BY <3>1 DEF FbInv, FbFollows, FbRspval, FbCmdack
    <3>2. CASE init.packet # <<>> /\ init.sent = Len(init.packet)
      BY <3>2 DEF FbInv, FbFollows, FbRspval, FbCmdack, FbRspStates
    <3>3. CASE init.packet # <<>> /\ init.sent # Len(init.packet)
      <4>1. Len(init.packet) \in Nat /\ init.sent \in 0 .. Len(init.packet)
        BY <3>3, PacketsAssumption DEF FbInv, FbTypeOK
      <4> QED BY <3>3, <4>1 DEF FbInv, FbFollows, FbRspval, FbCmdack
    <3> QED BY <3>1, <3>2, <3>3
  <2>2. FbRspval => (FbRsp.eop <=> init.left = 1)
    BY <2>1 DEF FbInv, FbFollows, FbRsp
  <2> QED BY <2>1, <2>2 DEF PacketsAreAnswered
<1> QED BY <1>1, FbInvariant, PTL

\* No pixel is forgotten: what write_fb() stored is on the screen, or a display is
\* scheduled, or the burst goes on, unless a burst broke off.
THEOREM FbShowsPixels == FbSpec => []PixelsAreShownOrScheduled
<1>1. FbInv => PixelsAreShownOrScheduled
  BY DEF FbInv, PixelsAreShownOrScheduled
<1> QED BY <1>1, FbInvariant, PTL

-----------------------------------------------------------------------------
(***************************************************************************)
(* Soc: the caches of a processor, the write buffer, the memory and the    *)
(* frame buffer.  The invariant SocInv says what each automaton of the     *)
(* controller is doing for the request that the processor holds, that the  *)
(* two automata of the port and the target are in the same transaction,    *)
(* and where the last value of each word is.                               *)
(***************************************************************************)
Transactions == {"INS_MISS", "INS_UNC", "DATA_WRITE", "DATA_MISS", "DATA_UNC"}
MissStates == {"MISS_SELECT", "MISS_INVAL", "MISS_WAIT"}
WriteStates == {"WRITE_UPDT", "WRITE_REQ"}
ExternStates == {"XTN_HIT", "XTN_INVAL"}
FbAnswers == {"READ_BUF_RSP", "READ_REG_RSP", "WRITE_BUF_RSP", "WRITE_REG_RSP", "ERROR_RSP"}
Addr == Nat \X Words
CacheType == [0 .. Sets - 1 -> [line : Int, data : [Words -> Int]]]

\* The request that the registers of the data cache hold.
Held == [type |-> d.type, addr |-> d.addr, wdata |-> d.wdata, be |-> d.be]
Waits == d.fsm \in MissStates \cup {"UNC_WAIT"}

SocTypeOK ==
    /\ prog \in Programs
    /\ dreq \in prog.data \cup {NoReq}
    /\ ireq # NoReq => ireq.addr \in Addr
    /\ d \in [fsm : {"IDLE", "UNC_WAIT"} \cup MissStates \cup WriteStates \cup ExternStates,
              word : Nat, cacheable : BOOLEAN,
              type : {"NONE", "READ", "WRITE", "LL", "SC", "INVAL", "SYNC"},
              addr : Int \X Int, wdata : Int, be : Nat]
    /\ i \in [fsm : {"IDLE", "UNC_WAIT"} \cup MissStates, word : Nat, addr : Int \X Int]
    /\ dcache \in CacheType
    /\ wbuf = [line |-> wbuf.line, data |-> wbuf.data] /\ wbuf.line \in Int
    /\ DOMAIN wbuf.data \subseteq Words /\ wbuf.data \in [DOMAIN wbuf.data -> Int]
    /\ req \subseteq Transactions
    /\ cmd \in [fsm : Transactions \cup {"IDLE"}, cpt : Int, max : Int]
    /\ rsp \in [fsm : Transactions \cup {"IDLE"}, cpt : Nat, error : SUBSET {"DATA", "INS"}]
    /\ fifo \in [DATA : Seq(Int), INS : Seq(Int)]
    /\ ram \in [fsm : {"IDLE", "WRITE", "RSP"}, addr : Int \X Int,
                op : {"READ", "WRITE", "LL", "SC"}, left : Int]
    /\ fb \in [fsm : {"IDLE"} \cup FbAnswers, index : Int, count : Int, data : Int]
    /\ mem \in [RamAddrs -> Int] /\ surface \in [Pixels -> Int]
    /\ ref \in [RamAddrs \cup FbAddrs -> Int]

\* What the data cache is doing, from the request it accepted.
DataRequest ==
    /\ d.fsm # "IDLE" => Held \in prog.data
    /\ d.fsm \in MissStates => d.type = "READ" /\ d.addr[1] \in Cached
    /\ d.fsm = "UNC_WAIT" => d.type \in {"READ", "LL", "SC"} /\ (d.type = "READ" => d.addr[1] \notin Cached)
    /\ d.fsm \in WriteStates => d.type = "WRITE" /\ (d.cacheable <=> d.addr[1] \in Cached)
    /\ d.fsm \in ExternStates => d.type = "INVAL"
    /\ Waits \/ d.fsm \in ExternStates => dreq = Held

\* A read goes through its request, the transaction on the bus, and the last word
\* or the error that waits for the cache.  t is the name of the transaction, word and
\* waits the progress of the cache, side its half of the port.
Asked(t, word, side) ==
    t \in req /\ rsp.fsm # t /\ word = 0 /\ fifo[side] = <<>> /\ side \notin rsp.error
Served(t, word, waits, side) ==
    /\ t \notin req /\ rsp.fsm = t /\ word + Len(fifo[side]) = rsp.cpt /\ Len(fifo[side]) <= 1
    /\ side \notin rsp.error /\ rsp.cpt < LineWords
    /\ cmd.fsm # t => waits
    /\ t \in {"DATA_UNC", "INS_UNC"} => rsp.cpt = 0
Arrived(t, word, waits, side) ==
    /\ t \notin req /\ rsp.fsm # t /\ waits /\ side \notin rsp.error /\ Len(fifo[side]) = 1
    /\ t \in {"DATA_MISS", "INS_MISS"} => word = LineWords - 1
Refused(t, waits, side) ==
    t \notin req /\ rsp.fsm # t /\ waits /\ side \in rsp.error /\ fifo[side] = <<>>
ReadPhase(t, word, waits, side) ==
    \/ Asked(t, word, side) \/ Served(t, word, waits, side)
    \/ Arrived(t, word, waits, side) \/ Refused(t, waits, side)
NoRead(ts, side) ==
    req \cap ts = {} /\ rsp.fsm \notin ts /\ fifo[side] = <<>> /\ side \notin rsp.error

DataReads == {"DATA_MISS", "DATA_UNC"}
InsReads == {"INS_MISS", "INS_UNC"}
Misses == {"DATA_MISS", "INS_MISS"}

DataMiss ==
    /\ d.word < LineWords /\ ReadPhase("DATA_MISS", d.word, d.fsm = "MISS_WAIT", "DATA")
    /\ "DATA_UNC" \notin req /\ rsp.fsm # "DATA_UNC"
    /\ d.fsm = "MISS_SELECT" => "DATA_MISS" \in req
DataUncached ==
    /\ ReadPhase("DATA_UNC", 0, TRUE, "DATA")
    /\ "DATA_MISS" \notin req /\ rsp.fsm # "DATA_MISS"
DataSide ==
    /\ d.fsm \in MissStates => DataMiss
    /\ d.fsm = "UNC_WAIT" => DataUncached
    /\ ~Waits => NoRead(DataReads, "DATA")

InstructionMiss ==
    /\ i.word < LineWords /\ i.addr \in Addr /\ i.addr[1] \in Cached
    /\ ReadPhase("INS_MISS", i.word, i.fsm = "MISS_WAIT", "INS")
    /\ "INS_UNC" \notin req /\ rsp.fsm # "INS_UNC"
    /\ i.fsm = "MISS_SELECT" => "INS_MISS" \in req
InstructionUncached ==
    /\ i.addr \in Addr /\ ReadPhase("INS_UNC", 0, TRUE, "INS")
    /\ "INS_MISS" \notin req /\ rsp.fsm # "INS_MISS"
InsSide ==
    /\ i.fsm \in MissStates => InstructionMiss
    /\ i.fsm = "UNC_WAIT" => InstructionUncached
    /\ i.fsm = "IDLE" => NoRead(InsReads, "INS")

\* The write buffer holds a line while there is something to write, and a read never
\* starts before it was sent.
WriteSide ==
    /\ wbuf.line = NoLine <=> DOMAIN wbuf.data = {}
    /\ wbuf.line # NoLine => wbuf.line \in Nat
    /\ "DATA_WRITE" \in req => wbuf.line # NoLine
    /\ cmd.fsm = "DATA_WRITE" =>
          /\ "DATA_WRITE" \in req
          /\ cmd.max = MaxWord(DOMAIN wbuf.data)
          /\ cmd.cpt \in MinWord(DOMAIN wbuf.data) .. cmd.max
    /\ wbuf.line # NoLine /\ wbuf.line \notin Cached =>
          "DATA_WRITE" \in req /\ \A v, w \in DOMAIN wbuf.data : v = w
    /\ wbuf.line # NoLine /\ "DATA_WRITE" \notin req => d.fsm \in WriteStates
    /\ Waits /\ req \cap {"DATA_MISS", "DATA_UNC"} = {} => wbuf.line = NoLine

\* The address that a transaction reads.
ReadAddr == CASE rsp.fsm = "DATA_MISS" -> <<d.addr[1], rsp.cpt>>
              [] rsp.fsm = "DATA_UNC" -> d.addr
              [] rsp.fsm = "INS_MISS" -> <<i.addr[1], rsp.cpt>>
              [] rsp.fsm = "INS_UNC" -> i.addr
              [] OTHER -> ram.addr
ReadOp == CASE rsp.fsm = "DATA_UNC" -> d.type
            [] rsp.fsm = "DATA_WRITE" -> "WRITE"
            [] OTHER -> "READ"

RamAnswer ==
    /\ ram.fsm = "RSP" /\ fb.fsm = "IDLE" /\ ram.addr = ReadAddr /\ ram.op = ReadOp
    /\ ram.left = IF rsp.fsm \in {"DATA_MISS", "INS_MISS"} /\ ram.addr \in RamAddrs
                  THEN LineWords - rsp.cpt ELSE 1
    /\ ram.addr \notin RamAddrs => rsp.cpt = 0
    /\ rsp.fsm # "DATA_WRITE" => ram.addr[1] < FbLine
FbAnswer ==
    /\ ram.fsm = "IDLE" /\ fb.fsm \in FbAnswers
    /\ rsp.fsm \in {"DATA_UNC", "INS_UNC", "DATA_WRITE"}
    /\ fb.fsm = "READ_BUF_RSP" => fb.count = 1 /\ rsp.fsm # "DATA_WRITE" /\ fb.index = FbIndex(ReadAddr)
    /\ rsp.fsm = "DATA_UNC" =>
          ReadAddr[1] >= FbLine /\ (FbIndex(ReadAddr) \in Pixels => fb.fsm = "READ_BUF_RSP")

\* The two automata of the port and the targets are in the same transaction.
PortAgrees ==
    /\ cmd.fsm # "IDLE" => rsp.fsm = cmd.fsm /\ rsp.cpt = 0 /\ fb.fsm = "IDLE" /\ ram.fsm # "RSP"
    /\ ram.fsm = "WRITE" => cmd.fsm = "DATA_WRITE" /\ wbuf.line < FbLine
    /\ rsp.fsm = "IDLE" => ram.fsm = "IDLE" /\ fb.fsm = "IDLE"
    /\ cmd.fsm = "IDLE" /\ rsp.fsm # "IDLE" => RamAnswer \/ FbAnswer

\* The value that the targets hold, and the one that the stores on their way give.
Stored_(a) == IF a \in RamAddrs THEN mem[a] ELSE surface[FbIndex(a)]
Buffered(a) == wbuf.line = a[1] /\ a[2] \in DOMAIN wbuf.data
Effective(a) ==
    IF d.fsm \in WriteStates /\ d.addr = a THEN d.wdata
    ELSE IF Buffered(a) THEN wbuf.data[a[2]] ELSE Stored_(a)
\* An SC that the memory has executed and the processor does not know of.
ScDone(a) ==
    d.fsm = "UNC_WAIT" /\ d.type = "SC" /\ d.addr = a /\ "DATA_UNC" \notin req /\ cmd.fsm # "DATA_UNC"
ScWords == {r.addr : r \in {q \in prog.data : q.type = "SC"}}

MemoryAgrees ==
    \A a \in RamAddrs \cup FbAddrs :
        /\ Effective(a) = IF ScDone(a) THEN d.wdata ELSE ref[a]
        /\ cmd.fsm = "DATA_WRITE" /\ Buffered(a) /\ a[2] < cmd.cpt => Stored_(a) = wbuf.data[a[2]]

CacheAgrees ==
    \A s \in 0 .. Sets - 1 : dcache[s].line # NoLine =>
        /\ dcache[s].line \in Cached /\ dcache[s].line % Sets = s
        /\ \A w \in Words :
              LET a == <<dcache[s].line, w>>
              IN  a \in DOMAIN ref /\ a \notin ScWords /\ ~(d.fsm = "WRITE_UPDT" /\ d.addr = a)
                     => dcache[s].data[w] = ref[a]

\* A line that comes: the words before d.word are in the cache, the next one in the
\* fifo.
FillAgrees ==
    /\ d.fsm = "MISS_WAIT" =>
         /\ dcache[SetOf(d.addr)].line = NoLine
         /\ \A w \in 0 .. d.word - 1 : <<d.addr[1], w>> \in DOMAIN ref =>
               dcache[SetOf(d.addr)].data[w] = ref[<<d.addr[1], w>>]
         /\ fifo.DATA # <<>> /\ <<d.addr[1], d.word>> \in DOMAIN ref =>
               fifo.DATA[1] = ref[<<d.addr[1], d.word>>]
    /\ d.fsm = "WRITE_UPDT" => Hit(dcache, d.addr)
    /\ d.fsm = "UNC_WAIT" /\ d.type # "SC" /\ fifo.DATA # <<>> /\ d.addr \in DOMAIN ref =>
         fifo.DATA[1] = ref[d.addr]

SocInv == SocTypeOK /\ DataRequest /\ DataSide /\ InsSide /\ WriteSide /\ PortAgrees
             /\ MemoryAgrees /\ CacheAgrees /\ FillAgrees

-----------------------------------------------------------------------------
(***************************************************************************)
(* Facts about the operators.                                              *)
(***************************************************************************)
\* A set of natural numbers that is not empty has a least element.
LEMMA LeastOf ==
    ASSUME NEW T \in SUBSET Nat, T # {}
    PROVE  \E x \in T : \A y \in T : x <= y
<1>1. PICK x \in T : \A y \in T : ~ (<<y, x>> \in OpToRel(<, Nat))
  BY WFMin, NatLessThanWellFounded
<1>2. \A y \in T : <<y, x>> \in Nat \X Nat
  OBVIOUS
<1>3. \A y \in T : ~ (y < x)
  BY <1>1, <1>2 DEF OpToRel
<1> QED BY <1>3

\* MinWord and MaxWord are the first and the last word of a set of words.
LEMMA WordBounds ==
    ASSUME NEW S \in SUBSET Words, S # {}
    PROVE  /\ MinWord(S) \in S /\ \A v \in S : MinWord(S) <= v
           /\ MaxWord(S) \in S /\ \A v \in S : MaxWord(S) >= v
<1>0. LineWords \in Nat \ {0} /\ S \in SUBSET Nat
  BY XcacheAssumption DEF Words
<1>1. \E x \in S : \A y \in S : x <= y
  BY <1>0, LeastOf
<1>2. \E x \in S : \A y \in S : x >= y
  <2> DEFINE T == {LineWords - 1 - w : w \in S}
  <2>1. T \in SUBSET Nat /\ T # {}
    <3>1. ASSUME NEW w \in S PROVE LineWords - 1 - w \in Nat
      BY <1>0 DEF Words
    <3> QED BY <3>1
  <2> HIDE DEF T
  <2>2. PICK m \in T : \A y \in T : m <= y
    BY <2>1, LeastOf
  <2>3. PICK x \in S : m = LineWords - 1 - x
    BY DEF T
  <2>4. ASSUME NEW y \in S PROVE x >= y
    <3>1. LineWords - 1 - y \in T
      BY DEF T
    <3>2. m <= LineWords - 1 - y
      BY <2>2, <3>1
    <3> QED BY <1>0, <2>3, <3>2
  <2> QED BY <2>4
<1> QED BY <1>1, <1>2 DEF MinWord, MaxWord

\* The request of highest priority; a read of data comes after the writes.
LEMMA FirstRequest ==
    ASSUME NEW S \in SUBSET Transactions, S # {}
    PROVE  /\ First(S) \in S
           /\ First(S) \in {"DATA_MISS", "DATA_UNC"} => "DATA_WRITE" \notin S
<1> DEFINE N == {n \in 1 .. 5 : Priority[n] \in S}
           m == MinWord(N)
<1>1. /\ Priority[1] = "INS_MISS" /\ Priority[2] = "INS_UNC" /\ Priority[3] = "DATA_WRITE"
      /\ Priority[4] = "DATA_MISS" /\ Priority[5] = "DATA_UNC"
  BY DEF Priority
<1>2. N # {}
  <2>1. PICK t : t \in S
    OBVIOUS
  <2>2. t \in {"INS_MISS", "INS_UNC", "DATA_WRITE", "DATA_MISS", "DATA_UNC"}
    BY <2>1 DEF Transactions
  <2>3. \E n \in 1 .. 5 : Priority[n] = t
    BY <1>1, <2>2
  <2> QED BY <2>1, <2>3
<1>3. N \in SUBSET Nat /\ N \in SUBSET (1 .. 5)
  OBVIOUS
<1> HIDE DEF N
<1>4. \E x \in N : \A y \in N : x <= y
  BY <1>2, <1>3, LeastOf
<1>5. m \in N /\ \A y \in N : m <= y
  BY <1>4 DEF MinWord
<1> HIDE DEF m
<1>6. First(S) = Priority[m]
  BY DEF First, N, m
<1>7. m \in 1 .. 5 /\ Priority[m] \in S
  BY <1>5 DEF N
<1>8. ASSUME First(S) \in {"DATA_MISS", "DATA_UNC"}, "DATA_WRITE" \in S PROVE FALSE
  <2>1. 3 \in N
    BY <1>1, <1>8 DEF N
  <2>2. m <= 3
    BY <1>5, <2>1
  <2>3. m = 1 \/ m = 2 \/ m = 3
    BY <1>7, <2>2
  <2> QED BY <1>1, <1>6, <1>8, <2>3
<1> QED BY <1>6, <1>7, <1>8

\* The two halves of an address.
LEMMA AddrParts ==
    ASSUME NEW a \in Addr
    PROVE  /\ a[1] \in Nat /\ a[2] \in Words /\ a[2] \in Nat /\ a[2] < LineWords
           /\ a = <<a[1], a[2]>> /\ a \in Int \X Int
<1>1. a[1] \in Nat /\ a[2] \in Words /\ a = <<a[1], a[2]>>
  BY DEF Addr
<1>2. a[2] \in Nat /\ a[2] < LineWords
  BY <1>1, XcacheAssumption DEF Words
<1>3. <<a[1], a[2]>> \in Int \X Int
  BY <1>1, <1>2
<1> QED BY <1>1, <1>2, <1>3

\* The words of the frame buffer, and their addresses.
LEMMA FbAddresses ==
    ASSUME NEW a \in Addr
    PROVE  /\ FbIndex(a) \in Int
           /\ FbIndex(a) \in Pixels <=> a \in FbAddrs
           /\ a[1] >= FbLine <=> FbIndex(a) >= 0
<1> DEFINE l == a[1] - FbLine
           w == a[2]
<1>1. /\ a[1] \in Nat /\ w \in 0 .. LineWords - 1 /\ LineWords \in Nat \ {0} /\ FbLine \in Nat
      /\ SurfaceSize \in Nat \ {0} /\ a = <<a[1], a[2]>>
  BY XcacheAssumption, SocAssumption, FrameBufferAssumption DEF Addr, Words
<1>2. FbIndex(a) = l * LineWords + w /\ l \in Int
  BY <1>1 DEF FbIndex
<1> HIDE DEF l
<1>3. l * LineWords \in Int /\ FbIndex(a) \in Int
  BY <1>1, <1>2
<1>4. l >= 0 => l * LineWords >= l /\ l * LineWords >= 0
  BY <1>1, <1>2
<1>5. l < 0 => l * LineWords <= - LineWords
  BY <1>1, <1>2
<1>6. l >= 0 <=> FbIndex(a) >= 0
  BY <1>1, <1>2, <1>3, <1>4, <1>5
<1>7. a[1] >= FbLine <=> FbIndex(a) >= 0
  BY <1>1, <1>6 DEF l
<1>8. FbIndex(a) \in Pixels => a[1] \in FbLine .. FbLine + SurfaceSize
  <2>1. FbIndex(a) \in Pixels => l >= 0 /\ l <= SurfaceSize
    BY <1>1, <1>2, <1>3, <1>4, <1>6 DEF Pixels
  <2> QED BY <1>1, <2>1 DEF l
<1>9. FbIndex(a) \in Pixels <=> a \in FbAddrs
  BY <1>1, <1>8 DEF FbAddrs, Words
<1> QED BY <1>3, <1>7, <1>9

\* Two addresses of the frame buffer are two words of its segment.
LEMMA FbIndexInjective ==
    ASSUME NEW a \in Addr, NEW b \in Addr, FbIndex(a) = FbIndex(b)
    PROVE  a = b
<1> DEFINE l == a[1]
           m == b[1]
           v == a[2]
           w == b[2]
           k == l - m
<1>1. /\ l \in Nat /\ m \in Nat /\ v \in 0 .. LineWords - 1 /\ w \in 0 .. LineWords - 1
      /\ LineWords \in Nat \ {0} /\ FbLine \in Nat /\ a = <<l, v>> /\ b = <<m, w>>
  BY XcacheAssumption, SocAssumption DEF Addr, Words
<1>2. (l - FbLine) * LineWords + v = (m - FbLine) * LineWords + w
  BY DEF FbIndex
<1> HIDE DEF l, m, v, w
<1>3. k * LineWords = w - v
  BY <1>1, <1>2
<1>4. k \in Int
  BY <1>1
<1> HIDE DEF k
<1>5. k >= 1 => k * LineWords >= LineWords
  BY <1>1, <1>4
<1>6. k <= -1 => k * LineWords <= - LineWords
  BY <1>1, <1>4
<1>7. k = 0
  BY <1>1, <1>3, <1>4, <1>5, <1>6
<1>8. l = m /\ v = w
  BY <1>1, <1>3, <1>7 DEF k
<1> QED BY <1>1, <1>8

-----------------------------------------------------------------------------
(***************************************************************************)
(* What the port receives.                                                 *)
(***************************************************************************)
PortRsp(g) == [TargetRsp EXCEPT !.val = g /\ @]
Answered(g) == g /\ (fb.fsm \in FbAnswers \/ ram.fsm = "RSP")
Passes(g) == g /\ cmd.fsm # "IDLE"
Begins(t) == Start /\ First(req) = t

\* The flit that a target drives, from the automaton that answers.
LEMMA TargetFlit ==
    ASSUME SocTypeOK
    PROVE  /\ TargetRsp.val <=> (fb.fsm \in FbAnswers \/ ram.fsm = "RSP")
           /\ fb.fsm \in FbAnswers =>
                /\ TargetRsp.error <=> fb.fsm = "ERROR_RSP"
                /\ TargetRsp.eop <=> (fb.fsm = "READ_BUF_RSP" => fb.count = 1)
                /\ fb.fsm = "READ_BUF_RSP" /\ fb.index \in Pixels => TargetRsp.data = surface[fb.index]
           /\ fb.fsm = "IDLE" =>
                /\ TargetRsp.error <=> ram.addr \notin RamAddrs
                /\ TargetRsp.eop <=> ram.left = 1
                /\ ram.addr \in RamAddrs /\ ram.op \in {"READ", "LL"} => TargetRsp.data = mem[ram.addr]
           /\ TargetRsp.data \in Int /\ TargetRsp.eop \in BOOLEAN /\ TargetRsp.error \in BOOLEAN
           /\ DOMAIN TargetRsp = {"val", "error", "eop", "data"}
<1>1. /\ fb.fsm \in {"IDLE"} \cup FbAnswers /\ fb.data \in Int
      /\ surface \in [Pixels -> Int] /\ mem \in [RamAddrs -> Int]
  BY DEF SocTypeOK
<1>2. FbRspval <=> fb.fsm \in FbAnswers
  BY <1>1 DEF FbRspval, FbCmdack, FbAnswers
<1>3. FbRsp.val <=> fb.fsm \in FbAnswers
  BY <1>2 DEF FbRsp
<1>4. CASE fb.fsm \in FbAnswers
  <2>1. TargetRsp = FbRsp
    BY <1>3, <1>4 DEF TargetRsp
  <2>2. fb.fsm # "IDLE"
    BY <1>4 DEF FbAnswers
  <2>3. /\ FbRsp.val = FbRspval /\ FbRsp.error = (fb.fsm = "ERROR_RSP")
        /\ FbRsp.eop = (fb.fsm = "READ_BUF_RSP" => fb.count = 1)
        /\ DOMAIN FbRsp = {"val", "error", "eop", "data"}
    BY Zenon DEF FbRsp
  <2>4. FbRsp.data = IF fb.fsm = "READ_REG_RSP" THEN fb.data
                     ELSE IF fb.fsm = "READ_BUF_RSP" /\ fb.index \in Pixels THEN surface[fb.index]
                     ELSE 0
    BY DEF FbRsp
  <2>5. FbRsp.data \in Int
    BY <1>1, <2>4
  <2>6. fb.fsm = "READ_BUF_RSP" => fb.fsm # "READ_REG_RSP"
    OBVIOUS
  <2>7. fb.fsm = "READ_BUF_RSP" /\ fb.index \in Pixels => FbRsp.data = surface[fb.index]
    BY <2>4, <2>6
  <2> QED BY <1>2, <1>4, <2>1, <2>2, <2>3, <2>5, <2>7
<1>5. CASE fb.fsm = "IDLE"
  <2>1. fb.fsm \notin FbAnswers
    BY <1>5 DEF FbAnswers
  <2>2. TargetRsp = RamRsp
    BY <1>3, <2>1 DEF TargetRsp
  <2>3. /\ RamRsp.val = (ram.fsm = "RSP") /\ RamRsp.error = RamError /\ RamRsp.eop = (ram.left = 1)
        /\ DOMAIN RamRsp = {"val", "error", "eop", "data"}
    BY Zenon DEF RamRsp
  <2>4. RamRsp.data = IF RamError \/ ram.op \notin {"READ", "LL"} THEN 0 ELSE mem[ram.addr]
    BY DEF RamRsp
  <2>5. RamRsp.data \in Int
    BY <1>1, <2>4 DEF RamError
  <2>6. ram.addr \in RamAddrs /\ ram.op \in {"READ", "LL"} => RamRsp.data = mem[ram.addr]
    BY <2>4 DEF RamError
  <2>7. RamError <=> ram.addr \notin RamAddrs
    BY DEF RamError
  <2>8. RamError \in BOOLEAN
    BY DEF RamError
  <2> QED BY <2>1, <2>2, <2>3, <2>5, <2>6, <2>7, <2>8
<1> QED BY <1>1, <1>4, <1>5

\* The flit that reaches the controller: a target answers only when it is granted.
LEMMA PortFlit ==
    ASSUME SocTypeOK, NEW g \in BOOLEAN
    PROVE  /\ PortRsp(g).val <=> Answered(g)
           /\ PortRsp(g).error = TargetRsp.error /\ PortRsp(g).eop = TargetRsp.eop
           /\ PortRsp(g).data = TargetRsp.data
<1>1. DOMAIN TargetRsp = {"val", "error", "eop", "data"}
  BY TargetFlit
<1>2. TargetRsp.val <=> (fb.fsm \in FbAnswers \/ ram.fsm = "RSP")
  BY TargetFlit
<1> QED BY <1>1, <1>2 DEF PortRsp, Answered

\* The transaction of the response automaton is the one a cache waits for.
ServesData ==
    /\ rsp.fsm = "DATA_MISS" =>
          d.fsm \in {"MISS_INVAL", "MISS_WAIT"} /\ Served("DATA_MISS", d.word, d.fsm = "MISS_WAIT", "DATA")
    /\ rsp.fsm = "DATA_UNC" => d.fsm = "UNC_WAIT" /\ Served("DATA_UNC", 0, TRUE, "DATA")
ServesIns ==
    /\ rsp.fsm = "INS_MISS" =>
          i.fsm \in {"MISS_INVAL", "MISS_WAIT"} /\ Served("INS_MISS", i.word, i.fsm = "MISS_WAIT", "INS")
    /\ rsp.fsm = "INS_UNC" => i.fsm = "UNC_WAIT" /\ Served("INS_UNC", 0, TRUE, "INS")

\* While the response automaton is in a read, the cache that asked for it waits.
LEMMA Serving ==
    ASSUME SocInv
    PROVE  ServesData /\ ServesIns
<1>1. ServesData
  <2>1. DataSide
    BY DEF SocInv
  <2>2. CASE d.fsm \in MissStates
    <3>1. /\ ReadPhase("DATA_MISS", d.word, d.fsm = "MISS_WAIT", "DATA") /\ rsp.fsm # "DATA_UNC"
          /\ d.fsm = "MISS_SELECT" => "DATA_MISS" \in req
      BY <2>1, <2>2 DEF DataSide, DataMiss
    <3>2. rsp.fsm = "DATA_MISS" => Served("DATA_MISS", d.word, d.fsm = "MISS_WAIT", "DATA")
      BY <3>1 DEF ReadPhase, Asked, Arrived, Refused
    <3>3. rsp.fsm = "DATA_MISS" => "DATA_MISS" \notin req
      BY <3>2 DEF Served
    <3> QED BY <2>2, <3>1, <3>2, <3>3 DEF ServesData, MissStates
  <2>3. CASE d.fsm = "UNC_WAIT"
    <3>2. ReadPhase("DATA_UNC", 0, TRUE, "DATA") /\ rsp.fsm # "DATA_MISS"
      BY <2>1, <2>3 DEF DataSide, DataUncached
    <3>3. rsp.fsm = "DATA_UNC" => Served("DATA_UNC", 0, TRUE, "DATA")
      BY <3>2 DEF ReadPhase, Asked, Arrived, Refused
    <3> QED BY <2>3, <3>2, <3>3 DEF ServesData
  <2>4. CASE d.fsm \notin MissStates /\ d.fsm # "UNC_WAIT"
    <3>1. NoRead(DataReads, "DATA")
      BY <2>1, <2>4 DEF DataSide, Waits
    <3> QED BY <3>1 DEF NoRead, ServesData, DataReads
  <2> QED BY <2>2, <2>3, <2>4
<1>2. ServesIns
  <2>1. InsSide
    BY DEF SocInv
  <2>2. CASE i.fsm \in MissStates
    <3>1. /\ ReadPhase("INS_MISS", i.word, i.fsm = "MISS_WAIT", "INS") /\ rsp.fsm # "INS_UNC"
          /\ i.fsm = "MISS_SELECT" => "INS_MISS" \in req
      BY <2>1, <2>2 DEF InsSide, InstructionMiss
    <3>2. rsp.fsm = "INS_MISS" => Served("INS_MISS", i.word, i.fsm = "MISS_WAIT", "INS")
      BY <3>1 DEF ReadPhase, Asked, Arrived, Refused
    <3>3. rsp.fsm = "INS_MISS" => "INS_MISS" \notin req
      BY <3>2 DEF Served
    <3> QED BY <2>2, <3>1, <3>2, <3>3 DEF ServesIns, MissStates
  <2>3. CASE i.fsm = "UNC_WAIT"
    <3>2. ReadPhase("INS_UNC", 0, TRUE, "INS") /\ rsp.fsm # "INS_MISS"
      BY <2>1, <2>3 DEF InsSide, InstructionUncached
    <3>3. rsp.fsm = "INS_UNC" => Served("INS_UNC", 0, TRUE, "INS")
      BY <3>2 DEF ReadPhase, Asked, Arrived, Refused
    <3> QED BY <2>3, <3>2, <3>3 DEF ServesIns
  <2>4. CASE i.fsm = "IDLE"
    <3>1. NoRead(InsReads, "INS")
      BY <2>1, <2>4 DEF InsSide
    <3> QED BY <3>1 DEF NoRead, ServesIns, InsReads
  <2>5. i.fsm \in {"IDLE", "UNC_WAIT"} \cup MissStates
    BY DEF SocInv, SocTypeOK
  <2> QED BY <2>2, <2>3, <2>4, <2>5
<1> QED BY <1>1, <1>2

\* What a flit of a response is, in each transaction.
RspFacts(g) ==
    Answered(g) =>
        /\ cmd.fsm = "IDLE" /\ rsp.fsm \in Transactions
        /\ rsp.fsm \notin Misses => TargetRsp.eop
        /\ rsp.fsm \in Misses /\ TargetRsp.error => TargetRsp.eop /\ rsp.cpt = 0
        /\ rsp.fsm \in Misses /\ ~TargetRsp.error => (TargetRsp.eop <=> rsp.cpt = LineWords - 1)
        /\ rsp.fsm # "DATA_WRITE" => Len(fifo[Side]) <= 1 /\ rsp.cpt < LineWords

\* A flit of a response is the one the response automaton expects.
LEMMA FlitIsExpected ==
    ASSUME SocInv, NEW g \in BOOLEAN
    PROVE  RspFacts(g)
<1> SUFFICES ASSUME Answered(g)
             PROVE  /\ cmd.fsm = "IDLE" /\ rsp.fsm \in Transactions
                    /\ rsp.fsm \notin Misses => TargetRsp.eop
                    /\ rsp.fsm \in Misses /\ TargetRsp.error => TargetRsp.eop /\ rsp.cpt = 0
                    /\ rsp.fsm \in Misses /\ ~TargetRsp.error => (TargetRsp.eop <=> rsp.cpt = LineWords - 1)
                    /\ rsp.fsm # "DATA_WRITE" => Len(fifo[Side]) <= 1 /\ rsp.cpt < LineWords
  BY DEF RspFacts
<1>0. SocTypeOK /\ PortAgrees
  BY DEF SocInv
<1>1. fb.fsm \in FbAnswers \/ ram.fsm = "RSP"
  BY DEF Answered
<1>2. cmd.fsm = "IDLE" /\ rsp.fsm # "IDLE"
  BY <1>0, <1>1 DEF PortAgrees, FbAnswers
<1>3. rsp.fsm \in Transactions /\ LineWords \in Nat \ {0} /\ rsp.cpt \in Nat
  BY <1>0, <1>2, XcacheAssumption DEF SocTypeOK
<1>4. RamAnswer \/ FbAnswer
  BY <1>0, <1>2 DEF PortAgrees
<1> DEFINE Words_ == /\ rsp.fsm \notin Misses => TargetRsp.eop
                     /\ rsp.fsm \in Misses /\ TargetRsp.error => TargetRsp.eop /\ rsp.cpt = 0
                     /\ rsp.fsm \in Misses /\ ~TargetRsp.error => (TargetRsp.eop <=> rsp.cpt = LineWords - 1)
<1>5. ASSUME RamAnswer PROVE Words_
  <2>1. fb.fsm = "IDLE"
    BY <1>5 DEF RamAnswer
  <2>2. (TargetRsp.error <=> ram.addr \notin RamAddrs) /\ (TargetRsp.eop <=> ram.left = 1)
    BY <1>0, <2>1, TargetFlit
  <2>3. /\ ram.left = IF rsp.fsm \in Misses /\ ram.addr \in RamAddrs THEN LineWords - rsp.cpt ELSE 1
        /\ ram.addr \notin RamAddrs => rsp.cpt = 0
    BY <1>5 DEF RamAnswer, Misses
  <2> QED BY <1>3, <2>2, <2>3
<1>6. ASSUME FbAnswer PROVE Words_
  <2>1. /\ fb.fsm \in FbAnswers /\ rsp.fsm \in {"DATA_UNC", "INS_UNC", "DATA_WRITE"}
        /\ fb.fsm = "READ_BUF_RSP" => fb.count = 1
    BY <1>6 DEF FbAnswer
  <2>2. TargetRsp.eop
    BY <1>0, <2>1, TargetFlit
  <2> QED BY <2>1, <2>2 DEF Misses
<1>7. rsp.fsm # "DATA_WRITE" => Len(fifo[Side]) <= 1 /\ rsp.cpt < LineWords
  <2>1. ServesData /\ ServesIns
    BY Serving
  <2>2. CASE rsp.fsm \in InsReads
    <3>1. Side = "INS"
      BY <2>2 DEF Side, InsReads
    <3> QED BY <2>1, <2>2, <3>1 DEF ServesIns, InsReads, Served
  <2>3. CASE rsp.fsm \in DataReads
    <3>1. Side = "DATA"
      BY <2>3 DEF Side, DataReads
    <3> QED BY <2>1, <2>3, <3>1 DEF ServesData, DataReads, Served
  <2> QED BY <1>3, <2>2, <2>3 DEF Transactions, InsReads, DataReads
<1> QED BY <1>2, <1>3, <1>4, <1>5, <1>6, <1>7

-----------------------------------------------------------------------------
(***************************************************************************)
(* What a cycle does to the registers of the port.                         *)
(***************************************************************************)
Ends(g) == Answered(g) /\ TargetRsp.eop
Brings(g) == Answered(g) /\ ~TargetRsp.error /\ rsp.fsm # "DATA_WRITE"
Fails(g) == Answered(g) /\ TargetRsp.error /\ rsp.fsm # "DATA_WRITE"

RspMove(g) ==
    /\ rsp'.fsm = IF Start THEN First(req) ELSE IF Ends(g) THEN "IDLE" ELSE rsp.fsm
    /\ rsp'.cpt = IF Start THEN 0 ELSE IF Brings(g) THEN rsp.cpt + 1 ELSE rsp.cpt
    /\ "DATA" \in rsp'.error <=>
          ("DATA" \in rsp.error /\ ~ClearDataError) \/ (Fails(g) /\ rsp.fsm \in DataReads)
    /\ "INS" \in rsp'.error <=>
          ("INS" \in rsp.error /\ ~ClearInsError) \/ (Fails(g) /\ rsp.fsm \in InsReads)
    /\ rsp' = [fsm |-> rsp'.fsm, cpt |-> rsp'.cpt, error |-> rsp'.error]
    /\ rsp'.error \subseteq {"DATA", "INS"}

\* No word is lost: each word of a read goes into the fifo of its side.
LEMMA PutsAre ==
    ASSUME SocInv, NEW g \in BOOLEAN
    PROVE  /\ Puts(PortRsp(g)) <=> Brings(g)
           /\ Start => ~Answered(g)
<1>0. SocTypeOK /\ PortAgrees /\ RspFacts(g)
  BY FlitIsExpected DEF SocInv
<1>1. /\ PortRsp(g).val <=> Answered(g)
      /\ PortRsp(g).error = TargetRsp.error
  BY <1>0, PortFlit
<1>2. fifo[Side] \in Seq(Int)
  BY <1>0 DEF SocTypeOK, Side
<1>3. Answered(g) /\ rsp.fsm # "DATA_WRITE" => Len(fifo[Side]) < 2
  <2>1. Len(fifo[Side]) \in Nat
    BY <1>2
  <2> QED BY <1>0, <2>1 DEF RspFacts
<1>4. Answered(g) => rsp.fsm # "IDLE"
  BY <1>0 DEF RspFacts, Transactions
<1>5. Puts(PortRsp(g)) <=> Brings(g)
  BY <1>1, <1>3, <1>4 DEF Puts, Brings
<1>6. Start => ~Answered(g)
  BY <1>4 DEF Start
<1> QED BY <1>5, <1>6

\* A step moves the response automaton as RspMove says.
LEMMA RspNext ==
    ASSUME SocInv, NEW g \in BOOLEAN, SocStep(g)
    PROVE  RspMove(g)
<1> DEFINE r == PortRsp(g)
           failed == r.val /\ r.error /\ rsp.fsm \notin {"IDLE", "DATA_WRITE"}
           ended == r.val /\ r.eop /\ (r.error \/ Puts(r) \/ rsp.fsm = "DATA_WRITE")
<1>0. SocTypeOK /\ PortAgrees /\ RspFacts(g)
  BY FlitIsExpected DEF SocInv
<1>1. rsp' = [fsm |-> IF Start THEN First(req) ELSE IF ended THEN "IDLE" ELSE rsp.fsm,
              cpt |-> IF Start THEN 0 ELSE IF Puts(r) THEN rsp.cpt + 1 ELSE rsp.cpt,
              error |-> (rsp.error \ RspCleared) \cup (IF failed THEN {Side} ELSE {})]
  BY DEF SocStep, Cycle, RspStep, PortRsp
<1>2. /\ r.val <=> Answered(g)
      /\ r.error = TargetRsp.error /\ r.eop = TargetRsp.eop
  BY <1>0, PortFlit
<1>3. Puts(r) <=> Brings(g)
  BY PutsAre
<1> HIDE DEF r
<1>4. Answered(g) => rsp.fsm \in Transactions
  BY <1>0 DEF RspFacts
<1>5. failed <=> Fails(g)
  BY <1>2, <1>4 DEF Fails, Transactions
<1>6. ended <=> Ends(g)
  BY <1>2, <1>3 DEF Ends, Brings
<1> HIDE DEF failed, ended
<1>7. /\ rsp'.fsm = IF Start THEN First(req) ELSE IF Ends(g) THEN "IDLE" ELSE rsp.fsm
      /\ rsp'.cpt = IF Start THEN 0 ELSE IF Brings(g) THEN rsp.cpt + 1 ELSE rsp.cpt
      /\ rsp'.error = (rsp.error \ RspCleared) \cup (IF Fails(g) THEN {Side} ELSE {})
      /\ rsp' = [fsm |-> rsp'.fsm, cpt |-> rsp'.cpt, error |-> rsp'.error]
  BY <1>1, <1>3, <1>5, <1>6
<1>8. Fails(g) => (Side = "DATA" <=> rsp.fsm \in DataReads) /\ (Side = "INS" <=> rsp.fsm \in InsReads)
  BY <1>4 DEF Fails, Side, Transactions, DataReads, InsReads
<1>9. Side \in {"DATA", "INS"} /\ rsp.error \subseteq {"DATA", "INS"}
  BY <1>0 DEF Side, SocTypeOK
<1>10. ("DATA" \in RspCleared <=> ClearDataError) /\ ("INS" \in RspCleared <=> ClearInsError)
  BY DEF RspCleared
<1>11. /\ "DATA" \in rsp'.error <=>
             ("DATA" \in rsp.error /\ ~ClearDataError) \/ (Fails(g) /\ rsp.fsm \in DataReads)
       /\ "INS" \in rsp'.error <=>
             ("INS" \in rsp.error /\ ~ClearInsError) \/ (Fails(g) /\ rsp.fsm \in InsReads)
       /\ rsp'.error \subseteq {"DATA", "INS"}
  BY <1>7, <1>8, <1>9, <1>10
<1> QED BY <1>7, <1>11 DEF RspMove

\* A fifo holds at most one word, and holds one only while its cache waits.
ShortFifos ==
    /\ Len(fifo.DATA) <= 1 /\ Len(fifo.INS) <= 1
    /\ fifo.DATA # <<>> => d.fsm \in {"MISS_WAIT", "UNC_WAIT"} /\ "DATA" \notin rsp.error
    /\ fifo.INS # <<>> => i.fsm \in {"MISS_WAIT", "UNC_WAIT"} /\ "INS" \notin rsp.error

\* A fifo holds one word at most, and its cache is waiting for it.
LEMMA FifosAreShort ==
    ASSUME SocInv
    PROVE  ShortFifos
<1>0. SocTypeOK /\ DataSide /\ InsSide /\ PortAgrees
  BY DEF SocInv
<1>1. fifo.DATA \in Seq(Int) /\ fifo.INS \in Seq(Int) /\ rsp.cpt \in Nat /\ d.word \in Nat /\ i.word \in Nat
  BY <1>0 DEF SocTypeOK
<1>2. cmd.fsm # "IDLE" => rsp.fsm = cmd.fsm /\ rsp.cpt = 0
  BY <1>0 DEF PortAgrees
<1>3. ASSUME NEW side \in {"DATA", "INS"}, NEW t, NEW word \in Nat, NEW waits, t # "IDLE",
             ReadPhase(t, word, waits, side)
      PROVE  Len(fifo[side]) <= 1 /\ (fifo[side] # <<>> => waits /\ side \notin rsp.error)
  <2>1. fifo[side] \in Seq(Int) /\ Len(fifo[side]) \in Nat /\ (Len(fifo[side]) = 0 <=> fifo[side] = <<>>)
    BY <1>1
  <2>2. CASE Asked(t, word, side)
    BY <2>1, <2>2 DEF Asked
  <2>3. CASE Served(t, word, waits, side)
    <3>1. word + Len(fifo[side]) = rsp.cpt /\ Len(fifo[side]) <= 1 /\ side \notin rsp.error
      BY <2>3 DEF Served
    <3>2. cmd.fsm # t => waits
      BY <2>3 DEF Served
    <3>3. ASSUME fifo[side] # <<>>, cmd.fsm = t PROVE FALSE
      <4>1. rsp.cpt = 0
        BY <1>2, <1>3, <3>3
      <4> QED BY <1>3, <2>1, <3>1, <3>3, <4>1
    <3> QED BY <3>1, <3>2, <3>3
  <2>4. CASE Arrived(t, word, waits, side)
    BY <2>4 DEF Arrived
  <2>5. CASE Refused(t, waits, side)
    BY <2>1, <2>5 DEF Refused
  <2> QED BY <1>3, <2>2, <2>3, <2>4, <2>5 DEF ReadPhase
<1>4. Len(fifo.DATA) <= 1 /\ (fifo.DATA # <<>> => d.fsm \in {"MISS_WAIT", "UNC_WAIT"} /\ "DATA" \notin rsp.error)
  <2>1. CASE d.fsm \in MissStates
    <3>1. ReadPhase("DATA_MISS", d.word, d.fsm = "MISS_WAIT", "DATA")
      BY <1>0, <2>1 DEF DataSide, DataMiss
    <3> QED BY <1>1, <1>3, <3>1
  <2>2. CASE d.fsm = "UNC_WAIT"
    <3>1. ReadPhase("DATA_UNC", 0, TRUE, "DATA")
      BY <1>0, <2>2 DEF DataSide, DataUncached
    <3> QED BY <1>3, <2>2, <3>1
  <2>3. CASE ~Waits
    <3>1. fifo.DATA = <<>>
      BY <1>0, <2>3 DEF DataSide, NoRead
    <3> QED BY <1>1, <3>1
  <2> QED BY <2>1, <2>2, <2>3 DEF Waits
<1>5. Len(fifo.INS) <= 1 /\ (fifo.INS # <<>> => i.fsm \in {"MISS_WAIT", "UNC_WAIT"} /\ "INS" \notin rsp.error)
  <2>1. CASE i.fsm \in MissStates
    <3>1. ReadPhase("INS_MISS", i.word, i.fsm = "MISS_WAIT", "INS")
      BY <1>0, <2>1 DEF InsSide, InstructionMiss
    <3> QED BY <1>1, <1>3, <3>1
  <2>2. CASE i.fsm = "UNC_WAIT"
    <3>1. ReadPhase("INS_UNC", 0, TRUE, "INS")
      BY <1>0, <2>2 DEF InsSide, InstructionUncached
    <3> QED BY <1>3, <2>2, <3>1
  <2>3. CASE i.fsm = "IDLE"
    <3>1. fifo.INS = <<>>
      BY <1>0, <2>3 DEF InsSide, NoRead
    <3> QED BY <1>1, <3>1
  <2>4. i.fsm \in {"IDLE", "UNC_WAIT"} \cup MissStates
    BY <1>0 DEF SocTypeOK
  <2> QED BY <2>1, <2>2, <2>3, <2>4
<1> QED BY <1>4, <1>5 DEF ShortFifos

FifoMove(g) ==
    /\ fifo'.DATA = IF Brings(g) /\ rsp.fsm \in DataReads THEN <<TargetRsp.data>>
                    ELSE IF GetData THEN <<>> ELSE fifo.DATA
    /\ fifo'.INS = IF Brings(g) /\ rsp.fsm \in InsReads THEN <<TargetRsp.data>>
                   ELSE IF GetIns THEN <<>> ELSE fifo.INS
    /\ fifo' \in [DATA : Seq(Int), INS : Seq(Int)]

\* A step moves the two fifos as FifoMove says.
LEMMA FifoNext ==
    ASSUME SocInv, NEW g \in BOOLEAN, SocStep(g)
    PROVE  FifoMove(g)
<1> DEFINE r == PortRsp(g)
<1>0. SocTypeOK /\ RspFacts(g) /\ ShortFifos
  BY FlitIsExpected, FifosAreShort DEF SocInv
<1>1. Puts(r) <=> Brings(g)
  BY PutsAre
<1>2. r.data = TargetRsp.data /\ TargetRsp.data \in Int
  BY <1>0, PortFlit, TargetFlit
<1>3. fifo' = [DATA |-> (IF GetData THEN Tail(fifo.DATA) ELSE fifo.DATA)
                           \o (IF Puts(r) /\ Side = "DATA" THEN <<r.data>> ELSE <<>>),
               INS |-> (IF GetIns THEN Tail(fifo.INS) ELSE fifo.INS)
                           \o (IF Puts(r) /\ Side = "INS" THEN <<r.data>> ELSE <<>>)]
  BY DEF SocStep, Cycle, FifoStep, PortRsp
<1> HIDE DEF r
<1>4. Brings(g) => (Side = "DATA" <=> rsp.fsm \in DataReads) /\ (Side = "INS" <=> rsp.fsm \in InsReads)
  BY <1>0 DEF RspFacts, Brings, Side, Transactions, DataReads, InsReads
<1> DEFINE putData == Brings(g) /\ rsp.fsm \in DataReads
           putIns == Brings(g) /\ rsp.fsm \in InsReads
           v == TargetRsp.data
<1>5. /\ fifo'.DATA = (IF GetData THEN Tail(fifo.DATA) ELSE fifo.DATA) \o (IF putData THEN <<v>> ELSE <<>>)
      /\ fifo'.INS = (IF GetIns THEN Tail(fifo.INS) ELSE fifo.INS) \o (IF putIns THEN <<v>> ELSE <<>>)
      /\ fifo' = [DATA |-> fifo'.DATA, INS |-> fifo'.INS]
  BY <1>1, <1>2, <1>3, <1>4
<1>6. v \in Int
  BY <1>2
<1> HIDE DEF v
<1>7. ASSUME NEW s \in Seq(Int), Len(s) <= 1
      PROVE  /\ s # <<>> => Tail(s) = <<>>
             /\ s \o <<>> = s /\ <<>> \o <<v>> = <<v>>
  <2>1. s \o <<>> = s /\ <<>> \o <<v>> = <<v>>
    BY <1>6
  <2>2. s # <<>> => Tail(s) = <<>>
    BY <1>7
  <2> QED BY <2>1, <2>2
<1>8. fifo.DATA \in Seq(Int) /\ fifo.INS \in Seq(Int) /\ Len(fifo.DATA) <= 1 /\ Len(fifo.INS) <= 1
  BY <1>0 DEF SocTypeOK, ShortFifos
<1>9. GetData => fifo.DATA # <<>>
  BY DEF GetData
<1>10. GetIns => fifo.INS # <<>>
  BY DEF GetIns
<1>11. putData => (GetData <=> fifo.DATA # <<>>)
  BY <1>0, <1>9 DEF ShortFifos, GetData
<1>12. putIns => (GetIns <=> fifo.INS # <<>>)
  BY <1>0, <1>10 DEF ShortFifos, GetIns
<1> HIDE DEF putData, putIns
<1>13. <<>> \in Seq(Int) /\ <<v>> \in Seq(Int) /\ Len(<<>>) <= 1
  BY <1>6
<1>14. fifo'.DATA = IF putData THEN <<v>> ELSE IF GetData THEN <<>> ELSE fifo.DATA
  <2>1. CASE putData
    BY <1>5, <1>7, <1>8, <1>9, <1>11, <2>1
  <2>2. CASE ~putData
    <3>1. CASE GetData
      <4>1. Tail(fifo.DATA) = <<>>
        BY <1>7, <1>8, <1>9, <3>1
      <4>2. fifo'.DATA = <<>> \o <<>>
        BY <1>5, <2>2, <3>1, <4>1
      <4> QED BY <1>7, <1>13, <2>2, <3>1, <4>2
    <3>2. CASE ~GetData
      BY <1>5, <1>7, <1>8, <2>2, <3>2
    <3> QED BY <3>1, <3>2
  <2> QED BY <2>1, <2>2
<1>15. fifo'.INS = IF putIns THEN <<v>> ELSE IF GetIns THEN <<>> ELSE fifo.INS
  <2>1. CASE putIns
    BY <1>5, <1>7, <1>8, <1>10, <1>12, <2>1
  <2>2. CASE ~putIns
    <3>1. CASE GetIns
      <4>1. Tail(fifo.INS) = <<>>
        BY <1>7, <1>8, <1>10, <3>1
      <4>2. fifo'.INS = <<>> \o <<>>
        BY <1>5, <2>2, <3>1, <4>1
      <4> QED BY <1>7, <1>13, <2>2, <3>1, <4>2
    <3>2. CASE ~GetIns
      BY <1>5, <1>7, <1>8, <2>2, <3>2
    <3> QED BY <3>1, <3>2
  <2> QED BY <2>1, <2>2
<1>16. fifo'.DATA \in Seq(Int) /\ fifo'.INS \in Seq(Int)
  BY <1>8, <1>13, <1>14, <1>15
<1>17. fifo' \in [DATA : Seq(Int), INS : Seq(Int)]
  BY <1>5, <1>16
<1> QED BY <1>14, <1>15, <1>17 DEF FifoMove, putData, putIns, v

\* The command on the port is accepted whenever the bus is granted.
LEMMA VciFlit ==
    ASSUME SocTypeOK
    PROVE  /\ VciCmd.val <=> cmd.fsm # "IDLE"
           /\ cmd.fsm = "INS_MISS" => VciCmd = Read_(<<i.addr[1], 0>>, 4 * LineWords)
           /\ cmd.fsm = "INS_UNC" => VciCmd = Read_(i.addr, 4)
           /\ cmd.fsm = "DATA_MISS" => VciCmd = Read_(<<d.addr[1], 0>>, 4 * LineWords)
           /\ cmd.fsm = "DATA_UNC" =>
                VciCmd = [val |-> TRUE, op |-> d.type, addr |-> d.addr, data |-> d.wdata, be |-> TRUE,
                          plen |-> IF d.type = "READ" THEN d.be ELSE 4, eop |-> TRUE]
           /\ cmd.fsm = "DATA_WRITE" =>
                VciCmd = [val |-> TRUE, op |-> "WRITE", addr |-> <<wbuf.line, cmd.cpt>>,
                          data |-> IF cmd.cpt \in DOMAIN wbuf.data THEN wbuf.data[cmd.cpt] ELSE 0,
                          be |-> cmd.cpt \in DOMAIN wbuf.data,
                          plen |-> 4 * (cmd.max - MinWord(DOMAIN wbuf.data) + 1), eop |-> LastFlit]
<1>1. cmd.fsm \in Transactions \cup {"IDLE"}
  BY DEF SocTypeOK
<1>2. CASE cmd.fsm = "IDLE"
  <2>1. VciCmd = [Read_(NoReq.addr, 0) EXCEPT !.val = FALSE]
    BY <1>2 DEF VciCmd
  <2>2. VciCmd.val = FALSE
    BY <2>1 DEF Read_
  <2> QED BY <1>2, <2>2
<1>3. CASE cmd.fsm = "INS_MISS"
  <2>1. VciCmd = Read_(<<i.addr[1], 0>>, 4 * LineWords)
    BY <1>3 DEF VciCmd
  <2>2. VciCmd.val
    BY <2>1 DEF Read_
  <2> QED BY <1>3, <2>1, <2>2
<1>4. CASE cmd.fsm = "INS_UNC"
  <2>1. VciCmd = Read_(i.addr, 4)
    BY <1>4 DEF VciCmd
  <2>2. VciCmd.val
    BY <2>1 DEF Read_
  <2> QED BY <1>4, <2>1, <2>2
<1>5. CASE cmd.fsm = "DATA_MISS"
  <2>1. VciCmd = Read_(<<d.addr[1], 0>>, 4 * LineWords)
    BY <1>5 DEF VciCmd
  <2>2. VciCmd.val
    BY <2>1 DEF Read_
  <2> QED BY <1>5, <2>1, <2>2
<1>6. CASE cmd.fsm = "DATA_UNC"
  <2> DEFINE n == IF d.type = "READ" THEN d.be ELSE 4
  <2>1. VciCmd = [Read_(d.addr, n) EXCEPT !.op = d.type, !.data = d.wdata]
    BY <1>6 DEF VciCmd
  <2> HIDE DEF n
  <2>2. VciCmd = [val |-> TRUE, op |-> d.type, addr |-> d.addr, data |-> d.wdata, be |-> TRUE,
                  plen |-> n, eop |-> TRUE]
    BY <2>1 DEF Read_
  <2>3. VciCmd.val
    BY <2>2
  <2> QED BY <1>6, <2>2, <2>3 DEF n
<1>7. CASE cmd.fsm = "DATA_WRITE"
  <2>1. VciCmd = [val |-> TRUE, op |-> "WRITE", addr |-> <<wbuf.line, cmd.cpt>>,
                  data |-> IF cmd.cpt \in DOMAIN wbuf.data THEN wbuf.data[cmd.cpt] ELSE 0,
                  be |-> cmd.cpt \in DOMAIN wbuf.data,
                  plen |-> 4 * (cmd.max - MinWord(DOMAIN wbuf.data) + 1), eop |-> LastFlit]
    BY <1>7 DEF VciCmd
  <2>2. VciCmd.val
    BY <2>1
  <2> QED BY <1>7, <2>1, <2>2
<1> QED BY <1>1, <1>2, <1>3, <1>4, <1>5, <1>6, <1>7 DEF Transactions

\* A command flit passes whenever the bus is granted.
LEMMA AcksAre ==
    ASSUME SocInv, NEW g \in BOOLEAN
    PROVE  /\ CmdAck(g) <=> Passes(g)
           /\ WriteSent(CmdAck(g)) <=> Passes(g) /\ cmd.fsm = "DATA_WRITE" /\ LastFlit
           /\ Start => ~Passes(g)
<1>0. SocTypeOK /\ PortAgrees
  BY DEF SocInv
<1>1. VciCmd.val <=> cmd.fsm # "IDLE"
  BY <1>0, VciFlit
<1>2. cmd.fsm # "IDLE" => FbCmdack /\ ram.fsm # "RSP"
  BY <1>0 DEF PortAgrees, FbCmdack
<1>3. CmdAck(g) <=> Passes(g)
  BY <1>1, <1>2 DEF CmdAck, Passes
<1> QED BY <1>3 DEF WriteSent, Start, Passes

CmdMove(g) ==
    /\ Start => cmd' = [fsm |-> First(req),
                        cpt |-> IF First(req) = "DATA_WRITE" THEN MinWord(DOMAIN wbuf.data) ELSE 0,
                        max |-> IF First(req) = "DATA_WRITE" THEN MaxWord(DOMAIN wbuf.data) ELSE 0]
    /\ Passes(g) => ~Start /\ cmd' = IF LastFlit THEN [cmd EXCEPT !.fsm = "IDLE"] ELSE [cmd EXCEPT !.cpt = @ + 1]
    /\ ~Start /\ ~Passes(g) => cmd' = cmd

\* The requests of the caches, and the writes.
ReqMove(g) ==
    /\ "DATA_MISS" \in req' <=>
          ("DATA_MISS" \in req \/ (Accepts /\ ReadMiss(dreq))) /\ ~Begins("DATA_MISS")
    /\ "DATA_UNC" \in req' <=>
          ("DATA_UNC" \in req \/ (Accepts /\ Uncached(dreq))) /\ ~Begins("DATA_UNC")
    /\ "INS_MISS" \in req' <=> ("INS_MISS" \in req \/ InsMiss) /\ ~Begins("INS_MISS")
    /\ "INS_UNC" \in req' <=> ("INS_UNC" \in req \/ InsUncached) /\ ~Begins("INS_UNC")
    /\ "DATA_WRITE" \in req' <=>
          ("DATA_WRITE" \in req \/ ClosesBurst)
             /\ ~(Passes(g) /\ cmd.fsm = "DATA_WRITE" /\ LastFlit)
    /\ req' \subseteq Transactions

WbufMove(g) ==
    wbuf' = IF Passes(g) /\ cmd.fsm = "DATA_WRITE" /\ LastFlit THEN EmptyWbuf
            ELSE IF Posts THEN Posted ELSE wbuf

\* A step moves the command automaton, the flip-flops and the write buffer.
LEMMA CommandNext ==
    ASSUME SocInv, NEW g \in BOOLEAN, SocStep(g)
    PROVE  CmdMove(g) /\ ReqMove(g) /\ WbufMove(g)
<1>0. SocTypeOK
  BY DEF SocInv
<1> DEFINE ack == CmdAck(g)
           sent == Passes(g) /\ cmd.fsm = "DATA_WRITE" /\ LastFlit
<1>1. /\ CmdStep(ack)
      /\ req' = (req \cup SetByData \cup SetByIns) \ Cleared(ack)
      /\ wbuf' = IF WriteSent(ack) THEN EmptyWbuf ELSE IF Posts THEN Posted ELSE wbuf
  BY DEF SocStep, Cycle
<1>2. (ack <=> Passes(g)) /\ (WriteSent(ack) <=> sent) /\ (Start => ~Passes(g))
  BY AcksAre
<1> HIDE DEF ack
<1>3. CmdMove(g)
  BY <1>1, <1>2 DEF CmdMove, CmdStep, Passes
<1>4. WbufMove(g)
  BY <1>1, <1>2 DEF WbufMove
<1>5. Start => ~sent
  BY <1>2
<1> HIDE DEF sent
<1>6. /\ \A t \in {"DATA_MISS", "DATA_UNC", "INS_MISS", "INS_UNC"} : t \in Cleared(ack) <=> Begins(t)
      /\ "DATA_WRITE" \in Cleared(ack) <=> sent
  BY <1>2, <1>5 DEF Cleared, Begins
<1>7. /\ "DATA_MISS" \in SetByData <=> Accepts /\ ReadMiss(dreq)
      /\ "DATA_UNC" \in SetByData <=> Accepts /\ Uncached(dreq)
      /\ "DATA_WRITE" \in SetByData <=> ClosesBurst
      /\ "INS_MISS" \notin SetByData /\ "INS_UNC" \notin SetByData
      /\ SetByData \subseteq Transactions
  BY DEF SetByData, Transactions
<1>8. /\ "INS_MISS" \in SetByIns <=> InsMiss
      /\ "INS_UNC" \in SetByIns <=> InsUncached
      /\ SetByIns \subseteq InsReads
  BY DEF SetByIns, InsReads
<1>9. req \subseteq Transactions
  BY <1>0 DEF SocTypeOK
<1>10. ReqMove(g)
  BY <1>1, <1>6, <1>7, <1>8, <1>9 DEF ReqMove, InsReads, Transactions, sent
<1> QED BY <1>3, <1>4, <1>10

-----------------------------------------------------------------------------
(***************************************************************************)
(* What a cycle does to the data cache and to the program.                 *)
(***************************************************************************)
DataMove ==
    /\ Accepts =>
          /\ dcache' = dcache
          /\ d' = IF dreq = NoReq THEN [d EXCEPT !.fsm = "IDLE"]
                  ELSE DataRegs(NextDataState, Cacheable(dreq), dreq)
    /\ d.fsm = "WRITE_REQ" /\ ~Posts => d' = d /\ dcache' = dcache
    /\ d.fsm = "WRITE_UPDT" =>
          /\ d' = [d EXCEPT !.fsm = "WRITE_REQ"]
          /\ dcache' = WriteWord(dcache, d.addr, d.addr[2], d.wdata)
    /\ d.fsm = "MISS_SELECT" =>
          /\ d' = [d EXCEPT !.fsm = IF dcache[SetOf(d.addr)].line # NoLine THEN "MISS_INVAL" ELSE "MISS_WAIT"]
          /\ dcache' = dcache
    /\ d.fsm = "MISS_INVAL" => d' = [d EXCEPT !.fsm = "MISS_WAIT"] /\ dcache' = Inval(dcache, d.addr)
    /\ d.fsm = "MISS_WAIT" => MissWait
    /\ d.fsm = "UNC_WAIT" =>
          dcache' = dcache /\ d' = IF ClearDataError \/ GetData THEN [d EXCEPT !.fsm = "IDLE"] ELSE d
    /\ d.fsm = "XTN_HIT" =>
          d' = [d EXCEPT !.fsm = IF Hit(dcache, d.addr) THEN "XTN_INVAL" ELSE "IDLE"] /\ dcache' = dcache
    /\ d.fsm = "XTN_INVAL" => d' = [d EXCEPT !.fsm = "IDLE"] /\ dcache' = Inval(dcache, d.addr)

\* The steps of the data cache, one line per state of its automaton.
LEMMA DataNext ==
    ASSUME DcacheStep
    PROVE  DataMove
<1>1. Accepts => d.fsm \in {"IDLE", "WRITE_REQ"}
  BY DEF Accepts, Posts
<1>2. CASE Accept
  BY <1>1, <1>2 DEF Accept, DataMove, Accepts
<1>3. CASE WaitForBuffer
  BY <1>1, <1>3 DEF WaitForBuffer, DataMove, Accepts
<1>4. CASE WriteUpdate
  BY <1>1, <1>4 DEF WriteUpdate, DataGoto, DataMove
<1>5. CASE MissSelect
  BY <1>1, <1>5 DEF MissSelect, DataGoto, DataMove
<1>6. CASE MissInval
  BY <1>1, <1>6 DEF MissInval, DataGoto, DataMove
<1>7. CASE MissWait
  <2>1. d.fsm = "MISS_WAIT"
    BY <1>7 DEF MissWait
  <2> QED BY <1>1, <1>7, <2>1 DEF DataMove
<1>8. CASE UncachedWait
  BY <1>1, <1>8 DEF UncachedWait, DataGoto, DataMove, ClearDataError, GetData
<1>9. CASE ExternHit
  BY <1>1, <1>9 DEF ExternHit, DataGoto, DataMove
<1>10. CASE ExternInval
  BY <1>1, <1>10 DEF ExternInval, DataGoto, DataMove
<1> QED BY <1>2, <1>3, <1>4, <1>5, <1>6, <1>7, <1>8, <1>9, <1>10 DEF DcacheStep

\* The registers that a step of the data cache leaves.
Keeps == /\ d'.type = d.type /\ d'.addr = d.addr /\ d'.wdata = d.wdata /\ d'.be = d.be
         /\ d'.cacheable = d.cacheable
DataState ==
    /\ Accepts /\ dreq = NoReq => d'.fsm = "IDLE" /\ Keeps
    /\ Accepts /\ dreq # NoReq =>
          /\ d'.type = dreq.type /\ d'.addr = dreq.addr /\ d'.wdata = dreq.wdata /\ d'.be = dreq.be
          /\ d'.cacheable = Cacheable(dreq) /\ d'.fsm = NextDataState
          /\ d'.word = 0
    /\ ~Accepts => Keeps /\ (d'.word = IF d.fsm = "MISS_WAIT" /\ GetData THEN d.word + 1 ELSE d.word)
    /\ d.fsm = "WRITE_REQ" /\ ~Posts => d'.fsm = "WRITE_REQ"
    /\ d.fsm = "WRITE_UPDT" => d'.fsm = "WRITE_REQ"
    /\ d.fsm = "MISS_SELECT" =>
          d'.fsm = IF dcache[SetOf(d.addr)].line # NoLine THEN "MISS_INVAL" ELSE "MISS_WAIT"
    /\ d.fsm = "MISS_INVAL" => d'.fsm = "MISS_WAIT"
    /\ d.fsm = "MISS_WAIT" =>
          d'.fsm = IF ClearDataError \/ (GetData /\ d.word = LineWords - 1) THEN "IDLE" ELSE "MISS_WAIT"
    /\ d.fsm = "UNC_WAIT" => d'.fsm = IF ClearDataError \/ GetData THEN "IDLE" ELSE "UNC_WAIT"
    /\ d.fsm = "XTN_HIT" => d'.fsm = IF Hit(dcache, d.addr) THEN "XTN_INVAL" ELSE "IDLE"
    /\ d.fsm = "XTN_INVAL" => d'.fsm = "IDLE"

DataType == [fsm : {"IDLE", "UNC_WAIT"} \cup MissStates \cup WriteStates \cup ExternStates,
             word : Nat, cacheable : BOOLEAN,
             type : {"NONE", "READ", "WRITE", "LL", "SC", "INVAL", "SYNC"},
             addr : Int \X Int, wdata : Int, be : Nat]

\* Where the data cache goes with a new request.
LEMMA NextStates ==
    ASSUME SocTypeOK, dreq # NoReq
    PROVE  /\ dreq \in prog.data /\ dreq \in Request
           /\ ReadMiss(dreq) => NextDataState = "MISS_SELECT"
           /\ Uncached(dreq) => NextDataState = "UNC_WAIT"
           /\ dreq.type = "INVAL" => NextDataState = "XTN_HIT"
           /\ dreq.type = "WRITE" =>
                NextDataState = IF Cacheable(dreq) /\ Hit(dcache, dreq.addr) THEN "WRITE_UPDT" ELSE "WRITE_REQ"
           /\ dreq.type = "SYNC" => NextDataState = "IDLE"
           /\ dreq.type = "READ" /\ Cacheable(dreq) /\ Hit(dcache, dreq.addr) => NextDataState = "IDLE"
           /\ NextDataState \in {"IDLE", "MISS_SELECT", "UNC_WAIT", "XTN_HIT", "WRITE_UPDT", "WRITE_REQ"}
           /\ NextDataState = "MISS_SELECT" => ReadMiss(dreq)
           /\ NextDataState = "UNC_WAIT" => Uncached(dreq)
           /\ NextDataState = "XTN_HIT" => dreq.type = "INVAL"
           /\ NextDataState \in WriteStates => dreq.type = "WRITE"
<1>1. dreq \in prog.data /\ prog \in Programs
  BY DEF SocTypeOK
<1>2. dreq \in Request
  BY <1>1, ProgramsAssumption
<1>3. dreq.type \in {"READ", "WRITE", "LL", "SC", "INVAL", "SYNC"}
  BY <1>2 DEF Request
<1>4. /\ ReadMiss(dreq) => dreq.type = "READ" /\ Cacheable(dreq) /\ ~Hit(dcache, dreq.addr)
      /\ Uncached(dreq) => dreq.type \in {"READ", "LL", "SC"} /\ ~Cacheable(dreq)
  BY DEF ReadMiss, Uncached
<1>5. dreq.type = "READ" => ReadMiss(dreq) \/ Uncached(dreq) \/ (Cacheable(dreq) /\ Hit(dcache, dreq.addr))
  BY DEF ReadMiss, Uncached
<1>6. dreq.type \in {"LL", "SC"} => Uncached(dreq)
  BY DEF Uncached, Cacheable
<1>7. /\ ReadMiss(dreq) => NextDataState = "MISS_SELECT"
      /\ ~ReadMiss(dreq) /\ Uncached(dreq) => NextDataState = "UNC_WAIT"
      /\ ~ReadMiss(dreq) /\ ~Uncached(dreq) /\ dreq.type = "INVAL" => NextDataState = "XTN_HIT"
      /\ ~ReadMiss(dreq) /\ ~Uncached(dreq) /\ dreq.type = "WRITE" =>
           NextDataState = IF Cacheable(dreq) /\ Hit(dcache, dreq.addr) THEN "WRITE_UPDT" ELSE "WRITE_REQ"
      /\ ~ReadMiss(dreq) /\ ~Uncached(dreq) /\ dreq.type \notin {"INVAL", "WRITE"} => NextDataState = "IDLE"
  BY <1>3, <1>4 DEF NextDataState
<1> QED BY <1>1, <1>2, <1>3, <1>4, <1>5, <1>6, <1>7 DEF WriteStates

\* The registers of the data cache after a step.
LEMMA DataStateNext ==
    ASSUME SocTypeOK, DcacheStep
    PROVE  DataState /\ d' \in DataType
<1>0. DataMove
  BY DataNext
<1>1. d \in DataType
  BY DEF SocTypeOK, DataType
<1>2. ASSUME NEW s PROVE LET e == [d EXCEPT !.fsm = s]
                         IN  /\ e.fsm = s /\ e.type = d.type /\ e.addr = d.addr /\ e.wdata = d.wdata
                             /\ e.be = d.be /\ e.cacheable = d.cacheable /\ e.word = d.word
  BY <1>1 DEF DataType
<1>3. ASSUME NEW s \in {"IDLE", "UNC_WAIT", "MISS_SELECT", "MISS_INVAL", "MISS_WAIT", "WRITE_UPDT",
                        "WRITE_REQ", "XTN_HIT", "XTN_INVAL"}
      PROVE  [d EXCEPT !.fsm = s] \in DataType
  <2>1. s \in {"IDLE", "UNC_WAIT"} \cup MissStates \cup WriteStates \cup ExternStates
    BY DEF MissStates, WriteStates, ExternStates
  <2> QED BY <1>1, <2>1 DEF DataType
<1>4. Accepts => d.fsm \in {"IDLE", "WRITE_REQ"}
  BY DEF Accepts, Posts
<1>5. CASE Accepts
  <2>1. CASE dreq = NoReq
    <3>1. d' = [d EXCEPT !.fsm = "IDLE"]
      BY <1>0, <1>5, <2>1 DEF DataMove
    <3>2. d'.fsm = "IDLE" /\ Keeps /\ d' \in DataType
      BY <1>2, <1>3, <3>1 DEF Keeps
    <3> QED BY <1>4, <1>5, <2>1, <3>2 DEF DataState, Accepts
  <2>2. CASE dreq # NoReq
    <3>1. d' = DataRegs(NextDataState, Cacheable(dreq), dreq)
      BY <1>0, <1>5, <2>2 DEF DataMove
    <3>2. dreq \in Request
      BY <2>2, NextStates
    <3>3. NextDataState \in {"IDLE", "MISS_SELECT", "UNC_WAIT", "XTN_HIT", "WRITE_UPDT", "WRITE_REQ"}
      BY <2>2, NextStates
    <3>4. /\ d'.type = dreq.type /\ d'.addr = dreq.addr /\ d'.wdata = dreq.wdata /\ d'.be = dreq.be
          /\ d'.cacheable = Cacheable(dreq) /\ d'.fsm = NextDataState
          /\ d'.word = 0
      BY <3>1 DEF DataRegs
    <3>5. d' \in DataType
      <4>1. NextDataState \in {"IDLE", "UNC_WAIT"} \cup MissStates \cup WriteStates \cup ExternStates
        BY <3>3 DEF MissStates, WriteStates, ExternStates
      <4>2. /\ dreq.type \in {"NONE", "READ", "WRITE", "LL", "SC", "INVAL", "SYNC"}
            /\ dreq.addr \in Int \X Int /\ dreq.wdata \in Int /\ dreq.be \in Nat
        BY <3>2, XcacheAssumption DEF Request, Words
      <4>3. Cacheable(dreq) \in BOOLEAN
        BY DEF Cacheable
      <4> HIDE DEF NextDataState, Cacheable
      <4> QED BY <3>1, <4>1, <4>2, <4>3 DEF DataRegs, DataType
    <3> QED BY <1>4, <1>5, <2>2, <3>4, <3>5 DEF DataState, Accepts
  <2> QED BY <2>1, <2>2
<1>6. CASE d.fsm = "WRITE_REQ" /\ ~Posts
  <2>1. d' = d /\ ~Accepts
    BY <1>0, <1>6 DEF DataMove, Accepts
  <2> QED BY <1>1, <1>6, <2>1 DEF DataState, Keeps
<1>7. CASE d.fsm = "WRITE_UPDT"
  <2>1. d' = [d EXCEPT !.fsm = "WRITE_REQ"] /\ ~Accepts
    BY <1>0, <1>4, <1>7 DEF DataMove
  <2> QED BY <1>2, <1>3, <1>7, <2>1 DEF DataState, Keeps
<1>8. CASE d.fsm = "MISS_SELECT"
  <2> DEFINE s == IF dcache[SetOf(d.addr)].line # NoLine THEN "MISS_INVAL" ELSE "MISS_WAIT"
  <2>1. d' = [d EXCEPT !.fsm = s] /\ ~Accepts
    BY <1>0, <1>4, <1>8 DEF DataMove
  <2>2. s \in {"MISS_INVAL", "MISS_WAIT"}
    OBVIOUS
  <2>3. d'.fsm = s /\ Keeps /\ d'.word = d.word /\ d' \in DataType
    <3> HIDE DEF s
    <3> QED BY <1>2, <1>3, <2>1, <2>2 DEF Keeps
  <2> QED BY <1>8, <2>1, <2>3 DEF DataState
<1>9. CASE d.fsm = "MISS_INVAL"
  <2>1. d' = [d EXCEPT !.fsm = "MISS_WAIT"] /\ ~Accepts
    BY <1>0, <1>4, <1>9 DEF DataMove
  <2> QED BY <1>2, <1>3, <1>9, <2>1 DEF DataState, Keeps
<1>10. CASE d.fsm = "MISS_WAIT"
  <2>1. MissWait /\ ~Accepts
    BY <1>0, <1>4, <1>10 DEF DataMove
  <2>2. CASE ClearDataError
    <3>1. d' = [d EXCEPT !.fsm = "IDLE"] /\ ~GetData
      BY <2>1, <2>2 DEF MissWait, ClearDataError, DataGoto, GetData
    <3> QED BY <1>2, <1>3, <1>10, <2>1, <2>2, <3>1 DEF DataState, Keeps
  <2>3. CASE ~ClearDataError /\ ~GetData
    <3>1. d' = d
      BY <1>10, <2>1, <2>3 DEF MissWait, ClearDataError, GetData
    <3> QED BY <1>1, <1>10, <2>1, <2>3, <3>1 DEF DataState, Keeps
  <2>4. CASE GetData
    <3> DEFINE s == IF d.word = LineWords - 1 THEN "IDLE" ELSE d.fsm
    <3>1. d' = [d EXCEPT !.word = @ + 1, !.fsm = IF d.word = LineWords - 1 THEN "IDLE" ELSE @] /\ ~ClearDataError
      BY <2>1, <2>4 DEF MissWait, GetData, ClearDataError
    <3>2. d' = [d EXCEPT !.word = d.word + 1, !.fsm = s]
      BY <1>1, <3>1 DEF DataType
    <3>3. s \in {"IDLE", "MISS_WAIT"} /\ s = IF d.word = LineWords - 1 THEN "IDLE" ELSE "MISS_WAIT"
      BY <1>10
    <3> HIDE DEF s
    <3>4. d'.fsm = s /\ d'.word = d.word + 1 /\ Keeps /\ d' \in DataType
      <4>1. s \in {"IDLE", "UNC_WAIT"} \cup MissStates \cup WriteStates \cup ExternStates
        BY <3>3 DEF MissStates
      <4> DEFINE e == [d EXCEPT !.word = d.word + 1]
      <4>2. e \in DataType /\ e.word = d.word + 1 /\ e.type = d.type /\ e.addr = d.addr /\ e.wdata = d.wdata
            /\ e.be = d.be /\ e.cacheable = d.cacheable
        BY <1>1 DEF DataType
      <4>3. d' = [e EXCEPT !.fsm = s]
        BY <3>2
      <4> HIDE DEF e
      <4>4. d' \in DataType
        BY <4>1, <4>2, <4>3 DEF DataType
      <4>5. d'.fsm = s /\ d'.word = e.word /\ d'.type = e.type /\ d'.addr = e.addr /\ d'.wdata = e.wdata
            /\ d'.be = e.be /\ d'.cacheable = e.cacheable
        BY <4>2, <4>3 DEF DataType
      <4> QED BY <4>2, <4>4, <4>5 DEF Keeps
    <3> QED BY <1>10, <2>1, <2>4, <3>1, <3>3, <3>4 DEF DataState
  <2> QED BY <2>2, <2>3, <2>4
<1>11. CASE d.fsm = "UNC_WAIT"
  <2>1. d' = (IF ClearDataError \/ GetData THEN [d EXCEPT !.fsm = "IDLE"] ELSE d) /\ ~Accepts
    BY <1>0, <1>4, <1>11 DEF DataMove
  <2>2. CASE ClearDataError \/ GetData
    <3>1. d' = [d EXCEPT !.fsm = "IDLE"]
      BY <2>1, <2>2
    <3> QED BY <1>2, <1>3, <1>11, <2>1, <2>2, <3>1 DEF DataState, Keeps
  <2>3. CASE ~(ClearDataError \/ GetData)
    <3>1. d' = d
      BY <2>1, <2>3
    <3> QED BY <1>1, <1>11, <2>1, <2>3, <3>1 DEF DataState, Keeps
  <2> QED BY <2>2, <2>3
<1>12. CASE d.fsm = "XTN_HIT"
  <2> DEFINE s == IF Hit(dcache, d.addr) THEN "XTN_INVAL" ELSE "IDLE"
  <2>1. d' = [d EXCEPT !.fsm = s] /\ ~Accepts
    BY <1>0, <1>4, <1>12 DEF DataMove
  <2>2. s \in {"XTN_INVAL", "IDLE"}
    OBVIOUS
  <2>3. d'.fsm = s /\ Keeps /\ d'.word = d.word /\ d' \in DataType
    <3> HIDE DEF s
    <3> QED BY <1>2, <1>3, <2>1, <2>2 DEF Keeps
  <2> QED BY <1>12, <2>1, <2>3 DEF DataState
<1>13. CASE d.fsm = "XTN_INVAL"
  <2>1. d' = [d EXCEPT !.fsm = "IDLE"] /\ ~Accepts
    BY <1>0, <1>4, <1>13 DEF DataMove
  <2> QED BY <1>2, <1>3, <1>13, <2>1 DEF DataState, Keeps
<1>14. d.fsm \in {"IDLE", "UNC_WAIT"} \cup MissStates \cup WriteStates \cup ExternStates
  BY <1>1 DEF DataType
<1>15. d.fsm = "IDLE" => Accepts
  BY DEF Accepts
<1>16. d.fsm = "WRITE_REQ" /\ Posts => Accepts
  BY DEF Accepts
<1> QED BY <1>5, <1>6, <1>7, <1>8, <1>9, <1>10, <1>11, <1>12, <1>13, <1>14, <1>15, <1>16
        DEF MissStates, WriteStates, ExternStates

\* When the processor gets an answer.
Replies ==
    \/ Accepts /\ dreq.type = "READ" /\ Cacheable(dreq) /\ Hit(dcache, dreq.addr)
    \/ Accepts /\ dreq.type \in {"WRITE", "SYNC"}
    \/ ClearDataError
    \/ d.fsm = "UNC_WAIT" /\ GetData
    \/ d.fsm = "XTN_HIT" /\ ~Hit(dcache, d.addr)
    \/ d.fsm = "XTN_INVAL"

\* When the data cache answers the processor, and with which word.
LEMMA Answers ==
    ASSUME SocInv
    PROVE  /\ DRsp.valid <=> Replies
           /\ DRsp.valid /\ ~DRsp.error /\ dreq.type = "READ" /\ Accepts => DRsp.rdata = Read(dcache, dreq.addr)
           /\ DRsp.valid /\ ~DRsp.error /\ d.fsm = "UNC_WAIT" => GetData /\ DRsp.rdata = Head(fifo.DATA)
           /\ DRsp.valid /\ ClearDataError => DRsp.error
<1>0. SocTypeOK /\ DataRequest
  BY DEF SocInv
<1>1. Accepts => d.fsm \in {"IDLE", "WRITE_REQ"}
  BY DEF Accepts, Posts
<1>2. d.fsm = "UNC_WAIT" => dreq = Held /\ Held.addr = d.addr
  BY <1>0 DEF DataRequest, Waits, Held
<1>3. Answer(0).valid /\ BusError.valid /\ ~NoRsp.valid /\ BusError.error /\ ~Answer(0).error
  BY DEF Answer, BusError, NoRsp
<1>4. \A v : Answer(v).valid /\ ~Answer(v).error /\ Answer(v).rdata = v
  BY DEF Answer
<1>5. CASE Accepts
  <2>1. ~ClearDataError /\ ~GetData
    BY <1>1, <1>5 DEF ClearDataError, GetData
  <2>2. CASE dreq.type = "READ" /\ Cacheable(dreq) /\ Hit(dcache, dreq.addr)
    <3>1. DRsp = Answer(Read(dcache, dreq.addr))
      BY <1>1, <1>5, <2>2 DEF DRsp
    <3> QED BY <1>1, <1>4, <1>5, <2>1, <2>2, <3>1 DEF Replies
  <2>3. CASE dreq.type \in {"WRITE", "SYNC"}
    <3>1. DRsp = Answer(0)
      BY <1>1, <1>5, <2>3 DEF DRsp
    <3> QED BY <1>1, <1>4, <1>5, <2>1, <2>3, <3>1 DEF Replies
  <2>4. CASE ~(dreq.type = "READ" /\ Cacheable(dreq) /\ Hit(dcache, dreq.addr)) /\ dreq.type \notin {"WRITE", "SYNC"}
    <3>1. DRsp = NoRsp
      BY <1>1, <1>5, <2>4 DEF DRsp
    <3> QED BY <1>1, <1>3, <1>5, <2>1, <2>4, <3>1 DEF Replies
  <2> QED BY <2>2, <2>3, <2>4
<1>6. CASE ~Accepts /\ d.fsm \in {"MISS_WAIT", "UNC_WAIT"}
  <2>1. CASE "DATA" \in rsp.error
    <3>1. DRsp = BusError /\ ClearDataError
      BY <1>6, <2>1 DEF DRsp, ClearDataError
    <3> QED BY <1>3, <1>6, <3>1 DEF Replies
  <2>2. CASE "DATA" \notin rsp.error /\ d.fsm = "UNC_WAIT" /\ fifo.DATA # <<>>
    <3>1. DRsp = Answer(Head(fifo.DATA)) /\ GetData /\ ~ClearDataError
      BY <1>2, <1>6, <2>2 DEF DRsp, GetData, ClearDataError
    <3> QED BY <1>4, <1>6, <2>2, <3>1 DEF Replies
  <2>3. CASE "DATA" \notin rsp.error /\ ~(d.fsm = "UNC_WAIT" /\ fifo.DATA # <<>>)
    <3>1. DRsp = NoRsp /\ ~ClearDataError /\ ~(d.fsm = "UNC_WAIT" /\ GetData)
      BY <1>6, <2>3 DEF DRsp, GetData, ClearDataError
    <3> QED BY <1>3, <1>6, <3>1 DEF Replies
  <2> QED BY <2>1, <2>2, <2>3
<1>7. CASE ~Accepts /\ d.fsm \notin {"MISS_WAIT", "UNC_WAIT"}
  <2>1. ~ClearDataError /\ ~GetData
    BY <1>7 DEF ClearDataError, GetData
  <2>2. DRsp = IF (d.fsm = "XTN_HIT" /\ ~Hit(dcache, d.addr)) \/ d.fsm = "XTN_INVAL" THEN Answer(0) ELSE NoRsp
    BY <1>7 DEF DRsp
  <2> QED BY <1>3, <1>7, <2>1, <2>2 DEF Replies
<1> QED BY <1>5, <1>6, <1>7

ProgramMove ==
    /\ prog' = prog /\ dreq' \in prog.data \cup {NoReq} /\ (ireq' # NoReq => ireq'.addr \in Addr)
    /\ ~Replies /\ dreq # NoReq => dreq' = dreq
    /\ ref' = IF Accepts /\ dreq.type = "WRITE" /\ dreq.addr \in DOMAIN ref
              THEN [ref EXCEPT ![dreq.addr] = dreq.wdata]
              ELSE IF d.fsm = "UNC_WAIT" /\ (ClearDataError \/ GetData) /\ d.type = "SC" /\ d.addr \in DOMAIN ref
              THEN [ref EXCEPT ![d.addr] = d.wdata] ELSE ref

\* A step moves the processor and the values it stored as ProgramMove says.
LEMMA ProgramNext ==
    ASSUME SocInv, NEW g \in BOOLEAN, SocStep(g)
    PROVE  ProgramMove
<1>0. SocTypeOK /\ DataRequest
  BY DEF SocInv
<1>1. DRsp.valid <=> Replies
  BY Answers
<1>2. Processor
  BY DEF SocStep
<1>3. prog' = prog /\ dreq' \in prog.data \cup {NoReq} /\ (~Replies /\ dreq # NoReq => dreq' = dreq)
  BY <1>0, <1>1, <1>2 DEF Processor, SocTypeOK
<1>4. ireq' # NoReq => ireq'.addr \in Addr
  <2>1. SUFFICES ASSUME ireq' # NoReq PROVE ireq'.addr \in Addr
    OBVIOUS
  <2>2. CASE ireq' = ireq
    BY <1>0, <2>1, <2>2 DEF SocTypeOK
  <2>3. CASE ireq' \in {[NoReq EXCEPT !.type = "READ", !.addr = a] : a \in prog.ins}
    <3>1. PICK a \in prog.ins : ireq' = [NoReq EXCEPT !.type = "READ", !.addr = a]
      BY <2>3
    <3>2. ireq'.addr = a
      BY <3>1 DEF NoReq
    <3>3. prog.ins \subseteq Nat \X Words
      BY <1>0, ProgramsAssumption DEF SocTypeOK
    <3> QED BY <3>2, <3>3 DEF Addr
  <2> QED BY <1>2, <2>1, <2>2, <2>3 DEF Processor
<1>5. ref' = IF Replies /\ dreq.type \in {"WRITE", "SC"} /\ dreq.addr \in DOMAIN ref
             THEN [ref EXCEPT ![dreq.addr] = dreq.wdata] ELSE ref
  BY <1>1, <1>2 DEF Processor
<1>6. Accepts => d.fsm \in {"IDLE", "WRITE_REQ"}
  BY DEF Accepts, Posts
<1>7. CASE Accepts
  <2>1. Replies /\ dreq.type \in {"WRITE", "SC"} <=> dreq.type = "WRITE"
    BY <1>6, <1>7 DEF Replies, ClearDataError
  <2>2. ref' = IF Accepts /\ dreq.type = "WRITE" /\ dreq.addr \in DOMAIN ref
               THEN [ref EXCEPT ![dreq.addr] = dreq.wdata] ELSE ref
    BY <1>5, <1>7, <2>1
  <2> QED BY <1>3, <1>4, <1>6, <1>7, <2>2 DEF ProgramMove
<1>8. CASE d.fsm = "UNC_WAIT"
  <2>1. dreq = Held /\ dreq.type = d.type /\ dreq.addr = d.addr /\ dreq.wdata = d.wdata
    BY <1>0, <1>8 DEF DataRequest, Waits, Held
  <2>2. ~Accepts /\ d.type # "WRITE"
    BY <1>0, <1>6, <1>8 DEF DataRequest
  <2>3. Replies <=> ClearDataError \/ GetData
    BY <1>8, <2>2 DEF Replies
  <2> QED BY <1>3, <1>4, <1>5, <1>8, <2>1, <2>2, <2>3 DEF ProgramMove
<1>9. CASE ~Accepts /\ d.fsm # "UNC_WAIT"
  <2>1. Replies => d.fsm = "MISS_WAIT" \/ d.fsm \in ExternStates
    BY <1>9 DEF Replies, ClearDataError, ExternStates
  <2>2. Replies => dreq = Held /\ d.type \in {"READ", "INVAL"}
    BY <1>0, <2>1 DEF DataRequest, Waits, MissStates
  <2>3. Replies => dreq.type \notin {"WRITE", "SC"}
    BY <2>2 DEF Held
  <2>4. ref' = ref
    BY <1>5, <2>3
  <2> QED BY <1>3, <1>4, <1>9, <2>4 DEF ProgramMove
<1> QED BY <1>7, <1>8, <1>9

-----------------------------------------------------------------------------
(***************************************************************************)
(* What a cycle does to the instruction cache and to the targets.          *)
(***************************************************************************)
InsType == [fsm : {"IDLE", "UNC_WAIT"} \cup MissStates, word : Nat, addr : Int \X Int]
InsState ==
    /\ InsMiss => i.fsm = "IDLE" /\ i'.fsm = "MISS_SELECT" /\ i'.word = 0 /\ i'.addr = ireq.addr
    /\ InsUncached => i.fsm = "IDLE" /\ i'.fsm = "UNC_WAIT" /\ i'.addr = ireq.addr
    /\ i.fsm = "IDLE" /\ ~InsMiss /\ ~InsUncached => i'.fsm = "IDLE"
    /\ i.fsm # "IDLE" =>
          i'.addr = i.addr /\ (i'.word = IF i.fsm = "MISS_WAIT" /\ GetIns THEN i.word + 1 ELSE i.word)
    /\ i.fsm = "MISS_SELECT" => i'.fsm \in {"MISS_INVAL", "MISS_WAIT"}
    /\ i.fsm = "MISS_INVAL" => i'.fsm = "MISS_WAIT"
    /\ i.fsm = "MISS_WAIT" =>
          i'.fsm = IF ClearInsError \/ (GetIns /\ i.word = LineWords - 1) THEN "IDLE" ELSE "MISS_WAIT"
    /\ i.fsm = "UNC_WAIT" => i'.fsm = IF ClearInsError \/ GetIns THEN "IDLE" ELSE "UNC_WAIT"

\* The registers of the instruction cache after a step.
LEMMA InsNext ==
    ASSUME SocTypeOK, IcacheStep
    PROVE  InsState /\ i' \in InsType
<1>1. i \in InsType
  BY DEF SocTypeOK, InsType
<1>2. ASSUME NEW s PROVE LET e == [i EXCEPT !.fsm = s]
                         IN  e.fsm = s /\ e.addr = i.addr /\ e.word = i.word
  BY <1>1 DEF InsType
<1>3. ASSUME NEW s \in {"IDLE", "UNC_WAIT", "MISS_SELECT", "MISS_INVAL", "MISS_WAIT"}
      PROVE  [i EXCEPT !.fsm = s] \in InsType
  <2>1. s \in {"IDLE", "UNC_WAIT"} \cup MissStates
    BY DEF MissStates
  <2> QED BY <1>1, <2>1 DEF InsType
<1>4. InsMiss \/ InsUncached => i.fsm = "IDLE" /\ ireq.addr \in Int \X Int
  <2>1. InsMiss \/ InsUncached => i.fsm = "IDLE" /\ ireq # NoReq
    BY DEF InsMiss, InsUncached
  <2>2. ireq # NoReq => ireq.addr \in Int \X Int
    <3>1. ireq # NoReq => ireq.addr \in Addr
      BY DEF SocTypeOK
    <3> QED BY <3>1, AddrParts
  <2> QED BY <2>1, <2>2
<1>5. ~(InsMiss /\ InsUncached)
  BY DEF InsMiss, InsUncached
<1>6. GetIns \/ ClearInsError => i.fsm \in {"MISS_WAIT", "UNC_WAIT"}
  BY DEF GetIns, ClearInsError
<1>7. ~(GetIns /\ ClearInsError)
  BY DEF GetIns, ClearInsError
<1>8. CASE IcacheIdle
  <2>1. i.fsm = "IDLE" /\ i' = IF InsMiss THEN [fsm |-> "MISS_SELECT", word |-> 0, addr |-> ireq.addr]
                               ELSE IF InsUncached THEN [i EXCEPT !.fsm = "UNC_WAIT", !.addr = ireq.addr]
                               ELSE i
    BY <1>8 DEF IcacheIdle
  <2>2. CASE InsMiss
    <3>1. i' = [fsm |-> "MISS_SELECT", word |-> 0, addr |-> ireq.addr]
      BY <2>1, <2>2
    <3>2. i'.fsm = "MISS_SELECT" /\ i'.word = 0 /\ i'.addr = ireq.addr /\ i' \in InsType
      BY <1>4, <2>2, <3>1 DEF InsType, MissStates
    <3> QED BY <1>5, <2>1, <2>2, <3>2 DEF InsState
  <2>3. CASE InsUncached
    <3> DEFINE e == [i EXCEPT !.fsm = "UNC_WAIT"]
    <3>1. i' = [e EXCEPT !.addr = ireq.addr]
      BY <1>5, <2>1, <2>3
    <3>2. e \in InsType /\ e.fsm = "UNC_WAIT"
      BY <1>2, <1>3
    <3> HIDE DEF e
    <3>3. i'.fsm = "UNC_WAIT" /\ i'.addr = ireq.addr /\ i' \in InsType
      BY <1>4, <2>3, <3>1, <3>2 DEF InsType
    <3> QED BY <1>5, <2>1, <2>3, <3>3 DEF InsState
  <2>4. CASE ~InsMiss /\ ~InsUncached
    <3>1. i' = i
      BY <2>1, <2>4
    <3> QED BY <1>1, <2>1, <2>4, <3>1 DEF InsState
  <2> QED BY <2>2, <2>3, <2>4
<1>9. CASE IcacheVictim
  <2>1. CASE i.fsm = "MISS_SELECT"
    <3> DEFINE s == IF icache[SetOf(i.addr)].line # NoLine THEN "MISS_INVAL" ELSE "MISS_WAIT"
    <3>1. i' = [i EXCEPT !.fsm = s]
      BY <1>9, <2>1 DEF IcacheVictim
    <3>2. s \in {"MISS_INVAL", "MISS_WAIT"}
      OBVIOUS
    <3> HIDE DEF s
    <3>3. i'.fsm = s /\ i'.addr = i.addr /\ i'.word = i.word /\ i' \in InsType
      BY <1>2, <1>3, <3>1, <3>2
    <3>4. ~InsMiss /\ ~InsUncached
      BY <1>4, <2>1
    <3> QED BY <2>1, <3>2, <3>3, <3>4 DEF InsState
  <2>2. CASE i.fsm = "MISS_INVAL"
    <3>1. i' = [i EXCEPT !.fsm = "MISS_WAIT"]
      BY <1>9, <2>2 DEF IcacheVictim
    <3>2. i'.fsm = "MISS_WAIT" /\ i'.addr = i.addr /\ i'.word = i.word /\ i' \in InsType
      BY <1>2, <1>3, <3>1
    <3>3. ~InsMiss /\ ~InsUncached
      BY <1>4, <2>2
    <3> QED BY <2>2, <3>2, <3>3 DEF InsState
  <2> QED BY <1>9, <2>1, <2>2 DEF IcacheVictim
<1>10. CASE IcacheWait
  <2>0. i.fsm \in {"MISS_WAIT", "UNC_WAIT"} /\ ~InsMiss /\ ~InsUncached
    BY <1>4, <1>6, <1>10 DEF IcacheWait
  <2>1. CASE i.fsm = "MISS_WAIT" /\ GetIns
    <3> DEFINE e == [i EXCEPT !.word = i.word + 1]
               s == IF i.word = LineWords - 1 THEN "IDLE" ELSE "MISS_WAIT"
    <3>1. i' = [i EXCEPT !.word = @ + 1, !.fsm = IF i.word = LineWords - 1 THEN "IDLE" ELSE @]
      BY <1>7, <1>10, <2>1 DEF IcacheWait
    <3>2. i' = [e EXCEPT !.fsm = s]
      BY <1>1, <2>1, <3>1 DEF InsType
    <3>3. e \in InsType /\ e.word = i.word + 1 /\ e.addr = i.addr
      BY <1>1 DEF InsType
    <3>4. s \in {"IDLE", "UNC_WAIT"} \cup MissStates
      BY DEF MissStates
    <3> HIDE DEF e, s
    <3>5. i'.fsm = s /\ i'.addr = i.addr /\ i'.word = i.word + 1 /\ i' \in InsType
      BY <3>2, <3>3, <3>4 DEF InsType
    <3> QED BY <1>7, <2>0, <2>1, <3>5 DEF InsState, s
  <2>2. CASE i.fsm = "UNC_WAIT" /\ GetIns
    <3>1. i' = [i EXCEPT !.fsm = "IDLE"]
      BY <1>7, <1>10, <2>2 DEF IcacheWait
    <3>2. i'.fsm = "IDLE" /\ i'.addr = i.addr /\ i'.word = i.word /\ i' \in InsType
      BY <1>2, <1>3, <3>1
    <3> QED BY <2>0, <2>2, <3>2 DEF InsState
  <2>3. CASE ClearInsError
    <3>1. i' = [i EXCEPT !.fsm = "IDLE"]
      BY <1>7, <1>10, <2>3 DEF IcacheWait
    <3>2. i'.fsm = "IDLE" /\ i'.addr = i.addr /\ i'.word = i.word /\ i' \in InsType
      BY <1>2, <1>3, <3>1
    <3> QED BY <1>7, <2>0, <2>3, <3>2 DEF InsState
  <2>4. CASE ~GetIns /\ ~ClearInsError
    <3>1. i' = i
      BY <1>10, <2>4 DEF IcacheWait
    <3> QED BY <1>1, <2>0, <2>4, <3>1 DEF InsState
  <2> QED BY <2>0, <2>1, <2>2, <2>3, <2>4
<1> QED BY <1>8, <1>9, <1>10 DEF IcacheStep

\* The frame buffer takes a command of one flit and goes to an answer.
FbType == [fsm : {"IDLE"} \cup FbAnswers, index : Int, count : Int, data : Int]
FrameBufferTakes(c) ==
    /\ fb'.fsm \in FbAnswers /\ fb' \in FbType
    /\ fb'.fsm = "READ_BUF_RSP" <=> c.index \in Pixels /\ c.op = "READ"
    /\ fb'.fsm = "READ_BUF_RSP" => fb'.index = c.index /\ fb'.count = FlitCount(c)
    /\ surface' = IF c.index \in Pixels /\ c.op = "WRITE" THEN write_fb(c) ELSE surface

\* The frame buffer takes a command of one flit and answers it.
LEMMA FbCommand ==
    ASSUME fb \in FbType, fb.fsm = "IDLE", NEW c, NEW ack, c.index \in Int, FlitCount(c) \in Int, c.val, c.eop,
           c.op \in {"READ", "WRITE", "LL", "SC"},
           c.index \in Pixels => c.op \in {"READ", "WRITE"}, FbAutomaton(c, ack)
    PROVE  FrameBufferTakes(c)
<1>1. SurfaceSize \in Nat /\ SegmentSize \in Nat /\ SegmentSize >= SurfaceSize + 4
  BY FrameBufferAssumption
<1>2. c.index \in Pixels <=> InSegment(c) /\ ~Config(c)
  BY <1>1 DEF Pixels, InSegment, Config
<1>3. CASE FbRegister(c)
  <2> DEFINE s == RegisterState(c)
             n == RegIndex(c)
             v == IF s = "READ_REG_RSP" THEN Register[n + 1] ELSE fb.data
             e == [fb EXCEPT !.fsm = s]
             f == [e EXCEPT !.index = n]
  <2>1. /\ fb' = [fb EXCEPT !.fsm = s, !.index = n, !.data = IF s = "READ_REG_RSP" THEN Register[n + 1] ELSE @]
        /\ surface' = surface /\ Config(c)
    BY <1>3 DEF FbRegister
  <2>2. s \in {"READ_REG_RSP", "ERROR_RSP", "WRITE_REG_RSP"} /\ (s = "READ_REG_RSP" => n < 3)
    BY DEF RegisterState
  <2>3. n \in 0 .. 3
    <3>1. \A x \in Int : x % 4 \in 0 .. 3
      OBVIOUS
    <3> QED BY <3>1 DEF RegIndex
  <2>4. v \in Int
    <3> HIDE DEF s, n
    <3>1. n = 0 \/ n = 1 \/ n = 2 \/ n = 3
      BY <2>3
    <3>2. Register[1] = 2 /\ Register[2] = 3 /\ Register[3] = 4
      BY DEF Register
    <3>3. s = "READ_REG_RSP" => Register[n + 1] \in Int
      BY <2>2, <3>1, <3>2
    <3> QED BY <3>3 DEF FbType
  <2>5. fb' = [f EXCEPT !.data = v]
    <3> HIDE DEF s, n
    <3> QED BY <2>1 DEF FbType
  <2> HIDE DEF s, n, v
  <2>6. e \in FbType /\ e.fsm = s
    BY <2>2 DEF FbType, FbAnswers
  <2> HIDE DEF e
  <2>7. f \in FbType /\ f.fsm = s
    BY <2>3, <2>6 DEF FbType
  <2> HIDE DEF f
  <2>8. fb' \in FbType /\ fb'.fsm = s
    BY <2>4, <2>5, <2>7 DEF FbType
  <2> QED BY <1>2, <2>1, <2>2, <2>8 DEF FrameBufferTakes, FbAnswers
<1>4. CASE FbWrite(c)
  <2> DEFINE e == [fb EXCEPT !.fsm = "WRITE_BUF_RSP"]
  <2>1. /\ fb' = [e EXCEPT !.index = c.index + 1]
        /\ surface' = write_fb(c) /\ c.op = "WRITE" /\ InSegment(c) /\ ~Config(c)
    BY <1>4 DEF FbWrite
  <2>2. e \in FbType /\ e.fsm = "WRITE_BUF_RSP"
    BY DEF FbType, FbAnswers
  <2> HIDE DEF e
  <2>3. fb' \in FbType /\ fb'.fsm = "WRITE_BUF_RSP"
    BY <2>1, <2>2 DEF FbType
  <2> QED BY <1>2, <2>1, <2>3 DEF FrameBufferTakes, FbAnswers
<1>5. CASE FbRead(c)
  <2> DEFINE e == [fb EXCEPT !.fsm = "READ_BUF_RSP"]
             f == [e EXCEPT !.index = c.index]
  <2>1. /\ fb' = [f EXCEPT !.count = FlitCount(c)]
        /\ surface' = surface /\ c.op = "READ" /\ InSegment(c) /\ ~Config(c)
    BY <1>5 DEF FbRead
  <2>2. e \in FbType /\ e.fsm = "READ_BUF_RSP"
    BY DEF FbType, FbAnswers
  <2> HIDE DEF e
  <2>3. f \in FbType /\ f.fsm = "READ_BUF_RSP" /\ f.index = c.index
    BY <2>2 DEF FbType
  <2> HIDE DEF f
  <2>4. fb' \in FbType /\ fb'.fsm = "READ_BUF_RSP" /\ fb'.index = c.index /\ fb'.count = FlitCount(c)
    BY <2>1, <2>3 DEF FbType
  <2> QED BY <1>2, <2>1, <2>4 DEF FrameBufferTakes, FbAnswers
<1>6. CASE FbIllegal(c)
  <2>1. ~InSegment(c)
    BY <1>2, <1>6 DEF FbIllegal
  <2>2. fb' = [fb EXCEPT !.fsm = "ERROR_RSP"] /\ surface' = surface
    BY <1>6, <2>1 DEF FbIllegal
  <2>3. fb' \in FbType /\ fb'.fsm = "ERROR_RSP"
    BY <2>2 DEF FbType, FbAnswers
  <2> QED BY <1>2, <2>1, <2>2, <2>3 DEF FrameBufferTakes, FbAnswers
<1>7. ~FbBurst(c) /\ ~FbSwallow(c) /\ ~FbReadFlit(ack) /\ ~FbAnswered(ack) /\ ~FbWaits(c, ack)
  BY DEF FbBurst, FbSwallow, FbReadFlit, FbAnswered, FbWaits, FbRspval, FbCmdack
<1> QED BY <1>3, <1>4, <1>5, <1>6, <1>7 DEF FbAutomaton

\* The frame buffer keeps still without a command, and ends a response of one flit.
LEMMA FbOther ==
    ASSUME fb \in FbType, NEW c, NEW ack \in BOOLEAN, FbAutomaton(c, ack)
    PROVE  /\ fb.fsm = "IDLE" /\ ~c.val => fb' = fb /\ surface' = surface
           /\ fb.fsm \in FbAnswers /\ ~ack => fb' = fb /\ surface' = surface
           /\ fb.fsm \in FbAnswers /\ ack /\ (fb.fsm = "READ_BUF_RSP" => fb.count = 1) =>
                fb'.fsm = "IDLE" /\ fb' \in FbType /\ surface' = surface
<1>1. CASE fb.fsm = "IDLE"
  <2>1. fb.fsm \notin FbAnswers
    BY <1>1 DEF FbAnswers
  <2>2. ~c.val => fb' = fb /\ surface' = surface
    BY <1>1 DEF FbAutomaton, FbRegister, FbWrite, FbRead, FbIllegal, FbBurst, FbSwallow, FbReadFlit,
                FbAnswered, FbWaits, FbRspval, FbCmdack
  <2> QED BY <2>1, <2>2
<1>2. CASE fb.fsm \in FbAnswers
  <2>1. fb.fsm # "IDLE" /\ FbRspval
    BY <1>2 DEF FbAnswers, FbRspval, FbCmdack
  <2>2. ~FbRegister(c) /\ ~FbWrite(c) /\ ~FbRead(c) /\ ~FbIllegal(c) /\ ~FbBurst(c) /\ ~FbSwallow(c)
    BY <1>2 DEF FbAnswers, FbRegister, FbWrite, FbRead, FbIllegal, FbBurst, FbSwallow
  <2>3. ~ack => fb' = fb /\ surface' = surface
    BY <2>2 DEF FbAutomaton, FbReadFlit, FbAnswered, FbWaits
  <2>4. ASSUME ack, fb.fsm = "READ_BUF_RSP" => fb.count = 1
        PROVE  fb'.fsm = "IDLE" /\ fb' \in FbType /\ surface' = surface
    <3>1. ~FbWaits(c, ack)
      BY <2>1, <2>4 DEF FbWaits, FbRspval
    <3>2. CASE FbReadFlit(ack)
      <4> DEFINE n == (fb.count + CountSize - 1) % CountSize
                 e == [fb EXCEPT !.count = n]
                 f == [e EXCEPT !.index = fb.index + 1]
      <4>1. /\ fb.fsm = "READ_BUF_RSP" /\ surface' = surface
            /\ fb' = [fb EXCEPT !.count = (@ + CountSize - 1) % CountSize, !.index = @ + 1,
                                !.fsm = IF fb.count = 1 THEN "IDLE" ELSE @]
        BY <3>2 DEF FbReadFlit
      <4>2. n \in Int
        <5>1. CountSize \in Nat \ {0} /\ fb.count = 1
          BY <2>4, <4>1, FrameBufferAssumption
        <5> QED BY <5>1
      <4>3. fb' = [f EXCEPT !.fsm = "IDLE"]
        <5> HIDE DEF n
        <5>1. fb' = [fb EXCEPT !.count = n, !.index = @ + 1, !.fsm = "IDLE"]
          BY <2>4, <4>1 DEF FbType, n
        <5> QED BY <5>1 DEF FbType
      <4> HIDE DEF n
      <4>4. e \in FbType
        BY <4>2 DEF FbType
      <4>5. e.index = fb.index /\ fb.index \in Int
        BY DEF FbType
      <4> HIDE DEF e
      <4>6. f \in FbType
        BY <4>4, <4>5 DEF FbType
      <4> HIDE DEF f
      <4>7. fb' \in FbType /\ fb'.fsm = "IDLE"
        BY <4>3, <4>6 DEF FbType
      <4> QED BY <4>1, <4>7
    <3>3. CASE FbAnswered(ack)
      <4>1. fb' = [fb EXCEPT !.fsm = "IDLE"] /\ surface' = surface
        BY <3>3 DEF FbAnswered
      <4> QED BY <4>1 DEF FbType
    <3> QED BY <2>2, <3>1, <3>2, <3>3 DEF FbAutomaton
  <2> QED BY <2>1, <2>3, <2>4
<1> QED BY <1>1, <1>2 DEF FbType

\* The request that the data cache works on.
LEMMA HeldRequest ==
    ASSUME SocInv, d.fsm # "IDLE"
    PROVE  /\ Held \in prog.data /\ prog \in Programs
           /\ d.addr \in Addr /\ d.wdata \in Int /\ d.be \in 1 .. 4
           /\ FbIndex(d.addr) \in Pixels => d.type \notin {"LL", "SC"} /\ (d.type = "READ" => d.be = 4)
<1>1. Held \in prog.data /\ prog \in Programs
  BY DEF SocInv, DataRequest, SocTypeOK
<1>2. /\ Held \in Request
      /\ FbIndex(Held.addr) \in Pixels => Held.type \notin {"LL", "SC"} /\ (Held.type = "READ" => Held.be = 4)
  BY <1>1, ProgramsAssumption
<1>3. Held.type = d.type /\ Held.addr = d.addr /\ Held.wdata = d.wdata /\ Held.be = d.be
  BY DEF Held
<1>4. Held.addr \in Addr /\ Held.wdata \in Int /\ Held.be \in 1 .. 4
  BY <1>2 DEF Request, Addr
<1> QED BY <1>1, <1>2, <1>3, <1>4

\* The flit of the command that is on the port.
ReadFlit(c, a, n) == c.op = "READ" /\ c.addr = a /\ c.be /\ c.plen = n /\ c.data = 0
CommandFacts(c) ==
    /\ DOMAIN c = {"val", "op", "addr", "data", "be", "plen", "eop"}
    /\ c.val /\ c.addr \in Addr /\ c.data \in Int /\ c.plen \in Int
    /\ c.be \in BOOLEAN /\ c.op \in {"READ", "WRITE", "LL", "SC"}
    /\ c.eop <=> LastFlit
    /\ cmd.fsm = "INS_MISS" => ReadFlit(c, <<i.addr[1], 0>>, 4 * LineWords) /\ c.addr[1] < FbLine
    /\ cmd.fsm = "DATA_MISS" => ReadFlit(c, <<d.addr[1], 0>>, 4 * LineWords) /\ c.addr[1] < FbLine
    /\ cmd.fsm = "INS_UNC" => ReadFlit(c, i.addr, 4)
    /\ cmd.fsm = "DATA_UNC" =>
          /\ c.op = d.type /\ c.addr = d.addr /\ c.be /\ c.data = d.wdata /\ d.type \in {"READ", "LL", "SC"}
          /\ c.plen \in 1 .. 4 /\ (FbIndex(c.addr) \in Pixels => c.op = "READ" /\ c.plen = 4)
    /\ cmd.fsm = "DATA_WRITE" =>
          /\ c.op = "WRITE" /\ c.addr = <<wbuf.line, cmd.cpt>> /\ (c.be <=> cmd.cpt \in DOMAIN wbuf.data)
          /\ c.be => c.data = wbuf.data[cmd.cpt]
          /\ c.addr[1] >= FbLine => LastFlit
    /\ cmd.fsm # "DATA_WRITE" => LastFlit

\* The command flit on the port, from the transaction of the command automaton.
LEMMA Commands ==
    ASSUME SocInv, cmd.fsm # "IDLE"
    PROVE  CommandFacts(VciCmd)
<1>0. SocTypeOK /\ DataRequest /\ InsSide /\ WriteSide /\ PortAgrees
  BY DEF SocInv
<1>1. rsp.fsm = cmd.fsm /\ cmd.fsm \in Transactions
  BY <1>0 DEF PortAgrees, SocTypeOK
<1>2. ServesData /\ ServesIns
  BY Serving
<1>3. LineWords \in Nat \ {0} /\ FbLine \in Nat /\ 0 \in Words
  BY XcacheAssumption, SocAssumption DEF Words
<1>4. \A l \in Cached : l \in Nat /\ l < FbLine
  BY ProgramsAssumption
<1>5. ASSUME NEW a, NEW n \in Int, VciCmd = Read_(a, n), a \in Addr
      PROVE  /\ DOMAIN VciCmd = {"val", "op", "addr", "data", "be", "plen", "eop"}
             /\ VciCmd.val /\ VciCmd.addr \in Addr /\ VciCmd.data \in Int /\ VciCmd.plen \in Int
             /\ VciCmd.be \in BOOLEAN /\ VciCmd.op \in {"READ", "WRITE", "LL", "SC"}
             /\ VciCmd.eop /\ ReadFlit(VciCmd, a, n)
  BY <1>5 DEF Read_, ReadFlit
<1>6. cmd.fsm # "DATA_WRITE" => LastFlit
  BY DEF LastFlit
<1>7. CASE cmd.fsm = "INS_MISS"
  <2>1. i.addr \in Addr /\ i.addr[1] \in Cached
    BY <1>0, <1>1, <1>2, <1>7 DEF ServesIns, InsSide, InstructionMiss, MissStates
  <2>2. <<i.addr[1], 0>> \in Addr /\ i.addr[1] < FbLine
    BY <1>3, <1>4, <2>1 DEF Addr
  <2>3. VciCmd = Read_(<<i.addr[1], 0>>, 4 * LineWords) /\ 4 * LineWords \in Int
    BY <1>0, <1>3, <1>7, VciFlit
  <2> DEFINE a == <<i.addr[1], 0>>
             n == 4 * LineWords
  <2>4. a[1] = i.addr[1]
    OBVIOUS
  <2>5. VciCmd = Read_(a, n) /\ n \in Int /\ a \in Addr
    BY <2>2, <2>3
  <2> HIDE DEF a, n
  <2>6. VciCmd.addr = a
    BY <1>5, <2>5 DEF ReadFlit
  <2>7. ReadFlit(VciCmd, <<i.addr[1], 0>>, 4 * LineWords) /\ VciCmd.addr[1] < FbLine
    <3>1. ReadFlit(VciCmd, a, n)
      BY <1>5, <2>5
    <3> QED BY <2>2, <2>4, <2>6, <3>1 DEF a, n
  <2>8. /\ DOMAIN VciCmd = {"val", "op", "addr", "data", "be", "plen", "eop"}
        /\ VciCmd.val /\ VciCmd.addr \in Addr /\ VciCmd.data \in Int /\ VciCmd.plen \in Int
        /\ VciCmd.be \in BOOLEAN /\ VciCmd.op \in {"READ", "WRITE", "LL", "SC"} /\ VciCmd.eop
    BY <1>5, <2>5
  <2> QED BY <1>6, <1>7, <2>7, <2>8 DEF CommandFacts
<1>8. CASE cmd.fsm = "DATA_MISS"
  <2>1. d.fsm \in MissStates /\ d.fsm # "IDLE"
    BY <1>1, <1>2, <1>8 DEF ServesData, MissStates
  <2>2. d.addr \in Addr /\ d.addr[1] \in Cached
    BY <1>0, <2>1, HeldRequest DEF DataRequest
  <2>3. <<d.addr[1], 0>> \in Addr /\ d.addr[1] < FbLine
    BY <1>3, <1>4, <2>2 DEF Addr
  <2>4. VciCmd = Read_(<<d.addr[1], 0>>, 4 * LineWords) /\ 4 * LineWords \in Int
    BY <1>0, <1>3, <1>8, VciFlit
  <2> DEFINE a == <<d.addr[1], 0>>
             n == 4 * LineWords
  <2>5. a[1] = d.addr[1]
    OBVIOUS
  <2>6. VciCmd = Read_(a, n) /\ n \in Int /\ a \in Addr
    BY <2>3, <2>4
  <2> HIDE DEF a, n
  <2>7. VciCmd.addr = a
    BY <1>5, <2>6 DEF ReadFlit
  <2>8. ReadFlit(VciCmd, <<d.addr[1], 0>>, 4 * LineWords) /\ VciCmd.addr[1] < FbLine
    <3>1. ReadFlit(VciCmd, a, n)
      BY <1>5, <2>6
    <3> QED BY <2>3, <2>5, <2>7, <3>1 DEF a, n
  <2>9. /\ DOMAIN VciCmd = {"val", "op", "addr", "data", "be", "plen", "eop"}
        /\ VciCmd.val /\ VciCmd.addr \in Addr /\ VciCmd.data \in Int /\ VciCmd.plen \in Int
        /\ VciCmd.be \in BOOLEAN /\ VciCmd.op \in {"READ", "WRITE", "LL", "SC"} /\ VciCmd.eop
    BY <1>5, <2>6
  <2> QED BY <1>6, <1>8, <2>8, <2>9 DEF CommandFacts
<1>9. CASE cmd.fsm = "INS_UNC"
  <2>1. i.addr \in Addr
    BY <1>0, <1>1, <1>2, <1>9 DEF ServesIns, InsSide, InstructionUncached
  <2>2. VciCmd = Read_(i.addr, 4)
    BY <1>0, <1>9, VciFlit
  <2>3. /\ DOMAIN VciCmd = {"val", "op", "addr", "data", "be", "plen", "eop"}
        /\ VciCmd.val /\ VciCmd.addr \in Addr /\ VciCmd.data \in Int /\ VciCmd.plen \in Int
        /\ VciCmd.be \in BOOLEAN /\ VciCmd.op \in {"READ", "WRITE", "LL", "SC"} /\ VciCmd.eop
        /\ ReadFlit(VciCmd, i.addr, 4)
    BY <1>5, <2>1, <2>2
  <2> QED BY <1>6, <1>9, <2>3 DEF CommandFacts
<1>10. CASE cmd.fsm = "DATA_UNC"
  <2>1. d.fsm = "UNC_WAIT" /\ d.fsm # "IDLE"
    BY <1>1, <1>2, <1>10 DEF ServesData
  <2>2. /\ d.addr \in Addr /\ d.wdata \in Int /\ d.be \in 1 .. 4 /\ d.type \in {"READ", "LL", "SC"}
        /\ FbIndex(d.addr) \in Pixels => d.type \notin {"LL", "SC"} /\ (d.type = "READ" => d.be = 4)
    BY <1>0, <2>1, HeldRequest DEF DataRequest
  <2> DEFINE n == IF d.type = "READ" THEN d.be ELSE 4
  <2>3. n \in 1 .. 4 /\ n \in Int /\ (FbIndex(d.addr) \in Pixels => d.type = "READ" /\ n = 4)
    BY <2>2
  <2>4. VciCmd = [val |-> TRUE, op |-> d.type, addr |-> d.addr, data |-> d.wdata, be |-> TRUE,
                  plen |-> n, eop |-> TRUE]
    BY <1>0, <1>10, VciFlit
  <2> HIDE DEF n
  <2>5. /\ DOMAIN VciCmd = {"val", "op", "addr", "data", "be", "plen", "eop"}
        /\ VciCmd.val = TRUE /\ VciCmd.addr = d.addr /\ VciCmd.data = d.wdata /\ VciCmd.plen = n
        /\ VciCmd.be = TRUE /\ VciCmd.op = d.type /\ VciCmd.eop = TRUE
    BY <2>4
  <2> QED BY <1>6, <1>10, <2>2, <2>3, <2>5 DEF CommandFacts
<1>11. CASE cmd.fsm = "DATA_WRITE"
  <2> DEFINE W == DOMAIN wbuf.data
             n == 4 * (cmd.max - MinWord(W) + 1)
             v == IF cmd.cpt \in W THEN wbuf.data[cmd.cpt] ELSE 0
  <2>1. /\ "DATA_WRITE" \in req /\ cmd.max = MaxWord(W) /\ cmd.cpt \in MinWord(W) .. cmd.max
        /\ wbuf.line # NoLine /\ wbuf.line \in Nat /\ W # {}
    BY <1>0, <1>11 DEF WriteSide
  <2>2. W \in SUBSET Words /\ wbuf.data \in [W -> Int]
    BY <1>0 DEF SocTypeOK
  <2>3. /\ MinWord(W) \in W /\ (\A x \in W : MinWord(W) <= x)
        /\ MaxWord(W) \in W /\ (\A x \in W : MaxWord(W) >= x)
    BY <2>1, <2>2, WordBounds
  <2>4. VciCmd = [val |-> TRUE, op |-> "WRITE", addr |-> <<wbuf.line, cmd.cpt>>, data |-> v,
                  be |-> cmd.cpt \in W, plen |-> n, eop |-> LastFlit]
    BY <1>0, <1>11, VciFlit
  <2>5. v \in Int /\ (cmd.cpt \in W => v = wbuf.data[cmd.cpt])
    BY <2>2
  <2>6. MinWord(W) \in Nat /\ MaxWord(W) \in Nat /\ MaxWord(W) < LineWords
    BY <1>3, <2>2, <2>3 DEF Words
  <2>7. n \in Int
    BY <2>1, <2>6
  <2>8. cmd.cpt \in Words
    BY <1>3, <2>1, <2>6 DEF Words
  <2>9. wbuf.line >= FbLine => LastFlit
    <3>1. SUFFICES ASSUME wbuf.line >= FbLine PROVE cmd.cpt = cmd.max
      BY DEF LastFlit
    <3>2. wbuf.line \notin Cached
      BY <1>3, <1>4, <2>1, <3>1
    <3>3. \A x, y \in W : x = y
      BY <1>0, <2>1, <3>2 DEF WriteSide
    <3>4. MinWord(W) = MaxWord(W)
      BY <2>3, <3>3
    <3> QED BY <2>1, <2>6, <3>4
  <2> HIDE DEF v, n
  <2>10. /\ DOMAIN VciCmd = {"val", "op", "addr", "data", "be", "plen", "eop"}
         /\ VciCmd.val = TRUE /\ VciCmd.addr = <<wbuf.line, cmd.cpt>> /\ VciCmd.data = v /\ VciCmd.plen = n
         /\ VciCmd.be = (cmd.cpt \in W) /\ VciCmd.op = "WRITE" /\ VciCmd.eop = LastFlit
    BY <2>4, Zenon
  <2>11. <<wbuf.line, cmd.cpt>> \in Addr /\ <<wbuf.line, cmd.cpt>>[1] = wbuf.line
    BY <2>1, <2>8 DEF Addr
  <2>12. VciCmd.addr \in Addr /\ VciCmd.addr[1] = wbuf.line
    BY <2>10, <2>11
  <2>13. /\ VciCmd.be \in BOOLEAN /\ (VciCmd.be <=> cmd.cpt \in DOMAIN wbuf.data) /\ (VciCmd.eop <=> LastFlit)
         /\ VciCmd.be => VciCmd.data = wbuf.data[cmd.cpt]
    <3>1. VciCmd.eop <=> LastFlit
      BY <2>10
    <3>0. VciCmd.be = (cmd.cpt \in DOMAIN wbuf.data)
      BY <2>10, Zenon
    <3>2. VciCmd.be \in BOOLEAN /\ (VciCmd.be <=> cmd.cpt \in DOMAIN wbuf.data)
      <4>1. CASE cmd.cpt \in DOMAIN wbuf.data
        <5>1. VciCmd.be = TRUE
          BY <3>0, <4>1
        <5> QED BY <4>1, <5>1
      <4>2. CASE cmd.cpt \notin DOMAIN wbuf.data
        <5>0. (cmd.cpt \in DOMAIN wbuf.data) = FALSE
          BY <4>2
        <5>1. VciCmd.be = FALSE
          BY <3>0, <5>0, Zenon
        <5> QED BY <4>2, <5>1
      <4> QED BY <4>1, <4>2
    <3>3. VciCmd.data = v
      BY <2>10
    <3> QED BY <2>5, <3>1, <3>2, <3>3
  <2>14. VciCmd.val /\ VciCmd.op = "WRITE" /\ VciCmd.data \in Int /\ VciCmd.plen \in Int
    BY <2>5, <2>7, <2>10
  <2>15. cmd.fsm # "INS_MISS" /\ cmd.fsm # "INS_UNC" /\ cmd.fsm # "DATA_MISS" /\ cmd.fsm # "DATA_UNC"
    BY <1>11
  <2>16. VciCmd.addr[1] >= FbLine => LastFlit
    BY <2>9, <2>12
  <2> HIDE DEF W
  <2> QED BY <1>11, <2>10, <2>12, <2>13, <2>14, <2>15, <2>16 DEF CommandFacts
<1> QED BY <1>1, <1>7, <1>8, <1>9, <1>10, <1>11 DEF Transactions

RamType == [fsm : {"IDLE", "WRITE", "RSP"}, addr : Int \X Int, op : {"READ", "WRITE", "LL", "SC"}, left : Int]

\* The three things the targets do: nothing, take a flit of a command, give one of a
\* response.
TargetsStay == ram' = ram /\ mem' = mem /\ fb' = fb /\ surface' = surface
TargetsTake ==
    IF ToFb(VciCmd)
    THEN ram' = ram /\ mem' = mem /\ FrameBufferTakes(FbFlit(VciCmd, TRUE))
    ELSE /\ fb' = fb /\ surface' = surface
         /\ ram'.fsm = IF LastFlit THEN "RSP" ELSE "WRITE"
         /\ ram'.addr = VciCmd.addr /\ ram'.op = VciCmd.op /\ ram'.left = RamFlits(VciCmd)
         /\ ram' \in RamType
         /\ mem' = IF VciCmd.op \in {"WRITE", "SC"} /\ VciCmd.be /\ VciCmd.addr \in RamAddrs
                   THEN [mem EXCEPT ![VciCmd.addr] = VciCmd.data] ELSE mem
TargetsAnswer ==
    /\ mem' = mem /\ surface' = surface
    /\ fb.fsm \in FbAnswers => ram' = ram /\ fb'.fsm = "IDLE" /\ fb' \in FbType
    /\ fb.fsm = "IDLE" =>
          /\ fb' = fb /\ ram' \in RamType
          /\ ram'.addr = <<ram.addr[1], ram.addr[2] + 1>> /\ ram'.op = ram.op /\ ram'.left = ram.left - 1
          /\ ram'.fsm = IF ram.left = 1 THEN "IDLE" ELSE "RSP"

\* The response to a miss has one flit per word of a line.
LEMMA MissFlits == (4 * LineWords + 3) \div 4 = LineWords
<1>1. LineWords \in Nat
  BY XcacheAssumption
<1> QED BY <1>1

\* A step moves the two targets: still, taking a flit, or answering.
LEMMA TargetsNext ==
    ASSUME SocInv, NEW g \in BOOLEAN, SocStep(g)
    PROVE  /\ ~Passes(g) /\ ~Answered(g) => TargetsStay
           /\ Passes(g) => TargetsTake
           /\ Answered(g) => TargetsAnswer
<1> DEFINE c == RamFlit(VciCmd, g)
           f == FbFlit(VciCmd, g)
<1>0. SocTypeOK /\ PortAgrees
  BY DEF SocInv
<1>1. RamStep(c, g) /\ FbAutomaton(f, g)
  BY DEF SocStep
<1>2. fb \in FbType /\ ram \in RamType
  BY <1>0 DEF SocTypeOK, FbType, RamType
<1>3. f.val <=> g /\ cmd.fsm # "IDLE" /\ ToFb(VciCmd)
  BY <1>0, VciFlit DEF FbFlit
<1>4. "val" \in DOMAIN VciCmd
  <2>1. CASE cmd.fsm = "IDLE"
    <3>1. VciCmd = [Read_(NoReq.addr, 0) EXCEPT !.val = FALSE]
      BY <2>1 DEF VciCmd
    <3> QED BY <3>1 DEF Read_
  <2>2. CASE cmd.fsm # "IDLE"
    BY <2>2, Commands DEF CommandFacts
  <2> QED BY <2>1, <2>2
<1>5. c.val <=> g /\ cmd.fsm # "IDLE" /\ ~ToFb(VciCmd)
  <2>1. c.val = (g /\ VciCmd.val /\ ~ToFb(VciCmd))
    BY <1>4 DEF RamFlit
  <2> QED BY <1>0, <2>1, VciFlit
<1>6. cmd.fsm # "IDLE" => fb.fsm = "IDLE" /\ ram.fsm # "RSP"
  BY <1>0 DEF PortAgrees
<1>7. ASSUME ~Passes(g), ~Answered(g) PROVE TargetsStay
  <2>1. ~c.val /\ ~f.val
    BY <1>3, <1>5, <1>7 DEF Passes
  <2>2. ram.fsm = "RSP" => ~g
    BY <1>7 DEF Answered
  <2>3. ram' = ram /\ mem' = mem
    <3> HIDE DEF c
    <3> QED BY <1>1, <2>1, <2>2 DEF RamStep
  <2>4. fb' = fb /\ surface' = surface
    <3>1. fb.fsm = "IDLE" \/ (fb.fsm \in FbAnswers /\ ~g)
      BY <1>2, <1>7 DEF Answered, FbType
    <3> HIDE DEF f
    <3> QED BY <1>1, <1>2, <2>1, <3>1, FbOther
  <2> QED BY <2>3, <2>4 DEF TargetsStay
<1>8. ASSUME Passes(g) PROVE TargetsTake
  <2>1. g /\ cmd.fsm # "IDLE" /\ fb.fsm = "IDLE" /\ ram.fsm # "RSP" /\ CommandFacts(VciCmd)
    BY <1>6, <1>8, Commands DEF Passes
  <2>2. CASE ToFb(VciCmd)
    <3>1. f.val /\ ~c.val
      BY <1>3, <1>5, <2>1, <2>2
    <3>2. ram' = ram /\ mem' = mem
      <4> HIDE DEF c
      <4> QED BY <1>1, <2>1, <3>1 DEF RamStep
    <3>3. f = FbFlit(VciCmd, TRUE)
      BY <2>1 DEF FbFlit
    <3>4. VciCmd.addr[1] >= FbLine
      BY <2>2 DEF ToFb
    <3>5. VciCmd.eop
      <4>1. VciCmd.eop <=> LastFlit
        BY <2>1 DEF CommandFacts
      <4>2. LastFlit
        BY <2>1, <3>4 DEF CommandFacts
      <4> QED BY <4>1, <4>2
    <3>6. /\ VciCmd.addr \in Addr /\ VciCmd.op \in {"READ", "WRITE", "LL", "SC"} /\ VciCmd.plen \in Int
          /\ FbIndex(VciCmd.addr) \in Pixels => VciCmd.op \in {"READ", "WRITE"}
      <4>1. cmd.fsm \in Transactions
        BY <1>0, <2>1 DEF SocTypeOK
      <4>2. cmd.fsm # "DATA_UNC" => VciCmd.op \in {"READ", "WRITE"}
        BY <2>1, <4>1 DEF CommandFacts, ReadFlit, Transactions
      <4> QED BY <2>1, <4>2 DEF CommandFacts
    <3>7. FbIndex(VciCmd.addr) \in Int
      BY <3>6, FbAddresses
    <3>8. f.index = FbIndex(VciCmd.addr) /\ f.op = VciCmd.op /\ f.eop = VciCmd.eop /\ f.plen = VciCmd.plen
      BY DEF FbFlit
    <3>9. FlitCount(f) \in Int
      <4>1. \A x \in Int : x \div 4 \in Int
        OBVIOUS
      <4> QED BY <3>6, <3>8, <4>1 DEF FlitCount
    <3> HIDE DEF f
    <3>10. f.index \in Int /\ f.op \in {"READ", "WRITE", "LL", "SC"} /\ f.eop
           /\ (f.index \in Pixels => f.op \in {"READ", "WRITE"})
      BY <3>5, <3>6, <3>7, <3>8
    <3>11. FrameBufferTakes(f)
      BY <1>1, <1>2, <2>1, <3>1, <3>9, <3>10, FbCommand
    <3> QED BY <2>2, <3>2, <3>3, <3>11 DEF TargetsTake
  <2>3. CASE ~ToFb(VciCmd)
    <3>1. ~f.val /\ c.val
      BY <1>3, <1>5, <2>1, <2>3
    <3>2. fb' = fb /\ surface' = surface
      <4> HIDE DEF f
      <4> QED BY <1>1, <1>2, <2>1, <3>1, FbOther
    <3>3. DOMAIN VciCmd = {"val", "op", "addr", "data", "be", "plen", "eop"}
      BY <2>1 DEF CommandFacts
    <3>4. /\ c.op = VciCmd.op /\ c.addr = VciCmd.addr /\ c.data = VciCmd.data /\ c.be = VciCmd.be
          /\ c.plen = VciCmd.plen /\ c.eop = VciCmd.eop
      BY <3>3 DEF RamFlit
    <3> HIDE DEF c
    <3>5. ram.fsm \in {"IDLE", "WRITE"}
      BY <1>2, <2>1 DEF RamType
    <3>6. /\ ram' = [fsm |-> IF c.eop THEN "RSP" ELSE "WRITE", addr |-> c.addr, op |-> c.op, left |-> RamFlits(c)]
          /\ mem' = IF c.op \in {"WRITE", "SC"} /\ c.be /\ c.addr \in RamAddrs
                    THEN [mem EXCEPT ![c.addr] = c.data] ELSE mem
      BY <1>1, <3>1, <3>5 DEF RamStep
    <3>7. RamFlits(c) = RamFlits(VciCmd)
      BY <3>4 DEF RamFlits
    <3>8. VciCmd.addr \in Int \X Int /\ VciCmd.op \in {"READ", "WRITE", "LL", "SC"} /\ VciCmd.plen \in Int
          /\ (VciCmd.eop <=> LastFlit)
      BY <2>1, AddrParts DEF CommandFacts
    <3>9. RamFlits(VciCmd) \in Int
      <4>1. \A x \in Int : (x + 3) \div 4 \in Int
        OBVIOUS
      <4> QED BY <3>8, <4>1 DEF RamFlits
    <3>10. /\ ram'.fsm = IF LastFlit THEN "RSP" ELSE "WRITE"
           /\ ram'.addr = VciCmd.addr /\ ram'.op = VciCmd.op /\ ram'.left = RamFlits(VciCmd)
           /\ ram' = [fsm |-> ram'.fsm, addr |-> ram'.addr, op |-> ram'.op, left |-> ram'.left]
      BY <3>4, <3>6, <3>7, <3>8
    <3>11. ram' \in RamType
      BY <3>8, <3>9, <3>10 DEF RamType
    <3> QED BY <2>3, <3>2, <3>4, <3>6, <3>10, <3>11 DEF TargetsTake
  <2> QED BY <2>2, <2>3
<1>9. ASSUME Answered(g) PROVE TargetsAnswer
  <2>1. cmd.fsm = "IDLE" /\ rsp.fsm # "IDLE"
    BY <1>9, FlitIsExpected DEF RspFacts, Transactions
  <2>2. RamAnswer \/ FbAnswer
    BY <1>0, <2>1 DEF PortAgrees
  <2>3. g /\ ~c.val /\ ~f.val
    BY <1>3, <1>5, <1>9, <2>1 DEF Answered
  <2>4. CASE RamAnswer
    <3>1. ram.fsm = "RSP" /\ fb.fsm = "IDLE"
      BY <2>4 DEF RamAnswer
    <3>2. fb' = fb /\ surface' = surface
      <4> HIDE DEF f
      <4> QED BY <1>1, <1>2, <2>3, <3>1, FbOther
    <3> DEFINE s == IF ram.left = 1 THEN "IDLE" ELSE "RSP"
               e1 == [ram EXCEPT !.left = ram.left - 1]
               e2 == [e1 EXCEPT !.addr = <<ram.addr[1], ram.addr[2] + 1>>]
    <3>3. /\ ram' = [ram EXCEPT !.left = @ - 1, !.addr = <<@[1], @[2] + 1>>,
                                !.fsm = IF ram.left = 1 THEN "IDLE" ELSE @]
          /\ mem' = mem
      <4> HIDE DEF c
      <4> QED BY <1>1, <2>3, <3>1 DEF RamStep
    <3>4. ram' = [e2 EXCEPT !.fsm = s]
      BY <1>2, <3>1, <3>3 DEF RamType
    <3>5. e1 \in RamType /\ e1.left = ram.left - 1 /\ e1.op = ram.op
      BY <1>2 DEF RamType
    <3>6. <<ram.addr[1], ram.addr[2] + 1>> \in Int \X Int
      BY <1>2 DEF RamType
    <3> HIDE DEF e1
    <3>7. e2 \in RamType /\ e2.left = ram.left - 1 /\ e2.op = ram.op
          /\ e2.addr = <<ram.addr[1], ram.addr[2] + 1>>
      BY <3>5, <3>6 DEF RamType
    <3>8. s \in {"IDLE", "RSP"}
      OBVIOUS
    <3> HIDE DEF e2, s
    <3>9. ram' \in RamType /\ ram'.left = ram.left - 1 /\ ram'.op = ram.op
          /\ ram'.addr = <<ram.addr[1], ram.addr[2] + 1>> /\ ram'.fsm = s
      BY <3>4, <3>7, <3>8 DEF RamType
    <3> QED BY <3>1, <3>2, <3>3, <3>9 DEF TargetsAnswer, FbAnswers, s
  <2>5. CASE FbAnswer
    <3>1. ram.fsm = "IDLE" /\ fb.fsm \in FbAnswers /\ (fb.fsm = "READ_BUF_RSP" => fb.count = 1)
      BY <2>5 DEF FbAnswer
    <3>2. ram' = ram /\ mem' = mem
      <4> HIDE DEF c
      <4> QED BY <1>1, <2>3, <3>1 DEF RamStep
    <3>3. fb'.fsm = "IDLE" /\ fb' \in FbType /\ surface' = surface
      <4> HIDE DEF f
      <4> QED BY <1>1, <1>2, <2>3, <3>1, FbOther
    <3> QED BY <3>1, <3>2, <3>3 DEF TargetsAnswer, FbAnswers
  <2> QED BY <2>2, <2>4, <2>5
<1> QED BY <1>7, <1>8, <1>9

-----------------------------------------------------------------------------
(***************************************************************************)
(* Each part of the invariant is kept.                                     *)
(***************************************************************************)
CycleMoves(g) ==
    /\ DataMove /\ DataState /\ d' \in DataType /\ InsState /\ i' \in InsType
    /\ RspMove(g) /\ FifoMove(g) /\ CmdMove(g) /\ ReqMove(g) /\ WbufMove(g) /\ ProgramMove
    /\ ~Passes(g) /\ ~Answered(g) => TargetsStay
    /\ Passes(g) => TargetsTake
    /\ Answered(g) => TargetsAnswer

\* A step of the system is the conjunction of the moves of its parts.
LEMMA StepMoves ==
    ASSUME SocInv, NEW g \in BOOLEAN, SocStep(g)
    PROVE  CycleMoves(g)
<1>1. DcacheStep /\ IcacheStep
  BY DEF SocStep, Cycle
<1>2. SocTypeOK
  BY DEF SocInv
<1>3. DataMove /\ DataState /\ d' \in DataType /\ InsState /\ i' \in InsType
  BY <1>1, <1>2, DataNext, DataStateNext, InsNext
<1>4. RspMove(g) /\ FifoMove(g) /\ CmdMove(g) /\ ReqMove(g) /\ WbufMove(g) /\ ProgramMove
  BY RspNext, FifoNext, CommandNext, ProgramNext
<1>5. /\ ~Passes(g) /\ ~Answered(g) => TargetsStay
      /\ Passes(g) => TargetsTake
      /\ Answered(g) => TargetsAnswer
  BY TargetsNext
<1> QED BY <1>3, <1>4, <1>5 DEF CycleMoves

\* A step keeps DataRequest: the registers hold the request being served.
LEMMA DataRequestNext ==
    ASSUME SocInv, NEW g \in BOOLEAN, CycleMoves(g)
    PROVE  DataRequest'
<1>0. SocTypeOK /\ DataRequest /\ DataState /\ ProgramMove
  BY DEF SocInv, CycleMoves
<1>1. prog' = prog /\ (~Replies /\ dreq # NoReq => dreq' = dreq)
  BY <1>0 DEF ProgramMove
<1>2. Accepts => d.fsm \in {"IDLE", "WRITE_REQ"}
  BY DEF Accepts, Posts
<1>3. CASE Accepts /\ dreq = NoReq
  <2>1. d'.fsm = "IDLE"
    BY <1>0, <1>3 DEF DataState
  <2> QED BY <2>1 DEF DataRequest, Waits, MissStates, WriteStates, ExternStates
<1>4. CASE Accepts /\ dreq # NoReq
  <2>1. /\ d'.type = dreq.type /\ d'.addr = dreq.addr /\ d'.wdata = dreq.wdata /\ d'.be = dreq.be
        /\ d'.cacheable = Cacheable(dreq) /\ d'.fsm = NextDataState
    BY <1>0, <1>4 DEF DataState
  <2>2. dreq \in prog.data /\ dreq \in Request
    BY <1>0, <1>4, NextStates
  <2>3. Held' = dreq
    <3>1. dreq = [type |-> dreq.type, addr |-> dreq.addr, wdata |-> dreq.wdata, be |-> dreq.be]
      BY <2>2 DEF Request
    <3> QED BY <2>1, <3>1 DEF Held
  <2>4. d'.fsm \in MissStates => ReadMiss(dreq)
    BY <1>0, <1>4, <2>1, NextStates DEF MissStates
  <2>5. d'.fsm = "UNC_WAIT" => Uncached(dreq)
    BY <1>0, <1>4, <2>1, NextStates
  <2>6. d'.fsm \in ExternStates => dreq.type = "INVAL"
    BY <1>0, <1>4, <2>1, NextStates DEF ExternStates
  <2>7. d'.fsm \in WriteStates => dreq.type = "WRITE"
    BY <1>0, <1>4, <2>1, NextStates
  <2>8. d'.fsm \in MissStates => d'.type = "READ" /\ d'.addr[1] \in Cached
    BY <2>1, <2>4 DEF ReadMiss, Cacheable
  <2>9. d'.fsm = "UNC_WAIT" => d'.type \in {"READ", "LL", "SC"} /\ (d'.type = "READ" => d'.addr[1] \notin Cached)
    BY <2>1, <2>5 DEF Uncached, Cacheable
  <2>10. d'.fsm \in WriteStates => d'.type = "WRITE" /\ (d'.cacheable <=> d'.addr[1] \in Cached)
    BY <2>1, <2>7 DEF Cacheable
  <2>11. ASSUME Waits' \/ d'.fsm \in ExternStates PROVE dreq' = Held'
    <3>1. ReadMiss(dreq) \/ Uncached(dreq) \/ dreq.type = "INVAL"
      BY <2>4, <2>5, <2>6, <2>11 DEF Waits
    <3>2. ~Replies
      BY <1>2, <1>4, <3>1 DEF Replies, ReadMiss, Uncached, ClearDataError
    <3> QED BY <1>1, <1>4, <2>3, <3>2
  <2> QED BY <1>1, <2>1, <2>2, <2>3, <2>6, <2>8, <2>9, <2>10, <2>11 DEF DataRequest
<1>5. CASE ~Accepts
  <2>1. Keeps
    BY <1>0, <1>5 DEF DataState
  <2>2. Held' = Held
    BY <2>1 DEF Keeps, Held
  <2>3. /\ d'.fsm \in MissStates => d.fsm \in MissStates
        /\ d'.fsm = "UNC_WAIT" => d.fsm = "UNC_WAIT"
        /\ d'.fsm \in WriteStates => d.fsm \in WriteStates
        /\ d'.fsm \in ExternStates => d.fsm \in ExternStates
        /\ d'.fsm # "IDLE" => d.fsm # "IDLE"
    <3>1. d.fsm \in {"IDLE", "UNC_WAIT"} \cup MissStates \cup WriteStates \cup ExternStates
      BY <1>0 DEF SocTypeOK
    <3>2. d.fsm # "IDLE"
      BY <1>5 DEF Accepts
    <3>3. d.fsm = "WRITE_REQ" => ~Posts
      BY <1>5 DEF Accepts
    <3> QED BY <1>0, <3>1, <3>2, <3>3 DEF DataState, MissStates, WriteStates, ExternStates
  <2>4. ASSUME Waits' \/ d'.fsm \in ExternStates PROVE dreq' = Held'
    <3>1. Waits \/ d.fsm \in ExternStates
      BY <2>3, <2>4 DEF Waits
    <3>2. dreq = Held /\ d.type # "NONE"
      BY <1>0, <3>1 DEF DataRequest, Waits
    <3>3. dreq # NoReq
      BY <3>2 DEF Held, NoReq
    <3>4. ~Replies
      BY <1>0, <1>5, <2>4, <3>1 DEF Replies, DataState, Waits, MissStates, ExternStates, ClearDataError
    <3> QED BY <1>1, <2>2, <3>2, <3>3, <3>4
  <2> QED BY <1>0, <1>1, <2>1, <2>2, <2>3, <2>4 DEF DataRequest, Keeps
<1> QED BY <1>3, <1>4, <1>5

\* The phase of a read after the cycle.
AskedNext(t, word, side) ==
    t \in req' /\ rsp'.fsm # t /\ word = 0 /\ fifo'[side] = <<>> /\ side \notin rsp'.error
ServedNext(t, word, waits, side) ==
    /\ t \notin req' /\ rsp'.fsm = t /\ word + Len(fifo'[side]) = rsp'.cpt /\ Len(fifo'[side]) <= 1
    /\ side \notin rsp'.error /\ rsp'.cpt < LineWords
    /\ cmd'.fsm # t => waits
    /\ t \in {"DATA_UNC", "INS_UNC"} => rsp'.cpt = 0
ArrivedNext(t, word, waits, side) ==
    /\ t \notin req' /\ rsp'.fsm # t /\ waits /\ side \notin rsp'.error /\ Len(fifo'[side]) = 1
    /\ t \in {"DATA_MISS", "INS_MISS"} => word = LineWords - 1
RefusedNext(t, waits, side) ==
    t \notin req' /\ rsp'.fsm # t /\ waits /\ side \in rsp'.error /\ fifo'[side] = <<>>
PhaseNext(t, word, waits, side) ==
    \/ AskedNext(t, word, side) \/ ServedNext(t, word, waits, side)
    \/ ArrivedNext(t, word, waits, side) \/ RefusedNext(t, waits, side)
OverNext(t, side) ==
    t \notin req' /\ rsp'.fsm # t /\ fifo'[side] = <<>> /\ side \notin rsp'.error

\* What a cache in state s takes from its half of the port, and what happens to it.
TakesWord(s, side) == s \in {"MISS_WAIT", "UNC_WAIT"} /\ side \notin rsp.error /\ fifo[side] # <<>>
TakesError(s, side) == s \in {"MISS_WAIT", "UNC_WAIT"} /\ side \in rsp.error
SideMove(g, side, reads, s) ==
    /\ side \in rsp'.error <=> (side \in rsp.error /\ ~TakesError(s, side)) \/ (Fails(g) /\ rsp.fsm \in reads)
    /\ fifo'[side] = IF Brings(g) /\ rsp.fsm \in reads THEN <<TargetRsp.data>>
                     ELSE IF TakesWord(s, side) THEN <<>> ELSE fifo[side]
TakesLast(t, word, s, side) == TakesWord(s, side) /\ (t \notin Misses \/ word = LineWords - 1)
WordNext(word, s, side) == IF TakesWord(s, side) THEN word + 1 ELSE word
Waiting(s) == s \in {"MISS_WAIT", "UNC_WAIT"}

\* A transaction starts for a request that is pending.
LEMMA StartFacts ==
    ASSUME SocInv, NEW g \in BOOLEAN, CycleMoves(g)
    PROVE  /\ Start => /\ cmd.fsm = "IDLE" /\ rsp.fsm = "IDLE" /\ ~Answered(g) /\ ~Passes(g)
                       /\ First(req) \in req /\ First(req) \in Transactions
                       /\ First(req) \in DataReads => "DATA_WRITE" \notin req
                       /\ rsp'.fsm = First(req) /\ rsp'.cpt = 0 /\ cmd'.fsm = First(req)
           /\ \A t \in Transactions : rsp'.fsm = t => t \in req \/ rsp.fsm = t
<1>0. SocTypeOK /\ PortAgrees /\ RspMove(g) /\ CmdMove(g)
  BY DEF SocInv, CycleMoves
<1>1. ASSUME Start
      PROVE  /\ cmd.fsm = "IDLE" /\ rsp.fsm = "IDLE" /\ ~Answered(g) /\ ~Passes(g)
             /\ First(req) \in req /\ First(req) \in Transactions
             /\ First(req) \in DataReads => "DATA_WRITE" \notin req
             /\ rsp'.fsm = First(req) /\ rsp'.cpt = 0 /\ cmd'.fsm = First(req)
  <2>1. cmd.fsm = "IDLE" /\ rsp.fsm = "IDLE" /\ req # {}
    BY <1>1 DEF Start
  <2>2. ~Answered(g)
    BY <1>1, PutsAre
  <2>3. req \in SUBSET Transactions
    BY <1>0 DEF SocTypeOK
  <2>4. First(req) \in req /\ (First(req) \in DataReads => "DATA_WRITE" \notin req)
    BY <2>1, <2>3, FirstRequest DEF DataReads
  <2>5. rsp'.fsm = First(req) /\ rsp'.cpt = 0
    BY <1>0, <1>1 DEF RspMove
  <2>6. cmd'.fsm = First(req)
    BY <1>0, <1>1 DEF CmdMove
  <2> QED BY <2>1, <2>2, <2>3, <2>4, <2>5, <2>6 DEF Passes
<1>2. ASSUME NEW t \in Transactions, rsp'.fsm = t PROVE t \in req \/ rsp.fsm = t
  <2>1. t # "IDLE"
    BY DEF Transactions
  <2>2. rsp'.fsm = IF Start THEN First(req) ELSE IF Ends(g) THEN "IDLE" ELSE rsp.fsm
    BY <1>0 DEF RspMove
  <2> QED BY <1>1, <1>2, <2>1, <2>2
<1> QED BY <1>1, <1>2

\* A read goes from one phase to the next, or ends when its cache takes the last
\* word or the error.
LEMMA PhaseStep ==
    ASSUME SocInv, NEW g \in BOOLEAN, CycleMoves(g),
           NEW t \in DataReads \cup InsReads, NEW side \in {"DATA", "INS"}, NEW reads, t \in reads,
           "DATA_WRITE" \notin reads,
           rsp.fsm \in reads => rsp.fsm = t,
           NEW word \in Nat, NEW s, NEW s2,
           t \in req' <=> t \in req /\ ~Begins(t),
           SideMove(g, side, reads, s),
           t \notin req /\ ~TakesError(s, side) /\ ~TakesLast(t, word, s, side) => Waiting(s2),
           t \notin Misses => word = 0,
           ReadPhase(t, word, Waiting(s), side)
    PROVE  IF TakesError(s, side) \/ TakesLast(t, word, s, side)
           THEN OverNext(t, side)
           ELSE PhaseNext(t, WordNext(word, s, side), Waiting(s2), side)
<1> DEFINE waits == Waiting(s)
           waits2 == Waiting(s2)
           get == TakesWord(s, side)
           clear == TakesError(s, side)
<1>a. /\ get <=> waits /\ side \notin rsp.error /\ fifo[side] # <<>>
      /\ clear <=> waits /\ side \in rsp.error
      /\ TakesLast(t, word, s, side) <=> get /\ (t \notin Misses \/ word = LineWords - 1)
      /\ WordNext(word, s, side) = IF get THEN word + 1 ELSE word
      /\ t \notin req /\ ~clear /\ ~(get /\ (t \notin Misses \/ word = LineWords - 1)) => waits2
      /\ ReadPhase(t, word, waits, side)
  BY DEF TakesWord, TakesError, TakesLast, WordNext, Waiting
<1>b. SUFFICES IF clear \/ (get /\ (t \notin Misses \/ word = LineWords - 1))
               THEN OverNext(t, side)
               ELSE PhaseNext(t, IF get THEN word + 1 ELSE word, waits2, side)
  BY <1>a
<1>0. SocTypeOK /\ RspMove(g) /\ CmdMove(g) /\ RspFacts(g)
  BY FlitIsExpected DEF SocInv, CycleMoves
<1>1. /\ Start => /\ cmd.fsm = "IDLE" /\ rsp.fsm = "IDLE" /\ ~Answered(g)
                  /\ rsp'.fsm = First(req) /\ rsp'.cpt = 0 /\ cmd'.fsm = First(req)
      /\ rsp'.fsm = t => t \in req \/ rsp.fsm = t
  BY StartFacts DEF Transactions, DataReads, InsReads
<1>2. /\ t # "IDLE" /\ t # "DATA_WRITE" /\ (t \in {"DATA_UNC", "INS_UNC"} <=> t \notin Misses)
      /\ t \in {"DATA_MISS", "INS_MISS"} <=> t \in Misses
  BY DEF DataReads, InsReads, Misses
<1>3. /\ rsp'.fsm = IF Start THEN First(req) ELSE IF Ends(g) THEN "IDLE" ELSE rsp.fsm
      /\ rsp'.cpt = IF Start THEN 0 ELSE IF Brings(g) THEN rsp.cpt + 1 ELSE rsp.cpt
  BY <1>0 DEF RspMove
<1>4. /\ side \in rsp'.error <=> (side \in rsp.error /\ ~clear) \/ (Fails(g) /\ rsp.fsm \in reads)
      /\ fifo'[side] = IF Brings(g) /\ rsp.fsm \in reads THEN <<TargetRsp.data>>
                       ELSE IF get THEN <<>> ELSE fifo[side]
  BY DEF SideMove
<1> HIDE DEF waits, waits2, get, clear
<1>5. fifo[side] \in Seq(Int) /\ rsp.cpt \in Nat /\ LineWords \in Nat \ {0} /\ TargetRsp.data \in Int
  BY <1>0, XcacheAssumption, TargetFlit DEF SocTypeOK
<1>6. /\ Len(fifo[side]) \in Nat /\ (Len(fifo[side]) = 0 <=> fifo[side] = <<>>)
      /\ Len(<<TargetRsp.data>>) = 1 /\ Len(<<>>) = 0
  BY <1>5
<1> DEFINE word2 == IF get THEN word + 1 ELSE word
<1>7. CASE Asked(t, word, side)
  <2>1. t \in req /\ rsp.fsm # t /\ word = 0 /\ fifo[side] = <<>> /\ side \notin rsp.error
    BY <1>7 DEF Asked
  <2>2. ~get /\ ~clear /\ rsp.fsm \notin reads
    BY <2>1, <1>a
  <2>3. fifo'[side] = <<>> /\ side \notin rsp'.error
    BY <1>4, <2>1, <2>2
  <2>4. CASE Begins(t)
    <3>1. Start /\ First(req) = t
      BY <2>4 DEF Begins
    <3>2. ServedNext(t, word, waits2, side)
      BY <1>1, <1>5, <1>6, <2>1, <2>3, <2>4, <3>1 DEF ServedNext
    <3> QED BY <2>2, <3>2 DEF PhaseNext
  <2>5. CASE ~Begins(t)
    <3>1. Start => First(req) # t
      BY <2>5 DEF Begins
    <3>2. AskedNext(t, word, side)
      BY <1>2, <1>3, <2>1, <2>3, <2>5, <3>1 DEF AskedNext
    <3> QED BY <2>2, <3>2 DEF PhaseNext
  <2> QED BY <2>4, <2>5
<1>8. CASE Served(t, word, waits, side)
  <2>1. /\ t \notin req /\ rsp.fsm = t /\ word + Len(fifo[side]) = rsp.cpt /\ Len(fifo[side]) <= 1
        /\ side \notin rsp.error /\ rsp.cpt < LineWords
        /\ cmd.fsm # t => waits
        /\ t \notin Misses => rsp.cpt = 0
    BY <1>2, <1>8 DEF Served
  <2>2. ~Start /\ ~clear /\ t \notin req' /\ rsp.fsm \in reads
    BY <1>1, <1>2, <2>1, <1>a
  <2>3. ASSUME get PROVE Len(fifo[side]) = 1 /\ t \in Misses /\ word # LineWords - 1
    <3>1. fifo[side] # <<>>
      BY <2>3, <1>a
    <3> DEFINE n == Len(fifo[side])
    <3>0. n \in Nat /\ n # 0 /\ n <= 1
      BY <1>6, <2>1, <3>1
    <3> HIDE DEF n
    <3>2. n = 1
      BY <3>0
    <3> USE DEF n
    <3>3. word + 1 = rsp.cpt
      BY <2>1, <3>2
    <3> QED BY <1>5, <2>1, <3>2, <3>3
  <2>4. waits2
    BY <2>1, <2>2, <2>3, <1>a
  <2>5. CASE Brings(g)
    <3>1. Answered(g) /\ ~TargetRsp.error
      BY <2>5 DEF Brings
    <3>2. /\ cmd.fsm = "IDLE"
          /\ t \notin Misses => TargetRsp.eop
          /\ t \in Misses => (TargetRsp.eop <=> rsp.cpt = LineWords - 1)
      BY <1>0, <2>1, <3>1 DEF RspFacts
    <3>3. get <=> fifo[side] # <<>>
      BY <1>2, <2>1, <3>2, <1>a
    <3>4. fifo'[side] = <<TargetRsp.data>> /\ Len(fifo'[side]) = 1
      BY <1>4, <1>6, <2>2, <2>5
    <3>5. word2 = rsp.cpt /\ rsp'.cpt = rsp.cpt + 1
      BY <1>3, <1>5, <1>6, <2>1, <2>2, <2>5, <3>3
    <3>6. side \notin rsp'.error
      BY <1>4, <2>1, <3>1 DEF Fails
    <3>7. CASE TargetRsp.eop
      <4>1. rsp'.fsm # t
        BY <1>2, <1>3, <2>2, <3>1, <3>7 DEF Ends
      <4>2. ArrivedNext(t, word2, waits2, side)
        BY <1>2, <2>2, <2>4, <3>2, <3>4, <3>5, <3>6, <3>7, <4>1 DEF ArrivedNext
      <4> QED BY <2>2, <2>3, <4>2 DEF PhaseNext
    <3>8. CASE ~TargetRsp.eop
      <4>1. rsp'.fsm = t /\ t \in Misses
        BY <1>3, <2>1, <2>2, <3>2, <3>8 DEF Ends
      <4>2. rsp.cpt + 1 < LineWords
        BY <1>5, <2>1, <3>2, <3>8, <4>1
      <4>3. ServedNext(t, word2, waits2, side)
        BY <1>2, <2>2, <2>4, <3>4, <3>5, <3>6, <4>1, <4>2 DEF ServedNext
      <4> QED BY <2>2, <2>3, <4>3 DEF PhaseNext
    <3> QED BY <3>7, <3>8
  <2>6. CASE Fails(g)
    <3>1. Answered(g) /\ TargetRsp.error
      BY <2>6 DEF Fails
    <3>2. TargetRsp.eop /\ rsp.cpt = 0
      BY <1>0, <2>1, <3>1 DEF RspFacts
    <3>3. ~get /\ fifo[side] = <<>>
      BY <1>6, <2>1, <3>2, <1>a
    <3>4. fifo'[side] = <<>> /\ side \in rsp'.error
      BY <1>4, <2>2, <2>6, <3>1, <3>3 DEF Brings
    <3>5. rsp'.fsm # t
      BY <1>2, <1>3, <2>2, <3>1, <3>2 DEF Ends
    <3>6. RefusedNext(t, waits2, side)
      BY <2>2, <2>4, <3>4, <3>5 DEF RefusedNext
    <3> QED BY <2>2, <3>3, <3>6 DEF PhaseNext
  <2>7. CASE ~Brings(g) /\ ~Fails(g)
    <3>1. ~Answered(g)
      BY <1>2, <2>1, <2>7 DEF Brings, Fails
    <3>2. rsp'.fsm = t /\ rsp'.cpt = rsp.cpt
      BY <1>3, <2>1, <2>2, <2>7, <3>1 DEF Ends
    <3>3. side \notin rsp'.error /\ fifo'[side] = IF get THEN <<>> ELSE fifo[side]
      BY <1>4, <2>1, <2>7
    <3>4. word2 + Len(fifo'[side]) = rsp'.cpt /\ Len(fifo'[side]) <= 1
      <4>1. CASE get
        <5>1. word2 = word + 1 /\ Len(fifo'[side]) = 0
          BY <1>6, <3>3, <4>1
        <5>2. Len(fifo[side]) = 1
          BY <2>3, <4>1
        <5>3. word + 1 = rsp.cpt
          BY <2>1, <5>2
        <5> QED BY <1>5, <3>2, <5>1, <5>3
      <4>2. CASE ~get
        BY <2>1, <3>2, <3>3, <4>2
      <4> QED BY <4>1, <4>2
    <3>5. ServedNext(t, word2, waits2, side)
      BY <1>2, <2>1, <2>2, <2>4, <3>2, <3>3, <3>4 DEF ServedNext
    <3> QED BY <2>2, <2>3, <3>5 DEF PhaseNext
  <2> QED BY <2>5, <2>6, <2>7
<1>9. CASE Arrived(t, word, waits, side)
  <2>1. /\ t \notin req /\ rsp.fsm # t /\ waits /\ side \notin rsp.error /\ Len(fifo[side]) = 1
        /\ t \in Misses => word = LineWords - 1
    BY <1>2, <1>9 DEF Arrived
  <2>2. get /\ rsp.fsm \notin reads
    BY <1>6, <2>1, <1>a
  <2>3. OverNext(t, side)
    BY <1>1, <1>4, <2>1, <2>2 DEF OverNext
  <2> QED BY <2>1, <2>2, <2>3
<1>10. CASE Refused(t, waits, side)
  <2>1. t \notin req /\ rsp.fsm # t /\ waits /\ side \in rsp.error /\ fifo[side] = <<>>
    BY <1>10 DEF Refused
  <2>2. clear /\ ~get /\ rsp.fsm \notin reads
    BY <2>1, <1>a
  <2>3. OverNext(t, side)
    BY <1>1, <1>4, <2>1, <2>2 DEF OverNext
  <2> QED BY <2>2, <2>3
<1> QED BY <1>a, <1>7, <1>8, <1>9, <1>10 DEF ReadPhase

\* A cache that does not read gets nothing from the port.
LEMMA QuietStep ==
    ASSUME SocInv, NEW g \in BOOLEAN, CycleMoves(g), NEW side \in {"DATA", "INS"},
           NEW reads \in SUBSET Transactions, NEW s, SideMove(g, side, reads, s), NoRead(reads, side)
    PROVE  rsp'.fsm \notin reads /\ fifo'[side] = <<>> /\ side \notin rsp'.error
<1>1. req \cap reads = {} /\ rsp.fsm \notin reads /\ fifo[side] = <<>> /\ side \notin rsp.error
  BY DEF NoRead
<1>2. fifo'[side] = <<>> /\ side \notin rsp'.error
  BY <1>1 DEF SideMove, TakesWord
<1>3. ASSUME rsp'.fsm \in reads PROVE FALSE
  BY <1>1, <1>3, StartFacts
<1> QED BY <1>2, <1>3

\* A step keeps DataSide: the data cache and its half of the port agree.
LEMMA DataSideNext ==
    ASSUME SocInv, NEW g \in BOOLEAN, CycleMoves(g)
    PROVE  DataSide'
<1>0. /\ SocTypeOK /\ DataSide /\ DataState /\ RspMove(g) /\ FifoMove(g) /\ ReqMove(g) /\ d' \in DataType
      /\ ShortFifos
  BY FifosAreShort DEF SocInv, CycleMoves
<1>1. /\ GetData <=> TakesWord(d.fsm, "DATA")
      /\ ClearDataError <=> TakesError(d.fsm, "DATA")
      /\ SideMove(g, "DATA", DataReads, d.fsm)
  BY <1>0 DEF SideMove, RspMove, FifoMove, TakesWord, TakesError, GetData, ClearDataError
<1>2. /\ Accepts => d.fsm \in {"IDLE", "WRITE_REQ"}
      /\ GetData => d.fsm \in {"MISS_WAIT", "UNC_WAIT"} /\ fifo.DATA # <<>>
  BY DEF Accepts, Posts, GetData
<1>3. LineWords \in Nat \ {0} /\ d.word \in Nat
  BY <1>0, XcacheAssumption DEF SocTypeOK
<1>4. /\ "DATA_MISS" \in req' <=> ("DATA_MISS" \in req \/ (Accepts /\ ReadMiss(dreq))) /\ ~Begins("DATA_MISS")
      /\ "DATA_UNC" \in req' <=> ("DATA_UNC" \in req \/ (Accepts /\ Uncached(dreq))) /\ ~Begins("DATA_UNC")
  BY <1>0 DEF ReqMove
<1>5. CASE d.fsm \in MissStates
  <2>0. ~Accepts /\ d.fsm # "UNC_WAIT"
    BY <1>2, <1>5 DEF MissStates
  <2>1. /\ d.word < LineWords /\ ReadPhase("DATA_MISS", d.word, d.fsm = "MISS_WAIT", "DATA")
        /\ "DATA_UNC" \notin req /\ rsp.fsm # "DATA_UNC"
        /\ d.fsm = "MISS_SELECT" => "DATA_MISS" \in req
    BY <1>0, <1>5 DEF DataSide, DataMiss
  <2> DEFINE over == ClearDataError \/ (GetData /\ d.word = LineWords - 1)
             word2 == IF GetData THEN d.word + 1 ELSE d.word
  <2>2. Waiting(d.fsm) <=> d.fsm = "MISS_WAIT"
    BY <2>0 DEF Waiting
  <2>4. /\ "DATA_MISS" \in DataReads \cup InsReads /\ "DATA_MISS" \in DataReads
        /\ "DATA_WRITE" \notin DataReads /\ "DATA_MISS" \in Misses /\ (rsp.fsm \in DataReads => rsp.fsm = "DATA_MISS")
    BY <2>1 DEF DataReads, Misses
  <2>3. /\ over <=> TakesError(d.fsm, "DATA") \/ TakesLast("DATA_MISS", d.word, d.fsm, "DATA")
        /\ word2 = WordNext(d.word, d.fsm, "DATA")
        /\ "DATA_MISS" \notin req /\ ~over => Waiting(d'.fsm)
    <3>1. "DATA_MISS" \notin req /\ ~over => Waiting(d'.fsm)
      BY <1>0, <1>5, <2>1 DEF DataState, MissStates, Waiting
    <3> QED BY <1>1, <2>4, <3>1 DEF TakesLast, WordNext
  <2>5. /\ ReadPhase("DATA_MISS", d.word, Waiting(d.fsm), "DATA")
        /\ "DATA_MISS" \in req' <=> "DATA_MISS" \in req /\ ~Begins("DATA_MISS")
    <3>1. ReadPhase("DATA_MISS", d.word, Waiting(d.fsm), "DATA")
      BY <2>1, <2>2 DEF ReadPhase, Asked, Served, Arrived, Refused
    <3> QED BY <1>4, <2>0, <3>1
  <2> HIDE DEF over, word2
  <2>6. IF over THEN OverNext("DATA_MISS", "DATA") ELSE PhaseNext("DATA_MISS", word2, Waiting(d'.fsm), "DATA")
    BY <1>1, <1>3, <2>3, <2>4, <2>5, PhaseStep
  <2> USE DEF over, word2
  <2>7. "DATA_UNC" \notin req' /\ rsp'.fsm # "DATA_UNC"
    BY <1>4, <2>0, <2>1, StartFacts DEF Transactions
  <2>8. CASE over
    <3>1. d'.fsm = "IDLE"
      BY <1>0, <2>8 DEF DataState, ClearDataError, GetData, MissStates
    <3>2. NoRead(DataReads, "DATA")'
      BY <2>6, <2>7, <2>8 DEF NoRead, OverNext, DataReads
    <3> QED BY <3>1, <3>2 DEF DataSide, MissStates
  <2>9. CASE ~over
    <3>1. d'.fsm \in {"MISS_INVAL", "MISS_WAIT"} /\ d'.word = word2
      BY <1>0, <1>2, <1>5, <2>0, <2>9 DEF DataState, MissStates
    <3>2. word2 < LineWords
      BY <1>3, <2>1, <2>9
    <3>3. PhaseNext("DATA_MISS", d'.word, d'.fsm = "MISS_WAIT", "DATA")
      BY <2>6, <2>9, <3>1 DEF Waiting, PhaseNext, AskedNext, ServedNext, ArrivedNext, RefusedNext
    <3>4. ReadPhase("DATA_MISS", d.word, d.fsm = "MISS_WAIT", "DATA")'
      BY <3>3 DEF PhaseNext, AskedNext, ServedNext, ArrivedNext, RefusedNext,
                  ReadPhase, Asked, Served, Arrived, Refused
    <3>5. DataMiss'
      BY <2>7, <3>1, <3>2, <3>4 DEF DataMiss
    <3> QED BY <3>1, <3>5 DEF DataSide, Waits, MissStates
  <2> QED BY <2>8, <2>9
<1>6. CASE d.fsm = "UNC_WAIT"
  <2>0. ~Accepts /\ d.fsm \notin MissStates
    BY <1>2, <1>6 DEF MissStates
  <2>1. ReadPhase("DATA_UNC", 0, TRUE, "DATA") /\ "DATA_MISS" \notin req /\ rsp.fsm # "DATA_MISS"
    BY <1>0, <1>6 DEF DataSide, DataUncached
  <2> DEFINE over == ClearDataError \/ GetData
  <2>4. /\ "DATA_UNC" \in DataReads \cup InsReads /\ "DATA_UNC" \in DataReads
        /\ "DATA_WRITE" \notin DataReads /\ "DATA_UNC" \notin Misses /\ (rsp.fsm \in DataReads => rsp.fsm = "DATA_UNC")
    BY <2>1 DEF DataReads, Misses
  <2>3. /\ over <=> TakesError(d.fsm, "DATA") \/ TakesLast("DATA_UNC", 0, d.fsm, "DATA")
        /\ ~over => WordNext(0, d.fsm, "DATA") = 0
        /\ ~over => Waiting(d'.fsm)
    <3>1. ~over => Waiting(d'.fsm)
      BY <1>0, <1>6, <2>1 DEF DataState, Waiting
    <3> QED BY <1>1, <2>4, <3>1 DEF TakesLast, WordNext
  <2>5. /\ ReadPhase("DATA_UNC", 0, Waiting(d.fsm), "DATA")
        /\ "DATA_UNC" \in req' <=> "DATA_UNC" \in req /\ ~Begins("DATA_UNC")
    <3>1. ReadPhase("DATA_UNC", 0, Waiting(d.fsm), "DATA")
      BY <1>6, <2>1 DEF ReadPhase, Asked, Served, Arrived, Refused, Waiting
    <3> QED BY <1>4, <2>0, <3>1
  <2> HIDE DEF over
  <2>6. IF over THEN OverNext("DATA_UNC", "DATA") ELSE PhaseNext("DATA_UNC", WordNext(0, d.fsm, "DATA"), Waiting(d'.fsm), "DATA")
    BY <1>1, <1>3, <2>3, <2>4, <2>5, PhaseStep
  <2> USE DEF over
  <2>7. "DATA_MISS" \notin req' /\ rsp'.fsm # "DATA_MISS"
    BY <1>4, <2>0, <2>1, StartFacts DEF Transactions
  <2>8. CASE over
    <3>1. d'.fsm = "IDLE"
      BY <1>0, <1>6, <2>8 DEF DataState
    <3>2. NoRead(DataReads, "DATA")'
      BY <2>6, <2>7, <2>8 DEF NoRead, OverNext, DataReads
    <3> QED BY <3>1, <3>2 DEF DataSide, MissStates
  <2>9. CASE ~over
    <3>1. d'.fsm = "UNC_WAIT" /\ WordNext(0, d.fsm, "DATA") = 0
      BY <1>0, <1>6, <2>3, <2>9 DEF DataState
    <3>3. PhaseNext("DATA_UNC", 0, TRUE, "DATA")
      BY <2>6, <2>9, <3>1 DEF Waiting, PhaseNext, AskedNext, ServedNext, ArrivedNext, RefusedNext
    <3>4. ReadPhase("DATA_UNC", 0, TRUE, "DATA")'
      BY <3>3 DEF PhaseNext, AskedNext, ServedNext, ArrivedNext, RefusedNext,
                  ReadPhase, Asked, Served, Arrived, Refused
    <3>5. DataUncached'
      BY <2>7, <3>4 DEF DataUncached
    <3> QED BY <3>1, <3>5 DEF DataSide, Waits, MissStates
  <2> QED BY <2>8, <2>9
<1>7. CASE ~Waits
  <2>1. NoRead(DataReads, "DATA")
    BY <1>0, <1>7 DEF DataSide
  <2>2. rsp'.fsm \notin DataReads /\ fifo'["DATA"] = <<>> /\ "DATA" \notin rsp'.error
    <3>1. DataReads \in SUBSET Transactions
      BY DEF DataReads, Transactions
    <3> QED BY <1>1, <1>2, <2>1, <3>1, QuietStep
  <2>3. "DATA_MISS" \notin req /\ "DATA_UNC" \notin req
    BY <2>1 DEF NoRead, DataReads
  <2>4. ~Begins("DATA_MISS") /\ ~Begins("DATA_UNC")
    BY <2>3, StartFacts DEF Begins
  <2>5. d'.fsm \in MissStates \cup {"UNC_WAIT"} => Accepts /\ dreq # NoReq /\ d'.fsm = NextDataState /\ d'.word = 0
    <3>1. d.fsm \in {"IDLE"} \cup WriteStates \cup ExternStates
      BY <1>0, <1>7 DEF SocTypeOK, Waits
    <3>2. ~Accepts => d'.fsm \notin MissStates \cup {"UNC_WAIT"}
      BY <1>0, <3>1 DEF DataState, Accepts, MissStates, WriteStates, ExternStates
    <3>3. Accepts /\ dreq = NoReq => d'.fsm \notin MissStates \cup {"UNC_WAIT"}
      BY <1>0 DEF DataState, MissStates
    <3> QED BY <1>0, <3>2, <3>3 DEF DataState
  <2>6. CASE d'.fsm \in MissStates
    <3>1. ReadMiss(dreq) /\ Accepts /\ d'.word = 0 /\ ~Uncached(dreq)
      BY <1>0, <2>5, <2>6, NextStates DEF MissStates, ReadMiss, Uncached
    <3>2. "DATA_MISS" \in req' /\ "DATA_UNC" \notin req'
      BY <1>4, <2>3, <2>4, <3>1
    <3>3. Asked("DATA_MISS", d.word, "DATA")'
      BY <2>2, <3>1, <3>2 DEF Asked, DataReads
    <3>4. DataMiss'
      BY <1>3, <2>2, <3>1, <3>2, <3>3 DEF DataMiss, ReadPhase, DataReads
    <3> QED BY <2>6, <3>4 DEF DataSide, Waits, MissStates
  <2>7. CASE d'.fsm = "UNC_WAIT"
    <3>1. ~ReadMiss(dreq) /\ Accepts /\ Uncached(dreq)
      BY <1>0, <2>5, <2>7, NextStates DEF ReadMiss, Uncached
    <3>2. "DATA_UNC" \in req' /\ "DATA_MISS" \notin req'
      BY <1>4, <2>3, <2>4, <3>1
    <3>3. Asked("DATA_UNC", 0, "DATA")'
      BY <2>2, <3>1, <3>2 DEF Asked, DataReads
    <3>4. DataUncached'
      BY <2>2, <3>1, <3>2, <3>3 DEF DataUncached, ReadPhase, DataReads
    <3> QED BY <2>7, <3>4 DEF DataSide, Waits, MissStates
  <2>8. CASE d'.fsm \notin MissStates \cup {"UNC_WAIT"}
    <3>1. ~(Accepts /\ ReadMiss(dreq)) /\ ~(Accepts /\ Uncached(dreq))
      <4>1. Accepts /\ dreq = NoReq => ~ReadMiss(dreq) /\ ~Uncached(dreq)
        BY DEF ReadMiss, Uncached, NoReq
      <4>2. Accepts /\ dreq # NoReq => d'.fsm = NextDataState
        BY <1>0 DEF DataState
      <4> QED BY <1>0, <2>8, <4>1, <4>2, NextStates DEF MissStates
    <3>2. NoRead(DataReads, "DATA")'
      BY <1>4, <2>2, <2>3, <3>1 DEF NoRead, DataReads
    <3> QED BY <2>8, <3>2 DEF DataSide
  <2> QED BY <2>6, <2>7, <2>8
<1> QED BY <1>5, <1>6, <1>7 DEF Waits

\* A step keeps InsSide: the instruction cache and its half of the port agree.
LEMMA InsSideNext ==
    ASSUME SocInv, NEW g \in BOOLEAN, CycleMoves(g)
    PROVE  InsSide'
<1>0. /\ SocTypeOK /\ InsSide /\ InsState /\ RspMove(g) /\ FifoMove(g) /\ ReqMove(g) /\ i' \in InsType
  BY DEF SocInv, CycleMoves
<1>1. /\ GetIns <=> TakesWord(i.fsm, "INS")
      /\ ClearInsError <=> TakesError(i.fsm, "INS")
      /\ SideMove(g, "INS", InsReads, i.fsm)
  BY <1>0 DEF SideMove, RspMove, FifoMove, TakesWord, TakesError, GetIns, ClearInsError
<1>2. /\ InsMiss \/ InsUncached => i.fsm = "IDLE" /\ ireq.addr \in Addr
      /\ InsMiss => ireq.addr[1] \in Cached /\ ~InsUncached
      /\ GetIns => i.fsm \in {"MISS_WAIT", "UNC_WAIT"}
  BY <1>0 DEF InsMiss, InsUncached, GetIns, SocTypeOK
<1>3. LineWords \in Nat \ {0} /\ i.word \in Nat
  BY <1>0, XcacheAssumption DEF SocTypeOK
<1>4. /\ "INS_MISS" \in req' <=> ("INS_MISS" \in req \/ InsMiss) /\ ~Begins("INS_MISS")
      /\ "INS_UNC" \in req' <=> ("INS_UNC" \in req \/ InsUncached) /\ ~Begins("INS_UNC")
  BY <1>0 DEF ReqMove
<1>5. CASE i.fsm \in MissStates
  <2>0. ~InsMiss /\ ~InsUncached /\ i.fsm # "UNC_WAIT"
    BY <1>2, <1>5 DEF MissStates
  <2>1. /\ i.word < LineWords /\ ReadPhase("INS_MISS", i.word, i.fsm = "MISS_WAIT", "INS")
        /\ "INS_UNC" \notin req /\ rsp.fsm # "INS_UNC" /\ i.addr \in Addr /\ i.addr[1] \in Cached
        /\ i.fsm = "MISS_SELECT" => "INS_MISS" \in req
    BY <1>0, <1>5 DEF InsSide, InstructionMiss
  <2> DEFINE over == ClearInsError \/ (GetIns /\ i.word = LineWords - 1)
             word2 == IF GetIns THEN i.word + 1 ELSE i.word
  <2>2. Waiting(i.fsm) <=> i.fsm = "MISS_WAIT"
    BY <2>0 DEF Waiting
  <2>4. /\ "INS_MISS" \in DataReads \cup InsReads /\ "INS_MISS" \in InsReads
        /\ "DATA_WRITE" \notin InsReads /\ "INS_MISS" \in Misses /\ (rsp.fsm \in InsReads => rsp.fsm = "INS_MISS")
    BY <2>1 DEF InsReads, Misses
  <2>3. /\ over <=> TakesError(i.fsm, "INS") \/ TakesLast("INS_MISS", i.word, i.fsm, "INS")
        /\ word2 = WordNext(i.word, i.fsm, "INS")
        /\ "INS_MISS" \notin req /\ ~over => Waiting(i'.fsm)
    <3>1. "INS_MISS" \notin req /\ ~over => Waiting(i'.fsm)
      BY <1>0, <1>5, <2>1 DEF InsState, MissStates, Waiting
    <3> QED BY <1>1, <2>4, <3>1 DEF TakesLast, WordNext
  <2>5. /\ ReadPhase("INS_MISS", i.word, Waiting(i.fsm), "INS")
        /\ "INS_MISS" \in req' <=> "INS_MISS" \in req /\ ~Begins("INS_MISS")
    <3>1. ReadPhase("INS_MISS", i.word, Waiting(i.fsm), "INS")
      BY <2>1, <2>2 DEF ReadPhase, Asked, Served, Arrived, Refused
    <3> QED BY <1>4, <2>0, <3>1
  <2> HIDE DEF over, word2
  <2>6. IF over THEN OverNext("INS_MISS", "INS") ELSE PhaseNext("INS_MISS", word2, Waiting(i'.fsm), "INS")
    BY <1>1, <1>3, <2>3, <2>4, <2>5, PhaseStep
  <2> USE DEF over, word2
  <2>7. "INS_UNC" \notin req' /\ rsp'.fsm # "INS_UNC"
    BY <1>4, <2>0, <2>1, StartFacts DEF Transactions
  <2>8. CASE over
    <3>1. i'.fsm = "IDLE"
      BY <1>0, <2>8 DEF InsState, ClearInsError, GetIns, MissStates
    <3>2. NoRead(InsReads, "INS")'
      BY <2>6, <2>7, <2>8 DEF NoRead, OverNext, InsReads
    <3> QED BY <3>1, <3>2 DEF InsSide, MissStates
  <2>9. CASE ~over
    <3>1. i'.fsm \in {"MISS_INVAL", "MISS_WAIT"} /\ i'.word = word2 /\ i'.addr = i.addr
      BY <1>0, <1>2, <1>5, <2>0, <2>9 DEF InsState, MissStates
    <3>2. word2 < LineWords
      BY <1>3, <2>1, <2>9
    <3>3. PhaseNext("INS_MISS", i'.word, i'.fsm = "MISS_WAIT", "INS")
      BY <2>6, <2>9, <3>1 DEF Waiting, PhaseNext, AskedNext, ServedNext, ArrivedNext, RefusedNext
    <3>4. ReadPhase("INS_MISS", i.word, i.fsm = "MISS_WAIT", "INS")'
      BY <3>3 DEF PhaseNext, AskedNext, ServedNext, ArrivedNext, RefusedNext,
                  ReadPhase, Asked, Served, Arrived, Refused
    <3>5. InstructionMiss'
      <4>1. (i.addr \in Addr)'
        BY <2>1, <3>1 DEF Addr, Words
      <4> QED BY <2>1, <2>7, <3>1, <3>2, <3>4, <4>1 DEF InstructionMiss
    <3> QED BY <3>1, <3>5 DEF InsSide, MissStates
  <2> QED BY <2>8, <2>9
<1>6. CASE i.fsm = "UNC_WAIT"
  <2>0. ~InsMiss /\ ~InsUncached /\ i.fsm \notin MissStates
    BY <1>2, <1>6 DEF MissStates
  <2>1. /\ ReadPhase("INS_UNC", 0, TRUE, "INS") /\ "INS_MISS" \notin req /\ rsp.fsm # "INS_MISS"
        /\ i.addr \in Addr
    BY <1>0, <1>6 DEF InsSide, InstructionUncached
  <2> DEFINE over == ClearInsError \/ GetIns
  <2>4. /\ "INS_UNC" \in DataReads \cup InsReads /\ "INS_UNC" \in InsReads
        /\ "DATA_WRITE" \notin InsReads /\ "INS_UNC" \notin Misses /\ (rsp.fsm \in InsReads => rsp.fsm = "INS_UNC")
    BY <2>1 DEF InsReads, Misses
  <2>3. /\ over <=> TakesError(i.fsm, "INS") \/ TakesLast("INS_UNC", 0, i.fsm, "INS")
        /\ ~over => WordNext(0, i.fsm, "INS") = 0
        /\ ~over => Waiting(i'.fsm)
    <3>1. ~over => Waiting(i'.fsm)
      BY <1>0, <1>6, <2>1 DEF InsState, Waiting
    <3> QED BY <1>1, <2>4, <3>1 DEF TakesLast, WordNext
  <2>5. /\ ReadPhase("INS_UNC", 0, Waiting(i.fsm), "INS")
        /\ "INS_UNC" \in req' <=> "INS_UNC" \in req /\ ~Begins("INS_UNC")
    <3>1. ReadPhase("INS_UNC", 0, Waiting(i.fsm), "INS")
      BY <1>6, <2>1 DEF ReadPhase, Asked, Served, Arrived, Refused, Waiting
    <3> QED BY <1>4, <2>0, <3>1
  <2> HIDE DEF over
  <2>6. IF over THEN OverNext("INS_UNC", "INS") ELSE PhaseNext("INS_UNC", WordNext(0, i.fsm, "INS"), Waiting(i'.fsm), "INS")
    BY <1>1, <1>3, <2>3, <2>4, <2>5, PhaseStep
  <2> USE DEF over
  <2>7. "INS_MISS" \notin req' /\ rsp'.fsm # "INS_MISS"
    BY <1>4, <2>0, <2>1, StartFacts DEF Transactions
  <2>8. CASE over
    <3>1. i'.fsm = "IDLE"
      BY <1>0, <1>6, <2>8 DEF InsState
    <3>2. NoRead(InsReads, "INS")'
      BY <2>6, <2>7, <2>8 DEF NoRead, OverNext, InsReads
    <3> QED BY <3>1, <3>2 DEF InsSide, MissStates
  <2>9. CASE ~over
    <3>1. i'.fsm = "UNC_WAIT" /\ WordNext(0, i.fsm, "INS") = 0 /\ i'.addr = i.addr
      BY <1>0, <1>6, <2>3, <2>9 DEF InsState
    <3>3. PhaseNext("INS_UNC", 0, TRUE, "INS")
      BY <2>6, <2>9, <3>1 DEF Waiting, PhaseNext, AskedNext, ServedNext, ArrivedNext, RefusedNext
    <3>4. ReadPhase("INS_UNC", 0, TRUE, "INS")'
      BY <3>3 DEF PhaseNext, AskedNext, ServedNext, ArrivedNext, RefusedNext,
                  ReadPhase, Asked, Served, Arrived, Refused
    <3>5. InstructionUncached'
      <4>1. (i.addr \in Addr)'
        BY <2>1, <3>1 DEF Addr, Words
      <4> QED BY <2>7, <3>4, <4>1 DEF InstructionUncached
    <3> QED BY <3>1, <3>5 DEF InsSide, MissStates
  <2> QED BY <2>8, <2>9
<1>7. CASE i.fsm = "IDLE"
  <2>1. NoRead(InsReads, "INS")
    BY <1>0, <1>7 DEF InsSide
  <2>2. rsp'.fsm \notin InsReads /\ fifo'["INS"] = <<>> /\ "INS" \notin rsp'.error
    <3>1. InsReads \in SUBSET Transactions
      BY DEF InsReads, Transactions
    <3> QED BY <1>1, <2>1, <3>1, QuietStep
  <2>3. "INS_MISS" \notin req /\ "INS_UNC" \notin req
    BY <2>1 DEF NoRead, InsReads
  <2>4. ~Begins("INS_MISS") /\ ~Begins("INS_UNC")
    BY <2>3, StartFacts DEF Begins
  <2>6. CASE InsMiss
    <3>1. i'.fsm = "MISS_SELECT" /\ i'.word = 0 /\ i'.addr = ireq.addr
      BY <1>0, <2>6 DEF InsState
    <3>2. "INS_MISS" \in req' /\ "INS_UNC" \notin req'
      BY <1>2, <1>4, <2>3, <2>4, <2>6
    <3>3. Asked("INS_MISS", i.word, "INS")'
      BY <2>2, <3>1, <3>2 DEF Asked, InsReads
    <3>4. (i.addr \in Addr)'
      BY <1>2, <2>6, <3>1 DEF Addr, Words
    <3>5. InstructionMiss'
      BY <1>2, <1>3, <2>2, <2>6, <3>1, <3>2, <3>3, <3>4 DEF InstructionMiss, ReadPhase, InsReads
    <3> QED BY <3>1, <3>5 DEF InsSide, MissStates
  <2>7. CASE InsUncached
    <3>1. i'.fsm = "UNC_WAIT" /\ i'.addr = ireq.addr /\ ~InsMiss
      BY <1>0, <1>2, <2>7 DEF InsState
    <3>2. "INS_UNC" \in req' /\ "INS_MISS" \notin req'
      BY <1>4, <2>3, <2>4, <2>7, <3>1
    <3>3. Asked("INS_UNC", 0, "INS")'
      BY <2>2, <3>1, <3>2 DEF Asked, InsReads
    <3>4. (i.addr \in Addr)'
      BY <1>2, <2>7, <3>1 DEF Addr, Words
    <3>5. InstructionUncached'
      BY <2>2, <3>2, <3>3, <3>4 DEF InstructionUncached, ReadPhase, InsReads
    <3> QED BY <3>1, <3>5 DEF InsSide, MissStates
  <2>8. CASE ~InsMiss /\ ~InsUncached
    <3>1. i'.fsm = "IDLE"
      BY <1>0, <1>7, <2>8 DEF InsState
    <3>2. NoRead(InsReads, "INS")'
      BY <1>4, <2>2, <2>3, <2>8 DEF NoRead, InsReads
    <3> QED BY <3>1, <3>2 DEF InsSide, MissStates
  <2> QED BY <2>6, <2>7, <2>8
<1> QED BY <1>0, <1>5, <1>6, <1>7 DEF SocTypeOK

\* A read that has just been accepted is requested.
LEMMA NewRead ==
    ASSUME SocInv, NEW g \in BOOLEAN, CycleMoves(g), ~Waits, Waits'
    PROVE  Accepts /\ dreq # NoReq /\ req' \cap DataReads # {}
<1>0. SocTypeOK /\ DataSide /\ DataState /\ ReqMove(g)
  BY DEF SocInv, CycleMoves
<1>1. d.fsm \in {"IDLE"} \cup WriteStates \cup ExternStates
  BY <1>0 DEF SocTypeOK, Waits
<1>2. Accepts /\ dreq # NoReq /\ d'.fsm = NextDataState
  <2>1. ~Accepts => d'.fsm \notin MissStates \cup {"UNC_WAIT"}
    BY <1>0, <1>1 DEF DataState, Accepts, MissStates, WriteStates, ExternStates
  <2>2. Accepts /\ dreq = NoReq => d'.fsm \notin MissStates \cup {"UNC_WAIT"}
    BY <1>0 DEF DataState, MissStates
  <2>3. d'.fsm \in MissStates \cup {"UNC_WAIT"}
    BY DEF Waits
  <2> QED BY <1>0, <2>1, <2>2, <2>3 DEF DataState
<1>3. ReadMiss(dreq) \/ Uncached(dreq)
  BY <1>0, <1>2, NextStates DEF Waits, MissStates
<1>4. "DATA_MISS" \notin req /\ "DATA_UNC" \notin req
  BY <1>0 DEF DataSide, NoRead, DataReads
<1>5. ~Begins("DATA_MISS") /\ ~Begins("DATA_UNC")
  BY <1>4, StartFacts DEF Begins
<1>6. "DATA_MISS" \in req' \/ "DATA_UNC" \in req'
  BY <1>0, <1>2, <1>3, <1>5 DEF ReqMove
<1> QED BY <1>2, <1>6 DEF DataReads

\* A step keeps WriteSide: the write buffer is sent before the next read.
LEMMA WriteSideNext ==
    ASSUME SocInv, NEW g \in BOOLEAN, CycleMoves(g)
    PROVE  WriteSide'
<1>0. /\ SocTypeOK /\ DataRequest /\ DataSide /\ WriteSide /\ DataState /\ ReqMove(g) /\ CmdMove(g) /\ WbufMove(g)
  BY DEF SocInv, CycleMoves
<1> DEFINE W == DOMAIN wbuf.data
           sent == Passes(g) /\ cmd.fsm = "DATA_WRITE" /\ LastFlit
           single == \A v, w \in W : v = w
<1>1. /\ wbuf.line = NoLine <=> W = {}
      /\ wbuf.line # NoLine => wbuf.line \in Nat
      /\ "DATA_WRITE" \in req => wbuf.line # NoLine
      /\ cmd.fsm = "DATA_WRITE" => "DATA_WRITE" \in req /\ cmd.max = MaxWord(W) /\ cmd.cpt \in MinWord(W) .. cmd.max
      /\ wbuf.line # NoLine /\ wbuf.line \notin Cached => "DATA_WRITE" \in req /\ single
      /\ wbuf.line # NoLine /\ "DATA_WRITE" \notin req => d.fsm \in WriteStates
      /\ Waits /\ req \cap DataReads = {} => wbuf.line = NoLine
  BY <1>0 DEF WriteSide, DataReads
<1>2. "DATA_WRITE" \in req' <=> ("DATA_WRITE" \in req \/ ClosesBurst) /\ ~sent
  BY <1>0 DEF ReqMove
<1>3. wbuf' = IF sent THEN EmptyWbuf ELSE IF Posts THEN Posted ELSE wbuf
  BY <1>0 DEF WbufMove
<1>4. /\ Start => /\ First(req) \in req /\ ~Passes(g) /\ (First(req) \in DataReads => "DATA_WRITE" \notin req)
                  /\ cmd.fsm = "IDLE"
  BY StartFacts
<1>5. d.fsm \in WriteStates => d.addr \in Addr /\ d.type = "WRITE" /\ (d.cacheable <=> d.addr[1] \in Cached)
  BY <1>0, HeldRequest DEF DataRequest, WriteStates
<1>6. cmd \in [fsm : Transactions \cup {"IDLE"}, cpt : Int, max : Int]
  BY <1>0 DEF SocTypeOK
<1>7. CASE sent
  <2>1. wbuf' = EmptyWbuf /\ "DATA_WRITE" \notin req'
    BY <1>2, <1>3, <1>7
  <2>2. cmd'.fsm = "IDLE"
    <3>1. cmd' = [cmd EXCEPT !.fsm = "IDLE"]
      BY <1>0, <1>7 DEF CmdMove
    <3> QED BY <1>6, <3>1
  <2>3. wbuf'.line = NoLine /\ DOMAIN wbuf'.data = {}
    BY <2>1 DEF EmptyWbuf
  <2> QED BY <2>1, <2>2, <2>3 DEF WriteSide
<1>8. CASE Posts /\ ~sent
  <2>1. d.fsm = "WRITE_REQ" /\ "DATA_WRITE" \notin req /\ wbuf.line \in {NoLine, d.addr[1]}
    BY <1>8 DEF Posts, wok
  <2>2. wbuf' = Posted
    BY <1>3, <1>8
  <2>3. wbuf'.line = d.addr[1] /\ DOMAIN wbuf'.data = W \cup {d.addr[2]}
    BY <2>2 DEF Posted
  <2>4. d.addr \in Addr /\ d.addr[1] \in Nat /\ d.addr[1] # NoLine
    BY <1>5, <2>1, AddrParts DEF WriteStates, NoLine
  <2>5. cmd'.fsm # "DATA_WRITE"
    <3>1. cmd.fsm # "DATA_WRITE"
      BY <1>1, <2>1
    <3>2. CASE Start
      <4>1. cmd'.fsm = First(req)
        BY <1>0, <3>2 DEF CmdMove
      <4> QED BY <1>4, <2>1, <3>2, <4>1
    <3>3. CASE Passes(g)
      <4>1. cmd' = [cmd EXCEPT !.fsm = "IDLE"] \/ cmd' = [cmd EXCEPT !.cpt = @ + 1]
        BY <1>0, <3>3 DEF CmdMove
      <4> QED BY <1>6, <3>1, <4>1
    <3>4. CASE ~Start /\ ~Passes(g)
      BY <1>0, <3>1, <3>4 DEF CmdMove
    <3> QED BY <3>2, <3>3, <3>4
  <2>6. ~d.cacheable \/ dreq.type # "WRITE" => "DATA_WRITE" \in req'
    BY <1>2, <1>8, <2>1 DEF ClosesBurst
  <2>7. ASSUME d.addr[1] \notin Cached PROVE "DATA_WRITE" \in req' /\ \A v, w \in DOMAIN wbuf'.data : v = w
    <3>1. ~d.cacheable
      BY <1>5, <2>1, <2>7 DEF WriteStates
    <3>2. wbuf.line = NoLine
      BY <1>1, <2>1, <2>7
    <3>3. DOMAIN wbuf'.data = {d.addr[2]}
      BY <1>1, <2>3, <3>2
    <3> QED BY <2>6, <3>1, <3>3
  <2>8. ASSUME "DATA_WRITE" \notin req' PROVE d'.fsm \in WriteStates
    <3>1. dreq.type = "WRITE" /\ Accepts /\ dreq # NoReq
      BY <1>8, <2>6, <2>8 DEF Accepts, NoReq
    <3>2. d'.fsm = NextDataState
      BY <1>0, <3>1 DEF DataState
    <3> QED BY <1>0, <3>1, <3>2, NextStates DEF WriteStates
  <2>9. Waits' => req' \cap DataReads # {}
    <3>1. ~Waits
      BY <2>1 DEF Waits, MissStates
    <3> QED BY <3>1, NewRead
  <2>10. DOMAIN wbuf'.data # {}
    BY <2>3
  <2> HIDE DEF W
  <2> QED BY <2>3, <2>4, <2>5, <2>7, <2>8, <2>9, <2>10 DEF WriteSide, DataReads
<1>9. CASE ~Posts /\ ~sent
  <2>1. wbuf' = wbuf
    BY <1>3, <1>9
  <2>2. "DATA_WRITE" \in req' <=> "DATA_WRITE" \in req \/ ClosesBurst
    BY <1>2, <1>9
  <2>3. ClosesBurst => wbuf.line # NoLine
    BY <1>9 DEF ClosesBurst, Posts, wok
  <2>4. W \in SUBSET Words
    BY <1>0 DEF SocTypeOK
  <2>5. W # {} => /\ MinWord(W) \in Int /\ MaxWord(W) \in Int /\ MinWord(W) <= MaxWord(W)
    <3>1. SUFFICES ASSUME W # {} PROVE MinWord(W) \in Int /\ MaxWord(W) \in Int /\ MinWord(W) <= MaxWord(W)
      OBVIOUS
    <3>2. MinWord(W) \in W /\ (\A v \in W : MinWord(W) <= v) /\ MaxWord(W) \in W
      BY <2>4, <3>1, WordBounds
    <3>3. LineWords \in Nat
      BY XcacheAssumption
    <3> QED BY <2>4, <3>2, <3>3 DEF Words
  <2>6. ASSUME cmd'.fsm = "DATA_WRITE"
        PROVE  "DATA_WRITE" \in req' /\ cmd'.max = MaxWord(W) /\ cmd'.cpt \in MinWord(W) .. cmd'.max
    <3>1. CASE Start
      <4>1. cmd' = [fsm |-> First(req), cpt |-> IF First(req) = "DATA_WRITE" THEN MinWord(W) ELSE 0,
                    max |-> IF First(req) = "DATA_WRITE" THEN MaxWord(W) ELSE 0]
        BY <1>0, <3>1 DEF CmdMove
      <4>2. First(req) = "DATA_WRITE"
        BY <2>6, <4>1
      <4>3. "DATA_WRITE" \in req /\ W # {}
        BY <1>1, <1>4, <3>1, <4>2
      <4>4. cmd'.cpt = MinWord(W) /\ cmd'.max = MaxWord(W)
        BY <4>1, <4>2
      <4> HIDE DEF W
      <4> QED BY <2>2, <2>5, <4>3, <4>4
    <3>2. CASE Passes(g)
      <4>1. cmd' = IF LastFlit THEN [cmd EXCEPT !.fsm = "IDLE"] ELSE [cmd EXCEPT !.cpt = @ + 1]
        BY <1>0, <3>2 DEF CmdMove
      <4>2. ~LastFlit
        BY <1>6, <2>6, <4>1
      <4>3. /\ cmd' = [cmd EXCEPT !.cpt = cmd.cpt + 1] /\ cmd.fsm = "DATA_WRITE" /\ cmd.cpt # cmd.max
        BY <4>1, <4>2 DEF LastFlit
      <4>4. cmd'.cpt = cmd.cpt + 1 /\ cmd'.max = cmd.max
        BY <1>6, <4>3
      <4>5. "DATA_WRITE" \in req /\ cmd.max = MaxWord(W) /\ cmd.cpt \in MinWord(W) .. cmd.max /\ W # {}
        BY <1>1, <4>3
      <4> HIDE DEF W
      <4> QED BY <1>6, <2>2, <2>5, <4>3, <4>4, <4>5
    <3>3. CASE ~Start /\ ~Passes(g)
      <4>1. cmd' = cmd
        BY <1>0, <3>3 DEF CmdMove
      <4> HIDE DEF W
      <4> QED BY <1>1, <2>2, <2>6, <4>1
    <3> QED BY <3>1, <3>2, <3>3
  <2>7. ASSUME wbuf.line # NoLine, "DATA_WRITE" \notin req' PROVE d'.fsm \in WriteStates
    <3>1. d.fsm \in WriteStates
      BY <1>1, <2>2, <2>7
    <3> QED BY <1>0, <1>9, <3>1 DEF DataState, WriteStates
  <2>8. ASSUME Waits', req' \cap DataReads = {} PROVE wbuf.line = NoLine
    <3>1. Waits
      BY <2>8, NewRead
    <3>2. CASE req \cap DataReads = {}
      BY <1>1, <3>1, <3>2
    <3>3. CASE req \cap DataReads # {}
      <4>1. Begins("DATA_MISS") \/ Begins("DATA_UNC")
        BY <1>0, <2>8, <3>3 DEF ReqMove, DataReads
      <4>2. "DATA_WRITE" \notin req
        BY <1>4, <4>1 DEF Begins, DataReads
      <4>3. d.fsm \notin WriteStates
        BY <3>1 DEF Waits, MissStates, WriteStates
      <4> QED BY <1>1, <4>2, <4>3
    <3> QED BY <3>2, <3>3
  <2>9. W = DOMAIN wbuf'.data
    BY <2>1
  <2>10. cmd'.fsm = "DATA_WRITE" => /\ "DATA_WRITE" \in req' /\ cmd'.max = MaxWord(DOMAIN wbuf'.data)
                                    /\ cmd'.cpt \in MinWord(DOMAIN wbuf'.data) .. cmd'.max
    BY <2>6, <2>9
  <2>11. /\ (wbuf.line = NoLine <=> DOMAIN wbuf.data = {})'
         /\ (wbuf.line # NoLine => wbuf.line \in Nat)'
         /\ ("DATA_WRITE" \in req => wbuf.line # NoLine)'
         /\ (wbuf.line # NoLine /\ wbuf.line \notin Cached =>
               "DATA_WRITE" \in req /\ \A v, w \in DOMAIN wbuf.data : v = w)'
    BY <1>1, <2>1, <2>2, <2>3
  <2>12. /\ (wbuf.line # NoLine /\ "DATA_WRITE" \notin req => d.fsm \in WriteStates)'
         /\ (Waits /\ req \cap {"DATA_MISS", "DATA_UNC"} = {} => wbuf.line = NoLine)'
    BY <2>1, <2>7, <2>8 DEF DataReads
  <2> QED BY <2>10, <2>11, <2>12 DEF WriteSide, MinWord, MaxWord
<1> QED BY <1>7, <1>8, <1>9

ReadCases ==
    /\ rsp.fsm = "DATA_MISS" => ReadAddr = <<d.addr[1], rsp.cpt>> /\ ReadOp = "READ"
    /\ rsp.fsm = "INS_MISS" => ReadAddr = <<i.addr[1], rsp.cpt>> /\ ReadOp = "READ"
    /\ rsp.fsm = "DATA_UNC" => ReadAddr = d.addr /\ ReadOp = d.type
    /\ rsp.fsm = "INS_UNC" => ReadAddr = i.addr /\ ReadOp = "READ"
    /\ rsp.fsm = "DATA_WRITE" => ReadAddr = ram.addr /\ ReadOp = "WRITE"

\* The address and the operation of the transaction in progress, case by case.
LEMMA ReadsAre == ReadCases /\ ReadCases'
<1>1. ReadCases
  BY DEF ReadCases, ReadAddr, ReadOp
<1>2. ReadCases'
  BY DEF ReadCases, ReadAddr, ReadOp
<1> QED BY <1>1, <1>2

\* A cache keeps its address while it is served.
LEMMA ServedStays ==
    ASSUME SocInv, NEW g \in BOOLEAN, CycleMoves(g)
    PROVE  /\ rsp.fsm \in DataReads =>
                d'.addr = d.addr /\ d'.type = d.type /\ d'.wdata = d.wdata /\ d.addr \in Addr /\ Waits
           /\ rsp.fsm \in InsReads => i'.addr = i.addr /\ i.addr \in Addr
<1>0. SocTypeOK /\ DataState /\ InsState /\ InsSide /\ ServesData /\ ServesIns
  BY Serving DEF SocInv, CycleMoves
<1>1. ASSUME rsp.fsm \in DataReads
      PROVE  d'.addr = d.addr /\ d'.type = d.type /\ d'.wdata = d.wdata /\ d.addr \in Addr /\ Waits
  <2>1. Waits /\ d.fsm # "IDLE" /\ ~Accepts
    BY <1>0, <1>1 DEF ServesData, DataReads, Waits, MissStates, Accepts, Posts
  <2> QED BY <1>0, <2>1, HeldRequest DEF DataState, Keeps
<1>2. ASSUME rsp.fsm \in InsReads PROVE i'.addr = i.addr /\ i.addr \in Addr
  <2>1. i.fsm \in MissStates \cup {"UNC_WAIT"}
    BY <1>0, <1>2 DEF ServesIns, InsReads, MissStates
  <2>2. i.fsm # "IDLE"
    BY <2>1 DEF MissStates
  <2> QED BY <1>0, <2>1, <2>2 DEF InsState, InsSide, InstructionMiss, InstructionUncached
<1> QED BY <1>1, <1>2

\* The targets agree with the port after the flit of a command.
LEMMA CommandAgrees ==
    ASSUME SocInv, NEW g \in BOOLEAN, CycleMoves(g), Passes(g)
    PROVE  PortAgrees'
<1>0. /\ SocTypeOK /\ PortAgrees /\ WriteSide /\ RspMove(g) /\ CmdMove(g) /\ WbufMove(g) /\ TargetsTake
      /\ ReadCases'
  BY ReadsAre DEF SocInv, CycleMoves
<1>1. cmd.fsm # "IDLE" /\ rsp.fsm = cmd.fsm /\ rsp.cpt = 0 /\ fb.fsm = "IDLE" /\ ram.fsm # "RSP"
  BY <1>0 DEF PortAgrees, Passes
<1>2. cmd.fsm \in Transactions /\ ~Start /\ ~Answered(g)
  BY <1>0, <1>1 DEF SocTypeOK, Start, Answered, FbAnswers
<1>3. rsp'.fsm = cmd.fsm /\ rsp'.cpt = 0
  BY <1>0, <1>1, <1>2 DEF RspMove, Ends, Brings
<1>4. CommandFacts(VciCmd)
  BY <1>1, Commands
<1>5. cmd' = IF LastFlit THEN [cmd EXCEPT !.fsm = "IDLE"] ELSE [cmd EXCEPT !.cpt = @ + 1]
  BY <1>0 DEF CmdMove
<1>6. cmd \in [fsm : Transactions \cup {"IDLE"}, cpt : Int, max : Int]
  BY <1>0 DEF SocTypeOK
<1>7. VciCmd.addr \in Addr /\ VciCmd.addr[1] \in Nat /\ FbLine \in Nat
  BY <1>4, AddrParts, SocAssumption DEF CommandFacts
<1>8. /\ cmd.fsm \in DataReads => d'.addr = d.addr /\ d'.type = d.type
      /\ cmd.fsm \in InsReads => i'.addr = i.addr
  BY <1>1, ServedStays
<1>9. CASE ~LastFlit
  <2>1. cmd.fsm = "DATA_WRITE" /\ VciCmd.addr[1] = wbuf.line /\ ~ToFb(VciCmd)
    <3>1. cmd.fsm = "DATA_WRITE"
      BY <1>4, <1>9 DEF CommandFacts
    <3>2. VciCmd.addr = <<wbuf.line, cmd.cpt>> /\ (VciCmd.addr[1] >= FbLine => LastFlit)
      BY <1>4, <3>1 DEF CommandFacts
    <3> QED BY <1>9, <3>1, <3>2 DEF ToFb
  <2>2. ram'.fsm = "WRITE" /\ fb' = fb
    BY <1>0, <1>9, <2>1 DEF TargetsTake
  <2>3. cmd'.fsm = "DATA_WRITE"
    BY <1>5, <1>6, <1>9, <2>1
  <2>4. wbuf' = wbuf
    <3>1. "DATA_WRITE" \in req
      BY <1>0, <2>1 DEF WriteSide
    <3> QED BY <1>0, <1>9, <3>1 DEF WbufMove, Posts
  <2>5. wbuf.line < FbLine
    BY <1>7, <2>1 DEF ToFb
  <2> QED BY <1>1, <1>3, <2>1, <2>2, <2>3, <2>4, <2>5 DEF PortAgrees
<1>10. CASE LastFlit
  <2>1. cmd'.fsm = "IDLE" /\ rsp'.fsm # "IDLE"
    BY <1>1, <1>3, <1>5, <1>6, <1>10
  <2>2. CASE ToFb(VciCmd)
    <3>1. VciCmd.addr[1] >= FbLine
      BY <2>2 DEF ToFb
    <3>2. cmd.fsm \in {"DATA_UNC", "INS_UNC", "DATA_WRITE"}
      BY <1>2, <1>4, <1>7, <3>1 DEF CommandFacts, Transactions
    <3>3. ram' = ram /\ FrameBufferTakes(FbFlit(VciCmd, TRUE))
      BY <1>0, <2>2 DEF TargetsTake
    <3>4. ram.fsm = "IDLE"
      <4>1. ram.fsm \in {"IDLE", "WRITE"}
        BY <1>0, <1>1 DEF SocTypeOK
      <4>2. ram.fsm = "WRITE" => cmd.fsm = "DATA_WRITE" /\ wbuf.line < FbLine
        BY <1>0 DEF PortAgrees
      <4>3. cmd.fsm = "DATA_WRITE" => VciCmd.addr = <<wbuf.line, cmd.cpt>>
        BY <1>4 DEF CommandFacts
      <4>4. cmd.fsm = "DATA_WRITE" => VciCmd.addr[1] = wbuf.line
        BY <4>3
      <4> QED BY <1>7, <3>1, <4>1, <4>2, <4>4
    <3> DEFINE f == FbFlit(VciCmd, TRUE)
    <3>5. f.index = FbIndex(VciCmd.addr) /\ f.op = VciCmd.op /\ f.plen = VciCmd.plen
      BY DEF FbFlit
    <3>6. /\ fb'.fsm \in FbAnswers
          /\ fb'.fsm = "READ_BUF_RSP" <=> f.index \in Pixels /\ f.op = "READ"
          /\ fb'.fsm = "READ_BUF_RSP" => fb'.index = f.index /\ fb'.count = FlitCount(f)
      <4> HIDE DEF f
      <4> QED BY <3>3 DEF FrameBufferTakes, f
    <3>7. FlitCount(f) = VciCmd.plen \div 4
      BY <3>5 DEF FlitCount
    <3> HIDE DEF f
    <3>8. cmd.fsm \in {"DATA_UNC", "INS_UNC"} => ReadAddr' = VciCmd.addr
      <4>1. cmd.fsm \in {"DATA_UNC", "INS_UNC"} => cmd.fsm \in DataReads \cup InsReads
        BY DEF DataReads, InsReads
      <4>2. cmd.fsm = "DATA_UNC" => ReadAddr' = VciCmd.addr
        BY <1>0, <1>3, <1>4, <1>8 DEF ReadCases, CommandFacts, DataReads
      <4>3. cmd.fsm = "INS_UNC" => ReadAddr' = VciCmd.addr
        BY <1>0, <1>3, <1>4, <1>8 DEF ReadCases, CommandFacts, InsReads, ReadFlit
      <4> QED BY <4>2, <4>3
    <3>9. ASSUME fb'.fsm = "READ_BUF_RSP" PROVE fb'.count = 1 /\ cmd.fsm # "DATA_WRITE" /\ fb'.index = FbIndex(ReadAddr')
      <4>1. f.index \in Pixels /\ f.op = "READ"
        BY <3>6, <3>9
      <4>2. cmd.fsm \in {"DATA_UNC", "INS_UNC"} /\ VciCmd.plen = 4
        <5>1. cmd.fsm # "DATA_WRITE"
          BY <1>4, <3>5, <4>1 DEF CommandFacts
        <5>2. cmd.fsm = "DATA_UNC" => VciCmd.plen = 4
          BY <1>4, <3>5, <4>1 DEF CommandFacts
        <5>3. cmd.fsm = "INS_UNC" => VciCmd.plen = 4
          BY <1>4 DEF CommandFacts, ReadFlit
        <5> QED BY <3>2, <5>1, <5>2, <5>3
      <4>3. 4 \div 4 = 1
        OBVIOUS
      <4>4. fb'.count = 1
        BY <3>6, <3>7, <3>9, <4>2, <4>3
      <4> QED BY <3>5, <3>6, <3>8, <3>9, <4>2, <4>4
    <3>10. ASSUME cmd.fsm = "DATA_UNC"
           PROVE  ReadAddr'[1] >= FbLine /\ (FbIndex(ReadAddr') \in Pixels => fb'.fsm = "READ_BUF_RSP")
      <4>1. ReadAddr' = VciCmd.addr /\ (FbIndex(VciCmd.addr) \in Pixels => VciCmd.op = "READ")
        BY <1>4, <3>8, <3>10 DEF CommandFacts
      <4> QED BY <3>1, <3>5, <3>6, <4>1
    <3>11. FbAnswer'
      <4>1. FbIndex(ReadAddr)' = FbIndex(ReadAddr') /\ Pixels' = Pixels
        BY DEF FbIndex, Pixels
      <4> QED BY <1>3, <3>2, <3>3, <3>4, <3>6, <3>9, <3>10, <4>1 DEF FbAnswer
    <3> QED BY <2>1, <3>3, <3>4, <3>11 DEF PortAgrees
  <2>3. CASE ~ToFb(VciCmd)
    <3>1. /\ fb' = fb /\ ram'.fsm = "RSP" /\ ram'.addr = VciCmd.addr /\ ram'.op = VciCmd.op
          /\ ram'.left = RamFlits(VciCmd)
      BY <1>0, <1>10, <2>3 DEF TargetsTake
    <3>2. VciCmd.addr[1] < FbLine
      BY <1>7, <2>3 DEF ToFb
    <3> DEFINE answers ==
               /\ ram'.addr = ReadAddr' /\ ram'.op = ReadOp'
               /\ ram'.left = IF cmd.fsm \in Misses /\ ram'.addr \in RamAddrs THEN LineWords ELSE 1
    <3>3. ASSUME cmd.fsm = "DATA_MISS" PROVE answers
      <4>1. VciCmd.op = "READ" /\ VciCmd.addr = <<d.addr[1], 0>> /\ VciCmd.plen = 4 * LineWords
        BY <1>4, <3>3 DEF CommandFacts, ReadFlit
      <4>2. ReadAddr' = VciCmd.addr /\ ReadOp' = "READ" /\ cmd.fsm \in Misses /\ cmd.fsm # "DATA_WRITE"
        BY <1>0, <1>3, <1>8, <3>3, <4>1 DEF ReadCases, Misses, DataReads
      <4>3. RamFlits(VciCmd) = IF cmd.fsm \in Misses /\ VciCmd.addr \in RamAddrs THEN LineWords ELSE 1
        BY <4>1, <4>2, MissFlits DEF RamFlits
      <4> QED BY <3>1, <4>1, <4>2, <4>3
    <3>4. ASSUME cmd.fsm = "INS_MISS" PROVE answers
      <4>1. VciCmd.op = "READ" /\ VciCmd.addr = <<i.addr[1], 0>> /\ VciCmd.plen = 4 * LineWords
        BY <1>4, <3>4 DEF CommandFacts, ReadFlit
      <4>2. ReadAddr' = VciCmd.addr /\ ReadOp' = "READ" /\ cmd.fsm \in Misses /\ cmd.fsm # "DATA_WRITE"
        BY <1>0, <1>3, <1>8, <3>4, <4>1 DEF ReadCases, Misses, InsReads
      <4>3. RamFlits(VciCmd) = IF cmd.fsm \in Misses /\ VciCmd.addr \in RamAddrs THEN LineWords ELSE 1
        BY <4>1, <4>2, MissFlits DEF RamFlits
      <4> QED BY <3>1, <4>1, <4>2, <4>3
    <3>5. \A n \in 1 .. 4 : (n + 3) \div 4 = 1
      OBVIOUS
    <3>6. ASSUME cmd.fsm = "DATA_UNC" PROVE answers
      <4>1. VciCmd.op = d.type /\ VciCmd.addr = d.addr /\ VciCmd.plen \in 1 .. 4
        BY <1>4, <3>6 DEF CommandFacts
      <4>2. ReadAddr' = VciCmd.addr /\ ReadOp' = VciCmd.op /\ cmd.fsm \notin Misses /\ cmd.fsm # "DATA_WRITE"
        BY <1>0, <1>3, <1>8, <3>6, <4>1 DEF ReadCases, Misses, DataReads
      <4>3. RamFlits(VciCmd) = 1
        BY <3>5, <4>1 DEF RamFlits
      <4> QED BY <3>1, <4>1, <4>2, <4>3
    <3>7. ASSUME cmd.fsm = "INS_UNC" PROVE answers
      <4>1. VciCmd.op = "READ" /\ VciCmd.addr = i.addr /\ VciCmd.plen = 4
        BY <1>4, <3>7 DEF CommandFacts, ReadFlit
      <4>2. ReadAddr' = VciCmd.addr /\ ReadOp' = VciCmd.op /\ cmd.fsm \notin Misses /\ cmd.fsm # "DATA_WRITE"
        BY <1>0, <1>3, <1>8, <3>7, <4>1 DEF ReadCases, Misses, InsReads
      <4>3. RamFlits(VciCmd) = 1
        BY <3>5, <4>1 DEF RamFlits
      <4> QED BY <3>1, <4>1, <4>2, <4>3
    <3>8. ASSUME cmd.fsm = "DATA_WRITE" PROVE answers
      <4>1. VciCmd.op = "WRITE"
        BY <1>4, <3>8 DEF CommandFacts
      <4>2. ReadAddr' = ram'.addr /\ ReadOp' = VciCmd.op /\ cmd.fsm \notin Misses
        BY <1>0, <1>3, <3>8, <4>1 DEF ReadCases, Misses
      <4>3. RamFlits(VciCmd) = 1
        BY <4>1 DEF RamFlits
      <4> QED BY <3>1, <4>1, <4>2, <4>3
    <3>9. answers
      BY <1>2, <3>1, <3>3, <3>4, <3>6, <3>7, <3>8 DEF Transactions
    <3>10. LineWords - 0 = LineWords
      BY XcacheAssumption
    <3>11. RamAnswer'
      BY <1>1, <1>3, <3>1, <3>2, <3>9, <3>10 DEF RamAnswer, Misses, RamAddrs, Words
    <3> QED BY <1>1, <2>1, <3>1, <3>11 DEF PortAgrees
  <2> QED BY <2>2, <2>3
<1> QED BY <1>9, <1>10

\* A response flit keeps PortAgrees.
LEMMA AnswerAgrees ==
    ASSUME SocInv, NEW g \in BOOLEAN, CycleMoves(g), Answered(g)
    PROVE  PortAgrees'
<1>0. /\ SocTypeOK /\ PortAgrees /\ RspMove(g) /\ CmdMove(g) /\ TargetsAnswer /\ RspFacts(g)
      /\ ReadCases /\ ReadCases'
  BY ReadsAre, FlitIsExpected DEF SocInv, CycleMoves
<1>1. cmd.fsm = "IDLE" /\ rsp.fsm \in Transactions /\ rsp.fsm # "IDLE"
  BY <1>0 DEF RspFacts, Transactions
<1>2. ~Start /\ ~Passes(g)
  BY <1>1 DEF Start, Passes
<1>3. cmd' = cmd
  BY <1>0, <1>2 DEF CmdMove
<1>4. RamAnswer \/ FbAnswer
  BY <1>0, <1>1 DEF PortAgrees
<1>5. CASE FbAnswer
  <2>1. /\ ram.fsm = "IDLE" /\ fb.fsm \in FbAnswers /\ (fb.fsm = "READ_BUF_RSP" => fb.count = 1)
    BY <1>5 DEF FbAnswer
  <2>2. TargetRsp.eop
    BY <1>0, <2>1, TargetFlit
  <2>3. rsp'.fsm = "IDLE"
    BY <1>0, <1>2, <2>2 DEF RspMove, Ends
  <2>4. ram' = ram /\ fb'.fsm = "IDLE"
    BY <1>0, <2>1 DEF TargetsAnswer
  <2> QED BY <1>1, <1>3, <2>1, <2>3, <2>4 DEF PortAgrees
<1>6. CASE RamAnswer
  <2>1. /\ ram.fsm = "RSP" /\ fb.fsm = "IDLE" /\ ram.addr = ReadAddr /\ ram.op = ReadOp
        /\ ram.left = IF rsp.fsm \in Misses /\ ram.addr \in RamAddrs THEN LineWords - rsp.cpt ELSE 1
        /\ rsp.fsm # "DATA_WRITE" => ram.addr[1] < FbLine
    BY <1>6 DEF RamAnswer, Misses
  <2>2. /\ TargetRsp.eop <=> ram.left = 1
        /\ TargetRsp.error <=> ram.addr \notin RamAddrs
    BY <1>0, <2>1, TargetFlit
  <2>3. /\ fb' = fb /\ ram'.addr = <<ram.addr[1], ram.addr[2] + 1>> /\ ram'.op = ram.op
        /\ ram'.left = ram.left - 1 /\ ram'.fsm = IF ram.left = 1 THEN "IDLE" ELSE "RSP"
    BY <1>0, <2>1 DEF TargetsAnswer
  <2>4. CASE ram.left = 1
    <3>1. rsp'.fsm = "IDLE"
      BY <1>0, <1>2, <2>2, <2>4 DEF RspMove, Ends
    <3>2. ram'.fsm = "IDLE" /\ fb'.fsm = "IDLE"
      BY <2>1, <2>3, <2>4
    <3> QED BY <1>1, <1>3, <3>1, <3>2 DEF PortAgrees
  <2>5. CASE ram.left # 1
    <3>1. rsp.fsm \in Misses /\ ram.addr \in RamAddrs /\ ram.left = LineWords - rsp.cpt /\ rsp.fsm # "DATA_WRITE"
      BY <2>1, <2>5 DEF Misses
    <3>2. rsp.cpt < LineWords /\ rsp.cpt \in Nat /\ LineWords \in Nat
      BY <1>0, <3>1, XcacheAssumption DEF RspFacts, SocTypeOK
    <3>3. rsp'.fsm = rsp.fsm /\ rsp'.cpt = rsp.cpt + 1
      BY <1>0, <1>2, <2>2, <2>5, <3>1 DEF RspMove, Ends, Brings
    <3>4. rsp.cpt + 1 < LineWords /\ ram'.left = LineWords - (rsp.cpt + 1)
      BY <2>3, <2>5, <3>1, <3>2
    <3>5. ram'.addr = ReadAddr' /\ ram'.op = ReadOp' /\ ram'.addr = <<ram.addr[1], rsp.cpt + 1>>
      <4>1. CASE rsp.fsm = "DATA_MISS"
        <5>1. d'.addr = d.addr
          BY <4>1, ServedStays DEF DataReads
        <5>2. ram.addr = <<d.addr[1], rsp.cpt>> /\ ram.op = "READ"
          BY <1>0, <2>1, <4>1 DEF ReadCases
        <5>3. ReadAddr' = <<d.addr[1], rsp.cpt + 1>> /\ ReadOp' = "READ"
          BY <1>0, <3>3, <4>1, <5>1 DEF ReadCases
        <5> QED BY <2>3, <5>2, <5>3
      <4>2. CASE rsp.fsm = "INS_MISS"
        <5>1. i'.addr = i.addr
          BY <4>2, ServedStays DEF InsReads
        <5>2. ram.addr = <<i.addr[1], rsp.cpt>> /\ ram.op = "READ"
          BY <1>0, <2>1, <4>2 DEF ReadCases
        <5>3. ReadAddr' = <<i.addr[1], rsp.cpt + 1>> /\ ReadOp' = "READ"
          BY <1>0, <3>3, <4>2, <5>1 DEF ReadCases
        <5> QED BY <2>3, <5>2, <5>3
      <4> QED BY <3>1, <4>1, <4>2 DEF Misses
    <3>6. ram'.addr \in RamAddrs /\ ram'.addr[1] < FbLine
      BY <2>1, <3>1, <3>2, <3>4, <3>5 DEF RamAddrs, Words
    <3>7. RamAnswer'
      <4>1. ram'.left = IF rsp'.fsm \in Misses /\ ram'.addr \in RamAddrs THEN LineWords - rsp'.cpt ELSE 1
        BY <3>1, <3>3, <3>4, <3>6
      <4> QED BY <2>1, <2>3, <2>5, <3>5, <3>6, <4>1 DEF RamAnswer, Misses, RamAddrs, Words
    <3> QED BY <1>1, <1>3, <2>3, <2>5, <3>3, <3>7 DEF PortAgrees
  <2> QED BY <2>4, <2>5
<1> QED BY <1>4, <1>5, <1>6

\* A step keeps PortAgrees: controller and targets are in the same transaction.
LEMMA PortAgreesNext ==
    ASSUME SocInv, NEW g \in BOOLEAN, CycleMoves(g)
    PROVE  PortAgrees'
<1>0. /\ SocTypeOK /\ PortAgrees /\ WriteSide /\ RspMove(g) /\ CmdMove(g) /\ WbufMove(g) /\ ReadCases /\ ReadCases'
  BY ReadsAre DEF SocInv, CycleMoves
<1>1. CASE Passes(g)
  BY <1>1, CommandAgrees
<1>2. CASE Answered(g)
  BY <1>2, AnswerAgrees
<1>3. CASE Start
  <2>1. /\ cmd.fsm = "IDLE" /\ rsp.fsm = "IDLE" /\ ~Answered(g) /\ ~Passes(g) /\ First(req) \in Transactions
        /\ rsp'.fsm = First(req) /\ rsp'.cpt = 0 /\ cmd'.fsm = First(req)
    BY <1>3, StartFacts
  <2>2. TargetsStay
    BY <2>1 DEF CycleMoves
  <2>3. ram'.fsm = "IDLE" /\ fb'.fsm = "IDLE"
    BY <1>0, <2>1, <2>2 DEF PortAgrees, TargetsStay
  <2>4. First(req) # "IDLE"
    BY <2>1 DEF Transactions
  <2> QED BY <2>1, <2>3, <2>4 DEF PortAgrees
<1>4. CASE ~Passes(g) /\ ~Answered(g) /\ ~Start
  <2>1. ram' = ram /\ fb' = fb
    BY <1>4 DEF CycleMoves, TargetsStay
  <2>2. cmd' = cmd /\ rsp'.fsm = rsp.fsm /\ rsp'.cpt = rsp.cpt
    BY <1>0, <1>4 DEF CmdMove, RspMove, Ends, Brings
  <2>3. ram.fsm = "WRITE" => cmd.fsm = "DATA_WRITE" /\ wbuf.line < FbLine /\ wbuf' = wbuf
    <3>1. cmd.fsm = "DATA_WRITE" => "DATA_WRITE" \in req
      BY <1>0 DEF WriteSide
    <3>2. cmd.fsm = "DATA_WRITE" => wbuf' = wbuf
      BY <1>0, <1>4, <3>1 DEF WbufMove, Posts
    <3> QED BY <1>0, <3>2 DEF PortAgrees
  <2>4. rsp.fsm # "IDLE" => ReadAddr' = ReadAddr /\ ReadOp' = ReadOp
    <3>0. rsp.fsm \in Transactions \cup {"IDLE"}
      BY <1>0 DEF SocTypeOK
    <3>1. rsp.fsm = "DATA_MISS" => ReadAddr' = ReadAddr /\ ReadOp' = ReadOp
      BY <1>0, <2>2, ServedStays DEF ReadCases, DataReads
    <3>2. rsp.fsm = "DATA_UNC" => ReadAddr' = ReadAddr /\ ReadOp' = ReadOp
      BY <1>0, <2>2, ServedStays DEF ReadCases, DataReads
    <3>3. rsp.fsm = "INS_MISS" => ReadAddr' = ReadAddr /\ ReadOp' = ReadOp
      BY <1>0, <2>2, ServedStays DEF ReadCases, InsReads
    <3>4. rsp.fsm = "INS_UNC" => ReadAddr' = ReadAddr /\ ReadOp' = ReadOp
      BY <1>0, <2>2, ServedStays DEF ReadCases, InsReads
    <3>5. rsp.fsm = "DATA_WRITE" => ReadAddr' = ReadAddr /\ ReadOp' = ReadOp
      BY <1>0, <2>1, <2>2 DEF ReadCases
    <3> QED BY <3>0, <3>1, <3>2, <3>3, <3>4, <3>5 DEF Transactions
  <2>5. rsp.fsm # "IDLE" /\ RamAnswer => RamAnswer'
    BY <2>1, <2>2, <2>4 DEF RamAnswer, RamAddrs, Words
  <2>6. rsp.fsm # "IDLE" /\ FbAnswer => FbAnswer'
    <3>1. rsp.fsm # "IDLE" => FbIndex(ReadAddr)' = FbIndex(ReadAddr)
      BY <2>4 DEF FbIndex
    <3> QED BY <2>1, <2>2, <2>4, <3>1 DEF FbAnswer, Pixels
  <2> QED BY <1>0, <2>1, <2>2, <2>3, <2>5, <2>6 DEF PortAgrees
<1> QED BY <1>1, <1>2, <1>3, <1>4

-----------------------------------------------------------------------------
(***************************************************************************)
(* The values.                                                             *)
(***************************************************************************)
\* The memory and the frame buffer share no address.
LEMMA Addresses ==
    /\ RamAddrs \cup FbAddrs \subseteq Addr /\ RamAddrs \cap FbAddrs = {}
    /\ \A a \in RamAddrs : a[1] < FbLine
    /\ \A a \in FbAddrs : a[1] >= FbLine /\ FbIndex(a) \in Pixels
<1>1. FbLine \in Nat /\ SurfaceSize \in Nat /\ \A l \in RamLines : l \in Nat /\ l < FbLine
  BY SocAssumption, FrameBufferAssumption
<1>2. ASSUME NEW a \in RamAddrs PROVE a \in Addr /\ a[1] < FbLine /\ a[1] \in Nat
  BY <1>1 DEF RamAddrs, Addr
<1>3. ASSUME NEW a \in FbAddrs PROVE a \in Addr /\ a[1] >= FbLine /\ a[1] \in Nat /\ FbIndex(a) \in Pixels
  <2>1. a \in (FbLine .. FbLine + SurfaceSize) \X Words /\ FbIndex(a) \in Pixels
    BY DEF FbAddrs
  <2>2. a[1] \in FbLine .. FbLine + SurfaceSize /\ a[2] \in Words /\ a = <<a[1], a[2]>>
    BY <2>1
  <2>3. a[1] \in Nat /\ a[1] >= FbLine
    BY <1>1, <2>2
  <2>4. a \in Addr
    BY <2>2, <2>3 DEF Addr
  <2> QED BY <2>1, <2>3, <2>4
<1>4. ASSUME NEW a \in RamAddrs \cap FbAddrs PROVE FALSE
  <2>1. a[1] < FbLine /\ a[1] >= FbLine /\ a[1] \in Nat
    BY <1>2, <1>3
  <2> QED BY <1>1, <2>1
<1> QED BY <1>2, <1>3, <1>4

\* A word of a target changes by a flit of a write burst or by an SC.
BurstWrites(g, a) == Passes(g) /\ cmd.fsm = "DATA_WRITE" /\ Buffered(a) /\ a[2] = cmd.cpt
ScWrites(g, a) == Passes(g) /\ cmd.fsm = "DATA_UNC" /\ d.type = "SC" /\ d.addr = a

\* A word changes in its target by a flit of a burst or by an SC.
LEMMA StoredNext ==
    ASSUME SocInv, NEW g \in BOOLEAN, CycleMoves(g), NEW a \in RamAddrs \cup FbAddrs
    PROVE  Stored_(a)' = IF BurstWrites(g, a) THEN wbuf.data[a[2]]
                         ELSE IF ScWrites(g, a) THEN d.wdata ELSE Stored_(a)
<1>0. SocTypeOK /\ PortAgrees /\ WriteSide
  BY DEF SocInv
<1>1. mem \in [RamAddrs -> Int] /\ surface \in [Pixels -> Int]
  BY <1>0 DEF SocTypeOK
<1>2. a \in Addr /\ a = <<a[1], a[2]>> /\ a[1] \in Nat
  BY Addresses, AddrParts
<1>3. Stored_(a)' = IF a \in RamAddrs THEN mem'[a] ELSE surface'[FbIndex(a)]
  BY DEF Stored_, RamAddrs, Words, FbIndex
<1>4. CASE ~Passes(g)
  <2>1. mem' = mem /\ surface' = surface
    BY <1>4 DEF CycleMoves, TargetsStay, TargetsAnswer
  <2> QED BY <1>3, <1>4, <2>1 DEF Stored_, BurstWrites, ScWrites
<1>5. CASE Passes(g)
  <2>1. TargetsTake /\ CommandFacts(VciCmd) /\ cmd.fsm \in Transactions
    BY <1>0, <1>5, Commands DEF CycleMoves, Passes, SocTypeOK
  <2> DEFINE c == VciCmd
             writes == c.op \in {"WRITE", "SC"} /\ c.be /\ c.addr = a
  <2>2. c.addr \in Addr /\ c.addr[1] \in Nat /\ FbLine \in Nat /\ c.be \in BOOLEAN
    BY <2>1, AddrParts, SocAssumption DEF CommandFacts
  <2>3. writes <=> BurstWrites(g, a) \/ ScWrites(g, a)
    <3>1. cmd.fsm = "DATA_WRITE" => (writes <=> BurstWrites(g, a))
      <4>1. SUFFICES ASSUME cmd.fsm = "DATA_WRITE" PROVE writes <=> BurstWrites(g, a)
        OBVIOUS
      <4>2. c.op = "WRITE" /\ c.addr = <<wbuf.line, cmd.cpt>> /\ (c.be <=> cmd.cpt \in DOMAIN wbuf.data)
        BY <2>1, <4>1 DEF CommandFacts
      <4>3. c.addr = a <=> wbuf.line = a[1] /\ a[2] = cmd.cpt
        BY <1>2, <4>2
      <4> QED BY <1>5, <4>1, <4>2, <4>3 DEF BurstWrites, Buffered
    <3>2. cmd.fsm = "DATA_UNC" => (writes <=> ScWrites(g, a))
      BY <1>5, <2>1 DEF CommandFacts, ScWrites
    <3>3. cmd.fsm \in {"INS_MISS", "INS_UNC", "DATA_MISS"} => ~writes
      BY <2>1 DEF CommandFacts, ReadFlit
    <3> QED BY <2>1, <3>1, <3>2, <3>3 DEF BurstWrites, ScWrites, Transactions
  <2>4. /\ BurstWrites(g, a) => c.data = wbuf.data[a[2]]
        /\ ScWrites(g, a) => c.data = d.wdata
    <3>1. BurstWrites(g, a) => c.data = wbuf.data[a[2]]
      BY <2>1 DEF CommandFacts, BurstWrites, Buffered
    <3>2. ScWrites(g, a) => c.data = d.wdata
      BY <2>1 DEF CommandFacts, ScWrites
    <3> QED BY <3>1, <3>2
  <2>5. ~(BurstWrites(g, a) /\ ScWrites(g, a))
    BY DEF BurstWrites, ScWrites
  <2>6. Stored_(a)' = IF writes THEN c.data ELSE Stored_(a)
    <3>1. CASE a \in RamAddrs
      <4>1. a[1] < FbLine
        BY <3>1, Addresses
      <4>2. CASE ToFb(c)
        <5>1. c.addr # a
          BY <2>2, <4>1, <4>2 DEF ToFb
        <5>2. mem' = mem
          BY <2>1, <4>2 DEF TargetsTake
        <5> QED BY <1>3, <3>1, <5>1, <5>2 DEF Stored_
      <4>3. CASE ~ToFb(c)
        <5>1. mem' = IF c.op \in {"WRITE", "SC"} /\ c.be /\ c.addr \in RamAddrs
                     THEN [mem EXCEPT ![c.addr] = c.data] ELSE mem
          BY <2>1, <4>3 DEF TargetsTake
        <5>2. mem'[a] = IF writes THEN c.data ELSE mem[a]
          <6> HIDE DEF c
          <6> QED BY <1>1, <3>1, <5>1
        <5> QED BY <1>3, <3>1, <5>2 DEF Stored_
      <4> QED BY <4>2, <4>3
    <3>2. CASE a \notin RamAddrs
      <4>0. a \in FbAddrs /\ a[1] >= FbLine /\ FbIndex(a) \in Pixels
        BY <3>2, Addresses
      <4>1. CASE ToFb(c)
        <5> DEFINE f == FbFlit(c, TRUE)
        <5>1. FrameBufferTakes(f)
          BY <2>1, <4>1 DEF TargetsTake
        <5>2. f.index = FbIndex(c.addr) /\ f.op = c.op /\ f.be = c.be /\ f.data = c.data
          BY DEF FbFlit
        <5>3. surface' = IF f.index \in Pixels /\ f.op = "WRITE" THEN write_fb(f) ELSE surface
          <6> HIDE DEF f
          <6> QED BY <5>1 DEF FrameBufferTakes
        <5>4. write_fb(f) = IF f.be THEN [surface EXCEPT ![f.index] = f.data] ELSE surface
          BY DEF write_fb
        <5> HIDE DEF f
        <5>5. surface' = IF FbIndex(c.addr) \in Pixels /\ c.op = "WRITE" /\ c.be
                         THEN [surface EXCEPT ![FbIndex(c.addr)] = c.data] ELSE surface
          BY <5>2, <5>3, <5>4
        <5>6. FbIndex(c.addr) = FbIndex(a) <=> c.addr = a
          BY <1>2, <2>2, FbIndexInjective
        <5>7. FbIndex(c.addr) \in Pixels => c.op # "SC"
          <6>1. cmd.fsm = "DATA_UNC" => (FbIndex(c.addr) \in Pixels => c.op = "READ")
            BY <2>1 DEF CommandFacts
          <6>2. cmd.fsm # "DATA_UNC" => c.op # "SC"
            BY <2>1 DEF CommandFacts, ReadFlit, Transactions
          <6> QED BY <6>1, <6>2
        <5>8. surface'[FbIndex(a)] = IF writes THEN c.data ELSE surface[FbIndex(a)]
          <6> HIDE DEF c
          <6> DEFINE n == FbIndex(c.addr)
                     m == FbIndex(a)
          <6> HIDE DEF n, m
          <6>1. surface' = IF n \in Pixels /\ c.op = "WRITE" /\ c.be THEN [surface EXCEPT ![n] = c.data] ELSE surface
            BY <5>5 DEF n
          <6>2. (n = m <=> c.addr = a) /\ (n \in Pixels => c.op # "SC") /\ m \in Pixels
            BY <4>0, <5>6, <5>7 DEF n, m
          <6>3. surface'[m] = IF writes THEN c.data ELSE surface[m]
            BY <1>1, <6>1, <6>2
          <6> QED BY <6>3 DEF m
        <5> QED BY <1>3, <3>2, <5>8 DEF Stored_
      <4>2. CASE ~ToFb(c)
        <5>1. c.addr # a
          BY <2>2, <4>0, <4>2 DEF ToFb
        <5>2. surface' = surface
          BY <2>1, <4>2 DEF TargetsTake
        <5> QED BY <1>3, <3>2, <5>1, <5>2 DEF Stored_
      <4> QED BY <4>1, <4>2
    <3> QED BY <3>1, <3>2
  <2> HIDE DEF c
  <2> QED BY <2>3, <2>4, <2>5, <2>6
<1> QED BY <1>4, <1>5

\* The value of a word behind the data cache: in the write buffer or in its target.
Pending(a) == IF Buffered(a) THEN wbuf.data[a[2]] ELSE Stored_(a)

\* The write buffer does not change while a burst is being sent.
LEMMA BurstStays ==
    ASSUME SocInv, NEW g \in BOOLEAN, CycleMoves(g), cmd.fsm = "DATA_WRITE" \/ cmd'.fsm = "DATA_WRITE",
           ~(Passes(g) /\ cmd.fsm = "DATA_WRITE" /\ LastFlit)
    PROVE  wbuf' = wbuf
<1>0. WriteSide /\ CmdMove(g) /\ WbufMove(g) /\ SocTypeOK
  BY DEF SocInv, CycleMoves
<1>1. "DATA_WRITE" \in req
  <2>1. CASE cmd.fsm = "DATA_WRITE"
    BY <1>0, <2>1 DEF WriteSide
  <2>2. CASE Start
    <3>1. First(req) = "DATA_WRITE" \/ cmd.fsm = "DATA_WRITE"
      BY <2>2, StartFacts
    <3> QED BY <2>1, <2>2, <3>1, StartFacts
  <2>3. CASE ~Start /\ cmd.fsm # "DATA_WRITE"
    <3>1. cmd \in [fsm : Transactions \cup {"IDLE"}, cpt : Int, max : Int]
      BY <1>0 DEF SocTypeOK
    <3>2. cmd' = cmd \/ cmd' = [cmd EXCEPT !.fsm = "IDLE"] \/ cmd' = [cmd EXCEPT !.cpt = @ + 1]
      BY <1>0, <2>3 DEF CmdMove
    <3> QED BY <2>3, <3>1, <3>2
  <2> QED BY <2>1, <2>2, <2>3
<1> QED BY <1>0, <1>1 DEF WbufMove, Posts

\* A word changes behind the cache when a store is posted or by an SC.
LEMMA PendingNext ==
    ASSUME SocInv, NEW g \in BOOLEAN, CycleMoves(g), NEW a \in RamAddrs \cup FbAddrs
    PROVE  Pending(a)' = IF (Posts /\ d.addr = a) \/ ScWrites(g, a) THEN d.wdata ELSE Pending(a)
<1>0. SocTypeOK /\ MemoryAgrees /\ WriteSide /\ WbufMove(g) /\ PortAgrees /\ ServesData /\ DataRequest
  BY Serving DEF SocInv, CycleMoves
<1>1. a \in Addr /\ a = <<a[1], a[2]>> /\ a[1] \in Nat
  BY Addresses, AddrParts
<1>2. Stored_(a)' = IF BurstWrites(g, a) THEN wbuf.data[a[2]]
                    ELSE IF ScWrites(g, a) THEN d.wdata ELSE Stored_(a)
  BY StoredNext
<1> DEFINE W == DOMAIN wbuf.data
           sent == Passes(g) /\ cmd.fsm = "DATA_WRITE" /\ LastFlit
<1>3. ScWrites(g, a) => ~Buffered(a) /\ d.fsm = "UNC_WAIT" /\ ~Posts
  <2>1. SUFFICES ASSUME ScWrites(g, a) PROVE ~Buffered(a) /\ d.fsm = "UNC_WAIT" /\ ~Posts
    OBVIOUS
  <2>2. rsp.fsm = "DATA_UNC"
    BY <1>0, <2>1 DEF ScWrites, PortAgrees
  <2>3. d.fsm = "UNC_WAIT" /\ "DATA_UNC" \notin req
    BY <1>0, <2>2 DEF ServesData, Served
  <2>4. "DATA_MISS" \notin req
    BY <2>3 DEF SocInv, DataSide, DataUncached
  <2>5. wbuf.line = NoLine
    BY <1>0, <2>3, <2>4 DEF WriteSide, Waits
  <2> QED BY <1>1, <2>3, <2>5 DEF Buffered, NoLine, Posts
<1>4. CASE sent
  <2>1. wbuf' = EmptyWbuf /\ ~Posts /\ ~ScWrites(g, a)
    BY <1>0, <1>4 DEF WbufMove, WriteSide, Posts, ScWrites
  <2>2. ~Buffered(a)'
    BY <2>1 DEF Buffered, EmptyWbuf
  <2>3. Pending(a)' = Stored_(a)'
    BY <2>2 DEF Pending
  <2>4. CASE Buffered(a)
    <3>1. /\ "DATA_WRITE" \in req /\ cmd.max = MaxWord(W) /\ cmd.cpt = cmd.max
      BY <1>0, <1>4 DEF WriteSide, LastFlit
    <3>2. W \in SUBSET Words /\ a[2] \in W
      BY <1>0, <2>4 DEF SocTypeOK, Buffered
    <3>3. MaxWord(W) >= a[2] /\ MaxWord(W) \in W
      BY <3>2, WordBounds
    <3>4. a[2] \in Int /\ cmd.cpt \in Int
      BY <1>0, <1>1, AddrParts DEF SocTypeOK
    <3>5. a[2] = cmd.cpt \/ a[2] < cmd.cpt
      BY <3>1, <3>3, <3>4
    <3>6. a[2] < cmd.cpt => Stored_(a) = wbuf.data[a[2]]
      BY <1>0, <1>4, <2>4 DEF MemoryAgrees
    <3>7. a[2] = cmd.cpt => BurstWrites(g, a)
      BY <1>4, <2>4 DEF BurstWrites
    <3> QED BY <1>2, <2>1, <2>3, <2>4, <3>5, <3>6, <3>7 DEF Pending
  <2>5. CASE ~Buffered(a)
    BY <1>2, <2>1, <2>3, <2>5 DEF Pending, BurstWrites
  <2> QED BY <2>4, <2>5
<1>5. CASE Posts /\ ~sent
  <2>1. d.fsm = "WRITE_REQ" /\ "DATA_WRITE" \notin req /\ wbuf.line \in {NoLine, d.addr[1]}
    BY <1>5 DEF Posts, wok
  <2>2. wbuf' = Posted
    BY <1>0, <1>5 DEF WbufMove
  <2>3. wbuf'.line = d.addr[1] /\ DOMAIN wbuf'.data = W \cup {d.addr[2]}
        /\ \A w \in W \cup {d.addr[2]} : wbuf'.data[w] = IF w = d.addr[2] THEN d.wdata ELSE wbuf.data[w]
    BY <2>2 DEF Posted
  <2>4. ~ScWrites(g, a)
    BY <1>3, <1>5
  <2>5. ~BurstWrites(g, a)
    BY <1>0, <2>1 DEF BurstWrites, WriteSide
  <2>6. d.addr \in Addr /\ d.addr = <<d.addr[1], d.addr[2]>>
    BY <2>1, HeldRequest, AddrParts
  <2>7. Buffered(a)' <=> d.addr[1] = a[1] /\ a[2] \in W \cup {d.addr[2]}
    BY <2>3 DEF Buffered
  <2>8. CASE d.addr = a
    <3>1. Pending(a)' = wbuf'.data[a[2]]
      BY <2>7, <2>8 DEF Pending
    <3> QED BY <1>5, <2>3, <2>8, <3>1
  <2>9. CASE d.addr # a
    <3>1. wbuf.line = NoLine <=> W = {}
      BY <1>0 DEF WriteSide
    <3>2. d.addr[1] = a[1] => a[2] # d.addr[2]
      BY <1>1, <2>6, <2>9
    <3>3. a[1] # NoLine
      BY <1>1 DEF NoLine
    <3>4. Buffered(a)' <=> Buffered(a)
      BY <2>1, <2>7, <3>1, <3>2, <3>3 DEF Buffered
    <3>5. Buffered(a) => wbuf'.data[a[2]] = wbuf.data[a[2]]
      BY <2>3, <2>7, <3>2, <3>4 DEF Buffered
    <3>6. Stored_(a)' = Stored_(a)
      BY <1>2, <2>4, <2>5
    <3> QED BY <2>4, <2>9, <3>4, <3>5, <3>6 DEF Pending
  <2> QED BY <2>8, <2>9
<1>6. CASE ~Posts /\ ~sent
  <2>1. wbuf' = wbuf
    BY <1>0, <1>6 DEF WbufMove
  <2>2. Buffered(a)' <=> Buffered(a)
    BY <2>1 DEF Buffered
  <2>3. CASE Buffered(a)
    BY <1>3, <1>6, <2>1, <2>2, <2>3 DEF Pending
  <2>4. CASE ~Buffered(a)
    BY <1>2, <1>6, <2>2, <2>4 DEF Pending, BurstWrites
  <2> QED BY <2>3, <2>4
<1> QED BY <1>4, <1>5, <1>6

\* The value that loads must see, after the cycle.
LEMMA MemoryAgreesNext ==
    ASSUME SocInv, NEW g \in BOOLEAN, CycleMoves(g)
    PROVE  MemoryAgrees'
<1>0. /\ SocTypeOK /\ MemoryAgrees /\ DataRequest /\ DataSide /\ WriteSide /\ PortAgrees
      /\ DataState /\ ProgramMove /\ CmdMove(g) /\ WbufMove(g) /\ ReqMove(g) /\ ServesData
  BY Serving DEF SocInv, CycleMoves
<1>1. Accepts => d.fsm \in {"IDLE", "WRITE_REQ"}
  BY DEF Accepts, Posts
<1>a. ref \in [RamAddrs \cup FbAddrs -> Int]
  BY <1>0 DEF SocTypeOK
<1>2. SUFFICES ASSUME NEW a \in RamAddrs \cup FbAddrs
               PROVE  /\ Effective(a)' = IF ScDone(a)' THEN d'.wdata ELSE ref'[a]
                      /\ cmd'.fsm = "DATA_WRITE" /\ Buffered(a)' /\ a[2] < cmd'.cpt => Stored_(a)' = wbuf'.data[a[2]]
  <2>1. (RamAddrs \cup FbAddrs)' = RamAddrs \cup FbAddrs
    BY DEF RamAddrs, FbAddrs, FbIndex, Words, Pixels
  <2> QED BY <1>2, <2>1 DEF MemoryAgrees
<1>3. a \in Addr /\ a[2] \in Words /\ a[2] \in Int
  BY Addresses, AddrParts DEF Words
<1>4. /\ Effective(a) = IF ScDone(a) THEN d.wdata ELSE ref[a]
      /\ cmd.fsm = "DATA_WRITE" /\ Buffered(a) /\ a[2] < cmd.cpt => Stored_(a) = wbuf.data[a[2]]
  BY <1>0 DEF MemoryAgrees
<1>5. ASSUME cmd'.fsm = "DATA_WRITE", Buffered(a)', a[2] < cmd'.cpt PROVE Stored_(a)' = wbuf'.data[a[2]]
  <2>0. cmd \in [fsm : Transactions \cup {"IDLE"}, cpt : Int, max : Int]
    BY <1>0 DEF SocTypeOK
  <2>1. ~(Passes(g) /\ cmd.fsm = "DATA_WRITE" /\ LastFlit)
    <3>1. SUFFICES ASSUME Passes(g) /\ cmd.fsm = "DATA_WRITE" /\ LastFlit PROVE FALSE
      OBVIOUS
    <3>2. cmd' = [cmd EXCEPT !.fsm = "IDLE"]
      BY <1>0, <3>1 DEF CmdMove
    <3> QED BY <1>5, <2>0, <3>2
  <2>2. wbuf' = wbuf
    BY <1>5, <2>1, BurstStays
  <2>3. Buffered(a)
    BY <1>5, <2>2 DEF Buffered
  <2>4. /\ Stored_(a)' = IF BurstWrites(g, a) THEN wbuf.data[a[2]]
                         ELSE IF ScWrites(g, a) THEN d.wdata ELSE Stored_(a)
    BY StoredNext
  <2>5. CASE Start
    <3>1. cmd' = [fsm |-> First(req),
                  cpt |-> IF First(req) = "DATA_WRITE" THEN MinWord(DOMAIN wbuf.data) ELSE 0,
                  max |-> IF First(req) = "DATA_WRITE" THEN MaxWord(DOMAIN wbuf.data) ELSE 0]
      BY <1>0, <2>5 DEF CmdMove
    <3>2. cmd'.cpt = MinWord(DOMAIN wbuf.data)
      BY <1>5, <3>1
    <3>3. DOMAIN wbuf.data \in SUBSET Words /\ a[2] \in DOMAIN wbuf.data
      BY <1>0, <2>3 DEF SocTypeOK, Buffered
    <3>4. MinWord(DOMAIN wbuf.data) <= a[2] /\ MinWord(DOMAIN wbuf.data) \in Words
      BY <3>3, WordBounds
    <3>5. \A w \in Words : w \in Int
      BY XcacheAssumption DEF Words
    <3> QED BY <1>3, <1>5, <3>2, <3>4, <3>5
  <2>6. CASE Passes(g)
    <3>1. cmd' = IF LastFlit THEN [cmd EXCEPT !.fsm = "IDLE"] ELSE [cmd EXCEPT !.cpt = @ + 1]
      BY <1>0, <2>6 DEF CmdMove
    <3>2. ~LastFlit
      BY <1>5, <2>0, <3>1
    <3>3. cmd' = [cmd EXCEPT !.cpt = cmd.cpt + 1]
      BY <3>1, <3>2
    <3>4. cmd'.cpt = cmd.cpt + 1 /\ cmd.fsm = "DATA_WRITE" /\ cmd.cpt \in Int
      BY <1>5, <2>0, <3>3
    <3>5. a[2] = cmd.cpt \/ a[2] < cmd.cpt
      BY <1>3, <1>5, <3>4
    <3>6. a[2] = cmd.cpt => BurstWrites(g, a)
      BY <2>3, <2>6, <3>4 DEF BurstWrites
    <3>7. ~ScWrites(g, a)
      BY <3>4 DEF ScWrites
    <3> QED BY <1>4, <2>2, <2>3, <2>4, <3>4, <3>5, <3>6, <3>7
  <2>7. CASE ~Start /\ ~Passes(g)
    <3>1. cmd' = cmd
      BY <1>0, <2>7 DEF CmdMove
    <3> QED BY <1>4, <1>5, <2>2, <2>3, <2>4, <2>7, <3>1 DEF BurstWrites, ScWrites
  <2> QED BY <2>5, <2>6, <2>7
<1>6. Effective(a)' = IF ScDone(a)' THEN d'.wdata ELSE ref'[a]
  <2>1. Pending(a)' = IF (Posts /\ d.addr = a) \/ ScWrites(g, a) THEN d.wdata ELSE Pending(a)
    BY PendingNext
  <2>2. Effective(a) = IF d.fsm \in WriteStates /\ d.addr = a THEN d.wdata ELSE Pending(a)
    BY DEF Effective, Pending
  <2>3. Effective(a)' = IF d'.fsm \in WriteStates /\ d'.addr = a THEN d'.wdata ELSE Pending(a)'
    BY DEF Effective, Pending
  <2>4. /\ ScDone(a) => d.fsm = "UNC_WAIT" /\ d.type = "SC" /\ d.addr = a
        /\ ScDone(a)' => d'.fsm = "UNC_WAIT" /\ d'.type = "SC" /\ d'.addr = a /\ "DATA_UNC" \notin req'
    BY DEF ScDone
  <2>5. ScWrites(g, a) => d.fsm = "UNC_WAIT" /\ d.type = "SC" /\ d.addr = a
    BY <1>0 DEF ScWrites, PortAgrees, ServesData
  <2>6. CASE Accepts
    <3>1. Pending(a)' = ref[a]
      <4>1. ~ScDone(a) /\ ~ScWrites(g, a)
        BY <1>1, <2>4, <2>5, <2>6
      <4>2. CASE d.fsm = "IDLE"
        <5>1. ~Posts /\ d.fsm \notin WriteStates
          BY <4>2 DEF Posts, WriteStates
        <5> QED BY <1>4, <2>1, <2>2, <4>1, <5>1
      <4>3. CASE d.fsm = "WRITE_REQ"
        <5>1. Posts /\ d.fsm \in WriteStates
          BY <2>6, <4>3 DEF Accepts, WriteStates
        <5> QED BY <1>4, <2>1, <2>2, <4>1, <5>1
      <4> QED BY <1>1, <2>6, <4>2, <4>3
    <3>2. d.fsm # "UNC_WAIT"
      BY <1>1, <2>6
    <3>3. CASE dreq = NoReq
      <4>1. d'.fsm = "IDLE"
        BY <1>0, <2>6, <3>3 DEF DataState
      <4>2. ref' = ref
        BY <1>0, <3>2, <3>3 DEF ProgramMove, NoReq
      <4> QED BY <2>3, <2>4, <3>1, <4>1, <4>2 DEF WriteStates
    <3>4. CASE dreq # NoReq
      <4>1. d'.addr = dreq.addr /\ d'.wdata = dreq.wdata /\ d'.fsm = NextDataState
        BY <1>0, <2>6, <3>4 DEF DataState
      <4>2. ~ScDone(a)'
        <5>1. ASSUME d'.fsm = "UNC_WAIT" PROVE "DATA_UNC" \in req'
          <6>1. Uncached(dreq)
            BY <1>0, <3>4, <4>1, <5>1, NextStates
          <6>2. ~Waits
            BY <1>1, <2>6 DEF Waits, MissStates
          <6>3. "DATA_UNC" \notin req
            BY <1>0, <6>2 DEF DataSide, NoRead, DataReads
          <6>4. ~Begins("DATA_UNC")
            BY <6>3, StartFacts DEF Begins
          <6> QED BY <1>0, <2>6, <6>1, <6>4 DEF ReqMove
        <5> QED BY <2>4, <5>1
      <4>3. CASE dreq.type = "WRITE"
        <5>1. d'.fsm \in WriteStates
          BY <1>0, <3>4, <4>1, <4>3, NextStates DEF WriteStates
        <5>2. ref' = IF dreq.addr \in DOMAIN ref THEN [ref EXCEPT ![dreq.addr] = dreq.wdata] ELSE ref
          BY <1>0, <2>6, <3>2, <4>3 DEF ProgramMove
        <5>3. ref'[a] = IF dreq.addr = a THEN dreq.wdata ELSE ref[a]
          BY <1>a, <5>2
        <5> QED BY <2>3, <3>1, <4>1, <4>2, <5>1, <5>3
      <4>4. CASE dreq.type # "WRITE"
        <5>1. d'.fsm \notin WriteStates
          BY <1>0, <3>4, <4>1, <4>4, NextStates
        <5>2. ref' = ref
          BY <1>0, <3>2, <4>4 DEF ProgramMove
        <5> QED BY <2>3, <3>1, <4>2, <5>1, <5>2
      <4> QED BY <4>3, <4>4
    <3> QED BY <3>3, <3>4
  <2>7. CASE ~Accepts /\ d.fsm # "UNC_WAIT"
    <3>1. d'.addr = d.addr /\ d'.wdata = d.wdata /\ d'.type = d.type
      BY <1>0, <2>7 DEF DataState, Keeps
    <3>2. d.fsm \in MissStates \cup WriteStates \cup ExternStates
      BY <1>0, <2>7 DEF SocTypeOK, Accepts
    <3>3. (d'.fsm \in WriteStates <=> d.fsm \in WriteStates) /\ d'.fsm # "UNC_WAIT"
      BY <1>0, <2>7, <3>2 DEF DataState, MissStates, WriteStates, ExternStates, Accepts
    <3>4. ref' = ref
      BY <1>0, <2>7 DEF ProgramMove
    <3>5. ~Posts
      BY <2>7 DEF Accepts
    <3>6. ~ScDone(a) /\ ~ScDone(a)' /\ ~ScWrites(g, a)
      BY <2>4, <2>5, <2>7, <3>3
    <3> QED BY <1>4, <2>1, <2>2, <2>3, <3>1, <3>3, <3>4, <3>5, <3>6
  <2>8. CASE d.fsm = "UNC_WAIT"
    <3>1. ~Accepts /\ ~Posts /\ d.fsm \notin WriteStates
      BY <1>1, <2>8 DEF Posts, WriteStates
    <3>2. d'.addr = d.addr /\ d'.wdata = d.wdata /\ d'.type = d.type
      BY <1>0, <3>1 DEF DataState, Keeps
    <3>3. d'.fsm = IF ClearDataError \/ GetData THEN "IDLE" ELSE "UNC_WAIT"
      BY <1>0, <2>8 DEF DataState
    <3>4. Effective(a) = Pending(a) /\ Effective(a)' = Pending(a)'
      BY <2>2, <2>3, <3>1, <3>3 DEF WriteStates
    <3>5. CASE ~(d.type = "SC" /\ d.addr = a)
      <4>1. ~ScDone(a) /\ ~ScDone(a)' /\ ~ScWrites(g, a)
        BY <2>4, <2>5, <3>2, <3>5
      <4>2. ref'[a] = ref[a]
        BY <1>0, <1>a, <2>8, <3>1, <3>5 DEF ProgramMove
      <4> QED BY <1>4, <2>1, <3>1, <3>4, <4>1, <4>2
    <3>6. CASE d.type = "SC" /\ d.addr = a
      <4>1. ReadPhase("DATA_UNC", 0, TRUE, "DATA") /\ "DATA_MISS" \notin req
        BY <1>0, <2>8 DEF DataSide, DataUncached
      <4>2. cmd.fsm # "IDLE" => rsp.fsm = cmd.fsm
        BY <1>0 DEF PortAgrees
      <4>3. CASE ClearDataError \/ GetData
        <5>1. "DATA_UNC" \notin req /\ rsp.fsm # "DATA_UNC"
          <6>1. fifo.DATA \in Seq(Int)
            BY <1>0 DEF SocTypeOK
          <6>2. ~Asked("DATA_UNC", 0, "DATA")
            BY <4>3 DEF Asked, ClearDataError, GetData
          <6>3. ~Served("DATA_UNC", 0, TRUE, "DATA")
            <7>1. ASSUME Served("DATA_UNC", 0, TRUE, "DATA") PROVE FALSE
              <8>1. 0 + Len(fifo.DATA) = 0 /\ "DATA" \notin rsp.error
                BY <7>1 DEF Served
              <8>2. fifo.DATA = <<>>
                BY <6>1, <8>1
              <8> QED BY <4>3, <8>1, <8>2 DEF ClearDataError, GetData
            <7> QED BY <7>1
          <6> QED BY <4>1, <6>2, <6>3 DEF ReadPhase, Arrived, Refused
        <5>2. ScDone(a) /\ ~ScWrites(g, a)
          BY <2>8, <3>6, <4>2, <5>1 DEF ScDone, ScWrites
        <5>3. ~ScDone(a)'
          BY <2>4, <3>3, <4>3
        <5>4. ref'[a] = d.wdata
          <6>1. ref' = [ref EXCEPT ![d.addr] = d.wdata]
            BY <1>0, <1>a, <2>8, <3>1, <3>6, <4>3 DEF ProgramMove
          <6> QED BY <1>a, <3>6, <6>1
        <5> QED BY <1>4, <2>1, <3>1, <3>4, <5>2, <5>3, <5>4
      <4>4. CASE ~(ClearDataError \/ GetData)
        <5>1. d'.fsm = "UNC_WAIT" /\ ref' = ref
          BY <1>0, <3>1, <3>3, <4>4 DEF ProgramMove
        <5>2. "DATA_UNC" \in req' <=> "DATA_UNC" \in req /\ ~Begins("DATA_UNC")
          BY <1>0, <3>1 DEF ReqMove
        <5>3. cmd \in [fsm : Transactions \cup {"IDLE"}, cpt : Int, max : Int]
          BY <1>0 DEF SocTypeOK
        <5>4. cmd.fsm = "DATA_UNC" => "DATA_UNC" \notin req /\ LastFlit
          BY <1>0, <4>2 DEF ServesData, Served, LastFlit
        <5>5. CASE Start
          <6>1. cmd.fsm = "IDLE" /\ ~Passes(g) /\ cmd'.fsm = First(req) /\ First(req) \in req
            BY <5>5, StartFacts
          <6>2. ScDone(a) <=> "DATA_UNC" \notin req
            BY <2>8, <3>6, <6>1 DEF ScDone
          <6>3. ScDone(a)' <=> "DATA_UNC" \notin req' /\ First(req) # "DATA_UNC"
            BY <3>2, <3>6, <5>1, <6>1 DEF ScDone
          <6>4. ScDone(a)' <=> ScDone(a)
            BY <5>2, <5>5, <6>1, <6>2, <6>3 DEF Begins
          <6>5. Pending(a)' = Pending(a)
            BY <2>1, <3>1, <6>1 DEF ScWrites
          <6> QED BY <1>4, <3>2, <3>4, <5>1, <6>4, <6>5
        <5>6. CASE Passes(g) /\ cmd.fsm = "DATA_UNC"
          <6>1. cmd' = [cmd EXCEPT !.fsm = "IDLE"]
            BY <1>0, <5>4, <5>6 DEF CmdMove
          <6>2. cmd'.fsm = "IDLE"
            BY <5>3, <6>1
          <6>3. ScDone(a)'
            BY <3>2, <3>6, <5>1, <5>2, <5>4, <5>6, <6>2 DEF ScDone
          <6>4. Pending(a)' = d.wdata
            BY <2>1, <3>6, <5>6 DEF ScWrites
          <6> QED BY <3>2, <3>4, <6>3, <6>4
        <5>7. CASE ~Start /\ ~(Passes(g) /\ cmd.fsm = "DATA_UNC")
          <6>1. cmd'.fsm = "DATA_UNC" <=> cmd.fsm = "DATA_UNC"
            <7>1. cmd' = cmd \/ (Passes(g) /\ (cmd' = [cmd EXCEPT !.fsm = "IDLE"] \/ cmd' = [cmd EXCEPT !.cpt = @ + 1]))
              BY <1>0, <5>7 DEF CmdMove
            <7> QED BY <5>3, <5>7, <7>1
          <6>2. "DATA_UNC" \in req' <=> "DATA_UNC" \in req
            BY <5>2, <5>7 DEF Begins
          <6>3. ScDone(a)' <=> ScDone(a)
            BY <2>8, <3>2, <5>1, <6>1, <6>2 DEF ScDone
          <6>4. Pending(a)' = Pending(a)
            BY <2>1, <3>1, <5>7 DEF ScWrites
          <6> QED BY <1>4, <3>2, <3>4, <5>1, <6>3, <6>4
        <5> QED BY <5>5, <5>6, <5>7
      <4> QED BY <4>3, <4>4
    <3> QED BY <3>5, <3>6
  <2> QED BY <2>6, <2>7, <2>8
<1> QED BY <1>5, <1>6

-----------------------------------------------------------------------------
(***************************************************************************)
(* The data cache.                                                         *)
(***************************************************************************)
\* What the operations of a cache change.
Tags(c, e, n, l) ==
    /\ e \in CacheType
    /\ \A s \in 0 .. Sets - 1 : e[s].line = (IF s = n THEN l ELSE c[s].line) /\ e[s].data = c[s].data
Fills(c, e, n, w, v) ==
    /\ e \in CacheType
    /\ \A s \in 0 .. Sets - 1 :
          /\ e[s].line = c[s].line
          /\ \A x \in Words : e[s].data[x] = IF s = n /\ x = w THEN v ELSE c[s].data[x]

\* Writing the tag of a set changes this tag and nothing else.
LEMMA CacheLines ==
    ASSUME NEW c \in CacheType, NEW n \in 0 .. Sets - 1, NEW l \in Int
    PROVE  Tags(c, [c EXCEPT ![n].line = l], n, l)
<1> DEFINE L == [line : Int, data : [Words -> Int]]
           b == c[n]
           f == [b EXCEPT !.line = l]
           e == [c EXCEPT ![n] = f]
<1>1. c \in [0 .. Sets - 1 -> L]
  BY DEF CacheType
<1>2. b \in L
  BY <1>1
<1> HIDE DEF b
<1>3. f \in L /\ f.line = l /\ f.data = b.data
  BY <1>2
<1> HIDE DEF f
<1>4. e \in [0 .. Sets - 1 -> L] /\ \A s \in 0 .. Sets - 1 : e[s] = IF s = n THEN f ELSE c[s]
  BY <1>1, <1>3
<1>5. e = [c EXCEPT ![n].line = l]
  BY DEF f, b
<1> HIDE DEF e
<1>6. e \in CacheType
  BY <1>4 DEF CacheType
<1>7. ASSUME NEW s \in 0 .. Sets - 1
      PROVE  e[s].line = (IF s = n THEN l ELSE c[s].line) /\ e[s].data = c[s].data
  <2>1. CASE s = n
    BY <1>3, <1>4, <2>1 DEF b
  <2>2. CASE s # n
    BY <1>4, <2>2
  <2> QED BY <2>1, <2>2
<1> QED BY <1>5, <1>6, <1>7 DEF Tags

\* Writing a word of a set changes this word and nothing else.
LEMMA CacheWords ==
    ASSUME NEW c \in CacheType, NEW n \in 0 .. Sets - 1, NEW w \in Words, NEW v \in Int
    PROVE  Fills(c, [c EXCEPT ![n].data[w] = v], n, w, v)
<1> DEFINE L == [line : Int, data : [Words -> Int]]
           b == c[n]
           h == b.data
           k == [h EXCEPT ![w] = v]
           f == [b EXCEPT !.data = k]
           e == [c EXCEPT ![n] = f]
<1>1. c \in [0 .. Sets - 1 -> L]
  BY DEF CacheType
<1>2. b \in L
  BY <1>1
<1> HIDE DEF b
<1>3. h \in [Words -> Int]
  BY <1>2
<1> HIDE DEF h
<1>4. k \in [Words -> Int] /\ \A x \in Words : k[x] = IF x = w THEN v ELSE h[x]
  BY <1>3
<1> HIDE DEF k
<1>5. f \in L /\ f.line = b.line /\ f.data = k
  BY <1>2, <1>4
<1> HIDE DEF f
<1>6. e \in [0 .. Sets - 1 -> L] /\ \A s \in 0 .. Sets - 1 : e[s] = IF s = n THEN f ELSE c[s]
  BY <1>1, <1>5
<1>7. e = [c EXCEPT ![n].data[w] = v]
  BY DEF f, b, h, k
<1> HIDE DEF e
<1>8. e \in CacheType
  BY <1>6 DEF CacheType
<1>9. ASSUME NEW s \in 0 .. Sets - 1
      PROVE  /\ e[s].line = c[s].line
             /\ \A x \in Words : e[s].data[x] = IF s = n /\ x = w THEN v ELSE c[s].data[x]
  <2>1. CASE s = n
    BY <1>4, <1>5, <1>6, <2>1 DEF b, h
  <2>2. CASE s # n
    BY <1>6, <2>2
  <2> QED BY <2>1, <2>2
<1> QED BY <1>7, <1>8, <1>9 DEF Fills

\* The set of an address is a set of the cache.
LEMMA SetIsASet ==
    ASSUME NEW a, a[1] \in Nat
    PROVE  SetOf(a) \in 0 .. Sets - 1
<1> DEFINE l == a[1]
<1>1. l \in Nat /\ Sets \in Nat \ {0}
  BY XcacheAssumption
<1> HIDE DEF l
<1>2. l % Sets \in 0 .. Sets - 1
  BY <1>1
<1> QED BY <1>2 DEF SetOf, l

\* The data cache after a cycle.
CacheMove ==
    /\ dcache' \in CacheType
    /\ \A s \in 0 .. Sets - 1 :
          /\ dcache'[s].line =
                IF s = SetOf(d.addr) /\ d.fsm \in {"MISS_INVAL", "XTN_INVAL"} THEN NoLine
                ELSE IF s = SetOf(d.addr) /\ d.fsm = "MISS_WAIT" /\ GetData /\ d.word = LineWords - 1
                THEN d.addr[1] ELSE dcache[s].line
          /\ \A w \in Words : dcache'[s].data[w] =
                IF s = SetOf(d.addr) /\ d.fsm = "WRITE_UPDT" /\ w = d.addr[2] THEN d.wdata
                ELSE IF s = SetOf(d.addr) /\ d.fsm = "MISS_WAIT" /\ GetData /\ w = d.word
                THEN fifo.DATA[1] ELSE dcache[s].data[w]

\* A step changes the data cache as CacheMove says.
LEMMA CacheNext ==
    ASSUME SocInv, NEW g \in BOOLEAN, CycleMoves(g)
    PROVE  CacheMove
<1> DEFINE n == SetOf(d.addr)
<1>0. SocTypeOK /\ DataRequest /\ DataSide /\ DataMove /\ DataState
  BY DEF SocInv, CycleMoves
<1>1. dcache \in CacheType /\ fifo.DATA \in Seq(Int)
  BY <1>0 DEF SocTypeOK
<1>2. d.fsm # "IDLE" => d.addr \in Addr /\ d.addr[1] \in Nat /\ d.addr[2] \in Words /\ d.wdata \in Int /\ n \in 0 .. Sets - 1
  BY HeldRequest, AddrParts, SetIsASet
<1>3. Accepts => d.fsm \in {"IDLE", "WRITE_REQ"}
  BY DEF Accepts, Posts
<1>4. d.fsm \in {"IDLE", "UNC_WAIT", "MISS_SELECT", "MISS_INVAL", "MISS_WAIT", "WRITE_UPDT", "WRITE_REQ", "XTN_HIT", "XTN_INVAL"}
  BY <1>0 DEF SocTypeOK, MissStates, WriteStates, ExternStates
<1>5. GetData => d.fsm \in {"MISS_WAIT", "UNC_WAIT"}
  BY DEF GetData
<1> HIDE DEF n
<1>6. CASE d.fsm \in {"IDLE", "UNC_WAIT", "MISS_SELECT", "WRITE_REQ", "XTN_HIT"}
  <2>1. dcache' = dcache
    BY <1>0, <1>6 DEF DataMove, Accepts
  <2> QED BY <1>1, <1>6, <2>1 DEF CacheMove
<1>7. CASE d.fsm \in {"MISS_INVAL", "XTN_INVAL"}
  <2>1. dcache' = [dcache EXCEPT ![n].line = NoLine]
    BY <1>0, <1>7 DEF DataMove, Inval, n
  <2>2. NoLine \in Int
    BY DEF NoLine
  <2>3. Tags(dcache, dcache', n, NoLine)
    BY <1>1, <1>2, <1>7, <2>1, <2>2, CacheLines
  <2> QED BY <1>7, <2>3 DEF CacheMove, Tags, n
<1>8. CASE d.fsm = "WRITE_UPDT"
  <2>1. dcache' = [dcache EXCEPT ![n].data[d.addr[2]] = d.wdata]
    BY <1>0, <1>8 DEF DataMove, WriteWord, n
  <2>2. Fills(dcache, dcache', n, d.addr[2], d.wdata)
    BY <1>1, <1>2, <1>8, <2>1, CacheWords
  <2> QED BY <1>8, <2>2 DEF CacheMove, Fills, n
<1>9. CASE d.fsm = "MISS_WAIT"
  <2>0. MissWait
    BY <1>0, <1>9 DEF DataMove
  <2>1. CASE ~GetData
    <3>1. dcache' = dcache
      BY <1>9, <2>0, <2>1 DEF MissWait, GetData
    <3> QED BY <1>1, <1>9, <2>1, <3>1 DEF CacheMove
  <2>2. CASE GetData
    <3> DEFINE v == Head(fifo.DATA)
               filled == [dcache EXCEPT ![n].data[d.word] = v]
    <3>1. v \in Int /\ v = fifo.DATA[1]
      BY <1>1, <2>2 DEF GetData
    <3>2. d.word \in Words
      <4>1. d.word \in Nat /\ LineWords \in Nat
        BY <1>0, XcacheAssumption DEF SocTypeOK
      <4>2. d.word < LineWords
        BY <1>0, <1>9 DEF DataSide, DataMiss, MissStates
      <4> QED BY <4>1, <4>2 DEF Words
    <3>3. dcache' = IF d.word = LineWords - 1 THEN [filled EXCEPT ![n].line = d.addr[1]] ELSE filled
      BY <1>9, <2>0, <2>2 DEF MissWait, GetData, WriteWord, Tag, n
    <3> HIDE DEF v
    <3>4. Fills(dcache, filled, n, d.word, v)
      BY <1>1, <1>2, <1>9, <3>1, <3>2, CacheWords
    <3> HIDE DEF filled
    <3>5. CASE d.word = LineWords - 1
      <4>1. filled \in CacheType /\ d.addr[1] \in Int
        BY <1>2, <1>9, <3>4 DEF Fills
      <4>2. Tags(filled, dcache', n, d.addr[1])
        BY <1>2, <1>9, <3>3, <3>5, <4>1, CacheLines
      <4>3. dcache' \in CacheType
        BY <4>2 DEF Tags
      <4>4. ASSUME NEW s \in 0 .. Sets - 1
            PROVE  /\ dcache'[s].line = IF s = n THEN d.addr[1] ELSE dcache[s].line
                   /\ \A w \in Words : dcache'[s].data[w] = IF s = n /\ w = d.word THEN v ELSE dcache[s].data[w]
        <5>1. dcache'[s].line = (IF s = n THEN d.addr[1] ELSE filled[s].line) /\ dcache'[s].data = filled[s].data
          BY <4>2 DEF Tags
        <5>2. /\ filled[s].line = dcache[s].line
              /\ \A x \in Words : filled[s].data[x] = IF s = n /\ x = d.word THEN v ELSE dcache[s].data[x]
          BY <3>4 DEF Fills
        <5> QED BY <5>1, <5>2
      <4> QED BY <1>9, <2>2, <3>1, <3>5, <4>3, <4>4 DEF CacheMove, n
    <3>6. CASE d.word # LineWords - 1
      BY <1>9, <2>2, <3>1, <3>3, <3>4, <3>6 DEF CacheMove, Fills, n
    <3> QED BY <3>5, <3>6
  <2> QED BY <2>1, <2>2
<1> QED BY <1>4, <1>6, <1>7, <1>8, <1>9

\* What the program knows after a cycle: a store counts when it is accepted, an SC when
\* it is answered.
RefMove ==
    /\ DOMAIN ref' = DOMAIN ref /\ DOMAIN ref = RamAddrs \cup FbAddrs /\ ScWords' = ScWords
    /\ \A a \in DOMAIN ref :
          ref'[a] = IF Accepts /\ dreq.type = "WRITE" /\ dreq.addr = a THEN dreq.wdata
                    ELSE IF d.fsm = "UNC_WAIT" /\ (ClearDataError \/ GetData) /\ d.type = "SC" /\ d.addr = a
                    THEN d.wdata ELSE ref[a]

\* A step changes the values of the program as RefMove says.
LEMMA RefNext ==
    ASSUME SocInv, NEW g \in BOOLEAN, CycleMoves(g)
    PROVE  RefMove
<1>0. SocTypeOK /\ ProgramMove
  BY DEF SocInv, CycleMoves
<1>1. ref \in [RamAddrs \cup FbAddrs -> Int]
  BY <1>0 DEF SocTypeOK
<1>2. ScWords' = ScWords
  BY <1>0 DEF ScWords, ProgramMove
<1>3. Accepts => d.fsm # "UNC_WAIT"
  BY DEF Accepts, Posts
<1>4. CASE Accepts /\ dreq.type = "WRITE" /\ dreq.addr \in DOMAIN ref
  <2>1. ref' = [ref EXCEPT ![dreq.addr] = dreq.wdata]
    BY <1>0, <1>4 DEF ProgramMove
  <2> QED BY <1>1, <1>2, <1>3, <1>4, <2>1 DEF RefMove
<1>5. CASE /\ ~(Accepts /\ dreq.type = "WRITE" /\ dreq.addr \in DOMAIN ref)
           /\ d.fsm = "UNC_WAIT" /\ (ClearDataError \/ GetData) /\ d.type = "SC" /\ d.addr \in DOMAIN ref
  <2>1. ref' = [ref EXCEPT ![d.addr] = d.wdata]
    BY <1>0, <1>5 DEF ProgramMove
  <2> QED BY <1>1, <1>2, <1>3, <1>5, <2>1 DEF RefMove
<1>6. CASE /\ ~(Accepts /\ dreq.type = "WRITE" /\ dreq.addr \in DOMAIN ref)
           /\ ~(d.fsm = "UNC_WAIT" /\ (ClearDataError \/ GetData) /\ d.type = "SC" /\ d.addr \in DOMAIN ref)
  <2>1. ref' = ref
    BY <1>0, <1>6 DEF ProgramMove
  <2> QED BY <1>1, <1>2, <1>6, <2>1 DEF RefMove
<1> QED BY <1>4, <1>5, <1>6

\* A step keeps CacheAgrees: a line of the data cache has the last values stored.
LEMMA CacheAgreesNext ==
    ASSUME SocInv, NEW g \in BOOLEAN, CycleMoves(g)
    PROVE  CacheAgrees'
<1> DEFINE n == SetOf(d.addr)
           last == d.fsm = "MISS_WAIT" /\ GetData /\ d.word = LineWords - 1
<1>0. /\ SocTypeOK /\ DataRequest /\ MemoryAgrees /\ CacheAgrees /\ FillAgrees /\ DataState
      /\ CacheMove /\ RefMove /\ DataSide
  BY CacheNext, RefNext DEF SocInv, CycleMoves
<1>1. Accepts => d.fsm \in {"IDLE", "WRITE_REQ"}
  BY DEF Accepts, Posts
<1>2. d.fsm # "IDLE" => d.addr \in Addr /\ d.addr[1] \in Nat /\ d.addr[2] \in Words /\ n \in 0 .. Sets - 1
                        /\ d.addr = <<d.addr[1], d.addr[2]>>
  BY HeldRequest, AddrParts, SetIsASet
<1>3. LineWords \in Nat \ {0} /\ d.word \in Nat /\ \A w \in Words : w \in 0 .. LineWords - 1
  BY <1>0, XcacheAssumption DEF SocTypeOK, Words
<1>4. SUFFICES ASSUME NEW s \in 0 .. Sets - 1, dcache'[s].line # NoLine
               PROVE  /\ dcache'[s].line \in Cached /\ dcache'[s].line % Sets = s
                      /\ \A w \in Words :
                            LET a == <<dcache'[s].line, w>>
                            IN  a \in DOMAIN ref /\ a \notin ScWords /\ ~(d'.fsm = "WRITE_UPDT" /\ d'.addr = a)
                                  => dcache'[s].data[w] = ref'[a]
  <2>1. Words' = Words /\ (\A l : (l % Sets)' = l' % Sets) /\ NoLine' = NoLine
    BY DEF Words, NoLine
  <2>2. DOMAIN ref' = DOMAIN ref /\ ScWords' = ScWords
    BY <1>0 DEF RefMove
  <2> QED BY <1>4, <2>1, <2>2 DEF CacheAgrees
<1>5. /\ dcache'[s].line =
            IF s = n /\ d.fsm \in {"MISS_INVAL", "XTN_INVAL"} THEN NoLine
            ELSE IF s = n /\ last THEN d.addr[1] ELSE dcache[s].line
      /\ \A w \in Words : dcache'[s].data[w] =
            IF s = n /\ d.fsm = "WRITE_UPDT" /\ w = d.addr[2] THEN d.wdata
            ELSE IF s = n /\ d.fsm = "MISS_WAIT" /\ GetData /\ w = d.word
            THEN fifo.DATA[1] ELSE dcache[s].data[w]
  BY <1>0 DEF CacheMove
<1>6. GetData => d.fsm \in {"MISS_WAIT", "UNC_WAIT"} /\ fifo.DATA # <<>>
  BY DEF GetData
<1>7. \A a \in DOMAIN ref :
          ref'[a] = IF Accepts /\ dreq.type = "WRITE" /\ dreq.addr = a THEN dreq.wdata
                    ELSE IF d.fsm = "UNC_WAIT" /\ (ClearDataError \/ GetData) /\ d.type = "SC" /\ d.addr = a
                    THEN d.wdata ELSE ref[a]
  BY <1>0 DEF RefMove
<1>8. n = d.addr[1] % Sets
  BY DEF SetOf
<1> HIDE DEF n
<1>9. CASE s = n /\ last
  <2>1. d.fsm = "MISS_WAIT" /\ fifo.DATA # <<>> /\ d.word = LineWords - 1 /\ ~Accepts
    BY <1>1, <1>6, <1>9
  <2>2. dcache'[s].line = d.addr[1]
    BY <1>5, <1>9, <2>1
  <2>3. d.addr[1] \in Cached
    BY <1>0, <2>1 DEF DataRequest, MissStates
  <2>4. ASSUME NEW w \in Words, <<d.addr[1], w>> \in DOMAIN ref
        PROVE  dcache'[s].data[w] = ref'[<<d.addr[1], w>>]
    <3>1. ref'[<<d.addr[1], w>>] = ref[<<d.addr[1], w>>]
      BY <1>7, <2>1, <2>4
    <3>2. CASE w = d.word
      <4>1. fifo.DATA[1] = ref[<<d.addr[1], w>>]
        BY <1>0, <2>1, <2>4, <3>2 DEF FillAgrees
      <4> QED BY <1>5, <1>9, <2>1, <3>1, <3>2, <4>1
    <3>3. CASE w # d.word
      <4>1. w \in 0 .. d.word - 1
        BY <1>3, <2>1, <3>3
      <4>2. dcache[SetOf(d.addr)].data[w] = ref[<<d.addr[1], w>>]
        BY <1>0, <2>1, <2>4, <4>1 DEF FillAgrees
      <4> QED BY <1>5, <1>9, <2>1, <3>1, <3>3, <4>2 DEF n
    <3> QED BY <3>2, <3>3
  <2> QED BY <1>8, <1>9, <2>2, <2>3, <2>4
<1>10. CASE ~(s = n /\ last)
  <2>1. dcache'[s].line = dcache[s].line /\ dcache[s].line # NoLine
        /\ ~(s = n /\ d.fsm \in {"MISS_INVAL", "XTN_INVAL"})
    BY <1>4, <1>5, <1>10
  <2> DEFINE l == dcache[s].line
  <2>2. /\ l \in Cached /\ l % Sets = s
        /\ \A w \in Words : <<l, w>> \in DOMAIN ref /\ <<l, w>> \notin ScWords
                               /\ ~(d.fsm = "WRITE_UPDT" /\ d.addr = <<l, w>>)
              => dcache[s].data[w] = ref[<<l, w>>]
    BY <1>0, <2>1 DEF CacheAgrees
  <2>3. SUFFICES ASSUME NEW w \in Words, <<l, w>> \in DOMAIN ref, <<l, w>> \notin ScWords,
                        ~(d'.fsm = "WRITE_UPDT" /\ d'.addr = <<l, w>>)
                 PROVE  dcache'[s].data[w] = ref'[<<l, w>>]
    BY <2>1, <2>2
  <2> DEFINE a == <<l, w>>
  <2>4. a[1] = l /\ a[2] = w
    OBVIOUS
  <2>5. dcache[s].line = l
    OBVIOUS
  <2> HIDE DEF l
  <2>6. CASE Accepts
    <3>1. dcache'[s].data[w] = dcache[s].data[w]
      BY <1>1, <1>5, <1>6, <2>6
    <3>2. dcache[s].data[w] = ref[a]
      BY <1>1, <2>2, <2>3, <2>6
    <3>3. ~(dreq.type = "WRITE" /\ dreq.addr = a)
      <4>1. SUFFICES ASSUME dreq.type = "WRITE", dreq.addr = a PROVE FALSE
        OBVIOUS
      <4>2. dreq # NoReq
        BY <4>1 DEF NoReq
      <4>3. Cacheable(dreq)
        BY <2>2, <2>4, <4>1 DEF Cacheable
      <4>4. Hit(dcache, dreq.addr)
        BY <2>2, <2>4, <2>5, <4>1 DEF Hit, SetOf
      <4>5. NextDataState = "WRITE_UPDT"
        BY <1>0, <4>1, <4>2, <4>3, <4>4, NextStates
      <4>6. d'.fsm = NextDataState /\ d'.addr = dreq.addr
        BY <1>0, <2>6, <4>2 DEF DataState
      <4> QED BY <2>3, <4>1, <4>5, <4>6
    <3>4. d.fsm # "UNC_WAIT"
      BY <1>1, <2>6
    <3> QED BY <1>7, <2>3, <3>1, <3>2, <3>3, <3>4
  <2>7. CASE d.fsm = "WRITE_UPDT"
    <3>1. ref'[a] = ref[a]
      BY <1>1, <1>7, <2>3, <2>7
    <3>2. dcache[n].line = d.addr[1]
      BY <1>0, <2>7 DEF FillAgrees, Hit, n
    <3>3. CASE d.addr = a
      <4>1. s = n /\ w = d.addr[2]
        BY <1>8, <2>2, <2>4, <3>3
      <4>2. dcache'[s].data[w] = d.wdata
        BY <1>5, <2>7, <4>1
      <4>3. Effective(a) = d.wdata /\ ~ScDone(a)
        BY <2>7, <3>3 DEF Effective, ScDone, WriteStates
      <4>4. a \in RamAddrs \cup FbAddrs
        BY <1>0, <2>3 DEF RefMove
      <4>5. Effective(a) = IF ScDone(a) THEN d.wdata ELSE ref[a]
        BY <1>0, <4>4 DEF MemoryAgrees
      <4> QED BY <3>1, <4>2, <4>3, <4>5
    <3>4. CASE d.addr # a
      <4>1. dcache[s].data[w] = ref[a]
        BY <2>2, <2>3, <3>4
      <4>2. ~(s = n /\ w = d.addr[2])
        BY <1>2, <2>5, <2>7, <3>2, <3>4
      <4> QED BY <1>5, <2>7, <3>1, <4>1, <4>2
    <3> QED BY <3>3, <3>4
  <2>8. CASE d.fsm = "MISS_WAIT"
    <3>1. ref'[a] = ref[a]
      BY <1>1, <1>7, <2>3, <2>8
    <3>2. s # n
      BY <1>0, <2>1, <2>8 DEF FillAgrees, n
    <3> QED BY <1>5, <2>2, <2>3, <2>8, <3>1, <3>2
  <2>9. CASE d.fsm = "UNC_WAIT"
    <3>1. ~(d.type = "SC" /\ d.addr = a)
      <4>1. Held \in prog.data /\ Held.type = d.type /\ Held.addr = d.addr
        BY <1>0, <2>9 DEF DataRequest, Held
      <4> QED BY <2>3, <4>1 DEF ScWords
    <3> QED BY <1>1, <1>5, <1>7, <2>2, <2>3, <2>9, <3>1
  <2>10. CASE ~Accepts /\ d.fsm \notin {"WRITE_UPDT", "MISS_WAIT", "UNC_WAIT"}
    BY <1>5, <1>6, <1>7, <2>2, <2>3, <2>10
  <2> QED BY <2>6, <2>7, <2>8, <2>9, <2>10
<1> QED BY <1>9, <1>10

\* The word that comes for the data cache is the one the program stored last: the write
\* buffer is empty while a read is served.
LEMMA ServedValue ==
    ASSUME SocInv, NEW g \in BOOLEAN, Brings(g), rsp.fsm \in DataReads, NEW a \in RamAddrs \cup FbAddrs,
           rsp.fsm = "DATA_MISS" => a = <<d.addr[1], rsp.cpt>>,
           rsp.fsm = "DATA_UNC" => a = d.addr /\ d.type # "SC"
    PROVE  TargetRsp.data = ref[a]
<1>0. /\ SocTypeOK /\ DataRequest /\ DataSide /\ WriteSide /\ PortAgrees /\ MemoryAgrees
      /\ ServesData /\ ReadCases /\ RspFacts(g)
  BY Serving, ReadsAre, FlitIsExpected DEF SocInv
<1>1. cmd.fsm = "IDLE" /\ ~TargetRsp.error /\ rsp.fsm # "IDLE"
  BY <1>0 DEF RspFacts, Brings, DataReads
<1>2. RamAnswer \/ FbAnswer
  BY <1>0, <1>1 DEF PortAgrees
<1>3. a \in Addr /\ a[1] \in Nat
  BY Addresses, AddrParts
<1>4. /\ ReadAddr = a
      /\ ReadOp \in {"READ", "LL"}
      /\ d.type # "SC" /\ d.fsm \notin WriteStates /\ Waits
      /\ req \cap DataReads = {}
  <2>1. CASE rsp.fsm = "DATA_MISS"
    <3>1. d.fsm \in MissStates /\ "DATA_MISS" \notin req
      BY <1>0, <2>1 DEF ServesData, Served, MissStates
    <3>2. d.type = "READ" /\ "DATA_UNC" \notin req
      BY <1>0, <3>1 DEF DataRequest, DataSide, DataMiss
    <3>3. d.fsm \notin WriteStates /\ Waits
      BY <3>1 DEF MissStates, WriteStates, Waits
    <3> QED BY <1>0, <2>1, <3>1, <3>2, <3>3 DEF ReadCases, DataReads
  <2>2. CASE rsp.fsm = "DATA_UNC"
    <3>1. d.fsm = "UNC_WAIT" /\ "DATA_UNC" \notin req
      BY <1>0, <2>2 DEF ServesData, Served
    <3>2. d.type \in {"READ", "LL", "SC"} /\ "DATA_MISS" \notin req
      BY <1>0, <3>1 DEF DataRequest, DataSide, DataUncached
    <3>3. d.fsm \notin WriteStates /\ Waits
      BY <3>1 DEF WriteStates, Waits
    <3> QED BY <1>0, <2>2, <3>1, <3>2, <3>3 DEF ReadCases, DataReads
  <2> QED BY <2>1, <2>2 DEF DataReads
<1>5. wbuf.line = NoLine
  BY <1>0, <1>4 DEF WriteSide, DataReads
<1>6. Stored_(a) = ref[a]
  <2>1. Effective(a) = Stored_(a)
    BY <1>3, <1>4, <1>5 DEF Effective, Buffered, NoLine
  <2>2. Effective(a) = IF ScDone(a) THEN d.wdata ELSE ref[a]
    BY <1>0 DEF MemoryAgrees
  <2> QED BY <1>4, <2>1, <2>2 DEF ScDone
<1>7. CASE RamAnswer
  <2>1. fb.fsm = "IDLE" /\ ram.addr = a /\ ram.op \in {"READ", "LL"}
    BY <1>4, <1>7 DEF RamAnswer
  <2>2. a \in RamAddrs
    BY <1>0, <1>1, <2>1, TargetFlit
  <2>3. TargetRsp.data = mem[a]
    BY <1>0, <2>1, <2>2, TargetFlit
  <2> QED BY <1>6, <2>2, <2>3 DEF Stored_
<1>8. CASE FbAnswer
  <2>1. rsp.fsm = "DATA_UNC" /\ fb.fsm \in FbAnswers
    BY <1>8 DEF FbAnswer, DataReads
  <2>2. a[1] >= FbLine /\ (FbIndex(a) \in Pixels => fb.fsm = "READ_BUF_RSP")
        /\ (fb.fsm = "READ_BUF_RSP" => fb.index = FbIndex(a))
    BY <1>4, <1>8, <2>1 DEF FbAnswer
  <2>3. a \notin RamAddrs
    <3>1. FbLine \in Nat
      BY SocAssumption
    <3> QED BY <1>3, <2>2, <3>1, Addresses
  <2>4. FbIndex(a) \in Pixels
    BY <2>3, Addresses
  <2>5. TargetRsp.data = surface[FbIndex(a)]
    BY <1>0, <2>1, <2>2, <2>4, TargetFlit
  <2> QED BY <1>6, <2>3, <2>5 DEF Stored_
<1> QED BY <1>2, <1>7, <1>8

\* A step keeps FillAgrees: a line that is being filled has them too.
LEMMA FillAgreesNext ==
    ASSUME SocInv, NEW g \in BOOLEAN, CycleMoves(g)
    PROVE  FillAgrees'
<1> DEFINE n == SetOf(d.addr)
<1>0. /\ SocTypeOK /\ DataRequest /\ DataSide /\ FillAgrees /\ DataState /\ PortAgrees
      /\ CacheMove /\ RefMove /\ FifoMove(g) /\ ServesData /\ RspFacts(g)
  BY CacheNext, RefNext, Serving, FlitIsExpected DEF SocInv, CycleMoves
<1>1. Accepts => d.fsm \in {"IDLE", "WRITE_REQ"}
  BY DEF Accepts, Posts
<1>2. d.fsm # "IDLE" => d.addr \in Addr /\ d.addr[1] \in Nat /\ n \in 0 .. Sets - 1
  BY HeldRequest, AddrParts, SetIsASet
<1>3. LineWords \in Nat \ {0} /\ d.word \in Nat /\ Words = 0 .. LineWords - 1 /\ fifo.DATA \in Seq(Int)
  BY <1>0, XcacheAssumption DEF SocTypeOK, Words
<1>4. Brings(g) => cmd.fsm = "IDLE"
  BY <1>0 DEF Brings, RspFacts
<1>5. fifo'.DATA = IF Brings(g) /\ rsp.fsm \in DataReads THEN <<TargetRsp.data>>
                   ELSE IF GetData THEN <<>> ELSE fifo.DATA
  BY <1>0 DEF FifoMove
<1>6. \A a \in DOMAIN ref :
          ref'[a] = IF Accepts /\ dreq.type = "WRITE" /\ dreq.addr = a THEN dreq.wdata
                    ELSE IF d.fsm = "UNC_WAIT" /\ (ClearDataError \/ GetData) /\ d.type = "SC" /\ d.addr = a
                    THEN d.wdata ELSE ref[a]
  BY <1>0 DEF RefMove
<1>7. DOMAIN ref = RamAddrs \cup FbAddrs /\ DOMAIN ref' = DOMAIN ref
  BY <1>0 DEF RefMove
<1>8. d.fsm \in {"IDLE", "UNC_WAIT", "MISS_SELECT", "MISS_INVAL", "MISS_WAIT", "WRITE_UPDT", "WRITE_REQ", "XTN_HIT", "XTN_INVAL"}
  BY <1>0 DEF SocTypeOK, MissStates, WriteStates, ExternStates
<1>9. Accepts /\ dreq = NoReq => d'.fsm = "IDLE"
  BY <1>0 DEF DataState
<1>10. Accepts /\ dreq # NoReq => d'.fsm = NextDataState /\ d'.addr = dreq.addr
  BY <1>0 DEF DataState
<1>11. ~Accepts => d'.addr = d.addr /\ d'.type = d.type
                   /\ (d'.word = IF d.fsm = "MISS_WAIT" /\ GetData THEN d.word + 1 ELSE d.word)
  BY <1>0 DEF DataState, Keeps
<1>12. ASSUME d'.fsm = "MISS_WAIT"
       PROVE  d.fsm \in {"MISS_SELECT", "MISS_INVAL", "MISS_WAIT"} /\ ~Accepts
  <2>1. CASE Accepts
    BY <1>0, <1>9, <1>10, <1>12, <2>1, NextStates
  <2>2. CASE ~Accepts
    BY <1>0, <1>8, <1>12, <2>2 DEF DataState, Accepts
  <2> QED BY <2>1, <2>2
<1>13. /\ d'.fsm = "MISS_WAIT" =>
            /\ dcache'[SetOf(d'.addr)].line = NoLine
            /\ \A w \in 0 .. d'.word - 1 : <<d'.addr[1], w>> \in DOMAIN ref' =>
                  dcache'[SetOf(d'.addr)].data[w] = ref'[<<d'.addr[1], w>>]
            /\ fifo'.DATA # <<>> /\ <<d'.addr[1], d'.word>> \in DOMAIN ref' =>
                  fifo'.DATA[1] = ref'[<<d'.addr[1], d'.word>>]
  <2>0. SUFFICES ASSUME d'.fsm = "MISS_WAIT"
                 PROVE  /\ dcache'[n].line = NoLine
                        /\ \A w \in 0 .. d'.word - 1 : <<d.addr[1], w>> \in DOMAIN ref =>
                              dcache'[n].data[w] = ref[<<d.addr[1], w>>]
                        /\ fifo'.DATA # <<>> /\ <<d.addr[1], d'.word>> \in DOMAIN ref =>
                              fifo'.DATA[1] = ref[<<d.addr[1], d'.word>>]
    <3>1. ASSUME d'.fsm = "MISS_WAIT" PROVE \A a \in DOMAIN ref : ref'[a] = ref[a]
      BY <1>6, <1>12, <3>1
    <3>2. d'.fsm = "MISS_WAIT" => d'.addr = d.addr
      BY <1>11, <1>12
    <3> QED BY <1>7, <2>0, <3>1, <3>2
  <2>1. d.fsm \in {"MISS_SELECT", "MISS_INVAL", "MISS_WAIT"} /\ ~Accepts
    BY <1>12, <2>0
  <2>2. DataMiss /\ d.word < LineWords
    BY <1>0, <2>1 DEF DataSide, DataMiss, MissStates
  <2>3. n \in 0 .. Sets - 1
    BY <1>2, <2>1
  <2>4. /\ dcache'[n].line =
              IF d.fsm \in {"MISS_INVAL", "XTN_INVAL"} THEN NoLine
              ELSE IF d.fsm = "MISS_WAIT" /\ GetData /\ d.word = LineWords - 1
              THEN d.addr[1] ELSE dcache[n].line
        /\ \A w \in Words : dcache'[n].data[w] =
              IF d.fsm = "WRITE_UPDT" /\ w = d.addr[2] THEN d.wdata
              ELSE IF d.fsm = "MISS_WAIT" /\ GetData /\ w = d.word
              THEN fifo.DATA[1] ELSE dcache[n].data[w]
    BY <1>0, <2>3 DEF CacheMove
  <2>5. CASE d.fsm \in {"MISS_SELECT", "MISS_INVAL"}
    <3>1. d.word = 0 /\ fifo.DATA = <<>> /\ (rsp.fsm \in DataReads => cmd.fsm # "IDLE")
      <4>1. ReadPhase("DATA_MISS", d.word, d.fsm = "MISS_WAIT", "DATA") /\ rsp.fsm # "DATA_UNC"
        BY <2>2 DEF DataMiss
      <4>2. CASE Asked("DATA_MISS", d.word, "DATA")
        BY <4>1, <4>2 DEF Asked, DataReads
      <4>3. CASE Served("DATA_MISS", d.word, d.fsm = "MISS_WAIT", "DATA")
        <5>1. cmd.fsm = "DATA_MISS" /\ d.word + Len(fifo.DATA) = rsp.cpt
          BY <2>5, <4>3 DEF Served
        <5>2. rsp.cpt = 0
          BY <1>0, <5>1 DEF PortAgrees
        <5> DEFINE k == Len(fifo.DATA)
        <5>3. k \in Nat
          BY <1>3
        <5>4. d.word + k = 0
          BY <5>1, <5>2
        <5> HIDE DEF k
        <5>5. d.word = 0 /\ k = 0
          BY <1>3, <5>3, <5>4
        <5>6. fifo.DATA = <<>>
          BY <1>3, <5>5 DEF k
        <5> QED BY <5>1, <5>5, <5>6
      <4>4. ~Arrived("DATA_MISS", d.word, d.fsm = "MISS_WAIT", "DATA") /\ ~Refused("DATA_MISS", d.fsm = "MISS_WAIT", "DATA")
        BY <2>5 DEF Arrived, Refused
      <4> QED BY <4>1, <4>2, <4>3, <4>4 DEF ReadPhase
    <3>2. fifo'.DATA = <<>>
      BY <1>4, <1>5, <3>1
    <3>3. d'.word = 0
      BY <1>11, <2>1, <2>5, <3>1
    <3>4. dcache'[n].line = NoLine
      <4>1. CASE d.fsm = "MISS_INVAL"
        BY <2>4, <4>1
      <4>2. CASE d.fsm = "MISS_SELECT"
        <5>1. dcache[n].line = NoLine
          BY <1>0, <2>0, <4>2 DEF DataState
        <5> QED BY <2>4, <4>2, <5>1
      <4> QED BY <2>5, <4>1, <4>2
    <3> QED BY <3>2, <3>3, <3>4
  <2>6. CASE d.fsm = "MISS_WAIT"
    <3>1. /\ dcache[n].line = NoLine
          /\ \A w \in 0 .. d.word - 1 : <<d.addr[1], w>> \in DOMAIN ref =>
                dcache[n].data[w] = ref[<<d.addr[1], w>>]
          /\ fifo.DATA # <<>> /\ <<d.addr[1], d.word>> \in DOMAIN ref =>
                fifo.DATA[1] = ref[<<d.addr[1], d.word>>]
      BY <1>0, <2>6 DEF FillAgrees
    <3>2. ~(GetData /\ d.word = LineWords - 1)
      BY <1>0, <2>0, <2>6 DEF DataState
    <3>3. dcache'[n].line = NoLine
      BY <2>4, <2>6, <3>1, <3>2
    <3>4. d'.word = IF GetData THEN d.word + 1 ELSE d.word
      BY <1>11, <2>1, <2>6
    <3>5. ASSUME NEW w \in 0 .. d'.word - 1, <<d.addr[1], w>> \in DOMAIN ref
          PROVE  dcache'[n].data[w] = ref[<<d.addr[1], w>>]
      <4>1. w \in Words /\ (w \in 0 .. d.word - 1 \/ (GetData /\ w = d.word))
        BY <1>3, <2>2, <3>4
      <4>2. GetData => fifo.DATA # <<>>
        BY DEF GetData
      <4>3. dcache'[n].data[w] = IF GetData /\ w = d.word THEN fifo.DATA[1] ELSE dcache[n].data[w]
        BY <2>4, <2>6, <4>1
      <4> QED BY <3>1, <3>5, <4>1, <4>2, <4>3
    <3>6. ASSUME fifo'.DATA # <<>>, <<d.addr[1], d'.word>> \in DOMAIN ref
          PROVE  fifo'.DATA[1] = ref[<<d.addr[1], d'.word>>]
      <4>1. CASE Brings(g) /\ rsp.fsm \in DataReads
        <5>1. rsp.fsm = "DATA_MISS" /\ Served("DATA_MISS", d.word, d.fsm = "MISS_WAIT", "DATA")
          BY <1>0, <2>2, <4>1 DEF DataMiss, DataReads, ServesData
        <5>2. d.word + Len(fifo.DATA) = rsp.cpt /\ Len(fifo.DATA) <= 1 /\ "DATA" \notin rsp.error
          BY <5>1 DEF Served
        <5>3. GetData <=> fifo.DATA # <<>>
          BY <2>6, <5>2 DEF GetData
        <5>4. rsp.cpt = d'.word
          <6>1. CASE fifo.DATA = <<>>
            <7>1. Len(fifo.DATA) = 0
              BY <6>1
            <7> QED BY <1>3, <3>4, <5>2, <5>3, <6>1, <7>1
          <6>2. CASE fifo.DATA # <<>>
            <7> DEFINE k == Len(fifo.DATA)
            <7>0. k \in Nat /\ k # 0 /\ k <= 1
              BY <1>3, <5>2, <6>2
            <7> HIDE DEF k
            <7>a. k = 1
              BY <7>0
            <7>1. Len(fifo.DATA) = 1
              BY <7>a DEF k
            <7> QED BY <3>4, <5>2, <5>3, <6>2, <7>1
          <6> QED BY <6>1, <6>2
        <5>5. TargetRsp.data = ref[<<d.addr[1], d'.word>>]
          BY <1>7, <3>6, <4>1, <5>1, <5>4, ServedValue
        <5>6. fifo'.DATA[1] = TargetRsp.data
          BY <1>5, <4>1
        <5> QED BY <5>5, <5>6
      <4>2. CASE ~(Brings(g) /\ rsp.fsm \in DataReads)
        <5>1. ~GetData /\ fifo'.DATA = fifo.DATA
          BY <1>5, <3>6, <4>2
        <5> QED BY <3>1, <3>4, <3>6, <5>1
      <4> QED BY <4>1, <4>2
    <3> QED BY <3>3, <3>5, <3>6
  <2> QED BY <2>1, <2>5, <2>6
<1>14. ASSUME d'.fsm = "WRITE_UPDT" PROVE dcache'[SetOf(d'.addr)].line = d'.addr[1]
  <2>1. Accepts /\ dreq # NoReq
    <3>1. CASE ~Accepts
      BY <1>0, <1>8, <1>14, <3>1 DEF DataState, Accepts
    <3> QED BY <1>9, <1>14, <3>1
  <2>2. NextDataState = "WRITE_UPDT" /\ d'.addr = dreq.addr
    BY <1>10, <1>14, <2>1
  <2>3. dreq \in Request /\ dreq.type = "WRITE" /\ Hit(dcache, dreq.addr)
    <3>1. NextDataState \in WriteStates
      BY <2>2 DEF WriteStates
    <3>2. dreq \in Request /\ dreq.type = "WRITE"
      BY <1>0, <2>1, <3>1, NextStates
    <3> QED BY <1>0, <2>1, <2>2, <3>2, NextStates
  <2>4. dreq.addr \in Addr
    BY <2>3 DEF Request, Addr
  <2>5. SetOf(dreq.addr) \in 0 .. Sets - 1
    BY <2>4, AddrParts, SetIsASet
  <2>6. dcache'[SetOf(dreq.addr)].line = dcache[SetOf(dreq.addr)].line
    BY <1>0, <1>1, <2>1, <2>5 DEF CacheMove
  <2> QED BY <2>2, <2>3, <2>6 DEF Hit
<1>15. ASSUME d'.fsm = "UNC_WAIT", d'.type # "SC", fifo'.DATA # <<>>, d'.addr \in DOMAIN ref
       PROVE  fifo'.DATA[1] = ref'[d'.addr]
  <2>1. d.fsm = "UNC_WAIT" /\ ~Accepts
    <3>1. CASE Accepts
      <4>1. NoRead(DataReads, "DATA")
        BY <1>0, <1>1, <3>1 DEF DataSide, Waits, MissStates
      <4> QED BY <1>5, <1>15, <4>1 DEF NoRead
    <3>2. CASE ~Accepts
      BY <1>0, <1>8, <1>15, <3>2 DEF DataState, Accepts
    <3> QED BY <3>1, <3>2
  <2>2. d'.addr = d.addr /\ d.type # "SC"
    BY <1>11, <1>15, <2>1
  <2>3. ref'[d.addr] = ref[d.addr]
    BY <1>6, <1>15, <2>1, <2>2
  <2>4. CASE Brings(g) /\ rsp.fsm \in DataReads
    <3>1. rsp.fsm = "DATA_UNC"
      BY <1>0, <2>1, <2>4 DEF DataSide, DataUncached, DataReads
    <3>2. TargetRsp.data = ref[d.addr]
      BY <1>7, <1>15, <2>2, <2>4, <3>1, ServedValue
    <3>3. fifo'.DATA[1] = TargetRsp.data
      BY <1>5, <2>4
    <3> QED BY <2>2, <2>3, <3>2, <3>3
  <2>5. CASE ~(Brings(g) /\ rsp.fsm \in DataReads)
    <3>1. fifo'.DATA = fifo.DATA
      BY <1>5, <1>15, <2>5
    <3> QED BY <1>0, <1>15, <2>1, <2>2, <2>3, <3>1 DEF FillAgrees
  <2> QED BY <2>4, <2>5
<1> QED BY <1>7, <1>13, <1>14, <1>15 DEF FillAgrees, Hit, SetOf, NoLine

-----------------------------------------------------------------------------
(***************************************************************************)
(* The type invariant.                                                     *)
(***************************************************************************)
BufferType(b) ==
    /\ b = [line |-> b.line, data |-> b.data] /\ b.line \in Int
    /\ DOMAIN b.data \subseteq Words /\ b.data \in [DOMAIN b.data -> Int]

\* The type of the write buffer.
LEMMA BufferNext ==
    ASSUME SocInv, NEW g \in BOOLEAN, CycleMoves(g)
    PROVE  BufferType(wbuf')
<1>0. SocTypeOK /\ WbufMove(g)
  BY DEF SocInv, CycleMoves
<1>1. BufferType(wbuf)
  BY <1>0 DEF SocTypeOK, BufferType
<1>2. BufferType(EmptyWbuf)
  BY DEF BufferType, EmptyWbuf, NoLine
<1>3. ASSUME Posts PROVE BufferType(Posted)
  <2>1. d.fsm # "IDLE"
    BY <1>3 DEF Posts
  <2>2. d.addr \in Addr /\ d.wdata \in Int
    BY <2>1, HeldRequest
  <2>3. d.addr[1] \in Int /\ d.addr[2] \in Words
    BY <2>2, AddrParts
  <2> DEFINE W == DOMAIN wbuf.data \cup {d.addr[2]}
             h == [w \in W |-> IF w = d.addr[2] THEN d.wdata ELSE wbuf.data[w]]
  <2>4. W \subseteq Words /\ h \in [W -> Int] /\ DOMAIN h = W
    BY <1>1, <2>2, <2>3 DEF BufferType
  <2>5. Posted = [line |-> d.addr[1], data |-> h]
    BY DEF Posted
  <2> HIDE DEF h, W
  <2> QED BY <2>3, <2>4, <2>5 DEF BufferType
<1> QED BY <1>0, <1>1, <1>2, <1>3 DEF WbufMove

CommandType == [fsm : Transactions \cup {"IDLE"}, cpt : Int, max : Int]

\* The type of the registers of the command automaton.
LEMMA CommandTypeNext ==
    ASSUME SocInv, NEW g \in BOOLEAN, CycleMoves(g)
    PROVE  cmd' \in CommandType
<1>0. SocTypeOK /\ CmdMove(g) /\ WriteSide
  BY DEF SocInv, CycleMoves
<1>1. cmd \in CommandType
  BY <1>0 DEF SocTypeOK, CommandType
<1>2. CASE Start
  <2> DEFINE lo == IF First(req) = "DATA_WRITE" THEN MinWord(DOMAIN wbuf.data) ELSE 0
             hi == IF First(req) = "DATA_WRITE" THEN MaxWord(DOMAIN wbuf.data) ELSE 0
  <2>1. First(req) \in req /\ First(req) \in Transactions
    BY <1>2, StartFacts
  <2>2. lo \in Int /\ hi \in Int
    <3>1. CASE First(req) = "DATA_WRITE"
      <4>1. DOMAIN wbuf.data \in SUBSET Words /\ DOMAIN wbuf.data # {}
        BY <1>0, <2>1, <3>1 DEF WriteSide, SocTypeOK
      <4>2. MinWord(DOMAIN wbuf.data) \in Words /\ MaxWord(DOMAIN wbuf.data) \in Words
        BY <4>1, WordBounds
      <4>3. \A w \in Words : w \in Int
        BY XcacheAssumption DEF Words
      <4> QED BY <3>1, <4>2, <4>3
    <3>2. CASE First(req) # "DATA_WRITE"
      BY <3>2
    <3> QED BY <3>1, <3>2
  <2>3. cmd' = [fsm |-> First(req), cpt |-> lo, max |-> hi]
    BY <1>0, <1>2 DEF CmdMove
  <2> HIDE DEF lo, hi
  <2> QED BY <2>1, <2>2, <2>3 DEF CommandType
<1>3. CASE ~Start
  <2>1. cmd' = cmd \/ cmd' = [cmd EXCEPT !.fsm = "IDLE"] \/ cmd' = [cmd EXCEPT !.cpt = @ + 1]
    BY <1>0, <1>3 DEF CmdMove
  <2> QED BY <1>1, <2>1 DEF CommandType
<1> QED BY <1>2, <1>3

\* The type of the registers of the response automaton.
LEMMA ResponseTypeNext ==
    ASSUME SocInv, NEW g \in BOOLEAN, CycleMoves(g)
    PROVE  rsp' \in [fsm : Transactions \cup {"IDLE"}, cpt : Nat, error : SUBSET {"DATA", "INS"}]
<1>0. SocTypeOK /\ RspMove(g)
  BY DEF SocInv, CycleMoves
<1>1. rsp.fsm \in Transactions \cup {"IDLE"} /\ rsp.cpt \in Nat
  BY <1>0 DEF SocTypeOK
<1>2. rsp'.fsm \in Transactions \cup {"IDLE"}
  BY <1>0, <1>1, StartFacts DEF RspMove
<1>3. rsp'.cpt \in Nat
  BY <1>0, <1>1 DEF RspMove
<1>4. rsp' = [fsm |-> rsp'.fsm, cpt |-> rsp'.cpt, error |-> rsp'.error] /\ rsp'.error \in SUBSET {"DATA", "INS"}
  BY <1>0 DEF RspMove
<1> QED BY <1>2, <1>3, <1>4

\* The types of the registers and of the words of the two targets.
LEMMA TargetTypesNext ==
    ASSUME SocInv, NEW g \in BOOLEAN, CycleMoves(g)
    PROVE  ram' \in RamType /\ fb' \in FbType /\ mem' \in [RamAddrs -> Int] /\ surface' \in [Pixels -> Int]
<1>0. SocTypeOK /\ PortAgrees /\ RspFacts(g)
  BY FlitIsExpected DEF SocInv
<1>1. ram \in RamType /\ fb \in FbType /\ mem \in [RamAddrs -> Int] /\ surface \in [Pixels -> Int]
  BY <1>0 DEF SocTypeOK, RamType, FbType
<1>2. CASE ~Passes(g) /\ ~Answered(g)
  BY <1>1, <1>2 DEF CycleMoves, TargetsStay
<1>3. CASE Passes(g)
  <2>1. TargetsTake /\ CommandFacts(VciCmd)
    BY <1>3, Commands DEF CycleMoves, Passes
  <2>2. VciCmd.data \in Int
    BY <2>1 DEF CommandFacts
  <2>3. CASE ToFb(VciCmd)
    <3> DEFINE f == FbFlit(VciCmd, TRUE)
    <3>1. ram' = ram /\ mem' = mem /\ FrameBufferTakes(f)
      BY <2>1, <2>3 DEF TargetsTake
    <3>2. f.data \in Int
      BY <2>2 DEF FbFlit
    <3> HIDE DEF f
    <3>3. fb' \in FbType /\ surface' = IF f.index \in Pixels /\ f.op = "WRITE" THEN write_fb(f) ELSE surface
      BY <3>1 DEF FrameBufferTakes
    <3>4. surface' \in [Pixels -> Int]
      BY <1>1, <3>2, <3>3 DEF write_fb
    <3> QED BY <1>1, <3>1, <3>3, <3>4
  <2>4. CASE ~ToFb(VciCmd)
    <3>1. /\ fb' = fb /\ surface' = surface /\ ram' \in RamType
          /\ mem' = IF VciCmd.op \in {"WRITE", "SC"} /\ VciCmd.be /\ VciCmd.addr \in RamAddrs
                    THEN [mem EXCEPT ![VciCmd.addr] = VciCmd.data] ELSE mem
      BY <2>1, <2>4 DEF TargetsTake
    <3> QED BY <1>1, <2>2, <3>1
  <2> QED BY <2>3, <2>4
<1>4. CASE Answered(g)
  <2>1. TargetsAnswer
    BY <1>4 DEF CycleMoves
  <2>2. fb.fsm \in FbAnswers \/ fb.fsm = "IDLE"
    BY <1>1 DEF FbType
  <2> QED BY <1>1, <2>1, <2>2 DEF TargetsAnswer
<1> QED BY <1>2, <1>3, <1>4

\* A step keeps the type invariant.
LEMMA SocTypeNext ==
    ASSUME SocInv, NEW g \in BOOLEAN, CycleMoves(g)
    PROVE  SocTypeOK'
<1>0. /\ SocTypeOK /\ ProgramMove /\ d' \in DataType /\ i' \in InsType /\ ReqMove(g) /\ FifoMove(g)
  BY DEF SocInv, CycleMoves
<1>1. Addr' = Addr /\ CacheType' = CacheType /\ Words' = Words /\ RamAddrs' = RamAddrs /\ FbAddrs' = FbAddrs
      /\ Pixels' = Pixels
  BY DEF Addr, CacheType, Words, RamAddrs, FbAddrs, FbIndex, Pixels
<1>2. prog' \in Programs /\ dreq' \in prog'.data \cup {NoReq} /\ (ireq' # NoReq => ireq'.addr \in Addr)
  BY <1>0 DEF ProgramMove, SocTypeOK
<1>3. dcache' \in CacheType
  BY CacheNext DEF CacheMove
<1>4. BufferType(wbuf')
  BY BufferNext
<1>5. cmd' \in CommandType
  BY CommandTypeNext
<1>6. rsp' \in [fsm : Transactions \cup {"IDLE"}, cpt : Nat, error : SUBSET {"DATA", "INS"}]
  BY ResponseTypeNext
<1>7. ram' \in RamType /\ fb' \in FbType /\ mem' \in [RamAddrs -> Int] /\ surface' \in [Pixels -> Int]
  BY TargetTypesNext
<1>8. req' \subseteq Transactions /\ fifo' \in [DATA : Seq(Int), INS : Seq(Int)]
  BY <1>0 DEF ReqMove, FifoMove
<1>9. ref' \in [RamAddrs \cup FbAddrs -> Int]
  <2>1. ref \in [RamAddrs \cup FbAddrs -> Int] /\ d.wdata \in Int
    BY <1>0 DEF SocTypeOK
  <2>2. dreq.wdata \in Int
    <3>1. CASE dreq = NoReq
      BY <3>1 DEF NoReq
    <3>2. CASE dreq # NoReq
      BY <1>0, <3>2, NextStates DEF Request
    <3> QED BY <3>1, <3>2
  <2>3. ref' = ref \/ ref' = [ref EXCEPT ![dreq.addr] = dreq.wdata] \/ ref' = [ref EXCEPT ![d.addr] = d.wdata]
    BY <1>0 DEF ProgramMove
  <2> QED BY <2>1, <2>2, <2>3
<1> QED BY <1>0, <1>1, <1>2, <1>3, <1>4, <1>5, <1>6, <1>7, <1>8, <1>9
    DEF SocTypeOK, NoReq, NoLine, DataType, InsType, BufferType, CommandType, RamType, FbType,
        Transactions, MissStates, WriteStates, ExternStates, FbAnswers

-----------------------------------------------------------------------------
(***************************************************************************)
(* The invariant holds.                                                    *)
(***************************************************************************)
\* The invariant holds when the reset ends.
LEMMA SocStart == SocInit => SocInv
<1> SUFFICES ASSUME SocInit PROVE SocInv
  OBVIOUS
<1>0. LineWords \in Nat \ {0} /\ Sets \in Nat \ {0}
  BY XcacheAssumption
<1>1. /\ dreq = NoReq /\ ireq = NoReq
      /\ d = [fsm |-> "IDLE", word |-> 0, cacheable |-> FALSE, type |-> "NONE", addr |-> <<-1, 0>>, wdata |-> 0, be |-> 4]
      /\ i = [fsm |-> "IDLE", word |-> 0, addr |-> <<-1, 0>>]
      /\ dcache = EmptyCache /\ wbuf = EmptyWbuf /\ req = {}
      /\ cmd = [fsm |-> "IDLE", cpt |-> 0, max |-> 0]
      /\ rsp = [fsm |-> "IDLE", cpt |-> 0, error |-> {}]
      /\ fifo = [DATA |-> <<>>, INS |-> <<>>]
  BY DEF SocInit, XcacheInit, DataRegs, NoReq, NoLine
<1>2. /\ ram = [fsm |-> "IDLE", addr |-> <<-1, 0>>, op |-> "READ", left |-> 0]
      /\ fb = [fsm |-> "IDLE", index |-> 0, count |-> 0, data |-> 0]
      /\ mem = [a \in RamAddrs |-> 0] /\ surface = [p \in Pixels |-> 0]
      /\ ref = [a \in RamAddrs \cup FbAddrs |-> 0] /\ prog \in Programs
  BY DEF SocInit, FbInit, NoReq, NoLine
<1>3. dcache \in CacheType /\ \A s \in 0 .. Sets - 1 : dcache[s].line = NoLine
  BY <1>1 DEF EmptyCache, CacheType, NoLine
<1>4. wbuf.line = NoLine /\ DOMAIN wbuf.data = {} /\ BufferType(wbuf)
  BY <1>1 DEF EmptyWbuf, BufferType, NoLine
<1>5. SocTypeOK
  <2>1. /\ d \in DataType /\ i \in InsType
        /\ cmd \in CommandType /\ ram \in RamType /\ fb \in FbType
    BY <1>1, <1>2 DEF DataType, InsType, CommandType, RamType, FbType
  <2>2. rsp \in [fsm : Transactions \cup {"IDLE"}, cpt : Nat, error : SUBSET {"DATA", "INS"}]
    BY <1>1
  <2>3. fifo \in [DATA : Seq(Int), INS : Seq(Int)] /\ req \subseteq Transactions
    BY <1>1
  <2>4. mem \in [RamAddrs -> Int] /\ surface \in [Pixels -> Int] /\ ref \in [RamAddrs \cup FbAddrs -> Int]
    BY <1>2
  <2> QED BY <1>1, <1>2, <1>3, <1>4, <2>1, <2>2, <2>3, <2>4
          DEF SocTypeOK, DataType, InsType, CommandType, RamType, FbType, BufferType
<1>6. d.fsm = "IDLE" /\ i.fsm = "IDLE" /\ cmd.fsm = "IDLE" /\ rsp.fsm = "IDLE" /\ rsp.error = {}
      /\ fifo["DATA"] = <<>> /\ fifo["INS"] = <<>> /\ ram.fsm = "IDLE" /\ fb.fsm = "IDLE"
  BY <1>1, <1>2
<1>7. ~Waits /\ d.fsm \notin MissStates \cup WriteStates \cup ExternStates /\ i.fsm \notin MissStates
  BY <1>6 DEF Waits, MissStates, WriteStates, ExternStates
<1>8. DataRequest
  BY <1>6, <1>7 DEF DataRequest
<1>9. DataSide /\ InsSide
  BY <1>1, <1>6, <1>7 DEF DataSide, InsSide, NoRead, DataReads, InsReads
<1>10. WriteSide
  BY <1>1, <1>4, <1>6, <1>7 DEF WriteSide
<1>11. PortAgrees
  BY <1>6 DEF PortAgrees
<1>12. MemoryAgrees
  <2>1. SUFFICES ASSUME NEW a \in RamAddrs \cup FbAddrs
                 PROVE  Effective(a) = IF ScDone(a) THEN d.wdata ELSE ref[a]
    BY <1>6 DEF MemoryAgrees
  <2>2. Effective(a) = Stored_(a) /\ ~ScDone(a)
    BY <1>4, <1>6, <1>7 DEF Effective, Buffered, ScDone
  <2>3. Stored_(a) = 0
    BY <1>2, Addresses DEF Stored_
  <2>4. ref[a] = 0
    BY <1>2
  <2> QED BY <2>2, <2>3, <2>4
<1>13. CacheAgrees
  BY <1>3 DEF CacheAgrees
<1>14. FillAgrees
  BY <1>6 DEF FillAgrees
<1> QED BY <1>5, <1>8, <1>9, <1>10, <1>11, <1>12, <1>13, <1>14 DEF SocInv

\* The invariant does not depend on what the steps of other components change.
LEMMA SocStutter ==
    ASSUME SocInv, UNCHANGED socvars
    PROVE  SocInv'
<1>1. UNCHANGED <<dreq, ireq, d, i, dcache, icache, wbuf, req, cmd, rsp, fifo>>
      /\ UNCHANGED <<fb, surface, ram, mem, ref, prog>>
  BY DEF socvars, xvars, fbvars
<1>2. Words' = Words /\ RamAddrs' = RamAddrs /\ FbAddrs' = FbAddrs /\ Pixels' = Pixels /\ CacheType' = CacheType
      /\ Addr' = Addr /\ NoReq' = NoReq
  BY DEF Words, RamAddrs, FbAddrs, FbIndex, Pixels, CacheType, Addr, NoReq, NoLine
<1>3. SocTypeOK'
  <2>0. SocTypeOK
    BY DEF SocInv
  <2>1. prog' \in Programs /\ dreq' \in prog'.data \cup {NoReq} /\ (ireq' # NoReq => ireq'.addr \in Addr)
    BY <1>1, <2>0 DEF SocTypeOK
  <2>2. d' \in DataType /\ i' \in InsType /\ dcache' \in CacheType
    BY <1>1, <2>0 DEF SocTypeOK, DataType, InsType
  <2>3. BufferType(wbuf')
    BY <1>1, <2>0 DEF SocTypeOK, BufferType
  <2>4. /\ cmd' \in CommandType /\ ram' \in RamType /\ fb' \in FbType
        /\ rsp' \in [fsm : Transactions \cup {"IDLE"}, cpt : Nat, error : SUBSET {"DATA", "INS"}]
    BY <1>1, <2>0 DEF SocTypeOK, CommandType, RamType, FbType
  <2>5. /\ mem' \in [RamAddrs -> Int] /\ surface' \in [Pixels -> Int] /\ ref' \in [RamAddrs \cup FbAddrs -> Int]
        /\ req' \subseteq Transactions /\ fifo' \in [DATA : Seq(Int), INS : Seq(Int)]
    BY <1>1, <2>0 DEF SocTypeOK
  <2> QED BY <1>2, <2>1, <2>2, <2>3, <2>4, <2>5
          DEF SocTypeOK, NoReq, NoLine, DataType, InsType, BufferType, CommandType, RamType, FbType,
              Transactions, MissStates, WriteStates, ExternStates, FbAnswers
<1>4. Held' = Held /\ Waits' = Waits
  BY <1>1 DEF Held, Waits
<1>5. DataRequest'
  BY <1>1, <1>4 DEF SocInv, DataRequest
<1>6. DataSide'
  BY <1>1, <1>4 DEF SocInv, DataSide, DataMiss, DataUncached, ReadPhase, Asked, Served, Arrived, Refused, NoRead
<1>7. InsSide'
  BY <1>1, <1>2 DEF SocInv, InsSide, InstructionMiss, InstructionUncached, ReadPhase, Asked, Served, Arrived, Refused, NoRead
<1>8. WriteSide'
  BY <1>1, <1>4 DEF SocInv, WriteSide
<1>9. ReadAddr' = ReadAddr /\ ReadOp' = ReadOp
  BY <1>1 DEF ReadAddr, ReadOp
<1>10. RamAnswer' = RamAnswer /\ FbAnswer' = FbAnswer
  BY <1>1, <1>2, <1>9 DEF RamAnswer, FbAnswer, FbIndex
<1>11. PortAgrees'
  BY <1>1, <1>10 DEF SocInv, PortAgrees
<1>12. \A a : Effective(a)' = Effective(a) /\ ScDone(a)' = ScDone(a) /\ Stored_(a)' = Stored_(a) /\ Buffered(a)' = Buffered(a)
  BY <1>1, <1>2 DEF Effective, Buffered, Stored_, ScDone, FbIndex
<1>13. MemoryAgrees'
  BY <1>1, <1>2, <1>12 DEF SocInv, MemoryAgrees
<1>14. CacheAgrees'
  BY <1>1, <1>2 DEF SocInv, CacheAgrees, ScWords
<1>15. FillAgrees'
  BY <1>1 DEF SocInv, FillAgrees, Hit, SetOf
<1> QED BY <1>3, <1>5, <1>6, <1>7, <1>8, <1>11, <1>13, <1>14, <1>15 DEF SocInv

\* Every step keeps the invariant.
LEMMA SocInvNext == SocInv /\ [SocNext]_socvars => SocInv'
<1>1. ASSUME SocInv, SocNext PROVE SocInv'
  <2>1. PICK g \in BOOLEAN : SocStep(g)
    BY <1>1 DEF SocNext
  <2>2. CycleMoves(g)
    BY <1>1, <2>1, StepMoves
  <2>3. SocTypeOK'
    BY <1>1, <2>2, SocTypeNext
  <2>4. DataRequest' /\ DataSide' /\ InsSide' /\ WriteSide'
    BY <1>1, <2>2, DataRequestNext, DataSideNext, InsSideNext, WriteSideNext
  <2>5. PortAgrees' /\ MemoryAgrees'
    BY <1>1, <2>2, PortAgreesNext, MemoryAgreesNext
  <2>6. CacheAgrees' /\ FillAgrees'
    BY <1>1, <2>2, CacheAgreesNext, FillAgreesNext
  <2> QED BY <2>3, <2>4, <2>5, <2>6 DEF SocInv
<1> QED BY <1>1, SocStutter

\* The caches, the write buffer, the port and the targets stay in agreement with each
\* other and with the program in every cycle (transition(), all the automata).
THEOREM SocInvariant == SocSpec => []SocInv
  BY SocStart, SocInvNext, PTL DEF SocSpec

\* No flit of a response surprises the response automaton, and none is lost because a
\* fifo is full, although the port acknowledges every flit (rspack).
THEOREM ResponsesExpected == SocSpec => []ResponsesAreExpected
<1>1. ASSUME SocInv PROVE ResponsesAreExpected
  <2>0. RspFacts(TRUE) /\ SocTypeOK /\ ShortFifos /\ ServesData /\ ServesIns
    BY <1>1, FlitIsExpected, FifosAreShort, Serving DEF SocInv
  <2>1. SUFFICES ASSUME TargetRsp.val
                 PROVE  /\ rsp.fsm # "IDLE"
                        /\ rsp.fsm \in {"INS_UNC", "DATA_UNC"} => TargetRsp.eop
                        /\ (rsp.fsm \in {"INS_MISS", "DATA_MISS"} /\ ~TargetRsp.error) =>
                              rsp.cpt < LineWords /\ (TargetRsp.eop <=> rsp.cpt = LineWords - 1)
                        /\ (rsp.fsm # "DATA_WRITE" /\ ~TargetRsp.error) => Len(fifo[Side]) < 2
    BY DEF ResponsesAreExpected, Expected
  <2>2. Answered(TRUE)
    BY <2>0, <2>1, TargetFlit DEF Answered
  <2>3. /\ rsp.fsm \in Transactions
        /\ rsp.fsm \notin Misses => TargetRsp.eop
        /\ rsp.fsm \in Misses /\ ~TargetRsp.error => (TargetRsp.eop <=> rsp.cpt = LineWords - 1)
        /\ rsp.fsm # "DATA_WRITE" => Len(fifo[Side]) <= 1 /\ rsp.cpt < LineWords
    BY <2>0, <2>2 DEF RspFacts
  <2>4. Side \in {"DATA", "INS"} /\ fifo["DATA"] \in Seq(Int) /\ fifo["INS"] \in Seq(Int)
    BY <2>0 DEF Side, SocTypeOK
  <2>5. Len(fifo[Side]) \in Nat
    BY <2>4
  <2>6. Len(fifo[Side]) <= 1 => Len(fifo[Side]) < 2
    BY <2>5
  <2> QED BY <2>3, <2>6 DEF Misses, Transactions
<1>2. SocInv => ResponsesAreExpected
  BY <1>1
<1> QED BY <1>2, SocInvariant, PTL

\* A load of the processor gives the value of the last store of the program, in the
\* cache or not, with older stores in the write buffer or none.
THEOREM LoadsSee == SocSpec => []LoadsSeeTheLastStore
<1>1. ASSUME SocInv PROVE LoadsSeeTheLastStore
  <2>0. SocTypeOK /\ DataRequest /\ CacheAgrees /\ FillAgrees /\ prog \in Programs
    BY <1>1 DEF SocInv, SocTypeOK
  <2>1. SUFFICES ASSUME DRsp.valid, ~DRsp.error, dreq.type \in {"READ", "LL"}, dreq.addr \in DOMAIN ref
                 PROVE  DRsp.rdata = ref[dreq.addr]
    BY DEF LoadsSeeTheLastStore
  <2>2. Replies /\ ~ClearDataError
    BY <1>1, <2>1, Answers
  <2>3. CASE Accepts
    <3>1. d.fsm \in {"IDLE", "WRITE_REQ"}
      BY <2>3 DEF Accepts, Posts
    <3>2. dreq.type = "READ" /\ Cacheable(dreq) /\ Hit(dcache, dreq.addr)
      BY <2>1, <2>2, <3>1 DEF Replies
    <3>3. DRsp.rdata = Read(dcache, dreq.addr)
      BY <1>1, <2>1, <2>3, <3>2, Answers
    <3>4. dreq # NoReq
      BY <3>2 DEF NoReq
    <3>5. dreq \in prog.data /\ dreq.addr \in Addr
      BY <2>0, <3>4, NextStates DEF Request, Addr
    <3> DEFINE s == SetOf(dreq.addr)
    <3>6. dreq.addr[1] \in Nat /\ dreq.addr[2] \in Words /\ dreq.addr = <<dreq.addr[1], dreq.addr[2]>>
      BY <3>5, AddrParts
    <3>7. s \in 0 .. Sets - 1 /\ dcache[s].line = dreq.addr[1]
      BY <3>2, <3>6, SetIsASet DEF Hit
    <3>8. dreq.addr \notin ScWords
      <4>1. ASSUME NEW r \in prog.data, r.type = "SC", r.addr = dreq.addr PROVE FALSE
        BY <2>0, <3>2, <3>5, <4>1, ProgramsAssumption DEF Cacheable
      <4> QED BY <4>1 DEF ScWords
    <3>9. dcache[s].line # NoLine
      BY <3>6, <3>7 DEF NoLine
    <3> HIDE DEF s
    <3>10. dcache[s].data[dreq.addr[2]] = ref[<<dreq.addr[1], dreq.addr[2]>>]
      BY <2>0, <2>1, <3>1, <3>6, <3>7, <3>8, <3>9 DEF CacheAgrees
    <3> QED BY <3>3, <3>6, <3>10 DEF Read, s
  <2>4. CASE ~Accepts
    <3>1. d.fsm = "UNC_WAIT"
      <4>1. d.fsm \in ExternStates => dreq.type = "INVAL"
        BY <2>0 DEF DataRequest, Held
      <4> QED BY <2>1, <2>2, <2>4, <4>1 DEF Replies, ExternStates
    <3>2. GetData /\ DRsp.rdata = Head(fifo.DATA)
      BY <1>1, <2>1, <3>1, Answers
    <3>3. dreq.addr = d.addr /\ dreq.type = d.type
      BY <2>0, <3>1 DEF DataRequest, Held, Waits
    <3>4. fifo.DATA # <<>> /\ fifo.DATA \in Seq(Int)
      BY <2>0, <3>2 DEF GetData, SocTypeOK
    <3>5. Head(fifo.DATA) = fifo.DATA[1]
      BY <3>4
    <3>6. fifo.DATA[1] = ref[d.addr]
      BY <2>0, <2>1, <3>1, <3>3, <3>4 DEF FillAgrees
    <3> QED BY <3>2, <3>3, <3>5, <3>6
  <2> QED BY <2>3, <2>4
<1>2. SocInv => LoadsSeeTheLastStore
  BY <1>1
<1> QED BY <1>2, SocInvariant, PTL

=============================================================================
