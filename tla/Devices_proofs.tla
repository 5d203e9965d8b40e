---------------------------- MODULE Devices_proofs ----------------------------
(***************************************************************************)
(* Proofs about the drivers, for any size of disk, buffer and block, any   *)
(* depth of the fifo, any number of threads and any device tree: transfers *)
(* are complete, characters keep their order, devices have one name, an    *)
(* interrupt finds its device and user copies avoid the kernel.            *)
(***************************************************************************)
EXTENDS BlockDev, Terminal, Platform, FiniteSetTheorems, SequenceTheorems, WellFoundedInduction, TLAPS

-----------------------------------------------------------------------------
(***************************************************************************)
(* The block device.                                                       *)
(***************************************************************************)
USE BlockDevAssumption

\* Blocks that are counted with a division fit when they are multiplied back.
LEMMA WholeBlocksFit ==
    ASSUME NEW a \in Nat, NEW b \in Nat \ {0}, NEW x \in Nat, x <= a \div b
    PROVE  x * b \in Nat /\ x * b <= a
OBVIOUS

LEMMA BlocksInUnits ==
    ASSUME NEW lba \in Nat, NEW count \in Nat
    PROVE  /\ lba * Ppb \in Nat /\ count * Ppb \in Nat
           /\ (lba + count) * Ppb = lba * Ppb + count * Ppb
           /\ count > 0 => count * Ppb > 0
OBVIOUS

BdTypeOK ==
    /\ disk \in [0 .. DiskSize - 1 -> Int]
    /\ buf \in [0 .. BufSize - 1 -> Int]
    /\ regs \in [op : {"BD_NOOP", "BD_READ", "BD_WRITE"}, pba : Nat, count : Nat,
                 status : {"BD_IDLE", "BD_BUSY", "SUCCESS", "ERROR"}]
    /\ last \in [op : {"BD_NOOP", "BD_READ", "BD_WRITE"}, lba : Nat, count : Nat,
                 res : {"none", "polling", "EINVAL", "0", "EIO"}]

\* The units of the call are on the disk and in the buffer, and there are some.
CallFits ==
    /\ last.op \in {"BD_READ", "BD_WRITE"}
    /\ last.count * Ppb > 0
    /\ last.count * Ppb <= BufSize
    /\ last.lba * Ppb + last.count * Ppb <= DiskSize

\* While the driver polls, the registers hold the call that runs, in units.
RegistersHoldTheCall ==
    /\ regs.op = last.op
    /\ regs.pba = last.lba * Ppb
    /\ regs.count = last.count * Ppb

Agree == \A u \in 0 .. last.count * Ppb - 1 : buf[u] = disk[last.lba * Ppb + u]

\* TransfersAreComplete speaks of the time after the poll; the status carries it
\* from the transfer to the poll, and the registers from the call to the transfer.
BdInv ==
    /\ BdTypeOK
    /\ last.res = "polling" => CallFits /\ RegistersHoldTheCall
    /\ regs.status # "BD_IDLE" => last.res = "polling"
    /\ regs.status = "SUCCESS" => Agree
    /\ last.res = "0" => Agree

LEMMA InitBdInv == ASSUME BlockDevInit PROVE BdInv
<1>1. BdTypeOK
  BY DEF BlockDevInit, NoCall_, BdTypeOK
<1>2. last.res = "none" /\ regs.status = "BD_IDLE"
  BY DEF BlockDevInit, NoCall_
<1> QED BY <1>1, <1>2 DEF BdInv

\* soclib_bd_read() and soclib_bd_write() accept a call that fits.
LEMMA StartKeepsBdInv ==
    ASSUME BdInv, NEW op \in {"BD_READ", "BD_WRITE"}, NEW lba \in 0 .. Blocks,
           NEW count \in 1 .. BufSize \div Ppb, Start_(op, lba, count)
    PROVE  BdInv'
<1>1. Blocks \in Nat /\ BufSize \div Ppb \in Nat
  BY DEF Blocks
<1>2. lba \in Nat /\ count \in Nat /\ count > 0
  BY <1>1
<1>3. last.res # "polling" /\ regs.status = "BD_IDLE"
  BY DEF Start_, Idle, BdInv, BdTypeOK
<1>4. CASE Refuses(lba, count)
  <2>1. /\ last' = [op |-> op, lba |-> lba, count |-> count, res |-> "EINVAL"]
        /\ UNCHANGED <<disk, buf, regs>>
    BY <1>4 DEF Start_
  <2>2. BdTypeOK'
    BY <1>2, <2>1 DEF BdInv, BdTypeOK
  <2> QED BY <1>3, <2>1, <2>2 DEF BdInv
<1>5. CASE ~ Refuses(lba, count)
  <2>1. /\ last' = [op |-> op, lba |-> lba, count |-> count, res |-> "polling"]
        /\ regs' = [op |-> op, pba |-> lba * Ppb, count |-> count * Ppb, status |-> "BD_BUSY"]
        /\ UNCHANGED <<disk, buf>>
    BY <1>5 DEF Start_, PhysicalCount
  <2>2. lba + count <= DiskSize \div Ppb /\ lba + count \in Nat
    BY <1>1, <1>2, <1>5 DEF Refuses, Blocks
  <2>3. (lba + count) * Ppb <= DiskSize
    BY <2>2, WholeBlocksFit
  <2>4. count * Ppb <= BufSize
    BY <1>2, WholeBlocksFit
  <2>5. /\ lba * Ppb \in Nat /\ count * Ppb \in Nat /\ count * Ppb > 0
        /\ lba * Ppb + count * Ppb <= DiskSize
    BY <1>2, <2>3, BlocksInUnits
  <2>6. BdTypeOK'
    BY <1>2, <2>1, <2>5 DEF BdInv, BdTypeOK
  <2>7. CallFits' /\ RegistersHoldTheCall'
    BY <2>1, <2>4, <2>5 DEF CallFits, RegistersHoldTheCall
  <2> QED BY <2>1, <2>6, <2>7 DEF BdInv
<1> QED BY <1>4, <1>5

\* The device moves as many units as the call asks, from and to its places.
LEMMA TransferKeepsBdInv == ASSUME BdInv, Transfer PROVE BdInv'
<1> DEFINE n == last.count * Ppb
           p == last.lba * Ppb
<1>1. /\ BdTypeOK /\ CallFits /\ RegistersHoldTheCall /\ last.res = "polling"
      /\ regs.status = "BD_BUSY" /\ last' = last
  BY DEF BdInv, Transfer
<1>2. /\ n \in Nat /\ n > 0 /\ n <= BufSize /\ p \in Nat /\ p + n <= DiskSize
      /\ regs.pba = p /\ regs.count = n
      /\ disk \in [0 .. DiskSize - 1 -> Int] /\ buf \in [0 .. BufSize - 1 -> Int]
  <2>1. n \in Nat /\ p \in Nat
    BY <1>1, BlocksInUnits DEF BdTypeOK
  <2> QED BY <1>1, <2>1 DEF BdTypeOK, CallFits, RegistersHoldTheCall
<1>3. PICK done \in {0, regs.count} :
         /\ buf' = [u \in DOMAIN buf |->
                      IF regs.op = "BD_READ" /\ u < done THEN disk[regs.pba + u] ELSE buf[u]]
         /\ disk' = [u \in DOMAIN disk |->
                       IF regs.op = "BD_WRITE" /\ u - regs.pba \in 0 .. done - 1
                       THEN buf[u - regs.pba] ELSE disk[u]]
         /\ regs' = [regs EXCEPT !.status = IF done > 0 THEN "SUCCESS" ELSE "ERROR"]
  BY DEF Transfer
<1>4. done \in {0, n}
  BY <1>2, <1>3
<1>5. regs.op \in {"BD_READ", "BD_WRITE"}
  BY <1>1 DEF CallFits, RegistersHoldTheCall
<1> HIDE DEF n, p
<1>6. ASSUME NEW u \in 0 .. BufSize - 1
      PROVE  (regs.op = "BD_READ" /\ u < done) => p + u \in 0 .. DiskSize - 1
  BY <1>2, <1>4
<1>7. buf' \in [0 .. BufSize - 1 -> Int]
  <2>1. DOMAIN buf = 0 .. BufSize - 1
    BY <1>2
  <2> QED BY <1>2, <1>3, <1>6, <2>1
<1>8. disk' \in [0 .. DiskSize - 1 -> Int]
  <2>1. DOMAIN disk = 0 .. DiskSize - 1
    BY <1>2
  <2>2. ASSUME NEW u \in 0 .. DiskSize - 1, u - p \in 0 .. done - 1
        PROVE  u - p \in 0 .. BufSize - 1
    BY <1>2, <1>4, <2>2
  <2> QED BY <1>2, <1>3, <2>1, <2>2
<1>9. BdTypeOK'
  BY <1>1, <1>3, <1>7, <1>8 DEF BdTypeOK
<1>10. CallFits' /\ RegistersHoldTheCall'
  BY <1>1, <1>3 DEF CallFits, RegistersHoldTheCall, BdTypeOK
<1>11. regs'.status = "SUCCESS" => Agree'
  <2> SUFFICES ASSUME done = n, NEW u \in 0 .. n - 1
               PROVE  buf'[u] = disk'[p + u]
    <3>1. regs'.status = "SUCCESS" => done = n
      BY <1>1, <1>3, <1>4 DEF BdTypeOK
    <3> QED BY <1>1, <3>1 DEF Agree, n, p
  <2>1. u \in DOMAIN buf /\ p + u \in DOMAIN disk /\ u < done /\ (p + u) - p = u
    BY <1>2
  <2>2. CASE regs.op = "BD_READ"
    BY <1>2, <1>3, <2>1, <2>2
  <2>3. CASE regs.op = "BD_WRITE"
    <3>1. (p + u) - p \in 0 .. done - 1
      BY <1>2
    <3>2. disk'[p + u] = buf[u]
      BY <1>2, <1>3, <2>1, <2>3, <3>1
    <3>3. buf'[u] = buf[u]
      BY <1>3, <2>1, <2>3
    <3> QED BY <3>2, <3>3
  <2> QED BY <1>5, <2>2, <2>3
<1> QED BY <1>1, <1>9, <1>10, <1>11 DEF BdInv

\* A transfer of the block device that succeeded moved all the logical blocks of
\* the call, between their places on the disk and the buffer, for any size of
\* the disk, the buffer and the block.
THEOREM TransfersMoveTheirBlocks == BlockDevSpec => []TransfersAreComplete
<1>1. BlockDevInit => BdInv
  BY InitBdInv
<1>2. BdInv /\ [BlockDevNext]_bvars => BdInv'
  <2> SUFFICES ASSUME BdInv, [BlockDevNext]_bvars PROVE BdInv'
    OBVIOUS
  <2>1. ASSUME NEW u \in DOMAIN buf, Load(u) PROVE BdInv'
    BY <2>1 DEF Load, BdInv, BdTypeOK, CallFits, RegistersHoldTheCall, Agree
  <2>2. ASSUME NEW u \in DOMAIN buf, Store(u, 0) PROVE BdInv'
    <3>1. buf' = [buf EXCEPT ![u] = 0] /\ last' = NoCall_ /\ UNCHANGED <<disk, regs>>
      BY <2>2 DEF Store
    <3>2. regs.status = "BD_IDLE"
      BY <2>2 DEF Store, Idle, BdInv, BdTypeOK
    <3>3. BdTypeOK'
      BY <3>1 DEF BdInv, BdTypeOK, NoCall_
    <3> QED BY <3>1, <3>2, <3>3 DEF BdInv, NoCall_
  <2>3. ASSUME NEW op \in {"BD_READ", "BD_WRITE"}, NEW lba \in 0 .. Blocks,
               NEW count \in 1 .. BufSize \div Ppb, Start_(op, lba, count)
        PROVE  BdInv'
    BY <2>3, StartKeepsBdInv
  <2>4. CASE Transfer
    BY <2>4, TransferKeepsBdInv
  <2>5. CASE Poll
    <3>1. /\ last' = [last EXCEPT !.res = IF regs.status = "SUCCESS" THEN "0" ELSE "EIO"]
          /\ regs' = [regs EXCEPT !.status = "BD_IDLE"] /\ UNCHANGED <<disk, buf>>
      BY <2>5 DEF Poll
    <3>2. BdTypeOK'
      BY <3>1 DEF BdInv, BdTypeOK
    <3>3. last'.res = "0" => Agree'
      BY <3>1 DEF BdInv, BdTypeOK, Agree
    <3>4. last'.res # "polling" /\ regs'.status = "BD_IDLE"
      BY <3>1 DEF BdInv, BdTypeOK
    <3> QED BY <3>2, <3>3, <3>4 DEF BdInv
  <2>6. CASE UNCHANGED bvars
    BY <2>6 DEF bvars, BdInv, BdTypeOK, CallFits, RegistersHoldTheCall, Agree
  <2> QED BY <2>1, <2>2, <2>3, <2>4, <2>5, <2>6 DEF BlockDevNext
<1>3. BdInv => TransfersAreComplete
  BY DEF BdInv, TransfersAreComplete, Agree
<1> QED BY <1>1, <1>2, <1>3, PTL DEF BlockDevSpec

-----------------------------------------------------------------------------
(***************************************************************************)
(* The terminals.                                                          *)
(***************************************************************************)
HIDE BlockDevAssumption

LEMMA ModOfSmall ==
    ASSUME NEW d \in Nat \ {0}, NEW x \in 0 .. d - 1
    PROVE  x % d = x
OBVIOUS

LEMMA ModOfNext ==
    ASSUME NEW d \in Nat \ {0}, NEW x \in d .. 2 * d - 1
    PROVE  x % d = x - d
OBVIOUS

Chars == Keys \cup {"NUL"}

\* Facts about sequences that the steps of the fifo need.
LEMMA AppendToSecond ==
    \A s, t \in Seq(Chars), x \in Chars : Append(s \o t, x) = s \o Append(t, x)
OBVIOUS

Joined(s, t) == s \o t

LEMMA MoveToFirst ==
    ASSUME NEW s \in Seq(Chars), NEW t \in Seq(Chars), NEW u \in Seq(Chars), NEW x \in Chars,
           Len(t) = Len(u) + 1, t[1] = x, \A n \in 1 .. Len(u) : t[n + 1] = u[n]
    PROVE  Joined(s, t) = Joined(Append(s, x), u)
<1> DEFINE a == s \o t
           b == Append(s, x) \o u
<1>1. /\ a \in Seq(Chars) /\ Len(a) = Len(s) + Len(t)
      /\ \A n \in 1 .. Len(a) : a[n] = IF n <= Len(s) THEN s[n] ELSE t[n - Len(s)]
  <2>1. a \in Seq(Chars) /\ Len(a) = Len(s) + Len(t)
    BY ConcatProperties
  <2>2. \A n \in 1 .. Len(s) + Len(t) : a[n] = IF n <= Len(s) THEN s[n] ELSE t[n - Len(s)]
    BY ConcatProperties
  <2> HIDE DEF a
  <2> QED BY <2>1, <2>2
<1>2. /\ Append(s, x) \in Seq(Chars) /\ Len(Append(s, x)) = Len(s) + 1
      /\ \A n \in 1 .. Len(s) : Append(s, x)[n] = s[n]
      /\ Append(s, x)[Len(s) + 1] = x
  BY AppendProperties
<1>3. /\ b \in Seq(Chars) /\ Len(b) = Len(s) + 1 + Len(u)
      /\ \A n \in 1 .. Len(b) : b[n] = IF n <= Len(s) + 1 THEN Append(s, x)[n]
                                        ELSE u[n - (Len(s) + 1)]
  BY <1>2, ConcatProperties
<1>4. Len(s) \in Nat /\ Len(t) \in Nat /\ Len(u) \in Nat /\ Len(a) = Len(b)
  BY <1>1, <1>3
<1> HIDE DEF a, b
<1>5. ASSUME NEW n \in 1 .. Len(a)
      PROVE  a[n] = b[n]
  <2>1. CASE n <= Len(s)
    <3>1. n \in 1 .. Len(s) /\ n <= Len(s) + 1 /\ n \in 1 .. Len(b)
      BY <1>4, <2>1
    <3> QED BY <1>1, <1>2, <1>3, <2>1, <3>1
  <2>2. CASE n = Len(s) + 1
    <3>1. n \in 1 .. Len(b) /\ ~ (n <= Len(s)) /\ n - Len(s) = 1
      BY <1>4, <2>2
    <3>2. a[n] = x
      BY <1>1, <3>1
    <3>3. b[n] = x
      BY <1>2, <1>3, <1>4, <2>2, <3>1
    <3> QED BY <3>2, <3>3
  <2>3. CASE n > Len(s) + 1
    <3> DEFINE k == n - (Len(s) + 1)
    <3>1. /\ n \in 1 .. Len(b) /\ ~ (n <= Len(s)) /\ ~ (n <= Len(s) + 1)
          /\ k \in 1 .. Len(u) /\ n - Len(s) = k + 1
      BY <1>1, <1>4, <2>3
    <3>2. a[n] = t[k + 1]
      BY <1>1, <3>1
    <3>3. b[n] = u[k]
      BY <1>3, <3>1
    <3> QED BY <3>1, <3>2, <3>3
  <2> QED BY <1>4, <2>1, <2>2, <2>3
<1>6. a = b
  BY <1>1, <1>3, <1>4, <1>5, SeqEqual
<1> QED BY <1>6 DEF a, b, Joined

FifoTypeOK ==
    /\ ring \in [data : [0 .. Depth - 1 -> Chars], pt_read : 0 .. Depth - 1,
                 pt_write : 0 .. Depth - 1]
    /\ wire \in Seq(Chars)
    /\ accepted \in Seq(Chars)
    /\ taken \in Seq(Chars)

\* The characters in a fifo, and where the one of rank n is.
Count(r) == IF r.pt_write >= r.pt_read THEN r.pt_write - r.pt_read
            ELSE r.pt_write - r.pt_read + Depth
Slot(r, n) == IF r.pt_read + n - 1 < Depth THEN r.pt_read + n - 1
              ELSE r.pt_read + n - 1 - Depth

FifoShape ==
    /\ Count(ring) \in 0 .. Depth - 1
    /\ Contents \in Seq(Chars)
    /\ Len(Contents) = Count(ring)
    /\ \A n \in 1 .. Count(ring) : Slot(ring, n) \in 0 .. Depth - 1
    /\ \A n \in 1 .. Count(ring) : Contents[n] = ring.data[Slot(ring, n)]

\* The remainders of Contents are what Count and Slot say.
LEMMA FifoContents == FifoTypeOK => FifoShape
<1> SUFFICES ASSUME FifoTypeOK PROVE FifoShape
  OBVIOUS
<1> DEFINE r == ring.pt_read
           w == ring.pt_write
<1>1. /\ r \in 0 .. Depth - 1 /\ w \in 0 .. Depth - 1 /\ Depth \in Nat \ {0}
      /\ ring.data \in [0 .. Depth - 1 -> Chars]
  BY TerminalAssumption DEF FifoTypeOK
<1>2. (w - r + Depth) % Depth = Count(ring)
  <2>1. CASE w >= r
    <3>1. w - r + Depth \in Depth .. 2 * Depth - 1
      BY <1>1, <2>1
    <3>2. (w - r + Depth) % Depth = (w - r + Depth) - Depth
      BY <1>1, <3>1, ModOfNext, Zenon
    <3>3. (w - r + Depth) - Depth = Count(ring)
      BY <1>1, <2>1 DEF Count
    <3> QED BY <3>2, <3>3, Zenon
  <2>2. CASE w < r
    <3>1. w - r + Depth \in 0 .. Depth - 1
      BY <1>1, <2>2
    <3>2. (w - r + Depth) % Depth = w - r + Depth
      BY <1>1, <3>1, ModOfSmall, Zenon
    <3>3. w - r + Depth = Count(ring)
      BY <1>1, <2>2 DEF Count
    <3> QED BY <3>2, <3>3, Zenon
  <2> QED BY <1>1, <2>1, <2>2
<1>3. Count(ring) \in 0 .. Depth - 1
  BY <1>1 DEF Count
<1>4. ASSUME NEW n \in 1 .. Count(ring)
      PROVE  Slot(ring, n) \in 0 .. Depth - 1 /\ (r + n - 1) % Depth = Slot(ring, n)
  <2>1. CASE r + n - 1 < Depth
    <3>1. r + n - 1 \in 0 .. Depth - 1
      BY <1>1, <1>3, <2>1
    <3> QED BY <1>1, <2>1, <3>1, ModOfSmall DEF Slot
  <2>2. CASE ~ (r + n - 1 < Depth)
    <3>1. r + n - 1 \in Depth .. 2 * Depth - 1 /\ r + n - 1 - Depth \in 0 .. Depth - 1
      BY <1>1, <1>3, <2>2
    <3>2. (r + n - 1) % Depth = (r + n - 1) - Depth
      BY <1>1, <3>1, ModOfNext, Zenon
    <3>3. Slot(ring, n) = (r + n - 1) - Depth
      BY <1>1, <1>3, <2>2 DEF Slot
    <3>4. Slot(ring, n) \in 0 .. Depth - 1
      BY <1>1, <1>3, <3>1, <3>3
    <3>5. (r + n - 1) % Depth = Slot(ring, n)
      BY <3>2, <3>3, Zenon
    <3> QED BY <3>4, <3>5, Zenon
  <2> QED BY <2>1, <2>2
<1>5. Contents = [n \in 1 .. Count(ring) |-> ring.data[(r + n - 1) % Depth]]
  BY <1>2 DEF Contents
<1>6. Contents = [n \in 1 .. Count(ring) |-> ring.data[Slot(ring, n)]]
  BY <1>4, <1>5
<1>7. \A n \in 1 .. Count(ring) : ring.data[Slot(ring, n)] \in Chars
  BY <1>1, <1>4
<1>8. Count(ring) \in Nat
  BY <1>1, <1>3
<1> HIDE DEF r, w
<1> QED BY <1>3, <1>4, <1>6, <1>7, <1>8 DEF FifoShape

\* The place behind w in the fifo.
LEMMA NextPlace ==
    ASSUME NEW w \in 0 .. Depth - 1
    PROVE  Next_(w) = IF w = Depth - 1 THEN 0 ELSE w + 1
<1>1. Depth \in Nat \ {0}
  BY TerminalAssumption
<1>2. CASE w = Depth - 1
  <2>1. w + 1 = Depth /\ Depth \in Depth .. 2 * Depth - 1
    BY <1>1, <1>2
  <2>2. Depth % Depth = Depth - Depth
    BY <1>1, <2>1, ModOfNext, Zenon
  <2>3. Depth - Depth = 0
    BY <1>1
  <2>4. Next_(w) = Depth % Depth
    BY <2>1, Zenon DEF Next_
  <2> QED BY <1>2, <2>2, <2>3, <2>4, Zenon
<1>3. CASE w # Depth - 1
  <2>1. w + 1 \in 0 .. Depth - 1
    BY <1>1, <1>3
  <2> QED BY <1>1, <1>3, <2>1, ModOfSmall, Zenon DEF Next_
<1> QED BY <1>2, <1>3

FifoInv == FifoTypeOK /\ CharactersStayInOrder

\* fifo_push() of a character that finds a place puts it behind the others.
LEMMA PushKeepsFifoInv ==
    ASSUME FifoInv, NEW c \in Chars, ~ Full,
           ring' = Pushed(c), accepted' = Append(accepted, c), taken' = taken,
           wire' \in Seq(Chars)
    PROVE  FifoInv'
<1> DEFINE r == ring.pt_read
           w == ring.pt_write
           k == Count(ring)
<1>1. /\ r \in 0 .. Depth - 1 /\ w \in 0 .. Depth - 1 /\ Depth \in Nat \ {0}
      /\ ring.data \in [0 .. Depth - 1 -> Chars]
      /\ ring \in [data : [0 .. Depth - 1 -> Chars], pt_read : 0 .. Depth - 1, pt_write : 0 .. Depth - 1]
  BY TerminalAssumption DEF FifoInv, FifoTypeOK
<1>2. Next_(w) = IF w = Depth - 1 THEN 0 ELSE w + 1
  BY <1>1, NextPlace
<1>3. Next_(w) # r /\ Next_(w) \in 0 .. Depth - 1
  BY <1>1, <1>2 DEF Full
<1>4. ring' = [ring EXCEPT !.data[w] = c, !.pt_write = Next_(w)]
  BY DEF Pushed
<1>5. ring'.data = [ring.data EXCEPT ![w] = c] /\ ring'.pt_read = r /\ ring'.pt_write = Next_(w)
  BY <1>1, <1>4
<1>6. ring' \in [data : [0 .. Depth - 1 -> Chars], pt_read : 0 .. Depth - 1, pt_write : 0 .. Depth - 1]
  <2>1. [ring.data EXCEPT ![w] = c] \in [0 .. Depth - 1 -> Chars]
    BY <1>1
  <2>2. ring' = [data |-> [ring.data EXCEPT ![w] = c], pt_read |-> r, pt_write |-> Next_(w)]
    BY <1>1, <1>4
  <2> QED BY <1>1, <1>3, <2>1, <2>2
<1>7. FifoTypeOK'
  BY <1>6 DEF FifoInv, FifoTypeOK
<1>8. /\ k \in 0 .. Depth - 1 /\ Contents \in Seq(Chars) /\ Len(Contents) = k
      /\ \A n \in 1 .. k : Slot(ring, n) \in 0 .. Depth - 1
      /\ \A n \in 1 .. k : Contents[n] = ring.data[Slot(ring, n)]
  BY FifoContents DEF FifoInv, FifoShape
<1>9. /\ Contents' \in Seq(Chars) /\ Len(Contents') = Count(ring')
      /\ \A n \in 1 .. Count(ring') : Contents'[n] = ring'.data[Slot(ring', n)]
  <2>1. FifoTypeOK' => FifoShape'
    BY FifoContents, PTL
  <2> QED BY <1>7, <2>1 DEF FifoShape
<1>10. Count(ring') = k + 1
  BY <1>1, <1>2, <1>3, <1>5 DEF Count
<1>11. \A n \in 1 .. k + 1 : Slot(ring', n) = Slot(ring, n)
  BY <1>5 DEF Slot
<1>12. \A n \in 1 .. k : Slot(ring, n) # w
  BY <1>1, <1>8 DEF Slot, Count
<1>13. Slot(ring, k + 1) = w
  BY <1>1 DEF Slot, Count
<1> HIDE DEF k, r, w
<1>14. Contents' = Append(Contents, c)
  <2>1. Append(Contents, c) \in Seq(Chars) /\ Len(Append(Contents, c)) = k + 1
    BY <1>8
  <2>2. ASSUME NEW n \in 1 .. k + 1
        PROVE  Contents'[n] = Append(Contents, c)[n]
    <3>1. Contents'[n] = ring'.data[Slot(ring, n)]
      BY <1>9, <1>10, <1>11
    <3>2. CASE n \in 1 .. k
      <4>1. Contents'[n] = ring.data[Slot(ring, n)]
        BY <1>1, <1>5, <1>8, <1>12, <3>1, <3>2
      <4> QED BY <1>8, <3>2, <4>1
    <3>3. CASE n = k + 1
      <4>1. Contents'[n] = c
        BY <1>1, <1>5, <1>13, <3>1, <3>3
      <4> QED BY <1>8, <3>3, <4>1
    <3> QED BY <1>8, <3>2, <3>3
  <2> QED BY <1>9, <1>10, <2>1, <2>2, SeqEqual
<1>15. accepted = taken \o Contents /\ taken \in Seq(Chars)
  BY DEF FifoInv, FifoTypeOK, CharactersStayInOrder
<1>16. accepted' = taken' \o Contents'
  <2>1. Append(taken \o Contents, c) = taken \o Append(Contents, c)
    BY <1>8, <1>15, AppendToSecond, Zenon
  <2> QED BY <1>14, <1>15, <2>1
<1> QED BY <1>7, <1>16 DEF FifoInv, CharactersStayInOrder

\* fifo_pull() takes the oldest character.
LEMMA PullKeepsFifoInv ==
    ASSUME FifoInv, ~ Empty, ring' = Pulled, accepted' = accepted,
           taken' = Append(taken, ring.data[ring.pt_read]), wire' = wire
    PROVE  FifoInv'
<1> DEFINE r == ring.pt_read
           w == ring.pt_write
           k == Count(ring)
           c == ring.data[ring.pt_read]
<1>1. /\ r \in 0 .. Depth - 1 /\ w \in 0 .. Depth - 1 /\ Depth \in Nat \ {0} /\ r # w
      /\ ring.data \in [0 .. Depth - 1 -> Chars] /\ c \in Chars
      /\ ring \in [data : [0 .. Depth - 1 -> Chars], pt_read : 0 .. Depth - 1, pt_write : 0 .. Depth - 1]
  BY TerminalAssumption DEF FifoInv, FifoTypeOK, Empty
<1>2. Next_(r) = IF r = Depth - 1 THEN 0 ELSE r + 1
  BY <1>1, NextPlace
<1>3. ring' = [ring EXCEPT !.pt_read = Next_(r)]
  BY DEF Pulled
<1>4. ring'.data = ring.data /\ ring'.pt_write = w /\ ring'.pt_read = Next_(r)
  BY <1>1, <1>3
<1>5. Next_(r) \in 0 .. Depth - 1
  BY <1>1, <1>2
<1>6. FifoTypeOK'
  <2>1. ring' = [data |-> ring.data, pt_read |-> Next_(r), pt_write |-> w]
    BY <1>1, <1>3
  <2>2. taken' \in Seq(Chars)
    BY <1>1 DEF FifoInv, FifoTypeOK
  <2> QED BY <1>1, <1>5, <2>1, <2>2 DEF FifoInv, FifoTypeOK
<1>7. /\ k \in 0 .. Depth - 1 /\ Contents \in Seq(Chars) /\ Len(Contents) = k
      /\ \A n \in 1 .. k : Contents[n] = ring.data[Slot(ring, n)]
  BY FifoContents DEF FifoInv, FifoShape
<1>8. /\ Contents' \in Seq(Chars) /\ Len(Contents') = Count(ring')
      /\ \A n \in 1 .. Count(ring') : Contents'[n] = ring'.data[Slot(ring', n)]
  <2>1. FifoTypeOK' => FifoShape'
    BY FifoContents, PTL
  <2> QED BY <1>6, <2>1 DEF FifoShape
<1>9. k >= 1 /\ Count(ring') = k - 1 /\ Slot(ring, 1) = r
  BY <1>1, <1>2, <1>4 DEF Count, Slot
<1>10. \A n \in 1 .. k - 1 : Slot(ring', n) = Slot(ring, n + 1)
  BY <1>1, <1>2, <1>4, <1>7 DEF Slot
<1>11. Contents[1] = c
  BY <1>7, <1>9
<1> HIDE DEF k, r, w, c
<1>12. ASSUME NEW n \in 1 .. Len(Contents')
       PROVE  Contents[n + 1] = Contents'[n]
  <2>1. n \in 1 .. k - 1 /\ n + 1 \in 1 .. k
    BY <1>7, <1>8, <1>9
  <2>2. Contents'[n] = ring.data[Slot(ring, n + 1)]
    BY <1>4, <1>8, <1>9, <1>10, <2>1
  <2> QED BY <1>7, <2>1, <2>2
<1>13. Len(Contents) = Len(Contents') + 1
  BY <1>7, <1>8, <1>9
<1>14. accepted = taken \o Contents /\ taken \in Seq(Chars)
  BY DEF FifoInv, FifoTypeOK, CharactersStayInOrder
<1>15. taken \o Contents = Append(taken, c) \o Contents'
  <2> DEFINE u == Contents'
  <2>1. u \in Seq(Chars) /\ Len(Contents) = Len(u) + 1 /\ \A n \in 1 .. Len(u) : Contents[n + 1] = u[n]
    BY <1>8, <1>12, <1>13
  <2> HIDE DEF u
  <2>2. Joined(taken, Contents) = Joined(Append(taken, c), u)
    <3>1. Contents \in Seq(Chars) /\ taken \in Seq(Chars) /\ c \in Chars
      BY <1>1, <1>7, <1>14
    <3>2. Len(Contents) = Len(u) + 1 /\ Contents[1] = c
      BY <1>11, <2>1
    <3>3. ASSUME NEW C \in Seq(Chars), NEW U \in Seq(Chars), NEW S \in Seq(Chars), NEW x \in Chars,
                 Len(C) = Len(U) + 1, C[1] = x, \A n \in 1 .. Len(U) : C[n + 1] = U[n]
          PROVE  Joined(S, C) = Joined(Append(S, x), U)
      BY <3>3, MoveToFirst
    <3> QED BY <2>1, <3>1, <3>2, <3>3, ZenonT(40)
  <2> QED BY <2>2, Zenon DEF u, Joined
<1>16. accepted' = taken' \o Contents'
  BY <1>14, <1>15 DEF c
<1> QED BY <1>6, <1>16 DEF FifoInv, CharactersStayInOrder

\* What a step may do to the fifo: a push by the interrupt routine, a pull by a
\* reader, or nothing.
LEMMA FifoSteps ==
    ASSUME FifoInv, [TerminalNext]_tvars PROVE FifoInv'
<1>1. ASSUME NEW c \in Keys, Type(c) PROVE FifoInv'
  <2>1. wire' \in Seq(Chars)
    <3>1. c \in Chars /\ wire \in Seq(Chars)
      BY DEF FifoInv, FifoTypeOK, Chars
    <3>2. wire' = <<c>> \/ wire' = Append(wire, c)
      BY <1>1 DEF Type, Received
    <3>3. <<c>> \in Seq(Chars)
      BY <3>1
    <3>4. Append(wire, c) \in Seq(Chars)
      BY <3>1, AppendProperties
    <3> QED BY <3>2, <3>3, <3>4, Zenon
  <2>2. UNCHANGED <<ring, accepted, taken>>
    BY <1>1 DEF Type
  <2> QED BY <2>1, <2>2 DEF FifoInv, FifoTypeOK, CharactersStayInOrder, Contents
<1>2. CASE tty_isr
  <2>1. PushChar
    BY <1>2 DEF tty_isr, soclib_tty_isr, ns16550_isr
  <2>2. /\ wire # <<>> /\ ring' = Pushed(Head(wire)) /\ wire' = Tail(wire) /\ taken' = taken
        /\ accepted' = IF Full THEN accepted ELSE Append(accepted, Head(wire))
    BY <2>1 DEF PushChar
  <2>3. Head(wire) \in Chars /\ wire' \in Seq(Chars)
    BY <2>2, HeadTailProperties DEF FifoInv, FifoTypeOK
  <2>4. CASE Full
    <3>1. UNCHANGED <<ring, accepted, taken>>
      BY <2>2, <2>4 DEF Pushed
    <3> QED BY <2>3, <3>1 DEF FifoInv, FifoTypeOK, CharactersStayInOrder, Contents
  <2>5. CASE ~ Full
    <3>1. accepted' = Append(accepted, Head(wire))
      BY <2>2, <2>5
    <3> QED BY <2>2, <2>3, <2>5, <3>1, PushKeepsFifoInv
  <2> QED BY <2>4, <2>5
<1>3. CASE tty_poll
  BY <1>3, PullKeepsFifoInv DEF tty_poll
<1>4. CASE PullChar
  <2>1. CASE Empty
    <3>1. UNCHANGED <<ring, wire, accepted, taken>>
      BY <1>4, <2>1 DEF PullChar
    <3> QED BY <3>1 DEF FifoInv, FifoTypeOK, CharactersStayInOrder, Contents
  <2>2. CASE ~ Empty
    <3>1. /\ ring' = Pulled /\ taken' = Append(taken, ring.data[ring.pt_read])
          /\ wire' = wire /\ accepted' = accepted
      BY <1>4, <2>2 DEF PullChar
    <3> QED BY <2>2, <3>1, PullKeepsFifoInv
  <2> QED BY <2>1, <2>2
<1>5. CASE \/ tick_event \/ tty_read \/ tty_gets \/ CloseWindow \/ Return \/ UNCHANGED tvars
  <2>1. UNCHANGED <<ring, wire, accepted, taken>>
    BY <1>5 DEF tick_event, tty_read, tty_gets, Begin, CloseWindow, Return, tvars
  <2> QED BY <2>1 DEF FifoInv, FifoTypeOK, CharactersStayInOrder, Contents
<1> QED BY <1>1, <1>2, <1>3, <1>4, <1>5
        DEF TerminalNext, Kernel, soclib_tty_read, ns16550_read

LEMMA FifoInitially == ASSUME TerminalInit PROVE FifoInv
<1>1. /\ ring = [data |-> [n \in 0 .. Depth - 1 |-> "NUL"], pt_read |-> 0, pt_write |-> 0]
      /\ wire = <<>> /\ accepted = <<>> /\ taken = <<>>
  BY DEF TerminalInit
<1>2. FifoTypeOK
  <2>1. 0 \in 0 .. Depth - 1
    BY TerminalAssumption
  <2>2. wire \in Seq(Chars) /\ accepted \in Seq(Chars) /\ taken \in Seq(Chars)
    BY <1>1
  <2>3. [n \in 0 .. Depth - 1 |-> "NUL"] \in [0 .. Depth - 1 -> Chars]
    BY DEF Chars
  <2> QED BY <1>1, <2>1, <2>2, <2>3 DEF FifoTypeOK
<1>3. Count(ring) = 0
  BY <1>1, TerminalAssumption DEF Count
<1>4. Contents \in Seq(Chars) /\ Len(Contents) = 0
  BY <1>2, <1>3, FifoContents DEF FifoShape
<1>5. Contents = <<>>
  BY <1>4, EmptySeq
<1> QED BY <1>1, <1>2, <1>5 DEF FifoInv, CharactersStayInOrder

\* The characters that the readers got and the ones still in the fifo are the ones
\* that the interrupt routine accepted, in the order of the keyboard, for any depth
\* of the fifo and any number of readers.
THEOREM CharactersKeepTheirOrder == TerminalSpec => []CharactersStayInOrder
<1>1. TerminalInit => FifoInv
  BY FifoInitially
<1>2. FifoInv /\ [TerminalNext]_tvars => FifoInv'
  BY FifoSteps
<1>3. FifoInv => CharactersStayInOrder
  BY DEF FifoInv
<1> QED BY <1>1, <1>2, <1>3, PTL DEF TerminalSpec

\* A set of natural numbers has a least element.
LEMMA LeastNumber ==
    ASSUME NEW T \in SUBSET Nat, T # {}
    PROVE  \E x \in T : \A y \in T : x <= y
<1>1. PICK x \in T : \A y \in T : ~ (<<y, x>> \in OpToRel(<, Nat))
  BY WFMin, NatLessThanWellFounded
<1>2. \A y \in T : <<y, x>> \in Nat \X Nat
  OBVIOUS
<1>3. \A y \in T : ~ (y < x)
  BY <1>1, <1>2 DEF OpToRel
<1> QED BY <1>3

(***************************************************************************)
(* The line of tty_gets(): the keys that a thread got are edited one after *)
(* the other, and one key more edits what the others gave.                 *)
(***************************************************************************)
NoLine == [cr |-> FALSE, line |-> <<>>]
IsEdition(w, got, n) ==
    w = [k \in 0 .. n |-> IF k = 0 THEN NoLine ELSE EditKey(w[k - 1], got[k])]

LEMMA EditionExists ==
    ASSUME NEW got, NEW n \in Nat
    PROVE  \E w : IsEdition(w, got, n)
<1> DEFINE T == {m \in Nat : ~\E w : IsEdition(w, got, m)}
<1> SUFFICES ASSUME T # {} PROVE FALSE
  OBVIOUS
<1>1. PICK m \in T : \A y \in T : m <= y
  <2>1. T \in SUBSET Nat
    OBVIOUS
  <2> HIDE DEF T
  <2> QED BY <2>1, LeastNumber
<1>2. m \in Nat /\ ~\E w : IsEdition(w, got, m)
  BY <1>1
<1>3. CASE m = 0
  <2>1. IsEdition([k \in 0 .. 0 |-> NoLine], got, 0)
    BY DEF IsEdition
  <2> QED BY <1>2, <1>3, <2>1
<1>4. CASE m # 0
  <2>1. m - 1 \in Nat /\ m - 1 \notin T
    BY <1>1, <1>2, <1>4
  <2>2. PICK w : IsEdition(w, got, m - 1)
    BY <2>1
  <2> DEFINE v == [k \in 0 .. m |-> IF k = m THEN EditKey(w[m - 1], got[m]) ELSE w[k]]
  <2>3. ASSUME NEW k \in 0 .. m PROVE v[k] = IF k = 0 THEN NoLine ELSE EditKey(v[k - 1], got[k])
    <3>1. CASE k = 0
      <4>1. v[0] = w[0]
        BY <1>2, <1>4
      <4>2. w[0] = NoLine
        BY <2>1, <2>2 DEF IsEdition
      <4> QED BY <3>1, <4>1, <4>2
    <3>2. CASE k # 0 /\ k = m
      <4>1. v[k - 1] = w[m - 1]
        BY <1>2, <3>2
      <4>2. v[k] = EditKey(w[m - 1], got[m])
        BY <1>2, <3>2
      <4> HIDE DEF v
      <4> QED BY <3>2, <4>1, <4>2
    <3>3. CASE k # 0 /\ k # m
      <4>1. k - 1 \in 0 .. m /\ k - 1 # m /\ k \in 0 .. m - 1
        BY <1>2, <3>3
      <4>2. v[k - 1] = w[k - 1] /\ v[k] = w[k]
        BY <3>3, <4>1
      <4>3. w[k] = EditKey(w[k - 1], got[k])
        BY <2>2, <3>3, <4>1 DEF IsEdition
      <4> HIDE DEF v
      <4> QED BY <3>3, <4>2, <4>3
    <3> QED BY <3>1, <3>2, <3>3
  <2>4. IsEdition(v, got, m)
    BY <2>3 DEF IsEdition
  <2> HIDE DEF v
  <2> QED BY <1>2, <2>4
<1> QED BY <1>3, <1>4

\* Two editions of keys that begin alike give the same there.
LEMMA EditionsAgree ==
    ASSUME NEW got, NEW more, NEW n \in Nat, NEW l \in Nat, n <= l,
           \A k \in 1 .. n : got[k] = more[k],
           NEW w, IsEdition(w, got, n), NEW v, IsEdition(v, more, l)
    PROVE  w[n] = v[n]
<1> DEFINE T == {m \in 0 .. n : w[m] # v[m]}
<1> SUFFICES ASSUME T # {} PROVE FALSE
  OBVIOUS
<1>1. PICK m \in T : \A y \in T : m <= y
  <2>1. T \in SUBSET Nat
    OBVIOUS
  <2> HIDE DEF T
  <2> QED BY <2>1, LeastNumber
<1>2. m \in 0 .. n /\ m \in 0 .. l /\ w[m] # v[m]
  BY <1>1
<1>3. m # 0
  <2>1. 0 \in 0 .. n /\ 0 \in 0 .. l
    OBVIOUS
  <2>2. w[0] = NoLine
    BY <2>1 DEF IsEdition
  <2>3. v[0] = NoLine
    BY <2>1 DEF IsEdition
  <2> QED BY <1>2, <2>2, <2>3
<1>4. m - 1 \in 0 .. n /\ m - 1 \notin T /\ m \in 1 .. n
  BY <1>1, <1>2, <1>3
<1>5. w[m - 1] = v[m - 1]
  BY <1>4
<1> HIDE DEF T
<1>6. w[m] = EditKey(w[m - 1], got[m])
  BY <1>2, <1>3 DEF IsEdition
<1>7. v[m] = EditKey(v[m - 1], more[m])
  BY <1>2, <1>3 DEF IsEdition
<1> QED BY <1>2, <1>4, <1>5, <1>6, <1>7

LEMMA EditionEnd ==
    ASSUME NEW got, Len(got) \in Nat
    PROVE  \E w : IsEdition(w, got, Len(got)) /\ KeysEdited(got) = w[Len(got)]
<1> DEFINE w == CHOOSE w : IsEdition(w, got, Len(got))
<1>1. IsEdition(w, got, Len(got))
  BY EditionExists
<1>2. KeysEdited(got) = w[Len(got)]
  BY DEF KeysEdited, IsEdition, NoLine
<1> QED BY <1>1, <1>2

\* No key gives no line.
LEMMA NothingEdited == KeysEdited(<<>>) = NoLine
<1>1. PICK w : IsEdition(w, <<>>, 0) /\ KeysEdited(<<>>) = w[0]
  <2>1. Len(<<>>) = 0
    OBVIOUS
  <2> QED BY <2>1, EditionEnd
<1> QED BY <1>1 DEF IsEdition

\* One key more edits what the others gave.
LEMMA KeyEdited ==
    ASSUME NEW got \in Seq(Chars), NEW c \in Chars
    PROVE  KeysEdited(Append(got, c)) = EditKey(KeysEdited(got), c)
<1> DEFINE more == Append(got, c)
           n == Len(got)
<1>1. n \in Nat /\ Len(more) = n + 1 /\ more[n + 1] = c /\ \A k \in 1 .. n : got[k] = more[k]
  BY AppendProperties
<1> HIDE DEF more
<1>2. PICK w : IsEdition(w, got, n) /\ KeysEdited(got) = w[n]
  BY <1>1, EditionEnd
<1>3. PICK v : IsEdition(v, more, n + 1) /\ KeysEdited(more) = v[n + 1]
  BY <1>1, EditionEnd
<1> HIDE DEF n
<1>4. w[n] = v[n]
  <2>1. n + 1 \in Nat /\ n <= n + 1
    BY <1>1
  <2> QED BY <1>1, <1>2, <1>3, <2>1, EditionsAgree
<1>5. v[n + 1] = EditKey(v[n], more[n + 1])
  <2>1. n + 1 \in 0 .. n + 1 /\ n + 1 # 0 /\ (n + 1) - 1 = n
    BY <1>1
  <2> QED BY <1>3, <2>1 DEF IsEdition
<1> QED BY <1>1, <1>2, <1>3, <1>4, <1>5 DEF more

Waits == {"read", "readLF", "window", "windowLF"}
Call == [pc : Waits \cup {"user", "end"}, call : {"none", "read", "gets"}, line : Seq(Chars),
         left : Nat, got : Seq(Chars)]

\* The buffer of tty_gets() holds what the keys give, and where the thread is tells
\* whether the last one is a carriage return that waits for the next.
Edition(t) ==
    t.call = "gets" =>
        /\ KeysEdited(t.got) = [cr |-> IF t.pc \in {"readLF", "windowLF"} THEN TRUE ELSE FALSE,
                                line |-> t.line]
        /\ t.left + Len(t.line) + 1 \in BufSizes

\* The screen ends with the line.
EndsWith(s, line) ==
    /\ Len(line) <= Len(s)
    /\ \A k \in 1 .. Len(line) : s[Len(s) - Len(line) + k] = line[k]

\* The thread keeps its place for the characters that it may still get; a thread
\* that does not read the terminal is never in the driver.
CallOK(t) == t \in Call /\ Edition(t) /\ (t.pc \in Waits => t.left >= 1)

GetsInv ==
    /\ FifoInv
    /\ thr \in [Threads -> Call] /\ readers \in SUBSET Threads /\ running \in Threads /\ screen \in Seq(Chars)
    /\ \A t \in Threads :
          /\ CallOK(thr[t])
          /\ t \notin readers => thr[t] = NoCall
          /\ (\A u \in readers : u = t) /\ thr[t].call = "gets" => EndsWith(screen, thr[t].line)

\* The three ways of a key.
LEMMA EditKeyCases ==
    ASSUME NEW cr \in BOOLEAN, NEW line \in Seq(Chars), NEW c
    PROVE  /\ c = "CR" /\ ~cr => EditKey([cr |-> cr, line |-> line], c) = [cr |-> TRUE, line |-> line]
           /\ ~(c = "CR" /\ ~cr) /\ ~Erases(c) =>
                 EditKey([cr |-> cr, line |-> line], c) = [cr |-> FALSE, line |-> Append(line, c)]
           /\ ~(c = "CR" /\ ~cr) /\ Erases(c) =>
                 EditKey([cr |-> cr, line |-> line], c) =
                    [cr |-> FALSE, line |-> IF line = <<>> THEN <<>> ELSE ButLast(line)]
<1> DEFINE e == [cr |-> cr, line |-> line]
<1>1. e.cr = cr /\ e.line = line
  OBVIOUS
<1> HIDE DEF e
<1>3. c = "CR" /\ ~cr => EditKey(e, c) = [cr |-> TRUE, line |-> line]
  BY <1>1 DEF EditKey
<1>4. ~(c = "CR" /\ ~cr) => EditKey(e, c) = [cr |-> FALSE,
          line |-> IF ~Erases(c) THEN Append(line, c)
                   ELSE IF line = <<>> THEN <<>> ELSE ButLast(line)]
  BY <1>1 DEF EditKey
<1> QED BY <1>3, <1>4 DEF e

LEMMA ButLastProperties ==
    ASSUME NEW s \in Seq(Chars), s # <<>>
    PROVE  /\ ButLast(s) \in Seq(Chars) /\ Len(s) \in Nat \ {0} /\ Len(ButLast(s)) = Len(s) - 1
           /\ \A k \in 1 .. Len(s) - 1 : ButLast(s)[k] = s[k]
<1>1. Len(s) \in Nat \ {0}
  BY EmptySeq
<1>2. /\ SubSeq(s, 1, Len(s) - 1) \in Seq(Chars)
      /\ Len(SubSeq(s, 1, Len(s) - 1)) = IF 1 <= Len(s) - 1 THEN Len(s) - 1 - 1 + 1 ELSE 0
      /\ \A i \in 1 .. Len(s) - 1 - 1 + 1 : SubSeq(s, 1, Len(s) - 1)[i] = s[1 + i - 1]
  <2>1. 1 \in 1 .. Len(s) + 1 /\ Len(s) - 1 \in 1 - 1 .. Len(s)
    BY <1>1
  <2> QED BY <2>1, SubSeqProperties
<1> DEFINE b == SubSeq(s, 1, Len(s) - 1)
           n == Len(s)
<1>3. b \in Seq(Chars) /\ Len(b) = (IF 1 <= n - 1 THEN n - 1 - 1 + 1 ELSE 0)
  BY <1>2
<1>4. \A i \in 1 .. n - 1 - 1 + 1 : b[i] = s[1 + i - 1]
  BY <1>2
<1>5. n \in Nat \ {0}
  BY <1>1
<1> HIDE DEF b, n
<1>6. Len(b) = n - 1 /\ \A i \in 1 .. n - 1 : b[i] = s[i]
  <2>1. ASSUME NEW i \in 1 .. n - 1 PROVE b[i] = s[i]
    <3>1. 1 + i - 1 = i /\ i \in 1 .. n - 1 - 1 + 1
      BY <1>5
    <3> QED BY <1>4, <3>1
  <2> QED BY <1>3, <1>5, <2>1
<1> QED BY <1>3, <1>5, <1>6 DEF ButLast, b, n

\* A key in the buffer of tty_gets().
Grown(old, new, c) ==
    \/ new = old
    \/ new = Append(old, c)
    \/ old # <<>> /\ new = ButLast(old)

InCall(pc, call, line, left, got) ==
    [pc |-> pc, call |-> call, line |-> line, left |-> left, got |-> got]
Place_(pc, line, left, got) ==
    /\ pc \in {"read", "readLF", "end"} /\ line \in Seq(Chars) /\ left \in Nat
    /\ got \in Seq(Chars) /\ (pc # "end" => left >= 1)
GetsCalled(u, line) == CallOK(u) /\ u.call = "gets" /\ u.line = line

LEMMA GetsCall ==
    ASSUME NEW pc, NEW line, NEW left, NEW got, Place_(pc, line, left, got),
           left + Len(line) + 1 \in BufSizes,
           KeysEdited(got) = [cr |-> IF pc = "readLF" THEN TRUE ELSE FALSE, line |-> line]
    PROVE  GetsCalled(InCall(pc, "gets", line, left, got), line)
<1> DEFINE u == InCall(pc, "gets", line, left, got)
<1>1. u.pc = pc /\ u.call = "gets" /\ u.line = line /\ u.left = left /\ u.got = got
  BY DEF InCall
<1>2. u \in Call
  BY DEF Call, Waits, InCall, Place_
<1> HIDE DEF u
<1>3. (IF u.pc \in {"readLF", "windowLF"} THEN TRUE ELSE FALSE) = (IF pc = "readLF" THEN TRUE ELSE FALSE)
  BY <1>1 DEF Place_
<1>4. u.pc \in Waits => u.left >= 1
  BY <1>1 DEF Place_, Waits
<1>5. Edition(u)
  BY <1>1, <1>3, Zenon DEF Edition
<1> QED BY <1>1, <1>2, <1>4, <1>5 DEF CallOK, GetsCalled, u

LEMMA KeyInBuffer ==
    ASSUME NEW t, CallOK(t), t.call = "gets", t.pc \in {"read", "readLF"}, NEW c \in Chars,
           NEW u, u = [Edited(t, c) EXCEPT !.got = Append(t.got, c)]
    PROVE  CallOK(u) /\ u.call = "gets" /\ Grown(t.line, u.line, c)
<1> DEFINE cr == IF t.pc = "readLF" THEN TRUE ELSE FALSE
           got == Append(t.got, c)
<1>1. /\ t \in Call /\ t.left \in Nat /\ t.left >= 1 /\ t.line \in Seq(Chars) /\ got \in Seq(Chars)
      /\ cr \in BOOLEAN /\ Len(t.line) \in Nat /\ t.left + Len(t.line) + 1 \in BufSizes
  BY AppendProperties DEF CallOK, Call, Waits, Edition
<1>2. KeysEdited(t.got) = [cr |-> cr, line |-> t.line]
  BY DEF CallOK, Edition
<1>3. KeysEdited(got) = EditKey([cr |-> cr, line |-> t.line], c)
  BY <1>2, KeyEdited DEF CallOK, Call
<1> HIDE DEF got
<1>4. CASE c = "CR" /\ t.pc = "read"
  <2>1. u = InCall("readLF", "gets", t.line, t.left, got)
    BY <1>1, <1>4 DEF Edited, Call, got, InCall
  <2>2. KeysEdited(got) = [cr |-> TRUE, line |-> t.line]
    BY <1>1, <1>3, <1>4, EditKeyCases
  <2>3. KeysEdited(got) = [cr |-> IF "readLF" = "readLF" THEN TRUE ELSE FALSE, line |-> t.line]
    BY <2>2
  <2>4. Place_("readLF", t.line, t.left, got)
    BY <1>1 DEF Place_
  <2>5. t.left + Len(t.line) + 1 \in BufSizes
    BY <1>1
  <2>6. GetsCalled(u, t.line)
    BY <2>1, <2>3, <2>4, <2>5, GetsCall
  <2> QED BY <2>6 DEF GetsCalled, Grown
<1>5. CASE ~(c = "CR" /\ t.pc = "read") /\ ~Erases(c)
  <2> DEFINE pc == IF t.left = 1 \/ c = "LF" THEN "end" ELSE "read"
             line == Append(t.line, c)
  <2>1. u = InCall(pc, "gets", line, t.left - 1, got)
    BY <1>1, <1>5 DEF Edited, Stored, Call, got, InCall
  <2>2. KeysEdited(got) = [cr |-> FALSE, line |-> line]
    BY <1>1, <1>3, <1>5, EditKeyCases
  <2>3. line \in Seq(Chars) /\ Len(line) = Len(t.line) + 1
    BY <1>1, AppendProperties
  <2>4. t.left - 1 \in Nat /\ (pc = "read" => t.left - 1 >= 1) /\ pc \in {"read", "end"}
    BY <1>1
  <2>5. t.left - 1 + Len(line) + 1 \in BufSizes
    BY <1>1, <2>3
  <2> HIDE DEF pc, line
  <2>6. KeysEdited(got) = [cr |-> IF pc = "readLF" THEN TRUE ELSE FALSE, line |-> line]
    BY <2>2, <2>4
  <2>7. Place_(pc, line, t.left - 1, got)
    BY <1>1, <2>3, <2>4 DEF Place_
  <2>8. GetsCalled(u, line)
    BY <2>1, <2>5, <2>6, <2>7, GetsCall
  <2> QED BY <2>8 DEF GetsCalled, Grown, line
<1>6. CASE ~(c = "CR" /\ t.pc = "read") /\ Erases(c) /\ t.line = <<>>
  <2>1. u = InCall("read", "gets", t.line, t.left, got)
    BY <1>1, <1>6 DEF Edited, Erased, Call, got, InCall
  <2>2. KeysEdited(got) = [cr |-> FALSE, line |-> t.line]
    BY <1>1, <1>3, <1>6, EditKeyCases
  <2>3. KeysEdited(got) = [cr |-> IF "read" = "readLF" THEN TRUE ELSE FALSE, line |-> t.line]
    BY <2>2
  <2>4. Place_("read", t.line, t.left, got)
    BY <1>1 DEF Place_
  <2>5. t.left + Len(t.line) + 1 \in BufSizes
    BY <1>1
  <2>6. GetsCalled(u, t.line)
    BY <2>1, <2>3, <2>4, <2>5, GetsCall, Zenon
  <2> QED BY <2>6 DEF GetsCalled, Grown
<1>7. CASE ~(c = "CR" /\ t.pc = "read") /\ Erases(c) /\ t.line # <<>>
  <2> DEFINE line == ButLast(t.line)
  <2>1. u = InCall("read", "gets", line, t.left + 1, got)
    BY <1>1, <1>7 DEF Edited, Erased, Call, got, InCall
  <2>2. KeysEdited(got) = [cr |-> FALSE, line |-> line]
    <3>1. KeysEdited(got) = [cr |-> FALSE, line |-> IF t.line = <<>> THEN <<>> ELSE ButLast(t.line)]
      BY <1>1, <1>3, <1>7, EditKeyCases
    <3> QED BY <1>7, <3>1
  <2>3. line \in Seq(Chars) /\ Len(line) = Len(t.line) - 1
    BY <1>1, <1>7, ButLastProperties
  <2>4. t.left + 1 \in Nat /\ t.left + 1 >= 1 /\ t.left + 1 + Len(line) + 1 \in BufSizes
    BY <1>1, <2>3
  <2> HIDE DEF line
  <2>5. Place_("read", line, t.left + 1, got)
    BY <1>1, <2>3, <2>4 DEF Place_
  <2>6. GetsCalled(u, line)
    BY <2>1, <2>2, <2>4, <2>5, GetsCall
  <2> QED BY <1>7, <2>6 DEF GetsCalled, Grown, line
<1> QED BY <1>4, <1>5, <1>6, <1>7

\* A character of tty_read() is stored as it is.
LEMMA CharInBuffer ==
    ASSUME NEW t, CallOK(t), t.call # "gets", t.pc \in {"read", "readLF"}, NEW c \in Chars,
           NEW u, u = [Stored(t, c, FALSE) EXCEPT !.got = Append(t.got, c)]
    PROVE  CallOK(u) /\ u.call # "gets"
<1> DEFINE pc == IF t.left = 1 THEN "end" ELSE "read"
           line == Append(t.line, c)
           got == Append(t.got, c)
<1>1. t \in Call /\ t.left \in Nat /\ t.left >= 1 /\ line \in Seq(Chars) /\ got \in Seq(Chars)
  BY AppendProperties DEF CallOK, Call, Waits
<1>2. u = InCall(pc, t.call, line, t.left - 1, got)
  BY <1>1 DEF Stored, Call, InCall
<1>3. t.left - 1 \in Nat /\ (pc = "read" => t.left - 1 >= 1) /\ pc \in {"read", "end"}
  BY <1>1
<1> HIDE DEF pc, line, got
<1>4. t.call \in {"none", "read"}
  BY <1>1 DEF Call
<1>5. u.pc = pc /\ u.call = t.call /\ u.left = t.left - 1
  <2> DEFINE v == InCall(pc, t.call, line, t.left - 1, got)
  <2>1. v.pc = pc /\ v.call = t.call /\ v.left = t.left - 1
    BY DEF InCall
  <2> HIDE DEF v
  <2>2. u = v
    BY <1>2 DEF v
  <2> QED BY <2>1, <2>2, Zenon
<1>6. InCall(pc, t.call, line, t.left - 1, got) \in Call
  BY <1>1, <1>3, <1>4 DEF Call, Waits, InCall
<1>7. u \in Call
  BY <1>2, <1>6, Zenon
<1> QED BY <1>3, <1>5, <1>7 DEF CallOK, Waits, Edition

\* The echo keeps the line at the end of the screen.
LEMMA EchoFollows ==
    ASSUME NEW s \in Seq(Chars), NEW line \in Seq(Chars), NEW c \in Chars, EndsWith(s, line)
    PROVE  /\ EndsWith(Append(s, c), Append(line, c))
           /\ line # <<>> => s # <<>> /\ EndsWith(ButLast(s), ButLast(line))
<1>1. EndsWith(Append(s, c), Append(line, c))
  <2> DEFINE a == Append(s, c)
             b == Append(line, c)
  <2>1. Len(a) = Len(s) + 1 /\ a[Len(s) + 1] = c /\ \A k \in 1 .. Len(s) : a[k] = s[k]
    BY AppendProperties
  <2>2. Len(b) = Len(line) + 1 /\ b[Len(line) + 1] = c /\ \A k \in 1 .. Len(line) : b[k] = line[k]
    BY AppendProperties
  <2> HIDE DEF a, b
  <2>3. Len(s) \in Nat /\ Len(line) \in Nat
    OBVIOUS
  <2>4. ASSUME NEW k \in 1 .. Len(b) PROVE a[Len(a) - Len(b) + k] = b[k]
    <3>1. CASE k = Len(line) + 1
      <4>1. Len(a) - Len(b) + k = Len(s) + 1
        BY <2>1, <2>2, <2>3, <3>1
      <4> QED BY <2>1, <2>2, <3>1, <4>1
    <3>2. CASE k # Len(line) + 1
      <4> DEFINE j == Len(s) - Len(line) + k
      <4>1. k \in 1 .. Len(line) /\ j \in 1 .. Len(s) /\ Len(a) - Len(b) + k = j
        BY <2>1, <2>2, <2>3, <3>2 DEF EndsWith
      <4>2. s[j] = line[k]
        BY <4>1 DEF EndsWith
      <4> HIDE DEF j
      <4> QED BY <2>1, <2>2, <4>1, <4>2
    <3> QED BY <3>1, <3>2
  <2>5. Len(b) <= Len(a)
    BY <2>1, <2>2, <2>3 DEF EndsWith
  <2>6. EndsWith(a, b)
    BY <2>4, <2>5 DEF EndsWith
  <2> QED BY <2>6 DEF a, b
<1>2. ASSUME line # <<>> PROVE s # <<>> /\ EndsWith(ButLast(s), ButLast(line))
  <2>1. Len(line) \in Nat \ {0} /\ Len(s) \in Nat
    BY <1>2, ButLastProperties
  <2>2. s # <<>>
    BY <2>1 DEF EndsWith
  <2> DEFINE a == ButLast(s)
             b == ButLast(line)
  <2>3. Len(a) = Len(s) - 1 /\ \A k \in 1 .. Len(s) - 1 : a[k] = s[k]
    BY <2>2, ButLastProperties
  <2>4. Len(b) = Len(line) - 1 /\ \A k \in 1 .. Len(line) - 1 : b[k] = line[k]
    BY <1>2, ButLastProperties
  <2> HIDE DEF a, b
  <2>5. ASSUME NEW k \in 1 .. Len(b) PROVE a[Len(a) - Len(b) + k] = b[k]
    <3> DEFINE j == Len(s) - Len(line) + k
    <3>1. k \in 1 .. Len(line) /\ k \in 1 .. Len(line) - 1 /\ j \in 1 .. Len(s) - 1
          /\ Len(a) - Len(b) + k = j
      BY <2>1, <2>3, <2>4 DEF EndsWith
    <3>2. s[j] = line[k]
      BY <3>1 DEF EndsWith
    <3> HIDE DEF j
    <3> QED BY <2>3, <2>4, <3>1, <3>2
  <2> QED BY <2>1, <2>2, <2>3, <2>4, <2>5 DEF EndsWith, a, b
<1> QED BY <1>1, <1>2

\* Who is running stays one of the threads.
LEMMA OtherIsAThread ==
    ASSUME running \in Threads
    PROVE  Other \in Threads
<1> DEFINE n == Cardinality(Threads)
<1>1. IsFiniteSet(Threads) /\ Threads = 0 .. n - 1
  BY TerminalAssumption
<1>2. n \in Nat
  BY <1>1, FS_CardinalityType
<1> HIDE DEF n
<1>3. n # 0 /\ running + 1 \in Nat
  BY <1>1, <1>2
<1>4. (running + 1) % n \in 0 .. n - 1
  BY <1>2, <1>3
<1> QED BY <1>1, <1>4 DEF Other, n

\* A call of one thread changes, and the screen with it.
LEMMA CallChanges ==
    ASSUME GetsInv, FifoInv', NEW u, CallOK(u), thr' = [thr EXCEPT ![running] = u],
           running' \in Threads, readers' = readers, screen' \in Seq(Chars),
           running \in readers \/ u = NoCall,
           running \in readers \/ screen' = screen,
           u.call = "gets" /\ (\A v \in readers : v = running) => EndsWith(screen', u.line)
    PROVE  GetsInv'
<1>1. running \in Threads /\ thr \in [Threads -> Call] /\ u \in Call
  BY DEF GetsInv, CallOK
<1>2. thr' \in [Threads -> Call] /\ thr'[running] = u
  BY <1>1
<1>3. \A t \in Threads : t # running => thr'[t] = thr[t]
  BY <1>1
<1>4. ASSUME NEW t \in Threads
      PROVE  /\ CallOK(thr'[t])
             /\ t \notin readers => thr'[t] = NoCall
             /\ (\A v \in readers : v = t) /\ thr'[t].call = "gets" => EndsWith(screen', thr'[t].line)
  <2>1. CASE t = running
    BY <1>2, <2>1, Zenon
  <2>2. CASE t # running
    <3>1. /\ CallOK(thr[t]) /\ (t \notin readers => thr[t] = NoCall)
          /\ (\A v \in readers : v = t) /\ thr[t].call = "gets" => EndsWith(screen, thr[t].line)
      BY DEF GetsInv
    <3>2. (\A v \in readers : v = t) => screen' = screen
      BY <2>2
    <3>3. thr'[t] = thr[t]
      BY <1>3, <2>2
    <3> QED BY <3>1, <3>2, <3>3
  <2> QED BY <2>1, <2>2
<1>5. readers' \in SUBSET Threads
  BY DEF GetsInv
<1> QED BY <1>2, <1>4, <1>5 DEF GetsInv

\* Nothing that concerns the lines changes.
LEMMA LinesUnchanged ==
    ASSUME GetsInv, FifoInv', UNCHANGED <<thr, readers, screen>>, running' \in Threads
    PROVE  GetsInv'
BY DEF GetsInv

LEMMA NoCallOK == CallOK(NoCall) /\ NoCall.call = "none"
<1>1. NoCall \in Call
  BY DEF NoCall, Call
<1>2. NoCall.call = "none" /\ NoCall.pc = "user"
  BY DEF NoCall
<1> QED BY <1>1, <1>2 DEF CallOK, Edition, Waits

LEMMA KeyKeepsGot ==
    ASSUME NEW t \in Call, NEW c, NEW g
    PROVE  /\ Edited(t, c).got = t.got /\ [Edited(t, c) EXCEPT !.got = g].line = Edited(t, c).line
           /\ Stored(t, c, FALSE).got = t.got
           /\ [Stored(t, c, FALSE) EXCEPT !.got = g].line = Stored(t, c, FALSE).line
BY DEF Call, Edited, Erased, Stored

\* A turn of the loop of the driver.
LEMMA PullKeepsGetsInv ==
    ASSUME GetsInv, FifoInv', PullChar PROVE GetsInv'
<1> DEFINE t == thr[running]
           c == ring.data[ring.pt_read]
           e == IF t.call = "gets" THEN Edited(t, c) ELSE Stored(t, c, FALSE)
           u == [e EXCEPT !.got = Append(t.got, c)]
<1>1. /\ running \in Threads /\ thr \in [Threads -> Call] /\ t \in Call /\ CallOK(t)
      /\ screen \in Seq(Chars) /\ t.pc \in {"read", "readLF"} /\ readers' = readers
  BY DEF GetsInv, PullChar
<1>2. running \in readers
  <2>1. t # NoCall
    BY <1>1 DEF NoCall
  <2> QED BY <1>1, <2>1 DEF GetsInv
<1>3. (\A v \in readers : v = running) /\ t.call = "gets" => EndsWith(screen, t.line)
  BY <1>1 DEF GetsInv
<1>4. CASE Empty
  <2> DEFINE pc == IF t.pc = "read" THEN "window" ELSE "windowLF"
             w == [t EXCEPT !.pc = pc]
  <2>1. thr' = [thr EXCEPT ![running] = w] /\ running' = Other /\ screen' = screen
    BY <1>1, <1>4 DEF PullChar
  <2>2. /\ w \in Call /\ w.pc = pc /\ w.call = t.call /\ w.line = t.line /\ w.left = t.left
        /\ w.got = t.got
    BY <1>1 DEF Call, Waits
  <2> HIDE DEF w
  <2>3. (w.pc \in {"readLF", "windowLF"}) <=> (t.pc \in {"readLF", "windowLF"})
    BY <1>1, <2>2
  <2>4. Edition(w)
    <3>1. (IF w.pc \in {"readLF", "windowLF"} THEN TRUE ELSE FALSE)
             = (IF t.pc \in {"readLF", "windowLF"} THEN TRUE ELSE FALSE)
      BY <2>3
    <3> HIDE DEF t, pc
    <3> QED BY <1>1, <2>2, <3>1, Zenon DEF CallOK, Edition
  <2>5. CallOK(w)
    BY <1>1, <2>2, <2>4 DEF CallOK, Waits
  <2>6. Other \in Threads
    BY <1>1, OtherIsAThread
  <2> HIDE DEF t
  <2> QED BY <1>1, <1>2, <1>3, <2>1, <2>2, <2>5, <2>6, CallChanges
<1>5. CASE ~Empty
  <2>1. thr' = [thr EXCEPT ![running] = [e EXCEPT !.got = Append(@, c)]] /\ running' = running
        /\ screen' = Echo(t, e)
    BY <1>5 DEF PullChar
  <2>2. c \in Chars
    BY DEF GetsInv, FifoInv, FifoTypeOK
  <2>3. thr' = [thr EXCEPT ![running] = u] /\ u.line = e.line
    <3>1. e.got = t.got /\ u.line = e.line
      <4> DEFINE g == Append(t.got, c)
      <4> HIDE DEF t, c, g
      <4>1. CASE t.call = "gets"
        <5>1. e = Edited(t, c)
          BY <4>1
        <5> HIDE DEF e
        <5>2. Edited(t, c).got = t.got /\ [Edited(t, c) EXCEPT !.got = g].line = Edited(t, c).line
          BY <1>1, KeyKeepsGot
        <5>3. e.got = t.got /\ [e EXCEPT !.got = g].line = e.line
          BY <5>1, <5>2, Zenon
        <5> QED BY <5>3 DEF g
      <4>2. CASE t.call # "gets"
        <5>1. e = Stored(t, c, FALSE)
          BY <4>2
        <5> HIDE DEF e
        <5>2. /\ Stored(t, c, FALSE).got = t.got
              /\ [Stored(t, c, FALSE) EXCEPT !.got = g].line = Stored(t, c, FALSE).line
          BY <1>1, KeyKeepsGot
        <5>3. e.got = t.got /\ [e EXCEPT !.got = g].line = e.line
          BY <5>1, <5>2, Zenon
        <5> QED BY <5>3 DEF g
      <4> QED BY <4>1, <4>2
    <3> HIDE DEF t, c, e
    <3> QED BY <2>1, <3>1
  <2>4. t.line \in Seq(Chars) /\ Len(t.line) \in Nat
    BY <1>1 DEF Call
  <2>5. CASE t.call = "gets"
    <3>1. e = Edited(t, c)
      BY <2>5
    <3>2. CallOK(u) /\ u.call = "gets" /\ Grown(t.line, u.line, c)
      <4> HIDE DEF t, c
      <4>1. u = [Edited(t, c) EXCEPT !.got = Append(t.got, c)]
        BY <3>1
      <4> HIDE DEF u, e
      <4> QED BY <1>1, <2>2, <2>5, <4>1, KeyInBuffer
    <3> HIDE DEF t, c, u, e
    <3>3. CASE u.line = t.line
      <4>1. screen' = screen
        BY <2>1, <2>3, <2>4, <3>3 DEF Echo
      <4>2. (\A v \in readers : v = running) => EndsWith(screen', u.line)
        BY <1>3, <2>5, <3>3, <4>1
      <4> QED BY <1>1, <1>2, <2>1, <2>3, <3>2, <4>1, <4>2, CallChanges
    <3>4. CASE u.line = Append(t.line, c)
      <4>1. Len(u.line) = Len(t.line) + 1 /\ u.line[Len(u.line)] = c
        BY <2>2, <2>4, <3>4, AppendProperties
      <4>2. screen' = Append(screen, c)
        BY <2>1, <2>3, <2>4, <2>5, <4>1 DEF Echo
      <4>3. screen' \in Seq(Chars)
        BY <1>1, <2>2, <4>2, AppendProperties
      <4>4. (\A v \in readers : v = running) => EndsWith(screen', u.line)
        BY <1>1, <1>3, <2>2, <2>4, <2>5, <3>4, <4>2, EchoFollows
      <4> QED BY <1>1, <1>2, <2>1, <2>3, <3>2, <4>3, <4>4, CallChanges
    <3>5. CASE t.line # <<>> /\ u.line = ButLast(t.line)
      <4>1. Len(u.line) = Len(t.line) - 1
        BY <2>4, <3>5, ButLastProperties
      <4>2. screen' = IF screen # <<>> THEN ButLast(screen) ELSE screen
        BY <2>1, <2>3, <2>4, <4>1 DEF Echo
      <4>3. screen' \in Seq(Chars)
        BY <1>1, <4>2, ButLastProperties
      <4>4. (\A v \in readers : v = running) => EndsWith(screen', u.line)
        BY <1>1, <1>3, <2>2, <2>4, <2>5, <3>5, <4>2, EchoFollows
      <4> QED BY <1>1, <1>2, <2>1, <2>3, <3>2, <4>3, <4>4, CallChanges
    <3> QED BY <3>2, <3>3, <3>4, <3>5 DEF Grown
  <2>6. CASE t.call # "gets"
    <3>1. e = Stored(t, c, FALSE)
      BY <2>6
    <3>2. CallOK(u) /\ u.call # "gets"
      BY <1>1, <2>2, <2>6, <3>1, CharInBuffer
    <3>3. e.line = Append(t.line, c)
      BY <1>1, <3>1 DEF Stored, Call
    <3> HIDE DEF t, c, u, e
    <3>4. Len(e.line) = Len(t.line) + 1
      BY <2>2, <2>4, <3>3, AppendProperties
    <3>5. screen' = screen
      BY <2>1, <2>4, <2>6, <3>4 DEF Echo
    <3> QED BY <1>1, <1>2, <2>1, <2>3, <3>2, <3>5, CallChanges
  <2> QED BY <2>5, <2>6
<1> QED BY <1>4, <1>5

LEMMA GetsSteps ==
    ASSUME GetsInv, [TerminalNext]_tvars PROVE GetsInv'
<1>0. FifoInv'
  BY FifoSteps DEF GetsInv
<1>1. running \in Threads /\ Other \in Threads
  BY OtherIsAThread DEF GetsInv
<1>2. CASE (\E c \in Keys : Type(c)) \/ tty_isr \/ tick_event \/ tty_poll \/ UNCHANGED tvars
  <2>1. UNCHANGED <<thr, readers, screen>> /\ (running' = running \/ running' = Other)
    BY <1>2 DEF Type, tty_isr, soclib_tty_isr, ns16550_isr, PushChar, tick_event, tty_poll, tvars
  <2> QED BY <1>0, <1>1, <2>1, LinesUnchanged
<1>3. ASSUME NEW call \in {"read", "gets"}, NEW count \in Nat, Begin(call, count),
             call = "gets" => count + 1 \in BufSizes
      PROVE  GetsInv'
  <2> DEFINE pc == IF count = 0 THEN "end" ELSE "read"
             u == [NoCall EXCEPT !.call = call, !.left = count, !.pc = pc]
  <2>1. /\ running \in readers /\ thr' = [thr EXCEPT ![running] = u] /\ running' = running
        /\ readers' = readers /\ screen' = screen
    BY <1>3 DEF Begin
  <2>2. u = InCall(pc, call, <<>>, count, <<>>)
    <3> HIDE DEF pc
    <3>1. NoCall \in Call /\ NoCall.line = <<>> /\ NoCall.got = <<>>
      BY NoCallOK DEF CallOK, NoCall
    <3>2. u = [pc |-> pc, call |-> call, line |-> NoCall.line, left |-> count, got |-> NoCall.got]
      <4> DEFINE a == [NoCall EXCEPT !.call = call]
                 b == [a EXCEPT !.left = count]
      <4>1. a = [pc |-> NoCall.pc, call |-> call, line |-> NoCall.line, left |-> NoCall.left, got |-> NoCall.got]
        BY <3>1 DEF Call
      <4> HIDE DEF a
      <4>2. b = [pc |-> NoCall.pc, call |-> call, line |-> NoCall.line, left |-> count, got |-> NoCall.got]
        BY <4>1
      <4> HIDE DEF b
      <4>3. [b EXCEPT !.pc = pc] = [pc |-> pc, call |-> call, line |-> NoCall.line, left |-> count, got |-> NoCall.got]
        BY <4>2
      <4>4. u = [b EXCEPT !.pc = pc]
        BY DEF a, b
      <4> QED BY <4>3, <4>4
    <3> QED BY <3>1, <3>2, Zenon DEF InCall
  <2>3. screen \in Seq(Chars) /\ EndsWith(screen, <<>>)
    BY DEF GetsInv, EndsWith
  <2>4. CASE call = "gets"
    <3>1. KeysEdited(<<>>) = [cr |-> IF pc = "readLF" THEN TRUE ELSE FALSE, line |-> <<>>]
      BY NothingEdited DEF NoLine
    <3>2. Place_(pc, <<>>, count, <<>>)
      BY <1>3 DEF Place_
    <3>3. count + Len(<<>>) + 1 \in BufSizes
      BY <1>3, <2>4
    <3> HIDE DEF pc
    <3>4. GetsCalled(InCall(pc, "gets", <<>>, count, <<>>), <<>>)
      BY <3>1, <3>2, <3>3, GetsCall
    <3> HIDE DEF u
    <3>5. CallOK(u) /\ u.line = <<>>
      BY <2>2, <2>4, <3>4 DEF GetsCalled
    <3> QED BY <1>0, <1>1, <2>1, <2>3, <3>5, CallChanges
  <2>5. CASE call = "read"
    <3>1. u.call = "read" /\ u.pc = pc /\ u.left = count
      BY <2>5 DEF NoCall
    <3>2. InCall(pc, call, <<>>, count, <<>>) \in Call
      BY <1>3, <2>5 DEF InCall, Call, Waits
    <3>3. pc \in Waits => count >= 1
      BY <1>3 DEF Waits
    <3> HIDE DEF u, pc
    <3>4. CallOK(u)
      BY <2>2, <3>1, <3>2, <3>3 DEF CallOK, Edition
    <3> QED BY <1>0, <1>1, <2>1, <2>3, <3>1, <3>4, CallChanges
  <2> QED BY <1>3, <2>4, <2>5
<1>4. CASE tty_read
  <2>1. PICK count \in BufSizes : Begin("read", count)
    BY <1>4 DEF tty_read
  <2>2. count \in Nat
    BY TerminalAssumption
  <2> QED BY <1>3, <2>1, <2>2
<1>5. CASE tty_gets
  <2>1. PICK count \in BufSizes : Begin("gets", count - 1)
    BY <1>5 DEF tty_gets
  <2>2. count \in Nat \ {0}
    BY TerminalAssumption
  <2>3. count - 1 \in Nat /\ (count - 1) + 1 = count
    BY <2>2
  <2> QED BY <1>3, <2>1, <2>3
<1>6. CASE PullChar
  BY <1>0, <1>6, PullKeepsGetsInv
<1>7. CASE CloseWindow
  <2> DEFINE t == thr[running]
             pc == IF t.pc = "window" THEN "read" ELSE "readLF"
             w == [t EXCEPT !.pc = pc]
  <2>1. /\ thr' = [thr EXCEPT ![running] = w] /\ running' = running /\ screen' = screen
        /\ readers' = readers /\ t.pc \in {"window", "windowLF"}
    BY <1>1, <1>7 DEF CloseWindow
  <2>2. /\ t \in Call /\ CallOK(t) /\ screen \in Seq(Chars)
        /\ (\A v \in readers : v = running) /\ t.call = "gets" => EndsWith(screen, t.line)
    BY <1>1 DEF GetsInv
  <2>3. running \in readers
    <3>1. t # NoCall
      BY <2>1 DEF NoCall
    <3> QED BY <1>1, <3>1 DEF GetsInv
  <2>4. /\ w \in Call /\ w.pc = pc /\ w.call = t.call /\ w.line = t.line /\ w.left = t.left
        /\ w.got = t.got
    BY <2>2 DEF Call, Waits
  <2> HIDE DEF w
  <2>5. Edition(w)
    <3>1. (IF w.pc \in {"readLF", "windowLF"} THEN TRUE ELSE FALSE)
             = (IF t.pc \in {"readLF", "windowLF"} THEN TRUE ELSE FALSE)
      BY <2>1, <2>4
    <3> HIDE DEF t, pc
    <3> QED BY <2>2, <2>4, <3>1, Zenon DEF CallOK, Edition
  <2>6. CallOK(w)
    BY <2>1, <2>2, <2>4, <2>5 DEF CallOK, Waits
  <2> HIDE DEF t
  <2> QED BY <1>0, <1>1, <2>1, <2>2, <2>3, <2>4, <2>6, CallChanges
<1>8. CASE Return
  <2>1. thr' = [thr EXCEPT ![running] = NoCall] /\ UNCHANGED <<running, screen, readers>>
    BY <1>8 DEF Return
  <2>2. screen \in Seq(Chars)
    BY DEF GetsInv
  <2> QED BY <1>0, <1>1, <2>1, <2>2, NoCallOK, CallChanges
<1> QED BY <1>2, <1>4, <1>5, <1>6, <1>7, <1>8
        DEF TerminalNext, Kernel, soclib_tty_read, ns16550_read

\* The invariant is what LinesAreEdited says.
LEMMA GetsGivesLines == GetsInv => LinesAreEdited
<1> SUFFICES ASSUME GetsInv, NEW t \in Threads, thr[t].call = "gets"
             PROVE  /\ thr[t].line = LineOf(thr[t].got)
                    /\ thr[t].left >= 0 /\ thr[t].left + Len(thr[t].line) + 1 \in BufSizes
                    /\ Cardinality(readers) = 1 =>
                         \E n \in 0 .. Len(screen) : SubSeq(screen, n + 1, Len(screen)) = thr[t].line
  BY DEF LinesAreEdited
<1> DEFINE line == thr[t].line
<1>1. thr[t] \in Call /\ CallOK(thr[t]) /\ screen \in Seq(Chars) /\ readers \in SUBSET Threads
  BY DEF GetsInv
<1>2. line = LineOf(thr[t].got) /\ thr[t].left + Len(line) + 1 \in BufSizes
  BY <1>1 DEF CallOK, Edition, LineOf
<1>3. thr[t].left >= 0 /\ line \in Seq(Chars)
  BY <1>1 DEF Call
<1>4. ASSUME Cardinality(readers) = 1
      PROVE  \E n \in 0 .. Len(screen) : SubSeq(screen, n + 1, Len(screen)) = line
  <2>1. PICK v : readers = {v}
    <3>1. IsFiniteSet(readers)
      BY <1>1, TerminalAssumption, FS_Subset
    <3> QED BY <1>4, <3>1, FS_Singleton
  <2>2. t \in readers
    BY NoCallOK DEF GetsInv
  <2>3. EndsWith(screen, line)
    BY <2>1, <2>2 DEF GetsInv
  <2> HIDE DEF line
  <2> DEFINE s == screen
             m == Len(s)
             l == Len(line)
             n == m - l
             b == SubSeq(s, n + 1, m)
  <2>4. m \in Nat /\ l \in Nat /\ l <= m
    BY <1>1, <1>3, <2>3 DEF EndsWith
  <2>5. \A k \in 1 .. l : s[n + k] = line[k]
    BY <2>3 DEF EndsWith
  <2>6. \A k \in n + 1 .. m : s[k] \in Chars
    <3>1. \A k \in 1 .. m : s[k] \in Chars
      BY <1>1
    <3> HIDE DEF m, l, s
    <3> QED BY <2>4, <3>1
  <2> HIDE DEF m, l
  <2>7. n \in Nat /\ n \in 0 .. m /\ n + 1 \in Int /\ m \in Int
    BY <2>4
  <2> HIDE DEF n, s
  <2>8. /\ b \in Seq(Chars) /\ Len(b) = (IF n + 1 <= m THEN m - (n + 1) + 1 ELSE 0)
        /\ \A i \in 1 .. m - (n + 1) + 1 : b[i] = s[n + 1 + i - 1]
    BY <2>6, <2>7, SubSeqProperties
  <2> HIDE DEF b
  <2>9. Len(b) = l
    BY <2>4, <2>8 DEF n
  <2>10. ASSUME NEW i \in 1 .. l PROVE b[i] = line[i]
    <3>1. i \in 1 .. m - (n + 1) + 1 /\ n + 1 + i - 1 = n + i
      BY <2>4, <2>7 DEF n
    <3>2. b[i] = s[n + 1 + i - 1]
      BY <2>8, <3>1
    <3>3. s[n + i] = line[i]
      BY <2>5
    <3> QED BY <3>1, <3>2, <3>3
  <2>11. b = line
    BY <1>3, <2>8, <2>9, <2>10, SeqEqual DEF l
  <2> QED BY <2>7, <2>11 DEF b, s, m
<1> QED BY <1>2, <1>3, <1>4

\* The line that tty_gets() gives is the one that the keys say, carriage returns and
\* corrections included, it fits in the buffer with its NUL, and the screen of a
\* single reader ends with it: for any buffer sizes, keys and threads, whatever the
\* interrupts and the timer do between two characters.
THEOREM LinesAreWhatTheKeysSay == TerminalSpec => []LinesAreEdited
<1>1. TerminalInit => GetsInv
  <2> SUFFICES ASSUME TerminalInit PROVE GetsInv
    OBVIOUS
  <2>1. FifoInv
    BY FifoInitially
  <2>2. /\ thr = [t \in Threads |-> NoCall] /\ running = 0 /\ screen = <<>>
        /\ readers \in (SUBSET Threads) \ {{}}
    BY DEF TerminalInit
  <2>3. running \in Threads
    <3>1. PICK t : t \in Threads
      BY <2>2
    <3> DEFINE n == Cardinality(Threads)
    <3>2. IsFiniteSet(Threads) /\ Threads = 0 .. n - 1
      BY TerminalAssumption
    <3>3. n \in Nat
      BY <3>2, FS_CardinalityType
    <3> HIDE DEF n
    <3> QED BY <2>2, <3>1, <3>2, <3>3
  <2>4. screen \in Seq(Chars)
    BY <2>2
  <2>5. \A t \in Threads : thr[t] = NoCall /\ thr[t].call # "gets"
    BY <2>2, NoCallOK
  <2>6. thr \in [Threads -> Call]
    BY <2>2, NoCallOK DEF CallOK
  <2> QED BY <2>1, <2>2, <2>3, <2>4, <2>5, <2>6, NoCallOK DEF GetsInv
<1>2. GetsInv /\ [TerminalNext]_tvars => GetsInv'
  BY GetsSteps
<1>3. GetsInv => LinesAreEdited
  BY GetsGivesLines
<1> QED BY <1>1, <1>2, <1>3, PTL DEF TerminalSpec

-----------------------------------------------------------------------------
(***************************************************************************)
(* The platform.                                                           *)
(***************************************************************************)

\* dma_memcpy_user(): below the kernel an address plus a length that were accepted
\* does not wrap.
LEMMA CopyStaysBelow ==
    ASSUME NEW a \in 0 .. WordSize - 1, NEW n \in 0 .. WordSize - 1, NEW k \in 0 .. n - 1,
           a < KernelBase, n < KernelBase, Plus(a, n) < KernelBase
    PROVE  Plus(a, k) < KernelBase
<1>1. WordSize \in Nat /\ KernelBase \in Nat /\ KernelBase + KernelBase = WordSize
  BY PlatformAssumption DEF KernelBase
<1>2. a + n \in 0 .. WordSize - 1 /\ a + k \in 0 .. WordSize - 1
  BY <1>1
<1>3. WordSize \in Nat \ {0}
  BY <1>1
<1>4. (a + n) % WordSize = a + n /\ (a + k) % WordSize = a + k
  BY <1>2, <1>3, ModOfSmall, Zenon
<1>5. Plus(a, n) = a + n /\ Plus(a, k) = a + k
  BY <1>4, Zenon DEF Plus
<1>6. a + n < KernelBase
  BY <1>5
<1>7. a + k < KernelBase
  BY <1>1, <1>6
<1> QED BY <1>5, <1>7

\* A copy that a program asks for never touches the kernel, for any word size and
\* whatever devices there are: the copy of four times the length is never made.
THEOREM CopiesAvoidTheKernel == PlatformSpec => []UserCopiesAvoidTheKernel
<1>1. PlatformInit => UserCopiesAvoidTheKernel
  BY DEF PlatformInit, UserCopiesAvoidTheKernel
<1>2. UserCopiesAvoidTheKernel /\ [PlatformNext]_pvars => UserCopiesAvoidTheKernel'
  <2> SUFFICES ASSUME UserCopiesAvoidTheKernel, [PlatformNext]_pvars
               PROVE  UserCopiesAvoidTheKernel'
    OBVIOUS
  <2>1. CASE Copies
    <3>1. PICK dest \in 0 .. WordSize - 1, src \in 0 .. WordSize - 1, n \in Sizes_ :
             dma_memcpy_user(dest, src, n)
      BY <2>1 DEF Copies
    <3>2. n \in 0 .. WordSize - 1
      BY PlatformAssumption
    <3>3. CASE Refused(dest, src, n)
      BY <3>1, <3>3 DEF dma_memcpy_user, UserCopiesAvoidTheKernel
    <3>4. CASE ~ Refused(dest, src, n)
      <4>1. touched' \subseteq {Plus(a, k) : a \in {dest, src}, k \in 0 .. n - 1}
        <5>1. dmadev_get(0) # NULL_
          BY DEF dmadev_get, NULL_
        <5>2. touched' = IF dmadev_get(0) = "dma" THEN Area(dest, src, n) ELSE {}
          BY <3>1, <3>4, <5>1 DEF dma_memcpy_user
        <5> QED BY <5>2 DEF Area
      <4>2. KernelBase \in Int /\ \A a, k \in Int : Plus(a, k) \in Int
        BY PlatformAssumption DEF KernelBase, Plus
      <4>3. ASSUME NEW a \in {dest, src}
            PROVE  /\ a \in 0 .. WordSize - 1
                   /\ a < KernelBase /\ n < KernelBase /\ Plus(a, n) < KernelBase
        <5>1. a \in Int /\ n \in Int /\ Plus(a, n) \in Int /\ KernelBase \in Int
          BY <3>2, <4>2
        <5>2. ~ (a >= KernelBase) /\ ~ (n >= KernelBase) /\ ~ (Plus(a, n) >= KernelBase)
          BY <3>4, Zenon DEF Refused
        <5> QED BY <5>1, <5>2
      <4>4. \A a \in {dest, src}, k \in 0 .. n - 1 : Plus(a, k) < KernelBase
        BY <3>2, <4>3, CopyStaysBelow
      <4>5. ASSUME NEW x \in touched' PROVE x < WordSize \div 2
        <5>1. PICK a \in {dest, src}, k \in 0 .. n - 1 : x = Plus(a, k)
          BY <4>1
        <5> QED BY <4>4, <5>1, Zenon DEF KernelBase
      <4> QED BY <4>5 DEF UserCopiesAvoidTheKernel, KernelBase
    <3> QED BY <3>3, <3>4
  <2>2. CASE Boot \/ Interrupts \/ Registry \/ UNCHANGED pvars
    <3>1. touched' = touched
      BY <2>2 DEF Boot, InitNode, InitVirtNode, Interrupts, isrcall, isrcall_external, isrcall_timer, Raise,
                  Registry, Remove, Add, pvars
    <3> QED BY <3>1 DEF UserCopiesAvoidTheKernel, KernelBase
  <2> QED BY <2>1, <2>2 DEF PlatformNext
<1> QED BY <1>1, <1>2, PTL DEF PlatformSpec

\* The tags of kdev.h and the shape of the list of devices.
Tag == {"ICU_DEV", "CHAR_DEV", "BLOCK_DEV", "DMA_DEV", "TIMER_DEV"}
Device == [tag : Tag, minor : Nat, base : Int]
DevTypeOK == devList \in Seq(Device)

LEMMA DevicesOfList ==
    ASSUME DevTypeOK
    PROVE  /\ Len(devList) \in Nat /\ DOMAIN devList = 1 .. Len(devList)
           /\ \A n \in DOMAIN devList : n \in Int /\ devList[n] \in Device
           /\ \A n \in DOMAIN devList : devList[n].minor \in Nat
<1>1. Len(devList) \in Nat /\ DOMAIN devList = 1 .. Len(devList)
  BY DEF DevTypeOK
<1>2. \A n \in DOMAIN devList : n \in Int /\ devList[n] \in Device
  BY <1>1, ElementOfSeq DEF DevTypeOK
<1>3. \A d \in Device : d.minor \in Nat
  BY DEF Device
<1> QED BY <1>1, <1>2, <1>3

\* The minors of the devices with a tag increase along the list: the last one
\* gives the next minor, as dev_next_minor() does.
MinorsIncrease ==
    \A m, n \in DOMAIN devList :
        (m < n /\ devList[m].tag = devList[n].tag) => devList[m].minor < devList[n].minor

RegistryInv == DevTypeOK /\ MinorsIncrease

LEMMA LastTagged ==
    ASSUME DevTypeOK, NEW tag, Tagged(tag) # {}
    PROVE  \E n \in Tagged(tag) : \A m \in Tagged(tag) : m <= n
<1> DEFINE T == {Len(devList) - n : n \in Tagged(tag)}
<1>1. Len(devList) \in Nat /\ Tagged(tag) \subseteq 1 .. Len(devList)
  BY DEF DevTypeOK, Tagged
<1>2. T \in SUBSET Nat /\ T # {}
  BY <1>1
<1>3. PICK x \in T : \A y \in T : x <= y
  <2> HIDE DEF T
  <2> QED BY <1>2, LeastNumber
<1>4. PICK n \in Tagged(tag) : x = Len(devList) - n
  OBVIOUS
<1>5. ASSUME NEW m \in Tagged(tag) PROVE m <= n
  <2>1. Len(devList) - n <= Len(devList) - m
    BY <1>3, <1>4
  <2> QED BY <1>1, <2>1
<1> QED BY <1>5

\* dev_alloc() gives a minor above the ones of its tag.
LEMMA NextMinorIsAbove ==
    ASSUME RegistryInv, NEW tag
    PROVE  /\ dev_next_minor(tag) \in Nat
           /\ \A n \in DOMAIN devList : devList[n].tag = tag => devList[n].minor < dev_next_minor(tag)
<1>1. CASE Tagged(tag) = {}
  BY <1>1 DEF dev_next_minor, Tagged
<1>2. CASE Tagged(tag) # {}
  <2> DEFINE z == CHOOSE n \in Tagged(tag) : \A m \in Tagged(tag) : m <= n
  <2>1. z \in Tagged(tag) /\ \A m \in Tagged(tag) : m <= z
    BY <1>2, LastTagged DEF RegistryInv
  <2>2. dev_next_minor(tag) = devList[z].minor + 1
    BY <1>2 DEF dev_next_minor
  <2> HIDE DEF z
  <2>3. z \in DOMAIN devList /\ devList[z].tag = tag /\ devList[z].minor \in Nat
    BY <2>1, DevicesOfList DEF Tagged, RegistryInv
  <2>4. ASSUME NEW n \in DOMAIN devList, devList[n].tag = tag
        PROVE  devList[n].minor <= devList[z].minor /\ devList[n].minor \in Nat
    <3>1. n \in Tagged(tag) /\ n \in Int /\ z \in Int /\ devList[n].minor \in Nat
      BY <2>3, <2>4, DevicesOfList DEF Tagged, RegistryInv
    <3>2. n <= z
      BY <2>1, <3>1
    <3>3. CASE n = z
      BY <2>3, <3>3
    <3>4. CASE n < z
      BY <2>3, <2>4, <3>1, <3>4 DEF RegistryInv, MinorsIncrease
    <3> QED BY <3>1, <3>2, <3>3, <3>4
  <2> QED BY <2>2, <2>3, <2>4
<1> QED BY <1>1, <1>2

LEMMA AllocKeepsRegistryInv ==
    ASSUME RegistryInv, NEW tag \in Tag, NEW base \in Int, dev_alloc(tag, base)
    PROVE  RegistryInv'
<1> DEFINE new == [tag |-> tag, minor |-> dev_next_minor(tag), base |-> base]
           l == Len(devList)
<1>1. /\ dev_next_minor(tag) \in Nat
      /\ \A n \in DOMAIN devList : devList[n].tag = tag => devList[n].minor < dev_next_minor(tag)
  BY NextMinorIsAbove
<1>2. devList' = Append(devList, new)
  BY DEF dev_alloc
<1>3. new \in Device /\ new.tag = tag /\ new.minor = dev_next_minor(tag)
  BY <1>1 DEF Device
<1> HIDE DEF new
<1>4. l \in Nat /\ DOMAIN devList = 1 .. l /\ devList \in Seq(Device)
  BY DEF RegistryInv, DevTypeOK
<1>5. /\ DevTypeOK' /\ DOMAIN devList' = 1 .. l + 1
      /\ \A n \in 1 .. l : devList'[n] = devList[n]
      /\ devList'[l + 1] = new
  BY <1>2, <1>3, <1>4, AppendProperties DEF DevTypeOK
<1> HIDE DEF l
<1>6. ASSUME NEW m \in 1 .. l + 1, NEW n \in 1 .. l + 1, m < n, devList'[m].tag = devList'[n].tag
      PROVE  devList'[m].minor < devList'[n].minor
  <2>1. m \in 1 .. l
    BY <1>4, <1>6
  <2>2. CASE n \in 1 .. l
    BY <1>4, <1>5, <1>6, <2>1, <2>2 DEF RegistryInv, MinorsIncrease
  <2>3. CASE n = l + 1
    BY <1>1, <1>3, <1>4, <1>5, <1>6, <2>1, <2>3
  <2> QED BY <1>4, <2>2, <2>3
<1> QED BY <1>5, <1>6 DEF RegistryInv, MinorsIncrease

LEMMA FreeKeepsRegistryInv ==
    ASSUME RegistryInv, NEW i \in DOMAIN devList, dev_free(i)
    PROVE  RegistryInv'
<1> DEFINE l == Len(devList)
           at(n) == IF n < i THEN n ELSE n + 1
<1>1. /\ l \in Nat /\ DOMAIN devList = 1 .. l /\ i \in 1 .. l
      /\ \A n \in 1 .. l : devList[n] \in Device
  BY DevicesOfList DEF RegistryInv
<1>2. devList' = [n \in 1 .. l - 1 |-> devList[at(n)]]
  BY DEF dev_free
<1>3. \A n \in 1 .. l - 1 : at(n) \in 1 .. l
  BY <1>1
<1>4. \A m, n \in 1 .. l - 1 : m < n => at(m) < at(n)
  BY <1>1
<1> HIDE DEF l, at
<1>5. DevTypeOK' /\ DOMAIN devList' = 1 .. l - 1
  BY <1>1, <1>2, <1>3 DEF DevTypeOK
<1>6. \A n \in 1 .. l - 1 : devList'[n] = devList[at(n)]
  BY <1>2
<1> QED BY <1>1, <1>3, <1>4, <1>5, <1>6 DEF RegistryInv, MinorsIncrease

LEMMA OneName == ASSUME RegistryInv PROVE DevicesHaveOneName
<1>1. \A n \in DOMAIN devList : n \in Int /\ devList[n].minor \in Nat
  BY DevicesOfList DEF RegistryInv
<1>2. ASSUME NEW m \in DOMAIN devList, NEW n \in DOMAIN devList,
             devList[m].tag = devList[n].tag, devList[m].minor = devList[n].minor
      PROVE  m = n
  <2>1. CASE m < n
    BY <1>1, <1>2, <2>1 DEF RegistryInv, MinorsIncrease
  <2>2. CASE n < m
    BY <1>1, <1>2, <2>2 DEF RegistryInv, MinorsIncrease
  <2> QED BY <1>1, <2>1, <2>2
<1>3. ASSUME NEW n \in DOMAIN devList
      PROVE  dev_get(devList[n].tag, devList[n].minor) = {devList[n]}
  <2> DEFINE found == {m \in Tagged(devList[n].tag) : devList[m].minor = devList[n].minor}
  <2>1. found = {n}
    BY <1>2 DEF Tagged
  <2>2. (CHOOSE x \in found : \A m \in found : x <= m) = n
    BY <1>1, <2>1
  <2>3. dev_get(devList[n].tag, devList[n].minor) =
          IF found = {} THEN {} ELSE {devList[CHOOSE x \in found : \A m \in found : x <= m]}
    BY DEF dev_get
  <2> HIDE DEF found
  <2> QED BY <2>1, <2>2, <2>3
<1> QED BY <1>2, <1>3 DEF DevicesHaveOneName

LEMMA DriverTypes ==
    ASSUME NEW c \in DOMAIN Driver
    PROVE  Driver[c].tag \in Tag /\ Driver[c].by \in {"none", "icu", "plic", "cpu"}
<1> DEFINE Typed(d) == d.tag \in Tag /\ d.by \in {"none", "icu", "plic", "cpu"}
<1>1. ASSUME NEW a \in DOMAIN Almo1Driver PROVE Typed(Almo1Driver[a])
  <2>1. a \in {"soclib,icu", "soclib,tty", "soclib,bd", "soclib,dma", "soclib,timer"}
    BY <1>1 DEF Almo1Driver, Tag
  <2>2. CASE a = "soclib,icu"
    BY <2>2 DEF Almo1Driver, Tag
  <2>3. CASE a = "soclib,tty"
    BY <2>3 DEF Almo1Driver, Tag
  <2>4. CASE a = "soclib,bd"
    BY <2>4 DEF Almo1Driver, Tag
  <2>5. CASE a = "soclib,dma"
    BY <2>5 DEF Almo1Driver, Tag
  <2>6. CASE a = "soclib,timer"
    BY <2>6 DEF Almo1Driver, Tag
  <2> QED BY <2>1, <2>2, <2>3, <2>4, <2>5, <2>6
<1>2. ASSUME NEW v \in DOMAIN VirtDriver PROVE Typed(VirtDriver[v])
  <2>1. v \in {"riscv,plic0", "ns16550a", "sifive,clint0"}
    BY <1>2 DEF VirtDriver, Tag
  <2>2. CASE v = "riscv,plic0"
    BY <2>2 DEF VirtDriver, Tag
  <2>3. CASE v = "ns16550a"
    BY <2>3 DEF VirtDriver, Tag
  <2>4. CASE v = "sifive,clint0"
    BY <2>4 DEF VirtDriver, Tag
  <2> QED BY <2>1, <2>2, <2>3, <2>4
<1> HIDE DEF Typed
<1>3. Typed(Driver[c])
  BY <1>1, <1>2 DEF Driver
<1> QED BY <1>3 DEF Typed

LEMMA DriverOfAlmo1 ==
    ASSUME NEW c \in DOMAIN Almo1Driver PROVE Driver[c].by \in {"none", "icu"}
<1> DEFINE ByIcu(d) == d.by \in {"none", "icu"}
<1>1. c \in {"soclib,icu", "soclib,tty", "soclib,bd", "soclib,dma", "soclib,timer"}
  BY DEF Almo1Driver
<1>2. ByIcu(Almo1Driver[c])
  <2>2. CASE c = "soclib,icu"
    BY <2>2 DEF Almo1Driver
  <2>3. CASE c = "soclib,tty"
    BY <2>3 DEF Almo1Driver
  <2>4. CASE c = "soclib,bd"
    BY <2>4 DEF Almo1Driver
  <2>5. CASE c = "soclib,dma"
    BY <2>5 DEF Almo1Driver
  <2>6. CASE c = "soclib,timer"
    BY <2>6 DEF Almo1Driver
  <2> QED BY <1>1, <2>2, <2>3, <2>4, <2>5, <2>6
<1> HIDE DEF ByIcu
<1>3. ByIcu(Driver[c])
  BY <1>2 DEF Driver
<1> QED BY <1>3 DEF ByIcu

\* The nodes that are left are nodes of the tree that have a driver.
TreeInv == tree \in Trees /\ todo \subseteq soc_init(tree)

\* A device of the tree is there once, and not before its node is reached.
BasesInv ==
    /\ \A d, e \in DOMAIN devList : devList[d].base = devList[e].base /\ devList[d].base # 0 => d = e
    /\ \A n \in todo, d \in DOMAIN devList : devList[d].base # tree[n].reg

\* The two halves of InterruptsFindTheirDevice.
VectorOK(v, devs, unmasked) ==
    \A q \in DOMAIN v :
        /\ q \in unmasked
        /\ Wiring[v[q].arg] = q
        /\ \E n \in DOMAIN devs : devs[n].base = v[q].arg
RoutinesOK(v, devs) ==
    \A n \in soc_init(tree), d \in DOMAIN devs :
        /\ devs[d].base = tree[n].reg
        /\ Driver[tree[n].compatible].by = "icu"
        => /\ tree[n].interrupts \in DOMAIN v
           /\ v[tree[n].interrupts] = [handler |-> Driver[tree[n].compatible].isr, arg |-> tree[n].reg]

LEMMA TwoHalves ==
    /\ InterruptsFindTheirDevice <=>
          (~OnVirt => VectorOK(vector, devList, mask) /\ (fault # "icu" => RoutinesOK(vector, devList)))
    /\ UNCHANGED tree =>
          (InterruptsFindTheirDevice' <=>
             (~OnVirt => VectorOK(vector', devList', mask') /\ (fault' # "icu" => RoutinesOK(vector', devList'))))
<1>1. UNCHANGED tree => OnVirt' = OnVirt /\ soc_init(tree)' = soc_init(tree)
  BY DEF OnVirt, soc_init
<1> QED BY <1>1 DEF InterruptsFindTheirDevice, VectorOK, RoutinesOK

PlatformInv == TreeInv /\ RegistryInv /\ BasesInv /\ InterruptsFindTheirDevice

LEMMA NodesToDo ==
    ASSUME TreeInv, NEW n \in todo
    PROVE  /\ n \in soc_init(tree) /\ tree[n].compatible \in DOMAIN Driver
           /\ tree[n].reg \in Nat \ {0}
           /\ Driver[tree[n].compatible].by = "icu" => Wiring[tree[n].reg] = tree[n].interrupts
           /\ \A m \in soc_init(tree) \ {n} :
                 /\ tree[m].reg # tree[n].reg
                 /\ Driver[tree[m].compatible].by # "none" /\ Driver[tree[n].compatible].by # "none" =>
                       tree[m].interrupts # tree[n].interrupts
<1>1. n \in soc_init(tree) /\ tree \in Trees
  BY DEF TreeInv
<1>2. tree[n].compatible \in DOMAIN Driver
  BY <1>1 DEF soc_init
<1> QED BY <1>1, <1>2, TreesAssumption

\* The device of a node is added to the list, at its end.
LEMMA NodeAllocated ==
    ASSUME PlatformInv, NEW n \in todo, tree' = tree, todo' = todo \ {n},
           dev_alloc(Driver[tree[n].compatible].tag, tree[n].reg)
    PROVE  /\ TreeInv' /\ RegistryInv' /\ BasesInv'
           /\ DOMAIN devList' = DOMAIN devList \cup {Len(devList) + 1}
           /\ \A m \in DOMAIN devList : devList'[m] = devList[m]
           /\ devList'[Len(devList) + 1].base = tree[n].reg
<1> DEFINE drv == Driver[tree[n].compatible]
           base == tree[n].reg
           new == [tag |-> drv.tag, minor |-> dev_next_minor(drv.tag), base |-> base]
           fresh == Len(devList) + 1
<1>1. /\ tree[n].compatible \in DOMAIN Driver /\ base \in Nat \ {0} /\ drv.tag \in Tag
      /\ n \in soc_init(tree) /\ \A m \in soc_init(tree) \ {n} : tree[m].reg # base
  BY NodesToDo, DriverTypes DEF PlatformInv
<1>2. TreeInv'
  BY DEF PlatformInv, TreeInv
<1>3. RegistryInv'
  BY <1>1, AllocKeepsRegistryInv DEF PlatformInv
<1>4. devList' = Append(devList, new) /\ new.base = base
  BY DEF dev_alloc
<1>5. Len(devList) \in Nat /\ DOMAIN devList = 1 .. Len(devList) /\ devList \in Seq(Device)
  BY DevicesOfList DEF PlatformInv, RegistryInv, DevTypeOK
<1> HIDE DEF new
<1>6. /\ DOMAIN devList' = DOMAIN devList \cup {fresh} /\ fresh \notin DOMAIN devList
      /\ \A m \in DOMAIN devList : devList'[m] = devList[m]
      /\ devList'[fresh] = new
  BY <1>4, <1>5
<1> HIDE DEF fresh, drv, base
<1>7. \A d \in DOMAIN devList : devList[d].base # base
  BY DEF PlatformInv, BasesInv, base
<1>8. \A d, e \in DOMAIN devList' :
         devList'[d].base = devList'[e].base /\ devList'[d].base # 0 => d = e
  <2>1. \A d, e \in DOMAIN devList : devList[d].base = devList[e].base /\ devList[d].base # 0 => d = e
    BY DEF PlatformInv, BasesInv
  <2> QED BY <1>4, <1>6, <1>7, <2>1
<1>9. ASSUME NEW m \in todo', NEW d \in DOMAIN devList' PROVE devList'[d].base # tree'[m].reg
  <2>1. m \in todo /\ m # n /\ m \in soc_init(tree)
    BY DEF PlatformInv, TreeInv
  <2>2. CASE d \in DOMAIN devList
    BY <1>6, <2>1, <2>2 DEF PlatformInv, BasesInv
  <2>3. CASE d = fresh
    BY <1>1, <1>4, <1>6, <2>1, <2>3
  <2> QED BY <1>6, <2>2, <2>3
<1> QED BY <1>2, <1>3, <1>4, <1>6, <1>8, <1>9 DEF BasesInv, fresh, base

\* One device of almo1: its name, its routine and its line.
LEMMA InitNodeKeepsInv ==
    ASSUME PlatformInv, NEW n \in todo, InitNode(n) PROVE PlatformInv'
<1> DEFINE drv == Driver[tree[n].compatible]
           irq == tree[n].interrupts
           base == tree[n].reg
           fresh == Len(devList) + 1
           entry == [handler |-> drv.isr, arg |-> base]
<1>1. /\ n \in soc_init(tree) /\ base \in Nat \ {0}
      /\ drv.by = "icu" => Wiring[base] = irq
      /\ \A m \in soc_init(tree) \ {n} :
            /\ tree[m].reg # base
            /\ Driver[tree[m].compatible].by # "none" /\ drv.by # "none" => tree[m].interrupts # irq
  BY NodesToDo DEF PlatformInv
<1>2. tree' = tree /\ todo' = todo \ {n} /\ dev_alloc(drv.tag, base) /\ fault = "none"
  BY DEF InitNode
<1>3. /\ TreeInv' /\ RegistryInv' /\ BasesInv'
      /\ DOMAIN devList' = DOMAIN devList \cup {fresh}
      /\ \A m \in DOMAIN devList : devList'[m] = devList[m]
      /\ devList'[fresh].base = base
  BY <1>2, NodeAllocated
<1>4. drv.by \in {"none", "icu"}
  BY DriverOfAlmo1 DEF InitNode
<1>5. SUFFICES ASSUME ~OnVirt
               PROVE  VectorOK(vector', devList', mask') /\ (fault' # "icu" => RoutinesOK(vector', devList'))
  BY <1>2, <1>3, TwoHalves DEF PlatformInv
<1>6. VectorOK(vector, devList, mask) /\ RoutinesOK(vector, devList)
  BY <1>2, <1>5, TwoHalves DEF PlatformInv
<1>7. CASE drv.by = "none"
  <2>1. UNCHANGED <<mask, vector, fault>>
    BY <1>7 DEF InitNode
  <2>2. VectorOK(vector', devList', mask')
    BY <1>3, <1>6, <2>1 DEF VectorOK
  <2>3. RoutinesOK(vector', devList')
    <3> SUFFICES ASSUME NEW m \in soc_init(tree), NEW d \in DOMAIN devList',
                        devList'[d].base = tree[m].reg, Driver[tree[m].compatible].by = "icu"
                 PROVE  /\ tree[m].interrupts \in DOMAIN vector
                        /\ vector[tree[m].interrupts] =
                              [handler |-> Driver[tree[m].compatible].isr, arg |-> tree[m].reg]
      BY <2>1 DEF RoutinesOK
    <3>1. m # n
      BY <1>7
    <3>2. d \in DOMAIN devList
      BY <1>1, <1>3, <3>1
    <3> QED BY <1>3, <1>6, <3>2 DEF RoutinesOK
  <2> QED BY <2>2, <2>3
<1>8. CASE drv.by = "icu" /\ dev_get("ICU_DEV", 0) = {}
  <2>1. UNCHANGED <<mask, vector>> /\ fault' = "icu"
    BY <1>8 DEF InitNode
  <2> QED BY <1>3, <1>6, <2>1 DEF VectorOK
<1>9. CASE drv.by = "icu" /\ dev_get("ICU_DEV", 0) # {}
  <2>1. /\ mask' = mask \cup {irq}
        /\ vector' = [q \in DOMAIN vector \cup {irq} |-> IF q = irq THEN entry ELSE vector[q]]
    BY <1>9 DEF InitNode, icu_unmask, register_interrupt, get_irq
  <2>a. entry.arg = base
    OBVIOUS
  <2> HIDE DEF entry
  <2>2. /\ DOMAIN vector' = DOMAIN vector \cup {irq} /\ vector'[irq] = entry
        /\ \A q \in DOMAIN vector : q # irq => vector'[q] = vector[q]
    BY <2>1
  <2> HIDE DEF irq, base, fresh
  <2>3. VectorOK(vector', devList', mask')
    <3> SUFFICES ASSUME NEW q \in DOMAIN vector'
                 PROVE  /\ q \in mask' /\ Wiring[vector'[q].arg] = q
                        /\ \E m \in DOMAIN devList' : devList'[m].base = vector'[q].arg
      BY DEF VectorOK
    <3>1. CASE q = irq
      BY <1>1, <1>3, <1>9, <2>1, <2>a, <2>2, <3>1
    <3>2. CASE q # irq
      <4>1. q \in DOMAIN vector /\ vector'[q] = vector[q]
        BY <2>2, <3>2
      <4>2. /\ q \in mask /\ Wiring[vector[q].arg] = q
            /\ \E m \in DOMAIN devList : devList[m].base = vector[q].arg
        BY <1>6, <4>1 DEF VectorOK
      <4> QED BY <1>3, <2>1, <4>1, <4>2
    <3> QED BY <3>1, <3>2
  <2>4. RoutinesOK(vector', devList')
    <3> SUFFICES ASSUME NEW m \in soc_init(tree), NEW d \in DOMAIN devList',
                        devList'[d].base = tree[m].reg, Driver[tree[m].compatible].by = "icu"
                 PROVE  /\ tree[m].interrupts \in DOMAIN vector'
                        /\ vector'[tree[m].interrupts] =
                              [handler |-> Driver[tree[m].compatible].isr, arg |-> tree[m].reg]
      BY DEF RoutinesOK
    <3>1. CASE m = n
      BY <2>2, <3>1 DEF entry, irq, base
    <3>2. CASE m # n
      <4>1. tree[m].reg # base /\ tree[m].interrupts # irq
        BY <1>1, <1>9, <3>2
      <4>2. d \in DOMAIN devList /\ devList[d].base = tree[m].reg
        BY <1>3, <4>1
      <4>3. /\ tree[m].interrupts \in DOMAIN vector
            /\ vector[tree[m].interrupts] =
                  [handler |-> Driver[tree[m].compatible].isr, arg |-> tree[m].reg]
        BY <1>6, <4>2 DEF RoutinesOK
      <4> QED BY <2>2, <4>1, <4>3
    <3> QED BY <3>1, <3>2
  <2> QED BY <2>3, <2>4
<1> QED BY <1>4, <1>7, <1>8, <1>9

LEMMA InitVirtNodeKeepsInv ==
    ASSUME PlatformInv, NEW n \in todo, InitVirtNode(n) PROVE PlatformInv'
<1>1. /\ tree' = tree /\ todo' = todo \ {n} /\ tree[n].compatible \in DOMAIN VirtDriver
      /\ dev_alloc(Driver[tree[n].compatible].tag, tree[n].reg)
  BY DEF InitVirtNode
<1>2. TreeInv' /\ RegistryInv' /\ BasesInv'
  BY <1>1, NodeAllocated
<1>3. OnVirt
  <2>1. n \in soc_init(tree)
    BY DEF PlatformInv, TreeInv
  <2> QED BY <1>1, <2>1 DEF soc_init, OnVirt
<1> QED BY <1>1, <1>2, <1>3, TwoHalves DEF PlatformInv

\* A device that leaves takes its interrupt with it and no other.
LEMMA RemoveKeepsInv ==
    ASSUME PlatformInv, NEW i \in DOMAIN devList, Remove(i) PROVE PlatformInv'
<1>1. /\ dev_free(i) /\ UNCHANGED <<tree, todo, mask, fault>> /\ todo = {}
      /\ vector' = [q \in {p \in DOMAIN vector : vector[p].arg # devList[i].base} |-> vector[q]]
  BY DEF Remove, Running
<1> DEFINE l == Len(devList)
           Old(j) == IF j < i THEN j ELSE j + 1
<1>2. TreeInv' /\ RegistryInv'
  BY <1>1, FreeKeepsRegistryInv DEF PlatformInv, TreeInv
<1>3. l \in Nat /\ DOMAIN devList = 1 .. l /\ i \in 1 .. l
  BY DevicesOfList DEF PlatformInv, RegistryInv
<1>4. /\ DOMAIN devList' = 1 .. l - 1
      /\ \A j \in 1 .. l - 1 : devList'[j] = devList[Old(j)]
  BY <1>1 DEF dev_free
<1> HIDE DEF l
<1>5. \A j \in 1 .. l - 1 : Old(j) \in 1 .. l /\ Old(j) # i
  BY <1>3
<1>6. \A j, k \in 1 .. l - 1 : Old(j) = Old(k) => j = k
  BY <1>3
<1>7. ASSUME NEW m \in 1 .. l, m # i
      PROVE  \E k \in 1 .. l - 1 : Old(k) = m
  <2> DEFINE k == IF m < i THEN m ELSE m - 1
  <2>1. k \in 1 .. l - 1 /\ Old(k) = m
    BY <1>3, <1>7
  <2> QED BY <2>1
<1> HIDE DEF Old
<1>8. BasesInv'
  <2>1. \A d, e \in 1 .. l : devList[d].base = devList[e].base /\ devList[d].base # 0 => d = e
    BY <1>3 DEF PlatformInv, BasesInv
  <2>2. \A d, e \in 1 .. l - 1 : devList'[d].base = devList'[e].base /\ devList'[d].base # 0 => d = e
    BY <1>4, <1>5, <1>6, <2>1
  <2>3. todo' = {}
    BY <1>1
  <2> QED BY <1>4, <2>2, <2>3 DEF BasesInv
<1>9. SUFFICES ASSUME ~OnVirt
               PROVE  VectorOK(vector', devList', mask') /\ (fault' # "icu" => RoutinesOK(vector', devList'))
  BY <1>1, <1>2, <1>8, TwoHalves DEF PlatformInv
<1>10. VectorOK(vector, devList, mask) /\ (fault # "icu" => RoutinesOK(vector, devList))
  BY <1>9, TwoHalves DEF PlatformInv
<1>11. VectorOK(vector', devList', mask')
  <2> SUFFICES ASSUME NEW q \in DOMAIN vector'
               PROVE  /\ q \in mask' /\ Wiring[vector'[q].arg] = q
                      /\ \E m \in DOMAIN devList' : devList'[m].base = vector'[q].arg
    BY DEF VectorOK
  <2>1. q \in DOMAIN vector /\ vector'[q] = vector[q] /\ vector[q].arg # devList[i].base
    BY <1>1
  <2>2. /\ q \in mask /\ Wiring[vector[q].arg] = q
        /\ \E m \in DOMAIN devList : devList[m].base = vector[q].arg
    BY <1>10, <2>1 DEF VectorOK
  <2>3. PICK m \in 1 .. l : devList[m].base = vector[q].arg /\ m # i
    BY <1>3, <2>1, <2>2
  <2>4. PICK k \in 1 .. l - 1 : Old(k) = m
    BY <1>7, <2>3
  <2> QED BY <1>1, <1>4, <2>1, <2>2, <2>3, <2>4
<1>12. ASSUME fault' # "icu" PROVE RoutinesOK(vector', devList')
  <2> SUFFICES ASSUME NEW m \in soc_init(tree), NEW d \in DOMAIN devList',
                      devList'[d].base = tree[m].reg, Driver[tree[m].compatible].by = "icu"
               PROVE  /\ tree[m].interrupts \in DOMAIN vector'
                      /\ vector'[tree[m].interrupts] =
                            [handler |-> Driver[tree[m].compatible].isr, arg |-> tree[m].reg]
    BY DEF RoutinesOK
  <2>1. /\ Old(d) \in DOMAIN devList /\ Old(d) # i /\ devList[Old(d)].base = tree[m].reg
    BY <1>3, <1>4, <1>5
  <2>2. tree[m].reg \in Nat \ {0}
    BY TreesAssumption DEF PlatformInv, TreeInv
  <2>3. devList[i].base # tree[m].reg
    BY <2>1, <2>2 DEF PlatformInv, BasesInv
  <2> DEFINE q == tree[m].interrupts
             entry == [handler |-> Driver[tree[m].compatible].isr, arg |-> tree[m].reg]
  <2>4. q \in DOMAIN vector /\ vector[q] = entry
    BY <1>1, <1>10, <1>12, <2>1 DEF RoutinesOK
  <2>5. entry.arg = tree[m].reg
    OBVIOUS
  <2> HIDE DEF q, entry
  <2>6. q \in DOMAIN vector' /\ vector'[q] = vector[q]
    BY <1>1, <2>3, <2>4, <2>5
  <2> QED BY <2>4, <2>6 DEF q, entry
<1> QED BY <1>11, <1>12

LEMMA AddKeepsInv ==
    ASSUME PlatformInv, NEW tag \in Tag, Add(tag) PROVE PlatformInv'
<1>1. dev_alloc(tag, 0) /\ UNCHANGED <<tree, todo, vector, mask, fault>> /\ todo = {}
  BY DEF Add, Running
<1>2. TreeInv' /\ RegistryInv'
  <2>1. TreeInv'
    BY <1>1 DEF PlatformInv, TreeInv
  <2>2. RegistryInv /\ 0 \in Int
    BY DEF PlatformInv
  <2>3. RegistryInv'
    BY <1>1, <2>2, AllocKeepsRegistryInv
  <2> QED BY <2>1, <2>3
<1> DEFINE fresh == Len(devList) + 1
<1>3. /\ DOMAIN devList' = DOMAIN devList \cup {fresh}
      /\ \A m \in DOMAIN devList : devList'[m] = devList[m]
      /\ devList'[fresh].base = 0
  <2> DEFINE new == [tag |-> tag, minor |-> dev_next_minor(tag), base |-> 0]
  <2>1. devList' = Append(devList, new) /\ new.base = 0
    BY <1>1 DEF dev_alloc
  <2>2. Len(devList) \in Nat /\ DOMAIN devList = 1 .. Len(devList) /\ devList \in Seq(Device)
    BY DevicesOfList DEF PlatformInv, RegistryInv, DevTypeOK
  <2> HIDE DEF new
  <2> QED BY <2>1, <2>2
<1> HIDE DEF fresh
<1>4. BasesInv'
  <2>1. \A d, e \in DOMAIN devList : devList[d].base = devList[e].base /\ devList[d].base # 0 => d = e
    BY DEF PlatformInv, BasesInv
  <2>2. \A d, e \in DOMAIN devList' :
           devList'[d].base = devList'[e].base /\ devList'[d].base # 0 => d = e
    BY <1>3, <2>1
  <2>3. todo' = {}
    BY <1>1
  <2> QED BY <2>2, <2>3 DEF BasesInv
<1>5. SUFFICES ASSUME ~OnVirt
               PROVE  VectorOK(vector', devList', mask') /\ (fault' # "icu" => RoutinesOK(vector', devList'))
  BY <1>1, <1>2, <1>4, TwoHalves DEF PlatformInv
<1>6. VectorOK(vector, devList, mask) /\ (fault # "icu" => RoutinesOK(vector, devList))
  BY <1>5, TwoHalves DEF PlatformInv
<1>7. VectorOK(vector', devList', mask')
  BY <1>1, <1>3, <1>6 DEF VectorOK
<1>8. ASSUME fault' # "icu" PROVE RoutinesOK(vector', devList')
  <2> SUFFICES ASSUME NEW m \in soc_init(tree), NEW d \in DOMAIN devList',
                      devList'[d].base = tree[m].reg, Driver[tree[m].compatible].by = "icu"
               PROVE  /\ tree[m].interrupts \in DOMAIN vector
                      /\ vector[tree[m].interrupts] =
                            [handler |-> Driver[tree[m].compatible].isr, arg |-> tree[m].reg]
    BY <1>1 DEF RoutinesOK
  <2>1. tree[m].reg # 0
    BY TreesAssumption DEF PlatformInv, TreeInv
  <2>2. d \in DOMAIN devList /\ devList[d].base = tree[m].reg
    BY <1>3, <2>1
  <2> QED BY <1>1, <1>6, <1>8, <2>2 DEF RoutinesOK
<1> QED BY <1>7, <1>8

LEMMA PlatformInvariance == PlatformSpec => []PlatformInv
<1>1. PlatformInit => PlatformInv
  <2> SUFFICES ASSUME PlatformInit PROVE PlatformInv
    OBVIOUS
  <2>1. TreeInv
    BY DEF PlatformInit, TreeInv
  <2>2. devList = <<>> /\ DOMAIN vector = {}
    BY DEF PlatformInit
  <2>3. RegistryInv
    BY <2>2 DEF RegistryInv, DevTypeOK, MinorsIncrease
  <2>4. DOMAIN devList = {}
    BY <2>2
  <2>5. BasesInv
    BY <2>4 DEF BasesInv
  <2> QED BY <2>1, <2>2, <2>3, <2>4, <2>5 DEF PlatformInv, InterruptsFindTheirDevice
<1>2. PlatformInv /\ [PlatformNext]_pvars => PlatformInv'
  <2> SUFFICES ASSUME PlatformInv, [PlatformNext]_pvars PROVE PlatformInv'
    OBVIOUS
  <2>1. CASE Boot
    BY <2>1, InitNodeKeepsInv, InitVirtNodeKeepsInv DEF Boot
  <2>2. CASE Registry
    <3>1. ASSUME NEW i \in DOMAIN devList, Remove(i) PROVE PlatformInv'
      BY <3>1, RemoveKeepsInv
    <3>2. ASSUME NEW tag \in {"CHAR_DEV", "TIMER_DEV"}, Add(tag) PROVE PlatformInv'
      <4>1. tag \in Tag
        BY DEF Tag
      <4> QED BY <3>2, <4>1, AddKeepsInv
    <3> QED BY <2>2, <3>1, <3>2 DEF Registry
  <2>3. CASE Interrupts \/ Copies \/ UNCHANGED pvars
    <3>1. UNCHANGED <<tree, todo, devList, vector, mask>> /\ (fault' # "icu" => fault # "icu")
      <4>1. CASE Copies
        BY <4>1 DEF Copies, dma_memcpy_user, Running
      <4>2. CASE Interrupts \/ UNCHANGED pvars
        BY <4>2 DEF Interrupts, isrcall, isrcall_external, isrcall_timer, Raise, Running, pvars
      <4> QED BY <2>3, <4>1, <4>2
    <3>2. TreeInv' /\ RegistryInv' /\ BasesInv'
      BY <3>1 DEF PlatformInv, TreeInv, RegistryInv, DevTypeOK, MinorsIncrease, BasesInv
    <3>3. InterruptsFindTheirDevice'
      BY <3>1, TwoHalves DEF PlatformInv
    <3> QED BY <3>2, <3>3 DEF PlatformInv
  <2> QED BY <2>1, <2>2, <2>3 DEF PlatformNext
<1> QED BY <1>1, <1>2, PTL DEF PlatformSpec

\* Two devices never answer to the same name, whatever was allocated and freed.
THEOREM DeviceNamesAreUnique == PlatformSpec => []DevicesHaveOneName
<1>1. PlatformInv => DevicesHaveOneName
  BY OneName DEF PlatformInv
<1> QED BY <1>1, PlatformInvariance, PTL

\* On almo1, for any tree that describes the wires, an interrupt that has a routine is
\* let through and has a device that drives its pin, and a device that was found at
\* the boot keeps its own routine until it is removed, unless the kernel crashed.
THEOREM InterruptsAreRouted == PlatformSpec => []InterruptsFindTheirDevice
<1>1. PlatformInv => InterruptsFindTheirDevice
  BY DEF PlatformInv
<1> QED BY <1>1, PlatformInvariance, PTL
=============================================================================
