------------------------------ MODULE BlockDev --------------------------------
(***************************************************************************)
(* The driver of the block device (hal/devices/blockdev/soclib-bd.c): a    *)
(* transfer between a buffer in memory and consecutive blocks of the disk, *)
(* started by the registers and waited for by polling the status.  The     *)
(* data cache of the processor may hold lines of the buffer.               *)
(*                                                                         *)
(* The unit is the physical block; it is also the line of the cache.       *)
(***************************************************************************)
EXTENDS Integers

CONSTANTS
    Ppb,        \* physical blocks in a logical block
    DiskSize,   \* physical blocks on the disk
    BufSize,    \* units of the buffer
    LineSize    \* bytes in a line

ASSUME BlockDevAssumption ==
    /\ Ppb \in Nat \ {0} /\ DiskSize \in Nat /\ BufSize \in Nat /\ LineSize \in Nat \ {0}

VARIABLES
    disk, buf,   \* the units of the disk and of the buffer in memory
    lines,       \* the lines of the buffer that the data cache holds
    regs,        \* the registers of the device
    last         \* the call that ended last, or the one that runs

bvars == <<disk, buf, lines, regs, last>>

Blocks == DiskSize \div Ppb        \* bdev->blocks
NoCall_ == [op |-> "BD_NOOP", lba |-> 0, count |-> 0, res |-> "none"]

BlockDevInit ==
    /\ disk = [u \in 0 .. DiskSize - 1 |-> u + 1]
    /\ buf = [u \in 0 .. BufSize - 1 |-> 0]
    /\ lines = [u \in {} |-> 0]
    /\ regs = [op |-> "BD_NOOP", pba |-> 0, count |-> 0, status |-> "BD_IDLE"]
    /\ last = NoCall_

Idle == last.res # "polling"

\* The processor uses the buffer; writes go through to memory.
Load(u) ==
    /\ Idle /\ u \notin DOMAIN lines
    /\ lines' = [v \in DOMAIN lines \cup {u} |-> IF v = u THEN buf[u] ELSE lines[v]]
    /\ UNCHANGED <<disk, buf, regs, last>>
Store(u, v) ==
    /\ Idle
    /\ buf' = [buf EXCEPT ![u] = v]
    /\ lines' = IF u \in DOMAIN lines THEN [lines EXCEPT ![u] = v] ELSE lines
    /\ last' = NoCall_
    /\ UNCHANGED <<disk, regs>>

Refuses(lba, count) == lba + count >= Blocks
\* Mutant: the controller is given a number of logical blocks.
PhysicalCount_logical(count) == count
PhysicalCount(count) == count * Ppb

\* dcache_buf_invalidate(buf, count): count is taken as a number of bytes.  The
\* loop forgets the lines of count bytes and falls through into
\* dcache_invalidate(), which forgets one more.
Invalidated(count) == {u \in DOMAIN lines : u <= (count - 1) \div LineSize + 1}

\* soclib_bd_read(), soclib_bd_write(), up to the polling.
Start_(op, lba, count) ==
    /\ Idle
    /\ IF Refuses(lba, count)
       THEN /\ last' = [op |-> op, lba |-> lba, count |-> count, res |-> "EINVAL"]
            /\ UNCHANGED <<disk, buf, lines, regs>>
       ELSE /\ last' = [op |-> op, lba |-> lba, count |-> count, res |-> "polling"]
            /\ regs' = [op |-> op, pba |-> lba * Ppb, count |-> PhysicalCount(count),
                        status |-> "BD_BUSY"]
            /\ lines' = IF op = "BD_WRITE" THEN lines
                        ELSE [u \in DOMAIN lines \ Invalidated(count) |-> lines[u]]
            /\ UNCHANGED <<disk, buf>>

\* The device moves the blocks, and may stop with an error.
Moved == 0 .. regs.count - 1
Transfer ==
    /\ regs.status = "BD_BUSY"
    /\ \E done \in {0, regs.count} :
         /\ buf' = [u \in DOMAIN buf |->
                      IF regs.op = "BD_READ" /\ u < done THEN disk[regs.pba + u] ELSE buf[u]]
         /\ disk' = [u \in DOMAIN disk |->
                       IF regs.op = "BD_WRITE" /\ u - regs.pba \in 0 .. done - 1
                       THEN buf[u - regs.pba] ELSE disk[u]]
         /\ regs' = [regs EXCEPT !.status = IF done > 0 THEN "SUCCESS" ELSE "ERROR"]
    /\ UNCHANGED <<lines, last>>

\* Reading the status sets it back to BD_IDLE.
Poll ==
    /\ last.res = "polling" /\ regs.status # "BD_BUSY"
    /\ last' = [last EXCEPT !.res = IF regs.status = "SUCCESS" THEN "0" ELSE "EIO"]
    /\ regs' = [regs EXCEPT !.status = "BD_IDLE"]
    /\ UNCHANGED <<disk, buf, lines>>

BlockDevNext ==
    \/ \E u \in DOMAIN buf : Load(u) \/ Store(u, 0)
    \/ \E op \in {"BD_READ", "BD_WRITE"}, lba \in 0 .. Blocks, count \in 1 .. BufSize \div Ppb :
         Start_(op, lba, count)
    \/ Transfer \/ Poll

BlockDevSpec == BlockDevInit /\ [][BlockDevNext]_bvars

(***************************************************************************)
(* Properties.                                                             *)
(***************************************************************************)
\* A transfer that succeeded moved the logical blocks of the call, all of them
\* (soclib_bd_read(), soclib_bd_write(), with the conversion to physical blocks).
TransfersAreComplete ==
    last.res = "0" =>
        \A u \in 0 .. last.count * Ppb - 1 : buf[u] = disk[last.lba * Ppb + u]

\* When no transfer is under way the data cache holds no line of the buffer that
\* differs from memory: soclib_bd_read() had them forgotten while the device
\* wrote ("if there are cached lines dst buffer, forget them").
CachedLinesAreFresh == Idle => \A u \in DOMAIN lines : lines[u] = buf[u]
=============================================================================
