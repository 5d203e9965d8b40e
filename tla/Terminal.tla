------------------------------ MODULE Terminal --------------------------------
(***************************************************************************)
(* A terminal: the interrupt routine of the driver pushes the characters   *)
(* typed on the keyboard into a fifo (soclib-tty.c and ns16550.c in        *)
(* hal/devices/chardev), and the threads pull them out with tty_read() or, *)
(* a line at a time with its corrections, with tty_gets() (kernel/klibc.c).*)
(*                                                                         *)
(* There is one processor.  A thread in the kernel runs without interrupts *)
(* except in the short window that a reader opens when it found nothing.   *)
(***************************************************************************)
EXTENDS Integers, Sequences, FiniteSets

CONSTANTS
    Chips,       \* the terminals' hardware: "soclib_tty", "ns16550"
    Depth,       \* sizeof(fifo->data), FIFO_DEPTH
    Threads,     \* the threads, numbered from 0 in the order of the scheduler
    BufSizes,    \* the sizes of the buffers the threads give
    Keys,        \* the characters of the keyboard
    MaxTyped     \* bound: the characters typed

ASSUME TerminalAssumption ==
    /\ Depth \in Nat \ {0} /\ MaxTyped \in Nat
    /\ IsFiniteSet(Threads) /\ Threads = 0 .. Cardinality(Threads) - 1
    /\ BufSizes \subseteq Nat \ {0}

VARIABLES
    chip,        \* the hardware of this terminal
    ring,        \* the fifo: data, pt_read, pt_write
    wire,        \* characters in the device; its interrupt is up when there is one
    thr,         \* where each thread is in tty_gets() or tty_read(), and its buffer
    running,     \* the thread on the processor
    screen,      \* what the terminal shows
    readers,     \* the threads of the application that read the terminal
    typed, accepted, taken   \* history: count of keys, characters pushed, pulled

tvars == <<chip, ring, wire, thr, running, screen, readers, typed, accepted, taken>>

NoCall == [pc |-> "user", call |-> "none", line |-> <<>>, left |-> 0, got |-> <<>>]

TerminalInit ==
    /\ chip \in Chips
    /\ ring = [data |-> [n \in 0 .. Depth - 1 |-> "NUL"], pt_read |-> 0, pt_write |-> 0]
    /\ wire = <<>> /\ screen = <<>>
    /\ thr = [t \in Threads |-> NoCall]
    /\ running = 0
    /\ readers \in (SUBSET Threads) \ {{}}
    /\ typed = 0 /\ accepted = <<>> /\ taken = <<>>

(***************************************************************************)
(* The fifo.                                                               *)
(***************************************************************************)
Next_(p) == (p + 1) % Depth
\* Mutant: a full fifo is not tested.
Full_never == FALSE
Full == Next_(ring.pt_write) = ring.pt_read
Empty == ring.pt_read = ring.pt_write
Pushed(c) == IF Full THEN ring
             ELSE [ring EXCEPT !.data[ring.pt_write] = c, !.pt_write = Next_(@)]
Pulled == [ring EXCEPT !.pt_read = Next_(@)]

\* What the fifo holds, oldest first.
Contents == [n \in 1 .. (ring.pt_write - ring.pt_read + Depth) % Depth |->
                ring.data[(ring.pt_read + n - 1) % Depth]]

(***************************************************************************)
(* Interrupts and scheduling.                                              *)
(***************************************************************************)
\* Mutant: the interrupts stay masked in the waiting loop.
Enabled_user == thr[running].pc = "user"
Enabled == thr[running].pc \in {"user", "window", "windowLF"}
Other == (running + 1) % Cardinality(Threads)

\* ns16550_init() disables the hardware fifo: the device keeps the last character.
Received(c) == IF chip = "ns16550" THEN <<c>> ELSE Append(wire, c)
Type(c) ==
    /\ typed < MaxTyped
    /\ typed' = typed + 1 /\ wire' = Received(c)
    /\ UNCHANGED <<chip, ring, thr, running, screen, readers, accepted, taken>>

\* The routine of the driver: a character that finds the fifo full is lost.
PushChar ==
    /\ Enabled /\ wire # <<>>
    /\ ring' = Pushed(Head(wire)) /\ wire' = Tail(wire)
    /\ accepted' = IF Full THEN accepted ELSE Append(accepted, Head(wire))
    /\ UNCHANGED <<chip, thr, running, screen, readers, typed, taken>>
soclib_tty_isr == chip = "soclib_tty" /\ PushChar
ns16550_isr == chip = "ns16550" /\ PushChar
tty_isr == soclib_tty_isr \/ ns16550_isr

\* The timer: tick_event() yields the processor.
tick_event ==
    /\ Enabled
    /\ running' = Other
    /\ UNCHANGED <<chip, ring, wire, thr, screen, readers, typed, accepted, taken>>

(***************************************************************************)
(* The readers.  The buffer of tty_gets() keeps a place for the final NUL. *)
(***************************************************************************)
Begin(call, count) ==
    /\ running \in readers /\ thr[running].pc = "user"
    /\ thr' = [thr EXCEPT ![running] = [NoCall EXCEPT !.call = call, !.left = count,
                                        !.pc = IF count = 0 THEN "end" ELSE "read"]]
    /\ UNCHANGED <<chip, ring, wire, running, screen, readers, typed, accepted, taken>>

\* tty_read() gives count characters as they are; with 0 soclib_tty_read() takes one
\* if there is one, and ns16550_read() none.
tty_read == \E count \in BufSizes : Begin("read", count)
tty_gets == \E count \in BufSizes : Begin("gets", count - 1)
tty_poll ==
    /\ chip = "soclib_tty"
    /\ running \in readers /\ thr[running].pc = "user" /\ ~Empty
    /\ ring' = Pulled /\ taken' = Append(taken, ring.data[ring.pt_read])
    /\ UNCHANGED <<chip, wire, thr, running, screen, readers, typed, accepted>>

Erases(c) == c \in {"BS", "DEL"}
ButLast(s) == SubSeq(s, 1, Len(s) - 1)

\* Mutant: a backspace on an empty line gives a place back.
Erased_any(t) == [t EXCEPT !.line = ButLast(@), !.left = @ + 1, !.pc = "read"]

\* One character in tty_gets(): a carriage return is dropped for the character that
\* follows it, an erasing key takes the last character back if there is one.
Erased(t) == IF t.line = <<>> THEN [t EXCEPT !.pc = "read"]
             ELSE [t EXCEPT !.line = ButLast(@), !.left = @ + 1, !.pc = "read"]
Stored(t, c, last) == [t EXCEPT !.line = Append(@, c), !.left = @ - 1,
                                !.pc = IF t.left = 1 \/ last THEN "end" ELSE "read"]
Edited(t, c) ==
    IF c = "CR" /\ t.pc = "read" THEN [t EXCEPT !.pc = "readLF"]
    ELSE IF Erases(c) THEN Erased(t) ELSE Stored(t, c, c = "LF")

\* tty_write(): the echo, and the sequence that moves left, writes a space and moves left.
Echo(t, u) ==
    IF t.call = "gets" /\ Len(u.line) > Len(t.line) THEN Append(screen, u.line[Len(u.line)])
    ELSE IF Len(u.line) < Len(t.line) /\ screen # <<>> THEN ButLast(screen) ELSE screen

\* A turn of the loop of the driver: a character, or thread_yield().
PullChar ==
    /\ thr[running].pc \in {"read", "readLF"}
    /\ LET t == thr[running]
           c == ring.data[ring.pt_read]
           u == IF t.call = "gets" THEN Edited(t, c) ELSE Stored(t, c, FALSE)
       IN  IF Empty
           THEN /\ thr' = [thr EXCEPT ![running].pc = IF @ = "read" THEN "window" ELSE "windowLF"]
                /\ running' = Other
                /\ UNCHANGED <<ring, screen, taken>>
           ELSE /\ ring' = Pulled /\ taken' = Append(taken, c)
                /\ thr' = [thr EXCEPT ![running] = [u EXCEPT !.got = Append(@, c)]]
                /\ screen' = Echo(t, u)
                /\ UNCHANGED running
    /\ UNCHANGED <<chip, wire, readers, typed, accepted>>
soclib_tty_read == chip = "soclib_tty" /\ PullChar
ns16550_read == chip = "ns16550" /\ PullChar

\* irq_enable(), irq_disable(): a pending interrupt is taken before the window closes.
CloseWindow ==
    /\ thr[running].pc \in {"window", "windowLF"}
    /\ Enabled => wire = <<>>
    /\ thr' = [thr EXCEPT ![running].pc = IF @ = "window" THEN "read" ELSE "readLF"]
    /\ UNCHANGED <<chip, ring, wire, running, screen, readers, typed, accepted, taken>>

Return ==
    /\ thr[running].pc = "end"
    /\ thr' = [thr EXCEPT ![running] = NoCall]
    /\ UNCHANGED <<chip, ring, wire, running, screen, readers, typed, accepted, taken>>

Kernel == soclib_tty_read \/ ns16550_read \/ CloseWindow \/ Return

TerminalNext ==
    \/ \E c \in Keys : Type(c)
    \/ tty_isr \/ tick_event
    \/ tty_read \/ tty_gets \/ tty_poll
    \/ Kernel

TerminalSpec == TerminalInit /\ [][TerminalNext]_tvars

\* The processor executes the kernel and takes the interrupts; the timer is periodic,
\* and its period is far longer than the way from the window to the next read.
TerminalFairness == SF_tvars(Kernel) /\ WF_tvars(tty_isr) /\ SF_tvars(tick_event)

(***************************************************************************)
(* Properties.                                                             *)
(***************************************************************************)
\* The interrupt routine and the readers share the fifo without a lock: what was
\* pulled and what the fifo holds is what was pushed, in the order of the keyboard
\* (fifo_push(), fifo_pull()).
CharactersStayInOrder == accepted = taken \o Contents

\* The line that the keys give: corrections never reach before the line.
EditKey(e, c) ==
    IF c = "CR" /\ ~e.cr THEN [cr |-> TRUE, line |-> e.line]
    ELSE [cr |-> FALSE,
          line |-> IF ~Erases(c) THEN Append(e.line, c)
                   ELSE IF e.line = <<>> THEN <<>> ELSE ButLast(e.line)]
KeysEdited(got) ==
    LET edited[n \in 0 .. Len(got)] ==
            IF n = 0 THEN [cr |-> FALSE, line |-> <<>>] ELSE EditKey(edited[n - 1], got[n])
    IN  edited[Len(got)]
LineOf(got) == KeysEdited(got).line

\* The buffer of tty_gets() holds the line that the keys give, whatever the
\* corrections; the terminal shows it when one thread reads (tty_gets()).
LinesAreEdited ==
    \A t \in Threads :
        thr[t].call = "gets" =>
            /\ thr[t].line = LineOf(thr[t].got)
            /\ thr[t].left >= 0 /\ thr[t].left + Len(thr[t].line) + 1 \in BufSizes
            /\ Cardinality(readers) = 1 =>
                 \E n \in 0 .. Len(screen) : SubSeq(screen, n + 1, Len(screen)) = thr[t].line

\* A character reaches a thread that waits for one, also when all threads wait in
\* the kernel without interrupts (the window of soclib_tty_read() and ns16550_read()).
Waiting ==
    /\ \E t \in Threads : thr[t].pc \in {"read", "readLF", "window", "windowLF"}
    /\ wire # <<>> \/ ~Empty
KeysReachReaders == Waiting ~> ~Waiting
=============================================================================
