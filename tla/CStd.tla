--------------------------------- MODULE CStd ---------------------------------
(***************************************************************************)
(* The C library shared by the kernel and the applications, common/cstd.c. *)
(* A character is its ASCII code, a string the sequence of its characters  *)
(* before the final zero.  Every function is checked against what the C    *)
(* standard says of it; a call records both.                               *)
(***************************************************************************)
EXTENDS Integers, Sequences, SequencesExt, FiniteSets, FiniteSetsExt

CONSTANTS
    MemSize,   \* bytes of the memory the mem* functions work on
    Bytes,     \* values of a byte
    Long,      \* sizeof(long)
    IntSize,   \* number of values of an int and of an unsigned long
    Strings,   \* strings given to the str* functions
    Behind,    \* what the memory holds behind the final zero of a string
    Formats,   \* formats of vsnprintf: sequences of directives
    Sizes      \* sizes of the buffer of vsnprintf

ASSUME CStdAssumption == {MemSize, Long, IntSize} \subseteq Nat \ {0} /\ Sizes \subseteq Nat

VARIABLES
    mem,       \* the memory
    asked,     \* what the memory should hold
    result     \* the last call: its name, what it gave and should give, and whether
               \* its arguments are ones the code is not right for

cstdVars == <<mem, asked, result>>

Addr == 0 .. MemSize - 1
IntMax == IntSize \div 2 - 1
IntMin == -(IntSize \div 2)
ULONG_MAX == IntSize - 1

NoResult == [fn |-> "none", got |-> << >>, want |-> << >>, edge |-> FALSE]

CStdInit ==
    /\ mem = [a \in Addr |-> 0] /\ asked = mem
    /\ result = NoResult

-----------------------------------------------------------------------------
(***************************************************************************)
(* Memory: bytes up to the first aligned address, long words, then bytes   *)
(***************************************************************************)
Head_(s, n) == Min({n, (Long - (s % Long)) % Long})
LongBytes(s, n) == ((n - Head_(s, n)) \div Long) * Long
ByWords(s, n) ==
    LET word == s + Head_(s, n)
        rest == word + LongBytes(s, n)
    IN (s .. word - 1) \cup (word .. rest - 1) \cup (rest .. s + n - 1)

memset(m, s, c, n) == [a \in DOMAIN m |-> IF a \in ByWords(s, n) THEN c ELSE m[a]]

memcpy(m, dest, src, n) ==
    LET to == IF dest % Long = src % Long THEN ByWords(dest, n) ELSE dest .. dest + n - 1
    IN [a \in DOMAIN m |-> IF a \in to THEN m[src + (a - dest)] ELSE m[a]]

\* One byte at a time, so that the order matters when the blocks overlap
memmove(m, dest, src, n) ==
    FoldLeft(LAMBDA q, k : [q EXCEPT ![dest + k] = q[src + k]], m,
             IF dest < src THEN [k \in 1 .. n |-> k - 1] ELSE [k \in 1 .. n |-> n - k])

memcmp(m, s1, s2, n) ==
    LET diff == {k \in 0 .. n - 1 : m[s1 + k] # m[s2 + k]}
    IN IF diff = {} THEN 0 ELSE IF m[s1 + Min(diff)] < m[s2 + Min(diff)] THEN -1 ELSE 1

memchr(m, s, c, n) ==
    LET found == {a \in s .. s + n - 1 : m[a] = c} IN IF found = {} THEN -1 ELSE Min(found)

-----------------------------------------------------------------------------
(***************************************************************************)
(* Strings.  A character past the end is the final zero.                   *)
(***************************************************************************)
CharAt(s, k) == IF k \in DOMAIN s THEN s[k] ELSE 0

\* strchr and strrchr find the final zero too.
strchr(s, c) == Min({k \in 1 .. Len(s) + 1 : CharAt(s, k) = c} \cup {Len(s) + 2})
InSet(delim, c) == strchr(delim, c) <= Len(delim) + 1

strcmp(s1, s2) ==
    LET k == Min({j \in 1 .. Len(s1) + 1 : CharAt(s1, j) # CharAt(s2, j) \/ CharAt(s1, j) = 0})
    IN CharAt(s1, k) - CharAt(s2, k)

strncmp(s1, s2, n) == IF n = 0 THEN 0 ELSE strcmp(SubSeq(s1, 1, Min({n, Len(s1)})), SubSeq(s2, 1, Min({n, Len(s2)})))

strncpy(src, n) == [k \in 1 .. n |-> CharAt(src, k)]
strnlen(s, n) == Min({n, Len(s)})

\* The delimiters after a token are skipped without a test of the final zero,
\* which strchr() finds among them: the scan then goes on behind the string.
strsplit(str, delim, maxtoken) ==
    LET text    == str \o <<0>> \o Behind
        Past    == Len(text) + 1
        Skip(k) == Min({j \in k .. Past : j = Past \/ ~InSet(delim, CharAt(text, j))})
        End(k)  == Min({j \in k .. Past : InSet(delim, CharAt(text, j))})
        Step(st, n) == IF CharAt(text, st.at) = 0 THEN st
                       ELSE [at |-> IF CharAt(text, End(st.at)) = 0 THEN End(st.at) ELSE Skip(End(st.at) + 1),
                             tokens |-> Append(st.tokens, SubSeq(text, st.at, End(st.at) - 1))]
        First   == Min({j \in 1 .. Past : CharAt(text, j) = 0 \/ ~InSet(delim, CharAt(text, j))})
    IN FoldLeft(Step, [at |-> First, tokens |-> << >>], [n \in 1 .. maxtoken |-> n]).tokens

-----------------------------------------------------------------------------
(***************************************************************************)
(* Numbers                                                                 *)
(***************************************************************************)
Digit(d, ten) == IF d < 10 THEN 48 + d ELSE ten + d - 10     \* ten: 'A' or 'a'
Digits(n, base, ten) ==
    LET dig[k \in 0 .. n] == IF k < base THEN <<Digit(k, ten)>> ELSE Append(dig[k \div base], Digit(k % base, ten))
    IN dig[n]
Wrapped(n) == ((n - IntMin) % IntSize) + IntMin

\* The loop ends with the first quotient that is not positive: a value that is
\* still negative gives one character, '0' plus the negative remainder.
itoa(val, base) ==
    LET neg == val < 0 /\ base = 10
        v   == IF neg THEN Wrapped(-val) ELSE val
    IN (IF neg THEN <<45>> ELSE << >>) \o
       (IF v < 0 THEN <<48 - ((-v) % base)>> ELSE Digits(v, base, 65))

atoi(str) ==
    LET neg  == CharAt(str, 1) = 45
        digs == IF neg THEN Tail(str) ELSE str
        res  == FoldLeft(LAMBDA n, c : Wrapped(n * 10 + c - 48), 0, digs)
    IN IF neg THEN Wrapped(-res) ELSE res

\* %d: the smallest int, whose opposite is itself, is printed from the largest
\* one with its last digit corrected.
PercentD(val) ==
    LET i    == IF val = IntMin THEN 1 ELSE 0
        digs == Digits(IF val < 0 THEN Wrapped(Wrapped(-val) - i) ELSE val, 10, 65)
    IN (IF val < 0 THEN <<45>> ELSE << >>) \o [digs EXCEPT ![Len(digs)] = @ + i]

Directive(d) ==
    CASE d.kind = "char" -> <<d.arg>>              \* copied, or %c, %% and unknown formats
      [] d.kind = "s"    -> d.arg
      [] d.kind = "d"    -> PercentD(d.arg)
      [] d.kind = "x"    -> Digits(IF d.arg < 0 THEN d.arg + IntSize ELSE d.arg, 16, 97)


\* count, size - 1, is decremented after every character and ends the output when
\* it becomes 0: after size - 1 characters, or once it has wrapped around.
Room(size) == ((size - 2) % IntSize) + 1
vsnprintf(size, fmt) ==
    LET all == FlattenSeq([k \in DOMAIN fmt |-> Directive(fmt[k])])
    IN SubSeq(all, 1, Min({Len(all), Room(size)}))

\* Stops at the first digit that may overflow, and then gives 0.
DigitOk(n, c, base) == n < ULONG_MAX \div base /\ n * base < ULONG_MAX - c
strtoul(digits, base) ==
    LET Step(n, c) == IF n = -1 \/ ~DigitOk(n, c, base) THEN -1 ELSE n * base + c
        n == FoldLeft(Step, 0, digits)
    IN IF n = -1 THEN 0 ELSE n

-----------------------------------------------------------------------------
Returns(fn, got, want, edge) ==
    /\ result' = [fn |-> fn, got |-> got, want |-> want, edge |-> edge]
    /\ UNCHANGED <<mem, asked>>

\* Bound: the functions that do not use mem are called in the initial state.
Unused == result = NoResult /\ \A a \in Addr : mem[a] = 0

Copied(m, dest, src, n) == [a \in Addr |-> IF a \in dest .. dest + n - 1 THEN m[src + a - dest] ELSE m[a]]

Memset(s, c, n) ==
    /\ s + n <= MemSize
    /\ mem' = memset(mem, s, c, n)
    /\ asked' = [a \in Addr |-> IF s <= a /\ a < s + n THEN c ELSE asked[a]]
    /\ result' = NoResult

Memcpy(dest, src, n) ==
    /\ dest + n <= MemSize /\ src + n <= MemSize /\ (dest + n <= src \/ src + n <= dest)
    /\ mem' = memcpy(mem, dest, src, n)
    /\ asked' = Copied(asked, dest, src, n)
    /\ result' = NoResult

Memmove(dest, src, n) ==
    /\ dest + n <= MemSize /\ src + n <= MemSize
    /\ mem' = memmove(mem, dest, src, n)
    /\ asked' = Copied(asked, dest, src, n)
    /\ result' = NoResult

Memcmp(s1, s2, n) ==
    /\ s1 + n <= MemSize /\ s2 + n <= MemSize
    /\ LET same == \A k \in 0 .. n - 1 : asked[s1 + k] = asked[s2 + k]
       IN Returns("memcmp", <<memcmp(mem, s1, s2, n) = 0, memcmp(mem, s1, s2, n) + memcmp(mem, s2, s1, n)>>, <<same, 0>>, FALSE)

Memchr(s, c, n) ==
    /\ s + n <= MemSize
    /\ LET at == memchr(mem, s, c, n)
       IN Returns("memchr", <<at # -1, at = -1 \/ (asked[at] = c /\ at >= s)>>, <<\E a \in s .. s + n - 1 : asked[a] = c, TRUE>>, FALSE)

Compare(s, t) ==
    Returns("strcmp", <<strcmp(s, t) = 0, strcmp(s, t) + strcmp(t, s), strncmp(s, t, 1) = 0, strnlen(strncpy(s, 3), 3)>>,
            <<s = t, 0, CharAt(s, 1) = CharAt(t, 1), 3>>, FALSE)

Split(s, maxtoken) ==
    LET got    == strsplit(s, <<47>>, maxtoken)
        starts == {k \in DOMAIN s : s[k] # 47 /\ (k = 1 \/ s[k - 1] = 47)}
    IN Returns("strsplit", <<Len(got), \A k \in DOMAIN got : got[k] # << >> /\ 47 \notin Range(got[k])>>,
               <<Min({maxtoken, Cardinality(starts)}), TRUE>>,
               s # << >> /\ Last(s) = 47)

ReadBack(val) ==
    Returns("itoa", <<atoi(itoa(val, 10)), atoi(PercentD(val))>>, <<val, val>>, val = IntMin)

\* The characters and the final zero fit in the buffer.
Format(size, fmt) ==
    LET all == FlattenSeq([k \in DOMAIN fmt |-> Directive(fmt[k])])
        out == vsnprintf(size, fmt)
    IN Returns("snprintf", <<IsPrefix(out, all), Len(out) + 1 <= size, Len(out) = Len(all)>>,
               <<TRUE, TRUE, Len(all) < size>>, size < 2)

\* The value, or 0 if it is larger than an unsigned long
Strtoul(val, base) ==
    LET digit(c) == IF c >= 65 THEN c - 55 ELSE c - 48
        digs == Digits(val, base, 65)
    IN Returns("strtoul", strtoul([k \in DOMAIN digs |-> digit(digs[k])], base),
               IF val > ULONG_MAX THEN 0 ELSE val,
               val <= ULONG_MAX /\ val \div base >= ULONG_MAX \div base)

PureNext ==
    \/ \E s, t \in Strings : Compare(s, t)
    \/ \E s \in Strings, n \in 0 .. 3 : Split(s, n)
    \/ \E val \in IntMin .. IntMax : ReadBack(val)
    \/ \E size \in Sizes, fmt \in Formats : Format(size, fmt)
    \/ \E val \in 0 .. IntSize + IntSize \div 2, base \in {8, 10, 16} : Strtoul(val, base)

CStdNext ==
    \/ \E s \in Addr, c \in Bytes, n \in 0 .. MemSize : Memset(s, c, n) \/ Memchr(s, c, n)
    \/ \E d, s \in Addr, n \in 0 .. MemSize : Memcpy(d, s, n) \/ Memmove(d, s, n) \/ Memcmp(d, s, n)
    \/ Unused /\ PureNext

CStdSpec == CStdInit /\ [][CStdNext]_cstdVars

-----------------------------------------------------------------------------

Right(fn) == result.fn = fn => result.got = result.want

\* itoa() writes an int in decimal so that atoi() reads it back, the smallest one
\* too, whose opposite is itself (cstd.h, itoa: "the pointer of the string
\* reprentation").
EveryIntIsWritten == Right("itoa")

\* vsnprintf() writes no more than size characters, the final zero among them,
\* for a buffer of one character or none too (cstd.c, vsnprintf: "max nb of char
\* in buffer (-1 because of last 0)").
BuffersAreNotOverrun == Right("snprintf")

\* strsplit() gives the tokens of its string, one that ends with a delimiter too
\* (cstd.h, strsplit: "The number of tokens extracted").
TokensAreOfTheString == Right("strsplit")

\* strtoul() gives every unsigned long that is written, the largest ones too
\* (cstd.h, strtoul: "the number extracted from the string").
EveryLongIsRead == Right("strtoul")
=============================================================================
