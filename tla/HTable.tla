-------------------------------- MODULE HTable --------------------------------
(***************************************************************************)
(* The open hash table of common/htopen.c, with double hashing, deleted    *)
(* slots that are reused, look-ups that move the key they find, and        *)
(* growth by rehashing.  A key is known by its two hash values.            *)
(***************************************************************************)
EXTENDS Integers, Sequences, SequencesExt, FiniteSets, FiniteSetsExt

CONSTANTS
    Keys,      \* keys of the callers
    H1, H2,    \* H1[k], H2[k]: what hash() makes of the key k
    Word,      \* number of values of an unsigned long
    HVals,     \* values stored
    FirstSize, \* argument of hto_create
    MaxSlots,  \* slots of the largest table that fits in a page of 4096 bytes
    MaxTry     \* argument maxtry of hto_set_grow

ASSUME HTableAssumption == H1 \in [Keys -> 0 .. Word - 1] /\ H2 \in [Keys -> Nat] /\ FirstSize > 1

VARIABLES
    ht,        \* the hto_t
    growing,   \* the call of hto_set_grow() that is in its loop, or << >>
    enospc,    \* the last call was a hto_set_grow() that returned -ENOSPC
    dict       \* what the callers stored, "none" where nothing is

htVars == <<ht, growing, enospc, dict>>

NULL == "null"
KEYFREED == "freed"
NoSlot == [key |-> NULL, val |-> NULL]
NoVal == "none"

largest_prime(n) == Max({p \in 2 .. n : \A d \in 2 .. p - 1 : p % d # 0})

hto_create(nb) ==
    LET size == largest_prime(nb)
    IN [size |-> size, empty |-> size, freed |-> 0, bucket |-> [h \in 0 .. size - 1 |-> NoSlot]]

HTableInit == ht = hto_create(FirstSize) /\ growing = << >> /\ enospc = FALSE /\ dict = [k \in Keys |-> NoVal]

\* Computed in an unsigned long, so the sum may wrap before the modulo.
hash(t, key, try) ==
    LET step == (H2[key] % (t.size - 1)) + 1
    IN ((H1[key] + try * step) % Word) % t.size

-----------------------------------------------------------------------------
(***************************************************************************)
(* FOREACH_PROBE: the tries up to the first that meets the key or an empty *)
(* slot (size if there is none), and the first deleted slot met before.    *)
(***************************************************************************)
KeyAt(t, key, try) == t.bucket[hash(t, key, try)].key
Stop(t, key) == Min({try \in 0 .. t.size - 1 : KeyAt(t, key, try) \in {key, NULL}} \cup {t.size})
Reused(t, key) == {try \in 0 .. Stop(t, key) - 1 : KeyAt(t, key, try) = KEYFREED}
Found(t, key) == Stop(t, key) < t.size /\ KeyAt(t, key, Stop(t, key)) = key
BestSlot(t, key) == hash(t, key, IF Reused(t, key) # {} THEN Min(Reused(t, key)) ELSE Stop(t, key))

\* Mutant: the old slot of a key that moves is not freed.
Moved_copy(t, key, val) == [t EXCEPT !.bucket[BestSlot(t, key)] = [key |-> key, val |-> val]]

\* The key moves to the better slot; the value is left in the old one.
Moved(t, key, val) ==
    LET here == hash(t, key, Stop(t, key))
        left == IF Reused(t, key) # {} THEN [t EXCEPT !.bucket[here].key = KEYFREED] ELSE t
    IN [left EXCEPT !.bucket[BestSlot(t, key)] = [key |-> key, val |-> val]]

Lookup(t, key) == IF Found(t, key) THEN t.bucket[hash(t, key, Stop(t, key))].val ELSE NoVal
hto_get(t, key) == IF Found(t, key) THEN Moved(t, key, Lookup(t, key)) ELSE t

Full(t, key) == Stop(t, key) = t.size /\ Reused(t, key) = {}
Tries(t, key) == IF Reused(t, key) # {} /\ ~Found(t, key) THEN Min(Reused(t, key)) ELSE Stop(t, key)
hto_set(t, key, val) ==
    CASE Full(t, key) -> t                                   \* -ENOSPC
      [] Found(t, key) -> Moved(t, key, val)
      [] OTHER -> [t EXCEPT !.bucket[BestSlot(t, key)] = [key |-> key, val |-> val],
                            !.empty = IF Reused(t, key) = {} THEN @ - 1 ELSE @,
                            !.freed = IF Reused(t, key) = {} THEN @ ELSE @ - 1]

hto_del(t, key) ==
    IF Found(t, key)
    THEN [t EXCEPT !.bucket[hash(t, key, Stop(t, key))] = [key |-> KEYFREED, val |-> NULL], !.freed = @ + 1]
    ELSE t

UsedSlots(t) == SelectSeq([h \in 1 .. t.size |-> t.bucket[h - 1]], LAMBDA s : s.key \notin {NULL, KEYFREED})
hto_foreach(t) == {s.key : s \in Range(UsedSlots(t))}

\* The same table if the new one would be too small or larger than a page
hto_rehash(t, percent) ==
    LET new_size == (t.size * percent) \div 100
    IN IF new_size < 2 \/ largest_prime(new_size) > MaxSlots THEN t
       ELSE FoldLeft(LAMBDA new, s : hto_set(new, s.key, s.val), hto_create(new_size), UsedSlots(t))

hto_collision(t, key) == Min({try \in 0 .. t.size - 1 : KeyAt(t, key, try) = key})
hto_stat(t) == [nbkeys |-> t.size - t.freed - t.empty,
                tries |-> [k \in hto_foreach(t) |-> hto_collision(t, k)]]

-----------------------------------------------------------------------------
Get(key) == growing = << >> /\ ht' = hto_get(ht, key) /\ enospc' = FALSE /\ UNCHANGED <<growing, dict>>

SetKey(key, val) ==
    /\ growing = << >>
    /\ ht' = hto_set(ht, key, val)
    /\ dict' = IF Full(ht, key) THEN dict ELSE [dict EXCEPT ![key] = val]
    /\ enospc' = FALSE /\ UNCHANGED growing

Del(key) ==
    /\ growing = << >>
    /\ ht' = hto_del(ht, key)
    /\ dict' = [dict EXCEPT ![key] = NoVal]
    /\ enospc' = FALSE /\ UNCHANGED growing

\* The loop of hto_set_grow() runs while the set took more than maxtry tries.
\* Its other condition, try == -1, is never true: a full table gives -ENOSPC, which
\* is returned to the caller.
SetGrow(key, val) ==
    /\ growing = << >>
    /\ ht' = hto_set(ht, key, val)
    /\ dict' = IF Full(ht, key) THEN dict ELSE [dict EXCEPT ![key] = val]
    /\ growing' = IF ~Full(ht, key) /\ Tries(ht, key) > MaxTry THEN [key |-> key, val |-> val] ELSE << >>
    /\ enospc' = Full(ht, key)

Grow ==
    /\ growing # << >>
    /\ LET t == hto_rehash(ht, 200)
       IN /\ ht' = hto_set(t, growing.key, growing.val)
          /\ growing' = IF ~Full(t, growing.key) /\ Tries(t, growing.key) > MaxTry THEN growing ELSE << >>
    /\ UNCHANGED <<enospc, dict>>

Rehash == growing = << >> /\ ht' = hto_rehash(ht, 100) /\ enospc' = FALSE /\ UNCHANGED <<growing, dict>>

Recreate ==     \* hto_destroy and hto_create
    /\ growing = << >>
    /\ ht' = hto_create(FirstSize)
    /\ dict' = [k \in Keys |-> NoVal]
    /\ enospc' = FALSE /\ UNCHANGED growing

HTableNext ==
    \/ \E key \in Keys : Get(key) \/ Del(key)
    \/ \E key \in Keys, val \in HVals : SetKey(key, val) \/ SetGrow(key, val)
    \/ Grow \/ Rehash \/ Recreate

HTableSpec == HTableInit /\ [][HTableNext]_htVars

-----------------------------------------------------------------------------
\* A look-up gives the last value set for the key, and a deleted key is gone,
\* whatever keys collided with it, were deleted before it on its probe
\* sequence, were moved by a look-up or carried to a larger table; no key is
\* in two slots, and empty and freed count the slots they are said to count.
TableIsADictionary ==
    /\ \A k \in Keys : Lookup(ht, k) = dict[k]
    /\ Cardinality(hto_foreach(ht)) = Len(UsedSlots(ht))
    /\ ht.empty = Cardinality({h \in 0 .. ht.size - 1 : ht.bucket[h].key = NULL})
    /\ ht.freed = Cardinality({h \in 0 .. ht.size - 1 : ht.bucket[h].key = KEYFREED})
    /\ hto_stat(ht).nbkeys = Cardinality({k \in Keys : dict[k] # NoVal})

\* hto_set_grow() gives up a key only when the table cannot grow any more
\* (htopen.h: "Automatically grows the table if necessary").
FullTablesGrow == enospc => largest_prime(2 * ht.size) > MaxSlots
=============================================================================
