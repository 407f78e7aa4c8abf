------------------------------- MODULE Cache --------------------------------
(***************************************************************************)
(* The CPU cache of NEMU (nemu/src/memory/mmu/cache.c) in front of the     *)
(* simulated DRAM (hw_mem, nemu/src/memory/memory.c): set associative,     *)
(* write through, no write allocate, random replacement.  An access may    *)
(* straddle two lines; the code then recurses once per half.  Addresses    *)
(* are those that reach the cache: is_mmio(paddr) = -1.                    *)
(*                                                                         *)
(* A line is cache[g][w], the code's cache[SET_ASSO_NUM * g + w].          *)
(* A uint32_t value is the sequence of its bytes, lowest first.            *)
(***************************************************************************)
EXTENDS Integers

CONSTANTS BlockSize,  \* bytes per line, 1 << CACHE_UNIT_SIZE_INDEX (64)
          NGroups,    \* groups, CACHE_LINE_TOTAL_NUM / SET_ASSO_NUM (128)
          NWays,      \* lines per group, SET_ASSO_NUM (8)
          MemSize,    \* MEM_SIZE_B
          MaxLen,     \* longest access in bytes (4)
          Byte,       \* byte values
          Zero        \* the byte memset writes

ASSUME CacheAssumption ==
    /\ NGroups \in Nat \ {0} /\ NWays \in Nat \ {0}
    /\ BlockSize \in Nat \ {0} /\ MaxLen \in Nat /\ MaxLen <= BlockSize
    /\ MemSize \in Nat /\ MemSize % BlockSize = 0
    /\ Zero \in Byte

VARIABLES cache,      \* [Group -> [Way -> CacheLine]]
          hw_mem,     \* [Addr -> Byte]
          booted      \* load_exec has run

vars == <<cache, hw_mem, booted>>

Addr   == 0 .. MemSize - 1
Group  == 0 .. NGroups - 1
Way    == 0 .. NWays - 1
Offset == 0 .. BlockSize - 1
Bytes(n) == [0 .. n - 1 -> Byte]

CacheLine == [valid : BOOLEAN, tag : Nat, data : [Offset -> Byte]]

-----------------------------------------------------------------------------
(* The fields of a physical address: tag | group | offset.                 *)

get_in_block_addr(a)    == a % BlockSize
get_block_addr(a)       == a \div BlockSize
get_cache_group_addr(a) == get_block_addr(a) % NGroups
\* Variant for the mutation check: the tag shifted one bit too far.
TagLosesABit(a) == get_block_addr(a) \div (2 * NGroups)

get_tag(a)              == get_block_addr(a) \div NGroups

\* Both ends of the access lie in one line.
WithinLine(a, n) == get_block_addr(a) = get_block_addr(a + n - 1)

\* Bytes of an access at a that lie in the line of a.
InBlockLen(a) == BlockSize - get_in_block_addr(a)

-----------------------------------------------------------------------------
(* Lookup, fill and access of one line.  c is a cache, m a memory.         *)

First(S) == CHOOSE w \in S : \A v \in S : w <= v

Line(c, a, w) == c[get_cache_group_addr(a)][w]

HitWays(c, a) == {w \in Way : Line(c, a, w).valid /\ Line(c, a, w).tag = get_tag(a)}

\* The way that holds the line of a; the code scans upwards.
get_line_num(c, a) == First(HitWays(c, a))

EmptyWays(c, a) == {w \in Way : ~Line(c, a, w).valid}

\* The way to fill: the first invalid line, otherwise rand() % SET_ASSO_NUM.
ReplaceWays(c, a) ==
    IF EmptyWays(c, a) # {} THEN {First(EmptyWays(c, a))} ELSE Way

load_cache_line(c, m, a, w) ==
    [c EXCEPT ![get_cache_group_addr(a)][w] =
        [valid |-> TRUE,
         tag   |-> get_tag(a),
         data  |-> [o \in Offset |-> m[a - get_in_block_addr(a) + o]]]]

\* Variant: every read fills a line, a hit is not looked for.
LoadedIgnoringHits(c, m, a) ==
    {load_cache_line(c, m, a, w) : w \in ReplaceWays(c, a)}

\* The caches a read may leave once the line of a is in: c itself on a hit.
Loaded(c, m, a) ==
    IF HitWays(c, a) # {}
    THEN {c}
    ELSE {load_cache_line(c, m, a, w) : w \in ReplaceWays(c, a)}

read_cache_data(c, a, n) ==
    [i \in 0 .. n - 1 |-> Line(c, a, get_line_num(c, a)).data[get_in_block_addr(a) + i]]

\* Variant: the copy loop runs once too often (i <= len).
WriteOneByteMore(c, a, n, d) ==
    LET from == get_in_block_addr(a)
    IN  [c EXCEPT ![get_cache_group_addr(a)][get_line_num(c, a)].data =
            [o \in Offset \cup {from + n} |->
                IF from <= o /\ o < from + n THEN d[o - from]
                ELSE IF o = from + n THEN Zero ELSE @[o]]]

write_cache_data(c, a, n, d) ==
    LET from == get_in_block_addr(a)
    IN  [c EXCEPT ![get_cache_group_addr(a)][get_line_num(c, a)].data =
            [o \in Offset |-> IF from <= o /\ o < from + n THEN d[o - from] ELSE @[o]]]

hw_mem_read(m, a, n) == [i \in 0 .. n - 1 |-> m[a + i]]

hw_mem_write(m, a, n, d) ==
    [x \in Addr |-> IF a <= x /\ x < a + n THEN d[x - a] ELSE m[x]]

-----------------------------------------------------------------------------
(* cache_write within one line: only a hit updates the cache (no write     *)
(* allocate), memory is written always (write through).                    *)
WriteAroundCache(c, a, n, d) == c  \* variant: a hit is not updated

WriteLine(c, a, n, d) ==
    IF HitWays(c, a) # {} THEN write_cache_data(c, a, n, d) ELSE c

\* Variant: nextBlockData is masked but not shifted down.
HighUnshifted(d, k, n) == [i \in 0 .. n - k - 1 |-> d[i]]

\* The two halves of a value written across a line boundary.
Low(d, k)     == [i \in 0 .. k - 1 |-> d[i]]
High(d, k, n) == [i \in 0 .. n - k - 1 |-> d[i + k]]

CacheAfterWrite(c, a, n, d) ==
    LET k == InBlockLen(a)
    IN  IF WithinLine(a, n)
        THEN WriteLine(c, a, n, d)
        ELSE WriteLine(WriteLine(c, a, k, Low(d, k)), a + k, n - k, High(d, k, n))

MemAfterWrite(m, a, n, d) ==
    LET k == InBlockLen(a)
    IN  IF WithinLine(a, n)
        THEN hw_mem_write(m, a, n, d)
        ELSE hw_mem_write(hw_mem_write(m, a, k, Low(d, k)), a + k, n - k, High(d, k, n))

(***************************************************************************)
(* cache_read: the caches it may leave (which line a miss evicts is        *)
(* random), each with the bytes it then returns.                           *)
(***************************************************************************)
OutcomesWithinLine(c, m, a, n) ==
    {[cache |-> c1, value |-> read_cache_data(c1, a, n)] : c1 \in Loaded(c, m, a)}

\* The line of a is filled first; then the recursion reads the higher half
\* and, last, the lower half, whose line the second fill may have evicted.
OutcomesAcrossLines(c, m, a, n) ==
    LET k == InBlockLen(a)
        Joined(hi, lo) == [i \in 0 .. n - 1 |-> IF i < k THEN lo[i] ELSE hi[i - k]]
        LowHalf(h) == {[cache |-> l.cache, value |-> Joined(h.value, l.value)] :
                          l \in OutcomesWithinLine(h.cache, m, a, k)}
        HighHalf(c1) == OutcomesWithinLine(c1, m, a + k, n - k)
    IN  UNION {UNION {LowHalf(h) : h \in HighHalf(c1)} : c1 \in Loaded(c, m, a)}

ReadOutcomes(c, m, a, n) ==
    IF WithinLine(a, n) THEN OutcomesWithinLine(c, m, a, n)
    ELSE OutcomesAcrossLines(c, m, a, n)

-----------------------------------------------------------------------------
\* init_mem: memory zeroed, every line invalid.
Init ==
    /\ hw_mem = [a \in Addr |-> Zero]
    /\ cache = [g \in Group |-> [w \in Way |->
                   [valid |-> FALSE, tag |-> 0, data |-> [o \in Offset |-> Zero]]]]
    /\ booted = FALSE

\* load_exec reads the image file straight into hw_mem, past the cache.
LoadExec ==
    /\ ~booted
    /\ booted' = TRUE
    /\ hw_mem' \in [Addr -> Byte]
    /\ UNCHANGED cache

cache_read(a, n) ==
    /\ booted
    /\ a + n <= MemSize
    /\ \E o \in ReadOutcomes(cache, hw_mem, a, n) : cache' = o.cache
    /\ UNCHANGED <<hw_mem, booted>>

cache_write(a, n, d) ==
    /\ booted
    /\ a + n <= MemSize
    /\ cache' = CacheAfterWrite(cache, a, n, d)
    /\ hw_mem' = MemAfterWrite(hw_mem, a, n, d)
    /\ UNCHANGED booted

Next ==
    \/ LoadExec
    \/ \E a \in Addr, n \in 1 .. MaxLen :
          \/ cache_read(a, n)
          \/ \E d \in Bytes(n) : cache_write(a, n, d)

Spec == Init /\ [][Next]_vars

-----------------------------------------------------------------------------
(* Correctness.                                                            *)

\* The variables hold caches and memories of the declared shapes.
TypeOK ==
    /\ cache \in [Group -> [Way -> CacheLine]]
    /\ hw_mem \in [Addr -> Byte]
    /\ booted \in BOOLEAN

\* Cache c agrees with memory m: a valid line whose tag is that of an
\* address holds, at the offset of the address, the byte of memory there.
Coherent(c, m) ==
    \A a \in Addr, w \in Way :
        Line(c, a, w).valid /\ Line(c, a, w).tag = get_tag(a)
            => Line(c, a, w).data[get_in_block_addr(a)] = m[a]

\* No two valid lines of a group carry the same tag.
DistinctTags(c) ==
    \A g \in Group : \A v, w \in Way :
        c[g][v].valid /\ c[g][w].valid /\ c[g][v].tag = c[g][w].tag => v = w

\* However reads, writes, straddling accesses and evictions interleave, no
\* valid line is stale with respect to DRAM: cache_write writes through and
\* load_cache_line copies the whole block.  The monitor relies on it, its
\* expressions read hw_mem and not the cache.
CacheCoherent == Coherent(cache, hw_mem)

\* get_line_num stops at the first match and cache_write updates only that
\* line, so a block must never sit in two lines of its group.
NoDuplicateBlock == DistinctTags(cache)

\* A read of any address and length, hit or miss, within a line or across
\* two, whatever line it evicts, returns what a machine without the cache
\* (hw_mem_read) would return: the property make test_pa-3-1 samples.
ReadsLikeMemory ==
    booted => \A a \in Addr, n \in 1 .. MaxLen :
        a + n <= MemSize =>
            \A o \in ReadOutcomes(cache, hw_mem, a, n) :
                o.value = hw_mem_read(hw_mem, a, n)

\* A write of any address and length changes memory as the one hw_mem_write
\* of a machine without the cache would, although cache_write splits it.
WritesLikeMemory ==
    booted => \A a \in Addr, n \in 1 .. MaxLen :
        a + n <= MemSize =>
            \A d \in Bytes(n) :
                MemAfterWrite(hw_mem, a, n, d) = hw_mem_write(hw_mem, a, n, d)
=============================================================================
