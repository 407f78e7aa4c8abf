---------------------------- MODULE CacheProofs -----------------------------
(***************************************************************************)
(* Theorems about Cache.tla for every geometry (line size, groups, ways,   *)
(* memory size) that CacheAssumption allows.                               *)
(***************************************************************************)
EXTENDS Cache, WellFoundedInduction, TLAPS

(***************************************************************************)
(* Arithmetic of the address fields.                                       *)
(***************************************************************************)

\* Quotient and remainder of a natural number rebuild it.
LEMMA DivisionIdentity ==
    ASSUME NEW a \in Nat, NEW b \in Nat \ {0}
    PROVE  /\ a \div b \in Nat
           /\ a % b \in 0 .. b - 1
           /\ a = b * (a \div b) + (a % b)
BY SMT

\* A number has one quotient and one remainder.
LEMMA DivisionUnique ==
    ASSUME NEW b \in Nat \ {0}, NEW q1 \in Nat, NEW q2 \in Nat,
           NEW r1 \in 0 .. b - 1, NEW r2 \in 0 .. b - 1,
           b * q1 + r1 = b * q2 + r2
    PROVE  q1 = q2 /\ r1 = r2
<1>1. ASSUME NEW x \in Nat, NEW y \in Nat, NEW r \in 0 .. b - 1, NEW s \in 0 .. b - 1,
             x < y
      PROVE  b * x + r < b * y + s
  <2>1. x + 1 <= y  BY <1>1
  <2>2. b * (x + 1) <= b * y  BY <2>1, SMT
  <2>3. b * (x + 1) = b * x + b  BY SMT
  <2>4. QED  BY <2>2, <2>3, SMT
<1>2. ~(q1 < q2)  BY <1>1, SMT
<1>3. ~(q2 < q1)  BY <1>1, SMT
<1>4. q1 = q2  BY <1>2, <1>3
<1>5. QED  BY <1>4, SMT

\* < on the naturals as the set of pairs the library theorems speak of.
LEMMA LessThanPairs ==
    ASSUME NEW x \in Nat, NEW y \in Nat, y < x
    PROVE  <<y, x>> \in OpToRel(<, Nat)
<1> DEFINE p == <<y, x>>
<1>1. p \in Nat \X Nat  OBVIOUS
<1>2. p[1] = y /\ p[2] = x  OBVIOUS
<1>3. p[1] < p[2]  BY <1>2
<1> HIDE DEF p
<1>4. p \in {ss \in Nat \X Nat : ss[1] < ss[2]}  BY <1>1, <1>3, Zenon
<1>5. OpToRel(<, Nat) = {ss \in Nat \X Nat : ss[1] < ss[2]}  BY Zenon DEF OpToRel
<1>6. p \in OpToRel(<, Nat)  BY <1>4, <1>5, Zenon
<1> QED  BY <1>6 DEF p

\* A nonempty set of line numbers has a least one, the one a scan finds.
LEMMA FirstIsMember ==
    ASSUME NEW S \in SUBSET Nat, S # {}
    PROVE  First(S) \in S
<1>1. \E x \in S : \A y \in S : <<y, x>> \notin OpToRel(<, Nat)
  BY NatLessThanWellFounded, WFMin
<1>2. PICK x \in S : \A y \in S : <<y, x>> \notin OpToRel(<, Nat)  BY <1>1
<1>3. ASSUME NEW y \in S PROVE ~(y < x)
  BY <1>2, LessThanPairs
<1>4. \A y \in S : x <= y  BY <1>3
<1>5. QED  BY <1>4 DEF First

-----------------------------------------------------------------------------
(***************************************************************************)
(* The fields of a physical address.                                       *)
(***************************************************************************)

\* A block number and an offset are the fields of the address they make.
LEMMA FieldsOf ==
    ASSUME CacheAssumption, NEW q \in Nat, NEW r \in Offset
    PROVE  /\ get_block_addr(BlockSize * q + r) = q
           /\ get_in_block_addr(BlockSize * q + r) = r
<1> DEFINE x == BlockSize * q + r
<1>1. x \in Nat  BY DEF CacheAssumption, Offset
<1>2. /\ x \div BlockSize \in Nat
      /\ x % BlockSize \in 0 .. BlockSize - 1
      /\ x = BlockSize * (x \div BlockSize) + (x % BlockSize)
  BY <1>1, DivisionIdentity DEF CacheAssumption
<1> DEFINE d == x \div BlockSize
           m == x % BlockSize
<1>3. BlockSize * d + m = BlockSize * q + r  BY <1>2
<1>4. d \in Nat /\ m \in 0 .. BlockSize - 1  BY <1>2
<1> HIDE DEF x, d, m
<1>5. d = q /\ m = r
  BY <1>3, <1>4, DivisionUnique DEF CacheAssumption, Offset
<1>6. QED  BY <1>5 DEF x, d, m, get_block_addr, get_in_block_addr

\* The ranges of the fields, and the address rebuilt from them.
LEMMA AddressFields ==
    ASSUME CacheAssumption, NEW a \in Addr
    PROVE  /\ get_block_addr(a) \in Nat
           /\ get_in_block_addr(a) \in Offset
           /\ a = BlockSize * get_block_addr(a) + get_in_block_addr(a)
           /\ get_cache_group_addr(a) \in Group
           /\ get_tag(a) \in Nat
           /\ get_block_addr(a) = NGroups * get_tag(a) + get_cache_group_addr(a)
<1>1. a \in Nat  BY DEF Addr, CacheAssumption
<1>2. /\ a \div BlockSize \in Nat
      /\ a % BlockSize \in 0 .. BlockSize - 1
      /\ a = BlockSize * (a \div BlockSize) + (a % BlockSize)
  BY <1>1, DivisionIdentity DEF CacheAssumption
<1>3. /\ get_block_addr(a) \in Nat
      /\ get_in_block_addr(a) \in Offset
      /\ a = BlockSize * get_block_addr(a) + get_in_block_addr(a)
  BY <1>2 DEF get_block_addr, get_in_block_addr, Offset
<1> DEFINE b == get_block_addr(a)
<1>4. b \in Nat  BY <1>3
<1> HIDE DEF b
<1>5. /\ b \div NGroups \in Nat
      /\ b % NGroups \in 0 .. NGroups - 1
      /\ b = NGroups * (b \div NGroups) + (b % NGroups)
  BY <1>4, DivisionIdentity DEF CacheAssumption
<1>6. QED  BY <1>3, <1>5 DEF b, get_tag, get_cache_group_addr, Group

\* Tag and group determine the block.
LEMMA SameBlock ==
    ASSUME CacheAssumption, NEW a \in Addr, NEW x \in Addr,
           get_tag(x) = get_tag(a), get_cache_group_addr(x) = get_cache_group_addr(a)
    PROVE  get_block_addr(x) = get_block_addr(a)
BY AddressFields

\* In one block, the offset determines the address.
LEMMA SameBlockAddress ==
    ASSUME CacheAssumption, NEW a \in Addr, NEW x \in Addr,
           get_block_addr(x) = get_block_addr(a)
    PROVE  x = a - get_in_block_addr(a) + get_in_block_addr(x)
<1>1. /\ x = BlockSize * get_block_addr(a) + get_in_block_addr(x)
      /\ a = BlockSize * get_block_addr(a) + get_in_block_addr(a)
      /\ get_block_addr(a) \in Nat
      /\ get_in_block_addr(a) \in Offset /\ get_in_block_addr(x) \in Offset
  BY AddressFields
<1>2. BlockSize * get_block_addr(a) \in Nat  BY <1>1 DEF CacheAssumption
<1>3. QED  BY <1>1, <1>2 DEF Offset, CacheAssumption

\* Memory is a whole number of blocks: a fill never leaves it.
LEMMA BlockInMemory ==
    ASSUME CacheAssumption, NEW a \in Addr, NEW o \in Offset
    PROVE  a - get_in_block_addr(a) + o \in Addr
<1> DEFINE q == get_block_addr(a)
           top == MemSize \div BlockSize
<1>1. /\ q \in Nat /\ get_in_block_addr(a) \in Offset
      /\ a = BlockSize * q + get_in_block_addr(a)
  BY AddressFields
<1>2. top \in Nat /\ MemSize = BlockSize * top
  BY DivisionIdentity DEF CacheAssumption
<1> HIDE DEF q, top
<1>3. BlockSize * q < BlockSize * top
  BY <1>1, <1>2 DEF Addr, Offset, CacheAssumption
<1>4. q < top
  <2>1. SUFFICES ASSUME top <= q PROVE FALSE  BY <1>1, <1>2
  <2>2. BlockSize * top <= BlockSize * q  BY <2>1, <1>1, <1>2, SMT DEF CacheAssumption
  <2>3. BlockSize * top \in Nat /\ BlockSize * q \in Nat  BY <1>1, <1>2 DEF CacheAssumption
  <2>4. QED  BY <2>2, <2>3, <1>3
<1>5. BlockSize * (q + 1) <= BlockSize * top
  <2>1. q + 1 <= top  BY <1>1, <1>2, <1>4
  <2>2. QED  BY <2>1, <1>1, <1>2, SMT DEF CacheAssumption
<1>6. BlockSize * (q + 1) = BlockSize * q + BlockSize
  BY <1>1 DEF CacheAssumption
<1>7. BlockSize * q \in Nat  BY <1>1 DEF CacheAssumption
<1>8. QED  BY <1>1, <1>2, <1>5, <1>6, <1>7 DEF Addr, Offset, CacheAssumption

\* An access within one line: its bytes are consecutive bytes of the line.
LEMMA WithinLineFields ==
    ASSUME CacheAssumption, NEW a \in Addr, NEW n \in 1 .. BlockSize, WithinLine(a, n),
           a + n <= MemSize, NEW i \in 0 .. n - 1
    PROVE  /\ a + i \in Addr
           /\ get_block_addr(a + i) = get_block_addr(a)
           /\ get_in_block_addr(a + i) = get_in_block_addr(a) + i
           /\ get_in_block_addr(a) + n <= BlockSize
<1> DEFINE q == get_block_addr(a)
           r == get_in_block_addr(a)
           e == a + n - 1
<1>1. q \in Nat /\ r \in Offset /\ a = BlockSize * q + r  BY AddressFields
<1>2. e \in Addr  BY DEF Addr, CacheAssumption
<1>3. /\ get_block_addr(e) = q
      /\ get_in_block_addr(e) \in Offset
      /\ e = BlockSize * get_block_addr(e) + get_in_block_addr(e)
  <2>1. get_block_addr(e) = q  BY DEF WithinLine
  <2>2. QED  BY <2>1, <1>2, AddressFields
<1>4. BlockSize * q \in Nat  BY <1>1 DEF CacheAssumption
<1>5. r + (n - 1) \in Offset
  <2>1. e = BlockSize * q + (r + (n - 1))  BY <1>1, <1>4 DEF Offset, CacheAssumption
  <2>2. QED  BY <2>1, <1>1, <1>3, <1>4 DEF Offset, CacheAssumption
<1>6. r + i \in Offset  BY <1>1, <1>5 DEF Offset, CacheAssumption
<1>7. a + i = BlockSize * q + (r + i)  BY <1>1, <1>4 DEF Offset, CacheAssumption
<1>8. a + i \in Addr  BY DEF Addr, CacheAssumption
<1> HIDE DEF q, r, e
<1>9. /\ get_block_addr(a + i) = q
      /\ get_in_block_addr(a + i) = r + i
  BY <1>1, <1>6, <1>7, FieldsOf
<1>10. QED  BY <1>1, <1>5, <1>8, <1>9 DEF q, r, Offset, CacheAssumption

\* An access across a line boundary: both halves are nonempty and each lies
\* within one line, so the recursion of cache_read and cache_write ends there.
LEMMA AcrossLinesHalves ==
    ASSUME CacheAssumption, NEW a \in Addr, NEW n \in 1 .. BlockSize, ~WithinLine(a, n),
           a + n <= MemSize
    PROVE  /\ InBlockLen(a) \in 1 .. n - 1
           /\ a + InBlockLen(a) \in Addr
           /\ WithinLine(a, InBlockLen(a))
           /\ WithinLine(a + InBlockLen(a), n - InBlockLen(a))
<1> DEFINE q == get_block_addr(a)
           r == get_in_block_addr(a)
           k == InBlockLen(a)
<1>1. q \in Nat /\ r \in Offset /\ a = BlockSize * q + r  BY AddressFields
<1>2. BlockSize * q \in Nat  BY <1>1 DEF CacheAssumption
<1>3. k = BlockSize - r /\ k \in 1 .. BlockSize
  BY <1>1 DEF InBlockLen, Offset, CacheAssumption
<1>4. k < n
  <2> SUFFICES ASSUME n <= k PROVE FALSE  BY <1>3 DEF CacheAssumption
  <2>1. r + (n - 1) \in Offset  BY <1>1, <1>3 DEF Offset, CacheAssumption
  <2>2. a + n - 1 = BlockSize * q + (r + (n - 1))
    BY <1>1, <1>2 DEF Offset, CacheAssumption
  <2> HIDE DEF q, r
  <2>3. get_block_addr(a + n - 1) = q  BY <1>1, <2>1, <2>2, FieldsOf
  <2>4. QED  BY <2>3 DEF q, WithinLine
<1>5. BlockSize * (q + 1) = BlockSize * q + BlockSize  BY <1>1 DEF CacheAssumption
<1>6. a + k \in Addr  BY <1>3, <1>4 DEF Addr, CacheAssumption
<1>7. get_block_addr(a + k - 1) = q
  <2>1. a + k - 1 = BlockSize * q + (BlockSize - 1)
    BY <1>1, <1>2, <1>3 DEF Offset, CacheAssumption
  <2>2. BlockSize - 1 \in Offset  BY DEF Offset, CacheAssumption
  <2> HIDE DEF q, r, k
  <2>3. QED  BY <1>1, <2>1, <2>2, FieldsOf
<1>8. get_block_addr(a + k) = q + 1
  <2>1. a + k = BlockSize * (q + 1) + 0
    BY <1>1, <1>2, <1>3, <1>5 DEF Offset, CacheAssumption
  <2>2. 0 \in Offset /\ q + 1 \in Nat  BY <1>1 DEF Offset, CacheAssumption
  <2> HIDE DEF q, r, k
  <2>3. QED  BY <2>1, <2>2, FieldsOf
<1>9. get_block_addr((a + k) + (n - k) - 1) = q + 1
  <2>1. (a + k) + (n - k) - 1 = BlockSize * (q + 1) + (n - k - 1)
    BY <1>1, <1>2, <1>3, <1>5 DEF Offset, CacheAssumption
  <2>2. n - k - 1 \in Offset /\ q + 1 \in Nat
    BY <1>1, <1>3, <1>4 DEF Offset, CacheAssumption
  <2> HIDE DEF q, r, k
  <2>3. QED  BY <2>1, <2>2, FieldsOf
<1>10. QED
  BY <1>3, <1>4, <1>6, <1>7, <1>8, <1>9 DEF WithinLine

-----------------------------------------------------------------------------
(***************************************************************************)
(* What each operation of the cache preserves.                             *)
(***************************************************************************)

CacheType == [Group -> [Way -> CacheLine]]
MemType   == [Addr -> Byte]

\* The inductive invariant, as a predicate of a cache and a memory: besides
\* agreeing with memory, no block may sit in two lines, or a write would
\* leave the second copy stale.
Good(c, m) ==
    /\ c \in CacheType
    /\ m \in MemType
    /\ Coherent(c, m)
    /\ DistinctTags(c)

\* On a hit the scan returns a way that holds the block.
LEMMA HitWay ==
    ASSUME NEW c, NEW a, HitWays(c, a) # {}, CacheAssumption
    PROVE  get_line_num(c, a) \in HitWays(c, a) /\ get_line_num(c, a) \in Way
<1>1. HitWays(c, a) \in SUBSET Nat  BY DEF HitWays, Way, CacheAssumption
<1>2. get_line_num(c, a) \in HitWays(c, a)  BY <1>1, FirstIsMember DEF get_line_num
<1>3. QED  BY <1>2 DEF HitWays

\* Filling a line after a miss keeps the invariant and makes the line hit.
LEMMA LoadKeepsGood ==
    ASSUME CacheAssumption, NEW c, NEW m, Good(c, m), NEW a \in Addr,
           HitWays(c, a) = {}, NEW w \in Way
    PROVE  /\ Good(load_cache_line(c, m, a, w), m)
           /\ HitWays(load_cache_line(c, m, a, w), a) # {}
<1> DEFINE g == get_cache_group_addr(a)
           new == [valid |-> TRUE, tag |-> get_tag(a),
                   data |-> [o \in Offset |-> m[a - get_in_block_addr(a) + o]]]
           c1 == load_cache_line(c, m, a, w)
<1>1. g \in Group /\ get_tag(a) \in Nat  BY AddressFields
<1>2. new \in CacheLine
  <2>1. \A o \in Offset : a - get_in_block_addr(a) + o \in Addr  BY BlockInMemory
  <2>2. [o \in Offset |-> m[a - get_in_block_addr(a) + o]] \in [Offset -> Byte]
    BY <2>1 DEF Good, MemType
  <2>3. QED  BY <1>1, <2>2 DEF CacheLine
<1>3. /\ c1 \in CacheType
      /\ c1[g][w] = new
      /\ \A h \in Group, v \in Way : (h # g \/ v # w) => c1[h][v] = c[h][v]
  <2> HIDE DEF new
  <2>1. c1 = [c EXCEPT ![g][w] = new]  BY DEF load_cache_line, new
  <2> HIDE DEF g, c1
  <2>2. QED  BY <1>1, <1>2, <2>1 DEF Good, CacheType
<1>4. \A v \in Way : ~(c[g][v].valid /\ c[g][v].tag = get_tag(a))
  BY DEF HitWays, Line
<1>5. Coherent(c1, m)
  <2> SUFFICES ASSUME NEW x \in Addr, NEW v \in Way,
                      Line(c1, x, v).valid, Line(c1, x, v).tag = get_tag(x)
               PROVE  Line(c1, x, v).data[get_in_block_addr(x)] = m[x]
    BY DEF Coherent
  <2> DEFINE h == get_cache_group_addr(x)
  <2>1. h \in Group /\ get_in_block_addr(x) \in Offset  BY AddressFields
  <2>2. CASE h = g /\ v = w
    <3>1. Line(c1, x, v) = new  BY <2>2, <1>3 DEF Line
    <3>2. get_tag(x) = get_tag(a)  BY <3>1
    <3>3. x = a - get_in_block_addr(a) + get_in_block_addr(x)
      BY <2>2, <3>2, SameBlock, SameBlockAddress
    <3>4. new.data[get_in_block_addr(x)] = m[a - get_in_block_addr(a) + get_in_block_addr(x)]
      BY <2>1
    <3>5. QED  BY <3>1, <3>3, <3>4
  <2>3. CASE h # g \/ v # w
    <3>1. Line(c1, x, v) = Line(c, x, v)  BY <2>1, <2>3, <1>3 DEF Line
    <3>2. QED  BY <3>1 DEF Good, Coherent
  <2>4. QED  BY <2>2, <2>3
<1>6. DistinctTags(c1)
  <2> HIDE DEF c1
  <2> SUFFICES ASSUME NEW h \in Group, NEW u \in Way, NEW v \in Way,
                      c1[h][u].valid, c1[h][v].valid, c1[h][u].tag = c1[h][v].tag
               PROVE  u = v
    BY DEF DistinctTags
  <2>1. CASE h = g /\ u = w /\ v # w  BY <2>1, <1>3, <1>4
  <2>2. CASE h = g /\ v = w /\ u # w  BY <2>2, <1>3, <1>4
  <2>3. CASE (h # g) \/ (u # w /\ v # w)
    <3>1. c1[h][u] = c[h][u] /\ c1[h][v] = c[h][v]  BY <2>3, <1>3
    <3>2. QED  BY <3>1 DEF Good, DistinctTags
  <2>4. CASE u = w /\ v = w  BY <2>4
  <2>5. QED  BY <2>1, <2>2, <2>3, <2>4
<1>7. w \in HitWays(c1, a)  BY <1>3 DEF HitWays, Line
<1>8. QED  BY <1>3, <1>5, <1>6, <1>7 DEF Good

\* Whatever line a miss evicts, the cache is good and the access now hits.
LEMMA LoadedGood ==
    ASSUME CacheAssumption, NEW c, NEW m, Good(c, m), NEW a \in Addr,
           NEW c1 \in Loaded(c, m, a)
    PROVE  Good(c1, m) /\ HitWays(c1, a) # {}
<1>1. CASE HitWays(c, a) # {}  BY <1>1 DEF Loaded
<1>2. CASE HitWays(c, a) = {}
  <2>1. ReplaceWays(c, a) \subseteq Way
    <3>1. EmptyWays(c, a) \in SUBSET Nat  BY DEF EmptyWays, Way, CacheAssumption
    <3>2. EmptyWays(c, a) # {} => First(EmptyWays(c, a)) \in Way
      BY <3>1, FirstIsMember DEF EmptyWays
    <3>3. QED  BY <3>2 DEF ReplaceWays
  <2>2. PICK w \in Way : c1 = load_cache_line(c, m, a, w)
    BY <1>2, <2>1 DEF Loaded
  <2>3. QED  BY <1>2, <2>2, LoadKeepsGood
<1>3. QED  BY <1>1, <1>2

\* A read that hits within one line returns the bytes of memory.
LEMMA ReadCacheData ==
    ASSUME CacheAssumption, NEW c, NEW m, Good(c, m), NEW a \in Addr,
           NEW n \in 1 .. BlockSize, WithinLine(a, n), a + n <= MemSize,
           HitWays(c, a) # {}
    PROVE  read_cache_data(c, a, n) = hw_mem_read(m, a, n)
<1> DEFINE w == get_line_num(c, a)
<1>1. w \in Way /\ Line(c, a, w).valid /\ Line(c, a, w).tag = get_tag(a)
  BY HitWay DEF HitWays
<1>2. ASSUME NEW i \in 0 .. n - 1
      PROVE  Line(c, a, w).data[get_in_block_addr(a) + i] = m[a + i]
  <2>1. /\ a + i \in Addr
        /\ get_block_addr(a + i) = get_block_addr(a)
        /\ get_in_block_addr(a + i) = get_in_block_addr(a) + i
    BY WithinLineFields
  <2>2. /\ get_tag(a + i) = get_tag(a)
        /\ get_cache_group_addr(a + i) = get_cache_group_addr(a)
    BY <2>1 DEF get_tag, get_cache_group_addr
  <2>3. Line(c, a + i, w) = Line(c, a, w)  BY <2>2 DEF Line
  <2> HIDE DEF w
  <2>4. Line(c, a + i, w).data[get_in_block_addr(a + i)] = m[a + i]
    BY <1>1, <2>1, <2>2, <2>3 DEF Good, Coherent
  <2>5. QED  BY <2>1, <2>3, <2>4
<1>3. QED  BY <1>2 DEF read_cache_data, hw_mem_read

\* What cache_read may do within one line: keep the invariant and return
\* the bytes of memory.
LEMMA ReadWithinLineGood ==
    ASSUME CacheAssumption, NEW c, NEW m, Good(c, m), NEW a \in Addr,
           NEW n \in 1 .. BlockSize, WithinLine(a, n), a + n <= MemSize,
           NEW o \in OutcomesWithinLine(c, m, a, n)
    PROVE  Good(o.cache, m) /\ o.value = hw_mem_read(m, a, n)
<1>1. PICK c1 \in Loaded(c, m, a) : o = [cache |-> c1, value |-> read_cache_data(c1, a, n)]
  BY DEF OutcomesWithinLine
<1>2. Good(c1, m) /\ HitWays(c1, a) # {}  BY LoadedGood
<1>3. read_cache_data(c1, a, n) = hw_mem_read(m, a, n)  BY <1>2, ReadCacheData
<1>4. QED  BY <1>1, <1>2, <1>3

\* The same for any access, across lines too.
LEMMA ReadGood ==
    ASSUME CacheAssumption, NEW c, NEW m, Good(c, m), NEW a \in Addr,
           NEW n \in 1 .. MaxLen, a + n <= MemSize,
           NEW o \in ReadOutcomes(c, m, a, n)
    PROVE  Good(o.cache, m) /\ o.value = hw_mem_read(m, a, n)
<1>0. n \in 1 .. BlockSize  BY DEF CacheAssumption
<1>1. CASE WithinLine(a, n)
  BY <1>0, <1>1, ReadWithinLineGood DEF ReadOutcomes
<1>2. CASE ~WithinLine(a, n)
  <2> DEFINE k == InBlockLen(a)
  <2>1. /\ k \in 1 .. n - 1 /\ a + k \in Addr
        /\ WithinLine(a, k) /\ WithinLine(a + k, n - k)
    BY <1>0, <1>2, AcrossLinesHalves
  <2>2. /\ k \in 1 .. BlockSize /\ n - k \in 1 .. BlockSize
        /\ a + k <= MemSize /\ (a + k) + (n - k) <= MemSize
    BY <2>1, <1>0 DEF CacheAssumption, Addr
  <2>3. PICK c1 \in Loaded(c, m, a) :
        \E h \in OutcomesWithinLine(c1, m, a + k, n - k) :
        \E l \in OutcomesWithinLine(h.cache, m, a, k) :
            o = [cache |-> l.cache,
                 value |-> [i \in 0 .. n - 1 |-> IF i < k THEN l.value[i] ELSE h.value[i - k]]]
    BY <1>2 DEF ReadOutcomes, OutcomesAcrossLines
  <2>4. PICK h \in OutcomesWithinLine(c1, m, a + k, n - k) :
        \E l \in OutcomesWithinLine(h.cache, m, a, k) :
            o = [cache |-> l.cache,
                 value |-> [i \in 0 .. n - 1 |-> IF i < k THEN l.value[i] ELSE h.value[i - k]]]
    BY <2>3
  <2>5. PICK l \in OutcomesWithinLine(h.cache, m, a, k) :
            o = [cache |-> l.cache,
                 value |-> [i \in 0 .. n - 1 |-> IF i < k THEN l.value[i] ELSE h.value[i - k]]]
    BY <2>4
  <2> HIDE DEF k
  <2>6. Good(c1, m)  BY LoadedGood
  <2>7. Good(h.cache, m) /\ h.value = hw_mem_read(m, a + k, n - k)
    BY <2>1, <2>2, <2>6, ReadWithinLineGood
  <2>8. Good(l.cache, m) /\ l.value = hw_mem_read(m, a, k)
    BY <2>1, <2>2, <2>7, ReadWithinLineGood
  <2>9. \A i \in 0 .. n - 1 :
            (IF i < k THEN l.value[i] ELSE h.value[i - k]) = m[a + i]
    <3> TAKE i \in 0 .. n - 1
    <3>1. CASE i < k
      BY <3>1, <2>1, <2>8 DEF hw_mem_read
    <3>2. CASE ~(i < k)
      <4>1. i - k \in 0 .. (n - k) - 1 /\ (a + k) + (i - k) = a + i
        BY <3>2, <2>1 DEF Addr, CacheAssumption
      <4>2. h.value[i - k] = m[(a + k) + (i - k)]  BY <4>1, <2>7 DEF hw_mem_read
      <4>3. QED  BY <3>2, <4>1, <4>2
    <3>3. QED  BY <3>1, <3>2
  <2>10. o.value = hw_mem_read(m, a, n)  BY <2>5, <2>9 DEF hw_mem_read
  <2>11. QED  BY <2>5, <2>8, <2>10
<1>3. QED  BY <1>1, <1>2

\* cache_write within one line keeps cache and memory in agreement.
LEMMA WriteLineGood ==
    ASSUME CacheAssumption, NEW c, NEW m, Good(c, m), NEW a \in Addr,
           NEW n \in 1 .. BlockSize, WithinLine(a, n), a + n <= MemSize,
           NEW d \in Bytes(n)
    PROVE  Good(WriteLine(c, a, n, d), hw_mem_write(m, a, n, d))
<1> DEFINE g == get_cache_group_addr(a)
           w == get_line_num(c, a)
           from == get_in_block_addr(a)
           m1 == hw_mem_write(m, a, n, d)
           c1 == WriteLine(c, a, n, d)
           line == [c[g][w] EXCEPT !.data =
                      [o \in Offset |-> IF from <= o /\ o < from + n THEN d[o - from] ELSE @[o]]]
<1>1. g \in Group /\ get_tag(a) \in Nat /\ from \in Offset  BY AddressFields
<1>2. m1 \in MemType
  <2>1. ASSUME NEW x \in Addr, a <= x, x < a + n PROVE d[x - a] \in Byte
    <3>1. x - a \in 0 .. n - 1  BY <2>1 DEF Addr, CacheAssumption
    <3>2. QED  BY <3>1 DEF Bytes
  <2>2. \A x \in Addr : m[x] \in Byte  BY DEF Good, MemType
  <2>3. QED  BY <2>1, <2>2 DEF MemType, hw_mem_write
<1>3. \A x \in Addr : get_block_addr(x) # get_block_addr(a) => m1[x] = m[x]
  <2> SUFFICES ASSUME NEW x \in Addr, get_block_addr(x) # get_block_addr(a)
               PROVE  ~(a <= x /\ x < a + n)
    BY DEF hw_mem_write
  <2> SUFFICES ASSUME a <= x, x < a + n PROVE FALSE  OBVIOUS
  <2>1. x - a \in 0 .. n - 1 /\ a + (x - a) = x  BY DEF Addr, CacheAssumption
  <2>2. get_block_addr(a + (x - a)) = get_block_addr(a)  BY <2>1, WithinLineFields
  <2>3. QED  BY <2>1, <2>2
<1>4. CASE HitWays(c, a) = {}
  <2>1. c1 = c  BY <1>4 DEF WriteLine
  <2>2. Coherent(c, m1)
    <3> SUFFICES ASSUME NEW x \in Addr, NEW v \in Way,
                        Line(c, x, v).valid, Line(c, x, v).tag = get_tag(x)
                 PROVE  Line(c, x, v).data[get_in_block_addr(x)] = m1[x]
      BY DEF Coherent
    <3>1. get_block_addr(x) # get_block_addr(a)
      <4> SUFFICES ASSUME get_block_addr(x) = get_block_addr(a) PROVE FALSE  OBVIOUS
      <4>1. Line(c, a, v).valid /\ Line(c, a, v).tag = get_tag(a)
        BY DEF Line, get_tag, get_cache_group_addr
      <4>2. QED  BY <4>1, <1>4 DEF HitWays
    <3>2. m1[x] = m[x]  BY <3>1, <1>3
    <3>3. QED  BY <3>2 DEF Good, Coherent
  <2>3. QED  BY <2>1, <2>2, <1>2 DEF Good
<1>5. CASE HitWays(c, a) # {}
  <2>1. w \in Way /\ c[g][w].valid /\ c[g][w].tag = get_tag(a)
    BY <1>5, HitWay DEF HitWays, Line
  <2>2. c[g][w] \in CacheLine  BY <1>1, <2>1 DEF Good, CacheType
  <2>3. /\ line \in CacheLine
        /\ line.valid = c[g][w].valid /\ line.tag = c[g][w].tag
        /\ \A o \in Offset : line.data[o] =
              IF from <= o /\ o < from + n THEN d[o - from] ELSE c[g][w].data[o]
    <3>1. ASSUME NEW o \in Offset, from <= o, o < from + n PROVE d[o - from] \in Byte
      <4>1. o - from \in 0 .. n - 1  BY <3>1, <1>1 DEF Offset, CacheAssumption
      <4>2. QED  BY <4>1 DEF Bytes
    <3> HIDE DEF from
    <3>2. QED  BY <3>1, <2>2 DEF CacheLine
  <2>4. /\ c1 \in CacheType
        /\ c1[g][w] = line
        /\ \A h \in Group, v \in Way : (h # g \/ v # w) => c1[h][v] = c[h][v]
    <3>1. c1 = [c EXCEPT ![g][w].data =
                  [o \in Offset |-> IF from <= o /\ o < from + n THEN d[o - from] ELSE @[o]]]
      BY <1>5 DEF WriteLine, write_cache_data
    <3>2. c1 = [c EXCEPT ![g][w] = line]
      BY <3>1, <1>1, <2>1 DEF Good, CacheType
    <3> HIDE DEF g, w, line, c1
    <3>3. QED  BY <3>2, <1>1, <2>1, <2>3 DEF Good, CacheType
  <2> HIDE DEF line, c1
  <2>5. Coherent(c1, m1)
    <3> SUFFICES ASSUME NEW x \in Addr, NEW v \in Way,
                        Line(c1, x, v).valid, Line(c1, x, v).tag = get_tag(x)
                 PROVE  Line(c1, x, v).data[get_in_block_addr(x)] = m1[x]
      BY DEF Coherent
    <3> DEFINE h == get_cache_group_addr(x)
               o == get_in_block_addr(x)
    <3>1. h \in Group /\ o \in Offset  BY AddressFields
    <3>2. CASE h = g /\ v = w
      <4>1. Line(c1, x, v) = line  BY <3>2, <2>4 DEF Line
      <4>2. get_tag(x) = get_tag(a)  BY <4>1, <2>1, <2>3
      <4>3. get_block_addr(x) = get_block_addr(a)  BY <3>2, <4>2, SameBlock
      <4>4. x = a - from + o  BY <4>3, SameBlockAddress
      <4>5. c[g][w].data[o] = m[x]  BY <3>2, <4>2, <2>1 DEF Good, Coherent, Line
      <4>6. m1[x] = IF a <= x /\ x < a + n THEN d[x - a] ELSE m[x]  BY DEF hw_mem_write
      <4> HIDE DEF from, o, g, h, w, m1
      <4>7. (a <= x /\ x < a + n) <=> (from <= o /\ o < from + n)
        BY <4>4, <1>1, <3>1 DEF Addr, Offset, CacheAssumption
      <4>8. x - a = o - from
        BY <4>4, <1>1, <3>1 DEF Addr, Offset, CacheAssumption
      <4>9. line.data[o] = m1[x]  BY <2>3, <3>1, <4>5, <4>6, <4>7, <4>8
      <4>10. QED  BY <4>1, <4>9 DEF o
    <3>3. CASE h # g \/ v # w
      <4>1. Line(c1, x, v) = Line(c, x, v)  BY <3>1, <3>3, <2>4 DEF Line
      <4>2. get_block_addr(x) # get_block_addr(a)
        <5> SUFFICES ASSUME get_block_addr(x) = get_block_addr(a) PROVE FALSE  OBVIOUS
        <5>1. h = g /\ get_tag(x) = get_tag(a)  BY DEF get_tag, get_cache_group_addr
        <5>2. c[g][v].valid /\ c[g][v].tag = c[g][w].tag
          BY <5>1, <4>1, <2>1 DEF Line
        <5>3. v = w  BY <5>2, <1>1, <2>1 DEF Good, DistinctTags
        <5>4. QED  BY <5>1, <5>3, <3>3
      <4>3. m1[x] = m[x]  BY <4>2, <1>3
      <4>4. QED  BY <4>1, <4>3 DEF Good, Coherent
    <3>4. QED  BY <3>2, <3>3
  <2>6. DistinctTags(c1)
    <3>1. \A h \in Group, v \in Way :
             c1[h][v].valid = c[h][v].valid /\ c1[h][v].tag = c[h][v].tag
      BY <2>3, <2>4
    <3>2. QED  BY <3>1 DEF Good, DistinctTags
  <2>7. QED  BY <2>4, <2>5, <2>6, <1>2 DEF Good, c1
<1>6. QED  BY <1>4, <1>5

\* The halves of a value written across a line boundary are values of their
\* lengths, so the two recursive calls of cache_write are well formed.
LEMMA HalvesAreBytes ==
    ASSUME NEW n \in Nat, NEW k \in 1 .. n - 1, NEW d \in Bytes(n)
    PROVE  Low(d, k) \in Bytes(k) /\ High(d, k, n) \in Bytes(n - k)
<1>1. \A i \in 0 .. k - 1 : i \in 0 .. n - 1  OBVIOUS
<1>2. \A i \in 0 .. n - k - 1 : i + k \in 0 .. n - 1  OBVIOUS
<1>3. QED  BY <1>1, <1>2 DEF Low, High, Bytes

\* cache_write of any access keeps cache and memory in agreement.
LEMMA WriteGood ==
    ASSUME CacheAssumption, NEW c, NEW m, Good(c, m), NEW a \in Addr,
           NEW n \in 1 .. MaxLen, a + n <= MemSize, NEW d \in Bytes(n)
    PROVE  Good(CacheAfterWrite(c, a, n, d), MemAfterWrite(m, a, n, d))
<1>0. n \in 1 .. BlockSize /\ n \in Nat  BY DEF CacheAssumption
<1>1. CASE WithinLine(a, n)
  BY <1>0, <1>1, WriteLineGood DEF CacheAfterWrite, MemAfterWrite
<1>2. CASE ~WithinLine(a, n)
  <2> DEFINE k == InBlockLen(a)
             c1 == WriteLine(c, a, k, Low(d, k))
             m1 == hw_mem_write(m, a, k, Low(d, k))
  <2>1. /\ k \in 1 .. n - 1 /\ a + k \in Addr
        /\ WithinLine(a, k) /\ WithinLine(a + k, n - k)
    BY <1>0, <1>2, AcrossLinesHalves
  <2>2. /\ k \in 1 .. BlockSize /\ n - k \in 1 .. BlockSize
        /\ a + k <= MemSize /\ (a + k) + (n - k) <= MemSize
    BY <2>1, <1>0 DEF CacheAssumption, Addr
  <2>3. /\ CacheAfterWrite(c, a, n, d) = WriteLine(c1, a + k, n - k, High(d, k, n))
        /\ MemAfterWrite(m, a, n, d) = hw_mem_write(m1, a + k, n - k, High(d, k, n))
    BY <1>2 DEF CacheAfterWrite, MemAfterWrite
  <2> HIDE DEF k
  <2>4. Low(d, k) \in Bytes(k) /\ High(d, k, n) \in Bytes(n - k)
    BY <1>0, <2>1, HalvesAreBytes
  <2>5. Good(c1, m1)  BY <2>1, <2>2, <2>4, WriteLineGood
  <2> HIDE DEF c1, m1
  <2>6. QED  BY <2>1, <2>2, <2>3, <2>4, <2>5, WriteLineGood
<1>3. QED  BY <1>1, <1>2

\* The one or two hw_mem_write calls of cache_write store what a single call
\* would.
LEMMA SplitWrite ==
    ASSUME CacheAssumption, NEW m, NEW a \in Addr, NEW n \in 1 .. MaxLen,
           a + n <= MemSize, NEW d \in Bytes(n)
    PROVE  MemAfterWrite(m, a, n, d) = hw_mem_write(m, a, n, d)
<1>0. n \in 1 .. BlockSize  BY DEF CacheAssumption
<1>1. CASE WithinLine(a, n)  BY <1>1 DEF MemAfterWrite
<1>2. CASE ~WithinLine(a, n)
  <2> DEFINE k == InBlockLen(a)
             m1 == hw_mem_write(m, a, k, Low(d, k))
  <2>1. k \in 1 .. n - 1 /\ a + k \in Addr  BY <1>0, <1>2, AcrossLinesHalves
  <2>2. MemAfterWrite(m, a, n, d) = hw_mem_write(m1, a + k, n - k, High(d, k, n))
    BY <1>2 DEF MemAfterWrite
  <2> HIDE DEF k
  <2>3. ASSUME NEW x \in Addr
        PROVE  (IF a + k <= x /\ x < (a + k) + (n - k) THEN High(d, k, n)[x - (a + k)] ELSE m1[x])
                 = (IF a <= x /\ x < a + n THEN d[x - a] ELSE m[x])
    <3>1. CASE a + k <= x /\ x < a + n
      <4>1. x - (a + k) \in 0 .. n - k - 1 /\ (x - (a + k)) + k = x - a
        BY <3>1, <2>1 DEF Addr, CacheAssumption
      <4>2. High(d, k, n)[x - (a + k)] = d[x - a]  BY <4>1 DEF High
      <4>3. QED  BY <3>1, <4>2, <2>1 DEF Addr, CacheAssumption
    <3>2. CASE a <= x /\ x < a + k
      <4>1. x - a \in 0 .. k - 1  BY <3>2, <2>1 DEF Addr, CacheAssumption
      <4>2. m1[x] = d[x - a]  BY <3>2, <4>1 DEF hw_mem_write, Low
      <4>3. QED  BY <3>2, <4>2, <2>1 DEF Addr, CacheAssumption
    <3>3. CASE x < a \/ a + n <= x
      <4>1. m1[x] = m[x]  BY <3>3, <2>1 DEF hw_mem_write, Addr, CacheAssumption
      <4>2. QED  BY <3>3, <4>1, <2>1 DEF Addr, CacheAssumption
    <3>4. QED  BY <3>1, <3>2, <3>3, <2>1 DEF Addr, CacheAssumption
  <2> HIDE DEF m1
  <2>4. QED  BY <2>2, <2>3 DEF hw_mem_write
<1>3. QED  BY <1>1, <1>2

-----------------------------------------------------------------------------
(***************************************************************************)
(* The theorems.                                                           *)
(***************************************************************************)

CacheInv == Good(cache, hw_mem) /\ booted \in BOOLEAN

\* The inductive invariant holds in every reachable state: init_mem leaves no
\* valid line, load_exec stores before any line is valid, and the accesses
\* preserve it by the lemmas above.  Until load_exec no access runs, which the
\* strengthening records.
EmptyUntilBoot ==
    ~booted => \A g \in Group, w \in Way : ~cache[g][w].valid

THEOREM CacheInvariant == Spec => [](CacheInv /\ EmptyUntilBoot)
<1>1. Init => CacheInv /\ EmptyUntilBoot
  <2> SUFFICES ASSUME Init PROVE CacheInv /\ EmptyUntilBoot  OBVIOUS
  <2>1. cache \in CacheType
    BY CacheAssumption DEF Init, CacheType, CacheLine
  <2>2. hw_mem \in MemType  BY CacheAssumption DEF Init, MemType
  <2>3. \A g \in Group, w \in Way : ~cache[g][w].valid  BY DEF Init
  <2>4. Coherent(cache, hw_mem)
    BY <2>3, AddressFields, CacheAssumption DEF Coherent, Line
  <2>5. DistinctTags(cache)  BY <2>3 DEF DistinctTags
  <2>6. QED  BY <2>1, <2>2, <2>3, <2>4, <2>5 DEF CacheInv, Good, EmptyUntilBoot, Init
<1>2. CacheInv /\ EmptyUntilBoot /\ [Next]_vars => (CacheInv /\ EmptyUntilBoot)'
  <2> SUFFICES ASSUME CacheInv, EmptyUntilBoot, [Next]_vars
               PROVE  CacheInv' /\ EmptyUntilBoot'
    OBVIOUS
  <2>1. CASE LoadExec
    <3>1. \A g \in Group, w \in Way : ~cache'[g][w].valid
      BY <2>1 DEF LoadExec, EmptyUntilBoot
    <3>2. Coherent(cache', hw_mem')
      BY <3>1, AddressFields, CacheAssumption DEF Coherent, Line
    <3>3. DistinctTags(cache')  BY <3>1 DEF DistinctTags
    <3>4. cache' \in CacheType /\ hw_mem' \in MemType /\ booted' \in BOOLEAN
      BY <2>1 DEF LoadExec, CacheInv, Good, MemType
    <3>5. QED  BY <3>1, <3>2, <3>3, <3>4 DEF CacheInv, Good, EmptyUntilBoot
  <2>2. ASSUME NEW a \in Addr, NEW n \in 1 .. MaxLen, cache_read(a, n)
        PROVE  CacheInv' /\ EmptyUntilBoot'
    <3>1. PICK o \in ReadOutcomes(cache, hw_mem, a, n) : cache' = o.cache
      BY <2>2 DEF cache_read
    <3>2. Good(o.cache, hw_mem)
      BY <2>2, ReadGood, CacheAssumption DEF cache_read, CacheInv
    <3>3. hw_mem' = hw_mem /\ booted' = booted /\ booted  BY <2>2 DEF cache_read
    <3>4. QED  BY <3>1, <3>2, <3>3 DEF CacheInv, EmptyUntilBoot
  <2>3. ASSUME NEW a \in Addr, NEW n \in 1 .. MaxLen, NEW d \in Bytes(n),
               cache_write(a, n, d)
        PROVE  CacheInv' /\ EmptyUntilBoot'
    <3>1. Good(CacheAfterWrite(cache, a, n, d), MemAfterWrite(hw_mem, a, n, d))
      BY <2>3, WriteGood, CacheAssumption DEF cache_write, CacheInv
    <3>2. QED  BY <2>3, <3>1 DEF cache_write, CacheInv, EmptyUntilBoot
  <2>4. CASE UNCHANGED vars
    <3>1. cache' = cache /\ hw_mem' = hw_mem /\ booted' = booted  BY <2>4 DEF vars
    <3>2. QED  BY <3>1 DEF CacheInv, EmptyUntilBoot
  <2>5. QED  BY <2>1, <2>2, <2>3, <2>4 DEF Next
<1>3. QED  BY <1>1, <1>2, PTL DEF Spec

\* The variables keep their types.
THEOREM CacheTypeCorrect == Spec => []TypeOK
<1>1. CacheInv => TypeOK  BY DEF CacheInv, Good, TypeOK, CacheType, MemType
<1>2. QED  BY <1>1, CacheInvariant, PTL

\* No valid line is ever stale with respect to DRAM.
THEOREM CacheIsCoherent == Spec => []CacheCoherent
<1>1. CacheInv => CacheCoherent  BY DEF CacheInv, Good, CacheCoherent
<1>2. QED  BY <1>1, CacheInvariant, PTL

\* No block is ever held by two lines of its group.
THEOREM CacheHasNoDuplicates == Spec => []NoDuplicateBlock
<1>1. CacheInv => NoDuplicateBlock  BY DEF CacheInv, Good, NoDuplicateBlock
<1>2. QED  BY <1>1, CacheInvariant, PTL

\* Every read, of any address and length and whatever it evicts, returns
\* what the machine without the cache would.
THEOREM CacheReadsLikeMemory == Spec => []ReadsLikeMemory
<1>1. CacheInv => ReadsLikeMemory
  BY ReadGood, CacheAssumption DEF CacheInv, ReadsLikeMemory
<1>2. QED  BY <1>1, CacheInvariant, PTL

\* Every write stores what the machine without the cache would.
THEOREM CacheWritesLikeMemory == Spec => []WritesLikeMemory
<1>1. WritesLikeMemory  BY SplitWrite, CacheAssumption DEF WritesLikeMemory
<1>2. QED  BY <1>1, PTL
=============================================================================
