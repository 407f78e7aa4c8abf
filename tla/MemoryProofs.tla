---------------------------- MODULE MemoryProofs ----------------------------
(***************************************************************************)
(* Loads and stores are bytewise and the screen follows video memory, for  *)
(* any geometry of pages, lines and mapped range, and any page tables.     *)
(*                                                                         *)
(* What a load returns and a store does is decided in one state, so these  *)
(* are facts about the operators of module Memory in every well-typed      *)
(* state: an access meets at most one page end (CrossingParts), and a      *)
(* frame lies on one side of each end of the mapped range (FrameOnOneSide).*)
(* Only the screen needs an argument over time.                            *)
(***************************************************************************)
EXTENDS Memory, TLAPS

-----------------------------------------------------------------------------
(* Division.                                                               *)

LEMMA DivisionIdentity ==
    ASSUME NEW a \in Nat, NEW b \in Nat \ {0}
    PROVE  /\ a \div b \in Nat
           /\ a % b \in 0 .. b - 1
           /\ a = b * (a \div b) + (a % b)
BY SMT

\* Multiples are ordered like their factors, whatever is added below the next.
LEMMA MultiplesOrdered ==
    ASSUME NEW b \in Nat \ {0}, NEW x \in Int, NEW y \in Int, NEW r \in 0 .. b - 1
    PROVE  b * x + r >= b * y <=> x >= y
<1>1. CASE x >= y
  <2>1. b * x >= b * y  BY <1>1, SMT
  <2>2. QED  BY <1>1, <2>1
<1>2. CASE x < y
  <2>1. x + 1 <= y  BY <1>2
  <2>2. b * (x + 1) <= b * y  BY <2>1, SMT
  <2>3. b * (x + 1) = b * x + b  BY SMT
  <2>4. QED  BY <1>2, <2>2, <2>3
<1>3. QED  BY <1>1, <1>2

\* A number has one quotient and one remainder.
LEMMA DivisionUnique ==
    ASSUME NEW b \in Nat \ {0}, NEW q1 \in Int, NEW q2 \in Int,
           NEW r1 \in 0 .. b - 1, NEW r2 \in 0 .. b - 1,
           b * q1 + r1 = b * q2 + r2
    PROVE  q1 = q2 /\ r1 = r2
<1>1. q1 >= q2
  <2>1. b * q2 + r2 >= b * q2  OBVIOUS
  <2>2. QED  BY <2>1, MultiplesOrdered
<1>2. q2 >= q1
  <2>1. b * q1 + r1 >= b * q1  OBVIOUS
  <2>2. QED  BY <2>1, MultiplesOrdered
<1>3. QED  BY <1>1, <1>2

\* An offset within the page, or into the next one.
LEMMA OffsetInPage ==
    ASSUME MemoryAssumption, NEW l \in Nat, NEW k \in Nat, (l % PAGE_SIZE) + k < PAGE_SIZE
    PROVE  Page(l + k) = Page(l) /\ (l + k) % PAGE_SIZE = (l % PAGE_SIZE) + k
<1> DEFINE q == l \div PAGE_SIZE
           r == l % PAGE_SIZE
           q2 == (l + k) \div PAGE_SIZE
           r2 == (l + k) % PAGE_SIZE
<1>1. PAGE_SIZE \in Nat \ {0}  BY DEF MemoryAssumption
<1>2. q \in Nat /\ r \in 0 .. PAGE_SIZE - 1 /\ l = PAGE_SIZE * q + r
  BY <1>1, DivisionIdentity
<1>3. l + k \in Nat  OBVIOUS
<1>4. q2 \in Nat /\ r2 \in 0 .. PAGE_SIZE - 1 /\ l + k = PAGE_SIZE * q2 + r2
  BY <1>1, <1>3, DivisionIdentity
<1>5. r + k < PAGE_SIZE  OBVIOUS
<1> HIDE DEF q, r, q2, r2
<1>6. r + k \in 0 .. PAGE_SIZE - 1  BY <1>1, <1>2, <1>5
<1>7. PAGE_SIZE * q2 + r2 = PAGE_SIZE * q + (r + k)
  <2>1. PAGE_SIZE * q \in Int  BY <1>1, <1>2
  <2>2. QED  BY <2>1, <1>2, <1>4
<1>8. q2 = q /\ r2 = r + k  BY <1>1, <1>2, <1>4, <1>6, <1>7, DivisionUnique
<1>9. QED  BY <1>8 DEF q, r, q2, r2, Page

LEMMA OffsetInNextPage ==
    ASSUME MemoryAssumption, NEW l \in Nat, NEW k \in Nat,
           (l % PAGE_SIZE) + k >= PAGE_SIZE, k <= PAGE_SIZE
    PROVE  Page(l + k) = Page(l) + 1 /\ (l + k) % PAGE_SIZE = ((l % PAGE_SIZE) + k) - PAGE_SIZE
<1> DEFINE q == l \div PAGE_SIZE
           r == l % PAGE_SIZE
           q2 == (l + k) \div PAGE_SIZE
           r2 == (l + k) % PAGE_SIZE
<1>1. PAGE_SIZE \in Nat \ {0}  BY DEF MemoryAssumption
<1>2. q \in Nat /\ r \in 0 .. PAGE_SIZE - 1 /\ l = PAGE_SIZE * q + r
  BY <1>1, DivisionIdentity
<1>3. l + k \in Nat  OBVIOUS
<1>4. q2 \in Nat /\ r2 \in 0 .. PAGE_SIZE - 1 /\ l + k = PAGE_SIZE * q2 + r2
  BY <1>1, <1>3, DivisionIdentity
<1>5. r + k >= PAGE_SIZE  OBVIOUS
<1> HIDE DEF q, r, q2, r2
<1>6. (r + k) - PAGE_SIZE \in 0 .. PAGE_SIZE - 1  BY <1>1, <1>2, <1>5
<1>7. PAGE_SIZE * q2 + r2 = PAGE_SIZE * (q + 1) + ((r + k) - PAGE_SIZE)
  <2>1. PAGE_SIZE * q \in Int  BY <1>1, <1>2
  <2>2. PAGE_SIZE * (q + 1) = PAGE_SIZE * q + PAGE_SIZE  BY <1>1, <1>2
  <2>3. QED  BY <2>1, <2>2, <1>1, <1>2, <1>4
<1>8. q2 = q + 1 /\ r2 = (r + k) - PAGE_SIZE
  <2>1. q + 1 \in Int /\ q2 \in Int  BY <1>2, <1>4
  <2>2. QED  BY <1>1, <2>1, <1>4, <1>6, <1>7, DivisionUnique
<1>9. QED  BY <1>8 DEF q, r, q2, r2, Page

\* An access across a page end: its first InPage bytes are the last of their
\* page, the others the first of the next.
LEMMA CrossingParts ==
    ASSUME MemoryAssumption, NEW l \in Nat, NEW len \in Len, CrossesPage(l, len)
    PROVE  /\ InPage(l, len) \in 1 .. len - 1
           /\ InPage(l, len) = PAGE_SIZE - (l % PAGE_SIZE)
<1> DEFINE r == l % PAGE_SIZE
<1>1. PAGE_SIZE \in Nat /\ PAGE_SIZE >= 4 /\ PAGE_SIZE \in Nat \ {0}  BY DEF MemoryAssumption
<1>2. r \in 0 .. PAGE_SIZE - 1  BY <1>1, DivisionIdentity
<1>3. len \in 1 .. 4 /\ len - 1 \in Nat /\ l + (len - 1) = l + len - 1  BY DEF Len
<1>4. ~(r + (len - 1) < PAGE_SIZE)
  BY <1>3, OffsetInPage DEF CrossesPage
<1>5. (l + len) % PAGE_SIZE = (r + len) - PAGE_SIZE
  <2>1. r + len >= PAGE_SIZE /\ len \in Nat /\ len <= PAGE_SIZE  BY <1>1, <1>2, <1>3, <1>4
  <2>2. QED  BY <2>1, OffsetInNextPage
<1> HIDE DEF r
<1>6. InPage(l, len) = PAGE_SIZE - r  BY <1>1, <1>2, <1>3, <1>5 DEF InPage
<1>7. QED  BY <1>1, <1>2, <1>3, <1>4, <1>6 DEF r

LEMMA WithoutPageEnd ==
    ASSUME MemoryAssumption, NEW l \in Nat, NEW len \in Len, ~CrossesPage(l, len)
    PROVE  (l % PAGE_SIZE) + (len - 1) < PAGE_SIZE
<1>1. PAGE_SIZE \in Nat /\ PAGE_SIZE >= 4 /\ PAGE_SIZE \in Nat \ {0}  BY DEF MemoryAssumption
<1>2. (l % PAGE_SIZE) \in 0 .. PAGE_SIZE - 1  BY <1>1, DivisionIdentity
<1>3. len \in 1 .. 4 /\ len - 1 \in Nat /\ l + (len - 1) = l + len - 1 /\ len - 1 <= PAGE_SIZE
  BY <1>1 DEF Len
<1>4. l \div PAGE_SIZE \in Nat  BY <1>1, DivisionIdentity
<1>5. Page(l) + 1 # Page(l)  BY <1>4 DEF Page
<1>6. CASE (l % PAGE_SIZE) + (len - 1) >= PAGE_SIZE
  <2>1. Page(l + (len - 1)) = Page(l) + 1  BY <1>6, <1>3, OffsetInNextPage
  <2>2. QED  BY <2>1, <1>3, <1>5 DEF CrossesPage
<1>7. QED  BY <1>1, <1>2, <1>3, <1>6

-----------------------------------------------------------------------------
(* Types.                                                                  *)

\* What a store writes has a byte at each of its places.
IsWord(word, len) == \A k \in 0 .. len - 1 : word[k] \in Byte

\* The fields of the memory, one by one.
LEMMA MemoryFields ==
    ASSUME NEW m \in Memory
    PROVE  /\ m.hw_mem \in [Phys -> Byte] /\ m.mmio_space \in [Space -> Byte]
           /\ m.line_dirty \in SUBSET Line /\ m.vmem_dirty \in BOOLEAN
           /\ m.aborted \in BOOLEAN /\ m.torn \in SUBSET Line
BY DEF Memory

\* An overwritten array changes exactly in its range.
LEMMA OverwrittenAt ==
    ASSUME NEW D \in SUBSET Int, NEW f \in [D -> Byte], NEW p \in Int, NEW len \in Nat,
           NEW word, IsWord(word, len)
    PROVE  /\ Overwritten(f, p, len, word) \in [D -> Byte]
           /\ \A q \in D : Overwritten(f, p, len, word)[q] =
                               IF q - p \in 0 .. len - 1 THEN word[q - p] ELSE f[q]
<1>1. DOMAIN f = D  OBVIOUS
<1>2. ASSUME NEW q \in D
      PROVE  (IF q - p \in 0 .. len - 1 THEN word[q - p] ELSE f[q]) \in Byte
  BY DEF IsWord
<1>3. Overwritten(f, p, len, word) = [q \in D |-> IF q - p \in 0 .. len - 1 THEN word[q - p] ELSE f[q]]
  BY <1>1 DEF Overwritten
<1>4. QED  BY <1>2, <1>3

\* The fields after a write to the mapped range.
LEMMA MmioWriteFields ==
    ASSUME NEW m \in Memory, NEW p, NEW len, NEW word
    PROVE  LET after == mmio_write(m, p, len, word)
           IN  /\ after.hw_mem = m.hw_mem
               /\ after.mmio_space = Overwritten(m.mmio_space, p - LOW, len, word)
               /\ after.line_dirty = m.line_dirty \cup Marked(p)
               /\ after.vmem_dirty = (m.vmem_dirty \/ Marked(p) # {})
               /\ after.aborted = m.aborted
               /\ after.torn = m.torn \cup (LinesOf(p, len) \ Marked(p))
               /\ after = [hw_mem |-> after.hw_mem, mmio_space |-> after.mmio_space,
                           line_dirty |-> after.line_dirty, vmem_dirty |-> after.vmem_dirty,
                           aborted |-> after.aborted, torn |-> after.torn]
<1> DEFINE after == mmio_write(m, p, len, word)
<1>1. m = [hw_mem |-> m.hw_mem, mmio_space |-> m.mmio_space, line_dirty |-> m.line_dirty,
           vmem_dirty |-> m.vmem_dirty, aborted |-> m.aborted, torn |-> m.torn]
  BY DEF Memory
<1>2. after.hw_mem = m.hw_mem  BY <1>1 DEF mmio_write
<1>3. after.mmio_space = Overwritten(m.mmio_space, p - LOW, len, word)  BY <1>1 DEF mmio_write
<1>4. after.line_dirty = m.line_dirty \cup Marked(p)  BY <1>1 DEF mmio_write
<1>5. after.vmem_dirty = (m.vmem_dirty \/ Marked(p) # {})  BY <1>1, Zenon DEF mmio_write
<1>6. after.aborted = m.aborted  BY <1>1 DEF mmio_write
<1>7. after.torn = m.torn \cup (LinesOf(p, len) \ Marked(p))  BY <1>1 DEF mmio_write
<1>8. after = [hw_mem |-> after.hw_mem, mmio_space |-> after.mmio_space,
               line_dirty |-> after.line_dirty, vmem_dirty |-> after.vmem_dirty,
               aborted |-> after.aborted, torn |-> after.torn]
  <2> DEFINE space == Overwritten(m.mmio_space, p - LOW, len, word)
             lines == m.line_dirty \cup Marked(p)
             dirty == m.vmem_dirty \/ Marked(p) # {}
             torn == m.torn \cup (LinesOf(p, len) \ Marked(p))
  <2>1. after = [m EXCEPT !.mmio_space = space, !.line_dirty = lines,
                          !.vmem_dirty = dirty, !.torn = torn]
    BY Zenon DEF mmio_write
  <2> HIDE DEF after, space, lines, dirty, torn
  <2>2. after = [hw_mem |-> m.hw_mem, mmio_space |-> space, line_dirty |-> lines,
                 vmem_dirty |-> dirty, aborted |-> m.aborted, torn |-> torn]
    BY <1>1, <2>1
  <2>3. QED  BY <2>2
<1> HIDE DEF after
<1>9. QED  BY <1>2, <1>3, <1>4, <1>5, <1>6, <1>7, <1>8 DEF after

LEMMA RamWriteFields ==
    ASSUME NEW m \in Memory, NEW f
    PROVE  LET after == [m EXCEPT !.hw_mem = f]
           IN  /\ after.hw_mem = f /\ after.mmio_space = m.mmio_space
               /\ after.line_dirty = m.line_dirty /\ after.vmem_dirty = m.vmem_dirty
               /\ after.aborted = m.aborted /\ after.torn = m.torn
               /\ (f \in [Phys -> Byte] => after \in Memory)
BY DEF Memory

LEMMA FailedFields ==
    ASSUME NEW m \in Memory
    PROVE  /\ Failed(m) \in Memory /\ Failed(m).aborted
           /\ Failed(m).mmio_space = m.mmio_space
           /\ Failed(m).line_dirty = m.line_dirty /\ Failed(m).vmem_dirty = m.vmem_dirty
           /\ Failed(m).torn = m.torn
BY DEF Memory, Failed

LEMMA PhysicalWriteTypes ==
    ASSUME MemoryAssumption, NEW m \in Memory, NEW p \in Int, NEW len \in 1 .. 4,
           NEW word, IsWord(word, len)
    PROVE  paddr_write(m, p, len, word) \in Memory
<1>1. Phys \in SUBSET Int /\ Space \in SUBSET Int /\ LOW \in Int /\ len \in Nat
  BY DEF Phys, Space, MemoryAssumption
<1>2. CASE is_mmio(p) /\ Accepted(len)
  <2> DEFINE after == mmio_write(m, p, len, word)
  <2>1. Overwritten(m.mmio_space, p - LOW, len, word) \in [Space -> Byte]
    BY <1>1, MemoryFields, OverwrittenAt
  <2>2. Marked(p) \in SUBSET Line /\ LinesOf(p, len) \in SUBSET Line  BY DEF Marked, LinesOf
  <2>3. /\ after.hw_mem = m.hw_mem
        /\ after.mmio_space = Overwritten(m.mmio_space, p - LOW, len, word)
        /\ after.line_dirty = m.line_dirty \cup Marked(p)
        /\ after.vmem_dirty = (m.vmem_dirty \/ Marked(p) # {})
        /\ after.aborted = m.aborted
        /\ after.torn = m.torn \cup (LinesOf(p, len) \ Marked(p))
        /\ after = [hw_mem |-> after.hw_mem, mmio_space |-> after.mmio_space,
                    line_dirty |-> after.line_dirty, vmem_dirty |-> after.vmem_dirty,
                    aborted |-> after.aborted, torn |-> after.torn]
    BY MmioWriteFields
  <2>4. paddr_write(m, p, len, word) = after  BY <1>2 DEF paddr_write
  <2> HIDE DEF after
  <2>5. /\ after.hw_mem \in [Phys -> Byte] /\ after.mmio_space \in [Space -> Byte]
        /\ after.line_dirty \in SUBSET Line /\ after.vmem_dirty \in BOOLEAN
        /\ after.aborted \in BOOLEAN /\ after.torn \in SUBSET Line
    BY <2>1, <2>2, <2>3, MemoryFields
  <2>6. after \in Memory  BY <2>3, <2>5 DEF Memory
  <2>7. QED  BY <2>4, <2>6
<1>3. CASE is_mmio(p) /\ ~Accepted(len)
  BY <1>3, FailedFields DEF paddr_write
<1>4. CASE ~is_mmio(p)
  <2>1. Overwritten(m.hw_mem, p, len, word) \in [Phys -> Byte]
    BY <1>1, MemoryFields, OverwrittenAt
  <2>2. QED  BY <1>4, <2>1, RamWriteFields DEF paddr_write
<1>5. QED  BY <1>2, <1>3, <1>4

LEMMA EntryType ==
    ASSUME MemoryAssumption, NEW m \in Memory, NEW l \in Nat
    PROVE  Entry(m, l) \in Byte /\ page_translate(m, l) \in Int
<1>1. PAGE_SIZE \in Nat \ {0} /\ PAGE_SIZE \in Int /\ Byte \subseteq Nat /\ 0 \in Byte /\ TABLE \in Nat
      /\ LOW \in Nat /\ HIGH \in Nat /\ LOW <= HIGH /\ SPACE \in Nat /\ SPACE > HIGH - LOW
  BY DEF MemoryAssumption
<1>2. Page(l) \in Nat /\ (l % PAGE_SIZE) \in 0 .. PAGE_SIZE - 1
  BY <1>1, DivisionIdentity DEF Page
<1> DEFINE p == TABLE + Page(l)
<1>3. p \in Nat  BY <1>1, <1>2
<1> HIDE DEF p
<1>4. paddr_read(m, p, 1)[0] = IF is_mmio(p) THEN m.mmio_space[p - LOW + 0]
                               ELSE IF p + 0 \in Phys THEN m.hw_mem[p + 0] ELSE 0
  BY DEF paddr_read
<1>5. is_mmio(p) => p - LOW + 0 \in Space  BY <1>1, <1>3 DEF is_mmio, Space
<1>6. paddr_read(m, p, 1)[0] \in Byte
  BY <1>1, <1>3, <1>4, <1>5, MemoryFields
<1>7. Entry(m, l) \in Byte  BY <1>6 DEF p, Entry
<1> DEFINE e == Entry(m, l)
<1>8. e \in Int
  <2>1. \A b \in Byte : b \in Int  BY <1>1
  <2>2. QED  BY <1>7, <2>1, Zenon
<1> HIDE DEF e
<1>9. (e - 1) * PAGE_SIZE \in Int  BY <1>1, <1>8
<1>10. page_translate(m, l) \in Int  BY <1>1, <1>2, <1>9 DEF e, page_translate
<1>11. QED  BY <1>7, <1>10

\* Each part of a store is a word.
LEMMA PartsOfWord ==
    ASSUME MemoryAssumption, NEW len \in Len, NEW word, IsWord(word, len), NEW in \in 1 .. len - 1
    PROVE  /\ IsWord(word, in) /\ in \in 1 .. 4 /\ len - in \in 1 .. 4
           /\ IsWord([k \in 0 .. len - in - 1 |-> word[in + k]], len - in)
<1>1. len \in 1 .. 4  BY DEF Len
<1>2. \A k \in 0 .. in - 1 : k \in 0 .. len - 1  BY <1>1
<1>3. \A k \in 0 .. len - in - 1 : in + k \in 0 .. len - 1  BY <1>1
<1>4. QED  BY <1>1, <1>2, <1>3 DEF IsWord

LEMMA StoreTypes ==
    ASSUME MemoryAssumption, NEW m \in Memory, NEW l \in Nat, NEW len \in Len,
           NEW word, IsWord(word, len)
    PROVE  vaddr_write(m, l, len, word) \in Memory
<1>1. len \in 1 .. 4 /\ Failed(m) \in Memory /\ l \in Int  BY FailedFields DEF Len
<1>2. page_translate(m, l) \in Int  BY EntryType
<1>3. /\ paddr_write(m, l, len, word) \in Memory
      /\ paddr_write(m, page_translate(m, l), len, word) \in Memory
  BY <1>1, <1>2, PhysicalWriteTypes
<1>4. ASSUME cr0 = "paged", CrossesPage(l, len)
      PROVE  LET after == paddr_write(m, page_translate(m, l), InPage(l, len), word)
             IN  after \in Memory /\ WriteSecondPart(after, l, len, word) \in Memory
  <2> DEFINE in == InPage(l, len)
             after == paddr_write(m, page_translate(m, l), in, word)
             rest == [k \in 0 .. len - in - 1 |-> word[in + k]]
  <2>1. in \in 1 .. len - 1  BY <1>4, CrossingParts
  <2>2. IsWord(word, in) /\ in \in 1 .. 4 /\ len - in \in 1 .. 4 /\ IsWord(rest, len - in)
    BY <2>1, PartsOfWord
  <2>3. after \in Memory  BY <1>2, <2>2, PhysicalWriteTypes
  <2>4. l + in \in Nat  BY <2>2
  <2>5. SecondPart(after, l, len) \in Int  BY <2>3, <2>4, EntryType DEF SecondPart
  <2> HIDE DEF after, rest
  <2>6. paddr_write(after, SecondPart(after, l, len), len - in, rest) \in Memory
    BY <2>2, <2>3, <2>5, PhysicalWriteTypes
  <2>7. Failed(after) \in Memory  BY <2>3, FailedFields
  <2>8. WriteSecondPart(after, l, len, word) \in Memory
    BY <2>6, <2>7 DEF WriteSecondPart, rest
  <2>9. QED  BY <2>3, <2>8 DEF after
<1>5. laddr_write(m, l, len, word) \in Memory
  BY <1>1, <1>3, <1>4 DEF laddr_write
<1>6. QED  BY <1>1, <1>5 DEF vaddr_write

\* The words and the addresses of the guest.
LEMMA GuestWords ==
    ASSUME MemoryAssumption, NEW len \in Len, NEW word \in Words[len]
    PROVE  IsWord(word, len)
BY DEF MemoryAssumption, Len, IsWord

LEMMA GuestAddresses ==
    ASSUME MemoryAssumption, NEW l \in Address, NEW len \in Len
    PROVE  /\ l \in Nat /\ l \in Phys
           /\ \A k \in 0 .. len - 1 : l + k \in Phys /\ l + k \in Nat
<1>1. l \in 0 .. MEM_SIZE - 4 /\ MEM_SIZE \in Nat /\ len \in 1 .. 4
  BY DEF MemoryAssumption, Len
<1>2. QED  BY <1>1 DEF Phys

-----------------------------------------------------------------------------
(* Where an access goes.                                                   *)

\* The mapped range begins and ends with a page: a frame is in it or not.
LEMMA FrameOnOneSide ==
    ASSUME MemoryAssumption, NEW f \in Int,
           NEW r \in 0 .. PAGE_SIZE - 1, NEW s \in 0 .. PAGE_SIZE - 1
    PROVE  is_mmio(f * PAGE_SIZE + r) <=> is_mmio(f * PAGE_SIZE + s)
<1> DEFINE first == LOW \div PAGE_SIZE
           past == (HIGH + 1) \div PAGE_SIZE
<1>1. PAGE_SIZE \in Nat \ {0} /\ LOW \in Nat /\ HIGH \in Nat /\ HIGH + 1 \in Nat
      /\ LOW % PAGE_SIZE = 0 /\ (HIGH + 1) % PAGE_SIZE = 0
  BY DEF MemoryAssumption
<1>2. first \in Int /\ LOW = PAGE_SIZE * first  BY <1>1, DivisionIdentity
<1>3. past \in Int /\ HIGH + 1 = PAGE_SIZE * past  BY <1>1, DivisionIdentity
<1> HIDE DEF first, past
<1>4. ASSUME NEW o \in 0 .. PAGE_SIZE - 1
      PROVE  is_mmio(f * PAGE_SIZE + o) <=> f >= first /\ ~(f >= past)
  <2>1. f * PAGE_SIZE = PAGE_SIZE * f /\ PAGE_SIZE * f \in Int  BY <1>1
  <2>2. PAGE_SIZE * f + o >= LOW <=> f >= first  BY <1>1, <1>2, MultiplesOrdered
  <2>3. PAGE_SIZE * f + o >= HIGH + 1 <=> f >= past  BY <1>1, <1>3, MultiplesOrdered
  <2>4. o \in Int  OBVIOUS
  <2>5. QED  BY <1>1, <2>1, <2>2, <2>3, <2>4 DEF is_mmio
<1>5. QED  BY <1>4

\* The bytes of a page are translated together.
LEMMA SamePage ==
    ASSUME MemoryAssumption, NEW m \in Memory, NEW l \in Nat, NEW k \in Nat,
           (l % PAGE_SIZE) + k < PAGE_SIZE
    PROVE  /\ Entry(m, l + k) = Entry(m, l)
           /\ page_translate(m, l + k) = page_translate(m, l) + k
           /\ is_mmio(page_translate(m, l) + k) <=> is_mmio(page_translate(m, l))
<1>1. PAGE_SIZE \in Nat \ {0} /\ \A b \in Byte : b \in Int  BY DEF MemoryAssumption
<1>2. Page(l + k) = Page(l) /\ (l + k) % PAGE_SIZE = (l % PAGE_SIZE) + k  BY OffsetInPage
<1>3. (l % PAGE_SIZE) \in 0 .. PAGE_SIZE - 1  BY <1>1, DivisionIdentity
<1>4. Entry(m, l + k) = Entry(m, l)  BY <1>2 DEF Entry
<1> DEFINE f == Entry(m, l) - 1
           r == l % PAGE_SIZE
<1>5. f \in Int
  <2>1. Entry(m, l) \in Byte  BY EntryType
  <2>2. Entry(m, l) \in Int  BY <1>1, <2>1, Zenon
  <2>3. QED  BY <2>2
<1>6. page_translate(m, l) = f * PAGE_SIZE + r /\ page_translate(m, l + k) = f * PAGE_SIZE + (r + k)
  BY <1>2, <1>4 DEF page_translate
<1>7. r \in 0 .. PAGE_SIZE - 1 /\ r + k < PAGE_SIZE  BY <1>3
<1> HIDE DEF f, r
<1>8. f * PAGE_SIZE \in Int /\ r + k \in 0 .. PAGE_SIZE - 1  BY <1>1, <1>5, <1>7
<1>9. page_translate(m, l + k) = page_translate(m, l) + k  BY <1>6, <1>7, <1>8
<1>10. is_mmio(f * PAGE_SIZE + (r + k)) <=> is_mmio(f * PAGE_SIZE + r)
  BY <1>5, <1>7, <1>8, FrameOnOneSide
<1>11. QED  BY <1>4, <1>6, <1>9, <1>10

\* The first part of an access across a page end, and the second.
LEMMA CrossingPlaces ==
    ASSUME MemoryAssumption, NEW m \in Memory, NEW l \in Nat, NEW len \in Len,
           CrossesPage(l, len), NEW k \in 0 .. len - 1
    PROVE  LET in == InPage(l, len)
               p == page_translate(m, l)
               q == SecondPart(m, l, len)
           IN  /\ k < in => /\ Entry(m, l + k) = Entry(m, l)
                            /\ page_translate(m, l + k) = p + k
                            /\ is_mmio(p + k) <=> is_mmio(p)
               /\ ~(k < in) => /\ Entry(m, l + k) = Entry(m, l + in)
                               /\ Page(l + k) = Page(l + in)
                               /\ page_translate(m, l + k) = q + (k - in)
                               /\ is_mmio(q + (k - in)) <=> is_mmio(q)
<1> DEFINE in == InPage(l, len)
           r == l % PAGE_SIZE
<1>1. PAGE_SIZE \in Nat /\ PAGE_SIZE >= 4 /\ PAGE_SIZE \in Nat \ {0}  BY DEF MemoryAssumption
<1>2. in \in 1 .. len - 1 /\ in = PAGE_SIZE - r  BY CrossingParts
<1>3. r \in 0 .. PAGE_SIZE - 1  BY <1>1, DivisionIdentity
<1>4. len \in 1 .. 4 /\ k \in Nat  BY DEF Len
<1>5. CASE k < in
  <2>1. r + k < PAGE_SIZE  BY <1>2, <1>3, <1>4, <1>5
  <2>2. /\ Entry(m, l + k) = Entry(m, l)
        /\ page_translate(m, l + k) = page_translate(m, l) + k
        /\ is_mmio(page_translate(m, l) + k) <=> is_mmio(page_translate(m, l))
    BY <2>1, <1>4, SamePage
  <2>3. QED  BY <2>2, <1>5
<1>6. CASE ~(k < in)
  <2>1. in \in Nat /\ r + in >= PAGE_SIZE /\ in <= PAGE_SIZE /\ (r + in) - PAGE_SIZE = 0
        /\ l + in \in Nat
    BY <1>1, <1>2, <1>3
  <2>2. (l + in) % PAGE_SIZE = (r + in) - PAGE_SIZE  BY <2>1, OffsetInNextPage
  <2>3. ((l + in) % PAGE_SIZE) + (k - in) < PAGE_SIZE /\ k - in \in Nat /\ (l + in) + (k - in) = l + k
    <3>1. k - in \in Nat /\ k - in < PAGE_SIZE  BY <1>1, <1>2, <1>4, <1>6
    <3>2. (l + in) + (k - in) = l + k  BY <1>2, <1>4
    <3>3. (l + in) % PAGE_SIZE = 0  BY <2>1, <2>2
    <3> HIDE DEF in
    <3>4. QED  BY <3>1, <3>2, <3>3
  <2> HIDE DEF in, r
  <2>4. /\ Entry(m, (l + in) + (k - in)) = Entry(m, l + in)
        /\ page_translate(m, (l + in) + (k - in)) = page_translate(m, l + in) + (k - in)
        /\ is_mmio(page_translate(m, l + in) + (k - in)) <=> is_mmio(page_translate(m, l + in))
    BY <2>1, <2>3, SamePage
  <2>5. Page((l + in) + (k - in)) = Page(l + in)  BY <2>1, <2>3, OffsetInPage
  <2>6. SecondPart(m, l, len) = page_translate(m, l + in)  BY DEF SecondPart, in
  <2>7. QED  BY <2>3, <2>4, <2>5, <2>6, <1>6 DEF in
<1>7. QED  BY <1>5, <1>6

LEMMA PlainPlaces ==
    ASSUME MemoryAssumption, NEW m \in Memory, NEW l \in Nat, NEW len \in Len,
           ~CrossesPage(l, len), NEW k \in 0 .. len - 1
    PROVE  /\ Entry(m, l + k) = Entry(m, l)
           /\ page_translate(m, l + k) = page_translate(m, l) + k
           /\ is_mmio(page_translate(m, l) + k) <=> is_mmio(page_translate(m, l))
<1>1. (l % PAGE_SIZE) + (len - 1) < PAGE_SIZE  BY WithoutPageEnd
<1>2. (l % PAGE_SIZE) \in Nat
  BY DivisionIdentity DEF MemoryAssumption
<1>3. len \in 1 .. 4 /\ PAGE_SIZE \in Nat  BY DEF Len, MemoryAssumption
<1>4. k \in Nat /\ (l % PAGE_SIZE) + k < PAGE_SIZE  BY <1>1, <1>2, <1>3
<1>5. QED  BY <1>4, SamePage

\* Without paging the ends of the range matter, which is longer than an access.
LEMMA UnpagedPlaces ==
    ASSUME MemoryAssumption, cr0 # "paged", NEW l \in Nat, NEW len \in Len,
           WithinSide(l, len), NEW k \in 0 .. len - 1
    PROVE  is_mmio(l + k) <=> is_mmio(l)
<1> DEFINE first == LOW \div PAGE_SIZE
           past == (HIGH + 1) \div PAGE_SIZE
<1>1. PAGE_SIZE \in Nat \ {0} /\ PAGE_SIZE >= 4 /\ LOW \in Nat /\ HIGH \in Nat /\ HIGH + 1 \in Nat
      /\ LOW % PAGE_SIZE = 0 /\ (HIGH + 1) % PAGE_SIZE = 0 /\ LOW <= HIGH
  BY DEF MemoryAssumption
<1>2. first \in Int /\ LOW = PAGE_SIZE * first  BY <1>1, DivisionIdentity
<1>3. past \in Int /\ HIGH + 1 = PAGE_SIZE * past  BY <1>1, DivisionIdentity
<1> HIDE DEF first, past
<1>4. ~(first >= past)
  <2>1. 0 \in 0 .. PAGE_SIZE - 1  BY <1>1
  <2>2. PAGE_SIZE * first + 0 >= PAGE_SIZE * past <=> first >= past
    BY <1>1, <1>2, <1>3, <2>1, MultiplesOrdered
  <2>3. QED  BY <1>1, <1>2, <1>3, <2>2
<1>5. PAGE_SIZE * past >= PAGE_SIZE * (first + 1)
  BY <1>1, <1>2, <1>3, <1>4, SMT
<1>6. PAGE_SIZE * (first + 1) = PAGE_SIZE * first + PAGE_SIZE  BY <1>1, <1>2
<1>7. HIGH - LOW >= 3  BY <1>1, <1>2, <1>3, <1>5, <1>6
<1>8. is_mmio(l) <=> is_mmio(l + len - 1)  BY DEF WithinSide
<1>9. QED  BY <1>1, <1>7, <1>8 DEF is_mmio, Len

-----------------------------------------------------------------------------
(* Reads and writes of physical memory, byte by byte.                      *)

LEMMA ReadAt ==
    ASSUME MemoryAssumption, NEW m \in Memory, NEW p \in Int, NEW len \in Len,
           NEW k \in 0 .. len - 1, p + k \in Phys, is_mmio(p + k) <=> is_mmio(p)
    PROVE  paddr_read(m, p, len)[k] = Cell(m, p + k)
<1>1. paddr_read(m, p, len)[k] = IF is_mmio(p) THEN m.mmio_space[p - LOW + k]
                                 ELSE IF p + k \in Phys THEN m.hw_mem[p + k] ELSE 0
  BY DEF paddr_read
<1>2. p - LOW + k = (p + k) - LOW  BY DEF MemoryAssumption
<1>3. QED  BY <1>1, <1>2 DEF Cell

\* A write of an accepted length changes the cells of its range and no other.
LEMMA WriteAt ==
    ASSUME MemoryAssumption, NEW m \in Memory, NEW p \in Int, NEW len \in 1 .. 4,
           NEW word, IsWord(word, len), is_mmio(p) => Accepted(len),
           NEW q \in Phys, q - p \in 0 .. len - 1 => (is_mmio(q) <=> is_mmio(p))
    PROVE  Cell(paddr_write(m, p, len, word), q) =
               IF q - p \in 0 .. len - 1 THEN word[q - p] ELSE Cell(m, q)
<1>1. Phys \in SUBSET Int /\ Space \in SUBSET Int /\ LOW \in Int /\ len \in Nat /\ q \in Int
  BY DEF Phys, Space, MemoryAssumption
<1> DEFINE after == paddr_write(m, p, len, word)
<1>2. CASE is_mmio(p)
  <2>1. after = mmio_write(m, p, len, word)  BY <1>2 DEF paddr_write
  <2>2. after.hw_mem = m.hw_mem /\ after.mmio_space = Overwritten(m.mmio_space, p - LOW, len, word)
    BY <2>1, MmioWriteFields
  <2> HIDE DEF after
  <2>3. CASE is_mmio(q)
    <3>1. q - LOW \in Space /\ (q - LOW) - (p - LOW) = q - p
      BY <1>1, <2>3 DEF is_mmio, Space, MemoryAssumption
    <3>2. p - LOW \in Int /\ m.mmio_space \in [Space -> Byte]  BY <1>1, MemoryFields
    <3>3. after.mmio_space[q - LOW] = IF (q - LOW) - (p - LOW) \in 0 .. len - 1
                                      THEN word[(q - LOW) - (p - LOW)] ELSE m.mmio_space[q - LOW]
      BY <1>1, <2>2, <3>1, <3>2, OverwrittenAt
    <3>4. Cell(after, q) = after.mmio_space[q - LOW] /\ Cell(m, q) = m.mmio_space[q - LOW]
      BY <2>3 DEF Cell
    <3>5. QED  BY <3>1, <3>3, <3>4 DEF after
  <2>4. CASE ~is_mmio(q)
    BY <1>2, <2>2, <2>4 DEF Cell, after
  <2>5. QED  BY <2>3, <2>4
<1>3. CASE ~is_mmio(p)
  <2>1. after = [m EXCEPT !.hw_mem = Overwritten(m.hw_mem, p, len, word)]
    BY <1>3 DEF paddr_write
  <2>2. after.hw_mem = Overwritten(m.hw_mem, p, len, word) /\ after.mmio_space = m.mmio_space
    BY <2>1, RamWriteFields
  <2> HIDE DEF after
  <2>3. CASE is_mmio(q)
    BY <1>3, <2>2, <2>3 DEF Cell, after
  <2>4. CASE ~is_mmio(q)
    <3>1. m.hw_mem \in [Phys -> Byte]  BY MemoryFields
    <3>2. after.hw_mem[q] = IF q - p \in 0 .. len - 1 THEN word[q - p] ELSE m.hw_mem[q]
      BY <1>1, <2>2, <3>1, OverwrittenAt
    <3>3. Cell(after, q) = after.hw_mem[q] /\ Cell(m, q) = m.hw_mem[q]  BY <2>4 DEF Cell
    <3>4. QED  BY <3>2, <3>3 DEF after
  <2>5. QED  BY <2>3, <2>4
<1>4. QED  BY <1>2, <1>3

\* The one assertion a write can meet.
LEMMA WriteAborts ==
    ASSUME NEW m \in Memory, NEW p, NEW len, NEW word
    PROVE  paddr_write(m, p, len, word).aborted <=> m.aborted \/ (is_mmio(p) /\ ~Accepted(len))
<1>1. CASE is_mmio(p) /\ Accepted(len)
  <2>1. mmio_write(m, p, len, word).aborted = m.aborted  BY MmioWriteFields
  <2>2. QED  BY <1>1, <2>1, Zenon DEF paddr_write
<1>2. CASE is_mmio(p) /\ ~Accepted(len)
  BY <1>2, FailedFields, Zenon DEF paddr_write
<1>3. CASE ~is_mmio(p)
  <2>1. [m EXCEPT !.hw_mem = Overwritten(m.hw_mem, p, len, word)].aborted = m.aborted  BY RamWriteFields
  <2>2. QED  BY <1>3, <2>1, Zenon DEF paddr_write
<1>4. QED  BY <1>1, <1>2, <1>3

\* A write beside an entry of the table leaves the translation alone.
LEMMA EntryAfterWrite ==
    ASSUME MemoryAssumption, NEW m \in Memory, NEW p \in Int, NEW len \in 1 .. 4,
           NEW word, IsWord(word, len), is_mmio(p) => Accepted(len),
           NEW l \in Nat, TABLE + Page(l) \notin p .. p + len - 1
    PROVE  LET after == paddr_write(m, p, len, word)
           IN  Entry(after, l) = Entry(m, l) /\ page_translate(after, l) = page_translate(m, l)
<1> DEFINE after == paddr_write(m, p, len, word)
           place == TABLE + Page(l)
<1>1. after \in Memory  BY PhysicalWriteTypes
<1>2. place \in Nat
  <2>1. PAGE_SIZE \in Nat \ {0} /\ TABLE \in Nat  BY DEF MemoryAssumption
  <2>2. Page(l) \in Nat  BY <2>1, DivisionIdentity DEF Page
  <2>3. QED  BY <2>1, <2>2
<1>3. place \notin p .. p + len - 1  OBVIOUS
<1>4. place \in Phys => Cell(after, place) = Cell(m, place)
  <2>1. ~(place - p \in 0 .. len - 1)
    <3> HIDE DEF place
    <3>1. QED  BY <1>2, <1>3
  <2> HIDE DEF place
  <2>2. QED  BY <2>1, WriteAt
<1> HIDE DEF after, place
<1>5. ASSUME NEW n \in Memory
      PROVE  paddr_read(n, place, 1)[0] = IF place \in Phys THEN Cell(n, place) ELSE 0
  <2>1. paddr_read(n, place, 1)[0] = IF is_mmio(place) THEN n.mmio_space[place - LOW + 0]
                                     ELSE IF place + 0 \in Phys THEN n.hw_mem[place + 0] ELSE 0
    BY DEF paddr_read
  <2>2. place + 0 = place /\ place - LOW + 0 = place - LOW  BY <1>2 DEF MemoryAssumption
  <2>3. is_mmio(place) => place \in Phys  BY DEF is_mmio, Phys, MemoryAssumption
  <2>4. QED  BY <2>1, <2>2, <2>3 DEF Cell
<1>6. Entry(after, l) = Entry(m, l)  BY <1>1, <1>4, <1>5 DEF Entry, place
<1>7. QED  BY <1>6 DEF page_translate, after

-----------------------------------------------------------------------------
(* Loads and stores.                                                       *)

\* A load, in any well-typed state.
LEMMA LoadsAreBytewise ==
    ASSUME MemoryAssumption, TypeOK  PROVE  LoadIsBytewise
<1> SUFFICES ASSUME NEW l \in Address, NEW len \in Len, WithinSide(l, len),
                    NEW k \in 0 .. len - 1, At(mem, l + k) \in Phys
             PROVE  laddr_read(mem, l, len)[k] = Cell(mem, At(mem, l + k))
  BY DEF LoadIsBytewise
<1>1. mem \in Memory /\ l \in Nat /\ l + k \in Nat /\ l \in Int /\ len \in 1 .. 4
  BY GuestAddresses DEF TypeOK, Len
<1>2. page_translate(mem, l) \in Int  BY <1>1, EntryType
<1>3. CASE cr0 # "paged"
  <2>1. At(mem, l + k) = l + k  BY <1>3 DEF At
  <2>2. is_mmio(l + k) <=> is_mmio(l)  BY <1>1, <1>3, UnpagedPlaces
  <2>3. paddr_read(mem, l, len)[k] = Cell(mem, l + k)  BY <1>1, <2>1, <2>2, ReadAt
  <2>4. QED  BY <1>3, <2>1, <2>3 DEF laddr_read
<1>4. CASE cr0 = "paged" /\ ~CrossesPage(l, len)
  <2>1. /\ page_translate(mem, l + k) = page_translate(mem, l) + k
        /\ is_mmio(page_translate(mem, l) + k) <=> is_mmio(page_translate(mem, l))
    BY <1>1, <1>4, PlainPlaces
  <2>2. At(mem, l + k) = page_translate(mem, l) + k  BY <1>4, <2>1 DEF At
  <2>3. paddr_read(mem, page_translate(mem, l), len)[k] = Cell(mem, page_translate(mem, l) + k)
    BY <1>1, <1>2, <2>1, <2>2, ReadAt
  <2>4. QED  BY <1>4, <2>2, <2>3 DEF laddr_read
<1>5. CASE cr0 = "paged" /\ CrossesPage(l, len)
  <2> DEFINE in == InPage(l, len)
             p == page_translate(mem, l)
             q == SecondPart(mem, l, len)
  <2>1. in \in 1 .. len - 1  BY <1>1, <1>5, CrossingParts
  <2>2. laddr_read(mem, l, len)[k] = IF k < in THEN paddr_read(mem, p, len)[k]
                                     ELSE paddr_read(mem, q, len)[k - in]
    BY <1>5 DEF laddr_read, Joined
  <2>3. At(mem, l + k) = page_translate(mem, l + k)  BY <1>5 DEF At
  <2>4. /\ k < in => page_translate(mem, l + k) = p + k /\ (is_mmio(p + k) <=> is_mmio(p))
        /\ ~(k < in) => page_translate(mem, l + k) = q + (k - in) /\ (is_mmio(q + (k - in)) <=> is_mmio(q))
    BY <1>1, <1>5, CrossingPlaces
  <2>5. q \in Int
    <3>1. l + in \in Nat  BY <1>1, <2>1
    <3>2. QED  BY <1>1, <3>1, EntryType DEF SecondPart
  <2>6. p \in Int  BY <1>2
  <2> HIDE DEF in, p, q
  <2>7. CASE k < in
    <3>1. paddr_read(mem, p, len)[k] = Cell(mem, p + k)  BY <1>1, <2>3, <2>4, <2>6, <2>7, ReadAt
    <3>2. QED  BY <2>2, <2>3, <2>4, <2>7, <3>1
  <2>8. CASE ~(k < in)
    <3>1. k - in \in 0 .. len - 1  BY <1>1, <2>1, <2>8
    <3>2. paddr_read(mem, q, len)[k - in] = Cell(mem, q + (k - in))
      BY <1>1, <2>3, <2>4, <2>5, <2>8, <3>1, ReadAt
    <3>3. QED  BY <2>2, <2>3, <2>4, <2>8, <3>2
  <2>9. QED  BY <2>7, <2>8
<1>6. QED  BY <1>3, <1>4, <1>5

\* What StoreIsBytewise says of one store.
BytesWritten(m, after, l, len, word) ==
    LET at == [k \in 0 .. len - 1 |-> At(m, l + k)]
    IN  \A p \in Phys : IF \E k \in DOMAIN at : at[k] = p
                        THEN \E k \in DOMAIN at : at[k] = p /\ Cell(after, p) = word[k]
                        ELSE Cell(after, p) = Cell(m, p)

\* A store to consecutive places.
LEMMA BytesInOneRange ==
    ASSUME NEW m, NEW after, NEW l \in Nat, NEW len \in 1 .. 4, NEW word, NEW p \in Int,
           \A k \in 0 .. len - 1 : At(m, l + k) = p + k,
           \A q \in Phys : Cell(after, q) = IF q - p \in 0 .. len - 1 THEN word[q - p] ELSE Cell(m, q),
           Phys \in SUBSET Int
    PROVE  BytesWritten(m, after, l, len, word)
<1> DEFINE at == [k \in 0 .. len - 1 |-> At(m, l + k)]
<1>1. DOMAIN at = 0 .. len - 1 /\ \A k \in 0 .. len - 1 : at[k] = p + k  OBVIOUS
<1> SUFFICES ASSUME NEW q \in Phys
             PROVE  IF \E k \in DOMAIN at : at[k] = q
                    THEN \E k \in DOMAIN at : at[k] = q /\ Cell(after, q) = word[k]
                    ELSE Cell(after, q) = Cell(m, q)
  BY DEF BytesWritten
<1> HIDE DEF at
<1>2. q \in Int  OBVIOUS
<1>3. CASE q - p \in 0 .. len - 1
  <2>1. at[q - p] = q  BY <1>1, <1>2, <1>3
  <2>2. Cell(after, q) = word[q - p]  BY <1>3
  <2>3. QED  BY <1>1, <1>3, <2>1, <2>2
<1>4. CASE ~(q - p \in 0 .. len - 1)
  <2>1. ASSUME NEW k \in DOMAIN at, at[k] = q  PROVE FALSE
    BY <1>1, <1>2, <1>4, <2>1
  <2>2. Cell(after, q) = Cell(m, q)  BY <1>4
  <2>3. QED  BY <2>1, <2>2
<1>5. QED  BY <1>3, <1>4

\* The bytes of word from position from on are the len cells from base on, and
\* nothing else has changed.
PartWritten(m, after, base, len, word, from) ==
    \A q \in Phys : Cell(after, q) = IF q - base \in 0 .. len - 1 THEN word[from + (q - base)]
                                    ELSE Cell(m, q)

InTwoPlaces(m, l, len, in, p, s) ==
    \A k \in 0 .. len - 1 : /\ (k < in => At(m, l + k) = p + k)
                          /\ (~(k < in) => At(m, l + k) = s + (k - in))

\* A store to two ranges, the second written last.
LEMMA BytesInTwoRanges ==
    ASSUME NEW m, NEW mid, NEW after, NEW l \in Nat, NEW len \in 1 .. 4, NEW word,
           NEW p \in Int, NEW s \in Int, NEW in \in 1 .. len - 1,
           InTwoPlaces(m, l, len, in, p, s),
           PartWritten(m, mid, p, in, word, 0), PartWritten(mid, after, s, len - in, word, in),
           Phys \in SUBSET Int
    PROVE  BytesWritten(m, after, l, len, word)
<1> DEFINE at == [k \in 0 .. len - 1 |-> At(m, l + k)]
<1>1. DOMAIN at = 0 .. len - 1
      /\ \A k \in 0 .. len - 1 : (k < in => at[k] = p + k) /\ (~(k < in) => at[k] = s + (k - in))
  BY DEF InTwoPlaces
<1> SUFFICES ASSUME NEW q \in Phys
             PROVE  IF \E k \in DOMAIN at : at[k] = q
                    THEN \E k \in DOMAIN at : at[k] = q /\ Cell(after, q) = word[k]
                    ELSE Cell(after, q) = Cell(m, q)
  BY DEF BytesWritten
<1> HIDE DEF at
<1>2. q \in Int  OBVIOUS
<1>3. CASE q - s \in 0 .. len - in - 1
  <2> DEFINE k == in + (q - s)
  <2>1. k \in 0 .. len - 1 /\ ~(k < in) /\ s + (k - in) = q  BY <1>2, <1>3
  <2>2. Cell(after, q) = word[k]  BY <1>3 DEF PartWritten
  <2> HIDE DEF k
  <2>3. at[k] = q  BY <1>1, <2>1
  <2>4. QED  BY <1>1, <2>1, <2>2, <2>3
<1>4. CASE ~(q - s \in 0 .. len - in - 1) /\ q - p \in 0 .. in - 1
  <2> DEFINE k == q - p
  <2>1. k \in 0 .. len - 1 /\ k < in /\ p + k = q  BY <1>2, <1>4
  <2>2. Cell(after, q) = word[k]
    <3>1. Cell(after, q) = Cell(mid, q)  BY <1>4 DEF PartWritten
    <3>2. Cell(mid, q) = word[0 + (q - p)] /\ 0 + (q - p) = q - p  BY <1>2, <1>4 DEF PartWritten
    <3>3. QED  BY <3>1, <3>2
  <2> HIDE DEF k
  <2>3. at[k] = q  BY <1>1, <2>1
  <2>4. QED  BY <1>1, <2>1, <2>2, <2>3
<1>5. CASE ~(q - s \in 0 .. len - in - 1) /\ ~(q - p \in 0 .. in - 1)
  <2>1. ASSUME NEW k \in DOMAIN at, at[k] = q  PROVE FALSE
    BY <1>1, <1>2, <1>5, <2>1
  <2>2. Cell(after, q) = Cell(m, q)  BY <1>5 DEF PartWritten
  <2>3. QED  BY <2>1, <2>2
<1>6. QED  BY <1>3, <1>4, <1>5

\* A store across a page end that finds its second page where it was: both
\* parts go where the tables say, or an assertion of mmio_write fails.
TwoParts(m, l, len, word) ==
    LET in == InPage(l, len)
        p == page_translate(m, l)
        s == SecondPart(m, l, len)
        mid == paddr_write(m, p, in, word)
        rest == [k \in 0 .. len - in - 1 |-> word[in + k]]
        after == laddr_write(m, l, len, word)
    IN  /\ in \in 1 .. len - 1 /\ p \in Int /\ s \in Int
        /\ mid \in Memory
        /\ mid.aborted => after.aborted
        /\ ~mid.aborted /\ ~Present(m, l + in) => after.aborted
        /\ ~mid.aborted /\ Present(m, l + in) => after = paddr_write(mid, s, len - in, rest)

LEMMA CrossingStore ==
    ASSUME MemoryAssumption, NEW m \in Memory, NEW l \in Nat, NEW len \in Len,
           NEW word, IsWord(word, len), cr0 = "paged", CrossesPage(l, len),
           ~MovesSecondPart(m, l, len), Present(m, l)
    PROVE  TwoParts(m, l, len, word)
<1> DEFINE in == InPage(l, len)
           p == page_translate(m, l)
           s == SecondPart(m, l, len)
           mid == paddr_write(m, p, in, word)
           rest == [k \in 0 .. len - in - 1 |-> word[in + k]]
           after == laddr_write(m, l, len, word)
<1>1. in \in 1 .. len - 1 /\ len \in 1 .. 4  BY CrossingParts DEF Len
<1>2. IsWord(word, in) /\ in \in 1 .. 4  BY <1>1, PartsOfWord
<1>3. l + in \in Nat /\ p \in Int /\ s \in Int
  <2>1. l + in \in Nat  BY <1>1
  <2>2. QED  BY <2>1, EntryType DEF SecondPart
<1>4. mid \in Memory  BY <1>2, <1>3, PhysicalWriteTypes
<1>5. after = IF mid.aborted THEN mid ELSE WriteSecondPart(mid, l, len, word)
  BY DEF laddr_write
<1>6. mid.aborted <=> m.aborted \/ (is_mmio(p) /\ ~Accepted(in))  BY WriteAborts
<1>7. Page(l + len - 1) = Page(l + in)
  <2>1. len - 1 \in 0 .. len - 1 /\ ~(len - 1 < in) /\ l + (len - 1) = l + len - 1  BY <1>1
  <2>2. Page(l + (len - 1)) = Page(l + in)  BY <2>1, CrossingPlaces
  <2>3. QED  BY <2>1, <2>2
<1>8. TABLE + Page(l + in) \notin p .. p + in - 1
  BY <1>7 DEF MovesSecondPart
<1>9. ~mid.aborted => Entry(mid, l + in) = Entry(m, l + in)
                     /\ page_translate(mid, l + in) = page_translate(m, l + in)
  <2>1. ~mid.aborted => (is_mmio(p) => Accepted(in))  BY <1>6
  <2> HIDE DEF in, p
  <2>2. QED  BY <1>2, <1>3, <1>8, <2>1, EntryAfterWrite
<1>10. ~mid.aborted => SecondPart(mid, l, len) = s /\ (Present(mid, l + in) <=> Present(m, l + in))
  BY <1>9 DEF SecondPart, Present
<1>11. Failed(mid).aborted  BY <1>4, FailedFields
<1>12. WriteSecondPart(mid, l, len, word) =
          IF Present(mid, l + in) THEN paddr_write(mid, SecondPart(mid, l, len), len - in, rest)
          ELSE Failed(mid)
  BY DEF WriteSecondPart
<1> HIDE DEF in, p, s, mid, rest, after
<1>13. /\ in \in 1 .. len - 1 /\ p \in Int /\ s \in Int
       /\ mid \in Memory
       /\ mid.aborted => after.aborted
       /\ ~mid.aborted /\ ~Present(m, l + in) => after.aborted
       /\ ~mid.aborted /\ Present(m, l + in) => after = paddr_write(mid, s, len - in, rest)
  BY <1>1, <1>3, <1>4, <1>5, <1>10, <1>11, <1>12
<1>14. QED  BY <1>13, Zenon DEF TwoParts, in, p, s, mid, rest, after

LEMMA StoresAreBytewise ==
    ASSUME MemoryAssumption, TypeOK  PROVE  StoreIsBytewise
<1> SUFFICES ASSUME NEW l \in Address, NEW len \in Len, NEW word \in Words[len],
                    ~vaddr_write(mem, l, len, word).aborted, WithinSide(l, len),
                    ~MovesSecondPart(mem, l, len)
             PROVE  BytesWritten(mem, vaddr_write(mem, l, len, word), l, len, word)
  BY DEF StoreIsBytewise, BytesWritten
<1>1. /\ mem \in Memory /\ l \in Nat /\ l \in Int /\ len \in 1 .. 4 /\ IsWord(word, len)
      /\ Phys \in SUBSET Int /\ Accepted(len)
  BY GuestAddresses, GuestWords DEF TypeOK, Len, Accepted, Phys, MemoryAssumption
<1>2. page_translate(mem, l) \in Int  BY <1>1, EntryType
<1>3. InSegment(l)
  BY <1>1, FailedFields DEF vaddr_write
<1>4. vaddr_write(mem, l, len, word) = laddr_write(mem, l, len, word)  BY <1>3 DEF vaddr_write
<1>5. CASE cr0 # "paged"
  <2> DEFINE after == paddr_write(mem, l, len, word)
  <2>1. \A k \in 0 .. len - 1 : At(mem, l + k) = l + k  BY <1>5 DEF At
  <2>2. ASSUME NEW q \in Phys
        PROVE  Cell(after, q) = IF q - l \in 0 .. len - 1 THEN word[q - l] ELSE Cell(mem, q)
    <3>1. q - l \in 0 .. len - 1 => l + (q - l) = q  BY <1>1
    <3>2. q - l \in 0 .. len - 1 => (is_mmio(q) <=> is_mmio(l))
      BY <1>1, <1>5, <3>1, UnpagedPlaces
    <3>3. QED  BY <1>1, <3>2, WriteAt
  <2>3. vaddr_write(mem, l, len, word) = after  BY <1>4, <1>5 DEF laddr_write
  <2> HIDE DEF after
  <2>4. BytesWritten(mem, after, l, len, word)  BY <1>1, <2>1, <2>2, BytesInOneRange
  <2>5. QED  BY <2>3, <2>4
<1>6. CASE cr0 = "paged" /\ ~CrossesPage(l, len)
  <2> DEFINE p == page_translate(mem, l)
             after == paddr_write(mem, p, len, word)
  <2>1. \A k \in 0 .. len - 1 : At(mem, l + k) = p + k /\ (is_mmio(p + k) <=> is_mmio(p))
    BY <1>1, <1>6, PlainPlaces DEF At
  <2>2. Present(mem, l)
    BY <1>1, <1>4, <1>6, FailedFields DEF laddr_write
  <2>3. vaddr_write(mem, l, len, word) = after  BY <1>4, <1>6, <2>2 DEF laddr_write
  <2>4. p \in Int  BY <1>2
  <2> HIDE DEF p
  <2>5. ASSUME NEW q \in Phys
        PROVE  Cell(after, q) = IF q - p \in 0 .. len - 1 THEN word[q - p] ELSE Cell(mem, q)
    <3>1. q - p \in 0 .. len - 1 => p + (q - p) = q  BY <1>1, <2>4
    <3>2. q - p \in 0 .. len - 1 => (is_mmio(q) <=> is_mmio(p))  BY <2>1, <3>1
    <3>3. QED  BY <1>1, <2>4, <3>2, WriteAt
  <2> HIDE DEF after
  <2>6. BytesWritten(mem, after, l, len, word)  BY <1>1, <2>1, <2>4, <2>5, BytesInOneRange
  <2>7. QED  BY <2>3, <2>6
<1>7. CASE cr0 = "paged" /\ CrossesPage(l, len)
  <2> DEFINE in == InPage(l, len)
             p == page_translate(mem, l)
             s == SecondPart(mem, l, len)
             mid == paddr_write(mem, p, in, word)
             rest == [k \in 0 .. len - in - 1 |-> word[in + k]]
             after == paddr_write(mid, s, len - in, rest)
  <2>1. Present(mem, l)
    BY <1>1, <1>4, <1>7, FailedFields DEF laddr_write
  <2>2. /\ in \in 1 .. len - 1 /\ p \in Int /\ s \in Int /\ mid \in Memory
        /\ mid.aborted => laddr_write(mem, l, len, word).aborted
        /\ ~mid.aborted /\ ~Present(mem, l + in) => laddr_write(mem, l, len, word).aborted
        /\ ~mid.aborted /\ Present(mem, l + in) => laddr_write(mem, l, len, word) = after
    <3>1. TwoParts(mem, l, len, word)  BY <1>1, <1>7, <2>1, CrossingStore
    <3> HIDE DEF after
    <3>2. QED  BY <3>1, Zenon DEF TwoParts, after
  <2>2b. in \in 1 .. len - 1 /\ p \in Int /\ s \in Int /\ mid \in Memory
    <3> HIDE DEF in, p, s, mid, rest, after
    <3>1. QED  BY <2>2, Zenon
  <2>3. ~mid.aborted /\ Present(mem, l + in) /\ laddr_write(mem, l, len, word) = after
        /\ ~after.aborted
    <3> HIDE DEF mid, after
    <3>1. QED  BY <1>4, <2>2
  <2>4. /\ is_mmio(p) => Accepted(in)
        /\ is_mmio(s) => Accepted(len - in)
    <3>1. mid.aborted <=> mem.aborted \/ (is_mmio(p) /\ ~Accepted(in))  BY WriteAborts, <1>1
    <3>2. after.aborted <=> mid.aborted \/ (is_mmio(s) /\ ~Accepted(len - in))  BY WriteAborts, <2>2
    <3> HIDE DEF in, p, s, mid, after
    <3>3. QED  BY <2>3, <3>1, <3>2, Zenon
  <2>5. IsWord(word, in) /\ in \in 1 .. 4 /\ len - in \in 1 .. 4 /\ IsWord(rest, len - in)
    BY <1>1, <2>2, PartsOfWord
  <2>6. InTwoPlaces(mem, l, len, in, p, s)
    BY <1>1, <1>7, CrossingPlaces DEF At, InTwoPlaces
  <2>7. \A k \in 0 .. len - 1 : /\ (k < in => (is_mmio(p + k) <=> is_mmio(p)))
                              /\ (~(k < in) => (is_mmio(s + (k - in)) <=> is_mmio(s)))
    BY <1>1, <1>7, CrossingPlaces
  <2>8. ASSUME NEW q \in Phys
        PROVE  Cell(mid, q) = IF q - p \in 0 .. in - 1 THEN word[q - p] ELSE Cell(mem, q)
    <3> HIDE DEF in, p, s, rest, after
    <3>0. q \in Int  BY <1>1
    <3>1. q - p \in 0 .. in - 1 => p + (q - p) = q /\ q - p \in 0 .. len - 1 /\ q - p < in
      BY <1>1, <2>2b, <3>0
    <3>2. q - p \in 0 .. in - 1 => (is_mmio(q) <=> is_mmio(p))  BY <2>7, <3>1
    <3>3. QED  BY <1>1, <2>2b, <2>4, <2>5, <3>2, WriteAt
  <2>9. ASSUME NEW q \in Phys
        PROVE  Cell(after, q) = IF q - s \in 0 .. len - in - 1 THEN word[in + (q - s)]
                                ELSE Cell(mid, q)
    <3>1. \A k \in 0 .. len - in - 1 : rest[k] = word[in + k]  OBVIOUS
    <3> HIDE DEF in, s, mid, rest
    <3>0. q \in Int  BY <1>1
    <3>2. q - s \in 0 .. len - in - 1 =>
              LET k == in + (q - s) IN s + (k - in) = q /\ k \in 0 .. len - 1 /\ ~(k < in)
      BY <1>1, <2>2b, <3>0
    <3>3. q - s \in 0 .. len - in - 1 => (is_mmio(q) <=> is_mmio(s))  BY <2>7, <3>2
    <3>4. Cell(after, q) = IF q - s \in 0 .. len - in - 1 THEN rest[q - s] ELSE Cell(mid, q)
      BY <1>1, <2>2b, <2>4, <2>5, <3>3, WriteAt
    <3>5. QED  BY <3>1, <3>4
  <2> HIDE DEF in, p, s, mid, rest, after
  <2>10. BytesWritten(mem, after, l, len, word)
    <3>1. PartWritten(mem, mid, p, in, word, 0)
      <4>1. \A q \in Phys : 0 + (q - p) = q - p  BY <1>1, <2>2b
      <4>2. QED  BY <2>8, <4>1 DEF PartWritten
    <3>2. PartWritten(mid, after, s, len - in, word, in)  BY <2>9 DEF PartWritten
    <3>3. QED  BY <1>1, <2>2b, <2>6, <3>1, <3>2, BytesInTwoRanges
  <2>11. QED  BY <1>4, <2>3, <2>10
<1>8. QED  BY <1>5, <1>6, <1>7

LEMMA StoresFailOnlyIn ==
    ASSUME MemoryAssumption, TypeOK  PROVE  StoreFailsOnlyIn
<1> SUFFICES ASSUME NEW l \in Address, NEW len \in Len, NEW word \in Words[len],
                    Readable(mem, l, len), ~MovesSecondPart(mem, l, len)
             PROVE  vaddr_write(mem, l, len, word).aborted
                        <=> mem.aborted \/ ThreeInVideo(mem, l, len)
  BY DEF StoreFailsOnlyIn
<1>1. /\ mem \in Memory /\ l \in Nat /\ len \in 1 .. 4 /\ IsWord(word, len) /\ Accepted(len)
  BY GuestAddresses, GuestWords DEF TypeOK, Len, Accepted
<1>2. vaddr_write(mem, l, len, word) = laddr_write(mem, l, len, word)
  BY DEF Readable, vaddr_write
<1>3. CASE cr0 # "paged"
  <2>1. laddr_write(mem, l, len, word) = paddr_write(mem, l, len, word)  BY <1>3 DEF laddr_write
  <2>2. ~ThreeInVideo(mem, l, len)  BY <1>3 DEF ThreeInVideo
  <2>3. QED  BY <1>1, <1>2, <2>1, <2>2, WriteAborts
<1>4. CASE cr0 = "paged" /\ ~CrossesPage(l, len)
  <2>1. laddr_write(mem, l, len, word) = paddr_write(mem, page_translate(mem, l), len, word)
    BY <1>4 DEF laddr_write, Readable
  <2>2. ~ThreeInVideo(mem, l, len)  BY <1>4 DEF ThreeInVideo
  <2>3. QED  BY <1>1, <1>2, <2>1, <2>2, WriteAborts
<1>5. CASE cr0 = "paged" /\ CrossesPage(l, len)
  <2> DEFINE in == InPage(l, len)
             p == page_translate(mem, l)
             s == SecondPart(mem, l, len)
             mid == paddr_write(mem, p, in, word)
             rest == [k \in 0 .. len - in - 1 |-> word[in + k]]
             after == laddr_write(mem, l, len, word)
  <2>1. Present(mem, l) /\ Present(mem, l + len - 1)  BY <1>5 DEF Readable
  <2>2. /\ in \in 1 .. len - 1 /\ mid \in Memory
        /\ mid.aborted => after.aborted
        /\ ~mid.aborted /\ Present(mem, l + in) => after = paddr_write(mid, s, len - in, rest)
    <3>1. TwoParts(mem, l, len, word)  BY <1>1, <1>5, <2>1, CrossingStore
    <3>2. QED  BY <3>1, Zenon DEF TwoParts
  <2>2b. in \in 1 .. len - 1
    <3> HIDE DEF in, p, s, mid, rest, after
    <3>1. QED  BY <2>2, Zenon
  <2>3. Present(mem, l + in)
    <3>1. len - 1 \in 0 .. len - 1 /\ ~(len - 1 < in) /\ l + (len - 1) = l + len - 1  BY <1>1, <2>2b
    <3>2. Entry(mem, l + (len - 1)) = Entry(mem, l + in)  BY <1>1, <1>5, <3>1, CrossingPlaces
    <3>3. QED  BY <2>1, <3>1, <3>2 DEF Present
  <2>4. mid.aborted <=> mem.aborted \/ (is_mmio(p) /\ ~Accepted(in))  BY <1>1, WriteAborts
  <2>5. paddr_write(mid, s, len - in, rest).aborted
            <=> mid.aborted \/ (is_mmio(s) /\ ~Accepted(len - in))
    BY <2>2, WriteAborts
  <2>6. /\ ~Accepted(in) <=> len = 4 /\ in = 3
        /\ ~Accepted(len - in) <=> len = 4 /\ in = 1
    <3>1. len \in {1, 2, 4} /\ in \in {1, 2, 3} /\ in < len  BY <1>1, <2>2b DEF Len
    <3> HIDE DEF in
    <3>2. QED  BY <3>1 DEF Accepted, Len
  <2>7. ThreeInVideo(mem, l, len) <=>
            len = 4 /\ ((in = 3 /\ is_mmio(p)) \/ (in = 1 /\ is_mmio(s)))
    BY <1>5 DEF ThreeInVideo
  <2> HIDE DEF in, p, s, mid, rest, after
  <2>8. after.aborted <=> mem.aborted \/ (is_mmio(p) /\ ~Accepted(in)) \/ (is_mmio(s) /\ ~Accepted(len - in))
    <3>1. CASE mid.aborted  BY <3>1, <2>2, <2>4
    <3>2. CASE ~mid.aborted
      <4>1. after = paddr_write(mid, s, len - in, rest)  BY <3>2, <2>2, <2>3
      <4>2. after.aborted <=> mid.aborted \/ (is_mmio(s) /\ ~Accepted(len - in))
        BY <4>1, <2>5, Zenon
      <4>3. QED  BY <3>2, <4>2, <2>4, Zenon
    <3>3. QED  BY <3>1, <3>2
  <2>9. QED  BY <1>2, <2>6, <2>7, <2>8, Zenon DEF after
<1>6. QED  BY <1>3, <1>4, <1>5

-----------------------------------------------------------------------------
(* The screen.                                                             *)

LineOf(o) == o \div CTR_COL

\* Every pixel is in a line of the screen.
LEMMA PixelLines ==
    ASSUME MemoryAssumption, NEW o \in Pixel
    PROVE  o \in Nat /\ LineOf(o) \in Line /\ o \in Space
<1>1. CTR_COL \in Nat \ {0} /\ CTR_ROW \in Nat /\ CTR_ROW * CTR_COL \in Nat
      /\ CTR_ROW * CTR_COL <= HIGH - LOW + 1 /\ SPACE \in Nat /\ SPACE > HIGH - LOW + 3
      /\ HIGH \in Nat /\ LOW \in Nat
  BY DEF MemoryAssumption
<1>2. o \in Nat /\ o < CTR_ROW * CTR_COL  BY <1>1 DEF Pixel
<1> DEFINE q == o \div CTR_COL
           r == o % CTR_COL
<1>3. q \in Nat /\ r \in 0 .. CTR_COL - 1 /\ o = CTR_COL * q + r  BY <1>1, <1>2, DivisionIdentity
<1> HIDE DEF q, r
<1>4. ~(q >= CTR_ROW)
  <2>1. CTR_COL * q + r >= CTR_COL * CTR_ROW <=> q >= CTR_ROW  BY <1>1, <1>3, MultiplesOrdered
  <2>2. CTR_COL * CTR_ROW = CTR_ROW * CTR_COL  BY <1>1
  <2>3. QED  BY <1>1, <1>2, <1>3, <2>1, <2>2
<1>5. q \in Line  BY <1>1, <1>3, <1>4 DEF Line
<1>6. o \in Space  BY <1>1, <1>2 DEF Space
<1>7. QED  BY <1>2, <1>5, <1>6 DEF q, LineOf

\* The line will be drawn when the interval has passed.
Due(m, i) == m.vmem_dirty /\ i \in m.line_dirty

\* A change of video memory leaves its line due, or torn; what was so stays so.
ChangesShow(m, after) ==
    /\ \A i \in Line : (Due(m, i) => Due(after, i)) /\ (i \in m.torn => i \in after.torn)
    /\ \A o \in Pixel : \/ after.mmio_space[o] = m.mmio_space[o]
                       \/ LineOf(o) \in after.torn
                       \/ Due(after, LineOf(o))

LEMMA ChangesShowTransitive ==
    ASSUME MemoryAssumption, NEW m, NEW mid, NEW after, ChangesShow(m, mid), ChangesShow(mid, after)
    PROVE  ChangesShow(m, after)
<1> SUFFICES ASSUME NEW o \in Pixel, after.mmio_space[o] # m.mmio_space[o]
             PROVE  LineOf(o) \in after.torn \/ Due(after, LineOf(o))
  BY DEF ChangesShow
<1>1. LineOf(o) \in Line  BY PixelLines
<1>2. CASE after.mmio_space[o] # mid.mmio_space[o]  BY <1>2 DEF ChangesShow
<1>3. CASE mid.mmio_space[o] # m.mmio_space[o]  BY <1>1, <1>3 DEF ChangesShow
<1>4. QED  BY <1>2, <1>3

LEMMA SameScreenShows ==
    ASSUME NEW m, NEW after, after.mmio_space = m.mmio_space, after.line_dirty = m.line_dirty,
           after.vmem_dirty = m.vmem_dirty, after.torn = m.torn
    PROVE  ChangesShow(m, after)
<1>1. \A i \in Line : Due(m, i) => Due(after, i)  BY Zenon DEF Due
<1>2. QED  BY <1>1 DEF ChangesShow

LEMMA FailureShows ==
    ASSUME NEW m \in Memory
    PROVE  ChangesShow(m, m) /\ ChangesShow(m, Failed(m))
<1>1. ChangesShow(m, m)  BY SameScreenShows
<1> DEFINE f == Failed(m)
<1>2. /\ f.mmio_space = m.mmio_space /\ f.line_dirty = m.line_dirty
      /\ f.vmem_dirty = m.vmem_dirty /\ f.torn = m.torn
  BY FailedFields
<1> HIDE DEF f
<1>3. ChangesShow(m, f)  BY <1>2, SameScreenShows
<1>4. QED  BY <1>1, <1>3 DEF f

LEMMA WriteShows ==
    ASSUME MemoryAssumption, NEW m \in Memory, NEW p \in Int, NEW len \in 1 .. 4,
           NEW word, IsWord(word, len)
    PROVE  ChangesShow(m, paddr_write(m, p, len, word))
<1>1. CASE is_mmio(p) /\ Accepted(len)
  <2> DEFINE after == mmio_write(m, p, len, word)
  <2>1. /\ after.mmio_space = Overwritten(m.mmio_space, p - LOW, len, word)
        /\ after.line_dirty = m.line_dirty \cup Marked(p)
        /\ after.vmem_dirty = (m.vmem_dirty \/ Marked(p) # {})
        /\ after.torn = m.torn \cup (LinesOf(p, len) \ Marked(p))
    BY MmioWriteFields
  <2>2. paddr_write(m, p, len, word) = after  BY <1>1 DEF paddr_write
  <2> HIDE DEF after
  <2>3. Space \in SUBSET Int /\ p - LOW \in Int /\ len \in Nat /\ m.mmio_space \in [Space -> Byte]
    BY MemoryFields DEF Space, MemoryAssumption
  <2>4. ASSUME NEW o \in Pixel, after.mmio_space[o] # m.mmio_space[o]
        PROVE  LineOf(o) \in Marked(p) \/ LineOf(o) \in LinesOf(p, len) \ Marked(p)
    <3>1. o \in Space /\ o \in Nat /\ LineOf(o) \in Line  BY PixelLines
    <3>2. o - (p - LOW) \in 0 .. len - 1
      <4>1. after.mmio_space[o] = IF o - (p - LOW) \in 0 .. len - 1 THEN word[o - (p - LOW)]
                                  ELSE m.mmio_space[o]
        BY <2>1, <2>3, <3>1, OverwrittenAt
      <4>2. QED  BY <2>4, <4>1
    <3> DEFINE k == o - (p - LOW)
    <3>3. p - LOW + k = o
      <4>1. p \in Int /\ LOW \in Int /\ o \in Int  BY <3>1 DEF MemoryAssumption
      <4>2. QED  BY <4>1
    <3>4. (p - LOW + k) \div CTR_COL = LineOf(o)  BY <3>3, Zenon DEF LineOf
    <3> HIDE DEF k
    <3>5. LineOf(o) \in LinesOf(p, len)  BY <3>1, <3>2, <3>4 DEF LinesOf, k
    <3>6. QED  BY <3>5
  <2>5. ASSUME NEW o \in Pixel, after.mmio_space[o] # m.mmio_space[o]
        PROVE  LineOf(o) \in after.torn \/ Due(after, LineOf(o))
    <3>1. CASE LineOf(o) \in Marked(p)
      <4>1. Marked(p) # {}  BY <3>1
      <4>2. after.vmem_dirty  BY <2>1, <4>1, Zenon
      <4>3. LineOf(o) \in after.line_dirty  BY <2>1, <3>1
      <4>4. QED  BY <4>2, <4>3, Zenon DEF Due
    <3>2. CASE LineOf(o) \in LinesOf(p, len) \ Marked(p)
      <4>1. LineOf(o) \in after.torn  BY <2>1, <3>2
      <4>2. QED  BY <4>1
    <3>3. QED  BY <2>4, <2>5, <3>1, <3>2
  <2>6. ASSUME NEW i \in Line  PROVE (Due(m, i) => Due(after, i)) /\ (i \in m.torn => i \in after.torn)
    <3>1. m.vmem_dirty => after.vmem_dirty  BY <2>1, Zenon
    <3>2. i \in m.line_dirty => i \in after.line_dirty  BY <2>1
    <3>3. i \in m.torn => i \in after.torn  BY <2>1
    <3>4. QED  BY <3>1, <3>2, <3>3, Zenon DEF Due
  <2>7. ChangesShow(m, after)  BY <2>5, <2>6 DEF ChangesShow
  <2>8. QED  BY <2>2, <2>7
<1>2. CASE is_mmio(p) /\ ~Accepted(len)
  BY <1>2, FailureShows DEF paddr_write
<1>3. CASE ~is_mmio(p)
  <2> DEFINE after == paddr_write(m, p, len, word)
  <2>1. after = [m EXCEPT !.hw_mem = Overwritten(m.hw_mem, p, len, word)]  BY <1>3 DEF paddr_write
  <2>2. /\ after.mmio_space = m.mmio_space /\ after.line_dirty = m.line_dirty
        /\ after.vmem_dirty = m.vmem_dirty /\ after.torn = m.torn
    BY <2>1, RamWriteFields
  <2> HIDE DEF after
  <2>3. ChangesShow(m, after)  BY <2>2, SameScreenShows
  <2>4. QED  BY <2>3 DEF after
<1>4. QED  BY <1>1, <1>2, <1>3

LEMMA StoreShows ==
    ASSUME MemoryAssumption, NEW m \in Memory, NEW l \in Nat, NEW len \in Len,
           NEW word, IsWord(word, len)
    PROVE  ChangesShow(m, vaddr_write(m, l, len, word))
<1>1. len \in 1 .. 4 /\ l \in Int /\ ChangesShow(m, Failed(m))  BY FailureShows DEF Len
<1>2. page_translate(m, l) \in Int  BY EntryType
<1>3. /\ ChangesShow(m, paddr_write(m, l, len, word))
      /\ ChangesShow(m, paddr_write(m, page_translate(m, l), len, word))
  BY <1>1, <1>2, WriteShows
<1>4. ASSUME cr0 = "paged", CrossesPage(l, len)
      PROVE  LET after == paddr_write(m, page_translate(m, l), InPage(l, len), word)
             IN  ChangesShow(m, after) /\ ChangesShow(m, WriteSecondPart(after, l, len, word))
  <2> DEFINE in == InPage(l, len)
             after == paddr_write(m, page_translate(m, l), in, word)
             rest == [k \in 0 .. len - in - 1 |-> word[in + k]]
  <2>1. in \in 1 .. len - 1  BY <1>4, CrossingParts
  <2>2. IsWord(word, in) /\ in \in 1 .. 4 /\ len - in \in 1 .. 4 /\ IsWord(rest, len - in)
    BY <2>1, PartsOfWord
  <2>3. after \in Memory /\ ChangesShow(m, after)  BY <1>2, <2>2, PhysicalWriteTypes, WriteShows
  <2>4. l + in \in Nat  BY <2>2
  <2>5. SecondPart(after, l, len) \in Int  BY <2>3, <2>4, EntryType DEF SecondPart
  <2> HIDE DEF after, rest
  <2>6. ChangesShow(after, paddr_write(after, SecondPart(after, l, len), len - in, rest))
    BY <2>2, <2>3, <2>5, WriteShows
  <2>7. ChangesShow(after, Failed(after))  BY <2>3, FailureShows
  <2>8. ChangesShow(after, WriteSecondPart(after, l, len, word))
    BY <2>6, <2>7 DEF WriteSecondPart, rest
  <2>9. ChangesShow(m, WriteSecondPart(after, l, len, word))
    BY <2>3, <2>8, ChangesShowTransitive
  <2>10. QED  BY <2>3, <2>9 DEF after
<1>5. ChangesShow(m, laddr_write(m, l, len, word))
  BY <1>1, <1>3, <1>4 DEF laddr_write
<1>6. QED  BY <1>1, <1>5 DEF vaddr_write

-----------------------------------------------------------------------------
(* Steps.                                                                  *)

MemoryInv == TypeOK /\ ScreenFollows

LEMMA MemoryInitially == ASSUME MemoryAssumption, Init  PROVE MemoryInv
<1>1. TypeOK  BY DEF MemoryAssumption, Init, TypeOK, Memory
<1>2. ScreenFollows
  <2>1. ASSUME NEW o \in Pixel  PROVE screen[o] = 0 /\ mem.mmio_space[o] = 0
    BY PixelLines DEF Init
  <2>2. QED  BY <2>1 DEF ScreenFollows
<1>3. QED  BY <1>1, <1>2 DEF MemoryInv

\* What is shown stays or is about to be drawn, whatever a store does.
LEMMA ShownAfter ==
    ASSUME MemoryAssumption, ScreenFollows, ChangesShow(mem, mem'), UNCHANGED screen
    PROVE  ScreenFollows'
<1> SUFFICES ASSUME NEW o \in Pixel
             PROVE  \/ screen[o] = mem'.mmio_space[o]
                    \/ LineOf(o) \in mem'.torn
                    \/ Due(mem', LineOf(o))
  BY DEF ScreenFollows, LineOf, Due
<1>1. \/ screen[o] = mem.mmio_space[o]
      \/ LineOf(o) \in mem.torn
      \/ Due(mem, LineOf(o))
  BY DEF ScreenFollows, LineOf, Due
<1>2. LineOf(o) \in Line  BY PixelLines
<1>3. QED  BY <1>1, <1>2 DEF ChangesShow

LEMMA StoreStep ==
    ASSUME MemoryAssumption, MemoryInv, NEW l \in Address, NEW len \in Len, Store(l, len)
    PROVE  MemoryInv'
<1>1. PICK word \in Words[len] : mem' = vaddr_write(mem, l, len, word)  BY DEF Store
<1>2. mem \in Memory /\ l \in Nat /\ IsWord(word, len)
  BY GuestAddresses, GuestWords DEF MemoryInv, TypeOK
<1>3. mem' \in Memory /\ ChangesShow(mem, mem')  BY <1>1, <1>2, StoreTypes, StoreShows
<1>4. TypeOK'
  BY <1>3 DEF Store, MemoryInv, TypeOK, MemoryAssumption
<1>5. ScreenFollows'  BY <1>3, ShownAfter DEF MemoryInv, Store
<1>6. QED  BY <1>4, <1>5 DEF MemoryInv

LEMMA LoadStep ==
    ASSUME MemoryAssumption, MemoryInv, NEW l \in Address, NEW len \in Len, Load(l, len)
    PROVE  MemoryInv'
<1>1. mem \in Memory /\ mem' = Failed(mem)  BY DEF MemoryInv, TypeOK, Load
<1>2. mem' \in Memory /\ ChangesShow(mem, mem')  BY <1>1, FailedFields, FailureShows
<1>3. TypeOK'  BY <1>2 DEF Load, MemoryInv, TypeOK
<1>4. ScreenFollows'  BY <1>2, ShownAfter DEF MemoryInv, Load
<1>5. QED  BY <1>3, <1>4 DEF MemoryInv

LEMMA InitPageStep ==
    ASSUME MemoryAssumption, MemoryInv, init_page  PROVE MemoryInv'
<1> DEFINE filled(t) == [p \in Phys |-> IF p - TABLE \in DOMAIN t THEN t[p - TABLE] ELSE mem.hw_mem[p]]
<1>1. mem \in Memory  BY DEF MemoryInv, TypeOK
<1>2. PICK t \in Tables : mem' = [mem EXCEPT !.hw_mem = filled(t)]  BY DEF init_page
<1>3. filled(t) \in [Phys -> Byte]
  BY <1>1, MemoryFields DEF MemoryAssumption
<1> HIDE DEF filled
<1>4. /\ mem' \in Memory /\ mem'.mmio_space = mem.mmio_space /\ mem'.line_dirty = mem.line_dirty
      /\ mem'.vmem_dirty = mem.vmem_dirty /\ mem'.torn = mem.torn
  BY <1>1, <1>2, <1>3, RamWriteFields
<1>5. TypeOK'  BY <1>4 DEF init_page, MemoryInv, TypeOK
<1>6. ChangesShow(mem, mem')  BY <1>4, SameScreenShows
<1>7. ScreenFollows'  BY <1>6, ShownAfter DEF MemoryInv, init_page
<1>8. QED  BY <1>5, <1>7 DEF MemoryInv

LEMMA DrawStep ==
    ASSUME MemoryAssumption, MemoryInv, update_screen  PROVE MemoryInv'
<1>1. mem \in Memory /\ screen \in [Pixel -> Byte]  BY DEF MemoryInv, TypeOK
<1>2. mem' = [hw_mem |-> mem.hw_mem, mmio_space |-> mem.mmio_space, line_dirty |-> {},
              vmem_dirty |-> FALSE, aborted |-> mem.aborted, torn |-> mem.torn \ mem.line_dirty]
  BY <1>1 DEF update_screen, Memory
<1>3. mem' \in Memory  BY <1>1, <1>2, MemoryFields DEF Memory
<1>4. screen' = [o \in Pixel |-> IF LineOf(o) \in mem.line_dirty THEN mem.mmio_space[o] ELSE screen[o]]
  BY DEF update_screen, LineOf
<1>5. screen' \in [Pixel -> Byte]
  BY <1>1, <1>4, MemoryFields, PixelLines
<1>6. TypeOK'  BY <1>3, <1>5 DEF update_screen, MemoryInv, TypeOK
<1>7. ScreenFollows'
  <2> SUFFICES ASSUME NEW o \in Pixel
               PROVE  \/ screen'[o] = mem'.mmio_space[o]
                      \/ LineOf(o) \in mem'.torn
    BY DEF ScreenFollows, LineOf
  <2>1. \/ screen[o] = mem.mmio_space[o]
        \/ LineOf(o) \in mem.torn
        \/ LineOf(o) \in mem.line_dirty
    BY DEF MemoryInv, ScreenFollows, LineOf
  <2>2. mem'.mmio_space = mem.mmio_space /\ mem'.torn = mem.torn \ mem.line_dirty  BY <1>2
  <2>3. QED  BY <1>4, <2>1, <2>2
<1>8. QED  BY <1>6, <1>7 DEF MemoryInv

LEMMA MemoryKept ==
    ASSUME MemoryAssumption, MemoryInv, [Next]_vars  PROVE MemoryInv'
<1>1. ASSUME NEW l \in Address, NEW len \in Len, Store(l, len)  PROVE MemoryInv'
  BY <1>1, StoreStep
<1>2. ASSUME NEW l \in Address, NEW len \in Len, Load(l, len)  PROVE MemoryInv'
  BY <1>2, LoadStep
<1>3. CASE protect
  BY <1>3 DEF protect, MemoryInv, TypeOK, ScreenFollows
<1>4. CASE init_page  BY <1>4, InitPageStep
<1>5. CASE update_screen  BY <1>5, DrawStep
<1>6. CASE UNCHANGED vars
  BY <1>6 DEF vars, MemoryInv, TypeOK, ScreenFollows
<1>7. QED  BY <1>1, <1>2, <1>3, <1>4, <1>5, <1>6 DEF Next

-----------------------------------------------------------------------------
(* Results.                                                                *)

\* The inductive invariant: the types of the memory, and the screen.
THEOREM MemoryInvariant == Spec => []MemoryInv
<1>1. Init => MemoryInv  BY MemoryAssumption, MemoryInitially
<1>2. MemoryInv /\ [Next]_vars => MemoryInv'  BY MemoryAssumption, MemoryKept
<1>3. QED  BY <1>1, <1>2, PTL DEF Spec

\* The types of the memory (hw_mem, mmio_space, the dirty lines of vga.c): no
\* store leaves a line below the screen marked.
THEOREM MemoryTypesOK == Spec => []TypeOK
<1>1. MemoryInv => TypeOK  BY DEF MemoryInv
<1>2. QED  BY <1>1, MemoryInvariant, PTL

\* The screen follows video memory but for the lines that a store ran into.
THEOREM ScreenAlwaysFollows == Spec => []ScreenFollows
<1>1. MemoryInv => ScreenFollows  BY DEF MemoryInv
<1>2. QED  BY <1>1, MemoryInvariant, PTL

\* laddr_read: every load the guest can make returns the bytes of its addresses,
\* for any page tables, across pages or not.
THEOREM EveryLoadIsBytewise == Spec => []LoadIsBytewise
<1>1. TypeOK => LoadIsBytewise  BY MemoryAssumption, LoadsAreBytewise
<1>2. QED  BY <1>1, MemoryTypesOK, PTL

\* laddr_write: every store that does not fail changes the bytes at its
\* addresses and nothing else, two pages in one frame included.
THEOREM EveryStoreIsBytewise == Spec => []StoreIsBytewise
<1>1. TypeOK => StoreIsBytewise  BY MemoryAssumption, StoresAreBytewise
<1>2. QED  BY <1>1, MemoryTypesOK, PTL

\* The assertions a store can meet when its pages are present: only the one of
\* mmio_write, on three bytes in video memory.
THEOREM StoresFailOnlyThere == Spec => []StoreFailsOnlyIn
<1>1. TypeOK => StoreFailsOnlyIn  BY MemoryAssumption, StoresFailOnlyIn
<1>2. QED  BY <1>1, MemoryTypesOK, PTL
=============================================================================
