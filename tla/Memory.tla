------------------------------- MODULE Memory -------------------------------
(***************************************************************************)
(* Loads and stores of the guest: segmentation, paging, the split of an    *)
(* access across a page end, memory-mapped I/O, and the screen that is     *)
(* redrawn from video memory (nemu/src/memory, device/io/mm_io.c,          *)
(* device/dev/vga.c).                                                      *)
(*                                                                         *)
(* A word is the function from 0 to its bytes, little end first.  RAM is   *)
(* plain: module Cache shows that the cache in front of it cannot be seen. *)
(* The two levels of the page tables, in the guest's own memory, are one,  *)
(* of one-byte entries: the frame plus one, or zero if not present.        *)
(***************************************************************************)
EXTENDS Integers

CONSTANTS PAGE_SIZE,
          MEM_SIZE,     \* bytes of RAM
          TABLE,        \* where the page table is
          LIMIT,        \* of every segment: 0xfffff000
          LOW, HIGH,    \* the range that vga_init maps: 0xa0000 .. 0xbffff
          SPACE,        \* bytes in mmio_space_pool
          CTR_ROW, CTR_COL,
          Byte,
          Address,      \* what the guest accesses
          Words,        \* [{1, 2, 4} -> sets of words]: what it stores
          Tables,       \* tables init_page may fill in: functions from 0
          MaxStores     \* bound: stores of the guest

ASSUME MemoryAssumption ==
    /\ PAGE_SIZE \in Nat /\ PAGE_SIZE >= 4  \* an access meets at most one page end
    /\ CTR_COL \in Nat \ {0} /\ CTR_ROW \in Nat
    /\ MEM_SIZE \in Nat /\ TABLE \in Nat /\ LOW \in Nat /\ HIGH \in Nat
    /\ LOW <= HIGH /\ HIGH < MEM_SIZE
    /\ LOW % PAGE_SIZE = 0 /\ (HIGH + 1) % PAGE_SIZE = 0
    /\ SPACE \in Nat /\ SPACE > HIGH - LOW + 3 /\ CTR_ROW * CTR_COL <= HIGH - LOW + 1
    /\ Byte \subseteq Nat /\ 0 \in Byte /\ MaxStores \in Nat
    /\ Address \subseteq 0 .. MEM_SIZE - 4
    /\ \A len \in {1, 2, 4} : Words[len] \subseteq [0 .. len - 1 -> Byte]
    /\ \A t \in Tables : \A e \in DOMAIN t : t[e] \in Byte

VARIABLES cr0,     \* "real", "protected" (PE) or "paged" (PE and PG)
          mem,     \* what loads and stores work on
          screen,  \* the pixels shown, as the bytes of video memory they show
          stores   \* stores made

vars == <<cr0, mem, screen, stores>>

Phys  == 0 .. MEM_SIZE - 1
Space == 0 .. SPACE - 1
Line  == 0 .. CTR_ROW - 1
Pixel == 0 .. CTR_ROW * CTR_COL - 1
Len   == {1, 2, 4}

\* aborted: an assertion of the emulator has failed.  torn is a history: lines
\* that a store ran into from the line before, since they were last drawn.
Memory == [hw_mem : [Phys -> Byte], mmio_space : [Space -> Byte],
           line_dirty : SUBSET Line, vmem_dirty : BOOLEAN,
           aborted : BOOLEAN, torn : SUBSET Line]

Init ==
    /\ cr0 = "real" /\ stores = 0
    /\ mem = [hw_mem |-> [p \in Phys |-> 0], mmio_space |-> [o \in Space |-> 0],
              line_dirty |-> {}, vmem_dirty |-> FALSE, aborted |-> FALSE, torn |-> {}]
    /\ screen = [o \in Pixel |-> 0]

-----------------------------------------------------------------------------
(* Physical memory and the mapped range.                                   *)

\* f with the len bytes from position p on replaced by those of word.
Overwritten(f, p, len, word) ==
    [q \in DOMAIN f |-> IF q - p \in 0 .. len - 1 THEN word[q - p] ELSE f[q]]

\* Only the first byte decides.
is_mmio(p) == p \in LOW .. HIGH

\* Bytes past the end of RAM are read only to be masked off.
paddr_read(m, p, len) ==
    [k \in 0 .. len - 1 |->
        IF is_mmio(p) THEN m.mmio_space[p - LOW + k]
        ELSE IF p + k \in Phys THEN m.hw_mem[p + k] ELSE 0]

\* Variant for the mutation check: lines below the screen are marked as well.
MarksAnyLine(p) == {(p - LOW) \div CTR_COL}

\* vga_vmem_io_handler: the line of the first byte.
Marked(p) == {(p - LOW) \div CTR_COL} \cap Line

LinesOf(p, len) == {(p - LOW + k) \div CTR_COL : k \in 0 .. len - 1} \cap Line

mmio_write(m, p, len, word) ==
    [m EXCEPT !.mmio_space = Overwritten(@, p - LOW, len, word),
              !.line_dirty = @ \cup Marked(p),
              !.vmem_dirty = @ \/ Marked(p) # {},
              !.torn = @ \cup (LinesOf(p, len) \ Marked(p))]

Failed(m) == [m EXCEPT !.aborted = TRUE]

\* Variant: mmio_write takes any length.
AnyLength(len) == TRUE

\* The assertion of mmio_write.
Accepted(len) == len \in Len

\* RAM takes 3 bytes as well.  hw_mem_write does not check that the bytes are in
\* hw_mem; the model has none beyond RAM, so that what such a store does to the
\* emulator is outside it.
paddr_write(m, p, len, word) ==
    IF is_mmio(p)
    THEN IF Accepted(len) THEN mmio_write(m, p, len, word) ELSE Failed(m)
    ELSE [m EXCEPT !.hw_mem = Overwritten(@, p, len, word)]

-----------------------------------------------------------------------------
(* Paging and segmentation.                                                *)

Page(l) == l \div PAGE_SIZE
Entry(m, l) == paddr_read(m, TABLE + Page(l), 1)[0]

Present(m, l) == Entry(m, l) # 0

page_translate(m, l) == (Entry(m, l) - 1) * PAGE_SIZE + (l % PAGE_SIZE)

CrossesPage(l, len) == Page(l) # Page(l + len - 1)

InPage(l, len) == len - ((l + len) % PAGE_SIZE)

\* Variant: the second part is looked for behind the first.
NextFrame(m, l, len) == page_translate(m, l) + InPage(l, len)

\* Where the part in the next page is.
SecondPart(m, l, len) == page_translate(m, l + InPage(l, len))

\* Variant: the second part is shifted by a byte too few.
ShiftsLess(l, len, first, second) ==
    [k \in 0 .. len - 1 |-> IF k < InPage(l, len) - 1 THEN first[k]
                            ELSE second[k - InPage(l, len) + 1]]

\* Each part is read len bytes long, masked, and shifted to its place.
Joined(l, len, first, second) ==
    [k \in 0 .. len - 1 |-> IF k < InPage(l, len) THEN first[k]
                            ELSE second[k - InPage(l, len)]]

laddr_read(m, l, len) ==
    IF cr0 # "paged" THEN paddr_read(m, l, len)
    ELSE IF CrossesPage(l, len)
         THEN Joined(l, len, paddr_read(m, page_translate(m, l), len),
                             paddr_read(m, SecondPart(m, l, len), len))
         ELSE paddr_read(m, page_translate(m, l), len)

\* The second page is translated after the first part has been written.
WriteSecondPart(m, l, len, word) ==
    LET in == InPage(l, len)
    IN  IF Present(m, l + in)
        THEN paddr_write(m, SecondPart(m, l, len), len - in,
                         [k \in 0 .. len - in - 1 |-> word[in + k]])
        ELSE Failed(m)

laddr_write(m, l, len, word) ==
    IF cr0 # "paged" THEN paddr_write(m, l, len, word)
    ELSE IF ~Present(m, l) THEN Failed(m)
    ELSE IF ~CrossesPage(l, len) THEN paddr_write(m, page_translate(m, l), len, word)
    ELSE LET after == paddr_write(m, page_translate(m, l), InPage(l, len), word)
         IN  IF after.aborted THEN after ELSE WriteSecondPart(after, l, len, word)

\* segment_translate's assertion; every segment has base 0.
InSegment(l) == cr0 # "real" => l < LIMIT

vaddr_write(m, l, len, word) ==
    IF InSegment(l) THEN laddr_write(m, l, len, word) ELSE Failed(m)

\* No assertion fails in a load.
Readable(m, l, len) ==
    /\ InSegment(l)
    /\ cr0 = "paged" => Present(m, l) /\ Present(m, l + len - 1)

-----------------------------------------------------------------------------
(* The guest and the screen.                                               *)

Store(l, len) ==
    /\ ~mem.aborted /\ stores < MaxStores
    /\ \E word \in Words[len] : mem' = vaddr_write(mem, l, len, word)
    /\ stores' = stores + 1
    /\ UNCHANGED <<cr0, screen>>

\* The word goes to a register: only the failure of a load is kept.
Load(l, len) ==
    /\ ~mem.aborted /\ ~Readable(mem, l, len)
    /\ mem' = Failed(mem)
    /\ UNCHANGED <<cr0, screen, stores>>

\* start.S sets PE and loads the segment registers.
protect ==
    /\ cr0 = "real" /\ ~mem.aborted
    /\ cr0' = "protected"
    /\ UNCHANGED <<mem, screen, stores>>

\* The kernel fills in its tables and sets PG.
init_page ==
    /\ cr0 = "protected" /\ ~mem.aborted
    /\ cr0' = "paged"
    /\ \E t \in Tables : mem' = [mem EXCEPT !.hw_mem = [p \in Phys |->
                                    IF p - TABLE \in DOMAIN t THEN t[p - TABLE] ELSE @[p]]]
    /\ UNCHANGED <<screen, stores>>

\* Variant: only one of the dirty lines is drawn.
DrawsOne ==
    /\ mem.vmem_dirty /\ ~mem.aborted
    /\ \E i \in mem.line_dirty :
          screen' = [o \in Pixel |-> IF o \div CTR_COL = i THEN mem.mmio_space[o] ELSE screen[o]]
    /\ mem' = [mem EXCEPT !.vmem_dirty = FALSE, !.line_dirty = {},
                          !.torn = @ \ mem.line_dirty]
    /\ UNCHANGED <<cr0, stores>>

\* do_vga, when the refresh interval has passed.
update_screen ==
    /\ mem.vmem_dirty /\ ~mem.aborted
    /\ screen' = [o \in Pixel |-> IF o \div CTR_COL \in mem.line_dirty
                                  THEN mem.mmio_space[o] ELSE screen[o]]
    /\ mem' = [mem EXCEPT !.vmem_dirty = FALSE, !.line_dirty = {},
                          !.torn = @ \ mem.line_dirty]
    /\ UNCHANGED <<cr0, stores>>

Next ==
    \/ \E l \in Address, len \in Len : Store(l, len) \/ Load(l, len)
    \/ protect \/ init_page \/ update_screen

Spec == Init /\ [][Next]_vars

-----------------------------------------------------------------------------
(* Correctness.                                                            *)

TypeOK ==
    /\ cr0 \in {"real", "protected", "paged"}
    /\ mem \in Memory /\ screen \in [Pixel -> Byte] /\ stores \in 0 .. MaxStores

\* The reference: a byte of physical memory, and where a byte of the linear
\* address space is.
Cell(m, p) == IF is_mmio(p) THEN m.mmio_space[p - LOW] ELSE m.hw_mem[p]

At(m, l) == IF cr0 = "paged" THEN page_translate(m, l) ELSE l

\* Without paging an access may run into the mapped range or out of it, and
\* stays with the side of its first byte.
WithinSide(l, len) == cr0 # "paged" => (is_mmio(l) <=> is_mmio(l + len - 1))

\* The first part of the store changes the entry of the second page.
MovesSecondPart(m, l, len) ==
    /\ cr0 = "paged" /\ CrossesPage(l, len)
    /\ TABLE + Page(l + len - 1) \in page_translate(m, l) .. page_translate(m, l) + InPage(l, len) - 1

\* A load returns the bytes of its addresses, each translated on its own,
\* wherever the page end cuts it and whatever lies behind the first part.  What
\* an entry names beyond the end of RAM is not the emulator's memory.
LoadIsBytewise ==
    \A l \in Address, len \in Len :
        Readable(mem, l, len) /\ WithinSide(l, len) =>
            \A k \in 0 .. len - 1 : At(mem, l + k) \in Phys =>
                laddr_read(mem, l, len)[k] = Cell(mem, At(mem, l + k))

\* A store that does not fail changes the bytes at its addresses, and no other.
StoreIsBytewise ==
    \A l \in Address, len \in Len : \A word \in Words[len] :
        LET after == vaddr_write(mem, l, len, word)
            at == [k \in 0 .. len - 1 |-> At(mem, l + k)]
        IN  ~after.aborted /\ WithinSide(l, len) /\ ~MovesSecondPart(mem, l, len) =>
                \A p \in Phys : IF \E k \in DOMAIN at : at[k] = p
                                THEN \E k \in DOMAIN at : at[k] = p /\ Cell(after, p) = word[k]
                                ELSE Cell(after, p) = Cell(mem, p)

\* The emulator does not abort on a store it can load back, with one exception:
\* an unaligned store of 4 bytes with 3 of them in one page, in video memory.  Of
\* a store to a frame beyond RAM it says only that no assertion stops it.
ThreeInVideo(m, l, len) ==
    /\ cr0 = "paged" /\ CrossesPage(l, len) /\ len = 4
    /\ \/ InPage(l, len) = 3 /\ is_mmio(page_translate(m, l))
       \/ InPage(l, len) = 1 /\ is_mmio(SecondPart(m, l, len))

StoreFailsOnlyIn ==
    \A l \in Address, len \in Len : \A word \in Words[len] :
        Readable(mem, l, len) /\ ~MovesSecondPart(mem, l, len) =>
            (vaddr_write(mem, l, len, word).aborted <=> mem.aborted \/ ThreeInVideo(mem, l, len))

\* What is shown is what is in video memory, or is about to be drawn: a line
\* can stay stale only where a store ran into it from the line before.
ScreenFollows ==
    \A o \in Pixel :
        \/ screen[o] = mem.mmio_space[o]
        \/ o \div CTR_COL \in mem.torn
        \/ mem.vmem_dirty /\ o \div CTR_COL \in mem.line_dirty
=============================================================================
