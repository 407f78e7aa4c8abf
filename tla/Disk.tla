-------------------------------- MODULE Disk --------------------------------
(***************************************************************************)
(* The emulator running the guest kernel's disk driver                     *)
(* (kernel/src/driver/ide) on the emulated IDE drive                       *)
(* (nemu/src/device/dev/ide.c): the loader reads the disk byte by byte     *)
(* through a direct mapped cache of sectors, with the timer's and the      *)
(* drive's interrupts between any two instructions.                        *)
(*                                                                         *)
(* The unit of data is the 32-bit word.  No sector is ever dirty:          *)
(* ide_write has no caller (fs.c panics), so nothing is written back.      *)
(***************************************************************************)
EXTENDS Exec

CONSTANTS Size,        \* words in the file behind the drive
          Content,     \* [0 .. Size - 1 -> Word]: the file
          Word,
          SectorSize,  \* words in a sector, 512 / 4
          NR_SEC_CACHE, \* slots of the sector cache (128)
          Offset,      \* words the loader asks for
          Nothing

ASSUME DiskAssumption ==
    /\ SectorSize \in Nat \ {0} /\ NR_SEC_CACHE \in Nat \ {0}
    /\ Offset \subseteq Nat /\ Nothing \notin Nat \cup Word
    /\ Size \in Nat /\ Content \in [0 .. Size - 1 -> Word]

VARIABLES main,         \* where the main program is
          handler,      \* what is left of the active interrupt handler
          offset,       \* argument of read_byte
          result,       \* what the last read_byte returned
          cache,        \* [Slot -> SectorCache]
          i,            \* loop counter of disk_do_read
          has_ide_intr,
          sector_ports, \* the drive's ports 3 to 6
          disk_pos,     \* position in disk_fp
          byte_cnt      \* words transferred since the command

call_vars   == <<offset, result>>
driver_vars == <<cache, i, has_ide_intr>>
drive_vars  == <<sector_ports, disk_pos, byte_cnt>>
disk_vars   == <<vars, main, handler, call_vars, driver_vars, drive_vars>>

Slot  == 0 .. NR_SEC_CACHE - 1
Index == 0 .. SectorSize - 1

sector == offset \div SectorSize
ptr    == sector % NR_SEC_CACHE

\* Words at position p of the disk; past its end fread leaves buf as it was.
AtPosition(p) == IF p < Size THEN {Content[p]} ELSE Word

\* What an unused slot holds is never read.
DiskInit ==
    /\ Init
    /\ main = "boot" /\ handler = <<>>
    /\ offset = Nothing /\ result = Nothing
    /\ cache = [s \in Slot |-> [used |-> FALSE, sector |-> 0,
                                content |-> [k \in Index |-> Nothing]]]
    /\ i = 0 /\ has_ide_intr = 0
    /\ sector_ports = 0 /\ disk_pos = 0 /\ byte_cnt = 0

-----------------------------------------------------------------------------
(* The main program.  Executes(l, op): it is at l, and op is done there.   *)

Executes(l, op) == handler = <<>> /\ main = l /\ op /\ UNCHANGED handler

\* Variant for the mutation check: the flag is cleared after the command.
ClearsLate(l) ==
    [fetch |-> "prepare", prepare |-> "issue", issue |-> "clear", clear |-> "wait"][l]

\* disk_do_read in program order.
Following(l) ==
    [fetch |-> "clear", clear |-> "prepare", prepare |-> "issue", issue |-> "wait"][l]

\* init_idt ends with sti.
Boot ==
    /\ Executes("boot", sti)
    /\ main' = "idle"
    /\ UNCHANGED <<call_vars, driver_vars, drive_vars>>

read_byte(a) ==
    /\ Executes("idle", plain)
    /\ main' = "fetch"
    /\ offset' = a
    /\ UNCHANGED <<result, driver_vars, drive_vars>>

\* Variant: the number of the slot's sector is not compared.
HitsAnySector == cache[ptr].used

CacheHit == cache[ptr].used /\ cache[ptr].sector = sector

cache_fetch ==
    /\ Executes("fetch", plain)
    /\ main' = IF CacheHit THEN "return" ELSE Following("fetch")
    /\ UNCHANGED <<call_vars, driver_vars, drive_vars>>

clear_ide_intr ==
    /\ Executes("clear", plain)
    /\ main' = Following("clear")
    /\ has_ide_intr' = 0
    /\ UNCHANGED <<call_vars, cache, i, drive_vars>>

\* waitdisk returns at once: only a write command makes the drive busy.
ide_prepare ==
    /\ Executes("prepare", plain)
    /\ main' = Following("prepare")
    /\ sector_ports' = sector
    /\ UNCHANGED <<call_vars, driver_vars, disk_pos, byte_cnt>>

\* Variant: the drive does not reset its counter.
KeepsCount ==
    /\ Executes("issue", out_read_disk)
    /\ main' = Following("issue")
    /\ disk_pos' = sector_ports * SectorSize
    /\ i' = 0
    /\ UNCHANGED <<call_vars, cache, has_ide_intr, sector_ports, byte_cnt>>

\* The drive takes the command and raises its interrupt.
issue_read ==
    /\ Executes("issue", out_read_disk)
    /\ main' = Following("issue")
    /\ disk_pos' = sector_ports * SectorSize
    /\ byte_cnt' = 0
    /\ i' = 0
    /\ UNCHANGED <<call_vars, cache, has_ide_intr, sector_ports>>

\* The flag is tested; the halt, if it comes to it, is an instruction later.
wait_ide_intr ==
    /\ IF main = "halt"
       THEN Executes("halt", hlt) /\ main' = "wait"
       ELSE Executes("wait", plain) /\ main' = IF has_ide_intr = 0 THEN "halt" ELSE "clear_seen"
    /\ UNCHANGED <<call_vars, driver_vars, drive_vars>>

clear_seen ==
    /\ Executes("clear_seen", plain)
    /\ main' = "in"
    /\ has_ide_intr' = 0
    /\ UNCHANGED <<call_vars, cache, i, drive_vars>>

\* Variant: one word too many.
ReadsOneMore(k) == k <= SectorSize

MoreWords(k) == k < SectorSize

in_long ==
    /\ Executes("in", plain)
    /\ \E w \in AtPosition(disk_pos) : cache' = [cache EXCEPT ![ptr].content[i] = w]
    /\ disk_pos' = IF disk_pos < Size THEN disk_pos + 1 ELSE disk_pos
    /\ byte_cnt' = byte_cnt + 1
    /\ i' = i + 1
    /\ main' = IF MoreWords(i + 1) THEN "in" ELSE "fetched"
    /\ UNCHANGED <<call_vars, has_ide_intr, sector_ports>>

cache_fetched ==
    /\ Executes("fetched", plain)
    /\ main' = "return"
    /\ cache' = [cache EXCEPT ![ptr].used = TRUE, ![ptr].sector = sector]
    /\ UNCHANGED <<call_vars, i, has_ide_intr, drive_vars>>

return ==
    /\ Executes("return", plain)
    /\ main' = "idle"
    /\ result' = cache[ptr].content[offset % SectorSize]
    /\ offset' = Nothing
    /\ UNCHANGED <<driver_vars, drive_vars>>

-----------------------------------------------------------------------------
(* Interrupts.                                                             *)

\* irq_handle: ide_intr, or ide_writeback, which finds nothing to write.
IrqHandler(v) == IF v = IRQ_BASE + IDE_IRQ THEN <<"ide_intr", "iret">> ELSE <<"plain", "iret">>

ExecuteHandler ==
    /\ handler # <<>>
    /\ handler' = Tail(handler)
    /\ IF Head(handler) = "iret" THEN iret ELSE plain
    /\ has_ide_intr' = IF Head(handler) = "ide_intr" THEN 1 ELSE has_ide_intr
    /\ UNCHANGED <<main, call_vars, cache, i, drive_vars>>

Dispatch ==
    /\ do_intr
    /\ handler' = IF frames' = frames THEN handler ELSE IrqHandler(intr_no)
    /\ UNCHANGED <<main, call_vars, driver_vars, drive_vars>>

MainInstruction ==
    \/ Boot \/ (\E a \in Offset : read_byte(a)) \/ cache_fetch
    \/ clear_ide_intr \/ ide_prepare \/ issue_read \/ wait_ide_intr \/ clear_seen
    \/ in_long \/ cache_fetched \/ return

\* No key is pressed and the window stays open.
Rest(op) == op /\ UNCHANGED <<main, handler, call_vars, driver_vars, drive_vars>>

DiskLoop ==
    \/ MainInstruction \/ ExecuteHandler \/ Dispatch
    \/ Rest(Halted \/ do_timer \/ do_keyboard \/ PollEmpty \/ Exit)

DiskWorld ==
    \/ \E d \in {"timer", "keyboard"} : Rest(Elapse(d))
    \/ \E k \in 1 .. MaxInstr : Rest(Command(k))

DiskNext == DiskLoop \/ DiskWorld

\* As in Exec; the user at the prompt lets the program go on; and ticks, 10 ms
\* apart, are longer than their handler, so that the main program gets its turn.
DiskFairness ==
    /\ WF_disk_vars(DiskLoop) /\ WF_disk_vars(Rest(Elapse("timer")))
    /\ WF_disk_vars(\E k \in 1 .. MaxInstr : Rest(Command(k)))
    /\ []<>(at = "inst" /\ handler = <<>>)

DiskSpec == DiskInit /\ [][DiskNext]_disk_vars /\ DiskFairness

-----------------------------------------------------------------------------
(* Correctness.                                                            *)

DiskTypeOK ==
    /\ main \in {"boot", "idle", "fetch", "clear", "prepare", "issue", "wait", "halt",
                 "clear_seen", "in", "fetched", "return"}
    /\ handler \in {<<>>, <<"iret">>, <<"ide_intr", "iret">>, <<"plain", "iret">>}
    /\ offset \in Offset \cup {Nothing} /\ result \in Word \cup {Nothing}
    /\ cache \in [Slot -> [used : BOOLEAN, sector : Nat,
                           content : [Index -> Word \cup {Nothing}]]]
    /\ i \in 0 .. SectorSize /\ has_ide_intr \in {0, 1}
    /\ sector_ports \in Nat /\ disk_pos \in Nat

\* The driver implements a plain block device: whatever was read before, hit
\* or evicted, and whatever interrupts fall into the read, read_byte returns
\* what the disk holds at its argument, and answers each request once.
Device == INSTANCE BlockDevice WITH pending <- offset
ImplementsBlockDevice == Device!Spec

\* A read in progress ends, although the driver sleeps for an interrupt that
\* comes only once: none of the flag, the tick, the prompt and the halted
\* counter of exec can leave it waiting for ever.
ReadEnds == main = "fetch" ~> main = "idle"

\* The assertion of handler_ide, byte_cnt <= 512, at every access of its ports:
\* the driver takes no word from the drive beyond the sector it asked for.
NeverOverrunsSector ==
    /\ byte_cnt <= SectorSize
    /\ main = "in" => byte_cnt = i /\ byte_cnt < SectorSize

\* The driver tests its flag and halts later, with interrupts on.  Its test finds
\* the answer there already: the drive answers within the instruction that
\* commands it, no device outranks it, and its handler runs before the test.  The
\* one exception is a test that follows a watchpoint's pause, which broke past
\* do_intr: it fails, and the driver may sleep on an answer that it has had.
SleepsOnlyAfterPause == [][main = "wait" /\ main' = "halt" => paused]_disk_vars
=============================================================================
