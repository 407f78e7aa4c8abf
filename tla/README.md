# NEMU in TLA+

NEMU is an emulator of a small x86 machine (`nemu/`), with a guest kernel
(`kernel/`), test programs (`testcase/`) and games (`game/`) that run on it.
This directory holds a model of its core: modules checked by TLC on small
instances and theorems checked by TLAPS for every value of the constants.  The configuration modelled is that of `include/config.h`:
cache, segmentation, paging, interrupts, timer, keyboard, serial line, IDE and
VGA are on; the TLB and audio are off.  In this configuration the emulator is
one thread; the builds with audio add threads that raise interrupts, and the
interrupt controller is modelled with them.

## 1. Inventory

| Component | State | Operations | Talks to | Hard to get right | What makes it correct |
|---|---|---|---|---|---|
| CPU cache (`memory/mmu/cache.c`) | `cache[1024]`, `hw_mem` | `cache_read`, `cache_write`, `load_exec` past it | called by `paddr_read/write` | accesses across lines, random eviction between the halves, hit that must be updated | transparent: reads and writes are those of plain memory; no stale, no double line |
| Interrupt controller (`i8259_pic.c`) | `i8259_intr_no`, `cpu.intr`, a mutex | raise, query, ack, destroy | devices raise, `do_intr` drains | threads; one slot for all lines; query outside the mutex | highest pending request is kept and announced; what is dispatched was raised |
| Main loop (`cpu.c`, `intr.c`) | `nemu_state`, `n`, `is_nemu_hlt`, EFLAGS.IF, exception frames | `exec`, `do_intr`, `raise_intr`, `hlt`, `iret`, `int` | monitor, devices, guest | stops, halts, interrupts and the budget of `si N` meeting in one turn | a halted CPU wakes, a stop stops, requests reach the handler |
| Timer, keyboard (`dev/timer.c`, `dev/keyboard.c`) | last poll times, `scan_code_buf` | `do_timer`, `do_keyboard`, port 0x60 | SDL events, controller | several events per poll, window closed in the poll | pending key is read; closing ends |
| Monitor (`monitor/breakpoint.c`, `ui.c`) | pool `bp_list` with two lists, INT3 bytes in guest code | `b w d c si q`, hit, re-arm, scan | main loop, guest memory | patched code and saved bytes over long command sequences | pool never leaks, guest code intact but for INT3s, changes reported |
| Kernel interrupt entry (`kernel/src/irq`, `syscall`) | handler lists, trap frames | `irq_handle`, `do_syscall`, `add_irq_handle` | all guest programs | nesting of handlers and system calls | hardware handlers do not nest |
| echo (`testcase/src/echo.c`) | registered handler | register, halt loop, handler | kernel, keyboard | keys arriving while a key is handled | keys typed are seen |
| IDE and disk driver (`dev/ide.c`, `kernel/src/driver/ide`) | drive position, direction, `byte_cnt`; sector cache, `has_ide_intr` | sector read and write, cached byte access | controller, timer | test-then-halt, a pause between the drive's answer and its interrupt | `ide_read` returns the disk's bytes |
| Memory access (`memory.c`, `mmu/*.c`, `io/mm_io.c`) | CR0, CR3, segment caches, page tables | read and write of 1, 2, 4 bytes | all | accesses across pages, mapped I/O | bytes of the translated addresses |
| VGA, serial, port I/O (`dev/vga.c`, `dev/serial.c`, `io/port_io.c`) | video memory, dirty lines, ports | store, refresh | main loop | dirty line missed | screen follows video memory |
| ALU, FPU, decoding, instructions (`cpu/*`) | registers, flags | the instruction set | all | flags at the ends of each width | arithmetic modulo 2^w and its flags |
| Expressions, symbols (`monitor/expr.c`, `elf.c`) | token array | `expr` | monitor | operator precedence, unary operators | value of the expression |
| Kernel memory, loader, files (`kernel/src/memory`, `elf`, `fs`) | page tables, `brk` | map, `mm_brk`, load | IDE | brk moving down | pages mapped exactly once |
| Typing game (`game/src/typing`, `game/include/adt/linklist.h`) | tick, key table, letters in a list over a static pool | two handlers, main loop | kernel | handlers against the main loop, removal in the middle of a walk, the size of the pool | every tick simulated, every press used once and on the right letter, list intact |
| Credits game (`game/src/credits`) | frame counter | animation | kernel | | |
| Audio (`dev/audio.c`) | double buffer | threads | controller | not compiled here | |

The components call one another directly; the asynchronous parts are the clock
and the SDL event queue, which the main loop polls once a turn, the interrupts
it then delivers to the guest, the user at the prompt, and in audio builds the
raising threads.

The hazards the properties are aimed at are listed, each at its line, under
`hazards` in `PROJECT.json`.

## 2. Modules

**`Cache.tla`**: `cache.c` in front of `hw_mem`.  `cache[g][w]` is the code's
`cache[8*g + w]`; a value is the sequence of its bytes, lowest first.  The
operators carry the names of the functions (`get_tag`, `get_line_num`,
`load_cache_line`, ...).  A miss fills the first invalid line or, `rand()`,
any; so a read has a set of outcomes (`ReadOutcomes`), a new cache with the
value returned.  The order of the code is kept where it matters: a read across
lines fills the first line, reads the second (which may evict the first), then
reads the first again.  `write_cache_data` and the split of a value by masks
are modelled by the bytes they move.

**`PicSlot.tla`, `I8259.tla`**: the controller.  Each access to the slot, to
`cpu.intr` and to the mutex is a step; the emulator thread raises and
acknowledges, `Raiser` threads raise.  The mutex is destroyed when the program
stops while raisers may be running: a later `SDL_LockMutex` either fails or
finds memory that still looks like a mutex.  That the freed memory is reused
is not modelled.  `raised` is a history variable.

**`Machine.tla`**: what a guest sees of that loop: an abstract machine in which
a device may raise its line between any two instructions, an accepted interrupt
comes before the next instruction and wakes a halted CPU, and there are no
turns, prompt, poll intervals or event queue.  `Exec` implements it
(`ImplementsMachine`), but for one thing: when a watchpoint pauses the program,
the first instruction executed after the prompt may come before an interrupt
that the CPU accepts.  The run checks this and a theorem proves it; another
proves that without watchpoints `Exec` implements `Machine` outright.  Guests
are then modelled on `Machine` alone, as `Typing` is, of which all that is
shown is meant with no watchpoint set.

**`Exec.tla`**: the loop of `exec` with `do_timer`, `do_keyboard` and `do_intr`
and the instructions that touch the interrupt state (`cli`, `sti`, `hlt`,
`int`, `iret`, `in` from the keyboard, `out` of a read command to the disk,
`nemu_trap`, `BREAK_POINT`).  `at` is the position in the loop.  The guest is
arbitrary: any instruction may come next.  `Watching` says whether watchpoints
may be set.  If so, any instruction may change a watched value: the turn then
ends in the prompt without `do_devices` and `do_intr`, so that a request just
raised stays pending, and `nemu_state` becomes `READY` even where the
instruction was the trap that stops the program.  `paused` is a history
variable: the last thing the CPU did was an instruction that paused so.  Which
watchpoints there are, and the bytes of breakpoints, are `Monitor`'s.  The
controller is one step here, because this build has one thread.  Exception frames keep the vector and IF;
the rest of the frame, the screen and the other devices are left out.

**`Echo.tla`** extends `Exec` with a guest: the kernel's interrupt entry, the
two system calls used and echo's main program and handler.  `code` holds what
each active frame has left to execute, one entry per frame of `Exec`.  Each
action of the guest is conjoined with the action of `Exec` that executes it, so
that every behaviour of `Echo` is one of `Exec`'s loop.

**`BlockDevice.tla`, `Disk.tla`**: `BlockDevice` is what `ide_read` promises: a
request, then an answer with what the disk holds there.  `Disk` extends `Exec`
with another guest, the kernel after `init_idt` reading the disk through its
driver: `read_byte`, the direct mapped cache of sectors, `disk_do_read` step by
step, `wait_ide_intr` with its test and its halt as two instructions, the
interrupt handlers; and the drive, which answers a command within the `out`
that gives it.  Between any two instructions the loop polls the devices and may
deliver the timer's or the drive's interrupt.  The driver tests `has_ide_intr`
and then halts: that the flag is set by the time of the test rests on the drive
answering at once and its interrupt being dispatched in the turn of the `out`,
and a watchpoint's pause in that turn takes the second away.  The unit of data is the 32-bit
word, `offset` is in words.  `Device` maps `offset` to the pending request; the
run and a theorem show that `Disk` implements `BlockDevice`.  The write path is
left out: `ide_write` has no caller in this tree (`fs.c` panics before it), so
no sector is ever dirty, and the drive opens its file for reading only.  Past
the end of the file `fread` leaves the word uninitialised: any word.

**`Chain.tla`**: what the breakpoint pool and the game's lists have in common, a
field that leads from each element of a pool to the next one or to `NULL`.
The elements a walk comes through are the least set closed under that field
(`Reached`): no recursion, so that the modules built on it can be proved about.
`IsList` says that a set of elements is strung together properly, and
`ChainProofs` that then the walk comes through exactly these and ends.

**`LinkList.tla`, `Typing.tla`**: the typing game as a guest of `Machine`.
`LinkList` holds the operations of `linklist.h` on a pool: elements and free
list share `_next`, the pool is strung together by the first `fly_new`, its
last element is never given out.  `Typing` has one action per step of the main
loop between which an interrupt may come: registering the handlers by system
call, the `hlt`, the `cli` and comparison with `tick`, `update_keypress` letter
by letter, a new letter, the walk of `update_letter_pos` with its removals, and
`now++`.  `handler` is what is left of the active interrupt handler.  `tick`
and `now` grow without end; the model keeps their difference and `now` modulo
the period.  The speed of a letter is a constant: `rand() % 1000 / 2000` is an
integer division and always 0, so every letter falls by 0.5.  `aimed` is a
history variable: the letters whose key went down while they were shown.

**`Memory.tla`**: `vaddr_read/write` down to RAM and the mapped range, `hw_mem`
without the cache (`Cache` shows that it cannot be seen).  Operators carry the
names of the functions; a store maps the memory to the next one and may fail
(`aborted`) where the code asserts.  The two levels of page tables are one, of
entries of one byte, but they stay in the guest's memory where stores can reach
them.  `hw_mem_write` checks no bound; a store to a frame beyond RAM, which in
the code writes past the array, is outside the model.  `update_screen` is the timer's redraw of dirty lines.

**`Alu.tla`**: `alu_add`, `alu_adc`, `alu_sub`, `alu_sbb`, `alu_mul`, the
divisions, the flags they set and the conditions of `jcc`, `setcc` and `cmov`,
as pure operators on operands of the code's real widths.  TLC's integers are too narrow for them:
this module is proved about, and no run uses it.

**`Monitor.tla`**: the pool of breakpoints and watchpoints with its two linked
lists (on `Chain`), the commands, and the part of `exec` that hits, restores, re-arms and
scans.  Code is a function from addresses to `op`, `trap` (nemu_trap) or
`INT3`; any instruction, the trap and BREAK_POINT included (an expression may name
`eip` or memory), may change watched values, and an ordinary one goes anywhere;
an interrupt may do so between two instructions.  `aborted` is the failed
assertion of `new_BP`.  `Duplicates` says whether the user ever sets two
breakpoints at one address: without it the code keeps its promises
(`monitor`), with it it does not (`monitor_twice`).

`MC*.tla` only give values to constants.  Definitions marked "variant" change
one definition the way a plausible bug would; nothing uses them but the
mutation check, which replaces the definition and expects the property to fail.

## 3. What the runs show

| Run | Instance | Shows |
|---|---|---|
| `cache` | 2 groups of 2 lines of 2 bytes, 5 blocks, accesses of 1 and 2 bytes | coherence, no double line, reads and writes like plain memory. Group 0 has three blocks for two lines, so fills evict; accesses at odd addresses cross lines, also into a group that is full |
| `i8259` | emulator thread with lines 0, 1, 14; two raisers with line 2 | the slot holds the highest request, none is left without the wire, the assertion of `do_intr` holds. Three threads suffice for two raises to meet one acknowledge |
| `i8259_ack` | the same | *violated*: the acknowledge may wipe a request raised after the query |
| `exec` | one key, one event waiting, `si 1` and `si 2`, two frames | the wire is up exactly with a vector pending; a disk request ends in its handler; a halted guest wakes; a stop ends the monitor, unless a watched value changes in the instruction that stops; the guest sees `Machine`, but for the instruction after such a pause. A watchpoint may pause the program at any instruction |
| `echo` | two scan codes, two events waiting, `si 1` and `si 2`, watchpoints pausing anywhere | hardware handlers never nest and the stack stays within three frames; a pending key is read |
| `echo_keys` | the same, no watchpoint: the key is lost without one | *violated*: two events in one poll, the first is never seen |
| `disk` | a disk of 5 words in sectors of 2, two slots, reads anywhere in three sectors, watchpoints pausing anywhere | `read_byte` answers as the block device, through hits, evictions and interrupts at every point; every read ends; the halt of `wait_ide_intr` is reached only after a pause (and every read ends even so: the interrupt left pending wakes the CPU), and the drive's `byte_cnt` stays within the sector. Sectors 0 and 2 share a slot and differ; the last word is past the end |
| `monitor` | four instructions, pool of three, one expression of two values | pool intact, code intact, changes pause, only a hit disarms, and a trap is lost only to a change that is reported in the same turn. The pool runs out; the program holds a BREAK_POINT of its own, an address next to it and a trap |
| `monitor_armed` | the same | *violated*: hit on the last step of `si N`, then never re-armed |
| `monitor_twice` | the same, two breakpoints at one address | *violated*: the hit writes INT3 back |
| `typing` | a pool of two usable letters, a new letter every 3 ticks, two keys, screen of 4 half pixels, falling by 1 and rising by 3, at most one tick behind | the list and its free list stay one partition of the pool with matching back links, no assertion fails, a hit is the lowest falling letter whose key is down and whose key was pressed for it, no press is left unused, every tick is simulated. Two letters on the screen at once, leaving at either end and in either order, are enough for removal at the head, at the tail and reuse of a freed element; two keys tell letters apart |
| `memory` | pages of 8 bytes, 40 of RAM, 16 to 31 video memory in lines of 4 with one line below the screen, three page tables, two stores | loads and stores of 1, 2 and 4 bytes at page ends, line ends and the table itself are those of the bytes; the one store that aborts the emulator; the screen follows video memory but for torn lines. The tables map neighbouring pages to neighbours, RAM between video memory, and miss a page; a second store sees a table the first changed |

The bounds are named in the `CONSTANTS` of each module: `MaxInstr` stands for
2^32 - 1, what `c` passes to `exec`; reaching it is what `si N` does at N.
`MaxEvents` bounds the SDL queue, `MaxFrames` the guest's stack: it disables
`sti` and `int` in a guest that would go deeper, and is set above what echo
reaches, so that `HandlersDoNotNest` checks its depth.

`MaxMissed` bounds the ticks a busy main loop of the game falls behind by (a
sleeping one takes them as they come), `MaxStores` the stores between redraws.

Deadlock is not checked where the program really ends: the monitor closed, or
aborted by an assertion; and in `memory`, where the bound on stores ends a run.

**Exceptions named by the properties of `Memory`.**  `WithinSide`: without
paging, an access that runs into the mapped range or out of it stays with the
side of its first byte.  `MovesSecondPart`: a store across pages whose first
part overwrites the entry of the second page goes where the new entry says.
`ThreeInVideo`: a store of 4 bytes with 3 of them in one page of video memory
aborts the emulator, because `mmio_write` takes 1, 2 or 4 bytes, possibly after
the first part was written.  `torn`: a store across two lines of the screen
marks only the first, and the second stays stale until a later store to it.

**Fairness.**  `Exec`: the loop takes steps while it can (`exec` never waits)
and the timer's 10 ms pass again and again (`WF` of `Elapse("timer")`).
Nothing is assumed of the user or of the keyboard's interval.  `Echo` assumes
besides that the user at the prompt eventually continues the program; without
it a key would wait at the prompt.  `Disk` assumes the same of the prompt, and
that the main program gets its turn again and again: ticks are 10 ms apart and
their handler is a few instructions, but a model without real time would let
every tick's handler end in the next tick.  `Typing` has the CPU never wait (`WF` of
`Handle \/ Dispatch`), the main program its turn again and again (`SF` of
`Main`, and `handler = <<>> /\ ~Accepts` infinitely often, for the same reason
as `Disk`), and two things of the clock: it ticks into an empty slot with
interrupts enabled if that state recurs, and its request is dispatched if it is
pending again and again.  Both are `SF`: keys are polled every millisecond and
outrank the timer in the one slot, so they take the place of a tick's request
now and then, but not for ever, ten polls to one tick.

**Findings.**  The four violations are disagreements between the code and its
own comments or the guide, quoted in `PROJECT.json`.

## 4. What is proved

| Module | Theorems | Inductive invariant |
|---|---|---|
| `CacheProofs` | types, coherence, no double line, reads and writes like memory | types, coherence and distinct tags together: a hit is updated only in its first line, so coherence needs distinctness; a fill keeps distinctness because it follows a miss. Division facts rebuild an address from tag, group and offset |
| `I8259Proofs` | types, `PendingIsHighest`, `NoForgottenRequest`, `NoSpuriousDispatch`; `AcksWhatItRead` if no other thread raises | besides these: a thread is in a critical section iff it holds the mutex; only the emulator thread dispatches; the wire is up only for a pending request, except in the middle of an acknowledge. `AcksWhatItRead`, which the run `i8259_ack` refutes for the audio builds, holds without them (`Raiser = {}`): that is why `Exec` may take `do_intr` as one step |
| `GuestProofs`, any guest | types, `WireIffPending`, `DiskRequestDelivered`, `ImplementsMachine`; `UnwatchedExecIsMachine`: without watchpoints every run of `Exec` is one of `Machine` | besides these: a turn begins only with instructions left (`Budgeted`), without which `n` would wrap; only a watchpoint pauses (`WatchedPauses`). For the refinement: an instruction is executed only at a point of the loop where no interrupt is acceptable (`NoneAccepted`), which `do_intr` at the end of each turn establishes and the prompt preserves, unless the last instruction paused; then each action maps to one of `Machine` or a stutter |
| `GuestProofs`, echo | `HandlersDoNotNest`; every run of `Echo` is one of `Exec` | what is left of each frame fits the vector that pushed it (`EchoStack`): main alone, or the system call in which it registers on main's last `hlt`; on either of them a hardware handler with IF off; on that the system call of `printc`, whose frame has saved IF = 0. The saved flag is needed: without it `iret` might turn interrupts on in the handler. Which instruction comes next follows from the stack, so `sti` is never next in a handler, and an interrupt is accepted only in main or its system call |
| `GuestProofs`, disk | types, `NeverOverrunsSector`, `ImplementsBlockDevice`, `SleepsOnlyAfterPause`; `UnwatchedDiskNeverSleeps`: without watchpoints the halt is never reached; every run of `Disk` is one of `Exec` | a used slot holds the words of its sector, but for the one being filled, which holds those taken so far, with the drive standing at the next word; that is enough for `return` to be the abstract answer. `SleepsOnlyAfterPause` adds the invariant of `Exec` and where the drive's answer is unless the last instruction paused: pending in the slot, or in its handler, or in the flag |
| `ChainProofs` | lemmas only | what pushing, removing at the head or in the middle and giving back do to the elements of a list. A set is shown to be all of a list by showing that it contains the walk, in place of an induction over the list |
| `MonitorProofs` | types, `PoolPartition`, `PatchIntegrity`, `WatchedChangePauses`, `DisarmedOnlyByHit`, `TrapLostOnlyToWatch`; `HitRestoresOpcode` without duplicates | the slots in use and the free ones are two lists; a slot in use is a breakpoint with an address and a byte or a watchpoint with an expression and the value last reported; without duplicates, each address has at most one breakpoint, which hides the program's byte, and every other byte is the program's. `PatchIntegrity` is the last part as the user sees it; that a delete restores the right byte needs all three. `HitRestoresOpcode`, which the run `monitor_twice` refutes, follows from it: a second breakpoint at an address is the only way to break it |
| `TypingProofs` | types, `ListIntact`, `HitsLowestPressed`, `HitsAimed`, `EveryPressUsed`, `NeverPanics`; every run of `Typing` is one of `Machine` | the letters on the screen and the free elements are two lists that share no element, with back links along the first, also in the middle of the walk that removes; the loop is never ahead of the clock; a handler's stack is a hardware handler, the system call of `game_init`, or the first on the second; nothing the search has passed is lower than its target; a key on its way through the handler is aimed at the letters shown when it went down. `NeverPanics` adds `PoolInv`, below |
| `MemoryProofs` | types, `LoadIsBytewise`, `StoreIsBytewise`, `StoreFailsOnlyIn`, `ScreenFollows` | the first three are facts about the operators in every well-typed state: an access meets at most one page end, the two parts of it are the low and the high bytes of the word, and a frame lies on one side of each end of the mapped range. Only the screen is about time: a step changes a pixel of video memory only if it marks its line or tears it (`ChangesShow`) |
| `AluProofs` | `AdcIsAddition`, `SbbIsSubtraction`, `WideAddition`, `CompareConditions`, `MulIsMultiplication`, `DivisionOfLowHalf`, `SignedDivision` | none, these are facts about operators. One case per size, since the provers divide by numbers only; a difference is known modulo 2^size from the operands' low parts (`Difference16`). The flags are related to integers: result and CF are the exact sum or difference, OF says that the signed one does not fit; add and adc compose to 64 bits; and after cmp each condition means what its name says. Division: `alu_div` and `alu_idiv` mask the dividend to the size of the quotient, although `div.c` and `idiv.c` put both halves together for them and the remainder is taken of the whole; `DivisionOfLowHalf` says that the two agree exactly when the high half is 0, which compiled code that clears or sign-extends it relies on |

Assumptions are those of the modules, which TLC evaluates on every run: sizes
are positive, memory is a whole number of blocks, an access is no longer than a
block (`CacheAssumption`); line numbers leave 255 free (`PicAssumption`); the
kernel's hardware vectors have interrupt gates, as `idt.c` sets them up
(`ExecAssumption`, `TypingAssumption`); sectors and slots are at least one
(`DiskAssumption`); no key's code is that of the empty buffer
(`TypingAssumption`); the instruction behind a BREAK_POINT or a trap of the
program is an address of it (`MonitorAssumption`); a page has at least 4 bytes,
the mapped range is made of whole pages, and entries of the page tables are
bytes (`MemoryAssumption`: the code's pages have 4096, its range is 0xa0000 to
0xbffff).

**The pool of letters.**  `fly_new` asserts that its pool of 1000 is not
exhausted.  Letters are made `Period` ticks apart and leave the screen in the
end, so there is a bound, but a count of letters is not inductive: it needs to
know when each will leave.  `PoolInv` says that every letter can be given the
number of periods since it was made, no two the same, such that its place is one
it can have reached by then: a falling letter has come `Fall` per tick, a hit
one has fallen for some ticks and risen for the others, so that `Fall * Rise *
age + Fall * x` is at most `(Fall + Rise) * Bottom`.  In the middle of the walk
the letters behind it are one tick older.  When a letter is to be made with all
elements but the last given out, these numbers are `SIZE` different ones in
`1 .. SIZE - 1`: the pigeonhole principle of `FiniteSetTheorems` ends the proof.
It needs `Roomy`, `Period * SIZE * Fall * Rise > Bottom * (Fall + Rise)`, which
the code satisfies by far (33 * 1000 * 6 against 384 * 7) and the instance of
`typing` just so (18 against 16).

The proofs about `Disk` and `Echo` rest on those about `Exec`: a lemma shows
that a step of the guest is a step of the main loop, whose invariant so carries
over.  That is why the three share a module.

Only model-checked:

- `HaltedWakes`, `StopEnds`, `LastKeyIsRead`, `ReadEnds` and `GameGoesOn` are
  liveness under fairness, which is out of the prover's reach.

## 5. Not modelled, and the plan

Not modelled for good:

- The third-party game nemu-pal, its fonts and data tables, newlib and the
  prebuilt objects (`libs/`, `mm_malloc.o`).  They are most of the tree's
  lines; the modules cover the emulator, the kernel's driver side and the game
  written for it.
- Instruction decoding and operand forms, which are tables; logic, shifts
  and `imul`, whose flags the guide leaves untested; FPU arithmetic.
- The monitor's expression parser and the loading of symbol tables: text in,
  number out.
- The kernel's file system, whose operations panic in this tree, and its ELF
  loader; of the page tables only their use is in `Memory`.
- Loading of segment descriptors (`load_sreg`): every segment of the kernel has
  base 0 and the same limit.
- The serial line, the CRT and palette registers and port dispatch, which hand
  bytes through; drawing, frame rates, scores.
- Components switched off in this configuration (TLB, audio); the credits
  animation; the scoring programs and tests.

Planned, in this order:

1. The pool of handlers of `irq_handle.c`, with the bound its assertion checks.
