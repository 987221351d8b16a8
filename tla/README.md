# Aerogel: a verification of the kernel's core

Aerogel is a small single-processor operating system: two boot paths (BIOS on
x86, UEFI on x86_64) that meet in `kmain`, a page allocator and a heap, a
cooperative scheduler, drivers reached by interrupts or by polling, a VFS with
tmpfs and FAT32, a small network stack and a shell. It has no tests. This
directory holds TLA+ models of it, the TLC runs that check them, and TLAPS
proofs about them.

Run everything from this directory:

    tlc -config MCVmm.cfg MCVmm        # a run: see the table below
    tlapm PmmProofs.tla                # the proofs of a module

## Inventory

| Component | State | Operations | Interacts with | What is hard |
|---|---|---|---|---|
| PMM `kernel/mm/pmm.c` | page bitmap, `total_bytes`, `used_bytes` | `pmm_init`, `pmm_alloc(_n)`, `pmm_free(_n)`, `pmm_mark_used` | page tables, NIC and xHCI buffers take pages | rounding, address width, double frees, counters that must not drift |
| Heap `kernel/mm/heap.c` | doubly linked block list inside the heap, `heap_used` | `kmalloc`, `kcalloc`, `krealloc`, `kfree` | threads, tmpfs, FAT32 | long call sequences, splitting and merging, back links only read much later |
| VMM `kernel/mm/vmm.c`, `arch/x86_64/mm/vmm.c` | page tables | `vmm_init`, `vmm_map`, `vmm_unmap`, `vmm_phys` | PMM | allocation failure half way, huge pages |
| Scheduler `kernel/sched/*.c`, `switch.asm` | circular run queue, thread control blocks, `need_resched`, current thread, interrupt flag | `sched_add/remove/yield/sleep/wake/tick`, `thread_create/exit` | kmain, shell, timer | pointer surgery, stack switching, interrupts on or off across a switch, starvation |
| Interrupts `arch/x86/cpu/isr.c` | handler table, PIC masks | `isr_register`, `pic_unmask_irq`, `isr_dispatch` | every driver | handlers and masks set while interrupts are on, the cascade line |
| PIT `drivers/timer/pit.c` | tick counter | `pit_init`, handler | scheduler | it replaces kmain's handler |
| Keyboard `drivers/input/ps2_keyboard.c` | ring of events, modifiers | IRQ1 handler, `keyboard_poll`, `keyboard_init` | setup, shell | producer in interrupt context, no lock, non-volatile buffer, hlt |
| Mouse `drivers/input/ps2_mouse.c` | packet bytes, the controller's configuration | IRQ12 handler, `mouse_init` | keyboard's controller | shares a port with live IRQ1, waits without a limit |
| kmain, setup, shell | program counters, line buffers | boot sequence, `readln`, `readline`, idle loop | all of the above | order of start-up, who yields to whom |
| VFS, tmpfs, FAT32 `kernel/fs` | mount table, directories, files, one sector buffer per volume | `vfs_*`, `tmpfs_*`, `fat32_*` | heap, ATA | ignored read errors, cluster chains that do not end, growth of arrays |
| ATA `drivers/storage/ata.c` | drive table | probe, `ata_read`, `ata_write` | FAT32 | device protocol, timeouts, sticky errors |
| RTL8139 `drivers/net/rtl8139.c` | receive pointer, transmit index | init, send, poll | network stack, PMM | acknowledge-then-drain race, ring wrap, buffer reuse |
| Network `kernel/net/net.c`, `rust/` | own addresses | ARP, ICMP echo, announce | RTL8139 | length checks |
| Console: VGA `vga_text.c`, framebuffer, GUI `gui.c` | screen cells and cursor, window cursors | print, wrap, scroll, erase, clear | `kprintf`, the shell's echo | the line edited and the line shown are two pieces of state; wrapping at the last row and column |
| PCI `bus/pci.c`, xHCI, Bluetooth | a table of 64 functions | enumeration, look-up by class, detection | RTL8139 | devices that answer at every function, a full table |
| Boot loaders | disk, A20, E820 map | load, switch mode | firmware | retries, flags lost across calls |
| libc, libk, serial, GDT, panic | little or none | helpers | all | bounded copies |

What makes each correct is stated by the properties below for the modelled
components and in the plan for the others. `PROJECT.json` lists every component
with its status and every hazard at its line.

## Modules

| Module | Models |
|---|---|
| `PmmBitmap` | the bitmap as the set of its 1 bits, and what first fit means |
| `Pmm` | `pmm.c`: `pmm_init` one E820 entry at a time, then all operations |
| `PmmScan` | the search loop of `pmm_alloc_n`, one page per step; `Pmm` uses its result |
| `AddressSpace` | abstract: a map from virtual to physical pages that only `vmm_map` and `vmm_unmap` change |
| `Vmm` | extends `Pmm` with both `vmm.c` (two and four levels) and `build_e820` of `efi_main.c` |
| `Heap` | `heap.c`: block headers by address, `split`, and `coalesce` one merge at a time |
| `KeyQueue` | abstract: a bounded FIFO queue |
| `Keyboard` | `ps2_keyboard.c`'s handler and `keyboard_poll`, with `readln` of `setup.c` |
| `RoundRobin` | abstract: one queue of ready threads |
| `Sched` | `sched.c`, `thread.c`, `switch.asm` |
| `Ps2` | the controller shared by keyboard and mouse, and the steps of `keyboard_init` and `mouse_init` |
| `Kernel` | extends `Sched` and `Ps2` with `kmain`, `isr.c`, `pit_init`, driver registration, setup and the shell |
| `Pci` | `pci.c`, with the look-ups of `xhci.c`, `bluetooth.c` and `rtl8139.c` |
| `Nic` | extends `Pci` with `rtl8139.c`, `net.c`, and the packet code in Rust, against the network card |
| `Ata` | `ata_read` of `ata.c` against a drive |
| `Fat32` | extends `Ata` with `fat32.c`: mounting, loading a directory, reading a file |
| `Vfs` | `vfs.c` and `tmpfs.c` with their users: `kmain`, `setup.c`, and the shell's `ls` and `cat` |
| `Console` | `vga_text.c` and the terminal window of `gui.c`, and the printer they are compared with |
| `Shell` | extends `Vfs` and `Console` with `shell.c` |
| `MCVmm` (with `MCPmm`), `MCKeyboard`, `MCNic`, `MCFat32`, `MCShell` (with `MCVfs`) | instances for TLC; `PmmScan`, `Heap`, `Sched` and `Kernel` are instantiated by their cfg alone |
| `PmmProofs` (with `Vmm`), `PmmScanProofs`, `KeyboardProofs`, `HeapProofs`, `KernelProofs` (with `Sched`), `NicProofs`, `Fat32Proofs` (with `Ata`), `ShellProofs` (with `Vfs` and `Console`) | proofs |

How the state corresponds to the code:

- **Pmm.** `bitmap`, `total_bytes` and `used_bytes` are the file's statics;
  `map` and `i` are `pmm_init`'s argument and loop index. `PageFloor` and
  `PageAlign` keep the width of `unsigned long` (`UptrMod`), in which the code's
  masks are computed although its addresses are 64 bits wide. `owner` and
  `reserved` are history variables: who holds which page, and what was
  withheld. Callers free pages they hold, or by mistake pages that are free or
  out of range, which the code ignores; they do not free what somebody else
  holds, against which the code has no defence.
- **Vmm.** `tab` says what each physical page holds when it is read as a table;
  a page that was never cleared holds `Junk`. `vmm_map` takes one table per step
  (`walk`); a large page ends it with a panic on x86 and silently on x86_64.
  The code reaches a table at its physical address, so a table outside the
  low pages, unless it happens to be mapped to itself (`Reachable`), is a page
  fault: `vpc` is then "stopped", as it is when a null table is used. The build
  is that of the memory map: E820 from the BIOS for x86, `build_e820` of the
  firmware's descriptors for x86_64. The other callers of the allocator run
  between the calls.
- **Heap.** `hdr` maps the address of each block on the list to its header; the
  magic number is not modelled, as only a block the heap made is passed back.
  `live` remembers what was asked for at each pointer. `kfree` is the step up to
  `coalesce`, then `CoalesceNext` once per block merged and `CoalescePrev`; no
  other call may come in between (`Ready`). `krealloc` with a null pointer or a
  zero size is `kmalloc` or `kfree`. A panic stops the heap. Requests are small
  compared with the width of `size_t`, as the kernel's are.
- **Keyboard.** One action per memory access of `keyboard_poll`, since IRQ1 can
  come between any two; the interrupt handler is one action, since it runs with
  interrupts off. `kbuf` is not volatile, so its copy may be compiled on either
  side of the store to `ktail`: `CopyEarly`/`AdvanceLate` and
  `AdvanceEarly`/`CopyLate` are the two orders. `parity` is a history variable
  that every press changes, in `KeyQueue` too: a press that is dropped is a step
  of that queue, allowed only when it is full, and not a stutter.
- **Sched.** `rq` holds the head and the `next`/`prev` of every thread exactly as
  the code links them. `esp` records what a thread's saved stack pointer leads
  to: `fresh` (the frame `thread_create` built), `saved` (by `switch_context`),
  `live` (the thread is running; what is saved is out of date) or `garbage`.
  `iflag` is the interrupt flag: a resumed thread returns into `sched_yield`,
  which enables interrupts; a fresh one starts with them off. Operations called
  from a thread are atomic: threads are cooperative and the timer handlers do
  not touch the links. Callers are assumed to add only threads that are created
  and neither running nor queued, and never to stop the idle thread; that is
  how `kmain`, the only caller, behaves.
- **Ps2.** `outk` and `outa` are the byte that the data port gives next, from
  controller or keyboard and from the mouse; `duec`, `duek` and `duea` are what
  each is yet to send. Bytes of the mouse do not hold up the keyboard's, as in
  the emulator that `run-qemu.sh` starts, and the code does not look at the status bit
  that tells them apart. A reply, an acknowledgement and a key are told apart by name,
  which the drivers cannot do. `stolen` and `mistaken` are history variables:
  the race between `mouse_init` and `kb_handler` was lost in one way or the
  other.
- **Kernel.** `Boot` is the sequence of steps that `kmain` takes up to
  `sched_init`, those of `keyboard_init` and `mouse_init` included, and `step`
  the one it is at; interrupts come between any two. `kpc` and `spc` are the
  program counters of `kmain` and of the shell thread, `handlers` and `masked` the
  dispatch table and the two controllers' masks. Setup's poll that finds no key
  and the `hlt` after it are two steps. The keyboard ring is its length, which is
  all that the queue it is shown to implement leaves to say here.
- **Pci.** A machine is the sequence of its slots; `place` counts the functions
  that the loops of `pci_init` have passed, one to a step, `devices` is the table,
  `bound` what each driver found in it, `stage` what `kmain` calls next. A
  device with one function may ignore the function number and answer at each,
  which is why `pci_init` looks at the multi-function bit.
- **Nic.** `rtl8139_poll` is one action per register access or callback (`pc`),
  since the card stores and sends frames all the while (`Arrive`, `Transmit`, both
  external). `ring` holds the frames in the card's memory with the place each
  starts at; `rx_ptr`, `capr` and `tx_cur` are the driver's. A frame is its kind,
  its addresses and its lengths. `net_bring_up` binds the card
  that `Pci` finds, or none.
  The Rust `net_process_packet` is modelled, which replaces the weak C stubs.
  `tx_own` is the number of transmit buffers for which `pmm_alloc` had a page,
  which `rtl8139_init` does not test; the others are all at address 0 and share
  what is there (`Page`). `sent` and `wire` are the frames that `rtl8139_send`
  took and that left the card; `overrun` records that a page was written in
  which a frame was still waiting to leave.
- **Ata.** `ata_read` with a count of one, which is how `kmain`'s callback calls
  it: `WaitBusy` and `WaitDrq` are one look each at the status register (`bsy`,
  `drq`, `err`), of which there are at most `POLLS`. The drive (`Command`,
  `Answer`, external) is assumed to update its status by the time the command
  register has been written: `ata_read` does not wait in between as `probe`
  does. It may answer well, badly, late or never, and ignores a command while
  it is busy. What `ata_init` leaves behind is the choice in `AtaInit`.
- **Fat32.** A byte is named by its place on the disk, so that `out` says which
  bytes were copied; `sector_buf` is the sector whose contents the shared buffer
  holds, which a failed read leaves as it was. `fpc` says which `read_sector` is
  waited for; `r` and `cluster`, `s`, `i`, `lfns` are the local variables of
  `fat32_read_file` and `load_dir`, the latter reset on return. When the buffer
  holds the wrong sector, its meaning is any member of `GarbageClusters` or
  `GarbageDirents`. `faulted` and `loadFaulted` remember that a read failed.
  Subdirectories are named and not loaded: that is the same code with another
  cluster.
- **Vfs.** `node` is the sequence of all nodes in order of creation, 0 is `NULL`.
  A path is whether it begins with a slash and what stands between its slashes;
  an empty name inside it is looked up, and found nowhere, one at its end is not.
  `ls` shows one entry per step and `cat` one piece of a file, up to the piece's
  first 0, since it is printed with `%s`: `shown` holds the places in the file.
  `vfs_write` has no caller yet; it is modelled on files that resolve, with the
  offset cut to 32 bits (`U32`). The gap behind the old end of a file holds what
  `krealloc` returned, 0 or not 0 (`Junk`). When the sum of offset and length
  wraps, or `krealloc` returns NULL, the copy goes outside the memory of the file:
  `pc` is then "wild" and nothing follows.
- **Console.** The screen is its cells, cursor row and column; the window is the
  cursor and the rows of the page. `paper` is the reference: everything printed
  since the last clear, on paper that never ends. A word of the shell's output
  counts as one character.
- **Shell.** `buf` is the line, `todo` the keys yet to be typed at this prompt, the
  last of them a newline or a carriage return.
  `kprintf` goes to the window or to the screen as `kmain` chose (`use_fb`); the
  echo always goes to the screen. `vfs_write`, which the shell does not call,
  happens before it starts. What `kmain` and setup print is left out: the screen
  starts empty.

## Runs

| Run | Checks | States | Result |
|---|---|---|---|
| `pmm` (`MCVmm`) | `TypeOK`, `ExclusiveOwnership`, `HeldPagesMarked`, `UsedBytesExact`, `OnlyUsableHandedOut`, `TablesPrivate`, `IsAddressSpace` | 159,487 | pass |
| `pmm_high_ram` | `OnlyUsableHandedOut` with memory above the address width | | violated: finding 1 |
| `pmm_scan` | `FirstFit` | 29,080 | pass |
| `heap` | `ListTilesHeap`, `LiveBlocksSound`, `NoFreeNeighbours` | 1,120,448 | pass |
| `keyboard` | `IsFifo`, `EventuallyRead` | 438,876 | pass |
| `sched` | `RingOK`, `StateMatchesQueue`, `ContextsValid`, `ZombiesStay`, `IsRoundRobin`, `ReadyRuns` | 86,391 | pass |
| `kernel` | `HandlerBeforeUnmask`, `KeyboardStaysOn`, `HaltEnds`, `BootEnds` | 101,404 | pass |
| `kernel_preemption` | `PreemptiveReadyRuns` | | violated: finding 2 |
| `nic` | `DriversBind`, `ReceiveInOrder`, `FramesStable`, `EventuallyReceived`, `SentInOrder`, `RepliesSent` | 144,416 | pass |
| `storage` | `SectorAsAsked`, `ReadsFile`, `LoadsDirectory`, `NoOverrun`, `CallsEnd` | 541,446 | pass |
| `vfs` (`MCShell`) | `TreeOK`, `SetupTakesEffect`, `CommandShows`, `ScreenIsTail`, `LineShown`, `PageShown` | 167,124 | pass |
| `vfs_mounts` | `MountsReachable` | | violated: finding 3 |

What the properties say is written above each in its module. In one line per
run: memory is never handed out twice, the counters do not drift, and page
tables are a private tree that changes one mapping per call (`pmm`,
`pmm_scan`); the heap's list tiles the heap and merges all that is free
(`heap`); no key is read twice, or lost unless the ring is full, and none is
left behind in front of a `hlt` (`keyboard`); the run queue is a ring, whatever is
removed from it, and starves nobody (`sched`); start-up ends, never loses a first
interrupt or the keyboard, and no halt is for good (`kernel`); drivers bind the
first function of their class in the machine, frames are received once, in order,
whole and without a missed wake-up, what is sent leaves in order until a frame is
written over in its buffer, and answers leave (`nic`); undisturbed reads and
listings are exact, disturbed ones stay in bounds, and calls end (`storage`); the
file trees stay trees, setup takes effect, `ls` and `cat` show all that they
should after any writes, and the screen shows the end of what was printed and the
line that will be run (`vfs`).

Each property of a passing run has a mutant in `PROJECT.json`: a plausible
mistake in one of the modelled functions under which the property fails. The
mutated operators stand in the modules next to the ones they replace and are
used by nothing else.

### Bounds, and why they are enough

- **pmm**: eight 2-byte pages; three BIOS maps with a hole, unaligned ends, an
  entry smaller than a page and memory beyond the bitmap, and two lists of UEFI
  descriptors, one longer than `build_e820` takes; the page tables and another
  caller of the allocator; one range to reserve inside the bitmap and one
  across its end. Sixteen virtual pages: 8 x 2 entries on x86 with six low
  pages, so that a table can lie outside them, and 2 x 2 x 2 x 2 on x86_64 with
  eight. The requests map a low page, the same page twice, a page that shares
  no table with it, and on x86 the very page a table is in. `pmm_high_ram` has
  ten pages and three callers. `Pmm` does not depend on the number of pages,
  and the same properties are proved for every size.
- **pmm_scan**: all bitmaps of nine pages; requests of 1 to 4, of the whole
  range but page 0, of the whole bitmap, and of more than that.
- **heap**: a 48-byte heap with the proportions of the x86 build (5-byte header,
  2-byte alignment, 8-byte minimum split for 20, 8 and 32), enough for up to six
  blocks, so that both neighbours of a block and theirs exist; `heap_used` wraps
  at 64.
- **keyboard**: a ring of three slots (two events), so that it fills and wraps;
  lines of two characters; a letter, Backspace, Enter and one Shift key.
- **sched**: the idle thread and three others: removal from the head, the
  middle and the tail of the queue. Two-tick quanta, two clock ticks.
- **kernel**: the idle and shell threads, a key ring of two events, and a
  keyboard that holds back two presses: one can be mistaken for each reply that
  is waited for, and one more follow it. The tick counter stops at 3; nothing
  there depends on its value.
- **nic**: lengths divided by about fourteen; a ring of 184 bytes holds one or
  two frames, so that it fills and wraps, and up to four frames of 61 to 114
  bytes, so that `rx_ptr` can wrap at 368. One kind of frame is of full length,
  where the receive loop stops for good (`DrainBreak`); frames of 61 bytes need
  padding. Two transmit buffers, so that they are reused, with pages for both, for
  one or for none.
  The machines have three slots of two functions and a table of three entries,
  which some fill; the card is missing, behind others, or without a usable
  register window in most of them, and xHCI controllers have a memory window, an
  I/O window or none.
- **storage**: sectors of two bytes, two to a cluster; a root directory in two
  clusters with a long name across sectors and one across clusters; a file in
  three clusters that are not in order, and one that claims to be longer than
  its chain; reads that begin and end at, before and behind the boundaries.
  One poll stands for 100000: the drive may answer before it, after it, during
  a later call, or never. `MaxEntries` stops a directory made of stale data,
  which the code would go on with.
- **vfs**: the real tree, whose root outgrows its first four entries in
  `kmain` and again in setup; files shorter and longer than a piece of two bytes
  that `cat` reads; paths to directories and files, through a file, relative,
  with a trailing slash, with a slash too many, and to nothing. Offsets are cut
  at 8 in place of 2^32, so that writes inside, across and behind the end of a
  file, an offset that is cut and a sum that wraps all happen, with and without a
  0 in what is written and in the gap; `/etc/os-release` ends in a 0, as setup
  writes it. A screen of three rows of six columns, so
  that a line wraps and the screen scrolls; a window of three rows; lines of up
  to six characters and three words, in typings that fill both, correct slips,
  use tabs and erase an empty line; three lines one after the other.

### Fairness

- `Keyboard`: the reader keeps executing between interrupts and the timer keeps
  ticking (`pit_init` unmasks it at 100 Hz before setup runs). Nothing is
  assumed about typing.
- `Sched`: the running thread eventually calls
  `sched_yield`, which is what cooperative threads owe each other.
- `Kernel`: the current thread keeps executing, the timer ticks, and controller,
  keyboard and mouse answer commands, which is what the drivers' waits without a
  limit rely on. Nothing is assumed about typing. No fairness of yielding is
  assumed: whether the code yields is what is checked.
- `Nic`: the idle loop keeps polling (`HaltEnds` of run `kernel`) and the
  card keeps sending. Nothing is assumed about the arrival of frames.
- `Fat32`: the processor keeps executing. Nothing is assumed about the drive,
  which may stop answering: `ata_read` gives up by itself.

Deadlock is checked except in `pmm`, `pmm_scan` and `heap`, which are
libraries (a search that has returned and a heap that has panicked do stop), in
`nic`, which ends when the last frame is dealt with, in `storage`, where a
mount that failed is not tried again, and in `vfs`, which ends after the last
line typed or a reboot.

## Findings

1. On the 32-bit build, the page masks are 32 bits wide and the E820 addresses
   64: usable memory above 4 GiB is taken for memory at the bottom, and pages
   that the map reserves there are handed out (run `pmm_high_ram`).
2. `docs/architecture.md` calls the scheduler preemptive. `pit_init` replaces the
   timer handler that would call `sched_tick`; nothing looks at `need_resched`;
   the idle loop does not yield. After its first yield the shell never runs
   again (run `kernel_preemption`).
3. `resolve` never looks at the mount table, so the FAT32 volume that `kmain`
   mounts at `/data` is reached by no path (run `vfs_mounts`).

Other observations made while modelling, for which there is no run:

- The amount of free memory printed at boot and by the shell's `mem` is
  `total_bytes - used_bytes`, but the latter counts every set bit of a bitmap
  for 2 GiB, whether or not there is memory behind it.
- `docs/kernel.md` initialises memory before the timer and interrupts; `kmain`
  does the reverse. No handler allocates, so nothing depends on it now.
- IRQ1 is live while `mouse_init` polls the controller. `kb_handler` may take
  the reply to command 0x20, for which `mouse_init` then waits for ever while the
  ring holds a key nobody pressed; or `mouse_init` takes a scan code for the
  configuration and writes it back, which may turn the keyboard off. `BootEnds`
  and `KeyboardStaysOn` except these two outcomes (`stolen`, `mistaken`) and show
  that there is no third.
- `ps2_flush` has no limit: it ends when the user stops typing.
- The mouse answers a reset with three bytes, of which `mouse_init` reads one, so
  the later reads are one command behind and bytes stay in the controller.
- `efi_main` calls its tables a map of 8 GiB and builds 4; on x86_64 `vmm_init`
  maps 2 TiB, for which it takes 2052 pages. `pmm_init` counts the loader's
  memory, where the tables in use until then are, as free.
- Those 2052 pages fill the range from 4 MiB on that `kmain` then gives to
  `heap_init`; the page allocator does not know that the heap is there.
- `vmm_phys` returns 0 for a page that is not mapped and for one mapped to page 0.
- On x86 a page table above the 128 MiB mapped at boot cannot be written
  (`Reachable`), and on x86_64 a missing page becomes a table at address 0.
- A failure of the second `ExitBootServices` is not looked at.
- Backspace on an empty command line is stored as a character and erases the
  prompt on the screen; it does not return over a row break, and takes one
  column of a tab that took several. `LineShown` excepts these lines.
- On a framebuffer the echo and `clear` go to the text screen, which is not
  visible there.
- `cat` of a file without a last newline leaves the prompt in the same row.
- Only the first Ethernet controller in the table is looked at: an RTL8139
  behind another one is not used.
- The line of the first interrupt controller to which the second is attached is
  never unmasked, so the mouse's IRQ12 is never delivered (`Deliverable`).
- `rtl8139_send` never looks whether the card still owns the buffer it fills;
  a burst of requests makes it write over answers that are waiting to leave, and
  so does any second frame if `rtl8139_init` found no pages for two of its
  buffers. `SentInOrder` and `RepliesSent` except behaviours in which this
  happened (`overrun`).
- `xhci_init` takes the address in an I/O register for one of memory.
- `/etc/os-release` is written with the 0 that ends its text; `cat` prints with
  `%s` and does not show it, nor what follows a 0 in the same piece of any file.
- `tmpfs_write` cuts the offset to 32 bits, lets its sum with the length wrap, and
  copies to the result of `krealloc` without a test; `vfs_write` has no caller.
- Echo requests of 1501 to 1510 bytes are received and answered, but the answer
  is refused by `rtl8139_send`, whose limit of 1500 leaves out the header.
- A frame of 1511 to 1514 bytes is never passed by `rtl8139_poll`, and neither
  is any that comes after it (`DrainBreak`).
- The ARP announcement is made by answering a request of the machine to itself,
  and is addressed to the machine itself.
- An error bit that one ATA command leaves fails the wait before the next, so
  that no command is issued any more (`WaitBusy`).
- `load_dir` follows whatever the buffer holds after a failed read, for ever if
  it holds no end mark; it leaks long-name pieces that no entry follows, and one
  node per subdirectory.

## Proofs

All for every value of the constants, from the assumptions named in the
modules (sizes are positive, the tables have the right type).

- **`PmmProofs`**: `Inv` = `TypeOK`, `NothingBeforeUp`, `ExclusiveOwnership`,
  `HeldPagesMarked`, `UsedBytesExact` is inductive. Ownership needs
  `HeldPagesMarked` (an allocation takes clear bits, and whatever is held is
  set); the counter needs it as well, since a free must clear exactly the bits
  it subtracts; and nothing may be held before `pmm_init` has counted. Lemmas
  on cardinality give the effect of each operation on the byte count.
  `PmmOnlyUsable` adds `UsableInv` (free pages are usable too) and the
  arithmetic of rounding. It assumes `NoWrap`, that no map entry reaches the
  top of the address space: run `pmm_high_ram` shows that it is needed.
- **`PmmProofs`**, second part, for `Vmm`: `VmmInv` says that the pages allocated
  for tables and the root form a `Tree`: some assignment of levels under which
  every link of a table leads one level down to one of these pages, no two links
  lead to the same page, every page but the root is linked, and large pages stand
  in directories only. Beside it, `Booting` says which tables of x86_64 `vmm_init`
  has made so far and what is in them (the counter is split into pdpt and
  directory by division), `OnTheWay` that the table `vmm_map` has come to is on
  its page's path, and `LowMapped` that large pages map the low pages to
  themselves and no others. The lemmas are about one write to memory: a new,
  cleared table below an empty entry extends the tree and changes no mapping
  (`AddTable`, `TableStep`), and an entry of a last table changes the mapping of
  exactly one page (`LeafStep`), because two pages whose paths end at the same
  entry are the same page (`OneWay`, `OneEntry`, from the uniqueness of quotient
  and remainder). `VmmTablesPrivate` follows by a bijection from links to pages;
  each action is a step of `AddressSpace` or none, which gives `VmmAddressSpace`,
  both for tables of any size and for two and four levels. The allocator's
  invariant carries over, as every step of `Vmm` is one of `Pmm` or none
  (`TablesAreClient`). `VmmAssumption` says that the root has an entry for every
  virtual page and for what `vmm_init` fills, as the formats of both processors
  do.
- **`PmmScanProofs`**: the loop invariant `ScanInv` (the pages of the current run
  are clear, the page before it is not, no run of `n` ends before `i`) is
  inductive, and gives `FirstFit`.
- **`KeyboardProofs`**: `Inv` = `TypeOK`, `CopyCurrent`, `SlotsWritten` is
  inductive: the slot `keyboard_poll` is copying is either still in the ring or
  the spare slot that `kbuf_push` never fills. From it, every step of the
  driver is a step of `KeyQueue` or leaves the queue as it is (`KeyboardFifo`),
  with the event counted as delivered when `ktail` passes it; a press that finds
  all but one slot taken is the only one dropped (`PushRing`).
- **`HeapProofs`**: `Inv` says that the headers tile the heap from end to end and
  do not overlap (`WellFormed`), and that two free neighbours are met only where
  `coalesce` is at work (`PairsOnlyAt`); it gives `ListTilesHeap` and
  `NoFreeNeighbours`. Each operation on the list (`split`, a merge, a change of
  `used`) has a lemma about any list of headers. `LiveBlocksSound` adds `Held`:
  the used blocks are exactly those given out, each large enough. Its theorem
  assumes `NoWrap`, that no request is so large that rounding it up wraps
  `size_t`; `Heap.cfg` satisfies it.
- **`KernelProofs`**, first part, for `Sched`: the invariant is that there is a
  sequence `q` of different threads such that the linked list is the ring of `q`
  (`Ring`), with `StateMatchesQueue`, `ContextsValid`, and what those need: every
  thread that can be made ready has a frame to resume, the idle thread is queued
  whenever another one runs, and nothing exists before `sched_init`. `enqueue`
  appends to `q` and unlinking removes a member; a set argument (the least number
  for which a claim fails) replaces induction on the length, and shows that
  `RunQueue`, which follows the list, reads off `q`. Hence `RingOK`,
  `StateMatchesQueue`, `ContextsValid`, `ZombiesStay`, and, step by step, that
  the list implements `RoundRobin` with `q` as the abstract queue.
- **`KernelProofs`**, second part, for `Kernel`: `KInv` says, for each step of the
  start-up, which handlers are in the table, which lines may be unmasked, whether
  interrupts are on, and what the controller's configuration holds. It gives
  `HandlerBeforeUnmask` and `KeyboardStaysOn`. The start-up sequence is computed
  from the drivers' own once, in a lemma that lists its steps.
- **`NicProofs`**: `NicInv` lays the frames of the ring one after the other from
  `rx_ptr` to the card's write pointer, modulo the ring's length, with `CAPR`
  sixteen bytes behind, and says that what arrived is what was received followed by
  what is in the ring. It gives `ReceiveInOrder` and `FramesStable` for every ring
  length and frame; it rests on a section on remainders. `SendInv` says that, until
  a frame is written over, `p` buffers are waiting, from the one the card takes next
  to the one before `tx_cur`, that they and no others belong to the card, and that
  their pages hold the last `p` frames sent (`Waiting`). It gives `SentInOrder` for
  every number of buffers and of pages for them: if all were waiting, or the page is
  shared with one that is, the next `rtl8139_send` is an overrun. `PciInv` says that the
  table holds, in the machine's order, the functions before `place` that are there
  and for which there was room; it gives `DriversBind` for every machine, as the
  least index of a class in the table is the first of the class that has a place.
- **`Fat32Proofs`**: `AtaInv` (a command issued and not failed is the one
  `ata_read` waits for) gives `SectorAsAsked`. `ReadInv` relates the local
  variables of `fat32_read_file` to each other, to `out` and to the sector asked for;
  `NoOverrun` follows whatever the disk holds. `ChainInv` adds that, as long as no
  read failed, the reader is on the cluster of the chain where the next byte is and
  every byte copied is that byte of the file; it gives `ReadsFile` on any volume
  that is not damaged (`Volume`: chains stay in the FAT until they end, files start
  on a cluster), which the instance of `MCFat32` is. `DirInv` does the same for
  `load_dir`: where it is in the chain, sector and entry gives the number of entries
  passed, `entries` holds the nodes among them, and `lfns` the long-name pieces right
  before the next one. It gives `LoadsDirectory` on a volume whose root directory is
  not damaged either (`Directory`: it ends, its sectors are a directory's, no name
  has more pieces than the format allows).
- **`ShellProofs`**: `ShellInv` has four parts. `FsInv`: the nodes form a forest
  whose roots are mounted, `/etc` is the node `vfs_init` made, and its first entry
  is the host name's file once setup is done. `CmdInv`: what `ls` and `cat` have
  shown is what they should have of the part they have passed (`CatAt`: the places
  that no 0 hides, in order; a piece starts at a multiple of `CHUNK` until the last,
  so that what a 0 hides in it is what the division of the file into pieces says).
  `ConInv`: the screen shows the end of `paper`, the row is clear ahead of the
  cursor, and what the window has drawn lies in reading order before its cursor.
  `LineInv`: the line being typed stands on the screen from where the prompt
  ended. They give `TreeOK`, `SetupTakesEffect`, `CommandShows`, `ScreenIsTail`,
  `LineShown` and `PageShown`. Three theorems name what they need:
  `WritesElsewhere`, that nobody writes below `/etc` (`vfs_write` has no caller);
  `NoReturn`, that no file holds a carriage return, after which a line typed would
  stand on what is already there; `WindowFits`, that the framebuffer is at least
  56 by 124 pixels, since in a smaller one the window has no room for a character.
  `MCShell.cfg` satisfies all three.

Only model-checked:

- All liveness (`EventuallyRead`, `ReadyRuns`, `HaltEnds`, `BootEnds`,
  `EventuallyReceived`, `RepliesSent`, `CallsEnd`): fairness and `ENABLED` are out
  of the prover's reach.

## Plan

In the order in which they will be added:

1. `Memory`: `Vmm` composed with the range given to `Heap`.
2. `Libc`: bounded copies.
3. The BIOS loader's retries, as far as their control is its own: the A20
   methods in turn, the disk reads.

Done: the page allocator with its search, the page tables, the heap, keyboard
and shared controller, scheduler, kernel composition, device table and network
path, storage path, file trees, shell and console; the proofs in the eight proof
modules.

## Not modelled

Register-level I/O (serial port, the card's and xHCI's set-up registers),
drawing into the framebuffer (pixels, glyphs, frames of windows), the BIOS
loader's real-mode code and the UEFI loader's firmware calls, constant tables
(GDT, IDT), exceptions and panic, which print and halt, the wording of messages,
the disk image script, what a copy outside its memory hits (`vfs_write` after a
wrapped sum, a page table or a transmit buffer at address 0). Code that never
runs: the mouse's packet decoder, whose interrupt is never delivered, and
functions without a caller (`keyboard_getc`, `pit_sleep_ms`, `ata_write`,
`gui_destroy_window`, `gui_window_clear`, `gui_dispatch_key`, `mouse_get`, the
spinlock). `docs/` also names IPC, AHCI and an APIC timer, which have no code.
