# Verification of the RISC-V emulator

TLA+ modules, TLC runs and TLAPS proofs for the emulator in this repository: the
Ada sources under `src/src/` and the guest run-time libraries under
`src/programs/` that run on it. Every definition is translated from source;
`PROJECT.json` maps each one to the file and lines it stands for.

## 1. Inventory

### The system

A hart (`riscv-cpu.adb` for RV32, `riscv-cpu64.adb` for RV64) executes one
instruction per call of `Step` over a `Memory_Unit` (`riscv-memory.adb`) that
owns the RAM and ROM regions and every peripheral. Nothing runs in threads of
its own: `Run` calls `Check_Interrupts`, `Step`, the peripheral ticks and, every
tenth cycle, `DMA_Process`, in turn. Several harts are stepped in lockstep by a
loop of `main.adb` that calls neither `Check_Interrupts` nor `DMA_Process`. The
concurrency a guest sees is therefore that of instructions: of one hart against
the interrupts, the timers, the DMA engine and the device lines, and of one hart
against another.

| Component | State | Operations | Talks to | Hard behaviour | Correct when |
|---|---|---|---|---|---|
| CLINT | mtime, mtimecmp and msip per hart, latched timer flags | byte-lane stores, `Set_Mtimecmp`, `Tick` | Check_Interrupts samples its lines | partial stores of 64-bit registers, rollover | the flag is the comparison, no deadline is missed |
| PLIC | priority, enable, threshold, pending, claimed | register accesses, `PLIC_Update_Mip` | polls VirtIO and GPIO lines, drives mip.MEIP/SEIP | ties, lines that move between poll and claim | mip agrees with the lines, claims are by priority |
| Hart, privileged part | pc, level, CSRs, reservation, halted | Trap_Entry, Mret, Sret, Check_Interrupts, CSR and system instructions | CSR file, CLINT, PLIC | delegation, nested traps, interrupt selection | levels are isolated, handlers are entered masked, no frame is lost |
| CSR file | a table of 52 slots | Read, Write, counters | every trap and CSR instruction | views of one register under several names, a full table | it is a map |
| Load reservations | one address per hart | LR, SC, trap returns | the guest's locks | a trap or another hart between LR and SC | the lock excludes |
| Counters | mcycle, minstret, mtime | increment, half-word reads and writes | `read_cycle`, `read_mtime` | a carry between two loads | the value read was the counter's |
| MMU | TLB, satp, A and D bits in tables | Translate, Flush_TLB | page tables in memory | stale entries, address spaces, hardware A/D | the TLB cannot be seen |
| Memory unit | regions, hint, fault latch | accesses of 1, 2, 4 bytes, Add_Region | all peripherals, DMA | straddling accesses, overlaps, sticky fault | faults are exact, stores are whole |
| DMA | registers and positions of four channels | register accesses, Process | memory, itself | reprogramming in flight, own registers as target | it copies, accounts and ends |
| VirtIO block | queue registers and counters, disk | register stores, Process_VirtIO_Queue | rings in guest memory, driver | notify before ready, reset, 16-bit wrap | a queue answering once, in order |
| prtos | task table, mutexes, queues, waiters | calls of tasks, timer handler | CLINT | preemption in every gap, barging, sleep in two stores | exclusion, no lost wake-up, FIFO, fairness |
| pthread | thread table, launch table | create, join, the secondary harts' loop | boot code, reservations for its mutexes | fields stored one by one under polling harts, slots used again | a created function runs once and its join returns its result |
| rtos | task table, wake-up cycles | rtos_run, yield, sleep, exit, create | cycle counter | a counter that wraps, tasks that come and go | nobody is passed over or woken at another time |
| UART | IER, IIR, input ring | loads, stores, Poll_Input | host terminal | ring at its limit, host queue beyond it | a FIFO, no byte announced that is not there |
| Timer and `timer.c` | prescaler, four channels | register accesses, Tick | the guest's polling | match between two stores of a reprogramming | a delay lasts and ends |
| Watchdog | enable, counter, flag | register accesses, Tick | resets the hart from `Run` | access test depends on its own state | ENABLE starts it |
| SPI flash and `spi.c` | command state, array | one byte per store | fat12 | the meaning of a byte depends on those before | an array of bytes |
| I2C devices and `i2c.c` | controller, pointers, EEPROM | one operation per store | shell command of `cli.c` | pointer shared by addresses and data | an array of bytes each |
| FAT12 | FAT in two copies and cached, directory, handles | format, init, open, create, read, write, close, delete | SPI flash | several open files share one cache | closed files stand, clusters have one owner |
| GPIO | direction, output, interrupt registers | register accesses | PLIC | inputs that nothing drives | see section 7 |
| Instruction execution, FPU, vector, crypto, cache model | none of their own, or counters | pure functions | hart | numeric edges | see section 7 |
| GDB stub, debugger, profiler, coverage, trace and replay, ELF, configuration, disassembler | host side | text and I/O | hart | packet framing | see section 7 |

`PROJECT.json` lists all of them under `components` with what is modelled of
each, and under `hazards` what in this code is hard to test.

## 2. Modules and how they correspond to the code

| Module | Models | State | Actions |
|---|---|---|---|
| `Clint` | `riscv-clint.adb` | the registers; `wrapped` is history | one per register lane, `SetMtimecmp`, `Tick` |
| `Plic` | `riscv-plic.adb`, `PLIC_Update_Mip` | the registers, the two mip bits, the device lines; `claim` is history | `Poll`, one per register, `RaiseLine`, `LowerLine` |
| `Hart` | Trap_Entry, Mret, Sret, Check_Interrupts, `Run`, the system instructions, CSR.Write of the RV32 hart; those of the RV64 hart follow the same rules | pc, level, mstatus, tvec, epc, delegation, mie, mip, reservation, the lines of CLINT and PLIC; `phase` is the place in `Run` | `Check_Interrupts`, `Step`, `LinesMove` |
| `CsrFile` | `riscv-csr.adb` | `Entries`, the destination register | `Instruction`, `Trap`, `Sample` |
| `CsrMap` | abstract: what a CSR file promises | a function of the addresses | the same, without a table |
| `LrSc` | LR, SC, trap returns; `pthread_mutex_*` | reservations, mutex words, threads | one per instruction of the routines |
| `Counters` | mcycle and mtime; `read_cycle`, `read_mtime` of `time.c` | the counter's halves, the routine's registers; `held`, `carries` are history | one per load |
| `Mmu` | `riscv-mmu.adb`, SFENCE.VMA | tables, TLB, satp, mstatus.SUM and MXR; `last`, `trusted` are history | `Access` and what the kernel does |
| `Memory` | regions and accesses of `riscv-memory.adb` | regions, hint, latch, data; `last` is history | `CpuAccess`, `DmaAccess`, `Watch`, `Add_Region` |
| `Dma` | `riscv-dma.adb` | channels, memory; `hist` is history | `GuestWrite`, `Process` |
| `VirtioBlk` | `riscv-virtio_block.adb`, `Process_VirtIO_Queue` | device registers, rings, disk, driver | one per register store, three of the driver |
| `BlockQueue` | abstract: a block device as a queue | requests to do, answers not taken, disk | Submit, Serve, Take, Reset |
| `Prtos` | `prtos.c`, `prtos_trap.S` | task table, mutex, message queue, waiters | the handler, and the sections of each call |
| `Fifo` | abstract: a bounded channel | the messages in it | put, take |
| `Rtos` | `rtos.c` | task table, cycle counter; `watched`, `slept`, `ranSince` are history | `Iterate` of `rtos_run`, one per call |
| `Threads` | `pthread_create`, `pthread_join`, `crt0-pthread.S` | TCBs, launch table, where each hart is | one per load or store another hart can see |
| `ForkJoin` | abstract: fork and join | how far each call has come | create, run, join |
| `Uart` | `riscv-uart.adb` with a terminal | IER, IIR, the ring; `typed`, `got` are history | `Type`, `Drain`, one per register |
| `Timer` | a channel of `riscv-timer.adb`, `timer.c` | prescaler, channel, the guest's call; `counted`, `spoiled` are history | `TimerTick`, one per access of a call |
| `Watchdog` | `riscv-watchdog.adb` behind `riscv-memory.adb` | its registers | one per register access, `Tick` |
| `SpiFlash` | `riscv-spi.adb`, `spi.c` | command state, array, the driver's call | `BeginCall`, `Transfer` of a byte, `EndCall` |
| `I2c` | `riscv-i2c.adb`, `i2c.c`, the i2c command of `cli.c` | controller, devices, the operations left | `BeginCommand`, `Operation` |
| `ByteStore` | abstract: an array of bytes | its cells, the last reply | read, write |
| `Fat12` | `fat12.c` | flash, cache, handles; `stored`, `moved`, `orphans` are history | one per call |
| `StorageDevices` | `SpiFlash` and `I2c` side by side, and what both promise | | |
| `HartProofs` | theorems about `Hart` and `Mmu` | | |
| `ControllersProofs` | theorems about `Clint`, `Plic`, `Uart`, `Timer` | | |
| `EnginesProofs` | theorems about `Dma` and `VirtioBlk` | | |
| `TablesProofs` | theorems about `Memory` and `CsrFile` | | |
| `KernelsProofs` | theorems about the guest's kernels and routines: `Prtos`, `Rtos`, `Threads`, `LrSc`, `Counters` | | |
| `StorageProofs` | theorems about `SpiFlash` and `I2c` | | |
| `FatProofs` | theorems about `Fat12` | | |
| `Facts` | lemmas on numbers, blocks, rings and sequences that the proofs share | | |
| `MC*` | constants for TLC, and modules put side by side | | |

How they compose. `Prtos` holds `Fifo`, `VirtioBlk` holds `BlockQueue`, `CsrFile`
holds `CsrMap`, `Threads` holds `ForkJoin`, `SpiFlash` and `I2c` hold `ByteStore`:
each shows its abstract specification implemented under a refinement mapping.
`Fat12` uses what `SpiFlash` shows of the driver, whole sectors. Device and driver
are in one module where they race (`VirtioBlk`, `SpiFlash`, `I2c`, `Timer`,
`Counters`, `LrSc`, `Mmu`); the lines that `Clint` and `Plic` compute may take any
value between two checks in `Hart`, which covers every guest and every device.

`MCControllers`, `MCTrapsBlock`, `MCInterruptsDma`, `MCTables`, `MCGuest` and
`MCKernels` put modules side by side whose states are disjoint and whose properties
never speak of two of them. A behaviour runs one and leaves the others as they
started, so what is checked of each is what it would be alone. They share a run only
to keep the number of runs small.

Where the code is one call the action is one step with everything that call does.
Where an interrupt, another hart or another engine may come between two stores,
the action ends there.

Definitions named after a fault and commented "Fault variant" are never part of a
specification. Each is a plausible bug in the definition that follows it, used to
show that a property notices it (`mutants` in `PROJECT.json`).

### Abstractions, by module

- **Clint**: a 64-bit register is two digits of a base (the code's eight byte
  lanes). Reads return the state and are left out.
- **Hart**: addresses are modulo `WordSize`; an ordinary instruction retires,
  jumps or raises one of `Exceptions`. Cause and tval carry data no decision of the
  code reads. `Driven` names the bits of mip that come from outside: the CLINT's,
  and on RV64 the PLIC's.
- **CsrFile**: a register is a set of bits; addresses are names. The privilege
  check is `Hart`'s.
- **LrSc**: the guest's routine is followed instruction by instruction; an
  interrupt handler does any LR and returns to any thread of its hart.
- **Counters**: halves modulo `Radix`; a step advances the counter by up to
  `MaxCost` (stall cycles). Bound named in `OtherCode`: one round of the routine
  sees fewer than `Radix - 1` carries, 2^64 cycles in the code.
- **Mmu**: an address is its page number. The kernel's stores to tables and writes to
  satp and mstatus may come at any time, in any order. `trusted` says the kernel has fenced
  since its last edit, the discipline the architecture asks of it; without it
  a stale entry is legal.
- **Memory**: a device register is a byte that keeps what it is given. A fetch may
  start at any address, since SRET may leave the PC odd.
- **Dma**: a register is one digit; the control register keeps its five bits.
- **VirtioBlk**: a chain is named by its head and well formed; the driver has at
  most `N` in flight and zeroes the rings after a reset, as the protocol asks. It is
  more general than the one in `src/programs/virtio-blk-test.c`, which submits,
  notifies, takes and acknowledges one request in one go.
- **Prtos**: time is abstract, a deadline elapses at some moment; a quantum ends
  only after the task has made a step of its own, since a tick is longer than any
  call.
- **Rtos**: a turn takes less than half the counter's range, or a deadline passes
  behind the sign of the difference (`RtosAssumption`). A sleep may be of any length,
  beyond the counter's range too.
- **Threads**: the main thread joins each handle once; every call of
  pthread_create is a job of its own.
- **Uart**: output has no state; the terminal's queue is external.
- **Timer**: what nothing reads (PWM, OUTPUT) is left out. The channels have
  nothing but the prescaler in common.
- **SpiFlash**, **I2c**: few byte values, but data bytes have the values of
  commands and of pointer marks. The caller enables each write, as `spi.h` asks,
  and uses the bus in the sequences of `cli.c`.
- **Fat12**: a guest program is one thread, so a call is one step. The caller does
  not delete a file it has open, and has no handles after a mount or a format. With
  `SplitsFull = FALSE` a write does not go on where one ended on a sector
  boundary: that case is the run `fat12_append`.

## 3. Runs

All bounds are in the `.cfg` or the `MC` module it names.

| Run | What it shows | Bounds, and why they reach the cases |
|---|---|---|
| `controllers` | `FlagFaithful`, `DeadlineReached`: the timer flag is the comparison after any order of partial stores, and comes; `EipFaithful`, `ClaimIsBest`, `LineDelivered` for the PLIC; `InputIsFifo` for the UART; `DelayLasts`, `DelayReturns` for `timer_delay` | base 3 and two harts: carries, both lanes, rollover; three sources of which two are wired, a value over three bits; a ring of three and five bytes typed; counters modulo 4, prescaled by 1 and 3, left in any state before the delay |
| `traps_block` | `FallBreaksReservation`, `MachineStateIsolated` through exceptions, returns, CSR writes; `QueueSpec` (the block device implements `BlockQueue`), `NoStaleNotification` | two pc values, one of them at 2 mod 4, so misa.C matters; MPP reserved; zero and vectored tvec; two requests in flight, ring indices that wrap at 4, device counters at 8, a sector beyond the disk |
| `interrupts_dma` | `RiseIsATrap`, `InterruptsSpareFrames`, `TimerDelivered`; `TransferAccounted`, `TransferCopies`, `ActiveEnds` for DMA | the machine timer, the supervisor external and the supervisor software interrupt, all, none or the S-level ones enabled and delegated, at three levels; lines that come and go; two channels; RAM, ROM, a hole and a register as targets; overlapping ranges |
| `mmu` | `TlbInvisible`, `AccessRecorded` | two levels, two address spaces sharing a table, a TLB of two entries so that eviction happens, superpages, global pages, misaligned and missing leaves |
| `tables` | `FaultExact`, `StoreExact`; `MapSpec`: the CSR table implements `CsrMap` | eight addresses: adjoining and overlapping regions, ROM, a device in a padded span, the top of the address space and what wraps past it; five CSR slots, exactly as many as registers: two preset, three taken by their first write |
| `guest` | `MutualExclusion`, `NoLostUpdate` on one hart under preemption; `ReadsHonest` for the counters; `ClosedFilesStand`, `ClustersOwned`, `ReadBack` for FAT12; `DevicesAreByteStores` for both drivers | three threads (symmetric), two locks; radix 3 so that carries meet every load; two names, two handles, three clusters, two entries: disk and directory fill up; a flash of ten bytes written past its end, an EEPROM of four |
| `kernels` | `MutexExcludes`, `NoLostWakeup`, `QueueIsFifo`, `RunEnds`, `EqualsShare` for prtos; `WakesExactly`, `NotOvertaken`, `SleeperRuns` for rtos; `ThreadsForkJoin`, `JoinEnds` for pthread | four tasks, two priorities, a queue of two, three workloads; three cooperative tasks and a counter that wraps at 6, with sleeps below half of it and beyond all of it; three calls of pthread_create over three slots and two harts, so that slots are used again and one has no hart |
| `lrsc_harts`, `mmu_dirty`, `fat12_append`, `watchdog`, `rtos_sleep` | violations, see section 6 | each the smallest instance that shows it: two harts and two threads; as `mmu`; any split of the writes; the registers; sleeps below and above half of a counter that wraps at 8 |

A property of a run is one no unit test would reach; each has a mutant of a mapped
definition that breaks it. The type invariants (`TypeOK` and its like) hold in
the same state spaces; section 5 says which are also proved.

Deadlock is checked except where the program really stops: a hart that has halted
(`traps_block`, `interrupts_dma`) and a kernel whose `prtos_run` or `rtos_run` has
returned, or threads that are all joined (`kernels`).

## 4. Fairness

- `interrupts_dma`: weak fairness of the whole step of the hart, since `Run` loops
  until the hart halts; nothing is assumed about which instruction comes next. Of
  DMA, weak fairness of `Process`, which `Run` reaches every tenth cycle.
- `controllers`: weak fairness of `Poll` (Check_Interrupts polls before every
  instruction of a running hart), of `TimerTick` (`Run` ticks after every
  instruction) and of the next access of a `timer_delay` in progress, since the
  guest that polls goes on. `DeadlineReached` assumes nothing of the scheduler: its
  hypotheses are that ticks keep coming and that from some moment on no store moves
  mtime or the hart's own deadline, or takes its flag back. The other hart may go on
  with its own registers. Under software that moves a deadline for ever nothing
  can be promised.
- `kernels`: of prtos, the running task's step, the handler, `prtos_run`'s return
  and each deadline, since mtime keeps counting. Of rtos, the iteration of
  `rtos_run` and the end of the running task's turn: the kernel is cooperative,
  and a task that keeps the hart for ever starves the others by design. Of pthread,
  each worker hart (`main.adb` steps all of them in turn) and the main thread
  while it is in a call; nothing makes it call.
- `guest`, `tables`, `mmu`, `traps_block` and the violations state safety only.

## 5. Proofs

Checked by TLAPS for every value of the constants that satisfies the module's
`ASSUME`; TLC evaluates the assumptions in the run of the module. The properties
named are those of section 3. Type correctness is a theorem of its own
(`ClintTypeCorrect` and its like) or, for `LrSc`, `Counters` and `CsrFile`, a part of
the invariant.

Some theorems have a hypothesis beyond the assumptions. `OneHart`, of the locks:
without it the theorems are false, which is run `lrsc_harts`. `NoSplits`, of what
files hold: no write goes on where one ended on a sector boundary; without it the
theorems are false, which is run `fat12_append`. `FatTypeCorrect` and
`FatClustersOwned` do without it. `Disciplined`: the kernel checks nothing, so a
program must unlock only what it has locked and lock only what it has not; `MCPrtos`
has TLC evaluate it for the workloads of the run. `Roomy`: the registers that are
stored fit the CSR table; the code drops a register beyond (section 6), and
`MCTables` has TLC evaluate it for the table of the run, which is full to the last
slot. `ShortSleeps`, of `RtosSleepLasts` only: no sleep comes to more than half the
counter's range; without it the theorem is false, which is run `rtos_sleep`.

### Facts

Ring positions (`ModWrap`, `RingDistance`, `Congruent`), queues read off a ring
(`RingPut`, `RingTake`, `RingFill`), and, from the well-foundedness of finite sets,
that a set of numbers has a least element (`LeastNumber`). From it come induction
up to a bound (`UpTo`) and the existence of a recursive function (`Recursion`). So
what a loop of the code computes is proved for every number of iterations:
`Best_Pending`, `Process`, the bytewise paths of the memory unit, the CSR writes of
a trap, the batch of a notification.

### HartProofs

- Hart. `HartTypeCorrect`, with a lemma per procedure; then four action properties,
  proved for one step from the types: `HartFallBreaksReservation`, `HartRiseIsATrap`,
  `HartInterruptsSpareFrames`, `HartMachineStateIsolated`. What makes `RiseIsATrap`
  true is that delegation as `Enabled_For` reads it and as `TrapLevel` reads it
  agree; what makes `MachineStateIsolated` true is that each of the supervisor's
  views writes its own bits of the register below. Stated for every set of CSR
  values a guest may write.
- Mmu. `MmuTypeCorrect`, `MmuTlbInvisible`, `MmuAccessRecorded`. `MmuInv`: while the
  tables are trusted, an entry of the TLB has the page and the flags that a walk for
  its own address space gives, a global one for every space, and that leaf has its A
  bit (`EntriesAgree`). It holds at a flush because there is no entry. A walk that
  fills an entry also writes A and D bits, into an entry that other walks may come
  by; `WalkGrown` follows a walk of the old and of the new tables level by level
  (`Recursion` gives the walk, `UpTo` the induction) and shows that the update is seen
  by the walks that end there, as bits set, and by no other. Levels, entries of a
  table, ways of the TLB, address spaces and superpages are arbitrary; without
  `trusted` a stale entry is legal, and `TlbInvisible` says nothing of it, nor of the
  page faults of AMOs (section 6).

### ControllersProofs

- `ClintFlagFaithful`, `ClintNoLostDeadline`, for every radix from 2 and any harts.
  `FlagInv` is the two properties together: an action either recomputes a flag from
  the new values or moves mtime by one and only raises flags.
- `PlicEipFaithful`, `PlicClaimIsBest`. `PlicInv`: only polled sources are ever
  pending, and source 0 keeps priority 0, so that the loop's 0 means none. By
  induction over the loop of `Best_Pending`, its result is a deliverable source that
  no other beats.
- `UartInputIsFifo`. `UartInv` adds where the head of the ring is: its place follows
  from tail and count, or a drain would leave a gap.
- `TimerDelayLasts`. `TimerInv` follows `timer_delay` store by store: unless spoiled,
  nothing from before can set the flag, the counter is never ahead of the counts
  since it was cleared, and COMPARE is what was asked for.

### EnginesProofs

- `DmaTransferAccounted`, `DmaTransferCopies`. One `Process` moves many bytes, and a
  byte can be a register of any channel, the moving one included; so the invariant
  speaks of the states inside a step (`SoundStates`) and is carried through its
  loops by induction. `TransferCopies` says that the bytes it compares lie in RAM
  or ROM and that no cell is both source and destination, on addresses that wrap.
- `VirtioQueueIsBlockQueue`: the device implements `BlockQueue`. `BlkInv` adds
  `DeviceInStep` (the device's counters against the ring indices, which wrap at
  different moduli) and `HeadsInOrder` (no chain is in flight twice, and the used
  ring repeats the available one). The batch is followed request by request.
  `VirtioNoStaleNotification` from the same invariant.

### TablesProofs

- `MemFaultExact`, `MemStoreExact`. `MemInv` adds what `Add_Region` lets in (`Laid`):
  regions are not empty, do not wrap and do not overlap, so the hint finds the
  region the search would. Then the fast path and the bytewise path are each shown
  to do what the properties say, the latter by induction over its bytes.
- `CsrFileIsMap`: the table implements `CsrMap`. `CsrInv`: no address has two slots,
  and by a count of the slots under `Roomy` there is one for each that is missing.
  A trap writes several registers; the table after each is the map after each.

### KernelsProofs

- Prtos. `KernelInv`: the task the hart is in is ready or on its way to the handler
  (`CurrentReady`), waiters are blocked at the call they wait for and wait once
  (`WaitersParked`, `WaitersOnce`): so a waiter array never overflows, although
  nothing in the code tests it, and a wake-up hits a task that waits.
  `PrtosMutexExcludes` counts locks against unlocks (`LocksCounted`);
  `PrtosQueueIsFifo` is the ring lemmas; `PrtosNoLostWakeup` counts the woken.
- Threads. `ThreadsIsForkJoin`: `ThreadsSpec` implements `ForkJoin`. `PoolInv` gives
  every call that has a slot one of four stages (`Filling`, `Posted`, `Taken`,
  `Ended`), says that no slot has two calls (`SlotsAlone`) and that a slot without
  one is left clean and its hart polling (`SlotsLeftFree`). For any number of slots,
  calls and harts, slots without a hart included.
- Rtos. `RtosWakesExactly`: the deadline and the counter are as far apart, on a ring
  of any even size, as what was asked for and what was slept (`SleepCounted`), and
  no iteration is skipped while a sleeper's time runs out. It holds of every sleep, and
  so says which are cut short: those with more than half the range left.
  `RtosSleepLasts` follows for the others. `RtosNotOvertaken`: the
  search comes nearer to the waiting task with every turn, and a task that is
  created goes behind all of them (`TurnsOrdered`).
- LrSc. `MutualExclusion` of the spinlock is not inductive. The invariant adds that
  the mutex word is set exactly while a thread is inside (`LockFaithful`) and that a
  reservation the running thread holds at its branch or its SC speaks of the lock as
  it is now (`Fresh`): whatever ran in between was this thread, or went through a trap
  return. For any number of threads and locks on one hart.
- Counters. `CountersReadExact` counts carries: the high half is the one first loaded,
  that many steps further round, so equal loads mean no carry. `CountersReadsHonest`
  joins it with what `read_mtime`, which looks once, can be held to: until mtime
  carries, the high half in the register is the current one and the low half was
  current since the call began.

### StorageProofs

`StorageDevicesAreByteStores`: both controllers, each with its driver, implement
`ByteStore`, for arrays and calls of any size.

- SPI. `SpiInv` says for every byte of a call which state the device is in, what its
  address register holds (`InHeader`: the bytes of the address so far; behind it, one
  more with every byte up to the end of the array), and what the bytes so far have
  read or written (`ReadAt`, `WriteAt`). A write that was announced finds the write
  enable latch set (`Announced`), the short calls leave the device idle. That the
  three address bytes give the address back is arithmetic (`ThreeDigits`).
  `SpiAssumption` keeps the code of `CMD_READ_ID` apart from the other commands'.
- I2C. `I2cInv` says for every rest of a script what the device takes its next
  operation for (`AtScript`): between commands and before an address byte the EEPROM's
  pointer has the mark of a device that waits for one (`BusFree`), and in a read the
  pointer is where the bytes heard so far end (`Heard`). A sensor read past its last
  register stays there, as its size is below a byte's.

### FatProofs

- Chains. `IsChain` says what a chain is, and `ChainIs` that the recursive `Chain` of the
  model, bounded by the number of clusters, is the only one there is: a chain without
  repetition cannot be longer. Then what each update does to it: a link behind its
  last cluster (`Linked`) lengthens it by one, one elsewhere leaves it alone, and
  freeing one chain frees no cluster of another.
- `FatClustersOwned`, from `FatInv`: every file, closed or being written, has a chain; the
  chains are disjoint and cover what is neither free nor lost (`Held`); no two files
  start at the same cluster (`HeadsDiffer`); the table on flash differs from the cached
  one only in files being written (`CopiesAgree`), so that a new mount loses these and
  no more; a writer stands in the last cluster of its chain (`AtTheEnd`), so a link
  it adds cuts nothing off; no entry is used behind one that never was (`UsedFirst`),
  so that `dir_find` finds what is there. The rounds of one write are followed one by
  one (`Follows`): between two of them the invariant holds of the working copy.
- `FatClosedFilesStand`, `FatReadBack`, `FatWrittenIsKept`, from `DataInv` under `NoSplits`:
  the units of a file lie in the sectors of its chain one after the other (`Stands`),
  by either copy of the table; a reader has got the first of them and stands in the
  sector of the next one (`ReaderAt`). Within a write, `Filling` says that the writer's
  position lies in the last sector, and at its start only in a sector just allocated:
  this is what an append at a boundary breaks. Within a read, `TakenAs` says that what
  has been got is the file's units so far.

### What stays model-checked

All liveness (`DeadlineReached`, `LineDelivered`, `DelayReturns`, `TimerDelivered`,
`ActiveEnds`, `RunEnds`, `EqualsShare`, `SleeperRuns`, `JoinEnds`): liveness and ENABLED
are out of the prover's reach. Every safety property of a passing run is proved,
some under the hypotheses named above. The five violations are TLC's by nature.

## 6. What the code does otherwise than is said

Five disagreements are runs that TLC must find violated:

- **SC across harts** (`lrsc_harts`). SC looks only at its own hart's reservation
  (`src/src/riscv-cpu.adb:3208`), and a store breaks nobody's. Two harts in
  lockstep both read 0, both store and both are inside the mutex that
  `src/programs/pthread-test.c:33` calls "protected counter incremented by both
  harts".
- **D bit on a TLB hit** (`mmu_dirty`). A hit returns before the A and D update
  (`src/src/riscv-mmu.adb:175-200`), so a page first loaded from and then stored
  to stays clean. `src/STATUS.md:218` says "A/D bits updated on every access".
- **Appending at a sector boundary** (`fat12_append`). `fat12_write` moves to the next
  cluster only while it has more to write (`src/programs/fat12.c:382`). After a call
  that ends on a boundary, the next one writes over the last sector and still
  returns its length, where `src/programs/fat12.h:122` says "returns bytes written".
- **Starting the watchdog** (`watchdog`). Loads and stores reach it only while it is
  enabled (`src/src/riscv-watchdog.adb:171`) and it starts disabled, where
  `src/doc/WATCHDOG.md:43` says of ENABLE "Set to 1 to start watchdog counting down".
- **Long sleeps** (`rtos_sleep`). `task_sleep_ms` takes any `uint32_t` and multiplies it by
  `g_cycles_per_ms` (`src/programs/rtos.c:226`); the deadline is compared by the sign of
  a 32-bit difference (line 191). Above 2^31 cycles, 2147 ms at the default of
  1,000,000 cycles per ms, the task is woken at once, where `rtos.h:48` says "sleep for
  ~ms milliseconds then return". What `rtos_init` measures in place of the default
  moves that limit and does not lift it.

Others were met while modelling. The models do what the code does, and the
properties speak of the rest. These seven contradict a line, too, but are given no
run: each can be read off the lines quoted.

- **Page faults of AMOs.** The RV64 hart translates the address of an AMO as a load
  (`src/src/riscv-cpu64.adb:2493`), so its page fault has cause 13, where
  `src/STATUS.md:220` says "store/AMO (cause 15)". By the same line an AMO checks R
  and not W, and stores to a page that may only be read. `TlbInvisible` leaves the
  faults of AMOs out, since its oracle takes them for loads as the code does.
- **Delegated MEI or MSI.** They come before MTI whatever level they target
  (`src/src/riscv-cpu.adb:3795`): a delegated one that is held is taken at every
  occasion, and the machine timer's interrupt never, where the comment at 3758 says
  that an M-targeted interrupt "is taken whenever the hart runs below M".
  `TimerDelivered` is of a hart that delegates neither.
- **A DMA transfer of no bytes.** START sets BUSY, `Process` skips a count of 0
  (`src/src/riscv-dma.adb:191`), and BUSY stays. `src/doc/DMA.md:74` counts 0 in the
  range, and line 95 says that START "automatically clears".
- **timer_delay and an old flag.** It clears the flag it waits for after the wait and
  not before (`src/programs/timer.c:228-233`): with the flag set, or about to be set
  by a running channel, it returns early, where `src/programs/timer.h:158` says
  "number of timer ticks to wait". `DelayLasts` is the rest (`spoiled`).
- **read_mtime across a carry.** It loads the two halves once each
  (`src/programs/time.c:47`), and can return a value mtime never had, where line 44
  says "Read 64-bit mtime register". `ReadsHonest` says when.
- **Threads without a hart.** `pthread_create` takes the first idle slot
  (`src/programs/pthread.c:124`) and never asks whether that hart runs, where line 113
  says "Finds a free secondary hart". The join of such a thread spins for ever;
  `JoinEnds` is of the others.
- **Equals below a sleeper.** The handler's search starts behind the task it
  interrupts (`src/programs/prtos.c:245`). If that is always the same task of higher
  priority, it always finds the same of two equals, where `src/programs/prtos.h:70-71`
  says "share the CPU round-robin". `EqualsShare` says when they do.

Of the rest no line promises the contrary, or not clearly:

- Reading the PLIC's claim register changes nothing, where
  `src/doc/PERIPHERALS.md:223` speaks of clearing the pending bit. A claimed
  interrupt goes away only when the device lowers its line.
- SRET takes sepc unmasked (`src/src/riscv-cpu.adb:3722`), MRET does mask mepc.
- A full CSR table drops a new register without a sign (`src/src/riscv-csr.adb:215`),
  the frame of a trap included.
- A `timer_delay` of 0 never returns, since Tick ignores a compare value of 0.
- `timer_enable_interrupt` and `timer_set_auto_reload` load and store CTRL
  (`src/programs/timer.c:115`): a one-shot that matches in between is enabled again.
- The drain of the terminal into the UART's ring does not update IIR
  (`src/src/riscv-uart.adb:100`): a byte is announced only by the next register access.
- The EEPROM's last cell cannot be written, its address being the mark of a device
  that waits for one; `src/doc/PERIPHERALS.md:59` counts 256 bytes.
- A store to the I2C controller's CTRL without ENABLE makes it unreachable
  (`src/src/riscv-i2c.adb:205`), as with the watchdog.
- `spi_flash_read_id` reads FF FF FF: the device answers the ID to the command byte
  only.
- `GPIO_Update` and `Set_External_Input` have no caller outside the tests, so no GPIO
  interrupt is ever raised, although the PLIC polls for one.

## 7. Not modelled, and why

- GPIO: nothing in the program moves an input or sets an interrupt flag (section
  6). What is left is registers that hold what is stored in them.
- Arithmetic of the integer, FPU, vector and crypto instructions, decoding and the
  expansion of compressed ones: functions on wide words that TLC would only sample.
  The state they share with the rest (traps, reservations, CSRs, memory) is modelled.
- The RV64 hart's instructions, as for RV32. Its trap and interrupt code repeats the
  RV32 hart's rule by rule and `Hart` stands for both; its use of the MMU is `Mmu`.
- The cache model: it only counts stall cycles, and those are an arbitrary advance
  in `Counters`.
- Host-side services: semihosting files, HTIF, terminals, GDB, the debugger's text
  interface, profiles, settings, ELF. Input and output, or formatting.
- The reset of the hart by a watchdog timeout, and the loops of `main.adb` that call
  `Step` alone: no line says which loop serves which device. Without a way to start
  the watchdog, no guest reaches the reset.
- The physical accesses of a page-table walk fault or not as memory decides; the
  walk is one step and its tables are in memory.
- prtos semaphores, which have the shape of the mutex; the SBI console; PWM output.
- Sequential guest libraries (printf, math, strings, compression, crypto), the
  demonstration programs and the vendored DOOM.

The map names some 4,700 lines of source, 3,300 of them Ada: the emulator itself is
Ada, 48,000 lines with its tests, instruction arithmetic and text interfaces. The C
files are guest programs, 116,000 lines of which 67,000 are the vendored DOOM and
most of the rest demonstrations and test programs; the map names 1,300 of them, the
libraries that have state to get wrong. A share of the C lines therefore says little
about how much of the system is modelled, and cannot become large; section 1 and
`components` say it.

## 8. Plan

Done: the models of section 2, in the order of the table, and the proofs of section 5.

What is left of the proofs is liveness, out of the prover's reach. What would
extend them is the converse of the findings: mutual exclusion across harts once SC
looks at the other harts' reservations, appending at a boundary once `fat12_write`
moves on, `DirtyRecorded` once a hit updates D, `EqualsShare` without its hypothesis once the
search starts behind the last task of the same priority. Each is the present theorem with one
hypothesis less or one property more.

Should the code change otherwise: an extension of `Fat12` to writes cut by a reset, once
the flash keeps its contents across one; `Run` with the watchdog, once a guest can
start it; GPIO, once an input can move.
