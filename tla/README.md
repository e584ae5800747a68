# A TLA+ model of msos

msos is a small POSIX-like operating system for ARM Cortex-M microcontrollers
(`src/src`, `src/include`).  This directory holds TLA+ modules translated from
its source, the TLC configurations that model-check them, and proofs about them
that the TLA+ proof system checks.  Paths below are relative to the repository.

## 1. The system

One core, no memory protection, newlib on top.  Everything shares one address
space; processes are preempted by a timer; the HAL and the `eul` library are
submodules that are not part of the repository.

| Component | State | Operations | Depends on |
|---|---|---|---|
| Process list and scheduler: `arch/armv7-m/normal_scheduler.cpp`, `kernel/process/process_manager.hpp`, `arch/armv7-m/arm_process.cpp` | `processes_` (a `std::list`), `current_process_` (an iterator into it), per process `state_`, `locks_`, `pid_`, saved stack pointer; `pid_counter` | `create_process`, `delete_process`, `get_next`, `schedule_next`, `unblock_all`, `block`, `unblock` | called from thread mode (spawn), SVC handlers and PendSV |
| Semaphore and Mutex: `arch/armv7-m/semaphore.{s,cpp}`, `kernel/synchronization` | `value_` | `semaphore_wait`, `semaphore_post`, `Mutex::lock/unlock` | scheduler |
| Context switching: `arch/armv7-m/context_switch.*`, `svc_handler.cpp`, `systick_handler.cpp`, `pendsv_handler.cpp` | interrupt priorities, pending PendSV, the exclusive monitor | SVC dispatch, SysTick, PendSV, `yield` | scheduler, HAL |
| spawn, exec, exit: `arch/armv7-m/spawn.cpp`, `syscalls/syscalls.cpp` | the process being built, `ExecInfo` | `spawn`, `spawn_root_process`, `exec`, `process_exit` | process list, linker, Vfs |
| Descriptors and cwd: `kernel/process/process.cpp` | `fd_map_`, `fd_[8]`, `cwd_` per process | `add_file`, `remove_file`, `get_file`, `set_cwd` | files |
| File system calls: `syscalls/syscalls.cpp`, `posix/unistd.cpp` | none of their own | `_open`, `_close`, `_read`, `_write`, `chdir`, `getcwd` | descriptors, Vfs |
| Directory streams: `posix/dirent.cpp` | a snapshot of the directory, the last name returned | `opendir`, `readdir`, `closedir` | Vfs |
| RamFs: `fs/ramfs*.cpp` | `files_`, per file a byte vector; per open file a position | `mkdir`, `create`, `get`, `list`, `read`, `write` | none |
| Vfs and mount points: `fs/vfs.cpp`, `fs/mount_points.cpp` | list of (path, file system) | `mount_fs`, choice of the mount point | file systems |
| RomFs, DeviceFs, AppFs | constant images and registries | `get`, `list`, `read` | drivers |
| Dynamic linker: `dynamic_linker/*` | vector of loaded modules (text, data, lot) | `load_module`, `unload_module`, `get_lot_for_module_at` | memory |
| Drivers: USART, block devices, SSD1306, GPIO | receive ring, reference counter, frame buffer | interrupt handler, read, write, init, deinit | HAL |
| Shell and loadable modules: `apps/shell`, `libs`, `apps/ls`, `cat`, `cd` | a line buffer cut in place, `argv`, the descriptor of `shell.cfg` | read a line, search, exec | Vfs, linker, console |
| libc: `libc/printf.cpp`, `include/msos/printf.hpp`, `usart_printer.hpp` | none beyond a call | `fgets`, `scanf`, `printf` | USART |
| Image generator: `scripts/generate_binary.py`; symbol numbers: `generate_api.py` | run on the build host | an ELF file becomes the image the linker reads; headers become numbers of symbols | ELF tools |
| Board support, other scripts, site | | | |

What makes it hard: the timer preempts thread-mode code anywhere, also inside
`std::list::emplace_back` and `pid_counter++`; correctness of the semaphores
rests on three interrupt priorities and on `strex` failing whenever anything
ran since the `ldrex`; a process is removed from the list it is being scheduled
from; nothing queues the waiters of a semaphore; and nothing cleans up what a
process held when it exits.

What makes each component correct, in short: the scheduler finds a Ready
process, never one that left, and every Ready process in the end; a semaphore
neither loses nor invents units and never forgets a waiter; exit removes the
process that exits; descriptors are distinct and the lowest free; a directory
stream of distinct names returns each entry once and ends; a name keeps its
first file, and what is read is the beginning of that file; a mount point is a
prefix of the path; a line that Enter ends is the line on the screen; a running
program finds its own offset table; a module that is loaded is linked.

What the code does *not* promise, although one might expect it: a path that is
created twice names the first of two files; a load that fails leaves its entry
in the table; a second `init` of a block device clears it; output that comes
while the user types ahead can be erased by the erase key; `malloc` counts, and
does not report, that there was no memory.  The models do all of this.

## 2. Modules

| Module | What it is |
|---|---|
| `Kernel` | the core: ring, scheduler, SVC handlers, spawn, exit, SysTick, PendSV |
| `Semaphores` | the abstract semaphore a process believes it calls |
| `KernelProofs` | inductive invariant, safety theorems and the refinement |
| `Files` | descriptor tables, the file system calls, RamFs, directory streams, the working directory |
| `Descriptors` | the abstract descriptor table |
| `FilesProofs` | inductive invariant of `Files`, its theorems and the refinement |
| `Linker` | exec and the table of loaded modules that all processes share |
| `LinkerProofs` | its invariant and theorems for one process |
| `ModuleImage`, `ImageProofs` | `generate_binary.py` writes an image, the loader reads it; its invariant and theorem |
| `Console`, `ConsoleProofs` | USART interrupt, ring, echo, and the two line readers of libc; its invariant and theorems |
| `Namespace` | mount points and the four file systems behind them |
| `Shell`, `ShellProofs` | boot and the shell, over `Namespace`; their invariant and theorems |
| `Display`, `Storage`, `Numbers` | the SSD1306 driver, the RAM block device, the printing of numbers |
| `Drivers` | these three together |
| `OpenFiles` | reads and writes of every class of file, in halves and bytes |
| `Answers`, `Commands` | what the system answers without touching its data; the words of `ioctl` |
| `Contexts` | registers, stacks and stack marks across exceptions and switches |
| `SymbolCodes` | the numbers that stand for the system's symbols |
| `Printf`, `Heap`, `Malloc`, `Paths` | `printf`; `_sbrk`; the count that `malloc` and `free` keep; the text of the working directory |
| `Parts` | the parts without shared state, one of them chosen to act |
| `PartsProofs` | invariants and theorems of `Drivers` (with `Numbers`), `OpenFiles`, `Contexts`, `Heap`, `Malloc`, `SymbolCodes`, `Printf` and `Paths`, of the composition `Parts` |
| `InductionLemmas` | induction, sums, recursive functions and flattened sequences: lemmas the proofs share |
| `MC...` | instances for TLC |

In each module a definition marked `fault` states what a plausible mistake in
the definition below it would do; no specification uses it.

### Kernel

State and code:

| Variable | Code |
|---|---|
| `ring`, `current` | `ProcessManager::processes_`, `NormalScheduler::current_process_` |
| `state`, `locks`, `pid`, `pidCounter` | `Process::state_`, `ArmProcess::locks_` (a set: `block` pushes an address only if it is not there), `Process::pid_`, the static `pid_counter` |
| `value` | `Semaphore::value_` |
| `pc`, `sem`, `reg` | where each process stands, `r0` and `r1` of `semaphore_wait`/`semaphore_post` (`reg` is also the loaded `pid_counter`) |
| `monitor` | the local exclusive monitor; any exception entry or return clears it |
| `pendsv` | PendSV is pending |
| `cpu` | `"run"`, or a state the kernel cannot leave: `"spin"` (`schedule_next` loops for ever), `"lost"` (`current_process_` is an erased node), `"stale"` (an exited process was dispatched) |
| `holders`, `posted` | history variables: who took a unit, and how often somebody who held none posted |

One core executes, so every action but the two interrupts belongs to
`current`.  A label in `ThreadMode` yields to a pending PendSV; a label in
`InHandler` does not, because SVC has priority 0xfe and PendSV 0xff
(`context_switch.cpp:38-40`); SysTick (0x00) may come anywhere and only clears
the monitor and, once its period is over, pends PendSV.

`semaphore_wait` is four steps: the SVC (`Wait`), `ldrex` and the comparison
(`WaitLoad`), `block()` (`Block`) and `sub`/`strex` (`WaitStore`).  A process
that comes back from `block()` continues at the `strex` with a clobbered
register (`Dispatch` picks it), and the `strex` fails because the monitor is
clear.  `semaphore_post` is `Post`, `PostLoad`, `PostStore`, `PostUnblock`;
`cmp r0, #1; blge unblock` compares the address, so every post unblocks.
`spawn` is `SpawnLoad` and `SpawnStore` (the two halves of `pid_counter++`) and
`SpawnLink` (`emplace_back`).  `Exit` is `delete_process`, which moves
`current_process_` on before it erases, followed by `switch_to_next_task`,
which moves it on again: one Ready process is passed over by each exit.
`ScheduleNext(r, c, k)` says that the k-th successor is the first Ready one, a
loop with one exit; when there is none, `Switch` leaves the core in `"spin"`.

What the clients may do is a parameter.  A process never waits on a semaphore
it holds (it would block itself).  `Signallers` may post what they do not hold,
at most `MaxSignals` times per semaphore.  With `Disciplined` the processes
take semaphores in increasing order and exit holding none, the discipline
without which no kernel of this design can promise that somebody is Ready.

Assumed about the HAL, which the repository does not contain: an `svc` issued
inside the SVC handler (`block()` calls `yield()`, `semaphore.cpp:38`) hands
the core over and returns when the process is dispatched again; exception
entry and return clear the monitor; PendSV is served before the next
thread-mode instruction.

### Semaphores

`Request`, `Take`, `Give`, `Signal` on values, waiting processes and holders,
each atomic, with no scheduler.  `Kernel!Waiting` is the refinement mapping: a
process asks from the SVC until its `strex` succeeds.

### Files and Descriptors

| Variable | Code |
|---|---|
| `files` | `RamFs::files_`, a `std::list` that only grows: an entry's place in it stands for the entry |
| `bits`, `slot` | `Process::fd_map_` and `fd_`; a slot holds a `RamfsFile`: its entry and `position_` |
| `cwd` | `Process::cwd_` |
| `stream` | the `DIR` a process has open: the snapshot that `opendir` took and the last name `readdir` returned |
| `creating` | the process has appended a file and not yet taken it from the end of the list |
| `seen` | history: what was read through each slot |

A path is the sequence of its names and a name a number in lexicographic order
(0 for the empty name that `mkdir("/")` produces: the root's own entry is
called "/", but the path that reaches RamFs is empty).  Normalisation
(`lexically_normal`, `lexically_relative`) belongs to `eul`, which is not in the
repository: paths are given in normal form and RamFs is the only mounted file
system.  Each call is one step, but `RamFs::create`: it appends (`Create`) and
then takes whatever is last (`OpenCreated`), so that two creators can be given
one file, or one of them a directory.  `OpenRead`, `Create` and `OpenOther` are
the three branches of `_open`; the file is appended *before* `AddFile`
looks for a descriptor, and when there is none the file stays.  `Get` takes the
first entry of a name, so a file created a second time cannot be opened by name.
`Respawn` is the end of a process and the start of the next in its place; a
process is born with the terminal in its three descriptors or, where
`/dev/tty` does not open (`process.cpp:37-43`), with null pointers there whose
bits are set (`Born`).
`Size`, `MaxFiles`, `MaxSize`, `Walkers` and `Recreate` only bound the clients.

`Descriptors` has three actions: `Allocate` (the least free descriptor),
`Release`, `Reset`.  The mapping gives each descriptor the file in its slot if
its bit is set.

### Linker

| Variable | Code |
|---|---|
| `modules`, `buffer`, `capacity` | `DynamicLinker::modules_`, a `std::vector`: its elements, the place in the heap where they are, how many fit |
| `stack` | per process the execs inside one another; the innermost is last |
| `resolver` | `get_lot_at` is published at `_kernel_ram_start` (`spawn.cpp:277-280`) |
| `faulted` | `exec` called the data of a file that is no module: a usage fault |

`load_module` takes the address of the element it appends and returns it;
`unload_module` compares such addresses.  An address is a buffer and a position,
and it points at nothing (or at somebody else's element) once the vector has
moved or shrunk.  `Recycled` says whether the heap may give out a place the
table has left.  A load is `ExecModule` (append), `CopyText`, `AllocateLot` and
`Relocate`, so that another process may load between any two; then the program
runs, may exec others (`ExecNative` for a registered application, `ExecNothing`
for what does not exist), and `Finish` unloads it.  A failed load leaves its
entry and returns null, and `exec` then takes the branch for files without the
cookie and calls the file's data: `CallData`.

A module reaches its data through `r9`, the address of its offset table (lot).
Today `call_external` sets `r9` (`Execute`).  The wrappers that ask
`get_lot_at` for it (`CallWrapped`) are what
`docs/source/specification/dynamic_linker.md:43` describes; `generate_wrappers.py`
is not called by the build, and in `wrapped_symbols.s.template` the lookup is
commented out.  The kernel publishes `get_lot_at` all the same, so that the
model has both.

### ModuleImage and SymbolCodes

`ModuleImage` runs one module through the pipeline: the loops of
`generate_binary.py` (`stage` = `"extract"`, `"pack"`) and of the loader
(`"load"`, `"external"`, `"local"`, `"data"`), each iteration a step.  The input
is a symbol table, relocations of the text and of the data, and the symbols the
system provides, in any order.  `image` maps an offset to what starts there;
the loader finds each part by adding up sizes and aligning, as the code does.
The text is linked to 0 and the file stands on a 16-byte boundary, as
`genromfs` puts it; the loader aligns the address in memory and the generator
the offset in the file, and what happens where the two differ is not modelled.
The generator refuses what it cannot translate (`UnknownRelocation`, and
`WriteImage` for a symbol without a code or a second reference to `main`), and
each of the loader's three allocations may fail (`LoadRefused`).

A text that refers to `main` through the table is among the inputs.  The first
such relocation is counted in the offsets to the symbols and not written, so
that the loader finds no symbols where it looks (`CodesAt`), and nothing fills
the entry of `main`.  Relocations of data are applied as the code does it, with
the table read from the wrong place and against the wrong base; the comment
there says that it will be rewritten, and no property demands the right values.
`Write` is `table[index] = address`: an index past the block reaches some word
of another block of the heap, which may be the offset table or the data of the
module itself.

`SymbolCodes` gives out numbers as `generate_api.py` does: those of the api file,
then per generated library a number of its range for each declaration of each
include.  The macro of a library holds the symbols of its last include only,
because it is written once per include; `spawn.cpp` may list any subset of the
macros (`add_curses_symbol_codes()` is commented out at line 180).

### Console

The receive interrupt (`TypeChar`, `TypeErase`, `TypeEnter`) echoes to the screen,
counts what may be erased and pushes to the ring.  `_fgets` and `scanf` take
keys from it one at a time and edit the line a second time in the caller's
buffer (`FgetsKey`, `FgetsErase`, `ScanfKey`, `ScanfErase`).  `screen` and
`prompt` are what the user sees behind and at the end of the last output.
`Output` is any program that writes, the shell with its `> ` among them: what was
typed before it is no longer what an erase takes away, while the interrupt goes
on counting it.  `RawRead` is any other program that reads,
`SetEcho` any program that calls `tcsetattr`.  `events` records what makes
screen and buffer differ: a key lost in a full ring, a key typed while
the echo was off, a key another program took, output behind typed keys (until
Enter, which resets the count).  The ring is `eul`'s
`ring_buffer`; a full one may drop the new key or the oldest.  That `read` blocks
by polling is a guard on a non-empty ring.

### Namespace and Shell

A path is absolute, normal, the sequence of its names.  `MountPoints` looks for
the text of each mount point *anywhere* in the path and takes the longest
found; `OccursIn` does the same on names, with `Extends` for names that begin
with another one.  `Get`, `Create` and `List` go to the file system behind it
with the rest of the path.  `Meaning` is the reference: the mount points a path
goes through, name by name.

`Shell` is one process from the static constructors to a fault or for ever.
`phase` goes through the boot (registrations in any order, mounts of RamFs,
RomFs if the image is valid, DevFs, AppFs), `prompt`, `split` (the splitter,
which writes terminators into the line and keeps its two positions), `search`
(the working directory by `fopen`, then the path by `opendir`/`readdir`),
`exec`, `running`.  A nested shell runs on the stack of the one that started it;
working directory, descriptors and `errno` are shared.  Of the modules, `cd`,
`cat` and `ls` are modelled by what they do to the process and what they
return; `pwd` and any loadable module that waits for nobody may create files and
returns 0 or -1 (`OtherProgram`).  `Interactive` are the programs that wait for
keys nobody has to type, `curses_test` and `simple_game`: they may run for ever
(`InteractiveProgram`).  A module that does not load has its data called by
`exec` and the core faults (`ExecModule`, which chooses; `Linker` has the reasons).
What `ls` prints is not part of the model, only that its listing is what `List`
gives.

### Display, Storage, Numbers

`Display`: a write waits for the bus (`Wait`), copies into the driver's only
buffer (`Copy`), sends six command bytes (`SetHome`) and starts the DMA, which
sends a byte per step.  The controller's cursor and its pending command are
part of the state, so bytes that arrive in a wrong place show.

`Storage`: `init`, `deinit`, and `read`, `write`, `erase` with their range
checks in words of `Word` values.  `Increment` and `Decrement` return true, not
the count, so that every `init` clears the memory, also that of a device which
others use; `stored` is what writes stored and `cleared` the addresses that such
an `init` has cleared since.  An `init` may find no memory (`DeviceInitFails`).  The
update of the count is not atomic either, which no one can notice as nobody
reads it.

`Numbers`: `UsartWriter` turns the digits of a number round in a variable of
the same type and prints that one backwards; the base stays set for the next
number.  `Turned` is that loop, with the type's wrapping round as an argument.

### OpenFiles, Answers, Commands

`OpenFiles` is `Files` seen closer: `RamfsFile::read` takes address and length
(`StartRead`) and copies later (`FinishRead`); a write appends byte by byte
(`PushByte`) to a vector that moves when it is full.  One descriptor writes:
two `push_back`s that run into each other are undefined and not modelled.
`Answers` holds the calls that return a fixed value by class of file (`seek`,
`tell`, `sync`, `ioctl`, `stat`, stubs of file systems and system calls), the
commands of terminals, of which one sets the echo and two do nothing, and the
clock, whose value is cut to the width of `clock_t`.  `Commands` encodes and
decodes `ioctl` words; the widths of the fields are parameters (8, 8, 14 and 2
in the code).

### Contexts

Each of the halves of a register frame is one word: what the exception pushes
(`scratch`), what PendSV pushes (`kept`), and `psp`.  `Compute`, `PushWord`,
`Reserve` and `PopWord` are the program; a program may go below its stack, with or
without overwriting the mark in its last word.  `RestoreContext` may choose
anybody: the choice is the scheduler's (`Kernel`).

### Printf, Heap, Malloc, Paths

`Printf` has one step per percent sign.  Of `%%` and of a conversion it does not
know the code prints nothing, and so does the model; `PrintsText` is about
formats whose conversions are all `%c`, `%s` and `%d` (`ConversionsAreKnown`).

`Heap` takes `_sbrk` apart into its test, its load and its store, which two
processes may interleave; increments are never negative.  `Malloc` has the
wrappers: a block carries its size in front, and the count of memory in use is
loaded (`LoadUsage`) and stored (`StoreUsage`) in two steps with no lock.  The
allocator may answer NULL, which is counted like a block (`WrapMallocNull`), and
NULL may be freed, which subtracts the word in front of address 0
(`WrapFreeNull`).  Whether the core faults on these accesses depends on the
board: if it does, nothing follows.  What newlib's allocator does when two
processes are in it, or with an address it never gave, is not modelled.

`Paths` is the only module with paths as
text: `set_cwd` accepts `PATH_MAX` characters and puts the terminator behind
the array, into a byte that the layout of the object makes padding.
`get_last_part` does what `get_next_part` does; nobody calls it, and the unit
tests call `get_next_part` only.

`Parts` composes these: they share no state, so that interleaving them says no
more than each alone, and `part` chooses one for a whole behaviour.  The state
count of its run is the sum, not the product.

## 3. Runs

| Run | Bounds | Question |
|---|---|---|
| `kernel_safety` | 4 processes of which the root spawns, 2 mutexes | with disciplined clients: no lost wakeup, conservation of units (mutual exclusion for mutexes), the scheduler never spins and `current_process_` never dangles, Blocked processes do not run, `Abstract!Spec` is implemented |
| `kernel_signals` | 3 processes, an empty semaphore and one of value 2, 2 signals on each | `Abstract!Spec` is implemented also for semaphores used as signals and counters by undisciplined clients, which may end with everybody Blocked (so deadlock is not checked) |
| `kernel_liveness` | 3 processes, 1 mutex | every Ready process gets the core; a unit that is available while somebody waits is taken |
| `kernel_two_spawners` | 4 processes, two of which spawn | expected to fail: after an exit the process is still in the list |
| `files_safety` | 2 processes with 2 descriptors (1 at birth), 3 entries, 2 bytes, names may be created twice | descriptors are allocated lowest first and change nothing else; bit map and slots agree; what is read is a prefix of the file whoever writes; a name keeps its file |
| `files_streams` | 1 process, a tree of two levels with 5 entries | each stream returns its names in order, once, and ends |
| `linker_nested` | 1 process, programs 4 deep, 6 entries, 4 buffers that are used again | every program, also one that waits for another, has its own relocated offset table; a return removes its own entry or, when the table has moved, nothing |
| `linker_shared` | 2 processes, 1 program each, 4 entries, 3 buffers | expected to fail: a running program loses its offset table to another process |
| `image_layout` | text of 20 bytes, 3 words of data; 3 functions of the system (2 with a number), 3 symbols of the module and `main`; up to 3 relocations of the text, none or two of the data; every order | what the generator writes the loader reads: every reference reaches its symbol; every module ends loaded or refused, with a reason that it has |
| `console_lines` | 1 reader, 2 characters, ring of 2, buffers of 2 to 4, 5 keys, output at any moment | the line the user sees is the line the program gets; erasing stops at the prompt; Enter ends the call |
| `shell_commands` | a ROM with 8 entries, 2 drivers, 1 application; 31 lines; `argv` of 3, 4 descriptors, 2 shells | what is listed can be opened; the line's words arrive; what runs is what was meant; "not found" is true; commands that wait for nobody end |
| `parts_data` | see below | the properties of the parts |

The runs with `CHECK_DEADLOCK FALSE` describe systems that do stop: everybody
Blocked (`kernel_signals`), a usage fault (`linker_*`, `shell_commands`), the
image loaded or refused (`image_layout`), the bound on keys (`console_lines`),
the end of numbering or a process without a stack pointer (`parts_data`).

### Why these bounds

*Kernel*: two semaphores are needed for a process to hold one and wait for
another, three processes for one to hold, one to be between test and `block()`,
and one to be woken and overtaken; the fourth lets the list lose a node between
others.  The state of a semaphore matters only as zero or positive, so values
up to 2 plus 2 signals cover the comparisons.

*Files*: with two descriptors a table can be full, have its hole below or above,
and two descriptors can share a file; nothing in the code depends on the
numbers 3 and 8.  A stream is a private snapshot, so one reader sees every
interaction with a directory that grows; 5 entries give lists of up to four
names created in every order.  `files_streams` sets `Recreate` to FALSE: nobody
creates a path that exists.  Without it `ReaddirEnds` does not hold: `readdir`
looks for the last name it returned, and of two equal names it always finds the
first, so `while (readdir(d))` does not end.  That is what the code does;
nothing in the repository promises otherwise, so it is a hazard and no finding.

*Linker*: four programs inside one another take the vector through capacities
1, 2 and 4 with the addresses of each size still held; `Recycled` lets an old
address become valid again in the same place.

*Image*: 20 bytes are no multiple of 16, so both alignments add something; two
of three relocations may share a table entry or not.

*Console*: sizes 2 to 4 with 5 keys let a line fill the buffer, be erased back
to nothing and go on; a ring of 2 overflows.

*Shell*: names that begin with a mount point's (`binary`, `romance`), a directory
of RamFs called like one of RomFs, a file created inside `/rom`, blanks in every
place; 3 arguments overflow `argv` and 4 descriptors run out with two shells.

*Parts*: two painters on a 2x2 display; two users of a device of 4 bytes in
8-value words, read and write size 2, erase size 4; all numbers of 6 bits in 4
bases; two descriptors and one writer of up to 3 bytes, which moves the vector at
1, 2 and 3; two processes with stacks of 4 words and one word below; all pairs
of headers with up to two of three names, in two libraries whose ranges
overflow; all formats of up to 4 of 5 characters; two callers of `_sbrk` with
4 bytes of heap; two callers of `malloc` and `free` with two blocks of up to 4
bytes, one of them the size, and counts up to 8, what two such blocks hold;
directories' texts up to one more than fits and all paths of up to 4
characters; commands with fields of 8, 3, 6 and 2 bits (an assumption
of `MCParts` compares encoding and decoding).

### What the properties leave out

Each of these is in the model and not in the property, because no code or
comment promises it:

* `FramesAreWhole`: two writes that both passed the wait for the bus.
* `ReadsContinue`: a read during which the data moved, whose bytes come from
  freed memory.
* `HeapIsOwn`: calls of `_sbrk` that ran into each other, which share memory.
* `UsageIsCounted`: an allocator without memory, a NULL that is freed, two
  updates of the count that overlap; the count is wrong for ever after.
* `OverflowIsCaught`: a process that left out the last word of its stack.
* `PromptStays`, `ScreenShowsLine`: keys typed unseen (a program that
  saves and restores the attributes leaves the echo off, because `tcgetattr`
  gives zeros), lost, or taken by others;
  output behind keys that were typed ahead, as the shell's `> ` can be: the erase
  key then eats the output, because the interrupt counts the keys before it.
* `ReferencesResolve`: a text that refers to `main`, and relocations of the data
  that write behind it.
* `PrintsText`: `%%` and unknown conversions, whose characters vanish.  The comment
  at `printf.hpp:39` gives conversions flags, a width, a precision and a length; the
  code takes the character behind the percent sign for the specifier, so that of
  `%5d` the `d` is printed and the argument is not.
* `NotFoundIsTrue`: a program that returned -1 while `errno` was still ENOENT from
  an earlier call; all descriptors taken by nested shells.  The latter also in
  `RunsWhatWasMeant`.
* `CommandEnds`: `cat` of a device reads for ever; interactive programs wait for
  keys; a fault ends everything; `MaxShells` is the model's bound.
* `PrintsNumbers` is an equivalence: it says for which numbers the digits come
  out wrong, those that do not fit their type when turned round.
* `WritesAreKept`: bytes that an `init` of a device in use cleared and no write
  has filled since.

Inputs the models exclude: ranges whose end wraps round in `std::size_t`, writes
of more than 1024 bytes to the display, images that are not aligned to 16
bytes, negative increments of the heap.

### Fairness

`Kernel` (`Fairness`): weak fairness of PendSV, of a SysTick that pends it, and
of the steps inside the system calls; strong fairness of the successful
`strex`.  SysTick comes once a millisecond and an `ldrex`/`strex` pair takes a
few instructions, so it cannot fall into every pair.  Nothing is assumed about
processes making calls, yielding or exiting.  `ReadyGetsCore` has one proviso:
process objects are not reused in the model, so only finitely many exits
happen; see the hazard on `syscalls.cpp:312`.

`Files` (`FairSpec`): the reader of a stream goes on calling `readdir`.
`Console`: a program that polls the ring gets the core again and again, which
`kernel_liveness` shows of Ready processes; nobody has to type.  `Shell`: the
process is scheduled through boot, parsing, exec and the programs that wait for
nobody; nobody has to type a line or a key.  `ModuleImage`: generator and loader are sequential programs that
run on.

### Findings

`kernel_two_spawners`: `pid_counter++` (`arm_process.cpp:68`) is a load and a
store in thread mode.  Two processes that spawn (the kernel test
`test/st/kernel/process_creation_deletion` has two) may produce equal pids, and
`delete_process(pid)` then erases the first node of that pid.  The process that
called exit stays in the list and is dispatched with the context it was last
preempted with, against the comment at `syscalls.cpp:87`.

`linker_shared`: the table of loaded modules belongs to no process.  When a
second process loads a program, the vector moves or, after an erase, shifts;
the address `unload_module` compares may by then be another program's element.
A running program loses its entry, and the lookup of its offset table, which
the documentation of the dynamic linker describes as how a module finds its
data, no longer finds it.

## 4. Proofs

### KernelProofs

For any finite set of processes, any semaphores with any initial values, any
discipline, and two hypotheses stated in each theorem: at most one process
spawns (`OneSpawner`, needed because of the finding above) and the root does not
return (`RootStays`; `main.cpp:111-114` is an endless loop).

The safety properties are not inductive.  `IInv` adds

* `RingInv`: the list holds exactly the live processes, once each, and contains
  the root and `current_process_`;
* `PidInv`: `pid_counter` is ahead of every pid, also while a spawn is between
  its load, its store and its append;
* `HandlerInv`: only the current process is inside a handler, and as long as the
  monitor is set its register equals the semaphore's value; at `w_block` that
  value is still 0 (this is what closes the window between test and block);
* `LocksInv`, `HolderInv`: a process that is not Blocked has no locks; who waits
  does not hold, who posts holds or may signal.

Each action has a lemma `...Step` that it preserves `IInv`; the ring lemmas
(`RemoveAtProperties`, `EraseElement`, `AppendElement`, `GetNextMoves`,
`SwitchStep`) say what list surgery and scheduling do.  Proved:
`Inductive`, `TypeCorrect`, `NoWakeupIsLost`, `UnitsAreConserved`,
`PidsAreUnique`, `BlockedNeverRuns`, and `KernelImplementsSemaphores`
(`Spec => Abstract!Spec`: only a successful `strex` and the entry of
`semaphore_wait` are visible, all other steps stutter).

Two more theorems have hypotheses of their own.  `SchedulerRuns`
(`SchedulerNeverStops`) needs `Disciplined` and `NoneStartsEmpty`, a semaphore
that starts at 0 being one that nobody need ever post.  `DisciplineInv` says
that a process waits only for a semaphore greater than all it holds.  Were
nobody Ready, everybody in the list, and so the root, would be Blocked; take the
greatest semaphore somebody is Blocked on: it is at 0 (`NoLostWakeup`), so it has
a holder (`Conservation`), who is in the list, Blocked, and waits for a greater
one.  `MutexExcludes`: a semaphore that starts at 1 and that nobody signals has
at most one holder, which is what `Mutex` relies on.

### FilesProofs

For any number of processes, descriptors, paths, files and bytes, and with no
hypothesis but `FilesAssumption`.  Every step lets the files only grow
(`Grows`: entries keep their place and name, data is extended at its end); so
the first entry of a name remains the first (`NamesKept`), and what was the
beginning of a file remains its beginning (`SamePrefix`).  `ReadsArePrefixes` is
not inductive alone: `FInv` adds that bit and slot agree, that a slot's entry
exists and that its position lies inside the file.  `SlotChanged` reduces the
actions that touch the table to the one slot they touch.

`StreamsGoInOrder` has the hypothesis `Recreate = FALSE` that the run
`files_streams` has: who creates a path a second time makes two entries with one
name, and `readdir`, which finds its place by name, goes round between them.
Without it the entries of one directory have different names
(`EntriesStayDifferent`); `RamFs::list` inserts each into a list in order and
keeps it increasing (`InsertKeepsOrder`, `ListsInOrder`), so that a name stands
at one place of the snapshot and what `readdir` finds there is where it stopped
(`NextName`, `StreamStep`).  That the stream *ends* is a liveness property and
stays with TLC.  Proved: `FilesInductive`, `SlotsAgree`, `ReadsFollowTheFile`,
`NamesStay`, `StreamsGoInOrder` and `FilesImplementDescriptors`.

### LinkerProofs

For any depth, any number of entries, areas and buffers, recycled or not, and
for one process: `Alone` is a hypothesis of each theorem, and `linker_shared`
shows that it is needed.  `AInv` adds to the types

* `Published`: `get_lot_at` is published before anything runs;
* `Entries`: every exec of a module owns the entry at its *position*, with its
  text; while it loads, its *address* is right too, as nobody else appends;
* `OuterRun`: all execs but the innermost run a module or an application;
* `InOrder`: positions are in the order of the execs;
* `OwnText`: no two entries share a text.

The lemmas `Removed`, `Popped`, `Pushed` and `PopStep` say what erasing, returning
and entering do to these.  The crux is `InOrder`: a return erases an entry behind
those of all outer execs, so that their positions stay right even when the
vector has moved and their addresses are stale.  A stale address erases nothing,
or, where the heap has given the place out again, its own entry.
Proved: `LinkerInductive`, `OwnTableIsSeen` and
`OwnEntryIsErased`.

### PartsProofs

The theorems are about `PartsSpec`, the specification the run `parts_data` checks
(those of the drivers about `Drivers`), with no hypothesis but the modules' assumptions.

* `FramesReachTheScreen`, `StoredBytesStay` and `NumbersArePrinted`, which are
  theorems of `Drivers`, and
  `PartsImplementDrivers`, by which they hold in the composition.  `DriversInv`
  says that at most one write is past the wait unless two overlapped
  (`OnePast`), that no DMA runs while one is; that the controller has got as far
  through the command as the writer has (`Homing`, `HomeTo`); that the cursor
  stands where the number of bytes sent puts it (`Place`) and everything behind
  it is on the screen (`Painting`); and that a device with users is initialised
  (`StorageInv`).
* `ReadsAreInOrder` (`ReadsContinue`).  `OpenFilesInv`: what a handle has taken is
  the beginning of its file, and a read between its halves holds the address
  and the length of what it may still copy, unless the vector moved meanwhile.
* `ContextsAreOwn`, `OverflowsAreCaught`.  `ContextInv` follows the frames of each
  process through `thread`, exception entry, the two halves of PendSV and back:
  registers are what was left, or stand in the frame at the process's stack
  pointer; the words below it are those left.  For the overflow: whoever has
  come as far down as the mark has overwritten it or stepped over it.
* `HeapIsHandedOutOnce` (`HeapIsOwn`).  `HeapInv`: a call that no other ran into is
  the only call in progress, and the end it works with is the heap's; every
  region given to such a call lies below every end that anybody still uses.
* `UsageIsThatOfBlocks` (`UsageIsCounted`).  `CountIsRight`: without a miscount one
  caller at most is about to store, and what it stores is the total of the
  blocks that are left by then.  The total is a sum over a set; `InductionLemmas`
  says what adding and removing a block does to it.
* `NumbersNameOneSymbol` (`SymbolsAreOwn`).  `CodesInv`: every enumerator was given
  out inside the range of its library, and no number twice.
* `FormatsAreFollowed` (`PrintsText`).  `PrintInv`: the output is what the first `p`
  characters of the format show, and the arguments used are those they ask for.
* `PathsStayWhole` (`PathsAreKept`).  `PathsInv`: the array holds the text kept last
  and its end, behind the array for the longest one; and the names taken off a
  path with those of what is left are the names of the path.  `FirstNameFirst` is
  what this rests on: of any text, the names are its first name, where
  `get_next_part` and `get_last_part` cut it, and the names of what follows.
* `NumbersArePrinted` (`PrintsNumbers`), for types of any number of bits.  The state
  adds little (`WriterInv`: the writer has one of its bases); the proof is about
  the functions.  `ValueIsTurnedRound`: the number that digits stand for has them
  turned round, less the zeros they begin with, by induction over the digits
  (`SequenceInduction`, of a set, as in `InductionLemmas`); `DigitsDiffer`: no two
  numbers have the same digits, by descent; so the digits printed, with the
  zeros counted, are right for one turned number only (`OnlyItsValue`).
  `HeldValue`: what the type makes of the digits, wrapping round at each of them,
  is that number if the type has it, and another one if not.

### ConsoleProofs

For any number of readers, any sizes of buffers and ring, any keys.  `ConsoleInv`
says of each reader that its buffer holds the keys it was given, edited, and
that its counters are the length of that and the room left; and of the
interrupt that the number of characters it may erase is the length of what is
on the screen behind the last output (`CountsWhatIsSeen`, unless keys were typed
unseen or output came behind typed ones), which is the reader's text edited by
the keys in the ring (`ScreenOk`), as long as `events` has nothing that parts the two.  `EditFrom` is a function
recursive over a sequence; that editing by one more key at the end is one more
edit is the lemma everything else uses.  Proved: `ConsoleInductive`,
`LinesAreHeld`, `PromptIsKept`, `ScreenIsTrue`, `LinesAreReturned`.

### ImageProofs

For any symbols, references in any order and number, and any sizes.
`ImageInvs` goes through the pipeline: the symbols met so far have different
names and consecutive indices (`ExtractInv`); the tables written so far hold an
entry per reference, and an entry one symbol, the number of entries being the
external symbols met plus the references to the module's own (`PackInv`); every
part of the file stands where the loader's sums of sizes lead it (`ImageInv`);
and an element of the offset table that has been written has the address of
the symbol its references name, written again only with the same value
(`LoadInv`).  All but the first holds of texts that do not refer to `main`, and the
table survives the relocations of the data if all that are applied write inside
it (`DataWritesInside`): the two provisos of `ReferencesResolve`.  The assumptions say that there is a text (it holds `main`), that
there are finitely many external symbols, and that the value for "nothing is
there" is nothing a file holds.  Proved: `ImageInductive`, `LoadedIsLinked`.

### ShellProofs

For any ROM image (a tree), any drivers and programs, any files that programs
create, any lines and any number of nested shells.  The theorems about searches
have one hypothesis, `NamesAreApart`: no driver and no program of the kernel image
has a name that begins with "rom" or "dev".  `MountPoints` looks for the text of a
mount point anywhere in a path, so that `/bin/devtool` would be looked for among the
devices; the names in `src/` are apart (`usart`, `lcd`, `msos_shell.bin`, ...).  Names
that programs choose need no hypothesis: what RamFs has under a name that hides
behind a mount point was never created there, which is part of the invariant.

* `PlacesAreKept`.  `PlaceInv`: after boot the mounts are one of two lists; RamFs
  holds no path that another file system hides, but the mount points themselves
  (`RamInv`, kept by `CreateKeeps`: a file is created where `get` looks for it); the
  working directory is a directory of one of the three trees (`CanBeIn`).
* `ListedNamesLead` (`ListedIsReachable`).  `WhereItGoes` says which mount point
  wins for a path, `Goes...` what the file system behind it answers, `MeaningIs`
  what it should; `ListedLeads` puts them together for each directory
  (`DirectoriesAre`) and each name its listing shows.
* `LineIsCut`.  `LineInv`: the buffer is the line with a terminator behind each word
  but the last (`Cut`), `argv` has where the words begin, in order, and the rest
  begins behind a blank; `CutOn` is the step of `get_next_part`.  Strings and words
  are counted by a recursive function: `WordsListed` says that any increasing list
  of the positions where words begin gives the words.  On it rests `WordsArrive`
  (`ArgumentsAreWords`), without a hypothesis.
* `RunsTheCommand` (`RunsWhatWasMeant`) and `NotFoundWhereThereIsNone`
  (`NotFoundIsTrue`).  `TargetInv` says what the search has established when it goes
  on to the path.  `fopen`, `readdir` and `exec` find the same because in every
  directory one can be in a name means what `get` finds (`NameMeans`, `JoinMeans`).

### InductionLemmas

The library states induction with an operator as a parameter, which the
provers at hand cannot instantiate.  Here it is stated of a *set*: a set of
naturals that has 0 and every successor has them all (`NaturalInduction`, from
the well-foundedness of `<`).  On it rest `GreatestOfFinite`, that a recursive
function over a finite set or an initial part of the naturals exists and obeys
its equation (`SumsExist`, `Iterates`), sums over finite sets in any order
(`SumsAnyOrder`, `SumOfOneMore`), and what `FlattenSeq` does to one more piece.

### Only model-checked

Every invariant of the passing runs has a theorem.
Everything about fairness and liveness (`ReadyGetsCore`,
`ImplementsFairSemaphores`, `ReaddirEnds`, `LoadsOrSaysWhy`, `EnterEndsLine`,
`CommandEnds`) is out of the prover's reach.

## 5. Not modelled

* *Recycled process objects* (`syscalls.cpp:312`): each exit passes one Ready
  process over, and children that come and go could starve it.  It would need an
  unbounded supply of pids in every state.
* *The links of `std::list`* (`process_manager.hpp:48`): `emplace_back` in thread
  mode may be preempted half way.  The order of its writes is the library's.
* *The HAL and `eul`*: submodules that the repository does not contain.  What is
  assumed of them is stated with each module; that `yield` works inside an SVC
  handler (`semaphore.cpp:38`) is the strongest of these.
* *`__wrap_realloc`* hands the allocator an address it never returned.
* *Execute in place* in the loader, which the kernel never asks for.
* *`Ssd1306File`* outside of `write`, `display(buffer)` and `write(byte)` of the
  driver, `itoa` in `utils/string.hpp`: no callers, or no `stat` to answer.
* *Floats* in `printf`, `fputs`, `pwd`, the games and curses: they print.
* *x86 port and GPIO driver*: stubs; `cppthread_scheduler.cpp` is not compiled and
  `process_manager.cpp` is commented out.
* *Scripts and board support* apart from the two generators, and the site: no
  run-time state.  `generate_wrappers.py` is not called.
* *`nanosleep`*: a delay of the HAL.
