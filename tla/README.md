# ImagineOS: a verification development

TLA+ models of the ImagineOS kernel (`src/`), TLC runs over them, and TLAPS
proofs of the properties that matter most. Every definition is translated from
the source; `PROJECT.json` names, for each one, the lines it stands for.

## 1. The system

A hobby x86-64 operating system in Rust (about 24,000 lines): a UEFI bootstrap
loads a compressed kernel; the kernel runs ring-3 programs (init, getty, shell,
display server, utilities) on ONE core. `int 0x80` and all IDT entries are
interrupt gates, so a system call runs to completion with interrupts off; the
PIT (100 Hz) preempts ring 3 only. A read of the console that has no key spins in ring 0
and keeps the CPU until one comes. The unit of interleaving is therefore one
system call, one timer tick, one key or one user-mode fault. Everything else that is
concurrent is a matter of what the processes ask for, in which order, and of
power failures between two sector writes.

### Inventory

| component (source) | state | operations | correct when |
|---|---|---|---|
| Processes (`kernel/src/exec/process.rs`, `abi/syscall.rs`) | 8 slots: pid, parent, active/stopped/zombie, exit status, `waiting_for`, quantum, signals; current slot | fork, spawn, execve, exit, waitpid, kill, sigaction, sigreturn, yield, tick, fault | the CPU runs an eligible process; pids unique; zombies kept until collected; no lost wakeup; signals neither lost nor reordered; everyone served, unless somebody waits for a key |
| Descriptors (`process.rs`, `ipc.rs`) | 24 descriptors per slot; pipe reader/writer counts | open, pipe, dup, dup2, close, fork, spawn, exit | each count equals the descriptors that refer to the pipe end; no use after free; EOF and EPIPE eventually reach the peer |
| Pipes (`ipc.rs`) | 8 rings of 4096 bytes | read, write | a FIFO: bytes delivered once, in order |
| DFS (`fs/dfs.rs`) | superblock, 16-sector journal, 256 inodes, bitmap, data | mount/replay, write, create, remove, truncate | crash-atomic metadata, no sector shared, tree well formed |
| RamFS, VFS (`fs/ramfs.rs`, `fs/vfs.rs`) | archive, overlay nodes and their pool, which backend is the root, the sentinel `/run/pivoted` | every path call, pivot | the overlay reads as it was written; the pivot loses nothing of the disk |
| Installer (`distroinstall.rs`, `fs/installer.rs`, `fs/gpt.rs`) | two partition tables, the ESP, a new DFS | confirm, plan, write, format, seed | regions apart; a refusal writes nothing; an old tree never comes back; what is reported is there |
| Input (`input.rs`, `syscall.rs`) | ring of 128 events, pointer, buttons, capture flag | push, poll, capture, release | order kept, drops only the oldest, the server knows the pointer and the button but for what it was never told |
| Surfaces (`surface.rs`) | slots, event queues by pid | create, present, destroy, send, exit | what a process leaves dies with it |
| Display server and clients (`userland/apps/display`, `ede/panel.rs`) | windows, focus, drag, list of surfaces, what is drawn | rounds of poll, send, sync, compose | the screen shows the windows and which surfaces there are and where; a surface that becomes visible gets drawn |
| Supervision (`init.rs`, `getty.rs`, `horust-lite.rs`, `power.rs`) | who runs which child, shutdown mailbox | spawn, look, reap, pivot, request, power off | one login; dead services collected and a request taken, unless somebody keeps the CPU |
| Shell (`userland/apps/shell`) | variables, working directory, the line being run, its descriptors | lex, parse, expand, run, redirect, pipeline | quoted text arrives; lists are what was typed, and it is known which entries run; the console comes back; pipelines end |
| Kernel log, console, UTF-8, keyboard automaton | rings and automata | write, read | ring keeps the newest; decoder total |
| Boot, ELF, accounts, config, crypto, memory, clock | none, or tables read or edited once | parsing, hashing, page tables | bounds |
| libc, utilities, build tools | per program | stdio, malloc, packing | as their interfaces say |

Components interact by calls inside one system call (no locks): exit of a
process closes its descriptors, which drops pipe references, releases its
surfaces and the display capture, and wakes a parent blocked in `waitpid`.
Waiting is always a retry: `waitpid` and pipe calls return `EAGAIN` and user code
calls again.

### What is hard here

* every path out of the kernel may change the current process (yield, wait, exit,
  stop, tick, fault), and signals are delivered on one of them only;
* pids are reused, zombies keep slots, orphans keep the pid of a dead parent;
* wakeups compare pids; a missed one is a machine that halts;
* the timer's choice depends on what unrelated processes wait for, and a process at its
  prompt keeps everybody else from running;
* pipe reference counts follow copies of whole descriptor tables;
* the disk journal with power failures and I/O errors between its writes, and above
  it calls made of several transactions;
* an overlay whose whiteouts, copies and directories hide parts of an archive;
* supervision from a list of processes that shows the dead;
* a display server that works from a snapshot while clients die and their pids and
  surface slots come back;
* an installation that writes over a living file system, in many writes of which any
  may fail or be the last one before the power goes.

The list with lines is `hazards` in `PROJECT.json`.

## 2. Modules

| module | models |
|---|---|
| `Processes` | process table, scheduler, signals, `waitpid`, timer |
| `Descriptors` | descriptor tables and pipe reference counts over the life and death of processes; refines `Processes` |
| `ProcessesProofs` | the theorems of both, the refinement among them |
| `PipeFifo` | what a pipe promises: a bounded queue |
| `PipeRing` | the ring buffers; refines `PipeFifo` |
| `PipeRingProofs` | its theorems, the refinement among them |
| `Pipeline` | a pipeline of the shell, its stages and their retry loops, over bounded queues |
| `PipelineProofs` | its theorems and those of `Redirections` |
| `Redirections` | redirected builtins and external commands of the shell |
| `ShellWords` | lexer, expansion, variables and paths: pure operators |
| `ShellLine`, `ShellLineMC` | a line from the prompt to the prompt: parser, lists, builtins, status; extends `ShellWords` and `Redirections` |
| `DfsStore` | what the journal of DFS promises: an atomic store |
| `DfsJournal` | the journal over a device with a write cache, with power failures; refines `DfsStore` |
| `DfsJournalProofs` | its theorems, the refinement among them |
| `DfsJournalClaims` | what a document says of committed transactions and the code does not do after an I/O error |
| `DfsTree` | inodes, extents, bitmap and file contents over an atomic store |
| `RamFs` | the archive and its overlay |
| `Vfs`, `VfsMC` | the mount point over both, the pivot, the restart; composes `RamFs` and `DfsTree` |
| `VfsProofs` | the theorems of `DfsTree`, of the overlay and of the composition |
| `Supervision`, `SupervisionMC` | init, getty, horust-lite, the shutdown mailbox |
| `SupervisionProofs` | its theorem |
| `InputQueue` | the ring of input events: operators |
| `Surfaces` | slots and event queues: operators |
| `Desktop`, `DesktopMC` | the display server and its clients over the two; composes them |
| `DesktopProofs` | its theorems |
| `Installer`, `InstallerMC` | the installer, the disk under it, another attempt |
| `InstallerProofs` | its theorems |

`Descriptors` EXTENDS `Processes`; its actions are those of `Processes` with what
the same handlers do to descriptors. `Vfs` extends `DfsTree` and holds an
instance of `RamFs`, the overlay, and `Desktop` drives the two kernel tables it extends. Elsewhere modules rest
on each other through properties instead of a product of state spaces: `PipeRing`
assumes that a call on an end is made by a holder of that end, which is
`CountsAreExact`; `Pipeline` uses the queues `PipeRing` implements and takes an end as
open while some process holds it, which is `CountsAreExact` again; `DfsTree` takes a
transaction as one step, which is `CommitIsAtomic`; `Supervision` and `Desktop` take
pids as unique and zombies as kept, which are `IInv` and `ZombiesAreKept`.

### Processes

`scheduler` is the kernel's `struct Scheduler`: `processes` (a function from slots
to records with the source's field names), `current`, and `halted`, which is true
once `kernel_halt` was reached. Handlers are operators on a scheduler
(`Schedule`, `Exit`, `Deliver`, `Adopt`, ...) named for the functions of
`process.rs`, and an action composes them as the handler does: `YieldCurrent` is
`Deliver(Schedule(scheduler))`, because `dreamcore_syscall_dispatch` delivers
signals after every call and may run `schedule` a second time.

What is abstracted: `signal_frame` is the Boolean `in_handler`; a signal handler
is "default", "ignore" or "handler"; credentials, memory, ELF loading and
argument checking only decide whether a call fails, and a failing call is
`OtherCall`, as is every call of another subsystem, `WNOHANG` included when it
collects nothing. `waiting_for = usize::MAX` is `AnyChild`, a number no pid has.
`signal_actions` of a process can be changed by itself only and `waitpid`'s
pointer is mapped or not (`StatusPointers`, `StacksMapped`).

`reading` is true while the current process waits for a key in the kernel
(`read_character`): `ReadCharacter` begins the wait, `CharacterArrives` or
`InterruptArrives` (Ctrl+C) ends it, and nothing else happens in between, for the loop
spins in ring 0 behind an interrupt gate and the timer ignores ticks in ring 0. A key
that is there already is a wait that ends at once.

### Descriptors

`files` is the pair of `tables` (a descriptor table per slot) and `pipes` (reader
and writer counts per pipe). An entry is `Closed`, `Plain` (console or file: the
same for every property here) or an end of a pipe. The actions are the calls that
change tables (`OpenFile`, `CreatePipe`, `DuplicateDescriptor`,
`DuplicateDescriptorTo`, `CloseDescriptor`, `Fork`, `Spawn`); every other step of a
process is `ProcessStep`. Whatever a step does, `Commit` applies
`release_descriptors` to the processes that left in it (`Exiting`), because exit,
a fault and a fatal signal on the way out of any call all reach `schedule`.
`MaxOpenFds` also stands for `SpawnIo::INHERIT`, a number no descriptor has.
`create_pipe` undoes itself exactly as the code does, closing the ends once with
the descriptors and once more (`RollBack`).

### Pipes

`pipes` of `PipeRing` has the fields of `struct Pipe`. The loops of `read` and
`write` are `Taken` and `Put`, which say where head and tail end up and which
places of the buffer hold which byte of the input. `Fifos` reads a ring from head
on and is the refinement mapping.

### The shell

`Pipeline`: one step per system call of `run_pipeline_processes`,
`child_setup_pipes`, `execve_stage` and of the programs. A program is a filter,
which reads as `read_fd` of the API does, or writes without reading, or does not
exist; it may choose the length of each write and may be killed anywhere. The
bytes a program writes are numbered, so that loss, repetition and reordering show.

`Redirections`: the table of the shell; a command is one step, because nobody else
touches the table, and every call in it may fail.

`ShellWords` reads a line as `lexer.rs` does, character by character, into tokens
whose words are lists of segments (quoted or not), and expands them as `expand.rs`
does, with every limit of the code (tokens, sizes, segments, fields, variables) a
constant. Strings are strings here because quoting is what the properties are about.

`ShellLine` parses the tokens into entries and runs them one by one: `session` is
whether the shell goes on, `entries` and `at` the list and where it is, `ran` a
history of what was run with its status. A step is one entry: a pipeline is one
outcome here (`Pipeline` has its inside), and a single command is the step of
`Redirections` it stands for. Editing the line key by key, the identity at start-up
and the text that builtins print are left out.

### The journal of DFS

`cache` is the disk as `read_sector` gives it and `platter` as a power failure
leaves it: the journal's header, its payload sectors and the sectors outside it
(`homes`). `kernel` is where `commit_transaction` or `replay_journal` is (`pc`), the
transaction it has and the index of its loop. One step is one sector written or one
flush; the end of a replay is the end of a commit, target by target, with
`mounting` set. `WriteBack` lets the device bring any sector of its cache to the
platter at any moment; `PowerFails` may come between any two steps, in a replay too.

The header is `Cleared` or the transaction it describes, because the record holds
the targets and a checksum over targets and data: `Intact` says the checksum
matches, `Journaled` is what `replay_journal` reads. A sector is written whole and
two payloads with one checksum do not occur: both are what the format presumes
(status.md:62, storage.md:30). Targets outside the file system or inside the journal
are refused by `commit` before it writes anything, and are not in `Homes`; a record
with `header[8] = 0` is not written by any version of this code. Once the
file system is mounted nothing is kept in memory but the layout, so a mount starts
from the disk alone.

`DfsStore` is what a caller may rely on: a commit that returned is there, a commit
that a power failure cut off is there as a whole or not at all. The refinement maps
`store` to `Survives`, what a mount would find after a power failure now, and makes
the transaction appear when its record reaches the platter, which may be at the
flush (`FlushHeader`) or before it (`WriteBack`).

### The tree of DFS, the volatile root and the mount point

`DfsTree` has the inodes (`nodes`, each with path, kind, extents and size), the
`bitmap` and the contents of data sectors. `call` is the call that runs and its
phase: a step is one transaction, one write of data or one flush, because each of
those is atomic or cached, and a power failure may come between any two. `held` is
what a file may read as (its last contents and, while a call changes it, what the call
leads to); `lost` the sectors that power failures orphaned. Of a transaction only its effect
is kept: that it also flushes the disk before its record is not counted on, and
`FlushData` is the only flush of data. Names are paths: the
lookup of a name in its directory and the encoding of an inode are abstracted.

`RamFs` has the overlay nodes with their kind (file, directory, opaque, whiteout) and
the pool in which their bytes lie. One step is one system call. `expected` is what
callers know each path to hold; `orphans` are paths below a directory of the archive
that was removed over files with nodes of their own, or replaced by a file: there the
code keeps no whiteout and old contents show again (section 3), so the properties
except them. Modes, the fixed nodes of `/dev` and the search for a font are left out.

`Vfs` routes every call to one of the two, `Pivot` switches at any moment and writes
the sentinel in the calls the code makes (`MarkPivoted`), and `Restart` is a power
failure: the archive is the root again, the disk is as it was.

### Supervision

`procs` is the list of processes as `process::list` shows it: program, parent, alive or
zombie, and `at`, where its main loop is. A step is one system call of one process, so
that a child may die between a look at the list and what is done about it.
`Setups` are the systems that are booted: with a real root or none, a display server,
horust as its supervisor and its services. `Die` may take any process but PID 1 at any time,
and starting one may fail. `holder` is the process that keeps the CPU (`KeepCpu`): a getty
at its prompt, or a shell, a display, a service, which may read the console or run on
without a call while somebody waits and the timer preempts nobody. Until it gives the
CPU away (`GiveCpu`) or ends, no other process takes a step. Passwords, configuration
files and what is printed are left out; the power-off may fail and return (ACPI itself is not modelled).

### Display

`InputQueue` is `input.rs`: moves of the pointer merge into the last event, a full ring
drops its oldest, capture and release clear it. Its `lost` is a history: what the pointer
or the left button did last, if the event that told of it was thrown away or taken by
another process. `Surfaces` is `surface.rs`: slots with owner, visibility and size, the number
of the image their buffer holds, and event queues indexed by pid modulo the number of
processes, which is why an event could reach a process of another pid. `procs` has `born`, a
number no two processes share, only to tell apart two processes with one pid;
`surfaces` notes it beside the owner and the receiver.

In `Desktop` a step is one system call of one process: `PollInput` (what the hardware
delivered is chosen there), `SendEvent`, `Sync` (the snapshot of visible surfaces, the
composition and the end of a round); clients and the exit of any process come in
between. `drawn` is the layout the last composition went by, with the size and the image each
surface had then; `Renewed` is what `sync_external` does to a surface it knows, without
marking the screen dirty. `moved` and `clicked` say whether the server has taken an event of
the pointer, or of the left button, at all. `keeper` is the process that keeps the CPU
(`KeepCpu`, `GiveCpu`); if it waits for a key while the input is captured, each key is passed
on and it waits on (`ReadCharacter`).

One display is followed. The kernel refuses no second one, and a second one is a client
that makes the calls of a display (`DisplayCall`: it takes the console, takes an event
away, sends an event to any surface); what it paints over the screen is not modelled. `z`
and `frame_number` only matter by their order and are renumbered after each round. An
image is a number that only says whether it is the one on the screen; pixels, colours,
text, frames of memory and their mapping are left out.

### Installer

`job` is the call: `pc` is its phase, `placed` the files of the ESP, `result` how it
ended. The disk is a few `Parts`, each the number of the attempt that wrote it, 0 for
what was there before, `Zero`, or `Torn` for a part of many sectors that is half
written; `cache` and `platter` are as in `DfsJournal`. Sizes and limits are the true
ones of the code, so that alignment, the FAT and the DFS are computed as they are
there. `WritePart` writes one part or fails, in the order of the code; `Mount` is what
the next start would find (`read_primary`, `find_partition`, `mount_dfs`). `tree` is
the new file system, filled by `Create` and `Fill` entry by entry (`Script`). The
bytes of headers, tables, directories and checksums are abstracted, and a payload that
is missing is one of size 0, which the code refuses the same way.

## 3. Runs

| run | asks | bounds |
|---|---|---|
| `waitpid` | halts, zombies, fairness of the timer | 3 slots, pids up to 5, SIGSTOP, two exit codes, good and bad pointers, 2-tick slices |
| `signals` | delivery, stops, wakeups | 2 slots, 4 signals x 3 dispositions, mapped and unmapped stacks |
| `descriptors` | exact counts, undoing a pipe call, final EOF, every way a process ends closes its descriptors | 2 slots, 1 pipe, tables of 3 entries of which one standard, SIGINT with each disposition |
| `pipe_ring` | the ring is the bounded queue | ring of 3 bytes, transfers up to 4, two byte values, counts up to 2 |
| `pipeline` | EOF, EPIPE, loss, termination | 3 stages, pipes and buffers of 2 bytes, output up to 3 |
| `shell` | quoting, parsing, which entries of a list run, console | lines of up to 3 special characters, chains of 3 commands, 18 longer lines, 19 lines at a limit or past it; two lines a session; a table of 7 entries |
| `dfs_journal` | a commit is atomic and durable, a mount never refuses, a record is replayed | 3 sectors of 2 contents, transactions of 1 to 3 sectors |
| `root` | overlay and disk read as written, one owner per sector, whole tree | 4 paths in the archive's tree, 3 overlay nodes, a pool of 5 bytes; 2 inodes, 3 sectors, 2 extents |
| `boot` | one login, services collected, requests taken | 6 systems, 5 slots, pids up to 9, 2 requests |
| `display` | nothing outlives its process; what the server knows of pointer and button; the screen between two rounds; a surface that becomes visible gets drawn | 2 windows, 2 slots for surfaces of 2 sizes, 3 processes on 2 event queues, a ring of 2 events, 4 keys, reports and calls of clients together |
| `install` | regions, refusals, old trees, durability | disks of 7 sizes, 4 payloads, images of 0 to 4 entries, 4 histories, 2 attempts |
| `claim_repeated` | a claim of a document, refuted: a committed transaction is repeated | 2 sectors, transactions of up to 2 |

Three slots are the smallest table with a parent, a child and a bystander (or a
grandchild); five pids reuse the two highest. Two processes and four signals give
one signal of each kind the delivery loop tells apart: unmaskable and fatal
(KILL), unmaskable and stopping (STOP), resuming (CONT), terminating (INT). A
slice of two ticks has a tick that counts and a tick that switches.
`CHECK_DEADLOCK FALSE` where processes run: `kernel_halt` is a real stop, and the
property `HaltIsExplained` says when it may be reached; a pipeline stops when the
shell is done.

Two processes are enough for descriptors: the fork, the spawn and every count
involve a pair at most, and a slot is reused within the run. Tables of three
entries with one standard descriptor leave two free ones, so `pipe` meets tables
with two, one and no free entry; with one pipe, dup2 meets the same end and the
opposite end of the same pipe (a second pipe, with SIGKILL only, was checked once:
the counts of two pipes do not touch). A ring of three bytes with transfers of up to four
has every case of wrap, short read and short write; two pipes (checked once, 193,409
states) add nothing because the calls touch one ring. Three stages have a first, a
middle and a last one; an output longer than a pipe and than a filter's buffer
reaches full pipes and filters that stop before the end of their input.

Transactions of three sectors have a first, a middle and a last one, and each of
1 to 3 leaves sectors of the journal or of the store untouched; two transactions in
a row (the store is not blank at the second) meet every pair of payloads. The
commits of the code have an inode (`store_node`), or the sectors of the bitmap that
a run spans with or without an inode (`reserve_run`, `release_run`).

Lines of three characters meet every pair of neighbours among those the lexer tells
apart (quotes, escapes, operators, the comment sign, blanks); chains of three have
every pair of connectors after success and failure. Nineteen lines lie at a limit of the
parser or the lexer, or just past it. For entries, stages and words `ListIsParsed` says
exactly which lines are refused; for tokens, characters of a word, segments and fields the
lines are run and the result is not judged. In `root` one file of the archive in a directory, and a
directory made anew with a name that begins with a dot, meet copy-up, whiteouts,
opaque directories and both listings; a pool of five bytes is full after a copy and a
rewrite. Two inodes and three sectors fragment a file into its two extents. In `boot`
nine pids let each program of a system die and be started again, and five slots let a
start fail because the table is full; `display` gives
one event queue to two processes, one after the other, and a pid to a new process once it is
free; four keys, reports and calls are a press, a movement and a release and one more (a report
may move the mouse and change the button), over a ring that loses the oldest of three; or a
slot that is created, shown, freed by an exit, taken and shown again with the other size.
(The two invariants of the mouse and the screen were checked once with four keys or reports
besides two calls, over one slot and two processes: 2,087,150 states.)
The disks of `install` lie on both sides of the size that is refused and of the
alignment; the payloads on both sides of the last cluster; an older system is of the
same layout, has a pending record, or a larger partition.

Fairness. The kernel gives the CPU away in three ways: a call that yields, waits or ends,
the end of a process, and the timer. The timer takes it only from ring 3, only while
nobody is in `waitpid` (process.rs:660-676), and a read of the console without a key spins in
ring 0 behind an interrupt gate (syscall.rs:1758-1809, idt.rs:366-370): until the key comes
nobody else runs. So no fairness of a single process is assumed anywhere but in
`Pipeline`, and each liveness property names what it needs:

* `Processes`: weak fairness of `TimerTick`, which is disabled during a read, and strong
  fairness only where from some time on every tick counts: the PIT is periodic, a
  tick that comes during a call is taken when the call returns to ring 3. Processes may
  loop for ever without a call, and nothing is assumed of keys. `PreemptionServesAll`
  therefore presumes that no read waits for ever, that `waitpid` is left for
  good and that there are finitely many `execve` (each restarts the quantum).
* `Pipeline`: weak fairness of the shell and of each stage: all their waits are yields,
  `schedule` goes round robin over the table, and the programs do nothing but make
  calls on pipes. It has none of a stage's death.
* `Supervision`: strong fairness of what init and horust do by themselves (`Runs`), which
  is possible only while nobody keeps the CPU; `ServicesAreCollected` and
  `RequestsAreTaken` are stated under `CpuIsGivenAway`, that the CPU is given away again and
  again. Then the round robin of `schedule` reaches every process that can run. Nobody
  has to log in, to die or to ask for anything, and nothing says that the premise
  holds: a getty at its prompt with nobody at the keyboard refutes it.
* `Desktop`: the same for the steps of the server, written out: if the CPU is given away again
  and again while a display lives, the display takes steps again and again.
  `SurfacesGetDrawn` is stated under the same premise.

Each property of a passing run has a mutant in `PROJECT.json`: a definition
changed the way a plausible bug would (`ScheduleOrStay`, `AtEndEarly`, ...), under
which the run fails.

### Findings

The run `claim_repeated` ends with a counterexample to storage.md:29-30: an I/O error after
the commit record was written leaves the record; the next commit overwrites its
payload, and after a power failure the mount refuses the file system.

Four more disagreements were followed to a counterexample while the models were made; the
properties of the passing runs are stated so that they say what the code does instead.

* The comment at syscall.rs:1806-1807 has interrupts on while `read_character` spins, so that
  the timer can preempt it. `int 0x80` is an interrupt gate, and ticks in ring 0 are ignored
  (process.rs:660-665): PID 1 starts a process and reads the console, no key comes,
  and the other process, eligible all the time, never runs. `PreemptionServesAll`
  presumes that reads end.
* parser.rs:66-69 says that what follows `&&` needs a success and what follows `||` a
  failure. Skipping stops at the entry that ends a chain instead of behind it
  (exec.rs:824-832): `false && a` runs `a`, and so does `true || a`.
  `ListRunsByConnectors` says exactly which entries the code runs.
* surface.rs:8-11 has the server take flushed ids, and display/main.rs:9 has it compose
  everything in every frame. Nobody takes the ids, and `sync_external` renews a surface it
  knows without marking the screen dirty (compositor.rs:328-336): a flushed image, the
  panel's clock among them, is shown only when something else is; so is the surface of
  another client that took the slot between two rounds, with its own size.
  `ScreenIsCurrent` is about which surfaces there are and where, `SurfacesGetDrawn` about
  those that are new to the display.
* syscall.rs:312-313 says that the display draws the cursor where the pointer is without
  having followed each movement. It starts at (32, 32) (compositor.rs:143) and never asks
  for the position: until the first movement it takes, or the next after a lost one,
  the cursor is elsewhere. `MouseIsTracked` names both.

Further disagreements show in the actions of the modules and have no run of their own.
Paths of documents are below `src/documentation/`.

Processes and descriptors:

* `waitpid` for any child is never woken: exit looks for waiters by the pid of the
  child (process.rs:945-951) and this one has `usize::MAX` (:1384-1386).
  `HaltIsExplained` has to name it.
* `waitpid` with a bad status pointer blocks its caller on a dead child although
  process.rs:1448 promises EFAULT (`WaitpidBlock`).
* execve replaces the record of a process and with it its pending signals, although
  syscall-abi.md:136 keeps them until the next call (`ExecveCurrent`).
* the timer preempts although README.md:69 and status.md:57 call scheduling
  cooperative; a slice is not restarted on a voluntary switch although process.rs:162
  counts it from the last switch; one blocked waiter switches preemption off for
  everybody, although process.rs:642 says a tick switches when another process is
  runnable (`PreemptionServesAll` has to assume that waiting ends).
* spawn with `INHERIT` gives the child the console, not its parent's descriptor
  (process.rs:1097 against :1483).
* `read_fd` takes bytes off a pipe before it finds that it cannot copy them
  (syscall.rs:1538).
* README.md:66, status.md:64, architecture.md:83, commands.md:109, userspace.md:206
  and syscall-abi.md:97 say that pipes, pipelines and redirections do not exist.

Shell:

* a redirected builtin leaves the file of its redirection open (exec.rs:190 says the
  temporary copies are closed; those opened at :139 and :166 are not), until the table
  is full; an external command inherits them.
* an unquoted segment makes the quoted text in the same word split (expand.rs:7-9);
  three segments are refused although lexer.rs:22 says they are combined; an escaped
  `\$X` beside another `$Y` in double quotes is expanded; `$$` is empty.
* a trailing `;`, `&&` or `||` is accepted; `&` waits; a builtin in a pipeline is
  joined again without its quotes and cut at 64 bytes; a refused line leaves `$?`.
* a program whose pipe is full ends with status 1 although ipc.rs:9-12 says it tries
  again (`WriteOutput`).

Supervision: `process::list` shows zombies, and nobody waits for getty or, in getty,
for the shell. A getty that ends is a zombie in the list; init looks for its pid, finds
it and takes it for a running one (init.rs:117); so does getty with its shell
(getty.rs:93-105). Neither is ever replaced, against testing.md:70-71, boot-flow.md:47
and commands.md:42. After the pivot init's second phase is a child, because
`SYS_EXEC` spawns; PID 1 then yields for ever and no longer takes requests
(init.rs:38-40): `RequestsAreTaken` holds only while PID 1 supervises. An empty
command never counts as exited in horust, and a failed power-off loses its request.

Files:

* a directory of the archive with only dot files in it is removed without `-r`; a
  recursive removal leaves children that have overlay nodes readable; a file created
  where a directory was removed replaces the whiteout, and the archive shows again.
* a file cannot be written in place once less than its capacity is left in the pool,
  though its own space would do.
* storage.md:48, status.md:63, commands.md:111 and userspace.md:235 name a limit of
  4 KiB that `write_at` does not have.
* `pivot_root_to` is said to refuse a second pivot and does not look; the sentinel of
  the previous boot is still there at the next.
* writing a file truncates it first: a power failure in between leaves it empty
  (dfs.rs:1010); a removal that is cut off leaves sectors reserved for nobody
  (dfs.rs:484). `ReadsAreExplained` and `NothingLeaks` say how far this goes.

Display: the capture is released by the exit of any process, not of its owner
(process.rs:935-944); a click picks windows by index and surfaces by age though they
are drawn in another order (compositor.rs:513); ties in `z` leave a clicked window
behind (:535); a second display server is not refused, and the two take each other's
events (main.rs:38-56); a release of the button that is lost, in a full queue or to another
display, leaves a window on the pointer until the next press and release; a dragged window
is not redrawn until it is dropped; `destroy` does not unmap (surface.rs:229); the
keyboard's `poll_char` eats bytes of the mouse (keyboard.rs:53-56).

Installer: a disk that passes the check of sizes but whose DFS partition has no room
for the image is refused only after it was rewritten, though a test is named
`refuses_a_disk_too_small_before_writing` (`RefusalLeavesTheDisk` is about the early
refusals); `etc/hostname` is written over a longer one of the archive without cutting
it; an image without `/home` fails at the last step; between the clearing of the
superblock and the flush of `format` a power failure may leave the old superblock over
cleared inodes, which mounts (`FormattedIsNew` starts after that flush).

## 4. Proofs

`ProcessesProofs` proves, for every number of slots, quantum, pid bound and set of
signals and inputs (the assumptions `SizeAssumption` and `InputAssumption`), that
`IInv` is inductive, and from it the invariants of the runs. `IInv` is `Sound`:
the type; per record `WellFormed` (a free slot is `Process::EMPTY`, a zombie is
neither stopped nor waiting, parents are older than children, waiters older than
their targets, no KILL pending on a stopped process); per pair, distinct pids, and
for every waiter a child with the pid it waits for (alive, unless bad status
pointers are among the inputs); and for the CPU, that the current process is
eligible or, once halted, that nobody is. The conjuncts need one another: that a
new pid is fresh needs free slots to be empty; that a wakeup is not lost needs
pids to be unique and a zombie to be freed by its parent only, who cannot be
waiting while it runs.

The proof follows the handlers: `ScheduleSound`, `ExitSound`, `DeliverSound`,
`AdoptSound`, `ReapSound`, `BlockSound`, `SignalSound` say that each handler keeps
`Sound`, and `NextSound` composes them, one step per action.

`ProcessesProofs` proves three action properties. `ZombiesAreKept` follows from the same
invariant, again one lemma per handler. `SignalsHaveEffect` and `StoppedAreResumed` need
one more invariant, `UnmaskableAreDefault` (nobody changes the disposition of KILL and
STOP; a handler of theirs would nest). A step is cut where the call ends and
`deliver_pending_signal` begins: `Prepared` says that the call lost nothing pending,
`Delivers` that the delivery touched the running process only and that what it took is
all it had up to the rank it acted on (`TakenHaveEffect`); `PreparedIsSafe` puts the two
together. Theorems without a run property of their own are
`IInv`, that pids are unique, that waiters are older than their targets, that a kill
reaches the stopped and, below, `RingsCoherent`, `DeadHoldNoPipe` and that a mount sees
the store: what the runs check fails when they do.

Its second part proves that `Descriptors` refines `Processes` (every step is a
step of it or leaves it alone), which brings `IInv` over, and then that
`FInv == IInv /\ Sane(files) /\ DeadHoldNoPipe` is inductive. `Sane` is the type
and, for every pipe, that its counts are the cardinalities of the sets of
`<<slot, fd>>` that hold its ends and that a pipe is open exactly while one of them
is positive. A step changes one or two entries, or copies or clears a whole table,
and a lemma for each says what the cardinalities become; that a released slot is
released once needs `DeadHoldNoPipe`, and that only the leaving process is released
needs the soundness of the scheduler. `EndsStayClosed` follows because an end is
added only by a holder of the same end or to a pipe that was reset.

`PipelineProofs` proves the safety of a pipeline for any number of stages, any capacity
of a pipe and buffer of a filter, and programs that write what they like
(`PipelineAssumption`). `IInv` is the type; `ShellIsSound` (while it creates and forks,
the shell holds both ends of every pipe there is); `StageIsSound` (a live stage keeps the
ends it uses, whatever it has closed of the others); and for each pipe `PipeIsSound`: as
long as its reader is still to read, input and queue together are what the writer sent.
End of file needs the first two: a queue without a writer means that neither the shell
nor the stage before holds its write end, so that stage has ended. EPIPE needs the
first: a pipe without a reader has a reader that is gone or that no fork will bring.

Its second part proves `ShellKeepsConsole` and `CommandSeesItsFiles` of
`RedirectionsSpec`, whose steps are the ones `ShellLine` takes to run a builtin or an
external command, for a table of any size above two (`RedirectionAssumption`).
`RedirectionsInv` is the type of the table with both. The shell's 0, 1 and 2 are the
console before a command, and whatever a call takes is a free entry above 2
(`RedirectedIs`, `OpenedForIs`); so the copy that is moved aside is not overwritten by
the second redirection, and the installed files are not by the first. What a builtin
leaves open (section 3) takes entries for ever, and the invariant holds of what is left.

`PipeRingProofs` proves that `RInv == PipesTypeOK /\ RingsCoherent` is inductive and
that every step of the ring is a step of `PipeFifo` under `Fifos`. TLAPS has no
theory of `%` with a variable modulus, so the argument rests on `RemainderUnique`
and `PlaceWraps` (one addition wraps at most once), from which `TakenFront` (a read
takes a prefix of the queue) and `PutFront` (a write appends) follow place by place.

`DfsJournalProofs` proves that `JInv` is inductive and that every step is a step of
`DfsStore` or none, for any number of sectors, contents and size of the journal
(`JournalAssumption`). `JInv` has one conjunct per phase: `AtRest` (nothing is in the
cache only, and a record on the platter is intact), `IsRecording` (both headers are
cleared and the payload written so far is in the cache), `IsPublishing` (payload on
the platter, record in the cache and perhaps on the platter), `IsApplying` (the
record stays on both until every target is on the platter). That a mount never
refuses needs the payload on the platter before the record can be; that nothing
shows while targets are written is `ApplyingUnseen`: redoing the record does not
depend on the sectors it covers (`RedoneAgrees`) and is nothing once they are in
place (`RedoneInPlace`). Nothing is assumed of the order in which the device writes
back. What is proved excludes I/O errors, with which it does not hold (the run `claim_repeated`).

`VfsProofs` proves that the mount point implements the file system of its disk
(`RootUsesTheDisk`: pivot, sentinel and restart are calls and power failures of
`DfsTree`, or nothing) and then, for any disk, table of inodes and set of paths
(`TreeAssumption`, `SentinelAssumption`), that `IInv` is inductive and gives the four
properties. None of them is inductive alone. `NodesAreSound`: extents follow each other,
do not meet, reach to the size, are reserved and belong to one inode. `Whole`: every
path has its parent, which a removal keeps because it takes `Lowest`, something below
which there is nothing (`LowestIsLeaf`). `SpaceIsAccounted`: the sectors reserved for nobody are those lost and
those of the extents that the call still gives back, each once; hence a release frees
no sector of a file. `CallIsSound` says, phase by phase, what the running call knows:
that its copy of the inode is the one on the disk, that the cache holds its data in the
file's own sectors, that before the size is stored the data are safe. `DiskIsExplained`:
the disk alone, without the cache, reads as one of the contents held for the file, which
is why a power failure changes nothing (`Arrived`, `ReadDuringWrite`, `ReadAfterWrite`).
The sum of the extents' lengths is a fold of the community modules; what it computes is
shown by a smallest counterexample (`LeastOf`, from `WFMin`), where an induction rule
would take an operator as its parameter.

Its second part proves of the overlay that it reads as it was written
(`OverlayReadsWhatWasWritten`) and lists what is there (`OverlayListingsAreTrue`),
through every call, pivot and restart, for any archive, pool and number of nodes, and any
set of paths closed under parents (`OverlayAssumption`; the largest write fits into a
file and into the pool). `OverlayInv` was first checked by TLC, besides
`root`, on two archives with deeper paths (7,823 and 37,705 states). Its parts need one
another: that files lie apart in the used part of the pool (`PoolIsShared`), so that a
write changes no other file; that each node lies in a directory of the table or of the
archive (`Rooted`), so that what appears or vanishes with a node is below it; that a path
which exists without its directory is one of `orphans` (`StrayAreKnown`), so that the
exceptions are only those of section 3; and that every other path reads as expected
(`Believed`). Missing parents are made by a fold, again followed to the smallest number
at which it could fail; a read may be cut at any offset into two.

`DesktopProofs` proves `TheDeadLeaveNothing` for every screen, number of surfaces,
length of queue and number of processes. `DInv` is the type of `births` and
`Tidy(surfaces, procs)`: `Shape` (the types of both), `Owned` (a taken slot belongs to a
client that lives and is the one that took it) and `Addressed` (so does every event,
on the line of its receiver's pid). Release at exit clears slots and the line
(`ReleaseTidies`); a new process takes a pid above all that are in the table, which has
left nothing (`StartTidies`, `CollectTidies`); what clients and the server write
concerns one slot or one line (`SlotTidies`, `LineTidies`).

It also proves `MouseIsTracked` and `ScreenIsCurrent`, for any capacity of the input
queue (above zero: `InputQueueAssumption`), any screen and at least one window
(`DesktopAssumption`); both inductive invariants were first checked by TLC. `MouseInv` relates what the server knows to events it has not taken
yet: for the pointer and for the button, the last event that speaks of it says what the
kernel holds (`EndsWith`), whoever else took or dropped events; and where no event in the
queue speaks of it and none was thrown away last (`lost`), the server knows it (`Silent`,
`Knows`), from its own start values until it has taken a first event of the topic (`moved`,
`clicked`). `DragsHeld` adds that a drag goes on only while the server takes the button to
be down. An event that is appended, that replaces the last movement, or that is taken
changes this in one way each (`AppendEnds`, `ReplaceEnds`, `TailEnds`); a queue that loses
events keeps ending with the truth (`RequeuedIsSound`), which is all a server that starts needs
(`Honest`, `FreshIsInformed`). So what is excused is one topic, after its last event was
thrown away or before its first, until its next one.

`ScreenInv` says that without the dirty flag which surfaces there are and where
(`Placed`), and the whole outline of the screen unless a window is dragged, are what was
drawn (`Drawn`), without either flag the cursor too, and that nothing is left to show when
a round begins (`AtRest`). Sizes and images are left out of it, because the code does not keep
them current (section 3). That a round in which no surface is gone or new leaves the
list as it was, whatever the slots hold by now, is `InOrderOfAll` and `KeptStays`. Every
handler is described by the fields it may change (`Differs`), so that each proof looks
only at those; that the small numbers of `NextFrame` keep the order of the windows is
`RanksKeepOrder`, from cardinalities of finite sets.

`InstallerProofs` proves `RegionsAreApart`, `RefusalLeavesTheDisk` and
`FormattedIsNew` for every size of disk, payload and image, any number of attempts and
any order of write-back. `SInv` is `Typed`, `PlanIsSound` (files are placed one behind
the other, below what the FAT has entries for), `Untouched` (an early refusal comes
before the first write of its attempt) and `DiskIsSound`: what each phase has written is
in the cache, what it has flushed on the platter, and nothing has the number of an
attempt to come. The phases are numbered (`Order`), so that one lemma says for all
writes that what is written later is not there yet (`WriteOrder`).

`InstalledSurvives` needs a second invariant, `Survives`, which TLC first checked on all
states of `install`. `TablesAreSound`: what a phase has written of the tables, the boot
files and the superblock stays as it is until the end of the attempt. `TreeIsSound` follows
the archive: `Nodes` (a path has one node, a directory is whole, and no file stands where a
directory is still to come) and `Progress` (every entry before the one at hand is kept, with
its data, within the partition). An entry keeps what is there unless its path is taken
again, so that the argument rests on `ImageAssumption`: in an image a path is of one kind,
`etc` and the home of the user are directories, and a directory carries no data. Without
it the theorem is false: the installer passes over `AlreadyExists` for a directory,
whatever stands at its path (dfs.rs:271). The image is a tar of a tree (build/ramfs.mk),
where a path is of one kind. The sectors in use are a fold over the nodes in an order
that is not specified; that it adds in any order is `SumInAnyOrder` and `SumsAgree`,
again by a smallest counterexample.

`SupervisionProofs` proves `OneLogin` for every limit on the processes and any systems
that are booted. `LoginInv` was first checked by TLC on all states of `boot`. It says that
PID 1 is idle once there is another init, of which there is one, born with the marker set
(`OneInit`); and that every getty that lives is the `child` of an init that looks after it,
not of one about to launch another (`GettyIsWatched`). Only a few steps touch this:
the decision to pivot, the pivot, the exec of the second init, and the launch of a getty;
for all others it is enough that they start no init and no getty and send no init
to another of these places (`Harmless`). An init may die: its getty then stays, and nobody
launches a second.

Model-checked only: liveness
(`PreemptionServesAll`, `PipelineEnds`, `ServicesAreCollected`, `RequestsAreTaken`,
`SurfacesGetDrawn`; TLAPS 1.4.5 does not reason about ENABLED), and the shell's line
(`QuotedTextArrives`, `ListIsParsed`, `ListRunsByConnectors`:
`ShellWords` has RECURSIVE operators over the characters of a line, which take the
prover's SMT backend away).

## 5. Plan

Done: processes, descriptors and pipes with their refinements; the shell; the journal,
the tree, the volatile root, the mount point; supervision; the display; the installer;
and, for all of these but the shell's line, the proofs of their safety.

Left, in this order:

1. I/O errors in `DfsTree`, as `DfsJournalClaims` has them for the journal.
2. Pure algorithms checked against references: UTF-8 decoder, kernel log ring, keyboard
   automaton, ELF bounds, libc stdio and malloc, dzImage.

### Not modelled

Memory, clock, console, drivers, accounts and cryptography, the ELF loader, kernel
entry, the UEFI bootstrap, the C library and the tools: straight-line code on hardware
tables, parsers and automata that run alone. They have no interleaving and keep no
state that another component reads while it changes; `components` in `PROJECT.json`
gives the reason for each. The kernel log is a ring written and read with interrupts
off.

Not planned: drawing and themes, port I/O, ACPI parsing, page-table layout,
compiler and build files (layout or hardware, no protocol to check).
