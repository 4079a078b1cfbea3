----------------------------- MODULE Processes -----------------------------
(***************************************************************************)
(* The process table, the scheduler, signals and waitpid of the kernel     *)
(* (kernel/src/exec/process.rs), driven by the system-call dispatcher      *)
(* (kernel/src/abi/syscall.rs), the PIT interrupt (timer.rs) and the       *)
(* exception handler (idt.rs).                                             *)
(*                                                                         *)
(* There is one CPU.  `int 0x80` and every IDT entry are interrupt gates,  *)
(* so a system call, a timer tick that finds the CPU in ring 3 and a       *)
(* user-mode exception each run to completion: one action apiece.  What    *)
(* interleaves is the running process's next request, chosen freely, and   *)
(* the timer.  A call that fails before it touches the table, and a call   *)
(* of another subsystem, is OtherCall: pending signals are still delivered *)
(* on its way out.                                                         *)
(***************************************************************************)
EXTENDS Naturals, FiniteSets, FiniteSetsExt

CONSTANTS
  MaxProcesses,      \* MAX_PROCESSES, the slots of the scheduler
  TimerQuantumTicks, \* TIMER_QUANTUM_TICKS, ticks of a time slice
  PidLimit,          \* bound: the largest pid a run hands out
  Signals,           \* the signals a run sends, among those of the ABI
  Statuses,          \* the exit codes processes pass to exit
  Wanted,            \* first argument of waitpid; 0 stands for every pid <= 0
  StatusPointers,    \* is the waitpid status pointer mapped (or null)?
  StacksMapped       \* is the user stack a handler needs mapped?

\* The priority next_pending_signal gives each signal of the ABI.
Rank == [KILL |-> 1, STOP |-> 2, CONT |-> 3, HUP |-> 4, INT |-> 5, SEGV |-> 6,
         TERM |-> 7]

ASSUME SizeAssumption ==
  /\ MaxProcesses \in Nat \ {0}
  /\ TimerQuantumTicks \in Nat \ {0}
  /\ PidLimit \in Nat \ {0}
ASSUME InputAssumption ==
  /\ Signals \subseteq DOMAIN Rank
  /\ Statuses \subseteq Nat
  /\ Wanted \subseteq 0 .. PidLimit
  /\ StatusPointers \subseteq BOOLEAN
  /\ StacksMapped \subseteq BOOLEAN /\ StacksMapped # {}

VARIABLE scheduler   \* struct Scheduler, whether kernel_halt was reached, and
                     \* whether the running process is inside read_character

vars == scheduler

Slots == 0 .. MaxProcesses - 1
Pids == 1 .. PidLimit
NotWaiting == 0
AnyChild == PidLimit + 1     \* usize::MAX, never the pid of a process
Unmaskable == {"KILL", "STOP"}
Terminating == {"HUP", "INT", "SEGV", "TERM"}   \* is_terminating_signal
Dispositions == {"default", "ignore", "handler"}

Process ==
  [pid : 0 .. PidLimit, active : BOOLEAN, stopped : BOOLEAN,
   parent : 0 .. PidLimit, zombie : BOOLEAN, exit_status : Statuses \cup {0},
   waiting_for : 0 .. AnyChild, quantum : 0 .. TimerQuantumTicks - 1,
   pending_signals : SUBSET Signals,
   signal_actions : [Signals -> Dispositions],
   in_handler : BOOLEAN]     \* signal_frame.is_some()

DefaultActions == [q \in Signals |-> "default"]

\* Process::EMPTY.
Empty ==
  [pid |-> 0, active |-> FALSE, stopped |-> FALSE, parent |-> 0,
   zombie |-> FALSE, exit_status |-> 0, waiting_for |-> NotWaiting,
   quantum |-> 0, pending_signals |-> {}, signal_actions |-> DefaultActions,
   in_handler |-> FALSE]

\* A process as load_elf and fork build it.
NewProcess(pid, parent, actions) ==
  [Empty EXCEPT !.pid = pid, !.active = TRUE, !.parent = parent,
                !.signal_actions = actions]

-----------------------------------------------------------------------------
(* Operators on a scheduler k: the functions of process.rs.                *)

Running(k) == k.processes[k.current]

Eligible(p) ==
  p.active /\ ~p.stopped /\ ~p.zombie /\ p.waiting_for = NotWaiting

SetRunning(k, p) == [k EXCEPT !.processes[k.current] = p]

\* Mutant: the loop stops one slot early and never comes back to the current one.
DistancesToOthers(k) ==
  {d \in 1 .. MaxProcesses - 1 :
     Eligible(k.processes[(k.current + d) % MaxProcesses])}

\* The slot loop of schedule: the nearest eligible slot after the current one,
\* the current one last; kernel_halt when there is none.
Distances(k) ==
  {d \in 1 .. MaxProcesses :
     Eligible(k.processes[(k.current + d) % MaxProcesses])}

\* Mutants of schedule: it returns to the current process when it finds no
\* other; it searches from slot 0 instead of the slot after the current one.
ScheduleOrStay(k) ==
  IF Distances(k) = {}
  THEN k
  ELSE [k EXCEPT !.current = (k.current + Min(Distances(k))) % MaxProcesses]
ScheduleLowest(k) ==
  IF Distances(k) = {}
  THEN [k EXCEPT !.halted = TRUE]
  ELSE [k EXCEPT !.current = Min({s \in Slots : Eligible(k.processes[s])})]

Schedule(k) ==
  IF Distances(k) = {}
  THEN [k EXCEPT !.halted = TRUE]
  ELSE [k EXCEPT !.current = (k.current + Min(Distances(k))) % MaxProcesses]

\* schedule(frame, true): the running process becomes a zombie and whoever
\* waits for exactly its pid may run again.
Zombie(p) ==
  [p EXCEPT !.zombie = TRUE, !.stopped = FALSE, !.waiting_for = NotWaiting]
Woken(p) == [p EXCEPT !.waiting_for = NotWaiting]

\* Mutant: exit wakes nobody.
BuriedSilently(k) ==
  [k.processes EXCEPT ![k.current] = Zombie(@)]

Buried(k) ==
  [s \in Slots |->
     LET p == k.processes[s] IN
     IF s = k.current THEN Zombie(p)
     ELSE IF p.waiting_for = Running(k).pid THEN Woken(p)
     ELSE p]

Exit(k) == Schedule([k EXCEPT !.processes = Buried(k)])

\* Mutant: handlers nest.
DeliverableInHandler(p) ==
  {q \in p.pending_signals :
     \/ q \in Unmaskable
     \/ p.signal_actions[q] = "handler"
     \/ p.signal_actions[q] = "default" /\ q \in Terminating}

\* The pending signals that delivery to p acts on; the others are dropped
\* (ignored, or harmless by default) or, inside a handler, left pending.
Deliverable(p) ==
  {q \in p.pending_signals :
     \/ q \in Unmaskable
     \/ /\ ~p.in_handler
        /\ \/ p.signal_actions[q] = "handler"
           \/ p.signal_actions[q] = "default" /\ q \in Terminating}

MostUrgent(S) == CHOOSE q \in S : \A r \in S : Rank[q] <= Rank[r]

\* deliver_pending_signal, for the process that is about to return to ring 3.
\* Its loop consumes pending signals in rank order up to the first one that
\* has an effect.
Deliver(k, stackMapped) ==
  LET me == Running(k)
      q == MostUrgent(Deliverable(me))
      taken == [me EXCEPT !.pending_signals = {r \in @ : Rank[r] > Rank[q]}]
  IN CASE k.halted -> k
       [] ~k.halted /\ Deliverable(me) = {} ->
            IF me.in_handler THEN k
            ELSE SetRunning(k, [me EXCEPT !.pending_signals = {}])
       [] ~k.halted /\ Deliverable(me) # {} ->
            IF q = "STOP"
            THEN Schedule(SetRunning(k, [taken EXCEPT !.stopped = TRUE]))
            ELSE IF me.signal_actions[q] = "handler" /\ stackMapped
                 THEN SetRunning(k, [taken EXCEPT !.in_handler = TRUE])
                 ELSE Exit(SetRunning(k, taken))

AnyWaiting(k) ==
  \E s \in Slots :
     k.processes[s].active /\ k.processes[s].waiting_for # NotWaiting

\* The slot and the pid of a new process (fork_current, spawn_current_with_io).
\* Mutant: a zombie's slot is taken for free.
FreeOrDeadSlots(k) ==
  {s \in Slots : ~k.processes[s].active \/ k.processes[s].zombie}
FreeSlots(k) == {s \in Slots : ~k.processes[s].active}
NextPid(k) == Max({k.processes[s].pid : s \in Slots}) + 1

Adopt(k, actions) ==
  [k EXCEPT !.processes[Min(FreeSlots(k))] =
     NewProcess(NextPid(k), Running(k).pid, actions)]

\* The children waitpid(wanted) is about.
Children(k, wanted) ==
  {s \in Slots : /\ k.processes[s].active
                 /\ k.processes[s].parent = Running(k).pid
                 /\ wanted > 0 => k.processes[s].pid = wanted}

Dead(k, S) == {s \in S : k.processes[s].zombie}

-----------------------------------------------------------------------------
Init ==
  scheduler =
    [processes |-> [s \in Slots |-> IF s = 0 THEN NewProcess(1, 0, DefaultActions)
                                    ELSE Empty],
     current |-> 0,
     halted |-> FALSE,
     reading |-> FALSE]

\* The way out of every system call (dreamcore_syscall_dispatch).
ReturnFrom(k) == \E m \in StacksMapped : scheduler' = Deliver(k, m)

Alive == ~scheduler.halted

\* Nothing but a key goes on while the kernel waits for one in ring 0.
InUserMode == Alive /\ ~scheduler.reading
Me == Running(scheduler)

\* A call that leaves the process table alone, failures included.
OtherCall == InUserMode /\ ReturnFrom(scheduler)

YieldCurrent == InUserMode /\ ReturnFrom(Schedule(scheduler))

ExitCurrent ==
  /\ InUserMode
  /\ \E status \in Statuses :
       ReturnFrom(Exit(SetRunning(scheduler, [Me EXCEPT !.exit_status = status])))

\* A user-mode exception; this path delivers no signal to the next process.
TerminateFaultingProcess == InUserMode /\ scheduler' = Exit(scheduler)

CanCreate == FreeSlots(scheduler) # {} /\ NextPid(scheduler) <= PidLimit

\* fork keeps the parent running; spawn gives the CPU away.
ForkCurrent ==
  /\ InUserMode /\ CanCreate
  /\ ReturnFrom(Adopt(scheduler, Me.signal_actions))

SpawnCurrentWithIo ==
  /\ InUserMode /\ CanCreate
  /\ ReturnFrom(Schedule(Adopt(scheduler, DefaultActions)))

\* execve keeps pid, parent and signal actions and starts from a fresh record.
ExecveCurrent ==
  /\ InUserMode
  /\ ReturnFrom(SetRunning(scheduler,
                           NewProcess(Me.pid, Me.parent, Me.signal_actions)))

\* waitpid finds a dead child and can write its status: the slot is freed.
WaitpidReap ==
  /\ InUserMode /\ TRUE \in StatusPointers
  /\ \E wanted \in Wanted :
       LET dead == Dead(scheduler, Children(scheduler, wanted)) IN
       /\ dead # {}
       /\ ReturnFrom([scheduler EXCEPT !.processes[Min(dead)] = Empty])

\* waitpid without WNOHANG has children but collects none: the caller is
\* marked as waiting, gives the CPU away and will see EAGAIN.
WaitpidBlock ==
  /\ InUserMode
  /\ \E wanted \in Wanted, mapped \in StatusPointers :
       LET children == Children(scheduler, wanted) IN
       /\ children # {}
       /\ Dead(scheduler, children) = {} \/ ~mapped
       /\ ReturnFrom(Schedule(SetRunning(scheduler,
            [Me EXCEPT !.waiting_for = IF wanted > 0 THEN wanted ELSE AnyChild])))

\* What send_signal does to its target.  Mutant: every signal wakes a stopped
\* process.
SignalledAwake(p, q) ==
  [p EXCEPT !.pending_signals = @ \cup {q}, !.stopped = FALSE]
Signalled(p, q) ==
  [p EXCEPT !.pending_signals = @ \cup {q},
            !.stopped = @ /\ q \notin {"CONT", "KILL"}]

\* send_signal to a process the caller may signal; PID 1 is protected.
SendSignal ==
  /\ InUserMode
  /\ \E s \in Slots, q \in Signals :
       LET target == scheduler.processes[s] IN
       /\ target.active /\ target.pid # 1
       /\ ReturnFrom([scheduler EXCEPT !.processes[s] = Signalled(target, q)])

SetSignalAction ==
  /\ InUserMode
  /\ \E q \in Signals \ Unmaskable, handler \in Dispositions :
       ReturnFrom(SetRunning(scheduler, [Me EXCEPT !.signal_actions[q] = handler]))

\* sigreturn inside a handler.
RestoreSignalContext ==
  /\ InUserMode /\ Me.in_handler
  /\ ReturnFrom(SetRunning(scheduler, [Me EXCEPT !.in_handler = FALSE]))

\* read_character spins in the kernel until there is a key.  It was entered
\* through an interrupt gate, so IF = 0; and a tick in ring 0 would be ignored.
ReadCharacter ==
  InUserMode /\ scheduler' = [scheduler EXCEPT !.reading = TRUE]

\* A key, or a character of the serial line.
CharacterArrives ==
  /\ Alive /\ scheduler.reading
  /\ ReturnFrom([scheduler EXCEPT !.reading = FALSE])

\* Ctrl+C is a signal to whoever reads, PID 1 excepted.
InterruptArrives ==
  /\ Alive /\ scheduler.reading /\ "INT" \in Signals /\ Me.pid # 1
  /\ ReturnFrom([SetRunning(scheduler, Signalled(Me, "INT")) EXCEPT !.reading = FALSE])

\* A tick counts if nobody is in waitpid and another process could run.
TickCounts(k) ==
  ~AnyWaiting(k) /\ \E s \in Slots \ {k.current} : Eligible(k.processes[s])

\* A tick in ring 3 that counts; in every other case the handler returns the
\* interrupted frame.  This path delivers no signal.
TimerTick ==
  /\ InUserMode /\ TickCounts(scheduler)
  /\ scheduler' =
       IF Me.quantum + 1 < TimerQuantumTicks
       THEN SetRunning(scheduler, [Me EXCEPT !.quantum = @ + 1])
       ELSE Schedule(SetRunning(scheduler, [Me EXCEPT !.quantum = 0]))

Syscall ==
  \/ OtherCall \/ YieldCurrent \/ ExitCurrent
  \/ ForkCurrent \/ SpawnCurrentWithIo \/ ExecveCurrent
  \/ WaitpidReap \/ WaitpidBlock
  \/ SendSignal \/ SetSignalAction \/ RestoreSignalContext
  \/ ReadCharacter \/ CharacterArrives \/ InterruptArrives

Next == Syscall \/ TerminateFaultingProcess \/ TimerTick

Spec == Init /\ [][Next]_vars

\* The PIT is periodic.  A tick that comes while a call runs is latched and taken
\* when the call returns to ring 3, so calls cannot keep ticks away for ever; a
\* call that does not return, such as a read without a key, can.  Ticks may miss
\* the moments at which one would count, so that is assumed only where every tick
\* counts from some point on.
\* Nothing is assumed of the processes: they may loop for ever without a call.
FairSpec ==
  /\ Spec
  /\ WF_vars(TimerTick)
  /\ <>[]TickCounts(scheduler) => SF_vars(TimerTick)

-----------------------------------------------------------------------------
(* The inductive invariant, on any scheduler k.                            *)

Scheduler ==
  [processes : [Slots -> Process], current : Slots, halted : BOOLEAN, reading : BOOLEAN]

\* What one record of the table satisfies.
WellFormed(p) ==
  /\ ~p.active => p = Empty
  /\ p.active => p.pid # 0 /\ p.parent < p.pid
  /\ p.zombie => p.active /\ ~p.stopped /\ p.waiting_for = NotWaiting
  /\ p.waiting_for # NotWaiting => p.pid < p.waiting_for
  /\ p.stopped => "KILL" \notin p.pending_signals

\* c is the child p waits for; only a call whose status pointer is not mapped
\* waits for a dead one.
IsAwaitedBy(c, p) ==
  /\ c.active /\ c.pid = p.waiting_for /\ c.parent = p.pid
  /\ FALSE \in StatusPointers \/ ~c.zombie

\* What the records satisfy together.
SoundTable(ps) ==
  /\ \A s \in Slots : WellFormed(ps[s])
  /\ \A s, t \in Slots :
       ps[s].active /\ ps[t].active /\ ps[s].pid = ps[t].pid => s = t
  /\ \A s \in Slots :
       ps[s].waiting_for \in Pids => \E t \in Slots : IsAwaitedBy(ps[t], ps[s])

\* What the CPU runs: an eligible process, or nothing when there is none.
SoundCpu(k) ==
  /\ ~k.halted => Eligible(Running(k))
  /\ k.halted => \A s \in Slots : ~Eligible(k.processes[s])

Sound(k) == k \in Scheduler /\ SoundTable(k.processes) /\ SoundCpu(k)

-----------------------------------------------------------------------------
(* Properties.                                                             *)

\* The scheduler's record has the fields and ranges of struct Scheduler.
TypeOK == scheduler \in Scheduler

\* The invariant the proofs use: every handler leaves the table and the CPU
\* sound, whatever the interleaving of calls, ticks, faults and signals.
IInv == Sound(scheduler)

\* schedule, fork, spawn and signal delivery never leave the CPU on a slot that
\* is free, stopped, a zombie or blocked in waitpid: after every interrupt and
\* system call the current process is one the scheduler would choose.
CurrentIsEligible == Alive => Eligible(Me)

\* The pid fork and spawn hand out (largest pid in the table plus one) is
\* never that of another process, zombies included, although pids are reused.
PidsAreUnique ==
  \A s, t \in Slots :
    /\ scheduler.processes[s].active /\ scheduler.processes[t].active
    /\ scheduler.processes[s].pid = scheduler.processes[t].pid
    => s = t

\* A parent is older than its child even after pids were reused, so a process
\* blocked in waitpid(pid) waits for a larger pid: no cycle of waiters exists.
WaitersAreOlder ==
  \A s \in Slots :
    LET p == scheduler.processes[s] IN
    p.active => /\ p.parent < p.pid
                /\ p.waiting_for # NotWaiting => p.pid < p.waiting_for

\* No lost wakeup of waitpid(pid): whoever is blocked for one pid has a child
\* with that pid that is still to terminate, and so will be woken by its exit.
\* It needs a mapped status pointer.
WaitTargetIsLive ==
  (FALSE \notin StatusPointers) =>
  \A s \in Slots :
    LET p == scheduler.processes[s] IN
    p.waiting_for \in Pids =>
      \E t \in Slots :
        LET c == scheduler.processes[t] IN
        c.active /\ ~c.zombie /\ c.pid = p.waiting_for /\ c.parent = p.pid

\* kernel_halt is reached with a live process left only if one is stopped, one
\* waits for any child, or one was blocked on a child already dead.
HaltIsExplained ==
  scheduler.halted =>
    \/ \A s \in Slots : LET p == scheduler.processes[s] IN p.active => p.zombie
    \/ \E s \in Slots :
         LET p == scheduler.processes[s] IN
         \/ p.stopped
         \/ p.waiting_for = AnyChild
         \/ /\ p.waiting_for \in Pids
            /\ \E t \in Slots : /\ scheduler.processes[t].zombie
                               /\ scheduler.processes[t].pid = p.waiting_for

\* SIGKILL cannot be parked behind SIGSTOP: send_signal wakes the target and
\* delivery takes KILL first, so no stopped process has a KILL pending.
KillReachesTheStopped ==
  \A s \in Slots : LET p == scheduler.processes[s] IN
                   p.stopped => "KILL" \notin p.pending_signals

\* Until its parent collects it a zombie keeps its identity and exit code, and
\* its slot is freed only by a call of that parent.
ZombieIsKept ==
  \A s \in Slots :
    LET p == scheduler.processes[s]
        q == scheduler'.processes[s]
    IN p.zombie =>
         \/ /\ q.zombie /\ q.active
            /\ <<q.pid, q.parent, q.exit_status>> = <<p.pid, p.parent, p.exit_status>>
         \/ q = Empty /\ Me.pid = p.parent
ZombiesAreKept == [][ZombieIsKept]_vars

\* Apart from execve, a pending signal leaves the table only with an effect: it
\* ends the process, stops it, enters its handler (one handler at a time), or
\* is one the process ignores or that does nothing by default.  The priorities
\* and the no-nesting rule of deliver_pending_signal lose none.
SignalHasEffect ==
  ~ExecveCurrent =>
  \A s \in Slots :
    LET p == scheduler.processes[s]
        q == scheduler'.processes[s]
    IN \A sig \in p.pending_signals \ q.pending_signals :
         \/ q.zombie \/ ~q.active
         \/ sig = "STOP" /\ q.stopped
         \/ sig = "CONT" /\ q.signal_actions[sig] = "default"
         \/ sig \notin Unmaskable /\ q.signal_actions[sig] = "ignore"
         \/ /\ q.signal_actions[sig] = "handler"
            /\ q.in_handler /\ (p.in_handler => RestoreSignalContext)
            /\ \A other \in p.pending_signals \ {sig} :
                 q.signal_actions[other] = "handler" => other \in q.pending_signals
SignalsHaveEffect == [][SignalHasEffect]_vars

\* A stopped process leaves that state only because of a CONT or a KILL sent to
\* it; it never executes, exits or is collected in between.
StoppedIsResumed ==
  \A s \in Slots :
    LET p == scheduler.processes[s]
        q == scheduler'.processes[s]
    IN p.stopped /\ ~q.stopped =>
         /\ {"CONT", "KILL"} \cap q.pending_signals # {}
         /\ Me.pid # p.pid
         /\ q.pid = p.pid
StoppedAreResumed == [][StoppedIsResumed]_vars

\* Round robin under the timer: once nobody is blocked in waitpid for good, and
\* if every read of the console gets its key, a process that stays eligible gets
\* the CPU again and again, whatever the other processes do, loops without system
\* calls included.  A read that waits for ever would keep everybody else from running,
\* although a comment of read_character has the timer preempt it.  execve is excepted: it restarts the time slice of its caller.
EveryEligibleIsServed ==
  \A s \in Slots :
    []<>(scheduler.current = s \/ ~Eligible(scheduler.processes[s]))
PreemptionServesAll ==
  /\ <>[]~AnyWaiting(scheduler) /\ <>[][~ExecveCurrent]_vars
  /\ []<>~scheduler.reading
  => EveryEligibleIsServed
=============================================================================
