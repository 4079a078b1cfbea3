---------------------------- MODULE Supervision ----------------------------
(***************************************************************************)
(* Who keeps the system up: init in its two phases, getty, the service     *)
(* supervisor horust-lite and the shutdown mailbox between them and the    *)
(* kernel (userland/apps/init.rs, getty.rs, horust-lite.rs; kernel/src/    *)
(* power.rs).                                                              *)
(*                                                                         *)
(* One step is one system call of one process, and any other process may   *)
(* come in between two of them, unless somebody keeps the CPU: who waits   *)
(* for a key spins in the kernel with interrupts off, and while anybody is *)
(* in waitpid the timer preempts nobody.  A process that ends stays in the *)
(* list of processes until its parent waits for it.                        *)
(***************************************************************************)
EXTENDS Naturals, FiniteSets, FiniteSetsExt, Sequences

CONSTANTS
  MaxProcesses,   \* MAX_PROCESSES
  MaxPid,         \* bound on the processes that are ever started
  MaxRequests,    \* bound on the requests to shut down
  Setups          \* the systems that are booted, see Setup

\* There is a PID 1.
ASSUME SupervisionAssumption == MaxPid \in Nat \ {0}

VARIABLES
  procs,      \* the list of processes, by pid
  services,   \* horust: its services, [pid, exited]
  mailbox,    \* SHUTDOWN_MAILBOX
  marker,     \* the file /run/pivoted
  machine,    \* "on" or "off"
  setup,      \* what is on the disk
  holder,     \* who keeps the CPU until a key comes or it yields; 0: nobody
  asked       \* history: requests that were sent

vars == <<procs, services, mailbox, marker, machine, setup, holder, asked>>

Pids == 1 .. MaxPid

\* realRoot: a real root with an init; horust: /etc/init names it; display: display.on;
\* services: the commands of the service files, "" for an empty one.
Setup == [realRoot : BOOLEAN, horust : BOOLEAN, display : BOOLEAN, services : Seq({"run", ""})]

-----------------------------------------------------------------------------
(* Processes.                                                              *)

Nobody == [program |-> "none", parent |-> 0, life |-> "free", at |-> "", child |-> 0]
Born(program, parent, at) ==
  [program |-> program, parent |-> parent, life |-> "alive", at |-> at, child |-> 0]

\* Where a program starts.
EntryOf(program) ==
  CASE program = "init" -> "boot"
    [] program = "getty" -> "prompt"
    [] program = "horust" -> "load"
    [] program \notin {"init", "getty", "horust"} -> "run"

\* snapshot: every slot that is in use, zombies included.
Listed(p) == p # 0 /\ procs[p].life # "free"
Active == {p \in Pids : Listed(p)}
IsAlive(p, program) == procs[p].program = program /\ procs[p].life = "alive"
At(p, program, at) == machine = "on" /\ IsAlive(p, program) /\ procs[p].at = at

NeverUsed == {p \in Pids : procs[p].program = "none"}
CanStart == NeverUsed # {} /\ Cardinality(Active) < MaxProcesses

Go(p, at) == procs' = [procs EXCEPT ![p].at = at]

\* exec of the kernel's process interface: a new process, not a new image.  It may
\* fail for want of the file, of memory or of a slot.
Started(p, program, at) ==
  LET new == Min(NeverUsed)
  IN [procs EXCEPT ![new] = Born(program, p, EntryOf(program)), ![p].at = at]
Exec(p, program, then, otherwise) ==
  \/ CanStart /\ procs' = [Started(p, program, then) EXCEPT ![p].child = Min(NeverUsed)]
  \/ Go(p, otherwise)

Reaped(p) == [procs EXCEPT ![p].life = "free"]
Ended(p) == [procs EXCEPT ![p].life = "zombie"]

-----------------------------------------------------------------------------
(* init.                                                                   *)

Boot(p) ==
  /\ At(p, "init", "boot")
  /\ Go(p, IF ~marker /\ setup.realRoot THEN "pivot" ELSE "supervise")
  /\ UNCHANGED <<services, mailbox, marker, machine, setup, asked>>

PivotRoot(p) ==
  /\ At(p, "init", "pivot")
  /\ \/ marker' = TRUE /\ Go(p, "reexec")
     \/ UNCHANGED marker /\ Go(p, "supervise")
  /\ UNCHANGED <<services, mailbox, machine, setup, asked>>

\* After exec this process only yields.  Mutant: it goes on as if it had failed.
ReexecAndGoOn(p) == At(p, "init", "reexec") /\ Exec(p, "init", "supervise", "supervise")
Reexec(p) == At(p, "init", "reexec") /\ Exec(p, "init", "idle", "supervise")

RunSupervisor(p) ==
  /\ At(p, "init", "supervise")
  /\ \/ setup.horust /\ Exec(p, "horust", "idle", "display")
     \/ ~setup.horust /\ Go(p, "display")

StartDisplay(p) ==
  /\ At(p, "init", "display")
  /\ \/ setup.display /\ Exec(p, "display", "panel", "look")
     \/ ~setup.display /\ Go(p, "look")

\* The panel runs beside the display server, which is the one waited for.
StartPanel(p) ==
  /\ At(p, "init", "panel")
  /\ \/ CanStart /\ procs' = Started(p, "ede-panel", "await")
     \/ Go(p, "await")

WaitForDisplay(p) ==
  /\ At(p, "init", "await") /\ procs[procs[p].child].life = "zombie"
  /\ procs' = [Reaped(procs[p].child) EXCEPT ![p].at = "look", ![p].child = 0]

\* Mutant: as long as the getty is there nothing else is looked at.
LookOnly(p) ==
  At(p, "init", "look") /\ Go(p, IF Listed(procs[p].child) THEN "look" ELSE "launch")
Look(p) ==
  /\ At(p, "init", "look")
  /\ Go(p, IF Listed(procs[p].child) THEN "poll" ELSE "launch")

\* A getty that cannot be started is tried again before the mailbox is looked at.
Launch(p) == At(p, "init", "launch") /\ Exec(p, "getty", "poll", "look")

InitCall(p) ==
  /\ Reexec(p) \/ RunSupervisor(p) \/ StartDisplay(p) \/ StartPanel(p) \/ WaitForDisplay(p)
     \/ Look(p) \/ Launch(p)
  /\ UNCHANGED <<services, mailbox, marker, machine, setup, asked>>

\* take_request, which the kernel grants to PID 1 alone, and which empties the mailbox.
TakeRequest(p) ==
  /\ At(p, "init", "poll")
  /\ Go(p, IF p = 1 /\ mailbox THEN "power" ELSE "look")
  /\ mailbox' = (mailbox /\ p # 1)
  /\ UNCHANGED <<services, marker, machine, setup, asked>>

\* power_off: the disk may refuse the flush, and ACPI may be missing or fail.
PowerOff(p) ==
  /\ At(p, "init", "power")
  /\ machine' \in {"on", "off"}
  /\ Go(p, "look")
  /\ UNCHANGED <<services, mailbox, marker, setup, asked>>

-----------------------------------------------------------------------------
(* getty and the shells.                                                   *)

\* Somebody logs in.
Login(p) == At(p, "getty", "prompt") /\ Exec(p, "shell", "session", "prompt")
EndSession(p) == At(p, "getty", "session") /\ ~Listed(procs[p].child) /\ Go(p, "prompt")

GettyCall(p) ==
  /\ Login(p) \/ EndSession(p)
  /\ UNCHANGED <<services, mailbox, marker, machine, setup, asked>>

\* The shutdown utility, run and collected by a shell of root.
RequestShutdown(p) ==
  /\ At(p, "shell", "run") /\ CanStart /\ asked < MaxRequests
  /\ mailbox' = TRUE /\ asked' = asked + 1
  /\ UNCHANGED <<procs, services, marker, machine, setup>>

-----------------------------------------------------------------------------
(* horust-lite.                                                            *)

NotStarted == {i \in DOMAIN services : services[i].pid = 0 /\ ~services[i].exited}

LoadServices(p) ==
  /\ At(p, "horust", "load")
  /\ services' = [i \in DOMAIN setup.services |-> [pid |-> 0, exited |-> FALSE]]
  /\ procs' = IF setup.services = <<>> THEN Ended(p)
              ELSE [procs EXCEPT ![p].at = "launch", ![p].child = 1]
  /\ UNCHANGED <<mailbox, marker, machine, setup, asked>>

\* launch; child is the number of the service.  An empty command is neither started
\* nor counted as ended.
LaunchService(p) ==
  LET i == procs[p].child
      next == [procs[p] EXCEPT !.child = i + 1,
                               !.at = IF i < Len(services) THEN "launch" ELSE "reap"]
  IN /\ At(p, "horust", "launch")
     /\ \/ /\ setup.services[i] = "run" /\ CanStart
           /\ procs' = [Started(p, "service", "") EXCEPT ![p] = next]
           /\ services' = [services EXCEPT ![i].pid = Min(NeverUsed)]
        \/ /\ setup.services[i] = "run"
           /\ procs' = [procs EXCEPT ![p] = next]
           /\ services' = [services EXCEPT ![i].exited = TRUE]
        \/ /\ setup.services[i] = ""
           /\ procs' = [procs EXCEPT ![p] = next]
           /\ UNCHANGED services
     /\ UNCHANGED <<mailbox, marker, machine, setup, asked>>

DeadChildren(p) == {c \in Pids : procs[c].parent = p /\ procs[c].life = "zombie"}

\* waitpid_nonblocking(-1) until there is none.  Mutant: one look is enough.
ReapOnce(p) ==
  /\ At(p, "horust", "reap") /\ DeadChildren(p) = {}
  /\ Go(p, "check") /\ UNCHANGED services
ReapChild(p) ==
  /\ At(p, "horust", "reap")
  /\ \/ \E c \in DeadChildren(p) :
          /\ procs' = Reaped(c)
          /\ services' = [i \in DOMAIN services |->
                            IF services[i].pid = c THEN [services[i] EXCEPT !.exited = TRUE]
                                                   ELSE services[i]]
     \/ DeadChildren(p) = {} /\ Go(p, "check") /\ UNCHANGED services

CheckServices(p) ==
  /\ At(p, "horust", "check")
  /\ procs' = IF \A i \in DOMAIN services : services[i].exited THEN Ended(p)
              ELSE [procs EXCEPT ![p].at = "reap"]
  /\ UNCHANGED services

HorustCall(p) ==
  \/ LoadServices(p) \/ LaunchService(p)
  \/ /\ ReapChild(p) \/ CheckServices(p)
     /\ UNCHANGED <<mailbox, marker, machine, setup, asked>>

-----------------------------------------------------------------------------
(* The CPU.                                                                *)

\* A process ends, by itself, by a signal or by a fault.
Die(p) ==
  /\ machine = "on" /\ p # 1 /\ procs[p].life = "alive" /\ holder \in {0, p}
  /\ procs' = Ended(p) /\ holder' = 0
  /\ UNCHANGED <<services, mailbox, marker, machine, setup, asked>>

\* A getty reads the console; the other programs may, and may run on without a call.
\* init, horust and a getty with a session yield in every round.
MayKeepCpu(p) ==
  /\ procs[p].life = "alive"
  /\ \/ procs[p].program \notin {"init", "getty", "horust"}
     \/ procs[p].program = "getty" /\ procs[p].at = "prompt"
KeepCpu(p) ==
  /\ machine = "on" /\ holder = 0 /\ MayKeepCpu(p)
  /\ holder' = p
  /\ UNCHANGED <<procs, services, mailbox, marker, machine, setup, asked>>

\* It yields, waits, or is preempted, as the timer does when nobody waits.
GiveCpu ==
  /\ holder # 0
  /\ holder' = 0
  /\ UNCHANGED <<procs, services, mailbox, marker, machine, setup, asked>>

Init ==
  /\ procs = [p \in Pids |-> IF p = 1 THEN Born("init", 0, "boot") ELSE Nobody]
  /\ services = <<>> /\ mailbox = FALSE /\ marker \in BOOLEAN
  /\ machine = "on" /\ setup \in Setups /\ holder = 0 /\ asked = 0

\* What a process does by itself when it has the CPU.
Runs(p) ==
  /\ holder = 0 /\ UNCHANGED holder
  /\ \/ Boot(p) \/ PivotRoot(p) \/ InitCall(p) \/ TakeRequest(p) \/ PowerOff(p)
     \/ EndSession(p) /\ UNCHANGED <<services, mailbox, marker, machine, setup, asked>>
     \/ HorustCall(p)

\* What it does because of somebody at the console.
IsTold(p) == holder = 0 /\ UNCHANGED holder /\ (GettyCall(p) \/ RequestShutdown(p))

Next == GiveCpu \/ \E p \in Pids : Runs(p) \/ IsTold(p) \/ Die(p) \/ KeepCpu(p)

Spec == Init /\ [][Next]_vars

\* The slots take turns: whenever the CPU is given away again and again, every
\* process that can run has its turn again and again.  Nothing is assumed of those
\* that keep it.  One init and one horust at most have something to do.
FairSpec ==
  Spec /\ \A program \in {"init", "horust"} :
            SF_vars(\E p \in Pids : IsAlive(p, program) /\ Runs(p))

-----------------------------------------------------------------------------
(* Properties.                                                             *)

\* However the boot went, at most one getty offers a login.
OneLogin == Cardinality({p \in Pids : IsAlive(p, "getty")}) <= 1

\* What follows is promised only if nobody keeps the CPU for ever; a getty that
\* waits for a key that never comes does.
CpuIsGivenAway == []<>(holder = 0)

\* A service that ended is collected as long as its supervisor lives: the table
\* of processes does not fill up with it.
ServicesAreCollected ==
  CpuIsGivenAway =>
  \A p \in Pids :
    (procs[p].program = "service" /\ procs[p].life = "zombie") ~>
      (procs[p].life = "free" \/ ~(\E h \in Pids : IsAlive(h, "horust")) \/ machine = "off")

\* PID 1 takes a request while it supervises a getty that runs.
RequestsAreTaken ==
  CpuIsGivenAway =>
  ((mailbox /\ procs[1].at \in {"look", "poll", "launch"} /\ Listed(procs[1].child)) ~>
    (~mailbox \/ machine = "off"))
=============================================================================
