-------------------------- MODULE ProcessesProofs --------------------------
(***************************************************************************)
(* Theorems about Processes, for every number of slots, every pid bound,   *)
(* every quantum and every set of inputs; then about Descriptors, which    *)
(* refines it: the counts of the pipes are exact and the dead hold no      *)
(* descriptor, for every number of slots, entries and pipes.               *)
(***************************************************************************)
EXTENDS Descriptors, FiniteSetTheorems, WellFoundedInduction, TLAPS

\* A non-empty set of naturals has a least element, and Min of FiniteSetsExt
\* chooses it (the first slot, the nearest candidate).
LEMMA MinOfNaturals ==
  ASSUME NEW S \in SUBSET Nat, S # {}
  PROVE  Min(S) \in S /\ \A x \in S : Min(S) <= x
<1>1. PICK m \in S : \A x \in S : <<x, m>> \notin OpToRel(<, Nat)
  BY WFMin, NatLessThanWellFounded, Zenon
<1>2. \A x \in S : ~(x < m)
  BY <1>1, Zenon DEF OpToRel
<1>3. \A x \in S : m <= x
  BY <1>2
<1> QED BY <1>3 DEF Min

\* A bounded non-empty set of naturals has a greatest element, and Max of
\* FiniteSetsExt chooses it (the pid before the next one).
LEMMA MaxOfBounded ==
  ASSUME NEW n \in Nat, NEW S \in SUBSET (0 .. n), S # {}
  PROVE  Max(S) \in S /\ \A x \in S : x <= Max(S)
<1> DEFINE Gaps == {n - x : x \in S}
<1>1. Gaps \in SUBSET Nat /\ Gaps # {}
  <2>1. \A x \in S : n - x \in Nat
    OBVIOUS
  <2> QED BY <2>1
<1>2. Min(Gaps) \in Gaps /\ \A g \in Gaps : Min(Gaps) <= g
  BY <1>1, MinOfNaturals
<1>3. PICK m \in S : Min(Gaps) = n - m
  BY <1>2
<1>4. ASSUME NEW x \in S PROVE x <= m
  <2>1. n - x \in Gaps
    OBVIOUS
  <2>2. n - m <= n - x
    BY <1>2, <1>3, <2>1
  <2>3. x \in Nat /\ m \in Nat
    OBVIOUS
  <2> QED BY <2>2, <2>3
<1> QED BY <1>4 DEF Max

-----------------------------------------------------------------------------
(* The invariant, on any scheduler k: what a single record satisfies, what *)
(* records satisfy together, and what the CPU runs.                        *)

LEMMA ConstantFacts ==
  /\ Empty \in Process
  /\ AnyChild \in Nat /\ AnyChild \notin Pids
  /\ Slots # {} /\ 0 \in Slots
  /\ Slots \subseteq Nat
BY SizeAssumption, InputAssumption
   DEF Empty, Process, DefaultActions, Dispositions, NotWaiting, AnyChild, Pids, Slots

\* The slot arithmetic of schedule stays in the table and reaches every slot.
LEMMA SlotArithmetic ==
  /\ \A c \in Slots, d \in 1 .. MaxProcesses : (c + d) % MaxProcesses \in Slots
  /\ \A c, s \in Slots :
       \E d \in 1 .. MaxProcesses : (c + d) % MaxProcesses = s
<1>1. \A x \in Slots :
        x % MaxProcesses = x /\ (x + MaxProcesses) % MaxProcesses = x
  BY SizeAssumption DEF Slots
<1>2. ASSUME NEW c \in Slots, NEW d \in 1 .. MaxProcesses
      PROVE  (c + d) % MaxProcesses \in Slots
  BY SizeAssumption DEF Slots
<1>3. ASSUME NEW c \in Slots, NEW s \in Slots
      PROVE  \E d \in 1 .. MaxProcesses : (c + d) % MaxProcesses = s
  <2>1. CASE c < s
    <3>1. s - c \in 1 .. MaxProcesses /\ c + (s - c) = s
      BY <2>1, SizeAssumption DEF Slots
    <3> QED BY <1>1, <3>1
  <2>2. CASE s <= c
    <3>1. /\ s - c + MaxProcesses \in 1 .. MaxProcesses
          /\ c + (s - c + MaxProcesses) = s + MaxProcesses
      BY <2>2, SizeAssumption DEF Slots
    <3> QED BY <1>1, <3>1
  <2> QED BY <2>1, <2>2, SizeAssumption DEF Slots
<1> QED BY <1>2, <1>3

\* schedule changes only which slot runs, and leaves the CPU sound.
LEMMA ScheduleSound ==
  ASSUME NEW k \in Scheduler, SoundTable(k.processes), ~k.halted
  PROVE  Sound(Schedule(k)) /\ Schedule(k).processes = k.processes
<1>1. Distances(k) \subseteq 1 .. MaxProcesses
  BY DEF Distances
<1>2. CASE Distances(k) = {}
  <2>1. ASSUME NEW s \in Slots PROVE ~Eligible(k.processes[s])
    <3>1. PICK d \in 1 .. MaxProcesses : (k.current + d) % MaxProcesses = s
      BY SlotArithmetic DEF Scheduler
    <3> QED BY <1>2, <3>1 DEF Distances
  <2>2. Schedule(k) = [k EXCEPT !.halted = TRUE]
    BY <1>2 DEF Schedule
  <2> QED BY <2>1, <2>2 DEF Sound, SoundCpu, Scheduler
<1>3. CASE Distances(k) # {}
  <2> DEFINE d == Min(Distances(k))
             next == (k.current + d) % MaxProcesses
  <2>1. d \in Distances(k)
    BY <1>1, <1>3, MinOfNaturals
  <2>2. next \in Slots /\ Eligible(k.processes[next])
    BY <2>1, SlotArithmetic DEF Distances, Scheduler
  <2>3. Schedule(k) = [k EXCEPT !.current = next]
    BY <1>3 DEF Schedule
  <2> HIDE DEF next
  <2> QED BY <2>2, <2>3 DEF Sound, SoundCpu, Scheduler, Running
<1> QED BY <1>2, <1>3

\* A record may change anything but its identity and its zombie mark, as long as
\* it stays well formed and waits, if at all, for an awaited child.
LEMMA UpdateSound ==
  ASSUME NEW ps \in [Slots -> Process], SoundTable(ps),
         NEW i \in Slots, ps[i].active,
         NEW p \in Process, WellFormed(p),
         p.pid = ps[i].pid, p.parent = ps[i].parent,
         p.active = ps[i].active, p.zombie = ps[i].zombie,
         p.waiting_for \in Pids => \E t \in Slots : IsAwaitedBy(ps[t], p)
  PROVE  [ps EXCEPT ![i] = p] \in [Slots -> Process]
         /\ SoundTable([ps EXCEPT ![i] = p])
<1> DEFINE qs == [ps EXCEPT ![i] = p]
<1>1. qs \in [Slots -> Process] /\ qs[i] = p
      /\ \A s \in Slots : s # i => qs[s] = ps[s]
  OBVIOUS
<1>2. \A s \in Slots : /\ qs[s].pid = ps[s].pid /\ qs[s].parent = ps[s].parent
                       /\ qs[s].active = ps[s].active
                       /\ qs[s].zombie = ps[s].zombie
  BY <1>1
<1>3. \A s \in Slots : WellFormed(qs[s])
  BY <1>1 DEF SoundTable
<1>4. \A s, t \in Slots :
        qs[s].active /\ qs[t].active /\ qs[s].pid = qs[t].pid => s = t
  BY <1>2 DEF SoundTable
<1>5. ASSUME NEW s \in Slots, qs[s].waiting_for \in Pids
      PROVE  \E t \in Slots : IsAwaitedBy(qs[t], qs[s])
  <2>1. \E t \in Slots : IsAwaitedBy(ps[t], qs[s])
    BY <1>1, <1>5 DEF SoundTable
  <2> QED BY <1>2, <2>1 DEF IsAwaitedBy
<1> HIDE DEF qs
<1>6. SoundTable(qs)
  BY <1>3, <1>4, <1>5 DEF SoundTable
<1> QED BY <1>1, <1>6 DEF qs

\* SetRunning stays a scheduler and touches only the running record.
LEMMA SetRunningType ==
  ASSUME NEW k \in Scheduler, NEW p \in Process
  PROVE  /\ SetRunning(k, p) \in Scheduler
         /\ SetRunning(k, p).processes = [k.processes EXCEPT ![k.current] = p]
         /\ SetRunning(k, p).current = k.current
         /\ SetRunning(k, p).halted = k.halted
         /\ Running(SetRunning(k, p)) = p
         /\ Running(k) = k.processes[k.current] /\ Running(k) \in Process
BY DEF SetRunning, Scheduler, Running

\* A running process that keeps its identity and waits for nobody.
SameProcess(p, q) ==
  /\ q \in Process /\ WellFormed(q)
  /\ q.pid = p.pid /\ q.parent = p.parent /\ q.active = p.active
  /\ q.zombie = p.zombie /\ q.waiting_for = NotWaiting

\* In a sound scheduler that has not halted the running process may change.
LEMMA RunningUpdate ==
  ASSUME NEW k, Sound(k), ~k.halted, NEW p, SameProcess(Running(k), p)
  PROVE  /\ SetRunning(k, p) \in Scheduler
         /\ SoundTable(SetRunning(k, p).processes)
         /\ ~SetRunning(k, p).halted
         /\ Running(SetRunning(k, p)) = p
         /\ p.active
         /\ ~p.stopped => Sound(SetRunning(k, p))
<1>1. k \in Scheduler /\ SoundTable(k.processes) /\ Eligible(Running(k))
  BY DEF Sound, SoundCpu
<1>2. p \in Process /\ p.active /\ ~p.zombie /\ p.waiting_for \notin Pids
  BY <1>1 DEF SameProcess, Eligible, NotWaiting, Pids
<1>3. /\ SetRunning(k, p) \in Scheduler
      /\ SetRunning(k, p).processes = [k.processes EXCEPT ![k.current] = p]
      /\ ~SetRunning(k, p).halted
      /\ Running(SetRunning(k, p)) = p
      /\ Running(k) = k.processes[k.current]
  BY <1>1, <1>2, SetRunningType
<1>4. k.processes \in [Slots -> Process] /\ k.current \in Slots
  BY <1>1 DEF Scheduler
<1>5. SoundTable([k.processes EXCEPT ![k.current] = p])
  BY <1>1, <1>2, <1>3, <1>4, UpdateSound DEF SameProcess, Eligible
<1>6. ~p.stopped => Eligible(p)
  BY <1>2 DEF SameProcess, Eligible
<1> QED BY <1>2, <1>3, <1>5, <1>6 DEF Sound, SoundCpu

\* What the end of a process does to its own record and to that of a waiter.
LEMMA BuriedRecords ==
  ASSUME NEW p \in Process
  PROVE  /\ Zombie(p) \in Process /\ Woken(p) \in Process
         /\ Zombie(p).waiting_for = NotWaiting /\ Woken(p).waiting_for = NotWaiting
         /\ Zombie(p).pid = p.pid /\ Woken(p).pid = p.pid
         /\ Zombie(p).parent = p.parent /\ Woken(p).parent = p.parent
         /\ Zombie(p).active = p.active /\ Woken(p).active = p.active
         /\ Zombie(p).zombie /\ Woken(p).zombie = p.zombie
         /\ ~Zombie(p).stopped /\ Woken(p).stopped = p.stopped
         /\ Woken(p).pending_signals = p.pending_signals
<1>1. 0 \in 0 .. AnyChild
  BY ConstantFacts
<1>2. /\ Zombie(p) \in Process /\ Zombie(p).waiting_for = NotWaiting
      /\ Zombie(p).pid = p.pid /\ Zombie(p).parent = p.parent
      /\ Zombie(p).active = p.active /\ Zombie(p).zombie /\ ~Zombie(p).stopped
  BY <1>1 DEF Process, Zombie, NotWaiting
<1>3. /\ Woken(p) \in Process /\ Woken(p).waiting_for = NotWaiting
      /\ Woken(p).pid = p.pid /\ Woken(p).parent = p.parent
      /\ Woken(p).active = p.active /\ Woken(p).zombie = p.zombie
      /\ Woken(p).stopped = p.stopped
      /\ Woken(p).pending_signals = p.pending_signals
  BY <1>1 DEF Process, Woken, NotWaiting
<1> QED BY <1>2, <1>3

\* The end of a process wakes its waiters and leaves the table sound.
LEMMA ExitSound ==
  ASSUME NEW k \in Scheduler, SoundTable(k.processes), ~k.halted,
         Running(k).active
  PROVE  Sound(Exit(k))
<1> DEFINE ps == k.processes
           qs == Buried(k)
           c == k.current
<1>1. ps \in [Slots -> Process] /\ c \in Slots /\ Running(k) = ps[c]
  BY DEF Scheduler, Running
<1>2. \A s \in Slots : qs[s] =
        IF s = c THEN Zombie(ps[s])
        ELSE IF ps[s].waiting_for = ps[c].pid THEN Woken(ps[s]) ELSE ps[s]
  BY <1>1 DEF Buried
<1>3. qs \in [Slots -> Process]
  <2>1. \A s \in Slots : qs[s] \in Process
    BY <1>1, <1>2, BuriedRecords
  <2> QED BY <2>1 DEF Buried
<1>4. \A s \in Slots : /\ qs[s].pid = ps[s].pid /\ qs[s].parent = ps[s].parent
                       /\ qs[s].active = ps[s].active
                       /\ s # c => qs[s].zombie = ps[s].zombie
  BY <1>1, <1>2, BuriedRecords
<1> HIDE DEF ps, qs, c
<1>5. ASSUME NEW s \in Slots PROVE WellFormed(qs[s])
  <2>1. WellFormed(ps[s]) /\ ps[s] \in Process
    BY <1>1 DEF SoundTable, ps
  <2>2. CASE s = c
    <3>1. ps[s].active /\ qs[s] = Zombie(ps[s])
      BY <1>1, <1>2, <2>2
    <3> QED BY <2>1, <3>1, BuriedRecords DEF WellFormed
  <2>3. CASE s # c /\ ps[s].waiting_for = ps[c].pid
    <3>1. ps[c].pid # 0
      BY <1>1 DEF SoundTable, WellFormed, ps
    <3>2. ps[s].active /\ qs[s] = Woken(ps[s])
      BY <1>2, <2>1, <2>3, <3>1 DEF WellFormed, Empty, NotWaiting
    <3> QED BY <2>1, <3>2, BuriedRecords DEF WellFormed
  <2>4. CASE s # c /\ ps[s].waiting_for # ps[c].pid
    BY <1>2, <2>1, <2>4
  <2> QED BY <2>2, <2>3, <2>4
<1>6. \A s, t \in Slots :
        qs[s].active /\ qs[t].active /\ qs[s].pid = qs[t].pid => s = t
  BY <1>4 DEF SoundTable, ps
<1>7. ASSUME NEW s \in Slots, qs[s].waiting_for \in Pids
      PROVE  \E t \in Slots : IsAwaitedBy(qs[t], qs[s])
  <2>1. s # c /\ qs[s] = ps[s] /\ ps[s].waiting_for # ps[c].pid
    BY <1>1, <1>2, <1>7, BuriedRecords DEF Pids, NotWaiting
  <2>2. PICK t \in Slots : IsAwaitedBy(ps[t], ps[s])
    BY <1>7, <2>1 DEF SoundTable, ps
  <2>3. t # c
    BY <2>1, <2>2 DEF IsAwaitedBy
  <2> QED BY <1>4, <2>1, <2>2, <2>3 DEF IsAwaitedBy
<1>8. SoundTable(qs)
  BY <1>5, <1>6, <1>7 DEF SoundTable
<1>9. /\ [k EXCEPT !.processes = qs] \in Scheduler
      /\ [k EXCEPT !.processes = qs].processes = qs
      /\ ~[k EXCEPT !.processes = qs].halted
  BY <1>3 DEF Scheduler
<1> QED BY <1>8, <1>9, ScheduleSound DEF Exit, qs

\* Delivery leaves a sound scheduler sound, whichever signal is taken.
LEMMA DeliverSound ==
  ASSUME NEW k, Sound(k), NEW m \in BOOLEAN
  PROVE  Sound(Deliver(k, m))
<1> DEFINE me == Running(k)
           q == MostUrgent(Deliverable(me))
           Left(r) == {x \in me.pending_signals : Rank[x] > Rank[r]}
           taken == [me EXCEPT !.pending_signals = Left(q)]
<1>1. CASE k.halted
  BY <1>1 DEF Deliver
<1>2. CASE ~k.halted
  <2>1. /\ me \in Process /\ WellFormed(me) /\ Eligible(me)
    BY <1>2, SetRunningType DEF Sound, SoundCpu, SoundTable, Running, Scheduler
  <2>2. ASSUME NEW S \in SUBSET me.pending_signals
        PROVE  LET p == [me EXCEPT !.pending_signals = S] IN
               /\ SameProcess(me, p) /\ ~p.stopped
               /\ SameProcess(me, [p EXCEPT !.in_handler = TRUE])
               /\ ~[p EXCEPT !.in_handler = TRUE].stopped
               /\ "KILL" \notin S => SameProcess(me, [p EXCEPT !.stopped = TRUE])
    BY <2>1 DEF SameProcess, WellFormed, Process, Eligible
  <2>3. CASE Deliverable(me) = {}
    <3>1. Deliver(k, m) = IF me.in_handler THEN k
                          ELSE SetRunning(k, [me EXCEPT !.pending_signals = {}])
      BY <1>2, <2>3 DEF Deliver
    <3>2. Sound(SetRunning(k, [me EXCEPT !.pending_signals = {}]))
      BY <1>2, <2>2, RunningUpdate
    <3> QED BY <3>1, <3>2
  <2>4. CASE Deliverable(me) # {}
    <3> DEFINE held == [taken EXCEPT !.stopped = TRUE]
               caught == [taken EXCEPT !.in_handler = TRUE]
    <3>1. Deliver(k, m) =
            IF q = "STOP" THEN Schedule(SetRunning(k, held))
            ELSE IF me.signal_actions[q] = "handler" /\ m
                 THEN SetRunning(k, caught) ELSE Exit(SetRunning(k, taken))
      BY <1>2, <2>4 DEF Deliver
    <3>2. Left(q) \in SUBSET me.pending_signals
      OBVIOUS
    <3>3. Sound(SetRunning(k, caught))
      BY <1>2, <2>2, <3>2, RunningUpdate
    <3>4. Sound(Exit(SetRunning(k, taken)))
      BY <1>2, <2>2, <3>2, RunningUpdate, ExitSound
    <3>5. CASE q = "STOP"
      <4>1. "KILL" \notin Left(q)
        BY <3>5 DEF Rank
      <4>2. Sound(Schedule(SetRunning(k, held)))
        BY <1>2, <2>2, <3>2, <4>1, RunningUpdate, ScheduleSound
      <4> QED BY <3>1, <3>5, <4>2
    <3> QED BY <3>1, <3>3, <3>4, <3>5
  <2> QED BY <2>3, <2>4
<1> QED BY <1>1, <1>2

-----------------------------------------------------------------------------
(* The operations that create, free, block and signal a process.           *)

\* A slot and a pid for a new process: the slot is free and the pid exceeds
\* every pid of the table.
LEMMA FreshProcess ==
  ASSUME NEW k \in Scheduler, FreeSlots(k) # {}, NextPid(k) <= PidLimit
  PROVE  /\ Min(FreeSlots(k)) \in Slots /\ ~k.processes[Min(FreeSlots(k))].active
         /\ NextPid(k) \in Pids
         /\ \A s \in Slots : k.processes[s].pid < NextPid(k)
<1>1. FreeSlots(k) \in SUBSET Slots /\ Slots \subseteq Nat
  BY ConstantFacts DEF FreeSlots
<1>2. Min(FreeSlots(k)) \in FreeSlots(k)
  BY <1>1, MinOfNaturals
<1> DEFINE Used == {k.processes[s].pid : s \in Slots}
<1>3. \A s \in Slots : k.processes[s].pid \in 0 .. PidLimit
  BY DEF Scheduler, Process
<1>4. Used \in SUBSET (0 .. PidLimit) /\ Used # {}
  BY <1>3, ConstantFacts
<1>5. Max(Used) \in Used /\ \A x \in Used : x <= Max(Used)
  BY <1>4, MaxOfBounded, SizeAssumption
<1>6. Max(Used) \in 0 .. PidLimit
  BY <1>4, <1>5
<1>7. NextPid(k) = Max(Used) + 1
  BY DEF NextPid
<1>8. NextPid(k) \in Pids
  BY <1>6, <1>7, SizeAssumption DEF Pids
<1>9. ASSUME NEW s \in Slots PROVE k.processes[s].pid < NextPid(k)
  <2>1. k.processes[s].pid \in Used
    OBVIOUS
  <2> HIDE DEF Used
  <2> QED BY <1>3, <1>5, <1>6, <1>7, <2>1
<1> QED BY <1>1, <1>2, <1>8, <1>9 DEF FreeSlots

\* A new process as fork and spawn build it is well formed.
LEMMA NewProcessFacts ==
  ASSUME NEW pid \in Pids, NEW parent \in 0 .. PidLimit, parent < pid,
         NEW actions \in [Signals -> Dispositions]
  PROVE  LET p == NewProcess(pid, parent, actions) IN
         /\ p \in Process /\ WellFormed(p) /\ Eligible(p)
         /\ p.pid = pid /\ p.parent = parent
         /\ p.waiting_for = NotWaiting
<1> DEFINE p == NewProcess(pid, parent, actions)
<1>1. /\ Empty \in Process /\ ~Empty.stopped /\ ~Empty.zombie
      /\ Empty.waiting_for = NotWaiting
  BY ConstantFacts DEF Empty
<1>2. pid \in 0 .. PidLimit /\ pid # 0
  BY SizeAssumption DEF Pids
<1>3. p \in Process
  BY <1>1, <1>2 DEF NewProcess, Process
<1>4. /\ p.pid = pid /\ p.parent = parent /\ p.active /\ ~p.stopped /\ ~p.zombie
      /\ p.waiting_for = NotWaiting
  BY <1>1 DEF NewProcess, Process
<1> HIDE DEF p
<1>5. WellFormed(p) /\ Eligible(p)
  BY <1>2, <1>4 DEF WellFormed, Eligible
<1> QED BY <1>3, <1>4, <1>5 DEF p

\* fork and spawn add a child and change no other record.
LEMMA AdoptSound ==
  ASSUME NEW k, Sound(k), ~k.halted, FreeSlots(k) # {}, NextPid(k) <= PidLimit,
         NEW actions \in [Signals -> Dispositions]
  PROVE  Sound(Adopt(k, actions)) /\ ~Adopt(k, actions).halted
<1> DEFINE ps == k.processes
           f == Min(FreeSlots(k))
           p == NewProcess(NextPid(k), Running(k).pid, actions)
           qs == [ps EXCEPT ![f] = p]
           h == Adopt(k, actions)
<1>1. k \in Scheduler /\ SoundTable(ps) /\ Eligible(Running(k))
  BY DEF Sound, SoundCpu
<1>2. ps \in [Slots -> Process] /\ k.current \in Slots /\ Running(k) = ps[k.current]
  BY <1>1 DEF Scheduler, Running
<1>3. /\ f \in Slots /\ ~ps[f].active /\ NextPid(k) \in Pids
      /\ \A s \in Slots : ps[s].pid < NextPid(k)
  BY <1>1, FreshProcess
<1>4. /\ p \in Process /\ WellFormed(p) /\ Eligible(p) /\ p.pid = NextPid(k)
      /\ p.waiting_for = NotWaiting
  <2>1. Running(k).pid \in 0 .. PidLimit /\ Running(k).pid < NextPid(k)
    BY <1>2, <1>3 DEF Process
  <2> QED BY <1>3, <2>1, NewProcessFacts
<1>5. f # k.current
  BY <1>1, <1>2, <1>3 DEF Eligible
<1>6. h = [k EXCEPT !.processes = qs]
  BY <1>1 DEF Adopt, Scheduler
<1> HIDE DEF p, f, ps
<1>7. /\ qs \in [Slots -> Process] /\ qs[f] = p
      /\ \A s \in Slots : s # f => qs[s] = ps[s]
  BY <1>2, <1>3, <1>4
<1> HIDE DEF qs
<1>8. SoundTable(qs)
  <2>1. \A s \in Slots : WellFormed(qs[s])
    BY <1>1, <1>4, <1>7 DEF SoundTable
  <2>2. ASSUME NEW s \in Slots, NEW t \in Slots,
               qs[s].active, qs[t].active, qs[s].pid = qs[t].pid
        PROVE  s = t
    <3>1. \A u \in Slots : ps[u].pid # NextPid(k)
      <4>1. \A u \in Slots : ps[u].pid \in Nat /\ NextPid(k) \in Nat
        BY <1>2, <1>3 DEF Process, Pids
      <4> QED BY <1>3, <4>1
    <3> QED BY <1>1, <1>4, <1>7, <2>2, <3>1 DEF SoundTable
  <2>3. ASSUME NEW s \in Slots, qs[s].waiting_for \in Pids
        PROVE  \E t \in Slots : IsAwaitedBy(qs[t], qs[s])
    <3>1. s # f /\ qs[s] = ps[s]
      BY <1>4, <1>7, <2>3 DEF NotWaiting, Pids
    <3>2. PICK t \in Slots : IsAwaitedBy(ps[t], ps[s])
      BY <1>1, <2>3, <3>1 DEF SoundTable
    <3>3. t # f
      BY <1>3, <3>2 DEF IsAwaitedBy
    <3> QED BY <1>7, <3>1, <3>2, <3>3
  <2> QED BY <2>1, <2>2, <2>3 DEF SoundTable
<1>9. /\ h \in Scheduler /\ h.processes = qs /\ ~h.halted
      /\ h.current = k.current
  BY <1>1, <1>6, <1>7 DEF Scheduler
<1>10. Running(h) = Running(k)
  BY <1>2, <1>5, <1>7, <1>9 DEF Running
<1> QED BY <1>1, <1>8, <1>9, <1>10 DEF Sound, SoundCpu

\* waitpid frees the slot of a dead child of the running process; nobody can be
\* blocked on that child, since only its parent waits for it.
LEMMA ReapSound ==
  ASSUME NEW k, Sound(k), ~k.halted, NEW f \in Slots,
         k.processes[f].active, k.processes[f].zombie,
         k.processes[f].parent = Running(k).pid
  PROVE  Sound([k EXCEPT !.processes[f] = Empty])
<1> DEFINE ps == k.processes
           qs == [ps EXCEPT ![f] = Empty]
           h == [k EXCEPT !.processes[f] = Empty]
           c == k.current
<1>1. k \in Scheduler /\ SoundTable(ps) /\ Eligible(ps[c])
  BY DEF Sound, SoundCpu, Running
<1>2. ps \in [Slots -> Process] /\ c \in Slots /\ Running(k) = ps[c]
  BY <1>1 DEF Scheduler, Running
<1>3. Empty \in Process /\ ~Empty.active /\ ~Empty.stopped
      /\ Empty.waiting_for = NotWaiting /\ NotWaiting \notin Pids /\ WellFormed(Empty)
  BY ConstantFacts DEF Empty, WellFormed, NotWaiting, Pids
<1>4. h = [k EXCEPT !.processes = qs]
  BY <1>1 DEF Scheduler
<1> HIDE DEF ps
<1>5. /\ qs \in [Slots -> Process] /\ qs[f] = Empty
      /\ \A s \in Slots : s # f => qs[s] = ps[s]
  BY <1>2, <1>3
<1>6. f # c
  BY <1>1 DEF Eligible, ps
<1> HIDE DEF qs
<1>7. SoundTable(qs)
  <2>1. \A s \in Slots : WellFormed(qs[s])
    BY <1>1, <1>3, <1>5 DEF SoundTable
  <2>2. \A s, t \in Slots :
          qs[s].active /\ qs[t].active /\ qs[s].pid = qs[t].pid => s = t
    BY <1>1, <1>3, <1>5 DEF SoundTable
  <2>3. ASSUME NEW s \in Slots, qs[s].waiting_for \in Pids
        PROVE  \E t \in Slots : IsAwaitedBy(qs[t], qs[s])
    <3>1. s # f /\ qs[s] = ps[s]
      BY <1>3, <1>5, <2>3
    <3>2. PICK t \in Slots : IsAwaitedBy(ps[t], ps[s])
      BY <1>1, <2>3, <3>1 DEF SoundTable
    <3>3. ps[s].active
      BY <1>1, <1>3, <2>3, <3>1 DEF SoundTable, WellFormed
    <3>4. t # f
      <4>1. SUFFICES ASSUME t = f PROVE FALSE
        OBVIOUS
      <4>2. ps[s].pid = ps[c].pid
        BY <1>2, <3>2, <4>1 DEF IsAwaitedBy, ps
      <4>3. s = c
        BY <1>1, <1>2, <3>3, <4>2 DEF SoundTable, Eligible
      <4> QED BY <1>1, <1>3, <2>3, <3>1, <4>3 DEF Eligible
    <3> QED BY <1>5, <3>1, <3>2, <3>4
  <2> QED BY <2>1, <2>2, <2>3 DEF SoundTable
<1>8. /\ h \in Scheduler /\ h.processes = qs /\ ~h.halted /\ h.current = c
  BY <1>1, <1>4, <1>5 DEF Scheduler
<1>9. Running(h) = ps[c]
  BY <1>2, <1>5, <1>6, <1>8 DEF Running
<1> QED BY <1>1, <1>7, <1>8, <1>9 DEF Sound, SoundCpu

\* waitpid marks its caller as waiting for a child and gives the CPU away.
LEMMA BlockSound ==
  ASSUME NEW k, Sound(k), ~k.halted, NEW wanted \in Wanted, NEW mapped \in StatusPointers,
         Children(k, wanted) # {},
         Dead(k, Children(k, wanted)) = {} \/ ~mapped
  PROVE  Sound(Schedule(SetRunning(k,
           [Running(k) EXCEPT !.waiting_for = IF wanted > 0 THEN wanted ELSE AnyChild])))
<1> DEFINE me == Running(k)
           w == IF wanted > 0 THEN wanted ELSE AnyChild
           p == [me EXCEPT !.waiting_for = w]
           ps == k.processes
<1>1. k \in Scheduler /\ SoundTable(ps) /\ Eligible(me)
  BY DEF Sound, SoundCpu
<1>2. ps \in [Slots -> Process] /\ k.current \in Slots /\ me = ps[k.current]
  BY <1>1 DEF Scheduler, Running
<1>3. PICK t \in Children(k, wanted) : TRUE
  OBVIOUS
<1>4. /\ t \in Slots /\ ps[t].active /\ ps[t].parent = me.pid
      /\ wanted > 0 => ps[t].pid = wanted
      /\ ps[t].zombie => FALSE \in StatusPointers
  <2>1. StatusPointers \subseteq BOOLEAN
    BY InputAssumption
  <2> QED BY <1>3, <2>1 DEF Children, Dead
<1>5. wanted \in 0 .. PidLimit /\ w \in 0 .. AnyChild /\ w # NotWaiting
      /\ (w \in Pids => wanted > 0 /\ w = wanted)
  BY InputAssumption, SizeAssumption DEF AnyChild, NotWaiting, Pids
<1>6. me.pid < w
  <2>1. me.pid \in 0 .. PidLimit
    BY <1>2 DEF Process
  <2>2. CASE wanted > 0
    <3>1. ps[t].parent < ps[t].pid
      BY <1>1, <1>4 DEF SoundTable, WellFormed
    <3> QED BY <1>4, <2>2, <3>1
  <2>3. CASE ~(wanted > 0)
    BY <2>1, <2>3, SizeAssumption DEF AnyChild
  <2> QED BY <2>2, <2>3
<1> HIDE DEF w
<1>7. /\ p \in Process /\ p.waiting_for = w /\ p.pid = me.pid /\ p.parent = me.parent
      /\ p.active = me.active /\ p.zombie = me.zombie /\ p.stopped = me.stopped
      /\ p.pending_signals = me.pending_signals
  BY <1>2, <1>5 DEF Process
<1>8. WellFormed(me) /\ me.active /\ ~me.zombie /\ ~me.stopped
  BY <1>1, <1>2 DEF SoundTable, Eligible
<1> HIDE DEF p, ps, me
<1>9. WellFormed(p)
  BY <1>6, <1>7, <1>8 DEF WellFormed
<1>10. p.waiting_for \in Pids => \E u \in Slots : IsAwaitedBy(ps[u], p)
  BY <1>4, <1>5, <1>7 DEF IsAwaitedBy
<1>11. SoundTable([ps EXCEPT ![k.current] = p])
  BY <1>1, <1>2, <1>7, <1>8, <1>9, <1>10, UpdateSound
<1>12. SetRunning(k, p) \in Scheduler /\ ~SetRunning(k, p).halted
       /\ SetRunning(k, p).processes = [ps EXCEPT ![k.current] = p]
  BY <1>1, <1>7, SetRunningType DEF ps
<1> QED BY <1>11, <1>12, ScheduleSound DEF p, w, me

\* A signal changes only the pending set and the stop of its target.
LEMMA SignalSound ==
  ASSUME NEW k, Sound(k), ~k.halted, NEW i \in Slots, NEW q \in Signals,
         k.processes[i].active
  PROVE  Sound([k EXCEPT !.processes[i] = Signalled(k.processes[i], q)])
<1> DEFINE ps == k.processes
           p == Signalled(ps[i], q)
           h == [k EXCEPT !.processes[i] = p]
<1>1. k \in Scheduler /\ SoundTable(ps) /\ Eligible(ps[k.current])
  BY DEF Sound, SoundCpu, Running
<1>2. ps \in [Slots -> Process] /\ k.current \in Slots
  BY <1>1 DEF Scheduler
<1>3. /\ p.pid = ps[i].pid /\ p.parent = ps[i].parent /\ p.active = ps[i].active
      /\ p.zombie = ps[i].zombie /\ p.waiting_for = ps[i].waiting_for
      /\ p.stopped = (ps[i].stopped /\ q \notin {"CONT", "KILL"})
      /\ p.pending_signals = ps[i].pending_signals \cup {q}
  BY <1>2 DEF Process, Signalled
<1>4. p \in Process
  BY <1>2, ZenonT(120) DEF Process, Signalled
<1> HIDE DEF p
<1>5. WellFormed(p)
  BY <1>1, <1>3 DEF SoundTable, WellFormed
<1>6. p.waiting_for \in Pids => \E t \in Slots : IsAwaitedBy(ps[t], p)
  BY <1>1, <1>3 DEF SoundTable, IsAwaitedBy
<1>7. SoundTable([ps EXCEPT ![i] = p])
  BY <1>1, <1>2, <1>3, <1>4, <1>5, <1>6, UpdateSound
<1>8. /\ h \in Scheduler /\ h.processes = [ps EXCEPT ![i] = p] /\ ~h.halted
      /\ h.current = k.current
  BY <1>1, <1>4 DEF Scheduler
<1> HIDE DEF ps, h
<1>9. Eligible(h.processes[h.current])
  <2>1. CASE i = k.current
    <3>1. h.processes[h.current] = p
      BY <1>2, <1>8, <2>1
    <3> QED BY <1>1, <1>3, <2>1, <3>1 DEF Eligible
  <2>2. CASE i # k.current
    BY <1>1, <1>2, <1>8, <2>2
  <2> QED BY <2>1, <2>2
<1> QED BY <1>7, <1>8, <1>9 DEF Sound, SoundCpu, Running, p, ps, h

-----------------------------------------------------------------------------
(* The invariant holds initially and every action preserves it.            *)

LEMMA MeIsRunning ==
  ASSUME IInv, Alive
  PROVE  /\ scheduler \in Scheduler /\ SoundTable(scheduler.processes)
         /\ Me \in Process /\ WellFormed(Me) /\ Eligible(Me)
BY SetRunningType
   DEF IInv, Sound, SoundCpu, SoundTable, Alive, Me, Running, Scheduler

LEMMA ReturnSound ==
  ASSUME NEW k, Sound(k), ReturnFrom(k)
  PROVE  IInv'
BY DeliverSound, InputAssumption DEF ReturnFrom, IInv

\* A call that only changes the running process's record.
LEMMA RunningCall ==
  ASSUME IInv, Alive, NEW p, SameProcess(Me, p), ~p.stopped,
         ReturnFrom(SetRunning(scheduler, p))
  PROVE  IInv'
BY RunningUpdate, ReturnSound DEF IInv, Alive, Me

\* Whether the running process reads is no matter of the table or the CPU.
LEMMA ReadingSound ==
  ASSUME NEW k, Sound(k), NEW r \in BOOLEAN
  PROVE  /\ Sound([k EXCEPT !.reading = r])
         /\ [k EXCEPT !.reading = r].processes = k.processes
BY DEF Sound, SoundCpu, Scheduler, Running

\* Ctrl+C marks the reader and ends its read.
Interrupted ==
  [SetRunning(scheduler, Signalled(Me, "INT")) EXCEPT !.reading = FALSE]

LEMMA InterruptSound ==
  ASSUME IInv, Alive, "INT" \in Signals
  PROVE  /\ SameProcess(Me, Signalled(Me, "INT")) /\ ~Signalled(Me, "INT").stopped
         /\ Sound(SetRunning(scheduler, Signalled(Me, "INT"))) /\ Sound(Interrupted)
         /\ Interrupted.processes =
              [scheduler.processes EXCEPT ![scheduler.current] = Signalled(Me, "INT")]
<1> DEFINE p == Signalled(Me, "INT")
<1>1. Me \in Process /\ WellFormed(Me) /\ Eligible(Me) /\ scheduler \in Scheduler
  BY MeIsRunning
<1>2. p = [Me EXCEPT !.pending_signals = @ \cup {"INT"}, !.stopped = FALSE]
  BY <1>1 DEF Signalled, Eligible
<1> HIDE DEF p
<1>3. SameProcess(Me, p) /\ ~p.stopped
  BY <1>1, <1>2 DEF SameProcess, WellFormed, Process, Eligible
<1>4. Sound(SetRunning(scheduler, p))
  BY <1>3, RunningUpdate DEF IInv, Alive, Me
<1>5. SetRunning(scheduler, p).processes =
        [scheduler.processes EXCEPT ![scheduler.current] = p]
  BY <1>1, <1>3, SetRunningType DEF SameProcess
<1>6. Interrupted = [SetRunning(scheduler, p) EXCEPT !.reading = FALSE]
  BY DEF Interrupted, p
<1>7. Sound(Interrupted) /\ Interrupted.processes = SetRunning(scheduler, p).processes
  BY <1>4, <1>6, ReadingSound
<1> QED BY <1>3, <1>4, <1>5, <1>7 DEF p

LEMMA InitSound == Init => IInv
<1> SUFFICES ASSUME Init PROVE IInv
  OBVIOUS
<1> DEFINE p == NewProcess(1, 0, DefaultActions)
           ps == [s \in Slots |-> IF s = 0 THEN p ELSE Empty]
<1>1. /\ p \in Process /\ WellFormed(p) /\ Eligible(p) /\ p.pid = 1
      /\ p.waiting_for = NotWaiting
  <2>1. /\ 1 \in Pids /\ 0 \in 0 .. PidLimit /\ 0 < 1
        /\ DefaultActions \in [Signals -> Dispositions]
    BY SizeAssumption DEF Pids, DefaultActions, Dispositions
  <2> QED BY <2>1, NewProcessFacts
<1>2. /\ Empty \in Process /\ WellFormed(Empty) /\ ~Empty.active
      /\ Empty.waiting_for = NotWaiting /\ NotWaiting \notin Pids
  BY ConstantFacts DEF Empty, WellFormed, NotWaiting, Pids
<1>3. 0 \in Slots
  BY ConstantFacts
<1>4. scheduler = [processes |-> ps, current |-> 0, halted |-> FALSE, reading |-> FALSE]
  BY DEF Init
<1> HIDE DEF p
<1>5. ps \in [Slots -> Process] /\ ps[0] = p
      /\ \A s \in Slots : s # 0 => ps[s] = Empty
  BY <1>1, <1>2, <1>3
<1> HIDE DEF ps
<1>6. SoundTable(ps)
  BY <1>1, <1>2, <1>5 DEF SoundTable
<1>7. scheduler \in Scheduler /\ scheduler.processes = ps /\ ~scheduler.halted
      /\ Running(scheduler) = p
  BY <1>3, <1>4, <1>5 DEF Scheduler, Running
<1> QED BY <1>1, <1>6, <1>7 DEF IInv, Sound, SoundCpu

LEMMA NextSound == IInv /\ [Next]_vars => IInv'
<1> SUFFICES ASSUME IInv, [Next]_vars PROVE IInv'
  OBVIOUS
<1>1. CASE OtherCall
  BY <1>1, ReturnSound DEF OtherCall, IInv
<1>2. CASE YieldCurrent
  BY <1>2, MeIsRunning, ScheduleSound, ReturnSound DEF YieldCurrent, Alive, InUserMode
<1>3. CASE ExitCurrent
  <2>1. PICK status \in Statuses :
          ReturnFrom(Exit(SetRunning(scheduler, [Me EXCEPT !.exit_status = status])))
    BY <1>3 DEF ExitCurrent
  <2> DEFINE p == [Me EXCEPT !.exit_status = status]
  <2>2. Alive /\ Me \in Process /\ WellFormed(Me) /\ Eligible(Me)
    BY <1>3, MeIsRunning DEF ExitCurrent, InUserMode
  <2>3. SameProcess(Me, p)
    BY <2>2 DEF SameProcess, WellFormed, Process, Eligible
  <2>4. Sound(Exit(SetRunning(scheduler, p)))
    BY <2>2, <2>3, RunningUpdate, ExitSound DEF IInv, Alive, Me
  <2> QED BY <2>1, <2>4, ReturnSound
<1>4. CASE TerminateFaultingProcess
  <2>1. Sound(Exit(scheduler))
    BY <1>4, MeIsRunning, ExitSound DEF TerminateFaultingProcess, Alive, Eligible, Me, InUserMode
  <2> QED BY <1>4, <2>1 DEF TerminateFaultingProcess, IInv
<1>5. CASE ForkCurrent
  <2>1. Me.signal_actions \in [Signals -> Dispositions]
    BY <1>5, MeIsRunning DEF ForkCurrent, Process, InUserMode
  <2>2. Sound(Adopt(scheduler, Me.signal_actions))
    BY <1>5, <2>1, AdoptSound DEF ForkCurrent, CanCreate, IInv, Alive, InUserMode
  <2> QED BY <1>5, <2>2, ReturnSound DEF ForkCurrent
<1>6. CASE SpawnCurrentWithIo
  <2>1. DefaultActions \in [Signals -> Dispositions]
    BY DEF DefaultActions, Dispositions
  <2>2. Sound(Adopt(scheduler, DefaultActions)) /\ ~Adopt(scheduler, DefaultActions).halted
    BY <1>6, <2>1, AdoptSound DEF SpawnCurrentWithIo, CanCreate, IInv, Alive, InUserMode
  <2>3. Sound(Schedule(Adopt(scheduler, DefaultActions)))
    BY <2>2, ScheduleSound DEF Sound
  <2> QED BY <1>6, <2>3, ReturnSound DEF SpawnCurrentWithIo
<1>7. CASE ExecveCurrent
  <2> DEFINE p == NewProcess(Me.pid, Me.parent, Me.signal_actions)
  <2>1. Alive /\ Me \in Process /\ WellFormed(Me) /\ Eligible(Me)
    BY <1>7, MeIsRunning DEF ExecveCurrent, InUserMode
  <2>2. /\ Me.pid \in Pids /\ Me.parent \in 0 .. PidLimit /\ Me.parent < Me.pid
        /\ Me.signal_actions \in [Signals -> Dispositions]
    BY <2>1, SizeAssumption DEF Process, WellFormed, Eligible, Pids
  <2>3. /\ p \in Process /\ WellFormed(p) /\ Eligible(p) /\ p.pid = Me.pid
        /\ p.parent = Me.parent
    BY <2>2, NewProcessFacts
  <2>4. SameProcess(Me, p) /\ ~p.stopped
    BY <2>1, <2>3 DEF SameProcess, Eligible, Process
  <2> QED BY <1>7, <2>1, <2>4, RunningCall DEF ExecveCurrent
<1>8. CASE WaitpidReap
  <2>1. PICK wanted \in Wanted :
          LET dead == Dead(scheduler, Children(scheduler, wanted)) IN
          /\ dead # {}
          /\ ReturnFrom([scheduler EXCEPT !.processes[Min(dead)] = Empty])
    BY <1>8 DEF WaitpidReap
  <2> DEFINE dead == Dead(scheduler, Children(scheduler, wanted))
             f == Min(dead)
  <2>2. f \in dead
    BY <2>1, MinOfNaturals, ConstantFacts DEF Dead, Children
  <2>3. /\ f \in Slots /\ scheduler.processes[f].active /\ scheduler.processes[f].zombie
        /\ scheduler.processes[f].parent = Running(scheduler).pid
    BY <2>2 DEF Dead, Children
  <2>4. Sound([scheduler EXCEPT !.processes[f] = Empty])
    BY <1>8, <2>3, ReapSound DEF WaitpidReap, IInv, Alive, InUserMode
  <2> QED BY <2>1, <2>4, ReturnSound
<1>9. CASE WaitpidBlock
  <2>1. PICK wanted \in Wanted, mapped \in StatusPointers :
          /\ Children(scheduler, wanted) # {}
          /\ Dead(scheduler, Children(scheduler, wanted)) = {} \/ ~mapped
          /\ ReturnFrom(Schedule(SetRunning(scheduler,
               [Me EXCEPT !.waiting_for = IF wanted > 0 THEN wanted ELSE AnyChild])))
    BY <1>9 DEF WaitpidBlock
  <2> QED BY <1>9, <2>1, BlockSound, ReturnSound DEF WaitpidBlock, IInv, Alive, Me, InUserMode
<1>10. CASE SendSignal
  <2>1. PICK s \in Slots, q \in Signals :
          /\ scheduler.processes[s].active
          /\ ReturnFrom([scheduler EXCEPT
                            !.processes[s] = Signalled(scheduler.processes[s], q)])
    BY <1>10 DEF SendSignal
  <2> QED BY <1>10, <2>1, SignalSound, ReturnSound DEF SendSignal, IInv, Alive, InUserMode
<1>11. CASE SetSignalAction
  <2>1. PICK q \in Signals \ Unmaskable, handler \in Dispositions :
          ReturnFrom(SetRunning(scheduler, [Me EXCEPT !.signal_actions[q] = handler]))
    BY <1>11 DEF SetSignalAction
  <2> DEFINE p == [Me EXCEPT !.signal_actions[q] = handler]
  <2>2. Alive /\ Me \in Process /\ WellFormed(Me) /\ Eligible(Me)
    BY <1>11, MeIsRunning DEF SetSignalAction, InUserMode
  <2>3. SameProcess(Me, p) /\ ~p.stopped
    BY <2>2 DEF SameProcess, WellFormed, Process, Eligible
  <2> QED BY <2>1, <2>2, <2>3, RunningCall
<1>12. CASE RestoreSignalContext
  <2> DEFINE p == [Me EXCEPT !.in_handler = FALSE]
  <2>1. Alive /\ Me \in Process /\ WellFormed(Me) /\ Eligible(Me)
    BY <1>12, MeIsRunning DEF RestoreSignalContext, InUserMode
  <2>2. SameProcess(Me, p) /\ ~p.stopped
    BY <2>1 DEF SameProcess, WellFormed, Process, Eligible
  <2> QED BY <1>12, <2>1, <2>2, RunningCall DEF RestoreSignalContext
<1>13. CASE TimerTick
  <2> DEFINE count == [Me EXCEPT !.quantum = @ + 1]
             reset == [Me EXCEPT !.quantum = 0]
  <2>1. Alive /\ Me \in Process /\ WellFormed(Me) /\ Eligible(Me)
    BY <1>13, MeIsRunning DEF TimerTick, InUserMode
  <2>2. CASE Me.quantum + 1 < TimerQuantumTicks
    <3>1. Me.quantum + 1 \in 0 .. TimerQuantumTicks - 1
      BY <2>1, <2>2, SizeAssumption DEF Process
    <3>2. SameProcess(Me, count) /\ ~count.stopped
      BY <2>1, <3>1 DEF SameProcess, WellFormed, Process, Eligible
    <3>3. Sound(SetRunning(scheduler, count))
      BY <2>1, <3>2, RunningUpdate DEF IInv, Alive, Me
    <3> QED BY <1>13, <2>2, <3>3 DEF TimerTick, IInv
  <2>3. CASE ~(Me.quantum + 1 < TimerQuantumTicks)
    <3>1. 0 \in 0 .. TimerQuantumTicks - 1
      BY SizeAssumption
    <3>2. SameProcess(Me, reset)
      BY <2>1, <3>1 DEF SameProcess, WellFormed, Process, Eligible
    <3>3. Sound(Schedule(SetRunning(scheduler, reset)))
      BY <2>1, <3>2, RunningUpdate, ScheduleSound DEF IInv, Alive, Me
    <3> QED BY <1>13, <2>3, <3>3 DEF TimerTick, IInv
  <2> QED BY <2>2, <2>3
<1>14. CASE ReadCharacter
  BY <1>14, ReadingSound DEF ReadCharacter, IInv
<1>15. CASE CharacterArrives
  <2>1. Sound([scheduler EXCEPT !.reading = FALSE])
    BY ReadingSound DEF IInv
  <2> QED BY <1>15, <2>1, ReturnSound DEF CharacterArrives
<1>16. CASE InterruptArrives
  BY <1>16, InterruptSound, ReturnSound DEF InterruptArrives, Interrupted
<1>17. CASE UNCHANGED vars
  BY <1>17 DEF vars, IInv
<1> QED BY <1>1, <1>2, <1>3, <1>4, <1>5, <1>6, <1>7, <1>8, <1>9, <1>10, <1>11, <1>12,
           <1>13, <1>14, <1>15, <1>16, <1>17 DEF Next, Syscall

\* The process table and the CPU stay sound in every behaviour: the invariant
\* behind the theorems below.
THEOREM SchedulerIsSound == Spec => []IInv
BY InitSound, NextSound, PTL DEF Spec

-----------------------------------------------------------------------------
(* The properties the runs check, for every value of the constants.        *)

\* The scheduler's record keeps the shape of struct Scheduler.
THEOREM TypeCorrect == Spec => []TypeOK
<1>1. IInv => TypeOK
  BY DEF IInv, Sound, TypeOK
<1> QED BY <1>1, SchedulerIsSound, PTL

\* schedule never leaves the CPU on a free, stopped, dead or blocked process.
THEOREM CurrentAlwaysEligible == Spec => []CurrentIsEligible
<1>1. IInv => CurrentIsEligible
  BY DEF IInv, Sound, SoundCpu, CurrentIsEligible, Alive, Me
<1> QED BY <1>1, SchedulerIsSound, PTL

\* fork and spawn never hand out the pid of a process of the table.
THEOREM PidsAlwaysUnique == Spec => []PidsAreUnique
<1>1. IInv => PidsAreUnique
  BY DEF IInv, Sound, SoundTable, PidsAreUnique
<1> QED BY <1>1, SchedulerIsSound, PTL

\* Nobody waits for a process that is not younger: waiters form no cycle.
THEOREM NoCycleOfWaiters == Spec => []WaitersAreOlder
<1>1. IInv => WaitersAreOlder
  BY DEF IInv, Sound, SoundTable, WellFormed, WaitersAreOlder
<1> QED BY <1>1, SchedulerIsSound, PTL

\* waitpid(pid) loses no wakeup, provided its status pointers are mapped.
THEOREM NoLostWakeup == Spec => []WaitTargetIsLive
<1>1. IInv => WaitTargetIsLive
  <2> SUFFICES ASSUME IInv, FALSE \notin StatusPointers, NEW s \in Slots,
                      scheduler.processes[s].waiting_for \in Pids
               PROVE  \E t \in Slots :
                        LET c == scheduler.processes[t]
                            p == scheduler.processes[s] IN
                        c.active /\ ~c.zombie /\ c.pid = p.waiting_for /\ c.parent = p.pid
    BY DEF WaitTargetIsLive
  <2>1. PICK t \in Slots : IsAwaitedBy(scheduler.processes[t], scheduler.processes[s])
    BY DEF IInv, Sound, SoundTable
  <2> QED BY <2>1 DEF IsAwaitedBy
<1> QED BY <1>1, SchedulerIsSound, PTL

\* No stopped process holds a pending SIGKILL.
THEOREM KillAlwaysReaches == Spec => []KillReachesTheStopped
<1>1. IInv => KillReachesTheStopped
  BY DEF IInv, Sound, SoundTable, WellFormed, KillReachesTheStopped
<1> QED BY <1>1, SchedulerIsSound, PTL

\* kernel_halt with a live process left always has one of the three causes:
\* otherwise the youngest live process would be eligible.
THEOREM HaltAlwaysExplained == Spec => []HaltIsExplained
<1>1. IInv => HaltIsExplained
  <2> DEFINE ps == scheduler.processes
             Live == {s \in Slots : ps[s].active /\ ~ps[s].zombie}
             Ages == {ps[s].pid : s \in Live}
  <2> SUFFICES ASSUME IInv, scheduler.halted, Live # {},
                      \A s \in Slots : ~ps[s].stopped /\ ps[s].waiting_for # AnyChild,
                      \A s, t \in Slots :
                        ~(/\ ps[s].waiting_for \in Pids
                          /\ ps[t].zombie /\ ps[t].pid = ps[s].waiting_for)
               PROVE  FALSE
    BY DEF HaltIsExplained
  <2>1. /\ ps \in [Slots -> Process] /\ SoundTable(ps)
        /\ \A s \in Slots : ~Eligible(ps[s])
    BY DEF IInv, Sound, SoundCpu, Scheduler
  <2>2. \A s \in Slots : ps[s].pid \in 0 .. PidLimit /\ ps[s].waiting_for \in 0 .. AnyChild
    BY <2>1 DEF Process
  <2> HIDE DEF ps
  <2>3. Ages \in SUBSET (0 .. PidLimit) /\ Ages # {}
    BY <2>2
  <2>4. Max(Ages) \in Ages /\ \A x \in Ages : x <= Max(Ages)
    BY <2>3, MaxOfBounded, SizeAssumption
  <2>5. PICK s \in Live : ps[s].pid = Max(Ages)
    BY <2>4
  <2>6. ps[s].waiting_for \in Pids
    <3>1. ps[s].waiting_for # NotWaiting
      BY <2>1, <2>5 DEF Eligible
    <3> QED BY <2>2, <2>5, <3>1, SizeAssumption DEF NotWaiting, AnyChild, Pids
  <2>7. PICK t \in Slots : IsAwaitedBy(ps[t], ps[s])
    BY <2>1, <2>5, <2>6 DEF SoundTable
  <2>8. ps[t].pid \in Ages
    BY <2>5, <2>6, <2>7 DEF IsAwaitedBy
  <2>9. ps[s].pid < ps[s].waiting_for
    BY <2>1, <2>5, <2>6 DEF SoundTable, WellFormed, NotWaiting, Pids
  <2> HIDE DEF Ages
  <2>10. Max(Ages) \in Nat /\ ps[t].pid <= Max(Ages) /\ ps[t].pid \in Nat
    BY <2>2, <2>4, <2>5, <2>7, <2>8
  <2> QED BY <2>5, <2>7, <2>9, <2>10 DEF IsAwaitedBy
<1> QED BY <1>1, SchedulerIsSound, PTL

-----------------------------------------------------------------------------
(* What a single step may do to a record: theorems about zombies, and the  *)
(* facts Descriptors relies on.                                            *)

\* Record p became q: it keeps its identity, and a zombie its exit code.
SameLife(p, q) ==
  /\ q.active = p.active /\ q.pid = p.pid /\ q.parent = p.parent
  /\ p.zombie => q.zombie /\ q.exit_status = p.exit_status

Follows(k, h) == \A s \in Slots : SameLife(k.processes[s], h.processes[s])

\* In this step slot f received a new process, or its dead one was collected by
\* the parent; the other records keep their identity.
Born(f) ==
  /\ f \in Slots /\ ~scheduler.processes[f].active /\ scheduler'.processes[f].active
  /\ \A s \in Slots \ {f} : SameLife(scheduler.processes[s], scheduler'.processes[s])
Collected(f) ==
  /\ f \in Slots /\ scheduler.processes[f].zombie
  /\ scheduler.processes[f].parent = Me.pid /\ scheduler'.processes[f] = Empty
  /\ \A s \in Slots \ {f} : SameLife(scheduler.processes[s], scheduler'.processes[s])

LEMMA FollowsTransitive ==
  ASSUME NEW k, NEW h, NEW g, Follows(k, h), Follows(h, g)
  PROVE  Follows(k, g)
BY DEF Follows, SameLife

\* Changing a record that is not a zombie without changing its identity.
LEMMA RecordFollows ==
  ASSUME NEW k, NEW h, NEW i \in Slots, NEW p,
         k.processes \in [Slots -> Process], ~k.processes[i].zombie,
         h.processes = [k.processes EXCEPT ![i] = p],
         p.pid = k.processes[i].pid, p.parent = k.processes[i].parent,
         p.active = k.processes[i].active
  PROVE  Follows(k, h)
BY DEF Follows, SameLife

\* The end of a process keeps every record's identity.
LEMMA ExitFollows ==
  ASSUME NEW k \in Scheduler, SoundTable(k.processes), ~k.halted,
         Running(k).active, ~Running(k).zombie
  PROVE  Follows(k, Exit(k))
<1> DEFINE ps == k.processes
           qs == Buried(k)
           h == [k EXCEPT !.processes = qs]
<1>1. ps \in [Slots -> Process] /\ k.current \in Slots /\ Running(k) = ps[k.current]
  BY DEF Scheduler, Running
<1>2. \A s \in Slots : qs[s] =
        IF s = k.current THEN Zombie(ps[s])
        ELSE IF ps[s].waiting_for = Running(k).pid THEN Woken(ps[s]) ELSE ps[s]
  BY DEF Buried
<1>3. ASSUME NEW s \in Slots
      PROVE  Woken(ps[s]).exit_status = ps[s].exit_status
  BY <1>1 DEF Woken, Process
<1>4. h.processes = qs /\ h = [k EXCEPT !.processes = qs]
  BY DEF Scheduler
<1>5. Exit(k).processes = qs
  <2>1. Schedule(h).processes = h.processes
    BY <1>4 DEF Schedule, Scheduler
  <2> QED BY <1>4, <2>1 DEF Exit
<1> HIDE DEF ps, qs, h
<1> SUFFICES ASSUME NEW s \in Slots
             PROVE  /\ qs[s].active = ps[s].active /\ qs[s].pid = ps[s].pid
                    /\ qs[s].parent = ps[s].parent
                    /\ ps[s].zombie => qs[s].zombie /\ qs[s].exit_status = ps[s].exit_status
  BY <1>5 DEF Follows, SameLife, ps
<1>6. CASE s = k.current
  BY <1>1, <1>2, <1>6, BuriedRecords
<1>7. CASE s # k.current
  BY <1>1, <1>2, <1>3, <1>7, BuriedRecords
<1> QED BY <1>6, <1>7

\* Delivery keeps every record's identity, whatever signal it takes.
LEMMA DeliverFollows ==
  ASSUME NEW k, Sound(k), NEW m \in BOOLEAN
  PROVE  Follows(k, Deliver(k, m))
<1> DEFINE me == Running(k)
           q == MostUrgent(Deliverable(me))
           Left(r) == {x \in me.pending_signals : Rank[x] > Rank[r]}
           taken == [me EXCEPT !.pending_signals = Left(q)]
           held == [taken EXCEPT !.stopped = TRUE]
           caught == [taken EXCEPT !.in_handler = TRUE]
           cleared == [me EXCEPT !.pending_signals = {}]
<1>1. Follows(k, k)
  BY DEF Follows, SameLife
<1>2. CASE k.halted
  BY <1>1, <1>2 DEF Deliver
<1>3. CASE ~k.halted
  <2>1. /\ k \in Scheduler /\ me \in Process /\ WellFormed(me) /\ Eligible(me)
        /\ k.current \in Slots /\ me = k.processes[k.current]
        /\ k.processes \in [Slots -> Process] /\ SoundTable(k.processes)
    BY <1>3, SetRunningType DEF Sound, SoundCpu, SoundTable, Running, Scheduler
  <2>2. ASSUME NEW p, SameProcess(me, p)
        PROVE  Follows(k, SetRunning(k, p))
    <3>1. SetRunning(k, p).processes = [k.processes EXCEPT ![k.current] = p]
      BY <2>1, <2>2, SetRunningType DEF SameProcess
    <3>2. /\ ~k.processes[k.current].zombie
          /\ p.pid = k.processes[k.current].pid
          /\ p.parent = k.processes[k.current].parent
          /\ p.active = k.processes[k.current].active
      BY <2>1, <2>2 DEF SameProcess, Eligible
    <3> HIDE DEF me
    <3> QED BY <2>1, <3>1, <3>2, RecordFollows
  <2>3. ASSUME NEW S \in SUBSET me.pending_signals
        PROVE  LET p == [me EXCEPT !.pending_signals = S] IN
               /\ SameProcess(me, p)
               /\ SameProcess(me, [p EXCEPT !.in_handler = TRUE])
               /\ "KILL" \notin S => SameProcess(me, [p EXCEPT !.stopped = TRUE])
    BY <2>1 DEF SameProcess, WellFormed, Process, Eligible
  <2>4. CASE Deliverable(me) = {}
    <3>1. Deliver(k, m) = IF me.in_handler THEN k ELSE SetRunning(k, cleared)
      BY <1>3, <2>4 DEF Deliver
    <3> QED BY <1>1, <2>2, <2>3, <3>1
  <2>5. CASE Deliverable(me) # {}
    <3>1. Deliver(k, m) =
            IF q = "STOP" THEN Schedule(SetRunning(k, held))
            ELSE IF me.signal_actions[q] = "handler" /\ m
                 THEN SetRunning(k, caught) ELSE Exit(SetRunning(k, taken))
      BY <1>3, <2>5 DEF Deliver
    <3>2. Left(q) \in SUBSET me.pending_signals
      OBVIOUS
    <3>3. Follows(k, SetRunning(k, caught)) /\ SameProcess(me, taken)
      BY <2>2, <2>3, <3>2
    <3>4. Follows(k, Exit(SetRunning(k, taken)))
      <4> DEFINE h == SetRunning(k, taken)
      <4>1. Follows(k, h)
        BY <2>2, <3>3
      <4>2. /\ h \in Scheduler /\ SoundTable(h.processes) /\ ~h.halted
            /\ Running(h) = taken
        BY <1>3, <3>3, RunningUpdate
      <4>3. taken.active /\ ~taken.zombie
        BY <2>1, <3>3 DEF SameProcess, Eligible
      <4> HIDE DEF h, taken
      <4>4. Follows(h, Exit(h))
        BY <4>2, <4>3, ExitFollows
      <4> QED BY <4>1, <4>4, FollowsTransitive DEF h
    <3>5. CASE q = "STOP"
      <4> DEFINE h == SetRunning(k, held)
      <4>1. "KILL" \notin Left(q)
        BY <3>5 DEF Rank
      <4>2. SameProcess(me, held)
        BY <2>3, <3>2, <4>1
      <4>3. h \in Scheduler /\ SoundTable(h.processes) /\ ~h.halted
        BY <1>3, <4>2, RunningUpdate
      <4>4. Follows(k, h)
        BY <2>2, <4>2
      <4> HIDE DEF h
      <4>5. Schedule(h).processes = h.processes
        BY <4>3, ScheduleSound
      <4> QED BY <3>1, <3>5, <4>4, <4>5 DEF Follows, SameLife, h
    <3> QED BY <3>1, <3>3, <3>4, <3>5
  <2> QED BY <2>4, <2>5
<1> QED BY <1>2, <1>3

-----------------------------------------------------------------------------
(* Every action, seen record by record.                                    *)

LEMMA ReturnFollows ==
  ASSUME NEW k, Sound(k), ReturnFrom(k)
  PROVE  Follows(k, scheduler')
BY DeliverFollows, InputAssumption DEF ReturnFrom

\* schedule does not touch the table.
LEMMA ScheduleFollows ==
  ASSUME NEW k \in Scheduler, SoundTable(k.processes), ~k.halted
  PROVE  Follows(k, Schedule(k))
BY ScheduleSound DEF Follows, SameLife

\* A change of the running record.
LEMMA RunningFollows ==
  ASSUME IInv, Alive, NEW p, SameProcess(Me, p)
  PROVE  Follows(scheduler, SetRunning(scheduler, p))
<1>1. /\ scheduler \in Scheduler /\ Me = scheduler.processes[scheduler.current]
      /\ Eligible(Me) /\ scheduler.current \in Slots
      /\ scheduler.processes \in [Slots -> Process]
  BY MeIsRunning DEF Me, Running, Scheduler
<1>2. SetRunning(scheduler, p).processes =
        [scheduler.processes EXCEPT ![scheduler.current] = p]
  BY <1>1, SetRunningType DEF SameProcess
<1>3. /\ ~scheduler.processes[scheduler.current].zombie
      /\ p.pid = scheduler.processes[scheduler.current].pid
      /\ p.parent = scheduler.processes[scheduler.current].parent
      /\ p.active = scheduler.processes[scheduler.current].active
  BY <1>1 DEF SameProcess, Eligible
<1> HIDE DEF Me
<1> QED BY <1>1, <1>2, <1>3, RecordFollows

\* A system call that only changes the caller's record, and returns.
LEMMA RunningCallFollows ==
  ASSUME IInv, Alive, NEW p, SameProcess(Me, p), ~p.stopped,
         ReturnFrom(SetRunning(scheduler, p))
  PROVE  Follows(scheduler, scheduler')
<1> DEFINE h == SetRunning(scheduler, p)
<1>1. Sound(h) /\ Follows(scheduler, h)
  BY RunningUpdate, RunningFollows DEF IInv, Alive, Me
<1> HIDE DEF h
<1>2. Follows(h, scheduler')
  BY <1>1, ReturnFollows DEF h
<1> QED BY <1>1, <1>2, FollowsTransitive

LEMMA ForkFollows ==
  ASSUME IInv, Alive, CanCreate, NEW actions \in [Signals -> Dispositions],
         NEW k, Sound(k), k.processes = Adopt(scheduler, actions).processes, ReturnFrom(k)
  PROVE  Born(Min(FreeSlots(scheduler)))
<1> DEFINE f == Min(FreeSlots(scheduler))
           p == NewProcess(NextPid(scheduler), Me.pid, actions)
           ps == scheduler.processes
<1>1. scheduler \in Scheduler /\ ps \in [Slots -> Process]
  BY MeIsRunning DEF Scheduler
<1>2. f \in Slots /\ ~ps[f].active
  BY <1>1, FreshProcess DEF CanCreate
<1>3. k.processes = [ps EXCEPT ![f] = p]
  BY <1>1 DEF Adopt, Scheduler, Me
<1>4. p.active
  BY DEF NewProcess, Empty
<1>5. Follows(k, scheduler')
  BY ReturnFollows
<1> HIDE DEF f, p, ps
<1>6. k.processes[f].active /\ \A s \in Slots \ {f} : k.processes[s] = ps[s]
  BY <1>1, <1>2, <1>3, <1>4
<1>7. \A s \in Slots : SameLife(k.processes[s], scheduler'.processes[s])
  BY <1>5 DEF Follows
<1>8. scheduler'.processes[f].active
  BY <1>2, <1>6, <1>7 DEF SameLife
<1> QED BY <1>2, <1>6, <1>7, <1>8 DEF Born, ps, f

LEMMA ReapFollows ==
  ASSUME IInv, IInv', Alive, NEW f \in Slots,
         scheduler.processes[f].active, scheduler.processes[f].zombie,
         scheduler.processes[f].parent = Me.pid,
         ReturnFrom([scheduler EXCEPT !.processes[f] = Empty])
  PROVE  Collected(f)
<1> DEFINE ps == scheduler.processes
           k == [scheduler EXCEPT !.processes[f] = Empty]
<1>1. scheduler \in Scheduler /\ ps \in [Slots -> Process]
  BY MeIsRunning DEF Scheduler
<1>2. Sound(k)
  BY ReapSound DEF IInv, Alive, Me
<1>3. k.processes = [ps EXCEPT ![f] = Empty]
  BY <1>1 DEF Scheduler
<1> HIDE DEF k
<1>4. Follows(k, scheduler')
  BY <1>2, ReturnFollows DEF k
<1> HIDE DEF ps
<1>5. k.processes[f] = Empty /\ \A s \in Slots \ {f} : k.processes[s] = ps[s]
  BY <1>1, <1>3
<1>6. ~scheduler'.processes[f].active
  BY <1>4, <1>5 DEF Follows, SameLife, Empty
<1>7. scheduler'.processes[f] = Empty
  BY <1>6 DEF IInv, Sound, SoundTable, WellFormed
<1> QED BY <1>4, <1>5, <1>7 DEF Collected, Follows, ps

\* fork and spawn give birth to one process, in the first free slot.
LEMMA BirthFollows ==
  ASSUME IInv, ForkCurrent \/ SpawnCurrentWithIo
  PROVE  Born(Min(FreeSlots(scheduler)))
<1>1. Alive
  BY DEF ForkCurrent, SpawnCurrentWithIo, InUserMode
<1>2. Me \in Process /\ scheduler \in Scheduler /\ SoundTable(scheduler.processes)
  BY <1>1, MeIsRunning
<1>3. CASE ForkCurrent
  <2>1. Me.signal_actions \in [Signals -> Dispositions]
    BY <1>2 DEF Process
  <2>2. Sound(Adopt(scheduler, Me.signal_actions))
    BY <1>1, <1>2, <1>3, <2>1, AdoptSound DEF ForkCurrent, CanCreate, IInv, Alive, InUserMode
  <2> QED BY <1>1, <1>2, <1>3, <2>1, <2>2, ForkFollows DEF ForkCurrent
<1>4. CASE SpawnCurrentWithIo
  <2>1. DefaultActions \in [Signals -> Dispositions]
    BY DEF DefaultActions, Dispositions
  <2>2. Sound(Adopt(scheduler, DefaultActions)) /\ ~Adopt(scheduler, DefaultActions).halted
    BY <1>1, <1>2, <1>4, <2>1, AdoptSound DEF SpawnCurrentWithIo, CanCreate, IInv, Alive, InUserMode
  <2> DEFINE k == Schedule(Adopt(scheduler, DefaultActions))
  <2>3. Sound(k) /\ k.processes = Adopt(scheduler, DefaultActions).processes
    BY <2>2, ScheduleSound DEF Sound
  <2>4. CanCreate /\ ReturnFrom(k)
    BY <1>4 DEF SpawnCurrentWithIo
  <2> HIDE DEF k
  <2> QED BY <1>1, <1>4, <2>1, <2>3, <2>4, ForkFollows
<1> QED BY <1>3, <1>4

\* A step gives birth to one process, or collects one zombie for its parent, or
\* leaves every record its identity.
LEMMA NextFollows ==
  ASSUME IInv, Next
  PROVE  \/ /\ ~ForkCurrent /\ ~SpawnCurrentWithIo
            /\ Follows(scheduler, scheduler')
         \/ (ForkCurrent \/ SpawnCurrentWithIo) /\ Born(Min(FreeSlots(scheduler)))
         \/ \E f \in Slots : Collected(f)
<1>1. IInv'
  BY NextSound
<1>2. Alive /\ Me \in Process /\ WellFormed(Me) /\ Eligible(Me)
      /\ scheduler \in Scheduler /\ SoundTable(scheduler.processes)
  <2>1. Alive
    BY DEF Next, Syscall, OtherCall, YieldCurrent, ExitCurrent, ForkCurrent,
           SpawnCurrentWithIo, ExecveCurrent, WaitpidReap, WaitpidBlock, SendSignal,
           SetSignalAction, RestoreSignalContext, TerminateFaultingProcess, TimerTick,
           ReadCharacter, CharacterArrives, InterruptArrives, InUserMode
  <2> QED BY <2>1, MeIsRunning
<1>3. CASE ForkCurrent \/ SpawnCurrentWithIo
  BY <1>3, BirthFollows
<1>4. CASE WaitpidReap
  <2>1. PICK wanted \in Wanted :
          LET dead == Dead(scheduler, Children(scheduler, wanted)) IN
          /\ dead # {}
          /\ ReturnFrom([scheduler EXCEPT !.processes[Min(dead)] = Empty])
    BY <1>4 DEF WaitpidReap
  <2> DEFINE dead == Dead(scheduler, Children(scheduler, wanted))
             f == Min(dead)
  <2>2. f \in dead
    BY <2>1, MinOfNaturals, ConstantFacts DEF Dead, Children
  <2>3. /\ f \in Slots /\ scheduler.processes[f].active /\ scheduler.processes[f].zombie
        /\ scheduler.processes[f].parent = Me.pid
    BY <2>2 DEF Dead, Children, Me
  <2>4. ReturnFrom([scheduler EXCEPT !.processes[f] = Empty])
    BY <2>1
  <2> HIDE DEF f
  <2> QED BY <1>1, <1>2, <2>3, <2>4, ReapFollows
<1> SUFFICES ASSUME ~ForkCurrent, ~SpawnCurrentWithIo, ~WaitpidReap
             PROVE  Follows(scheduler, scheduler')
  BY <1>3, <1>4
<1>5. CASE OtherCall
  BY <1>5, ReturnFollows DEF OtherCall, IInv
<1>6. CASE YieldCurrent
  <2>1. Sound(Schedule(scheduler)) /\ Follows(scheduler, Schedule(scheduler))
    BY <1>2, ScheduleSound, ScheduleFollows DEF Alive
  <2> QED BY <1>6, <2>1, ReturnFollows, FollowsTransitive DEF YieldCurrent
<1>7. CASE ExitCurrent
  <2>1. PICK status \in Statuses :
          ReturnFrom(Exit(SetRunning(scheduler, [Me EXCEPT !.exit_status = status])))
    BY <1>7 DEF ExitCurrent
  <2> DEFINE p == [Me EXCEPT !.exit_status = status]
             h == SetRunning(scheduler, p)
  <2>2. SameProcess(Me, p)
    BY <1>2 DEF SameProcess, WellFormed, Process, Eligible
  <2>3. /\ h \in Scheduler /\ SoundTable(h.processes) /\ ~h.halted
        /\ Running(h) = p /\ p.active /\ ~p.zombie
    BY <1>2, <2>2, RunningUpdate DEF IInv, Alive, Me, SameProcess, Eligible
  <2>4. Follows(scheduler, h)
    BY <1>2, <2>2, RunningFollows
  <2>5. ReturnFrom(Exit(h))
    BY <2>1
  <2> HIDE DEF h, p
  <2>6. Sound(Exit(h)) /\ Follows(h, Exit(h))
    BY <2>3, ExitSound, ExitFollows
  <2>7. Follows(Exit(h), scheduler')
    BY <2>5, <2>6, ReturnFollows
  <2> QED BY <2>4, <2>6, <2>7, FollowsTransitive
<1>8. CASE TerminateFaultingProcess
  <2>1. Follows(scheduler, Exit(scheduler))
    BY <1>2, ExitFollows DEF Alive, Eligible, Me
  <2> QED BY <1>8, <2>1 DEF TerminateFaultingProcess
<1>9. CASE ExecveCurrent
  <2> DEFINE p == NewProcess(Me.pid, Me.parent, Me.signal_actions)
  <2>1. /\ Me.pid \in Pids /\ Me.parent \in 0 .. PidLimit /\ Me.parent < Me.pid
        /\ Me.signal_actions \in [Signals -> Dispositions]
    BY <1>2, SizeAssumption DEF Process, WellFormed, Eligible, Pids
  <2>2. /\ p \in Process /\ WellFormed(p) /\ Eligible(p) /\ p.pid = Me.pid
        /\ p.parent = Me.parent
    BY <2>1, NewProcessFacts
  <2>3. SameProcess(Me, p) /\ ~p.stopped
    BY <1>2, <2>2 DEF SameProcess, Eligible, Process
  <2> QED BY <1>2, <1>9, <2>3, RunningCallFollows DEF ExecveCurrent
<1>10. CASE WaitpidBlock
  <2>1. PICK wanted \in Wanted, mapped \in StatusPointers :
          /\ Children(scheduler, wanted) # {}
          /\ Dead(scheduler, Children(scheduler, wanted)) = {} \/ ~mapped
          /\ ReturnFrom(Schedule(SetRunning(scheduler,
               [Me EXCEPT !.waiting_for = IF wanted > 0 THEN wanted ELSE AnyChild])))
    BY <1>10 DEF WaitpidBlock
  <2> DEFINE p == [Me EXCEPT !.waiting_for = IF wanted > 0 THEN wanted ELSE AnyChild]
             k == Schedule(SetRunning(scheduler, p))
  <2>2. Sound(k)
    BY <1>2, <2>1, BlockSound DEF IInv, Alive, Me
  <2>3. Follows(k, scheduler')
    BY <2>1, <2>2, ReturnFollows
  <2>4. p.pid = Me.pid /\ p.parent = Me.parent /\ p.active = Me.active
    BY <1>2 DEF Process
  <2>5. /\ k.processes = [scheduler.processes EXCEPT ![scheduler.current] = p]
        /\ Me = scheduler.processes[scheduler.current] /\ scheduler.current \in Slots
        /\ scheduler.processes \in [Slots -> Process]
    <3>1. \A h \in {SetRunning(scheduler, p)} : Schedule(h).processes = h.processes
      BY <1>2 DEF Schedule, SetRunning, Scheduler
    <3>2. SetRunning(scheduler, p).processes =
            [scheduler.processes EXCEPT ![scheduler.current] = p]
      BY <1>2 DEF SetRunning, Scheduler
    <3> QED BY <1>2, <3>1, <3>2 DEF Scheduler, Me, Running
  <2>6. LET r == scheduler.processes[scheduler.current] IN
        ~r.zombie /\ p.pid = r.pid /\ p.parent = r.parent /\ p.active = r.active
    BY <1>2, <2>4, <2>5 DEF Eligible
  <2> HIDE DEF p, k
  <2>7. Follows(scheduler, k)
    BY <2>5, <2>6, RecordFollows
  <2> QED BY <2>3, <2>7, FollowsTransitive
<1>11. CASE SendSignal
  <2>1. PICK s \in Slots, q \in Signals :
          /\ scheduler.processes[s].active
          /\ ReturnFrom([scheduler EXCEPT
                            !.processes[s] = Signalled(scheduler.processes[s], q)])
    BY <1>11 DEF SendSignal
  <2> DEFINE p == Signalled(scheduler.processes[s], q)
             k == [scheduler EXCEPT !.processes[s] = p]
  <2>2. Sound(k)
    BY <1>2, <2>1, SignalSound DEF IInv, Alive
  <2>3. Follows(k, scheduler')
    BY <2>1, <2>2, ReturnFollows
  <2>4. scheduler.processes \in [Slots -> Process]
    BY <1>2 DEF Scheduler
  <2>5. SameLife(scheduler.processes[s], p)
    BY <2>4 DEF SameLife, Signalled, Process
  <2>6. k.processes = [scheduler.processes EXCEPT ![s] = p]
    BY <1>2 DEF Scheduler
  <2> HIDE DEF p, k
  <2>7. Follows(scheduler, k)
    BY <2>4, <2>5, <2>6 DEF Follows, SameLife
  <2> QED BY <2>3, <2>7, FollowsTransitive
<1>12. CASE SetSignalAction
  <2>1. PICK q \in Signals \ Unmaskable, handler \in Dispositions :
          ReturnFrom(SetRunning(scheduler, [Me EXCEPT !.signal_actions[q] = handler]))
    BY <1>12 DEF SetSignalAction
  <2> DEFINE p == [Me EXCEPT !.signal_actions[q] = handler]
  <2>2. SameProcess(Me, p) /\ ~p.stopped
    BY <1>2 DEF SameProcess, WellFormed, Process, Eligible
  <2> QED BY <1>2, <2>1, <2>2, RunningCallFollows
<1>13. CASE RestoreSignalContext
  <2> DEFINE p == [Me EXCEPT !.in_handler = FALSE]
  <2>1. SameProcess(Me, p) /\ ~p.stopped
    BY <1>2 DEF SameProcess, WellFormed, Process, Eligible
  <2> QED BY <1>2, <1>13, <2>1, RunningCallFollows DEF RestoreSignalContext
<1>14. CASE TimerTick
  <2> DEFINE count == [Me EXCEPT !.quantum = @ + 1]
             reset == [Me EXCEPT !.quantum = 0]
  <2>1. CASE Me.quantum + 1 < TimerQuantumTicks
    <3>1. Me.quantum + 1 \in 0 .. TimerQuantumTicks - 1
      BY <1>2, <2>1, SizeAssumption DEF Process
    <3>2. SameProcess(Me, count)
      BY <1>2, <3>1 DEF SameProcess, WellFormed, Process, Eligible
    <3> QED BY <1>2, <1>14, <2>1, <3>2, RunningFollows DEF TimerTick
  <2>2. CASE ~(Me.quantum + 1 < TimerQuantumTicks)
    <3>1. 0 \in 0 .. TimerQuantumTicks - 1
      BY SizeAssumption
    <3>2. SameProcess(Me, reset)
      BY <1>2, <3>1 DEF SameProcess, WellFormed, Process, Eligible
    <3> DEFINE h == SetRunning(scheduler, reset)
    <3>3. Follows(scheduler, h) /\ h \in Scheduler /\ SoundTable(h.processes) /\ ~h.halted
      BY <1>2, <3>2, RunningFollows, RunningUpdate DEF IInv, Alive, Me
    <3>4. scheduler' = Schedule(h)
      BY <1>14, <2>2 DEF TimerTick
    <3> HIDE DEF h
    <3> QED BY <3>3, <3>4, ScheduleFollows, FollowsTransitive
  <2> QED BY <2>1, <2>2
<1>15. CASE ReadCharacter
  <2>1. scheduler'.processes = scheduler.processes
    BY <1>15, ReadingSound DEF ReadCharacter, IInv
  <2> QED BY <2>1 DEF Follows, SameLife
<1>16. CASE CharacterArrives
  <2> DEFINE k == [scheduler EXCEPT !.reading = FALSE]
  <2>1. Sound(k) /\ k.processes = scheduler.processes /\ ReturnFrom(k)
    BY <1>16, ReadingSound DEF CharacterArrives, IInv
  <2> HIDE DEF k
  <2>2. Follows(scheduler, k)
    BY <2>1 DEF Follows, SameLife
  <2> QED BY <2>1, <2>2, ReturnFollows, FollowsTransitive
<1>17. CASE InterruptArrives
  <2> DEFINE p == Signalled(Me, "INT")
  <2>1. /\ SameProcess(Me, p) /\ Sound(Interrupted) /\ ReturnFrom(Interrupted)
        /\ Interrupted.processes = [scheduler.processes EXCEPT ![scheduler.current] = p]
    BY <1>2, <1>17, InterruptSound DEF InterruptArrives, Interrupted
  <2> HIDE DEF p
  <2>2. SetRunning(scheduler, p).processes = Interrupted.processes
    BY <1>2, <2>1, SetRunningType DEF SameProcess
  <2>3. Follows(scheduler, SetRunning(scheduler, p))
    BY <1>2, <2>1, RunningFollows
  <2>4. Follows(scheduler, Interrupted)
    BY <2>2, <2>3 DEF Follows
  <2> QED BY <2>1, <2>4, ReturnFollows, FollowsTransitive
<1> QED BY <1>5, <1>6, <1>7, <1>8, <1>9, <1>10, <1>11, <1>12, <1>13, <1>14, <1>15,
           <1>16, <1>17
        DEF Next, Syscall

\* A zombie keeps its identity and its exit code until a call of its parent
\* collects it; no other step touches it.
THEOREM ZombiesAlwaysKept == Spec => ZombiesAreKept
<1>1. IInv /\ [Next]_vars => [ZombieIsKept]_vars
  <2> SUFFICES ASSUME IInv, Next, NEW s \in Slots, scheduler.processes[s].zombie
               PROVE  LET p == scheduler.processes[s]
                          q == scheduler'.processes[s] IN
                      \/ /\ q.zombie /\ q.active
                         /\ <<q.pid, q.parent, q.exit_status>> =
                              <<p.pid, p.parent, p.exit_status>>
                      \/ q = Empty /\ Me.pid = p.parent
    BY DEF ZombieIsKept
  <2>1. scheduler.processes[s].active
    BY DEF IInv, Sound, SoundTable, WellFormed
  <2>2. \/ SameLife(scheduler.processes[s], scheduler'.processes[s])
        \/ Collected(s)
    BY <2>1, NextFollows DEF Follows, Born, Collected
  <2> QED BY <2>1, <2>2 DEF SameLife, Collected
<1> QED BY <1>1, SchedulerIsSound, PTL DEF Spec, ZombiesAreKept

-----------------------------------------------------------------------------
(* Signals: what a step does to what is pending for a process, and to a    *)
(* stopped one.                                                            *)

\* sigaction refuses KILL and STOP: their disposition is the default.
Guarded(p) == \A q \in Signals \cap Unmaskable : p.signal_actions[q] = "default"
UnmaskableAreDefault == \A s \in Slots : Guarded(scheduler.processes[s])

\* The fields signals depend on are as they were.
Undisturbed(p, q) ==
  /\ q.pid = p.pid /\ q.active = p.active /\ q.stopped = p.stopped /\ q.zombie = p.zombie
  /\ q.pending_signals = p.pending_signals /\ q.signal_actions = p.signal_actions
  /\ q.in_handler = p.in_handler

\* Signal sig had its effect when delivery made q of p.
HasEffect(p, sig, q) ==
  \/ sig = "STOP" /\ q.stopped
  \/ sig = "CONT" /\ q.signal_actions[sig] = "default"
  \/ sig \notin Unmaskable /\ q.signal_actions[sig] = "ignore"
  \/ /\ q.signal_actions[sig] = "handler" /\ q.in_handler /\ ~p.in_handler
     /\ \A other \in p.pending_signals \ {sig} :
          q.signal_actions[other] = "handler" => other \in q.pending_signals
DeliveredTo(p, q) ==
  /\ q.signal_actions = p.signal_actions
  /\ \/ q.zombie
     \/ \A sig \in p.pending_signals \ q.pending_signals : HasEffect(p, sig, q)

\* Between k and h signals were delivered to the running process of k only.
Delivers(k, h) ==
  \A s \in Slots :
    LET p == k.processes[s]
        q == h.processes[s]
    IN \/ Undisturbed(p, q)
       \/ s = k.current /\ Eligible(p) /\ DeliveredTo(p, q)

\* Before delivery, record p of slot s became q in k: nothing pending was lost.
Passes(p, q) ==
  \/ ExecveCurrent \/ q.zombie \/ ~q.active
  \/ /\ p.pending_signals \subseteq q.pending_signals
     /\ p.in_handler => q.in_handler \/ RestoreSignalContext
Rests(s, k, p, q) ==
  p.stopped =>
    /\ q.pid = p.pid
    /\ q.stopped \/ (s # k.current /\ {"CONT", "KILL"} \cap q.pending_signals # {})
Prepared(k) ==
  \A s \in Slots :
    LET p == scheduler.processes[s]
        q == k.processes[s]
    IN Guarded(q) /\ Passes(p, q) /\ Rests(s, k, p, q)

\* The signals have distinct ranks, and the loop starts with the least.
LEMMA RanksDiffer ==
  /\ \A q \in Signals : Rank[q] \in Nat
  /\ \A q, r \in Signals : Rank[q] = Rank[r] => q = r
  /\ "KILL" \in Signals => \A q \in Signals : Rank["KILL"] <= Rank[q]
BY InputAssumption DEF Rank

LEMMA MostUrgentIsFirst ==
  ASSUME NEW S \in SUBSET Signals, S # {}
  PROVE  MostUrgent(S) \in S /\ \A r \in S : Rank[MostUrgent(S)] <= Rank[r]
<1> DEFINE Ranks == {Rank[q] : q \in S}
<1>1. Ranks \in SUBSET Nat /\ Ranks # {}
  BY RanksDiffer
<1>2. Min(Ranks) \in Ranks /\ \A x \in Ranks : Min(Ranks) <= x
  BY <1>1, MinOfNaturals
<1>3. PICK q \in S : Rank[q] = Min(Ranks)
  BY <1>2
<1>4. \A r \in S : Rank[q] <= Rank[r]
  BY <1>2, <1>3
<1> QED BY <1>4, Zenon DEF MostUrgent

\* The end of a process disturbs no other, and makes it a zombie.
LEMMA ExitDisturbsNobody ==
  ASSUME NEW k \in Scheduler, SoundTable(k.processes), ~k.halted
  PROVE  \A s \in Slots :
           LET p == k.processes[s]
               q == Exit(k).processes[s]
           IN IF s = k.current THEN q.zombie /\ q.signal_actions = p.signal_actions
              ELSE Undisturbed(p, q)
<1> DEFINE ps == k.processes
           qs == Buried(k)
           h == [k EXCEPT !.processes = qs]
<1>1. ps \in [Slots -> Process] /\ k.current \in Slots
  BY DEF Scheduler
<1>2. \A s \in Slots : qs[s] =
        IF s = k.current THEN Zombie(ps[s])
        ELSE IF ps[s].waiting_for = Running(k).pid THEN Woken(ps[s]) ELSE ps[s]
  BY DEF Buried
<1>3. \A s \in Slots : /\ Undisturbed(ps[s], Woken(ps[s])) /\ Undisturbed(ps[s], ps[s])
                       /\ Zombie(ps[s]).zombie
                       /\ Zombie(ps[s]).signal_actions = ps[s].signal_actions
  BY <1>1 DEF Undisturbed, Woken, Zombie, Process
<1>4. Exit(k).processes = qs
  <2>1. h.processes = qs
    BY DEF Scheduler
  <2>2. Schedule(h).processes = h.processes
    BY DEF Schedule, Scheduler
  <2> QED BY <2>1, <2>2 DEF Exit
<1> HIDE DEF ps, qs
<1>5. \A s \in Slots :
        IF s = k.current THEN qs[s].zombie /\ qs[s].signal_actions = ps[s].signal_actions
        ELSE Undisturbed(ps[s], qs[s])
  BY <1>2, <1>3
<1> QED BY <1>4, <1>5 DEF ps

\* What Deliver does when it acts on signal q: every signal up to q is gone.
LEMMA TakenHaveEffect ==
  ASSUME NEW p \in Process, Guarded(p), Deliverable(p) # {}, NEW r,
         r.signal_actions = p.signal_actions,
         r.pending_signals =
           {x \in p.pending_signals : Rank[x] > Rank[MostUrgent(Deliverable(p))]},
         \/ MostUrgent(Deliverable(p)) = "STOP" /\ r.stopped
         \/ /\ p.signal_actions[MostUrgent(Deliverable(p))] = "handler"
            /\ MostUrgent(Deliverable(p)) # "STOP" /\ r.in_handler
  PROVE  \A sig \in p.pending_signals \ r.pending_signals : HasEffect(p, sig, r)
<1> DEFINE D == Deliverable(p)
           q == MostUrgent(D)
<1>1. p.pending_signals \in SUBSET Signals /\ p.signal_actions \in [Signals -> Dispositions]
  BY DEF Process
<1>2. q \in D /\ \A x \in D : Rank[q] <= Rank[x]
  BY <1>1, MostUrgentIsFirst DEF Deliverable
<1>3. q \in Signals /\ q \in p.pending_signals
  BY <1>1, <1>2 DEF Deliverable
<1>4. /\ r.signal_actions = p.signal_actions
      /\ r.pending_signals = {x \in p.pending_signals : Rank[x] > Rank[q]}
      /\ \/ q = "STOP" /\ r.stopped
         \/ p.signal_actions[q] = "handler" /\ q # "STOP" /\ r.in_handler
  OBVIOUS
<1> SUFFICES ASSUME NEW sig \in p.pending_signals, sig \notin r.pending_signals
             PROVE  HasEffect(p, sig, r)
  OBVIOUS
<1> HIDE DEF q
<1>5. sig \in Signals /\ Rank[sig] <= Rank[q]
  <2>1. sig \in Signals /\ ~(Rank[sig] > Rank[q])
    BY <1>1, <1>4
  <2> QED BY <1>3, <2>1, RanksDiffer
<1>6. CASE sig = q
  <2>1. CASE q = "STOP" /\ r.stopped
    BY <1>6, <2>1 DEF HasEffect
  <2>2. CASE p.signal_actions[q] = "handler" /\ q # "STOP" /\ r.in_handler
    <3>1. q \notin Unmaskable
      BY <1>3, <2>2 DEF Guarded
    <3>2. ~p.in_handler
      BY <1>2, <3>1 DEF Deliverable
    <3>3. ASSUME NEW other \in p.pending_signals, other # sig,
                 r.signal_actions[other] = "handler"
          PROVE  other \in r.pending_signals
      <4>1. other \in D
        BY <1>4, <3>2, <3>3 DEF Deliverable
      <4>2. Rank[q] <= Rank[other] /\ Rank[q] # Rank[other]
        BY <1>1, <1>2, <1>3, <1>6, <3>3, <4>1, RanksDiffer
      <4>3. Rank[other] > Rank[q]
        BY <1>1, <1>3, <4>2, RanksDiffer
      <4> QED BY <1>4, <4>3
    <3> QED BY <1>4, <1>6, <2>2, <3>2, <3>3 DEF HasEffect
  <2> QED BY <1>4, <2>1, <2>2
<1>7. CASE sig # q
  <2>1. sig \notin D
    BY <1>2, <1>3, <1>5, <1>7, RanksDiffer
  <2>2. p.signal_actions[sig] \in Dispositions
    BY <1>1, <1>5
  <2>3. sig \notin Unmaskable
    BY <2>1 DEF D, Deliverable
  <2>4. ~p.in_handler
    <3>1. CASE q = "STOP"
      <4>1. sig = "KILL"
        BY <1>5, <1>7, <3>1, InputAssumption DEF Rank
      <4> QED BY <2>3, <4>1 DEF Unmaskable
    <3>2. CASE q # "STOP"
      <4>1. q \notin Unmaskable
        BY <1>3, <1>4, <3>2 DEF Guarded
      <4> QED BY <1>2, <4>1 DEF Deliverable
    <3> QED BY <3>1, <3>2
  <2>5. /\ p.signal_actions[sig] # "handler"
        /\ p.signal_actions[sig] = "default" => sig \notin Terminating
    BY <2>1, <2>4 DEF D, Deliverable
  <2>6. sig \in {"KILL", "STOP", "CONT", "HUP", "INT", "SEGV", "TERM"}
    BY <1>5, InputAssumption DEF Rank
  <2>7. \/ sig = "CONT" /\ p.signal_actions[sig] = "default"
        \/ p.signal_actions[sig] = "ignore"
    BY <2>2, <2>3, <2>5, <2>6 DEF Dispositions, Terminating, Unmaskable
  <2> QED BY <1>4, <2>3, <2>7 DEF HasEffect
<1> QED BY <1>6, <1>7

\* Delivery disturbs nobody but the running process, and acts on its signals.
LEMMA DeliverDelivers ==
  ASSUME NEW k, Sound(k), NEW m \in BOOLEAN, \A s \in Slots : Guarded(k.processes[s])
  PROVE  Delivers(k, Deliver(k, m))
<1> DEFINE me == Running(k)
           q == MostUrgent(Deliverable(me))
           Left(r) == {x \in me.pending_signals : Rank[x] > Rank[r]}
           taken == [me EXCEPT !.pending_signals = Left(q)]
           held == [taken EXCEPT !.stopped = TRUE]
           caught == [taken EXCEPT !.in_handler = TRUE]
           cleared == [me EXCEPT !.pending_signals = {}]
<1>1. Delivers(k, k)
  BY DEF Delivers, Undisturbed
<1>2. CASE k.halted
  BY <1>1, <1>2 DEF Deliver
<1>3. CASE ~k.halted
  <2>1. /\ k \in Scheduler /\ me \in Process /\ WellFormed(me) /\ Eligible(me)
        /\ k.current \in Slots /\ me = k.processes[k.current]
        /\ k.processes \in [Slots -> Process] /\ SoundTable(k.processes) /\ Guarded(me)
    BY <1>3, SetRunningType DEF Sound, SoundCpu, SoundTable, Running, Scheduler
  <2>2. ASSUME NEW h, NEW p, h.processes = [k.processes EXCEPT ![k.current] = p],
               DeliveredTo(me, p)
        PROVE  Delivers(k, h)
    BY <2>1, <2>2 DEF Delivers, Undisturbed
  <2>3. ASSUME NEW S \in SUBSET me.pending_signals
        PROVE  LET p == [me EXCEPT !.pending_signals = S] IN
               /\ SameProcess(me, p)
               /\ SameProcess(me, [p EXCEPT !.in_handler = TRUE])
               /\ "KILL" \notin S => SameProcess(me, [p EXCEPT !.stopped = TRUE])
    BY <2>1 DEF SameProcess, WellFormed, Process, Eligible
  <2>4. CASE Deliverable(me) = {}
    <3>1. CASE me.in_handler
      BY <1>1, <1>3, <2>4, <3>1 DEF Deliver
    <3>2. CASE ~me.in_handler
      <4>1. Deliver(k, m) = SetRunning(k, cleared)
        BY <1>3, <2>4, <3>2 DEF Deliver
      <4>2. /\ SetRunning(k, cleared).processes = [k.processes EXCEPT ![k.current] = cleared]
            /\ cleared.pending_signals = {} /\ cleared.signal_actions = me.signal_actions
        <5>1. SameProcess(me, cleared)
          BY <2>3
        <5>2. cleared.pending_signals = {} /\ cleared.signal_actions = me.signal_actions
          BY <2>1 DEF Process
        <5> HIDE DEF cleared, me
        <5> QED BY <2>1, <5>1, <5>2, SetRunningType DEF SameProcess
      <4>3. ASSUME NEW sig \in me.pending_signals
            PROVE  \/ sig = "CONT" /\ me.signal_actions[sig] = "default"
                   \/ sig \notin Unmaskable /\ me.signal_actions[sig] = "ignore"
        <5>1. /\ sig \in {"KILL", "STOP", "CONT", "HUP", "INT", "SEGV", "TERM"}
              /\ me.signal_actions[sig] \in Dispositions
          BY <2>1, InputAssumption DEF Process, Rank
        <5>2. sig \notin Deliverable(me)
          BY <2>4
        <5> QED BY <3>2, <5>1, <5>2 DEF Deliverable, Dispositions, Terminating, Unmaskable
      <4>4. DeliveredTo(me, cleared)
        BY <4>2, <4>3 DEF DeliveredTo, HasEffect
      <4> QED BY <2>2, <4>1, <4>2, <4>4
    <3> QED BY <3>1, <3>2
  <2>5. CASE Deliverable(me) # {}
    <3>1. Deliver(k, m) =
            IF q = "STOP" THEN Schedule(SetRunning(k, held))
            ELSE IF me.signal_actions[q] = "handler" /\ m
                 THEN SetRunning(k, caught) ELSE Exit(SetRunning(k, taken))
      BY <1>3, <2>5 DEF Deliver
    <3>2. Left(q) \in SUBSET me.pending_signals
      OBVIOUS
    <3>3. SameProcess(me, taken) /\ SameProcess(me, caught)
      BY <2>3, <3>2
    <3>4. /\ held.pending_signals = Left(q) /\ caught.pending_signals = Left(q)
          /\ held.signal_actions = me.signal_actions
          /\ caught.signal_actions = me.signal_actions
          /\ taken.signal_actions = me.signal_actions
          /\ held.stopped /\ caught.in_handler
      BY <2>1 DEF Process
    <3>5. CASE q = "STOP"
      <4> DEFINE h == SetRunning(k, held)
      <4>1. "KILL" \notin Left(q)
        BY <3>5 DEF Rank
      <4>2. SameProcess(me, held)
        BY <2>3, <3>2, <4>1
      <4>3. /\ h \in Scheduler /\ SoundTable(h.processes) /\ ~h.halted
            /\ h.processes = [k.processes EXCEPT ![k.current] = held]
        BY <1>3, <2>1, <4>2, RunningUpdate, SetRunningType DEF SameProcess
      <4>4. DeliveredTo(me, held)
        <5> HIDE DEF held, me
        <5>1. \A sig \in me.pending_signals \ held.pending_signals : HasEffect(me, sig, held)
          BY <2>1, <2>5, <3>4, <3>5, TakenHaveEffect
        <5> QED BY <3>4, <5>1 DEF DeliveredTo
      <4> HIDE DEF h, held, me
      <4>5. Schedule(h).processes = h.processes
        BY <4>3, ScheduleSound
      <4> QED BY <2>2, <3>1, <3>5, <4>3, <4>4, <4>5 DEF h
    <3>6. CASE q # "STOP" /\ me.signal_actions[q] = "handler" /\ m
      <4>1. DeliveredTo(me, caught)
        <5> HIDE DEF caught, me
        <5>1. \A sig \in me.pending_signals \ caught.pending_signals : HasEffect(me, sig, caught)
          BY <2>1, <2>5, <3>4, <3>6, TakenHaveEffect
        <5> QED BY <3>4, <5>1 DEF DeliveredTo
      <4>2. SetRunning(k, caught).processes = [k.processes EXCEPT ![k.current] = caught]
        BY <2>1, <3>3, SetRunningType DEF SameProcess
      <4> HIDE DEF caught, me
      <4> QED BY <2>2, <3>1, <3>6, <4>1, <4>2
    <3>7. CASE q # "STOP" /\ ~(me.signal_actions[q] = "handler" /\ m)
      <4> DEFINE h == SetRunning(k, taken)
                 g == Exit(h)
      <4>1. /\ h \in Scheduler /\ SoundTable(h.processes) /\ ~h.halted
            /\ h.processes = [k.processes EXCEPT ![k.current] = taken]
            /\ h.current = k.current
        BY <1>3, <2>1, <3>3, RunningUpdate, SetRunningType DEF SameProcess
      <4> HIDE DEF h, taken, me
      <4>2. \A s \in Slots :
              IF s = k.current THEN g.processes[s].zombie
                                    /\ g.processes[s].signal_actions = h.processes[s].signal_actions
              ELSE Undisturbed(h.processes[s], g.processes[s])
        BY <4>1, ExitDisturbsNobody
      <4>3. Deliver(k, m) = g
        BY <3>1, <3>7 DEF h
      <4> HIDE DEF g
      <4>4. ASSUME NEW s \in Slots, s # k.current
            PROVE  Undisturbed(k.processes[s], g.processes[s])
        BY <2>1, <4>1, <4>2, <4>4
      <4>5. Eligible(k.processes[k.current]) /\ DeliveredTo(k.processes[k.current], g.processes[k.current])
        BY <2>1, <3>4, <4>1, <4>2 DEF DeliveredTo
      <4> QED BY <4>3, <4>4, <4>5 DEF Delivers
    <3> QED BY <3>5, <3>6, <3>7
  <2> QED BY <2>4, <2>5
<1> QED BY <1>2, <1>3

\* A step that prepares k, and delivers signals between k and the next state or
\* does not, keeps the dispositions of KILL and STOP and obeys both properties.
SignalsAreSafe == UnmaskableAreDefault' /\ SignalHasEffect /\ StoppedIsResumed

LEMMA PreparedIsSafe ==
  ASSUME IInv, Alive, NEW k, Prepared(k), Delivers(k, scheduler')
  PROVE  SignalsAreSafe
<1> DEFINE Pre(s) == scheduler.processes[s]
           Mid(s) == k.processes[s]
           Post(s) == scheduler'.processes[s]
<1>1. ASSUME NEW s \in Slots
      PROVE  /\ Guarded(Mid(s)) /\ Passes(Pre(s), Mid(s)) /\ Rests(s, k, Pre(s), Mid(s))
             /\ \/ Undisturbed(Mid(s), Post(s))
                \/ s = k.current /\ Eligible(Mid(s)) /\ DeliveredTo(Mid(s), Post(s))
  BY DEF Prepared, Delivers
<1>2. ASSUME NEW s \in Slots, Pre(s).stopped
      PROVE  Me.pid # Pre(s).pid
  <2>1. Eligible(Me) /\ Me = Pre(scheduler.current) /\ scheduler.current \in Slots
    BY MeIsRunning DEF Me, Running, Scheduler
  <2>2. Pre(s).active
    BY <1>2 DEF IInv, Sound, SoundTable, WellFormed, Empty
  <2>3. s # scheduler.current
    BY <1>2, <2>1 DEF Eligible
  <2> QED BY <2>1, <2>2, <2>3, MeIsRunning DEF Eligible, SoundTable
<1> HIDE DEF Pre, Mid, Post
<1>3. UnmaskableAreDefault'
  <2>1. ASSUME NEW s \in Slots PROVE Guarded(Post(s))
    BY <1>1 DEF Undisturbed, DeliveredTo, Guarded
  <2> QED BY <2>1 DEF UnmaskableAreDefault, Post
<1>4. ASSUME NEW s \in Slots, Pre(s).stopped, ~Post(s).stopped
      PROVE  /\ {"CONT", "KILL"} \cap Post(s).pending_signals # {}
             /\ Me.pid # Pre(s).pid /\ Post(s).pid = Pre(s).pid
  BY <1>1, <1>2, <1>4 DEF Rests, Undisturbed, Eligible
<1>5. ASSUME ~ExecveCurrent, NEW s \in Slots, ~Post(s).zombie, Post(s).active,
             NEW sig \in Pre(s).pending_signals, sig \notin Post(s).pending_signals
      PROVE  \/ sig = "STOP" /\ Post(s).stopped
             \/ sig = "CONT" /\ Post(s).signal_actions[sig] = "default"
             \/ sig \notin Unmaskable /\ Post(s).signal_actions[sig] = "ignore"
             \/ /\ Post(s).signal_actions[sig] = "handler"
                /\ Post(s).in_handler /\ (Pre(s).in_handler => RestoreSignalContext)
                /\ \A other \in Pre(s).pending_signals \ {sig} :
                     Post(s).signal_actions[other] = "handler" =>
                       other \in Post(s).pending_signals
  <2>1. CASE Undisturbed(Mid(s), Post(s))
    BY <1>1, <1>5, <2>1 DEF Undisturbed, Passes
  <2>2. CASE Eligible(Mid(s)) /\ DeliveredTo(Mid(s), Post(s))
    <3>1. /\ Pre(s).pending_signals \subseteq Mid(s).pending_signals
          /\ Pre(s).in_handler => Mid(s).in_handler \/ RestoreSignalContext
      BY <1>1, <1>5, <2>2 DEF Passes, Eligible
    <3>2. HasEffect(Mid(s), sig, Post(s))
      BY <1>5, <2>2, <3>1 DEF DeliveredTo
    <3> QED BY <3>1, <3>2 DEF HasEffect
  <2> QED BY <1>1, <2>1, <2>2
<1>6. SignalHasEffect
  BY <1>5 DEF SignalHasEffect, Pre, Post
<1>7. StoppedIsResumed
  BY <1>4 DEF StoppedIsResumed, Pre, Post
<1> QED BY <1>3, <1>6, <1>7 DEF SignalsAreSafe

LEMMA ReturnIsSafe ==
  ASSUME IInv, Alive, NEW k, Sound(k), Prepared(k), ReturnFrom(k)
  PROVE  SignalsAreSafe
<1>1. PICK m \in StacksMapped : scheduler' = Deliver(k, m)
  BY DEF ReturnFrom
<1>2. \A s \in Slots : Guarded(k.processes[s])
  BY DEF Prepared
<1>3. Delivers(k, scheduler')
  BY <1>1, <1>2, DeliverDelivers, InputAssumption
<1> QED BY <1>3, PreparedIsSafe

\* A step without a way out through deliver_pending_signal.
LEMMA DirectIsSafe ==
  ASSUME IInv, Alive, Prepared(scheduler')
  PROVE  SignalsAreSafe
<1>1. Delivers(scheduler', scheduler')
  BY DEF Delivers, Undisturbed
<1> DEFINE k == scheduler'
<1>2. Prepared(k) /\ Delivers(k, scheduler')
  BY <1>1
<1> HIDE DEF k
<1> QED BY <1>2, PreparedIsSafe

\* A record that nothing disturbs is prepared.
LEMMA UndisturbedIsPrepared ==
  ASSUME NEW k, NEW s \in Slots, NEW p, NEW q, Guarded(p), Undisturbed(p, q)
  PROVE  Guarded(q) /\ Passes(p, q) /\ Rests(s, k, p, q)
BY DEF Guarded, Undisturbed, Passes, Rests

\* One record of a process that is not stopped changes.
LEMMA OnePrepared ==
  ASSUME UnmaskableAreDefault, scheduler.processes \in [Slots -> Process],
         NEW k, NEW i \in Slots, NEW q,
         k.processes = [scheduler.processes EXCEPT ![i] = q],
         ~scheduler.processes[i].stopped, Guarded(q), Passes(scheduler.processes[i], q)
  PROVE  Prepared(k)
<1> SUFFICES ASSUME NEW s \in Slots
             PROVE  /\ Guarded(k.processes[s])
                    /\ Passes(scheduler.processes[s], k.processes[s])
                    /\ Rests(s, k, scheduler.processes[s], k.processes[s])
  BY DEF Prepared
<1>1. CASE s = i
  BY <1>1 DEF Rests
<1>2. CASE s # i
  <2>1. k.processes[s] = scheduler.processes[s] /\ Guarded(scheduler.processes[s])
    BY <1>2 DEF UnmaskableAreDefault
  <2>2. Undisturbed(scheduler.processes[s], k.processes[s])
    BY <2>1 DEF Undisturbed
  <2> QED BY <2>1, <2>2, UndisturbedIsPrepared
<1> QED BY <1>1, <1>2

\* No record changes.
LEMMA SamePrepared ==
  ASSUME UnmaskableAreDefault, NEW k, k.processes = scheduler.processes
  PROVE  Prepared(k)
BY DEF UnmaskableAreDefault, Prepared, Passes, Rests

\* A call that changes the caller's record only, before it gives the CPU away or not.
LEMMA OwnCallIsSafe ==
  ASSUME IInv, UnmaskableAreDefault, Alive, NEW q, Guarded(q), Passes(Me, q),
         NEW k, Sound(k),
         k.processes = [scheduler.processes EXCEPT ![scheduler.current] = q],
         ReturnFrom(k)
  PROVE  SignalsAreSafe
<1>1. /\ scheduler.processes \in [Slots -> Process] /\ scheduler.current \in Slots
      /\ Me = scheduler.processes[scheduler.current] /\ ~Me.stopped
  BY MeIsRunning DEF Scheduler, Me, Running, Eligible
<1>2. Prepared(k)
  BY <1>1, OnePrepared
<1> QED BY <1>2, ReturnIsSafe

\* A call that keeps the caller's identity and returns to it.
LEMMA RunningCallIsSafe ==
  ASSUME IInv, UnmaskableAreDefault, Alive, NEW q, SameProcess(Me, q), ~q.stopped,
         Guarded(q), Passes(Me, q), ReturnFrom(SetRunning(scheduler, q))
  PROVE  SignalsAreSafe
<1> DEFINE k == SetRunning(scheduler, q)
<1>1. Sound(k)
  BY RunningUpdate DEF IInv, Alive, Me
<1>2. k.processes = [scheduler.processes EXCEPT ![scheduler.current] = q]
  BY MeIsRunning, SetRunningType DEF SameProcess
<1>3. ReturnFrom(k)
  OBVIOUS
<1> HIDE DEF k
<1> QED BY <1>1, <1>2, <1>3, OwnCallIsSafe

\* The end of the running process, as h has it.
LEMMA ExitIsPrepared ==
  ASSUME IInv, UnmaskableAreDefault, Alive, NEW h \in Scheduler,
         SoundTable(h.processes), ~h.halted, h.current = scheduler.current,
         \A s \in Slots : s # h.current => h.processes[s] = scheduler.processes[s],
         Guarded(h.processes[h.current])
  PROVE  Prepared(Exit(h))
<1>1. /\ scheduler.current \in Slots /\ Me = scheduler.processes[scheduler.current]
      /\ ~Me.stopped
  BY MeIsRunning DEF Scheduler, Me, Running, Eligible
<1> DEFINE g == Exit(h)
<1>2. \A s \in Slots :
        IF s = h.current
        THEN g.processes[s].zombie
             /\ g.processes[s].signal_actions = h.processes[s].signal_actions
        ELSE Undisturbed(h.processes[s], g.processes[s])
  BY ExitDisturbsNobody
<1> HIDE DEF g
<1> SUFFICES ASSUME NEW s \in Slots
             PROVE  /\ Guarded(g.processes[s])
                    /\ Passes(scheduler.processes[s], g.processes[s])
                    /\ Rests(s, g, scheduler.processes[s], g.processes[s])
  BY DEF Prepared, g
<1>3. CASE s = h.current
  BY <1>1, <1>2, <1>3 DEF Guarded, Passes, Rests
<1>4. CASE s # h.current
  <2>1. Undisturbed(scheduler.processes[s], g.processes[s]) /\ Guarded(scheduler.processes[s])
    BY <1>2, <1>4 DEF UnmaskableAreDefault
  <2> QED BY <2>1, UndisturbedIsPrepared
<1> QED BY <1>3, <1>4

\* A new process in a free slot.
LEMMA BirthIsSafe ==
  ASSUME IInv, UnmaskableAreDefault, Alive, CanCreate,
         NEW actions \in [Signals -> Dispositions],
         \A q \in Signals \cap Unmaskable : actions[q] = "default",
         NEW k, Sound(k), k.processes = Adopt(scheduler, actions).processes, ReturnFrom(k)
  PROVE  SignalsAreSafe
<1> DEFINE f == Min(FreeSlots(scheduler))
           p == NewProcess(NextPid(scheduler), Me.pid, actions)
           ps == scheduler.processes
<1>1. scheduler \in Scheduler /\ ps \in [Slots -> Process]
  BY MeIsRunning DEF Scheduler
<1>2. f \in Slots /\ ~ps[f].active
  BY <1>1, FreshProcess DEF CanCreate
<1>3. ps[f] = Empty
  BY <1>2 DEF IInv, Sound, SoundTable, WellFormed
<1>4. k.processes = [ps EXCEPT ![f] = p]
  BY <1>1 DEF Adopt, Scheduler, Me
<1>5. p.signal_actions = actions
  BY DEF NewProcess, Empty
<1> HIDE DEF p, f
<1>6. ~ps[f].stopped /\ Guarded(p) /\ Passes(ps[f], p)
  BY <1>3, <1>5 DEF Guarded, Passes, Empty
<1>7. Prepared(k)
  BY <1>1, <1>2, <1>4, <1>6, OnePrepared
<1> QED BY <1>7, ReturnIsSafe

\* Every action keeps the dispositions and obeys both properties.
LEMMA NextIsSafe ==
  ASSUME IInv, UnmaskableAreDefault, Next
  PROVE  SignalsAreSafe
<1>1. Alive
  BY DEF Next, Syscall, OtherCall, YieldCurrent, ExitCurrent, ForkCurrent,
         SpawnCurrentWithIo, ExecveCurrent, WaitpidReap, WaitpidBlock, SendSignal,
         SetSignalAction, RestoreSignalContext, TerminateFaultingProcess, TimerTick,
         ReadCharacter, CharacterArrives, InterruptArrives, InUserMode
<1>2. /\ Me \in Process /\ WellFormed(Me) /\ Eligible(Me)
      /\ scheduler \in Scheduler /\ SoundTable(scheduler.processes)
      /\ scheduler.processes \in [Slots -> Process] /\ scheduler.current \in Slots
      /\ Me = scheduler.processes[scheduler.current]
  BY <1>1, MeIsRunning DEF Scheduler, Me, Running
<1>3. Guarded(Me)
  BY <1>2 DEF UnmaskableAreDefault
<1>4. CASE OtherCall
  BY <1>1, <1>4, SamePrepared, ReturnIsSafe DEF OtherCall, IInv
<1>5. CASE YieldCurrent
  <2> DEFINE k == Schedule(scheduler)
  <2>1. Sound(k) /\ k.processes = scheduler.processes
    BY <1>1, <1>2, ScheduleSound DEF Alive
  <2>2. ReturnFrom(k)
    BY <1>5 DEF YieldCurrent
  <2> HIDE DEF k
  <2> QED BY <1>1, <2>1, <2>2, SamePrepared, ReturnIsSafe
<1>6. CASE ExitCurrent
  <2>1. PICK status \in Statuses :
          ReturnFrom(Exit(SetRunning(scheduler, [Me EXCEPT !.exit_status = status])))
    BY <1>6 DEF ExitCurrent
  <2> DEFINE p == [Me EXCEPT !.exit_status = status]
             h == SetRunning(scheduler, p)
  <2>2. SameProcess(Me, p) /\ p.signal_actions = Me.signal_actions
    BY <1>2 DEF SameProcess, WellFormed, Process, Eligible
  <2>3. /\ h \in Scheduler /\ SoundTable(h.processes) /\ ~h.halted
        /\ Running(h) = p /\ p.active
    BY <1>1, <1>2, <2>2, RunningUpdate DEF IInv, Alive, Me
  <2>4. /\ h.processes = [scheduler.processes EXCEPT ![scheduler.current] = p]
        /\ h.current = scheduler.current
    BY <1>2, <2>2, SetRunningType DEF SameProcess
  <2>5. ReturnFrom(Exit(h))
    BY <2>1
  <2> HIDE DEF h, p
  <2>6. /\ \A s \in Slots : s # h.current => h.processes[s] = scheduler.processes[s]
        /\ Guarded(h.processes[h.current])
    BY <1>2, <1>3, <2>2, <2>4 DEF Guarded
  <2>7. Sound(Exit(h)) /\ Prepared(Exit(h))
    BY <1>1, <2>3, <2>4, <2>6, ExitSound, ExitIsPrepared
  <2> QED BY <1>1, <2>5, <2>7, ReturnIsSafe
<1>7. CASE TerminateFaultingProcess
  <2>1. Prepared(Exit(scheduler))
    BY <1>1, <1>2, <1>3, ExitIsPrepared DEF Alive
  <2> QED BY <1>1, <1>7, <2>1, DirectIsSafe DEF TerminateFaultingProcess
<1>8. CASE ForkCurrent
  <2>1. Me.signal_actions \in [Signals -> Dispositions]
    BY <1>2 DEF Process
  <2>2. Sound(Adopt(scheduler, Me.signal_actions))
    BY <1>1, <1>2, <1>8, <2>1, AdoptSound DEF ForkCurrent, CanCreate, IInv, Alive, InUserMode
  <2> QED BY <1>1, <1>3, <1>8, <2>1, <2>2, BirthIsSafe DEF ForkCurrent, Guarded
<1>9. CASE SpawnCurrentWithIo
  <2>1. DefaultActions \in [Signals -> Dispositions]
        /\ \A q \in Signals \cap Unmaskable : DefaultActions[q] = "default"
    BY DEF DefaultActions, Dispositions
  <2>2. Sound(Adopt(scheduler, DefaultActions)) /\ ~Adopt(scheduler, DefaultActions).halted
    BY <1>1, <1>2, <1>9, <2>1, AdoptSound DEF SpawnCurrentWithIo, CanCreate, IInv, Alive, InUserMode
  <2> DEFINE k == Schedule(Adopt(scheduler, DefaultActions))
  <2>3. Sound(k) /\ k.processes = Adopt(scheduler, DefaultActions).processes
    BY <2>2, ScheduleSound DEF Sound
  <2>4. CanCreate /\ ReturnFrom(k)
    BY <1>9 DEF SpawnCurrentWithIo
  <2> HIDE DEF k
  <2> QED BY <1>1, <2>1, <2>3, <2>4, BirthIsSafe
<1>10. CASE ExecveCurrent
  <2> DEFINE p == NewProcess(Me.pid, Me.parent, Me.signal_actions)
  <2>1. /\ Me.pid \in Pids /\ Me.parent \in 0 .. PidLimit /\ Me.parent < Me.pid
        /\ Me.signal_actions \in [Signals -> Dispositions]
    BY <1>2, SizeAssumption DEF Process, WellFormed, Eligible, Pids
  <2>2. /\ p \in Process /\ WellFormed(p) /\ Eligible(p) /\ p.pid = Me.pid
        /\ p.parent = Me.parent
    BY <2>1, NewProcessFacts
  <2>3. p.signal_actions = Me.signal_actions
    BY DEF NewProcess, Empty
  <2>4. SameProcess(Me, p) /\ ~p.stopped
    BY <1>2, <2>2 DEF SameProcess, Eligible, Process
  <2>5. ReturnFrom(SetRunning(scheduler, p))
    BY <1>10 DEF ExecveCurrent
  <2> HIDE DEF p
  <2>6. Guarded(p) /\ Passes(Me, p)
    BY <1>3, <1>10, <2>3 DEF Guarded, Passes
  <2> QED BY <1>1, <2>4, <2>5, <2>6, RunningCallIsSafe
<1>11. CASE WaitpidReap
  <2>1. PICK wanted \in Wanted :
          LET dead == Dead(scheduler, Children(scheduler, wanted)) IN
          /\ dead # {}
          /\ ReturnFrom([scheduler EXCEPT !.processes[Min(dead)] = Empty])
    BY <1>11 DEF WaitpidReap
  <2> DEFINE dead == Dead(scheduler, Children(scheduler, wanted))
             f == Min(dead)
             k == [scheduler EXCEPT !.processes[f] = Empty]
  <2>2. f \in dead
    BY <2>1, MinOfNaturals, ConstantFacts DEF Dead, Children
  <2>3. /\ f \in Slots /\ scheduler.processes[f].active /\ scheduler.processes[f].zombie
        /\ scheduler.processes[f].parent = Me.pid
    BY <2>2 DEF Dead, Children, Me
  <2>4. ReturnFrom(k)
    BY <2>1
  <2> HIDE DEF f
  <2>5. Sound(k)
    BY <1>1, <2>3, ReapSound DEF IInv, Alive, Me
  <2>6. k.processes = [scheduler.processes EXCEPT ![f] = Empty]
    BY <1>2 DEF Scheduler
  <2>7. ~scheduler.processes[f].stopped
    BY <1>2, <2>3 DEF SoundTable, WellFormed
  <2>8. Guarded(Empty) /\ ~Empty.active
    BY DEF Guarded, Empty, DefaultActions
  <2> HIDE DEF k
  <2>9. Prepared(k)
    BY <1>2, <2>3, <2>6, <2>7, <2>8, OnePrepared DEF Passes
  <2> QED BY <1>1, <2>4, <2>5, <2>9, ReturnIsSafe
<1>12. CASE WaitpidBlock
  <2>1. PICK wanted \in Wanted, mapped \in StatusPointers :
          /\ Children(scheduler, wanted) # {}
          /\ Dead(scheduler, Children(scheduler, wanted)) = {} \/ ~mapped
          /\ ReturnFrom(Schedule(SetRunning(scheduler,
               [Me EXCEPT !.waiting_for = IF wanted > 0 THEN wanted ELSE AnyChild])))
    BY <1>12 DEF WaitpidBlock
  <2> DEFINE p == [Me EXCEPT !.waiting_for = IF wanted > 0 THEN wanted ELSE AnyChild]
             k == Schedule(SetRunning(scheduler, p))
  <2>2. Sound(k)
    BY <1>1, <1>2, <2>1, BlockSound DEF IInv, Alive, Me
  <2>3. /\ p.signal_actions = Me.signal_actions
        /\ p.pending_signals = Me.pending_signals /\ p.in_handler = Me.in_handler
    BY <1>2 DEF Process
  <2>4. k.processes = [scheduler.processes EXCEPT ![scheduler.current] = p]
    <3>1. \A h \in {SetRunning(scheduler, p)} : Schedule(h).processes = h.processes
      BY <1>2 DEF Schedule, SetRunning, Scheduler
    <3>2. SetRunning(scheduler, p).processes =
            [scheduler.processes EXCEPT ![scheduler.current] = p]
      BY <1>2 DEF SetRunning, Scheduler
    <3> QED BY <3>1, <3>2
  <2>5. ReturnFrom(k)
    BY <2>1
  <2> HIDE DEF p, k
  <2>6. Guarded(p) /\ Passes(Me, p)
    BY <1>3, <2>3 DEF Guarded, Passes
  <2> QED BY <1>1, <2>2, <2>4, <2>5, <2>6, OwnCallIsSafe
<1>13. CASE SendSignal
  <2>1. PICK s \in Slots, q \in Signals :
          /\ scheduler.processes[s].active
          /\ ReturnFrom([scheduler EXCEPT
                            !.processes[s] = Signalled(scheduler.processes[s], q)])
    BY <1>13 DEF SendSignal
  <2> DEFINE old == scheduler.processes[s]
             p == Signalled(old, q)
             k == [scheduler EXCEPT !.processes[s] = p]
  <2>2. Sound(k)
    BY <1>1, <1>2, <2>1, SignalSound DEF IInv, Alive
  <2>3. /\ p.pid = old.pid /\ p.signal_actions = old.signal_actions
        /\ p.in_handler = old.in_handler
        /\ p.pending_signals = old.pending_signals \cup {q}
        /\ p.stopped = (old.stopped /\ q \notin {"CONT", "KILL"})
    BY <1>2 DEF Signalled, Process
  <2>4. k.processes = [scheduler.processes EXCEPT ![s] = p] /\ k.current = scheduler.current
    BY <1>2 DEF Scheduler
  <2>5. ReturnFrom(k)
    BY <2>1
  <2>6. old.stopped => s # scheduler.current
    BY <1>2 DEF Eligible
  <2> HIDE DEF p, k
  <2>7. ASSUME NEW t \in Slots
        PROVE  /\ Guarded(k.processes[t])
               /\ Passes(scheduler.processes[t], k.processes[t])
               /\ Rests(t, k, scheduler.processes[t], k.processes[t])
    <3>1. Guarded(scheduler.processes[t])
      BY DEF UnmaskableAreDefault
    <3>2. CASE t = s
      <4>1. k.processes[t] = p /\ scheduler.processes[t] = old
        BY <1>2, <2>4, <3>2
      <4> HIDE DEF old
      <4> QED BY <2>3, <2>4, <2>6, <3>1, <3>2, <4>1 DEF Guarded, Passes, Rests
    <3>3. CASE t # s
      <4>1. k.processes[t] = scheduler.processes[t]
        BY <1>2, <2>4, <3>3
      <4>2. Undisturbed(scheduler.processes[t], k.processes[t])
        BY <4>1 DEF Undisturbed
      <4> QED BY <3>1, <4>1, <4>2, UndisturbedIsPrepared
    <3> QED BY <3>2, <3>3
  <2>8. Prepared(k)
    BY <2>7 DEF Prepared
  <2> QED BY <1>1, <2>2, <2>5, <2>8, ReturnIsSafe
<1>14. CASE SetSignalAction
  <2>1. PICK q \in Signals \ Unmaskable, handler \in Dispositions :
          ReturnFrom(SetRunning(scheduler, [Me EXCEPT !.signal_actions[q] = handler]))
    BY <1>14 DEF SetSignalAction
  <2> DEFINE p == [Me EXCEPT !.signal_actions[q] = handler]
  <2>2. SameProcess(Me, p) /\ ~p.stopped
    BY <1>2 DEF SameProcess, WellFormed, Process, Eligible
  <2>3. /\ p.signal_actions = [Me.signal_actions EXCEPT ![q] = handler]
        /\ Me.signal_actions \in [Signals -> Dispositions]
        /\ p.pending_signals = Me.pending_signals /\ p.in_handler = Me.in_handler
    BY <1>2 DEF Process
  <2> HIDE DEF p
  <2>4. Guarded(p) /\ Passes(Me, p)
    BY <1>3, <2>3 DEF Guarded, Passes
  <2> QED BY <1>1, <2>1, <2>2, <2>4, RunningCallIsSafe DEF p
<1>15. CASE RestoreSignalContext
  <2> DEFINE p == [Me EXCEPT !.in_handler = FALSE]
  <2>1. SameProcess(Me, p) /\ ~p.stopped
    BY <1>2 DEF SameProcess, WellFormed, Process, Eligible
  <2>2. p.signal_actions = Me.signal_actions /\ p.pending_signals = Me.pending_signals
    BY <1>2 DEF Process
  <2>3. ReturnFrom(SetRunning(scheduler, p))
    BY <1>15 DEF RestoreSignalContext
  <2> HIDE DEF p
  <2>4. Guarded(p) /\ Passes(Me, p)
    BY <1>3, <1>15, <2>2 DEF Guarded, Passes
  <2> QED BY <1>1, <2>1, <2>3, <2>4, RunningCallIsSafe
<1>16. CASE TimerTick
  <2> DEFINE count == [Me EXCEPT !.quantum = @ + 1]
             reset == [Me EXCEPT !.quantum = 0]
  <2>1. ASSUME NEW p \in {count, reset}
        PROVE  /\ p.signal_actions = Me.signal_actions
               /\ p.pending_signals = Me.pending_signals /\ p.in_handler = Me.in_handler
    BY <1>2, <2>1 DEF Process
  <2>2. ASSUME NEW p \in {count, reset}, NEW k,
               k.processes = [scheduler.processes EXCEPT ![scheduler.current] = p],
               scheduler' = k
        PROVE  SignalsAreSafe
    <3>1. Guarded(p) /\ Passes(Me, p)
      BY <1>3, <2>1, <2>2 DEF Guarded, Passes
    <3>2. ~scheduler.processes[scheduler.current].stopped
      BY <1>2 DEF Eligible
    <3>3. Prepared(k)
      BY <1>2, <2>2, <3>1, <3>2, OnePrepared
    <3> QED BY <1>1, <2>2, <3>3, DirectIsSafe
  <2>3. ASSUME NEW p \in {count, reset}
        PROVE  /\ SetRunning(scheduler, p).processes =
                    [scheduler.processes EXCEPT ![scheduler.current] = p]
               /\ Schedule(SetRunning(scheduler, p)).processes =
                    [scheduler.processes EXCEPT ![scheduler.current] = p]
    <3>1. SetRunning(scheduler, p).processes =
            [scheduler.processes EXCEPT ![scheduler.current] = p]
      BY <1>2 DEF SetRunning, Scheduler
    <3>2. \A h \in {SetRunning(scheduler, p)} : Schedule(h).processes = h.processes
      BY <1>2 DEF Schedule, SetRunning, Scheduler
    <3> QED BY <3>1, <3>2
  <2> QED BY <1>16, <2>2, <2>3 DEF TimerTick
<1>17. CASE ReadCharacter
  <2>1. scheduler'.processes = scheduler.processes
    BY <1>17, ReadingSound DEF ReadCharacter, IInv
  <2>2. \A k : k.processes = scheduler.processes => Prepared(k)
    BY SamePrepared
  <2> QED BY <1>1, <2>1, <2>2, DirectIsSafe
<1>18. CASE CharacterArrives
  <2> DEFINE k == [scheduler EXCEPT !.reading = FALSE]
  <2>1. Sound(k) /\ k.processes = scheduler.processes /\ ReturnFrom(k)
    BY <1>18, ReadingSound DEF CharacterArrives, IInv
  <2> HIDE DEF k
  <2> QED BY <1>1, <2>1, SamePrepared, ReturnIsSafe
<1>19. CASE InterruptArrives
  <2> DEFINE p == Signalled(Me, "INT")
  <2>1. /\ Sound(Interrupted) /\ ReturnFrom(Interrupted)
        /\ Interrupted.processes = [scheduler.processes EXCEPT ![scheduler.current] = p]
    BY <1>1, <1>19, InterruptSound DEF InterruptArrives, Interrupted
  <2>2. /\ p.signal_actions = Me.signal_actions /\ p.in_handler = Me.in_handler
        /\ p.pending_signals = Me.pending_signals \cup {"INT"}
    BY <1>2 DEF Process, Signalled
  <2> HIDE DEF p
  <2>3. Guarded(p) /\ Passes(Me, p)
    BY <1>3, <2>2 DEF Guarded, Passes
  <2> QED BY <1>1, <2>1, <2>3, OwnCallIsSafe
<1> QED BY <1>4, <1>5, <1>6, <1>7, <1>8, <1>9, <1>10, <1>11, <1>12, <1>13, <1>14,
           <1>15, <1>16, <1>17, <1>18, <1>19
        DEF Next, Syscall

LEMMA UnmaskableStayDefault == Spec => []UnmaskableAreDefault
<1>1. Init => UnmaskableAreDefault
  BY DEF Init, UnmaskableAreDefault, Guarded, NewProcess, Empty, DefaultActions
<1>2. IInv /\ UnmaskableAreDefault /\ [Next]_vars => UnmaskableAreDefault'
  <2>1. CASE UNCHANGED vars
    BY <2>1 DEF vars, UnmaskableAreDefault
  <2> QED BY <2>1, NextIsSafe DEF SignalsAreSafe
<1> QED BY <1>1, <1>2, SchedulerIsSound, PTL DEF Spec

\* Apart from execve, a pending signal leaves the table only with an effect: the
\* priorities and the no-nesting rule of deliver_pending_signal lose none.
THEOREM SignalsAlwaysHaveEffect == Spec => SignalsHaveEffect
<1>1. IInv /\ UnmaskableAreDefault /\ [Next]_vars => [SignalHasEffect]_vars
  BY NextIsSafe DEF SignalsAreSafe
<1> QED BY <1>1, SchedulerIsSound, UnmaskableStayDefault, PTL DEF Spec, SignalsHaveEffect

\* A stopped process leaves that state only because of a CONT or a KILL sent to it
\* by another, and runs, exits or is collected only afterwards.
THEOREM StoppedAlwaysResumed == Spec => StoppedAreResumed
<1>1. IInv /\ UnmaskableAreDefault /\ [Next]_vars => [StoppedIsResumed]_vars
  BY NextIsSafe DEF SignalsAreSafe
<1> QED BY <1>1, SchedulerIsSound, UnmaskableStayDefault, PTL DEF Spec, StoppedAreResumed

-----------------------------------------------------------------------------
(* Descriptors.                                                            *)

Tables == [Slots -> [Fds -> Descriptor]]

LEMMA DescriptorFacts ==
  /\ Closed \in Descriptor /\ Plain \in Descriptor
  /\ \A e \in Ends, id \in PipeIds : End(e, id) \in Descriptor
  /\ \A x \in Descriptor :
       /\ x.kind \in Ends => x.pipe \in PipeIds /\ x = End(x.kind, x.pipe)
       /\ x.kind \notin Ends => x = Closed \/ x = Plain
  /\ Closed.kind \notin Ends /\ Plain.kind \notin Ends /\ Closed # Plain
BY DEF Closed, Plain, End, Ends, Descriptor

LEMMA EntriesAreFinite == IsFiniteSet(Entries)
<1>1. IsFiniteSet(Slots) /\ IsFiniteSet(Fds)
  BY FS_Interval, SizeAssumption, TableAssumption DEF Slots, Fds
<1> QED BY <1>1, FS_Product DEF Entries

LEMMA HeldIsNatural ==
  ASSUME NEW t, NEW X \in SUBSET Entries, NEW x
  PROVE  /\ IsFiniteSet(Referring(t, X, x)) /\ Held(t, X, x) \in Nat
         /\ Held(t, X, x) = 0 <=> \A e \in X : t[e[1]][e[2]] # x
<1>1. IsFiniteSet(Referring(t, X, x))
  BY EntriesAreFinite, FS_Subset DEF Referring
<1>2. Held(t, X, x) \in Nat /\ (Held(t, X, x) = 0 <=> Referring(t, X, x) = {})
  BY <1>1, FS_CardinalityType, FS_EmptySet DEF Held
<1> QED BY <1>1, <1>2 DEF Referring

-----------------------------------------------------------------------------
(* Counts: what the pipes should say of a state of the tables.             *)

CountOf(t) == [id \in PipeIds |-> [e \in Ends |-> Held(t, Entries, End(e, id))]]
Counts == [PipeIds -> [Ends -> Nat]]
Plus(c, x) == IF x.kind \in Ends THEN [c EXCEPT ![x.pipe][x.kind] = @ + 1] ELSE c
Matches(p, c) ==
  \A id \in PipeIds :
    /\ p[id].ends = c[id]
    /\ p[id].open <=> \E e \in Ends : c[id][e] > 0

LEMMA CountOfType == ASSUME NEW t PROVE CountOf(t) \in Counts
BY HeldIsNatural DEF CountOf, Counts

LEMMA PlusType ==
  ASSUME NEW c \in Counts, NEW x \in Descriptor
  PROVE  Plus(c, x) \in Counts
BY DescriptorFacts DEF Plus, Counts

LEMMA ExactMatches ==
  ASSUME NEW f \in Files
  PROVE  Exact(f) <=> Matches(f.pipes, CountOf(f.tables))
<1> DEFINE c == CountOf(f.tables)
<1>1. c \in Counts /\ \A id \in PipeIds, e \in Ends :
                          c[id][e] = Held(f.tables, Entries, End(e, id))
  BY CountOfType DEF CountOf
<1> HIDE DEF c
<1>2. \A id \in PipeIds : f.pipes[id].ends \in [Ends -> Nat]
  BY DEF Files, Pipe
<1>3. \A id \in PipeIds :
        f.pipes[id].ends = c[id] <=> \A e \in Ends : f.pipes[id].ends[e] = c[id][e]
  BY <1>1, <1>2 DEF Counts
<1>4. Exact(f) <=> Matches(f.pipes, c)
  BY <1>1, <1>3 DEF Exact, Matches
<1> QED BY <1>4 DEF c

\* One entry of a table changes: what it held and what it holds balance.
LEMMA EntryCounts ==
  ASSUME NEW t \in Tables, NEW s \in Slots, NEW fd \in Fds, NEW y \in Descriptor
  PROVE  Plus(CountOf([t EXCEPT ![s][fd] = y]), t[s][fd]) = Plus(CountOf(t), y)
<1> DEFINE u == [t EXCEPT ![s][fd] = y]
           x == t[s][fd]
           old(z) == Referring(t, Entries, z)
           new(z) == Referring(u, Entries, z)
           here == <<s, fd>>
<1>1. here \in Entries /\ x \in Descriptor
  BY DEF Entries, Tables
<1>2. u[s][fd] = y /\ \A e \in Entries : e # here => u[e[1]][e[2]] = t[e[1]][e[2]]
  BY DEF Entries, Tables
<1>3. ASSUME NEW z
      PROVE  Held(u, Entries, z) + (IF x = z THEN 1 ELSE 0)
               = Held(t, Entries, z) + (IF y = z THEN 1 ELSE 0)
  <2>1. IsFiniteSet(old(z)) /\ IsFiniteSet(old(z) \ {here}) /\ Cardinality(old(z)) \in Nat
    BY HeldIsNatural, FS_RemoveElement DEF Held
  <2>2. here \in old(z) <=> x = z
    BY <1>1 DEF Referring
  <2>3. Cardinality(old(z) \ {here}) = Cardinality(old(z)) - (IF x = z THEN 1 ELSE 0)
    BY <2>1, <2>2, FS_RemoveElement
  <2>4. new(z) = IF y = z THEN (old(z) \ {here}) \cup {here} ELSE old(z) \ {here}
    BY <1>1, <1>2 DEF Referring
  <2>5. Cardinality((old(z) \ {here}) \cup {here}) = Cardinality(old(z) \ {here}) + 1
    BY <2>1, FS_AddElement
  <2> HIDE DEF old, new
  <2>6. Cardinality(new(z)) =
          Cardinality(old(z)) - (IF x = z THEN 1 ELSE 0) + (IF y = z THEN 1 ELSE 0)
    BY <2>1, <2>3, <2>4, <2>5
  <2>7. Cardinality(new(z)) + (IF x = z THEN 1 ELSE 0) =
          Cardinality(old(z)) + (IF y = z THEN 1 ELSE 0)
    BY <2>1, <2>6
  <2> QED BY <2>7 DEF old, new, Held
<1>4. ASSUME NEW c \in Counts, NEW z \in Descriptor, NEW id \in PipeIds, NEW e \in Ends
      PROVE  Plus(c, z)[id][e] = c[id][e] + (IF z = End(e, id) THEN 1 ELSE 0)
  BY <1>4, DescriptorFacts DEF Plus, Counts, End
<1> HIDE DEF u, x
<1>5. CountOf(u) \in Counts /\ CountOf(t) \in Counts
  BY CountOfType
<1>6. \A id \in PipeIds, e \in Ends :
        Plus(CountOf(u), x)[id][e] = Plus(CountOf(t), y)[id][e]
  BY <1>1, <1>3, <1>4, <1>5 DEF CountOf
<1>7. Plus(CountOf(u), x) \in Counts /\ Plus(CountOf(t), y) \in Counts
  BY <1>1, <1>5, PlusType
<1>8. \A c, d \in Counts :
        (\A id \in PipeIds, e \in Ends : c[id][e] = d[id][e]) => c = d
  BY DEF Counts
<1> QED BY <1>6, <1>7, <1>8 DEF u, x
-----------------------------------------------------------------------------
(* What the operations on counts do to pipes that match them.              *)

Pipes == [PipeIds -> Pipe]

LEMMA TakeMatches ==
  ASSUME NEW p \in Pipes, NEW c \in Counts, Matches(p, c), NEW x \in Descriptor,
         x.kind \in Ends => p[x.pipe].open
  PROVE  Take(p, x) \in Pipes /\ Matches(Take(p, x), Plus(c, x))
<1>1. CASE x.kind \notin Ends
  BY <1>1 DEF Take, Plus
<1>2. CASE x.kind \in Ends
  <2> DEFINE i == x.pipe
             k == x.kind
             q == Take(p, x)
             d == Plus(c, x)
  <2>1. i \in PipeIds /\ k \in Ends /\ p[i].open
    BY <1>2, DescriptorFacts
  <2>2. q = [p EXCEPT ![i].ends[k] = @ + 1] /\ d = [c EXCEPT ![i][k] = @ + 1]
    BY <1>2, <2>1 DEF Take, Plus
  <2>3. p[i] \in Pipe /\ p[i].ends \in [Ends -> Nat] /\ c[i] \in [Ends -> Nat]
    BY <2>1 DEF Pipes, Pipe, Counts
  <2>4. q \in Pipes
    <3>1. [p[i].ends EXCEPT ![k] = @ + 1] \in [Ends -> Nat]
      BY <2>1, <2>3
    <3>2. [p[i] EXCEPT !.ends = [p[i].ends EXCEPT ![k] = @ + 1]] \in Pipe
      BY <2>3, <3>1 DEF Pipe
    <3>3. q = [p EXCEPT ![i] = [p[i] EXCEPT !.ends = [p[i].ends EXCEPT ![k] = @ + 1]]]
      BY <2>1, <2>2 DEF Pipes
    <3> QED BY <3>2, <3>3 DEF Pipes
  <2>5. \A id \in PipeIds \ {i} : q[id] = p[id] /\ d[id] = c[id]
    BY <2>2 DEF Pipes, Counts
  <2>6. q[i] = [p[i] EXCEPT !.ends[k] = @ + 1] /\ d[i] = [c[i] EXCEPT ![k] = @ + 1]
    BY <2>1, <2>2 DEF Pipes, Counts
  <2>7. q[i].open /\ q[i].ends = [p[i].ends EXCEPT ![k] = @ + 1] /\ d[i][k] > 0
    BY <2>1, <2>3, <2>6 DEF Pipe
  <2>8. p[i].ends = c[i]
    BY <2>1 DEF Matches
  <2> HIDE DEF q, d, i, k
  <2>9. Matches(q, d)
    BY <2>1, <2>5, <2>6, <2>7, <2>8 DEF Matches
  <2> QED BY <2>4, <2>9 DEF q, d
<1> QED BY <1>1, <1>2

\* Counts fall by what the descriptors that go away held.
LEMMA LoweredMatches ==
  ASSUME NEW pipe \in Pipe, NEW n \in [Ends -> Nat], NEW c \in [Ends -> Nat],
         \A e \in Ends : pipe.ends[e] = c[e] + n[e],
         pipe.open <=> \E e \in Ends : pipe.ends[e] > 0
  PROVE  /\ Lowered(pipe, n) \in Pipe /\ Lowered(pipe, n).ends = c
         /\ Lowered(pipe, n).open <=> \E e \in Ends : c[e] > 0
<1> DEFINE left == [e \in Ends |->
                      IF pipe.ends[e] > n[e] THEN pipe.ends[e] - n[e] ELSE 0]
<1>1. \A e \in Ends : left[e] = c[e]
  OBVIOUS
<1>2. left = c
  BY <1>1
<1>3. EmptyPipe \in Pipe /\ EmptyPipe.ends = [e \in Ends |-> 0] /\ ~EmptyPipe.open
  BY DEF EmptyPipe, Pipe
<1>4. Lowered(pipe, n) = IF ~pipe.open \/ \A e \in Ends : left[e] = 0
                         THEN EmptyPipe ELSE [pipe EXCEPT !.ends = left]
  BY DEF Lowered
<1> HIDE DEF left
<1>5. CASE ~pipe.open \/ \A e \in Ends : c[e] = 0
  <2>1. \A e \in Ends : c[e] = 0
    BY <1>5 DEF Pipe
  <2>2. c = [e \in Ends |-> 0]
    BY <2>1
  <2> QED BY <1>2, <1>3, <1>4, <1>5, <2>1, <2>2
<1>6. CASE pipe.open /\ \E e \in Ends : c[e] # 0
  <2>1. Lowered(pipe, n) = [pipe EXCEPT !.ends = c]
    BY <1>2, <1>4, <1>6
  <2>2. \E e \in Ends : c[e] > 0
    BY <1>6
  <2> QED BY <1>6, <2>1, <2>2 DEF Pipe
<1> QED BY <1>5, <1>6

LEMMA DropMatches ==
  ASSUME NEW p \in Pipes, NEW c \in Counts, NEW x \in Descriptor, Matches(p, Plus(c, x))
  PROVE  Drop(p, x) \in Pipes /\ Matches(Drop(p, x), c)
<1>1. CASE x.kind \notin Ends
  BY <1>1 DEF Drop, Plus
<1>2. CASE x.kind \in Ends
  <2> DEFINE i == x.pipe
             k == x.kind
             n == [e \in Ends |-> IF e = k THEN 1 ELSE 0]
             q == Drop(p, x)
             d == Plus(c, x)
  <2>1. i \in PipeIds /\ k \in Ends
    BY <1>2, DescriptorFacts
  <2>2. q = [p EXCEPT ![i] = Lowered(@, n)] /\ d = [c EXCEPT ![i][k] = @ + 1]
    BY <1>2 DEF Drop, Plus
  <2>3. p[i] \in Pipe /\ c[i] \in [Ends -> Nat] /\ n \in [Ends -> Nat]
    BY <2>1 DEF Pipes, Counts
  <2>4. d[i] = [c[i] EXCEPT ![k] = @ + 1] /\ \A id \in PipeIds \ {i} : d[id] = c[id]
    BY <2>1, <2>2 DEF Counts
  <2>5. p[i].ends = d[i] /\ (p[i].open <=> \E e \in Ends : d[i][e] > 0)
    BY <2>1 DEF Matches
  <2>6. \A e \in Ends : p[i].ends[e] = c[i][e] + n[e]
    BY <2>1, <2>3, <2>4, <2>5
  <2> HIDE DEF n
  <2>7. /\ Lowered(p[i], n) \in Pipe /\ Lowered(p[i], n).ends = c[i]
        /\ Lowered(p[i], n).open <=> \E e \in Ends : c[i][e] > 0
    BY <2>3, <2>5, <2>6, LoweredMatches
  <2>8. q[i] = Lowered(p[i], n) /\ \A id \in PipeIds \ {i} : q[id] = p[id]
    BY <2>1, <2>2 DEF Pipes
  <2>9. q \in Pipes
    BY <2>2, <2>3, <2>7 DEF Pipes
  <2> HIDE DEF q, d, i, k
  <2>10. Matches(q, c)
    BY <2>4, <2>7, <2>8 DEF Matches, d
  <2> QED BY <2>9, <2>10 DEF q
<1> QED BY <1>1, <1>2
-----------------------------------------------------------------------------
(* The operations of a process keep the counts exact and bring no pipe end *)
(* into the tables that was not there.                                     *)

Owned(f) == {f.tables[e[1]][e[2]] : e \in Entries}
Sane(f) == f \in Files /\ Exact(f)

\* An end that some entry refers to is an end of an open pipe.
LEMMA OwnedAreOpen ==
  ASSUME NEW f, Sane(f), NEW x \in Owned(f), x.kind \in Ends
  PROVE  x \in Descriptor /\ x.pipe \in PipeIds /\ f.pipes[x.pipe].open
<1>1. PICK e \in Entries : x = f.tables[e[1]][e[2]]
  BY DEF Owned
<1>2. x \in Descriptor
  BY <1>1 DEF Sane, Files, Entries
<1>3. x.pipe \in PipeIds /\ x = End(x.kind, x.pipe)
  BY <1>2, DescriptorFacts
<1>4. Held(f.tables, Entries, x) # 0 /\ Held(f.tables, Entries, x) \in Nat
  <2>1. /\ Held(f.tables, Entries, x) \in Nat
        /\ Held(f.tables, Entries, x) = 0 <=> \A d \in Entries : f.tables[d[1]][d[2]] # x
    BY HeldIsNatural
  <2> QED BY <1>1, <2>1
<1>5. f.pipes[x.pipe].ends[x.kind] > 0
  BY <1>3, <1>4 DEF Sane, Exact
<1> QED BY <1>2, <1>3, <1>5 DEF Sane, Exact

LEMMA EntryChange ==
  ASSUME NEW f, Sane(f), NEW s \in Slots, NEW fd \in Fds, NEW y \in Descriptor, NEW p,
         p \in Pipes, Matches(p, CountOf([f.tables EXCEPT ![s][fd] = y]))
  PROVE  LET g == [tables |-> [f.tables EXCEPT ![s][fd] = y], pipes |-> p] IN
         Sane(g) /\ Owned(g) \subseteq Owned(f) \cup {y}
<1> DEFINE u == [f.tables EXCEPT ![s][fd] = y]
           g == [tables |-> u, pipes |-> p]
<1>1. u \in Tables
  BY DEF Sane, Files, Tables
<1>2. g \in Files
  BY <1>1 DEF Files, Tables, Pipes
<1>3. Exact(g)
  BY <1>2, ExactMatches
<1>4. \A e \in Entries : u[e[1]][e[2]] \in {f.tables[e[1]][e[2]], y}
  BY DEF Sane, Files, Entries
<1>5. Owned(g) \subseteq Owned(f) \cup {y}
  BY <1>4 DEF Owned
<1> QED BY <1>2, <1>3, <1>5 DEF Sane

\* close_descriptor.
LEMMA CloseExact ==
  ASSUME NEW f, Sane(f), NEW s \in Slots, NEW fd \in Fds
  PROVE  Sane(Close(f, s, fd)) /\ Owned(Close(f, s, fd)) \subseteq Owned(f) \cup {Closed}
<1> DEFINE t == f.tables
           u == [t EXCEPT ![s][fd] = Closed]
           x == t[s][fd]
<1>1. t \in Tables /\ f.pipes \in Pipes /\ x \in Descriptor /\ Closed \in Descriptor
  BY DescriptorFacts DEF Sane, Files, Tables, Pipes
<1>2. Matches(f.pipes, CountOf(t))
  BY ExactMatches DEF Sane
<1>3. Plus(CountOf(u), x) = CountOf(t)
  <2>1. Plus(CountOf(t), Closed) = CountOf(t)
    BY DescriptorFacts DEF Plus
  <2> QED BY <1>1, <2>1, EntryCounts
<1>4. Drop(f.pipes, x) \in Pipes /\ Matches(Drop(f.pipes, x), CountOf(u))
  BY <1>1, <1>2, <1>3, CountOfType, DropMatches
<1>5. Close(f, s, fd) = [tables |-> u, pipes |-> Drop(f.pipes, x)]
  BY DEF Close
<1> HIDE DEF u, x
<1> QED BY <1>1, <1>4, <1>5, EntryChange DEF u

\* dup2: the new reference is taken before the old one is released.
LEMMA ReplacedExact ==
  ASSUME NEW f, Sane(f), NEW s \in Slots, NEW fd \in Fds, NEW y \in Owned(f)
  PROVE  Sane(Replaced(f, s, fd, y)) /\ Owned(Replaced(f, s, fd, y)) \subseteq Owned(f)
<1> DEFINE t == f.tables
           u == [t EXCEPT ![s][fd] = y]
           x == t[s][fd]
           p == Take(f.pipes, y)
<1>1. t \in Tables /\ f.pipes \in Pipes /\ x \in Descriptor /\ y \in Descriptor
  BY DEF Sane, Files, Tables, Pipes, Owned, Entries
<1>2. Matches(f.pipes, CountOf(t))
  BY ExactMatches DEF Sane
<1>3. p \in Pipes /\ Matches(p, Plus(CountOf(t), y))
  BY <1>1, <1>2, CountOfType, OwnedAreOpen, TakeMatches
<1>4. Plus(CountOf(u), x) = Plus(CountOf(t), y)
  BY <1>1, EntryCounts
<1> HIDE DEF p
<1>5. Drop(p, x) \in Pipes /\ Matches(Drop(p, x), CountOf(u))
  BY <1>1, <1>3, <1>4, CountOfType, DropMatches
<1>6. Replaced(f, s, fd, y) = [tables |-> u, pipes |-> Drop(p, x)]
  BY DEF Replaced, p
<1> HIDE DEF u, x
<1> QED BY <1>1, <1>5, <1>6, EntryChange DEF u

\* Installing a descriptor in a closed entry.
LEMMA PlaceExact ==
  ASSUME NEW f, Sane(f), NEW s \in Slots, NEW fd \in Fds, f.tables[s][fd] = Closed,
         NEW y \in Descriptor, y.kind \in Ends => f.pipes[y.pipe].open
  PROVE  LET g == [tables |-> [f.tables EXCEPT ![s][fd] = y], pipes |-> Take(f.pipes, y)]
         IN Sane(g) /\ Owned(g) \subseteq Owned(f) \cup {y}
<1> DEFINE t == f.tables
           u == [t EXCEPT ![s][fd] = y]
           p == Take(f.pipes, y)
<1>1. t \in Tables /\ f.pipes \in Pipes
  BY DEF Sane, Files, Tables, Pipes
<1>2. Matches(f.pipes, CountOf(t))
  BY ExactMatches DEF Sane
<1>3. p \in Pipes /\ Matches(p, Plus(CountOf(t), y))
  BY <1>1, <1>2, CountOfType, TakeMatches
<1>4. Plus(CountOf(u), Closed) = Plus(CountOf(t), y)
  BY <1>1, EntryCounts
<1>5. Plus(CountOf(u), Closed) = CountOf(u)
  BY DescriptorFacts DEF Plus
<1> HIDE DEF u, p
<1> QED BY <1>3, <1>4, <1>5, EntryChange DEF u, p

LEMMA FreeFdFacts ==
  ASSUME NEW f \in Files, NEW s \in Slots, FreeFds(f, s) # {}
  PROVE  Min(FreeFds(f, s)) \in Fds \ StdFds /\ f.tables[s][Min(FreeFds(f, s))] = Closed
<1>1. FreeFds(f, s) \subseteq Nat
  BY TableAssumption DEF FreeFds, Fds
<1>2. Min(FreeFds(f, s)) \in FreeFds(f, s)
  BY <1>1, MinOfNaturals
<1> QED BY <1>2 DEF FreeFds

\* DescriptorTable::allocate of a descriptor without a reference.
LEMMA AllocateExact ==
  ASSUME NEW f, Sane(f), NEW s \in Slots, FreeFds(f, s) # {}
  PROVE  LET g == Allocate(f, s, Plain) IN Sane(g) /\ Owned(g) \subseteq Owned(f) \cup {Plain}
<1> DEFINE fd == Min(FreeFds(f, s))
<1>1. fd \in Fds /\ f.tables[s][fd] = Closed
  BY FreeFdFacts DEF Sane
<1>2. Take(f.pipes, Plain) = f.pipes /\ Plain.kind \notin Ends /\ Plain \in Descriptor
  BY DescriptorFacts DEF Take
<1>3. Allocate(f, s, Plain) = [tables |-> [f.tables EXCEPT ![s][fd] = Plain], pipes |-> f.pipes]
  BY DEF Allocate, Sane, Files
<1> HIDE DEF fd
<1> QED BY <1>1, <1>2, <1>3, PlaceExact

\* dup, with and without a free entry.
LEMMA DuplicateExact ==
  ASSUME NEW f, Sane(f), NEW s \in Slots, NEW x \in Owned(f)
  PROVE  LET taken == [f EXCEPT !.pipes = Take(@, x)]
             g == IF FreeFds(f, s) # {} THEN Allocate(taken, s, x)
                  ELSE [taken EXCEPT !.pipes = Drop(@, x)]
         IN Sane(g) /\ Owned(g) \subseteq Owned(f)
<1> DEFINE taken == [f EXCEPT !.pipes = Take(@, x)]
           fd == Min(FreeFds(f, s))
<1>1. x \in Descriptor /\ (x.kind \in Ends => f.pipes[x.pipe].open) /\ f \in Files
  BY OwnedAreOpen DEF Owned, Sane, Files, Entries
<1>2. taken = [tables |-> f.tables, pipes |-> Take(f.pipes, x)]
  BY <1>1 DEF Files
<1>3. CASE FreeFds(f, s) # {}
  <2>1. fd \in Fds /\ f.tables[s][fd] = Closed
    BY <1>1, <1>3, FreeFdFacts
  <2>2. FreeFds(taken, s) = FreeFds(f, s)
    BY <1>2 DEF FreeFds
  <2>3. Allocate(taken, s, x) =
          [tables |-> [f.tables EXCEPT ![s][fd] = x], pipes |-> Take(f.pipes, x)]
    BY <1>2, <1>3, <2>2 DEF Allocate
  <2> HIDE DEF fd, taken
  <2>4. /\ Sane(Allocate(taken, s, x))
        /\ Owned(Allocate(taken, s, x)) \subseteq Owned(f) \cup {x}
    BY <1>1, <2>1, <2>3, PlaceExact
  <2> QED BY <1>3, <2>4 DEF taken
<1>4. CASE FreeFds(f, s) = {}
  <2> DEFINE g == [taken EXCEPT !.pipes = Drop(@, x)]
             p == Take(f.pipes, x)
  <2> HIDE DEF taken
  <2>1. g = [tables |-> f.tables, pipes |-> Drop(p, x)]
    BY <1>2
  <2>2. f.pipes \in Pipes /\ Matches(f.pipes, CountOf(f.tables))
    BY <1>1, ExactMatches DEF Sane, Files, Pipes
  <2>3. p \in Pipes /\ Matches(p, Plus(CountOf(f.tables), x))
    BY <1>1, <2>2, CountOfType, TakeMatches
  <2> HIDE DEF p
  <2>4. Drop(p, x) \in Pipes /\ Matches(Drop(p, x), CountOf(f.tables))
    BY <1>1, <2>3, CountOfType, DropMatches
  <2> HIDE DEF g
  <2>5. g.tables = f.tables /\ g.pipes = Drop(p, x) /\ g \in Files
    BY <1>1, <2>1, <2>4 DEF Files, Pipes
  <2>6. Exact(g)
    BY <2>4, <2>5, ExactMatches
  <2>7. Owned(g) = Owned(f)
    BY <2>5 DEF Owned
  <2> QED BY <1>4, <2>5, <2>6, <2>7 DEF Sane, g, taken
<1> QED BY <1>3, <1>4

-----------------------------------------------------------------------------
(* create_pipe.                                                            *)

OneEnd == [open |-> TRUE, ends |-> [e \in Ends |-> IF e = "PipeWrite" THEN 1 ELSE 0]]
Only(k) == [e \in Ends |-> IF e = k THEN 1 ELSE 0]

\* Closing both ends of a new pipe resets it, however often the first is closed.
LEMMA NewPipeCloses ==
  /\ NewPipe \in Pipe /\ OneEnd \in Pipe /\ EmptyPipe \in Pipe
  /\ Lowered(NewPipe, Only("PipeRead")) = OneEnd
  /\ Lowered(OneEnd, Only("PipeRead")) = OneEnd
  /\ Lowered(OneEnd, Only("PipeWrite")) = EmptyPipe
<1>1. NewPipe \in Pipe /\ OneEnd \in Pipe /\ EmptyPipe \in Pipe
  BY DEF NewPipe, OneEnd, EmptyPipe, Pipe
<1> DEFINE Left(pipe, n) == [e \in Ends |-> IF pipe.ends[e] > n[e] THEN pipe.ends[e] - n[e] ELSE 0]
<1>2. Left(NewPipe, Only("PipeRead")) = OneEnd.ends
  BY DEF NewPipe, OneEnd, Only, Ends
<1>3. Left(OneEnd, Only("PipeRead")) = OneEnd.ends
  BY DEF OneEnd, Only, Ends
<1>4. Left(OneEnd, Only("PipeWrite")) = [e \in Ends |-> 0]
  BY DEF OneEnd, Only, Ends
<1>5. OneEnd.ends["PipeWrite"] # 0 /\ "PipeWrite" \in Ends /\ OneEnd.open /\ NewPipe.open
  BY DEF OneEnd, NewPipe, Ends
<1>6. [NewPipe EXCEPT !.ends = OneEnd.ends] = OneEnd /\ [OneEnd EXCEPT !.ends = OneEnd.ends] = OneEnd
  BY DEF OneEnd, NewPipe
<1>7. \A pipe, n : Lowered(pipe, n) = IF ~pipe.open \/ \A e \in Ends : Left(pipe, n)[e] = 0
                                      THEN EmptyPipe ELSE [pipe EXCEPT !.ends = Left(pipe, n)]
  BY DEF Lowered
<1> HIDE DEF Left
<1>8. /\ Lowered(NewPipe, Only("PipeRead")) = OneEnd
      /\ Lowered(OneEnd, Only("PipeRead")) = OneEnd
  BY <1>2, <1>3, <1>5, <1>6, <1>7
<1>9. Lowered(OneEnd, Only("PipeWrite")) = EmptyPipe
  BY <1>4, <1>7
<1> QED BY <1>1, <1>8, <1>9

LEMMA EmptyIsUnused ==
  ASSUME NEW f, Sane(f), NEW id \in UnusedPipes(f)
  PROVE  /\ id \in PipeIds /\ f.pipes[id] = EmptyPipe
         /\ \A e \in Ends : CountOf(f.tables)[id][e] = 0
<1>1. id \in PipeIds /\ f.pipes[id] \in Pipe /\ ~f.pipes[id].open
  BY DEF UnusedPipes, Sane, Files
<1>2. \A e \in Ends : f.pipes[id].ends[e] \in Nat /\ f.pipes[id].ends[e] = 0
  BY <1>1 DEF Sane, Exact, Pipe
<1>3. f.pipes[id] = EmptyPipe
  BY <1>1, <1>2 DEF EmptyPipe, Pipe
<1> QED BY <1>1, <1>2, <1>3 DEF Sane, Exact, CountOf

\* close_reader or close_writer of pipe id.
LEMMA DropEnd ==
  ASSUME NEW p \in Pipes, NEW id \in PipeIds, NEW a, NEW k \in Ends
  PROVE  Drop([p EXCEPT ![id] = a], End(k, id)) = [p EXCEPT ![id] = Lowered(a, Only(k))]
BY DEF Drop, End, Only, Pipes

\* The entries create_pipe fills.
ReadFd(f, s) == Min(FreeFds(f, s))
WriteFd(f, s) == Min(FreeFds(f, s) \ {ReadFd(f, s)})

LEMMA PipeOpened ==
  ASSUME NEW f, Sane(f), NEW s \in Slots, NEW id \in UnusedPipes(f), HasRoom(f, s)
  PROVE  /\ ReadFd(f, s) \in Fds /\ WriteFd(f, s) \in Fds /\ ReadFd(f, s) # WriteFd(f, s)
         /\ f.tables[s][ReadFd(f, s)] = Closed /\ f.tables[s][WriteFd(f, s)] = Closed
         /\ Opened(f, s, id) =
              [tables |-> [[f.tables EXCEPT ![s][ReadFd(f, s)] = End("PipeRead", id)]
                             EXCEPT ![s][WriteFd(f, s)] = End("PipeWrite", id)],
               pipes |-> [f.pipes EXCEPT ![id] = NewPipe]]
<1> DEFINE F == FreeFds(f, s)
           a == Min(F)
           b == Min(F \ {a})
           R == End("PipeRead", id)
           W == End("PipeWrite", id)
           f1 == [f EXCEPT !.pipes[id] = NewPipe]
           g1 == [tables |-> [f.tables EXCEPT ![s][a] = R], pipes |-> [f.pipes EXCEPT ![id] = NewPipe]]
<1>1. F \subseteq Nat /\ F # {} /\ F \subseteq Fds
  BY TableAssumption DEF FreeFds, Fds, HasRoom
<1>2. a \in F
  BY <1>1, MinOfNaturals
<1>3. F \ {a} # {} /\ b \in F \ {a}
  <2>1. F \ {a} # {} /\ F \ {a} \subseteq Nat
    BY <1>1 DEF HasRoom
  <2> QED BY <2>1, MinOfNaturals
<1>4. f \in Files /\ f.tables \in Tables /\ f.tables[s] \in [Fds -> Descriptor]
  BY DEF Sane, Files, Tables
<1>5. f1 = [tables |-> f.tables, pipes |-> [f.pipes EXCEPT ![id] = NewPipe]]
  BY <1>4 DEF Files
<1>6. FreeFds(f1, s) = F
  BY <1>5 DEF FreeFds
<1>7. Allocate(f1, s, R) = g1
  BY <1>1, <1>5, <1>6 DEF Allocate
<1>8. R # Closed /\ R \in Descriptor
  BY DEF Closed, End, Descriptor, Ends, UnusedPipes
<1> HIDE DEF a, b, f1
<1>9. g1.tables[s] = [f.tables[s] EXCEPT ![a] = R] /\ g1.tables \in Tables
  BY <1>1, <1>2, <1>4, <1>8 DEF Tables
<1>10. FreeFds(g1, s) = F \ {a}
  BY <1>2, <1>4, <1>8, <1>9 DEF FreeFds
<1>11. Allocate(g1, s, W) = [g1 EXCEPT !.tables[s][b] = W]
  BY <1>3, <1>10 DEF Allocate, b
<1>12. Opened(f, s, id) = [g1 EXCEPT !.tables[s][b] = W]
  BY <1>7, <1>11 DEF Opened, f1
<1>13. a \in Fds /\ b \in Fds /\ a # b /\ f.tables[s][a] = Closed /\ f.tables[s][b] = Closed
  BY <1>1, <1>2, <1>3 DEF FreeFds
<1>14. a = ReadFd(f, s) /\ b = WriteFd(f, s)
  BY DEF ReadFd, WriteFd, a, b
<1> QED BY <1>12, <1>13, <1>14

\* pipe succeeds: two new descriptors, one reference at each end.
LEMMA OpenedExact ==
  ASSUME NEW f, Sane(f), NEW s \in Slots, NEW id \in UnusedPipes(f), HasRoom(f, s)
  PROVE  LET g == Opened(f, s, id) IN
         /\ Sane(g)
         /\ Owned(g) \subseteq Owned(f) \cup {End("PipeRead", id), End("PipeWrite", id)}
<1> DEFINE a == ReadFd(f, s)
           b == WriteFd(f, s)
           R == End("PipeRead", id)
           W == End("PipeWrite", id)
           t == f.tables
           u == [t EXCEPT ![s][a] = R]
           v == [u EXCEPT ![s][b] = W]
           q == [f.pipes EXCEPT ![id] = NewPipe]
           c == CountOf(t)
<1>1. /\ a \in Fds /\ b \in Fds /\ a # b /\ t[s][a] = Closed /\ t[s][b] = Closed
      /\ Opened(f, s, id) = [tables |-> v, pipes |-> q]
  BY PipeOpened
<1>2. id \in PipeIds /\ (\A e \in Ends : c[id][e] = 0) /\ c \in Counts
  BY EmptyIsUnused, CountOfType
<1>3. t \in Tables /\ f.pipes \in Pipes /\ R \in Descriptor /\ W \in Descriptor
      /\ Matches(f.pipes, c)
  BY <1>2, DescriptorFacts, ExactMatches DEF Sane, Files, Tables, Pipes, Ends
<1> HIDE DEF a, b
<1>4. u \in Tables /\ v \in Tables /\ u[s][b] = Closed
  BY <1>1, <1>3 DEF Tables
<1>5. \A d \in Counts : Plus(d, Closed) = d
  BY DescriptorFacts DEF Plus
<1>6. CountOf(u) = Plus(c, R)
  BY <1>1, <1>3, <1>5, EntryCounts, CountOfType
<1>7. CountOf(v) = Plus(CountOf(u), W)
  <2> HIDE DEF u
  <2>1. Plus(CountOf(v), u[s][b]) = Plus(CountOf(u), W)
    BY <1>1, <1>3, <1>4, EntryCounts
  <2> HIDE DEF v
  <2>2. Plus(CountOf(v), Closed) = CountOf(v)
    BY <1>5, CountOfType
  <2> QED BY <1>4, <2>1, <2>2
<1> DEFINE d == Plus(Plus(c, R), W)
<1>8. \A i \in PipeIds : d[i] = IF i = id THEN [e \in Ends |-> 1] ELSE c[i]
  <2>1. R.kind = "PipeRead" /\ W.kind = "PipeWrite" /\ R.pipe = id /\ W.pipe = id
    BY DEF End
  <2>2. d = [[c EXCEPT ![id]["PipeRead"] = @ + 1] EXCEPT ![id]["PipeWrite"] = @ + 1]
    BY <2>1 DEF Plus, Ends
  <2>3. c[id] = [e \in Ends |-> 0]
    BY <1>2 DEF Counts
  <2>4. [[c[id] EXCEPT !["PipeRead"] = @ + 1] EXCEPT !["PipeWrite"] = @ + 1] = [e \in Ends |-> 1]
    BY <2>3 DEF Ends
  <2>5. d[id] = [[c[id] EXCEPT !["PipeRead"] = @ + 1] EXCEPT !["PipeWrite"] = @ + 1]
    BY <1>2, <2>2 DEF Counts
  <2>6. \A i \in PipeIds \ {id} : d[i] = c[i]
    BY <1>2, <2>2 DEF Counts
  <2> HIDE DEF d
  <2> QED BY <2>4, <2>5, <2>6
<1>9. q \in Pipes /\ \A i \in PipeIds : q[i] = IF i = id THEN NewPipe ELSE f.pipes[i]
  BY <1>2, <1>3, NewPipeCloses DEF Pipes
<1> HIDE DEF d, q
<1>10. Matches(q, d)
  BY <1>3, <1>8, <1>9 DEF Matches, NewPipe, Ends
<1> DEFINE g == [tables |-> v, pipes |-> q]
<1>11. g \in Files
  BY <1>4, <1>9 DEF Files, Tables, Pipes
<1>12. Exact(g)
  BY <1>6, <1>7, <1>10, <1>11, ExactMatches DEF d
<1>13. \A e \in Entries : v[e[1]][e[2]] \in {t[e[1]][e[2]], R, W}
  BY <1>3, <1>4 DEF Tables, Entries
<1>14. Owned(g) \subseteq Owned(f) \cup {R, W}
  BY <1>13 DEF Owned
<1> HIDE DEF g
<1>15. Opened(f, s, id) = g
  BY <1>1 DEF g, q
<1> QED BY <1>11, <1>12, <1>14, <1>15 DEF Sane

\* Whatever stops create_pipe half way, the state is what it was.
LEMMA FailedPipe ==
  ASSUME NEW f, Sane(f), NEW s \in Slots, NEW id \in UnusedPipes(f), NEW mapped \in BOOLEAN,
         ~mapped \/ ~HasRoom(f, s)
  PROVE  CreatedPipe(f, s, id, mapped) = f
<1> DEFINE a == ReadFd(f, s)
           b == WriteFd(f, s)
           R == End("PipeRead", id)
           W == End("PipeWrite", id)
           t == f.tables
           p == f.pipes
           With(x) == [p EXCEPT ![id] = x]
<1>1. /\ f \in Files /\ t \in Tables /\ p \in Pipes /\ f = [tables |-> t, pipes |-> p]
      /\ id \in PipeIds /\ p[id] = EmptyPipe /\ With(EmptyPipe) = p
  BY EmptyIsUnused DEF Sane, Files, Tables, Pipes
<1>2. /\ Drop(With(NewPipe), R) = With(OneEnd)
      /\ Drop(With(OneEnd), R) = With(OneEnd)
      /\ Drop(With(OneEnd), W) = p
  <2>1. \A k \in Ends : \A x : Drop(With(x), End(k, id)) = With(Lowered(x, Only(k)))
    BY <1>1, DropEnd
  <2>2. "PipeRead" \in Ends /\ "PipeWrite" \in Ends
    BY DEF Ends
  <2> HIDE DEF With
  <2> QED BY <1>1, <2>1, <2>2, NewPipeCloses
<1>3. R # Closed
  BY DEF End, Closed
<1> HIDE DEF R, W, With
<1>4. CASE HasRoom(f, s)
  <2> DEFINE u == [t EXCEPT ![s][a] = R]
             v == [u EXCEPT ![s][b] = W]
  <2>1. /\ a \in Fds /\ b \in Fds /\ a # b /\ t[s][a] = Closed /\ t[s][b] = Closed
        /\ Opened(f, s, id) = [tables |-> v, pipes |-> With(NewPipe)]
    BY <1>4, PipeOpened DEF R, W, With
  <2>2. CreatedPipe(f, s, id, mapped) = Close(Close(Opened(f, s, id), s, a), s, b)
    BY <1>4 DEF CreatedPipe, ReadFd, WriteFd
  <2> HIDE DEF a, b
  <2>3. v[s][a] = R /\ [v EXCEPT ![s][a] = Closed][s][b] = W
    BY <1>1, <2>1 DEF Tables
  <2>4. [[v EXCEPT ![s][a] = Closed] EXCEPT ![s][b] = Closed] = t
    BY <1>1, <2>1 DEF Tables
  <2> HIDE DEF v
  <2>5. Close(Opened(f, s, id), s, a) = [tables |-> [v EXCEPT ![s][a] = Closed],
                                         pipes |-> With(OneEnd)]
    BY <1>2, <2>1, <2>3 DEF Close
  <2>6. Close(Close(Opened(f, s, id), s, a), s, b) = [tables |-> t, pipes |-> p]
    BY <1>2, <2>3, <2>4, <2>5 DEF Close
  <2> QED BY <1>1, <2>2, <2>6
<1>5. CASE FreeFds(f, s) = {}
  <2> DEFINE g == [f EXCEPT !.pipes[id] = NewPipe]
  <2>1. g = [tables |-> t, pipes |-> With(NewPipe)]
    BY <1>1 DEF With
  <2>2. FreeFds(g, s) = {}
    BY <1>5, <2>1 DEF FreeFds
  <2>3. Opened(f, s, id) = g
    BY <2>2 DEF Opened, Allocate
  <2>4. CreatedPipe(f, s, id, mapped) = RollBack(f, s, id)
    BY <1>5 DEF CreatedPipe, HasRoom
  <2> HIDE DEF g
  <2>5. RollBack(f, s, id) = [g EXCEPT !.pipes = Drop(Drop(@, R), W)]
    BY <1>5, <2>3 DEF RollBack, R, W
  <2> QED BY <1>1, <1>2, <2>1, <2>4, <2>5
<1>6. CASE ~HasRoom(f, s) /\ FreeFds(f, s) # {}
  <2> DEFINE g == [f EXCEPT !.pipes[id] = NewPipe]
             u == [t EXCEPT ![s][a] = R]
             h == [tables |-> u, pipes |-> With(NewPipe)]
  <2>1. a \in Fds \ StdFds /\ t[s][a] = Closed
    BY <1>1, <1>6, FreeFdFacts DEF ReadFd
  <2>2. a \in FreeFds(f, s) /\ FreeFds(f, s) = {a}
    BY <1>6, <2>1 DEF FreeFds, HasRoom
  <2>3. g = [tables |-> t, pipes |-> With(NewPipe)]
    BY <1>1 DEF With
  <2>4. FreeFds(g, s) = FreeFds(f, s)
    BY <2>3 DEF FreeFds
  <2>5. Allocate(g, s, R) = h
    BY <1>6, <2>3, <2>4 DEF Allocate, ReadFd
  <2>6. u[s] = [t[s] EXCEPT ![a] = R] /\ t[s] \in [Fds -> Descriptor]
    BY <1>1, <2>1 DEF Tables
  <2>7. FreeFds(h, s) = {}
    BY <1>3, <2>1, <2>2, <2>6 DEF FreeFds
  <2>8. Opened(f, s, id) = h
    BY <2>5, <2>7 DEF Opened, Allocate, R
  <2>9. CreatedPipe(f, s, id, mapped) = RollBack(f, s, id)
    BY <1>6 DEF CreatedPipe
  <2>10. u[s][a] = R /\ [u EXCEPT ![s][a] = Closed] = t
    BY <1>1, <2>1 DEF Tables
  <2> HIDE DEF u
  <2>11. Close(h, s, a) = [tables |-> t, pipes |-> With(OneEnd)]
    BY <1>2, <2>10 DEF Close
  <2> HIDE DEF h
  <2>12. RollBack(f, s, id) = [Close(h, s, a) EXCEPT !.pipes = Drop(Drop(@, R), W)]
    BY <1>6, <2>8 DEF RollBack, R, W, ReadFd
  <2> QED BY <1>1, <1>2, <2>9, <2>11, <2>12
<1> QED BY <1>4, <1>5, <1>6

-----------------------------------------------------------------------------
(* Whole tables: fork, spawn and the end of processes.                     *)

LEMMA DisjointHeld ==
  ASSUME NEW t, NEW u, NEW v, NEW X \in SUBSET Entries, NEW Y \in SUBSET Entries,
         NEW Z \in SUBSET Entries, NEW x,
         Referring(t, X, x) = Referring(u, Y, x) \cup Referring(v, Z, x),
         Referring(u, Y, x) \cap Referring(v, Z, x) = {}
  PROVE  Held(t, X, x) = Held(u, Y, x) + Held(v, Z, x)
<1>1. /\ IsFiniteSet(Referring(u, Y, x)) /\ IsFiniteSet(Referring(v, Z, x))
      /\ Held(u, Y, x) \in Nat /\ Held(v, Z, x) \in Nat
  BY HeldIsNatural
<1>2. Cardinality(Referring(u, Y, x) \cup Referring(v, Z, x)) =
        Cardinality(Referring(u, Y, x)) + Cardinality(Referring(v, Z, x)) - Cardinality({})
  BY <1>1, FS_Union
<1>3. Cardinality({}) = 0
  BY FS_EmptySet
<1> QED BY <1>1, <1>2, <1>3 DEF Held

\* The child's table: what it refers to was open, and is counted once more.
LEMMA InstalledExact ==
  ASSUME NEW f, Sane(f), NEW s \in Slots, \A fd \in Fds : f.tables[s][fd].kind \notin Ends,
         NEW table \in [Fds -> Owned(f) \cup {Closed, Plain}]
  PROVE  LET g == Installed(f, s, table) IN
         Sane(g) /\ Owned(g) \subseteq Owned(f) \cup {Closed, Plain}
<1> DEFINE old == f.tables
           t == [f.tables EXCEPT ![s] = table]
           here == {s} \X Fds
           p == TakeAll(f.pipes, t, here)
           g == [tables |-> t, pipes |-> p]
<1>1. old \in Tables /\ f.pipes \in Pipes
  BY DEF Sane, Files, Tables, Pipes
<1>2. Owned(f) \subseteq Descriptor
  BY <1>1 DEF Owned, Tables, Entries
<1>3. t \in Tables /\ table \in [Fds -> Descriptor]
  BY <1>1, <1>2, DescriptorFacts DEF Tables
<1>4. /\ here \in SUBSET Entries
      /\ \A e \in here : t[e[1]][e[2]] = table[e[2]] /\ e[2] \in Fds
      /\ \A e \in Entries \ here : t[e[1]][e[2]] = old[e[1]][e[2]]
      /\ \A e \in here : old[e[1]][e[2]].kind \notin Ends
  BY <1>1 DEF Tables, Entries
<1> HIDE DEF here, t
<1>5. ASSUME NEW id \in PipeIds, NEW e \in Ends
      PROVE  /\ Held(t, Entries, End(e, id)) =
                   Held(old, Entries, End(e, id)) + Held(t, here, End(e, id))
             /\ Held(t, here, End(e, id)) # 0 => f.pipes[id].open
  <2> DEFINE x == End(e, id)
  <2>1. x.kind \in Ends /\ x.pipe = id /\ x # Closed /\ x # Plain
    BY DEF End, Closed, Plain, Ends
  <2> HIDE DEF x
  <2>2. Referring(t, Entries, x) = Referring(old, Entries, x) \cup Referring(t, here, x)
    BY <1>4, <2>1 DEF Referring
  <2>3. Referring(old, Entries, x) \cap Referring(t, here, x) = {}
    BY <1>4, <2>1 DEF Referring
  <2>4. Held(t, Entries, x) = Held(old, Entries, x) + Held(t, here, x)
    BY <1>4, <2>2, <2>3, DisjointHeld
  <2>5. ASSUME Held(t, here, x) # 0
        PROVE  f.pipes[id].open
    <3>1. Held(t, here, x) = 0 <=> \A d \in here : t[d[1]][d[2]] # x
      <4>1. here \in SUBSET Entries
        BY <1>4
      <4> QED BY <4>1, HeldIsNatural
    <3>2. PICK d \in here : t[d[1]][d[2]] = x
      BY <2>5, <3>1
    <3>3. x \in Owned(f)
      BY <1>4, <2>1, <3>2
    <3> QED BY <2>1, <3>3, OwnedAreOpen
  <2> QED BY <2>4, <2>5 DEF x
<1>6. ASSUME NEW id \in PipeIds
      PROVE  /\ p[id] \in Pipe
             /\ \A e \in Ends : p[id].ends[e] = Held(t, Entries, End(e, id))
             /\ p[id].open <=> \E e \in Ends : p[id].ends[e] > 0
  <2> DEFINE q == f.pipes[id]
             n == [e \in Ends |-> q.ends[e] + Held(t, here, End(e, id))]
  <2>1. q \in Pipe /\ \A e \in Ends : Held(t, here, End(e, id)) \in Nat
    BY <1>1, <1>4, HeldIsNatural DEF Pipes
  <2>2. \A e \in Ends : q.ends[e] \in Nat /\ q.ends[e] = Held(old, Entries, End(e, id))
    BY <2>1 DEF Sane, Exact, Pipe
  <2>3. q.open <=> \E e \in Ends : q.ends[e] > 0
    BY DEF Sane, Exact
  <2>4. p[id] = IF q.open THEN [q EXCEPT !.ends = n] ELSE q
    BY DEF TakeAll
  <2>5. n \in [Ends -> Nat] /\ \A e \in Ends : n[e] = Held(t, Entries, End(e, id))
                                            /\ n[e] >= q.ends[e]
    BY <1>5, <2>1, <2>2
  <2> HIDE DEF q, n, p
  <2>6. CASE q.open
    <3>1. p[id].ends = n /\ p[id].open /\ p[id] \in Pipe
      BY <2>1, <2>4, <2>5, <2>6 DEF Pipe
    <3>2. \E e \in Ends : n[e] > 0
      BY <2>2, <2>3, <2>5, <2>6
    <3> QED BY <2>5, <3>1, <3>2
  <2>7. CASE ~q.open
    <3>1. p[id] = q
      BY <2>4, <2>7
    <3>2. \A e \in Ends : Held(t, here, End(e, id)) = 0
      BY <1>5, <2>7 DEF q
    <3>3. \A e \in Ends : q.ends[e] = Held(t, Entries, End(e, id))
      BY <1>5, <2>2, <3>2
    <3> QED BY <2>1, <2>3, <3>1, <3>3
  <2> QED BY <2>6, <2>7
<1>7. g \in Files
  <2>1. p \in Pipes
    <3>1. p = [id \in PipeIds |-> p[id]]
      BY DEF TakeAll
    <3> HIDE DEF p
    <3> QED BY <1>6, <3>1 DEF Pipes
  <2> HIDE DEF p
  <2> QED BY <1>3, <2>1 DEF Files, Tables, Pipes
<1>8. Exact(g)
  <2> HIDE DEF p
  <2> QED BY <1>6 DEF Exact
<1>9. \A e \in Entries : t[e[1]][e[2]] \in Owned(f) \cup {Closed, Plain}
  BY <1>4 DEF Owned
<1>10. Owned(g) \subseteq Owned(f) \cup {Closed, Plain}
  BY <1>9 DEF Owned
<1>11. Installed(f, s, table) = g
  BY DEF Installed, t, here
<1> HIDE DEF g
<1> QED BY <1>7, <1>8, <1>10, <1>11 DEF Sane

\* The end of processes gives back what their tables held.
LEMMA ReleasedExact ==
  ASSUME NEW f, Sane(f), NEW D \in SUBSET Slots
  PROVE  LET g == Released(f, D) IN
         /\ Sane(g) /\ Owned(g) \subseteq Owned(f) \cup {Closed}
         /\ \A s \in Slots : g.tables[s] = IF s \in D THEN ClosedTable ELSE f.tables[s]
<1> DEFINE old == f.tables
           t == [s \in Slots |-> IF s \in D THEN ClosedTable ELSE old[s]]
           there == D \X Fds
           n(id) == [e \in Ends |-> Held(old, there, End(e, id))]
           c(id) == [e \in Ends |-> Held(t, Entries, End(e, id))]
           p == [id \in PipeIds |-> Lowered(f.pipes[id], n(id))]
           g == [tables |-> t, pipes |-> p]
<1>1. old \in Tables /\ f.pipes \in Pipes
  BY DEF Sane, Files, Tables, Pipes
<1>2. t \in Tables
  BY <1>1, DescriptorFacts DEF Tables, ClosedTable
<1>3. /\ there \in SUBSET Entries
      /\ \A e \in there : t[e[1]][e[2]] = Closed
      /\ \A e \in Entries \ there : t[e[1]][e[2]] = old[e[1]][e[2]]
  BY DEF Entries, ClosedTable
<1>4. \A s \in Slots : t[s] = IF s \in D THEN ClosedTable ELSE old[s]
  OBVIOUS
<1> HIDE DEF there, t
<1>5. ASSUME NEW id \in PipeIds, NEW e \in Ends
      PROVE  Held(old, Entries, End(e, id)) =
               Held(t, Entries, End(e, id)) + Held(old, there, End(e, id))
  <2> DEFINE x == End(e, id)
  <2>1. x # Closed
    BY DEF End, Closed, Ends
  <2> HIDE DEF x
  <2>2. Referring(old, Entries, x) = Referring(t, Entries, x) \cup Referring(old, there, x)
    BY <1>3, <2>1 DEF Referring
  <2>3. Referring(t, Entries, x) \cap Referring(old, there, x) = {}
    BY <1>3, <2>1 DEF Referring
  <2> QED BY <1>3, <2>2, <2>3, DisjointHeld DEF x
<1>6. ASSUME NEW id \in PipeIds
      PROVE  /\ p[id] \in Pipe /\ p[id].ends = c(id)
             /\ p[id].open <=> \E e \in Ends : c(id)[e] > 0
  <2>1. f.pipes[id] \in Pipe /\ n(id) \in [Ends -> Nat] /\ c(id) \in [Ends -> Nat]
    BY <1>1, <1>3, HeldIsNatural DEF Pipes
  <2>2. \A e \in Ends : f.pipes[id].ends[e] = c(id)[e] + n(id)[e]
    BY <1>5 DEF Sane, Exact
  <2>3. f.pipes[id].open <=> \E e \in Ends : f.pipes[id].ends[e] > 0
    BY DEF Sane, Exact
  <2>4. p[id] = Lowered(f.pipes[id], n(id))
    OBVIOUS
  <2> HIDE DEF n, c, p
  <2> QED BY <2>1, <2>2, <2>3, <2>4, LoweredMatches
<1>7. p \in Pipes
  <2>1. p = [id \in PipeIds |-> p[id]]
    OBVIOUS
  <2> HIDE DEF p
  <2> QED BY <1>6, <2>1 DEF Pipes
<1>8. \A id \in PipeIds, e \in Ends : c(id)[e] = Held(t, Entries, End(e, id))
  OBVIOUS
<1>9. Released(f, D) = g
  BY DEF Released, t, there
<1> HIDE DEF p, c
<1>10. g \in Files
  BY <1>2, <1>7 DEF Files, Tables, Pipes
<1>11. Exact(g)
  BY <1>6, <1>8 DEF Exact
<1>12. \A e \in Entries : t[e[1]][e[2]] \in {old[e[1]][e[2]], Closed}
  BY <1>3
<1>13. Owned(g) \subseteq Owned(f) \cup {Closed}
  BY <1>12 DEF Owned
<1>14. g.tables = t
  OBVIOUS
<1> HIDE DEF g
<1> QED BY <1>4, <1>9, <1>10, <1>11, <1>13, <1>14 DEF Sane

-----------------------------------------------------------------------------
(* Every step is one of Processes, an operation that keeps the counts, and *)
(* the release of the tables of those that exit.                           *)

FInv == IInv /\ Sane(files) /\ DeadHoldNoPipe

NewEnds == {End(e, id) : e \in Ends, id \in UnusedPipes(files)}
Newborn(s) == (ForkCurrent \/ SpawnCurrentWithIo) /\ s = Min(FreeSlots(scheduler))

\* f is what a call made of the files, before the exits of the step.
Operation(f) ==
  /\ Sane(f)
  /\ Owned(f) \subseteq Owned(files) \cup {Closed, Plain} \cup NewEnds
  /\ \A s \in Slots : s # My /\ ~Newborn(s) => f.tables[s] = files.tables[s]

LEMMA MySlot ==
  ASSUME FInv, Next
  PROVE  Alive /\ My \in Slots /\ My \in Holders(scheduler) /\ files \in Files
<1>1. Alive
  BY DEF Next, Syscall, OtherCall, YieldCurrent, ExitCurrent, ForkCurrent,
         SpawnCurrentWithIo, ExecveCurrent, WaitpidReap, WaitpidBlock, SendSignal,
         SetSignalAction, RestoreSignalContext, TerminateFaultingProcess, TimerTick,
         ReadCharacter, CharacterArrives, InterruptArrives, InUserMode
<1>2. My \in Slots /\ Eligible(Me) /\ Me = scheduler.processes[My]
  BY <1>1, MeIsRunning DEF FInv, Scheduler, Me, Running, My
<1> QED BY <1>1, <1>2 DEF Holders, Eligible, FInv, Sane

LEMMA FilesNextIsNext == FilesNext => Next
BY DEF FilesNext, OpenFile, CloseDescriptor, DuplicateDescriptor, DuplicateDescriptorTo,
       CreatePipe, Fork, Spawn, ProcessStep, Next, Syscall

\* The entry of a table of the caller that changes is one of the caller's.
LEMMA OwnEntry ==
  ASSUME FInv, Next, NEW fd \in Fds
  PROVE  Table[fd] \in Owned(files)
<1>1. <<My, fd>> \in Entries
  BY MySlot DEF Entries
<1> QED BY <1>1 DEF Owned, Table

\* The slot fork and spawn fill holds no pipe end.
LEMMA FreeSlotIsEmpty ==
  ASSUME FInv, ForkCurrent \/ SpawnCurrentWithIo
  PROVE  LET b == Min(FreeSlots(scheduler)) IN
         b \in Slots /\ \A fd \in Fds : files.tables[b][fd].kind \notin Ends
<1>1. Born(Min(FreeSlots(scheduler)))
  BY BirthFollows DEF FInv
<1> QED BY <1>1 DEF Born, FInv, DeadHoldNoPipe, Holders

LEMMA FilesStep ==
  ASSUME FInv, FilesNext
  PROVE  \E f : Operation(f) /\ Commit(f)
<1>1. Next
  BY FilesNextIsNext
<1>2. Alive /\ My \in Slots /\ files \in Files /\ Sane(files)
  BY <1>1, MySlot DEF FInv
<1>4. ASSUME NEW x, NEW fd \in Fds
      PROVE  \A s \in Slots : s # My => [files.tables EXCEPT ![My][fd] = x][s] = files.tables[s]
  BY <1>2 DEF Files
<1>5. CASE OpenFile
  <2> DEFINE f == Allocate(files, My, Plain)
  <2>1. FreeFds(files, My) # {} /\ Commit(f)
    BY <1>5 DEF OpenFile
  <2>2. Sane(f) /\ Owned(f) \subseteq Owned(files) \cup {Plain}
    BY <1>2, <2>1, AllocateExact
  <2>3. f.tables = [files.tables EXCEPT ![My][Min(FreeFds(files, My))] = Plain]
    BY <1>2, <2>1 DEF Allocate, Files
  <2>4. Min(FreeFds(files, My)) \in Fds
    BY <1>2, <2>1, FreeFdFacts
  <2> HIDE DEF f
  <2>5. Operation(f)
    BY <1>4, <2>2, <2>3, <2>4 DEF Operation
  <2> QED BY <2>1, <2>5
<1>6. CASE CloseDescriptor
  <2>1. PICK fd \in Fds : Commit(Close(files, My, fd))
    BY <1>6 DEF CloseDescriptor
  <2> DEFINE f == Close(files, My, fd)
  <2>2. Sane(f) /\ Owned(f) \subseteq Owned(files) \cup {Closed}
    BY <1>2, CloseExact
  <2>3. f.tables = [files.tables EXCEPT ![My][fd] = Closed]
    BY DEF Close
  <2> HIDE DEF f
  <2>4. Operation(f)
    BY <1>4, <2>2, <2>3 DEF Operation
  <2> QED BY <2>1, <2>4 DEF f
<1>7. CASE DuplicateDescriptor
  <2>1. PICK fd \in Fds :
          LET x == Table[fd]
              taken == [files EXCEPT !.pipes = Take(@, x)]
          IN Commit(IF FreeFds(files, My) # {} THEN Allocate(taken, My, x)
                    ELSE [taken EXCEPT !.pipes = Drop(@, x)])
    BY <1>7 DEF DuplicateDescriptor
  <2> DEFINE x == Table[fd]
             taken == [files EXCEPT !.pipes = Take(@, x)]
             f == IF FreeFds(files, My) # {} THEN Allocate(taken, My, x)
                  ELSE [taken EXCEPT !.pipes = Drop(@, x)]
  <2>2. Sane(f) /\ Owned(f) \subseteq Owned(files)
    BY <1>1, <1>2, OwnEntry, DuplicateExact
  <2>3. taken = [tables |-> files.tables, pipes |-> Take(files.pipes, x)]
    BY <1>2 DEF Files
  <2>4. FreeFds(taken, My) = FreeFds(files, My)
    BY <2>3 DEF FreeFds
  <2> HIDE DEF taken, x
  <2>5. FreeFds(files, My) # {} =>
          f.tables = [files.tables EXCEPT ![My][Min(FreeFds(files, My))] = x]
    BY <2>3, <2>4 DEF Allocate
  <2>6. FreeFds(files, My) = {} => f.tables = files.tables
    BY <2>3
  <2>7. FreeFds(files, My) # {} => Min(FreeFds(files, My)) \in Fds
    BY <1>2, FreeFdFacts
  <2> HIDE DEF f
  <2>8. \A s \in Slots : s # My => f.tables[s] = files.tables[s]
    <3>1. CASE FreeFds(files, My) # {}
      <4> DEFINE m == Min(FreeFds(files, My))
      <4>1. m \in Fds /\ f.tables = [files.tables EXCEPT ![My][m] = x]
        BY <2>5, <2>7, <3>1
      <4> HIDE DEF m
      <4> QED BY <1>4, <4>1
    <3>2. CASE FreeFds(files, My) = {}
      BY <2>6, <3>2
    <3> QED BY <3>1, <3>2
  <2>9. Operation(f)
    BY <2>2, <2>8 DEF Operation
  <2> QED BY <2>1, <2>9 DEF f, taken, x
<1>8. CASE DuplicateDescriptorTo
  <2>1. PICK source \in Fds, target \in Fds :
          Commit(Replaced(files, My, target, Table[source]))
    BY <1>8 DEF DuplicateDescriptorTo
  <2> DEFINE f == Replaced(files, My, target, Table[source])
  <2>2. Sane(f) /\ Owned(f) \subseteq Owned(files)
    BY <1>1, <1>2, OwnEntry, ReplacedExact
  <2>3. f.tables = [files.tables EXCEPT ![My][target] = Table[source]]
    BY DEF Replaced
  <2> HIDE DEF f
  <2>4. Operation(f)
    BY <1>4, <2>2, <2>3 DEF Operation
  <2> QED BY <2>1, <2>4 DEF f
<1>9. CASE CreatePipe
  <2> DEFINE id == Min(UnusedPipes(files))
  <2>1. PICK mapped \in BOOLEAN : Commit(CreatedPipe(files, My, id, mapped))
    BY <1>9 DEF CreatePipe
  <2>2. id \in UnusedPipes(files)
    <3>1. UnusedPipes(files) # {} /\ UnusedPipes(files) \subseteq Nat
      BY <1>9, TableAssumption DEF CreatePipe, UnusedPipes, PipeIds
    <3> QED BY <3>1, MinOfNaturals
  <2> HIDE DEF id
  <2> DEFINE f == CreatedPipe(files, My, id, mapped)
             a == ReadFd(files, My)
             b == WriteFd(files, My)
  <2>3. CASE ~mapped \/ ~HasRoom(files, My)
    <3>1. f = files
      BY <1>2, <2>2, <2>3, FailedPipe
    <3>2. Operation(f)
      BY <1>2, <3>1 DEF Operation
    <3> QED BY <2>1, <3>2
  <2>4. CASE mapped /\ HasRoom(files, My)
    <3>1. f = Opened(files, My, id)
      BY <2>4 DEF CreatedPipe
    <3>2. Sane(f) /\ Owned(f) \subseteq Owned(files) \cup
                          {End("PipeRead", id), End("PipeWrite", id)}
      BY <1>2, <2>2, <2>4, <3>1, OpenedExact
    <3>3. {End("PipeRead", id), End("PipeWrite", id)} \subseteq NewEnds
      BY <2>2 DEF NewEnds, Ends
    <3>4. /\ a \in Fds /\ b \in Fds
          /\ f.tables = [[files.tables EXCEPT ![My][a] = End("PipeRead", id)]
                            EXCEPT ![My][b] = End("PipeWrite", id)]
      <4> HIDE DEF f
      <4>1. /\ a \in Fds /\ b \in Fds
            /\ Opened(files, My, id).tables =
                 [[files.tables EXCEPT ![My][a] = End("PipeRead", id)]
                     EXCEPT ![My][b] = End("PipeWrite", id)]
        BY <1>2, <2>2, <2>4, PipeOpened
      <4> QED BY <3>1, <4>1
    <3> HIDE DEF a, b
    <3>5. \A s \in Slots : s # My => f.tables[s] = files.tables[s]
      BY <1>2, <3>4 DEF Files
    <3>6. Operation(f)
      BY <3>2, <3>3, <3>5 DEF Operation
    <3> QED BY <2>1, <3>6
  <2> QED BY <2>3, <2>4
<1>10. CASE Fork
  <2> DEFINE n == Min(FreeSlots(scheduler))
             f == Installed(files, n, Table)
  <2>1. ForkCurrent /\ Commit(f)
    BY <1>10 DEF Fork
  <2>2. n \in Slots /\ \A fd \in Fds : files.tables[n][fd].kind \notin Ends
    BY <2>1, FreeSlotIsEmpty
  <2>3. Table \in [Fds -> Owned(files) \cup {Closed, Plain}]
    <3>1. Table \in [Fds -> Descriptor]
      BY <1>2 DEF Table, Files
    <3> QED BY <1>1, <3>1, OwnEntry
  <2>4. Sane(f) /\ Owned(f) \subseteq Owned(files) \cup {Closed, Plain}
    BY <1>2, <2>2, <2>3, InstalledExact
  <2>5. f.tables = [files.tables EXCEPT ![n] = Table]
    BY DEF Installed
  <2>6. \A s \in Slots : s # n => f.tables[s] = files.tables[s]
    BY <1>2, <2>5 DEF Files
  <2> HIDE DEF f
  <2>7. Operation(f)
    BY <2>1, <2>4, <2>6 DEF Operation, Newborn
  <2> QED BY <2>1, <2>7
<1>11. CASE Spawn
  <2> DEFINE n == Min(FreeSlots(scheduler))
  <2>1. PICK io \in [StdFds -> 0 .. MaxOpenFds] :
          SpawnCurrentWithIo /\ Commit(Installed(files, n, SpawnTable(io)))
    BY <1>11 DEF Spawn
  <2> DEFINE f == Installed(files, n, SpawnTable(io))
  <2>2. n \in Slots /\ \A fd \in Fds : files.tables[n][fd].kind \notin Ends
    BY <2>1, FreeSlotIsEmpty
  <2>3. SpawnTable(io) \in [Fds -> Owned(files) \cup {Closed, Plain}]
    <3>1. \A fd \in Fds : NewTable[fd] \in {Closed, Plain}
      BY DEF NewTable
    <3>2. \A fd \in Fds : Table[fd] \in Owned(files)
      BY <1>1, OwnEntry
    <3> QED BY <3>1, <3>2 DEF SpawnTable
  <2>4. Sane(f) /\ Owned(f) \subseteq Owned(files) \cup {Closed, Plain}
    BY <1>2, <2>2, <2>3, InstalledExact
  <2>5. f.tables = [files.tables EXCEPT ![n] = SpawnTable(io)]
    BY DEF Installed
  <2>6. \A s \in Slots : s # n => f.tables[s] = files.tables[s]
    BY <1>2, <2>5 DEF Files
  <2> HIDE DEF f
  <2>7. Operation(f)
    BY <2>1, <2>4, <2>6 DEF Operation, Newborn
  <2> QED BY <2>1, <2>7 DEF f
<1>12. CASE ProcessStep
  <2>1. Operation(files)
    BY <1>2 DEF Operation
  <2> QED BY <1>12, <2>1 DEF ProcessStep
<1> QED BY <1>5, <1>6, <1>7, <1>8, <1>9, <1>10, <1>11, <1>12 DEF FilesNext

LEMMA FilesNextSound == ASSUME FInv, FilesNext PROVE FInv'
<1>1. Next
  BY FilesNextIsNext
<1>2. IInv'
  BY <1>1, NextSound DEF FInv
<1>3. PICK f : Operation(f) /\ Commit(f)
  BY FilesStep
<1>4. Exiting \in SUBSET Slots /\ files' = Released(f, Exiting) /\ Sane(f)
  BY <1>3 DEF Exiting, Commit, Operation
<1>5. /\ Sane(files')
      /\ \A s \in Slots : files'.tables[s] = IF s \in Exiting THEN ClosedTable ELSE f.tables[s]
  BY <1>4, ReleasedExact
<1>6. Sane(files)'
  BY <1>5 DEF Sane, Exact, Held, Referring
<1>7. ASSUME NEW s \in Slots, s \notin Holders(scheduler'), NEW fd \in Fds
      PROVE  files'.tables[s][fd].kind \notin Ends
  <2>1. CASE s \in Exiting
    BY <1>5, <2>1, DescriptorFacts DEF ClosedTable
  <2>2. CASE s \notin Exiting
    <3> DEFINE p == scheduler.processes[s]
               q == scheduler'.processes[s]
    <3>1. (q.zombie => p.zombie) /\ (~q.active \/ q.zombie)
      BY <1>7, <2>2 DEF Exiting, Holders
    <3>2. ~Newborn(s)
      <4>1. SUFFICES ASSUME Newborn(s) PROVE FALSE
        OBVIOUS
      <4>2. ~p.active /\ q.active
        BY <4>1, BirthFollows DEF Newborn, Born, FInv
      <4>3. ~p.zombie
        BY <4>2 DEF FInv, IInv, Sound, SoundTable, WellFormed
      <4> QED BY <3>1, <4>2, <4>3
    <3>3. s \notin Holders(scheduler)
      <4>1. SUFFICES ASSUME p.active, ~p.zombie PROVE FALSE
        BY DEF Holders
      <4>2. ~q.active
        BY <3>1, <4>1
      <4>3. SameLife(p, q) \/ Collected(s) \/ Born(s)
        BY <1>1, NextFollows DEF FInv, Follows, Collected, Born
      <4> QED BY <4>1, <4>2, <4>3 DEF SameLife, Collected, Born
    <3>4. s # My
      BY <1>1, <3>3, MySlot
    <3>5. files'.tables[s] = files.tables[s]
      BY <1>3, <1>5, <2>2, <3>2, <3>4 DEF Operation
    <3> QED BY <3>3, <3>5 DEF FInv, DeadHoldNoPipe
  <2> QED BY <2>1, <2>2
<1>8. DeadHoldNoPipe'
  BY <1>7 DEF DeadHoldNoPipe, Holders
<1> QED BY <1>2, <1>6, <1>8 DEF FInv

LEMMA FilesInitSound == ASSUME Init, FilesInit PROVE FInv
<1>1. IInv
  BY InitSound
<1>2. \A s \in Slots, fd \in Fds : files.tables[s][fd] \in {Closed, Plain}
  BY DEF FilesInit, NewTable
<1>3. files \in Files
  <2>1. EmptyPipe \in Pipe
    BY NewPipeCloses
  <2>2. NewTable \in [Fds -> Descriptor]
    BY DescriptorFacts DEF NewTable
  <2> QED BY <2>1, <2>2 DEF FilesInit, Files
<1>4. Exact(files)
  <2>1. ASSUME NEW id \in PipeIds, NEW e \in Ends
        PROVE  Held(files.tables, Entries, End(e, id)) = 0
    <3>1. End(e, id) \notin {Closed, Plain}
      BY DEF End, Closed, Plain, Ends
    <3>2. \A d \in Entries : files.tables[d[1]][d[2]] # End(e, id)
      BY <1>2, <3>1 DEF Entries
    <3>3. Entries \in SUBSET Entries
      OBVIOUS
    <3> QED BY <3>2, <3>3, HeldIsNatural
  <2>2. \A id \in PipeIds : files.pipes[id] = EmptyPipe
    BY DEF FilesInit
  <2> QED BY <2>1, <2>2 DEF Exact, EmptyPipe
<1>5. DeadHoldNoPipe
  BY <1>2, DescriptorFacts DEF DeadHoldNoPipe
<1> QED BY <1>1, <1>3, <1>4, <1>5 DEF FInv, Sane

LEMMA FilesSound == FilesSpec => []FInv
<1>1. Init /\ FilesInit => FInv
  BY FilesInitSound
<1>2. FInv /\ [FilesNext]_allVars => FInv'
  <2>1. CASE FilesNext
    BY <2>1, FilesNextSound
  <2>2. CASE UNCHANGED allVars
    BY <2>2 DEF allVars, FInv, IInv, Sane, DeadHoldNoPipe, Holders, Sound, SoundTable,
       SoundCpu, Running, Exact, Held, Referring
  <2> QED BY <2>1, <2>2
<1> QED BY <1>1, <1>2, PTL DEF FilesSpec

\* Descriptors add no behaviour to the process table: what Processes promises
\* holds with them.
THEOREM FilesImplementProcesses == FilesSpec => Spec
<1>1. [FilesNext]_allVars => [Next]_vars
  BY FilesNextIsNext DEF allVars, vars
<1> QED BY <1>1, PTL DEF FilesSpec, Spec

\* Tables and pipes keep their type; the counts never go below zero.
THEOREM FilesTypeCorrect == FilesSpec => []FilesTypeOK
<1>1. FInv => FilesTypeOK
  BY DEF FInv, Sane, FilesTypeOK
<1> QED BY <1>1, FilesSound, PTL

\* Reader and writer counts equal the descriptors in all tables, whatever the
\* processes do and however they end.
THEOREM CountsAlwaysExact == FilesSpec => []CountsAreExact
<1>1. FInv => CountsAreExact
  BY DEF FInv, Sane, CountsAreExact
<1> QED BY <1>1, FilesSound, PTL

\* The table of a free slot or of a zombie holds no pipe end.
THEOREM DeadNeverHold == FilesSpec => []DeadHoldNoPipe
<1>1. FInv => DeadHoldNoPipe
  BY DEF FInv
<1> QED BY <1>1, FilesSound, PTL

\* A pipe call that fails changes nothing.
THEOREM FailedPipeAlwaysUndone == FilesSpec => []FailedPipeIsUndone
<1>1. FInv => FailedPipeIsUndone
  <2> SUFFICES ASSUME FInv, NEW mapped \in BOOLEAN, UnusedPipes(files) # {},
                      ~mapped \/ ~HasRoom(files, My)
               PROVE  CreatedPipe(files, My, Min(UnusedPipes(files)), mapped) = files
    BY DEF FailedPipeIsUndone
  <2>1. Min(UnusedPipes(files)) \in UnusedPipes(files)
    <3>1. UnusedPipes(files) \subseteq Nat
      BY TableAssumption DEF UnusedPipes, PipeIds
    <3> QED BY <3>1, MinOfNaturals
  <2>2. My \in Slots
    BY DEF FInv, IInv, Sound, Scheduler, My
  <2> QED BY <2>1, <2>2, FailedPipe DEF FInv
<1> QED BY <1>1, FilesSound, PTL

\* Once an end of an open pipe has no descriptor it gets none until the pipe is
\* reset.
THEOREM EndsAlwaysStayClosed == FilesSpec => EndsStayClosed
<1>1. FInv /\ [FilesNext]_allVars => [EndStaysClosed]_allVars
  <2> SUFFICES ASSUME FInv, FilesNext, NEW id \in PipeIds, NEW e \in Ends,
                      files.pipes[id].open, files.pipes[id].ends[e] = 0, files'.pipes[id].open
               PROVE  files'.pipes[id].ends[e] = 0
    BY DEF EndStaysClosed
  <2> DEFINE x == End(e, id)
  <2>1. PICK f : Operation(f) /\ Commit(f)
    BY FilesStep
  <2>2. Exiting \in SUBSET Slots /\ files' = Released(f, Exiting) /\ Sane(f)
    BY <2>1 DEF Exiting, Commit, Operation
  <2>3. Sane(files') /\ Owned(files') \subseteq Owned(f) \cup {Closed}
    BY <2>2, ReleasedExact
  <2>4. x \notin Owned(files)
    <3>1. Held(files.tables, Entries, x) = 0
      BY DEF FInv, Sane, Exact
    <3>2. Entries \in SUBSET Entries
      OBVIOUS
    <3>3. \A d \in Entries : files.tables[d[1]][d[2]] # x
      BY <3>1, <3>2, HeldIsNatural
    <3> QED BY <3>3 DEF Owned
  <2>5. x \notin {Closed, Plain} /\ x \notin NewEnds
    <3>1. x \notin {Closed, Plain}
      BY DEF End, Closed, Plain, Ends
    <3>2. ASSUME NEW k \in Ends, NEW i \in UnusedPipes(files)
          PROVE  x # End(k, i)
      <4>1. i # id
        BY DEF UnusedPipes
      <4> QED BY <4>1 DEF End
    <3> QED BY <3>1, <3>2 DEF NewEnds
  <2>6. x \notin Owned(files')
    BY <2>1, <2>3, <2>4, <2>5 DEF Operation
  <2>7. Held(files'.tables, Entries, x) = 0
    <3>1. Entries \in SUBSET Entries
      OBVIOUS
    <3> QED BY <2>6, <3>1, HeldIsNatural DEF Owned
  <2> QED BY <2>3, <2>7 DEF Sane, Exact
<1> QED BY <1>1, FilesSound, PTL DEF FilesSpec, EndsStayClosed
=============================================================================
