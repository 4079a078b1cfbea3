---------------------------- MODULE Descriptors ----------------------------
(***************************************************************************)
(* The descriptor tables of the processes (kernel/src/exec/process.rs) and *)
(* the reader and writer counts of the pipes (kernel/src/ipc.rs), composed *)
(* with the process table: every action is one of Processes together with  *)
(* what that call does to tables and pipes, and with the descriptors that  *)
(* schedule closes for each process that exits in the step, whatever the   *)
(* exit comes from.                                                        *)
(*                                                                         *)
(* The bytes in a pipe are the matter of PipeRing.  Stdin, stdout, stderr  *)
(* and files hold no reference: they are all of kind "Plain".              *)
(***************************************************************************)
EXTENDS Processes

CONSTANTS
  MaxOpenFds,    \* MAX_OPEN_FDS, the entries of a table
  StandardFds,   \* the first entries, stdin to stderr, that allocate skips: 3
  MaxPipes       \* MAX_PIPES

ASSUME TableAssumption ==
  /\ MaxOpenFds \in Nat /\ StandardFds \in 0 .. MaxOpenFds
  /\ MaxPipes \in Nat \ {0}

VARIABLE files   \* DESCRIPTOR_TABLES and PIPES

allVars == <<scheduler, files>>

Fds == 0 .. MaxOpenFds - 1
StdFds == 0 .. StandardFds - 1
PipeIds == 0 .. MaxPipes - 1
Ends == {"PipeRead", "PipeWrite"}

Descriptor == [kind : {"Closed", "Plain"}, pipe : {0}] \cup [kind : Ends, pipe : PipeIds]
Closed == [kind |-> "Closed", pipe |-> 0]
Plain == [kind |-> "Plain", pipe |-> 0]
End(kind, id) == [kind |-> kind, pipe |-> id]

\* DescriptorTable::new.
NewTable == [fd \in Fds |-> IF fd \in StdFds THEN Plain ELSE Closed]
ClosedTable == [fd \in Fds |-> Closed]

\* struct Pipe: ends["PipeRead"] is readers, ends["PipeWrite"] is writers.
Pipe == [open : BOOLEAN, ends : [Ends -> Nat]]
EmptyPipe == [open |-> FALSE, ends |-> [e \in Ends |-> 0]]
NewPipe == [open |-> TRUE, ends |-> [e \in Ends |-> 1]]

Files == [tables : [Slots -> [Fds -> Descriptor]], pipes : [PipeIds -> Pipe]]

-----------------------------------------------------------------------------
(* References.                                                             *)

\* How many entries of X, a set of <<slot, fd>>, refer to x.
Entries == Slots \X Fds
Referring(t, X, x) == {e \in X : t[e[1]][e[2]] = x}
Held(t, X, x) == Cardinality(Referring(t, X, x))

\* add_reader and add_writer.
Take(p, x) ==
  IF x.kind \in Ends /\ p[x.pipe].open
  THEN [p EXCEPT ![x.pipe].ends[x.kind] = @ + 1]
  ELSE p

\* n calls of close_reader or close_writer: saturating, and the pipe is reset when
\* nobody is left at either end.
Lowered(pipe, n) ==
  LET left == [e \in Ends |-> IF pipe.ends[e] > n[e] THEN pipe.ends[e] - n[e] ELSE 0]
  IN IF ~pipe.open \/ \A e \in Ends : left[e] = 0
     THEN EmptyPipe
     ELSE [pipe EXCEPT !.ends = left]

\* release_pipe_reference of one descriptor.
Drop(p, x) ==
  IF x.kind \in Ends
  THEN [p EXCEPT ![x.pipe] = Lowered(@, [e \in Ends |-> IF e = x.kind THEN 1 ELSE 0])]
  ELSE p

\* The references of a whole new table, counted (fork, apply_spawn_io).
TakeAll(p, t, X) ==
  [id \in PipeIds |->
     IF p[id].open
     THEN [p[id] EXCEPT !.ends = [e \in Ends |-> @[e] + Held(t, X, End(e, id))]]
     ELSE p[id]]

-----------------------------------------------------------------------------
(* Operations of the process in slot s on f, a state of tables and pipes.  *)

\* DescriptorTable::allocate looks past the standard descriptors.
FreeFds(f, s) == {fd \in Fds \ StdFds : f.tables[s][fd] = Closed}

Allocate(f, s, x) ==
  IF FreeFds(f, s) = {} THEN f ELSE [f EXCEPT !.tables[s][Min(FreeFds(f, s))] = x]

\* close_descriptor.
Close(f, s, fd) ==
  [tables |-> [f.tables EXCEPT ![s][fd] = Closed],
   pipes |-> Drop(f.pipes, f.tables[s][fd])]

\* Mutants of dup2: the entry that is overwritten keeps its reference; that of
\* the source is released in its place.
ReplacedInPlace(f, s, fd, x) ==
  [tables |-> [f.tables EXCEPT ![s][fd] = x], pipes |-> Take(f.pipes, x)]
ReplacedSwapped(f, s, fd, x) ==
  [tables |-> [f.tables EXCEPT ![s][fd] = x], pipes |-> Drop(Take(f.pipes, x), x)]

\* dup2 past its checks: the reference of the source is taken first.
Replaced(f, s, fd, x) ==
  [tables |-> [f.tables EXCEPT ![s][fd] = x],
   pipes |-> Drop(Take(f.pipes, x), f.tables[s][fd])]

\* release_descriptors of every slot of D.
Released(f, D) ==
  [tables |-> [s \in Slots |-> IF s \in D THEN ClosedTable ELSE f.tables[s]],
   pipes |-> [id \in PipeIds |->
                Lowered(f.pipes[id],
                        [e \in Ends |-> Held(f.tables, D \X Fds, End(e, id))])]]

\* The child's table is installed and its references are counted.
Installed(f, s, table) ==
  LET t == [f.tables EXCEPT ![s] = table]
  IN [tables |-> t, pipes |-> TakeAll(f.pipes, t, {s} \X Fds)]

\* create_pipe from the pipe it found; the user array is mapped or not.  Mutant:
\* the rollback relies on the descriptors it closes.
UnusedPipes(f) == {id \in PipeIds : ~f.pipes[id].open}

Opened(f, s, id) ==
  Allocate(Allocate([f EXCEPT !.pipes[id] = NewPipe], s, End("PipeRead", id)),
           s, End("PipeWrite", id))

RollBackShort(f, s, id) ==
  LET g == Opened(f, s, id)
  IN IF FreeFds(f, s) = {} THEN g ELSE Close(g, s, Min(FreeFds(f, s)))

RollBack(f, s, id) ==
  LET g == Opened(f, s, id)
      h == IF FreeFds(f, s) = {} THEN g ELSE Close(g, s, Min(FreeFds(f, s)))
  IN [h EXCEPT !.pipes = Drop(Drop(@, End("PipeRead", id)), End("PipeWrite", id))]

HasRoom(f, s) == \E fd, other \in FreeFds(f, s) : fd # other

CreatedPipe(f, s, id, mapped) ==
  LET g == Opened(f, s, id)
      read_end == Min(FreeFds(f, s))
      write_end == Min(FreeFds(f, s) \ {read_end})
  IN CASE ~HasRoom(f, s) -> RollBack(f, s, id)
       [] HasRoom(f, s) /\ ~mapped -> Close(Close(g, s, read_end), s, write_end)
       [] HasRoom(f, s) /\ mapped -> g

-----------------------------------------------------------------------------
(* Actions.                                                                *)

FilesInit ==
  files = [tables |-> [s \in Slots |-> NewTable],
           pipes |-> [id \in PipeIds |-> EmptyPipe]]

My == scheduler.current
Table == files.tables[My]
Usable(x) == x.kind # "Closed"

\* The slots whose process exits in this step, by exit, a signal or a fault.
Exiting == {s \in Slots : scheduler'.processes[s].zombie /\ ~scheduler.processes[s].zombie}

\* The operation made f of the files; schedule(_, true) then closes the
\* descriptors of each process that exits.
Commit(f) == files' = Released(f, Exiting)

\* open_file, when an entry is free.
OpenFile == OtherCall /\ FreeFds(files, My) # {} /\ Commit(Allocate(files, My, Plain))

CloseDescriptor ==
  /\ OtherCall
  /\ \E fd \in Fds : Usable(Table[fd]) /\ Commit(Close(files, My, fd))

\* dup takes the reference and gives it back when the table is full (EMFILE).
DuplicateDescriptor ==
  /\ OtherCall
  /\ \E fd \in Fds :
       LET x == Table[fd]
           taken == [files EXCEPT !.pipes = Take(@, x)]
       IN /\ Usable(x)
          /\ Commit(IF FreeFds(files, My) # {}
                    THEN Allocate(taken, My, x)
                    ELSE [taken EXCEPT !.pipes = Drop(@, x)])

DuplicateDescriptorTo ==
  /\ OtherCall
  /\ \E source, target \in Fds :
       /\ source # target /\ Usable(Table[source])
       /\ Commit(Replaced(files, My, target, Table[source]))

CreatePipe ==
  /\ OtherCall /\ UnusedPipes(files) # {}
  /\ \E mapped \in BOOLEAN :
       Commit(CreatedPipe(files, My, Min(UnusedPipes(files)), mapped))

\* fork copies the table.
Fork == ForkCurrent /\ Commit(Installed(files, Min(FreeSlots(scheduler)), Table))

\* apply_spawn_io: a fresh table whose standard entries are replaced by the
\* caller's descriptors that io names; MaxOpenFds stands for INHERIT.
SpawnTable(io) ==
  [fd \in Fds |-> IF fd \in StdFds /\ io[fd] \in Fds /\ Usable(Table[io[fd]])
                  THEN Table[io[fd]]
                  ELSE NewTable[fd]]

Spawn ==
  /\ SpawnCurrentWithIo
  /\ \E io \in [StdFds -> 0 .. MaxOpenFds] :
       Commit(Installed(files, Min(FreeSlots(scheduler)), SpawnTable(io)))

\* Every other step of Processes leaves the tables to the exits it causes.
ProcessStep ==
  /\ \/ OtherCall \/ YieldCurrent \/ ExitCurrent \/ ExecveCurrent
     \/ WaitpidReap \/ WaitpidBlock
     \/ SendSignal \/ SetSignalAction \/ RestoreSignalContext
     \/ ReadCharacter \/ CharacterArrives \/ InterruptArrives
     \/ TerminateFaultingProcess \/ TimerTick
  /\ Commit(files)

FilesNext ==
  \/ OpenFile \/ CloseDescriptor \/ DuplicateDescriptor \/ DuplicateDescriptorTo
  \/ CreatePipe \/ Fork \/ Spawn \/ ProcessStep

FilesSpec == Init /\ FilesInit /\ [][FilesNext]_allVars

-----------------------------------------------------------------------------
(* Properties.                                                             *)

\* The tables and the pipes have the fields and ranges of the source.
FilesTypeOK == files \in Files

\* The slots whose table may hold something.
Holders(k) == {s \in Slots : k.processes[s].active /\ ~k.processes[s].zombie}

\* The counts of a pipe are exactly the descriptors of all processes that refer
\* to its ends, through pipe, dup, dup2, fork, spawn, close, exit, faults, signals
\* and failed calls.  So a pipe is reset when its last descriptor goes and never
\* before, end-of-file and EPIPE are true, and no pipe leaks.
Exact(f) ==
  \A id \in PipeIds :
    /\ \A e \in Ends : f.pipes[id].ends[e] = Held(f.tables, Entries, End(e, id))
    /\ f.pipes[id].open <=> \E e \in Ends : f.pipes[id].ends[e] > 0
CountsAreExact == Exact(files)

\* A process that is gone, or was never there, holds no descriptor that a count
\* includes: a reader never waits for a writer that is dead, and the table fork
\* overwrites holds nothing.
DeadHoldNoPipe ==
  \A s \in Slots \ Holders(scheduler), fd \in Fds : files.tables[s][fd].kind \notin Ends

\* End of file and EPIPE are final: once no process holds an end of a pipe that
\* is open, nobody gets one again before the pipe is reset.  dup, dup2, fork and
\* spawn only multiply descriptors that exist, and the counts know them all.
EndStaysClosed ==
  \A id \in PipeIds, e \in Ends :
    LET old == files.pipes[id]
        new == files'.pipes[id]
    IN old.open /\ old.ends[e] = 0 => ~new.open \/ new.ends[e] = 0
EndsStayClosed == [][EndStaysClosed]_allVars

\* A pipe call that fails, for want of descriptors (EMFILE) or because the user
\* array is not mapped (EFAULT), leaves tables and counts as they were: the
\* rollback closes ends twice, which only saturation and the reset absorb.
FailedPipeIsUndone ==
  \A mapped \in BOOLEAN :
    UnusedPipes(files) # {} /\ (~mapped \/ ~HasRoom(files, My)) =>
      CreatedPipe(files, My, Min(UnusedPipes(files)), mapped) = files
=============================================================================
