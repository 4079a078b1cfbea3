------------------------------ MODULE Pipeline ------------------------------
(***************************************************************************)
(* A pipeline of the shell, `a | b | c`: the shell creates the pipes, one  *)
(* fork per stage, closes its own ends and collects the stages             *)
(* (userland/apps/shell/exec.rs); a stage closes the ends it inherited and *)
(* does not use, becomes its program, reads until end of file or until its *)
(* buffer is full, and writes (userland/api).  A step is one system call.  *)
(*                                                                         *)
(* Pipes are the queues PipeRing implements, and an end counts as open     *)
(* while some process holds it, which is CountsAreExact of Descriptors.    *)
(* EAGAIN from a read or from waitpid is followed by a yield and the same  *)
(* call: no state changes, and the step is left out.                       *)
(***************************************************************************)
EXTENDS Naturals, Sequences

CONSTANTS
  Stages,       \* commands of the pipeline, 2 to MAX_PIPELINE
  Capacity,     \* PIPE_CAPACITY
  BufferSize,   \* the buffer of a filter and MAX_READ_BUFFER, which are equal
  MaxOutput     \* the bytes a program that reads nothing writes, at most

ASSUME PipelineAssumption ==
  /\ Stages \in Nat /\ Stages >= 2
  /\ Capacity \in Nat \ {0} /\ BufferSize \in Nat \ {0}
  /\ MaxOutput \in Nat

VARIABLES
  shell,     \* where run_pipeline_processes is, and what it holds
  stages,    \* the child of each stage
  queues     \* the bytes in each pipe

vars == <<shell, stages, queues>>

Stage == 1 .. Stages
Pipes == 1 .. Stages - 1     \* pipe p runs from stage p to stage p + 1
ReadEnd(p) == <<p, 0>>
WriteEnd(p) == <<p, 1>>
Ends(P) == {ReadEnd(p) : p \in P} \cup {WriteEnd(p) : p \in P}

-----------------------------------------------------------------------------
(* Descriptors.                                                            *)

Live(i) == stages[i].pc \in {"setup", "reading", "writing"}

\* The processes that hold end e.
HeldIn(sh, st, e) == e \in sh.holds \/ \E i \in Stage : e \in st[i].holds
Held(e) == HeldIn(shell, stages, e)

\* close_pipes, and child_setup_pipes, close in the order of the pipes, the read
\* end first.
Before(e, f) == e[1] < f[1] \/ (e[1] = f[1] /\ e[2] < f[2])
FirstEnd(E) == CHOOSE e \in E : \A f \in E \ {e} : Before(e, f)

\* A pipe is reset when nobody holds an end of it.
Settle(sh, st) ==
  /\ shell' = sh /\ stages' = st
  /\ queues' = [p \in Pipes |-> IF HeldIn(sh, st, ReadEnd(p)) \/ HeldIn(sh, st, WriteEnd(p))
                                THEN queues[p] ELSE <<>>]

-----------------------------------------------------------------------------
(* The shell: run_pipeline_processes.                                      *)

Absent == [pc |-> "absent", holds |-> {}, input |-> <<>>, eof |-> FALSE,
           output |-> <<>>, sent |-> <<>>, error |-> "none"]

Init ==
  /\ shell = [pc |-> "creating", created |-> 0, launched |-> 0, collected |-> 0, holds |-> {}]
  /\ stages = [i \in Stage |-> Absent]
  /\ queues = [p \in Pipes |-> <<>>]

\* All pipes are created before the first fork.
CreatePipe ==
  /\ shell.pc = "creating"
  /\ LET p == shell.created + 1
     IN shell' = [shell EXCEPT !.created = p, !.holds = @ \cup Ends({p}),
                               !.pc = IF p = Stages - 1 THEN "forking" ELSE @]
  /\ UNCHANGED <<stages, queues>>

\* pipe or fork fails: close everything, collect those that were launched.
CannotGoOn ==
  /\ shell.pc \in {"creating", "forking"}
  /\ shell' = [shell EXCEPT !.pc = "closing"]
  /\ UNCHANGED <<stages, queues>>

\* Mutant: the shell lets go of the pipe behind each stage at once.
ForkAndClose ==
  /\ shell.pc = "forking"
  /\ LET i == shell.launched + 1
     IN Settle([shell EXCEPT !.launched = i, !.pc = IF i = Stages THEN "closing" ELSE @,
                             !.holds = @ \ Ends({i})],
               [stages EXCEPT ![i] = [Absent EXCEPT !.pc = "setup", !.holds = shell.holds]])

ForkStage ==
  /\ shell.pc = "forking"
  /\ LET i == shell.launched + 1
     IN /\ shell' = [shell EXCEPT !.launched = i, !.pc = IF i = Stages THEN "closing" ELSE @]
        /\ stages' = [stages EXCEPT ![i] = [Absent EXCEPT !.pc = "setup", !.holds = shell.holds]]
  /\ UNCHANGED queues

\* Mutant: the shell waits without closing its ends.
ClosePipesNever ==
  /\ shell.pc = "closing"
  /\ Settle([shell EXCEPT !.pc = "collecting"], stages)

ClosePipes ==
  /\ shell.pc = "closing"
  /\ IF shell.holds = {}
     THEN Settle([shell EXCEPT !.pc = "collecting"], stages)
     ELSE Settle([shell EXCEPT !.holds = @ \ {FirstEnd(@)}], stages)

\* waitpid of each child, in the order of their launch.
Collect ==
  /\ shell.pc = "collecting"
  /\ IF shell.collected = shell.launched
     THEN shell' = [shell EXCEPT !.pc = "done"] /\ UNCHANGED stages
     ELSE LET i == shell.collected + 1
          IN /\ stages[i].pc = "ended"
             /\ shell' = [shell EXCEPT !.collected = i]
             /\ stages' = [stages EXCEPT ![i].pc = "collected"]
  /\ UNCHANGED queues

-----------------------------------------------------------------------------
(* A stage.                                                                *)

\* The ends stage i keeps: used_stdin and used_stdout.
Used(i) == {ReadEnd(p) : p \in {i - 1} \cap Pipes} \cup {WriteEnd(p) : p \in {i} \cap Pipes}

Become(i, stage) == Settle(shell, [stages EXCEPT ![i] = stage])

\* exit, and schedule's release of the descriptors.
End(i, error) == Become(i, [stages[i] EXCEPT !.pc = "ended", !.holds = {}, !.error = error])

\* child_setup_pipes; dup2 onto 0 or 1 and the close that follows leave the stage
\* with the same ends.
CloseUnused(i) ==
  /\ stages[i].pc = "setup" /\ ~ (stages[i].holds \subseteq Used(i))
  /\ Become(i, [stages[i] EXCEPT !.holds = @ \ {FirstEnd(@ \ Used(i))}])

\* execve of a program that reads no input, or of a filter, or neither.
Execute(i) ==
  /\ stages[i].pc = "setup" /\ stages[i].holds \subseteq Used(i)
  /\ \/ \E n \in 0 .. MaxOutput :
          Become(i, [stages[i] EXCEPT !.pc = "writing", !.output = [b \in 1 .. n |-> b]])
     \/ i > 1 /\ Become(i, [stages[i] EXCEPT !.pc = "reading"])
     \/ End(i, "missing")

Smaller(a, b) == IF a <= b THEN a ELSE b

\* ipc::read gives 0.  Mutant: the bytes that are left do not count.
AtEndEarly(p) == ~Held(WriteEnd(p))
AtEnd(p) == queues[p] = <<>> /\ ~Held(WriteEnd(p))

\* read_fd of the api, and cat: one read call.
ReadInput(i) ==
  LET p == i - 1
      room == BufferSize - Len(stages[i].input)
      n == Smaller(room, Len(queues[p]))
      Filtered(stage) == [stage EXCEPT !.pc = "writing", !.output = stage.input]
  IN /\ stages[i].pc = "reading"
     /\ \/ /\ room = 0
           /\ Become(i, Filtered(stages[i]))
        \/ /\ room > 0 /\ AtEnd(p)
           /\ Become(i, [Filtered(stages[i]) EXCEPT !.eof = TRUE])
        \/ /\ room > 0 /\ queues[p] # <<>>
           /\ stages' = [stages EXCEPT ![i].input = @ \o SubSeq(queues[p], 1, n)]
           /\ queues' = [queues EXCEPT ![p] = SubSeq(@, n + 1, Len(@))]
           /\ UNCHANGED shell

\* write_all and legacy::write: one write call, of any length a program chooses.
\* An error, EAGAIN included, ends the program.  Mutant: a short write is taken
\* for a whole one.
WrittenWhole(stage, length, n) ==
  [stage EXCEPT !.sent = @ \o SubSeq(stage.output, 1, length),
                !.output = SubSeq(@, length + 1, Len(@))]
Written(stage, length, n) ==
  [stage EXCEPT !.sent = @ \o SubSeq(stage.output, 1, n),
                !.output = SubSeq(@, n + 1, Len(@))]

WriteOutput(i) ==
  /\ stages[i].pc = "writing"
  /\ \E length \in 1 .. Smaller(Len(stages[i].output), BufferSize) :
       IF i = Stages
       THEN Become(i, Written(stages[i], length, length))
       ELSE LET n == Smaller(length, Capacity - Len(queues[i]))
            IN \/ /\ ~Held(ReadEnd(i))
                  /\ End(i, "EPIPE")
               \/ /\ Held(ReadEnd(i)) /\ n = 0
                  /\ End(i, "EAGAIN")
               \/ /\ Held(ReadEnd(i)) /\ n > 0
                  /\ stages' = [stages EXCEPT ![i] = Written(@, length, n)]
                  /\ queues' = [queues EXCEPT ![i] = @ \o SubSeq(stages[i].output, 1, n)]
                  /\ UNCHANGED shell

Finish(i) ==
  /\ stages[i].pc = "writing" /\ stages[i].output = <<>>
  /\ End(i, "none")

\* A signal or a fault ends the process wherever it is.
Die(i) == Live(i) /\ End(i, "killed")

-----------------------------------------------------------------------------
ShellStep == CreatePipe \/ CannotGoOn \/ ForkStage \/ ClosePipes \/ Collect
Runs(i) == CloseUnused(i) \/ Execute(i) \/ ReadInput(i) \/ WriteOutput(i) \/ Finish(i)

Next == ShellStep \/ \E i \in Stage : Runs(i) \/ Die(i)

Spec == Init /\ [][Next]_vars

\* Every wait of these programs is a yield, and schedule goes round robin: a
\* process that can make its next call makes it.
Fairness == WF_vars(ShellStep) /\ \A i \in Stage : WF_vars(Runs(i))
FairSpec == Spec /\ Fairness

-----------------------------------------------------------------------------
(* Properties.                                                             *)

\* A filter that saw the end of its input has all that the stage before it ever
\* wrote, and that stage is gone: however slowly the shell and the other stages
\* close the copies they inherited, end of file is never early.
EofIsTheEnd ==
  \A p \in Pipes :
    stages[p + 1].eof =>
      /\ stages[p + 1].input = stages[p].sent
      /\ stages[p].pc \in {"ended", "collected"}

\* A filter's input and the bytes still in its pipe are what the stage before it
\* wrote, in that order, while the filter reads.
NothingIsLost ==
  \A p \in Pipes :
    stages[p + 1].pc = "reading" => stages[p + 1].input \o queues[p] = stages[p].sent

\* A stage is told EPIPE only when the next one is gone, or will never be: not
\* because it was faster than the shell that has still to fork its reader.
BrokenIsTrue ==
  \A p \in Pipes :
    stages[p].error = "EPIPE" =>
      \/ stages[p + 1].pc \in {"ended", "collected"}
      \/ shell.launched <= p /\ shell.pc \in {"closing", "collecting", "done"}

\* Every pipeline ends, whatever its stages do and whichever of them die.
PipelineEnds == <>(shell.pc = "done")
=============================================================================
