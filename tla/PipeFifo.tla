------------------------------ MODULE PipeFifo ------------------------------
(***************************************************************************)
(* What the pipes of kernel/src/ipc.rs promise to those who hold their     *)
(* ends: each is a bounded queue of bytes, read in the order they were     *)
(* written, with end of file once nobody can write and EPIPE once nobody   *)
(* can read.  Nothing is said of rings, indices or of which pipe a caller  *)
(* is given.                                                               *)
(***************************************************************************)
EXTENDS Naturals, Sequences

CONSTANTS
  PipeIds,     \* the indices of PIPES
  Capacity,    \* PIPE_CAPACITY
  Byte,        \* the values of a byte
  MaxBuffer    \* MAX_READ_BUFFER, the longest transfer of one call

VARIABLES
  fifos,    \* the queue and the counts of each pipe
  answer    \* what the last call returned

fifoVars == <<fifos, answer>>

Errors == {"TooMany", "WouldBlock", "Broken"}
Failed(error) == [error |-> error, bytes |-> <<>>, count |-> 0]
Given(bytes) == [error |-> "None", bytes |-> bytes, count |-> Len(bytes)]
Done(count) == [error |-> "None", bytes |-> <<>>, count |-> count]

Unused == [queue |-> <<>>, readers |-> 0, writers |-> 0]
InUse(fifo) == fifo.readers + fifo.writers > 0

\* The inputs of a write call.
Inputs == UNION {[1 .. n -> Byte] : n \in 0 .. MaxBuffer}

FifoInit ==
  /\ fifos = [id \in PipeIds |-> Unused]
  /\ answer = Done(0)

\* Any pipe that is not in use may be given out, empty.
FifoCreate ==
  \/ \E id \in PipeIds :
       /\ ~InUse(fifos[id])
       /\ fifos' = [fifos EXCEPT ![id] = [queue |-> <<>>, readers |-> 1, writers |-> 1]]
       /\ answer' = Done(id)
  \/ /\ \A id \in PipeIds : InUse(fifos[id])
     /\ answer' = Failed("TooMany")
     /\ UNCHANGED fifos

\* An end is shared by one who holds it: an end nobody holds stays closed.
FifoShare(id) ==
  /\ \/ /\ fifos[id].readers > 0
        /\ fifos' = [fifos EXCEPT ![id].readers = @ + 1]
     \/ /\ fifos[id].writers > 0
        /\ fifos' = [fifos EXCEPT ![id].writers = @ + 1]
  /\ answer' = Done(0)

\* The last to leave takes the bytes nobody read with him.
Left(fifo) == IF InUse(fifo) THEN fifo ELSE Unused

FifoClose(id) ==
  /\ \/ /\ fifos[id].readers > 0
        /\ LET less == [fifos[id] EXCEPT !.readers = @ - 1]
           IN fifos' = [fifos EXCEPT ![id] = Left(less)]
     \/ /\ fifos[id].writers > 0
        /\ LET less == [fifos[id] EXCEPT !.writers = @ - 1]
           IN fifos' = [fifos EXCEPT ![id] = Left(less)]
  /\ answer' = Done(0)

Smaller(a, b) == IF a <= b THEN a ELSE b

\* A reader gets the oldest bytes, as many as there are and it asks for.
FifoRead(id) ==
  LET queue == fifos[id].queue
  IN /\ fifos[id].readers > 0
     /\ \/ /\ queue # <<>>
           /\ \E capacity \in 1 .. MaxBuffer :
                LET n == Smaller(capacity, Len(queue))
                IN /\ answer' = Given(SubSeq(queue, 1, n))
                   /\ fifos' = [fifos EXCEPT ![id].queue = SubSeq(queue, n + 1, Len(queue))]
        \/ /\ queue = <<>> /\ UNCHANGED fifos
           /\ answer' = IF fifos[id].writers = 0 THEN Done(0) ELSE Failed("WouldBlock")

\* A writer adds a prefix of its input, as long as fits.
FifoWrite(id) ==
  LET queue == fifos[id].queue
      space == Capacity - Len(queue)
  IN /\ fifos[id].writers > 0
     /\ \E input \in Inputs :
          \/ /\ fifos[id].readers > 0 /\ (space > 0 \/ input = <<>>)
             /\ LET n == Smaller(Len(input), space)
                IN /\ fifos' = [fifos EXCEPT ![id].queue = @ \o SubSeq(input, 1, n)]
                   /\ answer' = Done(n)
          \/ /\ fifos[id].readers > 0 /\ space = 0 /\ input # <<>>
             /\ answer' = Failed("WouldBlock") /\ UNCHANGED fifos
          \/ /\ fifos[id].readers = 0
             /\ answer' = Failed("Broken") /\ UNCHANGED fifos

FifoNext ==
  \/ FifoCreate
  \/ \E id \in PipeIds : FifoShare(id) \/ FifoClose(id) \/ FifoRead(id) \/ FifoWrite(id)

FifoSpec == FifoInit /\ [][FifoNext]_fifoVars
=============================================================================
