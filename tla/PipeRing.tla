------------------------------ MODULE PipeRing ------------------------------
(***************************************************************************)
(* The pipes of the kernel, kernel/src/ipc.rs: rings of Capacity bytes     *)
(* with their reader and writer counts.  One action per function; a call   *)
(* is one system call or part of one, so it is a single step.              *)
(*                                                                         *)
(* The callers are descriptors.  By CountsAreExact of Descriptors a call   *)
(* on an end is made only while that end is counted, which is the guard of *)
(* the actions; PipeError::Invalid is out of reach for the same reason.    *)
(***************************************************************************)
EXTENDS Integers, Sequences, FiniteSetsExt

CONSTANTS
  MaxPipes,    \* MAX_PIPES
  Capacity,    \* PIPE_CAPACITY
  Byte,        \* the values of a byte
  NoByte,      \* the value an empty buffer is filled with
  MaxBuffer,   \* MAX_READ_BUFFER, the longest transfer of one call
  MaxRefs      \* bound of the model on the count of one end

ASSUME RingAssumption ==
  /\ MaxPipes \in Nat \ {0} /\ Capacity \in Nat \ {0}
  /\ MaxBuffer \in Nat /\ MaxRefs \in Nat /\ NoByte \in Byte

VARIABLES
  pipes,    \* PIPES
  answer    \* what the last call returned

ringVars == <<pipes, answer>>

PipeIds == 0 .. MaxPipes - 1
Places == 0 .. Capacity - 1

Pipe == [open : BOOLEAN, readers : Nat, writers : Nat,
         head : Places, tail : Places, length : 0 .. Capacity,
         buffer : [Places -> Byte]]

EmptyPipe == [open |-> FALSE, readers |-> 0, writers |-> 0,
              head |-> 0, tail |-> 0, length |-> 0,
              buffer |-> [i \in Places |-> NoByte]]

Failed(error) == [error |-> error, bytes |-> <<>>, count |-> 0]
Given(bytes) == [error |-> "None", bytes |-> bytes, count |-> Len(bytes)]
Done(count) == [error |-> "None", bytes |-> <<>>, count |-> count]

Smaller(a, b) == IF a <= b THEN a ELSE b

\* The place of the i-th byte from place p on.
Place(p, i) == (p + i) % Capacity

-----------------------------------------------------------------------------
(* What the calls do to one pipe.                                          *)

Created == [EmptyPipe EXCEPT !.open = TRUE, !.readers = 1, !.writers = 1]

\* close_reader and close_writer recycle the pipe when both counts are 0.
Recycled(pipe) ==
  IF pipe.readers = 0 /\ pipe.writers = 0 THEN EmptyPipe ELSE pipe

\* The first n bytes of the ring.
Front(pipe, n) == [i \in 1 .. n |-> pipe.buffer[Place(pipe.head, i - 1)]]

\* The loop of read, n bytes long.  Mutants: head stops at the end of the
\* buffer; length loses what was asked for, not what was there.
TakenUnwrapped(pipe, n) ==
  [pipe EXCEPT !.head = Smaller(@ + n, Capacity - 1), !.length = @ - n]
Taken(pipe, n) == [pipe EXCEPT !.head = Place(@, n), !.length = @ - n]

\* The loop of write.
Put(pipe, input, n) ==
  [pipe EXCEPT
     !.buffer = [k \in Places |->
                   LET i == (k - pipe.tail) % Capacity
                   IN IF i < n THEN input[i + 1] ELSE @[k]],
     !.tail = Place(@, n),
     !.length = @ + n]

-----------------------------------------------------------------------------
(* Actions.                                                                *)

RingInit ==
  /\ pipes = [id \in PipeIds |-> EmptyPipe]
  /\ answer = Done(0)

\* create: the first pipe that is not open.
Create ==
  LET closed == {id \in PipeIds : ~pipes[id].open}
  IN \/ /\ closed # {}
        /\ pipes' = [pipes EXCEPT ![Min(closed)] = Created]
        /\ answer' = Done(Min(closed))
     \/ /\ closed = {} /\ UNCHANGED pipes
        /\ answer' = Failed("TooMany")

\* add_reader and add_writer, by a holder of that end.
AddReader(id) ==
  /\ pipes[id].readers \in 1 .. MaxRefs - 1
  /\ pipes' = [pipes EXCEPT ![id].readers = @ + 1]
  /\ answer' = Done(0)

AddWriter(id) ==
  /\ pipes[id].writers \in 1 .. MaxRefs - 1
  /\ pipes' = [pipes EXCEPT ![id].writers = @ + 1]
  /\ answer' = Done(0)

CloseReader(id) ==
  /\ pipes[id].readers > 0
  /\ LET less == [pipes[id] EXCEPT !.readers = @ - 1]
     IN pipes' = [pipes EXCEPT ![id] = Recycled(less)]
  /\ answer' = Done(0)

CloseWriter(id) ==
  /\ pipes[id].writers > 0
  /\ LET less == [pipes[id] EXCEPT !.writers = @ - 1]
     IN pipes' = [pipes EXCEPT ![id] = Recycled(less)]
  /\ answer' = Done(0)

\* read: end of file only when nobody can write.
ReadNothing(id) ==
  /\ pipes[id].readers > 0 /\ pipes[id].length = 0
  /\ answer' = IF pipes[id].writers = 0 THEN Done(0) ELSE Failed("WouldBlock")
  /\ UNCHANGED pipes

ReadBytes(id) ==
  /\ pipes[id].readers > 0 /\ pipes[id].length # 0
  /\ \E capacity \in 1 .. MaxBuffer :
       LET n == Smaller(capacity, pipes[id].length)
       IN /\ answer' = Given(Front(pipes[id], n))
          /\ pipes' = [pipes EXCEPT ![id] = Taken(@, n)]

\* write: EPIPE comes before the test for room.
Inputs == UNION {[1 .. n -> Byte] : n \in 0 .. MaxBuffer}

WriteRefused(id) ==
  /\ pipes[id].writers > 0
  /\ \/ /\ pipes[id].readers = 0 /\ answer' = Failed("Broken")
     \/ /\ pipes[id].readers > 0 /\ answer' = Done(0)
     \/ /\ pipes[id].readers > 0 /\ pipes[id].length = Capacity /\ MaxBuffer > 0
        /\ answer' = Failed("WouldBlock")
  /\ UNCHANGED pipes

WriteBytes(id) ==
  /\ pipes[id].writers > 0 /\ pipes[id].readers > 0 /\ pipes[id].length # Capacity
  /\ \E input \in Inputs \ {<<>>} :
       LET n == Smaller(Len(input), Capacity - pipes[id].length)
       IN /\ pipes' = [pipes EXCEPT ![id] = Put(@, input, n)]
          /\ answer' = Done(n)

RingNext ==
  \/ Create
  \/ \E id \in PipeIds :
       \/ AddReader(id) \/ AddWriter(id) \/ CloseReader(id) \/ CloseWriter(id)
       \/ ReadNothing(id) \/ ReadBytes(id) \/ WriteRefused(id) \/ WriteBytes(id)

RingSpec == RingInit /\ [][RingNext]_ringVars

-----------------------------------------------------------------------------
(* Properties.                                                             *)

\* The fields of struct Pipe keep their ranges: head and tail never leave the
\* buffer and length never passes it.
PipesTypeOK ==
  /\ pipes \in [PipeIds -> Pipe]
  /\ answer.error \in {"None", "TooMany", "WouldBlock", "Broken"}
  /\ answer.count \in Nat

\* The three fields that describe the bytes in a ring agree, through wraps,
\* short reads and short writes; a pipe is open exactly while an end of it is
\* held, and a closed one holds no byte for its next owner.
Coherent(pipe) ==
  /\ pipe.tail = Place(pipe.head, pipe.length)
  /\ pipe.open <=> pipe.readers + pipe.writers > 0
  /\ ~pipe.open => pipe.length = 0
RingsCoherent == \A id \in PipeIds : Coherent(pipes[id])

\* The rings implement the bounded queues of PipeFifo: no byte lost, repeated or
\* out of order across wrap-around, and every answer is the one promised.
Fifo(pipe) == [queue |-> Front(pipe, pipe.length),
               readers |-> pipe.readers, writers |-> pipe.writers]
Fifos == [id \in PipeIds |-> Fifo(pipes[id])]

Promise == INSTANCE PipeFifo WITH fifos <- Fifos
RingsAreFifos == Promise!FifoSpec
=============================================================================
