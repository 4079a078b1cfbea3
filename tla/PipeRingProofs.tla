--------------------------- MODULE PipeRingProofs ---------------------------
(***************************************************************************)
(* Theorems about PipeRing, for every capacity, every number of pipes and  *)
(* every set of bytes: the indices of a ring stay coherent, and the rings  *)
(* are the bounded queues of PipeFifo.                                     *)
(***************************************************************************)
EXTENDS PipeRing, SequenceTheorems, WellFoundedInduction, TLAPS

-----------------------------------------------------------------------------
(* Arithmetic of the ring.                                                 *)

\* Quotient and remainder are unique.
LEMMA RemainderUnique ==
  ASSUME NEW c \in Nat \ {0}, NEW a \in Int, NEW q \in Int, NEW r \in 0 .. c - 1,
         a = c * q + r
  PROVE  a % c = r
<1> DEFINE d == q - (a \div c)
<1>1. a \div c \in Int /\ a % c \in 0 .. c - 1 /\ a = c * (a \div c) + (a % c)
  OBVIOUS
<1>2. d \in Int /\ c * d = (a % c) - r
  BY <1>1
<1>3. c * d < c /\ c * d > -c
  BY <1>1, <1>2
<1>4. ~(d >= 1)
  BY <1>2, <1>3
<1>5. ~(d <= -1)
  BY <1>2, <1>3
<1>6. d = 0
  BY <1>2, <1>4, <1>5
<1> QED BY <1>1, <1>2, <1>6

\* One step around the ring at most: a place is reached directly or past the end.
LEMMA PlaceWraps ==
  ASSUME NEW p \in Places, NEW i \in 0 .. Capacity
  PROVE  Place(p, i) = IF p + i < Capacity THEN p + i ELSE p + i - Capacity
<1>1. CASE p + i < Capacity
  <2>1. p + i = Capacity * 0 + (p + i) /\ p + i \in 0 .. Capacity - 1
    BY <1>1, RingAssumption DEF Places
  <2>2. (p + i) % Capacity = p + i
    BY <2>1, RemainderUnique, RingAssumption
  <2> QED BY <1>1, <2>2 DEF Place
<1>2. CASE ~(p + i < Capacity)
  <2>1. /\ p + i = Capacity * 1 + (p + i - Capacity)
        /\ p + i - Capacity \in 0 .. Capacity - 1
    BY <1>2, RingAssumption DEF Places
  <2>2. p + i \in Int /\ 1 \in Int
    BY DEF Places
  <2>3. (p + i) % Capacity = p + i - Capacity
    BY <2>1, <2>2, RemainderUnique, RingAssumption
  <2> QED BY <1>2, <2>3 DEF Place
<1> QED BY <1>1, <1>2

\* The same the other way: how far place k is after place t.
LEMMA OffsetWraps ==
  ASSUME NEW k \in Places, NEW t \in Places
  PROVE  (k - t) % Capacity = IF k >= t THEN k - t ELSE k - t + Capacity
<1>1. CASE k >= t
  <2>1. k - t = Capacity * 0 + (k - t) /\ k - t \in 0 .. Capacity - 1
    BY <1>1, RingAssumption DEF Places
  <2>2. k - t \in Int /\ 0 \in Int
    BY DEF Places
  <2> QED BY <1>1, <2>1, <2>2, RemainderUnique, RingAssumption
<1>2. CASE ~(k >= t)
  <2>1. /\ k - t = Capacity * (-1) + (k - t + Capacity)
        /\ k - t + Capacity \in 0 .. Capacity - 1
    BY <1>2, RingAssumption DEF Places
  <2>2. k - t \in Int /\ -1 \in Int
    BY DEF Places
  <2> QED BY <1>2, <2>1, <2>2, RemainderUnique, RingAssumption
<1> QED BY <1>1, <1>2

-----------------------------------------------------------------------------
(* What the calls do to the bytes of one pipe.                             *)

\* Places are closed under moving around the ring.
LEMMA PlaceInRing ==
  ASSUME NEW p \in Places, NEW i \in 0 .. Capacity
  PROVE  Place(p, i) \in Places
BY PlaceWraps, RingAssumption DEF Places

\* The bytes of a ring, and of any front of it, are a sequence of bytes.
LEMMA FrontType ==
  ASSUME NEW pipe \in Pipe, NEW n \in 0 .. pipe.length
  PROVE  /\ Front(pipe, n) \in Seq(Byte)
         /\ Len(Front(pipe, n)) = n
<1>1. pipe.length \in 0 .. Capacity /\ pipe.head \in Places /\ n \in Nat
  BY RingAssumption DEF Pipe
<1>2. \A i \in 1 .. n : i - 1 \in 0 .. Capacity
  BY <1>1, RingAssumption
<1>3. \A i \in 1 .. n : pipe.buffer[Place(pipe.head, i - 1)] \in Byte
  BY <1>1, <1>2, PlaceInRing DEF Pipe
<1> QED BY <1>1, <1>3 DEF Front

\* Two moves around the ring are one.
LEMMA PlaceAdds ==
  ASSUME NEW p \in Places, NEW i \in 0 .. Capacity, NEW j \in 0 .. Capacity,
         i + j <= Capacity
  PROVE  Place(Place(p, i), j) = Place(p, i + j)
<1> DEFINE there == IF p + i < Capacity THEN p + i ELSE p + i - Capacity
<1>1. Place(p, i) = there /\ there \in Places
  BY PlaceWraps, RingAssumption DEF Places
<1>2. Place(there, j) = IF there + j < Capacity THEN there + j ELSE there + j - Capacity
  BY <1>1, PlaceWraps
<1>3. i + j \in 0 .. Capacity
  BY RingAssumption
<1>4. Place(p, i + j) = IF p + (i + j) < Capacity THEN p + (i + j) ELSE p + (i + j) - Capacity
  BY <1>3, PlaceWraps
<1> QED BY <1>1, <1>2, <1>4, RingAssumption DEF Places

\* A read takes the oldest bytes off and leaves the others in order.
LEMMA TakenFront ==
  ASSUME NEW pipe \in Pipe, Coherent(pipe), pipe.open, NEW n \in 0 .. pipe.length
  PROVE  /\ Taken(pipe, n) \in Pipe
         /\ Coherent(Taken(pipe, n))
         /\ Front(pipe, n) = SubSeq(Front(pipe, pipe.length), 1, n)
         /\ Front(Taken(pipe, n), pipe.length - n)
              = SubSeq(Front(pipe, pipe.length), n + 1, pipe.length)
<1> DEFINE rest == Taken(pipe, n)
           left == pipe.length - n
<1>1. pipe.length \in 0 .. Capacity /\ pipe.head \in Places /\ n \in 0 .. Capacity
  BY RingAssumption DEF Pipe
<1>2. /\ rest.head = Place(pipe.head, n) /\ rest.length = left
      /\ rest.tail = pipe.tail /\ rest.buffer = pipe.buffer
      /\ rest.open = pipe.open /\ rest.readers = pipe.readers /\ rest.writers = pipe.writers
  BY DEF Taken, Pipe
<1>3. Place(pipe.head, n) \in Places /\ left \in 0 .. Capacity
  BY <1>1, PlaceInRing, RingAssumption
<1>4. rest \in Pipe
  BY <1>1, <1>3 DEF Taken, Pipe
<1>5. Place(rest.head, left) = Place(pipe.head, pipe.length)
  <2>1. n + left = pipe.length
    BY <1>1, RingAssumption
  <2> QED BY <1>1, <1>2, <1>3, <2>1, PlaceAdds, RingAssumption
<1>6. Coherent(rest)
  BY <1>2, <1>5 DEF Coherent
<1>7. Front(pipe, n) = SubSeq(Front(pipe, pipe.length), 1, n)
  BY <1>1, RingAssumption DEF Front
<1>8. Front(rest, left) = SubSeq(Front(pipe, pipe.length), n + 1, pipe.length)
  <2>1. \A i \in 1 .. left : Place(rest.head, i - 1) = Place(pipe.head, n + (i - 1))
    <3>1. \A i \in 1 .. left : i - 1 \in 0 .. Capacity /\ n + (i - 1) <= Capacity
      BY <1>1, <1>3, RingAssumption
    <3> QED BY <1>1, <1>2, <3>1, PlaceAdds
  <2>2. Front(rest, left) = [i \in 1 .. left |-> pipe.buffer[Place(pipe.head, n + (i - 1))]]
    BY <1>2, <2>1 DEF Front
  <2>3. \A i \in 1 .. left : (i + (n + 1) - 1) - 1 = n + (i - 1) /\ i + (n + 1) - 1 \in 1 .. pipe.length
    BY <1>1, RingAssumption
  <2>4. SubSeq(Front(pipe, pipe.length), n + 1, pipe.length)
          = [i \in 1 .. left |-> Front(pipe, pipe.length)[i + (n + 1) - 1]]
    BY <1>1, RingAssumption DEF Front
  <2>5. \A i \in 1 .. left :
          Front(pipe, pipe.length)[i + (n + 1) - 1] = pipe.buffer[Place(pipe.head, n + (i - 1))]
    BY <2>3 DEF Front
  <2> QED BY <2>2, <2>4, <2>5
<1> QED BY <1>2, <1>4, <1>6, <1>7, <1>8

\* How far the j-th place of a ring is after its a-th.
LEMMA OffsetOfPlace ==
  ASSUME NEW h \in Places, NEW a \in 0 .. Capacity, NEW j \in 0 .. Capacity - 1
  PROVE  (Place(h, j) - Place(h, a)) % Capacity = IF j >= a THEN j - a ELSE j - a + Capacity
<1> DEFINE at(i) == IF h + i < Capacity THEN h + i ELSE h + i - Capacity
<1>1. j \in 0 .. Capacity /\ Place(h, j) = at(j) /\ Place(h, a) = at(a)
  BY PlaceWraps, RingAssumption
<1>2. at(j) \in Places /\ at(a) \in Places
  BY RingAssumption DEF Places
<1>3. (at(j) - at(a)) % Capacity = IF at(j) >= at(a) THEN at(j) - at(a) ELSE at(j) - at(a) + Capacity
  BY <1>2, OffsetWraps
<1>4. (IF at(j) >= at(a) THEN at(j) - at(a) ELSE at(j) - at(a) + Capacity)
        = IF j >= a THEN j - a ELSE j - a + Capacity
  BY RingAssumption DEF Places
<1> QED BY <1>1, <1>3, <1>4

\* A sequence made of two of known lengths is their concatenation.
LEMMA Joined ==
  ASSUME NEW a \in Nat, NEW b \in Nat, NEW s \in Seq(Byte), NEW t \in Seq(Byte),
         NEW u \in Seq(Byte), Len(s) = a, Len(t) = b, Len(u) = a + b,
         \A i \in 1 .. a : u[i] = s[i],
         \A i \in a + 1 .. a + b : u[i] = t[i - a]
  PROVE  u = s \o t
<1>1. s \o t \in Seq(Byte) /\ Len(s \o t) = a + b
  BY ConcatProperties
<1>2. ASSUME NEW i \in 1 .. a PROVE (s \o t)[i] = u[i]
  <2>1. i \in 1 .. Len(s) + Len(t) /\ i <= Len(s)
    OBVIOUS
  <2>2. (s \o t)[i] = s[i]
    BY <2>1, ConcatProperties
  <2> QED BY <2>2
<1>3. ASSUME NEW i \in a + 1 .. a + b PROVE (s \o t)[i] = u[i]
  <2>1. i \in 1 .. Len(s) + Len(t) /\ ~(i <= Len(s))
    OBVIOUS
  <2>2. (s \o t)[i] = t[i - a]
    BY <2>1, ConcatProperties
  <2> QED BY <2>2
<1>4. \A i \in 1 .. Len(u) : i \in 1 .. a \/ i \in a + 1 .. a + b
  OBVIOUS
<1>5. \A i \in 1 .. Len(u) : u[i] = (s \o t)[i]
  BY <1>2, <1>3, <1>4, Zenon
<1> QED BY <1>1, <1>5, SeqEqual

\* A write adds the first bytes of the input behind those that wait.
LEMMA PutFront ==
  ASSUME NEW pipe \in Pipe, Coherent(pipe), pipe.open, NEW input \in Seq(Byte),
         NEW n \in 0 .. Len(input), n <= Capacity - pipe.length
  PROVE  /\ Put(pipe, input, n) \in Pipe
         /\ Coherent(Put(pipe, input, n))
         /\ Front(Put(pipe, input, n), pipe.length + n)
              = Front(pipe, pipe.length) \o SubSeq(input, 1, n)
<1> DEFINE new == Put(pipe, input, n)
           long == pipe.length + n
           far(k) == (k - pipe.tail) % Capacity
<1>1. /\ pipe.length \in 0 .. Capacity /\ pipe.head \in Places /\ pipe.tail \in Places
      /\ n \in 0 .. Capacity /\ long \in 0 .. Capacity
      /\ pipe.tail = Place(pipe.head, pipe.length)
  BY RingAssumption DEF Pipe, Coherent
<1>2. /\ new.head = pipe.head /\ new.length = long /\ new.tail = Place(pipe.tail, n)
      /\ new.open = pipe.open /\ new.readers = pipe.readers /\ new.writers = pipe.writers
      /\ new.buffer = [k \in Places |-> IF far(k) < n THEN input[far(k) + 1] ELSE pipe.buffer[k]]
  BY DEF Put, Pipe
<1>3. new \in Pipe
  <2>1. ASSUME NEW k \in Places PROVE new.buffer[k] \in Byte
    <3>1. far(k) \in Nat
      BY <1>1, OffsetWraps, RingAssumption DEF Places
    <3>2. far(k) < n => far(k) + 1 \in 1 .. Len(input)
      BY <3>1
    <3>3. far(k) < n => input[far(k) + 1] \in Byte
      BY <3>2
    <3> QED BY <1>2, <3>3 DEF Pipe
  <2>2. new.buffer \in [Places -> Byte]
    BY <1>2, <2>1
  <2>3. Place(pipe.tail, n) \in Places
    BY <1>1, PlaceInRing
  <2> QED BY <1>1, <1>2, <2>2, <2>3 DEF Put, Pipe
<1>4. Coherent(new)
  <2>1. Place(pipe.tail, n) = Place(pipe.head, long)
    BY <1>1, PlaceAdds, RingAssumption
  <2> QED BY <1>2, <2>1 DEF Coherent
<1>5. Front(new, long) = Front(pipe, pipe.length) \o SubSeq(input, 1, n)
  <2> DEFINE old == Front(pipe, pipe.length)
             added == SubSeq(input, 1, n)
             now == Front(new, long)
  <2>1. /\ old \in Seq(Byte) /\ Len(old) = pipe.length /\ added \in Seq(Byte) /\ Len(added) = n
        /\ now \in Seq(Byte) /\ Len(now) = long
    <3>1. long \in 0 .. new.length
      BY <1>1, <1>2, RingAssumption
    <3> QED BY <1>1, <1>3, <3>1, FrontType, RingAssumption
  <2>2. ASSUME NEW i \in 1 .. long
        PROVE  /\ now[i] = new.buffer[Place(pipe.head, i - 1)]
               /\ Place(pipe.head, i - 1) \in Places
               /\ far(Place(pipe.head, i - 1))
                    = IF i - 1 >= pipe.length THEN i - 1 - pipe.length
                                              ELSE i - 1 - pipe.length + Capacity
    <3>1. i - 1 \in 0 .. Capacity - 1 /\ i - 1 \in 0 .. Capacity
      BY <1>1, RingAssumption
    <3> QED BY <1>1, <1>2, <3>1, OffsetOfPlace, PlaceInRing DEF Front
  <2>3. ASSUME NEW i \in 1 .. pipe.length PROVE now[i] = old[i]
    <3>1. i \in 1 .. long /\ ~(i - 1 >= pipe.length)
      BY <1>1, RingAssumption
    <3>2. ~(i - 1 - pipe.length + Capacity < n)
      BY <1>1, RingAssumption
    <3>3. new.buffer[Place(pipe.head, i - 1)] = pipe.buffer[Place(pipe.head, i - 1)]
      BY <1>2, <2>2, <3>1, <3>2
    <3> QED BY <2>2, <3>1, <3>3 DEF Front
  <2>4. ASSUME NEW i \in pipe.length + 1 .. pipe.length + n
        PROVE  now[i] = added[i - pipe.length]
    <3>1. i \in 1 .. long /\ i - 1 >= pipe.length
      BY <1>1, RingAssumption
    <3>2. /\ i - 1 - pipe.length < n /\ i - 1 - pipe.length + 1 = i - pipe.length
          /\ i - pipe.length \in 1 .. n
      BY <1>1, RingAssumption
    <3>3. new.buffer[Place(pipe.head, i - 1)] = input[i - pipe.length]
      BY <1>2, <2>2, <3>1, <3>2
    <3>4. added[i - pipe.length] = input[i - pipe.length]
      BY <3>2
    <3> QED BY <2>2, <3>1, <3>3, <3>4
  <2>5. pipe.length \in Nat /\ n \in Nat
    BY <1>1, RingAssumption
  <2> HIDE DEF old, added, now
  <2>6. now = old \o added
    BY <2>1, <2>3, <2>4, <2>5, Joined
  <2> QED BY <2>6 DEF old, added, now
<1> QED BY <1>2, <1>3, <1>4, <1>5

\* A non-empty set of naturals has a least element, and Min chooses it.
LEMMA MinOfNats ==
  ASSUME NEW S \in SUBSET Nat, S # {}
  PROVE  Min(S) \in S
<1>1. PICK m \in S : \A x \in S : <<x, m>> \notin OpToRel(<, Nat)
  BY WFMin, NatLessThanWellFounded, Zenon
<1>2. \A x \in S : ~(x < m)
  BY <1>1, Zenon DEF OpToRel
<1>3. \A x \in S : m <= x
  BY <1>2
<1> QED BY <1>3 DEF Min

-----------------------------------------------------------------------------
(* Steps.                                                                  *)

\* The inductive invariant: the two invariants need one another.
RInv == PipesTypeOK /\ RingsCoherent

\* An empty pipe is coherent, whether it is given out or not.
LEMMA EmptyCoherent ==
  /\ EmptyPipe \in Pipe /\ Coherent(EmptyPipe)
  /\ Created \in Pipe /\ Coherent(Created)
  /\ Front(EmptyPipe, 0) = <<>> /\ Front(Created, 0) = <<>>
<1>1. 0 \in Places /\ 0 \in 0 .. Capacity
  BY RingAssumption DEF Places
<1>2. Place(0, 0) = 0
  BY <1>1, PlaceWraps, RingAssumption
<1>3. [i \in Places |-> NoByte] \in [Places -> Byte]
  BY RingAssumption
<1>4. EmptyPipe \in Pipe /\ Coherent(EmptyPipe)
  BY <1>1, <1>2, <1>3 DEF EmptyPipe, Pipe, Coherent
<1>5. Created \in Pipe /\ Coherent(Created)
  <2>1. /\ Created.open = TRUE /\ Created.readers = 1 /\ Created.writers = 1
        /\ Created.head = 0 /\ Created.tail = 0 /\ Created.length = 0
    BY DEF Created, EmptyPipe
  <2>2. Created \in Pipe
    BY <1>1, <1>4 DEF Created, Pipe
  <2> QED BY <1>2, <2>1, <2>2 DEF Coherent
<1>6. Front(EmptyPipe, 0) = <<>> /\ Front(Created, 0) = <<>>
  BY DEF Front
<1> QED BY <1>4, <1>5, <1>6

\* A step that changes one pipe coherently keeps all coherent, and is seen in its
\* queue and counts only.
LEMMA OneChanges ==
  ASSUME RInv, NEW id \in PipeIds, NEW new \in Pipe, Coherent(new),
         pipes' = [pipes EXCEPT ![id] = new],
         answer'.error \in {"None", "TooMany", "WouldBlock", "Broken"}, answer'.count \in Nat
  PROVE  RInv' /\ Fifos' = [Fifos EXCEPT ![id] = Fifo(new)]
<1>1. pipes' \in [PipeIds -> Pipe]
  BY DEF RInv, PipesTypeOK
<1>2. \A k \in PipeIds : pipes'[k] = IF k = id THEN new ELSE pipes[k]
  BY DEF RInv, PipesTypeOK
<1>3. RInv'
  BY <1>1, <1>2 DEF RInv, PipesTypeOK, RingsCoherent
<1>4. Fifos' = [Fifos EXCEPT ![id] = Fifo(new)]
  <2>1. Fifos' = [k \in PipeIds |-> Fifo(pipes'[k])]
    BY DEF Fifos, Fifo, Front
  <2>2. \A k \in PipeIds : Fifo(pipes'[k]) = [Fifos EXCEPT ![id] = Fifo(new)][k]
    BY <1>2 DEF Fifos
  <2> QED BY <2>1, <2>2 DEF Fifos
<1> QED BY <1>3, <1>4

\* A step that changes no pipe.
LEMMA NoneChanges ==
  ASSUME RInv, UNCHANGED pipes,
         answer'.error \in {"None", "TooMany", "WouldBlock", "Broken"}, answer'.count \in Nat
  PROVE  RInv' /\ Fifos' = Fifos
BY DEF RInv, PipesTypeOK, RingsCoherent, Fifos

\* create: the first closed pipe is one that is not in use.
LEMMA CreateSound ==
  ASSUME RInv, Create
  PROVE  RInv' /\ Promise!FifoCreate
<1> DEFINE closed == {id \in PipeIds : ~pipes[id].open}
           first == Min(closed)
<1>1. \A id \in PipeIds : pipes[id] \in Pipe /\ Coherent(pipes[id])
  BY DEF RInv, PipesTypeOK, RingsCoherent
<1>2. \A id \in PipeIds : Promise!InUse(Fifos[id]) <=> pipes[id].open
  BY <1>1 DEF Promise!InUse, Fifos, Fifo, Coherent
<1>3. CASE closed # {}
  <2>1. first \in closed
    <3>1. closed \in SUBSET Nat
      BY RingAssumption DEF PipeIds
    <3> QED BY <1>3, <3>1, MinOfNats
  <2>2. pipes' = [pipes EXCEPT ![first] = Created] /\ answer' = Done(first)
    BY <1>3 DEF Create
  <2>3. answer'.error = "None" /\ answer'.count \in Nat
    BY <2>1, <2>2, RingAssumption DEF Done, PipeIds
  <2>4. RInv' /\ Fifos' = [Fifos EXCEPT ![first] = Fifo(Created)]
    BY <2>1, <2>2, <2>3, EmptyCoherent, OneChanges
  <2>5. Fifo(Created) = [queue |-> <<>>, readers |-> 1, writers |-> 1]
    BY EmptyCoherent DEF Fifo, Created, EmptyPipe
  <2>6. Promise!FifoCreate
    BY <1>2, <2>1, <2>2, <2>4, <2>5 DEF Promise!FifoCreate, Promise!Done, Done
  <2> QED BY <2>4, <2>6
<1>4. CASE closed = {}
  <2>1. UNCHANGED pipes /\ answer' = Failed("TooMany")
    BY <1>4 DEF Create
  <2>2. RInv' /\ Fifos' = Fifos
    BY <2>1, NoneChanges DEF Failed
  <2>3. Promise!FifoCreate
    BY <1>2, <1>4, <2>1, <2>2 DEF Promise!FifoCreate, Promise!Failed, Failed
  <2> QED BY <2>2, <2>3
<1> QED BY <1>3, <1>4

\* What a pipe with an end that is held looks like.
LEMMA HeldEnd ==
  ASSUME RInv, NEW id \in PipeIds, pipes[id].readers > 0 \/ pipes[id].writers > 0
  PROVE  /\ pipes[id] \in Pipe /\ Coherent(pipes[id]) /\ pipes[id].open
         /\ Fifos[id] = Fifo(pipes[id])
BY DEF RInv, PipesTypeOK, RingsCoherent, Coherent, Pipe, Fifos

\* Two pipes that differ in their counts only.
SameBytes(pipe, other) ==
  /\ other.open = pipe.open /\ other.head = pipe.head /\ other.tail = pipe.tail
  /\ other.length = pipe.length /\ other.buffer = pipe.buffer

\* A pipe whose counts change keeps its bytes.
LEMMA CountsOnly ==
  ASSUME NEW pipe \in Pipe, Coherent(pipe), pipe.open,
         NEW new \in Pipe, SameBytes(pipe, new), new.readers + new.writers > 0
  PROVE  /\ Coherent(new)
         /\ Fifo(new) = [queue |-> Fifo(pipe).queue,
                         readers |-> new.readers, writers |-> new.writers]
<1>1. Coherent(new)
  BY DEF Coherent, SameBytes
<1>2. Front(new, new.length) = Front(pipe, pipe.length)
  BY DEF Front, SameBytes
<1>3. Fifo(new) = [queue |-> Fifo(pipe).queue, readers |-> new.readers, writers |-> new.writers]
  BY <1>2 DEF Fifo
<1> QED BY <1>1, <1>3

\* add_reader and add_writer share an end that is held.
LEMMA AddSound ==
  ASSUME RInv, NEW id \in PipeIds, AddReader(id) \/ AddWriter(id)
  PROVE  RInv' /\ Promise!FifoShare(id)
<1> DEFINE pipe == pipes[id]
<1>1. /\ pipe \in Pipe /\ Coherent(pipe) /\ pipe.open /\ Fifos[id] = Fifo(pipe)
      /\ pipe.readers \in Nat /\ pipe.writers \in Nat
  BY HeldEnd, RingAssumption DEF AddReader, AddWriter, Pipe
<1>2. Fifos[id] = [queue |-> Fifo(pipe).queue, readers |-> pipe.readers, writers |-> pipe.writers]
  BY <1>1 DEF Fifo
<1>3. CASE AddReader(id)
  <2> DEFINE new == [pipe EXCEPT !.readers = @ + 1]
  <2>1. pipe.readers > 0 /\ pipe.readers + 1 \in Nat
    BY <1>1, <1>3, RingAssumption DEF AddReader
  <2>2. new \in Pipe /\ SameBytes(pipe, new) /\ new.readers + new.writers > 0
    <3>1. new \in Pipe /\ SameBytes(pipe, new)
      BY <1>1, <2>1 DEF Pipe, SameBytes
    <3>2. new.readers + new.writers = pipe.readers + pipe.writers + 1
      BY <1>1 DEF Pipe
    <3>3. pipe.readers + pipe.writers + 1 > 0
      BY <1>1
    <3> QED BY <3>1, <3>2, <3>3
  <2>3. pipes' = [pipes EXCEPT ![id] = new] /\ answer' = Done(0)
    BY <1>3 DEF AddReader
  <2>4. [queue |-> Fifo(pipe).queue, readers |-> new.readers, writers |-> new.writers]
          = [Fifos[id] EXCEPT !.readers = @ + 1]
    BY <1>1, <1>2 DEF Pipe
  <2> HIDE DEF new
  <2>5. Coherent(new) /\ Fifo(new) = [Fifos[id] EXCEPT !.readers = @ + 1]
    BY <1>1, <2>2, <2>4, CountsOnly
  <2>6. RInv' /\ Fifos' = [Fifos EXCEPT ![id] = Fifo(new)]
    BY <2>2, <2>3, <2>5, OneChanges DEF Done
  <2>7. Fifos' = [Fifos EXCEPT ![id].readers = @ + 1] /\ Fifos[id].readers > 0
    BY <1>2, <2>1, <2>5, <2>6
  <2> QED BY <2>3, <2>6, <2>7 DEF Promise!FifoShare, Promise!Done, Done
<1>4. CASE AddWriter(id)
  <2> DEFINE new == [pipe EXCEPT !.writers = @ + 1]
  <2>1. pipe.writers > 0 /\ pipe.writers + 1 \in Nat
    BY <1>1, <1>4, RingAssumption DEF AddWriter
  <2>2. new \in Pipe /\ SameBytes(pipe, new) /\ new.readers + new.writers > 0
    <3>1. new \in Pipe /\ SameBytes(pipe, new)
      BY <1>1, <2>1 DEF Pipe, SameBytes
    <3>2. new.readers + new.writers = pipe.readers + pipe.writers + 1
      BY <1>1 DEF Pipe
    <3>3. pipe.readers + pipe.writers + 1 > 0
      BY <1>1
    <3> QED BY <3>1, <3>2, <3>3
  <2>3. pipes' = [pipes EXCEPT ![id] = new] /\ answer' = Done(0)
    BY <1>4 DEF AddWriter
  <2>4. [queue |-> Fifo(pipe).queue, readers |-> new.readers, writers |-> new.writers]
          = [Fifos[id] EXCEPT !.writers = @ + 1]
    BY <1>1, <1>2 DEF Pipe
  <2> HIDE DEF new
  <2>5. Coherent(new) /\ Fifo(new) = [Fifos[id] EXCEPT !.writers = @ + 1]
    BY <1>1, <2>2, <2>4, CountsOnly
  <2>6. RInv' /\ Fifos' = [Fifos EXCEPT ![id] = Fifo(new)]
    BY <2>2, <2>3, <2>5, OneChanges DEF Done
  <2>7. Fifos' = [Fifos EXCEPT ![id].writers = @ + 1] /\ Fifos[id].writers > 0
    BY <1>2, <2>1, <2>5, <2>6
  <2> QED BY <2>3, <2>6, <2>7 DEF Promise!FifoShare, Promise!Done, Done
<1> QED BY <1>3, <1>4

\* What is left of a pipe once an end is closed is what the fifo becomes.
LEMMA RecycledSound ==
  ASSUME NEW pipe \in Pipe, Coherent(pipe), pipe.open,
         NEW less \in Pipe, SameBytes(pipe, less)
  PROVE  /\ Recycled(less) \in Pipe /\ Coherent(Recycled(less))
         /\ Fifo(Recycled(less))
              = Promise!Left([queue |-> Fifo(pipe).queue,
                              readers |-> less.readers, writers |-> less.writers])
<1> DEFINE seen == [queue |-> Fifo(pipe).queue, readers |-> less.readers, writers |-> less.writers]
<1>1. CASE less.readers + less.writers > 0
  <2>1. Coherent(less) /\ Fifo(less) = seen
    BY <1>1, CountsOnly
  <2>2. Recycled(less) = less /\ Promise!Left(seen) = seen
    BY <1>1 DEF Recycled, Promise!Left, Promise!InUse
  <2> QED BY <2>1, <2>2
<1>2. CASE ~(less.readers + less.writers > 0)
  <2>1. less.readers = 0 /\ less.writers = 0
    BY <1>2 DEF Pipe
  <2>2. Recycled(less) = EmptyPipe /\ Promise!Left(seen) = Promise!Unused
    BY <2>1 DEF Recycled, Promise!Left, Promise!InUse
  <2>3. Fifo(EmptyPipe) = Promise!Unused
    BY EmptyCoherent DEF Fifo, EmptyPipe, Promise!Unused
  <2> QED BY <2>2, <2>3, EmptyCoherent
<1> QED BY <1>1, <1>2

\* close_reader and close_writer.
LEMMA CloseSound ==
  ASSUME RInv, NEW id \in PipeIds, CloseReader(id) \/ CloseWriter(id)
  PROVE  RInv' /\ Promise!FifoClose(id)
<1> DEFINE pipe == pipes[id]
<1>1. /\ pipe \in Pipe /\ Coherent(pipe) /\ pipe.open /\ Fifos[id] = Fifo(pipe)
      /\ pipe.readers \in Nat /\ pipe.writers \in Nat
  BY HeldEnd DEF CloseReader, CloseWriter, Pipe
<1>2. Fifos[id] = [queue |-> Fifo(pipe).queue, readers |-> pipe.readers, writers |-> pipe.writers]
  BY <1>1 DEF Fifo
<1>3. CASE CloseReader(id)
  <2> DEFINE less == [pipe EXCEPT !.readers = @ - 1]
             seen == [queue |-> Fifo(pipe).queue, readers |-> less.readers, writers |-> less.writers]
  <2>1. pipe.readers > 0 /\ pipe.readers - 1 \in Nat
    BY <1>1, <1>3 DEF CloseReader
  <2>2. less \in Pipe /\ SameBytes(pipe, less)
    BY <1>1, <2>1 DEF Pipe, SameBytes
  <2>3. pipes' = [pipes EXCEPT ![id] = Recycled(less)] /\ answer' = Done(0)
    BY <1>3 DEF CloseReader
  <2>4. seen = [Fifos[id] EXCEPT !.readers = @ - 1]
    BY <1>1, <1>2 DEF Pipe
  <2> HIDE DEF less
  <2>5. Recycled(less) \in Pipe /\ Coherent(Recycled(less)) /\ Fifo(Recycled(less)) = Promise!Left(seen)
    BY <1>1, <2>2, RecycledSound
  <2> HIDE DEF seen
  <2>6. RInv' /\ Fifos' = [Fifos EXCEPT ![id] = Promise!Left(seen)]
    BY <2>3, <2>5, OneChanges DEF Done
  <2>7. Fifos[id].readers > 0
    BY <1>2, <2>1
  <2> QED BY <2>3, <2>4, <2>6, <2>7 DEF Promise!FifoClose, Promise!Done, Done
<1>4. CASE CloseWriter(id)
  <2> DEFINE less == [pipe EXCEPT !.writers = @ - 1]
             seen == [queue |-> Fifo(pipe).queue, readers |-> less.readers, writers |-> less.writers]
  <2>1. pipe.writers > 0 /\ pipe.writers - 1 \in Nat
    BY <1>1, <1>4 DEF CloseWriter
  <2>2. less \in Pipe /\ SameBytes(pipe, less)
    BY <1>1, <2>1 DEF Pipe, SameBytes
  <2>3. pipes' = [pipes EXCEPT ![id] = Recycled(less)] /\ answer' = Done(0)
    BY <1>4 DEF CloseWriter
  <2>4. seen = [Fifos[id] EXCEPT !.writers = @ - 1]
    BY <1>1, <1>2 DEF Pipe
  <2> HIDE DEF less
  <2>5. Recycled(less) \in Pipe /\ Coherent(Recycled(less)) /\ Fifo(Recycled(less)) = Promise!Left(seen)
    BY <1>1, <2>2, RecycledSound
  <2> HIDE DEF seen
  <2>6. RInv' /\ Fifos' = [Fifos EXCEPT ![id] = Promise!Left(seen)]
    BY <2>3, <2>5, OneChanges DEF Done
  <2>7. Fifos[id].writers > 0
    BY <1>2, <2>1
  <2> QED BY <2>3, <2>4, <2>6, <2>7 DEF Promise!FifoClose, Promise!Done, Done
<1> QED BY <1>3, <1>4

\* read of an empty pipe.
LEMMA ReadNothingSound ==
  ASSUME RInv, NEW id \in PipeIds, ReadNothing(id)
  PROVE  RInv' /\ Promise!FifoRead(id)
<1>1. pipes[id] \in Pipe /\ Coherent(pipes[id]) /\ Fifos[id] = Fifo(pipes[id])
  BY HeldEnd DEF ReadNothing
<1>2. Fifos[id].queue = <<>>
  BY <1>1 DEF ReadNothing, Fifo, Front
<1>3. Fifos[id].readers = pipes[id].readers /\ Fifos[id].writers = pipes[id].writers
  BY <1>1 DEF Fifo
<1>4. answer'.error \in {"None", "WouldBlock"} /\ answer'.count \in Nat
  BY DEF ReadNothing, Done, Failed
<1>5. RInv' /\ Fifos' = Fifos
  BY <1>4, NoneChanges DEF ReadNothing
<1> QED
  BY <1>2, <1>3, <1>5 DEF ReadNothing, Promise!FifoRead, Promise!Done, Promise!Failed, Done, Failed

\* read takes what was written first.
LEMMA ReadBytesSound ==
  ASSUME RInv, NEW id \in PipeIds, ReadBytes(id)
  PROVE  RInv' /\ Promise!FifoRead(id)
<1> DEFINE pipe == pipes[id]
           queue == Front(pipe, pipe.length)
<1>1. /\ pipe \in Pipe /\ Coherent(pipe) /\ pipe.open /\ Fifos[id] = Fifo(pipe)
      /\ pipe.length \in Nat /\ pipe.length # 0 /\ pipe.readers > 0
  BY HeldEnd, RingAssumption DEF ReadBytes, Pipe
<1>2. queue \in Seq(Byte) /\ Len(queue) = pipe.length
  BY <1>1, FrontType
<1>3. PICK capacity \in 1 .. MaxBuffer :
        /\ answer' = Given(Front(pipe, Smaller(capacity, pipe.length)))
        /\ pipes' = [pipes EXCEPT ![id] = Taken(pipe, Smaller(capacity, pipe.length))]
  BY DEF ReadBytes
<1> DEFINE n == Smaller(capacity, pipe.length)
           new == Taken(pipe, n)
           later == SubSeq(queue, n + 1, Len(queue))
           rest == [queue |-> later, readers |-> pipe.readers, writers |-> pipe.writers]
<1>4. n \in 0 .. pipe.length
  BY <1>1 DEF Smaller
<1>5. /\ new \in Pipe /\ Coherent(new)
      /\ Front(pipe, n) = SubSeq(queue, 1, n)
      /\ Front(new, pipe.length - n) = SubSeq(queue, n + 1, pipe.length)
  BY <1>1, <1>4, TakenFront
<1>6. new.length = pipe.length - n /\ new.readers = pipe.readers /\ new.writers = pipe.writers
  BY <1>1 DEF Taken, Pipe
<1>7. Fifo(new) = rest
  BY <1>2, <1>5, <1>6 DEF Fifo
<1>8. answer' = Promise!Given(SubSeq(queue, 1, n))
  BY <1>3, <1>5 DEF Given, Promise!Given
<1>9. answer'.error = "None" /\ answer'.count \in Nat
  <2>1. Len(Front(pipe, n)) = n
    BY <1>1, <1>4, FrontType
  <2> QED BY <1>3, <1>4, <2>1 DEF Given
<1>10. pipes' = [pipes EXCEPT ![id] = new]
  BY <1>3
<1>11. Fifos[id] = [queue |-> queue, readers |-> pipe.readers, writers |-> pipe.writers]
  BY <1>1 DEF Fifo
<1>12. n = Promise!Smaller(capacity, Len(queue))
  BY <1>2 DEF Smaller, Promise!Smaller
<1>13. queue # <<>>
  BY <1>1, <1>2
<1>14. later = SubSeq(queue, n + 1, Len(queue))
  OBVIOUS
<1> HIDE DEF queue, n, new, later
<1>15. rest = [Fifos[id] EXCEPT !.queue = later]
  BY <1>11
<1> HIDE DEF rest
<1>16. RInv' /\ Fifos' = [Fifos EXCEPT ![id] = rest]
  BY <1>5, <1>7, <1>9, <1>10, OneChanges
<1>17. Fifos[id].queue = queue /\ Fifos[id].readers > 0
  BY <1>1, <1>11
<1>18. Fifos' = [Fifos EXCEPT ![id].queue = SubSeq(queue, n + 1, Len(queue))]
  BY <1>14, <1>15, <1>16
<1>19. Promise!FifoRead(id)
  BY <1>8, <1>12, <1>13, <1>17, <1>18 DEF Promise!FifoRead
<1> QED BY <1>16, <1>19

\* The bytes a pipe holds, as its fifo sees them.
LEMMA QueueSeen ==
  ASSUME NEW pipe \in Pipe
  PROVE  /\ Fifo(pipe).queue \in Seq(Byte) /\ Len(Fifo(pipe).queue) = pipe.length
         /\ Fifo(pipe).readers = pipe.readers /\ Fifo(pipe).writers = pipe.writers
<1>1. pipe.length \in 0 .. pipe.length
  BY RingAssumption DEF Pipe
<1> QED BY <1>1, FrontType DEF Fifo

\* The inputs of both levels are the same, and are sequences of bytes.
LEMMA InputType ==
  /\ Promise!Inputs = Inputs /\ <<>> \in Inputs
  /\ \A input \in Inputs : input \in Seq(Byte) /\ Len(input) \in Nat
  /\ MaxBuffer > 0 => [i \in 1 .. 1 |-> NoByte] \in Inputs \ {<<>>}
<1>1. Promise!Inputs = Inputs
  BY DEF Promise!Inputs, Inputs
<1>2. <<>> \in [1 .. 0 -> Byte] /\ 0 \in 0 .. MaxBuffer
  BY RingAssumption
<1>3. <<>> \in Inputs
  BY <1>2 DEF Inputs
<1>4. ASSUME NEW input \in Inputs PROVE input \in Seq(Byte) /\ Len(input) \in Nat
  <2>1. PICK n \in 0 .. MaxBuffer : input \in [1 .. n -> Byte]
    BY DEF Inputs
  <2>2. n \in Nat
    BY <2>1, RingAssumption
  <2> QED BY <2>1, <2>2
<1>5. ASSUME MaxBuffer > 0 PROVE [i \in 1 .. 1 |-> NoByte] \in Inputs \ {<<>>}
  <2>1. [i \in 1 .. 1 |-> NoByte] \in [1 .. 1 -> Byte] /\ 1 \in 0 .. MaxBuffer
    BY <1>5, RingAssumption
  <2>2. [i \in 1 .. 1 |-> NoByte] # <<>>
    <3>1. Len([i \in 1 .. 1 |-> NoByte]) = 1 /\ Len(<<>>) = 0
      OBVIOUS
    <3> QED BY <3>1
  <2> QED BY <2>1, <2>2 DEF Inputs
<1> QED BY <1>1, <1>3, <1>4, <1>5

\* write that takes nothing: EPIPE, an empty input, or EAGAIN.
LEMMA WriteRefusedSound ==
  ASSUME RInv, NEW id \in PipeIds, WriteRefused(id)
  PROVE  RInv' /\ Promise!FifoWrite(id)
<1> DEFINE pipe == pipes[id]
           queue == Fifos[id].queue
<1>1. pipe \in Pipe /\ Fifos[id] = Fifo(pipe) /\ pipe.length \in 0 .. Capacity
  BY HeldEnd, RingAssumption DEF WriteRefused, Pipe
<1>2. /\ queue \in Seq(Byte) /\ Len(queue) = pipe.length
      /\ Fifos[id].readers = pipe.readers /\ Fifos[id].writers = pipe.writers
  BY <1>1, QueueSeen
<1>3. answer'.error \in {"None", "Broken", "WouldBlock"} /\ answer'.count \in Nat
  BY DEF WriteRefused, Done, Failed
<1>4. RInv' /\ Fifos' = Fifos /\ Fifos[id].writers > 0
  BY <1>2, <1>3, NoneChanges DEF WriteRefused
<1>5. CASE pipe.readers = 0 /\ answer' = Failed("Broken")
  BY <1>2, <1>4, <1>5, InputType DEF Promise!FifoWrite, Promise!Failed, Failed
<1>6. CASE pipe.readers > 0 /\ answer' = Done(0)
  <2> DEFINE empty == <<>>
             none == Promise!Smaller(Len(empty), Capacity - Len(queue))
  <2>1. none = 0
    BY <1>1, <1>2, RingAssumption DEF Promise!Smaller
  <2>2. queue \o SubSeq(empty, 1, 0) = queue
    <3>1. SubSeq(empty, 1, 0) = <<>>
      OBVIOUS
    <3> QED BY <1>2, <3>1, ConcatEmptySeq
  <2>3. [Fifos EXCEPT ![id].queue = @ \o SubSeq(empty, 1, 0)] = Fifos
    <3> DEFINE same == queue \o SubSeq(empty, 1, 0)
    <3>1. same = Fifos[id].queue
      BY <2>2
    <3> HIDE DEF same
    <3>2. [Fifos EXCEPT ![id].queue = same] = Fifos
      BY <1>1, <3>1 DEF Fifos, Fifo
    <3> QED BY <3>2 DEF same
  <2>4. empty = <<>> /\ empty \in Promise!Inputs
    BY InputType
  <2> HIDE DEF empty
  <2>5. Fifos' = [Fifos EXCEPT ![id].queue = @ \o SubSeq(empty, 1, none)]
    BY <1>4, <2>1, <2>3, Zenon
  <2>6. answer' = Promise!Done(none)
    BY <1>6, <2>1, Zenon DEF Promise!Done, Done
  <2> QED BY <1>2, <1>4, <1>6, <2>4, <2>5, <2>6 DEF Promise!FifoWrite
<1>7. CASE /\ pipe.readers > 0 /\ pipe.length = Capacity /\ MaxBuffer > 0
           /\ answer' = Failed("WouldBlock")
  <2>1. Capacity - Len(queue) = 0
    BY <1>2, <1>7, RingAssumption
  <2> QED BY <1>2, <1>4, <1>7, <2>1, InputType DEF Promise!FifoWrite, Promise!Failed, Failed
<1> QED BY <1>4, <1>5, <1>6, <1>7 DEF WriteRefused

\* write adds as much of the input as fits.
LEMMA WriteBytesSound ==
  ASSUME RInv, NEW id \in PipeIds, WriteBytes(id)
  PROVE  RInv' /\ Promise!FifoWrite(id)
<1> DEFINE pipe == pipes[id]
           queue == Fifos[id].queue
<1>1. /\ pipe \in Pipe /\ Coherent(pipe) /\ pipe.open /\ Fifos[id] = Fifo(pipe)
      /\ pipe.length \in 0 .. Capacity /\ pipe.length # Capacity
      /\ pipe.writers > 0 /\ pipe.readers > 0
  BY HeldEnd, RingAssumption DEF WriteBytes, Pipe
<1>2. /\ queue = Front(pipe, pipe.length) /\ Len(queue) = pipe.length
      /\ Fifos[id].readers = pipe.readers /\ Fifos[id].writers = pipe.writers
  BY <1>1, QueueSeen DEF Fifo
<1>3. PICK input \in Inputs \ {<<>>} :
        /\ pipes' = [pipes EXCEPT ![id] = Put(pipe, input, Smaller(Len(input), Capacity - pipe.length))]
        /\ answer' = Done(Smaller(Len(input), Capacity - pipe.length))
  BY DEF WriteBytes
<1> DEFINE n == Smaller(Len(input), Capacity - pipe.length)
           new == Put(pipe, input, n)
           added == SubSeq(input, 1, n)
           longer == queue \o added
<1>4. input \in Seq(Byte) /\ Len(input) \in Nat
  BY <1>3, InputType
<1>5. n \in 0 .. Len(input) /\ n <= Capacity - pipe.length /\ n \in Nat
  BY <1>1, <1>4, RingAssumption DEF Smaller
<1>6. /\ new \in Pipe /\ Coherent(new)
      /\ Front(new, pipe.length + n) = Front(pipe, pipe.length) \o added
  BY <1>1, <1>4, <1>5, PutFront
<1>7. new.length = pipe.length + n /\ new.readers = pipe.readers /\ new.writers = pipe.writers
  BY <1>1 DEF Put, Pipe
<1>8. n = Promise!Smaller(Len(input), Capacity - Len(queue))
  BY <1>2 DEF Smaller, Promise!Smaller
<1>9. longer = queue \o SubSeq(input, 1, n)
  OBVIOUS
<1>10. pipes' = [pipes EXCEPT ![id] = new] /\ answer' = Done(n)
  BY <1>3
<1>11. Front(new, new.length) = longer
  BY <1>2, <1>6, <1>7
<1> HIDE DEF n, new, added, longer
<1>12. RInv' /\ Fifos' = [Fifos EXCEPT ![id] = Fifo(new)]
  BY <1>5, <1>6, <1>10, OneChanges DEF Done
<1>13. Fifo(new) = [Fifos[id] EXCEPT !.queue = longer]
  BY <1>1, <1>7, <1>11 DEF Fifo
<1>14. Fifos' = [Fifos EXCEPT ![id].queue = longer]
  BY <1>12, <1>13
<1>15. Capacity - Len(queue) > 0
  BY <1>1, <1>2, RingAssumption
<1>16. Promise!FifoWrite(id)
  BY <1>1, <1>2, <1>3, <1>8, <1>9, <1>10, <1>14, <1>15, InputType
     DEF Promise!FifoWrite, Promise!Done, Done
<1> QED BY <1>12, <1>16

-----------------------------------------------------------------------------
(* Theorems.                                                               *)

\* The table of pipes at boot is the abstract one.
LEMMA RingsStart ==
  ASSUME RingInit
  PROVE  RInv /\ Promise!FifoInit
<1>1. \A id \in PipeIds : pipes[id] = EmptyPipe
  BY DEF RingInit
<1>2. RInv
  BY <1>1, EmptyCoherent DEF RingInit, RInv, PipesTypeOK, RingsCoherent, Done
<1>3. Fifo(EmptyPipe) = Promise!Unused
  BY EmptyCoherent DEF Fifo, EmptyPipe, Promise!Unused
<1>4. Fifos = [id \in PipeIds |-> Promise!Unused]
  BY <1>1, <1>3 DEF Fifos
<1> QED BY <1>2, <1>4 DEF RingInit, Promise!FifoInit, Promise!Done, Done

\* Every call on the rings is a call on the fifos, with the same answer.
LEMMA RingsFollow ==
  ASSUME RInv, [RingNext]_ringVars
  PROVE  RInv' /\ [Promise!FifoNext]_<<Fifos, answer>>
<1>1. CASE UNCHANGED ringVars
  BY <1>1 DEF ringVars, RInv, PipesTypeOK, RingsCoherent, Fifos
<1>2. CASE Create
  BY <1>2, CreateSound DEF Promise!FifoNext
<1>3. ASSUME NEW id \in PipeIds,
             \/ AddReader(id) \/ AddWriter(id) \/ CloseReader(id) \/ CloseWriter(id)
             \/ ReadNothing(id) \/ ReadBytes(id) \/ WriteRefused(id) \/ WriteBytes(id)
      PROVE  RInv' /\ [Promise!FifoNext]_<<Fifos, answer>>
  <2>1. RInv' /\ \/ Promise!FifoShare(id) \/ Promise!FifoClose(id)
                 \/ Promise!FifoRead(id) \/ Promise!FifoWrite(id)
    BY <1>3, AddSound, CloseSound, ReadNothingSound, ReadBytesSound,
       WriteRefusedSound, WriteBytesSound
  <2> QED BY <2>1 DEF Promise!FifoNext
<1> QED BY <1>1, <1>2, <1>3 DEF RingNext

\* The indices of every ring stay in range and coherent, whatever its capacity
\* and however calls follow one another.
THEOREM RingsAlwaysCoherent == RingSpec => []RingsCoherent
<1>1. RingInit => RInv
  BY RingsStart
<1>2. RInv /\ [RingNext]_ringVars => RInv'
  BY RingsFollow
<1>3. RInv => RingsCoherent
  BY DEF RInv
<1> QED BY <1>1, <1>2, <1>3, PTL DEF RingSpec

\* head, tail and length keep the ranges of the buffer.
THEOREM PipesTypeCorrect == RingSpec => []PipesTypeOK
<1>1. RingInit => RInv
  BY RingsStart
<1>2. RInv /\ [RingNext]_ringVars => RInv'
  BY RingsFollow
<1>3. RInv => PipesTypeOK
  BY DEF RInv
<1> QED BY <1>1, <1>2, <1>3, PTL DEF RingSpec

\* A ring is a bounded first-in first-out queue: what is read is what was
\* written, once and in order.
THEOREM RingsImplementFifos == RingSpec => RingsAreFifos
<1>1. RingInit => RInv /\ Promise!FifoInit
  BY RingsStart
<1>2. RInv /\ [RingNext]_ringVars => RInv'
  BY RingsFollow
<1>3. RInv /\ [RingNext]_ringVars => [Promise!FifoNext]_<<Fifos, answer>>
  BY RingsFollow
<1> QED BY <1>1, <1>2, <1>3, PTL DEF RingSpec, RingsAreFifos, Promise!FifoSpec, Promise!fifoVars
=============================================================================
