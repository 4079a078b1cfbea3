--------------------------- MODULE DesktopProofs ---------------------------
(***************************************************************************)
(* Theorems about Desktop, for every number of surfaces, events, processes *)
(* and pids, and whatever the screen and the windows are.                  *)
(***************************************************************************)
EXTENDS Desktop, FiniteSetTheorems, FunctionTheorems, WellFoundedInduction, SequenceTheorems, TLAPS

Elements(q) == {q[i] : i \in DOMAIN q}

\* What holds of the registry r and the processes P: their shape, and
\* TheDeadLeaveNothing in two parts.
SlotRecords ==
  [owner : {0} \cup Pids, born : Nat, shown : BOOLEAN, size : SurfaceSizes \cup {NoSize}, image : Nat]
Shape(r) ==
  /\ r = [slots |-> r.slots, events |-> r.events]
  /\ r.slots \in [Slots -> SlotRecords]
  /\ r.events = [l \in Lines |-> r.events[l]]
  /\ \A l \in Lines : r.events[l] \in Seq(Elements(r.events[l]))
Living(P, pid, born) == P[pid] = [kind |-> "client", born |-> born]
Owned(r, P) == \A s \in Slots : r.slots[s].owner # 0 => Living(P, r.slots[s].owner, r.slots[s].born)
Awaited(P, l, e) == \E p \in Pids : Line(p) = l /\ Living(P, p, e.born)
Addressed(r, P) == \A l \in Lines : \A e \in Elements(r.events[l]) : Awaited(P, l, e)

Kinds == {"none", "client", "server", "zombie"}
Processes(P) == P \in [Pids -> [kind : Kinds, born : Nat]]
Tidy(r, P) == Processes(P) /\ Shape(r) /\ Owned(r, P) /\ Addressed(r, P)
DInv == births \in Nat /\ Tidy(surfaces, procs)

-----------------------------------------------------------------------------
(* Sequences by their elements.                                            *)

\* A sequence is one over its own elements.
LEMMA OverElements ==
  ASSUME NEW S, NEW q \in Seq(S)
  PROVE  q \in Seq(Elements(q)) /\ Elements(q) \subseteq S
BY DEF Elements

\* Taking the first off adds nothing.
LEMMA TailElements ==
  ASSUME NEW S, NEW q \in Seq(S), q # <<>>
  PROVE  Tail(q) \in Seq(Elements(Tail(q))) /\ Elements(Tail(q)) \subseteq Elements(q)
<1>1. Tail(q) \in Seq(S) /\ Len(Tail(q)) = Len(q) - 1 /\ \A i \in 1 .. Len(q) - 1 : Tail(q)[i] = q[i + 1]
  BY HeadTailProperties
<1>2. ASSUME NEW i \in DOMAIN Tail(q)
      PROVE  Tail(q)[i] \in Elements(q)
  <2>1. i \in 1 .. Len(q) - 1 /\ i + 1 \in DOMAIN q
    BY <1>1
  <2>2. Tail(q)[i] = q[i + 1]
    BY <1>1, <2>1
  <2> QED BY <2>1, <2>2 DEF Elements
<1>3. Elements(Tail(q)) \subseteq Elements(q)
  BY <1>2, Zenon DEF Elements
<1> QED BY <1>1, <1>3, OverElements, Zenon

\* PushEvent adds e, and drops the oldest when the queue is full.
LEMMA PushElements ==
  ASSUME NEW S, NEW q \in Seq(S), NEW e
  PROVE  /\ PushEvent(q, e) \in Seq(Elements(PushEvent(q, e)))
         /\ Elements(PushEvent(q, e)) \subseteq Elements(q) \cup {e}
<1> DEFINE kept == IF Len(q) = EventQueue THEN Tail(q) ELSE q
<1>1. kept \in Seq(Elements(kept)) /\ Elements(kept) \subseteq Elements(q)
  <2>1. CASE Len(q) = EventQueue
    <3>1. q # <<>>
      BY <2>1, SurfacesAssumption
    <3> QED BY <2>1, <3>1, TailElements, Zenon
  <2>2. CASE Len(q) # EventQueue
    BY <2>2, OverElements, Zenon
  <2> QED BY <2>1, <2>2
<1>2. kept \in Seq(Elements(q) \cup {e})
  <2>1. Elements(kept) \subseteq Elements(q) \cup {e}
    BY <1>1, Zenon
  <2> QED BY <1>1, <2>1, SeqMonotonic, Zenon
<1>3. Append(kept, e) \in Seq(Elements(q) \cup {e})
  BY <1>2
<1>4. PushEvent(q, e) = Append(kept, e)
  BY DEF PushEvent
<1> QED BY <1>3, <1>4, OverElements

-----------------------------------------------------------------------------
(* A registry and the processes, from one step to the next.               *)

\* A bounded non-empty set of naturals has a greatest element, and Max of
\* FiniteSetsExt chooses it (the pid before the next one).
LEMMA GreatestPid ==
  ASSUME NEW n \in Nat, NEW S \in SUBSET (0 .. n), S # {}
  PROVE  Max(S) \in S /\ \A x \in S : x <= Max(S)
<1> DEFINE Gaps == {n - x : x \in S}
<1>1. Gaps \in SUBSET Nat /\ Gaps # {}
  <2>1. \A x \in S : n - x \in Nat
    OBVIOUS
  <2> QED BY <2>1
<1>2. PICK g \in Gaps : \A x \in Gaps : <<x, g>> \notin OpToRel(<, Nat)
  <2> HIDE DEF Gaps
  <2> QED BY <1>1, WFMin, NatLessThanWellFounded, Zenon
<1>3. \A x \in Gaps : ~(x < g)
  <2> HIDE DEF Gaps
  <2> QED BY <1>1, <1>2, Zenon DEF OpToRel
<1>4. PICK m \in S : g = n - m
  BY <1>2
<1>5. ASSUME NEW x \in S PROVE x <= m
  <2>1. n - x \in Gaps
    OBVIOUS
  <2>2. ~(n - x < n - m)
    BY <1>3, <1>4, <2>1
  <2>3. x \in Nat /\ m \in Nat
    OBVIOUS
  <2> QED BY <2>2, <2>3
<1> QED BY <1>5 DEF Max

\* A process ends, whatever it is: nobody else loses anything.
LEMMA ReleaseTidies ==
  ASSUME NEW r, NEW P, NEW pid, Tidy(r, P)
  PROVE  Tidy(ReleasePid(r, pid), [P EXCEPT ![pid].kind = "zombie"])
<1> DEFINE r2 == ReleasePid(r, pid)
           P2 == [P EXCEPT ![pid].kind = "zombie"]
<1>1. Processes(P2) /\ \A p \in Pids : p # pid => P2[p] = P[p]
  BY DEF Tidy, Processes, Kinds
<1>2. /\ \A s \in Slots : r2.slots[s] = IF r.slots[s].owner = pid THEN NoSurface ELSE r.slots[s]
      /\ \A l \in Lines : r2.events[l] = IF l = Line(pid) THEN <<>> ELSE r.events[l]
  BY DEF Tidy, Shape, ReleasePid
<1>3. Shape(r2)
  <2>1. r2 = [slots |-> r2.slots, events |-> r2.events]
    BY DEF ReleasePid
  <2>2. r2.slots \in [Slots -> SlotRecords]
    BY DEF Tidy, Shape, ReleasePid, NoSurface, SlotRecords
  <2>3. r2.events = [l \in Lines |-> r2.events[l]]
    BY DEF Tidy, Shape, ReleasePid
  <2>4. ASSUME NEW l \in Lines PROVE r2.events[l] \in Seq(Elements(r2.events[l]))
    <3>1. CASE l = Line(pid)
      <4>1. r2.events[l] = <<>>
        BY <1>2, <3>1
      <4> QED BY <4>1, EmptySeq, Zenon
    <3>2. CASE l # Line(pid)
      BY <1>2, <3>2, Zenon DEF Tidy, Shape
    <3> QED BY <3>1, <3>2
  <2> QED BY <2>1, <2>2, <2>3, <2>4, Zenon DEF Shape
<1>4. Owned(r2, P2)
  <2> SUFFICES ASSUME NEW s \in Slots, r2.slots[s].owner # 0
               PROVE  Living(P2, r2.slots[s].owner, r2.slots[s].born)
    BY DEF Owned
  <2>1. r2.slots[s] = r.slots[s] /\ r.slots[s].owner # pid
    BY <1>2 DEF NoSurface
  <2>2. r.slots[s].owner \in Pids
    BY <2>1 DEF Tidy, Shape, SlotRecords
  <2> QED BY <1>1, <2>1, <2>2 DEF Tidy, Owned, Living
<1>5. Addressed(r2, P2)
  <2> SUFFICES ASSUME NEW l \in Lines, NEW e \in Elements(r2.events[l])
               PROVE  Awaited(P2, l, e)
    BY DEF Addressed
  <2>1. l # Line(pid) /\ e \in Elements(r.events[l])
    BY <1>2 DEF Elements
  <2>2. PICK p \in Pids : Line(p) = l /\ Living(P, p, e.born)
    BY <2>1 DEF Tidy, Addressed, Awaited
  <2> QED BY <1>1, <2>1, <2>2 DEF Awaited, Living
<1> QED BY <1>1, <1>3, <1>4, <1>5, Zenon DEF Tidy

\* A new process takes a pid nobody in the table has.
LEMMA StartTidies ==
  ASSUME NEW r, NEW P, NEW pid, NEW kind \in {"client", "server"}, NEW born \in Nat,
         Tidy(r, P), \A p \in Pids : P[p].kind # "none" => p # pid
  PROVE  Tidy(r, [P EXCEPT ![pid] = [kind |-> kind, born |-> born]])
<1> DEFINE P2 == [P EXCEPT ![pid] = [kind |-> kind, born |-> born]]
<1>1. Processes(P2) /\ \A p \in Pids : p # pid => P2[p] = P[p]
  BY DEF Tidy, Processes, Kinds
<1>2. ASSUME NEW p \in Pids, NEW b, Living(P, p, b) PROVE Living(P2, p, b)
  BY <1>1, <1>2 DEF Living
<1>3. Owned(r, P2)
  BY <1>2 DEF Tidy, Shape, Owned, SlotRecords
<1>4. Addressed(r, P2)
  BY <1>2 DEF Tidy, Addressed, Awaited
<1> QED BY <1>1, <1>3, <1>4, Zenon DEF Tidy

\* Only a zombie is collected.
LEMMA CollectTidies ==
  ASSUME NEW r, NEW P, NEW pid \in Pids, Tidy(r, P), P[pid].kind = "zombie"
  PROVE  Tidy(r, [P EXCEPT ![pid] = Nobody])
<1> DEFINE P2 == [P EXCEPT ![pid] = Nobody]
<1>1. Processes(P2) /\ \A p \in Pids : p # pid => P2[p] = P[p]
  BY DEF Tidy, Processes, Kinds, Nobody
<1>2. ASSUME NEW p \in Pids, NEW b, Living(P, p, b) PROVE Living(P2, p, b)
  BY <1>1, <1>2 DEF Living
<1>3. Owned(r, P2)
  BY <1>2 DEF Tidy, Shape, Owned, SlotRecords
<1>4. Addressed(r, P2)
  BY <1>2 DEF Tidy, Addressed, Awaited
<1> QED BY <1>1, <1>3, <1>4, Zenon DEF Tidy

\* What changes when one slot, or one queue, does.
LEMMA RegistryParts ==
  ASSUME NEW r, NEW a, NEW b, NEW i, NEW x, r = [slots |-> a, events |-> b]
  PROVE  /\ [r EXCEPT !.slots[i] = x] = [slots |-> [a EXCEPT ![i] = x], events |-> b]
         /\ [r EXCEPT !.events[i] = x] = [slots |-> a, events |-> [b EXCEPT ![i] = x]]
BY SMT

\* A slot changes to one that is empty or belongs to a client that lives.
LEMMA SlotTidies ==
  ASSUME NEW r, NEW P, NEW s, Tidy(r, P),
         NEW x \in SlotRecords,
         x.owner # 0 => Living(P, x.owner, x.born)
  PROVE  Tidy([r EXCEPT !.slots[s] = x], P)
<1> DEFINE r2 == [r EXCEPT !.slots[s] = x]
<1>1. r2 = [slots |-> [r.slots EXCEPT ![s] = x], events |-> r.events]
  <2>1. r = [slots |-> r.slots, events |-> r.events]
    BY Zenon DEF Tidy, Shape
  <2> QED BY <2>1, RegistryParts
<1>2. r2.events = r.events /\ r2.slots = [r.slots EXCEPT ![s] = x]
  BY <1>1
<1>3. Shape(r2)
  BY <1>1, <1>2 DEF Tidy, Shape
<1>4. Owned(r2, P)
  BY <1>2 DEF Tidy, Shape, Owned
<1>5. Addressed(r2, P)
  BY <1>2 DEF Tidy, Addressed
<1> QED BY <1>3, <1>4, <1>5, Zenon DEF Tidy

\* A queue changes to one whose events a process of its line waits for.
LEMMA LineTidies ==
  ASSUME NEW r, NEW P, NEW l \in Lines, Tidy(r, P), NEW q,
         q \in Seq(Elements(q)), \A e \in Elements(q) : Awaited(P, l, e)
  PROVE  Tidy([r EXCEPT !.events[l] = q], P)
<1> DEFINE r2 == [r EXCEPT !.events[l] = q]
<1>1. r2 = [slots |-> r.slots, events |-> [r.events EXCEPT ![l] = q]]
  <2>1. r = [slots |-> r.slots, events |-> r.events]
    BY Zenon DEF Tidy, Shape
  <2> QED BY <2>1, RegistryParts
<1>2. r2.slots = r.slots /\ r2.events = [r.events EXCEPT ![l] = q]
  BY <1>1
<1>3. \A k \in Lines : r2.events[k] = IF k = l THEN q ELSE r.events[k]
  BY <1>2 DEF Tidy, Shape
<1>4. Shape(r2)
  <2>1. r2.events = [k \in Lines |-> r2.events[k]]
    BY <1>2 DEF Tidy, Shape
  <2>2. \A k \in Lines : r2.events[k] \in Seq(Elements(r2.events[k]))
    BY <1>3, Zenon DEF Tidy, Shape
  <2> QED BY <1>1, <1>2, <2>1, <2>2, Zenon DEF Tidy, Shape
<1>5. Owned(r2, P)
  BY <1>2 DEF Tidy, Owned
<1>6. Addressed(r2, P)
  BY <1>3, Zenon DEF Tidy, Addressed
<1> QED BY <1>4, <1>5, <1>6, Zenon DEF Tidy

-----------------------------------------------------------------------------
(* The actions.                                                            *)

\* What DInv says after a step, in terms of the step.
LEMMA After ==
  ASSUME births' \in Nat, Tidy(surfaces', procs')
  PROVE  DInv'
BY DEF DInv, Tidy, Processes, Shape, Owned, Addressed, Awaited, Living, Elements

LEMMA TheSame ==
  ASSUME DInv, births' = births, surfaces' = surfaces, procs' = procs
  PROVE  DInv'
<1>1. births' \in Nat /\ Tidy(surfaces, procs)
  BY DEF DInv
<1>2. Tidy(surfaces', procs')
  BY <1>1
<1> QED BY <1>1, <1>2, After

LEMMA InitTidies == Init => DInv
<1> SUFFICES ASSUME Init PROVE DInv
  OBVIOUS
<1> USE DEF Init
<1>1. Processes(procs)
  BY DesktopAssumption DEF Processes, Nobody, Kinds
<1>2. surfaces.slots = [s \in Slots |-> NoSurface] /\ surfaces.events = [l \in Lines |-> <<>>]
  BY DEF NoSurfaces
<1>3. Shape(surfaces)
  <2>1. surfaces = [slots |-> surfaces.slots, events |-> surfaces.events]
    BY DEF NoSurfaces
  <2>2. \A l \in Lines : surfaces.events[l] = <<>>
    BY <1>2
  <2>3. \A l \in Lines : surfaces.events[l] \in Seq(Elements(surfaces.events[l]))
    BY <2>2, EmptySeq, Zenon
  <2> QED BY <1>2, <2>1, <2>3 DEF Shape, NoSurface, SlotRecords
<1>4. Owned(surfaces, procs) /\ Addressed(surfaces, procs)
  BY <1>2 DEF Owned, Addressed, NoSurface, Elements
<1> QED BY <1>1, <1>3, <1>4 DEF DInv, Tidy

LEMMA StartKeeps ==
  ASSUME DInv, NEW kind \in {"client", "server"}, Start(kind), surfaces' = surfaces
  PROVE  DInv'
<1> DEFINE top == Max({0} \cup Table)
<1>1. {0} \cup Table \in SUBSET (0 .. MaxBorn)
  BY DesktopAssumption DEF Table, Pids
<1>2. top \in Nat /\ \A p \in Table : p <= top
  <2> DEFINE S == {0} \cup Table
  <2>1. S # {}
    OBVIOUS
  <2>2. Max(S) \in S /\ \A x \in S : x <= Max(S)
    <3> HIDE DEF S
    <3> QED BY <1>1, <2>1, GreatestPid, DesktopAssumption, Zenon DEF S
  <2>3. Max(S) \in 0 .. MaxBorn
    <3>1. S \subseteq 0 .. MaxBorn
      BY <1>1, Zenon
    <3> HIDE DEF S
    <3> QED BY <2>2, <3>1, Zenon
  <2>4. top = Max(S) /\ \A p \in Table : p \in S
    OBVIOUS
  <2> HIDE DEF top, S
  <2> QED BY <2>2, <2>3, <2>4, DesktopAssumption
<1>3. \A p \in Pids : procs[p].kind # "none" => p # 1 + top
  <2> HIDE DEF top
  <2> QED BY <1>2 DEF Table, Pids
<1>4. procs' = [procs EXCEPT ![1 + top] = [kind |-> kind, born |-> births + 1]] /\ births' = births + 1
  BY DEF Start
<1>5. births + 1 \in Nat /\ Tidy(surfaces, procs)
  BY DEF DInv
<1>6. Tidy(surfaces', procs')
  <2> HIDE DEF top
  <2> QED BY <1>3, <1>4, <1>5, StartTidies, Zenon
<1> QED BY <1>4, <1>5, <1>6, After, Zenon

LEMMA ReleaseKeeps ==
  ASSUME DInv, NEW pid, procs' = [procs EXCEPT ![pid].kind = "zombie"],
         surfaces' = ReleasePid(surfaces, pid), births' = births
  PROVE  DInv'
BY ReleaseTidies, After, Zenon DEF DInv

LEMMA ClientKeeps ==
  ASSUME DInv, NEW pid \in Pids, ClientCall(pid)
  PROVE  DInv'
<1>1. births' \in Nat /\ procs' = procs /\ births \in Nat /\ Tidy(surfaces, procs)
  BY DEF ClientCall, DInv
<1>2. procs[pid].kind = "client" => Living(procs, pid, procs[pid].born) /\ procs[pid].born \in Nat
  BY <1>1 DEF Tidy, Processes, Living
<1>3. NoSurface \in SlotRecords /\ NoSurface.owner = 0
  BY DEF NoSurface, SlotRecords
<1>4. CASE Create(pid)
  <2>1. PICK size \in SurfaceSizes :
          surfaces' = CreateSurface(surfaces, pid, procs[pid].born, size,
                                    NewImage(Min(FreeSlots(surfaces))))
    BY <1>4, Zenon DEF Create
  <2> DEFINE s == Min(FreeSlots(surfaces))
             x == [owner |-> pid, born |-> procs[pid].born, shown |-> FALSE,
                   size |-> size, image |-> NewImage(s)]
  <2>2. surfaces' = [surfaces EXCEPT !.slots[s] = x]
    BY <2>1, Zenon DEF CreateSurface
  <2>4. x \in SlotRecords /\ Living(procs, x.owner, x.born)
    <3>1. NewImage(s) \in Nat
      BY DEF NewImage
    <3> HIDE DEF s
    <3> QED BY <1>2, <1>4, <3>1 DEF Create, Runs, SlotRecords
  <2>3. Tidy(surfaces', procs)
    <3> HIDE DEF x, s
    <3> QED BY <1>1, <2>2, <2>4, SlotTidies, Zenon
  <2> QED BY <1>1, <2>3, After, Zenon
<1>5. CASE Present(pid)
  <2>1. PICK s \in Slots, shown \in BOOLEAN :
          Owns(surfaces, pid, s) /\ surfaces' = PresentSurface(surfaces, s, shown)
    BY <1>5, Zenon DEF Present
  <2> DEFINE x == [surfaces.slots[s] EXCEPT !.shown = shown]
  <2>2. x \in SlotRecords
        /\ x.owner = surfaces.slots[s].owner /\ x.born = surfaces.slots[s].born
    BY <1>1 DEF Tidy, Shape, SlotRecords
  <2>3. x.owner # 0 => Living(procs, x.owner, x.born)
    BY <1>1, <2>2 DEF Tidy, Owned
  <2>4. surfaces' = [surfaces EXCEPT !.slots[s] = x]
    BY <2>1, Zenon DEF PresentSurface
  <2>5. Tidy(surfaces', procs)
    <3> HIDE DEF x
    <3> QED BY <1>1, <2>2, <2>3, <2>4, SlotTidies, Zenon
  <2> QED BY <1>1, <2>5, After, Zenon
<1>8. CASE Flush(pid)
  <2>1. PICK s \in Slots : surfaces' = FlushSurface(surfaces, s, NewImage(s))
    BY <1>8, Zenon DEF Flush
  <2> DEFINE x == [surfaces.slots[s] EXCEPT !.image = NewImage(s)]
  <2>2. x \in SlotRecords
        /\ x.owner = surfaces.slots[s].owner /\ x.born = surfaces.slots[s].born
    <3>1. NewImage(s) \in Nat
      BY DEF NewImage
    <3> QED BY <1>1, <3>1 DEF Tidy, Shape, SlotRecords
  <2>3. x.owner # 0 => Living(procs, x.owner, x.born)
    BY <1>1, <2>2 DEF Tidy, Owned
  <2>4. surfaces' = [surfaces EXCEPT !.slots[s] = x]
    BY <2>1, Zenon DEF FlushSurface
  <2>5. Tidy(surfaces', procs)
    <3> HIDE DEF x
    <3> QED BY <1>1, <2>2, <2>3, <2>4, SlotTidies, Zenon
  <2> QED BY <1>1, <2>5, After, Zenon
<1>6. CASE Destroy(pid)
  <2>1. PICK s \in Slots : surfaces' = [surfaces EXCEPT !.slots[s] = NoSurface]
    BY <1>6, Zenon DEF Destroy, DestroySurface
  <2>2. Tidy(surfaces', procs)
    BY <1>1, <1>3, <2>1, SlotTidies, Zenon
  <2> QED BY <1>1, <2>2, After, Zenon
<1>7. CASE PollEvent(pid)
  <2> DEFINE l == Line(pid)
             q == surfaces.events[l]
  <2>1. l \in Lines
    BY SurfacesAssumption DEF Line, Lines, Pids
  <2>2. q \in Seq(Elements(q)) /\ q # <<>> /\ \A e \in Elements(q) : Awaited(procs, l, e)
    BY <1>1, <1>7, <2>1, Zenon DEF Tidy, Shape, Addressed, PollEvent
  <2>3. surfaces' = [surfaces EXCEPT !.events[l] = Tail(q)]
    BY <1>7, Zenon DEF PollEvent, PopEvent
  <2>4. Tail(q) \in Seq(Elements(Tail(q))) /\ \A e \in Elements(Tail(q)) : Awaited(procs, l, e)
    <3> HIDE DEF q, l
    <3>1. Tail(q) \in Seq(Elements(Tail(q))) /\ Elements(Tail(q)) \subseteq Elements(q)
      BY <2>2, TailElements, Zenon
    <3> QED BY <2>2, <3>1, Zenon
  <2>5. Tidy(surfaces', procs)
    <3> HIDE DEF q, l
    <3> QED BY <1>1, <2>1, <2>3, <2>4, LineTidies, Zenon
  <2> QED BY <1>1, <2>5, After, Zenon
<1> QED BY <1>4, <1>5, <1>6, <1>7, <1>8, Zenon DEF ClientCall

\* The event goes to the owner the surface has now, who lives.
LEMMA PushKeeps ==
  ASSUME DInv, NEW s, NEW kind, surfaces' = PushToSurface(surfaces, s, kind),
         procs' = procs, births' = births
  PROVE  DInv'
<1> DEFINE to == surfaces.slots[s]
           l == Line(to.owner)
           q == surfaces.events[l]
           e == [surface |-> s, kind |-> kind, born |-> to.born]
<1>1. births' = births /\ procs' = procs /\ births \in Nat /\ Tidy(surfaces, procs)
  BY DEF DInv
<1>2. CASE ~Find(surfaces, s)
  BY <1>1, <1>2, TheSame, Zenon DEF PushToSurface
<1>3. CASE Find(surfaces, s)
  <2>1. s \in Slots /\ to.owner # 0
    BY <1>3 DEF Find
  <2>2. to.owner \in Pids
    BY <1>1, <2>1 DEF Tidy, Shape, SlotRecords
  <2>3. l \in Lines
    BY <2>2, SurfacesAssumption DEF Line, Lines, Pids
  <2>4. Awaited(procs, l, e)
    BY <1>1, <2>1, <2>2 DEF Tidy, Owned, Awaited
  <2>5. q \in Seq(Elements(q)) /\ \A x \in Elements(q) : Awaited(procs, l, x)
    BY <1>1, <2>3, Zenon DEF Tidy, Shape, Addressed
  <2>6. surfaces' = [surfaces EXCEPT !.events[l] = PushEvent(q, e)]
    BY <1>3, Zenon DEF PushToSurface
  <2>7. Tidy(surfaces', procs)
    <3> HIDE DEF q, l, e, to
    <3>1. /\ PushEvent(q, e) \in Seq(Elements(PushEvent(q, e)))
          /\ Elements(PushEvent(q, e)) \subseteq Elements(q) \cup {e}
      BY <2>5, PushElements, Zenon
    <3>2. \A x \in Elements(PushEvent(q, e)) : Awaited(procs, l, x)
      BY <2>4, <2>5, <3>1, Zenon
    <3> DEFINE pushed == PushEvent(q, e)
    <3>3. pushed \in Seq(Elements(pushed)) /\ \A x \in Elements(pushed) : Awaited(procs, l, x)
      BY <3>1, <3>2, Zenon
    <3>4. surfaces' = [surfaces EXCEPT !.events[l] = pushed]
      BY <2>6, Zenon
    <3> HIDE DEF pushed
    <3>5. Tidy([surfaces EXCEPT !.events[l] = pushed], procs)
      BY <1>1, <2>3, <3>3, LineTidies, Zenon
    <3> QED BY <3>4, <3>5, Zenon
  <2> QED BY <1>1, <2>7, After, Zenon
<1> QED BY <1>2, <1>3

LEMMA SendKeeps ==
  ASSUME DInv, SendEvent
  PROVE  DInv'
BY PushKeeps, Zenon DEF SendEvent

\* A client that makes a call of a display changes no surface, but for an event.
LEMMA DisplayKeeps ==
  ASSUME DInv, NEW pid, DisplayCall(pid)
  PROVE  DInv'
<1>1. procs' = procs /\ births' = births
  BY DEF DisplayCall
<1>2. CASE surfaces' = surfaces
  BY <1>1, <1>2, TheSame
<1>3. CASE SendAnywhere(pid)
  BY <1>1, <1>3, PushKeeps, Zenon DEF SendAnywhere
<1> QED BY <1>2, <1>3, Zenon DEF DisplayCall

LEMMA PollKeeps ==
  ASSUME DInv, PollInput
  PROVE  DInv'
<1>1. births' = births
  BY DEF PollInput
<1>2. PICK q : TakeEvent(q)
  BY Zenon DEF PollInput
<1>3. CASE UNCHANGED <<surfaces, procs>>
  BY <1>1, <1>3, TheSame
<1>4. CASE /\ procs' = [procs EXCEPT ![ServerPid].kind = "zombie"]
           /\ surfaces' = ReleasePid(surfaces, ServerPid)
  BY <1>1, <1>4, ReleaseKeeps, Zenon
<1> QED BY <1>2, <1>3, <1>4, Zenon DEF TakeEvent

LEMMA StepTidies ==
  ASSUME DInv, [Next]_vars
  PROVE  DInv'
<1>1. CASE StartClient
  BY <1>1, StartKeeps DEF StartClient
<1>2. CASE StartServer
  BY <1>2, StartKeeps DEF StartServer
<1>3. CASE ReadCharacter \/ GiveCpu \/ \E p \in Pids : KeepCpu(p)
  <2>1. births' = births /\ surfaces' = surfaces /\ procs' = procs
    BY <1>3 DEF ReadCharacter, GiveCpu, KeepCpu
  <2> QED BY <2>1, TheSame
<1>4. CASE ServerRuns
  <2>1. CASE Sync
    BY <2>1, TheSame DEF Sync
  <2> QED BY <1>4, <2>1, PollKeeps, SendKeeps, Zenon DEF ServerRuns
<1>5. ASSUME NEW p \in Pids, Exit(p) PROVE DInv'
  BY <1>5, ReleaseKeeps, Zenon DEF Exit, Exited
<1>6. ASSUME NEW p \in Pids, Collect(p) PROVE DInv'
  <2>1. Tidy(surfaces, procs) /\ procs[p].kind = "zombie" /\ births' \in Nat /\ surfaces' = surfaces
    BY <1>6 DEF Collect, Runs, DInv
  <2>2. Tidy(surfaces', procs')
    BY <1>6, <2>1, CollectTidies, Zenon DEF Collect
  <2> QED BY <2>1, <2>2, After, Zenon
<1>7. CASE UNCHANGED vars
  BY <1>7, TheSame DEF vars
<1> QED BY <1>1, <1>2, <1>3, <1>4, <1>5, <1>6, <1>7, ClientKeeps, DisplayKeeps, Zenon
       DEF Next, OthersRun

-----------------------------------------------------------------------------
(* What a process leaves in the registry of surfaces dies with it: every   *)
(* surface belongs to the process that created it, and every event that    *)
(* waits is for a process that lives, however the pids come back.          *)
THEOREM DeadAlwaysLeaveNothing == Spec => []TheDeadLeaveNothing
<1>1. DInv => TheDeadLeaveNothing
  <2> SUFFICES ASSUME DInv PROVE TheDeadLeaveNothing
    OBVIOUS
  <2>1. Owned(surfaces, procs) /\ Addressed(surfaces, procs)
    BY DEF DInv, Tidy
  <2> QED BY <2>1, Zenon DEF Owned, Addressed, Awaited, Living, Elements, TheDeadLeaveNothing
<1> QED BY <1>1, InitTidies, StepTidies, PTL DEF Spec
-----------------------------------------------------------------------------
(* The mouse: what the events still in the queue say, and what the server  *)
(* knows of what it has taken.                                             *)

\* What event e says about the pointer, or about the left button.
Subjects == {"pointer", "left"}
Button1(pressed) == IF pressed THEN "down" ELSE "up"
Says(e, topic) ==
  CASE topic = "pointer" /\ e.kind = "move" -> {<<e.x, e.y>>}
    [] topic = "left" /\ e.kind = "button" /\ e.button = 1 -> {Button1(e.pressed)}
    [] OTHER -> {}

\* The last of the events es that speaks of the topic, if any, says v.
Silent(es, topic) == \A i \in DOMAIN es : Says(es[i], topic) = {}
EndsWith(es, topic, v) ==
  \A i \in DOMAIN es :
    \/ Says(es[i], topic) \in {{}, {v}}
    \/ \E j \in DOMAIN es : j > i /\ Says(es[j], topic) # {}

Truth(q, topic) == IF topic = "pointer" THEN <<q.x, q.y>> ELSE Button1(q.left)
Knows(c, topic, v) ==
  IF topic = "pointer" THEN <<c.x, c.y>> = IF c.moved THEN v ELSE StartPointer
  ELSE c.lastLeft <=> c.clicked /\ v = "down"

DragsHeld(c) == c.dragging # 0 => c.lastLeft
MouseIsSound(q, c) ==
  \A topic \in Subjects :
    /\ EndsWith(q.events, topic, Truth(q, topic))
    /\ Silent(q.events, topic) /\ topic \notin q.lost => Knows(c, topic, Truth(q, topic))

\* A record is told by its fields.
QueueFields == {"events", "captured", "x", "y", "maxX", "maxY", "left", "right", "lost"}
QueueShape(q) == q = [f \in QueueFields |-> q[f]] /\ q.events \in Seq(Elements(q.events))
ServerFields ==
  {"pc", "windows", "z", "focused", "x", "y", "dragging", "grip", "lastLeft", "external", "dirty",
   "cursorDirty", "frame", "polls", "send", "drawn", "cursor", "moved", "clicked"}
ServerShape(c) == c = [f \in ServerFields |-> c[f]]

\* The pointer is on the screen, so that clamping it changes nothing.
Framed(q) ==
  /\ q.maxX = Clamp(Width - 1, 0, Width) /\ q.maxY = Clamp(Height - 1, 0, Height)
  /\ q.x = Clamp(q.x, 0, q.maxX) /\ q.y = Clamp(q.y, 0, q.maxY)

\* A server that has heard nothing.
Fresh(c) ==
  /\ ServerShape(c) /\ c.moved = FALSE /\ c.clicked = FALSE /\ c.lastLeft = FALSE
  /\ c.dragging = 0 /\ <<c.x, c.y>> = StartPointer

Sound(q, c) == QueueShape(q) /\ MouseIsSound(q, c)
Informed(q, c) == ServerShape(c) /\ DragsHeld(c) /\ Sound(q, c)
Ready(q, c) ==
  /\ Informed(q, c)
  /\ IF c.pc = "none" THEN Fresh(c) ELSE Framed(q)
MouseInv == Ready(queue, server)

-----------------------------------------------------------------------------
(* The screen: what was drawn, until something is marked dirty.            *)

Drawn(c) ==
  /\ Placed(c.drawn.external) = Placed(c.external)
  /\ c.dragging = 0 => Outline(c.drawn) = Outline(Layout(c))
Numbers(c) ==
  /\ c.z \in [WindowIds -> Nat] /\ c.frame \in Nat /\ c.polls \in Nat
  /\ c.external \in Seq(Elements(c.external))
Updated(c) ==
  /\ ~c.dirty => Drawn(c)
  /\ ~c.dirty /\ ~c.cursorDirty => c.cursor = <<c.x, c.y>>
\* Between two rounds all is shown, and an event to send comes in a round.
AtRest(c) ==
  /\ c.pc = "poll" /\ c.polls = 0 => ~c.dirty /\ c.cursor = <<c.x, c.y>>
  /\ c.pc = "send" => c.polls # 0
ScreenIsSound(c) == Numbers(c) /\ Updated(c) /\ AtRest(c)

ScreenInv == ServerShape(server) /\ ScreenIsSound(server)

-----------------------------------------------------------------------------
(* The queue of input events.                                              *)

\* What becomes of the queue es when the event e is put at the end of it.
Adds(es, new, e, topic, v) ==
  /\ Says(e, topic) = {v} => EndsWith(new, topic, v) /\ ~Silent(new, topic)
  /\ Says(e, topic) = {} /\ EndsWith(es, topic, v) => EndsWith(new, topic, v)

\* The events of a topic are those that say something of it.
LEMMA SilentTopics ==
  ASSUME NEW es, NEW topic \in Subjects
  PROVE  Silent(es, topic) <=> topic \notin Topics(es)
<1>1. ASSUME NEW e PROVE Says(e, topic) = {} <=> Topic(e) # topic
  BY DEF Says, Topic, Subjects
<1> QED BY <1>1, Zenon DEF Silent, Topics

\* Whether it is appended
LEMMA AppendEnds ==
  ASSUME NEW S, NEW es \in Seq(S), NEW e, NEW topic, NEW v
  PROVE  Adds(es, Append(es, e), e, topic, v)
<1> DEFINE n == Len(es)
           new == Append(es, e)
<1>1. /\ n \in Nat /\ DOMAIN es = 1 .. n /\ DOMAIN new = 1 .. n + 1
      /\ new[n + 1] = e /\ \A i \in 1 .. n : new[i] = es[i]
  <2>1. e \in S \cup {e} /\ es \in Seq(S \cup {e})
    BY SeqMonotonic, Zenon
  <2> QED BY <2>1, AppendProperties
<1> HIDE DEF n, new
<1>2. n + 1 \in DOMAIN new /\ \A i \in DOMAIN new : i = n + 1 \/ (i \in DOMAIN es /\ i < n + 1)
  BY <1>1
<1>3. ASSUME Says(e, topic) = {v}
      PROVE  EndsWith(new, topic, v) /\ ~Silent(new, topic)
  BY <1>1, <1>2, <1>3 DEF EndsWith, Silent
<1>4. ASSUME Says(e, topic) = {}, EndsWith(es, topic, v)
      PROVE  EndsWith(new, topic, v)
  <2> SUFFICES ASSUME NEW i \in DOMAIN new
               PROVE  \/ Says(new[i], topic) \in {{}, {v}}
                      \/ \E j \in DOMAIN new : j > i /\ Says(new[j], topic) # {}
    BY DEF EndsWith
  <2>1. CASE i = n + 1
    BY <1>1, <1>4, <2>1
  <2>2. CASE i \in DOMAIN es
    <3>1. \A j \in DOMAIN es : j \in DOMAIN new /\ new[j] = es[j]
      BY <1>1
    <3>2. CASE Says(es[i], topic) \in {{}, {v}}
      BY <2>2, <3>1, <3>2
    <3>3. CASE Says(es[i], topic) \notin {{}, {v}}
      <4>1. PICK j \in DOMAIN es : j > i /\ Says(es[j], topic) # {}
        BY <1>4, <2>2, <3>3 DEF EndsWith
      <4> QED BY <3>1, <4>1, Zenon
    <3> QED BY <3>2, <3>3
  <2> QED BY <1>2, <2>1, <2>2
<1> QED BY <1>3, <1>4 DEF new, Adds

\* or takes the place of the last one.
LEMMA ReplaceEnds ==
  ASSUME NEW S, NEW es \in Seq(S), NEW e, NEW topic, NEW v, Len(es) # 0,
         Says(e, topic) = {} <=> Says(es[Len(es)], topic) = {}
  PROVE  /\ [es EXCEPT ![Len(es)] = e] \in Seq(Elements([es EXCEPT ![Len(es)] = e]))
         /\ Adds(es, [es EXCEPT ![Len(es)] = e], e, topic, v)
<1> DEFINE n == Len(es)
           new == [es EXCEPT ![n] = e]
<1>1. /\ n \in Nat \ {0} /\ DOMAIN es = 1 .. n /\ DOMAIN new = 1 .. n
      /\ new[n] = e /\ \A i \in 1 .. n : i # n => new[i] = es[i]
  OBVIOUS
<1>2. new \in Seq(Elements(new))
  <2>1. es \in Seq(S \cup {e}) /\ e \in S \cup {e}
    BY SeqMonotonic, Zenon
  <2>2. n \in 1 .. Len(es)
    <3>1. Len(es) \in Nat
      OBVIOUS
    <3> HIDE DEF new
    <3> QED BY <3>1
  <2>3. new \in Seq(S \cup {e})
    BY <2>1, <2>2, ExceptSeq, Zenon
  <2> HIDE DEF new
  <2> QED BY <2>3, OverElements, Zenon
<1> HIDE DEF n, new
<1>3. Says(e, topic) = {} <=> Says(es[n], topic) = {}
  BY DEF n
<1>4. n \in DOMAIN new /\ \A i \in DOMAIN new : i = n \/ (i \in DOMAIN es /\ i < n)
  BY <1>1
<1>5. ASSUME Says(e, topic) = {v}
      PROVE  EndsWith(new, topic, v) /\ ~Silent(new, topic)
  BY <1>1, <1>4, <1>5 DEF EndsWith, Silent
<1>6. ASSUME Says(e, topic) = {}, EndsWith(es, topic, v)
      PROVE  EndsWith(new, topic, v)
  <2> SUFFICES ASSUME NEW i \in DOMAIN new
               PROVE  \/ Says(new[i], topic) \in {{}, {v}}
                      \/ \E j \in DOMAIN new : j > i /\ Says(new[j], topic) # {}
    BY DEF EndsWith
  <2>1. CASE i = n
    BY <1>1, <1>6, <2>1
  <2>2. CASE i # n
    <3>1. i \in DOMAIN es
      BY <1>1
    <3>2. CASE Says(es[i], topic) \in {{}, {v}}
      BY <1>1, <2>2, <3>2
    <3>3. CASE Says(es[i], topic) \notin {{}, {v}}
      <4>1. PICK j \in DOMAIN es : j > i /\ Says(es[j], topic) # {}
        BY <1>6, <3>1, <3>3 DEF EndsWith
      <4>2. j # n
        BY <1>3, <1>6, <4>1
      <4> QED BY <1>1, <4>1, <4>2
    <3> QED BY <3>2, <3>3
  <2> QED BY <2>1, <2>2
<1>8. Adds(es, new, e, topic, v)
  BY <1>5, <1>6 DEF Adds
<1> QED BY <1>2, <1>8 DEF new, n

\* Taking the first event: if nothing else spoke, it is what it said.
LEMMA TailEnds ==
  ASSUME NEW S, NEW es \in Seq(S), es # <<>>, NEW topic, NEW v, EndsWith(es, topic, v)
  PROVE  /\ EndsWith(Tail(es), topic, v)
         /\ Silent(Tail(es), topic) =>
              Silent(es, topic) \/ Says(Head(es), topic) = {v}
<1> DEFINE n == Len(es)
           rest == Tail(es)
<1>1. /\ n \in Nat /\ n >= 1 /\ DOMAIN es = 1 .. n /\ DOMAIN rest = 1 .. n - 1
      /\ \A i \in 1 .. n - 1 : rest[i] = es[i + 1] /\ Head(es) = es[1]
      /\ Head(es) = es[1]
  BY EmptySeq, HeadTailProperties
<1> HIDE DEF n, rest
<1>2. EndsWith(rest, topic, v)
  <2> SUFFICES ASSUME NEW i \in DOMAIN rest
               PROVE  \/ Says(rest[i], topic) \in {{}, {v}}
                      \/ \E j \in DOMAIN rest : j > i /\ Says(rest[j], topic) # {}
    BY DEF EndsWith
  <2>1. i \in 1 .. n - 1 /\ i + 1 \in DOMAIN es /\ rest[i] = es[i + 1]
    BY <1>1
  <2>2. CASE Says(es[i + 1], topic) \in {{}, {v}}
    BY <2>1, <2>2
  <2>3. CASE Says(es[i + 1], topic) \notin {{}, {v}}
    <3>1. PICK j \in DOMAIN es : j > i + 1 /\ Says(es[j], topic) # {}
      BY <2>1, <2>3 DEF EndsWith
    <3>2. j - 1 \in 1 .. n - 1 /\ j - 1 > i /\ j = (j - 1) + 1
      BY <1>1, <2>1, <3>1
    <3>3. rest[j - 1] = es[j]
      BY <1>1, <3>2
    <3> QED BY <1>1, <3>1, <3>2, <3>3
  <2> QED BY <2>2, <2>3
<1>3. ASSUME Silent(rest, topic), Says(Head(es), topic) # {v}
      PROVE  Silent(es, topic)
  <2>1. ASSUME NEW i \in DOMAIN es, i # 1
        PROVE  Says(es[i], topic) = {}
    <3>1. i - 1 \in 1 .. n - 1 /\ (i - 1) + 1 = i
      BY <1>1, <2>1
    <3>2. rest[i - 1] = es[i]
      BY <1>1, <3>1
    <3> QED BY <1>1, <1>3, <3>1, <3>2 DEF Silent
  <2>2. 1 \in DOMAIN es /\ \A i \in DOMAIN es : i > 1 => i # 1
    BY <1>1
  <2>3. Says(es[1], topic) = {}
    BY <1>1, <1>3, <2>1, <2>2 DEF EndsWith
  <2> QED BY <2>1, <2>3 DEF Silent
<1> QED BY <1>2, <1>3 DEF rest

-----------------------------------------------------------------------------
(* Input arrives.                                                          *)

\* The event e tells how q, as far as the mouse goes, differs from p.
Tells(p, q, e) ==
  \A topic \in Subjects :
    \/ Says(e, topic) = {} /\ Truth(p, topic) = Truth(q, topic)
    \/ Says(e, topic) = {Truth(q, topic)}

\* The mouse has changed from p to q, and no event says so yet.
Before(p, q, c) ==
  /\ QueueShape(p) /\ QueueShape(q) /\ q.events = p.events /\ q.lost = p.lost
  /\ MouseIsSound(p, c)

\* Where the pointer was on the screen, it still is.
SameFrame(r, q) == r.x = q.x /\ r.y = q.y /\ r.maxX = q.maxX /\ r.maxY = q.maxY
Within(r, q) == Framed(q) => Framed(r)

\* The same queue with other events.
WithEvents(r, q, es, lost) ==
  /\ r = [f \in QueueFields |-> r[f]]
  /\ r.events = es /\ r.left = q.left /\ r.lost = lost /\ SameFrame(r, q)

LEMMA EventsChange ==
  ASSUME NEW q, QueueShape(q), NEW es
  PROVE  /\ WithEvents([q EXCEPT !.events = es], q, es, q.lost)
         /\ WithEvents(Requeued(q, es), q, es, (q.lost \cup Topics(q.events)) \ Topics(es))
<1> DEFINE lost == (q.lost \cup Topics(q.events)) \ Topics(es)
<1>1. Requeued(q, es) = [q EXCEPT !.events = es, !.lost = lost]
  BY DEF Requeued
<1> HIDE DEF lost
<1>2. WithEvents([q EXCEPT !.events = es, !.lost = lost], q, es, lost)
  BY DEF QueueShape, WithEvents, QueueFields, SameFrame
<1>3. WithEvents([q EXCEPT !.events = es], q, es, q.lost)
  BY DEF QueueShape, WithEvents, QueueFields, SameFrame
<1> QED BY <1>1, <1>2, <1>3, Zenon DEF lost

\* Other events that still end with the truth: a topic on which they are silent, and
\* of which nothing was lost, is one the server knows.
LEMMA RequeuedIsSound ==
  ASSUME NEW p, NEW q, NEW c, Before(p, q, c), NEW es, es \in Seq(Elements(es)),
         \A topic \in Subjects :
           /\ EndsWith(es, topic, Truth(q, topic))
           /\ Silent(es, topic) => Truth(p, topic) = Truth(q, topic)
  PROVE  Sound(Requeued(q, es), c) /\ SameFrame(Requeued(q, es), q)
<1> DEFINE r == Requeued(q, es)
<1>1. WithEvents(r, q, es, (q.lost \cup Topics(q.events)) \ Topics(es))
  BY EventsChange, Zenon DEF Before
<1> HIDE DEF r
<1>2. QueueShape(r) /\ SameFrame(r, q) /\ r.events = es
  BY <1>1 DEF WithEvents, QueueShape
<1>3. \A topic : Truth(r, topic) = Truth(q, topic)
  BY <1>1 DEF WithEvents, Truth, SameFrame
<1>4. ASSUME NEW topic \in Subjects, Silent(es, topic), topic \notin r.lost
      PROVE  Knows(c, topic, Truth(r, topic))
  <2>1. topic \notin Topics(es)
    BY <1>4, SilentTopics
  <2>2. topic \notin q.lost /\ topic \notin Topics(q.events)
    BY <1>1, <1>4, <2>1 DEF WithEvents
  <2>3. Silent(p.events, topic) /\ topic \notin p.lost
    BY <2>2, SilentTopics, Zenon DEF Before
  <2>4. Knows(c, topic, Truth(p, topic))
    BY <2>3, Zenon DEF Before, MouseIsSound
  <2> QED BY <1>3, <1>4, <2>4, Zenon
<1>5. MouseIsSound(r, c)
  BY <1>2, <1>3, <1>4, Zenon DEF MouseIsSound
<1> QED BY <1>2, <1>5 DEF Sound, r

LEMMA PushIsSound ==
  ASSUME NEW p, NEW q, NEW e, NEW c, Before(p, q, c), Tells(p, q, e),
         e.kind \in {"key", "move", "button"}
  PROVE  Sound(Push(q, e), c) /\ SameFrame(Push(q, e), q)
<1> DEFINE es == q.events
           n == Len(es)
           S == Elements(es)
           merges == e.kind = "move" /\ n # 0 /\ es[n].kind = "move"
           kept == IF n = QueueCapacity THEN Tail(es) ELSE es
           new == IF merges THEN [es EXCEPT ![n] = e] ELSE Append(kept, e)
<1>1. es \in Seq(S) /\ n \in Nat
  BY DEF Before, QueueShape
<1>2. Push(q, e) = Requeued(q, new)
  BY DEF Push
\* What the events said before e, they say without the oldest one.
<1>3. /\ kept \in Seq(Elements(kept))
      /\ \A topic \in Subjects : \A v : EndsWith(es, topic, v) => EndsWith(kept, topic, v)
  <2>1. CASE n = QueueCapacity
    <3>1. es # <<>> /\ kept = Tail(es)
      BY <2>1, InputQueueAssumption
    <3> HIDE DEF es, S, n, kept
    <3> QED BY <1>1, <3>1, TailElements, TailEnds, Zenon
  <2>2. CASE n # QueueCapacity
    <3>1. kept = es
      BY <2>2
    <3> HIDE DEF es, S, n, kept
    <3> QED BY <1>1, <3>1, OverElements, Zenon
  <2> QED BY <2>1, <2>2
<1>4. /\ new \in Seq(Elements(new))
      /\ \A topic \in Subjects :
           \/ Adds(es, new, e, topic, Truth(q, topic))
           \/ Adds(kept, new, e, topic, Truth(q, topic))
  <2>1. CASE merges
    <3>1. new = [es EXCEPT ![n] = e]
      BY <2>1
    <3>2. \A topic \in Subjects : Says(e, topic) = {} <=> Says(es[n], topic) = {}
      BY <2>1 DEF Says, Subjects
    <3>3. "left" \in Subjects
      BY DEF Subjects
    <3> HIDE DEF es, S, new
    <3> QED BY <1>1, <2>1, <3>1, <3>2, <3>3, ReplaceEnds, Zenon DEF n
  <2>2. CASE ~merges
    <3>1. new = Append(kept, e)
      BY <2>2
    <3> HIDE DEF kept, new
    <3>2. kept \in Seq(Elements(kept) \cup {e}) /\ e \in Elements(kept) \cup {e}
      BY <1>3, SeqMonotonic, Zenon
    <3>3. new \in Seq(Elements(kept) \cup {e})
      BY <3>1, <3>2, AppendProperties, Zenon
    <3>4. new \in Seq(Elements(new))
      BY <3>3, OverElements, Zenon
    <3> QED BY <1>3, <3>1, <3>4, AppendEnds, Zenon
  <2> QED BY <2>1, <2>2
<1> HIDE DEF kept, new
<1>5. ASSUME NEW topic \in Subjects
      PROVE  /\ EndsWith(new, topic, Truth(q, topic))
             /\ Silent(new, topic) => Truth(p, topic) = Truth(q, topic)
  <2>1. CASE Says(e, topic) = {Truth(q, topic)}
    BY <1>4, <2>1, Zenon DEF Adds
  <2>2. CASE Says(e, topic) = {} /\ Truth(p, topic) = Truth(q, topic)
    <3>1. EndsWith(es, topic, Truth(q, topic))
      BY <2>2, Zenon DEF Before, MouseIsSound
    <3>2. EndsWith(kept, topic, Truth(q, topic))
      BY <1>3, <3>1, Zenon
    <3> HIDE DEF es
    <3>3. EndsWith(new, topic, Truth(q, topic))
      BY <1>4, <2>2, <3>1, <3>2, Zenon DEF Adds
    <3> QED BY <2>2, <3>3, Zenon
  <2> QED BY <2>1, <2>2, Zenon DEF Tells
<1> HIDE DEF es
<1>6. Sound(Requeued(q, new), c) /\ SameFrame(Requeued(q, new), q)
  BY <1>4, <1>5, RequeuedIsSound, Zenon
<1> QED BY <1>2, <1>6, Zenon

\* The same queue with another mouse.
WithMouse(r, q, x, y, left) ==
  /\ QueueShape(r) /\ r.events = q.events /\ r.lost = q.lost
  /\ r.x = x /\ r.y = y /\ r.left = left /\ r.maxX = q.maxX /\ r.maxY = q.maxY

LEMMA MouseChanges ==
  ASSUME NEW q, QueueShape(q), NEW u, NEW v
  PROVE  /\ WithMouse([q EXCEPT !.x = u, !.y = v], q, u, v, q.left)
         /\ WithMouse([q EXCEPT !.left = u], q, q.x, q.y, u)
         /\ WithMouse([q EXCEPT !.right = u], q, q.x, q.y, q.left)
BY DEF QueueShape, WithMouse, QueueFields

\* Clamping twice is clamping once.
LEMMA ClampTwice ==
  ASSUME NEW n, NEW m \in Nat
  PROVE  Clamp(Clamp(n, 0, m), 0, m) = Clamp(n, 0, m)
<1>1. CASE n < 0
  BY <1>1 DEF Clamp
<1>2. CASE ~(n < 0) /\ n > m
  BY <1>2 DEF Clamp
<1>3. CASE ~(n < 0) /\ ~(n > m)
  BY <1>3, Zenon DEF Clamp
<1> QED BY <1>1, <1>2, <1>3, Zenon

LEMMA ScreenIsNat == Clamp(Width - 1, 0, Width) \in Nat /\ Clamp(Height - 1, 0, Height) \in Nat
BY DesktopAssumption DEF Clamp

\* What the mouse or a key adds to the queue keeps it sound.
LEMMA KeysAreSound ==
  ASSUME NEW q, NEW c, Sound(q, c), NEW k
  PROVE  Sound(PushKey(q, k), c) /\ Within(PushKey(q, k), q)
<1>1. Before(q, q, c) /\ Key(k).kind = "key"
  BY DEF Sound, Before, Key
<1>2. Tells(q, q, Key(k))
  BY DEF Tells, Says, Key
<1>3. Sound(Push(q, Key(k)), c) /\ SameFrame(Push(q, Key(k)), q)
  BY <1>1, <1>2, PushIsSound, Zenon
<1> QED BY <1>3 DEF PushKey, SameFrame, Within, Framed

LEMMA MovesAreSound ==
  ASSUME NEW q, NEW c, Sound(q, c), NEW dx, NEW dy
  PROVE  Sound(AddMove(q, dx, dy), c) /\ Within(AddMove(q, dx, dy), q)
<1> DEFINE x == Clamp(q.x + dx, 0, q.maxX)
           y == Clamp(q.y + dy, 0, q.maxY)
           r == [q EXCEPT !.x = x, !.y = y]
           e == Move(x, y)
<1>1. AddMove(q, dx, dy) \in {q, Push(r, e)}
  BY DEF AddMove, PushPointer
<1>2. Framed(q) => x = Clamp(x, 0, q.maxX) /\ y = Clamp(y, 0, q.maxY)
  BY ScreenIsNat, ClampTwice, Zenon DEF Framed
<1> HIDE DEF x, y
<1>3. WithMouse(r, q, x, y, q.left)
  BY MouseChanges, Zenon DEF Sound
<1> HIDE DEF r
<1>4. Before(q, r, c) /\ e.kind = "move"
  BY <1>3 DEF Sound, Before, WithMouse, Move
<1>5. Tells(q, r, e)
  BY <1>3 DEF Tells, Says, Subjects, Truth, WithMouse, Move
<1> HIDE DEF e
<1>6. Sound(Push(r, e), c) /\ SameFrame(Push(r, e), r)
  BY <1>4, <1>5, PushIsSound, Zenon
<1>7. Within(Push(r, e), q) /\ Within(q, q)
  BY <1>2, <1>3, <1>6 DEF WithMouse, SameFrame, Within, Framed
<1> QED BY <1>1, <1>6, <1>7, Zenon

LEMMA ButtonsAreSound ==
  ASSUME NEW q, NEW c, Sound(q, c), NEW left, NEW right
  PROVE  Sound(AddButtons(q, left, right), c) /\ Within(AddButtons(q, left, right), q)
<1>1. ASSUME NEW p, Sound(p, c)
      PROVE  Sound(PushLeft(p, left), c) /\ Within(PushLeft(p, left), p)
  <2> DEFINE r == [p EXCEPT !.left = left]
             e == Button(1, left)
  <2>1. PushLeft(p, left) \in {p, Push(r, e)}
    BY DEF PushLeft
  <2>2. WithMouse(r, p, p.x, p.y, left)
    BY <1>1, MouseChanges, Zenon DEF Sound
  <2> HIDE DEF r
  <2>3. Before(p, r, c) /\ e.kind = "button"
    BY <1>1, <2>2 DEF Sound, Before, WithMouse, Button
  <2>4. Tells(p, r, e)
    BY <2>2 DEF Tells, Says, Subjects, Truth, WithMouse, Button
  <2> HIDE DEF e
  <2>5. Sound(Push(r, e), c) /\ SameFrame(Push(r, e), r)
    BY <2>3, <2>4, PushIsSound, Zenon
  <2>6. Within(Push(r, e), p) /\ Within(p, p)
    BY <2>2, <2>5 DEF WithMouse, SameFrame, Within, Framed
  <2> QED BY <1>1, <2>1, <2>5, <2>6, Zenon
<1>2. ASSUME NEW p, Sound(p, c)
      PROVE  Sound(PushRight(p, right), c) /\ Within(PushRight(p, right), p)
  <2> DEFINE r == [p EXCEPT !.right = right]
             e == Button(2, right)
  <2>1. PushRight(p, right) \in {p, Push(r, e)}
    BY DEF PushRight
  <2>2. WithMouse(r, p, p.x, p.y, p.left)
    BY <1>2, MouseChanges, Zenon DEF Sound
  <2> HIDE DEF r
  <2>3. Before(p, r, c) /\ e.kind = "button"
    BY <1>2, <2>2 DEF Sound, Before, WithMouse, Button
  <2>4. Tells(p, r, e)
    BY <2>2 DEF Tells, Says, Subjects, Truth, WithMouse, Button
  <2> HIDE DEF e
  <2>5. Sound(Push(r, e), c) /\ SameFrame(Push(r, e), r)
    BY <2>3, <2>4, PushIsSound, Zenon
  <2>6. Within(Push(r, e), p) /\ Within(p, p)
    BY <2>2, <2>5 DEF WithMouse, SameFrame, Within, Framed
  <2> QED BY <1>2, <2>1, <2>5, <2>6, Zenon
<1>3. AddButtons(q, left, right) = PushRight(PushLeft(q, left), right)
  BY DEF AddButtons
<1>4. Sound(PushLeft(q, left), c) /\ Within(PushLeft(q, left), q)
  BY <1>1, Zenon
<1>5. /\ Sound(PushRight(PushLeft(q, left), right), c)
      /\ Within(PushRight(PushLeft(q, left), right), PushLeft(q, left))
  BY <1>2, <1>4, Zenon
<1> QED BY <1>3, <1>4, <1>5, Zenon DEF Within

\* All that arrives before a call of input_poll.
LEMMA ArrivedIsSound ==
  ASSUME NEW c, Sound(queue, c), NEW r
  PROVE  Sound(Arrived(r), c) /\ Within(Arrived(r), queue)
<1> DEFINE typed == AddKeys(queue, r.keys)
           moved == AddMove(typed, r.move[1], r.move[2])
<1>1. Arrived(r) = AddButtons(moved, r.left, moved.right)
  BY DEF Arrived
<1>2. Sound(typed, c) /\ Within(typed, queue)
  <2>1. typed \in {queue, PushKey(queue, r.keys[1])} /\ Within(queue, queue)
    BY DEF AddKeys, Within
  <2> HIDE DEF typed
  <2> QED BY <2>1, KeysAreSound, Zenon
<1> HIDE DEF typed
<1>3. Sound(moved, c) /\ Within(moved, typed)
  BY <1>2, MovesAreSound, Zenon
<1> HIDE DEF moved
<1>4. Sound(Arrived(r), c) /\ Within(Arrived(r), moved)
  BY <1>1, <1>3, ButtonsAreSound, Zenon
<1> QED BY <1>2, <1>3, <1>4, Zenon DEF Within

-----------------------------------------------------------------------------
(* The server takes an event.                                              *)

\* d is c but for some fields.
Differs(d, c, fields) == ServerShape(d) /\ \A f \in ServerFields \ fields : d[f] = c[f]

Moved(d, c, e) ==
  /\ Differs(d, c, {"x", "y", "moved", "cursorDirty", "windows", "send"})
  /\ d.x = e.x /\ d.y = e.y /\ d.moved = TRUE
  /\ d.cursorDirty = (c.cursorDirty \/ <<c.x, c.y>> # <<e.x, e.y>>)
  /\ c.dragging = 0 => d.windows = c.windows
Pressed(d, c) ==
  /\ Differs(d, c, {"focused", "z", "dragging", "grip", "send", "dirty", "lastLeft"})
  /\ d.dirty = TRUE /\ d.lastLeft = TRUE
  /\ d.z = c.z \/ \E w : d.z = [c.z EXCEPT ![w] = c.frame]
Released(d, c) ==
  /\ Differs(d, c, {"dragging", "dirty", "send", "lastLeft"})
  /\ d.dragging = 0 /\ d.dirty = TRUE /\ d.lastLeft = FALSE

LEMMA KeyChanges ==
  ASSUME NEW c, ServerShape(c)
  PROVE  Differs(OnKey(c), c, {"send"})
BY DEF OnKey, Differs, ServerShape, ServerFields

LEMMA MoveChanges ==
  ASSUME NEW c, ServerShape(c), NEW e
  PROVE  Moved(OnMove(c, e), c, e)
<1> DEFINE far == c.cursorDirty \/ <<c.x, c.y>> # <<e.x, e.y>>
           there == [c EXCEPT !.x = e.x, !.y = e.y, !.moved = TRUE, !.cursorDirty = far]
           d == Dragged(there)
           to == ToPointer(there, "move")
           r == [d EXCEPT !.send = to]
<1>1. OnMove(c, e) = r
  BY DEF OnMove
<1> HIDE DEF far
<1>2. /\ Differs(there, c, {"x", "y", "moved", "cursorDirty"})
      /\ there.x = e.x /\ there.y = e.y /\ there.moved = TRUE /\ there.cursorDirty = far
  BY DEF Differs, ServerShape, ServerFields
<1> HIDE DEF there, to
<1>3. /\ Differs(d, there, {"windows"})
      /\ there.dragging = 0 => d = there
  BY <1>2 DEF Dragged, Differs, ServerShape, ServerFields
<1> HIDE DEF d
<1>4. Differs(r, d, {"send"})
  BY <1>3 DEF Differs, ServerShape, ServerFields
<1> HIDE DEF r
<1>5. /\ Differs(r, c, {"x", "y", "moved", "cursorDirty", "windows", "send"})
      /\ r.x = e.x /\ r.y = e.y /\ r.moved = TRUE /\ r.cursorDirty = far
      /\ c.dragging = 0 => r.windows = c.windows
  BY <1>2, <1>3, <1>4 DEF Differs, ServerFields
<1>6. Moved(r, c, e)
  BY <1>5 DEF far, Moved
<1> QED BY <1>1, <1>6, Zenon

LEMMA PressChanges ==
  ASSUME NEW c, ServerShape(c)
  PROVE  Pressed(OnPress(c), c)
<1> DEFINE sent == ToPointer(c, "button")
           b == BeginDragOrFocus(c)
           t == IF sent = <<>> THEN b ELSE c
           r == [t EXCEPT !.send = sent, !.dirty = TRUE, !.lastLeft = TRUE]
<1>1. OnPress(c) = r
  BY DEF OnPress
<1>2. /\ Differs(b, c, {"focused", "z", "dragging", "grip"})
      /\ b.z = c.z \/ \E w : b.z = [c.z EXCEPT ![w] = c.frame]
  <2> DEFINE w == Max(UnderPointer(c))
             at == c.windows[w]
             held == Covers(Title(at), c.x, c.y)
             u == IF held THEN w ELSE c.dragging
             v == IF held THEN <<c.x - at.x, c.y - at.y>> ELSE c.grip
             n == [c EXCEPT !.focused = w, !.z[w] = c.frame, !.dragging = u, !.grip = v]
  <2>1. b \in {c, n}
    BY DEF BeginDragOrFocus
  <2> HIDE DEF w, u, v
  <2>2. Differs(n, c, {"focused", "z", "dragging", "grip"}) /\ n.z = [c.z EXCEPT ![w] = c.frame]
    BY DEF Differs, ServerShape, ServerFields
  <2>3. Differs(c, c, {"focused", "z", "dragging", "grip"})
    BY DEF Differs
  <2> HIDE DEF n, b
  <2> QED BY <2>1, <2>2, <2>3, Zenon
<1> HIDE DEF b, sent
<1>3. /\ Differs(t, c, {"focused", "z", "dragging", "grip"})
      /\ t.z = c.z \/ \E w : t.z = [c.z EXCEPT ![w] = c.frame]
  BY <1>2 DEF Differs
<1> HIDE DEF t
<1>4. Differs(r, t, {"send", "dirty", "lastLeft"}) /\ r.dirty = TRUE /\ r.lastLeft = TRUE
  BY <1>3 DEF Differs, ServerShape, ServerFields
<1> HIDE DEF r
<1>5. r.z = t.z
  BY <1>4 DEF Differs, ServerFields
<1>6. Differs(r, c, {"focused", "z", "dragging", "grip", "send", "dirty", "lastLeft"})
  BY <1>3, <1>4 DEF Differs, ServerFields
<1>7. Pressed(r, c)
  BY <1>3, <1>4, <1>5, <1>6, Zenon DEF Pressed
<1> QED BY <1>1, <1>7, Zenon

LEMMA ReleaseChanges ==
  ASSUME NEW c, ServerShape(c)
  PROVE  Released(OnRelease(c), c)
<1> DEFINE sent == ToPointer(c, "button")
           r == [c EXCEPT !.dragging = 0, !.dirty = TRUE, !.send = sent, !.lastLeft = FALSE]
<1>1. OnRelease(c) = r
  BY DEF OnRelease
<1> HIDE DEF sent
<1>2. Released(r, c)
  BY DEF Released, Differs, ServerShape, ServerFields
<1> QED BY <1>1, <1>2, Zenon

\* Whatever the server knew of the button, it now knows this.
Left(d, c, pressed) ==
  /\ Differs(d, c, {"focused", "z", "dragging", "grip", "send", "dirty", "lastLeft"})
  /\ d.lastLeft <=> pressed
  /\ \/ d.dragging = 0 \/ d.lastLeft
     \/ d.dragging = c.dragging /\ d.lastLeft = c.lastLeft
  /\ \/ d = c
     \/ d.dirty = TRUE /\ (d.z = c.z \/ \E w : d.z = [c.z EXCEPT ![w] = c.frame])

LEMMA LeftChanges ==
  ASSUME NEW c, ServerShape(c), NEW pressed
  PROVE  Left(OnLeft(c, pressed), c, pressed)
<1> DEFINE d == OnLeft(c, pressed)
<1>1. CASE pressed /\ ~c.lastLeft
  <2>1. d = OnPress(c)
    BY <1>1 DEF OnLeft
  <2> HIDE DEF d
  <2>2. Pressed(d, c)
    BY <2>1, PressChanges, Zenon
  <2>3. Left(d, c, pressed)
    BY <1>1, <2>2 DEF Pressed, Left
  <2> QED BY <2>3 DEF d
<1>2. CASE ~pressed /\ c.lastLeft
  <2>1. d = OnRelease(c)
    BY <1>2 DEF OnLeft
  <2> HIDE DEF d
  <2>2. Released(d, c)
    BY <2>1, ReleaseChanges, Zenon
  <2>3. Left(d, c, pressed)
    BY <1>2, <2>2 DEF Released, Left, Differs, ServerFields
  <2> QED BY <2>3 DEF d
<1>3. CASE pressed <=> c.lastLeft
  <2>1. d = c
    BY <1>3 DEF OnLeft
  <2>2. Left(c, c, pressed)
    BY <1>3 DEF Left, Differs
  <2> QED BY <2>1, <2>2
<1> QED BY <1>1, <1>2, <1>3

\* What the event e tells c, d knows; and what c knew, unless e says otherwise.
Learns(d, c, e, topic, v) ==
  /\ Says(e, topic) = {v} => Knows(d, topic, v)
  /\ Says(e, topic) = {} /\ Knows(c, topic, v) => Knows(d, topic, v)

LEMMA HandledLearns ==
  ASSUME NEW c, ServerShape(c), DragsHeld(c), NEW e, NEW topic \in Subjects, NEW v
  PROVE  /\ ServerShape(Handled(c, e)) /\ DragsHeld(Handled(c, e))
         /\ Learns(Handled(c, e), c, e, topic, v)
<1> DEFINE d == Handled(c, e)
<1>1. ASSUME e.kind = "key"
      PROVE  ServerShape(d) /\ DragsHeld(d) /\ Learns(d, c, e, topic, v)
  <2>1. d = OnKey(c)
    BY <1>1 DEF Handled
  <2>2. Says(e, topic) = {}
    BY <1>1 DEF Says
  <2> HIDE DEF d
  <2>3. ServerShape(d) /\ d.x = c.x /\ d.y = c.y /\ d.moved = c.moved /\ d.clicked = c.clicked
        /\ d.lastLeft = c.lastLeft /\ d.dragging = c.dragging
    BY <2>1, KeyChanges DEF Differs, ServerFields
  <2> QED BY <2>2, <2>3 DEF Learns, Knows, DragsHeld
<1>2. ASSUME e.kind = "move"
      PROVE  ServerShape(d) /\ DragsHeld(d) /\ Learns(d, c, e, topic, v)
  <2>1. d = OnMove(c, e)
    BY <1>2 DEF Handled
  <2>2. /\ topic = "pointer" => Says(e, topic) = {<<e.x, e.y>>}
        /\ topic = "left" => Says(e, topic) = {}
    BY <1>2 DEF Says
  <2> HIDE DEF d
  <2>3. ServerShape(d) /\ d.x = e.x /\ d.y = e.y /\ d.moved = TRUE /\ d.lastLeft = c.lastLeft
        /\ d.clicked = c.clicked /\ d.dragging = c.dragging
    <3>1. Moved(d, c, e)
      BY <2>1, MoveChanges, Zenon
    <3> QED BY <3>1 DEF Moved, Differs, ServerFields
  <2> QED BY <2>2, <2>3 DEF Learns, Knows, DragsHeld, Subjects
<1>3. ASSUME e.kind = "button", e.button = 1
      PROVE  ServerShape(d) /\ DragsHeld(d) /\ Learns(d, c, e, topic, v)
  <2> DEFINE b == [c EXCEPT !.clicked = TRUE]
  <2>1. d = OnLeft(b, e.pressed)
    BY <1>3 DEF Handled
  <2>2. Differs(b, c, {"clicked"}) /\ b.clicked = TRUE
    BY DEF Differs, ServerShape, ServerFields
  <2>3. /\ topic = "pointer" => Says(e, topic) = {}
        /\ topic = "left" => Says(e, topic) = {Button1(e.pressed)}
    BY <1>3 DEF Says
  <2> HIDE DEF d, b
  <2>4. Left(d, b, e.pressed)
    BY <2>1, <2>2, LeftChanges, Zenon DEF Differs
  <2>5. /\ ServerShape(d) /\ d.x = c.x /\ d.y = c.y /\ d.moved = c.moved /\ d.clicked = TRUE
        /\ d.lastLeft <=> e.pressed
        /\ (d.dragging = 0 \/ d.lastLeft \/ (d.dragging = c.dragging /\ d.lastLeft = c.lastLeft))
    BY <2>2, <2>4 DEF Left, Differs, ServerFields
  <2> QED BY <2>3, <2>5 DEF Learns, Knows, DragsHeld, Subjects, Button1
<1>4. ASSUME e.kind # "key", e.kind # "move", ~(e.kind = "button" /\ e.button = 1)
      PROVE  ServerShape(d) /\ DragsHeld(d) /\ Learns(d, c, e, topic, v)
  <2>1. d = c
    BY <1>4 DEF Handled
  <2>2. Says(e, topic) = {}
    BY <1>4 DEF Says
  <2> HIDE DEF d
  <2> QED BY <2>1, <2>2 DEF Learns
<1> QED BY <1>1, <1>2, <1>3, <1>4

\* What knows as much of the mouse is as sound.
SameMouse(d, c) ==
  /\ ServerShape(d) /\ d.x = c.x /\ d.y = c.y /\ d.moved = c.moved /\ d.clicked = c.clicked
  /\ d.lastLeft = c.lastLeft /\ d.dragging = c.dragging

LEMMA SameMouseInformed ==
  ASSUME NEW q, NEW c, NEW d, SameMouse(d, c), Informed(q, c)
  PROVE  Informed(q, d)
<1>1. \A topic, v : Knows(c, topic, v) => Knows(d, topic, v)
  BY DEF SameMouse, Knows
<1>2. ServerShape(d) /\ DragsHeld(d)
  BY DEF SameMouse, DragsHeld, Informed
<1>3. MouseIsSound(q, d)
  BY <1>1, Zenon DEF Informed, Sound, MouseIsSound
<1> QED BY <1>2, <1>3 DEF Informed, Sound

\* Nothing is silently wrong in a queue whose events end with the truth, for a server
\* that has heard nothing where nothing was there to be heard.
Honest(q) == QueueShape(q) /\ \A topic \in Subjects : EndsWith(q.events, topic, Truth(q, topic))

LEMMA FreshIsInformed ==
  ASSUME NEW q, NEW c, Fresh(c), Honest(q)
  PROVE  Informed(q, c)
<1>1. ASSUME NEW topic, NEW v PROVE Knows(c, topic, v)
  BY DEF Fresh, Knows
<1>2. DragsHeld(c) /\ ServerShape(c)
  BY DEF Fresh, DragsHeld
<1>3. MouseIsSound(q, c)
  BY <1>1, Zenon DEF MouseIsSound, Honest
<1> QED BY <1>2, <1>3 DEF Informed, Sound, Honest

LEMMA InformedIsHonest ==
  ASSUME NEW q, NEW c, Informed(q, c)
  PROVE  Honest(q)
BY Zenon DEF Informed, Sound, MouseIsSound, Honest

LEMMA NoServerIsFresh == Fresh(NoServer) /\ NoServer.pc = "none"
<1>1. StartPointer = <<StartPointer[1], StartPointer[2]>>
  BY DesktopAssumption
<1>2. NoServer.x = StartPointer[1] /\ NoServer.y = StartPointer[2]
  BY DEF NoServer
<1> QED BY <1>1, <1>2 DEF Fresh, NoServer, ServerShape, ServerFields

LEMMA NoServerIsReady ==
  ASSUME NEW q, Honest(q)
  PROVE  Ready(q, NoServer)
BY NoServerIsFresh, FreshIsInformed, Zenon DEF Ready

\* The oldest event is taken by the server
LEMMA PolledInforms ==
  ASSUME NEW q, NEW c, Informed(q, c), q.events # <<>>
  PROVE  /\ Informed(Polled(q), Handled(c, Head(q.events)))
         /\ Within(Polled(q), q) /\ Honest(Release(Polled(q)))
<1> DEFINE es == q.events
           e == Head(es)
           d == Handled(c, e)
           p == Polled(q)
           r == Release(p)
           rest == Tail(es)
<1>1. QueueShape(q) /\ MouseIsSound(q, c) /\ ServerShape(c) /\ DragsHeld(c)
  BY DEF Informed, Sound
<1>2. es \in Seq(Elements(es)) /\ rest \in Seq(Elements(rest))
  BY <1>1, TailElements DEF QueueShape
<1>3. WithEvents(p, q, rest, q.lost)
  <2>1. p = [q EXCEPT !.events = rest]
    BY DEF Polled
  <2> QED BY <1>1, <2>1, EventsChange, Zenon
<1> HIDE DEF p
<1>4. WithEvents(r, q, rest, q.lost)
  BY <1>3 DEF Release, WithEvents, QueueFields, SameFrame
<1> HIDE DEF r
<1>5. ServerShape(d) /\ DragsHeld(d) /\ QueueShape(p) /\ QueueShape(r)
  <2>1. "left" \in Subjects
    BY DEF Subjects
  <2>2. ServerShape(d) /\ DragsHeld(d)
    BY <1>1, <2>1, HandledLearns, Zenon
  <2> QED BY <1>2, <1>3, <1>4, <2>2 DEF WithEvents, QueueShape
<1>6. ASSUME NEW topic \in Subjects
      PROVE  /\ EndsWith(rest, topic, Truth(q, topic))
             /\ Silent(rest, topic) /\ topic \notin q.lost => Knows(d, topic, Truth(q, topic))
  <2> DEFINE v == Truth(q, topic)
  <2>1. EndsWith(es, topic, v) /\ (Silent(es, topic) /\ topic \notin q.lost => Knows(c, topic, v))
    BY <1>1, Zenon DEF MouseIsSound
  <2>2. /\ EndsWith(rest, topic, v)
        /\ Silent(rest, topic) => Silent(es, topic) \/ Says(e, topic) = {v}
    <3> HIDE DEF v, es
    <3> QED BY <1>2, <2>1, TailEnds, Zenon DEF es
  <2>3. Silent(es, topic) => Says(e, topic) = {}
    <3>1. 1 \in DOMAIN es /\ e = es[1]
      BY <1>2, EmptySeq
    <3> QED BY <3>1 DEF Silent
  <2>4. Learns(d, c, e, topic, v)
    BY <1>1, HandledLearns, Zenon
  <2> HIDE DEF v, d, e, rest, es
  <2> QED BY <2>1, <2>2, <2>3, <2>4, Zenon DEF Learns, v
<1>7. \A topic : Truth(p, topic) = Truth(q, topic) /\ Truth(r, topic) = Truth(q, topic)
  BY <1>3, <1>4 DEF WithEvents, Truth, SameFrame
<1> HIDE DEF d, rest
<1>8. MouseIsSound(p, d)
  <2>1. p.lost = q.lost /\ p.events = rest
    BY <1>3 DEF WithEvents
  <2> QED BY <1>6, <1>7, <2>1, Zenon DEF MouseIsSound
<1>9. Honest(r)
  <2>1. r.events = rest
    BY <1>4 DEF WithEvents
  <2> QED BY <1>5, <1>6, <1>7, <2>1, Zenon DEF Honest
<1>10. Informed(p, d) /\ Within(p, q)
  BY <1>3, <1>5, <1>8 DEF Informed, Sound, WithEvents, SameFrame, Within, Framed
<1> QED BY <1>9, <1>10 DEF p, r, d

\* or by somebody else,
LEMMA PolledAwayInforms ==
  ASSUME NEW q, NEW c, Informed(q, c)
  PROVE  Informed(PolledAway(q), c) /\ Within(PolledAway(q), q)
<1> DEFINE es == q.events
           rest == Tail(es)
<1>1. CASE es = <<>>
  BY <1>1 DEF PolledAway, Within
<1>2. CASE es # <<>>
  <2>1. PolledAway(q) = Requeued(q, rest)
    BY <1>2 DEF PolledAway
  <2>2. Before(q, q, c) /\ es \in Seq(Elements(es)) /\ MouseIsSound(q, c)
    BY DEF Informed, Sound, Before, QueueShape
  <2>3. rest \in Seq(Elements(rest))
    BY <1>2, <2>2, TailElements
  <2>4. \A topic \in Subjects : EndsWith(rest, topic, Truth(q, topic))
    <3>1. \A topic \in Subjects : EndsWith(es, topic, Truth(q, topic))
      BY <2>2, Zenon DEF MouseIsSound
    <3> HIDE DEF es
    <3> QED BY <1>2, <2>2, <3>1, TailEnds, Zenon
  <2> HIDE DEF rest
  <2>5. Sound(Requeued(q, rest), c) /\ SameFrame(Requeued(q, rest), q)
    BY <2>2, <2>3, <2>4, RequeuedIsSound, Zenon
  <2> QED BY <2>1, <2>5 DEF Informed, SameFrame, Within, Framed
<1> QED BY <1>1, <1>2

\* and a process that takes the console takes them all.
LEMMA CaptureInforms ==
  ASSUME NEW q, QueueShape(q)
  PROVE  LET r == Capture(ClampPointer(q, Width, Height))
         IN /\ Honest(r) /\ Framed(r)
            /\ \A c : Informed(q, c) /\ Framed(q) => Informed(r, c)
<1> DEFINE maxX == Clamp(Width - 1, 0, Width)
           maxY == Clamp(Height - 1, 0, Height)
           p == ClampPointer(q, Width, Height)
           b == Requeued(p, <<>>)
           r == Capture(p)
<1>1. /\ QueueShape(p) /\ p.events = q.events /\ p.lost = q.lost /\ p.left = q.left
      /\ p.maxX = maxX /\ p.maxY = maxY /\ p.x = Clamp(q.x, 0, maxX) /\ p.y = Clamp(q.y, 0, maxY)
  <2> HIDE DEF maxX, maxY
  <2>1. p = [q EXCEPT !.maxX = maxX, !.maxY = maxY, !.x = Clamp(q.x, 0, maxX), !.y = Clamp(q.y, 0, maxY)]
    BY DEF ClampPointer, maxX, maxY, QueueShape, QueueFields
  <2> HIDE DEF p
  <2> QED BY <2>1 DEF QueueShape, QueueFields
<1>2. Framed(p)
  <2>1. maxX \in Nat /\ maxY \in Nat
    BY ScreenIsNat
  <2> HIDE DEF p, maxX, maxY
  <2>2. p.x = Clamp(p.x, 0, p.maxX) /\ p.y = Clamp(p.y, 0, p.maxY)
    BY <1>1, <2>1, ClampTwice, Zenon
  <2> QED BY <1>1, <2>2 DEF Framed, maxX, maxY
<1> HIDE DEF p, maxX, maxY
<1>3. <<>> \in Seq(Elements(<<>>)) /\ \A topic, v : EndsWith(<<>>, topic, v)
  BY EmptySeq DEF EndsWith
<1>4. WithEvents(b, p, <<>>, b.lost)
  <2>1. WithEvents(b, p, <<>>, (p.lost \cup Topics(p.events)) \ Topics(<<>>))
    BY <1>1, EventsChange, Zenon
  <2> HIDE DEF b
  <2> QED BY <2>1 DEF WithEvents
<1> HIDE DEF b
<1>5. r = [b EXCEPT !.captured = TRUE]
  BY DEF Capture, b
<1> HIDE DEF r
<1>6. WithEvents(r, p, <<>>, b.lost)
  BY <1>4, <1>5 DEF WithEvents, QueueFields, SameFrame
<1>7. QueueShape(r) /\ Honest(r) /\ Framed(r)
  BY <1>2, <1>3, <1>6 DEF WithEvents, QueueShape, Honest, SameFrame, Framed
<1>8. ASSUME NEW c, Informed(q, c), Framed(q)
      PROVE  Informed(r, c)
  <2>1. p.x = q.x /\ p.y = q.y
    BY <1>1, <1>8 DEF Framed, maxX, maxY
  <2>2. \A topic : Truth(p, topic) = Truth(q, topic) /\ Truth(b, topic) = Truth(r, topic)
    BY <1>1, <1>4, <1>6, <2>1 DEF Truth, WithEvents, SameFrame
  <2>3. Before(q, p, c)
    BY <1>1, <1>8 DEF Before, Informed, Sound
  <2>4. Sound(b, c)
    <3>1. \A topic \in Subjects : EndsWith(<<>>, topic, Truth(p, topic))
                                /\ (Silent(<<>>, topic) => Truth(q, topic) = Truth(p, topic))
      BY <1>3, <2>2
    <3>2. Sound(Requeued(p, <<>>), c)
      BY <1>3, <2>3, <3>1, RequeuedIsSound, Zenon
    <3> QED BY <3>2 DEF b
  <2>5. MouseIsSound(r, c)
    BY <1>4, <1>6, <2>2, <2>4, Zenon DEF Sound, MouseIsSound, WithEvents
  <2> QED BY <1>7, <1>8, <2>5 DEF Informed, Sound
<1> QED BY <1>7, <1>8 DEF r, p

-----------------------------------------------------------------------------
(* The steps of the server.                                                *)

LEMMA OnwardChanges ==
  ASSUME NEW c, ServerShape(c), NEW n
  PROVE  /\ Differs(Onward([c EXCEPT !.polls = n]), c, {"pc", "polls"})
         /\ Onward([c EXCEPT !.polls = n]).polls = n
         /\ Onward([c EXCEPT !.polls = n]).pc # "none"
         /\ Differs(Onward([c EXCEPT !.send = <<>>]), c, {"pc", "send"})
         /\ Onward([c EXCEPT !.send = <<>>]).pc \in {"poll", "sync"}
<1> DEFINE at(d) == IF d.send # <<>> THEN "send" ELSE IF d.polls < MaxPolls THEN "poll" ELSE "sync"
           a == [c EXCEPT !.polls = n]
           b == [c EXCEPT !.send = <<>>]
<1>1. Onward(a) = [a EXCEPT !.pc = at(a)] /\ Onward(b) = [b EXCEPT !.pc = at(b)]
  BY DEF Onward
<1>2. Differs(a, c, {"polls"}) /\ a.polls = n /\ Differs(b, c, {"send"}) /\ b.send = <<>>
  BY DEF Differs, ServerShape, ServerFields
<1>3. at(b) \in {"poll", "sync"} /\ at(a) # "none"
  BY <1>2
<1> HIDE DEF a, b, at
<1>4. Differs(Onward(a), a, {"pc"}) /\ Onward(a).pc = at(a)
  BY <1>1, <1>2 DEF Differs, ServerShape, ServerFields
<1>5. Differs(Onward(b), b, {"pc"}) /\ Onward(b).pc = at(b)
  BY <1>1, <1>2 DEF Differs, ServerShape, ServerFields
<1>6. Differs(Onward(a), c, {"pc", "polls"}) /\ Onward(a).polls = n
  BY <1>2, <1>4 DEF Differs, ServerFields
<1>7. Differs(Onward(b), c, {"pc", "send"})
  BY <1>2, <1>5 DEF Differs, ServerFields
<1> QED BY <1>3, <1>4, <1>5, <1>6, <1>7 DEF a, b

\* A composition shows the layout and the cursor; a small update the cursor alone.
LEMMA ComposedChanges ==
  ASSUME NEW c, ServerShape(c)
  PROVE  /\ Differs(Composed(c), c, {"drawn", "cursor", "dirty"})
         /\ Composed(c).drawn = Layout(c) /\ Composed(c).cursor = <<c.x, c.y>>
         /\ Composed(c).dirty = FALSE
<1> DEFINE layout == Layout(c)
           r == [c EXCEPT !.drawn = layout, !.cursor = <<c.x, c.y>>, !.dirty = FALSE]
<1>1. Composed(c) = r
  BY DEF Composed
<1> HIDE DEF layout
<1>2. /\ Differs(r, c, {"drawn", "cursor", "dirty"})
      /\ r.drawn = layout /\ r.cursor = <<c.x, c.y>> /\ r.dirty = FALSE
  BY DEF Differs, ServerShape, ServerFields
<1> QED BY <1>1, <1>2, Zenon DEF layout

LEMMA ShownChanges ==
  ASSUME NEW c, ServerShape(c)
  PROVE  /\ Differs(Shown(c), c, {"drawn", "cursor", "dirty", "cursorDirty"})
         /\ ~Shown(c).dirty
         /\ c.dirty => Shown(c).drawn = Layout(c) /\ Shown(c).cursor = <<c.x, c.y>>
         /\ ~c.dirty => Shown(c).drawn = c.drawn
         /\ ~c.dirty /\ c.cursorDirty => Shown(c).cursor = <<c.x, c.y>>
         /\ ~c.dirty /\ ~c.cursorDirty => Shown(c).cursor = c.cursor
<1> DEFINE r == Shown(c)
<1>1. CASE c.dirty
  <2>1. r = Composed(c)
    BY <1>1 DEF Shown
  <2> HIDE DEF r
  <2>2. Differs(r, c, {"drawn", "cursor", "dirty"}) /\ r.drawn = Layout(c)
        /\ r.cursor = <<c.x, c.y>> /\ r.dirty = FALSE
    BY <2>1, ComposedChanges, Zenon
  <2>3. Differs(r, c, {"drawn", "cursor", "dirty", "cursorDirty"})
    BY <2>2 DEF Differs
  <2> QED BY <1>1, <2>2, <2>3 DEF r
<1>2. CASE ~c.dirty /\ c.cursorDirty
  <2>1. r = [c EXCEPT !.cursor = <<c.x, c.y>>, !.cursorDirty = FALSE]
    BY <1>2 DEF Shown
  <2> HIDE DEF r
  <2>2. Differs(r, c, {"cursor", "cursorDirty"}) /\ r.cursor = <<c.x, c.y>>
    BY <2>1 DEF Differs, ServerShape, ServerFields
  <2>3. /\ Differs(r, c, {"drawn", "cursor", "dirty", "cursorDirty"})
        /\ r.drawn = c.drawn /\ r.dirty = c.dirty
    BY <2>2 DEF Differs, ServerFields
  <2> QED BY <1>2, <2>2, <2>3 DEF r
<1>3. CASE ~c.dirty /\ ~c.cursorDirty
  <2>1. r = c
    BY <1>3 DEF Shown
  <2>2. Differs(c, c, {"drawn", "cursor", "dirty", "cursorDirty"})
    BY DEF Differs
  <2> QED BY <1>3, <2>1, <2>2
<1> QED BY <1>1, <1>2, <1>3

LEMMA FrameChanges ==
  ASSUME NEW c, ServerShape(c)
  PROVE  /\ Differs(NextFrame(c), c, {"z", "frame"})
         /\ NextFrame(c).z = Ranks(c.z)
         /\ LET ranks == Ranks(c.z)
                above == 1 + Max({ranks[w] : w \in DOMAIN ranks})
            IN NextFrame(c).frame \in {above, c.frame + 1}
<1> DEFINE z == Ranks(c.z)
           above == 1 + Max({z[w] : w \in DOMAIN z})
           f == IF c.frame + 1 > above THEN above ELSE c.frame + 1
           r == [c EXCEPT !.z = z, !.frame = f]
<1>1. NextFrame(c) = r
  BY DEF NextFrame
<1>2. f \in {above, c.frame + 1}
  OBVIOUS
<1> HIDE DEF z, above, f
<1>3. Differs(r, c, {"z", "frame"}) /\ r.z = z /\ r.frame = f
  BY DEF Differs, ServerShape, ServerFields
<1> QED BY <1>1, <1>2, <1>3, Zenon DEF z, above

LEMMA SyncedChanges ==
  ASSUME NEW c, ServerShape(c), NEW visible, NEW slots
  PROVE  LET kept == Kept(c, visible, slots)
             new == NewIds(c, visible)
             d == Synced(c, visible, slots)
         IN /\ Differs(d, c, {"external", "dirty"})
            /\ d.external = kept \o Added(new, Len(kept), slots)
            /\ d.dirty = (c.dirty \/ new # <<>> \/ ~(Ids(c.external) \subseteq visible))
<1> DEFINE kept == Kept(c, visible, slots)
           new == NewIds(c, visible)
           es == kept \o Added(new, Len(kept), slots)
           far == c.dirty \/ new # <<>> \/ ~(Ids(c.external) \subseteq visible)
           r == [c EXCEPT !.external = es, !.dirty = far]
<1>1. Synced(c, visible, slots) = r
  BY DEF Synced
<1> HIDE DEF es, far
<1>2. Differs(r, c, {"external", "dirty"}) /\ r.external = es /\ r.dirty = far
  BY DEF Differs, ServerShape, ServerFields
<1> QED BY <1>1, <1>2, Zenon DEF es, far

-----------------------------------------------------------------------------
(* What the server knows of the mouse, from step to step.                  *)

LEMMA AfterMouse ==
  ASSUME Ready(queue', server')
  PROVE  MouseInv'
BY DEF MouseInv, Ready, Informed, Sound, QueueShape, Elements, ServerShape, DragsHeld, MouseIsSound,
       EndsWith, Silent, Truth, Knows, Button1, Framed, Fresh

LEMMA InitInforms == Init => MouseInv
<1> SUFFICES ASSUME Init PROVE MouseInv
  OBVIOUS
<1>1. queue = NewQueue /\ server = NoServer
  BY DEF Init
<1>2. QueueShape(NewQueue) /\ NewQueue.events = <<>>
  <2>1. <<>> \in Seq(Elements(<<>>))
    BY EmptySeq, Zenon
  <2>2. NewQueue.events = <<>> /\ NewQueue = [f \in QueueFields |-> NewQueue[f]]
    BY DEF NewQueue, QueueFields
  <2> HIDE DEF NewQueue
  <2> QED BY <2>1, <2>2, Zenon DEF QueueShape
<1>3. Honest(NewQueue)
  BY <1>2 DEF EndsWith, Honest
<1> QED BY <1>1, <1>3, NoServerIsReady, Zenon DEF MouseInv

\* The server starts with an empty queue.
LEMMA StartInforms ==
  ASSUME NEW q, QueueShape(q)
  PROVE  Ready([Capture(ClampPointer(q, Width, Height)) EXCEPT !.lost = {}],
               [Composed(NoServer) EXCEPT !.pc = "poll"])
<1> DEFINE b == Capture(ClampPointer(q, Width, Height))
           r == [b EXCEPT !.lost = {}]
           d == Composed(NoServer)
           c == [d EXCEPT !.pc = "poll"]
<1>1. Honest(b) /\ Framed(b)
  BY CaptureInforms
<1> HIDE DEF b
<1>2. Honest(r) /\ Framed(r)
  BY <1>1 DEF Honest, QueueShape, QueueFields, Framed, Truth
<1>3. Fresh(c) /\ c.pc = "poll"
  <2>1. Fresh(NoServer)
    BY NoServerIsFresh
  <2>2. Differs(d, NoServer, {"drawn", "cursor", "dirty"})
    BY <2>1, ComposedChanges, Zenon DEF Fresh
  <2> HIDE DEF d
  <2>3. Fresh(d)
    BY <2>1, <2>2 DEF Fresh, Differs, ServerFields
  <2> QED BY <2>3 DEF Fresh, ServerShape, ServerFields
<1> HIDE DEF c, r
<1>4. Informed(r, c)
  BY <1>2, <1>3, FreshIsInformed, Zenon
<1>5. Ready(r, c)
  BY <1>2, <1>3, <1>4 DEF Ready
<1> QED BY <1>5 DEF r, b, c

\* A process ends: if it was the server, nobody is left who could be wrong.
LEMMA ReleaseInforms ==
  ASSUME NEW q, NEW c, Ready(q, c)
  PROVE  Ready(Release(q), c) /\ Ready(Release(q), NoServer)
<1> DEFINE r == Release(q)
<1>1. r = [q EXCEPT !.captured = FALSE] /\ QueueShape(q) /\ MouseIsSound(q, c)
  BY DEF Release, Ready, Informed, Sound
<1> HIDE DEF r
<1>2. WithEvents(r, q, q.events, q.lost)
  BY <1>1 DEF WithEvents, QueueShape, QueueFields, SameFrame
<1>3. QueueShape(r) /\ r.events = q.events /\ r.lost = q.lost
  BY <1>1, <1>2 DEF WithEvents, QueueShape
<1>4. \A topic : Truth(r, topic) = Truth(q, topic)
  BY <1>2 DEF WithEvents, Truth, SameFrame
<1>5. MouseIsSound(r, c)
  BY <1>1, <1>3, <1>4, Zenon DEF MouseIsSound
<1>6. Informed(r, c)
  BY <1>3, <1>5 DEF Ready, Informed, Sound
<1>7. Ready(r, NoServer)
  BY <1>6, InformedIsHonest, NoServerIsReady, Zenon
<1>8. Framed(q) => Framed(r)
  BY <1>2 DEF WithEvents, SameFrame, Framed
<1>9. Ready(r, c)
  BY <1>6, <1>8 DEF Ready
<1> QED BY <1>7, <1>9 DEF r

\* Whoever calls, a server that was ready stays ready as its queue changes.
LEMMA QueueInforms ==
  ASSUME NEW q, NEW r, NEW c, Ready(q, c), Informed(r, c), Within(r, q)
  PROVE  Ready(r, c)
BY Zenon DEF Ready, Within

LEMMA TakeInforms ==
  ASSUME NEW q, Informed(q, server), Framed(q), server.pc # "none", TakeEvent(q)
  PROVE  Ready(queue', server')
<1>1. ServerShape(server)
  BY DEF Informed
<1>2. CASE q.events = <<>> /\ queue' = q /\ server' = [server EXCEPT !.pc = "sync"]
  <2> DEFINE d == [server EXCEPT !.pc = "sync"]
  <2>1. SameMouse(d, server) /\ d.pc = "sync"
    BY <1>1 DEF SameMouse, ServerShape, ServerFields
  <2> HIDE DEF d
  <2>2. Informed(q, d)
    BY <2>1, SameMouseInformed, Zenon
  <2>3. Ready(q, d)
    BY <2>1, <2>2 DEF Ready
  <2> QED BY <1>2, <2>3 DEF d
<1>3. CASE /\ q.events # <<>> /\ queue' = Polled(q)
           /\ \E c \in {Handled(server, Head(q.events))} :
                server' = Onward([c EXCEPT !.polls = @ + 1])
  <2> DEFINE c == Handled(server, Head(q.events))
             n == c.polls + 1
             d == Onward([c EXCEPT !.polls = n])
  <2>1. server' = d
    BY <1>3
  <2>2. Informed(Polled(q), c) /\ Within(Polled(q), q)
    BY <1>3, PolledInforms, Zenon
  <2> HIDE DEF c, n
  <2>3. Differs(d, c, {"pc", "polls"}) /\ d.pc # "none"
    BY <2>2, OnwardChanges DEF Informed
  <2> HIDE DEF d
  <2>4. SameMouse(d, c)
    BY <2>3 DEF Differs, SameMouse, ServerFields
  <2>5. Informed(Polled(q), d)
    BY <2>2, <2>4, SameMouseInformed, Zenon
  <2>6. Ready(Polled(q), d)
    BY <2>2, <2>3, <2>5 DEF Ready, Within
  <2> QED BY <1>3, <2>1, <2>6, Zenon
<1>4. CASE q.events # <<>> /\ queue' = Release(Polled(q)) /\ server' = NoServer
  <2>1. Honest(Release(Polled(q)))
    BY <1>4, PolledInforms, Zenon
  <2> QED BY <1>4, <2>1, NoServerIsReady, Zenon
<1> QED BY <1>2, <1>3, <1>4, Zenon DEF TakeEvent

LEMMA SendInforms ==
  ASSUME Ready(queue, server), SendEvent
  PROVE  Ready(queue', server')
<1> DEFINE d == Onward([server EXCEPT !.send = <<>>])
<1>1. server' = d /\ queue' = queue /\ ServerShape(server) /\ server.pc = "send"
  BY DEF SendEvent, Ready, Informed
<1>2. Differs(d, server, {"pc", "send"}) /\ d.pc \in {"poll", "sync"}
  BY <1>1, OnwardChanges, Zenon
<1> HIDE DEF d
<1>3. SameMouse(d, server)
  BY <1>2 DEF Differs, SameMouse, ServerFields
<1>4. Informed(queue, d)
  BY <1>3, SameMouseInformed, Zenon DEF Ready
<1>5. Ready(queue, d)
  BY <1>1, <1>2, <1>4 DEF Ready
<1> QED BY <1>1, <1>5

\* What a round ends with.
EndOfRound(c, visible, slots) ==
  [NextFrame(Shown(Synced(c, visible, slots))) EXCEPT !.pc = "poll", !.polls = 0]

LEMMA RoundChanges ==
  ASSUME NEW c, ServerShape(c), NEW visible, NEW slots
  PROVE  LET synced == Synced(c, visible, slots)
             shown == Shown(synced)
             next == NextFrame(shown)
             d == EndOfRound(c, visible, slots)
         IN /\ ServerShape(synced) /\ ServerShape(shown)
            /\ Differs(next, shown, {"z", "frame"})
            /\ Differs(d, next, {"pc", "polls"}) /\ d.pc = "poll" /\ d.polls = 0
            /\ SameMouse(d, c)
<1> DEFINE synced == Synced(c, visible, slots)
           shown == Shown(synced)
           next == NextFrame(shown)
           d == EndOfRound(c, visible, slots)
<1>1. Differs(synced, c, {"external", "dirty"})
  BY SyncedChanges
<1> HIDE DEF synced
<1>2. Differs(shown, synced, {"drawn", "cursor", "dirty", "cursorDirty"})
  BY <1>1, ShownChanges, Zenon DEF Differs
<1> HIDE DEF shown
<1>3. Differs(next, shown, {"z", "frame"})
  BY <1>2, FrameChanges DEF Differs
<1>4. d = [next EXCEPT !.pc = "poll", !.polls = 0]
  BY DEF EndOfRound, shown, synced
<1> HIDE DEF next, d
<1>5. Differs(d, next, {"pc", "polls"}) /\ d.pc = "poll" /\ d.polls = 0
  BY <1>3, <1>4 DEF Differs, ServerShape, ServerFields
<1>6. SameMouse(d, c)
  BY <1>1, <1>2, <1>3, <1>5 DEF Differs, SameMouse, ServerFields
<1>7. ServerShape(synced) /\ ServerShape(shown)
  BY <1>1, <1>2 DEF Differs
<1> QED BY <1>3, <1>5, <1>6, <1>7 DEF d, next, shown, synced

LEMMA SyncInforms ==
  ASSUME Ready(queue, server), Sync
  PROVE  Ready(queue', server')
<1> DEFINE d == EndOfRound(server, Visible(surfaces), surfaces.slots)
<1>1. server' = d /\ queue' = queue /\ ServerShape(server) /\ server.pc = "sync"
  BY DEF Sync, EndOfRound, Ready, Informed
<1>2. SameMouse(d, server) /\ d.pc = "poll"
  BY <1>1, RoundChanges
<1> HIDE DEF d
<1>3. Informed(queue, d)
  BY <1>2, SameMouseInformed, Zenon DEF Ready
<1>4. Ready(queue, d)
  BY <1>1, <1>2, <1>3 DEF Ready
<1> QED BY <1>1, <1>4

\* A client that makes a call of a display takes events, all or one.
LEMMA DisplayInforms ==
  ASSUME Ready(queue, server), NEW p, DisplayCall(p)
  PROVE  Ready(queue', server')
<1>1. server' = server /\ Sound(queue, server) /\ Informed(queue, server)
  BY DEF DisplayCall, Ready, Informed
<1>2. CASE TakeConsole(p)
  <2> DEFINE r == Capture(ClampPointer(queue, Width, Height))
  <2>1. queue' = r
    BY <1>2 DEF TakeConsole
  <2>2. Honest(r) /\ Framed(r) /\ (Framed(queue) => Informed(r, server))
    BY <1>1, CaptureInforms DEF Sound
  <2> HIDE DEF r
  <2>3. CASE server.pc = "none"
    <3>1. Fresh(server)
      BY <2>3 DEF Ready
    <3>2. Informed(r, server)
      BY <2>2, <3>1, FreshIsInformed, Zenon
    <3> QED BY <1>1, <2>1, <2>3, <3>1, <3>2 DEF Ready
  <2>4. CASE server.pc # "none"
    <3>1. Framed(queue)
      BY <2>4 DEF Ready
    <3> QED BY <1>1, <2>1, <2>2, <2>4, <3>1 DEF Ready
  <2> QED BY <2>3, <2>4
<1>3. CASE PollAway(p)
  <2>1. PICK r \in Reports : queue' = PolledAway(Arrived(r))
    BY <1>3, Zenon DEF PollAway
  <2> DEFINE q == Arrived(r)
  <2>2. Sound(q, server) /\ Within(q, queue)
    BY <1>1, ArrivedIsSound, Zenon
  <2> HIDE DEF q
  <2>3. Informed(q, server)
    BY <1>1, <2>2, Zenon DEF Informed
  <2>4. Informed(PolledAway(q), server) /\ Within(PolledAway(q), q)
    BY <2>3, PolledAwayInforms, Zenon
  <2>5. Ready(PolledAway(q), server)
    BY <2>2, <2>3, <2>4, QueueInforms, Zenon
  <2> QED BY <1>1, <2>1, <2>5, Zenon DEF q
<1>4. CASE queue' = queue
  BY <1>1, <1>4
<1> QED BY <1>2, <1>3, <1>4, Zenon DEF DisplayCall

LEMMA StepInforms ==
  ASSUME MouseInv, [Next]_vars
  PROVE  MouseInv'
<1>1. Ready(queue, server) /\ Sound(queue, server)
  BY DEF MouseInv, Ready, Informed
<1>2. ASSUME queue' = queue, server' = server
      PROVE  MouseInv'
  <2>1. Ready(queue', server')
    BY <1>1, <1>2
  <2> QED BY <2>1, AfterMouse
<1>3. CASE StartServer
  <2>1. Ready(queue', server')
    BY <1>1, <1>3, StartInforms, Zenon DEF StartServer, Sound
  <2> QED BY <2>1, AfterMouse
<1>4. CASE ReadCharacter
  <2>1. queue' = PushKey(queue, "a") /\ server' = server
    BY <1>4 DEF ReadCharacter
  <2>2. Sound(PushKey(queue, "a"), server) /\ Within(PushKey(queue, "a"), queue)
    BY <1>1, KeysAreSound, Zenon
  <2>3. Informed(PushKey(queue, "a"), server)
    BY <1>1, <2>2, Zenon DEF Ready, Informed
  <2>4. Ready(queue', server')
    BY <1>1, <2>1, <2>2, <2>3, QueueInforms, Zenon
  <2> QED BY <2>4, AfterMouse
<1>5. CASE PollInput
  <2>1. PICK r \in Reports : TakeEvent(Arrived(r)) /\ server.pc = "poll"
    BY <1>5, Zenon DEF PollInput
  <2>2. Sound(Arrived(r), server) /\ Within(Arrived(r), queue)
    BY <1>1, ArrivedIsSound, Zenon
  <2>3. Informed(Arrived(r), server) /\ Framed(Arrived(r)) /\ server.pc # "none"
    BY <1>1, <2>1, <2>2 DEF Ready, Informed, Within
  <2> QED BY <2>1, <2>3, TakeInforms, AfterMouse, Zenon
<1>6. CASE SendEvent
  BY <1>1, <1>6, SendInforms, AfterMouse, Zenon
<1>7. CASE Sync
  BY <1>1, <1>7, SyncInforms, AfterMouse, Zenon
<1>8. ASSUME NEW p \in Pids, Exit(p)
      PROVE  MouseInv'
  <2>1. queue' = Release(queue) /\ server' \in {NoServer, server}
    BY <1>8 DEF Exit, Exited
  <2>2. Ready(queue', server')
    BY <1>1, <2>1, ReleaseInforms, Zenon
  <2> QED BY <2>2, AfterMouse
<1>9. ASSUME NEW p \in Pids, Collect(p) \/ ClientCall(p) \/ KeepCpu(p)
      PROVE  MouseInv'
  BY <1>2, <1>9, Zenon DEF Collect, ClientCall, KeepCpu
<1>10. CASE StartClient \/ GiveCpu
  BY <1>2, <1>10, Zenon DEF StartClient, GiveCpu
<1>11. CASE UNCHANGED vars
  BY <1>2, <1>11, Zenon DEF vars
<1>12. ASSUME NEW p \in Pids, DisplayCall(p)
       PROVE  MouseInv'
  BY <1>1, <1>12, DisplayInforms, AfterMouse, Zenon
<1> QED BY <1>3, <1>4, <1>5, <1>6, <1>7, <1>8, <1>9, <1>10, <1>11, <1>12, Zenon
        DEF Next, ServerRuns, OthersRun

-----------------------------------------------------------------------------
(* As soon as all events are taken the display knows where the pointer is  *)
(* and, both ways, whether the left button is held, and it drags nothing   *)
(* without the button: whatever is merged or dropped, whoever else takes   *)
(* events or the console.  Before the first movement, and the first change *)
(* of the button, that it takes it knows what it starts from; and while    *)
(* the last event of the one or the other is one that was thrown away, what *)
(* it knew.                                                                *)
THEOREM MouseIsAlwaysTracked == Spec => []MouseIsTracked
<1>1. MouseInv => MouseIsTracked
  <2> SUFFICES ASSUME MouseInv, queue.events = <<>>
               PROVE  /\ "pointer" \notin queue.lost =>
                           <<server.x, server.y>> =
                             IF server.moved THEN <<queue.x, queue.y>> ELSE StartPointer
                      /\ "left" \notin queue.lost => (server.lastLeft <=> server.clicked /\ queue.left)
                      /\ "left" \notin queue.lost /\ server.dragging # 0 => queue.left
    BY DEF MouseIsTracked
  <2>1. \A topic \in Subjects : topic \notin queue.lost => Knows(server, topic, Truth(queue, topic))
    <3>1. \A topic \in Subjects : Silent(queue.events, topic)
      BY DEF Silent
    <3> QED BY <3>1, Zenon DEF MouseInv, Ready, Informed, Sound, MouseIsSound
  <2>2. "pointer" \notin queue.lost =>
          <<server.x, server.y>> = IF server.moved THEN <<queue.x, queue.y>> ELSE StartPointer
    BY <2>1 DEF Subjects, Knows, Truth
  <2>3. "left" \notin queue.lost => (server.lastLeft <=> server.clicked /\ queue.left)
    BY <2>1 DEF Subjects, Knows, Truth, Button1
  <2> QED BY <2>2, <2>3 DEF MouseInv, Ready, Informed, DragsHeld
<1> QED BY <1>1, InitInforms, StepInforms, PTL DEF Spec

-----------------------------------------------------------------------------
(* The heights of the windows.                                             *)

Heights(z) == {z[w] : w \in WindowIds}
Below(z, w) == {z[v] : v \in {u \in DOMAIN z : z[u] < z[w]}}

LEMMA HeightsAreFinite ==
  ASSUME NEW z \in [WindowIds -> Nat]
  PROVE  /\ IsFiniteSet(Heights(z)) /\ Cardinality(Heights(z)) \in Nat
         /\ \A w \in WindowIds :
              /\ IsFiniteSet(Below(z, w)) /\ Below(z, w) \subseteq Heights(z)
              /\ Cardinality(Below(z, w)) \in 0 .. Cardinality(Heights(z))
<1>1. IsFiniteSet(WindowIds)
  <2>1. 1 \in Int /\ Len(Windows) \in Int
    BY DesktopAssumption
  <2> QED BY <2>1, FS_Interval DEF WindowIds
<1>2. z \in Surjection(WindowIds, Heights(z))
  BY DEF Surjection, Heights
<1>3. IsFiniteSet(Heights(z))
  BY <1>1, <1>2, FS_Surjection
<1>4. Cardinality(Heights(z)) \in Nat
  BY <1>3, FS_CardinalityType
<1>5. ASSUME NEW w \in WindowIds
      PROVE  /\ IsFiniteSet(Below(z, w)) /\ Below(z, w) \subseteq Heights(z)
             /\ Cardinality(Below(z, w)) \in 0 .. Cardinality(Heights(z))
  <2>1. Below(z, w) \in SUBSET Heights(z)
    BY DEF Below, Heights
  <2>2. IsFiniteSet(Below(z, w)) /\ Cardinality(Below(z, w)) <= Cardinality(Heights(z))
    BY <1>3, <2>1, FS_Subset
  <2>3. Cardinality(Below(z, w)) \in Nat
    BY <2>2, FS_CardinalityType
  <2> QED BY <1>4, <2>1, <2>2, <2>3
<1> QED BY <1>3, <1>4, <1>5

\* The small numbers that take the place of z are in the same order.
LEMMA RanksKeepOrder ==
  ASSUME NEW z \in [WindowIds -> Nat]
  PROVE  /\ Ranks(z) \in [WindowIds -> 0 .. Cardinality(Heights(z))]
         /\ \A u, v \in WindowIds :
              /\ z[u] < z[v] => Ranks(z)[u] < Ranks(z)[v]
              /\ z[u] = z[v] => Ranks(z)[u] = Ranks(z)[v]
<1>1. Ranks(z) = [w \in WindowIds |-> Cardinality(Below(z, w))]
  BY DEF Ranks, Below
<1>2. Ranks(z) \in [WindowIds -> 0 .. Cardinality(Heights(z))]
  BY <1>1, HeightsAreFinite
<1>3. \A w \in WindowIds : Ranks(z)[w] = Cardinality(Below(z, w))
  BY <1>1
<1>4. ASSUME NEW u \in WindowIds, NEW v \in WindowIds, z[u] < z[v]
      PROVE  Ranks(z)[u] < Ranks(z)[v]
  <2>1. Below(z, u) \in SUBSET Below(z, v)
    <3>1. \A w \in WindowIds : z[w] \in Nat
      OBVIOUS
    <3>2. \A w \in WindowIds : z[w] < z[u] => z[w] < z[v]
      BY <1>4, <3>1
    <3> QED BY <3>2 DEF Below
  <2>2. z[u] \in Below(z, v)
    BY <1>4 DEF Below
  <2>3. z[u] \notin Below(z, u)
    BY DEF Below
  <2>4. /\ IsFiniteSet(Below(z, v)) /\ Cardinality(Below(z, v)) \in Nat
        /\ Cardinality(Below(z, u)) \in Nat
    BY HeightsAreFinite
  <2>5. /\ Cardinality(Below(z, u)) <= Cardinality(Below(z, v))
        /\ Cardinality(Below(z, v)) = Cardinality(Below(z, u)) => Below(z, v) = Below(z, u)
    BY <2>1, <2>4, FS_Subset
  <2>6. Cardinality(Below(z, v)) # Cardinality(Below(z, u))
    BY <2>2, <2>3, <2>5, Zenon
  <2> QED BY <1>3, <2>4, <2>5, <2>6
<1>5. ASSUME NEW u \in WindowIds, NEW v \in WindowIds, z[u] = z[v]
      PROVE  Ranks(z)[u] = Ranks(z)[v]
  <2>1. Below(z, u) = Below(z, v)
    BY <1>5 DEF Below
  <2> QED BY <1>3, <2>1
<1> QED BY <1>2, <1>4, <1>5

LEMMA SameOrder ==
  ASSUME NEW c, NEW d, \A v, w \in WindowIds : Behind(d, v, w) <=> Behind(c, v, w)
  PROVE  Order(d) = Order(c)
<1>1. \A w \in WindowIds : {v \in WindowIds : Behind(d, v, w)} = {v \in WindowIds : Behind(c, v, w)}
  OBVIOUS
<1> QED BY <1>1 DEF Order

LEMMA SameLayout ==
  ASSUME NEW c, NEW d, d.windows = c.windows, d.z = c.z, d.focused = c.focused,
         d.external = c.external
  PROVE  Layout(d) = Layout(c)
<1>1. Order(d) = Order(c)
  <2>1. \A v, w \in WindowIds : Behind(d, v, w) <=> Behind(c, v, w)
    BY DEF Behind
  <2> QED BY <2>1, SameOrder, Zenon
<1> QED BY <1>1 DEF Layout

LEMMA FrameKeepsOrder ==
  ASSUME NEW c, ServerShape(c), c.z \in [WindowIds -> Nat], c.frame \in Nat
  PROVE  /\ NextFrame(c).z \in [WindowIds -> Nat] /\ NextFrame(c).frame \in Nat
         /\ Layout(NextFrame(c)) = Layout(c)
<1> DEFINE d == NextFrame(c)
           r == Ranks(c.z)
           n == Cardinality(Heights(c.z))
           R == {r[w] : w \in DOMAIN r}
           above == 1 + Max(R)
<1>1. Differs(d, c, {"z", "frame"}) /\ d.z = r /\ d.frame \in {above, c.frame + 1}
  BY FrameChanges
<1>2. n \in Nat /\ r \in [WindowIds -> 0 .. n]
  BY HeightsAreFinite, RanksKeepOrder
<1>3. \A u, v \in WindowIds :
        /\ c.z[u] < c.z[v] => r[u] < r[v]
        /\ c.z[u] = c.z[v] => r[u] = r[v]
  BY RanksKeepOrder
<1> HIDE DEF d, r, n
<1>4. above \in Nat
  <2>1. R \in SUBSET (0 .. n) /\ R # {}
    <3>1. 1 \in WindowIds
      BY DesktopAssumption DEF WindowIds
    <3> QED BY <1>2, <3>1
  <2> HIDE DEF R
  <2>2. Max(R) \in R
    BY <1>2, <2>1, GreatestPid, Zenon
  <2>3. Max(R) \in 0 .. n
    BY <2>1, <2>2, Zenon
  <2> QED BY <1>2, <2>3
<1> HIDE DEF R
<1>5. d.frame \in Nat
  <2>1. c.frame + 1 \in Nat
    OBVIOUS
  <2> QED BY <1>1, <1>4, <2>1
<1>6. d.z \in [WindowIds -> Nat]
  <2>1. 0 .. n \subseteq Nat
    BY <1>2
  <2> QED BY <1>1, <1>2, <2>1
<1>7. Order(d) = Order(c)
  <2>1. ASSUME NEW v \in WindowIds, NEW w \in WindowIds
        PROVE  Behind(d, v, w) <=> Behind(c, v, w)
    <3>1. c.z[v] \in Nat /\ c.z[w] \in Nat /\ r[v] \in Nat /\ r[w] \in Nat
      BY <1>2
    <3>2. /\ c.z[v] < c.z[w] => r[v] < r[w]
          /\ c.z[w] < c.z[v] => r[w] < r[v]
          /\ c.z[v] = c.z[w] => r[v] = r[w]
      BY <1>3
    <3> QED BY <1>1, <3>1, <3>2 DEF Behind
  <2> QED BY <2>1, SameOrder, Zenon
<1>8. d.windows = c.windows /\ d.focused = c.focused /\ d.external = c.external
  BY <1>1 DEF Differs, ServerFields
<1>9. Layout(d) = Layout(c)
  BY <1>7, <1>8 DEF Layout
<1> QED BY <1>5, <1>6, <1>9 DEF d

-----------------------------------------------------------------------------
(* The list of the surfaces on the screen.                                 *)

LEMMA TupleIsSequence ==
  ASSUME NEW n \in Nat, NEW f, f = [k \in 1 .. n |-> f[k]]
  PROVE  f \in Seq(Elements(f)) /\ Len(f) = n
<1>1. DOMAIN f = 1 .. n
  BY Zenon
<1>2. f \in [1 .. n -> Elements(f)]
  BY <1>1 DEF Elements
<1> HIDE DEF Elements
<1> QED BY <1>2

LEMMA InOrderIsTuple ==
  ASSUME NEW S, IsFiniteSet(S)
  PROVE  /\ Cardinality(S) \in Nat
         /\ DOMAIN InOrder(S) = 1 .. Cardinality(S)
         /\ InOrder(S) \in Seq(Elements(InOrder(S))) /\ Len(InOrder(S)) = Cardinality(S)
<1> DEFINE n == Cardinality(S)
           f == InOrder(S)
<1>1. n \in Nat
  BY FS_CardinalityType
<1>2. DOMAIN f = 1 .. n
  BY DEF InOrder
<1>3. f = [k \in 1 .. n |-> f[k]]
  <2> DEFINE at(k) == CHOOSE m \in S : Cardinality({x \in S : x < m}) = k - 1
  <2>1. f = [k \in 1 .. n |-> at(k)]
    BY Zenon DEF InOrder
  <2> HIDE DEF f, n, at
  <2> QED BY <2>1
<1> HIDE DEF f, n
<1>4. f \in Seq(Elements(f)) /\ Len(f) = n
  BY <1>1, <1>3, TupleIsSequence, Zenon
<1> QED BY <1>1, <1>2, <1>4 DEF f, n

LEMMA InOrderOfAll ==
  ASSUME NEW n \in Nat
  PROVE  InOrder(1 .. n) = [k \in 1 .. n |-> k]
<1> DEFINE at(k) == CHOOSE m \in 1 .. n : Cardinality({x \in 1 .. n : x < m}) = k - 1
<1>1. Cardinality(1 .. n) = n
  <2>1. 1 \in Int /\ n \in Int
    OBVIOUS
  <2>2. Cardinality(1 .. n) = IF 1 > n THEN 0 ELSE n - 1 + 1
    BY <2>1, FS_Interval
  <2> QED BY <2>2
<1>2. ASSUME NEW m \in 1 .. n
      PROVE  Cardinality({x \in 1 .. n : x < m}) = m - 1
  <2>1. {x \in 1 .. n : x < m} = 1 .. m - 1
    OBVIOUS
  <2>2. 1 \in Int /\ m - 1 \in Int
    OBVIOUS
  <2>3. Cardinality(1 .. m - 1) = IF 1 > m - 1 THEN 0 ELSE m - 1 - 1 + 1
    BY <2>2, FS_Interval
  <2>4. Cardinality(1 .. m - 1) = m - 1
    BY <2>3
  <2> QED BY <2>1, <2>4
<1>3. ASSUME NEW k \in 1 .. n
      PROVE  at(k) = k
  <2>1. Cardinality({x \in 1 .. n : x < k}) = k - 1
    BY <1>2
  <2>2. at(k) \in 1 .. n /\ Cardinality({x \in 1 .. n : x < at(k)}) = k - 1
    BY <2>1, Zenon
  <2> HIDE DEF at
  <2>3. Cardinality({x \in 1 .. n : x < at(k)}) = at(k) - 1
    BY <2>2, <1>2, Zenon
  <2> QED BY <2>2, <2>3
<1>4. InOrder(1 .. n) = [k \in 1 .. n |-> at(k)]
  BY <1>1, Zenon DEF InOrder
<1> HIDE DEF at
<1> QED BY <1>3, <1>4

\* If no surface has gone its places stay.
LEMMA KeptStays ==
  ASSUME NEW c, c.external \in Seq(Elements(c.external)),
         NEW visible, NEW slots
  PROVE  LET kept == Kept(c, visible, slots)
         IN /\ kept \in Seq(Elements(kept))
            /\ Ids(c.external) \subseteq visible => Placed(kept) = Placed(c.external)
<1> DEFINE es == c.external
           stays == {i \in DOMAIN es : es[i].id \in visible}
           left == InOrder(stays)
           n == Cardinality(stays)
           kept == Kept(c, visible, slots)
<1>1. DOMAIN es = 1 .. Len(es) /\ Len(es) \in Nat
  OBVIOUS
<1>2. IsFiniteSet(stays)
  <2>1. 1 \in Int /\ Len(es) \in Int
    BY <1>1
  <2>2. IsFiniteSet(1 .. Len(es))
    BY <2>1, FS_Interval
  <2>3. stays \in SUBSET (1 .. Len(es))
    BY <1>1
  <2> QED BY <2>2, <2>3, FS_Subset
<1>3. n \in Nat /\ DOMAIN left = 1 .. n
  BY <1>2, InOrderIsTuple
<1>5. kept = [k \in 1 .. n |-> Renewed(es[left[k]], slots[es[left[k]].id])]
  BY <1>3 DEF Kept
<1> HIDE DEF kept
<1>8. kept = [k \in 1 .. n |-> kept[k]]
  BY <1>5
<1>9. kept \in Seq(Elements(kept))
  BY <1>3, <1>8, TupleIsSequence, Zenon
<1>10. ASSUME Ids(es) \subseteq visible
       PROVE  Placed(kept) = Placed(es)
  <2>1. stays = 1 .. Len(es)
    BY <1>1, <1>10 DEF Ids
  <2>2. n = Len(es) /\ left = [k \in 1 .. Len(es) |-> k]
    <3>1. left = [k \in 1 .. Len(es) |-> k]
      BY <1>1, <2>1, InOrderOfAll
    <3>2. DOMAIN left = 1 .. Len(es)
      BY <3>1
    <3> QED BY <1>1, <1>3, <3>1, <3>2
  <2> HIDE DEF n, left, es
  <2>3. ASSUME NEW k \in 1 .. Len(es)
        PROVE  kept[k].id = es[k].id /\ kept[k].x = es[k].x /\ kept[k].y = es[k].y
    <3>1. kept[k] = Renewed(es[k], slots[es[k].id])
      BY <1>5, <2>2
    <3> QED BY <3>1 DEF Renewed
  <2>4. DOMAIN kept = 1 .. Len(es)
    BY <1>8, <2>2
  <2> QED BY <1>1, <2>3, <2>4 DEF Placed
<1> QED BY <1>9, <1>10 DEF kept

LEMMA AddedIsSequence ==
  ASSUME NEW S, IsFiniteSet(S), NEW index, NEW slots
  PROVE  LET added == Added(InOrder(S), index, slots)
         IN /\ added \in Seq(Elements(added))
            /\ InOrder(S) = <<>> => added = <<>>
<1> DEFINE n == Cardinality(S)
           new == InOrder(S)
           added == Added(new, index, slots)
<1>1. n \in Nat /\ DOMAIN new = 1 .. n /\ new \in Seq(Elements(new)) /\ Len(new) = n
  BY InOrderIsTuple
<1> HIDE DEF n, new
<1>2. added = [k \in 1 .. n |-> External(new[k], index + k - 1, slots[new[k]])]
  BY <1>1 DEF Added
<1> HIDE DEF added
<1>4. added = [k \in 1 .. n |-> added[k]]
  BY <1>2
<1>5. added \in Seq(Elements(added)) /\ Len(added) = n
  BY <1>1, <1>4, TupleIsSequence, Zenon
<1>8. new = <<>> => added = <<>>
  <2>1. new = <<>> => n = 0
    BY <1>1
  <2>2. n = 0 => added = <<>>
    BY <1>5, EmptySeq
  <2> QED BY <2>1, <2>2
<1> QED BY <1>5, <1>8 DEF added, new

LEMMA SyncedIsSequence ==
  ASSUME NEW c, ServerShape(c), c.external \in Seq(Elements(c.external)),
         NEW visible, IsFiniteSet(visible), NEW slots
  PROVE  LET d == Synced(c, visible, slots)
         IN /\ d.external \in Seq(Elements(d.external))
            /\ ~d.dirty => ~c.dirty /\ Placed(d.external) = Placed(c.external)
<1> DEFINE kept == Kept(c, visible, slots)
           fresh == visible \ Ids(c.external)
           new == NewIds(c, visible)
           added == Added(new, Len(kept), slots)
           d == Synced(c, visible, slots)
           all == kept \o added
<1>1. /\ d.external = all
      /\ d.dirty = (c.dirty \/ new # <<>> \/ ~(Ids(c.external) \subseteq visible))
  BY SyncedChanges
<1>2. IsFiniteSet(fresh)
  <2>1. fresh \in SUBSET visible
    OBVIOUS
  <2> QED BY <2>1, FS_Subset
<1>3. /\ kept \in Seq(Elements(kept))
      /\ Ids(c.external) \subseteq visible => Placed(kept) = Placed(c.external)
  BY KeptStays, Zenon
<1>4. /\ added \in Seq(Elements(added))
      /\ new = <<>> => added = <<>>
  BY <1>2, AddedIsSequence, Zenon DEF NewIds
<1> HIDE DEF kept, new, added, fresh, d
<1>5. all \in Seq(Elements(kept) \cup Elements(added))
  <2>1. kept \in Seq(Elements(kept) \cup Elements(added))
    BY <1>3, SeqMonotonic, Zenon
  <2>2. added \in Seq(Elements(kept) \cup Elements(added))
    BY <1>4, SeqMonotonic, Zenon
  <2> QED BY <2>1, <2>2, ConcatProperties, Zenon
<1>6. ~d.dirty => ~c.dirty /\ Placed(d.external) = Placed(c.external)
  <2> SUFFICES ASSUME ~d.dirty PROVE ~c.dirty /\ Placed(d.external) = Placed(c.external)
    OBVIOUS
  <2>1. ~c.dirty /\ new = <<>> /\ Ids(c.external) \subseteq visible
    BY <1>1
  <2>2. all = kept
    BY <1>3, <1>4, <2>1, ConcatEmptySeq
  <2> QED BY <1>1, <1>3, <2>1, <2>2
<1> HIDE DEF all
<1>7. all \in Seq(Elements(all))
  BY <1>5, OverElements, Zenon
<1> QED BY <1>1, <1>6, <1>7 DEF d

-----------------------------------------------------------------------------
(* What the screen shows, from step to step.                               *)

Showing(c) == ServerShape(c) /\ Numbers(c) /\ Updated(c)

LEMMA AfterScreen ==
  ASSUME Showing(server'), AtRest(server')
  PROVE  ScreenInv'
BY DEF ScreenInv, ScreenIsSound, Showing, ServerShape, Numbers, Updated, AtRest, Drawn, Layout,
       Order, Behind, Elements

\* Where the round is says nothing of the screen.
LEMMA SameOutline ==
  ASSUME NEW c, NEW d, d.windows = c.windows, d.z = c.z, d.focused = c.focused,
         Placed(d.external) = Placed(c.external)
  PROVE  Outline(Layout(d)) = Outline(Layout(c))
<1>1. Order(d) = Order(c)
  <2>1. \A v, w \in WindowIds : Behind(d, v, w) <=> Behind(c, v, w)
    BY DEF Behind
  <2> QED BY <2>1, SameOrder, Zenon
<1>2. ASSUME NEW b
      PROVE  Outline(Layout(b)) = [windows |-> b.windows, order |-> Order(b),
                                   focused |-> b.focused, external |-> Placed(b.external)]
  BY DEF Outline, Layout
<1> QED BY <1>1, <1>2

LEMMA StaysShowing ==
  ASSUME NEW c, NEW d, Showing(c), Differs(d, c, {"pc", "polls", "send"}), d.polls \in Nat
  PROVE  Showing(d)
<1>1. /\ ServerShape(d) /\ d.windows = c.windows /\ d.z = c.z /\ d.focused = c.focused
      /\ d.external = c.external /\ d.dragging = c.dragging /\ d.drawn = c.drawn
      /\ d.dirty = c.dirty /\ d.cursorDirty = c.cursorDirty /\ d.cursor = c.cursor
      /\ d.x = c.x /\ d.y = c.y /\ d.frame = c.frame
  BY DEF Differs, ServerFields
<1>2. Numbers(d)
  BY <1>1 DEF Showing, Numbers
<1>3. Layout(d) = Layout(c)
  BY <1>1, SameLayout, Zenon
<1>4. Updated(d)
  BY <1>1, <1>3 DEF Showing, Updated, Drawn
<1> QED BY <1>1, <1>2, <1>4 DEF Showing

LEMMA NoServerShows == Showing(NoServer) /\ AtRest(NoServer)
<1>1. ServerShape(NoServer)
  BY NoServerIsFresh DEF Fresh
<1>2. /\ NoServer.z = [w \in WindowIds |-> w - 1] /\ NoServer.frame = 0 /\ NoServer.polls = 0
      /\ NoServer.external = <<>> /\ NoServer.dirty = TRUE /\ NoServer.pc = "none"
  BY DEF NoServer
<1>3. \A w \in WindowIds : w - 1 \in Nat
  BY DesktopAssumption DEF WindowIds
<1>4. <<>> \in Seq(Elements(<<>>))
  BY EmptySeq, Zenon
<1> HIDE DEF NoServer
<1> QED BY <1>1, <1>2, <1>3, <1>4 DEF Showing, Numbers, Updated, AtRest

\* What has just been composed is on the screen.
LEMMA ComposedShows ==
  ASSUME NEW c, ServerShape(c), Numbers(c)
  PROVE  Showing(Composed(c)) /\ Composed(c).cursor = <<Composed(c).x, Composed(c).y>>
<1> DEFINE d == Composed(c)
<1>1. /\ Differs(d, c, {"drawn", "cursor", "dirty"})
      /\ d.drawn = Layout(c) /\ d.cursor = <<c.x, c.y>>
  BY ComposedChanges, Zenon
<1> HIDE DEF d
<1>2. /\ d.windows = c.windows /\ d.z = c.z /\ d.focused = c.focused /\ d.external = c.external
      /\ d.x = c.x /\ d.y = c.y /\ d.frame = c.frame /\ d.polls = c.polls
  BY <1>1 DEF Differs, ServerFields
<1>3. Layout(d) = Layout(c)
  BY <1>2, SameLayout, Zenon
<1>4. Layout(c).external = c.external
  BY DEF Layout
<1>5. Numbers(d)
  BY <1>2 DEF Numbers
<1>6. Updated(d)
  BY <1>1, <1>2, <1>3, <1>4 DEF Updated, Drawn
<1>7. d.cursor = <<d.x, d.y>>
  BY <1>1, <1>2
<1> QED BY <1>1, <1>5, <1>6, <1>7 DEF Showing, Differs, d

LEMMA StartShows ==
  /\ Showing([Composed(NoServer) EXCEPT !.pc = "poll"])
  /\ AtRest([Composed(NoServer) EXCEPT !.pc = "poll"])
<1> DEFINE c == Composed(NoServer)
           d == [c EXCEPT !.pc = "poll"]
<1>1. ServerShape(NoServer) /\ Numbers(NoServer) /\ NoServer.polls = 0
  BY NoServerShows DEF Showing, NoServer
<1>2. Showing(c) /\ c.cursor = <<c.x, c.y>>
  BY <1>1, ComposedShows, Zenon
<1>3. c.dirty = FALSE
  BY <1>1, ComposedChanges, Zenon
<1> HIDE DEF c
<1>4. Differs(d, c, {"pc", "polls", "send"}) /\ d.pc = "poll" /\ d.polls = c.polls
  BY <1>2 DEF Showing, Differs, ServerShape, ServerFields
<1> HIDE DEF d
<1>5. Showing(d)
  <2>1. d.polls \in Nat
    BY <1>2, <1>4 DEF Showing, Numbers
  <2> QED BY <1>2, <1>4, <2>1, StaysShowing, Zenon
<1>6. d.dirty = c.dirty /\ d.cursor = c.cursor /\ d.x = c.x /\ d.y = c.y
  BY <1>4 DEF Differs, ServerFields
<1>7. AtRest(d)
  BY <1>2, <1>3, <1>4, <1>6 DEF AtRest
<1> QED BY <1>5, <1>7 DEF d, c

LEMMA HandledShows ==
  ASSUME NEW c, Showing(c), NEW e
  PROVE  Showing(Handled(c, e)) /\ Handled(c, e).polls = c.polls
<1> DEFINE d == Handled(c, e)
<1>1. ServerShape(c) /\ Numbers(c) /\ Updated(c)
  BY DEF Showing
<1>2. d \in {c, OnKey(c), OnMove(c, e)} \/ (e.kind = "button" /\ e.button = 1)
  BY DEF Handled
<1> HIDE DEF d
<1>3. ASSUME d = OnKey(c)
      PROVE  Showing(d) /\ d.polls = c.polls
  <2>1. Differs(d, c, {"send"})
    BY <1>1, <1>3, KeyChanges, Zenon
  <2>2. Differs(d, c, {"pc", "polls", "send"}) /\ d.polls = c.polls
    BY <2>1 DEF Differs, ServerFields
  <2>3. d.polls \in Nat
    BY <1>1, <2>2 DEF Numbers
  <2> QED BY <2>2, <2>3, StaysShowing, Zenon
<1>4. ASSUME d = OnMove(c, e)
      PROVE  Showing(d) /\ d.polls = c.polls
  <2>1. /\ Differs(d, c, {"x", "y", "moved", "cursorDirty", "windows", "send"})
        /\ d.x = e.x /\ d.y = e.y
        /\ d.cursorDirty = (c.cursorDirty \/ <<c.x, c.y>> # <<e.x, e.y>>)
        /\ c.dragging = 0 => d.windows = c.windows
    <3>1. Moved(d, c, e)
      BY <1>1, <1>4, MoveChanges, Zenon
    <3> QED BY <3>1, Zenon DEF Moved
  <2>2. /\ ServerShape(d) /\ d.z = c.z /\ d.focused = c.focused /\ d.external = c.external
        /\ d.dragging = c.dragging /\ d.drawn = c.drawn /\ d.dirty = c.dirty
        /\ d.cursor = c.cursor /\ d.frame = c.frame /\ d.polls = c.polls
    BY <2>1 DEF Differs, ServerFields
  <2>3. d.dragging = 0 => Layout(d) = Layout(c)
    BY <2>1, <2>2, SameLayout
  <2>4. ~d.dirty => Drawn(d)
    BY <1>1, <2>2, <2>3 DEF Updated, Drawn
  <2>5. ~d.dirty /\ ~d.cursorDirty => d.cursor = <<d.x, d.y>>
    BY <1>1, <2>1, <2>2 DEF Updated
  <2>6. Numbers(d)
    BY <1>1, <2>2 DEF Numbers
  <2> QED BY <2>2, <2>4, <2>5, <2>6 DEF Showing, Updated
<1>5. ASSUME d # c, e.kind = "button", e.button = 1
      PROVE  Showing(d) /\ d.polls = c.polls
  <2> DEFINE b == [c EXCEPT !.clicked = TRUE]
  <2>1. Differs(b, c, {"clicked"})
    BY <1>1 DEF Differs, ServerShape, ServerFields
  <2>2. d = OnLeft(b, e.pressed)
    BY <1>5 DEF Handled, d
  <2> HIDE DEF b
  <2>3. Left(d, b, e.pressed)
    BY <2>1, <2>2, LeftChanges, Zenon DEF Differs
  <2>4. CASE d = b
    <3>1. /\ ServerShape(b) /\ b.windows = c.windows /\ b.z = c.z /\ b.focused = c.focused
          /\ b.external = c.external /\ b.dragging = c.dragging /\ b.drawn = c.drawn
          /\ b.dirty = c.dirty /\ b.cursorDirty = c.cursorDirty /\ b.cursor = c.cursor
          /\ b.x = c.x /\ b.y = c.y /\ b.frame = c.frame /\ b.polls = c.polls
      BY <2>1 DEF Differs, ServerFields
    <3>2. Layout(b) = Layout(c)
      BY <3>1, SameLayout, Zenon
    <3>3. Updated(b)
      BY <1>1, <3>1, <3>2 DEF Updated, Drawn
    <3>4. Numbers(b)
      BY <1>1, <3>1 DEF Numbers
    <3> QED BY <2>4, <3>1, <3>3, <3>4 DEF Showing
  <2>5. CASE d.dirty = TRUE /\ (d.z = b.z \/ \E w : d.z = [b.z EXCEPT ![w] = b.frame])
    <3>1. /\ b.external = c.external /\ b.frame = c.frame /\ b.polls = c.polls /\ b.z = c.z
      BY <2>1 DEF Differs, ServerFields
    <3>2. ServerShape(d) /\ d.external = b.external /\ d.frame = b.frame /\ d.polls = b.polls
      BY <2>3 DEF Left, Differs, ServerFields
    <3>3. d.z \in [WindowIds -> Nat]
      BY <1>1, <2>5, <3>1 DEF Numbers
    <3>4. Numbers(d)
      BY <1>1, <3>1, <3>2, <3>3 DEF Numbers
    <3> QED BY <2>5, <3>1, <3>2, <3>4 DEF Showing, Updated
  <2> QED BY <2>3, <2>4, <2>5 DEF Left
<1>6. d = c => Showing(d) /\ d.polls = c.polls
  OBVIOUS
<1>7. Showing(d) /\ d.polls = c.polls
  BY <1>2, <1>3, <1>4, <1>5, <1>6, Zenon
<1> QED BY <1>7 DEF d

LEMMA TakeShows ==
  ASSUME NEW q, Showing(server), TakeEvent(q)
  PROVE  Showing(server') /\ AtRest(server')
<1>1. ServerShape(server) /\ server.polls \in Nat
  BY DEF Showing, Numbers
<1>2. CASE server' = [server EXCEPT !.pc = "sync"]
  <2> DEFINE d == [server EXCEPT !.pc = "sync"]
  <2>1. Differs(d, server, {"pc", "polls", "send"}) /\ d.pc = "sync" /\ d.polls = server.polls
    BY <1>1 DEF Differs, ServerShape, ServerFields
  <2> HIDE DEF d
  <2>2. Showing(d)
    BY <1>1, <2>1, StaysShowing, Zenon
  <2>3. AtRest(d)
    BY <2>1 DEF AtRest
  <2> QED BY <1>2, <2>2, <2>3 DEF d
<1>3. CASE \E c \in {Handled(server, Head(q.events))} : server' = Onward([c EXCEPT !.polls = @ + 1])
  <2> DEFINE c == Handled(server, Head(q.events))
             n == c.polls + 1
             d == Onward([c EXCEPT !.polls = n])
  <2>1. server' = d
    BY <1>3
  <2>2. Showing(c) /\ c.polls = server.polls
    BY HandledShows
  <2>3. n \in Nat /\ n # 0
    BY <1>1, <2>2
  <2> HIDE DEF c, n
  <2>4. Differs(d, c, {"pc", "polls"}) /\ d.polls = n
    BY <2>2, OnwardChanges, Zenon DEF Showing
  <2> HIDE DEF d
  <2>5. Differs(d, c, {"pc", "polls", "send"})
    BY <2>4 DEF Differs
  <2>6. Showing(d)
    BY <2>2, <2>3, <2>4, <2>5, StaysShowing, Zenon
  <2>7. AtRest(d)
    BY <2>3, <2>4 DEF AtRest
  <2> QED BY <2>1, <2>6, <2>7
<1>4. CASE server' = NoServer
  BY <1>4, NoServerShows
<1> QED BY <1>2, <1>3, <1>4, Zenon DEF TakeEvent

LEMMA SendShows ==
  ASSUME Showing(server), AtRest(server), SendEvent
  PROVE  Showing(server') /\ AtRest(server')
<1> DEFINE d == Onward([server EXCEPT !.send = <<>>])
<1>1. server' = d /\ ServerShape(server) /\ server.polls \in Nat /\ server.polls # 0
  BY DEF SendEvent, Showing, Numbers, AtRest
<1>2. Differs(d, server, {"pc", "send"}) /\ d.pc \in {"poll", "sync"}
  BY <1>1, OnwardChanges, Zenon
<1> HIDE DEF d
<1>3. Differs(d, server, {"pc", "polls", "send"}) /\ d.polls = server.polls
  BY <1>2 DEF Differs, ServerFields
<1>4. Showing(d)
  BY <1>1, <1>3, StaysShowing, Zenon
<1>5. AtRest(d)
  BY <1>1, <1>2, <1>3 DEF AtRest
<1> QED BY <1>1, <1>4, <1>5

\* The end of a round leaves nothing to be shown.
LEMMA RoundShows ==
  ASSUME NEW c, Showing(c), NEW visible, IsFiniteSet(visible), NEW slots
  PROVE  Showing(EndOfRound(c, visible, slots)) /\ AtRest(EndOfRound(c, visible, slots))
<1> DEFINE synced == Synced(c, visible, slots)
           shown == Shown(synced)
           next == NextFrame(shown)
           d == EndOfRound(c, visible, slots)
<1>1. /\ ServerShape(synced) /\ ServerShape(shown)
      /\ Differs(next, shown, {"z", "frame"})
      /\ Differs(d, next, {"pc", "polls"}) /\ d.pc = "poll" /\ d.polls = 0
  BY RoundChanges DEF Showing
<1>2. /\ synced.external \in Seq(Elements(synced.external))
      /\ ~synced.dirty => ~c.dirty /\ Placed(synced.external) = Placed(c.external)
  BY SyncedIsSequence DEF Showing, Numbers
<1>3. Differs(synced, c, {"external", "dirty"})
  BY SyncedChanges DEF Showing
<1> HIDE DEF synced
<1>4. Showing(synced)
  <2>1. /\ synced.windows = c.windows /\ synced.z = c.z /\ synced.focused = c.focused
        /\ synced.dragging = c.dragging /\ synced.drawn = c.drawn
        /\ synced.cursorDirty = c.cursorDirty /\ synced.cursor = c.cursor
        /\ synced.x = c.x /\ synced.y = c.y /\ synced.frame = c.frame /\ synced.polls = c.polls
    BY <1>3 DEF Differs, ServerFields
  <2>2. Numbers(synced)
    BY <1>2, <2>1 DEF Showing, Numbers
  <2>3. ~synced.dirty => Outline(Layout(synced)) = Outline(Layout(c))
    BY <1>2, <2>1, SameOutline
  <2>4. Updated(synced)
    BY <1>2, <2>1, <2>3 DEF Showing, Updated, Drawn
  <2> QED BY <1>1, <2>2, <2>4 DEF Showing
<1>5. /\ Differs(shown, synced, {"drawn", "cursor", "dirty", "cursorDirty"})
      /\ ~shown.dirty
      /\ synced.dirty => shown.drawn = Layout(synced) /\ shown.cursor = <<synced.x, synced.y>>
      /\ ~synced.dirty => shown.drawn = synced.drawn
      /\ ~synced.dirty /\ synced.cursorDirty => shown.cursor = <<synced.x, synced.y>>
      /\ ~synced.dirty /\ ~synced.cursorDirty => shown.cursor = synced.cursor
  BY <1>1, ShownChanges, Zenon
<1> HIDE DEF shown
<1>6. Numbers(shown) /\ Drawn(shown) /\ ~shown.dirty /\ shown.cursor = <<shown.x, shown.y>>
  <2>1. /\ shown.windows = synced.windows /\ shown.z = synced.z /\ shown.focused = synced.focused
        /\ shown.external = synced.external /\ shown.dragging = synced.dragging
        /\ shown.x = synced.x /\ shown.y = synced.y /\ shown.frame = synced.frame
        /\ shown.polls = synced.polls
    BY <1>5 DEF Differs, ServerFields
  <2>2. Numbers(shown)
    BY <1>4, <2>1 DEF Showing, Numbers
  <2>3. Layout(shown) = Layout(synced) /\ Layout(synced).external = synced.external
    <3>1. Layout(shown) = Layout(synced)
      BY <2>1, SameLayout, Zenon
    <3> QED BY <3>1 DEF Layout
  <2>4. Drawn(shown)
    BY <1>4, <1>5, <2>1, <2>3 DEF Showing, Updated, Drawn
  <2>5. shown.cursor = <<shown.x, shown.y>>
    BY <1>4, <1>5, <2>1 DEF Showing, Updated
  <2> QED BY <1>5, <2>2, <2>4, <2>5
<1>7. next.z \in [WindowIds -> Nat] /\ next.frame \in Nat /\ Layout(next) = Layout(shown)
  BY <1>1, <1>6, FrameKeepsOrder DEF Numbers
<1> HIDE DEF next
<1>8. Showing(next) /\ ~next.dirty /\ next.cursor = <<next.x, next.y>>
  <2>1. /\ ServerShape(next) /\ next.external = shown.external /\ next.dragging = shown.dragging
        /\ next.drawn = shown.drawn /\ next.dirty = shown.dirty /\ next.cursor = shown.cursor
        /\ next.x = shown.x /\ next.y = shown.y /\ next.polls = shown.polls
    BY <1>1 DEF Differs, ServerFields
  <2>2. Numbers(next)
    BY <1>6, <1>7, <2>1 DEF Numbers
  <2>3. Drawn(next)
    BY <1>6, <1>7, <2>1 DEF Drawn
  <2> QED BY <1>6, <2>1, <2>2, <2>3 DEF Showing, Updated
<1> HIDE DEF d
<1>9. Differs(d, next, {"pc", "polls", "send"}) /\ d.polls \in Nat
  BY <1>1 DEF Differs
<1>10. Showing(d)
  BY <1>8, <1>9, StaysShowing, Zenon
<1>11. AtRest(d)
  <2>1. d.dirty = next.dirty /\ d.cursor = next.cursor /\ d.x = next.x /\ d.y = next.y
    BY <1>1 DEF Differs, ServerFields
  <2> QED BY <1>1, <1>8, <2>1 DEF AtRest
<1> QED BY <1>10, <1>11 DEF d

LEMMA InitShows == Init => ScreenInv
<1> SUFFICES ASSUME Init PROVE ScreenInv
  OBVIOUS
<1>1. server = NoServer
  BY DEF Init
<1> QED BY <1>1, NoServerShows DEF ScreenInv, ScreenIsSound, Showing

LEMMA StepShows ==
  ASSUME ScreenInv, [Next]_vars
  PROVE  ScreenInv'
<1>1. Showing(server) /\ AtRest(server)
  BY DEF ScreenInv, ScreenIsSound, Showing
<1>2. ASSUME server' = server
      PROVE  ScreenInv'
  <2>1. Showing(server') /\ AtRest(server')
    BY <1>1, <1>2
  <2> QED BY <2>1, AfterScreen
<1>3. CASE StartServer
  <2>1. Showing(server') /\ AtRest(server')
    BY <1>3, StartShows DEF StartServer
  <2> QED BY <2>1, AfterScreen
<1>4. CASE PollInput
  <2>1. PICK q : TakeEvent(q)
    BY <1>4, Zenon DEF PollInput
  <2> QED BY <1>1, <2>1, TakeShows, AfterScreen, Zenon
<1>5. CASE SendEvent
  BY <1>1, <1>5, SendShows, AfterScreen, Zenon
<1>6. CASE Sync
  <2>1. server' = EndOfRound(server, Visible(surfaces), surfaces.slots)
    BY <1>6 DEF Sync, EndOfRound
  <2>2. IsFiniteSet(Visible(surfaces))
    <3>1. IsFiniteSet(0 .. MaxSurfaces - 1)
      <4>1. 0 \in Int /\ MaxSurfaces - 1 \in Int
        BY SurfacesAssumption
      <4> QED BY <4>1, FS_Interval, Zenon
    <3>2. Visible(surfaces) \in SUBSET (0 .. MaxSurfaces - 1)
      BY DEF Visible, Slots
    <3> QED BY <3>1, <3>2, FS_Subset
  <2>3. Showing(server') /\ AtRest(server')
    BY <1>1, <2>1, <2>2, RoundShows
  <2> QED BY <2>3, AfterScreen
<1>7. ASSUME NEW p \in Pids, Exit(p)
      PROVE  ScreenInv'
  <2>1. server' \in {NoServer, server}
    BY <1>7 DEF Exit, Exited
  <2>2. Showing(server') /\ AtRest(server')
    BY <1>1, <2>1, NoServerShows
  <2> QED BY <2>2, AfterScreen
<1>8. ASSUME NEW p \in Pids, Collect(p) \/ ClientCall(p) \/ DisplayCall(p) \/ KeepCpu(p)
      PROVE  ScreenInv'
  BY <1>2, <1>8, Zenon DEF Collect, ClientCall, DisplayCall, KeepCpu
<1>9. CASE StartClient \/ ReadCharacter \/ GiveCpu
  BY <1>2, <1>9, Zenon DEF StartClient, ReadCharacter, GiveCpu
<1>10. CASE UNCHANGED vars
  BY <1>2, <1>10, Zenon DEF vars
<1> QED BY <1>3, <1>4, <1>5, <1>6, <1>7, <1>8, <1>9, <1>10, Zenon DEF Next, ServerRuns, OthersRun

-----------------------------------------------------------------------------
(* Between two rounds of the display server the screen shows the surfaces   *)
(* there are where the server has them, and the cursor, and the windows too *)
(* unless one is being dragged: whatever changes any of these marks the     *)
(* screen dirty, and neither a small update of the cursor nor a new frame   *)
(* number hides such a change.  Of the size and the contents of a surface   *)
(* nothing is said: a round that renews them draws nothing.                 *)
THEOREM ScreenIsAlwaysCurrent == Spec => []ScreenIsCurrent
<1>1. ScreenInv => ScreenIsCurrent
  BY DEF ScreenInv, ScreenIsSound, Updated, AtRest, Drawn, ScreenIsCurrent
<1> QED BY <1>1, InitShows, StepShows, PTL DEF Spec
=============================================================================
