----------------------------- MODULE Surfaces -----------------------------
(***************************************************************************)
(* The registry of surfaces of the kernel, kernel/src/surface.rs, as       *)
(* operators on the record it keeps: the slots, and a queue of events for  *)
(* each residue of a pid modulo MAX_PROCESSES.                             *)
(*                                                                         *)
(* Left out, because nothing reads them: server_pid, the z of a slot, and  *)
(* the queue of flushed ids, whose take_dirty nobody calls.  Of the frame  *)
(* behind a slot only a number is kept, the contents it last got; a create *)
(* that finds no frame fails.                                              *)
(***************************************************************************)
EXTENDS Integers, Sequences, FiniteSetsExt

CONSTANTS
  MaxSurfaces,    \* MAX_SURFACES
  EventQueue,     \* EVENT_QUEUE
  MaxProcesses    \* MAX_PROCESSES

ASSUME SurfacesAssumption ==
  /\ MaxSurfaces \in Nat /\ EventQueue \in Nat \ {0} /\ MaxProcesses \in Nat \ {0}

Slots == 0 .. MaxSurfaces - 1
Lines == 0 .. MaxProcesses - 1
Line(pid) == pid % MaxProcesses

\* owner is the pid, 0 for an empty slot; born says which process of that pid it was;
\* image numbers what was last put into the buffer.
NoSize == [width |-> 0, height |-> 0]
NoSurface == [owner |-> 0, born |-> 0, shown |-> FALSE, size |-> NoSize, image |-> 0]
NoSurfaces == [slots |-> [s \in Slots |-> NoSurface], events |-> [l \in Lines |-> <<>>]]

FreeSlots(r) == {s \in Slots : r.slots[s].owner = 0}
Find(r, s) == s \in Slots /\ r.slots[s].owner # 0
Owns(r, pid, s) == Find(r, s) /\ r.slots[s].owner = pid
Visible(r) == {s \in Slots : r.slots[s].owner # 0 /\ r.slots[s].shown}

\* create clears the buffer: that is its first image.
CreateSurface(r, pid, born, size, image) ==
  [r EXCEPT !.slots[Min(FreeSlots(r))] =
     [owner |-> pid, born |-> born, shown |-> FALSE, size |-> size, image |-> image]]

PresentSurface(r, s, shown) == [r EXCEPT !.slots[s].shown = shown]

\* The client has written the buffer and flushes: only take_dirty would ever know.
FlushSurface(r, s, image) == [r EXCEPT !.slots[s].image = image]

DestroySurface(r, s) == [r EXCEPT !.slots[s] = NoSurface]

\* At the end of a process.  Mutants: the first slot only; its events stay.
ReleaseFirst(r, pid) ==
  LET own == {s \in Slots : r.slots[s].owner = pid}
  IN [slots |-> [s \in Slots |-> IF own # {} /\ s = Min(own) THEN NoSurface ELSE r.slots[s]],
      events |-> [r.events EXCEPT ![Line(pid)] = <<>>]]
ReleasePid(r, pid) ==
  [slots |-> [s \in Slots |-> IF r.slots[s].owner = pid THEN NoSurface ELSE r.slots[s]],
   events |-> [r.events EXCEPT ![Line(pid)] = <<>>]]

\* The events of a client that does not read are dropped, oldest first.
PushEvent(q, e) == Append(IF Len(q) = EventQueue THEN Tail(q) ELSE q, e)

\* push_event_to_surface: nothing happens to an id without a surface.
PushToSurface(r, s, kind) ==
  IF ~Find(r, s) THEN r
  ELSE LET to == r.slots[s]
       IN [r EXCEPT !.events[Line(to.owner)] =
             PushEvent(@, [surface |-> s, kind |-> kind, born |-> to.born])]

PopEvent(r, pid) == [r EXCEPT !.events[Line(pid)] = Tail(@)]
=============================================================================
