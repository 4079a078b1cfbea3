---------------------------- MODULE InputQueue ----------------------------
(***************************************************************************)
(* The queue of input events of the kernel, kernel/src/input.rs, as        *)
(* operators on the record it keeps: a ring, here the sequence of its      *)
(* events, which drops its oldest event when it is full and merges a       *)
(* movement into the movement before it; the pointer and the buttons; and  *)
(* whether a display server has captured the input.                        *)
(***************************************************************************)
EXTENDS Integers, Sequences

CONSTANTS
  QueueCapacity,   \* CAPACITY
  MaxPointer       \* MAX_POINTER

ASSUME InputQueueAssumption == QueueCapacity \in Nat \ {0}

Clamp(n, low, high) == IF n < low THEN low ELSE IF n > high THEN high ELSE n

NewQueue ==
  [events |-> <<>>, captured |-> FALSE, x |-> 0, y |-> 0,
   maxX |-> MaxPointer - 1, maxY |-> MaxPointer - 1,
   left |-> FALSE, right |-> FALSE, lost |-> {}]

Key(k) == [kind |-> "key", key |-> k]
Move(x, y) == [kind |-> "move", x |-> x, y |-> y]
Button(button, pressed) == [kind |-> "button", button |-> button, pressed |-> pressed]

\* What an event tells of: the pointer, the left button, or something else.
Topic(e) ==
  CASE e.kind = "move" -> "pointer"
    [] e.kind = "button" /\ e.button = 1 -> "left"
    [] OTHER -> "other"
Topics(events) == {Topic(events[i]) : i \in DOMAIN events}

\* The events become these.  lost is a history variable: the topics whose last event
\* was thrown away, and did not go to the display server.
Requeued(q, events) ==
  [q EXCEPT !.events = events, !.lost = (@ \cup Topics(q.events)) \ Topics(events)]

Push(q, e) ==
  LET n == Len(q.events)
      merges == e.kind = "move" /\ n # 0 /\ q.events[n].kind = "move"
  IN Requeued(q, IF merges THEN [q.events EXCEPT ![n] = e]
                 ELSE Append(IF n = QueueCapacity THEN Tail(q.events) ELSE q.events, e))

Capture(q) == [Requeued(q, <<>>) EXCEPT !.captured = TRUE]
Release(q) == [q EXCEPT !.captured = FALSE]

PushKey(q, k) == Push(q, Key(k))

PushPointer(q, dx, dy) ==
  LET x == Clamp(q.x + dx, 0, q.maxX)
      y == Clamp(q.y + dy, 0, q.maxY)
  IN Push([q EXCEPT !.x = x, !.y = y], Move(x, y))

ClampPointer(q, width, height) ==
  LET maxX == Clamp(width - 1, 0, width)
      maxY == Clamp(height - 1, 0, height)
  IN [q EXCEPT !.maxX = maxX, !.maxY = maxY, !.x = Clamp(@, 0, maxX), !.y = Clamp(@, 0, maxY)]

\* A report tells the state of a button; an event is its change.
PushLeft(q, pressed) ==
  IF q.left = pressed THEN q ELSE Push([q EXCEPT !.left = pressed], Button(1, pressed))
PushRight(q, pressed) ==
  IF q.right = pressed THEN q ELSE Push([q EXCEPT !.right = pressed], Button(2, pressed))

\* input_poll: the keys that arrived, if the input is captured, then what the mouse
\* reported, and then the oldest event is taken by the caller.  Where that is not the
\* display server the event is lost.
AddKeys(q, keys) == IF q.captured /\ keys # <<>> THEN PushKey(q, keys[1]) ELSE q
AddMove(q, dx, dy) == IF dx = 0 /\ dy = 0 THEN q ELSE PushPointer(q, dx, dy)
AddButtons(q, left, right) == PushRight(PushLeft(q, left), right)
Polled(q) == IF q.events = <<>> THEN q ELSE [q EXCEPT !.events = Tail(@)]
PolledAway(q) == IF q.events = <<>> THEN q ELSE Requeued(q, Tail(q.events))
=============================================================================
