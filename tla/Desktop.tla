------------------------------ MODULE Desktop ------------------------------
(***************************************************************************)
(* The display server (userland/apps/display), its clients (userland/api,  *)
(* ede/panel.rs) and the two kernel tables between them, InputQueue and    *)
(* Surfaces.  A step is one system call of one process together with the   *)
(* computation behind it, so that clients come, go and draw between any    *)
(* two calls of the server.                                                *)
(*                                                                         *)
(* What is drawn is the layout the last composition went by, the number of *)
(* the image that each surface had then, and where the cursor is; pixels,  *)
(* colours and text are left out.  One display is followed as the server.  *)
(* Nothing stops a second one: it is a client that makes the calls of a    *)
(* display, and what it paints over the screen is not part of drawn.       *)
(*                                                                         *)
(* A process that waits for a key, or that runs on without a call while    *)
(* PID 1 waits and the timer preempts nobody, keeps the CPU.               *)
(***************************************************************************)
EXTENDS InputQueue, Surfaces, SequencesExt

CONSTANTS
  Width, Height,     \* the screen
  Windows,           \* sequence: the windows of the server, [x, y, width, height]
  Border,            \* of a window
  TitleHeight,
  SurfaceSizes,      \* sizes [width, height] of surfaces
  Cascade,           \* [x, y, dx, dy, length]: where surfaces are put
  StartPointer,      \* where the server thinks the pointer is at first
  MaxPolls,          \* events of one round of poll_events
  Moves,             \* movements of the mouse that are tried
  MaxBorn,           \* bound on the processes that are ever started
  MaxSteps           \* bound on the keys, the reports and the calls of clients

ASSUME DesktopAssumption ==
  /\ MaxBorn \in Nat /\ Len(Windows) \in Nat \ {0}
  /\ Width \in Nat \ {0} /\ Height \in Nat \ {0} /\ StartPointer \in Nat \X Nat

VARIABLES
  queue,      \* input.rs
  surfaces,   \* surface.rs
  procs,      \* the process of each pid, [kind, born]
  server,     \* the Compositor
  keeper,     \* who keeps the CPU; 0: nobody
  births,     \* number of processes so far
  steps       \* number of keys, reports and calls of clients so far

vars == <<queue, surfaces, procs, server, keeper, births, steps>>

Pids == 1 .. MaxBorn
WindowIds == 1 .. Len(Windows)
Nobody == [kind |-> "none", born |-> 0]
Runs(pid, kind) == procs[pid].kind = kind
Table == {p \in Pids : procs[p].kind # "none"}
ServerPid == CHOOSE p \in Pids : Runs(p, "server")
ServerLives == \E p \in Pids : Runs(p, "server")

-----------------------------------------------------------------------------
(* The layout.                                                             *)

Outer(w) == [x |-> w.x, y |-> w.y, width |-> w.width + 2 * Border,
             height |-> w.height + TitleHeight + Border]
Title(w) == [Outer(w) EXCEPT !.height = TitleHeight]
Covers(r, x, y) == x >= r.x /\ x < r.x + r.width /\ y >= r.y /\ y < r.y + r.height

MovedTo(w, x, y) ==
  [w EXCEPT !.x = Clamp(x, 0, Clamp(Width - Outer(w).width, 0, Width)),
            !.y = Clamp(y, 0, Clamp(Height - Outer(w).height, 0, Height))]

\* external_position: the first is the panel, the others are a cascade.
Position(index, size) ==
  LET slot == (index - 1) % Cascade.length
      x == Cascade.x + slot * Cascade.dx
      right == Clamp(Width - size.width, 0, Width)
  IN IF index = 0 THEN [x |-> 0, y |-> 0]
     ELSE [x |-> IF x < right THEN x ELSE right, y |-> Cascade.y + slot * Cascade.dy]

External(id, index, slot) ==
  [id |-> id, x |-> Position(index, slot.size).x, y |-> Position(index, slot.size).y,
   width |-> slot.size.width, height |-> slot.size.height, image |-> slot.image]
\* The same entry with what the slot says by now; it stays where it is.
Renewed(e, slot) ==
  [id |-> e.id, x |-> e.x, y |-> e.y,
   width |-> slot.size.width, height |-> slot.size.height, image |-> slot.image]
Ids(external) == {external[i].id : i \in DOMAIN external}

\* external_at: the first in the list, -1 for none.
ExternalAt(c) ==
  LET under == {i \in DOMAIN c.external : Covers(c.external[i], c.x, c.y)}
  IN IF under = {} THEN -1 ELSE c.external[Min(under)].id

\* How many windows are behind each: by z, and by number where z is equal.
Behind(c, v, w) == c.z[v] < c.z[w] \/ (c.z[v] = c.z[w] /\ v < w)
Order(c) == [w \in WindowIds |-> Cardinality({v \in WindowIds : Behind(c, v, w)})]

\* What compose draws.  It reads the buffer of each client, whatever is in it by now.
Layout(c) == [windows |-> c.windows, order |-> Order(c), focused |-> c.focused,
              external |-> c.external]
Composed(c) ==
  [c EXCEPT !.drawn = Layout(c), !.cursor = <<c.x, c.y>>, !.dirty = FALSE]

\* z and frame_number only matter by their order: after each round they are
\* replaced by small numbers in the same order.
Ranks(z) == [w \in DOMAIN z |-> Cardinality({z[v] : v \in {u \in DOMAIN z : z[u] < z[w]}})]
NextFrame(c) ==
  LET z == Ranks(c.z)
      above == 1 + Max({z[w] : w \in DOMAIN z})
  IN [c EXCEPT !.z = z, !.frame = IF c.frame + 1 > above THEN above ELSE c.frame + 1]

NoServer ==
  [pc |-> "none", windows |-> Windows, z |-> [w \in WindowIds |-> w - 1], focused |-> Len(Windows),
   x |-> StartPointer[1], y |-> StartPointer[2], dragging |-> 0, grip |-> <<0, 0>>,
   lastLeft |-> FALSE, external |-> <<>>, dirty |-> TRUE, cursorDirty |-> FALSE, frame |-> 0,
   polls |-> 0, send |-> <<>>, drawn |-> <<>>, cursor |-> <<>>,
   moved |-> FALSE, clicked |-> FALSE]

-----------------------------------------------------------------------------
(* Processes.                                                              *)

\* n more of the MaxSteps.
Takes(n) == steps' = steps + n /\ steps' <= MaxSteps

Init ==
  /\ queue = NewQueue /\ surfaces = NoSurfaces
  /\ procs = [p \in Pids |-> Nobody] /\ server = NoServer /\ keeper = 0
  /\ births = 0 /\ steps = 0

\* A new process gets the pid above those in the table, zombies included.
Start(kind) ==
  LET pid == 1 + Max({0} \cup Table)
  IN /\ births < MaxBorn /\ Cardinality(Table) < MaxProcesses
     /\ procs' = [procs EXCEPT ![pid] = [kind |-> kind, born |-> births + 1]]
     /\ births' = births + 1

StartClient == Start("client") /\ UNCHANGED <<queue, surfaces, server, steps>>

\* display: map the framebuffer, take the console, compose once.  The one that is
\* followed starts while no other is: a second display is a client.
StartServer ==
  /\ ~ServerLives /\ Start("server")
  /\ queue' = [Capture(ClampPointer(queue, Width, Height)) EXCEPT !.lost = {}]
  /\ server' = [Composed(NoServer) EXCEPT !.pc = "poll"]
  /\ UNCHANGED <<surfaces, steps>>

\* schedule(exiting): surfaces and events of the process go; and the input goes back
\* to the console, whoever ends.
Exited(pid) ==
  /\ procs' = [procs EXCEPT ![pid].kind = "zombie"]
  /\ surfaces' = ReleasePid(surfaces, pid)
  /\ queue' = Release(queue)
  /\ server' = IF Runs(pid, "server") THEN NoServer ELSE server

Exit(pid) ==
  /\ procs[pid].kind \in {"client", "server"} /\ keeper \in {0, pid}
  /\ Exited(pid) /\ keeper' = 0 /\ UNCHANGED <<births, steps>>

Collect(pid) ==
  /\ Runs(pid, "zombie")
  /\ procs' = [procs EXCEPT ![pid] = Nobody]
  /\ UNCHANGED <<queue, surfaces, server, births, steps>>

-----------------------------------------------------------------------------
(* Clients.                                                                *)

\* What a client puts into its buffer is not what the screen shows of that slot: of
\* all images only this one and the one on the screen are told apart.
Composes(s, image) ==
  /\ server.pc # "none"
  /\ \E i \in DOMAIN server.drawn.external :
       server.drawn.external[i].id = s /\ server.drawn.external[i].image = image
NewImage(s) == IF Composes(s, 1) THEN 2 ELSE 1

Create(pid) ==
  \E size \in SurfaceSizes :
    /\ Runs(pid, "client") /\ FreeSlots(surfaces) # {}
    /\ surfaces' = CreateSurface(surfaces, pid, procs[pid].born, size,
                                 NewImage(Min(FreeSlots(surfaces))))

Present(pid) ==
  \E s \in Slots, shown \in BOOLEAN :
    Runs(pid, "client") /\ Owns(surfaces, pid, s) /\ surfaces' = PresentSurface(surfaces, s, shown)

Flush(pid) ==
  \E s \in Slots :
    /\ Runs(pid, "client") /\ Owns(surfaces, pid, s)
    /\ surfaces' = FlushSurface(surfaces, s, NewImage(s))

Destroy(pid) ==
  \E s \in Slots :
    Runs(pid, "client") /\ Owns(surfaces, pid, s) /\ surfaces' = DestroySurface(surfaces, s)

PollEvent(pid) ==
  /\ Runs(pid, "client") /\ surfaces.events[Line(pid)] # <<>>
  /\ surfaces' = PopEvent(surfaces, pid)

ClientCall(pid) ==
  /\ \/ Takes(1) /\ (Create(pid) \/ Present(pid) \/ Flush(pid) \/ Destroy(pid))
     \/ PollEvent(pid) /\ UNCHANGED steps
  /\ UNCHANGED <<queue, procs, server, births>>

-----------------------------------------------------------------------------
(* Input.                                                                  *)

\* What arrives before a call of input_poll: a key, or a report of the mouse.
Reports ==
  {r \in [keys : {<<>>, <<"a">>, <<"q">>}, move : Moves \cup {<<0, 0>>}, left : BOOLEAN] :
     r.keys = <<>> \/ (r.move = <<0, 0>> /\ r.left = queue.left)}
IsNews(r) == r.keys # <<>> \/ r.move # <<0, 0>> \/ r.left # queue.left
Arrived(r) ==
  LET moved == AddMove(AddKeys(queue, r.keys), r.move[1], r.move[2])
  IN AddButtons(moved, r.left, moved.right)

\* A client makes a call of a display, as a second display does: it maps the screen
\* and takes the console, polls the input, or sends an event to any surface.
TakeConsole(pid) ==
  /\ Runs(pid, "client") /\ Takes(1) /\ queue' = Capture(ClampPointer(queue, Width, Height))
PollAway(pid) ==
  /\ Runs(pid, "client")
  /\ \E r \in Reports :
       Takes(IF IsNews(r) THEN 2 ELSE 1) /\ queue' = PolledAway(Arrived(r))
SendAnywhere(pid) ==
  /\ Runs(pid, "client") /\ Takes(1)
  /\ \E s \in Slots : surfaces' = PushToSurface(surfaces, s, "key")
DisplayCall(pid) ==
  /\ \/ (TakeConsole(pid) \/ PollAway(pid)) /\ UNCHANGED surfaces
     \/ SendAnywhere(pid) /\ UNCHANGED queue
  /\ UNCHANGED <<procs, server, births>>

\* A process keeps the CPU.  If it waits for a key while the input is captured, every
\* key is diverted and it waits on.
KeepCpu(pid) ==
  /\ keeper = 0 /\ Runs(pid, "client")
  /\ keeper' = pid /\ UNCHANGED <<queue, surfaces, procs, server, births, steps>>
ReadCharacter ==
  /\ keeper # 0 /\ queue.captured /\ Takes(1)
  /\ queue' = PushKey(queue, "a")
  /\ UNCHANGED <<surfaces, procs, server, keeper, births>>
\* It gets its key, yields, or is preempted, as the timer does when nobody waits.
GiveCpu ==
  /\ keeper # 0
  /\ keeper' = 0 /\ UNCHANGED <<queue, surfaces, procs, server, births, steps>>

-----------------------------------------------------------------------------
(* The server: poll_events.                                                *)

\* What has to be sent to the surface under the pointer, or to the newest one.
ToPointer(c, kind) == IF ExternalAt(c) = -1 THEN <<>> ELSE <<[surface |-> ExternalAt(c), kind |-> kind]>>
ToNewest(c) ==
  IF c.external = <<>> THEN <<>> ELSE <<[surface |-> Last(c.external).id, kind |-> "key"]>>

OnKey(c) == [c EXCEPT !.send = ToNewest(c)]

Dragged(c) ==
  IF c.dragging = 0 THEN c
  ELSE [c EXCEPT !.windows[c.dragging] = MovedTo(@, c.x - c.grip[1], c.y - c.grip[2])]
OnMove(c, e) ==
  LET there == [c EXCEPT !.x = e.x, !.y = e.y, !.moved = TRUE,
                         !.cursorDirty = @ \/ <<c.x, c.y>> # <<e.x, e.y>>]
  IN [Dragged(there) EXCEPT !.send = ToPointer(there, "move")]

\* begin_drag_or_focus: by number, not by z.
UnderPointer(c) == {w \in WindowIds : Covers(Outer(c.windows[w]), c.x, c.y)}
BeginDragOrFocus(c) ==
  LET w == Max(UnderPointer(c))
      at == c.windows[w]
      held == Covers(Title(at), c.x, c.y)
  IN IF UnderPointer(c) = {} THEN c
     ELSE [c EXCEPT !.focused = w, !.z[w] = c.frame,
                    !.dragging = IF held THEN w ELSE @,
                    !.grip = IF held THEN <<c.x - at.x, c.y - at.y>> ELSE @]

OnPress(c) ==
  LET sent == ToPointer(c, "button")
      taken == IF sent = <<>> THEN BeginDragOrFocus(c) ELSE c
  IN [taken EXCEPT !.send = sent, !.dirty = TRUE, !.lastLeft = TRUE]
\* Mutants: the end of a drag is not drawn; the window stays on the pointer.
OnReleaseSilent(c) ==
  [c EXCEPT !.dragging = 0, !.send = ToPointer(c, "button"), !.lastLeft = FALSE]
OnReleaseHolding(c) ==
  [c EXCEPT !.dirty = TRUE, !.send = ToPointer(c, "button"), !.lastLeft = FALSE]
OnRelease(c) ==
  [c EXCEPT !.dragging = 0, !.dirty = TRUE, !.send = ToPointer(c, "button"), !.lastLeft = FALSE]

\* A press or a release the server knows of already changes nothing.
OnLeft(c, pressed) ==
  CASE pressed /\ ~c.lastLeft -> OnPress(c)
    [] ~pressed /\ c.lastLeft -> OnRelease(c)
    [] OTHER -> c

Handled(c, e) ==
  CASE e.kind = "key" -> OnKey(c)
    [] e.kind = "move" -> OnMove(c, e)
    [] e.kind = "button" /\ e.button = 1 -> OnLeft([c EXCEPT !.clicked = TRUE], e.pressed)
    [] OTHER -> c

\* Where the round goes on; MaxPolls events end poll_events.
Onward(c) ==
  [c EXCEPT !.pc = IF c.send # <<>> THEN "send" ELSE IF c.polls < MaxPolls THEN "poll" ELSE "sync"]

\* The oldest event is handled; the key q ends the server.
TakeEvent(q) ==
  \/ /\ q.events = <<>>
     /\ queue' = q /\ server' = [server EXCEPT !.pc = "sync"]
     /\ UNCHANGED <<surfaces, procs>>
  \/ /\ q.events # <<>> /\ Head(q.events) # Key("q")
     /\ queue' = Polled(q)
     /\ \E c \in {Handled(server, Head(q.events))} : server' = Onward([c EXCEPT !.polls = @ + 1])
     /\ UNCHANGED <<surfaces, procs>>
  \/ /\ q.events # <<>> /\ Head(q.events) = Key("q")
     /\ procs' = [procs EXCEPT ![ServerPid].kind = "zombie"]
     /\ surfaces' = ReleasePid(surfaces, ServerPid)
     /\ queue' = Release(Polled(q)) /\ server' = NoServer

\* poll_input: what arrived by now is queued, and the oldest event is taken.
PollInput ==
  /\ server.pc = "poll"
  /\ \E r \in Reports :
       /\ Takes(IF IsNews(r) THEN 1 ELSE 0)
       /\ \E q \in {Arrived(r)} : TakeEvent(q)
  /\ UNCHANGED births

\* send_surface_event, whoever has the surface by now.
SendEvent ==
  /\ server.pc = "send"
  /\ surfaces' = PushToSurface(surfaces, server.send[1].surface, server.send[1].kind)
  /\ server' = Onward([server EXCEPT !.send = <<>>])
  /\ UNCHANGED <<queue, procs, births, steps>>

-----------------------------------------------------------------------------
(* The server: sync_external and the end of a round.                       *)

\* The members of a finite set of numbers, the least first.
InOrder(S) == [k \in 1 .. Cardinality(S) |-> CHOOSE n \in S : Cardinality({m \in S : m < n}) = k - 1]

\* A surface that is still visible gets the size and the buffer of its slot, whoever
\* has that slot by now, and nothing is drawn for it.
Kept(c, visible, slots) ==
  LET left == InOrder({i \in DOMAIN c.external : c.external[i].id \in visible})
  IN [k \in DOMAIN left |-> Renewed(c.external[left[k]], slots[c.external[left[k]].id])]
\* Mutant: the list is taken to be in the order of the slots.
NewIdsAbove(c, visible) ==
  InOrder({s \in visible : \A k \in Ids(c.external) : s > k})
NewIds(c, visible) == InOrder(visible \ Ids(c.external))
Added(new, index, slots) ==
  [i \in DOMAIN new |-> External(new[i], index + i - 1, slots[new[i]])]
\* Only a surface that is gone, or one that is new, makes the screen dirty.
Synced(c, visible, slots) ==
  LET kept == Kept(c, visible, slots)
      new == NewIds(c, visible)
  IN [c EXCEPT !.external = kept \o Added(new, Len(kept), slots),
               !.dirty = @ \/ new # <<>> \/ ~(Ids(c.external) \subseteq visible)]

\* The snapshot, the composition or the cursor alone, and the end of the round.
Shown(c) ==
  CASE c.dirty -> Composed(c)
    [] ~c.dirty /\ c.cursorDirty -> [c EXCEPT !.cursor = <<c.x, c.y>>, !.cursorDirty = FALSE]
    [] OTHER -> c
Sync ==
  /\ server.pc = "sync"
  /\ \E synced \in {Synced(server, Visible(surfaces), surfaces.slots)} :
       \E shown \in {Shown(synced)} :
         \E next \in {NextFrame(shown)} : server' = [next EXCEPT !.pc = "poll", !.polls = 0]
  /\ UNCHANGED <<queue, surfaces, procs, births, steps>>

ServerRuns == keeper = 0 /\ UNCHANGED keeper /\ (PollInput \/ SendEvent \/ Sync)
OthersRun ==
  /\ keeper = 0 /\ UNCHANGED keeper
  /\ \/ StartClient \/ StartServer
     \/ \E p \in Pids : Collect(p) \/ ClientCall(p) \/ DisplayCall(p)
Next ==
  \/ ServerRuns \/ OthersRun \/ ReadCharacter \/ GiveCpu
  \/ \E p \in Pids : Exit(p) \/ KeepCpu(p)

Spec == Init /\ [][Next]_vars

\* The slots take turns: whenever the CPU is given away again and again, a display
\* that lives takes steps again and again.
FairSpec ==
  /\ Spec
  /\ []<>(keeper = 0 /\ ServerLives) => []<><<ServerLives /\ server' # server>>_vars

-----------------------------------------------------------------------------
(* Properties.                                                             *)

\* What a process leaves in the tables dies with it, pids that come back included:
\* a surface belongs to the process that created it, and an event that waits is
\* for a process that lives.
TheDeadLeaveNothing ==
  /\ \A s \in Slots : LET x == surfaces.slots[s] IN
       x.owner # 0 => procs[x.owner] = [kind |-> "client", born |-> x.born]
  /\ \A l \in Lines : \A i \in DOMAIN surfaces.events[l] :
       \E p \in Pids : Line(p) = l /\ procs[p] = [kind |-> "client", born |-> surfaces.events[l][i].born]

\* Once all events are taken the display knows where the pointer is and whether the
\* left button is held, and drags no window without it, but for what it was never
\* told: before the first movement, or the first change of the button, it takes what it
\* starts from, and where the last event of the one or the other was thrown away it
\* keeps what it knew, until the next such event comes.
MouseIsTracked ==
  (ServerLives /\ queue.events = <<>>) =>
    /\ "pointer" \notin queue.lost =>
         <<server.x, server.y>> = IF server.moved THEN <<queue.x, queue.y>> ELSE StartPointer
    /\ "left" \notin queue.lost => (server.lastLeft <=> server.clicked /\ queue.left)
    /\ "left" \notin queue.lost /\ server.dragging # 0 => queue.left

\* Where the surfaces are, without their sizes and their contents.
Placed(external) ==
  [i \in DOMAIN external |-> [id |-> external[i].id, x |-> external[i].x, y |-> external[i].y]]
Outline(layout) == [layout EXCEPT !.external = Placed(@)]

\* Between two rounds the screen shows the windows, the cursor, and which surfaces
\* there are and where; a window that is being dragged is drawn when it is dropped.
\* The size and the contents of a surface are those of the last composition.
ScreenIsCurrent ==
  (server.pc = "poll" /\ server.polls = 0) =>
    /\ server.dragging = 0 => Outline(server.drawn) = Outline(Layout(server))
    /\ Placed(server.drawn.external) = Placed(server.external)
    /\ server.cursor = <<server.x, server.y>>

\* The screen shows the surface as it is: its size and its latest image.
IsShown(s) ==
  \E i \in DOMAIN server.drawn.external :
    LET e == server.drawn.external[i]
        slot == surfaces.slots[s]
    IN e.id = s /\ [width |-> e.width, height |-> e.height] = slot.size /\ e.image = slot.image
CpuIsGivenAway == []<>(keeper = 0)

\* A visible surface the display has not in its list is put on the screen, with the
\* size and the image it has, by a display that lives and while it stays visible.
SurfacesGetDrawn ==
  CpuIsGivenAway =>
  \A s \in Slots :
    (ServerLives /\ s \in Visible(surfaces) /\ s \notin Ids(server.external)) ~>
      (~ServerLives \/ s \notin Visible(surfaces) \/ IsShown(s))
=============================================================================
