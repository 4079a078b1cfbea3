---------------------------- MODULE Redirections ----------------------------
(***************************************************************************)
(* Redirections of the shell, `command < in > out` (userland/apps/shell/   *)
(* exec.rs): a builtin runs in the shell itself, on descriptors that are   *)
(* moved aside and put back; an external command runs in a child, and the  *)
(* shell closes what it opened for it.                                     *)
(*                                                                         *)
(* Only the shell touches its table, so a command is one step; open may    *)
(* fail for a missing file, and every call for want of a free entry.       *)
(***************************************************************************)
EXTENDS Naturals, FiniteSets, FiniteSetsExt

CONSTANT MaxOpenFds   \* MAX_OPEN_FDS

ASSUME RedirectionAssumption == MaxOpenFds \in Nat /\ MaxOpenFds >= 3

VARIABLES
  table,   \* the shell's DescriptorTable
  last     \* the last command: what it was told, and what it saw if it ran

redirectionVars == <<table, last>>

Fds == 0 .. MaxOpenFds - 1
Stdin == 0
Stdout == 1
Console == "console"
Closed == "closed"

-----------------------------------------------------------------------------
(* System calls on a table.                                                *)

Free(t) == {fd \in Fds : fd > 2 /\ t[fd] = Closed}
Lowest(t) == Min(Free(t))
Close(t, fd) == [t EXCEPT ![fd] = Closed]
DuplicateTo(t, source, target) == [t EXCEPT ![target] = t[source]]

\* open, and dup, when an entry is free.
Open(t, object) == [t EXCEPT ![Lowest(t)] = object]
Duplicate(t, fd) == Open(t, t[fd])

-----------------------------------------------------------------------------
(* A builtin: run_builtin_redirected.                                      *)

NotSaved == MaxOpenFds   \* usize::MAX

\* One redirection: the file is opened, the old descriptor saved, the file
\* installed.  saved is NotSaved when a call failed.
Redirected(t, fd, object, opens) ==
  LET file == Lowest(t)
      opened == Open(t, object)
      saved == Lowest(opened)
  IN CASE ~opens \/ Free(t) = {} ->
            [table |-> t, saved |-> NotSaved]
       [] opens /\ Free(t) # {} /\ Free(opened) = {} ->
            [table |-> Close(opened, file), saved |-> NotSaved]
       [] opens /\ Free(t) # {} /\ Free(opened) # {} ->
            [table |-> DuplicateTo(Duplicate(opened, fd), file, fd), saved |-> saved]

\* restore_stdin, and the same for stdout: the copy goes back to its place.
\* Mutant: the copy is closed and its place kept.
RestoreClosed(t, fd, saved) == IF saved = NotSaved THEN t ELSE Close(t, saved)
Restore(t, fd, saved) ==
  IF saved = NotSaved THEN t ELSE Close(DuplicateTo(t, saved, fd), saved)

Told(in, out) == <<IF in THEN "in" ELSE Console, IF out THEN "out" ELSE Console>>
Ran(in, out, seen) == [ran |-> TRUE, told |-> Told(in, out), seen |-> seen]
Refused(in, out) == [ran |-> FALSE, told |-> Told(in, out), seen |-> <<Console, Console>>]

\* inOpens and outOpens: whether the file can be opened.
RunBuiltinRedirected(in, out, inOpens, outOpens) ==
  LET first == IF in THEN Redirected(table, Stdin, "in", inOpens)
                     ELSE [table |-> table, saved |-> NotSaved]
      second == IF out THEN Redirected(first.table, Stdout, "out", outOpens)
                       ELSE [first EXCEPT !.saved = NotSaved]
  IN \/ /\ in /\ first.saved = NotSaved
        /\ table' = first.table /\ last' = Refused(in, out)
     \/ /\ ~ (in /\ first.saved = NotSaved) /\ out /\ second.saved = NotSaved
        /\ table' = Restore(second.table, Stdin, first.saved)
        /\ last' = Refused(in, out)
     \/ /\ ~ (in /\ first.saved = NotSaved) /\ ~ (out /\ second.saved = NotSaved)
        /\ last' = Ran(in, out, <<second.table[Stdin], second.table[Stdout]>>)
        /\ table' = Restore(Restore(second.table, Stdout, second.saved), Stdin, first.saved)

-----------------------------------------------------------------------------
(* An external command: run_external, and the child up to execve.          *)

\* The files that are opened before the fork, in order; opened is a set of
\* <<descriptor, place it is for>>.
OpenedFor(in, out) ==
  LET read == Lowest(table)
      t == IF in THEN Open(table, "in") ELSE table
      write == Lowest(t)
  IN [table |-> IF out THEN Open(t, "out") ELSE t,
      opened |-> (IF in THEN {<<read, Stdin>>} ELSE {})
                   \cup (IF out THEN {<<write, Stdout>>} ELSE {})]

CloseAll(t, E) == [fd \in Fds |-> IF \E e \in E : e[1] = fd THEN Closed ELSE t[fd]]

\* The child installs its files and closes the copies.  Mutant: the other way round.
InstallAll(t, E) == [fd \in Fds |-> IF \E e \in E : e[2] = fd
                                    THEN t[CHOOSE f \in Fds : <<f, fd>> \in E]
                                    ELSE t[fd]]
ChildClosesFirst(t, E) == InstallAll(CloseAll(t, E), E)
ChildTable(t, E) == CloseAll(InstallAll(t, E), E)

\* A file that is missing, a full table and a fork that fails all leave the
\* table as it was.
RunExternal(in, out) ==
  LET o == OpenedFor(in, out)
      child == ChildTable(o.table, o.opened)
  IN \/ /\ Cardinality(Free(table)) >= (IF in THEN 1 ELSE 0) + (IF out THEN 1 ELSE 0)
        /\ last' = Ran(in, out, <<child[Stdin], child[Stdout]>>)
        /\ table' = CloseAll(o.table, o.opened)
     \/ /\ last' = Refused(in, out) /\ UNCHANGED table

-----------------------------------------------------------------------------
RedirectionsInit ==
  /\ table = [fd \in Fds |-> IF fd <= 2 THEN Console ELSE Closed]
  /\ last = Refused(FALSE, FALSE)

\* run_single, of a command with redirections.
RedirectionsNext ==
  \E in, out \in BOOLEAN :
    \/ \E inOpens, outOpens \in BOOLEAN : RunBuiltinRedirected(in, out, inOpens, outOpens)
    \/ RunExternal(in, out)

RedirectionsSpec == RedirectionsInit /\ [][RedirectionsNext]_redirectionVars

-----------------------------------------------------------------------------
(* Properties.                                                             *)

\* Between two commands the shell reads and writes the console, whatever the last
\* command was redirected to and wherever it failed.
ShellKeepsConsole == \A fd \in 0 .. 2 : table[fd] = Console

\* A command that runs finds its input and its output where it was told.
CommandSeesItsFiles == last.ran => last.seen = last.told
=============================================================================
