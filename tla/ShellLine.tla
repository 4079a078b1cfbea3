----------------------------- MODULE ShellLine -----------------------------
(***************************************************************************)
(* A line of the shell, from the prompt to the prompt (userland/apps/      *)
(* shell): run_line reads it into a list of pipelines (parser.rs) and      *)
(* runs them one by one as their connectors say (exec.rs).                 *)
(*                                                                         *)
(* A single command is one step, with the redirections of Redirections; so *)
(* is a pipeline, whose processes are the subject of Pipeline.  What a     *)
(* program answers is any of Statuses.                                     *)
(***************************************************************************)
EXTENDS ShellWords, Redirections

CONSTANTS
  MaxPipeline, MaxWords, MaxEntries,   \* parser.rs
  Files, Directories,                  \* what is_file and is_dir answer TRUE for
  Statuses,                            \* what programs exit with
  Lines,                               \* what may be typed
  MaxLines,                            \* bound on the lines of a session
  Texts                                \* texts that the properties quote

VARIABLES
  env,      \* Environment
  cwd,      \* the working directory
  line,     \* the line that is run, "" at the prompt
  entries,  \* its list
  at,       \* index into entries; past its end the line is done
  ran,      \* history of the line: the entries that were run, with their status
  child,    \* what execve was last given on this line
  session   \* lines typed so far, and whether the shell still runs

lineVars == <<env, cwd, line, entries, at, ran, child, session>>

-----------------------------------------------------------------------------
(* The parser.                                                             *)

Redirects == {"<", ">", ">>"}
NoWord == <<>>
EmptyCommand == [words |-> <<>>, in |-> NoWord, out |-> NoWord, append |-> FALSE]

\* parse_command, one token at a time; pending is the RedirectSlot.
\* Mutant: the word after a redirection's target still goes to the target.
TakeSticky(c, token) ==
  CASE token.operator = "word" /\ c.pending = "<" -> [c EXCEPT !.command.in = token.word]
    [] token.operator = "word" /\ c.pending = ">" -> [c EXCEPT !.command.out = token.word]
    [] token.operator = "word" /\ c.pending = "" -> [c EXCEPT !.command.words = Append(@, token.word)]
    [] token.operator = "<" -> [c EXCEPT !.command.in = NoWord, !.pending = "<"]
    [] token.operator \in {">", ">>"} ->
         [c EXCEPT !.command.out = NoWord, !.command.append = token.operator = ">>", !.pending = ">"]
Take(c, token) ==
  CASE token.operator = "word" /\ c.pending = "<" ->
         [c EXCEPT !.command.in = token.word, !.pending = ""]
    [] token.operator = "word" /\ c.pending = ">" ->
         [c EXCEPT !.command.out = token.word, !.pending = ""]
    [] token.operator = "word" /\ c.pending = "" ->
         [c EXCEPT !.command.words = Append(@, token.word),
                   !.fine = @ /\ Len(c.command.words) < MaxWords]
    [] token.operator = "<" ->
         [c EXCEPT !.command.in = NoWord, !.pending = "<", !.fine = @ /\ c.pending = ""]
    [] token.operator \in {">", ">>"} ->
         [c EXCEPT !.command.out = NoWord, !.command.append = token.operator = ">>",
                   !.pending = ">", !.fine = @ /\ c.pending = ""]

EndOfCommand(tokens, i) ==
  FirstOf(tokens, i, {j \in DOMAIN tokens : tokens[j].operator \notin Redirects \cup {"word"}})

ParseCommand(tokens, i) ==
  LET end == EndOfCommand(tokens, i)
      c == FoldLeft(Take, [command |-> EmptyCommand, pending |-> "", fine |-> TRUE],
                    SubSeq(tokens, i, end - 1))
  IN [command |-> c.command, next |-> end,
      fine |-> c.fine /\ c.pending = "" /\ c.command.words # <<>>]

OperatorOf(tokens, i) == IF i \in DOMAIN tokens THEN tokens[i].operator ELSE "end"

\* parse_pipeline: commands and the connector after them.
RECURSIVE ParsePipeline(_, _)
ParsePipeline(tokens, i) ==
  LET c == ParseCommand(tokens, i)
      after == OperatorOf(tokens, c.next)
      rest == ParsePipeline(tokens, c.next + 1)
  IN IF c.fine /\ after = "|"
     THEN [rest EXCEPT !.commands = <<c.command>> \o @,
                       !.fine = @ /\ Len(rest.commands) < MaxPipeline]
     ELSE [commands |-> <<c.command>>, connector |-> after, fine |-> c.fine,
           next |-> IF after = "end" THEN c.next ELSE c.next + 1]

\* parse_list.
RECURSIVE ParseFrom(_, _)
ParseFrom(tokens, i) ==
  LET p == ParsePipeline(tokens, i)
      rest == ParseFrom(tokens, p.next)
  IN CASE i > Len(tokens) -> [entries |-> <<>>, fine |-> TRUE]
       [] i <= Len(tokens) /\ ~p.fine -> [entries |-> <<>>, fine |-> FALSE]
       [] i <= Len(tokens) /\ p.fine ->
            [entries |-> <<[commands |-> p.commands, connector |-> p.connector]>> \o rest.entries,
             fine |-> rest.fine /\ Len(rest.entries) < MaxEntries]

ParseList(tokens) == ParseFrom(tokens, 1)

-----------------------------------------------------------------------------
(* Builtins.                                                               *)

Builtins == {"cd", "pwd", "echo", "export", "unset", "set", "exit", "logout",
             ":", "true", "false", "help"}

\* What a builtin leaves behind.
Left(e, c, status) == [env |-> e, cwd |-> c, status |-> status]

ChangeDirectory(arguments) ==
  LET home == IF "HOME" \in DOMAIN env THEN env["HOME"].value ELSE "/"
      targets == IF arguments # <<>> THEN Expand(arguments[1], env)
                 ELSE IF Len(home) > FieldSize THEN <<>> ELSE <<home>>
      Moved(path) == IF path \in Directories
                     THEN Left(Set(env, "PWD", path, TRUE), path, 0) ELSE Left(env, cwd, 1)
      MovedTo(target, tilde) == IF target # "" /\ tilde = None THEN Left(env, cwd, 1)
                                ELSE Moved(Resolve(cwd, tilde))
  IN IF Len(arguments) > 1 \/ targets = <<>> THEN Left(env, cwd, 1) 
     ELSE MovedTo(targets[1], ExpandTilde(targets[1], home))

\* One field of export: NAME=VALUE, or a name alone.
ExportOne(e, field) ==
  LET equal == FirstOf(field, 1, Having(field, {"="}))
  IN IF equal <= Len(field)
     THEN Set(e, SubSeq(field, 1, equal - 1), From(field, equal + 1), TRUE)
     ELSE Set(e, field, Value(e, field), TRUE)

\* Each word is expanded when the ones before it are set.
Export(arguments) ==
  FoldLeft(LAMBDA e, word : FoldLeft(ExportOne, e, Expand(word, e)), env, arguments)

UnsetAll(arguments) ==
  FoldLeft(LAMBDA e, word : IF IsLiteral(word) THEN Unset(e, word[1].text) ELSE e, env, arguments)

\* run_builtin.
Builtin(name, arguments) ==
  CASE name = "cd" -> ChangeDirectory(arguments)
    [] name = "export" -> Left(Export(arguments), cwd, 0)
    [] name = "unset" -> Left(UnsetAll(arguments), cwd, 0)
    [] name = "false" -> Left(env, cwd, 1)
    [] name \in Builtins \ {"cd", "export", "unset", "false"} -> Left(env, cwd, 0)

\* first_word: what the name of a command expands to, "" when it vanishes.
FirstWord(command) ==
  LET fields == Expand(command.words[1], env) IN IF fields = <<>> THEN "" ELSE fields[1]

-----------------------------------------------------------------------------
(* Programs.                                                               *)

\* The directories of PATH in order, the working directory for an empty one.
RECURSIVE SplitPath(_, _)
SplitPath(text, p) ==
  LET end == FirstOf(text, p, Having(text, {":"}))
      directory == SubSeq(text, p, end - 1)
  IN <<IF directory = "" THEN cwd ELSE directory>>
       \o (IF end > Len(text) THEN <<>> ELSE SplitPath(text, end + 1))

\* resolve_command, in the directories of PATH: the first file there is.
ResolveCommand(name) ==
  LET candidates == IF Having(name, {"/"}) # {} THEN <<Resolve(cwd, name)>>
                    ELSE FoldLeft(LAMBDA all, d : Append(all, WithSlash(d) \o name), <<>>,
                                  SplitPath(Value(env, "PATH"), 1))
      files == SelectSeq(candidates, LAMBDA c : c \in Files /\ Len(c) <= MaxPath)
  IN IF files = <<>> THEN None ELSE files[1]

\* join_arguments: the line a builtin in a child is run from.
JoinArguments(arguments) ==
  Cut(FoldLeft(LAMBDA text, a : text \o " " \o a, Head(arguments), Tail(arguments)), FieldSize)

\* The fields a child is given: MAX_WORDS of them.
ArgumentsOf(command) == Cut(Arguments(command.words, env), MaxWords)

NoChild == [path |-> None, arguments |-> <<>>]
Nothing == [image |-> NoChild, environment |-> {}]

\* execve_stage: the image the child becomes, NoChild if it cannot.
ImageOf(arguments) ==
  CASE arguments = <<>> -> NoChild
    [] arguments # <<>> /\ arguments[1] \in Builtins ->
         [path |-> "/bin/shell", arguments |-> <<"/bin/shell", "-c", JoinArguments(arguments)>>]
    [] arguments # <<>> /\ arguments[1] \notin Builtins ->
         [path |-> ResolveCommand(arguments[1]), arguments |-> arguments]

\* What waitpid may then tell: 126 when execve is refused.
StatusesOf(image) ==
  CASE image = NoChild -> {2}
    [] image # NoChild /\ image.path = None -> {127}
    [] image # NoChild /\ image.path # None -> Statuses \cup {126}

-----------------------------------------------------------------------------
(* The executor.                                                           *)

Done == Len(entries) + 1
Idle == line = ""
Current == entries[at]

\* skip_alternates: on to an entry that && and || do not follow.
SkipAlternates(i) == FirstOf(entries, i, {j \in DOMAIN entries : entries[j].connector \notin {"&&", "||"}})

\* The entry run_list goes on with.  Mutant: the connectors are not looked at.
AfterAll(status) == IF Current.connector = "end" THEN Done ELSE at + 1
After(status) ==
  CASE Current.connector \in {";", "&"} -> at + 1
    [] Current.connector = "&&" -> IF status = 0 THEN at + 1 ELSE SkipAlternates(at + 1)
    [] Current.connector = "||" -> IF status # 0 THEN at + 1 ELSE SkipAlternates(at + 1)
    [] Current.connector = "end" -> Done

\* An entry has run: $? is set, and the list goes on.
Finish(e, status) ==
  /\ env' = SetStatus(e, status)
  /\ ran' = Append(ran, [entry |-> at, status |-> status])
  /\ at' = After(status)

\* A builtin; after exit and logout nothing more of the line is run.
FinishBuiltin(name, arguments) ==
  \/ /\ name \in {"exit", "logout"}
     /\ env' = SetStatus(env, 0) /\ at' = Done
     /\ ran' = Append(ran, [entry |-> at, status |-> 0])
     /\ session' = [session EXCEPT !.runs = FALSE] /\ UNCHANGED cwd
  \/ /\ name \notin {"exit", "logout"}
     /\ \E b \in {Builtin(name, arguments)} : Finish(b.env, b.status) /\ cwd' = b.cwd
     /\ UNCHANGED session

In(command) == command.in # NoWord
Out(command) == command.out # NoWord
CanOpen(word) == word = NoWord \/ Expand(word, env) # <<>>

\* run_single, a builtin: on the shell's own console, or on redirections that may
\* be refused.
RunBuiltin(command, name) ==
  /\ name \in Builtins
  /\ \/ ~In(command) /\ ~Out(command) /\ UNCHANGED <<table, last>>
     \/ /\ In(command) \/ Out(command)
        /\ \E inOpens, outOpens \in BOOLEAN :
             /\ inOpens => CanOpen(command.in)
             /\ outOpens => CanOpen(command.out)
             /\ RunBuiltinRedirected(In(command), Out(command), inOpens, outOpens)
  /\ IF last'.ran \/ ~(In(command) \/ Out(command))
     THEN FinishBuiltin(name, Tail(command.words))
     ELSE Finish(env, 1) /\ UNCHANGED <<cwd, session>>
  /\ UNCHANGED child

\* run_single, anything else: a child, and its status.
RunProgram(command, name) ==
  /\ name \notin Builtins
  /\ RunExternal(In(command), Out(command))
  /\ IF last'.ran
     THEN /\ CanOpen(command.in) /\ CanOpen(command.out)
          /\ child' = [image |-> ImageOf(ArgumentsOf(command)), environment |-> Exported(env)]
          /\ \E status \in StatusesOf(child'.image) : Finish(env, status)
     ELSE Finish(env, 1) /\ UNCHANGED child
  /\ UNCHANGED <<cwd, session>>

\* run_pipeline of two commands and more: the status of the last one, or 1.
RunPipeline(commands) ==
  /\ \E image \in {ImageOf(ArgumentsOf(commands[Len(commands)]))} :
       \E status \in {1} \cup StatusesOf(image) : Finish(env, status)
  /\ UNCHANGED <<table, last, child, cwd, session>>

RunEntry ==
  /\ at < Done
  /\ \/ /\ Len(Current.commands) = 1
        /\ LET command == Current.commands[1]
           IN \E name \in {FirstWord(command)} : RunBuiltin(command, name) \/ RunProgram(command, name)
     \/ Len(Current.commands) > 1 /\ RunPipeline(Current.commands)
  /\ UNCHANGED <<line, entries>>

\* run_line, up to the list; a line that is refused runs nothing and leaves $?.
ReadLine(l) ==
  /\ Idle /\ session.runs /\ session.lines < MaxLines
  /\ line' = l
  /\ \E read \in {Tokenize(l)} : \E list \in {ParseList(read.tokens)} :
       entries' = IF read.fine /\ list.fine THEN list.entries ELSE <<>>
  /\ at' = 1
  /\ session' = [session EXCEPT !.lines = @ + 1]
  /\ UNCHANGED <<env, cwd, ran, child, table, last>>

\* The line is done: the prompt.
Prompt ==
  /\ ~Idle /\ at = Done /\ session.runs
  /\ line' = "" /\ entries' = <<>> /\ at' = 1 /\ ran' = <<>> /\ child' = Nothing
  /\ UNCHANGED <<env, cwd, session, table, last>>

LineInit ==
  /\ RedirectionsInit
  /\ env = NewEnvironment /\ cwd = "/" /\ line = "" /\ entries = <<>> /\ at = 1
  /\ ran = <<>> /\ child = Nothing /\ session = [lines |-> 0, runs |-> TRUE]

LineNext == (\E l \in Lines : ReadLine(l)) \/ RunEntry \/ Prompt

LineSpec == LineInit /\ [][LineNext]_<<lineVars, redirectionVars>>

-----------------------------------------------------------------------------
(* Properties.                                                             *)

\* Whatever the variables hold, a text in single quotes, and one in double quotes
\* with its special characters escaped, reaches a command as one argument, unchanged.
RECURSIVE Escaped(_)
Escaped(text) ==
  IF text = "" THEN ""
  ELSE (IF At(text, 1) \in Escapable THEN Backslash ELSE "") \o At(text, 1) \o Escaped(From(text, 2))

QuotedTextArrives ==
  Idle => \A text \in Texts :
    LET single == Tokenize(Apostrophe \o text \o Apostrophe)
        double == Tokenize("echo " \o Quote \o Escaped(text) \o Quote)
    IN /\ single.fine /\ double.fine
       /\ Len(single.tokens) = 1 /\ Expand(single.tokens[1].word, env) = <<text>>
       /\ Len(double.tokens) = 2 /\ Expand(double.tokens[2].word, env) = <<text>>

\* A list holds the words of its line and nothing else: each command the words between
\* its neighbours' operators that are no targets, each redirection the word after the last
\* operator of its kind; and a line is refused exactly for what it lacks, or for more
\* words, stages or entries than there is room for.
Separators(tokens) == {i \in DOMAIN tokens : tokens[i].operator \notin Redirects \cup {"word"}}
Pieces(tokens) ==
  LET bounds == Separators(tokens) \cup {0, Len(tokens) + 1}
  IN {p \in bounds \X bounds : p[1] < p[2] /\ \A b \in bounds : b <= p[1] \/ p[2] <= b}
IsTarget(tokens, i) == i > 1 /\ tokens[i - 1].operator \in Redirects
PlainPlaces(tokens, p) ==
  {i \in p[1] + 1 .. p[2] - 1 : tokens[i].operator = "word" /\ ~IsTarget(tokens, i)}
TargetOf(tokens, p, operators) ==
  LET given == {i \in p[1] + 1 .. p[2] - 1 : tokens[i].operator \in operators}
  IN IF given = {} THEN NoWord ELSE tokens[Max(given) + 1].word
AllCommands(list) == FoldLeft(LAMBDA all, e : all \o e.commands, <<>>, list)

PieceIsGood(tokens, p) ==
  /\ PlainPlaces(tokens, p) # {} /\ Cardinality(PlainPlaces(tokens, p)) <= MaxWords
  /\ \A i \in p[1] + 1 .. p[2] - 1 :
       tokens[i].operator \in Redirects => i + 1 < p[2] /\ tokens[i + 1].operator = "word"
MayEndList(tokens, p) == p[1] = Len(tokens) /\ p[1] > 0 /\ tokens[p[1]].operator # "|"

Asked(tokens) == {p \in Pieces(tokens) : ~MayEndList(tokens, p)}

\* The pieces of one pipeline, and those that end one.
InPipeline(tokens, p, q) ==
  \A i \in Separators(tokens) :
    (p[2] <= i /\ i <= q[1]) \/ (q[2] <= i /\ i <= p[1]) => tokens[i].operator = "|"
EndsPipeline(tokens, p) == OperatorOf(tokens, p[2]) # "|"
IsTooLong(tokens, asked) ==
  \/ Cardinality({p \in asked : EndsPipeline(tokens, p)}) > MaxEntries
  \/ \E p \in asked : Cardinality({q \in asked : InPipeline(tokens, p, q)}) > MaxPipeline

IsWhatWasAsked(command, tokens, p) ==
  /\ ToSet(command.words) = {tokens[i].word : i \in PlainPlaces(tokens, p)}
  /\ Len(command.words) = Cardinality(PlainPlaces(tokens, p))
  /\ command.in = TargetOf(tokens, p, {"<"})
  /\ command.out = TargetOf(tokens, p, {">", ">>"})

ListIsParsed ==
  (~Idle /\ ran = <<>>) =>
    \A read \in {Tokenize(line)} : \A asked \in {Asked(read.tokens)} :
      LET good == {p \in asked : PieceIsGood(read.tokens, p)}
          before(p) == {q \in asked : q[1] < p[1]}
          commands == AllCommands(entries)
      IN (read.fine /\ read.tokens # <<>>) =>
         IF good # asked \/ IsTooLong(read.tokens, asked)
         THEN entries = <<>>
         ELSE /\ Len(commands) = Cardinality(asked)
              /\ \A p \in asked :
                   IsWhatWasAsked(commands[Cardinality(before(p)) + 1], read.tokens, p)

\* Which entries of a list are run, whatever they answer: one that is followed by && or
\* || unless an entry that was run before it, in the same chain, has cut the chain short by
\* a failure before && or a success before ||; and one that is not, the last of its chain,
\* in any case, although && and || are said to need a success and a failure.  They are run from left to right and nothing twice; and $? is the status
\* of what ran last, in one byte, whenever it is set at all.
InChain(i) == entries[i].connector \in {"&&", "||"}
SameChain(i, j) == \A m \in i .. j - 1 : InChain(m)
CutsShort(k) ==
  \/ entries[ran[k].entry].connector = "&&" /\ ran[k].status # 0
  \/ entries[ran[k].entry].connector = "||" /\ ran[k].status = 0
ListRunsByConnectors ==
  /\ \A k, l \in DOMAIN ran : k < l => ran[k].entry < ran[l].entry
  /\ session.runs =>
       \A j \in DOMAIN entries :
         (\E k \in DOMAIN ran : ran[k].entry = j) <=>
           /\ j < at
           /\ InChain(j) => ~\E k \in DOMAIN ran :
                CutsShort(k) /\ ran[k].entry < j /\ SameChain(ran[k].entry, j)
  /\ (ran # <<>> /\ "?" \in DOMAIN env) =>
       env["?"].value = ToString(ran[Len(ran)].status % 256)
=============================================================================
