----------------------------- MODULE ShellWords -----------------------------
(***************************************************************************)
(* The words of the shell: the tokens of a line (userland/apps/shell/      *)
(* lexer.rs), what a word expands to (expand.rs), the table of variables   *)
(* (env.rs) and the paths that are made of them (uri.rs).                  *)
(*                                                                         *)
(* Text is a string; a scan of the code is a function of the position.     *)
(* Which of the errors a line is refused with is not told apart.           *)
(***************************************************************************)
EXTENDS Naturals, Sequences, FiniteSets, FiniteSetsExt, SequencesExt, TLC

CONSTANTS
  MaxTokens, TokenSize, MaxSegments,     \* lexer.rs
  MaxFields, FieldSize,                  \* expand.rs
  MaxVariables, NameSize, ValueSize,     \* env.rs
  MaxPath, MaxComponents,                \* uri.rs
  NameStarts, NameRest                   \* characters of a name: the first, the others

Places(text) == 1 .. Len(text)
At(text, p) == IF p \in Places(text) THEN SubSeq(text, p, p) ELSE ""
From(text, p) == SubSeq(text, p, Len(text))
Blanks == {" ", "\t"}
Apostrophe == "'"
Quote == "\""
Backslash == "\\"

\* The first place from p on that is in stops, or the place after the text.
FirstOf(text, p, stops) ==
  LET found == {i \in p .. Len(text) : i \in stops}
  IN IF found = {} THEN Len(text) + 1 ELSE Min(found)
Having(text, chars) == {i \in Places(text) : At(text, i) \in chars}

-----------------------------------------------------------------------------
(* Tokens.                                                                 *)

Doubled == {"&", "|", ">"}
Operators == {"|", ";", "&", "<", ">"}

\* operator_at: the longer operators first; "" is none.
OperatorAt(line, p) ==
  LET twice == p < Len(line) /\ At(line, p + 1) = At(line, p)
  IN CASE At(line, p) \in Doubled /\ twice -> SubSeq(line, p, p + 1)
       [] At(line, p) \in Operators /\ ~(At(line, p) \in Doubled /\ twice) -> At(line, p)
       [] OTHER -> ""

EndsWord(line) == Having(line, Blanks) \cup {i \in Places(line) : OperatorAt(line, i) # ""}

\* kind is "unquoted", "single" or "double"; copies is copies_variable.
Segment(kind, text, copies) == [kind |-> kind, text |-> text, copies |-> copies]
Read(segment, next, closed) ==
  [segment |-> segment, next |-> next, fine |-> closed /\ Len(segment.text) <= TokenSize]

Single(line, p) ==
  LET end == FirstOf(line, p + 1, Having(line, {Apostrophe}))
  IN Read(Segment("single", SubSeq(line, p + 1, end - 1), FALSE), end + 1, end <= Len(line))

\* The code escapes the backquote as well, which no line here has.
Escapable == {Quote, Backslash, "$"}

\* What double quotes hold from p on.
RECURSIVE Quoted(_, _)
Quoted(line, p) ==
  LET escaped == At(line, p) = Backslash /\ p < Len(line) /\ At(line, p + 1) \in Escapable
      rest == Quoted(line, IF escaped THEN p + 2 ELSE p + 1)
  IN IF p > Len(line) \/ At(line, p) = Quote
     THEN Read(Segment("double", "", FALSE), p + 1, p <= Len(line))
     ELSE [rest EXCEPT !.segment.text = (IF escaped THEN At(line, p + 1) ELSE At(line, p)) \o @,
                       !.segment.copies = @ \/ (~escaped /\ At(line, p) = "$")]

Double(line, p) ==
  LET q == Quoted(line, p + 1) IN Read(q.segment, q.next, q.fine)

Escape(line, p) == Read(Segment("unquoted", At(line, p + 1), FALSE), p + 2, p < Len(line))

Plain(line, p) ==
  LET end == FirstOf(line, p, EndsWord(line) \cup Having(line, {Apostrophe, Quote, Backslash}))
      text == SubSeq(line, p, end - 1)
  IN Read(Segment("unquoted", text, Having(text, {"$"}) # {}), end, TRUE)

SegmentAt(line, p) ==
  CASE At(line, p) = Apostrophe -> Single(line, p)
    [] At(line, p) = Quote -> Double(line, p)
    [] At(line, p) = Backslash -> Escape(line, p)
    [] OTHER -> Plain(line, p)

\* read_word: segments up to a blank or an operator.
RECURSIVE WordFrom(_, _)
WordFrom(line, p) ==
  LET s == SegmentAt(line, p)
      rest == WordFrom(line, s.next)
  IN CASE p > Len(line) \/ p \in EndsWord(line) ->
            [segments |-> <<>>, next |-> p, fine |-> TRUE]
       [] p \in Places(line) \ EndsWord(line) /\ ~s.fine ->
            [segments |-> <<>>, next |-> p, fine |-> FALSE]
       [] OTHER -> [rest EXCEPT !.segments = <<s.segment>> \o @,
                                !.fine = @ /\ Len(rest.segments) < MaxSegments]

AnOperator(o) == [operator |-> o, word |-> <<>>]
AWord(segments) == [operator |-> "word", word |-> segments]

\* tokenize, from p on; a comment starts where a word would.
RECURSIVE TokensFrom(_, _)
TokensFrom(line, p) ==
  LET o == OperatorAt(line, p)
      w == WordFrom(line, p)
      Then(token, next) ==
        LET rest == TokensFrom(line, next)
        IN [tokens |-> <<token>> \o rest.tokens,
            fine |-> rest.fine /\ Len(rest.tokens) < MaxTokens]
  IN CASE p > Len(line) -> [tokens |-> <<>>, fine |-> TRUE]
       [] At(line, p) \in Blanks -> TokensFrom(line, p + 1)
       [] At(line, p) = "#" -> [tokens |-> <<>>, fine |-> TRUE]
       [] o # "" -> Then(AnOperator(o), p + Len(o))
       [] p <= Len(line) /\ At(line, p) \notin Blanks \cup {"#"} /\ o = "" ->
            IF w.fine THEN Then(AWord(w.segments), w.next)
                      ELSE [tokens |-> <<>>, fine |-> FALSE]

Tokenize(line) == TokensFrom(line, 1)

-----------------------------------------------------------------------------
(* Variables: a function from the names that are set.                      *)

ValidName(name) ==
  /\ name # "" /\ At(name, 1) \in NameStarts
  /\ \A i \in 2 .. Len(name) : At(name, i) \in NameRest

Variable(value, exported) == [value |-> value, exported |-> exported]
Value(env, name) == IF name \in DOMAIN env THEN env[name].value ELSE ""

CanSet(env, name, value) ==
  /\ ValidName(name) /\ Len(name) <= NameSize /\ Len(value) <= ValueSize
  /\ name \in DOMAIN env \/ Cardinality(DOMAIN env) < MaxVariables
Set(env, name, value, exported) ==
  IF CanSet(env, name, value)
  THEN [n \in DOMAIN env \cup {name} |->
          IF n = name THEN Variable(value, exported) ELSE env[n]]
  ELSE env
Unset(env, name) == [n \in DOMAIN env \ {name} |-> env[n]]

\* set_status: the number is one byte.
SetStatus(env, status) == Set(env, "?", ToString(status % 256), TRUE)

\* fill_pairs: what execve passes on.
Exported(env) == {<<n, env[n].value>> : n \in {m \in DOMAIN env : env[m].exported}}

NewEnvironment ==
  [n \in {"HOME", "PATH", "PWD", "SHELL", "?"} |->
     CASE n = "HOME" -> Variable("/home", TRUE)
       [] n = "PATH" -> Variable("/bin", TRUE)
       [] n = "PWD" -> Variable("/", TRUE)
       [] n = "SHELL" -> Variable("/bin/shell", TRUE)
       [] n = "?" -> Variable("0", FALSE)]

-----------------------------------------------------------------------------
(* Expansion.                                                              *)

\* parse_reference: the name after a dollar, and the place after it.
Reference(text, p) ==
  LET close == FirstOf(text, p + 1, Having(text, {"}"}))
      end == FirstOf(text, p, Places(text) \ Having(text, NameRest))
  IN CASE At(text, p) = "{" /\ close <= Len(text) -> <<SubSeq(text, p + 1, close - 1), close + 1>>
       [] At(text, p) = "{" /\ close > Len(text) -> <<"", p>>
       [] At(text, p) \in {"?", "$"} -> <<At(text, p), p + 1>>
       [] OTHER -> <<SubSeq(text, p, end - 1), end>>

RECURSIVE ExpandedFrom(_, _, _)
ExpandedFrom(text, env, p) ==
  LET r == Reference(text, p + 1)
  IN CASE p > Len(text) -> ""
       [] At(text, p) # "$" /\ p <= Len(text) -> At(text, p) \o ExpandedFrom(text, env, p + 1)
       [] At(text, p) = "$" /\ r[1] = "" -> "$" \o ExpandedFrom(text, env, p + 1)
       [] At(text, p) = "$" /\ r[1] # "" -> Value(env, r[1]) \o ExpandedFrom(text, env, r[2])

\* Of a text, or of a sequence, what there is room for.
Cut(text, size) == SubSeq(text, 1, Min({Len(text), size}))

\* The segments in one field: an expansion is cut, literal text that does not
\* fit ends the word.
RECURSIVE Joined(_, _, _)
Joined(segments, env, text) ==
  IF segments = <<>> THEN text
  ELSE LET s == Head(segments)
           more == Joined(Tail(segments), env,
                          Cut(text \o (IF s.copies THEN ExpandedFrom(s.text, env, 1) ELSE s.text),
                              FieldSize))
       IN IF ~s.copies /\ Len(text) + Len(s.text) > FieldSize THEN text ELSE more

RECURSIVE FieldsFrom(_, _)
FieldsFrom(text, p) ==
  LET start == FirstOf(text, p, Places(text) \ Having(text, Blanks))
      end == FirstOf(text, start, Having(text, Blanks))
  IN IF start > Len(text) THEN <<>>
     ELSE <<SubSeq(text, start, end - 1)>> \o FieldsFrom(text, end)

\* expand: one unquoted segment makes the whole word split.  Mutant: every word splits.
ExpandSplitting(word, env) == Cut(FieldsFrom(Joined(word, env, ""), 1), MaxFields)
Expand(word, env) ==
  LET text == Joined(word, env, "")
  IN IF \E i \in DOMAIN word : word[i].kind = "unquoted"
     THEN Cut(FieldsFrom(text, 1), MaxFields) ELSE <<text>>

\* literal_bytes: the text of a word of one segment that is not expanded.
IsLiteral(word) == Len(word) = 1 /\ ~word[1].copies

\* The arguments of several words.
Arguments(words, env) == FoldLeft(LAMBDA all, w : all \o Expand(w, env), <<>>, words)

-----------------------------------------------------------------------------
(* Paths.                                                                  *)

StartsWith(text, prefix) == Len(prefix) <= Len(text) /\ SubSeq(text, 1, Len(prefix)) = prefix
WithSlash(text) == IF text # "" /\ At(text, Len(text)) = "/" THEN text ELSE text \o "/"

\* A path that does not fit; no path and no component is empty.
None == ""

RECURSIVE Components(_, _)
Components(text, p) ==
  LET start == FirstOf(text, p, Places(text) \ Having(text, {"/"}))
      end == FirstOf(text, start, Having(text, {"/"}))
  IN IF start > Len(text) THEN <<>>
     ELSE <<SubSeq(text, start, end - 1)>> \o Components(text, end)

PathOf(components) ==
  IF components = <<>> THEN "/" ELSE FoldLeft(LAMBDA path, c : path \o "/" \o c, "", components)

\* normalize, one component at a time.
Walk(done, c) ==
  CASE done = <<None>> \/ c = "." -> done
    [] c = ".." /\ done # <<None>> -> IF done = <<>> THEN done ELSE Front(done)
    [] c \notin {".", ".."} /\ done # <<None>> ->
         IF Len(done) < MaxComponents /\ Len(PathOf(Append(done, c))) <= MaxPath
         THEN Append(done, c) ELSE <<None>>
Normalize(path) ==
  LET walked == FoldLeft(Walk, <<>>, Components(path, 1))
  IN IF walked = <<None>> THEN None ELSE PathOf(walked)

Resolve(cwd, path) ==
  LET joined == IF StartsWith(path, "/") THEN path ELSE WithSlash(cwd) \o path
  IN IF Len(joined) > 2 * MaxPath THEN None ELSE Normalize(joined)

ExpandTilde(path, home) ==
  LET expanded == CASE path = "~" -> home
                    [] StartsWith(path, "~/") -> WithSlash(home) \o From(path, 3)
                    [] path # "~" /\ ~StartsWith(path, "~/") -> path
  IN IF Len(expanded) > MaxPath THEN None ELSE expanded
=============================================================================
