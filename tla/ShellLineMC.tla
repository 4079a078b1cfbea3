---------------------------- MODULE ShellLineMC ----------------------------
(***************************************************************************)
(* ShellLine with small limits, a tree of two directories and one program, *)
(* every short line of the characters the lexer tells apart, and longer    *)
(* lines that are put together from pieces.                                *)
(***************************************************************************)
EXTENDS ShellLine

MCNameRest == {"a", "b", "X", "Y", "Z", "P", "A", "T", "H", "W", "D", "1"}
MCNameStarts == (MCNameRest \ {"1"}) \cup {"?"}
MCFiles == {"/bin/a", "/d/a"}
MCDirectories == {"/", "/d", "/bin"}
MCStatuses == {0, 3, 256}

Characters == {"a", " ", Apostrophe, Quote, Backslash, "$", "|", "&", ";", "<", ">", "#"}
RECURSIVE Strings(_)
Strings(n) == IF n = 0 THEN {""} ELSE {s \o c : s \in Strings(n - 1), c \in Characters}

Pieces3 == {"true", "false", "a"}
Chains ==
  {x \o l \o y \o k \o z : x, y, z \in Pieces3, l, k \in {"&&", "||", ";"}}
Commands ==
  {"export X='a  b'", "export X=$Xa", "unset X", "unset ?", "cd d", "cd ..", "a $X 'b'", "a \"$X\" b",
   "true <f", "echo a >f", "true <f >f", "a <f >f", "exit ; a", "X=1 a", "a | a || echo", "echo $? | a && a",
   "export PATH=/d:", "export X=a Y=b Z=c"}
\* One more than there is room for, and as many: entries, stages, words, tokens, fields,
\* the characters and the segments of a word.
Limits ==
  {"a;a;a;a", "false&&a;a||a", "a|a|a", "a|a;a|a", "a|a|a;a", "a a a a a", "a a a a", "a;a a a a a",
   "a a;a|a;a", "a a a;a|a;a", "a X=1 $X$X b", "aaaaaaaaaaa", "aaaaaaaaaa", "a'b'\"a\"", "a'b'",
   "export X='a b a b'", "a $X $X", "a>f>f<f", "a>f a a a a"}
MCLines == Strings(1) \cup Strings(2) \cup Strings(3) \cup Chains \cup Commands \cup Limits

MCTexts == {"", "a b", " a", "$X", "a && a", "#", "|", Backslash \o "$X", "a" \o Quote \o "$?"}
=============================================================================
