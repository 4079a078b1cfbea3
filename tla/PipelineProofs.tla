--------------------------- MODULE PipelineProofs ---------------------------
(***************************************************************************)
(* Theorems about how the shell runs its commands: about Pipeline, for     *)
(* every number of stages, every capacity and buffer, and whatever the     *)
(* programs write; and about Redirections, for every size of the table.    *)
(***************************************************************************)
EXTENDS Pipeline, Redirections, FiniteSetTheorems, SequenceTheorems, WellFoundedInduction, TLAPS

AllEnds == Ends(Pipes)
Bytes == Seq(Nat)

Shell ==
  [pc : {"creating", "forking", "closing", "collecting", "done"},
   created : 0 .. Stages - 1, launched : 0 .. Stages, collected : 0 .. Stages,
   holds : SUBSET AllEnds]

StageRecord ==
  [pc : {"absent", "setup", "reading", "writing", "ended", "collected"},
   holds : SUBSET AllEnds, input : Bytes, eof : BOOLEAN,
   output : Bytes, sent : Bytes,
   error : {"none", "missing", "EPIPE", "EAGAIN", "killed"}]

PipelineTypeOK ==
  /\ shell \in Shell
  /\ stages \in [Stage -> StageRecord]
  /\ queues \in [Pipes -> Bytes]

Gone(s) == s.pc \in {"ended", "collected"}
Starting(sh) == sh.pc \in {"creating", "forking"}

\* The shell holds every pipe it has created until it has forked the last stage.
ShellIsSound(sh) ==
  /\ sh.pc = "creating" => sh.created < Stages - 1 /\ sh.launched = 0
  /\ sh.pc = "forking" => sh.created = Stages - 1 /\ sh.launched < Stages
  /\ Starting(sh) => sh.holds = Ends(1 .. sh.created)
  /\ sh.collected <= sh.launched

\* Stages are launched in order; a live one keeps the ends it uses, and has written
\* nothing before it writes.
StageIsSound(sh, i, s) ==
  /\ i > sh.launched => s = Absent
  /\ i <= sh.launched => s.pc # "absent"
  /\ s.pc \in {"setup", "reading", "writing"} => Used(i) \subseteq s.holds
  /\ s.pc = "setup" => s.input = <<>>
  /\ s.pc = "reading" => i > 1
  /\ s.pc \in {"setup", "reading"} => ~s.eof /\ s.sent = <<>>

\* What pipe p carries from stage s to stage t: all that s sent is in the hands
\* of t or in the pipe as long as t is still to read.
ToRead(sh, t) == t.pc \in {"setup", "reading"} \/ (t.pc = "absent" /\ Starting(sh))
NeverReads(sh, t) == Gone(t) \/ (t.pc = "absent" /\ ~Starting(sh))

PipeIsSound(sh, s, t, q) ==
  /\ ToRead(sh, t) => t.input \o q = s.sent
  /\ t.eof => t.input = s.sent /\ Gone(s)
  /\ s.error = "EPIPE" => NeverReads(sh, t)

IInv ==
  /\ PipelineTypeOK
  /\ ShellIsSound(shell)
  /\ \A i \in Stage : StageIsSound(shell, i, stages[i])
  /\ \A p \in Pipes : PipeIsSound(shell, stages[p], stages[p + 1], queues[p])

-----------------------------------------------------------------------------
(* Ends and bytes.                                                         *)

LEMMA UsedEnds ==
  /\ \A i \in Stage : Used(i) \subseteq AllEnds
  /\ \A p \in Pipes : /\ p \in Stage /\ p + 1 \in Stage
                      /\ WriteEnd(p) \in Used(p) /\ ReadEnd(p) \in Used(p + 1)
<1>1. \A i \in Stage : Used(i) \subseteq AllEnds
  BY DEF Used, AllEnds, Ends
<1>2. ASSUME NEW p \in Pipes
      PROVE  /\ p \in Stage /\ p + 1 \in Stage /\ p \in Nat
             /\ p \in {p} \cap Pipes /\ p \in {(p + 1) - 1} \cap Pipes
  BY PipelineAssumption DEF Pipes, Stage
<1> QED BY <1>1, <1>2 DEF Used

\* The end that is closed first is one of those to close.
LEMMA FirstIsOne ==
  ASSUME NEW E \in SUBSET AllEnds, E # {}
  PROVE  FirstEnd(E) \in E
<1>1. \A e \in E : e = <<e[1], e[2]>> /\ e[1] \in Nat /\ e[2] \in {0, 1}
  <2>1. \A e \in AllEnds : \E p \in Pipes : e = <<p, 0>> \/ e = <<p, 1>>
    BY DEF AllEnds, Ends, ReadEnd, WriteEnd
  <2> QED BY <2>1 DEF Pipes
<1> DEFINE P == {e[1] : e \in E}
<1>2. P \in SUBSET Nat /\ P # {}
  BY <1>1
<1>3. PICK p \in P : \A x \in P : p <= x
  <2>1. PICK m \in P : \A x \in P : <<x, m>> \notin OpToRel(<, Nat)
    BY <1>2, WFMin, NatLessThanWellFounded, Zenon
  <2>2. \A x \in P : ~(x < m)
    BY <1>2, <2>1, Zenon DEF OpToRel
  <2>3. \A x \in P : x \in Nat
    BY <1>2
  <2>4. \A x \in P : m <= x
    <3> HIDE DEF P
    <3> QED BY <2>2, <2>3
  <2> QED BY <2>4
<1>4. PICK e \in E : e[1] = p
  OBVIOUS
<1>5. \A f \in E : p <= f[1]
  BY <1>3
<1> HIDE DEF P
<1>6. \E e1 \in E : \A f \in E \ {e1} : Before(e1, f)
  <2>1. CASE <<p, 0>> \in E
    <3>1. ASSUME NEW f \in E \ {<<p, 0>>}
          PROVE  Before(<<p, 0>>, f)
      BY <1>1, <1>5, <2>1, <3>1 DEF Before
    <3> QED BY <2>1, <3>1
  <2>2. CASE <<p, 0>> \notin E
    <3>1. ASSUME NEW f \in E \ {e}
          PROVE  Before(e, f)
      BY <1>1, <1>4, <1>5, <2>2, <3>1 DEF Before
    <3> QED BY <3>1
  <2> QED BY <2>1, <2>2
<1> QED BY <1>6 DEF FirstEnd

LEMMA BytesAssociate ==
  ASSUME NEW a \in Bytes, NEW b \in Bytes, NEW c \in Bytes
  PROVE  a \o (b \o c) = (a \o b) \o c
BY DEF Bytes

\* What is read from the front of a pipe moves behind what was read before.
LEMMA BytesMove ==
  ASSUME NEW a \in Bytes, NEW q \in Bytes, NEW n \in 0 .. Len(q)
  PROVE  /\ a \o SubSeq(q, 1, n) \in Bytes /\ SubSeq(q, n + 1, Len(q)) \in Bytes
         /\ (a \o SubSeq(q, 1, n)) \o SubSeq(q, n + 1, Len(q)) = a \o q
<1>1. Len(q) \in Nat /\ n \in Nat /\ \A j \in 1 .. Len(q) : q[j] \in Nat
  BY LenProperties DEF Bytes
<1>2. \A j \in 1 .. n : q[j] \in Nat
  BY <1>1
<1>3. \A j \in n + 1 .. Len(q) : q[j] \in Nat
  BY <1>1
<1>4. SubSeq(q, 1, n) \in Seq(Nat) /\ SubSeq(q, n + 1, Len(q)) \in Seq(Nat)
  <2>1. SubSeq(q, 1, n) \in Seq(Nat)
    BY <1>1, <1>2, SubSeqProperties
  <2>2. SubSeq(q, n + 1, Len(q)) \in Seq(Nat)
    BY <1>1, <1>3, SubSeqProperties
  <2> QED BY <2>1, <2>2
<1>5. SubSeq(q, 1, n) \o SubSeq(q, n + 1, Len(q)) = q
  <2>1. /\ 1 \in 1 .. Len(q) + 1 /\ n \in 1 - 1 .. Len(q) /\ Len(q) \in n .. Len(q)
    BY <1>1
  <2>2. SubSeq(q, 1, n) \o SubSeq(q, n + 1, Len(q)) = SubSeq(q, 1, Len(q))
    BY <2>1, ConcatAdjacentSubSeq DEF Bytes
  <2> QED BY <2>2, SubSeqFull DEF Bytes
<1> DEFINE x == SubSeq(q, 1, n)
           y == SubSeq(q, n + 1, Len(q))
<1> HIDE DEF x, y
<1>6. a \o x \in Bytes
  BY <1>4, ConcatProperties DEF Bytes, x
<1>7. (a \o x) \o y = a \o (x \o y)
  <2>1. a \in Seq(Nat) /\ x \in Seq(Nat) /\ y \in Seq(Nat)
    BY <1>4 DEF Bytes, x, y
  <2> QED BY <2>1
<1> QED BY <1>4, <1>5, <1>6, <1>7 DEF x, y, Bytes

LEMMA BytesTaken ==
  ASSUME NEW s \in Bytes, NEW n \in 0 .. Len(s)
  PROVE  SubSeq(s, 1, n) \in Bytes
<1>1. Len(s) \in Nat /\ n \in Int /\ \A j \in 1 .. n : s[j] \in Nat
  BY LenProperties DEF Bytes
<1> QED BY <1>1, SubSeqProperties DEF Bytes

-----------------------------------------------------------------------------
(* Steps of a stage.                                                       *)

\* What a step that gives stage i the record s may change: what it was sent or has
\* read only where no pipe sees it, and it learns of end of file, or of a reader
\* that is gone, only when that is so.
StageMoves(i, s) ==
  /\ s \in StageRecord /\ StageIsSound(shell, i, s)
  /\ i \in Pipes => s.sent = stages[i].sent
  /\ s.pc \in {"setup", "reading"} => stages[i].pc \in {"setup", "reading"}
  /\ s.input = stages[i].input
  /\ s.eof => \/ stages[i].eof
              \/ stages[i - 1].sent = s.input /\ Gone(stages[i - 1])
  /\ s.error = "EPIPE" /\ i \in Pipes => NeverReads(shell, stages[i + 1])

\* A live stage was launched, so all before it were; the shell holds all pipes as
\* long as there is one it has still to launch.
LEMMA LiveFacts ==
  ASSUME IInv, NEW i \in Stage, Live(i)
  PROVE  /\ i <= shell.launched /\ shell.launched \in Nat /\ i \in Nat
         /\ Used(i) \subseteq stages[i].holds
         /\ Starting(shell) => shell.holds = AllEnds
<1>1. i <= shell.launched /\ shell.launched \in Nat /\ i \in Nat /\ i >= 1
  BY PipelineAssumption DEF IInv, PipelineTypeOK, Shell, StageIsSound, Absent, Live, Stage
<1>2. Used(i) \subseteq stages[i].holds
  BY DEF IInv, StageIsSound, Live
<1>3. Starting(shell) => shell.pc = "forking"
  BY <1>1 DEF IInv, ShellIsSound, Starting
<1>4. Starting(shell) => shell.holds = AllEnds
  BY <1>3 DEF IInv, ShellIsSound, AllEnds, Pipes
<1> QED BY <1>1, <1>2, <1>4

LEMMA BecomeSound ==
  ASSUME IInv, NEW i \in Stage, Live(i), NEW s, StageMoves(i, s), Become(i, s)
  PROVE  IInv'
<1> DEFINE st == [stages EXCEPT ![i] = s]
<1>1. /\ shell' = shell /\ stages' = st
      /\ queues' = [p \in Pipes |->
                      IF HeldIn(shell, st, ReadEnd(p)) \/ HeldIn(shell, st, WriteEnd(p))
                      THEN queues[p] ELSE <<>>]
  BY DEF Become, Settle
<1>2. /\ shell \in Shell /\ stages \in [Stage -> StageRecord]
      /\ queues \in [Pipes -> Bytes]
  BY DEF IInv, PipelineTypeOK
<1>3. st \in [Stage -> StageRecord] /\ st[i] = s /\ \A j \in Stage \ {i} : st[j] = stages[j]
  BY <1>2 DEF StageMoves
<1> HIDE DEF st
<1>4. PipelineTypeOK'
  <2>1. <<>> \in Bytes
    BY DEF Bytes
  <2>2. queues' \in [Pipes -> Bytes]
    BY <1>1, <1>2, <2>1
  <2> QED BY <1>1, <1>2, <1>3, <2>2 DEF PipelineTypeOK
<1>5. ShellIsSound(shell)'
  BY <1>1 DEF IInv, ShellIsSound, Starting
<1>6. \A j \in Stage : StageIsSound(shell, j, st[j])
  BY <1>3 DEF IInv, StageMoves
<1>7. Starting(shell) => shell.holds = AllEnds
  BY LiveFacts
<1>8. ASSUME NEW p \in Pipes
      PROVE  PipeIsSound(shell, st[p], st[p + 1], queues'[p])
  <2>1. p \in Stage /\ p + 1 \in Stage /\ p \in Nat
    BY UsedEnds DEF Pipes
  <2>2. PipeIsSound(shell, stages[p], stages[p + 1], queues[p])
    BY DEF IInv
  <2>3. ToRead(shell, st[p + 1]) => queues'[p] = queues[p]
    BY <1>1, <1>6, <1>7, <2>1, UsedEnds DEF ToRead, StageIsSound, HeldIn, Absent, AllEnds
  <2>4. CASE i = p
    <3>1. st[p] = s /\ st[p + 1] = stages[p + 1] /\ i \in Nat /\ i \in Pipes
      BY <1>3, <2>1, <2>4
    <3>2. s.sent = stages[p].sent
      BY <2>4, <3>1 DEF StageMoves
    <3>3. ~Gone(stages[p])
      BY <2>4 DEF Live, Gone
    <3>4. s.error = "EPIPE" => NeverReads(shell, stages[p + 1])
      BY <2>4, <3>1 DEF StageMoves
    <3>5. ~stages[p + 1].eof
      BY <2>2, <3>3 DEF PipeIsSound
    <3> QED BY <2>2, <2>3, <3>1, <3>2, <3>4, <3>5 DEF PipeIsSound
  <2>5. CASE i = p + 1
    <3>1. st[p + 1] = s /\ st[p] = stages[p] /\ i - 1 = p
      BY <1>3, <2>1, <2>5
    <3>2. s.pc \in {"setup", "reading"} => stages[p + 1].pc \in {"setup", "reading"}
      BY <2>5 DEF StageMoves
    <3>3. s.input = stages[p + 1].input /\ s.pc # "absent"
      BY <2>5, LiveFacts DEF StageMoves, StageIsSound
    <3>4. s.eof => stages[p + 1].eof \/ (stages[p].sent = s.input /\ Gone(stages[p]))
      BY <2>5, <3>1 DEF StageMoves
    <3>5. stages[p].error # "EPIPE"
      BY <2>2, <2>5 DEF PipeIsSound, NeverReads, Live, Gone
    <3> QED BY <2>2, <2>3, <3>1, <3>2, <3>3, <3>4, <3>5 DEF PipeIsSound, ToRead
  <2>6. CASE i # p /\ i # p + 1
    <3>1. st[p] = stages[p] /\ st[p + 1] = stages[p + 1]
      BY <1>3, <2>1, <2>6
    <3> QED BY <2>2, <2>3, <3>1 DEF PipeIsSound
  <2> QED BY <2>4, <2>5, <2>6
<1>9. (\A j \in Stage : StageIsSound(shell, j, stages[j]))'
  BY <1>1, <1>6 DEF StageIsSound, Absent
<1>10. (\A p \in Pipes : PipeIsSound(shell, stages[p], stages[p + 1], queues[p]))'
  <2> SUFFICES ASSUME NEW p \in Pipes
               PROVE  PipeIsSound(shell', stages'[p], stages'[p + 1], queues'[p])
    OBVIOUS
  <2> QED BY <1>1, <1>8
<1> QED BY <1>4, <1>5, <1>9, <1>10 DEF IInv

LEMMA StageTyped ==
  ASSUME IInv, NEW i \in Stage
  PROVE  stages[i] \in StageRecord /\ StageIsSound(shell, i, stages[i])
BY DEF IInv, PipelineTypeOK

\* exit, a fault, a signal, EPIPE or EAGAIN.
LEMMA EndSound ==
  ASSUME IInv, NEW i \in Stage, Live(i),
         NEW error \in {"none", "missing", "EPIPE", "EAGAIN", "killed"}, End(i, error),
         error = "EPIPE" /\ i \in Pipes => NeverReads(shell, stages[i + 1])
  PROVE  IInv'
<1> DEFINE s == [stages[i] EXCEPT !.pc = "ended", !.holds = {}, !.error = error]
<1>1. stages[i] \in StageRecord /\ StageIsSound(shell, i, stages[i]) /\ i <= shell.launched
      /\ i \in Nat /\ shell.launched \in Nat
  BY StageTyped, LiveFacts
<1>2. /\ s \in StageRecord /\ s.pc = "ended" /\ s.sent = stages[i].sent
      /\ s.input = stages[i].input /\ s.eof = stages[i].eof /\ s.error = error
  BY <1>1 DEF StageRecord
<1>3. Become(i, s)
  BY DEF End
<1> HIDE DEF s
<1>4. StageIsSound(shell, i, s)
  BY <1>1, <1>2 DEF StageIsSound
<1> QED BY <1>2, <1>3, <1>4, BecomeSound DEF StageMoves

LEMMA DieSound ==
  ASSUME IInv, NEW i \in Stage, Die(i)
  PROVE  IInv'
BY EndSound DEF Die

LEMMA FinishSound ==
  ASSUME IInv, NEW i \in Stage, Finish(i)
  PROVE  IInv'
BY EndSound DEF Finish, Live

LEMMA CloseUnusedSound ==
  ASSUME IInv, NEW i \in Stage, CloseUnused(i)
  PROVE  IInv'
<1> DEFINE extra == stages[i].holds \ Used(i)
           s == [stages[i] EXCEPT !.holds = @ \ {FirstEnd(extra)}]
<1>1. stages[i].pc = "setup" /\ Live(i) /\ Become(i, s) /\ extra # {}
  BY DEF CloseUnused, Live
<1>2. stages[i] \in StageRecord /\ StageIsSound(shell, i, stages[i])
  BY StageTyped
<1>3. extra \in SUBSET AllEnds
  BY <1>2 DEF StageRecord
<1>4. FirstEnd(extra) \notin Used(i)
  BY <1>1, <1>3, FirstIsOne
<1>5. /\ s \in StageRecord /\ s.pc = "setup" /\ s.sent = stages[i].sent
      /\ s.input = stages[i].input /\ s.eof = stages[i].eof /\ s.error = stages[i].error
      /\ s.holds = stages[i].holds \ {FirstEnd(extra)}
  BY <1>1, <1>2 DEF StageRecord
<1> HIDE DEF s, extra
<1>6. StageIsSound(shell, i, s)
  BY <1>1, <1>2, <1>4, <1>5, LiveFacts DEF StageIsSound
<1>7. s.error = "EPIPE" /\ i \in Pipes => NeverReads(shell, stages[i + 1])
  BY <1>5 DEF IInv, PipeIsSound
<1> QED BY <1>1, <1>5, <1>6, <1>7, BecomeSound DEF StageMoves

LEMMA ExecuteSound ==
  ASSUME IInv, NEW i \in Stage, Execute(i)
  PROVE  IInv'
<1>1. stages[i].pc = "setup" /\ Live(i)
  BY DEF Execute, Live
<1>2. /\ stages[i] \in StageRecord /\ StageIsSound(shell, i, stages[i])
      /\ Used(i) \subseteq stages[i].holds /\ i <= shell.launched
      /\ i \in Nat /\ shell.launched \in Nat
  BY <1>1, StageTyped, LiveFacts
<1>3. stages[i].error = "EPIPE" /\ i \in Pipes => NeverReads(shell, stages[i + 1])
  BY DEF IInv, PipeIsSound
<1>4. CASE \E n \in 0 .. MaxOutput :
             Become(i, [stages[i] EXCEPT !.pc = "writing", !.output = [b \in 1 .. n |-> b]])
  <2>1. PICK n \in 0 .. MaxOutput :
             Become(i, [stages[i] EXCEPT !.pc = "writing", !.output = [b \in 1 .. n |-> b]])
    BY <1>4
  <2> DEFINE out == [b \in 1 .. n |-> b]
             s == [stages[i] EXCEPT !.pc = "writing", !.output = out]
  <2>2. out \in Bytes
    <3>1. n \in Nat /\ \A b \in 1 .. n : b \in Nat
      BY PipelineAssumption
    <3> QED BY <3>1 DEF Bytes
  <2> HIDE DEF out
  <2>3. /\ s \in StageRecord /\ s.pc = "writing" /\ s.sent = stages[i].sent
        /\ s.input = stages[i].input /\ s.eof = stages[i].eof /\ s.error = stages[i].error
        /\ s.holds = stages[i].holds
    BY <1>2, <2>2 DEF StageRecord
  <2>4. Become(i, s)
    BY <2>1 DEF out
  <2> HIDE DEF s
  <2>5. StageIsSound(shell, i, s)
    BY <1>1, <1>2, <2>3 DEF StageIsSound
  <2> QED BY <1>1, <1>3, <2>3, <2>4, <2>5, BecomeSound DEF StageMoves
<1>5. CASE i > 1 /\ Become(i, [stages[i] EXCEPT !.pc = "reading"])
  <2> DEFINE s == [stages[i] EXCEPT !.pc = "reading"]
  <2>1. /\ s \in StageRecord /\ s.pc = "reading" /\ s.sent = stages[i].sent
        /\ s.input = stages[i].input /\ s.eof = stages[i].eof /\ s.error = stages[i].error
        /\ s.holds = stages[i].holds
    BY <1>2 DEF StageRecord
  <2> HIDE DEF s
  <2>2. StageIsSound(shell, i, s)
    BY <1>1, <1>2, <1>5, <2>1 DEF StageIsSound
  <2>3. Become(i, s)
    BY <1>5 DEF s
  <2> QED BY <1>1, <1>3, <2>1, <2>2, <2>3, BecomeSound DEF StageMoves
<1>6. CASE End(i, "missing")
  BY <1>1, <1>6, EndSound
<1> QED BY <1>4, <1>5, <1>6 DEF Execute

\* A stage stops reading: its buffer is full, or its pipe is at its end, and then
\* the stage before it has gone and all that it sent is here.
LEMMA FilterSound ==
  ASSUME IInv, NEW i \in Stage, stages[i].pc = "reading", NEW e \in BOOLEAN,
         Become(i, [stages[i] EXCEPT !.pc = "writing", !.output = stages[i].input,
                                     !.eof = e]),
         e => i - 1 \in Pipes /\ AtEnd(i - 1)
  PROVE  IInv'
<1> DEFINE s == [stages[i] EXCEPT !.pc = "writing", !.output = stages[i].input, !.eof = e]
<1>1. Live(i)
  BY DEF Live
<1>2. /\ stages[i] \in StageRecord /\ StageIsSound(shell, i, stages[i])
      /\ Used(i) \subseteq stages[i].holds /\ i <= shell.launched
      /\ i \in Nat /\ shell.launched \in Nat
  BY <1>1, StageTyped, LiveFacts
<1>3. stages[i].error = "EPIPE" /\ i \in Pipes => NeverReads(shell, stages[i + 1])
  BY DEF IInv, PipeIsSound
<1>4. /\ s \in StageRecord /\ s.pc = "writing" /\ s.sent = stages[i].sent
      /\ s.input = stages[i].input /\ s.eof = e /\ s.error = stages[i].error
      /\ s.holds = stages[i].holds
  BY <1>2 DEF StageRecord
<1>5. Become(i, s)
  OBVIOUS
<1> HIDE DEF s
<1>6. StageIsSound(shell, i, s)
  BY <1>2, <1>4 DEF StageIsSound
<1>7. ASSUME e
      PROVE  stages[i - 1].sent = stages[i].input /\ Gone(stages[i - 1])
  <2> DEFINE p == i - 1
  <2>1. p \in Pipes /\ p + 1 = i /\ p \in Nat /\ p \in Stage /\ queues[p] = <<>>
        /\ stages[p].holds = stages[p].holds /\ WriteEnd(p) \in Used(p)
        /\ ~HeldIn(shell, stages, WriteEnd(p))
    BY <1>2, <1>7, UsedEnds DEF AtEnd, Held, Pipes
  <2> HIDE DEF p
  <2>2. stages[p + 1].input \o queues[p] = stages[p].sent
    BY <2>1 DEF IInv, PipeIsSound, ToRead
  <2>3. stages[i].input \o <<>> = stages[i].input
    BY <1>2, ConcatEmptySeq DEF StageRecord, Bytes
  <2>4. StageIsSound(shell, p, stages[p]) /\ stages[p] \in StageRecord
    BY <2>1, StageTyped
  <2>5. stages[p].pc \notin {"setup", "reading", "writing"}
    BY <2>1, <2>4 DEF StageIsSound, HeldIn
  <2>6. stages[p].pc # "absent"
    BY <1>2, <2>1, <2>4 DEF StageIsSound
  <2>7. Gone(stages[p])
    BY <2>4, <2>5, <2>6 DEF StageRecord, Gone
  <2> QED BY <2>1, <2>2, <2>3, <2>7 DEF p
<1>8. s.eof => stages[i].eof \/ (stages[i - 1].sent = s.input /\ Gone(stages[i - 1]))
  BY <1>4, <1>7
<1> QED BY <1>1, <1>3, <1>4, <1>5, <1>6, <1>8, BecomeSound DEF StageMoves

\* A step in which stage i moves bytes at its end of pipe p.
BytesMoved(i, p, s, q) ==
  /\ p = i \/ p + 1 = i
  /\ s \in StageRecord /\ StageIsSound(shell, i, s) /\ q \in Bytes
  /\ s.pc = stages[i].pc /\ s.eof = stages[i].eof /\ s.error = stages[i].error
  /\ i # p => s.sent = stages[i].sent
  /\ i # p + 1 => s.input = stages[i].input
  /\ stages' = [stages EXCEPT ![i] = s] /\ queues' = [queues EXCEPT ![p] = q]
  /\ UNCHANGED shell
  /\ PipeIsSound(shell, stages'[p], stages'[p + 1], q)

LEMMA MoveSound ==
  ASSUME IInv, NEW i \in Stage, Live(i), NEW p \in Pipes, NEW s, NEW q,
         BytesMoved(i, p, s, q)
  PROVE  IInv'
<1>1. /\ shell \in Shell /\ stages \in [Stage -> StageRecord]
      /\ queues \in [Pipes -> Bytes]
  BY DEF IInv, PipelineTypeOK
<1>2. /\ stages' \in [Stage -> StageRecord] /\ stages'[i] = s
      /\ \A j \in Stage \ {i} : stages'[j] = stages[j]
  BY <1>1 DEF BytesMoved
<1>3. /\ queues' \in [Pipes -> Bytes] /\ queues'[p] = q
      /\ \A r \in Pipes \ {p} : queues'[r] = queues[r]
  BY <1>1 DEF BytesMoved
<1>4. PipelineTypeOK'
  BY <1>1, <1>2, <1>3 DEF PipelineTypeOK, BytesMoved
<1>5. ShellIsSound(shell)'
  BY DEF IInv, ShellIsSound, Starting, BytesMoved
<1>6. \A j \in Stage : StageIsSound(shell, j, stages'[j])
  BY <1>2 DEF IInv, BytesMoved
<1>7. ASSUME NEW r \in Pipes
      PROVE  PipeIsSound(shell, stages'[r], stages'[r + 1], queues'[r])
  <2>1. r \in Stage /\ r + 1 \in Stage /\ r \in Nat /\ p \in Nat
    BY UsedEnds DEF Pipes
  <2>2. PipeIsSound(shell, stages[r], stages[r + 1], queues[r])
    BY DEF IInv
  <2>3. CASE r = p
    BY <1>3, <2>3 DEF BytesMoved
  <2>4. CASE r # p /\ i = r
    <3>1. /\ stages'[r] = s /\ stages'[r + 1] = stages[r + 1] /\ queues'[r] = queues[r]
          /\ s.sent = stages[r].sent /\ s.error = stages[r].error
      <4>1. r + 1 # i /\ i # p
        BY <2>1, <2>4
      <4>2. stages'[r] = s /\ stages'[r + 1] = stages[r + 1] /\ queues'[r] = queues[r]
        BY <1>2, <1>3, <2>1, <2>4, <4>1
      <4> QED BY <2>4, <4>1, <4>2 DEF BytesMoved
    <3>2. ~Gone(stages[r])
      BY <2>4 DEF Live, Gone
    <3> QED BY <2>2, <3>1, <3>2 DEF PipeIsSound
  <2>5. CASE r # p /\ i = r + 1
    <3>1. /\ stages'[r] = stages[r] /\ stages'[r + 1] = s /\ queues'[r] = queues[r]
          /\ s.input = stages[r + 1].input /\ s.pc = stages[r + 1].pc
          /\ s.eof = stages[r + 1].eof
      <4>1. r # i /\ i # p + 1
        BY <2>1, <2>5
      <4>2. stages'[r] = stages[r] /\ stages'[r + 1] = s
        BY <1>2, <2>1, <2>5, <4>1
      <4>3. queues'[r] = queues[r]
        BY <1>3, <2>5
      <4> QED BY <2>5, <4>1, <4>2, <4>3 DEF BytesMoved
    <3> QED BY <2>2, <3>1 DEF PipeIsSound, ToRead, NeverReads, Gone
  <2>6. CASE i # r /\ i # r + 1
    <3>1. /\ stages'[r] = stages[r] /\ stages'[r + 1] = stages[r + 1]
          /\ queues'[r] = queues[r]
      <4>1. r # p
        BY <2>6 DEF BytesMoved
      <4> QED BY <1>2, <1>3, <2>1, <2>6, <4>1
    <3> QED BY <2>2, <3>1
  <2> QED BY <2>3, <2>4, <2>5, <2>6
<1>8. (\A j \in Stage : StageIsSound(shell, j, stages[j]))'
  BY <1>6 DEF StageIsSound, Absent, BytesMoved
<1>9. (\A r \in Pipes : PipeIsSound(shell, stages[r], stages[r + 1], queues[r]))'
  <2> SUFFICES ASSUME NEW r \in Pipes
               PROVE  PipeIsSound(shell', stages'[r], stages'[r + 1], queues'[r])
    OBVIOUS
  <2> QED BY <1>7 DEF BytesMoved
<1> QED BY <1>4, <1>5, <1>8, <1>9 DEF IInv

LEMMA ReadInputSound ==
  ASSUME IInv, NEW i \in Stage, ReadInput(i)
  PROVE  IInv'
<1> DEFINE p == i - 1
           room == BufferSize - Len(stages[i].input)
           n == Smaller(room, Len(queues[p]))
           front == SubSeq(queues[p], 1, n)
           rest == SubSeq(queues[p], n + 1, Len(queues[p]))
<1>1. /\ stages[i].pc = "reading"
      /\ \/ Become(i, [stages[i] EXCEPT !.pc = "writing", !.output = stages[i].input])
         \/ /\ AtEnd(p)
            /\ Become(i, [[stages[i] EXCEPT !.pc = "writing", !.output = stages[i].input]
                            EXCEPT !.eof = TRUE])
         \/ /\ room > 0 /\ queues[p] # <<>>
            /\ stages' = [stages EXCEPT ![i].input = @ \o front]
            /\ queues' = [queues EXCEPT ![p] = rest]
            /\ UNCHANGED shell
  BY DEF ReadInput
<1>2. /\ Live(i) /\ stages[i] \in StageRecord /\ StageIsSound(shell, i, stages[i])
      /\ i \in Nat /\ ~stages[i].eof /\ stages[i].pc = "reading"
  BY <1>1, StageTyped, LiveFacts DEF Live, StageIsSound
<1>3. i - 1 \in Pipes
  <2>1. i > 1 /\ i <= Stages
    BY <1>1, <1>2 DEF StageIsSound, Stage
  <2> QED BY <1>2, <2>1, PipelineAssumption DEF Pipes
<1>4. CASE Become(i, [stages[i] EXCEPT !.pc = "writing", !.output = stages[i].input])
  <2>1. [stages[i] EXCEPT !.pc = "writing", !.output = stages[i].input]
          = [stages[i] EXCEPT !.pc = "writing", !.output = stages[i].input, !.eof = FALSE]
    BY <1>2 DEF StageRecord
  <2>2. Become(i, [stages[i] EXCEPT !.pc = "writing", !.output = stages[i].input,
                                    !.eof = FALSE])
    BY <1>4, <2>1
  <2> QED BY <1>1, <2>2, FilterSound
<1>5. CASE /\ AtEnd(p)
           /\ Become(i, [[stages[i] EXCEPT !.pc = "writing", !.output = stages[i].input]
                           EXCEPT !.eof = TRUE])
  <2>1. [[stages[i] EXCEPT !.pc = "writing", !.output = stages[i].input] EXCEPT !.eof = TRUE]
          = [stages[i] EXCEPT !.pc = "writing", !.output = stages[i].input, !.eof = TRUE]
    BY <1>2 DEF StageRecord
  <2>2. Become(i, [stages[i] EXCEPT !.pc = "writing", !.output = stages[i].input,
                                    !.eof = TRUE])
    BY <1>5, <2>1
  <2> QED BY <1>1, <1>3, <1>5, <2>2, FilterSound
<1>6. CASE /\ room > 0 /\ queues[p] # <<>>
           /\ stages' = [stages EXCEPT ![i].input = @ \o front]
           /\ queues' = [queues EXCEPT ![p] = rest]
           /\ UNCHANGED shell
  <2>1. queues[p] \in Bytes /\ stages[i].input \in Bytes
    BY <1>2, <1>3 DEF IInv, PipelineTypeOK, StageRecord
  <2>2. Len(queues[p]) \in Nat /\ Len(stages[i].input) \in Nat
    BY <2>1, LenProperties DEF Bytes
  <2>3. n \in 0 .. Len(queues[p])
    <3>1. room \in Int /\ room > 0
      BY <1>6, <2>2, PipelineAssumption
    <3> HIDE DEF room
    <3> QED BY <2>2, <3>1 DEF Smaller
  <2> DEFINE s == [stages[i] EXCEPT !.input = stages[i].input \o front]
  <2>4. /\ stages[i].input \o front \in Bytes /\ rest \in Bytes
        /\ (stages[i].input \o front) \o rest = stages[i].input \o queues[p]
    BY <2>1, <2>3, BytesMove
  <2> HIDE DEF n, room, front, rest
  <2>5. /\ s \in StageRecord /\ s.pc = "reading" /\ s.sent = stages[i].sent
        /\ s.input = stages[i].input \o front /\ s.eof = stages[i].eof
        /\ s.error = stages[i].error /\ s.holds = stages[i].holds
    BY <1>1, <1>2, <2>4 DEF StageRecord
  <2>6. stages' = [stages EXCEPT ![i] = s]
    BY <1>6
  <2> HIDE DEF s
  <2>7. StageIsSound(shell, i, s)
    BY <1>1, <1>2, <2>5, LiveFacts DEF StageIsSound
  <2>8. p \in Pipes /\ p + 1 = i /\ i # p /\ p \in Stage
    BY <1>2, <1>3, UsedEnds
  <2> HIDE DEF p
  <2>9. stages'[p] = stages[p] /\ stages'[p + 1] = s
    BY <2>6, <2>8 DEF IInv, PipelineTypeOK
  <2>10. PipeIsSound(shell, stages[p], stages[p + 1], queues[p])
    BY <2>8 DEF IInv
  <2>11. PipeIsSound(shell, stages'[p], stages'[p + 1], rest)
    BY <1>2, <2>4, <2>5, <2>8, <2>9, <2>10 DEF PipeIsSound, ToRead, NeverReads, Gone
  <2>12. /\ s \in StageRecord /\ rest \in Bytes /\ s.pc = stages[i].pc
         /\ s.eof = stages[i].eof /\ s.error = stages[i].error
         /\ s.sent = stages[i].sent /\ stages[i].pc = "reading"
    BY <1>1, <2>4, <2>5
  <2>13. queues' = [queues EXCEPT ![p] = rest] /\ UNCHANGED shell
    BY <1>6
  <2> QED BY <1>2, <2>6, <2>7, <2>8, <2>11, <2>12, <2>13, MoveSound DEF BytesMoved
<1> QED BY <1>1, <1>4, <1>5, <1>6

LEMMA WriteOutputSound ==
  ASSUME IInv, NEW i \in Stage, WriteOutput(i)
  PROVE  IInv'
<1>1. PICK length \in 1 .. Smaller(Len(stages[i].output), BufferSize) :
        IF i = Stages
        THEN Become(i, Written(stages[i], length, length))
        ELSE LET n == Smaller(length, Capacity - Len(queues[i]))
             IN \/ ~Held(ReadEnd(i)) /\ End(i, "EPIPE")
                \/ Held(ReadEnd(i)) /\ n = 0 /\ End(i, "EAGAIN")
                \/ /\ Held(ReadEnd(i)) /\ n > 0
                   /\ stages' = [stages EXCEPT ![i] = Written(@, length, n)]
                   /\ queues' = [queues EXCEPT ![i] = @ \o SubSeq(stages[i].output, 1, n)]
                   /\ UNCHANGED shell
  BY DEF WriteOutput
<1>2. /\ stages[i].pc = "writing" /\ Live(i) /\ stages[i] \in StageRecord
      /\ StageIsSound(shell, i, stages[i]) /\ i <= shell.launched /\ i \in Nat
      /\ shell.launched \in Nat /\ Used(i) \subseteq stages[i].holds
      /\ Starting(shell) => shell.holds = AllEnds
  BY StageTyped, LiveFacts DEF WriteOutput, Live
<1>3. /\ stages[i].output \in Bytes /\ stages[i].sent \in Bytes
      /\ Len(stages[i].output) \in Nat
  BY <1>2, LenProperties DEF StageRecord, Bytes
<1>4. length \in 1 .. Len(stages[i].output) /\ length \in Nat
  BY <1>3, PipelineAssumption DEF Smaller
<1>5. ASSUME NEW n \in 1 .. length
      PROVE  LET s == Written(stages[i], length, n) IN
             /\ s \in StageRecord /\ s.pc = "writing" /\ s.input = stages[i].input
             /\ s.sent = stages[i].sent \o SubSeq(stages[i].output, 1, n)
             /\ s.eof = stages[i].eof /\ s.error = stages[i].error
             /\ s.holds = stages[i].holds
             /\ StageIsSound(shell, i, s)
  <2>1. n \in 0 .. Len(stages[i].output)
    BY <1>3, <1>4
  <2> DEFINE front == SubSeq(stages[i].output, 1, n)
             rest == SubSeq(stages[i].output, n + 1, Len(stages[i].output))
             s == Written(stages[i], length, n)
  <2>2. stages[i].sent \o front \in Bytes /\ rest \in Bytes
    BY <1>3, <2>1, BytesMove
  <2>3. s = [stages[i] EXCEPT !.sent = stages[i].sent \o front, !.output = rest]
    BY <1>2 DEF Written, StageRecord
  <2> HIDE DEF front, rest, s
  <2>4. /\ s \in StageRecord /\ s.pc = "writing" /\ s.input = stages[i].input
        /\ s.sent = stages[i].sent \o front
        /\ s.eof = stages[i].eof /\ s.error = stages[i].error
        /\ s.holds = stages[i].holds
    BY <1>2, <2>2, <2>3 DEF StageRecord
  <2>5. StageIsSound(shell, i, s)
    BY <1>2, <2>4 DEF StageIsSound
  <2> QED BY <2>4, <2>5 DEF s, front
<1>6. CASE i = Stages
  <2> DEFINE s == Written(stages[i], length, length)
  <2>1. Become(i, s) /\ length \in 1 .. length /\ i \notin Pipes
    BY <1>1, <1>4, <1>6, PipelineAssumption DEF Pipes
  <2>2. /\ s \in StageRecord /\ s.pc = "writing" /\ s.input = stages[i].input
        /\ s.eof = stages[i].eof /\ StageIsSound(shell, i, s)
    BY <1>5, <2>1
  <2> HIDE DEF s
  <2> QED BY <1>2, <2>1, <2>2, BecomeSound DEF StageMoves
<1>7. CASE i # Stages
  <2> DEFINE n == Smaller(length, Capacity - Len(queues[i]))
             front == SubSeq(stages[i].output, 1, n)
  <2>1. i \in Pipes /\ i + 1 \in Stage /\ i + 1 # i
    BY <1>2, <1>7, PipelineAssumption DEF Pipes, Stage
  <2>2. queues[i] \in Bytes /\ Len(queues[i]) \in Nat
    <3>1. queues[i] \in Bytes
      BY <2>1 DEF IInv, PipelineTypeOK
    <3> QED BY <3>1, LenProperties DEF Bytes
  <2>3. CASE ~Held(ReadEnd(i)) /\ End(i, "EPIPE")
    <3>1. stages[i + 1] \in StageRecord /\ StageIsSound(shell, i + 1, stages[i + 1])
      BY <2>1, StageTyped
    <3>2. ReadEnd(i) \in Used(i + 1) /\ ReadEnd(i) \in AllEnds
      BY <2>1, UsedEnds
    <3>3. stages[i + 1].pc \notin {"setup", "reading", "writing"}
      BY <2>1, <2>3, <3>1, <3>2 DEF StageIsSound, Held, HeldIn
    <3>4. ~Starting(shell)
      BY <1>2, <2>3, <3>2 DEF Held, HeldIn
    <3>5. NeverReads(shell, stages[i + 1])
      BY <3>1, <3>3, <3>4 DEF NeverReads, Gone, StageRecord
    <3> QED BY <1>2, <2>3, <3>5, EndSound
  <2>4. CASE End(i, "EAGAIN")
    BY <1>2, <2>4, EndSound
  <2>5. CASE /\ n > 0
             /\ stages' = [stages EXCEPT ![i] = Written(@, length, n)]
             /\ queues' = [queues EXCEPT ![i] = @ \o front]
             /\ UNCHANGED shell
    <3>1. n \in 1 .. length
      BY <1>4, <2>2, <2>5, PipelineAssumption DEF Smaller
    <3> DEFINE s == Written(stages[i], length, n)
               q == queues[i] \o front
    <3>2. /\ s \in StageRecord /\ s.pc = "writing" /\ s.input = stages[i].input
          /\ s.sent = stages[i].sent \o front
          /\ s.eof = stages[i].eof /\ s.error = stages[i].error
          /\ StageIsSound(shell, i, s)
      BY <1>5, <3>1
    <3>3. stages' = [stages EXCEPT ![i] = s] /\ queues' = [queues EXCEPT ![i] = q]
      BY <2>5
    <3>4. front \in Bytes
      <4>1. n \in 0 .. Len(stages[i].output)
        BY <1>3, <1>4, <3>1
      <4> QED BY <1>3, <4>1, BytesTaken
    <3> HIDE DEF n, front, s
    <3>5. q \in Bytes
      BY <2>2, <3>4, ConcatProperties DEF Bytes
    <3>6. stages'[i] = s /\ stages'[i + 1] = stages[i + 1]
      BY <2>1, <3>3 DEF IInv, PipelineTypeOK
    <3>7. PipeIsSound(shell, stages[i], stages[i + 1], queues[i])
      BY <2>1 DEF IInv
    <3>8. stages[i + 1].input \o q = (stages[i + 1].input \o queues[i]) \o front
      <4>1. stages[i + 1].input \in Bytes
        BY <2>1, StageTyped DEF StageRecord
      <4> QED BY <2>2, <3>4, <4>1, BytesAssociate
    <3> HIDE DEF q
    <3>9. PipeIsSound(shell, stages'[i], stages'[i + 1], q)
      BY <1>2, <3>2, <3>6, <3>7, <3>8 DEF PipeIsSound, Gone
    <3>10. /\ s.pc = stages[i].pc /\ s.eof = stages[i].eof
           /\ s.error = stages[i].error /\ s.input = stages[i].input
      BY <1>2, <3>2
    <3>11. UNCHANGED shell /\ s \in StageRecord /\ StageIsSound(shell, i, s)
      BY <2>5, <3>2
    <3> QED BY <1>2, <2>1, <3>3, <3>5, <3>9, <3>10, <3>11, MoveSound
            DEF BytesMoved
  <2> QED BY <1>1, <1>7, <2>3, <2>4, <2>5
<1> QED BY <1>6, <1>7

-----------------------------------------------------------------------------
(* Steps of the shell, and the theorems.                                   *)

LEMMA CreatePipeSound ==
  ASSUME IInv, CreatePipe
  PROVE  IInv'
<1> DEFINE p == shell.created + 1
           sh == [shell EXCEPT !.created = p, !.holds = @ \cup Ends({p}),
                               !.pc = IF p = Stages - 1 THEN "forking" ELSE @]
<1>1. /\ shell.pc = "creating" /\ shell' = sh /\ stages' = stages /\ queues' = queues
      /\ shell.collected <= 0
      /\ shell \in Shell /\ shell.launched = 0 /\ Starting(shell)
      /\ shell.holds = Ends(1 .. shell.created) /\ shell.created < Stages - 1
  BY DEF CreatePipe, IInv, ShellIsSound, PipelineTypeOK, Starting
<1>2. p \in 1 .. Stages - 1 /\ shell.created \in Nat
  BY <1>1, PipelineAssumption DEF Shell
<1>3. Ends(1 .. shell.created) \cup Ends({p}) = Ends(1 .. p) /\ Ends(1 .. p) \subseteq AllEnds
  <2>1. 1 .. p = (1 .. shell.created) \cup {p} /\ 1 .. p \subseteq Pipes
    BY <1>2, PipelineAssumption DEF Pipes
  <2> QED BY <2>1 DEF Ends, AllEnds
<1> HIDE DEF p
<1> DEFINE H == shell.holds \cup Ends({p})
           pc == IF p = Stages - 1 THEN "forking" ELSE shell.pc
<1>10. H = Ends(1 .. p) /\ H \in SUBSET AllEnds /\ pc \in {"creating", "forking"}
  BY <1>1, <1>3
<1>11. sh = [shell EXCEPT !.created = p, !.holds = H, !.pc = pc]
  BY DEF p
<1>12. pc = IF p = Stages - 1 THEN "forking" ELSE "creating"
  BY <1>1
<1> HIDE DEF H, pc, sh
<1>4. /\ sh \in Shell /\ sh.launched = 0 /\ sh.collected <= 0 /\ sh.holds = Ends(1 .. p) /\ sh.created = p
      /\ sh.pc = IF p = Stages - 1 THEN "forking" ELSE "creating"
  <2>1. p \in 0 .. Stages - 1
    BY <1>2, PipelineAssumption
  <2>2. /\ sh \in Shell /\ sh.launched = 0 /\ sh.holds = H /\ sh.created = p
        /\ sh.pc = pc /\ sh.collected = shell.collected
    BY <1>1, <1>10, <1>11, <2>1 DEF Shell
  <2> QED BY <1>1, <1>10, <1>12, <2>2
<1>5. ShellIsSound(sh) /\ Starting(sh)
  BY <1>2, <1>4, PipelineAssumption DEF ShellIsSound, Starting
<1>6. PipelineTypeOK'
  BY <1>1, <1>4 DEF IInv, PipelineTypeOK
<1>7. (\A i \in Stage : StageIsSound(shell, i, stages[i]))'
  BY <1>1, <1>4 DEF IInv, StageIsSound, Absent
<1>8. (\A r \in Pipes : PipeIsSound(shell, stages[r], stages[r + 1], queues[r]))'
  BY <1>1, <1>5 DEF IInv, PipeIsSound, ToRead, NeverReads
<1>9. ShellIsSound(shell)'
  BY <1>1, <1>5 DEF ShellIsSound, Starting
<1> QED BY <1>6, <1>7, <1>8, <1>9 DEF IInv

LEMMA CannotGoOnSound ==
  ASSUME IInv, CannotGoOn
  PROVE  IInv'
<1> DEFINE sh == [shell EXCEPT !.pc = "closing"]
<1>1. /\ shell' = sh /\ stages' = stages /\ queues' = queues /\ shell \in Shell
      /\ Starting(shell)
  BY DEF CannotGoOn, IInv, PipelineTypeOK, Starting
<1>2. /\ sh \in Shell /\ sh.launched = shell.launched /\ sh.pc = "closing"
      /\ sh.collected = shell.collected
  BY <1>1 DEF Shell
<1> HIDE DEF sh
<1>3. ~Starting(sh) /\ ShellIsSound(sh)
  BY <1>2 DEF IInv, ShellIsSound, Starting
<1>4. PipelineTypeOK'
  BY <1>1, <1>2 DEF IInv, PipelineTypeOK
<1>5. (\A i \in Stage : StageIsSound(shell, i, stages[i]))'
  BY <1>1, <1>2 DEF IInv, StageIsSound, Absent
<1>6. (\A r \in Pipes : PipeIsSound(shell, stages[r], stages[r + 1], queues[r]))'
  BY <1>1, <1>3 DEF IInv, PipeIsSound, ToRead, NeverReads
<1>7. ShellIsSound(shell)'
  BY <1>1, <1>3 DEF ShellIsSound, Starting
<1> QED BY <1>4, <1>5, <1>6, <1>7 DEF IInv

LEMMA ForkStageSound ==
  ASSUME IInv, ForkStage
  PROVE  IInv'
<1> DEFINE i == shell.launched + 1
           sh == [shell EXCEPT !.launched = i, !.pc = IF i = Stages THEN "closing" ELSE @]
           s == [Absent EXCEPT !.pc = "setup", !.holds = shell.holds]
<1>1. /\ shell.pc = "forking" /\ shell' = sh /\ stages' = [stages EXCEPT ![i] = s]
      /\ queues' = queues /\ shell \in Shell /\ Starting(shell)
      /\ stages \in [Stage -> StageRecord]
      /\ shell.created = Stages - 1 /\ shell.launched < Stages
      /\ shell.holds = AllEnds /\ shell.collected <= shell.launched
  BY DEF ForkStage, IInv, ShellIsSound, PipelineTypeOK, Starting, AllEnds, Pipes
<1>2. i \in Stage /\ shell.launched \in Nat /\ i = shell.launched + 1 /\ i \in Nat
  BY <1>1, PipelineAssumption DEF Shell, Stage
<1>3. stages[i].pc = "absent" /\ stages[i].input = <<>> /\ ~stages[i].eof
      /\ stages[i].sent = <<>> /\ stages[i].error = "none"
  <2>1. StageIsSound(shell, i, stages[i])
    BY <1>2 DEF IInv
  <2> QED BY <1>2, <2>1 DEF StageIsSound, Absent
<1> DEFINE pc == IF i = Stages THEN "closing" ELSE shell.pc
<1>14. sh = [shell EXCEPT !.launched = i, !.pc = pc] /\ pc \in {"forking", "closing"}
       /\ pc = IF i = Stages THEN "closing" ELSE "forking"
  BY <1>1
<1> HIDE DEF i, pc, sh
<1>4. /\ sh \in Shell /\ sh.launched = i /\ sh.holds = AllEnds
      /\ sh.created = Stages - 1 /\ sh.collected <= i
      /\ sh.pc = IF i = Stages THEN "closing" ELSE "forking"
  <2>1. i \in 0 .. Stages
    BY <1>2 DEF Stage
  <2>2. /\ sh \in Shell /\ sh.launched = i /\ sh.holds = AllEnds
        /\ sh.created = Stages - 1 /\ sh.pc = pc /\ sh.collected = shell.collected
    BY <1>1, <1>14, <2>1 DEF Shell
  <2>3. shell.collected \in Nat
    BY <1>1 DEF Shell
  <2> QED BY <1>1, <1>2, <1>14, <2>2, <2>3
<1>5. /\ s \in StageRecord /\ s.pc = "setup" /\ s.holds = AllEnds /\ s.input = <<>>
      /\ ~s.eof /\ s.sent = <<>> /\ s.error = "none"
  <2>1. <<>> \in Bytes
    BY DEF Bytes
  <2> QED BY <1>1, <2>1 DEF StageRecord, Absent
<1> HIDE DEF s
<1>6. ShellIsSound(sh)
  <2>1. sh.holds = Ends(1 .. sh.created)
    BY <1>4 DEF AllEnds, Pipes
  <2>2. i # Stages => i < Stages
    BY <1>2, PipelineAssumption DEF Stage
  <2> QED BY <1>4, <2>1, <2>2 DEF ShellIsSound
<1>7. stages'[i] = s /\ \A j \in Stage \ {i} : stages'[j] = stages[j]
  BY <1>1, <1>2
<1>8. PipelineTypeOK'
  BY <1>1, <1>2, <1>4, <1>5 DEF IInv, PipelineTypeOK
<1>9. \A j \in Stage : StageIsSound(sh, j, stages'[j])
  <2>1. StageIsSound(sh, i, s)
    BY <1>2, <1>4, <1>5, UsedEnds DEF StageIsSound
  <2>2. ASSUME NEW j \in Stage, j # i
        PROVE  StageIsSound(sh, j, stages[j])
    <3>1. j \in Nat /\ (j > shell.launched <=> j > i) /\ (j <= shell.launched <=> j <= i)
      BY <1>2, <1>4, <2>2 DEF Stage
    <3>2. StageIsSound(shell, j, stages[j])
      BY DEF IInv
    <3> QED BY <1>1, <1>4, <3>1, <3>2 DEF StageIsSound
  <2> QED BY <1>7, <2>1, <2>2
<1>10. ASSUME NEW r \in Pipes
       PROVE  PipeIsSound(sh, stages'[r], stages'[r + 1], queues[r])
  <2>1. r \in Stage /\ r + 1 \in Stage /\ r \in Nat
    BY UsedEnds DEF Pipes
  <2>2. PipeIsSound(shell, stages[r], stages[r + 1], queues[r])
    BY DEF IInv
  <2>3. Starting(sh) \/ i = Stages
    BY <1>4 DEF Starting
  <2>4. CASE r = i
    <3>1. stages'[r] = s /\ stages'[r + 1] = stages[r + 1] /\ Starting(sh)
      BY <1>2, <1>7, <2>1, <2>3, <2>4, PipelineAssumption DEF Stage
    <3> QED BY <1>1, <1>3, <1>5, <2>2, <2>4, <3>1
            DEF PipeIsSound, ToRead, NeverReads, Gone
  <2>5. CASE r + 1 = i
    <3>1. stages'[r] = stages[r] /\ stages'[r + 1] = s
      BY <1>2, <1>7, <2>1, <2>5
    <3> QED BY <1>1, <1>3, <1>5, <2>2, <2>5, <3>1
            DEF PipeIsSound, ToRead, NeverReads, Gone
  <2>6. CASE r # i /\ r + 1 # i
    <3>1. stages'[r] = stages[r] /\ stages'[r + 1] = stages[r + 1]
      BY <1>7, <2>1, <2>6
    <3>2. Starting(sh) \/ stages[r + 1].pc # "absent"
      <4>1. i = Stages => r + 1 <= shell.launched
        BY <1>2, <2>1, <2>6, PipelineAssumption DEF Stage
      <4> QED BY <2>1, <2>3, <4>1 DEF IInv, StageIsSound
    <3> QED BY <1>1, <2>2, <3>1, <3>2 DEF PipeIsSound, ToRead, NeverReads
  <2> QED BY <2>4, <2>5, <2>6
<1>11. (\A j \in Stage : StageIsSound(shell, j, stages[j]))'
  BY <1>1, <1>9 DEF StageIsSound, Absent
<1>12. (\A r \in Pipes : PipeIsSound(shell, stages[r], stages[r + 1], queues[r]))'
  <2> SUFFICES ASSUME NEW r \in Pipes
               PROVE  PipeIsSound(shell', stages'[r], stages'[r + 1], queues'[r])
    OBVIOUS
  <2> QED BY <1>1, <1>10
<1>13. ShellIsSound(shell)'
  BY <1>1, <1>6 DEF ShellIsSound, Starting
<1> QED BY <1>8, <1>11, <1>12, <1>13 DEF IInv

LEMMA ClosePipesSound ==
  ASSUME IInv, ClosePipes
  PROVE  IInv'
<1>1. PICK sh \in Shell :
        /\ sh.launched = shell.launched /\ sh.pc \in {"closing", "collecting"}
        /\ sh.collected = shell.collected
        /\ Settle(sh, stages)
  <2>1. shell \in Shell /\ shell.pc = "closing"
    BY DEF ClosePipes, IInv, PipelineTypeOK
  <2> DEFINE one == [shell EXCEPT !.pc = "collecting"]
             other == [shell EXCEPT !.holds = @ \ {FirstEnd(@)}]
  <2>2. /\ one \in Shell /\ one.launched = shell.launched /\ one.pc = "collecting"
        /\ one.collected = shell.collected /\ other.collected = shell.collected
        /\ other \in Shell /\ other.launched = shell.launched /\ other.pc = "closing"
    BY <2>1 DEF Shell
  <2>3. Settle(one, stages) \/ Settle(other, stages)
    BY DEF ClosePipes
  <2> HIDE DEF one, other
  <2> QED BY <2>2, <2>3
<1>2. /\ shell' = sh /\ stages' = stages
      /\ queues' = [p \in Pipes |->
                      IF HeldIn(sh, stages, ReadEnd(p)) \/ HeldIn(sh, stages, WriteEnd(p))
                      THEN queues[p] ELSE <<>>]
  BY <1>1 DEF Settle
<1>3. ~Starting(sh) /\ ShellIsSound(sh) /\ ~Starting(shell)
  BY <1>1 DEF IInv, ShellIsSound, Starting, ClosePipes
<1>4. PipelineTypeOK'
  <2>1. <<>> \in Bytes
    BY DEF Bytes
  <2>2. queues' \in [Pipes -> Bytes]
    BY <1>2, <2>1 DEF IInv, PipelineTypeOK
  <2> QED BY <1>1, <1>2, <2>2 DEF IInv, PipelineTypeOK
<1>5. (\A i \in Stage : StageIsSound(shell, i, stages[i]))'
  BY <1>1, <1>2 DEF IInv, StageIsSound, Absent
<1>6. ASSUME NEW p \in Pipes
      PROVE  PipeIsSound(sh, stages[p], stages[p + 1], queues'[p])
  <2>1. p + 1 \in Stage /\ ReadEnd(p) \in Used(p + 1)
    BY UsedEnds
  <2>2. PipeIsSound(shell, stages[p], stages[p + 1], queues[p])
    BY DEF IInv
  <2>3. ToRead(sh, stages[p + 1]) => HeldIn(sh, stages, ReadEnd(p))
    BY <1>3, <2>1, StageTyped DEF ToRead, StageIsSound, HeldIn
  <2> QED BY <1>2, <1>3, <2>2, <2>3 DEF PipeIsSound, ToRead, NeverReads
<1>7. (\A p \in Pipes : PipeIsSound(shell, stages[p], stages[p + 1], queues[p]))'
  <2> SUFFICES ASSUME NEW p \in Pipes
               PROVE  PipeIsSound(shell', stages'[p], stages'[p + 1], queues'[p])
    OBVIOUS
  <2> QED BY <1>2, <1>6
<1>8. ShellIsSound(shell)'
  BY <1>2, <1>3 DEF ShellIsSound, Starting
<1> QED BY <1>4, <1>5, <1>7, <1>8 DEF IInv

LEMMA CollectSound ==
  ASSUME IInv, Collect
  PROVE  IInv'
<1>1. PICK sh \in Shell :
        /\ sh.launched = shell.launched /\ sh.pc \in {"collecting", "done"}
        /\ sh.collected <= sh.launched
        /\ shell' = sh /\ queues' = queues
        /\ \/ stages' = stages
           \/ \E i \in Stage : /\ stages[i].pc = "ended"
                               /\ stages' = [stages EXCEPT ![i].pc = "collected"]
  <2>1. /\ shell \in Shell /\ shell.pc = "collecting"
        /\ shell.collected <= shell.launched
    BY DEF Collect, IInv, PipelineTypeOK, ShellIsSound
  <2>2. shell.collected \in Nat /\ shell.launched \in Nat /\ shell.launched <= Stages
    BY <2>1, PipelineAssumption DEF Shell
  <2> DEFINE i == shell.collected + 1
  <2>3. CASE shell.collected = shell.launched
    <3> DEFINE sh == [shell EXCEPT !.pc = "done"]
    <3>1. /\ sh \in Shell /\ sh.launched = shell.launched /\ sh.pc = "done"
          /\ sh.collected <= sh.launched
      BY <2>1 DEF Shell
    <3>2. shell' = sh /\ stages' = stages /\ queues' = queues
      BY <2>3 DEF Collect
    <3> HIDE DEF sh
    <3> QED BY <3>1, <3>2
  <2>4. CASE shell.collected # shell.launched
    <3> DEFINE sh == [shell EXCEPT !.collected = i]
    <3>1. /\ shell' = sh /\ queues' = queues /\ stages[i].pc = "ended"
          /\ stages' = [stages EXCEPT ![i].pc = "collected"]
      BY <2>4 DEF Collect
    <3>2. i \in Stage /\ i <= shell.launched
      BY <2>1, <2>2, <2>4, PipelineAssumption DEF Stage
    <3>3. /\ sh \in Shell /\ sh.launched = shell.launched /\ sh.pc = "collecting"
          /\ sh.collected = i
      <4>1. i \in 0 .. Stages
        BY <3>2 DEF Stage
      <4> QED BY <2>1, <4>1 DEF Shell
    <3> HIDE DEF sh, i
    <3> QED BY <3>1, <3>2, <3>3
  <2> QED BY <2>3, <2>4
<1>2. /\ shell \in Shell /\ stages \in [Stage -> StageRecord]
      /\ queues \in [Pipes -> Bytes] /\ shell.pc = "collecting"
  BY DEF IInv, PipelineTypeOK, Collect
<1>3. ~Starting(sh) /\ ShellIsSound(sh) /\ ~Starting(shell)
  BY <1>1, <1>2 DEF ShellIsSound, Starting
\* A stage is collected only when it has ended: it stays gone.
<1>4. ASSUME NEW j \in Stage
      PROVE  /\ stages'[j] \in StageRecord
             /\ StageIsSound(sh, j, stages'[j])
             /\ \/ stages'[j] = stages[j]
                \/ /\ Gone(stages[j]) /\ Gone(stages'[j])
                   /\ stages'[j].pc \notin {"setup", "reading", "absent"}
                   /\ stages'[j].input = stages[j].input
                   /\ stages'[j].sent = stages[j].sent
                   /\ stages'[j].eof = stages[j].eof
                   /\ stages'[j].error = stages[j].error
  <2>1. stages[j] \in StageRecord /\ StageIsSound(shell, j, stages[j])
    BY StageTyped
  <2>2. CASE stages' = stages
    BY <1>1, <2>1, <2>2 DEF StageIsSound
  <2>3. CASE \E i \in Stage : /\ stages[i].pc = "ended"
                              /\ stages' = [stages EXCEPT ![i].pc = "collected"]
    <3>1. PICK i \in Stage : /\ stages[i].pc = "ended"
                             /\ stages' = [stages EXCEPT ![i].pc = "collected"]
      BY <2>3
    <3>2. CASE i # j
      <4>1. stages'[j] = stages[j]
        BY <1>2, <3>1, <3>2
      <4> QED BY <1>1, <2>1, <4>1 DEF StageIsSound
    <3>3. CASE i = j
      <4> DEFINE s == [stages[j] EXCEPT !.pc = "collected"]
      <4>1. stages'[j] = s
        BY <1>2, <3>1, <3>3
      <4>2. /\ s \in StageRecord /\ s.pc = "collected" /\ s.input = stages[j].input
            /\ s.sent = stages[j].sent /\ s.eof = stages[j].eof
            /\ s.error = stages[j].error
        BY <2>1 DEF StageRecord
      <4> HIDE DEF s
      <4>3. ~(j > sh.launched)
        BY <1>1, <2>1, <3>1, <3>3 DEF StageIsSound, Absent
      <4>4. StageIsSound(sh, j, s)
        BY <4>2, <4>3 DEF StageIsSound
      <4> QED BY <3>1, <3>3, <4>1, <4>2, <4>4 DEF Gone
    <3> QED BY <3>2, <3>3
  <2> QED BY <1>1, <2>2, <2>3
<1>5. PipelineTypeOK'
  <2>1. \E i \in Stage : stages' = stages \/ stages' = [stages EXCEPT ![i].pc = "collected"]
    BY <1>1, PipelineAssumption DEF Stage
  <2>2. stages' \in [Stage -> StageRecord]
    BY <1>2, <1>4, <2>1
  <2> QED BY <1>1, <1>2, <2>2 DEF PipelineTypeOK
<1>6. ASSUME NEW p \in Pipes
      PROVE  PipeIsSound(sh, stages'[p], stages'[p + 1], queues[p])
  <2>1. p \in Stage /\ p + 1 \in Stage
    BY UsedEnds
  <2>2. PipeIsSound(shell, stages[p], stages[p + 1], queues[p])
    BY DEF IInv
  <2> QED BY <1>3, <1>4, <2>1, <2>2 DEF PipeIsSound, ToRead, NeverReads
<1>7. (\A j \in Stage : StageIsSound(shell, j, stages[j]))'
  BY <1>1, <1>4 DEF StageIsSound, Absent
<1>8. (\A p \in Pipes : PipeIsSound(shell, stages[p], stages[p + 1], queues[p]))'
  <2> SUFFICES ASSUME NEW p \in Pipes
               PROVE  PipeIsSound(shell', stages'[p], stages'[p + 1], queues'[p])
    OBVIOUS
  <2> QED BY <1>1, <1>6
<1>9. ShellIsSound(shell)'
  BY <1>1, <1>3 DEF ShellIsSound, Starting
<1> QED BY <1>5, <1>7, <1>8, <1>9 DEF IInv

LEMMA InitSound == Init => IInv
<1> SUFFICES ASSUME Init PROVE IInv
  OBVIOUS
<1>1. Stages \in Nat /\ Stages >= 2
  BY PipelineAssumption
<1>2. <<>> \in Bytes
  BY DEF Bytes
<1>3. Absent \in StageRecord
  BY <1>2 DEF Absent, StageRecord
<1>4. shell \in Shell
  BY <1>1 DEF Init, Shell
<1>5. PipelineTypeOK
  BY <1>2, <1>3, <1>4 DEF Init, PipelineTypeOK
<1>6. ShellIsSound(shell)
  <2>1. Ends(1 .. 0) = {}
    BY DEF Ends
  <2> QED BY <1>1, <2>1 DEF Init, ShellIsSound
<1>7. \A i \in Stage : StageIsSound(shell, i, stages[i])
  BY <1>1 DEF Init, StageIsSound, Absent, Stage
<1>8. \A p \in Pipes : PipeIsSound(shell, stages[p], stages[p + 1], queues[p])
  <2> SUFFICES ASSUME NEW p \in Pipes
               PROVE  PipeIsSound(shell, stages[p], stages[p + 1], queues[p])
    OBVIOUS
  <2>1. stages[p] = Absent /\ stages[p + 1] = Absent /\ queues[p] = <<>>
    BY UsedEnds DEF Init
  <2>2. <<>> \o <<>> = <<>>
    BY <1>2, ConcatEmptySeq DEF Bytes
  <2> QED BY <2>1, <2>2 DEF PipeIsSound, Absent
<1> QED BY <1>5, <1>6, <1>7, <1>8 DEF IInv

LEMMA NextSound == IInv /\ [Next]_vars => IInv'
<1> SUFFICES ASSUME IInv, [Next]_vars PROVE IInv'
  OBVIOUS
<1>1. CASE ShellStep
  BY <1>1, CreatePipeSound, CannotGoOnSound, ForkStageSound, ClosePipesSound, CollectSound
     DEF ShellStep
<1>2. ASSUME NEW i \in Stage, Runs(i) \/ Die(i) PROVE IInv'
  BY <1>2, CloseUnusedSound, ExecuteSound, ReadInputSound, WriteOutputSound, FinishSound,
     DieSound DEF Runs
<1>3. CASE UNCHANGED vars
  <2>1. shell' = shell /\ stages' = stages /\ queues' = queues
    BY <1>3 DEF vars
  <2> QED BY <2>1 DEF IInv, PipelineTypeOK, ShellIsSound, StageIsSound, PipeIsSound,
                      Starting, ToRead, NeverReads, Gone, Absent, HeldIn
<1> QED BY <1>1, <1>2, <1>3 DEF Next

\* Every step of the shell and of a stage keeps what the pipes, the ends and the
\* stages owe one another: the invariant behind the three theorems below.
THEOREM PipelineIsSound == Spec => []IInv
<1> QED BY InitSound, NextSound, PTL DEF Spec

\* End of file is never early: a filter that saw it has all the stage before it
\* ever wrote, and that stage is gone.
THEOREM EofIsAlwaysTheEnd == Spec => []EofIsTheEnd
<1>1. IInv => EofIsTheEnd
  BY DEF IInv, PipeIsSound, EofIsTheEnd, Gone
<1> QED BY <1>1, PipelineIsSound, PTL

\* What a stage writes reaches the next one whole and in order, as long as that one
\* reads: reset pipes, closed ends and short writes lose nothing.
THEOREM NothingIsEverLost == Spec => []NothingIsLost
<1>1. IInv => NothingIsLost
  BY DEF IInv, PipeIsSound, NothingIsLost, ToRead
<1> QED BY <1>1, PipelineIsSound, PTL

\* EPIPE is told the truth: the reader has gone, or will never be launched.
THEOREM BrokenIsAlwaysTrue == Spec => []BrokenIsTrue
<1>1. ASSUME IInv, NEW p \in Pipes, stages[p].error = "EPIPE"
      PROVE  \/ stages[p + 1].pc \in {"ended", "collected"}
             \/ shell.launched <= p /\ shell.pc \in {"closing", "collecting", "done"}
  <2>1. NeverReads(shell, stages[p + 1])
    BY <1>1 DEF IInv, PipeIsSound
  <2>2. /\ p + 1 \in Stage /\ p \in Nat /\ shell \in Shell /\ shell.launched \in Nat
    <3>1. p + 1 \in Stage /\ shell \in Shell
      BY <1>1, UsedEnds DEF IInv, PipelineTypeOK
    <3> QED BY <1>1, <3>1, PipelineAssumption DEF Shell, Pipes
  <2>3. stages[p + 1].pc = "absent" => shell.launched <= p
    BY <1>1, <2>2 DEF IInv, StageIsSound
  <2> QED BY <2>1, <2>2, <2>3 DEF NeverReads, Gone, Starting, Shell
<1>2. IInv => BrokenIsTrue
  BY <1>1 DEF BrokenIsTrue
<1> QED BY <1>2, PipelineIsSound, PTL

-----------------------------------------------------------------------------
(* Redirections: the table of the shell between two commands.              *)

Objects == {Console, Closed, "in", "out"}
Tables == [Fds -> Objects]

\* Console on the three standard descriptors, whatever else stayed open.
RedirectionsInv == table \in Tables /\ ShellKeepsConsole /\ CommandSeesItsFiles

LEMMA FdFacts ==
  /\ Fds \subseteq Nat /\ {0, 1, 2} \subseteq Fds /\ NotSaved \notin Fds /\ IsFiniteSet(Fds)
  /\ Stdin = 0 /\ Stdout = 1 /\ Console # Closed
  /\ Console \in Objects /\ Closed \in Objects /\ {"in", "out"} \subseteq Objects \ {Closed}
<1>1. Fds \subseteq Nat /\ {0, 1, 2} \subseteq Fds /\ NotSaved \notin Fds
  BY RedirectionAssumption DEF Fds, NotSaved
<1>2. IsFiniteSet(Fds)
  BY FS_Interval, RedirectionAssumption DEF Fds
<1>3. /\ Stdin = 0 /\ Stdout = 1 /\ Console # Closed
      /\ Console \in Objects /\ Closed \in Objects /\ {"in", "out"} \subseteq Objects \ {Closed}
  BY DEF Stdin, Stdout, Console, Closed, Objects
<1> QED BY <1>1, <1>2, <1>3

\* find_free: the lowest free entry is one.
LEMMA LowestIsFree ==
  ASSUME NEW t, Free(t) # {}
  PROVE  Lowest(t) \in Fds /\ Lowest(t) > 2 /\ t[Lowest(t)] = Closed
<1>1. Free(t) \subseteq Nat
  BY FdFacts DEF Free
<1>2. PICK m \in Free(t) : \A x \in Free(t) : <<x, m>> \notin OpToRel(<, Nat)
  BY <1>1, WFMin, NatLessThanWellFounded, Zenon
<1>3. \A x \in Free(t) : ~(x < m)
  BY <1>1, <1>2, Zenon DEF OpToRel
<1>4. m \in Free(t) /\ \A x \in Free(t) : m <= x
  BY <1>1, <1>3
<1>5. Min(Free(t)) \in Free(t)
  BY <1>4 DEF Min
<1> QED BY <1>5 DEF Lowest, Free

\* Open, dup and the other calls, entry by entry.
LEMMA OpenIs ==
  ASSUME NEW t \in Tables, Free(t) # {}, NEW object \in Objects
  PROVE  /\ Open(t, object) \in Tables /\ Open(t, object)[Lowest(t)] = object
         /\ \A fd \in Fds : fd # Lowest(t) => Open(t, object)[fd] = t[fd]
BY LowestIsFree DEF Open, Tables

LEMMA CloseIs ==
  ASSUME NEW t \in Tables, NEW f \in Fds
  PROVE  /\ Close(t, f) \in Tables /\ Close(t, f)[f] = Closed
         /\ \A fd \in Fds : fd # f => Close(t, f)[fd] = t[fd]
BY FdFacts DEF Close, Tables

LEMMA DuplicateToIs ==
  ASSUME NEW t \in Tables, NEW f \in Fds, NEW g \in Fds
  PROVE  /\ DuplicateTo(t, f, g) \in Tables /\ DuplicateTo(t, f, g)[g] = t[f]
         /\ \A fd \in Fds : fd # g => DuplicateTo(t, f, g)[fd] = t[fd]
BY DEF DuplicateTo, Tables

\* What was open stays so, but for the entry that is redirected; the copy of
\* that one goes to an entry that was free.
RedirectionIs(t, r, f, object) ==
  /\ r = [table |-> r.table, saved |-> r.saved]
  /\ r.table \in Tables
  /\ \A fd \in Fds : fd # f /\ t[fd] # Closed => r.table[fd] = t[fd]
  /\ r.saved = NotSaved => r.table[f] = t[f]
  /\ r.saved # NotSaved =>
       /\ r.saved \in Fds /\ r.saved > 2 /\ t[r.saved] = Closed
       /\ r.table[f] = object /\ r.table[r.saved] = t[f]

LEMMA RedirectedIs ==
  ASSUME NEW t \in Tables, NEW f \in {0, 1}, t[f] # Closed, NEW object \in Objects \ {Closed},
         NEW opens \in BOOLEAN
  PROVE  RedirectionIs(t, Redirected(t, f, object, opens), f, object)
<1> DEFINE r == Redirected(t, f, object, opens)
           file == Lowest(t)
           opened == Open(t, object)
           saved == Lowest(opened)
<1>1. f \in Fds /\ f <= 2 /\ f \in Nat
  BY FdFacts
<1>2. CASE ~opens \/ Free(t) = {}
  <2>1. r = [table |-> t, saved |-> NotSaved]
    BY <1>2 DEF Redirected
  <2> HIDE DEF r
  <2>2. r = [table |-> r.table, saved |-> r.saved] /\ r.table = t /\ r.saved = NotSaved
    BY <2>1
  <2> QED BY <2>2 DEF RedirectionIs, r
<1>3. CASE opens /\ Free(t) # {}
  <2>1. /\ file \in Fds /\ file > 2 /\ t[file] = Closed
        /\ opened \in Tables /\ opened[file] = object
        /\ \A fd \in Fds : fd # file => opened[fd] = t[fd]
    BY <1>3, LowestIsFree, OpenIs
  <2>2. CASE Free(opened) = {}
    <3>1. r = [table |-> Close(opened, file), saved |-> NotSaved]
      BY <1>3, <2>2 DEF Redirected
    <3> HIDE DEF r, opened, file
    <3>2. /\ r = [table |-> r.table, saved |-> r.saved]
          /\ r.table = Close(opened, file) /\ r.saved = NotSaved
      BY <3>1
    <3>3. /\ r.table \in Tables
          /\ \A fd \in Fds : fd # file => r.table[fd] = opened[fd]
      BY <2>1, <3>2, CloseIs
    <3>4. f # file
      BY <1>1, <2>1
    <3>5. \A fd \in Fds : t[fd] # Closed => r.table[fd] = t[fd]
      BY <2>1, <3>3
    <3>6. r.table[f] = t[f]
      BY <1>1, <3>5
    <3> QED BY <3>2, <3>3, <3>5, <3>6 DEF RedirectionIs, r
  <2>3. CASE Free(opened) # {}
    <3> DEFINE copied == Duplicate(opened, f)
    <3>1. r = [table |-> DuplicateTo(copied, file, f), saved |-> saved]
      BY <1>3, <2>3 DEF Redirected
    <3> HIDE DEF r
    <3>2. /\ r = [table |-> r.table, saved |-> r.saved]
          /\ r.table = DuplicateTo(copied, file, f) /\ r.saved = saved
      BY <3>1
    <3>3. saved \in Fds /\ saved > 2 /\ opened[saved] = Closed
      BY <2>3, LowestIsFree
    <3>4. opened[f] \in Objects
      BY <1>1, <2>1 DEF Tables
    <3>5. /\ copied \in Tables /\ copied[saved] = opened[f]
          /\ \A fd \in Fds : fd # saved => copied[fd] = opened[fd]
      BY <2>1, <2>3, <3>4, OpenIs DEF Duplicate
    <3> HIDE DEF opened, file, saved, copied
    <3>6. /\ r.table \in Tables /\ r.table[f] = copied[file]
          /\ \A fd \in Fds : fd # f => r.table[fd] = copied[fd]
      <4>1. f \in Fds /\ file \in Fds /\ copied \in Tables
        BY <1>1, <2>1, <3>5
      <4> QED BY ONLY <3>2, <4>1, DuplicateToIs
    <3>7. f # file /\ f # saved /\ file # saved
      BY <1>1, <2>1, <3>3, FdFacts
    <3>8. opened[f] = t[f] /\ copied[file] = object /\ r.table[saved] = t[f] /\ t[saved] = Closed
      BY <1>1, <2>1, <3>3, <3>5, <3>6, <3>7
    <3>9. \A fd \in Fds : fd # f /\ t[fd] # Closed => r.table[fd] = t[fd]
      BY <2>1, <3>5, <3>6, <3>8
    <3>10. saved # NotSaved
      BY <3>3, FdFacts
    <3> QED BY <3>2, <3>3, <3>6, <3>8, <3>9, <3>10 DEF RedirectionIs, r
  <2> QED BY <2>2, <2>3
<1> QED BY <1>2, <1>3

\* The entry is what was saved, and the copy is gone.
RestoredIs(t, r, f, saved) ==
  /\ r \in Tables
  /\ r[f] = IF saved = NotSaved THEN t[f] ELSE t[saved]
  /\ \A fd \in Fds : fd # f /\ fd # saved => r[fd] = t[fd]

LEMMA RestoreIs ==
  ASSUME NEW t \in Tables, NEW f \in {0, 1}, NEW saved,
         saved # NotSaved => saved \in Fds /\ saved > 2
  PROVE  RestoredIs(t, Restore(t, f, saved), f, saved)
<1> DEFINE r == Restore(t, f, saved)
<1>1. f \in Fds /\ f <= 2 /\ f \in Nat
  BY FdFacts
<1>2. CASE saved = NotSaved
  <2>1. r = t
    BY <1>2 DEF Restore
  <2> QED BY <1>2, <2>1 DEF RestoredIs
<1>3. CASE saved # NotSaved
  <2> DEFINE back == DuplicateTo(t, saved, f)
  <2>1. back \in Tables /\ back[f] = t[saved] /\ \A fd \in Fds : fd # f => back[fd] = t[fd]
    BY <1>1, <1>3, DuplicateToIs
  <2>2. r = Close(back, saved)
    BY <1>3 DEF Restore
  <2> HIDE DEF back, r
  <2>3. r \in Tables /\ \A fd \in Fds : fd # saved => r[fd] = back[fd]
    BY <1>3, <2>1, <2>2, CloseIs
  <2>4. f # saved
    BY <1>1, <1>3, FdFacts
  <2>5. r \in Tables /\ r[f] = t[saved] /\ \A fd \in Fds : fd # f /\ fd # saved => r[fd] = t[fd]
    BY <1>1, <2>1, <2>3, <2>4
  <2> QED BY <1>3, <2>5 DEF r, RestoredIs
<1> QED BY <1>2, <1>3

\* The console is back and the builtin saw what it was told, wherever a call
\* failed.
LEMMA BuiltinKeeps ==
  ASSUME RedirectionsInv, NEW in \in BOOLEAN, NEW out \in BOOLEAN, NEW inOpens \in BOOLEAN,
         NEW outOpens \in BOOLEAN, RunBuiltinRedirected(in, out, inOpens, outOpens)
  PROVE  RedirectionsInv'
<1> DEFINE first == IF in THEN Redirected(table, Stdin, "in", inOpens)
                          ELSE [table |-> table, saved |-> NotSaved]
           second == IF out THEN Redirected(first.table, Stdout, "out", outOpens)
                            ELSE [first EXCEPT !.saved = NotSaved]
<1>1. /\ table \in Tables /\ table[0] = Console /\ table[1] = Console /\ table[2] = Console
      /\ 0 \in Fds /\ 1 \in Fds /\ 2 \in Fds /\ Fds \subseteq Nat /\ NotSaved \notin Fds
      /\ Console # Closed /\ Stdin = 0 /\ Stdout = 1
  BY FdFacts DEF RedirectionsInv, ShellKeepsConsole
<1>2. /\ "in" \in Objects \ {Closed} /\ "out" \in Objects \ {Closed}
  BY FdFacts
<1>3. /\ first = [table |-> first.table, saved |-> first.saved]
      /\ first.table \in Tables /\ first.table[1] = Console /\ first.table[2] = Console
      /\ first.table[0] = IF first.saved = NotSaved THEN Console ELSE "in"
      /\ first.saved # NotSaved =>
           in /\ first.saved \in Fds /\ first.saved > 2 /\ first.table[first.saved] = Console
  <2>1. CASE in
    <3>1. first = Redirected(table, Stdin, "in", inOpens)
      BY <2>1
    <3> HIDE DEF first
    <3>2. RedirectionIs(table, first, 0, "in")
      BY <1>1, <1>2, <3>1, RedirectedIs
    <3> QED BY <1>1, <2>1, <3>2 DEF RedirectionIs
  <2>2. CASE ~in
    <3>1. first = [table |-> table, saved |-> NotSaved]
      BY <2>2
    <3> HIDE DEF first
    <3>2. /\ first = [table |-> first.table, saved |-> first.saved]
          /\ first.table = table /\ first.saved = NotSaved
      BY <3>1
    <3> QED BY <1>1, <3>2
  <2> QED BY <2>1, <2>2
<1>4. /\ second.table \in Tables /\ second.table[2] = Console
      /\ second.table[0] = first.table[0]
      /\ second.table[1] = IF second.saved = NotSaved THEN Console ELSE "out"
      /\ first.saved # NotSaved => second.table[first.saved] = Console
      /\ second.saved # NotSaved =>
           /\ out /\ second.saved \in Fds /\ second.saved > 2
           /\ second.table[second.saved] = Console /\ second.saved # first.saved
  <2>1. first.table[0] # Closed
    BY <1>1, <1>2, <1>3
  <2>2. CASE out
    <3>1. second = Redirected(first.table, Stdout, "out", outOpens)
      BY <2>2
    <3> HIDE DEF first, second
    <3>2. RedirectionIs(first.table, second, 1, "out")
      BY <1>1, <1>2, <1>3, <3>1, RedirectedIs
    <3>3. \A fd \in Fds : fd # 1 /\ first.table[fd] # Closed => second.table[fd] = first.table[fd]
      BY <3>2 DEF RedirectionIs
    <3>4. first.saved # NotSaved => second.table[first.saved] = Console /\ second.saved # first.saved
      <4> SUFFICES ASSUME first.saved # NotSaved
                   PROVE  second.table[first.saved] = Console /\ second.saved # first.saved
        OBVIOUS
      <4>1. first.saved \in Fds /\ first.saved # 1 /\ first.table[first.saved] = Console
        BY <1>1, <1>3
      <4> QED BY <1>1, <3>2, <3>3, <4>1 DEF RedirectionIs
    <3>5. second.saved # NotSaved /\ first.saved = NotSaved => second.saved # first.saved
      OBVIOUS
    <3> QED BY <1>1, <1>3, <2>1, <2>2, <3>2, <3>3, <3>4, <3>5 DEF RedirectionIs
  <2>3. CASE ~out
    <3>1. second = [first EXCEPT !.saved = NotSaved]
      BY <2>3
    <3> HIDE DEF first, second
    <3>2. second.table = first.table /\ second.saved = NotSaved
      BY <1>3, <3>1
    <3> QED BY <1>1, <1>3, <3>2
  <2> QED BY <2>2, <2>3
<1>5. \/ /\ in /\ first.saved = NotSaved
         /\ table' = first.table /\ last' = Refused(in, out)
      \/ /\ ~ (in /\ first.saved = NotSaved) /\ out /\ second.saved = NotSaved
         /\ table' = Restore(second.table, Stdin, first.saved)
         /\ last' = Refused(in, out)
      \/ /\ ~ (in /\ first.saved = NotSaved) /\ ~ (out /\ second.saved = NotSaved)
         /\ last' = Ran(in, out, <<second.table[Stdin], second.table[Stdout]>>)
         /\ table' = Restore(Restore(second.table, Stdout, second.saved), Stdin, first.saved)
  BY Zenon DEF RunBuiltinRedirected
<1> HIDE DEF first, second
<1> DEFINE Good(t) == t \in Tables /\ t[0] = Console /\ t[1] = Console /\ t[2] = Console
<1>6. ASSUME NEW t \in Tables, t[0] = second.table[0], t[1] = Console, t[2] = Console,
             first.saved # NotSaved => t[first.saved] = Console
      PROVE  Good(Restore(t, Stdin, first.saved))
  <2> DEFINE r == Restore(t, Stdin, first.saved)
  <2>1. /\ r \in Tables /\ r[0] = IF first.saved = NotSaved THEN t[0] ELSE t[first.saved]
        /\ \A fd \in Fds : fd # 0 /\ fd # first.saved => r[fd] = t[fd]
    <3>1. RestoredIs(t, r, 0, first.saved)
      BY <1>1, <1>3, RestoreIs
    <3> QED BY <3>1 DEF RestoredIs
  <2> HIDE DEF r
  <2>2. 1 # first.saved /\ 2 # first.saved
    BY <1>1, <1>3
  <2>3. r[1] = Console /\ r[2] = Console
    BY <1>1, <1>6, <2>1, <2>2
  <2>4. r[0] = Console
    BY <1>3, <1>4, <1>6, <2>1
  <2> QED BY <2>1, <2>3, <2>4 DEF r
<1>7. CASE /\ in /\ first.saved = NotSaved
           /\ table' = first.table /\ last' = Refused(in, out)
  <2>1. Good(table') /\ ~last'.ran
    BY <1>3, <1>7 DEF Refused
  <2> QED BY <2>1 DEF RedirectionsInv, ShellKeepsConsole, CommandSeesItsFiles
<1>8. CASE /\ ~ (in /\ first.saved = NotSaved) /\ out /\ second.saved = NotSaved
           /\ table' = Restore(second.table, Stdin, first.saved)
           /\ last' = Refused(in, out)
  <2>1. Good(table')
    BY <1>4, <1>6, <1>8
  <2>2. ~last'.ran
    BY <1>8 DEF Refused
  <2> QED BY <2>1, <2>2 DEF RedirectionsInv, ShellKeepsConsole, CommandSeesItsFiles
<1>9. CASE /\ ~ (in /\ first.saved = NotSaved) /\ ~ (out /\ second.saved = NotSaved)
           /\ last' = Ran(in, out, <<second.table[Stdin], second.table[Stdout]>>)
           /\ table' = Restore(Restore(second.table, Stdout, second.saved), Stdin, first.saved)
  <2> DEFINE t == Restore(second.table, Stdout, second.saved)
  <2>1. /\ t \in Tables
        /\ t[1] = IF second.saved = NotSaved THEN second.table[1] ELSE second.table[second.saved]
        /\ \A fd \in Fds : fd # 1 /\ fd # second.saved => t[fd] = second.table[fd]
    <3>1. RestoredIs(second.table, t, 1, second.saved)
      BY <1>1, <1>4, RestoreIs
    <3> QED BY <3>1 DEF RestoredIs
  <2>2. table' = Restore(t, Stdin, first.saved)
    BY <1>9
  <2> HIDE DEF t
  <2>3. t[1] = Console
    BY <1>4, <2>1
  <2>4. 0 # second.saved /\ 2 # second.saved
    BY <1>1, <1>4
  <2>5. t[0] = second.table[0] /\ t[2] = Console
    BY <1>1, <1>4, <2>1, <2>4
  <2>6. first.saved # NotSaved => t[first.saved] = Console
    BY <1>1, <1>3, <1>4, <2>1
  <2>7. Good(table')
    BY <1>6, <2>1, <2>2, <2>3, <2>5, <2>6
  <2>8. /\ second.table[0] = IF in THEN "in" ELSE Console
        /\ second.table[1] = IF out THEN "out" ELSE Console
    BY <1>3, <1>4, <1>9
  <2>9. last'.seen = last'.told
    BY <1>1, <1>9, <2>8 DEF Ran, Told
  <2> QED BY <2>7, <2>9 DEF RedirectionsInv, ShellKeepsConsole, CommandSeesItsFiles
<1> QED BY <1>5, <1>7, <1>8, <1>9

\* An entry that is opened is free no longer, and no other is taken.
LEMMA OpenTakesOne ==
  ASSUME NEW t \in Tables, Free(t) # {}, NEW object \in Objects \ {Closed}
  PROVE  Free(Open(t, object)) = Free(t) \ {Lowest(t)} /\ Lowest(t) \in Free(t)
<1>1. Lowest(t) \in Fds /\ Lowest(t) > 2 /\ t[Lowest(t)] = Closed
  BY LowestIsFree
<1>2. /\ Open(t, object)[Lowest(t)] = object
      /\ \A fd \in Fds : fd # Lowest(t) => Open(t, object)[fd] = t[fd]
  BY OpenIs
<1> QED BY <1>1, <1>2 DEF Free

\* Enough entries for the files there are.
LEMMA EnoughIsFree ==
  ASSUME NEW t \in Tables, NEW in \in BOOLEAN, NEW out \in BOOLEAN,
         Cardinality(Free(t)) >= (IF in THEN 1 ELSE 0) + (IF out THEN 1 ELSE 0)
  PROVE  /\ in \/ out => Free(t) # {}
         /\ in /\ out => Free(Open(t, "in")) # {}
<1>1. IsFiniteSet(Free(t)) /\ Cardinality(Free(t)) \in Nat
  <2>1. Free(t) \subseteq Fds
    BY DEF Free
  <2> QED BY <2>1, FS_Subset, FS_CardinalityType, FdFacts
<1>2. in \/ out => Cardinality(Free(t)) # 0
  BY <1>1
<1>3. in \/ out => Free(t) # {}
  BY <1>2, FS_EmptySet
<1>4. CASE in /\ out
  <2>1. Cardinality(Free(t)) >= 2
    BY <1>4
  <2>2. Free(Open(t, "in")) = Free(t) \ {Lowest(t)} /\ Lowest(t) \in Free(t)
    BY <1>3, <1>4, OpenTakesOne, FdFacts
  <2>3. Cardinality(Free(t) \ {Lowest(t)}) = Cardinality(Free(t)) - 1
    BY <1>1, <2>2, FS_RemoveElement
  <2>4. Cardinality(Free(Open(t, "in"))) = Cardinality(Free(t)) - 1
    BY <2>2, <2>3, Zenon
  <2>5. Cardinality(Free(Open(t, "in"))) # 0
    BY <1>1, <2>1, <2>4
  <2>6. Free(Open(t, "in")) # {}
    BY <2>5, FS_EmptySet
  <2> QED BY <1>3, <2>6
<1> QED BY <1>3, <1>4

\* The files of an external command: above the standard descriptors, each in
\* one place.
OpenedIs(t, o, in, out) ==
  /\ o.table \in Tables
  /\ \A fd \in Fds : t[fd] # Closed => o.table[fd] = t[fd]
  /\ \A f \in Fds : <<f, 0>> \in o.opened \/ <<f, 1>> \in o.opened => f > 2
  /\ \A e \in o.opened : e[1] \in Fds /\ e[1] > 2 /\ e[2] \in {0, 1} /\ e = <<e[1], e[2]>>
  /\ in <=> \E f \in Fds : <<f, 0>> \in o.opened
  /\ out <=> \E f \in Fds : <<f, 1>> \in o.opened
  /\ \A f \in Fds : /\ <<f, 0>> \in o.opened => o.table[f] = "in"
                    /\ <<f, 1>> \in o.opened => o.table[f] = "out"

LEMMA OpenedForIs ==
  ASSUME RedirectionsInv, NEW in \in BOOLEAN, NEW out \in BOOLEAN,
         Cardinality(Free(table)) >= (IF in THEN 1 ELSE 0) + (IF out THEN 1 ELSE 0)
  PROVE  OpenedIs(table, OpenedFor(in, out), in, out)
<1> DEFINE read == Lowest(table)
           t == IF in THEN Open(table, "in") ELSE table
           write == Lowest(t)
           o == OpenedFor(in, out)
<1>1. table \in Tables /\ (in \/ out => Free(table) # {}) /\ (in /\ out => Free(Open(table, "in")) # {})
  BY EnoughIsFree DEF RedirectionsInv
<1>2. {"in", "out"} \subseteq Objects \ {Closed} /\ Stdin = 0 /\ Stdout = 1
  BY FdFacts
<1>3. /\ t \in Tables
      /\ \A fd \in Fds : table[fd] # Closed => t[fd] = table[fd]
      /\ in => read \in Fds /\ read > 2 /\ t[read] = "in"
      /\ out => Free(t) # {}
  <2>1. CASE in
    <3>1. t = Open(table, "in") /\ Free(table) # {}
      BY <1>1, <2>1
    <3>2. /\ read \in Fds /\ read > 2 /\ table[read] = Closed
      BY <3>1, LowestIsFree
    <3>3. /\ Open(table, "in") \in Tables /\ Open(table, "in")[read] = "in"
          /\ \A fd \in Fds : fd # read => Open(table, "in")[fd] = table[fd]
      BY <1>1, <1>2, <3>1, OpenIs
    <3> HIDE DEF t, read
    <3> QED BY <1>1, <2>1, <3>1, <3>2, <3>3
  <2>2. CASE ~in
    <3>1. t = table
      BY <2>2
    <3> HIDE DEF t, read
    <3> QED BY <1>1, <2>2, <3>1
  <2> QED BY <2>1, <2>2
<1>4. /\ o.table = IF out THEN Open(t, "out") ELSE t
      /\ o.opened = (IF in THEN {<<read, 0>>} ELSE {}) \cup (IF out THEN {<<write, 1>>} ELSE {})
  BY <1>2 DEF OpenedFor
<1> HIDE DEF t, read, o
<1>5. out => write \in Fds /\ write > 2 /\ t[write] = Closed
  BY <1>3, LowestIsFree
<1>6. /\ o.table \in Tables
      /\ \A fd \in Fds : t[fd] # Closed => o.table[fd] = t[fd]
      /\ out => o.table[write] = "out"
  <2>1. CASE out
    <3>1. /\ Open(t, "out") \in Tables /\ Open(t, "out")[write] = "out"
          /\ \A fd \in Fds : fd # write => Open(t, "out")[fd] = t[fd]
      BY <1>2, <1>3, <2>1, OpenIs
    <3> HIDE DEF write
    <3> QED BY <1>4, <1>5, <2>1, <3>1
  <2>2. CASE ~out
    BY <1>3, <1>4, <2>2
  <2> QED BY <2>1, <2>2
<1> HIDE DEF write
<1>7. \A fd \in Fds : table[fd] # Closed => o.table[fd] = table[fd]
  BY <1>3, <1>6
<1>8. in => o.table[read] = "in"
  BY <1>2, <1>3, <1>6
<1>9. \A e : e \in o.opened <=> (in /\ e = <<read, 0>>) \/ (out /\ e = <<write, 1>>)
  BY <1>4
<1>10. /\ \A f \in Fds : /\ <<f, 0>> \in o.opened <=> in /\ f = read
                         /\ <<f, 1>> \in o.opened <=> out /\ f = write
  BY <1>9
<1>11. \A e \in o.opened : e[1] \in Fds /\ e[1] > 2 /\ e[2] \in {0, 1} /\ e = <<e[1], e[2]>>
  BY <1>3, <1>5, <1>9
<1> QED BY <1>3, <1>5, <1>6, <1>7, <1>8, <1>10, <1>11 DEF OpenedIs, o

LEMMA ExternalKeeps ==
  ASSUME RedirectionsInv, NEW in \in BOOLEAN, NEW out \in BOOLEAN, RunExternal(in, out)
  PROVE  RedirectionsInv'
<1> DEFINE o == OpenedFor(in, out)
           child == ChildTable(o.table, o.opened)
<1>1. /\ table \in Tables /\ table[0] = Console /\ table[1] = Console /\ table[2] = Console
      /\ 0 \in Fds /\ 1 \in Fds /\ 2 \in Fds /\ Fds \subseteq Nat /\ Console # Closed
      /\ Stdin = 0 /\ Stdout = 1 /\ Closed \in Objects
  BY FdFacts DEF RedirectionsInv, ShellKeepsConsole
<1>2. CASE last' = Refused(in, out) /\ UNCHANGED table
  <2>1. ~last'.ran
    BY <1>2 DEF Refused
  <2> QED BY <1>2, <2>1 DEF RedirectionsInv, ShellKeepsConsole, CommandSeesItsFiles
<1>3. CASE /\ Cardinality(Free(table)) >= (IF in THEN 1 ELSE 0) + (IF out THEN 1 ELSE 0)
           /\ last' = Ran(in, out, <<child[Stdin], child[Stdout]>>)
           /\ table' = CloseAll(o.table, o.opened)
  <2>1. OpenedIs(table, o, in, out)
    BY <1>3, OpenedForIs
  <2> HIDE DEF o
  <2>2. /\ o.table \in Tables /\ o.table[0] = Console /\ o.table[1] = Console /\ o.table[2] = Console
    BY <1>1, <2>1 DEF OpenedIs
  <2>3. \A e \in o.opened : e[1] # 0 /\ e[1] # 1 /\ e[1] # 2
    BY <2>1 DEF OpenedIs
  <2>4. ASSUME NEW u, NEW f \in {0, 1, 2}
        PROVE  CloseAll(u, o.opened)[f] = u[f]
    <3>1. f \in Fds /\ ~(\E e \in o.opened : e[1] = f)
      BY <1>1, <2>3
    <3> QED BY <3>1 DEF CloseAll
  <2>5. table' \in Tables
    <3>1. CloseAll(o.table, o.opened) \in Tables
      BY <1>1, <2>2 DEF CloseAll, Tables
    <3> QED BY <1>3, <3>1
  <2>6. table'[0] = Console /\ table'[1] = Console /\ table'[2] = Console
    BY <1>3, <2>2, <2>4
  <2> DEFINE given == InstallAll(o.table, o.opened)
  <2>7. child[0] = given[0] /\ child[1] = given[1]
    BY <2>4 DEF ChildTable
  <2>8. given[0] = IF in THEN "in" ELSE Console
    <3>1. CASE in
      <4>1. \E f \in Fds : <<f, 0>> \in o.opened
        BY <2>1, <3>1 DEF OpenedIs
      <4>2. \E e \in o.opened : e[2] = 0
        BY <4>1
      <4> DEFINE g == CHOOSE f \in Fds : <<f, 0>> \in o.opened
      <4>3. g \in Fds /\ <<g, 0>> \in o.opened
        BY <4>1
      <4>4. given[0] = o.table[g]
        BY <1>1, <4>2 DEF InstallAll
      <4> HIDE DEF g, given
      <4>5. o.table[g] = "in"
        BY <2>1, <4>3 DEF OpenedIs
      <4> QED BY <3>1, <4>4, <4>5
    <3>2. CASE ~in
      <4>1. \A e \in o.opened : e[2] # 0
        BY <2>1, <3>2 DEF OpenedIs
      <4>2. given[0] = o.table[0]
        BY <1>1, <4>1 DEF InstallAll
      <4> HIDE DEF given
      <4> QED BY <2>2, <3>2, <4>2
    <3> QED BY <3>1, <3>2
  <2>9. given[1] = IF out THEN "out" ELSE Console
    <3>1. CASE out
      <4>1. \E f \in Fds : <<f, 1>> \in o.opened
        BY <2>1, <3>1 DEF OpenedIs
      <4>2. \E e \in o.opened : e[2] = 1
        BY <4>1
      <4> DEFINE g == CHOOSE f \in Fds : <<f, 1>> \in o.opened
      <4>3. g \in Fds /\ <<g, 1>> \in o.opened
        BY <4>1
      <4>4. given[1] = o.table[g]
        BY <1>1, <4>2 DEF InstallAll
      <4> HIDE DEF g, given
      <4>5. o.table[g] = "out"
        BY <2>1, <4>3 DEF OpenedIs
      <4> QED BY <3>1, <4>4, <4>5
    <3>2. CASE ~out
      <4>1. \A e \in o.opened : e[2] # 1
        BY <2>1, <3>2 DEF OpenedIs
      <4>2. given[1] = o.table[1]
        BY <1>1, <4>1 DEF InstallAll
      <4> HIDE DEF given
      <4> QED BY <2>2, <3>2, <4>2
    <3> QED BY <3>1, <3>2
  <2> HIDE DEF given, child
  <2>10. last'.seen = last'.told
    BY <1>1, <1>3, <2>7, <2>8, <2>9 DEF Ran, Told
  <2> QED BY <2>5, <2>6, <2>10 DEF RedirectionsInv, ShellKeepsConsole, CommandSeesItsFiles
<1> QED BY <1>2, <1>3, Zenon DEF RunExternal

LEMMA RedirectionsInvInit == RedirectionsInit => RedirectionsInv
<1> SUFFICES ASSUME RedirectionsInit PROVE RedirectionsInv
  OBVIOUS
<1>1. table \in Tables /\ table[0] = Console /\ table[1] = Console /\ table[2] = Console
  BY FdFacts DEF RedirectionsInit, Tables
<1>2. ~last.ran
  BY DEF RedirectionsInit, Refused
<1> QED BY <1>1, <1>2 DEF RedirectionsInv, ShellKeepsConsole, CommandSeesItsFiles

LEMMA RedirectionsInvNext ==
  ASSUME RedirectionsInv, [RedirectionsNext]_redirectionVars
  PROVE  RedirectionsInv'
<1>1. CASE RedirectionsNext
  BY <1>1, BuiltinKeeps, ExternalKeeps DEF RedirectionsNext
<1>2. CASE UNCHANGED redirectionVars
  BY <1>2 DEF redirectionVars, RedirectionsInv, ShellKeepsConsole, CommandSeesItsFiles
<1> QED BY <1>1, <1>2

\* Between two commands the shell has the console on its three descriptors:
\* run_builtin_redirected puts back what it moved aside at every point where a
\* call fails, and run_external closes only what it opened.
THEOREM ShellAlwaysKeepsConsole == RedirectionsSpec => []ShellKeepsConsole
<1>1. RedirectionsInit => RedirectionsInv
  BY RedirectionsInvInit
<1>2. RedirectionsInv /\ [RedirectionsNext]_redirectionVars => RedirectionsInv'
  BY RedirectionsInvNext
<1>3. RedirectionsInv => ShellKeepsConsole
  BY DEF RedirectionsInv
<1> QED BY <1>1, <1>2, <1>3, PTL DEF RedirectionsSpec

\* A builtin or a program that runs finds on its input and its output the
\* files it was told, or the console: no copy is closed before it is in place,
\* and no entry that is taken gives away what another redirection opened.
THEOREM CommandsSeeTheirFiles == RedirectionsSpec => []CommandSeesItsFiles
<1>1. RedirectionsInit => RedirectionsInv
  BY RedirectionsInvInit
<1>2. RedirectionsInv /\ [RedirectionsNext]_redirectionVars => RedirectionsInv'
  BY RedirectionsInvNext
<1>3. RedirectionsInv => CommandSeesItsFiles
  BY DEF RedirectionsInv
<1> QED BY <1>1, <1>2, <1>3, PTL DEF RedirectionsSpec
=============================================================================
