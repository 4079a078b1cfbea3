------------------------- MODULE SupervisionProofs -------------------------
(***************************************************************************)
(* Theorems about Supervision, for every limit on the processes, whatever  *)
(* systems are booted and however many requests are sent.                  *)
(***************************************************************************)
EXTENDS Supervision, FiniteSetTheorems, WellFoundedInduction, TLAPS

\* The places from which an init looks after a getty; "launch" is not one of them,
\* since it gets there only when its getty is gone.
Supervising == {"look", "poll", "power"}

\* A second init is the one PID 1 became, with the marker set: it does not pivot.
OneInit(ps, mark) ==
  /\ ps[1].program = "init"
  /\ ps[1].at = "reexec" => mark
  /\ \A p \in Pids \ {1} : ps[p].program = "init" =>
       /\ ps[1].at = "idle" /\ ps[1].child = p
       /\ mark /\ ps[p].at \notin {"pivot", "reexec"}

\* A getty that lives is the one its init, alive or not, looks at.
GettyIsWatched(ps) ==
  \A g \in Pids : ps[g].program = "getty" /\ ps[g].life = "alive" =>
    /\ ps[g].parent \in Pids
    /\ ps[ps[g].parent].program = "init" /\ ps[ps[g].parent].child = g
    /\ ps[ps[g].parent].at \in Supervising

\* Why there is one login: one init at most supervises, and every getty that lives is
\* the child it remembers, which it must find gone before it launches another.
LoginInv ==
  /\ DOMAIN procs = Pids
  /\ OneInit(procs, marker)
  /\ GettyIsWatched(procs)
-----------------------------------------------------------------------------
LEMMA PidFacts == 1 \in Pids /\ Pids \subseteq Nat
BY SupervisionAssumption DEF Pids

\* Min of FiniteSetsExt chooses the least pid that was never used.
LEMMA NewIsUnused ==
  ASSUME CanStart
  PROVE  Min(NeverUsed) \in Pids /\ procs[Min(NeverUsed)].program = "none"
<1>1. NeverUsed \in SUBSET Nat /\ NeverUsed # {}
  BY PidFacts DEF NeverUsed, CanStart
<1>2. PICK m \in NeverUsed : \A x \in NeverUsed : <<x, m>> \notin OpToRel(<, Nat)
  BY <1>1, WFMin, NatLessThanWellFounded, Zenon
<1>3. \A x \in NeverUsed : ~(x < m)
  BY <1>1, <1>2, Zenon DEF OpToRel
<1>4. \A x \in NeverUsed : m <= x
  BY <1>1, <1>3
<1>5. Min(NeverUsed) \in NeverUsed
  BY <1>4 DEF Min
<1> QED BY <1>5 DEF NeverUsed

\* What a step may do to the processes without harm to the logins: no getty and no
\* init is started, and an init goes elsewhere only as said.
Harmless(ps, new) ==
  /\ DOMAIN new = Pids
  /\ \A p \in Pids : new[p].program \in {"init", "getty"} =>
       /\ new[p].program = ps[p].program /\ new[p].parent = ps[p].parent
       /\ new[p].life = "alive" => ps[p].life = "alive"
  /\ \A p \in Pids : ps[p].program = "init" =>
       /\ new[p].program = "init"
       /\ new[p].at \in {"pivot", "reexec"} => ps[p].at \in {"pivot", "reexec"} \/ p = 1
       /\ ps[p].at = "idle" => new[p].at = "idle" /\ new[p].child = ps[p].child
       /\ ps[p].at \in Supervising =>
            \/ new[p].at \in Supervising /\ new[p].child = ps[p].child
            \/ \A g \in Pids : g = ps[p].child => ps[g].life # "alive"

LEMMA HarmlessKeeps ==
  ASSUME LoginInv, Harmless(procs, procs'), marker => marker',
         procs'[1].at = "reexec" => marker'
  PROVE  LoginInv'
<1>1. OneInit(procs', marker')
  <2>1. procs'[1].program = "init"
    BY PidFacts, Zenon DEF LoginInv, OneInit, Harmless
  <2>2. ASSUME NEW p \in Pids \ {1}, procs'[p].program = "init"
        PROVE  /\ procs'[1].at = "idle" /\ procs'[1].child = p
               /\ marker' /\ procs'[p].at \notin {"pivot", "reexec"}
    <3>1. procs[p].program = "init"
      BY <2>2 DEF Harmless
    <3>2. /\ procs[1].at = "idle" /\ procs[1].child = p
          /\ marker /\ procs[p].at \notin {"pivot", "reexec"}
      BY <3>1 DEF LoginInv, OneInit
    <3>3. procs[1].program = "init"
      BY DEF LoginInv, OneInit
    <3>4. procs'[1].at = "idle" /\ procs'[1].child = procs[1].child
      BY <3>2, <3>3, PidFacts DEF Harmless
    <3> QED BY <3>1, <3>2, <3>4 DEF Harmless
  <2> QED BY <2>1, <2>2, Zenon DEF OneInit
<1>2. ASSUME NEW g \in Pids, procs'[g].program = "getty", procs'[g].life = "alive"
      PROVE  /\ procs'[g].parent \in Pids
             /\ procs'[procs'[g].parent].program = "init"
             /\ procs'[procs'[g].parent].child = g
             /\ procs'[procs'[g].parent].at \in Supervising
  <2>1. /\ procs[g].program = "getty" /\ procs[g].life = "alive"
        /\ procs'[g].parent = procs[g].parent
    BY <1>2, Zenon DEF Harmless
  <2>2. /\ procs[g].parent \in Pids
        /\ procs[procs[g].parent].program = "init" /\ procs[procs[g].parent].child = g
        /\ procs[procs[g].parent].at \in Supervising
    BY <2>1, Zenon DEF LoginInv, GettyIsWatched
  <2> QED BY <2>1, <2>2, Zenon DEF Harmless
<1> QED BY <1>1, <1>2, Zenon DEF LoginInv, GettyIsWatched, Harmless

\* One process goes elsewhere, or changes what its child field says.
LEMMA MoveIsHarmless ==
  ASSUME DOMAIN procs = Pids, NEW p \in Pids, NEW at, NEW child,
         procs[p].at # "idle",
         \/ procs[p].program # "init"
         \/ /\ at \in {"pivot", "reexec"} => procs[p].at \in {"pivot", "reexec"} \/ p = 1
            /\ procs[p].at \in Supervising =>
                 \/ at \in Supervising /\ child = procs[p].child
                 \/ \A g \in Pids : g = procs[p].child => procs[g].life # "alive",
         procs' = [procs EXCEPT ![p].at = at, ![p].child = child]
  PROVE  Harmless(procs, procs')
BY DEF Harmless

\* A process ends or is collected.
LEMMA EndIsHarmless ==
  ASSUME DOMAIN procs = Pids, NEW p, NEW life, life # "alive",
         procs' = [procs EXCEPT ![p].life = life]
  PROVE  Harmless(procs, procs')
BY DEF Harmless

LEMMA NothingIsHarmless ==
  ASSUME DOMAIN procs = Pids, procs' = procs
  PROVE  Harmless(procs, procs')
BY DEF Harmless

-----------------------------------------------------------------------------
(* The handlers.                                                           *)

\* Go and a failed Exec leave the child field alone.
LEMMA GoIsHarmless ==
  ASSUME DOMAIN procs = Pids, NEW p \in Pids, NEW at, procs[p].at # "idle",
         \/ procs[p].program # "init"
         \/ /\ at \in {"pivot", "reexec"} => procs[p].at \in {"pivot", "reexec"} \/ p = 1
            /\ procs[p].at \in Supervising =>
                 \/ at \in Supervising
                 \/ \A g \in Pids : g = procs[p].child => procs[g].life # "alive",
         Go(p, at)
  PROVE  Harmless(procs, procs')
BY DEF Harmless, Go

\* What a started process leaves in the list of processes.
LEMMA StartedExactly ==
  ASSUME DOMAIN procs = Pids, CanStart, NEW p \in Pids, procs[p].program # "none",
         NEW program, NEW at
  PROVE  LET n == Min(NeverUsed)
             new == Started(p, program, at)
         IN  /\ n \in Pids \ {p} /\ procs[n].program = "none" /\ DOMAIN new = Pids
             /\ new[n] = Born(program, p, EntryOf(program))
             /\ new[p] = [procs[p] EXCEPT !.at = at]
             /\ \A q \in Pids \ {n, p} : new[q] = procs[q]
BY NewIsUnused DEF Started

LEMMA ExecIsHarmless ==
  ASSUME DOMAIN procs = Pids, NEW p \in Pids, NEW program, NEW then, NEW otherwise,
         program \notin {"init", "getty"}, procs[p].program # "none", procs[p].at # "idle",
         \/ procs[p].program # "init"
         \/ /\ {then, otherwise} \cap {"pivot", "reexec"} = {}
            /\ procs[p].at \notin Supervising,
         Exec(p, program, then, otherwise)
  PROVE  Harmless(procs, procs')
<1>1. CASE Go(p, otherwise)
  BY <1>1, GoIsHarmless
<1>2. CASE CanStart /\ procs' = [Started(p, program, then) EXCEPT ![p].child = Min(NeverUsed)]
  <2>1. procs' = [Started(p, program, then) EXCEPT ![p].child = Min(NeverUsed)]
    BY <1>2
  <2>2. {then, otherwise} \cap {"pivot", "reexec"} = {} =>
          then \notin {"pivot", "reexec"}
    OBVIOUS
  <2> DEFINE n == Min(NeverUsed)
             new == Started(p, program, then)
  <2>3. /\ n \in Pids \ {p} /\ procs[n].program = "none" /\ DOMAIN new = Pids
        /\ new[n] = Born(program, p, EntryOf(program))
        /\ new[p] = [procs[p] EXCEPT !.at = then]
        /\ \A q \in Pids \ {n, p} : new[q] = procs[q]
    BY <1>2, StartedExactly
  <2>4. procs' = [new EXCEPT ![p].child = n]
    BY <2>1
  <2> HIDE DEF n, new
  <2>5. /\ DOMAIN procs' = Pids /\ procs'[n] = Born(program, p, EntryOf(program))
        /\ \A q \in Pids \ {n, p} : procs'[q] = procs[q]
    BY <2>3, <2>4
  <2>6. procs'[p] = [[procs[p] EXCEPT !.at = then] EXCEPT !.child = n]
    BY <2>3, <2>4
  <2>7. procs'[n].program = program
    BY <2>5 DEF Born
  <2>8. /\ procs'[p].program = procs[p].program /\ procs'[p].parent = procs[p].parent
        /\ procs'[p].life = procs[p].life
        /\ procs'[p].at = then \/ procs'[p].at = procs[p].at
    BY <2>6
  <2> QED BY <2>2, <2>3, <2>5, <2>7, <2>8 DEF Harmless
<1> QED BY <1>1, <1>2 DEF Exec

\* The second init is born with the marker set: it neither pivots nor starts a third.
LEMMA PivotIsFirst ==
  ASSUME LoginInv, NEW p \in Pids, procs[p].program = "init",
         ~marker \/ procs[p].at \in {"pivot", "reexec"}
  PROVE  p = 1
BY DEF LoginInv, OneInit

LEMMA BootKeeps ==
  ASSUME LoginInv, NEW p \in Pids, Boot(p)
  PROVE  LoginInv'
<1>1. Harmless(procs, procs')
  <2> DEFINE at == IF ~marker /\ setup.realRoot THEN "pivot" ELSE "supervise"
  <2>1. at = "pivot" => p = 1
    BY PivotIsFirst DEF Boot, At, IsAlive
  <2>2. at # "reexec" /\ procs[p].program = "init" /\ procs[p].at = "boot" /\ Go(p, at)
    BY DEF Boot, At, IsAlive
  <2> HIDE DEF at
  <2> QED BY <2>1, <2>2, GoIsHarmless DEF LoginInv, Supervising
<1>2. procs'[1].at = "reexec" => procs[1].at = "reexec"
  BY PidFacts DEF Boot, Go, LoginInv
<1> QED BY <1>1, <1>2, HarmlessKeeps DEF LoginInv, OneInit, Boot

\* An init that may pivot is PID 1; after the pivot the marker is set.
LEMMA PivotRootKeeps ==
  ASSUME LoginInv, NEW p \in Pids, PivotRoot(p)
  PROVE  LoginInv'
<1>1. procs[p].program = "init" /\ procs[p].at = "pivot" /\ p = 1
  BY PivotIsFirst DEF PivotRoot, At, IsAlive
<1>2. PICK at \in {"reexec", "supervise"} : Go(p, at) /\ (at = "reexec" => marker')
  BY DEF PivotRoot
<1>3. Harmless(procs, procs')
  BY <1>1, <1>2, GoIsHarmless DEF LoginInv, Supervising
<1>4. procs'[1].at = at
  BY <1>1, <1>2 DEF Go, LoginInv
<1>5. marker => marker'
  BY DEF PivotRoot
<1> QED BY <1>2, <1>3, <1>4, <1>5, HarmlessKeeps, Zenon

LEMMA SameMarkerKeeps ==
  ASSUME LoginInv, marker' = marker, Harmless(procs, procs'),
         procs'[1].at = "reexec" => procs[1].at = "reexec"
  PROVE  LoginInv'
BY HarmlessKeeps, Zenon DEF LoginInv, OneInit

\* The first init becomes the second one: no getty lives yet.
LEMMA ReexecKeeps ==
  ASSUME LoginInv, NEW p \in Pids, Reexec(p), marker' = marker
  PROVE  LoginInv'
<1>1. procs[p].program = "init" /\ procs[p].at = "reexec" /\ p = 1
  BY PivotIsFirst DEF Reexec, At, IsAlive
<1>2. CASE Go(p, "supervise")
  <2>2. Harmless(procs, procs')
    BY <1>1, <1>2, GoIsHarmless DEF LoginInv, Supervising
  <2> QED BY <1>1, <2>2, SameMarkerKeeps
<1>3. CASE CanStart /\ procs' = [Started(p, "init", "idle") EXCEPT ![p].child = Min(NeverUsed)]
  <2> DEFINE n == Min(NeverUsed)
             new == Started(p, "init", "idle")
  <2>1. /\ n \in Pids \ {p} /\ procs[n].program = "none" /\ DOMAIN new = Pids
        /\ new[n] = Born("init", p, EntryOf("init"))
        /\ new[p] = [procs[p] EXCEPT !.at = "idle"]
        /\ \A q \in Pids \ {n, p} : new[q] = procs[q]
    BY <1>1, <1>3, StartedExactly DEF LoginInv
  <2>2. procs' = [new EXCEPT ![p].child = n]
    BY <1>3
  <2> HIDE DEF n, new
  <2>3. /\ DOMAIN procs' = Pids /\ procs'[n] = Born("init", p, EntryOf("init"))
        /\ \A q \in Pids \ {n, p} : procs'[q] = procs[q]
    BY <2>1, <2>2
  <2>4. procs'[p] = [[procs[p] EXCEPT !.at = "idle"] EXCEPT !.child = n]
    BY <2>1, <2>2
  <2>5. procs'[n].program = "init" /\ procs'[n].at = "boot"
    BY <2>3 DEF Born, EntryOf
  <2>6. procs'[p].program = "init" /\ procs'[p].at = "idle" /\ procs'[p].child = n
    BY <1>1, <2>4
  <2>7. \A q \in Pids \ {1} : procs[q].program # "init"
    BY <1>1 DEF LoginInv, OneInit
  <2>8. marker
    BY <1>1 DEF LoginInv, OneInit
  <2>9. \A q \in Pids \ {n, p} : procs'[q].program # "init"
    BY <1>1, <2>3, <2>7
  <2>10. OneInit(procs', marker')
    BY <1>1, <2>5, <2>6, <2>8, <2>9 DEF OneInit
  <2>11. ~\E g \in Pids : procs[g].program = "getty" /\ procs[g].life = "alive"
    <3>1. ASSUME NEW g \in Pids, procs[g].program = "getty", procs[g].life = "alive"
          PROVE  FALSE
      <4> DEFINE q == procs[g].parent
      <4>1. q \in Pids /\ procs[q].program = "init" /\ procs[q].at \in Supervising
        BY <3>1 DEF LoginInv, GettyIsWatched
      <4> HIDE DEF q
      <4> QED BY <1>1, <2>7, <4>1 DEF Supervising
    <3> QED BY <3>1
  <2>12. ~\E g \in Pids : procs'[g].program = "getty" /\ procs'[g].life = "alive"
    BY <2>3, <2>5, <2>6, <2>11
  <2> QED BY <2>3, <2>10, <2>12, Zenon DEF LoginInv, GettyIsWatched
<1> QED BY <1>2, <1>3 DEF Reexec, Exec

\* A getty is launched by the one init that supervises, when it has none that lives.
LEMMA LaunchKeeps ==
  ASSUME LoginInv, NEW p \in Pids, Launch(p), marker' = marker
  PROVE  LoginInv'
<1>1. procs[p].program = "init" /\ procs[p].at = "launch"
  BY DEF Launch, At, IsAlive
<1>2. CASE Go(p, "look")
  <2>1. Go(p, "look")
    BY <1>2
  <2>2. Harmless(procs, procs')
    BY <1>1, <2>1, GoIsHarmless DEF LoginInv, Supervising
  <2>3. procs'[1].at = "reexec" => procs[1].at = "reexec"
    BY <2>1, PidFacts DEF Go, LoginInv
  <2> QED BY <2>2, <2>3, SameMarkerKeeps
<1>3. CASE CanStart /\ procs' = [Started(p, "getty", "poll") EXCEPT ![p].child = Min(NeverUsed)]
  <2> DEFINE n == Min(NeverUsed)
             new == Started(p, "getty", "poll")
  <2>1. /\ n \in Pids \ {p} /\ procs[n].program = "none" /\ DOMAIN new = Pids
        /\ new[n] = Born("getty", p, EntryOf("getty"))
        /\ new[p] = [procs[p] EXCEPT !.at = "poll"]
        /\ \A q \in Pids \ {n, p} : new[q] = procs[q]
    BY <1>1, <1>3, StartedExactly DEF LoginInv
  <2>2. procs' = [new EXCEPT ![p].child = n]
    BY <1>3
  <2> HIDE DEF n, new
  <2>3. /\ DOMAIN procs' = Pids /\ procs'[n] = Born("getty", p, EntryOf("getty"))
        /\ \A q \in Pids \ {n, p} : procs'[q] = procs[q]
    BY <2>1, <2>2
  <2>4. procs'[p] = [[procs[p] EXCEPT !.at = "poll"] EXCEPT !.child = n]
    BY <2>1, <2>2
  <2>5. procs'[n].program = "getty" /\ procs'[n].parent = p
    BY <2>3 DEF Born
  <2>6. procs'[p].program = "init" /\ procs'[p].at = "poll" /\ procs'[p].child = n
    BY <1>1, <2>4
  <2>7. n # 1
    BY <2>1 DEF LoginInv, OneInit
  <2>8. procs[1].at = "idle" => p # 1
    BY <1>1
  <2>9. OneInit(procs', marker')
    <3>1. CASE p = 1
      <4>1. \A q \in Pids \ {1} : procs[q].program # "init"
        BY <1>1, <3>1 DEF LoginInv, OneInit
      <4> QED BY <2>3, <2>5, <2>6, <3>1, <4>1 DEF OneInit
    <3>2. CASE p # 1
      <4>1. procs'[1] = procs[1]
        BY <2>3, <2>7, <3>2, PidFacts
      <4>2. \A q \in Pids \ {1} : procs'[q].program = "init" => procs[q].program = "init"
        BY <1>1, <2>3, <2>5
      <4>3. \A q \in Pids \ {p} : procs'[q].program = "init" => procs'[q] = procs[q]
        BY <2>3, <2>5
      <4> QED BY <2>6, <4>1, <4>2, <4>3 DEF LoginInv, OneInit
    <3> QED BY <3>1, <3>2
  <2>10. ASSUME NEW g \in Pids, procs[g].program = "getty", procs[g].life = "alive"
         PROVE  FALSE
    <3> DEFINE q == procs[g].parent
    <3>1. q \in Pids /\ procs[q].program = "init" /\ procs[q].at \in Supervising
      BY <2>10 DEF LoginInv, GettyIsWatched
    <3>2. q # p /\ procs[q].at # "idle"
      BY <1>1, <3>1 DEF Supervising
    <3> HIDE DEF q
    <3> QED BY <1>1, <3>1, <3>2 DEF LoginInv, OneInit
  <2>11. \A g \in Pids : procs'[g].program = "getty" /\ procs'[g].life = "alive" => g = n
    BY <2>3, <2>6, <2>10
  <2>12. GettyIsWatched(procs')
    BY <2>1, <2>5, <2>6, <2>11 DEF GettyIsWatched, Supervising
  <2> QED BY <2>3, <2>9, <2>12 DEF LoginInv
<1> QED BY <1>2, <1>3 DEF Launch, Exec

\* The other steps of an init, and what a getty does, go elsewhere or start another program.
LEMMA GoKeeps ==
  ASSUME LoginInv, marker' = marker, NEW p \in Pids, NEW at, procs[p].at # "idle",
         at \notin {"pivot", "reexec"},
         \/ procs[p].program # "init"
         \/ procs[p].at \in Supervising =>
              \/ at \in Supervising
              \/ \A g \in Pids : g = procs[p].child => procs[g].life # "alive",
         Go(p, at)
  PROVE  LoginInv'
<1>1. Harmless(procs, procs')
  BY GoIsHarmless DEF LoginInv
<1>2. procs'[1].at = "reexec" => procs[1].at = "reexec"
  BY PidFacts DEF Go, LoginInv
<1> QED BY <1>1, <1>2, SameMarkerKeeps

LEMMA ExecKeeps ==
  ASSUME LoginInv, marker' = marker, NEW p \in Pids, NEW program, NEW then, NEW otherwise,
         program \notin {"init", "getty"}, procs[p].program # "none", procs[p].at # "idle",
         then \notin {"pivot", "reexec"}, otherwise \notin {"pivot", "reexec"},
         procs[p].program = "init" => procs[p].at \notin Supervising,
         Exec(p, program, then, otherwise)
  PROVE  LoginInv'
<1>1. {then, otherwise} \cap {"pivot", "reexec"} = {}
  OBVIOUS
<1>2. Harmless(procs, procs')
  BY <1>1, ExecIsHarmless DEF LoginInv
<1>3. procs'[1].at = "reexec" => procs[1].at = "reexec"
  <2>1. CASE Go(p, otherwise)
    <3>1. procs' = [procs EXCEPT ![p].at = otherwise]
      BY <2>1 DEF Go
    <3> QED BY <3>1, PidFacts DEF LoginInv
  <2>2. CASE CanStart /\ procs' = [Started(p, program, then) EXCEPT ![p].child = Min(NeverUsed)]
    <3> DEFINE n == Min(NeverUsed)
               new == Started(p, program, then)
    <3>1. /\ n \in Pids \ {p} /\ procs[n].program = "none" /\ DOMAIN new = Pids
          /\ new[p] = [procs[p] EXCEPT !.at = then]
          /\ \A q \in Pids \ {n, p} : new[q] = procs[q]
      BY <2>2, StartedExactly DEF LoginInv
    <3>2. procs' = [new EXCEPT ![p].child = n]
      BY <2>2
    <3>3. n # 1
      BY <3>1 DEF LoginInv, OneInit
    <3> HIDE DEF n, new
    <3>4. CASE p = 1
      BY <3>1, <3>2, <3>4
    <3>5. CASE p # 1
      BY <3>1, <3>2, <3>3, <3>5, PidFacts
    <3> QED BY <3>4, <3>5
  <2> QED BY <2>1, <2>2 DEF Exec
<1> QED BY <1>2, <1>3, SameMarkerKeeps

\* A step of horust or of the kernel touches itself, the dead and what it starts.
LEMMA OthersKeep ==
  ASSUME LoginInv, marker' = marker, DOMAIN procs' = Pids,
         \A q \in Pids :
           /\ \/ procs'[q].program = procs[q].program
              \/ procs[q].program = "none" /\ procs'[q].program \notin {"init", "getty"}
           /\ procs[q].program \in {"init", "getty"} =>
                /\ procs'[q].parent = procs[q].parent /\ procs'[q].at = procs[q].at
                /\ procs'[q].child = procs[q].child
                /\ procs'[q].life = "alive" => procs[q].life = "alive"
  PROVE  LoginInv'
<1>1. Harmless(procs, procs')
  BY DEF Harmless
<1>2. procs'[1].at = "reexec" => procs[1].at = "reexec"
  BY PidFacts DEF LoginInv, OneInit
<1> QED BY <1>1, <1>2, SameMarkerKeeps

LEMMA InitCallKeeps ==
  ASSUME LoginInv, NEW p \in Pids, InitCall(p)
  PROVE  LoginInv'
<1>1. marker' = marker
  BY DEF InitCall
<1>2. CASE Reexec(p)
  BY <1>1, <1>2, ReexecKeeps
<1>3. CASE RunSupervisor(p)
  <2>1. procs[p].program = "init" /\ procs[p].at = "supervise"
    BY <1>3 DEF RunSupervisor, At, IsAlive
  <2>2. Exec(p, "horust", "idle", "display") \/ Go(p, "display")
    BY <1>3 DEF RunSupervisor
  <2> QED BY <1>1, <2>1, <2>2, GoKeeps, ExecKeeps DEF Supervising
<1>4. CASE StartDisplay(p)
  <2>1. procs[p].program = "init" /\ procs[p].at = "display"
    BY <1>4 DEF StartDisplay, At, IsAlive
  <2>2. Exec(p, "display", "panel", "look") \/ Go(p, "look")
    BY <1>4 DEF StartDisplay
  <2> QED BY <1>1, <2>1, <2>2, GoKeeps, ExecKeeps DEF Supervising
<1>5. CASE StartPanel(p)
  <2>1. procs[p].program = "init" /\ procs[p].at = "panel"
    BY <1>5 DEF StartPanel, At, IsAlive
  <2>2. CASE Go(p, "await")
    BY <1>1, <2>1, <2>2, GoKeeps DEF Supervising
  <2>3. CASE CanStart /\ procs' = Started(p, "ede-panel", "await")
    <3> DEFINE n == Min(NeverUsed)
    <3>1. procs' = Started(p, "ede-panel", "await")
      BY <2>3
    <3>2. /\ n \in Pids \ {p} /\ procs[n].program = "none" /\ DOMAIN procs' = Pids
          /\ procs'[n] = Born("ede-panel", p, EntryOf("ede-panel"))
          /\ procs'[p] = [procs[p] EXCEPT !.at = "await"]
          /\ \A q \in Pids \ {n, p} : procs'[q] = procs[q]
      BY <2>1, <2>3, <3>1, StartedExactly DEF LoginInv
    <3> HIDE DEF n
    <3>3. procs'[n].program = "ede-panel"
      BY <3>2 DEF Born
    <3>4. /\ procs'[p].program = "init" /\ procs'[p].parent = procs[p].parent
          /\ procs'[p].life = procs[p].life /\ procs'[p].at = "await"
      BY <2>1, <3>2
    <3>5. Harmless(procs, procs')
      <4>1. \A q \in Pids \ {n, p} : procs'[q] = procs[q]
        BY <3>2
      <4>2. procs'[n].program \notin {"init", "getty"}
        BY <3>3
      <4>3. procs[p].at \notin {"idle"} \cup Supervising
        BY <2>1 DEF Supervising
      <4>4. DOMAIN procs' = Pids /\ procs[n].program # "init"
        BY <3>2
      <4> QED BY ONLY <2>1, <3>4, <4>1, <4>2, <4>3, <4>4 DEF Harmless
    <3>6. procs'[1].at = "reexec" => procs[1].at = "reexec"
      <4>1. n # 1
        BY <3>2 DEF LoginInv, OneInit
      <4> QED BY <3>2, <3>4, <4>1, PidFacts
    <3> QED BY <1>1, <3>5, <3>6, SameMarkerKeeps
  <2> QED BY <1>5, <2>2, <2>3 DEF StartPanel
<1>6. CASE WaitForDisplay(p)
  <2>1. procs[p].program = "init" /\ procs[p].at = "await"
    BY <1>6 DEF WaitForDisplay, At, IsAlive
  <2>2. procs' = [Reaped(procs[p].child) EXCEPT ![p].at = "look", ![p].child = 0]
    BY <1>6 DEF WaitForDisplay
  <2> DEFINE new == Reaped(procs[p].child)
  <2>3. /\ DOMAIN new = Pids
        /\ \A q \in Pids : /\ new[q].program = procs[q].program
                           /\ new[q].parent = procs[q].parent
                           /\ new[q].at = procs[q].at /\ new[q].child = procs[q].child
                           /\ new[q].life = "alive" => procs[q].life = "alive"
    BY DEF Reaped, LoginInv
  <2> HIDE DEF new
  <2>4. procs' = [new EXCEPT ![p].at = "look", ![p].child = 0]
    BY <2>2 DEF new
  <2>5. /\ DOMAIN procs' = Pids
        /\ procs'[p].program = procs[p].program /\ procs'[p].parent = procs[p].parent
        /\ procs'[p].at = "look"
        /\ procs'[p].life = "alive" => procs[p].life = "alive"
        /\ \A q \in Pids \ {p} : procs'[q] = new[q]
    BY <2>3, <2>4
  <2>6. Harmless(procs, procs')
    BY <2>1, <2>3, <2>5 DEF Harmless, Supervising
  <2>7. procs'[1].at = "reexec" => procs[1].at = "reexec"
    BY <2>3, <2>5, PidFacts
  <2> QED BY <1>1, <2>6, <2>7, SameMarkerKeeps
<1>7. CASE Look(p)
  <2>1. procs[p].program = "init" /\ procs[p].at = "look"
    BY <1>7 DEF Look, At, IsAlive
  <2>2. CASE Listed(procs[p].child)
    <3>1. Go(p, "poll")
      BY <1>7, <2>2 DEF Look
    <3> QED BY <1>1, <2>1, <3>1, GoKeeps DEF Supervising
  <2>3. CASE ~Listed(procs[p].child)
    <3>1. Go(p, "launch")
      BY <1>7, <2>3 DEF Look
    <3>2. \A g \in Pids : g = procs[p].child => procs[g].life # "alive"
      BY <2>3 DEF Listed, Pids
    <3> QED BY <1>1, <2>1, <3>1, <3>2, GoKeeps DEF Supervising
  <2> QED BY <2>2, <2>3
<1>8. CASE Launch(p)
  BY <1>1, <1>8, LaunchKeeps
<1> QED BY <1>2, <1>3, <1>4, <1>5, <1>6, <1>7, <1>8 DEF InitCall

LEMMA TakeRequestKeeps ==
  ASSUME LoginInv, NEW p \in Pids, TakeRequest(p) \/ PowerOff(p)
  PROVE  LoginInv'
<1>1. PICK at \in {"power", "look"} : Go(p, at)
  BY DEF TakeRequest, PowerOff
<1>2. marker' = marker /\ procs[p].at \in {"poll", "power"}
  BY DEF TakeRequest, PowerOff, At
<1> QED BY <1>1, <1>2, GoKeeps DEF Supervising

LEMMA GettyCallKeeps ==
  ASSUME LoginInv, NEW p \in Pids, GettyCall(p)
  PROVE  LoginInv'
<1>1. marker' = marker /\ procs[p].program = "getty"
  BY DEF GettyCall, Login, EndSession, At, IsAlive
<1>2. procs[p].at # "idle"
  BY DEF GettyCall, Login, EndSession, At
<1>3. Exec(p, "shell", "session", "prompt") \/ Go(p, "prompt")
  BY DEF GettyCall, Login, EndSession
<1>4. CASE Exec(p, "shell", "session", "prompt")
  BY <1>1, <1>2, <1>4, ExecKeeps
<1>5. CASE Go(p, "prompt")
  BY <1>1, <1>2, <1>5, GoKeeps
<1> QED BY <1>3, <1>4, <1>5

LEMMA HorustCallKeeps ==
  ASSUME LoginInv, NEW p \in Pids, HorustCall(p)
  PROVE  LoginInv'
<1>1. marker' = marker /\ procs[p].program = "horust" /\ DOMAIN procs = Pids
  BY DEF HorustCall, LoadServices, LaunchService, ReapChild, CheckServices, At, IsAlive,
         LoginInv
<1>2. ASSUME NEW new, procs' = [procs EXCEPT ![p] = new], new.program = "horust"
      PROVE  LoginInv'
  BY <1>1, <1>2, OthersKeep
<1>3. ASSUME NEW at, Go(p, at)
      PROVE  LoginInv'
  BY <1>1, <1>3, OthersKeep DEF Go
<1>4. ASSUME NEW c, procs' = [procs EXCEPT ![c].life = "free"]
      PROVE  LoginInv'
  BY <1>1, <1>4, OthersKeep
<1>5. CASE procs' = Ended(p)
  BY <1>1, <1>5, OthersKeep DEF Ended
<1>6. CASE LoadServices(p)
  <2>1. CASE procs' = Ended(p)
    BY <1>5, <2>1
  <2>2. CASE procs' = [procs EXCEPT ![p].at = "launch", ![p].child = 1]
    BY <1>1, <2>2, OthersKeep
  <2> QED BY <1>6, <2>1, <2>2 DEF LoadServices
<1>7. CASE LaunchService(p)
  <2> DEFINE next == [procs[p] EXCEPT
                        !.child = procs[p].child + 1,
                        !.at = IF procs[p].child < Len(services) THEN "launch" ELSE "reap"]
  <2>1. next.program = "horust"
    BY <1>1
  <2>2. \/ procs' = [procs EXCEPT ![p] = next]
        \/ \E at : CanStart /\ procs' = [Started(p, "service", at) EXCEPT ![p] = next]
    BY <1>7, Zenon DEF LaunchService
  <2> HIDE DEF next
  <2>3. CASE procs' = [procs EXCEPT ![p] = next]
    BY <1>2, <2>1, <2>3
  <2>4. ASSUME NEW at, CanStart, procs' = [Started(p, "service", at) EXCEPT ![p] = next]
        PROVE  LoginInv'
    <3> DEFINE n == Min(NeverUsed)
               new == Started(p, "service", at)
    <3>1. /\ n \in Pids \ {p} /\ procs[n].program = "none" /\ DOMAIN new = Pids
          /\ new[n] = Born("service", p, EntryOf("service"))
          /\ new[p] = [procs[p] EXCEPT !.at = at]
          /\ \A q \in Pids \ {n, p} : new[q] = procs[q]
      BY <1>1, <2>4, StartedExactly
    <3>2. procs' = [new EXCEPT ![p] = next]
      BY <2>4
    <3> HIDE DEF n, new
    <3>3. /\ DOMAIN procs' = Pids /\ procs'[p] = next
          /\ procs'[n] = Born("service", p, EntryOf("service"))
          /\ \A q \in Pids \ {n, p} : procs'[q] = procs[q]
      BY <3>1, <3>2
    <3>4. procs'[n].program = "service"
      BY <3>3 DEF Born
    <3>5. \A q \in Pids :
            /\ \/ procs'[q].program = procs[q].program
               \/ procs[q].program = "none" /\ procs'[q].program \notin {"init", "getty"}
            /\ procs[q].program \in {"init", "getty"} => procs'[q] = procs[q]
      BY <1>1, <2>1, <3>1, <3>3, <3>4
    <3> QED BY <1>1, <3>3, <3>5, OthersKeep
  <2> QED BY <2>2, <2>3, <2>4
<1>8. CASE ReapChild(p)
  <2>1. Go(p, "check") \/ \E c \in DeadChildren(p) : procs' = Reaped(c)
    BY <1>8 DEF ReapChild
  <2> QED BY <1>3, <1>4, <2>1 DEF Reaped
<1>9. CASE CheckServices(p)
  <2>1. procs' = Ended(p) \/ Go(p, "reap")
    BY <1>9 DEF CheckServices, Go
  <2> QED BY <1>3, <1>5, <2>1
<1> QED BY <1>6, <1>7, <1>8, <1>9 DEF HorustCall

LEMMA DieKeeps ==
  ASSUME LoginInv, NEW p \in Pids, Die(p)
  PROVE  LoginInv'
<1>1. marker' = marker /\ DOMAIN procs = Pids
  BY DEF Die, LoginInv
<1>2. procs' = [procs EXCEPT ![p].life = "zombie"]
  BY DEF Die, Ended
<1> QED BY <1>1, <1>2, OthersKeep

-----------------------------------------------------------------------------
LEMMA LoginInvInit == Init => LoginInv
<1> SUFFICES ASSUME Init PROVE LoginInv
  OBVIOUS
<1>1. DOMAIN procs = Pids /\ procs[1] = Born("init", 0, "boot")
  BY PidFacts DEF Init
<1>2. \A p \in Pids \ {1} : procs[p].program = "none"
  BY DEF Init, Nobody
<1>3. procs[1].program = "init" /\ procs[1].at = "boot"
  BY <1>1 DEF Born
<1> QED BY <1>1, <1>2, <1>3 DEF LoginInv, OneInit, GettyIsWatched

LEMMA LoginInvStep == LoginInv /\ [Next]_vars => LoginInv'
<1> SUFFICES ASSUME LoginInv, [Next]_vars PROVE LoginInv'
  OBVIOUS
<1>1. ASSUME NEW p \in Pids, Boot(p)
      PROVE  LoginInv'
  BY <1>1, BootKeeps
<1>2. ASSUME NEW p \in Pids, PivotRoot(p)
      PROVE  LoginInv'
  BY <1>2, PivotRootKeeps
<1>3. ASSUME NEW p \in Pids, InitCall(p)
      PROVE  LoginInv'
  BY <1>3, InitCallKeeps
<1>4. ASSUME NEW p \in Pids, TakeRequest(p) \/ PowerOff(p)
      PROVE  LoginInv'
  BY <1>4, TakeRequestKeeps
<1>5. ASSUME NEW p \in Pids, GettyCall(p)
      PROVE  LoginInv'
  BY <1>5, GettyCallKeeps
<1>6. ASSUME NEW p \in Pids, HorustCall(p)
      PROVE  LoginInv'
  BY <1>6, HorustCallKeeps
<1>7. ASSUME NEW p \in Pids, Die(p)
      PROVE  LoginInv'
  BY <1>7, DieKeeps
<1>8. CASE UNCHANGED <<procs, marker>>
  BY <1>8 DEF LoginInv
<1>9. ASSUME NEW p \in Pids, RequestShutdown(p) \/ KeepCpu(p) \/ GiveCpu
      PROVE  LoginInv'
  BY <1>8, <1>9 DEF RequestShutdown, KeepCpu, GiveCpu
<1>10. ASSUME NEW p \in Pids, EndSession(p), UNCHANGED marker
       PROVE  LoginInv'
  <2>1. procs[p].program = "getty" /\ procs[p].at = "session" /\ Go(p, "prompt")
    BY <1>10 DEF EndSession, At, IsAlive
  <2> QED BY <1>10, <2>1, GoKeeps
<1>11. ASSUME NEW p \in Pids, Runs(p)
       PROVE  LoginInv'
  BY <1>1, <1>2, <1>3, <1>4, <1>6, <1>10, <1>11 DEF Runs
<1>12. ASSUME NEW p \in Pids, IsTold(p)
       PROVE  LoginInv'
  BY <1>5, <1>9, <1>12 DEF IsTold
<1>13. CASE GiveCpu
  BY <1>9, <1>13, PidFacts
<1> QED BY <1>7, <1>8, <1>9, <1>11, <1>12, <1>13 DEF Next, vars

\* Two gettys that lived would both be the child of the init that supervises.
LEMMA OneLoginFollows == LoginInv => OneLogin
<1> DEFINE G == {p \in Pids : IsAlive(p, "getty")}
<1> SUFFICES ASSUME LoginInv PROVE Cardinality(G) <= 1
  BY DEF OneLogin
<1>1. ASSUME NEW g \in G
      PROVE  /\ procs[g].parent \in Pids /\ procs[procs[g].parent].program = "init"
             /\ procs[procs[g].parent].child = g
             /\ procs[procs[g].parent].at # "idle"
  BY <1>1 DEF LoginInv, GettyIsWatched, IsAlive, Supervising
<1>2. ASSUME NEW g \in G, NEW h \in G
      PROVE  g = h
  <2> DEFINE q == procs[g].parent
             r == procs[h].parent
  <2>1. /\ q \in Pids /\ procs[q].program = "init" /\ procs[q].child = g
        /\ procs[q].at # "idle"
        /\ r \in Pids /\ procs[r].program = "init" /\ procs[r].child = h
        /\ procs[r].at # "idle"
    BY <1>1
  <2> HIDE DEF q, r
  <2>2. q = r
    BY <2>1 DEF LoginInv, OneInit
  <2> QED BY <2>1, <2>2
<1> HIDE DEF G
<1>3. CASE G = {}
  BY <1>3, FS_EmptySet
<1>4. CASE G # {}
  <2>1. PICK g \in G : TRUE
    BY <1>4
  <2>2. G = {g}
    BY <1>2, <2>1
  <2> QED BY <2>2, FS_Singleton
<1> QED BY <1>3, <1>4

\* At most one getty lives, however the boot went, whoever died, whatever was refused
\* (userland/apps/init.rs: pivot and exec, then the loop that launches getty).
THEOREM AlwaysOneLogin == Spec => []OneLogin
<1>1. Spec => []LoginInv
  BY LoginInvInit, LoginInvStep, PTL DEF Spec
<1> QED BY <1>1, OneLoginFollows, PTL
=============================================================================
