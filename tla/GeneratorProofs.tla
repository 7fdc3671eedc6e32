--------------------------- MODULE GeneratorProofs ---------------------------
(***************************************************************************)
(* That two observations come to clash, and a pass to have a second row,   *)
(* only where an old observation is scheduled anew, runs of the generator  *)
(* met or a deletion was refused: for any passes, any number of them, and  *)
(* any executor and operator who start, end and switch observations        *)
(* meanwhile.  The argument: what a run that was not hindered found out    *)
(* about the rows stays true, since nobody else lets a row wait that did   *)
(* not, or marks one.                                                      *)
(* Then the observations' executor: a recording has a stop that will come, *)
(* and a job follows its row, as long as the operator is Patient.          *)
(***************************************************************************)
EXTENDS Generator, Observations, TLAPS

RowSet == [id : RowIds, pass : Passes, status : RowStates, enabled : BOOLEAN, marked : BOOLEAN]
RunSteps == {"idle", "look", "update", "check", "delete", "create", "mark"}
GenTypes == [Generators -> [pc : RunSteps, next : Nat, hit : SUBSET RowIds]]

OwnIds ==
    /\ \A r, s \in rows : r.id = s.id => r = s
    /\ \A r \in rows : r.id <= made

\* Two runs under way are both known not to be alone.
CrowdsAreKnown ==
    \A g, h \in Generators : gen[g].pc # "idle" /\ gen[h].pc # "idle" /\ g # h => g \in hindered

\* What a run that looked at the rows, and was not hindered, found out, by the step it
\* is at.
Unobserved ==
    \A g \in Generators \ hindered : gen[g].pc \in {"check", "delete", "create"} =>
        \A r \in rows : r.pass = Pass(g) => ~r.marked
DeletesAll ==
    \A g \in Generators \ hindered : gen[g].pc = "delete" =>
        \A r \in InTheWay(Pass(g)) : r.id \in gen[g].hit
NothingInTheWay ==
    \A g \in Generators \ hindered : gen[g].pc = "create" => InTheWay(Pass(g)) = {}

Known == Unobserved /\ DeletesAll /\ NothingInTheWay
GeneratorInv == GeneratorTypeOK /\ OwnIds /\ CrowdsAreKnown /\ Known

\* What a step may do about clashes and second rows.
ClashHasCause ==
    \A r, s \in rows' : Clash(r, s) =>
        \/ \E q, t \in rows : q.id = r.id /\ t.id = s.id /\ Clash(q, t)
        \/ \E q \in rows : q.id \in {r.id, s.id} /\ q.status = "over"
        \/ HinderedCreates
RowIsFirst ==
    \A r \in rows' : r.id \notin IdsOf(rows) =>
        \/ \A s \in rows : s.pass = r.pass => s.status = "over" /\ ~s.marked
        \/ HinderedCreates
StepIsGood == ClashHasCause /\ RowIsFirst
-----------------------------------------------------------------------------
LEMMA PassesHaveTimes ==
    \A p \in Passes : /\ Window(p).start \in Nat /\ Window(p).stop \in Nat
                      /\ Window(p).start < Window(p).stop
BY GeneratorAssumption DEF Passes

LEMMA PassOfRun ==
    ASSUME GeneratorTypeOK, NEW g \in Generators
    PROVE  Pass(g) \in Passes
BY DEF GeneratorTypeOK, Passes, Pass

LEMMA TypesOf == GeneratorTypeOK => gen \in GenTypes /\ rows \in SUBSET RowSet
BY DEF GeneratorTypeOK, GenTypes, RowSet, RunSteps

LEMMA GeneratorInitInv == GeneratorInit => GeneratorInv
<1> SUFFICES ASSUME GeneratorInit PROVE GeneratorInv
  OBVIOUS
<1> USE GeneratorAssumption DEF GeneratorInit
<1>1. gen \in GenTypes /\ \A g \in Generators : gen[g].next \in 1 .. Len(PassOrder(g))
  BY DEF Resting, GenTypes, RunSteps
<1>2. GeneratorTypeOK
  BY <1>1 DEF GeneratorTypeOK, GenTypes, RunSteps
<1>3. \A g \in Generators : gen[g].pc = "idle"
  BY DEF Resting
<1> QED
  BY <1>2, <1>3
     DEF GeneratorInv, OwnIds, CrowdsAreKnown, Known, Unobserved, DeletesAll, NothingInTheWay
-----------------------------------------------------------------------------
\* Rows may go, and change, if none waits that did not.
Fewer ==
    \A r \in rows' : \E s \in rows : r.id = s.id /\ r.pass = s.pass /\ (Waiting(r) => Waiting(s))

\* ... nor one is marked that was not.
NoneMarked ==
    \A r \in rows' : \E s \in rows :
        /\ r.id = s.id /\ r.pass = s.pass /\ (Waiting(r) => Waiting(s))
        /\ r.marked => s.marked

LEMMA FewerIsGood == ASSUME Fewer PROVE StepIsGood
<1>1. ASSUME NEW r \in rows', NEW s \in rows', Clash(r, s)
      PROVE  \E q, t \in rows : q.id = r.id /\ t.id = s.id /\ Clash(q, t)
  <2>1. PICK q \in rows : r.id = q.id /\ r.pass = q.pass /\ Waiting(q)
    BY <1>1 DEF Fewer, Clash
  <2>2. PICK t \in rows : s.id = t.id /\ s.pass = t.pass /\ Waiting(t)
    BY <1>1 DEF Fewer, Clash
  <2>3. Clash(q, t)
    BY <1>1, <2>1, <2>2 DEF Clash, Start, Stop
  <2> QED
    BY <2>1, <2>2, <2>3
<1>2. \A r \in rows' : r.id \in IdsOf(rows)
  BY DEF Fewer, IdsOf
<1> QED
  BY <1>1, <1>2 DEF StepIsGood, ClashHasCause, RowIsFirst

LEMMA NoneMarkedKeeps ==
    ASSUME NoneMarked, Known, UNCHANGED <<gen, hindered>>
    PROVE  Known'
<1>1. Unobserved'
  BY DEF NoneMarked, Known, Unobserved, Pass
<1>2. ASSUME NEW g \in Generators, NEW r \in InTheWay(Pass(g))'
      PROVE  \E s \in InTheWay(Pass(g)) : s.id = r.id
  <2>1. r \in rows' /\ Waiting(r)
    BY DEF InTheWay, Waiting
  <2>2. PICK s \in rows : r.id = s.id /\ r.pass = s.pass /\ Waiting(s)
    BY <2>1 DEF NoneMarked
  <2> QED
    BY <2>2 DEF InTheWay, Waiting, Start, Stop, Pass
<1>3. DeletesAll'
  BY <1>2 DEF Known, DeletesAll
<1>4. NothingInTheWay'
  BY <1>2 DEF Known, NothingInTheWay
<1> QED
  BY <1>1, <1>3, <1>4 DEF Known
-----------------------------------------------------------------------------
\* A run under way takes a step, and the others do not.
Moves(g) ==
    /\ gen' \in GenTypes /\ \A h \in Generators : gen'[h].next \in 1 .. Len(PassOrder(h))
    /\ \A h \in Generators : h # g => gen'[h] = gen[h]
    /\ hindered' \subseteq hindered /\ hindered \subseteq hindered' \cup {g}
    /\ gen'[g].pc = "idle" \/ hindered' = hindered

LEMMA NextPassMoves ==
    ASSUME GeneratorTypeOK, NEW g \in Generators, NextPass(g)
    PROVE  Moves(g) /\ gen'[g].pc \in {"idle", "look"}
<1>0. \A h \in Generators : Len(PassOrder(h)) \in Nat /\ 1 \in 1 .. Len(PassOrder(h))
  BY GeneratorAssumption
<1>1. gen \in GenTypes /\ \A h \in Generators : gen[h].next \in 1 .. Len(PassOrder(h))
  BY TypesOf DEF GeneratorTypeOK
<1>2. CASE gen[g].next = Len(PassOrder(g))
  <2>1. gen' = [gen EXCEPT ![g] = Resting] /\ hindered' = hindered \ {g}
    BY <1>2 DEF NextPass
  <2>2. gen' \in GenTypes /\ gen'[g] = Resting
        /\ \A h \in Generators : h # g => gen'[h] = gen[h]
    BY <1>1, <2>1 DEF GenTypes, Resting, RunSteps
  <2>3. \A h \in Generators : gen'[h].next \in 1 .. Len(PassOrder(h))
    BY <1>0, <1>1, <2>2 DEF Resting
  <2> QED
    BY <2>1, <2>2, <2>3 DEF Moves, Resting
<1>3. CASE gen[g].next # Len(PassOrder(g))
  <2>1. gen' = [gen EXCEPT ![g] = [pc |-> "look", next |-> @.next + 1, hit |-> {}]]
        /\ hindered' = hindered
    BY <1>3 DEF NextPass
  <2>2. gen[g].next + 1 \in 1 .. Len(PassOrder(g))
    BY <1>0, <1>1, <1>3
  <2>3. gen[g].next + 1 \in Nat
    BY <2>2
  <2> QED
    BY <1>1, <2>1, <2>2, <2>3 DEF GenTypes, Moves, RunSteps
<1> QED
  BY <1>2, <1>3

LEMMA GenIsMoves ==
    ASSUME GeneratorTypeOK, NEW g \in Generators, NEW pc \in RunSteps, NEW hit \in SUBSET RowIds,
           GenIs(g, pc, hit)
    PROVE  /\ Moves(g) /\ hindered' = hindered
           /\ gen'[g].pc = pc /\ gen'[g].hit = hit /\ Pass(g)' = Pass(g)
<1>1. gen \in GenTypes /\ \A h \in Generators : gen[h].next \in 1 .. Len(PassOrder(h))
  BY TypesOf DEF GeneratorTypeOK
<1> QED
  BY <1>1 DEF GenIs, GenTypes, Moves, Pass

\* While a run that is alone is under way, nothing is known to any other.
LEMMA OnlyItsOwn ==
    ASSUME GeneratorInv, NEW g \in Generators, gen[g].pc # "idle", Moves(g)
    PROVE  /\ CrowdsAreKnown'
           /\ \A h \in Generators \ hindered' : gen'[h].pc # "idle" => h = g /\ g \notin hindered
<1>1. ASSUME NEW a \in Generators, NEW b \in Generators, a # b,
             gen'[a].pc # "idle", gen'[b].pc # "idle"
      PROVE  a \in hindered'
  <2>1. gen[a].pc # "idle" /\ gen[b].pc # "idle"
    BY <1>1 DEF Moves
  <2>2. a \in hindered
    BY <1>1, <2>1 DEF GeneratorInv, CrowdsAreKnown
  <2> QED
    BY <1>1, <2>2 DEF Moves
<1>2. ASSUME NEW h \in Generators \ hindered', gen'[h].pc # "idle"
      PROVE  h = g /\ g \notin hindered
  <2>1. CASE h # g
    <3>1. gen[h].pc # "idle" /\ h \notin hindered
      BY <1>2, <2>1 DEF Moves
    <3> QED
      BY <2>1, <3>1 DEF GeneratorInv, CrowdsAreKnown
  <2>2. CASE h = g
    BY <1>2, <2>2 DEF Moves
  <2> QED
    BY <2>1, <2>2
<1> QED
  BY <1>1, <1>2 DEF CrowdsAreKnown

\* So that a run which forgets what it knew keeps what is known.
LEMMA ForgettingKeeps ==
    ASSUME GeneratorInv, NEW g \in Generators, gen[g].pc # "idle", Moves(g),
           gen'[g].pc \notin {"check", "delete", "create"}
    PROVE  CrowdsAreKnown' /\ Known'
BY OnlyItsOwn DEF Known, Unobserved, DeletesAll, NothingInTheWay

LEMMA SameRows ==
    ASSUME GeneratorInv, UNCHANGED <<now, rows, made>>,
           gen' \in GenTypes, \A h \in Generators : gen'[h].next \in 1 .. Len(PassOrder(h)),
           hindered' \subseteq Generators
    PROVE  GeneratorTypeOK' /\ OwnIds' /\ Fewer /\ StepIsGood
<1>1. GeneratorTypeOK' /\ OwnIds'
  BY DEF GeneratorInv, GeneratorTypeOK, OwnIds, GenTypes, RunSteps
<1>2. Fewer
  BY DEF Fewer
<1> QED
  BY <1>1, <1>2, FewerIsGood
-----------------------------------------------------------------------------
LEMMA BeginRunKeeps ==
    ASSUME GeneratorInv, NEW g \in Generators, BeginRun(g)
    PROVE  GeneratorInv' /\ StepIsGood
<1>1. /\ rows' \subseteq rows /\ UNCHANGED <<now, made>> /\ gen[g].pc = "idle"
      /\ hindered' = IF Busy = {} THEN {} ELSE Busy \cup {g}
  BY DEF BeginRun
<1>2. Fewer /\ OwnIds'
  BY <1>1 DEF Fewer, GeneratorInv, OwnIds
<1>3. /\ gen' \in GenTypes /\ \A h \in Generators : gen'[h].next \in 1 .. Len(PassOrder(h))
      /\ gen'[g].pc = "look" /\ \A h \in Generators : h # g => gen'[h] = gen[h]
  <2>1. gen \in GenTypes /\ \A h \in Generators : gen[h].next \in 1 .. Len(PassOrder(h))
    BY TypesOf DEF GeneratorInv, GeneratorTypeOK
  <2> QED
    BY <2>1 DEF BeginRun, GenTypes, RunSteps
<1>4. GeneratorTypeOK'
  BY <1>1, <1>3 DEF GeneratorInv, GeneratorTypeOK, GenTypes, RunSteps, Busy
<1>5. ASSUME NEW h \in Generators, h # g, gen'[h].pc # "idle"
      PROVE  Busy # {} /\ h \in hindered' /\ g \in hindered'
  BY <1>1, <1>3, <1>5 DEF Busy
<1>6. CrowdsAreKnown'
  BY <1>5 DEF CrowdsAreKnown
<1>7. Known'
  BY <1>3, <1>5 DEF Known, Unobserved, DeletesAll, NothingInTheWay
<1> QED
  BY <1>2, <1>4, <1>6, <1>7, FewerIsGood DEF GeneratorInv

LEMMA LookKeeps ==
    ASSUME GeneratorInv, NEW g \in Generators, Look(g)
    PROVE  GeneratorInv' /\ StepIsGood
<1> DEFINE own == {r \in rows : r.pass = Pass(g) /\ r.marked}
<1>0. UNCHANGED <<now, rows, made>> /\ gen[g].pc = "look" /\ GeneratorTypeOK
  BY DEF Look, GeneratorInv
<1>s. ASSUME Moves(g), CrowdsAreKnown', Known' PROVE GeneratorInv' /\ StepIsGood
  BY <1>0, <1>s, SameRows DEF GeneratorInv, Moves, GeneratorTypeOK
<1>1. CASE NextPass(g)
  BY <1>0, <1>1, <1>s, NextPassMoves, ForgettingKeeps
<1>2. CASE GenIs(g, "update", IdsOf(own))
  <2>0. IdsOf(own) \in SUBSET RowIds /\ "update" \in RunSteps
    BY <1>0 DEF IdsOf, GeneratorTypeOK, RunSteps
  <2>1. Moves(g) /\ gen'[g].pc = "update"
    BY <1>0, <1>2, <2>0, GenIsMoves
  <2> QED
    BY <1>0, <1>s, <2>1, ForgettingKeeps
<1>3. CASE own = {} /\ GenIs(g, "check", {})
  <2>1. Moves(g) /\ gen'[g].pc = "check" /\ Pass(g)' = Pass(g)
    BY <1>0, <1>3, GenIsMoves DEF RunSteps
  <2>2. \A r \in rows : r.pass = Pass(g) => ~r.marked
    BY <1>3
  <2>3. CrowdsAreKnown' /\ \A h \in Generators \ hindered' : gen'[h].pc # "idle" => h = g
    BY <1>0, <2>1, OnlyItsOwn
  <2>4. Known'
    BY <1>0, <2>1, <2>2, <2>3 DEF Known, Unobserved, DeletesAll, NothingInTheWay
  <2> QED
    BY <1>s, <2>1, <2>3, <2>4
<1> QED
  BY <1>1, <1>2, <1>3 DEF Look

\* A row that comes to wait by an update was over.
LEMMA UpdateKeeps ==
    ASSUME GeneratorInv, NEW g \in Generators, Update(g)
    PROVE  GeneratorInv' /\ StepIsGood
<1> DEFINE new(r) == IF r.id \in gen[g].hit THEN [r EXCEPT !.status = "scheduled", !.enabled = TRUE] ELSE r
<1>c. CASE UNCHANGED rows
  <2>1. /\ UNCHANGED <<now, rows, made>> /\ gen[g].pc = "update" /\ NextPass(g)
        /\ GeneratorTypeOK
    BY <1>c DEF Update, GeneratorInv
  <2>2. Moves(g) /\ CrowdsAreKnown' /\ Known'
    BY <2>1, NextPassMoves, ForgettingKeeps
  <2> QED
    BY <2>1, <2>2, SameRows DEF GeneratorInv, Moves, GeneratorTypeOK
<1>d. SUFFICES ASSUME rows' = {new(r) : r \in rows} PROVE GeneratorInv' /\ StepIsGood
  BY <1>c DEF Update
<1>0. /\ UNCHANGED <<now, made>> /\ gen[g].pc = "update" /\ NextPass(g)
      /\ rows' = {new(r) : r \in rows} /\ rows \in SUBSET RowSet
  BY <1>d, TypesOf DEF Update, GeneratorInv
<1>1. ASSUME NEW r \in rows
      PROVE  /\ new(r) \in RowSet /\ new(r).id = r.id /\ new(r).pass = r.pass
             /\ Waiting(new(r)) => Waiting(r) \/ r.status = "over"
  BY <1>0 DEF RowSet, RowStates, Waiting
<1> HIDE DEF new
<1>2. Moves(g) /\ CrowdsAreKnown' /\ Known'
  BY <1>0, NextPassMoves, ForgettingKeeps DEF GeneratorInv
<1>3. GeneratorTypeOK'
  BY <1>0, <1>1, <1>2 DEF GeneratorInv, GeneratorTypeOK, Moves, GenTypes, RunSteps, RowSet
<1>4. OwnIds'
  BY <1>0, <1>1 DEF GeneratorInv, OwnIds
<1>5. ClashHasCause
  <2> SUFFICES ASSUME NEW r \in rows, NEW s \in rows, Clash(new(r), new(s)),
                      r.status # "over", s.status # "over"
               PROVE  Clash(r, s)
    BY <1>0, <1>1 DEF ClashHasCause
  <2> QED
    BY <1>1 DEF Clash, Start, Stop
<1>6. RowIsFirst
  BY <1>0, <1>1 DEF RowIsFirst, IdsOf
<1> QED
  BY <1>2, <1>3, <1>4, <1>5, <1>6 DEF GeneratorInv, StepIsGood

LEMMA CheckKeeps ==
    ASSUME GeneratorInv, NEW g \in Generators, Check(g)
    PROVE  GeneratorInv' /\ StepIsGood
<1> DEFINE others == InTheWay(Pass(g))
<1>0. UNCHANGED <<now, rows, made>> /\ gen[g].pc = "check" /\ GeneratorTypeOK
  BY DEF Check, GeneratorInv
<1>s. ASSUME Moves(g), CrowdsAreKnown', Known' PROVE GeneratorInv' /\ StepIsGood
  BY <1>0, <1>s, SameRows DEF GeneratorInv, Moves, GeneratorTypeOK
<1>1. CASE NextPass(g)
  BY <1>0, <1>1, <1>s, NextPassMoves, ForgettingKeeps
<1>2. CASE others = {} /\ GenIs(g, "create", {})
  <2>1. Moves(g) /\ gen'[g].pc = "create" /\ Pass(g)' = Pass(g)
    BY <1>0, <1>2, GenIsMoves DEF RunSteps
  <2>2. /\ CrowdsAreKnown'
        /\ \A h \in Generators \ hindered' : gen'[h].pc # "idle" => h = g /\ g \notin hindered
    BY <1>0, <2>1, OnlyItsOwn
  <2>3. Known'
    BY <1>0, <1>2, <2>1, <2>2
       DEF GeneratorInv, Known, Unobserved, DeletesAll, NothingInTheWay, InTheWay
  <2> QED
    BY <1>s, <2>1, <2>2, <2>3
<1>3. CASE GenIs(g, "delete", IdsOf(others))
  <2>0. IdsOf(others) \in SUBSET RowIds /\ "delete" \in RunSteps
    BY <1>0 DEF IdsOf, InTheWay, GeneratorTypeOK, RunSteps
  <2>1. Moves(g) /\ gen'[g].pc = "delete" /\ gen'[g].hit = IdsOf(others) /\ Pass(g)' = Pass(g)
    BY <1>0, <1>3, <2>0, GenIsMoves
  <2>2. /\ CrowdsAreKnown'
        /\ \A h \in Generators \ hindered' : gen'[h].pc # "idle" => h = g /\ g \notin hindered
    BY <1>0, <2>1, OnlyItsOwn
  <2>3. Known'
    BY <1>0, <2>1, <2>2
       DEF GeneratorInv, Known, Unobserved, DeletesAll, NothingInTheWay, InTheWay, IdsOf
  <2> QED
    BY <1>s, <2>1, <2>2, <2>3
<1> QED
  BY <1>1, <1>2, <1>3 DEF Check

LEMMA DeleteKeeps ==
    ASSUME GeneratorInv, NEW g \in Generators, Delete(g)
    PROVE  GeneratorInv' /\ StepIsGood
<1>c. CASE hindered' = hindered \cup {g} /\ UNCHANGED rows
  <2>1. gen \in GenTypes /\ \A h \in Generators : gen[h].next \in 1 .. Len(PassOrder(h))
    BY TypesOf DEF GeneratorInv, GeneratorTypeOK
  <2>2. /\ gen' \in GenTypes /\ \A h \in Generators : gen'[h].next \in 1 .. Len(PassOrder(h))
        /\ \A h \in Generators : h # g => gen'[h] = gen[h]
        /\ gen[g].pc # "idle" /\ UNCHANGED <<now, rows, made>>
    BY <1>c, <2>1 DEF Delete, GenTypes, RunSteps
  <2>3. \A h \in Generators : h # g /\ gen'[h].pc # "idle" => h \in hindered
    BY <2>2 DEF GeneratorInv, CrowdsAreKnown
  <2>4. CrowdsAreKnown' /\ Known'
    BY <1>c, <2>3 DEF CrowdsAreKnown, Known, Unobserved, DeletesAll, NothingInTheWay
  <2>5. hindered' \subseteq Generators
    BY <1>c DEF GeneratorInv, GeneratorTypeOK
  <2> QED
    BY <2>2, <2>4, <2>5, SameRows DEF GeneratorInv
<1>d. SUFFICES ASSUME UNCHANGED hindered, rows' = {r \in rows : r.id \notin gen[g].hit}
               PROVE  GeneratorInv' /\ StepIsGood
  BY <1>c DEF Delete
<1>0. /\ UNCHANGED <<now, made>> /\ gen[g].pc = "delete" /\ GenIs(g, "create", {})
      /\ rows' = {r \in rows : r.id \notin gen[g].hit} /\ GeneratorTypeOK
  BY <1>d DEF Delete, GeneratorInv, GenIs
<1>1. Fewer /\ OwnIds'
  BY <1>0 DEF Fewer, GeneratorInv, OwnIds
<1>2. Moves(g) /\ gen'[g].pc = "create" /\ Pass(g)' = Pass(g)
  BY <1>0, GenIsMoves DEF RunSteps
<1>3. /\ CrowdsAreKnown'
      /\ \A h \in Generators \ hindered' : gen'[h].pc # "idle" => h = g /\ g \notin hindered
  BY <1>0, <1>2, OnlyItsOwn
<1>4. Known'
  BY <1>0, <1>2, <1>3
     DEF GeneratorInv, Known, Unobserved, DeletesAll, NothingInTheWay, InTheWay
<1>5. GeneratorTypeOK'
  BY <1>0, <1>2 DEF GeneratorTypeOK, Moves, GenTypes, RunSteps
<1> QED
  BY <1>1, <1>3, <1>4, <1>5, FewerIsGood DEF GeneratorInv

\* Where the run was not hindered, the new row clashes with none that waits, and no
\* other row of its pass waits or is marked.
LEMMA CreateRowKeeps ==
    ASSUME GeneratorInv, NEW g \in Generators, CreateRow(g)
    PROVE  GeneratorInv' /\ StepIsGood
<1>0. UNCHANGED now /\ gen[g].pc = "create" /\ GeneratorTypeOK
  BY DEF CreateRow, GeneratorInv
<1>1. CASE UNCHANGED <<rows, made>> /\ NextPass(g)
  <2>1. Moves(g) /\ CrowdsAreKnown' /\ Known'
    BY <1>0, <1>1, NextPassMoves, ForgettingKeeps
  <2> QED
    BY <1>0, <1>1, <2>1, SameRows DEF GeneratorInv, Moves, GeneratorTypeOK
<1>2. ASSUME made < MaxRows, made' = made + 1,
             rows' = rows \cup {[id |-> made', pass |-> Pass(g), status |-> "scheduled",
                                 enabled |-> TRUE, marked |-> FALSE]},
             GenIs(g, "mark", {made'})
      PROVE  GeneratorInv' /\ StepIsGood
  <2> DEFINE n == [id |-> made', pass |-> Pass(g), status |-> "scheduled",
                   enabled |-> TRUE, marked |-> FALSE]
  <2>1. /\ n.id = made' /\ n.pass = Pass(g) /\ n.status = "scheduled"
        /\ made' \in RowIds /\ made \in Nat /\ n \in RowSet
    BY <1>0, <1>2, PassOfRun, GeneratorAssumption DEF GeneratorTypeOK, RowIds, RowStates, RowSet
  <2> HIDE DEF n
  <2>2. rows' = rows \cup {n} /\ rows \in SUBSET RowSet
    BY <1>0, <1>2, TypesOf DEF n
  <2>3. Moves(g) /\ gen'[g].pc = "mark"
    <3>1. {made'} \in SUBSET RowIds /\ "mark" \in RunSteps
      BY <2>1 DEF RunSteps
    <3> QED
      BY <1>0, <1>2, <3>1, GenIsMoves
  <2>4. CrowdsAreKnown' /\ Known'
    BY <1>0, <2>3, ForgettingKeeps
  <2>5. GeneratorTypeOK'
    BY <1>0, <1>2, <2>1, <2>2, <2>3, GeneratorAssumption
       DEF GeneratorTypeOK, RowIds, RowSet, Moves, GenTypes, RunSteps
  <2>6. \A r \in rows : r.id \in Nat /\ r.id <= made
    BY <2>2 DEF GeneratorInv, OwnIds, RowSet, RowIds
  <2>7. OwnIds'
    BY <1>2, <2>1, <2>2, <2>6 DEF GeneratorInv, OwnIds
  <2>8. CASE g \in hindered
    <3>1. HinderedCreates
      BY <1>0, <2>3, <2>8 DEF HinderedCreates
    <3> QED
      BY <2>4, <2>5, <2>7, <3>1 DEF GeneratorInv, StepIsGood, ClashHasCause, RowIsFirst
  <2>9. CASE g \notin hindered
    <3>1. InTheWay(Pass(g)) = {} /\ \A r \in rows : r.pass = Pass(g) => ~r.marked
      BY <1>0, <2>9 DEF GeneratorInv, Known, NothingInTheWay, Unobserved
    <3>2. ASSUME NEW r \in rows, Waiting(r)
          PROVE  ~(Start(r) <= Stop(n) /\ Start(n) <= Stop(r)) /\ r.pass # n.pass
      <4>1. ~(Start(r) < Window(Pass(g)).stop + 1 /\ Stop(r) + 1 > Window(Pass(g)).start)
        BY <3>1, <3>2 DEF InTheWay, Waiting
      <4>2. Start(r) \in Nat /\ Stop(r) \in Nat /\ Start(r) < Stop(r)
        BY <2>2, PassesHaveTimes DEF RowSet, Start, Stop
      <4>3. Start(n) \in Nat /\ Stop(n) \in Nat /\ Start(n) < Stop(n)
        BY <2>1, PassesHaveTimes DEF RowSet, Start, Stop
      <4>4. ~(Start(r) <= Stop(n) /\ Start(n) <= Stop(r))
        BY <2>1, <4>1, <4>2, <4>3 DEF Start, Stop
      <4> QED
        BY <4>2, <4>4 DEF Start, Stop
    <3>3. ClashHasCause
      <4> SUFFICES ASSUME NEW r \in rows', NEW s \in rows', Clash(r, s)
                   PROVE  r \in rows /\ s \in rows
        BY DEF ClashHasCause
      <4>1. r = n => s \notin rows
        BY <3>2 DEF Clash
      <4>2. s = n => r \notin rows
        BY <3>2 DEF Clash
      <4> QED
        BY <2>2, <4>1, <4>2 DEF Clash
    <3>4. RowIsFirst
      <4> SUFFICES ASSUME NEW s \in rows, s.pass = n.pass PROVE s.status = "over" /\ ~s.marked
        BY <2>2 DEF RowIsFirst, IdsOf
      <4>1. ~Waiting(s) /\ ~s.marked
        BY <2>1, <3>1, <3>2
      <4> QED
        BY <2>2, <4>1 DEF Waiting, RowSet, RowStates
    <3> QED
      BY <2>4, <2>5, <2>7, <3>3, <3>4 DEF GeneratorInv, StepIsGood
  <2> QED
    BY <2>8, <2>9
<1> QED
  BY <1>1, <1>2 DEF CreateRow

LEMMA MarkRowKeeps ==
    ASSUME GeneratorInv, NEW g \in Generators, MarkRow(g)
    PROVE  GeneratorInv' /\ StepIsGood
<1> DEFINE new(r) == IF r.id \in gen[g].hit THEN [r EXCEPT !.marked = TRUE] ELSE r
<1>0. /\ UNCHANGED <<now, made>> /\ gen[g].pc = "mark" /\ NextPass(g) /\ GeneratorTypeOK
      /\ rows' = {new(r) : r \in rows} \/ UNCHANGED rows
  BY DEF MarkRow, GeneratorInv
<1>1. Moves(g) /\ CrowdsAreKnown' /\ Known'
  BY <1>0, NextPassMoves, ForgettingKeeps
<1>2. CASE UNCHANGED rows
  BY <1>0, <1>1, <1>2, SameRows DEF GeneratorInv, Moves, GeneratorTypeOK
<1>3. CASE rows' = {new(r) : r \in rows}
  <2>1. ASSUME NEW r \in rows
        PROVE  /\ new(r) \in RowSet /\ new(r).id = r.id /\ new(r).pass = r.pass
               /\ Waiting(new(r)) => Waiting(r)
    <3>1. r \in RowSet
      BY <1>0, TypesOf
    <3> QED
      BY <3>1 DEF RowSet, Waiting
  <2> HIDE DEF new
  <2>2. Fewer /\ OwnIds'
    BY <1>0, <1>3, <2>1 DEF Fewer, GeneratorInv, OwnIds
  <2>3. GeneratorTypeOK'
    BY <1>0, <1>1, <1>3, <2>1 DEF GeneratorTypeOK, Moves, GenTypes, RunSteps, RowSet
  <2> QED
    BY <1>1, <2>2, <2>3, FewerIsGood DEF GeneratorInv
<1> QED
  BY <1>0, <1>2, <1>3

LEMMA RunsDieKeeps ==
    ASSUME GeneratorInv, RunsDie
    PROVE  GeneratorInv' /\ StepIsGood
<1> USE GeneratorAssumption
<1>1. /\ UNCHANGED <<now, rows, made>> /\ hindered' = {}
      /\ gen' \in GenTypes /\ \A h \in Generators : gen'[h].next \in 1 .. Len(PassOrder(h))
      /\ \A h \in Generators : gen'[h].pc = "idle"
  BY DEF RunsDie, Resting, GenTypes, RunSteps
<1>2. CrowdsAreKnown' /\ Known'
  BY <1>1 DEF CrowdsAreKnown, Known, Unobserved, DeletesAll, NothingInTheWay
<1> QED
  BY <1>1, <1>2, SameRows DEF GeneratorInv
-----------------------------------------------------------------------------
\* The executor and the operator set a status or a switch of one row.
LEMMA RowChangesKeep ==
    ASSUME GeneratorInv, NEW r \in rows, StartRow(r) \/ EndRow(r) \/ ToggleRow(r)
    PROVE  GeneratorInv' /\ StepIsGood
<1>0. UNCHANGED <<now, made, gen, hindered>>
  BY DEF StartRow, EndRow, ToggleRow
<1>1. r \in RowSet
  BY TypesOf DEF GeneratorInv
<1>2. PICK n \in RowSet : /\ rows' = (rows \ {r}) \cup {n}
                          /\ n.id = r.id /\ n.pass = r.pass
                          /\ Waiting(n) => Waiting(r)
                          /\ n.marked => r.marked
  <2>1. CASE StartRow(r)
    <3> DEFINE n == [r EXCEPT !.status = "running"]
    <3>1. n \in RowSet
      BY <1>1 DEF RowSet, RowStates
    <3>2. /\ rows' = (rows \ {r}) \cup {n} /\ n.id = r.id /\ n.pass = r.pass
          /\ Waiting(n) => Waiting(r)
          /\ n.marked => r.marked
      BY <1>1, <2>1 DEF StartRow, Sets, Waiting, RowStates, RowSet
    <3> QED
      BY <3>1, <3>2
  <2>2. CASE EndRow(r)
    <3> DEFINE n == [r EXCEPT !.status = "over"]
    <3>1. n \in RowSet
      BY <1>1 DEF RowSet, RowStates
    <3>2. /\ rows' = (rows \ {r}) \cup {n} /\ n.id = r.id /\ n.pass = r.pass
          /\ Waiting(n) => Waiting(r)
          /\ n.marked => r.marked
      BY <1>1, <2>2 DEF EndRow, Sets, Waiting, RowStates, RowSet
    <3> QED
      BY <3>1, <3>2
  <2>3. CASE ToggleRow(r)
    <3> DEFINE n == [r EXCEPT !.enabled = ~@]
    <3>1. n \in RowSet
      BY <1>1 DEF RowSet, RowStates
    <3>2. /\ rows' = (rows \ {r}) \cup {n} /\ n.id = r.id /\ n.pass = r.pass
          /\ Waiting(n) => Waiting(r)
          /\ n.marked => r.marked
      BY <1>1, <2>3 DEF ToggleRow, Waiting, RowSet
    <3> QED
      BY <3>1, <3>2
  <2> QED
    BY <2>1, <2>2, <2>3
<1>3. NoneMarked /\ Fewer
  BY <1>2 DEF NoneMarked, Fewer
<1>4. OwnIds'
  BY <1>0, <1>2 DEF GeneratorInv, OwnIds
<1>5. GeneratorTypeOK'
  BY <1>0, <1>2 DEF GeneratorInv, GeneratorTypeOK, RowSet
<1> QED
  BY <1>0, <1>3, <1>4, <1>5, FewerIsGood, NoneMarkedKeeps
     DEF GeneratorInv, CrowdsAreKnown

LEMMA TickKeeps ==
    ASSUME GeneratorInv, Tick \/ UNCHANGED generatorVars
    PROVE  GeneratorInv' /\ StepIsGood
<1>1. UNCHANGED <<rows, made, gen, hindered>> /\ now' \in 0 .. Horizon
  BY GeneratorAssumption DEF Tick, generatorVars, GeneratorInv, GeneratorTypeOK
<1>2. NoneMarked /\ Fewer
  BY <1>1 DEF NoneMarked, Fewer
<1>3. GeneratorTypeOK' /\ OwnIds'
  BY <1>1 DEF GeneratorInv, GeneratorTypeOK, OwnIds
<1> QED
  BY <1>1, <1>2, <1>3, FewerIsGood, NoneMarkedKeeps DEF GeneratorInv, CrowdsAreKnown

LEMMA GeneratorStep == GeneratorInv /\ [GeneratorNext]_generatorVars => GeneratorInv' /\ StepIsGood
<1> SUFFICES ASSUME GeneratorInv, [GeneratorNext]_generatorVars PROVE GeneratorInv' /\ StepIsGood
  OBVIOUS
<1> QED
  BY BeginRunKeeps, LookKeeps, UpdateKeeps, CheckKeeps, DeleteKeeps, CreateRowKeeps, MarkRowKeeps,
     RunsDieKeeps, RowChangesKeep, TickKeeps DEF GeneratorNext
-----------------------------------------------------------------------------
\* Each row has an id of its own, whatever runs and executor do at once.
THEOREM GeneratorTypeCorrect == GeneratorSpec => [](GeneratorTypeOK /\ OwnIds)
<1>1. GeneratorInv => GeneratorTypeOK /\ OwnIds
  BY DEF GeneratorInv
<1> QED
  BY GeneratorInitInv, GeneratorStep, <1>1, PTL DEF GeneratorSpec

\* Two observations come to clash only where an old one is scheduled anew or
\* where runs met or a deletion was refused: for any passes and any runs, executor
\* and operator.
THEOREM ClashesAreCaused == GeneratorSpec => ClashesHaveCause
<1>1. GeneratorInv /\ [GeneratorNext]_generatorVars => [ClashHasCause]_generatorVars
  BY GeneratorStep DEF StepIsGood
<1>2. GeneratorSpec => [][ClashHasCause]_generatorVars
  BY GeneratorInitInv, GeneratorStep, <1>1, PTL DEF GeneratorSpec
<1> QED
  BY <1>2 DEF ClashHasCause, ClashesHaveCause

\* However many runs predict a pass, those that were not hindered give it one row.
THEOREM PassesAreObservedOnce == GeneratorSpec => NoSecondRow
<1>1. GeneratorInv /\ [GeneratorNext]_generatorVars => [RowIsFirst]_generatorVars
  BY GeneratorStep DEF StepIsGood
<1>2. GeneratorSpec => [][RowIsFirst]_generatorVars
  BY GeneratorInitInv, GeneratorStep, <1>1, PTL DEF GeneratorSpec
<1> QED
  BY <1>2 DEF RowIsFirst, NoSecondRow
-----------------------------------------------------------------------------
(***************************************************************************)
(* One observation: its jobs follow its row, and no recording is without   *)
(* something that will close it, whatever the restarts and the failures,   *)
(* as long as the operator waits for what is under way (Patient).          *)
(* A sync works alone and with no session open; a start has its stop job   *)
(* with it, since both were added together and only a sync or a            *)
(* cancellation takes the stop job away; and a stop or a cancellation      *)
(* under way has yet to close whatever is open.                            *)
(***************************************************************************)

Fresh == row.status = "none" =>
    /\ live = {} /\ jobs = {}
    /\ start.pc = "idle" /\ stop.pc = "idle" /\ cancel.pc = "idle"
    /\ \A y \in Syncs : sync[y] # "add"
OneSyncAtATime == \A y, z \in Syncs : sync[y] # "idle" /\ sync[z] # "idle" => y = z
SyncAlone == ~SyncQuiet => live = {} /\ start.pc = "idle" /\ cancel.pc = "idle"
StartHasStop ==
    /\ "start" \in jobs => "stop" \in jobs /\ phase # "after"
    /\ start.pc # "idle" => "stop" \in jobs /\ phase = "during" /\ cancel.pc = "idle"
StopIsAfter == stop.pc # "idle" => phase = "after" /\ live \subseteq stop.of
LiveIsCovered == live = {} \/ "stop" \in jobs \/ live \subseteq stop.of \/ live \subseteq cancel.of
CancelCovers ==
    /\ cancel.pc # "idle" => live \subseteq cancel.of
    /\ cancel.pc = "jobs" =>
          cancel.of = {} /\ (phase = "before" => row.status = "cancelled")
RestIsEmpty ==
    /\ start.pc = "idle" => start.of = {}
    /\ stop.pc = "idle" => stop.of = {}
    /\ cancel.pc = "idle" => cancel.of = {}
AddIsWanted ==
    \A y \in Syncs : sync[y] = "add" /\ phase = "before" => row.enabled /\ row.status = "scheduled"

ObservationsInv ==
    /\ ObservationsTypeOK /\ RestIsEmpty /\ Fresh
    /\ OneSyncAtATime /\ SyncAlone /\ AddIsWanted
    /\ StartHasStop /\ StopIsAfter /\ CancelCovers /\ LiveIsCovered
    /\ JobsFollowRow

LEMMA AtRestFields == AtRest.pc = "idle" /\ AtRest.of = {}
BY DEF AtRest

\* A coroutine is at rest exactly if it is idle.
LEMMA RestIsIdle ==
    ASSUME ObservationsTypeOK, RestIsEmpty
    PROVE  /\ start = AtRest <=> start.pc = "idle"
           /\ stop = AtRest <=> stop.pc = "idle"
           /\ cancel = AtRest <=> cancel.pc = "idle"
BY DEF ObservationsTypeOK, RestIsEmpty, AtRest

LEMMA ObservationsTypeInit == ObservationsInit => ObservationsTypeOK
<1> SUFFICES ASSUME ObservationsInit PROVE ObservationsTypeOK
  OBVIOUS
<1> USE ObservationsAssumption DEF ObservationsInit
<1>1. row \in [status : Statuses, enabled : BOOLEAN]
  BY DEF Statuses
<1>2. /\ start \in [pc : {"idle", "check", "park", "open", "mark", "undo"}, of : SUBSET Recordings]
      /\ stop \in [pc : {"idle", "close"}, of : SUBSET Recordings]
      /\ cancel \in [pc : {"idle", "close", "jobs"}, of : SUBSET Recordings]
  BY DEF AtRest
<1>3. sync \in [Syncs -> {"idle", "read", "all", "add"}]
  OBVIOUS
<1>4. /\ phase \in {"before", "during", "after"} /\ jobs \in SUBSET JobKinds /\ active \in BOOLEAN
      /\ live \in SUBSET Recordings
  OBVIOUS
<1>5. edits \in 0 .. MaxEdits /\ reboots \in 0 .. MaxReboots /\ downs \in 0 .. MaxDowns
  OBVIOUS
<1> HIDE DEF ObservationsInit
<1> QED
  BY <1>1, <1>2, <1>3, <1>4, <1>5 DEF ObservationsTypeOK

LEMMA ObservationsTypeNext ==
    ObservationsTypeOK /\ [ObservationsNext]_observationVars => ObservationsTypeOK'
<1> SUFFICES ASSUME ObservationsTypeOK, [ObservationsNext]_observationVars
             PROVE  ObservationsTypeOK'
  OBVIOUS
<1> USE ObservationsAssumption DEF ObservationsTypeOK, SetStatus, RemoveScheduledStopJob, JobKinds
<1> DEFINE Started == [pc : {"idle", "check", "park", "open", "mark", "undo"}, of : SUBSET Recordings]
           Stopped == [pc : {"idle", "close"}, of : SUBSET Recordings]
           Cancelled == [pc : {"idle", "close", "jobs"}, of : SUBSET Recordings]
<1>r. AtRest \in Started /\ AtRest \in Stopped /\ AtRest \in Cancelled
  BY DEF AtRest
<1>s. \A s \in Statuses : [row EXCEPT !.status = s] \in [status : Statuses, enabled : BOOLEAN]
  OBVIOUS
<1>k. "scheduled" \in Statuses /\ "running" \in Statuses /\ "completed" \in Statuses
      /\ "failed" \in Statuses /\ "cancelled" \in Statuses /\ "missed" \in Statuses
  BY DEF Statuses
<1>1. CASE StartJob
  BY <1>1, <1>r DEF StartJob
<1>2. CASE Starts
  <2>1. CASE StartSkipped BY <2>1, <1>r DEF StartSkipped
  <2>2. CASE StartChecked BY <2>2 DEF StartChecked
  <2>3. CASE StartParked BY <2>3, <1>r, <1>s, <1>k DEF StartParked
  <2>4. CASE StartFailed BY <2>4, <1>r, <1>s, <1>k DEF StartFailed
  <2>5. CASE StartDone BY <2>5, <1>r, <1>s, <1>k DEF StartDone
  <2>6. ASSUME NEW r \in Recordings, StartSession(r) \/ StartUndoes(r) PROVE ObservationsTypeOK'
    <3>1. CASE StartSession(r) BY <3>1 DEF StartSession
    <3>2. CASE StartUndoes(r) BY <3>2 DEF StartUndoes
    <3> QED BY <2>6, <3>1, <3>2
  <2> QED BY <1>2, <2>1, <2>2, <2>3, <2>4, <2>5, <2>6 DEF Starts
<1>3. CASE StopJob BY <1>3 DEF StopJob
<1>4. CASE Stops
  <2>1. CASE StopDone BY <2>1, <1>r, <1>s, <1>k DEF StopDone
  <2>2. ASSUME NEW r \in Recordings, StopSession(r) PROVE ObservationsTypeOK'
    BY <2>2 DEF StopSession
  <2> QED BY <1>4, <2>1, <2>2 DEF Stops
<1>5. CASE Cancels
  <2>1. CASE CancelDone BY <2>1, <1>s, <1>k DEF CancelDone
  <2>2. CASE CancelRemovesJobs BY <2>2, <1>r DEF CancelRemovesJobs
  <2>3. ASSUME NEW r \in Recordings, CancelSession(r) PROVE ObservationsTypeOK'
    BY <2>3 DEF CancelSession
  <2> QED BY <1>5, <2>1, <2>2, <2>3 DEF Cancels
<1>6. ASSUME NEW r \in Recordings, StartSessionFails(r) PROVE ObservationsTypeOK'
  BY <1>6 DEF StartSessionFails
<1>7. CASE Cancel BY <1>7 DEF Cancel, MayEdit
<1>8. CASE WindowOpens BY <1>8 DEF WindowOpens
<1>9. CASE WindowCloses BY <1>9 DEF WindowCloses
<1>10. ASSUME NEW y \in Syncs,
              \/ Submit(y) \/ Toggle(y) \/ Edit(y) \/ Generate(y) \/ SyncMarksMissed(y)
              \/ SyncReads(y) \/ SyncAdds(y) \/ Reboot(y)
       PROVE  ObservationsTypeOK'
  <2> USE DEF SyncIs, MayEdit
  <2>1. CASE Submit(y) BY <2>1, <1>k DEF Submit
  <2>2. CASE Toggle(y)
    <3>1. (~row.enabled) \in BOOLEAN
      BY Zenon
    <3>2. row' \in [status : Statuses, enabled : BOOLEAN]
      BY <2>2, <3>1 DEF Toggle
    <3> QED BY <2>2, <3>2 DEF Toggle
  <2>3. CASE Edit(y) BY <2>3, <1>s, <1>k DEF Edit
  <2>4. CASE Generate(y)
    <3>1. row' \in [status : Statuses, enabled : BOOLEAN]
      <4>1. [status |-> "scheduled", enabled |-> TRUE] \in [status : Statuses, enabled : BOOLEAN]
        BY <1>k
      <4> QED BY <2>4, <4>1 DEF Generate
    <3>2. sync' \in [Syncs -> {"idle", "read", "all", "add"}]
      BY <2>4 DEF Generate
    <3> QED BY <2>4, <3>1, <3>2 DEF Generate
  <2>5. CASE SyncMarksMissed(y) BY <2>5, <1>s, <1>k DEF SyncMarksMissed
  <2>6. CASE SyncReads(y) BY <2>6 DEF SyncReads
  <2>7. CASE SyncAdds(y) BY <2>7 DEF SyncAdds
  <2>8. CASE Reboot(y)
    <3>1. sync' \in [Syncs -> {"idle", "read", "all", "add"}]
      BY <2>8 DEF Reboot
    <3>2. reboots' \in 0 .. MaxReboots
      BY <2>8 DEF Reboot
    <3>3. start' \in Started /\ stop' \in Stopped /\ cancel' \in Cancelled
      BY <2>8, <1>r DEF Reboot
    <3>4. /\ jobs' = {} /\ live' = {} /\ active' = FALSE
          /\ UNCHANGED <<row, phase, edits, downs>>
      BY <2>8 DEF Reboot
    <3> QED BY <3>1, <3>2, <3>3, <3>4
  <2> QED BY <1>10, <2>1, <2>2, <2>3, <2>4, <2>5, <2>6, <2>7, <2>8
<1>11. CASE UNCHANGED observationVars
  BY <1>11 DEF observationVars
<1> QED
  BY <1>1, <1>2, <1>3, <1>4, <1>5, <1>6, <1>7, <1>8, <1>9, <1>10, <1>11 DEF ObservationsNext

LEMMA ObservationsInitInv == ObservationsInit => ObservationsInv
<1> SUFFICES ASSUME ObservationsInit PROVE ObservationsInv
  OBVIOUS
<1>1. ObservationsTypeOK
  BY ObservationsTypeInit
<1> QED
  BY <1>1, AtRestFields
     DEF ObservationsInit, ObservationsInv, RestIsEmpty, Fresh, OneSyncAtATime, SyncAlone, SyncQuiet,
         AddIsWanted, StartHasStop, StopIsAfter, CancelCovers, LiveIsCovered, JobsFollowRow

\* The part of the invariant a step has to keep beside the types.
ObservationsKeep ==
    /\ RestIsEmpty /\ Fresh /\ OneSyncAtATime /\ SyncAlone /\ AddIsWanted
    /\ StartHasStop /\ StopIsAfter /\ CancelCovers /\ LiveIsCovered
    /\ JobsFollowRow

LEMMA ObservationsKept ==
    ASSUME Patient
    PROVE  ObservationsInv /\ [ObservationsNext]_observationVars => ObservationsKeep'
<1> SUFFICES ASSUME ObservationsInv, [ObservationsNext]_observationVars
             PROVE  ObservationsKeep'
  OBVIOUS
<1>t. ObservationsTypeOK /\ ObservationsTypeOK' /\ ObservationsKeep
  BY ObservationsTypeNext DEF ObservationsInv, ObservationsKeep
<1>i. /\ start = AtRest <=> start.pc = "idle"
      /\ stop = AtRest <=> stop.pc = "idle"
      /\ cancel = AtRest <=> cancel.pc = "idle"
  BY <1>t, RestIsIdle DEF ObservationsKeep
<1>f. AtRest.pc = "idle" /\ AtRest.of = {}
  BY AtRestFields
<1> USE <1>t, <1>i, <1>f
    DEF SetStatus, RemoveScheduledStopJob, JobKinds, SyncIs, SyncQuiet, ExecutorQuiet, MayEdit,
        ObservationsKeep, RestIsEmpty, Fresh, OneSyncAtATime, SyncAlone, AddIsWanted, StartHasStop,
        StopIsAfter, CancelCovers, LiveIsCovered, JobsFollowRow, ObservationsTypeOK
<1>1. CASE StartJob BY <1>1 DEF StartJob
<1>2. CASE Starts
  <2>1. CASE StartSkipped BY <2>1 DEF StartSkipped
  <2>2. CASE StartChecked BY <2>2 DEF StartChecked
  <2>3. CASE StartParked BY <2>3 DEF StartParked
  <2>4. CASE StartFailed BY <2>4 DEF StartFailed
  <2>5. CASE StartDone BY <2>5 DEF StartDone
  <2>6. ASSUME NEW r \in Recordings, StartSession(r) PROVE ObservationsKeep'
    BY <2>6 DEF StartSession
  <2>7. ASSUME NEW r \in Recordings, StartUndoes(r) PROVE ObservationsKeep'
    BY <2>7 DEF StartUndoes
  <2> QED BY <1>2, <2>1, <2>2, <2>3, <2>4, <2>5, <2>6, <2>7 DEF Starts
<1>3. CASE StopJob BY <1>3 DEF StopJob
<1>4. CASE Stops
  <2>1. CASE StopDone BY <2>1 DEF StopDone
  <2>2. ASSUME NEW r \in Recordings, StopSession(r) PROVE ObservationsKeep'
    BY <2>2 DEF StopSession
  <2> QED BY <1>4, <2>1, <2>2 DEF Stops
<1>5. CASE Cancels
  <2>1. CASE CancelDone BY <2>1 DEF CancelDone
  <2>2. CASE CancelRemovesJobs BY <2>2 DEF CancelRemovesJobs
  <2>3. ASSUME NEW r \in Recordings, CancelSession(r) PROVE ObservationsKeep'
    BY <2>3 DEF CancelSession
  <2> QED BY <1>5, <2>1, <2>2, <2>3 DEF Cancels
<1>6. ASSUME NEW r \in Recordings, StartSessionFails(r) PROVE ObservationsKeep'
  BY <1>6 DEF StartSessionFails
<1>7. CASE Cancel BY <1>7 DEF Cancel
<1>8. CASE WindowOpens BY <1>8 DEF WindowOpens
<1>9. CASE WindowCloses BY <1>9 DEF WindowCloses
<1>10. ASSUME NEW y \in Syncs,
              \/ Submit(y) \/ Toggle(y) \/ Edit(y) \/ Generate(y) \/ SyncMarksMissed(y)
              \/ SyncReads(y) \/ SyncAdds(y) \/ Reboot(y)
       PROVE  ObservationsKeep'
  <2>1. CASE Submit(y) BY <2>1 DEF Submit
  <2>2. CASE Toggle(y) BY <2>2 DEF Toggle
  <2>3. CASE Edit(y) BY <2>3 DEF Edit
  <2>4. CASE Generate(y) BY <2>4 DEF Generate
  <2>5. CASE SyncMarksMissed(y) BY <2>5 DEF SyncMarksMissed
  <2>6. CASE SyncReads(y) BY <2>6 DEF SyncReads
  <2>7. CASE SyncAdds(y) BY <2>7 DEF SyncAdds
  <2>8. CASE Reboot(y) BY <2>8 DEF Reboot
  <2> QED BY <1>10, <2>1, <2>2, <2>3, <2>4, <2>5, <2>6, <2>7, <2>8
<1>11. CASE UNCHANGED observationVars
  BY <1>11 DEF observationVars
<1> HIDE DEF ObservationsKeep
<1> QED
  BY <1>1, <1>2, <1>3, <1>4, <1>5, <1>6, <1>7, <1>8, <1>9, <1>10, <1>11 DEF ObservationsNext

\* Whatever the operator does and when: the types.
THEOREM ObservationsTypeCorrect == ObservationsSpec => []ObservationsTypeOK
<1>1. ObservationsInit => ObservationsTypeOK
  BY ObservationsTypeInit
<1>2. ObservationsTypeOK /\ [ObservationsNext]_observationVars => ObservationsTypeOK'
  BY ObservationsTypeNext
<1> QED
  BY <1>1, <1>2, PTL DEF ObservationsSpec

THEOREM ObservationsInvCorrect ==
    ASSUME Patient PROVE ObservationsSpec => []ObservationsInv
<1>1. ObservationsInit => ObservationsInv
  BY ObservationsInitInv
<1>2. ObservationsInv /\ [ObservationsNext]_observationVars => ObservationsInv'
  BY ObservationsKept, ObservationsTypeNext DEF ObservationsInv, ObservationsKeep
<1> QED
  BY <1>1, <1>2, PTL DEF ObservationsSpec

\* An open recording has its stop job, or a failing start, a stop or a
\* cancellation that has yet to close it: for any sessions, syncs, restarts and
\* failures, as long as the operator waits for what is under way.
THEOREM RecordingsHaveTheirStop ==
    ASSUME Patient PROVE ObservationsSpec => []RecordingHasItsStop
<1>1. ObservationsInv => RecordingHasItsStop
  BY DEF ObservationsInv, LiveIsCovered, RecordingHasItsStop
<1> QED
  BY <1>1, ObservationsInvCorrect, PTL

\* An observation waiting for its window has both its jobs, and one disabled,
\* cancelled or over has none, likewise.
THEOREM JobsFollowTheirRow ==
    ASSUME Patient PROVE ObservationsSpec => []JobsFollowRow
<1>1. ObservationsInv => JobsFollowRow
  BY DEF ObservationsInv
<1> QED
  BY <1>1, ObservationsInvCorrect, PTL
=============================================================================
