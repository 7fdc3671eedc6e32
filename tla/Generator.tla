------------------------------ MODULE Generator ------------------------------
(***************************************************************************)
(* The generator of observations: a run predicts the passes of every       *)
(* monitored satellite, updates the row of a pass that has one, and else   *)
(* creates one, unless it conflicts with the rows of higher passes; lower  *)
(* ones make room (strategy "priority", the only one that is set).  Every  *)
(* step awaits the database and commits, so two runs, the executor and the *)
(* operator interleave.  A pass is found by the time the satellite is up,  *)
(* and in the way by the time its tasks take.  One tick of time is five    *)
(* minutes: the tolerance, and the grace time of a start.                  *)
(***************************************************************************)
EXTENDS Naturals, Sequences, FiniteSets

CONSTANTS
    PassOrder(_), \* the passes in the order a run processes them: satellites by
                  \* created_at, or the one it is for, each one's passes by time
    Window(_),    \* event_start, event_end (from, to), task_start, task_end (start,
                  \* stop) and peak_altitude (peak) of each
    Generators,   \* runs: the job's, the operator's
    Overriding,   \* those with user_conflict_overrides
    Horizon,      \* bound: time
    KeepFor,      \* how long a row that is over is kept
    MaxRows       \* bound: rows created

ASSUME GeneratorAssumption ==
    /\ \A g \in Generators : Len(PassOrder(g)) \in Nat \ {0}
    /\ \A g \in Generators : \A i \in 1 .. Len(PassOrder(g)) :
          LET w == Window(PassOrder(g)[i]) IN
          /\ w \in [from : Nat, to : Nat, start : Nat, stop : Nat, peak : Nat]
          /\ w.from <= w.start /\ w.start < w.stop /\ w.stop <= w.to
    /\ Overriding \subseteq Generators
    /\ Horizon \in Nat /\ KeepFor \in Nat /\ MaxRows \in Nat

Passes == UNION {{PassOrder(g)[i] : i \in 1 .. Len(PassOrder(g))} : g \in Generators}
RowIds == 1 .. MaxRows
\* Completed, failed, cancelled and missed are all "over".
RowStates == {"scheduled", "running", "over"}

VARIABLES
    now,
    rows,    \* the rows: their pass, status, enabled, and whether they are marked as
             \* generated (monitored_satellite_id)
    made,    \* rows created so far
    gen,     \* each run: where it is, its next pass, and the rows it read
    hindered \* history: the runs under way that were not alone all the time, or whose
             \* deletion was refused

generatorVars == <<now, rows, made, gen, hindered>>

Resting == [pc |-> "idle", next |-> 1, hit |-> {}]

GeneratorTypeOK ==
    /\ now \in 0 .. Horizon
    /\ rows \in SUBSET [id : RowIds, pass : Passes, status : RowStates,
                        enabled : BOOLEAN, marked : BOOLEAN]
    /\ made \in 0 .. MaxRows
    /\ gen \in [Generators -> [pc : {"idle", "look", "update", "check", "delete", "create", "mark"},
                               next : Nat, hit : SUBSET RowIds]]
    /\ \A g \in Generators : gen[g].next \in 1 .. Len(PassOrder(g))
    /\ hindered \subseteq Generators

GeneratorInit ==
    /\ now = 0
    /\ rows = {}
    /\ made = 0
    /\ gen = [g \in Generators |-> Resting]
    /\ hindered = {}

Busy == {g \in Generators : gen[g].pc # "idle"}
IdsOf(rs) == {r.id : r \in rs}
Start(r) == Window(r.pass).start
Stop(r) == Window(r.pass).stop
-----------------------------------------------------------------------------
(* A run. *)

GenIs(g, pc, hit) ==
    /\ gen' = [gen EXCEPT ![g] = [pc |-> pc, next |-> @.next, hit |-> hit]]
    /\ UNCHANGED hindered
Pass(g) == PassOrder(g)[gen[g].next]

NextPass(g) ==
    IF gen[g].next = Len(PassOrder(g))
    THEN gen' = [gen EXCEPT ![g] = Resting] /\ hindered' = hindered \ {g}
    ELSE /\ gen' = [gen EXCEPT ![g] = [pc |-> "look", next |-> @.next + 1, hit |-> {}]]
         /\ UNCHANGED hindered

\* cleanup_old_observations, then the first pass.
Old(r) == r.status = "over" /\ Window(r.pass).to + KeepFor < now

BeginRun(g) ==
    /\ gen[g].pc = "idle"
    /\ rows' = {r \in rows : ~Old(r)}
    /\ gen' = [gen EXCEPT ![g].pc = "look"]
    /\ hindered' = IF Busy = {} THEN {} ELSE Busy \cup {g}
    /\ UNCHANGED <<now, made>>

\* A mutant: the row there is, is not looked for.
LookAhead(g) ==
    /\ gen[g].pc = "look"
    /\ IF Window(Pass(g)).from < now THEN NextPass(g) ELSE GenIs(g, "check", {})
    /\ UNCHANGED <<now, rows, made>>

\* A pass that is over is not predicted, nor one past its peak that is by now
\* too low.  find_overlapping_observation finds the rows marked as generated, and
\* raises when there are two.
Look(g) ==
    LET own == {r \in rows : r.pass = Pass(g) /\ r.marked}
        w == Window(Pass(g))
    IN
    /\ gen[g].pc = "look"
    /\ \/ (w.from < now \/ Cardinality(own) > 1) /\ NextPass(g)
       \/ w.to > now /\ Cardinality(own) = 1 /\ GenIs(g, "update", IdsOf(own))
       \/ w.to > now /\ own = {} /\ GenIs(g, "check", {})
    /\ UNCHANGED <<now, rows, made>>

\* An existing row is always updated, whatever its status, unless the database
\* refuses.
Update(g) ==
    /\ gen[g].pc = "update"
    /\ \/ rows' = {IF r.id \in gen[g].hit THEN [r EXCEPT !.status = "scheduled", !.enabled = TRUE] ELSE r :
                   r \in rows}
       \/ UNCHANGED rows
    /\ NextPass(g)
    /\ UNCHANGED <<now, made>>

\* A mutant: what is running is not in the way.
ScheduledInTheWay(p) == {r \in rows : /\ r.status = "scheduled"
                                      /\ Start(r) < Window(p).stop + 1
                                      /\ Stop(r) + 1 > Window(p).start}

\* find_any_time_conflict.
InTheWay(p) == {r \in rows : /\ r.status \in {"scheduled", "running"}
                             /\ Start(r) < Window(p).stop + 1
                             /\ Stop(r) + 1 > Window(p).start}

\* Every conflicting pass is lower, or the operator said "replace".
Check(g) ==
    LET others == InTheWay(Pass(g))
        wins == \A r \in others : Window(r.pass).peak < Window(Pass(g)).peak
    IN
    /\ gen[g].pc = "check"
    /\ \/ others = {} /\ GenIs(g, "create", {})
       \/ others # {} /\ (wins \/ g \in Overriding) /\ GenIs(g, "delete", IdsOf(others))
       \/ others # {} /\ (~wins \/ g \in Overriding) /\ NextPass(g)
    /\ UNCHANGED <<now, rows, made>>

\* The pass is created even if the rows in its way could not be deleted.
Delete(g) ==
    /\ gen[g].pc = "delete"
    /\ gen' = [gen EXCEPT ![g] = [pc |-> "create", next |-> @.next, hit |-> {}]]
    /\ \/ rows' = {r \in rows : r.id \notin gen[g].hit} /\ UNCHANGED hindered
       \/ hindered' = hindered \cup {g} /\ UNCHANGED rows
    /\ UNCHANGED <<now, made>>

\* The database may refuse the new row; what made room for it is gone already.
CreateRow(g) ==
    /\ gen[g].pc = "create"
    /\ \/ /\ made < MaxRows /\ made' = made + 1
          /\ rows' = rows \cup {[id |-> made', pass |-> Pass(g), status |-> "scheduled",
                               enabled |-> TRUE, marked |-> FALSE]}
          /\ GenIs(g, "mark", {made'})
       \/ UNCHANGED <<rows, made>> /\ NextPass(g)
    /\ UNCHANGED now

\* mark_observation_as_generated, whose failure nobody looks at.
MarkRow(g) ==
    /\ gen[g].pc = "mark"
    /\ \/ rows' = {IF r.id \in gen[g].hit THEN [r EXCEPT !.marked = TRUE] ELSE r : r \in rows}
       \/ UNCHANGED rows
    /\ NextPass(g)
    /\ UNCHANGED <<now, made>>

\* The server goes down, and what its runs had begun is not resumed.
RunsDie ==
    /\ gen' = [g \in Generators |-> Resting] /\ hindered' = {}
    /\ UNCHANGED <<now, rows, made>>
-----------------------------------------------------------------------------
(* The executor, the operator and time. *)

Sets(r, s) == rows' = (rows \ {r}) \cup {[r EXCEPT !.status = s]}

\* The start job, at the start of the tasks or within its grace time.
StartRow(r) ==
    /\ r.status = "scheduled" /\ r.enabled /\ now \in Start(r) .. Start(r) + 1
    /\ Sets(r, "running")
    /\ UNCHANGED <<now, made, gen, hindered>>

\* The stop job, whatever the status, and sync_all_observations end what is
\* past; a cancellation, a parked rotator and a failure end it before.
EndRow(r) ==
    /\ r.status \in {"scheduled", "running"}
    /\ Sets(r, "over")
    /\ UNCHANGED <<now, made, gen, hindered>>

ToggleRow(r) ==
    /\ rows' = (rows \ {r}) \cup {[r EXCEPT !.enabled = ~@]}
    /\ UNCHANGED <<now, made, gen, hindered>>

Tick ==
    /\ now < Horizon
    /\ now' = now + 1
    /\ UNCHANGED <<rows, made, gen, hindered>>
-----------------------------------------------------------------------------
GeneratorNext ==
    \/ \E g \in Generators : \/ BeginRun(g) \/ Look(g) \/ Update(g) \/ Check(g)
                             \/ Delete(g) \/ CreateRow(g) \/ MarkRow(g)
    \/ \E r \in rows : StartRow(r) \/ EndRow(r) \/ ToggleRow(r)
    \/ RunsDie \/ Tick

GeneratorSpec == GeneratorInit /\ [][GeneratorNext]_generatorVars
-----------------------------------------------------------------------------
Waiting(r) == r.status \in {"scheduled", "running"}

\* Two observations that wait or run want the station at once.
Clash(r, s) ==
    /\ r.id # s.id /\ Waiting(r) /\ Waiting(s)
    /\ Start(r) <= Stop(s) /\ Start(s) <= Stop(r)

\* A run that was not alone, or could not delete what is in the way, creates a row.
HinderedCreates == \E g \in hindered : gen[g].pc = "create" /\ gen'[g] # gen[g]

\* "priority: keep passes with higher peak elevation": two observations come to
\* clash only where one that was over is scheduled anew, since an update looks at
\* nothing else, or where a run created a row that was hindered.
ClashesHaveCause ==
    [][\A r, s \in rows' : Clash(r, s) =>
          \/ \E q, t \in rows : q.id = r.id /\ t.id = s.id /\ Clash(q, t)
          \/ \E q \in rows : q.id \in {r.id, s.id} /\ q.status = "over"
          \/ HinderedCreates]_generatorVars

\* A pass gets a second row only where the first is over and was never marked,
\* or from a run that was hindered, however many runs predict it, and wherever
\* they died or failed.
NoSecondRow ==
    [][\A r \in rows' : r.id \notin IdsOf(rows) =>
          \/ \A s \in rows : s.pass = r.pass => s.status = "over" /\ ~s.marked
          \/ HinderedCreates]_generatorVars
=============================================================================
