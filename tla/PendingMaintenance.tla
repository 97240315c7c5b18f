--------------------------- MODULE PendingMaintenance ---------------------------
(***************************************************************************)
(* The work a general-cron tick owes (src/scheduled.ts, src/db/scheduled-  *)
(* maintenance-repository.ts, src/db/invocation-budget.ts).                *)
(*                                                                         *)
(* A tick first writes down what is due, one row per task, then walks the  *)
(* rows by their last attempt: it claims a task when enough of the         *)
(* invocation's D1 calls is left for it, runs it, and deletes the row by   *)
(* the claim's token.  What fails, yields or is cut off keeps its row for  *)
(* the next tick.  A claim holds for four minutes and ticks are five       *)
(* apart: any later tick may take the row over from one that is still at   *)
(* work.                                                                   *)
(*                                                                         *)
(* Times are ticks, ranked among those a row or a tick still refers to.    *)
(***************************************************************************)
EXTENDS Naturals, FiniteSets, Sequences

CONSTANTS
    Tasks,          \* MAINTENANCE_TASKS, by the place of their name in the order
    DueOn,          \* the tasks due on even and on odd ticks
    Rare,           \* tasks that may be due on any tick
    Floor,          \* minimumRemainingCalls of each
    WorkCalls,      \* D1 calls of an invocation, less the finalization reserve
    Costs,          \* calls a task may use
    NumTicks        \* invocations that may overlap

ASSUME MaintenanceBounds ==
    /\ Tasks \subseteq Nat /\ IsFiniteSet(Tasks)
    /\ DueOn \in [0..1 -> SUBSET Tasks] /\ Rare \subseteq Tasks
    /\ \A t \in Tasks : Floor[t] \in Nat
    /\ WorkCalls \in Nat \ 0..1 /\ Costs \subseteq Nat /\ NumTicks \in Nat \ {0}

Ticks == 1..NumTicks
Over == 0                       \* the token of an invocation that has ended

VARIABLES
    row,        \* scheduled_maintenance_pending, or NoRow
    tick,       \* the invocations in flight
    parity,     \* of the next tick
    served      \* tasks whose latest claimant has finished the work

maintenance == <<row, tick, parity, served>>

NoRow == [due |-> 0, claimed |-> 0, token |-> Over]
NoTick == [pc |-> "idle", now |-> 0, todo |-> <<>>, left |-> 0]

MaintenanceInit ==
    /\ row = [t \in Tasks |-> NoRow]
    /\ tick = [i \in Ticks |-> NoTick]
    /\ parity = 0
    /\ served = Tasks

Ranks == 0..(2 * Cardinality(Tasks) + NumTicks)

Owed(t) == row[t] # NoRow
At(i, pc) == tick[i].pc = pc
Task(i) == Head(tick[i].todo)
Running(i, t) == At(i, "run") /\ Task(i) = t
Alone(i) == \A j \in Ticks \ {i} : At(j, "idle")

MaintenanceTypeOK ==
    /\ row \in [Tasks -> [due : Ranks, claimed : Ranks, token : Ticks \cup {Over}]]
    /\ tick \in [Ticks -> [pc : {"idle", "next", "run"}, now : Ranks, todo : Seq(Tasks),
                           left : 0..WorkCalls]]
    /\ \A i \in Ticks : At(i, "run") => tick[i].todo # <<>>
    /\ parity \in 0..1
    /\ served \subseteq Tasks

\* claimed_at IS NULL OR claimed_at < now - LEASE_MS
Claimable(t, now) == Owed(t) /\ row[t].claimed < now

\* Mutant: the oldest occurrence first, whatever was tried.
ByDueDate(r, q, s, t) == r.due < q.due \/ (r.due = q.due /\ s < t)

\* ORDER BY COALESCE(claimed_at, due_at), claimed_at IS NOT NULL, due_at, task_name
\* of task s with row r and task t with row q.
ByLastAttempt(r, q, s, t) ==
    LET Tried(p) == p.claimed # 0
        Touched(p) == IF Tried(p) THEN p.claimed ELSE p.due IN
    \/ Touched(r) < Touched(q)
    \/ /\ Touched(r) = Touched(q)
       /\ \/ ~Tried(r) /\ Tried(q)
          \/ /\ Tried(r) = Tried(q)
             /\ r.due < q.due \/ (r.due = q.due /\ s < t)

\* The tasks of rows in the order of their last attempts.
InTurn(rows) ==
    LET owed == {t \in Tasks : rows[t] # NoRow}
        Place(t) == Cardinality(
            {s \in owed : s = t \/ ByLastAttempt(rows[s], rows[t], s, t)}) IN
    [n \in 1..Cardinality(owed) |-> CHOOSE t \in owed : Place(t) = n]

\* The invocation is over; what it claimed has a token no one will use.
Ends(i, rows) ==
    /\ row' = [t \in Tasks |-> IF rows[t].token = i THEN [rows[t] EXCEPT !.token = Over] ELSE rows[t]]
    /\ tick' = [tick EXCEPT ![i] = NoTick]

\* The times a row or a tick refers to, their ranks, and the next.
Used ==
    {row[t].due : t \in Tasks} \cup {row[t].claimed : t \in Tasks}
        \cup {tick[j].now : j \in Ticks}
Rank(n) == Cardinality({m \in Used : 0 < m /\ m <= n})
Now == Cardinality(Used \ {0}) + 1

\* enqueueMaintenance of what is due: a row that is there stands for both.
Enqueued(due) ==
    [t \in Tasks |->
        IF Owed(t) THEN [row[t] EXCEPT !.due = Rank(@), !.claimed = Rank(@)]
        ELSE IF t \in due THEN [NoRow EXCEPT !.due = Now] ELSE NoRow]

\* ... and the list of what may be claimed.
TickBegins(i) ==
    /\ At(i, "idle") /\ \A j \in 1..(i - 1) : ~At(j, "idle")
    /\ \E rare \in SUBSET Rare :
        LET rows == Enqueued(DueOn[parity] \cup rare) IN
        /\ row' = rows
        /\ tick' = [j \in Ticks |->
                IF j # i THEN [tick[j] EXCEPT !.now = Rank(@)]
                ELSE [pc |-> "next", now |-> Now, left |-> WorkCalls - 2,
                      todo |-> InTurn(rows)]]
    /\ parity' = 1 - parity
    /\ UNCHANGED served

Affords(i) == tick[i].left >= Floor[Task(i)]

\* Nothing is left, or too little for the next task, which stops the walk.
TickStops(i) ==
    /\ At(i, "next")
    /\ \/ tick[i].todo = <<>>
       \/ tick[i].todo # <<>> /\ (tick[i].left = 0 \/ ~Affords(i))
    /\ Ends(i, row)
    /\ UNCHANGED <<parity, served>>

TickClaims(i) ==
    /\ At(i, "next") /\ tick[i].todo # <<>> /\ tick[i].left > 0 /\ Affords(i)
    /\ LET t == Task(i) IN
       IF Claimable(t, tick[i].now)
       THEN /\ row' = [row EXCEPT ![t] = [due |-> row[t].due, claimed |-> tick[i].now, token |-> i]]
            /\ tick' = [tick EXCEPT ![i].pc = "run", ![i].left = @ - 1]
            /\ served' = served \ {t}
       ELSE /\ tick' = [tick EXCEPT ![i].todo = Tail(@), ![i].left = @ - 1]
            /\ UNCHANGED <<row, served>>
    /\ UNCHANGED parity

\* Mutant: the row is deleted by its name.
DeletedByName(i) == Owed(Task(i))

\* DELETE ... WHERE task_name = ? AND claim_token = ?
MayDelete(i) == row[Task(i)].token = i

\* The task has come to an end.  Done: completeMaintenance, from the reserve when
\* no calls are left; a death before that call leaves what a failure leaves.
TaskEnds(i, done) ==
    LET t == Task(i) IN
    /\ At(i, "run")
    /\ \E cost \in Costs :
        tick' = [tick EXCEPT ![i] =
            [pc |-> "next", now |-> tick[i].now, todo |-> Tail(tick[i].todo),
             left |-> IF cost < tick[i].left THEN tick[i].left - cost ELSE 0]]
    /\ row' = IF done /\ MayDelete(i) THEN [row EXCEPT ![t] = NoRow] ELSE row
    /\ served' = IF done /\ row[t].token = i THEN served \cup {t} ELSE served
    /\ UNCHANGED parity

\* The wall clock or the calls run out, once a task has been claimed.
TickYields(i) ==
    /\ \/ At(i, "run")
       \/ At(i, "next") /\ \E t \in Tasks : row[t].token = i
    /\ Ends(i, row)
    /\ UNCHANGED <<parity, served>>

\* The invocation dies.
TickDies(i) ==
    /\ ~At(i, "idle")
    /\ Ends(i, row)
    /\ UNCHANGED <<parity, served>>

TickSteps(i) == TickStops(i) \/ TickClaims(i)
================================================================================
