--------------------------- MODULE GeneralCron_proofs ---------------------------
(***************************************************************************)
(* For every set of tasks, listings and workers and every bound: work that *)
(* has not succeeded keeps its row, and a change that is not shown keeps   *)
(* its marker.                                                             *)
(*                                                                         *)
(* Neither is inductive alone.  A row counts as owed by its due time, so   *)
(* the first needs that the ranks of times keep a due time positive: that  *)
(* takes the finiteness of the times in use.  The second needs what the    *)
(* clear relies on: between a worker's refresh and its clear, a marker     *)
(* that is still the one it saw stands for no change it has not shown.     *)
(*                                                                         *)
(* Types last: they take the bound on the ranks of times, that the order   *)
(* of last attempts is total, and what each step does to a job's row and   *)
(* its place in the queue.                                                 *)
(***************************************************************************)
EXTENDS GeneralCron, Subsequences_proofs

(***************************************************************************)
(* Rows.                                                                   *)
(***************************************************************************)

Row == [due : Nat, claimed : Nat, token : Ticks \cup {Over}]

\* The invocations in flight, by their times.
TicksHaveTimes ==
    /\ DOMAIN tick = Ticks /\ tick = [i \in Ticks |-> tick[i]]
    /\ \A i \in Ticks :
        /\ tick[i] = [pc |-> tick[i].pc, now |-> tick[i].now, todo |-> tick[i].todo, left |-> tick[i].left]
        /\ tick[i].now \in Nat

\* A row that is there was due at some tick.
RowsAreDue ==
    /\ row \in [Tasks -> Row]
    /\ TicksHaveTimes
    /\ \A t \in Tasks : Owed(t) => row[t].due > 0
    /\ FailedIsKept

\* The image of a finite set is finite, and no larger.
LEMMA ImageIsFinite ==
    ASSUME NEW S, IsFiniteSet(S), NEW f, f = [x \in S |-> f[x]]
    PROVE  IsFiniteSet({f[x] : x \in S}) /\ Cardinality({f[x] : x \in S}) <= Cardinality(S)
<1>1. f \in Surjection(S, {f[x] : x \in S})
  BY DEF Surjection
<1> QED
  BY <1>1, FS_Surjection

\* Ranking keeps a time in use positive, and the next time is positive.
LEMMA Ranking ==
    ASSUME MaintenanceBounds, row \in [Tasks -> Row], \A i \in Ticks : tick[i].now \in Nat
    PROVE  /\ \A n \in Nat : Rank(n) \in Nat
           /\ \A n \in Used : n > 0 => Rank(n) > 0
           /\ Now \in Nat /\ Now > 0
<1> DEFINE dues == [t \in Tasks |-> row[t].due]
           claims == [t \in Tasks |-> row[t].claimed]
           nows == [i \in Ticks |-> tick[i].now]
<1>1. IsFiniteSet(Tasks) /\ IsFiniteSet(Ticks)
  BY FS_Interval DEF MaintenanceBounds, Ticks
<1>2. /\ IsFiniteSet({dues[t] : t \in Tasks})
      /\ IsFiniteSet({claims[t] : t \in Tasks})
      /\ IsFiniteSet({nows[i] : i \in Ticks})
  <2> HIDE DEF dues, claims, nows
  <2>1. /\ dues = [t \in Tasks |-> dues[t]]
        /\ claims = [t \in Tasks |-> claims[t]]
        /\ nows = [i \in Ticks |-> nows[i]]
    BY DEF dues, claims, nows
  <2> QED
    BY <1>1, <2>1, ImageIsFinite
<1>3. Used = ({dues[t] : t \in Tasks} \cup {claims[t] : t \in Tasks}) \cup {nows[i] : i \in Ticks}
  BY DEF Used
<1>4. IsFiniteSet(Used)
  <2> HIDE DEF dues, claims, nows
  <2> QED
    BY <1>2, <1>3, FS_Union
<1>5. Used \subseteq Nat
  BY DEF Used, Row
<1>6. ASSUME NEW n \in Nat
      PROVE  /\ IsFiniteSet({m \in Used : 0 < m /\ m <= n})
             /\ Rank(n) \in Nat
  <2>1. {m \in Used : 0 < m /\ m <= n} \in SUBSET Used
    OBVIOUS
  <2>2. IsFiniteSet({m \in Used : 0 < m /\ m <= n})
    BY <1>4, <2>1, FS_Subset
  <2> QED
    BY <2>2, FS_CardinalityType DEF Rank
<1>7. ASSUME NEW n \in Used, n > 0
      PROVE  Rank(n) > 0
  <2>1. n \in {m \in Used : 0 < m /\ m <= n}
    BY <1>5, <1>7
  <2>2. n \in Nat
    BY <1>5, <1>7
  <2>3. Cardinality({m \in Used : 0 < m /\ m <= n}) # 0
    BY <1>6, <2>1, <2>2, FS_EmptySet
  <2>4. Rank(n) \in Nat /\ Rank(n) # 0
    BY <1>6, <2>2, <2>3 DEF Rank
  <2> HIDE DEF Rank
  <2> QED
    BY <2>4
<1>8. Now \in Nat /\ Now > 0
  <2>1. IsFiniteSet(Used \ {0})
    BY <1>4, FS_RemoveElement
  <2>2. Cardinality(Used \ {0}) \in Nat
    BY <2>1, FS_CardinalityType
  <2> QED
    BY <2>2 DEF Now
<1> QED
  BY <1>6, <1>7, <1>8

LEMMA RowsInit == Init => RowsAreDue
BY DEF Init, MaintenanceInit, RowsAreDue, TicksHaveTimes, FailedIsKept, Owed, NoRow, NoTick, Row, Over

\* The end of an invocation changes tokens alone.
LEMMA EndsKeepsRows ==
    ASSUME RowsAreDue, NEW i \in Ticks, Ends(i, row), served' = served
    PROVE  RowsAreDue'
<1>1. row' \in [Tasks -> Row] /\ \A t \in Tasks : row'[t].due = row[t].due
  BY DEF RowsAreDue, Ends, Row
<1>2. TicksHaveTimes'
  BY DEF RowsAreDue, TicksHaveTimes, Ends, NoTick
<1>3. \A t \in Tasks : Owed(t)' => row[t].due > 0
  BY DEF RowsAreDue, Ends, Owed, NoRow, Row, Over, Ticks
<1>4. \A t \in Tasks : row[t].due > 0 => Owed(t)'
  BY <1>1 DEF Owed, NoRow
<1> QED
  BY <1>1, <1>2, <1>3, <1>4 DEF RowsAreDue, FailedIsKept

\* A tick writes down what is due and ranks every time anew.
LEMMA BeginsKeepsRows ==
    ASSUME MaintenanceBounds, RowsAreDue, NEW i \in Ticks, TickBegins(i)
    PROVE  RowsAreDue'
<1>1. /\ \A n \in Nat : Rank(n) \in Nat
      /\ \A n \in Used : n > 0 => Rank(n) > 0
      /\ Now \in Nat /\ Now > 0
  BY Ranking DEF RowsAreDue, TicksHaveTimes
<1>2. PICK due : row' = Enqueued(due)
  BY DEF TickBegins
<1>3. ASSUME NEW t \in Tasks
      PROVE  /\ row'[t] \in Row
             /\ Owed(t) => row'[t].due > 0
             /\ Owed(t)' => row'[t].due > 0
  <2>1. row[t] \in Row /\ row[t].due \in Used /\ row[t].token \in Ticks \cup {Over}
    BY DEF RowsAreDue, Used, Row
  <2>2. CASE Owed(t)
    <3>1. row'[t] = [due |-> Rank(row[t].due), claimed |-> Rank(row[t].claimed),
                     token |-> row[t].token]
      BY <1>2, <2>1, <2>2 DEF Enqueued, Row
    <3>2. Rank(row[t].due) > 0
      BY <1>1, <2>1, <2>2 DEF RowsAreDue
    <3> QED
      BY <1>1, <2>1, <3>1, <3>2 DEF Row
  <2>3. CASE ~Owed(t)
    <3>1. row'[t] = [NoRow EXCEPT !.due = Now] \/ row'[t] = NoRow
      BY <1>2, <2>3 DEF Enqueued
    <3> QED
      BY <1>1, <2>3, <3>1 DEF Row, Owed, NoRow, Over
  <2> QED
    BY <2>2, <2>3
<1>4. row' \in [Tasks -> Row]
  BY <1>2, <1>3 DEF Enqueued
<1>5. TicksHaveTimes'
  <2>1. PICK todo, left :
            tick' = [j \in Ticks |-> IF j # i THEN [tick[j] EXCEPT !.now = Rank(@)]
                    ELSE [pc |-> "next", now |-> Now, left |-> left, todo |-> todo]]
    BY DEF TickBegins
  <2>2. ASSUME NEW j \in Ticks
        PROVE  \E pc, now, others, rest :
                  now \in Nat /\ tick'[j] = [pc |-> pc, now |-> now, todo |-> others, left |-> rest]
    <3>1. CASE j = i
      BY <1>1, <2>1, <3>1
    <3>2. CASE j # i
      <4>1. tick'[j] = [tick[j] EXCEPT !.now = Rank(@)] /\ tick[j].now \in Nat
        BY <2>1, <3>2 DEF RowsAreDue, TicksHaveTimes
      <4>2. tick'[j] = [pc |-> tick[j].pc, now |-> Rank(tick[j].now),
                        todo |-> tick[j].todo, left |-> tick[j].left]
        BY <4>1 DEF RowsAreDue, TicksHaveTimes
      <4> QED
        BY <1>1, <4>1, <4>2
    <3> QED
      BY <3>1, <3>2
  <2>3. DOMAIN tick' = Ticks /\ tick' = [j \in Ticks |-> tick'[j]]
    BY <2>1
  <2>4. ASSUME NEW j \in Ticks
        PROVE  /\ tick'[j] = [pc |-> tick'[j].pc, now |-> tick'[j].now,
                              todo |-> tick'[j].todo, left |-> tick'[j].left]
               /\ tick'[j].now \in Nat
    <3>1. PICK pc, now, others, rest :
              now \in Nat /\ tick'[j] = [pc |-> pc, now |-> now, todo |-> others, left |-> rest]
      BY <2>2
    <3> QED
      BY <3>1
  <2> QED
    BY <2>3, <2>4 DEF TicksHaveTimes
<1>6. FailedIsKept'
  <2> SUFFICES ASSUME NEW t \in Tasks, t \notin served
               PROVE  Owed(t)'
    BY DEF FailedIsKept, TickBegins
  <2>1. row'[t].due > 0
    BY <1>3 DEF RowsAreDue, FailedIsKept
  <2> QED
    BY <2>1 DEF Owed, NoRow
<1> QED
  BY <1>3, <1>4, <1>5, <1>6 DEF RowsAreDue

\* A claim takes a row that is there.
LEMMA ClaimKeepsRows ==
    ASSUME RowsAreDue, NEW i \in Ticks, TickClaims(i)
    PROVE  RowsAreDue'
<1>1. TicksHaveTimes'
  <2>1. \E pc, todo, left :
            tick' = [tick EXCEPT ![i] = [pc |-> pc, now |-> tick[i].now, todo |-> todo, left |-> left]]
    <3>1. CASE Claimable(Task(i), tick[i].now)
      BY <3>1 DEF TickClaims, RowsAreDue, TicksHaveTimes
    <3>2. CASE ~Claimable(Task(i), tick[i].now)
      BY <3>2 DEF TickClaims, RowsAreDue, TicksHaveTimes
    <3> QED
      BY <3>1, <3>2
  <2> QED
    BY <2>1 DEF RowsAreDue, TicksHaveTimes
<1>2. CASE Claimable(Task(i), tick[i].now)
  <2>1. /\ row' = [row EXCEPT ![Task(i)] =
                    [due |-> row[Task(i)].due, claimed |-> tick[i].now, token |-> i]]
        /\ served' = served \ {Task(i)}
        /\ Owed(Task(i))
    BY <1>2 DEF TickClaims, Claimable
  <2>2. /\ row' \in [Tasks -> Row]
        /\ \A t \in Tasks : row'[t].due = row[t].due
        /\ \A t \in Tasks : t # Task(i) => row'[t] = row[t]
    <3>1. CASE Task(i) \in Tasks
      <4>1. row' = [row EXCEPT ![Task(i)] =
                        [due |-> row[Task(i)].due, claimed |-> tick[i].now, token |-> i]]
        BY <2>1, <3>1
      <4>2. row[Task(i)].due \in Nat /\ tick[i].now \in Nat
        BY <3>1 DEF RowsAreDue, Row, TicksHaveTimes
      <4> QED
        BY <3>1, <4>1, <4>2 DEF RowsAreDue, Row
    <3>2. CASE Task(i) \notin Tasks
      BY <2>1, <3>2 DEF RowsAreDue
    <3> QED
      BY <3>1, <3>2
  <2>3. \A t \in Tasks : row'[t].due > 0 => Owed(t)'
    BY DEF Owed, NoRow
  <2>4. \A t \in Tasks : Owed(t)' => Owed(t)
    BY <2>1, <2>2 DEF Owed
  <2> QED
    BY <1>1, <2>1, <2>2, <2>3, <2>4 DEF RowsAreDue, FailedIsKept
<1>3. CASE ~Claimable(Task(i), tick[i].now)
  BY <1>1, <1>3 DEF TickClaims, RowsAreDue, FailedIsKept, Owed
<1> QED
  BY <1>2, <1>3

\* A row is deleted by the token of the claimant whose work is done.
LEMMA EndOfTaskKeepsRows ==
    ASSUME RowsAreDue, NEW i \in Ticks, NEW done \in BOOLEAN, TaskEnds(i, done)
    PROVE  RowsAreDue'
<1>1. TicksHaveTimes'
  <2>1. \E pc, todo, left :
            tick' = [tick EXCEPT ![i] = [pc |-> pc, now |-> tick[i].now, todo |-> todo, left |-> left]]
    BY DEF TaskEnds
  <2> QED
    BY <2>1 DEF RowsAreDue, TicksHaveTimes
<1>2. CASE done /\ MayDelete(i)
  <2>1. row' = [row EXCEPT ![Task(i)] = NoRow] /\ served' = served \cup {Task(i)}
    BY <1>2 DEF TaskEnds, MayDelete
  <2>2. NoRow \in Row
    BY DEF NoRow, Row, Over
  <2> QED
    BY <1>1, <2>1, <2>2 DEF RowsAreDue, FailedIsKept, Owed
<1>3. CASE ~(done /\ MayDelete(i))
  <2>1. row' = row /\ served \subseteq served'
    BY <1>3 DEF TaskEnds
  <2> QED
    BY <1>1, <2>1 DEF RowsAreDue, FailedIsKept, Owed
<1> QED
  BY <1>2, <1>3

LEMMA RowsStep ==
    ASSUME MaintenanceBounds, RowsAreDue, [Next]_vars
    PROVE  RowsAreDue'
<1>1. CASE UNCHANGED maintenance
  BY <1>1 DEF maintenance, RowsAreDue, TicksHaveTimes, FailedIsKept, Owed
<1>2. ASSUME NEW i \in Ticks, CronSteps(i)
      PROVE  RowsAreDue'
  <2>1. CASE TickStops(i)
    BY <2>1, EndsKeepsRows DEF TickStops
  <2>2. CASE TickClaims(i)
    BY <2>2, ClaimKeepsRows
  <2>3. CASE TaskRuns(i)
    BY <2>3, EndOfTaskKeepsRows DEF TaskRuns
  <2>4. CASE Sweeps(i)
    BY <1>1, <2>4, EndOfTaskKeepsRows DEF Sweeps
  <2> QED
    BY <1>2, <2>1, <2>2, <2>3, <2>4 DEF CronSteps, TickSteps
<1>3. ASSUME NEW i \in Ticks, BeginsNext(i) \/ Overlaps(i)
      PROVE  RowsAreDue'
  BY <1>3, BeginsKeepsRows DEF BeginsNext, Overlaps, Begins
<1>4. ASSUME NEW i \in Ticks, SweepFails(i) \/ Yields(i) \/ Dies(i)
      PROVE  RowsAreDue'
  <2>1. CASE SweepFails(i)
    BY <2>1, EndOfTaskKeepsRows DEF SweepFails
  <2>2. CASE Yields(i) \/ Dies(i)
    BY <2>2, EndsKeepsRows DEF Yields, TickYields, Dies, TickDies
  <2> QED
    BY <1>4, <2>1, <2>2
<1>5. CASE DrainStarts \/ Drains \/ DrainDies
  BY <1>1, <1>5 DEF DrainStarts, Drains, DrainDies, QueueOnly
<1>6. CASE \E w \in Workers : JobFails(w)
  BY <1>1, <1>6 DEF JobFails
<1>7. CASE \E k \in Keys : LeaseEnds(k) \/ SweepIsLate(k)
  BY <1>1, <1>7 DEF LeaseEnds, SweepIsLate, QueueOnly
<1>8. CASE \E l \in Listings : (FallsBehind(l) \/ Changes(l) \/ ChangeIsShown(l)) /\ QueueOnly
  BY <1>1, <1>8 DEF QueueOnly
<1>9. CASE UNCHANGED vars
  BY <1>1, <1>9 DEF vars
<1> QED
  BY <1>2, <1>3, <1>4, <1>5, <1>6, <1>7, <1>8, <1>9 DEF Next

\* No unsucceeded work loses its row: a run that outlived its lease deletes
\* nothing of the run that took over (claimMaintenance, completeMaintenance).
THEOREM WorkIsKept == Spec => []FailedIsKept
<1>1. Init => RowsAreDue
  BY RowsInit
<1>2. RowsAreDue /\ [Next]_vars => RowsAreDue'
  BY MaintenanceBounds, RowsStep
<1>3. RowsAreDue => FailedIsKept
  BY DEF RowsAreDue
<1> QED
  BY <1>1, <1>2, <1>3, PTL DEF Spec

(***************************************************************************)
(* Markers.                                                                *)
(***************************************************************************)

\* A worker that is about to clear the marker it saw has shown the listing since.
ClearIsEarned ==
    \A w \in Workers :
        WorkerAt(w, "clear") /\ worker[w].mine => Key(w).listing \notin unshown

MarkerTypes ==
    /\ listing \in [Listings -> Listing]
    /\ unshown \subseteq Listings
    /\ worker \in [Workers -> Worker]
    /\ \A w \in Workers : ~WorkerAt(w, "idle") => Key(w) \in Keys

Marking == MarkerTypes /\ ChangesAreMarked /\ ClearIsEarned

LEMMA MarkingInit == Init => Marking
BY DEF Init, RemediationInit, Marking, MarkerTypes, ChangesAreMarked, ClearIsEarned,
       Listing, Worker, Resting, WorkerAt, Marked

\* Only the phase of one worker changes, and not to the clear.
LEMMA MovesKeepMarking ==
    ASSUME Marking, NEW w \in Workers, ~WorkerAt(w, "idle"),
           NEW pc \in {"resolve", "failing", "retry"}, Moves(w, pc),
           listing' = listing, unshown' = unshown
    PROVE  Marking'
<1>1. /\ worker' \in [Workers -> Worker]
      /\ \A v \in Workers : Key(v)' = Key(v) /\ worker'[v].mine = worker[v].mine
      /\ \A v \in Workers : worker'[v].pc = IF v = w THEN pc ELSE worker[v].pc
  BY DEF Moves, Marking, MarkerTypes, Worker, Key
<1> QED
  BY <1>1 DEF Marking, MarkerTypes, ChangesAreMarked, ClearIsEarned, Marked, WorkerAt

\* A worker lets its job go; others may no longer hold their row.
LEMMA RestsKeepMarking ==
    ASSUME Marking, NEW w \in Workers, listing' = listing, unshown' = unshown,
           worker' \in [Workers -> Worker],
           \A v \in Workers :
                \/ worker'[v] = Resting
                \/ /\ worker'[v].pc = worker[v].pc /\ worker'[v].key = worker[v].key
                   /\ worker'[v].mine = worker[v].mine
    PROVE  Marking'
BY DEF Marking, MarkerTypes, ChangesAreMarked, ClearIsEarned, Marked, WorkerAt, Key, Resting

\* What a write under a new token leaves of the workers.
LEMMA Stamping ==
    ASSUME Marking, NEW l \in Listings, NEW w
    PROVE  /\ Stamped(l, w) \in [Workers -> Worker]
           /\ \A v \in Workers :
                /\ Stamped(l, w)[v].pc = worker[v].pc
                /\ Stamped(l, w)[v].key = worker[v].key
                /\ v # w /\ Key(v) \in Keys /\ Key(v).listing = l => ~Stamped(l, w)[v].mine
                /\ v # w /\ ~(Key(v) # NoKey /\ Key(v).listing = l)
                        => Stamped(l, w)[v].mine = worker[v].mine
<1>1. NoKey \notin Keys
  BY DEF NoKey, Keys
<1>2. ASSUME NEW v \in Workers
      PROVE  /\ Stamped(l, w)[v] \in Worker
             /\ Stamped(l, w)[v].pc = worker[v].pc
             /\ Stamped(l, w)[v].key = worker[v].key
             /\ v # w /\ Key(v) \in Keys /\ Key(v).listing = l => ~Stamped(l, w)[v].mine
             /\ v # w /\ ~(Key(v) # NoKey /\ Key(v).listing = l)
                    => Stamped(l, w)[v].mine = worker[v].mine
  <2>1. worker[v] \in Worker
    BY DEF Marking, MarkerTypes
  <2>2. CASE v = w
    BY <2>1, <2>2 DEF Stamped, Worker
  <2>3. CASE v # w /\ Key(v) # NoKey /\ Key(v).listing = l
    BY <2>1, <2>3 DEF Stamped, Worker
  <2>4. CASE v # w /\ ~(Key(v) # NoKey /\ Key(v).listing = l)
    BY <1>1, <2>1, <2>4 DEF Stamped, Worker
  <2> QED
    BY <2>2, <2>3, <2>4
<1>3. Stamped(l, w) \in [Workers -> Worker]
  BY <1>2 DEF Stamped
<1> QED
  BY <1>2, <1>3

LEMMA ChangesKeepMarking ==
    ASSUME Marking, NEW l \in Listings, Changes(l) \/ ChangeIsShown(l) \/ FallsBehind(l)
    PROVE  Marking'
<1>1. CASE FallsBehind(l)
  <2>1. /\ listing' \in [Listings -> Listing]
        /\ \A k \in Listings : listing'[k].marker = listing[k].marker
        /\ unshown' = unshown /\ worker' = worker
    BY <1>1 DEF FallsBehind, Marking, MarkerTypes, Listing
  <2> QED
    BY <2>1 DEF Marking, MarkerTypes, ChangesAreMarked, ClearIsEarned, Marked, WorkerAt, Key
<1>2. CASE Changes(l) \/ ChangeIsShown(l)
  <2>1. /\ worker' = Stamped(l, Nobody)
        /\ worker' \in [Workers -> Worker]
        /\ Nobody \notin Workers
        /\ \A v \in Workers :
              /\ worker'[v].pc = worker[v].pc
              /\ worker'[v].key = worker[v].key
              /\ worker'[v].mine => worker[v].mine /\ ~(Key(v) \in Keys /\ Key(v).listing = l)
    <3>1. Nobody \notin Workers
      BY CronAssumption, MaintenanceBounds DEF Nobody, Ticks
    <3>2. worker' = Stamped(l, Nobody)
      BY <1>2 DEF Changes, ChangeIsShown
    <3>3. NoKey \notin Keys
      BY DEF NoKey, Keys
    <3>4. \A v \in Workers : Key(v) \in Keys \cup {NoKey}
      BY DEF Marking, MarkerTypes, Worker, Key
    <3> QED
      BY <3>1, <3>2, <3>3, <3>4, Stamping
  <2>2. /\ listing' \in [Listings -> Listing]
        /\ unshown' \subseteq unshown \cup {l}
        /\ \A k \in Listings : k # l => listing'[k] = listing[k]
        /\ listing'[l].marker # "none" \/ l \notin unshown'
    BY <1>2 DEF Changes, ChangeIsShown, Marking, MarkerTypes, Listing
  <2>3. ChangesAreMarked'
    BY <2>2 DEF Marking, MarkerTypes, ChangesAreMarked, Marked
  <2>4. ClearIsEarned'
    <3> SUFFICES ASSUME NEW v \in Workers, WorkerAt(v, "clear")', worker'[v].mine
                 PROVE  Key(v)'.listing \notin unshown'
      BY DEF ClearIsEarned
    <3>1. /\ WorkerAt(v, "clear") /\ worker[v].mine /\ Key(v)' = Key(v)
          /\ ~(Key(v) \in Keys /\ Key(v).listing = l)
      BY <2>1 DEF WorkerAt, Key
    <3>2. Key(v) \in Keys /\ Key(v).listing \notin unshown
      BY <3>1 DEF Marking, MarkerTypes, ClearIsEarned, WorkerAt
    <3> QED
      BY <2>2, <3>1, <3>2
  <2> QED
    BY <2>1, <2>2, <2>3, <2>4 DEF Marking, MarkerTypes, WorkerAt, Key
<1> QED
  BY <1>1, <1>2

LEMMA PreparingKeepsMarking ==
    ASSUME Marking, NEW w \in Workers, Prepares(w)
    PROVE  Marking'
<1> DEFINE l == Key(w).listing
<1>1. Key(w) \in Keys /\ l \in Listings
  BY DEF Prepares, Marking, MarkerTypes, WorkerAt, Keys
<1> HIDE DEF l
<1>2. CASE /\ listing' = [listing EXCEPT ![l] = [version |-> "current", marker |-> "replay"]]
           /\ unshown' = unshown \cup {l}
           /\ worker' = [Stamped(l, w) EXCEPT ![w].pc = "refresh"]
  <2> DEFINE stamped == Stamped(l, w)
  <2>1. /\ stamped \in [Workers -> Worker]
        /\ \A v \in Workers :
              /\ stamped[v].pc = worker[v].pc
              /\ stamped[v].key = worker[v].key
              /\ v # w /\ Key(v) \in Keys /\ Key(v).listing = l => ~stamped[v].mine
              /\ v # w /\ ~(Key(v) # NoKey /\ Key(v).listing = l) => stamped[v].mine = worker[v].mine
    BY <1>1, Stamping
  <2> HIDE DEF stamped
  <2>2. /\ worker' \in [Workers -> Worker]
        /\ worker'[w].pc = "refresh" /\ worker'[w].key = worker[w].key
        /\ \A v \in Workers : v # w => worker'[v] = stamped[v]
    BY <1>2, <2>1 DEF stamped, Worker
  <2>3. MarkerTypes'
    BY <1>1, <1>2, <2>1, <2>2 DEF Marking, MarkerTypes, Listing, WorkerAt, Key
  <2>4. ChangesAreMarked'
    BY <1>1, <1>2 DEF Marking, MarkerTypes, ChangesAreMarked, Marked
  <2>5. ClearIsEarned'
    <3> SUFFICES ASSUME NEW v \in Workers, WorkerAt(v, "clear")', worker'[v].mine
                 PROVE  Key(v)'.listing \notin unshown'
      BY DEF ClearIsEarned
    <3>1. v # w /\ WorkerAt(v, "clear") /\ Key(v)' = Key(v) /\ stamped[v].mine
      BY <2>1, <2>2 DEF WorkerAt, Key
    <3>2. Key(v) \in Keys
      BY <3>1 DEF Marking, MarkerTypes, WorkerAt
    <3>3. Key(v).listing # l /\ worker[v].mine
      BY <2>1, <3>1, <3>2
    <3> QED
      BY <1>2, <3>1, <3>3 DEF Marking, ClearIsEarned
  <2> QED
    BY <2>3, <2>4, <2>5 DEF Marking
<1>3. CASE /\ listing' \in [Listings -> Listing]
           /\ \A k \in Listings : listing'[k].marker = listing[k].marker
           /\ unshown' = unshown
           /\ \E pc \in {"refresh", "resolve"} :
                worker' = [worker EXCEPT ![w].mine = Marked(l), ![w].pc = pc]
  <2>1. /\ worker' \in [Workers -> Worker]
        /\ worker'[w].pc # "clear" /\ worker'[w].key = worker[w].key
        /\ \A v \in Workers : v # w => worker'[v] = worker[v]
    <3>1. PICK pc \in {"refresh", "resolve"} :
              worker' = [worker EXCEPT ![w].mine = Marked(l), ![w].pc = pc]
      BY <1>3
    <3>2. PICK mine \in BOOLEAN : mine = Marked(l)
      BY DEF Marked
    <3>3. worker' = [worker EXCEPT ![w].mine = mine, ![w].pc = pc]
      BY <3>1, <3>2
    <3> QED
      BY <3>3 DEF Marking, MarkerTypes, Worker
  <2> QED
    BY <1>1, <1>3, <2>1
       DEF Marking, MarkerTypes, ChangesAreMarked, ClearIsEarned, Marked, WorkerAt, Key
<1>4. CASE /\ listing' = [listing EXCEPT ![l].version = "current"]
           /\ worker' = [worker EXCEPT ![w].mine = Marked(l),
                  ![w].pc = IF Marked(l) THEN "refresh" ELSE "resolve"]
           /\ unshown' = unshown
  <2>1. /\ listing' \in [Listings -> Listing]
        /\ \A k \in Listings : listing'[k].marker = listing[k].marker
    BY <1>1, <1>4 DEF Marking, MarkerTypes, Listing
  <2> QED
    BY <1>3, <1>4, <2>1
<1>5. CASE /\ worker' = [worker EXCEPT ![w].pc = "refresh", ![w].mine = Marked(l)]
           /\ listing' = listing /\ unshown' = unshown
  <2>1. worker' = [worker EXCEPT ![w].mine = Marked(l), ![w].pc = "refresh"]
    BY <1>5 DEF Marking, MarkerTypes, Worker
  <2> QED
    BY <1>3, <1>5, <2>1 DEF Marking, MarkerTypes
<1> QED
  BY <1>2, <1>4, <1>5 DEF Prepares, l

LEMMA RefreshKeepsMarking ==
    ASSUME Marking, NEW w \in Workers, Refreshes(w)
    PROVE  Marking'
<1>1. /\ Key(w) \in Keys
      /\ unshown' = unshown \ {Key(w).listing}
      /\ listing' = listing
      /\ worker' \in [Workers -> Worker]
      /\ \A v \in Workers : v # w => worker'[v] = worker[v]
      /\ worker'[w].key = worker[w].key
  BY DEF Refreshes, Moves, Marking, MarkerTypes, WorkerAt, Worker
<1> QED
  BY <1>1 DEF Marking, MarkerTypes, ChangesAreMarked, ClearIsEarned, Marked, WorkerAt, Key

LEMMA ClearKeepsMarking ==
    ASSUME Marking, NEW w \in Workers, Clears(w)
    PROVE  Marking'
<1> DEFINE l == Key(w).listing
<1>1. Key(w) \in Keys /\ l \in Listings
  BY DEF Clears, Marking, MarkerTypes, WorkerAt, Keys
<1>2. CASE ~MayClear(w)
  BY <1>2, MovesKeepMarking DEF Clears, WorkerAt
<1>3. CASE MayClear(w)
  <2>1. l \notin unshown
    BY <1>3 DEF Clears, MayClear, Marking, ClearIsEarned
  <2>2. /\ listing' = [listing EXCEPT ![l].marker = "none"]
        /\ worker' = [Stamped(l, Nobody) EXCEPT ![w].pc = "resolve"]
        /\ unshown' = unshown
    BY <1>3 DEF Clears
  <2> HIDE DEF l
  <2> DEFINE stamped == Stamped(l, Nobody)
  <2>3. /\ stamped \in [Workers -> Worker]
        /\ \A v \in Workers : /\ stamped[v].pc = worker[v].pc
                              /\ stamped[v].key = worker[v].key
                              /\ stamped[v].mine => worker[v].mine
    <3>1. Nobody \notin Workers
      BY CronAssumption, MaintenanceBounds DEF Nobody, Ticks
    <3>2. \A v \in Workers : Key(v) \in Keys \cup {NoKey}
      BY DEF Marking, MarkerTypes, Worker, Key
    <3> QED
      BY <1>1, <3>1, <3>2, Stamping
  <2> HIDE DEF stamped
  <2>4. /\ worker' \in [Workers -> Worker]
        /\ worker'[w].pc = "resolve" /\ worker'[w].key = worker[w].key
        /\ \A v \in Workers : v # w => worker'[v] = stamped[v]
    BY <2>2, <2>3 DEF stamped, Worker
  <2>5. /\ listing' \in [Listings -> Listing]
        /\ \A k \in Listings : k # l => listing'[k] = listing[k]
    BY <1>1, <2>2 DEF Marking, MarkerTypes, Listing
  <2>6. ChangesAreMarked'
    BY <2>1, <2>2, <2>5 DEF Marking, MarkerTypes, ChangesAreMarked, Marked
  <2>7. ClearIsEarned'
    BY <2>2, <2>3, <2>4 DEF Marking, ClearIsEarned, WorkerAt, Key
  <2> QED
    BY <1>1, <2>2, <2>3, <2>4, <2>5, <2>6, <2>7 DEF Marking, MarkerTypes, WorkerAt, Key
<1> QED
  BY <1>2, <1>3

\* A worker starts a job or ends it.
LEMMA JobsKeepMarking ==
    ASSUME Marking, NEW w \in Workers,
           Claims(w) \/ Resolves(w) \/ RetriesOrFails(w) \/ Abandons(w)
    PROVE  Marking'
<1>1. Resting \in Worker
  BY DEF Resting, Worker
<1>2. CASE Claims(w)
  <2>1. PICK k \in Keys :
            worker' = [worker EXCEPT ![w] =
                [pc |-> "prepare", key |-> k, own |-> TRUE, mine |-> FALSE, last |-> FALSE]]
    BY <1>2 DEF Claims
  <2>2. listing' = listing /\ unshown' = unshown
    BY <1>2 DEF Claims
  <2> QED
    BY <2>1, <2>2
       DEF Marking, MarkerTypes, Worker, ChangesAreMarked, ClearIsEarned, Marked, WorkerAt, Key
<1>3. CASE Resolves(w)
  <2>1. CASE Rests(w)
    <3>1. worker' = [worker EXCEPT ![w] = Resting] /\ listing' = listing /\ unshown' = unshown
      BY <1>3, <2>1 DEF Rests, Resolves
    <3>2. worker' \in [Workers -> Worker]
      BY <1>1, <3>1 DEF Marking, MarkerTypes
    <3> QED
      BY <3>1, <3>2, RestsKeepMarking DEF Marking, MarkerTypes
  <2>2. CASE worker' = [v \in Workers |-> IF v = w THEN Resting
                    ELSE IF Key(v) = Key(w) THEN [worker[v] EXCEPT !.own = FALSE] ELSE worker[v]]
    <3>1. ASSUME NEW v \in Workers
          PROVE  /\ worker'[v] \in Worker
                 /\ \/ worker'[v] = Resting
                    \/ /\ worker'[v].pc = worker[v].pc /\ worker'[v].key = worker[v].key
                       /\ worker'[v].mine = worker[v].mine
      <4>1. worker[v] \in Worker
        BY DEF Marking, MarkerTypes
      <4>2. \/ worker'[v] = Resting \/ worker'[v] = worker[v]
            \/ worker'[v] = [worker[v] EXCEPT !.own = FALSE]
        BY <2>2
      <4> QED
        BY <1>1, <4>1, <4>2 DEF Worker
    <3>2. worker' \in [Workers -> Worker]
      BY <2>2, <3>1
    <3> QED
      BY <1>3, <3>1, <3>2, RestsKeepMarking DEF Resolves
  <2> QED
    BY <1>3, <2>1, <2>2 DEF Resolves
<1>4. CASE RetriesOrFails(w) \/ Abandons(w)
  <2>1. worker' = [worker EXCEPT ![w] = Resting] /\ listing' = listing /\ unshown' = unshown
    BY <1>4 DEF RetriesOrFails, Abandons, Rests
  <2>2. worker' \in [Workers -> Worker]
    BY <1>1, <2>1 DEF Marking, MarkerTypes
  <2> QED
    BY <2>1, <2>2, RestsKeepMarking DEF Marking, MarkerTypes
<1> QED
  BY <1>2, <1>3, <1>4

LEMMA WorkerStepsKeepMarking ==
    ASSUME Marking, NEW w \in Workers, WorkerSteps(w) \/ JobThrows(w)
    PROVE  Marking'
<1>1. CASE JobThrows(w)
  BY <1>1, MovesKeepMarking DEF JobThrows, WorkerAt
<1>2. CASE ReadsAttempts(w)
  <2>1. PICK last \in BOOLEAN : worker' = [worker EXCEPT ![w].pc = "retry", ![w].last = last]
    <3>1. PICK last \in BOOLEAN :
              last = (worker[w].own /\ job[Key(w)].attempts >= job[Key(w)].max)
      OBVIOUS
    <3> QED
      BY <1>2, <3>1 DEF ReadsAttempts
  <2>2. /\ worker' \in [Workers -> Worker]
        /\ \A v \in Workers : v # w => worker'[v] = worker[v]
        /\ worker'[w].pc = "retry" /\ worker'[w].key = worker[w].key
    BY <2>1 DEF Marking, MarkerTypes, Worker
  <2>3. listing' = listing /\ unshown' = unshown /\ ~WorkerAt(w, "idle")
    BY <1>2 DEF ReadsAttempts, WorkerAt
  <2> QED
    BY <2>2, <2>3 DEF Marking, MarkerTypes, ChangesAreMarked, ClearIsEarned, Marked, WorkerAt, Key
<1> QED
  BY <1>1, <1>2, PreparingKeepsMarking, RefreshKeepsMarking, ClearKeepsMarking DEF WorkerSteps

LEMMA MarkingStep ==
    ASSUME Marking, [Next]_vars
    PROVE  Marking'
<1>1. CASE listing' = listing /\ unshown' = unshown /\ worker' = worker
  BY <1>1 DEF Marking, MarkerTypes, ChangesAreMarked, ClearIsEarned, Marked, WorkerAt, Key
<1>2. CASE UNCHANGED remediation
  BY <1>1, <1>2 DEF remediation
<1>3. Drain \in Workers /\ Ticks \subseteq Workers
  BY CronAssumption DEF Drain
<1>4. ASSUME NEW i \in Ticks, CronSteps(i)
      PROVE  Marking'
  <2>1. CASE TickSteps(i) /\ CronOnly
    BY <1>2, <2>1 DEF CronOnly
  <2>2. CASE TaskRuns(i)
    BY <1>2, <2>2 DEF TaskRuns, CronOnly
  <2>3. CASE Sweeps(i)
    BY <1>1, <1>3, <2>3, JobsKeepMarking, WorkerStepsKeepMarking
       DEF Sweeps, SweepSeeds, FindsNothing, remediation
  <2> QED
    BY <1>4, <2>1, <2>2, <2>3 DEF CronSteps
<1>5. ASSUME NEW i \in Ticks, BeginsNext(i) \/ Overlaps(i)
      PROVE  Marking'
  BY <1>2, <1>5 DEF BeginsNext, Overlaps, Begins
<1>6. ASSUME NEW i \in Ticks, SweepFails(i) \/ Yields(i) \/ Dies(i)
      PROVE  Marking'
  BY <1>2, <1>3, <1>6, JobsKeepMarking DEF SweepFails, Yields, Dies
<1>7. CASE DrainStarts
  BY <1>1, <1>3, <1>7, JobsKeepMarking DEF DrainStarts, SweepSeeds, Recovers
<1>8. CASE Drains \/ DrainDies
  BY <1>3, <1>8, JobsKeepMarking, WorkerStepsKeepMarking DEF Drains, DrainDies
<1>9. CASE \E w \in Workers : JobFails(w)
  BY <1>9, WorkerStepsKeepMarking DEF JobFails
<1>10. CASE \E k \in Keys : LeaseEnds(k) \/ SweepIsLate(k)
  BY <1>1, <1>10 DEF LeaseEnds, SweepIsLate, Lapses
<1>11. CASE \E l \in Listings : (FallsBehind(l) \/ Changes(l) \/ ChangeIsShown(l)) /\ QueueOnly
  BY <1>11, ChangesKeepMarking
<1>12. CASE UNCHANGED vars
  BY <1>2, <1>12 DEF vars
<1> QED
  BY <1>4, <1>5, <1>6, <1>7, <1>8, <1>9, <1>10, <1>11, <1>12 DEF Next

\* The marker of a change that is not shown is never cleared, by any sweep, the
\* drain or the writer of another change (clearProjectionPendingForToken).
THEOREM ChangesKeepTheirMarker == Spec => []ChangesAreMarked
<1>1. Init => Marking
  BY MarkingInit
<1>2. Marking /\ [Next]_vars => Marking'
  BY MarkingStep
<1>3. Marking => ChangesAreMarked
  BY DEF Marking
<1> QED
  BY <1>1, <1>2, <1>3, PTL DEF Spec

(***************************************************************************)
(* Types.                                                                  *)
(***************************************************************************)

\* An invocation that is not there refers to no time.
IdleIsTimeless == \A i \in Ticks : At(i, "idle") => tick[i].now = 0

QueueTyped ==
    /\ queue \in Seq(Keys) /\ Distinct(queue)
    /\ job \in [Keys -> Job]
    /\ \A k \in Keys :
        /\ job[k].attempts <= job[k].max
        /\ Contains(queue, k) <=> job[k].status \in {"pending", "processing"}

CountersTyped ==
    /\ changes \in 0..MaxChanges
    /\ poison \subseteq Listings
    /\ faults \in 0..MaxFaults

\* There are no more times than rows' two and the other invocations' one, so that
\* the next is in range.
LEMMA RanksAreBounded ==
    ASSUME MaintenanceBounds, MaintenanceTypeOK, NEW i \in Ticks, tick[i].now = 0
    PROVE  Now \in Ranks /\ \A n \in Nat : Rank(n) \in Ranks
<1> DEFINE dues == [t \in Tasks |-> row[t].due]
           claims == [t \in Tasks |-> row[t].claimed]
           others == Ticks \ {i}
           nows == [j \in others |-> tick[j].now]
           D == {dues[t] : t \in Tasks}
           C == {claims[t] : t \in Tasks}
           W == {nows[j] : j \in others}
           T == Cardinality(Tasks)
<1>1. /\ IsFiniteSet(Tasks) /\ IsFiniteSet(others) /\ T \in Nat /\ NumTicks \in Nat \ {0}
      /\ Cardinality(others) = NumTicks - 1
  <2>1. IsFiniteSet(Tasks) /\ T \in Nat /\ NumTicks \in Nat \ {0}
    BY FS_CardinalityType DEF MaintenanceBounds
  <2>2. IsFiniteSet(Ticks) /\ Cardinality(Ticks) = NumTicks
    <3>1. IsFiniteSet(1..NumTicks)
          /\ Cardinality(1..NumTicks) = IF 1 > NumTicks THEN 0 ELSE NumTicks - 1 + 1
      BY <2>1, FS_Interval
    <3>2. ~(1 > NumTicks) /\ NumTicks - 1 + 1 = NumTicks
      BY <2>1
    <3> QED
      BY <3>1, <3>2 DEF Ticks
  <2>3. IsFiniteSet(others) /\ Cardinality(others) = Cardinality(Ticks) - 1
    BY <2>2, FS_RemoveElement
  <2> QED
    BY <2>1, <2>2, <2>3
<1>2. /\ IsFiniteSet(D) /\ Cardinality(D) <= T /\ IsFiniteSet(C) /\ Cardinality(C) <= T
      /\ IsFiniteSet(W) /\ Cardinality(W) <= Cardinality(others)
  <2> HIDE DEF dues, claims, nows, others
  <2>1. /\ dues = [t \in Tasks |-> dues[t]]
        /\ claims = [t \in Tasks |-> claims[t]]
        /\ nows = [j \in others |-> nows[j]]
    BY DEF dues, claims, nows
  <2> QED
    BY <1>1, <2>1, ImageIsFinite
<1>3. Used \ {0} \subseteq (D \cup C) \cup W
  BY DEF Used
<1> HIDE DEF D, C, W, others, T
<1>4. /\ IsFiniteSet((D \cup C) \cup W)
      /\ Cardinality((D \cup C) \cup W) <= T + T + (NumTicks - 1)
  <2> DEFINE d == Cardinality(D)
             c == Cardinality(C)
             v == Cardinality(W)
             dc == Cardinality(D \cup C)
             dcw == Cardinality((D \cup C) \cup W)
  <2>1. /\ IsFiniteSet(D \cup C) /\ dc = d + c - Cardinality(D \cap C)
        /\ IsFiniteSet(D \cap C)
    BY <1>2, FS_Union, FS_Intersection
  <2>2. /\ IsFiniteSet((D \cup C) \cup W) /\ dcw = dc + v - Cardinality((D \cup C) \cap W)
        /\ IsFiniteSet((D \cup C) \cap W)
    <3> HIDE DEF dc
    <3> QED
      BY <1>2, <2>1, FS_Union, FS_Intersection DEF dc
  <2>3. /\ d \in Nat /\ c \in Nat /\ v \in Nat /\ dc \in Nat /\ dcw \in Nat
        /\ Cardinality(D \cap C) \in Nat /\ Cardinality((D \cup C) \cap W) \in Nat
    BY <1>2, <2>1, <2>2, FS_CardinalityType
  <2>4. d <= T /\ c <= T /\ v <= NumTicks - 1
    BY <1>1, <1>2
  <2> HIDE DEF d, c, v, dc, dcw
  <2>5. dc <= d + c /\ dcw <= dc + v
    BY <2>1, <2>2, <2>3
  <2>6. dcw <= T + T + (NumTicks - 1)
    BY <1>1, <2>3, <2>4, <2>5
  <2> QED
    BY <2>2, <2>6 DEF dcw
<1>5. /\ IsFiniteSet(Used \ {0}) /\ Cardinality(Used \ {0}) \in Nat
      /\ Cardinality(Used \ {0}) <= T + T + (NumTicks - 1)
  <2>1. /\ IsFiniteSet(Used \ {0}) /\ Cardinality(Used \ {0}) <= Cardinality((D \cup C) \cup W)
    BY <1>3, <1>4, FS_Subset
  <2>2. Cardinality((D \cup C) \cup W) \in Nat /\ Cardinality(Used \ {0}) \in Nat
    BY <1>4, <2>1, FS_CardinalityType
  <2> QED
    BY <1>1, <1>4, <2>1, <2>2
<1>6. Now \in Ranks
  BY <1>1, <1>5 DEF Now, Ranks, T
<1>7. ASSUME NEW n \in Nat
      PROVE  Rank(n) \in Ranks
  <2>1. {m \in Used : 0 < m /\ m <= n} \in SUBSET (Used \ {0})
    OBVIOUS
  <2>2. Rank(n) \in Nat /\ Rank(n) <= Cardinality(Used \ {0})
    BY <1>5, <2>1, FS_Subset, FS_CardinalityType DEF Rank
  <2> QED
    BY <1>1, <1>5, <2>2 DEF Ranks, T
<1> QED
  BY <1>6, <1>7

\* Of two tasks one was tried longer ago than the other.
LEMMA TurnsAreOrdered ==
    ASSUME NEW rows \in [Tasks -> Row], Tasks \subseteq Nat
    PROVE  /\ \A s, t \in Tasks : s # t =>
                \/ ByLastAttempt(rows[s], rows[t], s, t)
                \/ ByLastAttempt(rows[t], rows[s], t, s)
           /\ \A t \in Tasks : ~ByLastAttempt(rows[t], rows[t], t, t)
           /\ \A s, t, u \in Tasks :
                ByLastAttempt(rows[s], rows[t], s, t) /\ ByLastAttempt(rows[t], rows[u], t, u)
                    => ByLastAttempt(rows[s], rows[u], s, u)
<1>1. \A t \in Tasks : t \in Nat /\ rows[t].due \in Nat /\ rows[t].claimed \in Nat
  BY DEF Row
<1>2. \A s, t \in Tasks : s # t =>
                \/ ByLastAttempt(rows[s], rows[t], s, t)
                \/ ByLastAttempt(rows[t], rows[s], t, s)
  BY <1>1 DEF ByLastAttempt
<1>3. \A t \in Tasks : ~ByLastAttempt(rows[t], rows[t], t, t)
  BY <1>1 DEF ByLastAttempt
<1>4. ASSUME NEW s \in Tasks, NEW t \in Tasks, NEW u \in Tasks,
             ByLastAttempt(rows[s], rows[t], s, t), ByLastAttempt(rows[t], rows[u], t, u)
      PROVE  ByLastAttempt(rows[s], rows[u], s, u)
  BY <1>1, <1>4 DEF ByLastAttempt
<1> QED
  BY <1>2, <1>3, <1>4

\* The walk is over tasks.
LEMMA InTurnTypes ==
    ASSUME MaintenanceBounds, NEW rows \in [Tasks -> Row]
    PROVE  InTurn(rows) \in Seq(Tasks)
<1> DEFINE owed == {t \in Tasks : rows[t] # NoRow}
           Upto(t) == {s \in owed : s = t \/ ByLastAttempt(rows[s], rows[t], s, t)}
           Place(t) == Cardinality(Upto(t))
           N == Cardinality(owed)
           f == [t \in owed |-> Place(t)]
<1>1. IsFiniteSet(owed) /\ N \in Nat /\ owed \subseteq Tasks /\ Tasks \subseteq Nat
  BY FS_Subset, FS_CardinalityType DEF MaintenanceBounds
<1>2. \A t \in owed : IsFiniteSet(Upto(t)) /\ Place(t) \in Nat /\ Place(t) <= N /\ t \in Upto(t)
  <2>1. \A t \in owed : Upto(t) \in SUBSET owed /\ t \in Upto(t)
    OBVIOUS
  <2> HIDE DEF Upto
  <2> QED
    BY <1>1, <2>1, FS_Subset, FS_CardinalityType
<1>3. \A t \in owed : Place(t) \in 1..N
  <2>1. \A t \in owed : Place(t) # 0
    <3> HIDE DEF Upto
    <3> QED
      BY <1>2, FS_EmptySet
  <2> HIDE DEF Place, N, owed
  <2> TAKE t \in owed
  <2>2. N \in Nat /\ Place(t) \in Nat /\ Place(t) <= N /\ Place(t) # 0
    BY <1>1, <1>2, <2>1
  <2> QED
    BY <2>2
<1>4. ASSUME NEW s \in owed, NEW t \in owed, s # t, Place(s) = Place(t)
      PROVE  FALSE
  <2>1. ASSUME NEW a \in owed, NEW b \in owed, a # b, Place(a) = Place(b),
               ByLastAttempt(rows[a], rows[b], a, b)
        PROVE  FALSE
    <3>1. Upto(a) \subseteq Upto(b)
      BY <1>1, <2>1, TurnsAreOrdered
    <3>2. b \notin Upto(a)
      BY <1>1, <2>1, TurnsAreOrdered
    <3> HIDE DEF Upto
    <3> QED
      BY <1>2, <2>1, <3>1, <3>2, FS_Subset
  <2> HIDE DEF Place
  <2> QED
    BY <1>1, <1>4, <2>1, TurnsAreOrdered
<1>5. f \in Injection(owed, 1..N)
  <2> HIDE DEF Place, N, owed
  <2> QED
    BY <1>3, <1>4 DEF Injection, IsInjective
<1>6. f \in Surjection(owed, 1..N)
  <2>1. IsFiniteSet(1..N) /\ Cardinality(1..N) = N
    BY <1>1, FS_Interval
  <2> HIDE DEF f, owed
  <2> QED
    BY <1>5, <2>1, FS_Injection
<1>7. \A n \in 1..N : \E t \in owed : Place(t) = n
  <2>1. \A n \in 1..N : \E t \in owed : f[t] = n
    BY <1>6 DEF Surjection
  <2> QED
    BY <2>1
<1>8. InTurn(rows) = [n \in 1..N |-> CHOOSE t \in owed : Place(t) = n]
  BY DEF InTurn
<1> HIDE DEF owed, Place, N
<1>9. \A n \in 1..N : (CHOOSE t \in owed : Place(t) = n) \in Tasks
  BY <1>1, <1>7
<1> QED
  BY <1>1, <1>8, <1>9

CronTyped == MaintenanceTypeOK /\ IdleIsTimeless

Tick ==
    [pc : {"idle", "next", "run"}, now : Ranks, todo : Seq(Tasks), left : 0..WorkCalls]

\* A step that changes one invocation and leaves it with its tasks.
LEMMA TicksTyped ==
    ASSUME CronTyped, NEW i \in Ticks, NEW new \in Tick,
           new.pc = "idle" => new.now = 0,
           new.pc = "run" => new.todo # <<>>,
           tick' = [tick EXCEPT ![i] = new]
    PROVE  /\ tick' \in [Ticks -> Tick]
           /\ \A j \in Ticks : At(j, "run")' => tick'[j].todo # <<>>
           /\ IdleIsTimeless'
<1>1. /\ tick \in [Ticks -> Tick]
      /\ \A j \in Ticks : tick'[j] = IF j = i THEN new ELSE tick[j]
  BY DEF CronTyped, MaintenanceTypeOK, Tick
<1>2. tick' \in [Ticks -> Tick]
  BY <1>1
<1> QED
  BY <1>1, <1>2 DEF CronTyped, MaintenanceTypeOK, IdleIsTimeless, At

LEMMA ZeroIsARank ==
    ASSUME MaintenanceBounds
    PROVE  0 \in Ranks /\ Ranks \subseteq Nat
<1>1. Cardinality(Tasks) \in Nat /\ NumTicks \in Nat
  BY FS_CardinalityType DEF MaintenanceBounds
<1> QED
  BY <1>1 DEF Ranks

LEMMA CronInit == Init => CronTyped
<1> SUFFICES ASSUME Init
             PROVE  CronTyped
  OBVIOUS
<1>1. MaintenanceInit /\ 0 \in Ranks /\ WorkCalls \in Nat
  BY MaintenanceBounds, ZeroIsARank DEF Init, MaintenanceBounds
<1>2. row \in [Tasks -> [due : Ranks, claimed : Ranks, token : Ticks \cup {Over}]]
  BY <1>1 DEF MaintenanceInit, NoRow
<1>3. \A i \in Ticks : tick[i] = NoTick
  BY <1>1 DEF MaintenanceInit
<1>4. NoTick \in [pc : {"idle", "next", "run"}, now : Ranks, todo : Seq(Tasks), left : 0..WorkCalls]
  <2>1. <<>> \in Seq(Tasks) /\ 0 \in 0..WorkCalls
    BY <1>1
  <2> QED
    BY <1>1, <2>1 DEF NoTick
<1> QED
  BY <1>1, <1>2, <1>3, <1>4
     DEF CronTyped, MaintenanceTypeOK, MaintenanceInit, IdleIsTimeless, NoTick, At

\* The end of an invocation.
LEMMA EndsTyped ==
    ASSUME CronTyped, NEW i \in Ticks, Ends(i, row), parity' = parity, served' = served
    PROVE  CronTyped'
<1>1. NoTick \in Tick
  <2>1. <<>> \in Seq(Tasks) /\ 0 \in 0..WorkCalls /\ 0 \in Ranks
    BY MaintenanceBounds, ZeroIsARank DEF MaintenanceBounds
  <2> QED
    BY <2>1 DEF NoTick, Tick
<1>2. tick' = [tick EXCEPT ![i] = NoTick]
  BY DEF Ends
<1>3. /\ tick' \in [Ticks -> Tick]
      /\ \A j \in Ticks : At(j, "run")' => tick'[j].todo # <<>>
      /\ IdleIsTimeless'
  <2>1. NoTick.pc = "idle" /\ NoTick.now = 0
    BY DEF NoTick
  <2> HIDE DEF NoTick
  <2> QED
    BY <1>1, <1>2, <2>1, TicksTyped
<1>4. row' \in [Tasks -> [due : Ranks, claimed : Ranks, token : Ticks \cup {Over}]]
  BY DEF Ends, CronTyped, MaintenanceTypeOK
<1> QED
  BY <1>3, <1>4 DEF CronTyped, MaintenanceTypeOK, Tick

\* A tick writes down what is due, ranks the times and lists the tasks.
LEMMA BeginsTyped ==
    ASSUME CronTyped, NEW i \in Ticks, TickBegins(i)
    PROVE  CronTyped'
<1>1. tick[i].now = 0
  BY DEF TickBegins, CronTyped, IdleIsTimeless
<1>2. Now \in Ranks /\ \A n \in Nat : Rank(n) \in Ranks
  BY <1>1, MaintenanceBounds, RanksAreBounded DEF CronTyped
<1>3. 0 \in Ranks /\ Ranks \subseteq Nat
  BY MaintenanceBounds, ZeroIsARank
<1>4. Rank(0) = 0
  <2>1. {m \in Used : 0 < m /\ m <= 0} = {}
    <3>1. Used \subseteq Nat
      <4>1. /\ \A t \in Tasks : row[t].due \in Nat /\ row[t].claimed \in Nat
            /\ \A j \in Ticks : tick[j].now \in Nat
        BY <1>3 DEF CronTyped, MaintenanceTypeOK
      <4> QED
        BY <4>1 DEF Used
    <3>2. \A m \in Nat : ~(0 < m /\ m <= 0)
      OBVIOUS
    <3> QED
      BY <3>1, <3>2
  <2> QED
    BY <2>1, FS_EmptySet DEF Rank
<1>5. PICK rare \in SUBSET Rare :
        /\ row' = Enqueued(DueOn[parity] \cup rare)
        /\ tick' = [j \in Ticks |->
                IF j # i THEN [tick[j] EXCEPT !.now = Rank(@)]
                ELSE [pc |-> "next", now |-> Now, left |-> WorkCalls - 2,
                      todo |-> InTurn(row')]]
  BY DEF TickBegins
<1>6. row' \in [Tasks -> [due : Ranks, claimed : Ranks, token : Ticks \cup {Over}]]
  <2>1. ASSUME NEW t \in Tasks
        PROVE  row'[t] \in [due : Ranks, claimed : Ranks, token : Ticks \cup {Over}]
    <3>1. /\ row[t] \in [due : Ranks, claimed : Ranks, token : Ticks \cup {Over}]
          /\ row[t].due \in Nat /\ row[t].claimed \in Nat
      BY <1>3 DEF CronTyped, MaintenanceTypeOK
    <3>2. /\ Rank(row[t].due) \in Ranks /\ Rank(row[t].claimed) \in Ranks
          /\ row[t].token \in Ticks \cup {Over}
      BY <1>2, <3>1
    <3>3. \/ row'[t] = [due |-> Rank(row[t].due), claimed |-> Rank(row[t].claimed),
                         token |-> row[t].token]
          \/ row'[t] = [due |-> Now, claimed |-> 0, token |-> Over]
          \/ row'[t] = [due |-> 0, claimed |-> 0, token |-> Over]
      BY <1>5, <3>1 DEF Enqueued, NoRow
    <3> QED
      BY <1>2, <1>3, <3>2, <3>3
  <2> QED
    BY <1>5, <2>1 DEF Enqueued
<1>7. InTurn(row') \in Seq(Tasks)
  <2>1. row' \in [Tasks -> Row]
    BY <1>3, <1>6 DEF Row
  <2> QED
    BY <2>1, MaintenanceBounds, InTurnTypes
<1>8. ASSUME NEW j \in Ticks
      PROVE  /\ tick'[j] \in Tick
             /\ tick'[j].pc = "run" => tick'[j].todo # <<>>
             /\ tick'[j].pc = "idle" => tick'[j].now = 0
  <2>1. CASE j = i
    <3>1. tick'[j] = [pc |-> "next", now |-> Now, left |-> WorkCalls - 2, todo |-> InTurn(row')]
      BY <1>5, <2>1
    <3>2. WorkCalls - 2 \in 0..WorkCalls
      BY MaintenanceBounds DEF MaintenanceBounds
    <3> QED
      BY <1>2, <1>7, <3>1, <3>2 DEF Tick
  <2>2. CASE j # i
    <3>1. tick'[j] = [tick[j] EXCEPT !.now = Rank(tick[j].now)]
      BY <1>5, <2>2
    <3>2. /\ tick[j] \in Tick /\ tick[j].now \in Nat
          /\ tick[j].pc = "run" => tick[j].todo # <<>>
          /\ tick[j].pc = "idle" => tick[j].now = 0
      BY <1>3 DEF CronTyped, MaintenanceTypeOK, IdleIsTimeless, At, Tick
    <3>3. Rank(tick[j].now) \in Ranks
      BY <1>2, <3>2
    <3>4. /\ tick'[j] \in Tick /\ tick'[j].pc = tick[j].pc /\ tick'[j].todo = tick[j].todo
          /\ tick'[j].now = Rank(tick[j].now)
      BY <3>1, <3>2, <3>3 DEF Tick
    <3> QED
      BY <1>4, <3>2, <3>4
  <2> QED
    BY <2>1, <2>2
<1>9. tick' \in [Ticks -> Tick]
  BY <1>5, <1>8
<1>10. parity' \in 0..1 /\ served' \subseteq Tasks
  BY DEF TickBegins, CronTyped, MaintenanceTypeOK
<1> QED
  BY <1>6, <1>8, <1>9, <1>10 DEF CronTyped, MaintenanceTypeOK, IdleIsTimeless, At, Tick

\* The next task is claimed, or passed over.
LEMMA ClaimTyped ==
    ASSUME CronTyped, NEW i \in Ticks, TickClaims(i)
    PROVE  CronTyped'
<1> DEFINE old == tick[i]
<1>1. /\ old \in Tick /\ old.pc = "next" /\ old.todo \in Seq(Tasks) /\ old.todo # <<>>
      /\ old.left \in 0..WorkCalls /\ old.left > 0 /\ old.now \in Ranks /\ tick \in [Ticks -> Tick]
  BY DEF TickClaims, CronTyped, MaintenanceTypeOK, At, Tick
<1>2. Task(i) \in Tasks /\ Tail(old.todo) \in Seq(Tasks) /\ old.left - 1 \in 0..WorkCalls
  <2>1. Head(old.todo) \in Tasks /\ Tail(old.todo) \in Seq(Tasks)
    BY <1>1, TailDistinct
  <2>2. old.left - 1 \in 0..WorkCalls
    BY <1>1, MaintenanceBounds DEF MaintenanceBounds
  <2> QED
    BY <2>1, <2>2 DEF Task
<1>3. CASE Claimable(Task(i), tick[i].now)
  <2> DEFINE new == [pc |-> "run", now |-> old.now, todo |-> old.todo, left |-> old.left - 1]
  <2>1. /\ row' = [row EXCEPT ![Task(i)] =
                [due |-> row[Task(i)].due, claimed |-> tick[i].now, token |-> i]]
        /\ tick' = [tick EXCEPT ![i].pc = "run", ![i].left = @ - 1]
        /\ served' = served \ {Task(i)} /\ parity' = parity
    BY <1>3 DEF TickClaims
  <2>2. tick' = [tick EXCEPT ![i] = new] /\ new \in Tick
    BY <1>1, <1>2, <2>1 DEF Tick
  <2>3. /\ tick' \in [Ticks -> Tick]
        /\ \A j \in Ticks : At(j, "run")' => tick'[j].todo # <<>>
        /\ IdleIsTimeless'
    <3>1. new.pc = "run" /\ new.todo # <<>>
      BY <1>1
    <3> HIDE DEF new
    <3> QED
      BY <2>2, <3>1, TicksTyped
  <2>4. row' \in [Tasks -> [due : Ranks, claimed : Ranks, token : Ticks \cup {Over}]]
    BY <1>1, <1>2, <2>1 DEF CronTyped, MaintenanceTypeOK
  <2> QED
    BY <2>1, <2>3, <2>4 DEF CronTyped, MaintenanceTypeOK, Tick
<1>4. CASE ~Claimable(Task(i), tick[i].now)
  <2> DEFINE new == [pc |-> "next", now |-> old.now, todo |-> Tail(old.todo), left |-> old.left - 1]
  <2>1. /\ tick' = [tick EXCEPT ![i].todo = Tail(@), ![i].left = @ - 1]
        /\ row' = row /\ served' = served /\ parity' = parity
    BY <1>4 DEF TickClaims
  <2>2. tick' = [tick EXCEPT ![i] = new] /\ new \in Tick
    BY <1>1, <1>2, <2>1 DEF Tick
  <2>3. /\ tick' \in [Ticks -> Tick]
        /\ \A j \in Ticks : At(j, "run")' => tick'[j].todo # <<>>
        /\ IdleIsTimeless'
    <3>1. new.pc = "next"
      OBVIOUS
    <3> HIDE DEF new
    <3> QED
      BY <2>2, <3>1, TicksTyped
  <2> QED
    BY <2>1, <2>3 DEF CronTyped, MaintenanceTypeOK, Tick
<1> QED
  BY <1>3, <1>4

\* A task's run is over.
LEMMA TaskEndTyped ==
    ASSUME CronTyped, NEW i \in Ticks, NEW done \in BOOLEAN, TaskEnds(i, done)
    PROVE  CronTyped'
<1> DEFINE old == tick[i]
           Left(cost) == IF cost < old.left THEN old.left - cost ELSE 0
           New(cost) == [pc |-> "next", now |-> old.now, todo |-> Tail(old.todo), left |-> Left(cost)]
<1>1. /\ old \in Tick /\ old.todo \in Seq(Tasks) /\ old.todo # <<>>
      /\ old.left \in 0..WorkCalls /\ old.now \in Ranks
  BY DEF TaskEnds, CronTyped, MaintenanceTypeOK, At, Tick
<1>2. Task(i) \in Tasks /\ Tail(old.todo) \in Seq(Tasks)
  BY <1>1, TailDistinct DEF Task
<1>3. PICK cost \in Costs : tick' = [tick EXCEPT ![i] = New(cost)]
  BY DEF TaskEnds
<1>4. Left(cost) \in 0..WorkCalls
  <2>1. cost \in Nat /\ WorkCalls \in Nat
    BY MaintenanceBounds DEF MaintenanceBounds
  <2> QED
    BY <1>1, <2>1
<1>5. New(cost) \in Tick
  <2> HIDE DEF Left
  <2> QED
    BY <1>1, <1>2, <1>4 DEF Tick
<1>6. /\ tick' \in [Ticks -> Tick]
      /\ \A j \in Ticks : At(j, "run")' => tick'[j].todo # <<>>
      /\ IdleIsTimeless'
  <2>1. New(cost).pc = "next"
    OBVIOUS
  <2> HIDE DEF New
  <2> QED
    BY <1>3, <1>5, <2>1, TicksTyped
<1>7. row' \in [Tasks -> [due : Ranks, claimed : Ranks, token : Ticks \cup {Over}]]
  <2>1. NoRow \in [due : Ranks, claimed : Ranks, token : Ticks \cup {Over}]
    BY MaintenanceBounds, ZeroIsARank DEF NoRow
  <2>2. row' = row \/ row' = [row EXCEPT ![Task(i)] = NoRow]
    BY DEF TaskEnds
  <2> QED
    BY <2>1, <2>2 DEF CronTyped, MaintenanceTypeOK
<1>8. served' \subseteq Tasks /\ parity' \in 0..1
  BY <1>2 DEF TaskEnds, CronTyped, MaintenanceTypeOK
<1> QED
  BY <1>6, <1>7, <1>8 DEF CronTyped, MaintenanceTypeOK, Tick

LEMMA CronStep ==
    ASSUME CronTyped, [Next]_vars
    PROVE  CronTyped'
<1>1. CASE UNCHANGED maintenance
  BY <1>1 DEF maintenance, CronTyped, MaintenanceTypeOK, IdleIsTimeless, At
<1>2. ASSUME NEW i \in Ticks, CronSteps(i)
      PROVE  CronTyped'
  <2>1. CASE TickSteps(i)
    BY <2>1, EndsTyped, ClaimTyped DEF TickSteps, TickStops
  <2>2. CASE TaskRuns(i)
    BY <2>2, TaskEndTyped DEF TaskRuns
  <2>3. CASE Sweeps(i)
    BY <1>1, <2>3, TaskEndTyped DEF Sweeps
  <2> QED
    BY <1>2, <2>1, <2>2, <2>3 DEF CronSteps
<1>3. ASSUME NEW i \in Ticks, BeginsNext(i) \/ Overlaps(i)
      PROVE  CronTyped'
  BY <1>3, BeginsTyped DEF BeginsNext, Overlaps, Begins
<1>4. ASSUME NEW i \in Ticks, SweepFails(i) \/ Yields(i) \/ Dies(i)
      PROVE  CronTyped'
  <2>1. CASE SweepFails(i)
    BY <2>1, TaskEndTyped DEF SweepFails
  <2>2. CASE Yields(i) \/ Dies(i)
    BY <2>2, EndsTyped DEF Yields, Dies, TickYields, TickDies
  <2> QED
    BY <1>4, <2>1, <2>2
<1>5. CASE DrainStarts \/ Drains \/ DrainDies
  BY <1>1, <1>5 DEF DrainStarts, Drains, DrainDies, QueueOnly
<1>6. CASE \E w \in Workers : JobFails(w)
  BY <1>1, <1>6 DEF JobFails
<1>7. CASE \E k \in Keys : LeaseEnds(k) \/ SweepIsLate(k)
  BY <1>1, <1>7 DEF LeaseEnds, SweepIsLate, QueueOnly
<1>8. CASE \E l \in Listings : (FallsBehind(l) \/ Changes(l) \/ ChangeIsShown(l)) /\ QueueOnly
  BY <1>1, <1>8 DEF QueueOnly
<1>9. CASE UNCHANGED vars
  BY <1>1, <1>9 DEF vars
<1> QED
  BY <1>2, <1>3, <1>4, <1>5, <1>6, <1>7, <1>8, <1>9 DEF Next

Open == {"pending", "processing"}

\* The row of one job is rewritten, and the queue with it.
LEMMA JobRewritten ==
    ASSUME QueueTyped, NEW k \in Keys, job' \in [Keys -> Job],
           \A m \in Keys : m # k => job'[m] = job[m],
           job'[k].attempts <= job'[k].max,
           \/ queue' = queue /\ (job'[k].status \in Open <=> job[k].status \in Open)
           \/ queue' = Dequeued(k) /\ job'[k].status \notin Open
           \/ queue' = Append(Dequeued(k), k) /\ job'[k].status \in Open
    PROVE  QueueTyped'
<1>1. /\ queue \in Seq(Keys) /\ Distinct(queue) /\ job \in [Keys -> Job]
      /\ \A m \in Keys : job[m].attempts <= job[m].max
      /\ \A m \in Keys : Contains(queue, m) <=> job[m].status \in Open
  BY DEF QueueTyped, Open
<1>2. \A m \in Keys : job'[m] = IF m = k THEN job'[k] ELSE job[m]
  OBVIOUS
<1>3. /\ Dequeued(k) \in Seq(Keys) /\ Distinct(Dequeued(k))
      /\ \A m \in Keys : Contains(Dequeued(k), m) <=> Contains(queue, m) /\ m # k
      /\ ~Contains(Dequeued(k), k)
  <2>1. /\ Dequeued(k) \in Seq(Keys) /\ Distinct(Dequeued(k))
        /\ \A m : Contains(Dequeued(k), m) <=> Contains(queue, m) /\ m \in Keys \ {k}
    BY <1>1, AmongProperties DEF Dequeued
  <2> QED
    BY <2>1
<1> DEFINE q == Dequeued(k)
<1> HIDE DEF q
<1>4. /\ Append(q, k) \in Seq(Keys) /\ Distinct(Append(q, k))
      /\ \A m \in Keys : Contains(Append(q, k), m) <=> Contains(queue, m) \/ m = k
  <2>1. /\ Append(q, k) \in Seq(Keys) /\ Distinct(Append(q, k))
        /\ \A m : Contains(Append(q, k), m) <=> Contains(q, m) \/ m = k
    BY <1>3, AppendDistinct DEF q
  <2> QED
    BY <1>3, <2>1 DEF q
<1>5. /\ queue' \in Seq(Keys) /\ Distinct(queue')
      /\ \A m \in Keys : Contains(queue', m) <=> job'[m].status \in Open
  BY <1>1, <1>2, <1>3, <1>4 DEF q
<1>6. \A m \in Keys : job'[m].attempts <= job'[m].max
  BY <1>1, <1>2
<1> QED
  BY <1>2, <1>5, <1>6 DEF QueueTyped, Open

\* What a job's numbers can be.
LEMMA JobNumbers ==
    ASSUME QueueTyped, NEW k \in Keys
    PROVE  /\ job[k] \in Job /\ job[k].attempts <= job[k].max
           /\ job[k].attempts \in Nat /\ job[k].max \in Nat /\ MaxAttempts \in Nat \ {0}
           /\ job[k].attempts <= MaxAttempts + 1 /\ job[k].max <= MaxAttempts + 1
<1>1. MaxAttempts \in Nat \ {0} /\ job[k] \in Job /\ job[k].attempts <= job[k].max
  BY RemediationBounds DEF RemediationBounds, QueueTyped
<1>2. job[k].attempts \in 0..(MaxAttempts + 1) /\ job[k].max \in {0, MaxAttempts, MaxAttempts + 1}
  BY <1>1 DEF Job
<1> QED
  BY <1>1, <1>2

LEMMA QueueInit == Init => QueueTyped /\ CountersTyped
<1> SUFFICES ASSUME Init
             PROVE  QueueTyped /\ CountersTyped
  OBVIOUS
<1>1. RemediationInit /\ MaxAttempts \in Nat \ {0} /\ MaxChanges \in Nat
  BY RemediationBounds DEF Init, RemediationBounds
<1>2. queue \in Seq(Keys) /\ Distinct(queue) /\ \A k : ~Contains(queue, k)
  BY <1>1 DEF RemediationInit, Distinct, Contains
<1>3. NoJob \in Job /\ NoJob.attempts <= NoJob.max /\ NoJob.status = "none"
  BY <1>1 DEF NoJob, Job
<1>4. job = [k \in Keys |-> NoJob]
  BY <1>1 DEF RemediationInit
<1>5. QueueTyped
  <2> HIDE DEF NoJob
  <2> QED
    BY <1>2, <1>3, <1>4 DEF QueueTyped
<1>6. changes = 0 /\ poison \subseteq Listings
  BY <1>1 DEF RemediationInit
<1>7. Cardinality(poison) \in Nat
  BY <1>6, RemediationBounds, FS_Subset, FS_CardinalityType DEF RemediationBounds
<1>8. faults \in 0..MaxFaults
  BY <1>7, CronAssumption DEF Init, CronAssumption
<1> QED
  BY <1>1, <1>5, <1>6, <1>8 DEF CountersTyped

\* A sweep seeds jobs whose keys are free.
LEMMA SeedingTyped ==
    ASSUME QueueTyped, MarkerTypes, SeedsQueue
    PROVE  QueueTyped'
<1>1. \A k \in Seeds : k \in Keys /\ job[k].status = "none"
  BY DEF Seeds, Wanted, KeyFor, Keys, MarkerTypes, Listing
<1>2. IsFiniteSet(Seeds)
  <2> DEFINE types == {"derive", "rebuild"}
             versions == {"old", "current"}
             pairs == types \X Listings
             all == pairs \X versions
             f == [p \in all |-> [type |-> p[1][1], listing |-> p[1][2], version |-> p[2]]]
  <2>1. IsFiniteSet(types) /\ IsFiniteSet(versions) /\ IsFiniteSet(Listings)
    <3>1. /\ IsFiniteSet({"derive"} \cup {"rebuild"})
          /\ IsFiniteSet({"old"} \cup {"current"})
      BY FS_Singleton, FS_Union
    <3>2. types = {"derive"} \cup {"rebuild"} /\ versions = {"old"} \cup {"current"}
      OBVIOUS
    <3> QED
      BY <3>1, <3>2, RemediationBounds DEF RemediationBounds
  <2>2. IsFiniteSet(pairs)
    BY <2>1, FS_Product
  <2>3. IsFiniteSet(all)
    <3> HIDE DEF pairs
    <3> QED
      BY <2>1, <2>2, FS_Product
  <2>4. IsFiniteSet({f[p] : p \in all})
    <3>1. f = [p \in all |-> f[p]]
      OBVIOUS
    <3> HIDE DEF f, all
    <3> QED
      BY <2>3, <3>1, ImageIsFinite
  <2>5. Seeds \subseteq {f[p] : p \in all}
    <3>1. ASSUME NEW k \in Seeds
          PROVE  k \in {f[p] : p \in all}
      <4>1. k.type \in types /\ k.listing \in Listings /\ k.version \in versions
            /\ k = [type |-> k.type, listing |-> k.listing, version |-> k.version]
        BY <1>1, <3>1 DEF Keys
      <4>2. <<<<k.type, k.listing>>, k.version>> \in all
        BY <4>1
      <4>3. f[<<<<k.type, k.listing>>, k.version>>] = k
        BY <4>1, <4>2
      <4> HIDE DEF f, all
      <4> QED
        BY <4>2, <4>3
    <3> QED
      BY <3>1
  <2> QED
    BY <2>4, <2>5, FS_Subset
<1>3. /\ SetToSeq(Seeds) \in Seq(Keys) /\ Distinct(SetToSeq(Seeds))
      /\ \A k : Contains(SetToSeq(Seeds), k) <=> k \in Seeds
  <2>1. SetToSeq(Seeds) \in Seq(Seeds) /\ Seeds \subseteq Keys
    BY <1>1, <1>2, SetToSeqProperties
  <2>2. SetToSeq(Seeds) \in Seq(Keys)
    BY <2>1
  <2> QED
    BY <1>2, <2>2, SetToSeqProperties
<1>4. /\ queue \in Seq(Keys) /\ Distinct(queue) /\ job \in [Keys -> Job]
      /\ \A k \in Keys : job[k].attempts <= job[k].max
      /\ \A k \in Keys : Contains(queue, k) <=> job[k].status \in Open
  BY DEF QueueTyped, Open
<1>5. \A k : ~(Contains(queue, k) /\ Contains(SetToSeq(Seeds), k))
  BY <1>1, <1>3, <1>4 DEF Open
<1>6. /\ queue' \in Seq(Keys) /\ Distinct(queue')
      /\ \A k : Contains(queue', k) <=> Contains(queue, k) \/ k \in Seeds
  <2>1. queue' = queue \o SetToSeq(Seeds)
    BY DEF SeedsQueue
  <2> DEFINE new == SetToSeq(Seeds)
  <2> HIDE DEF new
  <2>2. /\ queue \o new \in Seq(Keys)
        /\ \A k : Contains(queue \o new, k) <=> Contains(queue, k) \/ Contains(new, k)
        /\ Distinct(queue \o new)
    BY <1>3, <1>4, <1>5, ConcatDistinct DEF new
  <2> QED
    BY <1>3, <2>1, <2>2 DEF new
<1>7. ASSUME NEW k \in Keys
      PROVE  /\ job'[k] \in Job /\ job'[k].attempts <= job'[k].max
             /\ job'[k].status \in Open <=> job[k].status \in Open \/ k \in Seeds
  <2>1. job'[k] = IF k \in Seeds
            THEN [status |-> "pending", attempts |-> 0, max |-> MaxAttempts, lapsed |-> FALSE]
            ELSE job[k]
    BY DEF SeedsQueue
  <2>2. MaxAttempts \in Nat /\ 0 <= MaxAttempts /\ 0 \in 0..(MaxAttempts + 1)
    BY RemediationBounds DEF RemediationBounds
  <2>3. CASE k \in Seeds
    BY <2>1, <2>2, <2>3 DEF Job, Open
  <2>4. CASE k \notin Seeds
    BY <1>4, <2>1, <2>4
  <2> QED
    BY <2>3, <2>4
<1>8. job' \in [Keys -> Job]
  BY <1>7 DEF SeedsQueue
<1> QED
  BY <1>4, <1>6, <1>7, <1>8 DEF QueueTyped, Open

\* What a worker, or a lease, does to a job's row.
LEMMA JobsTyped ==
    ASSUME QueueTyped, MarkerTypes, NEW w \in Workers,
           Claims(w) \/ Resolves(w) \/ RetriesOrFails(w)
    PROVE  QueueTyped'
<1>1. CASE UNCHANGED <<job, queue>>
  BY <1>1 DEF QueueTyped
<1>2. CASE Claims(w)
  <2>1. PICK k \in Keys :
            /\ CanClaim(k)
            /\ job' = [job EXCEPT
                    ![k].status = "processing", ![k].attempts = @ + 1, ![k].lapsed = FALSE]
    BY <1>2 DEF Claims, IsNext
  <2>2. /\ job[k].status \in Open /\ job[k].attempts < job[k].max
    BY <2>1 DEF CanClaim, Open
  <2>3. /\ job[k].attempts + 1 <= job[k].max
        /\ job[k].attempts + 1 \in 0..(MaxAttempts + 1)
    BY <2>2, JobNumbers
  <2>4. /\ job' \in [Keys -> Job]
        /\ \A m \in Keys : m # k => job'[m] = job[m]
        /\ job'[k].status = "processing" /\ job'[k].max = job[k].max
        /\ job'[k].attempts = job[k].attempts + 1
    BY <2>1, <2>3 DEF Job, QueueTyped
  <2>5. queue' = queue /\ job'[k].status \in Open /\ job'[k].attempts <= job'[k].max
    BY <1>2, <2>3, <2>4 DEF Claims, Open
  <2> QED
    BY <2>2, <2>4, <2>5, JobRewritten
<1>3. CASE Resolves(w)
  <2>1. CASE Processing(w)
    <3>1. /\ Key(w) \in Keys /\ job' = [job EXCEPT ![Key(w)] = NoJob]
          /\ queue' = Dequeued(Key(w))
      BY <1>3, <2>1 DEF Resolves, Released, MarkerTypes, WorkerAt
    <3>2. NoJob \in Job /\ NoJob.attempts <= NoJob.max /\ NoJob.status \notin Open
      BY RemediationBounds DEF RemediationBounds, NoJob, Job, Open
    <3> HIDE DEF NoJob
    <3>3. /\ job' \in [Keys -> Job] /\ job'[Key(w)] = NoJob
          /\ \A m \in Keys : m # Key(w) => job'[m] = job[m]
      BY <3>1, <3>2 DEF QueueTyped
    <3> QED
      BY <3>1, <3>2, <3>3, JobRewritten
  <2> QED
    BY <1>1, <1>3, <2>1 DEF Resolves
<1>4. CASE RetriesOrFails(w)
  <2>1. CASE Processing(w)
    <3> DEFINE k == Key(w)
               status == IF worker[w].last THEN "failed" ELSE "pending"
    <3>1. /\ k \in Keys
          /\ job' = [job EXCEPT ![k].lapsed = FALSE, ![k].status = status]
          /\ queue' = IF worker[w].last THEN Dequeued(k) ELSE Append(Dequeued(k), k)
      BY <1>4, <2>1 DEF RetriesOrFails, MarkerTypes, WorkerAt
    <3>2. /\ job[k].attempts <= job[k].max /\ status \in {"failed", "pending"}
      BY <3>1, JobNumbers
    <3>3. \/ queue' = Dequeued(k) /\ status \notin Open
          \/ queue' = Append(Dequeued(k), k) /\ status \in Open
      BY <3>1 DEF Open
    <3> HIDE DEF k, status
    <3>4. /\ job' \in [Keys -> Job]
          /\ \A m \in Keys : m # k => job'[m] = job[m]
          /\ job'[k].status = status /\ job'[k].max = job[k].max
          /\ job'[k].attempts = job[k].attempts
      BY <3>1, <3>2 DEF Job, QueueTyped
    <3> QED
      BY <3>1, <3>2, <3>3, <3>4, JobRewritten
  <2> QED
    BY <1>1, <1>4, <2>1 DEF RetriesOrFails
<1> QED
  BY <1>2, <1>3, <1>4

LEMMA LeasesTyped ==
    ASSUME QueueTyped, NEW k \in Keys, Lapses(k) \/ Recovers(k)
    PROVE  QueueTyped'
<1>1. job[k].attempts <= job[k].max /\ job[k].attempts <= MaxAttempts + 1
  BY JobNumbers
<1>2. CASE Lapses(k)
  <2>1. job' = [job EXCEPT ![k].lapsed = TRUE] /\ queue' = queue
    BY <1>2 DEF Lapses
  <2>2. /\ job' \in [Keys -> Job]
        /\ \A m \in Keys : m # k => job'[m] = job[m]
        /\ job'[k].status = job[k].status /\ job'[k].max = job[k].max
        /\ job'[k].attempts = job[k].attempts
    BY <2>1 DEF Job, QueueTyped
  <2> QED
    BY <1>1, <2>1, <2>2, JobRewritten
<1>3. CASE Recovers(k)
  <2>1. /\ job' = [job EXCEPT ![k].status = "pending", ![k].max = @ + 1, ![k].lapsed = FALSE]
        /\ job[k].max = MaxAttempts /\ queue' = Append(Dequeued(k), k)
    BY <1>3 DEF Recovers
  <2>2. /\ job' \in [Keys -> Job]
        /\ \A m \in Keys : m # k => job'[m] = job[m]
        /\ job'[k].status = "pending" /\ job'[k].max = MaxAttempts + 1
        /\ job'[k].attempts = job[k].attempts
    BY <2>1 DEF Job, QueueTyped
  <2>3. job'[k].status \in Open /\ job'[k].attempts <= job'[k].max
    BY <1>1, <2>2 DEF Open
  <2> QED
    BY <2>1, <2>2, <2>3, JobRewritten
<1> QED
  BY <1>2, <1>3

LEMMA QueueStep ==
    ASSUME QueueTyped, MarkerTypes, [Next]_vars
    PROVE  QueueTyped'
<1>1. CASE job' = job /\ queue' = queue
  BY <1>1 DEF QueueTyped
<1>2. CASE UNCHANGED remediation
  BY <1>1, <1>2 DEF remediation
<1>3. Drain \in Workers /\ Ticks \subseteq Workers
  BY CronAssumption DEF Drain
<1>4. ASSUME NEW w \in Workers, WorkerSteps(w) \/ Abandons(w) \/ JobThrows(w)
      PROVE  QueueTyped'
  BY <1>1, <1>4 DEF WorkerSteps, Prepares, Refreshes, Clears, ReadsAttempts, JobThrows, Abandons
<1>5. ASSUME NEW i \in Ticks, CronSteps(i)
      PROVE  QueueTyped'
  <2>1. CASE TickSteps(i) /\ CronOnly
    BY <1>2, <2>1 DEF CronOnly
  <2>2. CASE TaskRuns(i)
    BY <1>2, <2>2 DEF TaskRuns, CronOnly
  <2>3. CASE Sweeps(i)
    BY <1>2, <1>3, <1>4, <2>3, JobsTyped, SeedingTyped DEF Sweeps, SweepSeeds, FindsNothing
  <2> QED
    BY <1>5, <2>1, <2>2, <2>3 DEF CronSteps
<1>6. ASSUME NEW i \in Ticks, BeginsNext(i) \/ Overlaps(i)
      PROVE  QueueTyped'
  BY <1>2, <1>6 DEF BeginsNext, Overlaps, Begins
<1>7. ASSUME NEW i \in Ticks, SweepFails(i) \/ Yields(i) \/ Dies(i)
      PROVE  QueueTyped'
  BY <1>2, <1>3, <1>4, <1>7 DEF SweepFails, Yields, Dies
<1>8. CASE DrainStarts
  BY <1>3, <1>8, JobsTyped, SeedingTyped, LeasesTyped DEF DrainStarts, SweepSeeds
<1>9. CASE Drains \/ DrainDies
  BY <1>3, <1>4, <1>9, JobsTyped DEF Drains, DrainDies
<1>10. CASE \E w \in Workers : JobFails(w)
  BY <1>4, <1>10 DEF JobFails
<1>11. CASE \E k \in Keys : LeaseEnds(k) \/ SweepIsLate(k)
  BY <1>11, LeasesTyped DEF LeaseEnds, SweepIsLate
<1>12. CASE \E l \in Listings : (FallsBehind(l) \/ Changes(l) \/ ChangeIsShown(l)) /\ QueueOnly
  BY <1>1, <1>12 DEF FallsBehind, Changes, ChangeIsShown
<1>13. CASE UNCHANGED vars
  BY <1>2, <1>13 DEF vars
<1> QED
  BY <1>5, <1>6, <1>7, <1>8, <1>9, <1>10, <1>11, <1>12, <1>13 DEF Next

LEMMA CountersStep ==
    ASSUME CountersTyped, [Next]_vars
    PROVE  CountersTyped'
<1>1. MaxChanges \in Nat /\ MaxFaults \in Nat
  BY RemediationBounds, CronAssumption DEF RemediationBounds, CronAssumption
<1>2. poison' = poison
  BY DEF Next, CronSteps, TickSteps, TaskRuns, Sweeps, SweepSeeds, FindsNothing, Claims, Resolves,
         RetriesOrFails, WorkerSteps, Prepares, Refreshes, Clears, ReadsAttempts, JobThrows,
         BeginsNext, Overlaps, Begins, SweepFails, Yields, Dies, Abandons, DrainStarts, Drains, DrainDies,
         Recovers, JobFails, LeaseEnds, SweepIsLate, Lapses, FallsBehind, Changes, ChangeIsShown,
         CronOnly, QueueOnly, vars, remediation
<1>3. changes' = changes \/ (changes < MaxChanges /\ changes' = changes + 1)
  BY DEF Next, CronSteps, TickSteps, TaskRuns, Sweeps, SweepSeeds, FindsNothing, Claims, Resolves,
         RetriesOrFails, WorkerSteps, Prepares, Refreshes, Clears, ReadsAttempts, JobThrows,
         BeginsNext, Overlaps, Begins, SweepFails, Yields, Dies, Abandons, DrainStarts, Drains, DrainDies,
         Recovers, JobFails, LeaseEnds, SweepIsLate, Lapses, FallsBehind, Changes, ChangeIsShown,
         CronOnly, QueueOnly, vars, remediation
<1>4. faults' = faults \/ (faults < MaxFaults /\ faults' = faults + 1)
  BY DEF Next, CronSteps, TickSteps, TaskRuns, Sweeps, BeginsNext, Overlaps,
         SweepFails, Yields, Dies,
         DrainStarts, Drains, DrainDies, JobFails, LeaseEnds, SweepIsLate, Fault,
         CronOnly, QueueOnly, vars
<1>5. changes' \in 0..MaxChanges
  BY <1>1, <1>3 DEF CountersTyped
<1>6. faults' \in 0..MaxFaults
  BY <1>1, <1>4 DEF CountersTyped
<1> QED
  BY <1>2, <1>5, <1>6 DEF CountersTyped

IType == CronTyped /\ QueueTyped /\ CountersTyped /\ Marking

\* A walk is over tasks that are there, with calls that are in its budget; times are
\* ranks of those in use; a job is in the queue, once, exactly when its row is open,
\* and has not used more attempts than it has.
THEOREM TypeCorrect == Spec => []TypeOK
<1>1. Init => IType
  BY CronInit, QueueInit, MarkingInit DEF IType
<1>2. IType /\ [Next]_vars => IType'
  BY CronStep, QueueStep, CountersStep, MarkingStep DEF IType, Marking
<1>3. IType => TypeOK
  BY DEF IType, CronTyped, QueueTyped, CountersTyped, Marking, MarkerTypes,
         TypeOK, RemediationTypeOK
<1> QED
  BY <1>1, <1>2, <1>3, PTL DEF Spec

=============================================================================
