------------------------------ MODULE GeneralCron ------------------------------
(***************************************************************************)
(* The general cron and the remediation sweep it runs: PendingMaintenance  *)
(* decides when the sweep gets a turn, RemediationQueue what a turn does.  *)
(* Beside the cron, an administrator's drain works on the same queue.      *)
(***************************************************************************)
EXTENDS PendingMaintenance, RemediationQueue

CONSTANTS
    Sweep,          \* data_quality_remediation_sweep
    MaxFaults       \* errors, deaths, delays and poisoned listings

ASSUME CronAssumption ==
    /\ Sweep \in Tasks /\ Workers = Ticks \cup {NumTicks + 1} /\ MaxFaults \in Nat

Drain == NumTicks + 1

VARIABLE faults

vars == <<maintenance, remediation, faults>>

Init ==
    /\ MaintenanceInit /\ RemediationInit
    /\ faults = Cardinality(poison) /\ faults <= MaxFaults

TypeOK == MaintenanceTypeOK /\ RemediationTypeOK /\ faults \in 0..MaxFaults

Fault == faults < MaxFaults /\ faults' = faults + 1

CronOnly == UNCHANGED <<remediation, faults>>
QueueOnly == UNCHANGED <<maintenance, faults>>

\* A task that works, fails, or has a page left; the sweep ends otherwise.
TaskRuns(i) ==
    /\ At(i, "run") /\ Task(i) # Sweep
    /\ \E done \in BOOLEAN : TaskEnds(i, done)
    /\ CronOnly

\* runDataQualityRemediationSweep: one job, or none.
Sweeps(i) ==
    /\ Running(i, Sweep)
    /\ UNCHANGED faults
    /\ \/ (Claims(i) \/ SweepSeeds(i) \/ WorkerSteps(i)) /\ UNCHANGED maintenance
       \/ (FindsNothing(i) \/ Resolves(i) \/ RetriesOrFails(i)) /\ TaskEnds(i, TRUE)

\* The sweep's own statements throw, or those that write a job's failure: the
\* walk goes on.
SweepFails(i) ==
    /\ Running(i, Sweep) /\ TaskEnds(i, FALSE)
    /\ Fault
    /\ IF WorkerAt(i, "idle") THEN UNCHANGED remediation ELSE Abandons(i)

CronSteps(i) ==
    \/ TickSteps(i) /\ CronOnly
    \/ TaskRuns(i)
    \/ Sweeps(i)

Begins(i) == TickBegins(i) /\ UNCHANGED remediation

\* The drain, one job at a time.
DrainStarts ==
    /\ \/ SweepSeeds(Drain) \/ Claims(Drain)
       \/ \E k \in Keys : Recovers(k)
    /\ QueueOnly

Drains == (WorkerSteps(Drain) \/ Resolves(Drain) \/ RetriesOrFails(Drain)) /\ QueueOnly

\* A step of anyone's job throws; the drain ends without a word.
JobFails(w) == JobThrows(w) /\ Fault /\ UNCHANGED maintenance
DrainDies == Abandons(Drain) /\ Fault /\ UNCHANGED maintenance

\* A lease ends under a sweep or the drain, or when nobody is left to end the job.
HeldBySomeone(k) == \E w \in Workers : Holds(w, k)
SweepIsLate(k) == HeldBySomeone(k) /\ Lapses(k) /\ Fault /\ UNCHANGED maintenance
LeaseEnds(k) == ~HeldBySomeone(k) /\ Lapses(k) /\ QueueOnly

\* The invocation's budget is the tick's own: it ends with its sweep.
Yields(i) ==
    /\ TickYields(i)
    /\ IF Running(i, Sweep) THEN Fault ELSE UNCHANGED faults
    /\ IF WorkerAt(i, "idle") THEN UNCHANGED remediation ELSE Abandons(i)

Dies(i) ==
    /\ TickDies(i)
    /\ Fault
    /\ IF WorkerAt(i, "idle") THEN UNCHANGED remediation ELSE Abandons(i)

Overlaps(i) == ~Alone(i) /\ Begins(i) /\ Fault
BeginsNext(i) == Alone(i) /\ Begins(i) /\ UNCHANGED faults

Next ==
    \/ \E i \in Ticks : CronSteps(i) \/ BeginsNext(i) \/ Overlaps(i)
    \/ \E i \in Ticks : SweepFails(i) \/ Yields(i) \/ Dies(i)
    \/ DrainStarts \/ Drains \/ DrainDies
    \/ \E w \in Workers : JobFails(w)
    \/ \E k \in Keys : LeaseEnds(k) \/ SweepIsLate(k)
    \/ \E l \in Listings : (FallsBehind(l) \/ Changes(l) \/ ChangeIsShown(l)) /\ QueueOnly

Spec == Init /\ [][Next]_vars

\* A tick every five minutes, whose steps go on; leases end; the drain, when it
\* has a job, ends it or dies.
FairSpec ==
    /\ Spec
    /\ WF_vars(\E i \in Ticks : CronSteps(i) \/ BeginsNext(i))
    /\ WF_vars(\E k \in Keys : LeaseEnds(k))
    /\ WF_vars(Drains)

(***************************************************************************)
(* Properties.                                                             *)
(***************************************************************************)

\* Work whose latest run has not succeeded is still owed: a run that outlived
\* its lease does not delete the row of the run that took over.
FailedIsKept == \A t \in Tasks : t \notin served => Owed(t)

\* Every owed task gets its turn, however often the tasks before it fail or use
\* the invocation up: none is owed from some moment on without being run.
TasksAreTried ==
    \A t \in Tasks : []<>(~Owed(t) \/ \E i \in Ticks : Running(i, t))

\* A listing that fell behind, or whose change is not shown, is replayed by the
\* cron alone, unless its job was given up; then the job says so.
StaleIsServed == \A l \in Listings : []<>(\A k \in Wanted(l) : GivenUp(k))
================================================================================
