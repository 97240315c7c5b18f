------------------------- MODULE VerificationQueue -------------------------
(***************************************************************************)
(* Knowledge Catalog verification: review runs, their durable jobs in D1,  *)
(* the Queue messages that wake them, the consumers, the per-domain lease, *)
(* and the two maintenance tasks that open, watch and recover runs.        *)
(*                                                                         *)
(* Time is left out: a lease lapses, a retry becomes due and a cooldown    *)
(* ends at any moment.  A job that waits for a retry may or may not be due *)
(* when a consumer looks.  All targets share one manufacturer domain, the  *)
(* case the lease exists for.                                              *)
(***************************************************************************)
EXTENDS Integers, FiniteSets

CONSTANTS
    Consumers,      \* queue consumer invocations
    Targets,        \* candidates a run may select
    Finalizer,      \* the finalizer's job, not a target
    MaxRun,         \* bound: review runs opened
    MaxJobs,        \* jobs one wake-up may process
    MaxSource,      \* source attempts of a job
    MaxDelivery,    \* delivery attempts after which an error is final
    MaxWakes,       \* bound: wake-ups of one run in the queue
    MaxFaults,      \* bound: crashes, duplicated and dead-lettered messages
    Overrun,        \* a consumer may outlive its leases
    NewVersion      \* the deployed verifier's version has not been rolled out

ASSUME BoundAssumption ==
    /\ MaxRun \in Nat \ {0} /\ MaxJobs \in Nat \ {0}
    /\ MaxSource \in Nat \ {0} /\ MaxDelivery \in Nat \ {0}
    /\ MaxWakes \in Nat \ {0} /\ MaxFaults \in Nat
ASSUME FlagAssumption == {Overrun, NewVersion} \subseteq BOOLEAN
ASSUME FinalizerAssumption == Finalizer \notin Targets

VARIABLES
    run,        \* knowledge_catalog_review_runs: status and the run it recovers
    job,        \* knowledge_catalog_verification_jobs
    versioned,  \* runs whose finalizer's payload carries the rollout's version
    domain,     \* the domain's lease: its job, and whether it is unexpired
    rollout,    \* knowledge_catalog_verifier_state of the deployed version
    wakes,      \* wake-ups of each run in the queue
    dead,       \* runs with a wake-up in the dead-letter queue
    consumer,   \* queue consumer invocations
    task,       \* the two maintenance tasks that dispatch runs
    daily,      \* the run of the day's dispatch key, 0 before it is claimed
    faults,
    overran     \* history: some consumer has outlived a lease

vars == <<run, job, versioned, domain, rollout, wakes, dead, consumer, task, daily,
          faults, overran>>
history == <<faults, overran>>
queue == <<wakes, dead>>
control == <<task, daily, rollout, versioned>>

Runs == 1..MaxRun
Jobs == Targets \cup {Finalizer}
Tasks == {"daily", "bootstrap"}

Waiting == {"queued", "retrying"}
Live == Waiting \cup {"processing"}
\* "abandoned" is a dead letter written by the recovery of a failed run.
Terminal == {"completed", "dead", "abandoned"}

NoJob == [status |-> "none", delivery |-> 0, source |-> 0, lapsed |-> FALSE]
Fresh == [status |-> "queued", delivery |-> 0, source |-> 0, lapsed |-> FALSE]
NoRun == [status |-> "none", of |-> 0]
Unheld == [run |-> 0, job |-> Finalizer, live |-> FALSE]
Free == [pc |-> "idle", run |-> 0, job |-> Finalizer, done |-> 0, source |-> 0, last |-> FALSE]
Slice(r, done) ==
    [pc |-> "claim", run |-> r, job |-> Finalizer, done |-> done, source |-> 0, last |-> FALSE]
Asleep == [pc |-> "idle", run |-> 0, version |-> FALSE]

JobRows ==
    [status: {"none"} \cup Live \cup Terminal, delivery: 0..MaxDelivery,
     source: 0..MaxSource, lapsed: BOOLEAN]
ConsumerStates ==
    [pc: {"idle", "claim", "domain", "request", "answered", "deferred", "errored", "failing",
          "final", "finish", "version", "close", "failrun", "failversion"},
     run: 0..MaxRun, job: Jobs, done: 0..MaxJobs, source: 0..MaxSource, last: BOOLEAN]
TaskStates ==
    [pc: {"idle", "open", "seal", "wake", "recover", "abandon", "adopt", "done"},
     run: 0..MaxRun, version: BOOLEAN]

Init ==
    /\ run = [r \in Runs |-> NoRun]
    /\ job = [r \in Runs |-> [k \in Jobs |-> NoJob]]
    /\ versioned = {}
    /\ domain = Unheld
    /\ rollout = IF NewVersion THEN "none" ELSE "success"
    /\ wakes = [r \in Runs |-> 0] /\ dead = {}
    /\ consumer = [c \in Consumers |-> Free]
    /\ task = [t \in Tasks |-> Asleep]
    /\ daily = 0
    /\ faults = 0 /\ overran = FALSE

Lesser(a, b) == IF a < b THEN a ELSE b
Fault == faults < MaxFaults /\ faults' = faults + 1 /\ UNCHANGED overran

-----------------------------------------------------------------------------
(* Reads of the job table.                                                 *)

Outstanding(r) == \E k \in Jobs : job[r][k].status \in Live
LiveTargets(r) == {t \in Targets : job[r][t].status \in Live}
IsSealed(r) == job[r][Finalizer].status # "none"
Opened == {r \in Runs : run[r].status # "none"}
Running == {r \in Runs : run[r].status = "running"}
NextRun == Cardinality(Opened) + 1

\* Mutant: the domain is not looked at.
DomainUnchecked(r, k) == TRUE

\* The lease holder is never delayed by its own lease.
DomainOpen(r, k) == ~domain.live \/ (domain.run = r /\ domain.job = k)

\* The finalizer waits behind every live target.
GateOpen(r, k) == k # Finalizer \/ LiveTargets(r) = {}

Claimable(row) == row.status \in Waiting \/ (row.status = "processing" /\ row.lapsed)

\* What a consumer is sure to find: a retry may not be due yet.
SurelyDue(row) == row.status = "queued" \/ (row.status = "processing" /\ row.lapsed)

\* A retry's delay, minutes long, outlasts the release of the domain after it.
Releasing(r, k) ==
    \E c \in Consumers :
        consumer[c].pc = "deferred" /\ consumer[c].run = r /\ consumer[c].job = k

\* claimNextKnowledgeCatalogVerificationJobForRun picks among these.
Eligible(r, k) ==
    GateOpen(r, k) /\ (k = Finalizer \/ DomainOpen(r, k)) /\ ~Releasing(r, k)

-----------------------------------------------------------------------------
(* Writes of one job row, each with the condition of its UPDATE.           *)

Write(r, k, row) == job' = [job EXCEPT ![r][k] = row]

Claimed(row) ==
    [row EXCEPT !.status = "processing", !.lapsed = FALSE,
                !.delivery = Lesser(@ + 1, MaxDelivery)]

\* Mutants: the lease outlives the retry; a retry whatever the job's status.
RetriedKeepsLease(row) ==
    IF row.status = "processing" THEN [row EXCEPT !.status = "retrying"] ELSE row
RetriedAnyway(row) == [row EXCEPT !.status = "retrying", !.lapsed = FALSE]

\* retryKnowledgeCatalogVerificationJob: only a job in process.
Retried(row) ==
    IF row.status = "processing"
    THEN [row EXCEPT !.status = "retrying", !.lapsed = FALSE] ELSE row

\* The two settlements go by the job's id alone.
Completed(row) == [row EXCEPT !.status = "completed", !.lapsed = FALSE]
DeadLettered(row) == [row EXCEPT !.status = "dead", !.lapsed = FALSE]

Attempted(row) ==
    IF row.status = "processing"
    THEN [row EXCEPT !.source = Lesser(@ + 1, MaxSource)] ELSE row

-----------------------------------------------------------------------------
(* A consumer.                                                             *)

Goes(c, pc) == consumer' = [consumer EXCEPT ![c].pc = pc]
Stops(c) == consumer' = [consumer EXCEPT ![c] = Free]
Sent(r) == wakes' = [wakes EXCEPT ![r] = Lesser(@ + 1, MaxWakes)]

Takes(c, k) ==
    LET r == consumer[c].run IN
    /\ Write(r, k, Claimed(job[r][k]))
    /\ consumer' = [consumer EXCEPT
           ![c].pc = IF k = Finalizer THEN "final" ELSE "domain", ![c].job = k,
           ![c].last = (Claimed(job[r][k]).delivery >= MaxDelivery)]

\* consumeKnowledgeCatalogRunWakeMessage: the message is in flight until acked.
WakeTaken(c, r) ==
    /\ consumer[c].pc = "idle" /\ wakes[r] > 0
    /\ wakes' = [wakes EXCEPT ![r] = @ - 1]
    /\ consumer' = [consumer EXCEPT ![c] = Slice(r, 0)]
    /\ UNCHANGED <<run, job, versioned, domain, rollout, dead, task, daily, history>>

ClaimNext(c, k) ==
    LET r == consumer[c].run IN
    /\ consumer[c].pc = "claim" /\ consumer[c].done < MaxJobs
    /\ Claimable(job[r][k]) /\ Eligible(r, k)
    /\ Takes(c, k)
    /\ UNCHANGED <<run, domain, queue, control, history>>

\* The slice ends on its budget, or when nothing can be claimed now.  Live work
\* sends the next wake-up before this one is acknowledged.
SliceEnds(c) ==
    LET r == consumer[c].run IN
    /\ consumer[c].pc = "claim"
    /\ \/ consumer[c].done > 0
       \/ ~\E k \in Jobs : SurelyDue(job[r][k]) /\ Eligible(r, k)
    /\ IF Outstanding(r) THEN Sent(r) ELSE UNCHANGED wakes
    /\ Stops(c)
    /\ UNCHANGED <<run, job, domain, dead, control, history>>

\* After a job the slice goes on.
After(c) ==
    consumer' = [consumer EXCEPT ![c] = Slice(consumer[c].run, consumer[c].done + 1)]

\* consumeSourceJob: the lease, then the source attempt, then the request.
DomainAcquired(c) ==
    LET r == consumer[c].run  k == consumer[c].job IN
    /\ consumer[c].pc = "domain" /\ DomainOpen(r, k)
    /\ domain' = [run |-> r, job |-> k, live |-> TRUE]
    /\ Write(r, k, Attempted(job[r][k]))
    /\ consumer' = [consumer EXCEPT ![c].pc = "request",
                                    ![c].source = Attempted(job[r][k]).source]
    /\ UNCHANGED <<run, queue, control, history>>

DomainBusy(c) ==
    LET r == consumer[c].run  k == consumer[c].job IN
    /\ consumer[c].pc = "domain" /\ ~DomainOpen(r, k)
    /\ Write(r, k, Retried(job[r][k]))
    /\ After(c)
    /\ UNCHANGED <<run, domain, wakes, dead, control, history>>

\* The site answers: a conclusion, or a failure that may be retried.
Answered(c, transient) ==
    LET r == consumer[c].run  k == consumer[c].job
        retries == transient /\ consumer[c].source < MaxSource IN
    /\ consumer[c].pc = "request"
    /\ Write(r, k, IF retries THEN Retried(job[r][k]) ELSE Completed(job[r][k]))
    /\ Goes(c, IF retries THEN "deferred" ELSE "answered")
    /\ UNCHANGED <<run, domain, queue, control, history>>

\* The finally clause: the domain is handed to its cooldown, if it is still this
\* job's; an error then reaches the handler.
DomainReleased(c) ==
    LET r == consumer[c].run  k == consumer[c].job IN
    /\ consumer[c].pc \in {"answered", "deferred", "errored"}
    /\ domain' = IF domain.run = r /\ domain.job = k
                 THEN [run |-> 0, job |-> Finalizer, live |-> TRUE] ELSE domain
    /\ IF consumer[c].pc = "errored"
       THEN Goes(c, "failing") ELSE After(c)
    /\ UNCHANGED <<run, job, wakes, dead, control, history>>

\* Any call of the job throws.
Throws(c) ==
    /\ consumer[c].pc \in {"domain", "request", "final", "finish", "version", "close"}
    /\ Goes(c, IF consumer[c].pc = "request" THEN "errored" ELSE "failing")
    /\ UNCHANGED <<run, job, domain, queue, control, history>>

ErrorRetried(c) ==
    LET r == consumer[c].run  k == consumer[c].job IN
    /\ consumer[c].pc = "failing" /\ ~consumer[c].last
    /\ Write(r, k, Retried(job[r][k]))
    /\ After(c)
    /\ UNCHANGED <<run, domain, wakes, dead, control, history>>

ErrorExhausted(c) ==
    LET r == consumer[c].run  k == consumer[c].job IN
    /\ consumer[c].pc = "failing" /\ consumer[c].last
    /\ Write(r, k, DeadLettered(job[r][k]))
    /\ IF k = Finalizer THEN Goes(c, "failrun") ELSE After(c)
    /\ UNCHANGED <<run, domain, wakes, dead, control, history>>

\* finishKnowledgeCatalogReviewRunSuccess and -Failure close a running run only.
Closes(r, status) ==
    run' = [run EXCEPT ![r].status = IF @ = "running" THEN status ELSE @]

RunFailed(c) ==
    /\ consumer[c].pc = "failrun"
    /\ Closes(consumer[c].run, "failed")
    /\ IF consumer[c].run \in versioned THEN Goes(c, "failversion") ELSE After(c)
    /\ UNCHANGED <<job, domain, wakes, dead, control, history>>

VersionFailed(c) ==
    /\ consumer[c].pc = "failversion"
    /\ rollout' = "failed"
    /\ After(c)
    /\ UNCHANGED <<run, job, versioned, domain, wakes, dead, task, daily, history>>

-----------------------------------------------------------------------------
(* finalizeKnowledgeCatalogVerificationRun.                                *)

FinalizerChecks(c) ==
    LET r == consumer[c].run IN
    /\ consumer[c].pc = "final"
    /\ \/ run[r].status # "running" /\ Goes(c, "close") /\ UNCHANGED <<job>>
       \/ /\ run[r].status = "running" /\ LiveTargets(r) = {}
          /\ Goes(c, "finish") /\ UNCHANGED <<job>>
       \/ /\ run[r].status = "running" /\ LiveTargets(r) # {}
          /\ Write(r, Finalizer, Retried(job[r][Finalizer]))
          /\ After(c)
    /\ UNCHANGED <<run, domain, wakes, dead, control, history>>

\* After convergence, replay and reclassification the run is closed; only the
\* finalizer that closed it may close the rollout.
RunFinished(c) ==
    LET r == consumer[c].run IN
    /\ consumer[c].pc = "finish"
    /\ Closes(r, "success")
    /\ Goes(c, IF run[r].status = "running" /\ r \in versioned THEN "version" ELSE "close")
    /\ UNCHANGED <<job, domain, queue, control, history>>

VersionFinished(c) ==
    /\ consumer[c].pc = "version"
    /\ rollout' = "success"
    /\ Goes(c, "close")
    /\ UNCHANGED <<run, job, versioned, domain, queue, task, daily, history>>

FinalizerCompleted(c) ==
    LET r == consumer[c].run IN
    /\ consumer[c].pc = "close"
    /\ Write(r, Finalizer, Completed(job[r][Finalizer]))
    /\ After(c)
    /\ UNCHANGED <<run, domain, wakes, dead, control, history>>

-----------------------------------------------------------------------------
(* Faults of the queue and of its consumers, and the passage of time.      *)

Works(c, r, k) ==
    /\ consumer[c].pc \notin {"idle", "claim"}
    /\ consumer[c].run = r /\ consumer[c].job = k

\* An invocation is lost; its message is delivered again.
Crash(c) ==
    /\ Fault /\ consumer[c].pc # "idle"
    /\ Sent(consumer[c].run)
    /\ Stops(c)
    /\ UNCHANGED <<run, job, domain, dead, control>>

Duplicated(r) ==
    /\ Fault /\ wakes[r] > 0 /\ Sent(r)
    /\ UNCHANGED <<run, job, domain, dead, control, consumer>>

\* Deliveries exhausted: the message moves to the dead-letter queue.
WakeDies(r) ==
    /\ Fault /\ wakes[r] > 0
    /\ wakes' = [wakes EXCEPT ![r] = @ - 1]
    /\ dead' = dead \cup {r}
    /\ UNCHANGED <<run, job, domain, control, consumer>>

\* recoverDeadLetteredKnowledgeCatalogRunWake: the message owns no work, so it
\* fails nothing; a send that is refused leaves the run to the watchdog.
DeadWakeHandled(r) ==
    /\ r \in dead /\ dead' = dead \ {r}
    /\ \/ run[r].status = "running" /\ Outstanding(r) /\ Sent(r) /\ UNCHANGED history
       \/ ~(run[r].status = "running" /\ Outstanding(r)) /\ UNCHANGED <<wakes, history>>
       \/ Fault /\ UNCHANGED wakes
    /\ UNCHANGED <<run, job, domain, control, consumer>>

Outlived(r, k) == overran' = (overran \/ \E c \in Consumers : Works(c, r, k))

LeaseLapses(r, k) ==
    /\ job[r][k].status = "processing" /\ ~job[r][k].lapsed
    /\ Overrun \/ ~\E c \in Consumers : Works(c, r, k)
    /\ Write(r, k, [job[r][k] EXCEPT !.lapsed = TRUE])
    /\ Outlived(r, k)
    /\ UNCHANGED <<run, domain, queue, control, consumer, faults>>

DomainLapses ==
    /\ domain.live
    /\ Overrun \/ ~\E c \in Consumers : Works(c, domain.run, domain.job)
    /\ domain' = IF \E c \in Consumers : Works(c, domain.run, domain.job)
                 THEN [domain EXCEPT !.live = FALSE] ELSE Unheld
    /\ Outlived(domain.run, domain.job)
    /\ UNCHANGED <<run, job, queue, control, consumer, faults>>

-----------------------------------------------------------------------------
(* Dispatching a run: dispatchKnowledgeCatalogVerificationRun.             *)

\* One general cron runs the maintenance tasks that are due, one after another.
RunnerFree == \A t \in Tasks : task[t].pc \in {"idle", "done"}

TaskGoes(t, pc, r) == task' = [task EXCEPT ![t].pc = pc, ![t].run = r]
TaskEnds(t, pc) == task' = [task EXCEPT ![t] = [pc |-> pc, run |-> 0, version |-> FALSE]]
Opens(r, of) == run' = [run EXCEPT ![r] = [status |-> "running", of |-> of]]
\* The daily dispatch claims the run of its key, which a retry finds again.
DailyBegins ==
    /\ RunnerFree /\ task["daily"].pc = "idle"
    /\ IF daily = 0
       THEN /\ NextRun \in Runs /\ Opens(NextRun, 0) /\ daily' = NextRun
            /\ TaskGoes("daily", "seal", NextRun)
       ELSE /\ run[daily].status = "running" /\ ~IsSealed(daily)
            /\ TaskGoes("daily", "seal", daily)
            /\ UNCHANGED <<run, daily>>
    /\ UNCHANGED <<job, versioned, domain, rollout, queue, consumer, history>>

\* A retry that finds the run sealed sends its wake-up again.
DailyResumes ==
    /\ RunnerFree /\ task["daily"].pc = "idle" /\ daily # 0
    /\ run[daily].status = "running" /\ IsSealed(daily)
    /\ TaskGoes("daily", "wake", daily)
    /\ UNCHANGED <<run, job, versioned, domain, rollout, queue, consumer, daily, history>>

\* All targets and the finalizer in one batch, unless another dispatcher sealed.
RunSealed(t, targets) ==
    LET r == task[t].run IN
    /\ task[t].pc = "seal"
    /\ IF IsSealed(r)
       THEN UNCHANGED <<job, versioned>>
       ELSE /\ job' = [job EXCEPT ![r] =
                 [k \in Jobs |-> IF k \in targets \cup {Finalizer} THEN Fresh ELSE NoJob]]
            /\ versioned' = IF task[t].version
                            THEN versioned \cup {r} ELSE versioned
    /\ TaskGoes(t, "wake", r)
    /\ UNCHANGED <<run, domain, rollout, queue, consumer, daily, history>>

\* The wake-up is sent; the day's task is then complete.
RunWoken(t) ==
    /\ task[t].pc = "wake"
    /\ Sent(task[t].run)
    /\ TaskEnds(t, IF t = "daily" THEN "done" ELSE "idle")
    /\ UNCHANGED <<run, job, versioned, domain, rollout, dead, consumer, daily, history>>

\* The invocation is lost, or yields to its D1 budget, at any call; or only the
\* task's completion is lost.
TaskStops(t) ==
    /\ Fault /\ task[t].pc # "idle"
    /\ TaskEnds(t, "idle")
    /\ UNCHANGED <<run, job, versioned, domain, rollout, queue, consumer, daily>>

-----------------------------------------------------------------------------
(* bootstrapKnowledgeCatalogReview.                                        *)

\* Mutant: the last row, whatever its status.
LastOpened(r) == r = Cardinality(Opened)

\* latestKnowledgeCatalogReviewRunState: a running run before a newer closed one.
IsLatest(r) ==
    IF Running # {} THEN r \in Running /\ \A s \in Running : s <= r
    ELSE r = Cardinality(Opened)

LatestIf(status) == {r \in Runs : IsLatest(r) /\ run[r].status = status}

\* A rollout that never finished keeps its version.
Boots(pc, r) ==
    /\ RunnerFree
    /\ task' = [task EXCEPT !["bootstrap"] =
                   [pc |-> pc, run |-> r, version |-> rollout # "success"]]

RolloutClaimed ==
    /\ rollout = "none" /\ rollout' = "running" /\ NextRun \in Runs
    /\ Boots("open", 0)
    /\ UNCHANGED <<run, job, versioned, domain, queue, consumer, daily, history>>

\* The first run of all: no job was ever recorded and no run is to be recovered.
FirstDispatch ==
    /\ rollout # "none"
    /\ Opened = {} \/ LatestIf("success") # {}
    /\ \A r \in Runs : \A k \in Jobs : job[r][k].status = "none"
    /\ Boots("open", 0)
    /\ UNCHANGED <<run, job, versioned, domain, rollout, queue, consumer, daily, history>>

\* Without a version the run has the key of the day's dispatch, if it is the same
\* day.
DispatchOpens ==
    /\ task["bootstrap"].pc = "open"
    /\ IF NextRun \in Runs
       THEN /\ Opens(NextRun, 0) /\ TaskGoes("bootstrap", "seal", NextRun)
            /\ \/ UNCHANGED daily
               \/ daily = 0 /\ ~task["bootstrap"].version /\ daily' = NextRun
       ELSE UNCHANGED <<run, daily>> /\ TaskEnds("bootstrap", "idle")
    /\ UNCHANGED <<job, versioned, domain, rollout, queue, consumer, history>>

\* Nothing about the run has moved for longer than any lease, retry or
\* invocation lasts.
Silent(r) ==
    /\ \A c \in Consumers : consumer[c].run # r
    /\ \A k \in Jobs : job[r][k].status = "processing" => job[r][k].lapsed
    /\ \A t \in Tasks : task[t].run # r

StalledRewoken ==
    /\ rollout # "none"
    /\ \E r \in LatestIf("running") : Silent(r) /\ Outstanding(r) /\ Boots("wake", r)
    /\ UNCHANGED <<run, job, versioned, domain, rollout, queue, consumer, daily, history>>

StrandedFailed ==
    /\ rollout # "none"
    /\ \E r \in LatestIf("running") :
        Silent(r) /\ ~Outstanding(r) /\ Closes(r, "failed") /\ Boots("recover", r)
    /\ UNCHANGED <<job, versioned, domain, rollout, queue, consumer, daily, history>>

FailureFound ==
    /\ rollout # "none"
    /\ \E r \in LatestIf("failed") : Boots("recover", r)
    /\ UNCHANGED <<run, job, versioned, domain, rollout, queue, consumer, daily, history>>

\* startKnowledgeCatalogRecoveryReviewRun: only of the last run.
RecoveryOpens ==
    LET of == task["bootstrap"].run IN
    /\ task["bootstrap"].pc = "recover"
    /\ IF run[of].status = "failed" /\ of + 1 \in Runs /\ run[of + 1].status = "none"
       THEN Opens(of + 1, of) /\ TaskGoes("bootstrap", "abandon", of + 1)
       ELSE UNCHANGED run /\ TaskEnds("bootstrap", "idle")
    /\ UNCHANGED <<job, versioned, domain, rollout, queue, consumer, daily, history>>

Abandons ==
    LET r == task["bootstrap"].run  of == run[r].of IN
    /\ task["bootstrap"].pc = "abandon"
    /\ job' = [job EXCEPT ![of] = [k \in Jobs |->
           IF job[of][k].status \in Live
           THEN [job[of][k] EXCEPT !.status = "abandoned", !.lapsed = FALSE]
           ELSE job[of][k]]]
    /\ TaskGoes("bootstrap", "adopt", r)
    /\ UNCHANGED <<run, versioned, domain, rollout, queue, consumer, daily, history>>

\* inheritKnowledgeCatalogVerificationJobs: outcomes are kept, abandoned work and
\* the finalizer start again, payloads are copied.
Inherited(of, k) ==
    LET old == job[of][k] IN
    CASE old.status = "none" -> NoJob
      [] k # Finalizer /\ old.status \in {"completed", "dead"} ->
             [status |-> old.status, delivery |-> 0, source |-> old.source, lapsed |-> FALSE]
      [] OTHER -> [status |-> "queued", delivery |-> 0, source |-> old.source, lapsed |-> FALSE]

RunAdopted ==
    LET r == task["bootstrap"].run  of == run[r].of IN
    /\ task["bootstrap"].pc = "adopt"
    /\ IF run[r].status = "running" /\ IsSealed(of) /\ ~IsSealed(r)
       THEN /\ job' = [job EXCEPT ![r] = [k \in Jobs |-> Inherited(of, k)]]
            /\ versioned' = IF of \in versioned THEN versioned \cup {r} ELSE versioned
            /\ TaskGoes("bootstrap", "wake", r)
       ELSE /\ IF run[r].status # "running"
               THEN TaskEnds("bootstrap", "idle")
               ELSE TaskGoes("bootstrap", IF IsSealed(r) THEN "wake" ELSE "seal", r)
            /\ UNCHANGED <<job, versioned>>
    /\ UNCHANGED <<run, domain, rollout, queue, consumer, daily, history>>

-----------------------------------------------------------------------------
WakeDelivered(r) == \E c \in Consumers : WakeTaken(c, r)
Processing(c) ==
    \/ DomainAcquired(c) \/ DomainBusy(c) \/ DomainReleased(c)
    \/ \E transient \in BOOLEAN : Answered(c, transient)
    \/ ErrorRetried(c) \/ ErrorExhausted(c)
    \/ RunFailed(c) \/ VersionFailed(c)
    \/ FinalizerChecks(c) \/ RunFinished(c) \/ VersionFinished(c) \/ FinalizerCompleted(c)
Claiming(c) == \E k \in Jobs : ClaimNext(c, k)
Expiring == DomainLapses \/ \E r \in Runs : \E k \in Jobs : LeaseLapses(r, k)
Cleaning == \E r \in Runs : DeadWakeHandled(r)
Dispatching(t) ==
    \/ \E targets \in SUBSET Targets : RunSealed(t, targets)
    \/ RunWoken(t)
Recovering == RecoveryOpens \/ Abandons \/ RunAdopted \/ DispatchOpens
Watching == RolloutClaimed \/ FirstDispatch \/ StalledRewoken \/ StrandedFailed \/ FailureFound

Next ==
    \/ \E c \in Consumers :
           Claiming(c) \/ SliceEnds(c) \/ Processing(c) \/ Throws(c) \/ Crash(c)
    \/ \E r \in Runs : WakeDelivered(r) \/ Duplicated(r) \/ WakeDies(r)
    \/ Expiring \/ Cleaning
    \/ DailyBegins \/ DailyResumes
    \/ \E t \in Tasks : Dispatching(t) \/ TaskStops(t)
    \/ Watching \/ Recovering

Spec == Init /\ [][Next]_vars

\* Consumers and tasks that run go on, the queue delivers every message, leases end, and the
\* hourly bootstrap comes back.  A job whose retry is due again and again is in
\* the end taken: each wake-up is delayed to the next job's time.
Fairness ==
    /\ \A c \in Consumers :
           /\ WF_vars(SliceEnds(c)) /\ WF_vars(Processing(c)) /\ SF_vars(Claiming(c))
    /\ \A r \in Runs : WF_vars(WakeDelivered(r))
    /\ WF_vars(Expiring) /\ WF_vars(Cleaning)
    /\ \A t \in Tasks : WF_vars(Dispatching(t))
    /\ WF_vars(Recovering) /\ WF_vars(Watching)

FairSpec == Spec /\ Fairness

-----------------------------------------------------------------------------
TypeOK ==
    /\ run \in [Runs -> [status: {"none", "running", "success", "failed"}, of: 0..MaxRun]]
    /\ job \in [Runs -> [Jobs -> JobRows]]
    /\ \A r \in Runs : \A k \in Jobs : job[r][k].lapsed => job[r][k].status = "processing"
    /\ versioned \subseteq Runs
    /\ domain \in [run: 0..MaxRun, job: Jobs, live: BOOLEAN]
    /\ rollout \in {"none", "running", "success", "failed"}
    /\ wakes \in [Runs -> 0..MaxWakes] /\ dead \subseteq Runs
    /\ consumer \in [Consumers -> ConsumerStates]
    /\ task \in [Tasks -> TaskStates]
    /\ daily \in 0..MaxRun
    /\ faults \in 0..MaxFaults /\ overran \in BOOLEAN

\* Review runs are what ReviewRuns promises: an answered target is never open
\* again, however late a consumer that lost its lease settles it, and a run is
\* a success only once its snapshot is sealed and every target answered.
Review == INSTANCE ReviewRuns WITH
    Runs <- Runs, Targets <- Targets,
    phase <- [r \in Runs |-> run[r].status],
    fixed <- {r \in Runs : IsSealed(r)},
    open <- [r \in Runs |-> LiveTargets(r)]
ImplementsReview == Review!Spec

\* As long as no consumer has outlived a lease, one request at a time goes to a
\* manufacturer's domain, whatever runs, wake-ups and takeovers overlap.
OnePerDomain ==
    \/ overran
    \/ \A c, d \in Consumers :
           consumer[c].pc = "request" /\ consumer[d].pc = "request" => c = d

\* Every review run that began closes: lost wake-ups, dead letters, crashed
\* consumers and half-finished dispatches are all healed by the bootstrap.
RunCloses == \A r \in Runs : run[r].status = "running" ~> run[r].status # "running"
=============================================================================
