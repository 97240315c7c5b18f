------------------------ MODULE VerificationQueue_proofs ------------------------
(***************************************************************************)
(* For every set of consumers and targets and every bound: review runs are *)
(* what ReviewRuns promises, and, as long as no consumer has outlived a    *)
(* lease, one request at a time goes to a manufacturer's domain.           *)
(*                                                                         *)
(* The invariant is built in layers, each on top of those below it: Typed  *)
(* (TypeOK and the shape of what consumers and tasks hold), Recorded (what *)
(* the tables say of runs, and the finalizer of what it has read), and     *)
(* Exclusive (a job that is worked on is nobody else's).                   *)
(***************************************************************************)
EXTENDS VerificationQueue, FiniteSetTheorems, TLAPS

\* Who works, works for a run, and has room for the job it works on.
ConsumerShape ==
    \A c \in Consumers :
        /\ consumer[c].pc # "idle" => consumer[c].run \in Runs
        /\ consumer[c].pc \notin {"idle", "claim"} => consumer[c].done < MaxJobs

\* A task that has a run has one that was opened; a recovery is of another.
TaskShape ==
    \A t \in Tasks :
        /\ task[t].pc \in {"seal", "wake", "recover", "abandon", "adopt"} =>
              task[t].run \in Runs /\ run[task[t].run].status # "none"
        /\ task[t].pc \in {"abandon", "adopt"} => run[task[t].run].of \in Runs

\* Runs are opened one after another.
InOrder == \E n \in 0..MaxRun : Opened = 1..n

DailyIsOpen == daily # 0 => run[daily].status # "none"

Typed == TypeOK /\ ConsumerShape /\ TaskShape /\ InOrder /\ DailyIsOpen

\* Jobs are recorded with their run's finalizer.
Sealing ==
    \A r \in Runs :
        /\ ~IsSealed(r) => \A k \in Jobs : job[r][k].status = "none"
        /\ IsSealed(r) => run[r].status # "none"

\* A job that is worked on is one of them, and the finalizer that goes on to
\* close the run has seen every target answered.
WorkIsRecorded ==
    \A c \in Consumers :
        /\ consumer[c].pc \notin {"idle", "claim"} =>
              job[consumer[c].run][consumer[c].job].status # "none"
        /\ consumer[c].pc \in {"final", "finish", "version", "close"} => consumer[c].job = Finalizer
        /\ consumer[c].pc = "finish" => LiveTargets(consumer[c].run) = {}

Recorded == Sealing /\ WorkIsRecorded

\* A job that is worked on cannot be claimed, so it has one consumer, and the one
\* that asks the site holds the domain's unexpired lease.
Untouchable ==
    \A c \in Consumers :
        consumer[c].pc \notin {"idle", "claim", "deferred"} =>
            ~Claimable(job[consumer[c].run][consumer[c].job])

OneConsumer ==
    \A c, d \in Consumers : \A r \in Runs : \A k \in Jobs :
        Works(c, r, k) /\ Works(d, r, k) => c = d

RequestHoldsDomain ==
    \A c \in Consumers : consumer[c].pc = "request" =>
        domain.live /\ domain.run = consumer[c].run /\ domain.job = consumer[c].job

Exclusive == overran \/ (Untouchable /\ OneConsumer /\ RequestHoldsDomain)

(***************************************************************************)
(* Rows, consumers and runs one at a time.                                 *)
(***************************************************************************)

GoodRow(row) == row \in JobRows /\ (row.lapsed => row.status = "processing")
Rows == {row \in JobRows : GoodRow(row)}
Phases == {"none", "running", "success", "failed"}
RunRow == [status : Phases, of : 0..MaxRun]

LEMMA NewRows == Fresh \in Rows /\ NoJob \in Rows
<1>1. 0 \in 0..MaxDelivery /\ 0 \in 0..MaxSource
  BY BoundAssumption
<1>2. Fresh \in JobRows /\ ~Fresh.lapsed
  BY <1>1 DEF Fresh, JobRows, Live, Waiting
<1>3. NoJob \in JobRows /\ ~NoJob.lapsed
  BY <1>1 DEF NoJob, JobRows
<1> QED
  BY <1>2, <1>3 DEF Rows, GoodRow

\* What each write of a row leaves.
LEMMA RowWrites ==
    ASSUME NEW row \in Rows
    PROVE  /\ Claimed(row) \in Rows
           /\ Retried(row) \in Rows
           /\ Completed(row) \in Rows
           /\ DeadLettered(row) \in Rows
           /\ Attempted(row) \in Rows
<1> DEFINE s == row.status  d == row.delivery  a == row.source  l == row.lapsed
<1>1. /\ row = [status |-> s, delivery |-> d, source |-> a, lapsed |-> l]
      /\ s \in {"none"} \cup Live \cup Terminal /\ d \in 0..MaxDelivery
      /\ a \in 0..MaxSource /\ l \in BOOLEAN
      /\ l => s = "processing"
  BY DEF Rows, GoodRow, JobRows
<1>2. Claimed(row) \in Rows
  <2> DEFINE delivery == Lesser(d + 1, MaxDelivery)
  <2>1. delivery \in 0..MaxDelivery
    BY <1>1, BoundAssumption DEF Lesser
  <2>2. Claimed(row) = [row EXCEPT !.status = "processing", !.lapsed = FALSE, !.delivery = delivery]
    BY DEF Claimed
  <2> HIDE DEF delivery
  <2> QED
    BY <1>1, <2>1, <2>2 DEF Rows, GoodRow, JobRows, Live
<1>3. Retried(row) \in Rows
  BY <1>1 DEF Retried, Rows, GoodRow, JobRows, Live, Waiting
<1>4. Completed(row) \in Rows /\ DeadLettered(row) \in Rows
  BY <1>1 DEF Completed, DeadLettered, Rows, GoodRow, JobRows, Terminal
<1>5. Attempted(row) \in Rows
  BY <1>1, BoundAssumption DEF Attempted, Lesser, Rows, GoodRow, JobRows
<1> QED
  BY <1>2, <1>3, <1>4, <1>5

LEMMA JobTable ==
    ASSUME TypeOK
    PROVE  /\ job \in [Runs -> [Jobs -> Rows]]
           /\ \A table \in [Runs -> [Jobs -> Rows]] :
                /\ table \in [Runs -> [Jobs -> JobRows]]
                /\ \A r \in Runs : \A k \in Jobs :
                      table[r][k].lapsed => table[r][k].status = "processing"
BY DEF TypeOK, Rows, GoodRow

LEMMA WriteKeepsTable ==
    ASSUME TypeOK, NEW r, NEW k, NEW row \in Rows, Write(r, k, row)
    PROVE  job' \in [Runs -> [Jobs -> Rows]]
BY JobTable DEF Write

\* The phase of a consumer, and the consumer anew.
LEMMA ConsumerMoves ==
    ASSUME TypeOK, NEW c \in Consumers
    PROVE  /\ \A pc : Goes(c, pc) /\ (\E held \in ConsumerStates : held.pc = pc)
                    => consumer' \in [Consumers -> ConsumerStates]
           /\ Stops(c) => consumer' \in [Consumers -> ConsumerStates]
           /\ After(c) /\ consumer[c].done < MaxJobs => consumer' \in [Consumers -> ConsumerStates]
<1>1. consumer[c] \in ConsumerStates
  BY DEF TypeOK
<1>2. ASSUME NEW pc, Goes(c, pc), NEW held \in ConsumerStates, held.pc = pc
      PROVE  consumer' \in [Consumers -> ConsumerStates]
  <2>1. pc \in {"idle", "claim", "domain", "request", "answered", "deferred", "errored", "failing",
          "final", "finish", "version", "close", "failrun", "failversion"}
    BY <1>2 DEF ConsumerStates
  <2> QED
    BY <1>2, <2>1 DEF TypeOK, Goes, ConsumerStates
<1>3. ASSUME Stops(c) PROVE consumer' \in [Consumers -> ConsumerStates]
  BY <1>3, BoundAssumption DEF Stops, TypeOK, ConsumerStates, Free, Jobs
<1>4. ASSUME After(c), consumer[c].done < MaxJobs
      PROVE  consumer' \in [Consumers -> ConsumerStates]
  <2>1. consumer[c].run \in 0..MaxRun /\ consumer[c].done + 1 \in 0..MaxJobs
    BY <1>1, <1>4, BoundAssumption DEF ConsumerStates
  <2>2. Slice(consumer[c].run, consumer[c].done + 1) \in ConsumerStates
    BY <2>1, BoundAssumption DEF Slice, ConsumerStates, Jobs
  <2> QED
    BY <1>4, <2>2 DEF After, TypeOK
<1> QED
  BY <1>2, <1>3, <1>4

(***************************************************************************)
(* Types and shapes.                                                       *)
(***************************************************************************)

\* What consumers' steps leave alone, or close.
Bystanders ==
    /\ versioned \subseteq Runs
    /\ domain \in [run : 0..MaxRun, job : Jobs, live : BOOLEAN]
    /\ rollout \in {"none", "running", "success", "failed"}
    /\ wakes \in [Runs -> 0..MaxWakes] /\ dead \subseteq Runs
    /\ faults \in 0..MaxFaults /\ overran \in BOOLEAN

\* Runs are closed at most.
RunsStay ==
    /\ run' \in [Runs -> RunRow]
    /\ \A r \in Runs : /\ run'[r].status = "none" <=> run[r].status = "none"
                       /\ run'[r].of = run[r].of

LEMMA ClosesRuns ==
    ASSUME TypeOK
    PROVE  /\ UNCHANGED run => RunsStay
           /\ \A r : \A status \in {"success", "failed"} : Closes(r, status) => RunsStay
<1>1. run \in [Runs -> RunRow]
  BY DEF TypeOK, RunRow, Phases
<1>2. ASSUME NEW r, NEW status \in {"success", "failed"}, Closes(r, status)
      PROVE  RunsStay
  <2> DEFINE closed == IF run[r].status = "running" THEN status ELSE run[r].status
  <2>1. run' = [run EXCEPT ![r].status = closed]
    BY <1>2 DEF Closes
  <2>2. r \in Runs => closed \in Phases /\ (closed = "none" <=> run[r].status = "none")
    BY <1>1 DEF RunRow, Phases
  <2> HIDE DEF closed
  <2> QED
    BY <1>1, <2>1, <2>2 DEF RunsStay, RunRow
<1> QED
  BY <1>1, <1>2 DEF RunsStay

LEMMA TypedAfterConsumer ==
    ASSUME Typed, RunsStay, Bystanders', UNCHANGED <<task, daily>>,
           job' \in [Runs -> [Jobs -> Rows]],
           consumer' \in [Consumers -> ConsumerStates], ConsumerShape'
    PROVE  Typed'
<1>1. TypeOK'
  BY DEF Typed, TypeOK, RunsStay, RunRow, Phases, Bystanders, Rows, GoodRow
<1>2. Opened' = Opened
  BY DEF RunsStay, Opened
<1>3. TaskShape' /\ InOrder' /\ DailyIsOpen'
  <2>1. daily # 0 => daily \in Runs
    BY DEF Typed, TypeOK, Runs
  <2> QED
    BY <1>2, <2>1 DEF Typed, TaskShape, InOrder, DailyIsOpen, RunsStay
<1> QED
  BY <1>1, <1>3 DEF Typed

LEMMA Sending ==
    ASSUME TypeOK, NEW r, Sent(r)
    PROVE  wakes' \in [Runs -> 0..MaxWakes]
<1>1. \A n \in 0..MaxWakes : Lesser(n + 1, MaxWakes) \in 0..MaxWakes
  BY BoundAssumption DEF Lesser
<1> QED
  BY <1>1 DEF Sent, TypeOK

\* A consumer that goes on to another phase of its job, or lets it go.
LEMMA ShapeOfConsumer ==
    ASSUME Typed, NEW c \in Consumers, consumer' \in [Consumers -> ConsumerStates],
           \A d \in Consumers : d # c => consumer'[d] = consumer[d],
           consumer'[c].pc # "idle" => consumer'[c].run \in Runs,
           consumer'[c].pc \notin {"idle", "claim"} => consumer'[c].done < MaxJobs
    PROVE  ConsumerShape'
BY DEF Typed, ConsumerShape

LEMMA JobPhase ==
    ASSUME Typed, NEW c \in Consumers, consumer[c].pc \notin {"idle", "claim"}
    PROVE  /\ \A pc \in {"request", "answered", "deferred", "errored", "failing",
                  "finish", "version", "close", "failrun", "failversion"} :
                Goes(c, pc) => consumer' \in [Consumers -> ConsumerStates] /\ ConsumerShape'
           /\ After(c) => consumer' \in [Consumers -> ConsumerStates] /\ ConsumerShape'
<1>1. consumer[c] \in ConsumerStates /\ consumer[c].run \in Runs /\ consumer[c].done < MaxJobs
  BY DEF Typed, TypeOK, ConsumerShape
<1>2. ASSUME NEW pc \in {"request", "answered", "deferred", "errored", "failing",
                  "finish", "version", "close", "failrun", "failversion"}, Goes(c, pc)
      PROVE  consumer' \in [Consumers -> ConsumerStates] /\ ConsumerShape'
  <2>1. consumer' \in [Consumers -> ConsumerStates]
    BY <1>2 DEF Goes, Typed, TypeOK, ConsumerStates
  <2>2. /\ \A d \in Consumers : d # c => consumer'[d] = consumer[d]
        /\ consumer'[c].run = consumer[c].run /\ consumer'[c].done = consumer[c].done
    BY <1>1, <1>2 DEF Goes, Typed, TypeOK, ConsumerStates
  <2> QED
    BY <1>1, <2>1, <2>2, ShapeOfConsumer
<1>3. ASSUME After(c)
      PROVE  consumer' \in [Consumers -> ConsumerStates] /\ ConsumerShape'
  <2>1. consumer' \in [Consumers -> ConsumerStates]
    BY <1>1, <1>3, ConsumerMoves DEF Typed
  <2>2. /\ \A d \in Consumers : d # c => consumer'[d] = consumer[d]
        /\ consumer'[c].pc = "claim" /\ consumer'[c].run = consumer[c].run
    BY <1>3 DEF After, Slice, Typed, TypeOK
  <2> QED
    BY <1>1, <2>1, <2>2, ShapeOfConsumer
<1> QED
  BY <1>2, <1>3

\* A consumer takes a wake-up and jobs, and lets go.
LEMMA SlicesTyped ==
    ASSUME Typed, NEW c \in Consumers,
           \/ \E r \in Runs : WakeTaken(c, r)
           \/ \E k \in Jobs : ClaimNext(c, k)
           \/ SliceEnds(c) \/ Crash(c)
    PROVE  Typed'
<1>1. TypeOK /\ Bystanders /\ job \in [Runs -> [Jobs -> Rows]]
  BY JobTable DEF Typed, TypeOK, Bystanders
<1>2. ASSUME NEW r \in Runs, WakeTaken(c, r)
      PROVE  Typed'
  <2>1. Slice(r, 0) \in ConsumerStates
    BY BoundAssumption DEF Slice, ConsumerStates, Jobs, Runs
  <2>2. /\ consumer' \in [Consumers -> ConsumerStates]
        /\ \A d \in Consumers : d # c => consumer'[d] = consumer[d]
        /\ consumer'[c].pc = "claim" /\ consumer'[c].run = r
    BY <1>1, <1>2, <2>1 DEF WakeTaken, TypeOK, Slice
  <2>3. ConsumerShape'
    BY <2>2, ShapeOfConsumer
  <2>4. Bystanders'
    <3>1. wakes' \in [Runs -> 0..MaxWakes]
      <4>1. wakes[r] - 1 \in 0..MaxWakes
        BY <1>1, <1>2, BoundAssumption DEF WakeTaken, Bystanders
      <4> QED
        BY <1>1, <1>2, <4>1 DEF WakeTaken, Bystanders
    <3> QED
      BY <1>1, <1>2, <3>1 DEF WakeTaken, Bystanders, history
  <2> QED
    BY <1>1, <1>2, <2>2, <2>3, <2>4, ClosesRuns, TypedAfterConsumer DEF WakeTaken
<1>3. ASSUME NEW k \in Jobs, ClaimNext(c, k)
      PROVE  Typed'
  <2> DEFINE r == consumer[c].run
             pc == IF k = Finalizer THEN "final" ELSE "domain"
             last == Claimed(job[r][k]).delivery >= MaxDelivery
  <2>1. r \in Runs /\ job[r][k] \in Rows /\ consumer[c].done < MaxJobs
    BY <1>1, <1>3 DEF ClaimNext, Typed, ConsumerShape
  <2>2. Write(r, k, Claimed(job[r][k])) /\ Claimed(job[r][k]) \in Rows
    BY <1>3, <2>1, RowWrites DEF ClaimNext, Takes
  <2>3. job' \in [Runs -> [Jobs -> Rows]]
    BY <1>1, <2>2, WriteKeepsTable
  <2>4. /\ consumer' = [consumer EXCEPT ![c].pc = pc, ![c].job = k, ![c].last = last]
        /\ pc \in {"final", "domain"}
    BY <1>3 DEF ClaimNext, Takes
  <2>8. last \in BOOLEAN
    OBVIOUS
  <2> HIDE DEF pc, last, r
  <2>9. consumer \in [Consumers -> ConsumerStates]
    BY <1>1 DEF TypeOK
  <2>5. /\ consumer' \in [Consumers -> ConsumerStates]
        /\ \A d \in Consumers : d # c => consumer'[d] = consumer[d]
        /\ consumer'[c].run = consumer[c].run /\ consumer'[c].done = consumer[c].done
    <3> DEFINE held == [consumer[c] EXCEPT !.pc = pc, !.job = k, !.last = last]
    <3>1. consumer[c] \in ConsumerStates /\ k \in Jobs
      BY <1>3, <2>9
    <3>2. held \in ConsumerStates /\ held.run = consumer[c].run /\ held.done = consumer[c].done
      BY <2>4, <2>8, <3>1 DEF ConsumerStates
    <3>3. consumer' = [consumer EXCEPT ![c] = held]
      BY <2>4
    <3> HIDE DEF held
    <3> QED
      BY <2>9, <3>2, <3>3
  <2>6. ConsumerShape'
    BY <2>1, <2>5, ShapeOfConsumer DEF r
  <2>7. Bystanders' /\ UNCHANGED <<run, task, daily>>
    BY <1>1, <1>3 DEF ClaimNext, Bystanders, queue, control, history
  <2> QED
    BY <1>1, <2>3, <2>5, <2>6, <2>7, ClosesRuns, TypedAfterConsumer
<1>4. CASE SliceEnds(c) \/ Crash(c)
  <2>1. /\ Stops(c)
        /\ UNCHANGED <<run, job, task, daily, versioned, domain, rollout, dead>>
        /\ Sent(consumer[c].run) \/ UNCHANGED wakes
        /\ UNCHANGED history \/ Fault
    BY <1>4 DEF SliceEnds, Crash, control
  <2>2. consumer' \in [Consumers -> ConsumerStates]
    BY <1>1, <2>1, ConsumerMoves
  <2>3. ConsumerShape'
    BY <2>1, <2>2, ShapeOfConsumer DEF Stops, Free, Typed, TypeOK
  <2>4. Bystanders'
    BY <1>1, <2>1, Sending, BoundAssumption DEF Bystanders, Fault, history
  <2> QED
    BY <1>1, <2>1, <2>2, <2>3, <2>4, ClosesRuns, TypedAfterConsumer
<1> QED
  BY <1>2, <1>3, <1>4

\* A consumer works on a job.
LEMMA ProcessingTyped ==
    ASSUME Typed, NEW c \in Consumers, Processing(c) \/ Throws(c)
    PROVE  Typed'
<1> DEFINE r == consumer[c].run  k == consumer[c].job
<1>1. TypeOK /\ Bystanders /\ job \in [Runs -> [Jobs -> Rows]]
  BY JobTable DEF Typed, TypeOK, Bystanders
<1>2. consumer[c].pc \notin {"idle", "claim"}
  BY DEF Processing, Throws, DomainAcquired, DomainBusy, DomainReleased, Answered, ErrorRetried,
         ErrorExhausted, RunFailed, VersionFailed, FinalizerChecks, RunFinished,
         VersionFinished, FinalizerCompleted
<1>3. r \in Runs /\ k \in Jobs /\ job[r][k] \in Rows
  BY <1>1, <1>2 DEF Typed, ConsumerShape, TypeOK, ConsumerStates
<1> HIDE DEF r, k
<1>4. ASSUME UNCHANGED <<run, task, daily, versioned, domain, rollout, dead, wakes>>,
             UNCHANGED history,
             NEW q \in Jobs,
             \E row \in {Retried(job[r][q]), Completed(job[r][q]), DeadLettered(job[r][q])} :
                Write(r, q, row),
             \/ After(c)
             \/ \E pc \in {"answered", "deferred", "failrun"} : Goes(c, pc)
      PROVE  Typed'
  <2>1. job' \in [Runs -> [Jobs -> Rows]]
    <3>1. job[r][q] \in Rows
      BY <1>1, <1>3, <1>4
    <3> QED
      BY <1>1, <1>4, <3>1, RowWrites, WriteKeepsTable
  <2>2. consumer' \in [Consumers -> ConsumerStates] /\ ConsumerShape'
    BY <1>2, <1>4, JobPhase
  <2>3. Bystanders'
    BY <1>1, <1>4 DEF Bystanders, history
  <2> QED
    BY <1>1, <1>4, <2>1, <2>2, <2>3, ClosesRuns, TypedAfterConsumer
<1>5. ASSUME UNCHANGED <<task, daily, versioned, dead, wakes, job>>, UNCHANGED history,
             RunsStay,
             domain' \in [run : 0..MaxRun, job : Jobs, live : BOOLEAN],
             rollout' \in {"none", "running", "success", "failed"},
             \/ After(c)
             \/ \E pc \in {"errored", "failing", "finish", "version", "close", "failversion"} :
                    Goes(c, pc)
      PROVE  Typed'
  <2>1. consumer' \in [Consumers -> ConsumerStates] /\ ConsumerShape'
    BY <1>2, <1>5, JobPhase
  <2>2. Bystanders'
    BY <1>1, <1>5 DEF Bystanders, history
  <2> QED
    BY <1>1, <1>5, <2>1, <2>2, TypedAfterConsumer
<1>6. /\ domain \in [run : 0..MaxRun, job : Jobs, live : BOOLEAN]
      /\ rollout \in {"none", "running", "success", "failed"}
      /\ UNCHANGED run => RunsStay
  BY <1>1, ClosesRuns DEF Bystanders
<1>7. CASE DomainAcquired(c)
  <2> DEFINE source == Attempted(job[r][k]).source
  <2>1. /\ domain' = [run |-> r, job |-> k, live |-> TRUE]
        /\ Write(r, k, Attempted(job[r][k]))
        /\ consumer' = [consumer EXCEPT ![c].pc = "request", ![c].source = source]
        /\ UNCHANGED <<run, task, daily, versioned, rollout, dead, wakes>> /\ UNCHANGED history
    BY <1>7 DEF DomainAcquired, r, k, queue, control
  <2>2. job' \in [Runs -> [Jobs -> Rows]] /\ source \in 0..MaxSource
    BY <1>1, <1>3, <2>1, RowWrites, WriteKeepsTable DEF Rows, JobRows
  <2> HIDE DEF source
  <2>6. consumer \in [Consumers -> ConsumerStates]
    BY <1>1 DEF TypeOK
  <2>3. /\ consumer' \in [Consumers -> ConsumerStates]
        /\ \A d \in Consumers : d # c => consumer'[d] = consumer[d]
        /\ consumer'[c].run = consumer[c].run /\ consumer'[c].done = consumer[c].done
    BY <2>1, <2>2, <2>6 DEF ConsumerStates
  <2>4. ConsumerShape'
    BY <1>2, <2>3, ShapeOfConsumer DEF Typed, ConsumerShape
  <2>5. Bystanders'
    BY <1>1, <1>3, <2>1 DEF Bystanders, history, Runs
  <2> QED
    BY <1>6, <2>1, <2>2, <2>3, <2>4, <2>5, TypedAfterConsumer
<1>8. CASE DomainBusy(c) \/ ErrorRetried(c) \/ ErrorExhausted(c)
  BY <1>3, <1>4, <1>8 DEF DomainBusy, ErrorRetried, ErrorExhausted, r, k, control
<1>14. CASE FinalizerCompleted(c)
  BY <1>4, <1>14 DEF FinalizerCompleted, Jobs, r, control
<1>9. CASE \E transient \in BOOLEAN : Answered(c, transient)
  BY <1>3, <1>4, <1>9 DEF Answered, r, k, control, queue
<1>10. CASE DomainReleased(c) \/ Throws(c)
  <2>1. domain' \in [run : 0..MaxRun, job : Jobs, live : BOOLEAN]
    <3>1. domain' \in {domain, [run |-> 0, job |-> Finalizer, live |-> TRUE]}
      BY <1>10 DEF DomainReleased, Throws
    <3>2. 0 \in 0..MaxRun /\ Finalizer \in Jobs
      BY BoundAssumption DEF Jobs
    <3>3. CASE domain' = [run |-> 0, job |-> Finalizer, live |-> TRUE]
      BY <3>2, <3>3
    <3> QED
      BY <1>6, <3>1, <3>3
  <2> QED
    BY <1>5, <1>6, <1>10, <2>1 DEF DomainReleased, Throws, control, queue
<1>11. CASE RunFailed(c) \/ RunFinished(c)
  BY <1>1, <1>5, <1>6, <1>11, ClosesRuns DEF RunFailed, RunFinished, control, queue
<1>12. CASE VersionFailed(c) \/ VersionFinished(c)
  BY <1>5, <1>6, <1>12 DEF VersionFailed, VersionFinished, queue
<1>13. CASE FinalizerChecks(c)
  <2>1. CASE UNCHANGED job /\ \E pc \in {"close", "finish"} : Goes(c, pc)
    BY <1>5, <1>6, <1>13, <2>1 DEF FinalizerChecks, control
  <2>2. CASE Write(r, Finalizer, Retried(job[r][Finalizer])) /\ After(c)
    BY <1>4, <1>13, <2>2 DEF FinalizerChecks, Jobs, control
  <2> QED
    BY <1>13, <2>1, <2>2 DEF FinalizerChecks, r
<1> QED
  BY <1>7, <1>8, <1>9, <1>10, <1>11, <1>12, <1>13, <1>14 DEF Processing

\* Faults of the queue, and leases that end.
LEMMA FaultsTyped ==
    ASSUME Typed,
           \/ \E r \in Runs : Duplicated(r) \/ WakeDies(r) \/ DeadWakeHandled(r)
           \/ \E r \in Runs : \E k \in Jobs : LeaseLapses(r, k)
           \/ DomainLapses
    PROVE  Typed'
<1>1. TypeOK /\ Bystanders /\ job \in [Runs -> [Jobs -> Rows]] /\ ConsumerShape
  BY JobTable DEF Typed, TypeOK, Bystanders
<1>2. ASSUME UNCHANGED <<run, task, daily, consumer>>, Bystanders',
             job' \in [Runs -> [Jobs -> Rows]]
      PROVE  Typed'
  BY <1>1, <1>2, ClosesRuns, TypedAfterConsumer DEF TypeOK, ConsumerShape
<1>3. ASSUME NEW r \in Runs, Duplicated(r) \/ WakeDies(r) \/ DeadWakeHandled(r)
      PROVE  Typed'
  <2>1. /\ UNCHANGED <<run, task, daily, consumer, job, domain, rollout, versioned>>
        /\ dead' \subseteq Runs
        /\ UNCHANGED history \/ Fault
        /\ Sent(r) \/ UNCHANGED wakes \/ (wakes[r] > 0 /\ wakes' = [wakes EXCEPT ![r] = @ - 1])
    BY <1>1, <1>3 DEF Duplicated, WakeDies, DeadWakeHandled, control, Bystanders
  <2>2. wakes' \in [Runs -> 0..MaxWakes]
    <3>1. wakes[r] > 0 => wakes[r] - 1 \in 0..MaxWakes
      BY <1>1, BoundAssumption DEF Bystanders
    <3> QED
      BY <1>1, <2>1, <3>1, Sending DEF Bystanders
  <2>3. faults' \in 0..MaxFaults /\ overran' \in BOOLEAN
    BY <1>1, <2>1, BoundAssumption DEF Fault, history, Bystanders
  <2>4. Bystanders'
    BY <1>1, <2>1, <2>2, <2>3 DEF Bystanders
  <2> QED
    BY <1>1, <1>2, <2>1, <2>4
<1>4. ASSUME NEW r \in Runs, NEW k \in Jobs, LeaseLapses(r, k)
      PROVE  Typed'
  <2>1. [job[r][k] EXCEPT !.lapsed = TRUE] \in Rows
    <3> DEFINE row == job[r][k]
    <3>1. row \in Rows /\ row.status = "processing"
      BY <1>1, <1>4 DEF LeaseLapses
    <3> HIDE DEF row
    <3>2. [row EXCEPT !.lapsed = TRUE] \in Rows
      BY <3>1 DEF Rows, GoodRow, JobRows
    <3> QED
      BY <3>2 DEF row
  <2>2. job' \in [Runs -> [Jobs -> Rows]]
    BY <1>1, <1>4, <2>1, WriteKeepsTable DEF LeaseLapses
  <2>3. overran' \in BOOLEAN
    BY <1>4 DEF LeaseLapses, Outlived
  <2>4. Bystanders'
    BY <1>1, <1>4, <2>3 DEF LeaseLapses, Bystanders, queue, control
  <2> QED
    BY <1>2, <1>4, <2>2, <2>4 DEF LeaseLapses, control
<1>5. CASE DomainLapses
  <2>1. domain' \in {[domain EXCEPT !.live = FALSE], Unheld}
    BY <1>5 DEF DomainLapses
  <2>2. [domain EXCEPT !.live = FALSE] \in [run : 0..MaxRun, job : Jobs, live : BOOLEAN]
    BY <1>1 DEF Bystanders
  <2>3. Unheld \in [run : 0..MaxRun, job : Jobs, live : BOOLEAN]
    <3>1. 0 \in 0..MaxRun /\ Finalizer \in Jobs
      BY BoundAssumption DEF Jobs
    <3> QED
      BY <3>1 DEF Unheld
  <2>4. domain' \in [run : 0..MaxRun, job : Jobs, live : BOOLEAN]
    BY <2>1, <2>2, <2>3
  <2>5. overran' \in BOOLEAN
    BY <1>5 DEF DomainLapses, Outlived
  <2>6. Bystanders'
    BY <1>1, <1>5, <2>4, <2>5 DEF DomainLapses, Bystanders, queue, control
  <2> QED
    BY <1>1, <1>2, <1>5, <2>6 DEF DomainLapses, control
<1> QED
  BY <1>3, <1>4, <1>5

(***************************************************************************)
(* Tasks open runs, seal them and recover them.                            *)
(***************************************************************************)

\* The next run has not been opened, and opening it keeps the order.
LEMMA OpeningNext ==
    ASSUME Typed, NEW r \in Runs, NEW of \in 0..MaxRun, Opens(r, of), run[r].status = "none",
           r = NextRun \/ (r - 1 \in Runs /\ run[r - 1].status # "none")
    PROVE  /\ run' \in [Runs -> RunRow]
           /\ run'[r] = [status |-> "running", of |-> of]
           /\ \A q \in Runs : q # r => run'[q] = run[q]
           /\ InOrder'
<1>1. run \in [Runs -> RunRow]
  BY DEF Typed, TypeOK, RunRow, Phases
<1>2. [status |-> "running", of |-> of] \in RunRow
  BY DEF RunRow, Phases
<1>3. /\ run' \in [Runs -> RunRow]
      /\ run'[r] = [status |-> "running", of |-> of]
      /\ \A q \in Runs : q # r => run'[q] = run[q]
  BY <1>1, <1>2 DEF Opens
<1>4. PICK n \in 0..MaxRun : Opened = 1..n
  BY DEF Typed, InOrder
<1>5. Opened' = Opened \cup {r}
  BY <1>3 DEF Opened
<1>6. n \in Nat /\ Cardinality(1..n) = n
  <2>1. n \in Nat
    BY <1>4, BoundAssumption
  <2> QED
    BY <2>1, FS_Interval
<1>7. r = n + 1
  <2>1. CASE r = NextRun
    BY <1>4, <1>6, <2>1 DEF NextRun
  <2>2. CASE r - 1 \in Runs /\ run[r - 1].status # "none"
    <3>1. r \notin 1..n /\ r - 1 \in 1..n
      BY <1>4, <2>2 DEF Opened
    <3> QED
      BY <1>6, <3>1 DEF Runs
  <2> QED
    BY <2>1, <2>2
<1>8. InOrder'
  <2>1. n + 1 \in 0..MaxRun /\ Opened' = 1..(n + 1)
    BY <1>4, <1>5, <1>6, <1>7, BoundAssumption DEF Runs
  <2> QED
    BY <2>1 DEF InOrder
<1> QED
  BY <1>3, <1>8

LEMMA NextIsNew ==
    ASSUME Typed, NextRun \in Runs
    PROVE  run[NextRun].status = "none"
<1>1. PICK n \in 0..MaxRun : Opened = 1..n
  BY DEF Typed, InOrder
<1>2. n \in Nat /\ Cardinality(1..n) = n
  BY <1>1, BoundAssumption, FS_Interval
<1>3. NextRun \notin Opened
  BY <1>1, <1>2 DEF NextRun
<1> QED
  BY <1>3 DEF Opened

LEMMA TypedAfterTask ==
    ASSUME Typed, Bystanders', UNCHANGED consumer,
           job' \in [Runs -> [Jobs -> Rows]],
           run' \in [Runs -> RunRow], InOrder',
           \A r \in Runs : run[r].status # "none" =>
                run'[r].status # "none" /\ run'[r].of = run[r].of,
           daily' \in 0..MaxRun, DailyIsOpen',
           NEW t \in Tasks, NEW state \in TaskStates, task' = [task EXCEPT ![t] = state],
           state.pc \in {"seal", "wake", "recover", "abandon", "adopt"} =>
                state.run \in Runs /\ run'[state.run].status # "none",
           state.pc \in {"abandon", "adopt"} => run'[state.run].of \in Runs
    PROVE  Typed'
<1>1. task' \in [Tasks -> TaskStates]
  BY DEF Typed, TypeOK
<1>2. TypeOK'
  BY <1>1 DEF Typed, TypeOK, RunRow, Phases, Bystanders, Rows, GoodRow
<1>3. TaskShape'
  <2> SUFFICES ASSUME NEW u \in Tasks
               PROVE  /\ task'[u].pc \in {"seal", "wake", "recover", "abandon", "adopt"} =>
                            task'[u].run \in Runs /\ run'[task'[u].run].status # "none"
                      /\ task'[u].pc \in {"abandon", "adopt"} => run'[task'[u].run].of \in Runs
    BY DEF TaskShape
  <2>1. CASE u = t
    BY <2>1 DEF Typed, TypeOK
  <2>2. CASE u # t
    <3>1. task'[u] = task[u]
      BY <2>2 DEF Typed, TypeOK
    <3> QED
      BY <3>1 DEF Typed, TaskShape
  <2> QED
    BY <2>1, <2>2
<1> QED
  BY <1>2, <1>3 DEF Typed, ConsumerShape

LEMMA TaskMoves ==
    ASSUME TypeOK, NEW t \in Tasks, NEW pc, NEW r
    PROVE  TaskGoes(t, pc, r) =>
               task' = [task EXCEPT ![t] = [pc |-> pc, run |-> r, version |-> task[t].version]]
<1>1. task[t] = [pc |-> task[t].pc, run |-> task[t].run, version |-> task[t].version]
  BY DEF TypeOK, TaskStates
<1> QED
  BY <1>1 DEF TaskGoes, TypeOK

\* A task that goes on, or ends, and opens no run.
LEMMA TaskPhaseTyped ==
    ASSUME Typed, Bystanders', UNCHANGED <<consumer, daily>>,
           job' \in [Runs -> [Jobs -> Rows]], RunsStay,
           NEW t \in Tasks, NEW state \in TaskStates, task' = [task EXCEPT ![t] = state],
           state.pc \in {"seal", "wake", "recover", "abandon", "adopt"} =>
                state.run \in Runs /\ run[state.run].status # "none",
           state.pc \in {"abandon", "adopt"} => run[state.run].of \in Runs
    PROVE  Typed'
<1>1. Opened' = Opened
  BY DEF RunsStay, Opened
<1>2. InOrder'
  BY <1>1 DEF Typed, InOrder
<1>3. daily' \in 0..MaxRun /\ DailyIsOpen'
  BY DEF Typed, TypeOK, DailyIsOpen, RunsStay, Runs
<1>4. run' \in [Runs -> RunRow]
  BY DEF RunsStay
<1>5. /\ state.pc \in {"seal", "wake", "recover", "abandon", "adopt"} =>
                state.run \in Runs /\ run'[state.run].status # "none"
      /\ state.pc \in {"abandon", "adopt"} => run'[state.run].of \in Runs
  BY DEF RunsStay
<1>6. \A r \in Runs : run[r].status # "none" =>
                run'[r].status # "none" /\ run'[r].of = run[r].of
  BY DEF RunsStay
<1> QED
  BY <1>2, <1>3, <1>4, <1>5, <1>6, TypedAfterTask

\* The tables that a seal or an inheritance writes.
LEMMA InheritedRows ==
    ASSUME TypeOK, NEW of \in Runs, NEW k \in Jobs
    PROVE  Inherited(of, k) \in Rows
<1> DEFINE old == job[of][k]
<1>1. old \in Rows
  BY JobTable
<1>2. ASSUME NEW status \in {"none"} \cup Live \cup Terminal, NEW source \in 0..MaxSource
      PROVE  [status |-> status, delivery |-> 0, source |-> source, lapsed |-> FALSE] \in Rows
  <2>1. 0 \in 0..MaxDelivery
    BY BoundAssumption
  <2> QED
    BY <2>1 DEF Rows, GoodRow, JobRows
<1>6. old.status \in {"none"} \cup Live \cup Terminal /\ old.source \in 0..MaxSource
  BY <1>1 DEF Rows, JobRows
<1>3. CASE old.status = "none"
  BY <1>3, NewRows DEF Inherited
<1>4. CASE old.status # "none" /\ k # Finalizer /\ old.status \in {"completed", "dead"}
  <2>1. Inherited(of, k) = [status |-> old.status, delivery |-> 0, source |-> old.source, lapsed |-> FALSE]
    BY <1>4 DEF Inherited
  <2> QED
    BY <1>2, <1>6, <2>1
<1>5. CASE old.status # "none" /\ ~(k # Finalizer /\ old.status \in {"completed", "dead"})
  <2>1. Inherited(of, k) = [status |-> "queued", delivery |-> 0, source |-> old.source, lapsed |-> FALSE]
    BY <1>5 DEF Inherited
  <2> QED
    BY <1>2, <1>6, <2>1 DEF Live, Waiting
<1> QED
  BY <1>3, <1>4, <1>5

LEMMA TasksTyped ==
    ASSUME Typed, NEW t \in Tasks,
           Dispatching(t) \/ TaskStops(t)
    PROVE  Typed'
<1>1. /\ TypeOK /\ Bystanders /\ job \in [Runs -> [Jobs -> Rows]] /\ TaskShape
      /\ task[t] \in TaskStates /\ (UNCHANGED run => RunsStay)
  BY JobTable, ClosesRuns DEF Typed, TypeOK, Bystanders
<1>2. CASE \E targets \in SUBSET Targets : RunSealed(t, targets)
  <2> DEFINE r == task[t].run
             state == [pc |-> "wake", run |-> r, version |-> task[t].version]
  <2>1. PICK targets \in SUBSET Targets : RunSealed(t, targets)
    BY <1>2
  <2>2. r \in Runs /\ run[r].status # "none"
    BY <1>1, <2>1 DEF RunSealed, TaskShape
  <2>3. state \in TaskStates /\ state.pc = "wake"
    BY <1>1 DEF TaskStates
  <2>4. task' = [task EXCEPT ![t] = state]
    BY <1>1, <2>1, TaskMoves DEF RunSealed
  <2>5. job' \in [Runs -> [Jobs -> Rows]]
    <3>1. [k \in Jobs |-> IF k \in targets \cup {Finalizer} THEN Fresh ELSE NoJob] \in [Jobs -> Rows]
      BY NewRows
    <3> QED
      BY <1>1, <2>1, <3>1 DEF RunSealed
  <2>6. Bystanders'
    BY <1>1, <2>1, <2>2 DEF RunSealed, Bystanders, queue, history
  <2>7. UNCHANGED <<run, consumer, daily>>
    BY <2>1 DEF RunSealed
  <2> HIDE DEF state
  <2>8. state.run = r
    BY DEF state
  <2> QED
    BY <1>1, <2>2, <2>3, <2>4, <2>5, <2>6, <2>7, <2>8, TaskPhaseTyped
<1>3. CASE RunWoken(t) \/ TaskStops(t)
  <2>1. PICK pc \in {"done", "idle"} : TaskEnds(t, pc)
    BY <1>3 DEF RunWoken, TaskStops
  <2> DEFINE state == [pc |-> pc, run |-> 0, version |-> FALSE]
  <2>2. state \in TaskStates /\ state.pc \in {"done", "idle"}
    <3>1. 0 \in 0..MaxRun
      BY BoundAssumption
    <3> QED
      BY <3>1 DEF TaskStates
  <2>3. task' = [task EXCEPT ![t] = state]
    BY <2>1 DEF TaskEnds
  <2>4. /\ UNCHANGED <<run, job, versioned, domain, rollout, dead, consumer, daily>>
        /\ Sent(task[t].run) \/ UNCHANGED wakes
        /\ UNCHANGED history \/ Fault
    BY <1>3 DEF RunWoken, TaskStops, queue
  <2>5. wakes' \in [Runs -> 0..MaxWakes]
    BY <1>1, <2>4, Sending DEF Bystanders
  <2>6. faults' \in 0..MaxFaults /\ overran' \in BOOLEAN
    BY <1>1, <2>4, BoundAssumption DEF Bystanders, Fault, history
  <2>7. Bystanders'
    BY <1>1, <2>4, <2>5, <2>6 DEF Bystanders
  <2> HIDE DEF state
  <2> QED
    BY <1>1, <2>2, <2>3, <2>4, <2>7, TaskPhaseTyped
<1> QED
  BY <1>2, <1>3 DEF Dispatching

LEMMA DailyTyped ==
    ASSUME Typed, DailyBegins \/ DailyResumes
    PROVE  Typed'
<1>1. /\ TypeOK /\ Bystanders /\ job \in [Runs -> [Jobs -> Rows]] /\ "daily" \in Tasks
      /\ (UNCHANGED run => RunsStay)
  BY JobTable, ClosesRuns DEF Typed, TypeOK, Bystanders, Tasks
<1>2. /\ UNCHANGED <<job, versioned, domain, rollout, queue, consumer, history>>
      /\ Bystanders'
  BY <1>1 DEF DailyBegins, DailyResumes, Bystanders, queue, history
<1>3. ASSUME NEW r \in Runs, NEW pc \in {"seal", "wake"}, TaskGoes("daily", pc, r)
      PROVE  \E state \in TaskStates :
                /\ task' = [task EXCEPT !["daily"] = state]
                /\ state.pc = pc /\ state.run = r
  <2> DEFINE state == [pc |-> pc, run |-> r, version |-> task["daily"].version]
  <2>1. state \in TaskStates /\ state.pc = pc /\ state.run = r
    BY <1>1 DEF TypeOK, TaskStates, Runs
  <2>2. task' = [task EXCEPT !["daily"] = state]
    BY <1>1, <1>3, TaskMoves
  <2> QED
    BY <2>1, <2>2
<1>4. CASE daily = 0 /\ DailyBegins
  <2>1. /\ NextRun \in Runs /\ Opens(NextRun, 0) /\ daily' = NextRun
        /\ TaskGoes("daily", "seal", NextRun)
    BY <1>4 DEF DailyBegins
  <2>2. /\ run' \in [Runs -> RunRow]
        /\ run'[NextRun] = [status |-> "running", of |-> 0]
        /\ \A q \in Runs : q # NextRun => run'[q] = run[q]
        /\ InOrder'
        /\ run[NextRun].status = "none"
    BY <2>1, NextIsNew, OpeningNext, BoundAssumption
  <2>3. PICK state \in TaskStates :
            task' = [task EXCEPT !["daily"] = state] /\ state.pc = "seal" /\ state.run = NextRun
    BY <1>3, <2>1
  <2>4. daily' \in 0..MaxRun /\ DailyIsOpen'
    BY <2>1, <2>2 DEF DailyIsOpen, Runs
  <2>5. \A r \in Runs : run[r].status # "none" =>
                run'[r].status # "none" /\ run'[r].of = run[r].of
    BY <2>2
  <2>6. state.run \in Runs /\ run'[state.run].status # "none" /\ state.pc = "seal"
    BY <2>1, <2>2, <2>3
  <2> QED
    BY <1>1, <1>2, <2>2, <2>3, <2>4, <2>5, <2>6, TypedAfterTask
<1>5. CASE ~(daily = 0 /\ DailyBegins)
  <2>1. /\ daily \in Runs /\ run[daily].status # "none" /\ UNCHANGED <<run, daily>>
        /\ \E pc \in {"seal", "wake"} : TaskGoes("daily", pc, daily)
    BY <1>1, <1>5, BoundAssumption DEF DailyBegins, DailyResumes, TypeOK, Runs
  <2>2. PICK state \in TaskStates :
            /\ task' = [task EXCEPT !["daily"] = state]
            /\ state.pc \in {"seal", "wake"} /\ state.run = daily
    BY <1>3, <2>1
  <2> QED
    BY <1>1, <1>2, <2>1, <2>2, TaskPhaseTyped
<1> QED
  BY <1>4, <1>5

LEMMA BootsTyped ==
    ASSUME Typed, NEW pc \in {"open", "wake", "recover"}, NEW r \in 0..MaxRun, Boots(pc, r),
           pc # "open" => r \in Runs /\ run[r].status # "none", RunsStay,
           Bystanders', UNCHANGED <<job, consumer, daily>>
    PROVE  Typed'
<1> DEFINE state == [pc |-> pc, run |-> r, version |-> rollout # "success"]
<1>1. /\ state \in TaskStates /\ state.pc = pc /\ state.run = r
      /\ task' = [task EXCEPT !["bootstrap"] = state] /\ "bootstrap" \in Tasks
  BY DEF TaskStates, Boots, Tasks
<1>2. job' \in [Runs -> [Jobs -> Rows]]
  BY JobTable DEF Typed
<1> HIDE DEF state
<1> QED
  BY <1>1, <1>2, TaskPhaseTyped

LEMMA WatchingTyped ==
    ASSUME Typed, Watching
    PROVE  Typed'
<1>1. /\ TypeOK /\ Bystanders /\ (UNCHANGED run => RunsStay) /\ 0 \in 0..MaxRun
      /\ \A r \in Runs : r \in 0..MaxRun
  <2>1. TypeOK /\ Bystanders
    BY DEF Typed, TypeOK, Bystanders
  <2>2. 0 \in 0..MaxRun /\ \A r \in Runs : r \in 0..MaxRun
    BY BoundAssumption DEF Runs
  <2> QED
    BY <2>1, <2>2, ClosesRuns
<1>2. CASE RolloutClaimed
  BY <1>1, <1>2, BootsTyped DEF RolloutClaimed, Bystanders, queue, history
<1>3. CASE FirstDispatch
  BY <1>1, <1>3, BootsTyped DEF FirstDispatch, Bystanders, queue, history
<1>4. CASE StalledRewoken
  BY <1>1, <1>4, BootsTyped DEF StalledRewoken, LatestIf, Bystanders, queue, history
<1>5. CASE StrandedFailed
  BY <1>1, <1>5, BootsTyped, ClosesRuns DEF StrandedFailed, LatestIf, Bystanders, queue, history
<1>6. CASE FailureFound
  BY <1>1, <1>6, BootsTyped DEF FailureFound, LatestIf, Bystanders, queue, history
<1> QED
  BY <1>2, <1>3, <1>4, <1>5, <1>6 DEF Watching

LEMMA RecoveringTyped ==
    ASSUME Typed, Recovering
    PROVE  Typed'
<1> DEFINE t == "bootstrap"
           Goal(state) == /\ state \in TaskStates /\ task' = [task EXCEPT ![t] = state]
<1>1. /\ TypeOK /\ Bystanders /\ job \in [Runs -> [Jobs -> Rows]] /\ TaskShape
      /\ t \in Tasks /\ task[t] \in TaskStates /\ (UNCHANGED run => RunsStay)
      /\ run \in [Runs -> RunRow]
  BY JobTable, ClosesRuns DEF Typed, TypeOK, Bystanders, Tasks, RunRow, Phases
<1>2. ASSUME NEW r \in Runs, NEW pc \in {"seal", "wake", "abandon", "adopt"}, TaskGoes(t, pc, r)
      PROVE  \E state \in TaskStates :
                /\ task' = [task EXCEPT ![t] = state]
                /\ state.pc = pc /\ state.run = r
  <2> DEFINE state == [pc |-> pc, run |-> r, version |-> task[t].version]
  <2>1. state \in TaskStates /\ state.pc = pc /\ state.run = r
    BY <1>1 DEF TaskStates, Runs
  <2>2. task' = [task EXCEPT ![t] = state]
    BY <1>1, <1>2, TaskMoves
  <2> QED
    BY <2>1, <2>2
<1>3. TaskEnds(t, "idle") => \E state \in TaskStates :
                task' = [task EXCEPT ![t] = state] /\ state.pc = "idle"
  <2>1. [pc |-> "idle", run |-> 0, version |-> FALSE] \in TaskStates
    BY BoundAssumption DEF TaskStates
  <2> QED
    BY <2>1 DEF TaskEnds
<1>4. /\ UNCHANGED <<domain, rollout, queue, consumer, history>>
      /\ versioned' \subseteq Runs => Bystanders'
  BY <1>1 DEF Recovering, RecoveryOpens, Abandons, RunAdopted, DispatchOpens, Bystanders,
              queue, history
<1>5. ASSUME NEW r \in Runs, NEW of \in 0..MaxRun, NEW pc \in {"seal", "abandon"},
             Opens(r, of), TaskGoes(t, pc, r), run[r].status = "none",
             pc = "abandon" => of \in Runs,
             r = NextRun \/ (r - 1 \in Runs /\ run[r - 1].status # "none"),
             UNCHANGED <<job, versioned>>, UNCHANGED daily \/ daily' = r
      PROVE  Typed'
  <2>1. /\ run' \in [Runs -> RunRow]
        /\ run'[r] = [status |-> "running", of |-> of]
        /\ \A q \in Runs : q # r => run'[q] = run[q]
        /\ InOrder'
    BY <1>5, OpeningNext
  <2>2. PICK state \in TaskStates :
            task' = [task EXCEPT ![t] = state] /\ state.pc = pc /\ state.run = r
    BY <1>2, <1>5
  <2>3. daily' \in 0..MaxRun /\ DailyIsOpen'
    BY <1>5, <2>1 DEF DailyIsOpen, Runs, Typed, TypeOK
  <2>4. \A q \in Runs : run[q].status # "none" =>
                run'[q].status # "none" /\ run'[q].of = run[q].of
    BY <1>5, <2>1
  <2>5. state.run \in Runs /\ run'[state.run].status # "none"
    BY <2>1, <2>2
  <2>6. state.pc \in {"abandon", "adopt"} => run'[state.run].of \in Runs
    BY <1>5, <2>1, <2>2
  <2> QED
    BY <1>1, <1>4, <1>5, <2>1, <2>2, <2>3, <2>4, <2>5, <2>6, TypedAfterTask DEF Bystanders
<1>6. ASSUME UNCHANGED <<run, daily>>, versioned' \subseteq Runs, TaskEnds(t, "idle"),
             job' \in [Runs -> [Jobs -> Rows]]
      PROVE  Typed'
  <2>1. PICK state \in TaskStates : task' = [task EXCEPT ![t] = state] /\ state.pc = "idle"
    BY <1>3, <1>6
  <2> QED
    BY <1>1, <1>4, <1>6, <2>1, TaskPhaseTyped
<1>7. ASSUME UNCHANGED <<run, daily>>, versioned' \subseteq Runs,
             job' \in [Runs -> [Jobs -> Rows]],
             NEW r \in Runs, NEW pc \in {"seal", "wake", "adopt"}, TaskGoes(t, pc, r),
             run[r].status # "none", run[r].of \in Runs
      PROVE  Typed'
  <2>1. PICK state \in TaskStates :
            task' = [task EXCEPT ![t] = state] /\ state.pc = pc /\ state.run = r
    BY <1>2, <1>7
  <2>2. /\ state.pc \in {"seal", "wake", "recover", "abandon", "adopt"} =>
                state.run \in Runs /\ run[state.run].status # "none"
        /\ state.pc \in {"abandon", "adopt"} => run[state.run].of \in Runs
    BY <1>7, <2>1
  <2>3. Bystanders' /\ RunsStay
    BY <1>1, <1>4, <1>7
  <2> QED
    BY <1>1, <1>4, <1>7, <2>1, <2>2, <2>3, TaskPhaseTyped
<1>8. CASE DispatchOpens
  <2>1. CASE NextRun \in Runs
    BY <1>5, <1>8, <2>1, NextIsNew, BoundAssumption DEF DispatchOpens
  <2>2. CASE NextRun \notin Runs
    BY <1>1, <1>6, <1>8, <2>2 DEF DispatchOpens, Bystanders
  <2> QED
    BY <2>1, <2>2
<1>9. CASE RecoveryOpens
  <2> DEFINE of == task[t].run
  <2>1. of \in Runs /\ run[of].status # "none" /\ UNCHANGED <<job, versioned, daily>>
    BY <1>1, <1>9 DEF RecoveryOpens, TaskShape
  <2>2. CASE /\ of + 1 \in Runs /\ run[of + 1].status = "none"
             /\ Opens(of + 1, of) /\ TaskGoes(t, "abandon", of + 1)
    <3>1. (of + 1) - 1 = of /\ of \in 0..MaxRun
      BY <2>1 DEF Runs
    <3> QED
      BY <1>5, <2>1, <2>2, <3>1
  <2>3. CASE UNCHANGED run /\ TaskEnds(t, "idle")
    BY <1>1, <1>6, <2>1, <2>3 DEF Bystanders
  <2> QED
    BY <1>9, <2>2, <2>3 DEF RecoveryOpens
<1>10. CASE Abandons
  <2> DEFINE r == task[t].run  of == run[r].of
             table == [k \in Jobs |->
                 IF job[of][k].status \in Live
                 THEN [job[of][k] EXCEPT !.status = "abandoned", !.lapsed = FALSE]
                 ELSE job[of][k]]
  <2>1. r \in Runs /\ run[r].status # "none" /\ of \in Runs
    BY <1>1, <1>10 DEF Abandons, TaskShape
  <2>2. table \in [Jobs -> Rows]
    <3>1. \A row \in Rows : [row EXCEPT !.status = "abandoned", !.lapsed = FALSE] \in Rows
      BY DEF Rows, GoodRow, JobRows, Terminal
    <3> QED
      BY <1>1, <2>1, <3>1
  <2>3. job' = [job EXCEPT ![of] = table]
    BY <1>10 DEF Abandons
  <2>4. UNCHANGED <<run, daily, versioned>> /\ TaskGoes(t, "adopt", r)
    BY <1>10 DEF Abandons
  <2> HIDE DEF table
  <2>5. job' \in [Runs -> [Jobs -> Rows]]
    BY <1>1, <2>2, <2>3
  <2> QED
    BY <1>1, <1>7, <2>1, <2>4, <2>5 DEF Bystanders
<1>11. CASE RunAdopted
  <2> DEFINE r == task[t].run  of == run[r].of
             table == [k \in Jobs |-> Inherited(of, k)]
  <2>1. r \in Runs /\ run[r].status # "none" /\ of \in Runs
    BY <1>1, <1>11 DEF RunAdopted, TaskShape
  <2>2. table \in [Jobs -> Rows]
    BY <1>1, <2>1, InheritedRows
  <2>3. UNCHANGED <<run, daily>>
    BY <1>11 DEF RunAdopted
  <2> HIDE DEF table
  <2>4. CASE /\ job' = [job EXCEPT ![r] = table]
             /\ versioned' = IF of \in versioned THEN versioned \cup {r} ELSE versioned
             /\ TaskGoes(t, "wake", r)
    <3>1. job' \in [Runs -> [Jobs -> Rows]] /\ versioned' \subseteq Runs
      BY <1>1, <2>1, <2>2, <2>4 DEF Bystanders
    <3> QED
      BY <1>7, <2>1, <2>3, <2>4, <3>1
  <2>5. CASE TaskEnds(t, "idle") /\ UNCHANGED <<job, versioned>>
    BY <1>1, <1>6, <2>3, <2>5 DEF Bystanders
  <2>6. CASE /\ \E pc \in {"seal", "wake"} : TaskGoes(t, pc, r)
             /\ UNCHANGED <<job, versioned>>
    BY <1>1, <1>7, <2>1, <2>3, <2>6 DEF Bystanders
  <2>7. \/ /\ job' = [job EXCEPT ![r] = table]
           /\ versioned' = IF of \in versioned THEN versioned \cup {r} ELSE versioned
           /\ TaskGoes(t, "wake", r)
        \/ TaskEnds(t, "idle") /\ UNCHANGED <<job, versioned>>
        \/ (\E pc \in {"seal", "wake"} : TaskGoes(t, pc, r)) /\ UNCHANGED <<job, versioned>>
    BY <1>11 DEF RunAdopted, table
  <2> QED
    BY <2>4, <2>5, <2>6, <2>7
<1> QED
  BY <1>8, <1>9, <1>10, <1>11 DEF Recovering

LEMMA TypedInit == Init => Typed
<1> SUFFICES ASSUME Init PROVE Typed
  OBVIOUS
<1>1. 0 \in 0..MaxRun /\ 0 \in 0..MaxWakes /\ 0 \in 0..MaxFaults /\ 0 \in 0..MaxJobs
      /\ 0 \in 0..MaxSource /\ Finalizer \in Jobs
  BY BoundAssumption DEF Jobs
<1>2. NoRun \in RunRow /\ NoJob \in Rows /\ Free \in ConsumerStates /\ Asleep \in TaskStates
  BY <1>1, NewRows DEF NoRun, RunRow, Phases, Free, ConsumerStates, Asleep, TaskStates
<1>3. job \in [Runs -> [Jobs -> Rows]]
  BY <1>2 DEF Init
<1>4. domain \in [run : 0..MaxRun, job : Jobs, live : BOOLEAN]
  BY <1>1 DEF Init, Unheld
<1>5. TypeOK
  BY <1>1, <1>2, <1>3, <1>4 DEF Init, TypeOK, RunRow, Phases, Rows, GoodRow
<1>6. Opened = 1..0
  BY DEF Opened, Init, NoRun
<1>7. InOrder
  BY <1>1, <1>6 DEF InOrder
<1> QED
  BY <1>5, <1>7 DEF Typed, Init, ConsumerShape, TaskShape, DailyIsOpen, Free, Asleep

LEMMA TypedStep == Typed /\ [Next]_vars => Typed'
<1> SUFFICES ASSUME Typed, [Next]_vars PROVE Typed'
  OBVIOUS
<1>1. CASE \E c \in Consumers :
               \/ Claiming(c) \/ SliceEnds(c) \/ Crash(c)
               \/ \E r \in Runs : WakeTaken(c, r)
  BY <1>1, SlicesTyped DEF Claiming
<1>2. CASE \E c \in Consumers : Processing(c) \/ Throws(c)
  BY <1>2, ProcessingTyped
<1>3. CASE \/ \E r \in Runs : Duplicated(r) \/ WakeDies(r)
           \/ Expiring \/ Cleaning
  BY <1>3, FaultsTyped DEF Expiring, Cleaning
<1>4. CASE DailyBegins \/ DailyResumes
  BY <1>4, DailyTyped
<1>5. CASE \E t \in Tasks : Dispatching(t) \/ TaskStops(t)
  BY <1>5, TasksTyped
<1>6. CASE Watching \/ Recovering
  BY <1>6, WatchingTyped, RecoveringTyped
<1>7. CASE UNCHANGED vars
  BY <1>7 DEF vars, Typed, TypeOK, ConsumerShape, TaskShape, InOrder, Opened, DailyIsOpen
<1> QED
  BY <1>1, <1>2, <1>3, <1>4, <1>5, <1>6, <1>7 DEF Next, WakeDelivered

\* Runs, jobs, leases, consumers and tasks are in the states the code gives them.
THEOREM TypeCorrect == Spec => []TypeOK
<1>1. Spec => []Typed
  BY TypedInit, TypedStep, PTL DEF Spec
<1>2. Typed => TypeOK
  BY DEF Typed
<1> QED
  BY <1>1, <1>2, PTL

(***************************************************************************)
(* What a step does to runs and their jobs.                                *)
(***************************************************************************)

\* A row that is rewritten stays a row, and no answer is taken back.
Heir(old, row) ==
    /\ row.status = "none" <=> old.status = "none"
    /\ row.status \in Live => old.status \in Live

\* The jobs of one run go on,
Proceeds ==
    /\ UNCHANGED run
    /\ \/ UNCHANGED job
       \/ \E r \in Runs : \E table \in [Jobs -> Rows] :
            /\ job' = [job EXCEPT ![r] = table]
            /\ \A k \in Jobs : Heir(job[r][k], table[k])

\* or one run is sealed,
Seals ==
    /\ UNCHANGED run
    /\ \E r \in Runs : \E table \in [Jobs -> Rows] :
        /\ job' = [job EXCEPT ![r] = table]
        /\ ~IsSealed(r) /\ run[r].status # "none" /\ table[Finalizer].status # "none"

\* or one run begins or ends.
Turns ==
    /\ UNCHANGED job
    /\ \E r \in Runs : \E row \in RunRow :
        /\ run' = [run EXCEPT ![r] = row]
        /\ \/ run[r].status = "none" /\ row.status = "running"
           \/ run[r].status = "running" /\ row.status = "failed"
           \/ /\ run[r].status = "running" /\ row.status = "success"
              /\ IsSealed(r) /\ LiveTargets(r) = {}

Moves == Proceeds \/ Seals \/ Turns

\* What the consumers of the next state hold was true of the tables before.
WasRecorded(c) ==
    /\ consumer'[c].pc \notin {"idle", "claim"} =>
          /\ consumer'[c].run \in Runs /\ consumer'[c].job \in Jobs
          /\ job[consumer'[c].run][consumer'[c].job].status # "none"
    /\ consumer'[c].pc \in {"final", "finish", "version", "close"} => consumer'[c].job = Finalizer
    /\ consumer'[c].pc = "finish" => LiveTargets(consumer'[c].run) = {}

WorkWasRecorded == \A c \in Consumers : WasRecorded(c)

WasRecordedBefore(c) ==
    /\ consumer[c].pc \notin {"idle", "claim"} =>
          /\ consumer[c].run \in Runs /\ consumer[c].job \in Jobs
          /\ job[consumer[c].run][consumer[c].job].status # "none"
    /\ consumer[c].pc \in {"final", "finish", "version", "close"} => consumer[c].job = Finalizer
    /\ consumer[c].pc = "finish" => LiveTargets(consumer[c].run) = {}

LEMMA WorkBefore ==
    ASSUME Typed, Recorded, NEW c \in Consumers
    PROVE  WasRecordedBefore(c)
<1>1. consumer[c].run \in 0..MaxRun /\ consumer[c].job \in Jobs
  BY DEF Typed, TypeOK, ConsumerStates
<1> QED
  BY <1>1 DEF Typed, ConsumerShape, Recorded, WorkIsRecorded, WasRecordedBefore

LEMMA SettledRows ==
    ASSUME NEW row \in Rows, row.status # "none"
    PROVE  /\ Claimable(row) => Heir(row, Claimed(row))
           /\ Heir(row, Retried(row)) /\ Heir(row, Attempted(row))
           /\ Heir(row, Completed(row)) /\ Heir(row, DeadLettered(row))
<1>1. Claimable(row) => row.status \in Live
  BY DEF Claimable, Live
<1>2. /\ Claimed(row).status = "processing" /\ Attempted(row).status = row.status
      /\ Completed(row).status = "completed" /\ DeadLettered(row).status = "dead"
      /\ Retried(row).status = IF row.status = "processing" THEN "retrying" ELSE row.status
  BY DEF Claimed, Attempted, Completed, DeadLettered, Retried, Rows, JobRows
<1> QED
  BY <1>1, <1>2 DEF Heir, Live, Waiting

LEMMA WriteProceeds ==
    ASSUME TypeOK, NEW r \in Runs, NEW k \in Jobs, NEW row \in Rows, Write(r, k, row),
           Heir(job[r][k], row), UNCHANGED run
    PROVE  Proceeds
<1> DEFINE table == [job[r] EXCEPT ![k] = row]
<1>1. job \in [Runs -> [Jobs -> Rows]]
  BY JobTable
<1>2. table \in [Jobs -> Rows] /\ job' = [job EXCEPT ![r] = table]
  BY <1>1 DEF Write
<1>3. \A q \in Jobs : Heir(job[r][q], table[q])
  BY <1>1 DEF Heir
<1> QED
  BY <1>2, <1>3 DEF Proceeds

\* A consumer's step leaves what the others hold.
LEMMA WorkOfOthers ==
    ASSUME Typed, Recorded, NEW c \in Consumers,
           \A d \in Consumers : d # c => consumer'[d] = consumer[d],
           consumer'[c].pc \notin {"idle", "claim"} =>
               /\ consumer'[c].run = consumer[c].run /\ consumer'[c].job = consumer[c].job
               /\ consumer[c].pc \notin {"idle", "claim"},
           consumer'[c].pc \in {"final", "finish", "version", "close"} =>
               consumer[c].pc \in {"final", "finish", "version", "close"},
           consumer'[c].pc = "finish" => LiveTargets(consumer[c].run) = {}
    PROVE  WorkWasRecorded
<1> SUFFICES ASSUME NEW d \in Consumers PROVE WasRecorded(d)
  BY DEF WorkWasRecorded
<1>1. WasRecordedBefore(d) /\ WasRecordedBefore(c)
  BY WorkBefore
<1>2. CASE d = c
  <2>1. CASE consumer'[c].pc \in {"idle", "claim"}
    BY <1>2, <2>1 DEF WasRecorded
  <2>2. CASE consumer'[c].pc \notin {"idle", "claim"}
    BY <1>1, <1>2, <2>2 DEF WasRecorded, WasRecordedBefore
  <2> QED
    BY <2>1, <2>2
<1>3. CASE d # c
  BY <1>1, <1>3 DEF WasRecorded, WasRecordedBefore
<1> QED
  BY <1>2, <1>3

LEMMA SlicesMove ==
    ASSUME Typed, Recorded, NEW c \in Consumers,
           \/ \E r \in Runs : WakeTaken(c, r)
           \/ \E k \in Jobs : ClaimNext(c, k)
           \/ SliceEnds(c) \/ Crash(c)
    PROVE  Moves /\ WorkWasRecorded
<1>1. TypeOK /\ consumer \in [Consumers -> ConsumerStates]
  BY DEF Typed, TypeOK
<1>2. CASE (\E r \in Runs : WakeTaken(c, r)) \/ SliceEnds(c) \/ Crash(c)
  <2>1. /\ UNCHANGED <<run, job>>
        /\ \E r : consumer' = [consumer EXCEPT ![c] = Slice(r, 0)] \/ Stops(c)
    BY <1>2 DEF WakeTaken, SliceEnds, Crash
  <2>2. /\ \A d \in Consumers : d # c => consumer'[d] = consumer[d]
        /\ consumer'[c].pc \in {"idle", "claim"}
    BY <1>1, <2>1 DEF Stops, Free, Slice
  <2> QED
    BY <2>1, <2>2, WorkOfOthers DEF Moves, Proceeds
<1>3. ASSUME NEW k \in Jobs, ClaimNext(c, k)
      PROVE  Moves /\ WorkWasRecorded
  <2> DEFINE r == consumer[c].run
             pc == IF k = Finalizer THEN "final" ELSE "domain"
             last == Claimed(job[r][k]).delivery >= MaxDelivery
  <2>1. r \in Runs /\ job[r][k] \in Rows
    BY <1>1, <1>3, JobTable DEF ClaimNext, Typed, ConsumerShape
  <2>2. /\ Write(r, k, Claimed(job[r][k])) /\ Claimable(job[r][k]) /\ UNCHANGED run
        /\ consumer' = [consumer EXCEPT ![c].pc = pc, ![c].job = k, ![c].last = last]
    BY <1>3 DEF ClaimNext, Takes
  <2>3. job[r][k].status # "none"
    BY <2>2 DEF Claimable, Waiting
  <2>4. Proceeds
    BY <1>1, <2>1, <2>2, <2>3, RowWrites, SettledRows, WriteProceeds
  <2>5. pc \in {"final", "domain"} /\ (pc = "final" => k = Finalizer)
    OBVIOUS
  <2> HIDE DEF pc, last
  <2>6. /\ \A d \in Consumers : d # c => consumer'[d] = consumer[d]
        /\ consumer'[c].pc = pc /\ consumer'[c].run = r /\ consumer'[c].job = k
    BY <1>1, <2>2 DEF ConsumerStates
  <2>7. ASSUME NEW d \in Consumers PROVE WasRecorded(d)
    <3>1. CASE d = c
      BY <2>1, <2>3, <2>5, <2>6, <3>1 DEF WasRecorded
    <3>2. CASE d # c
      BY <2>6, <3>2, WorkBefore DEF WasRecorded, WasRecordedBefore
    <3> QED
      BY <3>1, <3>2
  <2> QED
    BY <2>4, <2>7 DEF Moves, WorkWasRecorded
<1> QED
  BY <1>2, <1>3

LEMMA ProcessingMoves ==
    ASSUME Typed, Recorded, NEW c \in Consumers, Processing(c) \/ Throws(c)
    PROVE  Moves /\ WorkWasRecorded
<1> DEFINE r == consumer[c].run  k == consumer[c].job
<1>1. /\ TypeOK /\ job \in [Runs -> [Jobs -> Rows]] /\ consumer \in [Consumers -> ConsumerStates]
      /\ run \in [Runs -> RunRow]
  BY JobTable DEF Typed, TypeOK, RunRow, Phases
<1>2. consumer[c].pc \notin {"idle", "claim"}
  BY DEF Processing, Throws, DomainAcquired, DomainBusy, DomainReleased, Answered, ErrorRetried,
         ErrorExhausted, RunFailed, VersionFailed, FinalizerChecks, RunFinished,
         VersionFinished, FinalizerCompleted
<1>3. /\ r \in Runs /\ k \in Jobs /\ job[r][k] \in Rows /\ job[r][k].status # "none"
      /\ Finalizer \in Jobs /\ job[r][Finalizer] \in Rows /\ IsSealed(r)
      /\ consumer[c].pc \in {"final", "finish", "version", "close"} => k = Finalizer
      /\ consumer[c].pc = "finish" => LiveTargets(r) = {}
  <2>1. WasRecordedBefore(c)
    BY WorkBefore
  <2>2. r \in Runs /\ k \in Jobs /\ job[r][k].status # "none"
    BY <1>2, <2>1 DEF WasRecordedBefore
  <2>3. IsSealed(r)
    BY <2>2 DEF Recorded, Sealing
  <2> QED
    BY <1>1, <2>1, <2>2, <2>3 DEF WasRecordedBefore, Jobs
<1> HIDE DEF r, k
<1>4. ASSUME \/ After(c)
             \/ \E pc \in {"answered", "deferred", "errored", "failing", "failrun", "failversion"} :
                    Goes(c, pc)
             \/ /\ consumer[c].pc \in {"final", "finish", "version"}
                /\ Goes(c, "version") \/ Goes(c, "close")
             \/ consumer[c].pc = "final" /\ LiveTargets(r) = {} /\ Goes(c, "finish")
      PROVE  WorkWasRecorded
  <2>1. CASE After(c)
    <3>1. /\ \A d \in Consumers : d # c => consumer'[d] = consumer[d]
          /\ consumer'[c].pc = "claim"
      BY <1>1, <2>1 DEF After, Slice
    <3> QED
      BY <3>1, WorkOfOthers
  <2>2. ASSUME NEW pc, Goes(c, pc),
               pc \in {"final", "finish", "version", "close"} =>
                   consumer[c].pc \in {"final", "finish", "version", "close"},
               pc = "finish" => LiveTargets(r) = {}
        PROVE  WorkWasRecorded
    <3>1. /\ \A d \in Consumers : d # c => consumer'[d] = consumer[d]
          /\ consumer'[c].pc = pc /\ consumer'[c].run = consumer[c].run
          /\ consumer'[c].job = consumer[c].job
      BY <1>1, <2>2 DEF Goes, ConsumerStates
    <3> QED
      BY <1>2, <2>2, <3>1, WorkOfOthers DEF r
  <2> QED
    BY <1>4, <2>1, <2>2
<1>5. ASSUME UNCHANGED run, NEW q \in {k, Finalizer}, NEW row, Write(r, q, row),
             row \in {Retried(job[r][q]), Completed(job[r][q]), DeadLettered(job[r][q]),
                      Attempted(job[r][q])}
      PROVE  Proceeds
  <2>1. job[r][q] \in Rows /\ job[r][q].status # "none" /\ q \in Jobs
    BY <1>3, <1>5 DEF IsSealed
  <2> QED
    BY <1>1, <1>3, <1>5, <2>1, RowWrites, SettledRows, WriteProceeds
<1>6. ASSUME NEW status \in {"success", "failed"}, Closes(r, status), UNCHANGED job,
             status = "success" => LiveTargets(r) = {}
      PROVE  Moves
  <2>1. CASE run[r].status = "running"
    <3> DEFINE row == [run[r] EXCEPT !.status = status]
    <3>1. run' = [run EXCEPT ![r] = row]
      BY <1>6, <2>1 DEF Closes
    <3>2. row \in RunRow /\ row.status = status
      BY <1>1, <1>3, <1>6 DEF RunRow, Phases
    <3> HIDE DEF row
    <3> QED
      BY <1>3, <1>6, <2>1, <3>1, <3>2 DEF Moves, Turns
  <2>2. CASE run[r].status # "running"
    <3>1. UNCHANGED run
      BY <1>1, <1>3, <1>6, <2>2 DEF Closes, RunRow
    <3> QED
      BY <1>6, <3>1 DEF Moves, Proceeds
  <2> QED
    BY <2>1, <2>2
<1>7. CASE DomainAcquired(c)
  <2>1. /\ Write(r, k, Attempted(job[r][k])) /\ UNCHANGED run
        /\ \E source : consumer' = [consumer EXCEPT ![c].pc = "request", ![c].source = source]
    BY <1>7 DEF DomainAcquired, r, k
  <2>2. /\ \A d \in Consumers : d # c => consumer'[d] = consumer[d]
        /\ consumer'[c].pc = "request" /\ consumer'[c].run = consumer[c].run
        /\ consumer'[c].job = consumer[c].job
    BY <1>1, <2>1 DEF ConsumerStates
  <2> QED
    BY <1>2, <1>5, <2>1, <2>2, WorkOfOthers DEF Moves
<1>8. CASE DomainBusy(c) \/ ErrorRetried(c) \/ ErrorExhausted(c)
  BY <1>4, <1>5, <1>8 DEF DomainBusy, ErrorRetried, ErrorExhausted, r, k, Moves
<1>9. CASE \E transient \in BOOLEAN : Answered(c, transient)
  BY <1>4, <1>5, <1>9 DEF Answered, r, k, Moves
<1>10. CASE DomainReleased(c) \/ Throws(c) \/ VersionFailed(c) \/ VersionFinished(c)
  <2>1. Moves
    BY <1>10 DEF DomainReleased, Throws, VersionFailed, VersionFinished, Moves, Proceeds
  <2> QED
    BY <1>4, <1>10, <2>1 DEF DomainReleased, Throws, VersionFailed, VersionFinished
<1>11. CASE RunFailed(c)
  BY <1>4, <1>6, <1>11 DEF RunFailed, r
<1>12. CASE RunFinished(c)
  <2>1. Closes(r, "success") /\ UNCHANGED job /\ consumer[c].pc = "finish"
        /\ (Goes(c, "version") \/ Goes(c, "close"))
    BY <1>12 DEF RunFinished, r
  <2> QED
    BY <1>3, <1>4, <1>6, <2>1
<1>13. CASE FinalizerChecks(c)
  <2>1. CASE UNCHANGED <<run, job>> /\ Goes(c, "close") /\ consumer[c].pc = "final"
    BY <1>4, <2>1 DEF Moves, Proceeds
  <2>2. CASE UNCHANGED <<run, job>> /\ Goes(c, "finish") /\ consumer[c].pc = "final"
             /\ LiveTargets(r) = {}
    BY <1>4, <2>2 DEF Moves, Proceeds
  <2>3. CASE UNCHANGED run /\ Write(r, Finalizer, Retried(job[r][Finalizer])) /\ After(c)
    BY <1>4, <1>5, <2>3 DEF Moves
  <2> QED
    BY <1>13, <2>1, <2>2, <2>3 DEF FinalizerChecks, r
<1>14. CASE FinalizerCompleted(c)
  BY <1>4, <1>5, <1>14 DEF FinalizerCompleted, r, Moves
<1> QED
  BY <1>7, <1>8, <1>9, <1>10, <1>11, <1>12, <1>13, <1>14 DEF Processing

\* Consumers that stand still.
LEMMA WorkStands ==
    ASSUME Typed, Recorded, UNCHANGED consumer
    PROVE  WorkWasRecorded
BY WorkBefore DEF WorkWasRecorded, WasRecorded, WasRecordedBefore

LEMMA FaultsMove ==
    ASSUME Typed, Recorded,
           \/ \E r \in Runs : Duplicated(r) \/ WakeDies(r) \/ DeadWakeHandled(r)
           \/ \E r \in Runs : \E k \in Jobs : LeaseLapses(r, k)
           \/ DomainLapses
    PROVE  Moves /\ WorkWasRecorded
<1>1. TypeOK /\ job \in [Runs -> [Jobs -> Rows]]
  BY JobTable DEF Typed
<1>2. UNCHANGED consumer
  BY DEF Duplicated, WakeDies, DeadWakeHandled, LeaseLapses, DomainLapses
<1> SUFFICES Moves
  BY <1>2, WorkStands
<1>3. ASSUME NEW r \in Runs, NEW k \in Jobs, LeaseLapses(r, k)
      PROVE  Moves
  <2> DEFINE old == job[r][k]
             row == [old EXCEPT !.lapsed = TRUE]
  <2>1. old \in Rows /\ old.status = "processing" /\ Write(r, k, row) /\ UNCHANGED run
    BY <1>1, <1>3 DEF LeaseLapses
  <2> HIDE DEF old
  <2>2. row \in Rows /\ Heir(old, row)
    BY <2>1 DEF Rows, GoodRow, JobRows, Heir
  <2> HIDE DEF row
  <2> QED
    BY <1>1, <2>1, <2>2, WriteProceeds DEF Moves, old
<1>4. CASE \/ \E r \in Runs : Duplicated(r) \/ WakeDies(r) \/ DeadWakeHandled(r)
           \/ DomainLapses
  BY <1>4 DEF Duplicated, WakeDies, DeadWakeHandled, DomainLapses, Moves, Proceeds
<1> QED
  BY <1>3, <1>4

\* A run opens.
LEMMA OpensTurns ==
    ASSUME Typed, NEW r \in Runs, NEW of \in 0..MaxRun, Opens(r, of), run[r].status = "none",
           UNCHANGED job
    PROVE  Moves
<1> DEFINE row == [status |-> "running", of |-> of]
<1>1. row \in RunRow /\ row.status = "running" /\ run' = [run EXCEPT ![r] = row]
  BY DEF Opens, RunRow, Phases
<1> HIDE DEF row
<1> QED
  BY <1>1 DEF Moves, Turns

LEMMA TasksMove ==
    ASSUME Typed, Recorded,
           \/ DailyBegins \/ DailyResumes
           \/ \E t \in Tasks : Dispatching(t) \/ TaskStops(t)
           \/ Watching \/ Recovering
    PROVE  Moves /\ WorkWasRecorded
<1>1. /\ TypeOK /\ job \in [Runs -> [Jobs -> Rows]] /\ TaskShape /\ run \in [Runs -> RunRow]
      /\ Finalizer \in Jobs /\ "bootstrap" \in Tasks /\ 0 \in 0..MaxRun
  <2>1. TypeOK /\ TaskShape /\ run \in [Runs -> RunRow]
    BY DEF Typed, TypeOK, RunRow, Phases
  <2>2. Finalizer \in Jobs /\ "bootstrap" \in Tasks /\ 0 \in 0..MaxRun
    BY BoundAssumption DEF Jobs, Tasks
  <2> QED
    BY <2>1, <2>2, JobTable
<1>2. UNCHANGED consumer
  BY DEF DailyBegins, DailyResumes, Dispatching, TaskStops, Watching, Recovering, RunSealed,
         RunWoken, RolloutClaimed, FirstDispatch, StalledRewoken, StrandedFailed, FailureFound,
         RecoveryOpens, Abandons, RunAdopted, DispatchOpens
<1> SUFFICES Moves
  BY <1>2, WorkStands
<1>3. CASE UNCHANGED <<run, job>>
  BY <1>3 DEF Moves, Proceeds
<1>4. CASE DailyBegins \/ DailyResumes
  BY <1>1, <1>3, <1>4, NextIsNew, OpensTurns DEF DailyBegins, DailyResumes
<1>5. ASSUME NEW t \in Tasks, Dispatching(t) \/ TaskStops(t)
      PROVE  Moves
  <2>1. CASE RunWoken(t) \/ TaskStops(t)
    BY <1>3, <2>1 DEF RunWoken, TaskStops
  <2>2. ASSUME NEW targets \in SUBSET Targets, RunSealed(t, targets), ~IsSealed(task[t].run)
        PROVE  Moves
    <3> DEFINE r == task[t].run
               table == [k \in Jobs |-> IF k \in targets \cup {Finalizer} THEN Fresh ELSE NoJob]
    <3>1. table \in [Jobs -> Rows] /\ table[Finalizer].status # "none"
      BY <1>1, NewRows DEF Fresh
    <3>2. r \in Runs /\ run[r].status # "none"
      BY <1>1, <2>2 DEF RunSealed, TaskShape
    <3>3. job' = [job EXCEPT ![r] = table] /\ ~IsSealed(r) /\ UNCHANGED run
      BY <2>2 DEF RunSealed
    <3> HIDE DEF table, r
    <3> QED
      BY <3>1, <3>2, <3>3 DEF Moves, Seals
  <2> QED
    BY <1>3, <1>5, <2>1, <2>2 DEF Dispatching, RunSealed
<1>6. CASE Watching
  <2>1. ASSUME NEW r \in Runs, Closes(r, "failed"), run[r].status = "running", UNCHANGED job
        PROVE  Moves
    <3> DEFINE row == [run[r] EXCEPT !.status = "failed"]
    <3>1. run' = [run EXCEPT ![r] = row]
      BY <2>1 DEF Closes
    <3>2. row \in RunRow /\ row.status = "failed"
      BY <1>1 DEF RunRow, Phases
    <3> HIDE DEF row
    <3> QED
      BY <2>1, <3>1, <3>2 DEF Moves, Turns
  <2> QED
    BY <1>3, <1>6, <2>1 DEF Watching, RolloutClaimed, FirstDispatch, StalledRewoken,
                            StrandedFailed, FailureFound, LatestIf
<1>7. CASE DispatchOpens
  BY <1>1, <1>3, <1>7, NextIsNew, OpensTurns DEF DispatchOpens
<1>8. CASE RecoveryOpens
  BY <1>1, <1>3, <1>8, OpensTurns DEF RecoveryOpens, TaskShape, Runs
<1>9. CASE Abandons
  <2> DEFINE r == task["bootstrap"].run  of == run[r].of
             table == [k \in Jobs |->
                 IF job[of][k].status \in Live
                 THEN [job[of][k] EXCEPT !.status = "abandoned", !.lapsed = FALSE]
                 ELSE job[of][k]]
  <2>1. of \in Runs
    BY <1>1, <1>9 DEF Abandons, TaskShape
  <2>2. \A k \in Jobs : table[k] \in Rows /\ Heir(job[of][k], table[k])
    <3>1. \A row \in Rows :
              /\ [row EXCEPT !.status = "abandoned", !.lapsed = FALSE] \in Rows
              /\ [row EXCEPT !.status = "abandoned", !.lapsed = FALSE].status = "abandoned"
      BY DEF Rows, GoodRow, JobRows, Terminal
    <3>2. \A k \in Jobs : job[of][k] \in Rows
      BY <1>1, <2>1
    <3> HIDE DEF of
    <3> QED
      BY <3>1, <3>2 DEF Heir, Live, Waiting
  <2>3. table \in [Jobs -> Rows]
    BY <2>2
  <2>4. job' = [job EXCEPT ![of] = table] /\ UNCHANGED run
    BY <1>9 DEF Abandons
  <2> HIDE DEF table, of
  <2> QED
    BY <2>1, <2>2, <2>3, <2>4 DEF Moves, Proceeds
<1>10. CASE RunAdopted
  <2> DEFINE r == task["bootstrap"].run  of == run[r].of
             table == [k \in Jobs |-> Inherited(of, k)]
  <2>1. r \in Runs /\ run[r].status # "none" /\ of \in Runs
    BY <1>1, <1>10 DEF RunAdopted, TaskShape
  <2>2. table \in [Jobs -> Rows]
    BY <1>1, <2>1, InheritedRows
  <2>3. IsSealed(of) => table[Finalizer].status # "none"
    BY <1>1 DEF IsSealed, Inherited
  <2>4. UNCHANGED run
    BY <1>10 DEF RunAdopted
  <2>5. \/ UNCHANGED job
        \/ job' = [job EXCEPT ![r] = table] /\ IsSealed(of) /\ ~IsSealed(r)
    BY <1>10 DEF RunAdopted
  <2> HIDE DEF table, of, r
  <2> QED
    BY <1>3, <2>1, <2>2, <2>3, <2>4, <2>5 DEF Moves, Seals
<1> QED
  BY <1>4, <1>5, <1>6, <1>7, <1>8, <1>9, <1>10 DEF Recovering

\* Whatever moves, what is recorded stays so, and answers are kept.
LEMMA MovesKeep ==
    ASSUME Typed, Recorded, Moves
    PROVE  /\ Sealing'
           /\ \A r \in Runs : \A k \in Jobs :
                job[r][k].status # "none" => job'[r][k].status # "none"
           /\ \A r \in Runs : IsSealed(r) => LiveTargets(r)' \subseteq LiveTargets(r)
<1>1. /\ job \in [Runs -> [Jobs -> Rows]] /\ run \in [Runs -> RunRow] /\ Sealing
      /\ Finalizer \in Jobs /\ Targets \subseteq Jobs
  BY JobTable DEF Typed, TypeOK, RunRow, Phases, Recorded, Jobs
<1>2. CASE Proceeds
  <2>1. \A r \in Runs : \A k \in Jobs : Heir(job[r][k], job'[r][k])
    BY <1>1, <1>2 DEF Proceeds, Heir
  <2>2. \A r \in Runs : IsSealed(r)' <=> IsSealed(r)
    BY <1>1, <2>1 DEF Heir, IsSealed
  <2>3. Sealing'
    BY <1>1, <1>2, <2>1, <2>2 DEF Sealing, Proceeds, Heir
  <2> QED
    BY <1>1, <2>1, <2>3 DEF Heir, LiveTargets
<1>3. CASE Seals
  <2>1. PICK r \in Runs, table \in [Jobs -> Rows] :
            /\ job' = [job EXCEPT ![r] = table]
            /\ ~IsSealed(r) /\ run[r].status # "none" /\ table[Finalizer].status # "none"
            /\ UNCHANGED run
    BY <1>3 DEF Seals
  <2>2. job'[r] = table /\ \A q \in Runs : q # r => job'[q] = job[q]
    BY <1>1, <2>1
  <2>3. Sealing'
    BY <1>1, <2>1, <2>2 DEF Sealing, IsSealed
  <2> QED
    BY <1>1, <2>1, <2>2, <2>3 DEF Sealing, IsSealed, LiveTargets
<1>4. CASE Turns
  <2>1. \A r \in Runs : run[r].status # "none" => run'[r].status # "none"
    BY <1>1, <1>4 DEF Turns
  <2> QED
    BY <1>1, <1>4, <2>1 DEF Turns, Sealing, IsSealed, LiveTargets
<1> QED
  BY <1>2, <1>3, <1>4 DEF Moves

LEMMA StepMoves ==
    ASSUME Typed, Recorded, [Next]_vars
    PROVE  Moves /\ WorkWasRecorded
<1>1. CASE \E c \in Consumers :
               \/ Claiming(c) \/ SliceEnds(c) \/ Crash(c)
               \/ \E r \in Runs : WakeTaken(c, r)
  BY <1>1, SlicesMove DEF Claiming
<1>2. CASE \E c \in Consumers : Processing(c) \/ Throws(c)
  BY <1>2, ProcessingMoves
<1>3. CASE \/ \E r \in Runs : Duplicated(r) \/ WakeDies(r)
           \/ Expiring \/ Cleaning
  BY <1>3, FaultsMove DEF Expiring, Cleaning
<1>4. CASE \/ DailyBegins \/ DailyResumes
           \/ \E t \in Tasks : Dispatching(t) \/ TaskStops(t)
           \/ Watching \/ Recovering
  BY <1>4, TasksMove
<1>5. CASE UNCHANGED vars
  BY <1>5, WorkStands DEF vars, Moves, Proceeds
<1> QED
  BY <1>1, <1>2, <1>3, <1>4, <1>5 DEF Next, WakeDelivered

LEMMA RecordedInit == Init => Recorded
<1>1. Init => \A r \in Runs : \A k \in Jobs : job[r][k] = NoJob
  BY DEF Init
<1>2. Init => \A c \in Consumers : consumer[c] = Free
  BY DEF Init
<1> QED
  BY <1>1, <1>2 DEF Recorded, Sealing, WorkIsRecorded, IsSealed, NoJob, Free, Jobs

LEMMA RecordedStep == Typed /\ Recorded /\ [Next]_vars => Recorded'
<1> SUFFICES ASSUME Typed, Recorded, [Next]_vars PROVE Recorded'
  OBVIOUS
<1>1. Moves /\ WorkWasRecorded
  BY StepMoves
<1>2. ASSUME NEW c \in Consumers, NEW r \in Runs, NEW k \in Jobs,
             consumer'[c].run = r, consumer'[c].job = k,
             consumer'[c].pc \notin {"idle", "claim"}
      PROVE  /\ job'[r][k].status # "none"
             /\ consumer'[c].pc = "finish" => LiveTargets(r)' = {}
  <2>1. /\ job[r][k].status # "none"
        /\ consumer'[c].pc = "finish" => LiveTargets(r) = {}
    BY <1>1, <1>2 DEF WorkWasRecorded, WasRecorded
  <2>2. IsSealed(r)
    BY <2>1 DEF Recorded, Sealing
  <2>3. LiveTargets(r)' \subseteq LiveTargets(r) /\ job'[r][k].status # "none"
    BY <1>1, <2>1, <2>2, MovesKeep
  <2> QED
    BY <2>1, <2>3
<1>3. \A c \in Consumers :
        /\ consumer'[c].pc \notin {"idle", "claim"} =>
              consumer'[c].run \in Runs /\ consumer'[c].job \in Jobs
        /\ consumer'[c].pc \in {"final", "finish", "version", "close"} => consumer'[c].job = Finalizer
  BY <1>1 DEF WorkWasRecorded, WasRecorded
<1>4. WorkIsRecorded'
  <2> SUFFICES ASSUME NEW c \in Consumers
               PROVE  (/\ consumer[c].pc \notin {"idle", "claim"} =>
                             job[consumer[c].run][consumer[c].job].status # "none"
                       /\ consumer[c].pc \in {"final", "finish", "version", "close"} =>
                             consumer[c].job = Finalizer
                       /\ consumer[c].pc = "finish" => LiveTargets(consumer[c].run) = {})'
    BY DEF WorkIsRecorded
  <2>1. CASE consumer'[c].pc \notin {"idle", "claim"}
    <3>1. PICK r \in Runs, k \in Jobs : consumer'[c].run = r /\ consumer'[c].job = k
      BY <1>3, <2>1
    <3>2. /\ job'[r][k].status # "none"
          /\ consumer'[c].pc = "finish" => LiveTargets(r)' = {}
      BY <1>2, <2>1, <3>1
    <3> QED
      BY <1>3, <3>1, <3>2 DEF LiveTargets
  <2> QED
    BY <2>1
<1> QED
  BY <1>1, <1>4, MovesKeep DEF Recorded

(***************************************************************************)
(* The refinement.                                                         *)
(***************************************************************************)

Phase == [r \in Runs |-> run[r].status]
Fixed == {r \in Runs : IsSealed(r)}
Open == [r \in Runs |-> LiveTargets(r)]

LEMMA ReviewBegins == Init => Review!Init
<1> SUFFICES ASSUME Init PROVE Review!Init
  OBVIOUS
<1>1. /\ \A r \in Runs : run[r].status = "none" /\ ~IsSealed(r)
      /\ \A r \in Runs : LiveTargets(r) = {}
  BY DEF Init, IsSealed, NoRun, NoJob, LiveTargets, Jobs, Live, Waiting
<1> QED
  BY <1>1 DEF Review!Init

LEMMA ReviewGoesOn ==
    ASSUME Typed, Recorded, Moves
    PROVE  Review!Next \/ (UNCHANGED Phase /\ UNCHANGED Fixed /\ UNCHANGED Open)
<1>1. /\ job \in [Runs -> [Jobs -> Rows]] /\ run \in [Runs -> RunRow] /\ Sealing
      /\ Finalizer \in Jobs /\ Targets \subseteq Jobs
  BY JobTable DEF Typed, TypeOK, RunRow, Phases, Recorded, Jobs
<1>2. ASSUME UNCHANGED run PROVE UNCHANGED Phase
  BY <1>2 DEF Phase
<1>3. ASSUME UNCHANGED job PROVE UNCHANGED Fixed /\ UNCHANGED Open
  BY <1>3 DEF Fixed, Open, IsSealed, LiveTargets
<1>4. ASSUME NEW r \in Runs, NEW table \in [Jobs -> Rows], job' = [job EXCEPT ![r] = table],
             UNCHANGED run
      PROVE  /\ \A q \in Runs : q # r => (IsSealed(q)' <=> IsSealed(q))
             /\ Open' = [Open EXCEPT ![r] = LiveTargets(r)']
             /\ LiveTargets(r)' \in SUBSET Targets
             /\ IsSealed(r)' <=> table[Finalizer].status # "none"
  <2>1. job'[r] = table /\ \A q \in Runs : q # r => job'[q] = job[q]
    BY <1>1, <1>4
  <2> QED
    BY <1>1, <2>1 DEF Open, LiveTargets, IsSealed
<1>5. CASE Proceeds
  <2>1. CASE UNCHANGED job
    BY <1>2, <1>3, <1>5, <2>1 DEF Proceeds
  <2>2. ASSUME NEW r \in Runs, NEW table \in [Jobs -> Rows], job' = [job EXCEPT ![r] = table],
               \A k \in Jobs : Heir(job[r][k], table[k]), UNCHANGED run
        PROVE  Review!Next
    <3> DEFINE targets == LiveTargets(r) \ LiveTargets(r)'
    <3>1. targets \in SUBSET Targets
      BY DEF LiveTargets
    <3>2. LiveTargets(r)' \subseteq LiveTargets(r)
      BY <1>1, <2>2 DEF LiveTargets, Heir
    <3>3. LiveTargets(r)' = LiveTargets(r) \ targets
      BY <3>2
    <3>4. UNCHANGED Fixed
      BY <1>1, <1>4, <2>2 DEF Fixed, Heir, IsSealed
    <3>5. Open[r] = LiveTargets(r) /\ UNCHANGED Phase
      BY <1>2, <2>2 DEF Open
    <3> HIDE DEF targets
    <3>6. Open' = [Open EXCEPT ![r] = @ \ targets]
      BY <1>4, <2>2, <3>3, <3>5
    <3> QED
      BY <3>1, <3>4, <3>5, <3>6 DEF Review!Next, Review!Answer, Phase, Fixed, Open
  <2> QED
    BY <1>5, <2>1, <2>2 DEF Proceeds
<1>6. CASE Seals
  <2>1. PICK r \in Runs, table \in [Jobs -> Rows] :
            /\ job' = [job EXCEPT ![r] = table]
            /\ ~IsSealed(r) /\ run[r].status # "none" /\ table[Finalizer].status # "none"
            /\ UNCHANGED run
    BY <1>6 DEF Seals
  <2>2. Fixed' = Fixed \cup {r}
    BY <1>4, <2>1 DEF Fixed
  <2>3. /\ Open' = [Open EXCEPT ![r] = LiveTargets(r)'] /\ LiveTargets(r)' \in SUBSET Targets
        /\ UNCHANGED Phase /\ Phase[r] # "none" /\ r \notin Fixed
    BY <1>2, <1>4, <2>1 DEF Phase, Fixed
  <2>4. \E targets \in SUBSET Targets : Open' = [Open EXCEPT ![r] = targets]
    BY <2>3
  <2> QED
    BY <2>2, <2>3, <2>4 DEF Review!Next, Review!Fix, Phase, Fixed, Open
<1>7. CASE Turns
  <2>1. PICK r \in Runs, row \in RunRow :
            /\ run' = [run EXCEPT ![r] = row]
            /\ \/ run[r].status = "none" /\ row.status = "running"
               \/ run[r].status = "running" /\ row.status = "failed"
               \/ /\ run[r].status = "running" /\ row.status = "success"
                  /\ IsSealed(r) /\ LiveTargets(r) = {}
    BY <1>7 DEF Turns
  <2>2. UNCHANGED Fixed /\ UNCHANGED Open
    BY <1>3, <1>7 DEF Turns
  <2>3. Phase' = [Phase EXCEPT ![r] = row.status]
    BY <1>1, <2>1 DEF Phase
  <2>4. Phase[r] = run[r].status /\ Open[r] = LiveTargets(r) /\ (r \in Fixed <=> IsSealed(r))
    BY DEF Phase, Open, Fixed
  <2>5. CASE row.status = "running" /\ Phase[r] = "none"
    BY <2>2, <2>3, <2>5 DEF Review!Next, Review!Begin, Phase, Fixed, Open
  <2>6. CASE row.status = "failed" /\ Phase[r] = "running"
    BY <2>2, <2>3, <2>6 DEF Review!Next, Review!Fail, Phase, Fixed, Open
  <2>7. CASE row.status = "success" /\ Phase[r] = "running" /\ r \in Fixed /\ Open[r] = {}
    BY <2>2, <2>3, <2>7 DEF Review!Next, Review!Succeed, Phase, Fixed, Open
  <2> QED
    BY <2>1, <2>4, <2>5, <2>6, <2>7
<1> QED
  BY <1>5, <1>6, <1>7 DEF Moves

\* Whatever messages are lost or doubled, consumers crash or outlive their leases
\* and tasks stop half-way, review runs are what ReviewRuns promises.
THEOREM ReviewsKeepTheirPromise == Spec => ImplementsReview
<1>1. Spec => [](Typed /\ Recorded)
  <2>1. Init => Typed /\ Recorded
    BY TypedInit, RecordedInit
  <2>2. Typed /\ Recorded /\ [Next]_vars => (Typed /\ Recorded)'
    BY TypedStep, RecordedStep
  <2> QED
    BY <2>1, <2>2, PTL DEF Spec
<1>2. Typed /\ Recorded /\ [Next]_vars => [Review!Next]_<<Phase, Fixed, Open>>
  BY StepMoves, ReviewGoesOn
<1>3. [Review!Next]_<<Phase, Fixed, Open>> =>
          [Review!Next]_<<[r \in Runs |-> run[r].status], {r \in Runs : IsSealed(r)},
                         [r \in Runs |-> LiveTargets(r)]>>
  BY DEF Phase, Fixed, Open
<1> QED
  BY <1>1, <1>2, <1>3, ReviewBegins, PTL DEF Spec, ImplementsReview, Review!Spec

(***************************************************************************)
(* One request at a time.                                                  *)
(***************************************************************************)

Known == Typed /\ Recorded /\ Untouchable /\ OneConsumer /\ RequestHoldsDomain

\* A consumer's step that writes no row but its own job's.
OwnRow(c) ==
    /\ \A d \in Consumers : d # c => consumer'[d] = consumer[d]
    /\ \A r \in Runs : \A k \in Jobs :
          ~(r = consumer[c].run /\ k = consumer[c].job) => job'[r][k] = job[r][k]

\* What a consumer works on is in the tables.
LEMMA WorkerKnown ==
    ASSUME Known, NEW c \in Consumers
    PROVE  /\ consumer[c].pc \notin {"idle", "claim"} =>
                 consumer[c].run \in Runs /\ consumer[c].job \in Jobs
           /\ consumer[c].pc \in {"final", "finish", "version", "close"} => consumer[c].job = Finalizer
BY WorkBefore DEF Known, WasRecordedBefore

\* Others' jobs stay theirs.
LEMMA OwnStep ==
    ASSUME Known, NEW c \in Consumers, consumer[c].pc \notin {"idle", "claim"}, OwnRow(c),
           consumer'[c].pc \notin {"idle", "claim"} =>
               /\ consumer'[c].run = consumer[c].run /\ consumer'[c].job = consumer[c].job
               /\ consumer'[c].pc # "deferred" =>
                     ~Claimable(job'[consumer[c].run][consumer[c].job])
    PROVE  Untouchable' /\ OneConsumer'
<1>1. ASSUME NEW d \in Consumers, d # c, consumer[d].pc \notin {"idle", "claim"}
      PROVE  /\ consumer[d].run \in Runs /\ consumer[d].job \in Jobs
             /\ job'[consumer[d].run][consumer[d].job] = job[consumer[d].run][consumer[d].job]
  <2>1. consumer[d].run \in Runs /\ consumer[d].job \in Jobs
    BY <1>1, WorkerKnown
  <2>2. ~(consumer[d].run = consumer[c].run /\ consumer[d].job = consumer[c].job)
    BY <1>1, <2>1 DEF Known, OneConsumer, Works
  <2> QED
    BY <2>1, <2>2 DEF OwnRow
<1>2. Untouchable'
  <2> SUFFICES ASSUME NEW d \in Consumers, consumer'[d].pc \notin {"idle", "claim", "deferred"}
               PROVE  ~Claimable(job'[consumer'[d].run][consumer'[d].job])
    BY DEF Untouchable, Claimable
  <2>1. CASE d = c
    BY <2>1
  <2>2. CASE d # c
    <3>1. consumer'[d] = consumer[d]
      BY <2>2 DEF OwnRow
    <3> QED
      BY <1>1, <2>2, <3>1 DEF Known, Untouchable
  <2> QED
    BY <2>1, <2>2
<1>3. OneConsumer'
  <2>1. ASSUME NEW d \in Consumers, NEW r \in Runs, NEW k \in Jobs, Works(d, r, k)'
        PROVE  Works(d, r, k)
    BY <2>1 DEF Works, OwnRow
  <2> QED
    BY <2>1 DEF Known, OneConsumer
<1> QED
  BY <1>2, <1>3

\* The domain stays with the consumer that asks, when another consumer steps.
LEMMA DomainStays ==
    ASSUME Known, NEW c \in Consumers,
           \A d \in Consumers : d # c => consumer'[d] = consumer[d],
           consumer'[c].pc # "request", UNCHANGED domain
    PROVE  RequestHoldsDomain'
BY DEF Known, RequestHoldsDomain

LEMMA ProcessingExclusive ==
    ASSUME Known, NEW c \in Consumers, Processing(c) \/ Throws(c)
    PROVE  Untouchable' /\ OneConsumer' /\ RequestHoldsDomain'
<1> DEFINE r == consumer[c].run  k == consumer[c].job
<1>1. /\ job \in [Runs -> [Jobs -> Rows]] /\ consumer \in [Consumers -> ConsumerStates]
  BY JobTable DEF Known, Typed, TypeOK
<1>2. consumer[c].pc \notin {"idle", "claim"}
  BY DEF Processing, Throws, DomainAcquired, DomainBusy, DomainReleased, Answered, ErrorRetried,
         ErrorExhausted, RunFailed, VersionFailed, FinalizerChecks, RunFinished,
         VersionFinished, FinalizerCompleted
<1>3. /\ r \in Runs /\ k \in Jobs /\ job[r][k] \in Rows /\ Works(c, r, k)
      /\ consumer[c].pc \in {"final", "finish", "version", "close"} => k = Finalizer
      /\ consumer[c].pc # "deferred" => ~Claimable(job[r][k])
  BY <1>1, <1>2, WorkerKnown DEF Known, Untouchable, Works
<1> HIDE DEF r, k
<1>4. ASSUME NEW row \in Rows, Write(r, k, row)
      PROVE  /\ job'[r][k] = row
             /\ \A q \in Runs : \A j \in Jobs : ~(q = r /\ j = k) => job'[q][j] = job[q][j]
  BY <1>1, <1>3, <1>4 DEF Write
<1>5. ASSUME NEW pc, Goes(c, pc)
      PROVE  /\ \A d \in Consumers : d # c => consumer'[d] = consumer[d]
             /\ consumer'[c].pc = pc /\ consumer'[c].run = r /\ consumer'[c].job = k
  BY <1>1, <1>5 DEF Goes, ConsumerStates, r, k
<1>6. ASSUME After(c)
      PROVE  /\ \A d \in Consumers : d # c => consumer'[d] = consumer[d]
             /\ consumer'[c].pc = "claim"
  BY <1>1, <1>6 DEF After, Slice
\* The job is let go, or goes on without being claimable.
<1>7. ASSUME \/ UNCHANGED job
             \/ \E row \in Rows : Write(r, k, row),
             UNCHANGED domain,
             \/ After(c)
             \/ Goes(c, "deferred")
             \/ \E pc \in {"answered", "failing", "failrun", "failversion", "finish", "version",
                           "close", "errored"} : Goes(c, pc) /\ ~Claimable(job'[r][k])
      PROVE  Untouchable' /\ OneConsumer' /\ RequestHoldsDomain'
  <2>2. /\ \A d \in Consumers : d # c => consumer'[d] = consumer[d]
        /\ \/ consumer'[c].pc = "claim"
           \/ /\ consumer'[c].run = r /\ consumer'[c].job = k /\ consumer'[c].pc # "request"
              /\ consumer'[c].pc # "deferred" => ~Claimable(job'[r][k])
    <3>1. CASE After(c)
      BY <1>6, <3>1
    <3>2. CASE ~After(c)
      <4>1. PICK pc \in {"answered", "failing", "failrun", "failversion", "finish", "version",
                         "close", "errored", "deferred"} :
                Goes(c, pc) /\ (pc # "deferred" => ~Claimable(job'[r][k]))
        BY <1>7, <3>2
      <4>2. /\ \A d \in Consumers : d # c => consumer'[d] = consumer[d]
            /\ consumer'[c].pc = pc /\ consumer'[c].run = r /\ consumer'[c].job = k
        BY <1>5, <4>1
      <4> QED
        BY <4>1, <4>2
    <3> QED
      BY <3>1, <3>2
  <2>5. \A q \in Runs : \A j \in Jobs : ~(q = r /\ j = k) => job'[q][j] = job[q][j]
    BY <1>4, <1>7
  <2>1. OwnRow(c)
    BY <2>2, <2>5 DEF OwnRow, r, k
  <2>3. Untouchable' /\ OneConsumer'
    BY <1>2, <2>1, <2>2, OwnStep DEF r, k
  <2>4. RequestHoldsDomain'
    BY <1>7, <2>1, <2>2, DomainStays DEF OwnRow
  <2> QED
    BY <2>3, <2>4
<1>8. /\ Retried(job[r][k]) \in Rows /\ Completed(job[r][k]) \in Rows
      /\ DeadLettered(job[r][k]) \in Rows /\ Attempted(job[r][k]) \in Rows
  BY <1>3, RowWrites
<1>9. \A row \in Rows : ~Claimable(Completed(row)) /\ ~Claimable(DeadLettered(row))
  BY DEF Rows, JobRows, Claimable, Waiting, Completed, DeadLettered
<1>10. CASE DomainAcquired(c)
  <2> DEFINE source == Attempted(job[r][k]).source
  <2>1. /\ DomainOpen(r, k) /\ domain' = [run |-> r, job |-> k, live |-> TRUE]
        /\ Write(r, k, Attempted(job[r][k])) /\ consumer[c].pc = "domain"
        /\ consumer' = [consumer EXCEPT ![c].pc = "request", ![c].source = source]
    BY <1>10 DEF DomainAcquired, r, k
  <2> HIDE DEF source
  <2>2. /\ \A d \in Consumers : d # c => consumer'[d] = consumer[d]
        /\ consumer'[c].pc = "request" /\ consumer'[c].run = r /\ consumer'[c].job = k
    BY <1>1, <2>1 DEF ConsumerStates, r, k
  <2>3. ~Claimable(job'[r][k])
    <3>1. job'[r][k] = Attempted(job[r][k]) /\ ~Claimable(job[r][k])
      BY <1>3, <1>4, <1>8, <2>1
    <3>2. /\ Attempted(job[r][k]).status = job[r][k].status
          /\ Attempted(job[r][k]).lapsed = job[r][k].lapsed
      BY <1>3 DEF Attempted, Rows, JobRows
    <3> QED
      BY <3>1, <3>2 DEF Claimable
  <2>4. OwnRow(c)
    BY <1>4, <1>8, <2>1, <2>2 DEF OwnRow, r, k
  <2>5. Untouchable' /\ OneConsumer'
    BY <1>2, <2>2, <2>3, <2>4, OwnStep DEF r, k
  <2>6. ASSUME NEW d \in Consumers, d # c, consumer[d].pc = "request"
        PROVE  FALSE
    <3>1. domain.live /\ domain.run = consumer[d].run /\ domain.job = consumer[d].job
      BY <2>6 DEF Known, RequestHoldsDomain
    <3>2. Works(d, r, k)
      BY <2>1, <2>6, <3>1 DEF DomainOpen, Works
    <3> QED
      BY <1>3, <2>6, <3>2 DEF Known, OneConsumer
  <2>7. RequestHoldsDomain'
    BY <2>1, <2>2, <2>6 DEF RequestHoldsDomain
  <2> QED
    BY <2>5, <2>7
<1>11. CASE DomainBusy(c) \/ ErrorRetried(c)
  BY <1>7, <1>8, <1>11 DEF DomainBusy, ErrorRetried, r, k
<1>12. CASE ErrorExhausted(c)
  <2>1. /\ Write(r, k, DeadLettered(job[r][k])) /\ UNCHANGED domain
        /\ Goes(c, "failrun") \/ After(c)
    BY <1>12 DEF ErrorExhausted, r, k
  <2>2. ~Claimable(job'[r][k])
    BY <1>3, <1>4, <1>8, <1>9, <2>1
  <2> QED
    BY <1>7, <1>8, <2>1, <2>2
<1>13. CASE \E transient \in BOOLEAN : Answered(c, transient)
  <2>1. CASE Write(r, k, Retried(job[r][k])) /\ Goes(c, "deferred") /\ UNCHANGED domain
    BY <1>7, <1>8, <2>1
  <2>2. CASE Write(r, k, Completed(job[r][k])) /\ Goes(c, "answered") /\ UNCHANGED domain
    BY <1>3, <1>4, <1>7, <1>8, <1>9, <2>2
  <2> QED
    BY <1>13, <2>1, <2>2 DEF Answered, r, k
<1>14. CASE DomainReleased(c)
  <2>1. /\ UNCHANGED job
        /\ consumer[c].pc \in {"answered", "deferred", "errored"}
        /\ After(c) \/ (Goes(c, "failing") /\ consumer[c].pc = "errored")
        /\ ~(domain.run = r /\ domain.job = k) => UNCHANGED domain
    BY <1>14 DEF DomainReleased, r, k
  <2>2. OwnRow(c)
    BY <1>5, <1>6, <2>1 DEF OwnRow
  <2>3. \/ consumer'[c].pc = "claim"
        \/ /\ consumer'[c].run = r /\ consumer'[c].job = k /\ consumer'[c].pc = "failing"
           /\ ~Claimable(job'[r][k])
    BY <1>3, <1>5, <1>6, <2>1
  <2>4. Untouchable' /\ OneConsumer'
    BY <1>2, <2>2, <2>3, OwnStep DEF r, k
  <2>5. ASSUME NEW d \in Consumers, d # c, consumer[d].pc = "request"
        PROVE  UNCHANGED domain
    <3>1. domain.run = consumer[d].run /\ domain.job = consumer[d].job
      BY <2>5 DEF Known, RequestHoldsDomain
    <3>2. ~(domain.run = r /\ domain.job = k)
      BY <1>3, <2>5, <3>1 DEF Known, OneConsumer, Works
    <3> QED
      BY <2>1, <3>2
  <2>6. RequestHoldsDomain'
    BY <2>2, <2>3, <2>5 DEF RequestHoldsDomain, Known, OwnRow
  <2> QED
    BY <2>4, <2>6
<1>15. CASE Throws(c)
  BY <1>3, <1>7, <1>15 DEF Throws
<1>16. CASE RunFailed(c) \/ VersionFailed(c)
  <2>1. /\ UNCHANGED <<job, domain>> /\ consumer[c].pc \in {"failrun", "failversion"}
        /\ Goes(c, "failversion") \/ After(c)
    BY <1>16 DEF RunFailed, VersionFailed
  <2> QED
    BY <1>3, <1>7, <2>1
<1>17. CASE RunFinished(c) \/ VersionFinished(c)
  <2>1. /\ UNCHANGED <<job, domain>> /\ consumer[c].pc \in {"finish", "version"}
        /\ Goes(c, "version") \/ Goes(c, "close")
    BY <1>17 DEF RunFinished, VersionFinished
  <2> QED
    BY <1>3, <1>7, <2>1
<1>18. CASE FinalizerChecks(c)
  <2>1. UNCHANGED domain /\ consumer[c].pc = "final" /\ k = Finalizer
    BY <1>3, <1>18 DEF FinalizerChecks
  <2>2. CASE UNCHANGED job /\ (Goes(c, "close") \/ Goes(c, "finish"))
    BY <1>3, <1>7, <2>1, <2>2
  <2>3. CASE Write(r, k, Retried(job[r][k])) /\ After(c)
    BY <1>7, <1>8, <2>1, <2>3
  <2> QED
    BY <1>18, <2>1, <2>2, <2>3 DEF FinalizerChecks, r
<1>19. CASE FinalizerCompleted(c)
  <2>1. /\ UNCHANGED domain /\ k = Finalizer /\ Write(r, k, Completed(job[r][k])) /\ After(c)
    BY <1>3, <1>19 DEF FinalizerCompleted, r
  <2> QED
    BY <1>7, <1>8, <2>1
<1> QED
  BY <1>10, <1>11, <1>12, <1>13, <1>14, <1>15, <1>16, <1>17, <1>18, <1>19 DEF Processing

LEMMA SlicesExclusive ==
    ASSUME Known, NEW c \in Consumers,
           \/ \E r \in Runs : WakeTaken(c, r)
           \/ \E k \in Jobs : ClaimNext(c, k)
           \/ SliceEnds(c) \/ Crash(c)
    PROVE  Untouchable' /\ OneConsumer' /\ RequestHoldsDomain'
<1>1. job \in [Runs -> [Jobs -> Rows]] /\ consumer \in [Consumers -> ConsumerStates]
  BY JobTable DEF Known, Typed, TypeOK
<1>2. CASE (\E r \in Runs : WakeTaken(c, r)) \/ SliceEnds(c) \/ Crash(c)
  <2>1. /\ UNCHANGED <<job, domain>>
        /\ \E r : consumer' = [consumer EXCEPT ![c] = Slice(r, 0)] \/ Stops(c)
    BY <1>2 DEF WakeTaken, SliceEnds, Crash
  <2>2. /\ \A d \in Consumers : d # c => consumer'[d] = consumer[d]
        /\ consumer'[c].pc \in {"idle", "claim"}
    BY <1>1, <2>1 DEF Stops, Free, Slice
  <2> QED
    BY <2>1, <2>2 DEF Known, Untouchable, OneConsumer, RequestHoldsDomain, Works, Claimable
<1>3. ASSUME NEW k \in Jobs, ClaimNext(c, k)
      PROVE  Untouchable' /\ OneConsumer' /\ RequestHoldsDomain'
  <2> DEFINE r == consumer[c].run
             pc == IF k = Finalizer THEN "final" ELSE "domain"
             last == Claimed(job[r][k]).delivery >= MaxDelivery
  <2>1. r \in Runs /\ job[r][k] \in Rows
    BY <1>1, <1>3 DEF ClaimNext, Known, Typed, ConsumerShape
  <2>2. /\ Write(r, k, Claimed(job[r][k])) /\ Claimable(job[r][k]) /\ ~Releasing(r, k)
        /\ consumer' = [consumer EXCEPT ![c].pc = pc, ![c].job = k, ![c].last = last]
        /\ UNCHANGED domain
    BY <1>3 DEF ClaimNext, Takes, Eligible
  <2>3. pc \in {"final", "domain"}
    OBVIOUS
  <2> HIDE DEF pc, last
  <2>4. /\ \A d \in Consumers : d # c => consumer'[d] = consumer[d]
        /\ consumer'[c].pc = pc /\ consumer'[c].run = r /\ consumer'[c].job = k
    BY <1>1, <2>2 DEF ConsumerStates
  <2> HIDE DEF r
  <2>5. /\ job'[r][k] = Claimed(job[r][k])
        /\ \A q \in Runs : \A j \in Jobs : ~(q = r /\ j = k) => job'[q][j] = job[q][j]
    BY <1>1, <2>1, <2>2 DEF Write
  <2>6. ~Claimable(job'[r][k])
    <3>1. Claimed(job[r][k]).status = "processing" /\ ~Claimed(job[r][k]).lapsed
      BY <2>1 DEF Claimed, Rows, JobRows
    <3> QED
      BY <2>5, <3>1 DEF Claimable, Waiting
  <2>7. ASSUME NEW d \in Consumers, d # c PROVE ~Works(d, r, k)
    BY <2>2, <2>7 DEF Known, Untouchable, Works, Releasing
  <2>8. Untouchable'
    <3> SUFFICES ASSUME NEW d \in Consumers, consumer'[d].pc \notin {"idle", "claim", "deferred"}
                 PROVE  ~Claimable(job'[consumer'[d].run][consumer'[d].job])
      BY DEF Untouchable, Claimable
    <3>1. CASE d = c
      BY <2>4, <2>6, <3>1
    <3>2. CASE d # c
      <4>1. consumer'[d] = consumer[d] /\ consumer[d].run \in Runs /\ consumer[d].job \in Jobs
        BY <2>4, <3>2, WorkerKnown
      <4>2. ~(consumer[d].run = r /\ consumer[d].job = k)
        BY <2>7, <3>2, <4>1 DEF Works
      <4> QED
        BY <2>5, <4>1, <4>2 DEF Known, Untouchable
    <3> QED
      BY <3>1, <3>2
  <2>9. OneConsumer'
    <3> SUFFICES ASSUME NEW d \in Consumers, NEW e \in Consumers, NEW q \in Runs, NEW j \in Jobs,
                        Works(d, q, j)', Works(e, q, j)'
                 PROVE  d = e
      BY DEF OneConsumer
    <3>1. CASE d # c /\ e # c
      BY <2>4, <3>1 DEF Works, Known, OneConsumer
    <3>2. ASSUME NEW f \in Consumers, Works(c, q, j)', Works(f, q, j)' PROVE f = c
      BY <2>4, <2>7, <3>2 DEF Works
    <3> QED
      BY <3>1, <3>2
  <2>10. RequestHoldsDomain'
    BY <2>2, <2>3, <2>4, DomainStays
  <2> QED
    BY <2>8, <2>9, <2>10
<1> QED
  BY <1>2, <1>3

\* The rows nobody works on are rewritten, and no row becomes claimable.
LEMMA TablesExclusive ==
    ASSUME Known, UNCHANGED <<consumer, domain>>,
           \A r \in Runs : \A k \in Jobs :
               (\E c \in Consumers : Works(c, r, k)) /\ Claimable(job'[r][k]) => Claimable(job[r][k])
    PROVE  Untouchable' /\ OneConsumer' /\ RequestHoldsDomain'
<1>1. OneConsumer' /\ RequestHoldsDomain'
  BY DEF Known, OneConsumer, RequestHoldsDomain, Works
<1>2. Untouchable'
  <2> SUFFICES ASSUME NEW c \in Consumers, consumer[c].pc \notin {"idle", "claim", "deferred"}
               PROVE  ~Claimable(job'[consumer[c].run][consumer[c].job])
    BY DEF Untouchable, Claimable
  <2>1. consumer[c].run \in Runs /\ consumer[c].job \in Jobs
    BY WorkerKnown
  <2>2. Works(c, consumer[c].run, consumer[c].job)
    BY DEF Works
  <2> QED
    BY <2>1, <2>2 DEF Known, Untouchable
<1> QED
  BY <1>1, <1>2

LEMMA FaultsExclusive ==
    ASSUME Known, ~overran',
           \/ \E r \in Runs : Duplicated(r) \/ WakeDies(r) \/ DeadWakeHandled(r)
           \/ \E r \in Runs : \E k \in Jobs : LeaseLapses(r, k)
           \/ DomainLapses
    PROVE  Untouchable' /\ OneConsumer' /\ RequestHoldsDomain'
<1>1. job \in [Runs -> [Jobs -> Rows]]
  BY JobTable DEF Known, Typed
<1>2. CASE \E r \in Runs : Duplicated(r) \/ WakeDies(r) \/ DeadWakeHandled(r)
  BY <1>2, TablesExclusive DEF Duplicated, WakeDies, DeadWakeHandled
<1>3. ASSUME NEW r \in Runs, NEW k \in Jobs, LeaseLapses(r, k)
      PROVE  Untouchable' /\ OneConsumer' /\ RequestHoldsDomain'
  <2>1. ~\E c \in Consumers : Works(c, r, k)
    BY <1>3 DEF LeaseLapses, Outlived
  <2>2. \A q \in Runs : \A j \in Jobs : ~(q = r /\ j = k) => job'[q][j] = job[q][j]
    BY <1>1, <1>3 DEF LeaseLapses, Write
  <2>3. UNCHANGED <<consumer, domain>>
    BY <1>3 DEF LeaseLapses
  <2>4. ASSUME NEW q \in Runs, NEW j \in Jobs, \E c \in Consumers : Works(c, q, j)
        PROVE  job'[q][j] = job[q][j]
    BY <2>1, <2>2, <2>4
  <2> QED
    BY <2>3, <2>4, TablesExclusive
<1>4. CASE DomainLapses
  <2>1. /\ ~\E c \in Consumers : Works(c, domain.run, domain.job)
        /\ UNCHANGED <<consumer, job>>
    BY <1>4 DEF DomainLapses, Outlived
  <2>2. ASSUME NEW c \in Consumers, consumer[c].pc = "request" PROVE FALSE
    BY <2>1, <2>2 DEF Known, RequestHoldsDomain, Works
  <2> QED
    BY <2>1, <2>2 DEF Known, Untouchable, OneConsumer, RequestHoldsDomain, Works, Claimable
<1> QED
  BY <1>2, <1>3, <1>4

LEMMA TasksExclusive ==
    ASSUME Known,
           \/ DailyBegins \/ DailyResumes
           \/ \E t \in Tasks : Dispatching(t) \/ TaskStops(t)
           \/ Watching \/ Recovering
    PROVE  Untouchable' /\ OneConsumer' /\ RequestHoldsDomain'
<1>1. job \in [Runs -> [Jobs -> Rows]] /\ TaskShape /\ "bootstrap" \in Tasks
  BY JobTable DEF Known, Typed, Tasks
<1>2. UNCHANGED <<consumer, domain>>
  BY DEF DailyBegins, DailyResumes, Dispatching, TaskStops, Watching, Recovering, RunSealed,
         RunWoken, RolloutClaimed, FirstDispatch, StalledRewoken, StrandedFailed, FailureFound,
         RecoveryOpens, Abandons, RunAdopted, DispatchOpens
<1>3. CASE UNCHANGED job
  BY <1>2, <1>3, TablesExclusive
\* Nobody works for a run that is not sealed.
<1>4. ASSUME NEW r \in Runs, ~IsSealed(r), NEW table, job' = [job EXCEPT ![r] = table]
      PROVE  Untouchable' /\ OneConsumer' /\ RequestHoldsDomain'
  <2>1. ASSUME NEW q \in Runs, NEW k \in Jobs, NEW c \in Consumers, Works(c, q, k)
        PROVE  job'[q][k] = job[q][k]
    <3>1. job[q][k].status # "none"
      BY <2>1 DEF Known, Recorded, WorkIsRecorded, Works
    <3>2. q # r
      BY <1>4, <2>1, <3>1 DEF Known, Recorded, Sealing
    <3> QED
      BY <1>1, <1>4, <3>2
  <2> QED
    BY <1>2, <2>1, TablesExclusive
<1>5. CASE Abandons
  <2> DEFINE r == task["bootstrap"].run  of == run[r].of
             table == [k \in Jobs |->
                 IF job[of][k].status \in Live
                 THEN [job[of][k] EXCEPT !.status = "abandoned", !.lapsed = FALSE]
                 ELSE job[of][k]]
  <2>1. of \in Runs /\ job' = [job EXCEPT ![of] = table]
    BY <1>1, <1>5 DEF Abandons, TaskShape
  <2>2. \A k \in Jobs : Claimable(table[k]) => Claimable(job[of][k])
    <3>1. \A row \in Rows :
              [row EXCEPT !.status = "abandoned", !.lapsed = FALSE].status = "abandoned"
      BY DEF Rows, JobRows
    <3>2. \A k \in Jobs : job[of][k] \in Rows
      BY <1>1, <2>1
    <3> HIDE DEF of
    <3> QED
      BY <3>1, <3>2 DEF Claimable, Waiting
  <2> HIDE DEF table, of
  <2>3. \A q \in Runs : \A k \in Jobs : Claimable(job'[q][k]) => Claimable(job[q][k])
    BY <1>1, <2>1, <2>2
  <2> QED
    BY <1>2, <2>3, TablesExclusive
<1>6. CASE RunAdopted
  <2> DEFINE r == task["bootstrap"].run
             table == [k \in Jobs |-> Inherited(run[r].of, k)]
  <2>1. r \in Runs
    BY <1>1, <1>6 DEF RunAdopted, TaskShape
  <2>2. UNCHANGED job \/ (job' = [job EXCEPT ![r] = table] /\ ~IsSealed(r))
    BY <1>6 DEF RunAdopted
  <2> HIDE DEF table, r
  <2> QED
    BY <1>3, <1>4, <2>1, <2>2
<1>7. ASSUME NEW t \in Tasks, Dispatching(t) \/ TaskStops(t)
      PROVE  Untouchable' /\ OneConsumer' /\ RequestHoldsDomain'
  <2>1. CASE RunWoken(t) \/ TaskStops(t)
    BY <1>3, <2>1 DEF RunWoken, TaskStops
  <2>2. ASSUME NEW targets \in SUBSET Targets, RunSealed(t, targets)
        PROVE  Untouchable' /\ OneConsumer' /\ RequestHoldsDomain'
    <3> DEFINE r == task[t].run
               table == [k \in Jobs |-> IF k \in targets \cup {Finalizer} THEN Fresh ELSE NoJob]
    <3>1. r \in Runs
      BY <1>1, <2>2 DEF RunSealed, TaskShape
    <3>2. UNCHANGED job \/ (job' = [job EXCEPT ![r] = table] /\ ~IsSealed(r))
      BY <2>2 DEF RunSealed
    <3> HIDE DEF table, r
    <3> QED
      BY <1>3, <1>4, <3>1, <3>2
  <2> QED
    BY <1>7, <2>1, <2>2 DEF Dispatching
<1>8. CASE DailyBegins \/ DailyResumes \/ Watching \/ RecoveryOpens \/ DispatchOpens
  BY <1>3, <1>8 DEF DailyBegins, DailyResumes, Watching, RolloutClaimed, FirstDispatch,
         StalledRewoken, StrandedFailed, FailureFound, RecoveryOpens, DispatchOpens
<1> QED
  BY <1>5, <1>6, <1>7, <1>8 DEF Recovering

LEMMA ExclusiveStep == Typed /\ Recorded /\ Exclusive /\ [Next]_vars => Exclusive'
<1> SUFFICES ASSUME Typed, Recorded, Exclusive, [Next]_vars, ~overran'
             PROVE  Untouchable' /\ OneConsumer' /\ RequestHoldsDomain'
  BY DEF Exclusive
<1>1. overran => overran'
  BY DEF Next, vars, history, WakeDelivered, WakeTaken, Claiming, ClaimNext, SliceEnds,
         Processing, DomainAcquired, DomainBusy, DomainReleased, Answered, ErrorRetried,
         ErrorExhausted, RunFailed, VersionFailed, FinalizerChecks, RunFinished, VersionFinished,
         FinalizerCompleted, Throws, Crash, Fault, Duplicated, WakeDies, DeadWakeHandled,
         Expiring, Cleaning, LeaseLapses, DomainLapses, Outlived, DailyBegins, DailyResumes,
         Dispatching, RunSealed, RunWoken, TaskStops, Watching, RolloutClaimed, FirstDispatch,
         StalledRewoken, StrandedFailed, FailureFound, Recovering, RecoveryOpens, Abandons,
         RunAdopted, DispatchOpens
<1>2. Known
  BY <1>1 DEF Known, Exclusive
<1>3. CASE \E c \in Consumers :
               \/ Claiming(c) \/ SliceEnds(c) \/ Crash(c)
               \/ \E r \in Runs : WakeTaken(c, r)
  BY <1>2, <1>3, SlicesExclusive DEF Claiming
<1>4. CASE \E c \in Consumers : Processing(c) \/ Throws(c)
  BY <1>2, <1>4, ProcessingExclusive
<1>5. CASE \/ \E r \in Runs : Duplicated(r) \/ WakeDies(r)
           \/ Expiring \/ Cleaning
  BY <1>2, <1>5, FaultsExclusive DEF Expiring, Cleaning
<1>6. CASE \/ DailyBegins \/ DailyResumes
           \/ \E t \in Tasks : Dispatching(t) \/ TaskStops(t)
           \/ Watching \/ Recovering
  BY <1>2, <1>6, TasksExclusive
<1>7. CASE UNCHANGED vars
  BY <1>2, <1>7, TablesExclusive DEF vars
<1> QED
  BY <1>3, <1>4, <1>5, <1>6, <1>7 DEF Next, WakeDelivered

\* While no consumer has outlived a lease, the domain's lease lets one request at a
\* time through, however runs, wake-ups, crashes and takeovers overlap.
THEOREM OneRequestPerDomain == Spec => []OnePerDomain
<1>1. Init => Exclusive
  BY DEF Init, Exclusive, Untouchable, OneConsumer, RequestHoldsDomain, Works, Free
<1>2. Exclusive /\ Typed /\ Recorded => OnePerDomain
  <2> SUFFICES ASSUME Typed, Recorded, ~overran, Exclusive,
                      NEW c \in Consumers, NEW d \in Consumers,
                      consumer[c].pc = "request", consumer[d].pc = "request"
               PROVE  c = d
    BY DEF OnePerDomain
  <2>1. Known
    BY DEF Known, Exclusive
  <2>2. consumer[c].run \in Runs /\ consumer[c].job \in Jobs
    BY <2>1, WorkerKnown
  <2>3. Works(c, consumer[c].run, consumer[c].job) /\ Works(d, consumer[c].run, consumer[c].job)
    BY <2>1 DEF Known, RequestHoldsDomain, Works
  <2> QED
    BY <2>1, <2>2, <2>3 DEF Known, OneConsumer
<1>3. Init => Typed /\ Recorded /\ Exclusive
  BY <1>1, TypedInit, RecordedInit
<1>4. Typed /\ Recorded /\ Exclusive /\ [Next]_vars => (Typed /\ Recorded /\ Exclusive)'
  BY TypedStep, RecordedStep, ExclusiveStep
<1> QED
  BY <1>2, <1>3, <1>4, PTL DEF Spec
================================================================================
