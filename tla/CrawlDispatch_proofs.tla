----------------------- MODULE CrawlDispatch_proofs -----------------------
(***************************************************************************)
(* For every set of workers and every bound: CrawlDispatch is type         *)
(* correct, fences generations, keeps acknowledged reservations, keeps the *)
(* pause gate ordered, and implements CrawlGenerations.                    *)
(*                                                                         *)
(* The invariant is built in layers, each proved on top of those below it: *)
(* Typed (TypeOK and the shape of what the processes hold), Known (nobody  *)
(* speaks for a generation that was never reserved), then GenerationFence, *)
(* Acknowledged and PauseOrder.                                            *)
(***************************************************************************)
EXTENDS CrawlDispatch, TLAPS

\* A running handler has an execution, and what its next step consumes exists.
HandlerShape ==
    /\ handler.pc # "idle" => exec \in Executions
    /\ handler.pc = "detail" => exec.left > 0
    /\ handler.pc = "put" => handler.next \in Executions /\ handler.next.gen = exec.gen

\* A process that speaks for a generation has it from the row.
SpeakerShape ==
    /\ \A w \in Workers :
          worker[w].pc \in {"deliver", "release", "adminDeliver"} => worker[w].gen \in 1..gen
    /\ dog.pc # "idle" => dog.gen \in 1..gen

\* The row holds the newest generation or none; nothing refers to a later one.
Known ==
    /\ row.token \in {0, gen}
    /\ exec.gen \in 0..gen
    /\ \A g \in Gens : session[g] # "none" => g \in 1..gen

Typed == TypeOK /\ HandlerShape /\ SpeakerShape /\ Known

\* Every dispatcher has a generation of its own, not yet acknowledged, and one
\* that is still delivering still owns the row.
Acknowledged ==
    /\ AcknowledgedKeepsReservation
    /\ \A w \in Workers : worker[w].pc = "deliver" =>
          worker[w].gen \in ended \/ row.token = worker[w].gen
    /\ \A w \in Workers : worker[w].pc \in {"deliver", "release"} => worker[w].gen \notin acked
    /\ \A v, w \in Workers :
          /\ v # w
          /\ worker[v].pc \in {"deliver", "release"} /\ worker[w].pc \in {"deliver", "release"}
          => worker[v].gen # worker[w].gen
    /\ \A g \in acked : g \in 1..gen

\* Each half of a pause or a resume finds what the other half left.
PauseOrder ==
    /\ PauseGateOrder
    /\ control = "pausing" => doPaused
    /\ control = "resuming" => ~row.paused

-----------------------------------------------------------------------------
(* What the helpers keep.                                                  *)

\* The bounds that the counters below start from.
LEMMA Numbers ==
  /\ Pages \in Nat /\ Details \in Nat /\ Batch \in Nat
  /\ Pages \in 0..(Pages + Details) /\ Details \in 0..(Pages + Details)
  /\ 0 \in 0..MaxGen
  <1>1. Pages \in Nat /\ Details \in Nat /\ Batch \in Nat /\ MaxGen \in Nat
    BY WorkAssumption, BoundAssumption
  <1> QED BY <1>1

\* A cursor or a recheck count stays in its range while it moves.
LEMMA Counts ==
  ASSUME NEW e \in Executions
  PROVE  /\ e.left > 1 => e.left - 1 \in 0..(Pages + Details)
         /\ e.left > 0 => e.left - 1 \in 0..(Pages + Details)
         /\ e.checks + 1 < Batch => e.checks + 1 \in 0..Batch
  BY Numbers DEF Executions

\* A fault is counted within its bound.
LEMMA FaultCounts == TypeOK /\ Fault => faults' \in 0..MaxFaults
  BY BoundAssumption DEF TypeOK, Fault

\* Every write of the row, by reservation, release, lease or pause, is a row.
LEMMA RowUpdates ==
  ASSUME row \in Rows
  PROVE  /\ \A t \in 0..MaxGen : [row EXCEPT !.token = t, !.stale = FALSE] \in Rows
         /\ \A g : Released(g) \in Rows
         /\ \A b \in BOOLEAN : [row EXCEPT !.stale = b] \in Rows
         /\ \A b \in BOOLEAN : [row EXCEPT !.paused = b] \in Rows
         /\ row.token \in 0..MaxGen
  <1>1. \A t \in 0..MaxGen : [row EXCEPT !.token = t, !.stale = FALSE] \in Rows
    BY DEF Rows
  <1>2. \A g : Released(g) \in Rows
    BY <1>1, Numbers DEF Released
  <1>3. \A b \in BOOLEAN : [row EXCEPT !.stale = b] \in Rows
    BY DEF Rows
  <1>4. \A b \in BOOLEAN : [row EXCEPT !.paused = b] \in Rows
    BY DEF Rows
  <1>5. row.token \in 0..MaxGen
    BY DEF Rows
  <1> QED BY <1>1, <1>2, <1>3, <1>4, <1>5

\* Every write of the stored execution's fields is an execution.
LEMMA ExecutionUpdates ==
  ASSUME NEW e \in Executions
  PROVE  /\ \A n \in 0..(Pages + Details) : [e EXCEPT !.left = n] \in Executions
         /\ \A b \in BOOLEAN : [e EXCEPT !.inventory = b] \in Executions
         /\ \A n \in 0..Batch : [e EXCEPT !.checks = n] \in Executions
         /\ \A ph \in {"init", "fetch", "finalize"}, n \in 0..(Pages + Details) : 
               [e EXCEPT !.phase = ph, !.left = n] \in Executions
         /\ e.left \in 0..(Pages + Details) /\ e.checks \in 0..Batch /\ e.gen \in Gens
         /\ e.inventory \in BOOLEAN
  BY DEF Executions

\* Every move of a Worker invocation is one of its states.
LEMMA StepTyped ==
  ASSUME worker \in [Workers -> WorkerStates], NEW w \in Workers
  PROVE  /\ \A pc \in {"idle", "read", "reserve", "deliver", "release", "adminRead", "adminDeliver"},
              g \in 0..MaxGen : Step(w, pc, g) => worker' \in [Workers -> WorkerStates]
         /\ \A pc \in {"idle", "read", "reserve", "deliver", "release", "adminRead", "adminDeliver"} :
              Goes(w, pc) => worker' \in [Workers -> WorkerStates]
         /\ Done(w) => worker' \in [Workers -> WorkerStates]
  BY BoundAssumption DEF Step, Goes, Done, WorkerStates

\* Every move of the alarm handler is one of its states.
LEMMA HandlerTyped ==
  ASSUME handler \in Handlers
  PROVE  /\ Rest => handler' \in Handlers
         /\ \A pc \in {"begin", "detail", "fence", "work", "put", "release", "finish", "inventory"}:
              Handler(pc) => handler' \in Handlers
         /\ \A e \in Executions : Continues(e) => handler' \in Handlers
  BY DEF Handlers, Rest, Handler, NoHandler, Continues

\* The command after a page is an execution.
LEMMA AfterPageTyped ==
  ASSUME exec \in Executions
  PROVE  AfterPage \in Executions
  <1>1. CASE exec.left > 1
    <2>1. exec.left - 1 \in 0..(Pages + Details)
      BY <1>1, Counts, ExecutionUpdates
    <2> QED
      BY <1>1, <2>1, ExecutionUpdates DEF AfterPage
  <1>2. CASE ~(exec.left > 1)
    BY <1>2, Numbers, ExecutionUpdates DEF AfterPage
  <1> QED BY <1>1, <1>2

\* The command that startCrawl stores is an execution.
LEMMA Blank ==
  ASSUME NEW g \in Gens
  PROVE  [gen |-> g, phase |-> "init", left |-> 0, inventory |-> FALSE, checks |-> 0] \in Executions
  BY WorkAssumption DEF Executions

\* startCrawl keeps the object's types.
LEMMA StartTyped ==
  ASSUME TypeOK, NEW g \in Gens, NEW arms \in BOOLEAN, StartCrawl(g, arms)
  PROVE  exec' \in Executions \cup {NoExec} /\ doPaused' \in BOOLEAN /\ alarm' \in BOOLEAN
  BY Blank DEF TypeOK, StartCrawl, Accepts, do

\* A delivery, answered or not, keeps the object's types.
LEMMA DeliveredTyped ==
  ASSUME TypeOK, NEW g \in Gens, Delivered(g) \/ DeliveryError(g)
  PROVE  /\ exec' \in Executions \cup {NoExec} /\ doPaused' \in BOOLEAN /\ alarm' \in BOOLEAN
         /\ faults' \in 0..MaxFaults
  <1>1. CASE Delivered(g)
    BY <1>1, StartTyped DEF Delivered, TypeOK
  <1>2. CASE DeliveryError(g)
    <2>1. exec' \in Executions \cup {NoExec} /\ doPaused' \in BOOLEAN /\ alarm' \in BOOLEAN
      BY <1>2, StartTyped DEF DeliveryError, TypeOK, do
    <2>2. faults' \in 0..MaxFaults
      BY <1>2, BoundAssumption DEF DeliveryError, Fault, TypeOK
    <2> QED BY <2>1, <2>2
  <1> QED BY <1>1, <1>2

\* The generation that an invocation speaks for is a generation.
LEMMA SpeakersAreReal ==
  ASSUME TypeOK, SpeakerShape
  PROVE  /\ \A w \in Workers :
              worker[w].pc \in {"deliver", "release", "adminDeliver"} => worker[w].gen \in Gens
         /\ dog.pc # "idle" => dog.gen \in Gens
  BY BoundAssumption DEF TypeOK, SpeakerShape, Gens

\* Crawl crons and administrators keep the types.
LEMMA WorkersTyped ==
  ASSUME TypeOK, SpeakerShape, NEW w \in Workers,
         \/ DispatchBegin(w) \/ Dispatching(w) \/ WorkerCrash(w)
         \/ AdminRun(w) \/ AdminRunning(w)
  PROVE  TypeOK'
  <1> USE BoundAssumption, StepTyped DEF TypeOK, d1, do, ghosts
  <1>1. CASE DispatchBegin(w)
    BY <1>1 DEF DispatchBegin
  <1>2. CASE DispatchRead(w)
    BY <1>2 DEF DispatchRead
  <1>3. CASE DispatchReserve(w)
    <2>1. CASE row.token = 0 /\ ~row.paused
      <3>1. gen + 1 \in 0..MaxGen
        BY <1>3, <2>1 DEF DispatchReserve
      <3>2. row' \in Rows
        BY <1>3, <2>1, <3>1, RowUpdates DEF DispatchReserve
      <3> QED
        BY <1>3, <2>1, <3>1, <3>2 DEF DispatchReserve
    <2>2. CASE ~(row.token = 0 /\ ~row.paused)
      BY <1>3, <2>2 DEF DispatchReserve
    <2> QED BY <2>1, <2>2
  <1>4. CASE DispatchDeliver(w)
    BY <1>4, DeliveredTyped, SpeakersAreReal DEF DispatchDeliver
  <1>5. CASE DispatchRelease(w)
    BY <1>5, RowUpdates DEF DispatchRelease
  <1>6. CASE WorkerCrash(w)
    BY <1>6 DEF WorkerCrash, Fault
  <1>7. CASE AdminRun(w)
    BY <1>7 DEF AdminRun
  <1>8. CASE AdminRead(w)
    BY <1>8, RowUpdates DEF AdminRead
  <1>9. CASE AdminDeliver(w)
    BY <1>9, DeliveredTyped, SpeakersAreReal DEF AdminDeliver
  <1> QED
    BY <1>1, <1>2, <1>3, <1>4, <1>5, <1>6, <1>7, <1>8, <1>9 DEF Dispatching, AdminRunning

\* The watchdog keeps the types.
LEMMA DogTyped ==
  ASSUME TypeOK, SpeakerShape, Watching \/ DogCrash
  PROVE  TypeOK'
  <1> USE BoundAssumption DEF TypeOK, d1, do, ghosts, DogStates
  <1>1. CASE DogRead
    BY <1>1, RowUpdates DEF DogRead, Recoverable, DogSteps
  <1>2. CASE DogDeliver
    BY <1>2, DeliveredTyped, SpeakersAreReal DEF DogDeliver, DogSteps
  <1>3. CASE DogMark
    <2>1. row' \in Rows
      BY <1>3, RowUpdates DEF DogMark
    <2> QED
      BY <1>3, <2>1 DEF DogMark, DogSteps
  <1>4. CASE DogCrash
    BY <1>4 DEF DogCrash, Fault, DogSteps
  <1> QED
    BY <1>1, <1>2, <1>3, <1>4 DEF Watching

\* The object's own steps, time and deployment keep the types.
LEMMA ObjectTyped ==
  ASSUME TypeOK, HandlerShape,
         \/ AlarmFires \/ Executing \/ HandlerCrash
         \/ PauseLocal \/ ResumeIntent \/ Controlling \/ ControlFails
         \/ LeaseElapses \/ EnvironmentChanges
  PROVE  TypeOK'
  <1> USE BoundAssumption, HandlerTyped, RowUpdates DEF TypeOK, d1, do, ghosts, Resumes
  <1>1. CASE AlarmFires
    BY <1>1 DEF AlarmFires
  <1>2. CASE StepBegins
    BY <1>2, ExecutionUpdates DEF StepBegins, HandlerShape
  <1>3. CASE DetailStep
    <2>1. exec \in Executions /\ exec.left - 1 \in 0..(Pages + Details)
      BY <1>3, Counts DEF DetailStep, HandlerShape
    <2>2. exec' \in Executions
      BY <1>3, <2>1, ExecutionUpdates DEF DetailStep
    <2> QED
      BY <1>3, <2>2 DEF DetailStep
  <1>4. CASE Fence
    BY <1>4 DEF Fence, OwnsReservation
  <1>5. CASE Work
    <2>1. exec \in Executions /\ exec.gen \in Gens
      BY <1>5, ExecutionUpdates DEF Work, HandlerShape
    <2>3. [exec EXCEPT !.phase = "fetch", !.left = Pages] \in Executions
      BY <2>1, Numbers, ExecutionUpdates
    <2>4. handler' \in Handlers
      BY <1>5, <2>1, <2>3, AfterPageTyped DEF Work, Ends
    <2>5. session' \in [Gens -> {"none", "collecting", "completed", "failed"}]
      BY <1>5, <2>1 DEF Work, Ends
    <2> QED
      BY <1>5, <2>4, <2>5 DEF Work
  <1>6. CASE Put
    BY <1>6, HandlerTyped DEF Put, HandlerShape
  <1>7. CASE TerminalRelease
    BY <1>7, ExecutionUpdates DEF TerminalRelease, HandlerShape
  <1>8. CASE Finish
    BY <1>8 DEF Finish
  <1>9. CASE InventoryStep
    <2>1. exec \in Executions
      BY <1>9 DEF InventoryStep, HandlerShape
    <2>2. exec.checks + 1 < Batch => exec.checks + 1 \in 0..Batch
      BY <2>1, Counts
    <2>3. exec.checks + 1 < Batch => [exec EXCEPT !.checks = @ + 1] \in Executions
      BY <2>1, <2>2, ExecutionUpdates
    <2>4. exec' \in Executions \cup {NoExec}
      BY <1>9, <2>3 DEF InventoryStep
    <2> QED
      BY <1>9, <2>4 DEF InventoryStep
  <1>10. CASE HandlerCrash
    <2>1. alarm' \in BOOLEAN /\ handler' \in Handlers
      BY <1>10 DEF HandlerCrash
    <2>2. faults' \in 0..MaxFaults
      BY <1>10, FaultCounts DEF HandlerCrash
    <2> QED
      BY <1>10, <2>1, <2>2 DEF HandlerCrash
  <1>11. CASE PauseLocal
    BY <1>11 DEF PauseLocal
  <1>12. CASE ResumeIntent
    BY <1>12 DEF ResumeIntent
  <1>13. CASE PauseIntent
    BY <1>13 DEF PauseIntent
  <1>14. CASE ResumeLocal
    BY <1>14 DEF ResumeLocal
  <1>15. CASE ControlFails
    <2>1. alarm' \in BOOLEAN /\ handler' \in Handlers
      BY <1>15 DEF ControlFails
    <2>2. faults' \in 0..MaxFaults
      BY <1>15, FaultCounts DEF ControlFails
    <2> QED
      BY <1>15, <2>1, <2>2 DEF ControlFails
  <1>16. CASE LeaseElapses
    BY <1>16 DEF LeaseElapses
  <1>17. CASE EnvironmentChanges
    BY <1>17, SwitchAssumption DEF EnvironmentChanges
  <1> QED
    BY <1>1, <1>2, <1>3, <1>4, <1>5, <1>6, <1>7, <1>8, <1>9, <1>10, <1>11, <1>12, <1>13,
       <1>14, <1>15, <1>16, <1>17
       DEF Executing, Controlling

-----------------------------------------------------------------------------
(* What each process leaves alone.                                         *)

\* The absent execution is none of the executions.
LEMMA NoExecIsNone == NoExec \notin Executions /\ NoExec.gen = 0
  BY DEF NoExec, Executions, Gens

\* A delivery puts an execution only into an object that has none.
LEMMA DeliveryLeaves ==
  ASSUME NEW g, Delivered(g) \/ DeliveryError(g)
  PROVE  /\ exec' = exec \/ (exec = NoExec /\ exec'.gen = g)
         /\ doPaused' = doPaused
  BY DEF Delivered, DeliveryError, StartCrawl, Accepts, Running, do

WorkerInvocation(w) ==
    \/ DispatchBegin(w) \/ Dispatching(w) \/ WorkerCrash(w) \/ AdminRun(w) \/ AdminRunning(w)
DogInvocation == Watching \/ DogCrash
Timing == LeaseElapses \/ EnvironmentChanges
Pausing == PauseLocal \/ ResumeIntent \/ Controlling

\* No Worker invocation touches a running handler, a session or a pause.
LEMMA InvocationsLeave ==
  ASSUME (\E w \in Workers : WorkerInvocation(w)) \/ DogInvocation
  PROVE  /\ UNCHANGED <<session, handler, doPaused, control>>
         /\ exec' = exec \/ exec = NoExec
  BY DeliveryLeaves
     DEF WorkerInvocation, DogInvocation, Dispatching, AdminRunning, Watching, DispatchBegin, DispatchRead,
         DispatchReserve, DispatchDeliver, DispatchRelease, WorkerCrash, AdminRun, AdminRead,
         AdminDeliver, DogRead, DogDeliver, DogMark, DogCrash, d1, do

\* Time, deployment and pausing touch no execution and no session.
LEMMA PausingLeaves ==
  ASSUME Timing \/ Pausing
  PROVE  UNCHANGED <<session, handler, exec, worker, dog, gen, acked, ended>>
  BY DEF Timing, Pausing, Controlling, LeaseElapses, EnvironmentChanges, PauseLocal, ResumeIntent,
         PauseIntent, ResumeLocal, d1, do, ghosts

-----------------------------------------------------------------------------
(* The layers of the invariant.                                            *)

\* The groups of steps that the layers below are proved by.
LEMMA NextSteps ==
  ASSUME Next
  PROVE  \/ \E w \in Workers : WorkerInvocation(w)
         \/ DogInvocation \/ Timing \/ Pausing
         \/ AlarmFires \/ Executing \/ HandlerCrash \/ ControlFails
  BY DEF Next, WorkerInvocation, DogInvocation, Timing, Pausing

\* The first layer: what a running handler works on does not change under it.
LEMMA HandlerShapeStep ==
  ASSUME TypeOK, HandlerShape, Next
  PROVE  HandlerShape'
  <1>1. CASE (\E w \in Workers : WorkerInvocation(w)) \/ DogInvocation
    BY <1>1, InvocationsLeave, NoExecIsNone DEF HandlerShape
  <1>2. CASE Timing \/ Pausing
    BY <1>2, PausingLeaves DEF HandlerShape
  <1>3. CASE HandlerCrash \/ ControlFails
    BY <1>3 DEF HandlerCrash, ControlFails, Rest, NoHandler, HandlerShape
  <1>4. CASE AlarmFires
    BY <1>4 DEF AlarmFires, Running, Handler, TypeOK, Handlers, HandlerShape
  <1>5. CASE StepBegins
    <2>1. exec \in Executions
      BY <1>5 DEF StepBegins, Resumes, HandlerShape
    <2>2. exec.inventory \in BOOLEAN
      BY <2>1, ExecutionUpdates
    <2>3. [exec EXCEPT !.inventory = @ \/ exec.phase = "finalize"] \in Executions
      BY <2>1, <2>2, ExecutionUpdates
    <2> QED
      BY <1>5, <2>1, <2>3 DEF StepBegins, Resumes, Handler, Rest, NoHandler, HandlerShape,
                              TypeOK, Handlers
  <1>6. CASE Work
    <2>1. exec \in Executions /\ exec.gen \in Gens
      BY <1>6, ExecutionUpdates DEF Work, Resumes, HandlerShape
    <2>2. [exec EXCEPT !.phase = "fetch", !.left = Pages] \in Executions
      BY <2>1, Numbers, ExecutionUpdates
    <2>3. [exec EXCEPT !.phase = "fetch", !.left = Pages].gen = exec.gen
      BY <2>1 DEF Executions
    <2>4. AfterPage \in Executions /\ AfterPage.gen = exec.gen
      BY <2>1, AfterPageTyped DEF AfterPage, Executions
    <2>5. \/ handler' = [handler EXCEPT !.pc = "release"]
          \/ \E e \in Executions : e.gen = exec.gen /\ handler' = [pc |-> "put", next |-> e]
      BY <1>6, <2>2, <2>3, <2>4 DEF Work, Handler, Ends, Continues
    <2>6. exec' = exec
      BY <1>6 DEF Work, do
    <2> QED
      BY <2>1, <2>5, <2>6 DEF HandlerShape, TypeOK, Handlers
  <1>7. CASE Fence \/ TerminalRelease
    BY <1>7 DEF Fence, TerminalRelease, Resumes, Handler, HandlerShape, TypeOK, Handlers, do
  <1>8. CASE DetailStep \/ Put \/ Finish \/ InventoryStep
    BY <1>8 DEF DetailStep, Put, Finish, InventoryStep, Rest, NoHandler, HandlerShape
  <1> QED
    BY <1>1, <1>2, <1>3, <1>4, <1>5, <1>6, <1>7, <1>8, NextSteps DEF Executing

\* The handler's steps and the object's failures speak for nobody.
LEMMA ObjectLeaves ==
  ASSUME AlarmFires \/ Executing \/ HandlerCrash \/ ControlFails
  PROVE  UNCHANGED <<worker, dog, gen, acked>>
  BY DEF AlarmFires, Executing, StepBegins, DetailStep, Fence, Work, Put, TerminalRelease, Finish,
         InventoryStep, HandlerCrash, ControlFails, ghosts

\* The second: a generation in a process's hands was reserved.
LEMMA SpeakerShapeStep ==
  ASSUME TypeOK, SpeakerShape, Known, Next
  PROVE  SpeakerShape'
  <1> USE DEF SpeakerShape, TypeOK
  <1>1. ASSUME NEW w \in Workers, WorkerInvocation(w) PROVE SpeakerShape'
    <2>1. CASE DispatchReserve(w)
      BY <2>1 DEF DispatchReserve, Step, Done, WorkerStates, DogStates
    <2>2. CASE AdminRead(w)
      <3>1. row.token # 0 => row.token \in 1..gen
        BY BoundAssumption DEF Known
      <3> QED
        BY <2>2, <3>1 DEF AdminRead, Step, Done, WorkerStates, ghosts
    <2>3. CASE DispatchRead(w)
      BY <2>3 DEF DispatchRead, Step, Done, Goes, WorkerStates, ghosts
    <2>4. CASE DispatchDeliver(w)
      BY <2>4 DEF DispatchDeliver, Step, Done, Goes, WorkerStates, ghosts
    <2>5. CASE \/ DispatchBegin(w) \/ DispatchRelease(w) \/ WorkerCrash(w) \/ AdminRun(w)
               \/ AdminDeliver(w)
      BY <2>5 DEF DispatchBegin, DispatchRelease, WorkerCrash, AdminRun, AdminDeliver, Step, Done,
                  WorkerStates, ghosts
    <2> QED
      BY <1>1, <2>1, <2>2, <2>3, <2>4, <2>5 DEF WorkerInvocation, Dispatching, AdminRunning
  <1>2. CASE DogInvocation
    BY <1>2 DEF DogInvocation, Watching, DogRead, DogDeliver, DogMark, DogCrash, DogSteps,
                Recoverable, DogStates, Known, ghosts
  <1>3. CASE Timing \/ Pausing \/ AlarmFires \/ Executing \/ HandlerCrash \/ ControlFails
    BY <1>3, PausingLeaves, ObjectLeaves
  <1> QED
    BY <1>1, <1>2, <1>3, NextSteps

\* The third: the newest reservation is the only one the row can hold.
LEMMA KnownStep ==
  ASSUME Typed, Next
  PROVE  Known'
  <1> USE DEF Typed
  <1>1. ASSUME NEW w \in Workers, WorkerInvocation(w) PROVE Known'
    <2>1. CASE DispatchReserve(w)
      <3>1. gen \in Nat
        BY BoundAssumption DEF TypeOK
      <3>2. row'.token \in {row.token, gen'} /\ gen' \in {gen, gen + 1}
            /\ (gen' = gen => row'.token = row.token) /\ (gen' # gen => row'.token = gen')
        <4>1. CASE row.token = 0 /\ ~row.paused
          <5>1. gen' = gen + 1 /\ row' = [row EXCEPT !.token = gen + 1, !.stale = FALSE]
            BY <2>1, <4>1 DEF DispatchReserve
          <5>2. row'.token = gen + 1
            BY <5>1 DEF TypeOK, Rows
          <5> QED BY <3>1, <5>1, <5>2
        <4>2. CASE ~(row.token = 0 /\ ~row.paused)
          BY <2>1, <4>2 DEF DispatchReserve
        <4> QED BY <4>1, <4>2
      <3>3. exec' = exec /\ session' = session
        BY <2>1 DEF DispatchReserve, do
      <3>4. \A n \in 0..gen : n \in 0..gen'
        BY <3>1, <3>2
      <3>5. \A n \in 1..gen : n \in 1..gen'
        BY <3>1, <3>2
      <3> QED
        BY <3>2, <3>3, <3>4, <3>5 DEF Known
    <2>2. CASE DispatchDeliver(w)
      BY <2>2, DeliveryLeaves DEF DispatchDeliver, Known, SpeakerShape, d1, ghosts
    <2>3. CASE AdminDeliver(w)
      BY <2>3, DeliveryLeaves DEF AdminDeliver, Known, SpeakerShape, d1, ghosts
    <2>4. CASE DispatchRelease(w)
      BY <2>4 DEF DispatchRelease, Released, Known, TypeOK, Rows, do, ghosts
    <2>5. CASE \/ DispatchBegin(w) \/ DispatchRead(w) \/ WorkerCrash(w) \/ AdminRun(w)
               \/ AdminRead(w)
      BY <2>5 DEF DispatchBegin, DispatchRead, WorkerCrash, AdminRun, AdminRead, Known, d1, do,
                  ghosts
    <2> QED
      BY <1>1, <2>1, <2>2, <2>3, <2>4, <2>5 DEF WorkerInvocation, Dispatching, AdminRunning
  <1>2. CASE DogDeliver
    BY <1>2, DeliveryLeaves DEF DogDeliver, Known, SpeakerShape, d1, ghosts
  <1>3. CASE DogRead \/ DogMark \/ DogCrash
    BY <1>3 DEF DogRead, DogMark, DogCrash, Known, TypeOK, Rows, d1, do, ghosts
  <1>4. CASE Timing \/ Pausing
    <2>1. row'.token = row.token
      BY <1>4 DEF Timing, Pausing, Controlling, LeaseElapses, EnvironmentChanges, PauseLocal,
                  ResumeIntent, PauseIntent, ResumeLocal, d1, TypeOK, Rows
    <2> QED
      BY <1>4, <2>1, PausingLeaves DEF Known
  <1>5. CASE AlarmFires \/ HandlerCrash \/ ControlFails \/ Fence
    BY <1>5 DEF AlarmFires, HandlerCrash, ControlFails, Fence, Known, d1, do, ghosts
  <1>6. CASE StepBegins
    <2>1. exec'.gen \in {0, exec.gen}
      BY <1>6, NoExecIsNone DEF StepBegins, Resumes, HandlerShape, Executions
    <2>2. exec'.gen \in 0..gen
      BY <2>1, BoundAssumption DEF Known, TypeOK
    <2> QED
      BY <1>6, <2>2 DEF StepBegins, Known, d1, ghosts
  <1>7. CASE DetailStep \/ Put \/ Finish \/ InventoryStep
    <2>1. exec'.gen \in {0, exec.gen}
      BY <1>7, NoExecIsNone
         DEF DetailStep, Put, Finish, InventoryStep, Resumes, HandlerShape, Executions
    <2> QED
      BY <1>7, <2>1 DEF DetailStep, Put, Finish, InventoryStep, Known, d1, ghosts, TypeOK
  <1>8. CASE Work
    <2>0. exec.gen \in Gens
      BY <1>8, ExecutionUpdates DEF Work, Resumes, HandlerShape
    <2>1. exec.gen \in 1..gen
      BY <2>0, BoundAssumption DEF Known, TypeOK, Gens
    <2>2. \A g \in Gens : g # exec.gen => session'[g] = session[g]
      BY <1>8 DEF Work, Ends, TypeOK
    <2> QED
      BY <1>8, <2>0, <2>1, <2>2 DEF Work, Known, do, ghosts
  <1>9. CASE TerminalRelease
    BY <1>9 DEF TerminalRelease, Released, Known, TypeOK, Rows, do
  <1> QED
    BY <1>1, <1>2, <1>3, <1>4, <1>5, <1>6, <1>7, <1>8, <1>9, NextSteps
       DEF DogInvocation, Watching, Executing

\* GenerationFence is inductive on these three: the fence reads the newest token.
LEMMA FenceStep ==
  ASSUME Typed, GenerationFence, Next
  PROVE  GenerationFence'
  <1> USE DEF Typed
  <1>1. CASE (\E w \in Workers : WorkerInvocation(w)) \/ DogInvocation
    BY <1>1, InvocationsLeave, NoExecIsNone DEF GenerationFence, HandlerShape
  <1>2. CASE Timing \/ Pausing
    BY <1>2, PausingLeaves DEF GenerationFence
  <1>3. CASE Fence
    <2>1. CASE OwnsReservation
      <3>1. exec.gen \in Gens /\ exec.gen = row.token
        BY <1>3, <2>1, ExecutionUpdates DEF Fence, Resumes, HandlerShape, OwnsReservation
      <3>2. exec.gen = gen
        BY <3>1 DEF Known, Gens
      <3>3. \A g \in Gens : g > exec.gen => session[g] = "none"
        BY <3>2, BoundAssumption DEF Known, TypeOK, Gens
      <3> QED
        BY <1>3, <3>3 DEF Fence, GenerationFence, d1, do
    <2>2. CASE ~OwnsReservation
      BY <1>3, <2>2 DEF Fence, Handler, GenerationFence, TypeOK, Handlers
    <2> QED BY <2>1, <2>2
  <1>4. CASE Work
    <2>1. exec' = exec /\ handler.pc = "work" /\ exec.gen \in Gens
      BY <1>4, ExecutionUpdates DEF Work, Resumes, HandlerShape, do
    <2>2. \A g \in Gens : g # exec.gen => session'[g] = session[g]
      BY <1>4 DEF Work, Ends, TypeOK
    <2>3. \A g \in Gens : g > exec.gen => g # exec.gen
      BY <2>1 DEF Gens
    <2> QED
      BY <2>1, <2>2, <2>3 DEF GenerationFence
  <1>5. CASE AlarmFires \/ StepBegins \/ TerminalRelease
    BY <1>5 DEF AlarmFires, StepBegins, TerminalRelease, Resumes, Handler, Rest, NoHandler,
                GenerationFence, TypeOK, Handlers
  <1>6. CASE DetailStep \/ Put \/ Finish \/ InventoryStep \/ HandlerCrash \/ ControlFails
    BY <1>6 DEF DetailStep, Put, Finish, InventoryStep, HandlerCrash, ControlFails, Rest,
                NoHandler, GenerationFence
  <1> QED
    BY <1>1, <1>2, <1>3, <1>4, <1>5, <1>6, NextSteps DEF Executing

\* Acknowledged is inductive: a release names a generation that is nobody else's.
LEMMA AcknowledgedStep ==
  ASSUME Typed, Acknowledged, Next
  PROVE  Acknowledged'
  <1> USE DEF Typed
  <1>1. ASSUME NEW w \in Workers, WorkerInvocation(w) PROVE Acknowledged'
    <2>1. CASE DispatchReserve(w)
      <3>1. CASE row.token = 0 /\ ~row.paused
        <4>1. /\ gen' = gen + 1 /\ gen \in Nat
              /\ row' = [row EXCEPT !.token = gen + 1, !.stale = FALSE]
              /\ worker' = [worker EXCEPT ![w] = [pc |-> "deliver", gen |-> gen + 1]]
              /\ UNCHANGED <<acked, ended>>
          BY <2>1, <3>1, BoundAssumption DEF DispatchReserve, Step, TypeOK
        <4>2. row'.token = gen + 1
          BY <4>1 DEF TypeOK, Rows
        <4>3. /\ worker'[w] = [pc |-> "deliver", gen |-> gen + 1]
              /\ \A v \in Workers : v # w => worker'[v] = worker[v]
          BY <4>1 DEF TypeOK
        <4>4. \A n \in 1..gen : n # gen + 1 /\ n # 0 /\ n \in 1..gen'
          BY <4>1
        <4>5. \A v \in Workers : worker[v].pc \in {"deliver", "release"} => worker[v].gen \in 1..gen
          BY DEF SpeakerShape
        <4>6. \A g \in acked : g \in ended /\ g \in 1..gen
          BY <3>1, <4>4 DEF Acknowledged, AcknowledgedKeepsReservation
        <4>7. \A v \in Workers : v # w /\ worker[v].pc = "deliver" => worker[v].gen \in ended
          BY <3>1, <4>4, <4>5 DEF Acknowledged
        <4>8. gen + 1 \notin acked
          BY <4>4, <4>6
        <4> QED
          BY <4>1, <4>2, <4>3, <4>4, <4>5, <4>6, <4>7, <4>8
             DEF Acknowledged, AcknowledgedKeepsReservation
      <3>2. CASE ~(row.token = 0 /\ ~row.paused)
        <4>1. /\ UNCHANGED <<row, gen, acked, ended>>
              /\ worker'[w] = Idle
              /\ \A v \in Workers : v # w => worker'[v] = worker[v]
          BY <2>1, <3>2 DEF DispatchReserve, Done, Step, Idle, TypeOK
        <4> QED
          BY <4>1 DEF Acknowledged, AcknowledgedKeepsReservation, Idle
      <3> QED BY <3>1, <3>2
    <2>2. CASE DispatchDeliver(w)
      <3>1. /\ UNCHANGED <<row, gen, ended>>
            /\ worker[w].pc = "deliver"
            /\ \/ acked' = acked \cup {worker[w].gen} /\ worker'[w] = Idle
               \/ acked' = acked /\ worker'[w] = [pc |-> "release", gen |-> worker[w].gen]
            /\ \A v \in Workers : v # w => worker'[v] = worker[v]
        BY <2>2 DEF DispatchDeliver, Done, Goes, Step, Idle, TypeOK, d1
      <3> QED
        BY <3>1 DEF Acknowledged, AcknowledgedKeepsReservation, SpeakerShape, Idle
    <2>3. CASE DispatchRelease(w)
      <3>1. /\ UNCHANGED <<gen, acked, ended>>
            /\ worker[w].pc = "release"
            /\ row.token # worker[w].gen => row' = row
            /\ worker'[w] = Idle
            /\ \A v \in Workers : v # w => worker'[v] = worker[v]
        BY <2>3 DEF DispatchRelease, Released, Done, Step, Idle, TypeOK, ghosts
      <3> QED
        BY <3>1 DEF Acknowledged, AcknowledgedKeepsReservation, Idle
    <2>4. CASE \/ DispatchBegin(w) \/ DispatchRead(w) \/ WorkerCrash(w) \/ AdminRun(w)
               \/ AdminRead(w) \/ AdminDeliver(w)
      <3>1. /\ UNCHANGED <<row, gen, acked, ended>>
            /\ worker'[w] = worker[w] \/ worker'[w].pc \notin {"deliver", "release"}
            /\ \A v \in Workers : v # w => worker'[v] = worker[v]
        BY <2>4 DEF DispatchBegin, DispatchRead, WorkerCrash, AdminRun, AdminRead, AdminDeliver,
                    Done, Goes, Step, TypeOK, d1, ghosts
      <3> QED
        BY <3>1 DEF Acknowledged, AcknowledgedKeepsReservation
    <2> QED
      BY <1>1, <2>1, <2>2, <2>3, <2>4 DEF WorkerInvocation, Dispatching, AdminRunning
  <1>2. ASSUME row'.token = row.token, UNCHANGED <<worker, gen, acked, ended>>
        PROVE  Acknowledged'
    BY <1>2 DEF Acknowledged, AcknowledgedKeepsReservation
  <1>3. CASE DogInvocation
    BY <1>3, <1>2 DEF DogInvocation, Watching, DogRead, DogDeliver, DogMark, DogCrash, TypeOK,
                      Rows, d1, ghosts
  <1>4. CASE Timing \/ Pausing
    <2>1. row'.token = row.token
      BY <1>4 DEF Timing, Pausing, Controlling, LeaseElapses, EnvironmentChanges, PauseLocal,
                  ResumeIntent, PauseIntent, ResumeLocal, d1, TypeOK, Rows
    <2> QED
      BY <1>2, <1>4, <2>1, PausingLeaves
  <1>5. CASE TerminalRelease
    <2>1. /\ UNCHANGED <<worker, gen, acked>>
          /\ ended' = ended \cup {exec.gen}
          /\ row.token # exec.gen => row' = row
      BY <1>5 DEF TerminalRelease, Released
    <2> QED
      BY <2>1 DEF Acknowledged, AcknowledgedKeepsReservation
  <1>6. CASE \/ AlarmFires \/ HandlerCrash \/ ControlFails \/ StepBegins \/ DetailStep \/ Fence
             \/ Work \/ Put \/ Finish \/ InventoryStep
    BY <1>6, <1>2 DEF AlarmFires, HandlerCrash, ControlFails, StepBegins, DetailStep, Fence, Work,
                      Put, Finish, InventoryStep, d1, ghosts
  <1> QED
    BY <1>1, <1>3, <1>4, <1>5, <1>6, NextSteps DEF Executing

\* PauseOrder is inductive: neither half of a pause undoes the other.
LEMMA PauseStep ==
  ASSUME Typed, PauseOrder, Next
  PROVE  PauseOrder'
  <1> USE DEF Typed, TypeOK, PauseOrder, PauseGateOrder, Rows
  <1>1. ASSUME NEW w \in Workers, WorkerInvocation(w) PROVE PauseOrder'
    <2>1. row'.paused = row.paused
      BY <1>1 DEF WorkerInvocation, Dispatching, AdminRunning, DispatchBegin, DispatchRead,
                  DispatchReserve, DispatchDeliver, DispatchRelease, Released, WorkerCrash,
                  AdminRun, AdminRead, AdminDeliver, d1
    <2> QED
      BY <1>1, <2>1, InvocationsLeave
  <1>2. CASE DogInvocation
    <2>1. row'.paused = row.paused
      BY <1>2 DEF DogInvocation, Watching, DogRead, DogDeliver, DogMark, DogCrash, d1
    <2> QED
      BY <1>2, <2>1, InvocationsLeave
  <1>3. CASE Timing
    BY <1>3 DEF Timing, LeaseElapses, EnvironmentChanges, d1, do
  <1>4. CASE Pausing
    BY <1>4 DEF Pausing, Controlling, PauseLocal, PauseIntent, ResumeIntent, ResumeLocal,
                Unblocked, d1, do
  <1>5. CASE AlarmFires \/ Executing \/ HandlerCrash \/ ControlFails
    <2>1. row'.paused = row.paused /\ doPaused' = doPaused /\ control' \in {control, "idle"}
      BY <1>5 DEF AlarmFires, Executing, StepBegins, DetailStep, Fence, Work, Put,
                  TerminalRelease, Released, Finish, InventoryStep, HandlerCrash, ControlFails,
                  d1, do
    <2> QED
      BY <2>1
  <1> QED
    BY <1>1, <1>2, <1>3, <1>4, <1>5, NextSteps

-----------------------------------------------------------------------------
(* The theorems.                                                           *)

IInv == Typed /\ GenerationFence /\ Acknowledged /\ PauseOrder

\* The initial state is typed.
LEMMA InitTyped ==
  ASSUME Init
  PROVE  TypeOK
  <1> USE BoundAssumption DEF Init
  <1>1. row \in Rows
    BY DEF Rows
  <1>2. session \in [Gens -> {"none", "collecting", "completed", "failed"}]
    OBVIOUS
  <1>3. handler \in Handlers
    BY DEF NoHandler, Handlers
  <1>4. worker \in [Workers -> WorkerStates]
    BY DEF Idle, WorkerStates
  <1>5. dog \in DogStates
    BY DEF Idle, DogStates
  <1>6. env \in [enabled: BOOLEAN, quiet: BOOLEAN]
    OBVIOUS
  <1>7. gen \in 0..MaxGen /\ faults \in 0..MaxFaults
    OBVIOUS
  <1> QED
    BY <1>1, <1>2, <1>3, <1>4, <1>5, <1>6, <1>7 DEF TypeOK

\* The initial state satisfies every layer.
LEMMA InitInv ==
  ASSUME Init
  PROVE  IInv
  <1>1. TypeOK
    BY InitTyped
  <1>2. HandlerShape /\ SpeakerShape
    BY DEF Init, HandlerShape, SpeakerShape, NoHandler, Idle
  <1>3. Known
    BY BoundAssumption DEF Init, Known, NoExec
  <1>4. GenerationFence
    BY DEF Init, GenerationFence, NoHandler
  <1>5. Acknowledged
    BY DEF Init, Acknowledged, AcknowledgedKeepsReservation, Idle
  <1>6. PauseOrder
    BY DEF Init, PauseOrder, PauseGateOrder
  <1> QED
    BY <1>1, <1>2, <1>3, <1>4, <1>5, <1>6 DEF IInv, Typed

\* Every step keeps the types.
LEMMA NextTyped ==
  ASSUME TypeOK, HandlerShape, SpeakerShape, Next
  PROVE  TypeOK'
  BY WorkersTyped, DogTyped, ObjectTyped DEF Next

\* Every step keeps every layer.
LEMMA NextInv ==
  ASSUME IInv, [Next]_vars
  PROVE  IInv'
  <1>1. CASE Next
    BY <1>1, NextTyped, HandlerShapeStep, SpeakerShapeStep, KnownStep, FenceStep, AcknowledgedStep,
       PauseStep
       DEF IInv, Typed
  <1>2. CASE UNCHANGED vars
    <2>1. TypeOK'
      BY <1>2 DEF vars, IInv, Typed, TypeOK
    <2>2. HandlerShape' /\ SpeakerShape' /\ Known'
      BY <1>2 DEF vars, IInv, Typed, HandlerShape, SpeakerShape, Known
    <2>3. GenerationFence' /\ Acknowledged' /\ PauseOrder'
      BY <1>2 DEF vars, IInv, GenerationFence, Acknowledged, AcknowledgedKeepsReservation,
                  PauseOrder, PauseGateOrder
    <2> QED
      BY <2>1, <2>2, <2>3 DEF IInv, Typed
  <1> QED
    BY <1>1, <1>2

\* The layers together are an invariant of the specification.
LEMMA Invariance == Spec => []IInv
  BY InitInv, NextInv, PTL DEF Spec

\* The variables of the control plane stay in their types, with any number of
\* workers, generations, pages and faults.
THEOREM TypeCorrect == Spec => []TypeOK
  <1>1. IInv => TypeOK
    BY DEF IInv, Typed
  <1> QED
    BY <1>1, Invariance, PTL

\* executeResumableCrawlStep's look at the dispatch token is fence enough: past
\* it, no generation collects after a later one has.
THEOREM GenerationsAreFenced == Spec => []GenerationFence
  <1>1. IInv => GenerationFence
    BY DEF IInv
  <1> QED
    BY <1>1, Invariance, PTL

\* releaseShopDispatch is called for a token in several places; none of them
\* takes away a reservation whose delivery the object has acknowledged.
THEOREM AcknowledgedIsKept == Spec => []AcknowledgedKeepsReservation
  <1>1. IInv => AcknowledgedKeepsReservation
    BY DEF IInv, Acknowledged
  <1> QED
    BY <1>1, Invariance, PTL

\* adminControl's order of writes keeps the local gate closed whenever D1 says
\* paused, whatever part of a pause or a resume was lost.
THEOREM PauseIsOrdered == Spec => []PauseGateOrder
  <1>1. IInv => PauseGateOrder
    BY DEF IInv, PauseOrder
  <1> QED
    BY <1>1, Invariance, PTL

-----------------------------------------------------------------------------
(* Refinement: only Work writes a session, and past the fence its          *)
(* generation is the latest.                                               *)

\* Only Work writes a session.
LEMMA OthersKeepSessions ==
  ASSUME Next
  PROVE  Work \/ UNCHANGED session
  <1>1. CASE (\E w \in Workers : WorkerInvocation(w)) \/ DogInvocation
    BY <1>1, InvocationsLeave
  <1>2. CASE Timing \/ Pausing
    BY <1>2, PausingLeaves
  <1>3. CASE AlarmFires \/ Executing \/ HandlerCrash \/ ControlFails
    BY <1>3 DEF AlarmFires, Executing, StepBegins, DetailStep, Fence, Put, TerminalRelease, Finish,
                InventoryStep, HandlerCrash, ControlFails, d1
  <1> QED
    BY <1>1, <1>2, <1>3, NextSteps

\* Past the fence the generation at work is the latest, so what Work writes is
\* that generation's beginning or its end.
LEMMA WorkRefines ==
  ASSUME IInv, Work
  PROVE  Generations!Next \/ UNCHANGED session
  <1> DEFINE g == exec.gen
  <1>1. g \in Gens /\ handler.pc = "work"
    BY ExecutionUpdates DEF IInv, Typed, HandlerShape, Work, Resumes
  <1>2. Generations!Latest(g)
    BY <1>1 DEF IInv, GenerationFence, Generations!Latest, Generations!Gens, Gens
  <1>3. g \in Generations!Gens
    BY <1>1 DEF Gens, Generations!Gens
  <1>4. session[g] \in {"none", "collecting", "completed", "failed"}
    BY <1>1 DEF IInv, Typed, TypeOK
  <1>5. \/ UNCHANGED session
        \/ session[g] \in {"none", "collecting"}
            /\ session' = [session EXCEPT ![g] = "collecting"]
        \/ session[g] = "collecting" /\ \E outcome \in {"completed", "failed"} :
              session' = [session EXCEPT ![g] = outcome]
    BY <1>4 DEF Work, Over, Session, Ends
  <1>6. session[g] = "collecting" => [session EXCEPT ![g] = "collecting"] = session
    BY <1>1 DEF IInv, Typed, TypeOK
  <1>7. CASE UNCHANGED session
    BY <1>7
  <1>8. CASE session[g] = "none" /\ session' = [session EXCEPT ![g] = "collecting"]
    BY <1>2, <1>3, <1>8 DEF Generations!Next, Generations!Begin
  <1>9. CASE session[g] = "collecting" /\ \E outcome \in {"completed", "failed"} :
              session' = [session EXCEPT ![g] = outcome]
    BY <1>2, <1>3, <1>9 DEF Generations!Next, Generations!End
  <1> QED
    BY <1>5, <1>6, <1>7, <1>8, <1>9

\* The control plane takes one shop's crawls one at a time and in order, as
\* CrawlGenerations promises, however its parts fail and interleave.
THEOREM Implements == Spec => ImplementsGenerations
  <1>1. Init => Generations!Init
    BY DEF Init, Generations!Init, Gens, Generations!Gens
  <1>2. IInv /\ [Next]_vars => [Generations!Next]_session
    BY OthersKeepSessions, WorkRefines DEF vars
  <1> QED
    BY <1>1, <1>2, Invariance, PTL DEF Spec, Generations!Spec, ImplementsGenerations
=============================================================================
