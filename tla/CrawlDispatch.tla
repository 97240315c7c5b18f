--------------------------- MODULE CrawlDispatch ---------------------------
(***************************************************************************)
(* One shop's crawl control plane: the dispatch reservation in its D1 row  *)
(* (shop_sync_state), the CrawlScheduler Durable Object (DO) that owns the *)
(* execution, and the Worker invocations that meet in between: crawl       *)
(* crons, the watchdog of the general cron, and an administrator.          *)
(*                                                                         *)
(* A DO handler keeps running across an awaited D1 call while other        *)
(* requests reach the object, so a handler is several actions, cut at its  *)
(* D1 calls.  DO storage calls in between do not let another event in.     *)
(*                                                                         *)
(* A generation is a dispatch_token: the shop and the request's time.  Two *)
(* reservations of one shop are taken to have different times, so that a   *)
(* generation is the number of the reservation that wrote it.              *)
(***************************************************************************)
EXTENDS Integers, FiniteSets

CONSTANTS
    Workers,        \* Worker invocations: crawl crons and admin requests
    MaxGen,         \* bound: reservations made
    MaxFaults,      \* bound: crashes, lost requests and lost responses
    Pages,          \* listing pages of a collection
    Details,        \* staged detail targets of a collection
    Batch,          \* inventory rechecks after a crawl
    Switches        \* what the environment changes: "enabled", "quiet"

ASSUME WorkAssumption ==
    Pages \in Nat \ {0} /\ Details \in Nat /\ Batch \in Nat \ {0}
ASSUME SwitchAssumption == Switches \subseteq {"enabled", "quiet"}
ASSUME BoundAssumption == MaxGen \in Nat /\ MaxFaults \in Nat

VARIABLES
    row,        \* shop_sync_state: token (0 = NULL), stale, paused
    session,    \* crawl_fetch_sessions.status of each generation
    exec,       \* DO storage: the stored execution
    doPaused,   \* DO storage: admin_paused
    alarm,      \* the DO's alarm is armed
    handler,    \* the running alarm() invocation
    control,    \* the running adminControl(): it blocks every other DO event
    worker,     \* Worker invocations
    dog,        \* the watchdog invocation
    env,        \* deployment switch and quiet hours
    gen,        \* reservations made so far
    acked,      \* generations whose dispatcher saw 202
    ended,      \* generations whose executor reached a terminal release
    faults

d1 == <<row, session>>
do == <<exec, doPaused, alarm>>
ghosts == <<gen, acked, ended>>
vars == <<row, session, exec, doPaused, alarm, handler, control, worker, dog,
          env, gen, acked, ended, faults>>

Gens == 1..MaxGen
NoExec == [gen |-> 0, phase |-> "none", left |-> 0, inventory |-> FALSE, checks |-> 0]
Idle == [pc |-> "idle", gen |-> 0]
NoHandler == [pc |-> "idle", next |-> NoExec]

Rows == [token: 0..MaxGen, stale: BOOLEAN, paused: BOOLEAN]
Executions ==
    [gen: Gens, phase: {"init", "fetch", "finalize"}, left: 0..(Pages + Details),
     inventory: BOOLEAN, checks: 0..Batch]
Handlers ==
    [pc: {"idle", "begin", "detail", "fence", "work", "put", "release", "finish",
          "inventory"},
     next: Executions \cup {NoExec}]
WorkerStates ==
    [pc: {"idle", "read", "reserve", "deliver", "release", "adminRead", "adminDeliver"},
     gen: 0..MaxGen]
DogStates == [pc: {"idle", "deliver", "mark"}, gen: 0..MaxGen]

Init ==
    /\ row = [token |-> 0, stale |-> FALSE, paused |-> FALSE]
    /\ session = [g \in Gens |-> "none"]
    /\ exec = NoExec /\ doPaused = FALSE /\ alarm = FALSE
    /\ handler = NoHandler
    /\ control = "idle"
    /\ worker = [w \in Workers |-> Idle]
    /\ dog = Idle
    /\ env = [enabled |-> TRUE, quiet |-> FALSE]
    /\ gen = 0 /\ acked = {} /\ ended = {}
    /\ faults = 0

Running == exec # NoExec
Unblocked == control = "idle"
Fault == faults < MaxFaults /\ faults' = faults + 1

-----------------------------------------------------------------------------
(* POST /start-crawl, as one event of the DO.                              *)

Accepts(g) == env.enabled /\ (~Running \/ exec.gen = g)

\* The write of the execution and the arming of the alarm are two awaited
\* storage calls: an object lost in between has done only the first.
StartCrawl(g, arms) ==
    /\ Unblocked
    /\ IF ~Accepts(g)
       THEN UNCHANGED do
       ELSE /\ exec' = IF Running THEN exec
                       ELSE [gen |-> g, phase |-> "init", left |-> 0,
                             inventory |-> FALSE, checks |-> 0]
            /\ alarm' = (alarm \/ (arms /\ ~doPaused))
            /\ UNCHANGED doPaused

\* What a caller can see of a delivery: the DO's answer, or an error although
\* the request was processed, processed in part, or never reached the object.
Delivered(g) == StartCrawl(g, TRUE) /\ UNCHANGED faults
DeliveryError(g) ==
    /\ Fault
    /\ \/ \E arms \in BOOLEAN : StartCrawl(g, arms)
       \/ UNCHANGED do

-----------------------------------------------------------------------------
(* A dispatch: dispatchOneCrawl, or one candidate of dispatchDueCrawls.    *)

Step(w, pc, g) == worker' = [worker EXCEPT ![w] = [pc |-> pc, gen |-> g]]
Goes(w, pc) == Step(w, pc, worker[w].gen)
Done(w) == Step(w, "idle", 0)

DispatchBegin(w) ==
    /\ worker[w].pc = "idle"
    /\ env.enabled /\ ~env.quiet
    /\ Step(w, "read", 0)
    /\ UNCHANGED <<d1, do, handler, control, dog, env, ghosts, faults>>

\* The row is read first; the reservation that follows checks it again.
DispatchRead(w) ==
    /\ worker[w].pc = "read"
    /\ IF row.paused \/ row.token # 0 THEN Done(w) ELSE Goes(w, "reserve")
    /\ UNCHANGED <<d1, do, handler, control, dog, env, ghosts, faults>>

DispatchReserve(w) ==
    /\ worker[w].pc = "reserve"
    /\ IF row.token = 0 /\ ~row.paused
       THEN /\ gen < MaxGen
            /\ gen' = gen + 1
            /\ row' = [row EXCEPT !.token = gen + 1, !.stale = FALSE]
            /\ Step(w, "deliver", gen + 1)
       ELSE Done(w) /\ UNCHANGED <<row, gen>>
    /\ UNCHANGED <<session, do, handler, control, dog, env, acked, ended, faults>>

\* 202 ends the dispatch; 409 or an error gives the reservation back.
DispatchDeliver(w) ==
    /\ worker[w].pc = "deliver"
    /\ LET g == worker[w].gen IN
       \/ /\ Delivered(g)
          /\ IF Accepts(g)
             THEN Done(w) /\ acked' = acked \cup {g}
             ELSE Goes(w, "release") /\ UNCHANGED acked
       \/ DeliveryError(g) /\ Goes(w, "release") /\ UNCHANGED acked
    /\ UNCHANGED <<d1, handler, control, dog, env, gen, ended>>

\* Mutant: a release that does not compare the token.
ReleasedWhoeverOwns(g) == [row EXCEPT !.token = 0, !.stale = FALSE]

Released(g) == IF row.token = g THEN [row EXCEPT !.token = 0, !.stale = FALSE] ELSE row

DispatchRelease(w) ==
    /\ worker[w].pc = "release"
    /\ row' = Released(worker[w].gen)
    /\ Done(w)
    /\ UNCHANGED <<session, do, handler, control, dog, env, ghosts, faults>>

WorkerCrash(w) ==
    /\ worker[w].pc # "idle"
    /\ Fault
    /\ Done(w)
    /\ UNCHANGED <<d1, do, handler, control, dog, env, ghosts>>

-----------------------------------------------------------------------------
(* The administrator's "run": wake the DO, else re-deliver, else dispatch. *)

AdminRun(w) ==
    /\ worker[w].pc = "idle"
    /\ env.enabled
    /\ Unblocked
    /\ alarm' = (alarm \/ (Running /\ ~doPaused))
    /\ IF doPaused \/ Running THEN UNCHANGED worker ELSE Step(w, "adminRead", 0)
    /\ UNCHANGED <<d1, exec, doPaused, handler, control, dog, env, ghosts, faults>>

AdminRead(w) ==
    /\ worker[w].pc = "adminRead"
    /\ \/ row.paused /\ Done(w)
       \/ ~row.paused /\ row.token # 0 /\ Step(w, "adminDeliver", row.token)
       \/ ~row.paused /\ row.token = 0 /\ ~env.quiet /\ Step(w, "read", 0)
       \/ ~row.paused /\ row.token = 0 /\ env.quiet /\ Done(w)
    /\ UNCHANGED <<d1, do, handler, control, dog, env, ghosts, faults>>

AdminDeliver(w) ==
    /\ worker[w].pc = "adminDeliver"
    /\ Delivered(worker[w].gen) \/ DeliveryError(worker[w].gen)
    /\ Done(w)
    /\ UNCHANGED <<d1, handler, control, dog, env, ghosts>>

-----------------------------------------------------------------------------
(* The watchdog: recoverStalledCrawlDispatches, on a snapshot of the row.  *)

DogSteps(pc, g) == dog' = [pc |-> pc, gen |-> g]

\* Mutant: a reservation is never old enough to be delivered again.
NeverRecovered == FALSE

Recoverable == ~row.paused /\ row.token # 0 /\ row.stale

DogRead ==
    /\ dog.pc = "idle"
    /\ ~env.quiet /\ env.enabled
    /\ Recoverable
    /\ DogSteps("deliver", row.token)
    /\ UNCHANGED <<d1, do, handler, control, worker, env, ghosts, faults>>

DogDeliver ==
    /\ dog.pc = "deliver"
    /\ \/ /\ Delivered(dog.gen)
          /\ IF Accepts(dog.gen) THEN DogSteps("mark", dog.gen) ELSE DogSteps("idle", 0)
       \/ DeliveryError(dog.gen) /\ DogSteps("idle", 0)
    /\ UNCHANGED <<d1, handler, control, worker, env, ghosts>>

DogMark ==
    /\ dog.pc = "mark"
    /\ row' = IF row.token = dog.gen THEN [row EXCEPT !.stale = FALSE] ELSE row
    /\ DogSteps("idle", 0)
    /\ UNCHANGED <<session, do, handler, control, worker, env, ghosts, faults>>

DogCrash ==
    /\ dog.pc # "idle"
    /\ Fault
    /\ DogSteps("idle", 0)
    /\ UNCHANGED <<d1, do, handler, control, worker, env, ghosts>>

-----------------------------------------------------------------------------
(* alarm(): the gates, then one bounded step of the stored execution.      *)

Handler(pc) == handler' = [handler EXCEPT !.pc = pc]
Rest == handler' = NoHandler

AlarmFires ==
    /\ alarm /\ handler.pc = "idle" /\ Unblocked
    /\ IF doPaused \/ ~Running \/ ~env.enabled
       THEN alarm' = FALSE /\ UNCHANGED handler
       ELSE IF env.quiet
       THEN UNCHANGED <<alarm, handler>>        \* re-armed for the morning
       ELSE alarm' = FALSE /\ Handler("begin")
    /\ UNCHANGED <<d1, exec, doPaused, control, worker, dog, env, ghosts, faults>>

Session == session[exec.gen]
Resumes(pc) == handler.pc = pc /\ Unblocked

\* What runExecutionStep does before the executor: a published crawl goes on
\* with its inventory batch, a staged detail target is fetched.
StepBegins ==
    /\ Resumes("begin")
    /\ LET finalizing == exec.phase = "finalize" IN
       CASE exec.inventory /\ Session = "completed" ->
                Handler("inventory") /\ UNCHANGED exec
         [] exec.inventory /\ Session = "failed" ->
                Rest /\ exec' = NoExec
         [] ~(exec.inventory /\ Session \in {"completed", "failed"})
                /\ finalizing /\ exec.left > 0 ->
                Handler("detail") /\ UNCHANGED exec
         [] OTHER ->
                /\ Handler("fence")
                /\ exec' = [exec EXCEPT !.inventory = @ \/ finalizing]
    /\ UNCHANGED <<d1, doPaused, alarm, control, worker, dog, env, ghosts, faults>>

\* One detail request, its D1 record and the cursor.
DetailStep ==
    /\ Resumes("detail")
    /\ exec' = [exec EXCEPT !.left = @ - 1]
    /\ alarm' = TRUE
    /\ Rest
    /\ UNCHANGED <<d1, doPaused, control, worker, dog, env, ghosts, faults>>

\* Mutant: a step that trusts the delivered command.
OwnsAnyway == TRUE

OwnsReservation == row.token = exec.gen

\* The generation fence of executeResumableCrawlStep.  A deployment may also
\* have lost the shop's transport configuration, which ends the crawl.
Fence ==
    /\ Resumes("fence")
    /\ IF OwnsReservation
       THEN Handler("work") \/ Handler("release")
       ELSE Handler("finish")                   \* stale_dispatch
    /\ UNCHANGED <<d1, do, control, worker, dog, env, ghosts, faults>>

Continues(next) == handler' = [pc |-> "put", next |-> next]
Ends(status) ==
    /\ session' = [session EXCEPT ![exec.gen] = status]
    /\ Handler("release")

\* Mutants: a cursor that passes its last page, a session looked at too late.
AfterPageTooFar == [exec EXCEPT !.left = @ - 1]
NeverOver == FALSE

Over == Session \in {"completed", "failed"}

AfterPage ==
    IF exec.left > 1 THEN [exec EXCEPT !.left = @ - 1]
    ELSE [exec EXCEPT !.phase = "finalize", !.left = Details]

\* One transition of executeContinuation on the generation's D1 session.
Work ==
    /\ Resumes("work")
    /\ \/ Over /\ Handler("release") /\ UNCHANGED session
       \/ /\ ~Over /\ exec.phase = "init"
          /\ session' = [session EXCEPT ![exec.gen] = "collecting"]
          /\ Continues([exec EXCEPT !.phase = "fetch", !.left = Pages])
       \/ /\ Session = "collecting" /\ exec.phase = "fetch"
          /\ \/ Continues(AfterPage) /\ UNCHANGED session
             \/ Ends("failed")
       \/ /\ Session = "collecting" /\ exec.phase = "finalize"
          /\ Ends("completed") \/ Ends("failed")
    /\ UNCHANGED <<row, do, control, worker, dog, env, ghosts, faults>>

\* The DO persists the next command and arms its alarm, paused or not.
Put ==
    /\ Resumes("put")
    /\ exec' = handler.next
    /\ alarm' = TRUE
    /\ Rest
    /\ UNCHANGED <<d1, doPaused, control, worker, dog, env, ghosts, faults>>

TerminalRelease ==
    /\ Resumes("release")
    /\ row' = Released(exec.gen)
    /\ ended' = ended \cup {exec.gen}
    /\ Handler("finish")
    /\ UNCHANGED <<session, do, control, worker, dog, env, gen, acked, faults>>

Finish ==
    /\ Resumes("finish")
    /\ IF exec.inventory /\ Session = "completed"
       THEN alarm' = TRUE /\ UNCHANGED exec
       ELSE exec' = NoExec /\ UNCHANGED alarm
    /\ Rest
    /\ UNCHANGED <<d1, doPaused, control, worker, dog, env, ghosts, faults>>

\* One recheck of the inventory batch; the batch may end at any of them.
InventoryStep ==
    /\ Resumes("inventory")
    /\ \/ /\ exec.checks + 1 < Batch
          /\ exec' = [exec EXCEPT !.checks = @ + 1]
          /\ alarm' = TRUE
       \/ exec' = NoExec /\ UNCHANGED alarm
    /\ Rest
    /\ UNCHANGED <<d1, doPaused, control, worker, dog, env, ghosts, faults>>

\* An exception, an eviction or a failed D1 call: the platform fires the alarm
\* again, or has used up its retries.  An executor that finds the claim of a dead
\* finalizer and asks for a retry leaves what the first leaves.
HandlerCrash ==
    /\ handler.pc # "idle"
    /\ Fault
    /\ Rest
    /\ alarm' = TRUE \/ UNCHANGED alarm
    /\ UNCHANGED <<d1, exec, doPaused, control, worker, dog, env, ghosts>>

-----------------------------------------------------------------------------
(* adminControl, under blockConcurrencyWhile.                              *)

PauseLocal ==
    /\ Unblocked
    /\ doPaused' = TRUE /\ alarm' = FALSE
    /\ control' = "pausing"
    /\ UNCHANGED <<d1, exec, handler, worker, dog, env, ghosts, faults>>

PauseIntent ==
    /\ control = "pausing"
    /\ row' = [row EXCEPT !.paused = TRUE]
    /\ control' = "idle"
    /\ UNCHANGED <<session, do, handler, worker, dog, env, ghosts, faults>>

\* Mutant: a resume that opens the local gate first.
ResumeGateFirst ==
    /\ Unblocked
    /\ doPaused' = FALSE
    /\ control' = "resuming"
    /\ UNCHANGED <<d1, exec, alarm, handler, worker, dog, env, ghosts, faults>>

ResumeIntent ==
    /\ Unblocked
    /\ row' = [row EXCEPT !.paused = FALSE]
    /\ control' = "resuming"
    /\ UNCHANGED <<session, do, handler, worker, dog, env, ghosts, faults>>

ResumeLocal ==
    /\ control = "resuming"
    /\ doPaused' = FALSE
    /\ alarm' = (alarm \/ Running)
    /\ control' = "idle"
    /\ UNCHANGED <<d1, exec, handler, worker, dog, env, ghosts, faults>>

\* A throw inside blockConcurrencyWhile resets the object, a running alarm()
\* included.
ControlFails ==
    /\ control # "idle"
    /\ Fault
    /\ control' = "idle"
    /\ Rest
    /\ \/ handler.pc # "idle" /\ alarm' = TRUE
       \/ UNCHANGED alarm
    /\ UNCHANGED <<d1, exec, doPaused, worker, dog, env, ghosts>>

-----------------------------------------------------------------------------
(* Time and deployment.                                                    *)

LeaseElapses ==
    /\ row.token # 0 /\ ~row.stale
    /\ row' = [row EXCEPT !.stale = TRUE]
    /\ UNCHANGED <<session, do, handler, control, worker, dog, env, ghosts, faults>>

EnvironmentChanges ==
    /\ \E switch \in Switches : env' = [env EXCEPT ![switch] = ~@]
    /\ UNCHANGED <<d1, do, handler, control, worker, dog, ghosts, faults>>

-----------------------------------------------------------------------------
Dispatching(w) ==
    DispatchRead(w) \/ DispatchReserve(w) \/ DispatchDeliver(w) \/ DispatchRelease(w)
AdminRunning(w) == AdminRead(w) \/ AdminDeliver(w)
Watching == DogRead \/ DogDeliver \/ DogMark
Executing ==
    \/ StepBegins \/ DetailStep \/ Fence \/ Work \/ Put
    \/ TerminalRelease \/ Finish \/ InventoryStep
Controlling == PauseIntent \/ ResumeLocal

Next ==
    \/ \E w \in Workers :
          \/ DispatchBegin(w) \/ Dispatching(w) \/ WorkerCrash(w)
          \/ AdminRun(w) \/ AdminRunning(w)
    \/ Watching \/ DogCrash
    \/ AlarmFires \/ Executing \/ HandlerCrash
    \/ PauseLocal \/ ResumeIntent \/ Controlling \/ ControlFails
    \/ LeaseElapses \/ EnvironmentChanges

Spec == Init /\ [][Next]_vars

\* An invocation that has begun goes on; the general cron keeps looking; the
\* platform fires armed alarms.  Nobody is obliged to dispatch, pause or resume.
Fairness ==
    /\ \A w \in Workers : WF_vars(Dispatching(w) \/ AdminRunning(w))
    /\ WF_vars(Watching)
    /\ WF_vars(AlarmFires) /\ WF_vars(Executing)
    /\ WF_vars(Controlling)
    /\ WF_vars(LeaseElapses)

FairSpec == Spec /\ Fairness

-----------------------------------------------------------------------------
TypeOK ==
    /\ row \in Rows
    /\ session \in [Gens -> {"none", "collecting", "completed", "failed"}]
    /\ exec \in Executions \cup {NoExec}
    /\ doPaused \in BOOLEAN /\ alarm \in BOOLEAN
    /\ handler \in Handlers
    /\ control \in {"idle", "pausing", "resuming"}
    /\ worker \in [Workers -> WorkerStates]
    /\ dog \in DogStates
    /\ env \in [enabled: BOOLEAN, quiet: BOOLEAN]
    /\ gen \in 0..MaxGen
    /\ acked \subseteq Gens /\ ended \subseteq Gens
    /\ faults \in 0..MaxFaults

\* Past the generation fence the DO works on the newest generation that ever
\* collected, however late a delivery, a redelivery or a release was: no
\* generation's collection runs after that of a later one.
GenerationFence ==
    handler.pc \in {"work", "put"} =>
        \A g \in Gens : g > exec.gen => session[g] = "none"

\* A dispatch that was answered 202 keeps its reservation until its own
\* executor ends it; no other dispatcher's failure, however it interleaves,
\* takes it away.
AcknowledgedKeepsReservation ==
    \A g \in acked : g \in ended \/ row.token = g

\* The local alarm gate is never open while D1 says the shop is paused, at any
\* point of a pause or a resume that was cut short.
PauseGateOrder == row.paused => doPaused

\* The control plane implements CrawlGenerations: one generation at a time, in
\* order, each ending at most once.
Generations == INSTANCE CrawlGenerations WITH MaxGen <- MaxGen, session <- session
ImplementsGenerations == Generations!Spec

Operational == env.enabled /\ ~env.quiet /\ ~doPaused /\ ~row.paused /\ Unblocked

\* In operation, and with no other generation's execution in the way, every
\* reservation is eventually given back: a lost answer, a crash between a
\* publication and its release and an alarm the platform gave up are all healed
\* by the alarm or by the watchdog's redelivery.
ReservationIsServed ==
    \A g \in Gens :
        <>[](Operational /\ exec.gen \in {0, g}) => (row.token = g ~> row.token # g)
=============================================================================
