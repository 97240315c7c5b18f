--------------------------- MODULE CrawlCollection ---------------------------
(***************************************************************************)
(* One collection run of a shop: the CrawlScheduler Durable Object asks    *)
(* the seller for one page per alarm, commits what the page holds to D1,   *)
(* and at the end claims the run for publication.                          *)
(*                                                                         *)
(* The cursor and the counters live in the Durable Object's execution; D1  *)
(* holds the pages, each with a receipt of the progress its commit made,   *)
(* and a checkpoint.  No transaction spans the two: a handler can die      *)
(* between the commit and the execution write, and a commit it sent can    *)
(* land after the next handler has begun.                                  *)
(*                                                                         *)
(* Each action is one call: a D1 statement or batch, a storage write, a    *)
(* request to the seller.  The handlers of the object run one at a time.   *)
(***************************************************************************)
EXTENDS Integers, FiniteSets

CONSTANTS
    NumPages,           \* listing pages of the shop, named by their order in a page
    Initial,            \* pages of initialPageQueue
    Plugins,            \* what the shop's plugin may declare, see plugin
    MaxLate,            \* bound: commits that land after their handler died
    MaxFaults           \* bound: crashes, errors, expired permits

ASSUME PagesAssumption ==
    /\ NumPages \in Nat \ {0} /\ Initial \in 1..NumPages
ASSUME PluginAssumption == Plugins \subseteq [relay: BOOLEAN, onward: BOOLEAN, limit: Nat]
ASSUME BoundAssumption == MaxLate \in Nat /\ MaxFaults \in Nat

Pages == 1..NumPages
NoPage == 0
Largest(S) == CHOOSE x \in S : \A y \in S : y <= x

\* CrawlFetchProgress; pages_fetched moves with pages_parsed on this path, and
\* reached_end and last_completed_page are only reported.
Progress == [seq: 0..NumPages, phase: {"fetch", "finalize"}, page: Pages \cup {NoPage},
             parsed: 0..NumPages, incomplete: BOOLEAN]
NoProgress == [seq |-> -1, phase |-> "none", page |-> NoPage, parsed |-> 0, incomplete |-> FALSE]

\* What a page gives.  sure: its links were found, and if it is empty the shop
\* confirms that.
Html == [kind: {"html"}, items: BOOLEAN, links: SUBSET Pages, sure: BOOLEAN]
Unread(kind) == [kind |-> kind, items |-> FALSE, links |-> {}, sure |-> TRUE]
Answers == Html \cup {Unread("missing")}

VARIABLES
    plugin,     \* relayed; discovery.policy.emptyPage = "continue"; page_limit
    session,    \* crawl_fetch_sessions: status and the checkpointed progress
    state,      \* crawl_fetch_pages.state, "absent" when the page has no row
    ordinal,    \* crawl_fetch_pages.ordinal from 1, 0 when the page has no row
    staged,     \* pages with products_json of at least one product
    receipt,    \* crawl_fetch_pages.progress_json
    run,        \* crawl_runs.status of this collection
    fresh,      \* finalization_claimed_at is less than two minutes old
    exec,       \* the execution in DO storage
    step,       \* the alarm handler
    flying,     \* page commits of dead handlers
    faults, lates,
    \* History.
    linked,     \* pages a committed page links to, and the initial ones
    found,      \* pages committed with products
    asked,      \* requests to the seller since the last PREPARE
    published   \* times crawlShop ran to its end

\* The collection's D1 rows, and the plugin, which nothing changes.
rows == <<plugin, session, state, ordinal, staged, receipt>>
history == <<linked, found, asked, published>>
vars == <<plugin, session, state, ordinal, staged, receipt, run, fresh, exec, step, flying,
          faults, lates, linked, found, asked, published>>

NoBatch == [page |-> NoPage, kind |-> "none", items |-> FALSE, accepted |-> {}, size |-> 0,
            end |-> FALSE, links |-> {}, progress |-> NoProgress]
NoStep == [pc |-> "idle", value |-> NoProgress, seen |-> NoProgress, permitted |-> FALSE,
           error |-> FALSE, batch |-> NoBatch]

\* The ordinals a frontier may use.
Limit == Largest({Initial, plugin.limit})

Cursors == Progress \cup {NoProgress}
Batches == [page: Pages \cup {NoPage}, kind: {"none", "parsed", "ignored"}, items: BOOLEAN,
            accepted: SUBSET Pages, size: Nat, end: BOOLEAN, links: SUBSET Pages,
            progress: Cursors]
SessionStates == [status: {"none", "collecting", "finalizing", "completed", "failed"},
                  progress: Cursors]
ExecStates == [alive: BOOLEAN, told: Cursors, permit: BOOLEAN, attempted: BOOLEAN]
StepStates ==
    [pc: {"idle", "session", "create", "frontier", "page", "ask", "commit", "continue", "put",
          "fail", "failed", "claim", "reserve", "publish", "complete", "lose", "terminal"},
     value: Cursors, seen: Cursors, permitted: BOOLEAN, error: BOOLEAN, batch: Batches]

TypeOK ==
    /\ plugin \in Plugins
    /\ session \in SessionStates
    /\ state \in [Pages -> {"absent", "pending", "parsed", "ignored"}]
    /\ ordinal \in [Pages -> 0..Limit]
    /\ \A p \in Pages : ordinal[p] = 0 <=> state[p] = "absent"
    /\ staged \subseteq Pages
    /\ receipt \in [Pages -> Cursors]
    /\ run \in {"none", "running", "success", "failed"} /\ fresh \in BOOLEAN
    /\ exec \in ExecStates /\ step \in StepStates
    /\ flying \subseteq Batches
    /\ faults \in 0..MaxFaults /\ lates \in 0..MaxLate
    /\ linked \subseteq Pages /\ found \subseteq Pages
    /\ asked \in Nat /\ published \in Nat

\* startCrawl has stored the command of a new run.
Init ==
    /\ plugin \in Plugins
    /\ session = [status |-> "none", progress |-> NoProgress]
    /\ state = [p \in Pages |-> "absent"] /\ ordinal = [p \in Pages |-> 0]
    /\ staged = {} /\ receipt = [p \in Pages |-> NoProgress]
    /\ run = "none" /\ fresh = FALSE
    /\ exec = [alive |-> TRUE, told |-> NoProgress, permit |-> FALSE, attempted |-> FALSE]
    /\ step = NoStep /\ flying = {}
    /\ faults = 0 /\ lates = 0
    /\ linked = 1..Initial /\ found = {} /\ asked = 0 /\ published = 0

Fault == faults < MaxFaults /\ faults' = faults + 1
At(pc) == step.pc = pc
Goes(pc) == step' = [step EXCEPT !.pc = pc]

-----------------------------------------------------------------------------
(* An alarm: prepare a permit, or spend it on a step.                      *)

Fetching == exec.told.phase = "fetch"

\* committedDirectPage: the attempt's commit may have outlived the write of
\* its command.
Committed == exec.attempted /\ state[exec.told.page] # "pending"

NeedsPermit == Fetching /\ ~exec.permit /\ ~Committed

Prepare ==
    /\ At("idle") /\ exec.alive /\ NeedsPermit
    /\ exec' = [exec EXCEPT !.permit = TRUE, !.attempted = FALSE]
    /\ asked' = 0
    /\ UNCHANGED <<rows, run, fresh, step, flying, faults, lates, linked, found, published>>

\* retry: the command stays, without a permit.
Retried == [exec EXCEPT !.permit = FALSE, !.attempted = FALSE]

Begun(error) ==
    step' = [NoStep EXCEPT !.pc = "session", !.value = exec.told, !.error = error,
                           !.permitted = exec.permit]

\* robots.txt or the relay's PREPARE fails: the step runs, and fails the page.
PrepareFails ==
    /\ At("idle") /\ exec.alive /\ NeedsPermit
    /\ Fault
    /\ Begun(TRUE)
    /\ UNCHANGED <<rows, run, fresh, exec, flying, lates, history>>

PermitExpires ==
    /\ At("idle") /\ exec.alive /\ plugin.relay /\ exec.permit
    /\ Fault
    /\ exec' = [exec EXCEPT !.permit = FALSE]
    /\ UNCHANGED <<rows, run, fresh, step, flying, lates, history>>

\* Mutant: the permit is still there if the step dies.
PermitKept == exec

\* A direct permit is spent in storage before the request.
PermitSpent ==
    IF exec.permit /\ Fetching /\ ~plugin.relay
    THEN [exec EXCEPT !.permit = FALSE, !.attempted = TRUE]
    ELSE exec

StepBegins ==
    /\ At("idle") /\ exec.alive /\ ~NeedsPermit
    /\ Begun(FALSE)
    /\ exec' = PermitSpent
    /\ UNCHANGED <<rows, run, fresh, flying, faults, lates, history>>

-----------------------------------------------------------------------------
(* The session: ensureSession, then the choice of a transition.            *)

Known == {p \in Pages : state[p] # "absent"}

\* getCrawlFetchSession hides a session whose frontier was never written.
Visible ==
    /\ session.status # "none"
    /\ \/ session.status \notin {"collecting", "finalizing"}
       \/ session.progress.phase # "fetch"
       \/ Known # {}

\* withCollectionProgress.
Value(value) == IF session.progress.seq > value.seq THEN session.progress ELSE value
Effective(value) == IF session.status = "collecting" THEN Value(value) ELSE session.progress

\* executeContinuation, on the session it read.
Transition(seen) ==
    IF session.status \in {"completed", "failed"} THEN "terminal"
    ELSE IF exec.told = NoProgress THEN "continue"
    ELSE IF exec.told.seq > seen.seq THEN "idle"
    ELSE IF exec.told.seq < seen.seq \/ exec.told.phase # seen.phase
                                     \/ exec.told.page # seen.page THEN "continue"
    ELSE IF seen.phase = "fetch" THEN "page" ELSE "claim"

ReadSession ==
    /\ At("session")
    /\ LET seen == Effective(step.value)
           pc == Transition(seen) IN
       \/ ~Visible /\ Goes("create") /\ UNCHANGED exec
       \/ Visible /\ pc = "idle" /\ step' = NoStep /\ exec' = Retried
       \/ /\ Visible /\ pc # "idle"
          /\ step' = [step EXCEPT !.pc = pc, !.value = Value(@), !.seen = seen]
          /\ UNCHANGED exec
    /\ UNCHANGED <<rows, run, fresh, flying, faults, lates, history>>

FirstProgress == [seq |-> 0, phase |-> "fetch", page |-> 1, parsed |-> 0, incomplete |-> FALSE]

CreateSession ==
    /\ At("create")
    /\ session' = IF session.status # "none" THEN session
                  ELSE [status |-> "collecting", progress |-> FirstProgress]
    /\ Goes("frontier")
    /\ UNCHANGED <<plugin, state, ordinal, staged, receipt, run, fresh, exec, flying, faults,
                   lates, history>>

CreateFrontier ==
    /\ At("frontier")
    /\ LET added == {p \in 1..Initial : state[p] = "absent"} IN
       /\ state' = [p \in Pages |-> IF p \in added THEN "pending" ELSE state[p]]
       /\ ordinal' = [p \in Pages |-> IF p \in added THEN p ELSE ordinal[p]]
    /\ Goes("session")
    /\ UNCHANGED <<plugin, session, staged, receipt, run, fresh, exec, flying, faults, lates,
                   history>>

-----------------------------------------------------------------------------
(* One page: processFetch and parseAndCommitPage.                          *)

\* Mutant: a receipt is never looked for.
NothingToRecover(p, seen) == FALSE

\* recoverCollectionProgress.
Recovers(p, seen) == receipt[p].seq > seen.seq

ReadPage ==
    /\ At("page")
    /\ LET p == step.seen.page IN
       IF state[p] = "absent" THEN step' = NoStep                        \* it throws
       ELSE IF Recovers(p, step.seen)
       THEN step' = IF receipt[p].seq # step.seen.seq + 1 THEN NoStep   \* it throws
                    ELSE [step EXCEPT !.pc = "continue", !.value = receipt[p]]
       ELSE IF state[p] # "pending" THEN Goes("continue")
       ELSE Goes(IF step.error THEN "fail" ELSE "ask")
    /\ UNCHANGED <<rows, run, fresh, exec, flying, faults, lates, history>>

\* crawlFetchFrontierProbe.
HasStagedItems == \E p \in staged : state[p] = "parsed"
Waiting(but) == {p \in Pages \ {but} : state[p] = "pending"}
NextPending(but) ==
    IF Waiting(but) = {} THEN NoPage
    ELSE CHOOSE p \in Waiting(but) : \A q \in Waiting(but) : ordinal[p] <= ordinal[q]
\* The last ordinal, which stands for the number of pages.
Size == Largest({ordinal[p] : p \in Pages})

Least(S) == IF S = {} THEN NoPage ELSE CHOOSE x \in S : \A y \in S : x <= y

\* Mutant: a sequence that skips one.
NextProgressSkips(next, parsed, incomplete) ==
    [seq |-> step.seen.seq + 2, phase |-> IF next = NoPage THEN "finalize" ELSE "fetch",
     page |-> next, parsed |-> step.seen.parsed + parsed,
     incomplete |-> step.seen.incomplete \/ incomplete]

\* nextCollectionProgress.
NextProgress(next, parsed, incomplete) ==
    [seq |-> step.seen.seq + 1, phase |-> IF next = NoPage THEN "finalize" ELSE "fetch",
     page |-> next, parsed |-> step.seen.parsed + parsed,
     incomplete |-> step.seen.incomplete \/ incomplete]

Place(p, S) == Cardinality({q \in S : q <= p})

\* Mutant: one page beyond the limit.
AcceptedOneMore(links) ==
    LET new == links \ Known
    IN  {p \in new : Size + Place(p, new) <= plugin.limit + 1}

\* The page limit keeps the first links that fit.
Accepted(links) ==
    LET new == links \ Known
    IN  {p \in new : Size + Place(p, new) <= plugin.limit}

\* Mutant: pages left behind by an early end are not held against coverage.
EndIsComplete(end, waiting) == FALSE

\* reachedEnd && nextPageKey
EndCutsShort(end, waiting) == end /\ waiting # NoPage

ParsedPage(p, answer) ==
    LET accepted == Accepted(answer.links)
        waiting == IF NextPending(p) # NoPage THEN NextPending(p) ELSE Least(accepted)
        end == ~answer.items /\ HasStagedItems /\ ~plugin.onward
        incomplete == \/ ~answer.sure
                      \/ answer.links \ Known # accepted
                      \/ EndCutsShort(end, waiting)
    IN  [page |-> p, kind |-> "parsed", items |-> answer.items, accepted |-> accepted,
         size |-> Size, end |-> end, links |-> answer.links,
         progress |-> NextProgress(IF end THEN NoPage ELSE waiting, 1, incomplete)]

\* A page that is gone is passed over, unless it is where the listing ends.
IgnoredPage(p) ==
    [NoBatch EXCEPT !.page = p, !.kind = "ignored",
                    !.progress = NextProgress(NextPending(p), 0, TRUE)]

\* The request, the parse and the reads of the frontier.
Ask(answer) ==
    LET p == step.seen.page IN
    /\ At("ask") /\ step.permitted
    /\ asked' = asked + 1
    /\ IF answer.kind = "html"
       THEN step' = [step EXCEPT !.pc = "commit", !.batch = ParsedPage(p, answer)]
       ELSE IF plugin.onward \/ ~HasStagedItems
       THEN step' = [step EXCEPT !.pc = "commit", !.batch = IgnoredPage(p)]
       ELSE Goes("fail")
    /\ UNCHANGED <<rows, run, fresh, exec, flying, faults, lates, linked, found, published>>

\* An error of the transport or of the parser.
AskFails ==
    /\ At("ask") /\ step.permitted
    /\ Fault
    /\ asked' = asked + 1
    /\ Goes("fail")
    /\ UNCHANGED <<rows, run, fresh, exec, flying, lates, linked, found, published>>

\* COLLECTION_OWNER: a session whose progress is the Durable Object's is not
\* asked for its sequence.
Owner == session.status = "collecting"

\* Mutant: a commit lands whatever has become of its page.
LandsAnyway(b) == Owner

Lands(b) == Owner /\ state[b.page] = "pending"

\* Mutant: links that are not accepted take an ordinal too.
OrdinalOfLink(b, p) == b.size + Place(p, b.links)

OrdinalIn(b, p) == b.size + Place(p, b.accepted)

\* INSERT OR IGNORE: a page that has a row, or whose ordinal is taken, is passed over.
Added(b) ==
    {p \in b.accepted :
        state[p] = "absent" /\ \A q \in Pages : ordinal[q] # OrdinalIn(b, p)}

\* The transaction of recordCrawlFetchPageParsed or ...Ignored.
Apply(b) ==
    LET ok == Lands(b)
        added == IF ok THEN Added(b) ELSE {}
        recorded == [p \in Pages |->
            IF ok /\ p = b.page THEN b.kind ELSE IF p \in added THEN "pending" ELSE state[p]]
    IN  /\ state' = [p \in Pages |->
              IF b.end /\ Owner /\ recorded[p] = "pending" THEN "ignored" ELSE recorded[p]]
        /\ ordinal' = [p \in Pages |-> IF p \in added THEN OrdinalIn(b, p) ELSE ordinal[p]]
        /\ receipt' = IF ok THEN [receipt EXCEPT ![b.page] = b.progress] ELSE receipt
        /\ staged' = IF ok /\ b.items THEN staged \cup {b.page} ELSE staged
        /\ found' = IF ok /\ b.items THEN found \cup {b.page} ELSE found
        /\ linked' = IF ok THEN linked \cup b.links ELSE linked
        /\ UNCHANGED <<plugin, session>>

\* A commit that changes no row of the page is fenced: the handler throws.
Commit ==
    /\ At("commit")
    /\ Apply(step.batch)
    /\ step' = IF Lands(step.batch)
               THEN [step EXCEPT !.pc = "continue", !.value = step.batch.progress,
                                 !.batch = NoBatch]
               ELSE NoStep
    /\ UNCHANGED <<run, fresh, exec, flying, faults, lates, asked, published>>

LateCommit(b) ==
    /\ b \in flying
    /\ Apply(b)
    /\ flying' = flying \ {b}
    /\ UNCHANGED <<run, fresh, exec, step, faults, lates, asked, published>>

-----------------------------------------------------------------------------
(* continued: checkpoint before finalization, then the execution write.    *)

\* checkpointCrawlFetchProgress.
Checkpointed(progress) ==
    IF session.status = "collecting" /\ session.progress.seq < progress.seq
    THEN [session EXCEPT !.progress = progress] ELSE session

Continue ==
    /\ At("continue")
    /\ LET seen == Effective(step.value) IN
       /\ session' = IF seen.phase = "finalize" THEN Checkpointed(seen) ELSE session
       /\ step' = [step EXCEPT !.pc = "put", !.value = Value(@), !.seen = seen]
    /\ UNCHANGED <<plugin, state, ordinal, staged, receipt, run, fresh, exec, flying, faults,
                   lates, history>>

Put ==
    /\ At("put")
    /\ exec' = [alive |-> TRUE, told |-> step.seen, permit |-> FALSE, attempted |-> FALSE]
    /\ step' = NoStep
    /\ UNCHANGED <<rows, run, fresh, flying, faults, lates, history>>

\* failCollection.
FailCheckpoint ==
    /\ At("fail")
    /\ session' = Checkpointed(step.value)
    /\ Goes("failed")
    /\ UNCHANGED <<plugin, state, ordinal, staged, receipt, run, fresh, exec, flying, faults,
                   lates, history>>

\* completeCrawlFetchSession, failCrawlFetchSession: the staged products go.
Ended(status) == session' = [session EXCEPT !.status = status] /\ staged' = {}

FailSession ==
    /\ At("failed")
    /\ Ended("failed")
    /\ Goes("terminal")
    /\ UNCHANGED <<plugin, state, ordinal, receipt, run, fresh, exec, flying, faults, lates,
                   history>>

Terminal ==
    /\ At("terminal")
    /\ exec' = [alive |-> FALSE, told |-> NoProgress, permit |-> FALSE, attempted |-> FALSE]
    /\ step' = NoStep
    /\ UNCHANGED <<rows, run, fresh, flying, faults, lates, history>>

-----------------------------------------------------------------------------
(* Publication: processFinalize.                                           *)

\* Mutant: a claim does not look at the crawl run.
NeverFinished == FALSE

\* reconcileFinishedCollectionRun.
Finished == run \in {"success", "failed"}

\* A finished run settles the session; else the claim, if it is free or stale.
Claim ==
    /\ At("claim")
    /\ IF Finished
       THEN /\ Ended(IF run = "success" THEN "completed" ELSE "failed")
            /\ Goes("terminal")
            /\ UNCHANGED <<fresh, exec>>
       ELSE IF \/ session.status = "collecting"
               \/ session.status = "finalizing" /\ ~fresh
       THEN /\ session' = [session EXCEPT !.status = "finalizing"]
            /\ fresh' = TRUE
            /\ Goes("reserve")
            /\ UNCHANGED <<staged, exec>>
       ELSE /\ step' = NoStep /\ exec' = Retried                     \* again in a minute
            /\ UNCHANGED <<session, staged, fresh>>
    /\ UNCHANGED <<plugin, state, ordinal, receipt, run, flying, faults, lates, history>>

Reserve ==
    /\ At("reserve")
    /\ run' = IF run = "none" THEN "running" ELSE run
    /\ Goes("publish")
    /\ UNCHANGED <<rows, fresh, exec, flying, faults, lates, history>>

\* crawlShop over the staged products.
Publish ==
    /\ At("publish")
    /\ run' = "success" /\ published' = published + 1
    /\ Goes("complete")
    /\ UNCHANGED <<rows, fresh, exec, flying, faults, lates, linked, found, asked>>

\* Its last write times out: the outcome stands, and the run stays running.
PublishUnrecorded ==
    /\ At("publish")
    /\ Fault
    /\ published' = published + 1
    /\ Goes("complete")
    /\ UNCHANGED <<rows, run, fresh, exec, flying, lates, linked, found, asked>>

PublishFails ==
    /\ At("publish")
    /\ Fault
    /\ run' = "failed"
    /\ Goes("lose")
    /\ UNCHANGED <<rows, fresh, exec, flying, lates, history>>

Record ==
    /\ \/ At("complete") /\ Ended("completed")
       \/ At("lose") /\ Ended("failed")
    /\ Goes("terminal")
    /\ UNCHANGED <<plugin, state, ordinal, receipt, run, fresh, exec, flying, faults, lates,
                   history>>

ClaimGoesStale ==
    /\ fresh /\ fresh' = FALSE
    /\ UNCHANGED <<rows, run, exec, step, flying, faults, lates, history>>

\* A handler dies; a page commit it has sent is lost, or lands later.
Crash ==
    /\ ~At("idle")
    /\ Fault
    /\ \/ UNCHANGED <<flying, lates>>
       \/ At("commit") /\ lates < MaxLate /\ lates' = lates + 1 /\ flying' = flying \cup {step.batch}
    /\ step' = NoStep
    /\ UNCHANGED <<rows, run, fresh, exec, history>>

-----------------------------------------------------------------------------

Stepping ==
    \/ Prepare \/ StepBegins \/ ReadSession \/ CreateSession \/ CreateFrontier
    \/ ReadPage \/ (\E answer \in Answers : Ask(answer)) \/ Commit
    \/ Continue \/ Put \/ FailCheckpoint \/ FailSession \/ Terminal
    \/ Claim \/ Reserve \/ Publish \/ Record

Failing ==
    \/ PrepareFails \/ PermitExpires \/ AskFails \/ PublishUnrecorded \/ PublishFails \/ Crash

Next == Stepping \/ Failing \/ ClaimGoesStale \/ (\E b \in flying : LateCommit(b))

Spec == Init /\ [][Next]_vars

-----------------------------------------------------------------------------
(* Safety.                                                                 *)

Receipted == {p \in Pages : receipt[p] # NoProgress}

\* "... without refetching or incrementing counters twice": the counters of
\* the execution, of the checkpoint and of each receipt count the pages parsed
\* up to their sequence, however often a page's step was replayed.
CountersAreExact ==
    \A progress \in {exec.told, session.progress} \cup {receipt[p] : p \in Receipted} :
        progress.parsed = Cardinality(
            {p \in Receipted : state[p] = "parsed" /\ receipt[p].seq <= progress.seq})

\* The receipts form one chain, and at most its last link is beyond what the
\* execution was told, at the page it points to: the recovery that looks only
\* at that page finds it, and never meets a receipt that skips a transition.
ReceiptsFormAChain ==
    /\ {receipt[p].seq : p \in Receipted} = 1..Cardinality(Receipted)
    /\ \A p \in Receipted : receipt[p].seq > exec.told.seq /\ exec.told # NoProgress =>
           receipt[p].seq = exec.told.seq + 1 /\ p = exec.told.page

\* "Ordinals are allocated densely", and "the next ordinal is also the frontier's
\* size", which the page limit counts on: no replayed or late commit leaves a
\* gap, or gives two pages one ordinal.
OrdinalsAreDense == {ordinal[p] : p \in Known} = 1..Cardinality(Known)

\* A direct permit is spent on one request: a step that dies anywhere after its
\* permit was spent asks again only after another PREPARE and its delay, and no
\* step comes to a request without one.
OneRequestPerPermit == ~plugin.relay => asked <= 1 /\ (At("ask") => step.permitted)

\* A collection published as complete (which ends the listings it did not
\* see) has parsed every page any of its pages links to, and none of the
\* products it staged are gone.
CompleteIsComplete ==
    At("publish") =>
        /\ staged = found
        /\ ~session.progress.incomplete => \A p \in linked : state[p] = "parsed"

\* A published collection is not published again: a handler that died between
\* the crawl run's outcome and the session's finds the outcome.
PublishedOnce == [][run = "success" => published' = published]_vars

-----------------------------------------------------------------------------
(* Liveness.  An alarm that failed is retried, and the watchdog delivers   *)
(* the command again; the clock passes the claim.                          *)

FairSpec == Spec /\ WF_vars(Stepping) /\ WF_vars(ClaimGoesStale)

\* A fenced commit that ends the listing has ignored the page the collection
\* goes on with: its statement for the waiting pages is not fenced with its own.
Stranded ==
    LET p == exec.told.page IN
    exec.told.phase = "fetch" /\ state[p] = "ignored" /\ receipt[p] = NoProgress

\* The run ends, completed or failed, and its execution is taken out of
\* storage, whatever was lost or came late on the way; or its cursor is
\* stranded.
CollectionEnds == exec.alive ~> ~exec.alive \/ Stranded
=============================================================================
