------------------------- MODULE CrawlContinuation -------------------------
(***************************************************************************)
(* What follows a crawl's listing write, for one shop: the derived stages  *)
(* of its crawl runs, and the projection obligation of every listing.      *)
(*                                                                         *)
(* A change of a listing leaves a token in listing_projection_pending (a   *)
(* trigger, in the same statement).  A crawl run records the listings it   *)
(* must project (its work items) and four stages with a cursor each; the   *)
(* crawl drains them inline and the cron sweep drains what is left.  Apart *)
(* from runs, refreshes project one listing: the five-minute repair, an    *)
(* administrator's edit, remediation.  Nothing excludes two of them.       *)
(*                                                                         *)
(* Each action is one D1 call (a batch is one).  A projection is           *)
(* represented by the version of the listing it was computed from.         *)
(***************************************************************************)
EXTENDS Integers, FiniteSets

CONSTANTS
    NumListings,    \* listings of the shop, in the order of their source ids
    Chunk,          \* listings of one chunk
    Refreshers,     \* concurrent refreshes of a listing
    Collections,    \* what the pages of each run may hold: sets of listings
    MaxRuns,        \* bound: crawl_runs rows of the shop
    MaxAttempts,    \* bound: times a crawl starts, first or reopened
    MaxVersion,     \* bound: versions of a listing
    MaxFaults       \* bound: crashes, failed or abandoned steps, budget stops

ASSUME SizeAssumption == NumListings \in Nat /\ Chunk \in Nat \ {0}
ASSUME BoundAssumption ==
    MaxRuns \in Nat /\ MaxAttempts \in Nat /\ MaxVersion \in Nat \ {0} /\ MaxFaults \in Nat

Listings == 1..NumListings
Runs == 1..MaxRuns

ASSUME CollectionAssumption == Collections \in [Runs -> SUBSET SUBSET Listings]

Versions == 1..MaxVersion

\* RESUMABLE_CRAWL_STAGES by ordinal: search_projection, identity_resolution,
\* search_entity; then membership_cleanup, which walks the shop's obligations.
Scoped == 1..3
Entity == 3
Cleanup == 4
Stages == 1..4

VARIABLES
    version,    \* products: the version of each listing
    pending,    \* listing_projection_pending: the token of each listing, 0 = no row
    image,      \* what stages 1..3 last wrote for a listing
    newest,     \* the shop's latest crawl_runs row
    open,       \* ... is 'running', its session 'finalizing'
    generation, \* crawl_runs.generation, 0 = ''
    work,       \* crawl_run_work_items: projection_token, NoItem = no row
    stage,      \* crawl_run_stages.status
    cursor,     \* crawl_run_stages.after_source_id
    watermark,  \* shop_sync_state.last_projection_at, a generation
    collected,  \* the listings in the newest run's staged pages
    crawl,      \* the invocation that owns the newest run
    drain,      \* drainCrawlRunStage, in the crawl and in the sweep
    refresh,    \* refreshListingProjections
    attempts, faults,
    \* History.
    shown,      \* the newest version each stage has been completed for
    since,      \* the version a run's item was added at, 0 = never
    late        \* items a reopened run added when it already had its stages

listings == <<version, pending, image, shown>>
runs == <<newest, open, collected, generation, work, stage, cursor, watermark, since, late>>
vars == <<version, pending, image, newest, open, generation, work, stage, cursor,
          watermark, collected, crawl, drain, refresh, attempts, faults, shown, since, late>>

NoItem == -1
Items(r) == {l \in Listings : work[r][l] # NoItem}
Owed(r) == {s \in Stages : stage[r][s] = "pending"}
OwesScoped(r) == Owed(r) \cap Scoped # {}

AllZero == [l \in Listings |-> 0]
Drainers == {"crawl", "sweep"}
NoDrain == [pc |-> "idle", run |-> 0, gen |-> 0, stage |-> 0, after |-> 0,
            chunk |-> {}, seen |-> AllZero]
NoCrawl == [pc |-> "idle", listings |-> {}]
NoRefresh == [pc |-> "idle", listing |-> 0, token |-> 0, stage |-> 0, seen |-> 0]

Larger(a, b) == IF a > b THEN a ELSE b
Largest(S) == CHOOSE x \in S : \A y \in S : y <= x
\* Mutants: a stage taken out of order, a chunk that is not the first one.
LastStage(S) == CHOOSE x \in S : \A y \in S : y <= x
LastChunk(S) == {x \in S : Cardinality({y \in S : y >= x}) <= Chunk}

\* SELECT ... ORDER BY ... LIMIT Chunk
FirstStage(S) == CHOOSE x \in S : \A y \in S : x <= y
FirstChunk(S) == {x \in S : Cardinality({y \in S : y <= x}) <= Chunk}

CrawlStates ==
    [pc: {"idle", "write", "generation", "items", "inherit", "stages", "drain", "clear",
          "project", "finish"},
     listings: SUBSET Listings]
DrainStates ==
    [pc: {"idle", "newer", "supersede", "drop", "next", "claim", "read", "write", "sync",
          "acknowledge", "advance", "complete", "clear", "project"},
     run: 0..MaxRuns, gen: 0..MaxAttempts, stage: 0..4, after: 0..NumListings,
     chunk: SUBSET Listings, seen: [Listings -> 0..MaxVersion]]
RefreshStates ==
    [pc: {"idle", "read", "write", "sync", "acknowledge"}, listing: 0..NumListings,
     token: 0..MaxVersion, stage: 0..2, seen: 0..MaxVersion]

ListingsOK ==
    /\ version \in [Listings -> Versions]
    /\ pending \in [Listings -> 0..MaxVersion]
    /\ image \in [Scoped -> [Listings -> 0..MaxVersion]]
    /\ shown \in [Scoped -> [Listings -> 0..MaxVersion]]
RunsOK ==
    /\ newest \in 0..MaxRuns /\ open \in BOOLEAN /\ collected \subseteq Listings
    /\ generation \in [Runs -> 0..MaxAttempts]
    /\ work \in [Runs -> [Listings -> NoItem..MaxVersion]]
    /\ stage \in [Runs -> [Stages -> {"none", "pending", "done", "superseded"}]]
    /\ cursor \in [Runs -> [Stages -> 0..NumListings]]
    /\ watermark \in 0..MaxAttempts
    /\ since \in [Runs -> [Listings -> 0..MaxVersion]]
    /\ late \subseteq Runs \X Listings
InvocationsOK ==
    /\ crawl \in CrawlStates
    /\ drain \in [Drainers -> DrainStates]
    /\ refresh \in [Refreshers -> RefreshStates]
    /\ attempts \in 0..MaxAttempts /\ faults \in 0..MaxFaults

TypeOK == ListingsOK /\ RunsOK /\ InvocationsOK

\* The shop's listings exist, and every one is projected.
Init ==
    /\ version = [l \in Listings |-> 1]
    /\ pending = [l \in Listings |-> 0]
    /\ image = [s \in Scoped |-> [l \in Listings |-> 1]]
    /\ newest = 0 /\ open = FALSE /\ collected = {}
    /\ generation = [r \in Runs |-> 0]
    /\ work = [r \in Runs |-> [l \in Listings |-> NoItem]]
    /\ stage = [r \in Runs |-> [s \in Stages |-> "none"]]
    /\ cursor = [r \in Runs |-> [s \in Stages |-> 0]]
    /\ watermark = 0
    /\ crawl = NoCrawl
    /\ drain = [d \in Drainers |-> NoDrain]
    /\ refresh = [f \in Refreshers |-> NoRefresh]
    /\ attempts = 0 /\ faults = 0
    /\ shown = image
    /\ since = [r \in Runs |-> [l \in Listings |-> 0]]
    /\ late = {}

Fault == faults < MaxFaults /\ faults' = faults + 1

-----------------------------------------------------------------------------
(* A listing changes, and with it its obligation.                          *)

\* Mutant: a token that is not the change's own.
TokenAhead(l) == version[l] + 2

\* ON CONFLICT(listing_product_id) DO UPDATE SET token = excluded.token
NewToken(l) == version[l] + 1

Changed(l) ==
    /\ version[l] < MaxVersion
    /\ version' = [version EXCEPT ![l] = @ + 1]
    /\ pending' = [pending EXCEPT ![l] = NewToken(l)]

\* An administrator, an inventory recheck, a remediation.
Edit(l) ==
    /\ Changed(l)
    /\ UNCHANGED <<image, shown, runs, crawl, drain, refresh, attempts, faults>>

-----------------------------------------------------------------------------
(* The crawl that publishes a collection: crawlShop from its listing write *)
(* to its outcome.                                                         *)

At(pc) == crawl.pc = pc
Goes(pc) == crawl' = [crawl EXCEPT !.pc = pc]

\* A finalizer whose run is still 'running' reopens it; else a run begins.
CrawlStarts ==
    /\ At("idle") /\ drain["crawl"] = NoDrain
    /\ attempts < MaxAttempts /\ attempts' = attempts + 1
    /\ IF open THEN UNCHANGED <<newest, collected>>
       ELSE /\ newest < MaxRuns /\ newest' = newest + 1
            /\ collected' \in Collections[newest']
    /\ open' = TRUE
    /\ crawl' = [NoCrawl EXCEPT !.pc = "write"]
    /\ UNCHANGED <<listings, generation, work, stage, cursor, watermark, since, late,
                   drain, refresh, faults>>

CrawlWrites(l) ==
    /\ At("write") /\ l \notin crawl.listings
    /\ Changed(l)
    /\ crawl' = [crawl EXCEPT !.listings = @ \cup {l}]
    /\ UNCHANGED <<image, shown, runs, drain, refresh, attempts, faults>>

\* derivedSourceIds: what changed, and the observed listings with an obligation.
CrawlWritten ==
    /\ At("write")
    /\ crawl' = [crawl EXCEPT !.pc = "generation",
                               !.listings = @ \cup {l \in collected : pending[l] # 0}]
    /\ UNCHANGED <<listings, runs, drain, refresh, attempts, faults>>

RecordGeneration ==
    /\ At("generation")
    /\ generation' = [generation EXCEPT ![newest] = attempts]
    /\ Goes("items")
    /\ UNCHANGED <<listings, newest, open, collected, work, stage, cursor, watermark, since, late,
                   drain, refresh, attempts, faults>>

\* INSERT OR IGNORE of work items, with the history of it.
AddItems(added, token) ==
    LET new == added \ Items(newest) IN
    /\ work' = [work EXCEPT ![newest] =
                  [l \in Listings |-> IF l \in new THEN token[l] ELSE @[l]]]
    /\ since' = [since EXCEPT ![newest] =
                  [l \in Listings |-> IF l \in new THEN version[l] ELSE @[l]]]
    /\ late' = IF stage[newest][1] = "none" THEN late ELSE late \cup ({newest} \X new)

RecordItems ==
    /\ At("items")
    /\ AddItems(crawl.listings, pending)
    /\ Goes("inherit")
    /\ UNCHANGED <<listings, newest, open, collected, generation, stage, cursor, watermark, drain,
                   refresh, attempts, faults>>

\* inheritOutstandingWorkItems: their token is '' and acknowledges nothing.
RecordInherited ==
    /\ At("inherit")
    /\ AddItems(UNION {Items(r) : r \in {q \in Runs \ {newest} : OwesScoped(q)}},
                AllZero)
    /\ Goes("stages")
    /\ UNCHANGED <<listings, newest, open, collected, generation, stage, cursor, watermark, drain,
                   refresh, attempts, faults>>

RecordStages ==
    /\ At("stages")
    /\ stage' = [stage EXCEPT ![newest] =
                   [s \in Stages |-> IF @[s] = "none" THEN "pending" ELSE @[s]]]
    /\ Goes("drain")
    /\ drain' = [drain EXCEPT !["crawl"] =
                   [NoDrain EXCEPT !.pc = "next", !.run = newest, !.gen = attempts]]
    /\ UNCHANGED <<listings, newest, open, collected, generation, work, cursor, watermark, since,
                   late, refresh, attempts, faults>>

Freed(r) == [work EXCEPT ![r] = [l \in Listings |-> NoItem]]

\* Work items are freed only when no stage is pending.
CrawlClears ==
    /\ At("clear")
    /\ work' = Freed(newest)
    /\ Goes("project")
    /\ UNCHANGED <<listings, newest, open, collected, generation, stage, cursor, watermark, since,
                   late, drain, refresh, attempts, faults>>

CrawlProjected ==
    /\ At("project")
    /\ watermark' = Larger(watermark, attempts)
    /\ Goes("finish")
    /\ UNCHANGED <<listings, newest, open, collected, generation, work, stage, cursor, since, late,
                   drain, refresh, attempts, faults>>

\* finishCrawlRunSuccess.
CrawlFinishes ==
    /\ At("finish")
    /\ open' = FALSE /\ crawl' = NoCrawl
    /\ UNCHANGED <<listings, newest, collected, generation, work, stage, cursor, watermark, since,
                   late, drain, refresh, attempts, faults>>

\* recordCrawlSuccessPhase stops waiting for a write: the outcome stands.
CrawlMovesOn ==
    /\ At("clear") \/ At("project")
    /\ Fault
    /\ Goes("finish")
    /\ UNCHANGED <<listings, runs, drain, refresh, attempts>>

\* An error or the deadline: the run fails.  A stage that was being drained
\* is not cancelled with it.
CrawlFails ==
    /\ ~At("idle")
    /\ Fault
    /\ open' = FALSE /\ crawl' = NoCrawl
    /\ UNCHANGED <<listings, newest, collected, generation, work, stage, cursor, watermark, since,
                   late, drain, refresh, attempts>>

\* A hard kill leaves the run 'running'.
CrawlCrashes ==
    /\ ~At("idle") \/ drain["crawl"] # NoDrain
    /\ Fault
    /\ crawl' = NoCrawl
    /\ drain' = [drain EXCEPT !["crawl"] = NoDrain]
    /\ UNCHANGED <<listings, runs, refresh, attempts>>

\* recoverStalledCrawlRuns: no invocation is left and the run is old.
RunRecovered ==
    /\ At("idle") /\ open
    /\ open' = FALSE
    /\ UNCHANGED <<listings, newest, collected, generation, work, stage, cursor, watermark, since,
                   late, crawl, drain, refresh, attempts, faults>>

-----------------------------------------------------------------------------
(* Draining stages in chunks: drainCrawlRunStage and the loops around it.  *)

Drain(d, pc) == drain' = [drain EXCEPT ![d].pc = pc]

\* Stages are driven strictly by ordinal.
DrainNext(d) ==
    LET r == drain[d].run IN
    /\ drain[d].pc = "next"
    /\ IF d = "crawl" /\ ~At("drain")
       THEN drain' = [drain EXCEPT ![d] = NoDrain] /\ UNCHANGED crawl
       ELSE IF Owed(r) # {}
       THEN /\ LET s == FirstStage(Owed(r)) IN
               drain' = [drain EXCEPT ![d] =
                   [@ EXCEPT !.pc = "claim", !.stage = s, !.after = cursor[r][s]]]
            /\ UNCHANGED crawl
       ELSE IF d = "crawl"
       THEN drain' = [drain EXCEPT ![d] = NoDrain] /\ Goes("clear")
       ELSE Drain(d, "clear") /\ UNCHANGED crawl
    /\ UNCHANGED <<listings, runs, refresh, attempts, faults>>

DrainClaim(d) ==
    LET r == drain[d].run
        s == drain[d].stage
        source == IF s = Cleanup THEN {l \in Listings : pending[l] # 0} ELSE Items(r)
        chunk == FirstChunk({l \in source : l > drain[d].after})
    IN
    /\ drain[d].pc = "claim"
    /\ drain' = [drain EXCEPT ![d] =
           [@ EXCEPT !.chunk = chunk,
                     !.pc = IF chunk = {} THEN "complete"
                            ELSE IF s < Entity THEN "read" ELSE "sync"]]
    /\ UNCHANGED <<listings, runs, crawl, refresh, attempts, faults>>

\* Stages 1 and 2 read the listings and what is stored, and write the rows
\* that differ in a later call.
Differing(s, ls) == [l \in Listings |->
    IF l \in ls /\ image[s][l] # version[l] THEN version[l] ELSE 0]

Written(s, seen) ==
    image' = [image EXCEPT ![s] =
        [l \in Listings |-> IF seen[l] # 0 THEN seen[l] ELSE @[l]]]

\* The newest version the stage has been completed for.
Shown(s, ls, upTo) ==
    shown' = [shown EXCEPT ![s] =
        [l \in Listings |-> IF l \in ls THEN Larger(@[l], upTo[l]) ELSE @[l]]]

DrainRead(d) ==
    /\ drain[d].pc = "read"
    /\ drain' = [drain EXCEPT ![d] =
           [@ EXCEPT !.pc = "write", !.seen = Differing(drain[d].stage, drain[d].chunk)]]
    /\ Shown(drain[d].stage, {l \in drain[d].chunk : image[drain[d].stage][l] = version[l]},
             version)
    /\ UNCHANGED <<version, pending, image, runs, crawl, refresh, attempts, faults>>

DrainWrite(d) ==
    /\ drain[d].pc = "write"
    /\ Written(drain[d].stage, drain[d].seen)
    /\ Shown(drain[d].stage, drain[d].chunk, drain[d].seen)
    /\ drain' = [drain EXCEPT ![d].pc = "advance", ![d].seen = AllZero]
    /\ UNCHANGED <<version, pending, runs, crawl, refresh, attempts, faults>>

\* syncProductSearchEntities groups by the stored identity, in one batch.
\* The cleanup keeps the window's listings that are gone but hold an offer.
Synced(ls) ==
    /\ image' = [image EXCEPT ![Entity] =
           [l \in Listings |-> IF l \in ls THEN image[2][l] ELSE @[l]]]
    /\ Shown(Entity, ls, shown[2])

DrainSync(d) ==
    /\ drain[d].pc = "sync"
    /\ IF drain[d].stage = Entity
       THEN Synced(drain[d].chunk) /\ Drain(d, "acknowledge")
       ELSE (\E gone \in SUBSET drain[d].chunk : Synced(gone)) /\ Drain(d, "advance")
    /\ UNCHANGED <<version, pending, runs, crawl, refresh, attempts, faults>>

\* Mutant: the row is deleted whatever its token.
AcknowledgedAny(ls, token) ==
    pending' = [l \in Listings |-> IF l \in ls /\ token[l] # 0 THEN 0 ELSE pending[l]]

\* DELETE ... WHERE listing_product_id = ? AND token = ?
Acknowledged(ls, token) ==
    pending' = [l \in Listings |->
        IF l \in ls /\ pending[l] = token[l] THEN 0 ELSE pending[l]]

DrainAcknowledge(d) ==
    /\ drain[d].pc = "acknowledge"
    /\ Acknowledged(drain[d].chunk \cap Items(drain[d].run), work[drain[d].run])
    /\ Drain(d, "advance")
    /\ UNCHANGED <<version, image, shown, runs, crawl, refresh, attempts, faults>>

\* The cursor moves while the stage is pending; a short chunk is the last.
DrainAdvance(d) ==
    LET r == drain[d].run
        s == drain[d].stage
        last == Largest(drain[d].chunk)
    IN
    /\ drain[d].pc = "advance"
    /\ cursor' = IF stage[r][s] = "pending" THEN [cursor EXCEPT ![r][s] = last] ELSE cursor
    /\ drain' = [drain EXCEPT ![d] =
           [@ EXCEPT !.after = last, !.chunk = {},
                     !.pc = IF Cardinality(drain[d].chunk) < Chunk THEN "complete" ELSE "claim"]]
    /\ UNCHANGED <<listings, newest, open, collected, generation, work, stage, watermark, since,
                   late, crawl, refresh, attempts, faults>>

DrainComplete(d) ==
    /\ drain[d].pc = "complete"
    /\ stage' = [stage EXCEPT ![drain[d].run][drain[d].stage] = "done"]
    /\ drain' = [drain EXCEPT ![d] = [@ EXCEPT !.pc = "next", !.stage = 0, !.after = 0]]
    /\ UNCHANGED <<listings, newest, open, collected, generation, work, cursor, watermark, since,
                   late, crawl, refresh, attempts, faults>>

DrainSteps(d) ==
    \/ DrainNext(d) \/ DrainClaim(d) \/ DrainRead(d) \/ DrainWrite(d) \/ DrainSync(d)
    \/ DrainAcknowledge(d) \/ DrainAdvance(d) \/ DrainComplete(d)

\* The crawl stops draining: its outcome is then written from step pc on.
DefersTo(pc) ==
    /\ At("drain")
    /\ Fault
    /\ drain' = [drain EXCEPT !["crawl"] = NoDrain]
    /\ Goes(pc)
    /\ UNCHANGED <<listings, runs, refresh, attempts>>

\* Mutants: with a stage still pending, the watermark is advanced, or the
\* work items are freed.
DeferredButProjected == DefersTo("project")
DeferredButFreed == DefersTo("clear")

\* A failed chunk or a spent budget: the crawl reports success and leaves the
\* rest to the sweep.
CrawlDefers == DefersTo("finish")

-----------------------------------------------------------------------------
(* The cron sweep: one run of resumeInterruptedCrawlRuns.                  *)

\* Mutant: a run left 'running' is not resumed.
OnlyClosedBegins(r) ==
    /\ drain["sweep"] = NoDrain
    /\ Owed(r) # {} /\ generation[r] # 0 /\ ~(open /\ r = newest)
    /\ drain' = [drain EXCEPT !["sweep"] =
           [NoDrain EXCEPT !.pc = "newer", !.run = r, !.gen = generation[r]]]
    /\ UNCHANGED <<listings, runs, crawl, refresh, attempts, faults>>

SweepBegins(r) ==
    /\ drain["sweep"] = NoDrain
    /\ Owed(r) # {} /\ generation[r] # 0
    /\ drain' = [drain EXCEPT !["sweep"] =
           [NoDrain EXCEPT !.pc = "newer", !.run = r, !.gen = generation[r]]]
    /\ UNCHANGED <<listings, runs, crawl, refresh, attempts, faults>>

\* hasNewerCrawlRun asks only for a later crawl_runs row of the shop.
Newer(r) == newest > r

SweepChecksNewer ==
    /\ drain["sweep"].pc = "newer"
    /\ Drain("sweep", IF Newer(drain["sweep"].run) THEN "supersede" ELSE "next")
    /\ UNCHANGED <<listings, runs, crawl, refresh, attempts, faults>>

SweepSupersedes ==
    /\ drain["sweep"].pc = "supersede"
    /\ stage' = [stage EXCEPT ![drain["sweep"].run] =
           [s \in Stages |-> IF @[s] = "pending" THEN "superseded" ELSE @[s]]]
    /\ Drain("sweep", "drop")
    /\ UNCHANGED <<listings, newest, open, collected, generation, work, cursor, watermark, since,
                   late, crawl, refresh, attempts, faults>>

SweepDrops ==
    /\ drain["sweep"].pc = "drop"
    /\ work' = Freed(drain["sweep"].run)
    /\ drain' = [drain EXCEPT !["sweep"] = NoDrain]
    /\ UNCHANGED <<listings, newest, open, collected, generation, stage, cursor, watermark, since,
                   late, crawl, refresh, attempts, faults>>

SweepClears ==
    /\ drain["sweep"].pc = "clear"
    /\ work' = Freed(drain["sweep"].run)
    /\ Drain("sweep", "project")
    /\ UNCHANGED <<listings, newest, open, collected, generation, stage, cursor, watermark, since,
                   late, crawl, refresh, attempts, faults>>

SweepProjected ==
    /\ drain["sweep"].pc = "project"
    /\ watermark' = Larger(watermark, drain["sweep"].gen)
    /\ drain' = [drain EXCEPT !["sweep"] = NoDrain]
    /\ UNCHANGED <<listings, newest, open, collected, generation, work, stage, cursor, since, late,
                   crawl, refresh, attempts, faults>>

SweepSteps ==
    \/ SweepChecksNewer \/ SweepSupersedes \/ SweepDrops \/ SweepClears \/ SweepProjected

\* A crash, a failed chunk or a spent budget.
SweepStops ==
    /\ drain["sweep"] # NoDrain
    /\ Fault
    /\ drain' = [drain EXCEPT !["sweep"] = NoDrain]
    /\ UNCHANGED <<listings, runs, crawl, refresh, attempts>>

-----------------------------------------------------------------------------
(* refreshListingProjections, of one listing.                              *)

\* Mutant: the token is not captured with the listing.
BeginsWithoutToken(f, l) ==
    /\ refresh[f] = NoRefresh
    /\ pending[l] # 0
    /\ refresh' = [refresh EXCEPT ![f] =
           [pc |-> "read", listing |-> l, token |-> 0, stage |-> 1, seen |-> 0]]
    /\ UNCHANGED <<listings, runs, crawl, drain, attempts, faults>>

RefreshBegins(f, l) ==
    /\ refresh[f] = NoRefresh
    /\ pending[l] # 0
    /\ refresh' = [refresh EXCEPT ![f] =
           [pc |-> "read", listing |-> l, token |-> pending[l], stage |-> 1, seen |-> 0]]
    /\ UNCHANGED <<listings, runs, crawl, drain, attempts, faults>>

RefreshReads(f) ==
    LET l == refresh[f].listing
        s == refresh[f].stage
    IN
    /\ refresh[f].pc = "read"
    /\ refresh' = [refresh EXCEPT ![f].pc = "write", ![f].seen = Differing(s, {l})[l]]
    /\ Shown(s, {x \in {l} : image[s][x] = version[x]}, version)
    /\ UNCHANGED <<version, pending, image, runs, crawl, drain, attempts, faults>>

RefreshWrites(f) ==
    LET l == refresh[f].listing
        s == refresh[f].stage
        seen == [AllZero EXCEPT ![l] = refresh[f].seen]
    IN
    /\ refresh[f].pc = "write"
    /\ Written(s, seen)
    /\ Shown(s, {l}, seen)
    /\ refresh' = [refresh EXCEPT ![f] =
           IF s = 1 THEN [@ EXCEPT !.pc = "read", !.stage = 2, !.seen = 0]
           ELSE [@ EXCEPT !.pc = "sync", !.seen = 0]]
    /\ UNCHANGED <<version, pending, runs, crawl, drain, attempts, faults>>

RefreshSyncs(f) ==
    /\ refresh[f].pc = "sync"
    /\ Synced({refresh[f].listing})
    /\ refresh' = [refresh EXCEPT ![f].pc = "acknowledge"]
    /\ UNCHANGED <<version, pending, runs, crawl, drain, attempts, faults>>

RefreshAcknowledges(f) ==
    /\ refresh[f].pc = "acknowledge"
    /\ Acknowledged({refresh[f].listing}, [l \in Listings |-> refresh[f].token])
    /\ refresh' = [refresh EXCEPT ![f] = NoRefresh]
    /\ UNCHANGED <<version, image, shown, runs, crawl, drain, attempts, faults>>

RefreshSteps(f) ==
    RefreshReads(f) \/ RefreshWrites(f) \/ RefreshSyncs(f) \/ RefreshAcknowledges(f)

RefreshFails(f) ==
    /\ refresh[f] # NoRefresh
    /\ Fault
    /\ refresh' = [refresh EXCEPT ![f] = NoRefresh]
    /\ UNCHANGED <<listings, runs, crawl, drain, attempts>>

-----------------------------------------------------------------------------

Crawling ==
    \/ CrawlStarts \/ (\E l \in Listings : CrawlWrites(l)) \/ CrawlWritten
    \/ RecordGeneration \/ RecordItems \/ RecordInherited \/ RecordStages
    \/ CrawlClears \/ CrawlProjected \/ CrawlFinishes
    \/ CrawlMovesOn \/ CrawlFails \/ CrawlCrashes \/ CrawlDefers \/ RunRecovered

Sweeping == (\E r \in Runs : SweepBegins(r)) \/ SweepSteps \/ SweepStops

Refreshing(f) ==
    (\E l \in Listings : RefreshBegins(f, l)) \/ RefreshSteps(f) \/ RefreshFails(f)

Next ==
    \/ \E l \in Listings : Edit(l)
    \/ Crawling
    \/ \E d \in Drainers : DrainSteps(d)
    \/ Sweeping
    \/ \E f \in Refreshers : Refreshing(f)

Spec == Init /\ [][Next]_vars

-----------------------------------------------------------------------------
(* Safety.  An item a reopened run adds after its stages exist is "late":  *)
(* stages already past it will not read it, so nothing below claims that   *)
(* the run has worked on it.                                               *)

Late(l) == \E r \in Runs : <<r, l>> \in late

\* A stage that is done, or whose cursor has passed a listing, has been
\* completed for the version of the listing the run recorded: although chunks
\* are replayed after a crash, two invocations drain the same run, and the
\* listing changes meanwhile.
WorkIsShown ==
    \A r \in Runs : \A l \in Items(r) : \A s \in Scoped :
        /\ <<r, l>> \notin late
        /\ stage[r][s] = "done" \/ cursor[r][s] >= l
        => shown[s][l] >= since[r][l]

\* A listing's latest version has been through every stage, or is owed: no
\* acknowledgement, by a run that read an older version or by a refresh that
\* did, clears the obligation a newer change left.
NothingForgotten ==
    \A l \in Listings :
        \/ pending[l] # 0
        \/ \A s \in Scoped : shown[s][l] = version[l]
        \/ Late(l)

\* The projection watermark reaches a run only when every listing the run
\* recorded has been through every stage, whoever finished it.
WatermarkIsEarned ==
    \A r \in Runs : \A l \in Listings : \A s \in Scoped :
        /\ generation[r] # 0 /\ watermark = generation[r]
        /\ since[r][l] # 0 /\ <<r, l>> \notin late
        => shown[s][l] >= since[r][l]

\* A run's items are not freed while a stage has still to read them: it would
\* find nothing and settle as if it had run.
WorkOutlivesStages ==
    \A r \in Runs : \A l \in Listings :
        OwesScoped(r) /\ since[r][l] # 0 => l \in Items(r)

\* A stage begins only when the stages it reads from are finished, in every
\* mixture of inline and swept chunks.
StagesInOrder ==
    \A r \in Runs : \A s, t \in Stages :
        s < t /\ (cursor[r][t] # 0 \/ stage[r][t] = "done") => stage[r][s] = "done"

-----------------------------------------------------------------------------
(* Liveness.  A started invocation goes on unless it is killed (a fault);  *)
(* the sweep and the five-minute repair are cron tasks that come again.    *)

FairSpec ==
    /\ Spec
    /\ \A d \in Drainers : WF_vars(DrainSteps(d))
    /\ \A r \in Runs : WF_vars(SweepBegins(r))
    /\ WF_vars(SweepSteps)
    /\ \A f \in Refreshers : WF_vars(RefreshSteps(f))
    /\ \A l \in Listings : WF_vars(\E f \in Refreshers : RefreshBegins(f, l))

\* Every run that recorded stages is settled, finished or retired, although
\* the crawl that owned it may be dead.
RunsSettle == \A r \in Runs : (Owed(r) # {} /\ generation[r] # 0) ~> Owed(r) = {}

\* Every obligation is cleared.
ObligationsAreServed == \A l \in Listings : pending[l] # 0 ~> pending[l] = 0
=============================================================================
