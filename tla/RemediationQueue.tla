---------------------------- MODULE RemediationQueue ----------------------------
(***************************************************************************)
(* The data-quality remediation queue (src/db/data-quality-remediation-    *)
(* queue-repository.ts, -service.ts, migration 0029 and the drain's        *)
(* scripts/lib/remediation-drain-recovery.ts).                             *)
(*                                                                         *)
(* A listing derived by an older resolver, or whose read models were not   *)
(* refreshed after a change (remediation_projection_required, under a      *)
(* token), is owed a replay.  A sweep seeds a job for it, under a key that *)
(* names the work, the listing and its versions; claims jobs for a lease   *)
(* and counts the attempt; derives the listing, refreshes its read models, *)
(* clears the marker it saw and resolves the job, or puts it back until    *)
(* its attempts are spent.  A resolved job gives up its key, a failed one  *)
(* keeps it.  The cron's sweeps and the administrator's drain may be at    *)
(* one job together, once a lease has lapsed.                              *)
(*                                                                         *)
(* A refresh is one step here, and every listing is active.  Seed windows, *)
(* their cursors and migration-targeted requests are left out: a seeding   *)
(* sees every listing.                                                     *)
(***************************************************************************)
EXTENDS Naturals, FiniteSets, Sequences, SequencesExt, Subsequences

CONSTANTS
    Listings,
    Workers,        \* sweeps that may be at work together
    MaxAttempts,    \* max_attempts of a seeded job
    MaxChanges      \* changes of listings

ASSUME RemediationBounds ==
    /\ IsFiniteSet(Listings)
    /\ MaxAttempts \in Nat \ {0} /\ MaxChanges \in Nat

\* What a job is for, of which listing, at which versions.
Keys == [type : {"derive", "rebuild"}, listing : Listings, version : {"old", "current"}]

NoKey == [type |-> "none"]
NoJob == [status |-> "none", attempts |-> 0, max |-> 0, lapsed |-> FALSE]

Job ==
    [status : {"none", "pending", "processing", "failed"}, attempts : 0..(MaxAttempts + 1),
     max : {0, MaxAttempts, MaxAttempts + 1}, lapsed : BOOLEAN]

VARIABLES
    listing,    \* products: the versions and the marker's writer
    unshown,    \* listings changed since a refresh last read them
    queue,      \* the keys of open jobs, by available_at and id
    job,        \* data_quality_remediation_queue by work_key, resolved rows left out
    worker,     \* the sweeps at work
    changes,
    poison      \* listings whose replay throws every time

remediation == <<listing, unshown, queue, job, worker, changes, poison>>

\* A worker's job, whether its row is still the one it claimed ("own"), and
\* whether the listing's marker is the one it saw or wrote ("mine").
Nobody == 0
Resting == [pc |-> "idle", key |-> NoKey, own |-> FALSE, mine |-> FALSE, last |-> FALSE]

Listing == [version : {"old", "current"}, marker : {"none", "outside", "replay"}]

Worker ==
    [pc : {"idle", "prepare", "refresh", "clear", "resolve", "failing", "retry"},
     key : Keys \cup {NoKey}, own : BOOLEAN, mine : BOOLEAN, last : BOOLEAN]

RemediationInit ==
    /\ listing = [l \in Listings |-> [version |-> "current", marker |-> "none"]]
    /\ unshown = {}
    /\ queue = <<>>
    /\ job = [k \in Keys |-> NoJob]
    /\ worker = [w \in Workers |-> Resting]
    /\ changes = 0
    /\ poison \in SUBSET Listings

RemediationTypeOK ==
    /\ listing \in [Listings -> Listing]
    /\ unshown \subseteq Listings
    /\ queue \in Seq(Keys) /\ Distinct(queue)
    /\ job \in [Keys -> Job]
    /\ \A k \in Keys :
        /\ job[k].attempts <= job[k].max
        /\ Contains(queue, k) <=> job[k].status \in {"pending", "processing"}
    /\ worker \in [Workers -> Worker]
    /\ changes \in 0..MaxChanges
    /\ poison \subseteq Listings

WorkerAt(w, pc) == worker[w].pc = pc
Key(w) == worker[w].key
Moves(w, pc) == worker' = [worker EXCEPT ![w].pc = pc]
Rests(w) == worker' = [worker EXCEPT ![w] = Resting]

Behind(l) == listing[l].version = "old"
Marked(l) == listing[l].marker # "none"

\* A write of the listing under a new token: nobody holds it but the writer.
Stamped(l, w) ==
    [v \in Workers |-> IF v = w THEN [worker[v] EXCEPT !.mine = TRUE]
                       ELSE IF Key(v) # NoKey /\ Key(v).listing = l
                            THEN [worker[v] EXCEPT !.mine = FALSE] ELSE worker[v]]

(***************************************************************************)
(* Everyone else who writes listings.                                      *)
(***************************************************************************)

\* A deploy raises a resolver's version, or an older crawl writer restores one.
FallsBehind(l) ==
    /\ ~Behind(l) /\ changes < MaxChanges
    /\ changes' = changes + 1
    /\ listing' = [listing EXCEPT ![l].version = "old"]
    /\ UNCHANGED <<unshown, queue, job, worker, poison>>

\* An alias, a catalogue product or an administrator's edit changes the listing
\* and leaves the marker until its own refresh is done.
Changes(l) ==
    /\ changes < MaxChanges
    /\ changes' = changes + 1
    /\ listing' = [listing EXCEPT ![l].marker = "outside"]
    /\ unshown' = unshown \cup {l}
    /\ worker' = Stamped(l, Nobody)
    /\ UNCHANGED <<queue, job, poison>>

\* That writer's own refresh, and its clear by token.
ChangeIsShown(l) ==
    /\ listing[l].marker = "outside"
    /\ listing' = [listing EXCEPT ![l].marker = "none"]
    /\ unshown' = unshown \ {l}
    /\ worker' = Stamped(l, Nobody)
    /\ UNCHANGED <<queue, job, changes, poison>>

(***************************************************************************)
(* Seeding and claiming.                                                   *)
(***************************************************************************)

KeyFor(type, l) == [type |-> type, listing |-> l, version |-> listing[l].version]

\* The jobs a listing's state calls for.
Wanted(l) ==
    {k \in {KeyFor("derive", l)} : Behind(l)} \cup {k \in {KeyFor("rebuild", l)} : Marked(l)}

\* Mutant: whatever is in the queue already.
SeedsAnyway == UNION {Wanted(l) : l \in Listings}

\* Those whose key is free; stale versions first, one job a listing in a call.
Seeds ==
    LET New(l) == {k \in Wanted(l) : job[k].status = "none"}
        First(l) == {k \in New(l) : k.type = "derive" \/ \A m \in New(l) : m.type = "rebuild"}
    IN  UNION {First(l) : l \in Listings}

SeedsQueue ==
    /\ queue' = queue \o SetToSeq(Seeds)
    /\ job' = [k \in Keys |-> IF k \in Seeds
            THEN [status |-> "pending", attempts |-> 0, max |-> MaxAttempts, lapsed |-> FALSE]
            ELSE job[k]]

\* Pending, or left by a worker whose lease has lapsed, with attempts to spend.
CanClaim(k) ==
    /\ \/ job[k].status = "pending"
       \/ job[k].status = "processing" /\ job[k].lapsed
    /\ job[k].attempts < job[k].max

\* The first of the queue that can be claimed.
IsNext(k) ==
    \E n \in 1..Len(queue) :
        queue[n] = k /\ CanClaim(k) /\ \A m \in 1..(n - 1) : ~CanClaim(queue[m])

NothingReady == \A k \in Keys : ~IsNext(k)

\* claimDataQualityRemediationBatch, one job of it.
Claims(w) ==
    /\ WorkerAt(w, "idle")
    /\ \E k \in Keys :
       /\ IsNext(k)
       /\ job' = [job EXCEPT
                ![k].status = "processing", ![k].attempts = @ + 1, ![k].lapsed = FALSE]
       /\ worker' = [worker EXCEPT ![w] =
                [pc |-> "prepare", key |-> k, own |-> TRUE, mine |-> FALSE, last |-> FALSE]]
    /\ UNCHANGED <<listing, unshown, queue, changes, poison>>

\* Nothing is queued: discover, then claim in the same sweep.
SweepSeeds(w) ==
    /\ WorkerAt(w, "idle") /\ NothingReady /\ Seeds # {}
    /\ SeedsQueue
    /\ UNCHANGED <<listing, unshown, worker, changes, poison>>

FindsNothing(w) ==
    /\ WorkerAt(w, "idle") /\ NothingReady /\ Seeds = {}
    /\ UNCHANGED remediation

(***************************************************************************)
(* A job.                                                                  *)
(***************************************************************************)

\* prepareJob: a version job derives the listing, with or without a change for
\* the read models; the others refresh what there is.
Prepares(w) ==
    LET k == Key(w)  l == k.listing IN
    /\ WorkerAt(w, "prepare") /\ l \notin poison
    /\ \/ /\ k.type = "derive"
          /\ \/ /\ Behind(l)            \* a derived value moved
                /\ listing' = [listing EXCEPT ![l] = [version |-> "current", marker |-> "replay"]]
                /\ unshown' = unshown \cup {l}
                /\ worker' = [Stamped(l, w) EXCEPT ![w].pc = "refresh"]
             \/ /\ listing' = [listing EXCEPT ![l].version = "current"]
                /\ worker' = [worker EXCEPT ![w].mine = Marked(l),
                        ![w].pc = IF Marked(l) THEN "refresh" ELSE "resolve"]
                /\ UNCHANGED unshown
       \/ /\ k.type = "rebuild"
          /\ worker' = [worker EXCEPT ![w].pc = "refresh", ![w].mine = Marked(l)]
          /\ UNCHANGED <<listing, unshown>>
    /\ UNCHANGED <<queue, job, changes, poison>>

\* refreshListingProjections, of the listing as it is now.
Refreshes(w) ==
    /\ WorkerAt(w, "refresh")
    /\ unshown' = unshown \ {Key(w).listing}
    /\ Moves(w, "clear")
    /\ UNCHANGED <<listing, queue, job, changes, poison>>

\* Mutant: the marker is cleared whoever wrote it.
ClearsAny(w) == Marked(Key(w).listing)

MayClear(w) == Marked(Key(w).listing) /\ worker[w].mine

\* clearProjectionPendingForToken.
Clears(w) ==
    LET l == Key(w).listing IN
    /\ WorkerAt(w, "clear")
    /\ IF MayClear(w)
       THEN /\ listing' = [listing EXCEPT ![l].marker = "none"]
            /\ worker' = [Stamped(l, Nobody) EXCEPT ![w].pc = "resolve"]
       ELSE Moves(w, "resolve") /\ UNCHANGED listing
    /\ UNCHANGED <<unshown, queue, job, changes, poison>>

Processing(w) == worker[w].own /\ job[Key(w)].status = "processing"

\* Mutant: the key of a resolved job is a tombstone.
KeptKey(k) == [job EXCEPT ![k].status = "resolved"]

\* trg_dq_remediation_archive_resolved_auto_work_key
Released(k) == [job EXCEPT ![k] = NoJob]

Dequeued(k) == Among(queue, Keys \ {k})

\* UPDATE ... SET status = 'resolved' WHERE id = ? AND status = 'processing': the
\* row, whoever claimed it last.
Resolves(w) ==
    LET k == Key(w) IN
    /\ WorkerAt(w, "resolve")
    /\ IF Processing(w)
       THEN /\ job' = Released(k)
            /\ queue' = Dequeued(k)
            /\ worker' = [v \in Workers |-> IF v = w THEN Resting
                    ELSE IF Key(v) = k THEN [worker[v] EXCEPT !.own = FALSE] ELSE worker[v]]
       ELSE Rests(w) /\ UNCHANGED <<job, queue>>
    /\ UNCHANGED <<listing, unshown, changes, poison>>

\* A step of the job throws; retryOrFail reads its attempts first.
JobThrows(w) ==
    /\ worker[w].pc \in {"prepare", "refresh", "clear", "resolve"}
    /\ Moves(w, "failing")
    /\ UNCHANGED <<listing, unshown, queue, job, changes, poison>>

ReadsAttempts(w) ==
    /\ WorkerAt(w, "failing")
    /\ worker' = [worker EXCEPT ![w].pc = "retry",
            ![w].last = worker[w].own /\ job[Key(w)].attempts >= job[Key(w)].max]
    /\ UNCHANGED <<listing, unshown, queue, job, changes, poison>>

\* ... and then the row goes back to the queue, or is given up.
RetriesOrFails(w) ==
    LET k == Key(w) IN
    /\ WorkerAt(w, "retry")
    /\ IF Processing(w)
       THEN /\ job' = [job EXCEPT ![k].lapsed = FALSE,
                    ![k].status = IF worker[w].last THEN "failed" ELSE "pending"]
            /\ queue' = IF worker[w].last THEN Dequeued(k) ELSE Append(Dequeued(k), k)
       ELSE UNCHANGED <<job, queue>>
    /\ Rests(w)
    /\ UNCHANGED <<listing, unshown, changes, poison>>

\* The sweep is cut off; its job waits for the lease.
Abandons(w) ==
    /\ ~WorkerAt(w, "idle")
    /\ Rests(w)
    /\ UNCHANGED <<listing, unshown, queue, job, changes, poison>>

Holds(w, k) == Key(w) = k /\ worker[w].own

\* lease_expires_at passes.
Lapses(k) ==
    /\ job[k].status = "processing" /\ ~job[k].lapsed
    /\ job' = [job EXCEPT ![k].lapsed = TRUE]
    /\ UNCHANGED <<listing, unshown, queue, worker, changes, poison>>

\* recoverExpiredExhaustedAutomaticRemediationJobs: one attempt more, once.
Recovers(k) ==
    /\ job[k].status = "processing" /\ job[k].lapsed
    /\ job[k].attempts >= job[k].max /\ job[k].max = MaxAttempts
    /\ job' = [job EXCEPT ![k].status = "pending", ![k].max = @ + 1, ![k].lapsed = FALSE]
    /\ queue' = Append(Dequeued(k), k)
    /\ UNCHANGED <<listing, unshown, worker, changes, poison>>

WorkerSteps(w) ==
    \/ Prepares(w) \/ Refreshes(w) \/ Clears(w) \/ ReadsAttempts(w)
    \/ WorkerAt(w, "prepare") /\ Key(w).listing \in poison /\ JobThrows(w)

(***************************************************************************)
(* What a listing is owed.                                                 *)
(***************************************************************************)

\* The marker of a change nobody has shown since is never cleared.
ChangesAreMarked == \A l \in unshown : Marked(l)

\* Its job was given up, or its last attempt was cut off.
GivenUp(k) ==
    \/ job[k].status = "failed"
    \/ /\ job[k].status = "pending" \/ job[k].lapsed
       /\ job[k].attempts = job[k].max
================================================================================
