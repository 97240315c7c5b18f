------------------------------ MODULE DataExport ------------------------------
(***************************************************************************)
(* The administrator's exports: a durable job in D1, the Queue messages    *)
(* that carry its cursor, the workers that write one page each to R2, the  *)
(* dead-letter consumer, and the nudges that revive a stranded job.        *)
(*                                                                         *)
(* A job of format "csv" pages through the rows by id.  One of format      *)
(* "complete" pages through a table of rows, then copies the evidence      *)
(* files part by part; its cursor is the number of pages, and the place to *)
(* read from is kept with the page before.  The source changes meanwhile.  *)
(*                                                                         *)
(* Time is left out: a lease lapses, a job grows stale and a deadline      *)
(* passes at any moment, and a worker may outlive its lease.               *)
(***************************************************************************)
EXTENDS Integers, FiniteSets, FiniteSetsExt

CONSTANTS
    Workers,        \* deliveries handled at once
    Formats,        \* the formats a job may have
    MaxJob,         \* bound: jobs opened
    MaxRow,         \* the rows' ids are 1..MaxRow, the horizon of every job
    CsvRows,        \* rows of a csv page
    TableRows,      \* rows of a complete page
    Files,          \* the evidence files are 1..Files
    FileParts,      \* parts a file is copied in
    MaxChunks,      \* CSV_EXPORT_MAX_CHUNKS
    MaxCopies,      \* bound: messages of one job when another copy is made
    MaxFaults       \* bound: crashes, lost and repeated sends, deadlines, source changes

ASSUME BoundAssumption ==
    /\ {MaxJob, MaxRow, CsvRows, TableRows, FileParts, MaxChunks, MaxCopies} \subseteq Nat \ {0}
    /\ {Files, MaxFaults} \subseteq Nat
ASSUME FormatAssumption == Formats \subseteq {"csv", "complete"}

VARIABLES
    job,        \* the export job rows
    chunk,      \* the pages of each job in R2
    rows,       \* ids in the exported scope now
    file,       \* version of each evidence file, 0 when it is gone
    main,       \* messages in the queue
    dlq,        \* messages in the dead-letter queue
    worker,     \* main-queue deliveries
    dead,       \* the dead-letter consumer
    starter,    \* the request that has inserted a job and must send its message
    edited,     \* history: rows that came or went
    faults,
    stranded    \* history: jobs whose only message may have been dropped

vars == <<job, chunk, rows, file, main, dlq, worker, dead, starter, edited,
          faults, stranded>>
source == <<rows, file, edited>>
queues == <<main, dlq>>
history == <<faults, stranded>>

Jobs == 1..MaxJob
Rows == 1..MaxRow
MaxPages == MaxRow + Files * FileParts + 1
Active == {"queued", "processing"}

\* Where reading goes on: a table, the row or file done last, and within a file
\* the parts done and the version they are of.
Place == [table: 0..2, after: 0..(MaxRow + Files), part: 0..FileParts, etag: 0..(MaxFaults + 1)]
Origin == [table |-> 0, after |-> 0, part |-> 0, etag |-> 0]
FileCopies == [file: 1..Files, part: 0..(FileParts - 1), etag: 0..(MaxFaults + 1)]
NoPage == [stored |-> FALSE]

\* A page of evidence is no copy when the file, or its last one, is gone.
Page ==
    [stored: {TRUE}, from: 0..MaxPages, rows: SUBSET Rows, copy: {{}} \cup {{c} : c \in FileCopies},
     next: Place, more: BOOLEAN]

Messages == [job: Jobs, after: 0..MaxPages, count: 0..MaxPages]
NoMessage == [job |-> 1, after |-> 0, count |-> 0]
Free == [pc |-> "idle", message |-> NoMessage, page |-> NoPage]
Asleep == [pc |-> "idle", message |-> NoMessage]

NoJob ==
    [status |-> "none", format |-> "csv", after |-> 0, count |-> 0, total |-> 0,
     holder |-> {}, lapsed |-> FALSE, overdue |-> FALSE]
JobRow ==
    [status: {"none", "ready", "failed", "gone"} \cup Active, format: {"csv", "complete"},
     after: 0..MaxPages, count: 0..MaxPages, total: Nat,
     holder: SUBSET Workers, lapsed: BOOLEAN, overdue: BOOLEAN]
Opened(format) == [NoJob EXCEPT !.status = "queued", !.format = format]

Init ==
    /\ job = [j \in Jobs |-> NoJob]
    /\ chunk = [j \in Jobs |-> [i \in 0..MaxPages |-> NoPage]]
    /\ rows = Rows
    /\ file = [f \in 1..Files |-> 1]
    /\ main = {} /\ dlq = {}
    /\ worker = [w \in Workers |-> Free]
    /\ dead = Asleep
    /\ starter = [pc |-> "idle", job |-> 1]
    /\ edited = {} /\ faults = 0 /\ stranded = {}

Fault == faults < MaxFaults /\ faults' = faults + 1

-----------------------------------------------------------------------------
(* The pages.                                                              *)

Lesser(a, b) == IF a < b THEN a ELSE b

\* listProductAuditExportPage: the first n rows after a place, by id.
Ahead(after) == {r \in rows : r > after}
Selected(after, n) == {r \in Ahead(after) : Cardinality({q \in Ahead(after) : q <= r}) <= n}
HasMore(after, n) == Selected(after, n) # Ahead(after)
LastOf(S, default) == IF S = {} THEN default ELSE Max(S)

\* The place a csv page starts at is its message's cursor.
CsvPage(after) ==
    [stored |-> TRUE, from |-> after, rows |-> Selected(after, CsvRows), copy |-> {},
     next |-> [Origin EXCEPT !.after = LastOf(Selected(after, CsvRows), after)],
     more |-> HasMore(after, CsvRows)]

\* readCompleteExportPage: the table after the last one is the evidence.
TablePage(place) ==
    [stored |-> TRUE, from |-> 0, rows |-> Selected(place.after, TableRows), copy |-> {},
     next |-> IF HasMore(place.after, TableRows)
              THEN [place EXCEPT !.after = Max(Selected(place.after, TableRows))]
              ELSE [Origin EXCEPT !.table = 1],
     more |-> TRUE]

EvidenceGone(place) ==
    [stored |-> TRUE, from |-> 0, rows |-> {}, copy |-> {}, more |-> TRUE,
     next |-> [place EXCEPT !.after = @ + 1]]
\* Mutant: one part too many.
OnePartMore(place) ==
    [stored |-> TRUE, from |-> 0, rows |-> {}, more |-> TRUE,
     copy |-> {[file |-> place.after + 1, part |-> place.part, etag |-> file[place.after + 1]]},
     next |-> IF place.part + 1 <= FileParts
              THEN [place EXCEPT !.part = @ + 1, !.etag = file[place.after + 1]]
              ELSE [Origin EXCEPT !.table = 1, !.after = place.after + 1]]

EvidencePart(place) ==
    [stored |-> TRUE, from |-> 0, rows |-> {}, more |-> TRUE,
     copy |-> {[file |-> place.after + 1, part |-> place.part, etag |-> file[place.after + 1]]},
     next |-> IF place.part + 1 < FileParts
              THEN [place EXCEPT !.part = @ + 1, !.etag = file[place.after + 1]]
              ELSE [Origin EXCEPT !.table = 1, !.after = place.after + 1]]
EvidenceEnd ==
    [stored |-> TRUE, from |-> 0, rows |-> {}, copy |-> {}, more |-> FALSE,
     next |-> [Origin EXCEPT !.table = 2]]

EvidencePage(place) ==
    IF place.after = Files THEN EvidenceEnd
    ELSE IF file[place.after + 1] = 0 THEN EvidenceGone(place) ELSE EvidencePart(place)

\* Mutant: a file is resumed at its offset whatever it is now.
ResumedAnyway(place) == FALSE

\* evidencePage throws when the file it is in the middle of has changed or gone.
EvidenceChanged(place) ==
    place.table = 1 /\ place.part > 0 /\ file[place.after + 1] # place.etag

\* Complete pages are placed by the page before.
PlaceOf(j, i) == IF i = 0 THEN Origin ELSE chunk[j][i - 1].next

CompletePage(j, i) ==
    LET place == PlaceOf(j, i)
        page == IF place.table = 0 THEN TablePage(place) ELSE EvidencePage(place)
    IN [page EXCEPT !.from = i]

PageFor(m) ==
    IF job[m.job].format = "csv" THEN CsvPage(m.after) ELSE CompletePage(m.job, m.count)

Unreadable(m) ==
    job[m.job].format = "complete" /\ EvidenceChanged(PlaceOf(m.job, m.count))

\* The cursor after a page: the last row's id, or the number of pages.
NextAfter(m, page) == IF job[m.job].format = "csv" THEN page.next.after ELSE m.count + 1

-----------------------------------------------------------------------------
(* Conditions and writes of the job row.                                   *)

IsActive(j) == job[j].status \in Active
AtCursor(m) == job[m.job].after = m.after /\ job[m.job].count = m.count
Write(j, row) == job' = [job EXCEPT ![j] = row]
Closed(row, status) == [row EXCEPT !.status = status, !.holder = {}, !.lapsed = FALSE,
                                   !.overdue = FALSE]

\* Mutant: a lapsed claim is never taken over.
ClaimsQueuedOnly(m) ==
    AtCursor(m) /\ ~job[m.job].overdue /\ job[m.job].status = "queued"

\* claim: the exact cursor, free or with a lapsed lease, before the deadline.
CanClaim(m) ==
    LET row == job[m.job] IN
    /\ AtCursor(m) /\ ~row.overdue
    /\ row.status = "queued" \/ (row.status = "processing" /\ row.lapsed)
Claimed(row, w) ==
    [row EXCEPT !.status = "processing", !.holder = {w}, !.lapsed = FALSE]

\* Mutant: whoever is processing may move the cursor.
SomeoneHolds(w) == job[worker[w].message.job].status = "processing"

\* The compare-and-set of advance: claim, cursor and deadline.
MayAdvance(w) ==
    LET row == job[worker[w].message.job] IN
    row.status = "processing" /\ row.holder = {w} /\ AtCursor(worker[w].message) /\ ~row.overdue

Advanced(row, m, page) ==
    LET moved == [row EXCEPT
            !.status = "queued", !.after = NextAfter(m, page), !.count = @ + 1,
            !.total = @ + Cardinality(page.rows), !.holder = {}, !.lapsed = FALSE]
    IN IF page.more THEN moved ELSE Closed(moved, "ready")

Holds(w) ==
    LET row == job[worker[w].message.job] IN row.status = "processing" /\ row.holder = {w}

\* fail, with the cursor of a message.
FailAt(m) ==
    IF IsActive(m.job) /\ AtCursor(m) THEN Write(m.job, Closed(job[m.job], "failed"))
    ELSE UNCHANGED job

-----------------------------------------------------------------------------
(* A delivery from the main queue.                                         *)

Goes(w, pc) == worker' = [worker EXCEPT ![w].pc = pc]
Acks(w) == worker' = [worker EXCEPT ![w] = Free]

\* A failed delivery is repeated, or was the last: the message is a dead letter.
Again(m) ==
    \/ main' = main \cup {m} /\ UNCHANGED dlq
    \/ dlq' = dlq \cup {m} /\ main' = main \ {m}
Retries(w) == Again(worker[w].message) /\ Acks(w)

Copies(j) ==
    Cardinality({m \in main \cup dlq : m.job = j})
    + Cardinality({w \in Workers : worker[w].pc # "idle" /\ worker[w].message.job = j})

\* A claimed message is in flight; delivery is at least once.  Or the claim is
\* written and its answer lost.
Claim(w, m) ==
    /\ worker[w].pc = "idle" /\ m \in main /\ CanClaim(m)
    /\ Write(m.job, Claimed(job[m.job], w))
    /\ \/ /\ main' = main \ {m} /\ UNCHANGED <<dlq, faults>>
          /\ worker' = [worker EXCEPT ![w] = [Free EXCEPT !.pc = "page", !.message = m]]
       \/ /\ Copies(m.job) < MaxCopies /\ Fault /\ UNCHANGED queues
          /\ worker' = [worker EXCEPT ![w] = [Free EXCEPT !.pc = "page", !.message = m]]
       \/ Fault /\ Again(m) /\ UNCHANGED worker
    /\ UNCHANGED <<chunk, source, dead, starter, stranded>>

\* Mutant: a message ahead of the cursor is taken for an old one.
CursorElsewhere(m) == ~IsActive(m.job) \/ ~AtCursor(m)

\* retryUnclaimableMessage: nothing is left for this message to do.
IsPast(m) ==
    LET row == job[m.job] IN
    \/ row.status \notin Active
    \/ row.count > m.count
    \/ row.count = m.count /\ row.after > m.after

\* The read after a claim that found nothing decides as a later delivery would.
Unclaimable(m) ==
    /\ m \in main /\ ~CanClaim(m)
    /\ IF IsActive(m.job) /\ job[m.job].overdue
       THEN FailAt(m) /\ main' = main \ {m} /\ UNCHANGED dlq
       ELSE /\ UNCHANGED job
            /\ IF IsPast(m) THEN main' = main \ {m} /\ UNCHANGED dlq ELSE Again(m)
    /\ UNCHANGED <<chunk, source, worker, dead, starter, history>>

\* releaseClaim, by token, then the retry.
Errs(w) ==
    /\ IF Holds(w)
       THEN LET j == worker[w].message.job IN
            Write(j, [job[j] EXCEPT !.status = "queued", !.holder = {}, !.lapsed = FALSE])
       ELSE UNCHANGED job
    /\ Retries(w)

Stored(m) == chunk[m.job][m.count]
WithPage(w, page, pc) == worker' = [worker EXCEPT ![w].page = page, ![w].pc = pc]

\* The page of this cursor, if some delivery has stored it: a page of another
\* cursor is refused.
FindPage(w) ==
    LET m == worker[w].message IN
    /\ worker[w].pc = "page" /\ Stored(m).stored
    /\ IF Stored(m).from = m.after
       THEN WithPage(w, Stored(m), "stored") /\ UNCHANGED <<job, queues>>
       ELSE Errs(w)
    /\ UNCHANGED <<chunk, source, dead, starter, history>>

ReadPage(w) ==
    LET m == worker[w].message IN
    /\ worker[w].pc = "page" /\ ~Stored(m).stored
    /\ IF Unreadable(m) THEN Errs(w)
       ELSE WithPage(w, PageFor(m), "put") /\ UNCHANGED <<job, queues>>
    /\ UNCHANGED <<chunk, source, dead, starter, history>>

\* Mutant: the object is written unconditionally.
Overwrites(m) == TRUE

\* put with etagDoesNotMatch "*".
MayPut(m) == ~Stored(m).stored

\* The loser of the conditional write adopts the winner's page.
PutPage(w) ==
    LET m == worker[w].message IN
    /\ worker[w].pc = "put"
    /\ IF MayPut(m)
       THEN /\ chunk' = [chunk EXCEPT ![m.job][m.count] = worker[w].page]
            /\ Goes(w, "stored")
       ELSE WithPage(w, Stored(m), "stored") /\ UNCHANGED chunk
    /\ UNCHANGED <<job, source, queues, dead, starter, history>>

TooLarge(w) ==
    LET m == worker[w].message IN
    job[m.job].format = "csv" /\ worker[w].page.more /\ m.count + 1 >= MaxChunks

\* failClaimed: only the claim the caller holds.
GivesUp(w) ==
    LET m == worker[w].message IN
    /\ worker[w].pc = "stored" /\ TooLarge(w)
    /\ IF Holds(w) /\ AtCursor(m)
       THEN Write(m.job, Closed(job[m.job], "failed")) /\ Acks(w) /\ UNCHANGED queues
       ELSE Retries(w) /\ UNCHANGED job
    /\ UNCHANGED <<chunk, source, dead, starter, history>>

Continuation(w) ==
    LET m == worker[w].message IN
    [job |-> m.job, after |-> NextAfter(m, worker[w].page), count |-> m.count + 1]

\* Queue first, D1 second.
SendNext(w) ==
    /\ worker[w].pc = "stored" /\ worker[w].page.more /\ ~TooLarge(w)
    /\ main' = main \cup {Continuation(w)}
    /\ Goes(w, "sent")
    /\ UNCHANGED <<job, chunk, source, dlq, dead, starter, history>>

\* The answer of an advance that was written may be lost.
Advance(w) ==
    LET m == worker[w].message IN
    /\ worker[w].pc = "sent" \/ (worker[w].pc = "stored" /\ ~worker[w].page.more)
    /\ IF MayAdvance(w)
       THEN /\ Write(m.job, Advanced(job[m.job], m, worker[w].page))
            /\ \/ Acks(w) /\ UNCHANGED <<queues, faults>>
               \/ Fault /\ Retries(w)
       ELSE Retries(w) /\ UNCHANGED <<job, faults>>
    /\ UNCHANGED <<chunk, source, dead, starter, stranded>>

\* Any call may fail, after it has taken effect or before.
Throws(w) ==
    /\ worker[w].pc # "idle" /\ Fault /\ Errs(w)
    /\ UNCHANGED <<chunk, source, dead, starter, stranded>>

\* The invocation dies, or its release fails: the message is delivered again.
Dies(w) ==
    /\ worker[w].pc # "idle" /\ Fault
    /\ Retries(w)
    /\ UNCHANGED <<job, chunk, source, dead, starter, stranded>>

-----------------------------------------------------------------------------
(* The dead-letter queue.                                                  *)

IsAhead(m) == IsActive(m.job) /\ job[m.job].count < m.count

\* A message that is not of the job's cursor is dropped, ahead of it or behind.
\* A live claimant may still commit: its message goes back to the main queue.
DeadTake(m) ==
    /\ dead.pc = "idle" /\ m \in dlq
    /\ dlq' = dlq \ {m}
    /\ main' = IF AtCursor(m) /\ job[m.job].status = "processing" THEN main \cup {m} ELSE main
    /\ dead' = IF AtCursor(m) /\ job[m.job].status = "queued"
               THEN [pc |-> "fail", message |-> m] ELSE dead
    /\ stranded' = IF IsAhead(m) THEN stranded \cup {m.job} ELSE stranded
    /\ UNCHANGED <<job, chunk, source, worker, starter, faults>>

\* failQueued: never a cursor that a worker has just claimed.
DeadFail ==
    LET m == dead.message IN
    /\ dead.pc = "fail"
    /\ IF job[m.job].status = "queued" /\ AtCursor(m)
       THEN Write(m.job, Closed(job[m.job], "failed")) /\ UNCHANGED dlq
       ELSE dlq' = dlq \cup {m} /\ UNCHANGED job
    /\ dead' = Asleep
    /\ UNCHANGED <<chunk, source, main, worker, starter, history>>

\* A pass fails and its message is delivered again, or for the last time.
DeadThrows ==
    /\ dead.pc # "idle" /\ Fault
    /\ \/ dlq' = dlq \cup {dead.message} /\ UNCHANGED stranded
       \/ stranded' = stranded \cup {dead.message.job} /\ UNCHANGED dlq
    /\ dead' = Asleep
    /\ UNCHANGED <<job, chunk, source, main, worker, starter>>

-----------------------------------------------------------------------------
(* Requests and the general cron.                                          *)

\* The message of the row a request has inserted, however late it is sent.
FirstMessage(j) == [job |-> j, after |-> 0, count |-> 0]
CursorOf(j) == [job |-> j, after |-> job[j].after, count |-> job[j].count]

\* createOrReuse...: one active job of a scope.
Create(j) ==
    /\ starter.pc = "idle" /\ job[j].status = "none"
    /\ \A i \in Jobs : ~IsActive(i) /\ (i < j => job[i].status # "none")
    /\ \E format \in Formats : Write(j, Opened(format))
    /\ starter' = [pc |-> "send", job |-> j]
    /\ UNCHANGED <<chunk, source, queues, worker, dead, history>>

StartSend ==
    /\ starter.pc = "send"
    /\ main' = main \cup {FirstMessage(starter.job)}
    /\ starter' = [starter EXCEPT !.pc = "idle"]
    /\ UNCHANGED <<job, chunk, source, dlq, worker, dead, history>>

\* The send throws, with or without the message in the queue; or the request
\* dies between the insert and the send.
StartThrows ==
    /\ starter.pc = "send" /\ Fault
    /\ \/ /\ main' = main \cup {FirstMessage(starter.job)} /\ UNCHANGED stranded
          /\ starter' = [starter EXCEPT !.pc = "fail"]
       \/ /\ stranded' = stranded \cup {starter.job} /\ UNCHANGED main
          /\ starter' = [starter EXCEPT !.pc = "fail"]
       \/ /\ stranded' = stranded \cup {starter.job} /\ UNCHANGED main
          /\ starter' = [starter EXCEPT !.pc = "idle"]
    /\ UNCHANGED <<job, chunk, source, dlq, worker, dead>>

\* fail without a cursor.
StartFail ==
    /\ starter.pc = "fail"
    /\ IF IsActive(starter.job) THEN Write(starter.job, Closed(job[starter.job], "failed"))
       ELSE UNCHANGED job
    /\ starter' = [starter EXCEPT !.pc = "idle"]
    /\ UNCHANGED <<chunk, source, queues, worker, dead, history>>

\* reserveEnqueue, then the send: a poll, another request or the cron.
Nudge(j) ==
    /\ IsActive(j) /\ ~job[j].overdue /\ Copies(j) < MaxCopies
    /\ job[j].status = "queued" \/ job[j].lapsed
    /\ \/ main' = main \cup {CursorOf(j)} /\ UNCHANGED faults
       \/ Fault /\ UNCHANGED main
    /\ UNCHANGED <<job, chunk, source, dlq, worker, dead, starter, stranded>>

\* The same three callers close a job whose deadline has passed.
CloseOverdue(j) ==
    /\ IsActive(j) /\ job[j].overdue
    /\ Write(j, Closed(job[j], "failed"))
    /\ UNCHANGED <<chunk, source, queues, worker, dead, starter, history>>

\* Maintenance deletes a row by its deadline or retention alone, whatever it is.
\* Retention ends at any moment.
Prune(j) ==
    /\ job[j].status \in {"ready", "failed"} \/ job[j].overdue
    /\ Write(j, [NoJob EXCEPT !.status = "gone", !.format = job[j].format])
    /\ UNCHANGED <<chunk, source, queues, worker, dead, starter, history>>

-----------------------------------------------------------------------------
(* Time, and the source.                                                   *)

Lapse(j) ==
    /\ job[j].status = "processing" /\ ~job[j].lapsed
    /\ Write(j, [job[j] EXCEPT !.lapsed = TRUE])
    /\ UNCHANGED <<chunk, source, queues, worker, dead, starter, history>>

\* The deadline of generation.
Expire(j) ==
    /\ IsActive(j) /\ ~job[j].overdue /\ Fault
    /\ Write(j, [job[j] EXCEPT !.overdue = TRUE])
    /\ UNCHANGED <<chunk, source, queues, worker, dead, starter, stranded>>

EditRow(r) ==
    /\ Fault
    /\ rows' = IF r \in rows THEN rows \ {r} ELSE rows \cup {r}
    /\ edited' = edited \cup {r}
    /\ UNCHANGED <<job, chunk, file, queues, worker, dead, starter, stranded>>

\* An evidence file is replaced, or its retention ends.
EditFile(f) ==
    /\ Fault /\ file[f] # 0
    /\ \E version \in {0, file[f] + 1} : file' = [file EXCEPT ![f] = version]
    /\ UNCHANGED <<job, chunk, rows, edited, queues, worker, dead, starter, stranded>>

-----------------------------------------------------------------------------
WorkerStep(w) ==
    \/ FindPage(w) \/ ReadPage(w) \/ PutPage(w)
    \/ GivesUp(w) \/ SendNext(w) \/ Advance(w)

DeadStep == DeadFail \/ \E m \in dlq : DeadTake(m)

\* A message with nothing left to do changes no more than its queue: it is
\* acknowledged first, which leaves every other order of events as it is.
Quiet ==
    /\ ~\E m \in main : IsPast(m)
    /\ dead.pc = "idle" => ~\E m \in dlq : IsPast(m)

Next ==
    \/ \E m \in main : Unclaimable(m)
    \/ DeadStep
    \/ Quiet /\ \E w \in Workers :
        \/ WorkerStep(w) \/ Throws(w) \/ Dies(w)
        \/ \E m \in main : Claim(w, m)
    \/ Quiet /\ (DeadThrows \/ StartSend \/ StartThrows \/ StartFail)
    \/ Quiet /\ \E j \in Jobs :
        Create(j) \/ Nudge(j) \/ CloseOverdue(j) \/ Prune(j) \/ Lapse(j) \/ Expire(j)
    \/ Quiet /\ ((\E r \in Rows : EditRow(r)) \/ \E f \in 1..Files : EditFile(f))

Spec == Init /\ [][Next]_vars

\* A message's deliveries are spent (max_retries), and a pass of the dead-letter
\* consumer falls between two claims: neither is put off for ever.
Exhausted(w) ==
    WorkerStep(w) /\ worker[w].message \in dlq' /\ worker[w].message \notin main'
DeadFound == \E m \in dlq : DeadTake(m) /\ dead'.pc = "fail"
DeadFailed == DeadFail /\ job' # job

\* The queue delivers, invocations run on, the cron nudges, and clocks tick.
Fairness ==
    /\ \A w \in Workers :
        WF_vars(WorkerStep(w)) /\ WF_vars(\E m \in main : Claim(w, m))
    /\ WF_vars(\E m \in main : Unclaimable(m))
    /\ WF_vars(DeadStep) /\ SF_vars(DeadFound) /\ SF_vars(DeadFailed)
    /\ SF_vars(\E w \in Workers : Exhausted(w))
    /\ WF_vars(StartSend) /\ WF_vars(StartFail)
    /\ \A j \in Jobs :
        /\ WF_vars(Nudge(j)) /\ WF_vars(CloseOverdue(j))
        /\ WF_vars(Lapse(j))

FairSpec == Spec /\ Fairness

-----------------------------------------------------------------------------
(* Properties.                                                             *)

\* Every variable stays in its domain.
TypeOK ==
    /\ job \in [Jobs -> JobRow]
    /\ chunk \in [Jobs -> [0..MaxPages -> {NoPage} \cup Page]]
    /\ rows \subseteq Rows /\ edited \subseteq Rows /\ stranded \subseteq Jobs
    /\ file \in [1..Files -> 0..(MaxFaults + 1)]
    /\ main \subseteq Messages /\ dlq \subseteq Messages
    /\ worker \in [Workers -> [pc: {"idle", "page", "put", "stored", "sent"},
                                message: Messages, page: {NoPage} \cup Page]]
    /\ dead \in [pc: {"idle", "fail"}, message: Messages]
    /\ starter \in [pc: {"idle", "send", "fail"}, job: Jobs]
    /\ faults \in 0..MaxFaults

PagesOf(j) == {chunk[j][i] : i \in 0..(job[j].count - 1)}

\* A job that can be downloaded is whole whatever deliveries were lost, repeated
\* or overtaken: it announces the rows its pages hold, only its last page is a
\* last page, no row is in it twice, and a row that was there all the time is in it.
ReadyIsWhole ==
    \A j \in Jobs : job[j].status = "ready" =>
        LET last == job[j].count - 1 IN
        /\ \A i \in 0..last : chunk[j][i].stored /\ (chunk[j][i].more <=> i < last)
        /\ \A i, k \in 0..last : i # k => chunk[j][i].rows \cap chunk[j][k].rows = {}
        /\ job[j].total = Cardinality(UNION {page.rows : page \in PagesOf(j)})
        /\ rows \ edited \subseteq UNION {page.rows : page \in PagesOf(j)}

CopiesOf(j, f) ==
    {c \in UNION {page.copy : page \in {chunk[j][i] : i \in {k \in 0..MaxPages : chunk[j][k].stored}}} :
        c.file = f}

\* A file's parts are never of two versions, and a ready job has all of a file's
\* parts or none: a file replaced between two parts is not glued together.
FilesAreNotTorn ==
    \A j \in Jobs, f \in 1..Files :
        /\ \A c, d \in CopiesOf(j, f) : c.etag = d.etag
        /\ job[j].status = "ready" =>
            {c.part : c \in CopiesOf(j, f)} \in {{}, 0..(FileParts - 1)}

\* "After any interruption, either the old cursor is retried or at least one
\* continuation exists": some message of an active job's cursor is in a queue or
\* in hand, unless its only message was lost outside the two.
CursorIsCarried ==
    \A j \in Jobs : IsActive(j) /\ j \notin stranded =>
        \/ \E m \in main \cup dlq : m.job = j /\ AtCursor(m)
        \/ \E w \in Workers :
            worker[w].pc # "idle" /\ worker[w].message.job = j /\ AtCursor(worker[w].message)
        \/ dead.pc # "idle" /\ dead.message.job = j /\ AtCursor(dead.message)
        \/ starter.pc = "send" /\ starter.job = j /\ AtCursor(FirstMessage(j))

LastPage(page) == page.stored /\ ~page.more
JobState == [j \in Jobs |-> IF IsActive(j) THEN "open" ELSE job[j].status]
JobPages == [j \in Jobs |-> [i \in 1..job[j].count |-> chunk[j][i - 1]]]
Log == INSTANCE ExportLog WITH IsLast <- LastPage, state <- JobState, pages <- JobPages

\* The export implements an append-only log of pages: a lapsed claimant, a
\* repeated message or a dead letter never changes, skips or repeats a page, and
\* never reopens a job or moves one that is closed.
ImplementsLog == Log!Spec

\* Every export ends, by its own work or by its dead letter, without the deadline.
JobEnds == \A j \in Jobs : IsActive(j) ~> ~IsActive(j)
=============================================================================
