---------------------- MODULE CrawlContinuation_proofs ----------------------
(***************************************************************************)
(* For every number of listings, chunk size, refresher, run, crawl and     *)
(* fault: stages run in order, no stage loses the items it has to read,    *)
(* what a run reports as done is done, the projection watermark is earned, *)
(* and no acknowledgement forgets a change.                                *)
(*                                                                         *)
(* None is inductive alone.  What is added says where an invocation stands *)
(* between two of its calls: that the stages before the one it drains are  *)
(* done (InOrder), that what it has passed or carries is shown (InWork),   *)
(* and that the tokens it may acknowledge stand for versions it has shown  *)
(* (Tokens, RefreshHasShown).                                              *)
(***************************************************************************)
EXTENDS CrawlContinuation, FiniteSetTheorems, TLAPS


(***************************************************************************)
(* The operators: least and greatest elements, and chunks.                 *)
(***************************************************************************)

\* A set of naturals that is not empty has a least element.
LEMMA LeastExists ==
    ASSUME NEW n \in Nat, NEW S \in SUBSET (0..n), S # {}
    PROVE  \E x \in S : \A y \in S : x <= y
<1> DEFINE Below(x) == {y \in S : y < x}
           T == {Below(x) : x \in S}
<1>1. IsFiniteSet(S)
  BY FS_BoundedSetOfNaturals
<1>2. \A x \in S : Below(x) \in FiniteSubsetsOf(S)
  BY <1>1, FS_Subset DEF FiniteSubsetsOf
<1>3. T \subseteq FiniteSubsetsOf(S) /\ T # {}
  BY <1>2
<1>4. PICK B \in T : \A C \in T : ~ (<<C, B>> \in StrictSubsetOrdering(S))
  <2> HIDE DEF T
  <2> QED
    BY <1>3, FS_StrictSubsetOrderingWellFounded, WFMin
<1>5. PICK x \in S : B = Below(x)
  BY <1>4
<1>6. SUFFICES ASSUME NEW y \in S, y < x
               PROVE  FALSE
  BY <1>5
<1>7. Below(y) \subseteq Below(x) /\ y \in Below(x) /\ y \notin Below(y)
  <2>1. \A z \in S : z \in Int
    OBVIOUS
  <2>2. \A z \in S : z < y => z < x
    BY <1>6, <2>1
  <2>3. ~ (y < y)
    BY <2>1
  <2>4. Below(y) \subseteq Below(x)
    BY <2>2
  <2> QED
    BY <1>6, <2>3, <2>4
<1>8. <<Below(y), Below(x)>> \in StrictSubsetOrdering(S)
  BY <1>7 DEF StrictSubsetOrdering
<1> QED
  BY <1>4, <1>5, <1>6, <1>8

\* FirstStage is the least stage of a set of stages.
LEMMA FirstStageIsFirst ==
    ASSUME NEW S \in SUBSET Stages, S # {}
    PROVE  FirstStage(S) \in S /\ \A y \in S : FirstStage(S) <= y
<1>1. \E x \in S : \A y \in S : x <= y
  BY LeastExists DEF Stages
<1> QED
  BY <1>1 DEF FirstStage

\* Largest is the greatest listing of a set of listings.
LEMMA LargestIsLast ==
    ASSUME NEW S \in SUBSET Listings, S # {}
    PROVE  Largest(S) \in S /\ \A y \in S : y <= Largest(S)
<1> DEFINE T == {NumListings - x : x \in S}
<1>1. NumListings \in Nat
  BY SizeAssumption
<1>2. T \in SUBSET (0..NumListings) /\ T # {}
  <2>1. \A x \in S : x \in Int /\ 1 <= x /\ x <= NumListings
    BY <1>1 DEF Listings
  <2>2. \A x \in S : NumListings - x \in 0..NumListings
    BY <1>1, <2>1
  <2> QED
    BY <2>2
<1>3. \E t \in T : \A u \in T : t <= u
  <2> HIDE DEF T
  <2> QED
    BY <1>1, <1>2, LeastExists
<1>4. \E x \in S : \A y \in S : y <= x
  BY <1>1, <1>3 DEF Listings
<1> QED
  BY <1>4 DEF Largest

\* A chunk holds the first listings of its source, and a short chunk all of
\* them.
LEMMA ChunkIsFirst ==
    ASSUME NEW S \in SUBSET Listings
    PROVE  /\ FirstChunk(S) \subseteq S
           /\ \A x \in S : \A y \in FirstChunk(S) : x <= y => x \in FirstChunk(S)
           /\ Cardinality(FirstChunk(S)) < Chunk => FirstChunk(S) = S
           /\ FirstChunk(S) = {} => S = {}
<1> DEFINE UpTo(x) == {y \in S : y <= x}
<1>1. /\ NumListings \in Nat /\ Chunk \in Nat \ {0}
      /\ S \subseteq 0..NumListings
      /\ \A x \in S : x \in Int
  BY SizeAssumption DEF Listings
<1>2. IsFiniteSet(S)
  BY <1>1, FS_BoundedSetOfNaturals
<1>3. \A x \in S : IsFiniteSet(UpTo(x)) /\ Cardinality(UpTo(x)) \in Nat
  BY <1>2, FS_Subset, FS_CardinalityType
<1>4. FirstChunk(S) = {x \in S : Cardinality(UpTo(x)) <= Chunk}
  BY DEF FirstChunk
<1>5. ASSUME NEW x \in S, NEW y \in FirstChunk(S), x <= y
      PROVE  x \in FirstChunk(S)
  <2>1. y \in S /\ Cardinality(UpTo(y)) <= Chunk
    BY <1>4
  <2>2. UpTo(x) \in SUBSET UpTo(y)
    <3>1. \A z \in S : z <= x => z <= y
      BY <1>1, <1>5, <2>1
    <3> QED
      BY <3>1
  <2>3. Cardinality(UpTo(x)) <= Cardinality(UpTo(y))
    BY <1>3, <2>1, <2>2, FS_Subset
  <2>4. Cardinality(UpTo(x)) <= Chunk
    <3> HIDE DEF UpTo
    <3> QED
      BY <1>1, <1>3, <2>1, <2>3
  <2> QED
    BY <1>4, <2>4
<1>6. ASSUME Cardinality(FirstChunk(S)) < Chunk
      PROVE  FirstChunk(S) = S
  <2>1. SUFFICES ASSUME S \ FirstChunk(S) # {}
                 PROVE  FALSE
    BY <1>4
  <2>2. PICK m \in S \ FirstChunk(S) : \A y \in S \ FirstChunk(S) : m <= y
    <3> HIDE DEF UpTo
    <3>1. S \ FirstChunk(S) \in SUBSET (0..NumListings)
      BY <1>1
    <3> QED
      BY <1>1, <2>1, <3>1, LeastExists
  <2>3. IsFiniteSet(FirstChunk(S)) /\ Cardinality(FirstChunk(S)) \in Nat
    BY <1>2, <1>4, FS_Subset, FS_CardinalityType
  <2>4. UpTo(m) \in SUBSET (FirstChunk(S) \cup {m})
    <3>1. \A z \in S : z <= m => z = m \/ z \in FirstChunk(S)
      BY <1>1, <2>2
    <3> QED
      BY <3>1
  <2>5. /\ IsFiniteSet(FirstChunk(S) \cup {m})
        /\ Cardinality(FirstChunk(S) \cup {m}) = Cardinality(FirstChunk(S)) + 1
    BY <2>2, <2>3, FS_AddElement
  <2>6. Cardinality(UpTo(m)) <= Cardinality(FirstChunk(S)) + 1
    BY <2>4, <2>5, FS_Subset
  <2>7. Cardinality(UpTo(m)) <= Chunk
    BY <1>1, <1>3, <1>6, <2>2, <2>3, <2>6
  <2> QED
    BY <1>4, <2>2, <2>7
<1>7. ASSUME FirstChunk(S) = {}
      PROVE  S = {}
  BY <1>1, <1>6, <1>7, FS_EmptySet
<1> QED
  BY <1>4, <1>5, <1>6, <1>7

(***************************************************************************)
(* The invariant, in layers.                                               *)
(***************************************************************************)

\* Where the calls of a drain may stand: within a stage, and within a stage
\* with a chunk; or anywhere it goes on with its run.
InStage == {"claim", "read", "write", "sync", "acknowledge", "advance", "complete"}
HasChunk == {"read", "write", "sync", "acknowledge", "advance"}
OnRun == InStage \cup {"next", "clear", "project"}

DrainShape(d) ==
    /\ drain[d].pc = "idle" => drain[d] = NoDrain
    /\ drain[d].pc # "idle" => drain[d].run \in Runs
    /\ drain[d].pc \in InStage => drain[d].stage \in Stages
    /\ drain[d].pc \in {"read", "write"} => drain[d].stage < Entity
    /\ drain[d].pc = "sync" => drain[d].stage >= Entity
    /\ drain[d].pc = "acknowledge" => drain[d].stage = Entity
    /\ drain[d].pc \in HasChunk => drain[d].chunk # {}

\* The crawl drains its own run, and only while it is at that.
CrawlDrainShape ==
    /\ drain["crawl"].pc \in {"idle", "next"} \cup InStage
    /\ drain["crawl"].pc # "idle" =>
          drain["crawl"].run = newest /\ crawl.pc \in {"idle", "drain"}

CrawlShape == open \/ crawl.pc # "idle" => newest \in Runs

RefreshShape(f) ==
    refresh[f].pc # "idle" => refresh[f].listing \in Listings /\ refresh[f].stage \in {1, 2}

Shapes ==
    /\ \A d \in Drainers : DrainShape(d)
    /\ CrawlDrainShape /\ CrawlShape
    /\ \A f \in Refreshers : RefreshShape(f)

Typed == TypeOK /\ Shapes

\* A run's four stages are recorded at once, and retired at once; only a run
\* that is not the newest is.  A cursor moves in a recorded stage only.
StagesTogether ==
    \A r \in Runs :
        /\ \A s, t \in Stages : stage[r][s] = "none" => stage[r][t] = "none"
        /\ \A s, t \in Stages : stage[r][s] = "superseded" => stage[r][t] # "pending"
        /\ \A s \in Stages : stage[r][s] = "superseded" => r < newest
        /\ \A s \in Stages : cursor[r][s] # 0 => stage[r][s] # "none"

AllDone(r) == \A s \in Stages : stage[r][s] = "done"

\* The stages before the one an invocation drains are done, and its run was
\* not retired under it.
InOrder(d) ==
    LET r == drain[d].run IN
    /\ drain[d].pc \in OnRun =>
          \A s \in Stages : stage[r][s] \in {"pending", "done"}
    /\ drain[d].pc \in InStage =>
          \A s \in Stages : s < drain[d].stage => stage[r][s] = "done"
    /\ drain[d].pc \in {"clear", "project"} => AllDone(r)
    /\ drain[d].pc \in {"newer", "supersede", "drop"} =>
          \A s \in Stages : stage[r][s] # "none"
    /\ drain[d].pc = "supersede" => r < newest
    /\ drain[d].pc = "drop" => Owed(r) = {}

CrawlInOrder == crawl.pc \in {"clear", "project"} => AllDone(newest)

\* An item is there, or no stage will read it again.
ItemsOutlive ==
    \A r \in Runs : \A l \in Listings :
        since[r][l] # 0 /\ l \notin Items(r) => ~ OwesScoped(r) /\ stage[r][1] # "none"

Ordered ==
    /\ StagesTogether /\ StagesInOrder /\ ItemsOutlive
    /\ \A d \in Drainers : InOrder(d)
    /\ CrawlInOrder

\* An item of a run that was recorded before its stages.
Counts(r, l) == since[r][l] # 0 /\ <<r, l>> \notin late
Shows(r, s, l) == shown[s][l] >= since[r][l]

\* Nothing is ahead of the listing it was computed from.
NotAhead ==
    \A l \in Listings :
        /\ \A s \in Scoped : shown[s][l] <= version[l]
        /\ \A r \in Runs : since[r][l] <= version[l]
        /\ \A d \in Drainers : drain[d].seen[l] <= version[l]
        /\ \A f \in Refreshers : refresh[f].listing = l => refresh[f].seen <= version[l]

\* What an invocation has passed is shown, and what it carries will be.
InWork(d) ==
    LET r == drain[d].run
        s == drain[d].stage
    IN
    drain[d].pc \in InStage /\ s \in Scoped =>
        \A l \in Items(r) : Counts(r, l) =>
            /\ l <= drain[d].after => Shows(r, s, l)
            /\ drain[d].pc \in HasChunk /\ l \notin drain[d].chunk /\ l > drain[d].after =>
                  /\ \A y \in drain[d].chunk : y < l
                  /\ ~ (Cardinality(drain[d].chunk) < Chunk)
            /\ drain[d].pc = "write" /\ l \in drain[d].chunk =>
                  Shows(r, s, l) \/ drain[d].seen[l] >= since[r][l]
            /\ drain[d].pc \in {"acknowledge", "advance"} /\ l \in drain[d].chunk => Shows(r, s, l)
            /\ drain[d].pc = "complete" => Shows(r, s, l)

DoneIsShown ==
    \A r \in Runs : \A l \in Listings : \A s \in Scoped :
        Counts(r, l) /\ stage[r][s] = "done" => Shows(r, s, l)

CursorIsShown ==
    \A r \in Runs : \A l \in Items(r) : \A s \in Scoped :
        Counts(r, l) /\ cursor[r][s] >= l => Shows(r, s, l)

ItemsAreDated == \A r \in Runs : \A l \in Items(r) : since[r][l] # 0

Worked ==
    /\ NotAhead /\ ItemsAreDated /\ DoneIsShown /\ CursorIsShown
    /\ \A d \in Drainers : InWork(d)

\* A generation belongs to one run, and the watermark's run is finished.
Generations ==
    /\ watermark <= attempts
    /\ \A r \in Runs :
          /\ generation[r] <= attempts
          /\ crawl.pc \in {"write", "generation"} => generation[r] < attempts
          /\ generation[r] # 0 /\ watermark = generation[r] => AllDone(r)
          /\ \A q \in Runs : generation[r] # 0 /\ generation[r] = generation[q] => r = q
          /\ drain["sweep"].pc # "idle" /\ generation[r] = drain["sweep"].gen =>
                r = drain["sweep"].run
    /\ crawl.pc \in {"write", "generation"} =>
          watermark < attempts /\ drain["sweep"].gen < attempts
    /\ drain["sweep"].gen <= attempts
    /\ crawl.pc \notin {"idle", "write", "generation"} => generation[newest] = attempts

\* A token is the version it was left at, and so is an item's.
Tokens ==
    /\ \A l \in Listings : pending[l] \in {0, version[l]}
    /\ \A r \in Runs : \A l \in Items(r) :
          <<r, l>> \notin late => work[r][l] \in {0, since[r][l]}

\* What a refresh has shown of the version whose token it took.
RefreshHasShown(f) ==
    LET l == refresh[f].listing
        done(s) == shown[s][l] >= refresh[f].token
    IN
    /\ refresh[f].pc # "idle" => refresh[f].token <= version[l]
    /\ refresh[f].pc # "idle" /\ refresh[f].stage = 2 => done(1)
    /\ refresh[f].pc = "write" =>
          done(refresh[f].stage) \/ refresh[f].seen >= refresh[f].token
    /\ refresh[f].pc \in {"sync", "acknowledge"} => done(1) /\ done(2)
    /\ refresh[f].pc = "acknowledge" => done(3)

Remembered ==
    /\ Tokens /\ NothingForgotten
    /\ \A f \in Refreshers : RefreshHasShown(f)

IInv == Typed /\ Ordered /\ Worked /\ Generations /\ Remembered

(***************************************************************************)
(* Types and shapes.                                                       *)
(***************************************************************************)

LEMMA Bounds ==
    /\ NumListings \in Nat /\ Chunk \in Nat /\ Chunk > 0
    /\ MaxRuns \in Nat /\ MaxAttempts \in Nat /\ MaxFaults \in Nat
    /\ MaxVersion \in Nat /\ MaxVersion > 0
BY SizeAssumption, BoundAssumption

LEMMA NoItemIsItem == NoItem \in NoItem..MaxVersion /\ 0..MaxVersion \subseteq NoItem..MaxVersion
BY Bounds DEF NoItem

LEMMA NothingIsTyped ==
    NoDrain \in DrainStates /\ NoCrawl \in CrawlStates /\ NoRefresh \in RefreshStates
BY Bounds DEF NoDrain, NoCrawl, NoRefresh, AllZero, DrainStates, CrawlStates, RefreshStates

LEMMA TypedInit == Init => Typed
<1> SUFFICES ASSUME Init PROVE Typed
  OBVIOUS
<1>1. NoDrain \in DrainStates /\ NoCrawl \in CrawlStates /\ NoRefresh \in RefreshStates
  BY NothingIsTyped
<1>2. ListingsOK
  BY Bounds DEF Init, ListingsOK, Versions
<1>3. RunsOK
  <2>1. work \in [Runs -> [Listings -> NoItem..MaxVersion]]
    BY NoItemIsItem DEF Init
  <2>2. stage \in [Runs -> [Stages -> {"none", "pending", "done", "superseded"}]]
    BY DEF Init
  <2>3. /\ cursor \in [Runs -> [Stages -> 0..NumListings]]
        /\ since \in [Runs -> [Listings -> 0..MaxVersion]]
        /\ generation \in [Runs -> 0..MaxAttempts]
    BY Bounds DEF Init
  <2>4. newest \in 0..MaxRuns /\ watermark \in 0..MaxAttempts
    BY Bounds DEF Init
  <2>5. open \in BOOLEAN /\ collected \subseteq Listings /\ late \subseteq Runs \X Listings
    BY DEF Init
  <2> QED
    BY <2>1, <2>2, <2>3, <2>4, <2>5 DEF RunsOK
<1>4. InvocationsOK
  BY Bounds, <1>1 DEF Init, InvocationsOK
<1>5. Shapes
  BY DEF Init, Shapes, DrainShape, CrawlDrainShape, CrawlShape, RefreshShape, NoDrain, NoCrawl,
         NoRefresh, InStage, HasChunk, Drainers
<1> QED
  BY <1>2, <1>3, <1>4, <1>5 DEF Typed, TypeOK

\* Where one invocation's drain moves to, alone.
LEMMA DrainMoved ==
    ASSUME InvocationsOK, NEW d \in Drainers, NEW to \in DrainStates,
           drain' = [drain EXCEPT ![d] = to]
    PROVE  /\ drain' \in [Drainers -> DrainStates]
           /\ drain'[d] = to
           /\ \A e \in Drainers : e # d => drain'[e] = drain[e]
BY DEF InvocationsOK

LEMMA DrainFields ==
    ASSUME InvocationsOK, NEW d \in Drainers
    PROVE  /\ drain[d] \in DrainStates
           /\ drain[d] = [pc |-> drain[d].pc, run |-> drain[d].run, gen |-> drain[d].gen,
                          stage |-> drain[d].stage, after |-> drain[d].after,
                          chunk |-> drain[d].chunk, seen |-> drain[d].seen]
           /\ drain[d].run \in 0..MaxRuns /\ drain[d].gen \in 0..MaxAttempts
           /\ drain[d].stage \in 0..4 /\ drain[d].after \in 0..NumListings
           /\ drain[d].chunk \in SUBSET Listings
           /\ drain[d].seen \in [Listings -> 0..MaxVersion]
BY DEF InvocationsOK, DrainStates

LEMMA CrawlFields ==
    ASSUME InvocationsOK
    PROVE  /\ crawl = [pc |-> crawl.pc, listings |-> crawl.listings]
           /\ crawl.listings \in SUBSET Listings
BY DEF InvocationsOK, CrawlStates

\* What INSERT OR IGNORE adds: the listings that are not items yet.
LEMMA Added ==
    ASSUME Typed, newest \in Runs, NEW added \in SUBSET Listings,
           NEW token \in [Listings -> 0..MaxVersion], AddItems(added, token)
    PROVE  /\ \A r \in Runs : \A l \in Listings :
                 LET new == r = newest /\ l \in added /\ work[r][l] = NoItem IN
                 /\ work'[r][l] = IF new THEN token[l] ELSE work[r][l]
                 /\ since'[r][l] = IF new THEN version[l] ELSE since[r][l]
                 /\ new /\ stage[r][1] # "none" => <<r, l>> \in late'
           /\ late \subseteq late'
           /\ work' \in [Runs -> [Listings -> NoItem..MaxVersion]]
           /\ since' \in [Runs -> [Listings -> 0..MaxVersion]]
           /\ late' \subseteq Runs \X Listings
<1> DEFINE new == added \ Items(newest)
<1>1. /\ new \in SUBSET Listings
      /\ \A l \in Listings : l \in new <=> l \in added /\ work[newest][l] = NoItem
  BY DEF Items
<1>2. /\ work' = [work EXCEPT ![newest] =
                     [l \in Listings |-> IF l \in new THEN token[l] ELSE @[l]]]
      /\ since' = [since EXCEPT ![newest] =
                     [l \in Listings |-> IF l \in new THEN version[l] ELSE @[l]]]
      /\ late' = IF stage[newest][1] = "none" THEN late ELSE late \cup ({newest} \X new)
  BY DEF AddItems
<1> HIDE DEF new
<1>3. /\ work \in [Runs -> [Listings -> NoItem..MaxVersion]]
      /\ since \in [Runs -> [Listings -> 0..MaxVersion]]
      /\ version \in [Listings -> 0..MaxVersion]
      /\ late \subseteq Runs \X Listings
  BY Bounds DEF Typed, TypeOK, RunsOK, ListingsOK, Versions
<1>4. work' \in [Runs -> [Listings -> NoItem..MaxVersion]]
  BY <1>2, <1>3, NoItemIsItem
<1>5. since' \in [Runs -> [Listings -> 0..MaxVersion]]
  BY <1>2, <1>3
<1>6. late' \subseteq Runs \X Listings /\ late \subseteq late'
  BY <1>1, <1>2, <1>3
<1>7. ASSUME NEW r \in Runs, NEW l \in Listings
      PROVE  /\ work'[r][l] = IF r = newest /\ l \in new THEN token[l] ELSE work[r][l]
             /\ since'[r][l] = IF r = newest /\ l \in new THEN version[l] ELSE since[r][l]
             /\ r = newest /\ l \in new /\ stage[r][1] # "none" => <<r, l>> \in late'
  BY <1>2, <1>3
<1> QED
  BY <1>1, <1>4, <1>5, <1>6, <1>7

LEMMA CrawlIsTyped ==
    ASSUME Typed, Crawling
    PROVE  Typed'
<1>1. CASE CrawlStarts
  <2>1. ListingsOK'
    BY <1>1, Bounds DEF CrawlStarts, ListingsOK, listings, Typed, TypeOK
  <2>2. RunsOK'
    BY <1>1, Bounds, CollectionAssumption DEF CrawlStarts, RunsOK, listings, Runs, Typed, TypeOK
  <2>3. InvocationsOK'
    BY <1>1, Bounds, CrawlFields DEF CrawlStarts, InvocationsOK, CrawlStates, NoCrawl, Typed, TypeOK
  <2>4. Shapes'
    <3>1. newest' \in Runs
      BY <1>1, Bounds DEF CrawlStarts, Shapes, CrawlShape, Runs, RunsOK, Typed, TypeOK
    <3>2. ASSUME NEW d \in Drainers
          PROVE  DrainShape(d)'
      BY <1>1 DEF CrawlStarts, Shapes, DrainShape, Typed
    <3> QED
      BY <1>1, <3>1, <3>2 DEF CrawlStarts, Shapes, CrawlDrainShape, CrawlShape, RefreshShape, NoDrain, Typed
  <2> QED
    BY <2>1, <2>2, <2>3, <2>4 DEF Typed, TypeOK
<1>2. ASSUME NEW l \in Listings, CrawlWrites(l)
      PROVE  Typed'
  <2>1. ListingsOK'
    BY <1>2, Bounds DEF CrawlWrites, ListingsOK, Changed, NewToken, Versions, Typed, TypeOK
  <2>2. RunsOK'
    BY <1>2, Bounds DEF CrawlWrites, RunsOK, runs, Typed, TypeOK
  <2>3. InvocationsOK'
    BY <1>2, Bounds, CrawlFields DEF CrawlWrites, InvocationsOK, CrawlStates, Typed, TypeOK
  <2>4. Shapes'
    BY <1>2, Bounds, CrawlFields DEF CrawlWrites, Shapes, DrainShape, CrawlDrainShape, CrawlShape, RefreshShape, At, runs, InStage, Typed, TypeOK, InvocationsOK
  <2> QED
    BY <2>1, <2>2, <2>3, <2>4 DEF Typed, TypeOK
<1>3. CASE CrawlWritten
  <2>1. ListingsOK'
    BY <1>3, Bounds DEF CrawlWritten, ListingsOK, listings, Typed, TypeOK
  <2>2. RunsOK'
    BY <1>3, Bounds DEF CrawlWritten, RunsOK, runs, Typed, TypeOK
  <2>3. InvocationsOK'
    BY <1>3, Bounds, CrawlFields DEF CrawlWritten, InvocationsOK, RunsOK, CrawlStates, Typed, TypeOK
  <2>4. Shapes'
    BY <1>3, Bounds, CrawlFields DEF CrawlWritten, Shapes, DrainShape, CrawlDrainShape, CrawlShape, RefreshShape, At, runs, InStage, Typed, TypeOK, InvocationsOK
  <2> QED
    BY <2>1, <2>2, <2>3, <2>4 DEF Typed, TypeOK
<1>4. CASE RecordGeneration
  <2>1. ListingsOK'
    BY <1>4, Bounds DEF RecordGeneration, ListingsOK, listings, Typed, TypeOK
  <2>2. RunsOK'
    BY <1>4, Bounds DEF RecordGeneration, RunsOK, listings, InvocationsOK, Typed, TypeOK
  <2>3. InvocationsOK'
    BY <1>4, Bounds, CrawlFields DEF RecordGeneration, InvocationsOK, CrawlStates, Goes, Typed, TypeOK
  <2>4. Shapes'
    BY <1>4, Bounds, CrawlFields DEF RecordGeneration, Shapes, DrainShape, CrawlDrainShape, CrawlShape, RefreshShape, Goes, At, listings, InStage, Typed, TypeOK, InvocationsOK
  <2> QED
    BY <2>1, <2>2, <2>3, <2>4 DEF Typed, TypeOK
<1>5. CASE RecordItems
  <2>1. ListingsOK'
    BY <1>5, Bounds DEF RecordItems, ListingsOK, listings, Typed, TypeOK
  <2>2. RunsOK'
    <3>1. AddItems(crawl.listings, pending)
      BY <1>5 DEF RecordItems
    <3>2. pending \in [Listings -> 0..MaxVersion] /\ newest \in Runs
      BY <1>5 DEF RecordItems, At, Shapes, CrawlShape, ListingsOK, Typed, TypeOK
    <3>3. /\ work' \in [Runs -> [Listings -> NoItem..MaxVersion]]
          /\ since' \in [Runs -> [Listings -> 0..MaxVersion]]
          /\ late' \subseteq Runs \X Listings
      BY <3>1, <3>2, CrawlFields, Added DEF Typed, TypeOK
    <3> QED
      BY <1>5, <3>3 DEF RecordItems, RunsOK, Typed, TypeOK
  <2>3. InvocationsOK'
    BY <1>5, Bounds, CrawlFields DEF RecordItems, InvocationsOK, CrawlStates, Goes, Typed, TypeOK
  <2>4. Shapes'
    BY <1>5, Bounds, CrawlFields DEF RecordItems, Shapes, DrainShape, CrawlDrainShape, CrawlShape, RefreshShape, Goes, At, AddItems, InStage, Typed, TypeOK, InvocationsOK
  <2> QED
    BY <2>1, <2>2, <2>3, <2>4 DEF Typed, TypeOK
<1>6. CASE RecordInherited
  <2>1. ListingsOK'
    BY <1>6, Bounds DEF RecordInherited, ListingsOK, listings, Typed, TypeOK
  <2>2. RunsOK'
    <3>1. PICK added \in SUBSET Listings : AddItems(added, AllZero)
      BY <1>6 DEF RecordInherited, Items
    <3>2. AllZero \in [Listings -> 0..MaxVersion] /\ newest \in Runs
      BY <1>6, Bounds DEF RecordInherited, AllZero, At, Shapes, CrawlShape, Typed, TypeOK
    <3>3. /\ work' \in [Runs -> [Listings -> NoItem..MaxVersion]]
          /\ since' \in [Runs -> [Listings -> 0..MaxVersion]]
          /\ late' \subseteq Runs \X Listings
      BY <3>1, <3>2, Added
    <3> QED
      BY <1>6, <3>3 DEF RecordInherited, RunsOK, Typed, TypeOK
  <2>3. InvocationsOK'
    BY <1>6, Bounds, CrawlFields DEF RecordInherited, InvocationsOK, CrawlStates, Goes, Typed, TypeOK
  <2>4. Shapes'
    BY <1>6, Bounds, CrawlFields DEF RecordInherited, Shapes, DrainShape, CrawlDrainShape, CrawlShape, RefreshShape, Goes, At, AddItems, InStage, Typed, TypeOK, InvocationsOK
  <2> QED
    BY <2>1, <2>2, <2>3, <2>4 DEF Typed, TypeOK
<1>7. CASE RecordStages
  <2>1. ListingsOK'
    BY <1>7, Bounds DEF RecordStages, ListingsOK, listings, Typed, TypeOK
  <2>2. RunsOK'
    BY <1>7, Bounds DEF RecordStages, RunsOK, listings, Typed, TypeOK
  <2>3. InvocationsOK'
    <3>1. [NoDrain EXCEPT !.pc = "next", !.run = newest, !.gen = attempts] \in DrainStates
      <4>1. NoDrain \in DrainStates
        BY NothingIsTyped
      <4>2. newest \in 0..MaxRuns /\ attempts \in 0..MaxAttempts
        BY DEF RunsOK, InvocationsOK, Typed, TypeOK
      <4> QED
        BY <4>1, <4>2 DEF DrainStates
    <3> QED
      BY <1>7, <3>1, CrawlFields DEF RecordStages, InvocationsOK, CrawlStates, Goes, Typed, TypeOK
  <2>4. Shapes'
    BY <1>7, Bounds, CrawlFields DEF RecordStages, Shapes, DrainShape, CrawlDrainShape, CrawlShape, RefreshShape, Goes, At, NoDrain, InStage, HasChunk, Drainers, RunsOK, Runs, Typed, TypeOK, InvocationsOK
  <2> QED
    BY <2>1, <2>2, <2>3, <2>4 DEF Typed, TypeOK
<1>8. CASE CrawlClears
  <2>1. ListingsOK'
    BY <1>8, Bounds DEF CrawlClears, ListingsOK, listings, Typed, TypeOK
  <2>2. RunsOK'
    BY <1>8, Bounds, NoItemIsItem DEF CrawlClears, RunsOK, Freed, listings, Typed, TypeOK
  <2>3. InvocationsOK'
    BY <1>8, Bounds, CrawlFields DEF CrawlClears, InvocationsOK, CrawlStates, Goes, Typed, TypeOK
  <2>4. Shapes'
    BY <1>8, Bounds, CrawlFields DEF CrawlClears, Shapes, DrainShape, CrawlDrainShape, CrawlShape, RefreshShape, Goes, At, InStage, Typed, TypeOK, InvocationsOK
  <2> QED
    BY <2>1, <2>2, <2>3, <2>4 DEF Typed, TypeOK
<1>9. CASE CrawlProjected
  <2>1. ListingsOK'
    BY <1>9, Bounds DEF CrawlProjected, ListingsOK, listings, Typed, TypeOK
  <2>2. RunsOK'
    BY <1>9, Bounds DEF CrawlProjected, RunsOK, Larger, listings, InvocationsOK, Typed, TypeOK
  <2>3. InvocationsOK'
    BY <1>9, Bounds, CrawlFields DEF CrawlProjected, InvocationsOK, CrawlStates, Goes, Typed, TypeOK
  <2>4. Shapes'
    BY <1>9, Bounds, CrawlFields DEF CrawlProjected, Shapes, DrainShape, CrawlDrainShape, CrawlShape, RefreshShape, Goes, At, InStage, Typed, TypeOK, InvocationsOK
  <2> QED
    BY <2>1, <2>2, <2>3, <2>4 DEF Typed, TypeOK
<1>10. CASE CrawlFinishes
  <2>1. ListingsOK'
    BY <1>10, Bounds DEF CrawlFinishes, ListingsOK, listings, Typed, TypeOK
  <2>2. RunsOK'
    BY <1>10, Bounds DEF CrawlFinishes, RunsOK, listings, Typed, TypeOK
  <2>3. InvocationsOK'
    BY <1>10, Bounds, CrawlFields DEF CrawlFinishes, InvocationsOK, CrawlStates, NoCrawl, Typed, TypeOK
  <2>4. Shapes'
    BY <1>10, Bounds, CrawlFields DEF CrawlFinishes, Shapes, DrainShape, CrawlDrainShape, CrawlShape, RefreshShape, NoCrawl, At, InStage, Typed, TypeOK, InvocationsOK
  <2> QED
    BY <2>1, <2>2, <2>3, <2>4 DEF Typed, TypeOK
<1>11. CASE CrawlMovesOn
  <2>1. ListingsOK'
    BY <1>11, Bounds DEF CrawlMovesOn, ListingsOK, listings, Typed, TypeOK
  <2>2. RunsOK'
    BY <1>11, Bounds DEF CrawlMovesOn, RunsOK, runs, Typed, TypeOK
  <2>3. InvocationsOK'
    BY <1>11, Bounds, CrawlFields DEF CrawlMovesOn, InvocationsOK, CrawlStates, Goes, Fault, Typed, TypeOK
  <2>4. Shapes'
    BY <1>11, Bounds, CrawlFields DEF CrawlMovesOn, Shapes, DrainShape, CrawlDrainShape, CrawlShape, RefreshShape, Goes, At, InStage, runs, Typed, TypeOK, InvocationsOK
  <2> QED
    BY <2>1, <2>2, <2>3, <2>4 DEF Typed, TypeOK
<1>12. CASE CrawlFails
  <2>1. ListingsOK'
    BY <1>12, Bounds DEF CrawlFails, ListingsOK, listings, Typed, TypeOK
  <2>2. RunsOK'
    BY <1>12, Bounds DEF CrawlFails, RunsOK, listings, Typed, TypeOK
  <2>3. InvocationsOK'
    BY <1>12, Bounds, CrawlFields DEF CrawlFails, InvocationsOK, CrawlStates, NoCrawl, Fault, Typed, TypeOK
  <2>4. Shapes'
    BY <1>12, Bounds, CrawlFields DEF CrawlFails, Shapes, DrainShape, CrawlDrainShape, CrawlShape, RefreshShape, NoCrawl, At, InStage, Typed, TypeOK, InvocationsOK
  <2> QED
    BY <2>1, <2>2, <2>3, <2>4 DEF Typed, TypeOK
<1>13. CASE CrawlCrashes
  <2>1. ListingsOK'
    BY <1>13, Bounds DEF CrawlCrashes, ListingsOK, listings, Typed, TypeOK
  <2>2. RunsOK'
    BY <1>13, Bounds DEF CrawlCrashes, RunsOK, runs, Typed, TypeOK
  <2>3. InvocationsOK'
    BY <1>13, Bounds, CrawlFields DEF CrawlCrashes, InvocationsOK, CrawlStates, NoCrawl, Fault, NoDrain, AllZero, DrainStates, Drainers, Typed, TypeOK
  <2>4. Shapes'
    BY <1>13, Bounds, CrawlFields DEF CrawlCrashes, Shapes, DrainShape, CrawlDrainShape, CrawlShape, RefreshShape, NoCrawl, At, NoDrain, InStage, HasChunk, Drainers, runs, Typed, TypeOK, InvocationsOK
  <2> QED
    BY <2>1, <2>2, <2>3, <2>4 DEF Typed, TypeOK
<1>14. CASE CrawlDefers
  <2>1. ListingsOK'
    BY <1>14, Bounds DEF CrawlDefers, DefersTo, ListingsOK, listings, Typed, TypeOK
  <2>2. RunsOK'
    BY <1>14, Bounds DEF CrawlDefers, DefersTo, RunsOK, runs, Typed, TypeOK
  <2>3. InvocationsOK'
    BY <1>14, Bounds, CrawlFields DEF CrawlDefers, InvocationsOK, CrawlStates, DefersTo, Goes, Fault, NoDrain, AllZero, DrainStates, Drainers, Typed, TypeOK
  <2>4. Shapes'
    BY <1>14, Bounds, CrawlFields DEF CrawlDefers, Shapes, DrainShape, CrawlDrainShape, CrawlShape, RefreshShape, DefersTo, Goes, At, NoDrain, InStage, HasChunk, Drainers, runs, Typed, TypeOK, InvocationsOK
  <2> QED
    BY <2>1, <2>2, <2>3, <2>4 DEF Typed, TypeOK
<1>15. CASE RunRecovered
  <2>1. ListingsOK'
    BY <1>15, Bounds DEF RunRecovered, ListingsOK, listings, Typed, TypeOK
  <2>2. RunsOK'
    BY <1>15, Bounds DEF RunRecovered, RunsOK, listings, Typed, TypeOK
  <2>3. InvocationsOK'
    BY <1>15, Bounds, CrawlFields DEF RunRecovered, InvocationsOK, CrawlStates, Typed, TypeOK
  <2>4. Shapes'
    BY <1>15, Bounds, CrawlFields DEF RunRecovered, Shapes, DrainShape, CrawlDrainShape, CrawlShape, RefreshShape, At, InStage, Typed, TypeOK, InvocationsOK
  <2> QED
    BY <2>1, <2>2, <2>3, <2>4 DEF Typed, TypeOK
<1> QED
  BY <1>1, <1>2, <1>3, <1>4, <1>5, <1>6, <1>7, <1>8, <1>9, <1>10, <1>11, <1>12, <1>13, <1>14, <1>15 DEF Crawling

\* A drain that moves alone keeps the types and shapes, if its new place has
\* them.
LEMMA DrainMovesTyped ==
    ASSUME Typed, ListingsOK', RunsOK', NEW d \in Drainers, NEW to \in DrainStates,
           drain' = [drain EXCEPT ![d] = to],
           newest' = newest, open' = open, crawl' = crawl, refresh' = refresh,
           attempts' = attempts, faults' \in 0..MaxFaults,
           drain'[d] = to => DrainShape(d)' /\ CrawlDrainShape'
    PROVE  Typed'
<1>1. /\ drain' \in [Drainers -> DrainStates] /\ drain'[d] = to
      /\ \A e \in Drainers : e # d => drain'[e] = drain[e]
  BY DrainMoved DEF Typed, TypeOK
<1>2. InvocationsOK'
  BY <1>1 DEF InvocationsOK, Typed, TypeOK
<1>3. Shapes'
  <2>1. ASSUME NEW e \in Drainers
        PROVE  DrainShape(e)'
    BY <1>1 DEF Shapes, DrainShape, Typed
  <2>2. CrawlShape'
    BY DEF Shapes, CrawlShape, Typed
  <2> QED
    BY <1>1, <2>1, <2>2 DEF Shapes, RefreshShape, Typed
<1> QED
  BY <1>2, <1>3 DEF Typed, TypeOK

\* Listings are written with versions and with what drains and refreshes read.
LEMMA WritesAreTyped ==
    ASSUME Typed, NEW s \in Scoped, NEW seen \in [Listings -> 0..MaxVersion],
           NEW ls \in SUBSET Listings
    PROVE  /\ Written(s, seen) => image' \in [Scoped -> [Listings -> 0..MaxVersion]]
           /\ Shown(s, ls, seen) => shown' \in [Scoped -> [Listings -> 0..MaxVersion]]
           /\ Shown(s, ls, version) => shown' \in [Scoped -> [Listings -> 0..MaxVersion]]
           /\ Synced(ls) => /\ image' \in [Scoped -> [Listings -> 0..MaxVersion]]
                            /\ shown' \in [Scoped -> [Listings -> 0..MaxVersion]]
           /\ Differing(s, ls) \in [Listings -> 0..MaxVersion]
<1>1. /\ version \in [Listings -> 0..MaxVersion]
      /\ image \in [Scoped -> [Listings -> 0..MaxVersion]]
      /\ shown \in [Scoped -> [Listings -> 0..MaxVersion]]
  BY Bounds DEF Typed, TypeOK, ListingsOK, Versions
<1>2. ASSUME NEW stg \in Scoped, NEW upTo \in [Listings -> 0..MaxVersion], Shown(stg, ls, upTo)
      PROVE  shown' \in [Scoped -> [Listings -> 0..MaxVersion]]
  BY <1>1, <1>2 DEF Shown, Larger
<1>3. ASSUME Written(s, seen)
      PROVE  image' \in [Scoped -> [Listings -> 0..MaxVersion]]
  BY <1>1, <1>3 DEF Written
<1>4. ASSUME Synced(ls)
      PROVE  /\ image' \in [Scoped -> [Listings -> 0..MaxVersion]]
             /\ shown' \in [Scoped -> [Listings -> 0..MaxVersion]]
  <2>1. Shown(Entity, ls, shown[2]) /\ Entity \in Scoped /\ 2 \in Scoped
    BY <1>4 DEF Synced, Entity, Scoped
  <2> QED
    BY <1>1, <1>2, <1>4, <2>1 DEF Synced
<1>5. Differing(s, ls) \in [Listings -> 0..MaxVersion]
  BY <1>1, Bounds DEF Differing
<1> QED
  BY <1>1, <1>2, <1>3, <1>4, <1>5

\* A drain that goes on at another place of its run.
LEMMA DrainAt ==
    ASSUME NEW x \in DrainStates, NEW after \in 0..NumListings, NEW stg \in 0..4,
           NEW pc \in {"next", "claim"}
    PROVE  [x EXCEPT !.pc = pc, !.stage = stg, !.after = after] \in DrainStates
BY DEF DrainStates

LEMMA DrainIsTyped ==
    ASSUME Typed, NEW d \in Drainers, DrainSteps(d)
    PROVE  Typed'
<1> DEFINE r == drain[d].run
           s == drain[d].stage
<1>0. /\ drain[d].pc # "idle" => r \in Runs
      /\ drain[d].pc \in InStage => s \in Stages
  BY DEF Typed, Shapes, DrainShape
<1>1. CASE DrainNext(d)
  <2>1. r \in Runs
    BY <1>0, <1>1 DEF DrainNext
  <2>2. CASE drain' = [drain EXCEPT ![d] = NoDrain] /\ crawl' = crawl
    <3>1. ListingsOK' /\ RunsOK' /\ newest' = newest
      BY <1>1 DEF DrainNext, listings, runs, ListingsOK, RunsOK, Typed, TypeOK
    <3>2. drain'[d] = NoDrain => DrainShape(d)' /\ CrawlDrainShape'
      <4>1. \A e \in Drainers : e # d => drain'[e] = drain[e]
        BY <2>2, NothingIsTyped, DrainMoved DEF Typed, TypeOK
      <4> QED
        BY <2>2, <3>1, <4>1 DEF NoDrain, DrainShape, CrawlDrainShape, Shapes, InStage, HasChunk, Drainers, Entity, Cleanup, Typed, TypeOK
    <3> QED
      BY <1>1, <2>2, <3>1, <3>2, NothingIsTyped, DrainMovesTyped
         DEF DrainNext, runs, InvocationsOK, Typed, TypeOK
  <2>3. CASE Owed(r) # {} /\ crawl' = crawl
             /\ drain' = [drain EXCEPT ![d] = [@ EXCEPT !.pc = "claim", !.stage = FirstStage(Owed(r)),
                                                       !.after = cursor[r][FirstStage(Owed(r))]]]
    <3> DEFINE first == FirstStage(Owed(r))
               to == [drain[d] EXCEPT !.pc = "claim", !.stage = first, !.after = cursor[r][first]]
    <3>1. first \in Stages
      BY <2>3, FirstStageIsFirst DEF Owed
    <3>2. cursor[r][first] \in 0..NumListings
      BY <2>1, <3>1 DEF RunsOK, Typed, TypeOK
    <3>3. to \in DrainStates
      <4> HIDE DEF first
      <4> QED
        <5>1. drain[d] \in DrainStates /\ first \in 0..4
          BY <3>1 DEF Stages, InvocationsOK, Typed, TypeOK
        <5> QED
          BY <3>2, <5>1, DrainAt
    <3>4. drain' = [drain EXCEPT ![d] = to]
      BY <2>3
    <3>5. ListingsOK' /\ RunsOK' /\ newest' = newest
      BY <1>1 DEF DrainNext, listings, runs, ListingsOK, RunsOK, Typed, TypeOK
    <3>6. to.pc = "claim" /\ to.run = r /\ to.stage \in Stages
      <4> HIDE DEF first
      <4> QED
        BY <3>1, DrainFields DEF Typed, TypeOK
    <3> HIDE DEF to
    <3>7. drain'[d] = to /\ \A e \in Drainers : e # d => drain'[e] = drain[e]
      BY <3>3, <3>4, DrainMoved DEF Typed, TypeOK
    <3>8. DrainShape(d)' /\ CrawlDrainShape'
      BY <1>1, <2>3, <3>5, <3>6, <3>7 DEF DrainNext, DrainShape, CrawlDrainShape, Shapes, InStage, HasChunk, Drainers, Entity, Cleanup, Typed, TypeOK
    <3> QED
      BY <1>1, <2>3, <3>3, <3>4, <3>5, <3>8, DrainMovesTyped
         DEF DrainNext, runs, InvocationsOK, Typed, TypeOK
  <2>4. CASE d = "crawl" /\ drain' = [drain EXCEPT ![d] = NoDrain] /\ Goes("clear") /\ At("drain")
    <3>1. ListingsOK' /\ RunsOK' /\ newest' = newest /\ open' = open
      BY <1>1 DEF DrainNext, listings, runs, ListingsOK, RunsOK, Typed, TypeOK
    <3>2. InvocationsOK'
      BY <1>1, <2>4, CrawlFields, NothingIsTyped DEF DrainNext, Goes, CrawlStates, InvocationsOK, Typed, TypeOK
    <3>3. Shapes'
      BY <1>1, <2>4, <3>1, CrawlFields DEF DrainNext, Goes, At, NoDrain, CrawlShape, RefreshShape, InvocationsOK, DrainShape, CrawlDrainShape, Shapes, InStage, HasChunk, Drainers, Entity, Cleanup, Typed, TypeOK
    <3> QED
      BY <3>1, <3>2, <3>3 DEF Typed, TypeOK
  <2>5. CASE d # "crawl" /\ Drain(d, "clear") /\ crawl' = crawl
    <3> DEFINE to == [drain[d] EXCEPT !.pc = "clear"]
    <3>1. to \in DrainStates
      BY <1>1, <2>5, Bounds, DrainFields, NothingIsTyped DEF DrainStates, Typed, TypeOK
    <3>2. drain' = [drain EXCEPT ![d] = to]
      BY <1>1, <2>5 DEF DrainNext, Drain
    <3>3. ListingsOK' /\ RunsOK'
      BY <1>1, <2>5, Bounds DEF DrainNext, listings, runs, ListingsOK, RunsOK, Typed, TypeOK
    <3>4. DrainShape(d)' /\ CrawlDrainShape'
      <4>1. drain'[d] = to /\ \A e \in Drainers : e # d => drain'[e] = drain[e]
        BY <3>1, <3>2, DrainMoved DEF Typed, TypeOK
      <4>2. newest' = newest /\ crawl' = crawl
        BY <1>1, <2>5 DEF DrainNext, runs
      <4> QED
        BY <1>1, <2>5, <4>1, <4>2, DrainFields DEF DrainNext, NoDrain, DrainShape, CrawlDrainShape, Shapes, InStage, HasChunk, Drainers, Entity, Cleanup, Typed, TypeOK
    <3> QED
      BY <1>1, <2>5, <3>1, <3>2, <3>3, <3>4, DrainMovesTyped DEF DrainNext, listings, runs, InvocationsOK, Typed, TypeOK
  <2> QED
    BY <1>1, <2>2, <2>3, <2>4, <2>5 DEF DrainNext
<1>2. CASE DrainClaim(d)
  <2>0. drain[d].pc = "claim" /\ s \in Stages /\ r \in Runs
    BY <1>0, <1>2 DEF DrainClaim, InStage
  <2>1. PICK chunk \in SUBSET Listings :
          drain' = [drain EXCEPT ![d] =
              [@ EXCEPT !.chunk = chunk,
                        !.pc = IF chunk = {} THEN "complete"
                               ELSE IF s < Entity THEN "read" ELSE "sync"]]
    <3> DEFINE source == IF s = Cleanup THEN {l \in Listings : pending[l] # 0} ELSE Items(r)
    <3>1. {l \in source : l > drain[d].after} \in SUBSET Listings
      BY DEF Items
    <3>2. FirstChunk({l \in source : l > drain[d].after}) \in SUBSET Listings
      BY DEF FirstChunk, Items
    <3> QED
      BY <1>2, <3>2 DEF DrainClaim
  <2> DEFINE pc == IF chunk = {} THEN "complete" ELSE IF s < Entity THEN "read" ELSE "sync"
             to == [drain[d] EXCEPT !.chunk = chunk, !.pc = pc]
  <2>2. to \in DrainStates
    BY <1>2, <2>0, Bounds, DrainFields, NothingIsTyped DEF DrainStates, Typed, TypeOK
  <2>3. drain' = [drain EXCEPT ![d] = to]
    BY <1>2, <2>1 DEF DrainClaim, Drain
  <2>4. ListingsOK' /\ RunsOK'
    BY <1>2, <2>0, Bounds DEF DrainClaim, listings, runs, ListingsOK, RunsOK, Typed, TypeOK
  <2>5. DrainShape(d)' /\ CrawlDrainShape'
    <3>1. drain'[d] = to /\ \A e \in Drainers : e # d => drain'[e] = drain[e]
      BY <2>2, <2>3, DrainMoved DEF Typed, TypeOK
    <3>2. newest' = newest /\ crawl' = crawl
      BY <1>2, <2>0 DEF DrainClaim, runs
    <3> QED
      <4>1. /\ to.pc \in {"complete", "read", "sync"} /\ to.run = r /\ to.stage = s /\ to.chunk = chunk
            /\ to.pc = "read" => s < Entity
            /\ to.pc = "sync" => ~ (s < Entity)
            /\ to.pc # "complete" => chunk # {}
        BY DrainFields DEF Typed, TypeOK
      <4>2. s >= Entity <=> ~ (s < Entity)
        BY <2>0 DEF Stages, Entity
      <4> HIDE DEF to, pc
      <4>3. DrainShape(d)'
        BY <2>0, <3>1, <3>2, <4>1, <4>2 DEF DrainShape, Shapes, InStage, HasChunk, Typed
      <4> QED
        BY <2>0, <3>1, <3>2, <4>1, <4>3 DEF CrawlDrainShape, Shapes, InStage, Drainers, Typed
  <2> QED
    BY <1>2, <2>0, <2>2, <2>3, <2>4, <2>5, DrainMovesTyped DEF DrainClaim, listings, runs, InvocationsOK, Typed, TypeOK
<1>3. CASE DrainRead(d)
  <2>0. drain[d].pc = "read" /\ s \in Scoped /\ r \in Runs
        /\ Differing(s, drain[d].chunk) \in [Listings -> 0..MaxVersion]
    <3>1. drain[d].pc = "read" /\ s \in Scoped /\ r \in Runs
      BY <1>0, <1>3 DEF DrainRead, InStage, Stages, Scoped, Entity, Shapes, DrainShape, Typed
    <3> QED
      BY <3>1, WritesAreTyped, DrainFields DEF Typed, TypeOK
  <2> DEFINE to == [drain[d] EXCEPT !.pc = "write", !.seen = Differing(s, drain[d].chunk)]
  <2>1. to \in DrainStates
    BY <1>3, <2>0, Bounds, DrainFields, NothingIsTyped DEF DrainStates, Typed, TypeOK
  <2>2. drain' = [drain EXCEPT ![d] = to]
    BY <1>3, <2>0 DEF DrainRead, Drain
  <2>3. ListingsOK' /\ RunsOK'
    <3>1. shown' \in [Scoped -> [Listings -> 0..MaxVersion]]
      <4>1. {l \in drain[d].chunk : image[s][l] = version[l]} \in SUBSET Listings
        BY DrainFields DEF Typed, TypeOK
      <4> QED
        BY <1>3, <2>0, <4>1, WritesAreTyped DEF DrainRead
    <3> QED
      BY <1>3, <3>1 DEF DrainRead, runs, ListingsOK, RunsOK, Typed, TypeOK
  <2>4. DrainShape(d)' /\ CrawlDrainShape'
    <3>1. drain'[d] = to /\ \A e \in Drainers : e # d => drain'[e] = drain[e]
      BY <2>1, <2>2, DrainMoved DEF Typed, TypeOK
    <3>2. newest' = newest /\ crawl' = crawl
      BY <1>3, <2>0 DEF DrainRead, runs
    <3> QED
      BY <1>3, <2>0, <3>1, <3>2, DrainFields DEF DrainRead, NoDrain, DrainShape, CrawlDrainShape, Shapes, InStage, HasChunk, Drainers, Entity, Cleanup, Typed, TypeOK
  <2> QED
    BY <1>3, <2>0, <2>1, <2>2, <2>3, <2>4, DrainMovesTyped DEF DrainRead, listings, runs, InvocationsOK, Typed, TypeOK
<1>4. CASE DrainWrite(d)
  <2>0. drain[d].pc = "write" /\ s \in Scoped /\ r \in Runs
        /\ AllZero \in [Listings -> 0..MaxVersion]
    BY <1>0, <1>4, Bounds DEF DrainWrite, AllZero, InStage, Stages, Scoped, Entity, Shapes, DrainShape, Typed
  <2> DEFINE to == [drain[d] EXCEPT !.pc = "advance", !.seen = AllZero]
  <2>1. to \in DrainStates
    BY <1>4, <2>0, Bounds, DrainFields, NothingIsTyped DEF DrainStates, Typed, TypeOK
  <2>2. drain' = [drain EXCEPT ![d] = to]
    BY <1>4, <2>0 DEF DrainWrite, Drain
  <2>3. ListingsOK' /\ RunsOK'
    <3>1. /\ shown' \in [Scoped -> [Listings -> 0..MaxVersion]]
          /\ image' \in [Scoped -> [Listings -> 0..MaxVersion]]
      BY <1>4, <2>0, DrainFields, WritesAreTyped DEF DrainWrite, Typed, TypeOK
    <3> QED
      BY <1>4, <3>1 DEF DrainWrite, runs, ListingsOK, RunsOK, Typed, TypeOK
  <2>4. DrainShape(d)' /\ CrawlDrainShape'
    <3>1. drain'[d] = to /\ \A e \in Drainers : e # d => drain'[e] = drain[e]
      BY <2>1, <2>2, DrainMoved DEF Typed, TypeOK
    <3>2. newest' = newest /\ crawl' = crawl
      BY <1>4, <2>0 DEF DrainWrite, runs
    <3> QED
      <4>1. to.pc = "advance" /\ to.run = r /\ to.stage = s /\ to.chunk = drain[d].chunk
        BY DrainFields DEF Typed, TypeOK
      <4> HIDE DEF to
      <4>2. DrainShape(d)'
        BY <1>0, <2>0, <3>1, <3>2, <4>1 DEF DrainShape, Shapes, InStage, HasChunk, Typed
      <4> QED
        BY <2>0, <3>1, <3>2, <4>1, <4>2 DEF CrawlDrainShape, Shapes, InStage, Drainers, Typed
  <2> QED
    BY <1>4, <2>0, <2>1, <2>2, <2>3, <2>4, DrainMovesTyped DEF DrainWrite, listings, runs, InvocationsOK, Typed, TypeOK
<1>5. CASE DrainSync(d)
  <2>0. drain[d].pc = "sync" /\ s \in Stages /\ r \in Runs
    BY <1>0, <1>5 DEF DrainSync, InStage
  <2> DEFINE to == [drain[d] EXCEPT !.pc = IF s = Entity THEN "acknowledge" ELSE "advance"]
  <2>1. to \in DrainStates
    BY <1>5, <2>0, Bounds, DrainFields, NothingIsTyped DEF DrainStates, Typed, TypeOK
  <2>2. drain' = [drain EXCEPT ![d] = to]
    BY <1>5, <2>0 DEF DrainSync, Drain
  <2>3. ListingsOK' /\ RunsOK'
    <3>1. PICK ls \in SUBSET Listings : Synced(ls)
      BY <1>5, DrainFields DEF DrainSync, Typed, TypeOK
    <3>2. AllZero \in [Listings -> 0..MaxVersion] /\ Entity \in Scoped
      BY Bounds DEF AllZero, Entity, Scoped
    <3>3. /\ shown' \in [Scoped -> [Listings -> 0..MaxVersion]]
          /\ image' \in [Scoped -> [Listings -> 0..MaxVersion]]
      BY <3>1, <3>2, WritesAreTyped
    <3> QED
      BY <1>5, <3>3 DEF DrainSync, runs, ListingsOK, RunsOK, Typed, TypeOK
  <2>4. DrainShape(d)' /\ CrawlDrainShape'
    <3>1. drain'[d] = to /\ \A e \in Drainers : e # d => drain'[e] = drain[e]
      BY <2>1, <2>2, DrainMoved DEF Typed, TypeOK
    <3>2. newest' = newest /\ crawl' = crawl
      BY <1>5, <2>0 DEF DrainSync, runs
    <3> QED
      BY <1>5, <2>0, <3>1, <3>2, DrainFields DEF DrainSync, NoDrain, DrainShape, CrawlDrainShape, Shapes, InStage, HasChunk, Drainers, Entity, Cleanup, Typed, TypeOK
  <2> QED
    BY <1>5, <2>0, <2>1, <2>2, <2>3, <2>4, DrainMovesTyped DEF DrainSync, listings, runs, InvocationsOK, Typed, TypeOK
<1>6. CASE DrainAcknowledge(d)
  <2>0. drain[d].pc = "acknowledge" /\ s \in Stages /\ r \in Runs
    BY <1>0, <1>6 DEF DrainAcknowledge, InStage
  <2> DEFINE to == [drain[d] EXCEPT !.pc = "advance"]
  <2>1. to \in DrainStates
    BY <1>6, <2>0, Bounds, DrainFields, NothingIsTyped DEF DrainStates, Typed, TypeOK
  <2>2. drain' = [drain EXCEPT ![d] = to]
    BY <1>6, <2>0 DEF DrainAcknowledge, Drain
  <2>3. ListingsOK' /\ RunsOK'
    BY <1>6, <2>0, Bounds DEF DrainAcknowledge, listings, runs, ListingsOK, RunsOK, Acknowledged, Typed, TypeOK
  <2>4. DrainShape(d)' /\ CrawlDrainShape'
    <3>1. drain'[d] = to /\ \A e \in Drainers : e # d => drain'[e] = drain[e]
      BY <2>1, <2>2, DrainMoved DEF Typed, TypeOK
    <3>2. newest' = newest /\ crawl' = crawl
      BY <1>6, <2>0 DEF DrainAcknowledge, runs
    <3> QED
      BY <1>6, <2>0, <3>1, <3>2, DrainFields DEF DrainAcknowledge, NoDrain, DrainShape, CrawlDrainShape, Shapes, InStage, HasChunk, Drainers, Entity, Cleanup, Typed, TypeOK
  <2> QED
    BY <1>6, <2>0, <2>1, <2>2, <2>3, <2>4, DrainMovesTyped DEF DrainAcknowledge, listings, runs, InvocationsOK, Typed, TypeOK
<1>7. CASE DrainAdvance(d)
  <2>0. drain[d].pc = "advance" /\ s \in Stages /\ r \in Runs
    BY <1>0, <1>7 DEF DrainAdvance, InStage
  <2> DEFINE last == Largest(drain[d].chunk)
  <2>5. last \in 0..NumListings
    <3>1. drain[d].chunk # {} /\ drain[d].chunk \in SUBSET Listings
      BY <2>0, DrainFields DEF HasChunk, Shapes, DrainShape, Typed, TypeOK
    <3> QED
      BY <3>1, Bounds, LargestIsLast DEF Listings
  <2> DEFINE to == [drain[d] EXCEPT !.after = last, !.chunk = {},
                    !.pc = IF Cardinality(drain[d].chunk) < Chunk THEN "complete" ELSE "claim"]
  <2>1. to \in DrainStates
    BY <1>7, <2>0, Bounds, DrainFields, NothingIsTyped, <2>5 DEF DrainStates, Typed, TypeOK
  <2>2. drain' = [drain EXCEPT ![d] = to]
    BY <1>7, <2>0 DEF DrainAdvance, Drain
  <2>3. ListingsOK' /\ RunsOK'
    <3>1. cursor' \in [Runs -> [Stages -> 0..NumListings]]
      BY <1>7, <2>0, <2>5 DEF DrainAdvance, RunsOK, Typed, TypeOK
    <3> QED
      BY <1>7, <3>1 DEF DrainAdvance, listings, ListingsOK, RunsOK, Typed, TypeOK
  <2>4. DrainShape(d)' /\ CrawlDrainShape'
    <3>1. drain'[d] = to /\ \A e \in Drainers : e # d => drain'[e] = drain[e]
      BY <2>1, <2>2, DrainMoved DEF Typed, TypeOK
    <3>2. newest' = newest /\ crawl' = crawl
      BY <1>7, <2>0 DEF DrainAdvance, runs
    <3> QED
      BY <1>7, <2>0, <3>1, <3>2, DrainFields DEF DrainAdvance, NoDrain, DrainShape, CrawlDrainShape, Shapes, InStage, HasChunk, Drainers, Entity, Cleanup, Typed, TypeOK
  <2> QED
    BY <1>7, <2>0, <2>1, <2>2, <2>3, <2>4, DrainMovesTyped DEF DrainAdvance, listings, runs, InvocationsOK, Typed, TypeOK
<1>8. CASE DrainComplete(d)
  <2>0. drain[d].pc = "complete" /\ s \in Stages /\ r \in Runs
    BY <1>0, <1>8 DEF DrainComplete, InStage
  <2> DEFINE to == [drain[d] EXCEPT !.pc = "next", !.stage = 0, !.after = 0]
  <2>1. to \in DrainStates
    <3>1. drain[d] \in DrainStates /\ 0 \in 0..NumListings
      BY Bounds DEF InvocationsOK, Typed, TypeOK
    <3>2. 0 \in 0..4
      OBVIOUS
    <3> QED
      BY <3>1, <3>2, DrainAt
  <2>2. drain' = [drain EXCEPT ![d] = to]
    BY <1>8, <2>0 DEF DrainComplete, Drain
  <2>3. ListingsOK' /\ RunsOK'
    BY <1>8, <2>0, Bounds DEF DrainComplete, listings, runs, ListingsOK, RunsOK, Typed, TypeOK
  <2>4. DrainShape(d)' /\ CrawlDrainShape'
    <3>1. drain'[d] = to /\ \A e \in Drainers : e # d => drain'[e] = drain[e]
      BY <2>1, <2>2, DrainMoved DEF Typed, TypeOK
    <3>2. newest' = newest /\ crawl' = crawl
      BY <1>8, <2>0 DEF DrainComplete, runs
    <3> QED
      BY <1>8, <2>0, <3>1, <3>2, DrainFields DEF DrainComplete, NoDrain, DrainShape, CrawlDrainShape, Shapes, InStage, HasChunk, Drainers, Entity, Cleanup, Typed, TypeOK
  <2> QED
    BY <1>8, <2>0, <2>1, <2>2, <2>3, <2>4, DrainMovesTyped DEF DrainComplete, listings, runs, InvocationsOK, Typed, TypeOK
<1> QED
  BY <1>1, <1>2, <1>3, <1>4, <1>5, <1>6, <1>7, <1>8 DEF DrainSteps

LEMMA SweepIsTyped ==
    ASSUME Typed, Sweeping
    PROVE  Typed'
<1> DEFINE d == "sweep"
<1>0. d \in Drainers
  BY DEF Drainers
<1>1. ASSUME NEW r \in Runs, SweepBegins(r)
      PROVE  Typed'
  <2> DEFINE to == [NoDrain EXCEPT !.pc = "newer", !.run = r, !.gen = generation[r]]
  <2>1. to \in DrainStates
    <3>1. NoDrain \in DrainStates /\ r \in Runs /\ generation[r] \in 0..MaxAttempts /\ r \in 0..MaxRuns
      BY Bounds, NothingIsTyped DEF Runs, RunsOK, Typed, TypeOK
    <3> QED
      BY <3>1 DEF DrainStates
  <2>2. drain' = [drain EXCEPT !["sweep"] = to]
    BY <1>1 DEF SweepBegins, Drain, NoDrain
  <2>3. ListingsOK' /\ RunsOK'
    BY <1>1, Bounds, NoItemIsItem DEF SweepBegins, listings, runs, ListingsOK, RunsOK, InvocationsOK, Typed, TypeOK
  <2>4. to.pc = "newer" /\ to.run \in Runs
    BY <1>1, <1>0, DrainFields DEF SweepBegins, NoDrain, DrainShape, Shapes, Typed, TypeOK
  <2>5. newest' = newest /\ open' = open /\ crawl' = crawl /\ refresh' = refresh
        /\ attempts' = attempts /\ faults' \in 0..MaxFaults
    BY <1>1, Bounds DEF SweepBegins, Fault, runs, InvocationsOK, Typed, TypeOK
  <2> HIDE DEF to
  <2>6. drain'[d] = to => DrainShape(d)' /\ CrawlDrainShape'
    <3>1. \A e \in Drainers : e # "sweep" => drain'[e] = drain[e]
      BY <1>0, <2>1, <2>2, DrainMoved DEF Typed, TypeOK
    <3> QED
      BY <1>0, <2>4, <2>5, <3>1 DEF NoDrain, DrainShape, CrawlDrainShape, Shapes, InStage, HasChunk, Drainers, Typed, TypeOK
  <2> QED
    BY <1>0, <2>1, <2>2, <2>3, <2>5, <2>6, DrainMovesTyped
<1>2. CASE SweepChecksNewer
  <2> DEFINE to == [drain["sweep"] EXCEPT !.pc = IF Newer(drain["sweep"].run) THEN "supersede" ELSE "next"]
  <2>1. to \in DrainStates
    BY <1>0, DrainFields DEF DrainStates, Typed, TypeOK
  <2>2. drain' = [drain EXCEPT !["sweep"] = to]
    BY <1>2 DEF SweepChecksNewer, Drain, NoDrain
  <2>3. ListingsOK' /\ RunsOK'
    BY <1>2, Bounds, NoItemIsItem DEF SweepChecksNewer, listings, runs, ListingsOK, RunsOK, InvocationsOK, Typed, TypeOK
  <2>4. to.pc \in {"supersede", "next"} /\ to.run \in Runs
    BY <1>2, <1>0, DrainFields DEF SweepChecksNewer, NoDrain, DrainShape, Shapes, Typed, TypeOK
  <2>5. newest' = newest /\ open' = open /\ crawl' = crawl /\ refresh' = refresh
        /\ attempts' = attempts /\ faults' \in 0..MaxFaults
    BY <1>2, Bounds DEF SweepChecksNewer, Fault, runs, InvocationsOK, Typed, TypeOK
  <2> HIDE DEF to
  <2>6. drain'[d] = to => DrainShape(d)' /\ CrawlDrainShape'
    <3>1. \A e \in Drainers : e # "sweep" => drain'[e] = drain[e]
      BY <1>0, <2>1, <2>2, DrainMoved DEF Typed, TypeOK
    <3> QED
      BY <1>0, <2>4, <2>5, <3>1 DEF NoDrain, DrainShape, CrawlDrainShape, Shapes, InStage, HasChunk, Drainers, Typed, TypeOK
  <2> QED
    BY <1>0, <2>1, <2>2, <2>3, <2>5, <2>6, DrainMovesTyped
<1>3. CASE SweepSupersedes
  <2> DEFINE to == [drain["sweep"] EXCEPT !.pc = "drop"]
  <2>1. to \in DrainStates
    BY <1>0, DrainFields DEF DrainStates, Typed, TypeOK
  <2>2. drain' = [drain EXCEPT !["sweep"] = to]
    BY <1>3 DEF SweepSupersedes, Drain, NoDrain
  <2>3. ListingsOK' /\ RunsOK'
    BY <1>3, Bounds, NoItemIsItem DEF SweepSupersedes, listings, runs, ListingsOK, RunsOK, InvocationsOK, Typed, TypeOK
  <2>4. to.pc = "drop" /\ to.run \in Runs
    BY <1>3, <1>0, DrainFields DEF SweepSupersedes, NoDrain, DrainShape, Shapes, Typed, TypeOK
  <2>5. newest' = newest /\ open' = open /\ crawl' = crawl /\ refresh' = refresh
        /\ attempts' = attempts /\ faults' \in 0..MaxFaults
    BY <1>3, Bounds DEF SweepSupersedes, Fault, runs, InvocationsOK, Typed, TypeOK
  <2> HIDE DEF to
  <2>6. drain'[d] = to => DrainShape(d)' /\ CrawlDrainShape'
    <3>1. \A e \in Drainers : e # "sweep" => drain'[e] = drain[e]
      BY <1>0, <2>1, <2>2, DrainMoved DEF Typed, TypeOK
    <3> QED
      BY <1>0, <2>4, <2>5, <3>1 DEF NoDrain, DrainShape, CrawlDrainShape, Shapes, InStage, HasChunk, Drainers, Typed, TypeOK
  <2> QED
    BY <1>0, <2>1, <2>2, <2>3, <2>5, <2>6, DrainMovesTyped
<1>4. CASE SweepDrops
  <2> DEFINE to == NoDrain
  <2>1. to \in DrainStates
    BY NothingIsTyped
  <2>2. drain' = [drain EXCEPT !["sweep"] = to]
    BY <1>4 DEF SweepDrops, Drain, NoDrain
  <2>3. ListingsOK' /\ RunsOK'
    BY <1>4, Bounds, NoItemIsItem DEF SweepDrops, Freed, listings, runs, ListingsOK, RunsOK, InvocationsOK, Typed, TypeOK
  <2>4. to = NoDrain
    BY <1>4, <1>0, DrainFields DEF SweepDrops, NoDrain, DrainShape, Shapes, Typed, TypeOK
  <2>5. newest' = newest /\ open' = open /\ crawl' = crawl /\ refresh' = refresh
        /\ attempts' = attempts /\ faults' \in 0..MaxFaults
    BY <1>4, Bounds DEF SweepDrops, Fault, runs, InvocationsOK, Typed, TypeOK
  <2> HIDE DEF to
  <2>6. drain'[d] = to => DrainShape(d)' /\ CrawlDrainShape'
    <3>1. \A e \in Drainers : e # "sweep" => drain'[e] = drain[e]
      BY <1>0, <2>1, <2>2, DrainMoved DEF Typed, TypeOK
    <3> QED
      BY <1>0, <2>4, <2>5, <3>1 DEF NoDrain, DrainShape, CrawlDrainShape, Shapes, InStage, HasChunk, Drainers, Typed, TypeOK
  <2> QED
    BY <1>0, <2>1, <2>2, <2>3, <2>5, <2>6, DrainMovesTyped
<1>5. CASE SweepClears
  <2> DEFINE to == [drain["sweep"] EXCEPT !.pc = "project"]
  <2>1. to \in DrainStates
    BY <1>0, DrainFields DEF DrainStates, Typed, TypeOK
  <2>2. drain' = [drain EXCEPT !["sweep"] = to]
    BY <1>5 DEF SweepClears, Drain, NoDrain
  <2>3. ListingsOK' /\ RunsOK'
    BY <1>5, Bounds, NoItemIsItem DEF SweepClears, Freed, listings, runs, ListingsOK, RunsOK, InvocationsOK, Typed, TypeOK
  <2>4. to.pc = "project" /\ to.run \in Runs
    BY <1>5, <1>0, DrainFields DEF SweepClears, NoDrain, DrainShape, Shapes, Typed, TypeOK
  <2>5. newest' = newest /\ open' = open /\ crawl' = crawl /\ refresh' = refresh
        /\ attempts' = attempts /\ faults' \in 0..MaxFaults
    BY <1>5, Bounds DEF SweepClears, Fault, runs, InvocationsOK, Typed, TypeOK
  <2> HIDE DEF to
  <2>6. drain'[d] = to => DrainShape(d)' /\ CrawlDrainShape'
    <3>1. \A e \in Drainers : e # "sweep" => drain'[e] = drain[e]
      BY <1>0, <2>1, <2>2, DrainMoved DEF Typed, TypeOK
    <3> QED
      BY <1>0, <2>4, <2>5, <3>1 DEF NoDrain, DrainShape, CrawlDrainShape, Shapes, InStage, HasChunk, Drainers, Typed, TypeOK
  <2> QED
    BY <1>0, <2>1, <2>2, <2>3, <2>5, <2>6, DrainMovesTyped
<1>6. CASE SweepProjected
  <2> DEFINE to == NoDrain
  <2>1. to \in DrainStates
    BY NothingIsTyped
  <2>2. drain' = [drain EXCEPT !["sweep"] = to]
    BY <1>6 DEF SweepProjected, Drain, NoDrain
  <2>3. ListingsOK' /\ RunsOK'
    <3>1. watermark' \in 0..MaxAttempts
      BY <1>0, <1>6, DrainFields DEF SweepProjected, Larger, RunsOK, Typed, TypeOK
    <3> QED
      BY <1>6, <3>1 DEF SweepProjected, listings, ListingsOK, RunsOK, Typed, TypeOK
  <2>4. to = NoDrain
    BY <1>6, <1>0, DrainFields DEF SweepProjected, NoDrain, DrainShape, Shapes, Typed, TypeOK
  <2>5. newest' = newest /\ open' = open /\ crawl' = crawl /\ refresh' = refresh
        /\ attempts' = attempts /\ faults' \in 0..MaxFaults
    BY <1>6, Bounds DEF SweepProjected, Fault, runs, InvocationsOK, Typed, TypeOK
  <2> HIDE DEF to
  <2>6. drain'[d] = to => DrainShape(d)' /\ CrawlDrainShape'
    <3>1. \A e \in Drainers : e # "sweep" => drain'[e] = drain[e]
      BY <1>0, <2>1, <2>2, DrainMoved DEF Typed, TypeOK
    <3> QED
      BY <1>0, <2>4, <2>5, <3>1 DEF NoDrain, DrainShape, CrawlDrainShape, Shapes, InStage, HasChunk, Drainers, Typed, TypeOK
  <2> QED
    BY <1>0, <2>1, <2>2, <2>3, <2>5, <2>6, DrainMovesTyped
<1>7. CASE SweepStops
  <2> DEFINE to == NoDrain
  <2>1. to \in DrainStates
    BY NothingIsTyped
  <2>2. drain' = [drain EXCEPT !["sweep"] = to]
    BY <1>7 DEF SweepStops, Drain, NoDrain
  <2>3. ListingsOK' /\ RunsOK'
    BY <1>7, Bounds, NoItemIsItem DEF SweepStops, listings, runs, ListingsOK, RunsOK, InvocationsOK, Typed, TypeOK
  <2>4. to = NoDrain
    BY <1>7, <1>0, DrainFields DEF SweepStops, NoDrain, DrainShape, Shapes, Typed, TypeOK
  <2>5. newest' = newest /\ open' = open /\ crawl' = crawl /\ refresh' = refresh
        /\ attempts' = attempts /\ faults' \in 0..MaxFaults
    BY <1>7, Bounds DEF SweepStops, Fault, runs, InvocationsOK, Typed, TypeOK
  <2> HIDE DEF to
  <2>6. drain'[d] = to => DrainShape(d)' /\ CrawlDrainShape'
    <3>1. \A e \in Drainers : e # "sweep" => drain'[e] = drain[e]
      BY <1>0, <2>1, <2>2, DrainMoved DEF Typed, TypeOK
    <3> QED
      BY <1>0, <2>4, <2>5, <3>1 DEF NoDrain, DrainShape, CrawlDrainShape, Shapes, InStage, HasChunk, Drainers, Typed, TypeOK
  <2> QED
    BY <1>0, <2>1, <2>2, <2>3, <2>5, <2>6, DrainMovesTyped
<1> QED
  BY <1>1, <1>2, <1>3, <1>4, <1>5, <1>6, <1>7 DEF Sweeping, SweepSteps

LEMMA EditIsTyped ==
    ASSUME Typed, NEW l \in Listings, Edit(l)
    PROVE  Typed'
<1>1. ListingsOK'
  BY Bounds DEF Edit, Changed, NewToken, Versions, ListingsOK, Typed, TypeOK
<1>2. RunsOK' /\ InvocationsOK'
  BY DEF Edit, runs, RunsOK, InvocationsOK, Typed, TypeOK
<1>3. Shapes'
  BY DEF Edit, runs, Shapes, DrainShape, CrawlDrainShape, CrawlShape, RefreshShape, Typed
<1> QED
  BY <1>1, <1>2, <1>3 DEF Typed, TypeOK

LEMMA RefreshFields ==
    ASSUME InvocationsOK, NEW f \in Refreshers
    PROVE  /\ refresh[f] \in RefreshStates
           /\ refresh[f].listing \in 0..NumListings /\ refresh[f].token \in 0..MaxVersion
           /\ refresh[f].stage \in 0..2 /\ refresh[f].seen \in 0..MaxVersion
BY DEF InvocationsOK, RefreshStates

\* Where a refresh stands after its second write, or its first.
LEMMA RefreshGoesOn ==
    ASSUME NEW x \in RefreshStates
    PROVE  /\ [x EXCEPT !.pc = "read", !.stage = 2, !.seen = 0] \in RefreshStates
           /\ [x EXCEPT !.pc = "sync", !.seen = 0] \in RefreshStates
           /\ [x EXCEPT !.pc = "read", !.stage = 2, !.seen = 0].listing = x.listing
           /\ [x EXCEPT !.pc = "read", !.stage = 2, !.seen = 0].stage = 2
           /\ [x EXCEPT !.pc = "sync", !.seen = 0].listing = x.listing
           /\ [x EXCEPT !.pc = "sync", !.seen = 0].stage = x.stage
<1>1. 0 \in 0..MaxVersion /\ 2 \in 0..2
  BY Bounds
<1>2. [x EXCEPT !.pc = "read", !.stage = 2, !.seen = 0] \in RefreshStates
  BY <1>1 DEF RefreshStates
<1>3. [x EXCEPT !.pc = "sync", !.seen = 0] \in RefreshStates
  BY <1>1 DEF RefreshStates
<1> QED
  BY <1>2, <1>3 DEF RefreshStates

\* A refresh that moves alone keeps the types and shapes, if its new place
\* has them.
LEMMA RefreshMovesTyped ==
    ASSUME Typed, ListingsOK', UNCHANGED <<runs, crawl, drain, attempts>>, faults' \in 0..MaxFaults,
           NEW f \in Refreshers, NEW to \in RefreshStates,
           refresh' = [refresh EXCEPT ![f] = to],
           to.pc # "idle" => to.listing \in Listings /\ to.stage \in {1, 2}
    PROVE  Typed'
<1>1. /\ refresh' \in [Refreshers -> RefreshStates] /\ refresh'[f] = to
      /\ \A g \in Refreshers : g # f => refresh'[g] = refresh[g]
  BY DEF InvocationsOK, Typed, TypeOK
<1>2. RunsOK' /\ InvocationsOK'
  BY <1>1 DEF runs, RunsOK, InvocationsOK, Typed, TypeOK
<1>3. Shapes'
  BY <1>1 DEF runs, Shapes, DrainShape, CrawlDrainShape, CrawlShape, RefreshShape, Typed
<1> QED
  BY <1>2, <1>3 DEF Typed, TypeOK

LEMMA RefreshIsTyped ==
    ASSUME Typed, NEW f \in Refreshers, Refreshing(f)
    PROVE  Typed'
<1>0. /\ refresh[f] \in RefreshStates
      /\ refresh[f].pc # "idle" => refresh[f].listing \in Listings /\ refresh[f].stage \in {1, 2}
  BY RefreshFields DEF Shapes, RefreshShape, Typed, TypeOK
<1>1. ASSUME NEW l \in Listings, RefreshBegins(f, l)
      PROVE  Typed'
  <2> DEFINE to == [pc |-> "read", listing |-> l, token |-> pending[l], stage |-> 1, seen |-> 0]
  <2>1. to \in RefreshStates
    BY Bounds DEF RefreshStates, Listings, ListingsOK, Typed, TypeOK
  <2>2. ListingsOK' /\ faults' \in 0..MaxFaults
    BY <1>1 DEF RefreshBegins, listings, ListingsOK, InvocationsOK, Typed, TypeOK
  <2> QED
    BY <1>1, <2>1, <2>2, RefreshMovesTyped DEF RefreshBegins
<1>2. CASE RefreshReads(f)
  <2> DEFINE l == refresh[f].listing
             s == refresh[f].stage
             seen == Differing(s, {l})[l]
             to == [refresh[f] EXCEPT !.pc = "write", !.seen = seen]
  <2>1. l \in Listings /\ s \in Scoped /\ {l} \in SUBSET Listings /\ s \in {1, 2}
    BY <1>0, <1>2 DEF RefreshReads, Scoped
  <2>2. AllZero \in [Listings -> 0..MaxVersion]
    BY Bounds DEF AllZero
  <2>3. seen \in 0..MaxVersion
    BY <2>1, <2>2, WritesAreTyped
  <2>4. to \in RefreshStates /\ to.listing = l /\ to.stage = s
    <3> HIDE DEF seen
    <3> QED
      BY <1>0, <2>3 DEF RefreshStates
  <2>5. refresh' = [refresh EXCEPT ![f] = to]
    BY <1>2 DEF RefreshReads
  <2>6. ListingsOK'
    <3>1. {x \in {l} : image[s][x] = version[x]} \in SUBSET Listings
      BY <2>1
    <3>2. Shown(s, {x \in {l} : image[s][x] = version[x]}, version)
      BY <1>2 DEF RefreshReads
    <3>3. shown' \in [Scoped -> [Listings -> 0..MaxVersion]]
      BY <2>1, <2>2, <3>1, <3>2, WritesAreTyped
    <3> QED
      BY <1>2, <3>3 DEF RefreshReads, ListingsOK, Typed, TypeOK
  <2> HIDE DEF to
  <2> QED
    BY <1>2, <2>1, <2>4, <2>5, <2>6, RefreshMovesTyped DEF RefreshReads, InvocationsOK, Typed, TypeOK
<1>3. CASE RefreshWrites(f)
  <2> DEFINE l == refresh[f].listing
             s == refresh[f].stage
             seen == [AllZero EXCEPT ![l] = refresh[f].seen]
             to == IF s = 1 THEN [refresh[f] EXCEPT !.pc = "read", !.stage = 2, !.seen = 0]
                   ELSE [refresh[f] EXCEPT !.pc = "sync", !.seen = 0]
  <2>1. l \in Listings /\ s \in Scoped /\ {l} \in SUBSET Listings /\ s \in {1, 2}
    BY <1>0, <1>3 DEF RefreshWrites, Scoped
  <2>2. seen \in [Listings -> 0..MaxVersion]
    <3>1. AllZero \in [Listings -> 0..MaxVersion]
      BY Bounds DEF AllZero
    <3>2. refresh[f].seen \in 0..MaxVersion
      BY RefreshFields DEF Typed, TypeOK
    <3> QED
      BY <3>1, <3>2
  <2>3. to \in RefreshStates /\ to.listing = l /\ to.stage \in {1, 2}
    BY <1>0, <2>1, RefreshGoesOn
  <2>4. refresh' = [refresh EXCEPT ![f] = to]
    BY <1>3 DEF RefreshWrites
  <2>5. ListingsOK'
    <3>1. Written(s, seen) /\ Shown(s, {l}, seen)
      BY <1>3 DEF RefreshWrites
    <3>2. /\ shown' \in [Scoped -> [Listings -> 0..MaxVersion]]
          /\ image' \in [Scoped -> [Listings -> 0..MaxVersion]]
      <4> HIDE DEF seen
      <4> QED
        BY <2>1, <2>2, <3>1, WritesAreTyped
    <3> QED
      BY <1>3, <3>2 DEF RefreshWrites, ListingsOK, Typed, TypeOK
  <2> HIDE DEF to
  <2> QED
    BY <1>3, <2>1, <2>3, <2>4, <2>5, RefreshMovesTyped DEF RefreshWrites, InvocationsOK, Typed, TypeOK
<1>4. CASE RefreshSyncs(f)
  <2> DEFINE to == [refresh[f] EXCEPT !.pc = "acknowledge"]
  <2>1. to \in RefreshStates /\ to.listing = refresh[f].listing /\ to.stage = refresh[f].stage
    BY <1>0 DEF RefreshStates
  <2>2. refresh' = [refresh EXCEPT ![f] = to]
    BY <1>4 DEF RefreshSyncs
  <2>3. ListingsOK'
    <3>1. /\ {refresh[f].listing} \in SUBSET Listings /\ AllZero \in [Listings -> 0..MaxVersion]
          /\ Entity \in Scoped
      BY <1>0, <1>4, Bounds DEF RefreshSyncs, AllZero, Entity, Scoped
    <3>2. /\ shown' \in [Scoped -> [Listings -> 0..MaxVersion]]
          /\ image' \in [Scoped -> [Listings -> 0..MaxVersion]]
      BY <1>4, <3>1, WritesAreTyped DEF RefreshSyncs
    <3> QED
      BY <1>4, <3>2 DEF RefreshSyncs, ListingsOK, Typed, TypeOK
  <2> HIDE DEF to
  <2> QED
    BY <1>0, <1>4, <2>1, <2>2, <2>3, RefreshMovesTyped DEF RefreshSyncs, InvocationsOK, Typed, TypeOK
<1>5. CASE RefreshAcknowledges(f)
  <2>1. ListingsOK'
    BY <1>5, Bounds DEF RefreshAcknowledges, Acknowledged, ListingsOK, Typed, TypeOK
  <2>2. NoRefresh.pc = "idle"
    BY DEF NoRefresh
  <2> QED
    BY <1>5, <2>1, <2>2, NothingIsTyped, RefreshMovesTyped DEF RefreshAcknowledges, InvocationsOK, Typed, TypeOK
<1>6. CASE RefreshFails(f)
  <2>1. ListingsOK' /\ faults' \in 0..MaxFaults
    BY <1>6, Bounds DEF RefreshFails, Fault, listings, ListingsOK, InvocationsOK, Typed, TypeOK
  <2>2. NoRefresh.pc = "idle"
    BY DEF NoRefresh
  <2> QED
    BY <1>6, <2>1, <2>2, NothingIsTyped, RefreshMovesTyped DEF RefreshFails
<1> QED
  BY <1>1, <1>2, <1>3, <1>4, <1>5, <1>6 DEF Refreshing, RefreshSteps

LEMMA TypedStep == Typed /\ [Next]_vars => Typed'
<1> SUFFICES ASSUME Typed, [Next]_vars
             PROVE  Typed'
  OBVIOUS
<1>1. CASE UNCHANGED vars
  BY <1>1 DEF vars, Typed, TypeOK, ListingsOK, RunsOK, InvocationsOK, Shapes, DrainShape,
              CrawlDrainShape, CrawlShape, RefreshShape
<1> QED
  BY <1>1, EditIsTyped, CrawlIsTyped, DrainIsTyped, SweepIsTyped, RefreshIsTyped DEF Next

(***************************************************************************)
(* What the steps of a drain do, element by element.                       *)
(***************************************************************************)

Alone(d) == \A e \in Drainers : e # d => drain'[e] = drain[e]

\* Where a drain was put.
LEMMA DrainPut ==
    ASSUME Typed, NEW d \in Drainers, NEW to, drain' = [drain EXCEPT ![d] = to]
    PROVE  drain'[d] = to /\ Alone(d)
BY DEF Alone, InvocationsOK, Typed, TypeOK

SameRun(d) ==
    /\ drain'[d].run = drain[d].run
    /\ drain'[d].gen = drain[d].gen

SameStage(d) ==
    /\ SameRun(d)
    /\ drain'[d].stage = drain[d].stage
    /\ drain'[d].after = drain[d].after

\* The invocation alone moved, to another call of the same stage.
LEMMA DrainGoes ==
    ASSUME Typed, NEW d \in Drainers, NEW pc, Drain(d, pc)
    PROVE  /\ Alone(d) /\ SameStage(d)
           /\ drain'[d].pc = pc /\ drain'[d].chunk = drain[d].chunk
           /\ drain'[d].seen = drain[d].seen
<1>1. drain'[d] = [drain[d] EXCEPT !.pc = pc] /\ Alone(d)
  BY DrainPut DEF Drain
<1> QED
  BY <1>1, DrainFields DEF SameStage, SameRun, DrainStates, Typed, TypeOK

\* A drain goes on with its run's first stage that is owed, or is done with it.
GoesOn(d) ==
    LET r == drain[d].run IN
    \/ drain'[d] = NoDrain /\ crawl' = crawl
    \/ /\ d = "crawl" /\ drain'[d] = NoDrain /\ Owed(r) = {}
       /\ Goes("clear") /\ At("drain")
    \/ /\ d = "sweep" /\ Owed(r) = {} /\ crawl' = crawl
       /\ drain'[d].pc = "clear" /\ SameRun(d) /\ drain'[d].seen = drain[d].seen
    \/ /\ crawl' = crawl /\ drain'[d].pc = "claim" /\ SameRun(d)
       /\ drain'[d].seen = drain[d].seen
       /\ drain'[d].stage \in Owed(r)
       /\ \A s \in Owed(r) : drain'[d].stage <= s
       /\ drain'[d].after = cursor[r][drain'[d].stage]

LEMMA DrainNextDoes ==
    ASSUME Typed, NEW d \in Drainers, DrainNext(d)
    PROVE  /\ UNCHANGED <<listings, runs, refresh, attempts, faults>>
           /\ Alone(d) /\ drain[d].run \in Runs /\ drain[d].pc = "next"
           /\ GoesOn(d)
<1> DEFINE r == drain[d].run
           first == FirstStage(Owed(r))
<1>1. /\ UNCHANGED <<listings, runs, refresh, attempts, faults>>
      /\ r \in Runs /\ drain[d].pc = "next"
  BY DEF DrainNext, Typed, Shapes, DrainShape
<1>2. CASE /\ drain' = [drain EXCEPT ![d] = NoDrain]
           /\ crawl' = crawl \/ (d = "crawl" /\ Owed(r) = {} /\ Goes("clear") /\ At("drain"))
  <2>1. drain'[d] = NoDrain /\ Alone(d)
    BY <1>2, DrainPut
  <2> QED
    BY <1>1, <1>2, <2>1 DEF GoesOn
<1>3. CASE d = "sweep" /\ Owed(r) = {} /\ Drain(d, "clear") /\ crawl' = crawl
  BY <1>1, <1>3, DrainGoes DEF SameStage, GoesOn
<1>4. CASE Owed(r) # {} /\ crawl' = crawl
           /\ drain' = [drain EXCEPT ![d] = [@ EXCEPT !.pc = "claim", !.stage = first,
                                                     !.after = cursor[r][first]]]
  <2>1. first \in Owed(r) /\ \A s \in Owed(r) : first <= s
    BY <1>4, FirstStageIsFirst DEF Owed
  <2> HIDE DEF first
  <2>2. drain'[d] = [drain[d] EXCEPT !.pc = "claim", !.stage = first, !.after = cursor[r][first]]
        /\ Alone(d)
    BY <1>4, DrainPut
  <2>3. /\ drain'[d].pc = "claim" /\ drain'[d].stage = first
        /\ drain'[d].after = cursor[r][first] /\ SameRun(d)
        /\ drain'[d].seen = drain[d].seen
    BY <2>2, DrainFields DEF SameRun, DrainStates, Typed, TypeOK
  <2> QED
    BY <1>1, <1>4, <2>1, <2>2, <2>3 DEF GoesOn
<1> QED
  BY <1>2, <1>3, <1>4 DEF DrainNext, Drainers

LEMMA DrainClaimDoes ==
    ASSUME Typed, NEW d \in Drainers, DrainClaim(d)
    PROVE  LET r == drain[d].run
               s == drain[d].stage
               chunk == drain'[d].chunk
               ahead(l) == IF s = Cleanup THEN pending[l] # 0 /\ l > drain[d].after
                           ELSE l \in Items(r) /\ l > drain[d].after
           IN
           /\ UNCHANGED <<listings, runs, crawl, refresh, attempts, faults>>
           /\ Alone(d) /\ SameStage(d) /\ drain[d].pc = "claim" /\ r \in Runs /\ s \in Stages
           /\ drain'[d].pc = IF chunk = {} THEN "complete" ELSE IF s < Entity THEN "read" ELSE "sync"
           /\ drain'[d].seen = drain[d].seen
           /\ chunk \in SUBSET Listings
           /\ \A l \in chunk : ahead(l)
           /\ \A l \in Listings : ahead(l) /\ l \notin chunk =>
                 /\ chunk # {} /\ ~ (Cardinality(chunk) < Chunk)
                 /\ \A y \in chunk : y < l
<1> DEFINE r == drain[d].run
           s == drain[d].stage
           source == {l \in IF s = Cleanup THEN {l \in Listings : pending[l] # 0} ELSE Items(r) :
                        l > drain[d].after}
           first == FirstChunk(source)
           pc == IF first = {} THEN "complete" ELSE IF s < Entity THEN "read" ELSE "sync"
<1>1. UNCHANGED <<listings, runs, crawl, refresh, attempts, faults>> /\ drain[d].pc = "claim"
  BY DEF DrainClaim
<1>2. r \in Runs /\ s \in Stages
  BY <1>1 DEF InStage, Typed, Shapes, DrainShape
<1>3. drain' = [drain EXCEPT ![d] = [@ EXCEPT !.chunk = first, !.pc = pc]]
  BY DEF DrainClaim
<1>4. source \in SUBSET Listings
  BY DEF Items
<1>5. \A l \in Listings : l \in source <=>
         (IF s = Cleanup THEN pending[l] # 0 /\ l > drain[d].after
          ELSE l \in Items(r) /\ l > drain[d].after)
  BY DEF Items
<1> HIDE DEF source
<1>6. /\ first \subseteq source
      /\ \A x \in source : \A y \in first : x <= y => x \in first
      /\ Cardinality(first) < Chunk => first = source
      /\ first = {} => source = {}
  BY <1>4, ChunkIsFirst
<1> HIDE DEF first
<1>7. drain'[d] = [drain[d] EXCEPT !.chunk = first, !.pc = pc] /\ Alone(d)
  BY <1>3, DrainPut
<1>8. /\ drain'[d].chunk = first /\ drain'[d].pc = pc /\ SameStage(d)
      /\ drain'[d].seen = drain[d].seen
  BY <1>7, DrainFields DEF SameStage, SameRun, DrainStates, Typed, TypeOK
<1>9. ASSUME NEW l \in Listings, l \in source, l \notin first
      PROVE  first # {} /\ ~ (Cardinality(first) < Chunk) /\ \A y \in first : y < l
  <2>1. \A y \in Listings : y \in Int
    BY SizeAssumption DEF Listings
  <2>2. \A y \in first : y \in Listings
    BY <1>4, <1>6
  <2> QED
    BY <1>6, <1>9, <2>1, <2>2
<1> QED
  BY <1>1, <1>2, <1>4, <1>5, <1>6, <1>7, <1>8, <1>9
\* What a stage has been completed for only grows, to what it was computed
\* from.
LEMMA ShownGrows ==
    ASSUME Typed, NEW s \in Scoped, NEW ls \in SUBSET Listings,
           NEW upTo \in [Listings -> 0..MaxVersion], Shown(s, ls, upTo)
    PROVE  /\ \A t \in Scoped : \A l \in Listings :
                 /\ shown'[t][l] >= shown[t][l]
                 /\ \/ shown'[t][l] = shown[t][l]
                    \/ l \in ls /\ shown'[t][l] = upTo[l]
           /\ \A l \in ls : shown'[s][l] >= upTo[l]
<1>1. shown \in [Scoped -> [Listings -> 0..MaxVersion]]
  BY DEF ListingsOK, Typed, TypeOK
<1>2. ASSUME NEW t \in Scoped, NEW l \in Listings
      PROVE  shown'[t][l] = IF t = s /\ l \in ls THEN Larger(shown[s][l], upTo[l]) ELSE shown[t][l]
  BY <1>1 DEF Shown
<1>3. ASSUME NEW t \in Scoped, NEW l \in Listings
      PROVE  shown[t][l] \in Int /\ upTo[l] \in Int
  BY <1>1
<1> QED
  BY <1>2, <1>3 DEF Larger

Grows == \A t \in Scoped : \A l \in Listings : shown'[t][l] >= shown[t][l]

LEMMA VersionsAreTyped ==
    ASSUME Typed
    PROVE  /\ version \in [Listings -> 0..MaxVersion] /\ \A l \in Listings : version[l] # 0
           /\ shown \in [Scoped -> [Listings -> 0..MaxVersion]]
           /\ \A s \in Scoped : shown[s] \in [Listings -> 0..MaxVersion]
BY Bounds DEF Versions, ListingsOK, Typed, TypeOK

LEMMA DrainReadDoes ==
    ASSUME Typed, NEW d \in Drainers, DrainRead(d)
    PROVE  /\ UNCHANGED <<version, pending, runs, crawl, refresh, attempts, faults>>
           /\ Alone(d) /\ SameStage(d) /\ drain'[d].chunk = drain[d].chunk
           /\ drain[d].pc = "read" /\ drain'[d].pc = "write"
           /\ drain[d].run \in Runs /\ drain[d].stage \in {1, 2}
           /\ Grows
           /\ \A t \in Scoped : \A l \in Listings : shown'[t][l] \in {shown[t][l], version[l]}
           /\ \A l \in Listings : drain'[d].seen[l] \in {0, version[l]}
           /\ \A l \in drain[d].chunk :
                 \/ drain'[d].seen[l] = version[l]
                 \/ shown'[drain[d].stage][l] >= version[l]
<1> DEFINE s == drain[d].stage
           chunk == drain[d].chunk
           seen == Differing(s, chunk)
           same == {l \in chunk : image[s][l] = version[l]}
<1>1. UNCHANGED <<version, pending, runs, crawl, refresh, attempts, faults>> /\ drain[d].pc = "read"
  BY DEF DrainRead
<1>2. drain[d].run \in Runs /\ s \in Stages /\ s < Entity
  BY <1>1 DEF InStage, Typed, Shapes, DrainShape
<1>3. s \in {1, 2} /\ s \in Scoped /\ chunk \in SUBSET Listings
  <2>1. s \in {1, 2} /\ s \in Scoped
    BY <1>2 DEF Stages, Scoped, Entity
  <2>2. chunk \in SUBSET Listings
    BY DrainFields DEF Typed, TypeOK
  <2> QED
    BY <2>1, <2>2
<1>4. \A l \in Listings : seen[l] = IF l \in chunk /\ image[s][l] # version[l] THEN version[l] ELSE 0
  BY DEF Differing
<1>5. drain'[d] = [drain[d] EXCEPT !.pc = "write", !.seen = seen] /\ Alone(d)
  BY DrainPut DEF DrainRead
<1> HIDE DEF seen
<1>6. /\ SameStage(d) /\ drain'[d].chunk = chunk /\ drain'[d].pc = "write"
      /\ drain'[d].seen = seen
  BY <1>5, DrainFields DEF SameStage, SameRun, DrainStates, Typed, TypeOK
<1>7. Shown(s, same, version) /\ same \in SUBSET Listings
  BY <1>3 DEF DrainRead
<1>8. /\ \A t \in Scoped : \A l \in Listings :
            shown'[t][l] >= shown[t][l] /\ shown'[t][l] \in {shown[t][l], version[l]}
      /\ \A l \in same : shown'[s][l] >= version[l]
  <2> HIDE DEF same, s, chunk
  <2>1. version \in [Listings -> 0..MaxVersion]
    BY VersionsAreTyped
  <2> QED
    BY <1>3, <1>7, <2>1, ShownGrows
<1> QED
  BY <1>1, <1>2, <1>3, <1>4, <1>5, <1>6, <1>8 DEF Grows

LEMMA DrainWriteDoes ==
    ASSUME Typed, NEW d \in Drainers, DrainWrite(d)
    PROVE  /\ UNCHANGED <<version, pending, runs, crawl, refresh, attempts, faults>>
           /\ Alone(d) /\ SameStage(d) /\ drain'[d].chunk = drain[d].chunk
           /\ drain[d].pc = "write" /\ drain'[d].pc = "advance"
           /\ drain[d].run \in Runs /\ drain[d].stage \in {1, 2}
           /\ drain'[d].seen = AllZero
           /\ Grows
           /\ \A t \in Scoped : \A l \in Listings :
                 shown'[t][l] \in {shown[t][l], drain[d].seen[l]}
           /\ \A l \in drain[d].chunk : shown'[drain[d].stage][l] >= drain[d].seen[l]
<1>1. UNCHANGED <<version, pending, runs, crawl, refresh, attempts, faults>> /\ drain[d].pc = "write"
  BY DEF DrainWrite
<1>2. drain[d].run \in Runs /\ drain[d].stage \in Stages /\ drain[d].stage < Entity
  BY <1>1 DEF InStage, Typed, Shapes, DrainShape
<1>3. /\ drain[d].stage \in {1, 2} /\ drain[d].stage \in Scoped
      /\ drain[d].chunk \in SUBSET Listings /\ drain[d].seen \in [Listings -> 0..MaxVersion]
  <2>1. drain[d].stage \in {1, 2} /\ drain[d].stage \in Scoped
    BY <1>2 DEF Stages, Scoped, Entity
  <2>2. drain[d].chunk \in SUBSET Listings /\ drain[d].seen \in [Listings -> 0..MaxVersion]
    BY DrainFields DEF Typed, TypeOK
  <2> QED
    BY <2>1, <2>2
<1>4. drain'[d] = [drain[d] EXCEPT !.pc = "advance", !.seen = AllZero] /\ Alone(d)
  BY DrainFields DEF DrainWrite, Alone, InvocationsOK, Typed, TypeOK
<1>5. /\ SameStage(d) /\ drain'[d].chunk = drain[d].chunk /\ drain'[d].pc = "advance"
      /\ drain'[d].seen = AllZero
  BY <1>4, DrainFields DEF SameStage, SameRun, DrainStates, Typed, TypeOK
<1>6. Shown(drain[d].stage, drain[d].chunk, drain[d].seen)
  BY DEF DrainWrite
<1>7. /\ \A t \in Scoped : \A l \in Listings :
            /\ shown'[t][l] >= shown[t][l]
            /\ shown'[t][l] \in {shown[t][l], drain[d].seen[l]}
      /\ \A l \in drain[d].chunk : shown'[drain[d].stage][l] >= drain[d].seen[l]
  <2> DEFINE seen == drain[d].seen
             s == drain[d].stage
             chunk == drain[d].chunk
  <2>1. /\ s \in Scoped /\ chunk \in SUBSET Listings /\ seen \in [Listings -> 0..MaxVersion]
        /\ Shown(s, chunk, seen)
    BY <1>3, <1>6
  <2> HIDE DEF seen, s, chunk
  <2>2. /\ \A t \in Scoped : \A l \in Listings :
              /\ shown'[t][l] >= shown[t][l]
              /\ shown'[t][l] \in {shown[t][l], seen[l]}
        /\ \A l \in chunk : shown'[s][l] >= seen[l]
    BY <2>1, ShownGrows
  <2> QED
    BY <2>2 DEF seen, s, chunk
<1> QED
  BY <1>1, <1>2, <1>3, <1>4, <1>5, <1>7 DEF Grows

LEMMA SyncedShows ==
    ASSUME Typed, NEW ls \in SUBSET Listings, Synced(ls)
    PROVE  /\ Grows
           /\ \A t \in Scoped : \A l \in Listings : shown'[t][l] \in {shown[t][l], shown[2][l]}
           /\ \A l \in ls : shown'[3][l] >= shown[2][l]
<1>1. Shown(3, ls, shown[2]) /\ 3 \in Scoped /\ 2 \in Scoped
  BY DEF Synced, Entity, Scoped
<1>2. shown[2] \in [Listings -> 0..MaxVersion]
  BY <1>1, VersionsAreTyped
<1> QED
  BY <1>1, <1>2, ShownGrows DEF Grows

LEMMA DrainSyncDoes ==
    ASSUME Typed, NEW d \in Drainers, DrainSync(d)
    PROVE  /\ UNCHANGED <<version, pending, runs, crawl, refresh, attempts, faults>>
           /\ Alone(d) /\ SameStage(d) /\ drain'[d].chunk = drain[d].chunk
           /\ drain'[d].seen = drain[d].seen
           /\ drain[d].pc = "sync"
           /\ drain'[d].pc = IF drain[d].stage = Entity THEN "acknowledge" ELSE "advance"
           /\ drain[d].run \in Runs /\ drain[d].stage \in {3, 4}
           /\ Grows
           /\ \A t \in Scoped : \A l \in Listings : shown'[t][l] \in {shown[t][l], shown[2][l]}
           /\ drain[d].stage = 3 => \A l \in drain[d].chunk : shown'[3][l] >= shown[2][l]
<1>1. UNCHANGED <<version, pending, runs, crawl, refresh, attempts, faults>> /\ drain[d].pc = "sync"
  BY DEF DrainSync
<1>2. drain[d].run \in Runs /\ drain[d].stage \in Stages /\ drain[d].stage >= Entity
  BY <1>1 DEF InStage, Typed, Shapes, DrainShape
<1>3. drain[d].stage \in {3, 4} /\ drain[d].chunk \in SUBSET Listings
  <2>1. drain[d].stage \in {3, 4}
    BY <1>2 DEF Stages, Entity
  <2>2. drain[d].chunk \in SUBSET Listings
    BY DrainFields DEF Typed, TypeOK
  <2> QED
    BY <2>1, <2>2
<1>4. CASE drain[d].stage = Entity
  <2>1. Synced(drain[d].chunk) /\ Drain(d, "acknowledge")
    BY <1>4 DEF DrainSync
  <2> QED
    BY <1>1, <1>2, <1>3, <1>4, <2>1, SyncedShows, DrainGoes
<1>5. CASE drain[d].stage # Entity
  <2>1. PICK gone \in SUBSET drain[d].chunk : Synced(gone) /\ Drain(d, "advance")
    BY <1>5 DEF DrainSync
  <2> QED
    BY <1>1, <1>2, <1>3, <1>5, <2>1, SyncedShows, DrainGoes DEF Entity
<1> QED
  BY <1>4, <1>5

LEMMA AcknowledgedTokens ==
    ASSUME Typed, NEW ls \in SUBSET Listings, NEW token, Acknowledged(ls, token)
    PROVE  \A l \in Listings :
              pending'[l] = IF l \in ls /\ pending[l] = token[l] THEN 0 ELSE pending[l]
BY DEF Acknowledged

LEMMA DrainAcknowledgeDoes ==
    ASSUME Typed, NEW d \in Drainers, DrainAcknowledge(d)
    PROVE  /\ UNCHANGED <<version, image, shown, runs, crawl, refresh, attempts, faults>>
           /\ Alone(d) /\ SameStage(d) /\ drain'[d].chunk = drain[d].chunk
           /\ drain'[d].seen = drain[d].seen
           /\ drain[d].pc = "acknowledge" /\ drain'[d].pc = "advance"
           /\ drain[d].run \in Runs /\ drain[d].stage = 3
           /\ \A l \in Listings : pending'[l] =
                 IF /\ l \in drain[d].chunk /\ l \in Items(drain[d].run)
                    /\ pending[l] = work[drain[d].run][l]
                 THEN 0 ELSE pending[l]
<1>1. /\ UNCHANGED <<version, image, shown, runs, crawl, refresh, attempts, faults>>
      /\ drain[d].pc = "acknowledge" /\ Drain(d, "advance")
  BY DEF DrainAcknowledge
<1>2. drain[d].run \in Runs /\ drain[d].stage = 3
  BY <1>1 DEF InStage, Entity, Typed, Shapes, DrainShape
<1>3. Acknowledged(drain[d].chunk \cap Items(drain[d].run), work[drain[d].run])
  BY DEF DrainAcknowledge
<1>4. drain[d].chunk \cap Items(drain[d].run) \in SUBSET Listings
  BY DEF Items
<1> QED
  BY <1>1, <1>2, <1>3, <1>4, DrainGoes, AcknowledgedTokens

LEMMA DrainAdvanceDoes ==
    ASSUME Typed, NEW d \in Drainers, DrainAdvance(d)
    PROVE  LET r == drain[d].run
               s == drain[d].stage
           IN
           /\ UNCHANGED <<listings, newest, open, collected, generation, work, stage, watermark,
                          since, late, crawl, refresh, attempts, faults>>
           /\ Alone(d) /\ SameRun(d) /\ drain'[d].stage = s
           /\ drain'[d].chunk = {} /\ drain'[d].seen = drain[d].seen
           /\ drain[d].pc = "advance"
           /\ drain'[d].pc = IF Cardinality(drain[d].chunk) < Chunk THEN "complete" ELSE "claim"
           /\ r \in Runs /\ s \in Stages
           /\ drain'[d].after \in drain[d].chunk
           /\ \A l \in drain[d].chunk : l <= drain'[d].after
           /\ \A q \in Runs : \A t \in Stages :
                 \/ cursor'[q][t] = cursor[q][t]
                 \/ q = r /\ t = s /\ stage[r][s] = "pending" /\ cursor'[q][t] = drain'[d].after
<1> DEFINE r == drain[d].run
           s == drain[d].stage
           last == Largest(drain[d].chunk)
           pc == IF Cardinality(drain[d].chunk) < Chunk THEN "complete" ELSE "claim"
<1>1. /\ UNCHANGED <<listings, newest, open, collected, generation, work, stage, watermark, since,
                     late, crawl, refresh, attempts, faults>>
      /\ drain[d].pc = "advance"
      /\ cursor' = IF stage[r][s] = "pending" THEN [cursor EXCEPT ![r][s] = last] ELSE cursor
      /\ drain' = [drain EXCEPT ![d] = [@ EXCEPT !.after = last, !.chunk = {}, !.pc = pc]]
  BY DEF DrainAdvance
<1>2. r \in Runs /\ s \in Stages /\ drain[d].chunk # {}
  BY <1>1 DEF InStage, HasChunk, Typed, Shapes, DrainShape
<1>3. last \in drain[d].chunk /\ \A l \in drain[d].chunk : l <= last
  BY <1>2, DrainFields, LargestIsLast DEF Typed, TypeOK
<1> HIDE DEF last
<1>4. drain'[d] = [drain[d] EXCEPT !.after = last, !.chunk = {}, !.pc = pc] /\ Alone(d)
  BY <1>1, DrainPut
<1>5. /\ SameRun(d) /\ drain'[d].stage = s /\ drain'[d].after = last
      /\ drain'[d].chunk = {} /\ drain'[d].seen = drain[d].seen /\ drain'[d].pc = pc
  BY <1>4, DrainFields DEF SameRun, DrainStates, Typed, TypeOK
<1>6. ASSUME NEW q \in Runs, NEW t \in Stages
      PROVE  \/ cursor'[q][t] = cursor[q][t]
             \/ q = r /\ t = s /\ stage[r][s] = "pending" /\ cursor'[q][t] = last
  BY <1>1, <1>2 DEF RunsOK, Typed, TypeOK
<1> QED
  BY <1>1, <1>2, <1>3, <1>4, <1>5, <1>6

LEMMA DrainCompleteDoes ==
    ASSUME Typed, NEW d \in Drainers, DrainComplete(d)
    PROVE  /\ UNCHANGED <<listings, newest, open, collected, generation, work, cursor, watermark,
                          since, late, crawl, refresh, attempts, faults>>
           /\ Alone(d) /\ SameRun(d) /\ drain'[d].seen = drain[d].seen
           /\ drain[d].pc = "complete" /\ drain'[d].pc = "next"
           /\ drain[d].run \in Runs /\ drain[d].stage \in Stages
           /\ \A r \in Runs : \A s \in Stages : stage'[r][s] =
                 IF r = drain[d].run /\ s = drain[d].stage THEN "done" ELSE stage[r][s]
<1>1. /\ UNCHANGED <<listings, newest, open, collected, generation, work, cursor, watermark,
                     since, late, crawl, refresh, attempts, faults>>
      /\ drain[d].pc = "complete"
      /\ drain' = [drain EXCEPT ![d] = [@ EXCEPT !.pc = "next", !.stage = 0, !.after = 0]]
  BY DEF DrainComplete
<1>2. drain[d].run \in Runs /\ drain[d].stage \in Stages
  BY <1>1 DEF InStage, Typed, Shapes, DrainShape
<1>3. drain'[d] = [drain[d] EXCEPT !.pc = "next", !.stage = 0, !.after = 0] /\ Alone(d)
  BY <1>1, DrainPut
<1>4. SameRun(d) /\ drain'[d].seen = drain[d].seen /\ drain'[d].pc = "next"
  BY <1>3, DrainFields DEF SameRun, DrainStates, Typed, TypeOK
<1>5. stage' = [stage EXCEPT ![drain[d].run][drain[d].stage] = "done"]
  BY DEF DrainComplete
<1> QED
  BY <1>1, <1>2, <1>3, <1>4, <1>5 DEF RunsOK, Typed, TypeOK


(***************************************************************************)
(* Stages are drained in order, and items outlive them.                    *)
(***************************************************************************)

LEMMA OrderedInit == Init => Ordered
<1> SUFFICES ASSUME Init PROVE Ordered
  OBVIOUS
<1>1. \A r \in Runs : \A s \in Stages : stage[r][s] = "none" /\ cursor[r][s] = 0
  BY DEF Init
<1>2. \A r \in Runs : \A l \in Listings : since[r][l] = 0
  BY DEF Init
<1>3. \A d \in Drainers : drain[d].pc = "idle"
  BY DEF Init, NoDrain
<1>4. crawl.pc = "idle"
  BY DEF Init, NoCrawl
<1> QED
  BY <1>1, <1>2, <1>3, <1>4 DEF Ordered, StagesTogether, StagesInOrder, ItemsOutlive, InOrder,
       CrawlInOrder, OnRun, InStage

\* An invocation that stands where it stood, while the stages are kept.
LEMMA OrderKept ==
    ASSUME Ordered, NEW d \in Drainers, drain'[d] = drain[d], UNCHANGED <<newest, stage>>
    PROVE  InOrder(d)'
BY DEF Ordered, InOrder, AllDone, Owed

LEMMA OrderedMoves ==
    ASSUME Ordered, UNCHANGED <<newest, work, stage, cursor, since>>,
           \A d \in Drainers : InOrder(d)', CrawlInOrder'
    PROVE  Ordered'
BY DEF Ordered, StagesTogether, StagesInOrder, ItemsOutlive, OwesScoped, Owed, Items

\* A drain that moves while the runs and the crawl are kept.
LEMMA OrderedDrain ==
    ASSUME Ordered, UNCHANGED <<newest, work, stage, cursor, since>>, crawl' = crawl,
           NEW d \in Drainers, Alone(d), InOrder(d)'
    PROVE  Ordered'
<1>1. \A e \in Drainers : InOrder(e)'
  BY OrderKept DEF Alone
<1>2. CrawlInOrder'
  BY DEF Ordered, CrawlInOrder, AllDone
<1> QED
  BY <1>1, <1>2, OrderedMoves

\* Stages that are settled once stay so, whoever settles them.
LEMMA StagesSettle ==
    ASSUME StagesTogether, NEW r \in Runs,
           \A s \in Stages : \/ stage'[r][s] = stage[r][s]
                             \/ stage[r][s] = "pending" /\ stage'[r][s] = "done"
    PROVE  /\ AllDone(r) => AllDone(r)'
           /\ Owed(r) = {} => Owed(r)' = {}
           /\ \A s \in Stages : stage[r][s] = "done" => stage'[r][s] = "done"
           /\ \A s \in Stages : (stage'[r][s] = "none") = (stage[r][s] = "none")
BY DEF AllDone, Owed

\* A step of the crawl that leaves the runs' stages and items.
LEMMA OrderedCrawl ==
    ASSUME Typed, Ordered, UNCHANGED <<newest, work, stage, cursor, since>>,
           drain' = drain \/ drain' = [drain EXCEPT !["crawl"] = NoDrain],
           crawl'.pc \in {"clear", "project"} => AllDone(newest)
    PROVE  Ordered'
<1>1. ASSUME NEW d \in Drainers
      PROVE  InOrder(d)'
  <2>1. CASE drain'[d] = drain[d]
    BY <2>1, OrderKept
  <2>2. CASE drain'[d] = NoDrain
    BY <2>2 DEF InOrder, NoDrain, OnRun, InStage
  <2> QED
    BY <2>1, <2>2 DEF InvocationsOK, Typed, TypeOK
<1>2. CrawlInOrder'
  BY DEF CrawlInOrder, AllDone
<1> QED
  BY <1>1, <1>2, OrderedMoves

\* Items that are added are there.
LEMMA OrderedItems ==
    ASSUME Typed, Ordered, newest \in Runs, NEW added \in SUBSET Listings,
           NEW token \in [Listings -> 0..MaxVersion], AddItems(added, token),
           UNCHANGED <<newest, stage, cursor, drain>>, crawl'.pc \notin {"clear", "project"}
    PROVE  Ordered'
<1>1. \A r \in Runs : \A l \in Listings :
         LET new == r = newest /\ l \in added /\ work[r][l] = NoItem IN
         /\ work'[r][l] = IF new THEN token[l] ELSE work[r][l]
         /\ since'[r][l] = IF new THEN version[l] ELSE since[r][l]
  BY Added
<1>2. \A l \in Listings : token[l] # NoItem
  BY Bounds DEF NoItem
<1>3. ItemsOutlive'
  BY <1>1, <1>2 DEF Ordered, ItemsOutlive, OwesScoped, Owed, Items
<1>4. \A d \in Drainers : InOrder(d)'
  BY OrderKept
<1> QED
  BY <1>3, <1>4 DEF Ordered, StagesTogether, StagesInOrder, CrawlInOrder

\* Items that are freed are owed to no stage.
LEMMA OrderedFreed ==
    ASSUME Typed, Ordered, NEW r \in Runs, Owed(r) = {}, \A s \in Stages : stage[r][s] # "none",
           work' = Freed(r), UNCHANGED <<newest, stage, cursor, since>>,
           \A d \in Drainers : InOrder(d)', CrawlInOrder'
    PROVE  Ordered'
<1>1. \A q \in Runs : \A l \in Listings : q # r => work'[q][l] = work[q][l]
  BY DEF Freed, RunsOK, Typed, TypeOK
<1>2. 1 \in Stages
  BY DEF Stages
<1>3. ItemsOutlive'
  BY <1>1, <1>2 DEF Ordered, ItemsOutlive, OwesScoped, Owed, Items
<1> QED
  BY <1>3 DEF Ordered, StagesTogether, StagesInOrder

LEMMA AllDoneOwesNothing ==
    ASSUME NEW r, AllDone(r)
    PROVE  Owed(r) = {} /\ \A s \in Stages : stage[r][s] # "none"
BY DEF AllDone, Owed

LEMMA CrawlIsOrdered ==
    ASSUME Typed, Ordered, Crawling
    PROVE  Ordered'
<1>1. CASE CrawlStarts
  <2>1. /\ newest' \in Int /\ newest' >= newest /\ newest \in Int
        /\ UNCHANGED <<work, stage, cursor, since, drain>> /\ crawl'.pc = "write"
        /\ drain["crawl"].pc = "idle"
    BY <1>1 DEF CrawlStarts, NoCrawl, NoDrain, RunsOK, Typed, TypeOK
  <2>2. ASSUME NEW d \in Drainers
        PROVE  InOrder(d)'
    <3>1. drain[d].run \in Int
      <4>1. drain[d].run \in 0..MaxRuns
        BY DrainFields DEF Typed, TypeOK
      <4> QED
        BY <4>1
    <3> QED
      BY <2>1, <3>1 DEF Ordered, InOrder, AllDone, Owed
  <2>3. StagesTogether'
    BY <2>1, Bounds DEF Ordered, StagesTogether, Runs
  <2> QED
    BY <2>1, <2>2, <2>3 DEF Ordered, StagesInOrder, ItemsOutlive, OwesScoped, Owed, Items,
         CrawlInOrder
<1>2. ASSUME NEW l \in Listings, CrawlWrites(l)
      PROVE  Ordered'
  BY <1>2, CrawlFields, OrderedCrawl DEF CrawlWrites, At, runs, Typed, TypeOK
<1>3. CASE CrawlWritten
  BY <1>3, CrawlFields, OrderedCrawl DEF CrawlWritten, At, runs, Typed, TypeOK
<1>4. CASE RecordGeneration
  BY <1>4, CrawlFields, OrderedCrawl DEF RecordGeneration, Goes, Typed, TypeOK
<1>5. CASE RecordItems
  <2>1. newest \in Runs /\ pending \in [Listings -> 0..MaxVersion]
    BY <1>5 DEF RecordItems, At, Shapes, CrawlShape, ListingsOK, Typed, TypeOK
  <2>2. crawl'.pc = "inherit"
    BY <1>5, CrawlFields DEF RecordItems, Goes, Typed, TypeOK
  <2> QED
    BY <1>5, <2>1, <2>2, CrawlFields, OrderedItems DEF RecordItems, Typed, TypeOK
<1>6. CASE RecordInherited
  <2> DEFINE added == UNION {Items(r) : r \in {q \in Runs \ {newest} : OwesScoped(q)}}
  <2>1. newest \in Runs /\ AllZero \in [Listings -> 0..MaxVersion]
    BY <1>6, Bounds DEF RecordInherited, At, Shapes, CrawlShape, AllZero, Typed, TypeOK
  <2>2. added \in SUBSET Listings
    BY DEF Items
  <2>3. crawl'.pc = "stages"
    BY <1>6, CrawlFields DEF RecordInherited, Goes, Typed, TypeOK
  <2>4. AddItems(added, AllZero) /\ UNCHANGED <<newest, stage, cursor, drain>>
    BY <1>6 DEF RecordInherited
  <2> HIDE DEF added
  <2> QED
    BY <2>1, <2>2, <2>3, <2>4, OrderedItems
<1>7. CASE RecordStages
  <2>1. /\ newest \in Runs /\ UNCHANGED <<newest, work, cursor, since>>
        /\ stage' = [stage EXCEPT ![newest] =
                       [s \in Stages |-> IF @[s] = "none" THEN "pending" ELSE @[s]]]
        /\ drain' = [drain EXCEPT !["crawl"] =
                       [NoDrain EXCEPT !.pc = "next", !.run = newest, !.gen = attempts]]
    BY <1>7 DEF RecordStages, At, Shapes, CrawlShape, Typed, TypeOK
  <2>2. \A r \in Runs : \A s \in Stages : stage'[r][s] =
           IF r = newest /\ stage[r][s] = "none" THEN "pending" ELSE stage[r][s]
    BY <2>1 DEF RunsOK, Typed, TypeOK
  <2>3. \A r \in Runs : (\E s \in Stages : stage[r][s] # "none")
           => \A s \in Stages : stage'[r][s] = stage[r][s]
    BY <2>2 DEF Ordered, StagesTogether
  <2>4. \A s \in Stages : stage'[newest][s] \in {"pending", "done"}
    <3>1. \A s \in Stages : stage[newest][s] # "superseded"
      BY <2>1, Bounds DEF Ordered, StagesTogether, Runs
    <3> QED
      BY <2>1, <2>2, <3>1 DEF RunsOK, Typed, TypeOK
  <2>5. /\ drain'["crawl"] = [NoDrain EXCEPT !.pc = "next", !.run = newest, !.gen = attempts]
        /\ drain'["sweep"] = drain["sweep"]
    BY <2>1, DrainPut DEF Drainers, Alone
  <2>6. InOrder("crawl")'
    <3>1. drain'["crawl"].pc = "next" /\ drain'["crawl"].run = newest
      BY <2>5 DEF NoDrain
    <3> QED
      BY <2>1, <2>4, <3>1 DEF InOrder, OnRun, InStage
  <2>7. InOrder("sweep")'
    <3>1. drain["sweep"].pc # "idle" => drain["sweep"].run \in Runs
      BY DEF Shapes, DrainShape, Drainers, Typed
    <3>2. 1 \in Stages
      BY DEF Stages
    <3>3. drain["sweep"].pc \in OnRun \cup {"newer", "supersede", "drop"} =>
             /\ drain["sweep"].run \in Runs
             /\ \A s \in Stages : stage[drain["sweep"].run][s] # "none"
      <4>1. "sweep" \in Drainers
        BY DEF Drainers
      <4> QED
        BY <3>1, <4>1 DEF Ordered, InOrder, OnRun, InStage
    <3>4. drain["sweep"].pc \in OnRun \cup {"newer", "supersede", "drop"} =>
             \A s \in Stages : stage'[drain["sweep"].run][s] = stage[drain["sweep"].run][s]
      BY <2>3, <3>2, <3>3
    <3>5. InOrder("sweep")
      BY DEF Ordered, Drainers
    <3> QED
      BY <2>1, <2>5, <3>4, <3>5 DEF InOrder, AllDone, Owed, OnRun, InStage
  <2>8. StagesTogether'
    <3> SUFFICES ASSUME NEW r \in Runs
                 PROVE  /\ \A s, t \in Stages : stage'[r][s] = "none" => stage'[r][t] = "none"
                        /\ \A s, t \in Stages : stage'[r][s] = "superseded" => stage'[r][t] # "pending"
                        /\ \A s \in Stages : stage'[r][s] = "superseded" => r < newest'
                        /\ \A s \in Stages : cursor'[r][s] # 0 => stage'[r][s] # "none"
      BY DEF StagesTogether
    <3>1. CASE r = newest
      BY <2>4, <3>1
    <3>2. CASE r # newest
      BY <2>1, <2>2, <3>2 DEF Ordered, StagesTogether
    <3> QED
      BY <3>1, <3>2
  <2>9. StagesInOrder'
    <3>1. \A r \in Runs : \A s \in Stages : (stage'[r][s] = "done") = (stage[r][s] = "done")
      BY <2>2
    <3> QED
      BY <2>1, <3>1 DEF Ordered, StagesInOrder
  <2>10. ItemsOutlive'
    <3> SUFFICES ASSUME NEW r \in Runs, NEW l \in Listings, since[r][l] # 0, l \notin Items(r)
                 PROVE  ~ OwesScoped(r)' /\ stage'[r][1] # "none"
      BY <2>1 DEF ItemsOutlive, Items
    <3>1. ~ OwesScoped(r) /\ stage[r][1] # "none" /\ 1 \in Stages
      BY DEF Ordered, ItemsOutlive, Stages
    <3>2. \A s \in Stages : stage'[r][s] = stage[r][s]
      BY <2>3, <3>1
    <3> QED
      BY <3>1, <3>2 DEF OwesScoped, Owed
  <2>11. CrawlInOrder'
    BY <1>7, CrawlFields DEF RecordStages, Goes, CrawlInOrder, Typed, TypeOK
  <2> QED
    BY <2>6, <2>7, <2>8, <2>9, <2>10, <2>11 DEF Ordered, Drainers
<1>8. CASE CrawlClears
  <2>1. newest \in Runs /\ AllDone(newest)
    BY <1>8 DEF CrawlClears, At, Shapes, CrawlShape, Ordered, CrawlInOrder, Typed
  <2>2. CrawlInOrder' /\ \A d \in Drainers : InOrder(d)'
    BY <1>8, <2>1, OrderKept DEF CrawlClears, CrawlInOrder, AllDone
  <2> QED
    BY <1>8, <2>1, <2>2, AllDoneOwesNothing, OrderedFreed DEF CrawlClears
<1>9. CASE CrawlProjected
  BY <1>9, CrawlFields, OrderedCrawl DEF CrawlProjected, Goes, Typed, TypeOK
<1>10. CASE CrawlFinishes
  BY <1>10, OrderedCrawl DEF CrawlFinishes, NoCrawl
<1>11. CASE CrawlMovesOn
  BY <1>11, CrawlFields, OrderedCrawl DEF CrawlMovesOn, Goes, runs, Typed, TypeOK
<1>12. CASE CrawlFails
  BY <1>12, OrderedCrawl DEF CrawlFails, NoCrawl
<1>13. CASE CrawlCrashes
  BY <1>13, OrderedCrawl DEF CrawlCrashes, runs, NoCrawl
<1>14. CASE CrawlDefers
  BY <1>14, CrawlFields, OrderedCrawl DEF CrawlDefers, DefersTo, Goes, runs, Typed, TypeOK
<1>15. CASE RunRecovered
  BY <1>15, CrawlFields, OrderedCrawl DEF RunRecovered, At, Typed, TypeOK
<1> QED
  BY <1>1, <1>2, <1>3, <1>4, <1>5, <1>6, <1>7, <1>8, <1>9, <1>10, <1>11, <1>12, <1>13, <1>14,
     <1>15 DEF Crawling

LEMMA DrainIsOrdered ==
    ASSUME Typed, Ordered, NEW d \in Drainers, DrainSteps(d)
    PROVE  Ordered'
<1> DEFINE r == drain[d].run
           s == drain[d].stage
<1>0. InOrder(d)
  BY DEF Ordered
<1>1. CASE DrainNext(d)
  <2>1. /\ UNCHANGED <<newest, work, stage, cursor, since>> /\ Alone(d)
        /\ r \in Runs /\ drain[d].pc = "next" /\ GoesOn(d)
    BY <1>1, DrainNextDoes DEF runs
  <2>2. \A t \in Stages : stage[r][t] \in {"pending", "done"}
    BY <1>0, <2>1 DEF InOrder, OnRun
  <2>3. Owed(r) = {} => AllDone(r)
    BY <2>2 DEF Owed, AllDone
  <2>4. CASE drain'[d] = NoDrain /\ crawl' = crawl
    <3>1. InOrder(d)'
      BY <2>4 DEF InOrder, NoDrain, OnRun, InStage
    <3> QED
      BY <2>1, <2>4, <3>1, OrderedDrain
  <2>5. CASE d = "crawl" /\ drain'[d] = NoDrain /\ Owed(r) = {} /\ Goes("clear") /\ At("drain")
    <3>1. InOrder(d)'
      BY <2>5 DEF InOrder, NoDrain, OnRun, InStage
    <3>2. \A e \in Drainers : InOrder(e)'
      BY <2>1, <3>1, OrderKept DEF Alone
    <3>3. r = newest
      BY <2>1, <2>5 DEF Shapes, CrawlDrainShape, Typed
    <3>4. CrawlInOrder'
      BY <2>1, <2>3, <2>5, <3>3 DEF CrawlInOrder, AllDone
    <3> QED
      BY <2>1, <3>2, <3>4, OrderedMoves
  <2>6. CASE d = "sweep" /\ Owed(r) = {} /\ crawl' = crawl /\ drain'[d].pc = "clear" /\ SameRun(d)
    <3>1. InOrder(d)'
      BY <2>1, <2>2, <2>3, <2>6 DEF InOrder, SameRun, OnRun, InStage, AllDone
    <3> QED
      BY <2>1, <2>6, <3>1, OrderedDrain
  <2>7. CASE /\ crawl' = crawl /\ drain'[d].pc = "claim" /\ SameRun(d)
             /\ drain'[d].stage \in Owed(r)
             /\ \A t \in Owed(r) : drain'[d].stage <= t
    <3>1. \A t \in Stages : t < drain'[d].stage => stage[r][t] = "done"
      BY <2>2, <2>7 DEF Owed, Stages
    <3>2. InOrder(d)'
      BY <2>1, <2>2, <2>7, <3>1 DEF InOrder, SameRun, OnRun, InStage
    <3> QED
      BY <2>1, <2>7, <3>2, OrderedDrain
  <2> QED
    BY <2>1, <2>4, <2>5, <2>6, <2>7 DEF GoesOn
<1>2. CASE UNCHANGED <<newest, work, stage, cursor, since, crawl>> /\ Alone(d) /\ SameStage(d)
           /\ drain[d].pc \in InStage /\ drain'[d].pc \in InStage
  <2>1. InOrder(d)'
    BY <1>0, <1>2 DEF InOrder, SameStage, SameRun, OnRun, InStage
  <2> QED
    BY <1>2, <2>1, OrderedDrain
<1>3. CASE DrainClaim(d)
  BY <1>2, <1>3, DrainClaimDoes DEF runs, InStage
<1>4. CASE DrainRead(d)
  BY <1>2, <1>4, DrainReadDoes DEF runs, InStage
<1>5. CASE DrainWrite(d)
  BY <1>2, <1>5, DrainWriteDoes DEF runs, InStage
<1>6. CASE DrainSync(d)
  BY <1>2, <1>6, DrainSyncDoes DEF runs, InStage
<1>7. CASE DrainAcknowledge(d)
  BY <1>2, <1>7, DrainAcknowledgeDoes DEF runs, InStage
<1>8. CASE DrainAdvance(d)
  <2>1. /\ UNCHANGED <<newest, work, stage, since, crawl>>
        /\ Alone(d) /\ SameRun(d) /\ drain'[d].stage = s
        /\ drain[d].pc = "advance" /\ drain'[d].pc \in {"complete", "claim"}
        /\ r \in Runs /\ s \in Stages
        /\ \A q \in Runs : \A t \in Stages :
              \/ cursor'[q][t] = cursor[q][t]
              \/ q = r /\ t = s /\ stage[r][s] = "pending"
    BY <1>8, DrainAdvanceDoes
  <2>2. InOrder(d)'
    BY <1>0, <2>1 DEF InOrder, SameRun, OnRun, InStage
  <2>3. \A e \in Drainers : InOrder(e)'
    BY <2>1, <2>2, OrderKept DEF Alone
  <2>4. StagesInOrder'
    <3>1. \A t \in Stages : t < s => stage[r][t] = "done"
      BY <1>0, <2>1 DEF InOrder, InStage
    <3> QED
      BY <2>1, <3>1 DEF Ordered, StagesInOrder
  <2>5. StagesTogether'
    BY <2>1 DEF Ordered, StagesTogether
  <2> QED
    BY <2>1, <2>3, <2>4, <2>5 DEF Ordered, ItemsOutlive, OwesScoped, Owed, Items,
         CrawlInOrder, AllDone
<1>9. CASE DrainComplete(d)
  <2>1. /\ UNCHANGED <<newest, work, cursor, since, crawl>>
        /\ Alone(d) /\ SameRun(d)
        /\ drain[d].pc = "complete" /\ drain'[d].pc = "next"
        /\ r \in Runs /\ s \in Stages
        /\ \A q \in Runs : \A t \in Stages : stage'[q][t] =
              IF q = r /\ t = s THEN "done" ELSE stage[q][t]
    BY <1>9, DrainCompleteDoes
  <2>2. /\ \A t \in Stages : stage[r][t] \in {"pending", "done"}
        /\ \A t \in Stages : t < s => stage[r][t] = "done"
    BY <1>0, <2>1 DEF InOrder, InStage, OnRun
  <2>3. \A q \in Runs : \A t \in Stages :
           \/ stage'[q][t] = stage[q][t]
           \/ stage[q][t] = "pending" /\ stage'[q][t] = "done"
    BY <2>1, <2>2
  <2>4. \A q \in Runs :
           /\ AllDone(q) => AllDone(q)'
           /\ Owed(q) = {} => Owed(q)' = {}
           /\ \A t \in Stages : stage[q][t] = "done" => stage'[q][t] = "done"
           /\ \A t \in Stages : (stage'[q][t] = "none") = (stage[q][t] = "none")
    BY <2>3, StagesSettle DEF Ordered
  <2>5. InOrder(d)'
    BY <2>1, <2>2 DEF InOrder, SameRun, OnRun, InStage
  <2>6. ASSUME NEW e \in Drainers
        PROVE  InOrder(e)'
    <3>1. CASE e = d
      BY <2>5, <3>1
    <3>2. CASE e # d
      <4>1. drain'[e] = drain[e] /\ InOrder(e)
        BY <2>1, <3>2 DEF Alone, Ordered
      <4>2. drain[e].pc # "idle" => drain[e].run \in Runs
        BY DEF Typed, Shapes, DrainShape
      <4>3. \A t \in Stages : drain[e].run \in Runs /\ stage[drain[e].run][t] \in {"pending", "done"}
               => stage'[drain[e].run][t] \in {"pending", "done"}
        BY <2>3
      <4> QED
        BY <2>1, <2>4, <4>1, <4>2, <4>3 DEF InOrder, OnRun, InStage
    <3> QED
      BY <3>1, <3>2
  <2>7. StagesTogether'
    BY <2>1, <2>2 DEF Ordered, StagesTogether
  <2>8. StagesInOrder'
    BY <2>1, <2>2 DEF Ordered, StagesInOrder
  <2>9. ItemsOutlive'
    <3>1. \A q \in Runs : OwesScoped(q)' => OwesScoped(q)
      BY <2>1 DEF OwesScoped, Owed
    <3>2. 1 \in Stages
      BY DEF Stages
    <3> QED
      BY <2>1, <2>4, <3>1, <3>2 DEF Ordered, ItemsOutlive, Items
  <2>10. CrawlInOrder'
    <3>1. crawl.pc # "idle" => newest \in Runs
      BY DEF Typed, Shapes, CrawlShape
    <3> QED
      BY <2>1, <2>4, <3>1 DEF Ordered, CrawlInOrder
  <2> QED
    BY <2>6, <2>7, <2>8, <2>9, <2>10 DEF Ordered
<1> QED
  BY <1>1, <1>3, <1>4, <1>5, <1>6, <1>7, <1>8, <1>9 DEF DrainSteps

LEMMA SweepIsOrdered ==
    ASSUME Typed, Ordered, Sweeping
    PROVE  Ordered'
<1> DEFINE r == drain["sweep"].run
<1>0. "sweep" \in Drainers /\ InOrder("sweep")
  BY DEF Ordered, Drainers
<1>00. drain["sweep"].pc # "idle" => r \in Runs
  BY <1>0 DEF Typed, Shapes, DrainShape
<1>1. ASSUME NEW q \in Runs, SweepBegins(q)
      PROVE  Ordered'
  <2>1. /\ UNCHANGED <<newest, work, stage, cursor, since, crawl>> /\ Owed(q) # {}
        /\ drain' = [drain EXCEPT !["sweep"] =
             [NoDrain EXCEPT !.pc = "newer", !.run = q, !.gen = generation[q]]]
    BY <1>1 DEF SweepBegins, runs
  <2>2. drain'["sweep"] = [NoDrain EXCEPT !.pc = "newer", !.run = q, !.gen = generation[q]]
        /\ Alone("sweep")
    BY <1>0, <2>1, DrainPut
  <2>3. drain'["sweep"].pc = "newer" /\ drain'["sweep"].run = q
    BY <2>2 DEF NoDrain
  <2>4. \A s \in Stages : stage[q][s] # "none"
    BY <2>1 DEF Ordered, StagesTogether, Owed
  <2>5. InOrder("sweep")'
    BY <2>1, <2>3, <2>4 DEF InOrder, OnRun, InStage
  <2> QED
    BY <1>0, <2>1, <2>2, <2>5, OrderedDrain
<1>2. CASE SweepChecksNewer
  <2>1. /\ UNCHANGED <<newest, work, stage, cursor, since, crawl>>
        /\ drain["sweep"].pc = "newer"
        /\ Drain("sweep", IF Newer(r) THEN "supersede" ELSE "next")
    BY <1>2 DEF SweepChecksNewer, runs
  <2>2. /\ drain'["sweep"].pc = IF Newer(r) THEN "supersede" ELSE "next"
        /\ drain'["sweep"].run = r /\ Alone("sweep") /\ r \in Runs
    BY <1>0, <1>00, <2>1, DrainGoes DEF SameStage, SameRun
  <2>3. \A s \in Stages : stage[r][s] # "none"
    BY <1>0, <2>1 DEF InOrder
  <2>4. newest \in Int /\ r \in Int
    BY <2>2, Bounds DEF Runs, RunsOK, Typed, TypeOK
  <2>5. ~ Newer(r) => \A s \in Stages : stage[r][s] \in {"pending", "done"}
    <3>1. ~ Newer(r) => ~ (r < newest)
      BY <2>4 DEF Newer
    <3>2. \A s \in Stages : stage[r][s] \in {"none", "pending", "done", "superseded"}
      BY <2>2 DEF RunsOK, Typed, TypeOK
    <3> QED
      BY <2>2, <2>3, <3>1, <3>2 DEF Ordered, StagesTogether
  <2>6. InOrder("sweep")'
    BY <2>1, <2>2, <2>3, <2>4, <2>5 DEF InOrder, OnRun, InStage, Newer
  <2> QED
    BY <1>0, <2>1, <2>2, <2>6, OrderedDrain
<1>3. CASE SweepSupersedes
  <2>1. /\ UNCHANGED <<newest, work, cursor, since, crawl>>
        /\ drain["sweep"].pc = "supersede" /\ Drain("sweep", "drop") /\ r \in Runs
        /\ stage' = [stage EXCEPT ![r] =
             [s \in Stages |-> IF @[s] = "pending" THEN "superseded" ELSE @[s]]]
    BY <1>00, <1>3 DEF SweepSupersedes
  <2>2. \A q \in Runs : \A s \in Stages : stage'[q][s] =
           IF q = r /\ stage[q][s] = "pending" THEN "superseded" ELSE stage[q][s]
    BY <2>1 DEF RunsOK, Typed, TypeOK
  <2>3. drain'["sweep"].pc = "drop" /\ drain'["sweep"].run = r /\ drain'["crawl"] = drain["crawl"]
    BY <1>0, <2>1, DrainGoes DEF SameStage, SameRun, Alone, Drainers
  <2>4. r < newest /\ \A s \in Stages : stage[r][s] # "none"
    BY <1>0, <2>1 DEF InOrder
  <2>5. InOrder("sweep")'
    BY <2>1, <2>2, <2>3, <2>4 DEF InOrder, OnRun, InStage, Owed
  <2>6. InOrder("crawl")'
    <3>1. drain["crawl"].pc \in {"idle", "next"} \cup InStage
          /\ (drain["crawl"].pc # "idle" => drain["crawl"].run = newest /\ newest \in Runs)
      BY DEF Typed, Shapes, CrawlDrainShape, DrainShape, Drainers
    <3>2. r # newest
      BY <2>1, <2>4, Bounds DEF Runs
    <3>3. InOrder("crawl")
      BY DEF Ordered, Drainers
    <3>4. newest \in Runs => \A s \in Stages : stage'[newest][s] = stage[newest][s]
      BY <2>2, <3>2
    <3> QED
      BY <2>1, <2>3, <3>1, <3>3, <3>4 DEF InOrder, OnRun, InStage
  <2>7. StagesTogether'
    BY <2>1, <2>2, <2>4 DEF Ordered, StagesTogether
  <2>8. StagesInOrder'
    <3>1. \A q \in Runs : \A s \in Stages : (stage'[q][s] = "done") = (stage[q][s] = "done")
      BY <2>2
    <3> QED
      BY <2>1, <3>1 DEF Ordered, StagesInOrder
  <2>9. ItemsOutlive'
    <3>1. \A q \in Runs : OwesScoped(q)' => OwesScoped(q)
      BY <2>2 DEF OwesScoped, Owed
    <3>2. \A q \in Runs : stage[q][1] # "none" => stage'[q][1] # "none"
      BY <2>2 DEF Stages
    <3> QED
      BY <2>1, <3>1, <3>2 DEF Ordered, ItemsOutlive, Items
  <2>10. CrawlInOrder'
    <3>1. crawl.pc # "idle" => newest \in Runs
      BY DEF Typed, Shapes, CrawlShape
    <3> QED
      BY <2>1, <2>2, <3>1 DEF Ordered, CrawlInOrder, AllDone
  <2> QED
    BY <2>5, <2>6, <2>7, <2>8, <2>9, <2>10 DEF Ordered, Drainers
<1>4. CASE SweepDrops
  <2>1. /\ UNCHANGED <<newest, stage, cursor, since, crawl>> /\ work' = Freed(r)
        /\ drain["sweep"].pc = "drop" /\ r \in Runs /\ drain' = [drain EXCEPT !["sweep"] = NoDrain]
    BY <1>00, <1>4 DEF SweepDrops
  <2>2. drain'["sweep"] = NoDrain /\ Alone("sweep")
    BY <1>0, <2>1, DrainPut
  <2>3. Owed(r) = {} /\ \A s \in Stages : stage[r][s] # "none"
    BY <1>0, <2>1 DEF InOrder
  <2>4. InOrder("sweep")'
    BY <2>2 DEF InOrder, NoDrain, OnRun, InStage
  <2>5. CrawlInOrder' /\ \A d \in Drainers : InOrder(d)'
    BY <2>1, <2>2, <2>4, OrderKept DEF Ordered, CrawlInOrder, AllDone, Alone
  <2> QED
    BY <2>1, <2>3, <2>5, OrderedFreed
<1>5. CASE SweepClears
  <2>1. /\ UNCHANGED <<newest, stage, cursor, since, crawl>> /\ work' = Freed(r)
        /\ drain["sweep"].pc = "clear" /\ r \in Runs /\ Drain("sweep", "project")
    BY <1>00, <1>5 DEF SweepClears
  <2>2. drain'["sweep"].pc = "project" /\ drain'["sweep"].run = r /\ Alone("sweep")
    BY <1>0, <2>1, DrainGoes DEF SameStage, SameRun
  <2>3. AllDone(r)
    BY <1>0, <2>1 DEF InOrder
  <2>4. InOrder("sweep")'
    BY <2>1, <2>2, <2>3 DEF InOrder, OnRun, InStage, AllDone
  <2>5. CrawlInOrder' /\ \A d \in Drainers : InOrder(d)'
    BY <2>1, <2>2, <2>4, OrderKept DEF Ordered, CrawlInOrder, AllDone, Alone
  <2> QED
    BY <2>1, <2>3, <2>5, AllDoneOwesNothing, OrderedFreed
<1>6. CASE SweepProjected \/ SweepStops
  <2>1. /\ UNCHANGED <<newest, work, stage, cursor, since, crawl>>
        /\ drain' = [drain EXCEPT !["sweep"] = NoDrain]
    BY <1>6 DEF SweepProjected, SweepStops, runs
  <2>2. drain'["sweep"] = NoDrain /\ Alone("sweep")
    BY <1>0, <2>1, DrainPut
  <2>3. InOrder("sweep")'
    BY <2>2 DEF InOrder, NoDrain, OnRun, InStage
  <2> QED
    BY <1>0, <2>1, <2>2, <2>3, OrderedDrain
<1> QED
  BY <1>1, <1>2, <1>3, <1>4, <1>5, <1>6 DEF Sweeping, SweepSteps

LEMMA OrderedStep == Typed /\ Ordered /\ [Next]_vars => Ordered'
<1> SUFFICES ASSUME Typed, Ordered, [Next]_vars
             PROVE  Ordered'
  OBVIOUS
<1>1. CASE UNCHANGED <<newest, work, stage, cursor, since, drain, crawl>>
  BY <1>1, OrderKept, OrderedMoves DEF Ordered, CrawlInOrder, AllDone
<1>2. CASE UNCHANGED vars
  BY <1>1, <1>2 DEF vars
<1>3. ASSUME NEW l \in Listings, Edit(l)
      PROVE  Ordered'
  BY <1>1, <1>3 DEF Edit, runs
<1>4. ASSUME NEW f \in Refreshers, Refreshing(f)
      PROVE  Ordered'
  BY <1>1, <1>4 DEF Refreshing, RefreshSteps, RefreshBegins, RefreshReads, RefreshWrites,
       RefreshSyncs, RefreshAcknowledges, RefreshFails, runs
<1> QED
  BY <1>2, <1>3, <1>4, CrawlIsOrdered, DrainIsOrdered, SweepIsOrdered DEF Next

(***************************************************************************)
(* What a run reports as done is shown.                                    *)
(***************************************************************************)

LEMMA VersionsAreNumbers ==
    ASSUME Typed
    PROVE  /\ \A l \in Listings : version[l] \in Int /\ version[l] > 0
           /\ \A s \in Scoped : \A l \in Listings : shown[s][l] \in Int
           /\ \A r \in Runs : \A l \in Listings : since[r][l] \in Int /\ since[r][l] >= 0
           /\ \A d \in Drainers : \A l \in Listings : drain[d].seen[l] \in Int
           /\ \A f \in Refreshers : refresh[f].seen \in Int /\ refresh[f].token \in Int
           /\ \A l \in Listings : l \in Int /\ l > 0
           /\ \A d \in Drainers : drain[d].after \in Int
<1>1. /\ \A l \in Listings : version[l] \in Int /\ version[l] > 0
      /\ \A s \in Scoped : \A l \in Listings : shown[s][l] \in Int
  BY Bounds DEF Versions, ListingsOK, Typed, TypeOK
<1>2. \A r \in Runs : \A l \in Listings : since[r][l] \in Int /\ since[r][l] >= 0
  BY Bounds DEF RunsOK, Typed, TypeOK
<1>3. ASSUME NEW d \in Drainers
      PROVE  drain[d].after \in Int /\ \A l \in Listings : drain[d].seen[l] \in Int
  <2>1. drain[d].after \in 0..NumListings /\ drain[d].seen \in [Listings -> 0..MaxVersion]
    BY DrainFields DEF Typed, TypeOK
  <2> QED
    BY <2>1, Bounds
<1>4. ASSUME NEW f \in Refreshers
      PROVE  refresh[f].seen \in Int /\ refresh[f].token \in Int
  <2>1. refresh[f].token \in 0..MaxVersion /\ refresh[f].seen \in 0..MaxVersion
    BY RefreshFields DEF Typed, TypeOK
  <2> QED
    BY <2>1, Bounds
<1>5. \A l \in Listings : l \in Int /\ l > 0
  BY Bounds DEF Listings
<1> QED
  BY <1>1, <1>2, <1>3, <1>4, <1>5

LEMMA WorkedInit == Init => Worked
<1> SUFFICES ASSUME Init PROVE Worked
  OBVIOUS
<1>1. NotAhead
  BY DEF Init, NotAhead, NoDrain, NoRefresh, AllZero
<1>2. /\ \A r \in Runs : \A l \in Listings : since[r][l] = 0 /\ work[r][l] = NoItem
      /\ \A d \in Drainers : drain[d].pc = "idle"
  BY DEF Init, NoDrain
<1> QED
  BY <1>1, <1>2 DEF Worked, ItemsAreDated, DoneIsShown, CursorIsShown, Counts, Items, InWork, InStage

\* Items that may go, and dates that stay.
ItemsStay ==
    /\ UNCHANGED <<since, late>>
    /\ \A r \in Runs : Items(r)' \subseteq Items(r)

\* An invocation that stands where it stood, while more is shown.
LEMMA WorkKept ==
    ASSUME Typed, Typed', Worked, Grows, ItemsStay,
           NEW d \in Drainers, drain'[d] = drain[d]
    PROVE  InWork(d)'
<1> DEFINE r == drain[d].run
           s == drain[d].stage
<1>1. SUFFICES ASSUME drain[d].pc \in InStage, s \in Scoped,
                      NEW l \in Items(r)', Counts(r, l)'
               PROVE  /\ l <= drain[d].after => Shows(r, s, l)'
                      /\ drain[d].pc \in HasChunk /\ l \notin drain[d].chunk /\ l > drain[d].after =>
                            /\ \A y \in drain[d].chunk : y < l
                            /\ ~ (Cardinality(drain[d].chunk) < Chunk)
                      /\ drain[d].pc = "write" /\ l \in drain[d].chunk =>
                            Shows(r, s, l)' \/ drain[d].seen[l] >= since'[r][l]
                      /\ drain[d].pc \in {"acknowledge", "advance"} /\ l \in drain[d].chunk =>
                            Shows(r, s, l)'
                      /\ drain[d].pc = "complete" => Shows(r, s, l)'
  BY DEF InWork
<1>2. r \in Runs
  BY <1>1 DEF InStage, Typed, Shapes, DrainShape
<1>3. l \in Items(r) /\ l \in Listings /\ Counts(r, l)
  BY <1>1, <1>2 DEF ItemsStay, Counts, Items
<1>4. Shows(r, s, l) => Shows(r, s, l)'
  <2>1. /\ shown[s][l] \in Int /\ shown'[s][l] \in Int /\ since[r][l] \in Int
        /\ shown'[s][l] >= shown[s][l]
    BY <1>1, <1>2, <1>3, VersionsAreNumbers DEF Grows, Typed, TypeOK, ListingsOK
  <2> QED
    BY <2>1 DEF Shows, ItemsStay
<1>5. InWork(d)
  BY DEF Worked
<1> QED
  BY <1>1, <1>3, <1>4, <1>5 DEF InWork, ItemsStay

\* A step that keeps what the stages report.
LEMMA WorkedMoves ==
    ASSUME Typed, Typed', Worked, Grows, ItemsStay,
           \A r \in Runs : \A s \in Scoped : stage'[r][s] = "done" => stage[r][s] = "done",
           cursor' = cursor, NotAhead', \A d \in Drainers : InWork(d)'
    PROVE  Worked'
<1>1. ASSUME NEW r \in Runs, NEW l \in Listings, NEW s \in Scoped, Shows(r, s, l)
      PROVE  Shows(r, s, l)'
  <2>1. /\ shown[s][l] \in Int /\ shown'[s][l] \in Int /\ since[r][l] \in Int
        /\ shown'[s][l] >= shown[s][l]
    BY VersionsAreNumbers DEF Grows, Typed, TypeOK, ListingsOK
  <2> QED
    BY <1>1, <2>1 DEF Shows, ItemsStay
<1>2. DoneIsShown'
  BY <1>1 DEF Worked, DoneIsShown, Counts, ItemsStay
<1>3. CursorIsShown' /\ ItemsAreDated'
  <2>1. \A r \in Runs : \A l \in Items(r)' : l \in Items(r) /\ l \in Listings
    BY DEF ItemsStay, Items
  <2> QED
    BY <1>1, <2>1 DEF Worked, CursorIsShown, ItemsAreDated, Counts, ItemsStay
<1> QED
  BY <1>2, <1>3 DEF Worked

\* What is computed from a listing stays behind it.
LEMMA NotAheadMoves ==
    ASSUME Typed, Worked, UNCHANGED <<since, refresh>>, NEW d \in Drainers, Alone(d),
           \A s \in Scoped : \A l \in Listings : shown'[s][l] <= version[l],
           \A l \in Listings : drain'[d].seen[l] <= version[l], version' = version
    PROVE  NotAhead'
BY DEF Worked, NotAhead, Alone

\* A step of one drain that leaves stages and cursors.
LEMMA WorkedDrain ==
    ASSUME Typed, Typed', Worked, Grows, UNCHANGED <<version, since, late, work, stage, cursor, refresh>>,
           NEW d \in Drainers, Alone(d), InWork(d)',
           \A s \in Scoped : \A l \in Listings : shown'[s][l] <= version[l],
           \A l \in Listings : drain'[d].seen[l] <= version[l]
    PROVE  Worked'
<1>1. ItemsStay
  BY DEF ItemsStay, Items
<1>2. \A e \in Drainers : InWork(e)'
  BY <1>1, WorkKept DEF Alone
<1>3. NotAhead'
  BY NotAheadMoves
<1> QED
  BY <1>1, <1>2, <1>3, WorkedMoves

\* What InWork asks of the place an invocation has moved to.
WorksOn(d, r, s, l) ==
    /\ l <= drain'[d].after => shown'[s][l] >= since[r][l]
    /\ drain'[d].pc \in HasChunk /\ l \notin drain'[d].chunk /\ l > drain'[d].after =>
          /\ \A y \in drain'[d].chunk : y < l
          /\ ~ (Cardinality(drain'[d].chunk) < Chunk)
    /\ drain'[d].pc = "write" /\ l \in drain'[d].chunk =>
          shown'[s][l] >= since[r][l] \/ drain'[d].seen[l] >= since[r][l]
    /\ drain'[d].pc \in {"acknowledge", "advance"} /\ l \in drain'[d].chunk =>
          shown'[s][l] >= since[r][l]
    /\ drain'[d].pc = "complete" => shown'[s][l] >= since[r][l]

LEMMA WorkGoesOn ==
    ASSUME NEW d \in Drainers, NEW r \in Runs, NEW s \in Stages,
           UNCHANGED <<work, since, late>>, drain'[d].run = r, drain'[d].stage = s,
           drain'[d].pc \in InStage,
           ASSUME s \in Scoped, NEW l \in Items(r), Counts(r, l) PROVE WorksOn(d, r, s, l)
    PROVE  InWork(d)'
BY DEF InWork, WorksOn, Counts, Shows, Items

LEMMA DrainIsWorked ==
    ASSUME Typed, Typed', Ordered, Worked, NEW d \in Drainers, DrainSteps(d)
    PROVE  Worked'
<1> DEFINE r == drain[d].run
           s == drain[d].stage
<1>0. /\ InWork(d) /\ InOrder(d)
      /\ \A t \in Scoped : \A l \in Listings : shown[t][l] <= version[l]
      /\ \A l \in Listings : drain[d].seen[l] <= version[l]
      /\ \A l \in Listings : \A q \in Runs : since[q][l] <= version[l]
  BY DEF Worked, NotAhead, Ordered
<1>a. ASSUME shown' = shown
      PROVE  Grows /\ \A t \in Scoped : \A l \in Listings : shown'[t][l] <= version[l]
  BY <1>0, <1>a, VersionsAreNumbers DEF Grows
<1>b. /\ \A q \in Runs : Items(q) \subseteq Listings
      /\ drain[d].after \in Int /\ \A l \in Listings : l \in Int /\ l > 0
      /\ \A l \in Listings : version[l] \in Int
      /\ \A q \in Runs : \A l \in Listings : since[q][l] \in Int
      /\ \A l \in Listings : drain[d].seen[l] \in Int
      /\ \A t \in Scoped : \A l \in Listings : shown[t][l] \in Int /\ shown'[t][l] \in Int
  BY VersionsAreNumbers DEF Items, Typed, TypeOK, ListingsOK
<1>1. CASE DrainNext(d)
  <2>1. /\ UNCHANGED <<version, shown, since, late, work, stage, cursor, refresh>>
        /\ Alone(d) /\ r \in Runs /\ GoesOn(d)
    BY <1>1, DrainNextDoes DEF runs, listings
  <2>2. \A l \in Listings : drain'[d].seen[l] <= version[l]
    BY <1>0, <2>1, VersionsAreNumbers DEF NoDrain, AllZero, GoesOn
  <2>3. InWork(d)'
    <3>1. CASE drain'[d].pc \notin InStage
      BY <3>1 DEF InWork
    <3>2. CASE drain'[d].pc \in InStage
      <4>1. /\ drain'[d].pc = "claim" /\ drain'[d].run = r /\ drain'[d].stage \in Stages
            /\ drain'[d].after = cursor[r][drain'[d].stage]
        BY <2>1, <3>2 DEF GoesOn, SameRun, NoDrain, InStage, Owed
      <4>2. ASSUME drain'[d].stage \in Scoped, NEW l \in Items(r), Counts(r, l), l <= drain'[d].after
            PROVE  shown[drain'[d].stage][l] >= since[r][l]
        <5>1. cursor[r][drain'[d].stage] \in Int /\ l \in Int
          BY <1>b, <2>1, <4>1, Bounds DEF RunsOK, Typed, TypeOK
        <5> QED
          BY <2>1, <4>1, <4>2, <5>1 DEF Worked, CursorIsShown, Shows
      <4> QED
        BY <2>1, <3>2, <4>1, <4>2, WorkGoesOn DEF WorksOn, HasChunk
    <3> QED
      BY <3>1, <3>2
  <2> QED
    BY <1>a, <2>1, <2>2, <2>3, WorkedDrain
<1>2. CASE DrainClaim(d)
  <2>1. /\ UNCHANGED <<version, shown, since, late, work, stage, cursor, refresh>>
        /\ Alone(d) /\ SameStage(d) /\ drain[d].pc = "claim" /\ r \in Runs /\ s \in Stages
        /\ drain'[d].seen = drain[d].seen
    BY <1>2, DrainClaimDoes DEF runs, listings
  <2>2. /\ drain'[d].pc = "complete" <=> drain'[d].chunk = {}
        /\ drain'[d].pc \in {"complete", "read", "sync"}
    BY <1>2, DrainClaimDoes
  <2>3. ASSUME s \in Scoped, NEW l \in Items(r), Counts(r, l)
        PROVE  WorksOn(d, r, s, l)
    <3>1. s # Cleanup /\ l \in Listings /\ l \in Int
      BY <1>b, <2>1, <2>3 DEF Scoped, Cleanup
    <3>2. l <= drain[d].after => shown[s][l] >= since[r][l]
      BY <1>0, <2>1, <2>3 DEF InWork, InStage, Shows
    <3>3. l \notin drain'[d].chunk /\ l > drain[d].after =>
             /\ drain'[d].chunk # {}
             /\ \A y \in drain'[d].chunk : y < l
             /\ ~ (Cardinality(drain'[d].chunk) < Chunk)
      BY <1>2, <2>3, <3>1, DrainClaimDoes
    <3> QED
      BY <1>b, <2>1, <2>2, <3>1, <3>2, <3>3 DEF WorksOn, SameStage, HasChunk
  <2>4. InWork(d)'
    BY <2>1, <2>2, <2>3, WorkGoesOn DEF SameStage, SameRun, InStage
  <2> QED
    BY <1>0, <1>a, <2>1, <2>4, WorkedDrain
<1>3. CASE DrainRead(d)
  <2>1. /\ UNCHANGED <<version, since, late, work, stage, cursor, refresh>>
        /\ Alone(d) /\ SameStage(d) /\ drain'[d].chunk = drain[d].chunk
        /\ drain[d].pc = "read" /\ drain'[d].pc = "write" /\ r \in Runs /\ s \in Scoped
        /\ Grows
        /\ \A t \in Scoped : \A l \in Listings : shown'[t][l] \in {shown[t][l], version[l]}
        /\ \A l \in Listings : drain'[d].seen[l] \in {0, version[l]}
        /\ \A l \in drain[d].chunk : drain'[d].seen[l] = version[l] \/ shown'[s][l] >= version[l]
    BY <1>3, DrainReadDoes DEF runs, Scoped
  <2>2. /\ \A t \in Scoped : \A l \in Listings : shown'[t][l] <= version[l]
        /\ \A l \in Listings : drain'[d].seen[l] <= version[l]
    BY <1>0, <2>1, VersionsAreNumbers
  <2>3. ASSUME NEW l \in Items(r), Counts(r, l)
        PROVE  WorksOn(d, r, s, l)
    <3>1. l \in Listings /\ shown'[s][l] >= shown[s][l]
      BY <1>b, <2>1 DEF Grows
    <3>2. /\ l <= drain[d].after => shown[s][l] >= since[r][l]
          /\ l \notin drain[d].chunk /\ l > drain[d].after =>
                /\ \A y \in drain[d].chunk : y < l
                /\ ~ (Cardinality(drain[d].chunk) < Chunk)
      BY <1>0, <2>1, <2>3 DEF InWork, InStage, HasChunk, Shows
    <3>3. l \in drain[d].chunk => drain'[d].seen[l] >= since[r][l] \/ shown'[s][l] >= since[r][l]
      BY <1>0, <1>b, <2>1, <3>1
    <3> QED
      BY <1>b, <2>1, <3>1, <3>2, <3>3 DEF WorksOn, SameStage
  <2>4. InWork(d)'
    <3>1. s \in Stages
      BY <2>1 DEF Scoped, Stages
    <3> QED
      BY <2>1, <2>3, <3>1, WorkGoesOn DEF SameStage, SameRun, InStage
  <2> QED
    BY <2>1, <2>2, <2>4, WorkedDrain
<1>4. CASE DrainWrite(d)
  <2>1. /\ UNCHANGED <<version, since, late, work, stage, cursor, refresh>>
        /\ Alone(d) /\ SameStage(d) /\ drain'[d].chunk = drain[d].chunk
        /\ drain[d].pc = "write" /\ drain'[d].pc = "advance" /\ r \in Runs /\ s \in Scoped
        /\ drain'[d].seen = AllZero /\ Grows
        /\ \A t \in Scoped : \A l \in Listings : shown'[t][l] \in {shown[t][l], drain[d].seen[l]}
        /\ \A l \in drain[d].chunk : shown'[s][l] >= drain[d].seen[l]
    BY <1>4, DrainWriteDoes DEF runs, Scoped
  <2>2. /\ \A t \in Scoped : \A l \in Listings : shown'[t][l] <= version[l]
        /\ \A l \in Listings : drain'[d].seen[l] <= version[l]
    BY <1>0, <2>1, VersionsAreNumbers DEF AllZero
  <2>3. ASSUME NEW l \in Items(r), Counts(r, l)
        PROVE  WorksOn(d, r, s, l)
    <3>1. l \in Listings /\ shown'[s][l] >= shown[s][l]
      BY <1>b, <2>1 DEF Grows
    <3>2. /\ l <= drain[d].after => shown[s][l] >= since[r][l]
          /\ l \notin drain[d].chunk /\ l > drain[d].after =>
                /\ \A y \in drain[d].chunk : y < l
                /\ ~ (Cardinality(drain[d].chunk) < Chunk)
          /\ l \in drain[d].chunk => shown[s][l] >= since[r][l] \/ drain[d].seen[l] >= since[r][l]
      BY <1>0, <2>1, <2>3 DEF InWork, InStage, HasChunk, Shows
    <3>3. l \in drain[d].chunk => shown'[s][l] >= since[r][l]
      BY <1>b, <2>1, <3>1, <3>2
    <3> QED
      BY <1>b, <2>1, <3>1, <3>2, <3>3 DEF WorksOn, SameStage
  <2>4. InWork(d)'
    <3>1. s \in Stages
      BY <2>1 DEF Scoped, Stages
    <3> QED
      BY <2>1, <2>3, <3>1, WorkGoesOn DEF SameStage, SameRun, InStage
  <2> QED
    BY <2>1, <2>2, <2>4, WorkedDrain
<1>5. CASE DrainSync(d)
  <2>1. /\ UNCHANGED <<version, since, late, work, stage, cursor, refresh>>
        /\ Alone(d) /\ SameStage(d) /\ drain'[d].chunk = drain[d].chunk
        /\ drain'[d].seen = drain[d].seen
        /\ drain[d].pc = "sync" /\ drain'[d].pc \in {"acknowledge", "advance"}
        /\ r \in Runs /\ s \in {3, 4} /\ Grows
        /\ \A t \in Scoped : \A l \in Listings : shown'[t][l] \in {shown[t][l], shown[2][l]}
        /\ s = 3 => \A l \in drain[d].chunk : shown'[3][l] >= shown[2][l]
    BY <1>5, DrainSyncDoes DEF runs
  <2>2. \A t \in Scoped : \A l \in Listings : shown'[t][l] <= version[l]
    BY <1>0, <1>b, <2>1 DEF Scoped
  <2>3. ASSUME s \in Scoped, NEW l \in Items(r), Counts(r, l)
        PROVE  WorksOn(d, r, s, l)
    <3>1. l \in Listings /\ shown'[s][l] >= shown[s][l] /\ s = 3
      BY <1>b, <2>1, <2>3 DEF Grows, Scoped
    <3>2. /\ l <= drain[d].after => shown[s][l] >= since[r][l]
          /\ l \notin drain[d].chunk /\ l > drain[d].after =>
                /\ \A y \in drain[d].chunk : y < l
                /\ ~ (Cardinality(drain[d].chunk) < Chunk)
      BY <1>0, <2>1, <2>3 DEF InWork, InStage, HasChunk, Shows
    <3>3. shown[2][l] >= since[r][l]
      <4>1. stage[r][2] = "done"
        BY <1>0, <2>1, <3>1 DEF InOrder, InStage, Stages
      <4> QED
        BY <2>1, <2>3, <3>1, <4>1 DEF Worked, DoneIsShown, Shows, Scoped
    <3>4. l \in drain[d].chunk => shown'[s][l] >= since[r][l]
      BY <1>b, <2>1, <3>1, <3>3 DEF Scoped
    <3> QED
      BY <1>b, <2>1, <2>3, <3>1, <3>2, <3>4 DEF WorksOn, SameStage
  <2>4. InWork(d)'
    <3>1. s \in Stages
      BY <2>1 DEF Stages
    <3> QED
      BY <2>1, <2>3, <3>1, WorkGoesOn DEF SameStage, SameRun, InStage
  <2> QED
    BY <1>0, <2>1, <2>2, <2>4, WorkedDrain
<1>6. CASE DrainAcknowledge(d)
  <2>1. /\ UNCHANGED <<version, shown, since, late, work, stage, cursor, refresh>>
        /\ Alone(d) /\ SameStage(d) /\ drain'[d].chunk = drain[d].chunk
        /\ drain'[d].seen = drain[d].seen
        /\ drain[d].pc = "acknowledge" /\ drain'[d].pc = "advance" /\ r \in Runs /\ s = 3
    BY <1>6, DrainAcknowledgeDoes DEF runs
  <2>2. ASSUME NEW l \in Items(r), Counts(r, l)
        PROVE  WorksOn(d, r, s, l)
    BY <1>0, <2>1, <2>2 DEF InWork, InStage, HasChunk, Shows, WorksOn, SameStage, Scoped
  <2>3. InWork(d)'
    <3>1. s \in Stages
      BY <2>1 DEF Stages
    <3> QED
      BY <2>1, <2>2, <3>1, WorkGoesOn DEF SameStage, SameRun, InStage
  <2> QED
    BY <1>0, <1>a, <2>1, <2>3, WorkedDrain
<1>7. CASE DrainAdvance(d)
  <2>1. /\ UNCHANGED <<version, shown, since, late, work, stage, refresh>>
        /\ Alone(d) /\ SameRun(d) /\ drain'[d].stage = s
        /\ drain'[d].chunk = {} /\ drain'[d].seen = drain[d].seen
        /\ drain[d].pc = "advance" /\ drain'[d].pc \in {"complete", "claim"}
        /\ drain'[d].pc = "complete" => Cardinality(drain[d].chunk) < Chunk
        /\ r \in Runs /\ s \in Stages
        /\ drain'[d].after \in drain[d].chunk /\ drain[d].chunk \in SUBSET Listings
        /\ \A l \in drain[d].chunk : l <= drain'[d].after
        /\ \A q \in Runs : \A t \in Stages :
              \/ cursor'[q][t] = cursor[q][t]
              \/ q = r /\ t = s /\ cursor'[q][t] = drain'[d].after
    <3>1. drain[d].chunk \in SUBSET Listings
      BY DrainFields DEF Typed, TypeOK
    <3> QED
      BY <1>7, <3>1, DrainAdvanceDoes DEF listings
  <2>2. ASSUME s \in Scoped, NEW l \in Items(r), Counts(r, l)
        PROVE  /\ l <= drain'[d].after => shown[s][l] >= since[r][l]
               /\ drain'[d].pc = "complete" => shown[s][l] >= since[r][l]
    <3>1. l \in Listings /\ l \in Int /\ drain'[d].after \in Int /\ drain[d].after \in Int
      BY <1>b, <2>1
    <3>2. /\ l <= drain[d].after => shown[s][l] >= since[r][l]
          /\ l \notin drain[d].chunk /\ l > drain[d].after =>
                /\ \A y \in drain[d].chunk : y < l
                /\ ~ (Cardinality(drain[d].chunk) < Chunk)
          /\ l \in drain[d].chunk => shown[s][l] >= since[r][l]
      BY <1>0, <2>1, <2>2 DEF InWork, InStage, HasChunk, Shows
    <3> QED
      BY <2>1, <3>1, <3>2
  <2>3. InWork(d)'
    <3>1. ASSUME s \in Scoped, NEW l \in Items(r), Counts(r, l)
          PROVE  WorksOn(d, r, s, l)
      BY <2>1, <2>2, <3>1 DEF WorksOn, HasChunk
    <3> QED
      BY <2>1, <3>1, WorkGoesOn DEF SameRun, InStage
  <2>4. Grows /\ ItemsStay
    BY <1>a, <2>1 DEF ItemsStay, Items
  <2>5. \A e \in Drainers : InWork(e)'
    BY <2>1, <2>3, <2>4, WorkKept DEF Alone
  <2>6. NotAhead'
    BY <1>0, <1>a, <2>1, NotAheadMoves
  <2>7. CursorIsShown'
    <3> SUFFICES ASSUME NEW q \in Runs, NEW l \in Items(q), NEW t \in Scoped, Counts(q, l),
                        cursor'[q][t] >= l
                 PROVE  shown[t][l] >= since[q][l]
      BY <2>1 DEF CursorIsShown, Items, Counts, Shows
    <3>1. t \in Stages
      BY DEF Scoped, Stages
    <3>2. CASE cursor'[q][t] = cursor[q][t]
      BY <3>2 DEF Worked, CursorIsShown, Shows
    <3>3. CASE q = r /\ t = s /\ cursor'[q][t] = drain'[d].after
      <4>1. drain'[d].after \in Int /\ l \in Int
        BY <1>b, <2>1
      <4> QED
        BY <2>2, <3>3, <4>1
    <3> QED
      BY <2>1, <3>1, <3>2, <3>3
  <2>8. DoneIsShown' /\ ItemsAreDated'
    BY <2>1 DEF Worked, DoneIsShown, ItemsAreDated, Counts, Shows, Items
  <2> QED
    BY <2>5, <2>6, <2>7, <2>8 DEF Worked
<1>8. CASE DrainComplete(d)
  <2>1. /\ UNCHANGED <<version, shown, since, late, work, cursor, refresh>>
        /\ Alone(d) /\ drain'[d].seen = drain[d].seen
        /\ drain[d].pc = "complete" /\ drain'[d].pc = "next"
        /\ r \in Runs /\ s \in Stages
        /\ \A q \in Runs : \A t \in Stages : stage'[q][t] =
              IF q = r /\ t = s THEN "done" ELSE stage[q][t]
    BY <1>8, DrainCompleteDoes DEF listings
  <2>2. InWork(d)'
    BY <2>1 DEF InWork, InStage
  <2>3. Grows /\ ItemsStay
    BY <1>a, <2>1 DEF ItemsStay, Items
  <2>4. \A e \in Drainers : InWork(e)'
    BY <2>1, <2>2, <2>3, WorkKept DEF Alone
  <2>5. NotAhead'
    BY <1>0, <1>a, <2>1, NotAheadMoves
  <2>6. ASSUME s \in Scoped, NEW l \in Listings, Counts(r, l)
        PROVE  shown[s][l] >= since[r][l]
    <3>1. CASE l \in Items(r)
      BY <1>0, <2>1, <2>6, <3>1 DEF InWork, InStage, Shows
    <3>2. CASE l \notin Items(r)
      <4>1. ~ OwesScoped(r)
        BY <2>1, <2>6, <3>2 DEF Ordered, ItemsOutlive, Counts
      <4>2. stage[r][s] = "done"
        BY <1>0, <2>1, <2>6, <4>1 DEF InOrder, OnRun, InStage, OwesScoped, Owed
      <4> QED
        BY <2>1, <2>6, <4>2 DEF Worked, DoneIsShown, Shows
    <3> QED
      BY <3>1, <3>2
  <2>7. DoneIsShown'
    <3> SUFFICES ASSUME NEW q \in Runs, NEW l \in Listings, NEW t \in Scoped, Counts(q, l),
                        stage'[q][t] = "done"
                 PROVE  shown[t][l] >= since[q][l]
      BY <2>1 DEF DoneIsShown, Counts, Shows
    <3>1. CASE q = r /\ t = s
      BY <2>6, <3>1
    <3>2. CASE ~ (q = r /\ t = s)
      BY <2>1, <3>2 DEF Worked, DoneIsShown, Shows, Scoped, Stages
    <3> QED
      BY <3>1, <3>2
  <2>8. CursorIsShown' /\ ItemsAreDated'
    BY <2>1 DEF Worked, CursorIsShown, ItemsAreDated, Counts, Shows, Items
  <2> QED
    BY <2>4, <2>5, <2>7, <2>8 DEF Worked
<1> QED
  BY <1>1, <1>2, <1>3, <1>4, <1>5, <1>6, <1>7, <1>8 DEF DrainSteps

(***************************************************************************)
(* What the steps of a refresh do.                                         *)
(***************************************************************************)

RefreshAlone(f) == \A g \in Refreshers : g # f => refresh'[g] = refresh[g]

SameListing(f) ==
    /\ refresh'[f].listing = refresh[f].listing
    /\ refresh'[f].token = refresh[f].token

LEMMA RefreshPut ==
    ASSUME Typed, NEW f \in Refreshers, NEW to, refresh' = [refresh EXCEPT ![f] = to]
    PROVE  refresh'[f] = to /\ RefreshAlone(f)
BY DEF RefreshAlone, InvocationsOK, Typed, TypeOK

LEMMA RefreshStands ==
    ASSUME Typed, NEW f \in Refreshers, refresh[f].pc # "idle"
    PROVE  refresh[f].listing \in Listings /\ refresh[f].stage \in {1, 2}
BY DEF Typed, Shapes, RefreshShape

LEMMA RefreshReadsDoes ==
    ASSUME Typed, NEW f \in Refreshers, RefreshReads(f)
    PROVE  LET l == refresh[f].listing
               s == refresh[f].stage
           IN
           /\ UNCHANGED <<version, pending, runs, crawl, drain, attempts, faults>>
           /\ RefreshAlone(f) /\ SameListing(f) /\ l \in Listings /\ s \in {1, 2}
           /\ refresh[f].pc = "read" /\ refresh'[f].pc = "write" /\ refresh'[f].stage = s
           /\ Grows
           /\ \A t \in Scoped : \A x \in Listings : shown'[t][x] \in {shown[t][x], version[x]}
           /\ refresh'[f].seen \in {0, version[l]}
           /\ refresh'[f].seen = version[l] \/ shown'[s][l] >= version[l]
<1> DEFINE l == refresh[f].listing
           s == refresh[f].stage
           seen == Differing(s, {l})[l]
           same == {x \in {l} : image[s][x] = version[x]}
<1>1. UNCHANGED <<version, pending, runs, crawl, drain, attempts, faults>> /\ refresh[f].pc = "read"
  BY DEF RefreshReads
<1>2. l \in Listings /\ s \in {1, 2}
  BY <1>1, RefreshStands
<1>3. refresh' = [refresh EXCEPT ![f] = [@ EXCEPT !.pc = "write", !.seen = seen]]
  BY DEF RefreshReads
<1>4. Shown(s, same, version)
  BY DEF RefreshReads
<1>5. seen = IF image[s][l] # version[l] THEN version[l] ELSE 0
  BY <1>2 DEF Differing
<1>6. same \in SUBSET Listings /\ s \in Scoped
  BY <1>2 DEF Scoped
<1> HIDE DEF seen
<1>7. refresh'[f] = [refresh[f] EXCEPT !.pc = "write", !.seen = seen] /\ RefreshAlone(f)
  BY <1>3, RefreshPut
<1>8. /\ SameListing(f) /\ refresh'[f].pc = "write" /\ refresh'[f].stage = s
      /\ refresh'[f].seen = seen
  BY <1>7, RefreshFields DEF SameListing, RefreshStates, Typed, TypeOK
<1>9. /\ \A t \in Scoped : \A x \in Listings :
            shown'[t][x] >= shown[t][x] /\ shown'[t][x] \in {shown[t][x], version[x]}
      /\ \A x \in same : shown'[s][x] >= version[x]
  <2> HIDE DEF same, s
  <2>1. version \in [Listings -> 0..MaxVersion]
    BY VersionsAreTyped
  <2> QED
    BY <1>4, <1>6, <2>1, ShownGrows
<1>10. seen = version[l] \/ shown'[s][l] >= version[l]
  BY <1>5, <1>9
<1> QED
  BY <1>1, <1>2, <1>5, <1>7, <1>8, <1>9, <1>10 DEF Grows

LEMMA RefreshWritesDoes ==
    ASSUME Typed, NEW f \in Refreshers, RefreshWrites(f)
    PROVE  LET l == refresh[f].listing
               s == refresh[f].stage
           IN
           /\ UNCHANGED <<version, pending, runs, crawl, drain, attempts, faults>>
           /\ RefreshAlone(f) /\ SameListing(f) /\ l \in Listings /\ s \in {1, 2}
           /\ refresh[f].pc = "write" /\ refresh'[f].pc = (IF s = 1 THEN "read" ELSE "sync")
           /\ refresh'[f].stage = 2 /\ refresh'[f].seen = 0
           /\ Grows
           /\ \A t \in Scoped : \A x \in Listings :
                 \/ shown'[t][x] = shown[t][x]
                 \/ x = l /\ shown'[t][x] = refresh[f].seen
           /\ shown'[s][l] >= refresh[f].seen
<1> DEFINE l == refresh[f].listing
           s == refresh[f].stage
           seen == [AllZero EXCEPT ![l] = refresh[f].seen]
<1>1. UNCHANGED <<version, pending, runs, crawl, drain, attempts, faults>> /\ refresh[f].pc = "write"
  BY DEF RefreshWrites
<1>2. l \in Listings /\ s \in {1, 2} /\ s \in Scoped
  BY <1>1, RefreshStands DEF Scoped
<1>3. refresh' = [refresh EXCEPT ![f] =
           IF s = 1 THEN [@ EXCEPT !.pc = "read", !.stage = 2, !.seen = 0]
           ELSE [@ EXCEPT !.pc = "sync", !.seen = 0]]
  BY DEF RefreshWrites
<1>4. Shown(s, {l}, seen)
  BY DEF RefreshWrites
<1>5. seen \in [Listings -> 0..MaxVersion] /\ seen[l] = refresh[f].seen
  <2>1. AllZero \in [Listings -> 0..MaxVersion]
    BY Bounds DEF AllZero
  <2>2. refresh[f].seen \in 0..MaxVersion
    BY RefreshFields DEF Typed, TypeOK
  <2> QED
    BY <1>2, <2>1, <2>2
<1>6. /\ refresh'[f] = IF s = 1 THEN [refresh[f] EXCEPT !.pc = "read", !.stage = 2, !.seen = 0]
                       ELSE [refresh[f] EXCEPT !.pc = "sync", !.seen = 0]
      /\ RefreshAlone(f)
  BY <1>3, RefreshPut
<1>7. /\ SameListing(f) /\ refresh'[f].pc = (IF s = 1 THEN "read" ELSE "sync")
      /\ refresh'[f].stage = 2 /\ refresh'[f].seen = 0
  <2>1. refresh[f] \in RefreshStates
    BY RefreshFields DEF Typed, TypeOK
  <2>2. CASE s = 1
    BY <1>6, <2>1, <2>2 DEF SameListing, RefreshStates
  <2>3. CASE s = 2
    BY <1>6, <2>1, <2>3 DEF SameListing, RefreshStates
  <2> QED
    BY <1>2, <2>2, <2>3
<1> HIDE DEF seen
<1>8. /\ \A t \in Scoped : \A x \in Listings :
            /\ shown'[t][x] >= shown[t][x]
            /\ \/ shown'[t][x] = shown[t][x]
               \/ x \in {l} /\ shown'[t][x] = seen[x]
      /\ \A x \in {l} : shown'[s][x] >= seen[x]
  <2>1. {l} \in SUBSET Listings
    BY <1>2
  <2> HIDE DEF s
  <2> QED
    BY <1>2, <1>4, <1>5, <2>1, ShownGrows
<1> QED
  BY <1>1, <1>2, <1>5, <1>6, <1>7, <1>8 DEF Grows

LEMMA RefreshSyncsDoes ==
    ASSUME Typed, NEW f \in Refreshers, RefreshSyncs(f)
    PROVE  LET l == refresh[f].listing IN
           /\ UNCHANGED <<version, pending, runs, crawl, drain, attempts, faults>>
           /\ RefreshAlone(f) /\ SameListing(f) /\ l \in Listings
           /\ refresh[f].pc = "sync" /\ refresh'[f].pc = "acknowledge"
           /\ refresh'[f].stage = refresh[f].stage /\ refresh'[f].seen = refresh[f].seen
           /\ Grows
           /\ \A t \in Scoped : \A x \in Listings : shown'[t][x] \in {shown[t][x], shown[2][x]}
           /\ shown'[3][l] >= shown[2][l]
<1>1. UNCHANGED <<version, pending, runs, crawl, drain, attempts, faults>> /\ refresh[f].pc = "sync"
  BY DEF RefreshSyncs
<1>2. refresh[f].listing \in Listings /\ {refresh[f].listing} \in SUBSET Listings
  BY <1>1, RefreshStands
<1>3. Synced({refresh[f].listing}) /\ refresh' = [refresh EXCEPT ![f] = [@ EXCEPT !.pc = "acknowledge"]]
  BY DEF RefreshSyncs
<1>4. refresh'[f] = [refresh[f] EXCEPT !.pc = "acknowledge"] /\ RefreshAlone(f)
  BY <1>3, RefreshPut
<1>5. /\ SameListing(f) /\ refresh'[f].pc = "acknowledge" /\ refresh'[f].stage = refresh[f].stage
      /\ refresh'[f].seen = refresh[f].seen
  BY <1>4, RefreshFields DEF SameListing, RefreshStates, Typed, TypeOK
<1> QED
  BY <1>1, <1>2, <1>3, <1>4, <1>5, SyncedShows

LEMMA RefreshAcknowledgesDoes ==
    ASSUME Typed, NEW f \in Refreshers, RefreshAcknowledges(f)
    PROVE  /\ UNCHANGED <<version, image, shown, runs, crawl, drain, attempts, faults>>
           /\ RefreshAlone(f) /\ refresh[f].listing \in Listings
           /\ refresh[f].pc = "acknowledge" /\ refresh'[f] = NoRefresh
           /\ \A l \in Listings : pending'[l] =
                 IF l = refresh[f].listing /\ pending[l] = refresh[f].token THEN 0 ELSE pending[l]
<1>1. /\ UNCHANGED <<version, image, shown, runs, crawl, drain, attempts, faults>>
      /\ refresh[f].pc = "acknowledge" /\ refresh' = [refresh EXCEPT ![f] = NoRefresh]
  BY DEF RefreshAcknowledges
<1>2. refresh[f].listing \in Listings
  BY <1>1, RefreshStands
<1>3. Acknowledged({refresh[f].listing}, [l \in Listings |-> refresh[f].token])
  BY DEF RefreshAcknowledges
<1> QED
  BY <1>1, <1>2, <1>3, RefreshPut DEF Acknowledged

LEMMA RefreshEndsOrBegins ==
    ASSUME Typed, NEW f \in Refreshers,
           RefreshFails(f) \/ \E l \in Listings : RefreshBegins(f, l)
    PROVE  /\ UNCHANGED <<listings, runs, crawl, drain, attempts>> /\ RefreshAlone(f)
           /\ \/ refresh'[f] = NoRefresh
              \/ \E l \in Listings : /\ pending[l] # 0
                                     /\ refresh'[f] = [pc |-> "read", listing |-> l,
                                           token |-> pending[l], stage |-> 1, seen |-> 0]
<1>1. CASE RefreshFails(f)
  BY <1>1, RefreshPut DEF RefreshFails
<1>2. ASSUME NEW l \in Listings, RefreshBegins(f, l)
      PROVE  /\ UNCHANGED <<listings, runs, crawl, drain, attempts>> /\ RefreshAlone(f)
             /\ pending[l] # 0
             /\ refresh'[f] = [pc |-> "read", listing |-> l, token |-> pending[l], stage |-> 1, seen |-> 0]
  BY <1>2, RefreshPut DEF RefreshBegins
<1> QED
  BY <1>1, <1>2

\* A step that shows nothing and leaves the listings.
LEMMA WorkedQuiet ==
    ASSUME Typed, Typed', Worked, ItemsStay, UNCHANGED <<version, shown, cursor, refresh>>,
           \A r \in Runs : \A s \in Scoped : stage'[r][s] = "done" => stage[r][s] = "done",
           \A d \in Drainers : drain'[d] = drain[d] \/
               (drain'[d].pc \notin InStage /\ drain'[d].seen \in {AllZero, drain[d].seen})
    PROVE  Worked'
<1>1. Grows
  BY VersionsAreNumbers DEF Grows
<1>2. \A d \in Drainers : InWork(d)'
  <2> SUFFICES ASSUME NEW d \in Drainers PROVE InWork(d)'
    OBVIOUS
  <2>1. CASE drain'[d] = drain[d]
    BY <1>1, <2>1, WorkKept
  <2>2. CASE drain'[d].pc \notin InStage
    BY <2>2 DEF InWork
  <2> QED
    BY <2>1, <2>2
<1>3. \A l \in Listings : version[l] >= 0 /\ AllZero[l] = 0
  BY VersionsAreNumbers DEF AllZero
<1>4. \A d \in Drainers : \A l \in Listings : drain'[d].seen[l] <= version[l]
  BY <1>3 DEF Worked, NotAhead
<1>5. NotAhead'
  BY <1>4 DEF Worked, NotAhead, ItemsStay
<1> QED
  BY <1>1, <1>2, <1>5, WorkedMoves

LEMMA WorkedChanged ==
    ASSUME Typed, Typed', Worked, NEW l \in Listings, Changed(l),
           UNCHANGED <<shown, since, late, work, stage, cursor, drain, refresh>>
    PROVE  Worked'
<1>1. Grows /\ ItemsStay
  BY VersionsAreNumbers DEF Grows, ItemsStay, Items
<1>2. \A x \in Listings : version'[x] >= version[x] /\ version'[x] \in Int
  <2>1. version' = [version EXCEPT ![l] = @ + 1]
    BY DEF Changed
  <2> QED
    BY <2>1, VersionsAreNumbers DEF Typed, TypeOK, ListingsOK
<1>3. NotAhead'
  <2>1. /\ \A s \in Scoped : \A x \in Listings : shown[s][x] <= version'[x]
        /\ \A r \in Runs : \A x \in Listings : since[r][x] <= version'[x]
        /\ \A d \in Drainers : \A x \in Listings : drain[d].seen[x] <= version'[x]
        /\ \A f \in Refreshers : \A x \in Listings :
              refresh[f].listing = x => refresh[f].seen <= version'[x]
    BY <1>2, VersionsAreNumbers DEF Worked, NotAhead
  <2> QED
    BY <2>1 DEF NotAhead
<1>4. \A d \in Drainers : InWork(d)'
  BY <1>1, WorkKept
<1> QED
  BY <1>1, <1>3, <1>4, WorkedMoves

\* Items are added with the listing's version; where the stages exist, late.
LEMMA WorkedItems ==
    ASSUME Typed, Typed', Ordered, Worked, newest \in Runs, NEW added \in SUBSET Listings,
           NEW token \in [Listings -> 0..MaxVersion], AddItems(added, token),
           UNCHANGED <<version, shown, stage, cursor, drain, refresh>>
    PROVE  Worked'
<1> DEFINE isNew(r, l) == r = newest /\ l \in added /\ work[r][l] = NoItem
<1>1. /\ \A r \in Runs : \A l \in Listings :
            /\ work'[r][l] = IF isNew(r, l) THEN token[l] ELSE work[r][l]
            /\ since'[r][l] = IF isNew(r, l) THEN version[l] ELSE since[r][l]
            /\ isNew(r, l) /\ stage[r][1] # "none" => <<r, l>> \in late'
      /\ late \subseteq late'
  BY Added
<1>2. \A r \in Runs : \A l \in Listings : ~ isNew(r, l) /\ Counts(r, l)' =>
         Counts(r, l) /\ since'[r][l] = since[r][l]
  BY <1>1 DEF Counts
<1>3. \A r \in Runs : \A l \in Listings : isNew(r, l) /\ Counts(r, l)' =>
         \A s \in Stages : stage[r][s] = "none" /\ cursor[r][s] = 0
  <2>1. 1 \in Stages
    BY DEF Stages
  <2> QED
    BY <1>1, <2>1 DEF Counts, Ordered, StagesTogether
<1>4. \A r \in Runs : \A l \in Listings : ~ isNew(r, l) /\ l \in Items(r)' => l \in Items(r)
  BY <1>1 DEF Items
<1> HIDE DEF isNew
<1>5. Scoped \subseteq Stages /\ \A r \in Runs : Items(r)' \subseteq Listings
  BY DEF Scoped, Stages, Items
<1>6. ASSUME NEW r \in Runs, NEW l \in Listings, Counts(r, l)', isNew(r, l)
      PROVE  \A s \in Scoped : stage[r][s] = "none" /\ cursor[r][s] = 0
  BY <1>3, <1>5, <1>6
<1>7. DoneIsShown'
  <2> SUFFICES ASSUME NEW r \in Runs, NEW l \in Listings, NEW s \in Scoped, Counts(r, l)',
                      stage[r][s] = "done"
               PROVE  shown[s][l] >= since'[r][l]
    BY DEF DoneIsShown, Shows
  <2>1. ~ isNew(r, l)
    BY <1>6
  <2> QED
    BY <1>2, <2>1 DEF Worked, DoneIsShown, Shows
<1>8. CursorIsShown'
  <2> SUFFICES ASSUME NEW r \in Runs, NEW l \in Items(r)', NEW s \in Scoped, Counts(r, l)',
                      cursor[r][s] >= l
               PROVE  shown[s][l] >= since'[r][l]
    BY DEF CursorIsShown, Shows
  <2>1. l \in Listings /\ l \in Int /\ l > 0
    BY <1>5, VersionsAreNumbers
  <2>2. ~ isNew(r, l)
    BY <1>6, <2>1
  <2> QED
    BY <1>2, <1>4, <2>1, <2>2 DEF Worked, CursorIsShown, Shows
<1>9. ItemsAreDated'
  <2>1. \A r \in Runs : \A l \in Items(r)' : since'[r][l] # 0
    <3>1. \A l \in Listings : version[l] # 0
      BY VersionsAreNumbers
    <3>2. \A r \in Runs : \A l \in Items(r) : since[r][l] # 0
      BY DEF Worked, ItemsAreDated
    <3> QED
      BY <1>1, <1>4, <1>5, <3>1, <3>2
  <2> QED
    BY <2>1 DEF ItemsAreDated
<1>10. NotAhead'
  <2>1. \A r \in Runs : \A l \in Listings : since'[r][l] <= version[l]
    <3>1. \A l \in Listings : version[l] <= version[l]
      BY VersionsAreNumbers
    <3>2. \A r \in Runs : \A l \in Listings : since[r][l] <= version[l]
      BY DEF Worked, NotAhead
    <3>3. \A r \in Runs : \A l \in Listings : since'[r][l] \in {version[l], since[r][l]}
      BY <1>1
    <3> QED
      BY <3>1, <3>2, <3>3
  <2> QED
    BY <2>1 DEF Worked, NotAhead
<1>11. ASSUME NEW d \in Drainers
       PROVE  InWork(d)'
  <2> DEFINE r == drain[d].run
             s == drain[d].stage
  <2>1. SUFFICES ASSUME drain[d].pc \in InStage, s \in Scoped
                 PROVE  InWork(d)'
    BY DEF InWork
  <2>2. r \in Runs /\ s \in Stages
    BY <2>1 DEF InStage, Typed, Shapes, DrainShape
  <2>3. InOrder(d) /\ InWork(d)
    BY DEF Ordered, Worked
  <2>4. \A t \in Stages : stage[r][t] # "none"
    BY <2>1, <2>3 DEF InOrder, OnRun, InStage
  <2>5. ASSUME NEW l \in Items(r)', Counts(r, l)'
        PROVE  l \in Items(r) /\ Counts(r, l) /\ since'[r][l] = since[r][l]
    <3>1. drain' = drain /\ l \in Listings
      BY <1>5, <2>2
    <3>2. ~ isNew(r, l)
      BY <1>3, <2>2, <2>4, <2>5, <3>1
    <3> QED
      BY <1>2, <1>4, <2>2, <2>5, <3>1, <3>2
  <2> QED
    BY <2>1, <2>2, <2>3, <2>5 DEF InWork, Shows
<1> QED
  BY <1>7, <1>8, <1>9, <1>10, <1>11 DEF Worked

LEMMA CrawlIsWorked ==
    ASSUME Typed, Typed', Ordered, Worked, Crawling
    PROVE  Worked'
<1>1. CASE /\ UNCHANGED <<version, shown, cursor, refresh, work, since, late, stage>>
           /\ drain' = drain \/ drain' = [drain EXCEPT !["crawl"] = NoDrain]
  <2>1. NoDrain.pc \notin InStage /\ NoDrain.seen = AllZero
    BY DEF NoDrain, InStage
  <2>2. \A d \in Drainers : drain'[d] = drain[d] \/ drain'[d] = NoDrain
    BY <1>1 DEF InvocationsOK, Typed, TypeOK
  <2>3. ItemsStay
    BY <1>1 DEF ItemsStay, Items
  <2> QED
    BY <1>1, <2>1, <2>2, <2>3, WorkedQuiet
<1>2. ASSUME NEW l \in Listings, CrawlWrites(l)
      PROVE  Worked'
  BY <1>2, WorkedChanged DEF CrawlWrites, runs
<1>3. CASE RecordItems
  <2>1. newest \in Runs /\ pending \in [Listings -> 0..MaxVersion]
    BY <1>3 DEF RecordItems, At, Shapes, CrawlShape, ListingsOK, Typed, TypeOK
  <2> QED
    BY <1>3, <2>1, CrawlFields, WorkedItems DEF RecordItems, listings, Typed, TypeOK
<1>4. CASE RecordInherited
  <2> DEFINE added == UNION {Items(r) : r \in {q \in Runs \ {newest} : OwesScoped(q)}}
  <2>1. newest \in Runs /\ AllZero \in [Listings -> 0..MaxVersion]
    BY <1>4, Bounds DEF RecordInherited, At, Shapes, CrawlShape, AllZero, Typed, TypeOK
  <2>2. added \in SUBSET Listings
    BY DEF Items
  <2>3. AddItems(added, AllZero) /\ UNCHANGED <<version, shown, stage, cursor, drain, refresh>>
    BY <1>4 DEF RecordInherited, listings
  <2> HIDE DEF added
  <2> QED
    BY <2>1, <2>2, <2>3, WorkedItems
<1>5. CASE RecordStages
  <2>1. /\ newest \in Runs /\ UNCHANGED <<version, shown, work, cursor, since, late, refresh>>
        /\ stage' = [stage EXCEPT ![newest] =
                       [s \in Stages |-> IF @[s] = "none" THEN "pending" ELSE @[s]]]
        /\ drain' = [drain EXCEPT !["crawl"] =
                       [NoDrain EXCEPT !.pc = "next", !.run = newest, !.gen = attempts]]
    BY <1>5 DEF RecordStages, listings, At, Shapes, CrawlShape, Typed, TypeOK
  <2>2. \A r \in Runs : \A s \in Scoped : stage'[r][s] = "done" => stage[r][s] = "done"
    BY <2>1 DEF RunsOK, Typed, TypeOK, Scoped, Stages
  <2>3. /\ drain'["crawl"] = [NoDrain EXCEPT !.pc = "next", !.run = newest, !.gen = attempts]
        /\ drain'["sweep"] = drain["sweep"]
    BY <2>1, DrainPut DEF Drainers, Alone
  <2>4. drain'["crawl"].pc \notin InStage /\ drain'["crawl"].seen = AllZero
    BY <2>3 DEF NoDrain, InStage
  <2>5. ItemsStay
    BY <2>1 DEF ItemsStay, Items
  <2> QED
    BY <2>1, <2>2, <2>3, <2>4, <2>5, WorkedQuiet DEF Drainers
<1>6. CASE CrawlClears
  <2>1. /\ newest \in Runs /\ UNCHANGED <<version, shown, cursor, since, late, stage, drain, refresh>>
        /\ work' = Freed(newest)
    BY <1>6 DEF CrawlClears, listings, At, Shapes, CrawlShape, Typed
  <2>2. ItemsStay
    BY <2>1 DEF ItemsStay, Items, Freed, RunsOK, Typed, TypeOK
  <2> QED
    BY <2>1, <2>2, WorkedQuiet
<1>7. CASE CrawlStarts \/ CrawlWritten \/ RecordGeneration \/ CrawlProjected \/ CrawlFinishes
  BY <1>1, <1>7 DEF CrawlStarts, CrawlWritten, RecordGeneration, CrawlProjected, CrawlFinishes,
       listings, runs
<1>8. CASE CrawlMovesOn \/ CrawlFails \/ CrawlCrashes \/ CrawlDefers \/ RunRecovered
  BY <1>1, <1>8 DEF CrawlMovesOn, CrawlFails, CrawlCrashes, CrawlDefers, DefersTo, RunRecovered,
       listings, runs
<1> QED
  BY <1>2, <1>3, <1>4, <1>5, <1>6, <1>7, <1>8 DEF Crawling

LEMMA SweepIsWorked ==
    ASSUME Typed, Typed', Worked, Sweeping
    PROVE  Worked'
<1>0. "sweep" \in Drainers /\ (drain["sweep"].pc # "idle" => drain["sweep"].run \in Runs)
  BY DEF Drainers, Typed, Shapes, DrainShape
<1>1. UNCHANGED <<version, shown, cursor, refresh, since, late>>
  BY DEF Sweeping, SweepSteps, SweepBegins, SweepChecksNewer, SweepSupersedes, SweepDrops,
         SweepClears, SweepProjected, SweepStops, listings, runs
<1>2. ItemsStay
  <2>1. CASE work' = work
    BY <1>1, <2>1 DEF ItemsStay, Items
  <2>2. ASSUME NEW r \in Runs, work' = Freed(r)
        PROVE  ItemsStay
    BY <1>1, <2>2 DEF ItemsStay, Items, Freed, RunsOK, Typed, TypeOK
  <2>3. work' = work \/ \E r \in Runs : work' = Freed(r)
    BY <1>0 DEF Sweeping, SweepSteps, SweepBegins, SweepChecksNewer, SweepSupersedes, SweepDrops,
         SweepClears, SweepProjected, SweepStops, runs
  <2> QED
    BY <2>1, <2>2, <2>3
<1>3. \A r \in Runs : \A s \in Scoped : stage'[r][s] = "done" => stage[r][s] = "done"
  <2>1. CASE stage' = stage
    BY <2>1
  <2>2. CASE SweepSupersedes
    BY <1>0, <2>2 DEF SweepSupersedes, RunsOK, Typed, TypeOK, Scoped, Stages
  <2> QED
    BY <2>1, <2>2 DEF Sweeping, SweepSteps, SweepBegins, SweepChecksNewer, SweepDrops,
         SweepClears, SweepProjected, SweepStops, runs
<1>4. /\ Alone("sweep")
      /\ drain'["sweep"].pc \notin InStage /\ drain'["sweep"].seen \in {AllZero, drain["sweep"].seen}
  <2>1. ASSUME NEW pc, Drain("sweep", pc), pc \notin InStage
        PROVE  <1>4
    BY <1>0, <2>1, DrainGoes
  <2>2. CASE drain' = [drain EXCEPT !["sweep"] = NoDrain]
    <3>1. drain'["sweep"] = NoDrain /\ Alone("sweep")
      BY <1>0, <2>2, DrainPut
    <3>2. NoDrain.pc = "idle" /\ NoDrain.seen = AllZero
      BY DEF NoDrain
    <3> QED
      BY <3>1, <3>2 DEF InStage
  <2>3. ASSUME NEW r \in Runs, SweepBegins(r)
        PROVE  <1>4
    <3>1. drain'["sweep"] = [NoDrain EXCEPT !.pc = "newer", !.run = r, !.gen = generation[r]]
          /\ Alone("sweep")
      BY <1>0, <2>3, DrainPut DEF SweepBegins
    <3> QED
      BY <3>1 DEF NoDrain, InStage
  <2>4. "supersede" \notin InStage /\ "next" \notin InStage /\ "drop" \notin InStage
        /\ "project" \notin InStage
    BY DEF InStage
  <2>5. CASE SweepChecksNewer
    BY <2>1, <2>4, <2>5 DEF SweepChecksNewer
  <2>6. CASE SweepSupersedes \/ SweepClears
    BY <2>1, <2>4, <2>6 DEF SweepSupersedes, SweepClears
  <2>7. CASE SweepDrops \/ SweepProjected \/ SweepStops
    BY <2>2, <2>7 DEF SweepDrops, SweepProjected, SweepStops
  <2> QED
    BY <2>3, <2>5, <2>6, <2>7 DEF Sweeping, SweepSteps
<1> QED
  BY <1>1, <1>2, <1>3, <1>4, WorkedQuiet DEF Alone

LEMMA RefreshIsWorked ==
    ASSUME Typed, Typed', Worked, NEW f \in Refreshers, Refreshing(f)
    PROVE  Worked'
<1>0. /\ \A t \in Scoped : \A l \in Listings : shown[t][l] <= version[l]
      /\ \A g \in Refreshers : \A l \in Listings :
            refresh[g].listing = l => refresh[g].seen <= version[l]
      /\ \A l \in Listings : version[l] \in Int /\ version[l] > 0
      /\ \A t \in Scoped : \A l \in Listings : shown[t][l] \in Int
  BY VersionsAreNumbers DEF Worked, NotAhead
<1>1. UNCHANGED <<version, runs, drain>> /\ RefreshAlone(f)
  <2>1. CASE RefreshFails(f) \/ \E l \in Listings : RefreshBegins(f, l)
    BY <2>1, RefreshEndsOrBegins DEF listings
  <2>2. CASE RefreshSteps(f)
    BY <2>2, RefreshReadsDoes, RefreshWritesDoes, RefreshSyncsDoes, RefreshAcknowledgesDoes
       DEF RefreshSteps
  <2> QED
    BY <2>1, <2>2 DEF Refreshing
<1>2. /\ Grows
      /\ \A t \in Scoped : \A l \in Listings : shown'[t][l] <= version[l]
  <2>1. CASE shown' = shown
    BY <1>0, <2>1 DEF Grows
  <2>2. CASE RefreshReads(f)
    BY <1>0, <2>2, RefreshReadsDoes
  <2>3. CASE RefreshWrites(f)
    BY <1>0, <2>3, RefreshWritesDoes
  <2>4. CASE RefreshSyncs(f)
    <3>1. 2 \in Scoped
      BY DEF Scoped
    <3> QED
      BY <1>0, <2>4, <3>1, RefreshSyncsDoes
  <2> QED
    BY <2>1, <2>2, <2>3, <2>4 DEF Refreshing, RefreshSteps, RefreshFails, RefreshBegins,
       RefreshAcknowledges, listings
<1>3. \A l \in Listings : refresh'[f].listing = l => refresh'[f].seen <= version[l]
  <2>1. CASE RefreshFails(f) \/ \E l \in Listings : RefreshBegins(f, l)
    <3>1. refresh'[f].seen = 0
      <4>1. NoRefresh.seen = 0
        BY DEF NoRefresh
      <4>2. PICK l \in Listings \cup {0} :
               \/ refresh'[f] = NoRefresh
               \/ refresh'[f] = [pc |-> "read", listing |-> l, token |-> pending[l], stage |-> 1,
                                 seen |-> 0]
        BY <2>1, RefreshEndsOrBegins
      <4> QED
        BY <4>1, <4>2
    <3> QED
      BY <1>0, <3>1
  <2>2. CASE RefreshReads(f)
    BY <1>0, <2>2, RefreshReadsDoes DEF SameListing
  <2>3. CASE RefreshWrites(f)
    BY <1>0, <2>3, RefreshWritesDoes
  <2>4. CASE RefreshSyncs(f)
    BY <1>0, <2>4, RefreshSyncsDoes DEF SameListing
  <2>5. CASE RefreshAcknowledges(f)
    BY <1>0, <2>5, RefreshAcknowledgesDoes DEF NoRefresh
  <2> QED
    BY <2>1, <2>2, <2>3, <2>4, <2>5 DEF Refreshing, RefreshSteps
<1>4. NotAhead'
  <2>1. \A g \in Refreshers : \A l \in Listings :
           refresh'[g].listing = l => refresh'[g].seen <= version[l]
    BY <1>0, <1>1, <1>3 DEF RefreshAlone
  <2> QED
    BY <1>1, <1>2, <2>1 DEF Worked, NotAhead, runs
<1>5. ItemsStay
  BY <1>1 DEF ItemsStay, Items, runs
<1>6. \A d \in Drainers : InWork(d)'
  BY <1>1, <1>2, <1>5, WorkKept
<1> QED
  BY <1>1, <1>2, <1>4, <1>5, <1>6, WorkedMoves DEF runs

LEMMA WorkedStep == Typed /\ Ordered /\ Worked /\ [Next]_vars => Worked'
<1> SUFFICES ASSUME Typed, Ordered, Worked, [Next]_vars
             PROVE  Worked'
  OBVIOUS
<1>1. Typed'
  BY TypedStep
<1>2. CASE UNCHANGED vars
  <2>1. ItemsStay
    BY <1>2 DEF vars, ItemsStay, Items
  <2> QED
    BY <1>1, <1>2, <2>1, WorkedQuiet DEF vars
<1>3. ASSUME NEW l \in Listings, Edit(l)
      PROVE  Worked'
  BY <1>1, <1>3, WorkedChanged DEF Edit, runs
<1> QED
  BY <1>1, <1>2, <1>3, CrawlIsWorked, DrainIsWorked, SweepIsWorked, RefreshIsWorked DEF Next

(***************************************************************************)
(* The projection watermark is earned.                                     *)
(***************************************************************************)

LEMMA GenerationsInit == Init => Generations
<1> SUFFICES ASSUME Init PROVE Generations
  OBVIOUS
<1>1. /\ watermark = 0 /\ attempts = 0 /\ \A r \in Runs : generation[r] = 0
      /\ crawl.pc = "idle" /\ drain["sweep"] = NoDrain
  BY DEF Init, NoCrawl, Drainers
<1>2. NoDrain.pc = "idle" /\ NoDrain.gen = 0
  BY DEF NoDrain
<1> QED
  BY <1>1, <1>2 DEF Generations

LEMMA GenerationsAreNumbers ==
    ASSUME Typed
    PROVE  /\ watermark \in Int /\ watermark >= 0
           /\ attempts \in Int /\ attempts >= 0
           /\ \A r \in Runs : generation[r] \in Int /\ generation[r] >= 0
           /\ drain["sweep"].gen \in Int /\ drain["sweep"].gen >= 0
<1>1. watermark \in 0..MaxAttempts /\ attempts \in 0..MaxAttempts
      /\ generation \in [Runs -> 0..MaxAttempts]
  BY DEF RunsOK, InvocationsOK, Typed, TypeOK
<1>2. drain["sweep"].gen \in 0..MaxAttempts
  BY DrainFields DEF Drainers, Typed, TypeOK
<1> QED
  BY <1>1, <1>2, Bounds

\* A run that is finished stays finished.
LEMMA DoneStays ==
    ASSUME Typed, Ordered, [Next]_vars
    PROVE  \A r \in Runs : AllDone(r) => AllDone(r)'
<1>1. CASE stage' = stage
  BY <1>1 DEF AllDone
<1>2. CASE RecordStages
  <2>1. stage' = [stage EXCEPT ![newest] =
                    [s \in Stages |-> IF @[s] = "none" THEN "pending" ELSE @[s]]]
    BY <1>2 DEF RecordStages
  <2>2. \A r \in Runs : \A s \in Stages : stage[r][s] = "done" => stage'[r][s] = "done"
    BY <2>1 DEF RunsOK, Typed, TypeOK
  <2> QED
    BY <2>2 DEF AllDone
<1>3. CASE SweepSupersedes
  <2>1. stage' = [stage EXCEPT ![drain["sweep"].run] =
                    [s \in Stages |-> IF @[s] = "pending" THEN "superseded" ELSE @[s]]]
    BY <1>3 DEF SweepSupersedes
  <2>2. \A r \in Runs : \A s \in Stages : stage[r][s] = "done" => stage'[r][s] = "done"
    BY <2>1 DEF RunsOK, Typed, TypeOK
  <2> QED
    BY <2>2 DEF AllDone
<1>4. ASSUME NEW d \in Drainers, DrainComplete(d)
      PROVE  \A r \in Runs : AllDone(r) => AllDone(r)'
  BY <1>4, DrainCompleteDoes DEF AllDone
<1>5. ASSUME NEW d \in Drainers, DrainSteps(d)
      PROVE  \A r \in Runs : AllDone(r) => AllDone(r)'
  BY <1>1, <1>4, <1>5 DEF DrainSteps, DrainNext, DrainClaim, DrainRead, DrainWrite, DrainSync,
       DrainAcknowledge, DrainAdvance, runs
<1>6. CASE Sweeping
  BY <1>1, <1>3, <1>6 DEF Sweeping, SweepSteps, SweepBegins, SweepChecksNewer, SweepDrops,
       SweepClears, SweepProjected, SweepStops, runs
<1>7. CASE Crawling
  <2>1. CASE CrawlStarts \/ (\E l \in Listings : CrawlWrites(l)) \/ CrawlWritten \/ RecordGeneration
             \/ RecordItems \/ RecordInherited \/ CrawlClears
    BY <1>1, <2>1 DEF CrawlStarts, CrawlWrites, CrawlWritten, RecordGeneration, RecordItems,
         RecordInherited, CrawlClears, runs
  <2>2. CASE CrawlProjected \/ CrawlFinishes \/ CrawlMovesOn \/ CrawlFails \/ CrawlCrashes
             \/ CrawlDefers \/ RunRecovered
    BY <1>1, <2>2 DEF CrawlProjected, CrawlFinishes, CrawlMovesOn, CrawlFails, CrawlCrashes,
         CrawlDefers, DefersTo, RunRecovered, runs
  <2> QED
    BY <1>2, <1>7, <2>1, <2>2 DEF Crawling
<1>8. CASE UNCHANGED vars \/ (\E l \in Listings : Edit(l)) \/ (\E f \in Refreshers : Refreshing(f))
  BY <1>1, <1>8 DEF vars, Edit, Refreshing, RefreshSteps, RefreshBegins, RefreshReads, RefreshWrites,
       RefreshSyncs, RefreshAcknowledges, RefreshFails, runs
<1> QED
  BY <1>5, <1>6, <1>7, <1>8 DEF Next

\* A step that records no generation, moves no watermark and begins no sweep.
LEMMA GenerationsKept ==
    ASSUME Typed, Generations, UNCHANGED <<watermark, attempts, generation, newest>>,
           \A r \in Runs : AllDone(r) => AllDone(r)',
           crawl'.pc \in {"write", "generation"} => crawl.pc \in {"write", "generation"},
           crawl'.pc \notin {"idle", "write", "generation"} =>
               crawl.pc \notin {"idle", "write", "generation"},
           \/ drain'["sweep"].pc = "idle" /\ drain'["sweep"].gen = 0
           \/ /\ drain'["sweep"].run = drain["sweep"].run /\ drain'["sweep"].gen = drain["sweep"].gen
              /\ drain["sweep"].pc = "idle" => drain'["sweep"].pc = "idle"
    PROVE  Generations'
BY GenerationsAreNumbers DEF Generations

LEMMA GenerationsStep == Typed /\ Ordered /\ Generations /\ [Next]_vars => Generations'
<1> SUFFICES ASSUME Typed, Ordered, Generations, [Next]_vars
             PROVE  Generations'
  OBVIOUS
<1>0. \A r \in Runs : AllDone(r) => AllDone(r)'
  BY DoneStays
<1>a. crawl = [pc |-> crawl.pc, listings |-> crawl.listings] /\ NoCrawl.pc = "idle"
      /\ NoDrain.pc = "idle" /\ NoDrain.gen = 0 /\ "sweep" \in Drainers
      /\ (crawl.pc # "idle" => newest \in Runs)
  BY CrawlFields DEF NoCrawl, NoDrain, Drainers, Typed, TypeOK, Shapes, CrawlShape
<1>1. CASE UNCHANGED <<watermark, attempts, generation, newest, crawl, drain>>
  BY <1>0, <1>1, GenerationsKept
<1>2. CASE UNCHANGED vars \/ (\E l \in Listings : Edit(l)) \/ (\E f \in Refreshers : Refreshing(f))
  BY <1>1, <1>2 DEF vars, Edit, Refreshing, RefreshSteps, RefreshBegins, RefreshReads, RefreshWrites,
       RefreshSyncs, RefreshAcknowledges, RefreshFails, runs
<1>3. CASE CrawlStarts
  <2>1. /\ attempts' = attempts + 1 /\ crawl'.pc = "write" /\ crawl.pc = "idle"
        /\ UNCHANGED <<watermark, generation, drain>>
    BY <1>3 DEF CrawlStarts, NoCrawl, At
  <2> QED
    BY <1>0, <2>1, GenerationsAreNumbers DEF Generations
<1>4. CASE RecordGeneration
  <2>1. /\ generation' = [generation EXCEPT ![newest] = attempts] /\ crawl'.pc = "items"
        /\ crawl.pc = "generation" /\ UNCHANGED <<watermark, attempts, newest, drain>>
        /\ newest \in Runs
    BY <1>4, <1>a DEF RecordGeneration, Goes, At
  <2>2. \A r \in Runs : generation'[r] = IF r = newest THEN attempts ELSE generation[r]
    BY <2>1 DEF RunsOK, Typed, TypeOK
  <2> QED
    BY <1>0, <2>1, <2>2, GenerationsAreNumbers DEF Generations
<1>5. CASE CrawlProjected
  <2>1. /\ watermark' = Larger(watermark, attempts) /\ crawl'.pc = "finish" /\ crawl.pc = "project"
        /\ UNCHANGED <<generation, attempts, newest, drain>> /\ newest \in Runs
    BY <1>5, <1>a DEF CrawlProjected, Goes, At
  <2>2. watermark' = attempts /\ generation[newest] = attempts
    BY <2>1, GenerationsAreNumbers DEF Larger, Generations
  <2>3. AllDone(newest)
    BY <2>1 DEF Ordered, CrawlInOrder
  <2> QED
    BY <1>0, <2>1, <2>2, <2>3, GenerationsAreNumbers DEF Generations
<1>6. ASSUME NEW l \in Listings, CrawlWrites(l)
      PROVE  Generations'
  <2>1. crawl'.pc = "write" /\ crawl.pc = "write"
    BY <1>6, <1>a DEF CrawlWrites, At
  <2> QED
    BY <1>0, <1>6, <2>1, GenerationsKept DEF CrawlWrites, runs
<1>7. CASE CrawlWritten
  <2>1. crawl'.pc = "generation" /\ crawl.pc = "write"
    BY <1>7, <1>a DEF CrawlWritten, At
  <2> QED
    BY <1>0, <1>7, <2>1, GenerationsKept DEF CrawlWritten, runs
<1>8. CASE RecordItems
  BY <1>0, <1>8, <1>a, GenerationsKept DEF RecordItems, Goes, At
<1>9. CASE RecordInherited
  BY <1>0, <1>9, <1>a, GenerationsKept DEF RecordInherited, Goes, At
<1>10. CASE RecordStages
  <2>1. drain'["sweep"] = drain["sweep"]
    BY <1>10, DrainPut DEF RecordStages, Drainers, Alone
  <2> QED
    BY <1>0, <1>10, <1>a, <2>1, GenerationsKept DEF RecordStages, Goes, At
<1>11. CASE CrawlClears
  BY <1>0, <1>11, <1>a, GenerationsKept DEF CrawlClears, Goes, At
<1>12. CASE CrawlFinishes \/ CrawlFails
  BY <1>0, <1>12, <1>a, GenerationsKept DEF CrawlFinishes, CrawlFails
<1>13. CASE CrawlMovesOn
  BY <1>0, <1>13, <1>a, GenerationsKept DEF CrawlMovesOn, Goes, At, runs
<1>14. CASE CrawlCrashes
  <2>1. drain'["sweep"] = drain["sweep"]
    BY <1>14, DrainPut DEF CrawlCrashes, Drainers, Alone
  <2> QED
    BY <1>0, <1>14, <1>a, <2>1, GenerationsKept DEF CrawlCrashes, runs
<1>15. CASE CrawlDefers
  <2>1. drain'["sweep"] = drain["sweep"]
    BY <1>15, DrainPut DEF CrawlDefers, DefersTo, Drainers, Alone
  <2> QED
    BY <1>0, <1>15, <1>a, <2>1, GenerationsKept DEF CrawlDefers, DefersTo, Goes, At, runs
<1>16. CASE RunRecovered
  BY <1>0, <1>16, GenerationsKept DEF RunRecovered
<1>17. CASE Crawling
  BY <1>3, <1>4, <1>5, <1>6, <1>7, <1>8, <1>9, <1>10, <1>11, <1>12, <1>13, <1>14, <1>15, <1>16,
     <1>17 DEF Crawling
<1>18. ASSUME NEW d \in Drainers, DrainSteps(d)
       PROVE  Generations'
  <2>1. UNCHANGED <<watermark, attempts, generation, newest>>
    BY <1>18 DEF DrainSteps, DrainNext, DrainClaim, DrainRead, DrainWrite, DrainSync,
       DrainAcknowledge, DrainAdvance, DrainComplete, runs
  <2>2. /\ Alone(d)
        /\ drain'[d] = NoDrain \/ (SameRun(d) /\ drain[d].pc # "idle")
        /\ crawl' = crawl \/ (crawl.pc = "drain" /\ crawl'.pc = "clear")
    <3>1. CASE DrainNext(d)
      BY <1>a, <3>1, DrainNextDoes DEF GoesOn, Goes, At
    <3>2. CASE DrainClaim(d)
      BY <3>2, DrainClaimDoes DEF SameStage
    <3>3. CASE DrainRead(d)
      BY <3>3, DrainReadDoes DEF SameStage
    <3>4. CASE DrainWrite(d)
      BY <3>4, DrainWriteDoes DEF SameStage
    <3>5. CASE DrainSync(d)
      BY <3>5, DrainSyncDoes DEF SameStage
    <3>6. CASE DrainAcknowledge(d)
      BY <3>6, DrainAcknowledgeDoes DEF SameStage
    <3>7. CASE DrainAdvance(d)
      BY <3>7, DrainAdvanceDoes
    <3>8. CASE DrainComplete(d)
      BY <3>8, DrainCompleteDoes
    <3> QED
      BY <1>18, <3>1, <3>2, <3>3, <3>4, <3>5, <3>6, <3>7, <3>8 DEF DrainSteps
  <2>3. \/ drain'["sweep"].pc = "idle" /\ drain'["sweep"].gen = 0
        \/ /\ drain'["sweep"].run = drain["sweep"].run /\ drain'["sweep"].gen = drain["sweep"].gen
           /\ drain["sweep"].pc = "idle" => drain'["sweep"].pc = "idle"
    BY <1>a, <2>2 DEF Alone, SameRun
  <2> QED
    BY <1>0, <2>1, <2>2, <2>3, GenerationsKept
<1>19. ASSUME NEW r \in Runs, SweepBegins(r)
       PROVE  Generations'
  <2>1. /\ UNCHANGED <<watermark, attempts, generation, newest, crawl>> /\ generation[r] # 0
        /\ drain' = [drain EXCEPT !["sweep"] =
              [NoDrain EXCEPT !.pc = "newer", !.run = r, !.gen = generation[r]]]
    BY <1>19 DEF SweepBegins, runs
  <2>2. drain'["sweep"] = [NoDrain EXCEPT !.pc = "newer", !.run = r, !.gen = generation[r]]
    BY <1>a, <2>1, DrainPut
  <2>3. drain'["sweep"].run = r /\ drain'["sweep"].gen = generation[r]
    BY <2>2 DEF NoDrain
  <2> QED
    BY <1>0, <2>1, <2>3, GenerationsAreNumbers DEF Generations
<1>20. CASE SweepProjected
  <2>1. /\ watermark' = Larger(watermark, drain["sweep"].gen) /\ drain["sweep"].pc = "project"
        /\ UNCHANGED <<attempts, generation, newest, crawl>>
        /\ drain' = [drain EXCEPT !["sweep"] = NoDrain]
    BY <1>20 DEF SweepProjected
  <2>2. drain'["sweep"].pc = "idle" /\ drain'["sweep"].gen = 0
    BY <1>a, <2>1, DrainPut
  <2>3. watermark' \in {watermark, drain["sweep"].gen}
    BY <2>1 DEF Larger
  <2>4. AllDone(drain["sweep"].run)
    BY <1>a, <2>1 DEF Ordered, InOrder
  <2>5. \A r \in Runs : generation[r] # 0 /\ watermark' = generation[r] => AllDone(r)
    BY <2>1, <2>3, <2>4 DEF Generations
  <2> QED
    BY <1>0, <2>1, <2>2, <2>3, <2>5, GenerationsAreNumbers DEF Generations
<1>21. CASE SweepChecksNewer \/ SweepSupersedes \/ SweepClears
  <2>1. \E pc \in {"supersede", "next", "drop", "project"} : Drain("sweep", pc)
    BY <1>21 DEF SweepChecksNewer, SweepSupersedes, SweepClears
  <2>2. drain["sweep"].pc # "idle"
    BY <1>21 DEF SweepChecksNewer, SweepSupersedes, SweepClears
  <2>3. SameRun("sweep")
    BY <1>a, <2>1, DrainGoes DEF SameStage
  <2>4. UNCHANGED <<watermark, attempts, generation, newest, crawl>>
    BY <1>21 DEF SweepChecksNewer, SweepSupersedes, SweepClears, runs
  <2> QED
    BY <1>0, <2>2, <2>3, <2>4, GenerationsKept DEF SameRun
<1>22. CASE SweepDrops \/ SweepStops
  <2>1. /\ UNCHANGED <<watermark, attempts, generation, newest, crawl>>
        /\ drain' = [drain EXCEPT !["sweep"] = NoDrain]
    BY <1>22 DEF SweepDrops, SweepStops, runs
  <2>2. drain'["sweep"].pc = "idle" /\ drain'["sweep"].gen = 0
    BY <1>a, <2>1, DrainPut
  <2> QED
    BY <1>0, <2>1, <2>2, GenerationsKept
<1>23. CASE Sweeping
  BY <1>19, <1>20, <1>21, <1>22, <1>23 DEF Sweeping, SweepSteps
<1> QED
  BY <1>2, <1>17, <1>18, <1>23 DEF Next

(***************************************************************************)
(* No acknowledgement forgets a change.                                    *)
(***************************************************************************)

LEMMA RememberedInit == Init => Remembered
<1> SUFFICES ASSUME Init PROVE Remembered
  OBVIOUS
<1>1. /\ \A l \in Listings : pending[l] = 0 /\ version[l] = 1
      /\ \A s \in Scoped : \A l \in Listings : shown[s][l] = 1
      /\ \A r \in Runs : Items(r) = {}
      /\ \A f \in Refreshers : refresh[f].pc = "idle"
  BY DEF Init, Items, NoRefresh
<1> QED
  BY <1>1 DEF Remembered, Tokens, NothingForgotten, RefreshHasShown

\* A refresh that stands where it stood, while more is shown.
LEMMA RefreshKept ==
    ASSUME Typed, Typed', Grows, NEW f \in Refreshers, refresh'[f] = refresh[f],
           RefreshHasShown(f), \A l \in Listings : version'[l] >= version[l]
    PROVE  RefreshHasShown(f)'
<1> DEFINE l == refresh[f].listing
<1>1. CASE refresh[f].pc = "idle"
  BY <1>1 DEF RefreshHasShown
<1>2. CASE refresh[f].pc # "idle"
  <2>1. l \in Listings /\ refresh[f].stage \in {1, 2} /\ Scoped = {1, 2, 3}
    BY <1>2, RefreshStands DEF Scoped
  <2>2. /\ refresh[f].token \in Int /\ version[l] \in Int /\ version'[l] \in Int
        /\ version'[l] >= version[l]
    <3>1. version'[l] \in Int
      BY <2>1 DEF Typed, TypeOK, ListingsOK, Versions
    <3> QED
      BY <2>1, <3>1, VersionsAreNumbers
  <2>3. \A s \in {1, 2, 3} : /\ shown[s][l] \in Int /\ shown'[s][l] \in Int
                             /\ shown'[s][l] >= shown[s][l]
    BY <2>1, VersionsAreNumbers DEF Grows, Typed, TypeOK, ListingsOK
  <2>4. \A s \in {1, 2, 3} : shown[s][l] >= refresh[f].token => shown'[s][l] >= refresh[f].token
    BY <2>2, <2>3
  <2> HIDE DEF l
  <2>5. refresh[f].token <= version[l] => refresh[f].token <= version'[l]
    BY <2>2
  <2> QED
    BY <2>1, <2>4, <2>5 DEF RefreshHasShown, l
<1> QED
  BY <1>1, <1>2

\* What is shown of the latest version stays shown.
LEMMA ShownStays ==
    ASSUME Typed, Typed', Grows, NotAhead', version' = version, pending' = pending, late' = late,
           NothingForgotten
    PROVE  NothingForgotten'
<1> SUFFICES ASSUME NEW l \in Listings, pending[l] = 0, ~ Late(l), NEW s \in Scoped
             PROVE  shown'[s][l] = version[l]
  BY DEF NothingForgotten, Late
<1>1. shown[s][l] = version[l]
  BY DEF NothingForgotten
<1>2. shown'[s][l] >= shown[s][l] /\ shown'[s][l] <= version[l]
  BY DEF Grows, NotAhead
<1>3. shown'[s][l] \in Int /\ version[l] \in Int
  BY VersionsAreNumbers DEF Typed, TypeOK, ListingsOK
<1> QED
  BY <1>1, <1>2, <1>3

\* A step that leaves the obligations, and items that are added.
LEMMA RememberedMoves ==
    ASSUME Typed, Typed', Worked', Remembered, Grows, UNCHANGED <<version, pending>>, ItemsStay,
           \A r \in Runs : \A l \in Listings : work'[r][l] \in {work[r][l], NoItem},
           \A f \in Refreshers : RefreshHasShown(f)'
    PROVE  Remembered'
<1>1. NothingForgotten'
  BY ShownStays DEF Remembered, Worked, ItemsStay
<1>2. Tokens'
  <2>1. \A r \in Runs : \A l \in Items(r)' : l \in Items(r) /\ work'[r][l] = work[r][l]
    BY DEF ItemsStay, Items
  <2> QED
    BY <2>1 DEF Remembered, Tokens, ItemsStay
<1> QED
  BY <1>1, <1>2 DEF Remembered

LEMMA RememberedQuiet ==
    ASSUME Typed, Typed', Worked', Remembered, Grows, UNCHANGED <<version, pending, refresh>>, ItemsStay,
           \A r \in Runs : \A l \in Listings : work'[r][l] \in {work[r][l], NoItem}
    PROVE  Remembered'
<1>1. \A l \in Listings : version'[l] >= version[l]
  BY VersionsAreNumbers
<1>2. \A f \in Refreshers : RefreshHasShown(f)'
  BY <1>1, RefreshKept DEF Remembered
<1> QED
  BY <1>2, RememberedMoves

LEMMA RememberedChanged ==
    ASSUME Typed, Typed', Remembered, NEW l \in Listings, Changed(l),
           UNCHANGED <<shown, since, late, work, refresh>>
    PROVE  Remembered'
<1>1. /\ version' = [version EXCEPT ![l] = @ + 1]
      /\ pending' = [pending EXCEPT ![l] = version[l] + 1]
  BY DEF Changed, NewToken
<1>2. /\ version'[l] = version[l] + 1 /\ pending'[l] = version[l] + 1
      /\ \A x \in Listings : x # l => version'[x] = version[x] /\ pending'[x] = pending[x]
      /\ \A x \in Listings : version'[x] >= version[x]
      /\ version[l] + 1 # 0
  BY <1>1, VersionsAreNumbers DEF Typed, TypeOK, ListingsOK
<1>3. Grows
  BY VersionsAreNumbers DEF Grows
<1>4. \A f \in Refreshers : RefreshHasShown(f)'
  BY <1>2, <1>3, RefreshKept DEF Remembered
<1>5. NothingForgotten'
  BY <1>2 DEF Remembered, NothingForgotten, Late
<1>6. Tokens'
  BY <1>2 DEF Remembered, Tokens, Items
<1> QED
  BY <1>4, <1>5, <1>6 DEF Remembered

LEMMA RememberedItems ==
    ASSUME Typed, Typed', Remembered, newest \in Runs, NEW added \in SUBSET Listings,
           NEW token \in [Listings -> 0..MaxVersion], AddItems(added, token),
           \A l \in Listings : token[l] \in {0, version[l]},
           UNCHANGED <<version, pending, shown, refresh>>
    PROVE  Remembered'
<1> DEFINE isNew(r, l) == r = newest /\ l \in added /\ work[r][l] = NoItem
<1>1. /\ \A r \in Runs : \A l \in Listings :
            /\ work'[r][l] = IF isNew(r, l) THEN token[l] ELSE work[r][l]
            /\ since'[r][l] = IF isNew(r, l) THEN version[l] ELSE since[r][l]
      /\ late \subseteq late'
  BY Added
<1> HIDE DEF isNew
<1>2. Tokens'
  <2>1. ASSUME NEW r \in Runs, NEW l \in Items(r)', <<r, l>> \notin late'
        PROVE  work'[r][l] \in {0, since'[r][l]}
    <3>1. l \in Listings /\ <<r, l>> \notin late
      BY <1>1, <2>1 DEF Items
    <3>2. CASE isNew(r, l)
      BY <1>1, <3>1, <3>2
    <3>3. CASE ~ isNew(r, l)
      BY <1>1, <3>1, <3>3 DEF Remembered, Tokens, Items
    <3> QED
      BY <3>2, <3>3
  <2> QED
    BY <2>1 DEF Remembered, Tokens
<1>3. NothingForgotten'
  BY <1>1 DEF Remembered, NothingForgotten, Late
<1>4. \A f \in Refreshers : RefreshHasShown(f)'
  BY DEF Remembered, RefreshHasShown
<1> QED
  BY <1>2, <1>3, <1>4 DEF Remembered

LEMMA CrawlIsRemembered ==
    ASSUME Typed, Typed', Worked', Remembered, Crawling
    PROVE  Remembered'
<1>0. shown' = shown => Grows
  BY VersionsAreNumbers DEF Grows
<1>1. CASE UNCHANGED <<version, pending, shown, refresh, work, since, late>>
  BY <1>0, <1>1, RememberedQuiet DEF ItemsStay, Items
<1>2. ASSUME NEW l \in Listings, CrawlWrites(l)
      PROVE  Remembered'
  BY <1>2, RememberedChanged DEF CrawlWrites, runs
<1>3. CASE RecordItems
  <2>1. newest \in Runs /\ pending \in [Listings -> 0..MaxVersion]
    BY <1>3 DEF RecordItems, At, Shapes, CrawlShape, ListingsOK, Typed, TypeOK
  <2>2. \A l \in Listings : pending[l] \in {0, version[l]}
    BY DEF Remembered, Tokens
  <2> QED
    BY <1>3, <2>1, <2>2, CrawlFields, RememberedItems DEF RecordItems, listings, Typed, TypeOK
<1>4. CASE RecordInherited
  <2> DEFINE added == UNION {Items(r) : r \in {q \in Runs \ {newest} : OwesScoped(q)}}
  <2>1. /\ newest \in Runs /\ AllZero \in [Listings -> 0..MaxVersion]
        /\ \A l \in Listings : AllZero[l] \in {0, version[l]}
    BY <1>4, Bounds DEF RecordInherited, At, Shapes, CrawlShape, AllZero, Typed, TypeOK
  <2>2. added \in SUBSET Listings
    BY DEF Items
  <2>3. AddItems(added, AllZero) /\ UNCHANGED <<version, pending, shown, refresh>>
    BY <1>4 DEF RecordInherited, listings
  <2> HIDE DEF added
  <2> QED
    BY <2>1, <2>2, <2>3, RememberedItems
<1>5. CASE CrawlClears
  <2>1. /\ newest \in Runs /\ UNCHANGED <<version, pending, shown, since, late, refresh>>
        /\ work' = Freed(newest)
    BY <1>5 DEF CrawlClears, listings, At, Shapes, CrawlShape, Typed
  <2>2. \A r \in Runs : \A l \in Listings : work'[r][l] \in {work[r][l], NoItem}
    BY <2>1 DEF Freed, RunsOK, Typed, TypeOK
  <2>3. ItemsStay
    BY <2>1, <2>2 DEF ItemsStay, Items
  <2> QED
    BY <1>0, <2>1, <2>2, <2>3, RememberedQuiet
<1>6. CASE CrawlStarts \/ CrawlWritten \/ RecordGeneration \/ RecordStages \/ CrawlProjected
           \/ CrawlFinishes
  BY <1>1, <1>6 DEF CrawlStarts, CrawlWritten, RecordGeneration, RecordStages, CrawlProjected,
       CrawlFinishes, listings, runs
<1>7. CASE CrawlMovesOn \/ CrawlFails \/ CrawlCrashes \/ CrawlDefers \/ RunRecovered
  BY <1>1, <1>7 DEF CrawlMovesOn, CrawlFails, CrawlCrashes, CrawlDefers, DefersTo, RunRecovered,
       listings, runs
<1> QED
  BY <1>2, <1>3, <1>4, <1>5, <1>6, <1>7 DEF Crawling

LEMMA SweepIsRemembered ==
    ASSUME Typed, Typed', Worked', Remembered, Sweeping
    PROVE  Remembered'
<1>1. UNCHANGED <<version, pending, shown, refresh, since, late>>
  BY DEF Sweeping, SweepSteps, SweepBegins, SweepChecksNewer, SweepSupersedes, SweepDrops,
         SweepClears, SweepProjected, SweepStops, listings, runs
<1>2. \A r \in Runs : \A l \in Listings : work'[r][l] \in {work[r][l], NoItem}
  <2>1. work' = work \/ \E q \in Runs : work' = Freed(q)
    BY DEF Typed, Shapes, DrainShape, Drainers, Sweeping, SweepSteps, SweepBegins,
         SweepChecksNewer, SweepSupersedes, SweepDrops,
         SweepClears, SweepProjected, SweepStops, runs
  <2>2. ASSUME NEW q \in Runs, work' = Freed(q)
        PROVE  \A r \in Runs : \A l \in Listings : work'[r][l] \in {work[r][l], NoItem}
    BY <2>2 DEF Freed, RunsOK, Typed, TypeOK
  <2> QED
    BY <2>1, <2>2
<1>3. ItemsStay
  BY <1>1, <1>2 DEF ItemsStay, Items
<1>4. Grows
  BY <1>1, VersionsAreNumbers DEF Grows
<1> QED
  BY <1>1, <1>2, <1>3, <1>4, RememberedQuiet

\* The run's item stands for the version it was added at, and every stage has
\* been completed for that one.
LEMMA DrainIsRemembered ==
    ASSUME Typed, Typed', Ordered, Worked, Worked', Remembered, NEW d \in Drainers, DrainSteps(d)
    PROVE  Remembered'
<1> DEFINE r == drain[d].run
<1>1. CASE /\ UNCHANGED <<version, pending, work, since, late, refresh>>
           /\ Grows
  BY <1>1, RememberedQuiet DEF ItemsStay, Items
<1>2. shown' = shown => Grows
  BY VersionsAreNumbers DEF Grows
<1>3. CASE DrainNext(d) \/ DrainClaim(d) \/ DrainAdvance(d) \/ DrainComplete(d)
  BY <1>1, <1>2, <1>3 DEF DrainNext, DrainClaim, DrainAdvance, DrainComplete, runs, listings
<1>4. CASE DrainRead(d)
  BY <1>1, <1>4, DrainReadDoes DEF runs
<1>5. CASE DrainWrite(d)
  BY <1>1, <1>5, DrainWriteDoes DEF runs
<1>6. CASE DrainSync(d)
  BY <1>1, <1>6, DrainSyncDoes DEF runs
<1>7. CASE DrainAcknowledge(d)
  <2>1. /\ UNCHANGED <<version, shown, work, since, late, refresh>>
        /\ drain[d].pc = "acknowledge" /\ r \in Runs /\ drain[d].stage = 3
        /\ \A l \in Listings : pending'[l] =
              IF /\ l \in drain[d].chunk /\ l \in Items(r) /\ pending[l] = work[r][l]
              THEN 0 ELSE pending[l]
    BY <1>7, DrainAcknowledgeDoes DEF runs
  <2>2. ASSUME NEW l \in Listings, pending'[l] # pending[l], ~ Late(l), NEW s \in Scoped
        PROVE  shown[s][l] = version[l]
    <3>1. l \in drain[d].chunk /\ l \in Items(r) /\ pending[l] = work[r][l] /\ pending[l] # 0
      BY <2>1, <2>2
    <3>2. <<r, l>> \notin late
      BY <2>1, <2>2 DEF Late
    <3>3. since[r][l] = version[l] /\ Counts(r, l)
      BY <2>1, <3>1, <3>2 DEF Remembered, Tokens, Worked, ItemsAreDated, Counts
    <3>4. CASE s = 3
      <4>1. InWork(d)
        BY DEF Worked
      <4> QED
        BY <2>1, <3>1, <3>3, <3>4, <4>1, VersionsAreNumbers
           DEF InWork, InStage, Shows, Worked, NotAhead
    <3>5. CASE s < 3
      <4>1. stage[r][s] = "done"
        BY <2>1, <2>2, <3>5 DEF Ordered, InOrder, InStage, Scoped, Stages
      <4>2. shown[s][l] >= since[r][l]
        BY <2>1, <3>3, <4>1 DEF Worked, DoneIsShown, Shows
      <4> QED
        BY <2>1, <3>3, <4>2, VersionsAreNumbers DEF Worked, NotAhead
    <3> QED
      BY <3>4, <3>5 DEF Scoped
  <2>3. NothingForgotten'
    BY <2>1, <2>2 DEF Remembered, NothingForgotten, Late
  <2>4. Tokens'
    BY <2>1 DEF Remembered, Tokens, Items
  <2>5. \A f \in Refreshers : RefreshHasShown(f)'
    BY <2>1 DEF Remembered, RefreshHasShown
  <2> QED
    BY <2>3, <2>4, <2>5 DEF Remembered
<1> QED
  BY <1>3, <1>4, <1>5, <1>6, <1>7 DEF DrainSteps

LEMMA RefreshIsRemembered ==
    ASSUME Typed, Typed', Worked, Worked', Remembered, NEW f \in Refreshers, Refreshing(f)
    PROVE  Remembered'
<1> DEFINE l == refresh[f].listing
           s == refresh[f].stage
           token == refresh[f].token
<1>0. /\ \A x \in Listings : version[x] >= version[x] /\ version[x] \in Int
      /\ \A t \in {1, 2, 3} : \A x \in Listings : shown[t][x] \in Int /\ shown'[t][x] \in Int
      /\ token \in Int /\ refresh[f].seen \in Int
      /\ refresh'[f].token \in Int /\ refresh'[f].seen \in Int
  <2>1. /\ \A x \in Listings : version[x] >= version[x] /\ version[x] \in Int
        /\ \A t \in {1, 2, 3} : \A x \in Listings : shown[t][x] \in Int
        /\ token \in Int /\ refresh[f].seen \in Int
    BY VersionsAreNumbers DEF Scoped
  <2>2. \A t \in {1, 2, 3} : \A x \in Listings : shown'[t][x] \in Int
    BY DEF Scoped, Typed, TypeOK, ListingsOK
  <2>3. refresh'[f].token \in Int /\ refresh'[f].seen \in Int
    <3>1. refresh'[f] \in RefreshStates
      BY DEF InvocationsOK, Typed, TypeOK
    <3> QED
      BY <3>1, Bounds DEF RefreshStates
  <2> QED
    BY <2>1, <2>2, <2>3
<1>1. RefreshHasShown(f)
  BY DEF Remembered
<1>2. ASSUME UNCHANGED <<version, pending, runs>>, RefreshAlone(f), Grows, RefreshHasShown(f)'
      PROVE  Remembered'
  <2>1. \A g \in Refreshers : RefreshHasShown(g)'
    BY <1>0, <1>2, RefreshKept DEF Remembered, RefreshAlone
  <2>2. ItemsStay /\ work' = work
    BY <1>2 DEF ItemsStay, Items, runs
  <2> QED
    BY <1>2, <2>1, <2>2, RememberedMoves
<1>3. CASE RefreshFails(f) \/ \E x \in Listings : RefreshBegins(f, x)
  <2>1. UNCHANGED <<version, pending, runs, shown>> /\ RefreshAlone(f)
    BY <1>3, RefreshEndsOrBegins DEF listings
  <2>2. Grows
    BY <2>1, VersionsAreNumbers DEF Grows
  <2>3. RefreshHasShown(f)'
    <3>1. CASE refresh'[f] = NoRefresh
      <4>1. refresh'[f].pc = "idle"
        BY <3>1 DEF NoRefresh
      <4> QED
        BY <4>1 DEF RefreshHasShown
    <3>2. ASSUME NEW x \in Listings, pending[x] # 0,
                 refresh'[f] = [pc |-> "read", listing |-> x, token |-> pending[x], stage |-> 1, seen |-> 0]
          PROVE  RefreshHasShown(f)'
      <4>1. pending[x] = version[x]
        BY <3>2 DEF Remembered, Tokens
      <4>2. /\ refresh'[f].pc = "read" /\ refresh'[f].stage = 1
            /\ refresh'[f].token <= version'[refresh'[f].listing]
        BY <1>0, <2>1, <3>2, <4>1
      <4> QED
        BY <4>2 DEF RefreshHasShown
    <3> QED
      BY <1>3, <3>1, <3>2, RefreshEndsOrBegins
  <2> QED
    BY <1>2, <2>1, <2>2, <2>3
<1>4. CASE RefreshReads(f)
  <2>1. /\ UNCHANGED <<version, pending, runs>> /\ RefreshAlone(f) /\ SameListing(f)
        /\ l \in Listings /\ s \in {1, 2} /\ refresh[f].pc = "read"
        /\ refresh'[f].pc = "write" /\ refresh'[f].stage = s /\ Grows
        /\ refresh'[f].seen = version[l] \/ shown'[s][l] >= version[l]
    BY <1>4, RefreshReadsDoes
  <2>2. token <= version[l] /\ (s = 2 => shown[1][l] >= token)
    BY <1>1, <2>1 DEF RefreshHasShown
  <2>3. s = 2 => shown'[1][l] >= token
    <3>1. shown'[1][l] >= shown[1][l]
      BY <2>1 DEF Grows, Scoped
    <3> QED
      BY <1>0, <2>1, <2>2, <3>1
  <2>4. shown'[s][l] >= token \/ refresh'[f].seen >= token
    BY <1>0, <2>1, <2>2
  <2>5. RefreshHasShown(f)'
    BY <2>1, <2>2, <2>3, <2>4 DEF RefreshHasShown, SameListing
  <2> QED
    BY <1>2, <2>1, <2>5
<1>5. CASE RefreshWrites(f)
  <2>1. /\ UNCHANGED <<version, pending, runs>> /\ RefreshAlone(f) /\ SameListing(f)
        /\ l \in Listings /\ s \in {1, 2} /\ refresh[f].pc = "write"
        /\ refresh'[f].pc = (IF s = 1 THEN "read" ELSE "sync")
        /\ refresh'[f].stage = 2 /\ Grows /\ shown'[s][l] >= refresh[f].seen
    BY <1>5, RefreshWritesDoes
  <2>2. /\ token <= version[l] /\ (s = 2 => shown[1][l] >= token)
        /\ shown[s][l] >= token \/ refresh[f].seen >= token
    BY <1>1, <2>1 DEF RefreshHasShown
  <2>3. /\ \A t \in {1, 2} : shown'[t][l] >= shown[t][l]
    BY <2>1 DEF Grows, Scoped
  <2>4. shown'[s][l] >= token /\ (s = 2 => shown'[1][l] >= token)
    BY <1>0, <2>1, <2>2, <2>3
  <2>5. RefreshHasShown(f)'
    BY <2>1, <2>2, <2>4 DEF RefreshHasShown, SameListing
  <2> QED
    BY <1>2, <2>1, <2>5
<1>6. CASE RefreshSyncs(f)
  <2>1. /\ UNCHANGED <<version, pending, runs>> /\ RefreshAlone(f) /\ SameListing(f)
        /\ l \in Listings /\ refresh[f].pc = "sync" /\ refresh'[f].pc = "acknowledge"
        /\ refresh'[f].stage = s /\ Grows /\ shown'[3][l] >= shown[2][l]
    BY <1>6, RefreshSyncsDoes
  <2>2. token <= version[l] /\ shown[1][l] >= token /\ shown[2][l] >= token
    BY <1>1, <2>1 DEF RefreshHasShown
  <2>3. /\ \A t \in {1, 2} : shown'[t][l] >= shown[t][l]
    BY <2>1 DEF Grows, Scoped
  <2>4. \A t \in {1, 2, 3} : shown'[t][l] >= token
    BY <1>0, <2>1, <2>2, <2>3
  <2>5. RefreshHasShown(f)'
    BY <2>1, <2>2, <2>4 DEF RefreshHasShown, SameListing
  <2> QED
    BY <1>2, <2>1, <2>5
<1>7. CASE RefreshAcknowledges(f)
  <2>1. /\ UNCHANGED <<version, shown, runs>> /\ RefreshAlone(f) /\ l \in Listings
        /\ refresh[f].pc = "acknowledge" /\ refresh'[f] = NoRefresh
        /\ \A x \in Listings : pending'[x] = IF x = l /\ pending[x] = token THEN 0 ELSE pending[x]
    BY <1>7, RefreshAcknowledgesDoes
  <2>2. \A t \in {1, 2, 3} : shown[t][l] >= token
    BY <1>1, <2>1 DEF RefreshHasShown
  <2>3. pending'[l] # pending[l] => token = version[l]
    BY <2>1 DEF Remembered, Tokens
  <2>4. pending'[l] # pending[l] => \A t \in Scoped : shown[t][l] = version[l]
    BY <1>0, <2>1, <2>2, <2>3 DEF Worked, NotAhead, Scoped
  <2>5. NothingForgotten'
    BY <2>1, <2>4 DEF Remembered, NothingForgotten, Late, runs
  <2>6. Tokens'
    BY <2>1 DEF Remembered, Tokens, Items, runs
  <2>7. Grows
    BY <2>1, VersionsAreNumbers DEF Grows
  <2>8. RefreshHasShown(f)'
    BY <2>1 DEF RefreshHasShown, NoRefresh
  <2>9. \A g \in Refreshers : RefreshHasShown(g)'
    BY <1>0, <2>1, <2>7, <2>8, RefreshKept DEF Remembered, RefreshAlone
  <2> QED
    BY <2>5, <2>6, <2>9 DEF Remembered
<1> QED
  BY <1>3, <1>4, <1>5, <1>6, <1>7 DEF Refreshing, RefreshSteps

LEMMA RememberedStep ==
    Typed /\ Ordered /\ Worked /\ Remembered /\ [Next]_vars => Remembered'
<1> SUFFICES ASSUME Typed, Ordered, Worked, Remembered, [Next]_vars
             PROVE  Remembered'
  OBVIOUS
<1>1. Typed' /\ Worked'
  BY TypedStep, WorkedStep
<1>2. CASE UNCHANGED vars
  <2>1. ItemsStay /\ Grows
    BY <1>2, VersionsAreNumbers DEF vars, ItemsStay, Items, Grows
  <2> QED
    BY <1>1, <1>2, <2>1, RememberedQuiet DEF vars
<1>3. ASSUME NEW l \in Listings, Edit(l)
      PROVE  Remembered'
  BY <1>1, <1>3, RememberedChanged DEF Edit, runs
<1> QED
  BY <1>1, <1>2, <1>3, CrawlIsRemembered, DrainIsRemembered, SweepIsRemembered,
     RefreshIsRemembered DEF Next

(***************************************************************************)
(* The theorems.                                                           *)
(***************************************************************************)

LEMMA InvariantHolds == Spec => []IInv
<1>1. Init => IInv
  BY TypedInit, OrderedInit, WorkedInit, GenerationsInit, RememberedInit DEF IInv
<1>2. IInv /\ [Next]_vars => IInv'
  BY TypedStep, OrderedStep, WorkedStep, GenerationsStep, RememberedStep DEF IInv
<1> QED
  BY <1>1, <1>2, PTL DEF Spec

\* Every variable stays within its type.
THEOREM TypeCorrect == Spec => []TypeOK
<1>1. IInv => TypeOK
  BY DEF IInv, Typed
<1> QED
  BY <1>1, InvariantHolds, PTL

\* A stage begins only when the stages it reads from are finished, in every
\* mixture of inline and swept chunks.
THEOREM StagesRunInOrder == Spec => []StagesInOrder
<1>1. IInv => StagesInOrder
  BY DEF IInv, Ordered
<1> QED
  BY <1>1, InvariantHolds, PTL

\* A run's items are not freed while a stage has still to read them.
THEOREM ItemsOutliveStages == Spec => []WorkOutlivesStages
<1>1. IInv => WorkOutlivesStages
  BY DEF IInv, Ordered, ItemsOutlive, WorkOutlivesStages
<1> QED
  BY <1>1, InvariantHolds, PTL

\* A stage that is done, or whose cursor has passed a listing, has been
\* completed for the version of the listing that its run recorded, although
\* chunks are replayed and two invocations drain the same run.
THEOREM ReportedWorkIsShown == Spec => []WorkIsShown
<1>1. Typed /\ Worked => WorkIsShown
  <2> SUFFICES ASSUME Typed, Worked, NEW r \in Runs, NEW l \in Items(r), NEW s \in Scoped,
                      <<r, l>> \notin late, stage[r][s] = "done" \/ cursor[r][s] >= l
               PROVE  shown[s][l] >= since[r][l]
    BY DEF WorkIsShown
  <2>1. l \in Listings /\ Counts(r, l)
    BY DEF Worked, ItemsAreDated, Counts, Items
  <2> QED
    BY <2>1 DEF Worked, DoneIsShown, CursorIsShown, Shows
<1>2. IInv => WorkIsShown
  BY <1>1 DEF IInv
<1> QED
  BY <1>2, InvariantHolds, PTL

\* The projection watermark reaches a run only when every listing the run
\* recorded has been through every stage, whoever finished it.
THEOREM WatermarkFollowsWork == Spec => []WatermarkIsEarned
<1>1. Scoped \subseteq Stages
  BY DEF Scoped, Stages
<1>2. IInv => WatermarkIsEarned
  BY <1>1 DEF IInv, Worked, Generations, WatermarkIsEarned, DoneIsShown, AllDone, Counts, Shows
<1> QED
  BY <1>2, InvariantHolds, PTL

\* A listing's latest version has been through every stage, or is owed: no
\* acknowledgement clears the obligation of a change it did not read.
THEOREM ChangesAreRemembered == Spec => []NothingForgotten
<1>1. IInv => NothingForgotten
  BY DEF IInv, Remembered
<1> QED
  BY <1>1, InvariantHolds, PTL
=============================================================================
