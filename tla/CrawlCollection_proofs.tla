------------------------ MODULE CrawlCollection_proofs ------------------------
(***************************************************************************)
(* For every number of pages, shop, crash, error and late commit: replay   *)
(* counts no page twice and misses no receipt, a direct permit is good for *)
(* one request, what is published as complete is complete, and a published *)
(* collection is not published again.                                      *)
(*                                                                         *)
(* None is inductive alone.  What is added says that the receipts are one  *)
(* chain of transitions (Chained), where the copies of the cursor are on   *)
(* it (Placed, Stands), and what a commit that is on its way knows of the  *)
(* frontier, as long as it can land (Carried).                             *)
(***************************************************************************)
EXTENDS CrawlCollection, FiniteSetTheorems, TLAPS

(***************************************************************************)
(* The inductive invariant.                                                *)
(***************************************************************************)

Done == Cardinality(Receipted)
Reached == {FirstProgress} \cup {receipt[p] : p \in Receipted}
ParsedUpTo(k) == {p \in Receipted : state[p] = "parsed" /\ receipt[p].seq <= k}

\* The receipts are one chain from FirstProgress.
Follows(v, p) == \E u \in Reached : u.seq + 1 = v.seq /\ u.phase = "fetch" /\ u.page = p
Shaped(u) ==
    /\ u \in Progress /\ u.parsed <= u.seq
    /\ u.phase = "fetch" => u.page \in Pages
Chained ==
    /\ \A p \in Receipted :
        /\ state[p] \in {"parsed", "ignored"}
        /\ Shaped(receipt[p])
        /\ Follows(receipt[p], p)
    /\ {receipt[p].seq : p \in Receipted} = 1..Done
    /\ \A p, q \in Receipted : receipt[p].seq = receipt[q].seq => p = q
    /\ \A u \in Reached :
        /\ u.parsed = Cardinality(ParsedUpTo(u.seq))
        /\ u.phase = "fetch" /\ Known # {} => u.page \in Known
        /\ u.phase = "fetch" /\ u.page \in Receipted => receipt[u.page].seq = u.seq + 1

Open == session.status \in {"none", "collecting", "finalizing"}
Starting == {"session", "create", "frontier"}
Working == {"page", "ask", "commit", "fail", "failed"}
Publishing == {"reserve", "publish", "complete", "lose"}

\* Where the copies of the cursor are.
Placed ==
    /\ IF session.status = "none" THEN session.progress = NoProgress /\ Receipted = {}
       ELSE session.progress \in Reached
    /\ exec.told \in Reached \cup {NoProgress}
    /\ ~exec.alive => /\ At("idle") /\ session.status \in {"completed", "failed"}
                      /\ exec.told = NoProgress /\ Known # {}
    /\ exec.alive /\ exec.told = NoProgress =>
        /\ Receipted = {} /\ flying = {} /\ session.status \in {"none", "collecting"}
        /\ Known = {} \/ session.status = "collecting"
        /\ step.pc \in Starting \cup {"idle", "continue", "put"}
    /\ exec.told # NoProgress =>
        /\ session.status # "none" /\ Known # {} /\ Done <= exec.told.seq + 1
        /\ exec.told.phase = "finalize" => session.progress = exec.told
        /\ session.status = "finalizing" => exec.told.phase = "finalize"
    /\ Known = {} => Receipted = {} /\ exec.told = NoProgress

Stands ==
    /\ At("idle") => step = NoStep
    /\ step.pc \in Starting => step.value = exec.told /\ step.seen = NoProgress
    /\ step.pc \in {"create", "frontier"} => exec.told = NoProgress /\ Known = {}
    /\ At("frontier") => session.status # "none"
    /\ step.pc \notin Starting \cup {"idle"} => step.value \in Reached /\ step.seen \in Reached
    /\ step.pc \in Working => /\ exec.told # NoProgress /\ step.seen = exec.told
                              /\ step.value = exec.told
                              /\ session.status = "collecting" /\ step.seen.phase = "fetch"
    /\ At("continue") => /\ session.status = "collecting" /\ Known # {}
                         /\ exec.told # NoProgress => step.value.seq >= exec.told.seq
    /\ At("put") => /\ session.status = "collecting" /\ Known # {}
                    /\ exec.told # NoProgress => step.seen.seq >= exec.told.seq
                    /\ step.seen.phase = "finalize" => session.progress = step.seen
    /\ At("claim") => /\ exec.told.phase = "finalize"
                      /\ session.status \in {"collecting", "finalizing"}
    /\ step.pc \in Publishing => session.status = "finalizing" /\ exec.told.phase = "finalize"
    /\ step.pc \in {"reserve", "publish"} => ~Finished
    /\ At("terminal") => session.status \in {"completed", "failed"}

Sent == flying \cup {b \in {step.batch} : At("commit")}

\* What a page's commit says of the frontier, as long as it can land.
Fresh(b) ==
    /\ b.accepted # {} => b.size = Size
    /\ b.accepted \cap Known = {}
    /\ \A p \in b.accepted : OrdinalIn(b, p) <= plugin.limit
    /\ b.progress.phase = "fetch" => b.progress.page \in b.accepted \cup Waiting(b.page)
    /\ b.progress.phase = "finalize" /\ ~b.end => b.accepted \cup Waiting(b.page) = {}
    /\ ~b.progress.incomplete =>
        /\ b.kind = "parsed" /\ b.links \ Known = b.accepted
        /\ b.end => b.accepted \cup Waiting(b.page) = {}

After(u, b) ==
    /\ u.phase = "fetch" /\ u.page = b.page /\ u.seq + 1 = b.progress.seq
    /\ b.progress.parsed = u.parsed + (IF b.kind = "parsed" THEN 1 ELSE 0)
    /\ u.incomplete => b.progress.incomplete
    /\ exec.alive => u.seq <= exec.told.seq

Carried ==
    \A b \in Sent :
        /\ b.page \in Pages /\ b.kind \in {"parsed", "ignored"}
        /\ Shaped(b.progress)
        /\ b.end => b.progress.phase = "finalize"
        /\ \E u \in Reached : After(u, b)
        /\ state[b.page] = "pending" => Fresh(b)

Covered ==
    /\ session.status \in {"none", "collecting", "finalizing"} => staged = found
    /\ Known = {} => linked \subseteq 1..Initial
    /\ \A u \in Reached : u.seq = Done =>
        /\ u.phase = "finalize" => \A p \in Pages : state[p] # "pending"
        /\ ~u.incomplete =>
            /\ Known # {} => linked \subseteq Known
            /\ u.phase = "finalize" \/ state[u.page] = "pending" =>
                   \A p \in Pages : state[p] # "ignored"

Permitted ==
    /\ exec.permit => Fetching
    /\ ~plugin.relay =>
        /\ asked <= 1
        /\ exec.permit => At("idle") /\ asked = 0
        /\ step.permitted /\ step.pc \in Starting \cup {"page", "ask"} => asked = 0
    /\ step.pc \in Starting /\ ~step.permitted /\ ~step.error /\ Fetching =>
           state[exec.told.page] # "pending"
    /\ At("page") /\ ~step.permitted /\ ~step.error => state[step.seen.page] # "pending"
    /\ At("ask") => step.permitted

IInv == TypeOK /\ Chained /\ Placed /\ Stands /\ Carried /\ Covered /\ Permitted

(***************************************************************************)
(* The operators: least and greatest elements, places, the frontier.       *)
(***************************************************************************)

\* A set of naturals that is not empty has a least element.
LEMMA LeastExists ==
    ASSUME NEW n \in Nat, NEW S \in SUBSET (0..n), S # {}
    PROVE  \E x \in S : \A y \in S : x <= y
<1> DEFINE Below(x) == {y \in S : y < x}
           T == {Below(x) : x \in S}
<1>1. IsFiniteSet(S)
  BY FS_BoundedSetOfNaturals
<1>2. \A x \in S : Below(x) \in FiniteSubsetsOf(S)
  BY <1>1, FS_Subset DEF FiniteSubsetsOf
<1>3. T \subseteq FiniteSubsetsOf(S) /\ T # {}
  BY <1>2
<1>4. PICK B \in T : \A C \in T : ~ (<<C, B>> \in StrictSubsetOrdering(S))
  <2> HIDE DEF T
  <2> QED
    BY <1>3, FS_StrictSubsetOrderingWellFounded, WFMin
<1>5. PICK x \in S : B = Below(x)
  BY <1>4
<1>6. SUFFICES ASSUME NEW y \in S, y < x
               PROVE  FALSE
  BY <1>5
<1>7. Below(y) \subseteq Below(x) /\ y \in Below(x) /\ y \notin Below(y)
  <2>1. \A z \in S : z \in Int
    OBVIOUS
  <2>2. \A z \in S : z < y => z < x
    BY <1>6, <2>1
  <2>3. ~ (y < y)
    BY <2>1
  <2>4. Below(y) \subseteq Below(x)
    BY <2>2
  <2> QED
    BY <1>6, <2>3, <2>4
<1>8. <<Below(y), Below(x)>> \in StrictSubsetOrdering(S)
  BY <1>7 DEF StrictSubsetOrdering
<1> QED
  BY <1>4, <1>5, <1>6, <1>8

\* ... and one that is bounded a greatest.
LEMMA GreatestExists ==
    ASSUME NEW n \in Nat, NEW S \in SUBSET (0..n), S # {}
    PROVE  Largest(S) \in S /\ \A y \in S : y <= Largest(S)
<1> DEFINE T == {n - x : x \in S}
<1>1. T \in SUBSET (0..n) /\ T # {}
  <2>1. \A x \in S : n - x \in 0..n
    OBVIOUS
  <2> QED
    BY <2>1
<1>2. \E t \in T : \A u \in T : t <= u
  <2> HIDE DEF T
  <2> QED
    BY <1>1, LeastExists
<1>3. PICK x \in S : \A y \in S : n - x <= n - y
  BY <1>2
<1>4. \A y \in S : y <= x
  BY <1>3
<1> QED
  BY <1>4 DEF Largest

LEMMA LimitBounds ==
    ASSUME plugin \in Plugins
    PROVE  /\ Limit \in Nat /\ Initial <= Limit /\ plugin.limit <= Limit
           /\ Initial \in Nat /\ plugin.limit \in Nat /\ NumPages \in Nat
<1>1. Initial \in Nat /\ plugin.limit \in Nat /\ NumPages \in Nat
  BY PagesAssumption, PluginAssumption
<1> DEFINE S == {Initial, plugin.limit}
<1>2. S \in SUBSET (0..(Initial + plugin.limit)) /\ S # {} /\ Initial + plugin.limit \in Nat
  BY <1>1
<1>3. Largest(S) \in S /\ \A y \in S : y <= Largest(S)
  <2> HIDE DEF S
  <2> QED
    BY <1>2, GreatestExists
<1> QED
  BY <1>1, <1>3 DEF Limit

\* Every ordinal is at most Size.
LEMMA SizeBounds ==
    ASSUME plugin \in Plugins, ordinal \in [Pages -> 0..Limit]
    PROVE  /\ Size \in 0..Limit /\ \A p \in Pages : ordinal[p] <= Size
           /\ \E p \in Pages : ordinal[p] = Size
<1>1. Limit \in Nat
  BY LimitBounds
<1> DEFINE S == {ordinal[p] : p \in Pages}
<1>2. S \in SUBSET (0..Limit)
  OBVIOUS
<1>3. 1 \in Pages
  BY PagesAssumption DEF Pages
<1>4. S # {}
  BY <1>3
<1>5. Largest(S) \in S /\ \A y \in S : y <= Largest(S)
  <2> HIDE DEF S
  <2> QED
    BY <1>1, <1>2, <1>4, GreatestExists
<1> QED
  BY <1>2, <1>5 DEF Size

LEMMA PagesAreFinite ==
    /\ IsFiniteSet(Pages) /\ Cardinality(Pages) = NumPages /\ NumPages \in Nat
    /\ \A S \in SUBSET Pages :
        IsFiniteSet(S) /\ Cardinality(S) \in Nat /\ Cardinality(S) <= NumPages
<1>1. NumPages \in Nat /\ NumPages \in Int /\ 1 \in Int
  BY PagesAssumption
<1>2. IsFiniteSet(Pages) /\ Cardinality(Pages) = NumPages
  BY <1>1, FS_Interval DEF Pages
<1>3. ASSUME NEW S \in SUBSET Pages
      PROVE  IsFiniteSet(S) /\ Cardinality(S) \in Nat /\ Cardinality(S) <= NumPages
  BY <1>2, FS_Subset, FS_CardinalityType
<1> QED
  BY <1>1, <1>2, <1>3

\* A place in a set is from 1, and no later in a smaller one.
LEMMA PlaceBounds ==
    ASSUME NEW S \in SUBSET Pages, NEW T \in SUBSET S, NEW p \in T
    PROVE  /\ Place(p, T) \in Nat /\ Place(p, S) \in Nat
           /\ 1 <= Place(p, T) /\ Place(p, T) <= Place(p, S)
<1> DEFINE A == {q \in T : q <= p}
           B == {q \in S : q <= p}
<1>1. p \in Int
  BY DEF Pages
<1>2. A \in SUBSET B /\ {p} \in SUBSET A /\ B \in SUBSET Pages
  <2>1. p <= p
    BY <1>1
  <2>2. p \in A
    BY <2>1
  <2> QED
    BY <2>2
<1>3. IsFiniteSet(A) /\ IsFiniteSet(B) /\ Cardinality(A) \in Nat /\ Cardinality(B) \in Nat
  BY <1>2, PagesAreFinite
<1>4. Cardinality(A) <= Cardinality(B)
  BY <1>2, <1>3, FS_Subset
<1>5. 1 <= Cardinality(A)
  <2>1. Cardinality({p}) <= Cardinality(A)
    BY <1>2, <1>3, FS_Subset
  <2> QED
    BY <2>1, FS_Singleton
<1> QED
  BY <1>3, <1>4, <1>5 DEF Place

\* The next page is one that waits, if any does.
LEMMA NextWaits ==
    ASSUME plugin \in Plugins, ordinal \in [Pages -> 0..Limit], NEW p
    PROVE  IF Waiting(p) = {} THEN NextPending(p) = NoPage ELSE NextPending(p) \in Waiting(p)
<1>1. CASE Waiting(p) = {}
  BY <1>1 DEF NextPending
<1>2. CASE Waiting(p) # {}
  <2> DEFINE S == {ordinal[q] : q \in Waiting(p)}
  <2>1. Limit \in Nat
    BY LimitBounds
  <2>2. S \in SUBSET (0..Limit) /\ S # {}
    BY <1>2 DEF Waiting
  <2>3. \E x \in S : \A y \in S : x <= y
    <3> HIDE DEF S
    <3> QED
      BY <2>1, <2>2, LeastExists
  <2>4. \E q \in Waiting(p) : \A r \in Waiting(p) : ordinal[q] <= ordinal[r]
    BY <2>3
  <2> QED
    BY <1>2, <2>4 DEF NextPending
<1> QED
  BY <1>1, <1>2

LEMMA LeastIsFirst ==
    ASSUME NEW S \in SUBSET Pages
    PROVE  IF S = {} THEN Least(S) = NoPage ELSE Least(S) \in S
<1>1. CASE S = {}
  BY <1>1 DEF Least
<1>2. CASE S # {}
  <2>1. S \in SUBSET (0..NumPages) /\ NumPages \in Nat
    BY PagesAssumption DEF Pages
  <2>2. \E x \in S : \A y \in S : x <= y
    BY <1>2, <2>1, LeastExists
  <2> QED
    BY <1>2, <2>2 DEF Least
<1> QED
  BY <1>1, <1>2

\* No page of the frontier is the one that stands for none.
LEMMA NoPageIsNone == NoPage \notin Pages
  BY DEF NoPage, Pages

(***************************************************************************)
(* The chain of receipts.                                                  *)
(***************************************************************************)

LEMMA ProgressTypes ==
    /\ FirstProgress \in Progress /\ NoProgress \notin Progress
    /\ NoProgress.seq = -1 /\ NoProgress.phase = "none"
    /\ FirstProgress.seq = 0 /\ FirstProgress.phase = "fetch" /\ FirstProgress.page = 1
    /\ FirstProgress.parsed = 0
    /\ 1 \in Pages
<1>1. NumPages \in Nat /\ 1 \in Pages /\ 0 \in 0..NumPages
  BY PagesAssumption DEF Pages
<1>2. FirstProgress \in Progress
  BY <1>1 DEF FirstProgress, Progress
<1>3. NoProgress \notin Progress
  BY DEF NoProgress, Progress
<1> QED
  BY <1>1, <1>2, <1>3 DEF FirstProgress, NoProgress

LEMMA ReachedTypes ==
    ASSUME receipt \in [Pages -> Cursors]
    PROVE  /\ Receipted \subseteq Pages /\ IsFiniteSet(Receipted)
           /\ Done \in Nat /\ Done <= NumPages
           /\ Reached \subseteq Progress
           /\ \A u \in Progress : u.seq \in Nat /\ u.parsed \in Nat
           /\ \A p \in Receipted : receipt[p] \in Reached /\ receipt[p] \in Progress
           /\ FirstProgress \in Reached
<1>1. Receipted \subseteq Pages /\ \A p \in Receipted : receipt[p] \in Progress
  BY DEF Receipted, Cursors
<1>2. IsFiniteSet(Receipted) /\ Done \in Nat /\ Done <= NumPages
  BY <1>1, PagesAreFinite DEF Done
<1>3. Reached \subseteq Progress
  BY <1>1, ProgressTypes DEF Reached
<1>4. \A u \in Progress : u.seq \in Nat /\ u.parsed \in Nat
  BY PagesAssumption DEF Progress
<1> QED
  BY <1>1, <1>2, <1>3, <1>4 DEF Reached

\* A sequence number names one progress of the chain.
LEMMA SeqDetermines ==
    ASSUME receipt \in [Pages -> Cursors], Chained
    PROVE  /\ \A u \in Reached : u.seq \in 0..Done
           /\ \A u, v \in Reached : u.seq = v.seq => u = v
<1>1. Done \in Nat /\ \A p \in Receipted : receipt[p].seq \in 1..Done
  BY ReachedTypes DEF Chained
<1>2. \A u \in Reached : u.seq \in 0..Done
  BY <1>1, ProgressTypes DEF Reached
<1>3. ASSUME NEW u \in Reached, NEW v \in Reached, u.seq = v.seq
      PROVE  u = v
  <2>1. CASE u = FirstProgress
    BY <1>1, <1>3, <2>1, ProgressTypes DEF Reached
  <2>2. CASE v = FirstProgress
    BY <1>1, <1>3, <2>2, ProgressTypes DEF Reached
  <2>3. CASE u # FirstProgress /\ v # FirstProgress
    <3>1. PICK p \in Receipted, q \in Receipted : u = receipt[p] /\ v = receipt[q]
      BY <2>3 DEF Reached
    <3> QED
      BY <1>3, <3>1 DEF Chained
  <2> QED
    BY <2>1, <2>2, <2>3
<1> QED
  BY <1>2, <1>3

\* What is not the last of the chain has its successor at the page it points to.
LEMMA HasSuccessor ==
    ASSUME receipt \in [Pages -> Cursors], Chained,
           NEW u \in Reached, u.seq # Done
    PROVE  /\ u.phase = "fetch" /\ u.page \in Receipted
           /\ receipt[u.page].seq = u.seq + 1
<1>1. u.seq \in 0..Done /\ Done \in Nat
  BY SeqDetermines, ReachedTypes
<1>2. u.seq + 1 \in 1..Done
  BY <1>1
<1>3. PICK p \in Receipted : receipt[p].seq = u.seq + 1
  BY <1>2 DEF Chained
<1>4. PICK w \in Reached : w.seq + 1 = receipt[p].seq /\ w.phase = "fetch" /\ w.page = p
  BY DEF Chained, Follows
<1>5. w.seq \in 0..Done
  BY SeqDetermines
<1>6. w.seq = u.seq
  BY <1>1, <1>3, <1>4, <1>5
<1>7. w = u
  BY <1>6, SeqDetermines
<1> QED
  BY <1>3, <1>4, <1>7

LEMMA FinalIsLast ==
    ASSUME receipt \in [Pages -> Cursors], Chained,
           NEW u \in Reached, u.phase = "finalize"
    PROVE  u.seq = Done /\ u # FirstProgress /\ Receipted # {}
<1>1. u.seq = Done
  BY HasSuccessor
<1>2. u # FirstProgress
  BY ProgressTypes
<1> QED
  BY <1>1, <1>2 DEF Reached

\* A page that waits is pointed to by the last progress, if by any.
LEMMA WaitingIsLast ==
    ASSUME receipt \in [Pages -> Cursors], Chained,
           NEW u \in Reached, u.phase = "fetch", state[u.page] = "pending"
    PROVE  u.seq = Done /\ u.page \in Pages /\ u.page \notin Receipted
<1>1. u.page \notin Receipted
  BY DEF Chained
<1>2. u.seq = Done
  BY <1>1, HasSuccessor
<1>3. u.page \in Pages
  BY ProgressTypes DEF Reached, Chained, Shaped
<1> QED
  BY <1>1, <1>2, <1>3

\* The chain does not move when neither states nor receipts do.
LEMMA ChainStands ==
    ASSUME UNCHANGED <<state, receipt>>
    PROVE  /\ Receipted' = Receipted /\ Done' = Done /\ Reached' = Reached /\ Known' = Known
           /\ Chained => Chained'
<1>1. Receipted' = Receipted /\ Known' = Known
  BY DEF Receipted, Known
<1>2. Done' = Done /\ Reached' = Reached
  BY <1>1 DEF Done, Reached
<1>3. \A k : ParsedUpTo(k)' = ParsedUpTo(k)
  BY <1>1 DEF ParsedUpTo
<1>4. \A v, p : Follows(v, p)' <=> Follows(v, p)
  BY <1>2 DEF Follows
<1>5. Chained => Chained'
  BY <1>1, <1>2, <1>3, <1>4 DEF Chained
<1> QED
  BY <1>1, <1>2, <1>5

(***************************************************************************)
(* What a commit does.                                                     *)
(***************************************************************************)

PageStates == {"absent", "pending", "parsed", "ignored"}

\* A fenced one may only close the pages that wait.
LEMMA Fenced ==
    ASSUME state \in [Pages -> PageStates], ordinal \in [Pages -> 0..Limit],
           NEW b, ~Lands(b), Apply(b)
    PROVE  /\ UNCHANGED <<receipt, ordinal, staged, found, linked, plugin, session>>
           /\ state' \in [Pages -> PageStates]
           /\ \/ state' = state
              \/ \A p \in Pages : state'[p] = IF state[p] = "pending" THEN "ignored" ELSE state[p]
<1> DEFINE Closed(p) == b.end /\ Owner /\ state[p] = "pending"
<1>1. UNCHANGED <<receipt, staged, found, linked, plugin, session>>
  BY DEF Apply
<1>2. ordinal' = [p \in Pages |-> ordinal[p]]
  BY DEF Apply
<1>3. state' = [p \in Pages |-> IF Closed(p) THEN "ignored" ELSE state[p]]
  BY DEF Apply
<1>4. state' \in [Pages -> PageStates]
  BY <1>3 DEF PageStates
<1>5. \/ state' = state
      \/ \A p \in Pages : state'[p] = IF state[p] = "pending" THEN "ignored" ELSE state[p]
  <2>1. CASE b.end /\ Owner
    BY <1>3, <2>1
  <2>2. CASE ~(b.end /\ Owner)
    BY <1>3, <2>2
  <2> QED
    BY <2>1, <2>2
<1> QED
  BY <1>1, <1>2, <1>4, <1>5

\* One that lands records its page and adds the pages it accepted.
Recorded(b, p) ==
    IF p = b.page THEN b.kind
    ELSE IF p \in Added(b) THEN IF b.end THEN "ignored" ELSE "pending"
    ELSE IF b.end /\ state[p] = "pending" THEN "ignored" ELSE state[p]

LEMMA Landed ==
    ASSUME state \in [Pages -> PageStates], receipt \in [Pages -> Cursors],
           ordinal \in [Pages -> 0..Limit],
           NEW b, b.page \in Pages, b.kind \in {"parsed", "ignored"}, Lands(b), Apply(b)
    PROVE  /\ UNCHANGED <<plugin, session>> /\ session.status = "collecting"
           /\ state[b.page] = "pending" /\ b.page \notin Added(b)
           /\ state' \in [Pages -> PageStates]
           /\ \A p \in Pages : state'[p] = Recorded(b, p)
           /\ receipt' = [receipt EXCEPT ![b.page] = b.progress]
           /\ ordinal' = [p \in Pages |-> IF p \in Added(b) THEN OrdinalIn(b, p) ELSE ordinal[p]]
           /\ staged' = IF b.items THEN staged \cup {b.page} ELSE staged
           /\ found' = IF b.items THEN found \cup {b.page} ELSE found
           /\ linked' = linked \cup b.links
<1>1. Owner /\ session.status = "collecting" /\ state[b.page] = "pending"
  BY DEF Lands, Owner
<1>2. b.page \notin Added(b)
  BY <1>1 DEF Added
<1>3. /\ UNCHANGED <<plugin, session>>
      /\ receipt' = [receipt EXCEPT ![b.page] = b.progress]
      /\ ordinal' = [p \in Pages |-> IF p \in Added(b) THEN OrdinalIn(b, p) ELSE ordinal[p]]
      /\ staged' = IF b.items THEN staged \cup {b.page} ELSE staged
      /\ found' = IF b.items THEN found \cup {b.page} ELSE found
      /\ linked' = linked \cup b.links
  BY DEF Apply
<1> DEFINE Raw == [p \in Pages |->
                    IF p = b.page THEN b.kind ELSE IF p \in Added(b) THEN "pending" ELSE state[p]]
<1>4. state' = [p \in Pages |-> IF b.end /\ Raw[p] = "pending" THEN "ignored" ELSE Raw[p]]
  BY <1>1 DEF Apply
<1>5. \A p \in Pages : state'[p] = Recorded(b, p)
  BY <1>4, <1>1, <1>2 DEF Recorded
<1>6. \A p \in Pages : Recorded(b, p) \in PageStates
  BY DEF Recorded, PageStates
<1>7. state' \in [Pages -> PageStates]
  BY <1>4, <1>5, <1>6
<1> QED
  BY <1>1, <1>2, <1>3, <1>5, <1>7

\* The chain keeps when states change without a receipt: only pages that were
\* neither parsed nor ignored move, and none is parsed.
Moved(p) ==
    \/ state'[p] = state[p]
    \/ state[p] \in {"absent", "pending"} /\ state'[p] \in {"pending", "ignored"}

LEMMA ChainKept ==
    ASSUME receipt \in [Pages -> Cursors], UNCHANGED receipt, Chained,
           \A p \in Pages : Moved(p),
           Known # {} \/ Known' = {} \/ (Receipted = {} /\ 1 \in Known')
    PROVE  /\ Receipted' = Receipted /\ Done' = Done /\ Reached' = Reached
           /\ Known \subseteq Known'
           /\ Chained'
<1>1. Receipted' = Receipted
  BY DEF Receipted
<1>2. Done' = Done /\ Reached' = Reached
  BY <1>1 DEF Done, Reached
<1>3. Known \subseteq Known'
  BY DEF Known, Moved
<1>4. Receipted \subseteq Pages
  BY ReachedTypes
<1>5. \A p \in Receipted : state'[p] = state[p]
  BY <1>4 DEF Chained, Moved
<1>6. \A k : ParsedUpTo(k)' = ParsedUpTo(k)
  BY <1>1, <1>5 DEF ParsedUpTo
<1>7. \A v, p : Follows(v, p)' <=> Follows(v, p)
  BY <1>2 DEF Follows
<1>8. \A u \in Reached : u.phase = "fetch" /\ Known' # {} => u.page \in Known'
  <2>1. CASE Known # {}
    BY <1>3, <2>1 DEF Chained
  <2>2. CASE Known' = {}
    BY <2>2
  <2>3. CASE Receipted = {} /\ 1 \in Known'
    BY <2>3, ProgressTypes DEF Reached
  <2> QED
    BY <2>1, <2>2, <2>3
<1>9. \A p \in Receipted : Shaped(receipt[p])'
  BY DEF Chained, Shaped
<1>10. Chained'
  BY <1>1, <1>2, <1>5, <1>6, <1>7, <1>8, <1>9 DEF Chained
<1> QED
  BY <1>1, <1>2, <1>3, <1>10

\* A commit that lands follows the last progress.
LEMMA LandsLast ==
    ASSUME receipt \in [Pages -> Cursors], Chained,
           NEW b, Lands(b), NEW u \in Reached, After(u, b)
    PROVE  u.seq = Done /\ b.progress.seq = Done + 1 /\ b.page \notin Receipted
           /\ b.page \in Pages
<1>1. u.phase = "fetch" /\ state[u.page] = "pending" /\ u.page = b.page
      /\ u.seq + 1 = b.progress.seq
  BY DEF After, Lands
<1> QED
  BY <1>1, WaitingIsLast

\* It adds one receipt, the next of the chain.
Grows(b) ==
    /\ Receipted' = Receipted \cup {b.page} /\ Done' = Done + 1
    /\ Reached' = Reached \cup {b.progress}
    /\ receipt'[b.page] = b.progress
    /\ \A p \in Receipted : receipt'[p] = receipt[p] /\ state'[p] = state[p]
    /\ state'[b.page] = b.kind
    /\ Known \subseteq Known'

LEMMA LandingGrows ==
    ASSUME TypeOK, Chained,
           NEW b, b.page \in Pages, b.kind \in {"parsed", "ignored"}, b.progress \in Progress,
           Lands(b), Apply(b),
           NEW u \in Reached, After(u, b)
    PROVE  Grows(b)
<1>1. /\ receipt \in [Pages -> Cursors]
      /\ state \in [Pages -> PageStates] /\ ordinal \in [Pages -> 0..Limit]
  BY DEF TypeOK, PageStates
<1>2. b.page \notin Receipted
  BY <1>1, LandsLast
<1>3. receipt' = [receipt EXCEPT ![b.page] = b.progress]
      /\ \A p \in Pages : state'[p] = Recorded(b, p)
      /\ state[b.page] = "pending"
  BY <1>1, Landed
<1>4. b.progress # NoProgress
  BY ProgressTypes
<1>5. Receipted' = Receipted \cup {b.page}
  BY <1>1, <1>3, <1>4 DEF Receipted
<1>6. Done' = Done + 1
  BY <1>1, <1>2, <1>5, ReachedTypes, FS_AddElement DEF Done
<1>7. receipt'[b.page] = b.progress /\ \A p \in Receipted : receipt'[p] = receipt[p]
  BY <1>1, <1>2, <1>3, ReachedTypes
<1>8. Reached' = Reached \cup {b.progress}
  BY <1>5, <1>7 DEF Reached
<1>9. \A p \in Receipted : state'[p] = state[p]
  <2> SUFFICES ASSUME NEW p \in Receipted
               PROVE  state'[p] = state[p]
    OBVIOUS
  <2>1. p \in Pages /\ p # b.page /\ state[p] \in {"parsed", "ignored"}
    BY <1>1, <1>2, ReachedTypes DEF Chained
  <2>2. p \notin Added(b)
    BY <2>1 DEF Added
  <2> QED
    BY <1>3, <2>1, <2>2 DEF Recorded
<1>10. state'[b.page] = b.kind
  BY <1>3 DEF Recorded
<1>11. Known \subseteq Known'
  BY <1>3 DEF Known, Recorded
<1> QED
  BY <1>5, <1>6, <1>7, <1>8, <1>9, <1>10, <1>11 DEF Grows

\* What was accepted of a frontier that has not moved finds its places free.
LEMMA AddedAll ==
    ASSUME TypeOK, NEW b \in Batches, Fresh(b)
    PROVE  /\ Added(b) = b.accepted
           /\ \A p \in b.accepted : OrdinalIn(b, p) \in 1..Limit
<1>1. /\ Size \in 0..Limit /\ \A q \in Pages : ordinal[q] <= Size
      /\ Limit \in Nat /\ plugin.limit <= Limit /\ plugin.limit \in Nat
      /\ \A q \in Pages : ordinal[q] \in Nat
  BY SizeBounds, LimitBounds DEF TypeOK
<1>2. b.accepted \subseteq Pages
  BY DEF Batches
<1>3. ASSUME NEW p \in b.accepted
      PROVE  OrdinalIn(b, p) \in 1..Limit /\ Size < OrdinalIn(b, p)
  <2>1. Place(p, b.accepted) \in Nat /\ 1 <= Place(p, b.accepted)
    BY <1>2, PlaceBounds
  <2>2. b.size = Size /\ OrdinalIn(b, p) <= plugin.limit
    BY DEF Fresh
  <2>3. OrdinalIn(b, p) = Size + Place(p, b.accepted)
    BY <2>2 DEF OrdinalIn
  <2> QED
    BY <1>1, <2>1, <2>2, <2>3
<1>4. ASSUME NEW p \in b.accepted
      PROVE  p \in Added(b)
  <2>1. state[p] = "absent"
    BY <1>2 DEF Fresh, Known
  <2>2. \A q \in Pages : ordinal[q] # OrdinalIn(b, p)
    BY <1>1, <1>3
  <2> QED
    BY <2>1, <2>2 DEF Added
<1>5. Added(b) \subseteq b.accepted
  BY DEF Added
<1> QED
  BY <1>3, <1>4, <1>5

LEMMA CountsGrow ==
    ASSUME TypeOK, Chained,
           NEW b, b.page \in Pages, b.kind \in {"parsed", "ignored"}, b.progress \in Progress,
           Lands(b), Apply(b),
           NEW u \in Reached, After(u, b)
    PROVE  \A v \in Reached' : v.parsed = Cardinality(ParsedUpTo(v.seq)')
<1>1. /\ receipt \in [Pages -> Cursors]
      /\ Receipted \subseteq Pages /\ Done \in Nat /\ IsFiniteSet(Receipted)
      /\ Reached \subseteq Progress /\ FirstProgress \in Reached
      /\ \A v \in Reached : v.seq \in 0..Done
      /\ \A p \in Receipted : receipt[p].seq \in 1..Done
  BY ReachedTypes, SeqDetermines DEF TypeOK, Chained
<1>2. Grows(b)
  BY LandingGrows
<1>3. u.seq = Done /\ b.progress.seq = Done + 1 /\ b.page \notin Receipted
  BY <1>1, LandsLast
<1>4. ASSUME NEW v \in Reached
      PROVE  v.parsed = Cardinality(ParsedUpTo(v.seq)')
  <2>1. v.seq < Done + 1
    BY <1>1
  <2>2. ParsedUpTo(v.seq)' = ParsedUpTo(v.seq)
    BY <1>2, <1>3, <2>1, <1>1 DEF ParsedUpTo, Grows
  <2> QED
    BY <2>2 DEF Chained
<1>5. b.progress.parsed = Cardinality(ParsedUpTo(b.progress.seq)')
  <2> DEFINE New == IF b.kind = "parsed" THEN {b.page} ELSE {}
  <2>1. ParsedUpTo(b.progress.seq)' = ParsedUpTo(u.seq) \cup New
    <3>1. \A p \in Receipted : receipt[p].seq <= u.seq
      BY <1>1, <1>3
    <3>2. \A p \in Receipted : receipt'[p].seq <= b.progress.seq
      BY <1>1, <1>2, <1>3 DEF Grows
    <3>3. receipt'[b.page].seq <= b.progress.seq
      BY <1>1, <1>2, <1>3 DEF Grows
    <3>4. ParsedUpTo(u.seq) = {p \in Receipted : state[p] = "parsed"}
      BY <3>1 DEF ParsedUpTo
    <3>5. ParsedUpTo(b.progress.seq)' = {p \in Receipted' : state'[p] = "parsed"}
      BY <1>2, <3>2, <3>3 DEF ParsedUpTo, Grows
    <3> QED
      BY <1>2, <3>4, <3>5 DEF Grows
  <2>2. b.page \notin ParsedUpTo(u.seq) /\ IsFiniteSet(ParsedUpTo(u.seq))
    BY <1>1, <1>3, FS_Subset DEF ParsedUpTo
  <2>3. Cardinality(ParsedUpTo(u.seq) \cup {b.page}) = Cardinality(ParsedUpTo(u.seq)) + 1
    BY <2>2, FS_AddElement
  <2>4. u.parsed = Cardinality(ParsedUpTo(u.seq)) /\ u.parsed \in Nat
    BY <1>1, ReachedTypes DEF Chained
  <2>5. b.progress.parsed = u.parsed + (IF b.kind = "parsed" THEN 1 ELSE 0)
    BY DEF After
  <2>6. CASE b.kind = "parsed"
    BY <2>1, <2>3, <2>4, <2>5, <2>6
  <2>7. CASE b.kind # "parsed"
    <3>1. ParsedUpTo(b.progress.seq)' = ParsedUpTo(u.seq)
      BY <2>1, <2>7
    <3> QED
      BY <2>4, <2>5, <2>7, <3>1
  <2> QED
    BY <2>6, <2>7
<1> QED
  BY <1>2, <1>4, <1>5 DEF Grows

LEMMA LandingChains ==
    ASSUME TypeOK, Chained,
           NEW b \in Batches, b.page \in Pages, b.kind \in {"parsed", "ignored"},
           Shaped(b.progress), Fresh(b),
           Lands(b), Apply(b),
           NEW u \in Reached, After(u, b)
    PROVE  Chained'
<1>1. /\ receipt \in [Pages -> Cursors] /\ state \in [Pages -> PageStates]
      /\ Receipted \subseteq Pages /\ Done \in Nat
      /\ Reached \subseteq Progress /\ FirstProgress \in Reached
      /\ \A p \in Receipted : receipt[p] \in Reached
  BY ReachedTypes DEF TypeOK, PageStates
<1>2. Grows(b)
  BY LandingGrows DEF Shaped
<1>3. u.seq = Done /\ b.progress.seq = Done + 1 /\ b.page \notin Receipted
  BY <1>1, LandsLast
<1>4. \A p \in Receipted' :
        /\ state'[p] \in {"parsed", "ignored"}
        /\ Shaped(receipt'[p])
        /\ Follows(receipt[p], p)'
  <2>1. ASSUME NEW p \in Receipted
        PROVE  /\ state'[p] \in {"parsed", "ignored"}
               /\ Shaped(receipt'[p])
               /\ Follows(receipt[p], p)'
    <3>1. Follows(receipt[p], p)
      BY DEF Chained
    <3>2. Follows(receipt[p], p)'
      BY <1>2, <3>1 DEF Follows, Grows
    <3> QED
      BY <1>2, <3>2 DEF Chained, Grows
  <2>2. Follows(receipt[b.page], b.page)'
    BY <1>2 DEF Follows, Grows, After
  <2> QED
    BY <1>2, <2>1, <2>2 DEF Grows
<1>5. {receipt'[p].seq : p \in Receipted'} = 1..(Done')
  <2>1. {receipt'[p].seq : p \in Receipted'} = {receipt[p].seq : p \in Receipted} \cup {Done + 1}
    BY <1>2, <1>3 DEF Grows
  <2>2. 1..(Done + 1) = 1..Done \cup {Done + 1}
    BY <1>1
  <2> QED
    BY <1>2, <2>1, <2>2 DEF Grows, Chained
<1>6. \A p, q \in Receipted' : receipt'[p].seq = receipt'[q].seq => p = q
  <2>1. \A p \in Receipted : receipt[p].seq # Done + 1
    BY <1>1 DEF Chained
  <2> QED
    BY <1>2, <1>3, <2>1 DEF Grows, Chained
<1>7. \A v \in Reached' : v.parsed = Cardinality(ParsedUpTo(v.seq)')
  BY CountsGrow DEF Shaped
<1>8. \A v \in Reached' : v.phase = "fetch" => v.page \in Known'
  <2>1. state[b.page] = "pending"
    BY DEF Lands
  <2>2. Known # {}
    BY <2>1 DEF Known
  <2>3. \A v \in Reached : v.phase = "fetch" => v.page \in Known'
    BY <1>2, <2>2 DEF Chained, Grows
  <2>4. ASSUME b.progress.phase = "fetch"
        PROVE  b.progress.page \in Known'
    <3>1. b.progress.page \in b.accepted \cup Waiting(b.page)
      BY <2>4 DEF Fresh
    <3>2. CASE b.progress.page \in Waiting(b.page)
      <4>1. b.progress.page \in Known
        BY <3>2 DEF Waiting, Known
      <4> QED
        BY <1>2, <4>1 DEF Grows
    <3>3. CASE b.progress.page \in b.accepted
      <4>1. b.progress.page \in Added(b) /\ b.progress.page \in Pages
        BY <3>3, AddedAll DEF Batches
      <4>2. \A p \in Pages : state'[p] = Recorded(b, p)
        BY <1>1, Landed DEF TypeOK
      <4>3. state'[b.progress.page] # "absent"
        BY <4>1, <4>2 DEF Recorded
      <4> QED
        BY <4>1, <4>3 DEF Known
    <3> QED
      BY <3>1, <3>2, <3>3
  <2> QED
    BY <1>2, <2>3, <2>4 DEF Grows
<1>9. ASSUME NEW v \in Reached', v.phase = "fetch", v.page \in Receipted'
      PROVE  receipt'[v.page].seq = v.seq + 1
  <2>1. state[b.page] = "pending"
    BY DEF Lands
  <2>2. CASE v = b.progress
    <3>1. b.progress.page \in b.accepted \cup Waiting(b.page)
      BY <1>9, <2>2 DEF Fresh
    <3>2. b.progress.page # b.page
      BY <3>1, <2>1 DEF Fresh, Known, Waiting, Batches
    <3>3. b.progress.page \notin Receipted
      BY <3>1 DEF Chained, Fresh, Known, Waiting, Batches
    <3> QED
      BY <1>2, <1>9, <2>2, <3>2, <3>3 DEF Grows
  <2>3. CASE v \in Reached /\ v.page = b.page
    <3>1. v.seq = Done
      BY <1>1, <1>9, <2>1, <2>3, WaitingIsLast
    <3> QED
      BY <1>2, <1>3, <2>3, <3>1 DEF Grows
  <2>4. CASE v \in Reached /\ v.page # b.page
    <3>1. v.page \in Receipted
      BY <1>2, <1>9, <2>4 DEF Grows
    <3>2. receipt[v.page].seq = v.seq + 1
      BY <1>9, <2>4, <3>1 DEF Chained
    <3> QED
      BY <1>2, <3>1, <3>2 DEF Grows
  <2> QED
    BY <1>2, <2>2, <2>3, <2>4 DEF Grows
<1> QED
  BY <1>4, <1>5, <1>6, <1>7, <1>8, <1>9 DEF Chained, Shaped

(***************************************************************************)
(* Types.                                                                  *)
(***************************************************************************)

PCs == {"idle", "session", "create", "frontier", "page", "ask", "commit", "continue", "put",
        "fail", "failed", "claim", "reserve", "publish", "complete", "lose", "terminal"}

LEMMA StepTypes ==
    ASSUME NEW x \in StepStates, NEW pc \in PCs, NEW v \in Cursors, NEW s \in Cursors,
           NEW e \in BOOLEAN, NEW f \in BOOLEAN, NEW b \in Batches
    PROVE  /\ [x EXCEPT !.pc = pc] \in StepStates
           /\ [x EXCEPT !.pc = pc, !.value = v] \in StepStates
           /\ [x EXCEPT !.pc = pc, !.value = v, !.seen = s] \in StepStates
           /\ [x EXCEPT !.pc = pc, !.batch = b] \in StepStates
           /\ [x EXCEPT !.pc = pc, !.value = v, !.batch = b] \in StepStates
           /\ [x EXCEPT !.pc = pc, !.value = v, !.error = e, !.permitted = f] \in StepStates
  BY DEF StepStates, PCs

LEMMA NothingTypes ==
    /\ NoProgress \in Cursors /\ NoBatch \in Batches /\ NoStep \in StepStates
    /\ FirstProgress \in Cursors
<1>1. NoProgress \in Cursors /\ FirstProgress \in Cursors
  BY ProgressTypes DEF Cursors
<1>2. NoBatch \in Batches
  BY <1>1 DEF NoBatch, Batches
<1> QED
  BY <1>1, <1>2 DEF NoStep, StepStates

\* The fields of the records, and the cursors a step may take.
LEMMA FieldTypes ==
    ASSUME TypeOK
    PROVE  /\ step.pc \in PCs /\ step.value \in Cursors /\ step.seen \in Cursors
           /\ step.permitted \in BOOLEAN /\ step.error \in BOOLEAN /\ step.batch \in Batches
           /\ exec.alive \in BOOLEAN /\ exec.told \in Cursors
           /\ exec.permit \in BOOLEAN /\ exec.attempted \in BOOLEAN
           /\ session.progress \in Cursors
           /\ session.status \in {"none", "collecting", "finalizing", "completed", "failed"}
           /\ \A v \in Cursors : Value(v) \in Cursors /\ Effective(v) \in Cursors
<1>1. /\ step.pc \in PCs /\ step.value \in Cursors /\ step.seen \in Cursors
      /\ step.permitted \in BOOLEAN /\ step.error \in BOOLEAN /\ step.batch \in Batches
  BY DEF TypeOK, StepStates, PCs
<1>2. /\ exec.alive \in BOOLEAN /\ exec.told \in Cursors
      /\ exec.permit \in BOOLEAN /\ exec.attempted \in BOOLEAN
      /\ session.progress \in Cursors
      /\ session.status \in {"none", "collecting", "finalizing", "completed", "failed"}
  BY DEF TypeOK, ExecStates, SessionStates
<1>3. \A v \in Cursors : Value(v) \in Cursors /\ Effective(v) \in Cursors
  BY <1>2 DEF Value, Effective
<1> QED
  BY <1>1, <1>2, <1>3

\* No step leaves its table.
LEMMA GoesTypes ==
    ASSUME TypeOK, NEW pc \in PCs, Goes(pc)
    PROVE  step' \in StepStates
<1>1. step \in StepStates
  BY DEF TypeOK
<1>2. step' = [step EXCEPT !.pc = pc]
  BY DEF Goes
<1>3. \A x \in StepStates : [x EXCEPT !.pc = pc] \in StepStates
  BY NothingTypes, StepTypes
<1> QED
  BY <1>1, <1>2, <1>3

LEMMA TransitionIsStep ==
    ASSUME NEW s \in Cursors
    PROVE  Transition(s) \in {"terminal", "continue", "idle", "page", "claim"}
  BY DEF Transition

\* The types of what an action that commits nothing leaves.
RowsTyped ==
    /\ plugin \in Plugins
    /\ session \in SessionStates
    /\ state \in [Pages -> PageStates]
    /\ ordinal \in [Pages -> 0..Limit]
    /\ \A p \in Pages : ordinal[p] = 0 <=> state[p] = "absent"
    /\ staged \subseteq Pages
    /\ receipt \in [Pages -> Cursors]
    /\ linked \subseteq Pages /\ found \subseteq Pages

OthersTyped ==
    /\ run \in {"none", "running", "success", "failed"} /\ fresh \in BOOLEAN
    /\ exec \in ExecStates /\ step \in StepStates
    /\ flying \subseteq Batches
    /\ faults \in 0..MaxFaults /\ lates \in 0..MaxLate
    /\ asked \in Nat /\ published \in Nat

LEMMA TypeParts == TypeOK <=> RowsTyped /\ OthersTyped
  BY DEF TypeOK, RowsTyped, OthersTyped, PageStates

LEMMA RowsStayTyped ==
    ASSUME RowsTyped, UNCHANGED <<plugin, state, ordinal, receipt, linked, found>>,
           session' \in SessionStates, staged' \subseteq Pages
    PROVE  RowsTyped'
<1>1. Limit' = Limit
  BY DEF Limit
<1> QED
  BY <1>1 DEF RowsTyped

LEMMA FaultTypes ==
    ASSUME OthersTyped, Fault
    PROVE  faults' \in 0..MaxFaults
<1>1. MaxFaults \in Nat
  BY BoundAssumption
<1> QED
  BY <1>1 DEF OthersTyped, Fault

(***************************************************************************)
(* What stands as long as the rows of the pages do.                        *)
(***************************************************************************)

\* A copy of the cursor on the chain.
LEMMA CursorTypes ==
    ASSUME TypeOK, Placed
    PROVE  /\ exec.told \in Cursors /\ exec.told.seq \in Int
           /\ exec.told # NoProgress =>
                  exec.told \in Reached /\ exec.told \in Progress /\ exec.told.seq \in Nat
           /\ exec.told = NoProgress => exec.told.seq = -1 /\ exec.told.phase = "none"
           /\ session.status # "none" => session.progress \in Reached
           /\ session.progress \in Cursors /\ session.progress.seq \in Int
           /\ \A u \in Reached : u \in Cursors /\ u \in Progress /\ u.seq \in Nat
<1>1. \A u \in Reached : u \in Cursors /\ u \in Progress /\ u.seq \in Nat
  BY ReachedTypes DEF TypeOK, Cursors
<1>2. exec.told \in Cursors /\ session.progress \in Cursors
  BY FieldTypes
<1>3. NoProgress.seq \in Int
  BY ProgressTypes
<1>4. exec.told \in Reached \cup {NoProgress}
  BY DEF Placed
<1>5. session.progress \in Reached \cup {NoProgress} /\ (session.status # "none" => session.progress \in Reached)
  BY DEF Placed
<1> QED
  BY <1>1, <1>2, <1>3, <1>4, <1>5, ProgressTypes

LEMMA CursorSeq == \A c \in Cursors : c.seq \in Int
  BY ProgressTypes, ReachedTypes, PagesAssumption DEF Cursors, Progress

LEMMA FreshStays ==
    ASSUME UNCHANGED <<plugin, state, ordinal>>, NEW b
    PROVE  Fresh(b)' <=> Fresh(b)
<1>1. Size' = Size /\ Known' = Known /\ \A p : Waiting(p)' = Waiting(p)
  BY DEF Size, Known, Waiting
<1> QED
  BY <1>1 DEF Fresh, OrdinalIn

Onward == exec'.alive => exec.alive /\ exec.told.seq <= exec'.told.seq

LEMMA CarriedStays ==
    ASSUME TypeOK, Placed, Carried, UNCHANGED <<plugin, state, ordinal, receipt>>,
           Sent' \subseteq Sent, Onward, exec'.alive => exec'.told.seq \in Int
    PROVE  Carried'
<1>1. Reached' = Reached
  BY ChainStands
<1>2. SUFFICES ASSUME NEW b \in Sent
               PROVE  /\ b.page \in Pages /\ b.kind \in {"parsed", "ignored"}
                      /\ Shaped(b.progress)
                      /\ b.end => b.progress.phase = "finalize"
                      /\ \E u \in Reached : After(u, b)'
                      /\ state[b.page] = "pending" => Fresh(b)'
  BY <1>1 DEF Carried, Shaped
<1>3. PICK u \in Reached : After(u, b)
  BY DEF Carried
<1>4. u.seq \in Nat /\ exec.told.seq \in Int
  BY CursorTypes
<1>5. exec'.alive => u.seq <= exec'.told.seq
  BY <1>3, <1>4 DEF After, Onward
<1>6. After(u, b)'
  BY <1>3, <1>5 DEF After
<1>7. state[b.page] = "pending" => Fresh(b)'
  BY FreshStays DEF Carried
<1> QED
  BY <1>6, <1>7 DEF Carried

LEMMA PlacedStays ==
    ASSUME Placed, UNCHANGED <<session, state, receipt>>,
           exec'.told = exec.told, exec'.alive = exec.alive,
           ~exec.alive => step'.pc = "idle",
           exec.alive /\ exec.told = NoProgress =>
               flying' = {} /\ step'.pc \in Starting \cup {"idle", "continue", "put"}
    PROVE  Placed'
<1>1. Receipted' = Receipted /\ Done' = Done /\ Reached' = Reached /\ Known' = Known
  BY ChainStands
<1>2. Starting' = Starting
  BY DEF Starting
<1> QED
  BY <1>1, <1>2 DEF Placed, At

LEMMA CoveredStays ==
    ASSUME Covered, UNCHANGED <<state, receipt, linked, found>>,
           \/ UNCHANGED <<session, staged>>
           \/ session'.status \in {"completed", "failed"}
           \/ Open /\ UNCHANGED staged
    PROVE  Covered'
<1>1. Receipted' = Receipted /\ Done' = Done /\ Reached' = Reached /\ Known' = Known
  BY ChainStands
<1>2. session'.status \in {"none", "collecting", "finalizing"} => staged' = found
  BY DEF Covered, Open
<1> QED
  BY <1>1, <1>2 DEF Covered

\* An action that writes no row of D1.
LEMMA Quiet ==
    ASSUME IInv, UNCHANGED <<plugin, session, state, ordinal, staged, receipt, linked, found>>,
           OthersTyped', Placed', Stands', Permitted',
           Sent' \subseteq Sent, Onward
    PROVE  IInv'
<1>1. RowsTyped'
  BY TypeParts, RowsStayTyped DEF IInv, RowsTyped
<1>2. TypeOK'
  BY <1>1, TypeParts, PTL
<1>3. Chained'
  BY ChainStands DEF IInv
<1>4. exec'.told.seq \in Int
  <2>1. exec'.told \in Cursors
    BY <1>2 DEF TypeOK, ExecStates
  <2> QED
    BY <2>1, CursorSeq
<1>5. Carried'
  BY <1>4, CarriedStays DEF IInv
<1>6. Covered'
  BY CoveredStays DEF IInv
<1> QED
  BY <1>2, <1>3, <1>5, <1>6 DEF IInv

\* ... nor moves the execution's cursor, nor sends a commit.
LEMMA QuietStays ==
    ASSUME IInv, UNCHANGED <<plugin, session, state, ordinal, staged, receipt, linked, found>>,
           UNCHANGED flying, OthersTyped', Stands', Permitted',
           exec'.told = exec.told, exec'.alive = exec.alive, step.pc # "idle" \/ exec.alive,
           step'.pc = "commit" => step' = step,
           exec.told = NoProgress => step'.pc \in Starting \cup {"idle", "continue", "put"}
    PROVE  IInv'
<1>1. ~exec.alive => step'.pc = "idle"
  BY DEF IInv, Placed, At
<1>2. exec.alive /\ exec.told = NoProgress => flying' = {}
  BY DEF IInv, Placed
<1>3. Placed'
  BY <1>1, <1>2, PlacedStays DEF IInv
<1>4. Sent' \subseteq Sent
  BY DEF Sent, At
<1>5. Onward
  BY CursorTypes DEF Onward, IInv
<1> QED
  BY <1>3, <1>4, <1>5, Quiet

LEMMA GoesDoes ==
    ASSUME TypeOK, NEW pc, Goes(pc)
    PROVE  /\ step'.pc = pc /\ step'.value = step.value /\ step'.seen = step.seen
           /\ step'.permitted = step.permitted /\ step'.error = step.error
           /\ step'.batch = step.batch
  BY DEF TypeOK, StepStates, Goes

\* What the guards of an action say of the cursor.
LEMMA Told ==
    ASSUME IInv, step.pc \notin Starting \cup {"idle", "continue", "put"}, ~At("terminal")
    PROVE  exec.told # NoProgress /\ exec.alive
<1>1. step.pc \in PCs
  BY FieldTypes DEF IInv
<1>2. exec.told # NoProgress
  BY <1>1, ProgressTypes DEF IInv, Stands, PCs, Starting, Working, Publishing, At
<1>3. exec.alive
  BY DEF IInv, Placed, At
<1> QED
  BY <1>2, <1>3

-----------------------------------------------------------------------------

LEMMA PrepareKeeps == ASSUME IInv, Prepare PROVE IInv'
<1> USE DEF Prepare, At
<1>1. UNCHANGED <<plugin, session, state, ordinal, staged, receipt, linked, found, step,
                  run, fresh, flying, faults, lates, published>>
      /\ exec' = [exec EXCEPT !.permit = TRUE, !.attempted = FALSE] /\ asked' = 0
  BY DEF rows
<1>2. exec \in ExecStates /\ exec' \in ExecStates
      /\ exec'.told = exec.told /\ exec'.alive = exec.alive
  BY <1>1 DEF IInv, TypeOK, ExecStates
<1>3. OthersTyped'
  BY <1>1, <1>2 DEF IInv, TypeOK, OthersTyped
<1>4. Stands'
  BY <1>1, <1>2 DEF IInv, Stands, Starting, Working, Publishing
<1>5. Permitted'
  BY <1>1, <1>2 DEF Permitted, NeedsPermit, Fetching, Starting, IInv
<1> QED
  BY <1>1, <1>2, <1>3, <1>4, <1>5, QuietStays DEF IInv, Starting

\* A step begins at its session, with what the execution was told.
LEMMA BegunDoes ==
    ASSUME IInv, NEW e \in BOOLEAN, Begun(e), exec'.told = exec.told
    PROVE  /\ step' \in StepStates /\ step'.pc = "session" /\ step'.value = exec.told
           /\ step'.seen = NoProgress /\ step'.permitted = exec.permit /\ step'.error = e
           /\ Stands'
<1>1. step' \in StepStates
  <2>1. exec.told \in Cursors /\ exec.permit \in BOOLEAN /\ NoStep \in StepStates
    BY FieldTypes, NothingTypes DEF IInv
  <2>2. \A x \in StepStates :
           [x EXCEPT !.pc = "session", !.value = exec.told, !.error = e,
                     !.permitted = exec.permit] \in StepStates
    BY <2>1 DEF StepStates
  <2> QED
    BY <2>1, <2>2 DEF Begun
<1>2. /\ step'.pc = "session" /\ step'.value = exec.told
      /\ step'.seen = NoProgress /\ step'.permitted = exec.permit /\ step'.error = e
  BY DEF Begun, NoStep
<1>3. Stands'
  BY <1>2 DEF Stands, Starting, Working, Publishing, At
<1> QED
  BY <1>1, <1>2, <1>3

LEMMA PrepareFailsKeeps == ASSUME IInv, PrepareFails PROVE IInv'
<1> USE DEF PrepareFails, At
<1>1. UNCHANGED <<plugin, session, state, ordinal, staged, receipt, linked, found, exec,
                  run, fresh, flying, lates, asked, published>>
  BY DEF rows, history
<1>2. /\ step' \in StepStates /\ step'.pc = "session" /\ step'.value = exec.told
      /\ step'.seen = NoProgress /\ step'.permitted = exec.permit /\ step'.error = TRUE
      /\ Stands'
  BY <1>1, BegunDoes
<1>3. OthersTyped'
  BY <1>1, <1>2, FaultTypes, TypeParts DEF IInv, OthersTyped
<1>4. Permitted'
  BY <1>1, <1>2 DEF Permitted, NeedsPermit, Fetching, Starting, IInv
<1> QED
  BY <1>1, <1>2, <1>3, <1>4, QuietStays DEF Starting

LEMMA StepBeginsKeeps == ASSUME IInv, StepBegins PROVE IInv'
<1> USE DEF StepBegins, At
<1>1. UNCHANGED <<plugin, session, state, ordinal, staged, receipt, linked, found,
                  run, fresh, flying, faults, lates, asked, published>>
  BY DEF rows, history
<1>2. exec \in ExecStates /\ exec' \in ExecStates
      /\ exec'.told = exec.told /\ exec'.alive = exec.alive
      /\ exec'.permit = (exec.permit /\ ~(Fetching /\ ~plugin.relay))
  BY DEF PermitSpent, IInv, TypeOK, ExecStates
<1>3. /\ step' \in StepStates /\ step'.pc = "session" /\ step'.value = exec.told
      /\ step'.seen = NoProgress /\ step'.permitted = exec.permit /\ step'.error = FALSE
      /\ Stands'
  BY <1>2, BegunDoes
<1>4. OthersTyped'
  BY <1>1, <1>2, <1>3, TypeParts DEF IInv, OthersTyped
<1>5. Permitted'
  BY <1>1, <1>2, <1>3 DEF Permitted, NeedsPermit, Committed, Fetching, Starting, IInv
<1> QED
  BY <1>1, <1>2, <1>3, <1>4, <1>5, QuietStays DEF Starting

LEMMA PermitExpiresKeeps == ASSUME IInv, PermitExpires PROVE IInv'
<1> USE DEF PermitExpires, At
<1>1. UNCHANGED <<plugin, session, state, ordinal, staged, receipt, linked, found, step,
                  run, fresh, flying, lates, asked, published>>
  BY DEF rows, history
<1>2. exec \in ExecStates /\ exec' \in ExecStates /\ exec'.permit = FALSE
      /\ exec'.told = exec.told /\ exec'.alive = exec.alive
  BY DEF IInv, TypeOK, ExecStates
<1>3. OthersTyped'
  BY <1>1, <1>2, FaultTypes, TypeParts DEF IInv, OthersTyped
<1>4. Stands'
  BY <1>1, <1>2 DEF IInv, Stands, Starting, Working, Publishing
<1>5. Permitted'
  BY <1>1, <1>2 DEF Permitted, Fetching, Starting, IInv
<1> QED
  BY <1>1, <1>2, <1>3, <1>4, <1>5, QuietStays DEF Starting

-----------------------------------------------------------------------------

\* What is behind the cursor that a handler works with.
LEMMA ValueReaches ==
    ASSUME IInv, session.status # "none", NEW v \in Reached \cup {NoProgress}
    PROVE  /\ Value(v) \in Reached /\ Effective(v) \in Reached
           /\ v.seq <= Value(v).seq
           /\ session.status = "collecting" => Effective(v) = Value(v)
           /\ session.status # "collecting" => Effective(v) = session.progress
           /\ Value(v) = v \/ Value(v) = session.progress
<1>1. session.progress \in Reached /\ session.progress.seq \in Nat /\ v.seq \in Int
      /\ (v \in Reached => v.seq \in Nat) /\ (v = NoProgress => v.seq = -1)
  BY CursorTypes, ProgressTypes DEF IInv
<1> QED
  BY <1>1 DEF Value, Effective

LEMMA SessionCreates ==
    ASSUME IInv, At("session"), ~Visible
    PROVE  exec.told = NoProgress /\ Known = {}
<1>1. exec.alive
  BY DEF IInv, Placed, At
<1>2. CASE session.status = "none"
  BY <1>1, <1>2 DEF IInv, Placed
<1>3. CASE session.status # "none"
  BY <1>3 DEF Visible, IInv, Placed
<1> QED
  BY <1>2, <1>3

\* The transition that follows from the session.
LEMMA SessionGoes ==
    ASSUME IInv, At("session"), Visible,
           NEW w, w = Value(step.value), NEW seen, seen = Effective(step.value)
    PROVE  /\ w \in Reached /\ seen \in Reached
           /\ Transition(seen) = "terminal" => session.status \in {"completed", "failed"}
           /\ Transition(seen) = "continue" =>
                 /\ session.status = "collecting" /\ Known # {}
                 /\ exec.told # NoProgress => w.seq >= exec.told.seq
           /\ Transition(seen) = "page" =>
                 /\ exec.told # NoProgress /\ seen = exec.told /\ w = exec.told
                 /\ session.status = "collecting" /\ seen.phase = "fetch"
           /\ Transition(seen) = "claim" =>
                 /\ exec.told.phase = "finalize" /\ exec.told # NoProgress
                 /\ session.status \in {"collecting", "finalizing"}
<1>1. exec.alive /\ step.value = exec.told /\ exec.told \in Reached \cup {NoProgress}
      /\ session.status # "none"
      /\ receipt \in [Pages -> Cursors]
  BY DEF IInv, Placed, Stands, Starting, At, Visible, TypeOK
<1>2. /\ w \in Reached /\ seen \in Reached /\ exec.told.seq <= w.seq
      /\ session.status = "collecting" => seen = w
      /\ session.status # "collecting" => seen = session.progress
      /\ w = exec.told \/ w = session.progress
  BY <1>1, ValueReaches
<1>3. session.status \in {"none", "collecting", "finalizing", "completed", "failed"}
  BY FieldTypes DEF IInv
<1>4. \A u \in Reached : u.phase \in {"fetch", "finalize"} /\ u.seq \in Nat
  BY <1>1, ReachedTypes DEF Progress
<1>5. ASSUME Transition(seen) = "continue"
      PROVE  session.status = "collecting" /\ Known # {}
  <2>1. session.status \in {"collecting", "finalizing"}
    BY <1>1, <1>3, <1>5 DEF Transition
  <2>2. CASE exec.told = NoProgress
    <3>1. session.status = "collecting"
      BY <1>1, <2>1, <2>2 DEF IInv, Placed
    <3>2. Known # {} \/ session.progress.phase = "finalize"
      BY <1>1, <1>4, <3>1, CursorTypes DEF Visible, IInv
    <3>3. session.progress.phase = "finalize" => Receipted # {}
      BY <1>1, FinalIsLast, CursorTypes DEF IInv
    <3> QED
      BY <3>1, <3>2, <3>3 DEF IInv, Placed
  <2>3. CASE exec.told # NoProgress
    <3>1. Known # {}
      BY <2>3 DEF IInv, Placed
    <3>2. CASE session.status = "finalizing"
      <4>1. exec.told.phase = "finalize" /\ session.progress = exec.told /\ seen = exec.told
        BY <1>2, <2>3, <3>2 DEF IInv, Placed
      <4>2. Transition(seen) = "claim"
        BY <2>3, <3>2, <4>1, <1>1, <1>4 DEF Transition
      <4> QED
        BY <1>5, <4>2
    <3> QED
      BY <2>1, <3>1, <3>2
  <2> QED
    BY <2>2, <2>3
<1>6. ASSUME Transition(seen) = "page" \/ Transition(seen) = "claim"
      PROVE  /\ exec.told # NoProgress /\ seen = exec.told
             /\ session.status \in {"collecting", "finalizing"}
             /\ Transition(seen) = "page" => seen.phase = "fetch"
             /\ Transition(seen) = "claim" => seen.phase = "finalize"
  <2>1. /\ exec.told # NoProgress /\ session.status \in {"collecting", "finalizing"}
        /\ ~ (exec.told.seq > seen.seq) /\ ~ (exec.told.seq < seen.seq)
        /\ Transition(seen) = "page" => seen.phase = "fetch"
        /\ Transition(seen) = "claim" => seen.phase # "fetch"
    BY <1>1, <1>3, <1>6 DEF Transition
  <2>2. exec.told \in Reached /\ exec.told.seq = seen.seq
    BY <1>1, <1>2, <1>4, <2>1
  <2>3. exec.told = seen
    BY <1>1, <1>2, <2>2, SeqDetermines DEF IInv
  <2> QED
    BY <1>2, <1>4, <2>1, <2>3
<1>7. ASSUME Transition(seen) = "page"
      PROVE  w = exec.told /\ session.status = "collecting"
  <2>1. session.status = "collecting"
    BY <1>6, <1>7 DEF IInv, Placed
  <2> QED
    BY <1>2, <1>6, <1>7, <2>1
<1>8. Transition(seen) = "terminal" => session.status \in {"completed", "failed"}
  BY DEF Transition
<1>9. exec.told # NoProgress => w.seq >= exec.told.seq
  BY <1>1, <1>2, <1>4
<1> QED
  BY <1>2, <1>5, <1>6, <1>7, <1>8, <1>9

\* A retry leaves the command as it is, and nothing at work.
LEMMA RetryKeeps ==
    ASSUME IInv, step.pc # "idle", step' = NoStep, exec' = Retried,
           UNCHANGED <<plugin, session, state, ordinal, staged, receipt, linked, found,
                       run, fresh, flying, faults, lates, asked, published>>
    PROVE  IInv'
<1>1. step'.pc = "idle" /\ step' \in StepStates /\ step'.permitted = FALSE
  BY NothingTypes DEF NoStep
<1>2. /\ exec' \in ExecStates /\ exec'.permit = FALSE
      /\ exec'.told = exec.told /\ exec'.alive = exec.alive
  BY DEF Retried, ExecStates, IInv, TypeOK
<1>3. OthersTyped'
  BY <1>1, <1>2, TypeParts DEF IInv, OthersTyped
<1>4. Stands'
  BY <1>1 DEF Stands, Starting, Working, Publishing, At
<1>5. Permitted'
  BY <1>1, <1>2 DEF IInv, Permitted, Fetching, Starting, At
<1> QED
  BY <1>1, <1>2, <1>3, <1>4, <1>5, QuietStays

LEMMA ReadSessionKeeps == ASSUME IInv, ReadSession PROVE IInv'
<1>1. UNCHANGED <<plugin, session, state, ordinal, staged, receipt, linked, found,
                  run, fresh, flying, faults, lates, asked, published>>
  BY DEF ReadSession, rows, history
<1>2. At("session") /\ step.pc = "session" /\ step \in StepStates
      /\ step.value = exec.told /\ step.seen = NoProgress /\ exec.alive
  BY DEF ReadSession, At, IInv, TypeOK, Stands, Starting, Placed
<1> DEFINE w == Value(step.value)
           seen == Effective(step.value)
<1>3. \/ Visible /\ step' = NoStep /\ exec' = Retried
      \/ ~Visible /\ Goes("create") /\ UNCHANGED exec
      \/ /\ Visible /\ Transition(seen) # "idle" /\ UNCHANGED exec
         /\ step' = [step EXCEPT !.pc = Transition(seen), !.value = w, !.seen = seen]
  BY DEF ReadSession
<1>4. CASE step' = NoStep /\ exec' = Retried
  BY <1>1, <1>2, <1>4, RetryKeeps
<1>5. CASE ~Visible /\ Goes("create") /\ UNCHANGED exec
  <2>0. exec' = exec
    BY <1>5
  <2>1. /\ step'.pc = "create" /\ step'.value = step.value /\ step'.seen = step.seen
        /\ step'.permitted = step.permitted /\ step'.error = step.error
        /\ step' \in StepStates
    BY <1>5, GoesDoes, GoesTypes DEF IInv, PCs
  <2>2. exec.told = NoProgress /\ Known = {}
    BY <1>2, <1>5, SessionCreates
  <2>3. OthersTyped'
    BY <1>1, <2>0, <2>1, TypeParts DEF IInv, OthersTyped
  <2>4. Known' = Known
    BY <1>1 DEF Known
  <2>5. Stands'
    BY <1>1, <2>0, <1>2, <2>1, <2>2, <2>4 DEF Stands, Starting, Working, Publishing, At
  <2>6. Permitted'
    BY <1>1, <2>0, <1>2, <2>1 DEF IInv, Permitted, Fetching, Starting, At
  <2> QED
    BY <1>1, <2>0, <1>2, <2>1, <2>3, <2>5, <2>6, QuietStays DEF Starting
<1>6. CASE /\ Visible /\ Transition(seen) # "idle" /\ UNCHANGED exec
           /\ step' = [step EXCEPT !.pc = Transition(seen), !.value = w, !.seen = seen]
  <2>0. exec' = exec
    BY <1>6
  <2>1. /\ w \in Reached /\ seen \in Reached
        /\ Transition(seen) = "terminal" => session.status \in {"completed", "failed"}
        /\ Transition(seen) = "continue" =>
              /\ session.status = "collecting" /\ Known # {}
              /\ exec.told # NoProgress => w.seq >= exec.told.seq
        /\ Transition(seen) = "page" =>
              /\ exec.told # NoProgress /\ seen = exec.told /\ w = exec.told
              /\ session.status = "collecting" /\ seen.phase = "fetch"
        /\ Transition(seen) = "claim" =>
              /\ exec.told.phase = "finalize" /\ exec.told # NoProgress
              /\ session.status \in {"collecting", "finalizing"}
    BY <1>2, <1>6, SessionGoes
  <2> HIDE DEF w, seen
  <2>2. w \in Cursors /\ seen \in Cursors
    BY <2>1, CursorTypes DEF IInv
  <2>3. Transition(seen) \in {"terminal", "continue", "page", "claim"}
    BY <1>6, <2>2, TransitionIsStep
  <2>4. /\ step'.pc = Transition(seen) /\ step'.value = w /\ step'.seen = seen
        /\ step'.permitted = step.permitted /\ step'.error = step.error
        /\ step' \in StepStates
    BY <1>2, <1>6, <2>2, <2>3 DEF StepStates
  <2>5. OthersTyped'
    BY <1>1, <2>0, <2>4, TypeParts DEF IInv, OthersTyped
  <2>6. Known' = Known /\ Reached' = Reached
    BY <1>1, <2>0, ChainStands
  <2>7. Stands'
    BY <1>1, <2>0, <1>2, <2>1, <2>3, <2>4, <2>6 DEF Stands, Starting, Working, Publishing, At
  <2>8. Permitted'
    BY <1>1, <2>0, <1>2, <2>1, <2>3, <2>4 DEF IInv, Permitted, Fetching, Starting, At
  <2>9. exec.told = NoProgress => step'.pc \in {"idle", "continue"}
    <3>1. exec.told = NoProgress => session.status \in {"none", "collecting"}
      BY <1>2 DEF IInv, Placed
    <3> QED
      BY <2>1, <2>3, <2>4, <3>1
  <2> QED
    BY <1>1, <2>0, <1>2, <2>3, <2>4, <2>5, <2>7, <2>8, <2>9, QuietStays
<1> QED
  BY <1>3, <1>4, <1>5, <1>6

-----------------------------------------------------------------------------

\* The page a handler is at.
LEMMA AtItsPage ==
    ASSUME IInv, step.pc \in Working
    PROVE  /\ exec.told # NoProgress /\ exec.told \in Reached /\ exec.alive
           /\ step.seen = exec.told /\ step.value = exec.told
           /\ session.status = "collecting" /\ step.seen.phase = "fetch"
           /\ step.seen.page \in Pages /\ Known # {}
<1>1. /\ exec.told # NoProgress
      /\ step.seen = exec.told /\ step.value = exec.told
      /\ session.status = "collecting" /\ step.seen.phase = "fetch"
  BY DEF IInv, Stands
<1>2. exec.told \in Reached /\ Known # {} /\ exec.alive
  BY <1>1, Told DEF IInv, Placed, Working, Starting, At
<1>3. step.seen.page \in Known
  BY <1>1, <1>2 DEF IInv, Chained
<1> QED
  BY <1>1, <1>2, <1>3 DEF Known

LEMMA ReadPageGoes ==
    ASSUME IInv, ReadPage
    PROVE  \/ step' = NoStep
           \/ Goes("fail")
           \/ Goes("ask") /\ step.permitted
           \/ Goes("continue")
           \/ \E v \in Reached : /\ v.seq > exec.told.seq
                                 /\ step' = [step EXCEPT !.pc = "continue", !.value = v]
<1> DEFINE p == step.seen.page
<1>1. /\ exec.told \in Reached /\ step.seen = exec.told
      /\ p \in Pages /\ At("page")
      /\ receipt \in [Pages -> Cursors]
  BY AtItsPage DEF ReadPage, At, Working, IInv, TypeOK
<1>2. exec.told.seq \in Nat
  BY <1>1, ReachedTypes
<1>3. CASE Recovers(p, step.seen)
  <2>1. receipt[p].seq > exec.told.seq
    BY <1>1, <1>3 DEF Recovers
  <2>2. receipt[p] \in Reached
    BY <1>1, <1>2, <2>1, ProgressTypes DEF Reached, Receipted
  <2> QED
    BY <1>3, <2>1, <2>2 DEF ReadPage
<1>4. CASE ~Recovers(p, step.seen) /\ state[p] # "pending"
  BY <1>4 DEF ReadPage
<1>5. CASE ~Recovers(p, step.seen) /\ state[p] = "pending"
  <2>1. ~step.error => step.permitted
    BY <1>1, <1>5 DEF IInv, Permitted
  <2>2. CASE step.error
    BY <1>5, <2>2 DEF ReadPage
  <2>3. CASE ~step.error
    BY <1>5, <2>1, <2>3 DEF ReadPage
  <2> QED
    BY <2>2, <2>3
<1> QED
  BY <1>3, <1>4, <1>5

LEMMA ReadPageKeeps == ASSUME IInv, ReadPage PROVE IInv'
<1>1. UNCHANGED <<plugin, session, state, ordinal, staged, receipt, linked, found, exec,
                  run, fresh, flying, faults, lates, asked, published>>
  BY DEF ReadPage, rows, history
<1>2. /\ At("page") /\ step \in StepStates
      /\ exec.told # NoProgress /\ exec.told \in Reached /\ exec.alive
      /\ step.seen = exec.told /\ step.value = exec.told
      /\ session.status = "collecting" /\ step.seen.phase = "fetch"
      /\ Known # {} /\ exec.told.seq \in Nat
  BY AtItsPage, CursorTypes DEF ReadPage, IInv, TypeOK, At, Working
<1>3. Known' = Known /\ Reached' = Reached
  BY <1>1, ChainStands
<1>4. SUFFICES OthersTyped' /\ Stands' /\ Permitted' /\ step'.pc # "commit"
  BY <1>1, <1>2, QuietStays DEF At
<1>5. CASE step' = NoStep
  <2>1. step'.pc = "idle" /\ step' \in StepStates /\ step'.permitted = FALSE
    BY <1>5, NothingTypes DEF NoStep
  <2>2. OthersTyped'
    BY <1>1, <2>1, TypeParts DEF IInv, OthersTyped
  <2>3. Stands'
    BY <1>1, <1>5, <2>1 DEF Stands, Starting, Working, Publishing, At
  <2>4. Permitted'
    BY <1>1, <1>2, <2>1 DEF IInv, Permitted, Fetching, Starting, At
  <2> QED
    BY <2>1, <2>2, <2>3, <2>4
<1>6. ASSUME NEW pc \in {"fail", "ask", "continue"}, Goes(pc), pc = "ask" => step.permitted
      PROVE  OthersTyped' /\ Stands' /\ Permitted' /\ step'.pc # "commit"
  <2>1. /\ step'.pc = pc /\ step'.value = step.value /\ step'.seen = step.seen
        /\ step'.permitted = step.permitted /\ step'.error = step.error
        /\ step' \in StepStates
    BY <1>6, GoesDoes, GoesTypes DEF IInv, PCs
  <2>2. OthersTyped'
    BY <1>1, <2>1, TypeParts DEF IInv, OthersTyped
  <2>3. Stands'
    BY <1>1, <1>2, <1>3, <1>6, <2>1 DEF Stands, Starting, Working, Publishing, At
  <2>4. Permitted'
    BY <1>1, <1>2, <1>6, <2>1 DEF IInv, Permitted, Fetching, Starting, At
  <2> QED
    BY <1>6, <2>1, <2>2, <2>3, <2>4
<1>7. ASSUME NEW v \in Reached, v.seq > exec.told.seq,
             step' = [step EXCEPT !.pc = "continue", !.value = v]
      PROVE  OthersTyped' /\ Stands' /\ Permitted' /\ step'.pc # "commit"
  <2>1. v \in Cursors /\ v.seq \in Nat
    BY CursorTypes DEF IInv
  <2>2. /\ step'.pc = "continue" /\ step'.value = v /\ step'.seen = step.seen
        /\ step'.permitted = step.permitted /\ step'.error = step.error
        /\ step' \in StepStates
    BY <1>2, <1>7, <2>1 DEF StepStates
  <2>3. OthersTyped'
    BY <1>1, <2>2, TypeParts DEF IInv, OthersTyped
  <2>4. Stands'
    BY <1>1, <1>2, <1>3, <1>7, <2>1, <2>2 DEF Stands, Starting, Working, Publishing, At
  <2>5. Permitted'
    BY <1>1, <1>2, <2>2 DEF IInv, Permitted, Fetching, Starting, At
  <2> QED
    BY <2>2, <2>3, <2>4, <2>5
<1> QED
  BY <1>5, <1>6, <1>7, ReadPageGoes

\* A request, whatever comes of it.
LEMMA AskedOnce ==
    ASSUME IInv, At("ask"), asked' = asked + 1, UNCHANGED <<plugin, exec, state>>,
           step'.pc \in {"fail", "commit"}
    PROVE  Permitted' /\ asked' \in Nat
<1>1. asked \in Nat /\ step.permitted
  BY DEF IInv, TypeOK, Permitted
<1>2. ~plugin.relay => asked = 0 /\ ~exec.permit
  BY <1>1 DEF IInv, Permitted, At, Starting
<1> QED
  BY <1>1, <1>2 DEF IInv, Permitted, Fetching, Starting, At

\* The page has failed.
LEMMA FailsKeeps ==
    ASSUME IInv, At("ask"), asked' = asked + 1, Goes("fail"),
           UNCHANGED <<plugin, session, state, ordinal, staged, receipt, linked, found, exec,
                       run, fresh, flying, lates, published>>,
           faults' \in 0..MaxFaults
    PROVE  IInv'
<1>1. /\ step'.pc = "fail" /\ step'.value = step.value /\ step'.seen = step.seen
      /\ step' \in StepStates
  BY GoesDoes, GoesTypes DEF IInv, PCs
<1>2. Permitted' /\ asked' \in Nat
  BY <1>1, AskedOnce
<1>3. OthersTyped'
  BY <1>1, <1>2, TypeParts DEF IInv, OthersTyped
<1>4. /\ exec.told # NoProgress /\ exec.told \in Reached /\ exec.alive
      /\ step.seen = exec.told /\ step.value = exec.told
      /\ session.status = "collecting" /\ step.seen.phase = "fetch"
  BY AtItsPage DEF At, Working
<1>5. Reached' = Reached
  BY ChainStands
<1>6. Stands'
  BY <1>1, <1>4, <1>5 DEF Stands, Starting, Working, Publishing, At
<1> QED
  BY <1>1, <1>2, <1>3, <1>4, <1>6, QuietStays DEF At

LEMMA AskFailsKeeps == ASSUME IInv, AskFails PROVE IInv'
<1>1. faults' \in 0..MaxFaults
  BY FaultTypes, TypeParts DEF IInv, AskFails
<1> QED
  BY <1>1, FailsKeeps DEF AskFails, rows

\* There is a next progress to a page that has no receipt yet, and for another
\* the handler is behind.
LEMMA NextIsInRange ==
    ASSUME TypeOK, Chained, NEW u \in Reached, u.phase = "fetch", u.page \in Pages
    PROVE  u.seq + 1 \in 0..NumPages
<1>1. /\ receipt \in [Pages -> Cursors] /\ Receipted \subseteq Pages
      /\ Done \in Nat /\ Done <= NumPages /\ NumPages \in Nat /\ u.seq \in 0..Done
  BY ReachedTypes, SeqDetermines, PagesAreFinite DEF TypeOK
<1>2. CASE u.seq < Done
  BY <1>1, <1>2
<1>3. CASE u.page \notin Receipted
  <2>1. Cardinality(Receipted \cup {u.page}) = Done + 1
    BY <1>1, <1>3, ReachedTypes, FS_AddElement DEF Done
  <2>2. Cardinality(Receipted \cup {u.page}) <= NumPages
    BY <1>1, PagesAreFinite
  <2> QED
    BY <1>1, <2>1, <2>2
<1>4. CASE u.seq = Done /\ u.page \in Receipted
  <2>1. receipt[u.page].seq = Done + 1
    BY <1>4 DEF Chained
  <2>2. receipt[u.page] \in Reached
    BY <1>4 DEF Reached
  <2> QED
    BY <1>1, <2>1, <2>2, SeqDetermines
<1> QED
  BY <1>1, <1>2, <1>3, <1>4

\* The next progress is well shaped when its next page is.
LEMMA NextShaped ==
    ASSUME IInv, At("ask"), NEW next \in Pages \cup {NoPage}, NEW parsed \in {0, 1},
           NEW incomplete \in BOOLEAN, NEW g, g = NextProgress(next, parsed, incomplete)
    PROVE  /\ Shaped(g) /\ g \in Cursors
           /\ g.seq = step.seen.seq + 1 /\ g.parsed = step.seen.parsed + parsed
           /\ g.page = next /\ (step.seen.incomplete => g.incomplete)
           /\ (incomplete => g.incomplete) /\ (g.incomplete => step.seen.incomplete \/ incomplete)
           /\ g.phase = (IF next = NoPage THEN "finalize" ELSE "fetch")
<1>1. /\ step.seen \in Reached /\ step.seen.phase = "fetch" /\ step.seen.page \in Pages
      /\ receipt \in [Pages -> Cursors]
  BY AtItsPage DEF At, Working, IInv, TypeOK
<1>2. step.seen.seq + 1 \in 0..NumPages /\ NumPages \in Nat
  BY <1>1, NextIsInRange, PagesAreFinite DEF IInv
<1>3. step.seen \in Progress /\ step.seen.seq \in Nat /\ step.seen.parsed \in Nat
  BY <1>1, ReachedTypes
<1>4. step.seen.parsed <= step.seen.seq
  <2>1. CASE step.seen = FirstProgress
    BY <2>1 DEF FirstProgress
  <2>2. CASE step.seen # FirstProgress
    BY <1>1, <2>2 DEF Reached, IInv, Chained, Shaped
  <2> QED
    BY <2>1, <2>2
<1>5. step.seen.incomplete \in BOOLEAN
  BY <1>3 DEF Progress
<1>6. /\ g.seq = step.seen.seq + 1 /\ g.parsed = step.seen.parsed + parsed
      /\ g.page = next /\ g.incomplete = (step.seen.incomplete \/ incomplete)
      /\ g.phase = (IF next = NoPage THEN "finalize" ELSE "fetch")
  BY DEF NextProgress
<1>7. step.seen.parsed + parsed \in 0..NumPages /\ g.parsed <= g.seq
  BY <1>2, <1>3, <1>4, <1>6
<1>8. g \in Progress
  <2>1. (step.seen.incomplete \/ incomplete) \in BOOLEAN
    OBVIOUS
  <2> QED
    BY <1>2, <1>7, <2>1 DEF NextProgress, Progress
<1>9. Shaped(g)
  BY <1>6, <1>7, <1>8 DEF Shaped
<1> QED
  BY <1>6, <1>8, <1>9 DEF Cursors

\* What a commit says when it is built.
Sound(b) ==
    /\ b \in Batches
    /\ b.page \in Pages /\ b.kind \in {"parsed", "ignored"}
    /\ Shaped(b.progress)
    /\ b.end => b.progress.phase = "finalize"
    /\ After(step.seen, b)
    /\ Fresh(b)

LEMMA AcceptedFits ==
    ASSUME TypeOK, NEW links \in SUBSET Pages
    PROVE  /\ Accepted(links) \subseteq Pages /\ Accepted(links) \cap Known = {}
           /\ \A p \in Accepted(links) : Size + Place(p, Accepted(links)) <= plugin.limit
<1> DEFINE new == links \ Known
<1>1. Accepted(links) = {p \in new : Size + Place(p, new) <= plugin.limit}
  BY DEF Accepted
<1>2. Size \in 0..Limit /\ Limit \in Nat /\ plugin.limit \in Nat
  BY SizeBounds, LimitBounds DEF TypeOK
<1>3. ASSUME NEW p \in Accepted(links)
      PROVE  Size + Place(p, Accepted(links)) <= plugin.limit
  <2>1. /\ Accepted(links) \in SUBSET new /\ new \in SUBSET Pages
        /\ p \in new /\ Size + Place(p, new) <= plugin.limit
    BY <1>1
  <2> HIDE DEF new
  <2>2. /\ Place(p, Accepted(links)) <= Place(p, new)
        /\ Place(p, Accepted(links)) \in Nat /\ Place(p, new) \in Nat
    BY <2>1, PlaceBounds
  <2> QED
    BY <1>2, <2>1, <2>2
<1> QED
  BY <1>1, <1>3

LEMMA ParsedIsSound ==
    ASSUME IInv, At("ask"), NEW answer \in Html, NEW b, b = ParsedPage(step.seen.page, answer)
    PROVE  Sound(b)
<1> DEFINE p == step.seen.page
           accepted == Accepted(answer.links)
           waiting == IF NextPending(p) # NoPage THEN NextPending(p) ELSE Least(accepted)
           end == ~answer.items /\ HasStagedItems /\ ~plugin.onward
           incomplete == \/ ~answer.sure
                         \/ answer.links \ Known # accepted
                         \/ EndCutsShort(end, waiting)
           next == IF end THEN NoPage ELSE waiting
           g == NextProgress(next, 1, incomplete)
<1>1. /\ p \in Pages /\ step.seen = exec.told /\ step.seen.phase = "fetch" /\ TypeOK
      /\ exec.told \in Reached
  BY AtItsPage DEF At, Working, IInv
<1>2. answer.links \in SUBSET Pages /\ answer.items \in BOOLEAN /\ answer.sure \in BOOLEAN
  BY DEF Html
<1>3. /\ accepted \subseteq Pages /\ accepted \cap Known = {}
      /\ \A q \in accepted : Size + Place(q, accepted) <= plugin.limit
  BY <1>1, <1>2, AcceptedFits
<1>4. b = [page |-> p, kind |-> "parsed", items |-> answer.items, accepted |-> accepted,
           size |-> Size, end |-> end, links |-> answer.links, progress |-> g]
  BY DEF ParsedPage
<1>5. IF Waiting(p) = {} THEN NextPending(p) = NoPage ELSE NextPending(p) \in Waiting(p)
  BY <1>1, NextWaits DEF TypeOK
<1>6. IF accepted = {} THEN Least(accepted) = NoPage ELSE Least(accepted) \in accepted
  <2> HIDE DEF accepted
  <2> QED
    BY <1>3, LeastIsFirst
<1>7. Waiting(p) \subseteq Pages
  BY DEF Waiting
<1>8. IF waiting = NoPage THEN accepted \cup Waiting(p) = {}
      ELSE waiting \in accepted \cup Waiting(p)
  <2> HIDE DEF accepted
  <2> QED
    BY <1>3, <1>5, <1>6, <1>7, NoPageIsNone
<1> HIDE DEF accepted, waiting
<1>9. next \in Pages \cup {NoPage} /\ incomplete \in BOOLEAN /\ end \in BOOLEAN
  BY <1>3, <1>7, <1>8
<1>10. /\ Shaped(g) /\ g \in Cursors
       /\ g.seq = step.seen.seq + 1 /\ g.parsed = step.seen.parsed + 1
       /\ g.page = next /\ (step.seen.incomplete => g.incomplete)
       /\ (incomplete => g.incomplete)
       /\ g.phase = (IF next = NoPage THEN "finalize" ELSE "fetch")
  <2> HIDE DEF next, incomplete
  <2> QED
    BY <1>9, NextShaped
<1>11. Size \in Nat
  BY <1>1, SizeBounds, LimitBounds DEF TypeOK
<1>12. b \in Batches
  <2> HIDE DEF g, end
  <2> QED
    BY <1>1, <1>2, <1>3, <1>4, <1>9, <1>10, <1>11 DEF Batches
<1>13. /\ b.page = p /\ b.kind = "parsed" /\ b.accepted = accepted /\ b.size = Size
       /\ b.end = end /\ b.links = answer.links /\ b.progress = g
  <2> HIDE DEF g, end
  <2> QED
    BY <1>4
<1>14. After(step.seen, b)
  <2>1. step.seen.seq <= exec.told.seq
    BY <1>1, CursorTypes DEF IInv
  <2> HIDE DEF g
  <2> QED
    BY <1>1, <1>10, <1>13, <2>1 DEF After
<1>15. Fresh(b)
  <2>1. \A q \in b.accepted : OrdinalIn(b, q) <= plugin.limit
    BY <1>3, <1>13 DEF OrdinalIn
  <2>2. g.phase = "fetch" => g.page \in accepted \cup Waiting(p)
    BY <1>8, <1>10
  <2>3. g.phase = "finalize" /\ ~end => accepted \cup Waiting(p) = {}
    BY <1>8, <1>10
  <2>4. ~g.incomplete => /\ answer.links \ Known = accepted
                         /\ end => accepted \cup Waiting(p) = {}
    BY <1>8, <1>10 DEF EndCutsShort
  <2> HIDE DEF g, end
  <2> QED
    BY <1>3, <1>13, <2>1, <2>2, <2>3, <2>4 DEF Fresh
<1>16. b.end => b.progress.phase = "finalize"
  BY <1>10, <1>13
<1> HIDE DEF g
<1> QED
  BY <1>1, <1>10, <1>12, <1>13, <1>14, <1>15, <1>16 DEF Sound

LEMMA IgnoredIsSound ==
    ASSUME IInv, At("ask"), NEW b, b = IgnoredPage(step.seen.page)
    PROVE  Sound(b)
<1> DEFINE p == step.seen.page
           g == NextProgress(NextPending(p), 0, TRUE)
<1>1. /\ p \in Pages /\ step.seen = exec.told /\ step.seen.phase = "fetch" /\ TypeOK
      /\ exec.told \in Reached
  BY AtItsPage DEF At, Working, IInv
<1>2. IF Waiting(p) = {} THEN NextPending(p) = NoPage ELSE NextPending(p) \in Waiting(p)
  BY <1>1, NextWaits DEF TypeOK
<1>3. NextPending(p) \in Pages \cup {NoPage}
  BY <1>2 DEF Waiting
<1>4. /\ Shaped(g) /\ g \in Cursors
      /\ g.seq = step.seen.seq + 1 /\ g.parsed = step.seen.parsed + 0
      /\ g.page = NextPending(p) /\ (step.seen.incomplete => g.incomplete)
      /\ g.incomplete
      /\ g.phase = (IF NextPending(p) = NoPage THEN "finalize" ELSE "fetch")
  <2> DEFINE next == NextPending(p)
             none == 0
             inc == TRUE
             h == NextProgress(next, none, inc)
  <2>1. next \in Pages \cup {NoPage} /\ none \in {0, 1} /\ inc \in BOOLEAN
    BY <1>3
  <2>2. h = g /\ inc /\ none = 0 /\ next = NextPending(p)
    OBVIOUS
  <2> HIDE DEF next, none, inc
  <2>3. /\ Shaped(h) /\ h \in Cursors
        /\ h.seq = step.seen.seq + 1 /\ h.parsed = step.seen.parsed + none
        /\ h.page = next /\ (step.seen.incomplete => h.incomplete)
        /\ (inc => h.incomplete)
        /\ h.phase = (IF next = NoPage THEN "finalize" ELSE "fetch")
    BY <2>1, NextShaped
  <2> HIDE DEF g, h
  <2> QED
    BY <2>2, <2>3
<1> HIDE DEF g
<1>5. b = [NoBatch EXCEPT !.page = p, !.kind = "ignored", !.progress = g]
  BY DEF IgnoredPage, g
<1>6. b \in Batches /\ b.page = p /\ b.kind = "ignored" /\ b.accepted = {} /\ b.end = FALSE
      /\ b.progress = g
  <2>1. \A x \in Batches :
          LET y == [x EXCEPT !.page = p, !.kind = "ignored", !.progress = g]
          IN  /\ y \in Batches /\ y.page = p /\ y.kind = "ignored" /\ y.progress = g
              /\ y.accepted = x.accepted /\ y.end = x.end
    BY <1>1, <1>4 DEF Batches
  <2>2. NoBatch \in Batches /\ NoBatch.accepted = {} /\ NoBatch.end = FALSE
    BY NothingTypes DEF NoBatch
  <2> QED
    BY <1>5, <2>1, <2>2
<1>7. After(step.seen, b)
  <2>1. step.seen.seq <= exec.told.seq /\ step.seen.parsed \in Nat
    BY <1>1, CursorTypes, ReachedTypes DEF IInv, TypeOK
  <2> QED
    BY <1>1, <1>4, <1>6, <2>1 DEF After
<1>8. Fresh(b)
  BY <1>2, <1>4, <1>6, NoPageIsNone DEF Fresh, Waiting
<1> QED
  BY <1>1, <1>4, <1>6, <1>7, <1>8 DEF Sound

LEMMA AskCommits ==
    ASSUME IInv, At("ask"), asked' = asked + 1,
           UNCHANGED <<plugin, session, state, ordinal, staged, receipt, linked, found, exec,
                       run, fresh, flying, faults, lates, published>>,
           NEW b, Sound(b), step' = [step EXCEPT !.pc = "commit", !.batch = b]
    PROVE  IInv'
<1>1. /\ step'.pc = "commit" /\ step'.value = step.value /\ step'.seen = step.seen
      /\ step'.batch = b /\ step' \in StepStates
  <2>1. b \in Batches
    BY DEF Sound
  <2>2. step \in StepStates
    BY DEF IInv, TypeOK
  <2> QED
    BY <2>1, <2>2 DEF StepStates
<1>2. Permitted' /\ asked' \in Nat
  BY <1>1, AskedOnce
<1>3. RowsTyped'
  BY TypeParts, RowsStayTyped DEF IInv, RowsTyped
<1>4. TypeOK'
  <2>1. OthersTyped'
    BY <1>1, <1>2, TypeParts DEF IInv, OthersTyped
  <2> QED
    BY <1>3, <2>1, TypeParts, PTL
<1>5. /\ exec.told # NoProgress /\ exec.told \in Reached /\ exec.alive
      /\ step.seen = exec.told /\ step.value = exec.told
      /\ session.status = "collecting" /\ step.seen.phase = "fetch"
  BY AtItsPage DEF At, Working
<1>6. Reached' = Reached /\ Chained'
  BY ChainStands DEF IInv
<1>7. Stands'
  BY <1>1, <1>5, <1>6 DEF Stands, Starting, Working, Publishing, At
<1>8. Placed'
  BY <1>5, PlacedStays DEF IInv
<1>9. Carried'
  <2>1. Sent' = flying \cup {b}
    BY <1>1 DEF Sent, At
  <2>2. ASSUME NEW c, c \in flying \/ c = b
        PROVE  /\ c.page \in Pages /\ c.kind \in {"parsed", "ignored"}
               /\ Shaped(c.progress)
               /\ c.end => c.progress.phase = "finalize"
               /\ \E u \in Reached : After(u, c)
               /\ state[c.page] = "pending" => Fresh(c)
    <3>1. CASE c \in flying
      BY <3>1 DEF IInv, Carried, Sent
    <3>2. CASE c = b
      BY <1>5, <3>2 DEF Sound
    <3> QED
      BY <2>2, <3>1, <3>2
  <2>3. \A c, u : After(u, c)' <=> After(u, c)
    BY DEF After
  <2>4. \A c : Fresh(c)' <=> Fresh(c)
    BY FreshStays
  <2> QED
    BY <1>6, <2>1, <2>2, <2>3, <2>4 DEF Carried, Shaped
<1>10. Covered'
  BY CoveredStays DEF IInv
<1> QED
  BY <1>2, <1>4, <1>6, <1>7, <1>8, <1>9, <1>10 DEF IInv

LEMMA AskKeeps == ASSUME IInv, NEW answer \in Answers, Ask(answer) PROVE IInv'
<1> DEFINE p == step.seen.page
<1>1. /\ UNCHANGED <<plugin, session, state, ordinal, staged, receipt, linked, found, exec,
                     run, fresh, flying, faults, lates, published>>
      /\ At("ask") /\ asked' = asked + 1
  BY DEF Ask, rows
<1>2. CASE answer.kind = "html"
  <2>1. answer \in Html
    BY <1>2 DEF Answers, Unread
  <2>2. Sound(ParsedPage(p, answer))
    BY <1>1, <2>1, ParsedIsSound
  <2>3. step' = [step EXCEPT !.pc = "commit", !.batch = ParsedPage(p, answer)]
    BY <1>2 DEF Ask
  <2> QED
    BY <1>1, <2>2, <2>3, AskCommits
<1>3. CASE answer.kind # "html" /\ (plugin.onward \/ ~HasStagedItems)
  <2>1. Sound(IgnoredPage(p))
    BY <1>1, IgnoredIsSound
  <2>2. step' = [step EXCEPT !.pc = "commit", !.batch = IgnoredPage(p)]
    BY <1>3 DEF Ask
  <2> QED
    BY <1>1, <2>1, <2>2, AskCommits
<1>4. CASE answer.kind # "html" /\ ~(plugin.onward \/ ~HasStagedItems)
  <2>1. Goes("fail")
    BY <1>4 DEF Ask
  <2>2. faults' \in 0..MaxFaults
    BY <1>1 DEF IInv, TypeOK
  <2> QED
    BY <1>1, <2>1, <2>2, FailsKeeps
<1> QED
  BY <1>2, <1>3, <1>4

-----------------------------------------------------------------------------

\* A step of the publication that writes no row of the collection.
LEMMA PublishingKeeps ==
    ASSUME IInv, step.pc \in Publishing, NEW pc \in Publishing \cup {"complete", "lose"},
           Goes(pc), pc \in {"reserve", "publish"} => ~Finished',
           UNCHANGED <<plugin, session, state, ordinal, staged, receipt, linked, found, exec,
                       fresh, flying, lates, asked>>,
           run' \in {"none", "running", "success", "failed"}, faults' \in 0..MaxFaults,
           published' \in Nat
    PROVE  IInv'
<1>1. /\ step'.pc = pc /\ step'.value = step.value /\ step'.seen = step.seen
      /\ step' \in StepStates
  BY GoesDoes, GoesTypes DEF IInv, PCs, Publishing
<1>2. OthersTyped'
  BY <1>1, TypeParts DEF IInv, OthersTyped
<1>3. session.status = "finalizing" /\ exec.told.phase = "finalize"
      /\ step.value \in Reached /\ step.seen \in Reached
      /\ exec.told # NoProgress /\ exec.alive
  BY Told, ProgressTypes DEF IInv, Stands, Publishing, Starting, At
<1>4. Reached' = Reached
  BY ChainStands
<1>5. Stands'
  BY <1>1, <1>3, <1>4 DEF Stands, Starting, Working, Publishing, At
<1>6. Permitted'
  BY <1>1, <1>3 DEF IInv, Permitted, Fetching, Starting, At, Publishing
<1> QED
  BY <1>1, <1>2, <1>3, <1>5, <1>6, QuietStays DEF Publishing

LEMMA ReserveKeeps == ASSUME IInv, Reserve PROVE IInv'
<1>1. ~Finished /\ run \in {"none", "running", "success", "failed"}
  BY DEF Reserve, At, IInv, Stands, TypeOK
<1>2. ~Finished' /\ run' \in {"none", "running", "success", "failed"}
  BY <1>1 DEF Reserve, Finished
<1>3. faults' \in 0..MaxFaults /\ published' \in Nat
  BY DEF Reserve, history, IInv, TypeOK
<1> QED
  BY <1>2, <1>3, PublishingKeeps DEF Reserve, rows, history, Publishing, At

LEMMA PublishKeeps == ASSUME IInv, Publish PROVE IInv'
<1>1. faults' \in 0..MaxFaults /\ published' \in Nat
  BY DEF Publish, IInv, TypeOK
<1> QED
  BY <1>1, PublishingKeeps DEF Publish, rows, Publishing, At

LEMMA PublishUnrecordedKeeps == ASSUME IInv, PublishUnrecorded PROVE IInv'
<1>1. faults' \in 0..MaxFaults /\ published' \in Nat
      /\ run' \in {"none", "running", "success", "failed"}
  BY FaultTypes, TypeParts DEF PublishUnrecorded, IInv, TypeOK
<1> QED
  BY <1>1, PublishingKeeps DEF PublishUnrecorded, rows, Publishing, At

LEMMA PublishFailsKeeps == ASSUME IInv, PublishFails PROVE IInv'
<1>1. faults' \in 0..MaxFaults /\ published' \in Nat
  BY FaultTypes, TypeParts DEF PublishFails, history, IInv, TypeOK
<1> QED
  BY <1>1, PublishingKeeps DEF PublishFails, rows, history, Publishing, At

LEMMA ClaimGoesStaleKeeps == ASSUME IInv, ClaimGoesStale PROVE IInv'
<1>1. UNCHANGED <<plugin, session, state, ordinal, staged, receipt, linked, found, exec,
                  step, run, flying, faults, lates, asked, published>> /\ fresh' = FALSE
  BY DEF ClaimGoesStale, rows, history
<1>2. OthersTyped'
  BY <1>1, TypeParts DEF IInv, OthersTyped
<1>3. Reached' = Reached /\ Known' = Known
  BY <1>1, ChainStands
<1>4. Stands'
  BY <1>1, <1>3 DEF IInv, Stands, Starting, Working, Publishing, At, Finished
<1>5. Permitted'
  BY <1>1 DEF IInv, Permitted, Fetching, Starting, At
<1>6. Placed' /\ Sent' \subseteq Sent /\ Onward
  <2>1. Sent' = Sent
    BY <1>1 DEF Sent, At
  <2>2. Onward
    BY <1>1, CursorTypes DEF IInv, Onward
  <2>3. Placed'
    BY <1>1, PlacedStays DEF IInv, Placed, At
  <2> QED
    BY <2>1, <2>2, <2>3
<1> QED
  BY <1>1, <1>2, <1>4, <1>5, <1>6, Quiet

\* The handler is gone.
LEMMA Gone ==
    ASSUME step' = NoStep
    PROVE  /\ step'.pc = "idle" /\ step'.permitted = FALSE /\ step' \in StepStates /\ Stands'
<1>1. step'.pc = "idle" /\ step'.permitted = FALSE /\ step' \in StepStates
  BY NothingTypes DEF NoStep
<1>2. Stands'
  BY <1>1 DEF Stands, Starting, Working, Publishing, At
<1> QED
  BY <1>1, <1>2

LEMMA CrashKeeps == ASSUME IInv, Crash PROVE IInv'
<1>1. UNCHANGED <<plugin, session, state, ordinal, staged, receipt, linked, found, exec,
                  run, fresh, asked, published>> /\ step' = NoStep /\ ~At("idle")
  BY DEF Crash, rows, history
<1>2. step'.pc = "idle" /\ step'.permitted = FALSE /\ step' \in StepStates /\ Stands'
  BY <1>1, Gone
<1>3. \/ flying' = flying /\ lates' = lates
      \/ At("commit") /\ lates' \in 0..MaxLate /\ flying' = flying \cup {step.batch}
  <2>1. MaxLate \in Nat /\ lates \in 0..MaxLate
    BY BoundAssumption DEF IInv, TypeOK
  <2> QED
    BY <2>1 DEF Crash
<1>4. OthersTyped'
  <2>1. flying' \subseteq Batches /\ lates' \in 0..MaxLate
    BY <1>3, FieldTypes DEF IInv, TypeOK
  <2>2. faults' \in 0..MaxFaults
    BY FaultTypes, TypeParts DEF IInv, Crash
  <2> QED
    BY <1>1, <1>2, <2>1, <2>2, TypeParts DEF IInv, OthersTyped
<1>5. Permitted'
  BY <1>1, <1>2 DEF IInv, Permitted, Fetching, Starting, At
<1>6. exec.told = NoProgress /\ exec.alive => flying' = {}
  BY <1>3, Told DEF IInv, Placed, At, Starting
<1>7. Placed'
  BY <1>1, <1>2, <1>6, PlacedStays DEF IInv
<1>8. Sent' \subseteq Sent
  BY <1>2, <1>3 DEF Sent, At
<1>9. Onward
  BY <1>1, CursorTypes DEF IInv, Onward
<1> QED
  BY <1>1, <1>2, <1>4, <1>5, <1>7, <1>8, <1>9, Quiet

-----------------------------------------------------------------------------
(* The execution writes.                                                   *)

LEMMA PutKeeps == ASSUME IInv, Put PROVE IInv'
<1>1. /\ UNCHANGED <<plugin, session, state, ordinal, staged, receipt, linked, found,
                     run, fresh, flying, faults, lates, asked, published>>
      /\ step' = NoStep /\ At("put")
      /\ exec' = [alive |-> TRUE, told |-> step.seen, permit |-> FALSE, attempted |-> FALSE]
  BY DEF Put, rows, history
<1>2. step'.pc = "idle" /\ step'.permitted = FALSE /\ step' \in StepStates /\ Stands'
  BY <1>1, Gone
<1>3. /\ step.seen \in Reached /\ session.status = "collecting" /\ Known # {}
      /\ exec.told # NoProgress => step.seen.seq >= exec.told.seq
      /\ step.seen.phase = "finalize" => session.progress = step.seen
      /\ exec.alive
  BY <1>1 DEF IInv, Stands, At, Starting, Placed
<1>4. step.seen \in Cursors /\ step.seen \in Progress /\ step.seen # NoProgress
      /\ step.seen.seq \in Nat
  BY <1>3, CursorTypes, ProgressTypes DEF IInv
<1>5. /\ exec'.alive /\ exec'.told = step.seen /\ ~exec'.permit /\ exec' \in ExecStates
  BY <1>1, <1>4 DEF ExecStates
<1>6. OthersTyped'
  BY <1>1, <1>2, <1>5, TypeParts DEF IInv, OthersTyped
<1>7. Permitted'
  BY <1>1, <1>2, <1>5 DEF IInv, Permitted, Fetching, Starting, At
<1>8. /\ Receipted' = Receipted /\ Done' = Done /\ Reached' = Reached /\ Known' = Known
  BY <1>1, ChainStands
<1>9. Done <= step.seen.seq + 1
  <2>1. receipt \in [Pages -> Cursors] /\ Done \in Nat
    BY ReachedTypes DEF IInv, TypeOK
  <2>2. CASE exec.told = NoProgress
    <3>1. Receipted = {}
      BY <1>3, <2>2 DEF IInv, Placed
    <3> QED
      BY <1>4, <3>1, FS_EmptySet DEF Done
  <2>3. CASE exec.told # NoProgress
    <3>1. Done <= exec.told.seq + 1 /\ exec.told.seq \in Nat
      BY <2>3, CursorTypes DEF IInv, Placed
    <3> QED
      BY <1>3, <1>4, <2>1, <2>3, <3>1
  <2> QED
    BY <2>2, <2>3
<1>10. Placed'
  BY <1>1, <1>2, <1>3, <1>4, <1>5, <1>8, <1>9 DEF IInv, Placed, At
<1>11. Sent' \subseteq Sent
  BY <1>1, <1>2 DEF Sent, At
<1>12. Onward
  BY <1>3, <1>4, <1>5, CursorTypes DEF IInv, Onward
<1> QED
  BY <1>1, <1>2, <1>6, <1>7, <1>10, <1>11, <1>12, Quiet

LEMMA TerminalKeeps == ASSUME IInv, Terminal PROVE IInv'
<1>1. /\ UNCHANGED <<plugin, session, state, ordinal, staged, receipt, linked, found,
                     run, fresh, flying, faults, lates, asked, published>>
      /\ step' = NoStep /\ At("terminal")
      /\ exec' = [alive |-> FALSE, told |-> NoProgress, permit |-> FALSE, attempted |-> FALSE]
  BY DEF Terminal, rows, history
<1>2. step'.pc = "idle" /\ step'.permitted = FALSE /\ step' \in StepStates /\ Stands'
  BY <1>1, Gone
<1>3. session.status \in {"completed", "failed"}
  BY <1>1 DEF IInv, Stands
<1>4. /\ ~exec'.alive /\ exec'.told = NoProgress /\ ~exec'.permit /\ exec' \in ExecStates
  BY <1>1, NothingTypes DEF ExecStates
<1>5. OthersTyped'
  BY <1>1, <1>2, <1>4, TypeParts DEF IInv, OthersTyped
<1>6. Permitted'
  BY <1>1, <1>2, <1>4, ProgressTypes DEF IInv, Permitted, Fetching, Starting, At
<1>7. /\ Receipted' = Receipted /\ Done' = Done /\ Reached' = Reached /\ Known' = Known
  BY <1>1, ChainStands
<1>8. Placed'
  BY <1>1, <1>2, <1>3, <1>4, <1>7 DEF IInv, Placed, At
<1>9. Sent' \subseteq Sent
  BY <1>1, <1>2 DEF Sent, At
<1>10. Onward
  BY <1>4 DEF Onward
<1> QED
  BY <1>1, <1>2, <1>5, <1>6, <1>8, <1>9, <1>10, Quiet

-----------------------------------------------------------------------------
(* The writes of the session.                                              *)

LEMMA SessionWrites ==
    ASSUME IInv, UNCHANGED <<plugin, state, ordinal, receipt, linked, found, exec, flying,
                             faults, lates, asked, run, published>>,
           session' \in SessionStates, staged' \subseteq Pages, fresh' \in BOOLEAN,
           \/ UNCHANGED staged /\ Open
           \/ session'.status \in {"completed", "failed"},
           step' \in StepStates, Placed', Stands',
           step.pc # "idle", step'.pc \notin {"page", "ask", "commit"},
           step'.pc \in Starting =>
               /\ step.pc \in Starting /\ step'.permitted = step.permitted
               /\ step'.error = step.error
    PROVE  IInv'
<1>1. RowsTyped'
  BY TypeParts, RowsStayTyped DEF IInv
<1>2. OthersTyped'
  BY TypeParts DEF IInv, OthersTyped
<1>3. TypeOK'
  BY <1>1, <1>2, TypeParts, PTL
<1>4. Chained'
  BY ChainStands DEF IInv
<1>5. Sent' \subseteq Sent
  BY DEF Sent, At
<1>6. Carried'
  <2>1. exec.told.seq \in Int
    BY CursorTypes DEF IInv
  <2> QED
    BY <1>5, <2>1, CarriedStays DEF IInv, Onward
<1>7. Covered'
  BY CoveredStays DEF IInv
<1>8. Permitted'
  BY DEF IInv, Permitted, Fetching, Starting, At
<1> QED
  BY <1>3, <1>4, <1>6, <1>7, <1>8 DEF IInv

LEMMA CreateSessionKeeps == ASSUME IInv, CreateSession PROVE IInv'
<1>1. /\ UNCHANGED <<plugin, state, ordinal, staged, receipt, run, fresh, exec, flying,
                     faults, lates, linked, found, asked, published>>
      /\ At("create") /\ Goes("frontier")
      /\ session' = IF session.status # "none" THEN session
                    ELSE [status |-> "collecting", progress |-> FirstProgress]
  BY DEF CreateSession, history
<1>2. /\ step'.pc = "frontier" /\ step'.value = step.value /\ step'.seen = step.seen
      /\ step'.permitted = step.permitted /\ step'.error = step.error
      /\ step' \in StepStates
  BY <1>1, GoesDoes, GoesTypes DEF IInv, PCs
<1>3. /\ exec.told = NoProgress /\ Known = {} /\ exec.alive
      /\ step.value = exec.told /\ step.seen = NoProgress
      /\ Receipted = {} /\ flying = {} /\ session.status \in {"none", "collecting"}
  BY <1>1 DEF IInv, Stands, Starting, Placed, At
<1>4. /\ Receipted' = Receipted /\ Done' = Done /\ Reached' = Reached /\ Known' = Known
  BY <1>1, ChainStands
<1>5. session.status = "collecting" => session.progress \in Reached
  BY DEF IInv, Placed
<1>6. /\ session' \in SessionStates /\ session'.status = "collecting"
      /\ session'.progress \in Reached
  <2>1. session \in SessionStates /\ FirstProgress \in Cursors /\ FirstProgress \in Reached
    BY NothingTypes DEF IInv, TypeOK, Reached
  <2> QED
    BY <1>1, <1>3, <1>5, <2>1 DEF SessionStates
<1>7. Placed'
  BY <1>1, <1>2, <1>3, <1>4, <1>6 DEF Placed, At, Starting
<1>8. Stands'
  BY <1>1, <1>2, <1>3, <1>4, <1>6 DEF Stands, Starting, Working, Publishing, At
<1>9. staged' \subseteq Pages /\ fresh' \in BOOLEAN /\ Open
  BY <1>1, <1>3 DEF IInv, TypeOK, Open
<1>10. step.pc = "create"
  BY <1>1 DEF At
<1> QED
  BY <1>1, <1>2, <1>6, <1>7, <1>8, <1>9, <1>10, SessionWrites DEF Starting

\* A checkpoint moves the session's progress along the chain.
LEMMA CheckpointDoes ==
    ASSUME IInv, session.status = "collecting", NEW v \in Reached
    PROVE  /\ Checkpointed(v) \in SessionStates /\ Checkpointed(v).status = "collecting"
           /\ Checkpointed(v).progress \in Reached
           /\ session.progress.seq <= v.seq => Checkpointed(v).progress = v
           /\ exec.told # NoProgress /\ exec.told.phase = "finalize" =>
                  Checkpointed(v).progress = exec.told
<1>1. /\ session.progress \in Reached /\ session.progress.seq \in Nat
      /\ v \in Cursors /\ v.seq \in Nat /\ session \in SessionStates
  BY CursorTypes DEF IInv, TypeOK
<1>2. receipt \in [Pages -> Cursors] /\ Chained
  BY DEF IInv, TypeOK
<1>3. CASE session.progress.seq < v.seq
  <2>1. Checkpointed(v) = [session EXCEPT !.progress = v]
    BY <1>3 DEF Checkpointed
  <2>2. /\ Checkpointed(v) \in SessionStates /\ Checkpointed(v).status = "collecting"
        /\ Checkpointed(v).progress = v
    BY <1>1, <2>1 DEF SessionStates
  <2>3. ~(exec.told # NoProgress /\ exec.told.phase = "finalize")
    <3>1. SUFFICES ASSUME exec.told # NoProgress, exec.told.phase = "finalize"
                   PROVE  FALSE
      OBVIOUS
    <3>2. exec.told \in Reached /\ session.progress = exec.told
      BY <3>1 DEF IInv, Placed
    <3>3. session.progress.seq = Done
      BY <1>2, <3>1, <3>2, FinalIsLast
    <3>4. v.seq \in 0..Done
      BY <1>2, SeqDetermines
    <3> QED
      BY <1>1, <1>3, <3>3, <3>4
  <2> QED
    BY <2>2, <2>3
<1>4. CASE ~(session.progress.seq < v.seq)
  <2>1. Checkpointed(v) = session
    BY <1>4 DEF Checkpointed
  <2>2. session.progress.seq <= v.seq => session.progress = v
    BY <1>1, <1>2, <1>4, SeqDetermines
  <2>3. exec.told # NoProgress /\ exec.told.phase = "finalize" => session.progress = exec.told
    BY DEF IInv, Placed
  <2> QED
    BY <1>1, <2>1, <2>2, <2>3
<1> QED
  BY <1>3, <1>4

LEMMA ContinueKeeps == ASSUME IInv, Continue PROVE IInv'
<1> DEFINE seen == Effective(step.value)
           w == Value(step.value)
<1>1. /\ UNCHANGED <<plugin, state, ordinal, staged, receipt, run, fresh, exec, flying,
                     faults, lates, linked, found, asked, published>>
      /\ At("continue")
      /\ session' = IF seen.phase = "finalize" THEN Checkpointed(seen) ELSE session
      /\ step' = [step EXCEPT !.pc = "put", !.value = w, !.seen = seen]
  BY DEF Continue, history
<1>2. /\ step.value \in Reached /\ session.status = "collecting" /\ Known # {} /\ exec.alive
      /\ exec.told # NoProgress => step.value.seq >= exec.told.seq
  BY <1>1 DEF IInv, Stands, Starting, Placed, At
<1>3. /\ w \in Reached /\ seen = w /\ step.value.seq <= w.seq
      /\ session.progress.seq <= seen.seq
  <2>1. /\ Value(step.value) \in Reached /\ Effective(step.value) = Value(step.value)
        /\ step.value.seq <= Value(step.value).seq
    BY <1>2, ValueReaches
  <2>2. session.progress.seq <= Value(step.value).seq
    <3>1. session.progress.seq \in Int /\ step.value.seq \in Nat
      BY <1>2, CursorTypes DEF IInv
    <3> QED
      BY <3>1 DEF Value
  <2> QED
    BY <2>1, <2>2
<1> HIDE DEF seen, w
<1>4. w \in Cursors /\ seen \in Cursors /\ w.seq \in Nat /\ step.value.seq \in Nat
      /\ exec.told.seq \in Int
  BY <1>2, <1>3, CursorTypes DEF IInv
<1>5. /\ step'.pc = "put" /\ step'.value = w /\ step'.seen = seen
      /\ step'.permitted = step.permitted /\ step'.error = step.error
      /\ step' \in StepStates
  BY <1>1, <1>4 DEF IInv, TypeOK, StepStates
<1>6. /\ Receipted' = Receipted /\ Done' = Done /\ Reached' = Reached /\ Known' = Known
  BY <1>1, ChainStands
<1>7. /\ session' \in SessionStates /\ session'.status = "collecting"
      /\ session'.progress \in Reached
      /\ seen.phase = "finalize" => session'.progress = seen
      /\ exec.told # NoProgress /\ exec.told.phase = "finalize" =>
             session'.progress = exec.told
  <2>1. CASE seen.phase = "finalize"
    BY <1>1, <1>2, <1>3, <2>1, CheckpointDoes
  <2>2. CASE seen.phase # "finalize"
    <3>1. session \in SessionStates /\ session.progress \in Reached
      BY <1>2 DEF IInv, TypeOK, Placed
    <3> QED
      BY <1>1, <1>2, <2>2, <3>1 DEF IInv, Placed
  <2> QED
    BY <2>1, <2>2
<1>8. Placed'
  <2>1. exec.told = NoProgress =>
          Receipted = {} /\ flying = {}
    BY <1>2 DEF IInv, Placed
  <2> QED
    BY <1>1, <1>2, <1>5, <1>6, <1>7, <2>1 DEF IInv, Placed, At
<1>9. Stands'
  BY <1>1, <1>2, <1>3, <1>4, <1>5, <1>6, <1>7 DEF Stands, Starting, Working, Publishing, At
<1>10. staged' \subseteq Pages /\ fresh' \in BOOLEAN /\ Open
  BY <1>1, <1>2 DEF IInv, TypeOK, Open
<1>11. step.pc = "continue"
  BY <1>1 DEF At
<1> QED
  BY <1>1, <1>5, <1>7, <1>8, <1>9, <1>10, <1>11, SessionWrites DEF Starting

LEMMA FailCheckpointKeeps == ASSUME IInv, FailCheckpoint PROVE IInv'
<1>1. /\ UNCHANGED <<plugin, state, ordinal, staged, receipt, run, fresh, exec, flying,
                     faults, lates, linked, found, asked, published>>
      /\ At("fail") /\ Goes("failed")
      /\ session' = Checkpointed(step.value)
  BY DEF FailCheckpoint, history
<1>2. /\ step'.pc = "failed" /\ step'.value = step.value /\ step'.seen = step.seen
      /\ step' \in StepStates
  BY <1>1, GoesDoes, GoesTypes DEF IInv, PCs
<1>3. /\ exec.told # NoProgress /\ exec.told \in Reached /\ exec.alive
      /\ step.seen = exec.told /\ step.value = exec.told
      /\ session.status = "collecting" /\ step.seen.phase = "fetch"
  BY <1>1, AtItsPage DEF At, Working
<1>4. /\ session' \in SessionStates /\ session'.status = "collecting"
      /\ session'.progress \in Reached
  BY <1>1, <1>3, CheckpointDoes
<1>5. /\ Receipted' = Receipted /\ Done' = Done /\ Reached' = Reached /\ Known' = Known
  BY <1>1, ChainStands
<1>6. Placed'
  BY <1>1, <1>2, <1>3, <1>4, <1>5 DEF IInv, Placed, At
<1>7. Stands'
  BY <1>1, <1>2, <1>3, <1>4, <1>5 DEF Stands, Starting, Working, Publishing, At
<1>8. staged' \subseteq Pages /\ fresh' \in BOOLEAN /\ Open /\ step.pc = "fail"
  BY <1>1, <1>3 DEF IInv, TypeOK, Open, At
<1> QED
  BY <1>1, <1>2, <1>4, <1>6, <1>7, <1>8, SessionWrites DEF Starting

\* The session ends: it, and the staged products, go.
LEMMA EndsKeeps ==
    ASSUME IInv, NEW status \in {"completed", "failed"}, Ended(status), Goes("terminal"),
           UNCHANGED <<plugin, state, ordinal, receipt, run, fresh, exec, flying, faults,
                       lates, linked, found, asked, published>>,
           step.pc \in {"failed", "claim"} \cup Publishing
    PROVE  IInv'
<1>1. /\ step'.pc = "terminal" /\ step'.value = step.value /\ step'.seen = step.seen
      /\ step' \in StepStates
  BY GoesDoes, GoesTypes DEF IInv, PCs
<1>2. /\ exec.told # NoProgress /\ exec.alive
      /\ session.status \in {"collecting", "finalizing"}
      /\ step.value \in Reached /\ step.seen \in Reached
  BY Told DEF IInv, Stands, Starting, Working, Publishing, At
<1>3. /\ session' \in SessionStates /\ session'.status = status
      /\ session'.progress = session.progress
  BY DEF Ended, IInv, TypeOK, SessionStates
<1>4. /\ Receipted' = Receipted /\ Done' = Done /\ Reached' = Reached /\ Known' = Known
  BY ChainStands
<1>5. Placed'
  BY <1>1, <1>2, <1>3, <1>4 DEF IInv, Placed, At
<1>6. Stands'
  BY <1>1, <1>2, <1>3, <1>4 DEF Stands, Starting, Working, Publishing, At
<1>7. staged' \subseteq Pages /\ fresh' \in BOOLEAN /\ step.pc # "idle"
  BY DEF Ended, IInv, TypeOK, Publishing
<1> QED
  BY <1>1, <1>3, <1>5, <1>6, <1>7, SessionWrites DEF Starting

LEMMA FailSessionKeeps == ASSUME IInv, FailSession PROVE IInv'
  BY EndsKeeps DEF FailSession, history, At

LEMMA RecordKeeps == ASSUME IInv, Record PROVE IInv'
  BY EndsKeeps DEF Record, history, At, Publishing

LEMMA ClaimKeeps == ASSUME IInv, Claim PROVE IInv'
<1>1. /\ UNCHANGED <<plugin, state, ordinal, receipt, run, flying,
                     faults, lates, linked, found, asked, published>>
      /\ At("claim") /\ step.pc = "claim"
  BY DEF Claim, history, At
<1>2. /\ exec.told # NoProgress /\ exec.alive /\ exec.told.phase = "finalize"
      /\ session.status \in {"collecting", "finalizing"}
      /\ step.value \in Reached /\ step.seen \in Reached
  BY <1>1, Told DEF IInv, Stands, Starting, At
<1>3. CASE Finished
  <2>1. PICK status \in {"completed", "failed"} : Ended(status)
    BY <1>3 DEF Claim
  <2>2. Goes("terminal") /\ UNCHANGED <<fresh, exec>>
    BY <1>3 DEF Claim
  <2> QED
    BY <1>1, <2>1, <2>2, EndsKeeps
<1>4. CASE /\ ~Finished /\ UNCHANGED <<session, staged, fresh>>
           /\ step' = NoStep /\ exec' = Retried
  BY <1>1, <1>4, RetryKeeps
<1>5. CASE /\ ~Finished /\ session' = [session EXCEPT !.status = "finalizing"]
           /\ fresh' = TRUE /\ Goes("reserve") /\ UNCHANGED <<staged, exec>>
  <2>0. exec' = exec
    BY <1>5
  <2>1. /\ step'.pc = "reserve" /\ step'.value = step.value /\ step'.seen = step.seen
        /\ step' \in StepStates
    BY <1>5, GoesDoes, GoesTypes DEF IInv, PCs
  <2>2. /\ session' \in SessionStates /\ session'.status = "finalizing"
        /\ session'.progress = session.progress
    BY <1>5 DEF IInv, TypeOK, SessionStates
  <2>3. /\ Receipted' = Receipted /\ Done' = Done /\ Reached' = Reached /\ Known' = Known
    BY <1>1, <2>0, ChainStands
  <2>4. Placed'
    BY <1>1, <2>0, <1>2, <2>1, <2>2, <2>3 DEF IInv, Placed, At
  <2>5. ~Finished'
    BY <1>1, <2>0, <1>5 DEF Finished
  <2>6. Stands'
    BY <1>1, <2>0, <1>2, <2>1, <2>2, <2>3, <2>5 DEF Stands, Starting, Working, Publishing, At
  <2>7. staged' \subseteq Pages /\ fresh' \in BOOLEAN /\ Open
    BY <1>2, <1>5 DEF IInv, TypeOK, Open
  <2> QED
    BY <1>1, <2>0, <1>5, <2>1, <2>2, <2>4, <2>6, <2>7, SessionWrites DEF Starting
<1> QED
  BY <1>3, <1>4, <1>5 DEF Claim

-----------------------------------------------------------------------------
(* The frontier, and the commits of pages.                                 *)

LEMMA CreateFrontierKeeps == ASSUME IInv, CreateFrontier PROVE IInv'
<1>1. /\ UNCHANGED <<plugin, session, staged, receipt, run, fresh, exec, flying,
                     faults, lates, linked, found, asked, published>>
      /\ At("frontier") /\ Goes("session") /\ step.pc = "frontier"
  BY DEF CreateFrontier, history, At
<1>2. /\ step'.pc = "session" /\ step'.value = step.value /\ step'.seen = step.seen
      /\ step'.permitted = step.permitted /\ step'.error = step.error
      /\ step' \in StepStates
  BY <1>1, GoesDoes, GoesTypes DEF IInv, PCs
<1>3. /\ exec.told = NoProgress /\ Known = {} /\ exec.alive
      /\ step.value = exec.told /\ step.seen = NoProgress
      /\ Receipted = {} /\ flying = {} /\ session.status = "collecting"
      /\ session.progress \in Reached
  BY <1>1 DEF IInv, Stands, Starting, Placed, At
<1>4. /\ \A p \in Pages : state'[p] = IF p \in 1..Initial THEN "pending" ELSE "absent"
      /\ \A p \in Pages : ordinal'[p] = IF p \in 1..Initial THEN p ELSE 0
      /\ state' \in [Pages -> PageStates]
      /\ ordinal' \in [Pages -> 0..Limit]
  <2>1. \A p \in Pages : state[p] = "absent" /\ ordinal[p] = 0
    BY <1>3 DEF Known, IInv, TypeOK
  <2>2. 1..Initial \in SUBSET Pages /\ 1..Initial \in SUBSET (0..Limit) /\ 0 \in 0..Limit
    <3>1. Initial \in 1..NumPages /\ NumPages \in Nat
      BY PagesAssumption
    <3>2. Limit \in Nat /\ Initial <= Limit
      BY LimitBounds DEF IInv, TypeOK
    <3> QED
      BY <3>1, <3>2 DEF Pages
  <2>3. /\ state' = [p \in Pages |-> IF p \in 1..Initial /\ state[p] = "absent" THEN "pending"
                                     ELSE state[p]]
        /\ ordinal' = [p \in Pages |-> IF p \in 1..Initial /\ state[p] = "absent" THEN p
                                       ELSE ordinal[p]]
    BY DEF CreateFrontier
  <2> QED
    BY <2>1, <2>2, <2>3 DEF PageStates
<1>5. Limit' = Limit
  BY <1>1 DEF Limit
<1>6. RowsTyped'
  <2>1. \A p \in Pages : ordinal'[p] = 0 <=> state'[p] = "absent"
    BY <1>4
  <2> QED
    BY <1>1, <1>4, <1>5, <2>1 DEF IInv, TypeOK, RowsTyped, PageStates
<1>7. TypeOK'
  <2>1. OthersTyped'
    BY <1>1, <1>2, TypeParts DEF IInv, OthersTyped
  <2> QED
    BY <1>6, <2>1, TypeParts, PTL
<1>8. Known' = 1..Initial /\ 1 \in Known'
  <2>1. 1..Initial \subseteq Pages /\ 1 \in 1..Initial
    BY PagesAssumption DEF Pages
  <2> QED
    BY <1>4, <2>1 DEF Known
<1>9. /\ Receipted' = Receipted /\ Done' = Done /\ Reached' = Reached
      /\ Chained'
  <2>1. \A p \in Pages : Moved(p)
    BY <1>3, <1>4 DEF Moved, Known
  <2> QED
    BY <1>1, <1>3, <1>8, <2>1, ChainKept DEF IInv, TypeOK
<1>10. Placed'
  BY <1>1, <1>2, <1>3, <1>8, <1>9 DEF IInv, Placed, At, Starting
<1>11. Stands'
  BY <1>1, <1>2, <1>3 DEF Stands, Starting, Working, Publishing, At
<1>12. Carried'
  BY <1>1, <1>2, <1>3 DEF Carried, Sent, At
<1>13. Covered'
  <2>1. \A p \in Pages : state'[p] # "ignored"
    BY <1>4
  <2>2. \A u \in Reached : u.phase = "fetch"
    BY <1>3, ProgressTypes DEF Reached
  <2>3. linked' \subseteq Known'
    BY <1>1, <1>3, <1>8 DEF IInv, Covered
  <2>4. staged' = found'
    BY <1>1, <1>3 DEF IInv, Covered
  <2> QED
    BY <1>8, <1>9, <2>1, <2>2, <2>3, <2>4 DEF Covered
<1>14. Permitted'
  BY <1>1, <1>2, <1>3, ProgressTypes DEF IInv, Permitted, Fetching, Starting, At
<1> QED
  BY <1>7, <1>9, <1>10, <1>11, <1>12, <1>13, <1>14 DEF IInv

\* What a commit does to the rows, as the rest of the system sees it.
Landing(b) ==
    /\ UNCHANGED <<plugin, session>>
    /\ RowsTyped' /\ Chained' /\ Covered'
    /\ Receipted \subseteq Receipted' /\ Reached \subseteq Reached' /\ Known \subseteq Known'
    /\ Known # {}
    /\ \A c \in Sent : state'[c.page] = "pending" => Fresh(c)'
    /\ \A p \in Known : state[p] # "pending" => state'[p] # "pending"

\* What is known of a commit on its way.
LEMMA SentIsKnown ==
    ASSUME IInv, NEW b \in Sent
    PROVE  /\ b \in Batches /\ b.page \in Pages /\ b.kind \in {"parsed", "ignored"}
           /\ Shaped(b.progress) /\ (b.end => b.progress.phase = "finalize")
           /\ b.page \in Known /\ Known # {}
           /\ exec.alive => exec.told # NoProgress
<1>1. b \in Batches
  BY FieldTypes DEF Sent, IInv, TypeOK
<1>2. /\ b.page \in Pages /\ b.kind \in {"parsed", "ignored"}
      /\ Shaped(b.progress) /\ (b.end => b.progress.phase = "finalize")
  BY DEF IInv, Carried
<1>3. PICK u \in Reached : After(u, b)
  BY DEF IInv, Carried
<1>4. exec.alive => exec.told # NoProgress
  BY Told DEF IInv, Placed, Sent, At, Starting
<1>5. Known # {}
  <2>1. CASE exec.alive
    BY <1>4, <2>1 DEF IInv, Placed
  <2>2. CASE ~exec.alive
    <3>1. u.seq + 1 = b.progress.seq
      BY <1>3 DEF After
    <3> QED
      BY <2>2 DEF IInv, Placed
  <2> QED
    BY <2>1, <2>2
<1>6. b.page \in Known
  BY <1>3, <1>5 DEF IInv, Chained, After
<1> QED
  BY <1>1, <1>2, <1>4, <1>5, <1>6

\* A landing commit is the only one that can.
LEMMA OthersMiss ==
    ASSUME IInv, NEW b \in Sent, Lands(b), NEW c \in Sent, state[c.page] = "pending"
    PROVE  c.page = b.page
<1>1. receipt \in [Pages -> Cursors] /\ Chained
  BY DEF IInv, TypeOK
<1>2. PICK u \in Reached : After(u, b)
  BY DEF IInv, Carried
<1>3. PICK v \in Reached : After(v, c)
  BY DEF IInv, Carried
<1>4. u.seq = Done /\ v.seq = Done
  <2>1. state[b.page] = "pending"
    BY DEF Lands
  <2> QED
    BY <1>1, <1>2, <1>3, <2>1, WaitingIsLast DEF After
<1>5. u = v
  BY <1>1, <1>4, SeqDetermines
<1> QED
  BY <1>2, <1>3, <1>5 DEF After

\* It leaves no commit behind that could.
LEMMA NoneCanLand ==
    ASSUME IInv, NEW b \in Sent, Lands(b), Apply(b), NEW c \in Sent
    PROVE  state'[c.page] # "pending"
<1>1. /\ b \in Batches /\ b.page \in Pages /\ b.kind \in {"parsed", "ignored"}
      /\ c.page \in Pages /\ c.page \in Known
  BY SentIsKnown DEF Known
<1>2. state' \in [Pages -> PageStates] /\ \A p \in Pages : state'[p] = Recorded(b, p)
  BY <1>1, Landed DEF IInv, TypeOK, PageStates
<1>3. CASE c.page = b.page
  BY <1>1, <1>2, <1>3 DEF Recorded
<1>4. CASE c.page # b.page
  <2>1. state[c.page] # "pending" /\ state[c.page] # "absent"
    BY <1>1, <1>4, OthersMiss DEF Known
  <2>2. c.page \notin Added(b)
    BY <2>1 DEF Added
  <2> QED
    BY <1>1, <1>2, <1>4, <2>1, <2>2 DEF Recorded
<1> QED
  BY <1>3, <1>4

LEMMA LandingCovers ==
    ASSUME IInv, NEW b \in Sent, Lands(b), Apply(b), Grows(b), Chained', Known' # {},
           receipt' \in [Pages -> Cursors],
           NEW u \in Reached, After(u, b)
    PROVE  Covered'
<1>1. /\ b \in Batches /\ b.page \in Pages /\ b.kind \in {"parsed", "ignored"}
      /\ Shaped(b.progress) /\ (b.end => b.progress.phase = "finalize")
      /\ state[b.page] = "pending"
      /\ Fresh(b) /\ Known # {}
  BY SentIsKnown DEF Lands, IInv, Carried
<1>2. /\ UNCHANGED <<plugin, session>> /\ session.status = "collecting"
      /\ \A p \in Pages : state'[p] = Recorded(b, p)
      /\ staged' = IF b.items THEN staged \cup {b.page} ELSE staged
      /\ found' = IF b.items THEN found \cup {b.page} ELSE found
      /\ linked' = linked \cup b.links
  BY <1>1, Landed DEF IInv, TypeOK, PageStates
<1>3. Added(b) = b.accepted /\ b.accepted \subseteq Pages
  BY <1>1, AddedAll DEF IInv, Batches
<1>4. /\ u.seq = Done /\ b.progress.seq = Done + 1 /\ Done \in Nat
      /\ u.phase = "fetch" /\ state[u.page] = "pending"
      /\ u.incomplete => b.progress.incomplete
  BY <1>1, LandsLast, ReachedTypes DEF After, IInv, TypeOK
<1>5. staged' = found'
  BY <1>2 DEF IInv, Covered
<1>6. ASSUME NEW v \in Reached', v.seq = Done'
      PROVE  v = b.progress
  BY <1>4, <1>6, SeqDetermines DEF Grows, IInv, TypeOK
<1>7. ASSUME b.progress.phase = "finalize", NEW p \in Pages
      PROVE  state'[p] # "pending"
  <2>1. CASE b.end
    BY <1>1, <1>2, <2>1 DEF Recorded
  <2>2. CASE ~b.end
    <3>1. b.accepted \cup Waiting(b.page) = {}
      BY <1>1, <1>7, <2>2 DEF Fresh
    <3>2. p # b.page => state[p] # "pending"
      BY <3>1 DEF Waiting
    <3> QED
      BY <1>1, <1>2, <1>3, <2>2, <3>1, <3>2 DEF Recorded
  <2> QED
    BY <2>1, <2>2
<1>8. ASSUME ~b.progress.incomplete
      PROVE  linked' \subseteq Known' /\ \A p \in Pages : state'[p] # "ignored"
  <2>1. /\ linked \subseteq Known
        /\ \A p \in Pages : state[p] # "ignored"
    BY <1>1, <1>4, <1>8 DEF IInv, Covered
  <2>2. /\ b.kind = "parsed" /\ b.links \ Known = b.accepted
        /\ b.end => b.accepted \cup Waiting(b.page) = {}
    BY <1>1, <1>8 DEF Fresh
  <2>3. b.accepted \subseteq Known'
    BY <1>1, <1>2, <1>3 DEF Recorded, Known
  <2>4. linked' \subseteq Known'
    BY <1>2, <2>1, <2>2, <2>3 DEF Grows
  <2>5. ASSUME NEW p \in Pages
        PROVE  state'[p] # "ignored"
    <3>1. CASE p = b.page
      BY <1>2, <2>2, <3>1 DEF Recorded
    <3>2. CASE p # b.page /\ b.end
      <4>1. p \notin Added(b) /\ state[p] # "pending"
        BY <1>3, <2>2, <3>2 DEF Waiting
      <4> QED
        BY <1>2, <2>1, <3>2, <4>1 DEF Recorded
    <3>3. CASE p # b.page /\ ~b.end
      BY <1>2, <2>1, <3>3 DEF Recorded
    <3> QED
      BY <3>1, <3>2, <3>3
  <2> QED
    BY <2>4, <2>5
<1> QED
  BY <1>5, <1>6, <1>7, <1>8 DEF Covered

LEMMA CommitLands ==
    ASSUME IInv, NEW b \in Sent, Lands(b), Apply(b)
    PROVE  /\ Landing(b) /\ Grows(b)
           /\ b.progress.seq = Done + 1
           /\ exec.alive => Done <= exec.told.seq
<1>1. /\ b \in Batches /\ b.page \in Pages /\ b.kind \in {"parsed", "ignored"}
      /\ Shaped(b.progress) /\ (b.end => b.progress.phase = "finalize")
      /\ state[b.page] = "pending" /\ b.progress \in Progress
      /\ Fresh(b) /\ Known # {}
  BY SentIsKnown DEF Lands, IInv, Carried, Shaped
<1>2. PICK u \in Reached : After(u, b)
  BY DEF IInv, Carried
<1>3. /\ receipt \in [Pages -> Cursors] /\ state \in [Pages -> PageStates]
      /\ ordinal \in [Pages -> 0..Limit] /\ TypeOK /\ Chained
  BY DEF IInv, TypeOK, PageStates
<1>4. /\ UNCHANGED <<plugin, session>>
      /\ state' \in [Pages -> PageStates]
      /\ \A p \in Pages : state'[p] = Recorded(b, p)
      /\ receipt' = [receipt EXCEPT ![b.page] = b.progress]
      /\ ordinal' = [p \in Pages |-> IF p \in Added(b) THEN OrdinalIn(b, p) ELSE ordinal[p]]
      /\ staged' = IF b.items THEN staged \cup {b.page} ELSE staged
      /\ found' = IF b.items THEN found \cup {b.page} ELSE found
      /\ linked' = linked \cup b.links
  BY <1>1, <1>3, Landed
<1>5. Grows(b)
  BY <1>1, <1>2, <1>3, LandingGrows
<1>6. Chained'
  BY <1>1, <1>2, <1>3, LandingChains
<1>7. Added(b) = b.accepted /\ \A p \in b.accepted : OrdinalIn(b, p) \in 1..Limit
  BY <1>1, <1>3, AddedAll
<1>8. Limit' = Limit /\ Limit \in Nat
  BY <1>3, <1>4, LimitBounds DEF Limit, TypeOK
<1>9. ordinal' \in [Pages -> 0..Limit]
  BY <1>3, <1>4, <1>7, <1>8
<1>10. receipt' \in [Pages -> Cursors]
  BY <1>1, <1>3, <1>4 DEF Cursors
<1>11. ASSUME NEW p \in Pages
       PROVE  ordinal'[p] = 0 <=> state'[p] = "absent"
  <2>1. ordinal[p] = 0 <=> state[p] = "absent"
    BY <1>3 DEF TypeOK
  <2>2. CASE p \in Added(b)
    <3>1. ordinal'[p] # 0
      BY <1>4, <1>7, <1>8, <2>2
    <3>2. state'[p] # "absent"
      BY <1>1, <1>4, <2>2 DEF Recorded
    <3> QED
      BY <3>1, <3>2
  <2>3. CASE p \notin Added(b)
    <3>1. ordinal'[p] = ordinal[p]
      BY <1>4, <2>3
    <3>2. state'[p] = "absent" <=> state[p] = "absent"
      BY <1>1, <1>4, <2>3 DEF Recorded
    <3> QED
      BY <2>1, <3>1, <3>2
  <2> QED
    BY <2>2, <2>3
<1>12. RowsTyped'
  <2>1. b.links \subseteq Pages
    BY <1>1 DEF Batches
  <2>2. staged' \subseteq Pages /\ found' \subseteq Pages /\ linked' \subseteq Pages
    BY <1>1, <1>3, <1>4, <2>1 DEF TypeOK
  <2>3. plugin' \in Plugins /\ session' \in SessionStates
    BY <1>3, <1>4 DEF TypeOK
  <2> QED
    BY <1>4, <1>8, <1>9, <1>10, <1>11, <2>2, <2>3 DEF RowsTyped
<1>13. Known' # {}
  BY <1>1, <1>5 DEF Grows
<1>14. Covered'
  BY <1>2, <1>5, <1>6, <1>10, <1>13, LandingCovers
<1>15. \A c \in Sent : state'[c.page] # "pending"
  BY NoneCanLand
<1>16. ASSUME NEW p \in Known, state[p] # "pending"
       PROVE  state'[p] # "pending"
  <2>1. p \notin Added(b) /\ p \in Pages
    BY DEF Known, Added
  <2> QED
    BY <1>1, <1>4, <1>16, <2>1 DEF Recorded
<1>17. Landing(b)
  BY <1>1, <1>4, <1>5, <1>6, <1>12, <1>14, <1>15, <1>16 DEF Landing, Grows
<1>18. u.seq = Done /\ b.progress.seq = Done + 1
  BY <1>2, <1>3, LandsLast
<1> QED
  BY <1>2, <1>5, <1>17, <1>18 DEF After

LEMMA CommitIsFenced ==
    ASSUME IInv, NEW b \in Sent, ~Lands(b), Apply(b)
    PROVE  Landing(b) /\ UNCHANGED receipt
<1>1. /\ receipt \in [Pages -> Cursors] /\ state \in [Pages -> PageStates]
      /\ ordinal \in [Pages -> 0..Limit] /\ TypeOK /\ Chained
  BY DEF IInv, TypeOK, PageStates
<1>2. /\ UNCHANGED <<receipt, ordinal, staged, found, linked, plugin, session>>
      /\ state' \in [Pages -> PageStates]
      /\ \/ state' = state
         \/ \A p \in Pages : state'[p] = IF state[p] = "pending" THEN "ignored" ELSE state[p]
  BY <1>1, Fenced
<1>3. Known # {} /\ \A c \in Sent : c.page \in Pages
  BY SentIsKnown
<1>4. /\ \A p \in Pages : Moved(p)
      /\ Known' = Known
      /\ \A p \in Pages : state'[p] = "absent" <=> state[p] = "absent"
      /\ \A p \in Pages : state[p] # "pending" => state'[p] # "pending"
  BY <1>2 DEF Moved, Known
<1>5. /\ Receipted' = Receipted /\ Done' = Done /\ Reached' = Reached /\ Chained'
  BY <1>1, <1>2, <1>3, <1>4, ChainKept
<1>6. RowsTyped'
  <2>1. Limit' = Limit
    BY <1>2 DEF Limit
  <2> QED
    BY <1>1, <1>2, <1>4, <2>1 DEF RowsTyped, TypeOK
<1>7. \A c \in Sent : state'[c.page] = "pending" => Fresh(c)'
  <2>1. CASE state' = state
    BY <1>2, <2>1, FreshStays DEF IInv, Carried
  <2>2. CASE \A p \in Pages : state'[p] = IF state[p] = "pending" THEN "ignored" ELSE state[p]
    BY <1>3, <2>2
  <2> QED
    BY <1>2, <2>1, <2>2
<1>8. Covered'
  <2>1. CASE state' = state
    BY <1>2, <2>1, CoveredStays DEF IInv
  <2>2. CASE \A p \in Pages : state'[p] = IF state[p] = "pending" THEN "ignored" ELSE state[p]
    <3>1. \A p \in Pages : state'[p] # "pending"
      BY <2>2
    <3>2. ASSUME NEW u \in Reached, u.seq = Done, ~u.incomplete,
                 u.phase = "finalize" \/ state'[u.page] = "pending"
          PROVE  \A p \in Pages : state'[p] # "ignored"
      <4>1. u.phase = "finalize"
        <5>1. u.phase = "fetch" => u.page \in Known
          BY <1>1, <1>3 DEF Chained
        <5>2. u.phase \in {"fetch", "finalize"}
          BY <1>1, ReachedTypes DEF Progress
        <5> QED
          BY <3>1, <3>2, <5>1, <5>2 DEF Known
      <4>2. \A p \in Pages : state[p] # "pending" /\ state[p] # "ignored"
        BY <3>2, <4>1 DEF IInv, Covered
      <4> QED
        BY <2>2, <4>2
    <3> QED
      BY <1>2, <1>3, <1>4, <1>5, <3>1, <3>2 DEF IInv, Covered
  <2> QED
    BY <1>2, <2>1, <2>2
<1>9. \A p \in Known : state[p] # "pending" => state'[p] # "pending"
  BY <1>4 DEF Known
<1> QED
  BY <1>2, <1>3, <1>4, <1>5, <1>6, <1>7, <1>8, <1>9 DEF Landing

\* A commit has arrived, with a handler or without.
LEMMA ArrivalKeeps ==
    ASSUME IInv, NEW b \in Sent, Landing(b), UNCHANGED <<exec, asked>>,
           Sent' \subseteq Sent, OthersTyped', Stands',
           exec.alive => Done' <= exec.told.seq + 1,
           Receipted' # {} => session.status # "none",
           \/ UNCHANGED step
           \/ step'.pc \notin Starting \cup {"page", "ask"} /\ step.pc # "idle"
    PROVE  IInv'
<1>1. /\ UNCHANGED <<plugin, session>>
      /\ RowsTyped' /\ Chained' /\ Covered'
      /\ Receipted \subseteq Receipted' /\ Reached \subseteq Reached' /\ Known \subseteq Known'
      /\ Known # {}
      /\ \A c \in Sent : state'[c.page] = "pending" => Fresh(c)'
      /\ \A p \in Known : state[p] # "pending" => state'[p] # "pending"
  BY DEF Landing
<1>2. exec.alive => exec.told # NoProgress
  BY SentIsKnown
<1>3. TypeOK'
  BY <1>1, TypeParts, PTL
<1>4. Placed'
  <2>1. Known' # {}
    BY <1>1
  <2>2. ~exec.alive => step'.pc = "idle"
    BY DEF IInv, Placed, At
  <2>3. exec.told # NoProgress => exec.alive
    BY DEF IInv, Placed
  <2> QED
    BY <1>1, <1>2, <2>1, <2>2, <2>3 DEF IInv, Placed, At
<1>5. Carried'
  <2>1. SUFFICES ASSUME NEW c \in Sent
                 PROVE  /\ c.page \in Pages /\ c.kind \in {"parsed", "ignored"}
                        /\ Shaped(c.progress)
                        /\ c.end => c.progress.phase = "finalize"
                        /\ \E u \in Reached : After(u, c)'
                        /\ state'[c.page] = "pending" => Fresh(c)'
    BY <1>1 DEF Carried, Shaped
  <2>2. PICK u \in Reached : After(u, c)
    BY DEF IInv, Carried
  <2>3. After(u, c)'
    BY <2>2 DEF After
  <2> QED
    BY <1>1, <2>3 DEF IInv, Carried
<1>6. Permitted'
  <2>1. Fetching => exec.told.page \in Known
    <3>1. Fetching => exec.told \in Reached
      BY CursorTypes, ProgressTypes DEF IInv, Fetching
    <3> QED
      BY <1>1, <3>1 DEF IInv, Chained, Fetching
  <2>2. At("page") => step.seen.page \in Known
    <3>1. At("page") => /\ step.seen.phase = "fetch" /\ step.seen \in Reached
      BY AtItsPage DEF At, Working
    <3> QED
      BY <1>1, <3>1 DEF IInv, Chained
  <2>3. CASE UNCHANGED step
    BY <1>1, <2>1, <2>2, <2>3 DEF IInv, Permitted, Fetching, Starting, At
  <2>4. CASE step'.pc \notin Starting \cup {"page", "ask"} /\ step.pc # "idle"
    BY <1>1, <2>4 DEF IInv, Permitted, Fetching, Starting, At
  <2> QED
    BY <2>3, <2>4
<1> QED
  BY <1>1, <1>3, <1>4, <1>5, <1>6 DEF IInv

\* What both kinds of arrival leave of the bounds.
LEMMA ArrivalBounds ==
    ASSUME IInv, NEW b \in Sent, Apply(b)
    PROVE  /\ Landing(b)
           /\ exec.alive => Done' <= exec.told.seq + 1
           /\ Receipted' # {} => session.status # "none"
<1>1. Done \in Nat /\ receipt \in [Pages -> Cursors]
  BY ReachedTypes DEF IInv, TypeOK
<1>2. exec.alive => Done <= exec.told.seq + 1 /\ exec.told.seq \in Nat
  BY SentIsKnown, CursorTypes DEF IInv, Placed
<1>3. CASE Lands(b)
  BY <1>1, <1>2, <1>3, CommitLands DEF Grows, Lands, Owner
<1>4. CASE ~Lands(b)
  <2>1. Landing(b) /\ UNCHANGED receipt
    BY <1>4, CommitIsFenced
  <2>2. Receipted' = Receipted /\ Done' = Done
    BY <2>1 DEF Receipted, Done
  <2> QED
    BY <1>2, <2>1, <2>2 DEF IInv, Placed
<1> QED
  BY <1>3, <1>4

LEMMA CommitKeeps == ASSUME IInv, Commit PROVE IInv'
<1> DEFINE b == step.batch
<1>1. /\ UNCHANGED <<run, fresh, exec, flying, faults, lates, asked, published>>
      /\ At("commit") /\ step.pc = "commit" /\ Apply(b)
      /\ step' = IF Lands(b)
                 THEN [step EXCEPT !.pc = "continue", !.value = b.progress, !.batch = NoBatch]
                 ELSE NoStep
  BY DEF Commit, At
<1>2. b \in Sent
  BY <1>1 DEF Sent
<1>3. /\ Landing(b)
      /\ exec.alive => Done' <= exec.told.seq + 1
      /\ Receipted' # {} => session.status # "none"
  BY <1>1, <1>2, ArrivalBounds
<1>4. /\ exec.told # NoProgress /\ exec.told \in Reached /\ exec.alive
      /\ step.seen = exec.told /\ session.status = "collecting"
  BY <1>1, AtItsPage DEF At, Working
<1>5. Landing(b) => /\ UNCHANGED session /\ Reached \subseteq Reached' /\ Known \subseteq Known'
                    /\ Known # {}
  BY DEF Landing
<1>6. SUFFICES OthersTyped' /\ Stands' /\ step'.pc \in {"continue", "idle"}
  <2>1. Sent' \subseteq Sent
    BY <1>1, <1>6 DEF Sent, At
  <2> QED
    BY <1>1, <1>2, <1>3, <1>6, <2>1, ArrivalKeeps DEF Starting
<1>7. CASE ~Lands(b)
  <2>1. step'.pc = "idle" /\ step' \in StepStates /\ Stands'
    BY <1>1, <1>7, Gone
  <2> QED
    BY <1>1, <2>1, TypeParts DEF IInv, OthersTyped
<1>8. CASE Lands(b)
  <2>1. Grows(b) /\ b.progress.seq = Done + 1
    BY <1>1, <1>2, <1>8, CommitLands
  <2>2. b.progress \in Reached' /\ b.progress \in Cursors
    BY <1>2, <2>1, SentIsKnown DEF Grows, Shaped, Cursors
  <2>3. /\ step'.pc = "continue" /\ step'.value = b.progress /\ step'.seen = step.seen
        /\ step' \in StepStates
    <3>1. NoBatch \in Batches /\ step \in StepStates
      BY NothingTypes DEF IInv, TypeOK
    <3> HIDE DEF b
    <3>2. step' = [step EXCEPT !.pc = "continue", !.value = b.progress, !.batch = NoBatch]
      BY <1>1, <1>8
    <3> QED
      BY <2>2, <3>1, <3>2 DEF StepStates
  <2>4. exec.told.seq \in 0..Done /\ Done \in Nat
    BY <1>4, SeqDetermines, ReachedTypes DEF IInv, TypeOK
  <2>5. step'.value.seq >= exec.told.seq
    BY <2>1, <2>3, <2>4
  <2>6. Stands'
    BY <1>1, <1>3, <1>4, <1>5, <2>2, <2>3, <2>5
       DEF Stands, Starting, Working, Publishing, At
  <2>7. OthersTyped'
    BY <1>1, <2>3, TypeParts DEF IInv, OthersTyped
  <2> QED
    BY <2>3, <2>6, <2>7
<1> QED
  BY <1>7, <1>8

LEMMA LateCommitKeeps == ASSUME IInv, NEW b \in flying, LateCommit(b) PROVE IInv'
<1>1. /\ UNCHANGED <<run, fresh, exec, step, faults, lates, asked, published>>
      /\ flying' = flying \ {b} /\ Apply(b)
  BY DEF LateCommit
<1>2. b \in Sent
  BY DEF Sent
<1>3. /\ Landing(b)
      /\ exec.alive => Done' <= exec.told.seq + 1
      /\ Receipted' # {} => session.status # "none"
  BY <1>1, <1>2, ArrivalBounds
<1>4. /\ UNCHANGED session /\ Reached \subseteq Reached' /\ Known \subseteq Known'
      /\ Known # {}
  BY <1>3 DEF Landing
<1>5. Sent' \subseteq Sent
  BY <1>1 DEF Sent, At
<1>6. OthersTyped'
  BY <1>1, TypeParts DEF IInv, OthersTyped
<1>7. Stands'
  BY <1>1, <1>4 DEF IInv, Stands, Starting, Working, Publishing, At, Finished
<1> QED
  BY <1>1, <1>2, <1>3, <1>5, <1>6, <1>7, ArrivalKeeps

-----------------------------------------------------------------------------

LEMMA InitIsIn == Init => IInv
<1> SUFFICES ASSUME Init PROVE IInv
  OBVIOUS
<1> USE DEF Init
<1>1. Receipted = {} /\ Known = {} /\ Reached = {FirstProgress} /\ Done = 0
  <2>1. Receipted = {} /\ Known = {}
    BY DEF Receipted, Known
  <2> QED
    BY <2>1, FS_EmptySet DEF Reached, Done
<1>2. TypeOK
  <2>1. 1..Initial \subseteq Pages
    BY PagesAssumption DEF Pages
  <2>2. Limit \in Nat
    BY LimitBounds
  <2>3. MaxFaults \in Nat /\ MaxLate \in Nat
    BY BoundAssumption
  <2>4. exec \in ExecStates /\ session \in SessionStates /\ step \in StepStates
    BY NothingTypes DEF SessionStates, ExecStates
  <2>5. state \in [Pages -> PageStates] /\ ordinal \in [Pages -> 0..Limit]
        /\ receipt \in [Pages -> Cursors]
    BY <2>2, NothingTypes DEF PageStates
  <2>6. \A p \in Pages : ordinal[p] = 0 <=> state[p] = "absent"
    OBVIOUS
  <2>7. faults \in 0..MaxFaults /\ lates \in 0..MaxLate /\ asked \in Nat /\ published \in Nat
    BY <2>3
  <2> QED
    BY <2>1, <2>4, <2>5, <2>6, <2>7 DEF TypeOK, PageStates
<1>3. Chained
  <2>1. FirstProgress.parsed = Cardinality(ParsedUpTo(FirstProgress.seq))
    <3>1. ParsedUpTo(FirstProgress.seq) = {}
      BY <1>1 DEF ParsedUpTo
    <3> QED
      BY <3>1, FS_EmptySet, ProgressTypes
  <2>2. {receipt[p].seq : p \in Receipted} = 1..Done
    BY <1>1
  <2> QED
    BY <1>1, <2>1, <2>2 DEF Chained
<1>4. Placed
  BY <1>1, ProgressTypes DEF Placed, At, NoStep, Starting
<1>5. Stands
  BY ProgressTypes DEF Stands, NoStep, Starting, Working, Publishing, At
<1>6. Carried
  BY DEF Carried, Sent, At, NoStep
<1>7. Covered
  BY <1>1, ProgressTypes DEF Covered
<1>8. Permitted
  BY DEF Permitted, Fetching, Starting, At, NoStep, NoProgress
<1> QED
  BY <1>2, <1>3, <1>4, <1>5, <1>6, <1>7, <1>8 DEF IInv

LEMMA NextKeeps == ASSUME IInv, [Next]_vars PROVE IInv'
<1>1. CASE Stepping
  BY <1>1, PrepareKeeps, StepBeginsKeeps, ReadSessionKeeps, CreateSessionKeeps,
     CreateFrontierKeeps, ReadPageKeeps, AskKeeps, CommitKeeps, ContinueKeeps, PutKeeps,
     FailCheckpointKeeps, FailSessionKeeps, TerminalKeeps, ClaimKeeps, ReserveKeeps,
     PublishKeeps, RecordKeeps DEF Stepping
<1>2. CASE Failing
  BY <1>2, PrepareFailsKeeps, PermitExpiresKeeps, AskFailsKeeps, PublishUnrecordedKeeps,
     PublishFailsKeeps, CrashKeeps DEF Failing
<1>3. CASE ClaimGoesStale
  BY <1>3, ClaimGoesStaleKeeps
<1>4. CASE \E b \in flying : LateCommit(b)
  BY <1>4, LateCommitKeeps
<1>5. CASE UNCHANGED vars
  <2>1. /\ UNCHANGED <<plugin, session, state, ordinal, staged, receipt, linked, found, exec,
                       step, run, fresh, flying, faults, lates, asked, published>>
    BY <1>5 DEF vars
  <2>2. OthersTyped'
    BY <2>1, TypeParts DEF IInv, OthersTyped
  <2>3. Reached' = Reached /\ Known' = Known
    BY <2>1, ChainStands
  <2>4. Stands'
    BY <2>1, <2>3 DEF IInv, Stands, Starting, Working, Publishing, At, Finished
  <2>5. Permitted'
    BY <2>1 DEF IInv, Permitted, Fetching, Starting, At
  <2>6. Placed'
    BY <2>1, PlacedStays DEF IInv, Placed, At
  <2>7. Sent' \subseteq Sent /\ Onward
    BY <2>1, CursorTypes DEF Sent, At, IInv, Onward
  <2> QED
    BY <2>1, <2>2, <2>4, <2>5, <2>6, <2>7, Quiet
<1> QED
  BY <1>1, <1>2, <1>3, <1>4, <1>5 DEF Next

LEMMA InvariantHolds == Spec => []IInv
BY InitIsIn, NextKeeps, PTL DEF Spec

(***************************************************************************)
(* The theorems.                                                           *)
(***************************************************************************)

\* Every reachable state has its type: no counter or ordinal leaves its bounds.
THEOREM TypeCorrect == Spec => []TypeOK
<1>1. IInv => TypeOK
  BY DEF IInv
<1> QED
  BY <1>1, InvariantHolds, PTL

LEMMA CountersFollow == ASSUME IInv PROVE CountersAreExact
<1>1. /\ receipt \in [Pages -> Cursors] /\ Chained
      /\ \A u \in Reached : u.parsed = Cardinality(ParsedUpTo(u.seq))
      /\ \A p \in Receipted : receipt[p].seq \in 1..Done
      /\ Done \in Nat
  BY ReachedTypes DEF IInv, TypeOK, Chained
<1>2. ASSUME NEW g \in {exec.told, session.progress} \cup {receipt[p] : p \in Receipted}
      PROVE  g.parsed = Cardinality(ParsedUpTo(g.seq))
  <2>1. g \in Reached \cup {NoProgress}
    BY DEF IInv, Placed, Reached
  <2>2. CASE g \in Reached
    BY <1>1, <2>2
  <2>3. CASE g = NoProgress
    <3>1. ParsedUpTo(g.seq) = {}
      BY <1>1, <2>3, ProgressTypes DEF ParsedUpTo
    <3>2. g.parsed = 0
      BY <2>3 DEF NoProgress
    <3> QED
      BY <3>1, <3>2, FS_EmptySet
  <2> QED
    BY <2>1, <2>2, <2>3
<1> QED
  BY <1>2 DEF CountersAreExact, ParsedUpTo

\* However often a page's step was replayed, died or came late, each copy of the
\* counters counts the pages parsed up to its sequence, each once.
THEOREM CountersAreKept == Spec => []CountersAreExact
<1>1. IInv => CountersAreExact
  BY CountersFollow
<1> QED
  BY <1>1, InvariantHolds, PTL

LEMMA ChainFollows == ASSUME IInv PROVE ReceiptsFormAChain
<1>1. /\ receipt \in [Pages -> Cursors] /\ Chained
      /\ \A p \in Receipted : receipt[p].seq \in 1..Done
      /\ Done \in Nat
  BY ReachedTypes DEF IInv, TypeOK, Chained
<1>2. ASSUME NEW p \in Receipted, receipt[p].seq > exec.told.seq, exec.told # NoProgress
      PROVE  receipt[p].seq = exec.told.seq + 1 /\ p = exec.told.page
  <2>1. exec.told \in Reached /\ Done <= exec.told.seq + 1 /\ exec.told.seq \in Nat
    BY <1>2, CursorTypes DEF IInv, Placed
  <2>2. receipt[p].seq = exec.told.seq + 1 /\ exec.told.seq # Done
    BY <1>1, <1>2, <2>1
  <2>3. /\ exec.told.page \in Receipted
        /\ receipt[exec.told.page].seq = exec.told.seq + 1
    BY <1>1, <2>1, <2>2, HasSuccessor
  <2> QED
    BY <1>1, <2>2, <2>3 DEF Chained
<1> QED
  BY <1>1, <1>2 DEF ReceiptsFormAChain, Done, Chained

\* The receipts are one chain, and the recovery that looks at one page finds
\* the only link that may be missing from the execution.
THEOREM ReceiptsAreAChain == Spec => []ReceiptsFormAChain
<1>1. IInv => ReceiptsFormAChain
  BY ChainFollows
<1> QED
  BY <1>1, InvariantHolds, PTL

\* A direct permit is good for one request, whatever dies after it was spent.
THEOREM PermitIsSpentOnce == Spec => []OneRequestPerPermit
<1>1. IInv => OneRequestPerPermit
  BY DEF IInv, Permitted, OneRequestPerPermit
<1> QED
  BY <1>1, InvariantHolds, PTL

LEMMA CompleteFollows == ASSUME IInv PROVE CompleteIsComplete
<1>1. SUFFICES ASSUME At("publish")
               PROVE  /\ staged = found
                      /\ ~session.progress.incomplete => \A p \in linked : state[p] = "parsed"
  BY DEF CompleteIsComplete
<1>2. /\ session.status = "finalizing" /\ exec.told.phase = "finalize"
      /\ exec.told # NoProgress /\ exec.alive
  BY <1>1, Told DEF IInv, Stands, Publishing, Starting, At
<1>3. /\ session.progress = exec.told /\ exec.told \in Reached /\ Known # {}
      /\ receipt \in [Pages -> Cursors] /\ Chained
  BY <1>2 DEF IInv, Placed, TypeOK
<1>4. exec.told.seq = Done
  BY <1>2, <1>3, FinalIsLast
<1>5. ASSUME ~session.progress.incomplete, NEW p \in linked
      PROVE  state[p] = "parsed"
  <2>1. /\ linked \subseteq Known /\ \A q \in Pages : state[q] \notin {"pending", "ignored"}
    BY <1>2, <1>3, <1>4, <1>5 DEF IInv, Covered
  <2>2. p \in Pages /\ state[p] # "absent"
    BY <2>1 DEF Known
  <2> QED
    BY <2>1, <2>2 DEF IInv, TypeOK
<1> QED
  BY <1>2, <1>5 DEF IInv, Covered

\* What is published as complete, and ends the listings it did not see, has
\* parsed every page its pages link to and kept every product it staged.
THEOREM CompletenessIsEarned == Spec => []CompleteIsComplete
<1>1. IInv => CompleteIsComplete
  BY CompleteFollows
<1> QED
  BY <1>1, InvariantHolds, PTL

\* No step publishes a collection whose crawl run has already succeeded.
THEOREM OutcomeIsPublishedOnce == Spec => PublishedOnce
<1>1. ASSUME IInv, [Next]_vars
      PROVE  [run = "success" => published' = published]_vars
  <2>1. SUFFICES ASSUME run = "success", published' # published
                 PROVE  FALSE
    OBVIOUS
  <2>2. Publish \/ PublishUnrecorded
    BY <1>1, <2>1 DEF Next, Stepping, Failing, vars, history, Prepare, StepBegins, ReadSession,
       CreateSession, CreateFrontier, ReadPage, Ask, Commit, Continue, Put, FailCheckpoint,
       FailSession, Terminal, Claim, Reserve, Record, PrepareFails, PermitExpires, AskFails,
       PublishFails, Crash, ClaimGoesStale, LateCommit
  <2>3. ~Finished
    BY <1>1, <2>2 DEF Publish, PublishUnrecorded, At, IInv, Stands
  <2> QED
    BY <2>1, <2>3 DEF Finished
<1> QED
  BY <1>1, InvariantHolds, PTL DEF Spec, PublishedOnce

(***************************************************************************)
(* The ordinals.                                                           *)
(***************************************************************************)

\* The places in a set are 1, 2, ... up to its size.
LEMMA PlacesAreDense ==
    ASSUME NEW S \in SUBSET Pages
    PROVE  {Place(p, S) : p \in S} = 1..Cardinality(S) /\ Cardinality(S) \in Nat
<1> DEFINE n == Cardinality(S)
           f == [p \in S |-> Place(p, S)]
           Up(p) == {q \in S : q <= p}
<1>1. IsFiniteSet(S) /\ n \in Nat
  BY PagesAreFinite
<1>2. ASSUME NEW p \in S
      PROVE  /\ IsFiniteSet(Up(p)) /\ Cardinality(Up(p)) \in Nat /\ Cardinality(Up(p)) <= n
             /\ Place(p, S) = Cardinality(Up(p)) /\ Place(p, S) \in 1..n
  <2>1. Up(p) \in SUBSET S /\ S \in SUBSET S
    OBVIOUS
  <2>2. IsFiniteSet(Up(p)) /\ Cardinality(Up(p)) \in Nat /\ Cardinality(Up(p)) <= n
    BY <1>1, <2>1, FS_Subset, FS_CardinalityType
  <2>3. Place(p, S) = Cardinality(Up(p))
    BY DEF Place
  <2>4. 1 <= Place(p, S)
    BY <2>1, PlaceBounds
  <2> QED
    BY <1>1, <2>2, <2>3, <2>4
<1>3. ASSUME NEW p \in S, NEW q \in S, p < q
      PROVE  Place(p, S) # Place(q, S)
  <2>1. p \in Int /\ q \in Int /\ \A x \in S : x \in Int
    BY DEF Pages
  <2>2. Up(p) \in SUBSET Up(q) /\ q \in Up(q) /\ q \notin Up(p)
    <3>1. \A x \in S : x <= p => x <= q
      BY <1>3, <2>1
    <3>2. q <= q /\ ~(q <= p)
      BY <1>3, <2>1
    <3> QED
      BY <3>1, <3>2
  <2>3. Up(p) # Up(q)
    BY <2>2
  <2>4. Cardinality(Up(p)) # Cardinality(Up(q))
    <3> HIDE DEF Up
    <3> QED
      BY <1>2, <2>2, <2>3, FS_Subset
  <2> QED
    BY <1>2, <2>4
<1>4. \A p, q \in S : Place(p, S) = Place(q, S) => p = q
  <2>1. \A p, q \in S : p < q \/ q < p \/ p = q
    BY DEF Pages
  <2> QED
    BY <1>3, <2>1
<1>5. f \in Injection(S, 1..n)
  BY <1>2, <1>4 DEF Injection, IsInjective
<1>6. IsFiniteSet(1..n) /\ Cardinality(1..n) = n
  BY <1>1, FS_Interval
<1>7. f \in Surjection(S, 1..n)
  <2> HIDE DEF f
  <2> QED
    BY <1>5, <1>6, FS_Injection
<1>8. \A k \in 1..n : \E p \in S : Place(p, S) = k
  BY <1>7 DEF Surjection
<1> QED
  BY <1>1, <1>2, <1>8

\* The last ordinal is the number of pages.
LEMMA SizeIsNumber ==
    ASSUME TypeOK, OrdinalsAreDense
    PROVE  Size = Cardinality(Known) /\ Cardinality(Known) \in Nat
<1>1. /\ Size \in 0..Limit /\ Limit \in Nat /\ \A p \in Pages : ordinal[p] <= Size
      /\ \E p \in Pages : ordinal[p] = Size
  BY SizeBounds, LimitBounds DEF TypeOK
<1>2. Cardinality(Known) \in Nat /\ Known \subseteq Pages
  BY PagesAreFinite DEF Known
<1>3. Cardinality(Known) <= Size
  <2>1. CASE Cardinality(Known) = 0
    BY <1>1, <2>1
  <2>2. CASE Cardinality(Known) # 0
    <3>1. Cardinality(Known) \in 1..Cardinality(Known)
      BY <1>2, <2>2
    <3>2. PICK p \in Known : ordinal[p] = Cardinality(Known)
      BY <3>1 DEF OrdinalsAreDense
    <3> QED
      BY <1>1, <1>2, <3>2
  <2> QED
    BY <2>1, <2>2
<1>4. Size <= Cardinality(Known)
  <2>1. PICK p \in Pages : ordinal[p] = Size
    BY <1>1
  <2>2. CASE p \in Known
    <3>1. Size \in 1..Cardinality(Known)
      BY <2>1, <2>2 DEF OrdinalsAreDense
    <3> QED
      BY <1>2, <3>1
  <2>3. CASE p \notin Known
    <3>1. Size = 0
      BY <2>1, <2>3 DEF Known, TypeOK
    <3> QED
      BY <1>2, <3>1
  <2> QED
    BY <2>2, <2>3
<1> QED
  BY <1>1, <1>2, <1>3, <1>4

LEMMA DenseStands ==
    ASSUME OrdinalsAreDense, Known' = Known, UNCHANGED ordinal
    PROVE  OrdinalsAreDense'
  BY DEF OrdinalsAreDense

LEMMA ArrivalIsDense ==
    ASSUME IInv, OrdinalsAreDense, NEW b \in Sent, Apply(b)
    PROVE  OrdinalsAreDense'
<1>1. /\ b \in Batches /\ b.page \in Pages /\ b.kind \in {"parsed", "ignored"}
  BY SentIsKnown
<1>2. /\ state \in [Pages -> PageStates] /\ receipt \in [Pages -> Cursors]
      /\ ordinal \in [Pages -> 0..Limit] /\ TypeOK
  BY DEF IInv, TypeOK, PageStates
<1>3. CASE ~Lands(b)
  <2>1. /\ UNCHANGED ordinal
        /\ \/ state' = state
           \/ \A p \in Pages : state'[p] = IF state[p] = "pending" THEN "ignored" ELSE state[p]
    BY <1>2, <1>3, Fenced
  <2>2. Known' = Known
    BY <2>1 DEF Known
  <2> QED
    BY <2>1, <2>2, DenseStands
<1>4. CASE Lands(b)
  <2> DEFINE A == b.accepted
             k == Cardinality(Known)
             n == Cardinality(A)
  <2>1. Fresh(b) /\ state[b.page] = "pending"
    BY <1>4 DEF Lands, IInv, Carried
  <2>2. Added(b) = A /\ A \in SUBSET Pages /\ A \cap Known = {}
    BY <1>1, <1>2, <2>1, AddedAll DEF Batches, Fresh
  <2>3. /\ \A p \in Pages : state'[p] = Recorded(b, p)
        /\ ordinal' = [p \in Pages |-> IF p \in A THEN OrdinalIn(b, p) ELSE ordinal[p]]
    BY <1>1, <1>2, <1>4, <2>2, Landed
  <2>4. Known' = Known \cup A
    BY <1>1, <2>1, <2>2, <2>3 DEF Known, Recorded
  <2>5. k \in Nat /\ n \in Nat /\ Size = k
    BY <1>2, <2>2, SizeIsNumber, PagesAreFinite
  <2>6. Cardinality(Known') = k + n
    <3>1. IsFiniteSet(Known) /\ IsFiniteSet(A) /\ Known \cap A = {}
      BY <2>2, PagesAreFinite DEF Known
    <3>2. Cardinality(Known \cup A) = k + n - 0
      BY <3>1, FS_Union, FS_EmptySet
    <3> QED
      BY <2>4, <2>5, <3>2
  <2>7. {Place(p, A) : p \in A} = 1..n
    BY <2>2, PlacesAreDense
  <2>8. \A p \in A : ordinal'[p] = k + Place(p, A)
    <3>1. A # {} => b.size = k
      BY <2>1, <2>5 DEF Fresh
    <3> QED
      BY <2>2, <2>3, <3>1 DEF OrdinalIn
  <2>9. \A p \in Known : ordinal'[p] = ordinal[p]
    BY <2>2, <2>3 DEF Known
  <2>10. {ordinal[p] : p \in Known} = 1..k
    BY DEF OrdinalsAreDense
  <2>11. {ordinal'[p] : p \in A} = {k + i : i \in 1..n}
    <3>1. {ordinal'[p] : p \in A} = {k + Place(p, A) : p \in A}
      BY <2>8
    <3>2. {k + Place(p, A) : p \in A} = {k + i : i \in {Place(p, A) : p \in A}}
      OBVIOUS
    <3> QED
      BY <2>7, <3>1, <3>2
  <2>12. {k + i : i \in 1..n} = (k + 1)..(k + n)
    <3>1. \A j \in (k + 1)..(k + n) : j - k \in 1..n /\ k + (j - k) = j
      BY <2>5
    <3>2. \A i \in 1..n : k + i \in (k + 1)..(k + n)
      BY <2>5
    <3> QED
      BY <3>1, <3>2
  <2>13. {ordinal'[p] : p \in Known \cup A} = 1..k \cup (k + 1)..(k + n)
    <3>1. {ordinal'[p] : p \in Known \cup A} =
            {ordinal[p] : p \in Known} \cup {ordinal'[p] : p \in A}
      BY <2>9
    <3> QED
      BY <2>10, <2>11, <2>12, <3>1
  <2>14. 1..k \cup (k + 1)..(k + n) = 1..(k + n)
    BY <2>5
  <2> QED
    BY <2>4, <2>6, <2>13, <2>14 DEF OrdinalsAreDense
<1> QED
  BY <1>3, <1>4

LEMMA DenseKeeps == ASSUME IInv, OrdinalsAreDense, [Next]_vars PROVE OrdinalsAreDense'
<1>1. CASE UNCHANGED <<state, ordinal>>
  <2>1. Known' = Known
    BY <1>1 DEF Known
  <2> QED
    BY <1>1, <2>1, DenseStands
<1>2. CASE CreateFrontier
  <2>1. Known = {}
    BY <1>2 DEF CreateFrontier, IInv, Stands, At
  <2>2. 1..Initial \subseteq Pages /\ Initial \in Nat /\ Cardinality(1..Initial) = Initial
    <3>1. Initial \in 1..NumPages /\ NumPages \in Nat
      BY PagesAssumption
    <3>2. Cardinality(1..Initial) = Initial
      BY <3>1, FS_Interval
    <3> QED
      BY <3>1, <3>2 DEF Pages
  <2>3. /\ \A p \in Pages : state'[p] = IF p \in 1..Initial THEN "pending" ELSE "absent"
        /\ \A p \in 1..Initial : ordinal'[p] = p
    BY <1>2, <2>1, <2>2 DEF CreateFrontier, Known
  <2>4. Known' = 1..Initial
    BY <2>2, <2>3 DEF Known
  <2>5. {ordinal'[p] : p \in 1..Initial} = 1..Initial
    BY <2>3
  <2> QED
    BY <2>2, <2>4, <2>5 DEF OrdinalsAreDense
<1>3. CASE Commit
  BY <1>3, ArrivalIsDense DEF Commit, Sent
<1>4. CASE \E b \in flying : LateCommit(b)
  BY <1>4, ArrivalIsDense DEF LateCommit, Sent
<1>5. UNCHANGED <<state, ordinal>> \/ CreateFrontier \/ Commit \/ \E b \in flying : LateCommit(b)
  BY DEF Next, Stepping, Failing, vars, rows, Prepare, StepBegins, ReadSession,
     CreateSession, ReadPage, Ask, Continue, Put, FailCheckpoint,
     FailSession, Terminal, Claim, Reserve, Record, PrepareFails, PermitExpires, AskFails,
     Publish, PublishUnrecorded, PublishFails, Crash, ClaimGoesStale
<1> QED
  BY <1>1, <1>2, <1>3, <1>4, <1>5

\* The ordinals of the frontier are dense: the next one is the number of its
\* pages, as the page limit takes it to be.
THEOREM OrdinalsStayDense == Spec => []OrdinalsAreDense
<1>1. Init => OrdinalsAreDense
  <2>1. Init => Known = {}
    BY DEF Init, Known
  <2>2. Known = {} => OrdinalsAreDense
    BY FS_EmptySet DEF OrdinalsAreDense
  <2> QED
    BY <2>1, <2>2
<1> QED
  BY <1>1, DenseKeeps, InvariantHolds, PTL DEF Spec
=============================================================================
