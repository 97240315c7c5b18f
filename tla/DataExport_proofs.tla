--------------------------- MODULE DataExport_proofs ---------------------------
(***************************************************************************)
(* For every number of jobs, rows, files, deliveries and faults: an export *)
(* that is ready is whole, its files are not torn, some message carries    *)
(* the cursor of a job that goes on, and the export implements the log.    *)
(*                                                                         *)
(* What is added says how one page follows another (Chain, Fits): from it  *)
(* the pages before any place hold all that was to be read before it, and  *)
(* there is room for the next one (Behind).  Every message is at a place   *)
(* that was reached (Marked), so any delivery, however late, reads or      *)
(* finds the page that fits there.                                         *)
(***************************************************************************)
EXTENDS DataExport, FiniteSetTheorems, SequenceTheorems, TLAPS

(***************************************************************************)
(* The inductive invariant.                                                *)
(***************************************************************************)

Unedited == Rows \ edited
IsStored(j, n) == chunk[j][n].stored

\* The first n pages are there, and announce another one.
Reached(j, n) == \A l \in 0..(n - 1) : chunk[j][l].stored /\ chunk[j][l].more
\* The cursor of a job that has n pages.
AfterAt(j, n) == IF job[j].format = "csv" THEN PlaceOf(j, n).after ELSE n
RowsOf(j, n) == UNION {chunk[j][l].rows : l \in 0..(n - 1)}
CopiesTo(j, n) == UNION {chunk[j][l].copy : l \in 0..(n - 1)}

\* What a page read at a place has of the rows, and of the files.
GoesOn(page) == page.more /\ page.next.table = 0
RowsFit(p, page) ==
    /\ \A r \in page.rows : p.table = 0 /\ p.after < r
    /\ GoesOn(page) =>
        /\ p.table = 0 /\ p.after < page.next.after /\ page.next.after < MaxRow
        /\ \A r \in page.rows : r <= page.next.after
    /\ p.table = 0 => \A r \in Unedited :
        p.after < r /\ (GoesOn(page) => r <= page.next.after) => r \in page.rows
NoCopy(p, page) ==
    /\ page.copy = {} /\ p.part = 0
    /\ page.next.after = p.after + 1 /\ page.next.part = 0
OneCopy(p, page) ==
    \E e \in 1..(MaxFaults + 1) :
        /\ page.copy = {[file |-> p.after + 1, part |-> p.part, etag |-> e]}
        /\ p.part > 0 => e = p.etag
        /\ IF p.part + 1 < FileParts
           THEN page.next.after = p.after /\ page.next.part = p.part + 1 /\ page.next.etag = e
           ELSE page.next.after = p.after + 1 /\ page.next.part = 0
CopiesFit(p, page) ==
    /\ p.table = 0 => /\ page.copy = {} /\ page.next.part = 0
                      /\ page.next.table \in {0, 1}
                      /\ page.next.table = 1 => page.more /\ page.next.after = 0
    /\ p.table = 1 /\ p.after = Files => page.copy = {} /\ ~page.more
    /\ p.table = 1 /\ p.after # Files =>
        /\ page.more /\ page.next.table = 1
        /\ NoCopy(p, page) \/ OneCopy(p, page)
Fits(j, n, page) ==
    LET p == PlaceOf(j, n) IN
    /\ page \in Page
    /\ page.from = AfterAt(j, n)
    /\ RowsFit(p, page) /\ CopiesFit(p, page)
    /\ job[j].format = "csv" => page.next.table = 0
    /\ job[j].format = "complete" => (p.table = 0 => page.more)

Chain(j, n) == IsStored(j, n) => Reached(j, n) /\ Fits(j, n, chunk[j][n])

\* There is room for the pages.
Room(p, n) ==
    \/ p.table = 0 /\ p.part = 0 /\ n <= p.after /\ p.after <= MaxRow /\ n < MaxRow
    \/ /\ p.table = 1 /\ p.after <= Files /\ p.part < FileParts
       /\ p.after = Files => p.part = 0
       /\ p.part > 0 => p.etag > 0
       /\ n <= MaxRow + p.after * FileParts + p.part

\* The rows and copies R and C hold what was to be read before a place.
RowsDone(p, R) ==
    /\ p.table = 0 => \A r \in R : r <= p.after
    /\ \A r \in Unedited : (p.table = 0 => r <= p.after) => r \in R
PartsIn(C, f) == {c.part : c \in {d \in C : d.file = f}}
CopiesDone(p, C) ==
    /\ p.table = 0 => C = {}
    /\ \A c, d \in C : c.file = d.file => c.etag = d.etag
    /\ p.table = 1 => \A c \in C :
        c.file <= p.after \/ (c.file = p.after + 1 /\ c.part < p.part /\ c.etag = p.etag)
    /\ p.table = 1 => \A f \in 1..Files :
        /\ f <= p.after => PartsIn(C, f) \in {{}, 0..(FileParts - 1)}
        /\ f = p.after + 1 => PartsIn(C, f) = 0..(p.part - 1)

Behind(j, n) ==
    Reached(j, n) =>
        /\ Room(PlaceOf(j, n), n)
        /\ RowsDone(PlaceOf(j, n), RowsOf(j, n))
        /\ CopiesDone(PlaceOf(j, n), CopiesTo(j, n))
Disjoint(j) ==
    \A i, k \in 0..MaxPages :
        i # k /\ IsStored(j, i) /\ IsStored(j, k) => chunk[j][i].rows \cap chunk[j][k].rows = {}

PagesOk(j) == (\A n \in 0..MaxPages : Chain(j, n) /\ Behind(j, n)) /\ Disjoint(j)
Paged == \A j \in Jobs : PagesOk(j)

\* The row of a job and its pages.
Kept(j) ==
    LET row == job[j] IN
    /\ row.total = Cardinality(RowsOf(j, row.count))
    /\ row.overdue => IsActive(j)
    /\ row.status = "none" => row.count = 0 /\ \A n \in 0..MaxPages : ~IsStored(j, n)
    /\ row.status = "gone" => row.count = 0
    /\ row.status \in Active \cup {"failed"} => Reached(j, row.count)
    /\ IsActive(j) => row.after = AfterAt(j, row.count)
    /\ row.status = "ready" =>
        /\ row.count > 0 /\ Reached(j, row.count - 1)
        /\ IsStored(j, row.count - 1) /\ ~chunk[j][row.count - 1].more

Marked(m) ==
    /\ m \in Messages /\ job[m.job].status # "none"
    /\ Reached(m.job, m.count) /\ m.after = AfterAt(m.job, m.count)

Carried ==
    /\ \A m \in main \cup dlq : Marked(m)
    /\ dead.pc # "idle" => Marked(dead.message)
    /\ starter.pc # "idle" => job[starter.job].status # "none"

InHand(w) ==
    LET m == worker[w].message
        page == worker[w].page
    IN /\ worker[w].pc # "idle" => Marked(m)
       /\ worker[w].pc # "idle" /\ IsActive(m.job) => m.count <= job[m.job].count
       /\ worker[w].pc = "put" => page.stored /\ Fits(m.job, m.count, page)
       /\ worker[w].pc \in {"stored", "sent"} => page.stored /\ page = chunk[m.job][m.count]
       /\ worker[w].pc = "sent" => page.more

\* The continuation of a worker whose advance may yet be written.
Continued(w) ==
    LET m == worker[w].message IN
    worker[w].pc = "sent" /\ IsActive(m.job) /\ AtCursor(m) /\ ~job[m.job].overdue
        /\ m.job \notin stranded => Continuation(w) \in main \cup dlq

Filed == \A f \in 1..Files : file[f] <= faults + 1
Sourced == Unedited \subseteq rows

IInv ==
    /\ TypeOK /\ Filed /\ Sourced
    /\ Paged
    /\ \A j \in Jobs : Kept(j)
    /\ Carried
    /\ \A w \in Workers : InHand(w) /\ Continued(w)
    /\ CursorIsCarried

(***************************************************************************)
(* The operators: constants, least and greatest elements, selections.      *)
(***************************************************************************)

\* A set of naturals that is not empty has a least element.
LEMMA LeastExists ==
    ASSUME NEW n \in Nat, NEW S \in SUBSET (0..n), S # {}
    PROVE  \E x \in S : \A y \in S : x <= y
<1> DEFINE Below(x) == {y \in S : y < x}
           T == {Below(x) : x \in S}
<1>1. IsFiniteSet(S)
  BY FS_BoundedSetOfNaturals
<1>2. \A x \in S : Below(x) \in FiniteSubsetsOf(S)
  BY <1>1, FS_Subset DEF FiniteSubsetsOf
<1>3. T \subseteq FiniteSubsetsOf(S) /\ T # {}
  BY <1>2
<1>4. PICK B \in T : \A C \in T : ~ (<<C, B>> \in StrictSubsetOrdering(S))
  <2> HIDE DEF T
  <2> QED
    BY <1>3, FS_StrictSubsetOrderingWellFounded, WFMin
<1>5. PICK x \in S : B = Below(x)
  BY <1>4
<1>6. SUFFICES ASSUME NEW y \in S, y < x
               PROVE  FALSE
  BY <1>5
<1>7. Below(y) \subseteq Below(x) /\ y \in Below(x) /\ y \notin Below(y)
  <2>1. \A z \in S : z \in Int
    OBVIOUS
  <2>2. \A z \in S : z < y => z < x
    BY <1>6, <2>1
  <2>3. ~ (y < y)
    BY <2>1
  <2>4. Below(y) \subseteq Below(x)
    BY <2>2
  <2> QED
    BY <1>6, <2>3, <2>4
<1>8. <<Below(y), Below(x)>> \in StrictSubsetOrdering(S)
  BY <1>7 DEF StrictSubsetOrdering
<1> QED
  BY <1>4, <1>5, <1>6, <1>8

\* ... and one that is bounded a greatest.
LEMMA GreatestExists ==
    ASSUME NEW n \in Nat, NEW S \in SUBSET (0..n), S # {}
    PROVE  Max(S) \in S /\ \A y \in S : y <= Max(S)
<1> DEFINE T == {n - x : x \in S}
<1>1. T \in SUBSET (0..n) /\ T # {}
  <2>1. \A x \in S : n - x \in 0..n
    OBVIOUS
  <2> QED
    BY <2>1
<1>2. \E t \in T : \A u \in T : t <= u
  <2> HIDE DEF T
  <2> QED
    BY <1>1, LeastExists
<1>3. PICK x \in S : \A y \in S : n - x <= n - y
  BY <1>2
<1>4. \A y \in S : y <= x
  BY <1>3
<1> QED
  BY <1>4 DEF Max

LEMMA Constants ==
    /\ MaxJob \in Nat /\ MaxRow \in Nat /\ CsvRows \in Nat /\ TableRows \in Nat
    /\ FileParts \in Nat /\ MaxChunks \in Nat /\ MaxCopies \in Nat /\ Files \in Nat
    /\ MaxFaults \in Nat
    /\ MaxJob > 0 /\ MaxRow > 0 /\ CsvRows > 0 /\ TableRows > 0 /\ FileParts > 0
  BY BoundAssumption

\* Products with the parts of a file.
LEMMA PartsGrow ==
    ASSUME NEW a \in Nat, NEW b \in Nat, a <= b
    PROVE  /\ a * FileParts \in Nat /\ b * FileParts \in Nat
           /\ a * FileParts <= b * FileParts
           /\ (a + 1) * FileParts = a * FileParts + FileParts
           /\ a <= a * FileParts /\ 0 * FileParts = 0
<1>1. FileParts \in Nat /\ FileParts >= 1
  BY Constants
<1>2. a * FileParts \in Nat /\ b * FileParts \in Nat
  BY <1>1
<1>3. PICK d \in Nat : b = a + d
  <2>1. b - a \in Nat /\ b = a + (b - a)
    OBVIOUS
  <2> QED
    BY <2>1
<1>4. b * FileParts = a * FileParts + d * FileParts /\ d * FileParts \in Nat
  BY <1>1, <1>3
<1>5. PICK e \in Nat : FileParts = 1 + e
  <2>1. FileParts - 1 \in Nat /\ FileParts = 1 + (FileParts - 1)
    BY <1>1
  <2> QED
    BY <2>1
<1>6. a * FileParts = a + a * e /\ a * e \in Nat
  BY <1>5
<1> QED
  BY <1>1, <1>2, <1>4, <1>6

LEMMA PageBounds ==
    /\ MaxPages \in Nat /\ MaxPages > 0 /\ Files * FileParts \in Nat
    /\ MaxPages = MaxRow + Files * FileParts + 1
    /\ MaxRow + Files < MaxPages
  BY Constants, PartsGrow DEF MaxPages

LEMMA RowsAreFinite ==
    /\ IsFiniteSet(Rows)
    /\ \A S \in SUBSET Rows : IsFiniteSet(S) /\ Cardinality(S) \in Nat
<1>1. MaxRow \in Int /\ 1 \in Int
  BY Constants
<1>2. IsFiniteSet(Rows)
  BY <1>1, FS_Interval DEF Rows
<1> QED
  BY <1>2, FS_Subset, FS_CardinalityType

LEMMA RowsAreInts == \A r \in Rows : r \in Int /\ r \in Nat /\ r <= MaxRow
  BY Constants DEF Rows

\* What a selection holds: a beginning of what is ahead, and not nothing.
LEMMA SelectionBegins ==
    ASSUME rows \subseteq Rows, NEW after \in Nat, NEW n \in Nat \ {0}
    PROVE  /\ Ahead(after) \subseteq Rows /\ Selected(after, n) \subseteq Ahead(after)
           /\ \A r \in Selected(after, n), q \in Ahead(after) :
                q <= r => q \in Selected(after, n)
           /\ Ahead(after) # {} => Selected(after, n) # {}
<1> DEFINE UpTo(r) == {q \in Ahead(after) : q <= r}
<1>1. Ahead(after) \subseteq Rows /\ Selected(after, n) \subseteq Ahead(after)
  BY DEF Ahead, Selected
<1>2. \A r \in Ahead(after) : /\ r \in Nat /\ r \in 0..MaxRow
                              /\ IsFiniteSet(UpTo(r)) /\ Cardinality(UpTo(r)) \in Nat
  <2> TAKE r \in Ahead(after)
  <2>1. r \in Rows /\ r \in Nat /\ r <= MaxRow
    BY <1>1, RowsAreInts
  <2>2. UpTo(r) \in SUBSET Rows
    BY <1>1
  <2> QED
    BY <2>1, <2>2, RowsAreFinite, Constants
<1>3. ASSUME NEW r \in Selected(after, n), NEW q \in Ahead(after), q <= r
      PROVE  q \in Selected(after, n)
  <2>1. r \in Ahead(after) /\ Cardinality(UpTo(r)) <= n
    BY DEF Selected
  <2>2. UpTo(q) \in SUBSET UpTo(r)
    <3>1. \A x \in Ahead(after) : x <= q => x <= r
      <4> TAKE x \in Ahead(after)
      <4>1. x \in Nat /\ q \in Nat /\ r \in Nat
        BY <1>2, <2>1
      <4> QED
        BY <4>1, <1>3
    <3> QED
      BY <3>1
  <2>3. Cardinality(UpTo(q)) <= Cardinality(UpTo(r))
    BY <1>2, <2>1, <2>2, FS_Subset
  <2>4. Cardinality(UpTo(q)) <= n
    BY <1>2, <2>1, <2>3
  <2> QED
    BY <2>4 DEF Selected
<1>4. ASSUME Ahead(after) # {}
      PROVE  Selected(after, n) # {}
  <2>1. MaxRow \in Nat /\ Ahead(after) \in SUBSET (0..MaxRow)
    BY <1>2, Constants
  <2>2. PICK x \in Ahead(after) : \A y \in Ahead(after) : x <= y
    BY <1>4, <2>1, LeastExists
  <2>3. UpTo(x) = {x}
    <3>1. \A y \in Ahead(after) : y <= x <=> y = x
      <4> TAKE y \in Ahead(after)
      <4>1. x \in Nat /\ y \in Nat /\ x <= y
        BY <1>2, <2>2
      <4> QED
        BY <4>1
    <3> QED
      BY <3>1
  <2>4. Cardinality(UpTo(x)) = 1
    BY <2>3, FS_Singleton
  <2>5. x \in Selected(after, n)
    BY <2>4 DEF Selected
  <2> QED
    BY <2>5
<1> QED
  BY <1>1, <1>3, <1>4

\* Where a selection that leaves rows behind ends.
LEMMA SelectionEnds ==
    ASSUME rows \subseteq Rows, NEW after \in Nat, NEW n \in Nat \ {0},
           HasMore(after, n)
    PROVE  LET last == Max(Selected(after, n)) IN
           /\ Selected(after, n) # {}
           /\ last \in Nat /\ after < last /\ last < MaxRow
           /\ \A r \in Selected(after, n) : r <= last
           /\ \A r \in rows : after < r /\ r <= last => r \in Selected(after, n)
<1>1. /\ Ahead(after) \subseteq Rows /\ Selected(after, n) \subseteq Ahead(after)
      /\ Selected(after, n) # Ahead(after)
      /\ \A r \in Selected(after, n), q \in Ahead(after) :
            q <= r => q \in Selected(after, n)
  BY SelectionBegins DEF HasMore
<1>2. PICK r \in Ahead(after) : r \notin Selected(after, n)
  BY <1>1
<1>3. Selected(after, n) # {}
  BY <1>2, SelectionBegins
<1>4. \A x \in Ahead(after) : x \in Nat /\ x <= MaxRow /\ after < x
  BY <1>1, RowsAreInts DEF Ahead
<1>5. MaxRow \in Nat /\ Selected(after, n) \in SUBSET (0..MaxRow)
  BY <1>1, <1>4, Constants
<1>6. /\ Max(Selected(after, n)) \in Selected(after, n)
      /\ \A y \in Selected(after, n) : y <= Max(Selected(after, n))
  BY <1>3, <1>5, GreatestExists
<1>7. ~ (r <= Max(Selected(after, n)))
  BY <1>1, <1>2, <1>6
<1>8. Max(Selected(after, n)) < MaxRow
  BY <1>1, <1>2, <1>4, <1>5, <1>6, <1>7
<1>9. \A x \in rows : after < x /\ x <= Max(Selected(after, n)) => x \in Selected(after, n)
  BY <1>1, <1>6 DEF Ahead
<1> QED
  BY <1>1, <1>3, <1>4, <1>6, <1>8, <1>9

(***************************************************************************)
(* The pages: what a read page holds fits its place.                       *)
(***************************************************************************)

LEMMA PlaceFields ==
    ASSUME NEW p \in Place
    PROVE  /\ p.table \in 0..2 /\ p.after \in 0..(MaxRow + Files)
           /\ p.part \in 0..FileParts /\ p.etag \in 0..(MaxFaults + 1)
           /\ p.after \in Nat /\ p.part \in Nat /\ p.etag \in Nat /\ p.table \in Nat
<1>1. p.table \in 0..2 /\ p.after \in 0..(MaxRow + Files)
      /\ p.part \in 0..FileParts /\ p.etag \in 0..(MaxFaults + 1)
  BY DEF Place
<1> QED
  BY <1>1, Constants

LEMMA OriginIsPlace ==
    /\ Origin \in Place /\ Origin.table = 0 /\ Origin.after = 0 /\ Origin.part = 0
    /\ Origin.etag = 0
  BY Constants DEF Origin, Place

LEMMA PageFields ==
    ASSUME NEW page \in Page
    PROVE  /\ page.stored = TRUE /\ page.from \in 0..MaxPages /\ page.rows \subseteq Rows
           /\ page.next \in Place /\ page.more \in BOOLEAN
           /\ page.copy \in {{}} \cup {{c} : c \in FileCopies}
           /\ page # NoPage
<1>1. /\ page.stored = TRUE /\ page.from \in 0..MaxPages /\ page.rows \subseteq Rows
      /\ page.next \in Place /\ page.more \in BOOLEAN
      /\ page.copy \in {{}} \cup {{c} : c \in FileCopies}
  BY DEF Page
<1>2. NoPage.stored = FALSE
  BY DEF NoPage
<1> QED
  BY <1>1, <1>2

LEMMA ChunkTypes ==
    ASSUME TypeOK, NEW j \in Jobs, NEW n \in 0..MaxPages
    PROVE  /\ chunk[j][n] \in {NoPage} \cup Page
           /\ chunk[j][n].stored \in BOOLEAN
           /\ chunk[j][n].stored => chunk[j][n] \in Page
<1>1. chunk[j][n] \in {NoPage} \cup Page
  <2>1. chunk \in [Jobs -> [0..MaxPages -> {NoPage} \cup Page]]
    BY DEF TypeOK
  <2>2. chunk[j] \in [0..MaxPages -> {NoPage} \cup Page]
    BY <2>1
  <2> QED
    BY <2>2
<1>2. NoPage.stored = FALSE
  BY DEF NoPage
<1> QED
  BY <1>1, <1>2, PageFields

LEMMA PlaceTypes ==
    ASSUME TypeOK, NEW j \in Jobs, NEW n \in 0..MaxPages, Reached(j, n)
    PROVE  PlaceOf(j, n) \in Place
<1>1. CASE n = 0
  BY <1>1, OriginIsPlace DEF PlaceOf
<1>2. CASE n # 0
  <2>1. n - 1 \in 0..MaxPages /\ n - 1 \in 0..(n - 1)
    BY <1>2, PageBounds
  <2>2. chunk[j][n - 1].stored
    BY <2>1 DEF Reached
  <2>3. chunk[j][n - 1].next \in Place
    BY <2>1, <2>2, ChunkTypes, PageFields
  <2> QED
    BY <1>2, <2>3 DEF PlaceOf
<1> QED
  BY <1>1, <1>2

\* The page with its own number fits as well.
LEMMA NumberedFits ==
    ASSUME NEW page \in Page, NEW i \in 0..MaxPages, NEW p \in Place
    PROVE  LET numbered == [page EXCEPT !.from = i] IN
           /\ numbered \in Page /\ numbered.from = i
           /\ numbered.stored = page.stored /\ numbered.rows = page.rows
           /\ numbered.next = page.next /\ numbered.more = page.more
           /\ numbered.copy = page.copy
           /\ RowsFit(p, page) => RowsFit(p, numbered)
           /\ CopiesFit(p, page) => CopiesFit(p, numbered)
<1> DEFINE numbered == [page EXCEPT !.from = i]
<1>1. /\ numbered \in Page /\ numbered.from = i
      /\ numbered.stored = page.stored /\ numbered.rows = page.rows
      /\ numbered.next = page.next /\ numbered.more = page.more
      /\ numbered.copy = page.copy
  BY DEF Page
<1> HIDE DEF numbered
<1>2. RowsFit(p, page) => RowsFit(p, numbered)
  BY <1>1 DEF RowsFit, GoesOn
<1>3. CopiesFit(p, page) => CopiesFit(p, numbered)
  BY <1>1 DEF CopiesFit, NoCopy, OneCopy
<1> QED
  BY <1>1, <1>2, <1>3 DEF numbered

\* A page of rows that leaves rows behind, or none.
LEMMA SelectionFits ==
    ASSUME rows \subseteq Rows, Sourced, NEW p \in Place, p.table = 0,
           NEW n \in Nat \ {0}, NEW page \in Page, page.rows = Selected(p.after, n),
           GoesOn(page) <=> HasMore(p.after, n),
           GoesOn(page) => page.next.after = Max(Selected(p.after, n))
    PROVE  RowsFit(p, page)
<1>1. p.after \in Nat
  BY PlaceFields
<1>2. /\ Ahead(p.after) \subseteq rows /\ page.rows \subseteq Ahead(p.after)
      /\ \A r \in rows : p.after < r => r \in Ahead(p.after)
      /\ \A r \in Ahead(p.after) : p.after < r
  <2>1. \A r \in rows : r \in Int
    BY RowsAreInts
  <2>2. \A r \in rows : r > p.after <=> p.after < r
    BY <1>1, <2>1
  <2> QED
    BY <1>1, <2>2, SelectionBegins DEF Ahead
<1>3. \A r \in page.rows : p.table = 0 /\ p.after < r
  <2> TAKE r \in page.rows
  <2>1. r \in Ahead(p.after)
    BY <1>2
  <2>2. p.after < r
    BY <1>2, <2>1
  <2>3. p.table = 0
    OBVIOUS
  <2> QED
    BY <2>2, <2>3
<1>4. CASE HasMore(p.after, n)
  <2> DEFINE last == Max(Selected(p.after, n))
  <2>1. /\ last \in Nat /\ p.after < last /\ last < MaxRow
        /\ \A r \in Selected(p.after, n) : r <= last
        /\ \A r \in rows : p.after < r /\ r <= last => r \in Selected(p.after, n)
    BY <1>1, <1>4, SelectionEnds
  <2>2. GoesOn(page) /\ page.next.after = last
    BY <1>4
  <2> HIDE DEF last
  <2>3. \A r \in Unedited : p.after < r /\ r <= last => r \in page.rows
    BY <2>1 DEF Sourced
  <2> QED
    BY <1>3, <2>1, <2>2, <2>3 DEF RowsFit
<1>5. CASE ~HasMore(p.after, n)
  <2>1. page.rows = Ahead(p.after)
    BY <1>5 DEF HasMore
  <2>2. \A r \in Unedited : p.after < r => r \in page.rows
    BY <1>2, <2>1 DEF Sourced
  <2> QED
    BY <1>3, <1>5, <2>2 DEF RowsFit
<1> QED
  BY <1>4, <1>5

LEMMA CsvPageFits ==
    ASSUME rows \subseteq Rows, Sourced, NEW p \in Place, p.table = 0, p.part = 0,
           p.after \in 0..MaxRow
    PROVE  LET page == CsvPage(p.after) IN
           /\ page \in Page /\ page.stored = TRUE /\ page.from = p.after
           /\ page.next.table = 0
           /\ RowsFit(p, page) /\ CopiesFit(p, page)
<1> DEFINE S == Selected(p.after, CsvRows)
           page == CsvPage(p.after)
<1>1. p.after \in Nat /\ CsvRows \in Nat \ {0} /\ MaxRow \in Nat /\ Files \in Nat
  BY Constants
<1>2. S \subseteq Rows
  BY <1>1, SelectionBegins
<1>3. S # {} => Max(S) \in 0..MaxRow
  <2>1. S \in SUBSET (0..MaxRow)
    BY <1>2, <1>1 DEF Rows
  <2> HIDE DEF S
  <2> QED
    BY <2>1, <1>1, GreatestExists
<1>4. LastOf(S, p.after) \in 0..(MaxRow + Files)
  <2> HIDE DEF S
  <2> QED
    BY <1>1, <1>3 DEF LastOf
<1>5. HasMore(p.after, CsvRows) => S # {}
  BY <1>1, SelectionEnds
<1>6. HasMore(p.after, CsvRows) \in BOOLEAN
  BY DEF HasMore
<1>7. [Origin EXCEPT !.after = LastOf(S, p.after)] \in Place
      /\ [Origin EXCEPT !.after = LastOf(S, p.after)].table = 0
      /\ [Origin EXCEPT !.after = LastOf(S, p.after)].part = 0
      /\ [Origin EXCEPT !.after = LastOf(S, p.after)].after = LastOf(S, p.after)
  <2> HIDE DEF S
  <2> QED
    BY <1>4, Constants DEF Origin, Place
<1>8. p.after \in 0..MaxPages
  BY <1>1, PageBounds
<1>9. /\ page.stored = TRUE /\ page.from = p.after /\ page.rows = S /\ page.copy = {}
      /\ page.next = [Origin EXCEPT !.after = LastOf(S, p.after)]
      /\ page.more = HasMore(p.after, CsvRows)
  BY DEF CsvPage
<1>10. page \in Page
  <2> DEFINE next == [Origin EXCEPT !.after = LastOf(S, p.after)]
             more == HasMore(p.after, CsvRows)
  <2>1. next \in Place /\ more \in BOOLEAN
    BY <1>6, <1>7
  <2>2. page = [stored |-> TRUE, from |-> p.after, rows |-> S, copy |-> {},
                next |-> next, more |-> more]
    BY DEF CsvPage
  <2> HIDE DEF S, next, more, page
  <2> QED
    BY <1>2, <1>8, <2>1, <2>2 DEF Page
<1>11. GoesOn(page) <=> HasMore(p.after, CsvRows)
  BY <1>7, <1>9 DEF GoesOn
<1>12. GoesOn(page) => page.next.after = Max(S)
  BY <1>5, <1>7, <1>9, <1>11 DEF LastOf
<1>13. RowsFit(p, page)
  <2> HIDE DEF page
  <2> QED
    BY <1>1, <1>9, <1>10, <1>11, <1>12, SelectionFits
<1>14. CopiesFit(p, page)
  <2>1. page.next.part = 0 /\ page.next.table = 0 /\ page.copy = {}
    BY <1>7, <1>9
  <2> HIDE DEF page
  <2> QED
    BY <2>1 DEF CopiesFit
<1> QED
  BY <1>7, <1>9, <1>10, <1>13, <1>14

LEMMA TablePageFits ==
    ASSUME rows \subseteq Rows, Sourced, NEW p \in Place, p.table = 0, p.part = 0,
           p.after \in 0..MaxRow
    PROVE  LET page == TablePage(p) IN
           /\ page \in Page /\ page.stored = TRUE /\ page.more = TRUE
           /\ RowsFit(p, page) /\ CopiesFit(p, page)
<1> DEFINE S == Selected(p.after, TableRows)
           more == HasMore(p.after, TableRows)
           next == IF more THEN [p EXCEPT !.after = Max(S)] ELSE [Origin EXCEPT !.table = 1]
           page == TablePage(p)
<1>1. p.after \in Nat /\ TableRows \in Nat \ {0} /\ MaxRow \in Nat /\ Files \in Nat
  BY Constants
<1>2. S \subseteq Rows
  BY <1>1, SelectionBegins
<1>3. more => S # {} /\ Max(S) \in 0..(MaxRow + Files)
  BY <1>1, SelectionEnds
<1>4. more => /\ next \in Place /\ next.table = 0 /\ next.after = Max(S) /\ next.part = 0
  <2> SUFFICES ASSUME more PROVE [p EXCEPT !.after = Max(S)] \in Place
                  /\ [p EXCEPT !.after = Max(S)].table = 0
                  /\ [p EXCEPT !.after = Max(S)].after = Max(S)
                  /\ [p EXCEPT !.after = Max(S)].part = 0
    OBVIOUS
  <2> DEFINE k == Max(S)
  <2>1. k \in 0..(MaxRow + Files)
    BY <1>3
  <2> HIDE DEF k, S
  <2>2. [p EXCEPT !.after = k] \in Place /\ [p EXCEPT !.after = k].table = 0
        /\ [p EXCEPT !.after = k].after = k /\ [p EXCEPT !.after = k].part = 0
    BY <2>1 DEF Place
  <2> QED
    BY <2>2 DEF k, S
<1>5. ~more => /\ next \in Place /\ next.table = 1 /\ next.after = 0 /\ next.part = 0
  <2>1. [Origin EXCEPT !.table = 1] \in Place /\ [Origin EXCEPT !.table = 1].table = 1
        /\ [Origin EXCEPT !.table = 1].after = 0 /\ [Origin EXCEPT !.table = 1].part = 0
    BY Constants DEF Origin, Place
  <2> QED
    BY <2>1
<1>6. /\ page.stored = TRUE /\ page.from = 0 /\ page.rows = S /\ page.copy = {}
      /\ page.next = next /\ page.more = TRUE
      /\ page = [stored |-> TRUE, from |-> 0, rows |-> S, copy |-> {},
                 next |-> next, more |-> TRUE]
  BY DEF TablePage
<1> HIDE DEF S, more, next, page
<1>7. page \in Page
  BY <1>2, <1>4, <1>5, <1>6, PageBounds DEF Page
<1>8. GoesOn(page) <=> more
  BY <1>4, <1>5, <1>6 DEF GoesOn
<1>9. RowsFit(p, page)
  BY <1>1, <1>4, <1>6, <1>7, <1>8, SelectionFits DEF S, more
<1>10. CopiesFit(p, page)
  BY <1>4, <1>5, <1>6 DEF CopiesFit
<1> QED
  BY <1>6, <1>7, <1>9, <1>10 DEF page

LEMMA EvidencePageFits ==
    ASSUME file \in [1..Files -> 0..(MaxFaults + 1)], NEW p \in Place, p.table = 1,
           p.after <= Files, p.part < FileParts, p.after = Files => p.part = 0,
           p.part > 0 => p.etag > 0, ~EvidenceChanged(p)
    PROVE  LET page == EvidencePage(p) IN
           /\ page \in Page /\ page.stored = TRUE
           /\ RowsFit(p, page) /\ CopiesFit(p, page)
<1> DEFINE page == EvidencePage(p)
           f == p.after + 1
<1>1. /\ p.after \in Nat /\ p.part \in Nat /\ p.etag \in 0..(MaxFaults + 1)
      /\ MaxRow \in Nat /\ Files \in Nat /\ FileParts \in Nat /\ MaxFaults \in Nat
  BY PlaceFields, Constants
<1>2. \A q \in Page : q.next.table # 0 /\ q.rows = {} => RowsFit(p, q)
  BY DEF RowsFit, GoesOn
<1>3. CASE p.after = Files
  <2>1. page = EvidenceEnd
    BY <1>3 DEF EvidencePage
  <2> DEFINE next == [Origin EXCEPT !.table = 2]
  <2>2. next \in Place /\ next.table = 2
    <3>1. next = [table |-> 2, after |-> 0, part |-> 0, etag |-> 0]
      BY DEF Origin
    <3> HIDE DEF next
    <3> QED
      BY <1>1, <3>1 DEF Place
  <2>3. /\ page = [stored |-> TRUE, from |-> 0, rows |-> {}, copy |-> {}, more |-> FALSE,
                   next |-> next]
        /\ page.stored = TRUE /\ page.rows = {} /\ page.copy = {} /\ page.more = FALSE
        /\ page.next = next
    BY <2>1 DEF EvidenceEnd
  <2> HIDE DEF next, page
  <2>4. page \in Page
    BY <2>2, <2>3, PageBounds DEF Page
  <2>5. CopiesFit(p, page)
    BY <1>3, <2>3 DEF CopiesFit
  <2> QED
    BY <1>2, <2>2, <2>3, <2>4, <2>5 DEF page
<1>4. CASE p.after # Files
  <2>0. f \in 1..Files /\ f \in Nat
    BY <1>1, <1>4
  <2>1. CASE file[f] = 0
    <3>1. page = EvidenceGone(p)
      BY <1>4, <2>1 DEF EvidencePage
    <3>2. p.part = 0
      <4>1. p.part > 0 => p.etag = file[f]
        BY DEF EvidenceChanged
      <4> QED
        BY <1>1, <2>1, <4>1
    <3> DEFINE next == [p EXCEPT !.after = @ + 1]
    <3>3. next \in Place /\ next.table = 1 /\ next.after = p.after + 1 /\ next.part = p.part
      BY <1>1, <1>4 DEF Place
    <3>4. /\ page = [stored |-> TRUE, from |-> 0, rows |-> {}, copy |-> {}, more |-> TRUE,
                     next |-> next]
          /\ page.stored = TRUE /\ page.rows = {} /\ page.copy = {} /\ page.more = TRUE
          /\ page.next = next
      BY <3>1 DEF EvidenceGone
    <3> HIDE DEF next, page
    <3>5. page \in Page
      BY <3>3, <3>4, PageBounds DEF Page
    <3>6. CopiesFit(p, page)
      BY <1>4, <3>2, <3>3, <3>4 DEF CopiesFit, NoCopy
    <3> QED
      BY <1>2, <3>3, <3>4, <3>5, <3>6 DEF page
  <2>2. CASE file[f] # 0
    <3>1. page = EvidencePart(p)
      BY <1>4, <2>2 DEF EvidencePage
    <3> DEFINE e == file[f]
               copy == {[file |-> f, part |-> p.part, etag |-> e]}
               next == IF p.part + 1 < FileParts
                       THEN [p EXCEPT !.part = @ + 1, !.etag = e]
                       ELSE [Origin EXCEPT !.table = 1, !.after = f]
    <3>2. e \in 0..(MaxFaults + 1) /\ e \in 1..(MaxFaults + 1)
      <4>1. e \in 0..(MaxFaults + 1) /\ e # 0
        BY <2>0, <2>2
      <4> QED
        BY <1>1, <4>1
    <3>3. p.part > 0 => e = p.etag
      BY DEF EvidenceChanged
    <3>4. copy \in {{c} : c \in FileCopies}
      <4>1. [file |-> f, part |-> p.part, etag |-> e] \in FileCopies
        <5> HIDE DEF e, f
        <5>1. p.part \in 0..(FileParts - 1)
          BY <1>1
        <5> QED
          BY <2>0, <3>2, <5>1 DEF FileCopies
      <4> QED
        BY <4>1
    <3>5. CASE p.part + 1 < FileParts
      <4>1. next = [p EXCEPT !.part = p.part + 1, !.etag = e]
        BY <3>5
      <4> HIDE DEF next, e
      <4> QED
        <5>1. /\ next \in Place /\ next.table = 1 /\ next.after = p.after
              /\ next.part = p.part + 1 /\ next.etag = e
          <6>1. next = [table |-> p.table, after |-> p.after, part |-> p.part + 1, etag |-> e]
            BY <4>1 DEF Place
          <6>2. p.part + 1 \in 0..FileParts /\ p.after \in 0..(MaxRow + Files)
            BY <1>1, <3>5
          <6> QED
            BY <1>1, <3>2, <6>1, <6>2 DEF Place
        <5>2. /\ page = [stored |-> TRUE, from |-> 0, rows |-> {}, copy |-> copy,
                         more |-> TRUE, next |-> next]
              /\ page.stored = TRUE /\ page.rows = {} /\ page.copy = copy
              /\ page.more = TRUE /\ page.next = next
          BY <3>1 DEF EvidencePart, next, e
        <5>3. page \in Page
          <6> HIDE DEF copy, page
          <6> QED
            BY <5>1, <5>2, <3>4, PageBounds DEF Page
        <5> HIDE DEF page
        <5>4. OneCopy(p, page)
          BY <3>2, <3>3, <3>5, <5>1, <5>2 DEF OneCopy, copy
        <5>5. CopiesFit(p, page)
          BY <1>4, <5>1, <5>2, <5>4 DEF CopiesFit
        <5> QED
          BY <1>2, <5>1, <5>2, <5>3, <5>5 DEF page
    <3>6. CASE ~ (p.part + 1 < FileParts)
      <4>1. next = [Origin EXCEPT !.table = 1, !.after = f]
        BY <3>6
      <4>2. /\ next \in Place /\ next.table = 1 /\ next.after = p.after + 1
            /\ next.part = 0
        <5>1. next = [table |-> 1, after |-> f, part |-> 0, etag |-> 0]
          BY <4>1 DEF Origin
        <5>2. f \in 0..(MaxRow + Files) /\ 0 \in 0..FileParts /\ 0 \in 0..(MaxFaults + 1)
          BY <1>1, <2>0
        <5> HIDE DEF next
        <5> QED
          BY <5>1, <5>2 DEF Place
      <4>3. /\ page = [stored |-> TRUE, from |-> 0, rows |-> {}, copy |-> copy,
                       more |-> TRUE, next |-> next]
            /\ page.stored = TRUE /\ page.rows = {} /\ page.copy = copy
            /\ page.more = TRUE /\ page.next = next
        BY <3>1 DEF EvidencePart, next, e
      <4> HIDE DEF next, e
      <4>4. page \in Page
        <5> HIDE DEF copy, page
        <5> QED
          BY <4>2, <4>3, <3>4, PageBounds DEF Page
      <4> HIDE DEF page
      <4>5. OneCopy(p, page)
        BY <3>2, <3>3, <3>6, <4>2, <4>3 DEF OneCopy, copy
      <4>6. CopiesFit(p, page)
        BY <1>4, <4>2, <4>3, <4>5 DEF CopiesFit
      <4> QED
        BY <1>2, <4>2, <4>3, <4>4, <4>6 DEF page
    <3> QED
      BY <3>5, <3>6
  <2> QED
    BY <2>1, <2>2
<1> QED
  BY <1>3, <1>4

\* The cursor of csv is in the table of rows.
LEMMA CsvStaysInTable ==
    ASSUME Paged, NEW j \in Jobs, NEW n \in 0..MaxPages, Reached(j, n),
           job[j].format = "csv"
    PROVE  PlaceOf(j, n).table = 0
<1>1. CASE n = 0
  BY <1>1, OriginIsPlace DEF PlaceOf
<1>2. CASE n # 0
  <2>1. n - 1 \in 0..MaxPages /\ n - 1 \in 0..(n - 1)
    BY <1>2, PageBounds
  <2>2. chunk[j][n - 1].stored /\ Chain(j, n - 1)
    BY <2>1 DEF Reached, Paged, PagesOk
  <2>3. Fits(j, n - 1, chunk[j][n - 1])
    BY <2>2 DEF Chain, IsStored
  <2>4. chunk[j][n - 1].next.table = 0
    BY <2>3 DEF Fits
  <2> QED
    BY <1>2, <2>4 DEF PlaceOf
<1> QED
  BY <1>1, <1>2

\* Every place has room for its page, and the next place for a message.
LEMMA RoomForPage ==
    ASSUME TypeOK, Paged, NEW j \in Jobs, NEW n \in 0..MaxPages, Reached(j, n)
    PROVE  /\ n < MaxPages /\ n + 1 \in 0..MaxPages /\ n \in Nat
           /\ PlaceOf(j, n) \in Place
           /\ PlaceOf(j, n).table \in {0, 1}
           /\ PlaceOf(j, n).table = 0 => PlaceOf(j, n).part = 0 /\ PlaceOf(j, n).after \in 0..MaxRow
           /\ PlaceOf(j, n).table = 1 =>
                /\ PlaceOf(j, n).after <= Files /\ PlaceOf(j, n).part < FileParts
                /\ PlaceOf(j, n).after = Files => PlaceOf(j, n).part = 0
                /\ PlaceOf(j, n).part > 0 => PlaceOf(j, n).etag > 0
<1> DEFINE p == PlaceOf(j, n)
<1>1. p \in Place
  BY PlaceTypes
<1>2. p.after \in Nat /\ p.part \in Nat /\ MaxRow \in Nat /\ Files \in Nat
      /\ FileParts \in Nat /\ MaxPages \in Nat /\ MaxPages = MaxRow + Files * FileParts + 1
      /\ Files * FileParts \in Nat /\ n \in Nat
  BY <1>1, PlaceFields, Constants, PageBounds
<1>3. Behind(j, n)
  BY DEF Paged, PagesOk
<1>4. \/ p.table = 0 /\ p.part = 0 /\ n <= p.after /\ p.after <= MaxRow /\ n < MaxRow
      \/ /\ p.table = 1 /\ p.after <= Files /\ p.part < FileParts
         /\ p.after = Files => p.part = 0
         /\ p.part > 0 => p.etag > 0
         /\ n <= MaxRow + p.after * FileParts + p.part
  BY <1>3 DEF Behind, Room
<1> HIDE DEF p
<1>5. n < MaxPages
  <2>1. CASE p.table = 0
    BY <1>2, <1>4, <2>1
  <2>2. CASE p.table # 0 /\ p.after = Files
    BY <1>2, <1>4, <2>2
  <2>3. CASE p.table # 0 /\ p.after # Files
    <3>1. p.after + 1 <= Files /\ p.after + 1 \in Nat
      BY <1>2, <1>4, <2>3
    <3>2. (p.after + 1) * FileParts <= Files * FileParts
      BY <1>2, <3>1, PartsGrow
    <3>3. (p.after + 1) * FileParts = p.after * FileParts + FileParts /\ p.after * FileParts \in Nat
      BY <1>2, <1>4, <2>3, PartsGrow
    <3> QED
      BY <1>2, <1>4, <2>3, <3>2, <3>3
  <2> QED
    BY <2>1, <2>2, <2>3
<1> QED
  BY <1>1, <1>2, <1>4, <1>5 DEF p

LEMMA AfterTypes ==
    ASSUME TypeOK, NEW j \in Jobs, NEW n \in 0..MaxPages, Reached(j, n)
    PROVE  AfterAt(j, n) \in 0..MaxPages
<1>1. PlaceOf(j, n) \in Place
  BY PlaceTypes
<1>2. PlaceOf(j, n).after \in 0..(MaxRow + Files)
  BY <1>1, PlaceFields
<1> QED
  BY <1>2, PageBounds, Constants DEF AfterAt

\* What a delivery reads fits the place of its message.
LEMMA PageReadFits ==
    ASSUME TypeOK, Sourced, Paged, NEW m \in Messages, Marked(m), ~Unreadable(m)
    PROVE  PageFor(m).stored = TRUE /\ Fits(m.job, m.count, PageFor(m))
<1> DEFINE j == m.job
           n == m.count
           p == PlaceOf(j, n)
<1>1. /\ j \in Jobs /\ n \in 0..MaxPages /\ Reached(j, n) /\ m.after = AfterAt(j, n)
      /\ rows \subseteq Rows /\ file \in [1..Files -> 0..(MaxFaults + 1)]
      /\ job[j].format \in {"csv", "complete"}
  BY DEF Messages, Marked, TypeOK, JobRow
<1>2. /\ p \in Place /\ p.table \in {0, 1}
      /\ p.table = 0 => p.part = 0 /\ p.after \in 0..MaxRow
      /\ p.table = 1 => /\ p.after <= Files /\ p.part < FileParts
                        /\ p.after = Files => p.part = 0
                        /\ p.part > 0 => p.etag > 0
  BY <1>1, RoomForPage
<1>3. CASE job[j].format = "csv"
  <2>1. p.table = 0
    BY <1>1, <1>3, CsvStaysInTable
  <2>2. m.after = p.after
    BY <1>1, <1>3 DEF AfterAt
  <2> DEFINE page == CsvPage(p.after)
  <2>3. PageFor(m) = page
    BY <1>3, <2>2 DEF PageFor
  <2> HIDE DEF p
  <2>4. /\ page \in Page /\ page.stored = TRUE /\ page.from = p.after
        /\ page.next.table = 0
        /\ RowsFit(p, page) /\ CopiesFit(p, page)
    BY <1>1, <1>2, <2>1, CsvPageFits
  <2> HIDE DEF page
  <2>5. page.from = AfterAt(j, n)
    BY <1>3, <2>4 DEF AfterAt, p
  <2>6. job[j].format # "complete"
    BY <1>3
  <2>7. Fits(j, n, page)
    BY <2>4, <2>5, <2>6 DEF Fits, p
  <2> QED
    BY <2>3, <2>4, <2>7
<1>4. CASE job[j].format = "complete"
  <2> DEFINE page == IF p.table = 0 THEN TablePage(p) ELSE EvidencePage(p)
             numbered == [page EXCEPT !.from = n]
  <2>1. PageFor(m) = numbered
    BY <1>4 DEF PageFor, CompletePage
  <2>2. ~EvidenceChanged(p)
    BY <1>4 DEF Unreadable
  <2> HIDE DEF p
  <2>3. /\ page \in Page /\ page.stored = TRUE /\ RowsFit(p, page) /\ CopiesFit(p, page)
        /\ p.table = 0 => page.more
    <3>1. CASE p.table = 0
      <4>1. page = TablePage(p)
        BY <3>1
      <4> QED
        BY <1>1, <1>2, <3>1, <4>1, TablePageFits
    <3>2. CASE p.table # 0
      <4>1. page = EvidencePage(p) /\ p.table = 1
        BY <1>2, <3>2
      <4>2. /\ p.after <= Files /\ p.part < FileParts
            /\ p.after = Files => p.part = 0
            /\ p.part > 0 => p.etag > 0
        BY <1>2, <4>1
      <4>3. page \in Page /\ page.stored = TRUE /\ RowsFit(p, page) /\ CopiesFit(p, page)
        BY <1>1, <1>2, <2>2, <4>1, <4>2, EvidencePageFits
      <4> QED
        BY <3>2, <4>3
    <3> QED
      BY <3>1, <3>2
  <2> HIDE DEF page
  <2>4. /\ numbered \in Page /\ numbered.from = n /\ numbered.stored = page.stored
        /\ numbered.more = page.more
        /\ RowsFit(p, numbered) /\ CopiesFit(p, numbered)
    BY <1>1, <1>2, <2>3, NumberedFits
  <2> HIDE DEF numbered
  <2>5. numbered.from = AfterAt(j, n) /\ job[j].format # "csv"
    BY <1>4, <2>4 DEF AfterAt
  <2>6. Fits(j, n, numbered)
    BY <2>3, <2>4, <2>5 DEF Fits, p
  <2> QED
    BY <2>1, <2>3, <2>4, <2>6
<1> QED
  BY <1>1, <1>3, <1>4

(***************************************************************************)
(* A page more: what is behind the next place.                             *)
(***************************************************************************)

LEMMA RoomGoesOn ==
    ASSUME NEW p \in Place, NEW n \in Nat, NEW page \in Page, Room(p, n),
           RowsFit(p, page), CopiesFit(p, page), page.more
    PROVE  Room(page.next, n + 1)
<1> DEFINE q == page.next
<1>1. q \in Place
  BY PageFields
<1>2. /\ p.after \in Nat /\ p.part \in Nat /\ p.etag \in Nat
      /\ q.after \in Nat /\ q.part \in Nat /\ q.etag \in Nat
      /\ MaxRow \in Nat /\ Files \in Nat /\ FileParts \in Nat /\ FileParts > 0 /\ MaxRow > 0
  BY <1>1, PlaceFields, Constants
<1> HIDE DEF q
<1>3. CASE p.table = 0
  <2>1. n <= p.after /\ p.after <= MaxRow /\ n < MaxRow
    BY <1>3 DEF Room
  <2>2. q.part = 0 /\ q.table \in {0, 1} /\ (q.table = 1 => q.after = 0)
    BY <1>3 DEF CopiesFit, q
  <2>3. CASE q.table = 0
    <3>1. p.after < q.after /\ q.after < MaxRow
      BY <2>3 DEF RowsFit, GoesOn, q
    <3>2. n + 1 <= q.after /\ q.after <= MaxRow /\ n + 1 < MaxRow
      BY <1>2, <2>1, <3>1
    <3> QED
      BY <2>2, <2>3, <3>2 DEF Room, q
  <2>4. CASE q.table = 1
    <3>1. 0 * FileParts = 0 /\ q.after = 0
      BY <1>2, <2>2, <2>4
    <3>2. n + 1 <= MaxRow + q.after * FileParts + q.part
      BY <1>2, <2>1, <2>2, <3>1
    <3>3. q.after <= Files /\ q.part < FileParts /\ ~ (q.part > 0)
      BY <1>2, <2>2, <3>1
    <3> QED
      BY <2>2, <2>4, <3>2, <3>3 DEF Room, q
  <2> QED
    BY <2>2, <2>3, <2>4
<1>4. CASE p.table # 0
  <2>1. /\ p.table = 1 /\ p.after <= Files /\ p.part < FileParts
        /\ n <= MaxRow + p.after * FileParts + p.part
    BY <1>4 DEF Room
  <2>2. p.after # Files /\ q.table = 1 /\ (NoCopy(p, page) \/ OneCopy(p, page))
    BY <2>1 DEF CopiesFit, q
  <2>3. p.after + 1 <= Files /\ p.after + 1 \in Nat
    BY <1>2, <2>1, <2>2
  <2>4. /\ (p.after + 1) * FileParts = p.after * FileParts + FileParts
        /\ p.after * FileParts \in Nat /\ (p.after + 1) * FileParts \in Nat
    <3>1. p.after <= p.after + 1
      BY <1>2
    <3> QED
      BY <1>2, <2>3, <3>1, PartsGrow
  <2>5. CASE q.after = p.after + 1 /\ q.part = 0
    <3>1. n + 1 <= MaxRow + (p.after + 1) * FileParts
      BY <1>2, <2>1, <2>4
    <3>2. n + 1 <= MaxRow + q.after * FileParts + q.part
      BY <1>2, <2>4, <2>5, <3>1
    <3>3. q.after <= Files /\ q.part < FileParts /\ ~ (q.part > 0)
      BY <1>2, <2>3, <2>5
    <3> QED
      BY <2>2, <2>5, <3>2, <3>3 DEF Room, q
  <2>6. CASE ~ (q.after = p.after + 1 /\ q.part = 0)
    <3>1. PICK e \in 1..(MaxFaults + 1) :
            /\ p.part + 1 < FileParts
            /\ q.after = p.after /\ q.part = p.part + 1 /\ q.etag = e
      BY <2>2, <2>6 DEF NoCopy, OneCopy, q
    <3>2. n + 1 <= MaxRow + q.after * FileParts + q.part
      BY <1>2, <2>1, <2>4, <3>1
    <3>3. q.after <= Files /\ q.part < FileParts /\ q.etag > 0 /\ q.after # Files
      BY <1>2, <2>1, <2>2, <3>1
    <3> QED
      BY <2>2, <3>2, <3>3 DEF Room, q
  <2> QED
    BY <2>5, <2>6
<1> QED
  BY <1>3, <1>4

LEMMA RowsGoOn ==
    ASSUME NEW p \in Place, NEW R \in SUBSET Rows, NEW page \in Page, RowsDone(p, R),
           RowsFit(p, page), page.more
    PROVE  RowsDone(page.next, R \cup page.rows)
<1> DEFINE q == page.next
<1>1. p.after \in Nat /\ q.after \in Nat /\ page.rows \subseteq Rows
  BY PageFields, PlaceFields
<1>2. CASE q.table = 0
  <2>1. /\ p.table = 0 /\ p.after < q.after
        /\ \A r \in page.rows : r <= q.after
    BY <1>2 DEF RowsFit, GoesOn
  <2>2. ASSUME NEW r \in R \cup page.rows
        PROVE  r <= q.after
    <3>1. r \in Nat
      BY <1>1, RowsAreInts
    <3>2. r \in R => r <= p.after
      BY <2>1 DEF RowsDone
    <3> QED
      BY <1>1, <2>1, <3>1, <3>2
  <2>3. ASSUME NEW r \in Unedited, r <= q.after
        PROVE  r \in R \cup page.rows
    <3>1. r \in Nat
      BY RowsAreInts DEF Unedited
    <3>2. CASE r <= p.after
      BY <2>1, <3>2 DEF RowsDone
    <3>3. CASE p.after < r
      BY <2>1, <2>3, <3>3 DEF RowsFit
    <3> QED
      BY <1>1, <3>1, <3>2, <3>3
  <2> QED
    BY <1>2, <2>2, <2>3 DEF RowsDone
<1>3. CASE q.table # 0
  <2>1. ~GoesOn(page)
    BY <1>3 DEF GoesOn
  <2>2. ASSUME NEW r \in Unedited
        PROVE  r \in R \cup page.rows
    <3>1. r \in Nat
      BY RowsAreInts DEF Unedited
    <3>2. CASE p.table # 0 \/ r <= p.after
      BY <3>2 DEF RowsDone
    <3>3. CASE p.table = 0 /\ p.after < r
      BY <2>1, <3>3 DEF RowsFit
    <3> QED
      BY <1>1, <3>1, <3>2, <3>3
  <2> QED
    BY <1>3, <2>2 DEF RowsDone
<1> QED
  BY <1>2, <1>3

LEMMA CopyFields ==
    ASSUME NEW c \in FileCopies
    PROVE  /\ c.file \in 1..Files /\ c.part \in 0..(FileParts - 1)
           /\ c.etag \in 0..(MaxFaults + 1) /\ c.file \in Nat /\ c.part \in Nat
<1>1. c.file \in 1..Files /\ c.part \in 0..(FileParts - 1) /\ c.etag \in 0..(MaxFaults + 1)
  BY DEF FileCopies
<1> QED
  BY <1>1, Constants

LEMMA CopiesGoOn ==
    ASSUME NEW p \in Place, NEW C \in SUBSET FileCopies, NEW page \in Page,
           CopiesDone(p, C), CopiesFit(p, page), page.more, p.table \in {0, 1}
    PROVE  CopiesDone(page.next, C \cup page.copy)
<1> DEFINE q == page.next
           D == C \cup page.copy
<1>1. /\ p.after \in Nat /\ p.part \in Nat /\ q.after \in Nat /\ q.part \in Nat
      /\ Files \in Nat /\ FileParts \in Nat
  BY PageFields, PlaceFields, Constants
<1>2. \A c \in C : c.file \in Nat /\ c.part \in Nat /\ c.file \in 1..Files
  BY CopyFields
<1>3. CASE p.table = 0
  <2>1. C = {} /\ page.copy = {} /\ q.part = 0 /\ q.table \in {0, 1}
        /\ (q.table = 1 => q.after = 0)
    BY <1>3 DEF CopiesDone, CopiesFit
  <2>2. D = {}
    BY <2>1
  <2>3. \A f : PartsIn({}, f) = {}
    BY DEF PartsIn
  <2>4. \A f \in 1..Files : ~ (f <= 0)
    BY <1>1
  <2>5. 0..(0 - 1) = {}
    OBVIOUS
  <2> HIDE DEF q, D
  <2>6. CopiesDone(q, {})
    BY <2>1, <2>3, <2>4, <2>5 DEF CopiesDone
  <2> QED
    BY <2>2, <2>6 DEF q, D
<1>4. CASE p.table = 1
  <2>1. p.after # Files /\ q.table = 1 /\ (NoCopy(p, page) \/ OneCopy(p, page))
    BY <1>4 DEF CopiesFit
  <2>2. /\ \A c, d \in C : c.file = d.file => c.etag = d.etag
        /\ \A c \in C : \/ c.file <= p.after
                        \/ c.file = p.after + 1 /\ c.part < p.part /\ c.etag = p.etag
        /\ \A f \in 1..Files :
            /\ f <= p.after => PartsIn(C, f) \in {{}, 0..(FileParts - 1)}
            /\ f = p.after + 1 => PartsIn(C, f) = 0..(p.part - 1)
    BY <1>4 DEF CopiesDone
  <2>3. \A f \in 1..Files : f > p.after + 1 => PartsIn(C, f) = {}
    <3> TAKE f \in 1..Files
    <3>1. f \in Nat
      OBVIOUS
    <3>2. f > p.after + 1 => \A c \in C : c.file # f
      BY <1>1, <1>2, <2>2, <3>1
    <3> QED
      BY <3>2 DEF PartsIn
  <2>4. CASE NoCopy(p, page)
    <3>1. D = C /\ p.part = 0 /\ q.after = p.after + 1 /\ q.part = 0
      BY <2>4 DEF NoCopy
    <3>2. 0..(0 - 1) = {}
      OBVIOUS
    <3>3. \A c \in C : c.file <= q.after
      <4> TAKE c \in C
      <4> QED
        BY <1>1, <1>2, <2>2, <3>1
    <3>4. \A f \in 1..Files :
            /\ f <= q.after => PartsIn(C, f) \in {{}, 0..(FileParts - 1)}
            /\ f = q.after + 1 => PartsIn(C, f) = 0..(q.part - 1)
      <4> TAKE f \in 1..Files
      <4>1. f <= q.after => f <= p.after \/ f = p.after + 1
        BY <1>1, <3>1
      <4>2. f = q.after + 1 => f > p.after + 1
        BY <1>1, <3>1
      <4> QED
        BY <2>2, <2>3, <3>1, <3>2, <4>1, <4>2
    <3> HIDE DEF q, D
    <3> QED
      BY <2>1, <2>2, <3>1, <3>3, <3>4 DEF CopiesDone, q, D
  <2>5. CASE OneCopy(p, page)
    <3>1. PICK e \in 1..(MaxFaults + 1) :
            /\ page.copy = {[file |-> p.after + 1, part |-> p.part, etag |-> e]}
            /\ p.part > 0 => e = p.etag
            /\ IF p.part + 1 < FileParts
               THEN q.after = p.after /\ q.part = p.part + 1 /\ q.etag = e
               ELSE q.after = p.after + 1 /\ q.part = 0
      BY <2>5 DEF OneCopy
    <3> DEFINE new == [file |-> p.after + 1, part |-> p.part, etag |-> e]
    <3>2. D = C \cup {new} /\ new.file = p.after + 1 /\ new.part = p.part /\ new.etag = e
      BY <3>1
    <3>3. new \in FileCopies /\ p.part < FileParts
      <4>1. {new} \in {{}} \cup {{c} : c \in FileCopies}
        BY <3>1, PageFields
      <4>2. PICK c \in FileCopies : {new} = {c}
        <5> HIDE DEF new
        <5> QED
          BY <4>1
      <4>3. new = c
        BY <4>2
      <4> QED
        BY <1>1, <3>2, <4>3, CopyFields
    <3> HIDE DEF new, D, q
    <3>4. \A c \in C : c.file = p.after + 1 => c.etag = e
      <4> TAKE c \in C
      <4>1. c.file = p.after + 1 => c.part < p.part /\ c.etag = p.etag
        BY <1>1, <1>2, <2>2
      <4>2. c.part < p.part => p.part > 0
        BY <1>1, <1>2
      <4> QED
        BY <3>1, <4>1, <4>2
    <3>5. \A c, d \in D : c.file = d.file => c.etag = d.etag
      <4> TAKE c, d \in D
      <4>1. CASE c \in C /\ d \in C
        BY <2>2, <4>1
      <4>2. CASE c \in C /\ d = new
        BY <3>2, <3>4, <4>2
      <4>3. CASE c = new /\ d \in C
        BY <3>2, <3>4, <4>3
      <4>4. CASE c = new /\ d = new
        BY <4>4
      <4> QED
        BY <3>2, <4>1, <4>2, <4>3, <4>4
    <3>6. \A f \in 1..Files : f # p.after + 1 => PartsIn(D, f) = PartsIn(C, f)
      <4> TAKE f \in 1..Files
      <4>1. f # p.after + 1 => {c \in D : c.file = f} = {c \in C : c.file = f}
        BY <3>2
      <4> QED
        BY <4>1 DEF PartsIn
    <3>7. p.after + 1 \in 1..Files
      BY <3>2, <3>3, CopyFields
    <3>8. PartsIn(D, p.after + 1) = 0..p.part
      <4>1. PartsIn(C, p.after + 1) = 0..(p.part - 1)
        BY <2>2, <3>7
      <4>2. PartsIn(D, p.after + 1) = PartsIn(C, p.after + 1) \cup {p.part}
        <5>1. {c \in D : c.file = p.after + 1} = {c \in C : c.file = p.after + 1} \cup {new}
          BY <3>2
        <5> QED
          BY <3>2, <5>1 DEF PartsIn
      <4>3. 0..(p.part - 1) \cup {p.part} = 0..p.part
        BY <1>1
      <4> QED
        BY <4>1, <4>2, <4>3
    <3>9. CASE p.part + 1 < FileParts
      <4>1. q.after = p.after /\ q.part = p.part + 1 /\ q.etag = e
        BY <3>1, <3>9
      <4>2. ASSUME NEW c \in D
            PROVE  c.file <= q.after
                   \/ (c.file = q.after + 1 /\ c.part < q.part /\ c.etag = q.etag)
        <5>1. CASE c = new
          BY <1>1, <3>2, <4>1, <5>1
        <5>2. CASE c \in C
          <6>1. c.file <= p.after \/ (c.file = p.after + 1 /\ c.part < p.part)
            BY <2>2, <5>2
          <6>2. c.part < p.part => c.part < p.part + 1
            BY <1>1, <1>2, <5>2
          <6> QED
            BY <3>4, <4>1, <5>2, <6>1, <6>2
        <5> QED
          BY <3>2, <5>1, <5>2
      <4>3. ASSUME NEW f \in 1..Files
            PROVE  /\ f <= q.after => PartsIn(D, f) \in {{}, 0..(FileParts - 1)}
                   /\ f = q.after + 1 => PartsIn(D, f) = 0..(q.part - 1)
        <5>1. f <= p.after => f # p.after + 1
          BY <1>1
        <5>2. q.part - 1 = p.part
          BY <1>1, <4>1
        <5> QED
          BY <2>2, <3>6, <3>8, <4>1, <5>1, <5>2
      <4>4. q.table = 1
        BY <2>1 DEF q
      <4>5. CopiesDone(q, D)
        BY <3>5, <4>2, <4>3, <4>4 DEF CopiesDone
      <4> QED
        BY <4>5 DEF q, D
    <3>10. CASE ~ (p.part + 1 < FileParts)
      <4>1. q.after = p.after + 1 /\ q.part = 0 /\ p.part = FileParts - 1
        BY <1>1, <3>1, <3>3, <3>10
      <4>2. ASSUME NEW c \in D
            PROVE  c.file <= q.after
        <5>1. CASE c = new
          BY <1>1, <3>2, <4>1, <5>1
        <5>2. CASE c \in C
          BY <1>1, <1>2, <2>2, <4>1, <5>2
        <5> QED
          BY <3>2, <5>1, <5>2
      <4>3. ASSUME NEW f \in 1..Files
            PROVE  /\ f <= q.after => PartsIn(D, f) \in {{}, 0..(FileParts - 1)}
                   /\ f = q.after + 1 => PartsIn(D, f) = 0..(q.part - 1)
        <5>1. f <= q.after => f = p.after + 1 \/ (f <= p.after /\ f # p.after + 1)
          BY <1>1, <4>1
        <5>2. f = q.after + 1 => f > p.after + 1 /\ f # p.after + 1
          BY <1>1, <4>1
        <5>3. 0..(q.part - 1) = {}
          BY <4>1
        <5> QED
          BY <2>2, <2>3, <3>6, <3>8, <4>1, <5>1, <5>2, <5>3
      <4>4. q.table = 1
        BY <2>1 DEF q
      <4>5. CopiesDone(q, D)
        BY <3>5, <4>2, <4>3, <4>4 DEF CopiesDone
      <4> QED
        BY <4>5 DEF q, D
    <3> QED
      BY <3>9, <3>10
  <2> QED
    BY <2>1, <2>4, <2>5
<1> QED
  BY <1>3, <1>4

(***************************************************************************)
(* The pages stay, or one is put.                                          *)
(***************************************************************************)

SameFormat(j) == job'[j].format = job[j].format
Empty(j) == \A n \in 0..MaxPages : ~IsStored(j, n)

\* What fitted a place goes on fitting, whatever is edited meanwhile.
LEMMA FitsStay ==
    ASSUME NEW j, NEW n, NEW page, PlaceOf(j, n)' = PlaceOf(j, n), SameFormat(j),
           Unedited' \subseteq Unedited, Fits(j, n, page)
    PROVE  Fits(j, n, page)'
<1>1. RowsFit(PlaceOf(j, n), page)'
  BY DEF Fits, RowsFit, GoesOn
<1>2. CopiesFit(PlaceOf(j, n), page)'
  BY DEF Fits, CopiesFit, NoCopy, OneCopy
<1>3. AfterAt(j, n)' = AfterAt(j, n)
  BY DEF AfterAt, SameFormat
<1> QED
  BY <1>1, <1>2, <1>3 DEF Fits, SameFormat

LEMMA DoneStays ==
    ASSUME NEW p, NEW R, NEW C, Unedited' \subseteq Unedited
    PROVE  /\ RowsDone(p, R) => RowsDone(p, R)'
           /\ CopiesDone(p, C) => CopiesDone(p, C)'
           /\ \A n : Room(p, n) => Room(p, n)'
  BY DEF RowsDone, CopiesDone, PartsIn, Room

\* The first pages are the same.
LEMMA PrefixStays ==
    ASSUME NEW j, NEW n \in Nat, \A l \in 0..(n - 1) : chunk'[j][l] = chunk[j][l]
    PROVE  /\ Reached(j, n)' <=> Reached(j, n)
           /\ PlaceOf(j, n)' = PlaceOf(j, n)
           /\ RowsOf(j, n)' = RowsOf(j, n) /\ CopiesTo(j, n)' = CopiesTo(j, n)
<1>1. Reached(j, n)' <=> Reached(j, n)
  BY DEF Reached
<1>2. PlaceOf(j, n)' = PlaceOf(j, n)
  <2>1. n # 0 => n - 1 \in 0..(n - 1)
    OBVIOUS
  <2> QED
    BY <2>1 DEF PlaceOf
<1>3. {chunk'[j][l].rows : l \in 0..(n - 1)} = {chunk[j][l].rows : l \in 0..(n - 1)}
  OBVIOUS
<1>4. {chunk'[j][l].copy : l \in 0..(n - 1)} = {chunk[j][l].copy : l \in 0..(n - 1)}
  OBVIOUS
<1> QED
  BY <1>1, <1>2, <1>3, <1>4 DEF RowsOf, CopiesTo

LEMMA BehindStays ==
    ASSUME NEW j, NEW n \in Nat, \A l \in 0..(n - 1) : chunk'[j][l] = chunk[j][l],
           Unedited' \subseteq Unedited, Behind(j, n)
    PROVE  Behind(j, n)'
<1>1. /\ Reached(j, n)' <=> Reached(j, n)
      /\ PlaceOf(j, n)' = PlaceOf(j, n)
      /\ RowsOf(j, n)' = RowsOf(j, n) /\ CopiesTo(j, n)' = CopiesTo(j, n)
  BY PrefixStays
<1>2. SUFFICES ASSUME Reached(j, n)
               PROVE  /\ Room(PlaceOf(j, n), n)'
                      /\ RowsDone(PlaceOf(j, n), RowsOf(j, n))'
                      /\ CopiesDone(PlaceOf(j, n), CopiesTo(j, n))'
  BY <1>1 DEF Behind
<1>3. PICK p, R, C : p = PlaceOf(j, n) /\ R = RowsOf(j, n) /\ C = CopiesTo(j, n)
  OBVIOUS
<1>4. Room(p, n) /\ RowsDone(p, R) /\ CopiesDone(p, C)
  BY <1>2, <1>3 DEF Behind
<1>5. Room(p, n)' /\ RowsDone(p, R)' /\ CopiesDone(p, C)'
  BY <1>4, DoneStays
<1>6. p = PlaceOf(j, n)' /\ R = RowsOf(j, n)' /\ C = CopiesTo(j, n)'
  BY <1>1, <1>3
<1>7. Room(PlaceOf(j, n), n)'
  BY <1>5, <1>6 DEF Room
<1>8. RowsDone(PlaceOf(j, n), RowsOf(j, n))'
  BY <1>5, <1>6 DEF RowsDone
<1>9. CopiesDone(PlaceOf(j, n), CopiesTo(j, n))'
  BY <1>5, <1>6 DEF CopiesDone, PartsIn
<1> QED
  BY <1>7, <1>8, <1>9

LEMMA ChainStays ==
    ASSUME NEW j, NEW n \in Nat, \A l \in 0..n : chunk'[j][l] = chunk[j][l],
           Unedited' \subseteq Unedited, SameFormat(j) \/ ~IsStored(j, n), Chain(j, n)
    PROVE  Chain(j, n)'
<1>1. \A l \in 0..(n - 1) : l \in 0..n
  OBVIOUS
<1>2. n \in 0..n
  OBVIOUS
<1>3. /\ Reached(j, n)' <=> Reached(j, n)
      /\ PlaceOf(j, n)' = PlaceOf(j, n) /\ chunk'[j][n] = chunk[j][n]
  BY <1>1, <1>2, PrefixStays
<1>4. CASE ~IsStored(j, n)
  BY <1>3, <1>4 DEF Chain, IsStored
<1>5. CASE IsStored(j, n)
  <2>1. Reached(j, n) /\ Fits(j, n, chunk[j][n]) /\ SameFormat(j)
    BY <1>5 DEF Chain
  <2>2. PICK page : page = chunk[j][n]
    OBVIOUS
  <2>3. Fits(j, n, page)
    BY <2>1, <2>2
  <2>4. Fits(j, n, page)'
    BY <1>3, <2>1, <2>3, FitsStay
  <2>5. page = chunk'[j][n]
    BY <1>3, <2>2
  <2>6. Fits(j, n, chunk[j][n])'
    BY <2>4, <2>5 DEF Fits, RowsFit, GoesOn, CopiesFit, NoCopy, OneCopy
  <2> QED
    BY <1>3, <2>1, <2>6 DEF Chain
<1> QED
  BY <1>4, <1>5

LEMMA PagesStay ==
    ASSUME NEW j, chunk'[j] = chunk[j], Unedited' \subseteq Unedited,
           SameFormat(j) \/ Empty(j), PagesOk(j)
    PROVE  PagesOk(j)'
<1>1. ASSUME NEW n \in 0..MaxPages
      PROVE  Chain(j, n)' /\ Behind(j, n)'
  <2>1. n \in Nat /\ Chain(j, n) /\ Behind(j, n)
    BY <1>1, PageBounds DEF PagesOk
  <2>2. SameFormat(j) \/ ~IsStored(j, n)
    BY DEF Empty
  <2> QED
    BY <2>1, <2>2, ChainStays, BehindStays
<1>2. Disjoint(j)'
  BY DEF PagesOk, Disjoint, IsStored
<1>3. MaxPages' = MaxPages
  BY DEF MaxPages
<1> QED
  BY <1>1, <1>2, <1>3 DEF PagesOk

\* What is stored is a beginning.
LEMMA StoredIsPrefix ==
    ASSUME NEW j, PagesOk(j), NEW n \in 0..MaxPages, NEW k \in 0..MaxPages, k < n,
           IsStored(j, n) \/ Reached(j, n)
    PROVE  IsStored(j, k) /\ chunk[j][k].more
<1>1. n \in Nat /\ k \in 0..(n - 1)
  BY PageBounds
<1>2. Reached(j, n)
  BY DEF PagesOk, Chain
<1> QED
  BY <1>1, <1>2 DEF Reached, IsStored

Puts(j, n, page) ==
    /\ ~IsStored(j, n) /\ Reached(j, n) /\ Fits(j, n, page)
    /\ chunk'[j][n] = page
    /\ \A l \in (0..MaxPages) \ {n} : chunk'[j][l] = chunk[j][l]

\* The rows and copies before a place are rows and copies.
LEMMA BehindTypes ==
    ASSUME TypeOK, NEW j \in Jobs, NEW n \in 0..MaxPages, Reached(j, n)
    PROVE  RowsOf(j, n) \subseteq Rows /\ CopiesTo(j, n) \subseteq FileCopies
<1>1. ASSUME NEW l \in 0..(n - 1)
      PROVE  chunk[j][l].rows \subseteq Rows /\ chunk[j][l].copy \subseteq FileCopies
  <2>1. l \in 0..MaxPages
    BY PageBounds
  <2>2. chunk[j][l].stored
    BY DEF Reached
  <2>3. chunk[j][l] \in Page
    BY <2>1, <2>2, ChunkTypes
  <2> QED
    BY <2>3, PageFields
<1> QED
  BY <1>1 DEF RowsOf, CopiesTo

LEMMA PagesGrow ==
    ASSUME TypeOK, Paged, NEW j \in Jobs, NEW n \in 0..MaxPages, NEW page,
           Puts(j, n, page), page.stored, SameFormat(j), Unedited' \subseteq Unedited
    PROVE  PagesOk(j)'
<1>1. PagesOk(j) /\ n \in Nat /\ MaxPages \in Nat /\ n + 1 \in 0..MaxPages
      /\ PlaceOf(j, n) \in Place /\ page \in Page
      /\ PlaceOf(j, n).table \in {0, 1}
      /\ RowsFit(PlaceOf(j, n), page) /\ CopiesFit(PlaceOf(j, n), page)
  BY PageBounds, RoomForPage DEF Paged, Puts, Fits
<1>2. \A l \in 0..MaxPages : l > n => ~IsStored(j, l) /\ ~IsStored(j, l)'
  <2> TAKE l \in 0..MaxPages
  <2> HAVE l > n
  <2>1. ~IsStored(j, l)
    BY <1>1, StoredIsPrefix DEF Puts
  <2>2. l \in (0..MaxPages) \ {n}
    BY <1>1
  <2> QED
    BY <2>1, <2>2 DEF IsStored, Puts
<1>3. \A l \in 0..(n - 1) : chunk'[j][l] = chunk[j][l]
  <2>1. \A l \in 0..(n - 1) : l \in (0..MaxPages) \ {n}
    BY <1>1
  <2> QED
    BY <2>1 DEF Puts
<1>4. /\ Reached(j, n)' /\ PlaceOf(j, n)' = PlaceOf(j, n)
      /\ RowsOf(j, n)' = RowsOf(j, n) /\ CopiesTo(j, n)' = CopiesTo(j, n)
  BY <1>1, <1>3, PrefixStays DEF Puts
<1>5. Chain(j, n)' /\ Behind(j, n)'
  <2>1. Fits(j, n, page)'
    BY <1>4, FitsStay DEF Puts
  <2>2. page = chunk'[j][n]
    BY DEF Puts
  <2>3. Fits(j, n, chunk[j][n])'
    BY <2>1, <2>2 DEF Fits, RowsFit, GoesOn, CopiesFit, NoCopy, OneCopy
  <2>4. Behind(j, n)
    BY <1>1 DEF PagesOk
  <2> QED
    BY <1>1, <1>3, <1>4, <2>3, <2>4, BehindStays DEF Chain
<1>6. ASSUME NEW k \in 0..MaxPages, k < n
      PROVE  Chain(j, k)' /\ Behind(j, k)'
  <2>1. k \in Nat /\ \A l \in 0..k : l \in 0..(n - 1)
    BY <1>1, <1>6
  <2>2. \A l \in 0..(k - 1) : l \in 0..(n - 1)
    BY <1>1, <1>6
  <2>3. Chain(j, k) /\ Behind(j, k)
    BY <1>1 DEF PagesOk
  <2> QED
    BY <1>3, <2>1, <2>2, <2>3, ChainStays, BehindStays
<1>7. ASSUME NEW k \in 0..MaxPages, k > n
      PROVE  Chain(j, k)'
  BY <1>2, <1>7 DEF Chain
<1>8. ASSUME NEW k \in 0..MaxPages, k > n + 1
      PROVE  Behind(j, k)'
  <2>1. n + 1 \in 0..(k - 1) /\ n + 1 > n
    BY <1>1, <1>8
  <2>2. ~chunk'[j][n + 1].stored
    BY <1>1, <1>2, <2>1 DEF IsStored
  <2>3. ~Reached(j, k)'
    BY <2>1, <2>2 DEF Reached
  <2> QED
    BY <2>3 DEF Behind
<1>9. Behind(j, n + 1)'
  <2>1. 0..((n + 1) - 1) = 0..(n - 1) \cup {n} /\ (n + 1) - 1 = n /\ n + 1 # 0
    BY <1>1
  <2>2. SUFFICES ASSUME Reached(j, n + 1)'
                 PROVE  /\ Room(PlaceOf(j, n + 1), n + 1)'
                        /\ RowsDone(PlaceOf(j, n + 1), RowsOf(j, n + 1))'
                        /\ CopiesDone(PlaceOf(j, n + 1), CopiesTo(j, n + 1))'
    BY DEF Behind
  <2>3. page.more
    BY <2>1, <2>2 DEF Reached, Puts
  <2>4. PlaceOf(j, n + 1)' = page.next
    BY <2>1 DEF PlaceOf, Puts
  <2>5. /\ RowsOf(j, n + 1)' = RowsOf(j, n) \cup page.rows
        /\ CopiesTo(j, n + 1)' = CopiesTo(j, n) \cup page.copy
    <3>1. {chunk'[j][l].rows : l \in 0..((n + 1) - 1)}
            = {chunk[j][l].rows : l \in 0..(n - 1)} \cup {page.rows}
      <4>1. {chunk'[j][l].rows : l \in 0..(n - 1)} = {chunk[j][l].rows : l \in 0..(n - 1)}
        BY <1>3
      <4> QED
        BY <2>1, <4>1 DEF Puts
    <3>2. {chunk'[j][l].copy : l \in 0..((n + 1) - 1)}
            = {chunk[j][l].copy : l \in 0..(n - 1)} \cup {page.copy}
      <4>1. {chunk'[j][l].copy : l \in 0..(n - 1)} = {chunk[j][l].copy : l \in 0..(n - 1)}
        BY <1>3
      <4> QED
        BY <2>1, <4>1 DEF Puts
    <3> QED
      BY <3>1, <3>2 DEF RowsOf, CopiesTo
  <2>6. PICK p, R, C : p = PlaceOf(j, n) /\ R = RowsOf(j, n) /\ C = CopiesTo(j, n)
    OBVIOUS
  <2>7. Room(p, n) /\ RowsDone(p, R) /\ CopiesDone(p, C)
    BY <1>1, <2>6 DEF PagesOk, Behind, Puts
  <2>8. p \in Place /\ R \in SUBSET Rows /\ C \in SUBSET FileCopies /\ p.table \in {0, 1}
        /\ RowsFit(p, page) /\ CopiesFit(p, page)
    BY <1>1, <2>6, BehindTypes DEF Puts
  <2>9. /\ Room(page.next, n + 1) /\ RowsDone(page.next, R \cup page.rows)
        /\ CopiesDone(page.next, C \cup page.copy)
    BY <1>1, <2>3, <2>7, <2>8, RoomGoesOn, RowsGoOn, CopiesGoOn
  <2>10. PICK q, S, D : q = page.next /\ S = R \cup page.rows /\ D = C \cup page.copy
    OBVIOUS
  <2>11. Room(q, n + 1)' /\ RowsDone(q, S)' /\ CopiesDone(q, D)'
    BY <2>9, <2>10, DoneStays
  <2>12. q = PlaceOf(j, n + 1)' /\ S = RowsOf(j, n + 1)' /\ D = CopiesTo(j, n + 1)'
    BY <2>4, <2>5, <2>6, <2>10
  <2>13. Room(PlaceOf(j, n + 1), n + 1)'
    BY <2>11, <2>12 DEF Room
  <2>14. RowsDone(PlaceOf(j, n + 1), RowsOf(j, n + 1))'
    BY <2>11, <2>12 DEF RowsDone
  <2>15. CopiesDone(PlaceOf(j, n + 1), CopiesTo(j, n + 1))'
    BY <2>11, <2>12 DEF CopiesDone, PartsIn
  <2> QED
    BY <2>13, <2>14, <2>15
<1>10. Disjoint(j)'
  <2>1. ASSUME NEW i \in 0..MaxPages, i # n, IsStored(j, i)'
        PROVE  /\ i < n /\ IsStored(j, i) /\ chunk'[j][i] = chunk[j][i]
               /\ chunk[j][i].rows \cap page.rows = {}
    <3>1. i < n /\ i \in 0..(n - 1)
      BY <1>1, <1>2, <2>1
    <3>2. chunk'[j][i] = chunk[j][i]
      BY <1>3, <3>1
    <3>3. chunk[j][i].rows \subseteq RowsOf(j, n)
      BY <3>1 DEF RowsOf
    <3>4. RowsDone(PlaceOf(j, n), RowsOf(j, n)) /\ RowsOf(j, n) \subseteq Rows
      BY <1>1, BehindTypes DEF PagesOk, Behind, Puts
    <3>5. PlaceOf(j, n).after \in Nat /\ page.rows \subseteq Rows
      BY <1>1, PlaceFields, PageFields
    <3>6. ASSUME NEW r \in RowsOf(j, n), r \in page.rows
          PROVE  FALSE
      <4>1. r \in Nat /\ PlaceOf(j, n).table = 0 /\ PlaceOf(j, n).after < r
        BY <1>1, <3>4, <3>6, RowsAreInts DEF RowsFit
      <4>2. r <= PlaceOf(j, n).after
        BY <3>4, <4>1 DEF RowsDone
      <4> QED
        BY <3>5, <4>1, <4>2
    <3> QED
      BY <2>1, <3>1, <3>2, <3>3, <3>6 DEF IsStored
  <2>2. chunk'[j][n].rows = page.rows
    BY DEF Puts
  <2>3. ASSUME NEW i \in 0..MaxPages, NEW k \in 0..MaxPages, i # k,
               IsStored(j, i)', IsStored(j, k)'
        PROVE  chunk'[j][i].rows \cap chunk'[j][k].rows = {}
    <3>1. CASE i = n
      BY <2>1, <2>2, <2>3, <3>1
    <3>2. CASE k = n
      BY <2>1, <2>2, <2>3, <3>2
    <3>3. CASE i # n /\ k # n
      BY <1>1, <2>1, <2>3, <3>3 DEF PagesOk, Disjoint
    <3> QED
      BY <3>1, <3>2, <3>3
  <2> QED
    BY <2>3 DEF Disjoint, IsStored
<1>11. ASSUME NEW k \in 0..MaxPages
       PROVE  Chain(j, k)' /\ Behind(j, k)'
  <2>1. k < n \/ k = n \/ k = n + 1 \/ k > n + 1
    BY <1>1
  <2>2. k = n + 1 => k > n
    BY <1>1
  <2>3. k > n + 1 => k > n
    BY <1>1
  <2> QED
    BY <1>5, <1>6, <1>7, <1>8, <1>9, <2>1, <2>2, <2>3
<1>12. MaxPages' = MaxPages
  BY DEF MaxPages
<1> QED
  BY <1>10, <1>11, <1>12 DEF PagesOk

(***************************************************************************)
(* What a step does to a job, a page, a delivery and a message.            *)
(***************************************************************************)

Rests(j) ==
    /\ job'[j].after = job[j].after /\ job'[j].count = job[j].count
    /\ job'[j].total = job[j].total /\ SameFormat(j)
    /\ job'[j].status = job[j].status \/ (IsActive(j) /\ job'[j].status \in Active)
    /\ job[j].overdue => job'[j].overdue
    /\ job'[j].overdue => job[j].overdue \/ IsActive(j)
    /\ job'[j].holder \subseteq Workers /\ job'[j].lapsed \in BOOLEAN
    /\ job'[j].overdue \in BOOLEAN
    /\ job'[j] \in JobRow
Opens(j) ==
    /\ job[j].status = "none" /\ starter'.pc = "send" /\ starter'.job = j
    /\ job'[j].status = "queued" /\ job'[j].format \in {"csv", "complete"}
    /\ job'[j].after = 0 /\ job'[j].count = 0 /\ job'[j].total = 0 /\ ~job'[j].overdue
    /\ job'[j] \in JobRow
Closes(j) ==
    /\ IsActive(j) /\ SameFormat(j)
    /\ job'[j].status = "failed"
    /\ job'[j].after = job[j].after /\ job'[j].count = job[j].count
    /\ job'[j].total = job[j].total /\ ~job'[j].overdue
    /\ job'[j] \in JobRow
MovesBy(w, j) ==
    LET m == worker[w].message
        page == worker[w].page
    IN /\ m.job = j /\ MayAdvance(w)
       /\ worker[w].pc = "sent" \/ (worker[w].pc = "stored" /\ ~page.more)
       /\ job'[j].status = IF page.more THEN "queued" ELSE "ready"
       /\ SameFormat(j) /\ job'[j].after = NextAfter(m, page)
       /\ job'[j].count = job[j].count + 1
       /\ job'[j].total = job[j].total + Cardinality(page.rows)
       /\ job'[j].holder = {} /\ ~job'[j].lapsed /\ ~job'[j].overdue
       /\ {job'[j].after, job'[j].count} \subseteq 0..MaxPages /\ job'[j].total \in Nat =>
            job'[j] \in JobRow
Moves(j) == \E w \in Workers : MovesBy(w, j)
Drops(j) ==
    /\ job[j].status # "none" /\ SameFormat(j)
    /\ job'[j].status = "gone" /\ job'[j].after = 0 /\ job'[j].count = 0
    /\ job'[j].total = 0 /\ ~job'[j].overdue
    /\ job'[j] \in JobRow
JobDoes(j) == Rests(j) \/ Opens(j) \/ Closes(j) \/ Moves(j) \/ Drops(j)

LEMMA RowFields ==
    ASSUME NEW row \in JobRow
    PROVE  /\ row.status \in {"none", "ready", "failed", "gone", "queued", "processing"}
           /\ row.format \in {"csv", "complete"} /\ row.after \in 0..MaxPages
           /\ row.count \in 0..MaxPages /\ row.total \in Nat /\ row.holder \subseteq Workers
           /\ row.lapsed \in BOOLEAN /\ row.overdue \in BOOLEAN
           /\ row.count \in Nat /\ row.after \in Nat
           /\ row = [status |-> row.status, format |-> row.format, after |-> row.after,
                     count |-> row.count, total |-> row.total, holder |-> row.holder,
                     lapsed |-> row.lapsed, overdue |-> row.overdue]
<1>1. /\ row.status \in {"none", "ready", "failed", "gone", "queued", "processing"}
      /\ row.format \in {"csv", "complete"} /\ row.after \in 0..MaxPages
      /\ row.count \in 0..MaxPages /\ row.total \in Nat /\ row.holder \subseteq Workers
      /\ row.lapsed \in BOOLEAN /\ row.overdue \in BOOLEAN
  BY DEF JobRow, Active
<1>2. row = [status |-> row.status, format |-> row.format, after |-> row.after,
             count |-> row.count, total |-> row.total, holder |-> row.holder,
             lapsed |-> row.lapsed, overdue |-> row.overdue]
  BY DEF JobRow
<1> QED
  BY <1>1, <1>2, PageBounds

LEMMA JobTypes ==
    ASSUME TypeOK, NEW j \in Jobs
    PROVE  /\ job \in [Jobs -> JobRow] /\ job[j] \in JobRow
           /\ job[j].status \in {"none", "ready", "failed", "gone", "queued", "processing"}
           /\ job[j].format \in {"csv", "complete"} /\ job[j].after \in 0..MaxPages
           /\ job[j].count \in 0..MaxPages /\ job[j].total \in Nat
           /\ job[j].overdue \in BOOLEAN /\ job[j].lapsed \in BOOLEAN
           /\ job[j].count \in Nat /\ job[j].after \in Nat
           /\ IsActive(j) <=> job[j].status \in {"queued", "processing"}
<1>1. job \in [Jobs -> JobRow] /\ job[j] \in JobRow
  BY DEF TypeOK
<1> QED
  BY <1>1, RowFields DEF IsActive, Active

\* A write is of one row.
LEMMA WriteOne ==
    ASSUME TypeOK, NEW i \in Jobs, NEW row, Write(i, row)
    PROVE  /\ job'[i] = row /\ \A j \in Jobs \ {i} : job'[j] = job[j]
           /\ job' = [j \in Jobs |-> job'[j]]
<1>1. job \in [Jobs -> JobRow]
  BY DEF TypeOK
<1> QED
  BY <1>1 DEF Write

LEMMA SameRowRests ==
    ASSUME TypeOK, NEW j \in Jobs, job'[j] = job[j]
    PROVE  JobDoes(j) /\ Rests(j)
<1>1. job[j] \in JobRow
  BY DEF TypeOK
<1>2. /\ job[j].holder \subseteq Workers /\ job[j].lapsed \in BOOLEAN
      /\ job[j].overdue \in BOOLEAN
  BY <1>1, RowFields
<1> QED
  BY <1>1, <1>2 DEF JobDoes, Rests, SameFormat

LEMMA ClaimedRow ==
    ASSUME NEW row \in JobRow, NEW w \in Workers
    PROVE  LET new == Claimed(row, w) IN
           /\ new \in JobRow /\ new.status = "processing" /\ new.format = row.format
           /\ new.after = row.after /\ new.count = row.count /\ new.total = row.total
           /\ new.overdue = row.overdue /\ new.holder = {w} /\ new.lapsed = FALSE
<1> DEFINE new == Claimed(row, w)
<1>1. new \in JobRow
  BY DEF Claimed, JobRow, Active
<1>2. /\ new.status = "processing" /\ new.format = row.format
      /\ new.after = row.after /\ new.count = row.count /\ new.total = row.total
      /\ new.overdue = row.overdue /\ new.holder = {w} /\ new.lapsed = FALSE
  BY DEF Claimed, JobRow
<1> QED
  BY <1>1, <1>2

LEMMA ReleasedRow ==
    ASSUME NEW row \in JobRow
    PROVE  LET new == [row EXCEPT !.status = "queued", !.holder = {}, !.lapsed = FALSE] IN
           /\ new \in JobRow /\ new.status = "queued" /\ new.format = row.format
           /\ new.after = row.after /\ new.count = row.count /\ new.total = row.total
           /\ new.overdue = row.overdue /\ new.holder = {} /\ new.lapsed = FALSE
<1> DEFINE new == [row EXCEPT !.status = "queued", !.holder = {}, !.lapsed = FALSE]
<1>1. new \in JobRow
  BY DEF JobRow, Active
<1>2. /\ new.status = "queued" /\ new.format = row.format
      /\ new.after = row.after /\ new.count = row.count /\ new.total = row.total
      /\ new.overdue = row.overdue /\ new.holder = {} /\ new.lapsed = FALSE
  BY DEF JobRow
<1> QED
  BY <1>1, <1>2

LEMMA ClosedRow ==
    ASSUME NEW row \in JobRow, NEW status \in {"failed", "ready"}
    PROVE  LET new == Closed(row, status) IN
           /\ new \in JobRow /\ new.status = status /\ new.format = row.format
           /\ new.after = row.after /\ new.count = row.count /\ new.total = row.total
           /\ new.overdue = FALSE /\ new.holder = {} /\ new.lapsed = FALSE
<1> DEFINE new == Closed(row, status)
<1>1. new \in JobRow
  BY DEF Closed, JobRow, Active
<1>2. /\ new.status = status /\ new.format = row.format
      /\ new.after = row.after /\ new.count = row.count /\ new.total = row.total
      /\ new.overdue = FALSE /\ new.holder = {} /\ new.lapsed = FALSE
  BY DEF Closed, JobRow
<1> QED
  BY <1>1, <1>2

LEMMA ClosesWhenFailed ==
    ASSUME TypeOK, NEW i \in Jobs, IsActive(i), Write(i, Closed(job[i], "failed"))
    PROVE  /\ \A j \in Jobs : JobDoes(j)
           /\ Closes(i) /\ job' = [j \in Jobs |-> job'[j]]
<1>1. job[i] \in JobRow
  BY JobTypes
<1>2. /\ job'[i] = Closed(job[i], "failed") /\ \A j \in Jobs \ {i} : job'[j] = job[j]
      /\ job' = [j \in Jobs |-> job'[j]]
  BY WriteOne
<1>3. Closes(i)
  <2> DEFINE row == Closed(job[i], "failed")
  <2>1. /\ row \in JobRow /\ row.status = "failed" /\ row.format = job[i].format
        /\ row.after = job[i].after /\ row.count = job[i].count /\ row.total = job[i].total
        /\ row.overdue = FALSE
    BY <1>1, ClosedRow
  <2>2. job'[i] = row
    BY <1>2
  <2> HIDE DEF row
  <2> QED
    BY <2>1, <2>2 DEF Closes, SameFormat
<1> QED
  BY <1>2, <1>3, SameRowRests DEF JobDoes

LEMMA RestsWhenReleased ==
    ASSUME TypeOK, NEW w \in Workers, worker[w].message \in Messages, Errs(w)
    PROVE  /\ \A j \in Jobs : Rests(j) /\ JobDoes(j)
           /\ job' = [j \in Jobs |-> job'[j]]
<1> DEFINE i == worker[w].message.job
<1>1. i \in Jobs /\ job[i] \in JobRow /\ job \in [Jobs -> JobRow]
  BY JobTypes DEF Messages
<1>2. CASE UNCHANGED job
  BY <1>1, <1>2, SameRowRests
<1>3. CASE /\ Holds(w)
           /\ Write(i, [job[i] EXCEPT !.status = "queued", !.holder = {}, !.lapsed = FALSE])
  <2> DEFINE row == [job[i] EXCEPT !.status = "queued", !.holder = {}, !.lapsed = FALSE]
  <2>1. /\ row \in JobRow /\ row.status = "queued" /\ row.format = job[i].format
        /\ row.after = job[i].after /\ row.count = job[i].count /\ row.total = job[i].total
        /\ row.overdue = job[i].overdue /\ row.holder = {} /\ row.lapsed = FALSE
    BY <1>1, ReleasedRow
  <2>2. job[i].status = "processing"
    BY <1>3 DEF Holds
  <2> HIDE DEF row, i
  <2>3. /\ job'[i] = row /\ \A j \in Jobs \ {i} : job'[j] = job[j]
        /\ job' = [j \in Jobs |-> job'[j]]
    BY <1>1, <1>3, WriteOne DEF row
  <2>4. job[i].overdue \in BOOLEAN
    BY <1>1, JobTypes
  <2>5. Rests(i)
    BY <2>1, <2>2, <2>3, <2>4 DEF Rests, SameFormat, IsActive, Active
  <2>6. JobDoes(i)
    BY <2>5 DEF JobDoes
  <2>7. \A j \in Jobs \ {i} : Rests(j) /\ JobDoes(j)
    BY <2>3, SameRowRests
  <2> QED
    BY <2>3, <2>5, <2>6, <2>7
<1> QED
  BY <1>2, <1>3 DEF Errs

LEMMA MessageFields ==
    ASSUME NEW m \in Messages
    PROVE  /\ m.job \in Jobs /\ m.after \in 0..MaxPages /\ m.count \in 0..MaxPages
           /\ m.after \in Nat /\ m.count \in Nat
<1>1. m.job \in Jobs /\ m.after \in 0..MaxPages /\ m.count \in 0..MaxPages
  BY DEF Messages
<1> QED
  BY <1>1, PageBounds

LEMMA NoJobRow ==
    ASSUME NEW format \in {"csv", "complete"}, NEW status \in {"queued", "gone"}
    PROVE  LET new == [NoJob EXCEPT !.status = status, !.format = format] IN
           /\ new \in JobRow /\ new.status = status /\ new.format = format
           /\ new.after = 0 /\ new.count = 0 /\ new.total = 0 /\ new.overdue = FALSE
<1>1. NoJob \in JobRow
  <2>1. 0 \in 0..MaxPages
    BY PageBounds
  <2> QED
    BY <2>1 DEF NoJob, JobRow, Active
<1>2. NoJob.after = 0 /\ NoJob.count = 0 /\ NoJob.total = 0 /\ NoJob.overdue = FALSE
  BY DEF NoJob
<1> DEFINE new == [NoJob EXCEPT !.status = status, !.format = format]
<1>3. new \in JobRow /\ new.status = status /\ new.format = format
      /\ new.after = NoJob.after /\ new.count = NoJob.count /\ new.total = NoJob.total
      /\ new.overdue = NoJob.overdue
  BY <1>1 DEF JobRow, Active
<1> QED
  BY <1>2, <1>3

LEMMA AdvancedRow ==
    ASSUME NEW row \in JobRow, NEW m, NEW page
    PROVE  LET new == Advanced(row, m, page) IN
           /\ new.status = IF page.more THEN "queued" ELSE "ready"
           /\ new.format = row.format /\ new.after = NextAfter(m, page)
           /\ new.count = row.count + 1
           /\ new.total = row.total + Cardinality(page.rows)
           /\ new.holder = {} /\ new.lapsed = FALSE
           /\ new.overdue = IF page.more THEN row.overdue ELSE FALSE
           /\ {new.after, new.count} \subseteq 0..MaxPages /\ new.total \in Nat => new \in JobRow
<1> DEFINE a == NextAfter(m, page)
           t == Cardinality(page.rows)
           moved == [row EXCEPT
            !.status = "queued", !.after = a, !.count = @ + 1,
            !.total = @ + t, !.holder = {}, !.lapsed = FALSE]
           closed == Closed(moved, "ready")
<1>1. Advanced(row, m, page) = IF page.more THEN moved ELSE closed
  BY DEF Advanced
<1> HIDE DEF a, t
<1>2. /\ moved.status = "queued" /\ moved.format = row.format /\ moved.after = a
      /\ moved.count = row.count + 1 /\ moved.total = row.total + t
      /\ moved.holder = {} /\ moved.lapsed = FALSE /\ moved.overdue = row.overdue
  BY DEF JobRow
<1>3. {a, row.count + 1} \subseteq 0..MaxPages /\ row.total + t \in Nat => moved \in JobRow
  BY DEF JobRow, Active
<1>4. /\ closed.status = "ready" /\ closed.format = row.format /\ closed.after = a
      /\ closed.count = row.count + 1 /\ closed.total = row.total + t
      /\ closed.holder = {} /\ closed.lapsed = FALSE /\ closed.overdue = FALSE
  BY DEF Closed, JobRow
<1> HIDE DEF moved
<1>5. moved \in JobRow => closed \in JobRow
  BY ClosedRow
<1> HIDE DEF closed
<1>6. CASE page.more
  <2>1. Advanced(row, m, page) = moved
    BY <1>1, <1>6
  <2> QED
    BY <1>2, <1>3, <1>6, <2>1 DEF a, t
<1>7. CASE ~page.more
  <2>1. Advanced(row, m, page) = closed
    BY <1>1, <1>7
  <2> QED
    BY <1>3, <1>4, <1>5, <1>7, <2>1 DEF a, t
<1> QED
  BY <1>6, <1>7

LEMMA MovesWhenAdvanced ==
    ASSUME TypeOK, NEW w \in Workers, MayAdvance(w),
           worker[w].pc = "sent" \/ (worker[w].pc = "stored" /\ ~worker[w].page.more),
           Write(worker[w].message.job,
                 Advanced(job[worker[w].message.job], worker[w].message, worker[w].page))
    PROVE  /\ \A j \in Jobs : JobDoes(j)
           /\ MovesBy(w, worker[w].message.job) /\ job' = [j \in Jobs |-> job'[j]]
<1> DEFINE m == worker[w].message
           i == m.job
           page == worker[w].page
           row == Advanced(job[i], m, page)
<1>1. i \in Jobs /\ job[i] \in JobRow /\ job[i].overdue \in BOOLEAN
  <2>1. m \in Messages
    BY DEF TypeOK
  <2>2. i \in Jobs
    BY <2>1, MessageFields
  <2> QED
    BY <2>2, JobTypes
<1>2. /\ job'[i] = row /\ \A j \in Jobs \ {i} : job'[j] = job[j]
      /\ job' = [j \in Jobs |-> job'[j]]
  BY <1>1, WriteOne
<1>3. /\ row.status = IF page.more THEN "queued" ELSE "ready"
      /\ row.format = job[i].format /\ row.after = NextAfter(m, page)
      /\ row.count = job[i].count + 1
      /\ row.total = job[i].total + Cardinality(page.rows)
      /\ row.holder = {} /\ row.lapsed = FALSE
      /\ row.overdue = IF page.more THEN job[i].overdue ELSE FALSE
      /\ {row.after, row.count} \subseteq 0..MaxPages /\ row.total \in Nat => row \in JobRow
  <2>1. job[i] \in JobRow
    BY <1>1
  <2> HIDE DEF i, m, page
  <2> QED
    BY <2>1, AdvancedRow
<1>4. ~job[i].overdue
  BY DEF MayAdvance
<1> HIDE DEF row
<1>5. row.overdue = FALSE
  BY <1>1, <1>3, <1>4
<1>6. MovesBy(w, i)
  BY <1>2, <1>3, <1>5 DEF MovesBy, SameFormat
<1> QED
  BY <1>1, <1>2, <1>6, SameRowRests DEF JobDoes, Moves

LEMMA WhatJobsDo ==
    ASSUME TypeOK, \A j \in Jobs : Kept(j), Next
    PROVE  /\ \A j \in Jobs : JobDoes(j)
           /\ job' = [j \in Jobs |-> job'[j]]
<1> DEFINE Goal == (\A j \in Jobs : JobDoes(j)) /\ job' = [j \in Jobs |-> job'[j]]
<1>1. /\ job \in [Jobs -> JobRow]
      /\ \A w \in Workers : worker[w].message \in Messages
      /\ dead.message \in Messages /\ starter.job \in Jobs /\ main \subseteq Messages
      /\ dlq \subseteq Messages
  BY DEF TypeOK
<1>2. ASSUME UNCHANGED job PROVE Goal
  BY <1>1, <1>2, SameRowRests
<1>3. ASSUME NEW m \in Messages, FailAt(m) PROVE Goal
  <2>1. m.job \in Jobs
    BY DEF Messages
  <2> QED
    BY <1>2, <1>3, <2>1, ClosesWhenFailed DEF FailAt
<1>4. ASSUME NEW m \in main, Unclaimable(m) PROVE Goal
  <2>1. FailAt(m) \/ UNCHANGED job
    BY <1>4 DEF Unclaimable
  <2> QED
    BY <1>1, <1>2, <1>3, <2>1
<1>5. ASSUME NEW m \in dlq, DeadTake(m) PROVE Goal
  BY <1>2, <1>5 DEF DeadTake
<1>6. ASSUME DeadFail PROVE Goal
  <2>1. dead.message.job \in Jobs
    BY <1>1, MessageFields
  <2>2. CASE UNCHANGED job
    BY <1>2, <2>2
  <2>3. CASE /\ job[dead.message.job].status = "queued"
             /\ Write(dead.message.job, Closed(job[dead.message.job], "failed"))
    <3>1. IsActive(dead.message.job)
      BY <2>3 DEF IsActive, Active
    <3> QED
      BY <2>1, <2>3, <3>1, ClosesWhenFailed
  <2> QED
    BY <1>6, <2>2, <2>3 DEF DeadFail
<1>7. ASSUME NEW w \in Workers, Errs(w) PROVE Goal
  BY <1>1, <1>7, RestsWhenReleased
<1>8. ASSUME NEW w \in Workers, FindPage(w) \/ ReadPage(w) \/ Throws(w) PROVE Goal
  BY <1>2, <1>7, <1>8 DEF FindPage, ReadPage, Throws
<1>9. ASSUME NEW w \in Workers, PutPage(w) \/ SendNext(w) \/ Dies(w) PROVE Goal
  BY <1>2, <1>9 DEF PutPage, SendNext, Dies
<1>10. ASSUME NEW w \in Workers, GivesUp(w) PROVE Goal
  <2> DEFINE i == worker[w].message.job
  <2>1. i \in Jobs
    BY <1>1, MessageFields
  <2>2. CASE UNCHANGED job
    BY <1>2, <2>2
  <2>3. CASE Holds(w) /\ Write(i, Closed(job[i], "failed"))
    <3>1. IsActive(i)
      BY <2>3 DEF Holds, IsActive, Active
    <3> QED
      BY <2>1, <2>3, <3>1, ClosesWhenFailed
  <2> QED
    BY <1>10, <2>2, <2>3 DEF GivesUp
<1>11. ASSUME NEW w \in Workers, Advance(w) PROVE Goal
  <2>1. CASE MayAdvance(w)
    <3>1. /\ worker[w].pc = "sent" \/ (worker[w].pc = "stored" /\ ~worker[w].page.more)
          /\ Write(worker[w].message.job,
                   Advanced(job[worker[w].message.job], worker[w].message, worker[w].page))
      BY <1>11, <2>1 DEF Advance
    <3> QED
      BY <2>1, <3>1, MovesWhenAdvanced
  <2>2. CASE ~MayAdvance(w)
    BY <1>2, <1>11, <2>2 DEF Advance
  <2> QED
    BY <2>1, <2>2
<1>12. ASSUME NEW w \in Workers, NEW m \in main, Claim(w, m) PROVE Goal
  <2> DEFINE i == m.job
             row == Claimed(job[i], w)
  <2>1. i \in Jobs /\ job[i] \in JobRow
    BY <1>1, MessageFields
  <2>2. Write(i, row) /\ CanClaim(m)
    BY <1>12 DEF Claim
  <2>3. /\ row \in JobRow /\ row.status = "processing" /\ row.format = job[i].format
        /\ row.after = job[i].after /\ row.count = job[i].count /\ row.total = job[i].total
        /\ row.overdue = job[i].overdue /\ row.holder = {w} /\ row.lapsed = FALSE
    BY <2>1, ClaimedRow
  <2> HIDE DEF row
  <2>4. /\ job'[i] = row /\ \A j \in Jobs \ {i} : job'[j] = job[j]
        /\ job' = [j \in Jobs |-> job'[j]]
    BY <2>1, <2>2, WriteOne
  <2>5. job[i].status \in Active /\ job[i].overdue \in BOOLEAN
    BY <2>1, <2>2, JobTypes DEF CanClaim, Active
  <2>6. Rests(i)
    BY <2>3, <2>4, <2>5 DEF Rests, SameFormat, IsActive, Active
  <2> QED
    BY <2>4, <2>6, SameRowRests DEF JobDoes
<1>13. ASSUME DeadThrows \/ StartSend \/ StartThrows PROVE Goal
  BY <1>2, <1>13 DEF DeadThrows, StartSend, StartThrows
<1>14. ASSUME StartFail PROVE Goal
  <2> DEFINE i == starter.job
  <2>1. (IsActive(i) /\ Write(i, Closed(job[i], "failed"))) \/ UNCHANGED job
    BY <1>14 DEF StartFail
  <2>2. i \in Jobs
    BY <1>1
  <2> HIDE DEF i
  <2> QED
    BY <1>2, <2>1, <2>2, ClosesWhenFailed
<1>15. ASSUME NEW j \in Jobs, Create(j) PROVE Goal
  <2>1. PICK format \in Formats : Write(j, Opened(format))
    BY <1>15 DEF Create
  <2> DEFINE row == Opened(format)
  <2>2. format \in {"csv", "complete"}
    BY FormatAssumption
  <2>3. /\ row \in JobRow /\ row.status = "queued" /\ row.format = format
        /\ row.after = 0 /\ row.count = 0 /\ row.total = 0 /\ row.overdue = FALSE
    BY <2>2, NoJobRow DEF Opened
  <2> HIDE DEF row
  <2>4. /\ job'[j] = row /\ \A k \in Jobs \ {j} : job'[k] = job[k]
        /\ job' = [k \in Jobs |-> job'[k]]
    BY <2>1, WriteOne DEF row
  <2>5. Opens(j)
    BY <1>15, <2>2, <2>3, <2>4 DEF Opens, Create
  <2> QED
    BY <2>4, <2>5, SameRowRests DEF JobDoes
<1>16. ASSUME NEW j \in Jobs, Nudge(j) PROVE Goal
  BY <1>2, <1>16 DEF Nudge
<1>17. ASSUME NEW j \in Jobs, CloseOverdue(j) PROVE Goal
  BY <1>17, ClosesWhenFailed DEF CloseOverdue
<1>18. ASSUME NEW j \in Jobs, Prune(j) PROVE Goal
  <2> DEFINE row == [NoJob EXCEPT !.status = "gone", !.format = job[j].format]
  <2>1. job[j].format \in {"csv", "complete"}
    BY JobTypes
  <2>2. /\ row \in JobRow /\ row.status = "gone" /\ row.format = job[j].format
        /\ row.after = 0 /\ row.count = 0 /\ row.total = 0 /\ row.overdue = FALSE
    BY <2>1, NoJobRow
  <2> HIDE DEF row
  <2>4. /\ job'[j] = row /\ \A k \in Jobs \ {j} : job'[k] = job[k]
        /\ job' = [k \in Jobs |-> job'[k]]
    BY <1>18, WriteOne DEF Prune, row
  <2>5. job[j].status # "none"
    BY <1>18 DEF Prune, Kept, IsActive, Active
  <2>6. Drops(j)
    BY <2>2, <2>4, <2>5 DEF Drops, SameFormat
  <2> QED
    BY <2>4, <2>6, SameRowRests DEF JobDoes
<1>19. ASSUME NEW j \in Jobs, Lapse(j) PROVE Goal
  <2> DEFINE row == [job[j] EXCEPT !.lapsed = TRUE]
  <2>1. job[j] \in JobRow /\ job[j].overdue \in BOOLEAN
    BY JobTypes
  <2>2. /\ row \in JobRow /\ row.status = job[j].status /\ row.format = job[j].format
        /\ row.after = job[j].after /\ row.count = job[j].count /\ row.total = job[j].total
        /\ row.overdue = job[j].overdue
    BY <2>1 DEF JobRow
  <2> HIDE DEF row
  <2>3. /\ job'[j] = row /\ \A k \in Jobs \ {j} : job'[k] = job[k]
        /\ job' = [k \in Jobs |-> job'[k]]
    BY <1>19, WriteOne DEF Lapse, row
  <2>4. Rests(j)
    BY <2>1, <2>2, <2>3, RowFields DEF Rests, SameFormat
  <2> QED
    BY <2>3, <2>4, SameRowRests DEF JobDoes
<1>20. ASSUME NEW j \in Jobs, Expire(j) PROVE Goal
  <2> DEFINE row == [job[j] EXCEPT !.overdue = TRUE]
  <2>1. job[j] \in JobRow /\ job[j].overdue \in BOOLEAN
    BY JobTypes
  <2>2. /\ row \in JobRow /\ row.status = job[j].status /\ row.format = job[j].format
        /\ row.after = job[j].after /\ row.count = job[j].count /\ row.total = job[j].total
        /\ row.overdue = TRUE
    BY <2>1 DEF JobRow
  <2> HIDE DEF row
  <2>3. /\ job'[j] = row /\ \A k \in Jobs \ {j} : job'[k] = job[k]
        /\ job' = [k \in Jobs |-> job'[k]]
    BY <1>20, WriteOne DEF Expire, row
  <2>4. IsActive(j)
    BY <1>20 DEF Expire
  <2>5. Rests(j)
    BY <2>1, <2>2, <2>3, <2>4, RowFields DEF Rests, SameFormat
  <2> QED
    BY <2>3, <2>5, SameRowRests DEF JobDoes
<1>21. ASSUME (\E r \in Rows : EditRow(r)) \/ \E f \in 1..Files : EditFile(f) PROVE Goal
  BY <1>2, <1>21 DEF EditRow, EditFile
<1> QED
  BY <1>4, <1>5, <1>6, <1>8, <1>9, <1>10, <1>11, <1>12, <1>13, <1>14, <1>15, <1>16, <1>17,
     <1>18, <1>19, <1>20, <1>21 DEF Next, WorkerStep, DeadStep

\* Which variables the steps leave alone.
LEMMA WhatStays ==
    ASSUME Next
    PROVE  /\ UNCHANGED chunk \/ \E w \in Workers : PutPage(w)
           /\ UNCHANGED <<rows, edited>> \/ \E r \in Rows : EditRow(r)
           /\ UNCHANGED file \/ \E f \in 1..Files : EditFile(f)
           /\ UNCHANGED faults \/ Fault
           /\ UNCHANGED dead \/ (\E m \in dlq : DeadTake(m)) \/ DeadFail \/ DeadThrows
           /\ \/ UNCHANGED starter \/ StartSend \/ StartThrows \/ StartFail
              \/ \E j \in Jobs : Create(j)
           /\ UNCHANGED stranded \/ (\E m \in dlq : DeadTake(m)) \/ DeadThrows \/ StartThrows
<1> DEFINE Frame ==
           /\ UNCHANGED chunk \/ \E w \in Workers : PutPage(w)
           /\ UNCHANGED <<rows, edited>> \/ \E r \in Rows : EditRow(r)
           /\ UNCHANGED file \/ \E f \in 1..Files : EditFile(f)
           /\ UNCHANGED faults \/ Fault
           /\ UNCHANGED dead \/ (\E m \in dlq : DeadTake(m)) \/ DeadFail \/ DeadThrows
           /\ \/ UNCHANGED starter \/ StartSend \/ StartThrows \/ StartFail
              \/ \E j \in Jobs : Create(j)
           /\ UNCHANGED stranded \/ (\E m \in dlq : DeadTake(m)) \/ DeadThrows \/ StartThrows
<1>1. ASSUME NEW m \in main, Unclaimable(m) PROVE Frame
  BY <1>1 DEF Unclaimable, source, history
<1>2. ASSUME NEW m \in dlq, DeadTake(m) PROVE Frame
  BY <1>2 DEF DeadTake, source, history
<1>3. ASSUME DeadFail PROVE Frame
  BY <1>3 DEF DeadFail, source, history
<1>4. ASSUME NEW w \in Workers, FindPage(w) PROVE Frame
  BY <1>4 DEF FindPage, source, history
<1>5. ASSUME NEW w \in Workers, ReadPage(w) PROVE Frame
  BY <1>5 DEF ReadPage, source, history
<1>6. ASSUME NEW w \in Workers, PutPage(w) PROVE Frame
  BY <1>6 DEF PutPage, source, history
<1>7. ASSUME NEW w \in Workers, GivesUp(w) PROVE Frame
  BY <1>7 DEF GivesUp, source, history
<1>8. ASSUME NEW w \in Workers, SendNext(w) PROVE Frame
  BY <1>8 DEF SendNext, source, history
<1>9. ASSUME NEW w \in Workers, Advance(w) PROVE Frame
  BY <1>9 DEF Advance, source, history
<1>10. ASSUME NEW w \in Workers, Throws(w) PROVE Frame
  BY <1>10 DEF Throws, source, history
<1>11. ASSUME NEW w \in Workers, Dies(w) PROVE Frame
  BY <1>11 DEF Dies, source, history
<1>12. ASSUME NEW w \in Workers, NEW m \in main, Claim(w, m) PROVE Frame
  BY <1>12 DEF Claim, source, history
<1>13. ASSUME DeadThrows PROVE Frame
  BY <1>13 DEF DeadThrows, source, history
<1>14. ASSUME StartSend PROVE Frame
  BY <1>14 DEF StartSend, source, history
<1>15. ASSUME StartThrows PROVE Frame
  BY <1>15 DEF StartThrows, source, history
<1>16. ASSUME StartFail PROVE Frame
  BY <1>16 DEF StartFail, source, history
<1>17. ASSUME NEW j \in Jobs, Create(j) PROVE Frame
  BY <1>17 DEF Create, source, history
<1>18. ASSUME NEW j \in Jobs, Nudge(j) PROVE Frame
  BY <1>18 DEF Nudge, source, history
<1>19. ASSUME NEW j \in Jobs, CloseOverdue(j) PROVE Frame
  BY <1>19 DEF CloseOverdue, source, history
<1>20. ASSUME NEW j \in Jobs, Prune(j) PROVE Frame
  BY <1>20 DEF Prune, source, history
<1>21. ASSUME NEW j \in Jobs, Lapse(j) PROVE Frame
  BY <1>21 DEF Lapse, source, history
<1>22. ASSUME NEW j \in Jobs, Expire(j) PROVE Frame
  BY <1>22 DEF Expire, source, history
<1>23. ASSUME NEW r \in Rows, EditRow(r) PROVE Frame
  BY <1>23 DEF EditRow, source, history
<1>24. ASSUME NEW f \in 1..Files, EditFile(f) PROVE Frame
  BY <1>24 DEF EditFile, source, history
<1> HIDE DEF Frame
<1>25. Frame
  BY <1>1, <1>2, <1>3, <1>4, <1>5, <1>6, <1>7, <1>8, <1>9, <1>10, <1>11, <1>12, <1>13,
     <1>14, <1>15, <1>16, <1>17, <1>18, <1>19, <1>20, <1>21, <1>22, <1>23, <1>24
     DEF Next, WorkerStep, DeadStep
<1> QED
  BY <1>25 DEF Frame

PutsBy(w, j) ==
    /\ worker[w].pc = "put" /\ worker[w].message.job = j /\ worker[w].page.stored
    /\ Puts(j, worker[w].message.count, worker[w].page)
    /\ worker[w].message.count \in 0..MaxPages
    /\ UNCHANGED job
PagesDo(j) == chunk'[j] = chunk[j] \/ \E w \in Workers : PutsBy(w, j)

LEMMA WhatPagesDo ==
    ASSUME TypeOK, \A w \in Workers : InHand(w), Next
    PROVE  /\ \A j \in Jobs : PagesDo(j)
           /\ chunk' \in [Jobs -> [0..MaxPages -> {NoPage} \cup Page]]
<1>1. chunk \in [Jobs -> [0..MaxPages -> {NoPage} \cup Page]]
  BY DEF TypeOK
<1>2. CASE UNCHANGED chunk
  BY <1>1, <1>2 DEF PagesDo
<1>3. ASSUME NEW w \in Workers, PutPage(w), ~UNCHANGED chunk
      PROVE  /\ \A j \in Jobs : PagesDo(j)
             /\ chunk' \in [Jobs -> [0..MaxPages -> {NoPage} \cup Page]]
  <2> DEFINE m == worker[w].message
             page == worker[w].page
             i == m.job
             n == m.count
  <2>1. m \in Messages
    BY DEF TypeOK
  <2>2. i \in Jobs /\ n \in 0..MaxPages
    BY <2>1, MessageFields
  <2>3. worker[w].pc = "put" /\ UNCHANGED job /\ MayPut(m)
        /\ chunk' = [chunk EXCEPT ![i][n] = page]
    BY <1>3 DEF PutPage
  <2>4. Marked(m) /\ page.stored /\ Fits(i, n, page)
    BY <2>3 DEF InHand
  <2>5. page \in Page /\ Reached(i, n) /\ ~IsStored(i, n)
    BY <2>3, <2>4 DEF Fits, Marked, MayPut, Stored, IsStored
  <2>6. worker[w].message.job = i /\ worker[w].message.count = n /\ worker[w].page = page
    OBVIOUS
  <2> HIDE DEF m, page, i, n
  <2>7. chunk[i] \in [0..MaxPages -> {NoPage} \cup Page]
    BY <1>1, <2>2
  <2>8. chunk' = [chunk EXCEPT ![i] = [chunk[i] EXCEPT ![n] = page]]
    BY <2>3
  <2>9. [chunk[i] EXCEPT ![n] = page] \in [0..MaxPages -> {NoPage} \cup Page]
    BY <2>2, <2>5, <2>7
  <2>10. chunk' \in [Jobs -> [0..MaxPages -> {NoPage} \cup Page]]
    BY <1>1, <2>2, <2>8, <2>9
  <2>11. /\ chunk'[i][n] = page /\ \A l \in (0..MaxPages) \ {n} : chunk'[i][l] = chunk[i][l]
         /\ \A j \in Jobs \ {i} : chunk'[j] = chunk[j]
    BY <1>1, <2>2, <2>7, <2>8
  <2>12. Puts(i, n, page)
    BY <2>4, <2>5, <2>11 DEF Puts
  <2>13. PutsBy(w, i)
    BY <2>2, <2>3, <2>4, <2>6, <2>12 DEF PutsBy
  <2> QED
    BY <2>10, <2>11, <2>13 DEF PagesDo
<1> QED
  BY <1>2, <1>3, WhatStays

LEMMA WhatEditsDo ==
    ASSUME TypeOK, Sourced, Filed, Next
    PROVE  /\ Unedited' \subseteq Unedited /\ Sourced' /\ Filed'
           /\ rows' \subseteq Rows /\ edited' \subseteq Rows
           /\ file' \in [1..Files -> 0..(MaxFaults + 1)]
           /\ faults' \in 0..MaxFaults
<1>1. /\ rows \subseteq Rows /\ edited \subseteq Rows
      /\ file \in [1..Files -> 0..(MaxFaults + 1)] /\ faults \in 0..MaxFaults
      /\ MaxFaults \in Nat
  BY Constants DEF TypeOK
<1>2. /\ Unedited' \subseteq Unedited /\ Sourced'
      /\ rows' \subseteq Rows /\ edited' \subseteq Rows
  <2>1. CASE UNCHANGED <<rows, edited>>
    BY <1>1, <2>1 DEF Unedited, Sourced
  <2>2. ASSUME NEW r \in Rows, EditRow(r)
        PROVE  /\ Unedited' \subseteq Unedited /\ Sourced'
               /\ rows' \subseteq Rows /\ edited' \subseteq Rows
    BY <1>1, <2>2 DEF EditRow, Unedited, Sourced
  <2> QED
    BY <2>1, <2>2, WhatStays
<1>3. faults' \in 0..MaxFaults /\ faults <= faults' /\ (Fault => faults' = faults + 1)
  BY <1>1, WhatStays DEF Fault
<1>4. Filed' /\ file' \in [1..Files -> 0..(MaxFaults + 1)]
  <2>1. CASE UNCHANGED file
    <3>1. ASSUME NEW f \in 1..Files
          PROVE  file'[f] <= faults' + 1
      <4>1. file[f] <= faults + 1 /\ file[f] \in Nat
        BY <1>1 DEF Filed
      <4> QED
        BY <1>1, <1>3, <2>1, <4>1
    <3> QED
      BY <1>1, <2>1, <3>1 DEF Filed
  <2>2. ASSUME NEW g \in 1..Files, EditFile(g)
        PROVE  Filed' /\ file' \in [1..Files -> 0..(MaxFaults + 1)]
    <3>1. faults' = faults + 1
      BY <1>3, <2>2 DEF EditFile
    <3>2. PICK version \in {0, file[g] + 1} : file' = [file EXCEPT ![g] = version]
      BY <2>2 DEF EditFile
    <3>3. file[g] \in Nat /\ file[g] <= faults + 1
      BY <1>1 DEF Filed
    <3>4. version \in Nat /\ version <= faults' + 1
      BY <1>1, <3>1, <3>2, <3>3
    <3>5. version \in 0..(MaxFaults + 1)
      <4> DEFINE n == faults'
      <4>1. n \in 0..MaxFaults /\ version <= n + 1 /\ version \in Nat
        BY <1>3, <3>4
      <4>2. MaxFaults \in Nat
        BY Constants
      <4> HIDE DEF n
      <4>3. n <= MaxFaults /\ n \in Int /\ version \in Int
        BY <4>1, <4>2
      <4>4. n + 1 <= MaxFaults + 1
        BY <4>2, <4>3
      <4>5. version <= MaxFaults + 1
        BY <4>1, <4>2, <4>3, <4>4
      <4> QED
        BY <4>1, <4>2, <4>5
    <3>6. file' \in [1..Files -> 0..(MaxFaults + 1)]
      BY <1>1, <3>2, <3>5
    <3>7. ASSUME NEW f \in 1..Files
          PROVE  file'[f] <= faults' + 1
      <4>1. file[f] \in Nat /\ file[f] <= faults + 1
        BY <1>1 DEF Filed
      <4>2. file'[f] = IF f = g THEN version ELSE file[f]
        BY <1>1, <3>2
      <4> QED
        BY <1>1, <3>1, <3>4, <4>1, <4>2
    <3> QED
      BY <3>6, <3>7 DEF Filed
  <2> QED
    BY <2>1, <2>2, WhatStays
<1> QED
  BY <1>2, <1>3, <1>4

Delivery == [pc: {"idle", "page", "put", "stored", "sent"},
             message: Messages, page: {NoPage} \cup Page]

\* A message in a queue was in one, or in hand, or is of a cursor.
ComesFrom(x) ==
    \/ x \in main \cup dlq
    \/ \E w \in Workers : worker[w].pc # "idle" /\ x = worker[w].message
    \/ dead.pc # "idle" /\ x = dead.message
    \/ \E w \in Workers :
        worker[w].pc = "stored" /\ worker[w].page.more /\ x = Continuation(w)
    \/ \E j \in Jobs : IsActive(j) /\ x = CursorOf(j)
    \/ starter.pc = "send" /\ x = FirstMessage(starter.job)

LEMMA AgainKeeps ==
    ASSUME NEW m, Again(m)
    PROVE  main' \cup dlq' = main \cup dlq \cup {m}
  BY DEF Again

LEMMA WhereMessagesComeFrom ==
    ASSUME Next
    PROVE  \A x \in main' \cup dlq' : ComesFrom(x)
<1> DEFINE Goal == \A x \in main' \cup dlq' : ComesFrom(x)
<1>1. ASSUME main' \cup dlq' \subseteq main \cup dlq PROVE Goal
  BY <1>1 DEF ComesFrom
<1>2. ASSUME NEW w \in Workers, worker[w].pc # "idle", Retries(w) PROVE Goal
  <2>1. main' \cup dlq' = main \cup dlq \cup {worker[w].message}
    BY <1>2, AgainKeeps DEF Retries
  <2> QED
    BY <1>2, <2>1 DEF ComesFrom
<1>3. ASSUME NEW m \in main, Unclaimable(m) PROVE Goal
  <2>1. CASE main' = main \ {m} /\ UNCHANGED dlq
    BY <2>1, <1>1
  <2>2. CASE Again(m)
    <3>1. main' \cup dlq' = main \cup dlq \cup {m}
      BY <2>2, AgainKeeps
    <3> QED
      BY <1>1, <3>1
  <2> QED
    BY <1>3, <2>1, <2>2 DEF Unclaimable
<1>4. ASSUME NEW m \in dlq, DeadTake(m) PROVE Goal
  BY <1>1, <1>4 DEF DeadTake
<1>5. ASSUME DeadFail \/ DeadThrows PROVE Goal
  <2>1. main' \cup dlq' \subseteq main \cup dlq \cup {dead.message} /\ dead.pc # "idle"
    BY <1>5 DEF DeadFail, DeadThrows
  <2> QED
    BY <2>1 DEF ComesFrom
<1>6. ASSUME NEW w \in Workers, FindPage(w) \/ ReadPage(w) PROVE Goal
  <2>1. UNCHANGED queues \/ (Errs(w) /\ worker[w].pc # "idle")
    BY <1>6 DEF FindPage, ReadPage
  <2> QED
    BY <1>1, <1>2, <2>1 DEF Errs, queues
<1>7. ASSUME NEW w \in Workers, PutPage(w) PROVE Goal
  BY <1>1, <1>7 DEF PutPage, queues
<1>8. ASSUME NEW w \in Workers, GivesUp(w) \/ Advance(w) PROVE Goal
  <2>1. UNCHANGED queues \/ (Retries(w) /\ worker[w].pc # "idle")
    BY <1>8 DEF GivesUp, Advance
  <2> QED
    BY <1>1, <1>2, <2>1 DEF queues
<1>9. ASSUME NEW w \in Workers, SendNext(w) PROVE Goal
  <2>1. /\ worker[w].pc = "stored" /\ worker[w].page.more
        /\ main' = main \cup {Continuation(w)} /\ dlq' = dlq
    BY <1>9 DEF SendNext
  <2> QED
    BY <2>1 DEF ComesFrom
<1>10. ASSUME NEW w \in Workers, Throws(w) \/ Dies(w) PROVE Goal
  BY <1>2, <1>10 DEF Throws, Dies, Errs
<1>11. ASSUME NEW w \in Workers, NEW m \in main, Claim(w, m) PROVE Goal
  <2>1. main' \cup dlq' \subseteq main \cup dlq
    <3>1. CASE main' = main \ {m} /\ UNCHANGED dlq
      BY <3>1
    <3>2. CASE UNCHANGED queues
      BY <3>2 DEF queues
    <3>3. CASE Again(m)
      BY <3>3, AgainKeeps
    <3> QED
      BY <1>11, <3>1, <3>2, <3>3 DEF Claim
  <2> QED
    BY <1>1, <2>1
<1>12. ASSUME StartSend \/ StartThrows PROVE Goal
  <2>1. /\ starter.pc = "send"
        /\ main' \cup dlq' \subseteq main \cup dlq \cup {FirstMessage(starter.job)}
    BY <1>12 DEF StartSend, StartThrows
  <2> QED
    BY <2>1 DEF ComesFrom
<1>13. ASSUME StartFail PROVE Goal
  BY <1>1, <1>13 DEF StartFail, queues
<1>14. ASSUME NEW j \in Jobs, Nudge(j) PROVE Goal
  <2>1. IsActive(j) /\ main' \cup dlq' \subseteq main \cup dlq \cup {CursorOf(j)}
    BY <1>14 DEF Nudge
  <2> QED
    BY <2>1 DEF ComesFrom
<1>15. ASSUME NEW j \in Jobs, Create(j) \/ CloseOverdue(j) \/ Prune(j) \/ Lapse(j) \/ Expire(j)
       PROVE Goal
  BY <1>1, <1>15 DEF Create, CloseOverdue, Prune, Lapse, Expire, queues
<1>16. ASSUME (\E r \in Rows : EditRow(r)) \/ \E f \in 1..Files : EditFile(f) PROVE Goal
  BY <1>1, <1>16 DEF EditRow, EditFile, queues
<1> HIDE DEF Goal
<1>17. Goal
  BY <1>3, <1>4, <1>5, <1>6, <1>7, <1>8, <1>9, <1>10, <1>11, <1>12, <1>13, <1>14, <1>15,
     <1>16 DEF Next, WorkerStep, DeadStep
<1> QED
  BY <1>17 DEF Goal

\* A message leaves the queues into someone's hands, or it had nothing left to do,
\* or its job is over or counted as stranded.
Left(x) ==
    \/ AtCursor(x) /\ \E w \in Workers : worker'[w].pc # "idle" /\ worker'[w].message = x
    \/ AtCursor(x) /\ dead'.pc # "idle" /\ dead'.message = x
    \/ x.job \in stranded'
    \/ job'[x.job].status \notin Active
    \/ /\ job' = job /\ ~AtCursor(x)
       /\ job[x.job].overdue \/ x.count <= job[x.job].count
MessageDoes(x) == x \in main' \cup dlq' \/ Left(x)

LEMMA ClosedMessage ==
    ASSUME TypeOK, NEW m \in Messages, FailAt(m), IsActive(m.job), job[m.job].overdue
    PROVE  Left(m)
<1>1. m.job \in Jobs
  BY MessageFields
<1>2. CASE AtCursor(m)
  <2>1. job'[m.job].status = "failed"
    BY <1>1, <1>2, ClosesWhenFailed DEF FailAt, Closes
  <2> QED
    BY <2>1 DEF Left, Active
<1>3. CASE ~AtCursor(m)
  BY <1>3 DEF FailAt, Left
<1> QED
  BY <1>2, <1>3

LEMMA PastMessage ==
    ASSUME TypeOK, NEW m \in Messages, IsPast(m), job' = job
    PROVE  Left(m)
<1>1. m.job \in Jobs /\ m.count \in Nat /\ m.after \in Nat
  BY MessageFields
<1>2. job[m.job].count \in Nat /\ job[m.job].after \in Nat
  BY <1>1, JobTypes
<1>3. CASE job[m.job].status \notin Active
  BY <1>3 DEF Left
<1>4. CASE job[m.job].count > m.count
  BY <1>1, <1>2, <1>4 DEF Left, AtCursor
<1>5. CASE job[m.job].count = m.count /\ job[m.job].after > m.after
  BY <1>1, <1>2, <1>5 DEF Left, AtCursor
<1> QED
  BY <1>3, <1>4, <1>5 DEF IsPast

LEMMA TakenMessage ==
    ASSUME TypeOK, NEW m \in dlq, DeadTake(m)
    PROVE  MessageDoes(m)
<1>1. m \in Messages /\ m.job \in Jobs /\ m.count \in Nat
  BY MessageFields DEF TypeOK
<1>2. job[m.job].count \in Nat
  BY <1>1, JobTypes
<1>3. CASE AtCursor(m) /\ job[m.job].status = "processing"
  BY <1>3 DEF DeadTake, MessageDoes
<1>4. CASE AtCursor(m) /\ job[m.job].status = "queued"
  BY <1>4 DEF DeadTake, MessageDoes, Left
<1>5. CASE job[m.job].status \notin Active
  BY <1>5 DEF DeadTake, MessageDoes, Left
<1>6. CASE IsAhead(m)
  BY <1>6 DEF DeadTake, MessageDoes, Left
<1>7. CASE ~AtCursor(m) /\ IsActive(m.job) /\ ~IsAhead(m)
  BY <1>1, <1>2, <1>7 DEF DeadTake, MessageDoes, Left, IsAhead
<1> QED
  BY <1>3, <1>4, <1>5, <1>6, <1>7 DEF IsActive, Active

LEMMA WhatMessagesDo ==
    ASSUME TypeOK, Next
    PROVE  \A x \in main \cup dlq : MessageDoes(x)
<1> DEFINE Goal == \A x \in main \cup dlq : MessageDoes(x)
<1>1. ASSUME main \cup dlq \subseteq main' \cup dlq' PROVE Goal
  BY <1>1 DEF MessageDoes
<1>2. ASSUME NEW w \in Workers, Retries(w) PROVE Goal
  <2>1. main' \cup dlq' = main \cup dlq \cup {worker[w].message}
    BY <1>2, AgainKeeps DEF Retries
  <2> QED
    BY <1>1, <2>1
<1>3. ASSUME NEW m \in main, Unclaimable(m) PROVE Goal
  <2>0. m \in Messages
    BY DEF TypeOK
  <2>1. CASE IsActive(m.job) /\ job[m.job].overdue
    <3>1. FailAt(m) /\ main' = main \ {m} /\ dlq' = dlq
      BY <1>3, <2>1 DEF Unclaimable
    <3>2. Left(m)
      BY <2>0, <2>1, <3>1, ClosedMessage
    <3> QED
      BY <3>1, <3>2 DEF MessageDoes
  <2>2. CASE ~(IsActive(m.job) /\ job[m.job].overdue) /\ IsPast(m)
    <3>1. job' = job /\ main' = main \ {m} /\ dlq' = dlq
      BY <1>3, <2>2 DEF Unclaimable
    <3>2. Left(m)
      BY <2>0, <2>2, <3>1, PastMessage
    <3> QED
      BY <3>1, <3>2 DEF MessageDoes
  <2>3. CASE ~(IsActive(m.job) /\ job[m.job].overdue) /\ ~IsPast(m)
    <3>1. Again(m)
      BY <1>3, <2>3 DEF Unclaimable
    <3> QED
      BY <1>1, <3>1, AgainKeeps
  <2> QED
    BY <2>1, <2>2, <2>3
<1>4. ASSUME NEW m \in dlq, DeadTake(m) PROVE Goal
  <2>1. MessageDoes(m)
    BY <1>4, TakenMessage
  <2>2. main \subseteq main' /\ dlq' = dlq \ {m}
    BY <1>4 DEF DeadTake
  <2> QED
    BY <2>1, <2>2 DEF MessageDoes
<1>5. ASSUME DeadFail \/ DeadThrows PROVE Goal
  <2>1. main \cup dlq \subseteq main' \cup dlq'
    BY <1>5 DEF DeadFail, DeadThrows
  <2> QED
    BY <1>1, <2>1
<1>6. ASSUME NEW w \in Workers, FindPage(w) \/ ReadPage(w) PROVE Goal
  <2>1. UNCHANGED queues \/ Errs(w)
    BY <1>6 DEF FindPage, ReadPage
  <2> QED
    BY <1>1, <1>2, <2>1 DEF Errs, queues
<1>7. ASSUME NEW w \in Workers, PutPage(w) PROVE Goal
  BY <1>1, <1>7 DEF PutPage, queues
<1>8. ASSUME NEW w \in Workers, GivesUp(w) \/ Advance(w) PROVE Goal
  <2>1. UNCHANGED queues \/ Retries(w)
    BY <1>8 DEF GivesUp, Advance
  <2> QED
    BY <1>1, <1>2, <2>1 DEF queues
<1>9. ASSUME NEW w \in Workers, SendNext(w) PROVE Goal
  BY <1>1, <1>9 DEF SendNext
<1>10. ASSUME NEW w \in Workers, Throws(w) \/ Dies(w) PROVE Goal
  BY <1>2, <1>10 DEF Throws, Dies, Errs
<1>11. ASSUME NEW w \in Workers, NEW m \in main, Claim(w, m) PROVE Goal
  <2>1. AtCursor(m) /\ CanClaim(m)
    BY <1>11 DEF Claim, CanClaim
  <2>2. CASE /\ main' = main \ {m} /\ UNCHANGED <<dlq, faults>>
             /\ worker' = [worker EXCEPT ![w] = [Free EXCEPT !.pc = "page", !.message = m]]
    <3>1. worker'[w].pc = "page" /\ worker'[w].message = m
      <4>1. worker \in [Workers -> Delivery]
        BY DEF TypeOK, Delivery
      <4> QED
        BY <2>2, <4>1 DEF Free
    <3>2. Left(m)
      BY <2>1, <3>1 DEF Left
    <3> QED
      BY <2>2, <3>2 DEF MessageDoes
  <2>3. CASE UNCHANGED queues
    BY <1>1, <2>3 DEF queues
  <2>4. CASE Again(m)
    BY <1>1, <2>4, AgainKeeps
  <2> QED
    BY <1>11, <2>2, <2>3, <2>4 DEF Claim
<1>12. ASSUME StartSend \/ StartThrows PROVE Goal
  BY <1>1, <1>12 DEF StartSend, StartThrows
<1>13. ASSUME StartFail PROVE Goal
  BY <1>1, <1>13 DEF StartFail, queues
<1>14. ASSUME NEW j \in Jobs, Nudge(j) PROVE Goal
  <2>1. main \cup dlq \subseteq main' \cup dlq'
    BY <1>14 DEF Nudge
  <2> QED
    BY <1>1, <2>1
<1>15. ASSUME NEW j \in Jobs, Create(j) \/ CloseOverdue(j) \/ Prune(j) \/ Lapse(j) \/ Expire(j)
       PROVE Goal
  BY <1>1, <1>15 DEF Create, CloseOverdue, Prune, Lapse, Expire, queues
<1>16. ASSUME (\E r \in Rows : EditRow(r)) \/ \E f \in 1..Files : EditFile(f) PROVE Goal
  BY <1>1, <1>16 DEF EditRow, EditFile, queues
<1> HIDE DEF Goal
<1>17. Goal
  BY <1>3, <1>4, <1>5, <1>6, <1>7, <1>8, <1>9, <1>10, <1>11, <1>12, <1>13, <1>14, <1>15,
     <1>16 DEF Next, WorkerStep, DeadStep
<1> QED
  BY <1>17 DEF Goal

\* A delivery after a step, with a message and a page.
Has(w, pc, m, page) ==
    /\ worker'[w].pc = pc /\ worker'[w].message = m /\ worker'[w].page = page
    /\ m \in Messages /\ page \in {NoPage} \cup Page => worker'[w] \in Delivery
WorkerRests(w) == worker'[w] = worker[w]
WorkerFrees(w) ==
    LET m == worker[w].message IN
    /\ Has(w, "idle", NoMessage, NoPage)
    /\ \/ m \in main' \cup dlq'
       \/ job'[m.job].status \notin Active
       \/ job'[m.job].count # m.count
WorkerClaims(w) ==
    /\ worker[w].pc = "idle"
    /\ \E m \in main : AtCursor(m) /\ CanClaim(m) /\ Has(w, "page", m, NoPage)
WorkerReads(w) ==
    LET m == worker[w].message IN
    worker[w].pc = "page" /\ ~Unreadable(m) /\ Has(w, "put", m, PageFor(m))
WorkerLands(w) ==
    LET m == worker[w].message IN
    /\ Has(w, "stored", m, chunk'[m.job][m.count])
    /\ \/ Stored(m).stored /\ chunk'[m.job][m.count] = Stored(m)
       \/ worker[w].pc = "put" /\ chunk'[m.job][m.count] = worker[w].page
    /\ worker[w].pc # "idle"
WorkerSends(w) ==
    LET m == worker[w].message IN
    /\ worker[w].pc = "stored" /\ worker[w].page.more
    /\ Has(w, "sent", m, worker[w].page) /\ Continuation(w) \in main'
WorkerDoes(w) ==
    \/ WorkerRests(w) \/ WorkerFrees(w) \/ WorkerClaims(w) \/ WorkerReads(w)
    \/ WorkerLands(w) \/ WorkerSends(w)

LEMMA DeliveryFields ==
    ASSUME TypeOK, NEW w \in Workers
    PROVE  /\ worker \in [Workers -> Delivery] /\ worker[w] \in Delivery
           /\ worker[w].pc \in {"idle", "page", "put", "stored", "sent"}
           /\ worker[w].message \in Messages /\ worker[w].page \in {NoPage} \cup Page
<1>1. worker \in [Workers -> Delivery] /\ worker[w] \in Delivery
  BY DEF TypeOK, Delivery
<1> QED
  BY <1>1 DEF Delivery

\* A step is of one delivery.
LEMMA OneDelivery ==
    ASSUME TypeOK, NEW w \in Workers, NEW r, worker' = [worker EXCEPT ![w] = r]
    PROVE  /\ worker'[w] = r /\ \A v \in Workers \ {w} : WorkerDoes(v)
           /\ worker' = [v \in Workers |-> worker'[v]]
<1>1. worker \in [Workers -> Delivery]
  BY DeliveryFields
<1> QED
  BY <1>1 DEF WorkerDoes, WorkerRests

LEMMA FreeRow ==
    /\ Free \in Delivery /\ Free.pc = "idle" /\ Free.message = NoMessage /\ Free.page = NoPage
    /\ NoMessage \in Messages
<1>1. 1 \in Jobs /\ 0 \in 0..MaxPages
  BY Constants, PageBounds DEF Jobs
<1>2. NoMessage \in Messages
  BY <1>1 DEF NoMessage, Messages
<1> QED
  BY <1>2 DEF Free, Delivery

LEMMA FreesWhenRetried ==
    ASSUME TypeOK, NEW w \in Workers, Retries(w)
    PROVE  /\ \A v \in Workers : WorkerDoes(v)
           /\ worker' = [v \in Workers |-> worker'[v]]
<1>1. /\ worker'[w] = Free /\ \A v \in Workers \ {w} : WorkerDoes(v)
      /\ worker' = [v \in Workers |-> worker'[v]]
  BY OneDelivery DEF Retries, Acks
<1>2. worker[w].message \in main' \cup dlq'
  BY AgainKeeps DEF Retries
<1>3. WorkerFrees(w)
  BY <1>1, <1>2, FreeRow DEF WorkerFrees, Has
<1> QED
  BY <1>1, <1>3 DEF WorkerDoes

LEMMA FreesWhenAcked ==
    ASSUME TypeOK, NEW w \in Workers, Acks(w),
           \/ job'[worker[w].message.job].status \notin Active
           \/ job'[worker[w].message.job].count # worker[w].message.count
    PROVE  /\ \A v \in Workers : WorkerDoes(v)
           /\ worker' = [v \in Workers |-> worker'[v]]
<1>1. /\ worker'[w] = Free /\ \A v \in Workers \ {w} : WorkerDoes(v)
      /\ worker' = [v \in Workers |-> worker'[v]]
  BY OneDelivery DEF Acks
<1>2. WorkerFrees(w)
  BY <1>1, FreeRow DEF WorkerFrees, Has
<1> QED
  BY <1>1, <1>2 DEF WorkerDoes

\* A delivery goes on with a page.
LEMMA GoesOnWith ==
    ASSUME TypeOK, NEW w \in Workers, NEW pc \in {"put", "stored", "sent"}, NEW page,
           \/ WithPage(w, page, pc)
           \/ Goes(w, pc) /\ page = worker[w].page
    PROVE  /\ Has(w, pc, worker[w].message, page)
           /\ \A v \in Workers \ {w} : WorkerDoes(v)
           /\ worker' = [v \in Workers |-> worker'[v]]
<1>1. worker \in [Workers -> Delivery] /\ worker[w] \in Delivery
  BY DeliveryFields
<1>2. CASE WithPage(w, page, pc)
  <2> DEFINE r == [worker[w] EXCEPT !.page = page, !.pc = pc]
  <2>1. worker' = [worker EXCEPT ![w] = r]
    BY <1>1, <1>2 DEF WithPage
  <2>2. /\ r.pc = pc /\ r.message = worker[w].message /\ r.page = page
        /\ page \in {NoPage} \cup Page => r \in Delivery
    BY <1>1 DEF Delivery
  <2> HIDE DEF r
  <2>3. /\ worker'[w] = r /\ \A v \in Workers \ {w} : WorkerDoes(v)
        /\ worker' = [v \in Workers |-> worker'[v]]
    BY <2>1, OneDelivery
  <2> QED
    BY <2>2, <2>3 DEF Has
<1>3. CASE Goes(w, pc) /\ page = worker[w].page
  <2> DEFINE r == [worker[w] EXCEPT !.pc = pc]
  <2>1. worker' = [worker EXCEPT ![w] = r]
    BY <1>1, <1>3 DEF Goes
  <2>2. /\ r.pc = pc /\ r.message = worker[w].message /\ r.page = page
        /\ page \in {NoPage} \cup Page => r \in Delivery
    BY <1>1, <1>3 DEF Delivery
  <2> HIDE DEF r
  <2>3. /\ worker'[w] = r /\ \A v \in Workers \ {w} : WorkerDoes(v)
        /\ worker' = [v \in Workers |-> worker'[v]]
    BY <2>1, OneDelivery
  <2> QED
    BY <2>2, <2>3 DEF Has
<1> QED
  BY <1>2, <1>3

LEMMA WhatWorkersDo ==
    ASSUME TypeOK, Next
    PROVE  /\ \A w \in Workers : WorkerDoes(w)
           /\ worker' = [w \in Workers |-> worker'[w]]
<1> DEFINE Goal == (\A w \in Workers : WorkerDoes(w)) /\ worker' = [w \in Workers |-> worker'[w]]
<1>1. ASSUME UNCHANGED worker PROVE Goal
  <2>1. worker = [w \in Workers |-> worker[w]]
    BY DEF TypeOK
  <2> QED
    BY <1>1, <2>1 DEF WorkerDoes, WorkerRests
<1>2. ASSUME NEW w \in Workers, FindPage(w) PROVE Goal
  <2> DEFINE m == worker[w].message
             page == Stored(m)
  <2>1. CASE page.from = m.after
    <3>1. /\ WithPage(w, page, "stored") /\ page.stored /\ chunk' = chunk
          /\ worker[w].pc = "page"
      BY <1>2, <2>1 DEF FindPage
    <3> HIDE DEF page
    <3>2. /\ Has(w, "stored", m, page)
          /\ \A v \in Workers \ {w} : WorkerDoes(v)
          /\ worker' = [v \in Workers |-> worker'[v]]
      BY <3>1, GoesOnWith
    <3>3. chunk'[m.job][m.count] = page
      BY <3>1 DEF page, Stored
    <3>4. WorkerLands(w)
      BY <3>1, <3>2, <3>3 DEF WorkerLands, page
    <3> QED
      BY <3>2, <3>4 DEF WorkerDoes
  <2>2. CASE ~(page.from = m.after)
    BY <1>2, <2>2, FreesWhenRetried DEF FindPage, Errs
  <2> QED
    BY <2>1, <2>2
<1>3. ASSUME NEW w \in Workers, ReadPage(w) PROVE Goal
  <2> DEFINE m == worker[w].message
             page == PageFor(m)
  <2>1. CASE ~Unreadable(m)
    <3>1. WithPage(w, page, "put") /\ worker[w].pc = "page"
      BY <1>3, <2>1 DEF ReadPage
    <3> HIDE DEF page
    <3>2. /\ Has(w, "put", m, page)
          /\ \A v \in Workers \ {w} : WorkerDoes(v)
          /\ worker' = [v \in Workers |-> worker'[v]]
      BY <3>1, GoesOnWith
    <3>3. WorkerReads(w)
      BY <2>1, <3>1, <3>2 DEF WorkerReads, page
    <3> QED
      BY <3>2, <3>3 DEF WorkerDoes
  <2>2. CASE Unreadable(m)
    BY <1>3, <2>2, FreesWhenRetried DEF ReadPage, Errs
  <2> QED
    BY <2>1, <2>2
<1>4. ASSUME NEW w \in Workers, PutPage(w) PROVE Goal
  <2> DEFINE m == worker[w].message
             page == IF MayPut(m) THEN worker[w].page ELSE Stored(m)
  <2>1. m.job \in Jobs /\ m.count \in 0..MaxPages
    BY DeliveryFields, MessageFields
  <2>2. /\ WithPage(w, page, "stored") \/ (Goes(w, "stored") /\ page = worker[w].page)
        /\ worker[w].pc = "put"
    BY <1>4 DEF PutPage
  <2>3. chunk'[m.job][m.count] = page
    <3>1. /\ chunk \in [Jobs -> [0..MaxPages -> {NoPage} \cup Page]]
          /\ chunk[m.job] \in [0..MaxPages -> {NoPage} \cup Page]
      BY <2>1 DEF TypeOK
    <3>2. CASE MayPut(m)
      BY <1>4, <2>1, <3>1, <3>2 DEF PutPage
    <3>3. CASE ~MayPut(m)
      BY <1>4, <3>3 DEF PutPage, Stored
    <3> QED
      BY <3>2, <3>3
  <2>4. page = worker[w].page \/ (page = Stored(m) /\ Stored(m).stored)
    BY DEF MayPut
  <2> HIDE DEF page
  <2>5. /\ Has(w, "stored", m, page)
        /\ \A v \in Workers \ {w} : WorkerDoes(v)
        /\ worker' = [v \in Workers |-> worker'[v]]
    BY <2>2, GoesOnWith
  <2>6. WorkerLands(w)
    BY <2>2, <2>3, <2>4, <2>5 DEF WorkerLands
  <2> QED
    BY <2>5, <2>6 DEF WorkerDoes
<1>5. ASSUME NEW w \in Workers, GivesUp(w) PROVE Goal
  <2> DEFINE m == worker[w].message
  <2>1. m.job \in Jobs
    BY DeliveryFields, MessageFields
  <2>2. CASE Holds(w) /\ AtCursor(m)
    <3>1. Write(m.job, Closed(job[m.job], "failed")) /\ Acks(w)
      BY <1>5, <2>2 DEF GivesUp
    <3>2. IsActive(m.job)
      BY <2>2 DEF Holds, IsActive, Active
    <3>3. job'[m.job].status \notin Active
      BY <2>1, <3>1, <3>2, ClosesWhenFailed DEF Closes, Active
    <3> QED
      BY <3>1, <3>3, FreesWhenAcked
  <2>3. CASE ~(Holds(w) /\ AtCursor(m))
    BY <1>5, <2>3, FreesWhenRetried DEF GivesUp
  <2> QED
    BY <2>2, <2>3
<1>6. ASSUME NEW w \in Workers, SendNext(w) PROVE Goal
  <2> DEFINE m == worker[w].message
  <2>1. /\ worker[w].pc = "stored" /\ worker[w].page.more /\ Goes(w, "sent")
        /\ Continuation(w) \in main'
    BY <1>6 DEF SendNext
  <2>2. /\ Has(w, "sent", m, worker[w].page)
        /\ \A v \in Workers \ {w} : WorkerDoes(v)
        /\ worker' = [v \in Workers |-> worker'[v]]
    BY <2>1, GoesOnWith
  <2>3. WorkerSends(w)
    BY <2>1, <2>2 DEF WorkerSends
  <2> QED
    BY <2>2, <2>3 DEF WorkerDoes
<1>7. ASSUME NEW w \in Workers, Advance(w) PROVE Goal
  <2> DEFINE m == worker[w].message
             i == m.job
  <2>1. CASE Retries(w)
    BY <2>1, FreesWhenRetried
  <2>2. CASE Acks(w) /\ MayAdvance(w)
    <3>1. /\ worker[w].pc = "sent" \/ (worker[w].pc = "stored" /\ ~worker[w].page.more)
          /\ Write(i, Advanced(job[i], m, worker[w].page))
      BY <1>7, <2>2 DEF Advance
    <3>2. MovesBy(w, i)
      BY <2>2, <3>1, MovesWhenAdvanced
    <3>3. job'[i].count = job[i].count + 1 /\ job[i].count = m.count
      BY <2>2, <3>2 DEF MovesBy, MayAdvance, AtCursor
    <3>4. i \in Jobs
      BY DeliveryFields, MessageFields
    <3>5. job[i].count \in Nat
      BY <3>4, JobTypes
    <3>6. job'[i].count # m.count
      BY <3>3, <3>5
    <3> QED
      BY <2>2, <3>6, FreesWhenAcked
  <2> QED
    BY <1>7, <2>1, <2>2 DEF Advance
<1>8. ASSUME NEW w \in Workers, Throws(w) \/ Dies(w) PROVE Goal
  BY <1>8, FreesWhenRetried DEF Throws, Dies, Errs
<1>9. ASSUME NEW w \in Workers, NEW m \in main, Claim(w, m) PROVE Goal
  <2>1. CanClaim(m) /\ AtCursor(m) /\ worker[w].pc = "idle"
    BY <1>9 DEF Claim, CanClaim
  <2>2. CASE UNCHANGED worker
    BY <1>1, <2>2
  <2> DEFINE r == [Free EXCEPT !.pc = "page", !.message = m]
  <2>3. CASE worker' = [worker EXCEPT ![w] = r]
    <3>1. /\ r.pc = "page" /\ r.message = m /\ r.page = NoPage
          /\ m \in Messages => r \in Delivery
      BY DEF Free, Delivery
    <3> HIDE DEF r
    <3>2. /\ worker'[w] = r /\ \A v \in Workers \ {w} : WorkerDoes(v)
          /\ worker' = [v \in Workers |-> worker'[v]]
      BY <2>3, OneDelivery
    <3>3. Has(w, "page", m, NoPage)
      BY <3>1, <3>2 DEF Has
    <3>4. WorkerClaims(w)
      BY <2>1, <3>3 DEF WorkerClaims
    <3> QED
      BY <3>2, <3>4 DEF WorkerDoes
  <2> QED
    BY <1>9, <2>2, <2>3 DEF Claim
<1> HIDE DEF Goal
<1>10. CASE UNCHANGED worker
  BY <1>1, <1>10 DEF Goal
<1>11. CASE ~UNCHANGED worker
  <2>1. \E w \in Workers :
          WorkerStep(w) \/ Throws(w) \/ Dies(w) \/ \E m \in main : Claim(w, m)
    BY <1>11 DEF Next, DeadStep, Unclaimable, DeadFail, DeadTake, DeadThrows, StartSend,
       StartThrows, StartFail, Create, Nudge, CloseOverdue, Prune, Lapse, Expire, EditRow, EditFile
  <2> QED
    BY <1>2, <1>3, <1>4, <1>5, <1>6, <1>7, <1>8, <1>9, <2>1 DEF WorkerStep, Goal
<1> QED
  BY <1>10, <1>11 DEF Goal

LEMMA WhatOthersDo ==
    ASSUME TypeOK, Next
    PROVE  /\ \/ dead' = dead
              \/ dead.pc = "idle" /\ \E m \in dlq : dead' = [pc |-> "fail", message |-> m]
              \/ /\ dead' = Asleep
                 /\ \/ dead.message \in main' \cup dlq'
                    \/ dead.message.job \in stranded'
                    \/ job'[dead.message.job].status \notin Active
           /\ \/ starter' = starter
              \/ starter'.pc # "idle" /\ job'[starter'.job].status = "queued"
                    /\ starter.pc = "idle" /\ starter' \in [pc: {"idle", "send", "fail"}, job: Jobs]
              \/ /\ starter'.pc \in {"fail", "idle"} /\ starter'.job = starter.job
                 /\ starter.pc \in {"send", "fail"}
                 /\ starter' \in [pc: {"idle", "send", "fail"}, job: Jobs]
                 /\ starter.pc = "send" => \/ FirstMessage(starter.job) \in main'
                                           \/ starter.job \in stranded'
           /\ stranded \subseteq stranded' /\ stranded' \subseteq Jobs
<1>1. /\ dead \in [pc: {"idle", "fail"}, message: Messages]
      /\ starter \in [pc: {"idle", "send", "fail"}, job: Jobs]
      /\ job \in [Jobs -> JobRow] /\ dlq \subseteq Messages /\ stranded \subseteq Jobs
  BY DEF TypeOK
<1>2. \/ dead' = dead
      \/ dead.pc = "idle" /\ \E m \in dlq : dead' = [pc |-> "fail", message |-> m]
      \/ /\ dead' = Asleep
         /\ \/ dead.message \in main' \cup dlq'
            \/ dead.message.job \in stranded'
            \/ job'[dead.message.job].status \notin Active
  <2>1. ASSUME DeadFail
        PROVE  \/ dead.message \in main' \cup dlq'
               \/ job'[dead.message.job].status \notin Active
    <3>1. dead.message.job \in Jobs
      BY <1>1, MessageFields
    <3>2. CASE /\ Write(dead.message.job, Closed(job[dead.message.job], "failed"))
               /\ IsActive(dead.message.job)
      BY <3>1, <3>2, ClosesWhenFailed DEF Closes, Active
    <3> QED
      BY <2>1, <3>2 DEF DeadFail, IsActive, Active
  <2>2. ASSUME NEW m \in dlq, DeadTake(m)
        PROVE  dead' = dead \/ (dead.pc = "idle" /\ dead' = [pc |-> "fail", message |-> m])
    BY <2>2 DEF DeadTake
  <2>3. ASSUME DeadThrows
        PROVE  dead' = Asleep /\ (dead.message \in dlq' \/ dead.message.job \in stranded')
    BY <2>3 DEF DeadThrows
  <2>4. DeadFail => dead' = Asleep
    BY DEF DeadFail
  <2> QED
    BY <2>1, <2>2, <2>3, <2>4, WhatStays
<1>3. \/ starter' = starter
      \/ starter'.pc # "idle" /\ job'[starter'.job].status = "queued"
            /\ starter.pc = "idle" /\ starter' \in [pc: {"idle", "send", "fail"}, job: Jobs]
      \/ /\ starter'.pc \in {"fail", "idle"} /\ starter'.job = starter.job
         /\ starter.pc \in {"send", "fail"}
         /\ starter' \in [pc: {"idle", "send", "fail"}, job: Jobs]
         /\ starter.pc = "send" => \/ FirstMessage(starter.job) \in main'
                                   \/ starter.job \in stranded'
  <2>1. ASSUME NEW j \in Jobs, Create(j)
        PROVE  /\ starter' = [pc |-> "send", job |-> j] /\ job'[j].status = "queued"
               /\ starter.pc = "idle"
    <3>1. PICK format \in Formats : Write(j, Opened(format))
      BY <2>1 DEF Create
    <3>2. job'[j] = Opened(format)
      BY <3>1, WriteOne
    <3>3. format \in {"csv", "complete"}
      BY FormatAssumption
    <3> QED
      BY <2>1, <3>2, <3>3, NoJobRow DEF Create, Opened
  <2>2. ASSUME StartSend \/ StartThrows \/ StartFail
        PROVE  /\ starter' = [starter EXCEPT !.pc = "idle"] \/ starter' = [starter EXCEPT !.pc = "fail"]
               /\ starter.pc \in {"send", "fail"}
               /\ starter.pc = "send" => \/ FirstMessage(starter.job) \in main'
                                         \/ starter.job \in stranded'
    BY <2>2 DEF StartSend, StartThrows, StartFail
  <2> QED
    BY <1>1, <2>1, <2>2, WhatStays
<1>4. stranded \subseteq stranded' /\ stranded' \subseteq Jobs
  <2>1. ASSUME NEW m \in dlq, DeadTake(m)
        PROVE  stranded \subseteq stranded' /\ stranded' \subseteq Jobs
    <3>1. m.job \in Jobs
      BY <1>1, MessageFields
    <3> QED
      BY <1>1, <2>1, <3>1 DEF DeadTake
  <2>2. dead.message.job \in Jobs /\ starter.job \in Jobs
    BY <1>1, MessageFields
  <2> QED
    BY <1>1, <2>1, <2>2, WhatStays DEF DeadThrows, StartThrows
<1> QED
  BY <1>2, <1>3, <1>4

(***************************************************************************)
(* Every step keeps the invariant.                                         *)
(***************************************************************************)

Steps ==
    /\ \A j \in Jobs : JobDoes(j) /\ PagesDo(j)
    /\ \A w \in Workers : WorkerDoes(w)
    /\ \A x \in main \cup dlq : MessageDoes(x)
    /\ \A x \in main' \cup dlq' : ComesFrom(x)
    /\ Unedited' \subseteq Unedited

LEMMA WhatStepsDo ==
    ASSUME IInv, Next
    PROVE  Steps
  BY WhatJobsDo, WhatPagesDo, WhatWorkersDo, WhatMessagesDo, WhereMessagesComeFrom,
     WhatEditsDo DEF Steps, IInv

LEMMA PagedStays ==
    ASSUME IInv, Steps
    PROVE  Paged'
<1> SUFFICES ASSUME NEW j \in Jobs PROVE PagesOk(j)'
  BY DEF Paged
<1>1. PagesOk(j) /\ Unedited' \subseteq Unedited /\ JobDoes(j) /\ Kept(j) /\ Paged /\ TypeOK
  BY DEF IInv, Paged, Steps
<1>2. CASE chunk'[j] = chunk[j]
  <2>1. SameFormat(j) \/ Empty(j)
    BY <1>1 DEF JobDoes, Rests, Opens, Closes, Moves, MovesBy, Drops, Kept, Empty
  <2> QED
    BY <1>1, <1>2, <2>1, PagesStay
<1>3. CASE \E w \in Workers : PutsBy(w, j)
  <2>1. PICK w \in Workers : PutsBy(w, j)
    BY <1>3
  <2>2. PICK n, page : n = worker[w].message.count /\ page = worker[w].page
    OBVIOUS
  <2>3. /\ n \in 0..MaxPages /\ Puts(j, n, page) /\ page.stored /\ UNCHANGED job
    BY <2>1, <2>2 DEF PutsBy
  <2>4. SameFormat(j)
    BY <2>3 DEF SameFormat
  <2> QED
    BY <1>1, <2>3, <2>4, PagesGrow
<1> QED
  BY <1>2, <1>3 DEF Steps, PagesDo

\* A page that is stored does not change.
LEMMA StoredStays ==
    ASSUME Steps, NEW j \in Jobs, NEW n \in 0..MaxPages, IsStored(j, n)
    PROVE  chunk'[j][n] = chunk[j][n]
<1>1. CASE chunk'[j] = chunk[j]
  BY <1>1
<1>2. ASSUME NEW w \in Workers, PutsBy(w, j) PROVE chunk'[j][n] = chunk[j][n]
  BY <1>2 DEF PutsBy, Puts
<1> QED
  BY <1>1, <1>2 DEF Steps, PagesDo

LEMMA ReachedStays ==
    ASSUME Steps, NEW j \in Jobs, NEW n \in 0..MaxPages, \A l \in 0..(n - 1) : IsStored(j, l)
    PROVE  /\ Reached(j, n)' <=> Reached(j, n)
           /\ PlaceOf(j, n)' = PlaceOf(j, n)
           /\ RowsOf(j, n)' = RowsOf(j, n)
           /\ \A l \in 0..(n - 1) : chunk'[j][l] = chunk[j][l]
<1>1. n \in Nat /\ \A l \in 0..(n - 1) : l \in 0..MaxPages
  BY PageBounds
<1>2. \A l \in 0..(n - 1) : chunk'[j][l] = chunk[j][l]
  BY <1>1, StoredStays
<1> QED
  BY <1>1, <1>2, PrefixStays

\* A job keeps its format, and one that was inserted stays so.
LEMMA RowStays ==
    ASSUME Steps, TypeOK, NEW j \in Jobs, job[j].status # "none"
    PROVE  /\ SameFormat(j) /\ job'[j].status # "none"
           /\ job'[j].status \in Active =>
                /\ IsActive(j) /\ job[j].count <= job'[j].count
                /\ Rests(j) \/ Moves(j)
<1>1. JobDoes(j) /\ job[j].count \in Nat
  BY JobTypes DEF Steps
<1>2. CASE Rests(j)
  BY <1>1, <1>2 DEF Rests, IsActive, Active
<1>3. CASE Moves(j)
  BY <1>1, <1>3 DEF Moves, MovesBy, MayAdvance, IsActive, Active
<1>4. CASE Closes(j) \/ Drops(j)
  BY <1>4 DEF Closes, Drops, Active
<1>5. ~Opens(j)
  BY DEF Opens
<1> QED
  BY <1>1, <1>2, <1>3, <1>4, <1>5 DEF JobDoes

LEMMA AfterStays ==
    ASSUME NEW j, NEW n, SameFormat(j), PlaceOf(j, n)' = PlaceOf(j, n)
    PROVE  AfterAt(j, n)' = AfterAt(j, n)
  BY DEF AfterAt, SameFormat

LEMMA MarkedStays ==
    ASSUME Steps, TypeOK, NEW m \in Messages, Marked(m)
    PROVE  Marked(m)'
<1> DEFINE j == m.job
           n == m.count
<1>1. j \in Jobs /\ n \in 0..MaxPages
  BY MessageFields
<1>2. Reached(j, n) /\ job[j].status # "none" /\ m.after = AfterAt(j, n)
  BY DEF Marked
<1>3. \A l \in 0..(n - 1) : IsStored(j, l)
  BY <1>2 DEF Reached, IsStored
<1>4. Reached(j, n)' /\ PlaceOf(j, n)' = PlaceOf(j, n)
  BY <1>1, <1>2, <1>3, ReachedStays
<1>5. SameFormat(j) /\ job'[j].status # "none"
  BY <1>1, <1>2, RowStays
<1>6. AfterAt(j, n)' = AfterAt(j, n)
  BY <1>4, <1>5, AfterStays
<1> QED
  BY <1>2, <1>4, <1>5, <1>6 DEF Marked

\* The message of an active job's cursor, and the first one, are at a place.
LEMMA CursorMarked ==
    ASSUME TypeOK, NEW j \in Jobs, IsActive(j), Kept(j)
    PROVE  Marked(CursorOf(j))
<1>1. /\ Reached(j, job[j].count) /\ job[j].after = AfterAt(j, job[j].count)
      /\ job[j].status # "none"
  BY DEF Kept, IsActive, Active
<1>2. CursorOf(j) \in Messages
  BY JobTypes DEF CursorOf, Messages
<1>3. CursorOf(j).job = j /\ CursorOf(j).count = job[j].count /\ CursorOf(j).after = job[j].after
  BY DEF CursorOf
<1> QED
  BY <1>1, <1>2, <1>3 DEF Marked

LEMMA FirstMarked ==
    ASSUME NEW j \in Jobs, job[j].status # "none"
    PROVE  Marked(FirstMessage(j))
<1>1. FirstMessage(j) \in Messages
  BY PageBounds DEF FirstMessage, Messages
<1>2. FirstMessage(j).job = j /\ FirstMessage(j).count = 0 /\ FirstMessage(j).after = 0
  BY DEF FirstMessage
<1>3. Reached(j, 0) /\ AfterAt(j, 0) = 0
  BY OriginIsPlace DEF Reached, AfterAt, PlaceOf
<1> QED
  BY <1>1, <1>2, <1>3 DEF Marked

\* The place after a page.
LEMMA NextPlace ==
    ASSUME TypeOK, Paged, NEW m \in Messages, Marked(m), NEW page,
           page = chunk[m.job][m.count], page.stored, page.more
    PROVE  /\ Reached(m.job, m.count + 1) /\ m.count + 1 \in 0..MaxPages
           /\ AfterAt(m.job, m.count + 1) = NextAfter(m, page)
<1> DEFINE j == m.job
           n == m.count
<1>1. j \in Jobs /\ n \in 0..MaxPages /\ n \in Nat
  BY MessageFields
<1>2. Reached(j, n)
  BY DEF Marked
<1>3. n + 1 \in 0..MaxPages
  BY <1>1, <1>2, RoomForPage
<1>4. Reached(j, n + 1)
  <2>1. \A l \in 0..((n + 1) - 1) : l \in 0..(n - 1) \/ l = n
    BY <1>1
  <2> QED
    BY <1>2, <2>1 DEF Reached
<1>5. PlaceOf(j, n + 1) = page.next
  BY <1>1 DEF PlaceOf
<1>6. AfterAt(j, n + 1) = NextAfter(m, page)
  BY <1>5 DEF AfterAt, NextAfter
<1> QED
  BY <1>3, <1>4, <1>6

LEMMA ContinuationMarked ==
    ASSUME TypeOK, Paged, NEW w \in Workers, InHand(w),
           worker[w].pc \in {"stored", "sent"}, worker[w].page.more
    PROVE  Marked(Continuation(w))
<1> DEFINE m == worker[w].message
           page == worker[w].page
           c == Continuation(w)
<1>1. m \in Messages
  BY DeliveryFields
<1>2. Marked(m) /\ page.stored /\ page = chunk[m.job][m.count]
  BY DEF InHand
<1>3. m.job \in Jobs /\ job[m.job].status # "none"
  BY <1>1, <1>2, MessageFields DEF Marked
<1> HIDE DEF m, page
<1>4. /\ Reached(m.job, m.count + 1) /\ m.count + 1 \in 0..MaxPages
      /\ AfterAt(m.job, m.count + 1) = NextAfter(m, page)
  BY <1>1, <1>2, NextPlace DEF page
<1>5. NextAfter(m, page) \in 0..MaxPages
  BY <1>3, <1>4, AfterTypes
<1>6. c = [job |-> m.job, after |-> NextAfter(m, page), count |-> m.count + 1]
  BY DEF Continuation, m, page
<1>7. c \in Messages /\ c.job = m.job /\ c.count = m.count + 1 /\ c.after = NextAfter(m, page)
  BY <1>3, <1>4, <1>5, <1>6 DEF Messages
<1> HIDE DEF c
<1>8. Marked(c)
  BY <1>3, <1>4, <1>7 DEF Marked
<1> QED
  BY <1>8 DEF c

LEMMA CarriedStays ==
    ASSUME IInv, Steps, Next
    PROVE  Carried' /\ main' \cup dlq' \subseteq Messages
<1>1. /\ TypeOK /\ Paged /\ Carried /\ \A j \in Jobs : Kept(j)
      /\ \A w \in Workers : InHand(w)
  BY DEF IInv
<1>2. ASSUME NEW x, ComesFrom(x) PROVE x \in Messages /\ Marked(x)
  <2>1. CASE x \in main \cup dlq
    BY <1>1, <2>1 DEF Carried, Marked
  <2>2. ASSUME NEW w \in Workers, worker[w].pc # "idle", x = worker[w].message
        PROVE  x \in Messages /\ Marked(x)
    BY <1>1, <2>2 DEF InHand, Marked
  <2>3. CASE dead.pc # "idle" /\ x = dead.message
    BY <1>1, <2>3 DEF Carried, Marked
  <2>4. ASSUME NEW w \in Workers, worker[w].pc = "stored", worker[w].page.more,
               x = Continuation(w)
        PROVE  x \in Messages /\ Marked(x)
    BY <1>1, <2>4, ContinuationMarked DEF Marked
  <2>5. ASSUME NEW j \in Jobs, IsActive(j), x = CursorOf(j)
        PROVE  x \in Messages /\ Marked(x)
    BY <1>1, <2>5, CursorMarked DEF Marked
  <2>6. CASE starter.pc = "send" /\ x = FirstMessage(starter.job)
    <3>1. starter.job \in Jobs /\ job[starter.job].status # "none"
      BY <1>1, <2>6 DEF Carried, TypeOK
    <3> QED
      BY <2>6, <3>1, FirstMarked DEF Marked
  <2> QED
    BY <1>2, <2>1, <2>2, <2>3, <2>4, <2>5, <2>6 DEF ComesFrom
<1>3. \A x \in main' \cup dlq' : x \in Messages /\ Marked(x)
  BY <1>2 DEF Steps
<1>4. \A x \in main' \cup dlq' : Marked(x)'
  <2>1. SUFFICES ASSUME NEW x \in main' \cup dlq' PROVE Marked(x)'
    OBVIOUS
  <2> QED
    BY <1>1, <1>3, MarkedStays
<1>5. dead'.pc # "idle" => Marked(dead.message)'
  <2>1. dead' = dead \/ (\E m \in dlq : dead' = [pc |-> "fail", message |-> m]) \/ dead' = Asleep
    BY <1>1, WhatOthersDo
  <2>2. CASE dead' = dead
    <3>1. ASSUME dead.pc # "idle" PROVE Marked(dead.message)'
      <4>1. PICK m : m = dead.message
        OBVIOUS
      <4>2. m \in Messages /\ Marked(m)
        BY <1>1, <3>1, <4>1 DEF Carried, Marked
      <4>3. Marked(m)'
        BY <1>1, <4>2, MarkedStays
      <4> QED
        BY <2>2, <4>1, <4>3
    <3> QED
      BY <2>2, <3>1
  <2>3. ASSUME NEW m \in dlq, dead' = [pc |-> "fail", message |-> m]
        PROVE  Marked(dead.message)'
    <3>1. m \in Messages /\ Marked(m)
      BY <1>1 DEF Carried, Marked
    <3>2. Marked(m)'
      BY <1>1, <3>1, MarkedStays
    <3> QED
      BY <2>3, <3>2
  <2> QED
    BY <2>1, <2>2, <2>3 DEF Asleep
<1>6. starter'.pc # "idle" => job'[starter'.job].status # "none"
  <2>1. /\ \/ starter' = starter
           \/ job'[starter'.job].status = "queued"
           \/ starter'.job = starter.job /\ starter.pc \in {"send", "fail"}
        /\ starter.job \in Jobs
    BY <1>1, WhatOthersDo DEF TypeOK
  <2>2. starter.pc # "idle" => job'[starter.job].status # "none"
    BY <1>1, <2>1, RowStays DEF Carried
  <2> QED
    BY <2>1, <2>2
<1> QED
  BY <1>3, <1>4, <1>5, <1>6 DEF Carried

LEMMA FitsAtStays ==
    ASSUME Steps, TypeOK, NEW m \in Messages, Marked(m), NEW page,
           Fits(m.job, m.count, page)
    PROVE  Fits(m.job, m.count, page)'
<1> DEFINE j == m.job
           n == m.count
<1>1. /\ j \in Jobs /\ n \in 0..MaxPages /\ Reached(j, n) /\ job[j].status # "none"
      /\ Fits(j, n, page)
  BY MessageFields DEF Marked
<1> HIDE DEF j, n
<1>2. \A l \in 0..(n - 1) : IsStored(j, l)
  BY <1>1 DEF Reached, IsStored
<1>3. PlaceOf(j, n)' = PlaceOf(j, n) /\ SameFormat(j) /\ Unedited' \subseteq Unedited
  BY <1>1, <1>2, ReachedStays, RowStays DEF Steps
<1>4. Fits(j, n, page)'
  BY <1>1, <1>3, FitsStay
<1> QED
  BY <1>4 DEF j, n

LEMMA InHandStays ==
    ASSUME IInv, Steps, NEW w \in Workers
    PROVE  InHand(w)'
<1>1. /\ TypeOK /\ Sourced /\ Paged /\ Carried /\ InHand(w) /\ \A j \in Jobs : Kept(j)
  BY DEF IInv
<1> DEFINE m == worker[w].message
           page == worker[w].page
<1>2. m \in Messages /\ m.job \in Jobs /\ m.count \in 0..MaxPages /\ m.count \in Nat
  BY <1>1, DeliveryFields, MessageFields
<1>3. worker[w].pc # "idle" => /\ Marked(m)
                               /\ IsActive(m.job) => m.count <= job[m.job].count
  BY <1>1 DEF InHand
\* What holds of any message at a place.
<1>4. ASSUME NEW x \in Messages, Marked(x), IsActive(x.job) => x.count <= job[x.job].count
      PROVE  Marked(x)' /\ (job'[x.job].status \in Active => x.count <= job'[x.job].count)
  <2>1. x.job \in Jobs /\ x.count \in Nat /\ job[x.job].status # "none"
    BY <1>4, MessageFields DEF Marked
  <2>2. job[x.job].count \in Nat /\ JobDoes(x.job)
    BY <1>1, <2>1, JobTypes DEF Steps
  <2>3. job'[x.job].status \in Active =>
           IsActive(x.job) /\ job[x.job].count <= job'[x.job].count
    BY <1>1, <2>1, RowStays
  <2>4. job'[x.job].count \in Nat \/ job'[x.job].status \notin Active
    BY <2>2 DEF JobDoes, Rests, Opens, Closes, Moves, MovesBy, Drops, Active
  <2>5. Marked(x)'
    BY <1>1, <1>4, MarkedStays
  <2> QED
    BY <1>4, <2>1, <2>2, <2>3, <2>4, <2>5
<1>5. CASE worker'[w].pc = "idle"
  BY <1>5 DEF InHand
<1>6. CASE WorkerRests(w) /\ worker[w].pc # "idle"
  <2>1. PICK x, g : x = m /\ g = page
    OBVIOUS
  <2>2. x \in Messages /\ Marked(x) /\ (IsActive(x.job) => x.count <= job[x.job].count)
    BY <1>2, <1>3, <1>6, <2>1
  <2>3. /\ worker'[w].pc = worker[w].pc /\ worker'[w].message = x /\ worker'[w].page = g
    BY <1>6, <2>1 DEF WorkerRests
  <2>4. Marked(x)' /\ (job'[x.job].status \in Active => x.count <= job'[x.job].count)
    BY <1>4, <2>2
  <2>5. worker[w].pc = "put" => g.stored /\ Fits(x.job, x.count, g)'
    BY <1>1, <2>1, <2>2, FitsAtStays DEF InHand
  <2>6. worker[w].pc \in {"stored", "sent"} => g.stored /\ g = chunk'[x.job][x.count]
    <3>1. worker[w].pc \in {"stored", "sent"} => g.stored /\ g = chunk[x.job][x.count]
      BY <1>1, <2>1 DEF InHand
    <3> QED
      BY <1>2, <2>1, <3>1, StoredStays DEF IsStored
  <2>7. worker[w].pc = "sent" => g.more
    BY <1>1, <2>1 DEF InHand
  <2> QED
    BY <2>3, <2>4, <2>5, <2>6, <2>7 DEF InHand, IsActive
<1>7. CASE WorkerFrees(w)
  BY <1>5, <1>7 DEF WorkerFrees, Has
<1>8. CASE WorkerClaims(w)
  <2>1. PICK x \in main : AtCursor(x) /\ CanClaim(x) /\ Has(w, "page", x, NoPage)
    BY <1>8 DEF WorkerClaims
  <2>2. x \in Messages /\ Marked(x)
    BY <1>1 DEF Carried, Marked
  <2>3. x.count <= job[x.job].count
    <3>1. x.count \in Nat /\ x.count = job[x.job].count
      BY <2>1, <2>2, MessageFields DEF AtCursor
    <3> QED
      BY <3>1
  <2>4. Marked(x)' /\ (job'[x.job].status \in Active => x.count <= job'[x.job].count)
    BY <1>4, <2>2, <2>3
  <2> QED
    BY <2>1, <2>4 DEF InHand, Has, IsActive
<1>9. CASE WorkerReads(w)
  <2>1. PICK x, g : x = m /\ g = PageFor(m)
    OBVIOUS
  <2>2. worker[w].pc = "page" /\ ~Unreadable(x) /\ Has(w, "put", x, g)
    BY <1>9, <2>1 DEF WorkerReads
  <2>3. x \in Messages /\ Marked(x) /\ (IsActive(x.job) => x.count <= job[x.job].count)
    BY <1>2, <1>3, <2>1, <2>2
  <2>4. g.stored = TRUE /\ Fits(x.job, x.count, g)
    BY <1>1, <2>1, <2>2, <2>3, PageReadFits
  <2>5. Fits(x.job, x.count, g)'
    BY <1>1, <2>3, <2>4, FitsAtStays
  <2>6. Marked(x)' /\ (job'[x.job].status \in Active => x.count <= job'[x.job].count)
    BY <1>4, <2>3
  <2> QED
    BY <2>2, <2>4, <2>5, <2>6 DEF InHand, Has, IsActive
<1>10. CASE WorkerLands(w)
  <2>1. PICK x, g : x = m /\ g = chunk'[m.job][m.count]
    OBVIOUS
  <2>2. worker[w].pc # "idle" /\ Has(w, "stored", x, g)
    BY <1>10, <2>1 DEF WorkerLands
  <2>3. x \in Messages /\ Marked(x) /\ (IsActive(x.job) => x.count <= job[x.job].count)
    BY <1>2, <1>3, <2>1, <2>2
  <2>4. g.stored
    BY <1>1, <1>10, <2>1 DEF WorkerLands, InHand
  <2>5. Marked(x)' /\ (job'[x.job].status \in Active => x.count <= job'[x.job].count)
    BY <1>4, <2>3
  <2> QED
    BY <2>1, <2>2, <2>4, <2>5 DEF InHand, Has, IsActive
<1>11. CASE WorkerSends(w)
  <2>1. PICK x, g : x = m /\ g = page
    OBVIOUS
  <2>2. worker[w].pc = "stored" /\ Has(w, "sent", x, g) /\ g.more
    BY <1>11, <2>1 DEF WorkerSends
  <2>3. x \in Messages /\ Marked(x) /\ (IsActive(x.job) => x.count <= job[x.job].count)
    BY <1>2, <1>3, <2>1, <2>2
  <2>4. g.stored /\ g = chunk[x.job][x.count]
    BY <1>1, <2>1, <2>2 DEF InHand
  <2>5. g = chunk'[x.job][x.count]
    BY <1>2, <2>1, <2>4, StoredStays DEF IsStored
  <2>6. Marked(x)' /\ (job'[x.job].status \in Active => x.count <= job'[x.job].count)
    BY <1>4, <2>3
  <2> QED
    BY <2>2, <2>4, <2>5, <2>6 DEF InHand, Has, IsActive
<1>12. CASE WorkerRests(w) /\ worker[w].pc = "idle"
  BY <1>5, <1>12 DEF WorkerRests
<1> QED
  BY <1>6, <1>7, <1>8, <1>9, <1>10, <1>11, <1>12 DEF Steps, WorkerDoes

\* All the pages of a job that counts them are there.
LEMMA CountedIsStored ==
    ASSUME TypeOK, NEW j \in Jobs, Kept(j)
    PROVE  \A l \in 0..(job[j].count - 1) : IsStored(j, l)
<1>1. /\ job[j].count \in Nat
      /\ job[j].status \in {"none", "ready", "failed", "gone", "queued", "processing"}
  BY JobTypes
<1>2. CASE job[j].status \in {"none", "gone"}
  <2>1. job[j].count = 0
    BY <1>2 DEF Kept
  <2> QED
    BY <2>1
<1>3. CASE job[j].status \in {"failed", "queued", "processing"}
  BY <1>3 DEF Kept, Active, Reached, IsStored
<1>4. CASE job[j].status = "ready"
  <2>1. Reached(j, job[j].count - 1) /\ IsStored(j, job[j].count - 1)
    BY <1>4 DEF Kept
  <2>2. \A l \in 0..(job[j].count - 1) : l \in 0..((job[j].count - 1) - 1) \/ l = job[j].count - 1
    BY <1>1
  <2> QED
    BY <2>1, <2>2 DEF Reached, IsStored
<1> QED
  BY <1>1, <1>2, <1>3, <1>4

LEMMA RestsKeeps ==
    ASSUME IInv, Steps, NEW j \in Jobs, job'[j].count = job[j].count, job'[j].total = job[j].total,
           job'[j].after = job[j].after, SameFormat(j),
           \/ job'[j].status = job[j].status
           \/ IsActive(j) /\ job'[j].status \in Active \cup {"failed"},
           job'[j].overdue => job'[j].status \in Active
    PROVE  Kept(j)'
<1>1. TypeOK /\ Kept(j) /\ \A w \in Workers : InHand(w)
  BY DEF IInv
<1> DEFINE n == job[j].count
<1>2. /\ n \in 0..MaxPages /\ n \in Nat
      /\ \A l \in 0..(n - 1) : IsStored(j, l)
  BY <1>1, JobTypes, CountedIsStored
<1>3. PICK k : k = n
  OBVIOUS
<1>4. /\ k \in 0..MaxPages /\ k \in Nat /\ job'[j].count = k
      /\ Reached(j, k)' <=> Reached(j, k)
      /\ PlaceOf(j, k)' = PlaceOf(j, k)
      /\ RowsOf(j, k)' = RowsOf(j, k)
      /\ \A l \in 0..(k - 1) : chunk'[j][l] = chunk[j][l]
  BY <1>2, <1>3, ReachedStays
<1>5. AfterAt(j, k)' = AfterAt(j, k)
  BY <1>4, AfterStays
<1>6. job'[j].total = Cardinality(RowsOf(j, k))
  BY <1>1, <1>3 DEF Kept
<1>7. job'[j].status = "none" => job'[j].count = 0 /\ \A i \in 0..MaxPages : ~chunk'[j][i].stored
  <2>1. SUFFICES ASSUME job[j].status = "none"
                 PROVE  job'[j].count = 0 /\ \A i \in 0..MaxPages : ~chunk'[j][i].stored
    BY DEF Active
  <2>2. job[j].count = 0 /\ \A i \in 0..MaxPages : ~chunk[j][i].stored
    BY <1>1, <2>1 DEF Kept, IsStored
  <2>3. chunk'[j] = chunk[j]
    BY <1>1, <2>1 DEF Steps, PagesDo, PutsBy, InHand, Marked
  <2> QED
    BY <2>2, <2>3
<1>8. job'[j].status = "gone" => k = 0
  BY <1>1, <1>3 DEF Kept, Active
<1>9. job'[j].status \in Active \cup {"failed"} => Reached(j, k)'
  BY <1>1, <1>3, <1>4 DEF Kept, IsActive
<1>10. job'[j].status \in Active => job'[j].after = AfterAt(j, k)'
  <2>1. job'[j].status \in Active => IsActive(j)
    BY DEF IsActive, Active
  <2> QED
    BY <1>1, <1>3, <1>5, <2>1 DEF Kept
<1>11. job'[j].status = "ready" =>
        k > 0 /\ Reached(j, k - 1)' /\ chunk'[j][k - 1].stored /\ ~chunk'[j][k - 1].more
  <2>1. SUFFICES ASSUME job[j].status = "ready"
                 PROVE  k > 0 /\ Reached(j, k - 1)' /\ chunk'[j][k - 1].stored
                        /\ ~chunk'[j][k - 1].more
    BY DEF Active
  <2>2. k > 0 /\ Reached(j, k - 1) /\ IsStored(j, k - 1) /\ ~chunk[j][k - 1].more
    BY <1>1, <1>3, <2>1 DEF Kept
  <2>3. k - 1 \in 0..(k - 1) /\ k - 1 \in Nat /\ \A l \in 0..((k - 1) - 1) : l \in 0..(k - 1)
    BY <1>4, <2>2
  <2>4. chunk'[j][k - 1] = chunk[j][k - 1]
    BY <1>4, <2>3
  <2>5. \A l \in 0..((k - 1) - 1) : chunk'[j][l] = chunk[j][l]
    BY <1>4, <2>3
  <2>6. Reached(j, k - 1)'
    BY <2>2, <2>5 DEF Reached
  <2> QED
    BY <2>2, <2>4, <2>6 DEF IsStored
<1> HIDE DEF n
<1> QED
  BY <1>4, <1>6, <1>7, <1>8, <1>9, <1>10, <1>11 DEF Kept, IsActive, IsStored

LEMMA DisjointUnion ==
    ASSUME NEW S, NEW T, IsFiniteSet(S), IsFiniteSet(T), S \cap T = {}
    PROVE  Cardinality(S \cup T) = Cardinality(S) + Cardinality(T)
<1>1. Cardinality(S \cap T) = 0
  BY FS_EmptySet
<1>2. Cardinality(S \cup T) = Cardinality(S) + Cardinality(T) - Cardinality(S \cap T)
  BY FS_Union
<1>3. Cardinality(S) \in Nat /\ Cardinality(T) \in Nat
  BY FS_CardinalityType
<1> QED
  BY <1>1, <1>2, <1>3

LEMMA NothingYet ==
    ASSUME NEW j
    PROVE  /\ RowsOf(j, 0) = {} /\ Cardinality(RowsOf(j, 0)) = 0 /\ Reached(j, 0)
           /\ AfterAt(j, 0) = 0
<1>1. RowsOf(j, 0) = {}
  <2>1. {chunk[j][l].rows : l \in 0..(0 - 1)} = {}
    OBVIOUS
  <2> QED
    BY <2>1 DEF RowsOf
<1> QED
  BY <1>1, FS_EmptySet, OriginIsPlace DEF Reached, AfterAt, PlaceOf

LEMMA KeptStays ==
    ASSUME IInv, Steps, NEW j \in Jobs
    PROVE  Kept(j)'
<1>1. /\ TypeOK /\ Paged /\ Kept(j) /\ JobDoes(j) /\ (\A w \in Workers : InHand(w))
  BY DEF IInv, Steps
<1>2. CASE Rests(j)
  BY <1>1, <1>2, RestsKeeps DEF Rests, Kept, IsActive, Active
<1>3. CASE Closes(j)
  BY <1>1, <1>3, RestsKeeps DEF Closes
<1>4. CASE Drops(j) \/ Opens(j)
  <2>1. /\ job'[j].count = 0 /\ job'[j].total = 0 /\ ~job'[j].overdue /\ job'[j].after = 0
        /\ job'[j].status \in {"gone", "queued"}
    BY <1>4 DEF Drops, Opens
  <2>2. /\ Cardinality(RowsOf(j, 0)') = 0 /\ Reached(j, 0)' /\ AfterAt(j, 0)' = 0
    <3>1. Cardinality(RowsOf(j, 0)) = 0 /\ Reached(j, 0) /\ AfterAt(j, 0) = 0
      BY NothingYet
    <3>2. RowsOf(j, 0)' = RowsOf(j, 0)
      <4>1. {chunk'[j][l].rows : l \in 0..(0 - 1)} = {} /\ {chunk[j][l].rows : l \in 0..(0 - 1)} = {}
        OBVIOUS
      <4> QED
        BY <4>1 DEF RowsOf
    <3> QED
      BY <3>1, <3>2, OriginIsPlace DEF Reached, AfterAt, PlaceOf
  <2> QED
    BY <2>1, <2>2 DEF Kept, IsActive, Active
<1>5. CASE Moves(j)
  <2>1. PICK w \in Workers : MovesBy(w, j)
    BY <1>5 DEF Moves
  <2>2. PICK m, page : m = worker[w].message /\ page = worker[w].page
    OBVIOUS
  <2>3. /\ m.job = j /\ AtCursor(m) /\ IsActive(j)
        /\ worker[w].pc = "sent" \/ (worker[w].pc = "stored" /\ ~page.more)
        /\ job'[j].status = IF page.more THEN "queued" ELSE "ready"
        /\ SameFormat(j) /\ job'[j].after = NextAfter(m, page)
        /\ job'[j].count = job[j].count + 1
        /\ job'[j].total = job[j].total + Cardinality(page.rows)
        /\ ~job'[j].overdue
    BY <2>1, <2>2 DEF MovesBy, MayAdvance, IsActive, Active
  <2>4. /\ m \in Messages /\ Marked(m) /\ page.stored /\ page = chunk[j][m.count]
    BY <1>1, <2>2, <2>3, DeliveryFields DEF InHand
  <2>5. PICK n : n = m.count
    OBVIOUS
  <2>6. /\ n \in 0..MaxPages /\ n \in Nat /\ Reached(j, n) /\ job[j].count = n
        /\ n + 1 \in 0..MaxPages
    BY <1>1, <2>3, <2>4, <2>5, MessageFields, RoomForPage DEF Marked, AtCursor
  <2>7. \A l \in 0..((n + 1) - 1) : l \in 0..(n - 1) \/ l = n
    BY <2>6
  <2>8. \A l \in 0..((n + 1) - 1) : IsStored(j, l)
    BY <2>4, <2>5, <2>6, <2>7 DEF Reached, IsStored
  <2>9. /\ Reached(j, n + 1)' <=> Reached(j, n + 1)
        /\ PlaceOf(j, n + 1)' = PlaceOf(j, n + 1)
        /\ RowsOf(j, n + 1)' = RowsOf(j, n + 1)
        /\ \A l \in 0..((n + 1) - 1) : chunk'[j][l] = chunk[j][l]
    BY <2>6, <2>8, ReachedStays
  <2>10. job'[j].total = Cardinality(RowsOf(j, n + 1))
    <3>1. RowsOf(j, n + 1) = RowsOf(j, n) \cup page.rows
      <4>1. {chunk[j][l].rows : l \in 0..((n + 1) - 1)}
              = {chunk[j][l].rows : l \in 0..(n - 1)} \cup {page.rows}
        BY <2>4, <2>5, <2>6, <2>7
      <4> QED
        BY <4>1 DEF RowsOf
    <3>2. RowsOf(j, n) \subseteq Rows /\ page.rows \subseteq Rows
      <4>1. chunk[j][n] \in Page
        BY <1>1, <2>4, <2>5, <2>6, ChunkTypes
      <4> QED
        BY <1>1, <2>4, <2>5, <2>6, <4>1, BehindTypes, PageFields
    <3>3. RowsOf(j, n) \cap page.rows = {}
      <4>1. SUFFICES ASSUME NEW l \in 0..(n - 1)
                     PROVE  chunk[j][l].rows \cap page.rows = {}
        BY DEF RowsOf
      <4>2. l \in 0..MaxPages /\ l # n /\ IsStored(j, l) /\ IsStored(j, n)
        BY <2>4, <2>5, <2>6, PageBounds DEF Reached, IsStored
      <4>3. chunk[j][l].rows \cap chunk[j][n].rows = {}
        BY <1>1, <2>6, <4>2 DEF Paged, PagesOk, Disjoint
      <4> QED
        BY <2>4, <2>5, <4>3
    <3>4. /\ IsFiniteSet(RowsOf(j, n)) /\ IsFiniteSet(page.rows)
          /\ Cardinality(RowsOf(j, n)) \in Nat /\ Cardinality(page.rows) \in Nat
      BY <3>2, RowsAreFinite
    <3>5. Cardinality(RowsOf(j, n) \cup page.rows)
            = Cardinality(RowsOf(j, n)) + Cardinality(page.rows)
      BY <3>3, <3>4, DisjointUnion
    <3>7. job[j].total = Cardinality(RowsOf(j, n))
      BY <1>1, <2>6 DEF Kept
    <3>8. Cardinality(RowsOf(j, n + 1)) = Cardinality(RowsOf(j, n)) + Cardinality(page.rows)
      BY <3>1, <3>5
    <3> QED
      BY <2>3, <3>7, <3>8
  <2>11. CASE page.more
    <3>1. Reached(j, n + 1) /\ AfterAt(j, n + 1) = NextAfter(m, page)
      BY <1>1, <2>3, <2>4, <2>5, <2>11, NextPlace
    <3>2. AfterAt(j, n + 1)' = AfterAt(j, n + 1)
      BY <2>3, <2>9, AfterStays
    <3>3. job'[j].count = n + 1 /\ job'[j].status = "queued"
      BY <2>3, <2>6, <2>11
    <3> QED
      BY <2>3, <2>9, <2>10, <3>1, <3>2, <3>3 DEF Kept, IsActive, Active
  <2>12. CASE ~page.more
    <3>1. job'[j].count = n + 1 /\ job'[j].status = "ready"
      BY <2>3, <2>6, <2>12
    <3>2. n + 1 > 0 /\ (n + 1) - 1 = n
      BY <2>6
    <3>3. Reached(j, n)' /\ chunk'[j][n] = page
      <4>1. n \in 0..((n + 1) - 1) /\ \A l \in 0..(n - 1) : l \in 0..((n + 1) - 1)
        BY <2>6
      <4> QED
        BY <2>4, <2>5, <2>6, <2>9, <4>1 DEF Reached
    <3> QED
      BY <2>3, <2>4, <2>9, <2>10, <2>12, <3>1, <3>2, <3>3 DEF Kept, IsActive, Active, IsStored
  <2> QED
    BY <2>11, <2>12
<1> QED
  BY <1>1, <1>2, <1>3, <1>4, <1>5 DEF JobDoes

\* The continuation of a sent delivery is in a queue, as long as it matters.
LEMMA ContinuedStays ==
    ASSUME IInv, Steps, Next, NEW w \in Workers
    PROVE  Continued(w)'
<1>1. /\ TypeOK /\ Paged /\ InHand(w) /\ Continued(w)
      /\ stranded \subseteq stranded'
  BY WhatOthersDo DEF IInv
<1>2. PICK m, page, c : m = worker[w].message /\ page = worker[w].page /\ c = Continuation(w)
  OBVIOUS
<1>3. /\ m \in Messages /\ m.job \in Jobs /\ m.count \in Nat
      /\ job[m.job].count \in Nat /\ job[m.job].overdue \in BOOLEAN
  BY <1>1, <1>2, DeliveryFields, MessageFields, JobTypes
<1>4. /\ c.job = m.job /\ c.count = m.count + 1
      /\ c = [job |-> m.job, after |-> NextAfter(m, page), count |-> m.count + 1]
  BY <1>2 DEF Continuation
<1>5. SUFFICES ASSUME /\ worker'[w].pc = "sent" /\ worker'[w].message = m
                      /\ worker'[w].page = page
                      /\ job'[m.job].status \in Active /\ m.job \notin stranded'
                      /\ job'[m.job].after = m.after /\ job'[m.job].count = m.count
                      /\ ~job'[m.job].overdue
                      /\ SameFormat(m.job)
               PROVE  c \in main' \cup dlq'
  <2>1. ASSUME worker'[w].pc = "sent"
        PROVE  worker'[w].message = m /\ worker'[w].page = page /\ worker[w].pc # "idle"
    BY <1>2, <2>1 DEF Steps, WorkerDoes, WorkerRests, WorkerFrees, WorkerClaims, WorkerReads,
       WorkerLands, WorkerSends, Has
  <2>2. worker[w].pc # "idle" => SameFormat(m.job)
    BY <1>1, <1>2, <1>3, RowStays DEF InHand, Marked
  <2>3. SameFormat(m.job) => NextAfter(m, page)' = NextAfter(m, page)
    BY DEF NextAfter, SameFormat
  <2>4. /\ worker'[w].message = m /\ worker'[w].page = page /\ SameFormat(m.job)
        => Continuation(w)' = c
    BY <1>4, <2>3 DEF Continuation
  <2> QED
    BY <2>1, <2>2, <2>4 DEF Continued, AtCursor, IsActive
<1>6. CASE WorkerSends(w)
  BY <1>2, <1>6 DEF WorkerSends
<1>7. CASE ~WorkerSends(w)
  <2>1. worker[w].pc = "sent"
    BY <1>5, <1>7 DEF Steps, WorkerDoes, WorkerRests, WorkerFrees, WorkerClaims, WorkerReads,
       WorkerLands, Has
  <2>2. Marked(m) /\ (IsActive(m.job) => m.count <= job[m.job].count)
    BY <1>1, <1>2, <2>1 DEF InHand
  <2>3. /\ job[m.job].status # "none" /\ IsActive(m.job)
        /\ job[m.job].count <= job'[m.job].count
        /\ Rests(m.job) \/ Moves(m.job)
    BY <1>1, <1>3, <1>5, <2>2, RowStays DEF Marked
  <2>4. job[m.job].count = m.count
    BY <1>3, <1>5, <2>2, <2>3
  <2>5. Rests(m.job)
    <3>1. ~Moves(m.job)
      BY <1>3, <1>5, <2>4 DEF Moves, MovesBy
    <3> QED
      BY <2>3, <3>1
  <2>6. AtCursor(m) /\ ~job[m.job].overdue /\ m.job \notin stranded
    BY <1>1, <1>5, <2>4, <2>5 DEF Rests, AtCursor
  <2>7. c \in main \cup dlq
    BY <1>1, <1>2, <2>1, <2>3, <2>6 DEF Continued
  <2>8. MessageDoes(c)
    BY <2>7 DEF Steps
  <2>9. ~Left(c)
    <3>1. ~AtCursor(c)
      BY <1>3, <1>4, <2>4 DEF AtCursor
    <3>2. ~(c.count <= job[c.job].count)
      BY <1>3, <1>4, <2>4
    <3> QED
      BY <1>4, <1>5, <2>6, <3>1, <3>2 DEF Left
  <2> QED
    BY <2>8, <2>9 DEF MessageDoes
<1> QED
  BY <1>6, <1>7

CarriedFor(j) ==
    \/ \E m \in main \cup dlq : m.job = j /\ AtCursor(m)
    \/ \E w \in Workers :
        worker[w].pc # "idle" /\ worker[w].message.job = j /\ AtCursor(worker[w].message)
    \/ dead.pc # "idle" /\ dead.message.job = j /\ AtCursor(dead.message)
    \/ starter.pc = "send" /\ starter.job = j /\ AtCursor(FirstMessage(j))

\* A message at the cursor of a job that goes on where it was is not lost.
LEMMA MessageCarries ==
    ASSUME Steps, NEW j \in Jobs, Rests(j), IsActive(j), j \notin stranded',
           job'[j].status \in Active, NEW x \in main \cup dlq, x.job = j, AtCursor(x)
    PROVE  CarriedFor(j)'
<1>1. MessageDoes(x)
  BY DEF Steps
<1>2. job'[j].after = x.after /\ job'[j].count = x.count
  BY DEF Rests, AtCursor
<1>3. AtCursor(x)'
  BY <1>2 DEF AtCursor
<1>4. CASE x \in main' \cup dlq'
  BY <1>3, <1>4 DEF CarriedFor
<1>5. ASSUME NEW w \in Workers, worker'[w].pc # "idle", worker'[w].message = x
      PROVE  CarriedFor(j)'
  <2>1. worker'[w].message.job = j /\ AtCursor(worker[w].message)'
    BY <1>3, <1>5 DEF AtCursor
  <2> QED
    BY <1>5, <2>1 DEF CarriedFor
<1>6. CASE dead'.pc # "idle" /\ dead'.message = x
  <2>1. dead'.message.job = j /\ AtCursor(dead.message)'
    BY <1>3, <1>6 DEF AtCursor
  <2> QED
    BY <1>6, <2>1 DEF CarriedFor
<1> QED
  BY <1>1, <1>4, <1>5, <1>6 DEF MessageDoes, Left

LEMMA CursorStaysCarried ==
    ASSUME IInv, Steps, Next
    PROVE  CursorIsCarried'
<1>1. /\ TypeOK /\ CursorIsCarried /\ stranded \subseteq stranded'
      /\ \A w \in Workers : Continued(w) /\ InHand(w)
      /\ Carried
  BY WhatOthersDo DEF IInv
<1>2. SUFFICES ASSUME NEW j \in Jobs, job'[j].status \in Active, j \notin stranded'
               PROVE  CarriedFor(j)'
  BY DEF CursorIsCarried, CarriedFor, IsActive
<1>3. JobDoes(j) /\ job[j].count \in Nat /\ job[j].overdue \in BOOLEAN
  BY <1>1, JobTypes DEF Steps
<1>4. CASE Opens(j)
  <2>1. starter'.pc = "send" /\ starter'.job = j /\ job'[j].after = 0 /\ job'[j].count = 0
    BY <1>4 DEF Opens
  <2>2. AtCursor(FirstMessage(j))'
    BY <2>1 DEF AtCursor, FirstMessage
  <2> QED
    BY <2>1, <2>2 DEF CarriedFor
<1>5. CASE Closes(j) \/ Drops(j)
  BY <1>2, <1>5 DEF Closes, Drops, Active
<1>6. CASE Moves(j)
  <2>1. PICK w \in Workers : MovesBy(w, j)
    BY <1>6 DEF Moves
  <2>2. PICK m, page, c : m = worker[w].message /\ page = worker[w].page /\ c = Continuation(w)
    OBVIOUS
  <2>3. /\ m.job = j /\ AtCursor(m) /\ IsActive(j) /\ ~job[j].overdue
        /\ worker[w].pc = "sent" \/ ~page.more
        /\ job'[j].status = IF page.more THEN "queued" ELSE "ready"
        /\ job'[j].after = NextAfter(m, page)
        /\ job'[j].count = job[j].count + 1
    BY <2>1, <2>2 DEF MovesBy, MayAdvance, IsActive, Active
  <2>4. worker[w].pc = "sent"
    BY <1>2, <2>3 DEF Active
  <2>5. c \in main \cup dlq
    BY <1>1, <1>2, <2>2, <2>3, <2>4 DEF Continued
  <2>6. c.job = j /\ c.after = NextAfter(m, page) /\ c.count = m.count + 1
    BY <2>2, <2>3 DEF Continuation
  <2>7. job[j].count = m.count
    BY <2>3 DEF AtCursor
  <2>8. AtCursor(c)'
    BY <2>3, <2>6, <2>7 DEF AtCursor
  <2>9. ~Left(c)
    <3>1. ~AtCursor(c) /\ ~(c.count <= job[j].count)
      BY <1>3, <2>6, <2>7 DEF AtCursor
    <3> QED
      BY <1>2, <2>3, <2>6, <3>1 DEF Left
  <2>10. c \in main' \cup dlq'
    BY <2>5, <2>9 DEF Steps, MessageDoes
  <2> QED
    BY <2>6, <2>8, <2>10 DEF CarriedFor
<1>7. CASE Rests(j)
  <2>1. IsActive(j) /\ j \notin stranded
    BY <1>1, <1>2, <1>7 DEF Rests, IsActive
  <2>2. CarriedFor(j)
    BY <1>1, <2>1 DEF CursorIsCarried, CarriedFor
  <2>3. ASSUME NEW x \in main \cup dlq, x.job = j, AtCursor(x) PROVE CarriedFor(j)'
    BY <1>2, <1>7, <2>1, <2>3, MessageCarries
  <2>4. ASSUME NEW w \in Workers, worker[w].pc # "idle", worker[w].message.job = j,
               AtCursor(worker[w].message)
        PROVE  CarriedFor(j)'
    <3>1. PICK m : m = worker[w].message
      OBVIOUS
    <3>2. m.job = j /\ job'[j].after = m.after /\ job'[j].count = m.count
      BY <1>7, <2>4, <3>1 DEF Rests, AtCursor
    <3>3. AtCursor(m)'
      BY <3>2 DEF AtCursor
    <3>4. \/ worker'[w].pc # "idle" /\ worker'[w].message = m
          \/ m \in main' \cup dlq'
      BY <1>2, <2>4, <3>1, <3>2
         DEF Steps, WorkerDoes, WorkerRests, WorkerFrees, WorkerReads, WorkerLands, WorkerSends,
             WorkerClaims, CanClaim, Has
    <3>5. CASE m \in main' \cup dlq'
      BY <3>2, <3>3, <3>5 DEF CarriedFor
    <3>6. CASE worker'[w].pc # "idle" /\ worker'[w].message = m
      <4>1. worker'[w].message.job = j /\ AtCursor(worker[w].message)'
        BY <3>2, <3>3, <3>6 DEF AtCursor
      <4> QED
        BY <3>6, <4>1 DEF CarriedFor
    <3> QED
      BY <3>4, <3>5, <3>6
  <2>5. CASE dead.pc # "idle" /\ dead.message.job = j /\ AtCursor(dead.message)
    <3>1. PICK m : m = dead.message
      OBVIOUS
    <3>2. m.job = j /\ job'[j].after = m.after /\ job'[j].count = m.count
      BY <1>7, <2>5, <3>1 DEF Rests, AtCursor
    <3>3. AtCursor(m)'
      BY <3>2 DEF AtCursor
    <3>4. \/ dead' = dead \/ m \in main' \cup dlq'
      BY <1>1, <1>2, <2>5, <3>1, <3>2, WhatOthersDo
    <3>5. CASE m \in main' \cup dlq'
      BY <3>2, <3>3, <3>5 DEF CarriedFor
    <3>6. CASE dead' = dead
      <4>1. dead'.message.job = j /\ AtCursor(dead.message)'
        BY <2>5, <3>1, <3>2, <3>3, <3>6 DEF AtCursor
      <4> QED
        BY <2>5, <3>6, <4>1 DEF CarriedFor
    <3> QED
      BY <3>4, <3>5, <3>6
  <2>6. CASE starter.pc = "send" /\ starter.job = j /\ AtCursor(FirstMessage(j))
    <3>1. AtCursor(FirstMessage(j))'
      BY <1>7, <2>6 DEF Rests, AtCursor, FirstMessage
    <3>2. FirstMessage(j)' = FirstMessage(j) /\ FirstMessage(j).job = j
      BY DEF FirstMessage
    <3>3. starter' = starter \/ FirstMessage(j) \in main'
      BY <1>1, <1>2, <2>6, WhatOthersDo
    <3>4. CASE starter' = starter
      BY <2>6, <3>1, <3>4 DEF CarriedFor
    <3>5. CASE FirstMessage(j) \in main'
      BY <3>1, <3>2, <3>5 DEF CarriedFor
    <3> QED
      BY <3>3, <3>4, <3>5
  <2> QED
    BY <2>2, <2>3, <2>4, <2>5, <2>6 DEF CarriedFor
<1> QED
  BY <1>3, <1>4, <1>5, <1>6, <1>7 DEF JobDoes

LEMMA JobTypesStay ==
    ASSUME IInv, Steps, NEW j \in Jobs
    PROVE  job'[j] \in JobRow
<1>1. TypeOK /\ Paged /\ JobDoes(j) /\ \A w \in Workers : InHand(w)
  BY DEF IInv, Steps
<1>2. CASE Moves(j)
  <2>1. PICK w \in Workers : MovesBy(w, j)
    BY <1>2 DEF Moves
  <2>2. PICK m, page : m = worker[w].message /\ page = worker[w].page
    OBVIOUS
  <2>3. /\ m.job = j /\ AtCursor(m)
        /\ worker[w].pc \in {"sent", "stored"}
        /\ job'[j].after = NextAfter(m, page)
        /\ job'[j].count = job[j].count + 1
        /\ job'[j].total = job[j].total + Cardinality(page.rows)
        /\ {job'[j].after, job'[j].count} \subseteq 0..MaxPages /\ job'[j].total \in Nat =>
             job'[j] \in JobRow
    BY <2>1, <2>2 DEF MovesBy, MayAdvance
  <2>4. m \in Messages /\ Marked(m) /\ page.stored /\ page = chunk[j][m.count]
    BY <1>1, <2>2, <2>3, DeliveryFields DEF InHand
  <2>5. /\ m.count \in 0..MaxPages /\ m.count \in Nat /\ m.count + 1 \in 0..MaxPages
        /\ job[j].count = m.count
    BY <1>1, <2>3, <2>4, MessageFields, RoomForPage DEF Marked, AtCursor
  <2>6. page \in Page
    BY <1>1, <2>4, <2>5, ChunkTypes
  <2>7. page.rows \subseteq Rows /\ page.next.after \in 0..(MaxRow + Files)
    BY <2>6, PageFields, PlaceFields
  <2>8. page.next.after \in 0..MaxPages
    BY <2>7, PageBounds, Constants
  <2>9. job'[j].after \in 0..MaxPages
    BY <2>3, <2>5, <2>8 DEF NextAfter
  <2>10. job'[j].total \in Nat
    <3>1. Cardinality(page.rows) \in Nat /\ job[j].total \in Nat
      BY <1>1, <2>7, RowsAreFinite, JobTypes
    <3> QED
      BY <2>3, <3>1
  <2> QED
    BY <2>3, <2>5, <2>9, <2>10
<1> QED
  BY <1>1, <1>2 DEF JobDoes, Rests, Opens, Closes, Drops

LEMMA DeliveryTypesStay ==
    ASSUME IInv, Steps, Next, NEW w \in Workers
    PROVE  worker'[w] \in Delivery
<1>1. TypeOK /\ Sourced /\ Paged /\ WorkerDoes(w) /\ InHand(w)
  BY DEF IInv, Steps
<1>2. PICK m : m = worker[w].message
  OBVIOUS
<1>3. /\ worker[w] \in Delivery /\ m \in Messages /\ worker[w].page \in {NoPage} \cup Page
      /\ main \subseteq Messages
  BY <1>1, <1>2, DeliveryFields DEF TypeOK
<1>4. CASE WorkerReads(w)
  <2>1. PICK g : g = PageFor(m)
    OBVIOUS
  <2>2. Marked(m) /\ ~Unreadable(m) /\ Has(w, "put", m, g)
    BY <1>1, <1>2, <1>4, <2>1 DEF WorkerReads, InHand
  <2>3. g \in Page
    BY <1>1, <1>3, <2>1, <2>2, PageReadFits DEF Fits
  <2> QED
    BY <1>3, <2>2, <2>3 DEF Has
<1>5. CASE WorkerLands(w)
  <2>1. PICK g : g = chunk'[m.job][m.count]
    OBVIOUS
  <2>2. Has(w, "stored", m, g)
    BY <1>2, <1>5, <2>1 DEF WorkerLands
  <2>3. /\ chunk' \in [Jobs -> [0..MaxPages -> {NoPage} \cup Page]]
        /\ m.job \in Jobs /\ m.count \in 0..MaxPages
    BY <1>1, <1>3, WhatPagesDo, MessageFields DEF IInv
  <2>4. chunk'[m.job] \in [0..MaxPages -> {NoPage} \cup Page]
    BY <2>3
  <2>5. g \in {NoPage} \cup Page
    BY <2>1, <2>3, <2>4
  <2> QED
    BY <1>3, <2>2, <2>5 DEF Has
<1>6. CASE WorkerClaims(w)
  BY <1>3, <1>6 DEF WorkerClaims, Has
<1>7. CASE WorkerFrees(w)
  BY <1>7, FreeRow DEF WorkerFrees, Has
<1>8. CASE WorkerRests(w)
  BY <1>3, <1>8 DEF WorkerRests
<1>9. CASE WorkerSends(w)
  BY <1>2, <1>3, <1>9 DEF WorkerSends, Has
<1> QED
  BY <1>1, <1>4, <1>5, <1>6, <1>7, <1>8, <1>9 DEF WorkerDoes

LEMMA TypeStays ==
    ASSUME IInv, Steps, Next
    PROVE  TypeOK'
<1>1. TypeOK /\ (\A j \in Jobs : Kept(j)) /\ Sourced /\ Filed /\ \A w \in Workers : InHand(w)
  BY DEF IInv
<1>2. job' \in [Jobs -> JobRow]
  <2>1. job' = [j \in Jobs |-> job'[j]]
    BY <1>1, WhatJobsDo
  <2>2. \A j \in Jobs : job'[j] \in JobRow
    BY JobTypesStay
  <2> QED
    BY <2>1, <2>2
<1>3. chunk' \in [Jobs -> [0..MaxPages -> {NoPage} \cup Page]]
  BY <1>1, WhatPagesDo
<1>4. /\ rows' \subseteq Rows /\ edited' \subseteq Rows
      /\ file' \in [1..Files -> 0..(MaxFaults + 1)]
      /\ faults' \in 0..MaxFaults
  BY <1>1, WhatEditsDo
<1>5. main' \subseteq Messages /\ dlq' \subseteq Messages
  BY CarriedStays
<1>6. worker' \in [Workers -> Delivery]
  <2>1. worker' = [w \in Workers |-> worker'[w]]
    BY <1>1, WhatWorkersDo
  <2>2. \A w \in Workers : worker'[w] \in Delivery
    BY DeliveryTypesStay
  <2> QED
    BY <2>1, <2>2
<1>7. dead' \in [pc: {"idle", "fail"}, message: Messages]
  <2>1. dead' = dead \/ (\E m \in dlq : dead' = [pc |-> "fail", message |-> m]) \/ dead' = Asleep
    BY <1>1, WhatOthersDo
  <2>2. dead \in [pc: {"idle", "fail"}, message: Messages] /\ dlq \subseteq Messages
    BY <1>1 DEF TypeOK
  <2>3. NoMessage \in Messages
    BY FreeRow
  <2> QED
    BY <2>1, <2>2, <2>3 DEF Asleep
<1>8. starter' \in [pc: {"idle", "send", "fail"}, job: Jobs] /\ stranded' \subseteq Jobs
  BY <1>1, WhatOthersDo DEF TypeOK
<1> QED
  BY <1>2, <1>3, <1>4, <1>5, <1>6, <1>7, <1>8 DEF TypeOK, Delivery

LEMMA InvariantBegins ==
    ASSUME Init
    PROVE  IInv
<1>1. /\ 1 \in Jobs /\ 0 \in 0..MaxPages /\ MaxFaults \in Nat /\ 0 \in 0..MaxFaults
      /\ 1 \in 0..(MaxFaults + 1)
  BY Constants, PageBounds DEF Jobs
<1>2. NoJob \in JobRow
  BY <1>1 DEF NoJob, JobRow, Active
<1>3. \A j \in Jobs : /\ job[j].status = "none" /\ job[j].count = 0 /\ job[j].total = 0
                      /\ job[j].overdue = FALSE /\ ~IsActive(j)
  BY DEF Init, NoJob, IsActive, Active
<1>4. \A j \in Jobs, n \in 0..MaxPages : ~IsStored(j, n)
  BY DEF Init, NoPage, IsStored
<1>5. TypeOK
  <2>1. job \in [Jobs -> JobRow]
    BY <1>2 DEF Init
  <2>2. chunk \in [Jobs -> [0..MaxPages -> {NoPage} \cup Page]]
    BY DEF Init
  <2>3. worker \in [Workers -> Delivery] /\ dead \in [pc: {"idle", "fail"}, message: Messages]
    BY FreeRow DEF Init, Asleep
  <2>4. starter \in [pc: {"idle", "send", "fail"}, job: Jobs]
    BY <1>1 DEF Init
  <2>5. file \in [1..Files -> 0..(MaxFaults + 1)]
    BY <1>1 DEF Init
  <2> QED
    BY <1>1, <2>1, <2>2, <2>3, <2>4, <2>5 DEF Init, TypeOK, Delivery
<1>6. Filed /\ Sourced
  BY <1>1 DEF Init, Filed, Sourced, Unedited
<1>7. Paged
  <2> SUFFICES ASSUME NEW j \in Jobs PROVE PagesOk(j)
    BY DEF Paged
  <2>1. \A n \in 0..MaxPages : Chain(j, n)
    BY <1>4 DEF Chain
  <2>2. ASSUME NEW n \in 0..MaxPages, Reached(j, n) PROVE n = 0
    BY <1>4, <2>2, PageBounds DEF Reached, IsStored
  <2>3. Behind(j, 0)
    <3>1. RowsOf(j, 0) = {} /\ PlaceOf(j, 0) = Origin
      BY NothingYet DEF PlaceOf
    <3>2. CopiesTo(j, 0) = {}
      <4>1. {chunk[j][l].copy : l \in 0..(0 - 1)} = {}
        OBVIOUS
      <4> QED
        BY <4>1 DEF CopiesTo
    <3>3. Room(Origin, 0)
      BY Constants, OriginIsPlace DEF Room
    <3>4. RowsDone(Origin, {})
      BY OriginIsPlace, RowsAreInts DEF RowsDone, Unedited, Rows
    <3>5. CopiesDone(Origin, {})
      BY OriginIsPlace DEF CopiesDone
    <3> QED
      BY <3>1, <3>2, <3>3, <3>4, <3>5 DEF Behind
  <2>4. \A n \in 0..MaxPages : Behind(j, n)
    BY <2>2, <2>3 DEF Behind
  <2> QED
    BY <1>4, <2>1, <2>4 DEF PagesOk, Disjoint
<1>8. \A j \in Jobs : Kept(j)
  BY <1>3, <1>4, NothingYet DEF Kept, Active
<1>9. Carried /\ \A w \in Workers : InHand(w) /\ Continued(w)
  BY DEF Init, Carried, InHand, Continued, Free, Asleep
<1>10. CursorIsCarried
  BY <1>3 DEF CursorIsCarried
<1> QED
  BY <1>5, <1>6, <1>7, <1>8, <1>9, <1>10 DEF IInv

LEMMA InvariantStays ==
    ASSUME IInv, [Next]_vars
    PROVE  IInv'
<1>1. CASE Next
  <2>1. Steps
    BY <1>1, WhatStepsDo
  <2>2. TypeOK' /\ Paged' /\ Carried' /\ CursorIsCarried'
    BY <1>1, <2>1, TypeStays, PagedStays, CarriedStays, CursorStaysCarried
  <2>3. Filed' /\ Sourced'
    BY <1>1, WhatEditsDo DEF IInv
  <2>4. \A j \in Jobs : Kept(j)'
    BY <2>1, KeptStays
  <2>5. \A w \in Workers : InHand(w)' /\ Continued(w)'
    BY <1>1, <2>1, InHandStays, ContinuedStays
  <2> QED
    BY <2>2, <2>3, <2>4, <2>5 DEF IInv
<1>2. CASE UNCHANGED vars
  <2>1. /\ job' = job /\ chunk' = chunk /\ rows' = rows /\ file' = file /\ main' = main
        /\ dlq' = dlq /\ worker' = worker /\ dead' = dead /\ starter' = starter
        /\ edited' = edited /\ faults' = faults /\ stranded' = stranded
    BY <1>2 DEF vars
  <2>2. TypeOK' /\ Filed' /\ Sourced'
    BY <2>1 DEF IInv, TypeOK, Filed, Sourced, Unedited
  <2>3. Paged'
    <3>1. SUFFICES ASSUME NEW j \in Jobs PROVE PagesOk(j)'
      BY DEF Paged
    <3>2. chunk'[j] = chunk[j] /\ Unedited' \subseteq Unedited /\ SameFormat(j) /\ PagesOk(j)
      BY <2>1 DEF IInv, Paged, Unedited, SameFormat
    <3> QED
      BY <3>2, PagesStay
  <2>4. \A j, n : (Reached(j, n)' <=> Reached(j, n)) /\ AfterAt(j, n)' = AfterAt(j, n)
    BY <2>1 DEF Reached, AfterAt, PlaceOf
  <2>5. \A m : Marked(m)' <=> Marked(m)
    BY <2>1, <2>4 DEF Marked
  <2>6. \A j \in Jobs : Kept(j)'
    <3>1. SUFFICES ASSUME NEW j \in Jobs PROVE Kept(j)'
      OBVIOUS
    <3>2. PICK n, l : n = job[j].count /\ l = job[j].count - 1
      OBVIOUS
    <3>3. /\ job'[j] = job[j] /\ RowsOf(j, n)' = RowsOf(j, n)
          /\ (Reached(j, n)' <=> Reached(j, n)) /\ AfterAt(j, n)' = AfterAt(j, n)
          /\ Reached(j, l)' <=> Reached(j, l)
          /\ \A i : IsStored(j, i)' <=> IsStored(j, i)
      BY <2>1, <2>4 DEF RowsOf, IsStored
    <3>4. Kept(j)
      BY DEF IInv
    <3> QED
      BY <2>1, <3>2, <3>3, <3>4 DEF Kept, IsActive
  <2>7. Carried'
    BY <2>1, <2>5 DEF IInv, Carried
  <2>8. ASSUME NEW w \in Workers PROVE InHand(w)' /\ Continued(w)'
    <3>1. InHand(w) /\ Continued(w)
      BY DEF IInv
    <3>2. \A j, n, page : Fits(j, n, page) => Fits(j, n, page)'
      BY <2>1 DEF Fits, PlaceOf, AfterAt, RowsFit, CopiesFit, Unedited, NoCopy, OneCopy, GoesOn
    <3>3. InHand(w)'
      BY <2>1, <2>5, <3>1, <3>2 DEF InHand, IsActive
    <3>4. Continued(w)'
      BY <2>1, <3>1 DEF Continued, IsActive, AtCursor, Continuation, NextAfter
    <3> QED
      BY <3>3, <3>4
  <2>9. CursorIsCarried'
    BY <2>1 DEF IInv, CursorIsCarried, IsActive, AtCursor, FirstMessage
  <2> QED
    BY <2>2, <2>3, <2>6, <2>7, <2>8, <2>9 DEF IInv
<1> QED
  BY <1>1, <1>2

\* The inductive invariant holds in every reachable state.
LEMMA InvariantHolds == Spec => []IInv
  BY InvariantBegins, InvariantStays, PTL DEF Spec

(***************************************************************************)
(* What follows.                                                           *)
(***************************************************************************)

LEMMA ReadyPages ==
    ASSUME IInv, NEW j \in Jobs, job[j].status = "ready"
    PROVE  LET last == job[j].count - 1 IN
           /\ last \in 0..MaxPages /\ last \in Nat
           /\ \A i \in 0..last : i \in 0..MaxPages /\ IsStored(j, i)
           /\ \A i \in 0..(last - 1) : chunk[j][i].more
           /\ Reached(j, last) /\ ~chunk[j][last].more
           /\ Fits(j, last, chunk[j][last]) /\ Behind(j, last)
<1> DEFINE last == job[j].count - 1
<1>1. TypeOK /\ PagesOk(j) /\ Kept(j)
  BY DEF IInv, Paged
<1>2. job[j].count \in 0..MaxPages /\ job[j].count > 0
  BY <1>1, JobTypes DEF Kept
<1>3. last \in 0..MaxPages /\ last \in Nat
  BY <1>2, PageBounds
<1>4. Reached(j, last) /\ IsStored(j, last) /\ ~chunk[j][last].more
  BY <1>1 DEF Kept
<1> HIDE DEF last
<1>5. \A i \in 0..last : i \in 0..MaxPages /\ IsStored(j, i)
  <2>1. \A i \in 0..last : i \in 0..MaxPages /\ (i \in 0..(last - 1) \/ i = last)
    BY <1>3, PageBounds
  <2> QED
    BY <1>4, <2>1 DEF Reached, IsStored
<1>6. Fits(j, last, chunk[j][last]) /\ Behind(j, last)
  BY <1>1, <1>3, <1>4 DEF PagesOk, Chain
<1> QED
  BY <1>3, <1>4, <1>5, <1>6 DEF Reached, last

LEMMA ReadyIsWholeHolds ==
    ASSUME IInv
    PROVE  ReadyIsWhole
<1> SUFFICES ASSUME NEW j \in Jobs, job[j].status = "ready"
             PROVE  LET last == job[j].count - 1 IN
                    /\ \A i \in 0..last : chunk[j][i].stored /\ (chunk[j][i].more <=> i < last)
                    /\ \A i, k \in 0..last : i # k => chunk[j][i].rows \cap chunk[j][k].rows = {}
                    /\ job[j].total = Cardinality(UNION {page.rows : page \in PagesOf(j)})
                    /\ rows \ edited \subseteq UNION {page.rows : page \in PagesOf(j)}
  BY DEF ReadyIsWhole
<1>1. PICK last : last = job[j].count - 1
  OBVIOUS
<1>2. /\ last \in 0..MaxPages /\ last \in Nat
      /\ \A i \in 0..last : i \in 0..MaxPages /\ IsStored(j, i)
      /\ \A i \in 0..(last - 1) : chunk[j][i].more
      /\ Reached(j, last) /\ ~chunk[j][last].more
      /\ Fits(j, last, chunk[j][last]) /\ Behind(j, last)
  BY <1>1, ReadyPages
<1>3. TypeOK /\ PagesOk(j) /\ Kept(j) /\ Sourced
  BY DEF IInv, Paged
<1>4. \A i \in 0..last : chunk[j][i].stored /\ (chunk[j][i].more <=> i < last)
  <2>1. SUFFICES ASSUME NEW i \in 0..last
                 PROVE  chunk[j][i].stored /\ (chunk[j][i].more <=> i < last)
    OBVIOUS
  <2>2. CASE i = last
    BY <1>2, <2>2 DEF IsStored
  <2>3. CASE i # last
    <3>1. i \in 0..(last - 1) /\ i < last
      BY <1>2, <2>3
    <3> QED
      BY <1>2, <3>1 DEF IsStored
  <2> QED
    BY <2>2, <2>3
<1>5. \A i, k \in 0..last : i # k => chunk[j][i].rows \cap chunk[j][k].rows = {}
  BY <1>2, <1>3 DEF PagesOk, Disjoint
<1>6. UNION {page.rows : page \in PagesOf(j)} = RowsOf(j, job[j].count)
  BY DEF PagesOf, RowsOf
<1>7. job[j].total = Cardinality(UNION {page.rows : page \in PagesOf(j)})
  BY <1>3, <1>6 DEF Kept
<1>8. \A r \in Unedited : r \in RowsOf(j, job[j].count)
  <2>1. SUFFICES ASSUME NEW r \in Unedited PROVE r \in RowsOf(j, job[j].count)
    OBVIOUS
  <2>2. PICK p : p = PlaceOf(j, last)
    OBVIOUS
  <2>3. RowsDone(p, RowsOf(j, last)) /\ RowsFit(p, chunk[j][last]) /\ p \in Place
    BY <1>2, <1>3, <2>2, PlaceTypes DEF Behind, Fits
  <2>4. \A l \in 0..(last - 1) : l \in 0..(job[j].count - 1)
    BY <1>1, <1>2
  <2>5. last \in 0..(job[j].count - 1)
    BY <1>1, <1>2
  <2>6. CASE p.table = 0 => r <= p.after
    <3>1. r \in RowsOf(j, last)
      BY <2>3, <2>6 DEF RowsDone
    <3> QED
      BY <2>4, <3>1 DEF RowsOf
  <2>7. CASE ~(p.table = 0 => r <= p.after)
    <3>1. p.table = 0 /\ p.after < r
      BY <2>3, <2>7, PlaceFields, RowsAreInts DEF Unedited
    <3>2. r \in chunk[j][last].rows
      BY <1>2, <2>3, <3>1 DEF RowsFit, GoesOn
    <3> QED
      BY <2>5, <3>2 DEF RowsOf
  <2> QED
    BY <2>6, <2>7
<1>9. rows \ edited \subseteq UNION {page.rows : page \in PagesOf(j)}
  <2>1. rows \ edited \subseteq Unedited
    BY <1>3 DEF TypeOK, Unedited
  <2> QED
    BY <1>6, <1>8, <2>1
<1> QED
  BY <1>1, <1>4, <1>5, <1>7, <1>9

\* Every copy is in a page that announces another one.
LEMMA CopyBehind ==
    ASSUME IInv, NEW j \in Jobs, NEW k \in 0..MaxPages, IsStored(j, k), chunk[j][k].copy # {}
    PROVE  /\ chunk[j][k].more /\ Reached(j, k + 1) /\ k + 1 \in 0..MaxPages
           /\ CopiesDone(PlaceOf(j, k + 1), CopiesTo(j, k + 1))
<1>1. TypeOK /\ Paged /\ PagesOk(j)
  BY DEF IInv, Paged
<1>2. Reached(j, k) /\ Fits(j, k, chunk[j][k])
  BY <1>1 DEF PagesOk, Chain
<1>3. PICK p : p = PlaceOf(j, k)
  OBVIOUS
<1>4. p.table \in {0, 1} /\ CopiesFit(p, chunk[j][k])
  BY <1>1, <1>2, <1>3, RoomForPage DEF Fits
<1>5. chunk[j][k].more
  BY <1>4 DEF CopiesFit
<1>6. k + 1 \in 0..MaxPages /\ k \in Nat
  BY <1>1, <1>2, RoomForPage
<1>7. Reached(j, k + 1)
  <2>1. \A l \in 0..((k + 1) - 1) : l \in 0..(k - 1) \/ l = k
    BY <1>6
  <2> QED
    BY <1>2, <1>5, <2>1 DEF Reached, IsStored
<1>8. Behind(j, k + 1)
  BY <1>1, <1>6 DEF PagesOk
<1> QED
  BY <1>5, <1>6, <1>7, <1>8 DEF Behind

LEMMA CopyPages ==
    ASSUME NEW j, NEW f, NEW c \in CopiesOf(j, f)
    PROVE  /\ c.file = f
           /\ \E k \in 0..MaxPages : IsStored(j, k) /\ c \in chunk[j][k].copy
  BY DEF CopiesOf, IsStored

LEMMA FilesAreNotTornHolds ==
    ASSUME IInv
    PROVE  FilesAreNotTorn
<1> SUFFICES ASSUME NEW j \in Jobs, NEW f \in 1..Files
             PROVE  /\ \A c, d \in CopiesOf(j, f) : c.etag = d.etag
                    /\ job[j].status = "ready" =>
                        {c.part : c \in CopiesOf(j, f)} \in {{}, 0..(FileParts - 1)}
  BY DEF FilesAreNotTorn
<1>1. TypeOK /\ Paged /\ PagesOk(j)
  BY DEF IInv, Paged
<1>2. ASSUME NEW c \in CopiesOf(j, f), NEW d \in CopiesOf(j, f)
      PROVE  c.etag = d.etag
  <2>1. c.file = f /\ d.file = f
    BY CopyPages
  <2>2. PICK k \in 0..MaxPages : IsStored(j, k) /\ c \in chunk[j][k].copy
    BY CopyPages
  <2>3. PICK l \in 0..MaxPages : IsStored(j, l) /\ d \in chunk[j][l].copy
    BY CopyPages
  <2>4. k \in Nat /\ l \in Nat
    BY PageBounds
  <2>5. CASE k <= l
    <3>1. CopiesDone(PlaceOf(j, l + 1), CopiesTo(j, l + 1))
      BY <2>3, CopyBehind
    <3>2. k \in 0..((l + 1) - 1) /\ l \in 0..((l + 1) - 1)
      BY <2>4, <2>5
    <3>3. c \in CopiesTo(j, l + 1) /\ d \in CopiesTo(j, l + 1)
      BY <2>2, <2>3, <3>2 DEF CopiesTo
    <3> QED
      BY <2>1, <3>1, <3>3 DEF CopiesDone
  <2>6. CASE l <= k
    <3>1. CopiesDone(PlaceOf(j, k + 1), CopiesTo(j, k + 1))
      BY <2>2, CopyBehind
    <3>2. k \in 0..((k + 1) - 1) /\ l \in 0..((k + 1) - 1)
      BY <2>4, <2>6
    <3>3. c \in CopiesTo(j, k + 1) /\ d \in CopiesTo(j, k + 1)
      BY <2>2, <2>3, <3>2 DEF CopiesTo
    <3> QED
      BY <2>1, <3>1, <3>3 DEF CopiesDone
  <2> QED
    BY <2>4, <2>5, <2>6
<1>3. ASSUME job[j].status = "ready"
      PROVE  {c.part : c \in CopiesOf(j, f)} \in {{}, 0..(FileParts - 1)}
  <2>1. PICK last : last = job[j].count - 1
    OBVIOUS
  <2>2. /\ last \in 0..MaxPages /\ last \in Nat
        /\ \A i \in 0..last : i \in 0..MaxPages /\ IsStored(j, i)
        /\ Reached(j, last) /\ ~chunk[j][last].more
        /\ Fits(j, last, chunk[j][last]) /\ Behind(j, last)
    BY <1>3, <2>1, ReadyPages
  <2>3. PICK p : p = PlaceOf(j, last)
    OBVIOUS
  <2>4. /\ p \in Place /\ p.table \in {0, 1} /\ CopiesFit(p, chunk[j][last])
        /\ CopiesDone(p, CopiesTo(j, last))
    BY <1>1, <2>2, <2>3, RoomForPage DEF Fits, Behind
  <2>5. CopiesOf(j, f) = {c \in CopiesTo(j, last) : c.file = f}
    <3>1. ASSUME NEW c \in CopiesOf(j, f) PROVE c \in CopiesTo(j, last) /\ c.file = f
      <4>1. PICK k \in 0..MaxPages : IsStored(j, k) /\ c \in chunk[j][k].copy
        BY CopyPages
      <4>2. chunk[j][k].more /\ k \in Nat
        BY <4>1, CopyBehind, PageBounds
      <4>3. ~(last < k)
        BY <1>1, <2>2, <4>1, StoredIsPrefix
      <4>4. k \in 0..(last - 1)
        BY <2>2, <4>2, <4>3
      <4> QED
        BY <4>1, <4>4, CopyPages DEF CopiesTo
    <3>2. ASSUME NEW c \in CopiesTo(j, last), c.file = f PROVE c \in CopiesOf(j, f)
      <4>1. PICK k \in 0..(last - 1) : c \in chunk[j][k].copy
        BY DEF CopiesTo
      <4>2. k \in 0..MaxPages /\ chunk[j][k].stored
        BY <2>2 DEF IsStored
      <4> QED
        BY <3>2, <4>1, <4>2 DEF CopiesOf
    <3> QED
      BY <3>1, <3>2
  <2>6. {c.part : c \in CopiesOf(j, f)} = PartsIn(CopiesTo(j, last), f)
    BY <2>5 DEF PartsIn
  <2>7. CASE p.table = 0
    <3>1. CopiesTo(j, last) = {}
      BY <2>4, <2>7 DEF CopiesDone
    <3> QED
      BY <2>6, <3>1 DEF PartsIn
  <2>8. CASE p.table = 1
    <3>1. p.after = Files
      BY <2>2, <2>4, <2>8 DEF CopiesFit
    <3>2. f <= p.after
      BY <3>1, Constants
    <3>3. PartsIn(CopiesTo(j, last), f) \in {{}, 0..(FileParts - 1)}
      BY <2>4, <2>8, <3>2 DEF CopiesDone
    <3> QED
      BY <2>6, <3>3
  <2> QED
    BY <2>4, <2>7, <2>8
<1> QED
  BY <1>2, <1>3

\* Every variable stays in its domain.
THEOREM TypeCorrect == Spec => []TypeOK
<1>1. IInv => TypeOK
  BY DEF IInv
<1> QED
  BY <1>1, InvariantHolds, PTL

\* A job that can be downloaded is whole: the pages follow one another to a last
\* one, no row is in two, the announced total is theirs, and a row that was there
\* all the time is in one of them.
THEOREM ReadyPagesAreWhole == Spec => []ReadyIsWhole
  BY InvariantHolds, ReadyIsWholeHolds, PTL

\* The parts of an evidence file are of one version, and a ready job has all or none.
THEOREM FilesStayWhole == Spec => []FilesAreNotTorn
  BY InvariantHolds, FilesAreNotTornHolds, PTL

\* Some message of an active job's cursor is in a queue or in hand, unless its
\* only one was lost outside the two.
THEOREM CursorNeverLost == Spec => []CursorIsCarried
<1>1. IInv => CursorIsCarried
  BY DEF IInv
<1> QED
  BY <1>1, InvariantHolds, PTL

(***************************************************************************)
(* The export implements the log of its pages.                             *)
(***************************************************************************)

\* A step is of one job.
LEMMA OneJob ==
    ASSUME TypeOK, Next
    PROVE  \E i \in Jobs : \A j \in Jobs \ {i} : job'[j] = job[j]
<1> DEFINE Goal == \E i \in Jobs : \A j \in Jobs \ {i} : job'[j] = job[j]
<1>1. /\ 1 \in Jobs /\ dead.message \in Messages /\ starter.job \in Jobs
      /\ main \subseteq Messages /\ \A w \in Workers : worker[w].message \in Messages
  BY Constants DEF TypeOK, Jobs
<1>2. ASSUME job' = job PROVE Goal
  BY <1>1, <1>2
<1>3. ASSUME NEW i \in Jobs, NEW row, Write(i, row) PROVE Goal
  BY <1>3, WriteOne
<1> HIDE DEF Goal
<1>4. ASSUME NEW m \in Messages, FailAt(m) PROVE Goal
  BY <1>2, <1>3, <1>4, MessageFields DEF FailAt
<1>5. ASSUME NEW m \in main, Unclaimable(m) PROVE Goal
  <2>1. FailAt(m) \/ UNCHANGED job
    BY <1>5 DEF Unclaimable
  <2> QED
    BY <1>1, <1>2, <1>4, <2>1
<1>6. ASSUME NEW w \in Workers,
             \/ WorkerStep(w) \/ Throws(w) \/ Dies(w)
             \/ \E m \in main : Claim(w, m)
      PROVE  Goal
  <2> DEFINE i == worker[w].message.job
  <2>1. i \in Jobs
    BY <1>1, MessageFields
  <2>2. ASSUME Errs(w) PROVE Goal
    BY <1>2, <1>3, <2>1, <2>2 DEF Errs
  <2>3. ASSUME NEW m \in main, Claim(w, m) PROVE Goal
    BY <1>1, <1>3, <2>3, MessageFields DEF Claim
  <2>4. ASSUME FindPage(w) \/ ReadPage(w) \/ PutPage(w) PROVE Goal
    BY <1>2, <2>2, <2>4 DEF FindPage, ReadPage, PutPage
  <2>5. ASSUME GivesUp(w) \/ SendNext(w) \/ Advance(w) PROVE Goal
    BY <1>2, <1>3, <2>1, <2>5 DEF GivesUp, SendNext, Advance
  <2>6. ASSUME Throws(w) \/ Dies(w) PROVE Goal
    BY <1>2, <2>2, <2>6 DEF Throws, Dies
  <2> QED
    BY <1>6, <2>3, <2>4, <2>5, <2>6 DEF WorkerStep
<1>7. ASSUME DeadStep \/ DeadThrows PROVE Goal
  BY <1>1, <1>2, <1>3, <1>7, MessageFields DEF DeadStep, DeadFail, DeadTake, DeadThrows
<1>8. ASSUME StartSend \/ StartThrows \/ StartFail PROVE Goal
  BY <1>1, <1>2, <1>3, <1>8 DEF StartSend, StartThrows, StartFail
<1>9. ASSUME NEW j \in Jobs,
             Create(j) \/ Nudge(j) \/ CloseOverdue(j) \/ Prune(j) \/ Lapse(j) \/ Expire(j)
      PROVE  Goal
  BY <1>2, <1>3, <1>9 DEF Create, Nudge, CloseOverdue, Prune, Lapse, Expire
<1>10. ASSUME (\E r \in Rows : EditRow(r)) \/ \E f \in 1..Files : EditFile(f) PROVE Goal
  BY <1>2, <1>10 DEF EditRow, EditFile
<1>11. Goal
  BY <1>5, <1>6, <1>7, <1>8, <1>9, <1>10 DEF Next
<1> QED
  BY <1>11 DEF Goal

LEMMA FunctionIsSeq ==
    ASSUME NEW n \in Nat, NEW S, NEW s \in [1..n -> S]
    PROVE  s \in Seq(S) /\ Len(s) = n
<1>1. s \in Seq(S)
  BY SeqDef
<1>2. Len(s) \in Nat /\ 1..n = 1..Len(s)
  BY <1>1, LenProperties
<1>3. n = Len(s)
  <2>1. n <= Len(s)
    BY <1>2
  <2>2. Len(s) <= n
    BY <1>2
  <2> QED
    BY <1>2, <2>1, <2>2
<1> QED
  BY <1>1, <1>3

LEMMA OneMore ==
    ASSUME NEW n \in Nat, NEW S, NEW s \in [1..n -> S], NEW t \in [1..(n + 1) -> S],
           \A i \in 1..n : t[i] = s[i]
    PROVE  t = Append(s, t[n + 1]) /\ Len(t) = Len(s) + 1 /\ Len(t) = n + 1
<1>1. s \in Seq(S) /\ Len(s) = n
  BY FunctionIsSeq
<1>2. t \in Seq(S) /\ Len(t) = n + 1
  <2>1. n + 1 \in Nat
    OBVIOUS
  <2> QED
    BY <2>1, FunctionIsSeq
<1>3. t[n + 1] \in S
  OBVIOUS
<1>4. PICK u : u = Append(s, t[n + 1])
  OBVIOUS
<1>5. /\ u \in Seq(S) /\ Len(u) = n + 1
      /\ \A i \in 1..(n + 1) : u[i] = IF i = n + 1 THEN t[n + 1] ELSE s[i]
  BY <1>1, <1>3, <1>4, AppendProperties
<1>6. \A i \in 1..(n + 1) : u[i] = t[i]
  BY <1>5
<1>7. t = u
  BY <1>2, <1>5, <1>6, SeqEqual
<1> QED
  BY <1>1, <1>2, <1>4, <1>7

StateOf(j) == IF IsActive(j) THEN "open" ELSE job[j].status
PagesIn(j) == [i \in 1..job[j].count |-> chunk[j][i - 1]]

LEMMA LogVariables ==
    /\ JobState = [j \in Jobs |-> StateOf(j)]
    /\ JobPages = [j \in Jobs |-> PagesIn(j)]
    /\ JobState' = [j \in Jobs |-> StateOf(j)']
    /\ JobPages' = [j \in Jobs |-> PagesIn(j)']
  BY DEF JobState, JobPages, StateOf, PagesIn

\* The pages of a job that counts no more of them are the same.
LEMMA PagesInStay ==
    ASSUME IInv, Steps, NEW j \in Jobs, job'[j].count = job[j].count
    PROVE  PagesIn(j)' = PagesIn(j)
<1>1. TypeOK /\ Kept(j)
  BY DEF IInv
<1>2. PICK n : n = job[j].count
  OBVIOUS
<1>3. n \in 0..MaxPages /\ n \in Nat /\ \A l \in 0..(n - 1) : IsStored(j, l)
  BY <1>1, <1>2, JobTypes, CountedIsStored
<1>4. \A l \in 0..(n - 1) : chunk'[j][l] = chunk[j][l]
  BY <1>3, ReachedStays
<1>5. \A i \in 1..n : chunk'[j][i - 1] = chunk[j][i - 1]
  <2>1. \A i \in 1..n : i - 1 \in 0..(n - 1)
    BY <1>3
  <2> QED
    BY <1>4, <2>1
<1>6. PagesIn(j) = [i \in 1..n |-> chunk[j][i - 1]]
      /\ PagesIn(j)' = [i \in 1..n |-> chunk'[j][i - 1]]
  BY <1>2 DEF PagesIn
<1> QED
  BY <1>5, <1>6

LEMMA PagesInTypes ==
    ASSUME TypeOK, NEW j \in Jobs
    PROVE  /\ job[j].count \in Nat
           /\ PagesIn(j) \in [1..job[j].count -> {NoPage} \cup Page]
<1>1. PICK n : n = job[j].count
  OBVIOUS
<1>2. n \in 0..MaxPages /\ n \in Nat
  BY <1>1, JobTypes
<1>3. chunk[j] \in [0..MaxPages -> {NoPage} \cup Page]
  BY DEF TypeOK
<1>4. \A i \in 1..n : i - 1 \in 0..MaxPages
  BY <1>2, PageBounds
<1>5. \A i \in 1..n : chunk[j][i - 1] \in {NoPage} \cup Page
  BY <1>3, <1>4
<1>6. [i \in 1..n |-> chunk[j][i - 1]] \in [1..n -> {NoPage} \cup Page]
  BY <1>5
<1> QED
  BY <1>1, <1>2, <1>6 DEF PagesIn

LEMMA OpensIsOpen ==
    ASSUME IInv, Steps, NEW i \in Jobs, Opens(i),
           \A j \in Jobs \ {i} : StateOf(j)' = StateOf(j) /\ PagesIn(j)' = PagesIn(j)
    PROVE  Log!Open(i)
<1>1. Kept(i)
  BY DEF IInv
<1>2. StateOf(i) = "none" /\ StateOf(i)' = "open" /\ job'[i].count = job[i].count
  BY <1>1 DEF Opens, StateOf, IsActive, Active, Kept
<1>3. PagesIn(i)' = PagesIn(i)
  BY <1>2, PagesInStay
<1>4. JobPages' = JobPages
  BY <1>3, LogVariables
<1>5. JobState[i] = "none" /\ JobState' = [JobState EXCEPT ![i] = "open"]
  BY <1>2, LogVariables
<1> QED
  BY <1>4, <1>5 DEF Log!Open

LEMMA ClosesIsFail ==
    ASSUME IInv, Steps, NEW i \in Jobs, Closes(i),
           \A j \in Jobs \ {i} : StateOf(j)' = StateOf(j) /\ PagesIn(j)' = PagesIn(j)
    PROVE  Log!Fail(i)
<1>1. StateOf(i) = "open" /\ StateOf(i)' = "failed" /\ job'[i].count = job[i].count
  BY DEF Closes, StateOf, IsActive, Active
<1>2. PagesIn(i)' = PagesIn(i)
  BY <1>1, PagesInStay
<1>3. JobPages' = JobPages
  BY <1>2, LogVariables
<1>4. JobState[i] = "open" /\ JobState' = [JobState EXCEPT ![i] = "failed"]
  BY <1>1, LogVariables
<1> QED
  BY <1>3, <1>4 DEF Log!Fail

LEMMA DropsIsDrop ==
    ASSUME IInv, Steps, NEW i \in Jobs, Drops(i),
           \A j \in Jobs \ {i} : StateOf(j)' = StateOf(j) /\ PagesIn(j)' = PagesIn(j)
    PROVE  Log!Drop(i)
<1>1. StateOf(i) # "none" /\ StateOf(i)' = "gone" /\ job'[i].count = 0
  BY DEF Drops, StateOf, IsActive, Active
<1>2. PagesIn(i)' = <<>>
  <2>1. PagesIn(i)' = [x \in 1..0 |-> chunk'[i][x - 1]]
    BY <1>1 DEF PagesIn
  <2> QED
    BY <2>1
<1>3. JobPages' = [JobPages EXCEPT ![i] = <<>>]
  BY <1>2, LogVariables
<1>4. JobState[i] # "none" /\ JobState' = [JobState EXCEPT ![i] = "gone"]
  BY <1>1, LogVariables
<1> QED
  BY <1>3, <1>4 DEF Log!Drop

LEMMA MovesIsGrow ==
    ASSUME IInv, IInv', Steps, NEW i \in Jobs, Moves(i),
           \A j \in Jobs \ {i} : StateOf(j)' = StateOf(j) /\ PagesIn(j)' = PagesIn(j)
    PROVE  Log!Grow(i)
<1>1. TypeOK /\ Paged /\ Kept(i) /\ TypeOK' /\ \A w \in Workers : InHand(w)
  BY DEF IInv
<1>2. PICK w \in Workers : MovesBy(w, i)
  BY DEF Moves
<1>3. PICK m, page, n : m = worker[w].message /\ page = worker[w].page /\ n = m.count
  OBVIOUS
<1>4. /\ m.job = i /\ AtCursor(m) /\ IsActive(i)
      /\ worker[w].pc \in {"sent", "stored"}
      /\ job'[i].status = IF page.more THEN "queued" ELSE "ready"
      /\ job'[i].count = job[i].count + 1
  BY <1>2, <1>3 DEF MovesBy, MayAdvance, IsActive, Active
<1>5. m \in Messages /\ Marked(m) /\ page.stored /\ page = chunk[i][n]
  BY <1>1, <1>3, <1>4, DeliveryFields DEF InHand
<1>6. /\ n \in 0..MaxPages /\ n \in Nat /\ job[i].count = n /\ job'[i].count = n + 1
      /\ n + 1 \in 0..MaxPages /\ Reached(i, n)
  BY <1>1, <1>3, <1>4, <1>5, MessageFields, RoomForPage DEF Marked, AtCursor
<1>7. PICK s, t : s = PagesIn(i) /\ t = PagesIn(i)'
  OBVIOUS
<1>8. s \in [1..n -> {NoPage} \cup Page]
  BY <1>1, <1>6, <1>7, PagesInTypes
<1>9. /\ \A l \in 0..(n - 1) : chunk'[i][l] = chunk[i][l]
      /\ chunk'[i][n] = page
  <2>1. \A l \in 0..(n - 1) : IsStored(i, l)
    BY <1>6 DEF Reached, IsStored
  <2> QED
    BY <1>5, <1>6, <2>1, ReachedStays, StoredStays DEF IsStored
<1>10. s = [x \in 1..n |-> chunk[i][x - 1]] /\ t = [x \in 1..(n + 1) |-> chunk'[i][x - 1]]
  BY <1>6, <1>7 DEF PagesIn
<1>11. t \in [1..(n + 1) -> {NoPage} \cup Page]
  <2>1. chunk'[i] \in [0..MaxPages -> {NoPage} \cup Page]
    BY <1>1 DEF TypeOK
  <2>2. \A x \in 1..(n + 1) : x - 1 \in 0..MaxPages
    BY <1>6, PageBounds
  <2>3. \A x \in 1..(n + 1) : chunk'[i][x - 1] \in {NoPage} \cup Page
    BY <2>1, <2>2
  <2> QED
    BY <1>10, <2>3
<1>12. \A x \in 1..n : t[x] = s[x]
  <2>1. \A x \in 1..n : x - 1 \in 0..(n - 1) /\ x \in 1..(n + 1)
    BY <1>6
  <2> QED
    BY <1>9, <1>10, <2>1
<1>13. t[n + 1] = page
  <2>1. n + 1 \in 1..(n + 1) /\ (n + 1) - 1 = n
    BY <1>6
  <2> QED
    BY <1>9, <1>10, <2>1
<1>14. t = Append(s, page) /\ Len(t) = Len(s) + 1 /\ Len(t) = n + 1
  BY <1>6, <1>8, <1>11, <1>12, <1>13, OneMore
<1>15. JobPages[i] = s /\ JobPages'[i] = t /\ JobPages'[i][Len(JobPages'[i])] = page
  BY <1>7, <1>13, <1>14, LogVariables
<1>16. JobPages' = [JobPages EXCEPT ![i] = Append(@, page)]
  BY <1>7, <1>14, LogVariables
<1>17. StateOf(i) = "open" /\ StateOf(i)' = IF LastPage(page) THEN "ready" ELSE "open"
  BY <1>4, <1>5 DEF StateOf, IsActive, Active, LastPage
<1>18. /\ JobState[i] = "open"
       /\ JobState' = [JobState EXCEPT ![i] = IF LastPage(page) THEN "ready" ELSE "open"]
  BY <1>17, LogVariables
<1> QED
  BY <1>14, <1>15, <1>16, <1>18 DEF Log!Grow

LEMMA StepsOfTheLog ==
    ASSUME IInv, IInv', [Next]_vars
    PROVE  [Log!Next]_<<JobState, JobPages>>
<1>1. CASE UNCHANGED vars
  BY <1>1 DEF vars, JobState, JobPages, IsActive
<1>2. CASE Next
  <2>1. Steps /\ TypeOK
    BY <1>2, WhatStepsDo DEF IInv
  <2>2. PICK i \in Jobs : \A j \in Jobs \ {i} : job'[j] = job[j]
    BY <1>2, <2>1, OneJob
  <2>3. \A j \in Jobs \ {i} : StateOf(j)' = StateOf(j) /\ PagesIn(j)' = PagesIn(j)
    BY <2>1, <2>2, PagesInStay DEF StateOf, IsActive
  <2>4. CASE Rests(i)
    <3>1. StateOf(i)' = StateOf(i)
      BY <2>4 DEF Rests, StateOf, IsActive
    <3>2. PagesIn(i)' = PagesIn(i)
      BY <2>1, <2>4, PagesInStay DEF Rests
    <3>3. UNCHANGED <<JobState, JobPages>>
      BY <2>3, <3>1, <3>2, LogVariables
    <3> QED
      BY <3>3
  <2>5. CASE ~Rests(i)
    <3>1. Log!Open(i) \/ Log!Grow(i) \/ Log!Fail(i) \/ Log!Drop(i)
      BY <2>1, <2>3, <2>5, OpensIsOpen, MovesIsGrow, ClosesIsFail, DropsIsDrop DEF Steps, JobDoes
    <3>2. Log!Next
      BY <3>1 DEF Log!Next
    <3> QED
      BY <3>2
  <2> QED
    BY <2>4, <2>5
<1> QED
  BY <1>1, <1>2

LEMMA BeginsAsTheLog ==
    ASSUME Init
    PROVE  Log!Init
<1>1. \A j \in Jobs : StateOf(j) = "none" /\ job[j].count = 0
  BY DEF Init, NoJob, StateOf, IsActive, Active
<1>2. \A j \in Jobs : PagesIn(j) = <<>>
  <2>1. \A j \in Jobs : PagesIn(j) = [x \in 1..0 |-> chunk[j][x - 1]]
    BY <1>1 DEF PagesIn
  <2> QED
    BY <2>1
<1> QED
  BY <1>1, <1>2, LogVariables DEF Log!Init

\* The export is an append-only log of pages: no delivery, however late, changes,
\* skips or repeats a page, or reopens a job or moves one that is closed.
THEOREM ImplementsExportLog == Spec => ImplementsLog
  BY BeginsAsTheLog, StepsOfTheLog, InvariantHolds, PTL DEF Spec, ImplementsLog, Log!Spec
=============================================================================
