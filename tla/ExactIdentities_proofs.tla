------------------------- MODULE ExactIdentities_proofs -------------------------
(***************************************************************************)
(* For every number of listings, identities, passes, changes and faults:   *)
(* an identity that is grouped wrongly is in the dirty set.                *)
(*                                                                         *)
(* That alone is not inductive: a pass deletes what it read as clean, or   *)
(* what it has repaired, on the strength of what it read before.  What     *)
(* makes it safe is the claim: a change takes it away, so that as long as  *)
(* a pass has it the group is the one it read, and the seeds it has yet to *)
(* repair with the batch it is about to write put every member right       *)
(* (Covered).  No batch, of whoever and however late, makes a member       *)
(* drift: owners are derived when it is written.                           *)
(***************************************************************************)
EXTENDS ExactIdentities, Subsequences_proofs

(***************************************************************************)
(* The invariant.                                                          *)
(***************************************************************************)

\* Nothing is in a pass twice, and what it has yet to repair has seeds.
Working(w) ==
    /\ Distinct(pass[w].todo)
    /\ \A i \in Identities :
        Contains(pass[w].todo, i) /\ pass[w].seeds[i] = {} =>
            \/ pass[w].pc \in {"idle", "claim", "read", "clean"}
            \/ pass[w].pc \in {"batch", "settle"} /\ i = Current(w)

\* The members a sync would move.
Drifting(i) == {l \in Eligible(i) : member[l] # NoEntity /\ member[l] # Owner(l)}

\* What the batch of a repair is about to write of an identity.
Underway(w, i) == IF At(w, "batch") /\ Current(w) = i THEN pass[w].scope ELSE {}

\* The repairs a pass has ahead of it put every member of the identity right.
Covered(w, i) ==
    LET seeds == pass[w].seeds[i] IN
    /\ seeds \subseteq Eligible(i)
    /\ At(w, "settle") /\ Current(w) = i => seeds = {}
    /\ IF Compatible(i)
       THEN Drifting(i) = {} \/ seeds # {} \/ (At(w, "batch") /\ Current(w) = i /\ Eligible(i) \subseteq pass[w].scope)
       ELSE Drifting(i) \subseteq seeds \cup Underway(w, i)

\* Only what a pass still holds is of interest: a change takes the claim away.
Holding(w, i) ==
    claim[i] = w =>
        /\ pass[w].pc \notin {"idle", "claim"}
        /\ Contains(pass[w].todo, i)
        /\ pass[w].pc # "read" /\ ~Vetoed(i) => Covered(w, i)

IInv ==
    /\ TypeOK
    /\ \A w \in Passes : Working(w)
    /\ \A w \in Passes : \A i \in Identities : Holding(w, i)
    /\ DriftIsQueued

(***************************************************************************)
(* Grouping.                                                               *)
(***************************************************************************)

LEMMA LowestIsLeast ==
    ASSUME NEW n \in Nat, NEW S \in SUBSET (0..n), S # {}
    PROVE  Lowest(S) \in S /\ \A y \in S : Lowest(S) <= y
BY LeastExists DEF Lowest

LEMMA Numbers ==
    /\ NumListings \in Nat /\ NumPasses \in Nat
    /\ Listings \in SUBSET (0..NumListings) /\ Listings \subseteq 0..Catalog
    /\ NoEntity \in 0..Catalog /\ NoEntity \notin Listings
    /\ Catalog \in 0..Catalog /\ Catalog \notin Listings
    /\ Free \notin Passes /\ Lost \notin Passes /\ Lost # Free
BY IdentityBounds DEF Listings, Catalog, NoEntity, Free, Lost, Passes

LEMMA LowestListing ==
    ASSUME NEW S \in SUBSET Listings, S # {}
    PROVE  Lowest(S) \in S
BY Numbers, LowestIsLeast

LEMMA Grouping ==
    ASSUME NEW i \in Identities
    PROVE  /\ Eligible(i) \subseteq Listings /\ Members(i) \subseteq Listings
           /\ \A l \in Eligible(i) :
                /\ listing[l].identity = i /\ listing[l].kind = "open"
                /\ Owner(l) = IF Compatible(i) THEN Lowest(Eligible(i)) ELSE l
                /\ Owner(l) \in Eligible(i) /\ Owner(Owner(l)) = Owner(l)
                /\ Scope(l) = {l} \cup (IF Compatible(i) THEN Eligible(i) ELSE {})
           /\ ~Vetoed(i) => Members(i) = Eligible(i)
<1>1. Eligible(i) \subseteq Listings /\ Members(i) \subseteq Listings
  BY DEF Eligible, Members
<1>2. ASSUME NEW l \in Eligible(i)
      PROVE  /\ listing[l].identity = i /\ listing[l].kind = "open"
             /\ Owner(l) = IF Compatible(i) THEN Lowest(Eligible(i)) ELSE l
             /\ Scope(l) = {l} \cup (IF Compatible(i) THEN Eligible(i) ELSE {})
  BY DEF Eligible, Owner, Scope, Peers
<1>3. ASSUME NEW l \in Eligible(i)
      PROVE  Owner(l) \in Eligible(i) /\ Owner(Owner(l)) = Owner(l)
  <2>1. Lowest(Eligible(i)) \in Eligible(i)
    BY <1>1, LowestListing
  <2> QED
    BY <1>2, <2>1
<1>4. ~Vetoed(i) => Members(i) = Eligible(i)
  BY DEF Vetoed, Members, Eligible
<1> QED
  BY <1>1, <1>2, <1>3, <1>4

LEMMA OwnerTypes ==
    ASSUME NEW l \in Listings
    PROVE  Owner(l) \in Listings /\ Scope(l) \subseteq Listings
<1>1. CASE listing[l].identity \in Identities
  <2>1. CASE l \in Eligible(listing[l].identity)
    BY <1>1, <2>1, Grouping
  <2>2. CASE l \notin Eligible(listing[l].identity)
    BY <1>1, <2>2 DEF Owner, Scope, Peers, Eligible
  <2> QED
    BY <2>1, <2>2
<1>2. CASE listing[l].identity \notin Identities
  BY <1>2 DEF Owner, Scope, Peers
<1> QED
  BY <1>1, <1>2

\* The seeds that are read: unless a member is vetoed, a repair from each of them
\* puts every member right.
LEMMA SeedsCover ==
    ASSUME NEW i \in Identities
    PROVE  /\ ResyncSeeds(i) \subseteq Listings
           /\ ~Vetoed(i) =>
                /\ ResyncSeeds(i) \subseteq Eligible(i)
                /\ IF Compatible(i) THEN Drifting(i) # {} => ResyncSeeds(i) # {}
                   ELSE Drifting(i) \subseteq ResyncSeeds(i)
<1> DEFINE groupable == Cardinality(Specific(Members(i))) <= 1
           drifted == {l \in Members(i) :
                /\ member[l] # NoEntity
                /\ member[l] # IF groupable THEN Lowest(Members(i)) ELSE l}
<1>1. ResyncSeeds(i) = IF groupable /\ drifted # {} THEN {Lowest(drifted)} ELSE drifted
  BY DEF ResyncSeeds
<1>2. drifted \subseteq Listings /\ drifted \subseteq Members(i)
  BY DEF Members
<1>3. ResyncSeeds(i) \subseteq drifted /\ (drifted # {} => ResyncSeeds(i) # {})
  <2> HIDE DEF drifted
  <2> QED
    BY <1>1, <1>2, LowestListing
<1>4. ASSUME ~Vetoed(i)
      PROVE  (groupable <=> Compatible(i)) /\ drifted = Drifting(i)
  <2>1. Members(i) = Eligible(i)
    BY <1>4, Grouping
  <2>2. groupable <=> Compatible(i)
    BY <2>1 DEF Compatible
  <2>3. drifted = {l \in Eligible(i) : /\ member[l] # NoEntity
                      /\ member[l] # IF Compatible(i) THEN Lowest(Eligible(i)) ELSE l}
    BY <2>1, <2>2
  <2> HIDE DEF drifted
  <2> QED
    BY <2>2, <2>3, Grouping DEF Drifting
<1> HIDE DEF drifted, groupable
<1> QED
  BY <1>1, <1>2, <1>3, <1>4, Grouping DEF Drifting

\* A batch moves a member to its owner's entity or not at all; to it, when both
\* are in scope.
LEMMA BatchMovesToOwner ==
    ASSUME TypeOK, NEW scope \in SUBSET Listings, Batch(scope), NEW i \in Identities,
           NEW l \in Eligible(i)
    PROVE  /\ member'[l] = Owner(l) \/ member'[l] = member[l]
           /\ l \in scope /\ Owner(l) \in scope => member'[l] = Owner(l)
<1> DEFINE entities == {member[k] : k \in Listings}
                \cup {k \in scope : Owner(k) = k /\ listing[k].kind \in {"open", "vetoed"}}
<1>1. l \in Listings /\ listing[l].kind = "open"
  BY Grouping
<1>2. member'[l] = IF l \in scope /\ Owner(l) \in entities THEN Owner(l) ELSE member[l]
  BY <1>1 DEF Batch
<1>3. Owner(l) \in scope => Owner(l) \in entities
  BY Grouping
<1> HIDE DEF entities
<1> QED
  BY <1>2, <1>3

LEMMA BatchTypes ==
    ASSUME TypeOK, NEW scope \in SUBSET Listings, Batch(scope)
    PROVE  member' \in [Listings -> 0..Catalog]
<1>1. \A l \in Listings : Owner(l) \in 0..Catalog /\ member[l] \in 0..Catalog
  BY OwnerTypes, Numbers DEF TypeOK
<1> QED
  BY <1>1, Numbers DEF Batch

(***************************************************************************)
(* The dirty set.                                                          *)
(***************************************************************************)

RowsTyped ==
    /\ queue \in Seq(Identities) /\ Distinct(queue)
    /\ claim \in [Identities -> Passes \cup {Free, Lost}]
    /\ age \in [Identities -> 0..LeasePasses]
    /\ \A i \in Identities : claim[i] # Free => Queued(i)

PassTyped(p) ==
    /\ p \in Pass
    /\ p.pc \in {"repair", "batch", "settle"} => p.todo # <<>>
    /\ p.pc = "repair" => p.seeds[Head(p.todo)] # {}

LEMMA TypeParts ==
    TypeOK <=>
        /\ listing \in [Listings -> Row] /\ \A l \in Listings : listing[l] \in Rows[l]
        /\ member \in [Listings -> 0..Catalog]
        /\ RowsTyped
        /\ pass \in [Passes -> Pass] /\ \A w \in Passes : PassTyped(pass[w])
        /\ crawl \subseteq Listings
        /\ changes \in 0..MaxChanges
        /\ faults \in 0..MaxFaults
BY DEF TypeOK, RowsTyped, PassTyped, Distinct

LEMMA TypePartsNext ==
    TypeOK' <=>
        /\ listing' \in [Listings -> Row] /\ \A l \in Listings : listing'[l] \in Rows[l]
        /\ member' \in [Listings -> 0..Catalog]
        /\ RowsTyped'
        /\ pass' \in [Passes -> Pass] /\ \A w \in Passes : PassTyped(pass[w])'
        /\ crawl' \subseteq Listings
        /\ changes' \in 0..MaxChanges
        /\ faults' \in 0..MaxFaults
BY DEF TypeOK, RowsTyped, PassTyped, Distinct

\* The trigger keeps what is queued, adds what is marked and frees its claim.
LEMMA MarkedRows ==
    ASSUME RowsTyped, NEW S \in SUBSET Identities, Marked(S)
    PROVE  /\ RowsTyped'
           /\ \A i \in Identities : Queued(i)' <=> Queued(i) \/ i \in S
           /\ \A i \in Identities : claim'[i] = IF i \in S THEN Free ELSE claim[i]
<1> DEFINE new == {i \in S : ~Queued(i)}
           s == SetToSeq(new)
<1>1. IsFiniteSet(new)
  BY IdentityBounds, FS_Subset
<1>2. /\ s \in Seq(new) /\ Distinct(s)
      /\ \A i : Contains(s, i) <=> i \in new
  <2> HIDE DEF new
  <2> QED
    BY <1>1, SetToSeqProperties
<1>3. s \in Seq(Identities)
  <2>1. new \subseteq Identities
    OBVIOUS
  <2> HIDE DEF new, s
  <2> QED
    BY <1>2, <2>1, SeqMonotonic
<1>4. queue' = queue \o s
  BY DEF Marked
<1>5. \A i : ~(Contains(queue, i) /\ Contains(s, i))
  BY <1>2 DEF Queued
<1>6. /\ queue' \in Seq(Identities) /\ Distinct(queue')
      /\ \A i : Contains(queue', i) <=> Contains(queue, i) \/ Contains(s, i)
  <2> HIDE DEF new, s
  <2> QED
    BY <1>2, <1>3, <1>4, <1>5, ConcatDistinct DEF RowsTyped
<1>7. \A i \in Identities : Queued(i)' <=> Queued(i) \/ i \in S
  BY <1>2, <1>6 DEF Queued
<1>8. /\ claim' \in [Identities -> Passes \cup {Free, Lost}]
      /\ \A i \in Identities : claim'[i] = IF i \in S THEN Free ELSE claim[i]
      /\ age' = age
  BY DEF Marked, RowsTyped
<1>9. Distinct(queue)'
  BY <1>6 DEF Distinct
<1> QED
  BY <1>6, <1>7, <1>8, <1>9 DEF RowsTyped

\* A deletion takes out what is claimed by the token, and nothing else.
LEMMA DeletedRows ==
    ASSUME RowsTyped, NEW w \in Passes, NEW S, Deleted(w, S)
    PROVE  /\ RowsTyped'
           /\ \A i \in Identities : Queued(i)' <=> Queued(i) /\ ~(i \in S /\ claim[i] = w)
           /\ \A i \in Identities :
                claim'[i] = IF i \in S /\ claim[i] = w THEN Free ELSE claim[i]
<1> DEFINE mine == {i \in S : claim[i] = w}
<1>1. queue' = Among(queue, Identities \ mine)
  BY DEF Deleted
<1>2. /\ queue' \in Seq(Identities) /\ Distinct(queue')
      /\ \A i : Contains(queue', i) <=> Contains(queue, i) /\ i \in Identities \ mine
  <2> HIDE DEF mine
  <2> QED
    BY <1>1, AmongProperties DEF RowsTyped
<1>3. \A i \in Identities : Queued(i)' <=> Queued(i) /\ ~(i \in S /\ claim[i] = w)
  BY <1>2 DEF Queued
<1>4. /\ claim' \in [Identities -> Passes \cup {Free, Lost}]
      /\ \A i \in Identities : claim'[i] = IF i \in S /\ claim[i] = w THEN Free ELSE claim[i]
      /\ age' = age
  BY DEF Deleted, RowsTyped
<1>5. Distinct(queue)'
  BY <1>2 DEF Distinct
<1> QED
  BY <1>2, <1>3, <1>4, <1>5 DEF RowsTyped

(***************************************************************************)
(* What a step leaves alone.                                               *)
(***************************************************************************)

\* Who groups with whom depends on the listings of the identity alone.
LEMMA SameOwners ==
    ASSUME NEW i \in Identities,
           \A l \in Listings :
                listing[l].identity = i \/ listing'[l].identity = i => listing'[l] = listing[l]
    PROVE  /\ Eligible(i)' = Eligible(i) /\ Members(i)' = Members(i)
           /\ (Vetoed(i)' <=> Vetoed(i)) /\ (Compatible(i)' <=> Compatible(i))
           /\ \A l \in Eligible(i) : Owner(l)' = Owner(l)
<1>1. Eligible(i)' = Eligible(i) /\ Members(i)' = Members(i)
  BY DEF Eligible, Members
<1>2. \A l \in Members(i) : listing'[l] = listing[l]
  BY DEF Members
<1>3. Eligible(i) \subseteq Members(i)
  BY DEF Eligible, Members
<1>4. Specific(Eligible(i))' = Specific(Eligible(i))
  <2>1. {listing'[l].category : l \in Eligible(i)} = {listing[l].category : l \in Eligible(i)}
    BY <1>2, <1>3
  <2> QED
    BY <1>1, <2>1 DEF Specific
<1>5. Compatible(i)' <=> Compatible(i)
  BY <1>4 DEF Compatible
<1>6. Vetoed(i)' <=> Vetoed(i)
  BY <1>1, <1>2 DEF Vetoed
<1>7. ASSUME NEW l \in Eligible(i)
      PROVE  Owner(l)' = Owner(l)
  <2>1. listing[l].identity = i /\ listing'[l].identity = i
    BY <1>2, <1>3 DEF Eligible
  <2>2. Owner(l) = IF Compatible(i) THEN Lowest(Eligible(i)) ELSE l
    BY Grouping
  <2>3. Owner(l)' = IF Compatible(i)' THEN Lowest(Eligible(i)') ELSE l
    BY <1>1, <2>1 DEF Owner
  <2> QED
    BY <1>1, <1>5, <2>2, <2>3
<1> QED
  BY <1>1, <1>5, <1>6, <1>7

\* ... and who has drifted on where they are, too.
LEMMA SameGroup ==
    ASSUME NEW i \in Identities,
           \A l \in Listings :
                listing[l].identity = i \/ listing'[l].identity = i =>
                    listing'[l] = listing[l] /\ member'[l] = member[l]
    PROVE  /\ Eligible(i)' = Eligible(i) /\ Members(i)' = Members(i)
           /\ (Vetoed(i)' <=> Vetoed(i)) /\ (Compatible(i)' <=> Compatible(i))
           /\ Drifting(i)' = Drifting(i)
<1>1. /\ Eligible(i)' = Eligible(i) /\ Members(i)' = Members(i)
      /\ (Vetoed(i)' <=> Vetoed(i)) /\ (Compatible(i)' <=> Compatible(i))
      /\ \A l \in Eligible(i) : Owner(l)' = Owner(l)
  BY SameOwners
<1>2. \A l \in Eligible(i) : member'[l] = member[l]
  BY DEF Eligible
<1>3. Drifting(i)' = Drifting(i)
  BY <1>1, <1>2 DEF Drifting
<1> QED
  BY <1>1, <1>3

LEMMA DriftedIsDrifting ==
    ASSUME NEW i \in Identities
    PROVE  Drifted(i) <=> Drifting(i) # {}
BY DEF Drifted, Drifting

\* A pass that does not move keeps what it has, unless it loses a claim.
LEMMA OthersHold ==
    ASSUME NEW v \in Passes, NEW i \in Identities, Holding(v, i),
           pass'[v] = pass[v], claim'[i] = v => claim[i] = v,
           Eligible(i)' = Eligible(i), Vetoed(i)' <=> Vetoed(i),
           Compatible(i)' <=> Compatible(i), Drifting(i)' \subseteq Drifting(i)
    PROVE  Holding(v, i)'
<1> SUFFICES ASSUME claim'[i] = v
             PROVE  /\ pass'[v].pc \notin {"idle", "claim"}
                    /\ Contains(pass'[v].todo, i)
                    /\ pass'[v].pc # "read" /\ ~Vetoed(i)' => Covered(v, i)'
  BY DEF Holding
<1>1. /\ pass[v].pc \notin {"idle", "claim"} /\ Contains(pass[v].todo, i)
      /\ pass[v].pc # "read" /\ ~Vetoed(i) => Covered(v, i)
  BY DEF Holding
<1>2. Covered(v, i) => Covered(v, i)'
  BY DEF Covered, Underway, At, Current
<1> QED
  BY <1>1, <1>2

\* A step after which no identity is newly drifted leaves no drift out of the queue.
LEMMA DriftStaysQueued ==
    ASSUME DriftIsQueued,
           \A i \in Identities :
                \/ Queued(i)'
                \/ Vetoed(i)'
                \/ Drifting(i)' = {}
                \/ (~Vetoed(i)' => ~Vetoed(i)) /\ Drifting(i)' \subseteq Drifting(i) /\ ~Queued(i)
    PROVE  DriftIsQueued'
<1> SUFFICES ASSUME NEW i \in Identities, Drifted(i)', ~Vetoed(i)', ~Queued(i)'
             PROVE  FALSE
  BY DEF DriftIsQueued
<1>1. Drifting(i)' # {}
  BY DEF Drifted, Drifting
<1>2. Drifted(i) /\ ~Vetoed(i) /\ ~Queued(i)
  BY <1>1, DriftedIsDrifting
<1> QED
  BY <1>2 DEF DriftIsQueued

\* A step of a pass that writes neither listings nor members.
LEMMA QuietStep ==
    ASSUME IInv, NEW w \in Passes, listing' = listing, member' = member,
           crawl' = crawl, changes' = changes, faults' \in 0..MaxFaults, RowsTyped',
           pass' = [pass EXCEPT ![w] = pass'[w]], PassTyped(pass[w])', Working(w)',
           \A i \in Identities : Holding(w, i)',
           \A v \in Passes \ {w} : \A i \in Identities : claim'[i] = v => claim[i] = v,
           \A i \in Identities :
                Queued(i) => Queued(i)' \/ Vetoed(i) \/ Drifting(i) = {}
    PROVE  IInv'
<1>1. \A i \in Identities :
        /\ Eligible(i)' = Eligible(i) /\ (Vetoed(i)' <=> Vetoed(i))
        /\ (Compatible(i)' <=> Compatible(i)) /\ Drifting(i)' = Drifting(i)
  BY SameGroup
<1>2. pass \in [Passes -> Pass]
  BY DEF IInv, TypeOK
<1>3. \A v \in Passes \ {w} : pass'[v] = pass[v]
  BY <1>2
<1>4. pass' \in [Passes -> Pass] /\ \A v \in Passes : PassTyped(pass[v])'
  BY <1>2, <1>3, TypeParts DEF PassTyped, IInv
<1>5. TypeOK'
  <2>1. /\ listing' \in [Listings -> Row] /\ \A l \in Listings : listing'[l] \in Rows[l]
        /\ member' \in [Listings -> 0..Catalog]
        /\ crawl' \subseteq Listings
        /\ changes' \in 0..MaxChanges
    BY DEF IInv, TypeOK
  <2> QED
    BY <1>4, <2>1, TypePartsNext
<1>6. \A v \in Passes : Working(v)'
  <2>1. ASSUME NEW v \in Passes, v # w
        PROVE  Working(v)'
    BY <1>3, <2>1 DEF IInv, Working, Current
  <2> QED
    BY <2>1
<1>7. \A v \in Passes : \A i \in Identities : Holding(v, i)'
  <2>1. ASSUME NEW v \in Passes, NEW i \in Identities, v # w
        PROVE  Holding(v, i)'
    BY <1>1, <1>3, <2>1, OthersHold DEF IInv
  <2> QED
    BY <2>1
<1>8. DriftIsQueued'
  <2>1. \A i \in Identities :
            \/ Queued(i)' \/ Vetoed(i)' \/ Drifting(i)' = {}
            \/ (~Vetoed(i)' => ~Vetoed(i)) /\ Drifting(i)' \subseteq Drifting(i) /\ ~Queued(i)
    BY <1>1
  <2> QED
    BY <2>1, DriftStaysQueued DEF IInv
<1> QED
  BY <1>5, <1>6, <1>7, <1>8 DEF IInv

LEMMA Typed ==
    ASSUME IInv, NEW w \in Passes
    PROVE  /\ RowsTyped /\ pass \in [Passes -> Pass] /\ PassTyped(pass[w]) /\ faults \in 0..MaxFaults
           /\ Working(w) /\ \A i \in Identities : Holding(w, i)
           /\ claim \in [Identities -> Passes \cup {Free, Lost}]
           /\ pass[w] = [pc |-> pass[w].pc, todo |-> pass[w].todo, seeds |-> pass[w].seeds,
                         scope |-> pass[w].scope]
           /\ pass[w].todo \in Seq(Identities) /\ pass[w].seeds \in [Identities -> SUBSET Listings]
           /\ pass[w].scope \in SUBSET Listings
           /\ Distinct(pass[w].todo)
<1>1. RowsTyped /\ pass \in [Passes -> Pass] /\ PassTyped(pass[w]) /\ faults \in 0..MaxFaults
  BY TypeParts DEF IInv
<1>2. pass[w] \in Pass
  BY <1>1
<1>3. claim \in [Identities -> Passes \cup {Free, Lost}]
  BY <1>1 DEF RowsTyped
<1>4. Distinct(pass[w].todo)
  BY DEF IInv, Working
<1> QED
  BY <1>1, <1>2, <1>3, <1>4 DEF IInv, Pass

LEMMA FaultTypes ==
    ASSUME IInv, Fault
    PROVE  faults' \in 0..MaxFaults
BY IdentityBounds DEF IInv, TypeOK, Fault

LEMMA EmptyPass ==
    /\ PassTyped(NoPass) /\ Distinct(NoPass.todo) /\ \A i : ~Contains(NoPass.todo, i)
    /\ NoPass.pc = "idle"
BY DEF NoPass, PassTyped, Pass, Distinct, Contains

(***************************************************************************)
(* The steps of a pass.                                                    *)
(***************************************************************************)

\* Claims that are too old are freed; the pass has none yet.
LEMMA BeginsKeeps ==
    ASSUME IInv, NEW w \in Passes, Begins(w), faults' \in 0..MaxFaults
    PROVE  IInv'
<1>1. /\ RowsTyped /\ pass \in [Passes -> Pass] /\ PassTyped(pass[w])
      /\ Working(w) /\ \A i \in Identities : Holding(w, i)
      /\ claim \in [Identities -> Passes \cup {Free, Lost}]
  BY Typed
<1>2. pass' = [pass EXCEPT ![w] = pass'[w]] /\ pass'[w] = [pass[w] EXCEPT !.pc = "claim"]
      /\ pass[w].pc = "idle" /\ pass[w] \in Pass
  BY <1>1 DEF Begins, At
<1>3. /\ pass'[w] \in Pass /\ pass'[w].pc = "claim" /\ pass'[w].todo = pass[w].todo
      /\ pass'[w].seeds = pass[w].seeds
  BY <1>2 DEF Pass
<1>4. \A i \in Identities : claim'[i] = claim[i] \/ claim'[i] = Free
  BY DEF Begins
<1>5. \A i \in Identities : claim'[i] # w
  BY <1>1, <1>2, <1>4, Numbers DEF Holding
<1>6. RowsTyped'
  <2>1. queue' = queue /\ \A i \in Identities : Queued(i)' <=> Queued(i)
    BY DEF Begins, Queued
  <2>2. age' \in [Identities -> 0..LeasePasses]
    <3>1. age \in [Identities -> 0..LeasePasses] /\ LeasePasses \in Nat
      BY <1>1, IdentityBounds DEF RowsTyped
    <3> QED
      BY <3>1 DEF Begins
  <2>3. claim' \in [Identities -> Passes \cup {Free, Lost}]
    BY <1>1 DEF Begins
  <2>4. Distinct(queue)' <=> Distinct(queue)
    BY <2>1 DEF Distinct
  <2> QED
    BY <1>1, <1>4, <2>1, <2>2, <2>3, <2>4 DEF RowsTyped
<1>7. Working(w)' /\ PassTyped(pass[w])'
  BY <1>1, <1>3 DEF Working, PassTyped, Distinct
<1>8. \A i \in Identities : Holding(w, i)'
  BY <1>5 DEF Holding
<1>9. \A i \in Identities : Queued(i)' <=> Queued(i)
  BY DEF Begins, Queued
<1>10. \A v \in Passes \ {w} : \A i \in Identities : claim'[i] = v => claim[i] = v
  BY <1>4, Numbers
<1>11. listing' = listing /\ member' = member /\ crawl' = crawl /\ changes' = changes
  BY DEF Begins
<1> QED
  BY <1>2, <1>6, <1>7, <1>8, <1>9, <1>10, <1>11, QuietStep

\* All that was free is claimed, and is what the pass has to do.
LEMMA ClaimsKeeps ==
    ASSUME IInv, NEW w \in Passes, PassClaims(w)
    PROVE  IInv'
<1> DEFINE mine == Among(queue, {i \in Identities : claim[i] = Free})
<1>1. /\ RowsTyped /\ pass \in [Passes -> Pass] /\ pass[w] \in Pass
      /\ Working(w) /\ faults \in 0..MaxFaults /\ \A i \in Identities : Holding(w, i)
      /\ claim \in [Identities -> Passes \cup {Free, Lost}]
  BY Typed
<1>2. /\ mine \in Seq(Identities) /\ Distinct(mine)
      /\ \A i \in Identities : Contains(mine, i) <=> Queued(i) /\ claim[i] = Free
  BY <1>1, AmongProperties DEF RowsTyped, Queued
<1>3. /\ pass' = [pass EXCEPT ![w] = pass'[w]]
      /\ pass'[w] = IF mine = <<>> THEN NoPass
                    ELSE [pass[w] EXCEPT !.pc = "read", !.todo = mine]
      /\ pass[w].pc = "claim"
  BY <1>1 DEF PassClaims, At
<1>4. \A i \in Identities : claim'[i] = IF Queued(i) /\ claim[i] = Free THEN w ELSE claim[i]
  BY DEF PassClaims
<1>5. \A i \in Identities : claim'[i] = w => Contains(mine, i)
  BY <1>1, <1>2, <1>3, <1>4 DEF Holding
<1> HIDE DEF mine
<1>6. RowsTyped'
  <2>1. queue' = queue /\ \A i \in Identities : Queued(i)' <=> Queued(i)
    BY DEF PassClaims, Queued
  <2>2. age' \in [Identities -> 0..LeasePasses] /\ claim' \in [Identities -> Passes \cup {Free, Lost}]
    <3>1. age \in [Identities -> 0..LeasePasses] /\ LeasePasses \in Nat
      BY <1>1, IdentityBounds DEF RowsTyped
    <3> QED
      BY <1>1, <3>1 DEF PassClaims
  <2>3. Distinct(queue)' <=> Distinct(queue)
    BY <2>1 DEF Distinct
  <2>4. \A i \in Identities : claim'[i] # Free => Queued(i)
    BY <1>1, <1>4 DEF RowsTyped
  <2> QED
    BY <1>1, <2>1, <2>2, <2>3, <2>4 DEF RowsTyped
<1>7. /\ Working(w)' /\ PassTyped(pass[w])' /\ \A i \in Identities : Holding(w, i)'
  <2>1. CASE mine = <<>>
    <3>1. \A i : ~Contains(mine, i)
      BY <2>1 DEF Contains
    <3>2. pass'[w] = NoPass /\ \A i \in Identities : claim'[i] # w
      BY <1>3, <1>5, <2>1, <3>1
    <3> QED
      BY <3>2, EmptyPass DEF Working, Holding, PassTyped, Distinct
  <2>2. CASE mine # <<>>
    <3>1. /\ pass'[w] \in Pass /\ pass'[w].pc = "read" /\ pass'[w].todo = mine
      BY <1>1, <1>2, <1>3, <2>2 DEF Pass
    <3>2. Distinct(pass[w].todo)'
      BY <1>2, <3>1 DEF Distinct
    <3> QED
      BY <1>5, <3>1, <3>2 DEF Working, Holding, PassTyped
  <2> QED
    BY <2>1, <2>2
<1>8. \A i \in Identities : Queued(i)' <=> Queued(i)
  BY DEF PassClaims, Queued
<1>9. \A v \in Passes \ {w} : \A i \in Identities : claim'[i] = v => claim[i] = v
  BY <1>4
<1>10. /\ listing' = listing /\ member' = member /\ crawl' = crawl /\ changes' = changes
       /\ faults' \in 0..MaxFaults
  <2>1. /\ listing' = listing /\ member' = member /\ crawl' = crawl /\ changes' = changes
        /\ faults' = faults
    BY DEF PassClaims
  <2> QED
    BY <1>1, <2>1
<1>11. pass' = [pass EXCEPT ![w] = pass'[w]]
  BY <1>3
<1> QED
  BY <1>6, <1>7, <1>8, <1>9, <1>10, <1>11, QuietStep

\* What is read covers every identity that is claimed and has no vetoed member.
LEMMA ReadsKeeps ==
    ASSUME IInv, NEW w \in Passes, PassReads(w)
    PROVE  IInv'
<1>1. /\ RowsTyped /\ pass \in [Passes -> Pass] /\ pass[w] \in Pass
      /\ Working(w) /\ faults \in 0..MaxFaults /\ \A i \in Identities : Holding(w, i)
  BY Typed
<1>2. /\ listing' = listing /\ member' = member /\ crawl' = crawl /\ changes' = changes
      /\ faults' = faults /\ queue' = queue /\ claim' = claim /\ age' = age
  BY DEF PassReads, rows
<1>3. pass' = [pass EXCEPT ![w] = pass'[w]]
  BY <1>1 DEF PassReads
<1>4. /\ pass'[w] \in Pass /\ pass'[w].pc = "clean" /\ pass'[w].todo = pass[w].todo
      /\ pass[w].pc = "read"
      /\ \A i \in Identities :
            Contains(pass[w].todo, i) => pass'[w].seeds[i] = ResyncSeeds(i)
  <2>1. pass'[w] = [pass[w] EXCEPT !.pc = "clean",
            !.seeds = [i \in Identities |->
                IF Contains(pass[w].todo, i) THEN ResyncSeeds(i) ELSE {}]]
    BY <1>1 DEF PassReads
  <2>2. \A i \in Identities : ResyncSeeds(i) \in SUBSET Listings
    BY SeedsCover
  <2>3. pass[w].pc = "read"
    BY DEF PassReads, At
  <2>4. [i \in Identities |-> IF Contains(pass[w].todo, i) THEN ResyncSeeds(i) ELSE {}]
            \in [Identities -> SUBSET Listings]
    BY <2>2
  <2>5. /\ pass'[w].pc = "clean" /\ pass'[w].todo = pass[w].todo
        /\ pass'[w].seeds = [i \in Identities |->
                IF Contains(pass[w].todo, i) THEN ResyncSeeds(i) ELSE {}]
    BY <1>1, <2>1 DEF Pass
  <2>6. pass'[w] \in Pass
    BY <1>1, <2>1, <2>4 DEF Pass
  <2> QED
    BY <2>3, <2>5, <2>6
<1>5. RowsTyped'
  BY <1>1, <1>2 DEF RowsTyped, Distinct, Queued
<1>6. Working(w)' /\ PassTyped(pass[w])'
  BY <1>1, <1>4 DEF Working, PassTyped, Distinct
<1>7. ASSUME NEW i \in Identities
      PROVE  Holding(w, i)'
  <2> SUFFICES ASSUME claim'[i] = w
               PROVE  Contains(pass[w].todo, i) /\ (~Vetoed(i)' => Covered(w, i)')
    BY <1>4 DEF Holding
  <2>1. Contains(pass[w].todo, i)
    BY <1>1, <1>2 DEF Holding
  <2>2. pass'[w].seeds[i] = ResyncSeeds(i) /\ pass'[w].pc = "clean"
    BY <1>4, <2>1
  <2>3. /\ Eligible(i)' = Eligible(i) /\ (Vetoed(i)' <=> Vetoed(i))
        /\ (Compatible(i)' <=> Compatible(i)) /\ Drifting(i)' = Drifting(i)
    BY <1>2, SameGroup
  <2>4. ~Vetoed(i)' => Covered(w, i)'
    BY <2>2, <2>3, SeedsCover DEF Covered, At
  <2> QED
    BY <2>1, <2>4
<1>8. \A i \in Identities : Queued(i)' <=> Queued(i)
  BY <1>2 DEF Queued
<1> QED
  BY <1>1, <1>2, <1>3, <1>5, <1>6, <1>7, <1>8, QuietStep

\* What is read and needs nothing is not drifted, if its claim is still the pass's.
LEMMA CleansKeeps ==
    ASSUME IInv, NEW w \in Passes, PassCleans(w)
    PROVE  IInv'
<1> DEFINE clean == {i \in ToSet(pass[w].todo) : pass[w].seeds[i] = {}}
<1>1. /\ RowsTyped /\ pass \in [Passes -> Pass] /\ pass[w] \in Pass
      /\ Working(w) /\ faults \in 0..MaxFaults /\ \A i \in Identities : Holding(w, i)
      /\ pass[w].todo \in Seq(Identities) /\ Distinct(pass[w].todo)
  BY Typed
<1>2. Deleted(w, clean)
  BY DEF PassCleans
<1>3. \A i : i \in clean <=> Contains(pass[w].todo, i) /\ pass[w].seeds[i] = {}
  BY <1>1, SetOfSequence
<1>4. pass' = [pass EXCEPT ![w] = pass'[w]]
  BY <1>1 DEF PassCleans
<1>5. /\ pass'[w] = [pass[w] EXCEPT !.pc = "defer", !.todo = Among(pass[w].todo, Identities \ clean)]
      /\ pass[w].pc = "clean"
  BY <1>1 DEF PassCleans, At
<1> HIDE DEF clean
<1>6. /\ RowsTyped'
      /\ \A i \in Identities : Queued(i)' <=> Queued(i) /\ ~(i \in clean /\ claim[i] = w)
      /\ \A i \in Identities : claim'[i] = IF i \in clean /\ claim[i] = w THEN Free ELSE claim[i]
  BY <1>1, <1>2, DeletedRows
<1>7. /\ Among(pass[w].todo, Identities \ clean) \in Seq(Identities)
      /\ Distinct(Among(pass[w].todo, Identities \ clean))
      /\ \A i \in Identities : Contains(Among(pass[w].todo, Identities \ clean), i) <=>
            Contains(pass[w].todo, i) /\ i \notin clean
  BY <1>1, AmongProperties
<1>8. /\ pass'[w] \in Pass /\ pass'[w].pc = "defer" /\ pass'[w].seeds = pass[w].seeds
      /\ Distinct(pass'[w].todo)
      /\ \A i \in Identities : Contains(pass'[w].todo, i) <=> Contains(pass[w].todo, i) /\ i \notin clean
  BY <1>1, <1>5, <1>7 DEF Pass
<1>9. Working(w)' /\ PassTyped(pass[w])'
  BY <1>3, <1>8 DEF Working, PassTyped, Distinct
<1>10. /\ listing' = listing /\ member' = member /\ crawl' = crawl /\ changes' = changes
       /\ faults' = faults
  BY DEF PassCleans
<1>11. ASSUME NEW i \in Identities
       PROVE  Holding(w, i)' /\ (Queued(i) => Queued(i)' \/ Vetoed(i) \/ Drifting(i) = {})
  <2>1. /\ Eligible(i)' = Eligible(i) /\ (Vetoed(i)' <=> Vetoed(i))
        /\ (Compatible(i)' <=> Compatible(i)) /\ Drifting(i)' = Drifting(i)
    BY <1>10, SameGroup
  <2>2. claim[i] = w /\ ~Vetoed(i) => Covered(w, i)
    BY <1>1, <1>5 DEF Holding
  <2>3. Covered(w, i) /\ i \in clean => Drifting(i) = {}
    BY <1>3, <1>5 DEF Covered, Underway, At
  <2>4. Covered(w, i) => Covered(w, i)'
    BY <1>5, <1>8, <2>1 DEF Covered, Underway, At
  <2>5. claim[i] = w => Contains(pass[w].todo, i)
    BY <1>1 DEF Holding
  <2>6. claim'[i] = w => claim[i] = w /\ i \notin clean
    BY <1>6, Numbers
  <2>7. Holding(w, i)'
    BY <1>8, <2>1, <2>2, <2>4, <2>5, <2>6 DEF Holding
  <2>8. Queued(i) => Queued(i)' \/ Vetoed(i) \/ Drifting(i) = {}
    BY <1>6, <2>2, <2>3
  <2> QED
    BY <2>7, <2>8
<1>12. \A v \in Passes \ {w} : \A i \in Identities : claim'[i] = v => claim[i] = v
  BY <1>6, Numbers
<1> QED
  BY <1>1, <1>4, <1>6, <1>9, <1>10, <1>11, <1>12, QuietStep

\* The first few are kept with their seeds; the others' claims are freed.
LEMMA DefersKeeps ==
    ASSUME IInv, NEW w \in Passes, PassDefers(w)
    PROVE  IInv'
<1> DEFINE n == Lowest({MaxRepairs, Len(pass[w].todo)})
           repairs == SubSeq(pass[w].todo, 1, n)
           kept == ToSet(repairs)
           later == ToSet(pass[w].todo) \ kept
<1>1. /\ RowsTyped /\ pass \in [Passes -> Pass] /\ pass[w] \in Pass
      /\ Working(w) /\ faults \in 0..MaxFaults /\ \A i \in Identities : Holding(w, i)
  BY Typed
<1>2. /\ pass[w].todo \in Seq(Identities) /\ Distinct(pass[w].todo)
      /\ claim \in [Identities -> Passes \cup {Free, Lost}]
  BY Typed
<1>3. n \in Nat /\ n <= Len(pass[w].todo)
  <2> DEFINE L == Len(pass[w].todo)
  <2>1. L \in Nat /\ MaxRepairs \in Nat
    BY <1>2, IdentityBounds
  <2> HIDE DEF L
  <2>2. {MaxRepairs, L} \in SUBSET (0..(MaxRepairs + L)) /\ MaxRepairs + L \in Nat
    BY <2>1
  <2>3. Lowest({MaxRepairs, L}) \in {MaxRepairs, L} /\ Lowest({MaxRepairs, L}) <= L
    BY <2>2, LowestIsLeast
  <2> QED
    BY <2>1, <2>3 DEF L
<1> HIDE DEF n
<1>4. /\ repairs \in Seq(Identities) /\ Distinct(repairs)
      /\ \A i : Contains(repairs, i) => Contains(pass[w].todo, i)
  BY <1>2, <1>3, PrefixDistinct
<1>5. claim' = [i \in Identities |-> IF i \in later /\ claim[i] = w THEN Free ELSE claim[i]]
  BY DEF PassDefers, n
<1>6. /\ pass' = [pass EXCEPT ![w] = pass'[w]]
      /\ pass'[w] = IF repairs = <<>> THEN NoPass
                    ELSE [pc |-> "repair", todo |-> repairs, scope |-> {},
                          seeds |-> [i \in Identities |-> IF i \in kept THEN pass[w].seeds[i] ELSE {}]]
      /\ pass[w].pc = "defer"
  BY <1>1 DEF PassDefers, At, n
<1>7. /\ listing' = listing /\ member' = member /\ crawl' = crawl /\ changes' = changes
      /\ faults' = faults /\ queue' = queue /\ age' = age
  BY DEF PassDefers
<1> HIDE DEF repairs
<1>8. \A i : i \in kept <=> Contains(repairs, i)
  BY <1>4, SetOfSequence
<1>9. \A i : i \in later <=> Contains(pass[w].todo, i) /\ ~Contains(repairs, i)
  BY <1>2, <1>8, SetOfSequence
<1> HIDE DEF kept, later
<1>10. RowsTyped'
  BY <1>1, <1>2, <1>5, <1>7 DEF RowsTyped, Distinct, Queued
<1>11. ASSUME NEW i \in Identities, claim'[i] = w
       PROVE  claim[i] = w /\ Contains(repairs, i)
  <2>1. claim[i] = w /\ i \notin later
    BY <1>2, <1>5, <1>11, Numbers
  <2>2. Contains(pass[w].todo, i)
    BY <1>1, <2>1 DEF Holding
  <2> QED
    BY <1>9, <2>1, <2>2
<1>12. Working(w)' /\ PassTyped(pass[w])' /\ \A i \in Identities : Holding(w, i)'
  <2>1. CASE repairs = <<>>
    <3>1. \A i : ~Contains(repairs, i)
      BY <2>1 DEF Contains
    <3>2. pass'[w] = NoPass /\ \A i \in Identities : claim'[i] # w
      BY <1>6, <1>11, <2>1, <3>1
    <3> QED
      BY <3>2, EmptyPass DEF Working, Holding, PassTyped, Distinct
  <2>2. CASE repairs # <<>>
    <3>1. pass[w].seeds \in [Identities -> SUBSET Listings]
      BY <1>1 DEF Pass
    <3>2. [i \in Identities |-> IF i \in kept THEN pass[w].seeds[i] ELSE {}]
              \in [Identities -> SUBSET Listings]
      BY <3>1
    <3>3. /\ pass'[w].pc = "repair" /\ pass'[w].todo = repairs /\ pass'[w].scope = {}
          /\ \A i \in Identities : Contains(repairs, i) => pass'[w].seeds[i] = pass[w].seeds[i]
          /\ pass'[w] \in Pass
      BY <1>4, <1>6, <1>8, <2>2, <3>2 DEF Pass
    <3>4. \A i \in Identities : Contains(repairs, i) => pass'[w].seeds[i] # {}
      BY <1>1, <1>4, <1>6, <3>3 DEF Working
    <3>5. Head(repairs) \in Identities /\ Contains(repairs, Head(repairs))
      BY <1>4, <2>2, TailDistinct
    <3>6. PassTyped(pass[w])'
      BY <2>2, <3>3, <3>4, <3>5 DEF PassTyped
    <3>7. Working(w)'
      BY <1>4, <3>3, <3>4 DEF Working, Distinct
    <3>8. ASSUME NEW i \in Identities
          PROVE  Holding(w, i)'
      <4> SUFFICES ASSUME claim'[i] = w
                   PROVE  Contains(repairs, i) /\ (~Vetoed(i)' => Covered(w, i)')
        BY <3>3 DEF Holding
      <4>1. claim[i] = w /\ Contains(repairs, i)
        BY <1>11
      <4>2. /\ Eligible(i)' = Eligible(i) /\ (Vetoed(i)' <=> Vetoed(i))
            /\ (Compatible(i)' <=> Compatible(i)) /\ Drifting(i)' = Drifting(i)
        BY <1>7, SameGroup
      <4>3. ~Vetoed(i) => Covered(w, i)
        BY <1>1, <1>6, <4>1 DEF Holding
      <4>4. pass'[w].seeds[i] = pass[w].seeds[i]
        BY <3>3, <4>1
      <4>5. Covered(w, i) => Covered(w, i)'
        BY <1>6, <3>3, <4>2, <4>4 DEF Covered, Underway, At
      <4> QED
        BY <4>1, <4>2, <4>3, <4>5
    <3> QED
      BY <3>6, <3>7, <3>8
  <2> QED
    BY <2>1, <2>2
<1>13. \A i \in Identities : Queued(i)' <=> Queued(i)
  BY <1>7 DEF Queued
<1>14. \A v \in Passes \ {w} : \A i \in Identities : claim'[i] = v => claim[i] = v
  BY <1>5, Numbers
<1>15. pass' = [pass EXCEPT ![w] = pass'[w]]
  BY <1>6
<1> QED
  BY <1>1, <1>7, <1>10, <1>12, <1>13, <1>14, <1>15, QuietStep

\* The seed's batch is to write the whole group, or the seed alone.
LEMMA FindsPeersKeeps ==
    ASSUME IInv, NEW w \in Passes, PassFindsPeers(w)
    PROVE  IInv'
<1> DEFINE c == Current(w)
           seed == Lowest(pass[w].seeds[c])
<1>1. /\ RowsTyped /\ pass \in [Passes -> Pass] /\ pass[w] \in Pass
      /\ Working(w) /\ faults \in 0..MaxFaults /\ \A i \in Identities : Holding(w, i)
  BY Typed
<1>2. /\ pass[w].todo \in Seq(Identities) /\ Distinct(pass[w].todo)
      /\ pass[w].seeds \in [Identities -> SUBSET Listings] /\ PassTyped(pass[w])
  BY Typed
<1>3. /\ pass[w].pc = "repair" /\ pass[w].todo # <<>> /\ pass[w].seeds[c] # {}
  BY <1>2 DEF PassFindsPeers, At, PassTyped, Current
<1>4. c \in Identities
  BY <1>2, <1>3, TailDistinct DEF Current
<1> HIDE DEF c
<1>5. seed \in pass[w].seeds[c] /\ pass[w].seeds[c] \in SUBSET Listings /\ seed \in Listings
  BY <1>2, <1>3, <1>4, LowestListing
<1>6. /\ listing' = listing /\ member' = member /\ crawl' = crawl /\ changes' = changes
      /\ faults' = faults /\ queue' = queue /\ claim' = claim /\ age' = age
  BY DEF PassFindsPeers, rows
<1>7. pass' = [pass EXCEPT ![w] = pass'[w]]
  BY <1>1 DEF PassFindsPeers
<1>8. pass'[w] = [pass[w] EXCEPT !.pc = "batch", !.scope = Scope(seed),
                    !.seeds[c] = pass[w].seeds[c] \ {seed}]
  BY <1>1 DEF PassFindsPeers, c
<1>9. Scope(seed) \subseteq Listings
  BY <1>5, OwnerTypes
<1> HIDE DEF seed
<1>10. /\ pass'[w] \in Pass /\ pass'[w].pc = "batch" /\ pass'[w].todo = pass[w].todo
       /\ pass'[w].scope = Scope(seed)
       /\ pass'[w].seeds = [pass[w].seeds EXCEPT ![c] = pass[w].seeds[c] \ {seed}]
  <2>1. [pass[w].seeds EXCEPT ![c] = pass[w].seeds[c] \ {seed}] \in [Identities -> SUBSET Listings]
    BY <1>2, <1>4
  <2> QED
    BY <1>1, <1>8, <1>9, <2>1 DEF Pass
<1>11. Current(w)' = c
  BY <1>10 DEF Current, c
<1>12. RowsTyped'
  BY <1>1, <1>6 DEF RowsTyped, Distinct, Queued
<1>13. PassTyped(pass[w])'
  BY <1>3, <1>10 DEF PassTyped
<1>14. Working(w)'
  BY <1>1, <1>2, <1>3, <1>4, <1>10, <1>11 DEF Working, Distinct
<1>15. ASSUME NEW i \in Identities
       PROVE  Holding(w, i)'
  <2> SUFFICES ASSUME claim'[i] = w
               PROVE  Contains(pass[w].todo, i) /\ (~Vetoed(i)' => Covered(w, i)')
    BY <1>10 DEF Holding
  <2>1. claim[i] = w
    BY <1>6
  <2>2. /\ Eligible(i)' = Eligible(i) /\ (Vetoed(i)' <=> Vetoed(i))
        /\ (Compatible(i)' <=> Compatible(i)) /\ Drifting(i)' = Drifting(i)
    BY <1>6, SameGroup
  <2>3. Contains(pass[w].todo, i) /\ (~Vetoed(i) => Covered(w, i))
    BY <1>1, <1>3, <2>1 DEF Holding
  <2>4. ASSUME Covered(w, i), i # c
        PROVE  Covered(w, i)'
    <3>1. pass'[w].seeds[i] = pass[w].seeds[i]
      BY <1>2, <1>4, <1>10, <2>4
    <3> QED
      BY <1>3, <1>10, <1>11, <2>2, <2>4, <3>1 DEF Covered, Underway, At
  <2>5. ASSUME Covered(w, i), i = c
        PROVE  Covered(w, i)'
    <3>1. pass'[w].seeds[i] = pass[w].seeds[i] \ {seed}
      BY <1>2, <1>4, <1>10, <2>5
    <3>2. seed \in Eligible(i) /\ pass[w].seeds[i] \subseteq Eligible(i)
      BY <1>5, <2>5 DEF Covered
    <3>3. Scope(seed) = {seed} \cup (IF Compatible(i) THEN Eligible(i) ELSE {})
      BY <3>2, Grouping
    <3>4. ~Compatible(i) => Drifting(i) \subseteq pass[w].seeds[i]
      BY <1>3, <2>5 DEF Covered, Underway, At
    <3>5. Underway(w, i)' = Scope(seed)
      BY <1>10, <1>11, <2>5 DEF Underway, At
    <3>6. /\ At(w, "batch")' /\ ~At(w, "settle")' /\ Current(w)' = i
      BY <1>10, <1>11, <2>5 DEF At
    <3>7. Compatible(i) => Eligible(i) \subseteq pass'[w].scope
      BY <1>10, <3>3
    <3>8. ~Compatible(i) => Drifting(i) \subseteq pass'[w].seeds[i] \cup Scope(seed)
      BY <3>1, <3>3, <3>4
    <3> QED
      BY <2>2, <3>1, <3>2, <3>5, <3>6, <3>7, <3>8 DEF Covered
  <2> QED
    BY <2>2, <2>3, <2>4, <2>5
<1>16. \A i \in Identities : Queued(i)' <=> Queued(i)
  BY <1>6 DEF Queued
<1>17. /\ \A i \in Identities : Queued(i) => Queued(i)' \/ Vetoed(i) \/ Drifting(i) = {}
       /\ \A v \in Passes \ {w} : \A i \in Identities : claim'[i] = v => claim[i] = v
  BY <1>6, <1>16
<1> QED
  BY <1>1, <1>6, <1>7, <1>12, <1>13, <1>14, <1>15, <1>17, QuietStep

\* The next repair has its seeds, and the pass no longer has the last one.
LEMMA NextRepairKeeps ==
    ASSUME IInv, NEW w \in Passes, pass[w].pc \in {"repair", "batch", "settle"},
           listing' = listing, member' = member, NextRepair(w),
           \A i \in Identities : claim'[i] = w => claim[i] = w /\ i # Current(w)
    PROVE  /\ pass' = [pass EXCEPT ![w] = pass'[w]]
           /\ PassTyped(pass[w])' /\ Working(w)' /\ \A i \in Identities : Holding(w, i)'
<1> DEFINE rest == Tail(pass[w].todo)
           c == Current(w)
<1>1. /\ pass \in [Passes -> Pass] /\ pass[w] \in Pass /\ PassTyped(pass[w])
      /\ Working(w) /\ \A i \in Identities : Holding(w, i)
  BY Typed
<1>2. pass[w].todo \in Seq(Identities) /\ Distinct(pass[w].todo) /\ pass[w].todo # <<>>
  BY <1>1, Typed DEF PassTyped
<1>3. /\ rest \in Seq(Identities) /\ Distinct(rest)
      /\ \A i : Contains(rest, i) => Contains(pass[w].todo, i) /\ i # c
      /\ \A i : Contains(pass[w].todo, i) /\ i # c => Contains(rest, i)
  BY <1>2, TailDistinct DEF Current
<1>4. /\ pass' = [pass EXCEPT ![w] = pass'[w]]
      /\ pass'[w] = IF rest = <<>> THEN NoPass
                    ELSE [pass[w] EXCEPT !.pc = "repair", !.todo = rest, !.scope = {}]
  BY <1>1 DEF NextRepair
<1> HIDE DEF rest
<1>5. CASE rest = <<>>
  <2>1. \A i : ~Contains(rest, i)
    BY <1>5 DEF Contains
  <2>2. ASSUME NEW i \in Identities
        PROVE  claim'[i] # w
    BY <1>1, <1>3, <2>1 DEF Holding
  <2>3. pass'[w] = NoPass
    BY <1>4, <1>5
  <2> QED
    BY <1>4, <2>2, <2>3, EmptyPass DEF Working, Holding, PassTyped, Distinct
<1>6. CASE rest # <<>>
  <2>1. /\ pass'[w] \in Pass /\ pass'[w].pc = "repair" /\ pass'[w].todo = rest
        /\ pass'[w].seeds = pass[w].seeds
    BY <1>1, <1>3, <1>4, <1>6 DEF Pass
  <2>2. \A i \in Identities : Contains(rest, i) => pass[w].seeds[i] # {}
    BY <1>1, <1>3 DEF Working
  <2>3. Head(rest) \in Identities /\ Contains(rest, Head(rest))
    BY <1>3, <1>6, TailDistinct
  <2>4. PassTyped(pass[w])'
    BY <1>6, <2>1, <2>2, <2>3 DEF PassTyped
  <2>5. Working(w)'
    BY <1>3, <2>1, <2>2 DEF Working, Distinct
  <2>6. ASSUME NEW i \in Identities
        PROVE  Holding(w, i)'
    <3> SUFFICES ASSUME claim'[i] = w
                 PROVE  Contains(rest, i) /\ (~Vetoed(i)' => Covered(w, i)')
      BY <2>1 DEF Holding
    <3>1. claim[i] = w /\ i # c
      OBVIOUS
    <3>2. Contains(rest, i) /\ (~Vetoed(i) => Covered(w, i))
      BY <1>1, <1>3, <3>1 DEF Holding
    <3>3. /\ Eligible(i)' = Eligible(i) /\ (Vetoed(i)' <=> Vetoed(i))
          /\ (Compatible(i)' <=> Compatible(i)) /\ Drifting(i)' = Drifting(i)
      BY SameGroup
    <3>4. Covered(w, i) => Covered(w, i)'
      BY <2>1, <3>1, <3>3 DEF Covered, Underway, At
    <3> QED
      BY <3>2, <3>3, <3>4
  <2> QED
    BY <1>4, <2>4, <2>5, <2>6
<1> QED
  BY <1>5, <1>6

\* The last seed has been repaired: if the claim is still the pass's, every member
\* is where it should be.
LEMMA SettlesKeeps ==
    ASSUME IInv, NEW w \in Passes, PassSettles(w)
    PROVE  IInv'
<1>1. /\ RowsTyped /\ pass \in [Passes -> Pass]
      /\ faults \in 0..MaxFaults /\ \A i \in Identities : Holding(w, i)
  BY Typed
<1>2. pass[w].pc = "settle" /\ Deleted(w, {Current(w)}) /\ NextRepair(w)
  BY DEF PassSettles, At
<1>3. /\ listing' = listing /\ member' = member /\ crawl' = crawl /\ changes' = changes
      /\ faults' = faults
  BY DEF PassSettles
<1>4. /\ RowsTyped'
      /\ \A i \in Identities : Queued(i)' <=> Queued(i) /\ ~(i \in {Current(w)} /\ claim[i] = w)
      /\ \A i \in Identities : claim'[i] = IF i \in {Current(w)} /\ claim[i] = w THEN Free ELSE claim[i]
  BY <1>1, <1>2, DeletedRows
<1>5. \A i \in Identities : claim'[i] = w => claim[i] = w /\ i # Current(w)
  BY <1>4, Numbers
<1>6. /\ pass' = [pass EXCEPT ![w] = pass'[w]]
      /\ PassTyped(pass[w])' /\ Working(w)' /\ \A i \in Identities : Holding(w, i)'
  BY <1>2, <1>3, <1>5, NextRepairKeeps
<1>7. ASSUME NEW i \in Identities, Queued(i), ~Queued(i)'
      PROVE  Vetoed(i) \/ Drifting(i) = {}
  <2>1. i = Current(w) /\ claim[i] = w
    BY <1>4, <1>7
  <2>2. ~Vetoed(i) => Covered(w, i)
    BY <1>1, <1>2, <2>1 DEF Holding
  <2> QED
    BY <1>2, <2>1, <2>2 DEF Covered, Underway, At
<1>8. \A v \in Passes \ {w} : \A i \in Identities : claim'[i] = v => claim[i] = v
  BY <1>4, Numbers
<1> QED
  BY <1>1, <1>3, <1>4, <1>6, <1>7, <1>8, QuietStep

\* Claims that are left behind have a token no pass has.
LEMMA LeavesRows ==
    ASSUME IInv, NEW w \in Passes, NEW S, LeavesClaims(w, S), queue' = queue, age' = age
    PROVE  /\ RowsTyped'
           /\ \A i \in Identities : claim'[i] = IF i \in S /\ claim[i] = w THEN Lost ELSE claim[i]
           /\ \A v \in Passes : \A i \in Identities : claim'[i] = v => claim[i] = v /\ ~(v = w /\ i \in S)
           /\ \A i \in Identities : Queued(i)' <=> Queued(i)
<1>1. RowsTyped /\ claim \in [Identities -> Passes \cup {Free, Lost}]
  BY Typed
<1>2. \A i \in Identities : claim'[i] = IF i \in S /\ claim[i] = w THEN Lost ELSE claim[i]
  BY DEF LeavesClaims
<1>3. claim' \in [Identities -> Passes \cup {Free, Lost}]
  BY <1>1 DEF LeavesClaims
<1>4. \A i \in Identities : Queued(i)' <=> Queued(i)
  BY DEF Queued
<1>5. \A v \in Passes : \A i \in Identities : claim'[i] = v => claim[i] = v /\ ~(v = w /\ i \in S)
  BY <1>2, Numbers
<1>6. \A i \in Identities : claim'[i] # Free => Queued(i)'
  BY <1>1, <1>2, <1>4, Numbers DEF RowsTyped
<1> QED
  BY <1>1, <1>2, <1>3, <1>4, <1>5, <1>6 DEF RowsTyped, Distinct

LEMMA FailsKeeps ==
    ASSUME IInv, NEW w \in Passes, PassFails(w)
    PROVE  IInv'
<1>1. /\ faults \in 0..MaxFaults /\ pass \in [Passes -> Pass]
  BY Typed
<1>2. /\ pass[w].pc \in {"repair", "batch", "settle"} /\ NextRepair(w)
      /\ LeavesClaims(w, {Current(w)})
  BY DEF PassFails
<1>3. /\ listing' = listing /\ member' = member /\ crawl' = crawl /\ changes' = changes
      /\ queue' = queue /\ age' = age
  BY DEF PassFails
<1>4. faults' \in 0..MaxFaults
  BY <1>1, FaultTypes DEF PassFails
<1>5. /\ RowsTyped'
      /\ \A v \in Passes : \A i \in Identities :
            claim'[i] = v => claim[i] = v /\ ~(v = w /\ i \in {Current(w)})
      /\ \A i \in Identities : Queued(i)' <=> Queued(i)
  BY <1>2, <1>3, LeavesRows
<1>6. \A i \in Identities : claim'[i] = w => claim[i] = w /\ i # Current(w)
  BY <1>5
<1>7. /\ pass' = [pass EXCEPT ![w] = pass'[w]]
      /\ PassTyped(pass[w])' /\ Working(w)' /\ \A i \in Identities : Holding(w, i)'
  BY <1>2, <1>3, <1>6, NextRepairKeeps
<1> QED
  BY <1>3, <1>4, <1>5, <1>7, QuietStep

LEMMA StopsKeeps ==
    ASSUME IInv, NEW w \in Passes, PassStops(w)
    PROVE  IInv'
<1>1. pass \in [Passes -> Pass]
  BY Typed
<1>2. LeavesClaims(w, Identities) /\ pass' = [pass EXCEPT ![w] = NoPass]
  BY DEF PassStops
<1>3. /\ listing' = listing /\ member' = member /\ crawl' = crawl /\ changes' = changes
      /\ queue' = queue /\ age' = age
  BY DEF PassStops
<1>4. faults' \in 0..MaxFaults
  BY FaultTypes DEF PassStops
<1>5. /\ RowsTyped'
      /\ \A v \in Passes : \A i \in Identities :
            claim'[i] = v => claim[i] = v /\ ~(v = w /\ i \in Identities)
      /\ \A i \in Identities : Queued(i)' <=> Queued(i)
  BY <1>2, <1>3, LeavesRows
<1>6. pass'[w] = NoPass /\ pass' = [pass EXCEPT ![w] = pass'[w]]
  BY <1>1, <1>2
<1>7. Working(w)' /\ PassTyped(pass[w])' /\ \A i \in Identities : Holding(w, i)'
  BY <1>5, <1>6, EmptyPass DEF Working, Holding, PassTyped, Distinct
<1> QED
  BY <1>3, <1>4, <1>5, <1>6, <1>7, QuietStep

(***************************************************************************)
(* Batches, crawls and changes.                                            *)
(***************************************************************************)

\* No batch makes a member drift, whenever it lands; the members in scope with
\* their owners are put right.
LEMMA BatchRepairs ==
    ASSUME TypeOK, NEW scope \in SUBSET Listings, Batch(scope), listing' = listing,
           NEW i \in Identities
    PROVE  /\ Eligible(i)' = Eligible(i) /\ (Vetoed(i)' <=> Vetoed(i))
           /\ (Compatible(i)' <=> Compatible(i)) /\ Drifting(i)' \subseteq Drifting(i)
           /\ \A l \in Eligible(i) : l \in scope /\ Owner(l) \in scope => l \notin Drifting(i)'
<1>1. /\ Eligible(i)' = Eligible(i) /\ (Vetoed(i)' <=> Vetoed(i))
      /\ (Compatible(i)' <=> Compatible(i)) /\ \A l \in Eligible(i) : Owner(l)' = Owner(l)
  BY SameOwners
<1>2. \A l \in Eligible(i) :
        /\ member'[l] = Owner(l) \/ member'[l] = member[l]
        /\ l \in scope /\ Owner(l) \in scope => member'[l] = Owner(l)
  BY BatchMovesToOwner
<1>3. Drifting(i)' = {l \in Eligible(i) : member'[l] # NoEntity /\ member'[l] # Owner(l)}
  BY <1>1 DEF Drifting
<1>4. Drifting(i)' \subseteq Drifting(i)
  BY <1>2, <1>3 DEF Drifting
<1> QED
  BY <1>1, <1>2, <1>3, <1>4

\* Passes that do not move keep what they hold when a batch lands.
LEMMA BatchKeepsOthers ==
    ASSUME IInv, NEW scope \in SUBSET Listings, Batch(scope), listing' = listing,
           queue' = queue, claim' = claim
    PROVE  /\ \A v \in Passes : \A i \in Identities : pass'[v] = pass[v] => Holding(v, i)'
           /\ \A v \in Passes : pass'[v] = pass[v] => Working(v)'
           /\ DriftIsQueued'
<1>1. \A i \in Identities :
        /\ Eligible(i)' = Eligible(i) /\ (Vetoed(i)' <=> Vetoed(i))
        /\ (Compatible(i)' <=> Compatible(i)) /\ Drifting(i)' \subseteq Drifting(i)
  BY BatchRepairs DEF IInv
<1>2. ASSUME NEW v \in Passes, NEW i \in Identities, pass'[v] = pass[v]
      PROVE  Holding(v, i)'
  BY <1>1, <1>2, OthersHold DEF IInv
<1>3. ASSUME NEW v \in Passes, pass'[v] = pass[v]
      PROVE  Working(v)'
  BY <1>3 DEF IInv, Working, Current
<1>4. \A i \in Identities : Queued(i)' <=> Queued(i)
  BY DEF Queued
<1>5. DriftIsQueued'
  BY <1>1, <1>4, DriftStaysQueued DEF IInv
<1> QED
  BY <1>2, <1>3, <1>5

LEMMA WritesKeeps ==
    ASSUME IInv, NEW w \in Passes, PassWrites(w)
    PROVE  IInv'
<1> DEFINE c == Current(w)
           scope == pass[w].scope
<1>1. /\ RowsTyped /\ pass \in [Passes -> Pass] /\ pass[w] \in Pass /\ PassTyped(pass[w])
      /\ Working(w) /\ \A i \in Identities : Holding(w, i)
  BY Typed
<1>2. /\ pass[w].todo \in Seq(Identities) /\ scope \in SUBSET Listings
      /\ pass[w].pc = "batch" /\ pass[w].todo # <<>>
  BY <1>1, Typed DEF PassWrites, At, PassTyped
<1>3. Batch(scope)
  BY DEF PassWrites
<1>4. /\ listing' = listing /\ crawl' = crawl /\ changes' = changes
      /\ faults' = faults /\ queue' = queue /\ claim' = claim /\ age' = age
  BY DEF PassWrites, rows
<1>5. /\ pass' = [pass EXCEPT ![w] = pass'[w]]
      /\ pass'[w] = [pass[w] EXCEPT
            !.pc = IF pass[w].seeds[c] = {} THEN "settle" ELSE "repair", !.scope = {}]
  BY <1>1 DEF PassWrites
<1>6. /\ pass'[w] \in Pass /\ pass'[w].todo = pass[w].todo /\ pass'[w].seeds = pass[w].seeds
      /\ pass'[w].pc = IF pass[w].seeds[c] = {} THEN "settle" ELSE "repair"
      /\ Current(w)' = c
  BY <1>1, <1>5 DEF Pass, Current
<1>7. \A v \in Passes \ {w} : pass'[v] = pass[v]
  BY <1>1, <1>5
<1>8. /\ \A v \in Passes : \A i \in Identities : pass'[v] = pass[v] => Holding(v, i)'
      /\ \A v \in Passes : pass'[v] = pass[v] => Working(v)'
      /\ DriftIsQueued'
  BY <1>2, <1>3, <1>4, BatchKeepsOthers
<1>9. PassTyped(pass[w])'
  BY <1>2, <1>6 DEF PassTyped, Current
<1>10. Working(w)'
  BY <1>1, <1>2, <1>6 DEF Working, Distinct
<1>11. ASSUME NEW i \in Identities
       PROVE  Holding(w, i)'
  <2> SUFFICES ASSUME claim'[i] = w
               PROVE  Contains(pass[w].todo, i) /\ (~Vetoed(i)' => Covered(w, i)')
    BY <1>6 DEF Holding
  <2>1. Contains(pass[w].todo, i) /\ (~Vetoed(i) => Covered(w, i))
    BY <1>1, <1>2, <1>4 DEF Holding
  <2>2. /\ Eligible(i)' = Eligible(i) /\ (Vetoed(i)' <=> Vetoed(i))
        /\ (Compatible(i)' <=> Compatible(i)) /\ Drifting(i)' \subseteq Drifting(i)
        /\ \A l \in Eligible(i) : l \in scope /\ Owner(l) \in scope => l \notin Drifting(i)'
    BY <1>2, <1>3, <1>4, BatchRepairs DEF IInv
  <2>3. Drifting(i)' \subseteq Eligible(i)
    BY <2>2 DEF Drifting
  <2>4. pass'[w].pc # "batch" /\ Underway(w, i)' = {}
    BY <1>6 DEF Underway, At
  <2>5. ASSUME Covered(w, i), i # c
        PROVE  Covered(w, i)'
    BY <1>2, <1>6, <2>2, <2>4, <2>5 DEF Covered, Underway, At
  <2>6. ASSUME Covered(w, i), i = c
        PROVE  Covered(w, i)'
    <3>1. CASE Compatible(i)
      <4>1. Drifting(i) = {} \/ pass[w].seeds[i] # {} \/ Eligible(i) \subseteq scope
        BY <2>6, <3>1 DEF Covered
      <4>2. Eligible(i) \subseteq scope => Drifting(i)' = {}
        BY <2>2, <2>3, Grouping
      <4> QED
        BY <1>6, <2>2, <2>4, <2>6, <3>1, <4>1, <4>2 DEF Covered, At
    <3>2. CASE ~Compatible(i)
      <4>1. Drifting(i) \subseteq pass[w].seeds[i] \cup scope
        BY <1>2, <2>6, <3>2 DEF Covered, Underway, At
      <4>2. \A l \in Drifting(i)' : l \notin scope
        BY <2>2, <2>3, <3>2, Grouping
      <4>3. Drifting(i)' \subseteq pass[w].seeds[i]
        BY <2>2, <4>1, <4>2
      <4> QED
        BY <1>6, <2>2, <2>4, <2>6, <3>2, <4>3 DEF Covered, At
    <3> QED
      BY <3>1, <3>2
  <2> QED
    BY <2>1, <2>2, <2>5, <2>6
<1>12. TypeOK'
  <2>1. member' \in [Listings -> 0..Catalog]
    BY <1>2, <1>3, BatchTypes DEF IInv
  <2>2. RowsTyped'
    BY <1>1, <1>4 DEF RowsTyped, Distinct, Queued
  <2>3. pass' \in [Passes -> Pass] /\ \A v \in Passes : PassTyped(pass[v])'
    BY <1>1, <1>5, <1>6, <1>7, <1>9, TypeParts DEF PassTyped, IInv
  <2> QED
    BY <1>4, <2>1, <2>2, <2>3, TypePartsNext DEF IInv, TypeOK
<1>13. /\ \A v \in Passes : Working(v)'
       /\ \A v \in Passes : \A i \in Identities : Holding(v, i)'
  BY <1>7, <1>8, <1>10, <1>11
<1> QED
  BY <1>8, <1>12, <1>13 DEF IInv

\* A crawl's sync is a read of the peers and a batch, with no claim.
LEMMA CrawlKeeps ==
    ASSUME IInv, CrawlWrites \/ \E l \in Listings : CrawlReads(l)
    PROVE  IInv'
<1>1. /\ listing' = listing /\ pass' = pass /\ changes' = changes
      /\ faults' = faults /\ queue' = queue /\ claim' = claim /\ age' = age
  BY DEF CrawlWrites, CrawlReads, rows
<1>2. /\ RowsTyped /\ pass \in [Passes -> Pass] /\ crawl \subseteq Listings
      /\ member \in [Listings -> 0..Catalog]
      /\ \A w \in Passes : PassTyped(pass[w])
  BY TypeParts DEF IInv
<1>3. RowsTyped' /\ \A w \in Passes : PassTyped(pass[w])'
  BY <1>1, <1>2 DEF RowsTyped, PassTyped, Distinct, Queued
<1>4. CASE CrawlWrites
  <2>1. Batch(crawl) /\ crawl' = {}
    BY <1>4 DEF CrawlWrites
  <2>2. member' \in [Listings -> 0..Catalog]
    BY <1>2, <2>1, BatchTypes DEF IInv
  <2>3. TypeOK'
    BY <1>1, <1>2, <1>3, <2>1, <2>2, TypePartsNext DEF IInv, TypeOK
  <2>4. /\ \A v \in Passes : \A i \in Identities : pass'[v] = pass[v] => Holding(v, i)'
        /\ \A v \in Passes : pass'[v] = pass[v] => Working(v)'
        /\ DriftIsQueued'
    BY <1>1, <1>2, <2>1, BatchKeepsOthers
  <2> QED
    BY <1>1, <2>3, <2>4 DEF IInv
<1>5. ASSUME NEW l \in Listings, CrawlReads(l)
      PROVE  IInv'
  <2>1. member' = member /\ crawl' = Scope(l)
    BY <1>5 DEF CrawlReads
  <2>2. TypeOK'
    BY <1>1, <1>2, <1>3, <2>1, OwnerTypes, TypePartsNext DEF IInv, TypeOK
  <2>3. \A i \in Identities :
            /\ Eligible(i)' = Eligible(i) /\ (Vetoed(i)' <=> Vetoed(i))
            /\ (Compatible(i)' <=> Compatible(i)) /\ Drifting(i)' = Drifting(i)
            /\ (Queued(i)' <=> Queued(i))
    BY <1>1, <2>1, SameGroup DEF Queued
  <2>4. ASSUME NEW v \in Passes, NEW i \in Identities
        PROVE  Holding(v, i)'
    BY <1>1, <2>3, OthersHold DEF IInv
  <2>5. \A v \in Passes : Working(v)'
    BY <1>1 DEF IInv, Working, Current
  <2>6. DriftIsQueued'
    BY <2>3, DriftStaysQueued DEF IInv
  <2> QED
    BY <2>2, <2>4, <2>5, <2>6 DEF IInv
<1> QED
  BY <1>4, <1>5

\* A change is seen by the identities it marks alone, and takes their claims away.
LEMMA ChangeKeeps ==
    ASSUME IInv, NEW l \in Listings, NEW row \in Rows[l], Change(l, row)
    PROVE  IInv'
<1> DEFINE S == {listing[l].identity, row.identity} \ {NoIdentity}
<1>1. /\ RowsTyped /\ pass \in [Passes -> Pass]
      /\ listing \in [Listings -> Row] /\ row \in Row
      /\ changes' \in 0..MaxChanges
      /\ \A w \in Passes : PassTyped(pass[w])
  <2>1. changes \in 0..MaxChanges /\ changes < MaxChanges /\ changes' = changes + 1
    BY DEF IInv, TypeOK, Change
  <2> QED
    BY <2>1, TypeParts, IdentityBounds, RowAssumption DEF IInv
<1>2. /\ member' = member /\ pass' = pass /\ crawl' = crawl /\ faults' = faults
      /\ listing' = [listing EXCEPT ![l] = row] /\ Marked(S)
  BY DEF Change
<1>3. S \in SUBSET Identities
  BY <1>1 DEF Row
<1>4. \A i \in Identities : i \notin S => listing[l].identity # i /\ row.identity # i
  BY RowAssumption
<1> HIDE DEF S
<1>5. /\ RowsTyped'
      /\ \A i \in Identities : Queued(i)' <=> Queued(i) \/ i \in S
      /\ \A i \in Identities : claim'[i] = IF i \in S THEN Free ELSE claim[i]
  BY <1>1, <1>2, <1>3, MarkedRows
<1>6. TypeOK'
  <2>1. listing' \in [Listings -> Row] /\ \A k \in Listings : listing'[k] \in Rows[k]
    BY <1>1, <1>2 DEF IInv, TypeOK
  <2>2. \A w \in Passes : PassTyped(pass[w])'
    BY <1>1, <1>2 DEF PassTyped
  <2> QED
    BY <1>1, <1>2, <1>5, <2>1, <2>2, TypePartsNext DEF IInv, TypeOK
<1>7. ASSUME NEW i \in Identities, i \notin S
      PROVE  /\ Eligible(i)' = Eligible(i) /\ (Vetoed(i)' <=> Vetoed(i))
             /\ (Compatible(i)' <=> Compatible(i)) /\ Drifting(i)' = Drifting(i)
  <2>1. \A k \in Listings :
            listing[k].identity = i \/ listing'[k].identity = i =>
                listing'[k] = listing[k] /\ member'[k] = member[k]
    BY <1>1, <1>2, <1>4, <1>7
  <2> QED
    BY <2>1, SameGroup
<1>8. ASSUME NEW v \in Passes, NEW i \in Identities
      PROVE  Holding(v, i)'
  <2>1. CASE i \in S
    BY <1>5, <2>1, Numbers DEF Holding
  <2>2. CASE i \notin S
    BY <1>2, <1>5, <1>7, <2>2, OthersHold DEF IInv
  <2> QED
    BY <2>1, <2>2
<1>9. \A v \in Passes : Working(v)'
  BY <1>2 DEF IInv, Working, Current
<1>10. DriftIsQueued'
  <2>1. ASSUME NEW i \in Identities
        PROVE  \/ Queued(i)'
               \/ Vetoed(i)'
               \/ Drifting(i)' = {}
               \/ (~Vetoed(i)' => ~Vetoed(i)) /\ Drifting(i)' \subseteq Drifting(i) /\ ~Queued(i)
    BY <1>5, <1>7
  <2> QED
    BY <2>1, DriftStaysQueued DEF IInv
<1> QED
  BY <1>6, <1>8, <1>9, <1>10 DEF IInv

(***************************************************************************)
(* The theorems.                                                           *)
(***************************************************************************)

\* Every listing starts where grouping would have it: in the first's entity.
LEMMA InitKeeps == Init => IInv
<1> SUFFICES ASSUME Init
             PROVE  IInv
  OBVIOUS
<1>1. 1 \in Listings /\ 1 \in 0..Catalog /\ LeasePasses \in Nat /\ MaxChanges \in Nat /\ MaxFaults \in Nat
  BY IdentityBounds DEF Listings, Catalog
<1>2. FirstRow \in Row /\ \A l \in Listings : listing[l] = FirstRow /\ FirstRow \in Rows[l]
  BY <1>1, RowAssumption DEF Init
<1>3. NoPass \in Pass
  BY DEF NoPass, Pass
<1>4. TypeOK
  <2>1. RowsTyped
    BY <1>1 DEF Init, RowsTyped, Distinct
  <2>2. pass \in [Passes -> Pass] /\ \A w \in Passes : PassTyped(pass[w])
    BY EmptyPass, <1>3 DEF Init
  <2>3. member \in [Listings -> 0..Catalog]
    BY <1>1 DEF Init
  <2> QED
    BY <1>1, <1>2, <2>1, <2>2, <2>3, TypeParts DEF Init
<1>5. \A w \in Passes : Working(w)
  BY EmptyPass DEF Init, Working
<1>6. \A w \in Passes : \A i \in Identities : Holding(w, i)
  BY Numbers DEF Init, Holding
<1>7. ASSUME NEW i \in Identities
      PROVE  ~Drifted(i)
  <2> SUFFICES ASSUME NEW l \in Eligible(i)
               PROVE  member[l] = Owner(l)
    BY DEF Drifted
  <2>1. Eligible(i) = Listings
    BY <1>2 DEF Eligible
  <2>2. Compatible(i)
    <3>1. Specific(Eligible(i)) \in SUBSET {FirstRow.category}
      BY <1>2, <2>1 DEF Specific
    <3>2. IsFiniteSet({FirstRow.category}) /\ Cardinality({FirstRow.category}) = 1
      BY FS_Singleton
    <3>3. Cardinality(Specific(Eligible(i))) <= 1
      BY <3>1, <3>2, FS_Subset
    <3> QED
      BY <3>3 DEF Compatible
  <2>3. Owner(l) = Lowest(Listings)
    BY <2>1, <2>2, Grouping
  <2>4. Lowest(Listings) = 1
    <3>1. Lowest(Listings) \in Listings /\ Lowest(Listings) <= 1
      BY <1>1, Numbers, LowestIsLeast
    <3> QED
      BY <3>1, Numbers DEF Listings
  <2> QED
    BY <2>1, <2>3, <2>4 DEF Init
<1> QED
  BY <1>4, <1>5, <1>6, <1>7 DEF IInv, DriftIsQueued

LEMMA StepKeeps == IInv /\ [Next]_vars => IInv'
<1> SUFFICES ASSUME IInv, [Next]_vars
             PROVE  IInv'
  OBVIOUS
<1>1. ASSUME NEW l \in Listings, CrawlReads(l)
      PROVE  IInv'
  BY <1>1, CrawlKeeps
<1>2. ASSUME NEW l \in Listings, NEW row \in Rows[l], Change(l, row)
      PROVE  IInv'
  BY <1>2, ChangeKeeps
<1>3. CASE CrawlWrites
  BY <1>3, CrawlKeeps
<1>4. ASSUME NEW w \in Passes, PassSteps(w)
      PROVE  IInv'
  <2>1. CASE PassReleases(w)
    <3>1. Begins(w) /\ faults' \in 0..MaxFaults
      BY <2>1, Typed DEF PassReleases
    <3> QED
      BY <3>1, BeginsKeeps
  <2>2. CASE PassClaims(w)
    BY <2>2, ClaimsKeeps
  <2>3. CASE PassReads(w)
    BY <2>3, ReadsKeeps
  <2>4. CASE PassCleans(w)
    BY <2>4, CleansKeeps
  <2>5. CASE PassDefers(w)
    BY <2>5, DefersKeeps
  <2>6. CASE PassFindsPeers(w)
    BY <2>6, FindsPeersKeeps
  <2>7. CASE PassWrites(w)
    BY <2>7, WritesKeeps
  <2>8. CASE PassSettles(w)
    BY <2>8, SettlesKeeps
  <2> QED
    BY <1>4, <2>1, <2>2, <2>3, <2>4, <2>5, <2>6, <2>7, <2>8 DEF PassSteps
<1>5. ASSUME NEW w \in Passes, PassOverlaps(w)
      PROVE  IInv'
  <2>1. Begins(w) /\ faults' \in 0..MaxFaults
    BY <1>5, FaultTypes DEF PassOverlaps
  <2> QED
    BY <2>1, BeginsKeeps
<1>6. ASSUME NEW w \in Passes, PassFails(w)
      PROVE  IInv'
  BY <1>6, FailsKeeps
<1>7. ASSUME NEW w \in Passes, PassStops(w)
      PROVE  IInv'
  BY <1>7, StopsKeeps
<1>8. CASE UNCHANGED vars
  <2>1. /\ listing' = listing /\ member' = member /\ pass' = pass /\ crawl' = crawl
        /\ changes' = changes /\ faults' = faults
        /\ queue' = queue /\ claim' = claim /\ age' = age
    BY <1>8 DEF vars
  <2>2. \A i \in Identities :
            /\ Eligible(i)' = Eligible(i) /\ (Vetoed(i)' <=> Vetoed(i))
            /\ (Compatible(i)' <=> Compatible(i)) /\ Drifting(i)' = Drifting(i)
            /\ (Queued(i)' <=> Queued(i))
    BY <2>1, SameGroup DEF Queued
  <2>3. ASSUME NEW v \in Passes, NEW i \in Identities
        PROVE  Holding(v, i)'
    BY <2>1, <2>2, OthersHold DEF IInv
  <2>4. \A v \in Passes : Working(v)'
    BY <2>1 DEF IInv, Working, Current
  <2>5. DriftIsQueued'
    BY <2>2, DriftStaysQueued DEF IInv
  <2>6. TypeOK'
    BY <2>1 DEF IInv, TypeOK, Queued
  <2> QED
    BY <2>3, <2>4, <2>5, <2>6 DEF IInv
<1> QED
  BY <1>1, <1>2, <1>3, <1>4, <1>5, <1>6, <1>7, <1>8 DEF Next

LEMMA InvariantHolds == Spec => []IInv
BY InitKeeps, StepKeeps, PTL DEF Spec

\* The dirty set, the claims and the passes stay in their domains; no identity is
\* queued twice, however it is marked, and a claim is always of a queued one.
THEOREM TypeCorrect == Spec => []TypeOK
<1>1. IInv => TypeOK
  BY DEF IInv
<1> QED
  BY <1>1, InvariantHolds, PTL

\* No settlement takes a wrongly grouped identity for clean, whatever its pass read
\* before the change, whoever else repairs it and however late a batch lands
\* (settleClaims and the triggers that set claimed_at to NULL).
THEOREM DriftNeverForgotten == Spec => []DriftIsQueued
<1>1. IInv => DriftIsQueued
  BY DEF IInv
<1> QED
  BY <1>1, InvariantHolds, PTL

=============================================================================
