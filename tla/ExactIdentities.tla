---------------------------- MODULE ExactIdentities ----------------------------
(***************************************************************************)
(* The exact-identity dirty set (src/db/product-search-exact-identity-     *)
(* dirty.ts, the triggers of migrations 0074 and 0076) and the membership  *)
(* it keeps right (src/db/product-search-entity-repository.ts).            *)
(*                                                                         *)
(* Listings of one identity (manufacturer and model) that no catalogue     *)
(* product has claimed share a search entity, l-<lowest listing id>, unless *)
(* their categories conflict: then each has its own.  A change of a        *)
(* listing's row marks the identities it had and has, by trigger; a pass   *)
(* of the five-minute cron claims what is marked, compares the members'    *)
(* entities with the ones grouping would give, repairs the first few that  *)
(* differ by syncProductSearchEntities and settles its claims by token.    *)
(* Crawls call the same sync for the listings they saw.                    *)
(*                                                                         *)
(* The catalogue's entities are one value; an entity no offer points to is *)
(* pruned by the batch that emptied it; each listing is of a shop of its   *)
(* own, so that every seed is a sync of its own.                           *)
(***************************************************************************)
EXTENDS Naturals, FiniteSets, Sequences, SequencesExt, Subsequences

CONSTANTS
    NumListings,    \* listings, by id
    Identities,     \* (manufacturer, model) pairs
    Rows,           \* the rows each listing may have in products
    FirstRow,       \* the row every listing starts with
    NumPasses,      \* invocations of the cron that may overlap
    Poison,         \* identities whose repair may throw every time
    MaxRepairs,     \* repairs a pass makes (2 in the cron)
    LeasePasses,    \* passes that begin before a claim is taken back
    MaxChanges,     \* changes of listings
    MaxFaults       \* crashes, yields to the budget and passing errors

ASSUME IdentityBounds ==
    /\ NumListings \in Nat \ {0} /\ NumPasses \in Nat \ {0}
    /\ MaxRepairs \in Nat \ {0}
    /\ LeasePasses \in Nat \ {0}
    /\ MaxChanges \in Nat /\ MaxFaults \in Nat
    /\ Poison \subseteq Identities /\ IsFiniteSet(Identities)

Listings == 1..NumListings
Passes == 1..NumPasses
NoIdentity == "unresolved"

\* "other" and "unclassified" are no evidence of a category.
Categories == {"amplifier", "speaker", "other"}

\* A row's part in grouping: "matched" to a verified catalogue product, vetoed
\* by the identity layer, or inactive.
Row == [identity : Identities \cup {NoIdentity},
        kind : {"open", "vetoed", "matched", "inactive"},
        category : Categories]

ASSUME RowAssumption ==
    /\ Rows \in [Listings -> SUBSET Row] /\ \A l \in Listings : FirstRow \in Rows[l]
    /\ FirstRow.identity \in Identities /\ FirstRow.kind = "open"
    /\ NoIdentity \notin Identities

NoEntity == 0                  \* no row in product_search_entity_offers
Catalog == NumListings + 1     \* an entity c-<catalogue product>

Free == 0                      \* claimed_at IS NULL
Lost == NumPasses + 1          \* the token of a pass that is over

VARIABLES
    listing,    \* products
    member,     \* the entity of each listing, l-<id> by its id
    queue,      \* the dirty identities, by marked_at
    claim,      \* claimed_at of each
    age,        \* the passes begun since it was claimed
    pass,       \* the passes in flight
    crawl,      \* the listings a crawl's sync is about to write, or {}
    changes, faults

vars == <<listing, member, queue, claim, age, pass, crawl, changes, faults>>
rows == <<queue, claim, age>>

Pass ==
    [pc : {"idle", "claim", "read", "clean", "defer", "repair", "batch", "settle"},
     todo : Seq(Identities), seeds : [Identities -> SUBSET Listings], scope : SUBSET Listings]

NoPass == [pc |-> "idle", todo |-> <<>>, seeds |-> [i \in Identities |-> {}], scope |-> {}]

Lowest(S) == CHOOSE l \in S : \A k \in S : l <= k

(***************************************************************************)
(* Grouping, as the projection's SQL derives it.                           *)
(***************************************************************************)

Eligible(i) == {l \in Listings : listing[l].identity = i /\ listing[l].kind = "open"}

Specific(S) == {listing[l].category : l \in S} \ {"other"}

Compatible(i) == Cardinality(Specific(Eligible(i))) <= 1

\* The owner of a listing's fallback entity: the representative of its group,
\* or itself.
Owner(l) ==
    LET i == listing[l].identity IN
    IF i \in Identities /\ l \in Eligible(i) /\ Compatible(i)
    THEN Lowest(Eligible(i)) ELSE l

\* The peers a seed is extended to.
Peers(l) ==
    LET i == listing[l].identity IN
    IF i \in Identities /\ Compatible(i) THEN Eligible(i) ELSE {}

Scope(l) == {l} \cup Peers(l)

\* One D1 batch: entities for the owners in scope, then memberships.  A listing
\* whose owner has no entity keeps the membership it has.
Batch(scope) ==
    LET entities == {member[l] : l \in Listings}
            \cup {l \in scope : Owner(l) = l /\ listing[l].kind \in {"open", "vetoed"}}
        Placed(l) ==
            CASE listing[l].kind = "inactive" -> NoEntity
              [] listing[l].kind = "matched" -> Catalog
              [] OTHER -> IF Owner(l) \in entities THEN Owner(l) ELSE member[l]
    IN  member' = [l \in Listings |-> IF l \in scope THEN Placed(l) ELSE member[l]]

(***************************************************************************)
(* The dirty set.                                                          *)
(***************************************************************************)

Queued(i) == Contains(queue, i)

\* The members a pass looks up, and the seeds of its resync: the first that is
\* not where grouping would have it, or all of them when they must be separated.
Members(i) == {l \in Listings : listing[l].identity = i /\ listing[l].kind \in {"open", "vetoed"}}

ResyncSeeds(i) ==
    LET groupable == Cardinality(Specific(Members(i))) <= 1
        drifted == {l \in Members(i) :
            /\ member[l] # NoEntity
            /\ member[l] # IF groupable THEN Lowest(Members(i)) ELSE l}
    IN  IF groupable /\ drifted # {} THEN {Lowest(drifted)} ELSE drifted

Init ==
    /\ listing = [l \in Listings |-> FirstRow]
    /\ member = [l \in Listings |-> 1]
    /\ queue = <<>>
    /\ claim = [i \in Identities |-> Free]
    /\ age = [i \in Identities |-> 0]
    /\ pass = [w \in Passes |-> NoPass]
    /\ crawl = {}
    /\ changes = 0
    /\ faults = 0

TypeOK ==
    /\ listing \in [Listings -> Row] /\ \A l \in Listings : listing[l] \in Rows[l]
    /\ member \in [Listings -> 0..Catalog]
    /\ queue \in Seq(Identities)
    /\ Distinct(queue)
    /\ claim \in [Identities -> Passes \cup {Free, Lost}]
    /\ age \in [Identities -> 0..LeasePasses]
    /\ \A i \in Identities : claim[i] # Free => Queued(i)
    /\ pass \in [Passes -> Pass]
    /\ \A w \in Passes :
        /\ pass[w].pc \in {"repair", "batch", "settle"} => pass[w].todo # <<>>
        /\ pass[w].pc = "repair" => pass[w].seeds[Head(pass[w].todo)] # {}
    /\ crawl \subseteq Listings
    /\ changes \in 0..MaxChanges
    /\ faults \in 0..MaxFaults

(***************************************************************************)
(* Listings and crawls.                                                    *)
(***************************************************************************)

\* Mutant: a marked identity is marked again, at the end.
MarkedTwice(S) ==
    /\ claim' = [i \in Identities |-> IF i \in S THEN Free ELSE claim[i]]
    /\ queue' = queue \o SetToSeq(S)
    /\ UNCHANGED age

\* INSERT ... ON CONFLICT DO UPDATE SET claimed_at = NULL: marked_at is kept.
Marked(S) ==
    /\ claim' = [i \in Identities |-> IF i \in S THEN Free ELSE claim[i]]
    /\ queue' = queue \o SetToSeq({i \in S : ~Queued(i)})
    /\ UNCHANGED age

\* A change of the row, of its resolution or of the product it is matched to.
Change(l, row) ==
    /\ row # listing[l]
    /\ changes < MaxChanges
    /\ changes' = changes + 1
    /\ listing' = [listing EXCEPT ![l] = row]
    /\ Marked({listing[l].identity, row.identity} \ {NoIdentity})
    /\ UNCHANGED <<member, pass, crawl, faults>>

\* A crawl's sync of a listing: the peers are read, then the batch is written.
CrawlReads(l) ==
    /\ crawl = {}
    /\ crawl' = Scope(l)
    /\ UNCHANGED <<listing, member, rows, pass, changes, faults>>

CrawlWrites ==
    /\ crawl # {}
    /\ Batch(crawl)
    /\ crawl' = {}
    /\ UNCHANGED <<listing, rows, pass, changes, faults>>

(***************************************************************************)
(* A pass.                                                                 *)
(***************************************************************************)

At(w, pc) == pass[w].pc = pc
Current(w) == Head(pass[w].todo)

\* The next repair, or the end of the pass.
NextRepair(w) ==
    LET rest == Tail(pass[w].todo) IN
    pass' = [pass EXCEPT ![w] =
        IF rest = <<>> THEN NoPass
        ELSE [@ EXCEPT !.pc = "repair", !.todo = rest, !.scope = {}]]

\* Mutant: the token is not compared.
DeletedAnyway(w, S) ==
    /\ queue' = Among(queue, Identities \ S)
    /\ claim' = [i \in Identities |-> IF i \in S THEN Free ELSE claim[i]]
    /\ UNCHANGED age

\* DELETE ... WHERE claimed_at = ? AND identity IN (...)
Deleted(w, S) ==
    LET mine == {i \in S : claim[i] = w} IN
    /\ queue' = Among(queue, Identities \ mine)
    /\ claim' = [i \in Identities |-> IF i \in mine THEN Free ELSE claim[i]]
    /\ UNCHANGED age

\* Mutant: claims are for good.
NeverExpired(i) == FALSE

\* releaseStaleClaims: claims that have outlived the lease go back to the queue.
Expired(i) == claim[i] # Free /\ age[i] + 1 >= LeasePasses

Begins(w) ==
    /\ At(w, "idle") /\ \A v \in 1..(w - 1) : ~At(v, "idle")
    /\ claim' = [i \in Identities |-> IF Expired(i) THEN Free ELSE claim[i]]
    /\ age' = [i \in Identities |->
            IF claim[i] = Free \/ Expired(i) THEN 0
            ELSE IF age[i] < LeasePasses THEN age[i] + 1 ELSE age[i]]
    /\ pass' = [pass EXCEPT ![w].pc = "claim"]
    /\ UNCHANGED <<listing, member, queue, crawl, changes>>

Alone(w) == \A v \in Passes \ {w} : At(v, "idle")

PassReleases(w) == Alone(w) /\ Begins(w) /\ UNCHANGED faults

\* The unclaimed, oldest mark first.
PassClaims(w) ==
    /\ At(w, "claim")
    /\ LET mine == Among(queue, {i \in Identities : claim[i] = Free}) IN
       /\ claim' = [i \in Identities |->
                IF Queued(i) /\ claim[i] = Free THEN w ELSE claim[i]]
       /\ age' = [i \in Identities |-> IF claim[i] = Free THEN 0 ELSE age[i]]
       /\ pass' = [pass EXCEPT ![w] =
                IF mine = <<>> THEN NoPass ELSE [@ EXCEPT !.pc = "read", !.todo = mine]]
    /\ UNCHANGED <<listing, member, queue, crawl, changes, faults>>

\* identityMembers, for all that was claimed at once.
PassReads(w) ==
    /\ At(w, "read")
    /\ pass' = [pass EXCEPT ![w] = [@ EXCEPT
            !.pc = "clean",
            !.seeds = [i \in Identities |->
                IF Contains(pass[w].todo, i) THEN ResyncSeeds(i) ELSE {}]]]
    /\ UNCHANGED <<listing, member, rows, crawl, changes, faults>>

\* Those that need nothing are deleted.
PassCleans(w) ==
    /\ At(w, "clean")
    /\ LET clean == {i \in ToSet(pass[w].todo) : pass[w].seeds[i] = {}} IN
       /\ Deleted(w, clean)
       /\ pass' = [pass EXCEPT ![w].pc = "defer", ![w].todo = Among(@, Identities \ clean)]
    /\ UNCHANGED <<listing, member, crawl, changes, faults>>

\* Those beyond the pass's repairs are released.
PassDefers(w) ==
    /\ At(w, "defer")
    /\ LET repairs == SubSeq(pass[w].todo, 1, Lowest({MaxRepairs, Len(pass[w].todo)}))
           kept == ToSet(repairs)
           later == ToSet(pass[w].todo) \ kept IN
       /\ claim' = [i \in Identities |->
                IF i \in later /\ claim[i] = w THEN Free ELSE claim[i]]
       /\ pass' = [pass EXCEPT ![w] =
                IF repairs = <<>> THEN NoPass
                ELSE [pc |-> "repair", todo |-> repairs, scope |-> {},
                      seeds |-> [i \in Identities |-> IF i \in kept THEN @.seeds[i] ELSE {}]]]
    /\ UNCHANGED <<listing, member, queue, age, crawl, changes, faults>>

\* syncProductSearchEntities of a seed: its peers, then its batch.
PassFindsPeers(w) ==
    /\ At(w, "repair")
    /\ LET seeds == pass[w].seeds[Current(w)]
           seed == Lowest(seeds) IN
       pass' = [pass EXCEPT ![w] = [@ EXCEPT
            !.pc = "batch", !.scope = Scope(seed), !.seeds[Current(w)] = seeds \ {seed}]]
    /\ UNCHANGED <<listing, member, rows, crawl, changes, faults>>

PassWrites(w) ==
    /\ At(w, "batch")
    /\ Batch(pass[w].scope)
    /\ pass' = [pass EXCEPT ![w] = [@ EXCEPT
            !.pc = IF pass[w].seeds[Current(w)] = {} THEN "settle" ELSE "repair",
            !.scope = {}]]
    /\ UNCHANGED <<listing, rows, crawl, changes, faults>>

PassSettles(w) ==
    /\ At(w, "settle")
    /\ Deleted(w, {Current(w)})
    /\ NextRepair(w)
    /\ UNCHANGED <<listing, member, crawl, changes, faults>>

Fault == faults < MaxFaults /\ faults' = faults + 1

\* The claims a pass leaves behind have a token no one will use.
LeavesClaims(w, S) ==
    claim' = [i \in Identities |-> IF i \in S /\ claim[i] = w THEN Lost ELSE claim[i]]

\* A tick's pass that begins before the last one is over.
PassOverlaps(w) == ~Alone(w) /\ Fault /\ Begins(w)

\* A repair that throws: the claim is left, the pass goes on.
PassFails(w) ==
    /\ pass[w].pc \in {"repair", "batch", "settle"}
    /\ IF Current(w) \in Poison THEN UNCHANGED faults ELSE Fault
    /\ LeavesClaims(w, {Current(w)})
    /\ NextRepair(w)
    /\ UNCHANGED <<listing, member, queue, age, crawl, changes>>

\* A crash, an error outside a repair, or the invocation's budget.
PassStops(w) ==
    /\ ~At(w, "idle")
    /\ Fault
    /\ LeavesClaims(w, Identities)
    /\ pass' = [pass EXCEPT ![w] = NoPass]
    /\ UNCHANGED <<listing, member, queue, age, crawl, changes>>

PassSteps(w) ==
    \/ PassReleases(w) \/ PassClaims(w) \/ PassReads(w) \/ PassCleans(w)
    \/ PassDefers(w) \/ PassFindsPeers(w) \/ PassWrites(w) \/ PassSettles(w)

Next ==
    \/ \E l \in Listings : CrawlReads(l) \/ \E row \in Rows[l] : Change(l, row)
    \/ CrawlWrites
    \/ \E w \in Passes : PassSteps(w) \/ PassOverlaps(w) \/ PassFails(w) \/ PassStops(w)

Spec == Init /\ [][Next]_vars

\* The cron starts a pass on every tick, and a pass goes on.
FairSpec == Spec /\ \A w \in Passes : WF_vars(PassSteps(w))

(***************************************************************************)
(* Properties.                                                             *)
(***************************************************************************)

\* A member that is somewhere else than a sync of it would put it.
Drifted(i) == \E l \in Eligible(i) : member[l] # NoEntity /\ member[l] # Owner(l)

Vetoed(i) == \E l \in Members(i) : listing[l].kind = "vetoed"

\* An identity whose listings are not grouped as they should be is in the queue:
\* whatever a pass read before the change that drifted it, and however late a
\* sync's batch lands, no settlement takes that identity for clean.  A vetoed
\* listing is the exception: identityMembers counts it, the grouping does not.
DriftIsQueued == \A i \in Identities : Drifted(i) /\ ~Vetoed(i) => Queued(i)

\* Every mark is served: neither a claim that was left behind nor an identity
\* whose repair always throws, with the oldest mark and the pass's one repair,
\* keeps another identity in the queue.
MarksAreServed == \A i \in Identities \ Poison : Queued(i) ~> ~Queued(i)
================================================================================
