-------------------------- MODULE CrawlGenerations --------------------------
(***************************************************************************)
(* What one shop's crawl control promises: crawls are generations, taken   *)
(* one at a time and in order.  A generation begins only when no later one *)
(* has begun, goes on only while it is the latest, and ends once, as       *)
(* completed or failed.  A generation may be abandoned for a later one.    *)
(***************************************************************************)
EXTENDS Integers

CONSTANT MaxGen

VARIABLE session    \* the outcome of each generation so far

Gens == 1..MaxGen

Init == session = [g \in Gens |-> "none"]

Latest(g) == \A h \in Gens : h > g => session[h] = "none"

Begin(g) ==
    /\ session[g] = "none" /\ Latest(g)
    /\ session' = [session EXCEPT ![g] = "collecting"]

End(g, outcome) ==
    /\ session[g] = "collecting" /\ Latest(g)
    /\ session' = [session EXCEPT ![g] = outcome]

Next ==
    \E g \in Gens : Begin(g) \/ \E outcome \in {"completed", "failed"} : End(g, outcome)

Spec == Init /\ [][Next]_session
=============================================================================
