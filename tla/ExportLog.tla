------------------------------ MODULE ExportLog ------------------------------
(***************************************************************************)
(* What an export promises its administrator.  It grows one page at a      *)
(* time, and a page once in it never changes; it closes once, as a file    *)
(* that can be downloaded or as a failure.  It is ready only with a last   *)
(* page, and a page that announces another one is never the last.  It is   *)
(* dropped when its time is over.                                          *)
(***************************************************************************)
EXTENDS Integers, Sequences

CONSTANTS Jobs, IsLast(_)

VARIABLES
    state,      \* "none", "open", "ready", "failed" or "gone"
    pages       \* the pages of each export

Init == state = [j \in Jobs |-> "none"] /\ pages = [j \in Jobs |-> <<>>]

Open(j) ==
    /\ state[j] = "none" /\ state' = [state EXCEPT ![j] = "open"]
    /\ UNCHANGED pages

\* One page more, whatever it holds.
Grow(j) ==
    LET page == pages'[j][Len(pages'[j])] IN
    /\ state[j] = "open"
    /\ Len(pages'[j]) = Len(pages[j]) + 1
    /\ pages' = [pages EXCEPT ![j] = Append(@, page)]
    /\ state' = [state EXCEPT ![j] = IF IsLast(page) THEN "ready" ELSE "open"]

Fail(j) ==
    /\ state[j] = "open" /\ state' = [state EXCEPT ![j] = "failed"]
    /\ UNCHANGED pages

Drop(j) ==
    /\ state[j] # "none" /\ state' = [state EXCEPT ![j] = "gone"]
    /\ pages' = [pages EXCEPT ![j] = <<>>]

Next == \E j \in Jobs : Open(j) \/ Grow(j) \/ Fail(j) \/ Drop(j)

Spec == Init /\ [][Next]_<<state, pages>>
=============================================================================
