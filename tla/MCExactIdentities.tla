--------------------------- MODULE MCExactIdentities ---------------------------
(* Instances of ExactIdentities for TLC. *)
EXTENDS ExactIdentities, TLC

CONSTANTS i1, i2

Of(i, kind, category) == [identity |-> i, kind |-> kind, category |-> category]

First == Of(i1, "open", "amplifier")

\* Listing 1 stands for the group: it meets a conflict, is vetoed, matched, taken
\* down, moved or left unresolved; listing 2 moves, is vetoed or says less, and
\* listing 3 stays.
FewRows == <<
    {First, Of(i1, "open", "speaker"), Of(i1, "vetoed", "amplifier"),
     Of(i1, "matched", "amplifier"), Of(i1, "inactive", "amplifier"),
     Of(NoIdentity, "open", "amplifier")},
    {First, Of(i2, "open", "amplifier"), Of(i1, "open", "other")},
    {First}>>
================================================================================
