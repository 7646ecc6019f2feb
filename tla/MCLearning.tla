----------------------------- MODULE MCLearning -----------------------------
(* A task whose services are called in five groups, with two plans, three attempts
   and two rows of knowledge; one failed session and one restart. *)
EXTENDS Learning, TLC

CONSTANTS p1, p2, c1, c2, r1, r2

\* The groups: services that read the same rows are used together.
MCCallers ==
    {{"decisions", "feedback"}, {"validation", "evaluation"}, {"monitor"},
     {"repair", "evaluation"}, {"knowledge"}}

\* A change with two checks, with one and with none.
MCImpacts ==
    {[pytest |-> TRUE, kinds |-> {"api"}], [pytest |-> FALSE, kinds |-> {"test"}],
     [pytest |-> FALSE, kinds |-> {}]}

Patch(p, c, r, e) == [paths |-> {p}, commands |-> {c}, revision |-> r, edits |-> e]
MCPatches ==
    {Patch(p1, c1, r1, {}), Patch(p2, c1, r1, {}), Patch(p1, c2, r1, {}), Patch(p1, c1, r2, {}),
     Patch(p1, c1, r1, {"skip introduced"})}

MCSpends == {[calls |-> 1, tokens |-> 0], [calls |-> 1, tokens |-> 2]}

\* These are only ever compared.
MCSymmetry == Permutations(Summaries) \union Permutations(Hashes) \union Permutations(Diffs)
=============================================================================
