-------------------------- MODULE MCChangeGovernance --------------------------
(***************************************************************************)
(* Instance of ChangeGovernance: one path that needs approval, one that no *)
(* rule matches, one that is denied, and ".", which a client may name.     *)
(* The numbers of rows bound the run.                                      *)
(***************************************************************************)
EXTENDS ChangeGovernance, TLC

CONSTANTS auth, plain, env, dot, MaxRows

MCPaths == {auth, plain, env, dot}
MCProposalScopes == {{auth}, {plain}, {env}}
MCClientScopes == {{dot}}
MCEffect == (auth :> "REQUIRE_APPROVAL") @@ (plain :> "NONE") @@ (env :> "DENY_HARD")
            @@ (dot :> "NONE")

\* Bound: states with more rows are not explored further.  A second version counts
\* twice: it leaves room for its decision and what follows from it.
Rows(table) == Cardinality({i \in DOMAIN table : table[i].status # "ABSENT"})
FewRows == 2 * Rows(proposals) + Rows(decisions) + Rows(requests) + Rows(policies) <= MaxRows

=============================================================================
