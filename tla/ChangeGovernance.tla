--------------------------- MODULE ChangeGovernance ---------------------------
(***************************************************************************)
(* How a change task is governed: versions of its proposal                 *)
(* (api/proposals.py, proposals/), confirmation with impact report and     *)
(* decision (orchestration/change_flow.py, api/governance.py), approval    *)
(* requests (api/approvals.py, approvals/), compiled policies and grants   *)
(* (policy/), and the execution that runs under a policy.                  *)
(*                                                                         *)
(* One task; nothing here reads rows of another one.  SQLite lets one      *)
(* session write at a time, from its first flush to its commit, but what a *)
(* handler reads before its first flush, often before a call of the model, *)
(* is unprotected.  Such a handler is two steps: the reads, kept in        *)
(* view[h], and everything from the first flush on.  The others write      *)
(* before they read anything they depend on: one step.  An attribute set   *)
(* to the value it was loaded with is not flushed.                         *)
(*                                                                         *)
(* Of the task's status only BLOCKED is told apart: it is all that is ever *)
(* tested.  Nothing here reads active_proposal_id, so it is left out.      *)
(*                                                                         *)
(* A scope is a set of paths and the rules of _rules() an effect per path. *)
(* One of the paths is ".", which names the whole workspace to the         *)
(* enforcer and matches no pattern of a rule; the others are files.        *)
(* A version that is not COMPLETE cannot be confirmed; its scope is left   *)
(* out, and so is the one that the bounded supplement replaces at once.    *)
(***************************************************************************)
EXTENDS Integers, FiniteSets

CONSTANTS
    Proposals, Decisions, Requests, Policies,   \* rows, in creation order
    Handlers, Executors,   \* calls that the server works on at the same time
    Paths, Root,   \* what a scope may name, and "." among it
    ProposalScopes, ClientScopes,   \* what a COMPLETE proposal names; what a client does
    Effect,     \* per path, the effect of the rule that matches it
    NoProposal, NoDecision, NoRequest, NoPolicy, NoPath

Effects == {"NONE", "REQUIRE_APPROVAL", "DENY_HARD"}
Files == Paths \ {Root}

ASSUME GovConstants ==
    /\ Proposals \subseteq Nat /\ NoProposal \notin Proposals
    /\ Decisions \subseteq Nat /\ NoDecision \notin Decisions
    /\ Requests \subseteq Nat /\ NoRequest \notin Requests
    /\ Policies \subseteq Nat /\ NoPolicy \notin Policies
    /\ ProposalScopes \subseteq SUBSET Paths /\ ClientScopes \subseteq SUBSET Paths
    /\ Root \in Paths /\ NoPath \notin Paths
    /\ Effect \in [Paths -> Effects]

VARIABLES
    task,        \* whether its status is BLOCKED, and active_policy_id
    proposals,   \* rows of change_proposals
    report,      \* per proposal, the decision that hangs on its CURRENT impact report
    decisions,   \* rows of governance_decisions
    requests,    \* rows of approval_requests
    policies,    \* rows of execution_policies
    view,        \* per handler, what it has read and not yet acted on
    wrote        \* the path that this step changed in the working tree, if any

govVars == <<task, proposals, report, decisions, requests, policies, view, wrote>>

Task == [blocked: BOOLEAN, policy: Policies \union {NoPolicy}]
ProposalStates == {"ABSENT", "DRAFT", "CONFIRMED", "REJECTED", "SUPERSEDED"}
Proposal == [status: ProposalStates, complete: BOOLEAN, scope: SUBSET Paths]
Decision == [status: {"ABSENT", "ACTIVE", "SUPERSEDED"}, proposal: Proposals \union {NoProposal},
             verdict: {"ALLOW", "WARN", "BLOCK"}, scope: SUBSET Paths]
\* approved: the scopes in its rows of approval_decisions with outcome APPROVED.
Request == [status: {"ABSENT", "PENDING", "APPROVED", "REJECTED", "SUPERSEDED"},
            decision: Decisions \union {NoDecision}, approved: SUBSET SUBSET Paths]
Policy == [status: {"ABSENT", "ACTIVE", "SUPERSEDED"}, decision: Decisions \union {NoDecision},
           request: Requests \union {NoRequest}, executable: BOOLEAN, scope: SUBSET Paths]

\* What a handler holds: the task as loaded, the proposal it is about and the
\* status that had, the rows it found, the policy it will run under.
View == [op: {"IDLE", "GENERATE", "CONFIRM", "GOVERN", "READY", "EXECUTE"}, task: Task,
         proposal: Proposals \union {NoProposal}, loaded: ProposalStates, scope: SUBSET Paths,
         others: SUBSET Proposals, reports: SUBSET Decisions, decisions: SUBSET Decisions,
         decision: Decisions \union {NoDecision}, requests: SUBSET Requests,
         policies: SUBSET Policies, policy: Policies \union {NoPolicy}]

NewTask == [blocked |-> FALSE, policy |-> NoPolicy]
NoView == [op |-> "IDLE", task |-> NewTask, proposal |-> NoProposal, loaded |-> "ABSENT",
           scope |-> {}, others |-> {}, reports |-> {}, decisions |-> {}, decision |-> NoDecision, requests |-> {},
           policies |-> {}, policy |-> NoPolicy]

-----------------------------------------------------------------------------
(* Rows *)

\* Rows are numbered as they are inserted.
NextRow(rows, i) == /\ rows[i].status = "ABSENT"
                    /\ \A j \in DOMAIN rows : j < i => rows[j].status # "ABSENT"

ActiveDecisions == {d \in Decisions : decisions[d].status = "ACTIVE"}
ActivePolicies == {k \in Policies : policies[k].status = "ACTIVE"}
\* Mutant of OpenRequests: an APPROVED request is not looked for.
PendingRequests == {r \in Requests : requests[r].status = "PENDING"}
OpenRequests == {r \in Requests : requests[r].status \in {"PENDING", "APPROVED"}}

\* What a flush leaves in a column: a value set to what was loaded is not written.
Flushed(loaded, now, new) == IF loaded = new THEN now ELSE new

\* The same for the status.  Two that are not BLOCKED may be the same one or not.
FlushedStatus(loaded, now, new) ==
    {Flushed(loaded, now, new)} \union (IF loaded \/ new THEN {} ELSE {FALSE})

\* Mutant of Verdict: the rules that ask for approval are forgotten.
VerdictDenyOnly(scope) == IF \E x \in scope : Effect[x] = "DENY_HARD" THEN "BLOCK" ELSE "ALLOW"

\* evaluate() with the rules of _rules() and no verdict of a user.
Verdict(scope) ==
    IF \E x \in scope : Effect[x] = "DENY_HARD" THEN "BLOCK"
    ELSE IF \E x \in scope : Effect[x] = "REQUIRE_APPROVAL" THEN "WARN"
    ELSE "ALLOW"

NewRequest(d) == [status |-> "PENDING", decision |-> d, approved |-> {}]
NewDecision(p, scope) ==
    [status |-> "ACTIVE", proposal |-> p, verdict |-> Verdict(scope), scope |-> scope]

\* _approved_request: any of the APPROVED requests of the decision.
ApprovedRequests(rs, d) ==
    LET S == {r \in Requests : rs[r].decision = d /\ rs[r].status = "APPROVED"}
    IN  IF S = {} THEN {NoRequest} ELSE S

\* Mutants of Compile: the new policy gets the paths of the decision; the policy
\* that the decision has is changed in place.
CompileDecisionScope(rows, found, q, d, verdict, approved, scope) ==
    LET executable == verdict # "BLOCK" /\ (verdict = "ALLOW" \/ approved # NoRequest)
    IN  [k \in Policies |->
            IF k = q
            THEN [status |-> "ACTIVE", decision |-> d, request |-> approved,
                  executable |-> executable, scope |-> decisions[d].scope]
            ELSE IF k \in found
            THEN [rows[k] EXCEPT !.status = "SUPERSEDED"]
            ELSE rows[k]]
CompileInPlace(rows, found, q, d, verdict, approved, scope) ==
    [k \in Policies |->
        IF k \in found /\ rows[k].decision = d
        THEN [rows[k] EXCEPT !.request = approved, !.scope = scope]
        ELSE IF k = q
        THEN [status |-> "ACTIVE", decision |-> d, request |-> approved,
              executable |-> verdict # "BLOCK", scope |-> scope]
        ELSE rows[k]]

\* compile(): the ACTIVE policies it found are superseded (their flag
\* "executable" stays) and the new one is ACTIVE, executable or not.
Compile(rows, found, q, d, verdict, approved, scope) ==
    LET executable == verdict # "BLOCK" /\ (verdict = "ALLOW" \/ approved # NoRequest)
    IN  [k \in Policies |->
            IF k = q
            THEN [status |-> "ACTIVE", decision |-> d, request |-> approved,
                  executable |-> executable, scope |-> IF executable THEN scope ELSE {}]
            ELSE IF k \in found
            THEN [rows[k] EXCEPT !.status = "SUPERSEDED"]
            ELSE rows[k]]

\* invalidate_downstream_state over the rows it found (validation plans are not
\* modelled).
InvalidDecisions(S) ==
    [d \in Decisions |-> IF d \in S THEN [decisions[d] EXCEPT !.status = "SUPERSEDED"] ELSE decisions[d]]
InvalidRequests(S) ==
    [r \in Requests |-> IF r \in S THEN [requests[r] EXCEPT !.status = "SUPERSEDED"] ELSE requests[r]]
InvalidPolicies(S) ==
    [k \in Policies |-> IF k \in S THEN [policies[k] EXCEPT !.status = "SUPERSEDED", !.executable = FALSE]
                        ELSE policies[k]]

-----------------------------------------------------------------------------
(* Proposals *)

NewProposal(complete, scope) ==
    [status |-> "DRAFT", complete |-> complete, scope |-> IF complete THEN scope ELSE {}]

Read(h, v) == view[h].op = "IDLE" /\ view' = [view EXCEPT ![h] = v]
Done(h) == view' = [view EXCEPT ![h] = NoView]

\* create_proposal and adjust_proposal, up to the answer of the model.
GenerateRead(h, old) ==
    /\ old \in Proposals => proposals[old].status # "ABSENT"
    /\ Read(h, [NoView EXCEPT !.op = "GENERATE", !.task = task, !.proposal = old,
                   !.loaded = IF old \in Proposals THEN proposals[old].status ELSE "ABSENT"])
    /\ wrote' = NoPath
    /\ UNCHANGED <<task, proposals, report, decisions, requests, policies>>

\* create_proposal: a new version beside the old ones, which keep everything.
CreateProposal(h, scope, complete) ==
    /\ view[h].op = "GENERATE" /\ view[h].proposal = NoProposal
    /\ \E p \in Proposals :
          /\ NextRow(proposals, p)
          /\ proposals' = [proposals EXCEPT ![p] = NewProposal(complete, scope)]
    /\ \E b \in FlushedStatus(view[h].task.blocked, task.blocked, FALSE) : task' = [task EXCEPT !.blocked = b]
    /\ Done(h)
    /\ wrote' = NoPath
    /\ UNCHANGED <<report, decisions, requests, policies>>

\* adjust_proposal: a new version instead of an old one, whichever that is.
AdjustProposal(h, scope, complete) ==
    LET old == view[h].proposal IN
    /\ view[h].op = "GENERATE" /\ old # NoProposal
    /\ \E p \in Proposals :
          /\ NextRow(proposals, p)
          /\ proposals' = [proposals EXCEPT ![old].status = Flushed(view[h].loaded, @, "SUPERSEDED"),
                                            ![p] = NewProposal(complete, scope)]
    /\ task' = [task EXCEPT !.blocked = FALSE]
    /\ report' = [report EXCEPT ![old] = NoDecision]
    /\ decisions' = InvalidDecisions(ActiveDecisions)
    /\ requests' = InvalidRequests(OpenRequests)
    /\ policies' = InvalidPolicies(ActivePolicies)
    /\ Done(h)
    /\ wrote' = NoPath

\* reject_proposal: the proposal and the task, nothing else.
RejectProposal(p) ==
    /\ proposals[p].status # "ABSENT"
    /\ proposals' = [proposals EXCEPT ![p].status = "REJECTED"]
    /\ task' = [task EXCEPT !.blocked = FALSE]
    /\ wrote' = NoPath
    /\ UNCHANGED <<report, decisions, requests, policies, view>>

-----------------------------------------------------------------------------
(* Confirmation *)

\* confirm_new_version up to its flush: a COMPLETE version, whatever its status.
ConfirmRead(h, p) ==
    LET others == {k \in Proposals \ {p} : proposals[k].status \notin {"ABSENT", "SUPERSEDED"}} IN
    /\ proposals[p].status # "ABSENT" /\ proposals[p].complete
    /\ Read(h, [NoView EXCEPT !.op = "CONFIRM", !.task = task, !.proposal = p,
                   !.loaded = proposals[p].status, !.others = others,
                   !.reports = {report[k] : k \in others} \ {NoDecision},
                   !.decisions = ActiveDecisions, !.requests = OpenRequests,
                   !.policies = ActivePolicies])
    /\ wrote' = NoPath
    /\ UNCHANGED <<task, proposals, report, decisions, requests, policies>>

\* The flush.
ConfirmedProposals(v) ==
    [k \in Proposals |->
        IF k = v.proposal
        THEN [proposals[k] EXCEPT !.status = Flushed(v.loaded, @, "CONFIRMED")]
        ELSE IF k \in v.others THEN [proposals[k] EXCEPT !.status = "SUPERSEDED"]
        ELSE proposals[k]]
ConfirmedReports(v) ==
    [k \in Proposals |-> IF k \in v.others /\ report[k] \in v.reports THEN NoDecision ELSE report[k]]

\* confirm_and_analyze raises before it has a decision (scope, Git, analysis,
\* provider).  The handler answers inside its session, so the confirmation is kept.
ConfirmFails(h) ==
    LET v == view[h] IN
    /\ v.op = "CONFIRM"
    /\ proposals' = ConfirmedProposals(v)
    /\ \E b \in FlushedStatus(v.task.blocked, task.blocked, FALSE) : task' = [task EXCEPT !.blocked = b]
    /\ report' = ConfirmedReports(v)
    /\ decisions' = InvalidDecisions(v.decisions)
    /\ requests' = InvalidRequests(v.requests)
    /\ policies' = InvalidPolicies(v.policies)
    /\ Done(h)
    /\ wrote' = NoPath

\* What a new decision d asks for: a policy for ALLOW, a request for WARN, nothing
\* for BLOCK.  rs, ps: requests and policies so far; open, blocked: what a status
\* other than BLOCKED leaves in the task, and what BLOCKED does.
Settle(d, new, rs, ps, open, blocked) ==
    \/ /\ new.verdict = "ALLOW"
       /\ \E q \in Policies :
             /\ NextRow(policies, q)
             /\ policies' = Compile(ps, {k \in Policies : ps[k].status = "ACTIVE"}, q, d,
                                    "ALLOW", NoRequest, new.scope)
             /\ \E b \in open : task' = [blocked |-> b, policy |-> q]
       /\ requests' = rs
    \/ /\ new.verdict = "WARN"
       /\ \E r \in Requests :
             /\ NextRow(requests, r)
             /\ requests' = [rs EXCEPT ![r] = NewRequest(d)]
       /\ policies' = ps
       /\ \E b \in open : task' = [task EXCEPT !.blocked = b]
    \/ /\ new.verdict = "BLOCK"
       /\ requests' = rs
       /\ policies' = ps
       /\ \E b \in blocked : task' = [task EXCEPT !.blocked = b]

\* The rest of confirm_and_analyze: report and decision.  The status changes twice
\* in the session, so the last one is flushed.
Confirm(h) ==
    LET v == view[h]
        p == v.proposal
        new == NewDecision(p, proposals[p].scope)
    IN
    /\ v.op = "CONFIRM"
    /\ proposals' = ConfirmedProposals(v)
    /\ \E d \in Decisions :
          /\ NextRow(decisions, d)
          /\ report' = [ConfirmedReports(v) EXCEPT ![p] = d]
          /\ decisions' = [InvalidDecisions(v.decisions) EXCEPT ![d] = new]
          /\ Settle(d, new, InvalidRequests(v.requests), InvalidPolicies(v.policies), {FALSE}, {TRUE})
    /\ Done(h)
    /\ wrote' = NoPath

-----------------------------------------------------------------------------
(* Governance of a CONFIRMED version: GET and POST /governance *)

\* _latest_governance: the ACTIVE decision on the CURRENT report.
Latest(p) == IF report[p] \in ActiveDecisions THEN report[p] ELSE NoDecision

\* The scope the handler governs is the one of the latest decision.
ReadyRead(h, p) ==
    LET d == Latest(p)
        held == {k \in ActivePolicies : policies[k].decision = d}
    IN
    /\ proposals[p].status = "CONFIRMED"
    /\ d # NoDecision
    /\ \E q \in IF held = {} THEN {NoPolicy} ELSE held :
          Read(h, [NoView EXCEPT !.op = "READY", !.task = task, !.proposal = p, !.decision = d,
                      !.requests = {r \in OpenRequests : requests[r].decision = d},
                      !.policies = ActivePolicies, !.policy = q])
    /\ wrote' = NoPath
    /\ UNCHANGED <<task, proposals, report, decisions, requests, policies>>

\* _ensure_execution_readiness.  (The policy of an ALLOW decision always has the
\* scope of the decision: the branch that replaces it otherwise is not taken.)
Ready(h) ==
    LET v == view[h]
        d == v.decision
        verdict == decisions[d].verdict
        settled(b, k) == {[blocked |-> c, policy |-> Flushed(v.task.policy, task.policy, k)] :
                          c \in FlushedStatus(v.task.blocked, task.blocked, b)}
    IN
    /\ v.op = "READY"
    /\ \/ /\ verdict = "ALLOW" /\ v.policy # NoPolicy
          /\ task' \in settled(FALSE, v.policy)
          /\ UNCHANGED <<requests, policies>>
       \/ /\ verdict = "ALLOW" /\ v.policy = NoPolicy
          /\ \E q \in Policies :
                /\ NextRow(policies, q)
                /\ policies' = Compile(policies, v.policies, q, d, "ALLOW", NoRequest, decisions[d].scope)
                /\ task' \in settled(FALSE, q)
          /\ UNCHANGED requests
       \/ /\ verdict = "WARN"
          /\ \/ v.requests # {} /\ UNCHANGED requests
             \/ /\ v.requests = {}
                /\ \E r \in Requests :
                      /\ NextRow(requests, r)
                      /\ requests' = [requests EXCEPT ![r] = NewRequest(d)]
          /\ task' \in settled(FALSE, v.task.policy)
          /\ UNCHANGED policies
       \/ /\ verdict = "BLOCK"
          /\ task' \in settled(TRUE, v.task.policy)
          /\ UNCHANGED <<requests, policies>>
    /\ Done(h)
    /\ wrote' = NoPath
    /\ UNCHANGED <<proposals, report, decisions>>

\* run_governance without a decision for the scope: the paths that the client
\* names, if any, replace those of the proposal.  Then the model is called.
GovernRead(h, p, scope) ==
    /\ proposals[p].status = "CONFIRMED"
    /\ scope # {}
    /\ Latest(p) # NoDecision => decisions[Latest(p)].scope # scope
    /\ Read(h, [NoView EXCEPT !.op = "GOVERN", !.task = task, !.proposal = p, !.scope = scope])
    /\ wrote' = NoPath
    /\ UNCHANGED <<task, proposals, report, decisions, requests, policies>>

\* Older decisions stay as they are.
Govern(h) ==
    LET v == view[h]
        new == NewDecision(v.proposal, v.scope)
        status(b) == FlushedStatus(v.task.blocked, task.blocked, b)
    IN
    /\ v.op = "GOVERN"
    /\ \E d \in Decisions :
          /\ NextRow(decisions, d)
          /\ report' = [report EXCEPT ![v.proposal] = d]
          /\ decisions' = [decisions EXCEPT ![d] = new]
          /\ Settle(d, new, requests, policies, status(FALSE), status(TRUE))
    /\ Done(h)
    /\ wrote' = NoPath
    /\ UNCHANGED proposals

\* _mark_governance_failed
GovernFails(h) ==
    /\ view[h].op = "GOVERN"
    /\ \E b \in FlushedStatus(view[h].task.blocked, task.blocked, FALSE) : task' = [task EXCEPT !.blocked = b]
    /\ Done(h)
    /\ wrote' = NoPath
    /\ UNCHANGED <<proposals, report, decisions, requests, policies>>

-----------------------------------------------------------------------------
(* Approval *)

\* approve: record() adds a row with the approved scope and the request is APPROVED
\* whatever it was.  Its ACTIVE policy must name all of that scope (TemporaryGrant:
\* here "." is a name like any other), or else one is compiled for it; a ValueError
\* rolls everything back.
Approve(r, scope) ==
    LET d == requests[r].decision
        rs == [requests EXCEPT ![r].status = "APPROVED", ![r].approved = @ \union {scope}]
        held == {k \in ActivePolicies : policies[k].request = r}
    IN
    /\ requests[r].status # "ABSENT"
    /\ requests' = rs
    /\ \/ /\ \E k \in held : policies[k].executable /\ scope \subseteq policies[k].scope
          /\ UNCHANGED policies
       \/ /\ held = {}
          /\ \E q \in Policies, a \in ApprovedRequests(rs, d) :
                /\ NextRow(policies, q)
                /\ policies' = Compile(policies, ActivePolicies, q, d, decisions[d].verdict, a, scope)
    /\ wrote' = NoPath
    /\ UNCHANGED <<task, proposals, report, decisions, view>>

\* Mutant of Reject: _request_status without its branch for REJECTED.
RejectAsExpired(r) ==
    /\ requests[r].status # "ABSENT"
    /\ requests' = [requests EXCEPT ![r].status = "EXPIRED"]
    /\ wrote' = NoPath
    /\ UNCHANGED <<task, proposals, report, decisions, policies, view>>

\* reject: the request only.
Reject(r) ==
    /\ requests[r].status # "ABSENT"
    /\ requests' = [requests EXCEPT ![r].status = "REJECTED"]
    /\ wrote' = NoPath
    /\ UNCHANGED <<task, proposals, report, decisions, policies, view>>

-----------------------------------------------------------------------------
(* Execution *)

\* _active_policy: the one of the task if it is ACTIVE, else any.
TaskPolicies == IF task.policy \in ActivePolicies THEN {task.policy} ELSE ActivePolicies

ExecuteRead(h) ==
    /\ ~task.blocked
    /\ \E k \in TaskPolicies :
          /\ policies[k].executable
          /\ Read(h, [NoView EXCEPT !.op = "EXECUTE", !.task = task, !.policy = k])
    /\ wrote' = NoPath
    /\ UNCHANGED <<task, proposals, report, decisions, requests, policies>>

\* Mutant of AllowsWrite: a policy in force is enough, whatever its paths.
AllowsWriteAnywhere(h, x) == policies[view[h].policy].executable

\* _path_allowed: a scope with "." allows every path.
Allows(scope, x) == Root \in scope \/ x \in scope

\* Enforcement reads the policy as it was loaded.  (Its paths never change:
\* PoliciesOnlyLapse.)
AllowsWrite(h, x) == Allows(policies[view[h].policy].scope, x)

\* An execution that runs while some policy is ACTIVE, or that writes nothing.
Execute(h, x, writes) ==
    LET v == view[h] IN
    /\ v.op = "EXECUTE"
    /\ writes => ActivePolicies # {} /\ AllowsWrite(h, x)
    /\ wrote' = IF writes THEN x ELSE NoPath
    /\ task' = [blocked |-> FALSE, policy |-> Flushed(v.task.policy, task.policy, v.policy)]
    /\ Done(h)
    /\ UNCHANGED <<proposals, report, decisions, requests, policies>>

\* _activate_action_policy: no policy is ACTIVE any more, so the decision on the
\* action itself (no rules, hence ALLOW) becomes a policy for its path.
ExecuteSelfGranted(h, x, writes) ==
    /\ view[h].op = "EXECUTE"
    /\ ActivePolicies = {}
    /\ \E d \in Decisions, q \in Policies :
          /\ NextRow(decisions, d) /\ NextRow(policies, q)
          /\ decisions' = [decisions EXCEPT ![d] = [status |-> "ACTIVE", proposal |-> NoProposal,
                                                    verdict |-> "ALLOW", scope |-> {x}]]
          /\ policies' = Compile(policies, {}, q, d, "ALLOW", NoRequest, {x})
          /\ task' = [blocked |-> FALSE, policy |-> q]
    /\ wrote' = IF writes THEN x ELSE NoPath
    /\ Done(h)
    /\ UNCHANGED <<proposals, report, requests>>

\* The handler's first flush times out (another session writes) or the process
\* stops: what it read is gone and nothing is written.
Abort(h) ==
    /\ view[h].op # "IDLE"
    /\ Done(h)
    /\ wrote' = NoPath
    /\ UNCHANGED <<task, proposals, report, decisions, requests, policies>>

-----------------------------------------------------------------------------
GovInit ==
    /\ task = NewTask
    /\ proposals = [p \in Proposals |-> [status |-> "ABSENT", complete |-> FALSE, scope |-> {}]]
    /\ report = [p \in Proposals |-> NoDecision]
    /\ decisions = [d \in Decisions |-> [status |-> "ABSENT", proposal |-> NoProposal,
                                         verdict |-> "BLOCK", scope |-> {}]]
    /\ requests = [r \in Requests |-> [status |-> "ABSENT", decision |-> NoDecision, approved |-> {}]]
    /\ policies = [k \in Policies |-> [status |-> "ABSENT", decision |-> NoDecision,
                                       request |-> NoRequest, executable |-> FALSE, scope |-> {}]]
    /\ view = [h \in Handlers \union Executors |-> NoView]
    /\ wrote = NoPath

HandlerStep(h) ==
    \/ \E old \in Proposals \union {NoProposal} : GenerateRead(h, old)
    \/ \E p \in Proposals : ConfirmRead(h, p) \/ ReadyRead(h, p)
    \/ \E p \in Proposals : \E scope \in ClientScopes \union {proposals[p].scope} : GovernRead(h, p, scope)
    \/ \E scope \in ProposalScopes, complete \in BOOLEAN :
          CreateProposal(h, scope, complete) \/ AdjustProposal(h, scope, complete)
    \/ Confirm(h) \/ ConfirmFails(h)
    \/ Ready(h)
    \/ Govern(h) \/ GovernFails(h)
    \/ Abort(h)

ExecutorStep(h) ==
    \/ ExecuteRead(h)
    \/ \E x \in Files, writes \in BOOLEAN : Execute(h, x, writes) \/ ExecuteSelfGranted(h, x, writes)
    \/ Abort(h)

GovNext ==
    \/ \E h \in Handlers : HandlerStep(h)
    \/ \E h \in Executors : ExecutorStep(h)
    \/ \E p \in Proposals : RejectProposal(p)
    \/ \E r \in Requests :
          \E scope \in ClientScopes \union {decisions[d].scope : d \in Decisions \intersect {requests[r].decision}} :
             Approve(r, scope)
    \/ \E r \in Requests : Reject(r)

GovSpec == GovInit /\ [][GovNext]_govVars

-----------------------------------------------------------------------------
(* Properties *)

\* Rows, task and views have the shape of the tables.
GovTypeOK ==
    /\ task \in Task
    /\ proposals \in [Proposals -> Proposal]
    /\ report \in [Proposals -> Decisions \union {NoDecision}]
    /\ decisions \in [Decisions -> Decision]
    /\ requests \in [Requests -> Request]
    /\ policies \in [Policies -> Policy]
    /\ view \in [Handlers \union Executors -> View]
    /\ wrote \in Files \union {NoPath}

\* Whatever overlaps, what a policy names has been through the rules or an
\* approver: an executable policy that no approval stands behind and that was
\* compiled for a proposal covers a file with a rule only if it names "."
\* (evaluate, _approved_request, compile, _path_allowed).  That exception is the
\* code's: "." matches no rule, so a proposal of "." is allowed unseen and covers
\* files that are denied, against SEC-A02 of SPEC.md.
UnapprovedGrantsNameNoRule ==
    \A k \in Policies :
        /\ policies[k].executable
        /\ policies[k].request = NoRequest
        /\ decisions[policies[k].decision].proposal # NoProposal
        => \A x \in Files : Allows(policies[k].scope, x) /\ Effect[x] # "NONE" => Root \in policies[k].scope

\* Some approver has approved exactly this policy's paths, on a request of the
\* decision that the policy is compiled for.
Approved(k) ==
    \E r \in Requests :
        requests[r].decision = policies[k].decision /\ policies[k].scope \in requests[r].approved

\* An executable policy of a WARN decision grants exactly what an approver approved
\* on a request of that very decision, and its own request is one of that decision,
\* whatever is superseded, rejected or asked again around it (record, compile,
\* approve).  It does not say that the approval still stands: a later rejection
\* leaves the policy in force.
ApprovedScopeBehindPolicy ==
    \A k \in Policies :
        policies[k].executable /\ decisions[policies[k].decision].verdict = "WARN"
        => /\ policies[k].request \in Requests
           /\ requests[policies[k].request].decision = policies[k].decision
           /\ Approved(k)

\* A new version in place of an old one leaves nothing of the older ones in force,
\* not even what others granted while the model was asked for the new version:
\* adjust_proposal looks for it after its first flush.
AdjustVoidsEverything ==
    [][(\E h \in Handlers : /\ view[h].op = "GENERATE" /\ view[h].proposal # NoProposal
                            /\ view'[h].op = "IDLE" /\ proposals' # proposals)
       => /\ \A d \in Decisions : decisions'[d].status # "ACTIVE"
          /\ \A r \in Requests : requests'[r].status \notin {"PENDING", "APPROVED"}
          /\ \A k \in Policies : policies'[k].status # "ACTIVE"]_govVars

\* A policy that was compiled keeps its decision, its request and its paths, and
\* once it is superseded or not executable it stays so, whichever handlers write to
\* rows that they found before: what an execution loaded is what it runs under
\* (compile, invalidate_downstream_state).
PoliciesOnlyLapse ==
    [][\A k \in Policies : policies[k].status # "ABSENT" =>
          /\ policies'[k].decision = policies[k].decision
          /\ policies'[k].request = policies[k].request
          /\ policies'[k].scope = policies[k].scope
          /\ policies'[k].executable => policies[k].executable
          /\ policies'[k].status = "ACTIVE" => policies[k].status = "ACTIVE"]_govVars

\* Every file that an execution writes is covered by a policy whose paths are those
\* of its ALLOW decision or were approved on a request of its decision, however
\* stale the policy is that the execution holds (dispatch_write, allows_write).  The
\* ALLOW decision may be one that the execution made on its own action, and the
\* policy may have lapsed since.
WritesAreTraceable ==
    wrote # NoPath =>
        \E k \in Policies :
            /\ Allows(policies[k].scope, wrote)
            /\ \/ /\ decisions[policies[k].decision].verdict = "ALLOW"
                  /\ policies[k].scope = decisions[policies[k].decision].scope
               \/ Approved(k)

\* SPEC.md: "失效审批不能继续执行动作" (an approval that is void cannot go on
\* executing actions).  A change of the proposal supersedes the decision and voids
\* the approvals under it, so no executable policy is ACTIVE for a superseded one.
VoidApprovalGrantsNothing ==
    \A k \in ActivePolicies :
        policies[k].executable => decisions[policies[k].decision].status = "ACTIVE"

=============================================================================
