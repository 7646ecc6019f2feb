------------------------ MODULE ChangeGovernanceProofs ------------------------
(***************************************************************************)
(* The invariants of ChangeGovernance hold for any number of rows, of      *)
(* handlers and of executions, and for every set of rules.                 *)
(*                                                                         *)
(* They are not inductive: what a policy grants is only known from the     *)
(* decision and the request it was compiled for, and handlers write to     *)
(* rows that they found some time ago.  GovInv adds what ties the rows     *)
(* together and that the rows a handler holds still exist.  Every step is  *)
(* also shown to delete no row and to change nothing of what a row is      *)
(* about (Kept), which is all that the action properties need.             *)
(***************************************************************************)
EXTENDS ChangeGovernance, TLAPS

Present(rows, i) == rows[i].status # "ABSENT"

\* A decision on a proposal is the verdict of the rules on its scope.
DecisionFits(dec) == dec.proposal # NoProposal => dec.verdict = Verdict(dec.scope)

\* A request hangs on a decision.
RequestFits(ds, req) == req.decision \in Decisions /\ Present(ds, req.decision)

\* The paths were approved on a request of the decision.
ApprovedOn(rs, d, scope) ==
    \E r \in Requests : Present(rs, r) /\ rs[r].decision = d /\ scope \in rs[r].approved

\* A policy is the scope of an ALLOW decision, or it is for a request of its decision
\* and grants nothing but what was approved on one.
PolicyFits(ds, rs, pol) ==
    /\ pol.decision \in Decisions /\ Present(ds, pol.decision)
    /\ \/ /\ pol.request = NoRequest
          /\ ds[pol.decision].verdict = "ALLOW" /\ pol.scope = ds[pol.decision].scope
       \/ /\ pol.request \in Requests
          /\ rs[pol.request].decision = pol.decision /\ Present(rs, pol.request)
          /\ pol.executable \/ pol.scope # {} => ApprovedOn(rs, pol.decision, pol.scope)

\* What a handler holds are rows that exist.
ViewFits(ds, rs, ps, v) ==
    /\ \A d \in v.decisions : Present(ds, d)
    /\ \A r \in v.requests : Present(rs, r)
    /\ \A k \in v.policies : Present(ps, k)
    /\ v.op \in {"CONFIRM", "GOVERN"} => v.proposal \in Proposals
    /\ v.op = "READY" => v.decision \in Decisions /\ Present(ds, v.decision)
    /\ v.op = "EXECUTE" => v.policy \in Policies

RowsFit ==
    /\ \A d \in Decisions : DecisionFits(decisions[d])
    /\ \A r \in Requests : Present(requests, r) => RequestFits(decisions, requests[r])
    /\ \A k \in Policies :
          IF Present(policies, k) THEN PolicyFits(decisions, requests, policies[k])
          ELSE ~policies[k].executable /\ policies[k].scope = {}
ViewsFit == \A h \in Handlers \union Executors : ViewFits(decisions, requests, policies, view[h])

GovInv == GovTypeOK /\ RowsFit /\ ViewsFit

-----------------------------------------------------------------------------
(* What every step does to the rows *)

\* Rows never disappear, and what a row is about never changes.
Kept ==
    /\ \A d \in Decisions : Present(decisions, d) =>
          /\ Present(decisions', d)
          /\ decisions'[d].proposal = decisions[d].proposal
          /\ decisions'[d].verdict = decisions[d].verdict
          /\ decisions'[d].scope = decisions[d].scope
    /\ \A r \in Requests : Present(requests, r) =>
          /\ Present(requests', r)
          /\ requests'[r].decision = requests[r].decision
          /\ requests[r].approved \subseteq requests'[r].approved
    /\ \A k \in Policies : Present(policies, k) =>
          /\ Present(policies', k)
          /\ policies'[k].decision = policies[k].decision
          /\ policies'[k].request = policies[k].request
          /\ policies'[k].scope = policies[k].scope
          /\ policies'[k].executable => policies[k].executable
          /\ policies'[k].status = "ACTIVE" => policies[k].status = "ACTIVE"

\* A new row fits the rows that are there.
Fresh ==
    /\ \A d \in Decisions : ~Present(decisions, d) => DecisionFits(decisions'[d])
    /\ \A r \in Requests : ~Present(requests, r) /\ Present(requests', r) =>
          RequestFits(decisions', requests'[r])
    /\ \A k \in Policies : ~Present(policies, k) =>
          IF Present(policies', k) THEN PolicyFits(decisions', requests', policies'[k])
          ELSE ~policies'[k].executable /\ policies'[k].scope = {}

\* The rows have their types after the step.
Typed ==
    /\ task' \in Task
    /\ proposals' \in [Proposals -> Proposal]
    /\ report' \in [Proposals -> Decisions \union {NoDecision}]
    /\ decisions' \in [Decisions -> Decision]
    /\ requests' \in [Requests -> Request]
    /\ policies' \in [Policies -> Policy]
    /\ wrote' \in Files \union {NoPath}

\* A handler that holds nothing holds something of the right type.
LEMMA NoViewType == NoView \in View /\ NewTask \in Task
BY DEF NoView, View, NewTask, Task, ProposalStates

\* The rows still fit each other after such a step.
LEMMA RowsStep ==
    ASSUME RowsFit, Kept, Fresh
    PROVE  RowsFit'
<1>1. \A d \in Decisions : DecisionFits(decisions'[d])
  BY DEF RowsFit, Kept, Fresh, DecisionFits
<1>2. \A r \in Requests : Present(requests', r) => RequestFits(decisions', requests'[r])
  BY DEF RowsFit, Kept, Fresh, RequestFits
<1>3. ASSUME NEW k \in Policies
      PROVE  IF Present(policies', k) THEN PolicyFits(decisions', requests', policies'[k])
             ELSE ~policies'[k].executable /\ policies'[k].scope = {}
  <2>1. CASE Present(policies, k)
    <3>1. PolicyFits(decisions, requests, policies[k])
      BY <2>1 DEF RowsFit
    <3>2. PolicyFits(decisions', requests', policies'[k])
      <4>1. ApprovedOn(requests, policies[k].decision, policies[k].scope)
               => ApprovedOn(requests', policies[k].decision, policies[k].scope)
        BY DEF ApprovedOn, Kept
      <4>2. /\ policies'[k].decision = policies[k].decision /\ policies'[k].request = policies[k].request
            /\ policies'[k].scope = policies[k].scope
            /\ policies'[k].executable => policies[k].executable
        BY <2>1 DEF Kept
      <4>3. /\ policies[k].decision \in Decisions /\ Present(decisions', policies[k].decision)
            /\ decisions'[policies[k].decision].verdict = decisions[policies[k].decision].verdict
            /\ decisions'[policies[k].decision].scope = decisions[policies[k].decision].scope
        BY <3>1 DEF PolicyFits, Kept
      <4>4. CASE policies[k].request = NoRequest /\ decisions[policies[k].decision].verdict = "ALLOW"
                 /\ policies[k].scope = decisions[policies[k].decision].scope
        BY <4>2, <4>3, <4>4 DEF PolicyFits
      <4>5. CASE /\ policies[k].request \in Requests
                 /\ requests[policies[k].request].decision = policies[k].decision
                 /\ Present(requests, policies[k].request)
                 /\ policies[k].executable \/ policies[k].scope # {} =>
                       ApprovedOn(requests, policies[k].decision, policies[k].scope)
        <5>1. requests'[policies[k].request].decision = policies[k].decision /\ Present(requests', policies[k].request)
          BY <4>5 DEF Kept
        <5> QED
          BY <4>1, <4>2, <4>3, <4>5, <5>1 DEF PolicyFits
      <4> QED
        BY <3>1, <4>4, <4>5 DEF PolicyFits
    <3> QED
      BY <2>1, <3>2 DEF Kept
  <2>2. CASE ~Present(policies, k)
    BY <2>2 DEF Fresh
  <2> QED
    BY <2>1, <2>2
<1> QED
  BY <1>1, <1>2, <1>3 DEF RowsFit, Present

\* And what a handler holds is still there.
LEMMA ViewStep ==
    ASSUME Kept, NEW v \in View, ViewFits(decisions, requests, policies, v)
    PROVE  ViewFits(decisions', requests', policies', v)
BY DEF Kept, ViewFits, View

\* A step that ends a handler's call, or that no handler takes.
LEMMA WriteStep ==
    ASSUME GovInv, Typed, Kept, Fresh,
           NEW h, Done(h) \/ UNCHANGED view
    PROVE  GovInv' /\ Kept
<1>1. view' \in [Handlers \union Executors -> View]
  BY NoViewType DEF GovInv, GovTypeOK, Done
<1>2. GovTypeOK'
  BY <1>1 DEF GovTypeOK, Typed
<1>3. RowsFit'
  BY RowsStep DEF GovInv
<1>4. ASSUME NEW k \in Handlers \union Executors
      PROVE  ViewFits(decisions', requests', policies', view'[k])
  <2>1. view[k] \in View /\ ViewFits(decisions, requests, policies, view[k])
    BY DEF GovInv, GovTypeOK, ViewsFit
  <2>2. ViewFits(decisions', requests', policies', NoView)
    BY DEF ViewFits, NoView
  <2>3. view'[k] \in {view[k], NoView}
    BY DEF Done, GovInv, GovTypeOK
  <2> QED
    BY <2>1, <2>2, <2>3, ViewStep
<1> QED
  BY <1>2, <1>3, <1>4 DEF GovInv, ViewsFit

\* A step that only reads.
LEMMA ReadStep ==
    ASSUME GovInv, NEW h, NEW v \in View, Read(h, v),
           ViewFits(decisions, requests, policies, v),
           UNCHANGED <<task, proposals, report, decisions, requests, policies>>,
           wrote' = NoPath
    PROVE  GovInv' /\ Kept
<1>1. view' \in [Handlers \union Executors -> View]
  BY DEF GovInv, GovTypeOK, Read
<1>2. GovTypeOK'
  BY <1>1 DEF GovInv, GovTypeOK
<1>3. RowsFit'
  BY DEF GovInv, RowsFit
<1>4. ASSUME NEW k \in Handlers \union Executors
      PROVE  ViewFits(decisions, requests, policies, view'[k])
  BY DEF Read, GovInv, GovTypeOK, ViewsFit
<1>5. Kept
  BY DEF Kept, Present
<1> QED
  BY <1>2, <1>3, <1>4, <1>5 DEF GovInv, ViewsFit

-----------------------------------------------------------------------------
(* The operators *)

\* evaluate() answers one of three verdicts.
LEMMA VerdictType == ASSUME NEW scope PROVE Verdict(scope) \in {"ALLOW", "WARN", "BLOCK"}
BY DEF Verdict

\* A decision on a proposal has its type and is the verdict of the rules.
LEMMA NewDecisionFits ==
    ASSUME NEW p \in Proposals, NEW scope \in SUBSET Paths
    PROVE  /\ NewDecision(p, scope) \in Decision
           /\ DecisionFits(NewDecision(p, scope))
           /\ NewDecision(p, scope).status # "ABSENT"
           /\ NewDecision(p, scope).scope = scope
BY VerdictType DEF NewDecision, Decision, DecisionFits

\* A flush leaves one of the two values.
LEMMA FlushedType == ASSUME NEW a, NEW b, NEW c PROVE Flushed(a, b, c) \in {b, c}
BY DEF Flushed
LEMMA FlushedStatusType ==
    ASSUME NEW a \in BOOLEAN, NEW b \in BOOLEAN, NEW c \in BOOLEAN
    PROVE  FlushedStatus(a, b, c) \subseteq BOOLEAN
BY DEF FlushedStatus, Flushed

\* invalidate_downstream_state only changes statuses and the flag "executable".
LEMMA InvalidType ==
    ASSUME GovTypeOK, NEW ds \in SUBSET Decisions, NEW rs \in SUBSET Requests, NEW ps \in SUBSET Policies
    PROVE  /\ InvalidDecisions(ds) \in [Decisions -> Decision]
           /\ InvalidRequests(rs) \in [Requests -> Request]
           /\ InvalidPolicies(ps) \in [Policies -> Policy]
<1>1. InvalidDecisions(ds) \in [Decisions -> Decision]
  BY DEF GovTypeOK, InvalidDecisions, Decision
<1>2. InvalidRequests(rs) \in [Requests -> Request]
  BY DEF GovTypeOK, InvalidRequests, Request
<1>3. InvalidPolicies(ps) \in [Policies -> Policy]
  BY DEF GovTypeOK, InvalidPolicies, Policy
<1> QED
  BY <1>1, <1>2, <1>3

LEMMA InvalidDecisionsKept ==
    ASSUME GovTypeOK, NEW S \in SUBSET Decisions, \A d \in S : Present(decisions, d), NEW d \in Decisions
    PROVE  /\ Present(InvalidDecisions(S), d) <=> Present(decisions, d)
           /\ InvalidDecisions(S)[d].proposal = decisions[d].proposal
           /\ InvalidDecisions(S)[d].verdict = decisions[d].verdict
           /\ InvalidDecisions(S)[d].scope = decisions[d].scope
BY DEF GovTypeOK, InvalidDecisions, Decision, Present

LEMMA InvalidRequestsKept ==
    ASSUME GovTypeOK, NEW S \in SUBSET Requests, \A r \in S : Present(requests, r), NEW r \in Requests
    PROVE  /\ Present(InvalidRequests(S), r) <=> Present(requests, r)
           /\ InvalidRequests(S)[r].decision = requests[r].decision
           /\ requests[r].approved \subseteq InvalidRequests(S)[r].approved
BY DEF GovTypeOK, InvalidRequests, Request, Present

LEMMA InvalidPoliciesKept ==
    ASSUME GovTypeOK, NEW S \in SUBSET Policies, \A k \in S : Present(policies, k), NEW k \in Policies
    PROVE  /\ Present(InvalidPolicies(S), k) <=> Present(policies, k)
           /\ InvalidPolicies(S)[k].decision = policies[k].decision
           /\ InvalidPolicies(S)[k].request = policies[k].request
           /\ InvalidPolicies(S)[k].scope = policies[k].scope
           /\ InvalidPolicies(S)[k].executable => policies[k].executable
           /\ InvalidPolicies(S)[k].status = "ACTIVE" => policies[k].status = "ACTIVE"
BY DEF GovTypeOK, InvalidPolicies, Policy, Present

\* compile() adds a policy; of the others it changes only the status of those found.
Compiled(rows, c, q, d, a) ==
    /\ c \in [Policies -> Policy]
    /\ c[q].status = "ACTIVE" /\ c[q].decision = d /\ c[q].request = a
    /\ \A k \in Policies : k # q =>
          /\ Present(c, k) <=> Present(rows, k)
          /\ c[k].decision = rows[k].decision /\ c[k].request = rows[k].request
          /\ c[k].scope = rows[k].scope /\ c[k].executable = rows[k].executable
          /\ c[k].status = "ACTIVE" => rows[k].status = "ACTIVE"

LEMMA CompileType ==
    ASSUME NEW rows \in [Policies -> Policy], NEW found \in SUBSET Policies,
           \A k \in found : Present(rows, k),
           NEW q \in Policies, NEW d \in Decisions, NEW verdict,
           NEW a \in Requests \union {NoRequest}, NEW scope \in SUBSET Paths,
           NEW c, c = Compile(rows, found, q, d, verdict, a, scope)
    PROVE  /\ Compiled(rows, c, q, d, a)
           /\ verdict = "ALLOW" => c[q].scope = scope
<1>1. c \in [Policies -> Policy]
  BY DEF Compile, Policy
<1>2. /\ c[q].status = "ACTIVE" /\ c[q].decision = d /\ c[q].request = a
      /\ verdict = "ALLOW" => c[q].scope = scope
  BY DEF Compile
<1>3. ASSUME NEW k \in Policies, k # q
      PROVE  /\ Present(c, k) <=> Present(rows, k)
             /\ c[k].decision = rows[k].decision /\ c[k].request = rows[k].request
             /\ c[k].scope = rows[k].scope /\ c[k].executable = rows[k].executable
             /\ c[k].status = "ACTIVE" => rows[k].status = "ACTIVE"
  BY <1>3 DEF Compile, Policy, Present
<1> QED
  BY <1>1, <1>2, <1>3 DEF Compiled

\* A policy of an ALLOW decision with the scope of that decision fits.
LEMMA AllowFits ==
    ASSUME NEW ds, NEW rs, NEW pol, pol.decision \in Decisions, Present(ds, pol.decision),
           pol.request = NoRequest, ds[pol.decision].verdict = "ALLOW",
           pol.scope = ds[pol.decision].scope
    PROVE  PolicyFits(ds, rs, pol)
BY DEF PolicyFits

\* A policy compiled for a request grants nothing or the scope that was approved.
LEMMA ApprovedFits ==
    ASSUME NEW ds, NEW rs, NEW rows, NEW found, NEW q \in Policies,
           NEW d \in Decisions, Present(ds, d), NEW verdict, NEW a \in Requests, NEW scope,
           rs[a].decision = d, Present(rs, a), ApprovedOn(rs, d, scope)
    PROVE  PolicyFits(ds, rs, Compile(rows, found, q, d, verdict, a, scope)[q])
<1> DEFINE executable == verdict # "BLOCK" /\ (verdict = "ALLOW" \/ a # NoRequest)
           pol == [status |-> "ACTIVE", decision |-> d, request |-> a,
                   executable |-> executable, scope |-> IF executable THEN scope ELSE {}]
<1>1. Compile(rows, found, q, d, verdict, a, scope)[q] = pol
  BY DEF Compile
<1>2. PolicyFits(ds, rs, pol)
  <2>1. /\ pol.decision = d /\ pol.request = a /\ pol.executable = executable
        /\ pol.scope = IF executable THEN scope ELSE {}
    OBVIOUS
  <2> HIDE DEF pol
  <2>2. CASE executable
    BY <2>1, <2>2 DEF PolicyFits
  <2>3. CASE ~executable
    BY <2>1, <2>3 DEF PolicyFits
  <2> QED
    BY <2>2, <2>3
<1> QED
  BY <1>1, <1>2

-----------------------------------------------------------------------------
(* The handlers *)

LEMMA GenerateReadStep ==
    ASSUME GovInv, NEW h, NEW old \in Proposals \union {NoProposal}, GenerateRead(h, old)
    PROVE  GovInv' /\ Kept
<1> DEFINE v == [NoView EXCEPT !.op = "GENERATE", !.task = task, !.proposal = old,
                   !.loaded = IF old \in Proposals THEN proposals[old].status ELSE "ABSENT"]
<1>1. v \in View
  BY NoViewType DEF GovInv, GovTypeOK, NoView, View, Proposal, ProposalStates
<1>2. ViewFits(decisions, requests, policies, v)
  BY DEF ViewFits, NoView
<1> QED
  BY <1>1, <1>2, ReadStep DEF GenerateRead

LEMMA ConfirmReadStep ==
    ASSUME GovInv, NEW h, NEW p \in Proposals, ConfirmRead(h, p)
    PROVE  GovInv' /\ Kept
<1> DEFINE others == {k \in Proposals \ {p} : proposals[k].status \notin {"ABSENT", "SUPERSEDED"}}
           v == [NoView EXCEPT !.op = "CONFIRM", !.task = task, !.proposal = p,
                   !.loaded = proposals[p].status, !.others = others,
                   !.reports = {report[k] : k \in others} \ {NoDecision},
                   !.decisions = ActiveDecisions, !.requests = OpenRequests,
                   !.policies = ActivePolicies]
<1>1. {report[k] : k \in others} \ {NoDecision} \subseteq Decisions
  BY DEF GovInv, GovTypeOK
<1>2. v \in View
  BY <1>1, NoViewType
     DEF GovInv, GovTypeOK, NoView, View, Proposal, ActiveDecisions, OpenRequests, ActivePolicies
<1>3. ViewFits(decisions, requests, policies, v)
  BY DEF ViewFits, NoView, Present, ActiveDecisions, OpenRequests, ActivePolicies
<1> QED
  BY <1>2, <1>3, ReadStep DEF ConfirmRead

LEMMA ReadyReadStep ==
    ASSUME GovInv, NEW h, NEW p \in Proposals, ReadyRead(h, p)
    PROVE  GovInv' /\ Kept
<1> DEFINE d == Latest(p)
           held == {k \in ActivePolicies : policies[k].decision = d}
           v(q) == [NoView EXCEPT !.op = "READY", !.task = task, !.proposal = p, !.decision = d,
                      !.requests = {r \in OpenRequests : requests[r].decision = d},
                      !.policies = ActivePolicies, !.policy = q]
<1>1. PICK q \in IF held = {} THEN {NoPolicy} ELSE held : Read(h, v(q))
  BY DEF ReadyRead
<1>2. d \in Decisions /\ Present(decisions, d)
  BY DEF ReadyRead, Latest, ActiveDecisions, Present
<1>3. q \in Policies \union {NoPolicy}
  BY <1>1 DEF ActivePolicies
<1>4. v(q) \in View
  BY <1>2, <1>3, NoViewType DEF GovInv, GovTypeOK, NoView, View, OpenRequests, ActivePolicies
<1>5. ViewFits(decisions, requests, policies, v(q))
  BY <1>2 DEF ViewFits, NoView, Present, OpenRequests, ActivePolicies
<1> QED
  BY <1>1, <1>4, <1>5, ReadStep DEF ReadyRead

LEMMA GovernReadStep ==
    ASSUME GovInv, NEW h, NEW p \in Proposals, NEW scope \in SUBSET Paths, GovernRead(h, p, scope)
    PROVE  GovInv' /\ Kept
<1> DEFINE v == [NoView EXCEPT !.op = "GOVERN", !.task = task, !.proposal = p, !.scope = scope]
<1>1. v \in View
  BY NoViewType DEF GovInv, GovTypeOK, NoView, View
<1>2. ViewFits(decisions, requests, policies, v)
  BY DEF ViewFits, NoView
<1> QED
  BY <1>1, <1>2, ReadStep DEF GovernRead

LEMMA ExecuteReadStep ==
    ASSUME GovInv, NEW h, ExecuteRead(h)
    PROVE  GovInv' /\ Kept
<1> DEFINE v(k) == [NoView EXCEPT !.op = "EXECUTE", !.task = task, !.policy = k]
<1>1. PICK k \in TaskPolicies : Read(h, v(k))
  BY DEF ExecuteRead
<1>2. k \in Policies
  BY DEF TaskPolicies, ActivePolicies
<1>3. v(k) \in View
  BY <1>2, NoViewType DEF GovInv, GovTypeOK, NoView, View
<1>4. ViewFits(decisions, requests, policies, v(k))
  BY <1>2 DEF ViewFits, NoView
<1> QED
  BY <1>1, <1>3, <1>4, ReadStep DEF ExecuteRead

\* A step that leaves decisions, requests and policies alone.
LEMMA QuietStep ==
    ASSUME GovInv, UNCHANGED <<decisions, requests, policies>>,
           task' \in Task, proposals' \in [Proposals -> Proposal],
           report' \in [Proposals -> Decisions \union {NoDecision}],
           wrote' \in Files \union {NoPath},
           NEW h, Done(h) \/ UNCHANGED view
    PROVE  GovInv' /\ Kept
<1>1. Typed
  BY DEF Typed, GovInv, GovTypeOK
<1>2. Kept
  BY DEF Kept, Present
<1>3. Fresh
  BY DEF Fresh, GovInv, RowsFit, Present
<1> QED
  BY <1>1, <1>2, <1>3, WriteStep

LEMMA TaskType ==
    ASSUME GovTypeOK, NEW b \in BOOLEAN
    PROVE  /\ [task EXCEPT !.blocked = b] \in Task
           /\ \A q \in Policies : [blocked |-> b, policy |-> q] \in Task
BY DEF GovTypeOK, Task

\* The status that a handler's flush leaves in the task.
LEMMA StatusType ==
    ASSUME GovInv, NEW h \in Handlers \union Executors, NEW c \in BOOLEAN,
           NEW b \in FlushedStatus(view[h].task.blocked, task.blocked, c)
    PROVE  b \in BOOLEAN /\ [task EXCEPT !.blocked = b] \in Task
<1>1. view[h].task.blocked \in BOOLEAN /\ task.blocked \in BOOLEAN
  BY DEF GovInv, GovTypeOK, View, Task
<1>2. b \in BOOLEAN
  BY <1>1, FlushedStatusType
<1> QED
  BY <1>2 DEF GovInv, GovTypeOK, Task

LEMMA CreateProposalStep ==
    ASSUME GovInv, NEW h \in Handlers, NEW scope \in SUBSET Paths, NEW complete \in BOOLEAN,
           CreateProposal(h, scope, complete)
    PROVE  GovInv' /\ Kept
<1>1. NewProposal(complete, scope) \in Proposal
  BY DEF NewProposal, Proposal, ProposalStates
<1>2. proposals' \in [Proposals -> Proposal]
  BY <1>1 DEF CreateProposal, GovInv, GovTypeOK
<1>3. PICK b \in FlushedStatus(view[h].task.blocked, task.blocked, FALSE) : task' = [task EXCEPT !.blocked = b]
  BY DEF CreateProposal
<1>4. task' \in Task
  BY <1>3, StatusType
<1>5. /\ report' \in [Proposals -> Decisions \union {NoDecision}]
      /\ wrote' \in Files \union {NoPath}
      /\ UNCHANGED <<decisions, requests, policies>>
      /\ Done(h)
  BY DEF CreateProposal, GovInv, GovTypeOK
<1> QED
  BY <1>2, <1>4, <1>5, QuietStep

LEMMA RejectProposalStep ==
    ASSUME GovInv, NEW p \in Proposals, RejectProposal(p)
    PROVE  GovInv' /\ Kept
<1>1. proposals' \in [Proposals -> Proposal] /\ task' \in Task
  BY DEF RejectProposal, GovInv, GovTypeOK, Proposal, ProposalStates, Task
<1>2. /\ report' \in [Proposals -> Decisions \union {NoDecision}]
      /\ wrote' \in Files \union {NoPath}
      /\ UNCHANGED <<decisions, requests, policies, view>>
  BY DEF RejectProposal, GovInv, GovTypeOK
<1> QED
  BY <1>1, <1>2, QuietStep

LEMMA GovernFailsStep ==
    ASSUME GovInv, NEW h \in Handlers, GovernFails(h)
    PROVE  GovInv' /\ Kept
<1>1. PICK b \in FlushedStatus(view[h].task.blocked, task.blocked, FALSE) : task' = [task EXCEPT !.blocked = b]
  BY DEF GovernFails
<1>2. task' \in Task
  BY <1>1, StatusType
<1>3. /\ proposals' \in [Proposals -> Proposal]
      /\ report' \in [Proposals -> Decisions \union {NoDecision}]
      /\ wrote' \in Files \union {NoPath}
      /\ UNCHANGED <<decisions, requests, policies>>
      /\ Done(h)
  BY DEF GovernFails, GovInv, GovTypeOK
<1> QED
  BY <1>2, <1>3, QuietStep

LEMMA AbortStep ==
    ASSUME GovInv, NEW h, Abort(h)
    PROVE  GovInv' /\ Kept
BY QuietStep DEF Abort, GovInv, GovTypeOK

LEMMA ExecuteStep ==
    ASSUME GovInv, NEW h \in Executors, NEW x \in Files, NEW writes \in BOOLEAN, Execute(h, x, writes)
    PROVE  GovInv' /\ Kept
<1>1. view[h].policy \in Policies
  BY DEF Execute, GovInv, ViewsFit, ViewFits
<1>2. task' \in Task
  BY <1>1, FlushedType DEF Execute, GovInv, GovTypeOK, Task
<1>3. /\ proposals' \in [Proposals -> Proposal]
      /\ report' \in [Proposals -> Decisions \union {NoDecision}]
      /\ wrote' \in Files \union {NoPath}
      /\ UNCHANGED <<decisions, requests, policies>>
      /\ Done(h)
  BY DEF Execute, GovInv, GovTypeOK
<1> QED
  BY <1>2, <1>3, QuietStep

-----------------------------------------------------------------------------
(* The handlers that change decisions, requests and policies *)

\* Invalidation of rows that exist.
LEMMA InvalidateStep ==
    ASSUME GovInv, NEW ds \in SUBSET Decisions, NEW rs \in SUBSET Requests, NEW ps \in SUBSET Policies,
           \A d \in ds : Present(decisions, d), \A r \in rs : Present(requests, r),
           \A k \in ps : Present(policies, k),
           decisions' = InvalidDecisions(ds), requests' = InvalidRequests(rs),
           policies' = InvalidPolicies(ps)
    PROVE  /\ Kept /\ Fresh
           /\ decisions' \in [Decisions -> Decision]
           /\ requests' \in [Requests -> Request]
           /\ policies' \in [Policies -> Policy]
<1>1. GovTypeOK
  BY DEF GovInv
<1>2. Kept
  BY <1>1, InvalidDecisionsKept, InvalidRequestsKept, InvalidPoliciesKept DEF Kept
<1>3. \A d \in Decisions : ~Present(decisions, d) => DecisionFits(decisions'[d])
  BY <1>1, InvalidDecisionsKept DEF GovInv, RowsFit, DecisionFits
<1>4. Fresh
  BY <1>1, <1>3, InvalidRequestsKept, InvalidPoliciesKept DEF Fresh, GovInv, RowsFit
<1> QED
  BY <1>1, <1>2, <1>4, InvalidType

LEMMA AdjustProposalStep ==
    ASSUME GovInv, NEW h \in Handlers, NEW scope \in SUBSET Paths, NEW complete \in BOOLEAN,
           AdjustProposal(h, scope, complete)
    PROVE  GovInv' /\ Kept
<1> DEFINE old == view[h].proposal
<1>1. old \in Proposals
  BY DEF AdjustProposal, GovInv, GovTypeOK, View
<1>2. NewProposal(complete, scope) \in Proposal
  BY DEF NewProposal, Proposal, ProposalStates
<1>3. proposals' \in [Proposals -> Proposal]
  <2>1. Flushed(view[h].loaded, proposals[old].status, "SUPERSEDED") \in ProposalStates
    BY <1>1, FlushedType DEF GovInv, GovTypeOK, Proposal, ProposalStates
  <2>2. [proposals[old] EXCEPT !.status = Flushed(view[h].loaded, @, "SUPERSEDED")] \in Proposal
    BY <1>1, <2>1 DEF GovInv, GovTypeOK, Proposal
  <2> QED
    BY <1>1, <1>2, <2>2 DEF AdjustProposal, GovInv, GovTypeOK
<1>4. task' \in Task
  BY DEF AdjustProposal, GovInv, GovTypeOK, Task
<1>5. report' \in [Proposals -> Decisions \union {NoDecision}] /\ wrote' \in Files \union {NoPath}
  BY DEF AdjustProposal, GovInv, GovTypeOK
<1>6. /\ ActiveDecisions \in SUBSET Decisions /\ \A d \in ActiveDecisions : Present(decisions, d)
      /\ OpenRequests \in SUBSET Requests /\ \A r \in OpenRequests : Present(requests, r)
      /\ ActivePolicies \in SUBSET Policies /\ \A k \in ActivePolicies : Present(policies, k)
  BY DEF ActiveDecisions, OpenRequests, ActivePolicies, Present
<1>7. /\ Kept /\ Fresh
      /\ decisions' \in [Decisions -> Decision]
      /\ requests' \in [Requests -> Request]
      /\ policies' \in [Policies -> Policy]
  BY <1>6, InvalidateStep DEF AdjustProposal
<1>8. Typed
  BY <1>3, <1>4, <1>5, <1>7 DEF Typed
<1> QED
  BY <1>7, <1>8, WriteStep DEF AdjustProposal

\* What the flush of a confirmation leaves in the proposals and their reports.
LEMMA ConfirmedType ==
    ASSUME GovInv, NEW v \in View
    PROVE  /\ ConfirmedProposals(v) \in [Proposals -> Proposal]
           /\ ConfirmedReports(v) \in [Proposals -> Decisions \union {NoDecision}]
<1>1. ASSUME NEW k \in Proposals PROVE ConfirmedProposals(v)[k] \in Proposal
  <2>1. Flushed(v.loaded, proposals[k].status, "CONFIRMED") \in ProposalStates
    BY FlushedType DEF GovInv, GovTypeOK, Proposal, ProposalStates
  <2> QED
    BY <2>1 DEF ConfirmedProposals, GovInv, GovTypeOK, Proposal, ProposalStates
<1>2. ConfirmedReports(v) \in [Proposals -> Decisions \union {NoDecision}]
  BY DEF ConfirmedReports, GovInv, GovTypeOK
<1> QED
  BY <1>1, <1>2 DEF ConfirmedProposals

\* The rows that a handler holds.
LEMMA HeldRows ==
    ASSUME GovInv, NEW h \in Handlers \union Executors
    PROVE  /\ view[h] \in View
           /\ view[h].decisions \in SUBSET Decisions /\ \A d \in view[h].decisions : Present(decisions, d)
           /\ view[h].requests \in SUBSET Requests /\ \A r \in view[h].requests : Present(requests, r)
           /\ view[h].policies \in SUBSET Policies /\ \A k \in view[h].policies : Present(policies, k)
BY DEF GovInv, GovTypeOK, ViewsFit, ViewFits, View

LEMMA ConfirmFailsStep ==
    ASSUME GovInv, NEW h \in Handlers, ConfirmFails(h)
    PROVE  GovInv' /\ Kept
<1>1. PICK b \in FlushedStatus(view[h].task.blocked, task.blocked, FALSE) : task' = [task EXCEPT !.blocked = b]
  BY DEF ConfirmFails
<1>2. task' \in Task
  BY <1>1, StatusType
<1>3. /\ proposals' \in [Proposals -> Proposal]
      /\ report' \in [Proposals -> Decisions \union {NoDecision}]
  BY HeldRows, ConfirmedType DEF ConfirmFails
<1>4. /\ Kept /\ Fresh
      /\ decisions' \in [Decisions -> Decision]
      /\ requests' \in [Requests -> Request]
      /\ policies' \in [Policies -> Policy]
  BY HeldRows, InvalidateStep DEF ConfirmFails
<1>5. Typed
  BY <1>2, <1>3, <1>4 DEF Typed, ConfirmFails
<1> QED
  BY <1>4, <1>5, WriteStep DEF ConfirmFails

\* Settle, as far as requests and policies go.
Settled(d, new, rs, ps) ==
    \/ /\ new.verdict = "ALLOW"
       /\ \E q \in Policies :
             /\ NextRow(policies, q)
             /\ policies' = Compile(ps, {k \in Policies : ps[k].status = "ACTIVE"}, q, d,
                                    "ALLOW", NoRequest, new.scope)
       /\ requests' = rs
    \/ /\ \E r \in Requests :
             /\ NextRow(requests, r)
             /\ requests' = [rs EXCEPT ![r] = NewRequest(d)]
       /\ policies' = ps
    \/ requests' = rs /\ policies' = ps

\* A new decision with what it asks for, after some rows were invalidated.
LEMMA SettledStep ==
    ASSUME GovInv, NEW ds \in SUBSET Decisions, NEW rs \in SUBSET Requests, NEW ps \in SUBSET Policies,
           \A e \in ds : Present(decisions, e), \A r \in rs : Present(requests, r),
           \A k \in ps : Present(policies, k),
           NEW d \in Decisions, ~Present(decisions, d),
           NEW new \in Decision, DecisionFits(new), new.status # "ABSENT",
           decisions' = [InvalidDecisions(ds) EXCEPT ![d] = new],
           Settled(d, new, InvalidRequests(rs), InvalidPolicies(ps))
    PROVE  /\ Kept /\ Fresh
           /\ decisions' \in [Decisions -> Decision]
           /\ requests' \in [Requests -> Request]
           /\ policies' \in [Policies -> Policy]
<1> DEFINE IR == InvalidRequests(rs)
           IP == InvalidPolicies(ps)
<1>1. GovTypeOK
  BY DEF GovInv
<1>2. /\ InvalidDecisions(ds) \in [Decisions -> Decision]
      /\ IR \in [Requests -> Request] /\ IP \in [Policies -> Policy]
  BY <1>1, InvalidType
<1>3. decisions' \in [Decisions -> Decision] /\ decisions'[d] = new /\ Present(decisions', d)
  BY <1>2 DEF Present
<1>4. ASSUME NEW e \in Decisions \ {d}
      PROVE  /\ Present(decisions', e) <=> Present(decisions, e)
             /\ decisions'[e].proposal = decisions[e].proposal
             /\ decisions'[e].verdict = decisions[e].verdict
             /\ decisions'[e].scope = decisions[e].scope
  <2>1. decisions'[e] = InvalidDecisions(ds)[e]
    BY <1>2
  <2> QED
    BY <1>1, <2>1, InvalidDecisionsKept DEF Present
<1>5. \A e \in Decisions : ~Present(decisions, e) => DecisionFits(decisions'[e])
  BY <1>3, <1>4 DEF GovInv, RowsFit, DecisionFits
<1>6. ASSUME NEW r \in Requests
      PROVE  /\ Present(IR, r) <=> Present(requests, r)
             /\ IR[r].decision = requests[r].decision
             /\ requests[r].approved \subseteq IR[r].approved
  BY <1>1, InvalidRequestsKept
<1>7. ASSUME NEW k \in Policies
      PROVE  /\ Present(IP, k) <=> Present(policies, k)
             /\ IP[k].decision = policies[k].decision /\ IP[k].request = policies[k].request
             /\ IP[k].scope = policies[k].scope /\ (IP[k].executable => policies[k].executable)
             /\ IP[k].status = "ACTIVE" => policies[k].status = "ACTIVE"
  BY <1>1, InvalidPoliciesKept
<1> HIDE DEF IR, IP
<1>8. CASE \E q \in Policies :
              /\ new.verdict = "ALLOW" /\ requests' = IR
              /\ NextRow(policies, q)
              /\ policies' = Compile(IP, {k \in Policies : IP[k].status = "ACTIVE"}, q, d,
                                     "ALLOW", NoRequest, new.scope)
  <2> DEFINE found == {k \in Policies : IP[k].status = "ACTIVE"}
  <2>1. PICK q \in Policies : /\ new.verdict = "ALLOW" /\ requests' = IR
                              /\ NextRow(policies, q)
                              /\ policies' = Compile(IP, found, q, d, "ALLOW", NoRequest, new.scope)
    BY <1>8
  <2>2. /\ new.scope \in SUBSET Paths
        /\ found \in SUBSET Policies /\ \A k \in found : Present(IP, k)
    BY DEF Decision, Present
  <2> HIDE DEF found
  <2>3. /\ policies' \in [Policies -> Policy]
        /\ policies'[q].status = "ACTIVE" /\ policies'[q].decision = d
        /\ policies'[q].request = NoRequest /\ policies'[q].scope = new.scope
        /\ \A k \in Policies : k # q =>
              /\ Present(policies', k) <=> Present(IP, k)
              /\ policies'[k].decision = IP[k].decision /\ policies'[k].request = IP[k].request
              /\ policies'[k].scope = IP[k].scope /\ policies'[k].executable = IP[k].executable
              /\ policies'[k].status = "ACTIVE" => IP[k].status = "ACTIVE"
    <3>1. Compiled(IP, policies', q, d, NoRequest) /\ policies'[q].scope = new.scope
      BY <1>2, <2>1, <2>2, CompileType
    <3> QED
      BY <3>1 DEF Compiled
  <2>4. ~Present(policies, q)
    BY <2>1 DEF NextRow, Present
  <2>5. PolicyFits(decisions', requests', policies'[q]) /\ Present(policies', q)
    BY <1>3, <2>1, <2>3 DEF PolicyFits, Present
  <2>6. ASSUME NEW k \in Policies, k # q
        PROVE  /\ Present(policies', k) <=> Present(policies, k)
               /\ policies'[k].decision = policies[k].decision /\ policies'[k].request = policies[k].request
               /\ policies'[k].scope = policies[k].scope
               /\ policies'[k].executable => policies[k].executable
               /\ policies'[k].status = "ACTIVE" => policies[k].status = "ACTIVE"
    BY <1>7, <2>3, <2>6
  <2>7. Kept
    BY <1>4, <1>6, <2>1, <2>4, <2>6 DEF Kept
  <2>8. \A k \in Policies : ~Present(policies, k) =>
          IF Present(policies', k) THEN PolicyFits(decisions', requests', policies'[k])
          ELSE ~policies'[k].executable /\ policies'[k].scope = {}
    BY <2>5, <2>6 DEF GovInv, RowsFit
  <2>9. Fresh
    BY <1>5, <1>6, <2>1, <2>8 DEF Fresh
  <2> QED
    BY <1>2, <1>3, <2>1, <2>3, <2>7, <2>9
<1>9. CASE \E r \in Requests :
              /\ NextRow(requests, r) /\ policies' = IP
              /\ requests' = [IR EXCEPT ![r] = NewRequest(d)]
  <2>1. PICK r \in Requests :
              /\ NextRow(requests, r) /\ policies' = IP
              /\ requests' = [IR EXCEPT ![r] = NewRequest(d)]
    BY <1>9
  <2>2. ~Present(requests, r)
    BY <2>1 DEF NextRow, Present
  <2>3. /\ requests' \in [Requests -> Request] /\ requests'[r].decision = d
        /\ \A k \in Requests \ {r} : requests'[k] = IR[k]
    BY <1>2, <2>1 DEF Request, NewRequest
  <2>4. RequestFits(decisions', requests'[r])
    BY <1>3, <2>3 DEF RequestFits
  <2>5. Kept
    BY <1>4, <1>6, <1>7, <2>1, <2>2, <2>3 DEF Kept, Present
  <2>6. \A k \in Requests : ~Present(requests, k) /\ Present(requests', k) => RequestFits(decisions', requests'[k])
    BY <1>6, <2>3, <2>4 DEF Present
  <2>7. Fresh
    BY <1>5, <1>7, <2>1, <2>6 DEF Fresh, GovInv, RowsFit
  <2> QED
    BY <1>2, <1>3, <2>1, <2>3, <2>5, <2>7
<1>10. CASE requests' = IR /\ policies' = IP
  <2>1. Kept
    BY <1>4, <1>6, <1>7, <1>10 DEF Kept
  <2>2. Fresh
    BY <1>5, <1>6, <1>7, <1>10 DEF Fresh, GovInv, RowsFit
  <2> QED
    BY <1>2, <1>3, <1>10, <2>1, <2>2
<1> QED
  BY <1>8, <1>9, <1>10 DEF Settled, IR, IP

LEMMA ConfirmStep ==
    ASSUME GovInv, NEW h \in Handlers, Confirm(h)
    PROVE  GovInv' /\ Kept
<1> DEFINE v == view[h]
           p == v.proposal
           new == NewDecision(p, proposals[p].scope)
<1>0. PICK d \in Decisions :
          /\ NextRow(decisions, d)
          /\ report' = [ConfirmedReports(v) EXCEPT ![p] = d]
          /\ decisions' = [InvalidDecisions(v.decisions) EXCEPT ![d] = new]
          /\ Settle(d, new, InvalidRequests(v.requests), InvalidPolicies(v.policies), {FALSE}, {TRUE})
  BY DEF Confirm
<1>1. /\ Settled(d, new, InvalidRequests(v.requests), InvalidPolicies(v.policies))
      /\ task' \in Task
  <2> HIDE DEF new
  <2>1. Settled(d, new, InvalidRequests(v.requests), InvalidPolicies(v.policies))
    BY <1>0, Zenon DEF Settle, Settled
  <2>2. task' \in Task
    <3>1. \/ \E q \in Policies : task' = [blocked |-> FALSE, policy |-> q]
          \/ task' = [task EXCEPT !.blocked = TRUE]
          \/ task' = [task EXCEPT !.blocked = FALSE]
      BY <1>0 DEF Settle
    <3> QED
      BY <3>1, TaskType DEF GovInv
  <2> QED
    BY <2>1, <2>2
<1>2. p \in Proposals /\ proposals[p].scope \in SUBSET Paths
  BY DEF Confirm, GovInv, GovTypeOK, Proposal, ViewsFit, ViewFits
<1>3. new \in Decision /\ DecisionFits(new) /\ new.status # "ABSENT"
  BY <1>2, NewDecisionFits
<1>4. ~Present(decisions, d)
  BY <1>0 DEF NextRow, Present
<1>5. /\ Kept /\ Fresh
      /\ decisions' \in [Decisions -> Decision]
      /\ requests' \in [Requests -> Request]
      /\ policies' \in [Policies -> Policy]
  BY <1>0, <1>1, <1>3, <1>4, HeldRows, SettledStep
<1>6. /\ proposals' \in [Proposals -> Proposal]
      /\ report' \in [Proposals -> Decisions \union {NoDecision}]
  BY <1>0, HeldRows, ConfirmedType DEF Confirm
<1>7. Typed
  BY <1>1, <1>5, <1>6 DEF Typed, Confirm
<1> QED
  BY <1>5, <1>7, WriteStep DEF Confirm

\* To invalidate no rows is to leave the tables alone.
LEMMA InvalidNone ==
    ASSUME GovTypeOK
    PROVE  InvalidDecisions({}) = decisions /\ InvalidRequests({}) = requests /\ InvalidPolicies({}) = policies
BY DEF GovTypeOK, InvalidDecisions, InvalidRequests, InvalidPolicies

LEMMA GovernStep ==
    ASSUME GovInv, NEW h \in Handlers, Govern(h)
    PROVE  GovInv' /\ Kept
<1> DEFINE v == view[h]
           new == NewDecision(v.proposal, v.scope)
           status(b) == FlushedStatus(v.task.blocked, task.blocked, b)
<1>1. PICK d \in Decisions :
          /\ NextRow(decisions, d)
          /\ report' = [report EXCEPT ![v.proposal] = d]
          /\ decisions' = [decisions EXCEPT ![d] = new]
          /\ Settle(d, new, requests, policies, status(FALSE), status(TRUE))
  BY DEF Govern
<1>2. v.proposal \in Proposals /\ v.scope \in SUBSET Paths
  BY DEF Govern, GovInv, GovTypeOK, View, ViewsFit, ViewFits
<1>3. new \in Decision /\ DecisionFits(new) /\ new.status # "ABSENT"
  BY <1>2, NewDecisionFits
<1>4. ~Present(decisions, d)
  BY <1>1 DEF NextRow, Present
<1> HIDE DEF new
<1>5. Settled(d, new, requests, policies)
  BY <1>1, Zenon DEF Settle, Settled
<1>6. task' \in Task
  <2>1. \/ \E q \in Policies : \E b \in status(FALSE) : task' = [blocked |-> b, policy |-> q]
        \/ \E b \in status(FALSE) : task' = [task EXCEPT !.blocked = b]
        \/ \E b \in status(TRUE) : task' = [task EXCEPT !.blocked = b]
    BY <1>1, Zenon DEF Settle
  <2>2. \A c \in BOOLEAN : status(c) \subseteq BOOLEAN
    BY StatusType
  <2> HIDE DEF status
  <2> QED
    BY <2>1, <2>2, TaskType DEF GovInv
<1>7. /\ Kept /\ Fresh
      /\ decisions' \in [Decisions -> Decision]
      /\ requests' \in [Requests -> Request]
      /\ policies' \in [Policies -> Policy]
  <2>1. /\ decisions' = [InvalidDecisions({}) EXCEPT ![d] = new]
        /\ Settled(d, new, InvalidRequests({}), InvalidPolicies({}))
    BY <1>1, <1>5, InvalidNone DEF GovInv
  <2> QED
    BY <1>3, <1>4, <2>1, SettledStep
<1>8. /\ proposals' \in [Proposals -> Proposal]
      /\ report' \in [Proposals -> Decisions \union {NoDecision}]
  BY <1>1 DEF Govern, GovInv, GovTypeOK
<1>9. Typed
  BY <1>6, <1>7, <1>8 DEF Typed, Govern
<1> QED
  BY <1>7, <1>9, WriteStep DEF Govern

\* A step that compiles one more policy, and leaves the decisions alone.
LEMMA CompileStep ==
    ASSUME GovInv, UNCHANGED decisions,
           requests' \in [Requests -> Request],
           \A r \in Requests :
              /\ Present(requests', r) <=> Present(requests, r)
              /\ requests'[r].decision = requests[r].decision
              /\ requests[r].approved \subseteq requests'[r].approved,
           NEW found \in SUBSET Policies, \A k \in found : Present(policies, k),
           NEW q \in Policies, ~Present(policies, q),
           NEW d \in Decisions, Present(decisions, d),
           NEW verdict, NEW a \in Requests \union {NoRequest}, NEW scope \in SUBSET Paths,
           policies' = Compile(policies, found, q, d, verdict, a, scope),
           \/ a = NoRequest /\ decisions[d].verdict = "ALLOW" /\ policies'[q].scope = decisions[d].scope
           \/ a \in Requests /\ requests'[a].decision = d /\ Present(requests', a)
              /\ ApprovedOn(requests', d, scope)
    PROVE  Kept /\ Fresh /\ policies' \in [Policies -> Policy]
<1>1. /\ policies' \in [Policies -> Policy]
      /\ policies'[q].status = "ACTIVE" /\ policies'[q].decision = d /\ policies'[q].request = a
      /\ \A k \in Policies : k # q =>
            /\ Present(policies', k) <=> Present(policies, k)
            /\ policies'[k].decision = policies[k].decision /\ policies'[k].request = policies[k].request
            /\ policies'[k].scope = policies[k].scope /\ policies'[k].executable = policies[k].executable
            /\ policies'[k].status = "ACTIVE" => policies[k].status = "ACTIVE"
  <2>1. policies \in [Policies -> Policy]
    BY DEF GovInv, GovTypeOK
  <2>2. Compiled(policies, policies', q, d, a)
    BY <2>1, CompileType
  <2> QED
    BY <2>2 DEF Compiled
<1>2. PolicyFits(decisions', requests', policies'[q])
  <2>1. CASE a = NoRequest
    <3>1. /\ decisions'[d].verdict = "ALLOW" /\ policies'[q].scope = decisions'[d].scope
          /\ Present(decisions', d)
      BY <2>1, GovConstants DEF Present
    <3> QED
      BY <1>1, <2>1, <3>1, AllowFits
  <2>2. CASE a \in Requests
    <3>1. Present(requests', a) /\ requests'[a].decision = d /\ ApprovedOn(requests', d, scope)
      BY <2>2, GovConstants
    <3>2. Present(decisions', d)
      BY DEF Present
    <3> QED
      BY <2>2, <3>1, <3>2, ApprovedFits
  <2> QED
    BY <2>1, <2>2
<1>3. Kept
  BY <1>1 DEF Kept, Present
<1>4. \A k \in Policies : ~Present(policies, k) =>
          IF Present(policies', k) THEN PolicyFits(decisions', requests', policies'[k])
          ELSE ~policies'[k].executable /\ policies'[k].scope = {}
  <2>1. Present(policies', q)
    BY <1>1 DEF Present
  <2> QED
    BY <1>1, <1>2, <2>1 DEF GovInv, RowsFit
<1>5. Fresh
  BY <1>4 DEF Fresh, GovInv, RowsFit
<1> QED
  BY <1>1, <1>3, <1>5

\* A step that files one more request.
LEMMA RequestStep ==
    ASSUME GovInv, UNCHANGED <<decisions, policies>>,
           NEW d \in Decisions, Present(decisions, d),
           NEW r \in Requests, ~Present(requests, r),
           requests' = [requests EXCEPT ![r] = NewRequest(d)]
    PROVE  Kept /\ Fresh /\ requests' \in [Requests -> Request]
<1>1. /\ requests' \in [Requests -> Request] /\ requests'[r].decision = d
      /\ \A k \in Requests : k # r => requests'[k] = requests[k]
  BY DEF GovInv, GovTypeOK, Request, NewRequest
<1>2. Kept
  BY <1>1 DEF Kept, Present
<1>3. \A k \in Requests : ~Present(requests, k) /\ Present(requests', k) => RequestFits(decisions', requests'[k])
  BY <1>1 DEF RequestFits, Present
<1>4. Fresh
  BY <1>3 DEF Fresh, GovInv, RowsFit
<1> QED
  BY <1>1, <1>2, <1>4

LEMMA ReadyStep ==
    ASSUME GovInv, NEW h \in Handlers, Ready(h)
    PROVE  GovInv' /\ Kept
<1> DEFINE v == view[h]
           d == v.decision
           settled(b, k) == {[blocked |-> c, policy |-> Flushed(v.task.policy, task.policy, k)] :
                             c \in FlushedStatus(v.task.blocked, task.blocked, b)}
<1>1. d \in Decisions /\ Present(decisions, d)
  BY DEF Ready, GovInv, ViewsFit, ViewFits
<1>2. ASSUME NEW b \in BOOLEAN, NEW k \in Policies \union {NoPolicy}
      PROVE  settled(b, k) \subseteq Task
  <2>1. FlushedStatus(v.task.blocked, task.blocked, b) \subseteq BOOLEAN
    BY StatusType
  <2>2. Flushed(v.task.policy, task.policy, k) \in Policies \union {NoPolicy}
    BY FlushedType DEF GovInv, GovTypeOK, Task
  <2> QED
    BY <2>1, <2>2 DEF Task
<1>3. v.policy \in Policies \union {NoPolicy} /\ v.task.policy \in Policies \union {NoPolicy}
  BY DEF GovInv, GovTypeOK, View, Task
<1>4. /\ proposals' \in [Proposals -> Proposal]
      /\ report' \in [Proposals -> Decisions \union {NoDecision}]
      /\ wrote' \in Files \union {NoPath}
      /\ UNCHANGED decisions /\ decisions' \in [Decisions -> Decision]
      /\ requests \in [Requests -> Request] /\ policies \in [Policies -> Policy]
      /\ Done(h)
  BY DEF Ready, GovInv, GovTypeOK
<1> HIDE DEF settled
<1>5. CASE /\ \/ task' \in settled(FALSE, v.policy)
              \/ task' \in settled(FALSE, v.task.policy)
              \/ task' \in settled(TRUE, v.task.policy)
           /\ UNCHANGED <<requests, policies>>
  <2>1. task' \in Task
    BY <1>2, <1>3, <1>5
  <2> QED
    BY <1>4, <1>5, <2>1, QuietStep
<1>6. CASE \E q \in Policies :
              /\ decisions[d].verdict = "ALLOW"
              /\ NextRow(policies, q)
              /\ policies' = Compile(policies, v.policies, q, d, "ALLOW", NoRequest, decisions[d].scope)
              /\ task' \in settled(FALSE, q)
              /\ UNCHANGED requests
  <2>1. PICK q \in Policies :
              /\ decisions[d].verdict = "ALLOW"
              /\ NextRow(policies, q)
              /\ policies' = Compile(policies, v.policies, q, d, "ALLOW", NoRequest, decisions[d].scope)
              /\ task' \in settled(FALSE, q)
              /\ UNCHANGED requests
    BY <1>6
  <2>2. task' \in Task
    BY <1>2, <2>1
  <2>3. decisions[d].scope \in SUBSET Paths
    BY <1>1 DEF GovInv, GovTypeOK, Decision
  <2>4. ~Present(policies, q)
    BY <2>1 DEF NextRow, Present
  <2>5. Kept /\ Fresh /\ policies' \in [Policies -> Policy]
    <3>1. /\ requests' \in [Requests -> Request]
          /\ \A r \in Requests :
              /\ Present(requests', r) <=> Present(requests, r)
              /\ requests'[r].decision = requests[r].decision
              /\ requests[r].approved \subseteq requests'[r].approved
      BY <1>4, <2>1
    <3>2. v.policies \in SUBSET Policies /\ \A k \in v.policies : Present(policies, k)
      BY HeldRows
    <3>3. policies'[q].scope = decisions[d].scope
      BY <1>1, <1>4, <2>1, <2>3, <3>2, CompileType
    <3> QED
      BY <1>1, <1>4, <2>1, <2>3, <2>4, <3>1, <3>2, <3>3, CompileStep
  <2>6. Typed
    BY <1>4, <2>1, <2>2, <2>5 DEF Typed
  <2> QED
    BY <1>4, <2>5, <2>6, WriteStep
<1>7. CASE \E r \in Requests :
              /\ NextRow(requests, r)
              /\ requests' = [requests EXCEPT ![r] = NewRequest(d)]
              /\ task' \in settled(FALSE, v.task.policy)
              /\ UNCHANGED policies
  <2>1. PICK r \in Requests :
              /\ NextRow(requests, r)
              /\ requests' = [requests EXCEPT ![r] = NewRequest(d)]
              /\ task' \in settled(FALSE, v.task.policy)
              /\ UNCHANGED policies
    BY <1>7
  <2>2. task' \in Task
    BY <1>2, <1>3, <2>1
  <2>3. ~Present(requests, r)
    BY <2>1 DEF NextRow, Present
  <2>4. Kept /\ Fresh /\ requests' \in [Requests -> Request]
    BY <1>1, <1>4, <2>1, <2>3, RequestStep
  <2>5. Typed
    BY <1>4, <2>1, <2>2, <2>4 DEF Typed
  <2> QED
    BY <1>4, <2>4, <2>5, WriteStep
<1> QED
  BY <1>5, <1>6, <1>7, Zenon DEF Ready, settled

LEMMA ApproveStep ==
    ASSUME GovInv, NEW r \in Requests, NEW scope \in SUBSET Paths, Approve(r, scope)
    PROVE  GovInv' /\ Kept
<1> DEFINE d == requests[r].decision
           rs == [requests EXCEPT ![r].status = "APPROVED", ![r].approved = @ \union {scope}]
<1>1. /\ rs \in [Requests -> Request]
      /\ rs[r].decision = d /\ rs[r].status = "APPROVED" /\ scope \in rs[r].approved
      /\ \A k \in Requests :
            /\ Present(requests, r) => (Present(rs, k) <=> Present(requests, k))
            /\ rs[k].decision = requests[k].decision
            /\ requests[k].approved \subseteq rs[k].approved
  BY DEF GovInv, GovTypeOK, Request, Present
<1>2. requests' = rs /\ Present(requests, r)
  BY DEF Approve, Present
<1>3. d \in Decisions /\ Present(decisions, d)
  BY <1>2 DEF GovInv, RowsFit, RequestFits
<1>4. /\ task' \in Task
      /\ proposals' \in [Proposals -> Proposal]
      /\ report' \in [Proposals -> Decisions \union {NoDecision}]
      /\ UNCHANGED decisions /\ decisions' \in [Decisions -> Decision]
      /\ policies \in [Policies -> Policy]
      /\ wrote' \in Files \union {NoPath}
      /\ UNCHANGED view
  BY DEF Approve, GovInv, GovTypeOK
<1>5. ASSUME NEW a \in ApprovedRequests(rs, d)
      PROVE  a \in Requests /\ rs[a].decision = d /\ Present(rs, a)
  BY <1>1 DEF ApprovedRequests, Present
<1> HIDE DEF rs
<1>6. CASE UNCHANGED policies
  <2>1. Kept
    BY <1>1, <1>2, <1>4, <1>6 DEF Kept, Present
  <2>2. Fresh
    BY <1>1, <1>2, <1>4, <1>6 DEF Fresh, GovInv, RowsFit, Present
  <2>3. Typed
    BY <1>1, <1>2, <1>4, <1>6 DEF Typed
  <2> QED
    BY <1>4, <2>1, <2>2, <2>3, WriteStep
<1>7. CASE \E q \in Policies, a \in ApprovedRequests(rs, d) :
              /\ NextRow(policies, q)
              /\ policies' = Compile(policies, ActivePolicies, q, d, decisions[d].verdict, a, scope)
  <2>1. PICK q \in Policies, a \in ApprovedRequests(rs, d) :
              /\ NextRow(policies, q)
              /\ policies' = Compile(policies, ActivePolicies, q, d, decisions[d].verdict, a, scope)
    BY <1>7
  <2>2. ~Present(policies, q)
    BY <2>1 DEF NextRow, Present
  <2>3. a \in Requests /\ requests'[a].decision = d /\ Present(requests', a) /\ ApprovedOn(requests', d, scope)
    BY <1>1, <1>2, <1>5 DEF ApprovedOn, Present
  <2>4. ActivePolicies \in SUBSET Policies /\ \A k \in ActivePolicies : Present(policies, k)
    BY DEF ActivePolicies, Present
  <2>5. /\ requests' \in [Requests -> Request]
        /\ \A k \in Requests :
              /\ Present(requests', k) <=> Present(requests, k)
              /\ requests'[k].decision = requests[k].decision
              /\ requests[k].approved \subseteq requests'[k].approved
    BY <1>1, <1>2
  <2>6. Kept /\ Fresh /\ policies' \in [Policies -> Policy]
    BY <1>3, <1>4, <2>1, <2>2, <2>3, <2>4, <2>5, CompileStep
  <2>7. Typed
    BY <1>4, <2>5, <2>6 DEF Typed
  <2> QED
    BY <1>4, <2>6, <2>7, WriteStep
<1> QED
  BY <1>6, <1>7 DEF Approve, rs

LEMMA RejectStep ==
    ASSUME GovInv, NEW r \in Requests, Reject(r)
    PROVE  GovInv' /\ Kept
<1>1. Present(requests, r)
  BY DEF Reject, Present
<1>2. /\ requests' \in [Requests -> Request]
      /\ \A k \in Requests :
            /\ Present(requests', k) <=> Present(requests, k)
            /\ requests'[k].decision = requests[k].decision
            /\ requests[k].approved \subseteq requests'[k].approved
  BY <1>1 DEF Reject, GovInv, GovTypeOK, Request, Present
<1>3. Kept
  BY <1>2 DEF Reject, Kept, Present
<1>4. Fresh
  BY <1>2 DEF Reject, Fresh, GovInv, RowsFit, Present
<1>5. Typed
  BY <1>2 DEF Reject, Typed, GovInv, GovTypeOK
<1> QED
  BY <1>3, <1>4, <1>5, WriteStep DEF Reject

LEMMA ExecuteSelfGrantedStep ==
    ASSUME GovInv, NEW h \in Executors, NEW x \in Files, NEW writes \in BOOLEAN,
           ExecuteSelfGranted(h, x, writes)
    PROVE  /\ GovInv' /\ Kept
           /\ \E k \in Policies : /\ policies'[k].scope = {x}
                                  /\ decisions'[policies'[k].decision].verdict = "ALLOW"
                                  /\ decisions'[policies'[k].decision].scope = {x}
<1> DEFINE new == [status |-> "ACTIVE", proposal |-> NoProposal, verdict |-> "ALLOW", scope |-> {x}]
<1>1. PICK d \in Decisions, q \in Policies :
          /\ NextRow(decisions, d) /\ NextRow(policies, q)
          /\ decisions' = [decisions EXCEPT ![d] = new]
          /\ policies' = Compile(policies, {}, q, d, "ALLOW", NoRequest, {x})
          /\ task' = [blocked |-> FALSE, policy |-> q]
  BY DEF ExecuteSelfGranted
<1>2. /\ new \in Decision /\ DecisionFits(new)
      /\ new.verdict = "ALLOW" /\ new.scope = {x} /\ new.proposal = NoProposal /\ new.status = "ACTIVE"
  BY DEF Decision, DecisionFits, Files
<1> HIDE DEF new
<1>3. /\ decisions \in [Decisions -> Decision] /\ requests \in [Requests -> Request]
      /\ policies \in [Policies -> Policy]
  BY DEF GovInv, GovTypeOK
<1>4. ~Present(decisions, d) /\ ~Present(policies, q)
  BY <1>1 DEF NextRow, Present
<1>5. /\ decisions' \in [Decisions -> Decision] /\ decisions'[d] = new
      /\ \A e \in Decisions : e # d => decisions'[e] = decisions[e]
  BY <1>1, <1>2, <1>3
<1>6. /\ policies' \in [Policies -> Policy]
      /\ policies'[q].status = "ACTIVE" /\ policies'[q].decision = d
      /\ policies'[q].request = NoRequest /\ policies'[q].scope = {x}
      /\ \A k \in Policies : k # q =>
            /\ Present(policies', k) <=> Present(policies, k)
            /\ policies'[k].decision = policies[k].decision /\ policies'[k].request = policies[k].request
            /\ policies'[k].scope = policies[k].scope /\ policies'[k].executable = policies[k].executable
            /\ policies'[k].status = "ACTIVE" => policies[k].status = "ACTIVE"
  <2> DEFINE found == {}
             scope == {x}
  <2>1. /\ scope \in SUBSET Paths /\ NoRequest \in Requests \union {NoRequest}
        /\ found \in SUBSET Policies /\ \A k \in found : Present(policies, k)
    BY DEF Files
  <2>2. policies' = Compile(policies, found, q, d, "ALLOW", NoRequest, scope)
    BY <1>1
  <2> HIDE DEF found, scope
  <2>3. /\ policies' \in [Policies -> Policy]
        /\ policies'[q].status = "ACTIVE" /\ policies'[q].decision = d
        /\ policies'[q].request = NoRequest /\ policies'[q].scope = scope
        /\ \A k \in Policies : k # q =>
              /\ Present(policies', k) <=> Present(policies, k)
              /\ policies'[k].decision = policies[k].decision /\ policies'[k].request = policies[k].request
              /\ policies'[k].scope = policies[k].scope /\ policies'[k].executable = policies[k].executable
              /\ policies'[k].status = "ACTIVE" => policies[k].status = "ACTIVE"
    <3>1. Compiled(policies, policies', q, d, NoRequest) /\ policies'[q].scope = scope
      BY <1>3, <2>1, <2>2, CompileType
    <3> QED
      BY <3>1 DEF Compiled
  <2> QED
    BY <2>3 DEF scope
<1>7. UNCHANGED requests /\ Done(h)
  BY DEF ExecuteSelfGranted
<1>8. Kept
  BY <1>4, <1>5, <1>6, <1>7 DEF Kept, Present
<1>9. Fresh
  <2>1. \A e \in Decisions : ~Present(decisions, e) => DecisionFits(decisions'[e])
    BY <1>2, <1>5 DEF GovInv, RowsFit
  <2>2. PolicyFits(decisions', requests', policies'[q]) /\ Present(policies', q)
    <3>1. /\ decisions'[d].verdict = "ALLOW" /\ policies'[q].scope = decisions'[d].scope
          /\ Present(decisions', d)
      BY <1>2, <1>5, <1>6 DEF Present
    <3>2. PolicyFits(decisions', requests', policies'[q])
      BY <1>6, <3>1, AllowFits
    <3> QED
      BY <1>6, <3>2 DEF Present
  <2>3. \A k \in Policies : ~Present(policies, k) =>
          IF Present(policies', k) THEN PolicyFits(decisions', requests', policies'[k])
          ELSE ~policies'[k].executable /\ policies'[k].scope = {}
    BY <1>6, <2>2 DEF GovInv, RowsFit
  <2> QED
    BY <1>7, <2>1, <2>3 DEF Fresh
<1>10. Typed
  <2>1. task' \in Task
    BY <1>1, TaskType DEF GovInv
  <2> QED
    BY <1>5, <1>6, <2>1 DEF Typed, ExecuteSelfGranted, GovInv, GovTypeOK
<1>11. GovInv' /\ Kept
  BY <1>7, <1>8, <1>9, <1>10, WriteStep
<1>12. /\ policies'[q].scope = {x} /\ decisions'[policies'[q].decision].verdict = "ALLOW"
       /\ decisions'[policies'[q].decision].scope = {x}
  BY <1>2, <1>5, <1>6
<1> QED
  BY <1>11, <1>12

-----------------------------------------------------------------------------
(* Induction *)

LEMMA GovInitInv == GovInit => GovInv
<1> SUFFICES ASSUME GovInit PROVE GovInv
  OBVIOUS
<1>1. GovTypeOK
  BY NoViewType DEF GovInit, GovTypeOK, Proposal, ProposalStates, Decision, Request, Policy
<1>2. RowsFit
  BY DEF GovInit, RowsFit, DecisionFits, Present
<1>3. ViewsFit
  BY DEF GovInit, ViewsFit, ViewFits, NoView
<1> QED
  BY <1>1, <1>2, <1>3 DEF GovInv

LEMMA GovNextInv == GovInv /\ [GovNext]_govVars => GovInv' /\ Kept
<1> SUFFICES ASSUME GovInv, [GovNext]_govVars PROVE GovInv' /\ Kept
  OBVIOUS
<1>1. CASE UNCHANGED govVars
  BY <1>1 DEF govVars, GovInv, GovTypeOK, RowsFit, ViewsFit, Kept, Present
<1>2. ASSUME NEW h \in Handlers, HandlerStep(h) PROVE GovInv' /\ Kept
  <2>1. ASSUME NEW old \in Proposals \union {NoProposal}, GenerateRead(h, old) PROVE GovInv' /\ Kept
    BY <2>1, GenerateReadStep
  <2>2. ASSUME NEW p \in Proposals, ConfirmRead(h, p) \/ ReadyRead(h, p) PROVE GovInv' /\ Kept
    BY <2>2, ConfirmReadStep, ReadyReadStep
  <2>3. ASSUME NEW p \in Proposals, NEW scope \in ClientScopes \union {proposals[p].scope},
               GovernRead(h, p, scope)
        PROVE  GovInv' /\ Kept
    <3>1. scope \in SUBSET Paths
      BY GovConstants DEF GovInv, GovTypeOK, Proposal
    <3> QED
      BY <2>3, <3>1, GovernReadStep
  <2>4. ASSUME NEW scope \in ProposalScopes, NEW complete \in BOOLEAN,
               CreateProposal(h, scope, complete) \/ AdjustProposal(h, scope, complete)
        PROVE  GovInv' /\ Kept
    <3>1. scope \in SUBSET Paths
      BY GovConstants
    <3> QED
      BY <2>4, <3>1, CreateProposalStep, AdjustProposalStep
  <2>5. CASE Confirm(h) \/ ConfirmFails(h) \/ Ready(h) \/ Govern(h) \/ GovernFails(h) \/ Abort(h)
    BY <2>5, ConfirmStep, ConfirmFailsStep, ReadyStep, GovernStep, GovernFailsStep, AbortStep
  <2> QED
    BY <1>2, <2>1, <2>2, <2>3, <2>4, <2>5 DEF HandlerStep
<1>3. ASSUME NEW h \in Executors, ExecutorStep(h) PROVE GovInv' /\ Kept
  BY <1>3, ExecuteReadStep, ExecuteStep, ExecuteSelfGrantedStep, AbortStep DEF ExecutorStep
<1>4. ASSUME NEW p \in Proposals, RejectProposal(p) PROVE GovInv' /\ Kept
  BY <1>4, RejectProposalStep
<1>5. ASSUME NEW r \in Requests,
             NEW scope \in ClientScopes \union {decisions[d].scope : d \in Decisions \intersect {requests[r].decision}},
             Approve(r, scope)
      PROVE  GovInv' /\ Kept
  <2>1. scope \in SUBSET Paths
    BY GovConstants DEF GovInv, GovTypeOK, Decision
  <2> QED
    BY <1>5, <2>1, ApproveStep
<1>6. ASSUME NEW r \in Requests, Reject(r) PROVE GovInv' /\ Kept
  BY <1>6, RejectStep
<1> QED
  BY <1>1, <1>2, <1>3, <1>4, <1>5, <1>6 DEF GovNext

\* The inductive invariant holds in every reachable state.
THEOREM GovInvariant == GovSpec => []GovInv
BY GovInitInv, GovNextInv, PTL DEF GovSpec

\* Rows, task and views keep the shape of the tables (models/task.py,
\* models/governance.py, models/approval.py).
THEOREM GovTypeCorrect == GovSpec => []GovTypeOK
<1>1. GovInv => GovTypeOK
  BY DEF GovInv
<1> QED
  BY <1>1, GovInvariant, PTL

\* What the rules let through without an approver has no rule.
LEMMA RulesLetThrough ==
    GovInv => \A k \in Policies :
        /\ Present(policies, k)
        /\ policies[k].request = NoRequest
        /\ decisions[policies[k].decision].proposal # NoProposal
        => \A x \in policies[k].scope : Effect[x] = "NONE"
<1> SUFFICES ASSUME GovInv, NEW k \in Policies, Present(policies, k),
                    policies[k].request = NoRequest,
                    decisions[policies[k].decision].proposal # NoProposal,
                    NEW x \in policies[k].scope
             PROVE  Effect[x] = "NONE"
  OBVIOUS
<1>1. PolicyFits(decisions, requests, policies[k])
  BY DEF GovInv, RowsFit
<1> DEFINE d == policies[k].decision
<1>2. d \in Decisions /\ decisions[d].verdict = "ALLOW" /\ x \in decisions[d].scope
  BY <1>1, GovConstants DEF PolicyFits
<1>3. Verdict(decisions[d].scope) = "ALLOW"
  BY <1>2 DEF GovInv, RowsFit, DecisionFits
<1>4. x \in Paths
  BY <1>2 DEF GovInv, GovTypeOK, Decision
<1> QED
  BY <1>2, <1>3, <1>4, GovConstants DEF Verdict, Effects

\* A policy that no approval stands behind names nothing for a proposal that a rule
\* matches, so it covers a file with a rule only through "." (evaluate, compile,
\* _path_allowed), for any rules and any number of overlapping handlers.
THEOREM UnapprovedGrantsHarmless == GovSpec => []UnapprovedGrantsNameNoRule
<1>1. GovInv => \A k \in Policies : policies[k].executable => Present(policies, k)
  BY DEF GovInv, RowsFit
<1>2. GovInv => UnapprovedGrantsNameNoRule
  BY <1>1, RulesLetThrough DEF UnapprovedGrantsNameNoRule, Allows
<1> QED
  BY <1>2, GovInvariant, PTL

\* A policy for a request grants what was approved on a request of its decision.
LEMMA FitsApproved ==
    ASSUME NEW k \in Policies, ApprovedOn(requests, policies[k].decision, policies[k].scope)
    PROVE  Approved(k)
BY DEF ApprovedOn, Approved

\* The paths of an executable policy of a WARN decision are exactly what an approver
\* approved on a request of that decision (record, compile, approve), whatever was
\* superseded, rejected or asked again since.
THEOREM ApprovalBehindPolicy == GovSpec => []ApprovedScopeBehindPolicy
<1>1. ASSUME GovInv PROVE ApprovedScopeBehindPolicy
  <2> SUFFICES ASSUME NEW k \in Policies, policies[k].executable,
                      decisions[policies[k].decision].verdict = "WARN"
               PROVE  /\ policies[k].request \in Requests
                      /\ requests[policies[k].request].decision = policies[k].decision
                      /\ Approved(k)
    BY DEF ApprovedScopeBehindPolicy
  <2>1. PolicyFits(decisions, requests, policies[k])
    BY <1>1 DEF GovInv, RowsFit
  <2> QED
    BY <2>1, FitsApproved DEF PolicyFits
<1> QED
  BY <1>1, GovInvariant, PTL

\* Policies are never changed but to lapse (compile, invalidate_downstream_state): an
\* execution that loaded one runs under the paths it had.
THEOREM PoliciesLapse == GovSpec => PoliciesOnlyLapse
<1>1. GovInv /\ [GovNext]_govVars =>
         [\A k \in Policies : policies[k].status # "ABSENT" =>
             /\ policies'[k].decision = policies[k].decision
             /\ policies'[k].request = policies[k].request
             /\ policies'[k].scope = policies[k].scope
             /\ policies'[k].executable => policies[k].executable
             /\ policies'[k].status = "ACTIVE" => policies[k].status = "ACTIVE"]_govVars
  BY GovNextInv DEF Kept, Present
<1> QED
  BY <1>1, GovInvariant, PTL DEF GovSpec, PoliciesOnlyLapse

\* A file is written only under a policy that goes back to an ALLOW decision on its
\* paths or to an approval of them, whatever happened to the policy since the
\* execution loaded it (dispatch_write, allows_write, _activate_action_policy).
THEOREM WritesTraceable == GovSpec => []WritesAreTraceable
<1>1. GovInit => WritesAreTraceable
  BY DEF GovInit, WritesAreTraceable
<1>2. GovInv /\ WritesAreTraceable /\ [GovNext]_govVars => WritesAreTraceable'
  <2> SUFFICES ASSUME GovInv, WritesAreTraceable, [GovNext]_govVars
               PROVE  WritesAreTraceable'
    OBVIOUS
  <2>1. CASE UNCHANGED govVars
    BY <2>1 DEF govVars, WritesAreTraceable, Approved
  <2>2. CASE wrote' = NoPath
    BY <2>2 DEF WritesAreTraceable
  <2>3. ASSUME NEW h \in Executors, NEW x \in Files, NEW writes \in BOOLEAN, Execute(h, x, writes), writes
        PROVE  WritesAreTraceable'
    <3> DEFINE k == view[h].policy
    <3>1. /\ k \in Policies /\ Allows(policies[k].scope, x) /\ wrote' = x
          /\ UNCHANGED <<decisions, requests, policies>>
      BY <2>3 DEF Execute, AllowsWrite, GovInv, ViewsFit, ViewFits
    <3>2. policies[k].scope # {}
      BY <3>1 DEF Allows
    <3>3. PolicyFits(decisions, requests, policies[k])
      BY <3>1, <3>2 DEF GovInv, RowsFit
    <3>4. CASE decisions[policies[k].decision].verdict = "ALLOW" /\ policies[k].scope = decisions[policies[k].decision].scope
      BY <3>1, <3>4 DEF WritesAreTraceable
    <3>5. CASE ApprovedOn(requests, policies[k].decision, policies[k].scope)
      <4>1. Approved(k)
        BY <3>1, <3>5, FitsApproved
      <4>2. \E r \in Requests : /\ requests'[r].decision = policies'[k].decision
                                 /\ policies'[k].scope \in requests'[r].approved
        BY <3>1, <4>1 DEF Approved
      <4> QED
        BY <3>1, <4>2 DEF WritesAreTraceable, Approved
    <3> QED
      BY <3>2, <3>3, <3>4, <3>5 DEF PolicyFits
  <2>4. ASSUME NEW h \in Executors, NEW x \in Files, NEW writes \in BOOLEAN,
               ExecuteSelfGranted(h, x, writes), writes
        PROVE  WritesAreTraceable'
    <3>1. PICK k \in Policies : /\ policies'[k].scope = {x}
                                /\ decisions'[policies'[k].decision].verdict = "ALLOW"
                                /\ decisions'[policies'[k].decision].scope = {x}
      BY <2>4, ExecuteSelfGrantedStep
    <3>2. wrote' = x /\ Allows(policies'[k].scope, x)
      BY <2>4, <3>1 DEF ExecuteSelfGranted, Allows
    <3> QED
      BY <3>1, <3>2 DEF WritesAreTraceable
  <2>5. ASSUME NEW h \in Handlers, HandlerStep(h) PROVE wrote' = NoPath
    BY <2>5 DEF HandlerStep, GenerateRead, ConfirmRead, ReadyRead, GovernRead, CreateProposal,
                AdjustProposal, Confirm, ConfirmFails, Ready, Govern, GovernFails, Abort
  <2>6. ASSUME NEW h \in Executors, ExecutorStep(h) PROVE WritesAreTraceable'
    <3>1. CASE ExecuteRead(h) \/ Abort(h)
      BY <2>2, <3>1 DEF ExecuteRead, Abort
    <3>2. ASSUME NEW x \in Files, NEW writes \in BOOLEAN,
                 Execute(h, x, writes) \/ ExecuteSelfGranted(h, x, writes)
          PROVE  WritesAreTraceable'
      <4>1. CASE writes
        BY <2>3, <2>4, <3>2, <4>1
      <4>2. CASE ~writes
        BY <2>2, <3>2, <4>2 DEF Execute, ExecuteSelfGranted
      <4> QED
        BY <4>1, <4>2
    <3> QED
      BY <2>6, <3>1, <3>2 DEF ExecutorStep
  <2>7. CASE \/ \E p \in Proposals : RejectProposal(p)
             \/ \E r \in Requests : Reject(r) \/ \E scope : Approve(r, scope)
    BY <2>2, <2>7 DEF RejectProposal, Reject, Approve
  <2> QED
    BY <2>1, <2>2, <2>5, <2>6, <2>7 DEF GovNext
<1> QED
  BY <1>1, <1>2, GovInvariant, PTL DEF GovSpec

\* adjust_proposal leaves nothing of the older versions in force, whatever the
\* others did while the model was asked.
THEOREM AdjustVoids == GovSpec => AdjustVoidsEverything
<1> DEFINE adjusted(h) == /\ view[h].op = "GENERATE" /\ view[h].proposal # NoProposal
                          /\ view'[h].op = "IDLE" /\ proposals' # proposals
           void == /\ \A d \in Decisions : decisions'[d].status # "ACTIVE"
                   /\ \A r \in Requests : requests'[r].status \notin {"PENDING", "APPROVED"}
                   /\ \A k \in Policies : policies'[k].status # "ACTIVE"
<1>1. GovInv /\ [GovNext]_govVars => [(\E h \in Handlers : adjusted(h)) => void]_govVars
  <2> SUFFICES ASSUME GovInv, GovNext, NEW h \in Handlers, adjusted(h) PROVE void
    OBVIOUS
  <2>1. view \in [Handlers \union Executors -> View]
    BY DEF GovInv, GovTypeOK
  <2>2. ASSUME NEW g \in Handlers \union Executors, Done(g), view[g].op # "GENERATE"
        PROVE  FALSE
    <3>1. view'[h] = view[h]
      BY <2>1, <2>2 DEF Done
    <3> QED
      BY <3>1
  <2>3. ASSUME NEW g \in Handlers, NEW scope, NEW complete, CreateProposal(g, scope, complete) PROVE FALSE
    <3>1. view'[h] = view[h]
      BY <2>1, <2>3 DEF CreateProposal, Done
    <3> QED
      BY <3>1
  <2>4. ASSUME NEW g \in Handlers, NEW scope, NEW complete, AdjustProposal(g, scope, complete) PROVE void
    BY <2>4 DEF AdjustProposal, InvalidDecisions, InvalidRequests, InvalidPolicies,
                ActiveDecisions, OpenRequests, ActivePolicies, GovInv, GovTypeOK, Decision, Request, Policy
  <2>5. ASSUME NEW g \in Handlers, HandlerStep(g) PROVE void
    <3>1. \/ proposals' = proposals
          \/ Done(g) /\ view[g].op # "GENERATE"
          \/ \E scope, complete : CreateProposal(g, scope, complete)
          \/ \E scope, complete : AdjustProposal(g, scope, complete)
      BY <2>5 DEF HandlerStep, GenerateRead, ConfirmRead, ReadyRead, GovernRead, Confirm, ConfirmFails,
                  Ready, Govern, GovernFails, Abort
    <3> QED
      BY <2>2, <2>3, <2>4, <3>1
  <2>6. ASSUME NEW g \in Executors, ExecutorStep(g) PROVE FALSE
    BY <2>6 DEF ExecutorStep, ExecuteRead, Execute, ExecuteSelfGranted, Abort
  <2>7. ASSUME \/ \E p \in Proposals : RejectProposal(p)
               \/ \E r \in Requests : Reject(r) \/ \E scope : Approve(r, scope)
        PROVE  FALSE
    BY <2>7 DEF RejectProposal, Reject, Approve
  <2> QED
    BY <2>5, <2>6, <2>7 DEF GovNext
<1>2. GovInv /\ [GovNext]_govVars =>
         [(\E h \in Handlers : /\ view[h].op = "GENERATE" /\ view[h].proposal # NoProposal
                               /\ view'[h].op = "IDLE" /\ proposals' # proposals)
          => /\ \A d \in Decisions : decisions'[d].status # "ACTIVE"
             /\ \A r \in Requests : requests'[r].status \notin {"PENDING", "APPROVED"}
             /\ \A k \in Policies : policies'[k].status # "ACTIVE"]_govVars
  BY <1>1
<1> QED
  BY <1>2, GovInvariant, PTL DEF GovSpec, AdjustVoidsEverything

=============================================================================
