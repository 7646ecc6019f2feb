------------------------- MODULE OnlineRuntimeProofs -------------------------
(***************************************************************************)
(* What holds of OnlineRuntime for any number of requests in flight,       *)
(* sessions, uploads and restarts, and any limits on sessions and time.    *)
(***************************************************************************)
EXTENDS OnlineRuntime, TLAPS

\* The step a request is at.
Step(r) == Program[r.op][r.at]

\* The request has its project, after the check of the owner.
PastOwner(r) == \/ r.op \in {"export", "bootstrap"} /\ r.at > 4
                \/ r.op = "ready" /\ r.at > 6

\* What a request knows, of n sessions so far of which own have a project and st are
\* in the store: its session from the second step on, its project after the check of
\* the owner, that both are the same after the last check, and all that was in the
\* store at its snapshot and still is.
Fits(r, n, own, st) ==
    IF r.op = "idle" THEN ~ r.ok
    ELSE /\ r.at \in 1 .. Len(Program[r.op])
         /\ r.seen <= n /\ r.cookie <= n
         /\ r.at > 1 => r.sid \in 1 .. n
         /\ r.ok => r.at > 1
         /\ PastOwner(r) => r.proj \in own
         /\ r.op = "ready" /\ r.at > 7 => r.sid = r.cookie
         /\ r.op = "ready" /\ r.ok => r.at > 7 /\ r.proj = r.sid
         /\ r.op = "export" /\ r.at > 11 => r.proj = r.sid
         /\ r.op = "export" /\ r.ok => r.at > 11
         /\ ~ r.ok /\ Step(r) = "cleanup" => \A s \in st : s <= r.seen => s \in r.snap

Owners == {s \in Sids : Owns(s)}
RequestsFit == \A h \in Handlers : Fits(req[h], created, Owners, store)

\* What makes a project ready is an understanding of it.
ReadyFounded ==
    /\ \A s \in cache : understood[s] # {}
    /\ \A s \in Sids : boot[s] = "READY" => understood[s] # {}
    /\ worker.state = "READY" => understood[worker.sid] # {}

OnlineInv == OnlineTypeOK /\ RequestsFit /\ ReadyFounded

\* A request is about to submit the bootstrap of s.
Submitting(s) == \E h \in Handlers : At(h, "submit") /\ req[h].sid = s

-----------------------------------------------------------------------------
(* The endpoints *)

LEMMA OpsAre ==
    Ops = {"status", "set", "update", "clear", "workspace", "reset", "import", "export",
           "bootstrap", "ready"}
BY DEF Ops, Program

LEMMA CredentialSteps ==
    /\ LET p == Program["status"]
       IN  Len(p) = 3 /\ p[1] = "getOrCreate" /\ p[2] = "active" /\ p[3] = "cleanup"
    /\ LET p == Program["set"] IN Len(p) = 2 /\ p[1] = "require" /\ p[2] = "setCredential"
    /\ LET p == Program["update"] IN Len(p) = 2 /\ p[1] = "require" /\ p[2] = "updateCredential"
    /\ LET p == Program["clear"] IN Len(p) = 2 /\ p[1] = "getOrCreate" /\ p[2] = "clearCredential"
BY DEF Program, StatusCredential, SetCredential, UpdateCredential, ClearCredential,
   CurrentOnlineSession

LEMMA WorkspaceSteps ==
    /\ LET p == Program["workspace"]
       IN  /\ Len(p) = 6 /\ p[1] = "getOrCreate" /\ p[2] = "active" /\ p[3] = "cleanup"
           /\ p[4] = "enter" /\ p[5] = "mkdir" /\ p[6] = "copy"
    /\ LET p == Program["reset"]
       IN  /\ Len(p) = 7 /\ p[1] = "getOrCreate" /\ p[2] = "active" /\ p[3] = "cleanup"
           /\ p[4] = "drop" /\ p[5] = "enter" /\ p[6] = "mkdir" /\ p[7] = "copy"
BY DEF Program, GetRuntimeWorkspace, ResetRuntimeWorkspace, CurrentOnlineSession

LEMMA ImportSteps ==
    LET p == Program["import"]
    IN  /\ Len(p) = 9 /\ p[1] = "getOrCreate" /\ p[2] = "active" /\ p[3] = "cleanup"
        /\ p[4] = "unowned" /\ p[5] = "clear" /\ p[6] = "unpack" /\ p[7] = "register"
        /\ p[8] = "schedule" /\ p[9] = "submit"
BY DEF Program, ImportProjectZip, CurrentOnlineSession

LEMMA ExportSteps ==
    LET p == Program["export"]
    IN  /\ Len(p) = 12 /\ p[1] = "getOrCreate" /\ p[2] = "active" /\ p[3] = "cleanup"
        /\ p[4] = "owner" /\ p[5] = "getOrCreate" /\ p[6] = "active" /\ p[7] = "cleanup"
        /\ p[8] = "enter" /\ p[9] = "mkdir" /\ p[10] = "copy" /\ p[11] = "bound" /\ p[12] = "zip"
BY DEF Program, ExportProjectZip, RequireProjectAccess, CurrentOnlineSession

LEMMA BootstrapSteps ==
    LET p == Program["bootstrap"]
    IN  /\ Len(p) = 5 /\ p[1] = "getOrCreate" /\ p[2] = "active" /\ p[3] = "cleanup"
        /\ p[4] = "owner" /\ p[5] = "report"
BY DEF Program, BootstrapStatus, RequireProjectAccess, CurrentOnlineSession

LEMMA ReadySteps ==
    LET p == Program["ready"]
    IN  /\ Len(p) = 11 /\ p[1] = "require" /\ p[2] = "provider" /\ p[3] = "getOrCreate"
        /\ p[4] = "active" /\ p[5] = "cleanup" /\ p[6] = "owner" /\ p[7] = "require"
        /\ p[8] = "enter" /\ p[9] = "mkdir" /\ p[10] = "copy" /\ p[11] = "bound"
BY DEF Program, ProjectReadiness, RequireProjectAccess, CurrentOnlineSession

\* Every endpoint begins with its session; the clean-up follows the snapshot; and the
\* checks of the endpoints with a project are where PastOwner and Fits take them to be.
Placed(op, at) ==
    LET p == Program[op]
        step == p[at]
    IN  /\ Len(p) \in 2 .. 12
        /\ at = 1 => step \in {"getOrCreate", "require"}
        /\ at < Len(p) /\ p[at + 1] = "cleanup" => step = "active"
        /\ step = "enter" => /\ op \in {"workspace", "reset", "export", "ready"}
                             /\ op \in {"export", "ready"} => at = 8
                             /\ at + 3 <= Len(p) => p[at + 3] # "cleanup"
        /\ step = "report" => op = "bootstrap" /\ at = 5
        /\ step = "schedule" => op = "import" /\ at = 8
        /\ op \in {"export", "bootstrap"} => (at = 4) = (step = "owner")
        /\ op = "bootstrap" => Len(p) = 5
        /\ op = "export" => /\ Len(p) = 12 /\ (at = 11) = (step = "bound")
                            /\ at > 7 => step \notin {"getOrCreate", "require", "active", "cleanup"}
        /\ op = "ready" => /\ Len(p) = 11 /\ (at = 6) = (step = "owner")
                           /\ (at = 11) = (step = "bound") /\ (at = 7 => step = "require")
                           /\ at > 7 => step \notin {"getOrCreate", "require", "active", "cleanup"}

LEMMA Places ==
    ASSUME NEW op \in Ops, NEW at \in 1 .. Len(Program[op])
    PROVE  Placed(op, at)
<1>1. \A n \in Nat : n >= 1 /\ n <= 12 => \/ n = 1 \/ n = 2 \/ n = 3 \/ n = 4 \/ n = 5 \/ n = 6
                                           \/ n = 7 \/ n = 8 \/ n = 9 \/ n = 10 \/ n = 11 \/ n = 12
  OBVIOUS
<1>2. CASE op \in {"status", "set", "update", "clear"}
  BY <1>2, CredentialSteps DEF Placed
<1>3. CASE op = "workspace"
  BY <1>1, <1>3, WorkspaceSteps DEF Placed
<1>8. CASE op = "reset"
  BY <1>1, <1>8, WorkspaceSteps DEF Placed
<1>4. CASE op = "import"
  BY <1>4, ImportSteps DEF Placed
<1>5. CASE op = "export"
  BY <1>5, ExportSteps DEF Placed
<1>6. CASE op = "bootstrap"
  BY <1>6, BootstrapSteps DEF Placed
<1>7. CASE op = "ready"
  BY <1>7, ReadySteps DEF Placed
<1> QED
  BY <1>2, <1>3, <1>4, <1>5, <1>6, <1>7, <1>8, OpsAre

-----------------------------------------------------------------------------
(* Requests *)

\* What a request knows, it knows later: sessions and projects only come, and what comes
\* into the store is new.
LEMMA FitsLater ==
    ASSUME NEW r \in Requests, NEW n \in Nat, NEW n2 \in Nat, n <= n2,
           NEW own, NEW own2, own \subseteq own2,
           NEW st, NEW st2, \A s \in st2 : s \in st \/ (s \in Nat /\ s > n),
           Fits(r, n, own, st)
    PROVE  Fits(r, n2, own2, st2)
<1>1. CASE r.op = "idle"
  BY <1>1 DEF Fits
<1>2. CASE r.op # "idle"
  <2>1. r.seen \in Nat /\ r.cookie \in Nat /\ r.seen <= n /\ r.cookie <= n
    BY <1>2 DEF Fits, Requests, SidOrNone
  <2>2. r.seen <= n2 /\ r.cookie <= n2 /\ (r.at > 1 => r.sid \in 1 .. n2)
    BY <1>2, <2>1 DEF Fits
  <2>3. PastOwner(r) => r.proj \in own2
    BY <1>2 DEF Fits
  <2>4. ~ r.ok /\ Step(r) = "cleanup" => \A s \in st2 : s <= r.seen => s \in r.snap
    <3>1. SUFFICES ASSUME ~ r.ok, Step(r) = "cleanup", NEW s \in st2, s <= r.seen
                   PROVE  s \in r.snap
      OBVIOUS
    <3>2. s \in st
      BY <2>1, <3>1
    <3> QED
      BY <1>2, <3>1, <3>2 DEF Fits
  <2> QED
    BY <1>2, <2>2, <2>3, <2>4 DEF Fits
<1> QED
  BY <1>1, <1>2

\* A request that goes on from r with what it has learnt at its step, r2.
LEMMA NextFits ==
    ASSUME NEW n \in Nat, NEW own, NEW st, NEW r \in Requests, r.op # "idle", ~ r.ok,
           Fits(r, n, own, st), NEW r2 \in Requests, NEW k \in {0, 2},
           k = 2 => Step(r) = "enter",
           r2.op = r.op, r2.at = r.at, r2.ok = r.ok, r2.cookie = r.cookie, r2.seen = r.seen,
           r2.sid \in 1 .. n,
           Step(r) \in {"getOrCreate", "require"} \/ r2.sid = r.sid,
           Step(r) = "require" => r2.sid = r.cookie,
           IF Step(r) = "owner" THEN r2.proj \in own ELSE r2.proj = r.proj,
           Step(r) = "bound" => r2.proj = r2.sid,
           Step(r) = "active" => \A s \in st : s <= r2.seen => s \in r2.snap
    PROVE  Skip(r2, k) \in Requests /\ Fits(Skip(r2, k), n, own, st)
<1> DEFINE len == Len(Program[r.op])
           at2 == r.at + k + 1
<1>1. r.op \in Ops /\ r.at \in 1 .. len
  BY DEF Fits, Requests
<1>2. Placed(r.op, r.at)
  BY <1>1, Places
<1>a. k = 0 \/ (k = 2 /\ Step(r) = "enter")
  OBVIOUS
<1>3. len \in 2 .. 12 /\ at2 \in Nat /\ r.at \in Nat /\ k \in Nat
  BY <1>1, <1>2 DEF Placed
<1> HIDE DEF len
<1>b. /\ len \in Nat /\ len >= 2 /\ len <= 12 /\ r.at <= len /\ r.at >= 1
      /\ r.op = "export" => len = 12
      /\ r.op = "ready" => len = 11
      /\ k = 2 => r.at # 1 /\ (r.op \in {"export", "ready"} => r.at = 8)
  <2>1. len \in Nat /\ len >= 2 /\ len <= 12 /\ r.at <= len /\ r.at >= 1
    BY <1>1, <1>3
  <2>2. (r.op = "export" => len = 12) /\ (r.op = "ready" => len = 11)
    BY <1>2 DEF Placed, len
  <2>3. k = 2 => r.at # 1 /\ (r.op \in {"export", "ready"} => r.at = 8)
    BY <1>2, <1>a DEF Placed, Step
  <2> QED
    BY <2>1, <2>2, <2>3
<1>c. r.op \in {"export", "ready"} /\ r.at = 11 => Step(r) = "bound"
  BY <1>2 DEF Placed, Step
<1>4. ASSUME r.at + k < len
      PROVE  Skip(r2, k) \in Requests /\ Fits(Skip(r2, k), n, own, st)
  <2> DEFINE q == [r2 EXCEPT !.at = at2]
  <2>1. Skip(r2, k) = q
    BY <1>4 DEF Skip, len
  <2>2. /\ q.op = r.op /\ q.at = at2 /\ q.cookie = r.cookie /\ q.sid = r2.sid /\ q.seen = r.seen
        /\ q.snap = r2.snap /\ q.proj = r2.proj /\ q.ok = FALSE
    BY DEF Requests
  <2>3. q \in Requests
    <3>1. at2 \in 0 .. 12
      <4>1. \A a, b, l \in Nat : a + b < l /\ l <= 12 => a + b + 1 \in 0 .. 12
        OBVIOUS
      <4> QED
        BY <1>b, <1>3, <1>4, <4>1
    <3> QED
      BY <3>1 DEF Requests
  <2>4. q.at \in 1 .. len
    BY <1>3, <1>4, <2>2
  <2>5. q.seen <= n /\ q.cookie <= n /\ q.sid \in 1 .. n
    BY <2>2 DEF Fits
  <2>6. PastOwner(q) => q.proj \in own
    <3>1. SUFFICES ASSUME PastOwner(q) PROVE q.proj \in own
      OBVIOUS
    <3>2. CASE Step(r) = "owner"
      BY <2>2, <3>2
    <3>3. CASE Step(r) # "owner"
      <4>1. /\ r.op \in {"export", "bootstrap"} => r.at # 4
            /\ r.op = "ready" => r.at # 6
            /\ k = 2 => r.op # "bootstrap"
        BY <1>2, <1>a, <3>3 DEF Placed, Step
      <4>2. PastOwner(r)
        BY <1>a, <1>b, <1>3, <2>2, <3>1, <4>1 DEF PastOwner
      <4> QED
        BY <2>2, <3>3, <4>2 DEF Fits
    <3> QED
      BY <3>2, <3>3
  <2>7. q.op = "ready" /\ q.at > 7 => q.sid = q.cookie
    BY <1>2, <1>3, <2>2 DEF Placed, Step, Fits
  <2>8. q.op = "export" /\ q.at > 11 => q.proj = q.sid
    <3>1. r.op = "export" /\ at2 > 11 => r.at = 11
      BY <1>a, <1>b, <1>3, <1>4
    <3> QED
      BY <1>c, <2>2, <3>1
  <2>9. Step(q) = "cleanup" => \A s \in st : s <= q.seen => s \in q.snap
    <3>1. ASSUME Step(q) = "cleanup" PROVE Step(r) = "active"
      <4>1. Program[r.op][r.at + k + 1] = "cleanup" /\ r.at + k + 1 <= len
        BY <1>b, <1>3, <1>4, <2>2, <3>1 DEF Step
      <4>2. CASE k = 0
        BY <1>2, <1>3, <1>4, <4>1, <4>2 DEF Placed, Step, len
      <4>3. CASE k = 2
        <5>1. r.at + 3 <= len /\ Program[r.op][r.at + 3] = "cleanup"
          BY <1>3, <4>1, <4>3
        <5> QED
          BY <1>2, <1>a, <4>3, <5>1 DEF Placed, Step, len
      <4> QED
        BY <4>2, <4>3
    <3> QED
      BY <2>2, <3>1
  <2> HIDE DEF q
  <2> QED
    BY <2>1, <2>2, <2>3, <2>4, <2>5, <2>6, <2>7, <2>8, <2>9 DEF Fits, len
<1>5. ASSUME ~ (r.at + k < len)
      PROVE  Skip(r2, k) \in Requests /\ Fits(Skip(r2, k), n, own, st)
  <2> DEFINE q == [r2 EXCEPT !.ok = TRUE]
  <2>1. Skip(r2, k) = q
    BY <1>5 DEF Skip, len
  <2>2. /\ q.op = r.op /\ q.at = r.at /\ q.cookie = r.cookie /\ q.sid = r2.sid /\ q.seen = r.seen
        /\ q.snap = r2.snap /\ q.proj = r2.proj /\ q.ok = TRUE /\ q \in Requests
    BY DEF Requests
  <2>3. q.seen <= n /\ q.cookie <= n /\ q.sid \in 1 .. n
    BY <2>2 DEF Fits
  <2>4. q.at > 1
    BY <1>a, <1>b, <1>3, <1>5, <2>2
  <2>5. PastOwner(q) => q.proj \in own
    <3>1. PastOwner(q) => PastOwner(r)
      BY <2>2 DEF PastOwner
    <3> QED
      BY <2>2, <3>1 DEF Fits
  <2>6. q.op = "ready" => q.at > 7 /\ q.proj = q.sid /\ q.sid = q.cookie
    <3>1. r.op = "ready" => r.at = 11
      BY <1>a, <1>b, <1>3, <1>5
    <3>2. r.op = "ready" => r.sid = r.cookie /\ Step(r) \notin {"getOrCreate", "require"}
      BY <1>c, <3>1 DEF Fits
    <3> QED
      BY <1>c, <2>2, <3>1, <3>2
  <2>7. q.op = "export" => q.at > 11 /\ q.proj = q.sid
    <3>1. r.op = "export" => r.at = 12
      BY <1>a, <1>b, <1>3, <1>5
    <3>2. r.op = "export" => Step(r) \notin {"getOrCreate", "require", "owner"}
      BY <1>2, <3>1 DEF Placed, Step
    <3> QED
      BY <2>2, <3>1, <3>2 DEF Fits
  <2> HIDE DEF q
  <2> QED
    BY <1>1, <2>1, <2>2, <2>3, <2>4, <2>5, <2>6, <2>7 DEF Fits, len
<1> QED
  BY <1>4, <1>5

\* The request of h goes on to r, and the rest of the service moves on.
LEMMA OneMoves ==
    ASSUME OnlineTypeOK, RequestsFit, NEW h \in Handlers, NEW r \in Requests,
           req' = [req EXCEPT ![h] = r],
           created' \in SidOrNone, created <= created', Owners \subseteq Owners',
           \A s \in store' : s \in store \/ (s \in Nat /\ s > created),
           Fits(r, created', Owners', store')
    PROVE  req' \in [Handlers -> Requests] /\ RequestsFit'
<1>1. req \in [Handlers -> Requests] /\ created \in Nat /\ created' \in Nat
  BY OnlineBounds DEF OnlineTypeOK, SidOrNone
<1>2. req' \in [Handlers -> Requests]
  BY <1>1
<1>3. ASSUME NEW g \in Handlers PROVE Fits(req'[g], created', Owners', store')
  <2>1. CASE g = h
    BY <1>1, <2>1
  <2>2. CASE g # h
    <3>1. req'[g] = req[g] /\ req[g] \in Requests /\ Fits(req[g], created, Owners, store)
      BY <1>1, <2>2 DEF RequestsFit
    <3> QED
      BY <1>1, <3>1, FitsLater
  <2> QED
    BY <2>1, <2>2
<1> QED
  BY <1>2, <1>3 DEF RequestsFit

LEMMA IdleFits ==
    ASSUME NEW n, NEW own, NEW st
    PROVE  Idle \in Requests /\ Fits(Idle, n, own, st)
BY OnlineBounds DEF Idle, Requests, Fits, SidOrNone, NoSid

\* An answer leaves, or an error does.
LEMMA OneLeaves ==
    ASSUME OnlineTypeOK, RequestsFit, NEW h \in Handlers, Refuse(h),
           created' = created, Owners \subseteq Owners', store' \subseteq store
    PROVE  req' \in [Handlers -> Requests] /\ RequestsFit'
<1>1. created \in Nat
  BY OnlineBounds DEF OnlineTypeOK, SidOrNone
<1>2. created' \in SidOrNone /\ created <= created'
  BY <1>1 DEF OnlineTypeOK
<1> QED
  BY <1>2, IdleFits, OneMoves DEF Refuse

\* What is known of a request that takes a step.
LEMMA AtStep ==
    ASSUME OnlineTypeOK, RequestsFit, NEW h \in Handlers, NEW step, CanStep(h, step)
    PROVE  /\ req[h] \in Requests /\ req[h].op # "idle" /\ ~ req[h].ok /\ Step(req[h]) = step
           /\ Fits(req[h], created, Owners, store)
           /\ step \notin {"getOrCreate", "require"} => req[h].sid \in 1 .. created
<1>1. /\ req[h] \in Requests /\ req[h].op # "idle" /\ ~ req[h].ok /\ Step(req[h]) = step
      /\ Fits(req[h], created, Owners, store)
  BY DEF CanStep, At, Running, Step, OnlineTypeOK, RequestsFit
<1>2. req[h].op \in Ops /\ req[h].at \in 1 .. Len(Program[req[h].op])
  BY <1>1 DEF Fits, Requests
<1>3. Placed(req[h].op, req[h].at)
  BY <1>2, Places
<1>4. step \notin {"getOrCreate", "require"} => req[h].at > 1
  <2>1. req[h].at \in Nat /\ req[h].at >= 1
    BY <1>2
  <2> QED
    BY <1>1, <1>3, <2>1 DEF Placed, Step
<1> QED
  BY <1>1, <1>4 DEF Fits

\* A step that learns nothing about sessions and projects, and none is lost.
LEMMA PlainStep ==
    ASSUME OnlineTypeOK, RequestsFit, NEW h \in Handlers, NEW step, CanStep(h, step),
           step \notin {"getOrCreate", "require", "owner", "bound", "active"},
           GoOn(h, [req[h] EXCEPT !.snap = {}]) \/ GoOn(h, req[h]) \/ Refuse(h),
           created' = created, Owners \subseteq Owners', store' \subseteq store
    PROVE  req' \in [Handlers -> Requests] /\ RequestsFit'
<1>1. CASE Refuse(h)
  BY <1>1, OneLeaves
<1>2. ASSUME NEW snap \in SUBSET Sids, GoOn(h, [req[h] EXCEPT !.snap = snap])
      PROVE  req' \in [Handlers -> Requests] /\ RequestsFit'
  <2> DEFINE r == req[h]
             r2 == [r EXCEPT !.snap = snap]
  <2>1. /\ r \in Requests /\ r.op # "idle" /\ ~ r.ok /\ Step(r) = step
        /\ Fits(r, created, Owners, store) /\ r.sid \in 1 .. created
    BY AtStep
  <2>2. created \in Nat
    BY OnlineBounds DEF OnlineTypeOK, SidOrNone
  <2>3. Fits(r, created', Owners', store')
    BY <2>1, <2>2, FitsLater
  <2>4. /\ r2 \in Requests /\ r2.op = r.op /\ r2.at = r.at /\ r2.ok = r.ok /\ r2.cookie = r.cookie
        /\ r2.seen = r.seen /\ r2.sid = r.sid /\ r2.proj = r.proj
    BY <2>1, <1>2 DEF Requests
  <2>5. req' = [req EXCEPT ![h] = Skip(r2, 0)]
    BY <1>2 DEF GoOn
  <2> HIDE DEF r, r2
  <2>6. Skip(r2, 0) \in Requests /\ Fits(Skip(r2, 0), created', Owners', store')
    BY <2>1, <2>2, <2>3, <2>4, NextFits
  <2>7. created' \in SidOrNone /\ created <= created'
    BY <2>2 DEF OnlineTypeOK
  <2> QED
    BY <2>5, <2>6, <2>7, OneMoves
<1>3. req[h] \in Requests
  BY AtStep
<1>4. req[h] = [req[h] EXCEPT !.snap = req[h].snap] /\ req[h].snap \in SUBSET Sids
  BY <1>3 DEF Requests
<1>5. CASE GoOn(h, req[h])
  BY <1>2, <1>4, <1>5
<1> QED
  BY <1>1, <1>2, <1>5

-----------------------------------------------------------------------------
(* The session store *)

\* The store after an operation, with one more session or none.
LEMMA StoreTypes ==
    ASSUME OnlineTypeOK, created' = created, store' = Live,
           left' = left \/ \E s \in Live : Touch(s)
    PROVE  /\ created' \in SidOrNone /\ store' \subseteq 1 .. created' /\ store' \subseteq store
           /\ left' \in [Sids -> 0 .. Ttl]
<1>1. Ttl \in 0 .. Ttl
  BY OnlineBounds
<1> QED
  BY <1>1 DEF OnlineTypeOK, Live, Touch

LEMMA GetOrCreateKeeps ==
    ASSUME OnlineInv, NEW h \in Handlers, GetOrCreate(h)
    PROVE  /\ created' \in SidOrNone /\ store' \subseteq 1 .. created' /\ left' \in [Sids -> 0 .. Ttl]
           /\ req' \in [Handlers -> Requests] /\ RequestsFit'
<1> USE DEF OnlineInv
<1> DEFINE r == req[h]
<1>1. /\ r \in Requests /\ r.op # "idle" /\ ~ r.ok /\ Step(r) = "getOrCreate"
      /\ Fits(r, created, Owners, store)
  BY AtStep DEF GetOrCreate
<1>2. Owners' = Owners /\ created \in Nat /\ created \in SidOrNone
  BY OnlineBounds DEF GetOrCreate, Owners, Owns, OnlineTypeOK, SidOrNone
<1>3. ASSUME NEW s \in 1 .. created', GoOn(h, [r EXCEPT !.sid = s]),
             created' \in SidOrNone, created <= created',
             \A x \in store' : x \in store \/ (x \in Nat /\ x > created)
      PROVE  req' \in [Handlers -> Requests] /\ RequestsFit'
  <2> DEFINE r2 == [r EXCEPT !.sid = s]
  <2>1. created' \in Nat /\ s \in SidOrNone
    BY <1>3, OnlineBounds DEF SidOrNone
  <2>2. Fits(r, created', Owners', store')
    BY <1>1, <1>2, <1>3, <2>1, FitsLater
  <2>3. /\ r2 \in Requests /\ r2.op = r.op /\ r2.at = r.at /\ r2.ok = r.ok /\ r2.cookie = r.cookie
        /\ r2.seen = r.seen /\ r2.sid = s /\ r2.proj = r.proj
    BY <1>1, <2>1 DEF Requests
  <2>4. req' = [req EXCEPT ![h] = Skip(r2, 0)]
    BY <1>3 DEF GoOn
  <2> HIDE DEF r, r2
  <2>5. Skip(r2, 0) \in Requests /\ Fits(Skip(r2, 0), created', Owners', store')
    BY <1>1, <1>3, <2>1, <2>2, <2>3, NextFits
  <2> QED
    BY <1>2, <1>3, <2>4, <2>5, OneMoves
<1>4. CASE r.cookie \in Live
  <2>1. created' = created /\ store' = Live /\ Touch(r.cookie) /\ GoOn(h, [r EXCEPT !.sid = r.cookie])
    BY <1>4 DEF GetOrCreate
  <2>2. /\ created' \in SidOrNone /\ store' \subseteq 1 .. created' /\ store' \subseteq store
        /\ left' \in [Sids -> 0 .. Ttl]
    BY <1>4, <2>1, StoreTypes
  <2>3. r.cookie \in 1 .. created' /\ created <= created'
    BY <1>2, <1>4, <2>1 DEF Live, OnlineTypeOK
  <2> QED
    BY <1>3, <2>1, <2>2, <2>3
<1>5. CASE r.cookie \notin Live /\ Cardinality(Live) >= MaxActive
  <2>1. created' = created /\ store' = Live /\ left' = left /\ Refuse(h)
    BY <1>5 DEF GetOrCreate
  <2>2. /\ created' \in SidOrNone /\ store' \subseteq 1 .. created' /\ store' \subseteq store
        /\ left' \in [Sids -> 0 .. Ttl]
    BY <2>1, StoreTypes
  <2> QED
    BY <1>2, <2>1, <2>2, OneLeaves
<1>6. CASE r.cookie \notin Live /\ ~ (Cardinality(Live) >= MaxActive)
  <2>1. /\ created < MaxSessions /\ created' = created + 1 /\ store' = Live \union {created'}
        /\ Touch(created') /\ GoOn(h, [r EXCEPT !.sid = created'])
    BY <1>6 DEF GetOrCreate
  <2>2. /\ created' \in SidOrNone /\ created' \in Sids /\ created' \in 1 .. created'
        /\ created <= created' /\ created' > created /\ created' \in Nat
    BY <1>2, <2>1, OnlineBounds DEF SidOrNone, Sids
  <2>3. Live \subseteq 1 .. created /\ Live \subseteq store
    BY DEF Live, OnlineTypeOK
  <2>4. store' \subseteq 1 .. created' /\ \A x \in store' : x \in store \/ (x \in Nat /\ x > created)
    BY <1>2, <2>1, <2>2, <2>3
  <2>5. left' \in [Sids -> 0 .. Ttl]
    <3>1. Ttl \in 0 .. Ttl
      BY OnlineBounds
    <3> QED
      BY <2>1, <3>1 DEF Touch, OnlineTypeOK
  <2> QED
    BY <1>3, <2>1, <2>2, <2>4, <2>5
<1> QED
  BY <1>4, <1>5, <1>6

LEMMA RequireKeeps ==
    ASSUME OnlineInv, NEW h \in Handlers, Require(h)
    PROVE  /\ created' \in SidOrNone /\ store' \subseteq 1 .. created' /\ left' \in [Sids -> 0 .. Ttl]
           /\ req' \in [Handlers -> Requests] /\ RequestsFit'
<1> USE DEF OnlineInv
<1> DEFINE r == req[h]
<1>1. /\ r \in Requests /\ r.op # "idle" /\ ~ r.ok /\ Step(r) = "require"
      /\ Fits(r, created, Owners, store)
  BY AtStep DEF Require
<1>2. /\ Owners' = Owners /\ created \in Nat /\ created' = created /\ store' = Live
      /\ created <= created'
  BY OnlineBounds DEF Require, Owners, Owns, OnlineTypeOK, SidOrNone
<1>3. left' = left \/ \E s \in Live : Touch(s)
  BY DEF Require
<1>4. /\ created' \in SidOrNone /\ store' \subseteq 1 .. created' /\ store' \subseteq store
      /\ left' \in [Sids -> 0 .. Ttl]
  BY <1>2, <1>3, StoreTypes
<1>5. CASE r.cookie \in Live
  <2> DEFINE r2 == [r EXCEPT !.sid = r.cookie]
  <2>1. Fits(r, created', Owners', store')
    BY <1>1, <1>2, <1>4, FitsLater
  <2>2. /\ r2 \in Requests /\ r2.op = r.op /\ r2.at = r.at /\ r2.ok = r.ok /\ r2.cookie = r.cookie
        /\ r2.seen = r.seen /\ r2.sid = r.cookie /\ r2.proj = r.proj
    BY <1>1 DEF Requests
  <2>3. req' = [req EXCEPT ![h] = Skip(r2, 0)]
    BY <1>5 DEF GoOn, Require
  <2>4. r.cookie \in 1 .. created'
    BY <1>2, <1>4, <1>5
  <2> HIDE DEF r, r2
  <2>5. Skip(r2, 0) \in Requests /\ Fits(Skip(r2, 0), created', Owners', store')
    BY <1>1, <1>2, <2>1, <2>2, <2>4, NextFits
  <2> QED
    BY <1>2, <1>4, <2>3, <2>4, <2>5, OneMoves
<1>6. CASE r.cookie \notin Live
  BY <1>2, <1>4, <1>6, OneLeaves DEF Require
<1> QED
  BY <1>4, <1>5, <1>6

LEMMA ActiveKeeps ==
    ASSUME OnlineInv, NEW h \in Handlers, ActiveSessionIds(h)
    PROVE  /\ created' \in SidOrNone /\ store' \subseteq 1 .. created' /\ left' \in [Sids -> 0 .. Ttl]
           /\ req' \in [Handlers -> Requests] /\ RequestsFit'
<1> USE DEF OnlineInv
<1> DEFINE r == req[h]
           r2 == [r EXCEPT !.snap = Live]
<1>1. /\ r \in Requests /\ r.op # "idle" /\ ~ r.ok /\ Step(r) = "active"
      /\ Fits(r, created, Owners, store) /\ r.sid \in 1 .. created
  BY AtStep DEF ActiveSessionIds
<1>2. /\ Owners' = Owners /\ created \in Nat /\ created' = created /\ store' = Live /\ left' = left
      /\ created <= created'
  BY OnlineBounds DEF ActiveSessionIds, Owners, Owns, OnlineTypeOK, SidOrNone
<1>3. /\ created' \in SidOrNone /\ store' \subseteq 1 .. created' /\ store' \subseteq store
      /\ left' \in [Sids -> 0 .. Ttl]
  BY <1>2, StoreTypes
<1>4. Live \subseteq Sids
  <2>1. created <= MaxSessions
    BY <1>2, OnlineBounds DEF OnlineTypeOK, SidOrNone
  <2> QED
    BY <1>2, <1>3, <2>1, OnlineBounds DEF Sids
<1>5. Fits(r, created', Owners', store')
  BY <1>1, <1>2, <1>3, FitsLater
<1>6. /\ r2 \in Requests /\ r2.op = r.op /\ r2.at = r.at /\ r2.ok = r.ok /\ r2.cookie = r.cookie
      /\ r2.seen = r.seen /\ r2.sid = r.sid /\ r2.proj = r.proj /\ r2.snap = Live
  BY <1>1, <1>4 DEF Requests
<1>7. req' = [req EXCEPT ![h] = Skip(r2, 0)]
  BY DEF GoOn, ActiveSessionIds
<1> HIDE DEF r, r2
<1>8. Skip(r2, 0) \in Requests /\ Fits(Skip(r2, 0), created', Owners', store')
  BY <1>1, <1>2, <1>5, <1>6, NextFits
<1> QED
  BY <1>2, <1>3, <1>7, <1>8, OneMoves

-----------------------------------------------------------------------------
(* The other steps of a request *)

\* Nothing but the request and the directories moves.
Still == UNCHANGED <<sessionVars, bootVars, bounds, projects>>

LEMMA StillKeeps ==
    ASSUME OnlineInv, Still, dir' \in [Sids -> Contents], req' \in [Handlers -> Requests], RequestsFit'
    PROVE  OnlineInv'
<1>1. OnlineTypeOK'
  BY DEF OnlineInv, OnlineTypeOK, Still, sessionVars, bootVars, bounds
<1>2. ReadyFounded'
  BY DEF OnlineInv, Still, bootVars, ReadyFounded
<1> QED
  BY <1>1, <1>2 DEF OnlineInv

LEMMA StillFacts ==
    ASSUME Still
    PROVE  created' = created /\ store' = store /\ Owners' = Owners
BY DEF Still, sessionVars, Owners, Owns

\* The operations of the store, in all.
LEMMA SessionStepKeeps ==
    ASSUME OnlineInv, NEW h \in Handlers,
           GetOrCreate(h) \/ Require(h) \/ ActiveSessionIds(h) \/ Provider(h)
    PROVE  OnlineInv'
<1>1. UNCHANGED <<bootVars, bounds, cred, dir, projects>>
  BY DEF GetOrCreate, Require, ActiveSessionIds, Provider
<1>2. /\ created' \in SidOrNone /\ store' \subseteq 1 .. created' /\ left' \in [Sids -> 0 .. Ttl]
      /\ req' \in [Handlers -> Requests] /\ RequestsFit'
  <2>1. CASE Provider(h)
    <3>1. OnlineTypeOK /\ RequestsFit /\ Owners' = Owners
      BY <1>1 DEF OnlineInv, Owners, Owns
    <3>2. CanStep(h, "provider") /\ store' = Live /\ created' = created
      BY <2>1 DEF Provider
    <3>3. left' = left \/ \E s \in Live : Touch(s)
      BY <2>1 DEF Provider
    <3>4. GoOn(h, req[h]) \/ Refuse(h)
      BY <2>1 DEF Provider, ValidateEndpoint
    <3>5. /\ created' \in SidOrNone /\ store' \subseteq 1 .. created' /\ store' \subseteq store
          /\ left' \in [Sids -> 0 .. Ttl]
      BY <3>1, <3>2, <3>3, StoreTypes
    <3> QED
      BY <3>1, <3>2, <3>4, <3>5, PlainStep
  <2> QED
    BY <2>1, GetOrCreateKeeps, RequireKeeps, ActiveKeeps
<1>3. OnlineTypeOK'
  BY <1>1, <1>2 DEF OnlineInv, OnlineTypeOK, bootVars, bounds
<1>4. ReadyFounded'
  BY <1>1 DEF OnlineInv, bootVars, ReadyFounded
<1> QED
  BY <1>2, <1>3, <1>4 DEF OnlineInv

LEMMA CredentialKeeps ==
    ASSUME OnlineInv, NEW h \in Handlers, AssignCredential(h)
    PROVE  OnlineInv'
<1>1. UNCHANGED <<bootVars, bounds, created, store, left, dir, projects>>
  BY DEF AssignCredential
<1>2. PICK step \in {"setCredential", "updateCredential", "clearCredential"} : CanStep(h, step)
  BY DEF AssignCredential
<1>3. OnlineTypeOK /\ RequestsFit /\ Owners' = Owners
  BY <1>1 DEF OnlineInv, Owners, Owns
<1>4. req' \in [Handlers -> Requests] /\ RequestsFit'
  <2>1. GoOn(h, req[h]) \/ Refuse(h)
    BY DEF AssignCredential
  <2> QED
    BY <1>1, <1>2, <1>3, <2>1, PlainStep
<1>5. cred' \subseteq Sids
  <2>1. req[h].sid \in 1 .. created
    BY <1>2, <1>3, AtStep
  <2>2. created \in Nat /\ created <= MaxSessions
    BY <1>3, OnlineBounds DEF OnlineTypeOK, SidOrNone
  <2>3. req[h].sid \in Sids
    BY <2>1, <2>2, OnlineBounds DEF Sids
  <2>4. cred \subseteq Sids
    BY <1>3 DEF OnlineTypeOK
  <2> QED
    BY <2>3, <2>4 DEF AssignCredential
<1>6. OnlineTypeOK'
  BY <1>1, <1>4, <1>5 DEF OnlineInv, OnlineTypeOK, bootVars, bounds
<1>7. ReadyFounded'
  BY <1>1 DEF OnlineInv, bootVars, ReadyFounded
<1> QED
  BY <1>4, <1>6, <1>7 DEF OnlineInv

\* The session of a request that has one.
LEMMA SidIsOne ==
    ASSUME OnlineInv, NEW h \in Handlers, NEW step, CanStep(h, step),
           step \notin {"getOrCreate", "require"}
    PROVE  req[h].sid \in Sids
<1>1. req[h].sid \in 1 .. created
  BY AtStep DEF OnlineInv
<1>2. created \in Nat /\ created <= MaxSessions
  BY OnlineBounds DEF OnlineInv, OnlineTypeOK, SidOrNone
<1> QED
  BY <1>1, <1>2, OnlineBounds DEF Sids

\* The steps on the session's directory, and the checks that only look.
Workspaces(h) ==
    \/ CleanupExpired(h) \/ Enter(h) \/ Mkdir(h) \/ CopyBaseline(h) \/ DropWorkspace(h)
    \/ RefuseArchive(h) \/ ClearForImport(h) \/ Unpack(h) \/ WriteArchive(h)
    \/ CheckOwner(h) \/ CheckUnowned(h) \/ CheckBound(h)

LEMMA DirTypes ==
    ASSUME OnlineInv, NEW h \in Handlers, Workspaces(h)
    PROVE  Still /\ dir' \in [Sids -> Contents]
<1>1. dir \in [Sids -> Contents] /\ "none" \in Contents /\ "partial" \in Contents
      /\ "baseline" \in Contents /\ "rest" \in Contents /\ Archives \subseteq Contents
  BY DEF OnlineInv, OnlineTypeOK, Contents, Revisions
<1>2. CASE CleanupExpired(h)
  BY <1>1, <1>2 DEF CleanupExpired, Still
<1>3. CASE Mkdir(h)
  BY <1>1, <1>3 DEF Mkdir, Still
<1>4. CASE CopyBaseline(h)
  BY <1>1, <1>4 DEF CopyBaseline, Filled, Still
<1>5. CASE DropWorkspace(h)
  BY <1>1, <1>5 DEF DropWorkspace, Still
<1>6. CASE ClearForImport(h)
  BY <1>1, <1>6 DEF ClearForImport, Still
<1>7. CASE Unpack(h)
  BY <1>1, <1>7 DEF Unpack, Filled, Still
<1>8. CASE Enter(h) \/ RefuseArchive(h) \/ WriteArchive(h)
  BY <1>1, <1>8 DEF Enter, RefuseArchive, WriteArchive, Still
<1>9. CASE CheckOwner(h) \/ CheckUnowned(h) \/ CheckBound(h)
  BY <1>1, <1>9 DEF CheckOwner, CheckUnowned, CheckBound, Still
<1> QED
  BY <1>2, <1>3, <1>4, <1>5, <1>6, <1>7, <1>8, <1>9 DEF Workspaces

\* A request goes on from one of the other steps, knowing as much as before or its
\* project too.
LEMMA CheckedStep ==
    ASSUME OnlineInv, Still, NEW h \in Handlers, NEW k \in {0, 2}, NEW proj \in SidOrNone,
           NEW step \in {"enter", "owner", "bound"}, CanStep(h, step),
           k = 2 => step = "enter",
           IF step = "owner" THEN proj \in Owners ELSE proj = req[h].proj,
           step = "bound" => proj = req[h].sid,
           req' = [req EXCEPT ![h] = Skip([req[h] EXCEPT !.proj = proj], k)]
    PROVE  req' \in [Handlers -> Requests] /\ RequestsFit'
<1> DEFINE r == req[h]
           r2 == [r EXCEPT !.proj = proj]
<1>1. OnlineTypeOK /\ RequestsFit /\ created \in Nat /\ created \in SidOrNone
  BY OnlineBounds DEF OnlineInv, OnlineTypeOK, SidOrNone
<1>2. /\ r \in Requests /\ r.op # "idle" /\ ~ r.ok /\ Step(r) = step
      /\ Fits(r, created, Owners, store) /\ r.sid \in 1 .. created
  BY <1>1, AtStep
<1>3. created' = created /\ store' = store /\ Owners' = Owners /\ created <= created'
  BY <1>1, StillFacts
<1>4. /\ r2 \in Requests /\ r2.op = r.op /\ r2.at = r.at /\ r2.ok = r.ok /\ r2.cookie = r.cookie
      /\ r2.seen = r.seen /\ r2.sid = r.sid /\ r2.proj = proj
  BY <1>2 DEF Requests
<1>5. req' = [req EXCEPT ![h] = Skip(r2, k)] /\ (step # "owner" => proj = r.proj)
      /\ (step = "bound" => proj = r.sid)
  OBVIOUS
<1> HIDE DEF r, r2
<1>6. Skip(r2, k) \in Requests /\ Fits(Skip(r2, k), created, Owners, store)
  BY <1>1, <1>2, <1>4, <1>5, NextFits
<1> QED
  BY <1>1, <1>3, <1>5, <1>6, OneMoves

LEMMA WorkspaceKeeps ==
    ASSUME OnlineInv, NEW h \in Handlers, Workspaces(h)
    PROVE  OnlineInv'
<1>1. Still /\ dir' \in [Sids -> Contents]
  BY DirTypes
<1>2. OnlineTypeOK /\ RequestsFit /\ created' = created /\ store' = store /\ Owners' = Owners
  BY <1>1, StillFacts DEF OnlineInv
<1>3. req[h] \in Requests /\ req[h].proj \in SidOrNone
  BY <1>2 DEF OnlineTypeOK, Requests
<1>4. [req[h] EXCEPT !.proj = req[h].proj] = req[h]
  BY <1>3 DEF Requests
<1>5. CASE Enter(h)
  <2>1. PICK k \in {0, 2} : CanStep(h, "enter") /\ req' = [req EXCEPT ![h] = Skip(req[h], k)]
    BY <1>5 DEF Enter
  <2> QED
    BY <1>1, <1>3, <1>4, <2>1, CheckedStep, StillKeeps
<1>6. CASE CheckOwner(h)
  <2>1. CASE Refuse(h)
    BY <1>1, <1>2, <2>1, OneLeaves, StillKeeps
  <2>2. CASE ~ Refuse(h)
    <3>1. CanStep(h, "owner") /\ Owns(req[h].sid) /\ GoOn(h, [req[h] EXCEPT !.proj = req[h].sid])
      BY <1>6, <2>2 DEF CheckOwner
    <3>2. req[h].sid \in Sids
      BY <3>1, SidIsOne
    <3>3. req[h].sid \in Owners /\ req[h].sid \in SidOrNone
      BY <1>3, <3>1, <3>2 DEF Owners, Requests
    <3>4. req' = [req EXCEPT ![h] = Skip([req[h] EXCEPT !.proj = req[h].sid], 0)]
      BY <3>1 DEF GoOn
    <3>5. req' \in [Handlers -> Requests] /\ RequestsFit'
      <4>1. 0 \in {0, 2} /\ 0 # 2 /\ "owner" \in {"enter", "owner", "bound"} /\ "owner" # "bound"
        OBVIOUS
      <4> QED
        BY <1>1, <3>1, <3>3, <3>4, <4>1, CheckedStep, Zenon
    <3> QED
      BY <1>1, <3>5, StillKeeps
  <2> QED
    BY <2>1, <2>2
<1>7. CASE CheckBound(h)
  <2>1. CASE Refuse(h)
    BY <1>1, <1>2, <2>1, OneLeaves, StillKeeps
  <2>2. CASE ~ Refuse(h)
    <3>1. CanStep(h, "bound") /\ req[h].proj = req[h].sid /\ GoOn(h, req[h])
      BY <1>7, <2>2 DEF CheckBound
    <3>2. req' = [req EXCEPT ![h] = Skip([req[h] EXCEPT !.proj = req[h].proj], 0)]
      BY <1>4, <3>1 DEF GoOn
    <3>3. req' \in [Handlers -> Requests] /\ RequestsFit'
      <4>1. 0 \in {0, 2} /\ 0 # 2 /\ "bound" \in {"enter", "owner", "bound"} /\ "owner" # "bound"
        OBVIOUS
      <4> QED
        BY <1>1, <1>3, <3>1, <3>2, <4>1, CheckedStep, Zenon
    <3> QED
      BY <1>1, <3>3, StillKeeps
  <2> QED
    BY <2>1, <2>2
<1>8. CASE ~ (Enter(h) \/ CheckOwner(h) \/ CheckBound(h))
  <2>1. PICK step \in {"cleanup", "mkdir", "copy", "drop", "clear", "unpack", "zip", "unowned"} :
          /\ CanStep(h, step)
          /\ GoOn(h, [req[h] EXCEPT !.snap = {}]) \/ GoOn(h, req[h]) \/ Refuse(h)
    BY <1>8 DEF Workspaces, CleanupExpired, Mkdir, CopyBaseline, DropWorkspace, RefuseArchive,
       ClearForImport, Unpack, WriteArchive, CheckUnowned
  <2> QED
    BY <1>1, <1>2, <2>1, PlainStep, StillKeeps
<1> QED
  BY <1>5, <1>6, <1>7, <1>8

LEMMA RegisterKeeps ==
    ASSUME OnlineInv, NEW h \in Handlers, RegisterProject(h)
    PROVE  OnlineInv'
<1>1. UNCHANGED <<sessionVars, bootVars, bounds, dir>> /\ CanStep(h, "register")
  BY DEF RegisterProject
<1>2. OnlineTypeOK /\ RequestsFit /\ projects \in [Sids -> Revisions \union {NoProject}]
  BY DEF OnlineInv, OnlineTypeOK
<1>3. "none" \notin Revisions
  BY ArchivesDistinct DEF Revisions
<1>4. projects' \in [Sids -> Revisions \union {NoProject}] /\ Owners \subseteq Owners'
  <2>1. CASE projects' = projects
    BY <1>2, <2>1 DEF Owners, Owns
  <2>2. CASE projects' # projects
    <3>1. projects' = [projects EXCEPT ![req[h].sid] = dir[req[h].sid]] /\ dir[req[h].sid] \in Revisions
      BY <2>2 DEF RegisterProject
    <3> QED
      BY <1>2, <1>3, <3>1 DEF Owners, Owns, NoProject
  <2> QED
    BY <2>1, <2>2
<1>5. req' \in [Handlers -> Requests] /\ RequestsFit'
  <2>1. GoOn(h, req[h]) \/ Refuse(h)
    BY DEF RegisterProject
  <2> QED
    BY <1>1, <1>2, <1>4, <2>1, PlainStep DEF sessionVars
<1>6. OnlineTypeOK'
  BY <1>1, <1>2, <1>4, <1>5 DEF OnlineTypeOK, sessionVars, bootVars, bounds
<1>7. ReadyFounded'
  BY <1>1 DEF OnlineInv, bootVars, ReadyFounded
<1> QED
  BY <1>5, <1>6, <1>7 DEF OnlineInv

\* Only a project with an understanding of its revision enters the cache.
LEMMA CacheFounded ==
    ASSUME OnlineInv, NEW s \in Sids, ReadBootstrapState(s)
    PROVE  cache' \subseteq Sids /\ \A x \in cache' : understood[x] # {}
<1>1. cache \subseteq Sids /\ \A x \in cache : understood[x] # {}
  BY DEF OnlineInv, OnlineTypeOK, ReadyFounded
<1>2. PersistedReady(s) => understood[s] # {}
  BY DEF PersistedReady
<1> QED
  BY <1>1, <1>2 DEF ReadBootstrapState

LEMMA ReportKeeps ==
    ASSUME OnlineInv, NEW h \in Handlers, ReportBootstrap(h)
    PROVE  OnlineInv'
<1>1. /\ UNCHANGED <<sessionVars, bounds, dir, projects, boot, queue, worker, understood>>
      /\ CanStep(h, "report") /\ GoOn(h, req[h]) /\ ReadBootstrapState(req[h].proj)
  BY DEF ReportBootstrap
<1>2. OnlineTypeOK /\ RequestsFit /\ Owners' = Owners
  BY <1>1 DEF OnlineInv, Owners, Owns
<1>3. req[h].proj \in Sids
  <2>1. /\ req[h] \in Requests /\ req[h].op # "idle" /\ Step(req[h]) = "report"
        /\ Fits(req[h], created, Owners, store)
    BY <1>1, <1>2, AtStep
  <2>2. Placed(req[h].op, req[h].at)
    BY <2>1, Places DEF Fits, Requests
  <2>3. PastOwner(req[h])
    BY <2>1, <2>2 DEF Placed, Step, PastOwner
  <2> QED
    BY <2>1, <2>3 DEF Fits, Owners
<1>4. cache' \subseteq Sids /\ \A x \in cache' : understood[x] # {}
  BY <1>1, <1>3, CacheFounded
<1>5. req' \in [Handlers -> Requests] /\ RequestsFit'
  BY <1>1, <1>2, PlainStep DEF sessionVars
<1>6. OnlineTypeOK'
  BY <1>1, <1>2, <1>4, <1>5 DEF OnlineTypeOK, sessionVars, bounds
<1>7. ReadyFounded'
  BY <1>1, <1>4 DEF OnlineInv, ReadyFounded
<1> QED
  BY <1>5, <1>6, <1>7 DEF OnlineInv

\* A project that waits is at the end of the queue, the others stay where they are.
LEMMA QueueGrows ==
    ASSUME NEW q \in Seq(Sids), NEW s \in Sids, NEW q2, q2 = Append(q, s)
    PROVE  /\ q2 \in Seq(Sids) /\ \E i \in DOMAIN q2 : q2[i] = s
           /\ \A x \in Sids : (\E i \in DOMAIN q : q[i] = x) => \E i \in DOMAIN q2 : q2[i] = x
<1>1. /\ q2 \in Seq(Sids) /\ DOMAIN q = 1 .. Len(q) /\ Len(q) \in Nat
      /\ DOMAIN q2 = 1 .. Len(q) + 1 /\ q2[Len(q) + 1] = s /\ \A i \in 1 .. Len(q) : q2[i] = q[i]
  OBVIOUS
<1>2. Len(q) + 1 \in 1 .. Len(q) + 1 /\ 1 .. Len(q) \subseteq 1 .. Len(q) + 1
  BY <1>1
<1> QED
  BY <1>1, <1>2

\* The head leaves, the others stay.
LEMMA QueueShrinks ==
    ASSUME NEW q \in Seq(Sids), q # <<>>
    PROVE  /\ Tail(q) \in Seq(Sids) /\ Head(q) \in Sids
           /\ \A x \in Sids : (\E i \in DOMAIN q : q[i] = x) =>
                  x = Head(q) \/ \E i \in DOMAIN Tail(q) : Tail(q)[i] = x
<1>1. /\ Tail(q) \in Seq(Sids) /\ Head(q) \in Sids /\ Head(q) = q[1] /\ Len(q) \in Nat /\ Len(q) > 0
      /\ DOMAIN q = 1 .. Len(q) /\ DOMAIN Tail(q) = 1 .. Len(q) - 1
      /\ \A i \in 1 .. Len(q) - 1 : Tail(q)[i] = q[i + 1]
  OBVIOUS
<1>2. ASSUME NEW x \in Sids, NEW i \in 1 .. Len(q), q[i] = x, x # Head(q)
      PROVE  \E j \in 1 .. Len(q) - 1 : Tail(q)[j] = x
  <2>1. i - 1 \in 1 .. Len(q) - 1 /\ (i - 1) + 1 = i
    BY <1>1, <1>2
  <2>2. Tail(q)[i - 1] = q[i]
    BY <1>1, <2>1
  <2> QED
    BY <1>2, <2>1, <2>2
<1> QED
  BY <1>1, <1>2

LEMMA ScheduleKeeps ==
    ASSUME OnlineInv, NEW h \in Handlers, ScheduleBootstrap(h)
    PROVE  OnlineInv'
<1> DEFINE s == req[h].sid
<1>1. /\ UNCHANGED <<sessionVars, bounds, dir, projects, queue, worker, understood>>
      /\ CanStep(h, "schedule") /\ ReadBootstrapState(s)
  BY DEF ScheduleBootstrap
<1>2. OnlineTypeOK /\ RequestsFit /\ Owners' = Owners
  BY <1>1 DEF OnlineInv, Owners, Owns
<1>3. s \in Sids
  BY <1>1, SidIsOne
<1>4. cache' \subseteq Sids /\ \A x \in cache' : understood[x] # {}
  BY <1>1, <1>3, CacheFounded
<1>5. req' \in [Handlers -> Requests] /\ RequestsFit'
  <2>1. CASE GoOn(h, req[h])
    BY <1>1, <1>2, <2>1, PlainStep DEF sessionVars
  <2>2. CASE req' = [req EXCEPT ![h] = Skip(req[h], 1)]
    <3> DEFINE r == req[h]
               r2 == [r EXCEPT !.ok = TRUE]
    <3>1. /\ r \in Requests /\ r.op # "idle" /\ ~ r.ok /\ Step(r) = "schedule"
          /\ Fits(r, created, Owners, store) /\ r.sid \in 1 .. created
      BY <1>1, <1>2, AtStep
    <3>2. r.op = "import" /\ r.at = 8 /\ Len(Program[r.op]) = 9
      <4>1. Placed(r.op, r.at)
        BY <3>1, Places DEF Fits, Requests
      <4> QED
        BY <3>1, <4>1, ImportSteps DEF Placed, Step
    <3>3. Skip(r, 1) = r2
      BY <3>2 DEF Skip
    <3>4. /\ r2 \in Requests /\ r2.op = r.op /\ r2.at = r.at /\ r2.cookie = r.cookie /\ r2.sid = r.sid
          /\ r2.seen = r.seen /\ r2.ok = TRUE
      BY <3>1 DEF Requests
    <3>5. req' = [req EXCEPT ![h] = r2]
      BY <2>2, <3>3
    <3> HIDE DEF r, r2
    <3>6. Fits(r2, created, Owners, store)
      <4>1. ~ PastOwner(r2)
        BY <3>2, <3>4 DEF PastOwner
      <4>2. r.seen <= created /\ r.cookie <= created
        BY <3>1 DEF Fits
      <4>3. r2.at \in 1 .. Len(Program[r2.op]) /\ r2.at > 1 /\ r2.op = "import"
        <5>1. r2.op = "import" /\ r2.at = 8 /\ Len(Program[r2.op]) = 9
          BY <3>2, <3>4, Zenon
        <5>2. 8 \in 1 .. 9 /\ 8 > 1
          OBVIOUS
        <5> QED
          BY <5>1, <5>2, Zenon
      <4>4. r2.seen <= created /\ r2.cookie <= created /\ r2.sid \in 1 .. created
        BY <3>1, <3>4, <4>2
      <4> QED
        BY <3>4, <4>1, <4>3, <4>4 DEF Fits
    <3>7. /\ created \in SidOrNone /\ created \in Nat /\ created' = created /\ store' = store
          /\ created <= created'
      BY <1>1, <1>2, OnlineBounds DEF OnlineTypeOK, SidOrNone, sessionVars
    <3> QED
      BY <1>2, <3>4, <3>5, <3>6, <3>7, OneMoves
  <2> QED
    BY <2>1, <2>2 DEF ScheduleBootstrap
<1>6. boot' = boot \/ boot' = [boot EXCEPT ![s] = "BOOTSTRAPPING"]
  BY DEF ScheduleBootstrap
<1>7. boot' \in [Sids -> BootStates] /\ \A x \in Sids : boot'[x] = "READY" => boot[x] = "READY"
  BY <1>2, <1>3, <1>6 DEF OnlineTypeOK, BootStates
<1>8. OnlineTypeOK'
  BY <1>1, <1>2, <1>4, <1>5, <1>7 DEF OnlineTypeOK, sessionVars, bounds
<1>9. ReadyFounded'
  BY <1>1, <1>4, <1>7 DEF OnlineInv, ReadyFounded
<1> QED
  BY <1>5, <1>8, <1>9 DEF OnlineInv

LEMMA SubmitKeeps ==
    ASSUME OnlineInv, NEW h \in Handlers, SubmitBootstrap(h)
    PROVE  OnlineInv'
<1>1. /\ UNCHANGED <<sessionVars, bounds, dir, projects, boot, worker, understood, cache>>
      /\ CanStep(h, "submit") /\ GoOn(h, req[h]) /\ queue' = Append(queue, req[h].sid)
  BY DEF SubmitBootstrap
<1>2. OnlineTypeOK /\ RequestsFit /\ Owners' = Owners
  BY <1>1 DEF OnlineInv, Owners, Owns
<1>3. req' \in [Handlers -> Requests] /\ RequestsFit'
  BY <1>1, <1>2, PlainStep DEF sessionVars
<1>4. queue' \in Seq(Sids)
  <2>1. req[h].sid \in Sids
    BY <1>1, SidIsOne
  <2> QED
    BY <1>1, <1>2, <2>1 DEF OnlineTypeOK
<1>5. OnlineTypeOK'
  BY <1>1, <1>2, <1>3, <1>4 DEF OnlineTypeOK, sessionVars, bounds
<1>6. ReadyFounded'
  BY <1>1 DEF OnlineInv, ReadyFounded
<1> QED
  BY <1>3, <1>5, <1>6 DEF OnlineInv

-----------------------------------------------------------------------------
(* The bootstrap thread, clients, time and restarts *)

\* The steps of the bootstrap thread.
LEMMA BootstrapKeeps ==
    ASSUME OnlineInv, Bootstrap
    PROVE  OnlineInv'
<1>1. UNCHANGED <<sessionVars, bounds, dir, projects, cache, req>>
  BY DEF Bootstrap, RunBootstrap, PublishBootstrap
<1>2. /\ boot \in [Sids -> BootStates] /\ queue \in Seq(Sids) /\ cache \subseteq Sids
      /\ worker \in [sid : Sids, state : {"READY", "BOOTSTRAP_FAILED"}] \union {NoWork}
      /\ understood \in [Sids -> SUBSET Revisions] /\ ReadyFounded
  BY DEF OnlineInv, OnlineTypeOK
<1>3. RequestsFit'
  BY <1>1 DEF OnlineInv, RequestsFit, sessionVars, Owners, Owns
<1>4. CASE RunBootstrap
  <2> DEFINE s == Head(queue)
  <2>1. /\ worker = NoWork /\ queue # <<>> /\ queue' = Tail(queue) /\ boot' = boot
        /\ \/ /\ dir[s] \in Revisions
              /\ understood' = [understood EXCEPT ![s] = @ \union {dir[s]}]
              /\ worker' = [sid |-> s, state |-> "READY"]
           \/ worker' = [sid |-> s, state |-> "BOOTSTRAP_FAILED"] /\ understood' = understood
    BY <1>4 DEF RunBootstrap
  <2>2. /\ queue' \in Seq(Sids) /\ s \in Sids
        /\ \A x \in Sids : (\E i \in DOMAIN queue : queue[i] = x) =>
               x = s \/ \E i \in DOMAIN queue' : queue'[i] = x
    BY <1>2, <2>1, QueueShrinks
  <2> HIDE DEF s
  <2>3. /\ worker' \in [sid : Sids, state : {"READY", "BOOTSTRAP_FAILED"}] /\ worker'.sid = s
        /\ understood' \in [Sids -> SUBSET Revisions]
        /\ \A x \in Sids : understood[x] # {} => understood'[x] # {}
        /\ worker'.state = "READY" => understood'[s] # {}
    <3>1. CASE worker' = [sid |-> s, state |-> "BOOTSTRAP_FAILED"] /\ understood' = understood
      BY <1>2, <2>2, <3>1
    <3>2. CASE /\ dir[s] \in Revisions /\ worker' = [sid |-> s, state |-> "READY"]
               /\ understood' = [understood EXCEPT ![s] = @ \union {dir[s]}]
      <4>1. /\ understood' \in [Sids -> SUBSET Revisions] /\ understood'[s] = understood[s] \union {dir[s]}
            /\ \A x \in Sids : x # s => understood'[x] = understood[x]
        BY <1>2, <2>2, <3>2
      <4> QED
        BY <2>2, <3>2, <4>1
    <3> QED
      BY <2>1, <3>1, <3>2
  <2>4. OnlineTypeOK'
    BY <1>1, <2>1, <2>2, <2>3 DEF OnlineInv, OnlineTypeOK, sessionVars, bounds
  <2>5. ReadyFounded'
    BY <1>1, <1>2, <2>1, <2>2, <2>3 DEF ReadyFounded
  <2> QED
    BY <1>3, <2>4, <2>5 DEF OnlineInv
<1>5. CASE PublishBootstrap
  <2>1. /\ worker # NoWork /\ boot' = [boot EXCEPT ![worker.sid] = worker.state] /\ worker' = NoWork
        /\ queue' = queue /\ understood' = understood
    BY <1>5 DEF PublishBootstrap
  <2>2. worker.sid \in Sids /\ worker.state \in {"READY", "BOOTSTRAP_FAILED"}
    BY <1>2, <2>1
  <2>3. /\ boot' \in [Sids -> BootStates] /\ boot'[worker.sid] = worker.state
        /\ \A x \in Sids : x # worker.sid => boot'[x] = boot[x]
    BY <1>2, <2>1, <2>2 DEF BootStates
  <2>4. OnlineTypeOK'
    BY <1>1, <2>1, <2>3 DEF OnlineInv, OnlineTypeOK, sessionVars, bounds
  <2>5. ReadyFounded'
    BY <1>1, <1>2, <2>1, <2>2, <2>3 DEF ReadyFounded, NoWork
  <2> QED
    BY <1>3, <2>4, <2>5 DEF OnlineInv
<1> QED
  BY <1>4, <1>5 DEF Bootstrap

LEMMA ClientKeeps ==
    ASSUME OnlineInv, NEW h \in Handlers, Begin(h) \/ Finish(h)
    PROVE  OnlineInv'
<1>1. /\ UNCHANGED <<sessionVars, bootVars, dir, projects, restarts>> /\ Owners' = Owners
      /\ OnlineTypeOK /\ RequestsFit
  BY DEF OnlineInv, Begin, Finish, bounds, Owners, Owns
<1>2. created \in Nat /\ created \in SidOrNone /\ created' = created /\ store' = store
      /\ created <= created'
  BY <1>1, OnlineBounds DEF OnlineTypeOK, SidOrNone, sessionVars
<1>3. begun' \in 0 .. MaxRequests
  <2>1. begun' = begun \/ (begun < MaxRequests /\ begun' = begun + 1)
    BY DEF Begin, Finish, bounds
  <2>2. begun \in 0 .. MaxRequests
    BY <1>1 DEF OnlineTypeOK
  <2> QED
    BY <2>1, <2>2, OnlineBounds
<1>4. req' \in [Handlers -> Requests] /\ RequestsFit'
  <2>1. CASE Finish(h)
    BY <1>1, <1>2, <2>1, OneLeaves DEF Finish, Refuse
  <2>2. CASE Begin(h)
    <3>1. PICK op \in Calls[h], c \in 0 .. created :
            req' = [req EXCEPT ![h] = [Idle EXCEPT !.op = op, !.at = 1, !.cookie = c, !.seen = created]]
      BY <2>2 DEF Begin
    <3> DEFINE r == [Idle EXCEPT !.op = op, !.at = 1, !.cookie = c, !.seen = created]
    <3>2. op \in Ops /\ c \in SidOrNone /\ c <= created
      BY <1>2, CallsType, OnlineBounds DEF SidOrNone
    <3>3. /\ r.op = op /\ r.at = 1 /\ r.cookie = c /\ r.seen = created /\ r.ok = FALSE
          /\ r \in Requests
      <4>1. Idle \in Requests
        BY IdleFits
      <4>2. Idle.ok = FALSE
        BY DEF Idle
      <4>3. 1 \in 0 .. 12
        OBVIOUS
      <4> QED
        BY <1>2, <3>2, <4>1, <4>2, <4>3 DEF Requests
    <3>4. op # "idle" /\ Len(Program[op]) \in 2 .. 12 /\ Program[op][1] # "cleanup"
      BY <3>2, OpsAre, CredentialSteps, WorkspaceSteps, ImportSteps, ExportSteps, BootstrapSteps,
         ReadySteps
    <3>5. 1 \in 1 .. Len(Program[op])
      BY <3>4
    <3> HIDE DEF r
    <3>6. Fits(r, created, Owners, store)
      BY <1>2, <3>2, <3>3, <3>4, <3>5 DEF Fits, PastOwner, Step
    <3>7. req' = [req EXCEPT ![h] = r]
      BY <3>1 DEF r
    <3> QED
      BY <1>1, <1>2, <3>3, <3>6, <3>7, OneMoves
  <2> QED
    BY <2>1, <2>2
<1>5. OnlineTypeOK'
  BY <1>1, <1>3, <1>4 DEF OnlineTypeOK, sessionVars, bootVars
<1>6. ReadyFounded'
  BY <1>1 DEF OnlineInv, bootVars, ReadyFounded
<1> QED
  BY <1>4, <1>5, <1>6 DEF OnlineInv

LEMMA TickKeeps ==
    ASSUME OnlineInv, Tick
    PROVE  OnlineInv'
<1>1. /\ left' = [s \in Sids |-> IF left[s] > 0 THEN left[s] - 1 ELSE 0]
      /\ UNCHANGED <<bootVars, bounds, created, store, cred, dir, projects, req>>
  BY DEF Tick
<1>2. left' \in [Sids -> 0 .. Ttl]
  <2>1. \A s \in Sids : left[s] \in 0 .. Ttl
    BY DEF OnlineInv, OnlineTypeOK
  <2>2. \A n \in 0 .. Ttl : (IF n > 0 THEN n - 1 ELSE 0) \in 0 .. Ttl
    BY OnlineBounds
  <2> QED
    BY <1>1, <2>1, <2>2
<1>3. OnlineTypeOK'
  BY <1>1, <1>2 DEF OnlineInv, OnlineTypeOK, bootVars, bounds
<1>4. RequestsFit'
  BY <1>1 DEF OnlineInv, RequestsFit, Owners, Owns
<1>5. ReadyFounded'
  BY <1>1 DEF OnlineInv, bootVars, ReadyFounded
<1> QED
  BY <1>3, <1>4, <1>5 DEF OnlineInv

LEMMA RestartKeeps ==
    ASSUME OnlineInv, Restart
    PROVE  OnlineInv'
<1>1. OnlineTypeOK'
  <2>1. 0 \in 0 .. Ttl /\ <<>> \in Seq(Sids) /\ restarts' \in 0 .. MaxRestarts
    BY OnlineBounds DEF OnlineInv, OnlineTypeOK, Restart
  <2>2. Idle \in Requests
    BY IdleFits
  <2> QED
    BY <2>1, <2>2 DEF OnlineInv, OnlineTypeOK, Restart, BootStates
<1>2. RequestsFit'
  BY IdleFits DEF RequestsFit, Restart
<1>3. ReadyFounded'
  BY DEF Restart, ReadyFounded, NoWork
<1> QED
  BY <1>1, <1>2, <1>3 DEF OnlineInv

LEMMA OnlineInitInv == OnlineInit => OnlineInv
<1> SUFFICES ASSUME OnlineInit PROVE OnlineInv
  OBVIOUS
<1>1. OnlineTypeOK
  <2>1. 0 \in 0 .. Ttl /\ <<>> \in Seq(Sids) /\ 0 \in SidOrNone /\ 0 \in 0 .. MaxRequests
        /\ 0 \in 0 .. MaxRestarts
    BY OnlineBounds DEF SidOrNone
  <2>2. Idle \in Requests
    BY IdleFits
  <2> QED
    BY <2>1, <2>2 DEF OnlineTypeOK, OnlineInit, BootStates, Contents, Revisions
<1>2. RequestsFit
  BY IdleFits DEF RequestsFit, OnlineInit
<1>3. ReadyFounded
  BY DEF OnlineInit, ReadyFounded, NoWork
<1> QED
  BY <1>1, <1>2, <1>3 DEF OnlineInv

LEMMA OnlineStep == OnlineInv /\ [OnlineNext]_vars => OnlineInv'
<1> SUFFICES ASSUME OnlineInv, [OnlineNext]_vars PROVE OnlineInv'
  OBVIOUS
<1>1. ASSUME NEW h \in Handlers, Begin(h) \/ HandlerStep(h) \/ Finish(h) PROVE OnlineInv'
  BY <1>1, ClientKeeps, SessionStepKeeps, CredentialKeeps, WorkspaceKeeps, RegisterKeeps, ReportKeeps,
     ScheduleKeeps, SubmitKeeps DEF HandlerStep, Workspaces
<1>2. CASE Bootstrap \/ Tick \/ Restart
  BY <1>2, BootstrapKeeps, TickKeeps, RestartKeeps
<1>3. CASE UNCHANGED vars
  <2>1. OnlineTypeOK'
    BY <1>3 DEF vars, OnlineInv, OnlineTypeOK
  <2>2. RequestsFit'
    BY <1>3 DEF vars, OnlineInv, RequestsFit, Owners, Owns
  <2>3. ReadyFounded'
    BY <1>3 DEF vars, OnlineInv, ReadyFounded
  <2> QED
    BY <2>1, <2>2, <2>3 DEF OnlineInv
<1> QED
  BY <1>1, <1>2, <1>3 DEF OnlineNext

LEMMA OnlineInvariance == OnlineSpec => []OnlineInv
BY OnlineInitInv, OnlineStep, PTL DEF OnlineSpec

-----------------------------------------------------------------------------
(* Theorems *)

\* The session store, the directories, the tables, the executor and the requests keep
\* their types (runtime/online_sessions.py,
\* runtime/online_workspaces.py, api/projects.py).
THEOREM OnlineTypeCorrect == OnlineSpec => []OnlineTypeOK
<1>1. OnlineInv => OnlineTypeOK
  BY DEF OnlineInv
<1> QED
  BY <1>1, OnlineInvariance, PTL

\* An export, and a request that passes the readiness gate, has its project, its
\* workspace and its provider from one session, whatever expired or was created between
\* its look-ups (api/projects.py, api/online_readiness.py).
THEOREM AnswersFromOneSession == OnlineSpec => []OneSessionBehindAnswer
<1>1. OnlineInv => OneSessionBehindAnswer
  <2> SUFFICES ASSUME OnlineInv, NEW h \in Handlers, req[h].op \in {"export", "ready"}, req[h].ok
               PROVE  /\ req[h].proj = req[h].sid /\ Owns(req[h].proj)
                      /\ req[h].op = "ready" => req[h].cookie = req[h].proj
    BY DEF OneSessionBehindAnswer
  <2>1. Fits(req[h], created, Owners, store) /\ req[h] \in Requests
    BY DEF OnlineInv, RequestsFit, OnlineTypeOK
  <2>2. req[h].op = "export" => req[h].at > 11 /\ req[h].proj = req[h].sid
    BY <2>1 DEF Fits
  <2>3. req[h].op = "ready" => req[h].at > 7 /\ req[h].proj = req[h].sid /\ req[h].sid = req[h].cookie
    BY <2>1 DEF Fits
  <2>4. PastOwner(req[h])
    <3>1. req[h].at \in Nat
      BY <2>1 DEF Requests
    <3> QED
      BY <2>2, <2>3, <3>1 DEF PastOwner
  <2>5. req[h].proj \in Owners
    BY <2>1, <2>4 DEF Fits
  <2> QED
    BY <2>2, <2>3, <2>5 DEF Owners
<1> QED
  BY <1>1, OnlineInvariance, PTL

\* The service calls a project ready only if a bootstrap has committed an understanding
\* of it, through the cache, the table and the state (_bootstrap_state, _run_bootstrap).
THEOREM ReadyIsUnderstood == OnlineSpec => []ReadyWasUnderstood
<1>1. OnlineInv => ReadyWasUnderstood
  BY DEF OnlineInv, ReadyFounded, ReadyWasUnderstood, ReportReady, PersistedReady
<1> QED
  BY <1>1, OnlineInvariance, PTL

\* A request that is not submitting a bootstrap takes a step: the others still are.
LEMMA OthersSubmit ==
    ASSUME OnlineTypeOK, NEW h \in Handlers, NEW r, req' = [req EXCEPT ![h] = r], ~ At(h, "submit"),
           NEW s, Submitting(s)
    PROVE  Submitting(s)'
<1>1. PICK g \in Handlers : At(g, "submit") /\ req[g].sid = s
  BY DEF Submitting
<1>2. req'[g] = req[g]
  BY <1>1 DEF OnlineTypeOK
<1>3. At(g, "submit")' /\ req'[g].sid = s
  BY <1>1, <1>2 DEF At, Running
<1> QED
  BY <1>3 DEF Submitting

\* The steps of a request that neither schedules nor submits a bootstrap.
LEMMA OtherSteps ==
    ASSUME NEW h \in Handlers, Begin(h) \/ HandlerStep(h) \/ Finish(h),
           ~ ScheduleBootstrap(h), ~ SubmitBootstrap(h)
    PROVE  /\ ~ At(h, "submit") /\ UNCHANGED <<boot, queue, worker>>
           /\ \E r : req' = [req EXCEPT ![h] = r]
<1>1. CASE Begin(h) \/ Finish(h)
  BY <1>1 DEF Begin, Finish, At, Running, bootVars
<1>2. CASE GetOrCreate(h) \/ Require(h) \/ ActiveSessionIds(h)
  BY <1>2 DEF GetOrCreate, Require, ActiveSessionIds, CanStep, At, bootVars, GoOn, Refuse
<1>3. CASE AssignCredential(h) \/ Provider(h)
  BY <1>3 DEF AssignCredential, Provider, ValidateEndpoint, CanStep, At, bootVars, GoOn, Refuse
<1>4. CASE Workspaces(h)
  <2>1. UNCHANGED bootVars
    BY <1>4 DEF Workspaces, CleanupExpired, Enter, Mkdir, CopyBaseline, DropWorkspace, RefuseArchive,
       ClearForImport, Unpack, WriteArchive, CheckOwner, CheckUnowned, CheckBound
  <2>2. ~ At(h, "submit")
    BY <1>4 DEF Workspaces, CleanupExpired, Enter, Mkdir, CopyBaseline, DropWorkspace, RefuseArchive,
       ClearForImport, Unpack, WriteArchive, CheckOwner, CheckUnowned, CheckBound, CanStep, At
  <2>3. \E r : req' = [req EXCEPT ![h] = r]
    BY <1>4 DEF Workspaces, CleanupExpired, Enter, Mkdir, CopyBaseline, DropWorkspace, RefuseArchive,
       ClearForImport, Unpack, WriteArchive, CheckOwner, CheckUnowned, CheckBound, GoOn, Refuse
  <2> QED
    BY <2>1, <2>2, <2>3 DEF bootVars
<1>5. CASE RegisterProject(h) \/ ReportBootstrap(h)
  BY <1>5 DEF RegisterProject, ReportBootstrap, CanStep, At, bootVars, GoOn, Refuse
<1> QED
  BY <1>1, <1>2, <1>3, <1>4, <1>5 DEF HandlerStep, Workspaces

\* The state is set by the request that will submit the job.
LEMMA ScheduleLosesNone ==
    ASSUME OnlineInv, NoLostBootstrap, NEW h \in Handlers, ScheduleBootstrap(h)
    PROVE  NoLostBootstrap'
<1> DEFINE s == req[h].sid
<1>1. CanStep(h, "schedule") /\ queue' = queue /\ worker' = worker /\ OnlineTypeOK /\ RequestsFit
  BY DEF ScheduleBootstrap, OnlineInv
<1>2. \E r : req' = [req EXCEPT ![h] = r]
  BY DEF ScheduleBootstrap, GoOn
<1>3. ~ At(h, "submit")
  BY <1>1 DEF CanStep, At
<1>4. \A x \in Sids : Submitting(x) => Submitting(x)'
  BY <1>1, <1>2, <1>3, OthersSubmit
<1>5. CASE boot' = boot
  BY <1>1, <1>4, <1>5 DEF NoLostBootstrap, Submitting
<1>6. CASE boot' = [boot EXCEPT ![s] = "BOOTSTRAPPING"] /\ GoOn(h, req[h])
  <2>1. /\ req[h] \in Requests /\ req[h].op # "idle" /\ ~ req[h].ok /\ Step(req[h]) = "schedule"
        /\ Fits(req[h], created, Owners, store)
    BY <1>1, AtStep
  <2>2. req[h].op = "import" /\ req[h].at = 8
    <3>1. Placed(req[h].op, req[h].at)
      BY <2>1, Places DEF Fits, Requests
    <3> QED
      BY <2>1, <3>1 DEF Placed, Step
  <2>3. req'[h] = [req[h] EXCEPT !.at = 9]
    <3>1. Skip(req[h], 0) = [req[h] EXCEPT !.at = 9]
      BY <2>1, <2>2, ImportSteps DEF Skip, Requests
    <3> QED
      BY <1>1, <1>6, <3>1 DEF GoOn, OnlineTypeOK
  <2>4. req'[h].op = "import" /\ req'[h].at = 9 /\ ~ req'[h].ok /\ req'[h].sid = s
    BY <2>1, <2>2, <2>3 DEF Requests
  <2>5. At(h, "submit")' /\ req'[h].sid = s
    BY <2>4, ImportSteps DEF At, Running
  <2>6. \A x \in Sids : x # s => boot'[x] = boot[x]
    BY <1>1, <1>6 DEF OnlineTypeOK
  <2> HIDE DEF s
  <2>7. ASSUME NEW x \in Sids, boot'[x] = "BOOTSTRAPPING"
        PROVE  Submitting(x)' \/ worker'.sid = x \/ \E i \in DOMAIN queue' : queue'[i] = x
    <3>1. CASE x = s
      BY <2>5, <3>1 DEF Submitting
    <3>2. CASE x # s
      BY <1>1, <1>4, <2>6, <2>7, <3>2 DEF NoLostBootstrap, Submitting
    <3> QED
      BY <3>1, <3>2
  <2> QED
    BY <2>7 DEF NoLostBootstrap, Submitting
<1> QED
  BY <1>5, <1>6 DEF ScheduleBootstrap

LEMMA SubmitLosesNone ==
    ASSUME OnlineInv, NoLostBootstrap, NEW h \in Handlers, SubmitBootstrap(h)
    PROVE  NoLostBootstrap'
<1> DEFINE s == req[h].sid
<1>1. /\ CanStep(h, "submit") /\ queue' = Append(queue, s) /\ worker' = worker /\ boot' = boot
      /\ req' = [req EXCEPT ![h] = Skip(req[h], 0)]
  BY DEF SubmitBootstrap, GoOn
<1>2. s \in Sids /\ queue \in Seq(Sids) /\ req \in [Handlers -> Requests]
  BY <1>1, SidIsOne DEF OnlineInv, OnlineTypeOK
<1> HIDE DEF s
<1>3. /\ \E i \in DOMAIN queue' : queue'[i] = s
      /\ \A x \in Sids : (\E i \in DOMAIN queue : queue[i] = x) => \E i \in DOMAIN queue' : queue'[i] = x
  BY <1>1, <1>2, QueueGrows
<1>4. ASSUME NEW x \in Sids, x # s, Submitting(x) PROVE Submitting(x)'
  <2>1. PICK g \in Handlers : At(g, "submit") /\ req[g].sid = x
    BY <1>4 DEF Submitting
  <2>2. req'[g] = req[g]
    BY <1>1, <1>2, <1>4, <2>1 DEF s
  <2>3. At(g, "submit")' /\ req'[g].sid = x
    BY <2>1, <2>2 DEF At, Running
  <2> QED
    BY <2>3 DEF Submitting
<1> QED
  BY <1>1, <1>3, <1>4 DEF NoLostBootstrap, Submitting

\* The head of the queue goes to the thread, and the thread publishes what becomes of it.
LEMMA BootstrapLosesNone ==
    ASSUME OnlineInv, NoLostBootstrap, Bootstrap
    PROVE  NoLostBootstrap'
<1>1. req' = req
  BY DEF Bootstrap, RunBootstrap, PublishBootstrap
<1>2. \A x \in Sids : Submitting(x) => Submitting(x)'
  BY <1>1 DEF Submitting, At, Running
<1>3. /\ boot \in [Sids -> BootStates] /\ queue \in Seq(Sids)
      /\ worker \in [sid : Sids, state : {"READY", "BOOTSTRAP_FAILED"}] \union {NoWork}
  BY DEF OnlineInv, OnlineTypeOK
<1>4. CASE RunBootstrap
  <2>1. /\ worker = NoWork /\ queue # <<>> /\ queue' = Tail(queue) /\ boot' = boot
        /\ worker'.sid = Head(queue)
    BY <1>4 DEF RunBootstrap
  <2>2. \A x \in Sids : (\E i \in DOMAIN queue : queue[i] = x) =>
            x = Head(queue) \/ \E i \in DOMAIN queue' : queue'[i] = x
    BY <1>3, <2>1, QueueShrinks
  <2>3. \A x \in Sids : worker.sid # x
    BY <2>1 DEF NoWork, NoSid, Sids
  <2> QED
    BY <1>2, <2>1, <2>2, <2>3 DEF NoLostBootstrap, Submitting
<1>5. CASE PublishBootstrap
  <2>1. worker # NoWork /\ boot' = [boot EXCEPT ![worker.sid] = worker.state] /\ queue' = queue
    BY <1>5 DEF PublishBootstrap
  <2>2. /\ boot'[worker.sid] # "BOOTSTRAPPING" /\ \A x \in Sids : x # worker.sid => boot'[x] = boot[x]
    BY <1>3, <2>1
  <2> QED
    BY <1>2, <2>1, <2>2 DEF NoLostBootstrap, Submitting
<1> QED
  BY <1>4, <1>5 DEF Bootstrap

\* A project shown as BOOTSTRAPPING is with the request that set the state, in the
\* executor's queue or in its thread's hands (_schedule_bootstrap, _run_bootstrap).
THEOREM NoBootstrapLost == OnlineSpec => []NoLostBootstrap
<1>1. OnlineInit => NoLostBootstrap
  BY DEF OnlineInit, NoLostBootstrap
<1>2. ASSUME OnlineInv, NoLostBootstrap, [OnlineNext]_vars PROVE NoLostBootstrap'
  <2>1. ASSUME NEW h \in Handlers, Begin(h) \/ HandlerStep(h) \/ Finish(h) PROVE NoLostBootstrap'
    <3>1. CASE ScheduleBootstrap(h) \/ SubmitBootstrap(h)
      BY <1>2, <3>1, ScheduleLosesNone, SubmitLosesNone
    <3>2. CASE ~ ScheduleBootstrap(h) /\ ~ SubmitBootstrap(h)
      <4>1. /\ ~ At(h, "submit") /\ UNCHANGED <<boot, queue, worker>>
            /\ \E r : req' = [req EXCEPT ![h] = r]
        BY <2>1, <3>2, OtherSteps
      <4>2. \A x \in Sids : Submitting(x) => Submitting(x)'
        BY <1>2, <4>1, OthersSubmit DEF OnlineInv
      <4> QED
        BY <1>2, <4>1, <4>2 DEF NoLostBootstrap, Submitting
    <3> QED
      BY <3>1, <3>2
  <2>2. CASE Bootstrap
    BY <1>2, <2>2, BootstrapLosesNone
  <2>3. CASE Tick \/ UNCHANGED vars
    <3>1. UNCHANGED <<boot, queue, worker, req>>
      BY <2>3 DEF Tick, vars, bootVars
    <3> QED
      BY <1>2, <3>1 DEF NoLostBootstrap, At, Running
  <2>4. CASE Restart
    BY <2>4 DEF Restart, NoLostBootstrap
  <2> QED
    BY <1>2, <2>1, <2>2, <2>3, <2>4 DEF OnlineNext
<1> QED
  BY <1>1, <1>2, OnlineInvariance, PTL DEF OnlineSpec

\* A step takes the directory of a session away only for a request of that session, or
\* for one that began before the session.
LEMMA QuietStep ==
    ASSUME OnlineInv, [OnlineNext]_vars, NEW s \in store, Quiet(s)
    PROVE  dir'[s] = dir[s]
<1>1. s \in Sids /\ dir \in [Sids -> Contents]
  <2>1. created \in Nat /\ created <= MaxSessions /\ s \in 1 .. created
    BY OnlineBounds DEF OnlineInv, OnlineTypeOK, SidOrNone
  <2> QED
    BY <2>1, OnlineBounds DEF Sids, OnlineInv, OnlineTypeOK
<1>2. ASSUME NEW h \in Handlers, CleanupExpired(h) PROVE dir'[s] = dir[s]
  <2>1. /\ CanStep(h, "cleanup")
        /\ \/ dir' = [x \in Sids |-> IF x \in req[h].snap THEN dir[x] ELSE "none"]
           \/ \E S \in SUBSET (Sids \ req[h].snap) :
                 dir' = [x \in Sids |-> IF x \in S THEN "none" ELSE dir[x]]
    BY <1>2 DEF CleanupExpired
  <2>2. /\ req[h].op # "idle" /\ ~ req[h].ok /\ Step(req[h]) = "cleanup"
        /\ Fits(req[h], created, Owners, store)
    BY <2>1, AtStep DEF OnlineInv
  <2>3. s <= req[h].seen
    BY <2>2 DEF Quiet, Running
  <2>4. s \in req[h].snap
    BY <2>2, <2>3 DEF Fits
  <2> QED
    BY <1>1, <2>1, <2>4
<1>3. ASSUME NEW h \in Handlers,
             Mkdir(h) \/ CopyBaseline(h) \/ DropWorkspace(h) \/ ClearForImport(h) \/ Unpack(h)
      PROVE  dir'[s] = dir[s]
  <2>1. dir' = dir \/ \E c : dir' = [dir EXCEPT ![req[h].sid] = c]
    BY <1>3 DEF Mkdir, CopyBaseline, DropWorkspace, ClearForImport, Unpack
  <2>2. req[h].sid # s
    BY <1>3 DEF Mkdir, CopyBaseline, DropWorkspace, ClearForImport, Unpack, CanStep, At, Quiet
  <2> QED
    BY <1>1, <2>1, <2>2
<1>4. ASSUME NEW h \in Handlers,
             ~ (\/ CleanupExpired(h) \/ Mkdir(h) \/ CopyBaseline(h) \/ DropWorkspace(h)
                \/ ClearForImport(h) \/ Unpack(h)),
             Begin(h) \/ HandlerStep(h) \/ Finish(h)
      PROVE  dir'[s] = dir[s]
  <2>1. CASE Begin(h) \/ Finish(h)
    BY <2>1 DEF Begin, Finish
  <2>2. CASE GetOrCreate(h) \/ Require(h) \/ ActiveSessionIds(h) \/ AssignCredential(h) \/ Provider(h)
    BY <2>2 DEF GetOrCreate, Require, ActiveSessionIds, AssignCredential, Provider
  <2>3. CASE Enter(h) \/ RefuseArchive(h) \/ WriteArchive(h) \/ CheckOwner(h) \/ CheckUnowned(h)
    BY <2>3 DEF Enter, RefuseArchive, WriteArchive, CheckOwner, CheckUnowned
  <2>4. CASE RegisterProject(h) \/ ReportBootstrap(h) \/ ScheduleBootstrap(h) \/ SubmitBootstrap(h)
             \/ CheckBound(h)
    BY <2>4 DEF RegisterProject, ReportBootstrap, ScheduleBootstrap, SubmitBootstrap, CheckBound
  <2> QED
    BY <1>4, <2>1, <2>2, <2>3, <2>4 DEF HandlerStep
<1>5. CASE Bootstrap \/ Tick \/ Restart \/ UNCHANGED vars
  BY <1>5 DEF Bootstrap, RunBootstrap, PublishBootstrap, Tick, Restart, vars
<1> QED
  BY <1>2, <1>3, <1>4, <1>5 DEF OnlineNext

\* The requests of others never take the workspace of a session in the store away: the
\* snapshot that cleanup_expired() works from may be out of date, but it has every session
\* older than the request that is still there.
THEOREM QuietWorkspaces == OnlineSpec => QuietWorkspaceSurvives
<1> DEFINE Survives == \A s \in store : Quiet(s) /\ dir[s] # "none" => dir'[s] = dir[s]
<1>1. OnlineInv /\ [OnlineNext]_vars => Survives
  BY QuietStep
<1> QED
  BY <1>1, OnlineInvariance, PTL DEF OnlineSpec, QuietWorkspaceSurvives
=============================================================================
