--------------------------- MODULE WorkbenchProofs ---------------------------
(***************************************************************************)
(* What holds of Workbench for any number of tasks, requests, versions,    *)
(* messages and crashes, and in particular that it implements              *)
(* Conversation.                                                           *)
(***************************************************************************)
EXTENDS Workbench, TLAPS

RequestNumbers == 1 .. MaxRequests
VersionNumbers == 0 .. MaxVersions

\* The tables are sequences: numbers without gaps.
TablesAreLogs ==
    /\ messages \in [Tasks -> Seq(Rows)]
    /\ proposals \in [Tasks -> Seq(Versions)]
    /\ exists \subseteq Tasks
    /\ \A t \in Tasks \ exists : messages[t] = <<>>

\* Which endpoint a step belongs to.
OpFits(r) ==
    /\ r.at \in {"persist", "open"} => r.op \in {"task", "cli"}
    /\ r.at = "look" => r.op = "cli"
    /\ r.at \in {"read", "post"} => r.op = "message"
    /\ r.at \in {"route", "ask", "answer"} => r.op = "turn"
    /\ r.at \in {"instruct", "alone"} => r.op = "adjust"
    /\ r.at \in {"call", "store"} => r.op \in {"cli", "propose", "adjust"}
    /\ r.at = "supplement" => r.op \in {"cli", "propose"}
    /\ r.at = "apologise" => r.op \in {"propose", "adjust", "confirm"}
    /\ r.at \in {"confirm", "analyse"} => r.op = "confirm"

\* A number that was read is at most one above the highest of today: m messages and
\* p versions.
NumbersFit(r, m, p) ==
    /\ r.at \in {"open", "post", "ask", "apologise"} => r.next >= 1 /\ r.next <= m + 1
    /\ r.at = "open" /\ r.op = "task" => r.next = 1
    /\ r.at = "store" => r.next >= 1 /\ r.next <= p + 1 /\ r.next <= MaxVersions
    /\ r.seq <= m + 1
    /\ r.op = "adjust" /\ r.at \in {"call", "store", "apologise", "alone"} => r.seq >= 1
    /\ r.seq # 0 => r.op = "adjust"

Fits(r, ex, ms, ps) ==
    r.at # "idle" =>
        /\ OpFits(r)
        /\ r.op \in Endpoints /\ r.task \in Tasks /\ r.num \in RequestNumbers
        /\ r.at # "persist" => r.task \in ex
        /\ NumbersFit(r, Len(ms[r.task]), Len(ps[r.task]))

RequestFits(r) == Fits(r, exists, messages, proposals)

\* A task is created by one request, which has not opened the conversation yet.
Creating == {"persist", "look", "open"}
IsOpened(s) == \E i \in DOMAIN s : s[i].op \in {"task", "cli"} /\ s[i].role = "USER"
CreatedAlone ==
    \A h \in Handlers : req[h].at \in Creating =>
        /\ ~IsOpened(messages[req[h].task])
        /\ \A g \in Handlers \ {h} : req[g].at \in Creating => req[g].task # req[h].task

\* The open transaction is the committed tables and what the writer has flushed.
DraftIs(r, ms, ps, dm, dp) ==
    /\ r.at \in {"answer", "supplement", "analyse"}
    /\ dm = IF r.at = "answer" THEN Append(ms[r.task], UserText(r)) ELSE ms[r.task]
    /\ dp = IF r.at = "supplement" THEN Append(ps[r.task], Proposal(r, "INCOMPLETE", r.prev))
                                   ELSE ps[r.task]
    /\ r.at = "supplement" => r.next = Len(ps[r.task]) + 1 /\ r.next <= MaxVersions

DraftFits(r) == DraftIs(r, messages, proposals, draftM, draftP)

OneDraft ==
    /\ writer \in Handlers \union {Nobody}
    /\ writer = Nobody => draftM = <<>> /\ draftP = <<>>
    /\ writer \in Handlers => DraftFits(req[writer])

\* What a message announces is in the table.
AnnouncedExists ==
    \A t \in Tasks : \A i \in DOMAIN messages[t] :
        Announces(t, i) => messages[t][i].version <= Len(proposals[t])

RequestsFit == req \in [Handlers -> Requests] /\ \A h \in Handlers : RequestFits(req[h])
CountersFit == begun \in 0 .. MaxRequests /\ crashes \in 0 .. MaxCrashes
ShownFit == ConfirmableWasShown /\ AnnouncedExists /\ ShownInOrder

WorkbenchInv ==
    /\ TablesAreLogs /\ RequestsFit /\ CreatedAlone /\ OneDraft /\ CountersFit
    /\ ShownFit

-----------------------------------------------------------------------------
(* Numbered rows are sequences. *)

LEMMA HighestIsLen == ASSUME NEW S, NEW s \in Seq(S) PROVE Highest(s) = Len(s)
<1>1. DOMAIN s = 1 .. Len(s) /\ Len(s) \in Nat
  OBVIOUS
<1>2. Len(s) \in DOMAIN s \union {0} /\ \A i \in DOMAIN s : i <= Len(s)
  BY <1>1
<1>a. \A a, b \in Nat : a <= b /\ b <= a => a = b
  OBVIOUS
<1>3. ASSUME NEW k \in DOMAIN s \union {0}, \A i \in DOMAIN s : i <= k PROVE k = Len(s)
  <2>1. k \in Nat /\ k <= Len(s)
    BY <1>1, <1>3
  <2>2. Len(s) # 0 => Len(s) \in DOMAIN s
    BY <1>1
  <2>3. CASE Len(s) = 0
    BY <1>1, <2>1, <2>3
  <2>4. CASE Len(s) # 0
    <3>1. \A i \in 1 .. Len(s) : i <= k
      BY <1>1, <1>3, Zenon
    <3>2. Len(s) \in 1 .. Len(s)
      BY <1>1, <2>4
    <3>3. Len(s) <= k
      BY <3>1, <3>2, Zenon
    <3> QED
      BY <1>a, <1>1, <2>1, <3>3, Zenon
  <2> QED
    BY <2>3, <2>4
<1> QED
  BY <1>2, <1>3 DEF Highest

LEMMA PutIsAppend ==
    ASSUME NEW S, NEW s \in Seq(S), NEW m \in S
    PROVE  Put(s, Len(s) + 1, m) = Append(s, m)
<1>1. DOMAIN s = 1 .. Len(s) /\ Len(s) \in Nat
  OBVIOUS
<1>2. DOMAIN s \union {Len(s) + 1} = 1 .. Len(s) + 1
  BY <1>1
<1> DEFINE a == Append(s, m)
<1>3. /\ a \in Seq(S) /\ Len(a) = Len(s) + 1 /\ a[Len(s) + 1] = m
      /\ \A i \in 1 .. Len(s) : a[i] = s[i]
  OBVIOUS
<1> HIDE DEF a
<1>4. a = [i \in 1 .. Len(s) + 1 |-> a[i]]
  BY <1>3
<1>5. \A i \in 1 .. Len(s) + 1 : a[i] = IF i = Len(s) + 1 THEN m ELSE s[i]
  BY <1>1, <1>3
<1>6. a = [i \in 1 .. Len(s) + 1 |-> IF i = Len(s) + 1 THEN m ELSE s[i]]
  BY <1>4, <1>5
<1> QED
  BY <1>2, <1>6 DEF Put, a

LEMMA FreeNumber ==
    ASSUME NEW S, NEW s \in Seq(S), NEW n \in Nat, n <= Len(s) + 1, n >= 1, n \notin DOMAIN s
    PROVE  n = Len(s) + 1
OBVIOUS

LEMMA AppendFacts ==
    ASSUME NEW S, NEW s \in Seq(S), NEW m \in S
    PROVE  /\ Append(s, m) \in Seq(S) /\ Len(Append(s, m)) = Len(s) + 1 /\ Len(s) \in Nat
           /\ Append(s, m)[Len(s) + 1] = m
           /\ \A i \in 1 .. Len(s) : Append(s, m)[i] = s[i]
           /\ DOMAIN s = 1 .. Len(s) /\ DOMAIN Append(s, m) = 1 .. Len(s) + 1
OBVIOUS

LEMMA SequencesAreNumbered == ASSUME NEW S, NEW s \in Seq(S) PROVE Numbered(s, S)
BY DEF Numbered

\* Messages of a request are rows.
LEMMA MessageTypes ==
    ASSUME NEW r, r.op \in Endpoints, r.num \in RequestNumbers, NEW v \in VersionNumbers,
           NEW role \in {"USER", "MENTOR", "SYSTEM"}, NEW kind \in {"TEXT", "PROPOSAL", "ERROR"}
    PROVE  Message(r.op, r.num, role, kind, v) \in Rows
BY DEF Message, Rows, RequestNumbers, VersionNumbers

LEMMA RequestRows ==
    ASSUME NEW r, r.op \in Endpoints, r.num \in RequestNumbers, NEW v \in VersionNumbers
    PROVE  /\ UserText(r) \in Rows /\ MentorText(r) \in Rows /\ MentorError(r) \in Rows
           /\ MentorProposal(r, v) \in Rows
<1>1. 0 \in VersionNumbers
  BY WorkbenchBounds DEF VersionNumbers
<1> QED
  BY <1>1, MessageTypes DEF UserText, MentorText, MentorError, MentorProposal

LEMMA VersionTypes ==
    ASSUME NEW r, r.num \in RequestNumbers, NEW c \in Completeness, NEW v \in VersionNumbers
    PROVE  Proposal(r, c, v) \in Versions /\ Proposal(r, c, v).completeness = c /\ Proposal(r, c, v).by = r.num
BY DEF Proposal, Versions, RequestNumbers, VersionNumbers

-----------------------------------------------------------------------------
(* What a commit does to the tables of a task. *)

Extends(new, old) == Len(old) <= Len(new) /\ \A i \in 1 .. Len(old) : new[i] = old[i]

\* New messages announce at most a version that is new, in the last of them; new
\* versions are INCOMPLETE or announced.
GoodCommit(t, ms, ps) ==
    /\ messages' = [messages EXCEPT ![t] = ms]
    /\ proposals' = [proposals EXCEPT ![t] = ps]
    /\ ms \in Seq(Rows) /\ ps \in Seq(Versions)
    /\ Extends(ms, messages[t]) /\ Extends(ps, proposals[t])
    /\ \A i \in 1 .. Len(ms) :
          i > Len(messages[t]) /\ ms[i].kind = "PROPOSAL" /\ ms[i].op # "message" =>
              /\ i = Len(ms)
              /\ ms[i].version > Len(proposals[t]) /\ ms[i].version <= Len(ps)
    /\ \A v \in 1 .. Len(ps) :
          v > Len(proposals[t]) /\ ps[v].completeness # "INCOMPLETE" =>
              \E i \in 1 .. Len(ms) : /\ ms[i].kind = "PROPOSAL" /\ ms[i].version = v
                                      /\ ms[i].by = ps[v].by

LEMMA CommitShows ==
    ASSUME TablesAreLogs, ShownFit, NEW t \in Tasks, NEW ms, NEW ps, GoodCommit(t, ms, ps)
    PROVE  ShownFit'
<1> DEFINE om == messages[t]
           op == proposals[t]
<1>1. /\ om \in Seq(Rows) /\ op \in Seq(Versions) /\ ms \in Seq(Rows) /\ ps \in Seq(Versions)
      /\ messages'[t] = ms /\ proposals'[t] = ps
      /\ \A u \in Tasks \ {t} : messages'[u] = messages[u] /\ proposals'[u] = proposals[u]
  BY DEF TablesAreLogs, GoodCommit
<1>2. /\ DOMAIN om = 1 .. Len(om) /\ DOMAIN op = 1 .. Len(op) /\ DOMAIN ms = 1 .. Len(ms)
      /\ DOMAIN ps = 1 .. Len(ps)
      /\ Len(om) \in Nat /\ Len(op) \in Nat /\ Len(ms) \in Nat /\ Len(ps) \in Nat
  BY <1>1
<1>3. /\ Len(om) <= Len(ms) /\ \A i \in 1 .. Len(om) : ms[i] = om[i]
      /\ Len(op) <= Len(ps) /\ \A i \in 1 .. Len(op) : ps[i] = op[i]
  BY DEF GoodCommit, Extends
<1>4. \A i \in 1 .. Len(ms) :
        i > Len(om) /\ ms[i].kind = "PROPOSAL" /\ ms[i].op # "message" =>
            i = Len(ms) /\ ms[i].version > Len(op) /\ ms[i].version <= Len(ps)
  BY DEF GoodCommit
<1>5. \A v \in 1 .. Len(ps) :
        v > Len(op) /\ ps[v].completeness # "INCOMPLETE" =>
            \E i \in 1 .. Len(ms) : ms[i].kind = "PROPOSAL" /\ ms[i].version = v /\ ms[i].by = ps[v].by
  BY DEF GoodCommit
<1>6. \A i \in 1 .. Len(ms) : ms[i].version \in Nat
  <2>1. \A i \in 1 .. Len(ms) : ms[i] \in Rows
    BY <1>1
  <2>2. \A m \in Rows : m.version \in VersionNumbers
    BY DEF Rows, VersionNumbers
  <2> QED
    BY <2>1, <2>2, WorkbenchBounds DEF VersionNumbers
<1> HIDE DEF om, op
<1>7. ConfirmableWasShown'
  <2> SUFFICES ASSUME NEW u \in Tasks, NEW v \in DOMAIN proposals'[u],
                      proposals'[u][v].completeness # "INCOMPLETE"
               PROVE  \E i \in DOMAIN messages'[u] :
                         /\ messages'[u][i].kind = "PROPOSAL" /\ messages'[u][i].version = v
                         /\ messages'[u][i].by = proposals'[u][v].by
    BY DEF ConfirmableWasShown
  <2>1. CASE u # t
    BY <1>1, <2>1 DEF ShownFit, ConfirmableWasShown
  <2>2. CASE u = t /\ v <= Len(op)
    <3>1. v \in 1 .. Len(op) /\ op[v].completeness # "INCOMPLETE" /\ ps[v] = op[v]
      BY <1>1, <1>2, <1>3, <2>2
    <3>2. PICK i \in DOMAIN om : om[i].kind = "PROPOSAL" /\ om[i].version = v /\ om[i].by = op[v].by
      BY <1>2, <3>1 DEF ShownFit, ConfirmableWasShown, om, op
    <3>3. i \in 1 .. Len(ms) /\ ms[i] = om[i]
      BY <1>2, <1>3
    <3> QED
      BY <1>1, <1>2, <2>2, <3>1, <3>2, <3>3
  <2>3. CASE u = t /\ ~ (v <= Len(op))
    <3>1. v \in 1 .. Len(ps) /\ v > Len(op) /\ ps[v].completeness # "INCOMPLETE"
      BY <1>1, <1>2, <2>3
    <3>2. PICK i \in 1 .. Len(ms) :
            ms[i].kind = "PROPOSAL" /\ ms[i].version = v /\ ms[i].by = ps[v].by
      BY <1>5, <3>1
    <3> QED
      BY <1>1, <1>2, <2>3, <3>2
  <2> QED
    BY <2>1, <2>2, <2>3
<1>8. AnnouncedExists'
  <2> SUFFICES ASSUME NEW u \in Tasks, NEW i \in DOMAIN messages'[u],
                      messages'[u][i].kind = "PROPOSAL", messages'[u][i].op # "message"
               PROVE  messages'[u][i].version <= Len(proposals'[u])
    BY DEF AnnouncedExists, Announces
  <2>1. CASE u # t
    BY <1>1, <2>1 DEF ShownFit, AnnouncedExists, Announces
  <2>2. CASE u = t /\ i <= Len(om)
    <3>1. i \in DOMAIN om /\ ms[i] = om[i]
      BY <1>1, <1>2, <1>3, <2>2
    <3>2. om[i].version <= Len(op)
      BY <1>1, <2>2, <3>1 DEF ShownFit, AnnouncedExists, Announces, om, op
    <3>3. om[i].version \in Nat
      BY <1>1, <1>2, <1>6, <2>2, <3>1
    <3> QED
      BY <1>1, <1>2, <1>3, <2>2, <3>1, <3>2, <3>3
  <2>3. CASE u = t /\ ~ (i <= Len(om))
    <3>1. i \in 1 .. Len(ms) /\ i > Len(om) /\ ms[i].kind = "PROPOSAL" /\ ms[i].op # "message"
      BY <1>1, <1>2, <2>3
    <3> QED
      BY <1>1, <1>4, <2>3, <3>1
  <2> QED
    BY <2>1, <2>2, <2>3
<1>9. ShownInOrder'
  <2> SUFFICES ASSUME NEW u \in Tasks, NEW i \in DOMAIN messages'[u], NEW j \in DOMAIN messages'[u],
                      i < j, messages'[u][i].kind = "PROPOSAL", messages'[u][i].op # "message",
                      messages'[u][j].kind = "PROPOSAL", messages'[u][j].op # "message"
               PROVE  messages'[u][i].version < messages'[u][j].version
    BY DEF ShownInOrder, Announces
  <2>1. CASE u # t
    BY <1>1, <2>1 DEF ShownFit, ShownInOrder, Announces
  <2>2. CASE u = t
    <3>1. /\ i \in 1 .. Len(ms) /\ j \in 1 .. Len(ms)
          /\ ms[i].kind = "PROPOSAL" /\ ms[i].op # "message"
          /\ ms[j].kind = "PROPOSAL" /\ ms[j].op # "message"
      BY <1>1, <1>2, <2>2
    <3>2. i <= Len(om)
      <4> SUFFICES ASSUME i > Len(om) PROVE FALSE
        BY <1>2, <3>1
      <4>1. i = Len(ms)
        BY <1>4, <3>1
      <4> QED
        BY <1>2, <3>1, <4>1
    <3>3. i \in DOMAIN om /\ ms[i] = om[i]
      BY <1>2, <1>3, <3>1, <3>2
    <3>4. CASE j <= Len(om)
      <4>1. j \in DOMAIN om /\ ms[j] = om[j]
        BY <1>2, <1>3, <3>1, <3>4
      <4> QED
        BY <1>1, <2>2, <3>3, <4>1 DEF ShownFit, ShownInOrder, Announces, om
    <3>5. CASE ~ (j <= Len(om))
      <4>1. ms[j].version > Len(op)
        <5>1. j > Len(om)
          BY <1>2, <3>1, <3>5
        <5> QED
          BY <1>4, <3>1, <5>1
      <4>2. om[i].version <= Len(op)
        BY <1>1, <2>2, <3>3 DEF ShownFit, AnnouncedExists, Announces, om, op
      <4> QED
        BY <1>1, <1>2, <1>6, <2>2, <3>1, <3>3, <4>1, <4>2
    <3> QED
      BY <3>4, <3>5
  <2> QED
    BY <2>1, <2>2
<1> QED
  BY <1>7, <1>8, <1>9 DEF ShownFit

-----------------------------------------------------------------------------
(* Commits that are good. *)

\* The messages before the last new one: none is new, or one is that shows nothing.
Before(pre, om) == pre = om \/ \E u \in Rows : u.kind = "TEXT" /\ pre = Append(om, u)

LEMMA BeforeFacts ==
    ASSUME NEW om \in Seq(Rows), NEW pre, Before(pre, om)
    PROVE  /\ pre \in Seq(Rows) /\ Len(pre) \in Nat /\ Len(om) \in Nat /\ Extends(pre, om)
           /\ \A i \in 1 .. Len(pre) : i > Len(om) => pre[i].kind = "TEXT"
<1>1. CASE pre = om
  BY <1>1 DEF Extends
<1>2. CASE \E u \in Rows : u.kind = "TEXT" /\ pre = Append(om, u)
  <2>1. PICK u \in Rows : u.kind = "TEXT" /\ pre = Append(om, u)
    BY <1>2
  <2>2. /\ pre \in Seq(Rows) /\ Len(pre) = Len(om) + 1 /\ Len(om) \in Nat /\ pre[Len(om) + 1] = u
        /\ \A i \in 1 .. Len(om) : pre[i] = om[i]
    BY <2>1, AppendFacts
  <2> HIDE DEF Rows
  <2> QED
    BY <2>1, <2>2 DEF Extends
<1> QED
  BY <1>1, <1>2 DEF Before

\* A message that shows nothing, and at most a draft that nobody can confirm.
LEMMA SaidText ==
    ASSUME TablesAreLogs, NEW t \in Tasks, NEW pre, NEW m \in Rows, NEW ps,
           Before(pre, messages[t]), m.kind # "PROPOSAL" \/ m.op = "message",
           \/ ps = proposals[t]
           \/ \E q \in Versions : q.completeness = "INCOMPLETE" /\ ps = Append(proposals[t], q),
           messages' = [messages EXCEPT ![t] = Append(pre, m)],
           proposals' = [proposals EXCEPT ![t] = ps]
    PROVE  GoodCommit(t, Append(pre, m), ps)
<1> DEFINE om == messages[t]
           op == proposals[t]
           ms == Append(pre, m)
<1>1. om \in Seq(Rows) /\ op \in Seq(Versions)
  BY DEF TablesAreLogs
<1>2. /\ pre \in Seq(Rows) /\ Len(pre) \in Nat /\ Len(om) \in Nat /\ Extends(pre, om)
      /\ \A i \in 1 .. Len(pre) : i > Len(om) => pre[i].kind = "TEXT"
  BY <1>1, BeforeFacts
<1>3. /\ ms \in Seq(Rows) /\ Len(ms) = Len(pre) + 1 /\ ms[Len(pre) + 1] = m
      /\ \A i \in 1 .. Len(pre) : ms[i] = pre[i]
  BY <1>2, AppendFacts
<1>4. ps \in Seq(Versions) /\ Len(op) \in Nat /\ Len(ps) \in Nat /\ Extends(ps, op)
      /\ \A v \in 1 .. Len(ps) : v > Len(op) => ps[v].completeness = "INCOMPLETE"
  <2>1. CASE ps = op
    BY <1>1, <2>1 DEF Extends
  <2>2. CASE \E q \in Versions : q.completeness = "INCOMPLETE" /\ ps = Append(op, q)
    <3>1. PICK q \in Versions : q.completeness = "INCOMPLETE" /\ ps = Append(op, q)
      BY <2>2
    <3>2. /\ ps \in Seq(Versions) /\ Len(ps) = Len(op) + 1 /\ Len(op) \in Nat /\ ps[Len(op) + 1] = q
          /\ \A i \in 1 .. Len(op) : ps[i] = op[i]
      BY <1>1, <3>1, AppendFacts
    <3> HIDE DEF op
    <3> QED
      BY <3>1, <3>2 DEF Extends
  <2> QED
    BY <2>1, <2>2
<1>5. Extends(ms, om)
  BY <1>2, <1>3 DEF Extends
<1>6. \A i \in 1 .. Len(ms) : i > Len(om) => ms[i].kind # "PROPOSAL" \/ ms[i].op = "message"
  BY <1>2, <1>3
<1> QED
  BY <1>3, <1>4, <1>5, <1>6 DEF GoodCommit

\* A new version and the message that shows it.
LEMMA SaidProposal ==
    ASSUME TablesAreLogs, NEW t \in Tasks, NEW pre, NEW m \in Rows, NEW pp, NEW q \in Versions,
           Before(pre, messages[t]),
           \/ pp = proposals[t]
           \/ \E q1 \in Versions : q1.completeness = "INCOMPLETE" /\ pp = Append(proposals[t], q1),
           m.kind = "PROPOSAL", m.version = Len(pp) + 1, m.by = q.by,
           messages' = [messages EXCEPT ![t] = Append(pre, m)],
           proposals' = [proposals EXCEPT ![t] = Append(pp, q)]
    PROVE  GoodCommit(t, Append(pre, m), Append(pp, q))
<1> DEFINE om == messages[t]
           op == proposals[t]
           ms == Append(pre, m)
           ps == Append(pp, q)
<1>1. om \in Seq(Rows) /\ op \in Seq(Versions)
  BY DEF TablesAreLogs
<1>2. /\ pre \in Seq(Rows) /\ Len(pre) \in Nat /\ Len(om) \in Nat /\ Extends(pre, om)
      /\ \A i \in 1 .. Len(pre) : i > Len(om) => pre[i].kind = "TEXT"
  BY <1>1, BeforeFacts
<1>3. /\ ms \in Seq(Rows) /\ Len(ms) = Len(pre) + 1 /\ ms[Len(pre) + 1] = m
      /\ \A i \in 1 .. Len(pre) : ms[i] = pre[i]
  BY <1>2, AppendFacts
<1>4. pp \in Seq(Versions) /\ Len(op) \in Nat /\ Len(pp) \in Nat /\ Extends(pp, op)
      /\ \A v \in 1 .. Len(pp) : v > Len(op) => pp[v].completeness = "INCOMPLETE"
  <2>1. CASE pp = op
    BY <1>1, <2>1 DEF Extends
  <2>2. CASE \E q1 \in Versions : q1.completeness = "INCOMPLETE" /\ pp = Append(op, q1)
    <3>1. PICK q1 \in Versions : q1.completeness = "INCOMPLETE" /\ pp = Append(op, q1)
      BY <2>2
    <3>2. /\ pp \in Seq(Versions) /\ Len(pp) = Len(op) + 1 /\ Len(op) \in Nat /\ pp[Len(op) + 1] = q1
          /\ \A i \in 1 .. Len(op) : pp[i] = op[i]
      BY <1>1, <3>1, AppendFacts
    <3> HIDE DEF op
    <3> QED
      BY <3>1, <3>2 DEF Extends
  <2> QED
    BY <2>1, <2>2
<1>5. /\ ps \in Seq(Versions) /\ Len(ps) = Len(pp) + 1 /\ ps[Len(pp) + 1] = q
      /\ \A i \in 1 .. Len(pp) : ps[i] = pp[i]
  BY <1>4, AppendFacts
<1> HIDE DEF om, op, ms, ps
<1>6. Extends(ms, om) /\ Extends(ps, op)
  BY <1>2, <1>3, <1>4, <1>5 DEF Extends
<1>7. \A i \in 1 .. Len(ms) : i > Len(om) /\ ms[i].kind = "PROPOSAL" => i = Len(ms)
  BY <1>2, <1>3
<1>8. Len(ms) \in 1 .. Len(ms) /\ ms[Len(ms)] = m
  BY <1>2, <1>3
<1>9. \A v \in 1 .. Len(ps) : v > Len(op) /\ ps[v].completeness # "INCOMPLETE" => v = Len(pp) + 1
  BY <1>4, <1>5
<1>10. m.version > Len(op) /\ m.version <= Len(ps)
  BY <1>4, <1>5 DEF Extends
<1>11. \A i \in 1 .. Len(ms) :
          i > Len(om) /\ ms[i].kind = "PROPOSAL" /\ ms[i].op # "message" =>
              i = Len(ms) /\ ms[i].version > Len(op) /\ ms[i].version <= Len(ps)
  BY <1>7, <1>8, <1>10
<1>12. \A v \in 1 .. Len(ps) :
          v > Len(op) /\ ps[v].completeness # "INCOMPLETE" =>
              \E i \in 1 .. Len(ms) : ms[i].kind = "PROPOSAL" /\ ms[i].version = v /\ ms[i].by = ps[v].by
  BY <1>5, <1>8, <1>9
<1> QED
  BY <1>3, <1>5, <1>6, <1>11, <1>12 DEF GoodCommit, om, op, ms, ps

\* Only a draft that nobody can confirm.
LEMMA SaidNothing ==
    ASSUME TablesAreLogs, NEW t \in Tasks, NEW q \in Versions, q.completeness = "INCOMPLETE",
           messages' = [messages EXCEPT ![t] = messages[t]],
           proposals' = [proposals EXCEPT ![t] = Append(proposals[t], q)]
    PROVE  GoodCommit(t, messages[t], Append(proposals[t], q))
<1> DEFINE om == messages[t]
           op == proposals[t]
           ps == Append(op, q)
<1>1. om \in Seq(Rows) /\ op \in Seq(Versions) /\ Len(om) \in Nat
  BY DEF TablesAreLogs
<1>2. /\ ps \in Seq(Versions) /\ Len(ps) = Len(op) + 1 /\ Len(op) \in Nat /\ ps[Len(op) + 1] = q
      /\ \A i \in 1 .. Len(op) : ps[i] = op[i]
  BY <1>1, AppendFacts
<1> HIDE DEF om, op, ps
<1>3. Extends(om, om) /\ Extends(ps, op)
  BY <1>1, <1>2 DEF Extends
<1>4. \A i \in 1 .. Len(om) : ~ (i > Len(om))
  BY <1>1
<1>5. \A v \in 1 .. Len(ps) : v > Len(op) => ps[v].completeness = "INCOMPLETE"
  BY <1>2
<1> QED
  BY <1>1, <1>2, <1>3, <1>4, <1>5 DEF GoodCommit, om, op, ps

-----------------------------------------------------------------------------
(* What a step of a request needs to keep of the invariant. *)

\* Tables only grow, so what fitted them fits.
LEMMA FitsGrows ==
    ASSUME NEW r \in Requests, NEW ex, NEW ex2, NEW ms, NEW ms2, NEW ps, NEW ps2,
           Fits(r, ex, ms, ps), ex \subseteq ex2,
           \A t \in Tasks : /\ Len(ms[t]) \in Nat /\ Len(ms2[t]) \in Nat /\ Len(ms[t]) <= Len(ms2[t])
                            /\ Len(ps[t]) \in Nat /\ Len(ps2[t]) \in Nat /\ Len(ps[t]) <= Len(ps2[t])
    PROVE  Fits(r, ex2, ms2, ps2)
<1> SUFFICES ASSUME r.at # "idle" PROVE Fits(r, ex2, ms2, ps2)
  BY DEF Fits
<1>1. /\ OpFits(r) /\ r.op \in Endpoints /\ r.task \in Tasks /\ r.num \in RequestNumbers
      /\ r.at # "persist" => r.task \in ex
      /\ NumbersFit(r, Len(ms[r.task]), Len(ps[r.task]))
  BY DEF Fits
<1>2. r.next \in Nat /\ r.seq \in Nat
  BY DEF Requests
<1> DEFINE m == Len(ms[r.task])
           m2 == Len(ms2[r.task])
           p == Len(ps[r.task])
           p2 == Len(ps2[r.task])
<1>3. m \in Nat /\ m2 \in Nat /\ m <= m2 /\ p \in Nat /\ p2 \in Nat /\ p <= p2
  BY <1>1
<1>4. NumbersFit(r, m, p)
  BY <1>1
<1> HIDE DEF m, m2, p, p2
<1>5. NumbersFit(r, m2, p2)
  BY <1>2, <1>3, <1>4 DEF NumbersFit
<1>6. NumbersFit(r, Len(ms2[r.task]), Len(ps2[r.task]))
  BY <1>5 DEF m2, p2
<1>7. r.at # "persist" => r.task \in ex2
  BY <1>1
<1> QED
  BY <1>1, <1>6, <1>7 DEF Fits

LEMMA TablesHaveLengths ==
    ASSUME TablesAreLogs, NEW t \in Tasks
    PROVE  /\ messages[t] \in Seq(Rows) /\ proposals[t] \in Seq(Versions)
           /\ Len(messages[t]) \in Nat /\ Len(proposals[t]) \in Nat
<1>1. messages[t] \in Seq(Rows) /\ proposals[t] \in Seq(Versions)
  BY DEF TablesAreLogs
<1> QED
  BY <1>1

LEMMA AppendOpensNothing ==
    ASSUME NEW s \in Seq(Rows), ~IsOpened(s), NEW m \in Rows,
           m.op \notin {"task", "cli"} \/ m.role # "USER"
    PROVE  Append(s, m) \in Seq(Rows) /\ ~IsOpened(Append(s, m))
<1> DEFINE a == Append(s, m)
<1>1. /\ a \in Seq(Rows) /\ Len(a) = Len(s) + 1 /\ Len(s) \in Nat /\ a[Len(s) + 1] = m
      /\ \A i \in 1 .. Len(s) : a[i] = s[i]
      /\ DOMAIN s = 1 .. Len(s) /\ DOMAIN a = 1 .. Len(s) + 1
  BY AppendFacts
<1> HIDE DEF a
<1>2. ASSUME NEW i \in DOMAIN a PROVE ~(a[i].op \in {"task", "cli"} /\ a[i].role = "USER")
  <2>1. CASE i = Len(s) + 1
    BY <1>1, <2>1
  <2>2. CASE i \in DOMAIN s
    BY <1>1, <2>2 DEF IsOpened
  <2> QED
    BY <1>1, <2>1, <2>2
<1> QED
  BY <1>1, <1>2 DEF a, IsOpened

\* Nobody but the request that created a task opens its conversation.
LEMMA TalkOpensNothing ==
    ASSUME TablesAreLogs, [Promise!Talk]_messages, NEW t \in Tasks, ~IsOpened(messages[t])
    PROVE  ~IsOpened(messages'[t])
<1>1. CASE UNCHANGED messages
  BY <1>1
<1>2. CASE Promise!Talk
  <2>1. PICK u \in Tasks : \/ Promise!Post(u) \/ Promise!Discuss(u)
                          \/ Promise!Propose(u) \/ Promise!Revise(u)
    BY <1>2 DEF Promise!Talk
  <2>2. messages \in [Tasks -> Seq(Rows)] /\ messages[t] \in Seq(Rows)
    BY DEF TablesAreLogs
  <2>3. 0 \in VersionNumbers /\ 1 .. MaxVersions \subseteq VersionNumbers
    BY WorkbenchBounds DEF VersionNumbers
  <2>4. ASSUME NEW m \in Rows, m.op \notin {"task", "cli"} \/ m.role # "USER",
               messages' = [messages EXCEPT ![u] = Append(@, m)]
        PROVE  ~IsOpened(messages'[t])
    BY <2>2, <2>4, AppendOpensNothing
  <2>5. ASSUME NEW m1 \in Rows, m1.op \notin {"task", "cli"} \/ m1.role # "USER",
               NEW m2 \in Rows, m2.op \notin {"task", "cli"} \/ m2.role # "USER",
               messages' = [messages EXCEPT ![u] = Append(Append(@, m1), m2)]
        PROVE  ~IsOpened(messages'[t])
    <3>1. CASE t # u
      BY <2>2, <2>5, <3>1
    <3>2. CASE t = u
      <4> DEFINE a == Append(messages[t], m1)
      <4>1. a \in Seq(Rows) /\ ~IsOpened(a)
        BY <2>2, <2>5, AppendOpensNothing
      <4>2. messages'[t] = Append(a, m2)
        BY <2>1, <2>2, <2>5, <3>2
      <4> HIDE DEF a
      <4>3. ~IsOpened(Append(a, m2))
        BY <2>5, <4>1, AppendOpensNothing
      <4> QED
        BY <4>2, <4>3
    <3> QED
      BY <3>1, <3>2
  <2>6. ASSUME NEW op \in Endpoints, NEW n \in 1 .. MaxRequests, NEW v \in VersionNumbers,
               NEW role \in {"USER", "MENTOR", "SYSTEM"}, NEW kind \in {"TEXT", "PROPOSAL", "ERROR"}
        PROVE  /\ Promise!Message(op, n, role, kind, v) \in Rows
               /\ Promise!Message(op, n, role, kind, v).op = op
               /\ Promise!Message(op, n, role, kind, v).role = role
    BY DEF Promise!Message, Rows, VersionNumbers
  <2>7. ASSUME Promise!Post(u) PROVE ~IsOpened(messages'[t])
    <3>1. PICK n \in 1 .. MaxRequests, p \in ClientPosts :
            messages' = [messages EXCEPT ![u] = Append(@, Promise!Message("message", n, p.role, p.kind, p.version))]
      BY <2>7 DEF Promise!Post, Promise!Say, Promise!Posted
    <3>2. /\ "message" \in Endpoints /\ p.version \in VersionNumbers
          /\ p.role \in {"USER", "MENTOR", "SYSTEM"} /\ p.kind \in {"TEXT", "PROPOSAL", "ERROR"}
      BY ClientPostsType DEF Endpoints, VersionNumbers
    <3> DEFINE m == Promise!Message("message", n, p.role, p.kind, p.version)
    <3>3. m \in Rows /\ m.op \notin {"task", "cli"}
      BY <3>2, <2>6
    <3> QED
      BY <3>1, <3>3, <2>4
  <2>8. ASSUME Promise!Discuss(u) PROVE ~IsOpened(messages'[t])
    <3>1. PICK n \in 1 .. MaxRequests :
            messages' = [messages EXCEPT ![u] = Append(Append(@, Promise!Message("turn", n, "USER", "TEXT", 0)),
                                                       Promise!Message("turn", n, "MENTOR", "TEXT", 0))]
      BY <2>8 DEF Promise!Discuss, Promise!SayBoth, Promise!Request, Promise!Answer
    <3>2. "turn" \in Endpoints
      BY DEF Endpoints
    <3> DEFINE m1 == Promise!Message("turn", n, "USER", "TEXT", 0)
               m2 == Promise!Message("turn", n, "MENTOR", "TEXT", 0)
    <3>3. /\ m1 \in Rows /\ m1.op \notin {"task", "cli"}
          /\ m2 \in Rows /\ m2.op \notin {"task", "cli"}
      BY <2>3, <2>6, <3>2
    <3> QED
      BY <3>1, <3>3, <2>5
  <2>9. ASSUME Promise!Propose(u) PROVE ~IsOpened(messages'[t])
    <3>1. PICK op \in {"propose", "cli", "confirm"}, n \in 1 .. MaxRequests,
               kind \in {"PROPOSAL", "ERROR"}, v \in VersionNumbers :
            messages' = [messages EXCEPT ![u] = Append(@, Promise!Message(op, n, "MENTOR", kind, v))]
      BY <2>3, <2>9 DEF Promise!Propose, Promise!Say, Promise!Showing, Promise!Apology
    <3>2. op \in Endpoints
      BY DEF Endpoints
    <3> DEFINE m == Promise!Message(op, n, "MENTOR", kind, v)
    <3>3. m \in Rows /\ m.role # "USER"
      BY <2>6, <3>2
    <3> QED
      BY <3>1, <3>3, <2>4
  <2>10. ASSUME Promise!Revise(u) PROVE ~IsOpened(messages'[t])
    <3>1. PICK n \in 1 .. MaxRequests :
            \/ messages' = [messages EXCEPT ![u] = Append(@, Promise!Message("adjust", n, "USER", "TEXT", 0))]
            \/ \E v \in VersionNumbers :
                  messages' = [messages EXCEPT ![u] =
                      Append(Append(@, Promise!Message("adjust", n, "USER", "TEXT", 0)),
                             Promise!Message("adjust", n, "MENTOR", "PROPOSAL", v))]
      BY <2>3, <2>10 DEF Promise!Revise, Promise!Say, Promise!SayBoth, Promise!Request, Promise!Showing
    <3>2. "adjust" \in Endpoints
      BY DEF Endpoints
    <3> DEFINE m1 == Promise!Message("adjust", n, "USER", "TEXT", 0)
               m2(v) == Promise!Message("adjust", n, "MENTOR", "PROPOSAL", v)
    <3>3. /\ m1 \in Rows /\ m1.op \notin {"task", "cli"}
          /\ \A v \in VersionNumbers : m2(v) \in Rows /\ m2(v).op \notin {"task", "cli"}
      BY <2>3, <2>6, <3>2
    <3>4. CASE messages' = [messages EXCEPT ![u] = Append(@, m1)]
      BY <3>3, <3>4, <2>4
    <3>5. CASE \E v \in VersionNumbers :
                  messages' = [messages EXCEPT ![u] = Append(Append(@, m1), m2(v))]
      <4>1. PICK v \in VersionNumbers :
                  messages' = [messages EXCEPT ![u] = Append(Append(@, m1), m2(v))]
        BY <3>5
      <4> QED
        BY <3>3, <4>1, <2>5
    <3> QED
      BY <3>1, <3>4, <3>5
  <2> QED
    BY <2>1, <2>7, <2>8, <2>9, <2>10
<1> QED
  BY <1>1, <1>2

LEMMA StepKeeps ==
    ASSUME TablesAreLogs, RequestsFit, CreatedAlone, TablesAreLogs',
           NEW h \in Handlers, NEW r \in Requests, req' = [req EXCEPT ![h] = r],
           r.task \in {req[h].task, NoTask}, req[h].at # "idle",
           exists \subseteq exists',
           \A t \in Tasks : /\ t # req[h].task => messages'[t] = messages[t]
                            /\ Len(messages[t]) <= Len(messages'[t])
                            /\ Len(proposals[t]) <= Len(proposals'[t]),
           Fits(r, exists', messages', proposals'),
           r.at \in Creating => req[h].at \in Creating /\ r.task = req[h].task,
           [Promise!Talk]_messages \/ (req[h].at \in Creating /\ r.at \notin Creating)
    PROVE  RequestsFit' /\ CreatedAlone'
<1>1. req \in [Handlers -> Requests] /\ req' \in [Handlers -> Requests] /\ req'[h] = r
      /\ \A g \in Handlers \ {h} : req'[g] = req[g]
  BY DEF RequestsFit
<1>2. req[h].task \in Tasks
  BY DEF RequestsFit, RequestFits, Fits
<1>3. ASSUME NEW g \in Handlers PROVE RequestFits(req[g])'
  <2>1. CASE g = h
    BY <1>1, <2>1 DEF RequestFits
  <2>2. CASE g # h
    <3>1. Fits(req[g], exists, messages, proposals) /\ req[g] \in Requests
      BY <1>1 DEF RequestsFit, RequestFits
    <3>2. \A t \in Tasks : /\ Len(messages[t]) \in Nat /\ Len(messages'[t]) \in Nat
                           /\ Len(proposals[t]) \in Nat /\ Len(proposals'[t]) \in Nat
      <4>1. \A t \in Tasks : /\ messages[t] \in Seq(Rows) /\ messages'[t] \in Seq(Rows)
                             /\ proposals[t] \in Seq(Versions) /\ proposals'[t] \in Seq(Versions)
        BY DEF TablesAreLogs
      <4> QED
        BY <4>1
    <3>3. Fits(req[g], exists', messages', proposals')
      BY <3>1, <3>2, FitsGrows
    <3> QED
      BY <1>1, <2>2, <3>3 DEF RequestFits
  <2> QED
    BY <2>1, <2>2
<1>4. ASSUME NEW g \in Handlers, req'[g].at \in Creating
      PROVE  /\ ~IsOpened(messages'[req'[g].task])
             /\ \A k \in Handlers \ {g} : req'[k].at \in Creating => req'[k].task # req'[g].task
  <2>1. \A k \in Handlers : req'[k].at \in Creating =>
            req[k].at \in Creating /\ req'[k].task = req[k].task
    BY <1>1
  <2>2. /\ ~IsOpened(messages[req[g].task]) /\ req'[g].task = req[g].task
        /\ \A k \in Handlers \ {g} : req[k].at \in Creating => req[k].task # req[g].task
    BY <1>4, <2>1 DEF CreatedAlone
  <2>3. req[g].task \in Tasks
    BY <1>4, <2>1 DEF RequestsFit, RequestFits, Fits, Creating
  <2>4. ~IsOpened(messages'[req[g].task])
    <3>1. CASE [Promise!Talk]_messages
      BY <2>2, <2>3, <3>1, TalkOpensNothing
    <3>2. CASE req[h].at \in Creating /\ r.at \notin Creating
      <4>1. g # h
        BY <1>1, <1>4, <3>2
      <4>2. req[h].task # req[g].task
        BY <2>2, <3>2, <4>1
      <4> QED
        BY <2>2, <2>3, <4>2
    <3> QED
      BY <3>1, <3>2
  <2> QED
    BY <2>1, <2>2, <2>4
<1>5. CreatedAlone'
  BY <1>4 DEF CreatedAlone
<1> QED
  BY <1>1, <1>3, <1>5 DEF RequestsFit

LEMMA IdleIsRequest == Idle \in Requests /\ Idle.at = "idle" /\ Idle.task = NoTask
BY WorkbenchBounds DEF Idle, Requests, Steps, Writing

LEMMA IdleFits == ASSUME NEW ex, NEW ms, NEW ps PROVE Fits(Idle, ex, ms, ps)
BY IdleIsRequest DEF Fits

\* The parts that unchanged tables keep.
LEMMA SameTables ==
    ASSUME TablesAreLogs, ShownFit, UNCHANGED <<messages, proposals>>,
           exists' \subseteq Tasks, exists \subseteq exists'
    PROVE  TablesAreLogs' /\ ShownFit'
<1>1. TablesAreLogs'
  BY DEF TablesAreLogs
<1>2. ConfirmableWasShown' /\ AnnouncedExists' /\ ShownInOrder'
  BY DEF ShownFit, ConfirmableWasShown, AnnouncedExists, ShownInOrder, Announces
<1> QED
  BY <1>1, <1>2 DEF ShownFit

\* Who does not hold the lock does not disturb the open transaction.
LEMMA DraftStays ==
    ASSUME OneDraft, NEW h \in Handlers, writer # h, NEW r, req \in [Handlers -> Requests],
           req' = [req EXCEPT ![h] = r], UNCHANGED <<messages, proposals, transaction>>
    PROVE  OneDraft'
<1>1. writer' = writer /\ draftM' = draftM /\ draftP' = draftP
  BY DEF transaction
<1>2. writer \in Handlers => req'[writer] = req[writer]
  OBVIOUS
<1>3. writer \in Handlers => DraftFits(req[writer])'
  <2> SUFFICES ASSUME writer \in Handlers PROVE DraftFits(req[writer])'
    OBVIOUS
  <2>1. DraftFits(req[writer])
    BY DEF OneDraft
  <2> QED
    BY <1>1, <1>2, <2>1 DEF DraftFits
<1> QED
  BY <1>1, <1>3 DEF OneDraft

\* A step that only moves its request.
LEMMA QuietStep ==
    ASSUME WorkbenchInv, NEW h \in Handlers, NEW r \in Requests, req' = [req EXCEPT ![h] = r],
           r.task \in {req[h].task, NoTask}, req[h].at # "idle", writer # h,
           UNCHANGED <<messages, proposals, transaction, begun, crashes>>,
           exists' \in {exists, exists \union {req[h].task}},
           Fits(r, exists', messages, proposals),
           r.at \in Creating => r.task = req[h].task /\ req[h].at \in Creating
    PROVE  WorkbenchInv' /\ [Promise!Talk]_messages
<1> USE DEF WorkbenchInv
<1>1. req[h].task \in Tasks /\ req \in [Handlers -> Requests]
  BY DEF RequestsFit, RequestFits, Fits
<1>2. TablesAreLogs' /\ ShownFit'
  <2>1. exists' \subseteq Tasks /\ exists \subseteq exists'
    BY <1>1 DEF TablesAreLogs
  <2> QED
    BY <2>1, SameTables
<1>3. OneDraft'
  BY <1>1, DraftStays
<1>4. CountersFit'
  BY DEF CountersFit
<1>5. [Promise!Talk]_messages
  OBVIOUS
<1>6. \A t \in Tasks : /\ messages'[t] = messages[t]
                       /\ Len(messages[t]) <= Len(messages'[t]) /\ Len(proposals[t]) <= Len(proposals'[t])
  <2>1. \A t \in Tasks : Len(messages[t]) \in Nat /\ Len(proposals[t]) \in Nat
    BY TablesHaveLengths
  <2> QED
    BY <2>1
<1>7. exists \subseteq exists'
  OBVIOUS
<1>8. Fits(r, exists', messages', proposals')
  OBVIOUS
<1>9. RequestsFit' /\ CreatedAlone'
  BY <1>2, <1>5, <1>6, <1>7, <1>8, StepKeeps
<1> QED
  BY <1>2, <1>3, <1>4, <1>9

\* A request that fails.
LEMMA FailStep ==
    ASSUME WorkbenchInv, NEW h \in Handlers, req[h].at # "idle", Fail(h),
           UNCHANGED <<begun, crashes>>
    PROVE  WorkbenchInv' /\ [Promise!Talk]_messages
<1>1. CASE writer # h
  <2>1. /\ req' = [req EXCEPT ![h] = Idle]
        /\ UNCHANGED <<messages, proposals, transaction, begun, crashes>> /\ exists' = exists
    BY <1>1 DEF Fail, Finish, tables
  <2>2. Idle.at \notin Creating
    BY IdleIsRequest DEF Creating
  <2> QED
    BY <1>1, <2>1, <2>2, QuietStep, IdleIsRequest, IdleFits
<1>2. CASE writer = h
  <2> USE DEF WorkbenchInv
  <2>1. /\ req' = [req EXCEPT ![h] = Idle] /\ writer' = Nobody /\ draftM' = <<>> /\ draftP' = <<>>
        /\ UNCHANGED <<messages, proposals, begun, crashes>> /\ exists' = exists
    BY <1>2 DEF Fail, Finish, tables, Release
  <2>2. TablesAreLogs' /\ ShownFit'
    <3>1. exists' \subseteq Tasks /\ exists \subseteq exists'
      BY <2>1 DEF TablesAreLogs
    <3> QED
      BY <2>1, <3>1, SameTables
  <2>3. OneDraft'
    BY <2>1, WorkbenchNames DEF OneDraft
  <2>4. CountersFit'
    BY <2>1 DEF CountersFit
  <2>5. \A t \in Tasks : /\ messages'[t] = messages[t]
                         /\ Len(messages[t]) <= Len(messages'[t])
                         /\ Len(proposals[t]) <= Len(proposals'[t])
    <3>1. \A t \in Tasks : Len(messages[t]) \in Nat /\ Len(proposals[t]) \in Nat
      BY TablesHaveLengths
    <3> QED
      BY <2>1, <3>1
  <2>6. Idle.at \notin Creating
    BY IdleIsRequest DEF Creating
  <2>7. exists \subseteq exists' /\ [Promise!Talk]_messages
    BY <2>1
  <2>8. RequestsFit' /\ CreatedAlone'
    BY <2>1, <2>2, <2>5, <2>6, <2>7, StepKeeps, IdleIsRequest, IdleFits
  <2> QED
    BY <2>1, <2>2, <2>3, <2>4, <2>8
<1> QED
  BY <1>1, <1>2

\* A flush that takes the write lock and keeps it.
LEMMA HoldStep ==
    ASSUME WorkbenchInv, NEW h \in Handlers, NEW r \in Requests, req' = [req EXCEPT ![h] = r],
           r.task = req[h].task, req[h].at # "idle", writer = Nobody, writer' = h,
           UNCHANGED <<messages, proposals, exists, begun, crashes>>,
           Fits(r, exists, messages, proposals),
           DraftIs(r, messages, proposals, draftM', draftP'), r.at \notin Creating
    PROVE  WorkbenchInv' /\ [Promise!Talk]_messages
<1> USE DEF WorkbenchInv
<1>1. req[h].task \in Tasks /\ req \in [Handlers -> Requests]
  BY DEF RequestsFit, RequestFits, Fits
<1>2. TablesAreLogs' /\ ShownFit'
  <2>1. exists' \subseteq Tasks /\ exists \subseteq exists'
    BY <1>1 DEF TablesAreLogs
  <2> QED
    BY <2>1, SameTables
<1>3. OneDraft'
  <2>1. req'[h] = r
    BY <1>1
  <2> QED
    BY <2>1, WorkbenchNames DEF OneDraft, DraftFits
<1>4. CountersFit'
  BY DEF CountersFit
<1>5. \A t \in Tasks : /\ messages'[t] = messages[t]
                       /\ Len(messages[t]) <= Len(messages'[t]) /\ Len(proposals[t]) <= Len(proposals'[t])
  <2>1. \A t \in Tasks : Len(messages[t]) \in Nat /\ Len(proposals[t]) \in Nat
    BY TablesHaveLengths
  <2> QED
    BY <2>1
<1>6. exists \subseteq exists' /\ [Promise!Talk]_messages
  OBVIOUS
<1>7. Fits(r, exists', messages', proposals')
  OBVIOUS
<1>8. RequestsFit' /\ CreatedAlone'
  BY <1>2, <1>5, <1>6, <1>7, StepKeeps
<1> QED
  BY <1>2, <1>3, <1>4, <1>8

\* A commit.
LEMMA CommitStep ==
    ASSUME WorkbenchInv, NEW h \in Handlers, NEW r \in Requests, req' = [req EXCEPT ![h] = r],
           r.task \in {req[h].task, NoTask}, req[h].at # "idle", req[h].task \in exists,
           NEW ms, NEW ps, GoodCommit(req[h].task, ms, ps),
           writer' = Nobody, draftM' = <<>>, draftP' = <<>>,
           UNCHANGED <<exists, begun, crashes>>,
           Fits(r, exists, messages', proposals'), r.at \notin Creating,
           [Promise!Talk]_messages \/ req[h].at \in Creating
    PROVE  WorkbenchInv'
<1> USE DEF WorkbenchInv
<1> DEFINE t == req[h].task
<1>1. t \in Tasks /\ req \in [Handlers -> Requests]
  BY DEF RequestsFit, RequestFits, Fits
<1>2. /\ messages' = [messages EXCEPT ![t] = ms] /\ proposals' = [proposals EXCEPT ![t] = ps]
      /\ ms \in Seq(Rows) /\ ps \in Seq(Versions)
      /\ Len(messages[t]) <= Len(ms) /\ Len(proposals[t]) <= Len(ps)
  BY DEF GoodCommit, Extends
<1> HIDE DEF t
<1>3. ShownFit'
  BY <1>1, CommitShows DEF t
<1>4. TablesAreLogs'
  <2>1. t \in exists
    BY DEF t, TablesAreLogs
  <2> QED
    BY <1>1, <1>2, <2>1 DEF TablesAreLogs
<1>5. OneDraft'
  BY WorkbenchNames DEF OneDraft
<1>6. CountersFit'
  BY DEF CountersFit
<1>7. \A u \in Tasks : /\ u # t => messages'[u] = messages[u]
                       /\ Len(messages[u]) <= Len(messages'[u])
                       /\ Len(proposals[u]) <= Len(proposals'[u])
  <2>1. messages \in [Tasks -> Seq(Rows)] /\ proposals \in [Tasks -> Seq(Versions)]
    BY DEF TablesAreLogs
  <2>2. \A u \in Tasks : Len(messages[u]) \in Nat /\ Len(proposals[u]) \in Nat
    BY TablesHaveLengths
  <2>3. messages'[t] = ms /\ proposals'[t] = ps
        /\ \A u \in Tasks : u # t => messages'[u] = messages[u] /\ proposals'[u] = proposals[u]
    BY <1>1, <1>2, <2>1
  <2> QED
    BY <1>2, <2>2, <2>3
<1>8. exists \subseteq exists'
  OBVIOUS
<1>9. Fits(r, exists', messages', proposals')
  OBVIOUS
<1>10. RequestsFit' /\ CreatedAlone'
  BY <1>4, <1>7, <1>8, <1>9, StepKeeps DEF t
<1> QED
  BY <1>3, <1>4, <1>5, <1>6, <1>10

-----------------------------------------------------------------------------
(* The actions. *)

LEMMA RequestFacts ==
    ASSUME WorkbenchInv, NEW h \in Handlers, req[h].at # "idle"
    PROVE  /\ req \in [Handlers -> Requests] /\ req[h] \in Requests
           /\ OpFits(req[h]) /\ req[h].op \in Endpoints /\ req[h].task \in Tasks
           /\ req[h].num \in RequestNumbers
           /\ req[h].at # "persist" => req[h].task \in exists
           /\ NumbersFit(req[h], Len(Messages(h)), Len(Proposals(h)))
           /\ Messages(h) = messages[req[h].task] /\ Proposals(h) = proposals[req[h].task]
           /\ Messages(h) \in Seq(Rows) /\ Proposals(h) \in Seq(Versions)
           /\ Len(Messages(h)) \in Nat /\ Len(Proposals(h)) \in Nat
           /\ Highest(Messages(h)) = Len(Messages(h)) /\ Highest(Proposals(h)) = Len(Proposals(h))
           /\ req[h].next \in Nat /\ req[h].seq \in Nat /\ req[h].prev \in VersionNumbers
           /\ writer = h => DraftFits(req[h])
           /\ req[h].at \notin {"answer", "supplement", "analyse"} => writer # h
<1>1. req \in [Handlers -> Requests] /\ Fits(req[h], exists, messages, proposals) /\ TablesAreLogs /\ OneDraft
  BY DEF WorkbenchInv, RequestsFit, RequestFits
<1>2. req[h] \in Requests
  BY <1>1
<1>3. req[h].next \in Nat /\ req[h].seq \in Nat /\ req[h].prev \in VersionNumbers
  BY <1>2 DEF Requests, VersionNumbers
<1>4. /\ OpFits(req[h]) /\ req[h].op \in Endpoints /\ req[h].task \in Tasks
      /\ req[h].num \in RequestNumbers
      /\ req[h].at # "persist" => req[h].task \in exists
      /\ NumbersFit(req[h], Len(Messages(h)), Len(Proposals(h)))
  BY <1>1 DEF Fits, Messages, Proposals
<1>5. /\ Messages(h) \in Seq(Rows) /\ Proposals(h) \in Seq(Versions)
      /\ Len(Messages(h)) \in Nat /\ Len(Proposals(h)) \in Nat
  BY <1>1, <1>4, TablesHaveLengths DEF Messages, Proposals
<1>6. Highest(Messages(h)) = Len(Messages(h)) /\ Highest(Proposals(h)) = Len(Proposals(h))
  BY <1>5, HighestIsLen
<1>7. writer = h => DraftFits(req[h])
  BY <1>1 DEF OneDraft
<1>8. req[h].at \notin {"answer", "supplement", "analyse"} => writer # h
  BY <1>7 DEF DraftFits, DraftIs
<1> QED
  BY <1>1, <1>2, <1>3, <1>4, <1>5, <1>6, <1>7, <1>8 DEF Messages, Proposals

Moved(q, s, n, k) == [q EXCEPT !.at = s, !.next = n, !.seq = k]

LEMMA MovedRequest ==
    ASSUME NEW q \in Requests, NEW s \in Steps, NEW n \in Nat, NEW k \in Nat
    PROVE  /\ Moved(q, s, n, k) \in Requests /\ Moved(q, s, n, k).at = s
           /\ Moved(q, s, n, k).next = n /\ Moved(q, s, n, k).seq = k
           /\ Moved(q, s, n, k).op = q.op /\ Moved(q, s, n, k).task = q.task
           /\ Moved(q, s, n, k).num = q.num /\ Moved(q, s, n, k).prev = q.prev
BY DEF Requests, Moved

\* A request that goes on to another step of its endpoint, with the numbers it has
\* read.
LEMMA MoveStep ==
    ASSUME WorkbenchInv, NEW h \in Handlers, req[h].at # "idle", writer # h,
           NEW s \in Steps \ {"idle"}, NEW n \in Nat, NEW k \in Nat
    PROVE  LET r == Moved(req[h], s, n, k)
           IN /\ req' = [req EXCEPT ![h] = r]
              /\ UNCHANGED <<messages, proposals, transaction, begun, crashes>>
              /\ exists' \in {exists, exists \union {req[h].task}} /\ req[h].task \in exists'
              /\ OpFits(r) /\ NumbersFit(r, Len(Messages(h)), Len(Proposals(h)))
              /\ s \in Creating => req[h].at \in Creating
              => WorkbenchInv' /\ [Promise!Talk]_messages
<1> DEFINE r == Moved(req[h], s, n, k)
<1>1. req[h] \in Requests /\ req[h].op \in Endpoints /\ req[h].task \in Tasks /\ req[h].num \in RequestNumbers
  BY RequestFacts
<1>2. /\ r \in Requests /\ r.at = s /\ r.op = req[h].op /\ r.task = req[h].task /\ r.num = req[h].num
  BY <1>1, MovedRequest
<1> HIDE DEF r
<1> SUFFICES ASSUME req' = [req EXCEPT ![h] = r],
                    UNCHANGED <<messages, proposals, transaction, begun, crashes>>,
                    exists' \in {exists, exists \union {req[h].task}}, req[h].task \in exists',
                    OpFits(r), NumbersFit(r, Len(Messages(h)), Len(Proposals(h))),
                    s \in Creating => req[h].at \in Creating
             PROVE  WorkbenchInv' /\ [Promise!Talk]_messages
  BY DEF r
<1>3. Fits(r, exists', messages, proposals)
  BY <1>1, <1>2 DEF Fits, Messages, Proposals
<1> QED
  BY <1>2, <1>3, QuietStep

LEMMA PersistTaskStep ==
    ASSUME WorkbenchInv, NEW h \in Handlers, PersistTask(h), UNCHANGED <<begun, crashes>>
    PROVE  WorkbenchInv' /\ [Promise!Talk]_messages
<1> DEFINE s == IF req[h].op = "cli" THEN "look" ELSE "open"
           k == req[h].seq
           r == Moved(req[h], s, 1, k)
<1>1. req[h].at = "persist"
  BY DEF PersistTask, At
<1>2. /\ req \in [Handlers -> Requests] /\ req[h] \in Requests /\ OpFits(req[h]) /\ writer # h
      /\ NumbersFit(req[h], Len(Messages(h)), Len(Proposals(h))) /\ req[h].seq \in Nat
      /\ Len(Messages(h)) \in Nat
  BY <1>1, RequestFacts
<1>3. s \in Steps
  BY DEF Steps, Writing
<1>s. s \in {"look", "open"} /\ (s = "look" => req[h].op = "cli")
  OBVIOUS
<1>4. req' = [req EXCEPT ![h] = r]
  BY <1>2 DEF PersistTask, Requests, Moved
<1>k. k \in Nat /\ 1 \in Nat
  BY <1>2
<1> HIDE DEF s, k
<1>5. r.at = s /\ r.next = 1 /\ r.seq = k /\ r.op = req[h].op
  <2>1. req[h] \in Requests
    BY <1>2
  <2> QED
    BY <2>1, <1>3, <1>k, MovedRequest
<1> HIDE DEF r
<1>6. OpFits(r)
  BY <1>1, <1>2, <1>s, <1>5 DEF OpFits
<1>7. NumbersFit(r, Len(Messages(h)), Len(Proposals(h)))
  BY <1>1, <1>2, <1>s, <1>5 DEF NumbersFit, k
<1>8. /\ UNCHANGED <<messages, proposals, transaction, begun, crashes>>
      /\ exists' = exists \union {req[h].task}
  BY DEF PersistTask
<1>9. s \in Steps \ {"idle"} /\ req[h].at \in Creating
  BY <1>1, <1>3, <1>s DEF Creating
<1> QED
  BY <1>1, <1>2, <1>k, <1>4, <1>6, <1>7, <1>8, <1>9, MoveStep DEF r

\* A read of the highest sequence.
LEMMA ReadStep ==
    ASSUME WorkbenchInv, NEW h \in Handlers, writer # h, req[h].at \notin {"idle", "persist"},
           NEW s \in Steps \ {"idle"}
    PROVE  /\ s \in {"open", "post", "ask", "apologise"}
           /\ req' = [req EXCEPT ![h].at = s, ![h].next = Highest(Messages(h)) + 1]
           /\ UNCHANGED <<tables, transaction, begun, crashes>>
           /\ s = "open" => req[h].at \in Creating /\ req[h].op = "cli"
           /\ s = "post" => req[h].op = "message"
           /\ s = "ask" => req[h].op = "turn"
           /\ s = "apologise" => /\ req[h].op \in {"propose", "adjust", "confirm"}
                                 /\ req[h].at \in {"call", "analyse"}
           => WorkbenchInv' /\ [Promise!Talk]_messages
<1> DEFINE n == Len(Messages(h)) + 1
           k == req[h].seq
           r == Moved(req[h], s, n, k)
<1>1. /\ req \in [Handlers -> Requests] /\ req[h] \in Requests /\ OpFits(req[h])
      /\ NumbersFit(req[h], Len(Messages(h)), Len(Proposals(h))) /\ req[h].seq \in Nat
      /\ Len(Messages(h)) \in Nat /\ Highest(Messages(h)) = Len(Messages(h)) /\ req[h].task \in exists
  BY RequestFacts
<1>2. s \in Steps /\ n \in Nat /\ n >= 1 /\ n <= Len(Messages(h)) + 1
  BY <1>1
<1>k. k \in Nat /\ n \in Nat /\ s \in Steps
  BY <1>1
<1> HIDE DEF n, k
<1>3. r.at = s /\ r.next = n /\ r.seq = k /\ r.op = req[h].op
  <2>1. req[h] \in Requests
    BY <1>1
  <2> QED
    BY <2>1, <1>k, MovedRequest
<1> SUFFICES ASSUME s \in {"open", "post", "ask", "apologise"},
                    req' = [req EXCEPT ![h].at = s, ![h].next = Highest(Messages(h)) + 1],
                    UNCHANGED <<tables, transaction, begun, crashes>>,
                    s = "open" => req[h].at \in Creating /\ req[h].op = "cli",
                    s = "post" => req[h].op = "message",
                    s = "ask" => req[h].op = "turn",
                    s = "apologise" => /\ req[h].op \in {"propose", "adjust", "confirm"}
                                       /\ req[h].at \in {"call", "analyse"}
             PROVE  WorkbenchInv' /\ [Promise!Talk]_messages
  OBVIOUS
<1>4. req' = [req EXCEPT ![h] = r]
  BY <1>1 DEF Requests, Moved, n, k
<1> HIDE DEF r
<1>5. OpFits(r)
  BY <1>3 DEF OpFits
<1>6. NumbersFit(r, Len(Messages(h)), Len(Proposals(h)))
  <2>1. s = "apologise" /\ req[h].op = "adjust" => req[h].seq >= 1
    BY <1>1 DEF NumbersFit, OpFits
  <2> QED
    BY <1>1, <1>2, <1>3, <2>1 DEF NumbersFit, k
<1>7. UNCHANGED <<messages, proposals, exists>>
  BY DEF tables
<1>8. s \in Creating => req[h].at \in Creating
  BY DEF Creating
<1> QED
  BY <1>1, <1>2, <1>k, <1>4, <1>5, <1>6, <1>7, <1>8, MoveStep DEF r

LEMMA FinishStep ==
    ASSUME WorkbenchInv, NEW h \in Handlers, writer # h, req[h].at # "idle", Finish(h),
           UNCHANGED <<tables, transaction, begun, crashes>>
    PROVE  WorkbenchInv' /\ [Promise!Talk]_messages
BY FailStep DEF Fail

LEMMA LookForOpeningStep ==
    ASSUME WorkbenchInv, NEW h \in Handlers, LookForOpening(h), UNCHANGED <<begun, crashes>>
    PROVE  WorkbenchInv' /\ [Promise!Talk]_messages
<1>1. req[h].at = "look"
  BY DEF LookForOpening, At
<1>2. OpFits(req[h]) /\ writer # h
  BY <1>1, RequestFacts
<1>3. "open" \in Steps \ {"idle"}
  BY DEF Steps, Writing
<1> QED
  BY <1>1, <1>2, <1>3, ReadStep DEF LookForOpening, OpFits, Creating

LEMMA ReadSequenceStep ==
    ASSUME WorkbenchInv, NEW h \in Handlers, ReadSequence(h), UNCHANGED <<begun, crashes>>
    PROVE  WorkbenchInv' /\ [Promise!Talk]_messages
<1>1. req[h].at = "read"
  BY DEF ReadSequence, At
<1>2. OpFits(req[h]) /\ writer # h
  BY <1>1, RequestFacts
<1>3. "post" \in Steps \ {"idle"}
  BY DEF Steps, Writing
<1> QED
  BY <1>1, <1>2, <1>3, ReadStep DEF ReadSequence, OpFits

LEMMA RouteTurnStep ==
    ASSUME WorkbenchInv, NEW h \in Handlers, RouteTurn(h), UNCHANGED <<begun, crashes>>
    PROVE  WorkbenchInv' /\ [Promise!Talk]_messages
<1>1. req[h].at = "route" /\ UNCHANGED <<tables, transaction>>
  BY DEF RouteTurn, At
<1>2. OpFits(req[h]) /\ writer # h
  BY <1>1, RequestFacts
<1>3. CASE Finish(h)
  BY <1>1, <1>2, <1>3, FinishStep
<1>4. CASE req' = [req EXCEPT ![h].at = "ask", ![h].next = Highest(Messages(h)) + 1]
  <2>1. "ask" \in Steps \ {"idle"}
    BY DEF Steps, Writing
  <2> QED
    BY <1>1, <1>2, <1>4, <2>1, ReadStep DEF OpFits
<1> QED
  BY <1>3, <1>4 DEF RouteTurn

LEMMA GoToStep ==
    ASSUME WorkbenchInv, NEW h \in Handlers, writer # h, req[h].at \notin {"idle", "persist"},
           NEW s \in Steps \ {"idle"}
    PROVE  /\ s \in {"alone", "analyse"} /\ GoTo(h, s)
           /\ UNCHANGED <<tables, transaction, begun, crashes>>
           /\ s = "alone" => req[h].op = "adjust" /\ req[h].at = "call"
           /\ s = "analyse" => req[h].op = "confirm"
           => WorkbenchInv' /\ [Promise!Talk]_messages
<1> DEFINE n == req[h].next
           k == req[h].seq
           r == Moved(req[h], s, n, k)
<1>1. /\ req \in [Handlers -> Requests] /\ req[h] \in Requests /\ OpFits(req[h])
      /\ NumbersFit(req[h], Len(Messages(h)), Len(Proposals(h)))
      /\ req[h].next \in Nat /\ req[h].seq \in Nat /\ req[h].task \in exists
  BY RequestFacts
<1>k. k \in Nat /\ n \in Nat /\ s \in Steps
  BY <1>1
<1> HIDE DEF n, k
<1>3. r.at = s /\ r.next = n /\ r.seq = k /\ r.op = req[h].op
  <2>1. req[h] \in Requests
    BY <1>1
  <2> QED
    BY <2>1, <1>k, MovedRequest
<1> SUFFICES ASSUME s \in {"alone", "analyse"}, GoTo(h, s),
                    UNCHANGED <<tables, transaction, begun, crashes>>,
                    s = "alone" => req[h].op = "adjust" /\ req[h].at = "call",
                    s = "analyse" => req[h].op = "confirm"
             PROVE  WorkbenchInv' /\ [Promise!Talk]_messages
  OBVIOUS
<1>4. req' = [req EXCEPT ![h] = r]
  BY <1>1 DEF Requests, Moved, n, k, GoTo
<1> HIDE DEF r
<1>5. OpFits(r)
  BY <1>3 DEF OpFits
<1>6. NumbersFit(r, Len(Messages(h)), Len(Proposals(h)))
  BY <1>1, <1>3 DEF NumbersFit, n, k
<1>7. UNCHANGED <<messages, proposals, exists>>
  BY DEF tables
<1>8. ~ (s \in Creating)
  BY DEF Creating
<1> QED
  BY <1>1, <1>k, <1>4, <1>5, <1>6, <1>7, <1>8, MoveStep DEF r

LEMMA AddInstructionStep ==
    ASSUME WorkbenchInv, NEW h \in Handlers, AddInstruction(h), UNCHANGED <<begun, crashes>>
    PROVE  WorkbenchInv' /\ [Promise!Talk]_messages
<1> DEFINE n == req[h].next
           k == Len(Messages(h)) + 1
           r == Moved(req[h], "call", n, k)
<1>1. req[h].at = "instruct" /\ UNCHANGED <<tables, transaction>>
  BY DEF AddInstruction, At
<1>2. /\ req \in [Handlers -> Requests] /\ req[h] \in Requests /\ OpFits(req[h]) /\ writer # h
      /\ req[h].next \in Nat /\ req[h].task \in exists
      /\ Len(Messages(h)) \in Nat /\ Highest(Messages(h)) = Len(Messages(h))
  BY <1>1, RequestFacts
<1>3. n \in Nat /\ k \in Nat /\ k >= 1 /\ k <= Len(Messages(h)) + 1 /\ "call" \in Steps \ {"idle"}
  BY <1>2 DEF Steps, Writing
<1>4. req' = [req EXCEPT ![h] = r]
  BY <1>2 DEF AddInstruction, Requests, Moved
<1>a. n \in Nat /\ k \in Nat /\ "call" \in Steps
  BY <1>3
<1> HIDE DEF n, k
<1>5. r.at = "call" /\ r.next = n /\ r.seq = k /\ r.op = req[h].op
  <2>1. req[h] \in Requests
    BY <1>2
  <2> QED
    BY <2>1, <1>a, MovedRequest
<1> HIDE DEF r
<1>6. OpFits(r)
  BY <1>1, <1>2, <1>5 DEF OpFits
<1>7. NumbersFit(r, Len(Messages(h)), Len(Proposals(h)))
  BY <1>1, <1>2, <1>3, <1>5 DEF NumbersFit, OpFits
<1>8. UNCHANGED <<messages, proposals, exists>>
  BY <1>1 DEF tables
<1>9. req[h].at # "idle" /\ "call" \notin Creating
  BY <1>1 DEF Creating
<1> QED
  BY <1>1, <1>2, <1>3, <1>4, <1>6, <1>7, <1>8, <1>9, MoveStep DEF r

LEMMA CallModelStep ==
    ASSUME WorkbenchInv, NEW h \in Handlers, CallModel(h), UNCHANGED <<begun, crashes>>
    PROVE  WorkbenchInv' /\ [Promise!Talk]_messages
<1>1. req[h].at = "call" /\ UNCHANGED <<tables, transaction>>
  BY DEF CallModel, At
<1>2. /\ req \in [Handlers -> Requests] /\ req[h] \in Requests /\ OpFits(req[h]) /\ writer # h
      /\ NumbersFit(req[h], Len(Messages(h)), Len(Proposals(h)))
      /\ req[h].next \in Nat /\ req[h].seq \in Nat /\ req[h].task \in exists
      /\ Len(Proposals(h)) \in Nat /\ Highest(Proposals(h)) = Len(Proposals(h))
  BY <1>1, RequestFacts
<1>3. CASE ContextFails(h)
  <2>1. CASE req[h].op = "adjust"
    <3>1. GoTo(h, "alone") /\ "alone" \in Steps \ {"idle"}
      BY <1>3, <2>1 DEF ContextFails, Steps, Writing
    <3> QED
      BY <1>1, <1>2, <2>1, <3>1, GoToStep
  <2>2. CASE req[h].op # "adjust"
    BY <1>1, <1>2, <1>3, <2>2, FinishStep DEF ContextFails
  <2> QED
    BY <2>1, <2>2
<1>4. CASE GenerationFails(h)
  <2>1. "apologise" \in Steps \ {"idle"}
    BY DEF Steps, Writing
  <2> QED
    BY <1>1, <1>2, <1>4, <2>1, ReadStep DEF OpFits, GenerationFails
<1>5. CASE GenerationSucceeds(h)
  <2> DEFINE n == Len(Proposals(h)) + 1
             k == req[h].seq
             r == Moved(req[h], "store", n, k)
  <2>3. /\ n \in Nat /\ k \in Nat /\ n >= 1 /\ n <= Len(Proposals(h)) + 1 /\ n <= MaxVersions
        /\ "store" \in Steps \ {"idle"}
    BY <1>2, <1>5, WorkbenchBounds DEF Steps, Writing, GenerationSucceeds
  <2>4. req' = [req EXCEPT ![h] = r]
    BY <1>2, <1>5 DEF GenerationSucceeds, Requests, Moved
  <2>a. n \in Nat /\ k \in Nat /\ "store" \in Steps
    BY <2>3
  <2> HIDE DEF n, k
  <2>5. r.at = "store" /\ r.next = n /\ r.seq = k /\ r.op = req[h].op
    <3>1. req[h] \in Requests
      BY <1>2
    <3> QED
      BY <3>1, <2>a, MovedRequest
  <2> HIDE DEF r
  <2>6. OpFits(r)
    BY <1>1, <1>2, <2>5 DEF OpFits
  <2>7. NumbersFit(r, Len(Messages(h)), Len(Proposals(h)))
    BY <1>1, <1>2, <2>3, <2>5 DEF NumbersFit, k
  <2>8. UNCHANGED <<messages, proposals, exists>>
    BY <1>1 DEF tables
  <2>9. req[h].at # "idle" /\ "store" \notin Creating
    BY <1>1 DEF Creating
  <2> QED
    BY <1>1, <1>2, <2>3, <2>4, <2>6, <2>7, <2>8, <2>9, MoveStep DEF r
<1> QED
  BY <1>3, <1>4, <1>5 DEF CallModel

LEMMA BusyTimeoutStep ==
    ASSUME WorkbenchInv, NEW h \in Handlers, BusyTimeout(h), UNCHANGED <<begun, crashes>>
    PROVE  WorkbenchInv' /\ [Promise!Talk]_messages
<1>1. req[h].at # "idle" /\ Fail(h)
  BY DEF BusyTimeout, Writing
<1> QED
  BY <1>1, FailStep

-----------------------------------------------------------------------------
(* Contributions to the conversation. *)

LEMMA TalkIsNext == [Promise!Talk]_messages => [Promise!ConversationNext]_messages
BY DEF Promise!ConversationNext

LEMMA SaysOpening ==
    ASSUME NEW t \in Tasks, NEW op \in {"task", "cli"}, NEW n \in RequestNumbers,
           ~IsOpened(messages[t]), op = "task" => messages[t] = <<>>,
           messages' = [messages EXCEPT ![t] = Append(messages[t], Message(op, n, "USER", "TEXT", 0))]
    PROVE  Promise!ConversationNext
<1>1. Promise!Open(t)
  BY DEF Promise!Open, Promise!Opened, IsOpened, Promise!Say, Promise!Request, Promise!Message, Message, RequestNumbers
<1> QED
  BY <1>1 DEF Promise!ConversationNext

LEMMA SaysPost ==
    ASSUME NEW t \in Tasks, NEW p \in ClientPosts, NEW n \in RequestNumbers,
           messages' = [messages EXCEPT ![t] =
               Append(messages[t], Message("message", n, p.role, p.kind, p.version))]
    PROVE  Promise!Talk
<1>1. Promise!Post(t)
  BY DEF Promise!Post, Promise!Say, Promise!Posted, Promise!Message, Message, RequestNumbers
<1> QED
  BY <1>1 DEF Promise!Talk

LEMMA SaysAnswer ==
    ASSUME NEW t \in Tasks, NEW n \in RequestNumbers,
           messages' = [messages EXCEPT ![t] =
               Append(Append(messages[t], Message("turn", n, "USER", "TEXT", 0)),
                      Message("turn", n, "MENTOR", "TEXT", 0))]
    PROVE  Promise!Talk
<1>1. Promise!Discuss(t)
  BY DEF Promise!Discuss, Promise!SayBoth, Promise!Request, Promise!Answer, Promise!Message,
         Message, RequestNumbers
<1> QED
  BY <1>1 DEF Promise!Talk

LEMMA SaysShowing ==
    ASSUME NEW t \in Tasks, NEW op \in {"propose", "cli"}, NEW n \in RequestNumbers,
           NEW v \in 1 .. MaxVersions,
           messages' = [messages EXCEPT ![t] =
               Append(messages[t], Message(op, n, "MENTOR", "PROPOSAL", v))]
    PROVE  Promise!Talk
<1>1. Promise!Propose(t)
  BY DEF Promise!Propose, Promise!Say, Promise!Showing, Promise!Message, Message, RequestNumbers
<1> QED
  BY <1>1 DEF Promise!Talk

LEMMA SaysApology ==
    ASSUME NEW t \in Tasks, NEW op \in {"propose", "confirm"}, NEW n \in RequestNumbers,
           messages' = [messages EXCEPT ![t] =
               Append(messages[t], Message(op, n, "MENTOR", "ERROR", 0))]
    PROVE  Promise!Talk
<1>1. Promise!Propose(t)
  BY DEF Promise!Propose, Promise!Say, Promise!Apology, Promise!Message, Message, RequestNumbers
<1> QED
  BY <1>1 DEF Promise!Talk

LEMMA SaysInstruction ==
    ASSUME NEW t \in Tasks, NEW n \in RequestNumbers,
           messages' = [messages EXCEPT ![t] =
               Append(messages[t], Message("adjust", n, "USER", "TEXT", 0))]
    PROVE  Promise!Talk
<1>1. Promise!Revise(t)
  BY DEF Promise!Revise, Promise!Say, Promise!Request, Promise!Message, Message, RequestNumbers
<1> QED
  BY <1>1 DEF Promise!Talk

LEMMA SaysRevision ==
    ASSUME NEW t \in Tasks, NEW n \in RequestNumbers, NEW v \in 1 .. MaxVersions,
           messages' = [messages EXCEPT ![t] =
               Append(Append(messages[t], Message("adjust", n, "USER", "TEXT", 0)),
                      Message("adjust", n, "MENTOR", "PROPOSAL", v))]
    PROVE  Promise!Talk
<1>1. Promise!Revise(t)
  BY DEF Promise!Revise, Promise!SayBoth, Promise!Request, Promise!Showing, Promise!Message,
         Message, RequestNumbers
<1> QED
  BY <1>1 DEF Promise!Talk

-----------------------------------------------------------------------------
(* The actions that commit. *)

LEMMA PutFree ==
    ASSUME NEW S, NEW s \in Seq(S), NEW m \in S, NEW n \in Nat, n <= Len(s) + 1, n >= 1, n \notin DOMAIN s
    PROVE  Put(s, n, m) = Append(s, m)
BY FreeNumber, PutIsAppend

LEMMA AddIsAppend ==
    ASSUME NEW s \in Seq(Rows), NEW m \in Rows PROVE AddMessage(s, m) = Append(s, m)
BY HighestIsLen, PutIsAppend DEF AddMessage

LEMMA NoDraft ==
    ASSUME WorkbenchInv, writer = Nobody, UNCHANGED transaction
    PROVE  writer' = Nobody /\ draftM' = <<>> /\ draftP' = <<>>
BY DEF WorkbenchInv, OneDraft, transaction

\* The commit that ends a request.
LEMMA LastCommit ==
    ASSUME WorkbenchInv, NEW h \in Handlers, req[h].at \notin {"idle", "persist"}, Finish(h),
           NEW ms, NEW ps, GoodCommit(req[h].task, ms, ps),
           writer' = Nobody, draftM' = <<>>, draftP' = <<>>,
           UNCHANGED <<exists, begun, crashes>>,
           [Promise!Talk]_messages \/ req[h].at \in Creating
    PROVE  WorkbenchInv'
<1>1. req[h].task \in exists
  BY RequestFacts
<1>2. Idle.at \notin Creating
  BY IdleIsRequest DEF Creating
<1> QED
  BY <1>1, <1>2, CommitStep, IdleIsRequest, IdleFits DEF Finish

LEMMA OpenConversationStep ==
    ASSUME WorkbenchInv, NEW h \in Handlers, OpenConversation(h), UNCHANGED <<begun, crashes>>
    PROVE  WorkbenchInv' /\ [Promise!ConversationNext]_messages
<1> DEFINE t == req[h].task
           m == UserText(req[h])
<1>1. req[h].at = "open" /\ writer = Nobody
  BY DEF OpenConversation, At
<1>2. CASE req[h].next \in DOMAIN Messages(h)
  BY <1>1, <1>2, FailStep, TalkIsNext DEF OpenConversation
<1>3. CASE req[h].next \notin DOMAIN Messages(h)
  <2>0. req[h].at \in Creating
    BY <1>1 DEF Creating
  <2>1. /\ req \in [Handlers -> Requests] /\ req[h] \in Requests /\ OpFits(req[h])
        /\ req[h].op \in Endpoints /\ t \in Tasks /\ req[h].num \in RequestNumbers
        /\ NumbersFit(req[h], Len(Messages(h)), Len(Proposals(h)))
        /\ Messages(h) = messages[t] /\ Proposals(h) = proposals[t] /\ Messages(h) \in Seq(Rows)
        /\ req[h].next \in Nat /\ req[h].seq \in Nat /\ Len(Messages(h)) \in Nat /\ t \in exists
    BY <1>1, RequestFacts
  <2>2. 0 \in VersionNumbers
    BY WorkbenchBounds DEF VersionNumbers
  <2>3. m \in Rows
    BY <2>1, <2>2, RequestRows
  <2>4. Put(Messages(h), req[h].next, m) = Append(messages[t], m)
    <3>1. req[h].next >= 1 /\ req[h].next <= Len(Messages(h)) + 1
      BY <1>1, <2>1 DEF NumbersFit
    <3> QED
      BY <1>3, <2>1, <2>3, <3>1, PutFree
  <2>5. /\ messages' = [messages EXCEPT ![t] = Append(messages[t], m)]
        /\ proposals' = [proposals EXCEPT ![t] = proposals[t]]
        /\ UNCHANGED exists /\ UNCHANGED transaction
    BY <1>3, <2>1, <2>4 DEF OpenConversation, CommitAll
  <2>6. GoodCommit(t, Append(messages[t], m), proposals[t])
    <3>1. TablesAreLogs /\ Before(messages[t], messages[t])
      BY DEF WorkbenchInv, Before
    <3>2. m.kind # "PROPOSAL"
      BY DEF UserText, Message
    <3> HIDE DEF m, t
    <3> QED
      BY <2>1, <2>3, <2>5, <3>1, <3>2, SaidText
  <2>7. writer' = Nobody /\ draftM' = <<>> /\ draftP' = <<>>
    BY <1>1, <2>5, NoDraft
  <2>8. Promise!ConversationNext
    <3>1. req[h].op \in {"task", "cli"}
      BY <1>1, <2>1 DEF OpFits
    <3>2. ~IsOpened(messages[t])
      BY <1>1 DEF WorkbenchInv, CreatedAlone, Creating
    <3>3. ASSUME req[h].op = "task" PROVE messages[t] = <<>>
      <4>1. req[h].next = 1
        BY <1>1, <2>1, <3>3 DEF NumbersFit
      <4>2. messages[t] \in Seq(Rows) /\ 1 \notin DOMAIN messages[t]
        BY <1>3, <2>1, <4>1
      <4>3. Len(messages[t]) = 0
        BY <4>2
      <4> QED
        BY <4>2, <4>3
    <3> QED
      BY <2>1, <2>5, <3>1, <3>2, <3>3, SaysOpening DEF UserText
  <2>9. WorkbenchInv'
    <3>1. CASE req[h].op = "cli"
      <4> DEFINE n == req[h].next
                 k == req[h].seq
                 r == Moved(req[h], "call", n, k)
      <4>1. req' = [req EXCEPT ![h] = r]
        BY <1>3, <2>1, <3>1 DEF OpenConversation, GoTo, Requests, Moved
      <4>2. n \in Nat /\ k \in Nat /\ "call" \in Steps
        BY <2>1 DEF Steps
      <4> HIDE DEF n, k
      <4>3. /\ r \in Requests /\ r.at = "call" /\ r.next = n /\ r.seq = k /\ r.op = req[h].op
            /\ r.task = req[h].task /\ r.num = req[h].num
        <5>1. req[h] \in Requests
          BY <2>1
        <5> QED
          BY <5>1, <4>2, MovedRequest
      <4> HIDE DEF r
      <4>4. OpFits(r) /\ r.at \notin Creating
        BY <3>1, <4>3 DEF OpFits, Creating
      <4>5. Len(messages'[t]) = Len(Messages(h)) + 1
        <5>1. messages'[t] = Append(messages[t], m)
          BY <2>1, <2>5 DEF WorkbenchInv, TablesAreLogs
        <5> HIDE DEF m
        <5> QED
          BY <2>1, <2>3, <5>1, AppendFacts
      <4>6. NumbersFit(r, Len(messages'[t]), Len(proposals'[t]))
        <5> DEFINE l == Len(messages'[t])
                   p == Len(proposals'[t])
        <5>1. l = Len(Messages(h)) + 1 /\ k <= Len(Messages(h)) + 1
          BY <2>1, <4>5 DEF NumbersFit, k
        <5>2. k = 0
          BY <2>1, <3>1 DEF NumbersFit, k
        <5> HIDE DEF l, p
        <5>3. NumbersFit(r, l, p)
          BY <2>1, <3>1, <4>2, <4>3, <5>1, <5>2 DEF NumbersFit
        <5> QED
          BY <5>3 DEF l, p
      <4>7. Fits(r, exists, messages', proposals')
        BY <2>1, <4>3, <4>4, <4>6 DEF Fits
      <4>8. req[h].at # "idle"
        BY <1>1
      <4> HIDE DEF m
      <4> QED
        BY <2>0, <2>1, <2>5, <2>6, <2>7, <4>1, <4>3, <4>4, <4>7, <4>8, CommitStep
    <3>2. CASE req[h].op # "cli"
      <4>1. Finish(h)
        BY <1>3, <3>2 DEF OpenConversation
      <4> HIDE DEF m
      <4> QED
        BY <1>1, <2>0, <2>5, <2>6, <2>7, <4>1, LastCommit
    <3> QED
      BY <3>1, <3>2
  <2> QED
    BY <2>8, <2>9
<1> QED
  BY <1>2, <1>3

\* A request that ends with a message that shows nothing.
LEMMA TextCommit ==
    ASSUME WorkbenchInv, NEW h \in Handlers, req[h].at \notin {"idle", "persist"}, Finish(h),
           NEW pre, Before(pre, messages[req[h].task]), NEW m \in Rows,
           m.kind # "PROPOSAL" \/ m.op = "message", NEW ps,
           \/ ps = proposals[req[h].task]
           \/ \E q \in Versions : /\ q.completeness = "INCOMPLETE"
                                  /\ ps = Append(proposals[req[h].task], q),
           CommitAll(h, Append(pre, m), ps),
           writer' = Nobody, draftM' = <<>>, draftP' = <<>>,
           UNCHANGED <<begun, crashes>>, [Promise!Talk]_messages
    PROVE  WorkbenchInv'
<1>1. TablesAreLogs /\ req[h].task \in Tasks
  BY RequestFacts DEF WorkbenchInv
<1>2. /\ messages' = [messages EXCEPT ![req[h].task] = Append(pre, m)]
      /\ proposals' = [proposals EXCEPT ![req[h].task] = ps] /\ UNCHANGED exists
  BY DEF CommitAll
<1>3. GoodCommit(req[h].task, Append(pre, m), ps)
  BY <1>1, <1>2, SaidText
<1> QED
  BY <1>2, <1>3, LastCommit

LEMMA PostMessageStep ==
    ASSUME WorkbenchInv, NEW h \in Handlers, PostMessage(h), UNCHANGED <<begun, crashes>>
    PROVE  WorkbenchInv' /\ [Promise!Talk]_messages
<1> DEFINE t == req[h].task
<1>1. req[h].at = "post" /\ writer = Nobody
  BY DEF PostMessage, At
<1>2. CASE req[h].next \in DOMAIN Messages(h)
  BY <1>1, <1>2, FailStep DEF PostMessage
<1>3. CASE req[h].next \notin DOMAIN Messages(h)
  <2>1. /\ t \in Tasks /\ req[h].num \in RequestNumbers
        /\ NumbersFit(req[h], Len(Messages(h)), Len(Proposals(h)))
        /\ Messages(h) = messages[t] /\ Proposals(h) = proposals[t] /\ Messages(h) \in Seq(Rows)
        /\ req[h].next \in Nat
    BY <1>1, RequestFacts
  <2>2. PICK p \in ClientPosts :
          CommitAll(h, Put(Messages(h), req[h].next,
                           Message("message", req[h].num, p.role, p.kind, p.version)), Proposals(h))
    BY <1>3 DEF PostMessage
  <2> DEFINE m == Message("message", req[h].num, p.role, p.kind, p.version)
  <2>3. m \in Rows /\ m.op = "message"
    BY <2>1, ClientPostsType DEF Message, Rows, Endpoints, RequestNumbers
  <2>4. Put(Messages(h), req[h].next, m) = Append(messages[t], m)
    <3>1. req[h].next >= 1 /\ req[h].next <= Len(Messages(h)) + 1
      BY <1>1, <2>1 DEF NumbersFit
    <3> HIDE DEF m
    <3> QED
      BY <1>3, <2>1, <2>3, <3>1, PutFree
  <2>5. CommitAll(h, Append(messages[t], m), proposals[t]) /\ Finish(h) /\ UNCHANGED transaction
    BY <1>3, <2>1, <2>2, <2>4 DEF PostMessage
  <2>6. writer' = Nobody /\ draftM' = <<>> /\ draftP' = <<>>
    BY <1>1, <2>5, NoDraft
  <2>7. messages' = [messages EXCEPT ![t] = Append(messages[t], m)]
    BY <2>5 DEF CommitAll
  <2>8. Promise!Talk
    BY <2>1, <2>7, SaysPost
  <2>9. Before(messages[t], messages[t])
    BY DEF Before
  <2> HIDE DEF m
  <2>10. WorkbenchInv'
    BY <1>1, <2>3, <2>5, <2>6, <2>8, <2>9, TextCommit
  <2> QED
    BY <2>8, <2>10
<1> QED
  BY <1>2, <1>3

LEMMA AskQuestionStep ==
    ASSUME WorkbenchInv, NEW h \in Handlers, AskQuestion(h), UNCHANGED <<begun, crashes>>
    PROVE  WorkbenchInv' /\ [Promise!Talk]_messages
<1> DEFINE t == req[h].task
           m == UserText(req[h])
           n == req[h].next
           k == req[h].seq
           r == Moved(req[h], "answer", n, k)
<1>1. req[h].at = "ask" /\ writer = Nobody
  BY DEF AskQuestion, At
<1>2. CASE req[h].next \in DOMAIN Messages(h)
  BY <1>1, <1>2, FailStep DEF AskQuestion
<1>3. CASE req[h].next \notin DOMAIN Messages(h)
  <2>1. /\ req \in [Handlers -> Requests] /\ req[h] \in Requests /\ OpFits(req[h])
        /\ req[h].op \in Endpoints /\ t \in Tasks /\ req[h].num \in RequestNumbers
        /\ NumbersFit(req[h], Len(Messages(h)), Len(Proposals(h)))
        /\ Messages(h) = messages[t] /\ Proposals(h) = proposals[t] /\ Messages(h) \in Seq(Rows)
        /\ req[h].next \in Nat /\ req[h].seq \in Nat /\ t \in exists
    BY <1>1, RequestFacts
  <2>2. 0 \in VersionNumbers
    BY WorkbenchBounds DEF VersionNumbers
  <2>3. m \in Rows
    BY <2>1, <2>2, RequestRows
  <2>4. Put(Messages(h), req[h].next, m) = Append(messages[t], m)
    <3>1. req[h].next >= 1 /\ req[h].next <= Len(Messages(h)) + 1
      BY <1>1, <2>1 DEF NumbersFit
    <3> HIDE DEF m
    <3> QED
      BY <1>3, <2>1, <2>3, <3>1, PutFree
  <2>5. /\ writer' = h /\ draftM' = Append(messages[t], m) /\ draftP' = proposals[t]
        /\ UNCHANGED <<messages, proposals, exists>>
    BY <1>3, <2>1, <2>4 DEF AskQuestion, Hold, tables
  <2>6. req' = [req EXCEPT ![h] = r]
    BY <1>3, <2>1 DEF AskQuestion, GoTo, Requests, Moved
  <2>a. n \in Nat /\ k \in Nat /\ "answer" \in Steps
    BY <2>1 DEF Steps
  <2> HIDE DEF n, k
  <2>7. /\ r \in Requests /\ r.at = "answer" /\ r.next = n /\ r.seq = k /\ r.op = req[h].op
        /\ r.task = req[h].task /\ r.num = req[h].num
    <3>1. req[h] \in Requests
      BY <2>1
    <3> QED
      BY <3>1, <2>a, MovedRequest
  <2> HIDE DEF r
  <2>8. OpFits(r) /\ r.at \notin Creating
    BY <1>1, <2>1, <2>7 DEF OpFits, Creating
  <2>9. NumbersFit(r, Len(Messages(h)), Len(Proposals(h)))
    BY <1>1, <2>1, <2>7 DEF NumbersFit, k
  <2>10. Fits(r, exists, messages, proposals)
    BY <2>1, <2>7, <2>8, <2>9 DEF Fits
  <2>11. UserText(r) = m
    BY <2>7 DEF UserText
  <2>12. DraftIs(r, messages, proposals, draftM', draftP')
    <3> HIDE DEF m
    <3> QED
      BY <2>5, <2>7, <2>11 DEF DraftIs
  <2>13. req[h].at # "idle"
    BY <1>1
  <2> QED
    BY <1>1, <2>5, <2>6, <2>7, <2>8, <2>10, <2>12, <2>13, HoldStep
<1> QED
  BY <1>2, <1>3

LEMMA AnswerTurnStep ==
    ASSUME WorkbenchInv, NEW h \in Handlers, AnswerTurn(h), UNCHANGED <<begun, crashes>>
    PROVE  WorkbenchInv' /\ [Promise!Talk]_messages
<1> DEFINE t == req[h].task
           u == UserText(req[h])
           m == MentorText(req[h])
<1>1. req[h].at = "answer" /\ writer = h
  BY DEF AnswerTurn, At
<1>2. CASE Fail(h)
  BY <1>1, <1>2, FailStep
<1>3. CASE CommitAll(h, AddMessage(draftM, m), draftP) /\ Release /\ Finish(h)
  <2>1. /\ OpFits(req[h]) /\ req[h].op \in Endpoints /\ t \in Tasks /\ req[h].num \in RequestNumbers
        /\ Messages(h) = messages[t] /\ Messages(h) \in Seq(Rows) /\ DraftFits(req[h])
    BY <1>1, RequestFacts
  <2>2. 0 \in VersionNumbers
    BY WorkbenchBounds DEF VersionNumbers
  <2>3. u \in Rows /\ m \in Rows
    BY <2>1, <2>2, RequestRows
  <2>4. draftM = Append(messages[t], u) /\ draftP = proposals[t]
    BY <1>1, <2>1 DEF DraftFits, DraftIs
  <2>5. u.kind = "TEXT" /\ m.kind # "PROPOSAL"
    BY DEF UserText, MentorText, Message
  <2>6. Promise!Talk
    <3>1. AddMessage(draftM, m) = Append(Append(messages[t], u), m)
      <4> HIDE DEF u, m
      <4>1. draftM \in Seq(Rows)
        BY <2>1, <2>3, <2>4, AppendFacts
      <4> QED
        BY <2>3, <2>4, <4>1, AddIsAppend
    <3>2. messages' = [messages EXCEPT ![t] = Append(Append(messages[t], u), m)]
      BY <1>3, <3>1 DEF CommitAll
    <3>3. req[h].op = "turn"
      BY <1>1, <2>1 DEF OpFits
    <3> QED
      BY <2>1, <3>2, <3>3, SaysAnswer DEF UserText, MentorText
  <2> HIDE DEF u, m
  <2>7. draftM \in Seq(Rows)
    BY <2>1, <2>3, <2>4, AppendFacts
  <2>8. AddMessage(draftM, m) = Append(draftM, m)
    BY <2>3, <2>7, AddIsAppend
  <2>9. Before(draftM, messages[t])
    BY <2>3, <2>4, <2>5 DEF Before
  <2>10. CommitAll(h, Append(draftM, m), draftP) /\ writer' = Nobody /\ draftM' = <<>> /\ draftP' = <<>>
    BY <1>3, <2>8 DEF Release
  <2>11. WorkbenchInv'
    BY <1>1, <1>3, <2>3, <2>4, <2>5, <2>6, <2>9, <2>10, TextCommit
  <2> QED
    BY <2>6, <2>11
<1> QED
  BY <1>1, <1>2, <1>3 DEF AnswerTurn

\* A request that ends with a new version and the message that shows it.
LEMMA ShowCommit ==
    ASSUME WorkbenchInv, NEW h \in Handlers, req[h].at \notin {"idle", "persist"}, Finish(h),
           NEW pre, Before(pre, messages[req[h].task]), NEW m \in Rows, NEW pp, NEW q \in Versions,
           \/ pp = proposals[req[h].task]
           \/ \E q1 \in Versions : /\ q1.completeness = "INCOMPLETE"
                                   /\ pp = Append(proposals[req[h].task], q1),
           m.kind = "PROPOSAL", m.version = Len(pp) + 1, m.by = q.by,
           CommitAll(h, Append(pre, m), Append(pp, q)),
           writer' = Nobody, draftM' = <<>>, draftP' = <<>>,
           UNCHANGED <<begun, crashes>>, [Promise!Talk]_messages
    PROVE  WorkbenchInv'
<1>1. TablesAreLogs /\ req[h].task \in Tasks
  BY RequestFacts DEF WorkbenchInv
<1>2. /\ messages' = [messages EXCEPT ![req[h].task] = Append(pre, m)]
      /\ proposals' = [proposals EXCEPT ![req[h].task] = Append(pp, q)] /\ UNCHANGED exists
  BY DEF CommitAll
<1>3. GoodCommit(req[h].task, Append(pre, m), Append(pp, q))
  BY <1>1, <1>2, SaidProposal
<1> QED
  BY <1>2, <1>3, LastCommit

\* The pending instruction is there for an adjustment and for nothing else.
LEMMA PendingFacts ==
    ASSUME WorkbenchInv, NEW h \in Handlers, req[h].at \in {"store", "apologise", "alone"},
           req[h].seq \notin DOMAIN Messages(h)
    PROVE  /\ UserText(req[h]) \in Rows /\ UserText(req[h]).kind = "TEXT"
           /\ req[h].op # "adjust" => Pending(h) = messages[req[h].task]
           /\ req[h].op = "adjust" => Pending(h) = Append(messages[req[h].task], UserText(req[h]))
           /\ Before(Pending(h), messages[req[h].task])
<1> DEFINE u == UserText(req[h])
           k == req[h].seq
<1>1. /\ req[h].op \in Endpoints /\ req[h].num \in RequestNumbers
      /\ NumbersFit(req[h], Len(Messages(h)), Len(Proposals(h)))
      /\ Messages(h) = messages[req[h].task] /\ Messages(h) \in Seq(Rows) /\ k \in Nat
  BY RequestFacts
<1>2. 0 \in VersionNumbers
  BY WorkbenchBounds DEF VersionNumbers
<1>3. u \in Rows /\ u.kind = "TEXT"
  <2>1. u \in Rows
    BY <1>1, <1>2, RequestRows
  <2> QED
    BY <2>1 DEF UserText, Message
<1>4. /\ k <= Len(Messages(h)) + 1
      /\ req[h].op = "adjust" => k >= 1
      /\ req[h].op # "adjust" => k = 0
  BY <1>1 DEF NumbersFit
<1>5. req[h].op # "adjust" => Pending(h) = messages[req[h].task]
  BY <1>1, <1>4 DEF Pending
<1>6. ASSUME req[h].op = "adjust" PROVE Pending(h) = Append(messages[req[h].task], u)
  <2>1. k >= 1
    BY <1>4, <1>6
  <2>2. Pending(h) = Put(Messages(h), k, u)
    BY <1>1, <2>1 DEF Pending
  <2> HIDE DEF u, k
  <2>3. k \notin DOMAIN Messages(h)
    BY DEF k
  <2>4. Put(Messages(h), k, u) = Append(Messages(h), u)
    BY <1>1, <1>3, <1>4, <2>1, <2>3, PutFree
  <2> QED
    BY <1>1, <2>2, <2>4
<1>7. Before(Pending(h), messages[req[h].task])
  <2> HIDE DEF u
  <2> QED
    BY <1>3, <1>5, <1>6 DEF Before
<1> QED
  BY <1>3, <1>5, <1>6, <1>7

LEMMA CommitInstructionStep ==
    ASSUME WorkbenchInv, NEW h \in Handlers, CommitInstruction(h), UNCHANGED <<begun, crashes>>
    PROVE  WorkbenchInv' /\ [Promise!Talk]_messages
<1> DEFINE t == req[h].task
           u == UserText(req[h])
<1>1. req[h].at = "alone" /\ writer = Nobody
  BY DEF CommitInstruction, At
<1>2. CASE req[h].seq \in DOMAIN Messages(h)
  BY <1>1, <1>2, FailStep DEF CommitInstruction
<1>3. CASE req[h].seq \notin DOMAIN Messages(h)
  <2>1. /\ OpFits(req[h]) /\ t \in Tasks /\ req[h].num \in RequestNumbers
        /\ Proposals(h) = proposals[t]
    BY <1>1, RequestFacts
  <2>2. req[h].op = "adjust"
    BY <1>1, <2>1 DEF OpFits
  <2>3. u \in Rows /\ u.kind = "TEXT" /\ Pending(h) = Append(messages[t], u)
    BY <1>1, <1>3, <2>2, PendingFacts
  <2>4. CommitAll(h, Append(messages[t], u), proposals[t]) /\ Finish(h) /\ UNCHANGED transaction
    BY <1>3, <2>1, <2>3 DEF CommitInstruction
  <2>5. writer' = Nobody /\ draftM' = <<>> /\ draftP' = <<>>
    BY <1>1, <2>4, NoDraft
  <2>6. messages' = [messages EXCEPT ![t] = Append(messages[t], u)]
    BY <2>4 DEF CommitAll
  <2>7. Promise!Talk
    BY <2>1, <2>2, <2>6, SaysInstruction DEF UserText
  <2>8. Before(messages[t], messages[t])
    BY DEF Before
  <2> HIDE DEF u
  <2>9. WorkbenchInv'
    BY <1>1, <2>3, <2>4, <2>5, <2>7, <2>8, TextCommit
  <2> QED
    BY <2>7, <2>9
<1> QED
  BY <1>2, <1>3

LEMMA ApologiseStep ==
    ASSUME WorkbenchInv, NEW h \in Handlers, Apologise(h), UNCHANGED <<begun, crashes>>
    PROVE  WorkbenchInv' /\ [Promise!Talk]_messages
<1> DEFINE t == req[h].task
           m == MentorError(req[h])
<1>1. req[h].at = "apologise" /\ writer = Nobody
  BY DEF Apologise, At
<1>2. CASE req[h].seq \in DOMAIN Messages(h) \/ req[h].next \in DOMAIN Pending(h)
  BY <1>1, <1>2, FailStep DEF Apologise
<1>3. CASE ~ (req[h].seq \in DOMAIN Messages(h) \/ req[h].next \in DOMAIN Pending(h))
  <2>1. /\ OpFits(req[h]) /\ req[h].op \in Endpoints /\ t \in Tasks /\ req[h].num \in RequestNumbers
        /\ NumbersFit(req[h], Len(Messages(h)), Len(Proposals(h)))
        /\ Messages(h) = messages[t] /\ Proposals(h) = proposals[t] /\ Messages(h) \in Seq(Rows)
        /\ req[h].next \in Nat /\ Len(Messages(h)) \in Nat
    BY <1>1, RequestFacts
  <2>2. req[h].next >= 1 /\ req[h].next <= Len(Messages(h)) + 1
    BY <1>1, <2>1 DEF NumbersFit
  <2>3. 0 \in VersionNumbers
    BY WorkbenchBounds DEF VersionNumbers
  <2>4. m \in Rows
    BY <2>1, <2>3, RequestRows
  <2>5. req[h].op # "adjust"
    <3> SUFFICES ASSUME req[h].op = "adjust" PROVE FALSE
      OBVIOUS
    <3> DEFINE u == UserText(req[h])
               n == req[h].next
    <3>1. u \in Rows /\ Pending(h) = Append(messages[t], u)
      BY <1>1, <1>3, PendingFacts
    <3> HIDE DEF u
    <3>2. DOMAIN Pending(h) = 1 .. Len(Messages(h)) + 1
      BY <2>1, <3>1, AppendFacts
    <3>3. n \in 1 .. Len(Messages(h)) + 1
      BY <2>1, <2>2
    <3> HIDE DEF n
    <3>4. n \notin DOMAIN Pending(h)
      BY <1>3 DEF n
    <3> QED
      BY <3>2, <3>3, <3>4
  <2>6. Pending(h) = messages[t]
    BY <1>1, <1>3, <2>5, PendingFacts
  <2>7. Put(Pending(h), req[h].next, m) = Append(messages[t], m)
    <3> HIDE DEF m
    <3> QED
      BY <1>3, <2>1, <2>2, <2>4, <2>6, PutFree
  <2>8. CommitAll(h, Append(messages[t], m), proposals[t]) /\ Finish(h) /\ UNCHANGED transaction
    BY <1>3, <2>1, <2>7 DEF Apologise
  <2>9. writer' = Nobody /\ draftM' = <<>> /\ draftP' = <<>>
    BY <1>1, <2>8, NoDraft
  <2>10. messages' = [messages EXCEPT ![t] = Append(messages[t], m)]
    BY <2>8 DEF CommitAll
  <2>11. Promise!Talk
    <3>1. req[h].op \in {"propose", "confirm"}
      BY <1>1, <2>1, <2>5 DEF OpFits
    <3> QED
      BY <2>1, <2>10, <3>1, SaysApology DEF MentorError
  <2>12. Before(messages[t], messages[t])
    BY DEF Before
  <2>13. m.kind # "PROPOSAL"
    BY DEF MentorError, Message
  <2> HIDE DEF m
  <2>14. WorkbenchInv'
    BY <1>1, <2>4, <2>8, <2>9, <2>11, <2>12, <2>13, TextCommit
  <2> QED
    BY <2>11, <2>14
<1> QED
  BY <1>2, <1>3

LEMMA ConfirmStep ==
    ASSUME WorkbenchInv, NEW h \in Handlers, Confirm(h), UNCHANGED <<begun, crashes>>
    PROVE  WorkbenchInv' /\ [Promise!Talk]_messages
<1> DEFINE t == req[h].task
           n == req[h].next
           k == req[h].seq
           r == Moved(req[h], "analyse", n, k)
<1>1. req[h].at = "confirm" /\ UNCHANGED tables
  BY DEF Confirm, At
<1>2. /\ req \in [Handlers -> Requests] /\ req[h] \in Requests /\ OpFits(req[h]) /\ writer # h
      /\ req[h].op \in Endpoints /\ t \in Tasks /\ req[h].num \in RequestNumbers
      /\ NumbersFit(req[h], Len(Messages(h)), Len(Proposals(h)))
      /\ Messages(h) = messages[t] /\ Proposals(h) = proposals[t]
      /\ req[h].next \in Nat /\ req[h].seq \in Nat /\ t \in exists
  BY <1>1, RequestFacts
<1>3. CASE Finish(h) /\ UNCHANGED transaction
  BY <1>1, <1>2, <1>3, FinishStep
<1>4. CASE GoTo(h, "analyse") /\ UNCHANGED transaction
  <2>1. "analyse" \in Steps \ {"idle"} /\ req[h].op = "confirm"
    BY <1>1, <1>2 DEF Steps, OpFits
  <2> QED
    BY <1>1, <1>2, <1>4, <2>1, GoToStep
<1>5. CASE writer = Nobody /\ Hold(h, Messages(h), Proposals(h)) /\ GoTo(h, "analyse")
  <2>1. req' = [req EXCEPT ![h] = r]
    BY <1>2, <1>5 DEF GoTo, Requests, Moved
  <2>2. /\ writer' = h /\ draftM' = messages[t] /\ draftP' = proposals[t]
        /\ UNCHANGED <<messages, proposals, exists>>
    BY <1>1, <1>2, <1>5 DEF Hold, tables
  <2>a. n \in Nat /\ k \in Nat /\ "analyse" \in Steps
    BY <1>2 DEF Steps
  <2> HIDE DEF n, k
  <2>3. /\ r \in Requests /\ r.at = "analyse" /\ r.next = n /\ r.seq = k /\ r.op = req[h].op
        /\ r.task = req[h].task /\ r.num = req[h].num
    <3>1. req[h] \in Requests
      BY <1>2
    <3> QED
      BY <3>1, <2>a, MovedRequest
  <2> HIDE DEF r
  <2>4. OpFits(r) /\ r.at \notin Creating
    BY <1>1, <1>2, <2>3 DEF OpFits, Creating
  <2>5. NumbersFit(r, Len(Messages(h)), Len(Proposals(h)))
    BY <1>1, <1>2, <2>3 DEF NumbersFit, k
  <2>6. Fits(r, exists, messages, proposals)
    BY <1>2, <2>3, <2>4, <2>5 DEF Fits
  <2>7. DraftIs(r, messages, proposals, draftM', draftP')
    BY <2>2, <2>3 DEF DraftIs
  <2>8. req[h].at # "idle"
    BY <1>1
  <2> QED
    BY <1>1, <1>5, <2>1, <2>2, <2>3, <2>4, <2>6, <2>7, <2>8, HoldStep
<1> QED
  BY <1>3, <1>4, <1>5 DEF Confirm

LEMMA AnalyseStep ==
    ASSUME WorkbenchInv, NEW h \in Handlers, Analyse(h), UNCHANGED <<begun, crashes>>
    PROVE  WorkbenchInv' /\ [Promise!Talk]_messages
<1> DEFINE t == req[h].task
           m == MentorError(req[h])
<1>1. req[h].at = "analyse"
  BY DEF Analyse, At
<1>o. req[h].op = "confirm"
  BY <1>1, RequestFacts DEF OpFits
<1>3. CASE Finish(h) /\ UNCHANGED tables /\ IF writer = h THEN Release ELSE UNCHANGED transaction
  <2>1. Fail(h)
    BY <1>3 DEF Fail
  <2> QED
    BY <1>1, <2>1, FailStep
<1>4. CASE /\ writer = h /\ CommitAll(h, AddMessage(draftM, m), draftP)
           /\ Release /\ Finish(h)
  <2>1. draftM = messages[t] /\ draftP = proposals[t] /\ messages[t] \in Seq(Rows)
    <3>1. DraftFits(req[h]) /\ messages[t] \in Seq(Rows)
      BY <1>1, <1>4, RequestFacts
    <3> QED
      BY <1>1, <3>1 DEF DraftFits, DraftIs
  <2>2. 0 \in VersionNumbers
    BY WorkbenchBounds DEF VersionNumbers
  <2>3. m \in Rows
    <3>1. req[h].op \in Endpoints /\ req[h].num \in RequestNumbers
      BY <1>1, RequestFacts
    <3> QED
      BY <2>2, <3>1, RequestRows
  <2>4. m.kind # "PROPOSAL"
    BY DEF MentorError, Message
  <2>5. AddMessage(draftM, m) = Append(messages[t], m)
    <3> HIDE DEF m
    <3> QED
      BY <2>1, <2>3, AddIsAppend
  <2>6. /\ CommitAll(h, Append(messages[t], m), proposals[t])
        /\ writer' = Nobody /\ draftM' = <<>> /\ draftP' = <<>>
    BY <1>4, <2>1, <2>5 DEF Release
  <2>7. messages' = [messages EXCEPT ![t] = Append(messages[t], m)]
    BY <2>6 DEF CommitAll
  <2>8. Promise!Talk
    <3>1. t \in Tasks /\ req[h].num \in RequestNumbers
      BY <1>1, RequestFacts
    <3> QED
      BY <1>o, <2>7, <3>1, SaysApology DEF MentorError
  <2>9. Before(messages[t], messages[t])
    BY DEF Before
  <2> HIDE DEF m
  <2>10. WorkbenchInv'
    BY <1>1, <1>4, <2>3, <2>4, <2>6, <2>8, <2>9, TextCommit
  <2> QED
    BY <2>8, <2>10
<1>5. CASE /\ writer # h
           /\ req' = [req EXCEPT ![h].at = "apologise", ![h].next = Highest(Messages(h)) + 1]
           /\ UNCHANGED <<tables, transaction>>
  <2>1. "apologise" \in Steps \ {"idle"}
    BY DEF Steps, Writing
  <2> QED
    BY <1>1, <1>o, <1>5, <2>1, ReadStep
<1> QED
  BY <1>3, <1>4, <1>5 DEF Analyse

LEMMA StoreProposalStep ==
    ASSUME WorkbenchInv, NEW h \in Handlers, StoreProposal(h), UNCHANGED <<begun, crashes>>
    PROVE  WorkbenchInv' /\ [Promise!Talk]_messages
<1> DEFINE t == req[h].task
           v == req[h].next
           m == MentorProposal(req[h], v)
<1>1. req[h].at = "store" /\ writer = Nobody
  BY DEF StoreProposal, At
<1>2. CASE Collides(h)
  BY <1>1, <1>2, FailStep DEF StoreProposal
<1>3. CASE ~ Collides(h)
  <2>1. /\ req \in [Handlers -> Requests] /\ req[h] \in Requests /\ OpFits(req[h])
        /\ req[h].op \in Endpoints /\ t \in Tasks /\ req[h].num \in RequestNumbers
        /\ NumbersFit(req[h], Len(Messages(h)), Len(Proposals(h)))
        /\ Messages(h) = messages[t] /\ Proposals(h) = proposals[t]
        /\ Messages(h) \in Seq(Rows) /\ Proposals(h) \in Seq(Versions)
        /\ Len(Proposals(h)) \in Nat /\ Len(Messages(h)) \in Nat
        /\ req[h].next \in Nat /\ req[h].seq \in Nat /\ req[h].prev \in VersionNumbers /\ t \in exists
    BY <1>1, RequestFacts
  <2>2. /\ UserText(req[h]) \in Rows /\ UserText(req[h]).kind = "TEXT"
        /\ req[h].op # "adjust" => Pending(h) = messages[t]
        /\ req[h].op = "adjust" => Pending(h) = Append(messages[t], UserText(req[h]))
        /\ Before(Pending(h), messages[t])
    BY <1>1, <1>3, PendingFacts DEF Collides
  <2>3. v >= 1 /\ v <= Len(Proposals(h)) + 1 /\ v <= MaxVersions /\ v \notin DOMAIN Proposals(h)
    BY <1>1, <1>3, <2>1 DEF NumbersFit, Collides
  <2>4. v = Len(proposals[t]) + 1
    <3> HIDE DEF v
    <3> QED
      BY <2>1, <2>3, FreeNumber DEF v
  <2>5. v \in VersionNumbers /\ v \in 1 .. MaxVersions
    BY <2>1, <2>3, WorkbenchBounds DEF VersionNumbers
  <2>6. m \in Rows /\ m.kind = "PROPOSAL" /\ m.version = v /\ m.by = req[h].num
    <3>1. m \in Rows
      BY <2>1, <2>5, RequestRows
    <3> QED
      BY <3>1 DEF MentorProposal, Message
  <2>7. PICK c \in Completeness :
          LET p == Put(Proposals(h), v, Proposal(req[h], c, req[h].prev))
          IN IF c = "INCOMPLETE" /\ req[h].op # "adjust"
             THEN /\ Hold(h, Pending(h), p) /\ GoTo(h, "supplement")
                  /\ UNCHANGED tables
             ELSE /\ CommitAll(h, AddMessage(Pending(h), m), p)
                  /\ Finish(h)
                  /\ UNCHANGED transaction
    BY <1>3 DEF StoreProposal
  <2> DEFINE q == Proposal(req[h], c, req[h].prev)
             p == Put(Proposals(h), v, q)
  <2>8. q \in Versions /\ q.completeness = c /\ q.by = req[h].num
    BY <2>1, <2>7, VersionTypes
  <2>9. p = Append(proposals[t], q)
    <3> HIDE DEF q, v
    <3> QED
      BY <2>1, <2>4, <2>8, PutIsAppend
  <2>10. CASE c = "INCOMPLETE" /\ req[h].op # "adjust"
    <3> DEFINE n == req[h].next
               k == req[h].seq
               r == Moved(req[h], "supplement", n, k)
    <3>1. Hold(h, Pending(h), p) /\ GoTo(h, "supplement") /\ UNCHANGED tables
      BY <2>7, <2>10
    <3>2. /\ writer' = h /\ draftM' = messages[t] /\ draftP' = Append(proposals[t], q)
          /\ UNCHANGED <<messages, proposals, exists>>
      BY <2>2, <2>9, <2>10, <3>1 DEF Hold, tables
    <3>3. req' = [req EXCEPT ![h] = r]
      BY <2>1, <3>1 DEF GoTo, Requests, Moved
    <3>a. n \in Nat /\ k \in Nat /\ "supplement" \in Steps
      BY <2>1 DEF Steps
    <3>n. n = Len(proposals[t]) + 1 /\ n <= MaxVersions
      BY <2>3, <2>4
    <3> HIDE DEF n, k
    <3>4. /\ r \in Requests /\ r.at = "supplement" /\ r.next = n /\ r.seq = k /\ r.op = req[h].op
          /\ r.task = req[h].task /\ r.num = req[h].num /\ r.prev = req[h].prev
      <4>1. req[h] \in Requests
        BY <2>1
      <4> QED
        BY <4>1, <3>a, MovedRequest
    <3> HIDE DEF r
    <3>5. OpFits(r) /\ r.at \notin Creating
      <4>1. req[h].op \in {"cli", "propose"}
        BY <1>1, <2>1, <2>10 DEF OpFits
      <4> QED
        BY <3>4, <4>1 DEF OpFits, Creating
    <3>6. NumbersFit(r, Len(Messages(h)), Len(Proposals(h)))
      BY <1>1, <2>1, <2>10, <3>4 DEF NumbersFit, k
    <3>7. Fits(r, exists, messages, proposals)
      BY <2>1, <3>4, <3>5, <3>6 DEF Fits
    <3>8. Proposal(r, "INCOMPLETE", r.prev) = q
      BY <2>10, <3>4 DEF Proposal
    <3>9. DraftIs(r, messages, proposals, draftM', draftP')
      <4> HIDE DEF q
      <4> QED
        BY <3>2, <3>4, <3>8, <3>n DEF DraftIs
    <3>10. req[h].at # "idle"
      BY <1>1
    <3> QED
      BY <1>1, <3>2, <3>3, <3>4, <3>5, <3>7, <3>9, <3>10, HoldStep
  <2>11. CASE ~ (c = "INCOMPLETE" /\ req[h].op # "adjust")
    <3>1. CommitAll(h, AddMessage(Pending(h), m), p) /\ Finish(h) /\ UNCHANGED transaction
         
      BY <2>7, <2>11
    <3>2. Pending(h) \in Seq(Rows)
      BY <2>1, <2>2, BeforeFacts
    <3>3. AddMessage(Pending(h), m) = Append(Pending(h), m)
      <4> HIDE DEF m
      <4> QED
        BY <2>6, <3>2, AddIsAppend
    <3>4. CommitAll(h, Append(Pending(h), m), Append(proposals[t], q))
      BY <2>9, <3>1, <3>3
    <3>5. writer' = Nobody /\ draftM' = <<>> /\ draftP' = <<>>
      BY <1>1, <3>1, NoDraft
    <3>6. messages' = [messages EXCEPT ![t] = Append(Pending(h), m)]
      BY <3>4 DEF CommitAll
    <3>7. Promise!Talk
      <4>1. CASE req[h].op = "adjust"
        <5>1. messages' = [messages EXCEPT ![t] = Append(Append(messages[t], UserText(req[h])), m)]
          BY <2>2, <3>6, <4>1
        <5> QED
          BY <2>1, <2>5, <4>1, <5>1, SaysRevision DEF UserText, MentorProposal
      <4>2. CASE req[h].op # "adjust"
        <5>1. messages' = [messages EXCEPT ![t] = Append(messages[t], m)]
          BY <2>2, <3>6, <4>2
        <5>2. req[h].op \in {"propose", "cli"}
          BY <1>1, <2>1, <4>2 DEF OpFits
        <5> QED
          BY <2>1, <2>5, <5>1, <5>2, SaysShowing DEF MentorProposal
      <4> QED
        BY <4>1, <4>2
    <3>8. m.version = Len(proposals[t]) + 1 /\ m.by = q.by
      BY <2>4, <2>6, <2>8
    <3> HIDE DEF m, q
    <3>9. WorkbenchInv'
      BY <1>1, <2>2, <2>6, <2>8, <3>1, <3>4, <3>5, <3>7, <3>8, ShowCommit
    <3> QED
      BY <3>7, <3>9
  <2> QED
    BY <2>10, <2>11
<1> QED
  BY <1>2, <1>3

LEMMA SupplementStep ==
    ASSUME WorkbenchInv, NEW h \in Handlers, Supplement(h), UNCHANGED <<begun, crashes>>
    PROVE  WorkbenchInv' /\ [Promise!Talk]_messages
<1> DEFINE t == req[h].task
           q1 == Proposal(req[h], "INCOMPLETE", req[h].prev)
<1>1. req[h].at = "supplement" /\ writer = h
  BY DEF Supplement, At
<1>2. /\ OpFits(req[h]) /\ req[h].op \in Endpoints /\ t \in Tasks /\ req[h].num \in RequestNumbers
      /\ messages[t] \in Seq(Rows) /\ proposals[t] \in Seq(Versions)
      /\ Len(proposals[t]) \in Nat /\ Len(messages[t]) \in Nat
      /\ req[h].next \in Nat /\ req[h].prev \in VersionNumbers
      /\ DraftFits(req[h])
  BY <1>1, RequestFacts
<1>3. /\ draftM = messages[t] /\ draftP = Append(proposals[t], q1)
      /\ req[h].next = Len(proposals[t]) + 1 /\ req[h].next <= MaxVersions
  BY <1>1, <1>2 DEF DraftFits, DraftIs
<1>4. q1 \in Versions /\ q1.completeness = "INCOMPLETE"
  <2>1. "INCOMPLETE" \in Completeness
    BY DEF Completeness
  <2> QED
    BY <1>2, <2>1, VersionTypes
<1>5. Before(messages[t], messages[t])
  BY DEF Before
<1>6. draftP \in Seq(Versions) /\ Len(draftP) = Len(proposals[t]) + 1 /\ Highest(draftP) = Len(draftP)
  <2> HIDE DEF q1
  <2>1. draftP \in Seq(Versions) /\ Len(draftP) = Len(proposals[t]) + 1
    BY <1>2, <1>3, <1>4, AppendFacts
  <2> QED
    BY <2>1, HighestIsLen
<1> HIDE DEF q1
<1>7. ASSUME NEW c \in Completeness,
             LET v == Highest(draftP) + 1
             IN /\ v <= MaxVersions
                /\ CommitAll(h, AddMessage(draftM, MentorProposal(req[h], v)),
                             Put(draftP, v, Proposal(req[h], c, req[h].next)))
                /\ Release /\ Finish(h)
               
      PROVE  WorkbenchInv' /\ [Promise!Talk]_messages
  <2> DEFINE v == Len(draftP) + 1
             m == MentorProposal(req[h], v)
             q == Proposal(req[h], c, req[h].next)
  <2>1. /\ v <= MaxVersions /\ CommitAll(h, AddMessage(draftM, m), Put(draftP, v, q))
        /\ Finish(h)
        /\ writer' = Nobody /\ draftM' = <<>> /\ draftP' = <<>>
    BY <1>6, <1>7 DEF Release
  <2>2. v \in VersionNumbers /\ v \in 1 .. MaxVersions /\ req[h].next \in VersionNumbers
    BY <1>2, <1>3, <1>6, <2>1, WorkbenchBounds DEF VersionNumbers
  <2>3. m \in Rows /\ m.kind = "PROPOSAL" /\ m.version = v /\ m.by = req[h].num
    <3>1. m \in Rows
      BY <1>2, <2>2, RequestRows
    <3> QED
      BY <3>1 DEF MentorProposal, Message
  <2>4. q \in Versions /\ q.by = req[h].num
    BY <1>2, <2>2, VersionTypes
  <2>5. AddMessage(draftM, m) = Append(messages[t], m) /\ Put(draftP, v, q) = Append(draftP, q)
    <3> HIDE DEF m, q
    <3> QED
      BY <1>2, <1>3, <1>6, <2>3, <2>4, AddIsAppend, PutIsAppend
  <2>6. CommitAll(h, Append(messages[t], m), Append(draftP, q))
    BY <2>1, <2>5
  <2>7. messages' = [messages EXCEPT ![t] = Append(messages[t], m)]
    BY <2>6 DEF CommitAll
  <2>8. Promise!Talk
    <3>1. req[h].op \in {"propose", "cli"}
      BY <1>1, <1>2 DEF OpFits
    <3> HIDE DEF v
    <3> QED
      BY <1>2, <2>2, <2>7, <3>1, SaysShowing DEF MentorProposal
  <2>9. m.version = Len(draftP) + 1 /\ m.by = q.by
    BY <2>3, <2>4
  <2> HIDE DEF m, q
  <2>10. WorkbenchInv'
    BY <1>1, <1>3, <1>4, <1>5, <2>1, <2>3, <2>4, <2>6, <2>8, <2>9, ShowCommit
  <2> QED
    BY <2>8, <2>10
<1>8. ASSUME req[h].op = "propose", NEW m \in {draftM, AddMessage(draftM, MentorError(req[h]))},
             CommitAll(h, m, draftP), Release, Finish(h)
      PROVE  WorkbenchInv' /\ [Promise!Talk]_messages
  <2>1. writer' = Nobody /\ draftM' = <<>> /\ draftP' = <<>>
    BY <1>8 DEF Release
  <2>2. CASE m = draftM
    <3>1. /\ messages' = [messages EXCEPT ![t] = messages[t]]
          /\ proposals' = [proposals EXCEPT ![t] = Append(proposals[t], q1)] /\ UNCHANGED exists
      BY <1>3, <1>8, <2>2 DEF CommitAll
    <3>2. TablesAreLogs
      BY DEF WorkbenchInv
    <3>3. GoodCommit(t, messages[t], Append(proposals[t], q1))
      BY <1>2, <1>4, <3>1, <3>2, SaidNothing
    <3>4. messages' = messages
      BY <1>2, <3>1, <3>2 DEF TablesAreLogs
    <3>5. WorkbenchInv'
      BY <1>1, <1>8, <2>1, <3>1, <3>3, <3>4, LastCommit
    <3> QED
      BY <3>4, <3>5
  <2>3. CASE m = AddMessage(draftM, MentorError(req[h]))
    <3> DEFINE e == MentorError(req[h])
    <3>1. 0 \in VersionNumbers
      BY WorkbenchBounds DEF VersionNumbers
    <3>2. e \in Rows
      BY <1>2, <3>1, RequestRows
    <3>3. e.kind # "PROPOSAL"
      BY DEF MentorError, Message
    <3>4. AddMessage(draftM, e) = Append(messages[t], e)
      <4> HIDE DEF e
      <4> QED
        BY <1>2, <1>3, <3>2, AddIsAppend
    <3>5. CommitAll(h, Append(messages[t], e), draftP)
      BY <1>8, <2>3, <3>4
    <3>6. messages' = [messages EXCEPT ![t] = Append(messages[t], e)]
      BY <3>5 DEF CommitAll
    <3>7. Promise!Talk
      BY <1>2, <1>8, <3>6, SaysApology DEF MentorError
    <3> HIDE DEF e
    <3>8. WorkbenchInv'
      BY <1>1, <1>3, <1>4, <1>5, <1>8, <2>1, <3>2, <3>3, <3>5, <3>7, TextCommit
    <3> QED
      BY <3>7, <3>8
  <2> QED
    BY <1>8, <2>2, <2>3
<1>9. ASSUME Fail(h)
      PROVE  WorkbenchInv' /\ [Promise!Talk]_messages
  BY <1>1, <1>9, FailStep
<1> QED
  BY <1>7, <1>8, <1>9 DEF Supplement

Begun(op, at, t, n, v) == [Idle EXCEPT !.op = op, !.at = at, !.task = t, !.num = n, !.prev = v]

LEMMA BegunRequest ==
    ASSUME NEW op \in Endpoints, NEW at \in Steps, NEW t \in Tasks, NEW n \in 0 .. MaxRequests,
           NEW v \in 0 .. MaxVersions
    PROVE  /\ Begun(op, at, t, n, v) \in Requests
           /\ Begun(op, at, t, n, v).op = op /\ Begun(op, at, t, n, v).at = at
           /\ Begun(op, at, t, n, v).task = t /\ Begun(op, at, t, n, v).num = n
           /\ Begun(op, at, t, n, v).seq = 0 /\ Begun(op, at, t, n, v).next = 0
<1>1. Idle \in Requests /\ Idle.seq = 0 /\ Idle.next = 0
  BY IdleIsRequest DEF Idle
<1> QED
  BY <1>1 DEF Requests, Begun

LEMMA BeginStep ==
    ASSUME WorkbenchInv, NEW h \in Handlers, Begin(h)
    PROVE  WorkbenchInv' /\ [Promise!Talk]_messages
<1> USE DEF WorkbenchInv
<1>1. req[h].at = "idle" /\ begun < MaxRequests /\ begun' = begun + 1
      /\ UNCHANGED <<tables, transaction, crashes>>
  BY DEF Begin, At
<1>2. PICK op \in Calls[h], t \in Tasks, v \in 0 .. MaxVersions :
        /\ IF op \in {"task", "cli"}
           THEN t \notin exists /\ \A g \in Handlers : req[g].task # t
           ELSE t \in exists
        /\ req' = [req EXCEPT ![h] = [Idle EXCEPT !.op = op, !.at = FirstStep[op], !.task = t,
                                                   !.num = begun', !.prev = v]]
  BY DEF Begin
<1> DEFINE at == FirstStep[op]
           n == begun + 1
           r == Begun(op, at, t, n, v)
<1>3. req' = [req EXCEPT ![h] = r]
  BY <1>1, <1>2 DEF Begun
<1>4. req \in [Handlers -> Requests] /\ TablesAreLogs
  BY DEF RequestsFit
<1>5. op \in Endpoints
  BY <1>2, WorkbenchNames
<1>6. /\ FirstStep[op] \in {"persist", "read", "route", "call", "instruct", "confirm"}
      /\ FirstStep[op] = "persist" <=> op \in {"task", "cli"}
      /\ FirstStep[op] = "read" => op = "message"
      /\ FirstStep[op] = "route" => op = "turn"
      /\ FirstStep[op] = "call" => op = "propose"
      /\ FirstStep[op] = "instruct" => op = "adjust"
      /\ FirstStep[op] = "confirm" => op = "confirm"
  BY <1>5 DEF Endpoints, FirstStep
<1>7. begun + 1 \in RequestNumbers /\ begun + 1 \in 0 .. MaxRequests
  BY <1>1, WorkbenchBounds DEF CountersFit, RequestNumbers
<1>8. at \in Steps /\ n \in 0 .. MaxRequests /\ op \in Endpoints
  BY <1>5, <1>6, <1>7 DEF Steps, Writing
<1> HIDE DEF at, n
<1>9. /\ r \in Requests
      /\ r.op = op /\ r.at = at /\ r.task = t /\ r.num = n /\ r.seq = 0 /\ r.next = 0
  BY <1>2, <1>8, BegunRequest
<1> HIDE DEF r
<1>10. OpFits(r)
  BY <1>6, <1>9 DEF OpFits, at
<1>11. messages[t] \in Seq(Rows) /\ Len(messages[t]) \in Nat
  BY <1>2, <1>4, TablesHaveLengths
<1>12. NumbersFit(r, Len(messages[t]), Len(proposals[t]))
  <2> DEFINE l == Len(messages[t])
             p == Len(proposals[t])
  <2>1. l \in Nat
    BY <1>11
  <2> HIDE DEF l, p
  <2>2. NumbersFit(r, l, p)
    BY <1>6, <1>9, <2>1 DEF NumbersFit, at
  <2> QED
    BY <2>2 DEF l, p
<1>13. r.at # "persist" => t \in exists
  BY <1>2, <1>6, <1>9 DEF TablesAreLogs, at
<1>14. Fits(r, exists, messages, proposals)
  BY <1>2, <1>5, <1>7, <1>9, <1>10, <1>12, <1>13 DEF Fits, n
<1>15. UNCHANGED <<messages, proposals, exists, crashes>>
  BY <1>1 DEF tables
<1>16. TablesAreLogs' /\ ShownFit'
  <2>1. exists' \subseteq Tasks /\ exists \subseteq exists'
    BY <1>15 DEF TablesAreLogs
  <2> QED
    BY <1>15, <2>1, SameTables
<1>17. OneDraft'
  <2>1. writer # h
    BY <1>1 DEF OneDraft, DraftFits, DraftIs
  <2> QED
    BY <1>1, <1>3, <1>4, <1>15, <2>1, DraftStays
<1>18. CountersFit'
  BY <1>1, <1>7 DEF CountersFit
<1>19. req' \in [Handlers -> Requests] /\ req'[h] = r /\ \A g \in Handlers \ {h} : req'[g] = req[g]
  BY <1>3, <1>4, <1>9
<1>20. RequestsFit'
  <2>1. \A g \in Handlers : Fits(req'[g], exists, messages, proposals)
    BY <1>14, <1>19 DEF RequestsFit, RequestFits
  <2>2. \A g \in Handlers : RequestFits(req[g])'
    BY <1>15, <2>1 DEF RequestFits
  <2> QED
    BY <1>19, <2>2 DEF RequestsFit
<1>21. ASSUME NEW g \in Handlers, req'[g].at \in Creating
       PROVE  /\ ~IsOpened(messages'[req'[g].task])
              /\ \A k \in Handlers \ {g} : req'[k].at \in Creating => req'[k].task # req'[g].task
  <2>1. r.at \in Creating => t \notin exists /\ \A k \in Handlers : req[k].task # t
    BY <1>2, <1>6, <1>9 DEF Creating, at
  <2>2. CASE g = h
    <3>1. messages[t] = <<>>
      BY <1>2, <1>19, <1>21, <2>1, <2>2 DEF TablesAreLogs
    <3>2. ~IsOpened(messages[t])
      BY <3>1 DEF IsOpened
    <3> QED
      BY <1>9, <1>15, <1>19, <1>21, <2>1, <2>2, <3>2
  <2>3. CASE g # h
    <3>1. req'[g] = req[g] /\ req[g].at \in Creating
      BY <1>19, <1>21, <2>3
    <3>2. /\ ~IsOpened(messages[req[g].task])
          /\ \A k \in Handlers \ {g} : req[k].at \in Creating => req[k].task # req[g].task
      BY <3>1 DEF CreatedAlone
    <3> QED
      BY <1>9, <1>15, <1>19, <2>1, <2>3, <3>1, <3>2
  <2> QED
    BY <2>2, <2>3
<1>22. CreatedAlone'
  BY <1>21 DEF CreatedAlone
<1> QED
  BY <1>15, <1>16, <1>17, <1>18, <1>20, <1>22

LEMMA CrashStep ==
    ASSUME WorkbenchInv, Crash
    PROVE  WorkbenchInv' /\ [Promise!Talk]_messages
<1> USE DEF WorkbenchInv
<1>1. /\ crashes < MaxCrashes /\ crashes' = crashes + 1 /\ req' = [h \in Handlers |-> Idle]
      /\ writer' = Nobody /\ draftM' = <<>> /\ draftP' = <<>>
      /\ UNCHANGED <<exists, messages, proposals, begun>>
  BY DEF Crash, Release, tables
<1>2. TablesAreLogs' /\ ShownFit'
  <2>1. exists' \subseteq Tasks /\ exists \subseteq exists'
    BY <1>1 DEF TablesAreLogs
  <2> QED
    BY <1>1, <2>1, SameTables
<1>3. OneDraft'
  BY <1>1, WorkbenchNames DEF OneDraft
<1>4. CountersFit'
  BY <1>1, WorkbenchBounds DEF CountersFit
<1>5. req' \in [Handlers -> Requests] /\ \A h \in Handlers : req'[h] = Idle
  BY <1>1, IdleIsRequest
<1>6. RequestsFit'
  BY <1>5, IdleFits DEF RequestsFit, RequestFits
<1>7. CreatedAlone'
  BY <1>5, IdleIsRequest DEF CreatedAlone, Creating
<1> QED
  BY <1>1, <1>2, <1>3, <1>4, <1>6, <1>7

LEMMA WorkbenchInitially == WorkbenchInit => WorkbenchInv /\ Promise!ConversationInit
<1> SUFFICES ASSUME WorkbenchInit PROVE WorkbenchInv /\ Promise!ConversationInit
  OBVIOUS
<1> USE DEF WorkbenchInit
<1>1. TablesAreLogs
  BY DEF TablesAreLogs
<1>2. req \in [Handlers -> Requests] /\ \A h \in Handlers : req[h] = Idle
  BY IdleIsRequest
<1>3. RequestsFit
  BY <1>2, IdleFits DEF RequestsFit, RequestFits
<1>4. CreatedAlone
  BY <1>2, IdleIsRequest DEF CreatedAlone, Creating
<1>5. OneDraft
  BY WorkbenchNames DEF OneDraft
<1>6. CountersFit
  BY WorkbenchBounds DEF CountersFit
<1>7. \A t \in Tasks : DOMAIN messages[t] = {} /\ DOMAIN proposals[t] = {}
  BY <1>1
<1>8. ShownFit
  BY <1>7 DEF ShownFit, ConfirmableWasShown, AnnouncedExists, ShownInOrder
<1> QED
  BY <1>1, <1>3, <1>4, <1>5, <1>6, <1>8 DEF WorkbenchInv, Promise!ConversationInit

LEMMA WorkbenchStep ==
    WorkbenchInv /\ [WorkbenchNext]_vars => WorkbenchInv' /\ [Promise!ConversationNext]_messages
<1> SUFFICES ASSUME WorkbenchInv, [WorkbenchNext]_vars
             PROVE  WorkbenchInv' /\ [Promise!ConversationNext]_messages
  OBVIOUS
<1>1. ASSUME NEW h \in Handlers, Step(h)
      PROVE  WorkbenchInv' /\ [Promise!ConversationNext]_messages
  <2>1. UNCHANGED <<begun, crashes>>
    BY <1>1 DEF Step
  <2>2. CASE PersistTask(h) \/ LookForOpening(h) \/ OpenConversation(h)
    BY <2>1, <2>2, PersistTaskStep, LookForOpeningStep, OpenConversationStep, TalkIsNext
  <2>3. CASE ReadSequence(h) \/ PostMessage(h) \/ RouteTurn(h) \/ AskQuestion(h) \/ AnswerTurn(h)
    BY <2>1, <2>3, ReadSequenceStep, PostMessageStep, RouteTurnStep, AskQuestionStep, AnswerTurnStep,
       TalkIsNext
  <2>4. CASE \/ AddInstruction(h) \/ CallModel(h) \/ StoreProposal(h) \/ Supplement(h)
             \/ Apologise(h) \/ CommitInstruction(h)
    BY <2>1, <2>4, AddInstructionStep, CallModelStep, StoreProposalStep, SupplementStep,
       ApologiseStep, CommitInstructionStep, TalkIsNext
  <2>5. CASE Confirm(h) \/ Analyse(h) \/ BusyTimeout(h)
    BY <2>1, <2>5, ConfirmStep, AnalyseStep, BusyTimeoutStep, TalkIsNext
  <2> QED
    BY <1>1, <2>2, <2>3, <2>4, <2>5 DEF Step
<1>2. CASE UNCHANGED vars
  <2>1. /\ UNCHANGED <<exists, messages, proposals, begun, crashes, req, writer, draftM, draftP>>
    BY <1>2 DEF vars
  <2>2. TablesAreLogs' /\ ShownFit'
    <3>1. exists' \subseteq Tasks /\ exists \subseteq exists'
      BY <2>1 DEF WorkbenchInv, TablesAreLogs
    <3> QED
      BY <2>1, <3>1, SameTables DEF WorkbenchInv
  <2> QED
    BY <2>1, <2>2 DEF WorkbenchInv, RequestsFit, RequestFits, CreatedAlone, OneDraft, DraftFits, CountersFit
<1> QED
  BY <1>1, <1>2, BeginStep, CrashStep, TalkIsNext DEF WorkbenchNext

LEMMA InvTypes == WorkbenchInv => WorkbenchTypeOK
<1> SUFFICES ASSUME WorkbenchInv PROVE WorkbenchTypeOK
  OBVIOUS
<1>1. \A t \in Tasks : Numbered(messages[t], Rows) /\ Numbered(proposals[t], Versions)
  <2>1. \A t \in Tasks : messages[t] \in Seq(Rows) /\ proposals[t] \in Seq(Versions)
    BY DEF WorkbenchInv, TablesAreLogs
  <2> QED
    BY <2>1, SequencesAreNumbered
<1>2. draftM \in Seq(Rows) /\ draftP \in Seq(Versions)
  <2>1. CASE writer = Nobody
    BY <2>1 DEF WorkbenchInv, OneDraft
  <2>2. CASE writer \in Handlers
    <3> DEFINE r == req[writer]
    <3>1. DraftFits(r) /\ r.at # "idle"
      BY <2>2 DEF WorkbenchInv, OneDraft, DraftFits, DraftIs
    <3>2. /\ r.op \in Endpoints /\ r.num \in RequestNumbers /\ r.prev \in VersionNumbers
          /\ messages[r.task] \in Seq(Rows) /\ proposals[r.task] \in Seq(Versions)
      BY <2>2, <3>1, RequestFacts
    <3>3. UserText(r) \in Rows
      BY <3>2, RequestRows
    <3>4. Proposal(r, "INCOMPLETE", r.prev) \in Versions
      <4>1. "INCOMPLETE" \in Completeness
        BY DEF Completeness
      <4> QED
        BY <3>2, <4>1, VersionTypes
    <3>5. /\ Append(messages[r.task], UserText(r)) \in Seq(Rows)
          /\ Append(proposals[r.task], Proposal(r, "INCOMPLETE", r.prev)) \in Seq(Versions)
      BY <3>2, <3>3, <3>4, AppendFacts
    <3> HIDE DEF r
    <3> QED
      BY <3>1, <3>2, <3>5 DEF DraftFits, DraftIs
  <2> QED
    BY <2>1, <2>2 DEF WorkbenchInv, OneDraft
<1>3. Numbered(draftM, Rows) /\ Numbered(draftP, Versions)
  BY <1>2, SequencesAreNumbered
<1> QED
  BY <1>1, <1>3 DEF WorkbenchTypeOK, WorkbenchInv, TablesAreLogs, OneDraft, CountersFit, RequestsFit

-----------------------------------------------------------------------------
(* The theorems. *)

\* Whatever requests interleave, messages and versions are numbered from 1 without a
\* gap: the numbers that _add_workbench_message() and generate() read too early are
\* refused by the unique indexes and never leave a hole.
THEOREM WorkbenchTypeCorrect == WorkbenchSpec => []WorkbenchTypeOK
<1>1. WorkbenchInit => WorkbenchInv
  BY WorkbenchInitially
<1>2. WorkbenchInv /\ [WorkbenchNext]_vars => WorkbenchInv'
  BY WorkbenchStep
<1>3. WorkbenchInv => WorkbenchTypeOK
  BY InvTypes
<1> QED
  BY <1>1, <1>2, <1>3, PTL DEF WorkbenchSpec

\* A version that can be confirmed or decided about was shown by the request that
\* made it, also when a supplement fails or the process dies.
THEOREM ConfirmableIsShown == WorkbenchSpec => []ConfirmableWasShown
<1>1. WorkbenchInit => WorkbenchInv
  BY WorkbenchInitially
<1>2. WorkbenchInv /\ [WorkbenchNext]_vars => WorkbenchInv'
  BY WorkbenchStep
<1>3. WorkbenchInv => ConfirmableWasShown
  BY DEF WorkbenchInv, ShownFit
<1> QED
  BY <1>1, <1>2, <1>3, PTL DEF WorkbenchSpec

\* Versions are shown in the order of their numbers, although the number of a version
\* and the number of its message are read at different times.
THEOREM VersionsShownInOrder == WorkbenchSpec => []ShownInOrder
<1>1. WorkbenchInit => WorkbenchInv
  BY WorkbenchInitially
<1>2. WorkbenchInv /\ [WorkbenchNext]_vars => WorkbenchInv'
  BY WorkbenchStep
<1>3. WorkbenchInv => ShownInOrder
  BY DEF WorkbenchInv, ShownFit
<1> QED
  BY <1>1, <1>2, <1>3, PTL DEF WorkbenchSpec

\* The endpoints implement the conversation: every step of the tables adds a whole
\* contribution to one log, or nothing.
THEOREM ImplementsConversation == WorkbenchSpec => KeepsConversation
<1>1. WorkbenchInit => WorkbenchInv /\ Promise!ConversationInit
  BY WorkbenchInitially
<1>2. WorkbenchInv /\ [WorkbenchNext]_vars => WorkbenchInv' /\ [Promise!ConversationNext]_messages
  BY WorkbenchStep
<1> QED
  BY <1>1, <1>2, PTL DEF WorkbenchSpec, KeepsConversation, Promise!ConversationSpec
=============================================================================
