------------------------------ MODULE Workbench ------------------------------
(***************************************************************************)
(* The workbench: tasks, the numbered messages of their conversation and   *)
(* the versions of their proposal, as the endpoints of tasks, messages,    *)
(* mentor turns and proposals and the command line write them.             *)
(*                                                                         *)
(* A request runs in one database session per with-block.  Reads before    *)
(* the first flush are not part of a transaction; the first flush takes    *)
(* SQLite's write lock, and the session keeps it to its commit or          *)
(* rollback, through a call of the model if there is one.  So a request    *)
(* is a few steps: what it reads, the flush, the call, the commit.  The    *)
(* unique indexes on (task, sequence) and (task, version) are what makes a *)
(* number that was read too early fail instead of overwrite: a row table   *)
(* is a function from its number.                                          *)
(*                                                                         *)
(* The status of tasks and proposals is the business of ChangeGovernance.  *)
(***************************************************************************)
EXTENDS Naturals, Sequences, FiniteSets

CONSTANTS
    Tasks, NoTask,
    Handlers, Nobody,   \* requests in flight; nobody holds the write lock
    Calls,              \* bound: the endpoints whose requests each handler carries
    ClientPosts,        \* what a client posts by itself, as [role, kind, version]
    MaxVersions,        \* bound: versions of a task's proposal
    MaxRequests,        \* bound: requests ever made
    MaxCrashes          \* bound: crashes of the process

Endpoints == {"task", "cli", "message", "turn", "propose", "adjust", "confirm"}

ASSUME WorkbenchBounds ==
    MaxVersions \in Nat /\ MaxRequests \in Nat /\ MaxCrashes \in Nat

ASSUME WorkbenchNames ==
    /\ NoTask \notin Tasks /\ Nobody \notin Handlers
    /\ Calls \in [Handlers -> SUBSET Endpoints]

ASSUME ClientPostsType ==
    ClientPosts \subseteq [role : {"USER", "MENTOR", "SYSTEM"}, kind : {"TEXT", "PROPOSAL", "ERROR"},
                           version : 0 .. MaxVersions]

VARIABLES
    exists,    \* rows of change_tasks
    messages,  \* workbench_messages: by task and sequence
    proposals, \* change_proposals: by task and version
    writer,    \* who holds the write lock
    draftM,    \* the messages of the writer's task as its transaction has them
    draftP,    \* its proposals
    begun,     \* requests so far
    crashes,   \* crashes so far
    req        \* the requests in flight

tables == <<exists, messages, proposals>>
transaction == <<writer, draftM, draftP>>
vars == <<exists, messages, proposals, writer, draftM, draftP, begun, crashes, req>>

\* A request: its endpoint and what it does next, its task and its number, the
\* sequence of an instruction not flushed yet, the number read last, and the
\* version it works on.
Idle == [op |-> "idle", at |-> "idle", task |-> NoTask, num |-> 0, seq |-> 0, next |-> 0, prev |-> 0]

Message(op, num, role, kind, version) ==
    [op |-> op, by |-> num, role |-> role, kind |-> kind, version |-> version]

UserText(r) == Message(r.op, r.num, "USER", "TEXT", 0)
MentorText(r) == Message(r.op, r.num, "MENTOR", "TEXT", 0)
MentorProposal(r, v) == Message(r.op, r.num, "MENTOR", "PROPOSAL", v)
MentorError(r) == Message(r.op, r.num, "MENTOR", "ERROR", 0)

\* What ProposalCompletenessService.evaluate() finds in a proposal.
Completeness == {"COMPLETE", "PARTIALLY_COMPLETE", "INCOMPLETE"}

Proposal(r, c, supersedes) == [completeness |-> c, by |-> r.num, supersedes |-> supersedes]

\* Mutant of Highest: coalesce(max(number), 1).
HighestOrOne(table) ==
    IF DOMAIN table = {} THEN 1 ELSE CHOOSE k \in DOMAIN table : \A i \in DOMAIN table : i <= k

\* select coalesce(max(number), 0), for messages and for versions.
Highest(table) == CHOOSE k \in DOMAIN table \union {0} : \A i \in DOMAIN table : i <= k

\* An insert: the table with one row more.
Put(table, k, row) == [i \in DOMAIN table \union {k} |-> IF i = k THEN row ELSE table[i]]

\* _add_workbench_message() in a transaction that is already open.
AddMessage(table, m) == Put(table, Highest(table) + 1, m)

-----------------------------------------------------------------------------
(* Steps of a request. *)

At(h, step) == req[h].at = step
GoTo(h, step) == req' = [req EXCEPT ![h].at = step]
Finish(h) == req' = [req EXCEPT ![h] = Idle]

\* session.commit() of a transaction that did not keep the lock before.
CommitAll(h, m, p) ==
    /\ messages' = [messages EXCEPT ![req[h].task] = m]
    /\ proposals' = [proposals EXCEPT ![req[h].task] = p]
    /\ UNCHANGED exists

Release == writer' = Nobody /\ draftM' = <<>> /\ draftP' = <<>>

Hold(h, m, p) == writer' = h /\ draftM' = m /\ draftP' = p

\* What the session of h sees of its task.
Messages(h) == messages[req[h].task]
Proposals(h) == proposals[req[h].task]

\* An exception leaves session_scope(): rollback, and the answer is an error.
Fail(h) ==
    /\ Finish(h)
    /\ IF writer = h THEN Release ELSE UNCHANGED transaction
    /\ UNCHANGED tables

-----------------------------------------------------------------------------
(* POST /api/tasks and HarnessApplication.create_task() *)

\* TaskService.create_task(): the task is committed by itself, before its message,
\* and others may write to its conversation from then on.  The endpoint numbers the
\* message 1 all the same, the command line looks.
PersistTask(h) ==
    /\ At(h, "persist") /\ writer = Nobody
    /\ exists' = exists \union {req[h].task}
    /\ req' = [req EXCEPT ![h].at = IF req[h].op = "cli" THEN "look" ELSE "open",
                          ![h].next = 1]
    /\ UNCHANGED <<messages, proposals, transaction>>

\* _add_workbench_message() of the command line reads the highest sequence.
LookForOpening(h) ==
    /\ At(h, "look")
    /\ req' = [req EXCEPT ![h].at = "open", ![h].next = Highest(Messages(h)) + 1]
    /\ UNCHANGED <<tables, transaction>>

\* The request becomes a message, if its number is free; the command line goes on to
\* a proposal.
OpenConversation(h) ==
    /\ At(h, "open") /\ writer = Nobody
    /\ IF req[h].next \in DOMAIN Messages(h) THEN Fail(h)
       ELSE /\ CommitAll(h, Put(Messages(h), req[h].next, UserText(req[h])), Proposals(h))
            /\ IF req[h].op = "cli" THEN GoTo(h, "call") ELSE Finish(h)
            /\ UNCHANGED transaction

-----------------------------------------------------------------------------
(* POST /api/tasks/{id}/messages *)

\* create_message(): the highest sequence is read ...
ReadSequence(h) ==
    /\ At(h, "read")
    /\ req' = [req EXCEPT ![h].at = "post", ![h].next = Highest(Messages(h)) + 1]
    /\ UNCHANGED <<tables, transaction>>

\* ... and used; a proposal that the message shows must be the task's.
PostMessage(h) ==
    /\ At(h, "post") /\ writer = Nobody
    /\ IF req[h].next \in DOMAIN Messages(h) THEN Fail(h)
       ELSE /\ \E p \in ClientPosts :
                  /\ p.version \in DOMAIN Proposals(h) \union {0}
                  /\ CommitAll(h, Put(Messages(h), req[h].next,
                                      Message("message", req[h].num, p.role, p.kind, p.version)),
                               Proposals(h))
            /\ Finish(h)
            /\ UNCHANGED transaction

-----------------------------------------------------------------------------
(* POST /api/tasks/{id}/turns *)

\* _route_turn(): with a proposal a turn may be a request for a revision, which is
\* sent back to the client; everything else is a question.
RouteTurn(h) ==
    /\ At(h, "route")
    /\ \/ Proposals(h) # <<>> /\ Finish(h)
       \/ req' = [req EXCEPT ![h].at = "ask", ![h].next = Highest(Messages(h)) + 1]
    /\ UNCHANGED <<tables, transaction>>

\* Mutant of AskQuestion: the question is committed before the model is asked, in a
\* transaction of its own.
AskQuestionAtOnce(h) ==
    /\ At(h, "ask") /\ writer = Nobody
    /\ IF req[h].next \in DOMAIN Messages(h) THEN Fail(h)
       ELSE /\ CommitAll(h, Put(Messages(h), req[h].next, UserText(req[h])), Proposals(h))
            /\ Hold(h, messages'[req[h].task], Proposals(h))
            /\ GoTo(h, "answer")

\* _add_workbench_message(): the question is flushed, and the lock is kept while the
\* model answers it.
AskQuestion(h) ==
    /\ At(h, "ask") /\ writer = Nobody
    /\ IF req[h].next \in DOMAIN Messages(h) THEN Fail(h)
       ELSE /\ Hold(h, Put(Messages(h), req[h].next, UserText(req[h])), Proposals(h))
            /\ GoTo(h, "answer")
            /\ UNCHANGED tables

\* _answer_question() has an answer even if the provider fails; anything else that
\* is raised undoes the question.
AnswerTurn(h) ==
    /\ At(h, "answer") /\ writer = h
    /\ \/ /\ CommitAll(h, AddMessage(draftM, MentorText(req[h])), draftP)
          /\ Release /\ Finish(h)
       \/ Fail(h)

-----------------------------------------------------------------------------
(* Proposals: POST .../proposals, .../adjust and the command line. *)

\* adjust_proposal() adds the instruction to its session without a flush: only its
\* number is fixed.
AddInstruction(h) ==
    /\ At(h, "instruct")
    /\ req' = [req EXCEPT ![h].at = "call", ![h].seq = Highest(Messages(h)) + 1]
    /\ UNCHANGED <<tables, transaction>>

\* The project is not analysed, has no provider, or its context cannot be built: the
\* request ends with what its session holds.
ContextFails(h) == IF req[h].op = "adjust" THEN GoTo(h, "alone") ELSE Finish(h)

\* The provider fails, or its answer is empty, no JSON or not a proposal: the endpoints
\* read the highest sequence for a message about it.  The command line only fails.
GenerationFails(h) ==
    /\ req[h].op # "cli"
    /\ req' = [req EXCEPT ![h].at = "apologise", ![h].next = Highest(Messages(h)) + 1]

\* There is a draft: generate() reads the highest version for it.
GenerationSucceeds(h) ==
    /\ Highest(Proposals(h)) < MaxVersions
    /\ req' = [req EXCEPT ![h].at = "store", ![h].next = Highest(Proposals(h)) + 1]

\* The context is built, the model asked and its answer parsed, all without the lock.
CallModel(h) ==
    /\ At(h, "call")
    /\ ContextFails(h) \/ GenerationFails(h) \/ GenerationSucceeds(h)
    /\ UNCHANGED <<tables, transaction>>

\* The flush of a generated proposal: the number of the version, and of a pending
\* instruction, must still be free.
Pending(h) == IF req[h].seq = 0 THEN Messages(h)
              ELSE Put(Messages(h), req[h].seq, UserText(req[h]))
Collides(h) == req[h].next \in DOMAIN Proposals(h) \/ req[h].seq \in DOMAIN Messages(h)

\* Mutants of StoreProposal: no unique index on the versions; the message about a
\* version is forgotten.
StoreAnyVersion(h) ==
    /\ At(h, "store") /\ writer = Nobody
    /\ \E c \in Completeness :
          LET m == Pending(h)
              p == Put(Proposals(h), req[h].next, Proposal(req[h], c, req[h].prev))
          IN /\ CommitAll(h, AddMessage(m, MentorProposal(req[h], req[h].next)), p)
             /\ Finish(h) /\ UNCHANGED transaction

StoreRevisionSilently(h) ==
    /\ At(h, "store") /\ writer = Nobody /\ ~ Collides(h)
    /\ \E c \in Completeness :
          LET p == Put(Proposals(h), req[h].next, Proposal(req[h], c, req[h].prev))
          IN CommitAll(h, Pending(h), p) /\ Finish(h) /\ UNCHANGED transaction

\* generate() and what follows it.  A revision supersedes its version; an
\* INCOMPLETE first draft is kept in the open transaction for a supplement; every
\* other version is shown and committed.
StoreProposal(h) ==
    /\ At(h, "store") /\ writer = Nobody
    /\ IF Collides(h) THEN Fail(h)
       ELSE \E c \in Completeness :
            LET m == Pending(h)
                p == Put(Proposals(h), req[h].next, Proposal(req[h], c, req[h].prev))
            IN IF c = "INCOMPLETE" /\ req[h].op # "adjust"
               THEN /\ Hold(h, m, p) /\ GoTo(h, "supplement")
                    /\ UNCHANGED tables
               ELSE /\ CommitAll(h, AddMessage(m, MentorProposal(req[h], req[h].next)), p)
                    /\ Finish(h)
                    /\ UNCHANGED transaction

\* run_bounded_technical_supplement(): a second call while the lock is held, and a
\* second version that supersedes the first.  If the provider fails the first one
\* stays, with a message about the failure; if something else does, without; the
\* command line undoes both.
Supplement(h) ==
    /\ At(h, "supplement") /\ writer = h
    /\ \/ \E c \in Completeness :
             LET v == Highest(draftP) + 1
             IN /\ v <= MaxVersions
                /\ CommitAll(h, AddMessage(draftM, MentorProposal(req[h], v)),
                             Put(draftP, v, Proposal(req[h], c, req[h].next)))
                /\ Release /\ Finish(h)
       \/ /\ req[h].op = "propose"
          /\ \E m \in {draftM, AddMessage(draftM, MentorError(req[h]))} : CommitAll(h, m, draftP)
          /\ Release /\ Finish(h)
       \/ /\ req[h].op = "cli"
          /\ Fail(h)

\* The message about a failed call is flushed by the commit, together with the
\* instruction that is still pending.
Apologise(h) ==
    /\ At(h, "apologise") /\ writer = Nobody
    /\ IF req[h].seq \in DOMAIN Messages(h) \/ req[h].next \in DOMAIN Pending(h) THEN Fail(h)
       ELSE /\ CommitAll(h, Put(Pending(h), req[h].next, MentorError(req[h])), Proposals(h))
            /\ Finish(h) /\ UNCHANGED transaction

\* The commit of an instruction that led to nothing.
CommitInstruction(h) ==
    /\ At(h, "alone") /\ writer = Nobody
    /\ IF req[h].seq \in DOMAIN Messages(h) THEN Fail(h)
       ELSE /\ CommitAll(h, Pending(h), Proposals(h))
            /\ Finish(h) /\ UNCHANGED transaction

-----------------------------------------------------------------------------
(* POST .../confirm: the analysis asks the model after the confirmation has been
   flushed; confirming again what is confirmed flushes nothing. *)

Confirm(h) ==
    /\ At(h, "confirm")
    /\ \/ Finish(h) /\ UNCHANGED transaction      \* not COMPLETE, not found
       \/ writer = Nobody /\ Hold(h, Messages(h), Proposals(h)) /\ GoTo(h, "analyse")
       \/ GoTo(h, "analyse") /\ UNCHANGED transaction
    /\ UNCHANGED tables

\* The analysis succeeds, fails with what was flushed, or fails at the provider: then
\* there is a message about it, in the open transaction if there is one.
Analyse(h) ==
    /\ At(h, "analyse")
    /\ \/ /\ Finish(h) /\ UNCHANGED tables
          /\ IF writer = h THEN Release ELSE UNCHANGED transaction
       \/ /\ writer = h
          /\ CommitAll(h, AddMessage(draftM, MentorError(req[h])), draftP)
          /\ Release /\ Finish(h)
       \/ /\ writer # h
          /\ req' = [req EXCEPT ![h].at = "apologise", ![h].next = Highest(Messages(h)) + 1]
          /\ UNCHANGED <<tables, transaction>>

-----------------------------------------------------------------------------
(* Arrivals, time-outs and crashes. *)

FirstStep ==
    [task |-> "persist", cli |-> "persist", message |-> "read", turn |-> "route",
     propose |-> "call", adjust |-> "instruct", confirm |-> "confirm"]

\* A client names a task, which the list of the project's tasks shows as soon as it
\* is committed, and a version of its proposal; a new task gets an id that nobody
\* else has.
Begin(h) ==
    /\ At(h, "idle") /\ begun < MaxRequests
    /\ begun' = begun + 1
    /\ \E op \in Calls[h], t \in Tasks, v \in 0 .. MaxVersions :
          /\ IF op \in {"task", "cli"}
             THEN t \notin exists /\ \A g \in Handlers : req[g].task # t
             ELSE t \in exists
          /\ IF op = "adjust" THEN v \in DOMAIN proposals[t] ELSE v = 0
          /\ req' = [req EXCEPT ![h] = [Idle EXCEPT !.op = op, !.at = FirstStep[op], !.task = t,
                                                     !.num = begun', !.prev = v]]
    /\ UNCHANGED <<tables, transaction, crashes>>

\* Steps whose next statement writes.
Writing == {"persist", "open", "post", "ask", "store", "apologise", "alone", "confirm"}

\* PRAGMA busy_timeout: a writer that waits five seconds for another gives up, and a
\* call of the model may keep the lock for sixty.
BusyTimeout(h) ==
    /\ req[h].at \in Writing /\ writer \notin {h, Nobody}
    /\ Fail(h)

\* The process dies: open sessions are gone, committed rows are not.
Crash ==
    /\ crashes < MaxCrashes
    /\ crashes' = crashes + 1
    /\ req' = [h \in Handlers |-> Idle]
    /\ Release
    /\ UNCHANGED <<tables, begun>>

Step(h) ==
    /\ \/ PersistTask(h) \/ LookForOpening(h) \/ OpenConversation(h)
       \/ ReadSequence(h) \/ PostMessage(h)
       \/ RouteTurn(h) \/ AskQuestion(h) \/ AnswerTurn(h)
       \/ AddInstruction(h) \/ CallModel(h) \/ StoreProposal(h) \/ Supplement(h)
       \/ Apologise(h) \/ CommitInstruction(h)
       \/ Confirm(h) \/ Analyse(h) \/ BusyTimeout(h)
    /\ UNCHANGED <<begun, crashes>>

WorkbenchInit ==
    /\ exists = {}
    /\ messages = [t \in Tasks |-> <<>>] /\ proposals = [t \in Tasks |-> <<>>]
    /\ writer = Nobody /\ draftM = <<>> /\ draftP = <<>>
    /\ begun = 0 /\ crashes = 0
    /\ req = [h \in Handlers |-> Idle]

WorkbenchNext ==
    \/ \E h \in Handlers : Begin(h) \/ Step(h)
    \/ Crash

WorkbenchSpec == WorkbenchInit /\ [][WorkbenchNext]_vars

-----------------------------------------------------------------------------
(* Properties. *)

Rows ==
    [op : Endpoints, by : 1 .. MaxRequests, role : {"USER", "MENTOR", "SYSTEM"},
     kind : {"TEXT", "PROPOSAL", "ERROR"}, version : 0 .. MaxVersions]

Versions == [completeness : Completeness, by : 1 .. MaxRequests, supersedes : 0 .. MaxVersions]

Steps == {"idle", "look", "read", "route", "answer", "instruct", "call", "supplement", "analyse"}
         \union Writing

Requests ==
    [op : Endpoints \union {"idle"}, at : Steps, task : Tasks \union {NoTask},
     num : 0 .. MaxRequests, seq : Nat, next : Nat, prev : 0 .. MaxVersions]

Numbered(table, S) ==
    \A i \in DOMAIN table : /\ i \in Nat \ {0} /\ table[i] \in S
                            /\ i > 1 => i - 1 \in DOMAIN table

\* Messages and versions are numbered from 1 without a gap, committed or not: a
\* number that was read before somebody else's commit is refused, never reused or
\* skipped.
WorkbenchTypeOK ==
    /\ exists \subseteq Tasks
    /\ DOMAIN messages = Tasks /\ DOMAIN proposals = Tasks
    /\ \A t \in Tasks : Numbered(messages[t], Rows) /\ Numbered(proposals[t], Versions)
    /\ writer \in Handlers \union {Nobody}
    /\ Numbered(draftM, Rows) /\ Numbered(draftP, Versions)
    /\ begun \in 0 .. MaxRequests /\ crashes \in 0 .. MaxCrashes
    /\ req \in [Handlers -> Requests]

\* Conversation is what the user sees of all this.
Promise == INSTANCE Conversation WITH log <- messages

\* The workbench implements it: whatever the endpoints interleave, time out or crash,
\* the log of a task grows by whole contributions.  In particular a question is never
\* there without its answer, nor a revision without its instruction; the request a
\* task was made from is there at most once, and first if the endpoint wrote it,
\* though others may write to the task before it does.  A contribution may be lost:
\* an adjustment that fails at the provider leaves neither its instruction nor an
\* error.
KeepsConversation == Promise!ConversationSpec

\* A version the user can confirm or has to decide about was shown to the user, in a
\* message of the request that made it: only an INCOMPLETE draft may be in the table
\* that no message shows.
ConfirmableWasShown ==
    \A t \in Tasks : \A v \in DOMAIN proposals[t] :
        proposals[t][v].completeness # "INCOMPLETE" =>
            \E i \in DOMAIN messages[t] :
                /\ messages[t][i].kind = "PROPOSAL" /\ messages[t][i].version = v
                /\ messages[t][i].by = proposals[t][v].by

\* The order in which versions are shown by the requests that made them is the order
\* of their numbers, so the last one shown is the latest.
Announces(t, i) ==
    /\ messages[t][i].kind = "PROPOSAL" /\ messages[t][i].op # "message"
ShownInOrder ==
    \A t \in Tasks : \A i, j \in DOMAIN messages[t] :
        i < j /\ Announces(t, i) /\ Announces(t, j) =>
            messages[t][i].version < messages[t][j].version

=============================================================================
