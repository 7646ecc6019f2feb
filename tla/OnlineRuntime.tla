---------------------------- MODULE OnlineRuntime ----------------------------
(***************************************************************************)
(* The ONLINE_SAFE runtime: the in-memory session store, the workspace     *)
(* directories of the sessions, the projects imported into them and the    *)
(* background bootstrap of a project.                                      *)
(*                                                                         *)
(* A request is a handler that runs the steps of its endpoint one by one;  *)
(* a step is what the code does under one lock, in one database            *)
(* transaction or in one file operation.  FastAPI runs the `def` endpoints *)
(* in a thread pool, so the steps of two handlers interleave freely; the   *)
(* `async def` import runs on the event loop and gives it up only while it *)
(* awaits the body.                                                        *)
(*                                                                         *)
(* Time is what is left of a session's lifetime: a session is expired when *)
(* nothing is left, and Tick takes one unit from all of them.  A session   *)
(* id is never issued twice, so ids are numbered in the order of their     *)
(* creation.  A directory is named after a hash of the session id, and a   *)
(* project after its directory: both are indexed by the session.  The      *)
(* factory's cache of handles is left out: get_or_create() looks at the    *)
(* directory before it trusts one.                                         *)
(***************************************************************************)
EXTENDS Naturals, Sequences, FiniteSets

CONSTANTS
    Handlers,      \* requests in flight at the same time
    Calls,         \* bound: the endpoints whose requests each of them carries
    Archives,      \* uploaded projects, compared for equality only
    MaxSessions,   \* bound: sessions ever created
    MaxActive,     \* ONLINE_SESSION_MAX_ACTIVE
    Ttl,           \* ONLINE_SESSION_TTL_SECONDS, in ticks
    MaxRequests,   \* bound: requests ever made
    MaxRestarts    \* bound: restarts of the process

ASSUME OnlineBounds ==
    /\ MaxSessions \in Nat \ {0}
    /\ MaxActive \in Nat \ {0}
    /\ Ttl \in Nat \ {0}
    /\ MaxRequests \in Nat
    /\ MaxRestarts \in Nat

\* What a directory holds that no upload put there.
ASSUME ArchivesDistinct == Archives \intersect {"none", "partial", "rest", "baseline"} = {}

VARIABLES
    created,     \* number of sessions ever created: their ids are 1..created
    store,       \* ids in InMemoryOnlineSessionStore._sessions
    left,        \* ticks until expires_at
    cred,        \* sessions whose object carries a credential
    dir,         \* sessions/<hash>/workspace of each session
    projects,    \* projects table: the upload a project was registered from
    boot,        \* _BOOTSTRAP_STATES, by project
    queue,       \* the single-threaded _BOOTSTRAP_EXECUTOR's queue
    worker,      \* what its thread is doing
    understood,  \* project-understanding rows: the revisions a project has one for
    cache,       \* projects in _BOOTSTRAP_READY_CACHE
    begun,       \* requests so far
    restarts,    \* restarts so far
    req          \* the requests in flight

vars == <<created, store, left, cred, dir, projects, boot, queue, worker,
          understood, cache, begun, restarts, req>>

sessionVars == <<created, store, left, cred>>
bootVars == <<boot, queue, worker, understood, cache>>
bounds == <<begun, restarts>>

NoSid == 0
Sids == 1 .. MaxSessions
SidOrNone == 0 .. MaxSessions
Revisions == {"baseline", "rest"} \union Archives   \* contents with a Git commit
Contents == {"none", "partial"} \union Revisions
NoProject == "none"
BootStates == {"REGISTERED", "BOOTSTRAPPING", "READY", "BOOTSTRAP_FAILED"}
NoWork == [sid |-> NoSid, state |-> "REGISTERED"]

-----------------------------------------------------------------------------
(* The endpoints, each as the sequence of its steps. *)

\* current_online_session(): the session, then the clean-up of the directories
\* of every session that is not active.
CurrentOnlineSession == <<"getOrCreate", "active", "cleanup">>

\* require_project_access(): the project, if the current session owns it.
RequireProjectAccess == CurrentOnlineSession \o <<"owner">>

\* GET /api/credentials/llm/status
StatusCredential == CurrentOnlineSession

\* POST and PUT /api/credentials/llm: require() comes first, the validation of
\* the endpoint resolves its name before the session object is assigned.
SetCredential == <<"require", "setCredential">>
UpdateCredential == <<"require", "updateCredential">>

\* DELETE /api/credentials/llm
ClearCredential == <<"getOrCreate", "clearCredential">>

\* GET /api/runtime/workspace and POST /api/runtime/workspace/reset
GetRuntimeWorkspace == CurrentOnlineSession \o <<"enter", "mkdir", "copy">>
ResetRuntimeWorkspace == CurrentOnlineSession \o <<"drop", "enter", "mkdir", "copy">>

\* POST /api/projects/import-zip
ImportProjectZip == CurrentOnlineSession
                    \o <<"unowned", "clear", "unpack", "register", "schedule", "submit">>

\* GET /api/projects/{id}/export.zip: the access check and the workspace each
\* look up the current session.
ExportProjectZip == RequireProjectAccess \o CurrentOnlineSession
                    \o <<"enter", "mkdir", "copy", "bound", "zip">>

\* GET /api/projects/{id}/bootstrap
BootstrapStatus == RequireProjectAccess \o <<"report">>

\* require_online_safe_project_readiness(), the gate of proposals and execution
ProjectReadiness == <<"require", "provider">> \o RequireProjectAccess
                    \o <<"require", "enter", "mkdir", "copy", "bound">>

Program ==
    [status |-> StatusCredential, set |-> SetCredential, update |-> UpdateCredential,
     clear |-> ClearCredential, workspace |-> GetRuntimeWorkspace,
     reset |-> ResetRuntimeWorkspace, import |-> ImportProjectZip, export |-> ExportProjectZip,
     bootstrap |-> BootstrapStatus, ready |-> ProjectReadiness]

Ops == DOMAIN Program

\* Every request goes to one of these endpoints.
ASSUME CallsType == Calls \in [Handlers -> SUBSET Ops]

\* A request: its endpoint and next step, the cookie it came with, the session
\* object it holds, the sessions that existed when it began, the snapshot of the
\* active ones, the session of its project, and whether it has succeeded.
Idle == [op |-> "idle", at |-> 0, cookie |-> NoSid, sid |-> NoSid, seen |-> 0, snap |-> {},
         proj |-> NoSid, ok |-> FALSE]

Running(h) == req[h].op # "idle" /\ ~ req[h].ok
At(h, step) == Running(h) /\ Program[req[h].op][req[h].at] = step

\* The import holds the event loop except before it starts and while it awaits.
OnLoop(h) == /\ Running(h) /\ req[h].op = "import"
             /\ req[h].at > 1 /\ ~ At(h, "clear")
LoopFree(h) == req[h].op = "import" => \A g \in Handlers \ {h} : ~ OnLoop(g)
CanStep(h, step) == At(h, step) /\ LoopFree(h)

\* r goes on to its next step, or skips n of them; after the last it answers ok.
Skip(r, n) == IF r.at + n < Len(Program[r.op]) THEN [r EXCEPT !.at = @ + n + 1]
              ELSE [r EXCEPT !.ok = TRUE]
GoOn(h, r) == req' = [req EXCEPT ![h] = Skip(r, 0)]

\* An early return: the error is the answer.
Refuse(h) == req' = [req EXCEPT ![h] = Idle]

-----------------------------------------------------------------------------
(* InMemoryOnlineSessionStore, each operation under the store's lock. *)

IsExpired(s) == left[s] = 0

\* _cleanup_locked(): what it leaves in the store.
Live == {s \in store : ~ IsExpired(s)}

\* Mutant of Touch: one lifetime too many.
TouchTwice(s) == left' = [left EXCEPT ![s] = Ttl + Ttl]

\* _touch_locked()
Touch(s) == left' = [left EXCEPT ![s] = Ttl]

\* get_or_create(): a live session is touched; otherwise a new one is created,
\* unless the limit is reached.
GetOrCreate(h) ==
    /\ CanStep(h, "getOrCreate")
    /\ IF req[h].cookie \in Live
       THEN /\ store' = Live
            /\ Touch(req[h].cookie)
            /\ GoOn(h, [req[h] EXCEPT !.sid = req[h].cookie])
            /\ UNCHANGED created
       ELSE IF Cardinality(Live) >= MaxActive
       THEN store' = Live /\ Refuse(h) /\ UNCHANGED <<left, created>>
       ELSE /\ created < MaxSessions
            /\ created' = created + 1
            /\ store' = Live \union {created'}
            /\ Touch(created')
            /\ GoOn(h, [req[h] EXCEPT !.sid = created'])
    /\ UNCHANGED <<bootVars, bounds, cred, dir, projects>>

\* require(): the cookie's session, if it is live.
Require(h) ==
    /\ CanStep(h, "require")
    /\ store' = Live
    /\ IF req[h].cookie \in Live
       THEN Touch(req[h].cookie) /\ GoOn(h, [req[h] EXCEPT !.sid = req[h].cookie])
       ELSE Refuse(h) /\ UNCHANGED left
    /\ UNCHANGED <<bootVars, bounds, created, cred, dir, projects>>

\* active_session_ids()
ActiveSessionIds(h) ==
    /\ CanStep(h, "active")
    /\ store' = Live
    /\ GoOn(h, [req[h] EXCEPT !.snap = Live])
    /\ UNCHANGED <<bootVars, bounds, created, left, cred, dir, projects>>

\* set_credential(), update_credential() and clear_credential() assign to the
\* session object without the lock, whether it is still in the store or not.  The
\* validation may refuse the endpoint, the model or the key; an update without a
\* key needs a credential to update.
AssignCredential(h) ==
    /\ \/ /\ CanStep(h, "setCredential") \/ CanStep(h, "updateCredential")
          /\ cred' = cred \union {req[h].sid}
          /\ GoOn(h, req[h])
       \/ /\ CanStep(h, "updateCredential") /\ req[h].sid \in cred
          /\ GoOn(h, req[h])
          /\ UNCHANGED cred
       \/ /\ CanStep(h, "setCredential") \/ CanStep(h, "updateCredential")
          /\ Refuse(h)
          /\ UNCHANGED cred
       \/ /\ CanStep(h, "clearCredential")
          /\ cred' = cred \ {req[h].sid}
          /\ GoOn(h, req[h])
    /\ UNCHANGED <<bootVars, bounds, created, store, left, dir, projects>>

\* OnlineProviderEndpointPolicy.validate(): the name of the endpoint is resolved anew,
\* and what it resolves to may be refused this time.
ValidateEndpoint(h) == GoOn(h, req[h]) \/ Refuse(h)

\* get_online_session_provider(): require() again, then the credential and a new
\* validation of its endpoint.
Provider(h) ==
    /\ CanStep(h, "provider")
    /\ store' = Live
    /\ IF req[h].cookie \notin Live THEN Refuse(h) /\ UNCHANGED left
       ELSE /\ Touch(req[h].cookie)
            /\ IF req[h].cookie \in cred THEN ValidateEndpoint(h) ELSE Refuse(h)
    /\ UNCHANGED <<bootVars, bounds, created, cred, dir, projects>>

-----------------------------------------------------------------------------
(* SafeOnlineWorkspaceFactory. *)

\* Mutant of CleanupExpired: every directory but the current session's.
CleanupAllButOwn(h) ==
    /\ CanStep(h, "cleanup")
    /\ dir' = [s \in Sids |-> IF s = req[h].sid THEN dir[s] ELSE "none"]
    /\ GoOn(h, [req[h] EXCEPT !.snap = {}])
    /\ UNCHANGED <<sessionVars, bootVars, bounds, projects>>

\* cleanup_expired(): every directory, and every handle, of a session that is not
\* in the snapshot; or some of them, when another clean-up is at the same directory
\* and rmtree raises.
CleanupExpired(h) ==
    /\ CanStep(h, "cleanup")
    /\ \/ /\ dir' = [s \in Sids |-> IF s \in req[h].snap THEN dir[s] ELSE "none"]
          /\ GoOn(h, [req[h] EXCEPT !.snap = {}])
       \/ /\ \E S \in SUBSET (Sids \ req[h].snap) :
                dir' = [s \in Sids |-> IF s \in S THEN "none" ELSE dir[s]]
          /\ Refuse(h)
    /\ UNCHANGED <<sessionVars, bootVars, bounds, projects>>

\* get_or_create(): a directory that is there is the workspace, whatever it holds.
Enter(h) ==
    /\ CanStep(h, "enter")
    /\ req' = [req EXCEPT ![h] = Skip(req[h], IF dir[req[h].sid] = "none" THEN 0 ELSE 2)]
    /\ UNCHANGED <<sessionVars, bootVars, bounds, dir, projects>>

\* _copy_baseline() begins: the directory must be new.  If it is not, the handler
\* that lost the race removes the session's directory and fails.
Mkdir(h) ==
    /\ CanStep(h, "mkdir")
    /\ IF dir[req[h].sid] = "none"
       THEN dir' = [dir EXCEPT ![req[h].sid] = "partial"] /\ GoOn(h, req[h])
       ELSE dir' = [dir EXCEPT ![req[h].sid] = "none"] /\ Refuse(h)
    /\ UNCHANGED <<sessionVars, bootVars, bounds, projects>>

\* What a copy of c leaves in the directory of s, committed: a directory that was
\* removed meanwhile is made again for the files that are left to copy.
Filled(s, c) == IF dir[s] = "none" THEN {c, "rest"} ELSE {c}

\* _copy_baseline() and _init_session_git_repo(): a failure of either removes the
\* session's directory.
CopyBaseline(h) ==
    /\ CanStep(h, "copy")
    /\ \/ /\ \E c \in Filled(req[h].sid, "baseline") : dir' = [dir EXCEPT ![req[h].sid] = c]
          /\ GoOn(h, req[h])
       \/ /\ dir' = [dir EXCEPT ![req[h].sid] = "none"]
          /\ Refuse(h)
    /\ UNCHANGED <<sessionVars, bootVars, bounds, projects>>

\* reset_current_workspace(), up to its call of get_or_create(); the rmtree may raise
\* here as well
DropWorkspace(h) ==
    /\ CanStep(h, "drop")
    /\ \/ dir' = [dir EXCEPT ![req[h].sid] = "none"] /\ GoOn(h, req[h])
       \/ Refuse(h) /\ UNCHANGED dir
    /\ UNCHANGED <<sessionVars, bootVars, bounds, projects>>

\* The body has arrived.  _zip_import_plan() may refuse the archive before anything is
\* touched.
RefuseArchive(h) ==
    /\ CanStep(h, "clear")
    /\ Refuse(h)
    /\ UNCHANGED <<sessionVars, bootVars, bounds, dir, projects>>

\* import_zip(): the old directory makes room for a new one.
ClearForImport(h) ==
    /\ CanStep(h, "clear")
    /\ dir' = [dir EXCEPT ![req[h].sid] = "partial"]
    /\ GoOn(h, req[h])
    /\ UNCHANGED <<sessionVars, bootVars, bounds, projects>>

\* import_zip(): extraction and git commit.
Unpack(h) ==
    /\ CanStep(h, "unpack")
    /\ \/ /\ \E a \in Archives : \E c \in Filled(req[h].sid, a) : dir' = [dir EXCEPT ![req[h].sid] = c]
          /\ GoOn(h, req[h])
       \/ /\ dir' = [dir EXCEPT ![req[h].sid] = "none"]
          /\ Refuse(h)
    /\ UNCHANGED <<sessionVars, bootVars, bounds, projects>>

\* export_zip(): whatever is in the directory, unless it holds a link, something that
\* is no file, or too much.
WriteArchive(h) ==
    /\ CanStep(h, "zip")
    /\ GoOn(h, req[h]) \/ Refuse(h)
    /\ UNCHANGED <<sessionVars, bootVars, bounds, dir, projects>>

-----------------------------------------------------------------------------
(* api/projects.py *)

\* The row is visible to the session that owns it, and to no other.
Owns(s) == projects[s] # NoProject

\* Mutant of CheckOwner: a project is found by its id alone.
CheckOwnerById(h) ==
    /\ CanStep(h, "owner")
    /\ GoOn(h, [req[h] EXCEPT !.proj = req[h].sid])
    /\ UNCHANGED <<sessionVars, bootVars, bounds, dir, projects>>

\* require_project_access() after the session is known.
CheckOwner(h) ==
    /\ CanStep(h, "owner")
    /\ IF Owns(req[h].sid) THEN GoOn(h, [req[h] EXCEPT !.proj = req[h].sid])
       ELSE Refuse(h)
    /\ UNCHANGED <<sessionVars, bootVars, bounds, dir, projects>>

\* import_project_zip(): one project per session, checked before the body is read.
CheckUnowned(h) ==
    /\ CanStep(h, "unowned")
    /\ IF Owns(req[h].sid) THEN Refuse(h) ELSE GoOn(h, req[h])
    /\ UNCHANGED <<sessionVars, bootVars, bounds, dir, projects>>

\* register_project() and the owner, in one transaction: the directory must be
\* there, be the root of a repository and not be registered.
RegisterProject(h) ==
    /\ CanStep(h, "register")
    /\ IF dir[req[h].sid] \in Revisions /\ ~ Owns(req[h].sid)
       THEN /\ projects' = [projects EXCEPT ![req[h].sid] = dir[req[h].sid]]
            /\ GoOn(h, req[h])
       ELSE Refuse(h) /\ UNCHANGED projects
    /\ UNCHANGED <<sessionVars, bootVars, bounds, dir>>

\* _persisted_ready_state(): the current revision has an understanding.
PersistedReady(s) == dir[s] \in understood[s]

\* What _bootstrap_state() may say: a cache entry counts while it is young, and is
\* dropped when it is not.
ReportReady(s) == boot[s] # "BOOTSTRAPPING" /\ (s \in cache \/ PersistedReady(s) \/ boot[s] = "READY")

\* _bootstrap_state(): the effect of reading it on the cache.
ReadBootstrapState(s) ==
    IF boot[s] = "BOOTSTRAPPING" THEN cache' = cache
    ELSE \/ s \in cache /\ cache' = cache
         \/ cache' = IF PersistedReady(s) THEN cache \union {s} ELSE cache \ {s}

\* bootstrap_status()
ReportBootstrap(h) ==
    /\ CanStep(h, "report")
    /\ ReadBootstrapState(req[h].proj)
    /\ GoOn(h, req[h])
    /\ UNCHANGED <<sessionVars, bounds, dir, projects, boot, queue, worker, understood>>

\* _schedule_bootstrap(): the state is set under the lock, unless the project is ready
\* or a bootstrap is under way ...
ScheduleBootstrap(h) ==
    /\ CanStep(h, "schedule")
    /\ ReadBootstrapState(req[h].sid)
    /\ LET s == req[h].sid
           ready == boot[s] # "BOOTSTRAPPING"
                    /\ (s \in cache' \/ boot[s] = "READY")
       IN IF ready \/ boot[s] = "BOOTSTRAPPING"
          THEN req' = [req EXCEPT ![h] = Skip(req[h], 1)] /\ UNCHANGED boot
          ELSE boot' = [boot EXCEPT ![s] = "BOOTSTRAPPING"] /\ GoOn(h, req[h])
    /\ UNCHANGED <<sessionVars, bounds, dir, projects, queue, worker, understood>>

\* ... and the job is submitted when the lock is free again.
SubmitBootstrap(h) ==
    /\ CanStep(h, "submit")
    /\ queue' = Append(queue, req[h].sid)
    /\ GoOn(h, req[h])
    /\ UNCHANGED <<sessionVars, bounds, dir, projects, boot, worker, understood, cache>>

\* project.root_path = handle.root, the end of an export and of the readiness check.
CheckBound(h) ==
    /\ CanStep(h, "bound")
    /\ IF req[h].proj = req[h].sid THEN GoOn(h, req[h]) ELSE Refuse(h)
    /\ UNCHANGED <<sessionVars, bootVars, bounds, dir, projects>>

-----------------------------------------------------------------------------
(* The bootstrap thread. *)

\* Mutants of RunBootstrap: ready although the analysis failed; an exception that
\* nobody catches ends the job.
RunBootstrapAlwaysReady ==
    /\ worker = NoWork /\ queue # <<>>
    /\ queue' = Tail(queue)
    /\ worker' = [sid |-> Head(queue), state |-> "READY"]
    /\ UNCHANGED <<sessionVars, bounds, dir, projects, boot, understood, cache, req>>

RunBootstrapUncaught ==
    /\ worker = NoWork /\ queue # <<>>
    /\ queue' = Tail(queue)
    /\ UNCHANGED <<sessionVars, bounds, dir, projects, boot, worker, understood, cache, req>>

\* _run_bootstrap(): the thread takes the next project; bootstrap() commits the
\* understanding of the revision it finds, or fails: always when there is no
\* repository, and whenever an analysis raises.
RunBootstrap ==
    /\ worker = NoWork /\ queue # <<>>
    /\ queue' = Tail(queue)
    /\ LET s == Head(queue)
       IN \/ /\ dir[s] \in Revisions
             /\ understood' = [understood EXCEPT ![s] = @ \union {dir[s]}]
             /\ worker' = [sid |-> s, state |-> "READY"]
          \/ /\ worker' = [sid |-> s, state |-> "BOOTSTRAP_FAILED"]
             /\ UNCHANGED understood
    /\ UNCHANGED <<sessionVars, bounds, dir, projects, boot, cache, req>>

\* The outcome is published after the transaction.
PublishBootstrap ==
    /\ worker # NoWork
    /\ boot' = [boot EXCEPT ![worker.sid] = worker.state]
    /\ worker' = NoWork
    /\ UNCHANGED <<sessionVars, bounds, dir, projects, queue, understood, cache, req>>

Bootstrap == RunBootstrap \/ PublishBootstrap

-----------------------------------------------------------------------------
(* Clients, time and restarts. *)

\* A request arrives, with any cookie a browser may hold or none.
Begin(h) ==
    /\ req[h].op = "idle"
    /\ begun < MaxRequests
    /\ begun' = begun + 1
    /\ \E op \in Calls[h], c \in 0 .. created :
          req' = [req EXCEPT ![h] = [Idle EXCEPT !.op = op, !.at = 1, !.cookie = c,
                                                 !.seen = created]]
    /\ UNCHANGED <<sessionVars, bootVars, dir, projects, restarts>>

\* The answer leaves.
Finish(h) ==
    /\ req[h].ok
    /\ req' = [req EXCEPT ![h] = Idle]
    /\ UNCHANGED <<sessionVars, bootVars, bounds, dir, projects>>

\* The clock: every session gets older.
Tick ==
    /\ \E s \in store : ~ IsExpired(s)
    /\ left' = [s \in Sids |-> IF left[s] > 0 THEN left[s] - 1 ELSE 0]
    /\ UNCHANGED <<bootVars, bounds, created, store, cred, dir, projects, req>>

\* The process dies and starts again: what was in memory is gone, directories and
\* rows are not.
Restart ==
    /\ restarts < MaxRestarts
    /\ restarts' = restarts + 1
    /\ store' = {} /\ cred' = {} /\ cache' = {}
    /\ left' = [s \in Sids |-> 0]
    /\ boot' = [s \in Sids |-> "REGISTERED"]
    /\ queue' = <<>> /\ worker' = NoWork
    /\ req' = [h \in Handlers |-> Idle]
    /\ UNCHANGED <<created, dir, projects, understood, begun>>

HandlerStep(h) ==
    \/ GetOrCreate(h) \/ Require(h) \/ ActiveSessionIds(h) \/ AssignCredential(h) \/ Provider(h)
    \/ CleanupExpired(h) \/ Enter(h) \/ Mkdir(h) \/ CopyBaseline(h)
    \/ DropWorkspace(h) \/ RefuseArchive(h) \/ ClearForImport(h) \/ Unpack(h) \/ WriteArchive(h)
    \/ CheckOwner(h) \/ CheckUnowned(h) \/ RegisterProject(h)
    \/ ReportBootstrap(h) \/ ScheduleBootstrap(h) \/ SubmitBootstrap(h) \/ CheckBound(h)

OnlineInit ==
    /\ created = 0 /\ store = {} /\ left = [s \in Sids |-> 0] /\ cred = {}
    /\ dir = [s \in Sids |-> "none"]
    /\ projects = [s \in Sids |-> NoProject]
    /\ boot = [s \in Sids |-> "REGISTERED"] /\ queue = <<>> /\ worker = NoWork
    /\ understood = [s \in Sids |-> {}] /\ cache = {}
    /\ begun = 0 /\ restarts = 0
    /\ req = [h \in Handlers |-> Idle]

OnlineNext ==
    \/ \E h \in Handlers : Begin(h) \/ HandlerStep(h) \/ Finish(h)
    \/ Bootstrap
    \/ Tick
    \/ Restart

OnlineSpec == OnlineInit /\ [][OnlineNext]_vars

-----------------------------------------------------------------------------
(* Properties. *)

Requests ==
    [op : Ops \union {"idle"}, at : 0 .. 12, cookie : SidOrNone, sid : SidOrNone,
     seen : SidOrNone, snap : SUBSET Sids, proj : SidOrNone, ok : BOOLEAN]

\* Types of the session store, the factory, the tables and the requests.
OnlineTypeOK ==
    /\ created \in SidOrNone /\ store \subseteq 1 .. created
    /\ left \in [Sids -> 0 .. Ttl] /\ cred \subseteq Sids
    /\ dir \in [Sids -> Contents]
    /\ projects \in [Sids -> Revisions \union {NoProject}]
    /\ boot \in [Sids -> BootStates] /\ queue \in Seq(Sids)
    /\ worker \in [sid : Sids, state : {"READY", "BOOTSTRAP_FAILED"}] \union {NoWork}
    /\ understood \in [Sids -> SUBSET Revisions] /\ cache \subseteq Sids
    /\ begun \in 0 .. MaxRequests /\ restarts \in 0 .. MaxRestarts
    /\ req \in [Handlers -> Requests]

\* A request that passes require_online_safe_project_readiness() or an export got
\* its project and its workspace from one session, and its provider too when it
\* has one, although the session may expire, and another be created, between the
\* checks.
OneSessionBehindAnswer ==
    \A h \in Handlers : req[h].op \in {"export", "ready"} /\ req[h].ok =>
        /\ req[h].proj = req[h].sid
        /\ Owns(req[h].proj)
        /\ req[h].op = "ready" => req[h].cookie = req[h].proj

\* The service never calls a project ready that no bootstrap of it has committed
\* an understanding of.
ReadyWasUnderstood == \A s \in Sids : ReportReady(s) => understood[s] # {}

\* No other request in flight is the session's own or began before the session was
\* created.
Quiet(s) == \A h \in Handlers : Running(h) => req[h].sid # s /\ s <= req[h].seen

\* The requests of others never take the workspace of a live session away: their
\* cleanup_expired() works from a snapshot that may be out of date, but not that
\* much.
QuietWorkspaceSurvives ==
    [][\A s \in store : Quiet(s) /\ dir[s] # "none" => dir'[s] = dir[s]]_vars

\* A project shown as BOOTSTRAPPING is about to be submitted by the request that set
\* the state, is waiting for the executor's thread or is in its hands, whatever
\* becomes of the session and its directory: no outcome is lost, so the thread will
\* replace the state by READY or BOOTSTRAP_FAILED.
NoLostBootstrap ==
    \A s \in Sids : boot[s] = "BOOTSTRAPPING" =>
        \/ \E h \in Handlers : At(h, "submit") /\ req[h].sid = s
        \/ worker.sid = s
        \/ \E i \in DOMAIN queue : queue[i] = s

=============================================================================
