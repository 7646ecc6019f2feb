---------------------------- MODULE Conversation ----------------------------
(***************************************************************************)
(* What the workbench promises its user: the conversation of a task is a   *)
(* log that only grows, and it grows by whole contributions.  The answer   *)
(* to a question directly follows it, a revised proposal directly follows  *)
(* the instruction that asked for it, and the request that created the     *)
(* task is there at most once: first if the endpoint wrote it, possibly    *)
(* later if the command line did.  Workbench shows how the endpoints keep  *)
(* the promise with numbered rows in a table that several write at once.   *)
(***************************************************************************)
EXTENDS Naturals, Sequences

CONSTANTS
    Tasks,         \* change tasks
    ClientPosts,   \* what a client may post by itself, as [role, kind, version]
    MaxVersions,   \* bound: versions of a task's proposal
    MaxRequests    \* bound: requests ever made

VARIABLE log

\* A message: the endpoint and the request it comes from, its role and kind, and
\* the version of the proposal it shows (0: none).
Message(op, num, role, kind, version) ==
    [op |-> op, by |-> num, role |-> role, kind |-> kind, version |-> version]

Request(op, num) == Message(op, num, "USER", "TEXT", 0)
Answer(op, num) == Message(op, num, "MENTOR", "TEXT", 0)
Showing(op, num, v) == Message(op, num, "MENTOR", "PROPOSAL", v)
Apology(op, num) == Message(op, num, "MENTOR", "ERROR", 0)
Posted(num, p) == Message("message", num, p.role, p.kind, p.version)

ConversationInit == log = [t \in Tasks |-> <<>>]

Say(t, m) == log' = [log EXCEPT ![t] = Append(@, m)]
SayBoth(t, m1, m2) == log' = [log EXCEPT ![t] = Append(Append(@, m1), m2)]

\* The request a task is created from is in its log.
Opened(t) == \E i \in DOMAIN log[t] : log[t][i].op \in {"task", "cli"} /\ log[t][i].role = "USER"

Open(t) ==
    /\ ~Opened(t)
    /\ \E op \in {"task", "cli"}, n \in 1 .. MaxRequests :
          /\ op = "task" => log[t] = <<>>
          /\ Say(t, Request(op, n))

\* A client's own message.
Post(t) == \E n \in 1 .. MaxRequests, p \in ClientPosts : Say(t, Posted(n, p))

\* A question is there together with its answer.
Discuss(t) == \E n \in 1 .. MaxRequests : SayBoth(t, Request("turn", n), Answer("turn", n))

\* A proposal is shown, or the failure to make one or to analyse it.
Propose(t) ==
    \/ \E op \in {"propose", "cli"}, n \in 1 .. MaxRequests, v \in 1 .. MaxVersions :
          Say(t, Showing(op, n, v))
    \/ \E op \in {"propose", "confirm"}, n \in 1 .. MaxRequests : Say(t, Apology(op, n))

\* An instruction is there together with the version made from it, or alone.
Revise(t) ==
    \E n \in 1 .. MaxRequests :
        \/ Say(t, Request("adjust", n))
        \/ \E v \in 1 .. MaxVersions :
              SayBoth(t, Request("adjust", n), Showing("adjust", n, v))

Talk == \E t \in Tasks : Post(t) \/ Discuss(t) \/ Propose(t) \/ Revise(t)

ConversationNext == Talk \/ \E t \in Tasks : Open(t)

ConversationSpec == ConversationInit /\ [][ConversationNext]_log

=============================================================================
