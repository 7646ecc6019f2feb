------------------------------ MODULE Knowledge ------------------------------
(***************************************************************************)
(* Engineering knowledge of a project: candidates from the model's words,  *)
(* their promotion by evidence, conflicts, freshness against the code, and *)
(* the memory that governance and evaluation write.  Each operation is a   *)
(* call of one service in a session of its own, by a caller that is free   *)
(* to call it with any arguments.                                          *)
(***************************************************************************)
EXTENDS Integers, Sequences, FiniteSets

CONSTANTS
    Keys,               \* what knowledge is about
    Summaries,          \* what it says
    Hashes, NoHash,     \* signatures of code; no signature
    MaxVersion,         \* bound: versions of a key
    MaxRows             \* bound: rows of knowledge

ASSUME KnowledgeBounds ==
    MaxVersion \in Nat \ {0} /\ MaxRows \in Nat /\ NoHash \notin Hashes

VARIABLES
    rows,        \* engineering_knowledge with its signature and what it rests on
    relations,   \* CONFLICTS_WITH, as <<candidate, old>>
    queue,       \* RefreshQueue, in memory
    allowed      \* rows whose last evaluation could support an automatic ALLOW

knowledgeVars == <<rows, relations, queue, allowed>>

SourceTypes == {"LLM_SUMMARY", "TEST", "USER_REVIEW", "COMMITTED_DIFF", "GOVERNANCE_AUDIT"}
KnowledgeStatus == {"CANDIDATE", "VERIFIED", "REVIEWED", "FAILED_EXPERIENCE", "CONFLICTING",
                    "DEPRECATED", "STALE"}

\* What a row rests on: the words of the model, what the caller that added it says, or the
\* references of a promotion.
Bases == {"words", "caller", "evidence"}

Row(key, version, summary, status, basis, hash) ==
    [key |-> key, version |-> version, summary |-> summary, status |-> status, basis |-> basis,
     signature |-> hash]

Rows == 1 .. Len(rows)
Taken(key, version) == \E i \in Rows : rows[i].key = key /\ rows[i].version = version

\* A new row.  Where its version of the key is taken the callers see that it is, or the
\* unique constraint ends their session: nothing is written.
Insert(new) ==
    IF Taken(new.key, new.version) THEN UNCHANGED knowledgeVars
    ELSE /\ Len(rows) < MaxRows
         /\ rows' = Append(rows, new)
         /\ UNCHANGED <<relations, queue, allowed>>

\* KnowledgeRepository.add(), with any status and version; whoever adds a row may add a
\* signature to it.
Add ==
    \E key \in Keys, version \in 1 .. MaxVersion, summary \in Summaries,
       status \in KnowledgeStatus, hash \in Hashes \union {NoHash} :
          Insert(Row(key, version, summary, status, "caller", hash))

\* KnowledgeCandidateExtractor.from_llm_summary(): the model's words are a candidate,
\* and those about a task that was rolled back a failed experience.
FromLlmSummary ==
    \E key \in Keys, summary \in Summaries, status \in {"CANDIDATE", "FAILED_EXPERIENCE"} :
        Insert(Row(key, 1, summary, status, "words", NoHash))

\* GovernanceMemoryWritebackService.write_back(): a decision by matched rules is a fact.
WriteBack ==
    \E key \in Keys, summary \in Summaries :
        Insert(Row(key, 1, summary, "VERIFIED", "caller", NoHash))

\* EvaluationService._write_memory_projection(): what a task changed, as reviewed.
MemoryProjection(key, summary) == Insert(Row(key, 1, summary, "REVIEWED", "caller", NoHash))

\* KnowledgeConflictService.evaluate_candidate(): another row of the key that says
\* something else makes the candidate CONFLICTING, whatever it was.
Contradicts(i) == {j \in Rows \ {i} : rows[j].key = rows[i].key /\ rows[j].summary # rows[i].summary}

\* A relation between two rows of one project, once.
Related(i, j) == relations \union {<<i, j>>}

EvaluateCandidate ==
    \E i \in Rows : \E j \in Contradicts(i) :
        /\ rows' = [rows EXCEPT ![i].status = "CONFLICTING"]
        /\ relations' = Related(i, j)
        /\ UNCHANGED <<queue, allowed>>

\* Mutant of Promoted: the model's words are promoted as they are.
PromotedAsTheyAre(i, source, refs) ==
    [rows EXCEPT ![i].status = IF source = "USER_REVIEW" THEN "REVIEWED" ELSE "VERIFIED"]

\* KnowledgePromotionService.promote(): with references of any type of source, which are
\* kept, and not without.
Promoted(i, source, refs) ==
    IF refs THEN [rows EXCEPT ![i].basis = "evidence",
                              ![i].status = IF source = "USER_REVIEW" THEN "REVIEWED" ELSE "VERIFIED"]
    ELSE rows
Promote ==
    \E i \in Rows, source \in SourceTypes, refs \in BOOLEAN :
        /\ rows' = Promoted(i, source, refs)
        /\ UNCHANGED <<relations, queue, allowed>>

\* Mutant of Enqueue: what waits already is put in again.
EnqueueAgain(i) == queue' = Append(queue, i)

\* RefreshQueue.enqueue()
Enqueue(i) == queue' = IF \E k \in 1 .. Len(queue) : queue[k] = i THEN queue ELSE Append(queue, i)

\* Mutant of EvaluateFreshness: the signature is compared before the status.
EvaluateBySignature(i, current) ==
    IF current = NoHash \/ rows[i].signature = NoHash
    THEN allowed' = allowed \ {i} /\ UNCHANGED <<rows, relations, queue>>
    ELSE IF rows[i].signature = current
    THEN allowed' = allowed \union {i} /\ UNCHANGED <<rows, relations, queue>>
    ELSE /\ rows' = [rows EXCEPT ![i].status = "STALE"]
         /\ Enqueue(i) /\ allowed' = allowed \ {i} /\ UNCHANGED relations

\* FreshnessService.evaluate() for the present signature of the code, if there is one.
EvaluateFreshness(i, current) ==
    IF current = NoHash \/ rows[i].signature = NoHash
    THEN allowed' = allowed \ {i} /\ UNCHANGED <<rows, relations, queue>>
    ELSE IF rows[i].status = "STALE"
    THEN Enqueue(i) /\ allowed' = allowed \ {i} /\ UNCHANGED <<rows, relations>>
    ELSE IF rows[i].signature = current
    THEN allowed' = allowed \union {i} /\ UNCHANGED <<rows, relations, queue>>
    ELSE /\ rows' = [rows EXCEPT ![i].status = "STALE"]
         /\ Enqueue(i) /\ allowed' = allowed \ {i} /\ UNCHANGED relations

\* The signature of the file as it is, if one can be taken, is any.
CheckFreshness ==
    \E i \in Rows, current \in Hashes \union {NoHash} : EvaluateFreshness(i, current)

\* KnowledgeRetriever._score(): what the status adds to the score of a match, and
\* whether the hit may inform the success of a later task.
Boost == [status \in KnowledgeStatus |->
            CASE status = "VERIFIED" -> 100 [] status = "REVIEWED" -> 70
              [] status = "FAILED_EXPERIENCE" -> 10 [] status = "STALE" -> 0 - 10 [] OTHER -> 0]
CanInformSuccess(i) == rows[i].status \notin {"FAILED_EXPERIENCE", "STALE"}

\* The queue, and what was answered, are gone with the process.
ForgetQueue == queue' = <<>> /\ allowed' = {} /\ UNCHANGED <<rows, relations>>

KnowledgeInit == rows = <<>> /\ relations = {} /\ queue = <<>> /\ allowed = {}

KnowledgeNext ==
    Add \/ FromLlmSummary \/ WriteBack \/ EvaluateCandidate \/ Promote \/ CheckFreshness

-----------------------------------------------------------------------------
(* Properties. *)

KnowledgeRows ==
    [key : Keys, version : 1 .. MaxVersion, summary : Summaries, status : KnowledgeStatus,
     basis : Bases, signature : Hashes \union {NoHash}]

KnowledgeTypeOK ==
    /\ rows \in Seq(KnowledgeRows) /\ Len(rows) <= MaxRows
    /\ relations \subseteq Rows \X Rows
    /\ queue \in Seq(Rows) /\ allowed \subseteq Rows
    /\ \A i, j \in Rows :
          rows[i].key = rows[j].key /\ rows[i].version = rows[j].version => i = j
    /\ \A k, l \in 1 .. Len(queue) : queue[k] = queue[l] => k = l

\* Knowledge that is STALE supports no automatic ALLOW: code that drifted and came back does
\* not make it fresh again.  This is all that evaluate() looks at.  Of a row that became
\* CONFLICTING or DEPRECATED, a STALE one that was contradicted too, it compares the
\* signature only, where SPEC.md:8303 refuses all three.
StaleNeverAllows == \A i \in allowed : rows[i].status # "STALE"

\* The words of the model alone are never what retrieval prefers and lets inform the success
\* of later tasks, whichever conflicts, drifts and attempts to promote them without a
\* reference come and go.  A reference of any type counts, a summary of the model too.
WordsNeedEvidence ==
    \A i \in Rows :
        rows[i].basis = "words" => ~ (CanInformSuccess(i) /\ Boost[rows[i].status] > 0)

=============================================================================
