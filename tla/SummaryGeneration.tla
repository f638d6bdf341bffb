-------------------------- MODULE SummaryGeneration --------------------------
(***************************************************************************)
(* The AI title and summary of one finished meeting: the claim a worker    *)
(* takes on the bot's row, the guarded write at its end, the reaper, the   *)
(* regenerate endpoint and the deletion of the meeting's data              *)
(* (src/bots/tasks/generate_meeting_summary_task.py, Bot.delete_data in    *)
(* src/bots/models.py, MeetingSummarizeView).                              *)
(*                                                                         *)
(* All of these but the deletion write single columns with an UPDATE that  *)
(* leaves the row's version alone. Other requests save the whole row, with *)
(* the summary columns they read, under a check of that version; fresh is  *)
(* the set of savers whose copy has the current version.                   *)
(***************************************************************************)
EXTENDS Naturals

CONSTANTS
    Workers,   \* the Celery processes that run generate_meeting_summary
    Requests,  \* the requests that save the bot's row or regenerate
    MaxClaims, \* bound on the number of claims
    MaxQueued  \* bound on the tasks waiting in the queue

VARIABLES
    summaryState, \* Bot.summary_state
    startedAt,    \* Bot.summary_started_at: the stamp of a claim, 0 for none
    summary,      \* Bot.summary holds notes on the transcript
    deleted,      \* the bot is in DATA_DELETED: its transcript is gone
    clock,        \* the latest stamp given
    queued,       \* generate_meeting_summary tasks waiting
    pc,           \* where each worker is
    stamp,        \* claim_time of each worker
    text,         \* the worker holds the text of the transcript
    copy,         \* the summary columns each request read
    asked,        \* where each request is
    fresh         \* the requests whose copy has the row's version

row == <<summaryState, startedAt, summary, deleted>>
workers == <<pc, stamp, text>>
requests == <<copy, asked, fresh>>
vars == <<row, clock, queued, workers, requests>>

SummaryStates == {"PENDING", "GENERATING", "DONE", "FAILED", "SKIPPED"}
Columns == [state : SummaryStates, startedAt : Nat, summary : BOOLEAN]

TypeOK ==
    /\ summaryState \in SummaryStates
    /\ startedAt \in 0 .. clock
    /\ summary \in BOOLEAN
    /\ deleted \in BOOLEAN
    /\ clock \in Nat
    /\ queued \in Nat
    /\ pc \in [Workers -> {"idle", "claimed", "collected"}]
    /\ stamp \in [Workers -> 0 .. clock]
    /\ text \in [Workers -> BOOLEAN]
    /\ copy \in [Requests -> Columns]
    /\ asked \in [Requests -> {"idle", "save", "regenerate"}]
    /\ fresh \subseteq Requests

NoColumns == [state |-> "PENDING", startedAt |-> 0, summary |-> FALSE]

\* The transcription of the default recording has just completed, and its
\* on_commit hook has queued the task.
Init ==
    /\ summaryState = "PENDING"
    /\ startedAt = 0
    /\ summary = FALSE
    /\ deleted = FALSE
    /\ clock = 0
    /\ queued = 1
    /\ pc = [w \in Workers |-> "idle"]
    /\ stamp = [w \in Workers |-> 0]
    /\ text = [w \in Workers |-> FALSE]
    /\ copy = [r \in Requests |-> NoColumns]
    /\ asked = [r \in Requests |-> "idle"]
    /\ fresh = {}

-----------------------------------------------------------------------------
Enqueue == queued' = IF queued < MaxQueued THEN queued + 1 ELSE queued

Stop(w) ==
    /\ pc' = [pc EXCEPT ![w] = "idle"]
    /\ stamp' = [stamp EXCEPT ![w] = 0]
    /\ text' = [text EXCEPT ![w] = FALSE]

\* UPDATE ... SET summary_state = GENERATING WHERE summary_state = PENDING
Claim(w) ==
    /\ queued > 0
    /\ queued' = queued - 1
    /\ pc[w] = "idle"
    /\ clock < MaxClaims
    /\ summaryState = "PENDING"
    /\ clock' = clock + 1
    /\ summaryState' = "GENERATING"
    /\ startedAt' = clock'
    /\ stamp' = [stamp EXCEPT ![w] = clock']
    /\ pc' = [pc EXCEPT ![w] = "claimed"]
    /\ UNCHANGED <<summary, deleted, text, requests>>

\* Somebody else claimed it, or it is settled: the task returns.
NothingToClaim(w) ==
    /\ queued > 0
    /\ queued' = queued - 1
    /\ pc[w] = "idle"
    /\ summaryState # "PENDING"
    /\ UNCHANGED <<row, clock, workers, requests>>

\* collect_utterances finds nothing once the data is deleted.
Collect(w) ==
    /\ pc[w] = "claimed"
    /\ text' = [text EXCEPT ![w] = ~deleted]
    /\ pc' = [pc EXCEPT ![w] = "collected"]
    /\ UNCHANGED <<row, clock, queued, stamp, requests>>

\* The outcomes of a run: a transcript without text, or too short, is skipped;
\* the model answers, or fails in one of its ways.
Outcomes(w) == IF text[w] THEN {"DONE", "FAILED", "SKIPPED"} ELSE {"SKIPPED"}

\* Mutant of Owns: the write is filtered on the state only.
OwnsAny(w) == summaryState = "GENERATING"

Owns(w) == summaryState = "GENERATING" /\ startedAt = stamp[w]

\* _finish: the write is filtered on the exact claim.
Finish(w, outcome) ==
    /\ pc[w] = "collected"
    /\ outcome \in Outcomes(w)
    /\ IF Owns(w)
         THEN /\ summaryState' = outcome
              /\ startedAt' = 0
              /\ summary' = (outcome = "DONE" \/ summary)
         ELSE UNCHANGED <<summaryState, startedAt, summary>>
    /\ Stop(w)
    /\ UNCHANGED <<deleted, clock, queued, requests>>

\* The worker dies; the broker delivers its task again.
Crash(w) ==
    /\ pc[w] # "idle"
    /\ Stop(w)
    /\ Enqueue
    /\ UNCHANGED <<row, clock, requests>>

-----------------------------------------------------------------------------
\* reap_stale_summary_generations. How old a claim is, is left open.
Reap ==
    /\ summaryState = "GENERATING"
    /\ summaryState' = "PENDING"
    /\ startedAt' = 0
    /\ UNCHANGED <<summary, deleted, clock, queued, workers, requests>>

Read(r, label) ==
    /\ asked[r] = "idle"
    /\ asked' = [asked EXCEPT ![r] = label]
    /\ copy' = [copy EXCEPT ![r] = [state |-> summaryState, startedAt |-> startedAt,
                                    summary |-> summary]]
    /\ fresh' = fresh \cup {r}
    /\ UNCHANGED <<row, clock, queued, workers>>

Done(r) ==
    /\ asked' = [asked EXCEPT ![r] = "idle"]
    /\ copy' = [copy EXCEPT ![r] = NoColumns]

\* MeetingSummarizeView, on a meeting that was not deleted when it was read and
\* had no run in flight, or one the view took for stale.
AskAgain(r) == ~deleted /\ Read(r, "regenerate")

Regenerate(r) ==
    /\ asked[r] = "regenerate"
    /\ summaryState' = IF copy[r].state = "PENDING" THEN summaryState ELSE "PENDING"
    /\ Enqueue
    /\ Done(r)
    /\ fresh' = fresh \ {r}
    /\ UNCHANGED <<startedAt, summary, deleted, clock, workers>>

\* A request that saves the whole row: create_event, or patch_bot, which
\* changes a bot's metadata in any state.
ReadRow(r) == Read(r, "save")

SaveRow(r) ==
    /\ asked[r] = "save"
    /\ r \in fresh
    /\ summaryState' = copy[r].state
    /\ startedAt' = copy[r].startedAt
    /\ summary' = copy[r].summary
    /\ fresh' = {}
    /\ Done(r)
    /\ UNCHANGED <<deleted, clock, queued, workers>>

SaveConflict(r) ==
    /\ asked[r] = "save"
    /\ r \notin fresh
    /\ Done(r)
    /\ UNCHANGED <<row, clock, queued, workers, fresh>>

\* Bot.delete_data: one transaction, which updates the summary columns and
\* then, in create_event, saves the row it has read back.
DeleteData ==
    /\ ~deleted
    /\ deleted' = TRUE
    /\ summary' = FALSE
    /\ startedAt' = 0
    /\ summaryState' = "PENDING"
    /\ fresh' = {}
    /\ UNCHANGED <<clock, queued, workers, copy, asked>>

Next ==
    \/ \E w \in Workers :
         \/ Claim(w) \/ NothingToClaim(w) \/ Collect(w) \/ Crash(w)
         \/ \E outcome \in SummaryStates : Finish(w, outcome)
    \/ \E r \in Requests :
         AskAgain(r) \/ Regenerate(r) \/ ReadRow(r) \/ SaveRow(r) \/ SaveConflict(r)
    \/ Reap
    \/ DeleteData

Spec == Init /\ [][Next]_vars

-----------------------------------------------------------------------------
\* The summary never outlives the transcript it describes, whatever worker was
\* writing it and whatever request had read the row (delete_data's comment, and
\* the claim in generate_meeting_summary_task).
SummaryDiesWithTranscript == deleted => ~summary

\* A meeting that is said to have a summary has one (_finish and delete_data
\* change the two columns together, and a saved row is one that was there).
DoneHasSummary == summaryState = "DONE" => summary
=============================================================================
