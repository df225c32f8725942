----------------------------- MODULE MemoryJobs -----------------------------
(***************************************************************************)
(* What becomes of a conversation after it ends: its recorded turns, the    *)
(* memory job queued by Close or closeAbandoned, the workers that extract   *)
(* and store its knowledge, and the purge of its transcript (orchestrator   *)
(* voice.go, memory.go, store.go).                                          *)
(*                                                                          *)
(* One action is one SQL statement or one call.  Time is a choice: a lease  *)
(* or a backoff may end, and the retention pass, at any moment.  The agent  *)
(* and the knowledge service answer as they like.                           *)
(***************************************************************************)
EXTENDS Naturals

CONSTANTS
  Convs, Turns,
  MemoryWorkers,      \* memoryWorker loops, of every instance
  NoConv,
  MaxMemoryAttempts,  \* maxMemoryAttempts
  MaxStalls           \* bound: workers that outlive their lease, stop or cannot write

ASSUME MemoryAssumption ==
  NoConv \notin Convs /\ MaxMemoryAttempts \in Nat /\ MaxStalls \in Nat

VARIABLES
  convs,    \* conversation -> "open" or "closed"
  turns,    \* conversation -> its turns in the table
  writes,   \* turns that RecordTurn is about to store
  closing,  \* conversations closed, whose job is not queued yet
  job,      \* conversation -> its row in memory_jobs
  mw,       \* worker -> what it works on
  known,    \* history: conversation -> turns that an extraction has covered
  heard,    \* history: conversation -> turns stored when it was closed and not purged since
  stalls

memoryVars == <<convs, turns, writes, closing, job, mw, known, heard, stalls>>

\* due: not_before has passed; leased: lease_until has not.
NoJob == [state |-> "none", attempts |-> 0, due |-> FALSE, leased |-> FALSE]

NoWork == [pc |-> "idle", conv |-> NoConv, attempts |-> 0, got |-> {}, outcome |-> "done"]

MemoryInit ==
  /\ convs = [c \in Convs |-> "open"]
  /\ turns = [c \in Convs |-> {}]
  /\ writes = {}
  /\ closing = {}
  /\ job = [c \in Convs |-> NoJob]
  /\ mw = [w \in MemoryWorkers |-> NoWork]
  /\ known = [c \in Convs |-> {}]
  /\ heard = [c \in Convs |-> {}]
  /\ stalls = 0

-----------------------------------------------------------------------------
(* The conversation.                                                         *)

\* RecordTurn finds the conversation open, and stores the turn later.
RecordTurn(c, t) ==
  /\ convs[c] = "open"
  /\ <<c, t>> \notin writes
  /\ t \notin turns[c]
  /\ writes' = writes \cup {<<c, t>>}
  /\ UNCHANGED <<convs, turns, closing, job, mw, known, heard, stalls>>

StoreTurn(c, t) ==
  /\ <<c, t>> \in writes
  /\ writes' = writes \ {<<c, t>>}
  /\ turns' = [turns EXCEPT ![c] = @ \cup {t}]
  /\ UNCHANGED <<convs, closing, job, mw, known, heard, stalls>>

\* Close and closeAbandoned: the conversation is closed, then its job queued.
CloseConversation(c) ==
  /\ convs[c] = "open"
  /\ convs' = [convs EXCEPT ![c] = "closed"]
  /\ closing' = closing \cup {c}
  /\ heard' = [heard EXCEPT ![c] = turns[c]]
  /\ UNCHANGED <<turns, writes, job, mw, known, stalls>>

QueueMemoryJob(c) ==
  /\ c \in closing
  /\ closing' = closing \ {c}
  /\ job' = IF job[c] = NoJob THEN [job EXCEPT ![c] = [NoJob EXCEPT !.state = "queued", !.due = TRUE]]
            ELSE job
  /\ UNCHANGED <<convs, turns, writes, mw, known, heard, stalls>>

\* The instance stops, or cannot write, between the two: nobody closes the
\* conversation again.
CloserStops(c) ==
  /\ c \in closing
  /\ stalls < MaxStalls
  /\ stalls' = stalls + 1
  /\ closing' = closing \ {c}
  /\ UNCHANGED <<convs, turns, writes, job, mw, known, heard>>

\* The turns of a conversation that was closed long ago.
PurgeTranscripts(c) ==
  /\ convs[c] = "closed"
  /\ turns[c] # {}
  /\ turns' = [turns EXCEPT ![c] = {}]
  /\ heard' = [heard EXCEPT ![c] = {}]
  /\ UNCHANGED <<convs, writes, closing, job, mw, known, stalls>>

-----------------------------------------------------------------------------
(* The workers.                                                              *)

\* Mutant: the job of a worker that stopped is not taken over.
LeasableQueued(c) == job[c].state = "queued" /\ job[c].due

Leasable(c) == job[c].state = "queued" \/ (job[c].state = "running" /\ ~job[c].leased)

LeaseMemoryJob(w, c) ==
  /\ mw[w].pc = "idle"
  /\ Leasable(c)
  /\ job[c].due
  /\ job' = [job EXCEPT ![c] = [job[c] EXCEPT !.state = "running", !.attempts = @ + 1, !.leased = TRUE]]
  /\ mw' = [mw EXCEPT ![w] = [NoWork EXCEPT !.pc = "read", !.conv = c, !.attempts = job'[c].attempts]]
  /\ UNCHANGED <<convs, turns, writes, closing, known, heard, stalls>>

\* extractMemory loads the transcript; without one there is nothing to do.
ReadTranscript(w) ==
  /\ mw[w].pc = "read"
  /\ LET got == turns[mw[w].conv] IN
       mw' = [mw EXCEPT ![w] = [@ EXCEPT !.got = got, !.pc = IF got = {} THEN "finish" ELSE "extract"]]
  /\ UNCHANGED <<convs, turns, writes, closing, job, known, heard, stalls>>

Covered(w) == known' = [known EXCEPT ![mw[w].conv] = @ \cup mw[w].got]

\* ProviderKey and ExtractKnowledge: what to store, nothing, an error to try
\* again after, or one that will not go away.
ExtractKnowledge(w, result) ==
  /\ mw[w].pc = "extract"
  /\ mw' = [mw EXCEPT ![w] = IF result = "found" THEN [@ EXCEPT !.pc = "upsert"]
                             ELSE [@ EXCEPT !.pc = "finish",
                                            !.outcome = IF result = "nothing" THEN "done" ELSE result]]
  /\ IF result = "nothing" THEN Covered(w) ELSE UNCHANGED known
  /\ UNCHANGED <<convs, turns, writes, closing, job, heard, stalls>>

\* Mutant: the error of UpsertKnowledge is not returned.
UpsertOutcomeIgnored(result) == "done"

UpsertOutcome(result) == result

UpsertKnowledge(w, result) ==
  /\ mw[w].pc = "upsert"
  /\ mw' = [mw EXCEPT ![w] = [@ EXCEPT !.pc = "finish", !.outcome = UpsertOutcome(result)]]
  /\ IF result = "done" THEN Covered(w) ELSE UNCHANGED known
  /\ UNCHANGED <<convs, turns, writes, closing, job, heard, stalls>>

\* The state that memoryWorker writes, whoever holds the job by now.
Outcome(w) ==
  IF mw[w].outcome = "done" THEN "done"
  ELSE IF mw[w].outcome = "permanent" \/ mw[w].attempts >= MaxMemoryAttempts THEN "failed"
  ELSE "queued"

FinishMemoryJob(w) ==
  /\ mw[w].pc = "finish"
  /\ job' = [job EXCEPT ![mw[w].conv] = [@ EXCEPT !.state = Outcome(w), !.leased = FALSE,
                                                  !.due = (Outcome(w) # "queued")]]
  /\ mw' = [mw EXCEPT ![w] = NoWork]
  /\ UNCHANGED <<convs, turns, writes, closing, known, heard, stalls>>

\* The worker stops, or its outcome cannot be written (the error is ignored).
WorkerStops(w) ==
  /\ mw[w].pc # "idle"
  /\ stalls < MaxStalls
  /\ stalls' = stalls + 1
  /\ mw' = [mw EXCEPT ![w] = NoWork]
  /\ UNCHANGED <<convs, turns, writes, closing, job, known, heard>>

Working(c) == \E w \in MemoryWorkers : mw[w].conv = c

\* A lease ends when nobody works on the job any more, or before a slow
\* worker is done.
MemoryLeaseEnds(c) ==
  /\ job[c].leased
  /\ Working(c) => stalls < MaxStalls
  /\ stalls' = IF Working(c) THEN stalls + 1 ELSE stalls
  /\ job' = [job EXCEPT ![c].leased = FALSE]
  /\ UNCHANGED <<convs, turns, writes, closing, mw, known, heard>>

BackoffEnds(c) ==
  /\ job[c].state = "queued"
  /\ ~job[c].due
  /\ job' = [job EXCEPT ![c].due = TRUE]
  /\ UNCHANGED <<convs, turns, writes, closing, mw, known, heard, stalls>>

Work(w) ==
  \/ ReadTranscript(w)
  \/ \E result \in {"found", "nothing", "transient", "permanent"} : ExtractKnowledge(w, result)
  \/ \E result \in {"done", "transient", "permanent"} : UpsertKnowledge(w, result)
  \/ FinishMemoryJob(w)

MemoryNext ==
  \/ \E c \in Convs, t \in Turns : RecordTurn(c, t) \/ StoreTurn(c, t)
  \/ \E c \in Convs :
       \/ CloseConversation(c) \/ QueueMemoryJob(c) \/ CloserStops(c) \/ PurgeTranscripts(c)
       \/ MemoryLeaseEnds(c) \/ BackoffEnds(c)
  \/ \E w \in MemoryWorkers :
       \/ \E c \in Convs : LeaseMemoryJob(w, c)
       \/ Work(w)
       \/ WorkerStops(w)

MemorySpec == MemoryInit /\ [][MemoryNext]_memoryVars

\* The loop of memoryWorker goes on, and time passes.
MemoryFairness ==
  /\ \A w \in MemoryWorkers :
       /\ WF_memoryVars(\E c \in Convs : LeaseMemoryJob(w, c))
       /\ WF_memoryVars(Work(w))
  /\ \A c \in Convs :
       /\ WF_memoryVars(~Working(c) /\ MemoryLeaseEnds(c))
       /\ WF_memoryVars(BackoffEnds(c))

-----------------------------------------------------------------------------
(* Properties.                                                               *)

\* When a job is marked done, an extraction has covered every turn that was in
\* the transcript when the conversation was closed, whatever other workers of
\* the same job reported, unless the transcript was purged first (extractMemory
\* and FinishMemoryJob; a turn stored after the close may be missed).
DoneMeansCovered ==
  \A c \in Convs : job[c].state = "done" => heard[c] \subseteq known[c]

\* A queued job comes to an end that lasts: it is done, or given up, and no
\* worker that stops, is late or overwrites the outcome of another one leaves
\* it running or queued for good.
JobSettles ==
  \A c \in Convs : job[c].state = "queued" ~> [](job[c].state \in {"done", "failed"})
=============================================================================
