----------------------------- MODULE JobsProofs -----------------------------
(***************************************************************************)
(* The two job queues of the orchestrator: what a completed notification    *)
(* and a finished memory job mean, proved for any number of notifiers,      *)
(* phones, workers, conversations and tries.                                *)
(***************************************************************************)
EXTENDS Notifications, MemoryJobs, WellFoundedInduction, TLAPS

-----------------------------------------------------------------------------
(* Notifications: the inductive invariant.                                   *)

NotifierWork == [pc : {"idle", "next", "send", "check", "complete"}, todo : SUBSET Notes,
                 tokens : SUBSET Phones, finished : BOOLEAN, done : SUBSET Notes]

NotesType ==
  /\ notes \in [Notes -> Note]
  /\ notifier \in [Notifiers -> NotifierWork]
  /\ registered \in SUBSET Phones
  /\ told \in [Notes -> SUBSET Phones]
  /\ alone \in SUBSET Notes
  /\ overdue \in SUBSET Notes

\* deliver always has a notification.
BusyInv ==
  \A c \in Notifiers : notifier[c].pc \in {"next", "send", "check"} => notifier[c].todo # {}

\* A notification has reached a phone, or found none.
Reached(n) == told[n] # {} \/ n \in alone

\* What deliver calls finished, now and before.
FinishedInv ==
  \A c \in Notifiers :
    /\ \A n \in notifier[c].done : Reached(n)
    /\ notifier[c].finished => notifier[c].todo # {} /\ Reached(Oldest(notifier[c].todo))

\* Nobody can claim what a notifier has, unless its claim has ended.
HandledInv ==
  \A c \in Notifiers : \A n \in Handling(c) :
    \/ n \in overdue
    \/ notes[n].state = "pending" /\ notes[n].claimed
    \/ notes[n].state \in {"done", "purged"}

NotesInv ==
  NotesType /\ BusyInv /\ FinishedInv /\ HandledInv /\ DoneMeansTold /\ SharedOnlyLate

-----------------------------------------------------------------------------
(* Memory jobs: the inductive invariant.                                     *)

JobRow == [state : {"none", "queued", "running", "done", "failed"}, attempts : Nat,
           due : BOOLEAN, leased : BOOLEAN]

WorkRow == [pc : {"idle", "read", "extract", "upsert", "finish"}, conv : Convs \cup {NoConv},
            attempts : Nat, got : SUBSET Turns, outcome : {"done", "transient", "permanent"}]

MemoryType ==
  /\ convs \in [Convs -> {"open", "closed"}]
  /\ turns \in [Convs -> SUBSET Turns]
  /\ writes \in SUBSET (Convs \X Turns)
  /\ closing \in SUBSET Convs
  /\ job \in [Convs -> JobRow]
  /\ mw \in [MemoryWorkers -> WorkRow]
  /\ known \in [Convs -> SUBSET Turns]
  /\ heard \in [Convs -> SUBSET Turns]
  /\ stalls \in Nat

\* An open conversation has no job; what was stored at the close is there
\* until the transcript is purged.
ClosedInv ==
  \A c \in Convs :
    /\ convs[c] = "open" => job[c].state = "none" /\ c \notin closing
    /\ convs[c] = "closed" => heard[c] \subseteq turns[c]

\* A worker has all of it, from the moment it has read the transcript.
WorkInv ==
  \A w \in MemoryWorkers :
    LET c == mw[w].conv IN
    mw[w].pc # "idle" =>
      /\ c \in Convs /\ convs[c] = "closed"
      /\ mw[w].pc \in {"extract", "upsert"} => heard[c] \subseteq mw[w].got
      /\ mw[w].pc = "finish" /\ mw[w].outcome = "done" => heard[c] \subseteq known[c]

MemoryInv == MemoryType /\ ClosedInv /\ WorkInv /\ DoneMeansCovered

-----------------------------------------------------------------------------
(* Notifications: lemmas.                                                    *)

\* A set of naturals that is not empty has a least element.
LEMMA LeastNote ==
  ASSUME NEW S, S \subseteq Nat, S # {}
  PROVE  \E x \in S : \A y \in S : x <= y
<1>1. PICK x \in S : \A y \in S : ~(<<y, x>> \in OpToRel(<, Nat))
  BY NatLessThanWellFounded, WFMin
<1>2. \A y \in S : <<y, x>> \in Nat \X Nat
  OBVIOUS
<1>3. \A y \in S : ~(y < x)
  BY <1>1, <1>2 DEF OpToRel
<1> QED BY <1>3

\* What Run delivers next is one of those it claimed.
LEMMA OldestIn ==
  ASSUME NEW S \in SUBSET Notes, S # {}
  PROVE  Oldest(S) \in S
<1>1. S \subseteq Nat
  BY NotesAssumption DEF Notes
<1>2. \E n \in S : \A k \in S : n <= k
  BY <1>1, LeastNote
<1> QED BY <1>2 DEF Oldest

\* Nothing undoes that a notification was told, or found no phone.
LEMMA ReachedStays ==
  ASSUME NEW n, Reached(n), told'[n] = told[n] \/ told'[n] # {}, alone \subseteq alone'
  PROVE  Reached(n)'
BY DEF Reached

\* A step in which one notifier goes on with what it has, or gives some of it
\* up, and the outbox is left alone.
LEMMA NotifierMoves ==
  ASSUME NotesInv, NEW c \in Notifiers, NEW w \in NotifierWork,
         notifier' = [notifier EXCEPT ![c] = w],
         notes' = notes, overdue' = overdue,
         registered' \in SUBSET Phones, told' \in [Notes -> SUBSET Phones], alone' \in SUBSET Notes,
         \A n \in Notes : Reached(n) => Reached(n)',
         w.todo \cup w.done \subseteq Handling(c),
         w.pc \in {"next", "send", "check"} => w.todo # {},
         \A n \in w.done : Reached(n)',
         w.finished => w.todo # {} /\ Reached(Oldest(w.todo))'
  PROVE  NotesInv'
<1>0. NotesType /\ BusyInv /\ FinishedInv /\ HandledInv /\ DoneMeansTold /\ SharedOnlyLate
  BY DEF NotesInv
<1>1. NotesType'
  BY <1>0 DEF NotesType
<1>2. notifier'[c] = w /\ \A d \in Notifiers \ {c} : notifier'[d] = notifier[d]
  BY <1>0 DEF NotesType
<1>3. BusyInv'
  BY <1>0, <1>2 DEF BusyInv
<1>4. ASSUME NEW d \in Notifiers
      PROVE  (/\ \A n \in notifier[d].done : Reached(n)
              /\ notifier[d].finished => notifier[d].todo # {} /\ Reached(Oldest(notifier[d].todo)))'
  <2>1. CASE d = c
    BY <2>1, <1>2
  <2>2. CASE d # c
    <3>1. notifier[d].done \subseteq Notes /\ notifier[d].todo \subseteq Notes
      BY <1>0 DEF NotesType, NotifierWork
    <3>0. PICK v : v = notifier[d]
      OBVIOUS
    <3>2. notifier'[d] = v
      BY <2>2, <1>2, <3>0
    <3>3. \A n \in v.done : Reached(n)'
      BY <1>0, <3>1, <3>0 DEF FinishedInv
    <3>4. v.finished => v.todo # {} /\ Reached(Oldest(v.todo))
      BY <1>0, <3>0 DEF FinishedInv
    <3>5. v.finished => Oldest(v.todo) \in Notes
      BY <3>4, <3>1, <3>0, OldestIn
    <3>6. v.finished => Reached(Oldest(v.todo))'
      BY <3>4, <3>5
    <3> QED BY <3>2, <3>3, <3>4, <3>6
  <2> QED BY <2>1, <2>2
<1>5. FinishedInv'
  BY <1>4 DEF FinishedInv
<1>6. \A d \in Notifiers : Handling(d)' \subseteq Handling(d)
  BY <1>2 DEF Handling
<1>7. HandledInv'
  BY <1>0, <1>6 DEF HandledInv
<1>8. DoneMeansTold'
  BY <1>0 DEF DoneMeansTold, Reached
<1>9. SharedOnlyLate'
  BY <1>0, <1>6 DEF SharedOnlyLate
<1> QED BY <1>1, <1>3, <1>5, <1>7, <1>8, <1>9 DEF NotesInv

\* deliver returns and Run goes to the next notification or to complete.
LEMMA DeliveredInv ==
  ASSUME NotesInv, NEW c \in Notifiers, NEW finished \in BOOLEAN,
         notifier[c].pc \in {"next", "check"},
         Delivered(c, finished),
         notes' = notes, overdue' = overdue, registered' = registered, told' = told,
         alone \subseteq alone', alone' \in SUBSET Notes,
         NEW note, note = Oldest(notifier[c].todo), finished => Reached(note)'
  PROVE  NotesInv'
<1>0. NotesType /\ BusyInv /\ FinishedInv
  BY DEF NotesInv
<1>1. /\ notifier[c] \in NotifierWork /\ notifier[c].todo \in SUBSET Notes
      /\ notifier[c].done \in SUBSET Notes /\ notifier[c].todo # {}
  BY <1>0 DEF NotesType, NotifierWork, BusyInv
<1>3. note \in notifier[c].todo
  BY <1>1, OldestIn
<1>4. PICK rest : rest = notifier[c].todo \ {note}
  OBVIOUS
<1>5. PICK done : done = IF finished THEN notifier[c].done \cup {note} ELSE notifier[c].done
  OBVIOUS
<1>6. rest \in SUBSET Notes /\ done \in SUBSET Notes /\ rest \cup done \subseteq Handling(c)
  BY <1>1, <1>3, <1>4, <1>5 DEF Handling
<1>7. PICK w : w = (IF rest # {} THEN [Idle EXCEPT !.pc = "next", !.todo = rest, !.done = done]
                    ELSE IF done # {} THEN [Idle EXCEPT !.pc = "complete", !.done = done]
                    ELSE Idle)
  OBVIOUS
<1>8. /\ w \in NotifierWork /\ w.todo \subseteq rest /\ w.done \subseteq done /\ w.finished = FALSE
      /\ w.pc \in {"next", "send", "check"} => w.todo # {}
  BY <1>6, <1>7 DEF Idle, NotifierWork
<1>9. notifier' = [notifier EXCEPT ![c] = w]
  BY <1>4, <1>5, <1>7 DEF Delivered
<1>10. \A n \in Notes : Reached(n) => Reached(n)'
  BY DEF Reached
<1>11. \A n \in done : Reached(n)'
  <2>1. \A n \in notifier[c].done : Reached(n)'
    BY <1>0, <1>1, <1>10 DEF FinishedInv
  <2> QED BY <2>1, <1>5
<1> QED
  <2>1. registered' \in SUBSET Phones /\ told' \in [Notes -> SUBSET Phones]
    BY <1>0 DEF NotesType
  <2> QED BY <2>1, <1>6, <1>8, <1>9, <1>10, <1>11, NotifierMoves

\* A step of one row of the outbox that keeps every notifier where it is.
LEMMA RowMoves ==
  ASSUME NotesInv, NEW n \in Notes, NEW row \in Note,
         notes' = [notes EXCEPT ![n] = row],
         UNCHANGED <<notifier, registered, told, alone>>,
         overdue \subseteq overdue', overdue' \in SUBSET Notes,
         row.state = "done" => notes[n].state = "done",
         notes[n].state # "none",
         \/ n \in overdue'
         \/ row.state \in {"done", "purged"}
         \/ row.state = "pending" /\ (notes[n].claimed => row.claimed) /\ notes[n].state = "pending"
  PROVE  NotesInv'
<1>0. NotesType /\ BusyInv /\ FinishedInv /\ HandledInv /\ DoneMeansTold /\ SharedOnlyLate
  BY DEF NotesInv
<1>1. NotesType'
  BY <1>0 DEF NotesType
<1>2. notes'[n] = row /\ \A k \in Notes \ {n} : notes'[k] = notes[k]
  BY <1>0 DEF NotesType
<1>3. BusyInv'
  BY <1>0 DEF BusyInv
<1>4. FinishedInv'
  BY <1>0 DEF FinishedInv, Reached
<1>5. \A d \in Notifiers : Handling(d)' = Handling(d) /\ Handling(d) \subseteq Notes
  BY <1>0 DEF Handling, NotesType, NotifierWork
<1>6. HandledInv'
  <2>1. SUFFICES ASSUME NEW d \in Notifiers, NEW k \in Handling(d)
                 PROVE  \/ k \in overdue'
                        \/ notes'[k].state = "pending" /\ notes'[k].claimed
                        \/ notes'[k].state \in {"done", "purged"}
    BY <1>5 DEF HandledInv
  <2>2. \/ k \in overdue
        \/ notes[k].state = "pending" /\ notes[k].claimed
        \/ notes[k].state \in {"done", "purged"}
    BY <1>0 DEF HandledInv
  <2>3. CASE k = n
    BY <2>2, <2>3, <1>2
  <2>4. CASE k # n
    BY <2>2, <2>4, <1>2, <1>5
  <2> QED BY <2>3, <2>4
<1>7. DoneMeansTold'
  BY <1>0, <1>2 DEF DoneMeansTold
<1>8. SharedOnlyLate'
  BY <1>0, <1>5 DEF SharedOnlyLate
<1> QED BY <1>1, <1>3, <1>4, <1>6, <1>7, <1>8 DEF NotesInv

\* A new notification: no notifier has it.
LEMMA AddKeeps ==
  ASSUME NotesInv, NEW n \in Notes, AddNotification(n)
  PROVE  NotesInv'
<1>0. NotesType /\ BusyInv /\ FinishedInv /\ HandledInv /\ DoneMeansTold /\ SharedOnlyLate
  BY DEF NotesInv
<1>1. PICK row : row = [notes[n] EXCEPT !.state = "pending"]
  OBVIOUS
<1>2. notes[n] \in Note /\ notes[n].state = "none"
  BY <1>0 DEF NotesType, AddNotification
<1>3. row \in Note /\ row.state = "pending"
  BY <1>1, <1>2 DEF Note
<1>4. notes' = [notes EXCEPT ![n] = row] /\ UNCHANGED <<notifier, registered, told, alone, overdue>>
  BY <1>1 DEF AddNotification
<1>5. NotesType'
  BY <1>0, <1>3, <1>4 DEF NotesType
<1>6. notes'[n] = row /\ \A k \in Notes \ {n} : notes'[k] = notes[k]
  BY <1>0, <1>4 DEF NotesType
<1>7. BusyInv' /\ FinishedInv'
  BY <1>0, <1>4 DEF BusyInv, FinishedInv, Reached
<1>8. \A d \in Notifiers : Handling(d)' = Handling(d) /\ Handling(d) \subseteq Notes
  BY <1>0, <1>4 DEF Handling, NotesType, NotifierWork
<1>9. HandledInv'
  BY <1>0, <1>2, <1>4, <1>6, <1>8 DEF HandledInv
<1>10. DoneMeansTold'
  BY <1>0, <1>3, <1>4, <1>6 DEF DoneMeansTold
<1>11. SharedOnlyLate'
  BY <1>0, <1>4, <1>8 DEF SharedOnlyLate
<1> QED BY <1>5, <1>7, <1>9, <1>10, <1>11 DEF NotesInv

\* Time and the purge.
LEMMA TimeKeeps ==
  ASSUME NotesInv, NEW n \in Notes, LeaseEnds(n) \/ TooOld(n) \/ PurgeNotifications(n)
  PROVE  NotesInv'
<1>0. NotesType /\ notes[n] \in Note
  BY DEF NotesInv, NotesType
<1>1. CASE LeaseEnds(n)
  <2>1. PICK row : row = [notes[n] EXCEPT !.claimed = FALSE]
    OBVIOUS
  <2>2. row \in Note /\ row.state = notes[n].state
    BY <1>0, <2>1 DEF Note
  <2>3. /\ notes' = [notes EXCEPT ![n] = row] /\ UNCHANGED <<notifier, registered, told, alone>>
        /\ overdue' = overdue \cup {n} /\ notes[n].state = "pending"
    BY <1>1, <2>1 DEF LeaseEnds
  <2>4. overdue' \in SUBSET Notes
    BY <1>0, <2>3 DEF NotesType
  <2> QED BY <2>2, <2>3, <2>4, RowMoves
<1>2. CASE TooOld(n)
  <2>1. PICK row : row = [notes[n] EXCEPT !.old = TRUE]
    OBVIOUS
  <2>2. row \in Note /\ row.state = notes[n].state /\ row.claimed = notes[n].claimed
    BY <1>0, <2>1 DEF Note
  <2>3. /\ notes' = [notes EXCEPT ![n] = row] /\ UNCHANGED <<notifier, registered, told, alone>>
        /\ overdue' = overdue /\ notes[n].state \in {"pending", "done"}
    BY <1>2, <2>1 DEF TooOld
  <2>4. overdue' \in SUBSET Notes
    BY <1>0, <2>3 DEF NotesType
  <2> QED BY <2>2, <2>3, <2>4, RowMoves
<1>3. CASE PurgeNotifications(n)
  <2>1. PICK row : row = [NoNote EXCEPT !.state = "purged"]
    OBVIOUS
  <2>2. row \in Note /\ row.state = "purged"
    <3>1. NoNote \in Note
      BY NotesAssumption DEF Note, NoNote
    <3> QED BY <2>1, <3>1 DEF Note
  <2>3. /\ notes' = [notes EXCEPT ![n] = row] /\ UNCHANGED <<notifier, registered, told, alone>>
        /\ overdue' = overdue /\ notes[n].state \in {"pending", "done"}
    BY <1>3, <2>1 DEF PurgeNotifications
  <2>4. overdue' \in SUBSET Notes
    BY <1>0, <2>3 DEF NotesType
  <2> QED BY <2>2, <2>3, <2>4, RowMoves
<1> QED BY <1>1, <1>2, <1>3

\* A claim takes what no notifier has, or what one has held for too long.
LEMMA ClaimKeeps ==
  ASSUME NotesInv, NEW c \in Notifiers, NEW got \in BOOLEAN, ClaimNotifications(c, got)
  PROVE  NotesInv'
<1>0. NotesType /\ BusyInv /\ FinishedInv /\ HandledInv /\ DoneMeansTold /\ SharedOnlyLate
  BY DEF NotesInv
<1>1. PICK taken : taken = Claimable
  OBVIOUS
<1>2. /\ taken \in SUBSET Notes /\ taken # {}
      /\ \A n \in taken : /\ notes[n].state = "pending" /\ ~notes[n].claimed
                          /\ notes[n].attempts < NotificationAttempts
  BY <1>1 DEF ClaimNotifications, Claimable, Due, Unclaimed
<1>3. /\ notes' = [n \in Notes |-> IF n \in taken
                               THEN [notes[n] EXCEPT !.attempts = @ + 1, !.claimed = TRUE]
                               ELSE notes[n]]
      /\ UNCHANGED <<registered, told, alone, overdue>>
  BY <1>1 DEF ClaimNotifications
<1>4. ASSUME NEW n \in Notes
      PROVE  /\ notes'[n] \in Note /\ notes'[n].state = notes[n].state
             /\ n \in taken => notes'[n].claimed
             /\ n \notin taken => notes'[n] = notes[n]
  <2>1. notes[n] \in Note
    BY <1>0 DEF NotesType
  <2>2. CASE n \in taken
    <3>1. notes'[n] = [notes[n] EXCEPT !.attempts = notes[n].attempts + 1, !.claimed = TRUE]
      BY <1>3, <2>2
    <3>2. notes[n].attempts + 1 \in 0..NotificationAttempts
      BY <2>1, <2>2, <1>2, NotesAssumption DEF Note
    <3> QED BY <2>1, <2>2, <3>1, <3>2 DEF Note
  <2>3. CASE n \notin taken
    BY <2>1, <2>3, <1>3
  <2> QED BY <2>2, <2>3
<1>5. notes' \in [Notes -> Note]
  BY <1>3, <1>4
<1>6. PICK w : w = [Idle EXCEPT !.pc = "next", !.todo = taken]
  OBVIOUS
<1>7. w \in NotifierWork /\ w.todo = taken /\ w.done = {} /\ w.finished = FALSE
  BY <1>2, <1>6 DEF Idle, NotifierWork
<1>8. notifier' = notifier \/ notifier' = [notifier EXCEPT ![c] = w]
  BY <1>1, <1>6 DEF ClaimNotifications
<1>9. \A d \in Notifiers : notifier'[d] = notifier[d] \/ (d = c /\ notifier'[d] = w)
  BY <1>0, <1>8 DEF NotesType
<1>10. NotesType'
  BY <1>0, <1>3, <1>5, <1>7, <1>8 DEF NotesType
<1>11. BusyInv'
  BY <1>0, <1>2, <1>7, <1>9 DEF BusyInv
<1>12. FinishedInv'
  BY <1>0, <1>3, <1>7, <1>9 DEF FinishedInv, Reached
<1>13. \A d \in Notifiers : Handling(d)' = Handling(d) \/ (d = c /\ Handling(d)' = taken)
  BY <1>7, <1>9 DEF Handling
<1>14. \A d \in Notifiers : Handling(d) \subseteq Notes
  BY <1>0 DEF Handling, NotesType, NotifierWork
<1>15. \A d \in Notifiers : Handling(d) \cap taken \subseteq overdue
  BY <1>0, <1>2 DEF HandledInv
<1>16. HandledInv'
  <2>1. SUFFICES ASSUME NEW d \in Notifiers, NEW k \in Handling(d)'
                 PROVE  \/ k \in overdue'
                        \/ notes'[k].state = "pending" /\ notes'[k].claimed
                        \/ notes'[k].state \in {"done", "purged"}
    BY DEF HandledInv
  <2>2. CASE k \in taken
    BY <2>2, <1>2, <1>4
  <2>3. CASE k \notin taken
    <3>1. k \in Handling(d) /\ k \in Notes
      BY <2>3, <1>13, <1>14
    <3>2. notes'[k] = notes[k]
      BY <3>1, <2>3, <1>4
    <3> QED BY <3>1, <3>2, <1>0, <1>3 DEF HandledInv
  <2> QED BY <2>2, <2>3
<1>17. DoneMeansTold'
  BY <1>0, <1>3, <1>4 DEF DoneMeansTold
<1>18. SharedOnlyLate'
  BY <1>0, <1>3, <1>13, <1>15 DEF SharedOnlyLate
<1> QED BY <1>10, <1>11, <1>12, <1>16, <1>17, <1>18 DEF NotesInv

\* The phones are looked up: nobody to tell is a delivery.
LEMMA LoadKeeps ==
  ASSUME NotesInv, NEW c \in Notifiers, NEW loaded \in BOOLEAN, LoadTokens(c, loaded)
  PROVE  NotesInv'
<1>0. NotesType /\ BusyInv /\ FinishedInv
  BY DEF NotesInv
<1>1. /\ notifier[c] \in NotifierWork /\ notifier[c].pc = "next" /\ notifier[c].todo # {}
      /\ notifier[c].todo \in SUBSET Notes /\ UNCHANGED <<notes, registered, told, overdue>>
      /\ registered \in SUBSET Phones /\ told \in [Notes -> SUBSET Phones] /\ alone \in SUBSET Notes
  BY <1>0 DEF LoadTokens, NotesType, NotifierWork, BusyInv
<1>2. CASE loaded /\ registered # {}
  <2>1. PICK w : w = [notifier[c] EXCEPT !.pc = "send", !.tokens = registered]
    OBVIOUS
  <2>2. /\ w \in NotifierWork /\ w.todo = notifier[c].todo /\ w.done = notifier[c].done
        /\ w.finished = notifier[c].finished
    BY <1>1, <2>1 DEF NotifierWork
  <2>3. notifier' = [notifier EXCEPT ![c] = w] /\ alone' = alone
    BY <1>2, <2>1 DEF LoadTokens
  <2>4. \A n : Reached(n) => Reached(n)'
    BY <1>1, <2>3 DEF Reached
  <2>5. /\ \A n \in w.done : Reached(n)
        /\ w.finished => Reached(Oldest(w.todo))
    BY <1>0, <2>2 DEF FinishedInv
  <2>6. w.todo \cup w.done \subseteq Handling(c)
    BY <2>2 DEF Handling
  <2>7. /\ \A n \in w.done : Reached(n)'
        /\ w.finished => Reached(Oldest(w.todo))'
    BY <2>4, <2>5
  <2> QED BY <1>1, <2>2, <2>3, <2>4, <2>6, <2>7, NotifierMoves
<1>3. CASE ~(loaded /\ registered # {})
  <2>0. PICK note : note = Oldest(notifier[c].todo)
    OBVIOUS
  <2>1. note \in Notes
    BY <1>1, <2>0, OldestIn
  <2>2. Delivered(c, loaded) /\ alone' = (IF loaded THEN alone \cup {note} ELSE alone)
    BY <1>3, <2>0 DEF LoadTokens
  <2>3. loaded => Reached(note)'
    BY <2>2 DEF Reached
  <2>4. alone \subseteq alone' /\ alone' \in SUBSET Notes
    BY <2>1, <2>2, <1>1
  <2> QED BY <1>1, <2>0, <2>2, <2>3, <2>4, DeliveredInv
<1> QED BY <1>2, <1>3

\* One phone is told, or not.
LEMMA SendKeeps ==
  ASSUME NotesInv, NEW c \in Notifiers, NEW p \in Phones,
         NEW result \in {"sent", "unregistered", "failed"}, SendOne(c, p, result)
  PROVE  NotesInv'
<1>0. NotesType /\ BusyInv /\ FinishedInv
  BY DEF NotesInv
<1>1. /\ notifier[c] \in NotifierWork /\ notifier[c].pc = "send" /\ notifier[c].todo # {}
      /\ notifier[c].todo \in SUBSET Notes /\ UNCHANGED <<notes, alone, overdue>>
      /\ registered \in SUBSET Phones /\ told \in [Notes -> SUBSET Phones] /\ alone \in SUBSET Notes
      /\ notifier[c].finished \in BOOLEAN /\ notifier[c].tokens \in SUBSET Phones
  BY <1>0 DEF SendOne, NotesType, NotifierWork, BusyInv
<1>2. PICK note : note = Oldest(notifier[c].todo)
  OBVIOUS
<1>3. note \in Notes
  BY <1>1, <1>2, OldestIn
<1>4. PICK w : w = [notifier[c] EXCEPT !.tokens = notifier[c].tokens \ {p},
                                       !.finished = notifier[c].finished \/ Sent(result),
                                       !.pc = IF notifier[c].tokens \ {p} = {} THEN "check" ELSE "send"]
  OBVIOUS
<1>5. /\ w \in NotifierWork /\ w.todo = notifier[c].todo /\ w.done = notifier[c].done
      /\ w.finished <=> (notifier[c].finished \/ result = "sent")
  BY <1>1, <1>4 DEF NotifierWork, Sent
<1>6. /\ notifier' = [notifier EXCEPT ![c] = w]
      /\ told' = (IF result = "sent" THEN [told EXCEPT ![note] = @ \cup {p}] ELSE told)
      /\ registered' = (IF result = "unregistered" THEN registered \ {p} ELSE registered)
  <2>1. notifier' = [notifier EXCEPT ![c] = [notifier[c] EXCEPT !.tokens = notifier[c].tokens \ {p},
                                       !.finished = notifier[c].finished \/ Sent(result),
                                       !.pc = IF notifier[c].tokens \ {p} = {} THEN "check" ELSE "send"]]
    BY <1>0 DEF SendOne, NotesType
  <2>2. notifier' = [notifier EXCEPT ![c] = w]
    BY <2>1, <1>4
  <2> QED BY <1>2, <2>2 DEF SendOne
<1>7. \A n \in Notes : told[n] \subseteq told'[n] /\ (result = "sent" => told'[note] # {})
  BY <1>1, <1>3, <1>6
<1>8. told' \in [Notes -> SUBSET Phones] /\ registered' \in SUBSET Phones
  BY <1>1, <1>3, <1>6
<1>9. \A n \in Notes : Reached(n) => Reached(n)'
  BY <1>1, <1>7 DEF Reached
<1>10. notifier[c].done \subseteq Notes
  BY <1>1 DEF NotifierWork
<1>11. \A n \in w.done : Reached(n)'
  BY <1>0, <1>5, <1>9, <1>10 DEF FinishedInv
<1>12. w.finished => Reached(note)'
  <2>1. CASE result = "sent"
    BY <2>1, <1>3, <1>7 DEF Reached
  <2>2. CASE result # "sent"
    BY <2>2, <1>0, <1>2, <1>3, <1>5, <1>9 DEF FinishedInv
  <2> QED BY <2>1, <2>2
<1>13. w.todo \cup w.done \subseteq Handling(c) /\ Oldest(w.todo) = note
  BY <1>2, <1>5 DEF Handling
<1>14. w.finished => w.todo # {} /\ Reached(Oldest(w.todo))'
  BY <1>1, <1>5, <1>12, <1>13
<1> QED BY <1>1, <1>5, <1>6, <1>8, <1>9, <1>11, <1>13, <1>14, NotifierMoves

\* Every phone was tried: finished if one was told, or none is left.
LEMMA CheckKeeps ==
  ASSUME NotesInv, NEW c \in Notifiers, NEW loaded \in BOOLEAN, Check(c, loaded)
  PROVE  NotesInv'
<1>0. NotesType /\ BusyInv /\ FinishedInv
  BY DEF NotesInv
<1>1. /\ notifier[c] \in NotifierWork /\ notifier[c].pc = "check" /\ notifier[c].todo # {}
      /\ notifier[c].todo \in SUBSET Notes /\ UNCHANGED <<notes, registered, told, overdue>>
      /\ alone \in SUBSET Notes /\ notifier[c].finished \in BOOLEAN
  BY <1>0 DEF Check, NotesType, NotifierWork, BusyInv
<1>2. PICK note : note = Oldest(notifier[c].todo)
  OBVIOUS
<1>3. note \in Notes
  BY <1>1, <1>2, OldestIn
<1>4. PICK dead \in BOOLEAN : dead = (~notifier[c].finished /\ loaded /\ registered = {})
  BY <1>1
<1>5. PICK fin \in BOOLEAN : fin = (notifier[c].finished \/ dead)
  BY <1>1
<1>6. Delivered(c, fin) /\ alone' = (IF dead THEN alone \cup {note} ELSE alone)
  BY <1>2, <1>4, <1>5 DEF Check
<1>7. fin => Reached(note)'
  BY <1>0, <1>1, <1>2, <1>5, <1>6 DEF FinishedInv, Reached
<1>8. alone \subseteq alone' /\ alone' \in SUBSET Notes
  BY <1>1, <1>3, <1>6
<1> QED BY <1>1, <1>2, <1>6, <1>7, <1>8, DeliveredInv

\* What was finished is completed; a notifier that stops gives all of it up.
LEMMA CompleteKeeps ==
  ASSUME NotesInv, NEW c \in Notifiers,
         (\E served \in BOOLEAN : CompleteNotifications(c, served)) \/ NotifierStops(c)
  PROVE  NotesInv'
<1>0. NotesType /\ BusyInv /\ FinishedInv /\ HandledInv /\ DoneMeansTold /\ SharedOnlyLate
  BY DEF NotesInv
<1>1. /\ notifier' = [notifier EXCEPT ![c] = Idle] /\ UNCHANGED <<registered, told, alone, overdue>>
      /\ notifier[c] \in NotifierWork
  BY <1>0 DEF CompleteNotifications, NotifierStops, NotesType
<1>2. notifier[c].done \subseteq Notes
  BY <1>1 DEF NotifierWork
<1>3. /\ notes' \in [Notes -> Note]
      /\ \A n \in Notes : notes'[n] = notes[n] \/
           (notes'[n].state = "done" /\ n \in notifier[c].done)
  <2>1. CASE NotifierStops(c)
    BY <2>1, <1>0 DEF NotifierStops, NotesType
  <2>2. CASE \E served \in BOOLEAN : CompleteNotifications(c, served)
    <3>1. PICK served \in BOOLEAN : CompleteNotifications(c, served)
      BY <2>2
    <3>2. notes' = [n \in Notes |-> IF served /\ n \in notifier[c].done /\ notes[n].state = "pending"
                               THEN [notes[n] EXCEPT !.state = "done"] ELSE notes[n]]
      BY <3>1 DEF CompleteNotifications
    <3>3. \A n \in Notes : notes[n] \in Note
      BY <1>0 DEF NotesType
    <3>4. \A n \in Notes : /\ [notes[n] EXCEPT !.state = "done"] \in Note
                           /\ [notes[n] EXCEPT !.state = "done"].state = "done"
      BY <3>3 DEF Note
    <3> QED BY <3>2, <3>3, <3>4
  <2> QED BY <2>1, <2>2
<1>4. /\ Idle \in NotifierWork /\ Idle.pc = "idle" /\ Idle.todo = {} /\ Idle.done = {}
      /\ Idle.finished = FALSE
  BY DEF Idle, NotifierWork
<1>5. \A d \in Notifiers : notifier'[d] = notifier[d] \/ notifier'[d] = Idle
  BY <1>0, <1>1 DEF NotesType
<1>6. NotesType'
  BY <1>0, <1>1, <1>3, <1>4 DEF NotesType
<1>7. BusyInv' /\ FinishedInv'
  BY <1>0, <1>1, <1>4, <1>5 DEF BusyInv, FinishedInv, Reached
<1>8. \A d \in Notifiers : Handling(d)' \subseteq Handling(d) /\ Handling(d) \subseteq Notes
  BY <1>0, <1>4, <1>5 DEF Handling, NotesType, NotifierWork
<1>9. HandledInv'
  BY <1>0, <1>1, <1>3, <1>8 DEF HandledInv
<1>10. DoneMeansTold'
  BY <1>0, <1>1, <1>3 DEF DoneMeansTold, FinishedInv, Reached
<1>11. SharedOnlyLate'
  BY <1>0, <1>1, <1>8 DEF SharedOnlyLate
<1> QED BY <1>6, <1>7, <1>9, <1>10, <1>11 DEF NotesInv

\* Phones come and go between two steps of a notifier.
LEMMA PhoneKeeps ==
  ASSUME NotesInv, NEW p \in Phones, PhoneComesOrGoes(p)
  PROVE  NotesInv'
BY DEF NotesInv, PhoneComesOrGoes, NotesType, BusyInv, FinishedInv, HandledInv, DoneMeansTold,
       SharedOnlyLate, Handling, Reached

\* The invariant of the outbox and its notifiers (store.go, engine.go, push.go)
\* holds in every state of the specification.
THEOREM NotesInvHolds == NotesSpec => []NotesInv
<1>1. NotesInit => NotesInv
  <2> SUFFICES ASSUME NotesInit PROVE NotesInv
    OBVIOUS
  <2>1. NoNote \in Note /\ NoNote.state = "none"
    BY NotesAssumption DEF NoNote, Note
  <2>2. /\ Idle \in NotifierWork /\ Idle.pc = "idle" /\ Idle.todo = {} /\ Idle.done = {}
        /\ Idle.finished = FALSE
    BY DEF Idle, NotifierWork
  <2>3. NotesType
    BY <2>1, <2>2 DEF NotesInit, NotesType
  <2>4. \A c \in Notifiers : notifier[c] = Idle /\ Handling(c) = {}
    BY <2>2 DEF NotesInit, Handling
  <2>5. \A n \in Notes : notes[n].state = "none"
    BY <2>1 DEF NotesInit
  <2> QED BY <2>2, <2>3, <2>4, <2>5 DEF NotesInv, BusyInv, FinishedInv, HandledInv, DoneMeansTold,
                                        SharedOnlyLate
<1>2. NotesInv /\ [NotesNext]_notesVars => NotesInv'
  <2> SUFFICES ASSUME NotesInv, [NotesNext]_notesVars PROVE NotesInv'
    OBVIOUS
  <2>1. CASE UNCHANGED notesVars
    BY <2>1 DEF notesVars, NotesInv, NotesType, BusyInv, FinishedInv, HandledInv, DoneMeansTold,
                SharedOnlyLate, Handling, Reached
  <2>2. ASSUME NEW n \in Notes,
               AddNotification(n) \/ LeaseEnds(n) \/ TooOld(n) \/ PurgeNotifications(n)
        PROVE  NotesInv'
    BY <2>2, AddKeeps, TimeKeeps
  <2>3. ASSUME NEW c \in Notifiers, NEW got \in BOOLEAN, ClaimNotifications(c, got)
        PROVE  NotesInv'
    BY <2>3, ClaimKeeps
  <2>4. ASSUME NEW c \in Notifiers, Deliver(c)
        PROVE  NotesInv'
    BY <2>4, LoadKeeps, CheckKeeps, SendKeeps, CompleteKeeps DEF Deliver
  <2>5. ASSUME NEW c \in Notifiers, NotifierStops(c)
        PROVE  NotesInv'
    BY <2>5, CompleteKeeps
  <2>6. ASSUME NEW p \in Phones, PhoneComesOrGoes(p)
        PROVE  NotesInv'
    BY <2>6, PhoneKeeps
  <2> QED BY <2>1, <2>2, <2>3, <2>4, <2>5, <2>6 DEF NotesNext
<1> QED BY <1>1, <1>2, PTL DEF NotesSpec

\* A notification that CompleteNotifications marked done was taken by APNs for
\* some phone, or its user had none when deliver looked (push.go, deliver).
THEOREM DoneMeansToldAlways == NotesSpec => []DoneMeansTold
<1>1. NotesInv => DoneMeansTold
  BY DEF NotesInv
<1> QED BY <1>1, NotesInvHolds, PTL

\* What ClaimNotifications hands to one notifier no other one handles, unless
\* its claim has ended (store.go, ClaimNotifications).
THEOREM SharedOnlyLateAlways == NotesSpec => []SharedOnlyLate
<1>1. NotesInv => SharedOnlyLate
  BY DEF NotesInv
<1> QED BY <1>1, NotesInvHolds, PTL

-----------------------------------------------------------------------------
(* Memory jobs.                                                              *)

\* The first rows.
LEMMA NoRows ==
  /\ NoJob \in JobRow /\ NoJob.state = "none"
  /\ NoWork \in WorkRow /\ NoWork.pc = "idle" /\ NoWork.conv = NoConv
BY DEF NoJob, JobRow, NoWork, WorkRow

\* The steps of a conversation before its job.
LEMMA TurnKeeps ==
  ASSUME MemoryInv, NEW c \in Convs, NEW t \in Turns, RecordTurn(c, t) \/ StoreTurn(c, t)
  PROVE  MemoryInv'
<1>0. MemoryType /\ ClosedInv /\ WorkInv /\ DoneMeansCovered
  BY DEF MemoryInv
<1>1. CASE RecordTurn(c, t)
  <2>1. UNCHANGED <<convs, turns, closing, job, mw, known, heard, stalls>> /\ writes' \in SUBSET (Convs \X Turns)
    BY <1>0, <1>1 DEF RecordTurn, MemoryType
  <2> QED BY <1>0, <2>1 DEF MemoryInv, MemoryType, ClosedInv, WorkInv, DoneMeansCovered
<1>2. CASE StoreTurn(c, t)
  <2>1. /\ UNCHANGED <<convs, closing, job, mw, known, heard, stalls>>
        /\ writes' \in SUBSET (Convs \X Turns) /\ turns' \in [Convs -> SUBSET Turns]
        /\ \A d \in Convs : turns[d] \subseteq turns'[d]
    BY <1>0, <1>2 DEF StoreTurn, MemoryType
  <2>2. MemoryType'
    BY <1>0, <2>1 DEF MemoryType
  <2>3. ClosedInv'
    BY <1>0, <2>1 DEF ClosedInv
  <2>4. WorkInv' /\ DoneMeansCovered'
    BY <1>0, <2>1 DEF WorkInv, DoneMeansCovered
  <2> QED BY <2>2, <2>3, <2>4 DEF MemoryInv
<1> QED BY <1>1, <1>2

\* The conversation is closed: nobody works on it yet.
LEMMA CloseKeeps ==
  ASSUME MemoryInv, NEW c \in Convs, CloseConversation(c)
  PROVE  MemoryInv'
<1>0. MemoryType /\ ClosedInv /\ WorkInv /\ DoneMeansCovered
  BY DEF MemoryInv
<1>1. /\ UNCHANGED <<turns, writes, job, mw, known, stalls>> /\ convs[c] = "open"
      /\ convs' \in [Convs -> {"open", "closed"}] /\ heard' \in [Convs -> SUBSET Turns]
      /\ convs'[c] = "closed" /\ heard'[c] = turns[c] /\ closing' = closing \cup {c}
      /\ \A d \in Convs \ {c} : convs'[d] = convs[d] /\ heard'[d] = heard[d]
  BY <1>0 DEF CloseConversation, MemoryType
<1>2. MemoryType'
  BY <1>0, <1>1 DEF MemoryType
<1>3. ClosedInv'
  BY <1>0, <1>1 DEF ClosedInv
<1>4. WorkInv'
  <2>1. SUFFICES ASSUME NEW w \in MemoryWorkers, mw[w].pc # "idle"
                 PROVE  LET d == mw[w].conv IN
                          /\ d \in Convs /\ convs'[d] = "closed"
                          /\ mw[w].pc \in {"extract", "upsert"} => heard'[d] \subseteq mw[w].got
                          /\ mw[w].pc = "finish" /\ mw[w].outcome = "done" => heard'[d] \subseteq known[d]
    BY <1>1 DEF WorkInv
  <2>2. mw[w].conv \in Convs \ {c}
    BY <1>0, <1>1, <2>1 DEF WorkInv
  <2> QED BY <1>0, <1>1, <2>1, <2>2 DEF WorkInv
<1>5. DoneMeansCovered'
  BY <1>0, <1>1 DEF DoneMeansCovered, ClosedInv
<1> QED BY <1>2, <1>3, <1>4, <1>5 DEF MemoryInv

\* The job is queued, or is not; a lease or a backoff ends.
LEMMA JobKeeps ==
  ASSUME MemoryInv, NEW c \in Convs,
         QueueMemoryJob(c) \/ CloserStops(c) \/ MemoryLeaseEnds(c) \/ BackoffEnds(c)
  PROVE  MemoryInv'
<1>0. MemoryType /\ ClosedInv /\ WorkInv /\ DoneMeansCovered
  BY DEF MemoryInv
<1>1. UNCHANGED <<convs, turns, writes, mw, known, heard>> /\ closing' \subseteq closing /\ stalls' \in Nat
  BY <1>0 DEF QueueMemoryJob, CloserStops, MemoryLeaseEnds, BackoffEnds, MemoryType
<1>2. job[c] \in JobRow
  BY <1>0 DEF MemoryType
<1>3. PICK row \in JobRow : /\ job' = [job EXCEPT ![c] = row]
                            /\ row.state = job[c].state \/ (row.state = "queued" /\ c \in closing)
  <2>1. CASE QueueMemoryJob(c)
    <3>1. [NoJob EXCEPT !.state = "queued", !.due = TRUE] \in JobRow
      BY DEF NoJob, JobRow
    <3>2. [NoJob EXCEPT !.state = "queued", !.due = TRUE].state = "queued"
      BY DEF NoJob
    <3> QED BY <2>1, <3>1, <3>2, <1>0, <1>2 DEF QueueMemoryJob, MemoryType
  <2>2. CASE CloserStops(c)
    BY <2>2, <1>0, <1>2 DEF CloserStops, MemoryType
  <2>3. CASE MemoryLeaseEnds(c)
    <3>1. /\ [job[c] EXCEPT !.leased = FALSE] \in JobRow
          /\ [job[c] EXCEPT !.leased = FALSE].state = job[c].state
      BY <1>2 DEF JobRow
    <3>2. job' = [job EXCEPT ![c] = [job[c] EXCEPT !.leased = FALSE]]
      BY <2>3 DEF MemoryLeaseEnds
    <3> QED BY <3>1, <3>2
  <2>4. CASE BackoffEnds(c)
    <3>1. /\ [job[c] EXCEPT !.due = TRUE] \in JobRow
          /\ [job[c] EXCEPT !.due = TRUE].state = job[c].state
      BY <1>2 DEF JobRow
    <3>2. job' = [job EXCEPT ![c] = [job[c] EXCEPT !.due = TRUE]]
      BY <2>4 DEF BackoffEnds
    <3> QED BY <3>1, <3>2
  <2> QED BY <2>1, <2>2, <2>3, <2>4
<1>4. job'[c] = row /\ \A d \in Convs \ {c} : job'[d] = job[d]
  BY <1>0, <1>3 DEF MemoryType
<1>5. MemoryType'
  BY <1>0, <1>1, <1>3 DEF MemoryType
<1>6. ClosedInv'
  BY <1>0, <1>1, <1>3, <1>4 DEF ClosedInv
<1>7. WorkInv'
  BY <1>0, <1>1 DEF WorkInv
<1>8. DoneMeansCovered'
  BY <1>0, <1>1, <1>3, <1>4 DEF DoneMeansCovered
<1> QED BY <1>5, <1>6, <1>7, <1>8 DEF MemoryInv

\* The transcript is purged: nothing is left that had to be covered.
LEMMA PurgeKeeps ==
  ASSUME MemoryInv, NEW c \in Convs, PurgeTranscripts(c)
  PROVE  MemoryInv'
<1>0. MemoryType /\ ClosedInv /\ WorkInv /\ DoneMeansCovered
  BY DEF MemoryInv
<1>1. /\ UNCHANGED <<convs, writes, closing, job, mw, known, stalls>>
      /\ turns' \in [Convs -> SUBSET Turns] /\ heard' \in [Convs -> SUBSET Turns]
      /\ heard'[c] = {} /\ \A d \in Convs \ {c} : turns'[d] = turns[d] /\ heard'[d] = heard[d]
  BY <1>0 DEF PurgeTranscripts, MemoryType
<1>2. \A d \in Convs : heard'[d] \subseteq heard[d]
  BY <1>1
<1>3. MemoryType'
  BY <1>0, <1>1 DEF MemoryType
<1>4. ClosedInv'
  BY <1>0, <1>1 DEF ClosedInv
<1>5. WorkInv'
  BY <1>0, <1>1, <1>2 DEF WorkInv
<1>6. DoneMeansCovered'
  BY <1>0, <1>1, <1>2 DEF DoneMeansCovered
<1> QED BY <1>3, <1>4, <1>5, <1>6 DEF MemoryInv

\* A step of one worker that leaves the jobs alone and covers turns.
LEMMA WorkerMoves ==
  ASSUME MemoryInv, NEW w \in MemoryWorkers, NEW row \in WorkRow,
         mw' = [mw EXCEPT ![w] = row],
         UNCHANGED <<convs, turns, writes, closing, job, heard>>, stalls' \in Nat,
         known' \in [Convs -> SUBSET Turns], \A c \in Convs : known[c] \subseteq known'[c],
         row.pc # "idle" =>
           /\ row.conv \in Convs /\ convs[row.conv] = "closed"
           /\ row.pc \in {"extract", "upsert"} => heard[row.conv] \subseteq row.got
           /\ row.pc = "finish" /\ row.outcome = "done" => heard[row.conv] \subseteq known'[row.conv]
  PROVE  MemoryInv'
<1>0. MemoryType /\ ClosedInv /\ WorkInv /\ DoneMeansCovered
  BY DEF MemoryInv
<1>1. MemoryType'
  BY <1>0 DEF MemoryType
<1>2. ClosedInv'
  BY <1>0 DEF ClosedInv
<1>3. mw'[w] = row /\ \A v \in MemoryWorkers \ {w} : mw'[v] = mw[v]
  BY <1>0 DEF MemoryType
<1>4. WorkInv'
  BY <1>0, <1>3 DEF WorkInv
<1>5. DoneMeansCovered'
  BY <1>0 DEF DoneMeansCovered
<1> QED BY <1>1, <1>2, <1>4, <1>5 DEF MemoryInv

\* A job is leased: its conversation is closed.
LEMMA LeaseKeeps ==
  ASSUME MemoryInv, NEW w \in MemoryWorkers, NEW c \in Convs, LeaseMemoryJob(w, c)
  PROVE  MemoryInv'
<1>0. MemoryType /\ ClosedInv /\ WorkInv /\ DoneMeansCovered
  BY DEF MemoryInv
<1>1. job[c] \in JobRow /\ job[c].state # "none" /\ convs[c] = "closed"
  BY <1>0 DEF MemoryType, LeaseMemoryJob, Leasable, ClosedInv
<1>2. PICK row : row = [job[c] EXCEPT !.state = "running", !.attempts = job[c].attempts + 1, !.leased = TRUE]
  OBVIOUS
<1>3. row \in JobRow /\ row.state = "running"
  <2>1. PICK k \in Nat : k = job[c].attempts + 1
    BY <1>1 DEF JobRow
  <2>2. row = [job[c] EXCEPT !.state = "running", !.attempts = k, !.leased = TRUE]
    BY <1>2, <2>1
  <2> QED BY <1>1, <2>2 DEF JobRow
<1>4. job' = [job EXCEPT ![c] = row] /\ UNCHANGED <<convs, turns, writes, closing, known, heard, stalls>>
  BY <1>2 DEF LeaseMemoryJob
<1>5. job'[c] = row /\ \A d \in Convs \ {c} : job'[d] = job[d]
  BY <1>0, <1>4 DEF MemoryType
<1>6. PICK work : work = [NoWork EXCEPT !.pc = "read", !.conv = c, !.attempts = row.attempts]
  OBVIOUS
<1>7. work \in WorkRow /\ work.pc = "read" /\ work.conv = c
  <2>1. row.attempts \in Nat
    BY <1>3 DEF JobRow
  <2> QED BY <1>6, <2>1 DEF NoWork, WorkRow
<1>8. mw' = [mw EXCEPT ![w] = work]
  BY <1>5, <1>6 DEF LeaseMemoryJob
<1>9. mw'[w] = work /\ \A v \in MemoryWorkers \ {w} : mw'[v] = mw[v]
  BY <1>0, <1>8 DEF MemoryType
<1>10. MemoryType'
  BY <1>0, <1>3, <1>4, <1>7, <1>8 DEF MemoryType
<1>11. ClosedInv'
  BY <1>0, <1>1, <1>4, <1>5 DEF ClosedInv
<1>12. WorkInv'
  BY <1>0, <1>1, <1>4, <1>7, <1>9 DEF WorkInv
<1>13. DoneMeansCovered'
  BY <1>0, <1>3, <1>4, <1>5 DEF DoneMeansCovered
<1> QED BY <1>10, <1>11, <1>12, <1>13 DEF MemoryInv

\* extractMemory reads the transcript: all that was stored at the close is
\* there, or was purged.
LEMMA ReadKeeps ==
  ASSUME MemoryInv, NEW w \in MemoryWorkers, ReadTranscript(w)
  PROVE  MemoryInv'
<1>0. MemoryType /\ ClosedInv /\ WorkInv
  BY DEF MemoryInv
<1>1. PICK c : c = mw[w].conv
  OBVIOUS
<1>2. c \in Convs /\ convs[c] = "closed" /\ heard[c] \subseteq turns[c] /\ turns[c] \in SUBSET Turns
  BY <1>0, <1>1 DEF ReadTranscript, WorkInv, ClosedInv, MemoryType
<1>3. mw[w] \in WorkRow
  BY <1>0 DEF MemoryType
<1>4. PICK row : row = [mw[w] EXCEPT !.got = turns[c], !.pc = IF turns[c] = {} THEN "finish" ELSE "extract"]
  OBVIOUS
<1>5. /\ row \in WorkRow /\ row.conv = c /\ row.got = turns[c]
      /\ row.pc = (IF turns[c] = {} THEN "finish" ELSE "extract")
  BY <1>1, <1>2, <1>3, <1>4 DEF WorkRow
<1>6. mw' = [mw EXCEPT ![w] = row] /\ UNCHANGED <<convs, turns, writes, closing, job, known, heard, stalls>>
  BY <1>1, <1>4 DEF ReadTranscript
<1>7. known' \in [Convs -> SUBSET Turns] /\ stalls' \in Nat
  BY <1>0, <1>6 DEF MemoryType
<1>8. row.pc = "finish" => heard[row.conv] = {}
  BY <1>2, <1>5
<1> QED BY <1>2, <1>5, <1>6, <1>7, <1>8, WorkerMoves

\* The agent and the knowledge service answer.
LEMMA AnswerKeeps ==
  ASSUME MemoryInv, NEW w \in MemoryWorkers,
         \/ \E result \in {"found", "nothing", "transient", "permanent"} : ExtractKnowledge(w, result)
         \/ \E result \in {"done", "transient", "permanent"} : UpsertKnowledge(w, result)
  PROVE  MemoryInv'
<1>0. MemoryType /\ ClosedInv /\ WorkInv
  BY DEF MemoryInv
<1>1. PICK c : c = mw[w].conv
  OBVIOUS
<1>2. /\ c \in Convs /\ convs[c] = "closed" /\ heard[c] \subseteq mw[w].got
      /\ UNCHANGED <<convs, turns, writes, closing, job, heard, stalls>>
  BY <1>0, <1>1 DEF ExtractKnowledge, UpsertKnowledge, WorkInv
<1>3. mw[w] \in WorkRow /\ mw[w].got \in SUBSET Turns
  BY <1>0 DEF MemoryType, WorkRow
<1> DEFINE Goes(row) == /\ mw' = [mw EXCEPT ![w] = row] /\ row \in WorkRow
                        /\ row.conv = c /\ row.got = mw[w].got /\ row.pc \in {"upsert", "finish"}
                        /\ row.pc = "finish" /\ row.outcome = "done" => Covered(w)
                        /\ known' = known \/ Covered(w)
<1>4. PICK row : Goes(row)
  <2>1. ASSUME NEW result \in {"found", "nothing", "transient", "permanent"}, ExtractKnowledge(w, result)
        PROVE  \E row : Goes(row)
    <3>1. CASE result = "found"
      <4>1. PICK row : row = [mw[w] EXCEPT !.pc = "upsert"]
        OBVIOUS
      <4>2. row \in WorkRow /\ row.conv = c /\ row.got = mw[w].got /\ row.pc = "upsert"
        BY <4>1, <1>1, <1>3 DEF WorkRow
      <4>3. mw' = [mw EXCEPT ![w] = row] /\ known' = known
        BY <2>1, <3>1, <4>1 DEF ExtractKnowledge
      <4> QED BY <4>2, <4>3
    <3>2. CASE result # "found"
      <4>1. PICK row : row = [mw[w] EXCEPT !.pc = "finish",
                                           !.outcome = IF result = "nothing" THEN "done" ELSE result]
        OBVIOUS
      <4>2. /\ row \in WorkRow /\ row.conv = c /\ row.got = mw[w].got /\ row.pc = "finish"
            /\ row.outcome = (IF result = "nothing" THEN "done" ELSE result)
        BY <3>2, <4>1, <1>1, <1>3 DEF WorkRow
      <4>3. /\ mw' = [mw EXCEPT ![w] = row]
            /\ IF result = "nothing" THEN Covered(w) ELSE known' = known
        BY <2>1, <3>2, <4>1 DEF ExtractKnowledge
      <4>4. row.outcome = "done" => result = "nothing"
        BY <4>2
      <4> QED BY <4>2, <4>3, <4>4
    <3> QED BY <3>1, <3>2
  <2>2. ASSUME NEW result \in {"done", "transient", "permanent"}, UpsertKnowledge(w, result)
        PROVE  \E row : Goes(row)
    <3>1. PICK row : row = [mw[w] EXCEPT !.pc = "finish", !.outcome = result]
      OBVIOUS
    <3>2. /\ row \in WorkRow /\ row.conv = c /\ row.got = mw[w].got /\ row.pc = "finish"
          /\ row.outcome = result
      BY <3>1, <1>1, <1>3 DEF WorkRow
    <3>3. mw' = [mw EXCEPT ![w] = row] /\ IF result = "done" THEN Covered(w) ELSE known' = known
      BY <2>2, <3>1 DEF UpsertKnowledge, UpsertOutcome
    <3> QED BY <3>2, <3>3
  <2> QED BY <2>1, <2>2
<1>5. Covered(w) => known' = [known EXCEPT ![c] = known[c] \cup mw[w].got]
  BY <1>1 DEF Covered
<1>6. known \in [Convs -> SUBSET Turns]
  BY <1>0 DEF MemoryType
<1>7. known' \in [Convs -> SUBSET Turns] /\ \A d \in Convs : known[d] \subseteq known'[d]
  BY <1>2, <1>3, <1>4, <1>5, <1>6
<1>8. row.pc = "finish" /\ row.outcome = "done" => heard[c] \subseteq known'[c]
  BY <1>2, <1>4, <1>5, <1>6
<1>9. stalls' \in Nat
  BY <1>0, <1>2 DEF MemoryType
<1> QED BY <1>2, <1>4, <1>7, <1>8, <1>9, WorkerMoves

\* The outcome is written, whoever holds the job by now: "done" only by a
\* worker that has covered the transcript.
LEMMA FinishKeeps ==
  ASSUME MemoryInv, NEW w \in MemoryWorkers, FinishMemoryJob(w)
  PROVE  MemoryInv'
<1>0. MemoryType /\ ClosedInv /\ WorkInv /\ DoneMeansCovered
  BY DEF MemoryInv
<1>1. PICK c : c = mw[w].conv
  OBVIOUS
<1>2. /\ mw[w].outcome = "done" => heard[c] \subseteq known[c]
      /\ UNCHANGED <<convs, turns, writes, closing, known, heard, stalls>>
      /\ mw' = [mw EXCEPT ![w] = NoWork]
  BY <1>0, <1>1 DEF FinishMemoryJob, WorkInv
<1>3. c \in Convs /\ convs[c] = "closed" /\ job[c] \in JobRow
  BY <1>0, <1>1 DEF FinishMemoryJob, WorkInv, MemoryType
<1>4. Outcome(w) \in {"done", "failed", "queued"} /\ (Outcome(w) = "done" => mw[w].outcome = "done")
  BY DEF Outcome
<1>5. PICK row : row = [job[c] EXCEPT !.state = Outcome(w), !.leased = FALSE, !.due = (Outcome(w) # "queued")]
  OBVIOUS
<1>6. row \in JobRow /\ row.state = Outcome(w)
  BY <1>3, <1>4, <1>5 DEF JobRow
<1>7. job' = [job EXCEPT ![c] = row]
  BY <1>1, <1>5 DEF FinishMemoryJob
<1>8. job'[c] = row /\ \A d \in Convs \ {c} : job'[d] = job[d]
  BY <1>0, <1>3, <1>7 DEF MemoryType
<1>9. \A v \in MemoryWorkers : mw'[v] = mw[v] \/ mw'[v] = NoWork
  BY <1>0, <1>2 DEF MemoryType
<1>10. MemoryType'
  BY <1>0, <1>2, <1>6, <1>7, NoRows DEF MemoryType
<1>11. ClosedInv'
  BY <1>0, <1>2, <1>3, <1>8 DEF ClosedInv
<1>12. WorkInv'
  BY <1>0, <1>2, <1>9, NoRows DEF WorkInv
<1>13. DoneMeansCovered'
  BY <1>0, <1>2, <1>4, <1>6, <1>8 DEF DoneMeansCovered
<1> QED BY <1>10, <1>11, <1>12, <1>13 DEF MemoryInv

\* A worker that stops gives the job up.
LEMMA StopKeeps ==
  ASSUME MemoryInv, NEW w \in MemoryWorkers, WorkerStops(w)
  PROVE  MemoryInv'
<1>1. /\ mw' = [mw EXCEPT ![w] = NoWork] /\ stalls' \in Nat /\ known' \in [Convs -> SUBSET Turns]
      /\ UNCHANGED <<convs, turns, writes, closing, job, known, heard>>
  BY DEF MemoryInv, MemoryType, WorkerStops
<1> QED BY <1>1, NoRows, WorkerMoves

\* The invariant of the conversations, their jobs and workers (voice.go,
\* memory.go, store.go) holds in every state of the specification.
THEOREM MemoryInvHolds == MemorySpec => []MemoryInv
<1>1. MemoryInit => MemoryInv
  BY NoRows DEF MemoryInit, MemoryInv, MemoryType, ClosedInv, WorkInv, DoneMeansCovered
<1>2. MemoryInv /\ [MemoryNext]_memoryVars => MemoryInv'
  <2> SUFFICES ASSUME MemoryInv, [MemoryNext]_memoryVars PROVE MemoryInv'
    OBVIOUS
  <2>1. CASE UNCHANGED memoryVars
    BY <2>1 DEF memoryVars, MemoryInv, MemoryType, ClosedInv, WorkInv, DoneMeansCovered
  <2>2. ASSUME NEW c \in Convs, NEW t \in Turns, RecordTurn(c, t) \/ StoreTurn(c, t)
        PROVE  MemoryInv'
    BY <2>2, TurnKeeps
  <2>3. ASSUME NEW c \in Convs,
               \/ CloseConversation(c) \/ QueueMemoryJob(c) \/ CloserStops(c) \/ PurgeTranscripts(c)
               \/ MemoryLeaseEnds(c) \/ BackoffEnds(c)
        PROVE  MemoryInv'
    BY <2>3, CloseKeeps, JobKeeps, PurgeKeeps
  <2>4. ASSUME NEW w \in MemoryWorkers, NEW c \in Convs, LeaseMemoryJob(w, c)
        PROVE  MemoryInv'
    BY <2>4, LeaseKeeps
  <2>5. ASSUME NEW w \in MemoryWorkers, Work(w)
        PROVE  MemoryInv'
    BY <2>5, ReadKeeps, AnswerKeeps, FinishKeeps DEF Work
  <2>6. ASSUME NEW w \in MemoryWorkers, WorkerStops(w)
        PROVE  MemoryInv'
    BY <2>6, StopKeeps
  <2> QED BY <2>1, <2>2, <2>3, <2>4, <2>5, <2>6 DEF MemoryNext
<1> QED BY <1>1, <1>2, PTL DEF MemorySpec

\* A memory job that is marked done has had every turn that was stored when its
\* conversation was closed covered by an extraction, unless the transcript was
\* purged first (memory.go, extractMemory; store.go, FinishMemoryJob).
THEOREM DoneMeansCoveredAlways == MemorySpec => []DoneMeansCovered
<1>1. MemoryInv => DoneMeansCovered
  BY DEF MemoryInv
<1> QED BY <1>1, MemoryInvHolds, PTL
=============================================================================
