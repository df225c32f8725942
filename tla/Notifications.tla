--------------------------- MODULE Notifications ---------------------------
(***************************************************************************)
(* Push notifications: the outbox of the orchestrator (store.go, engine.go, *)
(* server.go) and the notifiers of the app API that claim, send and         *)
(* complete them (push.go).                                                 *)
(*                                                                          *)
(* Every notification is for the same user, whose phones come and go        *)
(* (registration, sign-out, expiry: module AppSessions).  Time is a choice: *)
(* a claim's lease may end, and a notification become too old, at any       *)
(* moment.  What APNs answers is a choice too.                              *)
(***************************************************************************)
EXTENDS Naturals, FiniteSets

CONSTANTS
  NNotes,                \* bound: notifications that are queued
  Notifiers,             \* instances of the app API
  Phones,
  NotificationAttempts,  \* notificationAttempts
  ClaimMax               \* claimMax

ASSUME NotesAssumption ==
  NNotes \in Nat /\ NotificationAttempts \in Nat /\ ClaimMax \in Nat \ {0}

VARIABLES
  notes,       \* notification -> its row
  notifier,    \* notifier -> where its Run is
  registered,  \* phones that PushTokens returns
  told,        \* history: notification -> phones for which APNs took it
  alone,       \* history: notifications whose user had no phone when looked
  overdue      \* history: notifications whose claim ended before they were completed

notesVars == <<notes, notifier, registered, told, alone, overdue>>

Notes == 1..NNotes

Note == [state : {"none", "pending", "done", "purged"}, attempts : 0..NotificationAttempts,
         claimed : BOOLEAN, old : BOOLEAN]
NoNote == [state |-> "none", attempts |-> 0, claimed |-> FALSE, old |-> FALSE]

\* todo is what was claimed and not handled yet; tokens the phones that deliver
\* has still to send to; done what deliver finished.
Idle == [pc |-> "idle", todo |-> {}, tokens |-> {}, finished |-> FALSE, done |-> {}]

NotesInit ==
  /\ notes = [n \in Notes |-> NoNote]
  /\ notifier = [c \in Notifiers |-> Idle]
  /\ registered \in SUBSET Phones
  /\ told = [n \in Notes |-> {}]
  /\ alone = {}
  /\ overdue = {}

-----------------------------------------------------------------------------
(* The outbox.                                                               *)

\* notify: ids are given out in order.
AddNotification(n) ==
  /\ notes[n].state = "none"
  /\ \A k \in 1..(n - 1) : notes[k].state # "none"
  /\ notes' = [notes EXCEPT ![n].state = "pending"]
  /\ UNCHANGED <<notifier, registered, told, alone, overdue>>

\* Mutant: a claim is never given up.
UnclaimedEver(n) == ~notes[n].claimed /\ notes[n].attempts = 0

\* Mutant: claims are not looked at.
UnclaimedAny(n) == TRUE

\* No claim, or one whose lease has ended.
Unclaimed(n) == ~notes[n].claimed

Due == {n \in Notes : /\ notes[n].state = "pending"
                      /\ Unclaimed(n)
                      /\ notes[n].attempts < NotificationAttempts
                      /\ ~notes[n].old}

\* The ClaimMax oldest of them.
Claimable == {n \in Due : Cardinality({k \in Due : k < n}) < ClaimMax}

\* One UPDATE.  The answer may never reach the notifier.
ClaimNotifications(c, got) ==
  /\ notifier[c].pc = "idle"
  /\ Claimable # {}
  /\ notes' = [n \in Notes |-> IF n \in Claimable
                               THEN [notes[n] EXCEPT !.attempts = @ + 1, !.claimed = TRUE]
                               ELSE notes[n]]
  /\ notifier' = IF got THEN [notifier EXCEPT ![c] = [Idle EXCEPT !.pc = "next",
                                                        !.todo = Claimable]]
                 ELSE notifier
  /\ UNCHANGED <<registered, told, alone, overdue>>

LeaseEnds(n) ==
  /\ notes[n].claimed
  /\ notes[n].state = "pending"
  /\ notes' = [notes EXCEPT ![n].claimed = FALSE]
  /\ overdue' = overdue \cup {n}
  /\ UNCHANGED <<notifier, registered, told, alone>>

TooOld(n) ==
  /\ notes[n].state \in {"pending", "done"}
  /\ ~notes[n].old
  /\ notes' = [notes EXCEPT ![n].old = TRUE]
  /\ UNCHANGED <<notifier, registered, told, alone, overdue>>

PurgeNotifications(n) ==
  /\ notes[n].old
  /\ notes[n].state \in {"pending", "done"}
  /\ notes' = [notes EXCEPT ![n] = [NoNote EXCEPT !.state = "purged"]]
  /\ UNCHANGED <<notifier, registered, told, alone, overdue>>

-----------------------------------------------------------------------------
(* A notifier.                                                               *)

\* What Run delivers now: the claimed notifications come sorted by id.
Oldest(todo) == CHOOSE n \in todo : \A k \in todo : n <= k

\* deliver returns: the notification is finished with, or will be claimed
\* again.
Delivered(c, finished) ==
  LET note == Oldest(notifier[c].todo)
      rest == notifier[c].todo \ {note}
      done == IF finished THEN notifier[c].done \cup {note} ELSE notifier[c].done
  IN notifier' = [notifier EXCEPT ![c] =
       IF rest # {} THEN [Idle EXCEPT !.pc = "next", !.todo = rest, !.done = done]
       ELSE IF done # {} THEN [Idle EXCEPT !.pc = "complete", !.done = done]
       ELSE Idle]

\* The phones to send to: none is a delivery, and a failed query is not.
LoadTokens(c, loaded) ==
  /\ notifier[c].pc = "next"
  /\ IF loaded /\ registered # {}
     THEN /\ notifier' = [notifier EXCEPT ![c].pc = "send", ![c].tokens = registered]
          /\ UNCHANGED alone
     ELSE /\ Delivered(c, loaded)
          /\ alone' = IF loaded THEN alone \cup {Oldest(notifier[c].todo)} ELSE alone
  /\ UNCHANGED <<notes, registered, told, overdue>>

\* Mutant: an attempt that APNs refused counts as delivered.
SentAnyhow(result) == result # "failed"

Sent(result) == result = "sent"

\* One phone.  A token that APNs no longer accepts is forgotten.
SendOne(c, p, result) ==
  /\ notifier[c].pc = "send"
  /\ p \in notifier[c].tokens
  /\ LET rest == notifier[c].tokens \ {p} IN
       notifier' = [notifier EXCEPT ![c] =
                      [notifier[c] EXCEPT !.tokens = rest,
                                          !.finished = @ \/ Sent(result),
                                          !.pc = IF rest = {} THEN "check" ELSE "send"]]
  /\ told' = IF result = "sent" THEN [told EXCEPT ![Oldest(notifier[c].todo)] = @ \cup {p}] ELSE told
  /\ registered' = IF result = "unregistered" THEN registered \ {p} ELSE registered
  /\ UNCHANGED <<notes, alone, overdue>>

\* Finished if some phone got it, or every phone's token was dead.
Check(c, loaded) ==
  /\ notifier[c].pc = "check"
  /\ LET dead == ~notifier[c].finished /\ loaded /\ registered = {} IN
       /\ Delivered(c, notifier[c].finished \/ dead)
       /\ alone' = IF dead THEN alone \cup {Oldest(notifier[c].todo)} ELSE alone
  /\ UNCHANGED <<notes, registered, told, overdue>>

\* The call may fail; what it was about is then claimed and sent again.
CompleteNotifications(c, served) ==
  /\ notifier[c].pc = "complete"
  /\ notes' = [n \in Notes |-> IF served /\ n \in notifier[c].done /\ notes[n].state = "pending"
                               THEN [notes[n] EXCEPT !.state = "done"] ELSE notes[n]]
  /\ notifier' = [notifier EXCEPT ![c] = Idle]
  /\ UNCHANGED <<registered, told, alone, overdue>>

\* The app API stops; it starts again without what it had claimed.
NotifierStops(c) ==
  /\ notifier[c].pc # "idle"
  /\ notifier' = [notifier EXCEPT ![c] = Idle]
  /\ UNCHANGED <<notes, registered, told, alone, overdue>>

PhoneComesOrGoes(p) ==
  /\ registered' = IF p \in registered THEN registered \ {p} ELSE registered \cup {p}
  /\ UNCHANGED <<notes, notifier, told, alone, overdue>>

Deliver(c) ==
  \/ \E loaded \in BOOLEAN : LoadTokens(c, loaded) \/ Check(c, loaded)
  \/ \E p \in Phones, result \in {"sent", "unregistered", "failed"} : SendOne(c, p, result)
  \/ \E served \in BOOLEAN : CompleteNotifications(c, served)

NotesNext ==
  \/ \E n \in Notes : AddNotification(n) \/ LeaseEnds(n) \/ TooOld(n) \/ PurgeNotifications(n)
  \/ \E c \in Notifiers :
       \/ \E got \in BOOLEAN : ClaimNotifications(c, got)
       \/ Deliver(c)
       \/ NotifierStops(c)
  \/ \E p \in Phones : PhoneComesOrGoes(p)

NotesSpec == NotesInit /\ [][NotesNext]_notesVars

\* Run claims again and again and finishes what it started; leases end.
NotesFairness ==
  /\ \A c \in Notifiers :
       /\ WF_notesVars(\E got \in BOOLEAN : ClaimNotifications(c, got))
       /\ WF_notesVars(Deliver(c))
  /\ \A n \in Notes : WF_notesVars(LeaseEnds(n))

-----------------------------------------------------------------------------
(* Properties.                                                               *)

\* A completed notification reached a phone, or its user had no phone to reach
\* at the moment deliver looked: it is not completed because some of several
\* tokens were dead and the others only failed, whoever else delivers it at
\* the same time (deliver and its last check).
DoneMeansTold ==
  \A n \in Notes : notes[n].state = "done" => told[n] # {} \/ n \in alone

Handling(c) == notifier[c].todo \cup notifier[c].done

\* Two notifiers handle the same notification only after a claim of it has
\* ended: what ClaimNotifications hands out is nobody else's (a batch that
\* takes longer than the lease is shared all the same).
SharedOnlyLate ==
  \A c, d \in Notifiers : c # d => Handling(c) \cap Handling(d) \subseteq overdue

\* A queued notification is completed, or given up after its tries or for its
\* age: no notification stays claimed by a notifier that stopped, or by a call
\* whose answer was lost.
NoteHandled ==
  \A n \in Notes :
    notes[n].state = "pending" ~>
      \/ notes[n].state \in {"done", "purged"}
      \/ notes[n].attempts = NotificationAttempts
      \/ notes[n].old
=============================================================================
