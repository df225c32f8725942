------------------------------- MODULE MCJobs -------------------------------
(***************************************************************************)
(* The two job queues of the orchestrator for TLC.  They share no state, so *)
(* each behaviour gives work to one of them: the other's has been purged.   *)
(***************************************************************************)
EXTENDS Notifications, MemoryJobs, TLC

vars == <<notesVars, memoryVars>>

\* Every notification is gone, and so are the phones.
NotesPurged ==
  /\ notes = [n \in Notes |-> [NoNote EXCEPT !.state = "purged"]]
  /\ notifier = [c \in Notifiers |-> Idle]
  /\ registered = {}
  /\ told = [n \in Notes |-> {}]
  /\ alone = {}
  /\ overdue = {}

\* Every conversation was remembered long ago.
MemoryPurged ==
  /\ convs = [c \in Convs |-> "closed"]
  /\ turns = [c \in Convs |-> {}]
  /\ writes = {}
  /\ closing = {}
  /\ job = [c \in Convs |-> [NoJob EXCEPT !.state = "done", !.attempts = 1, !.due = TRUE]]
  /\ mw = [w \in MemoryWorkers |-> NoWork]
  /\ known = [c \in Convs |-> {}]
  /\ heard = [c \in Convs |-> {}]
  /\ stalls = 0

Init == \/ NotesInit /\ MemoryPurged
        \/ NotesPurged /\ MemoryInit

\* Phones come and go only while there may be something to tell.
HasNotes == \E n \in Notes : notes[n].state # "purged"

Next == \/ HasNotes /\ NotesNext /\ UNCHANGED memoryVars
        \/ MemoryNext /\ UNCHANGED notesVars

FairSpec == Init /\ [][Next]_vars /\ NotesFairness /\ MemoryFairness
=============================================================================
