----------------------------- MODULE AuditStore -----------------------------
(***************************************************************************)
(* The audit service: Record calls, the chains they append to in one        *)
(* transaction each, and Verify (audit server.go, store.go, chain.go).      *)
(*                                                                          *)
(* Several calls run at once.  A transaction locks the head of one chain    *)
(* after the other and holds what it locked until it ends; the rows it      *)
(* writes are seen by nobody before.  A hash stands for what was hashed, so *)
(* two hashes are equal when everything before them is: SHA-256 without     *)
(* collisions.                                                              *)
(***************************************************************************)
EXTENDS Integers, Sequences

CONSTANTS
  NTenants,    \* tenants, in the order of their ids
  Events,      \* events the services record
  TenantOf,    \* event -> its tenant
  Malformed,   \* events that the service refuses
  MaxCalls     \* bound: Record calls that run at a time

Tenants == 1..NTenants
Calls   == 1..MaxCalls

ASSUME TenantAssumption ==
  NTenants \in Nat /\ TenantOf \in [Events -> Tenants] /\ Malformed \subseteq Events
ASSUME CallsAssumption == MaxCalls \in Nat

VARIABLES
  heads,   \* tenant -> the row of chains: last_sequence and last_hash
  rows,    \* tenant -> the rows of events, by sequence
  calls,   \* call -> the request and its transaction
  verify   \* the transaction of VerifyChain

storeVars == <<heads, rows, calls, verify>>

\* Hash of an event after prev.  The empty hash is the one before the first.
NoHash == << >>
Hash(prev, seq, e) == Append(prev, <<seq, e>>)

Head0 == [seq |-> 0, hash |-> NoHash]

\* pc is "none", "append" while the transaction runs, then the answer.
\* todo has the tenants whose chain is not locked yet; chain is the one that
\* is appended to, left the events not looked at for it, and new the rows
\* written in the transaction.
NoCall == [pc |-> "none", events |-> << >>, todo |-> {}, locked |-> {}, chain |-> 0,
           left |-> << >>, new |-> [t \in Tenants |-> << >>]]

Answers == {"ok", "invalid", "failed"}

NoVerify == [pc |-> "idle", tenant |-> 1, head |-> Head0, rows |-> << >>, intact |-> TRUE]

StoreInit ==
  /\ heads = [t \in Tenants |-> Head0]
  /\ rows = [t \in Tenants |-> << >>]
  /\ calls = [c \in Calls |-> NoCall]
  /\ verify = NoVerify

EventIds(s) == {s[i].event : i \in DOMAIN s}

-----------------------------------------------------------------------------
(* Record.                                                                  *)

\* The state of a call that arrives with these events: one bad event refuses
\* them all.
Arrives(events) ==
  IF \E i \in DOMAIN events : events[i] \in Malformed
    THEN [NoCall EXCEPT !.pc = "invalid", !.events = events]
    ELSE [NoCall EXCEPT !.pc = "append", !.events = events,
                        !.todo = {TenantOf[events[i]] : i \in DOMAIN events}]

Locked(t) == \E c \in Calls : t \in calls[c].locked

\* Mutant: tenants come in the order of a map, another one for every call.
NextChainOfMap(c) ==
  CHOOSE t \in calls[c].todo : \A u \in calls[c].todo : IF c % 2 = 0 THEN t <= u ELSE u <= t

\* The next chain to lock: tenants are sorted.
NextChain(c) == CHOOSE t \in calls[c].todo : \A u \in calls[c].todo : t <= u

\* appendTenant: the lock is waited for, and head and duplicates are read
\* after it.
AppendTenant(c) ==
  /\ calls[c].pc = "append" /\ calls[c].left = << >> /\ calls[c].todo # {}
  /\ LET t == NextChain(c) IN
       /\ ~Locked(t)
       /\ calls' = [calls EXCEPT ![c].todo = @ \ {t}, ![c].locked = @ \cup {t},
                                 ![c].chain = t, ![c].left = calls[c].events]
  /\ UNCHANGED <<heads, rows, verify>>

\* The head of a chain after rows s.
HeadAfter(head, s) == IF s = << >> THEN head ELSE [seq |-> s[Len(s)].seq, hash |-> s[Len(s)].hash]

\* The row of event e behind a head.
Link(head, e) ==
  [seq |-> head.seq + 1, event |-> e, prev |-> head.hash, hash |-> Hash(head.hash, head.seq + 1, e)]

\* Mutant: the table is not asked.
FreshOfBatch(t, new, e) == e \notin EventIds(new)

\* Events of the table, and of the batch so far, are duplicates.
Fresh(t, new, e) == e \notin EventIds(rows[t]) /\ e \notin EventIds(new)

\* The loop of appendTenant: one row per event of the tenant that is new, each
\* hashed after the one before it.
AppendEvent(c) ==
  /\ calls[c].pc = "append" /\ calls[c].left # << >>
  /\ LET t == calls[c].chain
         e == Head(calls[c].left)
         new == calls[c].new[t]
     IN calls' = [calls EXCEPT ![c].left = Tail(@),
                               ![c].new[t] = IF TenantOf[e] = t /\ Fresh(t, new, e)
                                               THEN Append(new, Link(HeadAfter(heads[t], new), e))
                                               ELSE new]
  /\ UNCHANGED <<heads, rows, verify>>

\* All chains of the batch change together.
CommitAppend(c) ==
  /\ calls[c].pc = "append" /\ calls[c].left = << >> /\ calls[c].todo = {}
  /\ rows' = [t \in Tenants |-> rows[t] \o calls[c].new[t]]
  /\ heads' = [t \in Tenants |-> HeadAfter(heads[t], calls[c].new[t])]
  /\ calls' = [calls EXCEPT ![c] = [NoCall EXCEPT !.pc = "ok", !.events = calls[c].events]]
  /\ UNCHANGED verify

\* The database fails, or the service dies: nothing of it happened.
AbortAppend(c) ==
  /\ calls[c].pc = "append"
  /\ calls' = [calls EXCEPT ![c] = [NoCall EXCEPT !.pc = "failed", !.events = calls[c].events]]
  /\ UNCHANGED <<heads, rows, verify>>

-----------------------------------------------------------------------------
(* VerifyChain.                                                             *)

\* The first statement fixes the snapshot of the transaction.
VerifyBegin(t) ==
  /\ verify.pc = "idle"
  /\ verify' = [verify EXCEPT !.pc = "rows", !.tenant = t, !.head = heads[t], !.rows = rows[t]]
  /\ UNCHANGED <<heads, rows, calls>>

\* Every row has the next sequence, the hash of the row before it and the hash
\* of its own event after it; the head is the last row.
HeadAt(s, i) == IF i = 0 THEN Head0 ELSE [seq |-> s[i].seq, hash |-> s[i].hash]

Intact(s, head) ==
  /\ \A i \in 1..Len(s) : s[i] = Link(HeadAt(s, i - 1), s[i].event)
  /\ head = HeadAt(s, Len(s))

\* Mutant: every statement has a snapshot of its own.
VerifyEndLive ==
  /\ verify.pc = "rows"
  /\ verify' = [verify EXCEPT !.pc = "idle", !.intact = Intact(rows[verify.tenant], verify.head), !.rows = << >>, !.head = Head0]
  /\ UNCHANGED <<heads, rows, calls>>

\* The pages that follow come from the same snapshot.
VerifyEnd ==
  /\ verify.pc = "rows"
  /\ verify' = [verify EXCEPT !.pc = "idle", !.intact = Intact(verify.rows, verify.head), !.rows = << >>, !.head = Head0]
  /\ UNCHANGED <<heads, rows, calls>>

-----------------------------------------------------------------------------
(* Properties.                                                              *)

\* VerifyChain raises no false alarm: whatever appends run meanwhile, the
\* snapshot it recomputes is a chain that ends where its head says.
NoFalseAlarm == verify.intact

\* Batches never wait for each other in a circle, however many tenants they
\* span: some transaction can always go on.
SomeoneGoesOn ==
  (\E c \in Calls : calls[c].pc = "append") =>
    \E c \in Calls :
      /\ calls[c].pc = "append"
      /\ calls[c].left # << >> \/ calls[c].todo = {} \/ ~Locked(NextChain(c))

\* What the service promises, of the events in the table.
Trail == INSTANCE AuditTrail WITH
           trail <- [t \in Tenants |-> [i \in 1..Len(rows[t]) |-> rows[t][i].event]]

\* Every change of the table extends the trails, with no event twice, also
\* when a call that the client has given up commits after its repetition.
TrailExtends == Trail!TrailSpec
=============================================================================
