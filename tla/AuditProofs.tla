---------------------------- MODULE AuditProofs ----------------------------
(***************************************************************************)
(* Proofs about AuditStore and AuditLog for every number of tenants, calls, *)
(* recorders and events: the chains stay intact and verify as such, batches *)
(* never wait in a circle, the trail only grows and has no event twice.     *)
(***************************************************************************)
EXTENDS AuditLog, SequenceTheorems, WellFoundedInduction, TLAPS

-----------------------------------------------------------------------------
(* Least elements.                                                           *)

\* A set of naturals that is not empty has a least element.
LEMMA LeastExists ==
  ASSUME NEW S, S \subseteq Nat, S # {}
  PROVE  \E x \in S : \A y \in S : x <= y
<1>1. PICK x \in S : \A y \in S : ~(<<y, x>> \in OpToRel(<, Nat))
  BY NatLessThanWellFounded, WFMin
<1>2. \A y \in S : <<y, x>> \in Nat \X Nat
  OBVIOUS
<1>3. \A y \in S : ~(y < x)
  BY <1>1, <1>2 DEF OpToRel
<1> QED BY <1>3

\* And one that is bounded has a greatest.
LEMMA GreatestExists ==
  ASSUME NEW n \in Nat, NEW S, S \subseteq 1..n, S # {}
  PROVE  \E x \in S : \A y \in S : y <= x
<1> DEFINE T == {n - y : y \in S}
<1>1. T \subseteq Nat /\ T # {}
  <2>1. PICK y \in S : TRUE
    OBVIOUS
  <2>2. n - y \in T
    OBVIOUS
  <2> QED BY <2>2
<1>2. PICK m \in T : \A k \in T : m <= k
  BY <1>1, LeastExists
<1>3. PICK x \in S : m = n - x
  OBVIOUS
<1>4. \A y \in S : m <= n - y
  BY <1>2
<1> QED BY <1>3, <1>4

-----------------------------------------------------------------------------
(* The invariant of the store.                                               *)

Hashes == Seq(Nat \X Events)

HeadRow == [seq : Nat, hash : Hashes]

EventRow == [seq : Nat, event : Events, prev : Hashes, hash : Hashes]

CallRow ==
  [pc : {"none", "append"} \cup Answers, events : Seq(Events), todo : SUBSET Tenants,
   locked : SUBSET Tenants, chain : Nat, left : Seq(Events), new : [Tenants -> Seq(EventRow)]]

VerifyRow ==
  [pc : {"idle", "rows"}, tenant : Nat, head : HeadRow, rows : Seq(EventRow), intact : BOOLEAN]

StoreType ==
  /\ heads \in [Tenants -> HeadRow]
  /\ rows \in [Tenants -> Seq(EventRow)]
  /\ calls \in [Calls -> CallRow]
  /\ verify \in VerifyRow

\* No event twice.
Distinct(s) == \A i, j \in 1..Len(s) : s[i].event = s[j].event => i = j

\* Rows s behind the rows of t make a chain without repetitions.
Extends(t, s) ==
  /\ Intact(rows[t] \o s, HeadAfter(heads[t], s))
  /\ Distinct(rows[t] \o s)

ChainsInv == \A t \in Tenants : Intact(rows[t], heads[t]) /\ Distinct(rows[t])

\* A call has new rows only in the chains that it has locked, and they would
\* extend these chains.
NewInv ==
  \A c \in Calls, t \in Tenants :
    /\ Extends(t, calls[c].new[t])
    /\ t \notin calls[c].locked => calls[c].new[t] = << >>

\* Locks are exclusive, and taken in the order of the tenants.
LocksInv ==
  /\ \A c, d \in Calls : c # d => calls[c].locked \cap calls[d].locked = {}
  /\ \A c \in Calls :
       /\ calls[c].pc # "append" => calls[c].locked = {} /\ calls[c].left = << >>
       /\ \A t \in calls[c].todo, u \in calls[c].locked : u < t
       /\ calls[c].left # << >> => calls[c].chain \in calls[c].locked

VerifyInv ==
  /\ verify.pc = "rows" => Intact(verify.rows, verify.head)
  /\ verify.intact

StoreInv == StoreType /\ ChainsInv /\ NewInv /\ LocksInv /\ VerifyInv

-----------------------------------------------------------------------------
(* Chains.                                                                   *)

\* Append, as indices.
LEMMA AppendFacts ==
  ASSUME NEW S, NEW s \in Seq(S), NEW e \in S
  PROVE  /\ Append(s, e) \in Seq(S) /\ Append(s, e) # << >>
         /\ Len(Append(s, e)) = Len(s) + 1
         /\ \A i \in 1..Len(s) : Append(s, e)[i] = s[i]
         /\ Append(s, e)[Len(s) + 1] = e
         /\ Append(s, e)[Len(Append(s, e))] = e
  BY AppendProperties

\* Concatenation, as indices.
LEMMA ConcatFacts ==
  ASSUME NEW S, NEW s \in Seq(S), NEW u \in Seq(S)
  PROVE  /\ s \o u \in Seq(S) /\ Len(s \o u) = Len(s) + Len(u)
         /\ \A i \in 1..Len(s) : (s \o u)[i] = s[i]
         /\ \A i \in 1..Len(u) : (s \o u)[Len(s) + i] = u[i]
         /\ \A i \in 1..Len(s \o u) : i \in 1..Len(s) \/ i - Len(s) \in 1..Len(u)
  BY ConcatProperties

\* The sorted order gives every call a next chain.
LEMMA NextChainIs ==
  ASSUME StoreType, NEW c \in Calls, calls[c].todo # {}
  PROVE  /\ NextChain(c) \in calls[c].todo /\ NextChain(c) \in Tenants
         /\ \A u \in calls[c].todo : NextChain(c) <= u
<1>1. calls[c].todo \subseteq Tenants
  BY DEF StoreType, CallRow
<1>2. calls[c].todo \subseteq Nat
  BY <1>1, TenantAssumption DEF Tenants
<1>3. \E t \in calls[c].todo : \A u \in calls[c].todo : t <= u
  BY <1>2, LeastExists
<1> QED BY <1>1, <1>3 DEF NextChain

\* A hash stands for all that was hashed before it.
LEMMA HashType ==
  ASSUME NEW prev \in Hashes, NEW seq \in Nat, NEW e \in Events
  PROVE  Hash(prev, seq, e) \in Hashes
  BY DEF Hash, Hashes

\* A row of Link is a row, and makes a head.
LEMMA LinkType ==
  ASSUME NEW head \in HeadRow, NEW e \in Events
  PROVE  /\ Link(head, e) \in EventRow /\ Link(head, e).event = e
         /\ [seq |-> Link(head, e).seq, hash |-> Link(head, e).hash] \in HeadRow
<1>1. head.seq + 1 \in Nat /\ head.hash \in Hashes
  BY DEF HeadRow
<1>2. Hash(head.hash, head.seq + 1, e) \in Hashes
  BY <1>1, HashType
<1> QED BY <1>1, <1>2 DEF Link, EventRow, HeadRow

\* The head after rows is a head.
LEMMA HeadAfterType ==
  ASSUME NEW head \in HeadRow, NEW s \in Seq(EventRow)
  PROVE  HeadAfter(head, s) \in HeadRow
<1>1. CASE s = << >>
  BY <1>1 DEF HeadAfter
<1>2. CASE s # << >>
  <2>1. s[Len(s)] \in EventRow
    BY <1>2
  <2> QED BY <1>2, <2>1 DEF HeadAfter, HeadRow, EventRow
<1> QED BY <1>1, <1>2

\* An empty extension extends a chain.
LEMMA ExtendsByNothing ==
  ASSUME StoreType, NEW t \in Tenants, Intact(rows[t], heads[t]), Distinct(rows[t])
  PROVE  Extends(t, << >>)
<1>1. rows[t] \o << >> = rows[t]
  BY ConcatEmptySeq DEF StoreType
<1> QED BY <1>1 DEF Extends, HeadAfter

\* One more row, linked to the last one, for an event that is new.
LEMMA ExtendsByLink ==
  ASSUME StoreType, NEW t \in Tenants, NEW s \in Seq(EventRow), Extends(t, s), NEW e \in Events,
         e \notin EventIds(rows[t]), e \notin EventIds(s)
  PROVE  LET row == Link(HeadAfter(heads[t], s), e)
         IN  row \in EventRow /\ Extends(t, Append(s, row))
<1> DEFINE row == Link(HeadAfter(heads[t], s), e)
           new == Append(s, row)
           A == rows[t] \o s
           B == rows[t] \o new
<1>1. rows[t] \in Seq(EventRow) /\ heads[t] \in HeadRow
  BY DEF StoreType
<1>2. HeadAfter(heads[t], s) \in HeadRow
  BY <1>1, HeadAfterType
<1>3. row \in EventRow /\ row.event = e
  BY <1>2, LinkType
<1>4. new \in Seq(EventRow) /\ Len(new) = Len(s) + 1 /\ new[Len(new)] = row /\ new # << >>
      /\ \A i \in 1..Len(s) : new[i] = s[i]
  <2> HIDE DEF row
  <2> QED BY <1>3, AppendFacts
<1> HIDE DEF row, new
<1>5. /\ A \in Seq(EventRow) /\ Len(A) = Len(rows[t]) + Len(s)
      /\ \A i \in 1..Len(rows[t]) : A[i] = rows[t][i]
      /\ \A i \in 1..Len(s) : A[Len(rows[t]) + i] = s[i]
      /\ \A i \in 1..Len(A) : i \in 1..Len(rows[t]) \/ i - Len(rows[t]) \in 1..Len(s)
  BY <1>1, ConcatFacts
<1>6. /\ B \in Seq(EventRow) /\ Len(B) = Len(rows[t]) + Len(new)
      /\ \A i \in 1..Len(rows[t]) : B[i] = rows[t][i]
      /\ \A i \in 1..Len(new) : B[Len(rows[t]) + i] = new[i]
  <2>1. new \in Seq(EventRow)
    BY <1>4
  <2> QED BY ONLY <1>1, <2>1, ConcatFacts
<1>7. Len(rows[t]) \in Nat /\ Len(s) \in Nat /\ Len(A) \in Nat
  BY <1>1, <1>5
<1> HIDE DEF A, B
<1>8. Len(B) = Len(A) + 1 /\ \A i \in 1..Len(A) : B[i] = A[i]
  <2>1. Len(B) = Len(A) + 1
    <3>1. Len(B) = Len(rows[t]) + Len(new) /\ Len(new) = Len(s) + 1 /\ Len(A) = Len(rows[t]) + Len(s)
      BY <1>4, <1>5, <1>6
    <3>2. \A a, b \in Nat : a + (b + 1) = a + b + 1
      OBVIOUS
    <3> QED BY <1>7, <3>1, <3>2
  <2>2. ASSUME NEW i \in 1..Len(A) PROVE B[i] = A[i]
    <3>1. CASE i \in 1..Len(rows[t])
      BY <1>5, <1>6, <3>1
    <3>2. CASE i - Len(rows[t]) \in 1..Len(s)
      <4> DEFINE k == i - Len(rows[t])
      <4>1. k \in 1..Len(s) /\ k \in 1..Len(new) /\ i = Len(rows[t]) + k
        BY <1>4, <1>7, <3>2
      <4> HIDE DEF k
      <4> QED BY <1>4, <1>5, <1>6, <4>1
    <3> QED BY <1>5, <3>1, <3>2
  <2> QED BY <2>1, <2>2
<1>9. B[Len(B)] = row
  <2>1. Len(new) \in 1..Len(new)
    BY <1>4, <1>7
  <2> QED BY <1>4, <1>6, <2>1
<1>10. /\ \A i \in 1..Len(A) : A[i] = Link(HeadAt(A, i - 1), A[i].event)
       /\ HeadAfter(heads[t], s) = HeadAt(A, Len(A))
  BY DEF Extends, Intact, A
<1>11. \A i \in 0..Len(A) : HeadAt(B, i) = HeadAt(A, i)
  BY <1>7, <1>8 DEF HeadAt
<1>12. ASSUME NEW i \in 1..Len(B) PROVE B[i] = Link(HeadAt(B, i - 1), B[i].event)
  <2>1. CASE i \in 1..Len(A)
    <3>1. i - 1 \in 0..Len(A)
      BY <1>7, <2>1
    <3> QED BY <1>8, <1>10, <1>11, <2>1, <3>1
  <2>2. CASE i = Len(B)
    <3>1. i - 1 = Len(A) /\ Len(A) \in 0..Len(A)
      BY <1>7, <1>8, <2>2
    <3> QED BY <1>3, <1>9, <1>10, <1>11, <2>2, <3>1 DEF row
  <2> QED BY <1>7, <1>8, <2>1, <2>2
<1>13. HeadAfter(heads[t], new) = HeadAt(B, Len(B))
  <2>1. Len(B) # 0
    BY <1>7, <1>8
  <2> QED BY <1>4, <1>9, <2>1 DEF HeadAfter, HeadAt
<1>14. Intact(B, HeadAfter(heads[t], new))
  BY <1>12, <1>13 DEF Intact
<1>15. \A i \in 1..Len(A) : A[i].event # e
  <2>1. \A i \in 1..Len(rows[t]) : rows[t][i].event # e
    BY <1>1 DEF EventIds
  <2>2. \A i \in 1..Len(s) : s[i].event # e
    BY DEF EventIds
  <2>3. ASSUME NEW i \in 1..Len(A), i - Len(rows[t]) \in 1..Len(s) PROVE A[i].event # e
    <3> DEFINE k == i - Len(rows[t])
    <3>1. k \in 1..Len(s) /\ i = Len(rows[t]) + k
      BY <1>7, <2>3
    <3> HIDE DEF k
    <3> QED BY <1>5, <2>2, <3>1
  <2> QED BY <1>5, <2>1, <2>3
<1>16. Distinct(B)
  <2>1. \A i, j \in 1..Len(A) : A[i].event = A[j].event => i = j
    BY DEF Extends, Distinct, A
  <2> QED BY <1>3, <1>7, <1>8, <1>9, <1>15, <2>1 DEF Distinct
<1> QED BY <1>3, <1>14, <1>16 DEF Extends, B, new, row

-----------------------------------------------------------------------------
(* Steps of the store.                                                       *)

\* A call arrives in a place that no transaction uses.
Arrival ==
  /\ \E c \in Calls, events \in Seq(Events) :
       calls[c].pc # "append" /\ calls' = [calls EXCEPT ![c] = Arrives(events)]
  /\ UNCHANGED <<heads, rows, verify>>

\* Steps that change one call and nothing else.
OneCall(c, row) ==
  /\ row \in CallRow /\ calls'[c] = row
  /\ calls' \in [Calls -> CallRow]
  /\ \A d \in Calls : d # c => calls'[d] = calls[d]

\* An EXCEPT at one call, as facts about the calls.
LEMMA CallUpdate ==
  ASSUME StoreType, NEW c \in Calls, NEW row \in CallRow, calls' = [calls EXCEPT ![c] = row]
  PROVE  OneCall(c, row)
  BY DEF StoreType, OneCall

\* The fields of a place that no call has used.
LEMMA NoCallType ==
  /\ NoCall \in CallRow /\ NoCall.pc = "none" /\ NoCall.events = << >>
  /\ NoCall.todo = {} /\ NoCall.locked = {} /\ NoCall.left = << >> /\ NoCall.chain = 0
  /\ \A t \in Tenants : NoCall.new[t] = << >>
  BY DEF NoCall, CallRow

\* The row of a call that holds nothing.
Idle(row) == row.locked = {} /\ row.left = << >> /\ \A t \in Tenants : row.new[t] = << >>

\* What an arriving call is.
LEMMA ArrivesIs ==
  ASSUME NEW events \in Seq(Events)
  PROVE  /\ Arrives(events) \in CallRow /\ Idle(Arrives(events))
         /\ Arrives(events).events = events /\ Arrives(events).chain = 0
         /\ Arrives(events).pc \in {"append", "invalid"}
         /\ Arrives(events).pc = "append" =>
              Arrives(events).todo = {TenantOf[events[i]] : i \in DOMAIN events}
<1>1. CASE \E i \in DOMAIN events : events[i] \in Malformed
  <2>1. Arrives(events) = [NoCall EXCEPT !.pc = "invalid", !.events = events]
    BY <1>1 DEF Arrives
  <2> QED BY <2>1, NoCallType DEF CallRow, Idle, Answers
<1>2. CASE ~ \E i \in DOMAIN events : events[i] \in Malformed
  <2> DEFINE todo == {TenantOf[events[i]] : i \in DOMAIN events}
  <2>1. Arrives(events) = [NoCall EXCEPT !.pc = "append", !.events = events, !.todo = todo]
    BY <1>2 DEF Arrives
  <2>2. todo \subseteq Tenants
    BY TenantAssumption
  <2> HIDE DEF todo
  <2>3. Arrives(events) \in CallRow /\ Idle(Arrives(events)) /\ Arrives(events).events = events
        /\ Arrives(events).chain = 0
        /\ Arrives(events).pc = "append" /\ Arrives(events).todo = todo
    BY <2>1, <2>2, NoCallType DEF CallRow, Idle
  <2> QED BY <2>3 DEF todo
<1> QED BY <1>1, <1>2

\* A call begins or ends without a trace in the table.
LEMMA IdleStep ==
  ASSUME StoreInv, NEW c \in Calls, NEW row, OneCall(c, row), Idle(row),
         UNCHANGED <<heads, rows, verify>>
  PROVE  StoreInv'
<1> USE DEF StoreInv
<1>1. StoreType'
  BY DEF StoreType, OneCall
<1>2. ChainsInv'
  BY DEF ChainsInv, Intact, Distinct
<1>3. NewInv'
  <2>1. \A d \in Calls, t \in Tenants : Extends(t, calls'[d].new[t])
    <3> TAKE d \in Calls, t \in Tenants
    <3>1. CASE d = c
      <4>1. calls'[d].new[t] = << >>
        BY <3>1 DEF OneCall, Idle
      <4>2. Extends(t, << >>)
        BY ExtendsByNothing DEF ChainsInv
      <4> QED BY <4>1, <4>2
    <3>2. CASE d # c
      BY <3>2 DEF OneCall, NewInv
    <3> QED BY <3>1, <3>2
  <2>2. \A d \in Calls, t \in Tenants : t \notin calls'[d].locked => calls'[d].new[t] = << >>
    BY DEF OneCall, NewInv, Idle
  <2> QED BY <2>1, <2>2, ZenonT(60) DEF NewInv, Extends, Intact, Distinct
<1>4. LocksInv'
  BY DEF LocksInv, OneCall, Idle
<1>5. VerifyInv'
  BY DEF VerifyInv, Intact
<1> QED BY <1>1, <1>2, <1>3, <1>4, <1>5

\* A call that arrives holds nothing yet.
LEMMA ArrivalStep == StoreInv /\ Arrival => StoreInv'
<1> SUFFICES ASSUME StoreInv, Arrival PROVE StoreInv'
  OBVIOUS
<1>1. PICK c \in Calls, events \in Seq(Events) : calls' = [calls EXCEPT ![c] = Arrives(events)]
  BY DEF Arrival
<1>2. Arrives(events) \in CallRow /\ Idle(Arrives(events))
  BY ArrivesIs
<1>3. OneCall(c, Arrives(events))
  BY <1>1, <1>2, CallUpdate DEF StoreInv
<1> QED BY <1>2, <1>3, IdleStep DEF Arrival

\* A transaction that is rolled back leaves the table as it was.
LEMMA AbortStep == ASSUME StoreInv, NEW c \in Calls, AbortAppend(c) PROVE StoreInv'
<1> DEFINE row == [NoCall EXCEPT !.pc = "failed", !.events = calls[c].events]
<1>1. calls[c].events \in Seq(Events)
  BY DEF StoreInv, StoreType, CallRow
<1>2. row \in CallRow /\ Idle(row)
  BY <1>1, NoCallType DEF CallRow, Idle, Answers
<1>3. calls' = [calls EXCEPT ![c] = row] /\ UNCHANGED <<heads, rows, verify>>
  BY DEF AbortAppend
<1> HIDE DEF row
<1>4. OneCall(c, row)
  BY <1>2, <1>3, CallUpdate DEF StoreInv
<1> QED BY <1>2, <1>3, <1>4, IdleStep

\* What AppendTenant writes.
LEMMA AppendTenantWrites ==
  ASSUME StoreType, NEW c \in Calls, AppendTenant(c)
  PROVE  LET t == NextChain(c) IN
           /\ t \in calls[c].todo /\ t \in Tenants /\ ~Locked(t)
           /\ \A u \in calls[c].todo : t <= u
           /\ calls' \in [Calls -> CallRow] /\ \A d \in Calls : d # c => calls'[d] = calls[d]
           /\ calls'[c].pc = "append" /\ calls'[c].events = calls[c].events
           /\ calls'[c].todo = calls[c].todo \ {t} /\ calls'[c].locked = calls[c].locked \cup {t}
           /\ calls'[c].chain = t /\ calls'[c].left = calls[c].events
           /\ calls'[c].new = calls[c].new
<1> DEFINE t == NextChain(c)
<1>1. calls[c].pc = "append" /\ calls[c].todo # {} /\ ~Locked(t)
      /\ calls' = [calls EXCEPT ![c].todo = @ \ {t}, ![c].locked = @ \cup {t},
                                ![c].chain = t, ![c].left = calls[c].events]
  BY DEF AppendTenant
<1>2. t \in calls[c].todo /\ t \in Tenants /\ \A u \in calls[c].todo : t <= u
  BY <1>1, NextChainIs
<1>3. t \in Nat
  BY <1>2, TenantAssumption DEF Tenants
<1>4. calls[c] \in CallRow
  BY DEF StoreType
<1> HIDE DEF t
<1> DEFINE row == [calls[c] EXCEPT !.todo = calls[c].todo \ {t}, !.locked = calls[c].locked \cup {t},
                                   !.chain = t, !.left = calls[c].events]
<1>5. /\ row \in CallRow /\ row.pc = calls[c].pc /\ row.events = calls[c].events
      /\ row.todo = calls[c].todo \ {t} /\ row.locked = calls[c].locked \cup {t}
      /\ row.chain = t /\ row.left = calls[c].events /\ row.new = calls[c].new
  BY <1>2, <1>3, <1>4 DEF CallRow
<1>6. calls' = [calls EXCEPT ![c] = row]
  BY <1>1
<1> HIDE DEF row
<1>7. OneCall(c, row)
  BY <1>5, <1>6, CallUpdate
<1> QED BY <1>1, <1>2, <1>5, <1>7 DEF OneCall, t

\* The lock that is taken was free, and comes after those that are held.
LEMMA AppendTenantStep == ASSUME StoreInv, NEW c \in Calls, AppendTenant(c) PROVE StoreInv'
<1> USE DEF StoreInv
<1> DEFINE t == NextChain(c)
<1>1. /\ t \in calls[c].todo /\ t \in Tenants /\ ~Locked(t)
      /\ \A u \in calls[c].todo : t <= u
      /\ calls' \in [Calls -> CallRow] /\ \A d \in Calls : d # c => calls'[d] = calls[d]
      /\ calls'[c].pc = "append"
      /\ calls'[c].todo = calls[c].todo \ {t} /\ calls'[c].locked = calls[c].locked \cup {t}
      /\ calls'[c].chain = t /\ calls'[c].new = calls[c].new
  BY AppendTenantWrites
<1>2. UNCHANGED <<heads, rows, verify>>
  BY DEF AppendTenant
<1> HIDE DEF t
<1>3. StoreType'
  BY <1>1, <1>2 DEF StoreType
<1>4. ChainsInv'
  BY <1>2 DEF ChainsInv, Intact, Distinct
<1>5. NewInv'
  <2>1. \A d \in Calls : calls'[d].new = calls[d].new /\ calls[d].locked \subseteq calls'[d].locked
    BY <1>1
  <2> QED BY <1>2, <2>1 DEF NewInv, Extends
<1>6. LocksInv'
  <2>1. \A d \in Calls : t \notin calls[d].locked
    BY <1>1 DEF Locked
  <2>2. \A d \in Calls : calls[d].todo \subseteq Nat /\ calls[d].locked \subseteq Nat
    BY TenantAssumption, SMTT(30) DEF StoreType, CallRow, Tenants
  <2>3. \A u \in calls[c].todo \ {t}, v \in calls[c].locked \cup {t} : v < u
    BY <1>1, <2>2 DEF LocksInv
  <2>4. \A u \in calls'[c].todo, v \in calls'[c].locked : v < u
    BY <1>1, <2>3
  <2>5. \A d, e \in Calls : d # e => calls'[d].locked \cap calls'[e].locked = {}
    BY <1>1, <2>1 DEF LocksInv
  <2>6. \A d \in Calls :
       /\ calls'[d].pc # "append" => calls'[d].locked = {} /\ calls'[d].left = << >>
       /\ \A u \in calls'[d].todo, v \in calls'[d].locked : v < u
       /\ calls'[d].left # << >> => calls'[d].chain \in calls'[d].locked
    BY <1>1, <2>4 DEF LocksInv
  <2> QED BY <2>5, <2>6 DEF LocksInv
<1>7. VerifyInv'
  BY <1>2 DEF VerifyInv, Intact
<1> QED BY <1>3, <1>4, <1>5, <1>6, <1>7

\* What AppendEvent writes: new rows for the chain at hand, or none.
LEMMA AppendEventWrites ==
  ASSUME StoreInv, NEW c \in Calls, AppendEvent(c)
  PROVE  LET t == calls[c].chain
             e == Head(calls[c].left)
             new == calls[c].new[t]
             row == Link(HeadAfter(heads[t], new), e)
         IN  /\ t \in Tenants /\ t \in calls[c].locked /\ e \in Events /\ new \in Seq(EventRow)
             /\ calls' \in [Calls -> CallRow] /\ \A d \in Calls : d # c => calls'[d] = calls[d]
             /\ calls'[c].pc = "append" /\ calls'[c].events = calls[c].events
             /\ calls'[c].todo = calls[c].todo /\ calls'[c].locked = calls[c].locked
             /\ calls'[c].chain = t /\ calls'[c].left = Tail(calls[c].left)
             /\ \A u \in Tenants : u # t => calls'[c].new[u] = calls[c].new[u]
             /\ \/ TenantOf[e] = t /\ Fresh(t, new, e) /\ calls'[c].new[t] = Append(new, row)
                \/ ~(TenantOf[e] = t /\ Fresh(t, new, e)) /\ calls'[c].new[t] = new
             /\ row \in EventRow
             /\ row.event = e
<1> DEFINE t == calls[c].chain
           e == Head(calls[c].left)
           new == calls[c].new[t]
           row == Link(HeadAfter(heads[t], new), e)
           after == IF TenantOf[e] = t /\ Fresh(t, new, e) THEN Append(new, row) ELSE new
           call == [calls[c] EXCEPT !.left = Tail(calls[c].left), !.new = [calls[c].new EXCEPT ![t] = after]]
<1>1. calls[c].pc = "append" /\ calls[c].left # << >>
  BY DEF AppendEvent
<1>2. calls[c] \in CallRow
  BY DEF StoreInv, StoreType
<1>3. t \in calls[c].locked /\ t \in Tenants
  BY <1>1, <1>2 DEF StoreInv, LocksInv, CallRow
<1>4. calls[c].left \in Seq(Events) /\ e \in Events /\ Tail(calls[c].left) \in Seq(Events)
  <2>1. calls[c].left \in Seq(Events)
    BY <1>2 DEF CallRow
  <2> QED BY <1>1, <2>1, HeadTailProperties
<1>5. calls[c].new \in [Tenants -> Seq(EventRow)] /\ new \in Seq(EventRow)
  BY <1>2, <1>3 DEF CallRow
<1>6. row \in EventRow /\ row.event = e
  <2>1. heads[t] \in HeadRow
    BY <1>3 DEF StoreInv, StoreType
  <2>2. HeadAfter(heads[t], new) \in HeadRow
    BY <1>5, <2>1, HeadAfterType
  <2> QED BY <1>4, <2>2, LinkType
<1>7. calls' = [calls EXCEPT ![c] = call]
  BY DEF AppendEvent
<1> HIDE DEF row, e
<1>8. after \in Seq(EventRow)
  <2> HIDE DEF new
  <2> QED BY <1>5, <1>6, AppendFacts
<1>9. \/ TenantOf[e] = t /\ Fresh(t, new, e) /\ after = Append(new, row)
      \/ ~(TenantOf[e] = t /\ Fresh(t, new, e)) /\ after = new
  OBVIOUS
<1> HIDE DEF t, new, after
<1>10. /\ call \in CallRow /\ call.pc = "append" /\ call.events = calls[c].events
       /\ call.todo = calls[c].todo /\ call.locked = calls[c].locked
       /\ call.chain = calls[c].chain /\ call.left = Tail(calls[c].left)
       /\ call.new = [calls[c].new EXCEPT ![t] = after]
  BY <1>1, <1>2, <1>3, <1>4, <1>5, <1>8 DEF CallRow
<1>11. call.new[t] = after /\ \A u \in Tenants : u # t => call.new[u] = calls[c].new[u]
  BY <1>3, <1>5, <1>10
<1> HIDE DEF call
<1>12. OneCall(c, call)
  BY <1>7, <1>10, CallUpdate DEF StoreInv
<1> QED BY <1>3, <1>4, <1>5, <1>6, <1>9, <1>10, <1>11, <1>12 DEF OneCall, t, e, new, row

\* The row that the loop adds extends the chain it has locked.
LEMMA AppendEventStep == ASSUME StoreInv, NEW c \in Calls, AppendEvent(c) PROVE StoreInv'
<1> USE DEF StoreInv
<1> DEFINE t == calls[c].chain
           e == Head(calls[c].left)
           new == calls[c].new[t]
           row == Link(HeadAfter(heads[t], new), e)
<1>1. /\ t \in Tenants /\ t \in calls[c].locked /\ e \in Events /\ new \in Seq(EventRow)
      /\ calls' \in [Calls -> CallRow] /\ \A d \in Calls : d # c => calls'[d] = calls[d]
      /\ calls'[c].pc = "append"
      /\ calls'[c].todo = calls[c].todo /\ calls'[c].locked = calls[c].locked /\ calls'[c].chain = t
      /\ \A u \in Tenants : u # t => calls'[c].new[u] = calls[c].new[u]
      /\ \/ Fresh(t, new, e) /\ calls'[c].new[t] = Append(new, row)
         \/ calls'[c].new[t] = new
  BY AppendEventWrites
<1>2. UNCHANGED <<heads, rows, verify>>
  BY DEF AppendEvent
<1>3. Extends(t, calls'[c].new[t])
  <2>1. Extends(t, new)
    BY <1>1 DEF NewInv
  <2>2. Fresh(t, new, e) => Extends(t, Append(new, row))
    BY <1>1, <2>1, ExtendsByLink DEF Fresh
  <2> QED BY <1>1, <2>1, <2>2
<1> HIDE DEF t, e, new, row
<1>4. StoreType'
  BY <1>1, <1>2 DEF StoreType
<1>5. ChainsInv'
  BY <1>2 DEF ChainsInv, Intact, Distinct
<1>6. NewInv'
  <2>1. \A d \in Calls, u \in Tenants : Extends(u, calls'[d].new[u])
    BY <1>1, <1>3 DEF NewInv
  <2>2. \A d \in Calls, u \in Tenants : u \notin calls'[d].locked => calls'[d].new[u] = << >>
    BY <1>1 DEF NewInv
  <2> QED BY <1>2, <2>1, <2>2, ZenonT(60) DEF NewInv, Extends, Intact, Distinct
<1>7. LocksInv'
  BY <1>1 DEF LocksInv
<1>8. VerifyInv'
  BY <1>2 DEF VerifyInv, Intact
<1> QED BY <1>4, <1>5, <1>6, <1>7, <1>8

\* All chains of the batch grow by what the call wrote, and its locks go.
LEMMA CommitStep == ASSUME StoreInv, NEW c \in Calls, CommitAppend(c) PROVE StoreInv'
<1> USE DEF StoreInv
<1> DEFINE row == [NoCall EXCEPT !.pc = "ok", !.events = calls[c].events]
<1>1. /\ rows' = [t \in Tenants |-> rows[t] \o calls[c].new[t]]
      /\ heads' = [t \in Tenants |-> HeadAfter(heads[t], calls[c].new[t])]
      /\ calls' = [calls EXCEPT ![c] = row] /\ verify' = verify
  BY DEF CommitAppend
<1>2. row \in CallRow /\ Idle(row)
  BY NoCallType DEF CallRow, Idle, Answers, StoreType
<1> HIDE DEF row
<1>3. OneCall(c, row)
  BY <1>1, <1>2, CallUpdate
<1>4. \A t \in Tenants : /\ rows[t] \in Seq(EventRow) /\ heads[t] \in HeadRow
                         /\ calls[c].new[t] \in Seq(EventRow)
  BY DEF StoreType, CallRow
<1>5. \A t \in Tenants : /\ rows'[t] = rows[t] \o calls[c].new[t] /\ rows'[t] \in Seq(EventRow)
                         /\ heads'[t] = HeadAfter(heads[t], calls[c].new[t]) /\ heads'[t] \in HeadRow
  <2> TAKE t \in Tenants
  <2>1. rows'[t] = rows[t] \o calls[c].new[t] /\ heads'[t] = HeadAfter(heads[t], calls[c].new[t])
    BY <1>1
  <2>2. rows[t] \o calls[c].new[t] \in Seq(EventRow)
    BY <1>4, ConcatFacts
  <2>3. HeadAfter(heads[t], calls[c].new[t]) \in HeadRow
    BY <1>4, HeadAfterType
  <2> QED BY <2>1, <2>2, <2>3
<1>6. StoreType'
  BY <1>1, <1>3, <1>5 DEF StoreType, OneCall
<1>7. ChainsInv'
  <2>1. \A t \in Tenants : Intact(rows'[t], heads'[t]) /\ Distinct(rows'[t])
    BY <1>5 DEF NewInv, Extends
  <2> QED BY <2>1 DEF ChainsInv, Intact, Distinct
<1>8. NewInv'
  <2>1. ASSUME NEW d \in Calls, NEW t \in Tenants
        PROVE  /\ Intact(rows'[t] \o calls'[d].new[t], HeadAfter(heads'[t], calls'[d].new[t]))
               /\ Distinct(rows'[t] \o calls'[d].new[t])
    <3>1. CASE calls'[d].new[t] = << >>
      <4>1. rows'[t] \o << >> = rows'[t] /\ HeadAfter(heads'[t], << >>) = heads'[t]
        BY <1>5, ConcatEmptySeq DEF HeadAfter
      <4> QED BY <1>5, <3>1, <4>1 DEF NewInv, Extends
    <3>2. CASE calls'[d].new[t] # << >>
      <4>1. d # c /\ calls'[d] = calls[d]
        BY <1>2, <1>3, <3>2 DEF OneCall, Idle
      <4>2. t \in calls[d].locked
        BY <3>2, <4>1 DEF NewInv
      <4>3. calls[c].new[t] = << >>
        BY <4>1, <4>2 DEF NewInv, LocksInv
      <4>4. rows'[t] = rows[t] /\ heads'[t] = heads[t]
        BY <1>4, <1>5, <4>3, ConcatEmptySeq DEF HeadAfter
      <4> QED BY <4>1, <4>4 DEF NewInv, Extends
    <3> QED BY <3>1, <3>2
  <2>2. \A d \in Calls, t \in Tenants : t \notin calls'[d].locked => calls'[d].new[t] = << >>
    BY <1>2, <1>3 DEF OneCall, NewInv, Idle
  <2> QED BY <2>1, <2>2 DEF NewInv, Extends, Intact, Distinct
<1>9. LocksInv'
  BY <1>2, <1>3 DEF LocksInv, OneCall, Idle
<1>10. VerifyInv'
  BY <1>1 DEF VerifyInv, Intact
<1> QED BY <1>6, <1>7, <1>8, <1>9, <1>10

\* The snapshot of VerifyChain is a chain with its head, however old it is.
LEMMA VerifyStepKeeps ==
  ASSUME StoreInv, VerifyEnd \/ \E t \in Tenants : VerifyBegin(t)
  PROVE  StoreInv'
<1> USE DEF StoreInv
<1>1. UNCHANGED <<heads, rows, calls>>
  BY DEF VerifyEnd, VerifyBegin
<1>2. verify \in VerifyRow
  BY DEF StoreType
<1>3. verify' \in VerifyRow /\ VerifyInv'
  <2>1. CASE VerifyEnd
    <3>1. verify.pc = "rows" /\ Intact(verify.rows, verify.head)
      BY <2>1 DEF VerifyEnd, VerifyInv
    <3>2. verify' = [verify EXCEPT !.pc = "idle", !.intact = TRUE, !.rows = << >>, !.head = Head0]
      BY <2>1, <3>1 DEF VerifyEnd
    <3>3. Head0 \in HeadRow
      BY DEF Head0, HeadRow, Hashes, NoHash
    <3> DEFINE none == << >>
    <3>a. none \in Seq(EventRow)
      OBVIOUS
    <3>b. verify' = [verify EXCEPT !.pc = "idle", !.intact = TRUE, !.rows = none, !.head = Head0]
      BY <3>2
    <3> HIDE DEF none
    <3>c. verify' \in VerifyRow
      BY <1>2, <3>3, <3>a, <3>b DEF VerifyRow
    <3>4. verify' \in VerifyRow /\ verify'.pc = "idle" /\ verify'.intact = TRUE
      BY <1>2, <3>b, <3>c DEF VerifyRow
    <3> QED BY <3>4 DEF VerifyInv
  <2>2. CASE \E t \in Tenants : VerifyBegin(t)
    <3>1. PICK t \in Tenants : VerifyBegin(t)
      BY <2>2
    <3>2. verify' = [verify EXCEPT !.pc = "rows", !.tenant = t, !.head = heads[t], !.rows = rows[t]]
      BY <3>1 DEF VerifyBegin
    <3>3. t \in Nat /\ heads[t] \in HeadRow /\ rows[t] \in Seq(EventRow)
      BY TenantAssumption DEF Tenants, StoreType
    <3> DEFINE h == heads[t]
               s == rows[t]
    <3> HIDE DEF h, s
    <3>a. verify' = [verify EXCEPT !.pc = "rows", !.tenant = t, !.head = h, !.rows = s]
          /\ h \in HeadRow /\ s \in Seq(EventRow) /\ t \in Nat
      BY <3>2, <3>3 DEF h, s
    <3>b. verify' \in VerifyRow
      BY <1>2, <3>a DEF VerifyRow
    <3>c. verify'.head = h /\ verify'.rows = s /\ verify'.intact = verify.intact
      BY <1>2, <3>a DEF VerifyRow
    <3>4. verify' \in VerifyRow /\ verify'.head = heads[t] /\ verify'.rows = rows[t]
          /\ verify'.intact = verify.intact
      BY <3>b, <3>c DEF h, s
    <3>5. Intact(verify'.rows, verify'.head)
      BY <3>4 DEF ChainsInv
    <3> QED BY <3>4, <3>5 DEF VerifyInv, Intact
  <2> QED BY <2>1, <2>2
<1>4. StoreType'
  BY <1>1, <1>3 DEF StoreType
<1>5. ChainsInv'
  BY <1>1 DEF ChainsInv, Intact, Distinct
<1>6. NewInv'
  <2>1. \A c \in Calls, t \in Tenants : Extends(t, calls[c].new[t])'
    BY <1>1 DEF NewInv, Extends
  <2>2. \A c \in Calls, t \in Tenants : t \notin calls'[c].locked => calls'[c].new[t] = << >>
    BY <1>1 DEF NewInv
  <2> QED BY <2>1, <2>2 DEF NewInv
<1>7. LocksInv'
  BY <1>1 DEF LocksInv
<1> QED BY <1>3, <1>4, <1>5, <1>6, <1>7

-----------------------------------------------------------------------------
(* The invariant of the recorders.                                           *)

RecRow ==
  [proc : {"up", "closing", "exited", "cut"}, pc : {"collect", "call", "backoff", "done"},
   queue : Seq(Events), batch : Seq(Events), one : Nat, call : Calls \cup {NoCallId},
   stopping : BOOLEAN]

RecType ==
  /\ rec \in [Recorders -> RecRow]
  /\ recording \subseteq Events /\ late \subseteq Events /\ logged \subseteq Events
  /\ accepted \in [Recorders -> Seq(Events)]
  /\ failures \in Nat

\* Where the events of a batch are: in the trail, or in the log.
Settled == Recorded \cup logged

\* The loop of a recorder waits for the call that has its batch, or one event
\* of it; those before that one are settled.
RowWaits(row, cs, settled) ==
  /\ row.pc # "call" => row.call = NoCallId
  /\ row.pc = "call" =>
       /\ row.call \in Calls /\ row.batch # << >> /\ row.one \in 0..Len(row.batch)
       /\ cs[row.call].events = IF row.one = 0 THEN row.batch ELSE <<row.batch[row.one]>>
       /\ \A i \in 1..Len(row.batch) : i < row.one => row.batch[i] \in settled

\* And nobody else waits for this call.
WaitsInv ==
  /\ \A r \in Recorders : RowWaits(rec[r], calls, Settled)
  /\ \A r, q \in Recorders : rec[r].pc = "call" /\ q # r => rec[q].call # rec[r].call

\* An event that a call has to write is in the table, or in its transaction.
Covered(c, e) ==
  e \in EventIds(rows[TenantOf[e]]) \/ e \in EventIds(calls[c].new[TenantOf[e]])

\* What a transaction has been through is covered; what was answered ok is in
\* the table.
CoverRow(c) ==
  /\ \A t \in Tenants : EventIds(calls[c].new[t]) \subseteq Range(calls[c].events)
  /\ calls[c].pc = "ok" => Range(calls[c].events) \subseteq Recorded
  /\ calls[c].pc = "append" =>
       /\ \A e \in Range(calls[c].events) : TenantOf[e] \in calls[c].todo \cup calls[c].locked
       /\ \A e \in Range(calls[c].events) :
            TenantOf[e] \in calls[c].locked /\ TenantOf[e] # calls[c].chain => Covered(c, e)
       /\ \E s \in Seq(Events) :
            /\ calls[c].events = s \o calls[c].left
            /\ \A e \in Range(s) : TenantOf[e] = calls[c].chain => Covered(c, e)

CoverInv == \A c \in Calls : CoverRow(c)

\* Events are taken once, by the recorder of their process; what a call has,
\* or the trail, was taken.
TakenInv ==
  /\ \A r \in Recorders : \A i, j \in 1..Len(accepted[r]) : accepted[r][i] = accepted[r][j] => i = j
  /\ \A r \in Recorders : \A i \in 1..Len(accepted[r]) :
       RecorderOf[accepted[r][i]] = r /\ accepted[r][i] \notin recording
  /\ \A e \in Recorded : e \in Range(accepted[RecorderOf[e]])
  /\ \A c \in Calls : \A e \in Range(calls[c].events) : e \in Range(accepted[RecorderOf[e]])

\* What a recorder took is settled, then comes its batch, then its queue.
RowPlaces(row, taken, settled, lt) ==
  /\ Len(row.batch) <= BatchSize
  /\ row.proc \in {"exited", "cut"} => row.pc = "done"
  /\ row.proc # "cut" =>
       IF row.pc # "done"
         THEN \E s \in Seq(Events) : taken = (s \o row.batch) \o row.queue /\ Range(s) \subseteq settled
         ELSE Range(taken) \subseteq settled \cup lt

PlacesInv == \A r \in Recorders : RowPlaces(rec[r], accepted[r], Settled, late)

\* A transaction has, of every event, the earlier ones too that are not settled.
OrderInv ==
  \A c \in Calls : calls[c].pc = "append" =>
    \A r \in Recorders : \A i, j \in 1..Len(accepted[r]) :
      i < j /\ accepted[r][j] \in Range(calls[c].events)
        => accepted[r][i] \in Settled \/ accepted[r][i] \in Range(calls[c].events)

\* Of a recorder, i comes before j.
OvertakesNot(taken, recorded, settled) ==
  \A i, j \in 1..Len(taken) : i < j /\ taken[j] \in recorded => taken[i] \in settled

TrailInv == \A r \in Recorders : OvertakesNot(accepted[r], Recorded, Settled)

RecInv == RecType /\ WaitsInv /\ CoverInv /\ TakenInv /\ PlacesInv /\ OrderInv /\ TrailInv

-----------------------------------------------------------------------------
(* Sequences.                                                                *)

\* The range of a sequence.
LEMMA RangeIs ==
  ASSUME NEW S, NEW s \in Seq(S)
  PROVE  /\ Range(s) \subseteq S
         /\ \A i \in 1..Len(s) : s[i] \in Range(s)
         /\ \A x \in Range(s) : \E i \in 1..Len(s) : s[i] = x
  BY DEF Range

\* One element more.
LEMMA RangeOfAppend ==
  ASSUME NEW S, NEW s \in Seq(S), NEW e \in S
  PROVE  Range(Append(s, e)) = Range(s) \cup {e}
<1>1. Append(s, e) \in Seq(S) /\ Len(Append(s, e)) = Len(s) + 1
  OBVIOUS
<1>2. {Append(s, e)[i] : i \in 1..Len(s) + 1} = {s[i] : i \in 1..Len(s)} \cup {e}
  BY AppendProperties
<1>3. Range(Append(s, e)) = {Append(s, e)[i] : i \in 1..Len(Append(s, e))}
  BY <1>1, RangeEquality
<1>4. Range(s) = {s[i] : i \in 1..Len(s)}
  BY RangeEquality
<1> QED BY <1>1, <1>2, <1>3, <1>4

\* The empty sequence has none.
LEMMA RangeOfEmpty == Range(<< >>) = {}
  BY DEF Range

\* A sequence of one element.
LEMMA RangeOfOne ==
  ASSUME NEW S, NEW e \in S
  PROVE  Range(<<e>>) = {e}
<1> DEFINE none == << >>
<1>1. Append(none, e) = <<e>> /\ none \in Seq(S) /\ Range(none) = {}
  BY RangeOfEmpty
<1> HIDE DEF none
<1>a. none \in Seq(S)
  BY <1>1
<1>2. Range(Append(none, e)) = Range(none) \cup {e}
  BY <1>a, RangeOfAppend
<1> QED BY <1>1, <1>2

\* The first of the second goes to the end of the first.
LEMMA ConcatHeadTail ==
  ASSUME NEW S, NEW s \in Seq(S), NEW q \in Seq(S), q # << >>
  PROVE  Append(s, Head(q)) \o Tail(q) = s \o q
<1>1. Head(q) \in S /\ Tail(q) \in Seq(S) /\ <<Head(q)>> \in Seq(S)
  BY HeadTailProperties
<1>2. Append(s, Head(q)) = s \o <<Head(q)>>
  BY <1>1, AppendIsConcat
<1>3. <<Head(q)>> \o Tail(q) = q
  OBVIOUS
<1> QED BY <1>1, <1>2, <1>3, ConcatAssociative

\* An element behind the second is behind both.
LEMMA ConcatAppend ==
  ASSUME NEW S, NEW s \in Seq(S), NEW q \in Seq(S), NEW e \in S
  PROVE  s \o Append(q, e) = Append(s \o q, e)
<1>1. <<e>> \in Seq(S) /\ s \o q \in Seq(S)
  OBVIOUS
<1>2. Append(q, e) = q \o <<e>> /\ Append(s \o q, e) = (s \o q) \o <<e>>
  BY <1>1, AppendIsConcat
<1> QED BY <1>1, <1>2, ConcatAssociative

\* A sequence is what comes up to n and what comes after.
LEMMA SplitAt ==
  ASSUME NEW S, NEW q \in Seq(S), NEW n \in 0..Len(q)
  PROVE  /\ SubSeq(q, 1, n) \in Seq(S) /\ SubSeq(q, n + 1, Len(q)) \in Seq(S)
         /\ SubSeq(q, 1, n) \o SubSeq(q, n + 1, Len(q)) = q
         /\ Len(SubSeq(q, 1, n)) = n
<1>1. Len(q) \in Nat /\ n \in Int /\ \A i \in 1..Len(q) : q[i] \in S
  OBVIOUS
<1>2. SubSeq(q, 1, n) \in Seq(S) /\ Len(SubSeq(q, 1, n)) = n
  BY <1>1, SubSeqProperties
<1>3. SubSeq(q, n + 1, Len(q)) \in Seq(S)
  BY <1>1, SubSeqProperties
<1>4. SubSeq(q, 1, n) \o SubSeq(q, n + 1, Len(q)) = SubSeq(q, 1, Len(q))
  <2>1. 1 \in 1..Len(q) + 1 /\ n \in 1 - 1..Len(q) /\ Len(q) \in n..Len(q)
    BY <1>1
  <2> QED BY <2>1, ConcatAdjacentSubSeq
<1> QED BY <1>2, <1>3, <1>4, SubSeqFull

-----------------------------------------------------------------------------
(* Steps of a recorder.                                                      *)

\* More is settled than before, the call has the same events.
LEMMA RowWaitsMono ==
  ASSUME NEW row, NEW cs, NEW ds, NEW S, NEW T, RowWaits(row, cs, S), S \subseteq T,
         row.pc = "call" => ds[row.call].events = cs[row.call].events
  PROVE  RowWaits(row, ds, T)
  BY DEF RowWaits

\* The same for the places of events.
LEMMA RowPlacesMono ==
  ASSUME NEW row, NEW taken, NEW S, NEW T, NEW lt, NEW ltt, RowPlaces(row, taken, S, lt),
         S \subseteq T, lt \subseteq ltt
  PROVE  RowPlaces(row, taken, T, ltt)
<1>1. CASE row.proc # "cut" /\ row.pc # "done"
  <2>1. PICK s \in Seq(Events) : taken = (s \o row.batch) \o row.queue /\ Range(s) \subseteq S
    BY <1>1 DEF RowPlaces
  <2>2. Range(s) \subseteq T
    BY <2>1
  <2>3. \E z \in Seq(Events) : taken = (z \o row.batch) \o row.queue /\ Range(z) \subseteq T
    BY <2>1, <2>2
  <2> HIDE <2>1
  <2> QED BY <1>1, <2>3 DEF RowPlaces
<1>2. CASE row.proc = "cut" \/ row.pc = "done"
  BY <1>2 DEF RowPlaces
<1> QED BY <1>1, <1>2

\* No call has the number that stands for none.
LEMMA NoCallIdFacts == NoCallId \notin Calls
  BY CallsAssumption DEF NoCallId, Calls

\* What stays as it is when the table does, and nothing is taken.
LEMMA RecordedStays == ASSUME rows' = rows PROVE Recorded' = Recorded
  BY DEF Recorded, EventIds

\* A step of the loop that calls nobody.
LEMMA LoopKeeps ==
  ASSUME RecInv, NEW r \in Recorders, NEW row \in RecRow, rec' = [rec EXCEPT ![r] = row],
         UNCHANGED <<rows, calls, recording, accepted, late>>,
         logged \subseteq logged', logged' \subseteq Events, failures' \in Nat,
         RowWaits(row, calls, Settled'), RowPlaces(row, accepted[r], Settled', late),
         row.call \in {NoCallId, rec[r].call}
  PROVE  RecInv'
<1> USE DEF RecInv
<1>1. rec'[r] = row /\ (\A q \in Recorders : q # r => rec'[q] = rec[q]) /\ rec' \in [Recorders -> RecRow]
  BY DEF RecType
<1>2. Recorded' = Recorded /\ Settled \subseteq Settled'
  BY RecordedStays DEF Settled
<1>3. RecType'
  BY <1>1 DEF RecType
<1>4. WaitsInv'
  <2>1. ASSUME NEW q \in Recorders PROVE RowWaits(rec'[q], calls', Settled')
    <3>1. CASE q = r
      BY <1>1, <3>1
    <3>2. CASE q # r
      <4>1. RowWaits(rec[q], calls, Settled)
        BY DEF WaitsInv
      <4>2. RowWaits(rec[q], calls, Settled')
        BY <1>2, <4>1, RowWaitsMono
      <4> QED BY <1>1, <3>2, <4>2
    <3> QED BY <3>1, <3>2
  <2>2. ASSUME NEW p \in Recorders, NEW q \in Recorders, rec'[p].pc = "call", q # p
        PROVE  rec'[q].call # rec'[p].call
    <3>1. rec'[p].call \in Calls
      BY <2>1, <2>2 DEF RowWaits
    <3>2. rec'[p].call = rec[p].call
      BY <1>1, <3>1, NoCallIdFacts
    <3>3. rec[p].pc = "call"
      BY <3>1, <3>2, NoCallIdFacts DEF WaitsInv, RowWaits
    <3>4. rec[q].call # rec[p].call
      BY <2>2, <3>3 DEF WaitsInv
    <3>5. rec'[q].call \in {NoCallId, rec[q].call}
      BY <1>1
    <3> QED BY <3>1, <3>2, <3>4, <3>5, NoCallIdFacts
  <2> QED BY <2>1, <2>2 DEF WaitsInv, RowWaits
<1>5. CoverInv'
  <2>1. \A d \in Calls : \A e : Covered(d, e)' = Covered(d, e)
    BY DEF Covered
  <2>2. \A d \in Calls, t \in Tenants : EventIds(calls'[d].new[t]) = EventIds(calls[d].new[t])
    OBVIOUS
  <2> QED BY <1>2, <2>1, <2>2 DEF CoverInv, CoverRow
<1>6. TakenInv'
  BY <1>2 DEF TakenInv
<1>7. PlacesInv'
  <2>1. ASSUME NEW q \in Recorders PROVE RowPlaces(rec'[q], accepted'[q], Settled', late')
    <3>1. CASE q = r
      BY <1>1, <3>1
    <3>2. CASE q # r
      <4>1. RowPlaces(rec[q], accepted[q], Settled, late)
        BY DEF PlacesInv
      <4>2. RowPlaces(rec[q], accepted[q], Settled', late)
        BY <1>2, <4>1, RowPlacesMono
      <4> QED BY <1>1, <3>2, <4>2
    <3> QED BY <3>1, <3>2
  <2> QED BY <2>1 DEF PlacesInv, RowPlaces
<1>8. OrderInv'
  BY <1>2 DEF OrderInv
<1>9. TrailInv'
  BY <1>2 DEF TrailInv, OvertakesNot
<1> QED BY <1>3, <1>4, <1>5, <1>6, <1>7, <1>8, <1>9

\* A step of the loop that calls the service.
LEMMA CallKeeps ==
  ASSUME RecInv, StoreType, NEW r \in Recorders, NEW row \in RecRow, rec' = [rec EXCEPT ![r] = row],
         NEW c \in Calls, NEW events \in Seq(Events), Free(c),
         calls' = [calls EXCEPT ![c] = Arrives(events)],
         UNCHANGED <<rows, recording, accepted, late>>,
         logged \subseteq logged', logged' \subseteq Events, failures' \in Nat,
         row.pc = "call", row.call = c,
         RowWaits(row, calls', Settled'), RowPlaces(row, accepted[r], Settled', late),
         Range(events) \subseteq Range(accepted[r]),
         \A i, j \in 1..Len(accepted[r]) : i < j /\ accepted[r][j] \in Range(events)
           => accepted[r][i] \in Settled' \/ accepted[r][i] \in Range(events)
  PROVE  RecInv'
<1> USE DEF RecInv
<1>1. rec'[r] = row /\ (\A q \in Recorders : q # r => rec'[q] = rec[q]) /\ rec' \in [Recorders -> RecRow]
  BY DEF RecType
<1>2. Recorded' = Recorded /\ Settled \subseteq Settled'
  BY RecordedStays DEF Settled
<1>3. RecType'
  BY <1>1 DEF RecType
<1>4. calls'[c] = Arrives(events) /\ \A d \in Calls : d # c => calls'[d] = calls[d]
  BY DEF StoreType
<1>5. /\ Arrives(events) \in CallRow /\ Idle(Arrives(events))
      /\ Arrives(events).events = events /\ Arrives(events).chain = 0
      /\ Arrives(events).pc \in {"append", "invalid"}
      /\ Arrives(events).pc = "append" =>
           Arrives(events).todo = {TenantOf[events[i]] : i \in DOMAIN events}
  BY ArrivesIs
<1>6. \A q \in Recorders : rec[q].call # c
  BY DEF Free
<1>7. WaitsInv'
  <2>1. ASSUME NEW q \in Recorders PROVE RowWaits(rec'[q], calls', Settled')
    <3>1. CASE q = r
      BY <1>1, <3>1
    <3>2. CASE q # r
      <4>1. RowWaits(rec[q], calls, Settled)
        BY DEF WaitsInv
      <4>2. rec[q].pc = "call" => calls'[rec[q].call].events = calls[rec[q].call].events
        BY <1>4, <1>6, <4>1 DEF RowWaits
      <4>3. RowWaits(rec[q], calls', Settled')
        BY <1>2, <4>1, <4>2, RowWaitsMono
      <4> QED BY <1>1, <3>2, <4>3
    <3> QED BY <3>1, <3>2
  <2>2. ASSUME NEW p \in Recorders, NEW q \in Recorders, rec'[p].pc = "call", q # p
        PROVE  rec'[q].call # rec'[p].call
    BY <1>1, <1>6, <2>2 DEF WaitsInv
  <2> QED BY <2>1, <2>2 DEF WaitsInv, RowWaits
<1>8. CoverInv'
  <2>1. ASSUME NEW d \in Calls
        PROVE  /\ \A t \in Tenants : EventIds(calls'[d].new[t]) \subseteq Range(calls'[d].events)
               /\ calls'[d].pc = "ok" => Range(calls'[d].events) \subseteq Recorded'
               /\ calls'[d].pc = "append" =>
                    /\ \A e \in Range(calls'[d].events) : TenantOf[e] \in calls'[d].todo \cup calls'[d].locked
                    /\ \A e \in Range(calls'[d].events) :
                         TenantOf[e] \in calls'[d].locked /\ TenantOf[e] # calls'[d].chain => Covered(d, e)'
                    /\ \E s \in Seq(Events) :
                         /\ calls'[d].events = s \o calls'[d].left
                         /\ \A e \in Range(s) : TenantOf[e] = calls'[d].chain => Covered(d, e)'
    <3>1. CASE d # c
      BY <1>2, <1>4, <3>1, ZenonT(60) DEF CoverInv, CoverRow, Covered
    <3>2. CASE d = c
      <4>1. calls'[d].events = events /\ calls'[d].left = << >> /\ calls'[d].chain = 0
            /\ calls'[d].locked = {} /\ calls'[d].pc \in {"append", "invalid"}
            /\ \A t \in Tenants : calls'[d].new[t] = << >>
        BY <1>4, <1>5, <3>2 DEF Idle
      <4>2. \A t \in Tenants : EventIds(calls'[d].new[t]) = {}
        BY <4>1 DEF EventIds
      <4>3. calls'[d].pc = "append" => \A e \in Range(events) : TenantOf[e] \in calls'[d].todo
        BY <1>4, <1>5, <3>2 DEF Range
      <4>4. events = events \o << >>
        BY ConcatEmptySeq
      <4>5. \A e \in Range(events) : TenantOf[e] # 0
        <5>1. Range(events) \subseteq Events
          BY RangeIs
        <5> QED BY <5>1, TenantAssumption DEF Tenants
      <4>6. \E s \in Seq(Events) :
                         /\ calls'[d].events = s \o calls'[d].left
                         /\ \A e \in Range(s) : TenantOf[e] = calls'[d].chain => Covered(d, e)'
        BY <4>1, <4>4, <4>5
      <4> QED BY <4>1, <4>2, <4>3, <4>6
    <3> QED BY <3>1, <3>2
  <2> QED BY <2>1 DEF CoverInv, CoverRow
<1>9. TakenInv'
  <2>1. \A e \in Range(events) : e \in Range(accepted[RecorderOf[e]])
    <3> TAKE e \in Range(events)
    <3>1. accepted[r] \in Seq(Events) /\ e \in Range(accepted[r])
      BY DEF RecType
    <3>2. PICK i \in 1..Len(accepted[r]) : accepted[r][i] = e
      BY <3>1, RangeIs
    <3> QED BY <3>1, <3>2 DEF TakenInv
  <2>2. \A d \in Calls : \A e \in Range(calls'[d].events) : e \in Range(accepted[RecorderOf[e]])
    BY <1>4, <1>5, <2>1 DEF TakenInv
  <2> QED BY <1>2, <2>2 DEF TakenInv
<1>10. PlacesInv'
  <2>1. ASSUME NEW q \in Recorders PROVE RowPlaces(rec'[q], accepted'[q], Settled', late')
    <3>1. CASE q = r
      BY <1>1, <3>1
    <3>2. CASE q # r
      <4>1. RowPlaces(rec[q], accepted[q], Settled, late)
        BY DEF PlacesInv
      <4>2. RowPlaces(rec[q], accepted[q], Settled', late)
        BY <1>2, <4>1, RowPlacesMono
      <4> QED BY <1>1, <3>2, <4>2
    <3> QED BY <3>1, <3>2
  <2> QED BY <2>1 DEF PlacesInv, RowPlaces
<1>11. OrderInv'
  <2>1. ASSUME NEW d \in Calls, calls'[d].pc = "append", NEW q \in Recorders,
               NEW i \in 1..Len(accepted[q]), NEW j \in 1..Len(accepted[q]),
               i < j, accepted[q][j] \in Range(calls'[d].events)
        PROVE  accepted[q][i] \in Settled' \/ accepted[q][i] \in Range(calls'[d].events)
    <3>1. CASE d # c
      BY <1>2, <1>4, <2>1, <3>1 DEF OrderInv
    <3>2. CASE d = c
      <4>1. accepted[q][j] \in Range(accepted[r])
        BY <1>4, <1>5, <2>1, <3>2
      <4>2. PICK k \in 1..Len(accepted[r]) : accepted[r][k] = accepted[q][j]
        BY <4>1, RangeIs DEF RecType
      <4>3. q = r
        BY <4>2 DEF TakenInv
      <4> QED BY <1>4, <1>5, <2>1, <3>2, <4>3
    <3> QED BY <3>1, <3>2
  <2> QED BY <2>1 DEF OrderInv
<1>12. TrailInv'
  BY <1>2 DEF TrailInv, OvertakesNot
<1> QED BY <1>3, <1>7, <1>8, <1>9, <1>10, <1>11, <1>12

\* The places of events in what was taken: settled, batch, queue.
LEMMA PlacesOrder ==
  ASSUME NEW s \in Seq(Events), NEW b \in Seq(Events), NEW q \in Seq(Events), NEW Z, Range(s) \subseteq Z,
         NEW taken, taken = (s \o b) \o q,
         \A i, j \in 1..Len(taken) : taken[i] = taken[j] => i = j
  PROVE  /\ Range(b) \subseteq Range(taken)
         /\ \A k \in 1..Len(b) : (\A m \in 1..Len(b) : m < k => b[m] \in Z) =>
              \A i, j \in 1..Len(taken) : i < j /\ taken[j] = b[k] => taken[i] \in Z
         /\ \A i, j \in 1..Len(taken) : i < j /\ taken[j] \in Range(b) =>
              taken[i] \in Z \/ taken[i] \in Range(b)
<1>1. /\ s \o b \in Seq(Events) /\ Len(s \o b) = Len(s) + Len(b)
      /\ \A i \in 1..Len(s) : (s \o b)[i] = s[i]
      /\ \A i \in 1..Len(b) : (s \o b)[Len(s) + i] = b[i]
  BY ConcatFacts
<1>2. /\ taken \in Seq(Events) /\ Len(taken) = Len(s \o b) + Len(q)
      /\ \A i \in 1..Len(s \o b) : taken[i] = (s \o b)[i]
  BY <1>1, ConcatFacts
<1>3. Len(s) \in Nat /\ Len(b) \in Nat /\ Len(q) \in Nat
  OBVIOUS
<1>4. \A i \in 1..Len(s) : i \in 1..Len(taken) /\ taken[i] = s[i]
  BY <1>1, <1>2, <1>3
<1>5. \A k \in 1..Len(b) : Len(s) + k \in 1..Len(taken) /\ taken[Len(s) + k] = b[k]
  BY <1>1, <1>2, <1>3
<1>6. \A i \in 1..Len(s) : s[i] \in Z
  BY RangeIs
<1>7. Range(b) \subseteq Range(taken)
  <2>1. Range(s \o b) = Range(s) \cup Range(b)
    BY RangeConcatenation
  <2>2. Range((s \o b) \o q) = Range(s \o b) \cup Range(q)
    <3> DEFINE a == s \o b
    <3>1. a \in Seq(Events)
      BY <1>1
    <3> HIDE DEF a
    <3>2. Range(a \o q) = Range(a) \cup Range(q)
      BY <3>1, RangeConcatenation
    <3> QED BY <3>2 DEF a
  <2> QED BY <2>1, <2>2
<1>8. ASSUME NEW k \in 1..Len(b), NEW i \in 1..Len(taken), NEW j \in 1..Len(taken), i < j, taken[j] = b[k]
      PROVE  taken[i] \in Z \/ \E m \in 1..Len(b) : m < k /\ taken[i] = b[m]
  <2>1. j = Len(s) + k
    <3>1. Len(s) + k \in 1..Len(taken) /\ taken[j] = taken[Len(s) + k]
      BY <1>5, <1>8
    <3> DEFINE n == Len(s) + k
    <3>2. n \in 1..Len(taken) /\ taken[j] = taken[n]
      BY <3>1
    <3> HIDE DEF n
    <3>3. j = n
      BY <3>2
    <3> QED BY <3>3 DEF n
  <2>2. CASE i \in 1..Len(s)
    BY <1>4, <1>6, <2>2
  <2>3. CASE i \notin 1..Len(s)
    <3> DEFINE m == i - Len(s)
    <3>1. m \in 1..Len(b) /\ m < k /\ i = Len(s) + m
      BY <1>3, <1>8, <2>1, <2>3
    <3> HIDE DEF m
    <3> QED BY <1>5, <3>1
  <2> QED BY <2>2, <2>3
<1>9. \A k \in 1..Len(b) : (\A m \in 1..Len(b) : m < k => b[m] \in Z) =>
         \A i, j \in 1..Len(taken) : i < j /\ taken[j] = b[k] => taken[i] \in Z
  <2> SUFFICES ASSUME NEW k \in 1..Len(b), \A m \in 1..Len(b) : m < k => b[m] \in Z,
                      NEW i \in 1..Len(taken), NEW j \in 1..Len(taken), i < j, taken[j] = b[k]
               PROVE  taken[i] \in Z
    OBVIOUS
  <2>1. taken[i] \in Z \/ \E m \in 1..Len(b) : m < k /\ taken[i] = b[m]
    BY <1>8
  <2> QED BY <2>1
<1>10. ASSUME NEW i \in 1..Len(taken), NEW j \in 1..Len(taken), i < j, taken[j] \in Range(b)
       PROVE  taken[i] \in Z \/ taken[i] \in Range(b)
  <2>1. PICK k \in 1..Len(b) : b[k] = taken[j]
    BY <1>10, RangeIs
  <2>2. taken[i] \in Z \/ \E m \in 1..Len(b) : m < k /\ taken[i] = b[m]
    BY <1>8, <1>10, <2>1
  <2> QED BY <2>2, RangeIs
<1> QED BY <1>7, <1>9, <1>10

\* A recorder calls the service with its batch, or with one event of it.
LEMMA CallingKeeps ==
  ASSUME RecInv, StoreType, NEW r \in Recorders, NEW base \in RecRow, NEW events, Calling(r, base, events),
         UNCHANGED <<rows, recording, accepted, late>>,
         logged \subseteq logged', logged' \subseteq Events, failures' \in Nat,
         base.proc \notin {"exited", "cut"}, base.batch # << >>, base.one \in 0..Len(base.batch),
         Len(base.batch) <= BatchSize,
         events = IF base.one = 0 THEN base.batch ELSE <<base.batch[base.one]>>,
         \A i \in 1..Len(base.batch) : i < base.one => base.batch[i] \in Settled',
         NEW s \in Seq(Events), accepted[r] = (s \o base.batch) \o base.queue, Range(s) \subseteq Settled'
  PROVE  RecInv' /\ (UNCHANGED <<heads, verify>> => Arrival)
<1> DEFINE F == {d \in Calls : Free(d)}
           c == CHOOSE d \in Calls : Free(d) /\ \A x \in Calls : Free(x) => d <= x
           row == [base EXCEPT !.pc = "call", !.call = c]
<1>1. c \in Calls /\ Free(c)
  <2>1. F \subseteq Nat /\ F # {}
    BY CallsAssumption DEF Calls, Calling
  <2>2. \E d \in F : \A x \in F : d <= x
    BY <2>1, LeastExists
  <2>3. \E d \in Calls : Free(d) /\ \A x \in Calls : Free(x) => d <= x
    BY <2>2
  <2> QED BY <2>3
<1>2. calls' = [calls EXCEPT ![c] = Arrives(events)] /\ rec' = [rec EXCEPT ![r] = row]
  BY DEF Calling
<1> HIDE DEF c
<1>3. /\ row \in RecRow /\ row.pc = "call" /\ row.call = c /\ row.batch = base.batch /\ row.one = base.one
      /\ row.queue = base.queue /\ row.proc = base.proc
  BY <1>1 DEF RecRow
<1> HIDE DEF row
<1>4. base.batch \in Seq(Events) /\ base.queue \in Seq(Events) /\ base.one \in Nat
  BY DEF RecRow
<1>5. events \in Seq(Events)
  <2>1. CASE base.one = 0
    BY <1>4, <2>1
  <2>2. CASE base.one # 0
    <3>1. base.one \in 1..Len(base.batch)
      BY <1>4, <2>2
    <3>2. base.batch[base.one] \in Events
      BY <1>4, <3>1
    <3> QED BY <2>2, <3>2
  <2> QED BY <2>1, <2>2
<1>6. calls'[c].events = events
  <2>1. calls'[c] = Arrives(events)
    BY <1>1, <1>2 DEF StoreType
  <2> QED BY <1>5, <2>1, ArrivesIs
<1>7. RowWaits(row, calls', Settled')
  BY <1>1, <1>3, <1>6 DEF RowWaits
<1>8. RowPlaces(row, accepted[r], Settled', late)
  <2>1. \E z \in Seq(Events) : accepted[r] = (z \o row.batch) \o row.queue /\ Range(z) \subseteq Settled'
    BY <1>3
  <2> QED BY <1>3, <2>1 DEF RowPlaces
<1>9. \A i, j \in 1..Len(accepted[r]) : accepted[r][i] = accepted[r][j] => i = j
  BY DEF RecInv, TakenInv
<1>10. /\ Range(base.batch) \subseteq Range(accepted[r])
       /\ \A k \in 1..Len(base.batch) :
            (\A m \in 1..Len(base.batch) : m < k => base.batch[m] \in Settled') =>
              \A i, j \in 1..Len(accepted[r]) :
                i < j /\ accepted[r][j] = base.batch[k] => accepted[r][i] \in Settled'
       /\ \A i, j \in 1..Len(accepted[r]) : i < j /\ accepted[r][j] \in Range(base.batch) =>
            accepted[r][i] \in Settled' \/ accepted[r][i] \in Range(base.batch)
  BY <1>4, <1>9, PlacesOrder
<1>11. /\ Range(events) \subseteq Range(accepted[r])
       /\ \A i, j \in 1..Len(accepted[r]) : i < j /\ accepted[r][j] \in Range(events)
            => accepted[r][i] \in Settled' \/ accepted[r][i] \in Range(events)
  <2>1. CASE base.one = 0
    BY <1>10, <2>1
  <2>2. CASE base.one # 0
    <3>1. base.one \in 1..Len(base.batch) /\ base.batch[base.one] \in Range(base.batch)
      BY <1>4, <2>2, RangeIs
    <3>2. Range(events) = {base.batch[base.one]}
      <4> DEFINE e == base.batch[base.one]
      <4>1. events = <<e>>
        BY <2>2
      <4> HIDE DEF e
      <4>2. e \in Events
        BY <1>4, <3>1 DEF e
      <4>4. Range(events) = {e}
        BY <4>1, <4>2, RangeOfOne
      <4> QED BY <4>4 DEF e
    <3> QED BY <1>10, <3>1, <3>2
  <2> QED BY <2>1, <2>2
<1>12. RecInv'
  BY <1>1, <1>2, <1>3, <1>5, <1>7, <1>8, <1>11, CallKeeps
<1>13. UNCHANGED <<heads, verify>> => Arrival
  BY <1>1, <1>2, <1>5 DEF Arrival, Free, Answers
<1> QED BY <1>12, <1>13

\* What is known of a recorder whose loop runs.
LEMMA LoopFacts ==
  ASSUME RecInv, NEW r \in Recorders
  PROVE  /\ rec[r] \in RecRow /\ rec[r].batch \in Seq(Events) /\ rec[r].queue \in Seq(Events)
         /\ rec[r].one \in Nat /\ Len(rec[r].batch) <= BatchSize
         /\ accepted[r] \in Seq(Events) /\ BatchSize \in Nat \ {0}
         /\ Range(rec[r].batch) \subseteq Events /\ Range(rec[r].queue) \subseteq Events
         /\ rec[r].pc # "done" =>
              /\ rec[r].proc \notin {"exited", "cut"}
              /\ \E s \in Seq(Events) : /\ accepted[r] = (s \o rec[r].batch) \o rec[r].queue
                                       /\ Range(s) \subseteq Settled
<1>1. rec[r] \in RecRow /\ accepted[r] \in Seq(Events) /\ BatchSize \in Nat \ {0}
  BY RecorderAssumption DEF RecInv, RecType
<1>2. rec[r].batch \in Seq(Events) /\ rec[r].queue \in Seq(Events) /\ rec[r].one \in Nat
  BY <1>1 DEF RecRow
<1>3. Range(rec[r].batch) \subseteq Events /\ Range(rec[r].queue) \subseteq Events
  BY <1>2, RangeIs
<1>4. RowPlaces(rec[r], accepted[r], Settled, late)
  BY DEF RecInv, PlacesInv
<1> QED BY <1>1, <1>2, <1>3, <1>4 DEF RowPlaces

\* Nothing that was settled is unsettled.
LEMMA SettledGrows ==
  ASSUME rows' = rows, logged \subseteq logged'
  PROVE  Settled \subseteq Settled' /\ Recorded' = Recorded
  BY RecordedStays DEF Settled

\* The loop goes on with the same batch and queue, and waits for nothing.
LEMMA SamePlaces ==
  ASSUME RecInv, NEW r \in Recorders, NEW row \in RecRow, rec' = [rec EXCEPT ![r] = row],
         rec[r].pc # "done", UNCHANGED <<rows, calls, recording, accepted, late>>,
         logged' = logged, failures' \in Nat,
         row.proc \notin {"exited", "cut"}, row.pc # "done", row.batch = rec[r].batch, row.queue = rec[r].queue,
         \/ row.pc # "call" /\ row.call = NoCallId
         \/ row.pc = rec[r].pc /\ row.call = rec[r].call /\ row.one = rec[r].one
  PROVE  RecInv'
<1>1. PICK s \in Seq(Events) : /\ accepted[r] = (s \o rec[r].batch) \o rec[r].queue
                               /\ Range(s) \subseteq Settled
  BY LoopFacts
<1>2. Settled \subseteq Settled'
  BY SettledGrows
<1>3. RowPlaces(row, accepted[r], Settled', late)
  <2>1. \E z \in Seq(Events) : accepted[r] = (z \o row.batch) \o row.queue /\ Range(z) \subseteq Settled'
    BY <1>1, <1>2
  <2>2. Len(row.batch) <= BatchSize
    BY LoopFacts
  <2> QED BY <2>1, <2>2 DEF RowPlaces
<1>4. RowWaits(rec[r], calls, Settled)
  BY DEF RecInv, WaitsInv
<1>5. RowWaits(row, calls, Settled')
  BY <1>2, <1>4 DEF RowWaits
<1>6. row.call \in {NoCallId, rec[r].call}
  OBVIOUS
<1>7. logged' \subseteq Events
  BY DEF RecInv, RecType
<1> QED BY <1>3, <1>5, <1>6, <1>7, LoopKeeps

\* The head of the queue moves to the end of the batch.
LEMMA ReceiveStep ==
  ASSUME RecInv, NEW r \in Recorders, Receive(r) PROVE RecInv' /\ UNCHANGED storeVars
<1> DEFINE b == rec[r].batch
           q == rec[r].queue
           row == [rec[r] EXCEPT !.batch = Append(b, Head(q)), !.queue = Tail(q)]
<1>1. /\ rec[r].pc = "collect" /\ Len(b) < BatchSize /\ q # << >> /\ rec' = [rec EXCEPT ![r] = row]
      /\ UNCHANGED <<storeVars, recording, accepted, late, logged, failures>>
  BY DEF Receive
<1>2. rec[r] \in RecRow /\ b \in Seq(Events) /\ q \in Seq(Events) /\ BatchSize \in Nat
      /\ rec[r].proc \notin {"exited", "cut"}
  BY <1>1, LoopFacts
<1>3. PICK s \in Seq(Events) : accepted[r] = (s \o b) \o q /\ Range(s) \subseteq Settled
  BY <1>1, LoopFacts
<1> DEFINE bb == Append(b, Head(q))
           qq == Tail(q)
<1>4. row = [rec[r] EXCEPT !.batch = bb, !.queue = qq]
  OBVIOUS
<1> HIDE DEF b, q, row
<1>5. Head(q) \in Events /\ qq \in Seq(Events)
  BY <1>1, <1>2, HeadTailProperties
<1>6. bb \in Seq(Events) /\ Len(bb) = Len(b) + 1
  <2> DEFINE h == Head(q)
  <2> HIDE DEF h
  <2>1. Append(b, h) \in Seq(Events) /\ Len(Append(b, h)) = Len(b) + 1
    BY <1>2, <1>5, AppendFacts DEF h
  <2> QED BY <2>1 DEF h
<1>7. (s \o bb) \o qq = (s \o b) \o q
  <2> DEFINE h == Head(q)
  <2>1. h \in Events
    BY <1>5
  <2> HIDE DEF h
  <2>2. s \o Append(b, h) = Append(s \o b, h)
    BY <1>2, <2>1, ConcatAppend
  <2>3. s \o b \in Seq(Events)
    BY <1>2
  <2>4. Append(s \o b, Head(q)) \o Tail(q) = (s \o b) \o q
    BY <1>1, <1>2, <2>3, ConcatHeadTail
  <2> QED BY <2>2, <2>4 DEF h
<1>8. Len(bb) <= BatchSize
  <2>1. \A m, n \in Nat : m < n => m + 1 <= n
    OBVIOUS
  <2>2. Len(b) \in Nat
    BY <1>2
  <2> QED BY <1>1, <1>2, <1>6, <2>1, <2>2
<1> HIDE DEF bb, qq
<1>9. row \in RecRow
  BY <1>2, <1>4, <1>5, <1>6 DEF RecRow
<1>10. row.proc = rec[r].proc /\ row.pc = rec[r].pc /\ row.batch = bb /\ row.queue = qq /\ row.call = rec[r].call
  BY <1>2, <1>4 DEF RecRow
<1>11. Settled \subseteq Settled'
  BY <1>1, SettledGrows DEF storeVars
<1>12. RowPlaces(row, accepted[r], Settled', late)
  <2>1. \E z \in Seq(Events) : accepted[r] = (z \o row.batch) \o row.queue /\ Range(z) \subseteq Settled'
    BY <1>3, <1>7, <1>10, <1>11
  <2>2. row.proc \notin {"exited", "cut"} /\ row.pc # "done" /\ Len(row.batch) <= BatchSize
    BY <1>1, <1>2, <1>8, <1>10
  <2> QED BY <2>1, <2>2 DEF RowPlaces
<1>13. rec[r].call = NoCallId
  BY <1>1 DEF RecInv, WaitsInv, RowWaits
<1>14. RowWaits(row, calls, Settled')
  BY <1>1, <1>10, <1>13 DEF RowWaits
<1>15. logged' \subseteq Events /\ failures' \in Nat
  BY <1>1 DEF RecInv, RecType
<1>16. RecInv'
  BY <1>1, <1>9, <1>10, <1>12, <1>14, <1>15, LoopKeeps DEF storeVars
<1> QED BY <1>1, <1>16

\* The batch is what the call gets.
LEMMA SendStep ==
  ASSUME RecInv, StoreType, NEW r \in Recorders, Send(r) PROVE RecInv' /\ Arrival
<1> DEFINE base == [rec[r] EXCEPT !.one = 0]
<1>1. /\ rec[r].pc = "collect" /\ rec[r].batch # << >> /\ Calling(r, base, rec[r].batch)
      /\ UNCHANGED <<heads, rows, verify, recording, accepted, late, logged, failures>>
  BY DEF Send
<1>2. rec[r] \in RecRow /\ rec[r].proc \notin {"exited", "cut"} /\ rec[r].batch \in Seq(Events)
      /\ Len(rec[r].batch) <= BatchSize
  BY <1>1, LoopFacts
<1>3. base \in RecRow /\ base.proc = rec[r].proc /\ base.batch = rec[r].batch /\ base.one = 0
      /\ base.queue = rec[r].queue
  BY <1>2 DEF RecRow
<1> HIDE DEF base
<1>4. Settled \subseteq Settled'
  BY <1>1, SettledGrows
<1>5. PICK s \in Seq(Events) : accepted[r] = (s \o rec[r].batch) \o rec[r].queue /\ Range(s) \subseteq Settled
  BY <1>1, LoopFacts
<1>6. logged' \subseteq Events /\ failures' \in Nat
  BY <1>1 DEF RecInv, RecType
<1>7. /\ base.one \in 0..Len(base.batch) /\ \A i \in 1..Len(base.batch) : i < base.one => base.batch[i] \in Settled'
  BY <1>2, <1>3
<1>8. accepted[r] = (s \o base.batch) \o base.queue /\ Range(s) \subseteq Settled'
  BY <1>3, <1>4, <1>5
<1>9. rec[r].batch = IF base.one = 0 THEN base.batch ELSE <<base.batch[base.one]>>
  BY <1>3
<1> QED BY <1>1, <1>2, <1>3, <1>6, <1>7, <1>8, <1>9, CallingKeeps

\* Only the flag changes.
LEMMA NoticeStopStep ==
  ASSUME RecInv, NEW r \in Recorders, NoticeStop(r) PROVE RecInv' /\ UNCHANGED storeVars
<1> DEFINE row == [rec[r] EXCEPT !.stopping = TRUE]
<1>1. /\ rec[r].pc = "collect" /\ rec' = [rec EXCEPT ![r] = row]
      /\ UNCHANGED <<storeVars, recording, accepted, late, logged, failures>>
  BY DEF NoticeStop
<1>2. rec[r] \in RecRow /\ rec[r].proc \notin {"exited", "cut"}
  BY <1>1, LoopFacts
<1>3. /\ row \in RecRow /\ row.proc = rec[r].proc /\ row.pc = rec[r].pc /\ row.call = rec[r].call
      /\ row.one = rec[r].one /\ row.batch = rec[r].batch /\ row.queue = rec[r].queue
  BY <1>2 DEF RecRow
<1> HIDE DEF row
<1>4. failures' \in Nat
  BY <1>1 DEF RecInv, RecType
<1>5. RecInv'
  BY <1>1, <1>2, <1>3, <1>4, SamePlaces DEF storeVars
<1> QED BY <1>1, <1>5

\* The loop goes on with the batch it kept.
LEMMA BackoffStep ==
  ASSUME RecInv, NEW r \in Recorders, Backoff(r) PROVE RecInv' /\ UNCHANGED storeVars
<1>1. PICK stop \in {FALSE, Closed(r)} : rec' = [rec EXCEPT ![r].pc = "collect", ![r].stopping = stop]
  BY DEF Backoff
<1>2. stop \in BOOLEAN
  BY DEF Closed
<1> DEFINE row == [rec[r] EXCEPT !.pc = "collect", !.stopping = stop]
<1>3. /\ rec[r].pc = "backoff" /\ rec' = [rec EXCEPT ![r] = row]
      /\ UNCHANGED <<storeVars, recording, accepted, late, logged, failures>>
  BY <1>1 DEF Backoff
<1>4. rec[r] \in RecRow /\ rec[r].proc \notin {"exited", "cut"}
  BY <1>3, LoopFacts
<1>5. rec[r].call = NoCallId
  BY <1>3 DEF RecInv, WaitsInv, RowWaits
<1>6. /\ row \in RecRow /\ row.proc = rec[r].proc /\ row.pc = "collect" /\ row.call = NoCallId
      /\ row.batch = rec[r].batch /\ row.queue = rec[r].queue
  BY <1>2, <1>4, <1>5 DEF RecRow
<1> HIDE DEF row
<1>7. failures' \in Nat
  BY <1>3 DEF RecInv, RecType
<1>8. RecInv'
  BY <1>3, <1>4, <1>6, <1>7, SamePlaces DEF storeVars
<1> QED BY <1>3, <1>8

\* Close changes nothing of what the loop has.
LEMMA CloseStep ==
  ASSUME RecInv, NEW r \in Recorders, Close(r) PROVE RecInv' /\ UNCHANGED storeVars
<1> DEFINE row == [rec[r] EXCEPT !.proc = "closing"]
<1>1. /\ rec[r].proc = "up" /\ rec' = [rec EXCEPT ![r] = row]
      /\ UNCHANGED <<storeVars, recording, accepted, late, logged, failures>>
  BY DEF Close
<1>2. rec[r] \in RecRow
  BY LoopFacts
<1>3. /\ row \in RecRow /\ row.proc = "closing" /\ row.pc = rec[r].pc /\ row.call = rec[r].call
      /\ row.one = rec[r].one /\ row.batch = rec[r].batch /\ row.queue = rec[r].queue
  BY <1>2 DEF RecRow
<1> HIDE DEF row
<1>4. failures' \in Nat /\ logged' \subseteq Events
  BY <1>1 DEF RecInv, RecType
<1>5. Settled \subseteq Settled'
  BY <1>1, SettledGrows DEF storeVars
<1>6. RowWaits(row, calls, Settled')
  <2>1. RowWaits(rec[r], calls, Settled)
    BY DEF RecInv, WaitsInv
  <2> QED BY <1>3, <1>5, <2>1 DEF RowWaits
<1>7. RowPlaces(row, accepted[r], Settled', late)
  <2>1. RowPlaces(rec[r], accepted[r], Settled, late)
    BY DEF RecInv, PlacesInv
  <2>2. RowPlaces(rec[r], accepted[r], Settled', late)
    BY <1>5, <2>1, RowPlacesMono
  <2> QED BY <1>1, <1>3, <2>2 DEF RowPlaces
<1>8. RecInv'
  BY <1>1, <1>3, <1>4, <1>6, <1>7, LoopKeeps DEF storeVars
<1> QED BY <1>1, <1>8

\* The fields of a recorder whose process is gone.
LEMMA GoneFacts ==
  ASSUME NEW how \in {"exited", "cut"}
  PROVE  /\ Gone(how) \in RecRow /\ Gone(how).proc = how /\ Gone(how).pc = "done"
         /\ Gone(how).call = NoCallId /\ Gone(how).batch = << >>
<1> DEFINE none == << >>
<1>1. none \in Seq(Events)
  OBVIOUS
<1>2. NewRecorder = [proc |-> "up", pc |-> "collect", queue |-> none, batch |-> none,
                     one |-> 0, call |-> NoCallId, stopping |-> FALSE]
  BY DEF NewRecorder
<1> HIDE DEF none
<1>3. NewRecorder \in RecRow /\ NewRecorder.call = NoCallId /\ NewRecorder.batch = none
  BY <1>1, <1>2 DEF RecRow
<1>4. Gone(how) = [NewRecorder EXCEPT !.proc = how, !.pc = "done"]
  BY DEF Gone
<1>5. /\ Gone(how) \in RecRow /\ Gone(how).proc = how /\ Gone(how).pc = "done"
      /\ Gone(how).call = NoCallId /\ Gone(how).batch = none
  BY <1>3, <1>4 DEF RecRow
<1> QED BY <1>5 DEF none

\* The loop had returned, with everything settled but what came late.
LEMMA CloseReturnsStep ==
  ASSUME RecInv, NEW r \in Recorders, CloseReturns(r) PROVE RecInv' /\ UNCHANGED storeVars
<1> DEFINE row == Gone("exited")
<1>1. /\ rec[r].proc = "closing" /\ rec[r].pc = "done" /\ rec' = [rec EXCEPT ![r] = row]
      /\ UNCHANGED <<storeVars, recording, accepted, late, logged, failures>>
  BY DEF CloseReturns
<1>2. /\ row \in RecRow /\ row.proc = "exited" /\ row.pc = "done" /\ row.call = NoCallId
      /\ row.batch = << >>
  BY GoneFacts
<1> HIDE DEF row
<1>3. failures' \in Nat /\ logged' \subseteq Events
  BY <1>1 DEF RecInv, RecType
<1>4. Settled \subseteq Settled'
  BY <1>1, SettledGrows DEF storeVars
<1>5. RowPlaces(row, accepted[r], Settled', late)
  <2>1. Range(accepted[r]) \subseteq Settled' \cup late
    BY <1>1, <1>4 DEF RecInv, PlacesInv, RowPlaces
  <2>2. Len(row.batch) <= BatchSize
    BY <1>2, RecorderAssumption
  <2> QED BY <1>2, <2>1, <2>2 DEF RowPlaces
<1>6. RowWaits(row, calls, Settled')
  BY <1>2 DEF RowWaits
<1>7. RecInv'
  BY <1>1, <1>2, <1>3, <1>5, <1>6, LoopKeeps DEF storeVars
<1> QED BY <1>1, <1>7

\* A process that is cut promises nothing.
LEMMA CloseTimesOutStep ==
  ASSUME RecInv, NEW r \in Recorders, CloseTimesOut(r) PROVE RecInv' /\ UNCHANGED storeVars
<1> DEFINE row == Gone("cut")
<1>1. /\ rec' = [rec EXCEPT ![r] = row] /\ failures' = failures + 1
      /\ UNCHANGED <<storeVars, recording, accepted, late, logged>>
  BY DEF CloseTimesOut
<1>2. /\ row \in RecRow /\ row.proc = "cut" /\ row.pc = "done" /\ row.call = NoCallId
      /\ row.batch = << >>
  BY GoneFacts
<1> HIDE DEF row
<1>3. failures' \in Nat /\ logged' \subseteq Events
  BY <1>1 DEF RecInv, RecType
<1>4. Len(row.batch) <= BatchSize
  BY <1>2, RecorderAssumption
<1>5. RowPlaces(row, accepted[r], Settled', late) /\ RowWaits(row, calls, Settled')
  BY <1>2, <1>4 DEF RowPlaces, RowWaits
<1>6. RecInv'
  BY <1>1, <1>2, <1>3, <1>5, LoopKeeps DEF storeVars
<1> QED BY <1>1, <1>6

\* What was taken, in three parts, as a set.
LEMMA RangeOfTaken ==
  ASSUME NEW s \in Seq(Events), NEW b \in Seq(Events), NEW q \in Seq(Events)
  PROVE  Range((s \o b) \o q) = Range(s) \cup Range(b) \cup Range(q)
<1> DEFINE a == s \o b
<1>1. a \in Seq(Events) /\ Range(a) = Range(s) \cup Range(b)
  BY RangeConcatenation
<1> HIDE DEF a
<1>2. Range(a \o q) = Range(a) \cup Range(q)
  BY <1>1, RangeConcatenation
<1> QED BY <1>1, <1>2 DEF a

\* A call that did not work: the batch is kept, or logged with all the rest.
LEMMA FailedStep ==
  ASSUME RecInv, NEW r \in Recorders, rec[r].pc = "call", Failed(r),
         UNCHANGED <<rows, calls, recording, accepted, late>>, failures' \in Nat
  PROVE  RecInv'
<1>1. /\ rec[r] \in RecRow /\ rec[r].proc \notin {"exited", "cut"}
      /\ rec[r].batch \in Seq(Events) /\ rec[r].queue \in Seq(Events)
      /\ Range(rec[r].batch) \subseteq Events /\ Range(rec[r].queue) \subseteq Events
  BY LoopFacts
<1>2. CASE rec[r].stopping
  <2> DEFINE none == << >>
             row == [rec[r] EXCEPT !.pc = "done", !.call = NoCallId, !.one = 0, !.batch = none, !.queue = none]
  <2>1. /\ logged' = logged \cup Range(rec[r].batch) \cup Range(rec[r].queue)
        /\ rec' = [rec EXCEPT ![r] = row]
    BY <1>2 DEF Failed
  <2>2. none \in Seq(Events) /\ Len(none) <= BatchSize
    BY RecorderAssumption
  <2> HIDE DEF none
  <2>3. row \in RecRow
    BY <1>1, <2>2 DEF RecRow
  <2>4. row.proc = rec[r].proc /\ row.pc = "done" /\ row.call = NoCallId /\ row.batch = none
    BY <1>1, <2>3 DEF RecRow
  <2> HIDE DEF row
  <2>5. logged \subseteq logged' /\ logged' \subseteq Events
    BY <1>1, <2>1 DEF RecInv, RecType
  <2>6. Settled \subseteq Settled' /\ logged' \subseteq Settled'
    BY <2>5, SettledGrows DEF Settled
  <2>7. PICK s \in Seq(Events) : accepted[r] = (s \o rec[r].batch) \o rec[r].queue /\ Range(s) \subseteq Settled
    BY LoopFacts
  <2>8. Range(accepted[r]) = Range(s) \cup Range(rec[r].batch) \cup Range(rec[r].queue)
    BY <1>1, <2>7, RangeOfTaken
  <2>9. RowPlaces(row, accepted[r], Settled', late)
    <3>1. Range(accepted[r]) \subseteq Settled' \cup late
      BY <2>1, <2>6, <2>7, <2>8
    <3> QED BY <1>1, <2>2, <2>4, <3>1 DEF RowPlaces
  <2>10. RowWaits(row, calls, Settled')
    BY <2>4 DEF RowWaits
  <2> QED BY <2>1, <2>3, <2>4, <2>5, <2>9, <2>10, LoopKeeps
<1>3. CASE ~rec[r].stopping
  <2> DEFINE row == [rec[r] EXCEPT !.pc = "backoff", !.call = NoCallId, !.one = 0]
  <2>1. rec' = [rec EXCEPT ![r] = row] /\ logged' = logged
    BY <1>3 DEF Failed
  <2>2. row \in RecRow /\ row.proc = rec[r].proc /\ row.pc = "backoff" /\ row.call = NoCallId
        /\ row.batch = rec[r].batch /\ row.queue = rec[r].queue
    BY <1>1 DEF RecRow
  <2> HIDE DEF row
  <2> QED BY <1>1, <2>1, <2>2, SamePlaces
<1> QED BY <1>2, <1>3

\* The call goes on without the recorder.
LEMMA GiveUpStep ==
  ASSUME RecInv, NEW r \in Recorders, GiveUp(r) PROVE RecInv' /\ UNCHANGED storeVars
<1>1. /\ rec[r].pc = "call" /\ Failed(r) /\ failures' = failures + 1
      /\ UNCHANGED <<storeVars, recording, accepted, late>>
  BY DEF GiveUp
<1>2. failures' \in Nat
  BY <1>1 DEF RecInv, RecType
<1> QED BY <1>1, <1>2, FailedStep DEF storeVars

\* The batch is filled up from the queue, and sent; or there is nothing left.
LEMMA DrainStep ==
  ASSUME RecInv, StoreType, NEW r \in Recorders, Drain(r)
  PROVE  RecInv' /\ (Arrival \/ UNCHANGED storeVars)
<1> DEFINE b == rec[r].batch
           q == rec[r].queue
           room == BatchSize - Len(b)
           n == IF Len(q) < room THEN Len(q) ELSE room
           first == SubSeq(q, 1, n)
           rest == SubSeq(q, n + 1, Len(q))
           full == b \o first
           base == [rec[r] EXCEPT !.one = 0, !.batch = full, !.queue = rest]
<1>1. /\ rec[r].pc = "collect" /\ UNCHANGED <<heads, rows, verify, recording, accepted, late, logged, failures>>
      /\ \/ full = << >> /\ rec' = [rec EXCEPT ![r].pc = "done"] /\ UNCHANGED calls
         \/ full # << >> /\ Calling(r, base, full)
  BY DEF Drain
<1>2. /\ rec[r] \in RecRow /\ b \in Seq(Events) /\ q \in Seq(Events) /\ Len(b) <= BatchSize
      /\ BatchSize \in Nat \ {0} /\ rec[r].proc \notin {"exited", "cut"}
  BY <1>1, LoopFacts
<1>3. PICK s \in Seq(Events) : accepted[r] = (s \o b) \o q /\ Range(s) \subseteq Settled
  BY <1>1, LoopFacts
<1> HIDE DEF b, q
<1>4. Len(b) \in Nat /\ Len(q) \in Nat
  BY <1>2
<1>5. n \in 0..Len(q) /\ Len(b) + n <= BatchSize /\ (n = 0 /\ Len(b) = 0 => Len(q) = 0)
  BY <1>2, <1>4
<1> HIDE DEF n
<1>6. first \in Seq(Events) /\ rest \in Seq(Events) /\ first \o rest = q /\ Len(first) = n
  BY <1>2, <1>5, SplitAt
<1> HIDE DEF first, rest
<1>7. full \in Seq(Events) /\ Len(full) = Len(b) + n
  BY <1>2, <1>6, ConcatFacts, ZenonT(60)
<1>a. \A x, y, z \in Seq(Events) : (x \o y) \o z = x \o (y \o z)
  BY ConcatAssociative, SMTT(30)
<1>8. full \o rest = b \o q
  <2>1. b \in Seq(Events) /\ first \in Seq(Events) /\ rest \in Seq(Events)
    BY <1>2, <1>6
  <2>2. (b \o first) \o rest = b \o (first \o rest)
    BY <1>a, <2>1, Zenon
  <2> QED BY <1>6, <2>2
<1>9. (s \o full) \o rest = (s \o b) \o q
  <2>1. (s \o full) \o rest = s \o (full \o rest)
    <3>1. rest \in Seq(Events) /\ full \in Seq(Events)
      BY <1>6, <1>7
    <3> HIDE DEF full
    <3> QED BY <3>1, <1>a
  <2>2. (s \o b) \o q = s \o (b \o q)
    BY <1>2, <1>a
  <2> QED BY <1>8, <2>1, <2>2
<1>10. Settled \subseteq Settled' /\ logged' \subseteq Events /\ failures' \in Nat
  BY <1>1, SettledGrows DEF RecInv, RecType
<1> HIDE DEF full
<1>11. CASE full = << >>
  <2> DEFINE row == [rec[r] EXCEPT !.pc = "done"]
  <2>1. rec' = [rec EXCEPT ![r] = row] /\ UNCHANGED calls
    BY <1>1, <1>11
  <2>2. /\ row \in RecRow /\ row.pc = "done" /\ row.proc = rec[r].proc /\ row.call = rec[r].call
        /\ row.batch = b
    BY <1>2 DEF RecRow, b
  <2> HIDE DEF row
  <2>3. Len(q) = 0 /\ Len(b) = 0
    BY <1>4, <1>5, <1>7, <1>11
  <2>4. q = << >> /\ b = << >>
    BY <1>2, <2>3
  <2>5. accepted[r] = s
    BY <1>3, <2>4, ConcatEmptySeq
  <2>6. Range(accepted[r]) \subseteq Settled' \cup late
    BY <1>3, <1>10, <2>5
  <2>7. RowPlaces(row, accepted[r], Settled', late)
    BY <1>2, <2>2, <2>6 DEF RowPlaces
  <2>8. rec[r].call = NoCallId
    BY <1>1 DEF RecInv, WaitsInv, RowWaits
  <2>9. RowWaits(row, calls, Settled')
    BY <2>2, <2>8 DEF RowWaits
  <2>10. RecInv'
    BY <1>1, <1>10, <2>1, <2>2, <2>7, <2>9, LoopKeeps
  <2> QED BY <1>1, <2>1, <2>10 DEF storeVars
<1>12. CASE full # << >>
  <2>1. Calling(r, base, full)
    BY <1>1, <1>12
  <2>2. base \in RecRow
    BY <1>2, <1>6, <1>7 DEF RecRow
  <2>3. base.proc = rec[r].proc /\ base.batch = full /\ base.queue = rest /\ base.one = 0
    BY <1>2, <2>2 DEF RecRow
  <2> HIDE DEF base
  <2>4. /\ base.one \in 0..Len(base.batch) /\ Len(base.batch) <= BatchSize
        /\ \A i \in 1..Len(base.batch) : i < base.one => base.batch[i] \in Settled'
    BY <1>5, <1>7, <2>3
  <2>5. accepted[r] = (s \o base.batch) \o base.queue /\ Range(s) \subseteq Settled'
    BY <1>3, <1>9, <1>10, <2>3
  <2>6. full = IF base.one = 0 THEN base.batch ELSE <<base.batch[base.one]>>
    BY <2>3
  <2> QED BY <1>1, <1>2, <1>10, <1>12, <2>1, <2>2, <2>3, <2>4, <2>5, <2>6, CallingKeeps
<1> QED BY <1>11, <1>12

\* The batch is done when all of it is settled.
LEMMA SentStep ==
  ASSUME RecInv, NEW r \in Recorders, rec[r].pc = "call", rec' = [rec EXCEPT ![r] = Sent(r)],
         UNCHANGED <<rows, calls, recording, accepted, late, failures>>,
         logged \subseteq logged', logged' \subseteq Events, Range(rec[r].batch) \subseteq Settled'
  PROVE  RecInv'
<1> DEFINE none == << >>
           row == [rec[r] EXCEPT !.pc = "collect", !.batch = none, !.call = NoCallId, !.one = 0]
           b == rec[r].batch
           q == rec[r].queue
<1>1. rec' = [rec EXCEPT ![r] = row]
  BY DEF Sent
<1>2. rec[r] \in RecRow /\ b \in Seq(Events) /\ q \in Seq(Events) /\ rec[r].proc \notin {"exited", "cut"}
  BY LoopFacts
<1>3. none \in Seq(Events) /\ Len(none) <= BatchSize
  BY RecorderAssumption
<1>4. PICK s \in Seq(Events) : accepted[r] = (s \o b) \o q /\ Range(s) \subseteq Settled
  BY LoopFacts
<1>5. Settled \subseteq Settled'
  BY SettledGrows
<1> HIDE DEF b, q
<1>6. s \o b \in Seq(Events) /\ Range(s \o b) = Range(s) \cup Range(b)
  BY <1>2, RangeConcatenation
<1>7. (s \o b) \o none = s \o b
  BY <1>6, ConcatEmptySeq
<1> HIDE DEF none
<1>8. row \in RecRow
  BY <1>2, <1>3 DEF RecRow
<1>9. row.proc = rec[r].proc /\ row.pc = "collect" /\ row.batch = none /\ row.queue = q /\ row.call = NoCallId
  BY <1>2, <1>8 DEF RecRow, q
<1> HIDE DEF row
<1>10. RowPlaces(row, accepted[r], Settled', late)
  <2>1. accepted[r] = ((s \o b) \o row.batch) \o row.queue /\ Range(s \o b) \subseteq Settled'
    BY <1>4, <1>5, <1>6, <1>7, <1>9 DEF b
  <2>2. \E z \in Seq(Events) : accepted[r] = (z \o row.batch) \o row.queue /\ Range(z) \subseteq Settled'
    BY <1>6, <2>1
  <2>3. row.proc \notin {"exited", "cut"} /\ row.pc # "done" /\ Len(row.batch) <= BatchSize
    BY <1>2, <1>3, <1>9
  <2> QED BY <2>2, <2>3 DEF RowPlaces
<1>11. RowWaits(row, calls, Settled')
  BY <1>9 DEF RowWaits
<1>12. failures' \in Nat
  BY DEF RecInv, RecType
<1> QED BY <1>1, <1>8, <1>9, <1>10, <1>11, <1>12, LoopKeeps

\* One event of the batch is sent alone: the ones before it are settled.
LEMMA SendOneStep ==
  ASSUME RecInv, StoreType, NEW r \in Recorders, rec[r].pc = "call", NEW k \in 1..Len(rec[r].batch),
         SendOne(r, k), UNCHANGED <<rows, recording, accepted, late, failures>>,
         logged \subseteq logged', logged' \subseteq Events,
         \A i \in 1..Len(rec[r].batch) : i < k => rec[r].batch[i] \in Settled'
  PROVE  RecInv' /\ (UNCHANGED <<heads, verify>> => Arrival)
<1> DEFINE base == [rec[r] EXCEPT !.one = k]
<1>1. Calling(r, base, <<rec[r].batch[k]>>)
  BY DEF SendOne
<1>2. /\ rec[r] \in RecRow /\ rec[r].proc \notin {"exited", "cut"} /\ rec[r].batch \in Seq(Events)
      /\ Len(rec[r].batch) <= BatchSize
  BY LoopFacts
<1>3. k \in Nat /\ k # 0 /\ Len(rec[r].batch) \in Nat /\ k \in 0..Len(rec[r].batch) /\ rec[r].batch # << >>
  BY <1>2
<1>4. base \in RecRow /\ base.proc = rec[r].proc /\ base.batch = rec[r].batch /\ base.one = k
      /\ base.queue = rec[r].queue
  BY <1>2, <1>3 DEF RecRow
<1> HIDE DEF base
<1>5. PICK s \in Seq(Events) : accepted[r] = (s \o rec[r].batch) \o rec[r].queue /\ Range(s) \subseteq Settled
  BY LoopFacts
<1>6. Settled \subseteq Settled' /\ failures' \in Nat
  BY SettledGrows DEF RecInv, RecType
<1>7. accepted[r] = (s \o base.batch) \o base.queue /\ Range(s) \subseteq Settled'
  BY <1>4, <1>5, <1>6
<1>8. <<rec[r].batch[k]>> = IF base.one = 0 THEN base.batch ELSE <<base.batch[base.one]>>
  BY <1>3, <1>4
<1>9. /\ base.one \in 0..Len(base.batch) /\ Len(base.batch) <= BatchSize /\ base.batch # << >>
      /\ base.proc \notin {"exited", "cut"}
      /\ \A i \in 1..Len(base.batch) : i < base.one => base.batch[i] \in Settled'
  BY <1>2, <1>3, <1>4
<1> QED BY <1>1, <1>4, <1>6, <1>7, <1>8, <1>9, CallingKeeps

\* send: what was answered.
LEMMA AnsweredStep ==
  ASSUME RecInv, StoreType, NEW r \in Recorders, Answered(r)
  PROVE  RecInv' /\ (Arrival \/ UNCHANGED storeVars)
<1> DEFINE call == calls[rec[r].call]
           b == rec[r].batch
           n == rec[r].one
<1>1. rec[r].pc = "call" /\ UNCHANGED <<heads, rows, verify, recording, accepted, late, failures>>
  BY DEF Answered
<1>2. /\ b \in Seq(Events) /\ n \in Nat /\ Range(b) \subseteq Events
  BY LoopFacts
<1>3. /\ rec[r].call \in Calls /\ b # << >> /\ n \in 0..Len(b)
      /\ call.events = (IF n = 0 THEN b ELSE <<b[n]>>)
      /\ \A i \in 1..Len(b) : i < n => b[i] \in Settled
  BY <1>1 DEF RecInv, WaitsInv, RowWaits
<1>4. call.pc = "ok" => Range(call.events) \subseteq Recorded
  BY <1>3 DEF RecInv, CoverInv, CoverRow
<1>5. failures' \in Nat /\ logged \subseteq Events
  BY <1>1 DEF RecInv, RecType
<1>6. Len(b) \in Nat /\ 1 \in 1..Len(b)
  BY <1>2, <1>3
<1>7. CASE call.pc = "failed" /\ Failed(r) /\ UNCHANGED calls
  BY <1>1, <1>5, <1>7, FailedStep DEF storeVars
<1>8. CASE call.pc = "ok" /\ n = 0 /\ rec' = [rec EXCEPT ![r] = Sent(r)] /\ UNCHANGED <<calls, logged>>
  <2>1. Range(b) \subseteq Settled'
    <3>1. Range(b) \subseteq Recorded
      BY <1>3, <1>4, <1>8
    <3>2. Recorded' = Recorded
      BY <1>1, RecordedStays
    <3> QED BY <3>1, <3>2 DEF Settled
  <2>2. RecInv'
    BY <1>1, <1>5, <1>8, <2>1, SentStep
  <2> QED BY <1>1, <1>8, <2>2 DEF storeVars
<1>9. CASE call.pc = "invalid" /\ n = 0 /\ SendOne(r, 1) /\ UNCHANGED logged
  <2>1. \A i \in 1..Len(b) : i < 1 => b[i] \in Settled'
    BY <1>6
  <2> QED BY <1>1, <1>5, <1>6, <1>9, <2>1, SendOneStep
<1>10. ASSUME call.pc \in {"ok", "invalid"}, n > 0,
              logged' = IF call.pc = "invalid" THEN logged \cup {b[n]} ELSE logged,
              \/ n < Len(b) /\ SendOne(r, n + 1)
              \/ n = Len(b) /\ rec' = [rec EXCEPT ![r] = Sent(r)] /\ UNCHANGED calls
       PROVE  RecInv' /\ (Arrival \/ UNCHANGED storeVars)
  <2>1. n \in 1..Len(b) /\ b[n] \in Events /\ n # 0
    BY <1>2, <1>3, <1>10
  <2>2. logged \subseteq logged' /\ logged' \subseteq Events
    BY <1>5, <1>10, <2>1
  <2>3. Settled \subseteq Settled' /\ Recorded' = Recorded
    BY <1>1, <2>2, SettledGrows
  <2>4. b[n] \in Settled'
    <3>1. CASE call.pc = "invalid"
      BY <1>10, <3>1 DEF Settled
    <3>2. CASE call.pc = "ok"
      <4> DEFINE e == b[n]
      <4>1. Range(<<e>>) \subseteq Recorded /\ e \in Events
        BY <1>3, <1>4, <2>1, <3>2
      <4> HIDE DEF e
      <4>2. e \in Recorded
        BY <4>1, RangeOfOne
      <4> QED BY <2>3, <4>2 DEF e, Settled
    <3> QED BY <1>10, <3>1, <3>2
  <2>5. \A i \in 1..Len(b) : i < n + 1 => b[i] \in Settled'
    <3> TAKE i \in 1..Len(b)
    <3>1. CASE i < n
      BY <1>3, <2>3, <3>1
    <3>2. CASE i = n
      BY <2>4, <3>2
    <3> QED BY <1>2, <3>1, <3>2
  <2>6. CASE n < Len(b) /\ SendOne(r, n + 1)
    <3>1. n + 1 \in 1..Len(b)
      BY <1>2, <1>6, <2>6
    <3> QED BY <1>1, <2>2, <2>5, <2>6, <3>1, SendOneStep
  <2>7. CASE n = Len(b) /\ rec' = [rec EXCEPT ![r] = Sent(r)] /\ UNCHANGED calls
    <3>1. Range(b) \subseteq Settled'
      <4>1. \A i \in 1..Len(b) : b[i] \in Settled'
        BY <1>2, <2>5, <2>7
      <4> QED BY <1>2, <4>1, RangeIs
    <3>2. RecInv'
      BY <1>1, <2>2, <2>7, <3>1, SentStep
    <3> QED BY <1>1, <2>7, <3>2 DEF storeVars
  <2> QED BY <1>10, <2>6, <2>7
<1> QED BY <1>7, <1>8, <1>9, <1>10 DEF Answered

-----------------------------------------------------------------------------
(* Record.                                                                   *)

\* An event that enters Record was nowhere before.
LEMMA RecordCheckStep ==
  ASSUME RecInv, NEW e \in Events, RecordCheck(e) PROVE RecInv' /\ UNCHANGED storeVars
<1> USE DEF RecInv
<1>1. /\ e \notin Entered /\ UNCHANGED <<heads, rows, calls, verify, rec, accepted, late, failures>>
      /\ recording \subseteq recording' /\ recording' \subseteq recording \cup {e}
      /\ logged \subseteq logged' /\ logged' \subseteq logged \cup {e}
  BY DEF RecordCheck, storeVars
<1>2. Settled \subseteq Settled' /\ Recorded' = Recorded
  BY <1>1, SettledGrows
<1>3. RecType'
  BY <1>1 DEF RecType
<1>4. WaitsInv'
  <2>1. ASSUME NEW q \in Recorders PROVE RowWaits(rec'[q], calls', Settled')
    <3>1. RowWaits(rec[q], calls, Settled)
      BY DEF WaitsInv
    <3> QED BY <1>1, <1>2, <3>1, RowWaitsMono
  <2> QED BY <1>1, <2>1 DEF WaitsInv, RowWaits
<1>5. CoverInv'
  <2>1. \A d \in Calls : \A x : Covered(d, x)' = Covered(d, x)
    BY <1>1 DEF Covered
  <2> QED BY <1>1, <1>2, <2>1 DEF CoverInv, CoverRow
<1>6. TakenInv'
  <2>1. ASSUME NEW r \in Recorders, NEW i \in 1..Len(accepted[r]) PROVE accepted[r][i] # e
    <3>1. accepted[r][i] \in Range(accepted[r])
      BY RangeIs DEF RecType
    <3> QED BY <1>1, <3>1 DEF Entered
  <2> QED BY <1>1, <1>2, <2>1 DEF TakenInv
<1>7. PlacesInv'
  <2>1. ASSUME NEW q \in Recorders PROVE RowPlaces(rec'[q], accepted'[q], Settled', late')
    <3>1. RowPlaces(rec[q], accepted[q], Settled, late)
      BY DEF PlacesInv
    <3> QED BY <1>1, <1>2, <3>1, RowPlacesMono
  <2> QED BY <2>1 DEF PlacesInv, RowPlaces
<1>8. OrderInv'
  BY <1>1, <1>2 DEF OrderInv
<1>9. TrailInv'
  BY <1>1, <1>2 DEF TrailInv, OvertakesNot
<1> QED BY <1>1, <1>3, <1>4, <1>5, <1>6, <1>7, <1>8, <1>9 DEF storeVars

\* The store has events.
LEMMA StoreEvents ==
  ASSUME StoreType
  PROVE  Recorded \subseteq Events /\ \A c \in Calls : Range(calls[c].events) \subseteq Events
<1>1. ASSUME NEW t \in Tenants PROVE EventIds(rows[t]) \subseteq Events
  <2>1. rows[t] \in Seq(EventRow)
    BY DEF StoreType
  <2>2. \A i \in DOMAIN rows[t] : rows[t][i] \in EventRow
    BY <2>1
  <2> QED BY <2>2 DEF EventIds, EventRow
<1>2. ASSUME NEW c \in Calls PROVE Range(calls[c].events) \subseteq Events
  <2>1. calls[c].events \in Seq(Events)
    BY DEF StoreType, CallRow
  <2> QED BY <2>1, RangeIs
<1> QED BY <1>1, <1>2 DEF Recorded

\* An event in Record is nowhere else yet.
LEMMA RecordingIsNew ==
  ASSUME RecInv, NEW e \in Events, e \in recording
  PROVE  /\ \A r \in Recorders : e \notin Range(accepted[r])
         /\ e \notin Recorded /\ \A c \in Calls : e \notin Range(calls[c].events)
<1>1. \A r \in Recorders : e \notin Range(accepted[r])
  <2> TAKE r \in Recorders
  <2>1. accepted[r] \in Seq(Events)
    BY DEF RecInv, RecType
  <2>2. \A i \in 1..Len(accepted[r]) : accepted[r][i] # e
    BY DEF RecInv, TakenInv
  <2> QED BY <2>1, <2>2, RangeIs
<1>2. RecorderOf[e] \in Recorders
  BY RecorderAssumption
<1> QED BY <1>1, <1>2 DEF RecInv, TakenInv

\* The queue is full: the event is logged.
LEMMA RecordDrops ==
  ASSUME RecInv, NEW e \in Events, recording' = recording \ {e}, logged' = logged \cup {e},
         UNCHANGED <<heads, rows, calls, verify, rec, accepted, late, failures>>
  PROVE  RecInv'
<1> USE DEF RecInv
<1>1. Settled \subseteq Settled' /\ Recorded' = Recorded
  BY SettledGrows
<1>2. RecType'
  BY DEF RecType
<1>3. WaitsInv'
  <2>1. ASSUME NEW q \in Recorders PROVE RowWaits(rec'[q], calls', Settled')
    <3>1. RowWaits(rec[q], calls, Settled)
      BY DEF WaitsInv
    <3> QED BY <1>1, <3>1, RowWaitsMono
  <2> QED BY <2>1 DEF WaitsInv, RowWaits
<1>4. CoverInv'
  <2>1. \A d \in Calls : \A x : Covered(d, x)' = Covered(d, x)
    BY DEF Covered
  <2> QED BY <1>1, <2>1 DEF CoverInv, CoverRow
<1>5. TakenInv'
  BY <1>1 DEF TakenInv
<1>6. PlacesInv'
  <2>1. ASSUME NEW q \in Recorders PROVE RowPlaces(rec'[q], accepted'[q], Settled', late')
    <3>1. RowPlaces(rec[q], accepted[q], Settled, late)
      BY DEF PlacesInv
    <3> QED BY <1>1, <3>1, RowPlacesMono
  <2> QED BY <2>1 DEF PlacesInv, RowPlaces
<1>7. OrderInv'
  BY <1>1 DEF OrderInv
<1>8. TrailInv'
  BY <1>1 DEF TrailInv, OvertakesNot
<1> QED BY <1>2, <1>3, <1>4, <1>5, <1>6, <1>7, <1>8

\* There is room: the event goes behind all that was taken.
LEMMA RecordTakes ==
  ASSUME RecInv, StoreType, NEW e \in Events, NEW r \in Recorders, r = RecorderOf[e], e \in recording, Alive(r),
         recording' = recording \ {e}, rec' = [rec EXCEPT ![r].queue = Append(@, e)],
         accepted' = [accepted EXCEPT ![r] = Append(@, e)],
         late' = IF rec[r].pc = "done" THEN late \cup {e} ELSE late,
         UNCHANGED <<heads, rows, calls, verify, logged, failures>>
  PROVE  RecInv'
<1> USE DEF RecInv
<1> DEFINE b == rec[r].batch
           q == rec[r].queue
           a == accepted[r]
           qq == Append(q, e)
           aa == Append(a, e)
           row == [rec[r] EXCEPT !.queue = qq]
<1>1. rec[r] \in RecRow /\ b \in Seq(Events) /\ q \in Seq(Events) /\ a \in Seq(Events)
      /\ rec[r].proc # "cut" /\ rec[r].proc # "exited"
  BY LoopFacts DEF Alive
<1>2. qq \in Seq(Events)
  BY <1>1, AppendFacts
<1>3. /\ aa \in Seq(Events) /\ Len(aa) = Len(a) + 1 /\ aa[Len(a) + 1] = e
      /\ \A i \in 1..Len(a) : aa[i] = a[i]
  <2> HIDE DEF a
  <2> QED BY <1>1, AppendFacts
<1>4. Range(aa) = Range(a) \cup {e}
  <2> HIDE DEF a
  <2> QED BY <1>1, RangeOfAppend
<1>5. rec' = [rec EXCEPT ![r] = row] /\ accepted' = [accepted EXCEPT ![r] = aa]
  OBVIOUS
<1> HIDE DEF qq, aa
<1>6. row \in RecRow
  BY <1>1, <1>2 DEF RecRow
<1>7. /\ row.proc = rec[r].proc /\ row.pc = rec[r].pc /\ row.batch = b /\ row.queue = qq
      /\ row.one = rec[r].one /\ row.call = rec[r].call
  BY <1>1, <1>6 DEF RecRow, b
<1> HIDE DEF row
<1>8. /\ rec'[r] = row /\ (\A p \in Recorders : p # r => rec'[p] = rec[p]) /\ rec' \in [Recorders -> RecRow]
      /\ accepted'[r] = aa /\ (\A p \in Recorders : p # r => accepted'[p] = accepted[p])
      /\ accepted' \in [Recorders -> Seq(Events)]
  BY <1>3, <1>5, <1>6 DEF RecType
<1>9. Settled' = Settled /\ Recorded' = Recorded
  BY RecordedStays DEF Settled
<1>10. RecType'
  BY <1>8 DEF RecType
<1>11. WaitsInv'
  <2>1. ASSUME NEW p \in Recorders PROVE RowWaits(rec'[p], calls', Settled')
    <3>1. RowWaits(rec[p], calls, Settled)
      BY DEF WaitsInv
    <3>2. CASE p = r
      BY <1>7, <1>8, <1>9, <3>1, <3>2 DEF RowWaits, b
    <3>3. CASE p # r
      BY <1>8, <1>9, <3>1, <3>3
    <3> QED BY <3>2, <3>3
  <2>2. \A p \in Recorders : rec'[p].pc = rec[p].pc /\ rec'[p].call = rec[p].call
    BY <1>7, <1>8
  <2>3. \A p, x \in Recorders : rec'[p].pc = "call" /\ x # p => rec'[x].call # rec'[p].call
    BY <2>2 DEF WaitsInv
  <2> QED BY <2>1, <2>3 DEF WaitsInv, RowWaits
<1>12. CoverInv'
  <2>1. \A d \in Calls : \A x : Covered(d, x)' = Covered(d, x)
    BY DEF Covered
  <2> QED BY <1>9, <2>1 DEF CoverInv, CoverRow
<1>13. /\ \A p \in Recorders : e \notin Range(accepted[p])
       /\ e \notin Recorded /\ \A c \in Calls : e \notin Range(calls[c].events)
  BY RecordingIsNew
<1>14. Len(a) \in Nat /\ \A i \in 1..Len(aa) : i \in 1..Len(a) \/ i = Len(a) + 1
  BY <1>1, <1>3
<1>15. \A i \in 1..Len(a) : a[i] # e
  BY <1>1, <1>13, RangeIs
<1>16. TakenInv'
  <2>1. ASSUME NEW p \in Recorders, NEW i \in 1..Len(accepted'[p]), NEW j \in 1..Len(accepted'[p]),
               accepted'[p][i] = accepted'[p][j]
        PROVE  i = j
    <3>1. CASE p = r
      <4>1. \A m, n \in 1..Len(a) : a[m] = a[n] => m = n
        BY DEF TakenInv
      <4> HIDE DEF a
      <4> QED BY <1>3, <1>8, <1>14, <1>15, <2>1, <3>1, <4>1
    <3>2. CASE p # r
      BY <1>8, <2>1, <3>2 DEF TakenInv
    <3> QED BY <3>1, <3>2
  <2>2. ASSUME NEW p \in Recorders, NEW i \in 1..Len(accepted'[p])
        PROVE  RecorderOf[accepted'[p][i]] = p /\ accepted'[p][i] \notin recording'
    <3>1. CASE p = r
      <4>1. \A m \in 1..Len(a) : RecorderOf[a[m]] = r /\ a[m] \notin recording
        BY DEF TakenInv
      <4> HIDE DEF a
      <4> QED BY <1>3, <1>8, <1>14, <3>1, <4>1
    <3>2. CASE p # r
      BY <1>8, <3>2 DEF TakenInv
    <3> QED BY <3>1, <3>2
  <2>3. \A p \in Recorders : Range(accepted[p]) \subseteq Range(accepted'[p])
    BY <1>4, <1>8
  <2>4. Recorded \subseteq Events /\ \A c \in Calls : Range(calls[c].events) \subseteq Events
    BY StoreEvents
  <2>5. \A x \in Recorded : x \in Range(accepted'[RecorderOf[x]])
    BY <2>3, <2>4, RecorderAssumption DEF TakenInv
  <2>6. \A c \in Calls : \A x \in Range(calls[c].events) : x \in Range(accepted'[RecorderOf[x]])
    BY <2>3, <2>4, RecorderAssumption DEF TakenInv
  <2> QED BY <1>9, <2>1, <2>2, <2>5, <2>6 DEF TakenInv
<1>17. PlacesInv'
  <2>1. RowPlaces(row, aa, Settled', late')
    <3>1. RowPlaces(rec[r], a, Settled, late)
      BY DEF PlacesInv
    <3>2. CASE rec[r].pc # "done"
      <4>1. PICK s \in Seq(Events) : a = (s \o b) \o q /\ Range(s) \subseteq Settled
        BY <3>2, LoopFacts
      <4>2. aa = (s \o b) \o qq
        <5> DEFINE sb == s \o b
        <5>1. sb \in Seq(Events)
          BY <1>1
        <5> HIDE DEF sb, q, a
        <5>2. sb \o Append(q, e) = Append(sb \o q, e)
          BY <1>1, <5>1, ConcatAppend, SMTT(30)
        <5>3. a = sb \o q
          BY <4>1 DEF sb
        <5> QED BY <5>2, <5>3 DEF sb, aa, qq
      <4>3. \E z \in Seq(Events) : aa = (z \o row.batch) \o row.queue /\ Range(z) \subseteq Settled'
        BY <1>7, <1>9, <4>1, <4>2
      <4>4. Len(row.batch) <= BatchSize
        BY <1>7, LoopFacts
      <4> QED BY <1>1, <1>7, <3>2, <4>3, <4>4 DEF RowPlaces
    <3>3. CASE rec[r].pc = "done"
      <4>1. Range(aa) \subseteq Settled' \cup late'
        BY <1>1, <1>4, <1>9, <3>1, <3>3 DEF RowPlaces
      <4>2. Len(row.batch) <= BatchSize
        BY <1>7, LoopFacts
      <4> QED BY <1>1, <1>7, <3>3, <4>1, <4>2 DEF RowPlaces
    <3> QED BY <3>2, <3>3
  <2>2. ASSUME NEW p \in Recorders PROVE RowPlaces(rec'[p], accepted'[p], Settled', late')
    <3>1. CASE p = r
      BY <1>8, <2>1, <3>1
    <3>2. CASE p # r
      <4>1. RowPlaces(rec[p], accepted[p], Settled, late)
        BY DEF PlacesInv
      <4>2. RowPlaces(rec[p], accepted[p], Settled', late')
        BY <1>9, <4>1, RowPlacesMono
      <4> QED BY <1>8, <3>2, <4>2
    <3> QED BY <3>1, <3>2
  <2> QED BY <2>2 DEF PlacesInv, RowPlaces
<1>18. OrderInv'
  <2>1. ASSUME NEW c \in Calls, calls[c].pc = "append", NEW p \in Recorders,
               NEW i \in 1..Len(accepted'[p]), NEW j \in 1..Len(accepted'[p]),
               i < j, accepted'[p][j] \in Range(calls[c].events)
        PROVE  accepted'[p][i] \in Settled' \/ accepted'[p][i] \in Range(calls[c].events)
    <3>1. CASE p = r
      <4>1. j \in 1..Len(a)
        BY <1>3, <1>8, <1>13, <1>14, <2>1, <3>1
      <4>2. i \in 1..Len(a)
        BY <1>8, <1>14, <2>1, <3>1, <4>1
      <4>3. a[j] \in Range(calls[c].events) => a[i] \in Settled \/ a[i] \in Range(calls[c].events)
        BY <2>1, <4>1, <4>2 DEF OrderInv
      <4> QED BY <1>3, <1>8, <1>9, <2>1, <3>1, <4>1, <4>2, <4>3
    <3>2. CASE p # r
      BY <1>8, <1>9, <2>1, <3>2 DEF OrderInv
    <3> QED BY <3>1, <3>2
  <2> QED BY <2>1 DEF OrderInv
<1>19. TrailInv'
  <2>1. ASSUME NEW p \in Recorders,
               NEW i \in 1..Len(accepted'[p]), NEW j \in 1..Len(accepted'[p]),
               i < j, accepted'[p][j] \in Recorded
        PROVE  accepted'[p][i] \in Settled'
    <3>1. CASE p = r
      <4>1. j \in 1..Len(a)
        BY <1>3, <1>8, <1>13, <1>14, <2>1, <3>1
      <4>2. i \in 1..Len(a)
        BY <1>8, <1>14, <2>1, <3>1, <4>1
      <4>3. a[j] \in Recorded => a[i] \in Settled
        BY <2>1, <4>1, <4>2 DEF TrailInv, OvertakesNot
      <4> QED BY <1>3, <1>8, <1>9, <2>1, <3>1, <4>1, <4>2, <4>3
    <3>2. CASE p # r
      BY <1>8, <1>9, <2>1, <3>2 DEF TrailInv, OvertakesNot
    <3> QED BY <3>1, <3>2
  <2> QED BY <1>9, <2>1 DEF TrailInv, OvertakesNot
<1> QED BY <1>10, <1>11, <1>12, <1>16, <1>17, <1>18, <1>19

\* The queue takes the event or it is logged.
LEMMA RecordQueueStep ==
  ASSUME RecInv, StoreType, NEW e \in Events, RecordQueue(e) PROVE RecInv' /\ UNCHANGED storeVars
<1> DEFINE r == RecorderOf[e]
<1>1. r \in Recorders
  BY RecorderAssumption
<1>2. UNCHANGED <<heads, rows, calls, verify, failures>> /\ recording' = recording \ {e}
      /\ e \in recording /\ Alive(r)
  BY DEF RecordQueue, storeVars
<1>3. CASE Len(rec[r].queue) < QueueSize
  <2>1. /\ rec' = [rec EXCEPT ![r].queue = Append(@, e)]
        /\ accepted' = [accepted EXCEPT ![r] = Append(@, e)]
        /\ late' = IF rec[r].pc = "done" THEN late \cup {e} ELSE late
        /\ UNCHANGED logged
    BY <1>3 DEF RecordQueue
  <2> HIDE DEF r
  <2>2. r = RecorderOf[e]
    BY DEF r
  <2> QED BY <1>1, <1>2, <2>1, <2>2, RecordTakes DEF storeVars
<1>4. CASE ~(Len(rec[r].queue) < QueueSize)
  <2>1. logged' = logged \cup {e} /\ UNCHANGED <<rec, accepted, late>>
    BY <1>4 DEF RecordQueue
  <2> QED BY <1>2, <2>1, RecordDrops DEF storeVars
<1> QED BY <1>3, <1>4

-----------------------------------------------------------------------------
(* Steps of the store, as the recorders see them.                            *)

\* An event of a tenant is in the trail.
LEMMA RecordedIs ==
  ASSUME NEW t \in Tenants, NEW e \in EventIds(rows[t]) PROVE e \in Recorded
  BY DEF Recorded

\* A transaction goes on, or ends; what it writes are events of its batch, and
\* it writes all of them or none.
LEMMA TransactionKeeps ==
  ASSUME RecInv, StoreType, NEW c \in Calls, UNCHANGED <<rec, recording, accepted, late, logged>>,
         failures' \in Nat, calls[c].pc = "append", calls'[c].events = calls[c].events,
         \A d \in Calls : d # c => calls'[d] = calls[d],
         \A t \in Tenants : EventIds(rows[t]) \subseteq EventIds(rows'[t]),
         \A t \in Tenants : EventIds(rows'[t]) \subseteq EventIds(rows[t]) \cup Range(calls[c].events),
         rows' = rows \/ Range(calls[c].events) \subseteq Recorded',
         CoverRow(c)'
  PROVE  RecInv'
<1> USE DEF RecInv
<1>1. Recorded \subseteq Recorded' /\ Recorded' \subseteq Recorded \cup Range(calls[c].events)
  BY DEF Recorded
<1>2. Settled \subseteq Settled'
  BY <1>1 DEF Settled
<1>3. Recorded' = Recorded \/ Range(calls[c].events) \subseteq Recorded'
  BY RecordedStays
<1>4. RecType'
  BY DEF RecType
<1>5. \A d \in Calls : calls'[d].events = calls[d].events
  OBVIOUS
<1>6. WaitsInv'
  <2>1. ASSUME NEW q \in Recorders PROVE RowWaits(rec'[q], calls', Settled')
    <3>1. RowWaits(rec[q], calls, Settled)
      BY DEF WaitsInv
    <3>2. rec[q].pc = "call" => calls'[rec[q].call].events = calls[rec[q].call].events
      BY <1>5, <3>1 DEF RowWaits
    <3> QED BY <1>2, <3>1, <3>2, RowWaitsMono
  <2> QED BY <2>1 DEF WaitsInv, RowWaits
<1>7. CoverInv'
  <2>1. ASSUME NEW d \in Calls, d # c PROVE CoverRow(d)'
    <3>1. CoverRow(d) /\ calls'[d] = calls[d]
      BY <2>1 DEF CoverInv
    <3>2. \A e : TenantOf[e] \in Tenants /\ Covered(d, e) => Covered(d, e)'
      BY <3>1 DEF Covered
    <3>3. \A e \in Range(calls[d].events) : Covered(d, e) => Covered(d, e)'
      BY <3>2, StoreEvents, TenantAssumption
    <3>4. calls[d].pc = "append" =>
            \E s \in Seq(Events) : /\ calls[d].events = s \o calls[d].left
                                  /\ \A e \in Range(s) : TenantOf[e] = calls[d].chain => Covered(d, e)'
      <4> HAVE calls[d].pc = "append"
      <4>1. PICK s \in Seq(Events) : /\ calls[d].events = s \o calls[d].left
                                     /\ \A e \in Range(s) : TenantOf[e] = calls[d].chain => Covered(d, e)
        BY <3>1 DEF CoverRow
      <4>2. Range(s) \subseteq Events
        BY RangeIs
      <4>3. \A e \in Range(s) : TenantOf[e] = calls[d].chain => Covered(d, e)'
        BY <3>2, <4>1, <4>2, TenantAssumption
      <4> QED BY <4>1, <4>3
    <3> QED BY <1>1, <3>1, <3>3, <3>4 DEF CoverRow
  <2> QED BY <2>1 DEF CoverInv
<1>8. TakenInv'
  <2>1. \A e \in Recorded' : e \in Range(accepted[RecorderOf[e]])
    BY <1>1 DEF TakenInv
  <2> QED BY <1>5, <2>1 DEF TakenInv
<1>9. PlacesInv'
  <2>1. ASSUME NEW q \in Recorders PROVE RowPlaces(rec'[q], accepted'[q], Settled', late')
    <3>1. RowPlaces(rec[q], accepted[q], Settled, late)
      BY DEF PlacesInv
    <3> QED BY <1>2, <3>1, RowPlacesMono
  <2> QED BY <2>1 DEF PlacesInv, RowPlaces
<1>10. OrderInv'
  <2>1. \A d \in Calls : calls'[d].pc = "append" => calls[d].pc = "append"
    OBVIOUS
  <2> QED BY <1>2, <1>5, <2>1 DEF OrderInv
<1>11. TrailInv'
  <2>1. ASSUME NEW p \in Recorders, NEW i \in 1..Len(accepted[p]), NEW j \in 1..Len(accepted[p]),
               i < j, accepted[p][j] \in Recorded'
        PROVE  accepted[p][i] \in Settled'
    <3>1. CASE accepted[p][j] \in Recorded
      BY <1>2, <2>1, <3>1 DEF TrailInv, OvertakesNot
    <3>2. CASE accepted[p][j] \notin Recorded
      <4>1. accepted[p][j] \in Range(calls[c].events) /\ Range(calls[c].events) \subseteq Recorded'
        BY <1>1, <1>3, <2>1, <3>2
      <4>2. accepted[p][i] \in Settled \/ accepted[p][i] \in Range(calls[c].events)
        BY <2>1, <4>1 DEF OrderInv
      <4> QED BY <1>2, <4>1, <4>2 DEF Settled
    <3> QED BY <3>1, <3>2
  <2> QED BY <2>1 DEF TrailInv, OvertakesNot
<1> QED BY <1>4, <1>6, <1>7, <1>8, <1>9, <1>10, <1>11

\* The events of the rows, with one more row.
LEMMA EventIdsOfAppend ==
  ASSUME NEW s \in Seq(EventRow), NEW row \in EventRow
  PROVE  EventIds(Append(s, row)) = EventIds(s) \cup {row.event}
<1>1. /\ Append(s, row) \in Seq(EventRow) /\ Len(Append(s, row)) = Len(s) + 1
      /\ \A i \in 1..Len(s) : Append(s, row)[i] = s[i]
      /\ Append(s, row)[Len(s) + 1] = row
  BY AppendFacts
<1> DEFINE u == Append(s, row)
<1>2. DOMAIN s = 1..Len(s) /\ Len(s) \in Nat /\ DOMAIN u = 1..Len(s) + 1
  BY <1>1
<1>3. u[Len(s) + 1] = row /\ \A i \in 1..Len(s) : u[i] = s[i]
  BY <1>1
<1> HIDE DEF u
<1>4. EventIds(u) \subseteq EventIds(s) \cup {row.event}
  BY <1>2, <1>3 DEF EventIds
<1>5. EventIds(s) \subseteq EventIds(u)
  <2>1. \A i \in DOMAIN s : i \in DOMAIN u /\ u[i] = s[i]
    BY <1>2, <1>3
  <2> QED BY <2>1 DEF EventIds
<1>6. row.event \in EventIds(u)
  <2>1. Len(s) + 1 \in DOMAIN u
    BY <1>2
  <2> QED BY <1>3, <2>1 DEF EventIds
<1> QED BY <1>4, <1>5, <1>6 DEF u

\* The events of two runs of rows.
LEMMA EventIdsOfConcat ==
  ASSUME NEW s \in Seq(EventRow), NEW u \in Seq(EventRow)
  PROVE  EventIds(s \o u) = EventIds(s) \cup EventIds(u)
<1> DEFINE v == s \o u
<1>1. /\ v \in Seq(EventRow) /\ Len(v) = Len(s) + Len(u)
      /\ \A i \in 1..Len(s) : v[i] = s[i]
      /\ \A i \in 1..Len(u) : v[Len(s) + i] = u[i]
      /\ \A i \in 1..Len(v) : i \in 1..Len(s) \/ i - Len(s) \in 1..Len(u)
  BY ConcatFacts
<1> HIDE DEF v
<1>2. /\ DOMAIN s = 1..Len(s) /\ DOMAIN u = 1..Len(u) /\ DOMAIN v = 1..Len(v)
      /\ Len(s) \in Nat /\ Len(u) \in Nat
  BY <1>1
<1>3. EventIds(s) \subseteq EventIds(v)
  <2>1. \A i \in DOMAIN s : i \in DOMAIN v /\ v[i] = s[i]
    BY <1>1, <1>2
  <2> QED BY <2>1 DEF EventIds
<1>4. EventIds(u) \subseteq EventIds(v)
  <2>1. \A i \in DOMAIN u : Len(s) + i \in DOMAIN v /\ v[Len(s) + i] = u[i]
    BY <1>1, <1>2
  <2> QED BY <2>1 DEF EventIds
<1>5. EventIds(v) \subseteq EventIds(s) \cup EventIds(u)
  <2> SUFFICES ASSUME NEW i \in DOMAIN v PROVE v[i].event \in EventIds(s) \cup EventIds(u)
    BY DEF EventIds
  <2>1. CASE i \in 1..Len(s)
    BY <1>1, <1>2, <2>1 DEF EventIds
  <2>2. CASE i - Len(s) \in 1..Len(u)
    <3> DEFINE k == i - Len(s)
    <3>1. k \in DOMAIN u /\ i = Len(s) + k
      BY <1>2, <2>2
    <3> HIDE DEF k
    <3>2. v[i] = u[k]
      BY <1>1, <1>2, <3>1
    <3> QED BY <3>1, <3>2 DEF EventIds
  <2> QED BY <1>1, <1>2, <2>1, <2>2
<1> QED BY <1>3, <1>4, <1>5 DEF v

\* Every chain of a batch is done when the next one is locked.
LEMMA RecAppendTenant ==
  ASSUME RecInv, StoreInv, NEW c \in Calls, AppendTenant(c), UNCHANGED recVars PROVE RecInv'
<1> DEFINE t == NextChain(c)
<1>1. /\ t \in calls[c].todo /\ t \in Tenants /\ ~Locked(t)
      /\ \A d \in Calls : d # c => calls'[d] = calls[d]
      /\ calls'[c].pc = "append" /\ calls'[c].events = calls[c].events
      /\ calls'[c].todo = calls[c].todo \ {t} /\ calls'[c].locked = calls[c].locked \cup {t}
      /\ calls'[c].chain = t /\ calls'[c].left = calls[c].events /\ calls'[c].new = calls[c].new
  BY AppendTenantWrites DEF StoreInv
<1>2. calls[c].pc = "append" /\ calls[c].left = << >> /\ rows' = rows
  BY DEF AppendTenant
<1> HIDE DEF t
<1>3. t \notin calls[c].locked
  BY <1>1 DEF Locked
<1>4. CoverRow(c)
  BY DEF RecInv, CoverInv
<1>5. calls[c].events \in Seq(Events)
  BY DEF StoreInv, StoreType, CallRow
<1>6. \A e \in Range(calls[c].events) : TenantOf[e] \in calls[c].locked => Covered(c, e)
  <2>1. PICK s \in Seq(Events) : /\ calls[c].events = s \o calls[c].left
                                 /\ \A e \in Range(s) : TenantOf[e] = calls[c].chain => Covered(c, e)
    BY <1>2, <1>4 DEF CoverRow
  <2>2. calls[c].events = s
    BY <1>2, <2>1, ConcatEmptySeq
  <2> QED BY <1>2, <1>4, <2>1, <2>2 DEF CoverRow
<1>7. \A e : Covered(c, e)' = Covered(c, e)
  BY <1>1, <1>2 DEF Covered
<1>8. CoverRow(c)'
  <2> DEFINE none == << >>
  <2>1. none \in Seq(Events) /\ Range(none) = {}
    BY RangeOfEmpty
  <2>2. calls'[c].events = none \o calls'[c].left
    BY <1>1, <1>5, ConcatEmptySeq
  <2> HIDE DEF none
  <2>3. \E s \in Seq(Events) : /\ calls'[c].events = s \o calls'[c].left
                              /\ \A e \in Range(s) : TenantOf[e] = calls'[c].chain => Covered(c, e)'
    BY <2>1, <2>2
  <2>4. \A u \in Tenants : EventIds(calls'[c].new[u]) \subseteq Range(calls'[c].events)
    BY <1>1, <1>4 DEF CoverRow
  <2>5. \A e \in Range(calls'[c].events) : TenantOf[e] \in calls'[c].todo \cup calls'[c].locked
    BY <1>1, <1>2, <1>4 DEF CoverRow
  <2>6. \A e \in Range(calls'[c].events) :
          TenantOf[e] \in calls'[c].locked /\ TenantOf[e] # calls'[c].chain => Covered(c, e)'
    BY <1>1, <1>6, <1>7
  <2> QED BY <1>1, <2>3, <2>4, <2>5, <2>6 DEF CoverRow
<1>9. failures' \in Nat /\ UNCHANGED <<rec, recording, accepted, late, logged>>
  BY DEF recVars, RecInv, RecType
<1> QED BY <1>1, <1>2, <1>8, <1>9, TransactionKeeps DEF StoreInv

\* An event of the batch is looked at for the chain at hand.
LEMMA RecAppendEvent ==
  ASSUME RecInv, StoreInv, NEW c \in Calls, AppendEvent(c), UNCHANGED recVars PROVE RecInv'
<1>0. PICK t, left, e, new, row :
      /\ t = calls[c].chain /\ left = calls[c].left /\ e = Head(left) /\ new = calls[c].new[t]
      /\ row = Link(HeadAfter(heads[t], new), e)
  OBVIOUS
<1>1. /\ t \in Tenants /\ e \in Events /\ new \in Seq(EventRow) /\ row \in EventRow /\ row.event = e
      /\ \A d \in Calls : d # c => calls'[d] = calls[d]
      /\ calls'[c].pc = "append" /\ calls'[c].events = calls[c].events
      /\ calls'[c].todo = calls[c].todo /\ calls'[c].locked = calls[c].locked
      /\ calls'[c].chain = t /\ calls'[c].left = Tail(left)
      /\ \A u \in Tenants : u # t => calls'[c].new[u] = calls[c].new[u]
      /\ \/ TenantOf[e] = t /\ Fresh(t, new, e) /\ calls'[c].new[t] = Append(new, row)
         \/ ~(TenantOf[e] = t /\ Fresh(t, new, e)) /\ calls'[c].new[t] = new
  BY <1>0, AppendEventWrites
<1>2. calls[c].pc = "append" /\ left # << >> /\ rows' = rows
  BY <1>0 DEF AppendEvent
<1>3. CoverRow(c)
  BY DEF RecInv, CoverInv
<1>4. calls[c].events \in Seq(Events) /\ left \in Seq(Events)
  BY <1>0 DEF StoreInv, StoreType, CallRow
<1>5. PICK s \in Seq(Events) : /\ calls[c].events = s \o left
                               /\ \A x \in Range(s) : TenantOf[x] = t => Covered(c, x)
  BY <1>0, <1>2, <1>3 DEF CoverRow
<1>6. EventIds(Append(new, row)) = EventIds(new) \cup {e}
  <2>1. new \in Seq(EventRow) /\ row \in EventRow /\ row.event = e
    BY <1>1
  <2> QED BY <2>1, EventIdsOfAppend
<1>7. \A u \in Tenants : EventIds(calls[c].new[u]) \subseteq EventIds(calls'[c].new[u])
  BY <1>0, <1>1, <1>6
<1>8. \A x : TenantOf[x] \in Tenants /\ Covered(c, x) => Covered(c, x)'
  BY <1>2, <1>7 DEF Covered
<1>9. TenantOf[e] = t => Covered(c, e)'
  BY <1>0, <1>1, <1>2, <1>6 DEF Covered, Fresh
<1>10. /\ Append(s, e) \in Seq(Events) /\ Append(s, e) \o Tail(left) = calls[c].events
       /\ Range(Append(s, e)) = Range(s) \cup {e}
  <2>1. Append(s, e) \o Tail(left) = s \o left
    BY <1>0, <1>2, <1>4, ConcatHeadTail
  <2>2. e \in Events
    BY <1>1
  <2>3. Append(s, e) \in Seq(Events) /\ Range(Append(s, e)) = Range(s) \cup {e}
    BY <2>2, RangeOfAppend
  <2> QED BY <1>5, <2>1, <2>3
<1>11. e \in Range(calls[c].events)
  <2>1. Tail(left) \in Seq(Events)
    BY <1>2, <1>4, HeadTailProperties
  <2>2. Range(Append(s, e) \o Tail(left)) = Range(Append(s, e)) \cup Range(Tail(left))
    <3> DEFINE a == Append(s, e)
               z == Tail(left)
    <3>1. a \in Seq(Events) /\ z \in Seq(Events)
      BY <1>10, <2>1
    <3> HIDE DEF a, z
    <3>2. Range(a \o z) = Range(a) \cup Range(z)
      BY <3>1, RangeConcatenation
    <3> QED BY <3>2 DEF a, z
  <2> QED BY <1>10, <2>2
<1>12. CoverRow(c)'
  <2>1. \A u \in Tenants : EventIds(calls'[c].new[u]) \subseteq Range(calls'[c].events)
    <3>1. \A u \in Tenants : EventIds(calls[c].new[u]) \subseteq Range(calls[c].events)
      BY <1>3 DEF CoverRow
    <3>2. EventIds(calls'[c].new[t]) \subseteq EventIds(calls[c].new[t]) \cup {e}
      BY <1>0, <1>1, <1>6
    <3> QED BY <1>1, <1>11, <3>1, <3>2
  <2>2. \A x \in Range(calls'[c].events) : TenantOf[x] \in calls'[c].todo \cup calls'[c].locked
    BY <1>1, <1>2, <1>3 DEF CoverRow
  <2>3. \A x \in Range(calls'[c].events) :
          TenantOf[x] \in calls'[c].locked /\ TenantOf[x] # calls'[c].chain => Covered(c, x)'
    <3>1. \A x \in Range(calls[c].events) : TenantOf[x] \in Tenants
      BY <1>4, RangeIs, TenantAssumption
    <3>2. \A x \in Range(calls[c].events) : TenantOf[x] \in calls[c].locked /\ TenantOf[x] # t => Covered(c, x)
      BY <1>0, <1>2, <1>3 DEF CoverRow
    <3> QED BY <1>1, <1>8, <3>1, <3>2
  <2>4. \A x \in Range(Append(s, e)) : TenantOf[x] = t => Covered(c, x)'
    BY <1>1, <1>5, <1>8, <1>9, <1>10
  <2>5. \E z \in Seq(Events) : /\ calls'[c].events = z \o calls'[c].left
                              /\ \A x \in Range(z) : TenantOf[x] = calls'[c].chain => Covered(c, x)'
    BY <1>1, <1>10, <2>4
  <2> QED BY <1>1, <2>1, <2>2, <2>3, <2>5 DEF CoverRow
<1>13. failures' \in Nat /\ UNCHANGED <<rec, recording, accepted, late, logged>>
  BY DEF recVars, RecInv, RecType
<1> QED BY <1>1, <1>2, <1>12, <1>13, TransactionKeeps DEF StoreInv

\* What an ended call is.
LEMMA EndedCall ==
  ASSUME StoreType, NEW c \in Calls, NEW how \in Answers,
         calls' = [calls EXCEPT ![c] = [NoCall EXCEPT !.pc = how, !.events = calls[c].events]]
  PROVE  /\ calls'[c].pc = how /\ calls'[c].events = calls[c].events
         /\ \A t \in Tenants : EventIds(calls'[c].new[t]) = {}
         /\ \A d \in Calls : d # c => calls'[d] = calls[d]
<1> DEFINE row == [NoCall EXCEPT !.pc = how, !.events = calls[c].events]
<1>1. calls[c].events \in Seq(Events)
  BY DEF StoreType, CallRow
<1>2. row \in CallRow /\ Idle(row) /\ row.pc = how /\ row.events = calls[c].events
  BY <1>1, NoCallType DEF CallRow, Idle, Answers
<1> HIDE DEF row
<1>3. OneCall(c, row)
  BY <1>2, CallUpdate DEF row
<1>4. \A t \in Tenants : EventIds(calls'[c].new[t]) = {}
  <2>1. \A t \in Tenants : calls'[c].new[t] = << >>
    BY <1>2, <1>3 DEF OneCall, Idle
  <2>2. EventIds(<< >>) = {}
    BY DEF EventIds
  <2> QED BY <2>1, <2>2
<1> QED BY <1>2, <1>3, <1>4 DEF OneCall

\* The whole batch is in the table at once.
LEMMA RecCommit ==
  ASSUME RecInv, StoreInv, NEW c \in Calls, CommitAppend(c), UNCHANGED recVars PROVE RecInv'
<1>1. /\ calls[c].pc = "append" /\ calls[c].left = << >> /\ calls[c].todo = {}
      /\ rows' = [t \in Tenants |-> rows[t] \o calls[c].new[t]]
      /\ calls' = [calls EXCEPT ![c] = [NoCall EXCEPT !.pc = "ok", !.events = calls[c].events]]
  BY DEF CommitAppend
<1>2. /\ calls'[c].pc = "ok" /\ calls'[c].events = calls[c].events
      /\ \A t \in Tenants : EventIds(calls'[c].new[t]) = {}
      /\ \A d \in Calls : d # c => calls'[d] = calls[d]
  BY <1>1, EndedCall DEF StoreInv, Answers
<1>3. \A t \in Tenants : EventIds(rows'[t]) = EventIds(rows[t]) \cup EventIds(calls[c].new[t])
  <2> TAKE t \in Tenants
  <2>1. rows[t] \in Seq(EventRow) /\ calls[c].new[t] \in Seq(EventRow)
    BY DEF StoreInv, StoreType, CallRow
  <2>2. rows'[t] = rows[t] \o calls[c].new[t]
    BY <1>1
  <2> QED BY <2>1, <2>2, EventIdsOfConcat
<1>4. CoverRow(c)
  BY DEF RecInv, CoverInv
<1>5. \A e \in Range(calls[c].events) : TenantOf[e] \in Tenants
  BY StoreEvents, TenantAssumption DEF StoreInv
<1>6. \A e \in Range(calls[c].events) : Covered(c, e)
  <2>1. PICK s \in Seq(Events) : /\ calls[c].events = s \o calls[c].left
                                 /\ \A e \in Range(s) : TenantOf[e] = calls[c].chain => Covered(c, e)
    BY <1>1, <1>4 DEF CoverRow
  <2>2. calls[c].events = s
    BY <1>1, <2>1, ConcatEmptySeq
  <2> QED BY <1>1, <1>4, <2>1, <2>2 DEF CoverRow
<1>7. Range(calls[c].events) \subseteq Recorded'
  BY <1>3, <1>5, <1>6 DEF Covered, Recorded
<1>8. CoverRow(c)'
  BY <1>2, <1>7 DEF CoverRow
<1>9. \A t \in Tenants : EventIds(calls[c].new[t]) \subseteq Range(calls[c].events)
  BY <1>4 DEF CoverRow
<1>10. failures' \in Nat /\ UNCHANGED <<rec, recording, accepted, late, logged>>
  BY DEF recVars, RecInv, RecType
<1>11. /\ \A t \in Tenants : EventIds(rows[t]) \subseteq EventIds(rows'[t])
       /\ \A t \in Tenants : EventIds(rows'[t]) \subseteq EventIds(rows[t]) \cup Range(calls[c].events)
  BY <1>3, <1>9
<1> QED BY <1>1, <1>2, <1>7, <1>8, <1>10, <1>11, TransactionKeeps DEF StoreInv

\* Nothing of the batch is in the table.
LEMMA RecAbort ==
  ASSUME RecInv, StoreInv, NEW c \in Calls, AbortAppend(c), failures' \in Nat,
         UNCHANGED <<rec, recording, accepted, late, logged>>
  PROVE  RecInv'
<1>1. calls[c].pc = "append" /\ rows' = rows
      /\ calls' = [calls EXCEPT ![c] = [NoCall EXCEPT !.pc = "failed", !.events = calls[c].events]]
  BY DEF AbortAppend
<1>2. /\ calls'[c].pc = "failed" /\ calls'[c].events = calls[c].events
      /\ \A t \in Tenants : EventIds(calls'[c].new[t]) = {}
      /\ \A d \in Calls : d # c => calls'[d] = calls[d]
  BY <1>1, EndedCall DEF StoreInv, Answers
<1>3. CoverRow(c)'
  BY <1>2 DEF CoverRow
<1> QED BY <1>1, <1>2, <1>3, TransactionKeeps DEF StoreInv

\* Steps that neither recorders nor table see.
LEMMA RecUntouched ==
  ASSUME RecInv, UNCHANGED <<rows, calls, recVars>> PROVE RecInv'
<1> USE DEF RecInv, recVars
<1>1. Settled' = Settled /\ Recorded' = Recorded
  BY RecordedStays DEF Settled
<1>2. RecType' /\ WaitsInv'
  BY <1>1 DEF RecType, WaitsInv, RowWaits
<1>3. CoverInv'
  <2>1. \A d \in Calls : \A x : Covered(d, x)' = Covered(d, x)
    BY DEF Covered
  <2> QED BY <1>1, <2>1 DEF CoverInv, CoverRow
<1>4. TakenInv' /\ OrderInv'
  BY <1>1 DEF TakenInv, OrderInv
<1>5. PlacesInv'
  BY <1>1 DEF PlacesInv, RowPlaces
<1>6. TrailInv'
  BY <1>1 DEF TrailInv, OvertakesNot
<1> QED BY <1>2, <1>3, <1>4, <1>5, <1>6

-----------------------------------------------------------------------------
(* The whole.                                                                *)

LogInv == StoreInv /\ RecInv

\* The invariant holds of empty chains and new recorders.
LEMMA LogInit == Init => LogInv
<1> SUFFICES ASSUME Init PROVE LogInv
  OBVIOUS
<1> USE DEF Init, StoreInit
<1> DEFINE none == << >>
<1>a. none \in Seq(Events) /\ none \in Seq(EventRow) /\ Len(none) = 0 /\ Range(none) = {}
      /\ EventIds(none) = {} /\ none \o none = none
  BY RangeOfEmpty, ConcatEmptySeq DEF EventIds
<1>b. \A t \in Tenants : rows[t] = none /\ heads[t] = Head0
  OBVIOUS
<1>c. \A c \in Calls : calls[c] = NoCall
  OBVIOUS
<1>d. Head0 \in HeadRow
  BY DEF Head0, HeadRow, Hashes, NoHash
<1>1. StoreType
  <2>1. heads \in [Tenants -> HeadRow] /\ rows \in [Tenants -> Seq(EventRow)]
    BY <1>d
  <2>2. calls \in [Calls -> CallRow]
    BY NoCallType
  <2>3. verify \in VerifyRow
    BY <1>a, <1>d DEF NoVerify, VerifyRow
  <2> QED BY <2>1, <2>2, <2>3 DEF StoreType
<1>2. Intact(none, Head0) /\ Distinct(none)
  BY <1>a DEF Intact, Distinct, HeadAt
<1>3. ChainsInv
  BY <1>2, <1>b DEF ChainsInv
<1>4. NewInv
  <2>1. \A c \in Calls, t \in Tenants : calls[c].new[t] = none
    BY <1>c, NoCallType
  <2>2. \A t \in Tenants : Extends(t, none)
    BY <1>1, <1>3, ExtendsByNothing DEF ChainsInv
  <2> HIDE DEF none
  <2>3. \A c \in Calls, t \in Tenants : Extends(t, calls[c].new[t])
    BY <2>1, <2>2
  <2> QED BY <2>1, <2>3 DEF NewInv, none
<1>5. LocksInv
  BY <1>c, NoCallType DEF LocksInv
<1>6. VerifyInv
  BY DEF VerifyInv, NoVerify
<1>7. StoreInv
  BY <1>1, <1>3, <1>4, <1>5, <1>6 DEF StoreInv
<1>8. Recorded = {}
  BY <1>a, <1>b DEF Recorded
<1>9. /\ NewRecorder \in RecRow /\ NewRecorder.pc = "collect" /\ NewRecorder.call = NoCallId
      /\ NewRecorder.batch = none /\ NewRecorder.queue = none /\ NewRecorder.proc = "up"
  <2>1. NewRecorder = [proc |-> "up", pc |-> "collect", queue |-> none, batch |-> none,
                       one |-> 0, call |-> NoCallId, stopping |-> FALSE]
    BY DEF NewRecorder
  <2> HIDE DEF none
  <2> QED BY <1>a, <2>1 DEF RecRow
<1>10. \A r \in Recorders : rec[r] = NewRecorder /\ accepted[r] = none
  OBVIOUS
<1>11. RecType
  BY <1>9 DEF RecType
<1>12. WaitsInv
  BY <1>9, <1>10 DEF WaitsInv, RowWaits
<1>13. CoverInv
  <2>1. \A c \in Calls : calls[c].pc = "none" /\ \A t \in Tenants : calls[c].new[t] = none
    BY <1>c, NoCallType
  <2> HIDE DEF none
  <2> QED BY <1>a, <2>1 DEF CoverInv, CoverRow
<1>14. TakenInv
  <2>1. \A c \in Calls : Range(calls[c].events) = {}
    BY <1>a, <1>c, NoCallType
  <2>2. \A r \in Recorders : 1..Len(accepted[r]) = {}
    BY <1>a, <1>10
  <2> QED BY <1>8, <2>1, <2>2 DEF TakenInv
<1>15. PlacesInv
  <2> SUFFICES ASSUME NEW r \in Recorders PROVE RowPlaces(rec[r], accepted[r], Settled, late)
    BY DEF PlacesInv
  <2> HIDE DEF none
  <2>1. accepted[r] = (none \o rec[r].batch) \o rec[r].queue
    BY <1>a, <1>9, <1>10
  <2>2. \E s \in Seq(Events) : accepted[r] = (s \o rec[r].batch) \o rec[r].queue /\ Range(s) \subseteq Settled
    BY <1>a, <2>1
  <2>3. Len(rec[r].batch) <= BatchSize
    BY <1>a, <1>9, <1>10, RecorderAssumption
  <2> QED BY <1>9, <1>10, <2>2, <2>3 DEF RowPlaces
<1>16. OrderInv
  BY <1>c, NoCallType DEF OrderInv
<1>17. TrailInv
  BY <1>8 DEF TrailInv, OvertakesNot
<1> QED BY <1>7, <1>11, <1>12, <1>13, <1>14, <1>15, <1>16, <1>17 DEF LogInv, RecInv

\* A recorder changes nothing in the service, or brings a call.
LEMMA RecorderStep ==
  ASSUME LogInv, \/ \E e \in Events : RecordCheck(e) \/ RecordQueue(e)
                 \/ \E r \in Recorders : LoopStep(r) \/ GiveUp(r) \/ Close(r) \/ CloseReturns(r) \/ CloseTimesOut(r)
  PROVE  RecInv' /\ (Arrival \/ UNCHANGED storeVars)
<1> USE DEF LogInv
<1>1. ASSUME NEW e \in Events, RecordCheck(e) \/ RecordQueue(e)
      PROVE  RecInv' /\ (Arrival \/ UNCHANGED storeVars)
  BY <1>1, RecordCheckStep, RecordQueueStep DEF StoreInv
<1>2. ASSUME NEW r \in Recorders, LoopStep(r) PROVE RecInv' /\ (Arrival \/ UNCHANGED storeVars)
  <2>1. CASE Receive(r)
    BY <2>1, ReceiveStep
  <2>2. CASE Send(r)
    BY <2>2, SendStep DEF StoreInv
  <2>3. CASE NoticeStop(r)
    BY <2>3, NoticeStopStep
  <2>4. CASE Drain(r)
    BY <2>4, DrainStep DEF StoreInv
  <2>5. CASE Answered(r)
    BY <2>5, AnsweredStep DEF StoreInv
  <2>6. CASE Backoff(r)
    BY <2>6, BackoffStep
  <2> QED BY <1>2, <2>1, <2>2, <2>3, <2>4, <2>5, <2>6 DEF LoopStep
<1>3. ASSUME NEW r \in Recorders, GiveUp(r) \/ Close(r) \/ CloseReturns(r) \/ CloseTimesOut(r)
      PROVE  RecInv' /\ (Arrival \/ UNCHANGED storeVars)
  BY <1>3, GiveUpStep, CloseStep, CloseReturnsStep, CloseTimesOutStep
<1> QED BY <1>1, <1>2, <1>3

\* Steps that the service does not see.
LEMMA StoreUntouched == ASSUME StoreInv, UNCHANGED storeVars PROVE StoreInv'
<1> USE DEF StoreInv, storeVars
<1>1. StoreType' /\ ChainsInv' /\ LocksInv' /\ VerifyInv'
  BY DEF StoreType, ChainsInv, LocksInv, VerifyInv, Intact, Distinct
<1>2. NewInv'
  <2>1. \A c \in Calls, t \in Tenants : Extends(t, calls[c].new[t])'
    BY DEF NewInv, Extends
  <2>2. \A c \in Calls, t \in Tenants : t \notin calls'[c].locked => calls'[c].new[t] = << >>
    BY DEF NewInv
  <2> QED BY <2>1, <2>2 DEF NewInv
<1> QED BY <1>1, <1>2

\* Every step keeps the invariant.
LEMMA LogStep == LogInv /\ [Next]_vars => LogInv'
<1> SUFFICES ASSUME LogInv, [Next]_vars PROVE LogInv'
  OBVIOUS
<1> USE DEF LogInv
<1>1. CASE UNCHANGED vars
  BY <1>1, StoreUntouched, RecUntouched DEF vars, storeVars, recVars
<1>2. CASE \/ \E e \in Events : RecordCheck(e) \/ RecordQueue(e)
           \/ \E r \in Recorders : LoopStep(r) \/ GiveUp(r) \/ Close(r) \/ CloseReturns(r) \/ CloseTimesOut(r)
  <2>1. RecInv' /\ (Arrival \/ UNCHANGED storeVars)
    BY <1>2, RecorderStep
  <2> QED BY <2>1, ArrivalStep, StoreUntouched
<1>3. ASSUME NEW c \in Calls, AppendStep(c) PROVE LogInv'
  <2>1. UNCHANGED recVars
    BY <1>3 DEF AppendStep
  <2>2. CASE AppendTenant(c)
    BY <2>1, <2>2, AppendTenantStep, RecAppendTenant
  <2>3. CASE AppendEvent(c)
    BY <2>1, <2>3, AppendEventStep, RecAppendEvent
  <2>4. CASE CommitAppend(c)
    BY <2>1, <2>4, CommitStep, RecCommit
  <2> QED BY <1>3, <2>2, <2>3, <2>4 DEF AppendStep
<1>4. ASSUME NEW c \in Calls, AppendFails(c) PROVE LogInv'
  <2>1. AbortAppend(c) /\ UNCHANGED <<rec, recording, accepted, late, logged>> /\ failures' = failures + 1
    BY <1>4 DEF AppendFails
  <2>2. failures' \in Nat
    BY <2>1 DEF RecInv, RecType
  <2> QED BY <2>1, <2>2, AbortStep, RecAbort
<1>5. CASE VerifyStep
  <2>1. /\ VerifyEnd \/ \E t \in Tenants : VerifyBegin(t)
        /\ UNCHANGED recVars
    BY <1>5 DEF VerifyStep
  <2>2. UNCHANGED <<rows, calls>>
    BY <2>1 DEF VerifyEnd, VerifyBegin
  <2> QED BY <2>1, <2>2, VerifyStepKeeps, RecUntouched
<1> QED BY <1>1, <1>2, <1>3, <1>4, <1>5 DEF Next

\* The inductive invariant of service and recorders holds in every behaviour.
THEOREM LogInvHolds == Spec => []LogInv
<1>1. Init => LogInv
  BY LogInit
<1>2. LogInv /\ [Next]_vars => LogInv'
  BY LogStep
<1> QED BY <1>1, <1>2, PTL DEF Spec

-----------------------------------------------------------------------------
(* What follows.                                                             *)

\* VerifyChain never reports a chain broken that only the service has written,
\* whatever transactions ran while it read.
THEOREM NoFalseAlarmAlways == Spec => []NoFalseAlarm
<1>1. LogInv => NoFalseAlarm
  BY DEF LogInv, StoreInv, VerifyInv, NoFalseAlarm
<1> QED BY <1>1, LogInvHolds, PTL

\* The transaction that waits for the last chain of all cannot wait for another.
LEMMA GoesOn == LogInv => SomeoneGoesOn
<1> SUFFICES ASSUME LogInv, NEW c0 \in Calls, calls[c0].pc = "append",
                    ~ \E c \in Calls : /\ calls[c].pc = "append"
                                       /\ calls[c].left # << >> \/ calls[c].todo = {} \/ ~Locked(NextChain(c))
             PROVE  FALSE
  BY DEF SomeoneGoesOn
<1> USE DEF LogInv, StoreInv
<1> DEFINE A == {c \in Calls : calls[c].pc = "append"}
           T == {NextChain(c) : c \in A}
<1>1. \A c \in A : calls[c].todo # {} /\ Locked(NextChain(c))
  OBVIOUS
<1>2. \A c \in A : NextChain(c) \in calls[c].todo /\ NextChain(c) \in Tenants
  BY <1>1, NextChainIs
<1>3. T \subseteq 1..NTenants /\ T # {}
  <2>1. c0 \in A /\ NextChain(c0) \in T
    OBVIOUS
  <2> QED BY <1>2, <2>1 DEF Tenants
<1>4. PICK x \in T : \A y \in T : y <= x
  BY <1>3, GreatestExists, TenantAssumption
<1>5. PICK c \in A : x = NextChain(c)
  OBVIOUS
<1>6. PICK d \in Calls : x \in calls[d].locked
  BY <1>1, <1>5 DEF Locked
<1>7. d \in A
  BY <1>6 DEF LocksInv
<1>8. x < NextChain(d)
  BY <1>2, <1>6, <1>7 DEF LocksInv
<1>9. NextChain(d) <= x
  BY <1>4, <1>7
<1>10. x \in Nat /\ NextChain(d) \in Nat
  BY <1>2, <1>3, <1>7, TenantAssumption DEF Tenants
<1> QED BY <1>8, <1>9, <1>10

\* Transactions that span several chains never wait for each other in a circle:
\* of those that run, one can go on.
THEOREM SomeoneGoesOnAlways == Spec => []SomeoneGoesOn
  BY GoesOn, LogInvHolds, PTL

\* Whatever fails, and whenever a process ends, what a recorder took is in its
\* memory, in the trail or in the log.
THEOREM AccountedAlways == Spec => []Accounted
<1>1. LogInv => Accounted
  <2> SUFFICES ASSUME LogInv, NEW r \in Recorders, rec[r].proc # "cut"
               PROVE  Range(accepted[r]) \subseteq InMemory(r) \cup Recorded \cup logged \cup late
    BY DEF Accounted
  <2> USE DEF LogInv
  <2>1. CASE rec[r].pc = "done"
    BY <2>1 DEF RecInv, PlacesInv, RowPlaces, Settled
  <2>2. CASE rec[r].pc # "done"
    <3>1. rec[r].batch \in Seq(Events) /\ rec[r].queue \in Seq(Events)
      BY LoopFacts
    <3>2. PICK s \in Seq(Events) : accepted[r] = (s \o rec[r].batch) \o rec[r].queue /\ Range(s) \subseteq Settled
      BY <2>2, LoopFacts
    <3>3. Range(accepted[r]) = Range(s) \cup Range(rec[r].batch) \cup Range(rec[r].queue)
      BY <3>1, <3>2, RangeOfTaken
    <3> QED BY <3>2, <3>3 DEF Settled, InMemory
  <2> QED BY <2>1, <2>2
<1> QED BY <1>1, LogInvHolds, PTL

\* The trail has no event of a process without the ones that the process
\* recorded before it, but for those in the log.
THEOREM NoOvertakingAlways == Spec => []NoOvertaking
<1>1. LogInv => NoOvertaking
  <2> SUFFICES ASSUME LogInv, NEW r \in Recorders, NEW i \in DOMAIN accepted[r], NEW j \in DOMAIN accepted[r],
                      i < j, accepted[r][j] \in Recorded
               PROVE  accepted[r][i] \in Recorded \cup logged
    BY DEF NoOvertaking
  <2>1. DOMAIN accepted[r] = 1..Len(accepted[r])
    BY DEF LogInv, RecInv, RecType
  <2> QED BY <2>1 DEF LogInv, RecInv, TrailInv, OvertakesNot, Settled
<1> QED BY <1>1, LogInvHolds, PTL

-----------------------------------------------------------------------------
(* The service implements AuditTrail.                                        *)

\* The trails, as the refinement mapping of AuditStore has them.
TrailOf(rs) == [t \in Tenants |-> [i \in 1..Len(rs[t]) |-> rs[t][i].event]]

\* The trails are sequences of events, as long as the rows.
LEMMA TrailOfType ==
  ASSUME NEW rs \in [Tenants -> Seq(EventRow)]
  PROVE  /\ TrailOf(rs) \in [Tenants -> Seq(Events)]
         /\ \A t \in Tenants : Len(TrailOf(rs)[t]) = Len(rs[t])
         /\ \A t \in Tenants : DOMAIN TrailOf(rs)[t] = 1..Len(rs[t])
         /\ \A t \in Tenants : \A i \in 1..Len(rs[t]) : TrailOf(rs)[t][i] = rs[t][i].event
<1>1. ASSUME NEW t \in Tenants
      PROVE  /\ TrailOf(rs)[t] \in Seq(Events) /\ Len(TrailOf(rs)[t]) = Len(rs[t])
             /\ DOMAIN TrailOf(rs)[t] = 1..Len(rs[t])
             /\ \A i \in 1..Len(rs[t]) : TrailOf(rs)[t][i] = rs[t][i].event
  <2> DEFINE s == rs[t]
             u == [i \in 1..Len(s) |-> s[i].event]
  <2>1. s \in Seq(EventRow) /\ TrailOf(rs)[t] = u
    BY DEF TrailOf
  <2> HIDE DEF s
  <2>2. Len(s) \in Nat /\ \A i \in 1..Len(s) : s[i].event \in Events
    <3>1. Len(s) \in Nat /\ \A i \in 1..Len(s) : s[i] \in EventRow
      BY <2>1
    <3> QED BY <3>1 DEF EventRow
  <2>3. u \in [1..Len(s) -> Events]
    BY <2>2
  <2>4. u \in Seq(Events) /\ DOMAIN u = 1..Len(s) /\ Len(u) = Len(s)
    BY <2>2, <2>3, SeqDef, LenProperties
  <2> QED BY <2>1, <2>4 DEF s
<1> QED BY <1>1 DEF TrailOf

\* Only a commit changes the table.
LEMMA TableStep ==
  ASSUME LogInv, [Next]_vars
  PROVE  rows' = rows \/ \E c \in Calls : CommitAppend(c)
<1>1. CASE UNCHANGED vars
  BY <1>1 DEF vars
<1>2. CASE \/ \E e \in Events : RecordCheck(e) \/ RecordQueue(e)
           \/ \E r \in Recorders : LoopStep(r) \/ GiveUp(r) \/ Close(r) \/ CloseReturns(r) \/ CloseTimesOut(r)
  BY <1>2, RecorderStep DEF Arrival, storeVars
<1>3. ASSUME NEW c \in Calls, AppendStep(c) \/ AppendFails(c)
      PROVE  rows' = rows \/ CommitAppend(c)
  BY <1>3 DEF AppendStep, AppendFails, AppendTenant, AppendEvent, AbortAppend
<1>4. CASE VerifyStep
  BY <1>4 DEF VerifyStep, VerifyEnd, VerifyBegin
<1> QED BY <1>1, <1>2, <1>3, <1>4 DEF Next

\* Every step of the table extends the trails and repeats no event.
LEMMA TrailStep ==
  ASSUME LogInv, LogInv', [Next]_vars
  PROVE  \/ TrailOf(rows') = TrailOf(rows)
         \/ /\ TrailOf(rows') \in [Tenants -> Seq(Events)]
            /\ \A t \in Tenants :
                 /\ Len(TrailOf(rows')[t]) >= Len(TrailOf(rows)[t])
                 /\ \A i \in 1..Len(TrailOf(rows)[t]) : TrailOf(rows')[t][i] = TrailOf(rows)[t][i]
                 /\ \A i, j \in DOMAIN TrailOf(rows')[t] : TrailOf(rows')[t][i] = TrailOf(rows')[t][j] => i = j
<1>1. CASE rows' = rows
  BY <1>1
<1>2. CASE \E c \in Calls : CommitAppend(c)
  <2>1. PICK c \in Calls : CommitAppend(c)
    BY <1>2
  <2>2. rows \in [Tenants -> Seq(EventRow)] /\ rows' \in [Tenants -> Seq(EventRow)]
    BY DEF LogInv, StoreInv, StoreType
  <2>3. /\ TrailOf(rows) \in [Tenants -> Seq(Events)] /\ \A t \in Tenants : Len(TrailOf(rows)[t]) = Len(rows[t])
        /\ \A t \in Tenants : \A i \in 1..Len(rows[t]) : TrailOf(rows)[t][i] = rows[t][i].event
    BY <2>2, TrailOfType
  <2>4. /\ TrailOf(rows') \in [Tenants -> Seq(Events)]
        /\ \A t \in Tenants : Len(TrailOf(rows')[t]) = Len(rows'[t])
        /\ \A t \in Tenants : DOMAIN TrailOf(rows')[t] = 1..Len(rows'[t])
        /\ \A t \in Tenants : \A i \in 1..Len(rows'[t]) : TrailOf(rows')[t][i] = rows'[t][i].event
    BY <2>2, TrailOfType
  <2>5. ASSUME NEW t \in Tenants
        PROVE  /\ Len(rows[t]) \in Nat /\ Len(rows'[t]) \in Nat /\ Len(rows'[t]) >= Len(rows[t])
               /\ \A i \in 1..Len(rows[t]) : rows'[t][i] = rows[t][i]
    <3>1. rows'[t] = rows[t] \o calls[c].new[t]
      BY <2>1 DEF CommitAppend
    <3>2. rows[t] \in Seq(EventRow) /\ calls[c].new[t] \in Seq(EventRow)
      BY DEF LogInv, StoreInv, StoreType, CallRow
    <3> DEFINE old == rows[t]
               new == calls[c].new[t]
    <3>3. old \in Seq(EventRow) /\ new \in Seq(EventRow) /\ rows'[t] = old \o new
      BY <3>1, <3>2
    <3> HIDE DEF old, new
    <3>4. /\ Len(rows'[t]) = Len(old) + Len(new) /\ Len(old) \in Nat /\ Len(new) \in Nat
          /\ \A i \in 1..Len(old) : rows'[t][i] = old[i]
      BY <3>3, ConcatFacts
    <3>5. \A a, b \in Nat : a + b \in Nat /\ a + b >= a
      OBVIOUS
    <3>6. Len(old) \in Nat /\ Len(rows'[t]) \in Nat /\ Len(rows'[t]) >= Len(old)
      BY <3>4, <3>5
    <3> QED BY <3>4, <3>6 DEF old
  <2>6. ASSUME NEW t \in Tenants
        PROVE  \A i, j \in 1..Len(rows'[t]) : rows'[t][i].event = rows'[t][j].event => i = j
    BY DEF LogInv, StoreInv, ChainsInv, Distinct
  <2>7. ASSUME NEW t \in Tenants
        PROVE  /\ Len(TrailOf(rows')[t]) >= Len(TrailOf(rows)[t])
               /\ \A i \in 1..Len(TrailOf(rows)[t]) : TrailOf(rows')[t][i] = TrailOf(rows)[t][i]
               /\ \A i, j \in DOMAIN TrailOf(rows')[t] : TrailOf(rows')[t][i] = TrailOf(rows')[t][j] => i = j
    <3>1. \A i \in 1..Len(rows[t]) : i \in 1..Len(rows'[t])
      BY <2>5
    <3>2. \A i \in 1..Len(TrailOf(rows)[t]) : TrailOf(rows')[t][i] = TrailOf(rows)[t][i]
      BY <2>3, <2>4, <2>5, <3>1, SMTT(30)
    <3>3. \A i, j \in DOMAIN TrailOf(rows')[t] : TrailOf(rows')[t][i] = TrailOf(rows')[t][j] => i = j
      BY <2>4, <2>6
    <3> QED BY <2>3, <2>4, <2>5, <3>2, <3>3
  <2> QED BY <2>4, <2>7
<1> QED BY <1>1, <1>2, TableStep

\* The audit service implements the trail it promises: every change of the
\* table extends the trails of the tenants, with no event twice, whichever calls
\* are repeated, given up, or commit late.
THEOREM TrailExtendsAlways == Spec => TrailExtends
<1>1. Init => Trail!TrailInit
  <2> SUFFICES ASSUME Init PROVE TrailOf(rows) = [t \in Tenants |-> << >>]
    BY DEF Trail!TrailInit, TrailOf
  <2>1. \A t \in Tenants : rows[t] = << >>
    BY DEF Init, StoreInit
  <2>2. \A t \in Tenants : [i \in 1..Len(rows[t]) |-> rows[t][i].event] = << >>
    BY <2>1
  <2> QED BY <2>2 DEF TrailOf
<1>2. LogInv /\ LogInv' /\ [Next]_vars => [Trail!Extend]_(TrailOf(rows))
  <2> SUFFICES ASSUME LogInv, LogInv', [Next]_vars
               PROVE  TrailOf(rows)' = TrailOf(rows) \/ Trail!Extend
    OBVIOUS
  <2>1. TrailOf(rows)' = TrailOf(rows')
    BY DEF TrailOf
  <2> QED BY <2>1, TrailStep DEF Trail!Extend, Trail!NoRepeats, Trail!IsInjective, TrailOf
<1>3. TrailOf(rows) = [t \in Tenants |-> [i \in 1..Len(rows[t]) |-> rows[t][i].event]]
  BY DEF TrailOf
<1> QED BY <1>1, <1>2, LogInvHolds, PTL DEF Spec, TrailExtends, Trail!TrailSpec, TrailOf
=============================================================================
