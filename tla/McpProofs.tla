----------------------------- MODULE McpProofs -----------------------------
(***************************************************************************)
(* Tokens of the MCP router: a refresh token is spent once by those who     *)
(* share it, nobody gets an older consent than the row he has read, and a   *)
(* refused new token is reported.  Proved for any number of requests,       *)
(* consents, tokens and faults.                                             *)
(***************************************************************************)
EXTENDS McpRouter, FiniteSetTheorems, TLAPS

-----------------------------------------------------------------------------
(* The invariant.                                                            *)

Tokens == [grant : Nat, copies : Nat, rotated : BOOLEAN, lost : BOOLEAN, reused : BOOLEAN, accepted : BOOLEAN]

Rows == [status : {"none", "connected", "needs_reauth"}, token : Nat, updated : Nat]

Lives == [token : Nat, updated : Nat, mu : Requests \cup {None}]

Sessions == [live : LiveIds \cup {Absent}, unproven : Nat]

\* Where a request has no session yet, where it has one, and where it holds the
\* mutex of its live token.
Ended == {"idle", "done"}
Opening == {"entry", "source"}
Locked == {"refresh", "save", "note"}
Using == {"token", "authorize", "prove", "send", "insert", "reject", "invalidate", "forget", "fail", "refused"}
         \cup Locked

Reqs == [pc : Ended \cup Opening \cup Using, snap : Rows, session : SessionIds \cup {Absent},
         purpose : {"connect", "call"}, carried : Nat, noted : Nat, attempt : {0, 1},
         then : {"send", "prove", "proved"}, updated : Nat]

\* The rest is about the tokens T, the live tokens L and the current one C, the
\* sessions S and the pooled one P, the requests Q, the row R and the history O
\* of an overwritten consent: an action changes several one after the other.
StateType(T, L, C, S, P, Q, R, O) ==
  /\ T \in Seq(Tokens) /\ L \in [LiveIds -> Lives] /\ C \in LiveIds \cup {Absent}
  /\ S \in [SessionIds -> Sessions] /\ P \in SessionIds \cup {Absent}
  /\ Q \in [Requests -> Reqs] /\ R \in Rows /\ O \in BOOLEAN

ActiveIn(Q) == {r \in Requests : Q[r].pc \notin Ended}

\* The row, and the rows that running requests have read.
Read(Q, R) == {R} \cup {Q[r].snap : r \in ActiveIn(Q)}

UsedIn(P, Q) == {P} \cup {Q[r].session : r \in ActiveIn(Q)}

\* What is referred to exists, and the clock of the row is the latest.
RefInv(T, L, C, S, P, Q, R) ==
  /\ \A y \in Read(Q, R) : y.token \in 1..Len(T) /\ y.updated <= R.updated
  /\ \A s \in UsedIn(P, Q) \ {Absent} : S[s].live # Absent /\ L[S[s].live].token # NoToken
  /\ C # Absent => L[C].token # NoToken
  /\ \A l \in LiveIds : L[l].token <= Len(T) /\ L[l].updated <= R.updated

\* A token that got into memory once is in one live token, until its refresh
\* token is rotated.
CopyInv(T, L) ==
  \A n \in 1..Len(T) :
    /\ T[n].copies = 0 => ~T[n].rotated /\ \A l \in LiveIds : L[l].token # n
    /\ T[n].copies <= 1 => \A l, m \in LiveIds : L[l].token = n /\ L[m].token = n => l = m
    /\ T[n].copies <= 1 /\ T[n].rotated /\ ~T[n].lost => \A l \in LiveIds : L[l].token # n
    /\ T[n].reused => T[n].copies > 1 \/ T[n].lost

\* There is a latest grant.
GrantInv(T) == \E m \in 1..Len(T) : \A n \in 1..Len(T) : T[n].grant <= T[m].grant

\* Whoever has read a row no later than at u has read no later grant than that
\* of token t.
Point(t, u, T, Q, R) == \A y \in Read(Q, R) : y.updated <= u => T[y.token].grant <= T[t].grant

AgeInv(T, L, Q, R, O) ==
  O \/ /\ \A y \in Read(Q, R) : Point(y.token, y.updated, T, Q, R)
       /\ \A l \in LiveIds : L[l].token # NoToken => Point(L[l].token, L[l].updated, T, Q, R)

\* A request r in state q, with live token v of its session.
LockInv(r, q, v) ==
  /\ q.pc \in Locked => v.mu = r
  /\ q.pc = "refresh" => q.carried = v.token

ProofInv(q, v, unproven, T) ==
  /\ q.pc \in Using /\ q.noted # NoToken =>
       unproven = q.noted \/ T[q.noted].accepted \/ v.token # q.noted
  /\ q.pc = "refused" => q.noted # NoToken
  /\ q.pc = "refused" /\ q.carried = q.noted => T[q.noted].accepted \/ v.token # q.noted

ServedInv(q, v, T, O) ==
  q.pc \in Using /\ q.purpose = "connect" => O \/ T[v.token].grant >= T[q.snap.token].grant

NoteInv(q, v, T, Q, R, O) ==
  q.pc = "note" => q.updated <= R.updated /\ (O \/ Point(v.token, q.updated, T, Q, R))

WhereInv(q, T) ==
  /\ q.pc \in Opening \cup Ended => q.session = Absent
  /\ q.pc \in Using => q.session # Absent
  /\ q.carried <= Len(T) /\ q.noted <= Len(T)
  /\ q.pc \in {"send", "refresh"} => q.carried # NoToken

ReqInv(r, q, T, L, S, Q, R, O) ==
  LET v == L[S[q.session].live] IN
  /\ WhereInv(q, T)
  /\ LockInv(r, q, v)
  /\ ProofInv(q, v, S[q.session].unproven, T)
  /\ ServedInv(q, v, T, O)
  /\ NoteInv(q, v, T, Q, R, O)

Consistent(T, L, C, S, P, Q, R, O) ==
  /\ StateType(T, L, C, S, P, Q, R, O) /\ RefInv(T, L, C, S, P, Q, R)
  /\ CopyInv(T, L) /\ GrantInv(T) /\ AgeInv(T, L, Q, R, O)
  /\ \A r \in Requests : ReqInv(r, Q[r], T, L, S, Q, R, O)

Inv == Consistent(tokens, live, current, sessions, pool, req, row, overwritten)

-----------------------------------------------------------------------------
(* Changes that keep the invariant.                                          *)

\* The names of live tokens and sessions are numbers, and none is the absent one.
LEMMA IdFacts ==
  /\ Cardinality(Requests) \in Nat /\ None \notin Requests
  /\ LiveIds \in SUBSET Nat /\ Absent \notin LiveIds
  /\ SessionIds \in SUBSET Nat /\ Absent \notin SessionIds
<1>1. Cardinality(Requests) \in Nat
  BY RouterAssumption, FS_CardinalityType
<1> QED BY <1>1, RouterAssumption DEF LiveIds, SessionIds, Absent

\* The phases of a request are different.
LEMMA PhaseFacts ==
  /\ Locked \subseteq Using /\ Opening \cap Using = {} /\ Ended \cap Using = {} /\ Ended \cap Opening = {}
  /\ \A pc \in Locked \cup Using \cup Opening : pc \notin Ended
BY DEF Locked, Using, Opening, Ended

\* The conjuncts of the invariant.
LEMMA Parts ==
  ASSUME NEW T, NEW L, NEW C, NEW S, NEW P, NEW Q, NEW R, NEW O, Consistent(T, L, C, S, P, Q, R, O)
  PROVE  /\ T \in Seq(Tokens) /\ L \in [LiveIds -> Lives] /\ C \in LiveIds \cup {Absent}
         /\ S \in [SessionIds -> Sessions] /\ P \in SessionIds \cup {Absent}
         /\ Q \in [Requests -> Reqs] /\ R \in Rows /\ O \in BOOLEAN
         /\ RefInv(T, L, C, S, P, Q, R) /\ CopyInv(T, L) /\ GrantInv(T) /\ AgeInv(T, L, Q, R, O)
         /\ \A r \in Requests : ReqInv(r, Q[r], T, L, S, Q, R, O)
BY DEF Consistent, StateType

\* The fields of what is well typed.
LEMMA FieldTypes ==
  ASSUME NEW T, NEW L, NEW C, NEW S, NEW P, NEW Q, NEW R, NEW O, Consistent(T, L, C, S, P, Q, R, O)
  PROVE  /\ Len(T) \in Nat /\ R.token \in 1..Len(T) /\ R.updated \in Nat
         /\ \A n \in 1..Len(T) : T[n] \in Tokens /\ T[n].grant \in Nat /\ T[n].copies \in Nat
         /\ \A l \in LiveIds : L[l].token \in 0..Len(T) /\ L[l].updated \in Nat /\ L[l].updated <= R.updated
         /\ \A s \in SessionIds : S[s].live \in LiveIds \cup {Absent} /\ S[s].unproven \in Nat
         /\ \A y \in Read(Q, R) : y.token \in 1..Len(T) /\ y.updated \in Nat /\ y.updated <= R.updated
<1>1. /\ T \in Seq(Tokens) /\ L \in [LiveIds -> Lives] /\ S \in [SessionIds -> Sessions]
      /\ Q \in [Requests -> Reqs] /\ R \in Rows /\ RefInv(T, L, C, S, P, Q, R)
  BY Parts
<1>2. Len(T) \in Nat /\ \A n \in 1..Len(T) : T[n] \in Tokens
  <2> HIDE DEF Tokens
  <2> QED BY <1>1
<1>3. \A n \in 1..Len(T) : T[n].grant \in Nat /\ T[n].copies \in Nat
  BY <1>2 DEF Tokens
<1>4. R \in Read(Q, R)
  BY DEF Read
<1>5. R.token \in 1..Len(T) /\ R.updated \in Nat
  BY <1>1, <1>4 DEF RefInv, Rows
<1>6. \A l \in LiveIds : L[l].token \in 0..Len(T) /\ L[l].updated \in Nat /\ L[l].updated <= R.updated
  <2> SUFFICES ASSUME NEW l \in LiveIds
               PROVE  L[l].token \in 0..Len(T) /\ L[l].updated \in Nat /\ L[l].updated <= R.updated
    OBVIOUS
  <2>1. L[l] \in Lives
    BY <1>1
  <2>2. L[l].token <= Len(T) /\ L[l].updated <= R.updated
    BY <1>1 DEF RefInv
  <2>3. L[l].token \in Nat /\ L[l].updated \in Nat
    BY <2>1 DEF Lives
  <2> QED BY <1>2, <2>2, <2>3
<1>7. \A s \in SessionIds : S[s].live \in LiveIds \cup {Absent} /\ S[s].unproven \in Nat
  BY <1>1 DEF Sessions
<1>8. ASSUME NEW y \in Read(Q, R)
      PROVE  y.token \in 1..Len(T) /\ y.updated \in Nat /\ y.updated <= R.updated
  <2>1. y \in Rows
    <3>1. CASE y = R
      BY <1>1, <3>1
    <3>2. CASE \E r \in ActiveIn(Q) : y = Q[r].snap
      <4>1. PICK r \in Requests : y = Q[r].snap
        BY <3>2 DEF ActiveIn
      <4>2. Q[r] \in Reqs
        BY <1>1
      <4> QED BY <4>1, <4>2 DEF Reqs
    <3> QED BY <3>1, <3>2 DEF Read
  <2> QED BY <1>1, <2>1 DEF RefInv, Rows
<1> QED BY <1>2, <1>3, <1>5, <1>6, <1>7, <1>8

\* What a request relies on when fewer rows have been read.
LEMMA ReadShrinks ==
  ASSUME NEW T, NEW L, NEW S, NEW Q, NEW Q2, NEW R, NEW O, Read(Q2, R) \subseteq Read(Q, R)
  PROVE  /\ \A t, u : Point(t, u, T, Q, R) => Point(t, u, T, Q2, R)
         /\ \A r, q : ReqInv(r, q, T, L, S, Q, R, O) => ReqInv(r, q, T, L, S, Q2, R, O)
<1>1. \A t, u : Point(t, u, T, Q, R) => Point(t, u, T, Q2, R)
  BY DEF Point
<1>2. ASSUME NEW r, NEW q, ReqInv(r, q, T, L, S, Q, R, O) PROVE ReqInv(r, q, T, L, S, Q2, R, O)
  <2>1. NoteInv(q, L[S[q.session].live], T, Q, R, O) => NoteInv(q, L[S[q.session].live], T, Q2, R, O)
    BY <1>1 DEF NoteInv
  <2> QED BY <1>2, <2>1 DEF ReqInv
<1> QED BY <1>1, <1>2

\* A request goes on to a state q that is right in itself.
LEMMA MoveKeeps ==
  ASSUME NEW T, NEW L, NEW C, NEW S, NEW P, NEW Q, NEW R, NEW O, Consistent(T, L, C, S, P, Q, R, O),
         NEW r \in Requests, NEW q \in Reqs, NEW Q2, Q2 = [Q EXCEPT ![r] = q],
         q.pc \notin Ended => q.snap \in Read(Q, R),
         q.pc \notin Ended /\ q.session # Absent =>
           S[q.session].live # Absent /\ L[S[q.session].live].token # NoToken,
         ReqInv(r, q, T, L, S, Q, R, O)
  PROVE  Consistent(T, L, C, S, P, Q2, R, O)
<1>1. /\ StateType(T, L, C, S, P, Q, R, O) /\ RefInv(T, L, C, S, P, Q, R) /\ CopyInv(T, L) /\ GrantInv(T)
      /\ AgeInv(T, L, Q, R, O) /\ \A x \in Requests : ReqInv(x, Q[x], T, L, S, Q, R, O)
  BY DEF Consistent
<1>2. Q \in [Requests -> Reqs]
  BY <1>1 DEF StateType
<1>3. /\ Q2 \in [Requests -> Reqs] /\ Q2[r] = q /\ \A x \in Requests \ {r} : Q2[x] = Q[x]
  BY <1>2
<1>4. StateType(T, L, C, S, P, Q2, R, O)
  BY <1>1, <1>3 DEF StateType
<1>5. Read(Q2, R) \subseteq Read(Q, R)
  <2> SUFFICES ASSUME NEW x \in ActiveIn(Q2) PROVE Q2[x].snap \in Read(Q, R)
    BY DEF Read
  <2>1. CASE x = r
    BY <1>3, <2>1 DEF ActiveIn
  <2>2. CASE x # r
    BY <1>3, <2>2 DEF ActiveIn, Read
  <2> QED BY <2>1, <2>2
<1>6. RefInv(T, L, C, S, P, Q2, R)
  <2>1. ASSUME NEW s \in UsedIn(P, Q2) \ {Absent} PROVE S[s].live # Absent /\ L[S[s].live].token # NoToken
    <3>1. CASE s \in UsedIn(P, Q)
      BY <1>1, <3>1 DEF RefInv
    <3>2. CASE s \notin UsedIn(P, Q)
      <4>1. PICK x \in ActiveIn(Q2) : s = Q2[x].session
        BY <3>2 DEF UsedIn
      <4>2. x = r
        BY <1>3, <3>2, <4>1 DEF UsedIn, ActiveIn
      <4> QED BY <1>3, <4>1, <4>2 DEF ActiveIn
    <3> QED BY <3>1, <3>2
  <2> QED BY <1>1, <1>5, <2>1 DEF RefInv
<1>7. AgeInv(T, L, Q2, R, O)
  BY <1>1, <1>5, ReadShrinks DEF AgeInv
<1>8. \A x \in Requests : ReqInv(x, Q2[x], T, L, S, Q2, R, O)
  <2>a. \A x, y : ReqInv(x, y, T, L, S, Q, R, O) => ReqInv(x, y, T, L, S, Q2, R, O)
    BY <1>5, ReadShrinks, Zenon
  <2> SUFFICES ASSUME NEW x \in Requests PROVE ReqInv(x, Q2[x], T, L, S, Q, R, O)
    BY <2>a, Zenon
  <2>1. CASE x = r
    BY <1>3, <2>1
  <2>2. CASE x # r
    BY <1>1, <1>3, <2>2
  <2> QED BY <2>1, <2>2
<1> QED BY <1>1, <1>4, <1>6, <1>7, <1>8 DEF Consistent

\* A session is taken from the pool or put into it, and the token in memory is
\* forgotten.
LEMMA PoolKeeps ==
  ASSUME NEW T, NEW L, NEW C, NEW S, NEW P, NEW Q, NEW R, NEW O, Consistent(T, L, C, S, P, Q, R, O),
         NEW P2 \in UsedIn(P, Q) \cup {Absent}, NEW C2 \in {C, Absent}
  PROVE  Consistent(T, L, C2, S, P2, Q, R, O)
<1>1. /\ StateType(T, L, C, S, P, Q, R, O) /\ RefInv(T, L, C, S, P, Q, R) /\ CopyInv(T, L) /\ GrantInv(T)
      /\ AgeInv(T, L, Q, R, O) /\ \A x \in Requests : ReqInv(x, Q[x], T, L, S, Q, R, O)
  BY DEF Consistent
<1>2. UsedIn(P, Q) \in SUBSET (SessionIds \cup {Absent})
  <2>1. \A x \in Requests : Q[x].session \in SessionIds \cup {Absent}
    BY <1>1 DEF StateType, Reqs
  <2> QED BY <1>1, <2>1 DEF UsedIn, ActiveIn, StateType
<1>3. StateType(T, L, C2, S, P2, Q, R, O)
  BY <1>1, <1>2 DEF StateType
<1>4. UsedIn(P2, Q) \subseteq UsedIn(P, Q) \cup {Absent}
  BY DEF UsedIn
<1>5. RefInv(T, L, C2, S, P2, Q, R)
  BY <1>1, <1>4 DEF RefInv
<1> QED BY <1>1, <1>3, <1>5 DEF Consistent

\* The row is written again: with the same token, or with another that is not
\* of an earlier grant unless this is noted.
LEMMA RowKeeps ==
  ASSUME NEW T, NEW L, NEW C, NEW S, NEW P, NEW Q, NEW R, NEW O, Consistent(T, L, C, S, P, Q, R, O),
         NEW R2 \in Rows, R2.token \in 1..Len(T), R2.updated = R.updated + 1,
         NEW O2 \in BOOLEAN, O => O2, O2 \/ T[R.token].grant <= T[R2.token].grant
  PROVE  /\ Consistent(T, L, C, S, P, Q, R2, O2)
         /\ O2 \/ Point(R2.token, R2.updated, T, Q, R2)
<1>1. /\ StateType(T, L, C, S, P, Q, R, O) /\ RefInv(T, L, C, S, P, Q, R) /\ CopyInv(T, L) /\ GrantInv(T)
      /\ AgeInv(T, L, Q, R, O) /\ \A x \in Requests : ReqInv(x, Q[x], T, L, S, Q, R, O)
  BY DEF Consistent
<1>t. /\ Len(T) \in Nat /\ R.token \in 1..Len(T) /\ R.updated \in Nat
      /\ \A n \in 1..Len(T) : T[n].grant \in Nat
      /\ \A l \in LiveIds : L[l].token \in 0..Len(T) /\ L[l].updated \in Nat /\ L[l].updated <= R.updated
      /\ \A y \in Read(Q, R) : y.token \in 1..Len(T) /\ y.updated \in Nat /\ y.updated <= R.updated
  BY FieldTypes
<1>2. StateType(T, L, C, S, P, Q, R2, O2)
  BY <1>1 DEF StateType
<1>3. Read(Q, R2) \subseteq Read(Q, R) \cup {R2} /\ R \in Read(Q, R)
  BY DEF Read
<1>4. \A y \in Read(Q, R2) : y.token \in 1..Len(T) /\ y.updated \in Nat /\ y.updated <= R2.updated
  BY <1>3, <1>t
<1>5. RefInv(T, L, C, S, P, Q, R2)
  <2>1. \A l \in LiveIds : L[l].token <= Len(T) /\ L[l].updated <= R2.updated
    BY <1>t
  <2> QED BY <1>1, <1>4, <2>1 DEF RefInv
<1>6. ASSUME NEW t, NEW u, u <= R.updated, u \in Nat, Point(t, u, T, Q, R) PROVE Point(t, u, T, Q, R2)
  BY <1>3, <1>6, <1>t DEF Point
<1>7. O2 \/ Point(R2.token, R2.updated, T, Q, R2)
  <2> SUFFICES ASSUME ~O2, NEW y \in Read(Q, R2) PROVE T[y.token].grant <= T[R2.token].grant
    BY DEF Point
  <2>1. CASE y = R2
    BY <1>t, <2>1
  <2>2. CASE y \in Read(Q, R)
    <3>1. Point(R.token, R.updated, T, Q, R)
      BY <1>1, <1>3 DEF AgeInv
    <3>2. T[y.token].grant <= T[R.token].grant
      BY <1>t, <2>2, <3>1 DEF Point
    <3>3. T[y.token].grant \in Nat /\ T[R.token].grant \in Nat /\ T[R2.token].grant \in Nat
      BY <1>t, <2>2
    <3>4. T[R.token].grant <= T[R2.token].grant
      BY Zenon
    <3> QED BY <3>2, <3>3, <3>4
  <2> QED BY <1>3, <2>1, <2>2
<1>8. AgeInv(T, L, Q, R2, O2)
  <2> SUFFICES ASSUME ~O2 PROVE AgeInv(T, L, Q, R2, O2)
    BY DEF AgeInv
  <2>1. \A y \in Read(Q, R2) : Point(y.token, y.updated, T, Q, R2)
    BY <1>1, <1>3, <1>6, <1>7, <1>t DEF AgeInv
  <2>2. \A l \in LiveIds : L[l].token # NoToken => Point(L[l].token, L[l].updated, T, Q, R2)
    BY <1>1, <1>6, <1>t DEF AgeInv
  <2> QED BY <2>1, <2>2 DEF AgeInv
<1>9. ASSUME NEW x \in Requests PROVE ReqInv(x, Q[x], T, L, S, Q, R2, O2)
  <2> DEFINE q == Q[x]
             v == L[S[q.session].live]
             b == S[q.session].unproven
  <2>1. ReqInv(x, q, T, L, S, Q, R, O) /\ q.updated \in Nat
    BY <1>1 DEF StateType, Reqs
  <2>2. /\ WhereInv(q, T)
        /\ LockInv(x, q, v) /\ ProofInv(q, v, b, T) /\ ServedInv(q, v, T, O) /\ NoteInv(q, v, T, Q, R, O)
    BY <2>1 DEF ReqInv
  <2> HIDE DEF q, v, b
  <2>3. NoteInv(q, v, T, Q, R2, O2)
    BY <1>6, <1>t, <2>1, <2>2 DEF NoteInv
  <2>4. ServedInv(q, v, T, O2)
    BY <2>2 DEF ServedInv
  <2> QED BY <2>2, <2>3, <2>4, Zenon DEF ReqInv, q, v, b
<1> QED BY <1>1, <1>2, <1>5, <1>7, <1>8, <1>9 DEF Consistent

\* Live tokens are changed without changing which token they are.
LEMMA MuKeeps ==
  ASSUME NEW T, NEW L, NEW C, NEW S, NEW P, NEW Q, NEW R, NEW O, Consistent(T, L, C, S, P, Q, R, O),
         NEW L2 \in [LiveIds -> Lives],
         \A l \in LiveIds : L2[l].token = L[l].token,
         \A l \in LiveIds : \/ L2[l].updated = L[l].updated
                            \/ /\ L2[l].updated <= R.updated
                               /\ O \/ Point(L[l].token, L2[l].updated, T, Q, R),
         \A r \in Requests : Q[r].pc \in Locked =>
           L2[S[Q[r].session].live].mu = L[S[Q[r].session].live].mu
  PROVE  Consistent(T, L2, C, S, P, Q, R, O)
<1>1. /\ StateType(T, L, C, S, P, Q, R, O) /\ RefInv(T, L, C, S, P, Q, R) /\ CopyInv(T, L) /\ GrantInv(T)
      /\ AgeInv(T, L, Q, R, O) /\ \A x \in Requests : ReqInv(x, Q[x], T, L, S, Q, R, O)
  BY DEF Consistent
<1>t. \A s \in SessionIds : S[s].live \in LiveIds \cup {Absent}
  BY FieldTypes
<1>2. StateType(T, L2, C, S, P, Q, R, O)
  BY <1>1 DEF StateType
<1>3. UsedIn(P, Q) \in SUBSET (SessionIds \cup {Absent})
  <2>1. \A x \in Requests : Q[x].session \in SessionIds \cup {Absent}
    BY <1>1 DEF StateType, Reqs
  <2> QED BY <1>1, <2>1 DEF UsedIn, ActiveIn, StateType
<1>4. RefInv(T, L2, C, S, P, Q, R)
  <2>1. \A s \in UsedIn(P, Q) \ {Absent} : S[s].live # Absent /\ L2[S[s].live].token # NoToken
    BY <1>1, <1>3, <1>t DEF RefInv
  <2>2. C # Absent => L2[C].token # NoToken
    BY <1>1 DEF RefInv, StateType
  <2>3. \A l \in LiveIds : L2[l].token <= Len(T) /\ L2[l].updated <= R.updated
    BY <1>1 DEF RefInv
  <2> QED BY <1>1, <2>1, <2>2, <2>3 DEF RefInv
<1>5. CopyInv(T, L2)
  BY <1>1 DEF CopyInv
<1>6. AgeInv(T, L2, Q, R, O)
  BY <1>1 DEF AgeInv
<1>7. ASSUME NEW x \in Requests PROVE ReqInv(x, Q[x], T, L2, S, Q, R, O)
  <2> DEFINE q == Q[x]
             v == L[S[q.session].live]
             w == L2[S[q.session].live]
             b == S[q.session].unproven
  <2>1. ReqInv(x, q, T, L, S, Q, R, O)
    BY <1>1
  <2>2. q.pc \in Using => q.session \in UsedIn(P, Q) \ {Absent}
    BY <2>1, PhaseFacts DEF ReqInv, WhereInv, UsedIn, ActiveIn
  <2>3. q.pc \in Using => S[q.session].live \in LiveIds
    BY <1>1, <1>3, <1>t, <2>2 DEF RefInv
  <2>4. q.pc \in Using => w.token = v.token
    BY <2>3
  <2>5. q.pc \in Locked => w.mu = v.mu
    OBVIOUS
  <2>6. /\ WhereInv(q, T)
        /\ LockInv(x, q, v) /\ ProofInv(q, v, b, T) /\ ServedInv(q, v, T, O) /\ NoteInv(q, v, T, Q, R, O)
    BY <2>1 DEF ReqInv
  <2>7. q.pc \in {"refresh", "note", "refused"} => q.pc \in Using
    BY DEF Using, Locked
  <2> HIDE DEF q, v, w, b
  <2>8. LockInv(x, q, w)
    BY <2>4, <2>5, <2>6, <2>7 DEF LockInv
  <2>9. ProofInv(q, w, b, T)
    BY <2>4, <2>6, <2>7 DEF ProofInv
  <2>10. ServedInv(q, w, T, O)
    BY <2>4, <2>6, <2>7 DEF ServedInv
  <2>11. NoteInv(q, w, T, Q, R, O)
    BY <2>4, <2>6, <2>7 DEF NoteInv
  <2> QED BY <2>6, <2>8, <2>9, <2>10, <2>11, Zenon DEF ReqInv, q, w, b
<1> QED BY <1>1, <1>2, <1>4, <1>5, <1>6, <1>7 DEF Consistent

\* The histories of tokens go on.
LEMMA MarkKeeps ==
  ASSUME NEW T, NEW L, NEW C, NEW S, NEW P, NEW Q, NEW R, NEW O, Consistent(T, L, C, S, P, Q, R, O),
         NEW T2 \in Seq(Tokens), Len(T2) = Len(T), CopyInv(T2, L),
         \A n \in 1..Len(T) : T2[n].grant = T[n].grant /\ (T[n].accepted => T2[n].accepted)
  PROVE  Consistent(T2, L, C, S, P, Q, R, O)
<1>1. /\ StateType(T, L, C, S, P, Q, R, O) /\ RefInv(T, L, C, S, P, Q, R) /\ CopyInv(T, L) /\ GrantInv(T)
      /\ AgeInv(T, L, Q, R, O) /\ \A x \in Requests : ReqInv(x, Q[x], T, L, S, Q, R, O)
  BY DEF Consistent
<1>t. /\ Len(T) \in Nat /\ R.token \in 1..Len(T)
      /\ \A l \in LiveIds : L[l].token \in 0..Len(T)
      /\ \A s \in SessionIds : S[s].live \in LiveIds \cup {Absent}
      /\ \A y \in Read(Q, R) : y.token \in 1..Len(T)
  BY FieldTypes
<1>2. StateType(T2, L, C, S, P, Q, R, O)
  BY <1>1 DEF StateType
<1>3. RefInv(T2, L, C, S, P, Q, R)
  BY <1>1 DEF RefInv
<1>4. GrantInv(T2)
  BY <1>1 DEF GrantInv
<1>5. \A t \in 1..Len(T) : \A u : Point(t, u, T, Q, R) => Point(t, u, T2, Q, R)
  BY <1>t DEF Point
<1>6. AgeInv(T2, L, Q, R, O)
  <2>1. \A l \in LiveIds : L[l].token # NoToken => L[l].token \in 1..Len(T)
    BY <1>t DEF NoToken
  <2> QED BY <1>1, <1>5, <1>t, <2>1 DEF AgeInv
<1>7. ASSUME NEW x \in Requests PROVE ReqInv(x, Q[x], T2, L, S, Q, R, O)
  <2> DEFINE q == Q[x]
             v == L[S[q.session].live]
             b == S[q.session].unproven
  <2>1. ReqInv(x, q, T, L, S, Q, R, O) /\ q \in Reqs
    BY <1>1 DEF StateType
  <2>2. q.pc \in Using => v.token \in 1..Len(T) /\ q.snap.token \in 1..Len(T)
    <3> SUFFICES ASSUME q.pc \in Using PROVE v.token \in 1..Len(T) /\ q.snap.token \in 1..Len(T)
      OBVIOUS
    <3>1. x \in ActiveIn(Q) /\ q.session \in SessionIds
      BY <2>1, PhaseFacts DEF ReqInv, WhereInv, ActiveIn, Reqs
    <3>2. q.session \in UsedIn(P, Q) \ {Absent} /\ q.snap \in Read(Q, R)
      BY <2>1, <3>1 DEF UsedIn, Read, ReqInv, WhereInv
    <3>3. S[q.session].live \in LiveIds /\ v.token # NoToken
      BY <1>1, <1>t, <3>1, <3>2 DEF RefInv
    <3>4. v.token \in 0..Len(T)
      BY <1>t, <3>3
    <3> QED BY <1>t, <3>2, <3>3, <3>4 DEF NoToken
  <2>3. /\ WhereInv(q, T)
        /\ LockInv(x, q, v) /\ ProofInv(q, v, b, T) /\ ServedInv(q, v, T, O) /\ NoteInv(q, v, T, Q, R, O)
    BY <2>1 DEF ReqInv
  <2>4. q.pc \in {"refresh", "note", "refused"} => q.pc \in Using
    BY DEF Using, Locked
  <2>5. q.noted \in Nat /\ q.noted <= Len(T)
    BY <2>1 DEF ReqInv, WhereInv, Reqs
  <2> HIDE DEF q, v, b
  <2>6. ProofInv(q, v, b, T2)
    <3>1. q.noted # NoToken => q.noted \in 1..Len(T)
      BY <1>t, <2>5 DEF NoToken
    <3> QED BY <2>3, <3>1 DEF ProofInv
  <2>7. ServedInv(q, v, T2, O)
    BY <2>2, <2>3 DEF ServedInv
  <2>8. NoteInv(q, v, T2, Q, R, O)
    BY <1>5, <2>2, <2>3, <2>4 DEF NoteInv
  <2>9. WhereInv(q, T2)
    BY <2>3 DEF WhereInv
  <2> QED BY <2>3, <2>6, <2>7, <2>8, <2>9, Zenon DEF ReqInv, q, v, b
<1> QED BY <1>1, <1>2, <1>3, <1>4, <1>6, <1>7 DEF Consistent

\* A session notes which token is unproven.
LEMMA UnprovenKeeps ==
  ASSUME NEW T, NEW L, NEW C, NEW S, NEW P, NEW Q, NEW R, NEW O, Consistent(T, L, C, S, P, Q, R, O),
         NEW S2 \in [SessionIds -> Sessions],
         \A s \in SessionIds : S2[s].live = S[s].live,
         \A s \in SessionIds :
           \/ S2[s].unproven = S[s].unproven
           \/ S2[s].unproven = L[S[s].live].token
           \/ S[s].unproven \in 1..Len(T) /\ T[S[s].unproven].accepted
  PROVE  Consistent(T, L, C, S2, P, Q, R, O)
<1>1. /\ StateType(T, L, C, S, P, Q, R, O) /\ RefInv(T, L, C, S, P, Q, R) /\ CopyInv(T, L) /\ GrantInv(T)
      /\ AgeInv(T, L, Q, R, O) /\ \A x \in Requests : ReqInv(x, Q[x], T, L, S, Q, R, O)
  BY DEF Consistent
<1>2. StateType(T, L, C, S2, P, Q, R, O)
  BY <1>1 DEF StateType
<1>3. UsedIn(P, Q) \in SUBSET (SessionIds \cup {Absent})
  <2>1. \A x \in Requests : Q[x].session \in SessionIds \cup {Absent}
    BY <1>1 DEF StateType, Reqs
  <2> QED BY <1>1, <2>1 DEF UsedIn, ActiveIn, StateType
<1>4. RefInv(T, L, C, S2, P, Q, R)
  BY <1>1, <1>3 DEF RefInv
<1>5. ASSUME NEW x \in Requests PROVE ReqInv(x, Q[x], T, L, S2, Q, R, O)
  <2> DEFINE q == Q[x]
             s == q.session
             v == L[S[s].live]
             w == L[S2[s].live]
  <2>1. ReqInv(x, q, T, L, S, Q, R, O) /\ q \in Reqs
    BY <1>1 DEF StateType
  <2>2. q.pc \in Using => s \in SessionIds
    BY <2>1 DEF ReqInv, WhereInv, Reqs
  <2>3. /\ WhereInv(q, T)
        /\ LockInv(x, q, v) /\ ProofInv(q, v, S[s].unproven, T) /\ ServedInv(q, v, T, O) /\ NoteInv(q, v, T, Q, R, O)
    BY <2>1 DEF ReqInv
  <2>4. /\ q.pc \in Using => w = v
        /\ q.pc \in Using => \/ S2[s].unproven = S[s].unproven
                             \/ S2[s].unproven = v.token
                             \/ T[S[s].unproven].accepted
    BY <2>2
  <2>5. q.pc \in Locked \cup {"refresh", "note", "refused"} => q.pc \in Using
    BY DEF Using, Locked
  <2> HIDE DEF q, v, w
  <2>6. LockInv(x, q, w) /\ ServedInv(q, w, T, O) /\ NoteInv(q, w, T, Q, R, O)
    BY <2>3, <2>4, <2>5 DEF LockInv, ServedInv, NoteInv
  <2>7. ProofInv(q, w, S2[s].unproven, T)
    BY <2>3, <2>4, <2>5 DEF ProofInv
  <2> QED BY <2>3, <2>6, <2>7, Zenon DEF ReqInv, q, w
<1> QED BY <1>1, <1>2, <1>4, <1>5 DEF Consistent

\* A token is issued, and live tokens may get it in exchange for one of the
\* same grant.
LEMMA IssueKeeps ==
  ASSUME NEW T, NEW L, NEW C, NEW S, NEW P, NEW Q, NEW R, NEW O, Consistent(T, L, C, S, P, Q, R, O),
         NEW T2 \in Seq(Tokens), Len(T2) = Len(T) + 1, NEW L2 \in [LiveIds -> Lives],
         CopyInv(T2, L2), GrantInv(T2),
         \A n \in 1..Len(T) : T2[n].grant = T[n].grant /\ (T[n].accepted => T2[n].accepted),
         \A l \in LiveIds : L2[l].updated = L[l].updated /\ L2[l].mu = L[l].mu,
         \A l \in LiveIds :
           \/ L2[l].token = L[l].token
           \/ /\ L2[l].token = Len(T2) /\ L[l].token # NoToken /\ T2[Len(T2)].grant = T[L[l].token].grant
              /\ \A r \in Requests : Q[r].pc = "refresh" => S[Q[r].session].live # l
  PROVE  Consistent(T2, L2, C, S, P, Q, R, O)
<1>1. /\ StateType(T, L, C, S, P, Q, R, O) /\ RefInv(T, L, C, S, P, Q, R) /\ CopyInv(T, L) /\ GrantInv(T)
      /\ AgeInv(T, L, Q, R, O) /\ \A x \in Requests : ReqInv(x, Q[x], T, L, S, Q, R, O)
  BY DEF Consistent
<1>t. /\ Len(T) \in Nat /\ R.token \in 1..Len(T)
      /\ \A l \in LiveIds : L[l].token \in 0..Len(T)
      /\ \A s \in SessionIds : S[s].live \in LiveIds \cup {Absent}
      /\ \A y \in Read(Q, R) : y.token \in 1..Len(T)
  BY FieldTypes
<1>2. StateType(T2, L2, C, S, P, Q, R, O)
  BY <1>1 DEF StateType
<1>3. UsedIn(P, Q) \in SUBSET (SessionIds \cup {Absent})
  <2>1. \A x \in Requests : Q[x].session \in SessionIds \cup {Absent}
    BY <1>1 DEF StateType, Reqs
  <2> QED BY <1>1, <2>1 DEF UsedIn, ActiveIn, StateType
<1>4. ASSUME NEW l \in LiveIds
      PROVE  /\ L2[l].token \in 0..Len(T2)
             /\ L[l].token # NoToken =>
                  /\ L2[l].token # NoToken /\ L[l].token \in 1..Len(T)
                  /\ T2[L2[l].token].grant = T[L[l].token].grant
  <2>1. L[l].token \in 0..Len(T)
    BY <1>t
  <2>2. CASE L2[l].token = L[l].token
    BY <1>t, <2>1, <2>2 DEF NoToken
  <2>3. CASE L2[l].token # L[l].token
    BY <1>t, <2>1, <2>3 DEF NoToken
  <2> QED BY <2>2, <2>3
<1>5. RefInv(T2, L2, C, S, P, Q, R)
  <2>1. \A s \in UsedIn(P, Q) \ {Absent} : S[s].live # Absent /\ L2[S[s].live].token # NoToken
    BY <1>1, <1>3, <1>4, <1>t DEF RefInv
  <2>2. C # Absent => L2[C].token # NoToken
    BY <1>1, <1>4 DEF RefInv, StateType
  <2>3. \A l \in LiveIds : L2[l].token <= Len(T2) /\ L2[l].updated <= R.updated
    BY <1>1, <1>4, <1>t DEF RefInv
  <2>4. \A y \in Read(Q, R) : y.token \in 1..Len(T2) /\ y.updated <= R.updated
    BY <1>1, <1>t DEF RefInv
  <2> QED BY <2>1, <2>2, <2>3, <2>4 DEF RefInv
<1>6. ASSUME NEW t \in 1..Len(T), NEW t2, NEW u, T2[t2].grant = T[t].grant, Point(t, u, T, Q, R)
      PROVE  Point(t2, u, T2, Q, R)
  BY <1>6, <1>t DEF Point
<1>7. AgeInv(T2, L2, Q, R, O)
  <2> SUFFICES ASSUME ~O PROVE AgeInv(T2, L2, Q, R, O)
    BY DEF AgeInv
  <2>1. \A y \in Read(Q, R) : Point(y.token, y.updated, T2, Q, R)
    BY <1>1, <1>6, <1>t DEF AgeInv
  <2>2. ASSUME NEW l \in LiveIds, L2[l].token # NoToken PROVE Point(L2[l].token, L2[l].updated, T2, Q, R)
    <3>1. L[l].token # NoToken
      BY <2>2
    <3>2. L[l].token \in 1..Len(T) /\ T2[L2[l].token].grant = T[L[l].token].grant
      BY <1>4, <3>1
    <3>3. Point(L[l].token, L2[l].updated, T, Q, R)
      BY <1>1, <3>1 DEF AgeInv
    <3> QED BY <1>6, <3>2, <3>3
  <2> QED BY <2>1, <2>2 DEF AgeInv
<1>8. ASSUME NEW x \in Requests PROVE ReqInv(x, Q[x], T2, L2, S, Q, R, O)
  <2> DEFINE q == Q[x]
             l == S[q.session].live
             v == L[l]
             w == L2[l]
             b == S[q.session].unproven
  <2>1. ReqInv(x, q, T, L, S, Q, R, O) /\ q \in Reqs
    BY <1>1 DEF StateType
  <2>2. q.pc \in Using => /\ l \in LiveIds /\ v.token # NoToken /\ q.snap.token \in 1..Len(T)
    <3> SUFFICES ASSUME q.pc \in Using PROVE l \in LiveIds /\ v.token # NoToken /\ q.snap.token \in 1..Len(T)
      OBVIOUS
    <3>1. x \in ActiveIn(Q) /\ q.session \in SessionIds
      BY <2>1, PhaseFacts DEF ReqInv, WhereInv, ActiveIn, Reqs
    <3>2. q.session \in UsedIn(P, Q) \ {Absent} /\ q.snap \in Read(Q, R)
      BY <2>1, <3>1 DEF UsedIn, Read, ReqInv, WhereInv
    <3> QED BY <1>1, <1>t, <3>1, <3>2 DEF RefInv
  <2>3. /\ WhereInv(q, T)
        /\ LockInv(x, q, v) /\ ProofInv(q, v, b, T) /\ ServedInv(q, v, T, O) /\ NoteInv(q, v, T, Q, R, O)
    BY <2>1 DEF ReqInv
  <2>4. q.pc \in {"refresh", "note", "refused"} \cup Locked => q.pc \in Using
    BY DEF Using, Locked
  <2>5. q.noted \in Nat /\ q.noted <= Len(T) /\ q.carried \in Nat
    BY <2>1 DEF ReqInv, WhereInv, Reqs
  <2>6. q.pc \in Using => /\ v.token \in 1..Len(T) /\ T2[w.token].grant = T[v.token].grant /\ w.mu = v.mu
                          /\ w.token = v.token \/ (w.token = Len(T) + 1 /\ q.pc # "refresh")
    BY <1>4, <2>2
  <2> HIDE DEF q, v, w, b, l
  <2>7. WhereInv(q, T2)
    BY <1>t, <2>3, <2>5 DEF WhereInv
  <2>8. LockInv(x, q, w)
    BY <2>3, <2>4, <2>6 DEF LockInv
  <2>9. ProofInv(q, w, b, T2)
    <3>1. q.noted # NoToken => q.noted \in 1..Len(T)
      BY <1>t, <2>5 DEF NoToken
    <3>2. q.pc \in Using /\ v.token # q.noted => w.token # q.noted
      BY <1>t, <2>5, <2>6
    <3> QED BY <2>3, <2>4, <3>1, <3>2 DEF ProofInv
  <2>10. ServedInv(q, w, T2, O)
    BY <2>2, <2>3, <2>6 DEF ServedInv
  <2>11. NoteInv(q, w, T2, Q, R, O)
    BY <1>6, <2>3, <2>4, <2>6 DEF NoteInv
  <2> QED BY <2>7, <2>8, <2>9, <2>10, <2>11, Zenon DEF ReqInv, q, w, b, l
<1> QED BY <1>2, <1>5, <1>7, <1>8 DEF Consistent

\* A live token that nobody refers to gets the token of a row that was read.
LEMMA LoadKeeps ==
  ASSUME NEW T, NEW L, NEW C, NEW S, NEW P, NEW Q, NEW R, NEW O, Consistent(T, L, C, S, P, Q, R, O),
         NEW y \in Read(Q, R), NEW l \in LiveIds, \A s \in UsedIn(P, Q) \ {Absent} : S[s].live # l,
         NEW L2 \in [LiveIds -> Lives], L2[l].token = y.token, L2[l].updated = y.updated,
         \A m \in LiveIds \ {l} : L2[m] = L[m],
         CopyInv(T, L2)
  PROVE  Consistent(T, L2, l, S, P, Q, R, O)
<1>1. /\ StateType(T, L, C, S, P, Q, R, O) /\ RefInv(T, L, C, S, P, Q, R) /\ CopyInv(T, L) /\ GrantInv(T)
      /\ AgeInv(T, L, Q, R, O) /\ \A x \in Requests : ReqInv(x, Q[x], T, L, S, Q, R, O)
  BY DEF Consistent
<1>t. /\ Len(T) \in Nat
      /\ \A s \in SessionIds : S[s].live \in LiveIds \cup {Absent}
      /\ \A z \in Read(Q, R) : z.token \in 1..Len(T) /\ z.updated \in Nat /\ z.updated <= R.updated
  BY FieldTypes
<1>2. StateType(T, L2, l, S, P, Q, R, O)
  BY <1>1 DEF StateType
<1>3. UsedIn(P, Q) \in SUBSET (SessionIds \cup {Absent})
  <2>1. \A x \in Requests : Q[x].session \in SessionIds \cup {Absent}
    BY <1>1 DEF StateType, Reqs
  <2> QED BY <1>1, <2>1 DEF UsedIn, ActiveIn, StateType
<1>4. L2[l].token # NoToken /\ L2[l].token <= Len(T) /\ L2[l].updated <= R.updated
  BY <1>t DEF NoToken
<1>5. RefInv(T, L2, l, S, P, Q, R)
  <2>1. \A s \in UsedIn(P, Q) \ {Absent} : S[s].live # Absent /\ L2[S[s].live].token # NoToken
    BY <1>1, <1>3, <1>t DEF RefInv
  <2>2. \A m \in LiveIds : L2[m].token <= Len(T) /\ L2[m].updated <= R.updated
    BY <1>1, <1>4 DEF RefInv
  <2> QED BY <1>1, <1>4, <2>1, <2>2 DEF RefInv
<1>6. AgeInv(T, L2, Q, R, O)
  BY <1>1 DEF AgeInv
<1>7. ASSUME NEW x \in Requests PROVE ReqInv(x, Q[x], T, L2, S, Q, R, O)
  <2> DEFINE q == Q[x]
             k == S[q.session].live
             v == L[k]
             w == L2[k]
             b == S[q.session].unproven
  <2>1. ReqInv(x, q, T, L, S, Q, R, O) /\ q \in Reqs
    BY <1>1 DEF StateType
  <2>2. q.pc \in Using => w = v
    <3> SUFFICES ASSUME q.pc \in Using PROVE w = v
      OBVIOUS
    <3>1. q.session \in UsedIn(P, Q) \ {Absent}
      BY <2>1, PhaseFacts DEF ReqInv, WhereInv, ActiveIn, UsedIn
    <3>2. k \in LiveIds \ {l}
      BY <1>1, <1>3, <1>t, <3>1 DEF RefInv
    <3> QED BY <3>2
  <2>3. /\ WhereInv(q, T)
        /\ LockInv(x, q, v) /\ ProofInv(q, v, b, T) /\ ServedInv(q, v, T, O) /\ NoteInv(q, v, T, Q, R, O)
    BY <2>1 DEF ReqInv
  <2>4. q.pc \in {"refresh", "note", "refused"} \cup Locked => q.pc \in Using
    BY DEF Using, Locked
  <2> HIDE DEF q, v, w, b, k
  <2>5. LockInv(x, q, w) /\ ServedInv(q, w, T, O) /\ NoteInv(q, w, T, Q, R, O)
    BY <2>2, <2>3, <2>4 DEF LockInv, ServedInv, NoteInv
  <2>6. ProofInv(q, w, b, T)
    BY <2>2, <2>3, <2>4 DEF ProofInv
  <2> QED BY <2>3, <2>5, <2>6, Zenon DEF ReqInv, q, w, b, k
<1> QED BY <1>1, <1>2, <1>5, <1>6, <1>7 DEF Consistent

\* A session that nobody uses is opened again.
LEMMA OpenKeeps ==
  ASSUME NEW T, NEW L, NEW C, NEW S, NEW P, NEW Q, NEW R, NEW O, Consistent(T, L, C, S, P, Q, R, O),
         NEW s \in SessionIds, s \notin UsedIn(P, Q),
         NEW S2 \in [SessionIds -> Sessions], \A x \in SessionIds \ {s} : S2[x] = S[x]
  PROVE  Consistent(T, L, C, S2, P, Q, R, O)
<1>1. /\ StateType(T, L, C, S, P, Q, R, O) /\ RefInv(T, L, C, S, P, Q, R) /\ CopyInv(T, L) /\ GrantInv(T)
      /\ AgeInv(T, L, Q, R, O) /\ \A x \in Requests : ReqInv(x, Q[x], T, L, S, Q, R, O)
  BY DEF Consistent
<1>2. StateType(T, L, C, S2, P, Q, R, O)
  BY <1>1 DEF StateType
<1>3. UsedIn(P, Q) \in SUBSET (SessionIds \cup {Absent})
  <2>1. \A x \in Requests : Q[x].session \in SessionIds \cup {Absent}
    BY <1>1 DEF StateType, Reqs
  <2> QED BY <1>1, <2>1 DEF UsedIn, ActiveIn, StateType
<1>4. \A x \in UsedIn(P, Q) \ {Absent} : S2[x] = S[x]
  BY <1>3
<1>5. RefInv(T, L, C, S2, P, Q, R)
  BY <1>1, <1>4 DEF RefInv
<1>6. ASSUME NEW x \in Requests PROVE ReqInv(x, Q[x], T, L, S2, Q, R, O)
  <2> DEFINE q == Q[x]
             e == S[q.session]
             f == S2[q.session]
             v == L[e.live]
             w == L[f.live]
  <2>1. ReqInv(x, q, T, L, S, Q, R, O)
    BY <1>1
  <2>2. q.pc \in Using => f = e /\ w = v
    <3>1. q.pc \in Using => q.session \in UsedIn(P, Q) \ {Absent}
      BY <2>1, PhaseFacts DEF ReqInv, WhereInv, ActiveIn, UsedIn
    <3> QED BY <1>4, <3>1
  <2>3. /\ WhereInv(q, T)
        /\ LockInv(x, q, v) /\ ProofInv(q, v, e.unproven, T) /\ ServedInv(q, v, T, O) /\ NoteInv(q, v, T, Q, R, O)
    BY <2>1 DEF ReqInv
  <2>4. q.pc \in {"refresh", "note", "refused"} \cup Locked => q.pc \in Using
    BY DEF Using, Locked
  <2> HIDE DEF q, e, f, v, w
  <2>5. LockInv(x, q, w) /\ ServedInv(q, w, T, O) /\ NoteInv(q, w, T, Q, R, O)
    BY <2>2, <2>3, <2>4 DEF LockInv, ServedInv, NoteInv
  <2>6. ProofInv(q, w, f.unproven, T)
    BY <2>2, <2>3, <2>4 DEF ProofInv
  <2> QED BY <2>3, <2>5, <2>6, Zenon DEF ReqInv, q, f, w
<1> QED BY <1>1, <1>2, <1>5, <1>6 DEF Consistent

\* What a request with a session refers to.
LEMMA UsingFacts ==
  ASSUME NEW T, NEW L, NEW C, NEW S, NEW P, NEW Q, NEW R, NEW O, Consistent(T, L, C, S, P, Q, R, O),
         NEW r \in Requests, Q[r].pc \in Using
  PROVE  /\ Q[r] \in Reqs /\ Q[r].session \in SessionIds /\ S[Q[r].session] \in Sessions
         /\ S[Q[r].session].live \in LiveIds /\ L[S[Q[r].session].live] \in Lives
         /\ L[S[Q[r].session].live].token \in 1..Len(T)
         /\ Q[r].snap \in Read(Q, R) /\ Q[r].session \in UsedIn(P, Q)
         /\ Q[r].carried \in Nat /\ Q[r].carried <= Len(T) /\ Q[r].noted \in Nat /\ Q[r].noted <= Len(T)
         /\ Q[r].pc \in {"send", "refresh"} => Q[r].carried \in 1..Len(T)
         /\ LockInv(r, Q[r], L[S[Q[r].session].live])
         /\ ProofInv(Q[r], L[S[Q[r].session].live], S[Q[r].session].unproven, T)
         /\ ServedInv(Q[r], L[S[Q[r].session].live], T, O)
         /\ NoteInv(Q[r], L[S[Q[r].session].live], T, Q, R, O)
<1> DEFINE q == Q[r]
<1>1. /\ L \in [LiveIds -> Lives] /\ S \in [SessionIds -> Sessions] /\ Q \in [Requests -> Reqs]
      /\ RefInv(T, L, C, S, P, Q, R) /\ ReqInv(r, q, T, L, S, Q, R, O)
  BY Parts
<1>t. /\ Len(T) \in Nat /\ \A l \in LiveIds : L[l].token \in 0..Len(T)
      /\ \A s \in SessionIds : S[s].live \in LiveIds \cup {Absent}
  BY FieldTypes
<1>2. /\ WhereInv(q, T) /\ LockInv(r, q, L[S[q.session].live])
      /\ ProofInv(q, L[S[q.session].live], S[q.session].unproven, T)
      /\ ServedInv(q, L[S[q.session].live], T, O) /\ NoteInv(q, L[S[q.session].live], T, Q, R, O)
  BY <1>1 DEF ReqInv
<1>3. q \in Reqs /\ r \in ActiveIn(Q)
  BY <1>1, PhaseFacts DEF ActiveIn
<1>4. q.session \in SessionIds /\ q.carried \in Nat /\ q.noted \in Nat
  BY <1>2, <1>3 DEF Reqs, WhereInv
<1>5. q.session \in UsedIn(P, Q) \ {Absent} /\ q.snap \in Read(Q, R)
  BY <1>2, <1>3 DEF UsedIn, Read, WhereInv
<1>6. S[q.session].live \in LiveIds /\ L[S[q.session].live].token # NoToken
  BY <1>1, <1>4, <1>5, <1>t DEF RefInv
<1>7. L[S[q.session].live].token \in 1..Len(T)
  BY <1>6, <1>t DEF NoToken
<1>8. q.carried <= Len(T) /\ q.noted <= Len(T) /\ (q.pc \in {"send", "refresh"} => q.carried \in 1..Len(T))
  BY <1>2, <1>4, <1>t, SMTT(30) DEF WhereInv, NoToken
<1> QED BY <1>1, <1>2, <1>3, <1>4, <1>5, <1>6, <1>7, <1>8

\* Those who hold the mutex of a live token are one.
LEMMA Alone ==
  ASSUME NEW T, NEW L, NEW C, NEW S, NEW P, NEW Q, NEW R, NEW O, Consistent(T, L, C, S, P, Q, R, O)
  PROVE  \A r \in Requests : Q[r].pc \in Locked =>
           /\ L[S[Q[r].session].live].mu = r
           /\ L[S[Q[r].session].live].mu # None
<1> SUFFICES ASSUME NEW r \in Requests, Q[r].pc \in Locked
             PROVE  L[S[Q[r].session].live].mu = r /\ r # None
  OBVIOUS
<1>1. LockInv(r, Q[r], L[S[Q[r].session].live])
  BY UsingFacts, PhaseFacts
<1> QED BY <1>1, IdFacts DEF LockInv

Over == [Idle EXCEPT !.pc = "done"]

\* A request ends.
LEMMA EndKeeps ==
  ASSUME NEW T, NEW L, NEW C, NEW S, NEW P, NEW Q, NEW R, NEW O, Consistent(T, L, C, S, P, Q, R, O),
         NEW r \in Requests, NEW Q2, Q2 = [Q EXCEPT ![r] = Over]
  PROVE  Consistent(T, L, C, S, P, Q2, R, O)
<1>t. Len(T) \in Nat
  BY FieldTypes
<1>1. Over.pc = "done" /\ Over.carried = NoToken /\ Over.noted = NoToken /\ Over \in Reqs
  BY DEF Over, Idle, Reqs, Rows, NoToken, Absent, Ended
<1>2. /\ Over.pc \in Ended /\ Over.pc \notin Using /\ Over.pc \notin Opening /\ Over.pc \notin Locked
      /\ Over.pc \notin {"refused", "note", "send", "refresh"}
  BY <1>1 DEF Ended, Using, Opening, Locked
<1>3. WhereInv(Over, T)
  BY <1>1, <1>2, <1>t DEF WhereInv, NoToken, Over, Idle, Absent
<1>4. /\ LockInv(r, Over, L[S[Over.session].live]) /\ ProofInv(Over, L[S[Over.session].live], S[Over.session].unproven, T)
      /\ ServedInv(Over, L[S[Over.session].live], T, O) /\ NoteInv(Over, L[S[Over.session].live], T, Q, R, O)
  BY <1>2 DEF LockInv, ProofInv, ServedInv, NoteInv
<1>5. ReqInv(r, Over, T, L, S, Q, R, O)
  BY <1>3, <1>4, Zenon DEF ReqInv
<1> QED BY <1>1, <1>2, <1>5, MoveKeeps

\* A request with a session goes on with the same session.
LEMMA StayKeeps ==
  ASSUME NEW T, NEW L, NEW C, NEW S, NEW P, NEW Q, NEW R, NEW O, Consistent(T, L, C, S, P, Q, R, O),
         NEW r \in Requests, Q[r].pc \in Using,
         NEW q \in Reqs, NEW Q2, Q2 = [Q EXCEPT ![r] = q], q.pc \in Using,
         q.session = Q[r].session, q.snap = Q[r].snap, q.purpose = Q[r].purpose,
         q.carried <= Len(T), q.noted <= Len(T), q.pc \in {"send", "refresh"} => q.carried # NoToken,
         LockInv(r, q, L[S[Q[r].session].live]),
         ProofInv(q, L[S[Q[r].session].live], S[Q[r].session].unproven, T),
         NoteInv(q, L[S[Q[r].session].live], T, Q, R, O)
  PROVE  Consistent(T, L, C, S, P, Q2, R, O)
<1> DEFINE v == L[S[Q[r].session].live]
<1>1. /\ Q[r].session \in SessionIds /\ S[Q[r].session].live \in LiveIds /\ v.token \in 1..Len(T)
      /\ Q[r].snap \in Read(Q, R) /\ ServedInv(Q[r], v, T, O)
  BY UsingFacts
<1>2. ServedInv(q, v, T, O)
  <2> HIDE DEF v
  <2> QED BY <1>1 DEF ServedInv
<1>3. q.pc \notin Opening \cup Ended /\ q.session # Absent
  BY <1>1, PhaseFacts, IdFacts
<1>4. WhereInv(q, T)
  BY <1>3 DEF WhereInv
<1>5. ReqInv(r, q, T, L, S, Q, R, O)
  BY <1>2, <1>4, Zenon DEF ReqInv
<1>6. S[q.session].live # Absent /\ L[S[q.session].live].token # NoToken
  BY <1>1, IdFacts, SMTT(30) DEF NoToken
<1> QED BY <1>1, <1>5, <1>6, MoveKeeps

-----------------------------------------------------------------------------
(* The moves of a request.                                                   *)

At(q, pc) == [q EXCEPT !.pc = pc]
Carrying(q, t) == [q EXCEPT !.pc = "send", !.carried = t]
Refreshing(q, t, then) == [q EXCEPT !.pc = "refresh", !.carried = t, !.then = then]

\* The fields of a request that goes on.
LEMMA AtFields ==
  ASSUME NEW q \in Reqs, NEW pc \in Ended \cup Opening \cup Using
  PROVE  /\ At(q, pc) \in Reqs /\ At(q, pc).pc = pc /\ At(q, pc).session = q.session
         /\ At(q, pc).snap = q.snap /\ At(q, pc).purpose = q.purpose /\ At(q, pc).carried = q.carried
         /\ At(q, pc).noted = q.noted /\ At(q, pc).updated = q.updated /\ At(q, pc).then = q.then
BY DEF At, Reqs

\* The fields of a request that carries a token.
LEMMA CarryingFields ==
  ASSUME NEW q \in Reqs, NEW t \in Nat
  PROVE  /\ Carrying(q, t) \in Reqs /\ Carrying(q, t).pc = "send" /\ Carrying(q, t).session = q.session
         /\ Carrying(q, t).snap = q.snap /\ Carrying(q, t).purpose = q.purpose
         /\ Carrying(q, t).carried = t /\ Carrying(q, t).noted = q.noted
BY DEF Carrying, Reqs, Using

\* The fields of a request that presents a refresh token.
LEMMA RefreshingFields ==
  ASSUME NEW q \in Reqs, NEW t \in Nat, NEW then \in {"send", "prove", "proved"}
  PROVE  /\ Refreshing(q, t, then) \in Reqs /\ Refreshing(q, t, then).pc = "refresh"
         /\ Refreshing(q, t, then).session = q.session
         /\ Refreshing(q, t, then).snap = q.snap /\ Refreshing(q, t, then).purpose = q.purpose
         /\ Refreshing(q, t, then).carried = t /\ Refreshing(q, t, then).noted = q.noted
BY DEF Refreshing, Reqs, Using, Locked

\* What a request knows of its token depends on what it has noted.
LEMMA SameProof ==
  ASSUME NEW p, NEW q, NEW v, NEW b, NEW T, ProofInv(p, v, b, T), p.pc \in Using, q.noted = p.noted,
         q.pc # "refused"
  PROVE  ProofInv(q, v, b, T)
BY DEF ProofInv

\* A request goes on to a place where it holds no mutex.
LEMMA PassKeeps ==
  ASSUME NEW T, NEW L, NEW C, NEW S, NEW P, NEW Q, NEW R, NEW O, Consistent(T, L, C, S, P, Q, R, O),
         NEW r \in Requests, Q[r].pc \in Using,
         NEW q \in Reqs, q.pc \in Using \ (Locked \cup {"send", "refused"}),
         q.session = Q[r].session, q.snap = Q[r].snap, q.purpose = Q[r].purpose,
         q.carried = Q[r].carried, q.noted = Q[r].noted,
         NEW Q2, Q2 = [Q EXCEPT ![r] = q]
  PROVE  Consistent(T, L, C, S, P, Q2, R, O)
<1> DEFINE v == L[S[Q[r].session].live]
           b == S[Q[r].session].unproven
<1>1. Q[r].carried <= Len(T) /\ Q[r].noted <= Len(T) /\ ProofInv(Q[r], v, b, T)
  BY UsingFacts
<1>2. q.pc \notin Locked /\ q.pc \notin {"refresh", "note", "send", "refused"}
  BY DEF Locked
<1> HIDE DEF v, b
<1>3. LockInv(r, q, v) /\ ProofInv(q, v, b, T) /\ NoteInv(q, v, T, Q, R, O)
  BY <1>1, <1>2, SameProof DEF LockInv, NoteInv
<1> QED BY <1>1, <1>2, <1>3, StayKeeps DEF v, b

\* The same where nothing but the place changes.
LEMMA GoKeeps ==
  ASSUME NEW T, NEW L, NEW C, NEW S, NEW P, NEW Q, NEW R, NEW O, Consistent(T, L, C, S, P, Q, R, O),
         NEW r \in Requests, Q[r].pc \in Using, NEW pc \in Using \ (Locked \cup {"send", "refused"}),
         NEW Q2, Q2 = [Q EXCEPT ![r] = At(Q[r], pc)]
  PROVE  Consistent(T, L, C, S, P, Q2, R, O)
<1> DEFINE q == At(Q[r], pc)
<1>1. Q[r] \in Reqs
  BY UsingFacts
<1>2. /\ q \in Reqs /\ q.pc = pc /\ q.session = Q[r].session /\ q.snap = Q[r].snap /\ q.purpose = Q[r].purpose
      /\ q.carried = Q[r].carried /\ q.noted = Q[r].noted
  BY <1>1, AtFields
<1>3. Q2 = [Q EXCEPT ![r] = q]
  OBVIOUS
<1> HIDE DEF q
<1> QED BY <1>2, <1>3, PassKeeps, ZenonT(60)

\* A request carries the token of its live token.
LEMMA SendKeeps ==
  ASSUME NEW T, NEW L, NEW C, NEW S, NEW P, NEW Q, NEW R, NEW O, Consistent(T, L, C, S, P, Q, R, O),
         NEW r \in Requests, Q[r].pc \in Using,
         NEW Q2, Q2 = [Q EXCEPT ![r] = Carrying(Q[r], L[S[Q[r].session].live].token)]
  PROVE  Consistent(T, L, C, S, P, Q2, R, O)
<1> DEFINE v == L[S[Q[r].session].live]
           b == S[Q[r].session].unproven
           q == Carrying(Q[r], v.token)
<1>1. /\ Q[r] \in Reqs /\ v.token \in 1..Len(T) /\ Q[r].noted <= Len(T) /\ ProofInv(Q[r], v, b, T)
  BY UsingFacts
<1>t. Len(T) \in Nat
  BY FieldTypes
<1>2. /\ q \in Reqs /\ q.pc = "send" /\ q.session = Q[r].session /\ q.snap = Q[r].snap
      /\ q.purpose = Q[r].purpose /\ q.carried = v.token /\ q.noted = Q[r].noted
  <2>1. v.token \in Nat
    BY <1>1, <1>t
  <2> HIDE DEF v
  <2> QED BY <1>1, <2>1, CarryingFields
<1>3. q.pc \notin Locked /\ q.pc \notin {"refresh", "note", "refused"} /\ q.pc \in Using
  BY <1>2 DEF Locked, Using
<1> HIDE DEF q, v, b
<1>4. LockInv(r, q, v) /\ ProofInv(q, v, b, T) /\ NoteInv(q, v, T, Q, R, O)
  BY <1>1, <1>2, <1>3, SameProof DEF LockInv, NoteInv
<1>5. Q2 = [Q EXCEPT ![r] = q]
  BY DEF q, v
<1>6. q.carried <= Len(T) /\ q.noted <= Len(T) /\ q.carried # NoToken
  BY <1>1, <1>2, <1>t DEF NoToken
<1> QED BY <1>2, <1>3, <1>4, <1>5, <1>6, StayKeeps DEF v, b

Mutexed(L, l, m) == [L EXCEPT ![l].mu = m]

\* What the mutex of a live token leaves alone.
LEMMA MutexedFields ==
  ASSUME NEW L \in [LiveIds -> Lives], NEW l \in LiveIds, NEW m \in Requests \cup {None}
  PROVE  /\ Mutexed(L, l, m) \in [LiveIds -> Lives] /\ Mutexed(L, l, m)[l].mu = m
         /\ \A k \in LiveIds : /\ Mutexed(L, l, m)[k].token = L[k].token
                               /\ Mutexed(L, l, m)[k].updated = L[k].updated
                               /\ k # l => Mutexed(L, l, m)[k] = L[k]
BY DEF Mutexed, Lives

\* A request takes a mutex that is free.
LEMMA LockKeeps ==
  ASSUME NEW T, NEW L, NEW C, NEW S, NEW P, NEW Q, NEW R, NEW O, Consistent(T, L, C, S, P, Q, R, O),
         NEW r \in Requests, NEW l \in LiveIds, L[l].mu = None
  PROVE  Consistent(T, Mutexed(L, l, r), C, S, P, Q, R, O)
<1> DEFINE L2 == Mutexed(L, l, r)
<1>1. L \in [LiveIds -> Lives]
  BY Parts
<1>2. /\ L2 \in [LiveIds -> Lives]
      /\ \A k \in LiveIds : L2[k].token = L[k].token /\ L2[k].updated = L[k].updated /\ (k # l => L2[k] = L[k])
  BY <1>1, MutexedFields
<1> HIDE DEF L2
<1>3. ASSUME NEW x \in Requests, Q[x].pc \in Locked
      PROVE  L2[S[Q[x].session].live].mu = L[S[Q[x].session].live].mu
  <2>1. S[Q[x].session].live \in LiveIds
    BY <1>3, UsingFacts, PhaseFacts
  <2>2. S[Q[x].session].live # l
    BY <1>3, Alone
  <2> QED BY <1>2, <2>1, <2>2
<1>4. Consistent(T, L2, C, S, P, Q, R, O)
  BY <1>2, <1>3, MuKeeps
<1> QED BY <1>4 DEF L2

\* A request releases the mutex that it does not need any more.
LEMMA UnlockKeeps ==
  ASSUME NEW T, NEW L, NEW C, NEW S, NEW P, NEW Q, NEW R, NEW O, Consistent(T, L, C, S, P, Q, R, O),
         NEW r \in Requests, NEW l \in LiveIds, L[l].mu = r, Q[r].pc \notin Locked
  PROVE  Consistent(T, Mutexed(L, l, None), C, S, P, Q, R, O)
<1> DEFINE L2 == Mutexed(L, l, None)
<1>1. L \in [LiveIds -> Lives]
  BY Parts
<1>2. /\ L2 \in [LiveIds -> Lives]
      /\ \A k \in LiveIds : L2[k].token = L[k].token /\ L2[k].updated = L[k].updated /\ (k # l => L2[k] = L[k])
  BY <1>1, MutexedFields
<1> HIDE DEF L2
<1>3. ASSUME NEW x \in Requests, Q[x].pc \in Locked
      PROVE  L2[S[Q[x].session].live].mu = L[S[Q[x].session].live].mu
  <2>1. S[Q[x].session].live \in LiveIds
    BY <1>3, UsingFacts, PhaseFacts
  <2>2. S[Q[x].session].live # l
    BY <1>3, Alone
  <2> QED BY <1>2, <2>1, <2>2
<1>4. Consistent(T, L2, C, S, P, Q, R, O)
  BY <1>2, <1>3, MuKeeps
<1> QED BY <1>4 DEF L2

\* A request takes the mutex of its live token and presents the refresh token.
LEMMA RefreshKeeps ==
  ASSUME NEW T, NEW L, NEW C, NEW S, NEW P, NEW Q, NEW R, NEW O, Consistent(T, L, C, S, P, Q, R, O),
         NEW r \in Requests, Q[r].pc \in Using, NEW l, l = S[Q[r].session].live, L[l].mu = None,
         NEW then \in {"send", "prove", "proved"},
         NEW Q2, Q2 = [Q EXCEPT ![r] = Refreshing(Q[r], L[l].token, then)]
  PROVE  Consistent(T, Mutexed(L, l, r), C, S, P, Q2, R, O)
<1> DEFINE L2 == Mutexed(L, l, r)
           t == L[l].token
           v == L2[l]
           b == S[Q[r].session].unproven
           q == Refreshing(Q[r], t, then)
<1>1. L \in [LiveIds -> Lives] /\ l \in LiveIds
  BY Parts, UsingFacts
<1>2. Consistent(T, L2, C, S, P, Q, R, O)
  BY <1>1, LockKeeps
<1>3. v.mu = r /\ v.token = t
  BY <1>1, MutexedFields
<1>t. Len(T) \in Nat
  BY FieldTypes
<1>4. /\ Q[r] \in Reqs /\ t \in 1..Len(T) /\ Q[r].noted <= Len(T)
  BY UsingFacts
<1> HIDE DEF L2
<1>5. ProofInv(Q[r], v, b, T)
  BY <1>2, UsingFacts
<1> HIDE DEF t, v
<1>6. /\ q \in Reqs /\ q.pc = "refresh" /\ q.session = Q[r].session /\ q.snap = Q[r].snap
      /\ q.purpose = Q[r].purpose /\ q.carried = t /\ q.noted = Q[r].noted
  <2>1. t \in Nat
    BY <1>4, <1>t
  <2> QED BY <1>4, <2>1, RefreshingFields
<1> HIDE DEF q, b
<1>7. LockInv(r, q, v) /\ ProofInv(q, v, b, T) /\ NoteInv(q, v, T, Q, R, O)
  BY <1>3, <1>5, <1>6, SameProof DEF LockInv, NoteInv
<1>8. Q2 = [Q EXCEPT ![r] = q]
  BY DEF q, t
<1>9. q.carried <= Len(T) /\ q.noted <= Len(T) /\ q.carried # NoToken /\ q.pc \in Using
  BY <1>4, <1>6, <1>t DEF NoToken, Using, Locked
<1>10. Consistent(T, L2, C, S, P, Q2, R, O)
  BY <1>2, <1>6, <1>7, <1>8, <1>9, StayKeeps DEF v, b
<1> QED BY <1>10 DEF L2

Proving(S, s, t) == [S EXCEPT ![s].unproven = t]

\* Authorize notes the token that the SDK retries with.
LEMMA NotedKeeps ==
  ASSUME NEW T, NEW L, NEW C, NEW S, NEW P, NEW Q, NEW R, NEW O, Consistent(T, L, C, S, P, Q, R, O),
         NEW r \in Requests, Q[r].pc \in Using, NEW s, s = Q[r].session, NEW t, t = L[S[s].live].token,
         NEW q \in Reqs, q.pc = "token", q.session = s, q.snap = Q[r].snap, q.purpose = Q[r].purpose,
         q.carried = Q[r].carried, q.noted = t, NEW Q2, Q2 = [Q EXCEPT ![r] = q]
  PROVE  Consistent(T, L, C, Proving(S, s, t), P, Q2, R, O)
<1> DEFINE S2 == Proving(S, s, t)
           v == L[S2[s].live]
<1>1. /\ S \in [SessionIds -> Sessions] /\ s \in SessionIds /\ t \in 1..Len(T) /\ Q[r].carried <= Len(T)
  BY Parts, UsingFacts, SMTT(30)
<1>t. Len(T) \in Nat
  BY FieldTypes
<1>2. t \in Nat
  BY <1>1, <1>t
<1>3. /\ S2 \in [SessionIds -> Sessions] /\ S2[s].unproven = t
      /\ \A x \in SessionIds : S2[x].live = S[x].live /\ (x # s => S2[x].unproven = S[x].unproven)
  BY <1>1, <1>2 DEF Proving, Sessions
<1> HIDE DEF S2
<1>4. Consistent(T, L, C, S2, P, Q, R, O)
  BY <1>3, UnprovenKeeps
<1>5. q.pc \in Using /\ q.pc \notin Locked /\ q.pc \notin {"refresh", "note", "refused", "send"}
  BY DEF Using, Locked
<1>6. LockInv(r, q, v) /\ ProofInv(q, v, S2[s].unproven, T) /\ NoteInv(q, v, T, Q, R, O)
  <2> HIDE DEF v
  <2> QED BY <1>3, <1>5 DEF LockInv, NoteInv, ProofInv
<1>7. q.carried <= Len(T) /\ q.noted <= Len(T)
  BY <1>1, <1>t
<1>8. Consistent(T, L, C, S2, P, Q2, R, O)
  BY <1>4, <1>5, <1>6, <1>7, StayKeeps
<1> QED BY <1>8 DEF S2

-----------------------------------------------------------------------------
(* The steps.                                                                *)

\* The request goes on after a refresh.
LEMMA ResumeKeeps ==
  ASSUME NEW L, Consistent(tokens, L, current, sessions, pool, req, row, overwritten),
         NEW r \in Requests, req[r].pc \in Using, NEW t, t = L[sessions[req[r].session].live].token,
         Resume(r, t)
  PROVE  /\ Consistent(tokens, L, current, sessions', pool, req', row, overwritten)
         /\ req'[r].pc \notin Locked
<1>1. req \in [Requests -> Reqs] /\ req[r] \in Reqs /\ t \in 1..Len(tokens) /\ Len(tokens) \in Nat
  BY Parts, UsingFacts, FieldTypes
<1>2. t \in Nat
  BY <1>1
<1>3. CASE req[r].then = "send" /\ req' = [req EXCEPT ![r] = Carrying(req[r], t)] /\ sessions' = sessions
  <2>1. req'[r].pc = "send"
    BY <1>1, <1>2, <1>3, CarryingFields
  <2>2. Consistent(tokens, L, current, sessions, pool, req', row, overwritten)
    BY <1>3, SendKeeps
  <2> QED BY <1>3, <2>1, <2>2 DEF Locked
<1>4. ASSUME NEW q, q = [req[r] EXCEPT !.pc = "prove", !.then = "send"],
             req' = [req EXCEPT ![r] = q], sessions' = sessions
      PROVE  /\ Consistent(tokens, L, current, sessions', pool, req', row, overwritten)
             /\ req'[r].pc \notin Locked
  <2>1. q \in Reqs /\ q.pc = "prove" /\ q.session = req[r].session /\ q.snap = req[r].snap
        /\ q.purpose = req[r].purpose /\ q.carried = req[r].carried /\ q.noted = req[r].noted
    BY <1>1, <1>4 DEF Reqs, Using
  <2>2. q.pc \in Using \ (Locked \cup {"send", "refused"}) /\ req'[r] = q
    BY <1>1, <1>4, <2>1 DEF Using, Locked
  <2>3. Consistent(tokens, L, current, sessions, pool, req', row, overwritten)
    BY <1>4, <2>1, <2>2, PassKeeps
  <2> QED BY <1>4, <2>2, <2>3
<1>5. ASSUME NEW q, q = [req[r] EXCEPT !.pc = "token", !.noted = t, !.then = "send"],
             req' = [req EXCEPT ![r] = q], sessions' = Proving(sessions, req[r].session, t)
      PROVE  /\ Consistent(tokens, L, current, sessions', pool, req', row, overwritten)
             /\ req'[r].pc \notin Locked
  <2>1. q \in Reqs /\ q.pc = "token" /\ q.session = req[r].session /\ q.snap = req[r].snap
        /\ q.purpose = req[r].purpose /\ q.carried = req[r].carried /\ q.noted = t
    BY <1>1, <1>2, <1>5 DEF Reqs, Using
  <2>2. req'[r] = q
    BY <1>1, <1>5
  <2>3. Consistent(tokens, L, current, Proving(sessions, req[r].session, t), pool, req', row, overwritten)
    BY <1>5, <2>1, NotedKeeps
  <2> QED BY <1>5, <2>1, <2>2, <2>3 DEF Locked
<1> QED BY <1>3, <1>4, <1>5 DEF Resume, Step, Carrying, Proving

\* An error ends a connection attempt, and a call looks after its session.
LEMMA ErrorKeeps ==
  ASSUME NEW T, NEW L, NEW C, NEW S, NEW P, NEW R, NEW O, Consistent(T, L, C, S, P, req, R, O),
         NEW r \in Requests, req[r].pc \in Using, Error(r, "fail")
  PROVE  Consistent(T, L, C, S, P, req', R, O) /\ req'[r].pc \notin Locked
<1>1. req \in [Requests -> Reqs] /\ req[r] \in Reqs
  BY Parts, UsingFacts
<1>2. "fail" \in Using \ (Locked \cup {"send", "refused"})
  BY DEF Using, Locked
<1>3. CASE req' = [req EXCEPT ![r] = At(req[r], "fail")]
  <2>1. req'[r].pc = "fail"
    BY <1>1, <1>2, <1>3, AtFields
  <2> QED BY <1>2, <1>3, <2>1, GoKeeps
<1>4. CASE req' = [req EXCEPT ![r] = Over]
  <2>1. req'[r].pc = "done"
    <3>1. Over.pc = "done"
      BY DEF Over, Idle
    <3> QED BY <1>1, <1>4, <3>1
  <2> QED BY <1>4, <2>1, EndKeeps DEF Locked
<1> QED BY <1>3, <1>4 DEF Error, Go, Done, Step, At, Over

\* Token, for the request to the server.
LEMMA TokenStep == ASSUME Inv, NEW r \in Requests, Token(r) PROVE Inv'
<1> DEFINE l == sessions[req[r].session].live
<1>1. /\ req[r].pc = "token" /\ live[l].mu = None
      /\ \/ live' = Mutexed(live, l, r) /\ req' = [req EXCEPT ![r] = Refreshing(req[r], live[l].token, "send")]
         \/ req' = [req EXCEPT ![r] = Carrying(req[r], live[l].token)] /\ live' = live
  BY DEF Token, Unlocked, Lock, StartRefresh, Step, Live, Session, Mutexed, Refreshing, Carrying
<1>2. UNCHANGED <<tokens, current, sessions, pool, row, overwritten>>
  BY DEF Token
<1>3. req[r].pc \in Using
  BY <1>1 DEF Using
<1>4. Consistent(tokens, live, current, sessions, pool, req, row, overwritten)
  BY DEF Inv
<1> HIDE DEF l
<1>5. Consistent(tokens, live', current, sessions, pool, req', row, overwritten)
  BY <1>1, <1>3, <1>4, RefreshKeeps, SendKeeps DEF l
<1> QED BY <1>2, <1>5 DEF Inv

\* Refresh(rejected).
LEMMA RefreshRejectedStep == ASSUME Inv, NEW r \in Requests, RefreshRejected(r) PROVE Inv'
<1> DEFINE l == sessions[req[r].session].live
<1>1. /\ req[r].pc = "authorize" /\ live[l].mu = None
      /\ \/ live' = Mutexed(live, l, r) /\ req' = [req EXCEPT ![r] = Refreshing(req[r], live[l].token, "prove")]
         \/ req' = [req EXCEPT ![r] = At(req[r], "prove")] /\ live' = live
  BY DEF RefreshRejected, Unlocked, Lock, StartRefresh, Step, Go, Live, Session, Mutexed, Refreshing, At
<1>2. UNCHANGED <<tokens, current, sessions, pool, row, overwritten>>
  BY DEF RefreshRejected
<1>3. req[r].pc \in Using /\ "prove" \in Using \ (Locked \cup {"send", "refused"})
  BY <1>1 DEF Using, Locked
<1>4. Consistent(tokens, live, current, sessions, pool, req, row, overwritten)
  BY DEF Inv
<1> HIDE DEF l
<1>5. Consistent(tokens, live', current, sessions, pool, req', row, overwritten)
  BY <1>1, <1>3, <1>4, RefreshKeeps, GoKeeps DEF l
<1> QED BY <1>2, <1>5 DEF Inv

\* Authorize takes the token for the second try.
LEMMA ProveStep == ASSUME Inv, NEW r \in Requests, Prove(r) PROVE Inv'
<1> DEFINE s == req[r].session
           l == sessions[s].live
           t == live[l].token
           q == [req[r] EXCEPT !.pc = "token", !.noted = t]
<1>1. /\ req[r].pc = "prove" /\ live[l].mu = None
      /\ \/ /\ live' = Mutexed(live, l, r) /\ req' = [req EXCEPT ![r] = Refreshing(req[r], t, "proved")]
            /\ sessions' = sessions
         \/ sessions' = Proving(sessions, s, t) /\ req' = [req EXCEPT ![r] = q] /\ live' = live
  BY DEF Prove, Unlocked, Lock, StartRefresh, Step, Live, Session, Mutexed, Refreshing, Proving
<1>2. UNCHANGED <<tokens, current, pool, row, overwritten>>
  BY DEF Prove
<1>3. req[r].pc \in Using
  BY <1>1 DEF Using
<1>4. Consistent(tokens, live, current, sessions, pool, req, row, overwritten)
  BY DEF Inv
<1>5. req[r] \in Reqs /\ t \in 1..Len(tokens) /\ Len(tokens) \in Nat
  BY <1>3, <1>4, UsingFacts, FieldTypes
<1> HIDE DEF s, l, t
<1>6. /\ q \in Reqs /\ q.pc = "token" /\ q.session = req[r].session /\ q.snap = req[r].snap
      /\ q.purpose = req[r].purpose /\ q.carried = req[r].carried /\ q.noted = t
  <2>1. t \in Nat
    BY <1>5
  <2> QED BY <1>5, <2>1 DEF Reqs, Using
<1> HIDE DEF q
<1>7. Consistent(tokens, live', current, sessions', pool, req', row, overwritten)
  <2>1. CASE /\ live' = Mutexed(live, l, r) /\ req' = [req EXCEPT ![r] = Refreshing(req[r], t, "proved")]
             /\ sessions' = sessions
    BY <1>1, <1>3, <1>4, <2>1, RefreshKeeps DEF l, s, t
  <2>2. CASE sessions' = Proving(sessions, s, t) /\ req' = [req EXCEPT ![r] = q] /\ live' = live
    BY <1>1, <1>3, <1>4, <1>6, <2>2, NotedKeeps DEF l, s, t
  <2> QED BY <1>1, <2>1, <2>2
<1> QED BY <1>2, <1>7 DEF Inv

\* The vault or the database does not answer.
LEMMA SaveFailsStep == ASSUME Inv, NEW r \in Requests, SaveFails(r) PROVE Inv'
<1> DEFINE l == sessions[req[r].session].live
           t == live[l].token
<1>1. req[r].pc = "save" /\ live' = Mutexed(live, l, None) /\ Resume(r, t)
  BY DEF SaveFails, Live, Session, Mutexed
<1>2. UNCHANGED <<tokens, current, pool, row, overwritten>>
  BY DEF SaveFails
<1>3. req[r].pc \in Using /\ req[r].pc \in Locked
  BY <1>1 DEF Using, Locked
<1>4. Consistent(tokens, live, current, sessions, pool, req, row, overwritten)
  BY DEF Inv
<1>5. l \in LiveIds /\ live[l].mu = r
  BY <1>3, <1>4, UsingFacts, Alone
<1>6. /\ Consistent(tokens, live, current, sessions', pool, req', row, overwritten)
      /\ req'[r].pc \notin Locked
  BY <1>1, <1>3, <1>4, ResumeKeeps
<1> HIDE DEF l
<1>7. Consistent(tokens, live', current, sessions', pool, req', row, overwritten)
  BY <1>1, <1>5, <1>6, UnlockKeeps
<1> QED BY <1>2, <1>7 DEF Inv

Put(T, n, e) == [T EXCEPT ![n] = e]

\* What replacing a token's record does.
LEMMA PutFields ==
  ASSUME NEW T \in Seq(Tokens), NEW n \in 1..Len(T), NEW e \in Tokens
  PROVE  /\ Put(T, n, e) \in Seq(Tokens) /\ Len(Put(T, n, e)) = Len(T) /\ Put(T, n, e)[n] = e
         /\ \A k \in 1..Len(T) \ {n} : Put(T, n, e)[k] = T[k]
<1> HIDE DEF Tokens
<1> QED BY DEF Put

\* A token's history is written: it is in a live token, so it has not been
\* spent by another.
LEMMA PutKeeps ==
  ASSUME NEW T, NEW L, NEW C, NEW S, NEW P, NEW Q, NEW R, NEW O, Consistent(T, L, C, S, P, Q, R, O),
         NEW n \in 1..Len(T), NEW e \in Tokens, e.grant = T[n].grant, e.copies = T[n].copies,
         T[n].accepted => e.accepted,
         e.rotated => T[n].rotated \/ (e.lost /\ \E l \in LiveIds : L[l].token = n),
         T[n].lost => e.lost,
         e.reused => T[n].reused \/ (T[n].rotated /\ \E l \in LiveIds : L[l].token = n)
  PROVE  Consistent(Put(T, n, e), L, C, S, P, Q, R, O)
<1> DEFINE T2 == Put(T, n, e)
<1>1. T \in Seq(Tokens) /\ CopyInv(T, L)
  BY Parts
<1>t. Len(T) \in Nat /\ \A k \in 1..Len(T) : T[k].copies \in Nat
  BY FieldTypes
<1>2. T2 \in Seq(Tokens) /\ Len(T2) = Len(T) /\ T2[n] = e /\ \A k \in 1..Len(T) \ {n} : T2[k] = T[k]
  BY <1>1, PutFields
<1> HIDE DEF T2
<1>3. CopyInv(T2, L)
  <2> SUFFICES ASSUME NEW k \in 1..Len(T)
               PROVE  /\ T2[k].copies = 0 => ~T2[k].rotated /\ \A l \in LiveIds : L[l].token # k
                      /\ T2[k].copies <= 1 => \A l, m \in LiveIds : L[l].token = k /\ L[m].token = k => l = m
                      /\ T2[k].copies <= 1 /\ T2[k].rotated /\ ~T2[k].lost => \A l \in LiveIds : L[l].token # k
                      /\ T2[k].reused => T2[k].copies > 1 \/ T2[k].lost
    BY <1>2 DEF CopyInv
  <2>0. /\ T[k].copies = 0 => ~T[k].rotated /\ \A l \in LiveIds : L[l].token # k
        /\ T[k].copies <= 1 => \A l, m \in LiveIds : L[l].token = k /\ L[m].token = k => l = m
        /\ T[k].copies <= 1 /\ T[k].rotated /\ ~T[k].lost => \A l \in LiveIds : L[l].token # k
        /\ T[k].reused => T[k].copies > 1 \/ T[k].lost
    BY <1>1 DEF CopyInv
  <2>1. CASE k # n
    BY <1>2, <2>0, <2>1
  <2>2. CASE k = n
    BY <1>2, <1>t, <2>0, <2>2
  <2> QED BY <2>1, <2>2
<1>4. \A k \in 1..Len(T) : T2[k].grant = T[k].grant /\ (T[k].accepted => T2[k].accepted)
  BY <1>2
<1>5. Consistent(T2, L, C, S, P, Q, R, O)
  BY <1>2, <1>3, <1>4, MarkKeeps
<1> QED BY <1>5 DEF T2

\* A refresh gets no answer.
LEMMA RefreshFailsStep == ASSUME Inv, NEW r \in Requests, RefreshFails(r) PROVE Inv'
<1> DEFINE l == sessions[req[r].session].live
           n == req[r].carried
           e == [tokens[n] EXCEPT !.rotated = TRUE, !.lost = TRUE]
<1>1. req[r].pc = "refresh" /\ live' = Mutexed(live, l, None) /\ Error(r, "fail")
  BY DEF RefreshFails, Session, Mutexed
<1>2. UNCHANGED <<current, sessions, pool, row, overwritten>>
  BY DEF RefreshFails
<1>3. req[r].pc \in Using /\ req[r].pc \in Locked
  BY <1>1 DEF Using, Locked
<1>4. Consistent(tokens, live, current, sessions, pool, req, row, overwritten)
  BY DEF Inv
<1>5. l \in LiveIds /\ live[l].mu = r /\ n \in 1..Len(tokens) /\ LockInv(r, req[r], live[l])
  BY <1>1, <1>3, <1>4, UsingFacts, Alone, SMTT(30)
<1>6. live[l].token = n /\ tokens \in Seq(Tokens) /\ tokens[n] \in Tokens
  BY <1>1, <1>4, <1>5, FieldTypes, Parts DEF LockInv
<1>7. tokens' = tokens \/ tokens' = Put(tokens, n, e)
  BY <1>5, <1>6 DEF RefreshFails, Put, Tokens
<1>8. /\ e \in Tokens /\ e.grant = tokens[n].grant /\ e.copies = tokens[n].copies /\ e.lost
      /\ e.accepted = tokens[n].accepted /\ e.reused = tokens[n].reused
  BY <1>6 DEF Tokens
<1> HIDE DEF l, n, e
<1>9. Consistent(tokens', live, current, sessions, pool, req, row, overwritten)
  BY <1>4, <1>5, <1>6, <1>7, <1>8, PutKeeps
<1>10. /\ Consistent(tokens', live, current, sessions, pool, req', row, overwritten)
       /\ req'[r].pc \notin Locked
  BY <1>1, <1>3, <1>9, ErrorKeeps
<1>11. Consistent(tokens', live', current, sessions, pool, req', row, overwritten)
  BY <1>1, <1>5, <1>10, UnlockKeeps
<1> QED BY <1>2, <1>11 DEF Inv

Rewritten(R, status) == [R EXCEPT !.status = status, !.updated = @ + 1]

\* What writing the status of a row changes.
LEMMA RewrittenFields ==
  ASSUME NEW R \in Rows, NEW status \in {"none", "connected", "needs_reauth"}
  PROVE  /\ Rewritten(R, status) \in Rows /\ Rewritten(R, status).token = R.token
         /\ Rewritten(R, status).updated = R.updated + 1
<1>1. PICK R1 : R1 = [R EXCEPT !.status = status]
  OBVIOUS
<1>2. PICK u : u = R.updated + 1
  OBVIOUS
<1>3. R1 \in Rows /\ R1.token = R.token /\ u \in Nat
  BY <1>1, <1>2 DEF Rows
<1>4. PICK R2 : R2 = [R1 EXCEPT !.updated = u]
  OBVIOUS
<1>5. R2 \in Rows /\ R2.token = R.token /\ R2.updated = u
  BY <1>3, <1>4 DEF Rows
<1>6. Rewritten(R, status) = R2
  BY <1>1, <1>2, <1>4 DEF Rewritten
<1> QED BY <1>2, <1>5, <1>6

\* The status of the row is written.
LEMMA StatusKeeps ==
  ASSUME NEW T, NEW L, NEW C, NEW S, NEW P, NEW Q, NEW R, NEW O, Consistent(T, L, C, S, P, Q, R, O),
         NEW status \in {"none", "connected", "needs_reauth"}
  PROVE  Consistent(T, L, C, S, P, Q, Rewritten(R, status), O)
<1> DEFINE R2 == Rewritten(R, status)
<1>1. R \in Rows /\ O \in BOOLEAN
  BY Parts
<1>2. R.token \in 1..Len(T) /\ T[R.token].grant \in Nat
  BY FieldTypes
<1>3. R2 \in Rows /\ R2.token = R.token /\ R2.updated = R.updated + 1
  BY <1>1, RewrittenFields
<1>4. T[R.token].grant <= T[R2.token].grant
  BY <1>2, <1>3
<1> HIDE DEF R2
<1>5. Consistent(T, L, C, S, P, Q, R2, O)
  BY <1>1, <1>2, <1>3, <1>4, RowKeeps
<1> QED BY <1>5 DEF R2

\* The grant is gone.
LEMMA RefreshRefusedStep == ASSUME Inv, NEW r \in Requests, RefreshRefused(r) PROVE Inv'
<1> DEFINE l == sessions[req[r].session].live
           n == req[r].carried
           e == [tokens[n] EXCEPT !.reused = tokens[n].reused \/ tokens[n].rotated]
<1>1. /\ req[r].pc = "refresh" /\ live' = Mutexed(live, l, None) /\ row' = Rewritten(row, "needs_reauth")
      /\ Error(r, "fail") \/ req' = [req EXCEPT ![r] = At(req[r], "reject")]
  BY DEF RefreshRefused, SetStatus, Session, Mutexed, Rewritten, Go, Step, At
<1>2. UNCHANGED <<current, sessions, pool, overwritten>>
  BY DEF RefreshRefused
<1>3. req[r].pc \in Using /\ req[r].pc \in Locked /\ "reject" \in Using \ (Locked \cup {"send", "refused"})
  BY <1>1 DEF Using, Locked
<1>4. Consistent(tokens, live, current, sessions, pool, req, row, overwritten)
  BY DEF Inv
<1>5. l \in LiveIds /\ live[l].mu = r /\ n \in 1..Len(tokens) /\ LockInv(r, req[r], live[l])
  BY <1>1, <1>3, <1>4, UsingFacts, Alone, SMTT(30)
<1>6. live[l].token = n /\ tokens \in Seq(Tokens) /\ tokens[n] \in Tokens
  BY <1>1, <1>4, <1>5, FieldTypes, Parts DEF LockInv
<1>7. tokens' = Put(tokens, n, e)
  BY <1>5, <1>6 DEF RefreshRefused, Put, Tokens
<1>8. /\ e \in Tokens /\ e.grant = tokens[n].grant /\ e.copies = tokens[n].copies /\ e.lost = tokens[n].lost
      /\ e.accepted = tokens[n].accepted /\ e.rotated = tokens[n].rotated
      /\ e.reused => tokens[n].reused \/ tokens[n].rotated
  BY <1>6 DEF Tokens
<1> HIDE DEF l, n, e
<1>9. Consistent(tokens', live, current, sessions, pool, req, row, overwritten)
  BY <1>4, <1>5, <1>6, <1>7, <1>8, PutKeeps
<1>10. Consistent(tokens', live, current, sessions, pool, req, row', overwritten)
  BY <1>1, <1>9, StatusKeeps
<1>11. /\ Consistent(tokens', live, current, sessions, pool, req', row', overwritten)
       /\ req'[r].pc \notin Locked
  <2>1. CASE Error(r, "fail")
    BY <1>3, <1>10, <2>1, ErrorKeeps
  <2>2. CASE req' = [req EXCEPT ![r] = At(req[r], "reject")]
    <3>1. req'[r].pc = "reject"
      BY <1>3, <1>4, <2>2, Parts, AtFields
    <3> QED BY <1>3, <1>10, <2>2, <3>1, GoKeeps
  <2> QED BY <1>1, <2>1, <2>2
<1>12. Consistent(tokens', live', current, sessions, pool, req', row', overwritten)
  BY <1>1, <1>5, <1>11, UnlockKeeps
<1> QED BY <1>2, <1>12 DEF Inv

\* The token in memory is saved.
LEMMA SaveStep == ASSUME Inv, NEW r \in Requests, Save(r) PROVE Inv'
<1> DEFINE l == sessions[req[r].session].live
           t == live[l].token
           g == tokens[row.token].grant > tokens[t].grant
           q == [req[r] EXCEPT !.pc = "note", !.updated = row'.updated]
           v == live[l]
           b == sessions[req[r].session].unproven
<1>1. /\ req[r].pc = "save" /\ row' = [row EXCEPT !.token = t, !.updated = @ + 1]
      /\ req' = [req EXCEPT ![r] = q]
  BY DEF Save, Live, Session, Step
<1>2. UNCHANGED <<tokens, live, current, sessions, pool>>
  BY DEF Save
<1>3. req[r].pc \in Using /\ req[r].pc \in Locked
  BY <1>1 DEF Using, Locked
<1>4. Consistent(tokens, live, current, sessions, pool, req, row, overwritten)
  BY DEF Inv
<1>5. /\ req[r] \in Reqs /\ t \in 1..Len(tokens) /\ req[r].carried <= Len(tokens) /\ req[r].noted <= Len(tokens)
      /\ v.mu = r /\ ProofInv(req[r], v, b, tokens)
  BY <1>3, <1>4, UsingFacts, Alone
<1>6. /\ Len(tokens) \in Nat /\ row \in Rows /\ row.token \in 1..Len(tokens) /\ overwritten \in BOOLEAN
      /\ \A k \in 1..Len(tokens) : tokens[k].grant \in Nat
  BY <1>4, FieldTypes, Parts
<1>7. row' \in Rows /\ row'.token = t /\ row'.updated = row.updated + 1 /\ row'.updated \in Nat
  <2>1. t \in Nat
    BY <1>5, <1>6
  <2> HIDE DEF t
  <2>2. row' = [status |-> row.status, token |-> t, updated |-> row.updated + 1]
    BY <1>1, <1>6 DEF Rows
  <2>3. row.status \in {"none", "connected", "needs_reauth"} /\ row.updated + 1 \in Nat
    BY <1>6 DEF Rows
  <2> QED BY <2>1, <2>2, <2>3 DEF Rows
<1>8. overwritten' \in BOOLEAN /\ (overwritten => overwritten') /\ (overwritten' \/ ~g)
  <2>1. overwritten' = (overwritten \/ g)
    BY DEF Save, Live, Session
  <2> HIDE DEF g
  <2> QED BY <1>6, <2>1, Zenon
<1>9. ~g => tokens[row.token].grant <= tokens[t].grant
  BY <1>5, <1>6, SMTT(30)
<1> HIDE DEF t, g, v, b
<1>10. overwritten' \/ tokens[row.token].grant <= tokens[row'.token].grant
  BY <1>7, <1>8, <1>9, Zenon
<1>11. /\ Consistent(tokens, live, current, sessions, pool, req, row', overwritten')
       /\ overwritten' \/ Point(row'.token, row'.updated, tokens, req, row')
  BY <1>4, <1>5, <1>7, <1>8, <1>10, RowKeeps
<1>12. /\ q \in Reqs /\ q.pc = "note" /\ q.session = req[r].session /\ q.snap = req[r].snap
       /\ q.purpose = req[r].purpose /\ q.carried = req[r].carried /\ q.noted = req[r].noted
       /\ q.updated = row'.updated
  BY <1>5, <1>7 DEF Reqs, Using, Locked
<1> HIDE DEF q
<1>13. q.updated <= row'.updated /\ v.token = row'.token /\ q.pc \in Using /\ q.pc \in Locked
  BY <1>6, <1>7, <1>12 DEF t, v, Using, Locked
<1>14. LockInv(r, q, v) /\ NoteInv(q, v, tokens, req, row', overwritten')
  BY <1>5, <1>11, <1>12, <1>13 DEF LockInv, NoteInv
<1>15. ProofInv(q, v, b, tokens)
  BY <1>3, <1>5, <1>12, SameProof
<1>16. Consistent(tokens, live, current, sessions, pool, req', row', overwritten')
  BY <1>1, <1>3, <1>5, <1>11, <1>12, <1>13, <1>14, <1>15, StayKeeps DEF v, b, l
<1> QED BY <1>2, <1>16 DEF Inv

Dated(L, l, u) == [L EXCEPT ![l].updated = u]

\* What dating a live token leaves alone.
LEMMA DatedFields ==
  ASSUME NEW L \in [LiveIds -> Lives], NEW l \in LiveIds, NEW u \in Nat
  PROVE  /\ Dated(L, l, u) \in [LiveIds -> Lives] /\ Dated(L, l, u)[l].updated = u
         /\ \A k \in LiveIds : /\ Dated(L, l, u)[k].token = L[k].token
                               /\ Dated(L, l, u)[k].mu = L[k].mu
                               /\ k # l => Dated(L, l, u)[k] = L[k]
BY DEF Dated, Lives

\* A live token is dated and released at once.
LEMMA DatedMutexed ==
  ASSUME NEW L \in [LiveIds -> Lives], NEW l \in LiveIds, NEW u \in Nat
  PROVE  [L EXCEPT ![l].mu = None, ![l].updated = u] = Mutexed(Dated(L, l, u), l, None)
BY DEF Dated, Mutexed, Lives

\* The live token takes over the date of the row.
LEMMA NoteStep == ASSUME Inv, NEW r \in Requests, Note(r) PROVE Inv'
<1> DEFINE l == sessions[req[r].session].live
           t == live[l].token
           u == req[r].updated
           L2 == Dated(live, l, u)
<1>1. req[r].pc = "note" /\ live' = [live EXCEPT ![l].mu = None, ![l].updated = u] /\ Resume(r, t)
  BY DEF Note, Live, Session
<1>2. UNCHANGED <<tokens, current, pool, row, overwritten>>
  BY DEF Note
<1>3. req[r].pc \in Using /\ req[r].pc \in Locked
  BY <1>1 DEF Using, Locked
<1>4. Consistent(tokens, live, current, sessions, pool, req, row, overwritten)
  BY DEF Inv
<1>5. /\ l \in LiveIds /\ live[l].mu = r /\ live \in [LiveIds -> Lives] /\ req[r] \in Reqs
      /\ NoteInv(req[r], live[l], tokens, req, row, overwritten)
  BY <1>3, <1>4, UsingFacts, Alone, Parts
<1>6. u \in Nat /\ u <= row.updated /\ (overwritten \/ Point(t, u, tokens, req, row))
  BY <1>1, <1>5 DEF NoteInv, Reqs
<1> HIDE DEF u
<1>7. /\ L2 \in [LiveIds -> Lives] /\ L2[l].updated = u
      /\ \A k \in LiveIds : L2[k].token = live[k].token /\ L2[k].mu = live[k].mu /\ (k # l => L2[k] = live[k])
  BY <1>5, <1>6, DatedFields, SMTT(30)
<1>8. live' = Mutexed(L2, l, None)
  BY <1>1, <1>5, <1>6, DatedMutexed
<1> HIDE DEF L2
<1>9. Consistent(tokens, L2, current, sessions, pool, req, row, overwritten)
  <2>1. \A k \in LiveIds : \/ L2[k].updated = live[k].updated
                           \/ /\ L2[k].updated <= row.updated
                              /\ overwritten \/ Point(live[k].token, L2[k].updated, tokens, req, row)
    BY <1>6, <1>7
  <2>2. \A x \in Requests : req[x].pc \in Locked =>
          L2[sessions[req[x].session].live].mu = live[sessions[req[x].session].live].mu
    BY <1>4, <1>7, UsingFacts, PhaseFacts
  <2> QED BY <1>4, <1>7, <2>1, <2>2, MuKeeps
<1>10. t = L2[l].token /\ L2[l].mu = r
  BY <1>5, <1>7
<1> HIDE DEF t
<1>11. /\ Consistent(tokens, L2, current, sessions', pool, req', row, overwritten)
       /\ req'[r].pc \notin Locked
  BY <1>1, <1>3, <1>9, <1>10, ResumeKeeps
<1> HIDE DEF l
<1>12. Consistent(tokens, live', current, sessions', pool, req', row, overwritten)
  BY <1>5, <1>8, <1>10, <1>11, UnlockKeeps
<1> QED BY <1>2, <1>12 DEF Inv

\* The server answers.
LEMMA AnsweredStep == ASSUME Inv, NEW r \in Requests, Answered(r) PROVE Inv'
<1> DEFINE s == req[r].session
           n == req[r].carried
           e == [tokens[n] EXCEPT !.accepted = TRUE]
<1>1. /\ req[r].pc = "send"
      /\ \/ sessions' = sessions
         \/ sessions' = Proving(sessions, s, NoToken) /\ sessions[s].unproven = n
      /\ \/ req' = [req EXCEPT ![r] = At(req[r], "insert")]
         \/ req' = [req EXCEPT ![r] = Over]
  BY DEF Answered, Fresh, Session, Proving, Go, Done, Step, At, Over
<1>2. UNCHANGED <<live, current, pool, row, overwritten>>
  BY DEF Answered
<1>3. req[r].pc \in Using /\ "insert" \in Using \ (Locked \cup {"send", "refused"})
  BY <1>1 DEF Using, Locked
<1>4. Consistent(tokens, live, current, sessions, pool, req, row, overwritten)
  BY DEF Inv
<1>5. s \in SessionIds /\ n \in 1..Len(tokens) /\ sessions \in [SessionIds -> Sessions] /\ tokens \in Seq(Tokens)
  BY <1>1, <1>3, <1>4, UsingFacts, Parts
<1>6. tokens[n] \in Tokens
  BY <1>4, <1>5, FieldTypes
<1>7. tokens' = Put(tokens, n, e)
  BY <1>5, <1>6 DEF Answered, Put, Tokens
<1>8. /\ e \in Tokens /\ e.grant = tokens[n].grant /\ e.copies = tokens[n].copies /\ e.lost = tokens[n].lost
      /\ e.accepted /\ e.rotated = tokens[n].rotated /\ e.reused = tokens[n].reused
  BY <1>6 DEF Tokens
<1> HIDE DEF n, e
<1>9. Consistent(tokens', live, current, sessions, pool, req, row, overwritten)
  BY <1>4, <1>5, <1>7, <1>8, PutKeeps
<1>10. tokens'[n].accepted /\ Len(tokens') = Len(tokens)
  BY <1>5, <1>7, <1>8, PutFields
<1> HIDE DEF s
<1>11. Consistent(tokens', live, current, sessions', pool, req, row, overwritten)
  <2>1. CASE sessions' = sessions
    BY <1>9, <2>1
  <2>2. CASE sessions' = Proving(sessions, s, NoToken) /\ sessions[s].unproven = n
    <3>1. /\ sessions' \in [SessionIds -> Sessions]
          /\ \A x \in SessionIds : sessions'[x].live = sessions[x].live
                                   /\ (x # s => sessions'[x].unproven = sessions[x].unproven)
      BY <1>5, <2>2 DEF Proving, Sessions, NoToken
    <3>2. \A x \in SessionIds : \/ sessions'[x].unproven = sessions[x].unproven
                                \/ sessions[x].unproven \in 1..Len(tokens') /\ tokens'[sessions[x].unproven].accepted
      BY <1>5, <1>10, <2>2, <3>1
    <3> QED BY <1>9, <3>1, <3>2, UnprovenKeeps
  <2> QED BY <1>1, <2>1, <2>2
<1>12. Consistent(tokens', live, current, sessions', pool, req', row, overwritten)
  BY <1>1, <1>3, <1>11, GoKeeps, EndKeeps
<1> QED BY <1>2, <1>12 DEF Inv

\* The server refuses a token.
LEMMA RejectedStep == ASSUME Inv, NEW r \in Requests, NEW status, Rejected(r, status) PROVE Inv'
<1> DEFINE s == req[r].session
           v == live[sessions[s].live]
           b == sessions[s].unproven
           q == At(req[r], "refused")
<1>1. /\ req[r].pc = "send"
      /\ \/ ~(b # NoToken /\ b = req[r].carried) /\ req[r].noted # NoToken /\ req' = [req EXCEPT ![r] = q]
         \/ req' = [req EXCEPT ![r] = At(req[r], "authorize")]
         \/ req' = [req EXCEPT ![r] = At(req[r], "reject")]
  BY DEF Rejected, Fresh, Session, Go, Step, At
<1>2. UNCHANGED <<tokens, live, current, sessions, pool, row, overwritten>>
  BY DEF Rejected
<1>3. req[r].pc \in Using /\ {"authorize", "reject"} \subseteq Using \ (Locked \cup {"send", "refused"})
  BY <1>1 DEF Using, Locked
<1>4. Consistent(tokens, live, current, sessions, pool, req, row, overwritten)
  BY DEF Inv
<1>5. CASE ~(b # NoToken /\ b = req[r].carried) /\ req[r].noted # NoToken /\ req' = [req EXCEPT ![r] = q]
  <2>1. /\ req[r] \in Reqs /\ req[r].carried \in 1..Len(tokens) /\ Len(tokens) \in Nat
        /\ req[r].noted <= Len(tokens) /\ ProofInv(req[r], v, b, tokens)
    BY <1>1, <1>3, <1>4, UsingFacts, FieldTypes
  <2>2. "refused" \in Using /\ "refused" \notin Locked
    BY DEF Using, Locked
  <2>3. /\ q \in Reqs /\ q.pc = "refused" /\ q.session = req[r].session /\ q.snap = req[r].snap
        /\ q.purpose = req[r].purpose /\ q.carried = req[r].carried /\ q.noted = req[r].noted
    BY <2>1, <2>2, AtFields
  <2>4. req[r].carried # NoToken
    BY <2>1 DEF NoToken
  <2> HIDE DEF q, v, b
  <2>5. LockInv(r, q, v) /\ NoteInv(q, v, tokens, req, row, overwritten)
    BY <2>2, <2>3 DEF LockInv, NoteInv
  <2>6. ProofInv(q, v, b, tokens)
    BY <1>3, <1>5, <2>1, <2>3, <2>4 DEF ProofInv
  <2>7. q.carried <= Len(tokens) /\ q.noted <= Len(tokens) /\ q.pc \in Using /\ q.pc \notin {"send", "refresh"}
    BY <2>1, <2>2, <2>3
  <2>8. Consistent(tokens, live, current, sessions, pool, req', row, overwritten)
    BY <1>3, <1>4, <1>5, <2>3, <2>5, <2>6, <2>7, StayKeeps DEF v, b
  <2> QED BY <1>2, <2>8 DEF Inv
<1>6. CASE \E pc \in {"authorize", "reject"} : req' = [req EXCEPT ![r] = At(req[r], pc)]
  <2>1. Consistent(tokens, live, current, sessions, pool, req', row, overwritten)
    BY <1>3, <1>4, <1>6, GoKeeps
  <2> QED BY <1>2, <2>1 DEF Inv
<1> QED BY <1>1, <1>5, <1>6

\* A request has no session (again).
LEMMA OpeningKeeps ==
  ASSUME NEW T, NEW L, NEW C, NEW S, NEW P, NEW Q, NEW R, NEW O, Consistent(T, L, C, S, P, Q, R, O),
         NEW r \in Requests, NEW q \in Reqs, q.pc \in Opening, q.session = Absent, q.snap \in Read(Q, R),
         q.carried <= Len(T), q.noted <= Len(T), NEW Q2, Q2 = [Q EXCEPT ![r] = q]
  PROVE  Consistent(T, L, C, S, P, Q2, R, O)
<1>1. /\ q.pc \notin Using /\ q.pc \notin Locked /\ q.pc \notin {"refused", "note", "send", "refresh"}
  BY DEF Opening, Using, Locked
<1>2. WhereInv(q, T)
  BY <1>1 DEF WhereInv
<1>3. /\ LockInv(r, q, L[S[q.session].live]) /\ ProofInv(q, L[S[q.session].live], S[q.session].unproven, T)
      /\ ServedInv(q, L[S[q.session].live], T, O) /\ NoteInv(q, L[S[q.session].live], T, Q, R, O)
  BY <1>1 DEF LockInv, ProofInv, ServedInv, NoteInv
<1>4. ReqInv(r, q, T, L, S, Q, R, O)
  BY <1>2, <1>3, Zenon DEF ReqInv
<1> QED BY <1>4, MoveKeeps

\* The call goes out on a session that is in use.
LEMMA UseKeeps ==
  ASSUME NEW T, NEW L, NEW C, NEW S, NEW P, NEW Q, NEW R, NEW O, Consistent(T, L, C, S, P, Q, R, O),
         NEW r \in Requests, Q[r].pc \in Opening \cup Using, NEW s \in UsedIn(P, Q), s # Absent,
         NEW q, q = [Q[r] EXCEPT !.pc = "token", !.session = s, !.purpose = "call",
                                 !.carried = NoToken, !.noted = NoToken],
         NEW Q2, Q2 = [Q EXCEPT ![r] = q]
  PROVE  Consistent(T, L, C, S, P, Q2, R, O)
<1>1. /\ Q \in [Requests -> Reqs] /\ P \in SessionIds \cup {Absent} /\ RefInv(T, L, C, S, P, Q, R) /\ Len(T) \in Nat
  BY Parts, FieldTypes
<1>2. s \in SessionIds
  <2>1. \A x \in Requests : Q[x].session \in SessionIds \cup {Absent}
    BY <1>1 DEF Reqs
  <2> QED BY <1>1, <2>1 DEF UsedIn, ActiveIn
<1>3. Q[r] \in Reqs
  BY <1>1
<1>4. q \in Reqs
  BY <1>2, <1>3 DEF Reqs, Using, NoToken
<1>5. /\ q.pc = "token" /\ q.session = s /\ q.purpose = "call" /\ q.carried = NoToken /\ q.noted = NoToken
      /\ q.snap = Q[r].snap
  BY <1>3 DEF Reqs
<1>6. Q[r].snap \in Read(Q, R)
  BY PhaseFacts DEF Read, ActiveIn
<1>7. S[s].live # Absent /\ L[S[s].live].token # NoToken
  BY <1>1 DEF RefInv
<1>8. /\ q.pc \notin Opening \cup Ended /\ q.pc \notin Locked /\ q.pc \notin {"refused", "note", "send", "refresh"}
  BY <1>5 DEF Opening, Ended, Locked
<1>9. WhereInv(q, T)
  BY <1>1, <1>5, <1>8 DEF WhereInv, NoToken
<1>10. /\ LockInv(r, q, L[S[q.session].live]) /\ ProofInv(q, L[S[q.session].live], S[q.session].unproven, T)
       /\ ServedInv(q, L[S[q.session].live], T, O) /\ NoteInv(q, L[S[q.session].live], T, Q, R, O)
  BY <1>5, <1>8 DEF LockInv, ProofInv, ServedInv, NoteInv
<1>11. ReqInv(r, q, T, L, S, Q, R, O)
  BY <1>9, <1>10, Zenon DEF ReqInv
<1> QED BY <1>4, <1>5, <1>6, <1>7, <1>11, MoveKeeps

\* A session that the server does not know any more.
LEMMA SessionMissingStep == ASSUME Inv, NEW r \in Requests, SessionMissing(r) PROVE Inv'
<1> DEFINE q == [req[r] EXCEPT !.pc = "entry", !.session = Absent, !.attempt = 1]
<1>1. /\ req[r].pc = "send" /\ pool' = Absent
      /\ req' = [req EXCEPT ![r] = q] \/ req' = [req EXCEPT ![r] = Over]
  BY DEF SessionMissing, Invalidate, Done, Step, Over
<1>2. UNCHANGED <<tokens, live, current, sessions, row, overwritten>>
  BY DEF SessionMissing
<1>3. req[r].pc \in Using
  BY <1>1 DEF Using
<1>4. Consistent(tokens, live, current, sessions, pool, req, row, overwritten)
  BY DEF Inv
<1>5. Consistent(tokens, live, current, sessions, pool', req, row, overwritten)
  BY <1>1, <1>4, PoolKeeps
<1>6. /\ req[r] \in Reqs /\ req[r].snap \in Read(req, row)
      /\ req[r].carried <= Len(tokens) /\ req[r].noted <= Len(tokens)
  BY <1>3, <1>4, UsingFacts
<1>7. /\ q \in Reqs /\ q.pc = "entry" /\ q.session = Absent /\ q.snap = req[r].snap
      /\ q.carried = req[r].carried /\ q.noted = req[r].noted
  BY <1>6 DEF Reqs, Opening
<1>8. q.pc \in Opening
  BY <1>7 DEF Opening
<1> HIDE DEF q
<1>9. Consistent(tokens, live, current, sessions, pool', req', row, overwritten)
  BY <1>1, <1>5, <1>6, <1>7, <1>8, OpeningKeeps, EndKeeps
<1> QED BY <1>2, <1>9 DEF Inv

\* No answer, or nobody who waits for it.
LEMMA UnansweredStep == ASSUME Inv, NEW r \in Requests, Unanswered(r) PROVE Inv'
<1>1. req[r].pc = "send" /\ (Error(r, "fail") \/ req' = [req EXCEPT ![r] = Over])
  BY DEF Unanswered, Done, Step, Over
<1>2. UNCHANGED <<tokens, live, current, sessions, pool, row, overwritten>>
  BY DEF Unanswered
<1>3. req[r].pc \in Using
  BY <1>1 DEF Using
<1>4. Consistent(tokens, live, current, sessions, pool, req', row, overwritten)
  BY <1>1, <1>3, ErrorKeeps, EndKeeps DEF Inv
<1> QED BY <1>2, <1>4 DEF Inv

\* onRejected.
LEMMA RejectStep == ASSUME Inv, NEW r \in Requests, Reject(r) PROVE Inv'
<1>1. UNCHANGED <<tokens, live, sessions, overwritten>>
  BY DEF Reject
<1>2. Consistent(tokens, live, current, sessions, pool, req, row, overwritten)
  BY DEF Inv
<1>3. {"invalidate", "forget"} \subseteq Using \ (Locked \cup {"send", "refused"})
  BY DEF Using, Locked
<1>4. CASE /\ req[r].pc = "reject" /\ row' = Rewritten(row, "needs_reauth")
           /\ req' = [req EXCEPT ![r] = At(req[r], "invalidate")] /\ UNCHANGED <<pool, current>>
  <2>1. req[r].pc \in Using
    BY <1>4 DEF Using
  <2>2. Consistent(tokens, live, current, sessions, pool, req, row', overwritten)
    BY <1>2, <1>4, StatusKeeps
  <2>3. Consistent(tokens, live, current, sessions, pool, req', row', overwritten)
    BY <1>3, <1>4, <2>1, <2>2, GoKeeps
  <2> QED BY <1>1, <1>4, <2>3 DEF Inv
<1>5. CASE /\ req[r].pc = "invalidate" /\ pool' = Absent
           /\ req' = [req EXCEPT ![r] = At(req[r], "forget")] /\ UNCHANGED <<row, current>>
  <2>1. req[r].pc \in Using
    BY <1>5 DEF Using
  <2>2. Consistent(tokens, live, current, sessions, pool', req, row, overwritten)
    BY <1>2, <1>5, PoolKeeps
  <2>3. Consistent(tokens, live, current, sessions, pool', req', row, overwritten)
    BY <1>3, <1>5, <2>1, <2>2, GoKeeps
  <2> QED BY <1>1, <1>5, <2>3 DEF Inv
<1>6. CASE req[r].pc = "forget" /\ current' = Absent /\ Error(r, "fail") /\ UNCHANGED <<row, pool>>
  <2>1. req[r].pc \in Using
    BY <1>6 DEF Using
  <2>2. pool \in UsedIn(pool, req)
    BY DEF UsedIn
  <2>3. Consistent(tokens, live, current', sessions, pool, req, row, overwritten)
    BY <1>2, <1>6, <2>2, PoolKeeps
  <2>4. Consistent(tokens, live, current', sessions, pool, req', row, overwritten)
    BY <1>6, <2>1, <2>3, ErrorKeeps
  <2> QED BY <1>1, <1>6, <2>4 DEF Inv
<1> QED BY <1>4, <1>5, <1>6 DEF Reject, SetStatus, Rewritten, Invalidate, Forget, Go, Step, At

\* dropBrokenSession.
LEMMA FailStep == ASSUME Inv, NEW r \in Requests, Fail(r) PROVE Inv'
<1>1. (pool' = Absent \/ pool' = pool) /\ req' = [req EXCEPT ![r] = Over]
  BY DEF Fail, Invalidate, Done, Step, Over
<1>2. UNCHANGED <<tokens, live, current, sessions, row, overwritten>>
  BY DEF Fail
<1>3. Consistent(tokens, live, current, sessions, pool, req', row, overwritten)
  BY <1>1, EndKeeps DEF Inv
<1>4. pool \in UsedIn(pool, req')
  BY DEF UsedIn
<1>5. Consistent(tokens, live, current, sessions, pool', req', row, overwritten)
  BY <1>1, <1>3, <1>4, PoolKeeps
<1> QED BY <1>2, <1>5 DEF Inv

\* The vault does not open the credentials.
LEMMA OpenFailsStep == ASSUME Inv, NEW r \in Requests, OpenFails(r) PROVE Inv'
<1>1. req' = [req EXCEPT ![r] = Over] /\ UNCHANGED <<tokens, live, current, sessions, pool, row, overwritten>>
  BY DEF OpenFails, Done, Step, Over
<1>2. Consistent(tokens, live, current, sessions, pool, req', row, overwritten)
  BY <1>1, EndKeeps DEF Inv
<1> QED BY <1>1, <1>2 DEF Inv

\* A call begins with the row it reads.
LEMMA CallToolStep == ASSUME Inv, NEW r \in Requests, CallTool(r) PROVE Inv'
<1> DEFINE q == [req[r] EXCEPT !.pc = "entry", !.snap = row]
<1>1. req[r].pc = "idle" /\ req' = [req EXCEPT ![r] = q]
  BY DEF CallTool, Step
<1>2. UNCHANGED <<tokens, live, current, sessions, pool, row, overwritten>>
  BY DEF CallTool
<1>3. Consistent(tokens, live, current, sessions, pool, req, row, overwritten)
  BY DEF Inv
<1>4. /\ req \in [Requests -> Reqs] /\ row \in Rows
      /\ ReqInv(r, req[r], tokens, live, sessions, req, row, overwritten)
  BY <1>3, Parts
<1>5. WhereInv(req[r], tokens)
  BY <1>4 DEF ReqInv
<1>6. req[r].session = Absent /\ req[r].carried <= Len(tokens) /\ req[r].noted <= Len(tokens)
  BY <1>1, <1>5 DEF WhereInv, Ended
<1>7. req[r] \in Reqs
  BY <1>4
<1>8. /\ q \in Reqs /\ q.pc = "entry" /\ q.session = req[r].session /\ q.snap = row
      /\ q.carried = req[r].carried /\ q.noted = req[r].noted
  BY <1>4, <1>7 DEF Reqs, Opening
<1>9. q.pc \in Opening /\ row \in Read(req, row)
  BY <1>8 DEF Opening, Read
<1> HIDE DEF q
<1>10. Consistent(tokens, live, current, sessions, pool, req', row, overwritten)
  BY <1>1, <1>3, <1>6, <1>8, <1>9, OpeningKeeps
<1> QED BY <1>2, <1>10 DEF Inv

\* A session is looked for in the pool.
LEMMA EntryStep == ASSUME Inv, NEW r \in Requests, Entry(r) PROVE Inv'
<1> DEFINE q == [req[r] EXCEPT !.pc = "token", !.session = pool, !.purpose = "call",
                               !.carried = NoToken, !.noted = NoToken]
<1>1. /\ req[r].pc = "entry"
      /\ \/ pool # Absent /\ req' = [req EXCEPT ![r] = q]
         \/ req' = [req EXCEPT ![r] = At(req[r], "source")]
  BY DEF Entry, UseSession, Go, Step, At
<1>2. UNCHANGED <<tokens, live, current, sessions, pool, row, overwritten>>
  BY DEF Entry
<1>3. Consistent(tokens, live, current, sessions, pool, req, row, overwritten)
  BY DEF Inv
<1>4. req[r].pc \in Opening /\ pool \in UsedIn(pool, req)
  BY <1>1 DEF Opening, UsedIn
<1>5. CASE pool # Absent /\ req' = [req EXCEPT ![r] = q]
  <2> HIDE DEF q
  <2>1. Consistent(tokens, live, current, sessions, pool, req', row, overwritten)
    BY <1>3, <1>4, <1>5, UseKeeps DEF q
  <2> QED BY <1>2, <2>1 DEF Inv
<1>6. CASE req' = [req EXCEPT ![r] = At(req[r], "source")]
  <2> DEFINE p == At(req[r], "source")
  <2>1. req \in [Requests -> Reqs] /\ ReqInv(r, req[r], tokens, live, sessions, req, row, overwritten)
    BY <1>3, Parts
  <2>2. WhereInv(req[r], tokens)
    BY <2>1 DEF ReqInv
  <2>3. req[r].session = Absent /\ req[r].carried <= Len(tokens) /\ req[r].noted <= Len(tokens)
    BY <1>4, <2>2 DEF WhereInv
  <2>4. req[r] \in Reqs /\ req[r].snap \in Read(req, row) /\ "source" \in Opening
    BY <1>4, <2>1, PhaseFacts DEF Read, ActiveIn, Opening
  <2>5. /\ p \in Reqs /\ p.pc \in Opening /\ p.session = req[r].session /\ p.snap = req[r].snap
        /\ p.carried = req[r].carried /\ p.noted = req[r].noted
    BY <2>4, AtFields
  <2>6. req' = [req EXCEPT ![r] = p]
    BY <1>6
  <2> HIDE DEF p
  <2>7. Consistent(tokens, live, current, sessions, pool, req', row, overwritten)
    BY <1>3, <2>3, <2>4, <2>5, <2>6, OpeningKeeps
  <2> QED BY <1>2, <2>7 DEF Inv
<1> QED BY <1>1, <1>5, <1>6

\* The connected session goes into the pool.
LEMMA InsertStep == ASSUME Inv, NEW r \in Requests, Insert(r) PROVE Inv'
<1> DEFINE q == [req[r] EXCEPT !.pc = "token", !.session = pool', !.purpose = "call",
                               !.carried = NoToken, !.noted = NoToken]
<1>1. /\ req[r].pc = "insert" /\ req' = [req EXCEPT ![r] = q]
      /\ pool' = IF pool = Absent THEN req[r].session ELSE pool
  BY DEF Insert, UseSession, Step
<1>2. UNCHANGED <<tokens, live, current, sessions, row, overwritten>>
  BY DEF Insert
<1>3. Consistent(tokens, live, current, sessions, pool, req, row, overwritten)
  BY DEF Inv
<1>4. req[r].pc \in Using
  BY <1>1 DEF Using
<1>5. req[r].session \in UsedIn(pool, req) /\ req[r].session # Absent
  BY <1>3, <1>4, UsingFacts, IdFacts
<1>6. pool' \in UsedIn(pool, req) /\ pool' # Absent /\ pool' \in UsedIn(pool', req)
  BY <1>1, <1>5 DEF UsedIn
<1>7. Consistent(tokens, live, current, sessions, pool', req, row, overwritten)
  BY <1>3, <1>6, PoolKeeps
<1> HIDE DEF q
<1>8. Consistent(tokens, live, current, sessions, pool', req', row, overwritten)
  BY <1>1, <1>4, <1>6, <1>7, UseKeeps DEF q
<1> QED BY <1>2, <1>8 DEF Inv

\* What issuing a token does.
LEMMA AppendFields ==
  ASSUME NEW T \in Seq(Tokens), NEW e \in Tokens
  PROVE  /\ Append(T, e) \in Seq(Tokens) /\ Len(Append(T, e)) = Len(T) + 1 /\ Append(T, e)[Len(T) + 1] = e
         /\ \A k \in 1..Len(T) : Append(T, e)[k] = T[k]
<1> HIDE DEF Tokens
<1> QED OBVIOUS

\* A new token comes back.
LEMMA RefreshedStep == ASSUME Inv, NEW r \in Requests, Refreshed(r) PROVE Inv'
<1> DEFINE l == sessions[req[r].session].live
           n == req[r].carried
           e == [tokens[n] EXCEPT !.rotated = TRUE]
           f == Issued(tokens[n].grant, 1)
           q == At(req[r], "save")
           v == live[l]
           b == sessions[req[r].session].unproven
           m == Len(tokens) + 1
<1>1. req[r].pc = "refresh" /\ req' = [req EXCEPT ![r] = q]
  BY DEF Refreshed, Go, Step, At
<1>2. UNCHANGED <<current, sessions, pool, row, overwritten>>
  BY DEF Refreshed
<1>3. req[r].pc \in Using /\ req[r].pc \in Locked /\ "save" \in Using /\ "save" \in Locked
  BY <1>1 DEF Using, Locked
<1>4. Consistent(tokens, live, current, sessions, pool, req, row, overwritten)
  BY DEF Inv
<1>5. /\ l \in LiveIds /\ v.mu = r /\ n \in 1..Len(tokens) /\ LockInv(r, req[r], v)
      /\ req[r] \in Reqs /\ req \in [Requests -> Reqs] /\ ProofInv(req[r], v, b, tokens)
      /\ n <= Len(tokens) /\ req[r].noted <= Len(tokens) /\ live \in [LiveIds -> Lives]
  BY <1>1, <1>3, <1>4, UsingFacts, Alone, Parts
<1>6. v.token = n /\ tokens \in Seq(Tokens) /\ tokens[n] \in Tokens /\ CopyInv(tokens, live) /\ GrantInv(tokens)
  BY <1>1, <1>4, <1>5, FieldTypes, Parts DEF LockInv
<1>t. /\ Len(tokens) \in Nat /\ \A k \in 1..Len(tokens) : tokens[k].copies \in Nat /\ tokens[k].grant \in Nat
      /\ \A k \in LiveIds : live[k].token \in 0..Len(tokens)
  BY <1>4, FieldTypes
<1>7. /\ e \in Tokens /\ e.grant = tokens[n].grant /\ e.copies = tokens[n].copies /\ e.lost = tokens[n].lost
      /\ e.accepted = tokens[n].accepted /\ e.reused = tokens[n].reused
  BY <1>6 DEF Tokens
<1>8. f \in Tokens /\ f.grant = tokens[n].grant /\ f.copies = 1 /\ f.rotated = FALSE /\ f.reused = FALSE
  BY <1>6 DEF Tokens, Issued
<1>9. tokens' = Append(Put(tokens, n, e), f) /\ live' = [live EXCEPT ![l].token = Len(tokens')]
  BY <1>5, <1>6 DEF Refreshed, Put, Tokens, Session
<1>10. /\ q \in Reqs /\ q.pc = "save" /\ q.session = req[r].session /\ q.snap = req[r].snap
       /\ q.purpose = req[r].purpose /\ q.carried = n /\ q.noted = req[r].noted
  BY <1>3, <1>5, AtFields
<1> HIDE DEF e, f, q
<1>11. Consistent(tokens, live, current, sessions, pool, req', row, overwritten)
  <2> HIDE DEF v, b, n
  <2>1. LockInv(r, q, v) /\ NoteInv(q, v, tokens, req, row, overwritten)
    BY <1>5, <1>10 DEF LockInv, NoteInv
  <2>2. ProofInv(q, v, b, tokens)
    BY <1>3, <1>5, <1>10, SameProof
  <2>3. q.carried <= Len(tokens) /\ q.noted <= Len(tokens) /\ q.pc \in Using /\ q.pc \notin {"send", "refresh"}
    BY <1>3, <1>5, <1>10
  <2> QED BY <1>1, <1>3, <1>4, <1>10, <2>1, <2>2, <2>3, StayKeeps DEF v, b
<1>12. /\ tokens' \in Seq(Tokens) /\ Len(tokens') = m /\ tokens'[m] = f /\ tokens'[n] = e
       /\ \A k \in 1..Len(tokens) \ {n} : tokens'[k] = tokens[k]
  <2> DEFINE T1 == Put(tokens, n, e)
  <2>1. /\ T1 \in Seq(Tokens) /\ Len(T1) = Len(tokens) /\ T1[n] = e
        /\ \A k \in 1..Len(tokens) \ {n} : T1[k] = tokens[k]
    BY <1>5, <1>6, <1>7, PutFields
  <2> HIDE DEF T1
  <2>2. /\ Append(T1, f) \in Seq(Tokens) /\ Len(Append(T1, f)) = Len(T1) + 1
        /\ Append(T1, f)[Len(T1) + 1] = f /\ \A k \in 1..Len(T1) : Append(T1, f)[k] = T1[k]
    BY <1>8, <2>1, AppendFields
  <2>3. tokens' = Append(T1, f)
    BY <1>9 DEF T1
  <2> QED BY <1>5, <2>1, <2>2, <2>3
<1>13. /\ live' \in [LiveIds -> Lives] /\ live'[l].token = m
       /\ \A k \in LiveIds : /\ live'[k].updated = live[k].updated /\ live'[k].mu = live[k].mu
                             /\ k # l => live'[k] = live[k]
  <2>1. m \in Nat /\ live' = [live EXCEPT ![l].token = m]
    BY <1>9, <1>12, <1>t
  <2> HIDE DEF l, m
  <2> QED BY <1>5, <2>1 DEF Lives
<1> HIDE DEF n, l
<1>14. CopyInv(tokens', live')
  <2> SUFFICES ASSUME NEW k \in 1..m
               PROVE  /\ tokens'[k].copies = 0 => ~tokens'[k].rotated /\ \A x \in LiveIds : live'[x].token # k
                      /\ tokens'[k].copies <= 1 =>
                           \A x, y \in LiveIds : live'[x].token = k /\ live'[y].token = k => x = y
                      /\ tokens'[k].copies <= 1 /\ tokens'[k].rotated /\ ~tokens'[k].lost =>
                           \A x \in LiveIds : live'[x].token # k
                      /\ tokens'[k].reused => tokens'[k].copies > 1 \/ tokens'[k].lost
    BY <1>12 DEF CopyInv
  <2>1. CASE k = m
    <3>1. \A x \in LiveIds : live'[x].token = m => x = l
      BY <1>13, <1>t
    <3> QED BY <1>8, <1>12, <2>1, <3>1
  <2>2. CASE k # m
    <3>1. k \in 1..Len(tokens)
      BY <2>2, <1>t
    <3>2. \A x \in LiveIds : live'[x].token = k => x # l /\ live[x].token = k
      BY <1>13, <2>2
    <3>3. /\ tokens[k].copies = 0 => ~tokens[k].rotated /\ \A x \in LiveIds : live[x].token # k
          /\ tokens[k].copies <= 1 => \A x, y \in LiveIds : live[x].token = k /\ live[y].token = k => x = y
          /\ tokens[k].copies <= 1 /\ tokens[k].rotated /\ ~tokens[k].lost => \A x \in LiveIds : live[x].token # k
          /\ tokens[k].reused => tokens[k].copies > 1 \/ tokens[k].lost
      BY <1>6, <3>1 DEF CopyInv
    <3>4. CASE k # n
      BY <1>12, <3>1, <3>2, <3>3, <3>4
    <3>5. CASE k = n
      <4>1. live[l].token = k
        BY <1>6, <3>5
      <4> QED BY <1>5, <1>7, <1>12, <1>t, <3>1, <3>2, <3>3, <3>5, <4>1
    <3> QED BY <3>4, <3>5
  <2> QED BY <2>1, <2>2
<1>15. \A k \in 1..Len(tokens) : /\ tokens'[k].grant = tokens[k].grant
                                 /\ tokens[k].accepted => tokens'[k].accepted
  BY <1>7, <1>12
<1>16. GrantInv(tokens')
  <2>1. PICK k \in 1..Len(tokens) : \A x \in 1..Len(tokens) : tokens[x].grant <= tokens[k].grant
    BY <1>6 DEF GrantInv
  <2>2. k \in 1..m /\ tokens'[k].grant = tokens[k].grant
    BY <1>15, <1>t
  <2>3. ASSUME NEW x \in 1..m PROVE tokens'[x].grant <= tokens'[k].grant
    <3>1. CASE x = m
      BY <1>5, <1>8, <1>12, <2>1, <2>2, <3>1
    <3>2. CASE x # m
      <4>1. x \in 1..Len(tokens)
        BY <1>t, <3>2
      <4> QED BY <1>15, <2>1, <2>2, <4>1
    <3> QED BY <3>1, <3>2
  <2> QED BY <1>12, <2>2, <2>3 DEF GrantInv
<1>17. \A x \in LiveIds :
         \/ live'[x].token = live[x].token
         \/ /\ live'[x].token = Len(tokens') /\ live[x].token # NoToken
            /\ tokens'[Len(tokens')].grant = tokens[live[x].token].grant
            /\ \A y \in Requests : req'[y].pc = "refresh" => sessions[req'[y].session].live # x
  <2>1. ASSUME NEW y \in Requests, req'[y].pc = "refresh" PROVE sessions[req'[y].session].live # l
    <3>1. req'[y].pc \in Locked
      BY <2>1 DEF Locked
    <3>2. live[sessions[req'[y].session].live].mu = y
      BY <1>11, <3>1, Alone
    <3>3. y # r
      BY <1>1, <1>5, <1>10, <2>1
    <3> QED BY <1>5, <3>2, <3>3
  <2>2. live[l].token # NoToken /\ tokens'[Len(tokens')].grant = tokens[live[l].token].grant
    BY <1>5, <1>6, <1>8, <1>12 DEF NoToken
  <2> QED BY <1>12, <1>13, <2>1, <2>2
<1>18. Consistent(tokens', live', current, sessions, pool, req', row, overwritten)
  BY <1>11, <1>12, <1>13, <1>14, <1>15, <1>16, <1>17, IssueKeeps
<1> QED BY <1>2, <1>18 DEF Inv

\* The exchange of a consent fails.
LEMMA CompleteFailsStep == ASSUME Inv, NEW c \in Consents, CompleteFails(c) PROVE Inv'
<1>1. UNCHANGED <<tokens, live, current, sessions, pool, req, overwritten>>
  BY DEF CompleteFails
<1>2. consent[c] \in {"none", "connected", "needs_reauth"} /\ (row' = Rewritten(row, consent[c]) \/ row' = row)
  BY DEF CompleteFails, Completing, SetStatus, Rewritten
<1>3. Consistent(tokens, live, current, sessions, pool, req, row', overwritten)
  BY <1>2, StatusKeeps DEF Inv
<1> QED BY <1>1, <1>3 DEF Inv

\* There is a latest grant, and the next one is later than all.
LEMMA LatestGrant ==
  ASSUME Inv
  PROVE  LET g == CHOOSE g \in Grants : \A h \in Grants : h <= g
         IN  g \in Nat /\ \A k \in 1..Len(tokens) : tokens[k].grant <= g
<1> DEFINE Top(g) == \A h \in Grants : h <= g
           g == CHOOSE y \in Grants : Top(y)
<1>1. Consistent(tokens, live, current, sessions, pool, req, row, overwritten)
  BY DEF Inv
<1>2. tokens \in Seq(Tokens) /\ GrantInv(tokens) /\ \A k \in 1..Len(tokens) : tokens[k].grant \in Nat
  BY <1>1, FieldTypes, Parts
<1>3. Grants = {tokens[k].grant : k \in 1..Len(tokens)}
  <2>1. DOMAIN tokens = 1..Len(tokens)
    <3> HIDE DEF Tokens
    <3> QED BY <1>2
  <2> QED BY <2>1 DEF Grants
<1>4. PICK k \in 1..Len(tokens) : \A x \in 1..Len(tokens) : tokens[x].grant <= tokens[k].grant
  BY <1>2 DEF GrantInv
<1>5. \E y \in Grants : Top(y)
  <2>1. tokens[k].grant \in Grants /\ Top(tokens[k].grant)
    BY <1>3, <1>4
  <2> QED BY <2>1
<1>6. g \in Grants /\ Top(g)
  <2> HIDE DEF Top
  <2> QED BY <1>5
<1>7. g \in Nat /\ \A x \in 1..Len(tokens) : tokens[x].grant <= g
  <2> HIDE DEF g
  <2> QED BY <1>2, <1>3, <1>6
<1> QED BY <1>7

\* A consent is stored.
LEMMA ConnectStep == ASSUME Inv, NEW c \in Consents, Connect(c) PROVE Inv'
<1> DEFINE g == CHOOSE y \in Grants : \A h \in Grants : h <= y
           e == Issued(1 + g, 0)
           m == Len(tokens) + 1
<1>1. /\ tokens' = Append(tokens, e)
      /\ row' = [status |-> "connected", token |-> Len(tokens'), updated |-> row.updated + 1]
  BY DEF Connect
<1>2. UNCHANGED <<live, current, sessions, pool, req, overwritten>>
  BY DEF Connect
<1>3. Consistent(tokens, live, current, sessions, pool, req, row, overwritten)
  BY DEF Inv
<1>4. g \in Nat /\ \A k \in 1..Len(tokens) : tokens[k].grant <= g
  BY LatestGrant
<1> HIDE DEF g
<1>5. e \in Tokens /\ e.grant = 1 + g /\ e.copies = 0 /\ e.rotated = FALSE /\ e.reused = FALSE
  BY <1>4 DEF Issued, Tokens
<1> HIDE DEF e
<1>6. tokens \in Seq(Tokens) /\ CopyInv(tokens, live) /\ live \in [LiveIds -> Lives] /\ overwritten \in BOOLEAN
  BY <1>3, Parts
<1>t. /\ Len(tokens) \in Nat /\ row.token \in 1..Len(tokens) /\ row.updated \in Nat
      /\ \A k \in 1..Len(tokens) : tokens[k].grant \in Nat
      /\ \A k \in LiveIds : live[k].token \in 0..Len(tokens)
  BY <1>3, FieldTypes
<1>7. /\ tokens' \in Seq(Tokens) /\ Len(tokens') = m /\ tokens'[m] = e
      /\ \A k \in 1..Len(tokens) : tokens'[k] = tokens[k]
  BY <1>1, <1>5, <1>6, AppendFields
<1>8. CopyInv(tokens', live)
  <2> SUFFICES ASSUME NEW k \in 1..m
               PROVE  /\ tokens'[k].copies = 0 => ~tokens'[k].rotated /\ \A x \in LiveIds : live[x].token # k
                      /\ tokens'[k].copies <= 1 =>
                           \A x, y \in LiveIds : live[x].token = k /\ live[y].token = k => x = y
                      /\ tokens'[k].copies <= 1 /\ tokens'[k].rotated /\ ~tokens'[k].lost =>
                           \A x \in LiveIds : live[x].token # k
                      /\ tokens'[k].reused => tokens'[k].copies > 1 \/ tokens'[k].lost
    BY <1>7 DEF CopyInv
  <2>1. CASE k = m
    <3>1. \A x \in LiveIds : live[x].token # m
      BY <1>t
    <3> QED BY <1>5, <1>7, <2>1, <3>1
  <2>2. CASE k # m
    <3>1. k \in 1..Len(tokens)
      BY <1>t, <2>2
    <3> QED BY <1>6, <1>7, <3>1 DEF CopyInv
  <2> QED BY <2>1, <2>2
<1>9. GrantInv(tokens')
  <2>1. ASSUME NEW x \in 1..m PROVE tokens'[x].grant <= tokens'[m].grant
    <3>1. CASE x = m
      BY <1>4, <1>5, <1>7, <3>1
    <3>2. CASE x # m
      <4>1. x \in 1..Len(tokens)
        BY <1>t, <3>2
      <4> QED BY <1>4, <1>5, <1>7, <1>t, <4>1
    <3> QED BY <3>1, <3>2
  <2>2. m \in 1..Len(tokens')
    BY <1>7, <1>t
  <2> QED BY <1>7, <2>1, <2>2 DEF GrantInv
<1>10. Consistent(tokens', live, current, sessions, pool, req, row, overwritten)
  BY <1>3, <1>6, <1>7, <1>8, <1>9, IssueKeeps
<1>11. row' \in Rows /\ row'.token = m /\ m \in 1..Len(tokens') /\ row'.updated = row.updated + 1
  BY <1>1, <1>7, <1>t DEF Rows
<1>12. tokens'[row.token].grant <= tokens'[row'.token].grant
  BY <1>4, <1>5, <1>7, <1>11, <1>t
<1>13. Consistent(tokens', live, current, sessions, pool, req, row', overwritten)
  BY <1>6, <1>10, <1>11, <1>12, RowKeeps
<1> QED BY <1>2, <1>13 DEF Inv

\* A set of numbers that is not empty has a least one.
LEMMA Least ==
  ASSUME NEW S \in SUBSET Nat, S # {}
  PROVE  \E n \in S : \A m \in S : n <= m
<1> DEFINE lt == OpToRel(<, Nat)
<1>1. IsWellFoundedOn(lt, Nat)
  BY NatLessThanWellFounded
<1>2. \A x, y \in Nat : y < x => <<y, x>> \in lt
  BY DEF OpToRel
<1> HIDE DEF lt
<1>3. PICK n \in S : \A m \in S : ~ (<<m, n>> \in lt)
  BY <1>1, WFMin
<1>4. ASSUME NEW m \in S PROVE n <= m
  <2>1. n \in Nat /\ m \in Nat /\ ~(m < n)
    BY <1>2, <1>3
  <2> QED BY <2>1
<1> QED BY <1>4

\* A name that is not used is chosen.
LEMMA FreeFacts ==
  ASSUME NEW ids \in SUBSET Nat, NEW used, ids \ used # {}
  PROVE  Free(ids, used) \in ids /\ Free(ids, used) \notin used
<1> DEFINE X == ids \ used
           First(i) == \A j \in X : i <= j
<1>1. \E i \in X : First(i)
  BY Least
<1>2. Free(ids, used) = CHOOSE i \in X : First(i)
  BY DEF Free
<1> HIDE DEF First
<1> QED BY <1>1, <1>2

\* An image is not larger than the set.
LEMMA ImageSize ==
  ASSUME NEW X, IsFiniteSet(X), NEW f, NEW Y, Y = {f[x] : x \in X}
  PROVE  IsFiniteSet(Y) /\ Cardinality(Y) \in Nat /\ Cardinality(X) \in Nat /\ Cardinality(Y) <= Cardinality(X)
<1> DEFINE g == [x \in X |-> f[x]]
<1>1. g \in Surjection(X, Y)
  BY DEF Surjection
<1> HIDE DEF g
<1>2. IsFiniteSet(Y) /\ Cardinality(Y) <= Cardinality(X)
  BY <1>1, FS_Surjection
<1> QED BY <1>2, FS_CardinalityType

\* Adding one element makes a set larger by at most one.
LEMMA PlusOne ==
  ASSUME NEW X, IsFiniteSet(X), NEW x
  PROVE  /\ IsFiniteSet(X \cup {x}) /\ Cardinality(X) \in Nat /\ Cardinality(X \cup {x}) \in Nat
         /\ Cardinality(X \cup {x}) <= Cardinality(X) + 1
BY FS_AddElement, FS_CardinalityType

\* A smaller set leaves something of a larger one.
LEMMA Leaves ==
  ASSUME NEW X, IsFiniteSet(X), NEW n \in Nat, Cardinality(X) < n
  PROVE  1..n \ X # {}
<1> SUFFICES ASSUME 1..n \ X = {} PROVE FALSE
  OBVIOUS
<1>1. 1..n \in SUBSET X
  OBVIOUS
<1>2. Cardinality(1..n) <= Cardinality(X)
  BY <1>1, FS_Subset
<1>3. Cardinality(1..n) = IF 1 > n THEN 0 ELSE n - 1 + 1
  BY FS_Interval
<1>4. Cardinality(X) \in Nat
  BY FS_CardinalityType
<1> QED BY <1>2, <1>3, <1>4

\* There is a session and a live token for a request that needs them.
LEMMA Enough ==
  ASSUME Inv, NEW r \in Requests, req[r].pc = "source"
  PROVE  /\ Used = UsedIn(pool, req)
         /\ Free(SessionIds, Used) \in SessionIds /\ Free(SessionIds, Used) \notin Used
         /\ Free(LiveIds, Held) \in LiveIds /\ Free(LiveIds, Held) \notin Held
<1> DEFINE N == Cardinality(Requests)
           X == Requests \ {r}
           ss == [x \in Requests |-> req[x].session]
           A == {ss[x] : x \in X}
           B == A \cup {pool}
           ll == [y \in B |-> sessions[y].live]
           D == {ll[y] : y \in B}
           E == D \cup {current}
<1>1. Used = UsedIn(pool, req)
  BY DEF Used, UsedIn, ActiveIn, Active, Ended
<1>2. req[r].session = Absent
  <2>1. ReqInv(r, req[r], tokens, live, sessions, req, row, overwritten)
    BY Parts DEF Inv
  <2>2. WhereInv(req[r], tokens)
    BY <2>1 DEF ReqInv
  <2> QED BY <2>2 DEF WhereInv, Opening
<1>3. N \in Nat /\ N > 0 /\ IsFiniteSet(X) /\ Cardinality(X) = N - 1
  <2>1. IsFiniteSet(X) /\ Cardinality(X) = N - 1
    BY RouterAssumption, FS_RemoveElement
  <2>2. Cardinality(X) \in Nat /\ N \in Nat
    BY <2>1, RouterAssumption, FS_CardinalityType
  <2> QED BY <2>1, <2>2
<1>4. Used \subseteq B \cup {Absent}
  BY <1>2 DEF Used
<1>5. Held \subseteq E
  <2>1. Used \ {Absent} \subseteq B
    BY <1>4
  <2> QED BY <2>1 DEF Held
<1> HIDE DEF ss
<1>6. IsFiniteSet(A) /\ Cardinality(A) \in Nat /\ Cardinality(A) <= N - 1
  <2>1. IsFiniteSet(A) /\ Cardinality(A) \in Nat /\ Cardinality(A) <= Cardinality(X)
    BY <1>3, ImageSize
  <2> QED BY <1>3, <2>1
<1> HIDE DEF A, X, ll
<1>7. IsFiniteSet(B) /\ Cardinality(B) \in Nat /\ Cardinality(B) <= N
  <2>1. IsFiniteSet(B) /\ Cardinality(B) \in Nat /\ Cardinality(B) <= Cardinality(A) + 1
    BY <1>6, PlusOne
  <2> QED BY <1>3, <1>6, <2>1
<1> HIDE DEF B
<1>8. IsFiniteSet(D) /\ Cardinality(D) \in Nat /\ Cardinality(D) <= N
  <2>1. IsFiniteSet(D) /\ Cardinality(D) \in Nat /\ Cardinality(D) <= Cardinality(B)
    BY <1>7, ImageSize
  <2> QED BY <1>3, <1>7, <2>1
<1> HIDE DEF D
<1>9. IsFiniteSet(E) /\ Cardinality(E) \in Nat /\ Cardinality(E) <= N + 1
  <2>1. IsFiniteSet(E) /\ Cardinality(E) \in Nat /\ Cardinality(E) <= Cardinality(D) + 1
    BY <1>8, PlusOne
  <2> QED BY <1>3, <1>8, <2>1
<1> HIDE DEF E
<1>10. SessionIds \ Used # {}
  <2>1. 1..(N + 1) \ B # {}
    BY <1>3, <1>7, Leaves
  <2>2. SessionIds = 1..(N + 1)
    BY DEF SessionIds
  <2> QED BY <1>4, <2>1, <2>2, IdFacts
<1>11. LiveIds \ Held # {}
  <2>1. 1..(N + 2) \ E # {}
    BY <1>3, <1>9, Leaves
  <2>2. LiveIds = 1..(N + 2)
    BY DEF LiveIds
  <2> QED BY <1>5, <2>1, <2>2
<1> QED BY <1>1, <1>10, <1>11, FreeFacts, IdFacts

\* A token gets into memory once more.
LEMMA LoadCopies ==
  ASSUME NEW T \in Seq(Tokens), NEW L \in [LiveIds -> Lives], CopyInv(T, L),
         \A k \in 1..Len(T) : T[k].copies \in Nat,
         NEW n \in 1..Len(T), NEW e \in Tokens, e.copies = IF T[n].copies < 2 THEN T[n].copies + 1 ELSE T[n].copies,
         e.rotated = T[n].rotated, e.lost = T[n].lost, e.reused = T[n].reused,
         NEW l \in LiveIds, NEW L2 \in [LiveIds -> Lives], \A k \in LiveIds \ {l} : L2[k] = L[k],
         L2[l].token = n \/ L2[l] = L[l]
  PROVE  CopyInv(Put(T, n, e), L2)
<1> DEFINE T2 == Put(T, n, e)
<1>1. Len(T2) = Len(T) /\ T2[n] = e /\ \A k \in 1..Len(T) \ {n} : T2[k] = T[k]
  BY PutFields
<1> HIDE DEF T2
<1>2. ASSUME NEW k \in 1..Len(T)
      PROVE  /\ T2[k].copies = 0 => ~T2[k].rotated /\ \A x \in LiveIds : L2[x].token # k
             /\ T2[k].copies <= 1 => \A x, y \in LiveIds : L2[x].token = k /\ L2[y].token = k => x = y
             /\ T2[k].copies <= 1 /\ T2[k].rotated /\ ~T2[k].lost => \A x \in LiveIds : L2[x].token # k
             /\ T2[k].reused => T2[k].copies > 1 \/ T2[k].lost
  <2>1. /\ T[k].copies = 0 => ~T[k].rotated /\ \A x \in LiveIds : L[x].token # k
        /\ T[k].copies <= 1 => \A x, y \in LiveIds : L[x].token = k /\ L[y].token = k => x = y
        /\ T[k].copies <= 1 /\ T[k].rotated /\ ~T[k].lost => \A x \in LiveIds : L[x].token # k
        /\ T[k].reused => T[k].copies > 1 \/ T[k].lost
    BY DEF CopyInv
  <2>2. CASE k # n
    <3>1. \A x \in LiveIds : L2[x].token = k => L[x].token = k
      BY <2>2
    <3> QED BY <1>1, <2>1, <2>2, <3>1
  <2>3. CASE k = n
    <3>1. T2[k] = e /\ T[k].copies \in Nat
      BY <1>1, <2>3
    <3>2. T2[k].copies # 0 /\ (T2[k].copies <= 1 => T[k].copies = 0) /\ (T[k].copies = 1 => T2[k].copies > 1)
      BY <2>3, <3>1
    <3>3. T[k].copies > 1 => T2[k].copies > 1
      BY <2>3, <3>1
    <3>4. T[k].copies = 0 => \A x \in LiveIds : L2[x].token = k => x = l
      BY <2>1
    <3> QED BY <2>1, <2>3, <3>1, <3>2, <3>3, <3>4
  <2> QED BY <2>2, <2>3
<1>3. CopyInv(T2, L2)
  BY <1>1, <1>2 DEF CopyInv
<1> QED BY <1>3 DEF T2

Loaded(L, l, y) == [L EXCEPT ![l] = [token |-> y.token, updated |-> y.updated, mu |-> None]]
Counted(T, n) == [T EXCEPT ![n].copies = IF @ < 2 THEN @ + 1 ELSE @]

\* liveToken puts the token of the row into memory.
LEMMA LoadStep ==
  ASSUME Inv, NEW r \in Requests, req[r].pc = "source", NEW l, l = Free(LiveIds, Held),
         NEW y, y = req[r].snap, live' = Loaded(live, l, y), tokens' = Counted(tokens, y.token)
  PROVE  /\ Consistent(tokens', live', l, sessions, pool, req, row, overwritten)
         /\ l \in LiveIds /\ live'[l].token = y.token
         /\ y.token \in 1..Len(tokens') /\ Len(tokens') = Len(tokens)
<1> DEFINE n == y.token
           c == IF tokens[n].copies < 2 THEN tokens[n].copies + 1 ELSE tokens[n].copies
           e == [tokens[n] EXCEPT !.copies = c]
           w == [token |-> n, updated |-> y.updated, mu |-> None]
<1>1. Consistent(tokens, live, current, sessions, pool, req, row, overwritten)
  BY DEF Inv
<1>2. /\ tokens \in Seq(Tokens) /\ live \in [LiveIds -> Lives] /\ CopyInv(tokens, live)
  BY <1>1, Parts
<1>3. l \in LiveIds /\ l \notin Held /\ Used = UsedIn(pool, req)
  BY Enough
<1>4. y \in Read(req, row)
  BY DEF Read, ActiveIn, Ended
<1>5. n \in 1..Len(tokens) /\ y.updated \in Nat /\ Len(tokens) \in Nat
  BY <1>1, <1>4, FieldTypes
<1>6. tokens[n] \in Tokens /\ \A k \in 1..Len(tokens) : tokens[k].copies \in Nat
  BY <1>1, <1>5, FieldTypes
<1>7. c \in Nat
  BY <1>5, <1>6
<1>8. tokens' = Put(tokens, n, e)
  BY <1>5, <1>6 DEF Counted, Put, Tokens
<1> HIDE DEF c, n
<1>9. /\ e \in Tokens /\ e.copies = c /\ e.grant = tokens[n].grant /\ e.lost = tokens[n].lost
      /\ e.accepted = tokens[n].accepted /\ e.rotated = tokens[n].rotated /\ e.reused = tokens[n].reused
  BY <1>6, <1>7 DEF Tokens
<1>10. w \in Lives /\ w.token = n /\ w.updated = y.updated
  BY <1>5 DEF Lives, n
<1> HIDE DEF e, w
<1>11. live' \in [LiveIds -> Lives] /\ live'[l] = w /\ \A k \in LiveIds \ {l} : live'[k] = live[k]
  <2>1. live' = [live EXCEPT ![l] = w]
    BY DEF w, n, Loaded
  <2> QED BY <1>2, <1>3, <1>10, <2>1
<1>12. CopyInv(tokens', live) /\ CopyInv(tokens', live')
  <2>1. e.copies = IF tokens[n].copies < 2 THEN tokens[n].copies + 1 ELSE tokens[n].copies
    BY <1>9 DEF c
  <2> QED BY <1>2, <1>3, <1>5, <1>6, <1>8, <1>9, <1>10, <1>11, <2>1, LoadCopies
<1>13. /\ tokens' \in Seq(Tokens) /\ Len(tokens') = Len(tokens) /\ tokens'[n] = e
       /\ \A k \in 1..Len(tokens) \ {n} : tokens'[k] = tokens[k]
  <2> DEFINE T2 == Put(tokens, n, e)
  <2>1. e \in Tokens
    BY <1>9
  <2>2. /\ T2 \in Seq(Tokens) /\ Len(T2) = Len(tokens) /\ T2[n] = e
        /\ \A k \in 1..Len(tokens) \ {n} : T2[k] = tokens[k]
    BY <1>2, <1>5, <2>1, PutFields
  <2>3. tokens' = T2
    BY <1>8
  <2> HIDE DEF T2
  <2> QED BY <2>2, <2>3
<1>14. \A k \in 1..Len(tokens) : tokens'[k].grant = tokens[k].grant /\ (tokens[k].accepted => tokens'[k].accepted)
  BY <1>9, <1>13
<1>15. Consistent(tokens', live, current, sessions, pool, req, row, overwritten)
  BY <1>1, <1>12, <1>13, <1>14, MarkKeeps
<1>16. \A s \in UsedIn(pool, req) \ {Absent} : sessions[s].live # l
  BY <1>3 DEF Held
<1>17. live'[l].token = y.token /\ live'[l].updated = y.updated
  BY <1>10, <1>11 DEF n
<1>18. Consistent(tokens', live', l, sessions, pool, req, row, overwritten)
  BY <1>3, <1>4, <1>11, <1>12, <1>15, <1>16, <1>17, LoadKeeps
<1> QED BY <1>3, <1>5, <1>10, <1>11, <1>13, <1>18 DEF n

\* A session is opened with the live token of the integration.
LEMMA OpenSourceStep == ASSUME Inv, NEW r \in Requests, OpenSource(r) PROVE Inv'
<1> DEFINE y == req[r].snap
           l == IF Recent(r) THEN current ELSE Free(LiveIds, Held)
           s == Free(SessionIds, Used)
           z == [NoSession EXCEPT !.live = l]
           q == [req[r] EXCEPT !.pc = "token", !.session = s, !.purpose = "connect", !.noted = NoToken]
           v == live'[l]
<1>1. /\ req[r].pc = "source" /\ sessions' = [sessions EXCEPT ![s] = z] /\ req' = [req EXCEPT ![r] = q]
      /\ UNCHANGED <<pool, row, overwritten>>
  BY DEF OpenSource, Step
<1>2. Consistent(tokens, live, current, sessions, pool, req, row, overwritten)
  BY DEF Inv
<1>3. /\ req \in [Requests -> Reqs] /\ sessions \in [SessionIds -> Sessions] /\ overwritten \in BOOLEAN
      /\ current \in LiveIds \cup {Absent} /\ RefInv(tokens, live, current, sessions, pool, req, row)
      /\ AgeInv(tokens, live, req, row, overwritten)
      /\ ReqInv(r, req[r], tokens, live, sessions, req, row, overwritten)
  BY <1>2, Parts
<1>4. /\ s \in SessionIds /\ s \notin UsedIn(pool, req)
  BY <1>1, Enough
<1>5. y \in Read(req, row) /\ req[r] \in Reqs
  BY <1>1, <1>3 DEF Read, ActiveIn, Ended
<1>6. WhereInv(req[r], tokens)
  BY <1>3 DEF ReqInv
<1>7. req[r].carried <= Len(tokens)
  BY <1>6 DEF WhereInv
<1>8. /\ Consistent(tokens', live', current', sessions, pool, req, row, overwritten)
      /\ l \in LiveIds /\ v.token # NoToken /\ Len(tokens') = Len(tokens)
      /\ overwritten \/ tokens'[v.token].grant >= tokens'[y.token].grant
  <2>1. CASE Recent(r)
    <3>1. UNCHANGED <<live, tokens, current>> /\ l = current
      BY <2>1 DEF OpenSource
    <3>2. current \in LiveIds /\ y.updated <= live[current].updated
      BY <1>3, <2>1 DEF Recent
    <3>3. live[current].token # NoToken
      BY <1>3, <3>2, IdFacts DEF RefInv
    <3>4. overwritten \/ Point(live[current].token, live[current].updated, tokens, req, row)
      BY <1>3, <3>2, <3>3 DEF AgeInv
    <3>5. Point(live[current].token, live[current].updated, tokens, req, row) =>
            tokens[y.token].grant <= tokens[live[current].token].grant
      BY <1>5, <3>2 DEF Point
    <3>6. y.token \in 1..Len(tokens) /\ live[current].token \in 1..Len(tokens)
      <4>1. live[current].token \in 0..Len(tokens) /\ Len(tokens) \in Nat
        BY <1>2, <3>2, FieldTypes
      <4>2. y.token \in 1..Len(tokens)
        BY <1>2, <1>5, FieldTypes
      <4> QED BY <3>3, <4>1, <4>2 DEF NoToken
    <3>7. tokens[y.token].grant \in Nat /\ tokens[live[current].token].grant \in Nat
      BY <1>2, <3>6, FieldTypes
    <3>8. tokens[y.token].grant <= tokens[live[current].token].grant =>
            tokens[live[current].token].grant >= tokens[y.token].grant
      BY <3>7
    <3>9. overwritten \/ tokens[live[current].token].grant >= tokens[y.token].grant
      BY <3>4, <3>5, <3>8, Zenon
    <3> QED BY <1>2, <3>1, <3>2, <3>3, <3>9
  <2>2. CASE ~Recent(r)
    <3>1. l = Free(LiveIds, Held)
      BY <2>2
    <3>2. live' = Loaded(live, l, y) /\ tokens' = Counted(tokens, y.token) /\ current' = l
      BY <2>2 DEF OpenSource, Loaded, Counted
    <3> HIDE DEF l, y
    <3>3. /\ Consistent(tokens', live', l, sessions, pool, req, row, overwritten)
          /\ l \in LiveIds /\ live'[l].token = y.token /\ y.token \in 1..Len(tokens') /\ Len(tokens') = Len(tokens)
      BY <1>1, <3>1, <3>2, LoadStep DEF y
    <3>4. tokens'[y.token].grant \in Nat /\ y.token # NoToken
      BY <3>3, FieldTypes DEF NoToken
    <3>5. tokens'[v.token].grant >= tokens'[y.token].grant
      BY <3>3, <3>4
    <3> QED BY <3>2, <3>3, <3>4, <3>5
  <2> QED BY <2>1, <2>2
<1> HIDE DEF l, s
<1>9. z = [live |-> l, unproven |-> NoToken] /\ z \in Sessions
  BY <1>8 DEF NoSession, Sessions, NoToken
<1> HIDE DEF z
<1>10. /\ sessions' \in [SessionIds -> Sessions] /\ sessions'[s] = z
       /\ \A x \in SessionIds \ {s} : sessions'[x] = sessions[x]
  BY <1>1, <1>3, <1>4, <1>9
<1>11. Consistent(tokens', live', current', sessions', pool, req, row, overwritten)
  BY <1>4, <1>8, <1>10, OpenKeeps
<1>12. /\ q \in Reqs /\ q.pc = "token" /\ q.session = s /\ q.purpose = "connect" /\ q.noted = NoToken
       /\ q.snap = y /\ q.carried = req[r].carried
  BY <1>4, <1>5 DEF Reqs, Using, NoToken
<1> HIDE DEF q, y
<1>13. /\ q.pc \notin Opening \cup Ended /\ q.pc \notin Locked /\ q.pc \notin {"refused", "note", "send", "refresh"}
       /\ q.session # Absent /\ sessions'[q.session].live = l /\ l # Absent
  BY <1>4, <1>8, <1>9, <1>10, <1>12, IdFacts DEF Opening, Ended, Locked
<1>14. WhereInv(q, tokens')
  <2>1. Len(tokens') \in Nat
    BY <1>11, FieldTypes
  <2> QED BY <1>7, <1>8, <1>12, <1>13, <2>1 DEF WhereInv, NoToken
<1> HIDE DEF v
<1>15. /\ LockInv(r, q, v) /\ ProofInv(q, v, sessions'[q.session].unproven, tokens')
       /\ ServedInv(q, v, tokens', overwritten) /\ NoteInv(q, v, tokens', req, row, overwritten)
  BY <1>8, <1>12, <1>13 DEF LockInv, ProofInv, ServedInv, NoteInv
<1>16. ReqInv(r, q, tokens', live', sessions', req, row, overwritten)
  BY <1>13, <1>14, <1>15, Zenon DEF ReqInv, v
<1>17. Consistent(tokens', live', current', sessions', pool, req', row, overwritten)
  BY <1>1, <1>5, <1>8, <1>11, <1>12, <1>13, <1>16, MoveKeeps DEF v
<1> QED BY <1>1, <1>17 DEF Inv

-----------------------------------------------------------------------------
(* The theorems.                                                             *)

\* The integration is connected, and no request runs.
LEMMA InitInv == ASSUME Init PROVE Inv
<1> DEFINE f == Issued(1, 0)
<1>1. /\ row = [status |-> "connected", token |-> 1, updated |-> 1] /\ tokens = <<f>>
      /\ live = [l \in LiveIds |-> NoLive] /\ current = Absent
      /\ sessions = [s \in SessionIds |-> NoSession] /\ pool = Absent
      /\ req = [r \in Requests |-> Idle] /\ overwritten = FALSE
  BY DEF Init
<1>2. f \in Tokens /\ f.copies = 0 /\ f.rotated = FALSE /\ f.reused = FALSE /\ f.grant = 1
  BY DEF Issued, Tokens
<1> HIDE DEF f
<1>3. tokens \in Seq(Tokens) /\ Len(tokens) = 1 /\ tokens[1] = f
  <2> HIDE DEF Tokens
  <2> QED BY <1>1, <1>2
<1>4. NoLive \in Lives /\ NoLive.token = NoToken /\ NoLive.updated = 0
  BY DEF NoLive, Lives, NoToken
<1>5. NoSession \in Sessions
  BY DEF NoSession, Sessions, NoToken
<1>6. /\ Idle \in Reqs /\ Idle.pc = "idle" /\ Idle.session = Absent /\ Idle.carried = NoToken /\ Idle.noted = NoToken
  BY DEF Idle, Reqs, Rows, Ended, Absent, NoToken
<1>7. row \in Rows /\ row.token = 1 /\ row.updated = 1
  BY <1>1 DEF Rows
<1> HIDE DEF Idle, NoLive, NoSession
<1>8. \A r \in Requests : req[r] = Idle
  BY <1>1
<1>9. Read(req, row) = {row} /\ UsedIn(pool, req) = {Absent}
  BY <1>1, <1>6, <1>8 DEF Read, UsedIn, ActiveIn, Ended
<1>10. StateType(tokens, live, current, sessions, pool, req, row, overwritten)
  <2>1. live \in [LiveIds -> Lives] /\ sessions \in [SessionIds -> Sessions] /\ req \in [Requests -> Reqs]
    BY <1>1, <1>4, <1>5, <1>6
  <2> QED BY <1>1, <1>3, <1>7, <2>1 DEF StateType
<1>11. \A l \in LiveIds : live[l].token = NoToken /\ live[l].updated = 0
  BY <1>1, <1>4
<1>12. RefInv(tokens, live, current, sessions, pool, req, row)
  <2>1. \A l \in LiveIds : live[l].token <= Len(tokens) /\ live[l].updated <= row.updated
    BY <1>3, <1>7, <1>11 DEF NoToken
  <2>2. \A y \in Read(req, row) : y.token \in 1..Len(tokens) /\ y.updated <= row.updated
    BY <1>3, <1>7, <1>9
  <2> QED BY <1>1, <1>9, <2>1, <2>2 DEF RefInv
<1>13. CopyInv(tokens, live)
  BY <1>2, <1>3, <1>11 DEF CopyInv, NoToken
<1>14. GrantInv(tokens)
  BY <1>2, <1>3 DEF GrantInv
<1>15. AgeInv(tokens, live, req, row, overwritten)
  <2>1. Point(row.token, row.updated, tokens, req, row)
    BY <1>2, <1>3, <1>7, <1>9 DEF Point
  <2> QED BY <1>9, <1>11, <2>1 DEF AgeInv
<1>16. ASSUME NEW r \in Requests PROVE ReqInv(r, req[r], tokens, live, sessions, req, row, overwritten)
  <2> DEFINE q == req[r]
             v == live[sessions[q.session].live]
             b == sessions[q.session].unproven
  <2>1. q.pc = "idle" /\ q.session = Absent /\ q.carried = NoToken /\ q.noted = NoToken
    BY <1>6, <1>8
  <2>2. q.pc \notin Using /\ q.pc \notin Locked /\ q.pc \notin {"refused", "note", "send", "refresh"}
    BY <2>1 DEF Using, Locked
  <2> HIDE DEF q, v, b
  <2>3. WhereInv(q, tokens)
    BY <1>3, <2>1, <2>2 DEF WhereInv, NoToken
  <2>4. /\ LockInv(r, q, v) /\ ProofInv(q, v, b, tokens) /\ ServedInv(q, v, tokens, overwritten)
        /\ NoteInv(q, v, tokens, req, row, overwritten)
    BY <2>2 DEF LockInv, ProofInv, ServedInv, NoteInv
  <2> QED BY <2>3, <2>4, Zenon DEF ReqInv, q, v, b
<1> QED BY <1>10, <1>12, <1>13, <1>14, <1>15, <1>16 DEF Inv, Consistent

\* What the invariant is about.
state == <<tokens, live, current, sessions, pool, req, row, overwritten>>

\* Where nothing of it changes, it holds on.
LEMMA SameState == ASSUME Inv, UNCHANGED state PROVE Inv'
BY DEF Inv, state

\* A step of a consent.
LEMMA ConsentStep ==
  ASSUME Inv, NEW c \in Consents,
         Begin(c) \/ TakePending(c) \/ CompleteFails(c) \/ Connect(c) \/ ConnectedInvalidates(c) \/ ConnectedForgets(c)
  PROVE  Inv'
<1>1. CASE Begin(c)
  <2>1. UNCHANGED state
    BY <1>1 DEF Begin, state
  <2> QED BY <2>1, SameState
<1>2. CASE TakePending(c)
  <2>1. UNCHANGED state
    BY <1>2 DEF TakePending, state
  <2> QED BY <2>1, SameState
<1>3. CASE CompleteFails(c)
  BY <1>3, CompleteFailsStep
<1>4. CASE Connect(c)
  BY <1>4, ConnectStep
<1>5. CASE ConnectedInvalidates(c)
  <2>1. pool' = Absent /\ UNCHANGED <<tokens, live, current, sessions, req, row, overwritten>>
    BY <1>5 DEF ConnectedInvalidates, Invalidate
  <2>2. Consistent(tokens, live, current, sessions, pool', req, row, overwritten)
    BY <2>1, PoolKeeps DEF Inv
  <2> QED BY <2>1, <2>2 DEF Inv
<1>6. CASE ConnectedForgets(c)
  <2>1. current' = Absent /\ UNCHANGED <<tokens, live, sessions, pool, req, row, overwritten>>
    BY <1>6 DEF ConnectedForgets, Forget
  <2>2. pool \in UsedIn(pool, req)
    BY DEF UsedIn
  <2>3. Consistent(tokens, live, current', sessions, pool, req, row, overwritten)
    BY <2>1, <2>2, PoolKeeps DEF Inv
  <2> QED BY <2>1, <2>3 DEF Inv
<1> QED BY <1>1, <1>2, <1>3, <1>4, <1>5, <1>6

\* Every step keeps the invariant.
LEMMA NextInv == ASSUME Inv, [Next]_vars PROVE Inv'
<1>1. CASE UNCHANGED vars
  <2>1. UNCHANGED state
    BY <1>1 DEF vars, state
  <2> QED BY <2>1, SameState
<1>2. CASE Finished
  <2>1. UNCHANGED state
    BY <1>2 DEF Finished, vars, state
  <2> QED BY <2>1, SameState
<1>3. CASE Reap
  <2>1. pool' = Absent /\ UNCHANGED <<tokens, live, current, sessions, req, row, overwritten>>
    BY <1>3 DEF Reap, Invalidate
  <2>2. Consistent(tokens, live, current, sessions, pool', req, row, overwritten)
    BY <2>1, PoolKeeps DEF Inv
  <2> QED BY <2>1, <2>2 DEF Inv
<1>4. ASSUME NEW n \in DOMAIN tokens, Expire(n) PROVE Inv'
  <2>1. UNCHANGED state
    BY <1>4 DEF Expire, state
  <2> QED BY <2>1, SameState
<1>5. ASSUME NEW r \in Requests, CallTool(r) \/ RequestStep(r) PROVE Inv'
  BY <1>5, CallToolStep, EntryStep, OpenSourceStep, OpenFailsStep, InsertStep, TokenStep, RefreshRejectedStep,
     ProveStep, RefreshedStep, RefreshRefusedStep, RefreshFailsStep, SaveStep, SaveFailsStep, NoteStep,
     AnsweredStep, RejectedStep, SessionMissingStep, UnansweredStep, RejectStep, FailStep, Zenon DEF RequestStep
<1> QED BY <1>1, <1>2, <1>3, <1>4, <1>5, ConsentStep, Zenon DEF Next

\* The tokens, the live tokens, the sessions and the requests of an integration
\* fit together however calls, consents, refreshes and faults interleave.
THEOREM RouterInvHolds == Spec => []Inv
<1>1. Init => Inv
  BY InitInv
<1>2. Inv /\ [Next]_vars => Inv'
  BY NextInv
<1> QED BY <1>1, <1>2, PTL DEF Spec

\* A rotated refresh token is presented again only if it got into memory twice
\* or the answer that rotated it was lost: refreshLocked, under the mutex of the
\* live token, presents what is in memory now.
THEOREM SpentOnceAlways == Spec => []SpentOnce
<1>1. ASSUME Inv PROVE SpentOnce
  <2>1. tokens \in Seq(Tokens) /\ CopyInv(tokens, live)
    BY <1>1, Parts DEF Inv
  <2>2. DOMAIN tokens = 1..Len(tokens)
    <3> HIDE DEF Tokens
    <3> QED BY <2>1
  <2> QED BY <2>1, <2>2 DEF SpentOnce, CopyInv
<1> QED BY <1>1, RouterInvHolds, PTL

\* liveToken serves no request with a token of an earlier consent than the row
\* it has read, unless a refresh has written an earlier consent over a later one.
THEOREM NotOlderThanReadAlways == Spec => []NotOlderThanRead
<1>1. ASSUME Inv PROVE NotOlderThanRead
  <2> SUFFICES ASSUME NEW r \in Requests, Active(r), req[r].session # Absent, req[r].purpose = "connect"
               PROVE  overwritten \/ tokens[Live(r).token].grant >= tokens[req[r].snap.token].grant
    BY Zenon DEF NotOlderThanRead
  <2>1. req \in [Requests -> Reqs] /\ ReqInv(r, req[r], tokens, live, sessions, req, row, overwritten)
    BY <1>1, Parts DEF Inv
  <2>2. WhereInv(req[r], tokens) /\ ServedInv(req[r], live[sessions[req[r].session].live], tokens, overwritten)
    BY <2>1 DEF ReqInv
  <2>3. req[r].pc \in Using
    <3>1. req[r].pc \in Ended \cup Opening \cup Using
      BY <2>1 DEF Reqs
    <3> QED BY <2>2, <3>1 DEF WhereInv
  <2> QED BY <2>2, <2>3 DEF ServedInv, Live, Session
<1> QED BY <1>1, RouterInvHolds, PTL

\* A token that the server refuses right after a refresh has replaced it for
\* that request is reported (RoundTrip, onRejected), unless it has been accepted
\* before or replaced again.
THEOREM RefusalReportedAlways == Spec => []RefusalReported
<1>1. ASSUME Inv PROVE RefusalReported
  <2> SUFFICES ASSUME NEW r \in Requests, req[r].pc = "refused", req[r].carried = req[r].noted
               PROVE  tokens[req[r].carried].accepted \/ Live(r).token # req[r].carried
    BY DEF RefusalReported
  <2>1. ReqInv(r, req[r], tokens, live, sessions, req, row, overwritten)
    BY <1>1, Parts DEF Inv
  <2>2. ProofInv(req[r], live[sessions[req[r].session].live], sessions[req[r].session].unproven, tokens)
    BY <2>1 DEF ReqInv
  <2> QED BY <2>2 DEF ProofInv, Live, Session
<1> QED BY <1>1, RouterInvHolds, PTL

=============================================================================
