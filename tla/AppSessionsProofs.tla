------------------------- MODULE AppSessionsProofs -------------------------
(***************************************************************************)
(* Proofs about AppSessions for every set of phones, codes and sessions and *)
(* every bound on tokens and requests: a code pairs once, a phone's token   *)
(* is one the server knows, a sign-out that arrives ends the session, and   *)
(* notifications follow the session.                                        *)
(***************************************************************************)
EXTENDS AppSessions, TLAPS

-----------------------------------------------------------------------------
(* The inductive invariant, in parts.                                        *)

Row ==
  [state : {"none", "active", "ended", "expired", "purged"}, code : Codes \cup {NoCode},
   current : 0..MaxTokens, previous : 0..MaxTokens, grace : BOOLEAN]

Call ==
  [state : {"idle", "sent", "answered"}, of : Stored \cup {NoStored},
   answer : Stored \cup {Refused}]

Kept == [stored : Stored \cup {NoStored}, pairing : Call, refreshing : Call]

Request == [kind : {"refresh", "signout", "register"}, of : Stored, from : Phones]

TypeOK ==
  /\ codes \in [Codes -> {"none", "issued", "expired", "redeemed"}]
  /\ sessions \in [Sessions -> Row]
  /\ push \in [Sessions -> Phones \cup {NoPhone}]
  /\ phone \in [Phones -> Kept]
  /\ wire \subseteq Request
  /\ made \in 0..MaxTokens
  /\ dropped \subseteq Sessions
  /\ left \in [Sessions -> {"none", "served", "lost"}]

\* The code of a session has been used up, so no other session gets it.
CodesInv ==
  /\ \A s \in Sessions : sessions[s].code # NoCode => codes[sessions[s].code] = "redeemed"
  /\ PairedOnce

\* The tokens of a row have been made, the current one last, and no two rows
\* share one.
RowsInv ==
  /\ \A s \in Sessions :
       /\ sessions[s].current <= made
       /\ sessions[s].previous < sessions[s].current \/ sessions[s].previous = NoToken
  /\ \A s, t \in Sessions, token \in Tokens : Holds(s, token) /\ Holds(t, token) => s = t

\* What a phone or a request knows: a made token that can only be one of this
\* session.
Fits(x) ==
  /\ x.token <= made
  /\ sessions[x.session].state # "none"
  /\ \A t \in Sessions : Holds(t, x.token) => t = x.session

Paired(p)    == phone[p].pairing.state = "answered"
Refreshed(p) == phone[p].refreshing.state = "answered" /\ phone[p].refreshing.answer # Refused

KnownInv ==
  /\ \A p \in Phones :
       /\ phone[p].stored # NoStored => Fits(phone[p].stored)
       /\ Paired(p) => phone[p].pairing.answer \in Stored /\ Fits(phone[p].pairing.answer)
       /\ Refreshed(p) => Fits(phone[p].refreshing.answer)
  /\ \A r \in wire : Fits(r.of)

\* A phone refreshes the session that it keeps, and the answer is newer.
CallsInv ==
  \A p \in Phones :
    /\ phone[p].refreshing.state # "idle" =>
         phone[p].stored # NoStored /\ phone[p].refreshing.of = phone[p].stored
    /\ Refreshed(p) => /\ phone[p].refreshing.answer.session = phone[p].stored.session
                       /\ phone[p].refreshing.answer.token > phone[p].stored.token

\* No two phones have a session in common, and nothing is sent in one that
\* its phone has yet to accept.
OwnersInv ==
  /\ \A p, q \in Phones :
       p # q /\ phone[p].stored # NoStored => phone[p].stored.session # phone[q].stored.session
  /\ \A p, q \in Phones :
       Paired(p) => /\ phone[p].pairing.answer.session # phone[q].stored.session
                    /\ p # q /\ Paired(q) =>
                         phone[p].pairing.answer.session # phone[q].pairing.answer.session
  /\ \A p \in Phones, r \in wire : Paired(p) => phone[p].pairing.answer.session # r.of.session

\* The requests on the wire are not newer than what the phone keeps, and not
\* newer than its sign-out, after which it keeps nothing of the session.
WireInv ==
  /\ \A p \in Phones, r \in wire :
       r.of.session = phone[p].stored.session =>
         r.kind # "signout" /\ r.of.token <= phone[p].stored.token
  /\ \A r, u \in wire :
       r.kind = "signout" /\ u.of.session = r.of.session => u.of.token <= r.of.token

Good(s) == Active(s) /\ s \notin dropped

\* The server knows the token of the phone, of its answer and of its sign-out.
UsableInv ==
  /\ TokenUsable
  /\ \A p \in Phones :
       /\ Paired(p) /\ Active(phone[p].pairing.answer.session) =>
            phone[p].pairing.answer.token = sessions[phone[p].pairing.answer.session].current
       /\ Refreshed(p) /\ Good(phone[p].stored.session) =>
            phone[p].refreshing.answer.token = sessions[phone[p].stored.session].current
       /\ phone[p].refreshing.state = "answered" /\ phone[p].refreshing.answer = Refused =>
            ~Good(phone[p].stored.session)
  /\ \A r \in wire : r.kind = "signout" /\ Good(r.of.session) => Holds(r.of.session, r.of.token)

LeftInv ==
  /\ SignOutEnds
  /\ \A s \in Sessions : left[s] # "none" => sessions[s].state # "none"

\* Why a session may notify phone p.
Excused(s, p) ==
  \/ phone[p].stored.session = s
  \/ \E r \in wire : r.kind = "signout" /\ r.of.session = s
  \/ left[s] = "lost"
  \/ s \in dropped

PushInv ==
  /\ PushFollowsSession
  /\ \A r \in wire : r.kind = "register" /\ Active(r.of.session) => Excused(r.of.session, r.from)
  /\ \A s \in Sessions : sessions[s].state = "none" => push[s] = NoPhone

Inv ==
  /\ TypeOK /\ CodesInv /\ RowsInv /\ KnownInv /\ CallsInv /\ OwnersInv /\ WireInv
  /\ UsableInv /\ LeftInv /\ PushInv

-----------------------------------------------------------------------------
(* What a refresh does, case by case.                                        *)

Others(s) == \A t \in Sessions : t # s => sessions'[t] = sessions[t]

NothingFound(x, answer) ==
  /\ ~(Active(x.session) /\ Holds(x.session, x.token))
  /\ answer = Refused
  /\ UNCHANGED <<sessions, made, dropped>>

\* Both kinds of answer: a new current token, and x's token is kept as the previous one.
Renewed(x, late, answer) ==
  LET s == x.session IN
    /\ Active(s)
    /\ Holds(s, x.token)
    /\ made' = made + 1 /\ made' \in Tokens
    /\ Others(s)
    /\ sessions'[s].state = "active"
    /\ sessions'[s].code = sessions[s].code
    /\ sessions'[s].current = made + 1
    /\ sessions'[s].previous = x.token
    /\ answer = [session |-> s, token |-> made + 1]
    /\ dropped' = IF late /\ sessions[s].current # x.token THEN dropped \cup {s} ELSE dropped

ReuseFound(x, answer) ==
  LET s == x.session IN
    /\ Active(s)
    /\ Others(s)
    /\ sessions'[s] = [sessions[s] EXCEPT !.state = "ended"]
    /\ answer = Refused
    /\ UNCHANGED <<made, dropped>>

\* What the two updates of a row write.
LEMMA RowUpdates ==
  ASSUME NEW row \in Row, NEW n \in 0..MaxTokens
  PROVE  /\ Rotated(row, n) \in Row /\ Retried(row, n) \in Row /\ Reused(row) \in Row
         /\ Rotated(row, n).state = row.state /\ Retried(row, n).state = row.state
         /\ Rotated(row, n).code = row.code /\ Retried(row, n).code = row.code
         /\ Rotated(row, n).current = n /\ Retried(row, n).current = n
         /\ Rotated(row, n).previous = row.current /\ Retried(row, n).previous = row.previous
  BY DEF Row, Rotated, Retried, Reused

\* A refresh with a token that fits finds the session of this token or none.
LEMMA RefreshCases ==
  ASSUME TypeOK, NEW x \in Stored, Fits(x), NEW late \in BOOLEAN, NEW answer,
         Refresh(x.token, late, answer)
  PROVE  NothingFound(x, answer) \/ Renewed(x, late, answer) \/ ReuseFound(x, answer)
<1>0. x.session \in Sessions /\ x.token \in Tokens
  BY DEF Stored
<1>1. CASE Found(x.token) = {}
  <2>1. ~(Active(x.session) /\ Holds(x.session, x.token))
    BY <1>0, <1>1 DEF Found
  <2> QED BY <1>1, <2>1 DEF Refresh, NothingFound
<1>2. CASE Found(x.token) # {}
  <2> DEFINE s == x.session
             row == sessions[s]
  <2>1. Found(x.token) = {s} /\ Active(s) /\ Holds(s, x.token)
    BY <1>0, <1>2 DEF Found, Fits
  <2>2. row \in Row /\ row.state = "active" /\ x.token \in {row.current, row.previous}
    BY <1>0, <2>1 DEF TypeOK, Active, Holds
  <2>3. CASE row.current = x.token
    <3>1. /\ made < MaxTokens
          /\ made' = made + 1
          /\ sessions' = [sessions EXCEPT ![s] = Rotated(row, made')]
          /\ answer = [session |-> s, token |-> made']
          /\ dropped' = dropped
      BY <1>2, <2>1, <2>3 DEF Refresh
    <3>2. sessions'[s] = Rotated(row, made') /\ Others(s)
      BY <1>0, <3>1 DEF Others, TypeOK
    <3>3. made' \in Tokens /\ made' \in 0..MaxTokens
      BY <3>1, BoundsAssumption DEF TypeOK, Tokens
    <3>4. /\ sessions'[s].state = "active" /\ sessions'[s].code = row.code
          /\ sessions'[s].current = made + 1 /\ sessions'[s].previous = x.token
      BY <2>2, <2>3, <3>1, <3>2, <3>3, RowUpdates
    <3> QED BY <2>1, <2>3, <3>1, <3>2, <3>3, <3>4 DEF Renewed
  <2>4. CASE row.current # x.token /\ row.grace
    <3>1. /\ made < MaxTokens
          /\ made' = made + 1
          /\ sessions' = [sessions EXCEPT ![s] = Retried(row, made')]
          /\ answer = [session |-> s, token |-> made']
          /\ dropped' = IF late THEN dropped \cup {s} ELSE dropped
      BY <1>2, <2>1, <2>4 DEF Refresh
    <3>2. sessions'[s] = Retried(row, made') /\ Others(s)
      BY <1>0, <3>1 DEF Others, TypeOK
    <3>3. made' \in Tokens /\ made' \in 0..MaxTokens
      BY <3>1, BoundsAssumption DEF TypeOK, Tokens
    <3>4. /\ sessions'[s].state = "active" /\ sessions'[s].code = row.code
          /\ sessions'[s].current = made + 1 /\ sessions'[s].previous = x.token
      BY <2>2, <2>4, <3>1, <3>2, <3>3, RowUpdates
    <3> QED BY <2>1, <2>4, <3>1, <3>2, <3>3, <3>4 DEF Renewed
  <2>5. CASE row.current # x.token /\ ~row.grace
    <3>1. /\ sessions' = [sessions EXCEPT ![s] = Reused(row)]
          /\ answer = Refused
          /\ UNCHANGED <<made, dropped>>
      BY <1>2, <2>1, <2>5 DEF Refresh
    <3>2. sessions'[s] = Reused(row) /\ Others(s)
      BY <1>0, <3>1 DEF Others, TypeOK
    <3> QED BY <2>1, <3>1, <3>2 DEF ReuseFound, Reused
  <2> QED BY <2>2, <2>3, <2>4, <2>5 DEF Row
<1> QED BY <1>1, <1>2

\* A refresh keeps the types of what it writes.
LEMMA RefreshType ==
  ASSUME TypeOK, NEW token, NEW late, NEW answer, Refresh(token, late, answer)
  PROVE  sessions' \in [Sessions -> Row] /\ made' \in 0..MaxTokens /\ dropped' \subseteq Sessions
<1>1. CASE Found(token) = {}
  BY <1>1 DEF Refresh, TypeOK
<1>2. CASE Found(token) # {}
  <2>1. PICK s \in Found(token) :
           LET row == sessions[s]  current == row.current = token IN
             IF current \/ row.grace
             THEN /\ made < MaxTokens
                  /\ made' = made + 1
                  /\ sessions' = [sessions EXCEPT ![s] = IF current THEN Rotated(row, made')
                                                                   ELSE Retried(row, made')]
                  /\ answer = [session |-> s, token |-> made']
                  /\ dropped' = IF late /\ ~current THEN dropped \cup {s} ELSE dropped
             ELSE /\ sessions' = [sessions EXCEPT ![s] = Reused(row)]
                  /\ answer = Refused
                  /\ UNCHANGED <<made, dropped>>
    BY <1>2 DEF Refresh
  <2>2. s \in Sessions /\ sessions[s] \in Row
    BY DEF Found, TypeOK
  <2>3. \A n \in 0..MaxTokens : Rotated(sessions[s], n) \in Row /\ Retried(sessions[s], n) \in Row
    BY <2>2, RowUpdates
  <2>4. Reused(sessions[s]) \in Row
    BY <2>2 DEF Row, Reused
  <2>5. made < MaxTokens => made + 1 \in 0..MaxTokens
    BY BoundsAssumption DEF TypeOK
  <2> QED BY <2>1, <2>2, <2>3, <2>4, <2>5 DEF TypeOK
<1> QED BY <1>1, <1>2

-----------------------------------------------------------------------------
(* What the actions of a phone write.                                        *)

Writes(p, stored, pairing, refreshing) ==
  /\ phone' \in [Phones -> Kept]
  /\ \A q \in Phones : q # p => phone'[q] = phone[q]
  /\ phone'[p].stored = stored
  /\ phone'[p].pairing = pairing
  /\ phone'[p].refreshing = refreshing

\* An update of one phone, field by field.
LEMMA PhoneUpdate ==
  ASSUME TypeOK, NEW p \in Phones, NEW new \in Kept, phone' = [phone EXCEPT ![p] = new]
  PROVE  Writes(p, new.stored, new.pairing, new.refreshing)
  BY DEF TypeOK, Writes

\* An idle call is a call, and the refusal is the pair that no phone keeps.
LEMMA NoCallType == NoCall \in Call /\ NoStored = Refused /\ NoStored \notin Stored
  BY NamesAssumption DEF NoCall, Call, NoStored, Refused, Stored, Tokens, NoToken

\* RedeemPairingCode and PairFails: only the pairing call changes.
LEMMA PairingWrites ==
  ASSUME TypeOK, NEW p \in Phones, NEW call \in Call,
         phone' = [phone EXCEPT ![p].pairing = call]
  PROVE  Writes(p, phone[p].stored, call, phone[p].refreshing)
<1>1. phone[p] \in Kept
  BY DEF TypeOK
<1> DEFINE new == [phone[p] EXCEPT !.pairing = call]
<1>2. /\ new \in Kept /\ new.stored = phone[p].stored /\ new.pairing = call
      /\ new.refreshing = phone[p].refreshing
  BY <1>1 DEF Kept
<1>3. phone' = [phone EXCEPT ![p] = new]
  OBVIOUS
<1> QED BY ONLY TypeOK, <1>2, <1>3, PhoneUpdate, p \in Phones

\* RefreshStart, RefreshSession and RefreshFails: only the refresh call changes.
LEMMA RefreshingWrites ==
  ASSUME TypeOK, NEW p \in Phones, NEW call \in Call,
         phone' = [phone EXCEPT ![p].refreshing = call]
  PROVE  Writes(p, phone[p].stored, phone[p].pairing, call)
<1>1. phone[p] \in Kept
  BY DEF TypeOK
<1> DEFINE new == [phone[p] EXCEPT !.refreshing = call]
<1>2. /\ new \in Kept /\ new.stored = phone[p].stored /\ new.pairing = phone[p].pairing
      /\ new.refreshing = call
  BY <1>1 DEF Kept
<1>3. phone' = [phone EXCEPT ![p] = new]
  OBVIOUS
<1> QED BY ONLY TypeOK, <1>2, <1>3, PhoneUpdate, p \in Phones

\* PairAnswered: the answer is kept, and both calls are over.
LEMMA PairAnsweredWrites ==
  ASSUME TypeOK, NEW p \in Phones, PairAnswered(p)
  PROVE  Writes(p, phone[p].pairing.answer, NoCall, NoCall)
<1> DEFINE new == [stored |-> phone[p].pairing.answer, pairing |-> NoCall, refreshing |-> NoCall]
<1>1. phone[p].pairing.answer \in Stored \cup {NoStored}
  BY NoCallType DEF TypeOK, Kept, Call
<1>2. new \in Kept
  BY <1>1, NoCallType DEF Kept
<1>3. phone' = [phone EXCEPT ![p] = new]
  BY DEF PairAnswered
<1> QED BY <1>2, <1>3, PhoneUpdate

\* RefreshAnswered: the answer is kept, a refusal being the pair of nothing.
LEMMA RefreshAnsweredWrites ==
  ASSUME TypeOK, NEW p \in Phones, RefreshAnswered(p)
  PROVE  Writes(p, phone[p].refreshing.answer, phone[p].pairing, NoCall)
<1> DEFINE new == [phone[p] EXCEPT !.stored = phone[p].refreshing.answer, !.refreshing = NoCall]
<1>0. phone[p] \in Kept /\ phone[p].refreshing.answer \in Stored \cup {NoStored}
  BY NoCallType DEF TypeOK, Kept, Call
<1>1. phone' = [phone EXCEPT ![p] = new]
  BY NoCallType DEF RefreshAnswered
<1>2. /\ new \in Kept /\ new.stored = phone[p].refreshing.answer
      /\ new.pairing = phone[p].pairing /\ new.refreshing = NoCall
  BY <1>0, NoCallType DEF Kept
<1> QED BY ONLY TypeOK, <1>1, <1>2, PhoneUpdate, p \in Phones

\* SignOut and CallRefused.
LEMMA ForgetWrites ==
  ASSUME TypeOK, NEW p \in Phones,
         phone' = [phone EXCEPT ![p] = [@ EXCEPT !.stored = NoStored, !.refreshing = NoCall]]
  PROVE  Writes(p, NoStored, phone[p].pairing, NoCall)
<1> DEFINE new == [phone[p] EXCEPT !.stored = NoStored, !.refreshing = NoCall]
<1>0. phone[p] \in Kept
  BY DEF TypeOK
<1>1. phone' = [phone EXCEPT ![p] = new]
  OBVIOUS
<1>2. /\ new \in Kept /\ new.stored = NoStored
      /\ new.pairing = phone[p].pairing /\ new.refreshing = NoCall
  BY <1>0, NoCallType DEF Kept
<1> QED BY ONLY TypeOK, <1>1, <1>2, PhoneUpdate, p \in Phones

\* What RefreshStart sends.
LEMMA RefreshStartWrites ==
  ASSUME TypeOK, NEW p \in Phones, RefreshStart(p)
  PROVE  \E call \in Call :
           /\ call.state = "sent" /\ call.of = phone[p].stored
           /\ Writes(p, phone[p].stored, phone[p].pairing, call)
<1> DEFINE call == [NoCall EXCEPT !.state = "sent", !.of = phone[p].stored]
<1>0. phone[p].stored \in Stored \cup {NoStored}
  BY DEF TypeOK, Kept
<1>1. call \in Call /\ call.state = "sent" /\ call.of = phone[p].stored
  BY <1>0, NoCallType DEF NoCall, Call
<1>2. phone' = [phone EXCEPT ![p].refreshing = call]
  BY DEF RefreshStart
<1> QED BY <1>1, <1>2, RefreshingWrites

\* What RefreshSession answers.
LEMMA RefreshSessionWrites ==
  ASSUME TypeOK, NEW p \in Phones, RefreshSession(p)
  PROVE  \E call \in Call :
           /\ call.state = "answered" /\ call.of = phone[p].refreshing.of
           /\ Refresh(phone[p].refreshing.of.token, FALSE, call.answer)
           /\ Writes(p, phone[p].stored, phone[p].pairing, call)
<1>1. PICK answer \in Stored \cup {Refused} :
         /\ Refresh(phone[p].refreshing.of.token, FALSE, answer)
         /\ phone' = [phone EXCEPT ![p].refreshing = [@ EXCEPT !.state = "answered",
                                                               !.answer = answer]]
  BY DEF RefreshSession
<1> DEFINE call == [phone[p].refreshing EXCEPT !.state = "answered", !.answer = answer]
<1>2. phone[p].refreshing \in Call
  BY DEF TypeOK, Kept
<1>3. /\ call \in Call /\ call.state = "answered" /\ call.of = phone[p].refreshing.of
      /\ call.answer = answer
  BY <1>2 DEF Call
<1>4. phone' = [phone EXCEPT ![p].refreshing = call]
  BY <1>1 DEF TypeOK
<1> QED BY <1>1, <1>3, <1>4, RefreshingWrites

\* What RedeemPairingCode creates and answers.
LEMMA RedeemWrites ==
  ASSUME TypeOK, NEW p \in Phones, NEW c \in Codes, RedeemPairingCode(p, c)
  PROVE  \E s \in Sessions, call \in Call :
           /\ sessions[s].state = "none"
           /\ made' = made + 1 /\ made' \in Tokens /\ made' \in 0..MaxTokens
           /\ sessions' \in [Sessions -> Row]
           /\ Others(s)
           /\ sessions'[s].state = "active" /\ sessions'[s].code = c
           /\ sessions'[s].current = made' /\ sessions'[s].previous = NoToken
           /\ call.state = "answered" /\ call.answer \in Stored
           /\ call.answer.session = s /\ call.answer.token = made'
           /\ Writes(p, phone[p].stored, call, phone[p].refreshing)
<1>1. /\ made < MaxTokens /\ made' = made + 1
  BY DEF RedeemPairingCode
<1>2. made' \in Tokens /\ made' \in 0..MaxTokens
  BY <1>1, BoundsAssumption DEF TypeOK, Tokens
<1>3. PICK s \in Sessions :
       /\ sessions[s].state = "none"
       /\ sessions' = [sessions EXCEPT ![s] = [NoRow EXCEPT !.state = "active", !.code = c,
                                                             !.current = made']]
       /\ phone' = [phone EXCEPT ![p].pairing = [NoCall EXCEPT
                      !.state = "answered", !.answer = [session |-> s, token |-> made']]]
  BY DEF RedeemPairingCode
<1> DEFINE row  == [NoRow EXCEPT !.state = "active", !.code = c, !.current = made']
           call == [NoCall EXCEPT !.state = "answered", !.answer = [session |-> s, token |-> made']]
<1>4. /\ row \in Row /\ row.state = "active" /\ row.code = c /\ row.current = made'
      /\ row.previous = NoToken
  <2>1. NoRow \in Row /\ NoRow.previous = NoToken
    BY BoundsAssumption DEF NoRow, Row, NoToken
  <2> QED BY <1>2, <2>1 DEF Row
<1>5. /\ call \in Call /\ call.state = "answered"
      /\ call.answer = [session |-> s, token |-> made']
  BY <1>2, NoCallType DEF NoCall, Call, Stored
<1>6. call.answer \in Stored /\ call.answer.session = s /\ call.answer.token = made'
  BY <1>2, <1>5 DEF Stored
<1>7. sessions' \in [Sessions -> Row] /\ Others(s) /\ sessions'[s] = row
  BY <1>3, <1>4 DEF TypeOK, Others
<1>8. phone' = [phone EXCEPT ![p].pairing = call]
  BY <1>3
<1>9. Writes(p, phone[p].stored, call, phone[p].refreshing)
  BY <1>5, <1>8, PairingWrites
<1> HIDE DEF row, call
<1> QED BY <1>1, <1>2, <1>3, <1>4, <1>5, <1>6, <1>7, <1>9

-----------------------------------------------------------------------------
(* What the actions of a phone leave on the wire.                            *)

\* An abandoned refresh carries what the phone keeps.
LEMMA AbandonedIs ==
  ASSUME TypeOK, CallsInv, NEW p \in Phones, NEW r \in Abandoned(p)
  PROVE  /\ r \in Request /\ r.kind = "refresh" /\ r.of = phone[p].stored /\ r.from = p
         /\ phone[p].stored \in Stored
<1>1. phone[p].refreshing.state = "sent" /\ r = [kind |-> "refresh", of |-> phone[p].refreshing.of,
                                                 from |-> p]
  BY DEF Abandoned
<1>2. phone[p].refreshing.of = phone[p].stored /\ phone[p].stored # NoStored
  BY <1>1 DEF CallsInv
<1>3. phone[p].stored \in Stored
  BY <1>2 DEF TypeOK, Kept
<1> QED BY <1>1, <1>2, <1>3 DEF Request

\* So does the sign-out, which is there when the phone keeps something.
LEMMA SigningOutIs ==
  ASSUME TypeOK, NEW p \in Phones
  PROVE  /\ \A r \in SigningOut(p) :
              /\ r \in Request /\ r.kind = "signout" /\ r.of = phone[p].stored /\ r.from = p
              /\ phone[p].stored \in Stored
         /\ phone[p].stored # NoStored => SigningOut(p) # {}
<1>1. phone[p].stored # NoStored => phone[p].stored \in Stored
  BY DEF TypeOK, Kept
<1>2. CASE phone[p].stored = NoStored
  BY <1>2 DEF SigningOut
<1>3. CASE phone[p].stored # NoStored
  <2>1. SigningOut(p) = {[kind |-> "signout", of |-> phone[p].stored, from |-> p]}
    BY <1>3 DEF SigningOut
  <2> QED BY <1>1, <1>3, <2>1 DEF Request
<1> QED BY <1>2, <1>3

\* Names for what a phone and a request know.
LEMMA KeptTypes ==
  ASSUME TypeOK, NEW p \in Phones
  PROVE  /\ phone[p].stored \in Stored \cup {NoStored}
         /\ phone[p].stored # NoStored => /\ phone[p].stored \in Stored
                                          /\ phone[p].stored.session \in Sessions
                                          /\ phone[p].stored.token \in Tokens
         /\ phone[p].stored = NoStored => phone[p].stored.session \notin Sessions
         /\ phone[p].refreshing.answer # Refused => phone[p].refreshing.answer \in Stored
  BY NamesAssumption DEF TypeOK, Kept, Call, NoStored, Stored

\* What a request on the wire carries.
LEMMA WireTypes ==
  ASSUME TypeOK, NEW r \in wire
  PROVE  /\ r.of \in Stored /\ r.of.session \in Sessions /\ r.of.token \in Tokens
         /\ r.from \in Phones
  BY DEF TypeOK, Request, Stored

\* Steps that leave the server alone.
LEMMA ServerStill ==
  ASSUME CodesInv, RowsInv, UNCHANGED <<codes, sessions, made>>
  PROVE  CodesInv' /\ RowsInv' /\ \A x \in Stored : Fits(x) => Fits(x)'
  BY DEF CodesInv, PairedOnce, RowsInv, Holds, Fits

\* Steps that activate no session, set no push token and send no registration.
LEMMA PushKept ==
  ASSUME TypeOK, PushInv,
         \A s \in Sessions : /\ sessions'[s].state = "active" => sessions[s].state = "active"
                             /\ sessions'[s].state = "none" => sessions[s].state = "none",
         \A s \in Sessions : push'[s] = push[s] \/ push'[s] = NoPhone,
         \A r \in wire' : r.kind = "register" => r \in wire,
         \A s \in Sessions, q \in Phones :
           sessions'[s].state = "active" /\ Excused(s, q) => Excused(s, q)'
  PROVE  PushInv'
<1>1. PushFollowsSession'
  <2>1. ASSUME NEW s \in Sessions, NEW q \in Phones, push'[s] = q, sessions'[s].state = "active"
        PROVE  Excused(s, q)'
    BY <2>1, NamesAssumption DEF PushInv, PushFollowsSession, Excused, Active
  <2> QED BY <2>1 DEF PushFollowsSession, Excused, Active
<1>2. ASSUME NEW r \in wire', r.kind = "register", sessions'[r.of.session].state = "active"
      PROVE  Excused(r.of.session, r.from)'
  BY <1>2, WireTypes DEF PushInv, Active
<1>3. \A s \in Sessions : sessions'[s].state = "none" => push'[s] = NoPhone
  BY DEF PushInv
<1> QED BY <1>1, <1>2, <1>3 DEF PushInv, Active

-----------------------------------------------------------------------------
(* Every action keeps the invariant.                                         *)

\* PairAnswered: nobody else has the new session, and the old one gets its sign-out.
LEMMA PairAnsweredStep == ASSUME Inv, NEW p \in Phones, PairAnswered(p) PROVE Inv'
<1> USE DEF Inv
<1>1. Writes(p, phone[p].pairing.answer, NoCall, NoCall)
  BY PairAnsweredWrites
<1>2. UNCHANGED <<codes, sessions, push, made, dropped, left>>
  BY DEF PairAnswered
<1>3. wire' = wire \cup SigningOut(p) \cup Abandoned(p)
  BY DEF PairAnswered, Put
<1>4. Paired(p)
  BY DEF PairAnswered, Paired
<1>5. /\ phone[p].pairing.answer \in Stored /\ Fits(phone[p].pairing.answer)
      /\ phone[p].pairing.answer.session \in Sessions
  BY <1>4 DEF KnownInv, Stored
<1>6. \A r \in wire' : r \in wire \/ /\ r \in Request /\ r.of = phone[p].stored
                                     /\ phone[p].stored \in Stored
                                     /\ phone[p].stored.session \in Sessions
                                     /\ r.kind \in {"signout", "refresh"}
  <2>1. ASSUME NEW r \in SigningOut(p)
        PROVE  r \in Request /\ r.of = phone[p].stored /\ phone[p].stored \in Stored
               /\ r.kind = "signout"
    BY SigningOutIs
  <2>2. ASSUME NEW r \in Abandoned(p)
        PROVE  r \in Request /\ r.of = phone[p].stored /\ phone[p].stored \in Stored
               /\ r.kind = "refresh"
    BY AbandonedIs
  <2>3. phone[p].stored \in Stored => phone[p].stored.session \in Sessions
    BY DEF Stored
  <2> QED BY ONLY <1>3, <2>1, <2>2, <2>3
<1>7. phone[p].stored # NoStored =>
        \E r \in wire' : r.kind = "signout" /\ r.of.session = phone[p].stored.session
  BY <1>3, SigningOutIs
<1>8. NoCall.state = "idle"
  BY DEF NoCall
<1>9. \A q \in Phones : q # p => phone'[q] = phone[q]
  BY <1>1 DEF Writes
<1>10. /\ phone'[p].stored = phone[p].pairing.answer /\ phone'[p].pairing = NoCall
       /\ phone'[p].refreshing = NoCall
  BY <1>1 DEF Writes
<1>a. TypeOK'
  BY <1>1, <1>2, <1>6 DEF TypeOK, Writes
<1>b. CodesInv' /\ RowsInv' /\ \A x \in Stored : Fits(x) => Fits(x)'
  BY <1>2, ServerStill
<1>c. KnownInv'
  <2>1. \A r \in wire' : Fits(r.of)'
    BY <1>2, <1>6, NoCallType DEF KnownInv, Fits, Holds
  <2>2. \A q \in Phones : /\ phone'[q].stored # NoStored => Fits(phone[q].stored)'
                          /\ Paired(q)' => phone'[q].pairing.answer \in Stored /\ Fits(phone[q].pairing.answer)'
                          /\ Refreshed(q)' => Fits(phone[q].refreshing.answer)'
    BY <1>2, <1>5, <1>8, <1>9, <1>10, SMTT(30) DEF KnownInv, Fits, Holds, Paired, Refreshed
  <2> QED BY <2>1, <2>2 DEF KnownInv
<1>d. CallsInv'
  BY <1>8, <1>9, <1>10 DEF CallsInv, Refreshed
<1>e. OwnersInv'
  BY <1>4, <1>6, <1>8, <1>9, <1>10, SMTT(30) DEF OwnersInv, Paired
<1>f. WireInv'
  BY <1>4, <1>5, <1>6, <1>9, <1>10, KeptTypes, WireTypes DEF WireInv, OwnersInv, Paired, Tokens
<1>g. UsableInv'
  BY <1>2, <1>4, <1>5, <1>6, <1>8, <1>9, <1>10, KeptTypes, SMTT(30)
     DEF UsableInv, TokenUsable, Good, Active, Holds, Paired, Refreshed
<1>h. LeftInv'
  BY <1>2 DEF LeftInv, SignOutEnds, Active
<1>i. PushInv'
  <2>1. \A s \in Sessions, q \in Phones : Excused(s, q) => Excused(s, q)'
    BY <1>2, <1>3, <1>7, <1>9, KeptTypes DEF Excused
  <2> QED BY <1>2, <1>6, <2>1, PushKept
<1> QED BY <1>a, <1>b, <1>c, <1>d, <1>e, <1>f, <1>g, <1>h, <1>i

\* PairFails: a session that no phone will ever have.
LEMMA PairFailsStep == ASSUME Inv, NEW p \in Phones, PairFails(p) PROVE Inv'
<1> USE DEF Inv
<1>1. Writes(p, phone[p].stored, NoCall, phone[p].refreshing)
  BY PairingWrites, NoCallType DEF PairFails
<1>2. UNCHANGED <<codes, sessions, push, wire, made, dropped, left>>
  BY DEF PairFails
<1>3. NoCall.state = "idle"
  BY DEF NoCall
<1>4. /\ \A q \in Phones : q # p => phone'[q] = phone[q]
      /\ phone'[p].stored = phone[p].stored /\ phone'[p].pairing = NoCall
      /\ phone'[p].refreshing = phone[p].refreshing
  BY <1>1 DEF Writes
<1>a. TypeOK'
  BY <1>1, <1>2 DEF TypeOK, Writes
<1>b. CodesInv' /\ RowsInv'
  BY <1>2, ServerStill
<1>c. KnownInv'
  BY <1>2, <1>3, <1>4, SMTT(30) DEF KnownInv, Fits, Holds, Paired, Refreshed
<1>d. CallsInv'
  BY <1>4 DEF CallsInv, Refreshed
<1>e. OwnersInv'
  BY <1>2, <1>3, <1>4 DEF OwnersInv, Paired
<1>f. WireInv'
  BY <1>2, <1>4 DEF WireInv
<1>g. UsableInv'
  BY <1>2, <1>3, <1>4, SMTT(30) DEF UsableInv, TokenUsable, Good, Active, Holds, Paired, Refreshed
<1>h. LeftInv'
  BY <1>2 DEF LeftInv, SignOutEnds, Active
<1>i. PushInv'
  <2>1. \A s \in Sessions, q \in Phones : Excused(s, q) => Excused(s, q)'
    BY <1>2, <1>4 DEF Excused
  <2> QED BY <1>2, <2>1, PushKept
<1> QED BY <1>a, <1>b, <1>c, <1>d, <1>e, <1>f, <1>g, <1>h, <1>i

\* RefreshStart: the call carries what the phone keeps.
LEMMA RefreshStartStep == ASSUME Inv, NEW p \in Phones, RefreshStart(p) PROVE Inv'
<1> USE DEF Inv
<1>1. PICK call \in Call :
        /\ call.state = "sent" /\ call.of = phone[p].stored
        /\ Writes(p, phone[p].stored, phone[p].pairing, call)
  BY RefreshStartWrites
<1>2. UNCHANGED <<codes, sessions, push, wire, made, dropped, left>> /\ phone[p].stored # NoStored
  BY DEF RefreshStart
<1>4. /\ \A q \in Phones : q # p => phone'[q] = phone[q]
      /\ phone'[p].stored = phone[p].stored /\ phone'[p].pairing = phone[p].pairing
      /\ phone'[p].refreshing = call
  BY <1>1 DEF Writes
<1>a. TypeOK'
  BY <1>1, <1>2 DEF TypeOK, Writes
<1>b. CodesInv' /\ RowsInv'
  BY <1>2, ServerStill
<1>c. KnownInv'
  BY <1>1, <1>2, <1>4, SMTT(30) DEF KnownInv, Fits, Holds, Paired, Refreshed
<1>d. CallsInv'
  BY <1>1, <1>2, <1>4 DEF CallsInv, Refreshed
<1>e. OwnersInv'
  BY <1>2, <1>4, SMTT(30) DEF OwnersInv, Paired
<1>f. WireInv'
  BY <1>2, <1>4 DEF WireInv
<1>g. UsableInv'
  BY <1>1, <1>2, <1>4, SMTT(30) DEF UsableInv, TokenUsable, Good, Active, Holds, Paired, Refreshed
<1>h. LeftInv'
  BY <1>2 DEF LeftInv, SignOutEnds, Active
<1>i. PushInv'
  <2>1. \A s \in Sessions, q \in Phones : Excused(s, q) => Excused(s, q)'
    BY <1>2, <1>4 DEF Excused
  <2> QED BY <1>2, <2>1, PushKept
<1> QED BY <1>a, <1>b, <1>c, <1>d, <1>e, <1>f, <1>g, <1>h, <1>i

\* RefreshAnswered: the answer has the current token of the same session; a refusal means
\* that the session has ended.
LEMMA RefreshAnsweredStep == ASSUME Inv, NEW p \in Phones, RefreshAnswered(p) PROVE Inv'
<1> USE DEF Inv
<1> DEFINE new == phone[p].refreshing.answer
<1>1. Writes(p, new, phone[p].pairing, NoCall)
  BY RefreshAnsweredWrites
<1>2. UNCHANGED <<codes, sessions, push, wire, made, dropped, left>>
  BY DEF RefreshAnswered
<1>3. NoCall.state = "idle" /\ NoStored = Refused /\ NoStored.session \notin Sessions
  BY NamesAssumption DEF NoCall, NoStored, Refused
<1>4. /\ \A q \in Phones : q # p => phone'[q] = phone[q]
      /\ phone'[p].stored = new /\ phone'[p].pairing = phone[p].pairing
      /\ phone'[p].refreshing = NoCall
  BY <1>1 DEF Writes
<1>5. phone[p].refreshing.state = "answered" /\ phone[p].stored \in Stored
      /\ phone[p].stored.session \in Sessions /\ phone[p].stored.token \in Tokens
  BY KeptTypes DEF RefreshAnswered, CallsInv
<1>6. new # Refused => /\ Refreshed(p) /\ new \in Stored /\ new.session = phone[p].stored.session
                       /\ new.token \in Tokens /\ new.token > phone[p].stored.token /\ Fits(new)
  BY <1>5, KeptTypes DEF CallsInv, KnownInv, Refreshed, Stored
<1> HIDE DEF new
<1>a. TypeOK'
  BY <1>1, <1>2 DEF TypeOK, Writes
<1>b. CodesInv' /\ RowsInv'
  BY <1>2, ServerStill
<1>c. KnownInv'
  BY <1>2, <1>3, <1>4, <1>6, SMTT(30) DEF KnownInv, Fits, Holds, Paired, Refreshed
<1>d. CallsInv'
  BY <1>3, <1>4 DEF CallsInv, Refreshed
<1>e. OwnersInv'
  <2>1. ASSUME NEW q \in Phones, Paired(q)
        PROVE  phone[q].pairing.answer.session \in Sessions
    BY <2>1 DEF KnownInv, Stored
  <2>2. \A q \in Phones : phone[q].stored # NoStored => phone[q].stored.session \in Sessions
    BY KeptTypes
  <2> QED BY <1>2, <1>3, <1>4, <1>5, <1>6, <2>1, <2>2, SMTT(30) DEF OwnersInv, Paired
<1>f. WireInv'
  BY <1>2, <1>3, <1>4, <1>5, <1>6, WireTypes DEF WireInv, Tokens
<1>g. UsableInv'
  <2>1. new # Refused /\ Good(new.session) => Holds(new.session, new.token)
    BY <1>6 DEF UsableInv, Holds, new
  <2> QED BY <1>2, <1>3, <1>4, <2>1, SMTT(30) DEF UsableInv, TokenUsable, Good, Active, Holds, Paired, Refreshed
<1>h. LeftInv'
  BY <1>2 DEF LeftInv, SignOutEnds, Active
<1>i. PushInv'
  <2>1. new = Refused => ~Good(phone[p].stored.session)
    BY <1>5 DEF UsableInv, new
  <2>2. \A s \in Sessions, q \in Phones : Active(s) /\ Excused(s, q) => Excused(s, q)'
    BY <1>2, <1>4, <1>5, <1>6, <2>1 DEF Excused, Good
  <2> QED BY <1>2, <2>2, PushKept DEF Active
<1> QED BY <1>a, <1>b, <1>c, <1>d, <1>e, <1>f, <1>g, <1>h, <1>i

\* RefreshFails: the request on the wire is as new as what the phone keeps.
LEMMA RefreshFailsStep == ASSUME Inv, NEW p \in Phones, RefreshFails(p) PROVE Inv'
<1> USE DEF Inv
<1>1. Writes(p, phone[p].stored, phone[p].pairing, NoCall)
  BY RefreshingWrites, NoCallType DEF RefreshFails
<1>2. UNCHANGED <<codes, sessions, push, made, dropped, left>>
  BY DEF RefreshFails
<1>3. NoCall.state = "idle"
  BY DEF NoCall
<1>4. /\ \A q \in Phones : q # p => phone'[q] = phone[q]
      /\ phone'[p].stored = phone[p].stored /\ phone'[p].pairing = phone[p].pairing
      /\ phone'[p].refreshing = NoCall
  BY <1>1 DEF Writes
<1>5. wire' = wire \cup Abandoned(p)
  BY DEF RefreshFails, Put
<1>6. \A r \in wire' : r \in wire \/ /\ r \in Request /\ r.of = phone[p].stored
                                     /\ phone[p].stored \in Stored
                                     /\ phone[p].stored.session \in Sessions
                                     /\ phone[p].stored.token \in Tokens
                                     /\ r.kind = "refresh"
  BY <1>5, AbandonedIs DEF Stored
<1>a. TypeOK'
  BY <1>1, <1>2, <1>6 DEF TypeOK, Writes
<1>b. CodesInv' /\ RowsInv'
  BY <1>2, ServerStill
<1>c. KnownInv'
  BY <1>2, <1>3, <1>4, <1>6, NoCallType, SMTT(30) DEF KnownInv, Fits, Holds, Paired, Refreshed
<1>d. CallsInv'
  BY <1>3, <1>4 DEF CallsInv, Refreshed
<1>e. OwnersInv'
  BY <1>2, <1>3, <1>4, <1>6, SMTT(30) DEF OwnersInv, Paired
<1>f. WireInv'
  <2>1. \A r \in wire : r.of.token \in Tokens
    BY WireTypes
  <2> QED BY <1>2, <1>4, <1>6, <2>1, NoCallType DEF WireInv, OwnersInv, Tokens
<1>g. UsableInv'
  BY <1>2, <1>3, <1>4, <1>6, SMTT(30) DEF UsableInv, TokenUsable, Good, Active, Holds, Paired, Refreshed
<1>h. LeftInv'
  BY <1>2 DEF LeftInv, SignOutEnds, Active
<1>i. PushInv'
  <2>1. \A s \in Sessions, q \in Phones : Excused(s, q) => Excused(s, q)'
    BY <1>2, <1>4, <1>5 DEF Excused
  <2> QED BY <1>2, <1>6, <2>1, PushKept
<1> QED BY <1>a, <1>b, <1>c, <1>d, <1>e, <1>f, <1>g, <1>h, <1>i

\* SignOut and CallRefused: the phone forgets its session.
LEMMA ForgetStep ==
  ASSUME Inv, NEW p \in Phones, SignOut(p) \/ CallRefused(p)
  PROVE  Inv'
<1> USE DEF Inv
<1>1. Writes(p, NoStored, phone[p].pairing, NoCall)
  BY ForgetWrites DEF SignOut, CallRefused
<1>2. UNCHANGED <<codes, sessions, push, made, dropped, left>> /\ phone[p].stored # NoStored
  BY DEF SignOut, CallRefused
<1>3. NoCall.state = "idle" /\ NoStored.session \notin Sessions
  BY NamesAssumption DEF NoCall, NoStored
<1>4. /\ \A q \in Phones : q # p => phone'[q] = phone[q]
      /\ phone'[p].stored = NoStored /\ phone'[p].pairing = phone[p].pairing
      /\ phone'[p].refreshing = NoCall
  BY <1>1 DEF Writes
<1>5. /\ wire \subseteq wire' /\ wire' \subseteq wire \cup SigningOut(p) \cup Abandoned(p)
      /\ ~Active(phone[p].stored.session) \/ SigningOut(p) \subseteq wire'
  BY DEF SignOut, CallRefused, Put
<1>6. \A r \in wire' : r \in wire \/ /\ r \in Request /\ r.of = phone[p].stored
                                     /\ r.kind \in {"signout", "refresh"}
  <2>1. ASSUME NEW r \in SigningOut(p)
        PROVE  r \in Request /\ r.of = phone[p].stored /\ r.kind = "signout"
    BY SigningOutIs
  <2>2. ASSUME NEW r \in Abandoned(p)
        PROVE  r \in Request /\ r.of = phone[p].stored /\ r.kind = "refresh"
    BY AbandonedIs
  <2> QED BY ONLY <1>5, <2>1, <2>2
<1>7. /\ phone[p].stored \in Stored /\ phone[p].stored.session \in Sessions
      /\ phone[p].stored.token \in Tokens
  BY <1>2, KeptTypes
<1>a. TypeOK'
  BY <1>1, <1>2, <1>6 DEF TypeOK, Writes
<1>b. CodesInv' /\ RowsInv'
  BY <1>2, ServerStill
<1>c. KnownInv'
  BY <1>2, <1>3, <1>4, <1>6, SMTT(30) DEF KnownInv, Fits, Holds, Paired, Refreshed
<1>d. CallsInv'
  BY <1>3, <1>4 DEF CallsInv, Refreshed
<1>e. OwnersInv'
  <2>1. \A q \in Phones : phone[q].stored # NoStored => phone[q].stored.session \in Sessions
    BY KeptTypes
  <2>2. ASSUME NEW q \in Phones, Paired(q)
        PROVE  phone[q].pairing.answer.session \in Sessions
    BY <2>2 DEF KnownInv, Stored
  <2> QED BY <1>2, <1>3, <1>4, <1>6, <2>1, <2>2, SMTT(30) DEF OwnersInv, Paired
<1>f. WireInv'
  <2>1. \A r \in wire : r.of.token \in Tokens /\ r.of.session \in Sessions
    BY WireTypes
  <2> QED BY <1>2, <1>3, <1>4, <1>6, <1>7, <2>1 DEF WireInv, OwnersInv, Tokens
<1>g. UsableInv'
  <2>1. Good(phone[p].stored.session) => Holds(phone[p].stored.session, phone[p].stored.token)
    BY <1>2 DEF UsableInv, TokenUsable, Good
  <2> QED BY <1>2, <1>3, <1>4, <1>6, <2>1, SMTT(30)
          DEF UsableInv, TokenUsable, Good, Active, Holds, Paired, Refreshed
<1>h. LeftInv'
  BY <1>2 DEF LeftInv, SignOutEnds, Active
<1>i. PushInv'
  <2>1. ~Active(phone[p].stored.session) \/
          \E r \in wire' : r.kind = "signout" /\ r.of.session = phone[p].stored.session
    BY <1>2, <1>5, SigningOutIs
  <2>2. \A s \in Sessions, q \in Phones : Active(s) /\ Excused(s, q) => Excused(s, q)'
    BY <1>2, <1>4, <1>5, <2>1 DEF Excused
  <2>3. \A r \in wire' : r.kind = "register" => r \in wire
    BY <1>6
  <2> QED BY <1>2, <2>2, <2>3, PushKept DEF Active
<1> QED BY <1>a, <1>b, <1>c, <1>d, <1>e, <1>f, <1>g, <1>h, <1>i

\* RegisterPushToken: a registration in the session that the phone has.
LEMMA RegisterPushTokenStep == ASSUME Inv, NEW p \in Phones, RegisterPushToken(p) PROVE Inv'
<1> USE DEF Inv
<1> DEFINE new == [kind |-> "register", of |-> phone[p].stored, from |-> p]
<1>1. UNCHANGED <<codes, sessions, push, phone, made, dropped, left>> /\ phone[p].stored # NoStored
  BY DEF RegisterPushToken
<1>2. /\ phone[p].stored \in Stored /\ phone[p].stored.session \in Sessions
      /\ phone[p].stored.token \in Tokens
  BY <1>1, KeptTypes
<1>3. new \in Request /\ new.of = phone[p].stored /\ new.kind = "register" /\ new.from = p
  BY <1>2 DEF Request
<1>4. wire' = wire \cup {new}
  BY DEF RegisterPushToken, Put
<1> HIDE DEF new
<1>a. TypeOK'
  BY <1>1, <1>3, <1>4 DEF TypeOK
<1>b. CodesInv' /\ RowsInv'
  BY <1>1, ServerStill
<1>c. KnownInv'
  BY <1>1, <1>3, <1>4 DEF KnownInv, Fits, Holds, Paired, Refreshed
<1>d. CallsInv'
  BY <1>1 DEF CallsInv, Refreshed
<1>e. OwnersInv'
  BY <1>1, <1>3, <1>4 DEF OwnersInv, Paired
<1>f. WireInv'
  <2>1. \A r \in wire : r.of.token \in Tokens /\ r.of.session \in Sessions
    BY WireTypes
  <2> QED BY <1>1, <1>2, <1>3, <1>4, <2>1 DEF WireInv, OwnersInv, Tokens
<1>g. UsableInv'
  BY <1>1, <1>3, <1>4 DEF UsableInv, TokenUsable, Good, Active, Holds, Paired, Refreshed
<1>h. LeftInv'
  BY <1>1 DEF LeftInv, SignOutEnds, Active
<1>i. PushInv'
  <2>1. \A s \in Sessions, q \in Phones : Excused(s, q) => Excused(s, q)'
    BY <1>1, <1>4 DEF Excused
  <2>2. PushFollowsSession'
    <3>1. \A s \in Sessions, q \in Phones : push[s] = q /\ Active(s) => Excused(s, q)
      BY DEF PushInv, PushFollowsSession, Excused
    <3>2. \A s \in Sessions, q \in Phones : (push[s] = q /\ Active(s) => Excused(s, q))'
      BY <1>1, <2>1, <3>1 DEF Active
    <3> QED BY <3>2 DEF PushFollowsSession, Excused
  <2>3. ASSUME NEW r \in wire', r.kind = "register", Active(r.of.session)
        PROVE  Excused(r.of.session, r.from)'
    <3>1. CASE r \in wire
      BY <2>1, <2>3, <3>1, WireTypes DEF PushInv
    <3>2. CASE r = new
      BY <1>1, <1>3, <3>2 DEF Excused
    <3> QED BY <1>4, <3>1, <3>2
  <2> QED BY <1>1, <2>2, <2>3 DEF PushInv, Active
<1> QED BY <1>a, <1>b, <1>c, <1>d, <1>e, <1>f, <1>g, <1>h, <1>i

-----------------------------------------------------------------------------
(* Steps of the server.                                                      *)

\* A row at rest, or one that ends, expires, is purged or loses its grace.
Fading(s) ==
  /\ sessions'[s].code = sessions[s].code
  /\ sessions'[s].state = "none" <=> sessions[s].state = "none"
  /\ sessions'[s].state = "active" => /\ sessions[s].state = "active"
                                      /\ sessions'[s].current = sessions[s].current
                                      /\ sessions'[s].previous = sessions[s].previous
  /\ \/ sessions'[s].current = sessions[s].current /\ sessions'[s].previous = sessions[s].previous
     \/ sessions'[s].current = NoToken /\ sessions'[s].previous = NoToken

\* Rows that fade stay apart, keep their codes and free no token for another session.
LEMMA FadingRows ==
  ASSUME TypeOK, RowsInv, CodesInv, \A s \in Sessions : Fading(s), made' = made,
         \A c \in Codes : codes[c] = "redeemed" => codes'[c] = "redeemed"
  PROVE  CodesInv' /\ RowsInv' /\ \A x \in Stored : Fits(x) => Fits(x)'
<1>0. \A s \in Sessions : sessions[s].code \in Codes \cup {NoCode}
  BY DEF TypeOK, Row
<1>1. CodesInv'
  BY <1>0 DEF CodesInv, PairedOnce, Fading
<1>2. \A s \in Sessions, token \in Tokens : Holds(s, token)' => Holds(s, token)
  BY BoundsAssumption DEF Fading, Holds, Tokens, NoToken
<1>3. RowsInv'
  <2>1. \A s, t \in Sessions, token \in Tokens : Holds(s, token)' /\ Holds(t, token)' => s = t
    BY <1>2 DEF RowsInv
  <2>2. \A s \in Sessions : /\ sessions'[s].current <= made
                            /\ \/ sessions'[s].previous < sessions'[s].current
                               \/ sessions'[s].previous = NoToken
    BY DEF RowsInv, Fading, NoToken, TypeOK
  <2> QED BY <2>1, <2>2 DEF RowsInv
<1>4. ASSUME NEW x \in Stored, Fits(x) PROVE Fits(x)'
  <2>1. x.session \in Sessions /\ x.token \in Tokens
    BY DEF Stored
  <2> QED BY <1>2, <1>4, <2>1 DEF Fits, Fading
<1> QED BY <1>1, <1>3, <1>4

\* The steps of the server that no phone notices.
LEMMA QuietStep ==
  ASSUME Inv, TypeOK', UNCHANGED <<phone, wire, made, dropped, left>>,
         \A s \in Sessions : Fading(s),
         \A s \in Sessions : push'[s] = push[s] \/ push'[s] = NoPhone,
         \A c \in Codes : codes[c] = "redeemed" => codes'[c] = "redeemed"
  PROVE  Inv'
<1> USE DEF Inv
<1>1. CodesInv' /\ RowsInv' /\ \A x \in Stored : Fits(x) => Fits(x)'
  BY FadingRows
<1>2. \A s \in Sessions : /\ sessions'[s].state = "active" => /\ sessions[s].state = "active"
                                                              /\ sessions'[s].current = sessions[s].current
                                                              /\ sessions'[s].previous = sessions[s].previous
                          /\ sessions'[s].state = "none" <=> sessions[s].state = "none"
  BY DEF Fading
<1>3. \A q \in Phones : phone[q].stored # NoStored => phone[q].stored \in Stored
                                                      /\ phone[q].stored.session \in Sessions
  BY KeptTypes
<1>4. \A q \in Phones : Paired(q) => phone[q].pairing.answer \in Stored
                                     /\ phone[q].pairing.answer.session \in Sessions
  BY DEF KnownInv, Stored
<1>5. \A q \in Phones : phone[q].refreshing.answer # Refused => phone[q].refreshing.answer \in Stored
  BY KeptTypes
<1>6. \A r \in wire : r.of \in Stored /\ r.of.session \in Sessions
  BY WireTypes
<1>c. KnownInv'
  <2>1. \A r \in wire' : Fits(r.of)'
    <3>1. \A r \in wire : Fits(r.of)
      BY DEF KnownInv
    <3> QED BY <1>1, <1>6, <3>1 DEF Fits
  <2>2. ASSUME NEW q \in Phones
        PROVE  /\ phone[q].stored # NoStored => Fits(phone[q].stored)'
               /\ Paired(q) => Fits(phone[q].pairing.answer)'
               /\ Refreshed(q) => Fits(phone[q].refreshing.answer)'
    BY <1>1, <1>3, <1>4, <1>5 DEF KnownInv, Fits, Refreshed
  <2> QED BY <1>4, <2>1, <2>2 DEF KnownInv, Paired, Refreshed
<1>d. CallsInv' /\ OwnersInv' /\ WireInv'
  BY DEF CallsInv, Refreshed, OwnersInv, Paired, WireInv
<1>g. UsableInv'
  <2>1. \A q \in Phones : phone[q].refreshing.state = "answered" => phone[q].stored # NoStored
    BY DEF CallsInv
  <2> QED BY <1>2, <1>3, <1>4, <1>6, <2>1
          DEF UsableInv, TokenUsable, Good, Active, Holds, Paired, Refreshed
<1>h. LeftInv'
  BY <1>2 DEF LeftInv, SignOutEnds, Active
<1>i. PushInv'
  <2>1. \A s \in Sessions, q \in Phones : Excused(s, q) => Excused(s, q)'
    BY DEF Excused
  <2> QED BY <1>2, <2>1, PushKept
<1> QED BY <1>1, <1>c, <1>d, <1>g, <1>h, <1>i

\* CreatePairingCode, CodeExpires, TurnPushOff and ForgetDeviceToken.
LEMMA NoSessionStep ==
  ASSUME Inv,
         \/ \E c \in Codes : CreatePairingCode(c) \/ CodeExpires(c)
         \/ \E p \in Phones : TurnPushOff(p) \/ ForgetDeviceToken(p)
         \/ UNCHANGED vars
  PROVE  Inv'
<1> USE DEF Inv
<1>1. UNCHANGED <<sessions, phone, wire, made, dropped, left>>
  BY DEF CreatePairingCode, CodeExpires, TurnPushOff, ForgetDeviceToken, vars
<1>2. /\ codes' \in [Codes -> {"none", "issued", "expired", "redeemed"}]
      /\ \A c \in Codes : codes[c] = "redeemed" => codes'[c] = "redeemed"
  BY DEF CreatePairingCode, CodeExpires, TurnPushOff, ForgetDeviceToken, vars, TypeOK
<1>3. /\ push' \in [Sessions -> Phones \cup {NoPhone}]
      /\ \A s \in Sessions : push'[s] = push[s] \/ push'[s] = NoPhone
  BY DEF CreatePairingCode, CodeExpires, TurnPushOff, ForgetDeviceToken, vars, TypeOK
<1>4. TypeOK'
  BY <1>1, <1>2, <1>3 DEF TypeOK
<1>5. \A s \in Sessions : Fading(s)
  BY <1>1 DEF Fading
<1> QED BY <1>1, <1>2, <1>3, <1>4, <1>5, QuietStep

\* RevokeSession, SessionExpires, GraceEnds and Purge.
LEMMA EndingStep ==
  ASSUME Inv, NEW s \in Sessions,
         RevokeSession(s) \/ SessionExpires(s) \/ GraceEnds(s) \/ Purge(s)
  PROVE  Inv'
<1> USE DEF Inv
<1>1. UNCHANGED <<codes, phone, wire, made, dropped, left>>
  BY DEF RevokeSession, SessionExpires, GraceEnds, Purge
<1>2. sessions[s] \in Row
  BY DEF TypeOK
<1>3. ASSUME NEW row \in Row, sessions' = [sessions EXCEPT ![s] = row], row.code = sessions[s].code,
             sessions[s].state # "none", row.state # "none",
             row.state = "active" => /\ sessions[s].state = "active"
                                     /\ row.current = sessions[s].current
                                     /\ row.previous = sessions[s].previous,
             \/ row.current = sessions[s].current /\ row.previous = sessions[s].previous
             \/ row.current = NoToken /\ row.previous = NoToken,
             push' = push \/ push' = [push EXCEPT ![s] = NoPhone]
      PROVE  Inv'
  <2>1. sessions' \in [Sessions -> Row] /\ sessions'[s] = row /\ Others(s)
    BY <1>3 DEF TypeOK, Others
  <2>2. \A t \in Sessions : Fading(t)
    BY <1>3, <2>1 DEF Fading, Others
  <2>3. /\ push' \in [Sessions -> Phones \cup {NoPhone}]
        /\ \A t \in Sessions : push'[t] = push[t] \/ push'[t] = NoPhone
    BY <1>3 DEF TypeOK
  <2>4. TypeOK'
    BY <1>1, <2>1, <2>3 DEF TypeOK
  <2> QED BY <1>1, <2>2, <2>3, <2>4, QuietStep
<1>4. CASE RevokeSession(s)
  <2> DEFINE row == [sessions[s] EXCEPT !.state = "ended"]
  <2>1. /\ row \in Row /\ row.state = "ended" /\ row.code = sessions[s].code
        /\ row.current = sessions[s].current /\ row.previous = sessions[s].previous
    BY <1>2 DEF Row
  <2>2. sessions' = [sessions EXCEPT ![s] = row] /\ push' = push /\ sessions[s].state # "none"
    BY <1>4 DEF RevokeSession, End, Unrevoked
  <2> QED BY <1>3, <2>1, <2>2
<1>5. CASE SessionExpires(s)
  <2> DEFINE row == [sessions[s] EXCEPT !.state = "expired"]
  <2>1. /\ row \in Row /\ row.state = "expired" /\ row.code = sessions[s].code
        /\ row.current = sessions[s].current /\ row.previous = sessions[s].previous
    BY <1>2 DEF Row
  <2>2. sessions' = [sessions EXCEPT ![s] = row] /\ push' = push /\ sessions[s].state # "none"
    BY <1>5 DEF SessionExpires, Active
  <2> QED BY <1>3, <2>1, <2>2
<1>6. CASE GraceEnds(s)
  <2> DEFINE row == [sessions[s] EXCEPT !.grace = FALSE]
  <2>1. /\ row \in Row /\ row.state = sessions[s].state /\ row.code = sessions[s].code
        /\ row.current = sessions[s].current /\ row.previous = sessions[s].previous
    BY <1>2 DEF Row
  <2>2. sessions' = [sessions EXCEPT ![s] = row] /\ push' = push /\ sessions[s].state = "active"
    BY <1>6 DEF GraceEnds, Active
  <2> QED BY <1>3, <2>1, <2>2
<1>7. CASE Purge(s)
  <2> DEFINE row == [NoRow EXCEPT !.state = "purged", !.code = sessions[s].code]
  <2>1. /\ row \in Row /\ row.state = "purged" /\ row.code = sessions[s].code
        /\ row.current = NoToken /\ row.previous = NoToken
    <3>1. NoRow \in Row /\ NoRow.current = NoToken /\ NoRow.previous = NoToken
      BY BoundsAssumption DEF NoRow, Row, NoToken
    <3> QED BY <1>2, <3>1 DEF Row
  <2>2. /\ sessions' = [sessions EXCEPT ![s] = row] /\ push' = [push EXCEPT ![s] = NoPhone]
        /\ sessions[s].state # "none"
    BY <1>7 DEF Purge
  <2> QED BY <1>3, <2>1, <2>2
<1> QED BY <1>4, <1>5, <1>6, <1>7

\* RedeemPairingCode: the session and its token are new to everybody.
LEMMA RedeemStep ==
  ASSUME Inv, NEW p \in Phones, NEW c \in Codes, RedeemPairingCode(p, c)
  PROVE  Inv'
<1> USE DEF Inv
<1>1. PICK s \in Sessions, call \in Call :
        /\ sessions[s].state = "none"
        /\ made' = made + 1 /\ made' \in Tokens /\ made' \in 0..MaxTokens
        /\ sessions' \in [Sessions -> Row]
        /\ Others(s)
        /\ sessions'[s].state = "active" /\ sessions'[s].code = c
        /\ sessions'[s].current = made' /\ sessions'[s].previous = NoToken
        /\ call.state = "answered" /\ call.answer \in Stored
        /\ call.answer.session = s /\ call.answer.token = made'
        /\ Writes(p, phone[p].stored, call, phone[p].refreshing)
  BY RedeemWrites
<1>2. UNCHANGED <<push, wire, dropped, left>>
  BY DEF RedeemPairingCode
<1>3. codes[c] = "issued" /\ codes' = [codes EXCEPT ![c] = "redeemed"]
  BY DEF RedeemPairingCode, Redeemable
<1>4. /\ \A q \in Phones : q # p => phone'[q] = phone[q]
      /\ phone'[p].stored = phone[p].stored /\ phone'[p].pairing = call
      /\ phone'[p].refreshing = phone[p].refreshing
  BY <1>1 DEF Writes
<1>5. \A t \in Sessions : t # s => sessions'[t] = sessions[t]
  BY <1>1 DEF Others
<1>6. made \in 0..MaxTokens
  BY DEF TypeOK
<1>7. /\ \A q \in Phones : phone[q].stored # NoStored =>
           phone[q].stored.session \in Sessions /\ phone[q].stored.session # s
      /\ \A q \in Phones : phone[q].stored.session # s
      /\ \A q \in Phones : Paired(q) => /\ phone[q].pairing.answer.session \in Sessions
                                        /\ phone[q].pairing.answer.session # s
      /\ \A r \in wire : r.of.session \in Sessions /\ r.of.session # s
  BY <1>1, KeptTypes, WireTypes DEF KnownInv, Fits, Stored
<1>8. \A t \in Sessions : /\ sessions[t].current \in 0..MaxTokens
                          /\ sessions[t].previous \in 0..MaxTokens
                          /\ sessions[t].current <= made /\ sessions[t].previous <= made
  BY <1>6, BoundsAssumption DEF TypeOK, Row, RowsInv, NoToken
<1>a. TypeOK'
  BY <1>1, <1>2, <1>3 DEF TypeOK, Writes
<1>b. CodesInv'
  <2>1. \A t \in Sessions : sessions[t].code \in Codes \cup {NoCode} /\ sessions[t].code # c
    BY <1>3, NamesAssumption DEF TypeOK, Row, CodesInv
  <2>2. \A d \in Codes : codes'[d] = IF d = c THEN "redeemed" ELSE codes[d]
    BY <1>3 DEF TypeOK
  <2> QED BY <1>1, <1>5, <2>1, <2>2, NamesAssumption DEF CodesInv, PairedOnce
<1>r. RowsInv'
  <2>1. \A t \in Sessions, token \in Tokens :
          Holds(t, token)' => (Holds(t, token) /\ t # s) \/ (t = s /\ token = made + 1)
    <3> SUFFICES ASSUME NEW t \in Sessions, NEW token \in Tokens, Holds(t, token)'
                 PROVE  (Holds(t, token) /\ t # s) \/ (t = s /\ token = made + 1)
      OBVIOUS
    <3>1. CASE t = s
      BY <1>1, <3>1, BoundsAssumption DEF Holds, Tokens, NoToken
    <3>2. CASE t # s
      BY <1>5, <3>2 DEF Holds
    <3> QED BY <3>1, <3>2
  <2>2. \A t \in Sessions, token \in Tokens : Holds(t, token) => token <= made
    BY <1>8 DEF Holds
  <2>3. \A t, u \in Sessions, token \in Tokens : Holds(t, token)' /\ Holds(u, token)' => t = u
    BY <1>6, <2>1, <2>2 DEF RowsInv, Tokens
  <2>4. \A t \in Sessions : /\ sessions'[t].current <= made'
                            /\ \/ sessions'[t].previous < sessions'[t].current
                               \/ sessions'[t].previous = NoToken
    BY <1>1, <1>5, <1>6, <1>8 DEF RowsInv
  <2> QED BY <2>3, <2>4 DEF RowsInv
<1>k. \A x \in Stored : Fits(x) => Fits(x)'
  <2>1. ASSUME NEW x \in Stored, Fits(x) PROVE Fits(x)'
    <3>1. x.session \in Sessions /\ x.token \in Tokens
      BY DEF Stored
    <3>2. x.session # s
      BY <1>1, <2>1 DEF Fits
    <3> QED BY <1>1, <1>5, <1>6, <2>1, <3>1, <3>2 DEF Fits, Holds, Tokens, NoToken
  <2> QED BY <2>1
<1>c. KnownInv'
  <2>0. Fits(call.answer)'
    BY <1>1, <1>5, <1>6, <1>8 DEF Fits, Holds
  <2>1. \A r \in wire' : Fits(r.of)'
    BY <1>2, <1>k, WireTypes DEF KnownInv, Fits
  <2>2. \A x \in Stored : Fits(x) => /\ x.token <= made' /\ sessions'[x.session].state # "none"
                                     /\ \A t \in Sessions : Holds(t, x.token)' => t = x.session
    BY <1>k DEF Fits
  <2>3. ASSUME NEW q \in Phones
        PROVE  /\ phone'[q].stored # NoStored => Fits(phone[q].stored)'
               /\ Paired(q)' => phone'[q].pairing.answer \in Stored /\ Fits(phone[q].pairing.answer)'
               /\ Refreshed(q)' => Fits(phone[q].refreshing.answer)'
    <3>1. /\ phone[q].stored # NoStored => phone[q].stored \in Stored /\ Fits(phone[q].stored)
          /\ Paired(q) => phone[q].pairing.answer \in Stored /\ Fits(phone[q].pairing.answer)
          /\ Refreshed(q) => phone[q].refreshing.answer \in Stored /\ Fits(phone[q].refreshing.answer)
      BY KeptTypes DEF KnownInv, Refreshed
    <3>2. phone'[q].stored = phone[q].stored /\ phone'[q].refreshing = phone[q].refreshing
      BY <1>4
    <3>3. Paired(q)' => phone'[q].pairing.answer \in Stored /\ Fits(phone[q].pairing.answer)'
      <4>1. CASE q = p
        BY <1>1, <1>4, <2>0, <4>1 DEF Fits
      <4>2. CASE q # p
        BY <1>4, <2>2, <3>1, <4>2 DEF Paired, Fits
      <4> QED BY <4>1, <4>2
    <3> QED BY <2>2, <3>1, <3>2, <3>3 DEF Refreshed, Fits
  <2> QED BY <2>1, <2>3 DEF KnownInv
<1>d. CallsInv'
  BY <1>4 DEF CallsInv, Refreshed
<1>e. OwnersInv'
  BY <1>1, <1>2, <1>4, <1>7, SMTT(30) DEF OwnersInv, Paired
<1>f. WireInv'
  BY <1>2, <1>4 DEF WireInv
<1>g. UsableInv'
  <2>1. \A q \in Phones : phone[q].refreshing.state = "answered" => phone[q].stored # NoStored
    BY DEF CallsInv
  <2>2. TokenUsable'
    <3>1. \A q \in Phones : phone'[q].stored = phone[q].stored
      BY <1>4
    <3> QED BY <1>2, <1>5, <1>7, <3>1 DEF UsableInv, TokenUsable, Active, Holds
  <2>3. ASSUME NEW q \in Phones, Paired(q)'
        PROVE  phone'[q].pairing.answer.token = sessions'[phone'[q].pairing.answer.session].current
               \/ sessions'[phone'[q].pairing.answer.session].state # "active"
    <3>1. CASE q = p
      BY <1>1, <1>4, <3>1
    <3>2. CASE q # p
      BY <1>4, <1>5, <1>7, <2>3, <3>2 DEF UsableInv, Paired, Active
    <3> QED BY <3>1, <3>2
  <2>4. ASSUME NEW q \in Phones, phone'[q].refreshing.state = "answered", Good(phone[q].stored.session)'
        PROVE  /\ phone'[q].refreshing.answer # Refused
               /\ phone'[q].refreshing.answer.token = sessions'[phone'[q].stored.session].current
    <3>1. phone'[q].stored = phone[q].stored /\ phone'[q].refreshing = phone[q].refreshing
      BY <1>4
    <3>2. phone[q].stored # NoStored
      BY <2>1, <2>4, <3>1
    <3>3. sessions'[phone[q].stored.session] = sessions[phone[q].stored.session]
      BY <1>5, <1>7, <3>2
    <3> QED BY <1>2, <2>4, <3>1, <3>3 DEF UsableInv, Good, Active, Refreshed
  <2>5. \A r \in wire' : r.kind = "signout" /\ Good(r.of.session)' => Holds(r.of.session, r.of.token)'
    BY <1>2, <1>5, <1>7 DEF UsableInv, Good, Active, Holds
  <2> QED BY <2>2, <2>3, <2>4, <2>5 DEF UsableInv, Refreshed, Active
<1>h. LeftInv'
  BY <1>1, <1>2, <1>5 DEF LeftInv, SignOutEnds, Active
<1>i. PushInv'
  <2>1. \A t \in Sessions, q \in Phones : Excused(t, q) => Excused(t, q)'
    BY <1>2, <1>4 DEF Excused
  <2>2. push'[s] = NoPhone
    BY <1>1, <1>2 DEF PushInv
  <2>3. PushFollowsSession'
    <3>1. ASSUME NEW t \in Sessions, NEW q \in Phones, push'[t] = q, Active(t)'
          PROVE  Excused(t, q)'
      BY <1>2, <1>5, <2>1, <2>2, <3>1, NamesAssumption
         DEF PushInv, PushFollowsSession, Excused, Active
    <3> QED BY <3>1 DEF PushFollowsSession, Excused
  <2>4. ASSUME NEW r \in wire', r.kind = "register", Active(r.of.session)'
        PROVE  Excused(r.of.session, r.from)'
    BY <1>2, <1>5, <1>7, <2>1, <2>4, WireTypes DEF PushInv, Active
  <2>5. \A t \in Sessions : sessions'[t].state = "none" => push'[t] = NoPhone
    BY <1>1, <1>2, <1>5 DEF PushInv
  <2> QED BY <2>3, <2>4, <2>5 DEF PushInv, Active
<1> QED BY <1>a, <1>b, <1>r, <1>c, <1>d, <1>e, <1>f, <1>g, <1>h, <1>i

\* A refresh that succeeds keeps the rows apart, and its answer fits.
LEMMA RenewedRows ==
  ASSUME TypeOK, RowsInv, CodesInv, NEW x \in Stored, Fits(x), NEW late, NEW answer,
         Renewed(x, late, answer), UNCHANGED codes
  PROVE  /\ CodesInv' /\ RowsInv' /\ \A y \in Stored : Fits(y) => Fits(y)'
         /\ answer \in Stored /\ Fits(answer)'
         /\ answer.session = x.session /\ answer.token = made + 1
<1> DEFINE s == x.session
<1>0. s \in Sessions /\ x.token \in Tokens /\ x.token <= made /\ made \in 0..MaxTokens
  BY DEF Stored, Fits, TypeOK
<1>1. /\ Active(s) /\ made' = made + 1 /\ made' \in Tokens
      /\ sessions'[s].state = "active" /\ sessions'[s].code = sessions[s].code
      /\ sessions'[s].current = made + 1 /\ sessions'[s].previous = x.token
      /\ Holds(s, x.token)
      /\ answer = [session |-> s, token |-> made + 1]
  BY DEF Renewed
<1>2. \A t \in Sessions : t # s => sessions'[t] = sessions[t]
  BY DEF Renewed, Others
<1>3. answer \in Stored /\ answer.session = s /\ answer.token = made + 1
  BY <1>0, <1>1 DEF Stored
<1> HIDE DEF s
<1>8. \A t \in Sessions : /\ sessions[t].current \in 0..MaxTokens
                          /\ sessions[t].previous \in 0..MaxTokens
                          /\ sessions[t].current <= made /\ sessions[t].previous <= made
  BY <1>0, BoundsAssumption DEF TypeOK, Row, RowsInv, NoToken
<1>4. CodesInv'
  <2>1. \A t \in Sessions : sessions'[t].code = sessions[t].code
    BY <1>1, <1>2
  <2> QED BY <2>1 DEF CodesInv, PairedOnce
<1>5. \A t \in Sessions, token \in Tokens :
        Holds(t, token)' => Holds(t, token) \/ (t = s /\ token = made + 1)
  <2> SUFFICES ASSUME NEW t \in Sessions, NEW token \in Tokens, Holds(t, token)'
               PROVE  Holds(t, token) \/ (t = s /\ token = made + 1)
    OBVIOUS
  <2>1. CASE t = s
    BY <1>1, <2>1 DEF Holds
  <2>2. CASE t # s
    BY <1>2, <2>2 DEF Holds
  <2> QED BY <2>1, <2>2
<1>6. RowsInv'
  <2>2. \A t \in Sessions, token \in Tokens : Holds(t, token) => token <= made
    BY <1>8 DEF Holds
  <2>3. \A t, u \in Sessions, token \in Tokens : Holds(t, token)' /\ Holds(u, token)' => t = u
    BY <1>0, <1>5, <2>2 DEF RowsInv, Tokens
  <2>4. \A t \in Sessions : /\ sessions'[t].current <= made'
                            /\ \/ sessions'[t].previous < sessions'[t].current
                               \/ sessions'[t].previous = NoToken
    BY <1>0, <1>1, <1>2, <1>8 DEF RowsInv, Tokens
  <2> QED BY <2>3, <2>4 DEF RowsInv
<1>7. ASSUME NEW y \in Stored, Fits(y) PROVE Fits(y)'
  <2>1. y.session \in Sessions /\ y.token \in Tokens
    BY DEF Stored
  <2> QED BY <1>0, <1>1, <1>2, <1>5, <1>7, <2>1 DEF Fits, Tokens
<1>9. Fits(answer)'
  BY <1>0, <1>1, <1>2, <1>3, <1>8 DEF Fits, Holds
<1> QED BY <1>3, <1>4, <1>6, <1>7, <1>9 DEF s

\* RefreshSession: nobody else has the session, so only the token of this phone moves.
LEMMA RefreshSessionStep == ASSUME Inv, NEW p \in Phones, RefreshSession(p) PROVE Inv'
<1> USE DEF Inv
<1>1. PICK call \in Call :
        /\ call.state = "answered" /\ call.of = phone[p].refreshing.of
        /\ Refresh(phone[p].refreshing.of.token, FALSE, call.answer)
        /\ Writes(p, phone[p].stored, phone[p].pairing, call)
  BY RefreshSessionWrites
<1>2. UNCHANGED <<codes, push, wire, left>> /\ phone[p].refreshing.state = "sent"
  BY DEF RefreshSession
<1>3. /\ \A q \in Phones : q # p => phone'[q] = phone[q]
      /\ phone'[p].stored = phone[p].stored /\ phone'[p].pairing = phone[p].pairing
      /\ phone'[p].refreshing = call
  BY <1>1 DEF Writes
<1> DEFINE x == phone[p].stored
           s == x.session
<1>4. /\ phone[p].refreshing.of = x /\ x # NoStored /\ x \in Stored /\ s \in Sessions
      /\ x.token \in Tokens /\ Fits(x)
  BY <1>2, KeptTypes DEF CallsInv, KnownInv
<1>5. \/ NothingFound(x, call.answer) \/ Renewed(x, FALSE, call.answer)
      \/ ReuseFound(x, call.answer)
  BY <1>1, <1>4, RefreshCases
<1>6. sessions' \in [Sessions -> Row] /\ made' \in 0..MaxTokens /\ dropped' \subseteq Sessions
  BY <1>1, RefreshType
<1>7. \A q \in Phones : /\ phone'[q].stored = phone[q].stored /\ phone'[q].pairing = phone[q].pairing
                        /\ q # p => phone'[q].refreshing = phone[q].refreshing
  BY <1>3
<1>a. TypeOK'
  BY <1>1, <1>2, <1>6 DEF TypeOK, Writes
<1>8. dropped' = dropped
  BY <1>5 DEF NothingFound, Renewed, ReuseFound
<1>9. /\ CodesInv' /\ RowsInv' /\ \A y \in Stored : Fits(y) => Fits(y)'
      /\ call.answer # Refused => /\ call.answer \in Stored /\ Fits(call.answer)'
                                  /\ call.answer.session = s /\ call.answer.token = made + 1
                                  /\ sessions'[s].current = made + 1
                                  /\ sessions'[s].previous = x.token
      /\ call.answer = Refused => \A t \in Sessions : Fading(t)
      /\ call.answer = Refused => ~(sessions'[s].state = "active" /\ s \notin dropped)
      /\ \A t \in Sessions : t # s => sessions'[t] = sessions[t]
      /\ \A t \in Sessions : /\ sessions'[t].state = "active" => sessions[t].state = "active"
                             /\ sessions'[t].state = "none" <=> sessions[t].state = "none"
  <2>1. CASE NothingFound(x, call.answer)
    <3>1. UNCHANGED <<sessions, made, dropped>> /\ call.answer = Refused
          /\ ~(Active(s) /\ Holds(s, x.token))
      BY <2>1 DEF NothingFound
    <3>2. \A t \in Sessions : Fading(t)
      BY <3>1 DEF Fading
    <3>3. ~Good(s)
      <4>1. TokenUsable
        BY DEF UsableInv
      <4> QED BY <1>4, <3>1, <4>1 DEF TokenUsable, Good
    <3> QED BY <1>2, <3>1, <3>2, <3>3, ServerStill DEF Good, Active
  <2>2. CASE Renewed(x, FALSE, call.answer)
    <3>1. /\ CodesInv' /\ RowsInv' /\ \A y \in Stored : Fits(y) => Fits(y)'
          /\ call.answer \in Stored /\ Fits(call.answer)'
          /\ call.answer.session = s /\ call.answer.token = made + 1
      BY <1>2, <1>4, <2>2, RenewedRows
    <3>2. /\ sessions'[s].current = made + 1 /\ sessions'[s].previous = x.token
          /\ sessions'[s].state = "active" /\ sessions[s].state = "active"
          /\ \A t \in Sessions : t # s => sessions'[t] = sessions[t]
      BY <2>2 DEF Renewed, Others, Active
    <3> QED BY <3>1, <3>2, NoCallType
  <2>3. CASE ReuseFound(x, call.answer)
    <3>0. sessions[s] \in Row
      BY <1>4 DEF TypeOK
    <3>1. /\ sessions'[s].state = "ended" /\ sessions[s].state = "active"
          /\ sessions'[s].code = sessions[s].code
          /\ sessions'[s].current = sessions[s].current
          /\ sessions'[s].previous = sessions[s].previous
          /\ \A t \in Sessions : t # s => sessions'[t] = sessions[t]
          /\ made' = made /\ call.answer = Refused
      <4>1. sessions'[s] = [sessions[s] EXCEPT !.state = "ended"]
        BY <2>3 DEF ReuseFound
      <4>2. /\ sessions[s].state = "active" /\ made' = made /\ call.answer = Refused
            /\ \A t \in Sessions : t # s => sessions'[t] = sessions[t]
        BY <2>3 DEF ReuseFound, Others, Active
      <4> QED BY <3>0, <4>1, <4>2 DEF Row
    <3>2. \A t \in Sessions : Fading(t)
      BY <3>1 DEF Fading
    <3>3. CodesInv' /\ RowsInv' /\ \A y \in Stored : Fits(y) => Fits(y)'
      BY <1>2, <3>1, <3>2, FadingRows
    <3> QED BY <3>1, <3>2, <3>3 DEF Good, Active
  <2> QED BY <1>5, <2>1, <2>2, <2>3
<1> HIDE DEF x, s
<1>c. KnownInv'
  <2>1. \A y \in Stored : Fits(y) => /\ y.token <= made' /\ sessions'[y.session].state # "none"
                                     /\ \A t \in Sessions : Holds(t, y.token)' => t = y.session
    BY <1>9 DEF Fits
  <2>2. \A r \in wire' : Fits(r.of)'
    BY <1>2, <2>1, WireTypes DEF KnownInv, Fits
  <2>3. ASSUME NEW q \in Phones
        PROVE  /\ phone'[q].stored # NoStored => Fits(phone[q].stored)'
               /\ Paired(q)' => phone'[q].pairing.answer \in Stored /\ Fits(phone[q].pairing.answer)'
               /\ Refreshed(q)' => Fits(phone[q].refreshing.answer)'
    <3>1. /\ phone[q].stored # NoStored => phone[q].stored \in Stored /\ Fits(phone[q].stored)
          /\ Paired(q) => phone[q].pairing.answer \in Stored /\ Fits(phone[q].pairing.answer)
          /\ Refreshed(q) => phone[q].refreshing.answer \in Stored /\ Fits(phone[q].refreshing.answer)
      BY KeptTypes DEF KnownInv, Refreshed
    <3>2. Refreshed(q)' => Fits(phone[q].refreshing.answer)'
      <4>1. CASE q = p
        BY <1>3, <1>9, <4>1 DEF Refreshed, Fits
      <4>2. CASE q # p
        BY <1>7, <2>1, <3>1, <4>2 DEF Refreshed, Fits
      <4> QED BY <4>1, <4>2
    <3> QED BY <1>7, <2>1, <3>1, <3>2 DEF Paired, Fits
  <2> QED BY <2>2, <2>3 DEF KnownInv
<1>d. CallsInv'
  <2>1. x.token < made + 1
    BY <1>4 DEF Fits, TypeOK, Tokens
  <2> QED BY <1>1, <1>3, <1>4, <1>9, <2>1 DEF CallsInv, Refreshed, x, s
<1>e. OwnersInv'
  BY <1>2, <1>7 DEF OwnersInv, Paired
<1>f. WireInv'
  BY <1>2, <1>7 DEF WireInv
<1>g. UsableInv'
  <2>1. \A q \in Phones : q # p => phone[q].stored.session # s
    BY <1>4 DEF OwnersInv, x, s
  <2>2. TokenUsable'
    <3>1. ASSUME NEW q \in Phones, phone'[q].stored # NoStored,
                 Good(phone[q].stored.session)'
          PROVE  Holds(phone[q].stored.session, phone[q].stored.token)'
      <4>0. phone'[q].stored = phone[q].stored /\ phone[q].stored.session \in Sessions
        BY <1>7, <3>1, KeptTypes
      <4>1. CASE q = p
        <5>1. call.answer # Refused
          BY <1>8, <1>9, <3>1, <4>0, <4>1 DEF x, s, Good, Active
        <5> QED BY <1>9, <4>0, <4>1, <5>1 DEF Holds, x, s
      <4>2. CASE q # p
        <5>1. sessions'[phone[q].stored.session] = sessions[phone[q].stored.session]
          BY <1>9, <2>1, <4>0, <4>2
        <5> QED BY <1>8, <3>1, <4>0, <5>1 DEF UsableInv, TokenUsable, Good, Active, Holds
      <4> QED BY <4>1, <4>2
    <3> QED BY <3>1 DEF TokenUsable, Good, Active, Holds
  <2>3. ASSUME NEW q \in Phones, Paired(q)', Active(phone[q].pairing.answer.session)'
        PROVE  phone'[q].pairing.answer.token = sessions'[phone'[q].pairing.answer.session].current
    <3>1. phone'[q].pairing = phone[q].pairing /\ Paired(q)
      BY <1>7, <2>3 DEF Paired
    <3>2. phone[q].pairing.answer.session \in Sessions /\ phone[q].pairing.answer.session # s
      BY <3>1 DEF KnownInv, Stored, OwnersInv, x, s
    <3>3. sessions'[phone[q].pairing.answer.session] = sessions[phone[q].pairing.answer.session]
      BY <1>9, <3>2
    <3> QED BY <2>3, <3>1, <3>3 DEF UsableInv, Active
  <2>4. ASSUME NEW q \in Phones, phone'[q].refreshing.state = "answered", Good(phone[q].stored.session)'
        PROVE  /\ phone'[q].refreshing.answer # Refused
               /\ phone'[q].refreshing.answer.token = sessions'[phone'[q].stored.session].current
    <3>1. CASE q = p
      BY <1>3, <1>8, <1>9, <2>4, <3>1 DEF x, s, Good, Active
    <3>2. CASE q # p
      <4>1. phone'[q] = phone[q] /\ phone[q].stored # NoStored
        BY <1>3, <2>4, <3>2 DEF CallsInv
      <4>2. sessions'[phone[q].stored.session] = sessions[phone[q].stored.session]
        BY <1>9, <2>1, <3>2, <4>1, KeptTypes
      <4> QED BY <1>8, <2>4, <4>1, <4>2 DEF UsableInv, Good, Active, Refreshed
    <3> QED BY <3>1, <3>2
  <2>5. ASSUME NEW r \in wire', r.kind = "signout", Good(r.of.session)'
        PROVE  Holds(r.of.session, r.of.token)'
    <3>1. r \in wire /\ r.of.session # s /\ r.of.session \in Sessions
      BY <1>2, <2>5, WireTypes DEF WireInv, x, s
    <3>2. sessions'[r.of.session] = sessions[r.of.session]
      BY <1>9, <3>1
    <3> QED BY <1>8, <2>5, <3>1, <3>2 DEF UsableInv, Good, Active, Holds
  <2> QED BY <2>2, <2>3, <2>4, <2>5 DEF UsableInv, Refreshed
<1>h. LeftInv'
  BY <1>2, <1>8, <1>9 DEF LeftInv, SignOutEnds, Active
<1>i. PushInv'
  <2>1. \A t \in Sessions, q \in Phones : Excused(t, q) => Excused(t, q)'
    BY <1>2, <1>7, <1>8 DEF Excused
  <2> QED BY <1>2, <1>9, <2>1, PushKept
<1> QED BY <1>9, <1>a, <1>c, <1>d, <1>e, <1>f, <1>g, <1>h, <1>i

\* Requests that leave the wire while the phones are at rest: the parts that only speak of them.
LEMMA WireShrinks ==
  ASSUME Inv, wire' \subseteq wire, UNCHANGED phone, \A x \in Stored : Fits(x) => Fits(x)'
  PROVE  KnownInv' /\ CallsInv' /\ OwnersInv' /\ WireInv'
<1> USE DEF Inv
<1>1. \A y \in Stored : Fits(y) => /\ y.token <= made' /\ sessions'[y.session].state # "none"
                                   /\ \A t \in Sessions : Holds(t, y.token)' => t = y.session
  BY DEF Fits
<1>2. \A r \in wire' : Fits(r.of)'
  BY <1>1, WireTypes DEF KnownInv, Fits
<1>3. ASSUME NEW q \in Phones
      PROVE  /\ phone'[q].stored # NoStored => Fits(phone[q].stored)'
             /\ Paired(q)' => phone'[q].pairing.answer \in Stored /\ Fits(phone[q].pairing.answer)'
             /\ Refreshed(q)' => Fits(phone[q].refreshing.answer)'
  <2>1. /\ phone[q].stored # NoStored => phone[q].stored \in Stored /\ Fits(phone[q].stored)
        /\ Paired(q) => phone[q].pairing.answer \in Stored /\ Fits(phone[q].pairing.answer)
        /\ Refreshed(q) => phone[q].refreshing.answer \in Stored /\ Fits(phone[q].refreshing.answer)
    BY KeptTypes DEF KnownInv, Refreshed
  <2> QED BY <1>1, <2>1 DEF Paired, Refreshed, Fits
<1>4. KnownInv'
  BY <1>2, <1>3 DEF KnownInv
<1>5. CallsInv' /\ OwnersInv' /\ WireInv'
  BY DEF CallsInv, Refreshed, OwnersInv, Paired, WireInv
<1> QED BY <1>4, <1>5

\* The server's part of UsableInv survives the end of a session.
LEMMA UsableFades ==
  ASSUME Inv, wire' \subseteq wire, UNCHANGED <<phone, dropped>>, \A s \in Sessions : Fading(s)
  PROVE  UsableInv'
<1> USE DEF Inv
<1>1. \A s \in Sessions : sessions'[s].state = "active" => /\ sessions[s].state = "active"
                                                           /\ sessions'[s].current = sessions[s].current
                                                           /\ sessions'[s].previous = sessions[s].previous
  BY DEF Fading
<1>2. \A q \in Phones : /\ phone[q].stored # NoStored => phone[q].stored.session \in Sessions
                        /\ phone[q].refreshing.state = "answered" => phone[q].stored # NoStored
  BY KeptTypes DEF CallsInv
<1>3. \A q \in Phones : Paired(q) => phone[q].pairing.answer.session \in Sessions
  BY DEF KnownInv, Stored
<1>4. \A r \in wire : r.of.session \in Sessions
  BY WireTypes
<1> QED BY <1>1, <1>2, <1>3, <1>4 DEF UsableInv, TokenUsable, Good, Active, Holds, Paired, Refreshed

\* Lose: a lost sign-out is remembered.
LEMMA LoseStep == ASSUME Inv, NEW r \in wire, Lose(r) PROVE Inv'
<1> USE DEF Inv
<1>1. UNCHANGED <<codes, sessions, push, phone, made, dropped>> /\ wire' = wire \ {r}
  BY DEF Lose
<1>2. r.of.session \in Sessions
  BY WireTypes
<1>3. /\ left' \in [Sessions -> {"none", "served", "lost"}]
      /\ \A s \in Sessions : left'[s] = IF r.kind = "signout" /\ s = r.of.session THEN "lost" ELSE left[s]
  BY <1>2 DEF Lose, TypeOK
<1>a. TypeOK'
  BY <1>1, <1>3 DEF TypeOK
<1>b. CodesInv' /\ RowsInv' /\ \A x \in Stored : Fits(x) => Fits(x)'
  BY <1>1, ServerStill
<1>c. KnownInv' /\ CallsInv' /\ OwnersInv' /\ WireInv'
  BY <1>1, <1>b, WireShrinks
<1>g. UsableInv'
  <2>1. \A s \in Sessions : Fading(s)
    BY <1>1 DEF Fading
  <2> QED BY <1>1, <2>1, UsableFades
<1>h. LeftInv'
  <2>1. sessions[r.of.session].state # "none"
    BY DEF KnownInv, Fits
  <2> QED BY <1>1, <1>3, <2>1 DEF LeftInv, SignOutEnds, Active
<1>i. PushInv'
  <2>1. \A s \in Sessions, q \in Phones : Excused(s, q) => Excused(s, q)'
    BY <1>1, <1>3 DEF Excused
  <2> QED BY <1>1, <2>1, PushKept
<1> QED BY <1>a, <1>b, <1>c, <1>g, <1>h, <1>i

\* ServeRegister: the registration was excused while it was on the wire.
LEMMA ServeRegisterStep == ASSUME Inv, NEW r \in wire, Serve(r), ServeRegister(r) PROVE Inv'
<1> USE DEF Inv
<1>1. UNCHANGED <<codes, sessions, phone, made, dropped, left>> /\ wire' = wire \ {r}
      /\ r.kind = "register"
  BY DEF Serve, ServeRegister
<1>2. r.of.session \in Sessions /\ r.from \in Phones
  BY WireTypes
<1>3. /\ push' \in [Sessions -> Phones \cup {NoPhone}]
      /\ \A s \in Sessions : \/ push'[s] = push[s]
                             \/ push'[s] = NoPhone
                             \/ s = r.of.session /\ push'[s] = r.from
  BY <1>2 DEF ServeRegister, SetPushToken, TypeOK
<1>a. TypeOK'
  BY <1>1, <1>3 DEF TypeOK
<1>b. CodesInv' /\ RowsInv' /\ \A x \in Stored : Fits(x) => Fits(x)'
  BY <1>1, ServerStill
<1>c. KnownInv' /\ CallsInv' /\ OwnersInv' /\ WireInv'
  BY <1>1, <1>b, WireShrinks
<1>g. UsableInv'
  <2>1. \A s \in Sessions : Fading(s)
    BY <1>1 DEF Fading
  <2> QED BY <1>1, <2>1, UsableFades
<1>h. LeftInv'
  BY <1>1 DEF LeftInv, SignOutEnds, Active
<1>i. PushInv'
  <2>1. \A s \in Sessions, q \in Phones : Excused(s, q) => Excused(s, q)'
    BY <1>1 DEF Excused
  <2>2. ASSUME NEW s \in Sessions, NEW q \in Phones, push'[s] = q, Active(s)'
        PROVE  Excused(s, q)'
    <3>1. CASE push[s] = q
      BY <1>1, <2>1, <2>2, <3>1 DEF PushInv, PushFollowsSession, Excused, Active
    <3>2. CASE s = r.of.session /\ q = r.from
      BY <1>1, <2>1, <2>2, <3>2 DEF PushInv, Active
    <3> QED BY <1>3, <2>2, <3>1, <3>2, NamesAssumption
  <2>3. PushFollowsSession'
    BY <2>2 DEF PushFollowsSession, Excused
  <2>4. ASSUME NEW u \in wire', u.kind = "register", Active(u.of.session)'
        PROVE  Excused(u.of.session, u.from)'
    BY <1>1, <2>1, <2>4, WireTypes DEF PushInv, Active
  <2>5. \A s \in Sessions : sessions'[s].state = "none" => push'[s] = NoPhone
    <3>1. sessions[r.of.session].state # "none"
      BY DEF KnownInv, Fits
    <3> QED BY <1>1, <1>3, <3>1 DEF PushInv
  <2> QED BY <2>3, <2>4, <2>5 DEF PushInv, Active
<1> QED BY <1>a, <1>b, <1>c, <1>g, <1>h, <1>i

\* ServeSignOut: the server knows the token of a sign-out, so the session ends.
LEMMA ServeSignOutStep == ASSUME Inv, NEW r \in wire, Serve(r), ServeSignOut(r) PROVE Inv'
<1> USE DEF Inv
<1>1. UNCHANGED <<codes, push, phone, made, dropped>> /\ wire' = wire \ {r}
      /\ r.kind = "signout"
  BY DEF Serve, ServeSignOut
<1> DEFINE s == r.of.session
<1>2. s \in Sessions /\ r.of \in Stored /\ r.of.token \in Tokens
  BY WireTypes
<1>3. /\ left' \in [Sessions -> {"none", "served", "lost"}]
      /\ \A t \in Sessions : left'[t] = IF t = s THEN "served" ELSE left[t]
  BY <1>2 DEF ServeSignOut, TypeOK
<1>4. Fits(r.of)
  BY DEF KnownInv
<1>5. /\ sessions' \in [Sessions -> Row]
      /\ \A t \in Sessions : Fading(t)
      /\ ~(Good(s) /\ sessions'[s].state = "active")
  <2>1. CASE Leaving(r.of.token) = {}
    <3>1. sessions' = sessions
      BY <2>1 DEF ServeSignOut
    <3>2. ~(Unrevoked(s) /\ Holds(s, r.of.token))
      BY <1>2, <2>1 DEF Leaving
    <3>3. ~Good(s)
      BY <1>1, <3>2 DEF UsableInv, Good, Active, Unrevoked
    <3> QED BY <3>1, <3>3 DEF Fading, TypeOK
  <2>2. CASE Leaving(r.of.token) # {}
    <3>1. Leaving(r.of.token) = {s} /\ Unrevoked(s)
      BY <1>2, <1>4, <2>2 DEF Leaving, Fits
    <3>2. sessions' = [sessions EXCEPT ![s].state = "ended"]
      BY <2>2, <3>1 DEF ServeSignOut, End
    <3> DEFINE row == [sessions[s] EXCEPT !.state = "ended"]
    <3>3. sessions[s] \in Row /\ sessions[s].state # "none"
      BY <1>2, <3>1 DEF TypeOK, Unrevoked
    <3>4. /\ row \in Row /\ row.state = "ended" /\ row.code = sessions[s].code
          /\ row.current = sessions[s].current /\ row.previous = sessions[s].previous
      BY <3>3 DEF Row
    <3>5. /\ sessions' \in [Sessions -> Row] /\ sessions'[s] = row
          /\ \A t \in Sessions : t # s => sessions'[t] = sessions[t]
      BY <1>2, <3>2, <3>4 DEF TypeOK
    <3> QED BY <3>3, <3>4, <3>5 DEF Fading
  <2> QED BY <2>1, <2>2
<1> HIDE DEF s
<1>a. TypeOK'
  BY <1>1, <1>3, <1>5 DEF TypeOK
<1>b. CodesInv' /\ RowsInv' /\ \A x \in Stored : Fits(x) => Fits(x)'
  BY <1>1, <1>5, FadingRows
<1>c. KnownInv' /\ CallsInv' /\ OwnersInv' /\ WireInv'
  BY <1>1, <1>b, WireShrinks
<1>g. UsableInv'
  BY <1>1, <1>5, UsableFades
<1>6. \A t \in Sessions : /\ sessions'[t].state = "active" => sessions[t].state = "active"
                          /\ sessions'[t].state = "none" <=> sessions[t].state = "none"
  BY <1>5 DEF Fading
<1>7. sessions[s].state # "none"
  BY <1>4 DEF Fits, s
<1>h. LeftInv'
  BY <1>1, <1>3, <1>5, <1>6, <1>7 DEF LeftInv, SignOutEnds, Active, Good
<1>i. PushInv'
  <2>1. \A t \in Sessions, q \in Phones :
          sessions'[t].state = "active" /\ Excused(t, q) => Excused(t, q)'
    <3>1. ASSUME NEW t \in Sessions, NEW q \in Phones, sessions'[t].state = "active", Excused(t, q)
          PROVE  Excused(t, q)'
      <4>1. CASE t = s
        BY <1>1, <1>5, <1>6, <3>1, <4>1 DEF Excused, Good, Active
      <4>2. CASE t # s
        BY <1>1, <1>3, <3>1, <4>2 DEF Excused, s
      <4> QED BY <4>1, <4>2
    <3> QED BY <3>1
  <2> QED BY <1>1, <1>6, <2>1, PushKept
<1> QED BY <1>a, <1>b, <1>c, <1>g, <1>h, <1>i

\* A refresh that nobody waits for: when it rotates, its token was the current one, so the phone,
\* its answer and its sign-out cannot be behind; when it retries, the session is marked.
LEMMA ServeRefreshStep == ASSUME Inv, NEW r \in wire, Serve(r), ServeRefresh(r) PROVE Inv'
<1> USE DEF Inv
<1>1. UNCHANGED <<codes, push, phone, left>> /\ wire' = wire \ {r} /\ r.kind = "refresh"
  BY DEF Serve, ServeRefresh
<1> DEFINE x == r.of
           s == x.session
<1>2. s \in Sessions /\ x \in Stored /\ x.token \in Tokens /\ Fits(x)
  BY WireTypes DEF KnownInv
<1>3. PICK answer \in Stored \cup {Refused} : Refresh(x.token, TRUE, answer)
  BY DEF ServeRefresh
<1>4. sessions' \in [Sessions -> Row] /\ made' \in 0..MaxTokens /\ dropped' \subseteq Sessions
  BY <1>3, RefreshType
<1>a. TypeOK'
  BY <1>1, <1>4 DEF TypeOK
<1>5. NothingFound(x, answer) \/ Renewed(x, TRUE, answer) \/ ReuseFound(x, answer)
  BY <1>2, <1>3, RefreshCases
<1>6. CASE (NothingFound(x, answer) \/ ReuseFound(x, answer))
  <2>0. sessions[s] \in Row
    BY <1>2 DEF TypeOK
  <2>1. UNCHANGED <<made, dropped>> /\ \A t \in Sessions : Fading(t)
    <3>1. CASE NothingFound(x, answer)
      BY <3>1 DEF NothingFound, Fading
    <3>2. CASE ReuseFound(x, answer)
      <4>1. sessions'[s] = [sessions[s] EXCEPT !.state = "ended"] /\ sessions[s].state = "active"
            /\ UNCHANGED <<made, dropped>>
        BY <3>2 DEF ReuseFound, Active
      <4>2. /\ sessions'[s].state = "ended" /\ sessions'[s].code = sessions[s].code
            /\ sessions'[s].current = sessions[s].current
            /\ sessions'[s].previous = sessions[s].previous
        BY <2>0, <4>1 DEF Row
      <4>3. \A t \in Sessions : t # s => sessions'[t] = sessions[t]
        BY <3>2 DEF ReuseFound, Others
      <4> QED BY <4>1, <4>2, <4>3 DEF Fading
    <3> QED BY <1>6, <3>1, <3>2
  <2>b. CodesInv' /\ RowsInv' /\ \A y \in Stored : Fits(y) => Fits(y)'
    BY <1>1, <2>1, FadingRows
  <2>c. KnownInv' /\ CallsInv' /\ OwnersInv' /\ WireInv'
    BY <1>1, <2>b, WireShrinks
  <2>g. UsableInv'
    BY <1>1, <2>1, UsableFades
  <2>2. \A t \in Sessions : /\ sessions'[t].state = "active" => sessions[t].state = "active"
                            /\ sessions'[t].state = "none" <=> sessions[t].state = "none"
    BY <2>1 DEF Fading
  <2>h. LeftInv'
    BY <1>1, <2>1, <2>2 DEF LeftInv, SignOutEnds, Active
  <2>i. PushInv'
    <3>1. \A t \in Sessions, q \in Phones : Excused(t, q) => Excused(t, q)'
      BY <1>1, <2>1 DEF Excused
    <3> QED BY <1>1, <2>2, <3>1, PushKept
  <2> QED BY <1>a, <2>b, <2>c, <2>g, <2>h, <2>i
<1>7. CASE Renewed(x, TRUE, answer)
  <2>1. /\ sessions[s].state = "active" /\ sessions'[s].state = "active"
        /\ sessions'[s].current = made + 1 /\ sessions'[s].previous = x.token
        /\ \A t \in Sessions : t # s => sessions'[t] = sessions[t]
        /\ dropped' = IF sessions[s].current # x.token THEN dropped \cup {s} ELSE dropped
    BY <1>7 DEF Renewed, Others, Active
  <2>b. CodesInv' /\ RowsInv' /\ \A y \in Stored : Fits(y) => Fits(y)'
    BY <1>1, <1>2, <1>7, RenewedRows
  <2>c. KnownInv' /\ CallsInv' /\ OwnersInv' /\ WireInv'
    BY <1>1, <2>b, WireShrinks
  <2>2. /\ dropped \subseteq dropped'
        /\ s \notin dropped' => Good(s) /\ sessions[s].current = x.token
    BY <2>1 DEF Good, Active
  <2>3. /\ sessions[s].current \in 0..MaxTokens /\ sessions[s].previous \in 0..MaxTokens
        /\ sessions[s].previous < sessions[s].current \/ sessions[s].previous = NoToken
    BY <1>2 DEF TypeOK, Row, RowsInv
  \* A token of the session that is not older than the current one is the current one.
  <2>4. ASSUME NEW token \in Tokens, Holds(s, token), x.token <= token, s \notin dropped'
        PROVE  token = x.token
    BY <1>2, <2>2, <2>3, <2>4, BoundsAssumption DEF Holds, Tokens, NoToken
  <2>g. UsableInv'
    <3>1. ASSUME NEW q \in Phones, phone[q].stored # NoStored, Good(phone[q].stored.session)'
          PROVE  Holds(phone[q].stored.session, phone[q].stored.token)'
      <4>0. phone'[q].stored = phone[q].stored /\ phone[q].stored.session \in Sessions
            /\ phone[q].stored.token \in Tokens
        BY <1>1, <3>1, KeptTypes
      <4>1. CASE phone[q].stored.session = s
        <5>1. s \notin dropped' /\ Good(s)
          BY <1>1, <2>2, <3>1, <4>1 DEF Good
        <5>2. Holds(s, phone[q].stored.token)
          BY <3>1, <4>1, <5>1 DEF UsableInv, TokenUsable, Good
        <5>3. x.token <= phone[q].stored.token
          BY <1>2, <4>1 DEF WireInv
        <5>4. phone[q].stored.token = x.token
          BY <2>4, <4>0, <5>1, <5>2, <5>3
        <5> QED BY <1>1, <2>1, <4>1, <5>4 DEF Holds
      <4>2. CASE phone[q].stored.session # s
        <5>1. sessions'[phone[q].stored.session] = sessions[phone[q].stored.session]
          BY <2>1, <4>0, <4>2
        <5> QED BY <1>1, <2>2, <3>1, <5>1 DEF UsableInv, TokenUsable, Good, Active, Holds
      <4> QED BY <4>1, <4>2
    <3>2. TokenUsable'
      BY <1>1, <3>1 DEF TokenUsable, Good, Active, Holds
    <3>3. ASSUME NEW q \in Phones, Paired(q), Active(phone[q].pairing.answer.session)'
          PROVE  phone[q].pairing.answer.token = sessions'[phone[q].pairing.answer.session].current
      <4>1. phone[q].pairing.answer.session \in Sessions /\ phone[q].pairing.answer.session # s
        BY <3>3 DEF KnownInv, Stored, OwnersInv
      <4>2. sessions'[phone[q].pairing.answer.session] = sessions[phone[q].pairing.answer.session]
        BY <2>1, <4>1
      <4> QED BY <1>1, <3>3, <4>2 DEF UsableInv, Active
    <3>4. ASSUME NEW q \in Phones, phone[q].refreshing.state = "answered",
                 Good(phone[q].stored.session)'
          PROVE  /\ phone[q].refreshing.answer # Refused
                 /\ phone[q].refreshing.answer.token = sessions'[phone[q].stored.session].current
      <4>0. phone[q].stored # NoStored /\ phone[q].stored.session \in Sessions
            /\ phone[q].stored.token \in Tokens
        BY <3>4, KeptTypes DEF CallsInv
      <4>1. CASE phone[q].stored.session = s
        <5>1. s \notin dropped' /\ Good(s)
          BY <1>1, <2>2, <3>4, <4>1 DEF Good
        <5>2. Refreshed(q) /\ phone[q].refreshing.answer.token = sessions[s].current
          BY <3>4, <4>1, <5>1 DEF UsableInv, Refreshed
        <5>3. phone[q].refreshing.answer.token > phone[q].stored.token
          BY <5>2 DEF CallsInv
        <5>4. x.token <= phone[q].stored.token /\ sessions[s].current = x.token
          BY <1>2, <2>2, <4>1, <5>1 DEF WireInv
        <5> QED BY <1>2, <4>0, <5>2, <5>3, <5>4 DEF Tokens
      <4>2. CASE phone[q].stored.session # s
        <5>1. sessions'[phone[q].stored.session] = sessions[phone[q].stored.session]
          BY <2>1, <4>0, <4>2
        <5> QED BY <1>1, <2>2, <3>4, <5>1 DEF UsableInv, Good, Active, Refreshed
      <4> QED BY <4>1, <4>2
    <3>5. ASSUME NEW u \in wire', u.kind = "signout", Good(u.of.session)'
          PROVE  Holds(u.of.session, u.of.token)'
      <4>0. u \in wire /\ u.of.session \in Sessions /\ u.of.token \in Tokens
        BY <1>1, WireTypes
      <4>1. CASE u.of.session = s
        <5>1. s \notin dropped' /\ Good(s)
          BY <2>2, <3>5, <4>1 DEF Good
        <5>2. Holds(s, u.of.token)
          BY <3>5, <4>0, <4>1, <5>1 DEF UsableInv
        <5>3. x.token <= u.of.token
          BY <3>5, <4>0, <4>1 DEF WireInv
        <5>4. u.of.token = x.token
          BY <2>4, <4>0, <5>1, <5>2, <5>3
        <5> QED BY <2>1, <4>1, <5>4 DEF Holds
      <4>2. CASE u.of.session # s
        <5>1. sessions'[u.of.session] = sessions[u.of.session]
          BY <2>1, <4>0, <4>2
        <5> QED BY <2>2, <3>5, <4>0, <5>1 DEF UsableInv, Good, Active, Holds
      <4> QED BY <4>1, <4>2
    <3> QED BY <1>1, <3>2, <3>3, <3>4, <3>5 DEF UsableInv, Refreshed, Paired, Active, Good
  <2>5. \A t \in Sessions : /\ sessions'[t].state = "active" => sessions[t].state = "active"
                            /\ sessions'[t].state = "none" <=> sessions[t].state = "none"
    BY <2>1
  <2>h. LeftInv'
    BY <1>1, <2>2, <2>5 DEF LeftInv, SignOutEnds, Active
  <2>i. PushInv'
    <3>1. \A t \in Sessions, q \in Phones : Excused(t, q) => Excused(t, q)'
      BY <1>1, <2>2 DEF Excused
    <3> QED BY <1>1, <2>5, <3>1, PushKept
  <2> QED BY <1>a, <2>b, <2>c, <2>g, <2>h, <2>i
<1> QED BY <1>5, <1>6, <1>7

-----------------------------------------------------------------------------
(* The invariant and what follows from it.                                   *)

\* Nothing is paired at the start.
LEMMA InitInv == Init => Inv
<1> SUFFICES ASSUME Init PROVE Inv
  OBVIOUS
<1>1. NoRow \in Row /\ NoRow.code = NoCode /\ NoRow.current = 0 /\ NoRow.previous = 0
      /\ NoRow.state = "none"
  BY BoundsAssumption DEF NoRow, Row, NoToken
<1> DEFINE new == [stored |-> NoStored, pairing |-> NoCall, refreshing |-> NoCall]
<1>2. new \in Kept /\ new.stored = NoStored /\ new.pairing.state = "idle"
      /\ new.refreshing.state = "idle"
  BY NoCallType DEF Kept, NoCall
<1>3. /\ \A s \in Sessions : sessions[s] = NoRow /\ push[s] = NoPhone /\ left[s] = "none"
      /\ \A p \in Phones : phone[p] = new
      /\ wire = {} /\ made = 0 /\ dropped = {}
  BY DEF Init
<1>4. TypeOK
  BY <1>1, <1>2, BoundsAssumption DEF Init, TypeOK
<1> HIDE DEF new
<1>5. CodesInv
  BY <1>1, <1>3 DEF CodesInv, PairedOnce
<1>6. RowsInv
  BY <1>1, <1>3, BoundsAssumption DEF RowsInv, Holds, Tokens, NoToken
<1>7. KnownInv /\ CallsInv /\ OwnersInv /\ WireInv
  BY <1>2, <1>3 DEF KnownInv, CallsInv, OwnersInv, WireInv, Paired, Refreshed
<1>8. UsableInv
  BY <1>2, <1>3 DEF UsableInv, TokenUsable, Paired, Refreshed
<1>9. LeftInv
  BY <1>1, <1>3 DEF LeftInv, SignOutEnds
<1>10. PushInv
  BY <1>1, <1>3 DEF PushInv, PushFollowsSession, Active
<1> QED BY <1>4, <1>5, <1>6, <1>7, <1>8, <1>9, <1>10 DEF Inv

\* Every step of the system keeps the invariant.
LEMMA NextInv == Inv /\ [Next]_vars => Inv'
<1> SUFFICES ASSUME Inv, [Next]_vars PROVE Inv'
  OBVIOUS
<1>1. ASSUME NEW r \in wire, Serve(r) PROVE Inv'
  BY <1>1, ServeRefreshStep, ServeSignOutStep, ServeRegisterStep DEF Serve
<1> QED BY <1>1, LoseStep, RedeemStep, PairAnsweredStep, PairFailsStep, RefreshStartStep,
           RefreshSessionStep, RefreshAnsweredStep, RefreshFailsStep, ForgetStep,
           RegisterPushTokenStep, NoSessionStep, EndingStep DEF Next

\* The phones and the app API never leave the invariant: who has which session, and which of its
\* tokens the server, the phone and the requests on the wire know.
THEOREM InvHolds == Spec => []Inv
  BY InitInv, NextInv, PTL DEF Spec

\* RedeemPairingCode: for any number of phones that redeem a code, lose the answer and try again,
\* one session comes out of it.
THEOREM PairedOnceAlways == Spec => []PairedOnce
<1>1. Inv => PairedOnce
  BY DEF Inv, CodesInv
<1> QED BY <1>1, InvHolds, PTL

\* Refresh: whatever is lost, repeated or late, the phone of an active session holds one of the two
\* tokens that the server accepts, unless a refresh it had given up replaced its token.
THEOREM TokenUsableAlways == Spec => []TokenUsable
<1>1. Inv => TokenUsable
  BY DEF Inv, UsableInv
<1> QED BY <1>1, InvHolds, PTL

\* SignOut: a sign-out that is served has ended the session, also one that crossed a refresh.
THEOREM SignOutEndsAlways == Spec => []SignOutEnds
<1>1. Inv => SignOutEnds
  BY DEF Inv, LeftInv
<1> QED BY <1>1, InvHolds, PTL

\* SetPushToken: an active session notifies the phone that has it, or one whose sign-out is on its
\* way or lost.
THEOREM PushFollowsSessionAlways == Spec => []PushFollowsSession
<1>1. Inv => PushFollowsSession
  BY DEF Inv, PushInv
<1> QED BY <1>1, InvHolds, PTL
=============================================================================
