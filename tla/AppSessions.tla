---------------------------- MODULE AppSessions ----------------------------
(***************************************************************************)
(* Pairing, sessions and push tokens: the app API's store and handlers      *)
(* (store.go, service.go, admin.go, interceptors.go) and the session that   *)
(* each phone keeps (SessionStore.swift).                                   *)
(*                                                                          *)
(* A phone waits for at most one pairing and one refresh at a time.  When   *)
(* it stops waiting (no network, a timeout, a sign-out, a new pairing) its  *)
(* request may still reach the server: it is left on the wire, where it is  *)
(* served or lost at any later moment.  A refresh token is a number, never  *)
(* given out twice.  Time is a choice: a grace period, a code or a session  *)
(* may end at any moment.  A device token is the phone it belongs to.       *)
(***************************************************************************)
EXTENDS Naturals, FiniteSets

CONSTANTS
  Phones, Codes, Sessions,
  NoPhone, NoCode, NoSession,
  MaxTokens,   \* bound: refresh tokens that are made
  MaxWire      \* bound: requests that nobody waits for

ASSUME NamesAssumption ==
  NoPhone \notin Phones /\ NoCode \notin Codes /\ NoSession \notin Sessions
ASSUME BoundsAssumption == MaxTokens \in Nat /\ MaxWire \in Nat

VARIABLES
  codes,     \* code -> its row of pairing_codes
  sessions,  \* session -> its row of sessions
  push,      \* session -> the phone in its row of push_tokens
  phone,     \* phone -> what SessionStore keeps, and its requests
  wire,      \* requests that nobody waits for any more
  made,      \* refresh tokens made so far
  dropped,   \* history: sessions in which a refresh that nobody waited for
             \* replaced the token of a rotation
  left       \* history: session -> what became of its phone's sign-out

vars == <<codes, sessions, push, phone, wire, made, dropped, left>>

Tokens  == 1..MaxTokens
NoToken == 0

\* state: "none", "active", "ended", "expired" or "purged"; grace: a retry with the
\* previous token is still good.
NoRow == [state |-> "none", code |-> NoCode, current |-> NoToken, previous |-> NoToken,
          grace |-> FALSE]

\* A session and its refresh token: what the phone stores, what a request
\* carries and what an answer gives.
Stored   == [session : Sessions, token : Tokens]
NoStored == [session |-> NoSession, token |-> NoToken]
Refused  == [session |-> NoSession, token |-> NoToken]

\* The request a phone waits for: "idle", "sent" or "answered".
NoCall == [state |-> "idle", of |-> NoStored, answer |-> Refused]

Init ==
  /\ codes = [c \in Codes |-> "none"]
  /\ sessions = [s \in Sessions |-> NoRow]
  /\ push = [s \in Sessions |-> NoPhone]
  /\ phone = [p \in Phones |-> [stored |-> NoStored, pairing |-> NoCall, refreshing |-> NoCall]]
  /\ wire = {}
  /\ made = 0
  /\ dropped = {}
  /\ left = [s \in Sessions |-> "none"]

\* revoked_at is null, and the refresh token has not expired.
Unrevoked(s) == sessions[s].state \in {"active", "expired"}
Active(s)    == sessions[s].state = "active"

-----------------------------------------------------------------------------
(* Pairing.                                                                  *)

CreatePairingCode(c) ==
  /\ codes[c] = "none"
  /\ codes' = [codes EXCEPT ![c] = "issued"]
  /\ UNCHANGED <<sessions, push, phone, wire, made, dropped, left>>

CodeExpires(c) ==
  /\ codes[c] = "issued"
  /\ codes' = [codes EXCEPT ![c] = "expired"]
  /\ UNCHANGED <<sessions, push, phone, wire, made, dropped, left>>

\* Mutant: a code that was redeemed is found again.
RedeemableTwice(c) == codes[c] \in {"issued", "redeemed"}

\* Codes that the UPDATE of RedeemPairingCode finds.
Redeemable(c) == codes[c] = "issued"

\* One transaction uses up the code and creates the session.  Any other code
\* is refused, which changes nothing.
RedeemPairingCode(p, c) ==
  /\ phone[p].pairing.state = "idle"
  /\ Redeemable(c)
  /\ codes' = [codes EXCEPT ![c] = "redeemed"]
  /\ made < MaxTokens
  /\ made' = made + 1
  /\ \E s \in Sessions :
       /\ sessions[s].state = "none"
       /\ sessions' = [sessions EXCEPT ![s] = [NoRow EXCEPT !.state = "active", !.code = c,
                                                             !.current = made']]
       /\ phone' = [phone EXCEPT ![p].pairing = [NoCall EXCEPT
                      !.state = "answered", !.answer = [session |-> s, token |-> made']]]
  /\ UNCHANGED <<push, wire, dropped, left>>

\* A refresh that the phone no longer waits for, if it is not served yet.
Abandoned(p) ==
  LET r == phone[p].refreshing IN
    IF r.state = "sent" THEN {[kind |-> "refresh", of |-> r.of, from |-> p]} ELSE {}

\* A request to end the session that the phone keeps.
SigningOut(p) ==
  IF phone[p].stored = NoStored THEN {}
  ELSE {[kind |-> "signout", of |-> phone[p].stored, from |-> p]}

Put(requests) ==
  /\ wire' = wire \cup requests
  /\ Cardinality(wire') <= MaxWire

\* Mutant: pairing again does not end the old session.
PairAnsweredQuiet(p) ==
  /\ phone[p].pairing.state = "answered"
  /\ phone' = [phone EXCEPT ![p] = [stored |-> phone[p].pairing.answer, pairing |-> NoCall,
                                    refreshing |-> NoCall]]
  /\ Put(Abandoned(p))
  /\ UNCHANGED <<codes, sessions, push, made, dropped, left>>

\* SessionStore.pair: the new session replaces the old one, which is ended
\* quietly.
PairAnswered(p) ==
  /\ phone[p].pairing.state = "answered"
  /\ phone' = [phone EXCEPT ![p] = [stored |-> phone[p].pairing.answer, pairing |-> NoCall,
                                    refreshing |-> NoCall]]
  /\ Put(SigningOut(p) \cup Abandoned(p))
  /\ UNCHANGED <<codes, sessions, push, made, dropped, left>>

\* The answer never arrives: the phone is as before and the code is used up.
PairFails(p) ==
  /\ phone[p].pairing.state = "answered"
  /\ phone' = [phone EXCEPT ![p].pairing = NoCall]
  /\ UNCHANGED <<codes, sessions, push, wire, made, dropped, left>>

-----------------------------------------------------------------------------
(* Refreshing.                                                               *)

\* The rows that the SELECT of Refresh finds.
Holds(s, token) == token \in {sessions[s].current, sessions[s].previous}
Found(token)    == {s \in Sessions : Active(s) /\ Holds(s, token)}

Rotated(row, next) == [row EXCEPT !.previous = row.current, !.current = next, !.grace = TRUE]
\* Mutant: a retry rotates like a refresh, so the token that the phone still
\* holds is forgotten.
RetriedRotates(row, next) == [row EXCEPT !.previous = row.current, !.current = next]

Retried(row, next) == [row EXCEPT !.current = next]
Reused(row)        == [row EXCEPT !.state = "ended"]

\* One transaction of Refresh; answer is what the caller would get, and late
\* whether nobody waits for it.
Refresh(token, late, answer) ==
  IF Found(token) = {}
  THEN answer = Refused /\ UNCHANGED <<sessions, made, dropped>>
  ELSE \E s \in Found(token) :
         LET row     == sessions[s]
             current == row.current = token
         IN IF current \/ row.grace
            THEN /\ made < MaxTokens
                 /\ made' = made + 1
                 /\ sessions' = [sessions EXCEPT ![s] = IF current THEN Rotated(row, made')
                                                                  ELSE Retried(row, made')]
                 /\ answer = [session |-> s, token |-> made']
                 /\ dropped' = IF late /\ ~current THEN dropped \cup {s} ELSE dropped
            ELSE /\ sessions' = [sessions EXCEPT ![s] = Reused(row)]
                 /\ answer = Refused
                 /\ UNCHANGED <<made, dropped>>

\* validTokens: one refresh at a time.
RefreshStart(p) ==
  /\ phone[p].stored # NoStored
  /\ phone[p].refreshing.state = "idle"
  /\ phone' = [phone EXCEPT ![p].refreshing = [NoCall EXCEPT !.state = "sent",
                                                             !.of = phone[p].stored]]
  /\ UNCHANGED <<codes, sessions, push, wire, made, dropped, left>>

RefreshSession(p) ==
  /\ phone[p].refreshing.state = "sent"
  /\ \E answer \in Stored \cup {Refused} :
       /\ Refresh(phone[p].refreshing.of.token, FALSE, answer)
       /\ phone' = [phone EXCEPT ![p].refreshing = [@ EXCEPT !.state = "answered",
                                                             !.answer = answer]]
  /\ UNCHANGED <<codes, push, wire, left>>

\* The new token is stored before it is used; when the session has ended the
\* phone forgets it.
RefreshAnswered(p) ==
  /\ phone[p].refreshing.state = "answered"
  /\ phone' = [phone EXCEPT ![p] = [@ EXCEPT !.stored = IF phone[p].refreshing.answer = Refused
                                                         THEN NoStored
                                                         ELSE phone[p].refreshing.answer,
                                             !.refreshing = NoCall]]
  /\ UNCHANGED <<codes, sessions, push, wire, made, dropped, left>>

\* The request fails on the phone; the server may have served it, or may
\* serve it later.
RefreshFails(p) ==
  /\ phone[p].refreshing.state # "idle"
  /\ phone' = [phone EXCEPT ![p].refreshing = NoCall]
  /\ Put(Abandoned(p))
  /\ UNCHANGED <<codes, sessions, push, made, dropped, left>>

-----------------------------------------------------------------------------
(* Signing out, revoking, expiry.                                            *)

End(s) == sessions' = [sessions EXCEPT ![s].state = "ended"]

\* SessionStore.signOut: the phone forgets the session, then asks the server
\* to end it.
SignOut(p) ==
  /\ phone[p].stored # NoStored
  /\ Put(SigningOut(p) \cup Abandoned(p))
  /\ phone' = [phone EXCEPT ![p] = [@ EXCEPT !.stored = NoStored, !.refreshing = NoCall]]
  /\ UNCHANGED <<codes, sessions, push, made, dropped, left>>

RevokeSession(s) ==
  /\ Unrevoked(s)
  /\ End(s)
  /\ UNCHANGED <<codes, push, phone, wire, made, dropped, left>>

SessionExpires(s) ==
  /\ Active(s)
  /\ sessions' = [sessions EXCEPT ![s].state = "expired"]
  /\ UNCHANGED <<codes, push, phone, wire, made, dropped, left>>

GraceEnds(s) ==
  /\ Active(s)
  /\ sessions[s].grace
  /\ sessions' = [sessions EXCEPT ![s].grace = FALSE]
  /\ UNCHANGED <<codes, push, phone, wire, made, dropped, left>>

\* Purge: the rows of a session that ended long ago, and its push token.
Purge(s) ==
  /\ sessions[s].state \in {"ended", "expired"}
  /\ sessions' = [sessions EXCEPT ![s] = [NoRow EXCEPT !.state = "purged", !.code = sessions[s].code]]
  /\ push' = [push EXCEPT ![s] = NoPhone]
  /\ UNCHANGED <<codes, phone, wire, made, dropped, left>>

-----------------------------------------------------------------------------
(* Push tokens.                                                              *)

\* The interceptor finds the session active; the handler runs later.
RegisterPushToken(p) ==
  /\ phone[p].stored # NoStored
  /\ Active(phone[p].stored.session)
  /\ Put({[kind |-> "register", of |-> phone[p].stored, from |-> p]})
  /\ UNCHANGED <<codes, sessions, push, phone, made, dropped, left>>

\* The interceptor finds the session ended: the phone forgets it.
CallRefused(p) ==
  /\ phone[p].stored # NoStored
  /\ ~Active(phone[p].stored.session)
  /\ Put(Abandoned(p))
  /\ phone' = [phone EXCEPT ![p] = [@ EXCEPT !.stored = NoStored, !.refreshing = NoCall]]
  /\ UNCHANGED <<codes, sessions, push, made, dropped, left>>

\* The token leaves any other session.
SetPushToken(s, p) ==
  push' = [t \in Sessions |-> IF t = s THEN p ELSE IF push[t] = p THEN NoPhone ELSE push[t]]

\* An empty device token turns the notifications off.
TurnPushOff(p) ==
  /\ phone[p].stored # NoStored
  /\ Active(phone[p].stored.session)
  /\ push' = [push EXCEPT ![phone[p].stored.session] = NoPhone]
  /\ UNCHANGED <<codes, sessions, phone, wire, made, dropped, left>>

\* APNs refuses the phone's device token.
ForgetDeviceToken(p) ==
  /\ \E s \in Sessions : push[s] = p
  /\ push' = [s \in Sessions |-> IF push[s] = p THEN NoPhone ELSE push[s]]
  /\ UNCHANGED <<codes, sessions, phone, wire, made, dropped, left>>

-----------------------------------------------------------------------------
(* Requests that nobody waits for.                                           *)

ServeRefresh(r) ==
  /\ r.kind = "refresh"
  /\ \E answer \in Stored \cup {Refused} : Refresh(r.of.token, TRUE, answer)
  /\ UNCHANGED <<push, left>>

\* The rows that the UPDATE of SignOut finds.
Leaving(token) == {s \in Sessions : Unrevoked(s) /\ Holds(s, token)}

\* Mutant: sign-out accepts the current token only.
ServeSignOutCurrent(r) ==
  /\ r.kind = "signout"
  /\ IF \E s \in Leaving(r.of.token) : sessions[s].current = r.of.token
     THEN \E s \in Leaving(r.of.token) : End(s)
     ELSE UNCHANGED sessions
  /\ left' = [left EXCEPT ![r.of.session] = "served"]
  /\ UNCHANGED <<push, made, dropped>>

\* A token that no such session has is ignored.
ServeSignOut(r) ==
  /\ r.kind = "signout"
  /\ IF Leaving(r.of.token) = {} THEN UNCHANGED sessions
     ELSE \E s \in Leaving(r.of.token) : End(s)
  /\ left' = [left EXCEPT ![r.of.session] = "served"]
  /\ UNCHANGED <<push, made, dropped>>

\* The handler of a request that the interceptor let pass.  Without a row of
\* sessions the foreign key of push_tokens refuses the token.
ServeRegister(r) ==
  /\ r.kind = "register"
  /\ IF sessions[r.of.session].state = "purged" THEN UNCHANGED push
     ELSE SetPushToken(r.of.session, r.from)
  /\ UNCHANGED <<sessions, made, dropped, left>>

Serve(r) ==
  /\ ServeRefresh(r) \/ ServeSignOut(r) \/ ServeRegister(r)
  /\ wire' = wire \ {r}
  /\ UNCHANGED <<codes, phone>>

Lose(r) ==
  /\ wire' = wire \ {r}
  /\ left' = IF r.kind = "signout" THEN [left EXCEPT ![r.of.session] = "lost"] ELSE left
  /\ UNCHANGED <<codes, sessions, push, phone, made, dropped>>

Next ==
  \/ \E c \in Codes : CreatePairingCode(c) \/ CodeExpires(c)
  \/ \E p \in Phones, c \in Codes : RedeemPairingCode(p, c)
  \/ \E p \in Phones :
       \/ PairAnswered(p) \/ PairFails(p)
       \/ RefreshStart(p) \/ RefreshSession(p) \/ RefreshAnswered(p) \/ RefreshFails(p)
       \/ SignOut(p) \/ RegisterPushToken(p) \/ CallRefused(p) \/ TurnPushOff(p)
       \/ ForgetDeviceToken(p)
  \/ \E s \in Sessions : RevokeSession(s) \/ SessionExpires(s) \/ GraceEnds(s) \/ Purge(s)
  \/ \E r \in wire : Serve(r) \/ Lose(r)

Spec == Init /\ [][Next]_vars

-----------------------------------------------------------------------------
(* Properties.                                                               *)

\* A pairing code pairs once: two phones that redeem it at the same time, or
\* a phone that redeems it again after its answer was lost, never make two
\* sessions of it (RedeemPairingCode).
PairedOnce ==
  \A s, t \in Sessions :
    s # t /\ sessions[s].code = sessions[t].code => sessions[s].code = NoCode

\* A phone whose session is active on the server holds a token that the
\* server still knows, however many answers of refreshes were lost and
\* whenever the grace period ended (Refresh keeps the previous token when it
\* is retried).  The exception is a session in which a refresh that the phone
\* had given up was served after the retry and replaced its token.
TokenUsable ==
  \A p \in Phones :
    LET own == phone[p].stored IN
      own # NoStored /\ Active(own.session) /\ own.session \notin dropped
        => Holds(own.session, own.token)

\* A sign-out that reaches the server ends the session of that phone, also
\* when it crosses a refresh of the same session (SignOut accepts the previous
\* token).  Same exception.
SignOutEnds == \A s \in Sessions : left[s] = "served" => ~Active(s) \/ s \in dropped

\* The notifications of an active session go to a phone that still has this
\* session: neither a new pairing (which ends the old session) nor a
\* registration that arrives late (SetPushToken runs after the interceptor's
\* check) makes a phone show what belongs to a session it has left.  The
\* exceptions: its sign-out is on its way or was lost, or the one above.
PushFollowsSession ==
  \A s \in Sessions, p \in Phones :
    push[s] = p /\ Active(s) =>
      \/ phone[p].stored.session = s
      \/ \E r \in wire : r.kind = "signout" /\ r.of.session = s
      \/ left[s] = "lost"
      \/ s \in dropped
=============================================================================
