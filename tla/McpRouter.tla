----------------------------- MODULE McpRouter -----------------------------
(***************************************************************************)
(* One OAuth integration of the MCP router: its row, its consents, the      *)
(* token shared in memory, the pooled sessions, and the tool calls that     *)
(* open sessions, refresh rejected or expired tokens and report grants that *)
(* are gone (mcp-router: oauthflow.go, upstream.go, router.go, tools.go,    *)
(* store.go).                                                               *)
(*                                                                          *)
(* One action is one SQL statement, one critical section or one exchange    *)
(* with a server.  The authorization server rotates refresh tokens and may  *)
(* refuse any; the MCP server and the SDK between it and the router answer  *)
(* as they like.  Objects that nobody refers to are garbage: a new live     *)
(* token or session takes the place of one.                                 *)
(***************************************************************************)
EXTENDS Naturals, Sequences, FiniteSets

CONSTANTS
  Requests,   \* CallTool requests
  Consents,   \* authorizations begun, each with a state of its own
  None,
  MaxFaults,  \* bound: refusals, expiries, lost answers, sessions and saves
  MaxTokens   \* bound: tokens that the authorization server issues

ASSUME RouterAssumption ==
  /\ MaxTokens \in Nat /\ MaxFaults \in Nat
  /\ IsFiniteSet(Requests) /\ None \notin Requests /\ None \notin Consents

VARIABLES
  row,      \* the integration's row: status, token (credentials) and updated_at
  pending,  \* the pending authorization
  consent,  \* consent -> how far its authorization has come
  tokens,   \* the tokens issued so far
  live,     \* liveToken objects
  current,  \* Flow.live of the integration
  sessions, \* MCP sessions and their credentials
  pool,     \* Pool.entries of the integration
  req,      \* request -> what it is doing
  expired,  \* tokens past their expiry
  overwritten, \* history: a refresh has replaced the credentials of a later consent
  faults    \* adverse events so far

vars == <<row, pending, consent, tokens, live, current, sessions, pool,
          req, expired, overwritten, faults>>

\* A token as it is numbered by the authorization server: the consent it comes
\* from, in the order of Connect.  History: how often it got into a live token
\* (up to twice), whether its refresh token has been rotated, whether the answer
\* that rotated it was lost, whether it was presented again after that, and
\* whether the MCP server has accepted it.
Issued(grant, copies) ==
  [grant |-> grant, copies |-> copies, rotated |-> FALSE, lost |-> FALSE, reused |-> FALSE, accepted |-> FALSE]

\* As many as can be in use at once.
LiveIds == 1..(Cardinality(Requests) + 2)
SessionIds == 1..(Cardinality(Requests) + 1)
NoToken == 0
Absent == 0     \* no live token, no session

NoLive == [token |-> NoToken, updated |-> 0, mu |-> None]
NoSession == [live |-> Absent, unproven |-> NoToken]

\* purpose: what the exchange with the server is for; noted: the token that
\* Authorize has noted for the SDK's second try; then: where a refresh goes on;
\* attempt: the loop of call.
Idle == [pc |-> "idle", snap |-> [status |-> "none", token |-> NoToken, updated |-> 0],
         session |-> Absent, purpose |-> "connect", carried |-> NoToken, noted |-> NoToken,
         attempt |-> 0, then |-> "send", updated |-> 0]

\* The integration has been created and its first authorization completed.
Init ==
  /\ row = [status |-> "connected", token |-> 1, updated |-> 1]
  /\ pending = None
  /\ consent = [c \in Consents |-> "unused"]
  /\ tokens = <<Issued(1, 0)>>
  /\ live = [l \in LiveIds |-> NoLive]
  /\ current = Absent
  /\ sessions = [s \in SessionIds |-> NoSession]
  /\ pool = Absent
  /\ req = [r \in Requests |-> Idle]
  /\ expired = {}
  /\ overwritten = FALSE
  /\ faults = 0

-----------------------------------------------------------------------------
(* Store and caches.                                                         *)

SetStatus(status) == row' = [row EXCEPT !.status = status, !.updated = @ + 1]

Fault == faults < MaxFaults /\ faults' = faults + 1

Invalidate == pool' = Absent

Forget == current' = Absent

Active(r) == req[r].pc \notin {"idle", "done"}

Session(r) == sessions[req[r].session]
Live(r) == live[Session(r).live]

\* Sessions and live tokens that somebody still refers to.
Used == {pool} \cup {req[r].session : r \in {q \in Requests : Active(q)}}
Held == {current} \cup {sessions[s].live : s \in Used \ {Absent}}

Free(ids, used) == CHOOSE i \in ids \ used : \A j \in ids \ used : i <= j

-----------------------------------------------------------------------------
(* Consent: ReauthorizeIntegration and CompleteAuthorization.                *)

\* Begin of a reauthorization: SavePending replaces the pending authorization.
Begin(c) ==
  /\ consent[c] = "unused"
  /\ pending' = c
  /\ consent' = [consent EXCEPT ![c] = "begun"]
  /\ UNCHANGED <<row, tokens, live, current, sessions, pool, req, expired, overwritten, faults>>

\* Complete takes the pending authorization of its state and reads the row;
\* that of an earlier Begin is not found any more, nor one that has expired.
TakePending(c) ==
  /\ consent[c] = "begun"
  /\ \/ /\ pending = c
        /\ pending' = None
        /\ consent' = [consent EXCEPT ![c] = row.status]
     \/ /\ pending' = IF pending = c THEN None ELSE pending
        /\ consent' = [consent EXCEPT ![c] = "done"]
  /\ UNCHANGED <<row, tokens, live, current, sessions, pool, req, expired, overwritten, faults>>

\* consent[c] is the status that Complete has read.
Completing(c) == consent[c] \in {"connected", "needs_reauth"}

\* The exchange fails, or the user has refused: the status is written back.  A
\* token that cannot be sealed or stored writes nothing.
CompleteFails(c) ==
  /\ Fault
  /\ Completing(c)
  /\ SetStatus(consent[c]) \/ UNCHANGED row
  /\ consent' = [consent EXCEPT ![c] = "done"]
  /\ UNCHANGED <<pending, tokens, live, current, sessions, pool, req, expired, overwritten>>

Grants == {tokens[n].grant : n \in DOMAIN tokens}

\* The exchange gives a token of a new grant, which Connect stores.
Connect(c) ==
  /\ Completing(c)
  /\ Len(tokens) < MaxTokens
  /\ tokens' = Append(tokens, Issued(1 + CHOOSE g \in Grants : \A h \in Grants : h <= g, 0))
  /\ row' = [status |-> "connected", token |-> Len(tokens'), updated |-> row.updated + 1]
  /\ consent' = [consent EXCEPT ![c] = "stored"]
  /\ UNCHANGED <<pending, live, current, sessions, pool, req, expired, overwritten, faults>>

\* CompleteAuthorization forgets what is cached: the session, then the token.
ConnectedInvalidates(c) ==
  /\ consent[c] = "stored"
  /\ Invalidate
  /\ consent' = [consent EXCEPT ![c] = "invalidated"]
  /\ UNCHANGED <<row, pending, tokens, live, current, sessions, req, expired, overwritten, faults>>

ConnectedForgets(c) ==
  /\ consent[c] = "invalidated"
  /\ Forget
  /\ consent' = [consent EXCEPT ![c] = "done"]
  /\ UNCHANGED <<row, pending, tokens, live, sessions, pool, req, expired, overwritten, faults>>

-----------------------------------------------------------------------------
(* A tool call opens or reuses a session.                                    *)

Step(r, q) == req' = [req EXCEPT ![r] = q]
Go(r, pc) == Step(r, [req[r] EXCEPT !.pc = pc])
Done(r) == Step(r, [Idle EXCEPT !.pc = "done"])

\* An error ends a connection attempt; a call has its session to look after.
Error(r, pc) == IF req[r].purpose = "call" THEN Go(r, pc) ELSE Done(r)

\* callTool reads the row and checks its status and the rate limit; a call that
\* it refuses has changed nothing.
CallTool(r) ==
  /\ req[r].pc = "idle"
  /\ row.status = "connected"
  /\ Step(r, [req[r] EXCEPT !.pc = "entry", !.snap = row])
  /\ UNCHANGED <<row, pending, consent, tokens, live, current, sessions, pool, expired, overwritten, faults>>

\* The call goes out on a session.
UseSession(r, s) ==
  Step(r, [req[r] EXCEPT !.pc = "token", !.session = s, !.purpose = "call",
                         !.carried = NoToken, !.noted = NoToken])

\* Pool.entry looks for a session.
Entry(r) ==
  /\ req[r].pc = "entry"
  /\ IF pool # Absent THEN UseSession(r, pool) ELSE Go(r, "source")
  /\ UNCHANGED <<row, pending, consent, tokens, live, current, sessions, pool, expired, overwritten, faults>>

\* Mutant: whatever is in memory serves.
RecentAny(r) == current # Absent

\* The live token in memory serves a request whose row is not more recent.
Recent(r) == current # Absent /\ req[r].snap.updated <= live[current].updated

\* liveToken: shares that token, or loads the one of the row it has read.
OpenSource(r) ==
  LET l == IF Recent(r) THEN current ELSE Free(LiveIds, Held)
      s == Free(SessionIds, Used)
      n == req[r].snap.token
  IN
  /\ req[r].pc = "source"
  /\ IF Recent(r)
       THEN UNCHANGED <<live, tokens, current>>
       ELSE /\ live' = [live EXCEPT ![l] = [token |-> n, updated |-> req[r].snap.updated, mu |-> None]]
            /\ tokens' = [tokens EXCEPT ![n].copies = IF @ < 2 THEN @ + 1 ELSE @]
            /\ current' = l
  /\ sessions' = [sessions EXCEPT ![s] = [NoSession EXCEPT !.live = l]]
  /\ Step(r, [req[r] EXCEPT !.pc = "token", !.session = s, !.purpose = "connect", !.noted = NoToken])
  /\ UNCHANGED <<row, pending, consent, pool, expired, overwritten, faults>>

\* The vault does not open the credentials.
OpenFails(r) ==
  /\ req[r].pc = "source"
  /\ Done(r)
  /\ UNCHANGED <<row, pending, consent, tokens, live, current, sessions, pool, expired, overwritten, faults>>

\* The connected session goes into the pool, unless another is there.
Insert(r) ==
  /\ req[r].pc = "insert"
  /\ pool' = IF pool = Absent THEN req[r].session ELSE pool
  /\ UseSession(r, pool')
  /\ UNCHANGED <<row, pending, consent, tokens, live, current, sessions, expired, overwritten, faults>>

-----------------------------------------------------------------------------
(* The token of an exchange: savingSource.                                   *)

Unlocked(r) == Live(r).mu = None
Lock(r) == live' = [live EXCEPT ![Session(r).live].mu = r]
Expired(r) == Live(r).token \in expired

\* refreshLocked presents the refresh token that is in memory now.
StartRefresh(r, then) == Step(r, [req[r] EXCEPT !.pc = "refresh", !.carried = Live(r).token, !.then = then])

\* Where a refresh with the given outcome in memory goes on.
Resume(r, token) ==
  \/ /\ req[r].then = "send"
     /\ Step(r, [req[r] EXCEPT !.pc = "send", !.carried = token])
     /\ UNCHANGED sessions
  \/ /\ req[r].then = "prove"
     /\ Step(r, [req[r] EXCEPT !.pc = "prove", !.then = "send"])
     /\ UNCHANGED sessions
  \/ /\ req[r].then = "proved"
     /\ Step(r, [req[r] EXCEPT !.pc = "token", !.noted = token, !.then = "send"])
     /\ sessions' = [sessions EXCEPT ![req[r].session].unproven = token]

\* Token, for the request to the server.
Token(r) ==
  /\ req[r].pc = "token"
  /\ Unlocked(r)
  /\ IF Expired(r)
       THEN Lock(r) /\ StartRefresh(r, "send")
       ELSE Step(r, [req[r] EXCEPT !.pc = "send", !.carried = Live(r).token]) /\ UNCHANGED live
  /\ UNCHANGED <<row, pending, consent, tokens, current, sessions, pool, expired, overwritten, faults>>

\* Mutant: the mutex does not cover the refresh.
RefreshRejectedUnlocked(r) ==
  /\ req[r].pc = "authorize"
  /\ IF Live(r).token = req[r].carried
       THEN Lock(r) /\ StartRefresh(r, "prove")
       ELSE Go(r, "prove") /\ UNCHANGED live
  /\ UNCHANGED <<row, pending, consent, tokens, current, sessions, pool, expired, overwritten, faults>>

\* Refresh(rejected), unless another request has replaced the token.
RefreshRejected(r) ==
  /\ req[r].pc = "authorize"
  /\ Unlocked(r)
  /\ IF Live(r).token = req[r].carried
       THEN Lock(r) /\ StartRefresh(r, "prove")
       ELSE Go(r, "prove") /\ UNCHANGED live
  /\ UNCHANGED <<row, pending, consent, tokens, current, sessions, pool, expired, overwritten, faults>>

\* Authorize takes the token that the SDK retries with, and notes it unproven.
Prove(r) ==
  /\ req[r].pc = "prove"
  /\ Unlocked(r)
  /\ IF Expired(r)
       THEN Lock(r) /\ StartRefresh(r, "proved") /\ UNCHANGED sessions
       ELSE /\ sessions' = [sessions EXCEPT ![req[r].session].unproven = Live(r).token]
            /\ Step(r, [req[r] EXCEPT !.pc = "token", !.noted = Live(r).token])
            /\ UNCHANGED live
  /\ UNCHANGED <<row, pending, consent, tokens, current, pool, expired, overwritten, faults>>

\* A new token comes back and replaces the one in memory.
Refreshed(r) ==
  LET n == req[r].carried IN
  /\ req[r].pc = "refresh"
  /\ Len(tokens) < MaxTokens /\ ~tokens[n].rotated
  /\ tokens' = Append([tokens EXCEPT ![n].rotated = TRUE], Issued(tokens[n].grant, 1))
  /\ live' = [live EXCEPT ![Session(r).live].token = Len(tokens')]
  /\ Go(r, "save")
  /\ UNCHANGED <<row, pending, consent, current, sessions, pool, expired, overwritten, faults>>

\* The grant is gone (invalid_grant and the like): MarkNeedsReauth, and inside
\* Authorize the session reports it too.
RefreshRefused(r) ==
  LET n == req[r].carried IN
  /\ req[r].pc = "refresh"
  /\ tokens' = [tokens EXCEPT ![n].reused = @ \/ tokens[n].rotated]
  /\ SetStatus("needs_reauth")
  /\ live' = [live EXCEPT ![Session(r).live].mu = None]
  /\ IF req[r].then = "send" THEN Error(r, "fail") ELSE Go(r, "reject")
  /\ UNCHANGED <<pending, consent, current, sessions, pool, expired, overwritten, faults>>

\* No answer: the server was not reached, or has rotated the token in vain.
RefreshFails(r) ==
  /\ req[r].pc = "refresh"
  /\ \/ UNCHANGED <<tokens, faults>>
     \/ /\ Fault
        /\ ~tokens[req[r].carried].rotated
        /\ tokens' = [tokens EXCEPT ![req[r].carried].rotated = TRUE, ![req[r].carried].lost = TRUE]
  /\ live' = [live EXCEPT ![Session(r).live].mu = None]
  /\ Error(r, "fail")
  /\ UNCHANGED <<row, pending, consent, current, sessions, pool, expired, overwritten>>

\* UpdateCredentials, with the token in memory.
Save(r) ==
  /\ req[r].pc = "save"
  /\ row' = [row EXCEPT !.token = Live(r).token, !.updated = @ + 1]
  /\ overwritten' = (overwritten \/ tokens[row.token].grant > tokens[Live(r).token].grant)
  /\ Step(r, [req[r] EXCEPT !.pc = "note", !.updated = row'.updated])
  /\ UNCHANGED <<pending, consent, tokens, live, current, sessions, pool, expired, faults>>

\* The vault or the database does not answer: the token stays in memory only.
SaveFails(r) ==
  /\ req[r].pc = "save"
  /\ Fault
  /\ live' = [live EXCEPT ![Session(r).live].mu = None]
  /\ Resume(r, Live(r).token)
  /\ UNCHANGED <<row, pending, consent, tokens, current, pool, expired, overwritten>>

\* The live token takes over the row's updated_at, and its mutex is released.
Note(r) ==
  /\ req[r].pc = "note"
  /\ live' = [live EXCEPT ![Session(r).live].mu = None, ![Session(r).live].updated = req[r].updated]
  /\ Resume(r, Live(r).token)
  /\ UNCHANGED <<row, pending, consent, tokens, current, pool, expired, overwritten, faults>>

-----------------------------------------------------------------------------
(* The exchange with the MCP server: credentials, call, onRejected.          *)

\* The request carries a token from a forced refresh, not accepted so far.
Fresh(r) == Session(r).unproven # NoToken /\ Session(r).unproven = req[r].carried

\* Mutant: any answer proves the token.
AnsweredProves(r) ==
  /\ req[r].pc = "send"
  /\ sessions' = [sessions EXCEPT ![req[r].session].unproven = NoToken]
  /\ tokens' = [tokens EXCEPT ![req[r].carried].accepted = TRUE]
  /\ IF req[r].purpose = "connect" THEN Go(r, "insert") ELSE Done(r)
  /\ UNCHANGED <<row, pending, consent, live, current, pool, expired, overwritten, faults>>

\* The server answers, with a result or an error of its own.
Answered(r) ==
  /\ req[r].pc = "send"
  /\ sessions' = IF Fresh(r) THEN [sessions EXCEPT ![req[r].session].unproven = NoToken] ELSE sessions
  /\ tokens' = [tokens EXCEPT ![req[r].carried].accepted = TRUE]
  /\ IF req[r].purpose = "connect" THEN Go(r, "insert") ELSE Done(r)
  /\ UNCHANGED <<row, pending, consent, live, current, pool, expired, overwritten, faults>>

\* 401 and 403: RoundTrip reports a fresh token, Authorize gets the others once.
Rejected(r, status) ==
  /\ Fault
  /\ req[r].pc = "send"
  /\ IF ~Fresh(r) /\ req[r].noted # NoToken
       THEN Go(r, "refused")
       ELSE Go(r, IF ~Fresh(r) /\ status = 401 THEN "authorize" ELSE "reject")
  /\ UNCHANGED <<row, pending, consent, tokens, live, current, sessions, pool, expired, overwritten>>

\* ErrSessionMissing: call reconnects once, with the row it read at first.
SessionMissing(r) ==
  /\ Fault
  /\ req[r].pc = "send"
  /\ req[r].purpose = "call"
  /\ Invalidate
  /\ IF req[r].attempt = 0
       THEN Step(r, [req[r] EXCEPT !.pc = "entry", !.session = Absent, !.attempt = 1])
       ELSE Done(r)
  /\ UNCHANGED <<row, pending, consent, tokens, live, current, sessions, expired, overwritten>>

\* No answer in time, or the caller has gone, which keeps the session.
Unanswered(r) ==
  /\ req[r].pc = "send"
  /\ Error(r, "fail") \/ Done(r)
  /\ UNCHANGED <<row, pending, consent, tokens, live, current, sessions, pool, expired, overwritten, faults>>

\* onRejected: the row, then the pool, then the token in memory.
Reject(r) ==
  /\ \/ /\ req[r].pc = "reject"
        /\ SetStatus("needs_reauth") /\ Go(r, "invalidate") /\ UNCHANGED <<pool, current>>
     \/ /\ req[r].pc = "invalidate"
        /\ Invalidate /\ Go(r, "forget") /\ UNCHANGED <<row, current>>
     \/ /\ req[r].pc = "forget"
        /\ Forget /\ Error(r, "fail") /\ UNCHANGED <<row, pool>>
  /\ UNCHANGED <<pending, consent, tokens, live, sessions, expired, overwritten, faults>>

\* dropBrokenSession: the error of a call drops the session from the pool.
Fail(r) ==
  /\ req[r].pc \in {"fail", "refused"}
  /\ IF req[r].purpose = "call" THEN Invalidate ELSE UNCHANGED pool
  /\ Done(r)
  /\ UNCHANGED <<row, pending, consent, tokens, live, current, sessions, expired, overwritten, faults>>

\* The reaper closes a session of which no call has taken a slot yet.
Reap ==
  /\ pool # Absent
  /\ \A r \in Requests : req[r].purpose = "call" /\ req[r].session = pool
       => req[r].pc = "token" /\ req[r].noted = NoToken
  /\ Invalidate
  /\ UNCHANGED <<row, pending, consent, tokens, live, current, sessions, req, expired, overwritten, faults>>

\* A token that somebody may look at passes its expiry.
Expire(n) ==
  /\ n \notin expired
  /\ Fault
  /\ \E l \in Held \ {Absent} : live[l].token = n
  /\ expired' = expired \cup {n}
  /\ UNCHANGED <<row, pending, consent, tokens, live, current, sessions, pool, req, overwritten>>

-----------------------------------------------------------------------------

RequestStep(r) ==
  \/ Entry(r) \/ OpenSource(r) \/ OpenFails(r) \/ Insert(r)
  \/ Token(r) \/ RefreshRejected(r) \/ Prove(r)
  \/ Refreshed(r) \/ RefreshRefused(r) \/ RefreshFails(r)
  \/ Save(r) \/ SaveFails(r) \/ Note(r)
  \/ Answered(r) \/ Rejected(r, 401) \/ Rejected(r, 403)
  \/ SessionMissing(r) \/ Unanswered(r) \/ Reject(r) \/ Fail(r)

\* Every call has ended: nothing has to happen any more.
Finished == (\A r \in Requests : ~Active(r)) /\ UNCHANGED vars

Next ==
  \/ \E c \in Consents : Begin(c) \/ TakePending(c) \/ CompleteFails(c) \/ Connect(c)
                         \/ ConnectedInvalidates(c) \/ ConnectedForgets(c)
  \/ \E r \in Requests : CallTool(r) \/ RequestStep(r)
  \/ Reap \/ Finished
  \/ \E n \in DOMAIN tokens : Expire(n)

Spec == Init /\ [][Next]_vars

-----------------------------------------------------------------------------
(* Properties.                                                               *)

\* A rotated refresh token is presented again only if the token got into memory
\* twice (loaded again while a live token still had it, or had failed to save
\* its successor) or if the answer that rotated it was lost: the requests that
\* share a live token never do it, whoever finds it expired or rejected.
SpentOnce ==
  \A n \in DOMAIN tokens : tokens[n].reused => tokens[n].copies > 1 \/ tokens[n].lost

\* A request that opens a session gets no token of an earlier consent than the
\* one in the row it has read, however late other requests put theirs into
\* memory, unless a refresh has written an earlier consent over a later one.
NotOlderThanRead ==
  overwritten \/ \A r \in Requests :
    Active(r) /\ req[r].session # Absent /\ req[r].purpose = "connect"
      => tokens[Live(r).token].grant >= tokens[req[r].snap.token].grant

\* A token that the server refuses right after a refresh has replaced it for
\* that request is reported, unless the server has accepted it before or it has
\* been replaced again: no other request of the session hides the refusal.
RefusalReported ==
  \A r \in Requests : req[r].pc = "refused" /\ req[r].carried = req[r].noted
    => tokens[req[r].carried].accepted \/ Live(r).token # req[r].carried
=============================================================================
