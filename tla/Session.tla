------------------------------- MODULE Session -------------------------------
(***************************************************************************)
(* The session of a person: the web client (client.ts, SessionContext,     *)
(* tokenStore) in one tab, and AuthService with its registry of refresh    *)
(* tokens.                                                                 *)
(*                                                                         *)
(* A login gives a pair of an access token, good for half an hour, and a   *)
(* refresh token.  The calls of the page go on side by side: each that is  *)
(* answered 401 exchanges the refresh token of the store, once, and is     *)
(* sent again.  An exchange reads the token and its owner, and revokes the *)
(* one and issues another when it commits; a logout reads the owner, then  *)
(* the tokens, and commits.  Answers are lost, the page is reloaded, and   *)
(* the person may log out in another browser.                              *)
(*                                                                         *)
(* Pair n is the access token n and the refresh token n that were issued   *)
(* together.  Access tokens expire in the order they were issued in;       *)
(* refresh tokens live for days and do not expire here.                    *)
(***************************************************************************)
EXTENDS Naturals, Sequences, FiniteSets

CONSTANTS
  Calls,   \* bound: calls in flight
  MaxOps   \* bound: calls, logins, logouts and reloads

None == 0
Idle == [stage |-> "idle"]
ASSUME BoundsAssumption == MaxOps \in Nat

VARIABLES
  version,   \* Employee.refresh_token_version
  tokens,    \* RefreshToken rows with the version their token carries
  expired,   \* access tokens 1 to this have expired
  store,     \* tokenStore
  status,    \* status of SessionProvider
  calls,     \* calls in flight
  outs,      \* history: logouts that were committed
  crossed,   \* history: logouts overlapped
  raced,     \* history: refresh tokens two exchanges of which overlapped
  refused,   \* history: refresh tokens that were refused
  late,      \* history: an access token was stored after the session had gone
  ops        \* counter

server == <<version, tokens>>
client == <<store, status, late>>
history == <<outs, crossed, raced, refused>>
vars == <<server, expired, client, calls, history, ops>>

NoTokens == [access |-> None, refresh |-> None]

Init ==
  /\ version = 0 /\ tokens = <<>> /\ expired = 0
  /\ store = NoTokens /\ status = "unauthenticated"
  /\ calls = [c \in Calls |-> Idle]
  /\ outs = 0 /\ crossed = FALSE /\ raced = {} /\ refused = {} /\ late = FALSE /\ ops = 0

Pairs == DOMAIN tokens
Put(c, call) == calls' = [calls EXCEPT ![c] = call]

\* A call as the page, or another browser, begins it.
Call(op, stage, token) ==
  [op |-> op, stage |-> stage, token |-> token, version |-> 0, seen |-> 0, rows |-> {},
   live |-> TRUE]

At(c, ops_, stages) == calls[c].stage \in stages /\ calls[c].op \in ops_
Api == {"app", "me"}

\* rawRequest with the access token of the store.
Begin(c, call) ==
  /\ calls[c] = Idle /\ ops < MaxOps /\ ops' = ops + 1
  /\ Put(c, call)
  /\ UNCHANGED <<server, expired, client, history>>

\* Half an hour after it was issued.
Expire ==
  /\ expired < Len(tokens) /\ expired' = expired + 1
  /\ UNCHANGED <<server, client, calls, history, ops>>

\* user_from_access_token.
Valid(token) == token > expired

\* Mutant: the stored tokens are left when a session ends.
DropStatus(c) ==
  /\ status' = "unauthenticated" /\ UNCHANGED <<store, late>>
  /\ Put(c, Idle)

\* tokenStore.clear and emitUnauthorized, in one turn of the event loop.
Drop(c) ==
  /\ store' = NoTokens /\ status' = "unauthenticated" /\ late' = FALSE
  /\ Put(c, Idle)

-----------------------------------------------------------------------------
(* request: a call, its refresh and its retry *)

AppCall(c) == status = "authenticated" /\ Begin(c, Call("app", "sent", store.access))

\* The hydration of SessionProvider is answered by /auth/me.
Answered(c) ==
  /\ At(c, Api, {"sent", "retry"}) /\ Valid(calls[c].token)
  /\ status' = IF calls[c].op = "me" THEN "authenticated" ELSE status
  /\ Put(c, Idle) /\ UNCHANGED <<server, expired, store, late, history, ops>>

\* tryRefresh takes the refresh token the store holds when the 401 arrives.
Unauthorized(c) ==
  /\ At(c, Api, {"sent"}) /\ ~Valid(calls[c].token)
  /\ IF store.refresh = None THEN Drop(c)
     ELSE Put(c, [calls[c] EXCEPT !.stage = "refresh", !.token = store.refresh])
          /\ UNCHANGED client
  /\ UNCHANGED <<server, expired, history, ops>>

RetryUnauthorized(c) ==
  /\ At(c, Api, {"retry"}) /\ ~Valid(calls[c].token)
  /\ Drop(c) /\ UNCHANGED <<server, expired, history, ops>>

\* AuthService.refresh: neither a logout nor an exchange since it was issued.
Usable(token) == tokens[token].version = version /\ ~tokens[token].revoked

Exchanging(c, token) ==
  At(c, Api, {"issuing"}) /\ calls[c].token = token

RefreshRead(c) ==
  LET token == calls[c].token IN
  /\ At(c, Api, {"refresh"}) /\ Usable(token)
  /\ Put(c, [calls[c] EXCEPT !.stage = "issuing", !.version = version, !.seen = outs])
  /\ raced' = IF \E q \in Calls : Exchanging(q, token) THEN raced \union {token} ELSE raced
  /\ UNCHANGED <<server, expired, client, outs, crossed, refused, ops>>

RefreshRefused(c) ==
  /\ At(c, Api, {"refresh"}) /\ ~Usable(calls[c].token)
  /\ refused' = refused \union {calls[c].token}
  /\ Drop(c) /\ UNCHANGED <<server, expired, outs, crossed, raced, ops>>

\* _issue_tokens, with the version that was read.
Issued(call, from) ==
  [version |-> call.version, revoked |-> FALSE, from |-> from, seen |-> call.seen]

\* Mutant: an exchanged token is not revoked.
ExchangedKept(token) == tokens

Exchanged(token) ==
  [tokens EXCEPT ![token] = [tokens[token] EXCEPT !.revoked = TRUE]]

\* The page that waits for it gets the pair; nobody does if it has gone.
Answers(c, call) == Put(c, IF calls[c].live THEN call ELSE Idle)

RefreshCommit(c) ==
  LET call == calls[c] IN
  /\ At(c, Api, {"issuing"})
  /\ tokens' = Append(Exchanged(call.token), Issued(call, call.token))
  /\ Answers(c, [call EXCEPT !.stage = "issued", !.token = Len(tokens) + 1])
  /\ UNCHANGED <<version, expired, client, history, ops>>

\* setAccess and the retry: the refresh token that came with it is not stored.
RefreshReceived(c) ==
  LET token == calls[c].token IN
  /\ At(c, Api, {"issued"})
  /\ store' = [store EXCEPT !.access = token]
  /\ late' = (late \/ status = "unauthenticated")
  /\ Put(c, [calls[c] EXCEPT !.stage = "retry"])
  /\ UNCHANGED <<server, expired, status, history, ops>>

-----------------------------------------------------------------------------
(* login and logout *)

LoginBegin(c) ==
  /\ status = "unauthenticated"
  /\ \A q \in Calls : ~(At(q, {"login"}, {"sent", "issuing", "issued"}) /\ calls[q].live)
  /\ Begin(c, Call("login", "sent", None))

LoginRead(c) ==
  /\ At(c, {"login"}, {"sent"})
  /\ Put(c, [calls[c] EXCEPT !.stage = "issuing", !.version = version, !.seen = outs])
  /\ UNCHANGED <<server, expired, client, history, ops>>

LoginCommit(c) ==
  LET call == calls[c] IN
  /\ At(c, {"login"}, {"issuing"})
  /\ tokens' = Append(tokens, Issued(call, None))
  /\ Answers(c, [call EXCEPT !.stage = "issued", !.token = Len(tokens) + 1])
  /\ UNCHANGED <<version, expired, client, history, ops>>

LoginReceived(c) ==
  LET token == calls[c].token IN
  /\ At(c, {"login"}, {"issued"})
  /\ store' = [access |-> token, refresh |-> token]
  /\ status' = "authenticated" /\ late' = FALSE
  /\ Put(c, Idle) /\ UNCHANGED <<server, expired, history, ops>>

LogoutBegin(c) == status = "authenticated" /\ Begin(c, Call("logout", "sent", store.access))

\* The person logs out in another browser, with the access token it has there.
LogoutElsewhere(c) ==
  Begin(c, [Call("logout", "reading", None) EXCEPT !.version = version, !.seen = outs,
                                                   !.live = FALSE])

\* get_current_user has loaded the employee.
LogoutRead(c) ==
  /\ At(c, {"logout"}, {"sent"}) /\ Valid(calls[c].token)
  /\ Put(c, [calls[c] EXCEPT !.stage = "reading", !.version = version, !.seen = outs])
  /\ UNCHANGED <<server, expired, client, history, ops>>

LogoutSelect(c) ==
  /\ At(c, {"logout"}, {"reading"})
  /\ Put(c, [calls[c] EXCEPT !.stage = "selected", !.rows = {t \in Pairs : ~tokens[t].revoked}])
  /\ UNCHANGED <<server, expired, client, history, ops>>

\* Mutant: the tokens that were found are revoked and the version stays.
VersionKept(call) == version

VersionAfter(call) == call.version + 1

LogoutCommit(c) ==
  LET call == calls[c] IN
  /\ At(c, {"logout"}, {"selected"})
  /\ version' = VersionAfter(call)
  /\ tokens' = [t \in Pairs |-> IF t \in call.rows THEN [tokens[t] EXCEPT !.revoked = TRUE]
                                                   ELSE tokens[t]]
  /\ outs' = outs + 1 /\ crossed' = (crossed \/ outs # call.seen)
  /\ Answers(c, [call EXCEPT !.stage = "done"])
  /\ UNCHANGED <<expired, client, raced, refused, ops>>

\* "Best-effort; clear locally regardless": with an expired access token the
\* server refuses, and revokes nothing.
LogoutReceived(c) ==
  /\ \/ At(c, {"logout"}, {"done"})
     \/ At(c, {"logout"}, {"sent"}) /\ ~Valid(calls[c].token)
  /\ Drop(c) /\ UNCHANGED <<server, expired, history, ops>>

-----------------------------------------------------------------------------
(* Failures *)

Served == {"issuing", "reading", "selected"}

\* What the page does without an answer: hydration, a refresh and a logout end
\* the session, a call and a login fail.
GivesUp(c, call) ==
  IF call.op \in {"me", "logout"} \/ (call.op = "app" /\ call.stage \in {"refresh", "issuing", "issued"})
  THEN store' = NoTokens /\ status' = "unauthenticated" /\ late' = FALSE
  ELSE UNCHANGED client

\* The network fails; what the server has begun goes on.
Lost(c) ==
  LET call == calls[c] IN
  /\ call # Idle /\ call.live /\ GivesUp(c, call)
  /\ Put(c, IF call.stage \in Served THEN [call EXCEPT !.live = FALSE] ELSE Idle)
  /\ UNCHANGED <<server, expired, history, ops>>

\* A transaction is rolled back.
ServerFails(c) ==
  LET call == calls[c] IN
  /\ call.stage \in Served
  /\ IF call.live THEN GivesUp(c, call) ELSE UNCHANGED client
  /\ Put(c, Idle) /\ UNCHANGED <<server, expired, history, ops>>

\* The page is loaded again: its calls are given up, the server's go on.
AfterReload(call) ==
  IF call.stage \in Served THEN [call EXCEPT !.live = FALSE] ELSE Idle

Reload ==
  /\ ops < MaxOps /\ ops' = ops + 1
  /\ LET left == [q \in Calls |-> AfterReload(calls[q])] IN
     IF store.access = None
     THEN status' = "unauthenticated" /\ calls' = left
     ELSE \E c \in Calls :
            /\ left[c] = Idle /\ status' = "loading"
            /\ calls' = [left EXCEPT ![c] = Call("me", "sent", store.access)]
  /\ UNCHANGED <<server, expired, store, late, history>>

-----------------------------------------------------------------------------
Step(c) ==
  \/ Answered(c) \/ Unauthorized(c) \/ RetryUnauthorized(c)
  \/ RefreshRead(c) \/ RefreshRefused(c) \/ RefreshCommit(c) \/ RefreshReceived(c)
  \/ LoginRead(c) \/ LoginCommit(c) \/ LoginReceived(c)
  \/ LogoutRead(c) \/ LogoutSelect(c) \/ LogoutCommit(c) \/ LogoutReceived(c)
  \/ Lost(c) \/ ServerFails(c)

Next ==
  \/ \E c \in Calls : AppCall(c) \/ LoginBegin(c) \/ LogoutBegin(c) \/ LogoutElsewhere(c) \/ Step(c)
  \/ Expire \/ Reload

Spec == Init /\ [][Next]_vars

-----------------------------------------------------------------------------
(* Properties *)

Rows == [version : Nat, revoked : BOOLEAN, from : Nat, seen : Nat]
Stages == {"sent", "refresh", "issued", "retry", "done"} \union Served
InFlight == [op : Api \union {"login", "logout"}, stage : Stages, token : Nat, version : Nat,
             seen : Nat, rows : SUBSET Nat, live : BOOLEAN]

\* Calls that exchange a pair, or have been issued one.
HasPair(call) ==
  call.stage = "issued" \/ (call.stage \in {"refresh", "issuing"} /\ call.op \in Api)

\* Every variable has its type, and the tokens in use were issued.
TypeOK ==
  /\ version \in Nat /\ tokens \in Seq(Rows) /\ expired \in 0..Len(tokens)
  /\ store \in [access : 0..Len(tokens), refresh : 0..Len(tokens)]
  /\ status \in {"loading", "authenticated", "unauthenticated"}
  /\ calls \in [Calls -> {Idle} \union InFlight]
  /\ \A c \in Calls : calls[c] # Idle => calls[c].token \in 0..Len(tokens)
  /\ \A c \in Calls : HasPair(calls[c]) => calls[c].token \in Pairs
  /\ outs \in Nat /\ crossed \in BOOLEAN /\ raced \union refused \subseteq Pairs
  /\ late \in BOOLEAN /\ ops \in Nat

\* "Logout -> increments refresh_token_version -> all refresh tokens
\* invalidated": unless two logouts overlapped, a token that can be exchanged was
\* issued by a login or an exchange that began after the last logout.
LogoutEndsSessions ==
  ~crossed => \A t \in Pairs : Usable(t) => tokens[t].seen = outs

\* "A refresh token may be used exactly once": it becomes one pair at most,
\* unless exchanges of it overlapped.
ExchangedOnce ==
  \A r \in Pairs \ raced : Cardinality({t \in Pairs : tokens[t].from = r}) <= 1

\* A refresh is refused, which ends the session, only for a token that has been
\* exchanged already, or after a logout.
RefusedForAReason ==
  \A r \in refused : outs > tokens[r].seen \/ \E t \in Pairs : tokens[t].from = r

RefreshesAreAccounted == ExchangedOnce /\ RefusedForAReason

\* What the page shows is what the store holds: somebody who is signed in has an
\* access token, and nobody who is not has one, or the other, unless a refresh was
\* answered after the session had gone.
StatusTellsStore ==
  IF status = "unauthenticated"
  THEN store.refresh = None /\ (store.access # None => late)
  ELSE store.access # None
=============================================================================
