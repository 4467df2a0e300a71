---------------------------- MODULE SessionProofs ----------------------------
(***************************************************************************)
(* The type invariant and the safety invariants of Session, for any number *)
(* of calls and operations.                                                *)
(*                                                                         *)
(* A call of the server acts on the version and the token it has read.     *)
(* The invariants below say what is left of that when it commits.          *)
(***************************************************************************)
EXTENDS Session, FiniteSetTheorems, SequenceTheorems, TLAPS

CallsRight ==
  /\ calls \in [Calls -> {Idle} \union InFlight]
  /\ \A c \in Calls : calls[c] # Idle => calls[c].token \in 0..Len(tokens)
  /\ \A c \in Calls : HasPair(calls[c]) => calls[c].token \in Pairs

\* The rest of the type invariant.
Others ==
  /\ version \in Nat /\ tokens \in Seq(Rows) /\ expired \in 0..Len(tokens)
  /\ store \in [access : 0..Len(tokens), refresh : 0..Len(tokens)]
  /\ status \in {"loading", "authenticated", "unauthenticated"}
  /\ outs \in Nat /\ crossed \in BOOLEAN /\ raced \union refused \subseteq Pairs
  /\ late \in BOOLEAN /\ ops \in Nat

Right(call) ==
  /\ call \in {Idle} \union InFlight
  /\ call # Idle => call.token \in 0..Len(tokens')
  /\ HasPair(call) => call.token \in DOMAIN tokens'

\* What a token, or a call the server is at, has seen: a version that is the
\* present one if there was no logout since, and the number of logouts unless
\* two of them overlapped.
SeenRight(x) ==
  /\ x.seen <= outs
  /\ x.seen = outs => x.version = version
  /\ ~crossed => x.version = x.seen

VersionInv ==
  /\ \A t \in Pairs : SeenRight(tokens[t])
  /\ \A c \in Calls : calls[c].stage \in Served => SeenRight(calls[c])
  /\ ~crossed => version = outs

\* Calls that exchange the token they have read.
Issues(call) == call.stage = "issuing" /\ call.op \in Api

\* A revoked token, and one that was refused, was exchanged or ended by a logout.
Reason(r) == outs > tokens[r].seen \/ \E t \in Pairs : tokens[t].from = r

\* An exchanged token is revoked and became one pair.  A call that exchanges a
\* token nobody else does is the first.
ExchangeInv ==
  /\ \A t \in Pairs : tokens[t].from \in 0..Len(tokens)
  /\ \A s \in Pairs : \A t \in Pairs : tokens[t].from = s => tokens[s].revoked
  /\ \A s, t \in Pairs :
       (tokens[s].from = tokens[t].from /\ tokens[t].from # None /\ tokens[t].from \notin raced)
         => s = t
  /\ \A c \in Calls : (Issues(calls[c]) /\ calls[c].token \notin raced) =>
       /\ \A t \in Pairs : tokens[t].from # calls[c].token
       /\ \A q \in Calls : (Issues(calls[q]) /\ calls[q].token = calls[c].token) => q = c
  /\ \A t \in Pairs : tokens[t].revoked => Reason(t)
  /\ \A r \in refused : Reason(r)

-----------------------------------------------------------------------------
(* The type invariant *)

\* A call that is at some stage is not idle.
LEMMA Busy ==
  ASSUME TypeOK, NEW c \in Calls, calls[c] # Idle
  PROVE  calls[c] \in InFlight /\ calls[c].token \in 0..Len(tokens)
BY DEF TypeOK

LEMMA StagesAreBusy ==
  ASSUME TypeOK, NEW c \in Calls, calls[c].stage \in Stages
  PROVE  calls[c] # Idle
BY DEF Stages, Served, Idle

LEMMA OneCall ==
  ASSUME TypeOK, NEW c \in Calls, NEW call, Right(call), Put(c, call),
         Len(tokens) <= Len(tokens'), tokens' \in Seq(Rows)
  PROVE  CallsRight'
<1>1. /\ calls' \in [Calls -> {Idle} \union InFlight]
      /\ calls'[c] = call /\ \A q \in Calls \ {c} : calls'[q] = calls[q]
  BY DEF TypeOK, Put, Right
<1>2. Len(tokens) \in Nat /\ Len(tokens') \in Nat
      /\ DOMAIN tokens = 1..Len(tokens) /\ DOMAIN tokens' = 1..Len(tokens')
  BY DEF TypeOK
<1>3. ASSUME NEW q \in Calls, q # c
      PROVE  /\ calls'[q] # Idle => calls'[q].token \in 0..Len(tokens')
             /\ HasPair(calls'[q]) => calls'[q].token \in DOMAIN tokens'
  <2>1. calls'[q] = calls[q]
    BY <1>1, <1>3
  <2>2. calls[q] # Idle => calls[q].token \in 0..Len(tokens)
    BY DEF TypeOK
  <2>3. HasPair(calls[q]) => calls[q].token \in 1..Len(tokens)
    BY <1>2 DEF TypeOK, Pairs
  <2> QED
    BY <1>2, <2>1, <2>2, <2>3
<1> QED
  BY <1>1, <1>3 DEF CallsRight, Right, Pairs

LEMMA InitTypes == Init => TypeOK
<1> SUFFICES ASSUME Init PROVE TypeOK
  OBVIOUS
<1>1. calls \in [Calls -> {Idle} \union InFlight]
  BY DEF Init
<1>2. \A c \in Calls : calls[c] = Idle /\ ~HasPair(calls[c])
  BY DEF Init, HasPair, Idle
<1>3. tokens = <<>> /\ tokens \in Seq(Rows) /\ Len(tokens) = 0
  BY DEF Init
<1>4. store \in [access : 0..0, refresh : 0..0]
  BY DEF Init, NoTokens, None
<1>5. Others
  <2>1. store \in [access : 0..Len(tokens), refresh : 0..Len(tokens)]
    BY <1>3, <1>4
  <2>2. expired \in 0..Len(tokens) /\ version \in Nat /\ outs \in Nat /\ ops \in Nat
    BY <1>3 DEF Init
  <2>3. crossed \in BOOLEAN /\ late \in BOOLEAN /\ raced \union refused \subseteq Pairs
    BY DEF Init
  <2> QED
    BY <1>3, <2>1, <2>2, <2>3 DEF Init, Others
<1>6. CallsRight
  BY <1>1, <1>2 DEF CallsRight
<1> QED
  BY <1>5, <1>6 DEF Others, CallsRight, TypeOK

\* A call begins.
LEMMA BeginKeeps ==
  ASSUME TypeOK, NEW c \in Calls, NEW op \in Api \union {"login", "logout"},
         NEW token \in 0..Len(tokens), Begin(c, Call(op, "sent", token))
  PROVE  TypeOK'
<1>1. Others'
  BY DEF TypeOK, Others, Begin, server, client, history, Pairs
<1>2. Right(Call(op, "sent", token)) /\ Put(c, Call(op, "sent", token))
  BY DEF TypeOK, Right, Call, Begin, InFlight, Stages, HasPair, Idle, server, Api
<1> QED
  <2>1. CallsRight'
    BY <1>2, OneCall DEF Begin, server, TypeOK
  <2> QED
    BY <1>1, <2>1 DEF TypeOK, Others, CallsRight

\* A call goes on or ends, and no pair is issued.
LEMMA Quiet ==
  ASSUME TypeOK, NEW c \in Calls, NEW call, Put(c, call), Right(call), tokens' = tokens, Others'
  PROVE  TypeOK'
<1>1. CallsRight'
  BY OneCall DEF TypeOK
<1> QED
  BY <1>1 DEF TypeOK, Others, CallsRight

\* The client after the session has been dropped.
LEMMA Dropped ==
  ASSUME TypeOK, tokens' = tokens, version' = version, ops' = ops, expired' = expired,
         outs' = outs, crossed' = crossed, raced' \union refused' \subseteq Pairs,
         \/ store' = NoTokens /\ status' = "unauthenticated" /\ late' = FALSE
         \/ UNCHANGED client
  PROVE  Others'
<1>1. store' \in [access : 0..Len(tokens), refresh : 0..Len(tokens)]
  <2>1. Len(tokens) \in Nat
    BY DEF TypeOK
  <2>2. NoTokens \in [access : 0..Len(tokens), refresh : 0..Len(tokens)]
    BY <2>1 DEF NoTokens, None
  <2> QED
    BY <2>2 DEF TypeOK, client
<1>2. status' \in {"loading", "authenticated", "unauthenticated"} /\ late' \in BOOLEAN
  BY DEF TypeOK, client
<1> QED
  BY <1>1, <1>2 DEF TypeOK, Others, Pairs

LEMMA IdleIsRight == Right(Idle)
BY DEF Right, HasPair, Idle

\* The call and its new stage, when the token stays.
LEMMA GoesOn ==
  ASSUME TypeOK, NEW c \in Calls, tokens' = tokens, calls[c] # Idle,
         NEW call \in InFlight, call.token = calls[c].token, HasPair(call) => HasPair(calls[c])
  PROVE  Right(call)
BY DEF TypeOK, Right, Pairs

LEMMA AnsweredTypes == ASSUME TypeOK, NEW c \in Calls, Answered(c) PROVE TypeOK'
<1>1. Others'
  BY DEF TypeOK, Others, Answered, server, history, Pairs
<1> QED
  BY <1>1, Quiet, IdleIsRight DEF Answered, server

LEMMA UnauthorizedTypes == ASSUME TypeOK, NEW c \in Calls, Unauthorized(c) PROVE TypeOK'
<1>1. Others'
  BY Dropped DEF Unauthorized, Drop, server, history, TypeOK
<1>2. CASE store.refresh = None
  BY <1>1, <1>2, Quiet, IdleIsRight DEF Unauthorized, Drop, server
<1>3. CASE store.refresh # None
  <2> DEFINE call == [calls[c] EXCEPT !.stage = "refresh", !.token = store.refresh]
  <2>1. store.refresh \in 1..Len(tokens) /\ DOMAIN tokens = 1..Len(tokens)
    BY <1>3 DEF TypeOK, None
  <2>2. calls[c] \in InFlight
    BY Busy, StagesAreBusy DEF Unauthorized, At, Stages
  <2>3. call \in InFlight /\ call.token = store.refresh /\ call.stage = "refresh"
    <3>1. store.refresh \in Nat
      BY <2>1 DEF TypeOK
    <3> QED
      BY <2>2, <3>1 DEF InFlight, Stages
  <2>4. Right(call)
    BY <2>1, <2>3 DEF Right, Unauthorized, server
  <2>5. Put(c, call)
    BY <1>3 DEF Unauthorized
  <2> QED
    BY <1>1, <2>4, <2>5, Quiet DEF Unauthorized, server
<1> QED
  BY <1>2, <1>3

LEMMA RetryUnauthorizedTypes ==
  ASSUME TypeOK, NEW c \in Calls, RetryUnauthorized(c)
  PROVE  TypeOK'
<1>1. Others'
  BY Dropped DEF RetryUnauthorized, Drop, server, history, TypeOK
<1> QED
  BY <1>1, Quiet, IdleIsRight DEF RetryUnauthorized, Drop, server

LEMMA RefreshReadTypes == ASSUME TypeOK, NEW c \in Calls, RefreshRead(c) PROVE TypeOK'
<1> DEFINE call == [calls[c] EXCEPT !.stage = "issuing", !.version = version, !.seen = outs]
<1>1. calls[c] \in InFlight /\ HasPair(calls[c]) /\ calls[c].token \in Pairs
  BY Busy, StagesAreBusy DEF RefreshRead, At, Stages, HasPair, TypeOK
<1>2. call \in InFlight /\ call.token = calls[c].token
  BY <1>1 DEF InFlight, Stages, Served, TypeOK
<1>3. Right(call)
  BY <1>1, <1>2, StagesAreBusy, GoesOn DEF RefreshRead, At, Stages, server
<1>4. Others'
  BY <1>1, Dropped DEF RefreshRead, server, TypeOK
<1> QED
  BY <1>3, <1>4, Quiet DEF RefreshRead, server

LEMMA RefreshRefusedTypes == ASSUME TypeOK, NEW c \in Calls, RefreshRefused(c) PROVE TypeOK'
<1>1. calls[c].token \in Pairs
  BY DEF RefreshRefused, At, HasPair, TypeOK
<1>2. Others'
  BY <1>1, Dropped DEF RefreshRefused, Drop, server, TypeOK
<1> QED
  BY <1>2, Quiet, IdleIsRight DEF RefreshRefused, Drop, server

LEMMA RefreshReceivedTypes == ASSUME TypeOK, NEW c \in Calls, RefreshReceived(c) PROVE TypeOK'
<1> DEFINE call == [calls[c] EXCEPT !.stage = "retry"]
<1>1. calls[c] \in InFlight /\ calls[c].token \in 0..Len(tokens) /\ calls[c] # Idle
  BY Busy, StagesAreBusy DEF RefreshReceived, At, Stages
<1>2. call \in InFlight /\ call.token = calls[c].token /\ ~HasPair(call)
  BY <1>1 DEF InFlight, Stages, HasPair
<1>3. Right(call)
  BY <1>1, <1>2, GoesOn DEF RefreshReceived, server
<1>4. Others'
  BY <1>1 DEF RefreshReceived, server, history, TypeOK, Others, Pairs
<1> QED
  BY <1>3, <1>4, Quiet DEF RefreshReceived, server

\* A pair is issued: the tokens grow by one.
LEMMA Issuing ==
  ASSUME TypeOK, NEW c \in Calls, NEW call, NEW kept, NEW row \in Rows,
         kept \in Seq(Rows), Len(kept) = Len(tokens), tokens' = Append(kept, row),
         calls[c] \in InFlight, Answers(c, call),
         call = [calls[c] EXCEPT !.stage = "issued", !.token = Len(tokens) + 1],
         UNCHANGED <<version, expired, client, history, ops>>
  PROVE  TypeOK'
<1>1. tokens' \in Seq(Rows) /\ Len(tokens') = Len(tokens) + 1 /\ Len(tokens) \in Nat
  BY DEF TypeOK
<1>2. DOMAIN tokens = 1..Len(tokens) /\ DOMAIN tokens' = 1..(Len(tokens) + 1)
  BY <1>1 DEF TypeOK
<1>3. Others'
  BY <1>1, <1>2 DEF TypeOK, Others, client, history, Pairs
<1>4. call \in InFlight /\ call.token = Len(tokens) + 1
  <2>1. Len(tokens) + 1 \in Nat /\ "issued" \in Stages
    BY <1>1 DEF Stages
  <2>2. \A old \in InFlight, n \in Nat, st \in Stages :
          /\ [old EXCEPT !.stage = st, !.token = n] \in InFlight
          /\ [old EXCEPT !.stage = st, !.token = n].token = n
    BY DEF InFlight
  <2> QED
    BY <2>1, <2>2
<1>5. Right(call)
  BY <1>1, <1>2, <1>4 DEF Right
<1>6. CallsRight'
  BY <1>1, <1>5, IdleIsRight, OneCall DEF Answers
<1> QED
  BY <1>3, <1>6 DEF TypeOK, Others, CallsRight

LEMMA IssuedIsARow ==
  ASSUME NEW call \in InFlight, NEW from \in Nat
  PROVE  Issued(call, from) \in Rows
BY DEF Issued, InFlight, Rows

LEMMA ExchangedKeepsRows ==
  ASSUME TypeOK, NEW token \in Pairs
  PROVE  /\ Exchanged(token) \in Seq(Rows) /\ Len(Exchanged(token)) = Len(tokens)
         /\ Exchanged(token)[token] = [tokens[token] EXCEPT !.revoked = TRUE]
         /\ \A t \in Pairs \ {token} : Exchanged(token)[t] = tokens[t]
<1>1. tokens \in Seq(Rows) /\ Pairs = 1..Len(tokens)
  BY DEF TypeOK, Pairs
<1>2. [tokens[token] EXCEPT !.revoked = TRUE] \in Rows
  <2>1. tokens[token] \in Rows
    BY <1>1
  <2> QED
    BY <2>1 DEF Rows
<1>3. \A row \in Rows :
        /\ [tokens EXCEPT ![token] = row] \in Seq(Rows)
        /\ Len([tokens EXCEPT ![token] = row]) = Len(tokens)
        /\ [tokens EXCEPT ![token] = row][token] = row
        /\ \A t \in Pairs \ {token} : [tokens EXCEPT ![token] = row][t] = tokens[t]
  BY <1>1
<1> QED
  BY <1>2, <1>3 DEF Exchanged

LEMMA RefreshCommitTypes == ASSUME TypeOK, NEW c \in Calls, RefreshCommit(c) PROVE TypeOK'
<1>1. calls[c] \in InFlight /\ calls[c].token \in Pairs /\ calls[c].token \in Nat
  BY Busy, StagesAreBusy DEF RefreshCommit, At, Stages, Served, HasPair, TypeOK, InFlight
<1>2. Issued(calls[c], calls[c].token) \in Rows
  BY <1>1, IssuedIsARow
<1> QED
  BY <1>1, <1>2, Issuing, ExchangedKeepsRows DEF RefreshCommit

LEMMA LoginBeginTypes == ASSUME TypeOK, NEW c \in Calls, LoginBegin(c) PROVE TypeOK'
<1>1. None \in 0..Len(tokens)
  BY DEF TypeOK, None
<1> QED
  BY <1>1, BeginKeeps DEF LoginBegin

LEMMA AppCallTypes == ASSUME TypeOK, NEW c \in Calls, AppCall(c) PROVE TypeOK'
BY BeginKeeps DEF AppCall, Api, TypeOK

LEMMA LogoutBeginTypes == ASSUME TypeOK, NEW c \in Calls, LogoutBegin(c) PROVE TypeOK'
BY BeginKeeps DEF LogoutBegin, TypeOK

LEMMA LogoutElsewhereTypes ==
  ASSUME TypeOK, NEW c \in Calls, LogoutElsewhere(c)
  PROVE  TypeOK'
<1> DEFINE call == [Call("logout", "reading", None) EXCEPT !.version = version, !.seen = outs,
                                                           !.live = FALSE]
<1>1. call \in InFlight /\ call.token = 0 /\ call.op = "logout" /\ call.stage = "reading"
  BY DEF Call, InFlight, Stages, Served, TypeOK, None
<1>2. Right(call)
  BY <1>1 DEF Right, HasPair, Api, LogoutElsewhere, Begin, server, TypeOK
<1>3. Others'
  BY DEF TypeOK, Others, LogoutElsewhere, Begin, server, client, history, Pairs
<1> QED
  BY <1>2, <1>3, Quiet DEF LogoutElsewhere, Begin, server

LEMMA LoginReadTypes == ASSUME TypeOK, NEW c \in Calls, LoginRead(c) PROVE TypeOK'
<1> DEFINE call == [calls[c] EXCEPT !.stage = "issuing", !.version = version, !.seen = outs]
<1>1. calls[c] \in InFlight /\ calls[c].op = "login" /\ calls[c] # Idle
  BY Busy, StagesAreBusy DEF LoginRead, At, Stages
<1>2. call \in InFlight /\ call.token = calls[c].token /\ ~HasPair(call)
  BY <1>1 DEF InFlight, Stages, Served, TypeOK, HasPair, Api
<1>3. Right(call)
  BY <1>1, <1>2, GoesOn DEF LoginRead, server
<1>4. Others'
  BY DEF TypeOK, Others, LoginRead, server, client, history, Pairs
<1> QED
  BY <1>3, <1>4, Quiet DEF LoginRead, server

LEMMA LoginCommitTypes == ASSUME TypeOK, NEW c \in Calls, LoginCommit(c) PROVE TypeOK'
<1>1. calls[c] \in InFlight
  BY Busy, StagesAreBusy DEF LoginCommit, At, Stages, Served
<1>2. Issued(calls[c], None) \in Rows
  BY <1>1, IssuedIsARow DEF None
<1> QED
  BY <1>1, <1>2, Issuing DEF LoginCommit, TypeOK

LEMMA LoginReceivedTypes == ASSUME TypeOK, NEW c \in Calls, LoginReceived(c) PROVE TypeOK'
<1>1. calls[c].token \in 0..Len(tokens)
  BY Busy, StagesAreBusy DEF LoginReceived, At, Stages
<1>2. Others'
  BY <1>1 DEF TypeOK, Others, LoginReceived, server, history, Pairs
<1> QED
  BY <1>2, Quiet, IdleIsRight DEF LoginReceived, server

LEMMA LogoutReadTypes == ASSUME TypeOK, NEW c \in Calls, LogoutRead(c) PROVE TypeOK'
<1> DEFINE call == [calls[c] EXCEPT !.stage = "reading", !.version = version, !.seen = outs]
<1>1. calls[c] \in InFlight /\ calls[c] # Idle
  BY Busy, StagesAreBusy DEF LogoutRead, At, Stages
<1>2. call \in InFlight /\ call.token = calls[c].token /\ ~HasPair(call)
  BY <1>1 DEF InFlight, Stages, Served, TypeOK, HasPair
<1>3. Right(call)
  BY <1>1, <1>2, GoesOn DEF LogoutRead, server
<1>4. Others'
  BY DEF TypeOK, Others, LogoutRead, server, client, history, Pairs
<1> QED
  BY <1>3, <1>4, Quiet DEF LogoutRead, server

LEMMA LogoutSelectTypes == ASSUME TypeOK, NEW c \in Calls, LogoutSelect(c) PROVE TypeOK'
<1> DEFINE found == {t \in Pairs : ~tokens[t].revoked}
           call == [calls[c] EXCEPT !.stage = "selected", !.rows = found]
<1>1. calls[c] \in InFlight /\ calls[c] # Idle
  BY Busy, StagesAreBusy DEF LogoutSelect, At, Stages, Served
<1>2. found \in SUBSET Nat
  BY DEF TypeOK, Pairs
<1>3. call \in InFlight /\ call.token = calls[c].token /\ ~HasPair(call)
  BY <1>1, <1>2 DEF InFlight, Stages, Served, HasPair
<1>4. Right(call)
  BY <1>1, <1>3, GoesOn DEF LogoutSelect, server
<1>5. Others'
  BY DEF TypeOK, Others, LogoutSelect, server, client, history, Pairs
<1> QED
  BY <1>4, <1>5, Quiet DEF LogoutSelect, server

LEMMA LogoutReceivedTypes == ASSUME TypeOK, NEW c \in Calls, LogoutReceived(c) PROVE TypeOK'
<1>1. Others'
  BY Dropped DEF LogoutReceived, Drop, server, history, TypeOK
<1> QED
  BY <1>1, Quiet, IdleIsRight DEF LogoutReceived, Drop, server

\* The tokens after a logout: those it had found are revoked.
Revoked(row) == [row EXCEPT !.revoked = TRUE]

LEMMA RevokedRows ==
  ASSUME TypeOK, NEW rows,
         tokens' = [t \in Pairs |-> IF t \in rows THEN [tokens[t] EXCEPT !.revoked = TRUE]
                                                  ELSE tokens[t]]
  PROVE  /\ tokens' \in Seq(Rows) /\ Len(tokens') = Len(tokens)
         /\ DOMAIN tokens' = DOMAIN tokens
         /\ \A t \in Pairs : tokens'[t] = Revoked(tokens[t]) \/ tokens'[t] = tokens[t]
         /\ \A t \in Pairs : Revoked(tokens[t]) \in Rows
<1>1. Pairs = 1..Len(tokens) /\ Len(tokens) \in Nat /\ \A t \in Pairs : tokens[t] \in Rows
  BY DEF TypeOK, Pairs
<1>2. \A row \in Rows : Revoked(row) \in Rows
  BY DEF Rows, Revoked
<1>3. \A t \in Pairs : tokens'[t] = IF t \in rows THEN Revoked(tokens[t]) ELSE tokens[t]
  BY DEF Revoked
<1>4. \A t \in Pairs : tokens'[t] \in Rows
  BY <1>1, <1>2, <1>3
<1>5. tokens' = [t \in 1..Len(tokens) |-> tokens'[t]]
  BY <1>1
<1>6. tokens' \in [1..Len(tokens) -> Rows]
  BY <1>1, <1>4, <1>5
<1>7. tokens' \in Seq(Rows)
  BY <1>1, <1>6
<1>8. Len(tokens') = Len(tokens)
  BY <1>1, <1>6
<1> QED
  BY <1>1, <1>2, <1>3, <1>6, <1>7, <1>8 DEF Pairs

LEMMA LogoutCommitTypes == ASSUME TypeOK, NEW c \in Calls, LogoutCommit(c) PROVE TypeOK'
<1> DEFINE call == [calls[c] EXCEPT !.stage = "done"]
<1>1. calls[c] \in InFlight /\ calls[c] # Idle
  BY Busy, StagesAreBusy DEF LogoutCommit, At, Stages, Served
<1>2. tokens' \in Seq(Rows) /\ Len(tokens') = Len(tokens) /\ DOMAIN tokens' = DOMAIN tokens
  BY RevokedRows DEF LogoutCommit
<1>3. call \in InFlight /\ call.token = calls[c].token /\ ~HasPair(call)
  BY <1>1 DEF InFlight, Stages, HasPair
<1>4. call.token \in 0..Len(tokens')
  BY <1>1, <1>2, <1>3, Busy
<1>5. Right(call)
  BY <1>3, <1>4 DEF Right
<1>6. calls[c].version + 1 \in Nat
  BY <1>1 DEF InFlight
<1>7. Others'
  BY <1>2, <1>6 DEF TypeOK, Others, LogoutCommit, VersionAfter, client, Pairs
<1>8. Len(tokens) <= Len(tokens')
  BY <1>2 DEF TypeOK
<1>9. Put(c, call) \/ Put(c, Idle)
  BY DEF LogoutCommit, Answers
<1>10. CallsRight'
  BY <1>2, <1>5, <1>8, <1>9, IdleIsRight, OneCall
<1> QED
  BY <1>7, <1>10 DEF TypeOK, Others, CallsRight

\* A call the page has left, and the server has not.
LEMMA Abandoned ==
  ASSUME TypeOK, tokens' = tokens, NEW c \in Calls
  PROVE  /\ Right(AfterReload(calls[c]))
         /\ calls[c].stage \in Served =>
              /\ [calls[c] EXCEPT !.live = FALSE] \in InFlight
              /\ Right([calls[c] EXCEPT !.live = FALSE])
<1> DEFINE call == [calls[c] EXCEPT !.live = FALSE]
<1>1. ASSUME calls[c].stage \in Served PROVE call \in InFlight /\ Right(call)
  <2>1. calls[c] \in InFlight /\ calls[c] # Idle
    BY <1>1, Busy, StagesAreBusy DEF Stages
  <2>2. call \in InFlight /\ call.token = calls[c].token /\ call.stage = calls[c].stage
        /\ call.op = calls[c].op
    BY <2>1 DEF InFlight
  <2>3. HasPair(call) => HasPair(calls[c])
    BY <2>2 DEF HasPair
  <2> QED
    BY <2>1, <2>2, <2>3, GoesOn
<1> QED
  BY <1>1, IdleIsRight DEF AfterReload

LEMMA LostTypes == ASSUME TypeOK, NEW c \in Calls, Lost(c) PROVE TypeOK'
<1>1. Others'
  BY Dropped DEF Lost, GivesUp, server, history, TypeOK
<1>2. \E call : Put(c, call) /\ Right(call)
  BY Abandoned, IdleIsRight DEF Lost, server
<1> QED
  BY <1>1, <1>2, Quiet DEF Lost, server

LEMMA ServerFailsTypes == ASSUME TypeOK, NEW c \in Calls, ServerFails(c) PROVE TypeOK'
<1>1. Others'
  BY Dropped DEF ServerFails, GivesUp, server, history, TypeOK
<1> QED
  BY <1>1, Quiet, IdleIsRight DEF ServerFails, server

LEMMA ExpireTypes == ASSUME TypeOK, Expire PROVE TypeOK'
<1>1. Others'
  BY DEF TypeOK, Others, Expire, server, client, history, Pairs
<1>2. CallsRight'
  BY DEF TypeOK, CallsRight, Expire, server, Pairs
<1> QED
  BY <1>1, <1>2 DEF TypeOK, Others, CallsRight

LEMMA ReloadTypes == ASSUME TypeOK, Reload PROVE TypeOK'
<1>1. Others'
  BY DEF TypeOK, Others, Reload, server, history, Pairs
<1>2. tokens' = tokens
  BY DEF Reload, server
<1>3. \A q \in Calls : Right(AfterReload(calls[q]))
  BY <1>2, Abandoned
<1> DEFINE me == Call("me", "sent", store.access)
<1>4. store.access \in 0..Len(tokens)
  BY DEF TypeOK
<1>5. me \in InFlight /\ me.token = store.access /\ ~HasPair(me)
  BY <1>4 DEF Call, InFlight, Stages, Api, HasPair, TypeOK
<1>6. Right(me)
  BY <1>2, <1>4, <1>5 DEF Right
<1>7. DOMAIN calls' = Calls /\ calls' = [q \in Calls |-> calls'[q]]
  BY DEF Reload
<1>8. \A q \in Calls : calls'[q] = AfterReload(calls[q]) \/ calls'[q] = me
  BY DEF Reload
<1>9. \A q \in Calls : Right(calls'[q])
  BY <1>3, <1>6, <1>8
<1>10. CallsRight'
  BY <1>7, <1>9 DEF CallsRight, Right, Pairs
<1> QED
  BY <1>1, <1>10 DEF TypeOK, Others, CallsRight

LEMMA NextKeepsTypes == TypeOK /\ [Next]_vars => TypeOK'
<1> SUFFICES ASSUME TypeOK, [Next]_vars PROVE TypeOK'
  OBVIOUS
<1>1. CASE UNCHANGED vars
  <2>1. UNCHANGED <<version, tokens, expired, store, status, calls, outs, crossed, raced,
                    refused, late, ops>>
    BY <1>1 DEF vars, server, client, history
  <2> QED
    BY <2>1 DEF TypeOK, Pairs, HasPair
<1>2. ASSUME NEW c \in Calls,
             AppCall(c) \/ LoginBegin(c) \/ LogoutBegin(c) \/ LogoutElsewhere(c)
      PROVE  TypeOK'
  BY <1>2, AppCallTypes, LoginBeginTypes, LogoutBeginTypes, LogoutElsewhereTypes
<1>3. ASSUME NEW c \in Calls, Step(c) PROVE TypeOK'
  BY <1>3, AnsweredTypes, UnauthorizedTypes, RetryUnauthorizedTypes, RefreshReadTypes,
     RefreshRefusedTypes, RefreshCommitTypes, RefreshReceivedTypes, LoginReadTypes,
     LoginCommitTypes, LoginReceivedTypes, LogoutReadTypes, LogoutSelectTypes,
     LogoutCommitTypes, LogoutReceivedTypes, LostTypes, ServerFailsTypes DEF Step
<1> QED
  BY <1>1, <1>2, <1>3, ExpireTypes, ReloadTypes DEF Next

\* Every variable has its type, and the pairs that calls and the store refer to
\* have been issued.
THEOREM TypeCorrect == Spec => []TypeOK
<1> QED
  BY InitTypes, NextKeepsTypes, PTL DEF Spec

-----------------------------------------------------------------------------
(* Logouts *)

\* No logout is committed: what has been seen stays right.
LEMMA VersionStays ==
  ASSUME TypeOK, VersionInv, UNCHANGED <<version, outs, crossed>>,
         \A t \in DOMAIN tokens' : SeenRight(tokens'[t]),
         \A q \in Calls : calls'[q].stage \in Served => SeenRight(calls'[q])
  PROVE  VersionInv'
BY DEF VersionInv, SeenRight, Pairs

LEMMA OthersStay ==
  ASSUME TypeOK, NEW c \in Calls, NEW call, Put(c, call)
  PROVE  calls'[c] = call /\ \A q \in Calls \ {c} : calls'[q] = calls[q]
BY DEF TypeOK, Put

\* One call moves, and the server commits nothing.
LEMMA VersionOneCall ==
  ASSUME TypeOK, VersionInv, UNCHANGED <<version, tokens, outs, crossed>>, NEW c \in Calls,
         NEW call, Put(c, call), call.stage \in Served => SeenRight(call)
  PROVE  VersionInv'
<1>1. \A q \in Calls : calls'[q].stage \in Served => SeenRight(calls'[q])
  BY OthersStay DEF VersionInv
<1> QED
  BY <1>1, VersionStays DEF VersionInv, Pairs

LEMMA IdleUnserved == Idle.stage \notin Served
BY DEF Idle, Served

\* What is read now is right.
LEMMA ReadNow ==
  ASSUME TypeOK, VersionInv, NEW call, call.version = version, call.seen = outs
  PROVE  SeenRight(call)
BY DEF SeenRight, VersionInv, TypeOK

\* A pair is issued with what its call had seen.
LEMMA VersionIssued ==
  ASSUME TypeOK, VersionInv, NEW c \in Calls, calls[c].stage \in Served, NEW from \in Nat,
         NEW kept, Len(kept) = Len(tokens), kept \in Seq(Rows),
         \A t \in Pairs : kept[t].version = tokens[t].version /\ kept[t].seen = tokens[t].seen,
         tokens' = Append(kept, Issued(calls[c], from)),
         NEW call, Answers(c, call), call.stage = "issued",
         UNCHANGED <<version, outs, crossed>>
  PROVE  VersionInv'
<1>1. Len(tokens) \in Nat /\ Pairs = 1..Len(tokens)
  BY DEF TypeOK, Pairs
<1>2. DOMAIN tokens' = 1..(Len(tokens) + 1)
  BY <1>1
<1>3. ASSUME NEW t \in DOMAIN tokens' PROVE SeenRight(tokens'[t])
  <2>1. CASE t = Len(tokens) + 1
    <3>1. tokens'[t] = Issued(calls[c], from)
      BY <1>1, <2>1
    <3>2. tokens'[t].version = calls[c].version /\ tokens'[t].seen = calls[c].seen
      BY <3>1 DEF Issued
    <3> QED
      BY <3>2 DEF VersionInv, SeenRight
  <2>2. CASE t # Len(tokens) + 1
    <3>1. t \in Pairs /\ tokens'[t] = kept[t]
      BY <1>1, <1>2, <1>3, <2>2
    <3> QED
      BY <3>1 DEF VersionInv, SeenRight
  <2> QED
    BY <2>1, <2>2
<1>4. \A q \in Calls : calls'[q].stage \in Served => SeenRight(calls'[q])
  BY OthersStay, IdleUnserved DEF Answers, VersionInv, Served
<1> QED
  BY <1>3, <1>4, VersionStays

LEMMA RefreshCommitVersions ==
  ASSUME TypeOK, VersionInv, NEW c \in Calls, RefreshCommit(c)
  PROVE  VersionInv'
<1> DEFINE call == [calls[c] EXCEPT !.stage = "issued", !.token = Len(tokens) + 1]
<1>1. calls[c] \in InFlight /\ calls[c].token \in Pairs /\ calls[c].token \in Nat
      /\ calls[c].stage \in Served
  BY Busy, StagesAreBusy DEF RefreshCommit, At, Stages, Served, HasPair, TypeOK, InFlight
<1>2. call.stage = "issued"
  BY <1>1 DEF InFlight
<1>3. \A t \in Pairs : /\ Exchanged(calls[c].token)[t].version = tokens[t].version
                       /\ Exchanged(calls[c].token)[t].seen = tokens[t].seen
  <2>1. \A t \in Pairs : tokens[t] \in Rows
    BY DEF TypeOK, Pairs
  <2>2. \A row \in Rows : [row EXCEPT !.revoked = TRUE].version = row.version
                        /\ [row EXCEPT !.revoked = TRUE].seen = row.seen
    BY DEF Rows
  <2>3. /\ Exchanged(calls[c].token)[calls[c].token]
             = [tokens[calls[c].token] EXCEPT !.revoked = TRUE]
        /\ \A t \in Pairs \ {calls[c].token} : Exchanged(calls[c].token)[t] = tokens[t]
    BY <1>1, ExchangedKeepsRows
  <2>4. [tokens[calls[c].token] EXCEPT !.revoked = TRUE].version = tokens[calls[c].token].version
        /\ [tokens[calls[c].token] EXCEPT !.revoked = TRUE].seen = tokens[calls[c].token].seen
    BY <1>1, <2>1, <2>2
  <2> QED
    BY <2>3, <2>4
<1>4. Exchanged(calls[c].token) \in Seq(Rows) /\ Len(Exchanged(calls[c].token)) = Len(tokens)
  BY <1>1, ExchangedKeepsRows
<1>5. /\ tokens' = Append(Exchanged(calls[c].token), Issued(calls[c], calls[c].token))
      /\ Answers(c, call) /\ UNCHANGED <<version, outs, crossed>>
  BY DEF RefreshCommit, history
<1> QED
  BY <1>1, <1>2, <1>3, <1>4, <1>5, VersionIssued

LEMMA LoginCommitVersions ==
  ASSUME TypeOK, VersionInv, NEW c \in Calls, LoginCommit(c)
  PROVE  VersionInv'
<1> DEFINE call == [calls[c] EXCEPT !.stage = "issued", !.token = Len(tokens) + 1]
<1>1. calls[c] \in InFlight /\ calls[c].stage \in Served
  BY Busy, StagesAreBusy DEF LoginCommit, At, Stages, Served
<1>2. call.stage = "issued"
  BY <1>1 DEF InFlight
<1> QED
  BY <1>1, <1>2, VersionIssued DEF LoginCommit, history, None, TypeOK

LEMMA LogoutCommitVersions ==
  ASSUME TypeOK, VersionInv, NEW c \in Calls, LogoutCommit(c)
  PROVE  VersionInv'
<1>1. calls[c] \in InFlight /\ calls[c].stage \in Served
  BY Busy, StagesAreBusy DEF LogoutCommit, At, Stages, Served
<1>2. SeenRight(calls[c]) /\ calls[c].seen \in Nat /\ outs \in Nat
  BY <1>1 DEF VersionInv, InFlight, TypeOK
<1>3. version' = calls[c].version + 1 /\ outs' = outs + 1
      /\ crossed' = (crossed \/ outs # calls[c].seen)
  BY DEF LogoutCommit, VersionAfter
<1>4. ASSUME NEW x, x.seen \in Nat, SeenRight(x)
      PROVE  x.seen <= outs' /\ x.seen # outs' /\ (~crossed' => x.version = x.seen)
  <2>1. ~crossed' => ~crossed
    BY <1>3 DEF TypeOK
  <2>2. x.seen <= outs
    BY <1>4 DEF SeenRight
  <2>3. x.seen <= outs' /\ x.seen # outs'
    BY <1>2, <1>3, <1>4, <2>2
  <2> QED
    BY <1>4, <2>1, <2>3 DEF SeenRight
<1>5. ASSUME NEW t \in DOMAIN tokens'
      PROVE  tokens'[t].seen <= outs' /\ tokens'[t].seen # outs'
             /\ (~crossed' => tokens'[t].version = tokens'[t].seen)
  <2>1. t \in Pairs /\ tokens[t] \in Rows
    BY <1>5, RevokedRows DEF LogoutCommit, TypeOK, Pairs
  <2>2. tokens'[t] = Revoked(tokens[t]) \/ tokens'[t] = tokens[t]
    BY <2>1, RevokedRows DEF LogoutCommit
  <2>3. tokens'[t].seen = tokens[t].seen /\ tokens'[t].version = tokens[t].version
    BY <2>1, <2>2 DEF Revoked, Rows
  <2>4. SeenRight(tokens[t]) /\ tokens[t].seen \in Nat
    BY <2>1 DEF VersionInv, Rows
  <2> QED
    BY <1>4, <2>3, <2>4
<1>6. ASSUME NEW q \in Calls, calls'[q].stage \in Served
      PROVE  calls'[q].seen <= outs' /\ calls'[q].seen # outs'
             /\ (~crossed' => calls'[q].version = calls'[q].seen)
  <2>1. [calls[c] EXCEPT !.stage = "done"].stage \notin Served
    BY <1>1 DEF InFlight, Served
  <2>2. q # c
    <3>1. CASE Put(c, [calls[c] EXCEPT !.stage = "done"])
      BY <1>6, <2>1, <3>1, OthersStay
    <3>2. CASE Put(c, Idle)
      BY <1>6, <3>2, IdleUnserved, OthersStay
    <3> QED
      BY <3>1, <3>2 DEF LogoutCommit, Answers
  <2>3. calls'[q] = calls[q]
    BY <2>2, OthersStay DEF LogoutCommit, Answers
  <2>4. calls[q] \in InFlight
    BY <1>6, <2>3, Busy, StagesAreBusy DEF Stages
  <2>5. SeenRight(calls[q]) /\ calls[q].seen \in Nat
    BY <1>6, <2>3, <2>4 DEF VersionInv, InFlight
  <2> QED
    BY <1>4, <2>3, <2>5
<1>7. ~crossed' => version' = outs'
  BY <1>2, <1>3 DEF SeenRight
<1> QED
  BY <1>5, <1>6, <1>7 DEF VersionInv, SeenRight, Pairs

LEMMA ReloadVersions == ASSUME TypeOK, VersionInv, Reload PROVE VersionInv'
<1>1. ASSUME NEW q \in Calls, calls'[q].stage \in Served PROVE SeenRight(calls'[q])
  <2>1. Call("me", "sent", store.access).stage \notin Served
    BY DEF Call, Served
  <2>2. calls'[q] = AfterReload(calls[q])
    BY <1>1, <2>1 DEF Reload
  <2>3. calls[q].stage \in Served /\ calls'[q] = [calls[q] EXCEPT !.live = FALSE]
    BY <1>1, <2>2, IdleUnserved DEF AfterReload
  <2>4. calls[q] \in InFlight
    BY <2>3, Busy, StagesAreBusy DEF Stages
  <2> QED
    BY <2>3, <2>4 DEF VersionInv, SeenRight, InFlight
<1>2. UNCHANGED <<version, tokens, outs, crossed>>
  BY DEF Reload, server, history
<1> QED
  BY <1>1, <1>2, VersionStays DEF VersionInv, Pairs

LEMMA NextKeepsVersions == TypeOK /\ VersionInv /\ [Next]_vars => VersionInv'
<1> SUFFICES ASSUME TypeOK, VersionInv, [Next]_vars PROVE VersionInv'
  OBVIOUS
<1>1. CASE UNCHANGED vars \/ Expire
  <2>1. UNCHANGED <<version, tokens, outs, crossed, calls>>
    BY <1>1 DEF vars, server, client, history, Expire
  <2> QED
    BY <2>1, VersionStays DEF VersionInv, Pairs
<1>2. ASSUME NEW c \in Calls, AppCall(c) \/ LoginBegin(c) \/ LogoutBegin(c) PROVE VersionInv'
  <2>1. PICK op \in Api \union {"login", "logout"}, token \in Nat : Begin(c, Call(op, "sent", token))
    BY <1>2 DEF AppCall, LoginBegin, LogoutBegin, Api, None, TypeOK
  <2>2. Call(op, "sent", token).stage \notin Served
    BY DEF Call, Served
  <2> QED
    BY <2>1, <2>2, VersionOneCall DEF Begin, server, history
<1>3. ASSUME NEW c \in Calls, LogoutElsewhere(c) PROVE VersionInv'
  <2> DEFINE call == [Call("logout", "reading", None) EXCEPT !.version = version, !.seen = outs,
                                                             !.live = FALSE]
  <2>1. call.version = version /\ call.seen = outs
    BY DEF Call
  <2> QED
    BY <1>3, <2>1, ReadNow, VersionOneCall DEF LogoutElsewhere, Begin, server, history
<1>4. ASSUME NEW c \in Calls,
             Answered(c) \/ RetryUnauthorized(c) \/ RefreshRefused(c) \/ LoginReceived(c)
               \/ LogoutReceived(c) \/ ServerFails(c)
      PROVE  VersionInv'
  <2>1. Put(c, Idle) /\ UNCHANGED <<version, tokens, outs, crossed>>
    BY <1>4 DEF Answered, RetryUnauthorized, RefreshRefused, LoginReceived, LogoutReceived,
                ServerFails, Drop, server, history
  <2> QED
    BY <2>1, IdleUnserved, VersionOneCall
<1>5. ASSUME NEW c \in Calls, Unauthorized(c) \/ RefreshReceived(c) PROVE VersionInv'
  <2>1. calls[c] \in InFlight
    BY <1>5, Busy, StagesAreBusy DEF Unauthorized, RefreshReceived, At, Stages
  <2>2. \/ Put(c, Idle)
        \/ Put(c, [calls[c] EXCEPT !.stage = "refresh", !.token = store.refresh])
        \/ Put(c, [calls[c] EXCEPT !.stage = "retry"])
    BY <1>5 DEF Unauthorized, RefreshReceived, Drop
  <2>3. [calls[c] EXCEPT !.stage = "refresh", !.token = store.refresh].stage \notin Served
        /\ [calls[c] EXCEPT !.stage = "retry"].stage \notin Served
    BY <2>1 DEF InFlight, Served
  <2>4. UNCHANGED <<version, tokens, outs, crossed>>
    BY <1>5 DEF Unauthorized, RefreshReceived, server, history
  <2> QED
    BY <2>2, <2>3, <2>4, IdleUnserved, VersionOneCall
<1>6. ASSUME NEW c \in Calls, RefreshRead(c) \/ LoginRead(c) \/ LogoutRead(c) PROVE VersionInv'
  <2>1. calls[c] \in InFlight
    BY <1>6, Busy, StagesAreBusy DEF RefreshRead, LoginRead, LogoutRead, At, Stages
  <2>2. PICK stage \in Stages :
          Put(c, [calls[c] EXCEPT !.stage = stage, !.version = version, !.seen = outs])
    BY <1>6 DEF RefreshRead, LoginRead, LogoutRead, Stages, Served
  <2> DEFINE call == [calls[c] EXCEPT !.stage = stage, !.version = version, !.seen = outs]
  <2>3. call.version = version /\ call.seen = outs
    BY <2>1 DEF InFlight
  <2>4. UNCHANGED <<version, tokens, outs, crossed>>
    BY <1>6 DEF RefreshRead, LoginRead, LogoutRead, server, history
  <2> QED
    BY <2>2, <2>3, <2>4, ReadNow, VersionOneCall
<1>7. ASSUME NEW c \in Calls, LogoutSelect(c) PROVE VersionInv'
  <2> DEFINE call == [calls[c] EXCEPT !.stage = "selected", !.rows = {t \in Pairs : ~tokens[t].revoked}]
  <2>1. calls[c] \in InFlight /\ calls[c].stage \in Served
    BY <1>7, Busy, StagesAreBusy DEF LogoutSelect, At, Stages, Served
  <2>2. call.version = calls[c].version /\ call.seen = calls[c].seen
    BY <2>1 DEF InFlight
  <2>3. SeenRight(call)
    BY <2>1, <2>2 DEF VersionInv, SeenRight
  <2> QED
    BY <1>7, <2>3, VersionOneCall DEF LogoutSelect, server, history
<1>8. ASSUME NEW c \in Calls, Lost(c) PROVE VersionInv'
  <2>1. CASE calls[c].stage \in Served
    <3>1. Put(c, [calls[c] EXCEPT !.live = FALSE])
      BY <1>8, <2>1 DEF Lost
    <3>2. calls[c] \in InFlight
      BY <2>1, Busy, StagesAreBusy DEF Stages
    <3>3. SeenRight([calls[c] EXCEPT !.live = FALSE])
      BY <2>1, <3>2 DEF VersionInv, SeenRight, InFlight
    <3> QED
      BY <1>8, <3>1, <3>3, VersionOneCall DEF Lost, server, history
  <2>2. CASE calls[c].stage \notin Served
    BY <1>8, <2>2, IdleUnserved, VersionOneCall DEF Lost, server, history
  <2> QED
    BY <2>1, <2>2
<1>9. ASSUME NEW c \in Calls, Step(c) PROVE VersionInv'
  BY <1>4, <1>5, <1>6, <1>7, <1>8, <1>9, RefreshCommitVersions, LoginCommitVersions,
     LogoutCommitVersions DEF Step
<1> QED
  BY <1>1, <1>2, <1>3, <1>9, ReloadVersions DEF Next

\* A logout ends every session: unless two logouts overlapped, a token that can
\* be exchanged was issued by a call that began after the last one (logout,
\* refresh).
THEOREM LogoutsEndSessions == Spec => []LogoutEndsSessions
<1>1. Init => VersionInv
  BY DEF Init, VersionInv, Idle, Served, Pairs
<1>2. TypeOK /\ VersionInv => LogoutEndsSessions
  BY DEF VersionInv, SeenRight, LogoutEndsSessions, Usable
<1> QED
  BY <1>1, <1>2, TypeCorrect, NextKeepsVersions, PTL DEF Spec

-----------------------------------------------------------------------------
(* Exchanges *)

\* The pairs stay, but that some are revoked by a logout.
LEMMA ExchangeStays ==
  ASSUME TypeOK, ExchangeInv, raced' = raced, outs' \in Nat, outs <= outs', Len(tokens') = Len(tokens),
         DOMAIN tokens' = DOMAIN tokens,
         \A t \in Pairs : /\ tokens'[t].from = tokens[t].from /\ tokens'[t].seen = tokens[t].seen
                          /\ tokens[t].revoked => tokens'[t].revoked
                          /\ tokens'[t].revoked => tokens[t].revoked \/ outs' > tokens[t].seen,
         refused \subseteq Pairs, refused' \subseteq Pairs,
         \A r \in refused' \ refused : Reason(r),
         \A q \in Calls : Issues(calls'[q]) => Issues(calls[q]) /\ calls'[q].token = calls[q].token
  PROVE  ExchangeInv'
<1>1. \A t \in Pairs : tokens[t].seen \in Nat
  <2>1. \A t \in Pairs : tokens[t] \in Rows
    BY DEF TypeOK, Pairs
  <2> QED
    BY <2>1 DEF Rows
<1>2. ASSUME NEW r \in Pairs, Reason(r)
      PROVE  outs' > tokens'[r].seen \/ \E t \in Pairs : tokens'[t].from = r
  <2>1. CASE outs > tokens[r].seen
    <3>1. tokens[r].seen \in Nat /\ outs \in Nat /\ tokens'[r].seen = tokens[r].seen
      BY <1>1 DEF TypeOK
    <3> QED
      BY <2>1, <3>1
  <2>2. CASE \E t \in Pairs : tokens[t].from = r
    BY <2>2
  <2> QED
    BY <1>2, <2>1, <2>2 DEF Reason
<1>3. \A t \in Pairs : tokens'[t].from \in 0..Len(tokens')
  BY DEF ExchangeInv
<1>4. \A s \in Pairs : \A t \in Pairs : tokens'[t].from = s => tokens'[s].revoked
  BY DEF ExchangeInv
<1>5. \A s, t \in Pairs :
        (tokens'[s].from = tokens'[t].from /\ tokens'[t].from # None /\ tokens'[t].from \notin raced)
          => s = t
  BY DEF ExchangeInv
<1>6. \A c \in Calls : (Issues(calls'[c]) /\ calls'[c].token \notin raced) =>
        /\ \A t \in Pairs : tokens'[t].from # calls'[c].token
        /\ \A q \in Calls : (Issues(calls'[q]) /\ calls'[q].token = calls'[c].token) => q = c
  BY DEF ExchangeInv
<1>7. ASSUME NEW t \in Pairs, tokens'[t].revoked
      PROVE  outs' > tokens'[t].seen \/ \E s \in Pairs : tokens'[s].from = t
  BY <1>2, <1>7 DEF ExchangeInv
<1>8. ASSUME NEW r \in refused'
      PROVE  outs' > tokens'[r].seen \/ \E s \in Pairs : tokens'[s].from = r
  BY <1>2, <1>8 DEF ExchangeInv
<1> QED
  BY <1>3, <1>4, <1>5, <1>6, <1>7, <1>8 DEF ExchangeInv, Reason, Pairs

\* A call moves, and the server commits nothing.
LEMMA ExchangeOneCall ==
  ASSUME TypeOK, ExchangeInv, UNCHANGED <<tokens, outs, raced>>, NEW c \in Calls,
         NEW call, Put(c, call), ~Issues(call),
         refused' \subseteq Pairs, \A r \in refused' \ refused : Reason(r)
  PROVE  ExchangeInv'
<1>1. \A q \in Calls : Issues(calls'[q]) => Issues(calls[q]) /\ calls'[q].token = calls[q].token
  BY OthersStay
<1>2. outs \in Nat /\ refused \subseteq Pairs
  BY DEF TypeOK
<1> QED
  BY <1>1, <1>2, ExchangeStays

LEMMA IdleIssuesNothing == ~Issues(Idle)
BY DEF Issues, Idle

\* The pairs when the token from is exchanged, or none is.
Kept(kept, from) ==
  /\ kept \in Seq(Rows) /\ Len(kept) = Len(tokens)
  /\ \A t \in Pairs : /\ kept[t].from = tokens[t].from /\ kept[t].seen = tokens[t].seen
                      /\ tokens[t].revoked => kept[t].revoked
                      /\ t = from => kept[t].revoked
                      /\ kept[t].revoked => tokens[t].revoked \/ t = from

\* A pair is issued, for a login or for a token that is revoked with it.
LEMMA ExchangeIssued ==
  ASSUME TypeOK, ExchangeInv, NEW c \in Calls, NEW from \in 0..Len(tokens),
         from # None => Issues(calls[c]) /\ calls[c].token = from,
         NEW kept, Kept(kept, from), NEW row,
         row.from = from, ~row.revoked, tokens' = Append(kept, row),
         \A q \in Calls : Issues(calls'[q]) =>
            q # c /\ Issues(calls[q]) /\ calls'[q].token = calls[q].token,
         UNCHANGED <<raced, refused, outs>>
  PROVE  ExchangeInv'
<1>0. /\ kept \in Seq(Rows) /\ Len(kept) = Len(tokens)
      /\ \A t \in Pairs : /\ kept[t].from = tokens[t].from /\ kept[t].seen = tokens[t].seen
                          /\ tokens[t].revoked => kept[t].revoked
                          /\ t = from => kept[t].revoked
                          /\ kept[t].revoked => tokens[t].revoked \/ t = from
  BY DEF Kept
<1> DEFINE new == Len(tokens) + 1
<1>1. Len(tokens) \in Nat /\ Pairs = 1..Len(tokens) /\ DOMAIN tokens' = 1..new
      /\ Len(tokens') = new /\ new \notin Pairs /\ DOMAIN tokens' = Pairs \union {new}
  BY <1>0 DEF TypeOK, Pairs
<1>2. tokens'[new] = row /\ \A t \in Pairs : tokens'[t] = kept[t]
  BY <1>0, <1>1
<1>3. \A q \in Calls : Issues(calls[q]) => calls[q].token \in Pairs
  BY DEF Issues, HasPair, TypeOK
<1>4. \A t \in Pairs : tokens'[t].from = tokens[t].from /\ tokens[t].from \in 0..Len(tokens)
  BY <1>0, <1>2 DEF ExchangeInv
<1>5. \A t \in Pairs \union {new} : tokens'[t].from \in 0..new /\ tokens'[t].from # new
  <2>1. tokens'[new].from = from
    BY <1>2
  <2>2. \A k \in 0..Len(tokens) : k \in 0..new /\ k # new
    BY <1>1
  <2>3. \A t \in Pairs : tokens'[t].from \in 0..Len(tokens)
    BY <1>4
  <2> HIDE DEF new
  <2> QED
    BY <2>1, <2>2, <2>3
<1>6. ASSUME NEW s \in Pairs \union {new}, NEW t \in Pairs \union {new}, tokens'[t].from = s
      PROVE  tokens'[s].revoked
  <2>1. s \in Pairs
    BY <1>0, <1>5, <1>6
  <2>2. CASE t = new
    BY <1>0, <1>2, <1>6, <2>1, <2>2
  <2>3. CASE t \in Pairs
    BY <1>0, <1>2, <1>4, <1>6, <2>1, <2>3 DEF ExchangeInv
  <2> QED
    BY <1>0, <2>2, <2>3
<1>7. ASSUME NEW s \in Pairs \union {new}, NEW t \in Pairs \union {new},
             tokens'[s].from = tokens'[t].from, tokens'[t].from # None,
             tokens'[t].from \notin raced
      PROVE  s = t
  <2>1. from # None /\ from \notin raced => \A p \in Pairs : tokens[p].from # from
    BY DEF ExchangeInv
  <2>2. CASE s \in Pairs /\ t \in Pairs
    <3>1. tokens[s].from = tokens[t].from /\ tokens[t].from # None /\ tokens[t].from \notin raced
      BY <1>0, <1>4, <1>7, <2>2
    <3> QED
      BY <1>0, <2>2, <3>1 DEF ExchangeInv
  <2>3. CASE s = new /\ t # new
    <3>1. t \in Pairs /\ tokens[t].from = tokens'[t].from /\ tokens'[new].from = from
      BY <1>2, <1>4, <2>3
    <3> QED
      BY <1>7, <2>1, <2>3, <3>1
  <2>4. CASE s # new /\ t = new
    <3>1. s \in Pairs /\ tokens[s].from = tokens'[s].from /\ tokens'[new].from = from
      BY <1>2, <1>4, <2>4
    <3> QED
      BY <1>7, <2>1, <2>4, <3>1
  <2> HIDE DEF new
  <2> QED
    BY <2>2, <2>3, <2>4
<1>8. ASSUME NEW d \in Calls, Issues(calls'[d]), calls'[d].token \notin raced
      PROVE  /\ \A t \in Pairs \union {new} : tokens'[t].from # calls'[d].token
             /\ \A q \in Calls : (Issues(calls'[q]) /\ calls'[q].token = calls'[d].token) => q = d
  <2>1. d # c /\ Issues(calls[d]) /\ calls'[d].token = calls[d].token /\ calls[d].token \in Pairs
    BY <1>0, <1>3, <1>8
  <2>2. \A t \in Pairs : tokens'[t].from # calls'[d].token
    <3>1. calls[d].token \notin raced
      BY <1>0, <1>8, <2>1
    <3>2. \A t \in Pairs : tokens[t].from # calls[d].token
      BY <1>0, <2>1, <3>1 DEF ExchangeInv
    <3> QED
      BY <1>0, <1>4, <2>1, <3>2
  <2>3. calls[d].token # None
    BY <1>0, <1>1, <2>1 DEF None
  <2>4. row.from # calls'[d].token
    BY <1>0, <1>8, <2>1, <2>3 DEF ExchangeInv
  <2>5. \A t \in Pairs \union {new} : tokens'[t].from # calls'[d].token
    BY <1>2, <2>2, <2>4
  <2>6. ASSUME NEW q \in Calls, Issues(calls'[q]), calls'[q].token = calls'[d].token
        PROVE  q = d
    <3>1. Issues(calls[q]) /\ calls[q].token = calls[d].token
      BY <2>1, <2>6
    <3>2. calls[d].token \notin raced
      BY <1>8, <2>1
    <3> QED
      BY <2>1, <3>1, <3>2 DEF ExchangeInv
  <2> QED
    BY <2>5, <2>6
<1>9. ASSUME NEW r \in Pairs, Reason(r)
      PROVE  outs > tokens'[r].seen \/ \E t \in Pairs \union {new} : tokens'[t].from = r
  BY <1>0, <1>2, <1>4, <1>9 DEF Reason
<1>10. ASSUME NEW t \in Pairs \union {new}, tokens'[t].revoked
       PROVE  outs > tokens'[t].seen \/ \E s \in Pairs \union {new} : tokens'[s].from = t
  <2>1. t \in Pairs
    BY <1>0, <1>2, <1>10
  <2>2. CASE tokens[t].revoked
    BY <1>0, <1>9, <2>1, <2>2 DEF ExchangeInv
  <2>3. CASE t = from
    BY <1>0, <1>2, <2>3
  <2> QED
    BY <1>0, <1>2, <1>10, <2>1, <2>2, <2>3
<1>11. \A r \in refused : outs > tokens'[r].seen \/ \E s \in Pairs \union {new} : tokens'[s].from = r
  BY <1>0, <1>9 DEF ExchangeInv, TypeOK
<1> HIDE DEF new
<1>12. Pairs' = Pairs \union {new}
  BY <1>0, <1>1 DEF Pairs
<1>13. \A t \in Pairs' : tokens'[t].from \in 0..Len(tokens')
  BY <1>0, <1>1, <1>5, <1>12
<1>14. \A s \in Pairs' : \A t \in Pairs' : tokens'[t].from = s => tokens'[s].revoked
  BY <1>0, <1>6, <1>12
<1>15. \A s, t \in Pairs' :
         (tokens'[s].from = tokens'[t].from /\ tokens'[t].from # None /\ tokens'[t].from \notin raced')
           => s = t
  BY <1>0, <1>7, <1>12
<1>16. \A d \in Calls : (Issues(calls'[d]) /\ calls'[d].token \notin raced') =>
         /\ \A t \in Pairs' : tokens'[t].from # calls'[d].token
         /\ \A q \in Calls : (Issues(calls'[q]) /\ calls'[q].token = calls'[d].token) => q = d
  BY <1>0, <1>8, <1>12
<1>17. \A t \in Pairs' : tokens'[t].revoked =>
         outs' > tokens'[t].seen \/ \E s \in Pairs' : tokens'[s].from = t
  BY <1>0, <1>10, <1>12
<1>18. \A r \in refused' : outs' > tokens'[r].seen \/ \E s \in Pairs' : tokens'[s].from = r
  BY <1>0, <1>11, <1>12
<1> QED
  BY <1>0, <1>13, <1>14, <1>15, <1>16, <1>17, <1>18 DEF ExchangeInv, Reason

LEMMA RefreshReadExchanges ==
  ASSUME TypeOK, ExchangeInv, NEW c \in Calls, RefreshRead(c)
  PROVE  ExchangeInv'
<1> DEFINE call == [calls[c] EXCEPT !.stage = "issuing", !.version = version, !.seen = outs]
           token == calls[c].token
<1>1. calls[c] \in InFlight /\ token \in Pairs /\ tokens[token].revoked = FALSE
  <2>1. calls[c] \in InFlight /\ token \in Pairs /\ ~tokens[token].revoked
    BY Busy, StagesAreBusy DEF RefreshRead, At, Stages, HasPair, TypeOK, Usable
  <2>2. tokens[token] \in Rows
    BY <2>1 DEF TypeOK, Pairs
  <2> QED
    BY <2>1, <2>2 DEF Rows
<1>2. call.token = token
  BY <1>1 DEF InFlight
<1>3. calls'[c] = call /\ \A q \in Calls \ {c} : calls'[q] = calls[q]
  BY OthersStay DEF RefreshRead
<1>4. ~Issues(calls[c])
  BY DEF RefreshRead, At, Issues
<1>5. UNCHANGED <<tokens, outs, refused>> /\ raced \subseteq raced'
  BY DEF RefreshRead, server
<1>6. (\E q \in Calls : Issues(calls[q]) /\ calls[q].token = token) => token \in raced'
  BY DEF RefreshRead, Exchanging, At, Issues
<1>7. \A t \in Pairs : tokens[t].from # token
  BY <1>1 DEF ExchangeInv
<1>8. ASSUME NEW d \in Calls, Issues(calls'[d]), calls'[d].token \notin raced'
      PROVE  /\ \A t \in Pairs : tokens[t].from # calls'[d].token
             /\ \A q \in Calls : (Issues(calls'[q]) /\ calls'[q].token = calls'[d].token) => q = d
  <2>1. CASE d = c
    BY <1>2, <1>3, <1>6, <1>7, <1>8, <2>1
  <2>2. CASE d # c
    <3>1. Issues(calls[d]) /\ calls'[d] = calls[d] /\ calls[d].token \notin raced
      BY <1>3, <1>5, <1>8, <2>2
    <3>2. calls[d].token # token
      BY <1>6, <1>8, <3>1
    <3>3. /\ \A t \in Pairs : tokens[t].from # calls[d].token
          /\ \A q \in Calls : (Issues(calls[q]) /\ calls[q].token = calls[d].token) => q = d
      BY <3>1 DEF ExchangeInv
    <3> QED
      BY <1>2, <1>3, <3>1, <3>2, <3>3
  <2> QED
    BY <2>1, <2>2
<1>9. Pairs' = Pairs
  BY <1>5 DEF Pairs
<1>10. \A s, t \in Pairs :
         (tokens[s].from = tokens[t].from /\ tokens[t].from # None /\ tokens[t].from \notin raced')
           => s = t
  BY <1>5 DEF ExchangeInv
<1>11. \A r \in Pairs \union refused : Reason(r)' <=> Reason(r)
  BY <1>5, <1>9 DEF Reason
<1> HIDE DEF call, token
<1> QED
  BY <1>5, <1>8, <1>9, <1>10, <1>11 DEF ExchangeInv

LEMMA RefreshRefusedExchanges ==
  ASSUME TypeOK, VersionInv, ExchangeInv, NEW c \in Calls, RefreshRefused(c)
  PROVE  ExchangeInv'
<1>1. calls[c].token \in Pairs
  BY DEF RefreshRefused, At, HasPair, TypeOK
<1>2. Reason(calls[c].token)
  <2>1. CASE tokens[calls[c].token].revoked
    BY <1>1, <2>1 DEF ExchangeInv
  <2>2. CASE tokens[calls[c].token].version # version
    <3>1. tokens[calls[c].token] \in Rows
      BY <1>1 DEF TypeOK, Pairs
    <3>2. tokens[calls[c].token].seen \in Nat /\ outs \in Nat
      BY <3>1 DEF Rows, TypeOK
    <3> QED
      BY <1>1, <2>2, <3>2 DEF VersionInv, SeenRight, Reason
  <2> QED
    BY <2>1, <2>2 DEF RefreshRefused, Usable
<1>3. refused' = refused \union {calls[c].token} /\ refused' \subseteq Pairs
  BY <1>1 DEF RefreshRefused, TypeOK
<1>4. Put(c, Idle) /\ UNCHANGED <<tokens, outs, raced>>
  BY DEF RefreshRefused, Drop, server
<1> QED
  BY <1>2, <1>3, <1>4, IdleIssuesNothing, ExchangeOneCall

LEMMA AnsweredIssuesNothing ==
  ASSUME TypeOK, NEW c \in Calls, NEW call, ~Issues(call), Answers(c, call)
  PROVE  \A q \in Calls : Issues(calls'[q]) =>
            q # c /\ Issues(calls[q]) /\ calls'[q].token = calls[q].token
BY OthersStay, IdleIssuesNothing DEF Answers

LEMMA RefreshCommitExchanges ==
  ASSUME TypeOK, ExchangeInv, NEW c \in Calls, RefreshCommit(c)
  PROVE  ExchangeInv'
<1> DEFINE call == [calls[c] EXCEPT !.stage = "issued", !.token = Len(tokens) + 1]
           kept == Exchanged(calls[c].token)
           row == Issued(calls[c], calls[c].token)
<1>1. calls[c] \in InFlight /\ calls[c].token \in Pairs /\ Issues(calls[c])
  BY Busy, StagesAreBusy DEF RefreshCommit, At, Stages, Served, HasPair, TypeOK, Issues
<1>2. call.stage = "issued"
  BY <1>1 DEF InFlight
<1>3. ~Issues(call)
  BY <1>2 DEF Issues
<1>4. calls[c].token \in 0..Len(tokens)
  BY <1>1 DEF TypeOK, Pairs
<1>5. row.from = calls[c].token /\ ~row.revoked
  BY DEF Issued
<1>6. /\ kept \in Seq(Rows) /\ Len(kept) = Len(tokens)
      /\ kept[calls[c].token] = [tokens[calls[c].token] EXCEPT !.revoked = TRUE]
      /\ \A t \in Pairs \ {calls[c].token} : kept[t] = tokens[t]
  BY <1>1, ExchangedKeepsRows
<1>7. \A t \in Pairs : /\ kept[t].from = tokens[t].from /\ kept[t].seen = tokens[t].seen
                       /\ tokens[t].revoked => kept[t].revoked
                       /\ t = calls[c].token => kept[t].revoked
                       /\ kept[t].revoked => tokens[t].revoked \/ t = calls[c].token
  <2>1. \A t \in Pairs : tokens[t] \in Rows
    BY DEF TypeOK, Pairs
  <2>2. \A old \in Rows : /\ [old EXCEPT !.revoked = TRUE].from = old.from
                          /\ [old EXCEPT !.revoked = TRUE].seen = old.seen
                          /\ [old EXCEPT !.revoked = TRUE].revoked
    BY DEF Rows
  <2> HIDE DEF kept
  <2>3. /\ kept[calls[c].token].from = tokens[calls[c].token].from
        /\ kept[calls[c].token].seen = tokens[calls[c].token].seen
        /\ kept[calls[c].token].revoked
    BY <1>1, <1>6, <2>1, <2>2
  <2> QED
    BY <1>6, <2>3
<1>8. tokens' = Append(kept, row) /\ Answers(c, call) /\ UNCHANGED <<raced, refused, outs>>
  BY DEF RefreshCommit, history
<1> HIDE DEF kept, row, call
<1>9. \A q \in Calls : Issues(calls'[q]) =>
         q # c /\ Issues(calls[q]) /\ calls'[q].token = calls[q].token
  BY <1>3, <1>8, AnsweredIssuesNothing
<1>10. PICK from \in 0..Len(tokens) : from = calls[c].token
  BY <1>4
<1>11. Kept(kept, from) /\ row.from = from
  BY <1>5, <1>6, <1>7, <1>10 DEF Kept
<1>12. from # None => Issues(calls[c]) /\ calls[c].token = from
  BY <1>1, <1>10
<1> QED
  BY <1>5, <1>8, <1>9, <1>11, <1>12, ExchangeIssued

LEMMA LoginCommitExchanges ==
  ASSUME TypeOK, ExchangeInv, NEW c \in Calls, LoginCommit(c)
  PROVE  ExchangeInv'
<1> DEFINE call == [calls[c] EXCEPT !.stage = "issued", !.token = Len(tokens) + 1]
           row == Issued(calls[c], None)
<1>1. calls[c] \in InFlight
  BY Busy, StagesAreBusy DEF LoginCommit, At, Stages, Served
<1>2. call.stage = "issued"
  BY <1>1 DEF InFlight
<1>3. ~Issues(call)
  BY <1>2 DEF Issues
<1>4. None \in 0..Len(tokens) /\ None \notin Pairs /\ tokens \in Seq(Rows)
  BY DEF TypeOK, None, Pairs
<1>5. row.from = None /\ ~row.revoked
  BY DEF Issued
<1>6. tokens' = Append(tokens, row) /\ Answers(c, call) /\ UNCHANGED <<raced, refused, outs>>
  BY DEF LoginCommit, history
<1>7. Kept(tokens, None)
  BY <1>4 DEF Kept
<1> HIDE DEF row, call
<1> QED
  BY <1>3, <1>4, <1>5, <1>6, <1>7, AnsweredIssuesNothing, ExchangeIssued

LEMMA LogoutCommitExchanges ==
  ASSUME TypeOK, VersionInv, ExchangeInv, NEW c \in Calls, LogoutCommit(c)
  PROVE  ExchangeInv'
<1> DEFINE call == [calls[c] EXCEPT !.stage = "done"]
<1>1. calls[c] \in InFlight
  BY Busy, StagesAreBusy DEF LogoutCommit, At, Stages, Served
<1>2. call.stage = "done"
  BY <1>1 DEF InFlight
<1>3. ~Issues(call)
  BY <1>2 DEF Issues
<1>4. /\ Len(tokens') = Len(tokens) /\ DOMAIN tokens' = DOMAIN tokens
      /\ \A t \in Pairs : tokens'[t] = Revoked(tokens[t]) \/ tokens'[t] = tokens[t]
  BY RevokedRows DEF LogoutCommit
<1>5. outs \in Nat /\ outs' = outs + 1 /\ UNCHANGED <<raced, refused>> /\ refused \subseteq Pairs
  BY DEF LogoutCommit, TypeOK
<1>6. ASSUME NEW t \in Pairs
      PROVE  /\ tokens'[t].from = tokens[t].from /\ tokens'[t].seen = tokens[t].seen
             /\ tokens[t].revoked => tokens'[t].revoked
             /\ outs' > tokens[t].seen
  <2>1. tokens[t] \in Rows
    BY DEF TypeOK, Pairs
  <2>2. /\ Revoked(tokens[t]).from = tokens[t].from /\ Revoked(tokens[t]).seen = tokens[t].seen
        /\ Revoked(tokens[t]).revoked
    BY <2>1 DEF Revoked, Rows
  <2>3. tokens[t].seen <= outs /\ tokens[t].seen \in Nat
    BY <2>1 DEF VersionInv, SeenRight, Rows
  <2> QED
    BY <1>4, <1>5, <2>2, <2>3
<1>7. \A q \in Calls : Issues(calls'[q]) => Issues(calls[q]) /\ calls'[q].token = calls[q].token
  BY <1>3, AnsweredIssuesNothing DEF LogoutCommit
<1>8. outs' \in Nat /\ outs <= outs'
  BY <1>5
<1> QED
  BY <1>4, <1>5, <1>6, <1>7, <1>8, ExchangeStays

LEMMA AbandonedIssues ==
  ASSUME TypeOK, NEW c \in Calls, calls[c].stage \in Served
  PROVE  /\ Issues([calls[c] EXCEPT !.live = FALSE]) => Issues(calls[c])
         /\ [calls[c] EXCEPT !.live = FALSE].token = calls[c].token
<1>1. calls[c] \in InFlight
  BY Busy, StagesAreBusy DEF Stages
<1> QED
  BY <1>1 DEF Issues, InFlight

LEMMA NextKeepsExchanges == TypeOK /\ VersionInv /\ ExchangeInv /\ [Next]_vars => ExchangeInv'
<1> SUFFICES ASSUME TypeOK, VersionInv, ExchangeInv, [Next]_vars PROVE ExchangeInv'
  OBVIOUS
<1>0. outs \in Nat /\ refused \subseteq Pairs
  BY DEF TypeOK
<1>1. CASE UNCHANGED vars \/ Expire
  <2>1. UNCHANGED <<tokens, outs, raced, refused, calls>>
    BY <1>1 DEF vars, server, history, Expire
  <2> QED
    BY <1>0, <2>1, ExchangeStays
<1>2. ASSUME NEW c \in Calls,
             AppCall(c) \/ LoginBegin(c) \/ LogoutBegin(c) \/ LogoutElsewhere(c)
      PROVE  ExchangeInv'
  <2>1. PICK call : Begin(c, call) /\ call.stage \in {"sent", "reading"}
    <3>1. CASE LogoutElsewhere(c)
      <4>1. [Call("logout", "reading", None) EXCEPT !.version = version, !.seen = outs,
                                                    !.live = FALSE].stage = "reading"
        BY DEF Call
      <4> QED
        BY <3>1, <4>1 DEF LogoutElsewhere
    <3> QED
      BY <1>2, <3>1 DEF AppCall, LoginBegin, LogoutBegin, Call
  <2> QED
    BY <1>0, <2>1, ExchangeOneCall DEF Issues, Begin, server, history
<1>3. ASSUME NEW c \in Calls,
             Answered(c) \/ RetryUnauthorized(c) \/ LoginReceived(c)
               \/ LogoutReceived(c) \/ ServerFails(c)
      PROVE  ExchangeInv'
  <2>1. Put(c, Idle) /\ UNCHANGED <<tokens, outs, raced, refused>>
    BY <1>3 DEF Answered, RetryUnauthorized, LoginReceived, LogoutReceived, ServerFails, Drop,
                server, history
  <2> QED
    BY <1>0, <2>1, IdleIssuesNothing, ExchangeOneCall
<1>4. ASSUME NEW c \in Calls,
             Unauthorized(c) \/ RefreshReceived(c) \/ LoginRead(c) \/ LogoutRead(c) \/ LogoutSelect(c)
      PROVE  ExchangeInv'
  <2>1. calls[c] \in InFlight
    BY <1>4, Busy, StagesAreBusy
       DEF Unauthorized, RefreshReceived, LoginRead, LogoutRead, LogoutSelect, At, Stages, Served
  <2>2. UNCHANGED <<tokens, outs, raced, refused>>
    BY <1>4 DEF Unauthorized, RefreshReceived, LoginRead, LogoutRead, LogoutSelect, server, history
  <2>3. CASE Unauthorized(c)
    <3>1. [calls[c] EXCEPT !.stage = "refresh", !.token = store.refresh].stage = "refresh"
      BY <2>1 DEF InFlight
    <3>2. ~Issues([calls[c] EXCEPT !.stage = "refresh", !.token = store.refresh])
      BY <3>1 DEF Issues
    <3>3. \/ Put(c, Idle)
          \/ Put(c, [calls[c] EXCEPT !.stage = "refresh", !.token = store.refresh])
      BY <2>3 DEF Unauthorized, Drop
    <3> QED
      BY <1>0, <2>2, <3>2, <3>3, IdleIssuesNothing, ExchangeOneCall
  <2>4. CASE RefreshReceived(c)
    <3>1. [calls[c] EXCEPT !.stage = "retry"].stage = "retry"
      BY <2>1 DEF InFlight
    <3> QED
      BY <1>0, <2>2, <2>4, <3>1, ExchangeOneCall DEF Issues, RefreshReceived
  <2>5. CASE LoginRead(c) \/ LogoutRead(c)
    <3>1. calls[c].op \notin Api
      BY <2>5 DEF LoginRead, LogoutRead, At, Api
    <3>2. PICK stage \in Stages :
            Put(c, [calls[c] EXCEPT !.stage = stage, !.version = version, !.seen = outs])
      BY <2>5 DEF LoginRead, LogoutRead, Stages, Served
    <3>3. ~Issues([calls[c] EXCEPT !.stage = stage, !.version = version, !.seen = outs])
      BY <2>1, <3>1 DEF Issues, InFlight
    <3> QED
      BY <1>0, <2>2, <3>2, <3>3, ExchangeOneCall
  <2>6. CASE LogoutSelect(c)
    <3> DEFINE found == {t \in Pairs : ~tokens[t].revoked}
    <3>1. [calls[c] EXCEPT !.stage = "selected", !.rows = found].stage = "selected"
      BY <2>1 DEF InFlight
    <3> QED
      BY <1>0, <2>2, <2>6, <3>1, ExchangeOneCall DEF Issues, LogoutSelect
  <2> QED
    BY <1>4, <2>3, <2>4, <2>5, <2>6
<1>5. ASSUME NEW c \in Calls, Lost(c) PROVE ExchangeInv'
  <2>1. UNCHANGED <<tokens, outs, raced, refused>>
    BY <1>5 DEF Lost, server, history
  <2>2. CASE calls[c].stage \in Served
    <3>1. Put(c, [calls[c] EXCEPT !.live = FALSE])
      BY <1>5, <2>2 DEF Lost
    <3>2. \A q \in Calls : Issues(calls'[q]) => Issues(calls[q]) /\ calls'[q].token = calls[q].token
      <4>1. calls'[c] = [calls[c] EXCEPT !.live = FALSE]
            /\ \A q \in Calls \ {c} : calls'[q] = calls[q]
        BY <3>1, OthersStay
      <4>2. /\ Issues([calls[c] EXCEPT !.live = FALSE]) => Issues(calls[c])
            /\ [calls[c] EXCEPT !.live = FALSE].token = calls[c].token
        BY <2>2, AbandonedIssues
      <4> QED
        BY <4>1, <4>2
    <3> QED
      BY <1>0, <2>1, <3>2, ExchangeStays
  <2>3. CASE calls[c].stage \notin Served
    BY <1>0, <1>5, <2>1, <2>3, IdleIssuesNothing, ExchangeOneCall DEF Lost
  <2> QED
    BY <2>2, <2>3
<1>6. CASE Reload
  <2>1. UNCHANGED <<tokens, outs, raced, refused>>
    BY <1>6 DEF Reload, server, history
  <2>2. ~Issues(Call("me", "sent", store.access))
    BY DEF Issues, Call
  <2>3. \A q \in Calls : Issues(calls'[q]) => Issues(calls[q]) /\ calls'[q].token = calls[q].token
    BY <1>6, <2>2, AbandonedIssues, IdleIssuesNothing DEF Reload, AfterReload
  <2> QED
    BY <1>0, <2>1, <2>3, ExchangeStays
<1>7. ASSUME NEW c \in Calls, Step(c) PROVE ExchangeInv'
  BY <1>3, <1>4, <1>5, <1>7, RefreshReadExchanges, RefreshRefusedExchanges, RefreshCommitExchanges,
     LoginCommitExchanges, LogoutCommitExchanges DEF Step
<1> QED
  BY <1>1, <1>2, <1>6, <1>7 DEF Next

\* A refresh token becomes one pair, unless exchanges of it overlapped, and is
\* refused only when it has been exchanged or after a logout (refresh).
THEOREM RefreshesAreRight == Spec => []RefreshesAreAccounted
<1>1. Init => ExchangeInv
  BY IdleIssuesNothing DEF Init, ExchangeInv, Pairs
<1>2. TypeOK /\ VersionInv /\ ExchangeInv => RefreshesAreAccounted
  <2> SUFFICES ASSUME TypeOK, ExchangeInv PROVE RefreshesAreAccounted
    OBVIOUS
  <2>1. ASSUME NEW r \in Pairs \ raced
        PROVE  Cardinality({t \in Pairs : tokens[t].from = r}) <= 1
    <3> DEFINE pairs == {t \in Pairs : tokens[t].from = r}
    <3>1. r # None
      BY DEF TypeOK, Pairs, None
    <3>2. \A s, t \in pairs : s = t
      BY <2>1, <3>1 DEF ExchangeInv
    <3> HIDE DEF pairs
    <3>3. ASSUME pairs = {} PROVE Cardinality(pairs) <= 1
      BY <3>3, FS_EmptySet
    <3>4. ASSUME pairs # {} PROVE Cardinality(pairs) <= 1
      <4>1. PICK t : pairs = {t}
        BY <3>2, <3>4
      <4>2. Cardinality(pairs) = 1
        BY <4>1, FS_Singleton
      <4> QED
        BY <4>2
    <3>5. Cardinality(pairs) <= 1
      BY <3>3, <3>4
    <3> QED
      BY <3>5 DEF pairs
  <2>2. RefusedForAReason
    BY DEF ExchangeInv, RefusedForAReason, Reason
  <2> QED
    BY <2>1, <2>2 DEF RefreshesAreAccounted, ExchangedOnce
<1>3. Init => VersionInv
  BY DEF Init, VersionInv, Idle, Served, Pairs
<1> QED
  BY <1>1, <1>2, <1>3, TypeCorrect, NextKeepsVersions, NextKeepsExchanges, PTL DEF Spec

-----------------------------------------------------------------------------
(* The page *)

\* Calls the page has left are at the server, and hydration is alone.
PageInv ==
  /\ StatusTellsStore
  /\ \A c \in Calls : calls[c] # Idle =>
       /\ calls[c].live \/ calls[c].stage \in Served
       /\ (calls[c].op = "me" /\ calls[c].live) =>
            status = "loading" /\ \A q \in Calls \ {c} : calls[q] = Idle \/ ~calls[q].live

Hydrates(call) == call # Idle /\ call.op = "me" /\ call.live
Live(call) == call # Idle /\ call.live

\* A call goes on, keeps being live, or ends, and does not begin to hydrate.
LEMMA PageOneCall ==
  ASSUME TypeOK, PageInv, NEW c \in Calls, NEW call, Put(c, call), StatusTellsStore',
         call # Idle => /\ call.live \/ call.stage \in Served
                        /\ call.live => Live(calls[c]) /\ call.op = calls[c].op,
         \/ status' = status
         \/ \A q \in Calls : ~Hydrates(calls'[q])
  PROVE  PageInv'
BY OthersStay DEF PageInv, Hydrates, Live

\* A live call acts: if another hydrates it is not.
LEMMA LiveActs ==
  ASSUME TypeOK, PageInv, NEW c \in Calls, Live(calls[c]), NEW call, Put(c, call),
         ~Hydrates(call)
  PROVE  \A q \in Calls : ~Hydrates(calls'[q])
BY OthersStay DEF PageInv, Hydrates, Live

LEMMA IdleIsGone == ~Hydrates(Idle) /\ ~Live(Idle)
BY DEF Hydrates, Live

LEMMA Unserved ==
  ASSUME TypeOK, PageInv, NEW c \in Calls, calls[c].stage \in Stages \ Served
  PROVE  Live(calls[c])
BY StagesAreBusy DEF PageInv, Live

\* The session is dropped, or the client stays.
LEMMA ClientTells ==
  ASSUME PageInv,
         \/ store' = NoTokens /\ status' = "unauthenticated" /\ late' = FALSE
         \/ UNCHANGED client
  PROVE  StatusTellsStore'
BY DEF PageInv, StatusTellsStore, client, NoTokens, None

\* A live call ends, whatever becomes of the session.
LEMMA PageEnds ==
  ASSUME TypeOK, PageInv, NEW c \in Calls, Live(calls[c]), Put(c, Idle), StatusTellsStore'
  PROVE  PageInv'
BY IdleIsGone, LiveActs, PageOneCall

\* A call goes on in the hands of the server or of the page.
LEMMA PageGoesOn ==
  ASSUME TypeOK, PageInv, NEW c \in Calls, NEW call, Put(c, call), UNCHANGED client,
         call # Idle => /\ call.live \/ call.stage \in Served
                        /\ call.live => Live(calls[c]) /\ call.op = calls[c].op
  PROVE  PageInv'
BY ClientTells, PageOneCall DEF client

LEMMA BeginPages ==
  ASSUME TypeOK, PageInv, NEW c \in Calls, NEW op \in {"app", "login", "logout"}, NEW token,
         Begin(c, Call(op, "sent", token)), status # "loading"
  PROVE  PageInv'
<1>1. /\ Call(op, "sent", token).live /\ Call(op, "sent", token).op # "me"
  BY DEF Call
<1>2. calls'[c] = Call(op, "sent", token) /\ \A q \in Calls \ {c} : calls'[q] = calls[q]
  BY OthersStay DEF Begin
<1>3. UNCHANGED client
  BY DEF Begin
<1>4. StatusTellsStore'
  BY <1>3, ClientTells
<1> QED
  BY <1>1, <1>2, <1>4 DEF PageInv

LEMMA ReloadPages == ASSUME TypeOK, PageInv, Reload PROVE PageInv'
<1> DEFINE me == Call("me", "sent", store.access)
<1>1. \A q \in Calls : AfterReload(calls[q]) # Idle =>
        ~AfterReload(calls[q]).live /\ AfterReload(calls[q]).stage \in Served
  <2> SUFFICES ASSUME NEW q \in Calls, calls[q].stage \in Served
               PROVE  ~[calls[q] EXCEPT !.live = FALSE].live
                      /\ [calls[q] EXCEPT !.live = FALSE].stage \in Served
    BY DEF AfterReload
  <2>1. calls[q] \in InFlight
    BY Busy, StagesAreBusy DEF Stages
  <2> QED
    BY <2>1 DEF InFlight
<1>2. me.live /\ me.op = "me"
  BY DEF Call
<1>3. UNCHANGED <<store, late>>
  BY DEF Reload
<1>4. CASE store.access = None
  <2>1. status' = "unauthenticated" /\ \A q \in Calls : calls'[q] = AfterReload(calls[q])
    BY <1>4 DEF Reload
  <2>2. StatusTellsStore'
    BY <1>3, <1>4, <2>1 DEF PageInv, StatusTellsStore
  <2> QED
    BY <1>1, <2>1, <2>2 DEF PageInv
<1>5. CASE store.access # None
  <2>1. status' = "loading"
    BY <1>5 DEF Reload
  <2>2. PICK c \in Calls :
          calls' = [[q \in Calls |-> AfterReload(calls[q])] EXCEPT ![c] = me]
    BY <1>5 DEF Reload
  <2>3. calls'[c] = me /\ \A q \in Calls \ {c} : calls'[q] = AfterReload(calls[q])
    BY <2>2
  <2>4. StatusTellsStore'
    BY <1>3, <1>5, <2>1 DEF StatusTellsStore
  <2> HIDE DEF me
  <2> QED
    BY <1>1, <1>2, <2>1, <2>3, <2>4 DEF PageInv
<1> QED
  BY <1>4, <1>5

LEMMA NextKeepsPages == TypeOK /\ PageInv /\ [Next]_vars => PageInv'
<1> SUFFICES ASSUME TypeOK, PageInv, [Next]_vars PROVE PageInv'
  OBVIOUS
<1>1. CASE UNCHANGED vars \/ Expire
  <2>1. UNCHANGED <<client, calls>>
    BY <1>1 DEF vars, Expire
  <2> QED
    BY <2>1, ClientTells DEF PageInv, client
<1>2. ASSUME NEW c \in Calls, AppCall(c) \/ LoginBegin(c) \/ LogoutBegin(c) PROVE PageInv'
  BY <1>2, BeginPages DEF AppCall, LoginBegin, LogoutBegin
<1>3. ASSUME NEW c \in Calls, LogoutElsewhere(c) PROVE PageInv'
  <2> DEFINE call == [Call("logout", "reading", None) EXCEPT !.version = version, !.seen = outs,
                                                             !.live = FALSE]
  <2>1. call.stage \in Served /\ ~call.live
    BY DEF Call, Served
  <2> QED
    BY <1>3, <2>1, PageGoesOn DEF LogoutElsewhere, Begin
<1>4. ASSUME NEW c \in Calls,
             RetryUnauthorized(c) \/ RefreshRefused(c) \/ LogoutReceived(c)
      PROVE  PageInv'
  <2>1. Live(calls[c])
    BY <1>4, Unserved DEF RetryUnauthorized, RefreshRefused, LogoutReceived, At, Stages, Served
  <2>2. /\ store' = NoTokens /\ status' = "unauthenticated" /\ late' = FALSE
        /\ Put(c, Idle)
    BY <1>4 DEF RetryUnauthorized, RefreshRefused, LogoutReceived, Drop
  <2> QED
    BY <2>1, <2>2, ClientTells, PageEnds
<1>5. ASSUME NEW c \in Calls, Answered(c) PROVE PageInv'
  <2>1. Live(calls[c])
    BY <1>5, Unserved DEF Answered, At, Stages, Served
  <2>2. calls[c].op = "me" => status = "loading"
    BY <2>1 DEF PageInv, Live
  <2>3. StatusTellsStore'
    BY <1>5, <2>2 DEF Answered, PageInv, StatusTellsStore
  <2> QED
    BY <1>5, <2>1, <2>3, PageEnds DEF Answered
<1>6. ASSUME NEW c \in Calls, LoginReceived(c) PROVE PageInv'
  <2>1. Live(calls[c])
    BY <1>6, Unserved DEF LoginReceived, At, Stages, Served
  <2>2. calls[c].token # None
    BY <1>6 DEF LoginReceived, At, HasPair, TypeOK, Pairs, None
  <2>3. StatusTellsStore'
    BY <1>6, <2>2 DEF LoginReceived, StatusTellsStore
  <2> QED
    BY <1>6, <2>1, <2>3, PageEnds DEF LoginReceived
<1>7. ASSUME NEW c \in Calls, Unauthorized(c) PROVE PageInv'
  <2>1. Live(calls[c])
    BY <1>7, Unserved DEF Unauthorized, At, Stages, Served
  <2>2. CASE store.refresh = None
    BY <1>7, <2>1, <2>2, ClientTells, PageEnds DEF Unauthorized, Drop
  <2>3. CASE store.refresh # None
    <3>1. calls[c] \in InFlight
      BY <2>1, Busy DEF Live
    <3>2. /\ [calls[c] EXCEPT !.stage = "refresh", !.token = store.refresh].live = calls[c].live
          /\ [calls[c] EXCEPT !.stage = "refresh", !.token = store.refresh].op = calls[c].op
      BY <3>1 DEF InFlight
    <3> QED
      BY <1>7, <2>1, <2>3, <3>2, PageGoesOn DEF Unauthorized, Live
  <2> QED
    BY <2>2, <2>3
<1>8. ASSUME NEW c \in Calls, RefreshRead(c) \/ LoginRead(c) \/ LogoutRead(c) \/ LogoutSelect(c)
      PROVE  PageInv'
  <2>1. calls[c] \in InFlight /\ calls[c] # Idle
    BY <1>8, Busy, StagesAreBusy DEF RefreshRead, LoginRead, LogoutRead, LogoutSelect, At, Stages, Served
  <2>2. PICK call : /\ Put(c, call) /\ call.stage \in Served
                    /\ call.live = calls[c].live /\ call.op = calls[c].op
    <3>1. \A stage \in Served :
            /\ [calls[c] EXCEPT !.stage = stage, !.version = version, !.seen = outs].stage = stage
            /\ [calls[c] EXCEPT !.stage = stage, !.version = version, !.seen = outs].live = calls[c].live
            /\ [calls[c] EXCEPT !.stage = stage, !.version = version, !.seen = outs].op = calls[c].op
      BY <2>1 DEF InFlight
    <3>2. \A rows :
            /\ [calls[c] EXCEPT !.stage = "selected", !.rows = rows].stage = "selected"
            /\ [calls[c] EXCEPT !.stage = "selected", !.rows = rows].live = calls[c].live
            /\ [calls[c] EXCEPT !.stage = "selected", !.rows = rows].op = calls[c].op
      BY <2>1 DEF InFlight
    <3>3. "issuing" \in Served /\ "reading" \in Served /\ "selected" \in Served
      BY DEF Served
    <3>4. CASE RefreshRead(c) \/ LoginRead(c) \/ LogoutRead(c)
      <4>1. PICK stage \in Served :
              Put(c, [calls[c] EXCEPT !.stage = stage, !.version = version, !.seen = outs])
        BY <3>3, <3>4 DEF RefreshRead, LoginRead, LogoutRead
      <4>2. PICK call : call = [calls[c] EXCEPT !.stage = stage, !.version = version, !.seen = outs]
        OBVIOUS
      <4>3. call.stage \in Served /\ call.live = calls[c].live /\ call.op = calls[c].op
        BY <3>1, <4>2
      <4>4. Put(c, call)
        BY <4>1, <4>2
      <4> QED
        BY <4>3, <4>4
    <3>5. CASE LogoutSelect(c)
      BY <3>2, <3>3, <3>5 DEF LogoutSelect
    <3> QED
      BY <1>8, <3>4, <3>5
  <2>3. UNCHANGED client
    BY <1>8 DEF RefreshRead, LoginRead, LogoutRead, LogoutSelect
  <2> QED
    BY <2>1, <2>2, <2>3, PageGoesOn DEF Live
<1>9. ASSUME NEW c \in Calls, RefreshCommit(c) \/ LoginCommit(c) \/ LogoutCommit(c) PROVE PageInv'
  <2>1. calls[c] \in InFlight /\ calls[c] # Idle
    BY <1>9, Busy, StagesAreBusy DEF RefreshCommit, LoginCommit, LogoutCommit, At, Stages, Served
  <2>2. PICK call : Answers(c, call) /\ call.live = calls[c].live /\ call.op = calls[c].op
    <3>1. /\ [calls[c] EXCEPT !.stage = "issued", !.token = Len(tokens) + 1].live = calls[c].live
          /\ [calls[c] EXCEPT !.stage = "issued", !.token = Len(tokens) + 1].op = calls[c].op
          /\ [calls[c] EXCEPT !.stage = "done"].live = calls[c].live
          /\ [calls[c] EXCEPT !.stage = "done"].op = calls[c].op
      BY <2>1 DEF InFlight
    <3> QED
      BY <1>9, <3>1 DEF RefreshCommit, LoginCommit, LogoutCommit
  <2>3. UNCHANGED client
    BY <1>9 DEF RefreshCommit, LoginCommit, LogoutCommit
  <2> QED
    BY <2>1, <2>2, <2>3, PageGoesOn DEF Answers, Live
<1>10. ASSUME NEW c \in Calls, RefreshReceived(c) PROVE PageInv'
  <2>1. Live(calls[c]) /\ calls[c] \in InFlight
    BY <1>10, Busy, Unserved DEF RefreshReceived, At, Stages, Served, Live
  <2>2. calls[c].token # None
    BY <1>10 DEF RefreshReceived, At, HasPair, TypeOK, Pairs, None
  <2>3. store' \in [access : {calls[c].token}, refresh : {store.refresh}]
    BY <1>10 DEF RefreshReceived, TypeOK
  <2>4. StatusTellsStore'
    BY <1>10, <2>2, <2>3 DEF RefreshReceived, PageInv, StatusTellsStore, TypeOK
  <2>5. [calls[c] EXCEPT !.stage = "retry"].live = calls[c].live
        /\ [calls[c] EXCEPT !.stage = "retry"].op = calls[c].op
    BY <2>1 DEF InFlight
  <2> QED
    BY <1>10, <2>1, <2>4, <2>5, PageOneCall DEF RefreshReceived, Live
<1>11. ASSUME NEW c \in Calls, Lost(c) PROVE PageInv'
  <2>1. Live(calls[c]) /\ calls[c] \in InFlight
    BY <1>11, Busy DEF Lost, Live
  <2>2. StatusTellsStore'
    BY <1>11, ClientTells DEF Lost, GivesUp
  <2>3. CASE calls[c].stage \in Served
    <3> DEFINE call == [calls[c] EXCEPT !.live = FALSE]
    <3>1. ~call.live /\ call.stage \in Served
      BY <2>1, <2>3 DEF InFlight
    <3>2. Put(c, call) /\ ~Hydrates(call)
      BY <1>11, <2>3, <3>1 DEF Lost, Hydrates
    <3> HIDE DEF call
    <3>3. \A q \in Calls : ~Hydrates(calls'[q])
      BY <2>1, <3>2, LiveActs
    <3> QED
      BY <2>2, <3>1, <3>2, <3>3, PageOneCall
  <2>4. CASE calls[c].stage \notin Served
    BY <1>11, <2>1, <2>2, <2>4, PageEnds DEF Lost
  <2> QED
    BY <2>3, <2>4
<1>12. ASSUME NEW c \in Calls, ServerFails(c) PROVE PageInv'
  <2>1. calls[c] # Idle
    BY <1>12, StagesAreBusy DEF ServerFails, Stages
  <2>2. CASE calls[c].live
    <3>1. StatusTellsStore'
      BY <1>12, <2>2, ClientTells DEF ServerFails, GivesUp
    <3> QED
      BY <1>12, <2>1, <2>2, <3>1, PageEnds DEF ServerFails, Live
  <2>3. CASE ~calls[c].live
    BY <1>12, <2>3, PageGoesOn DEF ServerFails
  <2> QED
    BY <2>2, <2>3
<1>13. ASSUME NEW c \in Calls, Step(c) PROVE PageInv'
  BY <1>4, <1>5, <1>6, <1>7, <1>8, <1>9, <1>10, <1>11, <1>12, <1>13 DEF Step
<1> QED
  BY <1>1, <1>2, <1>3, <1>13, ReloadPages DEF Next

\* What the page shows is what its store holds, unless a refresh was answered
\* after the session had gone (request, SessionProvider).
THEOREM StatusTells == Spec => []StatusTellsStore
<1>1. Init => PageInv
  BY DEF Init, PageInv, StatusTellsStore, NoTokens
<1>2. PageInv => StatusTellsStore
  BY DEF PageInv
<1> QED
  BY <1>1, <1>2, TypeCorrect, NextKeepsPages, PTL DEF Spec
=============================================================================
