---------------------------- MODULE Orchestration ----------------------------
(***************************************************************************)
(* One stage of an AI employee's work: OrchestrationService.run_stage with *)
(* the providers it may use (ProviderService, FailoverService), the budget *)
(* (BudgetService.check) and the accounts (CostEngine.record); and the     *)
(* streamed variant of it, stream_stage.                                   *)
(*                                                                         *)
(* run_stage is one READ COMMITTED transaction: it reads the conversation  *)
(* and the spend (Begin), calls providers (Attempt), reads the billing     *)
(* rows (Bill) and commits with the request (Commit).  Others commit in    *)
(* between.  The response of stream_stage is iterated when the session of  *)
(* its request has been committed and closed: nothing of it is kept.       *)
(***************************************************************************)
EXTENDS Naturals, Sequences, FiniteSets

CONSTANTS
  Clients,       \* requests that run stages
  Streamers,     \* requests that stream them
  Order,         \* the providers, by (priority, name)
  Free,          \* those without a price: mock and the local ones
  Sure,          \* those that always answer: mock
  Limit,         \* daily_cost_limit and monthly_cost_limit
  HardStop,      \* hard_stop of the budget
  MaxCharge,     \* what one call can cost
  BasePrompt, Memory,   \* messages of a prompt: its own, and at most so many earlier ones
  MaxAttempts,   \* MAX_ATTEMPTS
  MaxRuns, MaxPeriods,   \* bounds
  MaxEvents      \* streams, cancellations, settings, midnights and events, together

Providers == {Order[i] : i \in DOMAIN Order}
Kinds == {"day", "month"}
NoProvider == "none"
NoRow == 0
NewThread == 0
Idle == [op |-> "idle"]

ASSUME SizesAssumption ==
  /\ IsFiniteSet(Clients) /\ Clients \cap Streamers = {}
  /\ Limit \in [Kinds -> Nat] /\ HardStop \in BOOLEAN
  /\ {MaxCharge, BasePrompt, Memory, MaxAttempts, MaxRuns, MaxPeriods,
       MaxEvents} \subseteq Nat
  /\ MaxPeriods >= 1 /\ MaxAttempts >= 1 /\ BasePrompt >= 1

\* There is a provider, and each stands in the order once.
ASSUME OrderAssumption ==
  /\ Order \in Seq(Providers) /\ Order # <<>>
  /\ \A i, j \in DOMAIN Order : Order[i] = Order[j] => i = j

VARIABLES
  enabled, default, mapped,   \* provider settings; mapped: the one of the employee's role
  today,         \* the running day and month
  spent,         \* sum of the ProviderUsage rows of a period
  bills,         \* ProviderBilling rows, by kind of period
  runs,          \* ExecutionRun rows with their messages and retry history
  threads,       \* conversations of the employee
  tx,            \* transactions in flight
  marks,         \* _CANCELLED
  streamed,      \* history: streams that have ended, and how
  events,        \* counter
  overlap        \* history: the most runs that have been in flight at once

settings == <<enabled, default, mapped>>
accounts == <<spent, bills>>
history == <<runs, threads>>
vars == <<settings, today, accounts, history, tx, marks, streamed, events, overlap>>

Init ==
  /\ enabled = Providers /\ default = Order[1] /\ mapped = NoProvider
  /\ today = [k \in Kinds |-> 1]
  /\ spent = [k \in Kinds |-> [i \in 1..MaxPeriods |-> 0]]
  /\ bills = [k \in Kinds |-> <<>>]
  /\ runs = <<>> /\ threads = 0
  /\ tx = [p \in Clients \union Streamers |-> Idle]
  /\ marks = {} /\ streamed = {} /\ events = 0 /\ overlap = 0

-----------------------------------------------------------------------------
(* What a stage reads *)

\* provider_for_employee: the provider of the role if it is enabled, else the
\* default one, enabled or not.
ProviderForEmployee == IF mapped \in enabled THEN mapped ELSE default

\* Mutant: an explicit provider fails over like any other.
ChainAlways(primary, explicit) ==
  <<primary>> \o SelectSeq(Order, LAMBDA q : q # primary /\ q \in enabled)

\* The providers to try: an explicit one only itself, otherwise the others
\* that are enabled, in their order, after it.
Chain(primary, explicit) ==
  LET upto[n \in 0..Len(Order)] ==
        IF n = 0 THEN <<primary>>
        ELSE IF Order[n] \in enabled \ {primary} THEN Append(upto[n - 1], Order[n])
        ELSE upto[n - 1]
  IN  IF explicit THEN <<primary>> ELSE upto[Len(Order)]

\* The messages of a conversation, by the run they belong to.
MessagesOf(thread) ==
  UNION {{<<i, n>> : n \in runs[i].first..runs[i].last} :
           i \in {j \in DOMAIN runs : runs[j].thread = thread}}

Recalled(thread) ==
  IF Cardinality(MessagesOf(thread)) < Memory THEN Cardinality(MessagesOf(thread)) ELSE Memory

\* The size of a prompt: the system messages of the context, the task, and the
\* last messages of the conversation.
Prompt(thread) == BasePrompt + Recalled(thread)

\* _next_seq: one more than the highest of the thread, from 0.
NextSeq(thread) ==
  CHOOSE n \in {0} \union {m[2] + 1 : m \in MessagesOf(thread)} :
    \A m \in MessagesOf(thread) : m[2] < n

\* Mutant: with a hard stop, only the monthly limit refuses.
MonthOnly(estimate) ==
  HardStop => spent["month"][today["month"]] + estimate <= Limit["month"]

\* BudgetService.check.
Allowed(estimate) ==
  HardStop => \A k \in Kinds : spent[k][today[k]] + estimate <= Limit[k]

\* What a call can be charged.
Charges(provider) == IF provider \in Free THEN {0} ELSE 1..MaxCharge

\* A conversation of the employee that is there, or a new one.
ThreadFor == IF threads = 0 THEN {NewThread} ELSE 1..threads

InFlight == {p \in Clients : tx[p] # Idle}

\* The run as it is when the budget has been asked.
Opened(explicit, t, primary, estimate) ==
  [op |-> "run", stage |-> IF Allowed(estimate) THEN "call" ELSE "end",
   explicit |-> explicit, thread |-> t, saw |-> Len(runs),
   first |-> NextSeq(t), prompt |-> Prompt(t),
   primary |-> primary, chain |-> Chain(primary, explicit), at |-> 1, tries |-> <<>>,
   charge |-> 0, period |-> today, rows |-> [k \in Kinds |-> NoRow],
   base |-> [k \in Kinds |-> 0]]

\* run_stage up to the budget gate.  A refused run calls no provider.
Begin(p) ==
  /\ tx[p] = Idle
  /\ Len(runs) + Cardinality(InFlight) < MaxRuns
  /\ \E explicit \in BOOLEAN, t \in ThreadFor :
       \E primary \in IF explicit THEN Providers ELSE {ProviderForEmployee} :
         \E estimate \in {0} \union Charges(primary) :
           tx' = [tx EXCEPT ![p] = Opened(explicit, t, primary, estimate)]
  /\ overlap' = IF Cardinality(InFlight) < overlap THEN overlap ELSE Cardinality(InFlight) + 1
  /\ UNCHANGED <<settings, today, accounts, history, marks, streamed, events>>

-----------------------------------------------------------------------------
(* Providers, retries and failover *)

\* 429 is a rate limit; any other error of HTTP or of the network is an error.
HttpFailures == {"limited", "error"}

\* How a call can fail.  Without a key it is an error; mock has no server.
FailuresOf(provider) == IF provider \in Sure THEN {} ELSE HttpFailures

TriesOf(t) == {i \in DOMAIN t.tries : t.tries[i].provider = t.chain[t.at]}

\* Mutant: the last attempt of a provider that limits starts it anew.
OneMoreAnew(t, outcome) ==
  LET last == Cardinality(TriesOf(t)) + 1 = MaxAttempts IN
  IF outcome = "limited"
    THEN [t EXCEPT !.tries = IF last THEN SubSeq(t.tries, 1, Len(t.tries) - Cardinality(TriesOf(t)))
                             ELSE Append(t.tries, [provider |-> t.chain[t.at], outcome |-> outcome])]
    ELSE [t EXCEPT !.at = t.at + 1,
                   !.tries = Append(t.tries, [provider |-> t.chain[t.at], outcome |-> outcome])]

\* A rate limit tries the provider again, any other error and the last attempt
\* go on to the next (_execute_with_retry and the loop over the chain).
OneMore(t, outcome) ==
  LET again == outcome = "limited" /\ Cardinality(TriesOf(t)) + 1 < MaxAttempts IN
  [t EXCEPT !.at = IF again THEN t.at ELSE t.at + 1,
            !.tries = Append(t.tries, [provider |-> t.chain[t.at], outcome |-> outcome])]

Fail(p, outcome) ==
  LET after == OneMore(tx[p], outcome) IN
  /\ tx[p] # Idle /\ tx[p].op = "run" /\ tx[p].stage = "call"
  /\ outcome \in FailuresOf(tx[p].chain[tx[p].at])
  /\ tx' = [tx EXCEPT ![p] =
              [after EXCEPT !.stage = IF after.at > Len(after.chain) THEN "end" ELSE "call"]]
  /\ UNCHANGED <<settings, today, accounts, history, marks, streamed, events, overlap>>

Succeed(p) ==
  LET t == tx[p] IN
  /\ t # Idle /\ t.op = "run" /\ t.stage = "call"
  /\ \E charge \in Charges(t.chain[t.at]) :
       tx' = [tx EXCEPT ![p] =
                [t EXCEPT !.stage = "bill", !.charge = charge,
                          !.tries = Append(t.tries, [provider |-> t.chain[t.at],
                                                     outcome |-> "succeeded"])]]
  /\ UNCHANGED <<settings, today, accounts, history, marks, streamed, events, overlap>>

-----------------------------------------------------------------------------
(* Accounts *)

\* Rows of the provider and the running period; two runs may have made one each.
BillingRows(k, provider) ==
  {i \in DOMAIN bills[k] : bills[k][i].provider = provider /\ bills[k][i].period = today[k]}

\* CostEngine.record: the usage of today, and per period what a billing row holds.
Bill(p) ==
  LET t == tx[p]
      provider == t.chain[t.at]
      found == [k \in Kinds |-> IF BillingRows(k, provider) = {} THEN {NoRow}
                                ELSE BillingRows(k, provider)] IN
  /\ t # Idle /\ t.op = "run" /\ t.stage = "bill"
  /\ \E d \in found["day"], m \in found["month"] :
       LET row == [k \in Kinds |-> IF k = "day" THEN d ELSE m] IN
       tx' = [tx EXCEPT ![p] =
                [t EXCEPT !.stage = "commit", !.period = today, !.rows = row,
                          !.base = [k \in Kinds |-> IF row[k] = NoRow THEN 0
                                                    ELSE bills[k][row[k]].cost]]]
  /\ UNCHANGED <<settings, today, accounts, history, marks, streamed, events, overlap>>

\* Mutant: a row that is found is added to once more for the other period.
RolledTwice(t) ==
  [k \in Kinds |->
     LET row == [provider |-> t.chain[t.at], period |-> t.period[k],
                 cost |-> t.base[k] + t.charge] IN
     IF t.rows[k] = NoRow THEN Append(bills[k], row)
     ELSE [bills[k] EXCEPT ![t.rows[k]] = [row EXCEPT !.cost = row.cost + t.charge]]]

\* _roll: the value that was read, plus the charge, is written.
Rolled(t) ==
  [k \in Kinds |->
     LET row == [provider |-> t.chain[t.at], period |-> t.period[k],
                 cost |-> t.base[k] + t.charge] IN
     IF t.rows[k] = NoRow THEN Append(bills[k], row)
     ELSE [bills[k] EXCEPT ![t.rows[k]] = row]]

\* Mutant: a run that failed over is recorded under the primary.
RowUnderPrimary(p, t, status) ==
  [by |-> p, thread |-> IF t.thread = NewThread THEN threads + 1 ELSE t.thread,
   first |-> t.first, status |-> status, provider |-> t.primary,
   last |-> t.first + t.prompt - (IF status = "completed" THEN 0 ELSE 1),
   explicit |-> t.explicit, chain |-> t.chain, tries |-> t.tries, saw |-> t.saw]

\* Mutant: a failed run has no provider.
RowWithoutProvider(p, t, status) ==
  [by |-> p, thread |-> IF t.thread = NewThread THEN threads + 1 ELSE t.thread,
   first |-> t.first, status |-> status,
   provider |-> IF status = "completed" THEN t.chain[t.at] ELSE NoProvider,
   last |-> t.first + t.prompt - (IF status = "completed" THEN 0 ELSE 1),
   explicit |-> t.explicit, chain |-> t.chain, tries |-> t.tries, saw |-> t.saw]

\* The run with its prompt, and its answer if there is one.
RowOf(p, t, status) ==
  [by |-> p, thread |-> IF t.thread = NewThread THEN threads + 1 ELSE t.thread,
   first |-> t.first, status |-> status,
   provider |-> IF status = "completed" THEN t.chain[t.at] ELSE t.primary,
   last |-> t.first + t.prompt - (IF status = "completed" THEN 0 ELSE 1),
   explicit |-> t.explicit, chain |-> t.chain, tries |-> t.tries, saw |-> t.saw]

Kept(p, status) ==
  /\ runs' = Append(runs, RowOf(p, tx[p], status))
  /\ threads' = IF tx[p].thread = NewThread THEN threads + 1 ELSE threads
  /\ tx' = [tx EXCEPT ![p] = Idle]
  /\ UNCHANGED <<settings, today, marks, streamed, events, overlap>>

\* The end of the request: everything is committed together.
Commit(p) ==
  LET t == tx[p] IN
  /\ t # Idle /\ t.op = "run" /\ t.stage = "commit"
  /\ spent' = [k \in Kinds |-> [spent[k] EXCEPT ![t.period[k]] = @ + t.charge]]
  /\ bills' = Rolled(t)
  /\ Kept(p, "completed")

CommitFailed(p) ==
  /\ tx[p] # Idle /\ tx[p].op = "run" /\ tx[p].stage = "end"
  /\ UNCHANGED accounts
  /\ Kept(p, "failed")

-----------------------------------------------------------------------------
(* Streams, settings, time *)

Event == events < MaxEvents /\ events' = events + 1

\* stream_stage up to the event "start": no budget gate, and one provider.
StreamBegin(p) ==
  /\ tx[p] = Idle /\ Event
  /\ tx' = [tx EXCEPT ![p] = [op |-> "stream", stage |-> "tokens"]]
  /\ UNCHANGED <<settings, today, accounts, history, marks, streamed, overlap>>

\* The next token finds the mark of cancel_run, or the last one has been sent,
\* or the provider fails.  What the generator has flushed is not committed.
StreamEnd(p) ==
  /\ tx[p] # Idle /\ tx[p].op = "stream"
  /\ \E status \in IF p \in marks THEN {"cancelled", "completed", "failed"}
                   ELSE {"completed", "failed"} :
       /\ streamed' = streamed \union {[by |-> p, status |-> status]}
       /\ marks' = IF status = "cancelled" THEN marks \ {p} ELSE marks
  /\ tx' = [tx EXCEPT ![p] = Idle]
  /\ UNCHANGED <<settings, today, accounts, history, events, overlap>>

\* cancel_run, for a run that streams or has ended.
CancelRun(p) ==
  /\ tx[p] # Idle \/ p \in {s.by : s \in streamed}
  /\ Event
  /\ marks' = marks \union {p}
  /\ UNCHANGED <<settings, today, accounts, history, tx, streamed, overlap>>

SetEnabled(q) ==
  /\ enabled' = IF q \in enabled THEN enabled \ {q} ELSE enabled \union {q}
  /\ UNCHANGED <<default, mapped>>

SetDefault(q) ==
  /\ q \in enabled
  /\ default' = q
  /\ UNCHANGED <<enabled, mapped>>

MapRole(q) ==
  /\ mapped' = q
  /\ UNCHANGED <<enabled, default>>

Settings ==
  /\ Event
  /\ \E q \in Providers : SetEnabled(q) \/ SetDefault(q) \/ MapRole(q)
  /\ UNCHANGED <<today, accounts, history, tx, marks, streamed, overlap>>

\* Midnight, or the end of a month: a new period begins.
NewPeriod(month) ==
  /\ today["day"] < MaxPeriods /\ (month => today["month"] < MaxPeriods)
  /\ today' = [k \in Kinds |-> IF k = "day" \/ month THEN today[k] + 1 ELSE today[k]]
  /\ Event
  /\ UNCHANGED <<settings, accounts, history, tx, marks, streamed, overlap>>

\* The backend dies: transactions and marks are gone.
Crash ==
  /\ Event
  /\ tx' = [p \in DOMAIN tx |-> Idle] /\ marks' = {}
  /\ UNCHANGED <<settings, today, accounts, history, streamed, overlap>>

Stage(p) == Begin(p) \/ Succeed(p) \/ Bill(p) \/ Commit(p) \/ CommitFailed(p)
              \/ \E outcome \in HttpFailures : Fail(p, outcome)
Next ==
  \/ \E p \in Clients : Stage(p)
  \/ \E p \in Streamers : StreamBegin(p) \/ StreamEnd(p) \/ CancelRun(p)
  \/ Settings \/ Crash \/ \E month \in BOOLEAN : NewPeriod(month)

\* A request that has begun goes on: providers answer, or their timeout does
\* (provider_http_timeout).  Nobody has to begin one.
Fairness ==
  \A p \in Clients :
    WF_vars(\/ Succeed(p) \/ Bill(p) \/ Commit(p) \/ CommitFailed(p)
            \/ \E outcome \in HttpFailures : Fail(p, outcome))

Spec == Init /\ [][Next]_vars
FairSpec == Spec /\ Fairness

-----------------------------------------------------------------------------
(* Properties *)

Tries == Seq([provider : Providers, outcome : {"limited", "error", "succeeded"}])
Numbers == [Kinds -> Nat]

\* Every variable has its type.
TypeOK ==
  /\ enabled \subseteq Providers /\ default \in Providers
  /\ mapped \in Providers \union {NoProvider}
  /\ today \in [Kinds -> 1..MaxPeriods]
  /\ spent \in [Kinds -> [1..MaxPeriods -> Nat]]
  /\ bills \in [Kinds -> Seq([provider : Providers, period : 1..MaxPeriods, cost : Nat])]
  /\ runs \in Seq([by : Clients, thread : 1..threads, first : Nat, last : Nat,
                   status : {"completed", "failed"}, provider : Providers,
                   explicit : BOOLEAN, chain : Seq(Providers), tries : Tries, saw : Nat])
  /\ {threads, events, overlap} \subseteq Nat
  /\ \A p \in Clients : tx[p] # Idle =>
       tx[p] \in [op : {"run"}, stage : {"call", "bill", "commit", "end"}, explicit : BOOLEAN,
                 thread : Nat, saw : Nat, first : Nat, prompt : Nat, primary : Providers,
                 chain : Seq(Providers), at : Nat, tries : Tries, charge : 0..MaxCharge,
                 period : [Kinds -> 1..MaxPeriods], rows : Numbers, base : Numbers]
  /\ \A p \in Streamers : tx[p] \in {Idle, [op |-> "stream", stage |-> "tokens"]}
  /\ marks \subseteq Streamers
  /\ streamed \subseteq [by : Streamers, status : {"completed", "failed", "cancelled"}]

\* Runs past the budget gate whose charge may still fall to a period.
MayCharge(k, i) ==
  {p \in Clients : /\ tx[p] # Idle
                   /\ \/ tx[p].stage \in {"call", "bill"} /\ today[k] = i
                      \/ tx[p].stage = "commit" /\ tx[p].period[k] = i}

\* A budget with a hard stop is overspent by at most one call for each of the
\* runs that have been in flight at once, in every day and month, whatever
\* fails over and across midnight (check, CostEngine.record).
OverspendBounded ==
  HardStop => \A k \in Kinds : \A i \in 1..MaxPeriods :
    spent[k][i] <= Limit[k] + overlap * MaxCharge

\* The sum of a sequence of costs.
Total(costs) ==
  LET upto[n \in 0..Len(costs)] == IF n = 0 THEN 0 ELSE upto[n - 1] + costs[n]
  IN  upto[Len(costs)]

\* Of amounts that stand on billing rows, the part that is for period i.
Part(rows, amounts, i) ==
  [n \in 1..Len(rows) |-> IF rows[n].period = i THEN amounts[n] ELSE 0]

Billed(k, i) == Total(Part(bills[k], [n \in DOMAIN bills[k] |-> bills[k][n].cost], i))

\* Billing never claims more than was used: an increment two runs overlap in
\* may be lost, none is counted twice (_roll).
BilledAtMostUsed ==
  \A k \in Kinds : \A i \in 1..MaxPeriods : Billed(k, i) <= spent[k][i]

\* The tries of provider q in row r.
TriesWith(r, q) == {a \in DOMAIN r.tries : r.tries[a].provider = q}

\* The retry history accounts for the run: a completed one was answered by
\* the provider it names, at its last try; a failed one that was let through
\* has exhausted every provider of its chain, and no provider is tried again
\* but after a rate limit; an explicit provider is never replaced
\* (_execute_with_retry, FailoverService.chain, run_stage).
RunTellsItsAttempts ==
  \A i \in DOMAIN runs :
    LET r == runs[i]
        n == Len(r.tries) IN
    /\ r.status = "completed" =>
         n > 0 /\ r.tries[n] = [provider |-> r.provider, outcome |-> "succeeded"]
    /\ \A a \in 1..n : r.tries[a].outcome = "succeeded" => a = n /\ r.status = "completed"
    /\ \A a, b \in 1..n : (a < b /\ r.tries[a].provider = r.tries[b].provider) =>
         r.tries[a].outcome = "limited"
    /\ (r.status = "failed" /\ n > 0) => \A c \in DOMAIN r.chain :
         \/ \E a \in TriesWith(r, r.chain[c]) : r.tries[a].outcome = "error"
         \/ Cardinality(TriesWith(r, r.chain[c])) = MaxAttempts
    /\ r.explicit => \A a, b \in 1..n : r.tries[a].provider = r.tries[b].provider

\* A run that began when another of its thread was committed follows it in the
\* conversation, prompt and answer (_next_seq).  Two that overlap may share
\* numbers.
ConversationOrdered ==
  \A i, j \in DOMAIN runs :
    (i <= runs[j].saw /\ runs[i].thread = runs[j].thread) => runs[i].last < runs[j].first

\* The rows of the runs tell what was tried and said, and in which order.
RunsAreRecorded == RunTellsItsAttempts /\ ConversationOrdered

\* Every run that has begun ends, however providers answer
\* (_execute_with_retry, the loop over the chain).
EveryRunEnds == \A p \in Clients : tx[p] # Idle ~> tx[p] = Idle
=============================================================================
