---------------------------- MODULE ProviderGate ----------------------------
(***************************************************************************)
(* The gate in front of the video site.  Every process that shares the     *)
(* database reserves its requests on the rows of provider_state: a daily   *)
(* budget and an interval for all of them, and per scope a cooldown after  *)
(* a failure and, from then on, a single probe at a time.  A call is a     *)
(* series of look-ups in the cache and of requests; between a request, its *)
(* answer, the record of its outcome and the cached value anything can     *)
(* happen, and a caller can go away at any point.                          *)
(*                                                                         *)
(* A cooldown lasts five minutes or longer, a lease ten seconds longer     *)
(* than the timeout of a request: time passes for one of them only when    *)
(* the requests it outlasts are over.  That assumes a timeout below five   *)
(* minutes; the configuration's is fifteen seconds.                        *)
(***************************************************************************)
EXTENDS Naturals, FiniteSets, Sequences

CONSTANTS Clients,     \* callers, in any process
          Calls,       \* which calls they make: "search", "detail"
          Lasting,     \* the keys whose cached value is there and stays
          MaxPerDay,   \* bilibili.max_requests_per_day
          MaxFailures, \* bound on the failures counted
          MaxDays      \* bound on the days that begin

ASSUME GateAssumption ==
  /\ Calls \subseteq {"search", "detail"} /\ IsFiniteSet(Clients)
  /\ MaxPerDay \in Nat /\ MaxFailures \in Nat \ {0} /\ MaxDays \in Nat

VARIABLES
  row,     \* provider_state, by scope
  budget,  \* daily_count, and whether the interval since the last request is running
  cached,  \* the keys with a value in provider_cache that has not expired
  client   \* what each caller is doing

vars == <<row, budget, cached, client>>

Scopes == {"search", "detail", "device", "session", "followers"}
Gates  == Scopes \cup {"bilibili"}
Keys   == Scopes \ {"search"}

ASSUME LastingAssumption == Lasting \subseteq Keys

Row    == [cooling : BOOLEAN, failures : 0 .. MaxFailures, probe : BOOLEAN]
Budget == [count : 0 .. MaxPerDay, gap : BOOLEAN, day : 0 .. MaxDays]

\* What a call still has to do: look a key up, ask the gate or request a scope.
Look(k)  == <<"look", k>>
Guard(s) == <<"guard", s>>
Fetch(s) == <<"fetch", s>>

Plan(call) ==
  IF call = "search" THEN <<Fetch("search")>>
  ELSE <<Look("detail"), Guard("detail"), Look("device"), Look("session"), Fetch("detail"),
         Look("followers")>>

\* The signed search, when the first one was answered by something else.
SignedSearch == <<Look("session"), Fetch("search")>>

\* What is to be done for a key that is not cached.
OnMiss(k) ==
  IF k = "detail" THEN <<>>
  ELSE IF k = "session" THEN <<Look("device"), Fetch("session")>> ELSE <<Fetch(k)>>

\* late: its scope has failed since the request was sent.  signed: it is a signed search.
IdleClient == [pc |-> "idle", plan |-> <<>>, late |-> FALSE, signed |-> FALSE]
Step == { Look(k) : k \in Keys } \cup { Guard("detail") } \cup { Fetch(s) : s \in Scopes }
Client == [pc : {"idle", "go", "flight", "fail", "clear", "store"}, plan : Seq(Step),
           late : BOOLEAN, signed : BOOLEAN]

\* The rows, the budget, the cache and what every caller still has to do.
TypeOK ==
  /\ row \in [Gates -> Row] /\ budget \in Budget /\ cached \subseteq Keys
  /\ client \in [Clients -> Client]

\* A cooldown of the whole site is one from before the scopes were told apart.
Init ==
  /\ \E old \in BOOLEAN :
       row = [g \in Gates |-> [cooling |-> old /\ g = "bilibili", failures |-> 0, probe |-> FALSE]]
  /\ budget = [count |-> 0, gap |-> FALSE, day |-> 0]
  /\ cached = Lasting
  /\ client = [c \in Clients |-> IdleClient]

At(c, pc)  == client[c].pc = pc
Next1(c)   == Head(client[c].plan)
Scope(c)   == Next1(c)[2]
Doing(c, what) == At(c, "go") /\ client[c].plan # <<>> /\ Next1(c)[1] = what
InFlight(s) == { c \in Clients : At(c, "flight") /\ Scope(c) = s }

Turns(c, pc)  == client' = [client EXCEPT ![c].pc = pc]
Goes(c, plan) == client' = [client EXCEPT ![c].pc = "go", ![c].plan = plan, ![c].late = FALSE]
Ends(c)       == client' = [client EXCEPT ![c] = IdleClient]
Paused(s)     == row["bilibili"].cooling \/ row[s].cooling

\* The call ends with an error; the number of followers is done without.
Refused(c) == IF Scope(c) = "followers" THEN Goes(c, Tail(client[c].plan)) ELSE Ends(c)

-----------------------------------------------------------------------------
(* A call.                                                                 *)

Start(c, call) ==
  /\ At(c, "idle")
  /\ Goes(c, Plan(call))
  /\ UNCHANGED <<row, budget, cached>>

Finish(c) ==
  /\ At(c, "go") /\ client[c].plan = <<>>
  /\ Ends(c)
  /\ UNCHANGED <<row, budget, cached>>

\* cached_provider_value.  A cached video needs only the number of followers.
LookUp(c) ==
  /\ Doing(c, "look")
  /\ LET rest == Tail(client[c].plan) IN
     IF Scope(c) \notin cached THEN Goes(c, OnMiss(Scope(c)) \o rest)
     ELSE IF Scope(c) = "detail" THEN Goes(c, <<Look("followers")>>)
     ELSE Goes(c, rest)
  /\ UNCHANGED <<row, budget, cached>>

\* guard
AskGate(c) ==
  /\ Doing(c, "guard")
  /\ IF Paused(Scope(c)) THEN Ends(c) ELSE Goes(c, Tail(client[c].plan))
  /\ UNCHANGED <<row, budget, cached>>

\* Mutant: one request more is sent.
SpentLate == budget.count > MaxPerDay

Spent == budget.count >= MaxPerDay

\* A request that the gate refuses: the scope is cooling or the budget spent.
Refuse(c) ==
  /\ Doing(c, "fetch")
  /\ Paused(Scope(c)) \/ Spent
  /\ Refused(c)
  /\ UNCHANGED <<row, budget, cached>>

\* Mutant: a scope that failed is not probed but used.
FreeAlways(s) == TRUE

\* After a failure the request needs the lease of the probe.
Free(s) == row[s].failures = 0 \/ ~row[s].probe

\* reserve_scoped_provider_request, ready; until then the caller sleeps.
Reserve(c) ==
  /\ Doing(c, "fetch") /\ ~Paused(Scope(c))
  /\ ~Spent /\ ~budget.gap /\ Free(Scope(c))
  /\ budget' = [budget EXCEPT !.count = @ + 1, !.gap = TRUE]
  /\ row' = [row EXCEPT ![Scope(c)].probe = @ \/ row[Scope(c)].failures > 0]
  /\ Turns(c, "flight")
  /\ UNCHANGED cached

\* The answer is an error, a refusal or not usable for what it was asked for.
AnswerBad(c)  == At(c, "flight") /\ Turns(c, "fail") /\ UNCHANGED <<row, budget, cached>>
AnswerGood(c) == At(c, "flight") /\ Turns(c, "clear") /\ UNCHANGED <<row, budget, cached>>

\* The answer says no, or has a status that counts as no failure of the scope; a
\* search may be tried again, signed.
AnswerNo(c) ==
  /\ At(c, "flight")
  /\ Refused(c)
  /\ UNCHANGED <<row, budget, cached>>

AnswerOther(c) ==
  /\ At(c, "flight") /\ Scope(c) = "search" /\ ~client[c].signed
  /\ client' = [client EXCEPT ![c].pc = "go", ![c].plan = SignedSearch, ![c].signed = TRUE,
                              ![c].late = FALSE]
  /\ UNCHANGED <<row, budget, cached>>

Least(m, n) == IF m < n THEN m ELSE n

\* record_scoped_provider_failure, which leaves a running cooldown alone.
RecordFailure(c) ==
  LET s    == Scope(c)
      rest == IF s = "followers" THEN [client[c] EXCEPT !.pc = "go", !.plan = Tail(@), !.late = FALSE]
              ELSE IdleClient
  IN
  /\ At(c, "fail")
  /\ row' = IF row[s].cooling THEN row
            ELSE [row EXCEPT ![s] = [cooling |-> TRUE, probe |-> FALSE,
                                     failures |-> Least(row[s].failures + 1, MaxFailures)]]
  /\ client' = [d \in Clients |->
       IF d = c THEN rest
       ELSE IF client[d].pc \in {"flight", "clear"} /\ Scope(d) = s
         THEN [client[d] EXCEPT !.late = ~row[s].cooling \/ @] ELSE client[d]]
  /\ UNCHANGED <<budget, cached>>

\* Mutant: any success opens the gate.
ClearableAlways(s) == TRUE

Clearable(s) == ~row[s].cooling

\* clear_scoped_provider_failure
RecordSuccess(c) ==
  LET s == Scope(c) IN
  /\ At(c, "clear")
  /\ row' = IF Clearable(s) THEN [row EXCEPT ![s] = [cooling |-> FALSE, failures |-> 0, probe |-> FALSE]]
            ELSE row
  /\ Turns(c, "store")
  /\ UNCHANGED <<budget, cached>>

\* cache_provider_value, after which a video still needs the number of followers.
Store(c) ==
  /\ At(c, "store")
  /\ cached' = cached \cup ({Scope(c)} \cap Keys)
  /\ Goes(c, Tail(client[c].plan))
  /\ UNCHANGED <<row, budget>>

\* The process is killed, the web request times out, or the job is given up.
GoAway(c) ==
  /\ ~At(c, "idle")
  /\ Ends(c)
  /\ UNCHANGED <<row, budget, cached>>

CallStep(c) ==
  \/ Finish(c) \/ LookUp(c) \/ AskGate(c) \/ Refuse(c) \/ Reserve(c)
  \/ AnswerGood(c) \/ AnswerBad(c) \/ AnswerNo(c) \/ AnswerOther(c)
  \/ RecordFailure(c) \/ RecordSuccess(c) \/ Store(c)

-----------------------------------------------------------------------------
(* Time.                                                                   *)

\* A request that was under way when the scope failed has timed out long before.
CooldownEnds(g) ==
  /\ row[g].cooling
  /\ \A c \in Clients : client[c].late => Scope(c) # g
  /\ row' = [row EXCEPT ![g].cooling = FALSE]
  /\ UNCHANGED <<budget, cached, client>>

\* Mutant: the lease lasts until the probe is answered.
LapsesNever(s) == FALSE

Lapses(s) == row[s].probe /\ InFlight(s) = {}

LeaseEnds(s) ==
  /\ Lapses(s)
  /\ row' = [row EXCEPT ![s].probe = FALSE]
  /\ UNCHANGED <<budget, cached, client>>

GapEnds ==
  /\ budget.gap /\ budget' = [budget EXCEPT !.gap = FALSE]
  /\ UNCHANGED <<row, cached, client>>

NewDay ==
  /\ budget.day < MaxDays
  /\ budget' = [budget EXCEPT !.count = 0, !.day = @ + 1]
  /\ UNCHANGED <<row, cached, client>>

Expire(k) ==
  /\ k \in cached \ Lasting
  /\ cached' = cached \ {k}
  /\ UNCHANGED <<row, budget, client>>

TimeStep ==
  \/ \E g \in Gates : CooldownEnds(g) \/ LeaseEnds(g)
  \/ GapEnds \/ NewDay
  \/ \E k \in Keys : Expire(k)

Next ==
  \/ TimeStep
  \/ \E c \in Clients : CallStep(c) \/ GoAway(c) \/ \E call \in Calls : Start(c, call)

Spec == Init /\ [][Next]_vars

\* A caller goes on, an answer or the timeout comes, and time passes.
FairSpec ==
  /\ Spec
  /\ WF_vars(GapEnds)
  /\ \A g \in Gates : WF_vars(LeaseEnds(g))
  /\ \A c \in Clients : WF_vars(CallStep(c))

-----------------------------------------------------------------------------
(* Properties.                                                             *)

\* After a cooldown, whoever asks and in whatever process, only one request of the
\* scope is under way until one has succeeded (reserve_scoped_provider_request).
OneProbe ==
  \A s \in Scopes : row[s].failures > 0 /\ ~row[s].cooling => Cardinality(InFlight(s)) <= 1

\* The failures of a scope are only forgotten for a request that was sent after
\* the last of them: not for one that was under way when another one failed
\* (the comment of clear_scoped_provider_failure).
LateSuccessIsIgnored ==
  [][\A s \in Scopes : row[s].failures > 0 /\ row'[s].failures = 0 =>
       \E c \in Clients : At(c, "clear") /\ Scope(c) = s /\ ~client[c].late /\ client'[c] # client[c]]_vars

\* No call waits for ever: neither for the lease of a probe whose caller is gone,
\* nor, on one day, behind the requests of others, which the budget bounds.
CallEnds == \A c \in Clients : []<>At(c, "idle")

=============================================================================
