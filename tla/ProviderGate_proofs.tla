------------------------ MODULE ProviderGate_proofs ------------------------
(***************************************************************************)
(* For every number of callers, of requests a day and of failures: the     *)
(* gate's rows keep their type, a scope that has failed is probed by one   *)
(* request at a time, and its failures are only forgotten for a request    *)
(* sent after the last of them.                                            *)
(*                                                                         *)
(* The last two rest on one link between the rows and the requests under   *)
(* way: those sent before a failure are exactly the late ones, and while   *)
(* one of them is unanswered its scope is cooling.                         *)
(***************************************************************************)
EXTENDS ProviderGate, FiniteSetTheorems, SequenceTheorems, TLAPS

\* A caller with a request under way, or its outcome to record, has it at the head.
PlanThere ==
  \A c \in Clients : client[c].pc \in {"flight", "fail", "clear", "store"} => client[c].plan # <<>>

\* The failure that overtook a request is one whose cooldown is still running.
LateIsCooling ==
  \A c \in Clients : client[c].late =>
    /\ client[c].pc \in {"flight", "fail", "clear", "store"}
    /\ row[Scope(c)].cooling

\* Requests under way while their scope cools were sent before it failed; after the
\* cooldown there is one at most, and it holds the lease.
Guarded(s) ==
  /\ row[s].cooling => \A c \in InFlight(s) : client[c].late
  /\ row[s].failures > 0 /\ ~row[s].cooling =>
       \A c \in InFlight(s) : row[s].probe /\ InFlight(s) = {c}

IInv == TypeOK /\ PlanThere /\ LateIsCooling /\ \A s \in Scopes : Guarded(s)

-----------------------------------------------------------------------------
(* Types.                                                                  *)

\* Every caller's part of a step keeps its type when the new plan is one.
LEMMA TurnsType ==
  ASSUME TypeOK, NEW c \in Clients, NEW pc \in {"idle", "go", "flight", "fail", "clear", "store"},
         Turns(c, pc)
  PROVE  client' \in [Clients -> Client]
BY DEF TypeOK, Turns, Client

LEMMA EmptyPlan == <<>> \in Seq(Step)
OBVIOUS

LEMMA EndsType ==
  ASSUME TypeOK, NEW c \in Clients, Ends(c)
  PROVE  client' \in [Clients -> Client]
BY EmptyPlan DEF TypeOK, Ends, Client, IdleClient

LEMMA GoesType ==
  ASSUME TypeOK, NEW c \in Clients, NEW plan \in Seq(Step), Goes(c, plan)
  PROVE  client' \in [Clients -> Client]
<1> DEFINE next == [client[c] EXCEPT !.pc = "go", !.plan = plan, !.late = FALSE]
<1>1. client \in [Clients -> Client]
  BY DEF TypeOK
<1>2. next \in Client
  BY <1>1 DEF Client
<1>3. client' = [client EXCEPT ![c] = next]
  BY <1>1 DEF Goes
<1> HIDE DEF next
<1> QED BY <1>1, <1>2, <1>3

\* What the calls are made of.
LEMMA PlansType ==
  /\ \A call \in Calls : Plan(call) \in Seq(Step)
  /\ SignedSearch \in Seq(Step)
  /\ \A k \in Keys : OnMiss(k) \in Seq(Step)
  /\ <<Look("followers")>> \in Seq(Step)
<1>1. /\ \A k \in Keys : Look(k) \in Step
      /\ Guard("detail") \in Step
      /\ \A s \in Scopes : Fetch(s) \in Step
  BY DEF Step
<1>2. /\ "detail" \in Keys /\ "device" \in Keys /\ "session" \in Keys /\ "followers" \in Keys
      /\ "search" \in Scopes /\ "session" \in Scopes /\ "detail" \in Scopes
      /\ \A k \in Keys : k \in Scopes
  BY DEF Keys, Scopes
<1>3. <<>> \in Seq(Step)
  BY EmptyPlan
<1>4. ASSUME NEW x \in Step, NEW y \in Step PROVE <<x>> \in Seq(Step) /\ <<x, y>> \in Seq(Step)
  OBVIOUS
<1>5. ASSUME NEW a \in Step, NEW b \in Step, NEW c \in Step, NEW d \in Step, NEW e \in Step,
             NEW f \in Step
      PROVE  <<a, b, c, d, e, f>> \in Seq(Step)
  OBVIOUS
<1>6. \A call \in Calls : Plan(call) \in Seq(Step)
  <2>1. <<Fetch("search")>> \in Seq(Step)
    BY <1>1, <1>2, <1>4
  <2>2. <<Look("detail"), Guard("detail"), Look("device"), Look("session"), Fetch("detail"),
          Look("followers")>> \in Seq(Step)
    BY <1>1, <1>2, <1>5
  <2> QED BY <2>1, <2>2 DEF Plan
<1>7. SignedSearch \in Seq(Step)
  BY <1>1, <1>2, <1>4 DEF SignedSearch
<1>8. \A k \in Keys : OnMiss(k) \in Seq(Step)
  <2>1. <<Look("device"), Fetch("session")>> \in Seq(Step)
    BY <1>1, <1>2, <1>4
  <2>2. \A k \in Keys : <<Fetch(k)>> \in Seq(Step)
    BY <1>1, <1>2, <1>4
  <2> QED BY <1>3, <2>1, <2>2 DEF OnMiss
<1>9. <<Look("followers")>> \in Seq(Step)
  BY <1>1, <1>2, <1>4
<1> QED BY <1>6, <1>7, <1>8, <1>9

\* What a caller is about to do, and what is left after it.
LEMMA PlanParts ==
  ASSUME TypeOK, NEW c \in Clients, client[c].plan # <<>>
  PROVE  /\ Scope(c) \in Scopes
         /\ Tail(client[c].plan) \in Seq(Step)
         /\ Next1(c)[1] = "look" => Scope(c) \in Keys
<1>1. client[c].plan \in Seq(Step)
  BY DEF TypeOK, Client
<1>2. Head(client[c].plan) \in Step /\ Tail(client[c].plan) \in Seq(Step)
  BY <1>1
<1>3. \A x \in Step : x[2] \in Scopes /\ (x[1] = "look" => x[2] \in Keys)
  <2>1. \A k \in Keys : Look(k)[2] = k /\ k \in Scopes
    BY DEF Look, Keys
  <2>2. Guard("detail")[1] # "look" /\ Guard("detail")[2] \in Scopes
    BY DEF Guard, Scopes
  <2>3. \A s \in Scopes : Fetch(s)[1] # "look" /\ Fetch(s)[2] = s
    BY DEF Fetch
  <2> QED BY <2>1, <2>2, <2>3 DEF Step
<1> QED BY <1>2, <1>3 DEF Scope, Next1

\* Every step keeps the types.
LEMMA TypeStep ==
  ASSUME TypeOK, PlanThere, [Next]_vars
  PROVE  TypeOK'
<1>0. /\ row \in [Gates -> Row] /\ budget \in Budget /\ cached \subseteq Keys
      /\ client \in [Clients -> Client]
      /\ Scopes \subseteq Gates /\ Keys \subseteq Scopes
      /\ MaxFailures \in Nat \ {0} /\ MaxPerDay \in Nat /\ MaxDays \in Nat
  BY GateAssumption DEF TypeOK, Gates, Keys
<1>1. ASSUME NEW c \in Clients, Doing(c, "fetch") \/ At(c, "flight"), Refused(c)
      PROVE  client' \in [Clients -> Client]
  <2>1. client[c].plan # <<>>
    BY <1>1 DEF Doing, PlanThere, At
  <2> QED BY <1>1, <2>1, PlanParts, EndsType, GoesType DEF Refused
<1>2. ASSUME NEW c \in Clients, CallStep(c) PROVE TypeOK'
  <2>1. CASE Finish(c)
    BY <1>0, <2>1, EndsType DEF Finish, TypeOK
  <2>2. CASE LookUp(c)
    <3>1. client[c].plan # <<>> /\ Scope(c) \in Keys
      BY <2>2, PlanParts DEF LookUp, Doing
    <3>2. Tail(client[c].plan) \in Seq(Step)
      BY <3>1, PlanParts
    <3>3. OnMiss(Scope(c)) \o Tail(client[c].plan) \in Seq(Step)
      BY <3>1, <3>2, PlansType, ConcatProperties
    <3>4. client' \in [Clients -> Client]
      BY <2>2, <3>2, <3>3, PlansType, GoesType DEF LookUp
    <3> QED BY <1>0, <2>2, <3>4 DEF LookUp, TypeOK
  <2>3. CASE AskGate(c)
    <3>1. client[c].plan # <<>>
      BY <2>3 DEF AskGate, Doing
    <3>2. client' \in [Clients -> Client]
      BY <2>3, <3>1, PlanParts, EndsType, GoesType DEF AskGate
    <3> QED BY <1>0, <2>3, <3>2 DEF AskGate, TypeOK
  <2>4. CASE Refuse(c)
    BY <1>0, <1>1, <2>4 DEF Refuse, TypeOK
  <2>5. CASE Reserve(c)
    <3>1. client' \in [Clients -> Client]
      BY <2>5, TurnsType DEF Reserve
    <3>2. budget' \in Budget
      <4> DEFINE n == budget.count + 1
      <4>1. n \in 0 .. MaxPerDay
        BY <1>0, <2>5 DEF Reserve, Budget, Spent
      <4>2. budget' = [budget EXCEPT !.count = n, !.gap = TRUE]
        BY <2>5 DEF Reserve
      <4> HIDE DEF n
      <4> QED BY <1>0, <4>1, <4>2 DEF Budget
    <3>3. row' \in [Gates -> Row]
      <4>1. row' = [row EXCEPT ![Scope(c)].probe = row[Scope(c)].probe \/ row[Scope(c)].failures > 0]
        BY <2>5 DEF Reserve
      <4>2. Scope(c) \in Gates
        BY <1>0, <2>5, PlanParts DEF Reserve, Doing
      <4> DEFINE p == row[Scope(c)].probe \/ row[Scope(c)].failures > 0
      <4>3. p \in BOOLEAN
        OBVIOUS
      <4>4. row' = [row EXCEPT ![Scope(c)].probe = p]
        BY <4>1
      <4> HIDE DEF p
      <4> QED BY <1>0, <4>2, <4>3, <4>4 DEF Row
    <3> QED BY <1>0, <2>5, <3>1, <3>2, <3>3 DEF Reserve, TypeOK
  <2>6. CASE AnswerGood(c) \/ AnswerBad(c)
    BY <1>0, <2>6, TurnsType DEF AnswerGood, AnswerBad, TypeOK
  <2>7. CASE AnswerNo(c)
    BY <1>0, <1>1, <2>7 DEF AnswerNo, TypeOK
  <2>8. CASE AnswerOther(c)
    <3>1. client' = [client EXCEPT ![c].pc = "go", ![c].plan = SignedSearch, ![c].signed = TRUE,
                                   ![c].late = FALSE]
      BY <2>8 DEF AnswerOther
    <3>2. client' \in [Clients -> Client]
      <4> DEFINE next == [client[c] EXCEPT !.pc = "go", !.plan = SignedSearch, !.signed = TRUE,
                                          !.late = FALSE]
      <4>1. next \in Client
        BY <1>0, PlansType DEF Client
      <4>2. client' = [client EXCEPT ![c] = next]
        BY <1>0, <3>1
      <4> HIDE DEF next
      <4> QED BY <1>0, <4>1, <4>2
    <3> QED BY <1>0, <2>8, <3>2 DEF AnswerOther, TypeOK
  <2>9. CASE RecordFailure(c)
    <3> DEFINE s == Scope(c)
               rest == IF s = "followers"
                       THEN [client[c] EXCEPT !.pc = "go", !.plan = Tail(client[c].plan), !.late = FALSE]
                       ELSE IdleClient
    <3>1. client[c].plan # <<>> /\ s \in Gates
      BY <1>0, <2>9, PlanParts DEF RecordFailure, PlanThere, At
    <3>2. rest \in Client
      <4>1. Tail(client[c].plan) \in Seq(Step)
        BY <3>1, PlanParts
      <4> QED BY <1>0, <4>1, EmptyPlan DEF Client, IdleClient
    <3>3. client' = [d \in Clients |->
            IF d = c THEN rest
            ELSE IF client[d].pc \in {"flight", "clear"} /\ Scope(d) = s
              THEN [client[d] EXCEPT !.late = ~row[s].cooling \/ client[d].late] ELSE client[d]]
      BY <2>9 DEF RecordFailure
    <3>4. client' \in [Clients -> Client]
      <4>1. \A d \in Clients : client'[d] \in Client
        <5> SUFFICES ASSUME NEW d \in Clients PROVE client'[d] \in Client
          OBVIOUS
        <5> DEFINE l == ~row[s].cooling \/ client[d].late
        <5>1. l \in BOOLEAN
          OBVIOUS
        <5>2. [client[d] EXCEPT !.late = l] \in Client
          <6> HIDE DEF l
          <6> QED BY <1>0, <5>1 DEF Client
        <5>3. client'[d] \in {rest, [client[d] EXCEPT !.late = l], client[d]}
          BY <3>3
        <5> QED BY <1>0, <3>2, <5>2, <5>3
      <4>2. client' = [d \in Clients |-> client'[d]]
        BY <3>3
      <4> QED BY <4>1, <4>2
    <3>5. row' \in [Gates -> Row]
      <4> DEFINE r == [cooling |-> TRUE, probe |-> FALSE, failures |-> Least(row[s].failures + 1, MaxFailures)]
      <4>1. row[s].failures \in 0 .. MaxFailures
        BY <1>0, <3>1 DEF Row
      <4>2. Least(row[s].failures + 1, MaxFailures) \in 0 .. MaxFailures
        BY <1>0, <4>1 DEF Least
      <4>3. r \in Row
        BY <4>2 DEF Row
      <4>4. row' = IF row[s].cooling THEN row ELSE [row EXCEPT ![s] = r]
        BY <2>9 DEF RecordFailure
      <4> QED BY <1>0, <4>3, <4>4
    <3> QED BY <1>0, <2>9, <3>4, <3>5 DEF RecordFailure, TypeOK
  <2>10. CASE RecordSuccess(c)
    <3>1. [cooling |-> FALSE, failures |-> 0, probe |-> FALSE] \in Row
      BY <1>0 DEF Row
    <3>2. row' \in [Gates -> Row]
      BY <1>0, <2>10, <3>1 DEF RecordSuccess
    <3>3. client' \in [Clients -> Client]
      BY <2>10, TurnsType DEF RecordSuccess
    <3> QED BY <1>0, <2>10, <3>2, <3>3 DEF RecordSuccess, TypeOK
  <2>11. CASE Store(c)
    <3>1. client[c].plan # <<>>
      BY <2>11 DEF Store, PlanThere, At
    <3>2. client' \in [Clients -> Client]
      BY <2>11, <3>1, PlanParts, GoesType DEF Store
    <3>3. cached' \subseteq Keys
      BY <1>0, <2>11 DEF Store
    <3> QED BY <1>0, <2>11, <3>2, <3>3 DEF Store, TypeOK
  <2> QED BY <1>2, <2>1, <2>2, <2>3, <2>4, <2>5, <2>6, <2>7, <2>8, <2>9, <2>10, <2>11 DEF CallStep
<1>3. ASSUME NEW c \in Clients, GoAway(c) PROVE TypeOK'
  BY <1>0, <1>3, EndsType DEF GoAway, TypeOK
<1>4. ASSUME NEW c \in Clients, NEW call \in Calls, Start(c, call) PROVE TypeOK'
  BY <1>0, <1>4, GoesType, PlansType DEF Start, TypeOK
<1>5. ASSUME NEW g \in Gates, CooldownEnds(g) \/ LeaseEnds(g) PROVE TypeOK'
  BY <1>0, <1>5, ZenonT(80) DEF CooldownEnds, LeaseEnds, TypeOK, Row
<1>6. CASE GapEnds \/ NewDay
  <2>1. CASE GapEnds
    BY <1>0, <2>1 DEF GapEnds, TypeOK, Budget
  <2>2. CASE NewDay
    <3>3. budget' \in Budget
      <4> DEFINE d == budget.day + 1
      <4>1. d \in 0 .. MaxDays /\ 0 \in 0 .. MaxPerDay
        BY <1>0, <2>2 DEF NewDay, Budget
      <4>2. budget' = [budget EXCEPT !.count = 0, !.day = d]
        BY <2>2 DEF NewDay
      <4> HIDE DEF d
      <4> QED BY <1>0, <4>1, <4>2 DEF Budget
    <3> QED BY <1>0, <2>2, <3>3 DEF NewDay, TypeOK
  <2> QED BY <1>6, <2>1, <2>2
<1>7. ASSUME NEW k \in Keys, Expire(k) PROVE TypeOK'
  BY <1>0, <1>7 DEF Expire, TypeOK
<1>8. CASE UNCHANGED vars
  BY <1>0, <1>8 DEF vars, TypeOK
<1> QED BY <1>2, <1>3, <1>4, <1>5, <1>6, <1>7, <1>8 DEF Next, TimeStep

-----------------------------------------------------------------------------
(* The callers' part of a step.                                            *)

\* What the other callers are doing stays what it was.
Others(c) == \A d \in Clients : d # c => client'[d] = client[d]

\* A caller that goes on, or stops, has nothing under way and is late for nothing.
Free1(c) == client'[c].pc \in {"idle", "go"} /\ client'[c].late = FALSE

LEMMA FreeAfter ==
  ASSUME TypeOK, NEW c \in Clients, Ends(c) \/ \E plan \in Seq(Step) : Goes(c, plan)
  PROVE  Free1(c) /\ Others(c)
<1>0. client \in [Clients -> Client]
  BY DEF TypeOK
<1>1. CASE Ends(c)
  BY <1>0, <1>1 DEF Ends, Free1, IdleClient, Others
<1>2. ASSUME NEW plan \in Seq(Step), Goes(c, plan) PROVE Free1(c) /\ Others(c)
  <2>1. client' = [client EXCEPT ![c] = [client[c] EXCEPT !.pc = "go", !.plan = plan, !.late = FALSE]]
    BY <1>2 DEF Goes
  <2> QED BY <1>0, <2>1 DEF Free1, Client, Others
<1> QED BY <1>1, <1>2

\* The steps of one caller that leave the rows alone and send nothing.
LEMMA QuietStep ==
  ASSUME IInv, NEW c \in Clients, Others(c), UNCHANGED row,
         \/ Free1(c)
         \/ /\ client'[c].pc \in {"fail", "clear"} /\ client[c].pc = "flight"
            /\ client'[c].plan = client[c].plan /\ client'[c].late = client[c].late
  PROVE  PlanThere' /\ LateIsCooling' /\ \A s \in Scopes : Guarded(s)'
<1>1. PlanThere'
  BY DEF IInv, PlanThere, Others, Free1
<1>2. LateIsCooling'
  BY DEF IInv, LateIsCooling, Others, Free1, Scope, Next1
<1>3. ASSUME NEW s \in Scopes PROVE Guarded(s)'
  <2>1. InFlight(s)' = InFlight(s) \ {c}
    BY DEF InFlight, At, Others, Free1, Scope, Next1
  <2>2. Guarded(s)
    BY DEF IInv
  <2> QED BY <2>1, <2>2 DEF Guarded, Others, InFlight
<1> QED BY <1>1, <1>2, <1>3

\* A request that the gate lets through finds its scope free: no cooldown, and after a
\* failure nothing under way.
LEMMA ReserveStep ==
  ASSUME IInv, NEW c \in Clients, Reserve(c)
  PROVE  PlanThere' /\ LateIsCooling' /\ \A s \in Scopes : Guarded(s)'
<1>0. /\ client \in [Clients -> Client] /\ row \in [Gates -> Row] /\ Scopes \subseteq Gates
      /\ At(c, "go") /\ client[c].plan # <<>> /\ ~row[Scope(c)].cooling
      /\ client[c].pc = "go"
  BY DEF IInv, TypeOK, Reserve, Doing, Paused, At, Gates
<1>1. Others(c) /\ client'[c].pc = "flight" /\ client'[c].plan = client[c].plan
      /\ client'[c].late = client[c].late
  BY <1>0 DEF Reserve, Turns, Others, Client
<1>2. client[c].late = FALSE
  BY <1>0 DEF IInv, LateIsCooling, Client
<1>3. row' = [row EXCEPT ![Scope(c)].probe = row[Scope(c)].probe \/ row[Scope(c)].failures > 0]
  BY DEF Reserve
<1>4. \A g \in Gates : row'[g].cooling = row[g].cooling /\ row'[g].failures = row[g].failures
                       /\ (g # Scope(c) => row'[g] = row[g])
  BY <1>0, <1>3 DEF Row
<1>5. Scope(c) \in Scopes /\ Scope(c)' = Scope(c)
  BY <1>0, <1>1, PlanParts DEF IInv, Scope, Next1
<1>6. row'[Scope(c)].probe = (row[Scope(c)].probe \/ row[Scope(c)].failures > 0)
  BY <1>0, <1>3, <1>5 DEF Row
<1>7. PlanThere'
  BY <1>0, <1>1 DEF IInv, PlanThere, Others
<1>8. LateIsCooling'
  <2> SUFFICES ASSUME NEW d \in Clients, client'[d].late
               PROVE  client'[d].pc \in {"flight", "fail", "clear", "store"} /\ row'[Scope(d)'].cooling
    BY DEF LateIsCooling, Scope, Next1
  <2>1. d # c /\ client'[d] = client[d]
    BY <1>1, <1>2 DEF Others
  <2>2. Scope(d)' = Scope(d) /\ row[Scope(d)].cooling /\ client[d].plan # <<>>
    BY <2>1 DEF IInv, LateIsCooling, PlanThere, Scope, Next1
  <2>3. Scope(d) \in Gates
    BY <1>0, <2>2, PlanParts DEF IInv
  <2> QED BY <1>4, <2>1, <2>2, <2>3 DEF IInv, LateIsCooling
<1>9. ASSUME NEW s \in Scopes PROVE Guarded(s)'
  <2>1. Guarded(s)
    BY DEF IInv
  <2>2. CASE s # Scope(c)
    <3>1. InFlight(s)' = InFlight(s) /\ row'[s] = row[s]
      BY <1>0, <1>1, <1>4, <1>5, <2>2 DEF InFlight, At, Others, Scope, Next1
    <3> QED BY <1>1, <2>1, <3>1, <1>0 DEF Guarded, Others, InFlight, At
  <2>3. CASE s = Scope(c)
    <3>1. InFlight(s)' = InFlight(s) \cup {c}
      BY <1>1, <1>5, <2>3 DEF InFlight, At, Others, Scope, Next1
    <3>2. row[s].failures > 0 => InFlight(s) = {} /\ row'[s].probe
      <4>1. row[s].failures > 0 => ~row[s].probe
        BY <1>0, <2>3 DEF Reserve, Free, Row
      <4>2. row[s].failures > 0 => InFlight(s) = {}
        BY <1>0, <2>1, <2>3, <4>1 DEF Guarded
      <4> QED BY <1>6, <2>3, <4>2
    <3>3. ~row'[s].cooling /\ row'[s].failures = row[s].failures
      BY <1>0, <1>4, <2>3
    <3> QED BY <3>1, <3>2, <3>3 DEF Guarded
  <2> QED BY <2>2, <2>3
<1> QED BY <1>7, <1>8, <1>9

\* A failure starts the cooldown and makes whatever is under way late.
LEMMA FailureStep ==
  ASSUME IInv, NEW c \in Clients, RecordFailure(c)
  PROVE  PlanThere' /\ LateIsCooling' /\ \A s \in Scopes : Guarded(s)'
<1> DEFINE f == Scope(c)
<1>0. /\ client \in [Clients -> Client] /\ row \in [Gates -> Row] /\ Scopes \subseteq Gates
      /\ client[c].pc = "fail" /\ client[c].plan # <<>> /\ f \in Scopes
  <2>1. client[c].pc = "fail" /\ client[c].plan # <<>> /\ TypeOK
    BY DEF IInv, PlanThere, RecordFailure, At
  <2> QED BY <2>1, PlanParts DEF TypeOK, Gates
<1>1. /\ row'[f].cooling /\ \A g \in Gates : g # f => row'[g] = row[g]
      /\ row[f].cooling => row' = row
  BY <1>0 DEF RecordFailure
<1>2. Free1(c)
  BY <1>0 DEF RecordFailure, Free1, IdleClient, Client
<1>3. ASSUME NEW d \in Clients, d # c
      PROVE  /\ client'[d].pc = client[d].pc /\ client'[d].plan = client[d].plan
             /\ client'[d].late = (client[d].late \/ (/\ client[d].pc \in {"flight", "clear"}
                                                     /\ Scope(d) = f /\ ~row[f].cooling))
  <2> DEFINE l == ~row[f].cooling \/ client[d].late
  <2>1. client'[d] = IF client[d].pc \in {"flight", "clear"} /\ Scope(d) = f
                     THEN [client[d] EXCEPT !.late = l] ELSE client[d]
    BY <1>3 DEF RecordFailure
  <2>2. l \in BOOLEAN
    OBVIOUS
  <2>3. [client[d] EXCEPT !.late = l].late = l /\ [client[d] EXCEPT !.late = l].pc = client[d].pc
        /\ [client[d] EXCEPT !.late = l].plan = client[d].plan
    <3> HIDE DEF l
    <3> QED BY <1>0, <2>2 DEF Client
  <2>4. client[d].late \in BOOLEAN /\ row[f].cooling \in BOOLEAN
    BY <1>0 DEF Client, Row
  <2>5. CASE client[d].pc \in {"flight", "clear"} /\ Scope(d) = f
    BY <2>1, <2>2, <2>3, <2>4, <2>5
  <2>6. CASE ~(client[d].pc \in {"flight", "clear"} /\ Scope(d) = f)
    BY <2>1, <2>4, <2>6
  <2> QED BY <2>5, <2>6
<1>4. \A d \in Clients : d # c => Scope(d)' = Scope(d)
  BY <1>3 DEF Scope, Next1
<1>5. PlanThere'
  BY <1>2, <1>3 DEF IInv, PlanThere, Free1
<1>6. LateIsCooling'
  <2> SUFFICES ASSUME NEW d \in Clients, client'[d].late
               PROVE  client'[d].pc \in {"flight", "fail", "clear", "store"} /\ row'[Scope(d)'].cooling
    BY DEF LateIsCooling, Scope, Next1
  <2>1. d # c
    BY <1>2 DEF Free1
  <2>2. CASE client[d].late
    <3>1. client[d].pc \in {"flight", "fail", "clear", "store"} /\ row[Scope(d)].cooling
      BY <2>2 DEF IInv, LateIsCooling
    <3>2. Scope(d) \in Gates
      BY <1>0, <3>1, PlanParts DEF IInv, PlanThere
    <3> QED BY <1>1, <1>3, <1>4, <2>1, <3>1, <3>2
  <2>3. CASE ~client[d].late
    BY <1>1, <1>3, <1>4, <2>1, <2>3
  <2> QED BY <2>2, <2>3
<1>7. ASSUME NEW s \in Scopes PROVE Guarded(s)'
  <2>1. Guarded(s)
    BY DEF IInv
  <2>2. InFlight(s)' = InFlight(s)
    <3>1. c \notin InFlight(s) /\ c \notin InFlight(s)'
      BY <1>0, <1>2 DEF InFlight, At, Free1
    <3>2. \A d \in Clients : d # c => (d \in InFlight(s)' <=> d \in InFlight(s))
      BY <1>3, <1>4 DEF InFlight, At
    <3> QED BY <3>1, <3>2 DEF InFlight
  <2>3. CASE s # f
    <3>1. row'[s] = row[s]
      BY <1>0, <1>1, <2>3
    <3>2. \A d \in InFlight(s) : client'[d].late = client[d].late
      BY <1>0, <1>3, <2>3 DEF InFlight, At, Client
    <3> QED BY <2>1, <2>2, <3>1, <3>2 DEF Guarded
  <2>4. CASE s = f
    <3>1. \A d \in InFlight(s) : client'[d].late
      <4> SUFFICES ASSUME NEW d \in InFlight(s) PROVE client'[d].late
        OBVIOUS
      <4>1. d \in Clients /\ client[d].pc = "flight" /\ Scope(d) = f /\ d # c
        BY <1>0, <2>4 DEF InFlight, At
      <4>2. CASE row[f].cooling
        BY <1>3, <2>1, <2>4, <4>1, <4>2 DEF Guarded
      <4>3. CASE ~row[f].cooling
        BY <1>3, <4>1, <4>3
      <4> QED BY <4>2, <4>3
    <3> QED BY <1>1, <2>2, <2>4, <3>1 DEF Guarded
  <2> QED BY <2>3, <2>4
<1> QED BY <1>5, <1>6, <1>7

\* A success opens a scope that is not cooling, and changes nothing while it cools.
LEMMA SuccessStep ==
  ASSUME IInv, NEW c \in Clients, RecordSuccess(c)
  PROVE  PlanThere' /\ LateIsCooling' /\ \A s \in Scopes : Guarded(s)'
<1>0. /\ client \in [Clients -> Client] /\ row \in [Gates -> Row] /\ Scopes \subseteq Gates
      /\ client[c].pc = "clear" /\ client[c].plan # <<>>
  BY DEF IInv, TypeOK, PlanThere, RecordSuccess, At, Gates
<1>1. Others(c) /\ client'[c].pc = "store" /\ client'[c].plan = client[c].plan
      /\ client'[c].late = client[c].late
  BY <1>0 DEF RecordSuccess, Turns, Others, Client
<1>2. \A d \in Clients : Scope(d)' = Scope(d)
  BY <1>1 DEF Others, Scope, Next1
<1>3. \A s \in Scopes : InFlight(s)' = InFlight(s)
  <2>1. \A d \in Clients : (client'[d].pc = "flight") = (client[d].pc = "flight")
    BY <1>0, <1>1 DEF Others
  <2> QED BY <1>2, <2>1 DEF InFlight, At
<1>4. \A g \in Gates : /\ row'[g].cooling = row[g].cooling
                       /\ row'[g] = row[g] \/ row'[g].failures = 0
  BY <1>0 DEF RecordSuccess, Clearable, Row
<1>5. \A d \in Clients : client'[d].late = client[d].late
  BY <1>1 DEF Others
<1>6. PlanThere'
  BY <1>0, <1>1 DEF IInv, PlanThere, Others
<1>7. LateIsCooling'
  <2> SUFFICES ASSUME NEW d \in Clients, client'[d].late
               PROVE  client'[d].pc \in {"flight", "fail", "clear", "store"} /\ row'[Scope(d)].cooling
    BY <1>2 DEF LateIsCooling
  <2>1. client[d].pc \in {"flight", "fail", "clear", "store"} /\ row[Scope(d)].cooling
    BY <1>5 DEF IInv, LateIsCooling
  <2>2. Scope(d) \in Gates
    BY <1>0, <2>1, PlanParts DEF IInv, PlanThere
  <2> QED BY <1>1, <1>4, <2>1, <2>2 DEF Others
<1>8. ASSUME NEW s \in Scopes PROVE Guarded(s)'
  <2>1. Guarded(s) /\ s \in Gates
    BY <1>0 DEF IInv
  <2>2. CASE row'[s] = row[s]
    BY <1>3, <1>5, <2>1, <2>2 DEF Guarded, InFlight
  <2>3. CASE row'[s].failures = 0
    BY <1>3, <1>4, <1>5, <2>1, <2>3 DEF Guarded, InFlight
  <2> QED BY <1>4, <2>1, <2>2, <2>3
<1> QED BY <1>6, <1>7, <1>8

\* Time: a cooldown ends after the requests it overtook, a lease after its probe.
LEMMA TimeKeeps ==
  ASSUME IInv, TimeStep
  PROVE  PlanThere' /\ LateIsCooling' /\ \A s \in Scopes : Guarded(s)'
<1>0. /\ row \in [Gates -> Row] /\ Scopes \subseteq Gates /\ UNCHANGED client
  BY DEF IInv, TypeOK, Gates, TimeStep, CooldownEnds, LeaseEnds, GapEnds, NewDay, Expire
<1>1. PlanThere' /\ \A d \in Clients : Scope(d)' = Scope(d)
  BY <1>0 DEF IInv, PlanThere, Scope, Next1
<1>2. \A s \in Scopes : InFlight(s)' = InFlight(s)
  BY <1>0 DEF InFlight, At, Scope, Next1
<1>3. ASSUME NEW g \in Gates, CooldownEnds(g)
      PROVE  LateIsCooling' /\ \A s \in Scopes : Guarded(s)'
  <2>1. \A h \in Gates : h # g => row'[h] = row[h]
    BY <1>0, <1>3 DEF CooldownEnds
  <2>2. LateIsCooling'
    <3> SUFFICES ASSUME NEW d \in Clients, client[d].late
                 PROVE  client[d].pc \in {"flight", "fail", "clear", "store"} /\ row'[Scope(d)].cooling
      BY <1>0, <1>1 DEF LateIsCooling
    <3>1. client[d].pc \in {"flight", "fail", "clear", "store"} /\ row[Scope(d)].cooling /\ Scope(d) # g
      BY <1>3 DEF IInv, LateIsCooling, CooldownEnds
    <3>2. Scope(d) \in Gates
      BY <1>0, <3>1, PlanParts DEF IInv, PlanThere
    <3> QED BY <2>1, <3>1, <3>2
  <2>3. ASSUME NEW s \in Scopes PROVE Guarded(s)'
    <3>1. Guarded(s)
      BY DEF IInv
    <3>2. CASE s # g
      BY <1>0, <1>2, <2>1, <3>1, <3>2 DEF Guarded
    <3>3. CASE s = g
      <4>1. InFlight(s) = {}
        BY <1>3, <3>1, <3>3 DEF Guarded, CooldownEnds, InFlight
      <4> QED BY <1>2, <4>1 DEF Guarded
    <3> QED BY <3>2, <3>3
  <2> QED BY <2>2, <2>3
<1>4. ASSUME NEW g \in Gates, LeaseEnds(g)
      PROVE  LateIsCooling' /\ \A s \in Scopes : Guarded(s)'
  <2>1. /\ \A h \in Gates : /\ row'[h].cooling = row[h].cooling /\ row'[h].failures = row[h].failures
                            /\ h # g => row'[h] = row[h]
        /\ InFlight(g) = {}
    BY <1>0, <1>4 DEF LeaseEnds, Lapses, Row
  <2>2. LateIsCooling'
    <3> SUFFICES ASSUME NEW d \in Clients, client[d].late
                 PROVE  client[d].pc \in {"flight", "fail", "clear", "store"} /\ row'[Scope(d)].cooling
      BY <1>0, <1>1 DEF LateIsCooling
    <3>1. client[d].pc \in {"flight", "fail", "clear", "store"} /\ row[Scope(d)].cooling
      BY DEF IInv, LateIsCooling
    <3>2. Scope(d) \in Gates
      BY <1>0, <3>1, PlanParts DEF IInv, PlanThere
    <3> QED BY <2>1, <3>1, <3>2
  <2>3. ASSUME NEW s \in Scopes PROVE Guarded(s)'
    <3>1. Guarded(s)
      BY DEF IInv
    <3>2. CASE s # g
      BY <1>0, <1>2, <2>1, <3>1, <3>2 DEF Guarded
    <3>3. CASE s = g
      BY <1>2, <2>1, <3>3 DEF Guarded
    <3> QED BY <3>2, <3>3
  <2> QED BY <2>2, <2>3
<1>5. ASSUME UNCHANGED row
      PROVE  LateIsCooling' /\ \A s \in Scopes : Guarded(s)'
  BY <1>0, <1>1, <1>2, <1>5 DEF IInv, LateIsCooling, Guarded
<1>6. CASE GapEnds \/ NewDay \/ \E k \in Keys : Expire(k)
  BY <1>1, <1>5, <1>6 DEF GapEnds, NewDay, Expire
<1> QED BY <1>1, <1>3, <1>4, <1>6 DEF TimeStep

-----------------------------------------------------------------------------
(* The invariant and the three results.                                    *)

LEMMA InitIInv == Init => IInv
<1> SUFFICES ASSUME Init PROVE IInv
  OBVIOUS
<1>1. \A c \in Clients : client[c] = IdleClient
  BY DEF Init
<1>2. \A s \in Scopes : InFlight(s) = {}
  BY <1>1 DEF InFlight, At, IdleClient
<1>3. TypeOK
  <2>1. IdleClient \in Client
    BY EmptyPlan DEF IdleClient, Client
  <2>2. client \in [Clients -> Client]
    BY <2>1 DEF Init
  <2>3. row \in [Gates -> Row]
    <3>1. PICK old \in BOOLEAN :
            row = [g \in Gates |-> [cooling |-> old /\ g = "bilibili", failures |-> 0, probe |-> FALSE]]
      BY DEF Init
    <3>2. \A g \in Gates : (old /\ g = "bilibili") \in BOOLEAN
      OBVIOUS
    <3>3. 0 \in 0 .. MaxFailures
      BY GateAssumption
    <3> QED BY <3>1, <3>2, <3>3 DEF Row
  <2>4. budget \in Budget
    BY GateAssumption DEF Init, Budget
  <2>5. cached \subseteq Keys
    BY LastingAssumption DEF Init
  <2> QED BY <2>2, <2>3, <2>4, <2>5 DEF TypeOK
<1>4. PlanThere /\ LateIsCooling
  BY <1>1 DEF PlanThere, LateIsCooling, IdleClient
<1>5. \A s \in Scopes : Guarded(s)
  BY <1>2 DEF Guarded
<1> QED BY <1>3, <1>4, <1>5 DEF IInv

\* What the caller of a quiet step does after it.
LEMMA CallerQuiet ==
  ASSUME IInv, NEW c \in Clients,
         \/ Finish(c) \/ LookUp(c) \/ AskGate(c) \/ Refuse(c) \/ AnswerNo(c) \/ AnswerOther(c)
         \/ Store(c) \/ GoAway(c) \/ \E call \in Calls : Start(c, call)
  PROVE  Free1(c) /\ Others(c) /\ UNCHANGED row
<1>0. TypeOK /\ PlanThere
  BY DEF IInv
<1>1. CASE Finish(c) \/ GoAway(c)
  BY <1>0, <1>1, FreeAfter DEF Finish, GoAway
<1>2. CASE LookUp(c)
  <2>1. client[c].plan # <<>> /\ Scope(c) \in Keys
    BY <1>0, <1>2, PlanParts DEF LookUp, Doing
  <2>2. Tail(client[c].plan) \in Seq(Step)
    BY <1>0, <2>1, PlanParts
  <2>3. OnMiss(Scope(c)) \o Tail(client[c].plan) \in Seq(Step)
    BY <2>1, <2>2, PlansType, ConcatProperties
  <2>4. \E plan \in Seq(Step) : Goes(c, plan)
    BY <1>2, <2>2, <2>3, PlansType DEF LookUp
  <2> QED BY <1>0, <1>2, <2>4, FreeAfter DEF LookUp
<1>3. CASE AskGate(c) \/ Refuse(c) \/ AnswerNo(c)
  <2>1. client[c].plan # <<>>
    BY <1>0, <1>3 DEF AskGate, Refuse, AnswerNo, Doing, PlanThere, At
  <2>2. Ends(c) \/ \E plan \in Seq(Step) : Goes(c, plan)
    BY <1>0, <1>3, <2>1, PlanParts DEF AskGate, Refuse, AnswerNo, Refused
  <2> QED BY <1>0, <1>3, <2>2, FreeAfter DEF AskGate, Refuse, AnswerNo
<1>4. CASE AnswerOther(c)
  <2>1. client \in [Clients -> Client]
    BY <1>0 DEF TypeOK
  <2>2. client' = [client EXCEPT ![c] = [client[c] EXCEPT !.pc = "go", !.plan = SignedSearch,
                                                           !.signed = TRUE, !.late = FALSE]]
    BY <1>4 DEF AnswerOther
  <2> QED BY <1>4, <2>1, <2>2 DEF AnswerOther, Free1, Others, Client
<1>5. CASE Store(c)
  <2>1. client[c].plan # <<>>
    BY <1>0, <1>5 DEF Store, PlanThere, At
  <2> QED BY <1>0, <1>5, <2>1, PlanParts, FreeAfter DEF Store
<1>6. CASE \E call \in Calls : Start(c, call)
  BY <1>0, <1>6, PlansType, FreeAfter DEF Start
<1> QED BY <1>1, <1>2, <1>3, <1>4, <1>5, <1>6

\* Every step keeps the invariant.
LEMMA IInvStep ==
  ASSUME IInv, [Next]_vars
  PROVE  IInv'
<1>1. TypeOK'
  BY TypeStep DEF IInv
<1>2. ASSUME NEW c \in Clients,
             CallStep(c) \/ GoAway(c) \/ \E call \in Calls : Start(c, call)
      PROVE  PlanThere' /\ LateIsCooling' /\ \A s \in Scopes : Guarded(s)'
  <2>1. CASE Reserve(c)
    BY <2>1, ReserveStep
  <2>2. CASE RecordFailure(c)
    BY <2>2, FailureStep
  <2>3. CASE RecordSuccess(c)
    BY <2>3, SuccessStep
  <2>4. CASE AnswerGood(c) \/ AnswerBad(c)
    <3>1. /\ client'[c].pc \in {"fail", "clear"} /\ client[c].pc = "flight"
          /\ client'[c].plan = client[c].plan /\ client'[c].late = client[c].late
          /\ Others(c) /\ UNCHANGED row
      BY <2>4 DEF AnswerGood, AnswerBad, Turns, At, Others, IInv, TypeOK, Client
    <3> QED BY <3>1, QuietStep
  <2>5. CASE \/ Finish(c) \/ LookUp(c) \/ AskGate(c) \/ Refuse(c) \/ AnswerNo(c) \/ AnswerOther(c)
             \/ Store(c) \/ GoAway(c) \/ \E call \in Calls : Start(c, call)
    <3>1. Free1(c) /\ Others(c) /\ UNCHANGED row
      BY <2>5, CallerQuiet
    <3> QED BY <3>1, QuietStep
  <2> QED BY <1>2, <2>1, <2>2, <2>3, <2>4, <2>5 DEF CallStep
<1>3. ASSUME UNCHANGED vars PROVE PlanThere' /\ LateIsCooling' /\ \A s \in Scopes : Guarded(s)'
  BY <1>3 DEF vars, IInv, PlanThere, LateIsCooling, Guarded, InFlight, At, Scope, Next1
<1>4. ASSUME TimeStep PROVE PlanThere' /\ LateIsCooling' /\ \A s \in Scopes : Guarded(s)'
  BY <1>4, TimeKeeps
<1>5. PlanThere' /\ LateIsCooling' /\ \A s \in Scopes : Guarded(s)'
  BY <1>2, <1>3, <1>4 DEF Next
<1> QED BY <1>1, <1>5 DEF IInv

LEMMA AlwaysIInv == Spec => []IInv
<1>1. Init => IInv
  BY InitIInv
<1>2. IInv /\ [Next]_vars => IInv'
  BY IInvStep
<1> QED BY <1>1, <1>2, PTL DEF Spec

\* The rows, the budget, the cache and the callers keep their types
\* (provider_state, provider_cache), whatever the number of callers and requests.
THEOREM GateTypeCorrect == Spec => []TypeOK
<1>1. IInv => TypeOK
  BY DEF IInv
<1> QED BY <1>1, AlwaysIInv, PTL

\* After a cooldown one request of the scope is under way at most, for any number of
\* callers in any number of processes (reserve_scoped_provider_request).
THEOREM AlwaysOneProbe == Spec => []OneProbe
<1>1. ASSUME IInv PROVE OneProbe
  <2> SUFFICES ASSUME NEW s \in Scopes, row[s].failures > 0, ~row[s].cooling
               PROVE  Cardinality(InFlight(s)) <= 1
    BY DEF OneProbe
  <2>1. \A c \in InFlight(s) : InFlight(s) = {c}
    BY <1>1 DEF IInv, Guarded
  <2>2. CASE InFlight(s) = {}
    BY <2>2, FS_EmptySet
  <2>3. CASE InFlight(s) # {}
    <3>1. PICK c \in InFlight(s) : InFlight(s) = {c}
      BY <2>1, <2>3
    <3>2. Cardinality({c}) = 1
      BY FS_Singleton
    <3> QED BY <3>1, <3>2
  <2> QED BY <2>2, <2>3
<1> QED BY <1>1, AlwaysIInv, PTL

\* A scope's failures are forgotten for a request sent after the last of them, and for
\* no other (clear_scoped_provider_failure): while a late one is unanswered the
\* scope cools, and a success does not clear a scope that cools.
THEOREM LateSuccessAlwaysIgnored == Spec => LateSuccessIsIgnored
<1> DEFINE Fresh == \A s \in Scopes : row[s].failures > 0 /\ row'[s].failures = 0 =>
       \E c \in Clients : At(c, "clear") /\ Scope(c) = s /\ ~client[c].late /\ client'[c] # client[c]
<1>1. ASSUME IInv, [Next]_vars PROVE Fresh
  <2> SUFFICES ASSUME NEW s \in Scopes, row[s].failures > 0, row'[s].failures = 0
               PROVE  \E c \in Clients : At(c, "clear") /\ Scope(c) = s /\ ~client[c].late
                                         /\ client'[c] # client[c]
    OBVIOUS
  <2>0. /\ row \in [Gates -> Row] /\ client \in [Clients -> Client] /\ s \in Gates
        /\ MaxFailures \in Nat \ {0}
    BY <1>1, GateAssumption DEF IInv, TypeOK, Gates
  <2>1. ASSUME UNCHANGED row PROVE FALSE
    BY <2>0, <2>1
  <2>2. ASSUME NEW c \in Clients, Reserve(c) PROVE FALSE
    <3>1. row' = [row EXCEPT ![Scope(c)].probe = row[Scope(c)].probe \/ row[Scope(c)].failures > 0]
      BY <2>2 DEF Reserve
    <3>2. row'[s].failures = row[s].failures
      BY <2>0, <3>1 DEF Row
    <3> QED BY <3>2
  <2>3. ASSUME NEW c \in Clients, RecordFailure(c) PROVE FALSE
    <3> DEFINE n == Least(row[Scope(c)].failures + 1, MaxFailures)
    <3>1. Scope(c) \in Gates
      BY <1>1, <2>3, PlanParts DEF IInv, PlanThere, RecordFailure, At, Gates
    <3>2. n # 0
      BY <2>0, <3>1 DEF Least, Row
    <3>3. row' = IF row[Scope(c)].cooling THEN row
                 ELSE [row EXCEPT ![Scope(c)] = [cooling |-> TRUE, probe |-> FALSE, failures |-> n]]
      BY <2>3 DEF RecordFailure
    <3> HIDE DEF n
    <3> QED BY <2>0, <3>1, <3>2, <3>3
  <2>4. ASSUME NEW g \in Gates, CooldownEnds(g) \/ LeaseEnds(g) PROVE FALSE
    BY <2>0, <2>4 DEF CooldownEnds, LeaseEnds, Row
  <2>5. ASSUME NEW c \in Clients, RecordSuccess(c)
        PROVE  At(c, "clear") /\ Scope(c) = s /\ ~client[c].late /\ client'[c] # client[c]
    <3>1. At(c, "clear") /\ Scope(c) \in Gates /\ client[c].plan # <<>>
      BY <1>1, <2>5, PlanParts DEF IInv, PlanThere, RecordSuccess, At, Gates
    <3>2. Scope(c) = s /\ ~row[s].cooling
      BY <2>0, <2>5, <3>1 DEF RecordSuccess, Clearable
    <3>3. ~client[c].late
      BY <1>1, <3>2 DEF IInv, LateIsCooling
    <3>4. client'[c].pc = "store"
      BY <2>0, <2>5 DEF RecordSuccess, Turns, Client
    <3> QED BY <3>1, <3>2, <3>3, <3>4 DEF At
  <2>6. ASSUME NEW c \in Clients, ~Reserve(c), ~RecordFailure(c), ~RecordSuccess(c),
               CallStep(c) \/ GoAway(c) \/ \E call \in Calls : Start(c, call)
        PROVE  UNCHANGED row
    BY <2>6 DEF CallStep, GoAway, Start, Finish, LookUp, AskGate, Refuse, AnswerGood, AnswerBad,
                AnswerNo, AnswerOther, Store
  <2>7. ASSUME GapEnds \/ NewDay \/ \E k \in Keys : Expire(k) PROVE UNCHANGED row
    BY <2>7 DEF GapEnds, NewDay, Expire
  <2>8. CASE UNCHANGED vars
    BY <2>1, <2>8 DEF vars
  <2>9. CASE TimeStep
    BY <2>1, <2>4, <2>7, <2>9 DEF TimeStep
  <2>10. ASSUME NEW c \in Clients, CallStep(c) \/ GoAway(c) \/ \E call \in Calls : Start(c, call)
         PROVE  At(c, "clear") /\ Scope(c) = s /\ ~client[c].late /\ client'[c] # client[c]
    BY <2>1, <2>2, <2>3, <2>5, <2>6, <2>10
  <2> QED BY <1>1, <2>8, <2>9, <2>10 DEF Next
<1>2. IInv /\ [Next]_vars => [Fresh]_vars
  BY <1>1
<1>3. Spec => [][Fresh]_vars
  BY <1>2, AlwaysIInv, PTL DEF Spec
<1> QED BY <1>3 DEF LateSuccessIsIgnored
=============================================================================
