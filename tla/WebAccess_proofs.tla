-------------------------- MODULE WebAccess_proofs --------------------------
(***************************************************************************)
(* For any number of sign-ins, requests, sessions and replacements of a    *)
(* token: the types, the bound on the passwords tried in one window, that  *)
(* a confirmed operation is done once, and that a revoked session stays    *)
(* out.                                                                    *)
(*                                                                         *)
(* The bound is the one that needs an argument.  A key is blocked by the   *)
(* failure that reaches MaxFailures; from then on nobody gets past the     *)
(* check, and each of the others who did before has one failure to add.    *)
(***************************************************************************)
EXTENDS WebAccess, FiniteSetTheorems, TLAPS

\* The attempts that have passed the check of k and may still count a failure under k.
Under(k) ==
  { a \in Attempts : attempt[a] \in IF k = "user" THEN {"asked", "checked", "failed"}
                                    ELSE {"checked", "failed", "counted"} }

\* Below the limit, or blocked with room for each of them.
Bound(k) ==
  \/ throttle[k].count < MaxFailures
  \/ /\ throttle[k].blocked
     /\ throttle[k].count + Cardinality(Under(k)) < MaxFailures + Cardinality(Attempts)

ThrottleInv ==
  /\ throttle \in [ThrottleKeys -> [count : Nat, blocked : BOOLEAN]]
  /\ attempt \in [Attempts -> Stage]
  /\ \A k \in ThrottleKeys : Bound(k)

-----------------------------------------------------------------------------
(* Sign-ins.                                                               *)

LEMMA AttemptsFinite ==
  /\ IsFiniteSet(Attempts) /\ Cardinality(Attempts) \in Nat /\ MaxFailures \in Nat \ {0}
  /\ \A k : IsFiniteSet(Under(k)) /\ Cardinality(Under(k)) \in Nat
            /\ Cardinality(Under(k)) <= Cardinality(Attempts)
<1>1. IsFiniteSet(Attempts) /\ Cardinality(Attempts) \in Nat /\ MaxFailures \in Nat \ {0}
  BY ThrottleAssumption, FS_CardinalityType
<1>2. ASSUME NEW k
      PROVE  IsFiniteSet(Under(k)) /\ Cardinality(Under(k)) \in Nat
             /\ Cardinality(Under(k)) <= Cardinality(Attempts)
  <2>1. Under(k) \subseteq Attempts
    BY DEF Under
  <2> QED BY <1>1, <2>1, FS_Subset, FS_CardinalityType
<1> QED BY <1>1, <1>2

\* Fewer attempts under way leave the bound of a key that is not written.
LEMMA BoundKept ==
  ASSUME NEW k \in ThrottleKeys, Bound(k), throttle'[k] = throttle[k], throttle[k].count \in Nat,
         Under(k)' \subseteq Under(k)
  PROVE  Bound(k)'
<1>1. Cardinality(Under(k)') <= Cardinality(Under(k)) /\ Cardinality(Under(k)') \in Nat
      /\ Cardinality(Under(k)) \in Nat
  BY AttemptsFinite, FS_Subset, FS_CardinalityType
<1> QED BY <1>1, AttemptsFinite DEF Bound

\* A failure takes one attempt from those under way and adds one to the count.
LEMMA BoundCounted ==
  ASSUME NEW k \in ThrottleKeys, Bound(k), throttle[k].count \in Nat, NEW a \in Under(k),
         Under(k)' = Under(k) \ {a},
         throttle'[k] = [count |-> throttle[k].count + 1, blocked |-> Blocks(throttle[k].count + 1)]
  PROVE  Bound(k)'
<1>1. Cardinality(Under(k)') = Cardinality(Under(k)) - 1 /\ Cardinality(Under(k)) \in Nat
      /\ Cardinality(Under(k)) <= Cardinality(Attempts)
  BY AttemptsFinite, FS_RemoveElement
<1>2. throttle'[k].count = throttle[k].count + 1 /\ throttle'[k].blocked = Blocks(throttle[k].count + 1)
  OBVIOUS
<1>3. ASSUME NEW u \in Nat, NEW n \in Nat, n < MaxFailures \/ n + u < MaxFailures + Cardinality(Attempts),
             u <= Cardinality(Attempts), n + 1 >= MaxFailures
      PROVE  (n + 1) + (u - 1) < MaxFailures + Cardinality(Attempts)
  BY <1>3, AttemptsFinite
<1>4. CASE throttle[k].count + 1 < MaxFailures
  BY <1>2, <1>4 DEF Bound
<1>5. CASE throttle[k].count + 1 >= MaxFailures
  <2>1. (throttle[k].count + 1) + (Cardinality(Under(k)) - 1) < MaxFailures + Cardinality(Attempts)
    BY <1>1, <1>3, <1>5 DEF Bound
  <2> QED BY <1>1, <1>2, <1>5, <2>1 DEF Bound, Blocks
<1> QED BY <1>4, <1>5, AttemptsFinite

LEMMA ThrottleInit0 == ThrottleInit => ThrottleInv
BY AttemptsFinite DEF ThrottleInit, ThrottleInv, NoFailures, Bound, Stage

LEMMA ThrottleKept ==
  ASSUME ThrottleInv,
         ThrottleStep \/ (\E a \in Attempts : RightPassword(a) \/ SignedIn(a)) \/ UNCHANGED throttleVars
  PROVE  ThrottleInv'
<1>0. /\ throttle \in [ThrottleKeys -> [count : Nat, blocked : BOOLEAN]] /\ attempt \in [Attempts -> Stage]
      /\ \A k \in ThrottleKeys : Bound(k) /\ throttle[k].count \in Nat
      /\ "user" \in ThrottleKeys /\ "address" \in ThrottleKeys
      /\ \A k \in ThrottleKeys : k = "user" \/ k = "address"
  BY DEF ThrottleInv, ThrottleKeys
<1>1. ASSUME NEW a \in Attempts, CheckUser(a) \/ CheckAddress(a) PROVE ThrottleInv'
  <2>1. attempt' \in [Attempts -> Stage] /\ throttle' = throttle
    BY <1>0, <1>1 DEF CheckUser, CheckAddress, Goes, Stage
  <2>2. \A k \in ThrottleKeys : ~throttle[k].blocked \/ Under(k)' \subseteq Under(k)
    BY <1>0, <1>1 DEF CheckUser, CheckAddress, Open, Goes, Under
  <2>3. \A k \in ThrottleKeys : Bound(k)'
    <3>1. ASSUME NEW k \in ThrottleKeys, ~throttle[k].blocked PROVE Bound(k)'
      BY <1>0, <2>1, <3>1 DEF Bound
    <3> QED BY <1>0, <2>1, <2>2, <3>1, BoundKept
  <2> QED BY <1>0, <2>1, <2>3 DEF ThrottleInv
<1>2. ASSUME NEW a \in Attempts,
             WrongPassword(a) \/ RightPassword(a) \/ SignedIn(a) \/ GiveUp(a)
      PROVE  ThrottleInv'
  <2>1. attempt' \in [Attempts -> Stage] /\ throttle' = throttle
    BY <1>0, <1>2 DEF WrongPassword, RightPassword, SignedIn, GiveUp, Goes, Stage
  <2>2. \A k \in ThrottleKeys : Under(k)' \subseteq Under(k)
    BY <1>0, <1>2 DEF WrongPassword, RightPassword, SignedIn, GiveUp, Goes, Under
  <2>3. \A k \in ThrottleKeys : Bound(k)'
    BY <1>0, <2>1, <2>2, BoundKept
  <2> QED BY <1>0, <2>1, <2>3 DEF ThrottleInv
<1>3. ASSUME NEW a \in Attempts, NEW key \in ThrottleKeys,
             \/ key = "user" /\ CountUser(a)
             \/ key = "address" /\ CountAddress(a)
      PROVE  ThrottleInv'
  <2> DEFINE n == throttle[key].count + 1
             row == [count |-> n, blocked |-> Blocks(n)]
  <2>1. attempt' \in [Attempts -> Stage] /\ Counted(key)
    BY <1>0, <1>3 DEF CountUser, CountAddress, Goes, Stage
  <2>2. throttle' = [throttle EXCEPT ![key] = row]
    BY <2>1 DEF Counted
  <2>3. n \in Nat /\ Blocks(n) \in BOOLEAN
    BY <1>0 DEF Blocks
  <2>4. row \in [count : Nat, blocked : BOOLEAN]
    <3> HIDE DEF n
    <3> QED BY <2>3
  <2>5. throttle' \in [ThrottleKeys -> [count : Nat, blocked : BOOLEAN]]
    <3> HIDE DEF row
    <3> QED BY <1>0, <2>2, <2>4
  <2>6. a \in Under(key) /\ Under(key)' = Under(key) \ {a}
    BY <1>0, <1>3 DEF CountUser, CountAddress, Goes, Under
  <2>7. \A k \in ThrottleKeys : k # key => throttle'[k] = throttle[k] /\ Under(k)' = Under(k)
    <3>1. \A k \in ThrottleKeys : k # key => Under(k)' = Under(k)
      BY <1>0, <1>3 DEF CountUser, CountAddress, Goes, Under
    <3> HIDE DEF row
    <3> QED BY <1>0, <2>2, <3>1
  <2>8. Bound(key)'
    <3>1. throttle'[key] = row
      <4> HIDE DEF row
      <4> QED BY <1>0, <2>2
    <3> QED BY <1>0, <2>6, <3>1, BoundCounted
  <2>9. \A k \in ThrottleKeys : k # key => Bound(k)'
    BY <1>0, <2>7, BoundKept
  <2> QED BY <2>1, <2>5, <2>8, <2>9 DEF ThrottleInv
<1>4. ASSUME NEW key \in ThrottleKeys, NEW row \in [count : {0}, blocked : BOOLEAN],
             throttle' = [throttle EXCEPT ![key] = row],
             attempt' \in [Attempts -> Stage], \A k \in ThrottleKeys : Under(k)' = Under(k)
      PROVE  ThrottleInv'
  <2>1. throttle' \in [ThrottleKeys -> [count : Nat, blocked : BOOLEAN]] /\ throttle'[key].count = 0
        /\ \A k \in ThrottleKeys : k # key => throttle'[k] = throttle[k]
    BY <1>0, <1>4
  <2>2. Bound(key)'
    BY <2>1, AttemptsFinite DEF Bound
  <2>3. \A k \in ThrottleKeys : k # key => Bound(k)'
    BY <1>0, <1>4, <2>1, BoundKept
  <2> QED BY <1>4, <2>1, <2>2, <2>3 DEF ThrottleInv
<1>5. ASSUME NEW a \in Attempts, ClearUser(a) \/ ClearAddress(a) PROVE ThrottleInv'
  <2>1. attempt' \in [Attempts -> Stage] /\ \A k \in ThrottleKeys : Under(k)' = Under(k)
    BY <1>0, <1>5 DEF ClearUser, ClearAddress, Goes, Under, Stage
  <2>2. NoFailures \in [count : {0}, blocked : BOOLEAN]
    BY DEF NoFailures
  <2> QED BY <1>0, <1>4, <1>5, <2>1, <2>2 DEF ClearUser, ClearAddress
<1>6. ASSUME NEW k \in ThrottleKeys, WindowEnds(k) \/ BlockEnds(k) PROVE ThrottleInv'
  <2>1. attempt' = attempt /\ \A j \in ThrottleKeys : Under(j)' = Under(j)
    BY <1>6 DEF WindowEnds, BlockEnds, Under
  <2>2. PICK row \in [count : {0}, blocked : BOOLEAN] : throttle' = [throttle EXCEPT ![k] = row]
    <3>0. throttle[k] \in [count : Nat, blocked : BOOLEAN]
      BY <1>0
    <3>1. CASE WindowEnds(k)
      <4>1. throttle' = [throttle EXCEPT ![k] = [throttle[k] EXCEPT !.count = 0]]
        BY <3>1 DEF WindowEnds
      <4>2. [throttle[k] EXCEPT !.count = 0] \in [count : {0}, blocked : BOOLEAN]
        BY <3>0
      <4> QED BY <4>1, <4>2
    <3>2. CASE BlockEnds(k)
      <4>1. throttle' = [throttle EXCEPT ![k] = [throttle[k] EXCEPT !.blocked = FALSE]]
        BY <3>2 DEF BlockEnds
      <4>2. [throttle[k] EXCEPT !.blocked = FALSE] \in [count : {0}, blocked : BOOLEAN]
        BY <3>0, <3>2 DEF BlockEnds
      <4> QED BY <4>1, <4>2
    <3> QED BY <1>6, <3>1, <3>2
  <2> QED BY <1>0, <1>4, <2>1, <2>2
<1>7. CASE UNCHANGED throttleVars
  BY <1>7 DEF throttleVars, ThrottleInv, Bound, Under
<1> QED BY <1>1, <1>2, <1>3, <1>5, <1>6, <1>7, <1>0 DEF ThrottleStep

\* What the bound says, and the type of the counters.
LEMMA ThrottleFacts ==
  ASSUME ThrottleInv
  PROVE  ThrottleTypeOK /\ FailuresAreBounded
<1>1. ASSUME NEW k \in ThrottleKeys
      PROVE  /\ throttle[k].count <= MaxFailures + Cardinality(Attempts) - 1
             /\ throttle[k].count \in 0 .. MostFailures
  <2>1. throttle[k].count \in Nat /\ Bound(k)
    BY DEF ThrottleInv
  <2>2. Cardinality(Under(k)) \in Nat
    BY AttemptsFinite
  <2> QED BY <2>1, <2>2, AttemptsFinite DEF Bound, MostFailures
<1>2. throttle \in [ThrottleKeys -> [count : 0 .. MostFailures, blocked : BOOLEAN]]
  BY <1>1 DEF ThrottleInv
<1> QED BY <1>1, <1>2 DEF ThrottleInv, ThrottleTypeOK, FailuresAreBounded

-----------------------------------------------------------------------------
(* The nonce.                                                              *)

Operating == { r \in Requests : req[r].pc = "operate" }

\* Nothing is done before the nonce is used; whoever used it is the only one to do
\* it, and has not done it yet.
Once ==
  /\ done \in {0, 1}
  /\ nonce \in {"none", "open"} => done = 0 /\ Operating = {}
  /\ \A r \in Operating : done = 0 /\ Operating = {r}

\* The rows and the requests, without the throttle.
Rows ==
  /\ enabled \in BOOLEAN
  /\ session \in [Logins -> Row]
  /\ jar \in Cookie
  /\ nonce \in {"none", "open", "used", "gone"}
  /\ req \in [Requests -> Request]

-----------------------------------------------------------------------------
(* Requests.                                                               *)

\* Moving on in the handler, and ending with an answer.
LEMMA ServeType ==
  ASSUME Rows, NEW r \in Requests,
         NEW pc \in {"idle", "sent", "touch", "renew", "handle", "operate", "answer", "signout"},
         Serve(r, pc)
  PROVE  /\ req' \in [Requests -> Request]
         /\ pc # "operate" => Operating' = Operating \ {r}
         /\ pc = "operate" => Operating' = Operating \cup {r}
BY DEF Rows, Serve, Request, Operating

LEMMA EndsType ==
  ASSUME Rows, NEW r \in Requests, NEW pc \in {"answer", "signout"}, Ends(r, pc)
  PROVE  req' \in [Requests -> Request] /\ Operating' = Operating \ {r}
<1> DEFINE t == IF req[r].renewed /\ pc = "answer" THEN req[r].token ELSE NoToken
           n == req[r].renewed /\ pc = "answer"
<1>1. t \in Cookie /\ n \in BOOLEAN
  BY DEF Rows, Request, Cookie
<1>2. req' = [req EXCEPT ![r].pc = pc, ![r].kind = "view", ![r].fits = FALSE, ![r].token = t,
                         ![r].renewed = n]
  BY DEF Ends
<1> DEFINE new == [req[r] EXCEPT !.pc = pc, !.kind = "view", !.fits = FALSE, !.token = t, !.renewed = n]
<1>3. req' = [req EXCEPT ![r] = new]
  BY <1>2
<1>4. new \in Request /\ new.pc # "operate"
  <2> HIDE DEF t, n
  <2> QED BY <1>1 DEF Rows, Request, Kinds
<1> HIDE DEF new
<1> QED BY <1>3, <1>4 DEF Rows, Operating

LEMMA IdleType ==
  ASSUME Rows, NEW r \in Requests, req' = [req EXCEPT ![r] = IdleReq]
  PROVE  req' \in [Requests -> Request] /\ Operating' = Operating \ {r}
BY DEF Rows, Request, Kinds, Operating, IdleReq, Cookie

\* A request's step keeps the rows, and the operation to one request.
LEMMA RequestKeeps ==
  ASSUME Rows, Once, NEW r \in Requests, RequestStep(r)
  PROVE  Rows' /\ Once' /\ UNCHANGED throttleVars
<1>0. /\ enabled \in BOOLEAN /\ session \in [Logins -> Row] /\ jar \in Cookie
      /\ nonce \in {"none", "open", "used", "gone"} /\ req \in [Requests -> Request]
      /\ MaxTokens \in Nat /\ req[r].token \in Cookie /\ req[r].renewed \in BOOLEAN
  BY AccessAssumption DEF Rows, Request
<1>1. ASSUME req' \in [Requests -> Request], Operating' \subseteq Operating, UNCHANGED nonceVars
      PROVE  Once'
  BY <1>1 DEF Once, nonceVars
<1>2. ASSUME NEW k \in Kinds, Send(r, k) PROVE Rows' /\ Once' /\ UNCHANGED throttleVars
  <2>1. PICK f \in BOOLEAN :
          req' = [req EXCEPT ![r] = [pc |-> "sent", kind |-> k, token |-> jar, fits |-> f,
                                     renewed |-> FALSE]]
    BY <1>2 DEF Send
  <2>2. req' \in [Requests -> Request] /\ Operating' \subseteq Operating
    BY <1>0, <2>1 DEF Request, Operating
  <2> QED BY <1>0, <1>1, <1>2, <2>2 DEF Send, OnlyReq, accountVars, nonceVars, Rows
<1>3. CASE Authenticate(r)
  <2>1. req' \in [Requests -> Request] /\ Operating' \subseteq Operating
    <3>1. CASE Known(req[r].token)
      <4>1. PICK pc \in {"renew", "touch"} : Serve(r, pc)
        BY <1>3, <3>1 DEF Authenticate
      <4> QED BY <4>1, ServeType
    <3>2. CASE ~Known(req[r].token)
      BY <1>3, <3>2, EndsType DEF Authenticate
    <3> QED BY <3>1, <3>2
  <2> QED BY <1>0, <1>1, <1>3, <2>1 DEF Authenticate, OnlyReq, accountVars, nonceVars, Rows
<1>4. CASE Rotate(r)
  <2> DEFINE t == req[r].token
  <2>1. CASE Replaceable(t)
    <3>1. /\ t \in Token /\ t[1] \in Logins /\ t[2] \in 0 .. MaxTokens /\ t[2] < MaxTokens
          /\ session[t[1]].version = t[2]
      BY <1>0, <1>4, <2>1 DEF Rotate, Replaceable, Current, Cookie, Token
    <3>2. t[2] + 1 \in 0 .. MaxTokens /\ <<t[1], t[2] + 1>> \in Cookie
      BY <1>0, <3>1 DEF Cookie, Token
    <3>3. Renewed(t[1]) \in Row
      BY <3>1, <3>2 DEF Renewed, Row
    <3>4. session' \in [Logins -> Row]
      BY <1>0, <1>4, <2>1, <3>1, <3>3 DEF Rotate
    <3> DEFINE new == <<t[1], t[2] + 1>>
    <3>5. req' = [req EXCEPT ![r].pc = "handle", ![r].token = new, ![r].renewed = TRUE]
      BY <1>4, <2>1 DEF Rotate
    <3>6. req' \in [Requests -> Request] /\ Operating' \subseteq Operating
      <4>1. new \in Cookie
        BY <3>2
      <4> HIDE DEF new
      <4> DEFINE next == [req[r] EXCEPT !.pc = "handle", !.token = new, !.renewed = TRUE]
      <4>2. next \in Request /\ next.pc = "handle"
        BY <1>0, <4>1 DEF Request
      <4>3. req' = [req EXCEPT ![r] = next]
        BY <1>0, <3>5
      <4> HIDE DEF next
      <4>4. req' \in [Requests -> Request]
        BY <1>0, <4>2, <4>3
      <4>5. \A q \in Requests : req'[q].pc = "operate" => req[q].pc = "operate"
        BY <1>0, <4>2, <4>3
      <4> QED BY <4>4, <4>5 DEF Operating
    <3> QED BY <1>0, <1>1, <1>4, <3>4, <3>6 DEF Rotate, nonceVars, Rows
  <2>2. CASE ~Replaceable(t)
    <3>1. req' \in [Requests -> Request] /\ Operating' \subseteq Operating /\ session' = session
      BY <1>4, <2>2, EndsType DEF Rotate
    <3> QED BY <1>0, <1>1, <1>4, <3>1 DEF Rotate, nonceVars, Rows
  <2> QED BY <2>1, <2>2
<1>5. CASE Touch(r)
  <2>1. session' \in [Logins -> Row]
    BY <1>0, <1>5, ZenonT(80) DEF Touch, Row
  <2>2. req' \in [Requests -> Request] /\ Operating' \subseteq Operating
    BY <1>5, ServeType DEF Touch
  <2> QED BY <1>0, <1>1, <1>5, <2>1, <2>2 DEF Touch, nonceVars, Rows
<1>6. CASE View(r) \/ Refuse(r)
  <2>1. req' \in [Requests -> Request] /\ Operating' \subseteq Operating
    BY <1>6, EndsType DEF View, Refuse
  <2> QED BY <1>0, <1>1, <1>6, <2>1 DEF View, Refuse, OnlyReq, accountVars, nonceVars, Rows
<1>7. CASE Ask(r)
  <2>1. req' \in [Requests -> Request] /\ Operating' \subseteq Operating
    BY <1>7, EndsType DEF Ask
  <2>2. nonce = "none" /\ nonce' = "open" /\ done' = done
    BY <1>7 DEF Ask
  <2>3. Once'
    BY <2>1, <2>2 DEF Once
  <2> QED BY <1>0, <1>7, <2>1, <2>2, <2>3 DEF Ask, accountVars, Rows
<1>8. CASE Confirm(r)
  <2>1. CASE Accepted
    <3>1. nonce = "open" /\ nonce' = "used" /\ done' = done /\ Serve(r, "operate")
      BY <1>8, <2>1 DEF Confirm, Accepted
    <3>2. req' \in [Requests -> Request] /\ Operating' = Operating \cup {r}
      BY <3>1, ServeType
    <3>3. Once'
      BY <3>1, <3>2 DEF Once
    <3> QED BY <1>0, <1>8, <3>1, <3>2, <3>3 DEF Confirm, accountVars, Rows
  <2>2. CASE ~Accepted
    <3>1. req' \in [Requests -> Request] /\ Operating' \subseteq Operating
      BY <1>8, <2>2, EndsType DEF Confirm
    <3> QED BY <1>0, <1>1, <1>8, <2>2, <3>1 DEF Confirm, accountVars, nonceVars, Rows
  <2> QED BY <2>1, <2>2
<1>9. CASE Operate(r)
  <2>1. req' \in [Requests -> Request] /\ Operating' = Operating \ {r}
    BY <1>9, EndsType DEF Operate
  <2>2. r \in Operating /\ nonce' = nonce /\ done' \in {done, IF done < 2 THEN done + 1 ELSE done}
    BY <1>9 DEF Operate, Operating
  <2>3. done = 0 /\ Operating = {r}
    BY <2>2 DEF Once
  <2>4. Once'
    BY <2>1, <2>2, <2>3 DEF Once
  <2> QED BY <1>0, <1>9, <2>1, <2>2, <2>4 DEF Operate, accountVars, Rows
<1>10. CASE Logout(r)
  <2>1. session' \in [Logins -> Row]
    BY <1>0, <1>10 DEF Logout, Row
  <2>2. req' \in [Requests -> Request] /\ Operating' \subseteq Operating
    BY <1>10, EndsType DEF Logout
  <2> QED BY <1>0, <1>1, <1>10, <2>1, <2>2 DEF Logout, nonceVars, Rows
<1>11. CASE Receive(r)
  <2>1. jar' \in Cookie
    BY <1>0, <1>11 DEF Receive, Cookie
  <2>2. req' \in [Requests -> Request] /\ Operating' \subseteq Operating
    BY <1>11, IdleType DEF Receive
  <2> QED BY <1>0, <1>1, <1>11, <2>1, <2>2 DEF Receive, accountVars, nonceVars, Rows
<1>12. CASE Cancel(r)
  <2>1. req' \in [Requests -> Request] /\ Operating' \subseteq Operating
    BY <1>12, IdleType DEF Cancel
  <2> QED BY <1>0, <1>1, <1>12, <2>1 DEF Cancel, OnlyReq, accountVars, nonceVars, Rows
<1> QED BY <1>2, <1>3, <1>4, <1>5, <1>6, <1>7, <1>8, <1>9, <1>10, <1>11, <1>12 DEF RequestStep

-----------------------------------------------------------------------------
(* The invariant.                                                          *)

IInv == ThrottleInv /\ Rows /\ Once

LEMMA InitIInv == Init => IInv
<1> SUFFICES ASSUME Init PROVE IInv
  OBVIOUS
<1>1. ThrottleInv
  BY ThrottleInit0 DEF Init
<1>2. \A r \in Requests : req[r] = IdleReq
  BY DEF Init
<1>3. IdleReq \in Request
  BY DEF IdleReq, Request, Kinds, Cookie
<1>4. NoRow \in Row
  BY AccessAssumption DEF NoRow, Row
<1>5. Rows
  BY <1>3, <1>4 DEF Init, Rows, Cookie
<1>6. Operating = {}
  BY <1>2 DEF Operating, IdleReq
<1>7. Once
  BY <1>6 DEF Init, Once
<1> QED BY <1>1, <1>5, <1>7 DEF IInv

\* Signing in and the administrator's commands touch no request.
LEMMA OthersKeep ==
  ASSUME Rows, Once, LoginStep \/ RevokeAll \/ SetDisabled \/ TimeStep
  PROVE  Rows' /\ Once'
<1>0. /\ enabled \in BOOLEAN /\ session \in [Logins -> Row] /\ jar \in Cookie
      /\ nonce \in {"none", "open", "used", "gone"} /\ req \in [Requests -> Request]
      /\ MaxTokens \in Nat
  BY AccessAssumption DEF Rows
<1>1. ASSUME UNCHANGED req, UNCHANGED nonceVars PROVE Once'
  BY <1>1 DEF Once, nonceVars, Operating
<1>2. Revoked \in [Logins -> Row]
  BY <1>0 DEF Revoked, Row
<1>3. CASE ThrottleStep /\ OnlyThrottle
  BY <1>0, <1>1, <1>3 DEF OnlyThrottle, accountVars, nonceVars, Rows
<1>4. ASSUME NEW a \in Attempts, Verify(a) PROVE Rows' /\ Once'
  BY <1>0, <1>1, <1>4 DEF Verify, OnlyThrottle, accountVars, nonceVars, Rows
<1>5. ASSUME NEW a \in Attempts, OpenSession(a) PROVE Rows' /\ Once'
  <2>1. PICK s \in Logins : /\ session' = [session EXCEPT ![s].state = "live"]
                            /\ jar' = jar \/ jar' = <<s, 0>>
    BY <1>5 DEF OpenSession
  <2>2. session' \in [Logins -> Row] /\ jar' \in Cookie
    BY <1>0, <2>1 DEF Row, Cookie, Token
  <2> QED BY <1>0, <1>1, <1>5, <2>2 DEF OpenSession, nonceVars, Rows
<1>6. CASE RevokeAll \/ SetDisabled
  <2>1. session' \in [Logins -> Row] /\ enabled' \in BOOLEAN
    BY <1>0, <1>2, <1>6 DEF RevokeAll, SetDisabled
  <2> QED BY <1>0, <1>1, <1>6, <2>1 DEF RevokeAll, SetDisabled, nonceVars, Rows
<1>7. ASSUME NEW s \in Logins, Ages(s) PROVE Rows' /\ Once'
  <2>1. Older[session[s].age] \in {"old", "over", "past"}
    BY <1>0, <1>7 DEF Ages, Older, Row
  <2> DEFINE age == Older[session[s].age]
  <2>2. session' = [session EXCEPT ![s].age = age]
    BY <1>7 DEF Ages
  <2>3. session' \in [Logins -> Row]
    <3>1. age \in {"old", "over", "past"}
      BY <2>1
    <3> HIDE DEF age
    <3> QED BY <1>0, <2>2, <3>1 DEF Row
  <2> QED BY <1>0, <1>1, <1>7, <2>3 DEF Ages, nonceVars, Rows
<1>8. CASE NonceExpires
  <2>1. nonce' = "gone" /\ done' = done /\ req' = req
    BY <1>8 DEF NonceExpires
  <2>2. Once'
    BY <2>1 DEF Once, Operating
  <2> QED BY <1>0, <1>8, <2>1, <2>2 DEF NonceExpires, accountVars, Rows
<1>9. CASE CleanSessions
  <2>1. [NoRow EXCEPT !.state = "gone"] \in Row
    BY <1>0 DEF NoRow, Row
  <2>2. session' \in [Logins -> Row]
    BY <1>0, <1>9, <2>1 DEF CleanSessions
  <2> QED BY <1>0, <1>1, <1>9, <2>2 DEF CleanSessions, nonceVars, Rows
<1> QED BY <1>3, <1>4, <1>5, <1>6, <1>7, <1>8, <1>9 DEF LoginStep, TimeStep

\* Every step keeps the invariant.
LEMMA IInvStep ==
  ASSUME IInv, [Next]_vars
  PROVE  IInv'
<1>0. ThrottleInv /\ Rows /\ Once
  BY DEF IInv
<1>1. CASE LoginStep
  <2>1. ThrottleStep \/ \E a \in Attempts : RightPassword(a) \/ SignedIn(a)
    BY <1>1 DEF LoginStep, Verify, OpenSession
  <2>2. ThrottleInv'
    BY <1>0, <2>1, ThrottleKept
  <2> QED BY <1>0, <1>1, <2>2, OthersKeep DEF IInv
<1>2. CASE RevokeAll \/ SetDisabled \/ TimeStep
  <2>1. UNCHANGED throttleVars
    BY <1>2 DEF RevokeAll, SetDisabled, TimeStep, NonceExpires, CleanSessions, Ages
  <2>2. ThrottleInv'
    BY <1>0, <2>1, ThrottleKept
  <2> QED BY <1>0, <1>2, <2>2, OthersKeep DEF IInv
<1>3. ASSUME NEW r \in Requests, RequestStep(r) PROVE IInv'
  <2>1. Rows' /\ Once' /\ UNCHANGED throttleVars
    BY <1>0, <1>3, RequestKeeps
  <2>2. ThrottleInv'
    BY <1>0, <2>1, ThrottleKept
  <2> QED BY <2>1, <2>2 DEF IInv
<1>4. CASE UNCHANGED vars
  <2>1. UNCHANGED throttleVars
    BY <1>4 DEF vars
  <2>2. ThrottleInv'
    BY <1>0, <2>1, ThrottleKept
  <2>3. Rows' /\ Once'
    BY <1>0, <1>4 DEF vars, accountVars, nonceVars, Rows, Once, Operating
  <2> QED BY <2>2, <2>3 DEF IInv
<1> QED BY <1>1, <1>2, <1>3, <1>4 DEF Next

LEMMA AlwaysIInv == Spec => []IInv
<1>1. Init => IInv
  BY InitIInv
<1>2. IInv /\ [Next]_vars => IInv'
  BY IInvStep
<1> QED BY <1>1, <1>2, PTL DEF Spec

-----------------------------------------------------------------------------
(* The results.                                                            *)

\* The throttle, the sessions, the cookie, the nonce and the requests keep their types
\* (auth_throttle, web_session, action_nonce).
THEOREM AccessTypeCorrect == Spec => []TypeOK
<1>1. IInv => TypeOK
  BY ThrottleFacts DEF IInv, Rows, Once, TypeOK
<1> QED BY <1>1, AlwaysIInv, PTL

\* In one window a key is tried at most MaxFailures times, and by what was under way when
\* the last of these was counted, for any number of overlapping sign-ins (login,
\* record_auth_failure).
THEOREM FailuresAlwaysBounded == Spec => []FailuresAreBounded
<1>1. IInv => FailuresAreBounded
  BY ThrottleFacts DEF IInv
<1> QED BY <1>1, AlwaysIInv, PTL

\* A confirmed operation is done at most once, for any number of requests that carry its
\* nonce (consume_action_nonce before the operation).
THEOREM AlwaysDoneOnce == Spec => []DoneOnce
<1>1. IInv => DoneOnce
  BY DEF IInv, Once, DoneOnce
<1> QED BY <1>1, AlwaysIInv, PTL

\* A session that was revoked or deleted is never live again, whatever the requests that
\* looked it up before still write (touch_web_session, rotate_web_session).
THEOREM RevokedAlwaysOut == Spec => RevokedStaysOut
<1> DEFINE Out == \A s \in Logins : session[s].state \in {"revoked", "gone"} =>
                    session'[s].state \in {"revoked", "gone"}
<1>1. ASSUME IInv, [Next]_vars PROVE Out
  <2> SUFFICES ASSUME NEW s \in Logins, session[s].state \in {"revoked", "gone"}
               PROVE  session'[s].state \in {"revoked", "gone"}
    OBVIOUS
  <2>0. session \in [Logins -> Row] /\ ~Live(s) /\ session[s].state # "none"
    BY <1>1 DEF IInv, Rows, Live
  <2>1. ASSUME UNCHANGED session PROVE session'[s].state \in {"revoked", "gone"}
    BY <2>1
  <2>2. ASSUME NEW x \in Logins, session[x].state \in {"none", "live"}, NEW row,
               session' = [session EXCEPT ![x] = row]
        PROVE  session'[s].state \in {"revoked", "gone"}
    BY <2>0, <2>2
  <2>3. CASE LoginStep
    <3>1. CASE ThrottleStep /\ OnlyThrottle
      BY <2>1, <3>1 DEF OnlyThrottle, accountVars
    <3>2. ASSUME NEW a \in Attempts, Verify(a) PROVE UNCHANGED session
      BY <3>2 DEF Verify, OnlyThrottle, accountVars
    <3>3. ASSUME NEW a \in Attempts, OpenSession(a)
          PROVE  session'[s].state \in {"revoked", "gone"}
      <4>1. PICK x \in Logins : session[x].state = "none"
                                /\ session' = [session EXCEPT ![x].state = "live"]
        BY <3>3 DEF OpenSession
      <4> QED BY <2>2, <4>1
    <3> QED BY <2>1, <2>3, <3>1, <3>2, <3>3 DEF LoginStep
  <2>4. CASE RevokeAll \/ SetDisabled
    <3>1. session' = Revoked \/ session' = session
      BY <2>4 DEF RevokeAll, SetDisabled
    <3> QED BY <2>0, <3>1 DEF Revoked
  <2>5. CASE TimeStep
    <3>1. CASE NonceExpires
      BY <2>1, <3>1 DEF NonceExpires, accountVars
    <3>2. CASE CleanSessions
      BY <2>0, <3>2 DEF CleanSessions, NoRow
    <3>3. ASSUME NEW x \in Logins, Ages(x) PROVE session'[s].state \in {"revoked", "gone"}
      BY <2>2, <3>3 DEF Ages, Live
    <3> QED BY <2>5, <3>1, <3>2, <3>3 DEF TimeStep
  <2>6. ASSUME NEW r \in Requests, RequestStep(r) PROVE session'[s].state \in {"revoked", "gone"}
    <3>0. req[r].token \in Cookie
      BY <1>1 DEF IInv, Rows, Request
    <3>1. ASSUME Current(req[r].token) PROVE req[r].token[1] \in Logins /\ Live(req[r].token[1])
      BY <3>0, <3>1 DEF Current, Cookie, Token
    <3>2. CASE Rotate(r)
      BY <2>1, <2>2, <3>1, <3>2 DEF Rotate, Replaceable, Live
    <3>3. CASE Touch(r) \/ Logout(r)
      BY <2>1, <2>2, <3>1, <3>3 DEF Touch, Logout, Live
    <3>4. CASE \/ (\E k \in Kinds : Send(r, k)) \/ Authenticate(r) \/ View(r) \/ Refuse(r) \/ Ask(r)
               \/ Confirm(r) \/ Operate(r) \/ Receive(r) \/ Cancel(r)
      BY <2>1, <3>4 DEF Send, Authenticate, View, Refuse, Ask, Confirm, Operate, Receive, Cancel,
                        OnlyReq, accountVars
    <3> QED BY <2>6, <3>2, <3>3, <3>4 DEF RequestStep
  <2>7. CASE UNCHANGED vars
    BY <2>1, <2>7 DEF vars, accountVars
  <2> QED BY <1>1, <2>3, <2>4, <2>5, <2>6, <2>7 DEF Next
<1>2. IInv /\ [Next]_vars => [Out]_vars
  BY <1>1
<1>3. Spec => [][Out]_vars
  BY <1>2, AlwaysIInv, PTL DEF Spec
<1> QED BY <1>3 DEF RevokedStaysOut
=============================================================================
