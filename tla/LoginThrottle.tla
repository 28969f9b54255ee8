--------------------------- MODULE LoginThrottle ---------------------------
(***************************************************************************)
(* Signing in: an attempt looks whether its user or its address is         *)
(* blocked, verifies the password, which takes a while, and then either    *)
(* counts a failure under both keys, one transaction each, or forgets the  *)
(* failures of both, one statement each, and opens a session.  Attempts    *)
(* run concurrently.                                                       *)
(***************************************************************************)
EXTENDS Integers, FiniteSets

CONSTANTS Attempts,     \* concurrent sign-ins of one user from one address
          MaxFailures   \* web.login_max_failures

ASSUME ThrottleAssumption == MaxFailures \in Nat \ {0} /\ IsFiniteSet(Attempts)

VARIABLES
  throttle, \* the rows of auth_throttle for the user and the address
  attempt   \* how far each sign-in is

throttleVars == <<throttle, attempt>>

ThrottleKeys == {"user", "address"}
NoFailures   == [count |-> 0, blocked |-> FALSE]
Stage == {"idle", "asked", "checked", "failed", "counted", "right", "cleared", "known"}

\* A window in which more attempts fail than may be under way is not counted on.
MostFailures == MaxFailures + Cardinality(Attempts)

ThrottleTypeOK ==
  /\ throttle \in [ThrottleKeys -> [count : 0 .. MostFailures, blocked : BOOLEAN]]
  /\ attempt \in [Attempts -> Stage]

ThrottleInit ==
  /\ throttle = [k \in ThrottleKeys |-> NoFailures]
  /\ attempt = [a \in Attempts |-> "idle"]

Goes(a, from, to) == attempt[a] = from /\ attempt' = [attempt EXCEPT ![a] = to]

\* Mutant: only the user is looked at.
OpenUser(k) == k = "user" => ~throttle[k].blocked

\* auth_throttle_blocked_until
Open(k) == ~throttle[k].blocked

\* The attempt is refused unless neither key is blocked; one is read after the other.
CheckUser(a)    == Open("user") /\ Goes(a, "idle", "asked") /\ UNCHANGED throttle
CheckAddress(a) == Open("address") /\ Goes(a, "asked", "checked") /\ UNCHANGED throttle

WrongPassword(a) == Goes(a, "checked", "failed") /\ UNCHANGED throttle

\* Mutant: one failure more is allowed.
BlocksLate(n) == n > MaxFailures

Blocks(n) == n >= MaxFailures

\* record_auth_failure: the block lasts at least as long as the window.
Counted(k) ==
  LET n == throttle[k].count + 1
  IN  throttle' = [throttle EXCEPT ![k] = [count |-> n, blocked |-> Blocks(n)]]

CountUser(a)    == Goes(a, "failed", "counted") /\ Counted("user")
CountAddress(a) == Goes(a, "counted", "idle") /\ Counted("address")

\* The password is right and the account enabled.
RightPassword(a) == Goes(a, "checked", "right") /\ UNCHANGED throttle

\* clear_auth_throttle
ClearUser(a) ==
  /\ Goes(a, "right", "cleared")
  /\ throttle' = [throttle EXCEPT !["user"] = NoFailures]

ClearAddress(a) ==
  /\ Goes(a, "cleared", "known")
  /\ throttle' = [throttle EXCEPT !["address"] = NoFailures]

\* The session is there.
SignedIn(a) == Goes(a, "known", "idle") /\ UNCHANGED throttle

\* The connection is closed or the request times out.
GiveUp(a) ==
  /\ attempt[a] # "idle"
  /\ attempt' = [attempt EXCEPT ![a] = "idle"]
  /\ UNCHANGED throttle

\* The window of k is over: the next failure is the first of a new one.  A block
\* outlasts its window.
WindowEnds(k) ==
  /\ throttle[k].count > 0
  /\ throttle' = [throttle EXCEPT ![k].count = 0]
  /\ UNCHANGED attempt

BlockEnds(k) ==
  /\ throttle[k].blocked /\ throttle[k].count = 0
  /\ throttle' = [throttle EXCEPT ![k].blocked = FALSE]
  /\ UNCHANGED attempt

ThrottleStep ==
  \/ \E a \in Attempts :
       \/ CheckUser(a) \/ CheckAddress(a) \/ WrongPassword(a) \/ CountUser(a) \/ CountAddress(a)
       \/ ClearUser(a) \/ ClearAddress(a) \/ GiveUp(a)
  \/ \E k \in ThrottleKeys : WindowEnds(k) \/ BlockEnds(k)

\* In one window a key is tried at most MaxFailures times, and by what was under
\* way when the last of these was counted (login, record_auth_failure).
FailuresAreBounded ==
  \A k \in ThrottleKeys : throttle[k].count <= MaxFailures + Cardinality(Attempts) - 1

=============================================================================
