---------------------------- MODULE MC_WebAccess ----------------------------
(* Small instances of WebAccess.                                           *)
EXTENDS WebAccess, TLC

\* Sign-ins and the requests of a session are looked at apart: a sign-in under way
\* touches neither a session nor a request until it opens a session of its own.
SigningInOrUsing ==
  \/ \A s \in Logins : session[s] = NoRow
  \/ /\ throttle = [k \in ThrottleKeys |-> NoFailures]
     /\ \A a \in Attempts : attempt[a] = "idle"

Alike == Permutations(Requests) \cup Permutations(Attempts)
=============================================================================
