----------------------------- MODULE WebAccess -----------------------------
(***************************************************************************)
(* The account of the web server, its sessions and the requests of one     *)
(* browser.  A session is one row under the hash of its current token;     *)
(* after half an hour the next request replaces the token.  A request      *)
(* looks the session up, touches it or replaces its token, and runs its    *)
(* handler; the browser learns of the new token, or that it has to sign in *)
(* again, from the answer.  An important operation is confirmed on a form  *)
(* with a nonce.  Requests overlap, answers overtake each other, and a     *)
(* request can end at any point.                                           *)
(*                                                                         *)
(* A token is named by the session and the number of its replacements; the *)
(* hashes and signatures are taken for what they are to stand for.         *)
(***************************************************************************)
EXTENDS LoginThrottle

CONSTANTS Requests,     \* concurrent requests of the browser
          MaxLogins,    \* bound on the sessions opened
          MaxTokens     \* bound on the replacements of a token

ASSUME AccessAssumption == MaxLogins \in Nat /\ MaxTokens \in Nat

VARIABLES
  enabled,  \* the account is not disabled
  session,  \* the rows of web_session, in the order of the sign-ins
  jar,      \* the token in the browser's cookie
  nonce,    \* the nonce on the form
  done,     \* how often the operation was executed
  req       \* the requests

accountVars == <<enabled, session>>
nonceVars   == <<nonce, done>>
vars == <<throttleVars, accountVars, jar, nonceVars, req>>

Logins  == 1 .. MaxLogins
Token   == Logins \X (0 .. MaxTokens)
NoToken == <<>>
Cookie  == Token \cup {NoToken}

\* age: "old" when the token was renewed half an hour ago, "over" when the session
\* has been idle for too long, "past" when it has reached its absolute age.
Row == [state : {"none", "live", "revoked", "gone"}, version : 0 .. MaxTokens,
        age : {"new", "old", "over", "past"}]
NoRow == [state |-> "none", version |-> 0, age |-> "new"]

Kinds   == {"view", "ask", "act", "logout"}
\* fits: the form was made for the token in the cookie; renewed: its token is new.
IdleReq == [pc |-> "idle", kind |-> "view", token |-> NoToken, fits |-> FALSE, renewed |-> FALSE]
Request ==
  [pc : {"idle", "sent", "touch", "renew", "handle", "operate", "answer", "signout"},
   kind : Kinds, token : Cookie, fits : BOOLEAN, renewed : BOOLEAN]

TypeOK ==
  /\ ThrottleTypeOK
  /\ enabled \in BOOLEAN
  /\ session \in [Logins -> Row]
  /\ jar \in Cookie
  /\ nonce \in {"none", "open", "used", "gone"} /\ done \in 0 .. 2
  /\ req \in [Requests -> Request]

Init ==
  /\ ThrottleInit
  /\ enabled = TRUE
  /\ session = [s \in Logins |-> NoRow]
  /\ jar = NoToken
  /\ nonce = "none" /\ done = 0
  /\ req = [r \in Requests |-> IdleReq]

Live(s)    == session[s].state = "live"
Current(t) == t # NoToken /\ Live(t[1]) /\ session[t[1]].version = t[2]
Ended(s)   == session[s].age \in {"over", "past"}

-----------------------------------------------------------------------------
(* Signing in, and the commands of the administrator.                      *)

OnlyThrottle == UNCHANGED <<accountVars, jar, nonceVars, req>>

\* login finds the account enabled when it verifies the password.
Verify(a) == enabled /\ RightPassword(a) /\ OnlyThrottle

\* create_web_session; the answer brings the cookie, or is lost.
OpenSession(a) ==
  /\ SignedIn(a)
  /\ \E s \in Logins :
       /\ session[s].state = "none" /\ \A t \in Logins : t < s => session[t].state # "none"
       /\ session' = [session EXCEPT ![s].state = "live"]
       /\ jar' \in {jar, <<s, 0>>}
  /\ UNCHANGED <<enabled, nonceVars, req>>

LoginStep == (ThrottleStep /\ OnlyThrottle) \/ \E a \in Attempts : Verify(a) \/ OpenSession(a)

Revoked == [s \in Logins |-> IF Live(s) THEN [session[s] EXCEPT !.state = "revoked"] ELSE session[s]]

\* reset_web_admin_password, revoke_web_admin_sessions
RevokeAll ==
  /\ session' = Revoked
  /\ UNCHANGED <<throttleVars, enabled, jar, nonceVars, req>>

\* set_web_admin_disabled
SetDisabled ==
  /\ enabled' = ~enabled
  /\ session' = IF enabled THEN Revoked ELSE session
  /\ UNCHANGED <<throttleVars, jar, nonceVars, req>>

-----------------------------------------------------------------------------
(* A request.                                                              *)

Serve(r, pc) == req' = [req EXCEPT ![r].pc = pc]

\* The answer is written: "answer", or "signout" when it clears the cookie.  Only
\* a new token is in it.
Ends(r, pc) ==
  req' = [req EXCEPT ![r].pc = pc, ![r].kind = "view", ![r].fits = FALSE,
                     ![r].token = IF req[r].renewed /\ pc = "answer" THEN req[r].token ELSE NoToken,
                     ![r].renewed = req[r].renewed /\ pc = "answer"]

OnlyReq      == UNCHANGED <<throttleVars, accountVars, jar, nonceVars>>

\* The browser sends the cookie it has, and a form what is on it, which may be
\* made for an earlier token.
Send(r, k) ==
  /\ req[r].pc = "idle" /\ jar # NoToken
  /\ k = "act" => nonce # "none"
  /\ \E f \in BOOLEAN :
       /\ k = "view" => ~f
       /\ req' = [req EXCEPT ![r] = [pc |-> "sent", kind |-> k, token |-> jar, fits |-> f,
                                     renewed |-> FALSE]]
  /\ OnlyReq

\* authenticated_session
Known(t) == enabled /\ Current(t) /\ ~Ended(t[1])

Authenticate(r) ==
  /\ req[r].pc = "sent"
  /\ IF Known(req[r].token)
       THEN Serve(r, IF session[req[r].token[1]].age = "old" THEN "renew" ELSE "touch")
       ELSE Ends(r, "signout")
  /\ OnlyReq

\* Mutant: the token of a revoked session is replaced, too.
ReplaceableAlways(t) == session[t[1]].version = t[2]

\* rotate_web_session finds the row of the old token.
Replaceable(t) == Current(t)

Renewed(s) == [state |-> "live", version |-> session[s].version + 1,
               age |-> IF session[s].age = "past" THEN "past" ELSE "new"]

\* Replacing the token, unless someone has replaced it.
Rotate(r) ==
  LET t == req[r].token IN
  /\ req[r].pc = "renew"
  /\ IF Replaceable(t)
       THEN /\ t[2] < MaxTokens
            /\ session' = [session EXCEPT ![t[1]] = Renewed(t[1])]
            /\ req' = [req EXCEPT ![r].pc = "handle", ![r].token = <<t[1], t[2] + 1>>,
                                  ![r].renewed = TRUE]
       ELSE Ends(r, "answer") /\ UNCHANGED session
  /\ UNCHANGED <<throttleVars, enabled, jar, nonceVars>>

\* touch_web_session
Touch(r) ==
  LET t == req[r].token IN
  /\ req[r].pc = "touch"
  /\ session' = IF Current(t) /\ session[t[1]].age = "over"
                  THEN [session EXCEPT ![t[1]].age = "old"] ELSE session
  /\ Serve(r, "handle")
  /\ UNCHANGED <<throttleVars, enabled, jar, nonceVars>>

Handles(r, k) == req[r].pc = "handle" /\ req[r].kind = k

\* validate_write: the form is made for the token the request has now.
FormFits(r) == req[r].fits /\ ~req[r].renewed

View(r) == Handles(r, "view") /\ Ends(r, "answer") /\ OnlyReq

Refuse(r) ==
  /\ \E k \in Kinds \ {"view"} : Handles(r, k)
  /\ ~FormFits(r)
  /\ Ends(r, "answer")
  /\ OnlyReq

\* The form that asks for a confirmation carries a nonce.
Ask(r) ==
  /\ Handles(r, "ask") /\ FormFits(r)
  /\ nonce = "none" /\ nonce' = "open"
  /\ Ends(r, "answer")
  /\ UNCHANGED <<throttleVars, accountVars, jar, done>>

\* Mutant: a used nonce is accepted until it is deleted.
AcceptedTwice == nonce \in {"open", "used"}

Accepted == nonce = "open"

\* consume_action_nonce
Confirm(r) ==
  /\ Handles(r, "act") /\ FormFits(r)
  /\ IF Accepted THEN nonce' = "used" /\ Serve(r, "operate")
                 ELSE UNCHANGED nonce /\ Ends(r, "answer")
  /\ UNCHANGED <<throttleVars, accountVars, jar, done>>

\* The operation, which may refuse; audit_success follows it.
Operate(r) ==
  /\ req[r].pc = "operate" /\ Ends(r, "answer")
  /\ done' \in {done, IF done < 2 THEN done + 1 ELSE done}
  /\ UNCHANGED <<throttleVars, accountVars, jar, nonce>>

\* logout revokes the session and clears the cookie.
Logout(r) ==
  LET t == req[r].token IN
  /\ Handles(r, "logout") /\ FormFits(r)
  /\ session' = IF Current(t) THEN [session EXCEPT ![t[1]].state = "revoked"] ELSE session
  /\ Ends(r, "signout")
  /\ UNCHANGED <<throttleVars, enabled, jar, nonceVars>>

\* The browser gets the answer: a new cookie, none, or nothing about cookies.
Receive(r) ==
  /\ req[r].pc \in {"answer", "signout"}
  /\ jar' = IF req[r].pc = "signout" THEN NoToken
            ELSE IF req[r].renewed THEN req[r].token ELSE jar
  /\ req' = [req EXCEPT ![r] = IdleReq]
  /\ UNCHANGED <<throttleVars, accountVars, nonceVars>>

\* The connection is closed, the request times out or the process is stopped:
\* the handler goes no further.
Cancel(r) ==
  /\ req[r].pc # "idle"
  /\ req' = [req EXCEPT ![r] = IdleReq]
  /\ OnlyReq

RequestStep(r) ==
  \/ \E k \in Kinds : Send(r, k)
  \/ Authenticate(r) \/ Rotate(r) \/ Touch(r)
  \/ View(r) \/ Refuse(r) \/ Ask(r) \/ Confirm(r) \/ Operate(r) \/ Logout(r)
  \/ Receive(r) \/ Cancel(r)

-----------------------------------------------------------------------------
(* Time.                                                                   *)

Older == [new |-> "old", old |-> "over", over |-> "past"]

Ages(s) ==
  /\ Live(s) /\ session[s].age # "past"
  /\ session' = [session EXCEPT ![s].age = Older[session[s].age]]
  /\ UNCHANGED <<throttleVars, enabled, jar, nonceVars, req>>

NonceExpires ==
  /\ nonce \in {"open", "used"} /\ nonce' = "gone"
  /\ UNCHANGED <<throttleVars, accountVars, jar, done, req>>

\* cleanup_web_ephemera, which keeps a revoked row for some time.
CleanSessions ==
  /\ \E kept \in SUBSET Logins :
       session' = [s \in Logins |->
         IF (session[s].state = "revoked" /\ s \notin kept) \/ (Live(s) /\ Ended(s))
           THEN [NoRow EXCEPT !.state = "gone"] ELSE session[s]]
  /\ UNCHANGED <<throttleVars, enabled, jar, nonceVars, req>>

TimeStep == NonceExpires \/ CleanSessions \/ \E s \in Logins : Ages(s)

Next ==
  \/ LoginStep \/ RevokeAll \/ SetDisabled \/ TimeStep
  \/ \E r \in Requests : RequestStep(r)

Spec == Init /\ [][Next]_vars

-----------------------------------------------------------------------------
(* Properties.                                                             *)

\* What was confirmed once is done at most once, however often and however
\* concurrently the form is sent (consume_action_nonce before the operation).
DoneOnce == done <= 1

\* A session that was revoked or deleted is never live again: neither a request
\* that looked it up before nor a late replacement of its token revives it
\* (touch_web_session, rotate_web_session).
RevokedStaysOut ==
  [][\A s \in Logins : session[s].state \in {"revoked", "gone"} =>
       session'[s].state \in {"revoked", "gone"}]_vars

=============================================================================
