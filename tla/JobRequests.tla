---------------------------- MODULE JobRequests ----------------------------
(***************************************************************************)
(* What the queue of management jobs promises, whatever rows and workers   *)
(* it uses: a request is asked for once, is executed by one worker at a    *)
(* time, ends only by the worker that executes it, and returns to the      *)
(* queue when that worker is lost.  Only a waiting request can be dropped. *)
(***************************************************************************)
CONSTANTS Keys,     \* what can be requested
          Workers   \* who executes requests

VARIABLE request    \* where the request for each key is

None    == <<"none">>
Waiting == <<"waiting">>
Orphan  == <<"orphan">>   \* its worker was lost
By(w)   == <<"by", w>>    \* being executed by w

RequestStates == {None, Waiting, Orphan} \cup { By(w) : w \in Workers }

RequestTypeOK == request \in [Keys -> RequestStates]

RequestInit == request = [k \in Keys |-> None]

\* The requests in K become s, the others stay.
Becomes(K, s) == request' = [k \in Keys |-> IF k \in K THEN s ELSE request[k]]

\* A request is asked for; asking again for one that is open changes nothing.
Ask(k) == request[k] = None /\ Becomes({k}, Waiting)

\* A worker takes requests to execute.
Start(w, K) == (\A k \in K : request[k] = Waiting) /\ Becomes(K, By(w))

\* The worker that executes a request has done so, or failed to.
Finish(w, k) == request[k] = By(w) /\ Becomes({k}, None)

\* A worker is lost, with everything it was executing.
Lose(w) == Becomes({ k \in Keys : request[k] = By(w) }, Orphan)

\* Requests whose worker was lost wait again.
Return(K) == (\A k \in K : request[k] = Orphan) /\ Becomes(K, Waiting)

\* Waiting requests are dropped, and the ones in A asked for.
Drop(K, A) ==
  /\ \A k \in K : request[k] = Waiting
  /\ \A k \in A \ K : request[k] = None
  /\ request' = [k \in Keys |-> IF k \in A THEN Waiting
                                ELSE IF k \in K THEN None ELSE request[k]]

RequestNext ==
  \/ \E k \in Keys : Ask(k)
  \/ \E w \in Workers, K \in SUBSET Keys : Start(w, K)
  \/ \E w \in Workers, k \in Keys : Finish(w, k)
  \/ \E w \in Workers : Lose(w)
  \/ \E K \in SUBSET Keys : Return(K)
  \/ \E K, A \in SUBSET Keys : Drop(K, A)

RequestSpec == RequestInit /\ [][RequestNext]_request

=============================================================================
