------------------------------- MODULE HttpPool -------------------------------
(***************************************************************************)
(* The http client: the requests of client.c, retried when they fail, over *)
(* the few connections connection.c keeps to one endpoint, with DNS, the   *)
(* tidy timer and the closing of it all.                                   *)
(*                                                                         *)
(* All of it runs in the main thread, but its functions call one another   *)
(* in circles: a connection handed to a request may fail at once, be given *)
(* back and with it the next request be linked to another one, and so on.  *)
(* "stack" holds what is left to run of the calls under way, the innermost *)
(* first; a step runs the innermost up to its next call.  libevent calls   *)
(* in (the first frame) only when the stack is empty.                      *)
(*                                                                         *)
(* Time is not counted: what is older than a limit at a tick of the timer  *)
(* is chosen, as far as it makes a difference to the code.                 *)
(*                                                                         *)
(* The code may touch a connection or an endpoint it has freed.  The memory *)
(* is taken not to have been put to other use, so that nothing follows from *)
(* it here; "astray" notes that it happened.                               *)
(***************************************************************************)
EXTENDS Naturals, Sequences, FiniteSets, FiniteSetsExt, Functions

CONSTANTS
  Requests,     \* the calls of http_request, all for one host and port
  Conns,        \* the connections that may exist at a time
  MAX_RETRIES,  \* 10 in the code
  MayOutlast,   \* whether a transfer may take more than TOO_ANCIENT
  None,         \* the null pointer
  Gone          \* a pointer to a connection that is freed

ASSUME HttpPoolAssumption == /\ MAX_RETRIES \in Nat
                             /\ MayOutlast \in BOOLEAN
                             /\ IsFiniteSet(Conns)
                             /\ {None, Gone} \cap (Conns \cup Requests) = {}

MAX_CONN == Cardinality(Conns)

VARIABLES
  status,     \* each request: not made yet, active, or over
  retries,    \* rq->retries
  answers,    \* what rq->callback was called with
  rqConn,     \* rq->conn
  rqq,        \* ep->rqq, newest first
  conn,       \* the state of each connection; "none" if not in ep->conn
  used,       \* the connections with last_used set
  n_conn,     \* ep->n_conn
  orphans,    \* whether a DNS lookup is under way for a freed connection
  endpoint,   \* whether the endpoint exists
  cnnRef,     \* cnn->r
  closing,    \* cnn->closing
  stack,      \* what is left to run in the main thread
  astray      \* the uses of freed memory so far

rqVars  == <<status, retries, answers, rqConn>>
epVars  == <<rqq, conn, used, n_conn>>
cnnVars == <<orphans, endpoint, cnnRef, closing, astray>>
vars == <<rqVars, epVars, cnnVars, stack>>

ConnStates == {"none", "new", "awaitdns", "ready", "inuse", "faileddns", "bad"}

In(s) == {c \in Conns : conn[c] = s}
Active == {r \in Requests : status[r] = "active"}

-----------------------------------------------------------------------------
(* Calls *)

Calls == {"try", "link", "make", "error", "answer", "free_rq", "new", "resolve",
          "expire", "tidy_endpoint", "free_if_unused", "release"}

Call(f) == [call |-> f, rq |-> None, conn |-> None, ok |-> FALSE, old |-> {}]
CallFor(f, r) == [Call(f) EXCEPT !.rq = r]

\* The functions that work on an endpoint
EndpointCalls == {"link", "new", "resolve", "expire", "tidy_endpoint", "free_if_unused"}

Idle == stack = <<>>
It == Head(stack)
Top(f) == stack # <<>> /\ It.call = f /\ (f \in EndpointCalls => endpoint)

\* The innermost call goes on with these calls, or returns.
GoesOn(fs) == stack' = fs \o Tail(stack)
Returns == stack' = Tail(stack)

\* cnn_free: the endpoint is tidied with closing set, then the owner lets go.
Free == (IF endpoint THEN <<Call("tidy_endpoint")>> ELSE <<>>) \o <<Call("release")>>

-----------------------------------------------------------------------------
Init ==
  /\ status = [r \in Requests |-> "idle"]
  /\ retries = [r \in Requests |-> 0]
  /\ answers = [r \in Requests |-> <<>>]
  /\ rqConn = [r \in Requests |-> None]
  /\ rqq = <<>>
  /\ conn = [c \in Conns |-> "none"]
  /\ used = {}
  /\ n_conn = 0
  /\ orphans = FALSE
  /\ endpoint = FALSE
  /\ cnnRef = 1
  /\ closing = FALSE
  /\ stack = <<>>
  /\ astray = {}

-----------------------------------------------------------------------------
(* client.c *)

\* http_request
HttpRequest(r) ==
  /\ Idle
  /\ status[r] = "idle"
  /\ ~closing
  /\ status' = [status EXCEPT ![r] = "active"]
  /\ stack' = <<CallFor("try", r)>>
  /\ UNCHANGED <<retries, answers, rqConn, epVars, cnnVars>>

\* try and, when there are tries left, get_connection: the request joins the
\* queue, at its head, then connections are looked for and made.
Try ==
  LET r == It.rq
  IN  /\ Top("try")
      /\ \/ /\ retries[r] > MAX_RETRIES
            /\ GoesOn(<<CallFor("answer", r), CallFor("free_rq", r)>>)
            /\ UNCHANGED <<retries, rqq, endpoint, cnnRef>>
         \/ /\ retries[r] <= MAX_RETRIES
            /\ retries' = [retries EXCEPT ![r] = @ + 1]
            /\ rqq' = <<r>> \o rqq
            /\ endpoint' = TRUE
            /\ cnnRef' = IF endpoint THEN cnnRef ELSE cnnRef + 1
            /\ GoesOn(<<Call("link"), Call("new")>>)
      /\ UNCHANGED <<status, answers, rqConn, conn, used, n_conn,
                     orphans, closing, astray>>

\* make_request: without a connection it fails; with one the request goes out,
\* unless libevent refuses it at once.
MakeRequest ==
  LET r == It.rq
  IN  /\ Top("make")
      /\ rqConn' = [rqConn EXCEPT ![r] = It.conn]
      /\ \/ It.conn # None /\ Returns
         \/ GoesOn(<<CallFor("error", r)>>)
      /\ UNCHANGED <<status, retries, answers, epVars, cnnVars>>

\* Error that leaves rq->conn set
ErrorKeepsConn ==
  LET r == It.rq
  IN  /\ Top("error")
      /\ UNCHANGED rqConn
      /\ \/ /\ rqConn[r] # None
            /\ conn' = [conn EXCEPT ![rqConn[r]] = "bad"]
            /\ GoesOn(<<Call("link"), CallFor("try", r)>>)
         \/ /\ rqConn[r] = None
            /\ GoesOn(<<CallFor("try", r)>>)
            /\ UNCHANGED conn
      /\ UNCHANGED <<status, retries, answers, rqq, used, n_conn, cnnVars>>

\* error: the connection is given back as bad, and another try made.
Error ==
  LET r == It.rq
  IN  /\ Top("error")
      /\ rqConn' = [rqConn EXCEPT ![r] = None]
      /\ \/ /\ rqConn[r] # None
            /\ conn' = [conn EXCEPT ![rqConn[r]] = "bad"]
            /\ GoesOn(<<Call("link"), CallFor("try", r)>>)
         \/ /\ rqConn[r] = None
            /\ GoesOn(<<CallFor("try", r)>>)
            /\ UNCHANGED conn
      /\ UNCHANGED <<status, retries, answers, rqq, used, n_conn, cnnVars>>

\* Done that goes on to its answer after an error
DoneTwice(c) ==
  \E r \in Requests :
    /\ Idle
    /\ conn[c] = "inuse" /\ rqConn[r] = c
    /\ stack' = <<CallFor("error", r), CallFor("answer", r), CallFor("free_rq", r)>>
    /\ UNCHANGED <<rqVars, epVars, cnnVars>>

\* done: what libevent reports for the request on a connection
Done(c) ==
  \E r \in Requests :
    /\ Idle
    /\ conn[c] = "inuse" /\ rqConn[r] = c
    /\ \/ stack' = <<[CallFor("answer", r) EXCEPT !.ok = TRUE], CallFor("free_rq", r)>>
       \/ stack' = <<CallFor("error", r)>>
    /\ UNCHANGED <<rqVars, epVars, cnnVars>>

\* rq->callback, read_done of http.c: it gives up the request's reference to the
\* source, and when that was the last closes it, httpclient_finish and cnn_free.
Answer ==
  LET r == It.rq
  IN  /\ Top("answer")
      /\ answers' = [answers EXCEPT ![r] = Append(@, It.ok)]
      /\ \/ /\ Returns
            /\ UNCHANGED closing
         \/ /\ Active = {r} /\ ~closing
            /\ closing' = TRUE
            /\ GoesOn(Free)
      /\ UNCHANGED <<status, retries, rqConn, epVars,
                     orphans, endpoint, cnnRef, astray>>

\* free_rq: the connection, if it has one, is given back as good.
FreeRq ==
  LET r == It.rq
  IN  /\ Top("free_rq")
      /\ status' = [status EXCEPT ![r] = "over"]
      /\ rqConn' = [rqConn EXCEPT ![r] = None]
      /\ \/ /\ rqConn[r] \in Conns
            /\ conn' = [conn EXCEPT ![rqConn[r]] = "ready"]
            /\ GoesOn(<<Call("link")>>)
            /\ UNCHANGED astray
         \/ /\ rqConn[r] = None
            /\ Returns
            /\ UNCHANGED <<conn, astray>>
         \/ /\ rqConn[r] = Gone
            /\ astray' = astray \cup {"returned"}
            /\ Returns
            /\ UNCHANGED conn
      /\ UNCHANGED <<retries, answers, rqq, used, n_conn,
                     orphans, endpoint, cnnRef, closing>>

\* The source is closed when no request is under way.
Close ==
  /\ Idle
  /\ Active = {} /\ ~closing
  /\ closing' = TRUE
  /\ stack' = Free
  /\ UNCHANGED <<rqVars, epVars, orphans, endpoint, cnnRef, astray>>

-----------------------------------------------------------------------------
(* connection.c *)

\* try_link: while there is a ready connection the newest request gets it.  Its
\* callback may change the list; starting over finds what going on would.
TryLink ==
  /\ Top("link")
  /\ \/ /\ rqq # <<>>
        /\ \E c \in In("ready") :
             /\ conn' = [conn EXCEPT ![c] = "inuse"]
             /\ used' = used \cup {c}
             /\ stack' = <<[CallFor("make", Head(rqq)) EXCEPT !.conn = c]>> \o stack
        /\ rqq' = Tail(rqq)
     \/ /\ rqq = <<>> \/ In("ready") = {}
        /\ Returns
        /\ UNCHANGED <<rqq, conn, used>>
  /\ UNCHANGED <<rqVars, n_conn, cnnVars>>

\* try_new: when anything waits, as many connections as are allowed
TryNew ==
  /\ Top("new")
  /\ \/ /\ rqq # <<>> /\ n_conn < MAX_CONN
        /\ \E C \in kSubset(MAX_CONN - n_conn, In("none")) :
             /\ conn' = [c \in Conns |-> IF c \in C THEN "new" ELSE conn[c]]
             /\ used' = used \ C
        /\ n_conn' = MAX_CONN
     \/ /\ rqq = <<>> \/ n_conn >= MAX_CONN
        /\ UNCHANGED <<conn, used, n_conn>>
  /\ GoesOn(<<Call("resolve")>>)
  /\ UNCHANGED <<rqVars, rqq, cnnVars>>

\* resolved for a connection that is still there: DNS has failed
Unresolved(c) ==
  /\ conn' = [conn EXCEPT ![c] = "faileddns"]
  /\ used' = used \cup {c}

\* resolved for a connection that is still there
Ready(c) ==
  /\ conn' = [conn EXCEPT ![c] = "ready"]
  /\ used' = used \cup {c}

\* try_resolve: a lookup for each new connection, answered later or at once
TryResolve ==
  /\ Top("resolve")
  /\ \/ \E c \in In("new") :
          \/ /\ conn' = [conn EXCEPT ![c] = "awaitdns"]
             /\ UNCHANGED <<used, stack>>
          \/ Unresolved(c) /\ UNCHANGED stack
          \/ Ready(c) /\ stack' = <<Call("link")>> \o stack
     \/ /\ In("new") = {}
        /\ Returns
        /\ UNCHANGED <<conn, used>>
  /\ UNCHANGED <<rqVars, rqq, n_conn, cnnVars>>

\* resolved, from the event loop
Resolved(c) ==
  /\ Idle
  /\ conn[c] = "awaitdns"
  /\ \/ Unresolved(c) /\ UNCHANGED stack
     \/ Ready(c) /\ stack' = <<Call("link")>>
  /\ UNCHANGED <<rqVars, rqq, n_conn, cnnVars>>

\* resolved, when its reference to the connection was the last one
ResolvedLate ==
  /\ Idle
  /\ orphans
  /\ orphans' \in BOOLEAN
  /\ astray' = astray \cup {"resolved"}
  /\ UNCHANGED <<rqVars, epVars, endpoint, cnnRef, closing, stack>>

\* tidy, when these requests have waited for more than ANCIENT_REQ: as new ones
\* come to the head of the queue, they are its end.
Tidy(old) ==
  /\ Idle
  /\ endpoint /\ ~closing
  /\ \E n \in 0..Len(rqq) : old = {rqq[i] : i \in (n + 1)..Len(rqq)}
  /\ stack' = <<[Call("expire") EXCEPT !.old = old], Call("tidy_endpoint")>>
  /\ UNCHANGED <<rqVars, epVars, cnnVars>>

\* expire_ancient
ExpireAncient ==
  /\ Top("expire")
  /\ \/ /\ It.old \cap Range(rqq) # {}
        /\ LET first == Min({i \in DOMAIN rqq : rqq[i] \in It.old})
               r     == rqq[first]
           IN  /\ rqq' = SubSeq(rqq, 1, first - 1) \o SubSeq(rqq, first + 1, Len(rqq))
               /\ GoesOn(<<CallFor("make", r), [It EXCEPT !.old = @ \ {r}]>>)
     \/ /\ It.old \cap Range(rqq) = {}
        /\ Returns
        /\ UNCHANGED rqq
  /\ UNCHANGED <<rqVars, conn, used, n_conn, cnnVars>>

\* What tidy_endpoint may dispose of: by its state or its age, or all when
\* closing.  The age of a connection that DNS never answered for counts from 0.
Disposals ==
  LET listed == Conns \ In("none")
      must   == In("bad") \cup (In("awaitdns") \ used)
      keep   == IF MayOutlast THEN {} ELSE In("inuse")
  IN  IF closing THEN {listed} ELSE {D \in SUBSET (listed \ keep) : must \subseteq D}

\* TidyEndpoint that leaves n_conn as it was
TidyUncounted ==
  /\ Top("tidy_endpoint")
  /\ \E D \in Disposals :
       /\ conn' = [c \in Conns |-> IF c \in D THEN "none" ELSE conn[c]]
       /\ used' = used \ D
       /\ UNCHANGED n_conn
       /\ rqConn' = [r \in Requests |-> IF rqConn[r] \in D THEN Gone ELSE rqConn[r]]
       /\ orphans' = (orphans \/ In("awaitdns") \cap D # {})
  /\ GoesOn((IF closing THEN <<>> ELSE <<Call("new")>>) \o <<Call("free_if_unused")>>)
  /\ UNCHANGED <<status, retries, answers, rqq, endpoint, cnnRef, closing, astray>>

\* tidy_endpoint, up to try_new: a transfer on a connection that is disposed of
\* is cut off without a word, a lookup goes on.  Some whose lookup failed long
\* enough ago are new again.
TidyEndpoint ==
  /\ Top("tidy_endpoint")
  /\ \E D \in Disposals : \E again \in SUBSET (In("faileddns") \ D) :
       /\ conn' = [c \in Conns |-> CASE c \in D     -> "none"
                                     [] c \in again -> "new"
                                     [] OTHER       -> conn[c]]
       /\ used' = used \ D
       /\ n_conn' = n_conn - Cardinality(D)
       /\ rqConn' = [r \in Requests |-> IF rqConn[r] \in D THEN Gone ELSE rqConn[r]]
       /\ orphans' = (orphans \/ In("awaitdns") \cap D # {})
  /\ GoesOn((IF closing THEN <<>> ELSE <<Call("new")>>) \o <<Call("free_if_unused")>>)
  /\ UNCHANGED <<status, retries, answers, rqq, endpoint, cnnRef, closing, astray>>

\* FreeIfUnused that keeps the endpoint's hold on the pool
FreeKeepsPool ==
  /\ Top("free_if_unused")
  /\ endpoint' = (In("none") # Conns \/ rqq # <<>>)
  /\ Returns
  /\ UNCHANGED <<rqVars, epVars, orphans, cnnRef, closing, astray>>

\* The end of tidy_endpoint, and free_endpoint
FreeIfUnused ==
  /\ Top("free_if_unused")
  /\ IF In("none") = Conns /\ rqq = <<>>
     THEN endpoint' = FALSE /\ cnnRef' = cnnRef - 1
     ELSE UNCHANGED <<endpoint, cnnRef>>
  /\ Returns
  /\ UNCHANGED <<rqVars, epVars, orphans, closing, astray>>

\* A call goes on with an endpoint that one of its own calls has freed.
EndpointGone ==
  /\ stack # <<>> /\ It.call \in EndpointCalls /\ ~endpoint
  /\ astray' = astray \cup {"endpoint"}
  /\ Returns
  /\ UNCHANGED <<rqVars, epVars, orphans, endpoint, cnnRef, closing>>

\* The end of cnn_free
ReleaseCnn ==
  /\ Top("release")
  /\ cnnRef' = cnnRef - 1
  /\ Returns
  /\ UNCHANGED <<rqVars, epVars, orphans, endpoint, closing, astray>>
-----------------------------------------------------------------------------
Step == \/ Try \/ MakeRequest \/ Error \/ Answer \/ FreeRq
        \/ TryLink \/ TryNew \/ TryResolve
        \/ ExpireAncient \/ TidyEndpoint \/ FreeIfUnused \/ EndpointGone \/ ReleaseCnn

Next == \/ Step
        \/ \E r \in Requests : HttpRequest(r)
        \/ \E c \in Conns : Done(c) \/ Resolved(c)
        \/ ResolvedLate
        \/ \E old \in SUBSET Requests : Tidy(old)
        \/ Close

Spec == Init /\ [][Next]_vars

\* The main thread runs its handlers to their end; libevent reports the end of a
\* transfer, or gives it up after a time; and the timer goes on until what waits
\* is found ancient.  Neither DNS nor a server has to answer.
Fairness == /\ WF_vars(Step)
            /\ \A c \in Conns : SF_vars(Done(c))
            /\ \A r \in Requests :
                 SF_vars(\E old \in SUBSET Requests : r \in old /\ Tidy(old))

FairSpec == Spec /\ Fairness

-----------------------------------------------------------------------------
Frames == [call : Calls, rq : Requests \cup {None}, conn : Conns \cup {None},
           ok : BOOLEAN, old : SUBSET Requests]

TypeOK ==
  /\ status \in [Requests -> {"idle", "active", "over"}]
  /\ retries \in [Requests -> 0..(MAX_RETRIES + 1)]
  /\ answers \in [Requests -> Seq(BOOLEAN)]
  /\ rqConn \in [Requests -> Conns \cup {None, Gone}]
  /\ rqq \in Seq(Requests)
  /\ conn \in [Conns -> ConnStates]
  /\ used \subseteq Conns
  /\ n_conn \in 0..MAX_CONN
  /\ orphans \in BOOLEAN
  /\ endpoint \in BOOLEAN
  /\ cnnRef \in 0..2
  /\ closing \in BOOLEAN
  /\ stack \in Seq(Frames)
  /\ astray \subseteq {"resolved", "returned", "endpoint"}

\* The calls under way for a request
Handlers(r) == {i \in DOMAIN stack : stack[i].rq = r}

(***************************************************************************)
(* A request that is active waits in the queue, is on a connection that is *)
(* in use, or is being dealt with; never two of these, and never with a    *)
(* connection another request has.  Otherwise a retry would be sent twice, *)
(* or a request be neither sent nor expired.                               *)
(***************************************************************************)
InOnePlace ==
  /\ IsInjective(rqq)
  /\ \A r \in Requests :
       LET queued == r \in Range(rqq)
           sent   == rqConn[r] \in Conns
           dealt  == Handlers(r) # {}
       IN  /\ queued \/ sent \/ dealt => status[r] = "active"
           /\ queued => ~sent /\ ~dealt
           /\ sent => conn[rqConn[r]] = "inuse"
           /\ ~MayOutlast /\ status[r] = "active" => queued \/ sent \/ dealt
  /\ \A c \in In("inuse") :
       Cardinality({r \in Requests : rqConn[r] = c}
                     \cup {stack[i].rq : i \in {j \in DOMAIN stack : stack[j].conn = c}}) = 1

(***************************************************************************)
(* "Whenever connections become ready, try_link must be called. Whenever   *)
(* connections are freed try_new must be called" (connection.c): between   *)
(* events no request waits while a connection is ready, nor with fewer     *)
(* connections than are allowed.                                           *)
(***************************************************************************)
NoIdleConnection ==
  Idle /\ rqq # <<>> => In("ready") = {} /\ In("none") = {} /\ In("new") = {}

(***************************************************************************)
(* Once closed, everything is freed in the same event, and http_close_done *)
(* called, for which the source and the event loop wait.                   *)
(***************************************************************************)
ClosedMeansFreed ==
  /\ Idle /\ closing => cnnRef = 0
  /\ cnnRef = 0 => closing /\ ~endpoint /\ In("none") = Conns

FS == INSTANCE FetchService WITH asked <- {r \in Requests : status[r] # "idle"}

(***************************************************************************)
(* Every request is called back, and once: with an answer, or with an      *)
(* error when all tries have failed, whatever DNS, servers and the timer   *)
(* do to its connections.  Request relies on it.                           *)
(***************************************************************************)
ImplementsFetchService == FS!Spec

(***************************************************************************)
(* "When a response comes back it's put into the ready state, as accepted  *)
(* by try_link" (connection.c, of DNS): so its connection must still be    *)
(* there.                                                                  *)
(***************************************************************************)
LookupsFindTheirConnection == "resolved" \notin astray
=============================================================================
