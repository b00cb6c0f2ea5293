---------------------------- MODULE FetchService ----------------------------
(***************************************************************************)
(* What the http client promises its source: each fetch asked of it is     *)
(* answered once, with data or an error, and none is left unanswered.      *)
(* Once closed it is asked nothing more.                                   *)
(***************************************************************************)
EXTENDS Sequences

CONSTANT Requests

VARIABLES asked,      \* the fetches asked for so far
          answers,    \* what each has been answered: TRUE for data
          closing     \* whether the service is closed

vars == <<asked, answers, closing>>

Init == /\ asked = {}
        /\ answers = [r \in Requests |-> <<>>]
        /\ closing = FALSE

Waiting(r) == r \in asked /\ answers[r] = <<>>

Ask(r) == /\ ~closing
          /\ r \notin asked
          /\ asked' = asked \cup {r}
          /\ UNCHANGED <<answers, closing>>

\* The answer to the last fetch may close the service within the same call.
Answer(r) == /\ Waiting(r)
             /\ \E ok \in BOOLEAN : answers' = [answers EXCEPT ![r] = <<ok>>]
             /\ \/ UNCHANGED closing
                \/ closing' = TRUE /\ ~closing /\ \A q \in Requests \ {r} : ~Waiting(q)
             /\ UNCHANGED asked

Close == /\ ~closing
         /\ \A r \in Requests : ~Waiting(r)
         /\ closing' = TRUE
         /\ UNCHANGED <<asked, answers>>

Next == (\E r \in Requests : Ask(r) \/ Answer(r)) \/ Close

Spec == Init /\ [][Next]_vars /\ \A r \in Requests : WF_vars(Answer(r))
=============================================================================
