----------------------------- MODULE JobService -----------------------------
(***************************************************************************)
(* What syncsource.c promises the rest of the program: a blocking call of  *)
(* a source, asked for in the main thread, is run once by some thread and  *)
(* then answered once in the main thread.  A source is closed by a job     *)
(* too: it is the last of that source.  When every source is closed the    *)
(* service ends.                                                           *)
(***************************************************************************)
CONSTANTS Jobs,         \* what can be asked for
          SourceOf(_),  \* the source a job is for
          IsClose(_)    \* whether the job closes it

VARIABLES accepted,     \* the jobs asked for so far
          executed,     \* those that have been run
          answered,     \* those that have been answered
          open          \* whether the service still exists

vars == <<accepted, executed, answered, open>>

Siblings(j) == {k \in Jobs : SourceOf(k) = SourceOf(j)} \ {j}

Closes == {j \in Jobs : IsClose(j)}

Init == /\ accepted = {} /\ executed = {} /\ answered = {}
        /\ open = TRUE

\* Nothing is asked of a source once its close is; the close waits for the rest.
Accept(j) ==
  /\ open
  /\ j \notin accepted
  /\ Siblings(j) \cap Closes \cap accepted = {}
  /\ IsClose(j) => Siblings(j) \cap accepted \subseteq answered
  /\ accepted' = accepted \cup {j}
  /\ UNCHANGED <<executed, answered, open>>

Execute(j) ==
  /\ open
  /\ j \in accepted \ executed
  /\ executed' = executed \cup {j}
  /\ UNCHANGED <<accepted, answered, open>>

Answer(j) ==
  /\ open
  /\ j \in executed \ answered
  /\ answered' = answered \cup {j}
  /\ UNCHANGED <<accepted, executed, open>>

End ==
  /\ open
  /\ accepted = answered /\ Closes \subseteq answered
  /\ open' = FALSE
  /\ UNCHANGED <<accepted, executed, answered>>

Next == (\E j \in Jobs : Accept(j) \/ Execute(j) \/ Answer(j)) \/ End

Spec == /\ Init
        /\ [][Next]_vars
        /\ \A j \in Jobs : WF_vars(Execute(j)) /\ WF_vars(Answer(j))
        /\ WF_vars(End)
=============================================================================
