----------------------------- MODULE SyncSource -----------------------------
(***************************************************************************)
(* The blocking sources of syncsource.c: the main thread queues a job for  *)
(* a read, a write or a close, a pool of threads runs the jobs and sends   *)
(* an answer for each back to the main thread.  The module composes the    *)
(* work queue and the data event of util/event.c with the handlers that    *)
(* use them and with the references that keep sources and pool alive, down *)
(* to the end of the pool: the last answered close stops the threads, and  *)
(* the message A_QUIT, sent after they are gone, frees the rest.           *)
(*                                                                         *)
(* A request is seen only as far as it uses such a source: it holds the    *)
(* source while it is there, and the source list until it is over.         *)
(***************************************************************************)
EXTENDS Naturals, Sequences, FiniteSets, Functions, Refs

CONSTANTS Workers,    \* the threads of sq_create
          Main,       \* the main thread
          Chain,      \* the blocking sources, in the order of the source list
          Requests,   \* the requests, each for one of the sources
          Reach,      \* the sources each of them may ask
          Writable,   \* the sources with a write operation (ss->write)
          None,       \* a null pointer, the owner of a free mutex
          AQuit,      \* the message A_QUIT
          PipeSize, GULP

ASSUME MainAssumption == Main \notin Workers /\ None \notin Workers \cup {Main}
ASSUME ChainAssumption == /\ Chain \in Seq(Range(Chain)) /\ IsInjective(Chain)
                          /\ {"new", "over"} \cap Range(Chain) = {}
ASSUME WritableAssumption == Writable \subseteq Range(Chain)
ASSUME ReachAssumption == Reach \in [Requests -> SUBSET Range(Chain)]
ASSUME RequestsAssumption == IsFiniteSet(Requests) /\ None \notin Requests
ASSUME BellAssumption == PipeSize \in Nat \ {0} /\ GULP \in Nat \ {0}

Sources == Range(Chain)

\* struct member: what is asked for, and its answer, are told apart by the queue.
Jobs == [type : {"read", "write"}, src : Sources, rq : Requests]
          \cup [type : {"close"}, src : Sources, rq : {None}]

ASSUME MessageAssumption == None # AQuit /\ {None, AQuit} \cap Jobs = {}

ReadJob(s, r)  == [type |-> "read",  src |-> s, rq |-> r]
WriteJob(s, r) == [type |-> "write", src |-> s, rq |-> r]
CloseJob(s)    == [type |-> "close", src |-> s, rq |-> None]

VARIABLES
  \* sq->qu and the worker threads: see WorkQueue
  jobs, quit, flags, flagsChanged, pc, got, offered, refused, done, dropped,
  \* sq->ans and the main thread's place in consume: see EvData
  answers, ringer, pipe, phase, batch, sent, delivered,
  \* the main thread
  todo,       \* the job its present handler has still to queue, or None
  closing,    \* the sources that sl_ref_release has still to release
  stage,      \* where it is in run and sq_destroy
  srcRef,     \* src->r of each source
  sqRef,      \* sq->r
  slRef,      \* the strong count of the source list
  asked,      \* whether the interfaces have quit
  at          \* where each request is: "new", in a source, or "over"

wqVars == <<jobs, quit, flags, flagsChanged, pc, got,
            offered, refused, done, dropped>>
edVars == <<answers, ringer, pipe, phase, batch, sent, delivered>>
mainVars == <<todo, closing, stage, srcRef, sqRef, slRef, asked, at>>
vars == <<wqVars, edVars, mainVars>>

WQ == INSTANCE WorkQueue WITH
        Items <- Jobs, NoItem <- None, ChecksFlag <- FALSE, queue <- jobs

ED == INSTANCE EvData WITH
        Senders <- Workers \cup {Main}, Consumer <- Main, Nobody <- None,
        Messages <- Jobs \cup {AQuit}, queue <- answers

\* The state run leaves behind when it has set everything up, before it gives
\* up its own reference to the pool.
Init == /\ WQ!Init
        /\ ED!Init
        /\ todo = None /\ closing = <<>>
        /\ stage = "setup"
        /\ srcRef = [s \in Sources |-> NewRef]
        /\ sqRef = [strong |-> Len(Chain) + 1, weak |-> 0]
        /\ slRef = 1
        /\ asked = FALSE
        /\ at = [r \in Requests |-> "new"]

\* The main thread has no handler to finish.
AtRest == stage = "loop" /\ todo = None /\ closing = <<>>

\* It waits for an event.
Idle == AtRest /\ phase = "loop"

\* It is in consume, between two callbacks.
InConsume == AtRest /\ phase = "run"

-----------------------------------------------------------------------------
(* The references of the pool and of the source list *)

\* sq_release; the last one starts sq_destroy.
ReleaseQueue ==
  /\ sqRef' = Release(sqRef)
  /\ stage' = IF ReleaseFires(sqRef) THEN "destroy" ELSE "loop"

\* sl_release; the last one starts sl_ref_release.
ReleaseList ==
  /\ slRef' = slRef - 1
  /\ closing' = IF slRef = 1 THEN Chain ELSE <<>>

-----------------------------------------------------------------------------
(* The main thread *)

\* run lets go of the pool: with no blocking source it ends here and now.
Start ==
  /\ stage = "setup"
  /\ ReleaseQueue
  /\ UNCHANGED <<wqVars, edVars, todo, closing, srcRef, slRef, asked, at>>

\* A request reaches a blocking source: sl_read, rq_advance_sl and src_read.
Read(r, s) ==
  /\ Idle
  /\ slRef > 0
  /\ at[r] = "new" /\ s \in Reach[r]
  /\ at' = [at EXCEPT ![r] = s]
  /\ slRef' = slRef + 1
  /\ srcRef' = [srcRef EXCEPT ![s] = Acquire(Acquire(@))]
  /\ todo' = ReadJob(s, r)
  /\ UNCHANGED <<wqVars, edVars, closing, stage, sqRef, asked>>

\* Quit that tells the threads to stop at once
QuitStopsWorkers ==
  /\ Idle
  /\ ~asked
  /\ asked' = TRUE
  /\ WQ!SetQuit(TRUE)
  /\ ReleaseList
  /\ UNCHANGED <<edVars, todo, stage, srcRef, sqRef, at>>

\* interfaces_quit
Quit ==
  /\ Idle
  /\ ~asked
  /\ asked' = TRUE
  /\ ReleaseList
  /\ UNCHANGED <<wqVars, edVars, todo, stage, srcRef, sqRef, at>>

\* add_q: one wqueue_send_work
AddQ ==
  /\ todo # None
  /\ WQ!SendWork(todo)
  /\ todo' = None
  /\ UNCHANGED <<edVars, closing, stage, srcRef, sqRef, slRef, asked, at>>

\* CloseSource whose job does not hold the source
CloseSourceUnheld ==
  /\ closing # <<>>
  /\ LET s == Head(closing) IN
       /\ srcRef' = [srcRef EXCEPT ![s] = Release(@)]
       /\ IF ReleaseFires(srcRef[s]) THEN WQ!SendWork(CloseJob(s)) ELSE UNCHANGED wqVars
  /\ closing' = Tail(closing)
  /\ UNCHANGED <<edVars, todo, stage, sqRef, slRef, asked, at>>

\* sl_ref_release, for one source: the last reference gone, src_close queues a
\* job, which holds the source.
CloseSource ==
  /\ closing # <<>>
  /\ LET s == Head(closing) IN
       IF ReleaseFires(srcRef[s])
       THEN /\ srcRef' = [srcRef EXCEPT ![s] = Acquire(Release(@))]
            /\ WQ!SendWork(CloseJob(s))
       ELSE /\ srcRef' = [srcRef EXCEPT ![s] = Release(@)]
            /\ UNCHANGED wqVars
  /\ closing' = Tail(closing)
  /\ UNCHANGED <<edVars, todo, stage, sqRef, slRef, asked, at>>

\* The request leaves the source and is over: its own reference to the source
\* goes, then the job's, then the list's.
Over(r, s) ==
  /\ at' = [at EXCEPT ![r] = "over"]
  /\ srcRef' = [srcRef EXCEPT ![s] = Release(Release(@))]
  /\ ReleaseList
  /\ UNCHANGED todo

\* sq_consume with A_READ: the request may go on to write to the source what it
\* got, when it can, before the references of the read are released.
AnswerRead(r, s) ==
  /\ InConsume
  /\ batch # <<>> /\ Head(batch) = ReadJob(s, r)
  /\ ED!Deliver
  /\ \/ Over(r, s)
     \/ /\ s \in Writable
        /\ srcRef' = [srcRef EXCEPT ![s] = Release(Acquire(@))]
        /\ todo' = WriteJob(s, r)
        /\ UNCHANGED <<closing, slRef, at>>
  /\ UNCHANGED <<wqVars, stage, sqRef, asked>>

\* sq_consume with A_WRITE
AnswerWrite(r, s) ==
  /\ InConsume
  /\ batch # <<>> /\ Head(batch) = WriteJob(s, r)
  /\ ED!Deliver
  /\ Over(r, s)
  /\ UNCHANGED <<wqVars, stage, sqRef, asked>>

\* sq_consume with A_CLOSE: the source goes, and its hold on the pool.
AnswerClose(s) ==
  /\ InConsume
  /\ batch # <<>> /\ Head(batch) = CloseJob(s)
  /\ ED!Deliver
  /\ srcRef' = [srcRef EXCEPT ![s] = Release(@)]
  /\ ReleaseQueue
  /\ UNCHANGED <<wqVars, todo, closing, slRef, asked, at>>

\* sq_destroy: the work queue is released, and with it told to quit.
StopWorkers ==
  /\ stage = "destroy"
  /\ WQ!SetQuit(TRUE)
  /\ stage' = "join"
  /\ UNCHANGED <<edVars, todo, closing, srcRef, sqRef, slRef, asked, at>>

\* SendQuit that does not join the threads
SendQuitUnjoined ==
  /\ stage = "join"
  /\ ED!Send(Main, AQuit)
  /\ sqRef' = AcquireWeak(sqRef)
  /\ stage' = "bell"
  /\ UNCHANGED <<wqVars, todo, closing, srcRef, slRef, asked, at>>

\* The last pthread_join of sq_destroy returns; A_QUIT is sent, and a weak
\* reference keeps the pool until it comes back.
SendQuit ==
  /\ stage = "join"
  /\ \A w \in Workers : pc[w] = "exited"
  /\ ED!Send(Main, AQuit)
  /\ sqRef' = AcquireWeak(sqRef)
  /\ stage' = "bell"
  /\ UNCHANGED <<wqVars, todo, closing, srcRef, slRef, asked, at>>

RingQuit ==
  /\ stage = "bell"
  /\ ED!RingBell(Main)
  /\ stage' = "loop"
  /\ UNCHANGED <<wqVars, todo, closing, srcRef, sqRef, slRef, asked, at>>

\* sq_consume with A_QUIT: sq_free, and with it the end of the data event.
AnswerQuit ==
  /\ InConsume
  /\ batch # <<>> /\ Head(batch) = AQuit
  /\ ED!Deliver
  /\ sqRef' = ReleaseWeak(sqRef)
  /\ stage' = IF Freed(ReleaseWeak(sqRef)) THEN "freed" ELSE "loop"
  /\ UNCHANGED <<wqVars, todo, closing, srcRef, slRef, asked, at>>

\* libevent calls consume, and consume takes the queue and returns.
ResetBell == AtRest /\ ED!ResetBell /\ UNCHANGED <<wqVars, mainVars>>
Swap      == AtRest /\ ED!Swap /\ UNCHANGED <<wqVars, mainVars>>
Return    == AtRest /\ ED!Return /\ UNCHANGED <<wqVars, mainVars>>

Consume == \/ \E r \in Requests, s \in Sources : AnswerRead(r, s) \/ AnswerWrite(r, s)
           \/ \E s \in Sources : AnswerClose(s)
           \/ AnswerQuit

-----------------------------------------------------------------------------
(* The worker threads *)

GetWork(w) ==
  /\ WQ!GetWork(w) \/ WQ!Resume(w)
  /\ UNCHANGED <<edVars, mainVars>>

SpuriousWakeup(w) == WQ!SpuriousWakeup(w) /\ UNCHANGED <<edVars, mainVars>>

CheckQuit(w) == WQ!CheckQuit(w) /\ UNCHANGED <<edVars, mainVars>>

\* job: the blocking call, then add_a up to the bell
RunJob(w) ==
  /\ pc[w] = "run"
  /\ ED!Send(w, got[w])
  /\ UNCHANGED <<wqVars, mainVars>>

\* The bell, and back to the top of the loop
AddA(w) ==
  /\ ED!RingBell(w)
  /\ WQ!RunJob(w)
  /\ UNCHANGED mainVars

Worker(w) == GetWork(w) \/ CheckQuit(w) \/ RunJob(w) \/ AddA(w)

-----------------------------------------------------------------------------
Next == \/ Start
        \/ \E r \in Requests, s \in Sources : Read(r, s)
        \/ Quit
        \/ AddQ \/ CloseSource
        \/ Consume
        \/ StopWorkers \/ SendQuit \/ RingQuit
        \/ ResetBell \/ Swap \/ Return
        \/ \E w \in Workers : Worker(w) \/ SpuriousWakeup(w)

Spec == Init /\ [][Next]_vars

\* The main thread goes on, blocking calls return, and the scheduler lets every
\* thread run.  No request has to come, and nobody has to ask the program to
\* quit.
Fairness == /\ WF_vars(Start) /\ WF_vars(AddQ)
            /\ WF_vars(CloseSource) /\ WF_vars(Consume)
            /\ WF_vars(StopWorkers) /\ WF_vars(SendQuit) /\ WF_vars(RingQuit)
            /\ WF_vars(ResetBell) /\ WF_vars(Swap) /\ WF_vars(Return)
            /\ \A w \in Workers : WF_vars(Worker(w))

FairSpec == Spec /\ Fairness

-----------------------------------------------------------------------------
\* The jobs on their way: queued or about to be, with a worker, or answered but
\* with the answer not yet delivered.
Pending == (({todo} \cup offered) \ {None}) \ Range(delivered)

PendingAt(s) == {j \in Pending : j.src = s}

TypeOK == /\ WQ!TypeOK
          /\ ED!TypeOK
          /\ todo \in Jobs \cup {None}
          /\ closing \in Seq(Sources)
          /\ stage \in {"setup", "loop", "destroy", "join", "bell", "freed"}
          /\ srcRef \in [Sources -> RefType]
          /\ sqRef \in RefType
          /\ slRef \in Nat
          /\ asked \in BOOLEAN
          /\ at \in [Requests -> {"new", "over"} \cup Sources]

(***************************************************************************)
(* The references of a source account for what uses it, at every moment    *)
(* and in particular while its close is on its way: the list (until it has *)
(* let go of it), each request there, and each job, whose worker and       *)
(* answer dereference it.  So no job finds its source freed, and the       *)
(* source is closed only when no call of it is left to run.                *)
(***************************************************************************)
SourceRefsBalance ==
  \A s \in Sources :
    LET calls  == {j \in PendingAt(s) : j.type # "close"}
        closes == PendingAt(s) \ calls
        users  == {r \in Requests : at[r] = s}
    IN  /\ srcRef[s].strong = (IF slRef > 0 \/ s \in Range(closing) THEN 1 ELSE 0)
                                 + Cardinality(users) + Cardinality(calls)
        /\ srcRef[s].weak = Cardinality(closes)

(***************************************************************************)
(* No job is lost in the quit: wqueue_send_work never finds quit set, and  *)
(* no worker leaves with a job in its hand, although wqueue_should_quit is *)
(* tested after the job has been taken.  The request of a lost job would   *)
(* never be answered, and its source never freed.                          *)
(***************************************************************************)
NoJobLost == refused = {} /\ dropped = {}

(***************************************************************************)
(* The pool is freed, in the callback of its own data event, only when     *)
(* nothing can touch it again: every thread gone, no job, no message left  *)
(* in the event and no mutex held.                                         *)
(***************************************************************************)
FreedLast ==
  stage = "freed" => /\ \A w \in Workers : pc[w] = "exited"
                     /\ jobs = <<>> /\ todo = None /\ closing = <<>>
                     /\ answers = <<>> /\ batch = <<>> /\ ringer = None
                     /\ \A s \in Sources : Freed(srcRef[s])

(***************************************************************************)
(* Once the interfaces have quit the pool is taken down: the event loop    *)
(* waits for it (need_loop), and the program kills itself if it does not.  *)
(***************************************************************************)
QuitEnds == asked ~> stage = "freed"

\* A job as the abstract service sees it
JobSource(j) == j.src
JobIsClose(j) == j.type = "close"

JS == INSTANCE JobService WITH
        SourceOf <- JobSource, IsClose <- JobIsClose,
        accepted <- offered \ refused, executed <- Range(sent) \ {AQuit},
        answered <- Range(delivered) \ {AQuit}, open <- (stage # "freed")

(***************************************************************************)
(* The pool is a job service: each job run once and answered once, in the  *)
(* main thread, the close of a source last, and all of it eventually.      *)
(***************************************************************************)
ImplementsJobService == JS!Spec
=============================================================================
