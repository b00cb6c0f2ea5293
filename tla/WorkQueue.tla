------------------------------ MODULE WorkQueue ------------------------------
(***************************************************************************)
(* The work queue of util/event.c: how the main thread hands work to a     *)
(* pool of threads, and the loop those threads run.                        *)
(*                                                                         *)
(* Every function of the queue holds wq->mutex from its first line to its  *)
(* last, but for pthread_cond_wait, which gives it up and takes it again.  *)
(* So a call is one step, and wqueue_get_work two: up to the wait, and     *)
(* from the moment the woken thread has the mutex back.                    *)
(*                                                                         *)
(* Two pools use it.  The 128 workers of syncsource.c test                 *)
(* wqueue_should_quit after each call; the single worker of                *)
(* util/background.c tests FLAG_QUIT as well.  ChecksFlag tells them apart.*)
(***************************************************************************)
EXTENDS Naturals, Sequences, Functions

CONSTANTS Workers,      \* the threads that take work
          Items,        \* the jobs that may be queued, each at most once
          NoItem,       \* the null pointer wqueue_get_work may return
          ChecksFlag    \* whether the worker loop tests FLAG_QUIT

ASSUME NoItemAssumption == NoItem \notin Items
ASSUME ChecksFlagAssumption == ChecksFlag \in BOOLEAN

VARIABLES
  queue,          \* wq->queue, oldest first
  quit,           \* wq->quit
  flags,          \* FLAG_QUIT in wq->flags, the one flag the program has
  flagsChanged,   \* wq->flags_changed
  pc,             \* where each worker is in its loop
  got,            \* what each worker's last wqueue_get_work returned
  offered,        \* the items given to wqueue_send_work so far
  refused,        \* those it was given while quit was set, and ignored
  done,           \* the items whose job a worker has run
  dropped         \* the items a worker took and left its loop without running

vars == <<queue, quit, flags, flagsChanged, pc, got,
          offered, refused, done, dropped>>

Places == {"get", "waiting", "woken", "check", "flag", "run", "exited"}

Waiting(p) == {w \in Workers : p[w] = "waiting"}
Woken(p)   == {w \in Workers : p[w] = "woken"}

\* The items a worker holds, between taking one and running or dropping it.
Held == {got[w] : w \in {v \in Workers : pc[v] \in {"check", "flag", "run"}}}
          \ {NoItem}

Queued == Range(queue)

-----------------------------------------------------------------------------
Init == /\ queue = <<>>
        /\ quit = FALSE
        /\ flags = FALSE
        /\ flagsChanged = FALSE
        /\ pc = [w \in Workers |-> "get"]
        /\ got = [w \in Workers |-> NoItem]
        /\ offered = {}
        /\ refused = {}
        /\ done = {}
        /\ dropped = {}

\* pthread_cond_signal: one of the threads that wait, if any does.
Signalled(p) == IF Waiting(p) = {} THEN {p}
                ELSE {[p EXCEPT ![w] = "woken"] : w \in Waiting(p)}

\* pthread_cond_broadcast
AllWoken(p) == [w \in Workers |-> IF p[w] = "waiting" THEN "woken" ELSE p[w]]

-----------------------------------------------------------------------------
(* The threads that use the pool *)

\* wqueue_send_work: ignored once quit is set; the condition is signalled
\* only when the queue was empty.
SendWork(i) ==
  /\ i \notin offered
  /\ offered' = offered \cup {i}
  /\ \/ /\ ~quit
        /\ queue' = Append(queue, i)
        /\ pc' \in IF queue = <<>> THEN Signalled(pc) ELSE {pc}
        /\ UNCHANGED refused
     \/ /\ quit
        /\ refused' = refused \cup {i}
        /\ UNCHANGED <<queue, pc>>
  /\ UNCHANGED <<quit, flags, flagsChanged, got, done, dropped>>

\* SetQuit with a signal in place of the broadcast
SetQuitSignals(val) ==
  /\ quit' = val
  /\ pc' \in Signalled(pc)
  /\ UNCHANGED <<queue, flags, flagsChanged, got, offered, refused, done, dropped>>

\* wqueue_quit, and wq_release, which calls it with 1
SetQuit(val) ==
  /\ quit' = val
  /\ pc' = AllWoken(pc)
  /\ UNCHANGED <<queue, flags, flagsChanged, got, offered, refused, done, dropped>>

\* wqueue_set_flags
SetFlags(val) ==
  /\ flags' = val
  /\ flagsChanged' = TRUE
  /\ pc' = AllWoken(pc)
  /\ UNCHANGED <<queue, quit, got, offered, refused, done, dropped>>

-----------------------------------------------------------------------------
(* The workers *)

\* PassOn without its signal
PassNothing(p) == {p}

\* A thread that leaves work behind signals the next one.
PassOn(p) == IF Tail(queue) # <<>> THEN Signalled(p) ELSE {p}

\* The loop of wqueue_get_work: take the oldest item and pass the wake-up on;
\* or return nothing when there is news; or wait.
TakeOrWait(w) ==
  /\ \/ /\ queue # <<>>
        /\ got' = [got EXCEPT ![w] = Head(queue)]
        /\ queue' = Tail(queue)
        /\ pc' \in PassOn([pc EXCEPT ![w] = "check"])
        /\ UNCHANGED flagsChanged
     \/ /\ queue = <<>>
        /\ flagsChanged \/ quit
        /\ flagsChanged' = FALSE
        /\ got' = [got EXCEPT ![w] = NoItem]
        /\ pc' = [pc EXCEPT ![w] = "check"]
        /\ UNCHANGED queue
     \/ /\ queue = <<>>
        /\ ~flagsChanged /\ ~quit
        /\ pc' = [pc EXCEPT ![w] = "waiting"]
        /\ UNCHANGED <<queue, flagsChanged, got>>
  /\ UNCHANGED <<quit, flags, offered, refused, done, dropped>>

\* GetWork that leaves its result as it was when it reports changed flags
GetWorkStale(w) ==
  /\ pc[w] = "get"
  /\ \/ /\ flagsChanged
        /\ flagsChanged' = FALSE
        /\ pc' = [pc EXCEPT ![w] = "check"]
        /\ UNCHANGED <<queue, quit, flags, got, offered, refused, done, dropped>>
     \/ /\ ~flagsChanged
        /\ TakeOrWait(w)

\* wqueue_get_work, from the call: changed flags are reported before any work.
GetWork(w) ==
  /\ pc[w] = "get"
  /\ \/ /\ flagsChanged
        /\ flagsChanged' = FALSE
        /\ got' = [got EXCEPT ![w] = NoItem]
        /\ pc' = [pc EXCEPT ![w] = "check"]
        /\ UNCHANGED <<queue, quit, flags, offered, refused, done, dropped>>
     \/ /\ ~flagsChanged
        /\ TakeOrWait(w)

\* wqueue_get_work, from the return of pthread_cond_wait
Resume(w) == pc[w] = "woken" /\ TakeOrWait(w)

\* pthread_cond_wait may return without a signal.
SpuriousWakeup(w) ==
  /\ pc[w] = "waiting"
  /\ pc' = [pc EXCEPT ![w] = "woken"]
  /\ UNCHANGED <<queue, quit, flags, flagsChanged, got, offered, refused, done, dropped>>

\* The worker leaves its loop, and with it whatever it has just taken.
Leave(w) ==
  /\ pc' = [pc EXCEPT ![w] = "exited"]
  /\ dropped' = dropped \cup ({got[w]} \ {NoItem})

\* The worker goes on: to its job, or back when there is none.
GoOn(w) ==
  /\ pc' = [pc EXCEPT ![w] = IF got[w] = NoItem THEN "get" ELSE "run"]
  /\ UNCHANGED dropped

ShouldQuit == queue = <<>> /\ quit

\* The test of wqueue_should_quit in the worker loop
CheckQuit(w) ==
  /\ pc[w] = "check"
  /\ \/ ShouldQuit /\ Leave(w)
     \/ ~ShouldQuit /\ ~ChecksFlag /\ GoOn(w)
     \/ /\ ~ShouldQuit /\ ChecksFlag
        /\ pc' = [pc EXCEPT ![w] = "flag"]
        /\ UNCHANGED dropped
  /\ UNCHANGED <<queue, quit, flags, flagsChanged, got, offered, refused, done>>

\* The test of FLAG_QUIT in the worker loop of background.c
CheckFlag(w) ==
  /\ pc[w] = "flag"
  /\ IF flags THEN Leave(w) ELSE GoOn(w)
  /\ UNCHANGED <<queue, quit, flags, flagsChanged, got, offered, refused, done>>

\* The job itself, at the end of the loop
RunJob(w) ==
  /\ pc[w] = "run"
  /\ done' = done \cup {got[w]}
  /\ pc' = [pc EXCEPT ![w] = "get"]
  /\ UNCHANGED <<queue, quit, flags, flagsChanged, got, offered, refused, dropped>>

-----------------------------------------------------------------------------
Next == \/ \E i \in Items : SendWork(i)
        \/ \E val \in BOOLEAN : SetQuit(val)
        \/ \E val \in BOOLEAN : SetFlags(val)
        \/ \E w \in Workers : \/ GetWork(w)
                              \/ Resume(w)
                              \/ SpuriousWakeup(w)
                              \/ CheckQuit(w)
                              \/ CheckFlag(w)
                              \/ RunJob(w)

Spec == Init /\ [][Next]_vars

-----------------------------------------------------------------------------
TypeOK == /\ queue \in Seq(Items)
          /\ quit \in BOOLEAN
          /\ flags \in BOOLEAN
          /\ flagsChanged \in BOOLEAN
          /\ pc \in [Workers -> Places]
          /\ got \in [Workers -> Items \cup {NoItem}]
          /\ offered \subseteq Items
          /\ refused \subseteq Items
          /\ done \subseteq Items
          /\ dropped \subseteq Items

(***************************************************************************)
(* No wake-up is lost: work is never left in the queue with threads asleep *)
(* and none on its way to take it.  wqueue_send_work signals only when the *)
(* queue was empty, so this rests on wqueue_get_work passing the signal on *)
(* when it leaves something behind.                                        *)
(***************************************************************************)
NoLostWakeup == queue # <<>> /\ Waiting(pc) # {} => Woken(pc) # {}

(***************************************************************************)
(* No thread sleeps through a quit or a change of flags, so that the       *)
(* pthread_join of sq_destroy, background_stop and background_finish       *)
(* returns.                                                                *)
(***************************************************************************)
NoSleepThroughNews == quit \/ flagsChanged => Waiting(pc) = {}

(***************************************************************************)
(* Every item offered is in exactly one place, and only once: in the       *)
(* queue, in the hands of one worker, run, dropped or refused.  No job is  *)
(* run twice (its member is freed after it) and none vanishes.             *)
(***************************************************************************)
InOnePlace ==
  /\ offered = Queued \cup Held \cup refused \cup done \cup dropped
  /\ IsInjective(queue)
  /\ \A v, w \in Workers :
        /\ v # w /\ {pc[v], pc[w]} \subseteq {"check", "flag", "run"}
        /\ got[v] # NoItem
        => got[v] # got[w]
  /\ Queued \cap (Held \cup refused \cup done \cup dropped) = {}
  /\ Held \cap (refused \cup done \cup dropped) = {}
  /\ refused \cap done = {} /\ refused \cap dropped = {} /\ done \cap dropped = {}
=============================================================================
