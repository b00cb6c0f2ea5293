------------------------------ MODULE Lifecycle ------------------------------
(***************************************************************************)
(* From start to end: running.c, the interfaces (interface.c,              *)
(* interfaces/fuse.c) with a thread each, and the queue by which they hand *)
(* reads to the main thread (syncif.c).  The program ends when its event   *)
(* loop is needed no more, which a signal, or an unmount of every file     *)
(* system, brings about through six reference counts.  Threads change them *)
(* without a lock, see Collide.                                            *)
(*                                                                         *)
(* A call under way is a stack of tasks in `work`; callbacks of a count    *)
(* that reaches zero go on top.  What sources do is not seen here but for  *)
(* the references they hold.                                               *)
(***************************************************************************)
EXTENDS Naturals, Sequences

CONSTANTS Order,       \* the interfaces, as the configuration names them
          Reads,       \* reads the kernel may ask for
          Main,        \* the main thread
          Nobody,      \* no interface, no read, no thread
          MaxSignals   \* how many SIGINTs and SIGTERMs may come

Interfaces == {Order[k] : k \in DOMAIN Order}

\* What is counted: the users of an interface, of the array of interfaces, of
\* ic_running, of need_loop, of the source list; those that only keep its memory.
Counters == Interfaces \cup {"icc", "running", "loop", "list", "listMem"}

Threads == Interfaces \cup {Main}

ASSUME NamesAreApart ==
  /\ Order \in Seq(Interfaces)
  /\ \A j, k \in DOMAIN Order : Order[j] = Order[k] => j = k
  /\ Interfaces \cap {"icc", "running", "loop", "list", "listMem"} = {}
  /\ Main \notin Interfaces /\ Nobody \notin Threads \cup Reads

ASSUME SignalsAssumption == MaxSignals \in Nat

VARIABLES
  phase,    \* of run: config, loop, over (the loop has ended), killed
  made,     \* how many interfaces have been created
  starting, \* the one fuse_go waits for
  pc,       \* of the fuse threads: unborn, start, serve, finish, gone
  quit,     \* those with did_quit
  mounted,  \* those with mounted
  kernel,   \* whether the kernel has it mounted: none, up, down
  shut,     \* those fi_close has taken down
  work,     \* the tasks of each thread
  count,    \* the references
  inbox,    \* the reads in the queue of syncif
  read,     \* how far each read is
  from,     \* the interface it came from
  listed,   \* whether rr->icc is still the array of all interfaces
  sources,  \* open, closing (unlinked), closed (freed)
  pool,     \* whether there is the pool of blocking calls
  exit,     \* whether do_exit has been called
  armed,    \* the timer for the SIGKILL, in place of that for statistics
  signals,  \* how many signals have come
  ender,    \* history: the thread that ran interfaces_quit
  hasty,    \* history: those fuse_go did not wait for
  torn,     \* history: counts of which a change was lost
  astray    \* history: what was used after it was freed

runVars  == <<phase, made, starting>>
mountVars == <<mounted, kernel>>
fiVars   == <<pc, quit, mountVars, shut>>
readVars == <<inbox, read, from>>
endVars  == <<listed, sources, pool, exit, armed, signals>>
pastVars == <<ender, hasty, torn>>
lifeVars == <<runVars, fiVars, work, count, readVars, endVars, pastVars, astray>>

Tasks ==
         [do : {"acquire", "release"}, at : Counters]
    \cup [do : {"start", "quit", "unmount", "join"}, at : Interfaces]
    \cup [do : {"walk"}, at : Reads \cup {Nobody}]
    \cup [do : {"send"}, at : Reads]
    \cup [do : {"next"}, at : 1..Len(Order) + 1]
    \cup [do : {"mount", "gone", "swap", "unlink", "exit", "arm"}, at : {Nobody}]

ReadStages == {"unseen", "looked", "sent", "running", "replied", "dropped",
               "refused", "left", "leftInPool"}

LifeTypeOK ==
  /\ phase \in {"config", "loop", "over", "killed"}
  /\ made \in 0..Len(Order)
  /\ starting \in Interfaces \cup {Nobody}
  /\ pc \in [Interfaces -> {"unborn", "start", "serve", "finish", "gone"}]
  /\ quit \subseteq Interfaces /\ mounted \subseteq Interfaces
  /\ shut \subseteq Interfaces
  /\ kernel \in [Interfaces -> {"none", "up", "down"}]
  /\ work \in [Threads -> Seq(Tasks)]
  /\ count \in [Counters -> Nat]
  /\ inbox \in Seq(Reads)
  /\ read \in [Reads -> ReadStages]
  /\ from \in [Reads -> Interfaces \cup {Nobody}]
  /\ sources \in {"open", "closing", "closed"}
  /\ {listed, pool, exit, armed} \subseteq BOOLEAN
  /\ signals \in 0..MaxSignals
  /\ ender \in Threads \cup {Nobody}
  /\ hasty \subseteq Interfaces /\ torn \subseteq Counters
  /\ astray \subseteq {"count", "icc", "interface", "list", "stats", "syncif"}

-----------------------------------------------------------------------------
(* Tasks *)

Task(do, at) == <<[do |-> do, at |-> at]>>

\* Once a change of a count is lost, or an interface taken for started too soon,
\* what becomes of the program is not followed.
Orderly == torn = {} /\ hasty = {}

Going == Orderly /\ phase # "killed"

Due(t, do) == Going /\ work[t] # <<>> /\ Head(work[t]).do = do

At(t) == Head(work[t]).at

\* The task on top is done, and tasks are what it calls.
Call(t, tasks) == work' = [work EXCEPT ![t] = tasks \o Tail(@)]

\* A handler of the event loop starts, as the one before it has returned.
Idle == Going /\ phase = "loop" /\ work[Main] = <<>>

Configuring == Going /\ phase = "config" /\ work[Main] = <<>>

Handle(tasks) == work' = [work EXCEPT ![Main] = tasks]

\* Something is used, which may have been freed.
Use(thing, freed) == astray' = astray \cup (IF freed THEN {thing} ELSE {})

\* ic_done for all, fi_close, interfaces_quit, do_exit, sl_ref_release and
\* sl_ref_free: what runs when a count reaches zero.
OnZero(c) ==
  CASE c = "icc"     -> [k \in 1..made |-> [do |-> "release", at |-> Order[k]]]
    [] c = "running" -> Task("swap", Nobody) \o Task("release", "icc")
                        \o Task("release", "loop") \o Task("release", "list")
    [] c = "loop"    -> Task("exit", Nobody)
    [] c = "list"    -> Task("unlink", Nobody) \o Task("release", "listMem")
    [] c = "listMem" -> Task("release", "loop")
    [] OTHER         -> Task("quit", c) \o Task("join", c)

\* A released list is acquired weakly, which keeps its memory alone.
Counter(t) == IF At(t) = "list" /\ count["list"] = 0 THEN "listMem" ELSE At(t)

Acquires(t) == Due(t, "acquire")
Counts(t) == Acquires(t) \/ Due(t, "release")

Counted(t) ==
  LET n == count[Counter(t)]
  IN IF n = 0 THEN 0         \* freed: see astray
     ELSE IF Acquires(t) THEN n + 1 ELSE n - 1

Callbacks(t, n) == IF Acquires(t) \/ n > 0 THEN <<>> ELSE OnZero(Counter(t))

\* ref_acquire, ref_release and their weak forms
Count(t) ==
  /\ Counts(t)
  /\ LET c == Counter(t)
     IN /\ count' = [count EXCEPT ![c] = Counted(t)]
        /\ Call(t, IF count[c] = 0 THEN <<>> ELSE Callbacks(t, Counted(t)))
        /\ Use(IF c = "icc" THEN "icc" ELSE "count", count[c] = 0)
  /\ UNCHANGED <<runVars, fiVars, readVars, endVars, pastVars>>

\* Two threads at one count, which each reads, changes and writes back: a change
\* may be lost, or both may see that it is zero.
Collide(t, u) ==
  /\ t # u /\ Counts(t) /\ Counts(u) /\ Counter(t) = Counter(u)
  /\ torn' = torn \cup {Counter(t)}
  /\ UNCHANGED <<runVars, fiVars, work, count, readVars, endVars, ender, hasty,
                 astray>>

\* The end of fuse_main
Leaving(i) == Task("quit", i) \o Task("release", i) \o Task("gone", Nobody)

-----------------------------------------------------------------------------
(* An interface: starting, serving and quitting *)

\* setup_running and load_config's sources: need_loop is held by run, the pool
\* and the list; the list's memory by whoever has it open, and by its sources.
LifeInit ==
  /\ phase = "config" /\ made = 0 /\ starting = Nobody
  /\ pc = [i \in Interfaces |-> "unborn"]
  /\ quit = {} /\ mounted = {} /\ shut = {}
  /\ kernel = [i \in Interfaces |-> "none"]
  /\ work = [t \in Threads |-> <<>>]
  /\ count = [c \in Counters |-> CASE c = "loop"    -> 3
                                   [] c = "listMem" -> 2
                                   [] OTHER         -> 1]
  /\ inbox = <<>>
  /\ read = [r \in Reads |-> "unseen"] /\ from = [r \in Reads |-> Nobody]
  /\ listed = TRUE
  /\ sources = "open" /\ pool = TRUE /\ exit = FALSE
  /\ armed = FALSE /\ signals = 0
  /\ ender = Nobody /\ hasty = {} /\ torn = {} /\ astray = {}

\* ic_fuse_make that does not acquire ic_running
CreateUnheld ==
  /\ Configuring /\ starting = Nobody /\ made < Len(Order)
  /\ Handle(Task("acquire", "listMem") \o Task("start", Order[made + 1]))
  /\ UNCHANGED <<runVars, fiVars, count, readVars, endVars, pastVars, astray>>

\* ic_fuse_make, up to fuse_go
Create ==
  /\ Configuring /\ starting = Nobody /\ made < Len(Order)
  /\ Handle(Task("acquire", "listMem") \o Task("acquire", "running")
            \o Task("start", Order[made + 1]))
  /\ UNCHANGED <<runVars, fiVars, count, readVars, endVars, pastVars, astray>>

\* fuse_go, up to its wait
Start(t) ==
  /\ Due(t, "start")
  /\ starting' = At(t)
  /\ pc' = [pc EXCEPT ![At(t)] = "start"]
  /\ work' = [work EXCEPT ![t] = Tail(@),
                          ![At(t)] = Task("acquire", At(t))
                                     \o Task("mount", Nobody)]
  /\ UNCHANGED <<phase, made, quit, mountVars, shut, count, readVars, endVars,
                 pastVars, astray>>

\* The rest of fuse_go; configure_interface lists the interface.
Enlist ==
  /\ Configuring /\ starting # Nobody
  /\ starting' = Nobody
  /\ made' = made + 1
  /\ UNCHANGED <<phase, fiVars, work, count, readVars, endVars, ender, torn,
                 astray>>

\* The wait ends when the thread has signalled or, as it is not in a loop, for no
\* reason.
Started     == Enlist /\ pc[starting] # "start" /\ UNCHANGED hasty
StartedSoon == Enlist /\ pc[starting] = "start" /\ hasty' = hasty \cup {starting}

\* fuse_main: mounting and making a session.  The thread ends as it began if
\* either fails.
Mount(i) ==
  /\ Due(i, "mount")
  /\ \/ /\ mounted' = mounted \cup {i}
        /\ kernel' = [kernel EXCEPT ![i] = "up"]
        /\ pc' = [pc EXCEPT ![i] = "serve"]
        /\ Call(i, <<>>)
     \/ /\ \/ /\ mounted' = mounted \cup {i}
              /\ kernel' = [kernel EXCEPT ![i] = "up"]
           \/ UNCHANGED <<mounted, kernel>>
        /\ pc' = [pc EXCEPT ![i] = "finish"]
        /\ Call(i, Leaving(i))
  /\ UNCHANGED <<runVars, quit, shut, count, readVars, endVars, pastVars,
                 astray>>

\* The session loop ends when the file system is mounted no more.
EndSession(i) ==
  /\ Going /\ pc[i] = "serve" /\ work[i] = <<>> /\ kernel[i] = "down"
  /\ pc' = [pc EXCEPT ![i] = "finish"]
  /\ work' = [work EXCEPT ![i] = Leaving(i)]
  /\ UNCHANGED <<runVars, quit, mountVars, shut, count, readVars, endVars,
                 pastVars, astray>>

\* The end of fuse_main, past the mutex.
Gone(i) ==
  /\ Due(i, "gone")
  /\ pc' = [pc EXCEPT ![i] = "gone"]
  /\ Call(i, <<>>)
  /\ UNCHANGED <<runVars, quit, mountVars, shut, count, readVars, endVars,
                 pastVars, astray>>

\* fi_quit: the mutex lets one thread go on.  have_running is set until then.
Quit(t) ==
  /\ Due(t, "quit")
  /\ quit' = quit \cup {At(t)}
  /\ Call(t, IF At(t) \in quit THEN <<>>
             ELSE Task("unmount", At(t)) \o Task("release", "running"))
  /\ UNCHANGED <<runVars, pc, mountVars, shut, count, readVars, endVars,
                 pastVars, astray>>

Unmount(t) ==
  /\ Due(t, "unmount")
  /\ IF At(t) \in mounted
     THEN /\ mounted' = mounted \ {At(t)}
          /\ kernel' = [kernel EXCEPT ![At(t)] = "down"]
     ELSE UNCHANGED <<mounted, kernel>>
  /\ Call(t, <<>>)
  /\ UNCHANGED <<runVars, pc, quit, shut, count, readVars, endVars, pastVars,
                 astray>>

\* fi_close that does not give up the list
JoinKeepsList(t) ==
  /\ Due(t, "join")
  /\ t = At(t) \/ pc[At(t)] = "gone"
  /\ shut' = shut \cup {At(t)}
  /\ Use("interface", At(t) \in shut)
  /\ Call(t, <<>>)
  /\ UNCHANGED <<runVars, pc, quit, mountVars, count, readVars, endVars,
                 pastVars>>

\* fi_close after its fi_quit.  A thread that would join itself is told so at
\* once, and goes on.
Join(t) ==
  /\ Due(t, "join")
  /\ t = At(t) \/ pc[At(t)] = "gone"
  /\ shut' = shut \cup {At(t)}
  /\ Use("interface", At(t) \in shut)
  /\ Call(t, Task("release", "listMem"))
  /\ UNCHANGED <<runVars, pc, quit, mountVars, count, readVars, endVars,
                 pastVars>>

-----------------------------------------------------------------------------
(* Reads *)

\* A handler of the fuse thread looks the inode up in the sources; for a read it
\* is fuse_read, and r; otherwise it replies.
Look(i, r) ==
  /\ Going /\ pc[i] = "serve" /\ work[i] = <<>> /\ kernel[i] = "up"
  /\ r # Nobody => read[r] = "unseen"
  /\ work' = [work EXCEPT ![i] = Task("walk", r)]
  /\ IF r = Nobody THEN UNCHANGED <<read, from>>
     ELSE /\ read' = [read EXCEPT ![r] = "looked"]
          /\ from' = [from EXCEPT ![r] = i]
  /\ UNCHANGED <<runVars, fiVars, count, inbox, endVars, pastVars, astray>>

\* fuse_read that does not acquire the interface
WalkedUnheld(i) ==
  /\ Due(i, "walk")
  /\ LET r == At(i)
     IN \/ /\ r # Nobody /\ sources = "open"
           /\ Call(i, Task("send", r))
           /\ UNCHANGED read
        \/ /\ Call(i, <<>>)
           /\ IF r = Nobody THEN UNCHANGED read
              ELSE read' = [read EXCEPT ![r] = "refused"]
  /\ UNCHANGED <<runVars, fiVars, count, inbox, from, endVars, pastVars,
                 astray>>

\* What it found: the inode or not.
Walked(i) ==
  /\ Due(i, "walk")
  /\ LET r == At(i)
     IN \/ /\ r # Nobody /\ sources = "open"
           /\ Call(i, Task("acquire", i) \o Task("send", r))
           /\ UNCHANGED read
        \/ /\ Call(i, <<>>)
           /\ IF r = Nobody THEN UNCHANGED read
              ELSE read' = [read EXCEPT ![r] = "refused"]
  /\ UNCHANGED <<runVars, fiVars, count, inbox, from, endVars, pastVars,
                 astray>>

\* si_read; after closedown the queue is freed.
Send(i) ==
  /\ Due(i, "send")
  /\ inbox' = Append(inbox, At(i))
  /\ read' = [read EXCEPT ![At(i)] = "sent"]
  /\ Use("syncif", phase = "over")
  /\ Call(i, <<>>)
  /\ UNCHANGED <<runVars, fiVars, count, from, endVars, pastVars>>

\* if_consume: sl_read makes a request, which holds the list.
Consume ==
  /\ Idle /\ inbox # <<>>
  /\ inbox' = Tail(inbox)
  /\ read' = [read EXCEPT ![Head(inbox)] = "running"]
  /\ Handle(Task("acquire", "list"))
  /\ UNCHANGED <<runVars, fiVars, count, from, endVars, pastVars, astray>>

\* read_done, and the end of the request.  If it fails after some source has
\* found a part it leaves that behind, with a reference to a source which nobody
\* gives up, and which may be one that has the pool.
ReadDone(r) ==
  /\ Idle /\ read[r] = "running"
  /\ \E end \in {IF from[r] \in quit THEN "dropped" ELSE "replied"}
              \cup (IF sources = "closed" THEN {} ELSE {"left"})
              \cup (IF sources # "closed" /\ pool THEN {"leftInPool"} ELSE {}) :
       read' = [read EXCEPT ![r] = end]
  /\ Use("interface", from[r] \in shut)
  /\ Handle(Task("release", from[r]) \o Task("release", "list"))
  /\ UNCHANGED <<runVars, fiVars, count, inbox, from, endVars, pastVars>>

-----------------------------------------------------------------------------
(* The end *)

\* run gives up its own reference to ic_running, and starts the loop.
StartLoop ==
  /\ Configuring /\ starting = Nobody /\ made = Len(Order)
  /\ phase' = "loop"
  /\ Handle(Task("release", "running"))
  /\ UNCHANGED <<made, starting, fiVars, count, readVars, endVars, pastVars,
                 astray>>

\* user_quit that does not acquire the array
SignalUnheld ==
  /\ Idle /\ signals < MaxSignals
  /\ signals' = signals + 1
  /\ Handle((IF listed THEN Task("next", 1) ELSE <<>>) \o Task("arm", Nobody))
  /\ UNCHANGED <<runVars, fiVars, count, readVars, listed, sources, pool, exit,
                 armed, pastVars, astray>>

\* user_quit.  Once the interfaces are released it finds an empty array.
Signal ==
  /\ Idle /\ signals < MaxSignals
  /\ signals' = signals + 1
  /\ Handle((IF listed THEN Task("acquire", "icc") \o Task("next", 1) ELSE <<>>)
            \o Task("arm", Nobody))
  /\ UNCHANGED <<runVars, fiVars, count, readVars, listed, sources, pool, exit,
                 armed, pastVars, astray>>

\* Its loop: a released array is empty, and freed.
QuitNext(t) ==
  /\ Due(t, "next")
  /\ LET k == At(t)
     IN /\ Call(t, CASE count["icc"] = 0 -> <<>>
                     [] count["icc"] > 0 /\ k > made -> Task("release", "icc")
                     [] OTHER -> Task("quit", Order[k]) \o Task("next", k + 1))
        /\ Use("icc", count["icc"] = 0)
  /\ UNCHANGED <<runVars, fiVars, count, readVars, endVars, pastVars>>

Arm(t) ==
  /\ Due(t, "arm")
  /\ armed' = TRUE
  /\ Call(t, <<>>)
  /\ UNCHANGED <<runVars, fiVars, count, readVars, listed, sources, pool, exit,
                 signals, pastVars, astray>>

\* stat_timer_tick asks every source ever made.
StatTick ==
  /\ Idle /\ ~armed
  /\ Use("stats", sources # "open")
  /\ UNCHANGED <<runVars, fiVars, work, count, readVars, endVars, pastVars>>

\* interfaces_quit begins with an empty array in the place of the old.
Swap(t) ==
  /\ Due(t, "swap")
  /\ listed' = FALSE
  /\ ender' = t
  /\ Call(t, <<>>)
  /\ UNCHANGED <<runVars, fiVars, count, readVars, sources, pool, exit, armed,
                 signals, hasty, torn, astray>>

\* sl_ref_release: sources leave the list, and those that can be are freed,
\* while fuse threads may be walking along it.
Unlink(t) ==
  /\ Due(t, "unlink")
  /\ sources' = "closing"
  /\ Use("list", \E i \in Interfaces : Due(i, "walk"))
  /\ Call(t, <<>>)
  /\ UNCHANGED <<runVars, fiVars, count, readVars, listed, pool, exit, armed,
                 signals, pastVars>>

\* The last source to close gives up the list.  One that a read has left something
\* of never closes.
CloseSources ==
  /\ Idle /\ sources = "closing"
  /\ \A r \in Reads : read[r] \notin {"running", "left", "leftInPool"}
  /\ sources' = "closed"
  /\ Handle(Task("release", "listMem"))
  /\ UNCHANGED <<runVars, fiVars, count, readVars, listed, pool, exit, armed,
                 signals, pastVars, astray>>

\* The pool ends after its last source has closed; others may close later.
EndPool ==
  /\ Idle /\ pool /\ sources # "open"
  /\ \A r \in Reads : read[r] \notin {"running", "leftInPool"}
  /\ pool' = FALSE
  /\ Handle(Task("release", "loop"))
  /\ UNCHANGED <<runVars, fiVars, count, readVars, listed, sources, exit, armed,
                 signals, pastVars, astray>>

\* do_exit, in whichever thread released need_loop
Exit(t) ==
  /\ Due(t, "exit")
  /\ exit' = TRUE
  /\ Call(t, <<>>)
  /\ UNCHANGED <<runVars, fiVars, count, readVars, listed, sources, pool, armed,
                 signals, pastVars, astray>>

\* The loop ends, and closedown frees what is left.
EndLoop ==
  /\ Idle /\ exit
  /\ phase' = "over"
  /\ UNCHANGED <<made, starting, fiVars, work, count, readVars, endVars,
                 pastVars, astray>>

\* Ninety seconds after a signal; the timer needs the loop.
Kill ==
  /\ Idle /\ armed
  /\ phase' = "killed"
  /\ UNCHANGED <<made, starting, fiVars, work, count, readVars, endVars,
                 pastVars, astray>>

\* Somebody unmounts the file system.
UnmountOutside(i) ==
  /\ Going /\ kernel[i] = "up"
  /\ kernel' = [kernel EXCEPT ![i] = "down"]
  /\ UNCHANGED <<runVars, pc, quit, mounted, shut, work, count, readVars,
                 endVars, pastVars, astray>>

Step(t) == Start(t) \/ Count(t) \/ Quit(t) \/ Unmount(t) \/ Join(t)
           \/ QuitNext(t) \/ Arm(t) \/ Swap(t) \/ Unlink(t) \/ Exit(t)

FuseStep(i) == Mount(i) \/ EndSession(i) \/ Gone(i) \/ Walked(i) \/ Send(i)

LifeNext ==
  \/ \E t \in Threads : Step(t)
  \/ \E t, u \in Threads : Collide(t, u)
  \/ \E i \in Interfaces : \/ FuseStep(i) \/ UnmountOutside(i)
                           \/ \E r \in Reads \cup {Nobody} : Look(i, r)
  \/ Create \/ Started \/ StartedSoon \/ StartLoop
  \/ Consume \/ \E r \in Reads : ReadDone(r)
  \/ Signal \/ StatTick \/ CloseSources \/ EndPool \/ EndLoop \/ Kill

LifeSpec == LifeInit /\ [][LifeNext]_lifeVars

\* Threads go on, handlers run, a request is answered.
Fairness ==
  /\ \A t \in Threads : WF_lifeVars(Step(t))
  /\ \A i \in Interfaces : WF_lifeVars(FuseStep(i))
  /\ WF_lifeVars(Create) /\ WF_lifeVars(Started) /\ WF_lifeVars(StartLoop)
  /\ WF_lifeVars(Consume) /\ \A r \in Reads : WF_lifeVars(ReadDone(r))
  /\ WF_lifeVars(CloseSources) /\ WF_lifeVars(EndPool) /\ WF_lifeVars(EndLoop)

FairSpec == LifeSpec /\ Fairness

-----------------------------------------------------------------------------
(* Properties *)

(***************************************************************************)
(* Things are taken down after those who use them: an interface when its   *)
(* thread serves no more and its reads are settled, the program's event    *)
(* loop, and with it the queue for reads, when every interface, source and *)
(* the pool are gone.                                                      *)
(***************************************************************************)
Settled(r) == read[r] \notin {"sent", "running"}

TakenDownInOrder ==
  Orderly =>
    /\ \A i \in shut : /\ pc[i] \in {"finish", "gone"}
                       /\ \A r \in Reads : from[r] = i => Settled(r)
    /\ exit => /\ shut = Interfaces
               /\ \A i \in Interfaces : pc[i] \in {"finish", "gone"}
               /\ sources = "closed" /\ ~pool

(***************************************************************************)
(* Counts, interfaces and the queue are not used after they are freed.     *)
(* What may be are the array of interfaces, by a signal's handler, if an   *)
(* interface that was unmounted ends them all in its own thread; and the   *)
(* sources, by fuse threads that walk along them and by the timer for      *)
(* statistics, but not before every interface has quit.                    *)
(***************************************************************************)
FreedIsLeftAlone ==
  Orderly =>
    /\ astray \subseteq {"icc", "list", "stats"}
    /\ "icc" \in astray => ender \in Interfaces
    /\ astray \cap {"list", "stats"} # {} => quit = Interfaces

(***************************************************************************)
(* The sources are released under a fuse thread that walks along them only *)
(* if a signal came: without one each interface quits in its own thread,   *)
(* after its session, and none is left that looks anything up.             *)
(***************************************************************************)
LateWalksNeedASignal == Orderly => ("list" \in astray => signals > 0)

(***************************************************************************)
(* When every interface has quit, on a signal or because it was unmounted, *)
(* the program ends, and by itself, unless a read that failed has left     *)
(* something behind: then its source, the list and the loop stay, and only *)
(* the SIGKILL that a signal has armed ends the program.                   *)
(***************************************************************************)
NothingLeft == \A r \in Reads : read[r] \notin {"left", "leftInPool"}

QuitEnds ==
  quit = Interfaces ~> (phase \in {"over", "killed"} \/ ~Orderly \/ ~NothingLeft)
=============================================================================
