--------------------------- MODULE WorkQueueProofs ---------------------------
(***************************************************************************)
(* The invariants of the work queue, for any number of threads and jobs.   *)
(***************************************************************************)
EXTENDS WorkQueue, SequenceTheorems, TLAPS

(***************************************************************************)
(* A signal wakes a thread that waits, if there is one, and no other; a    *)
(* broadcast leaves none asleep.  Neither touches the threads at work.     *)
(***************************************************************************)
LEMMA SignalledWakesOne ==
  ASSUME NEW p \in [Workers -> Places], NEW q \in Signalled(p)
  PROVE  /\ q \in [Workers -> Places]
         /\ Waiting(q) \subseteq Waiting(p)
         /\ Waiting(p) # {} => Woken(q) # {}
         /\ \A w \in Workers : p[w] \notin {"waiting"} => q[w] = p[w]
         /\ \A w \in Workers : q[w] # p[w] => q[w] = "woken"
<1>1. CASE Waiting(p) = {}
  BY <1>1 DEF Signalled
<1>2. CASE Waiting(p) # {}
  <2>1. PICK v \in Waiting(p) : q = [p EXCEPT ![v] = "woken"]
    BY <1>2 DEF Signalled
  <2>2. v \in Workers /\ p[v] = "waiting" /\ q[v] = "woken"
    BY <2>1 DEF Waiting
  <2> QED
    BY <2>1, <2>2 DEF Waiting, Woken, Places
<1> QED BY <1>1, <1>2

LEMMA AllWokenWakesAll ==
  ASSUME NEW p \in [Workers -> Places]
  PROVE  /\ AllWoken(p) \in [Workers -> Places]
         /\ Waiting(AllWoken(p)) = {}
         /\ \A w \in Workers : AllWoken(p)[w] # p[w] => AllWoken(p)[w] = "woken"
         /\ \A w \in Workers : p[w] # "waiting" => AllWoken(p)[w] = p[w]
BY DEF AllWoken, Waiting, Places

LEMMA TakeOrWaitType ==
  ASSUME TypeOK, NEW w \in Workers, TakeOrWait(w)
  PROVE  TypeOK'
<1>1. CASE /\ queue # <<>>
           /\ got' = [got EXCEPT ![w] = Head(queue)]
           /\ queue' = Tail(queue)
           /\ pc' \in PassOn([pc EXCEPT ![w] = "check"])
           /\ UNCHANGED flagsChanged
  <2>1. Head(queue) \in Items /\ Tail(queue) \in Seq(Items)
    BY <1>1, HeadTailProperties DEF TypeOK
  <2>2. [pc EXCEPT ![w] = "check"] \in [Workers -> Places]
    BY DEF TypeOK, Places
  <2>3. pc' \in [Workers -> Places]
    BY <1>1, <2>2, SignalledWakesOne DEF PassOn
  <2> QED BY <1>1, <2>1, <2>3 DEF TypeOK, TakeOrWait
<1>2. CASE /\ queue = <<>>
           /\ flagsChanged \/ quit
           /\ flagsChanged' = FALSE
           /\ got' = [got EXCEPT ![w] = NoItem]
           /\ pc' = [pc EXCEPT ![w] = "check"]
           /\ UNCHANGED queue
  BY <1>2 DEF TypeOK, TakeOrWait, Places
<1>3. CASE /\ queue = <<>>
           /\ ~flagsChanged /\ ~quit
           /\ pc' = [pc EXCEPT ![w] = "waiting"]
           /\ UNCHANGED <<queue, flagsChanged, got>>
  BY <1>3 DEF TypeOK, TakeOrWait, Places
<1> QED BY <1>1, <1>2, <1>3 DEF TakeOrWait

(***************************************************************************)
(* A worker runs only what it was given: with no item it goes back.        *)
(***************************************************************************)
RunsAnItem == \A w \in Workers : pc[w] = "run" => got[w] # NoItem

LEMMA TypeStep == TypeOK /\ RunsAnItem /\ [Next]_vars => TypeOK'
<1> SUFFICES ASSUME TypeOK, RunsAnItem, [Next]_vars PROVE TypeOK'
  OBVIOUS
<1>1. ASSUME NEW i \in Items, SendWork(i) PROVE TypeOK'
  <2>1. pc' \in [Workers -> Places]
    BY <1>1, SignalledWakesOne DEF SendWork, TypeOK
  <2>2. queue' \in Seq(Items)
    BY <1>1, AppendProperties DEF SendWork, TypeOK
  <2> QED BY <1>1, <2>1, <2>2 DEF SendWork, TypeOK
<1>2. ASSUME NEW val \in BOOLEAN, SetQuit(val) PROVE TypeOK'
  BY <1>2, AllWokenWakesAll DEF SetQuit, TypeOK
<1>3. ASSUME NEW val \in BOOLEAN, SetFlags(val) PROVE TypeOK'
  BY <1>3, AllWokenWakesAll DEF SetFlags, TypeOK
<1>4. ASSUME NEW w \in Workers, GetWork(w) PROVE TypeOK'
  <2>1. CASE flagsChanged
    BY <1>4, <2>1 DEF GetWork, TypeOK, Places
  <2>2. CASE ~flagsChanged
    BY <1>4, <2>2, TakeOrWaitType DEF GetWork
  <2> QED BY <2>1, <2>2
<1>5. ASSUME NEW w \in Workers, Resume(w) PROVE TypeOK'
  BY <1>5, TakeOrWaitType DEF Resume
<1>6. ASSUME NEW w \in Workers, SpuriousWakeup(w) PROVE TypeOK'
  BY <1>6 DEF SpuriousWakeup, TypeOK, Places
<1>7. ASSUME NEW w \in Workers, CheckQuit(w) PROVE TypeOK'
  BY <1>7 DEF CheckQuit, Leave, GoOn, TypeOK, Places
<1>8. ASSUME NEW w \in Workers, CheckFlag(w) PROVE TypeOK'
  BY <1>8 DEF CheckFlag, Leave, GoOn, TypeOK, Places
<1>9. ASSUME NEW w \in Workers, RunJob(w) PROVE TypeOK'
  BY <1>9 DEF RunJob, RunsAnItem, TypeOK, Places
<1>10. CASE UNCHANGED vars
  BY <1>10 DEF vars, TypeOK
<1> QED
  BY <1>1, <1>2, <1>3, <1>4, <1>5, <1>6, <1>7, <1>8, <1>9, <1>10 DEF Next

-----------------------------------------------------------------------------
(* Nobody sleeps through work or news *)

LEMMA RunsAnItemStep == TypeOK /\ RunsAnItem /\ [Next]_vars => RunsAnItem'
<1> SUFFICES ASSUME TypeOK, RunsAnItem, [Next]_vars PROVE RunsAnItem'
  OBVIOUS
<1>1. ASSUME NEW i \in Items, SendWork(i) PROVE RunsAnItem'
  <2>1. \A w \in Workers : pc'[w] # pc[w] => pc'[w] = "woken"
    BY <1>1, SignalledWakesOne DEF SendWork, TypeOK
  <2> QED BY <1>1, <2>1 DEF SendWork, RunsAnItem
<1>2. ASSUME NEW val \in BOOLEAN, SetQuit(val) PROVE RunsAnItem'
  BY <1>2, AllWokenWakesAll DEF SetQuit, RunsAnItem, TypeOK
<1>3. ASSUME NEW val \in BOOLEAN, SetFlags(val) PROVE RunsAnItem'
  BY <1>3, AllWokenWakesAll DEF SetFlags, RunsAnItem, TypeOK
<1>4. ASSUME NEW w \in Workers, TakeOrWait(w) PROVE RunsAnItem'
  <2>1. CASE /\ got' = [got EXCEPT ![w] = Head(queue)]
             /\ pc' \in PassOn([pc EXCEPT ![w] = "check"])
    <3>1. [pc EXCEPT ![w] = "check"] \in [Workers -> Places]
      BY DEF TypeOK, Places
    <3>2. /\ pc'[w] = "check"
          /\ \A v \in Workers : v # w /\ pc'[v] # pc[v] => pc'[v] = "woken"
      BY <2>1, <3>1, SignalledWakesOne DEF PassOn, TypeOK
    <3> QED BY <2>1, <3>2 DEF RunsAnItem, TypeOK
  <2>2. CASE /\ got' = [got EXCEPT ![w] = NoItem]
             /\ pc' = [pc EXCEPT ![w] = "check"]
    BY <2>2 DEF RunsAnItem, TypeOK
  <2>3. CASE pc' = [pc EXCEPT ![w] = "waiting"] /\ UNCHANGED got
    BY <2>3 DEF RunsAnItem, TypeOK
  <2> QED BY <1>4, <2>1, <2>2, <2>3 DEF TakeOrWait
<1>5. ASSUME NEW w \in Workers, GetWork(w) PROVE RunsAnItem'
  BY <1>4, <1>5 DEF GetWork, RunsAnItem, TypeOK
<1>6. ASSUME NEW w \in Workers, Resume(w) PROVE RunsAnItem'
  BY <1>4, <1>6 DEF Resume
<1>7. ASSUME NEW w \in Workers, SpuriousWakeup(w) PROVE RunsAnItem'
  BY <1>7 DEF SpuriousWakeup, RunsAnItem, TypeOK
<1>8. ASSUME NEW w \in Workers, CheckQuit(w) PROVE RunsAnItem'
  BY <1>8 DEF CheckQuit, Leave, GoOn, RunsAnItem, TypeOK
<1>9. ASSUME NEW w \in Workers, CheckFlag(w) PROVE RunsAnItem'
  BY <1>9 DEF CheckFlag, Leave, GoOn, RunsAnItem, TypeOK
<1>10. ASSUME NEW w \in Workers, RunJob(w) PROVE RunsAnItem'
  BY <1>10 DEF RunJob, RunsAnItem, TypeOK
<1>11. CASE UNCHANGED vars
  BY <1>11 DEF vars, RunsAnItem
<1> QED
  BY <1>1, <1>2, <1>3, <1>5, <1>6, <1>7, <1>8, <1>9, <1>10, <1>11 DEF Next

NobodySleeps == NoLostWakeup /\ NoSleepThroughNews

LEMMA TakeOrWaitSleepsSafely ==
  ASSUME TypeOK, NobodySleeps, NEW w \in Workers, TakeOrWait(w)
  PROVE  NobodySleeps'
<1>1. CASE /\ queue # <<>>
           /\ queue' = Tail(queue)
           /\ pc' \in PassOn([pc EXCEPT ![w] = "check"])
           /\ UNCHANGED flagsChanged
  <2> DEFINE p == [pc EXCEPT ![w] = "check"]
  <2>1. p \in [Workers -> Places] /\ Waiting(p) \subseteq Waiting(pc)
    BY DEF TypeOK, Places, Waiting
  <2>2. CASE Tail(queue) # <<>>
    <3>1. Waiting(pc') \subseteq Waiting(p) /\ (Waiting(p) # {} => Woken(pc') # {})
      BY <1>1, <2>1, <2>2, SignalledWakesOne DEF PassOn
    <3>2. UNCHANGED quit
      BY DEF TakeOrWait
    <3> QED BY <1>1, <2>1, <3>1, <3>2
            DEF NobodySleeps, NoLostWakeup, NoSleepThroughNews
  <2>3. CASE Tail(queue) = <<>>
    BY <1>1, <2>1, <2>3 DEF PassOn, NobodySleeps, NoLostWakeup, NoSleepThroughNews, TakeOrWait
  <2> QED BY <2>2, <2>3
<1>2. CASE /\ queue = <<>>
           /\ flagsChanged \/ quit
           /\ flagsChanged' = FALSE
           /\ pc' = [pc EXCEPT ![w] = "check"]
           /\ UNCHANGED queue
  BY <1>2 DEF NobodySleeps, NoLostWakeup, NoSleepThroughNews, TakeOrWait, Waiting, TypeOK
<1>3. CASE /\ queue = <<>>
           /\ ~flagsChanged /\ ~quit
           /\ UNCHANGED <<queue, flagsChanged>>
  BY <1>3 DEF NobodySleeps, NoLostWakeup, NoSleepThroughNews, TakeOrWait
<1> QED BY <1>1, <1>2, <1>3 DEF TakeOrWait

LEMMA NobodySleepsStep == TypeOK /\ NobodySleeps /\ [Next]_vars => NobodySleeps'
<1> SUFFICES ASSUME TypeOK, NobodySleeps, [Next]_vars PROVE NobodySleeps'
  OBVIOUS
<1> USE DEF NobodySleeps
<1>1. ASSUME NEW i \in Items, SendWork(i) PROVE NobodySleeps'
  <2>1. CASE quit
    BY <1>1, <2>1 DEF SendWork, NoLostWakeup, NoSleepThroughNews
  <2>2. CASE ~quit /\ queue = <<>>
    <3>1. /\ Waiting(pc') \subseteq Waiting(pc)
          /\ Waiting(pc) # {} => Woken(pc') # {}
      BY <1>1, <2>2, SignalledWakesOne DEF SendWork, TypeOK
    <3> QED BY <1>1, <3>1 DEF SendWork, NoLostWakeup, NoSleepThroughNews
  <2>3. CASE ~quit /\ queue # <<>>
    BY <1>1, <2>3 DEF SendWork, NoLostWakeup, NoSleepThroughNews
  <2> QED BY <2>1, <2>2, <2>3
<1>2. ASSUME NEW val \in BOOLEAN, SetQuit(val) PROVE NobodySleeps'
  BY <1>2, AllWokenWakesAll DEF SetQuit, NoLostWakeup, NoSleepThroughNews, TypeOK
<1>3. ASSUME NEW val \in BOOLEAN, SetFlags(val) PROVE NobodySleeps'
  BY <1>3, AllWokenWakesAll DEF SetFlags, NoLostWakeup, NoSleepThroughNews, TypeOK
<1>4. ASSUME NEW w \in Workers, GetWork(w) PROVE NobodySleeps'
  <2>1. CASE flagsChanged
    BY <1>4, <2>1 DEF GetWork, NoLostWakeup, NoSleepThroughNews, Waiting, TypeOK
  <2>2. CASE ~flagsChanged
    BY <1>4, <2>2, TakeOrWaitSleepsSafely DEF GetWork
  <2> QED BY <2>1, <2>2
<1>5. ASSUME NEW w \in Workers, Resume(w) PROVE NobodySleeps'
  BY <1>5, TakeOrWaitSleepsSafely DEF Resume
<1>6. ASSUME NEW w \in Workers, SpuriousWakeup(w) PROVE NobodySleeps'
  BY <1>6 DEF SpuriousWakeup, NoLostWakeup, NoSleepThroughNews, Waiting, Woken, TypeOK
<1>7. ASSUME NEW w \in Workers, CheckQuit(w) \/ CheckFlag(w) \/ RunJob(w)
      PROVE NobodySleeps'
  <2>1. /\ UNCHANGED <<queue, quit, flagsChanged>>
        /\ pc[w] \in {"check", "flag", "run"}
        /\ \E place \in {"get", "flag", "run", "exited"} : pc' = [pc EXCEPT ![w] = place]
    BY <1>7 DEF CheckQuit, CheckFlag, RunJob, Leave, GoOn
  <2>2. Waiting(pc') = Waiting(pc) /\ Woken(pc') = Woken(pc)
    BY <2>1 DEF Waiting, Woken, TypeOK
  <2> QED BY <2>1, <2>2 DEF NoLostWakeup, NoSleepThroughNews
<1>8. CASE UNCHANGED vars
  BY <1>8 DEF vars, NoLostWakeup, NoSleepThroughNews
<1> QED
  BY <1>1, <1>2, <1>3, <1>4, <1>5, <1>6, <1>7, <1>8 DEF Next

-----------------------------------------------------------------------------
(* Every item in one place *)

(***************************************************************************)
(* What joining and leaving the queue does to the items queued.            *)
(***************************************************************************)
LEMMA QueueJoined ==
  ASSUME NEW q \in Seq(Items), NEW i \in Items
  PROVE  /\ Range(Append(q, i)) = Range(q) \cup {i}
         /\ IsInjective(q) /\ i \notin Range(q) => IsInjective(Append(q, i))
<1>1. /\ Len(Append(q, i)) = Len(q) + 1 /\ Len(q) \in Nat
      /\ DOMAIN q = 1..Len(q) /\ DOMAIN Append(q, i) = 1..(Len(q) + 1)
      /\ \A n \in 1..Len(q) : Append(q, i)[n] = q[n]
      /\ Append(q, i)[Len(q) + 1] = i
  BY AppendProperties, LenProperties
<1>2. 1..(Len(q) + 1) = (1..Len(q)) \cup {Len(q) + 1}
  BY <1>1
<1>3. Range(Append(q, i)) = Range(q) \cup {i}
  BY <1>1, <1>2 DEF Range
<1>4. IsInjective(q) /\ i \notin Range(q) => IsInjective(Append(q, i))
  BY <1>1, <1>2 DEF IsInjective, Range
<1> QED BY <1>3, <1>4

LEMMA QueueLeft ==
  ASSUME NEW q \in Seq(Items), q # <<>>
  PROVE  /\ Range(q) = {Head(q)} \cup Range(Tail(q))
         /\ IsInjective(q) => /\ IsInjective(Tail(q))
                              /\ Head(q) \notin Range(Tail(q))
<1>1. /\ Len(q) \in Nat \ {0} /\ DOMAIN q = 1..Len(q)
      /\ DOMAIN Tail(q) = 1..(Len(q) - 1)
      /\ \A n \in 1..(Len(q) - 1) : Tail(q)[n] = q[n + 1]
      /\ Head(q) = q[1]
  BY HeadTailProperties, LenProperties, EmptySeq
<1>2. /\ 1 \in DOMAIN q
      /\ \A n \in DOMAIN Tail(q) : n + 1 \in DOMAIN q /\ n + 1 # 1
      /\ \A m \in DOMAIN q : m # 1 => m - 1 \in DOMAIN Tail(q) /\ (m - 1) + 1 = m
  BY <1>1
<1>3. Range(Tail(q)) \subseteq Range(q) /\ Head(q) \in Range(q)
  BY <1>1, <1>2 DEF Range
<1>4. ASSUME NEW x \in Range(q), x # Head(q) PROVE x \in Range(Tail(q))
  <2>1. PICK m \in DOMAIN q : x = q[m]
    BY DEF Range
  <2>2. m # 1 /\ x = Tail(q)[m - 1] /\ m - 1 \in DOMAIN Tail(q)
    BY <1>1, <1>2, <1>4, <2>1
  <2> QED BY <2>2 DEF Range
<1>5. ASSUME IsInjective(q) PROVE IsInjective(Tail(q))
  <2> SUFFICES ASSUME NEW a \in DOMAIN Tail(q), NEW b \in DOMAIN Tail(q),
                      Tail(q)[a] = Tail(q)[b]
               PROVE  a = b
    BY DEF IsInjective
  <2>1. a + 1 = b + 1
    BY <1>1, <1>2, <1>5 DEF IsInjective
  <2> QED BY <1>1, <2>1
<1>6. ASSUME IsInjective(q) PROVE Head(q) \notin Range(Tail(q))
  BY <1>1, <1>2, <1>6 DEF IsInjective, Range
<1> QED BY <1>3, <1>4, <1>5, <1>6

AtWork(w) == pc[w] \in {"check", "flag", "run"}

(***************************************************************************)
(* A step that moves no item, and no thread to or from its work, leaves    *)
(* every item where it was.                                                *)
(***************************************************************************)
LEMMA NothingMoved ==
  ASSUME InOnePlace, UNCHANGED <<queue, offered, refused, done, dropped>>,
         \A w \in Workers : AtWork(w)' /\ got'[w] # NoItem
                             <=> AtWork(w) /\ got[w] # NoItem,
         \A w \in Workers : AtWork(w) /\ got[w] # NoItem => got'[w] = got[w]
  PROVE  InOnePlace'
<1>1. Held' = Held
  BY DEF Held, AtWork
<1>2. Queued' = Queued
  BY DEF Queued
<1>3. \A v, w \in Workers :
         /\ v # w /\ {pc'[v], pc'[w]} \subseteq {"check", "flag", "run"}
         /\ got'[v] # NoItem
         => got'[v] # got'[w]
  BY DEF InOnePlace, AtWork
<1> QED BY <1>1, <1>2, <1>3 DEF InOnePlace

LEMMA TakeOrWaitMoves ==
  ASSUME TypeOK, InOnePlace, NEW w \in Workers, ~AtWork(w), TakeOrWait(w)
  PROVE  InOnePlace'
<1>1. CASE /\ queue # <<>>
           /\ got' = [got EXCEPT ![w] = Head(queue)]
           /\ queue' = Tail(queue)
           /\ pc' \in PassOn([pc EXCEPT ![w] = "check"])
  <2>1. [pc EXCEPT ![w] = "check"] \in [Workers -> Places]
    BY DEF TypeOK, Places
  <2>2. /\ AtWork(w)'
        /\ \A v \in Workers : v # w => (AtWork(v)' <=> AtWork(v))
        /\ got'[w] = Head(queue)
        /\ \A v \in Workers : v # w => got'[v] = got[v]
    <3>1. \A v \in Workers : v # w /\ pc'[v] # pc[v] =>
                             pc[v] = "waiting" /\ pc'[v] = "woken"
      BY <1>1, <2>1, SignalledWakesOne DEF PassOn, TypeOK
    <3>2. pc'[w] = "check"
      BY <1>1, <2>1, SignalledWakesOne DEF PassOn, TypeOK
    <3> QED BY <1>1, <3>1, <3>2 DEF AtWork, TypeOK
  <2>3. Head(queue) \in Items /\ Head(queue) # NoItem
    BY <1>1, HeadTailProperties, NoItemAssumption DEF TypeOK
  <2>4. Held' = Held \cup {Head(queue)}
    <3>1. Held = {got[v] : v \in {u \in Workers : AtWork(u)}} \ {NoItem}
      BY DEF Held, AtWork
    <3>2. Held' = {got'[v] : v \in {u \in Workers : AtWork(u)'}} \ {NoItem}
      BY DEF Held, AtWork
    <3>3. {u \in Workers : AtWork(u)'} = {u \in Workers : AtWork(u)} \cup {w}
      BY <2>2
    <3> QED BY <2>2, <2>3, <3>1, <3>2, <3>3
  <2>5. /\ Queued = {Head(queue)} \cup Queued'
        /\ IsInjective(queue') /\ Head(queue) \notin Queued'
    BY <1>1, QueueLeft DEF TypeOK, Queued, InOnePlace
  <2>6. UNCHANGED <<offered, refused, done, dropped>>
    BY DEF TakeOrWait
  <2>7. ASSUME NEW u \in Workers, NEW v \in Workers, u # v,
               AtWork(u)', AtWork(v)', got'[u] # NoItem
        PROVE  got'[u] # got'[v]
    <3>1. \A x \in Workers : x # w /\ AtWork(x) /\ got[x] # NoItem => got[x] \in Held
      BY DEF Held, AtWork
    <3>2. Head(queue) \notin Held
      BY <2>5 DEF InOnePlace
    <3>3. CASE u = w
      BY <2>2, <2>3, <2>7, <3>1, <3>2, <3>3
    <3>4. CASE v = w
      BY <2>2, <2>7, <3>1, <3>2, <3>4
    <3>5. CASE u # w /\ v # w
      BY <2>2, <2>7, <3>5 DEF InOnePlace, AtWork
    <3> QED BY <3>3, <3>4, <3>5
  <2>8. \A u, v \in Workers :
           /\ u # v /\ {pc'[u], pc'[v]} \subseteq {"check", "flag", "run"}
           /\ got'[u] # NoItem
           => got'[u] # got'[v]
    BY <2>7 DEF AtWork
  <2> QED BY <2>4, <2>5, <2>6, <2>8 DEF InOnePlace
<1>2. CASE /\ got' = [got EXCEPT ![w] = NoItem]
           /\ pc' = [pc EXCEPT ![w] = "check"]
           /\ UNCHANGED queue
  BY <1>2, NothingMoved DEF TakeOrWait, AtWork, TypeOK
<1>3. CASE /\ pc' = [pc EXCEPT ![w] = "waiting"]
           /\ UNCHANGED <<queue, flagsChanged, got>>
  BY <1>3, NothingMoved DEF TakeOrWait, AtWork, TypeOK
<1> QED BY <1>1, <1>2, <1>3 DEF TakeOrWait

(***************************************************************************)
(* What a worker has in hand when it leaves its work is nobody else's, so  *)
(* that it goes to one place.                                              *)
(***************************************************************************)
LEMMA OneLetsGo ==
  ASSUME TypeOK, InOnePlace, NEW w \in Workers, AtWork(w), ~AtWork(w)',
         \A v \in Workers : v # w => pc'[v] = pc[v],
         UNCHANGED <<queue, got, offered, refused>>,
         \/ done' = done \cup ({got[w]} \ {NoItem}) /\ UNCHANGED dropped
         \/ dropped' = dropped \cup ({got[w]} \ {NoItem}) /\ UNCHANGED done
  PROVE  InOnePlace'
<1> DEFINE mine == {got[w]} \ {NoItem}
<1>1. Held = Held' \cup mine /\ Held' \cap mine = {}
  <2>1. Held = {got[v] : v \in {u \in Workers : AtWork(u)}} \ {NoItem}
    BY DEF Held, AtWork
  <2>2. Held' = {got[v] : v \in {u \in Workers : AtWork(u)'}} \ {NoItem}
    BY DEF Held, AtWork
  <2>3. {u \in Workers : AtWork(u)} = {u \in Workers : AtWork(u)'} \cup {w}
    BY DEF AtWork
  <2>4. \A v \in Workers : v # w /\ AtWork(v)' /\ got[w] # NoItem => got[v] # got[w]
    BY DEF InOnePlace, AtWork
  <2>5. \A v \in {u \in Workers : AtWork(u)'} : v # w
    OBVIOUS
  <2> QED BY <2>1, <2>2, <2>3, <2>4, <2>5
<1>2. \A u, v \in Workers :
         /\ u # v /\ {pc'[u], pc'[v]} \subseteq {"check", "flag", "run"}
         /\ got'[u] # NoItem
         => got'[u] # got'[v]
  BY DEF InOnePlace, AtWork
<1>3. Queued' = Queued
  BY DEF Queued
<1> HIDE DEF mine
<1>4. /\ Queued \cap mine = {}
      /\ mine \cap (refused \cup done \cup dropped) = {}
  BY <1>1 DEF InOnePlace
<1>5. \/ done' = done \cup mine /\ UNCHANGED dropped
      \/ dropped' = dropped \cup mine /\ UNCHANGED done
  BY DEF mine
<1> QED BY <1>1, <1>2, <1>3, <1>4, <1>5 DEF InOnePlace

LEMMA InOnePlaceStep ==
  TypeOK /\ RunsAnItem /\ InOnePlace /\ [Next]_vars => InOnePlace'
<1> SUFFICES ASSUME TypeOK, RunsAnItem, InOnePlace, [Next]_vars PROVE InOnePlace'
  OBVIOUS
<1>1. ASSUME NEW i \in Items, SendWork(i) PROVE InOnePlace'
  <2>1. \A w \in Workers : AtWork(w)' <=> AtWork(w)
    BY <1>1, SignalledWakesOne DEF SendWork, TypeOK, AtWork
  <2>2. Held' = Held
    BY <1>1, <2>1 DEF SendWork, Held, AtWork
  <2>3. \A u, v \in Workers :
           /\ u # v /\ {pc'[u], pc'[v]} \subseteq {"check", "flag", "run"}
           /\ got'[u] # NoItem
           => got'[u] # got'[v]
    BY <1>1, <2>1 DEF SendWork, InOnePlace, AtWork
  <2>4. i \notin offered /\ offered' = offered \cup {i} /\ UNCHANGED <<done, dropped>>
    BY <1>1 DEF SendWork
  <2>5. CASE quit
    <3>1. refused' = refused \cup {i} /\ UNCHANGED queue
      BY <1>1, <2>5 DEF SendWork
    <3> QED BY <2>2, <2>3, <2>4, <3>1 DEF InOnePlace, Queued
  <2>6. CASE ~quit
    <3>1. queue' = Append(queue, i) /\ UNCHANGED refused
      BY <1>1, <2>6 DEF SendWork
    <3>2. i \notin Queued
      BY <2>4 DEF InOnePlace
    <3>3. Queued' = Queued \cup {i} /\ IsInjective(queue')
      BY <3>1, <3>2, QueueJoined DEF Queued, InOnePlace, TypeOK
    <3> QED BY <2>2, <2>3, <2>4, <3>1, <3>3 DEF InOnePlace
  <2> QED BY <2>5, <2>6
<1>2. ASSUME NEW val \in BOOLEAN, SetQuit(val) \/ SetFlags(val) PROVE InOnePlace'
  BY <1>2, AllWokenWakesAll, NothingMoved DEF SetQuit, SetFlags, AtWork, TypeOK
<1>3. ASSUME NEW w \in Workers, GetWork(w) PROVE InOnePlace'
  <2>1. CASE flagsChanged
    BY <1>3, <2>1, NothingMoved DEF GetWork, AtWork, TypeOK
  <2>2. CASE ~flagsChanged
    BY <1>3, <2>2, TakeOrWaitMoves DEF GetWork, AtWork
  <2> QED BY <2>1, <2>2
<1>4. ASSUME NEW w \in Workers, Resume(w) PROVE InOnePlace'
  BY <1>4, TakeOrWaitMoves DEF Resume, AtWork
<1>5. ASSUME NEW w \in Workers, SpuriousWakeup(w) PROVE InOnePlace'
  BY <1>5, NothingMoved DEF SpuriousWakeup, AtWork, TypeOK
<1>6. ASSUME NEW w \in Workers, AtWork(w), Leave(w),
             UNCHANGED <<queue, got, offered, refused, done>>
      PROVE  InOnePlace'
  BY <1>6, OneLetsGo DEF Leave, AtWork, TypeOK
<1>7. ASSUME NEW w \in Workers, AtWork(w), GoOn(w),
             UNCHANGED <<queue, got, offered, refused, done>>
      PROVE  InOnePlace'
  BY <1>7, NothingMoved DEF GoOn, AtWork, TypeOK
<1>8. ASSUME NEW w \in Workers, CheckQuit(w) PROVE InOnePlace'
  <2>1. CASE Leave(w)
    BY <1>6, <1>8, <2>1 DEF CheckQuit, AtWork
  <2>2. CASE GoOn(w)
    BY <1>7, <1>8, <2>2 DEF CheckQuit, AtWork
  <2>3. CASE pc' = [pc EXCEPT ![w] = "flag"] /\ UNCHANGED dropped
    BY <1>8, <2>3, NothingMoved DEF CheckQuit, AtWork, TypeOK
  <2> QED BY <1>8, <2>1, <2>2, <2>3 DEF CheckQuit
<1>9. ASSUME NEW w \in Workers, CheckFlag(w) PROVE InOnePlace'
  BY <1>6, <1>7, <1>9 DEF CheckFlag, AtWork
<1>10. ASSUME NEW w \in Workers, RunJob(w) PROVE InOnePlace'
  <2>1. done' = done \cup ({got[w]} \ {NoItem})
    BY <1>10 DEF RunJob, RunsAnItem
  <2> QED BY <1>10, <2>1, OneLetsGo DEF RunJob, AtWork, TypeOK
<1>11. CASE UNCHANGED vars
  BY <1>11, NothingMoved DEF vars, AtWork
<1> QED
  BY <1>1, <1>2, <1>3, <1>4, <1>5, <1>8, <1>9, <1>10, <1>11 DEF Next

-----------------------------------------------------------------------------
IInv == TypeOK /\ RunsAnItem /\ NobodySleeps /\ InOnePlace

LEMMA InitIInv == Init => IInv
<1> SUFFICES ASSUME Init PROVE IInv
  OBVIOUS
<1>1. TypeOK /\ RunsAnItem /\ NobodySleeps
  BY EmptySeq DEF Init, TypeOK, Places, RunsAnItem, NobodySleeps,
                  NoLostWakeup, NoSleepThroughNews, Waiting
<1>2. Held = {} /\ Queued = {} /\ IsInjective(queue)
  BY DEF Init, Held, Queued, Range, IsInjective
<1> QED BY <1>1, <1>2 DEF Init, IInv, InOnePlace

LEMMA Invariance == Spec => []IInv
<1>1. IInv /\ [Next]_vars => IInv'
  BY TypeStep, RunsAnItemStep, NobodySleepsStep, InOnePlaceStep DEF IInv
<1> QED BY InitIInv, <1>1, PTL DEF Spec

(***************************************************************************)
(* The queue holds only work, and every thread is at a place of its loop.  *)
(***************************************************************************)
THEOREM TypeCorrect == Spec => []TypeOK
<1>1. IInv => TypeOK
  BY DEF IInv
<1> QED BY Invariance, <1>1, PTL

(***************************************************************************)
(* With any number of threads, work is never left in the queue with        *)
(* threads asleep and none awake to take it.                               *)
(***************************************************************************)
THEOREM WakeupsAreNotLost == Spec => []NoLostWakeup
<1>1. IInv => NoLostWakeup
  BY DEF IInv, NobodySleeps
<1> QED BY Invariance, <1>1, PTL

(***************************************************************************)
(* No thread is asleep once the queue has been told to quit or its flags   *)
(* have changed, so the threads that wait to join it do not wait for ever. *)
(***************************************************************************)
THEOREM NewsIsHeard == Spec => []NoSleepThroughNews
<1>1. IInv => NoSleepThroughNews
  BY DEF IInv, NobodySleeps
<1> QED BY Invariance, <1>1, PTL

(***************************************************************************)
(* Every job is in one place: none is run twice, or both run and dropped,  *)
(* and none is lost but those the queue refused or a leaving worker held.  *)
(***************************************************************************)
THEOREM EachItemInOnePlace == Spec => []InOnePlace
<1>1. IInv => InOnePlace
  BY DEF IInv
<1> QED BY Invariance, <1>1, PTL
=============================================================================
