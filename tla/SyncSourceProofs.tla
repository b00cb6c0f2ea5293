--------------------------- MODULE SyncSourceProofs ---------------------------
(***************************************************************************)
(* The invariants of the blocking sources and their pool.                  *)
(***************************************************************************)
EXTENDS SyncSource, FiniteSetTheorems, SequenceTheorems, TLAPS

WQP == INSTANCE WorkQueueProofs WITH
         Items <- Jobs, NoItem <- None, ChecksFlag <- FALSE, queue <- jobs

EDP == INSTANCE EvDataProofs WITH
         Senders <- Workers \cup {Main}, Consumer <- Main, Nobody <- None,
         Messages <- Jobs \cup {AQuit}, queue <- answers

-----------------------------------------------------------------------------
(* The pool is a work queue and a data event *)

LEMMA QueueConstants == None \notin Jobs /\ FALSE \in BOOLEAN
BY MessageAssumption

LEMMA EventConstants == /\ PipeSize \in Nat \ {0} /\ GULP \in Nat \ {0}
                        /\ None \notin Workers \cup {Main}
BY BellAssumption, MainAssumption

LEMMA JobTypes ==
  ASSUME NEW s \in Sources
  PROVE  /\ CloseJob(s) \in Jobs
         /\ \A r \in Requests : ReadJob(s, r) \in Jobs /\ WriteJob(s, r) \in Jobs
BY DEF CloseJob, ReadJob, WriteJob, Jobs

Counts == [strong : Int, weak : Int]

LEMMA CountTypes ==
  ASSUME NEW c \in Counts
  PROVE  /\ Acquire(c) \in Counts /\ Release(c) \in Counts
         /\ AcquireWeak(c) \in Counts /\ ReleaseWeak(c) \in Counts
BY DEF Acquire, Release, AcquireWeak, ReleaseWeak, Counts

LEMMA CountSteps ==
  ASSUME NEW c \in Counts
  PROVE  /\ c.strong > 0 => /\ Acquire(c).strong = c.strong + 1 /\ Acquire(c).weak = c.weak
                           /\ Release(c).strong = c.strong - 1 /\ Release(c).weak = c.weak
         /\ ~(c.strong > 0) => /\ Acquire(c).strong = c.strong /\ Acquire(c).weak = c.weak + 1
                              /\ Release(c).strong = c.strong /\ Release(c).weak = c.weak - 1
         /\ AcquireWeak(c).strong = c.strong /\ AcquireWeak(c).weak = c.weak + 1
         /\ ReleaseWeak(c).strong = c.strong /\ ReleaseWeak(c).weak = c.weak - 1
BY DEF Acquire, Release, AcquireWeak, ReleaseWeak, Counts

\* The types of the main thread's variables; that no count falls below zero is
\* for later.
MainOK ==
  /\ todo \in Jobs \cup {None}
  /\ closing \in Seq(Sources)
  /\ stage \in {"setup", "loop", "destroy", "join", "bell", "freed"}
  /\ srcRef \in [Sources -> Counts]
  /\ sqRef \in Counts
  /\ slRef \in Int
  /\ asked \in BOOLEAN
  /\ at \in [Requests -> {"new", "over"} \cup Sources]

LEMMA MainStep == MainOK /\ [Next]_vars => MainOK'
<1> SUFFICES ASSUME MainOK, [Next]_vars PROVE MainOK'
  OBVIOUS
<1> USE DEF MainOK
<1>1. ASSUME NEW r \in Requests, NEW s \in Sources,
             Read(r, s) \/ AnswerRead(r, s) \/ AnswerWrite(r, s)
      PROVE  MainOK'
  <2>1. closing' \in Seq(Sources)
    BY <1>1, ChainAssumption, EmptySeq
       DEF Read, AnswerRead, AnswerWrite, Over, ReleaseList, Sources
  <2>2. srcRef' \in [Sources -> Counts] /\ UNCHANGED <<sqRef, stage, asked>>
    BY <1>1, CountTypes DEF Read, AnswerRead, AnswerWrite, Over
  <2>3. todo' \in Jobs \cup {None} /\ slRef' \in Int
    BY <1>1, JobTypes DEF Read, AnswerRead, AnswerWrite, Over, ReleaseList
  <2>4. at' \in [Requests -> {"new", "over"} \cup Sources]
    BY <1>1 DEF Read, AnswerRead, AnswerWrite, Over
  <2> QED BY <2>1, <2>2, <2>3, <2>4
<1>2. CASE Start \/ (\E s \in Sources : AnswerClose(s)) \/ SendQuit \/ AnswerQuit
  <2>1. UNCHANGED <<todo, closing, slRef, asked, at>>
    BY <1>2 DEF Start, AnswerClose, SendQuit, AnswerQuit
  <2>2. sqRef' \in Counts /\ srcRef' \in [Sources -> Counts]
    BY <1>2, CountTypes DEF Start, AnswerClose, SendQuit, AnswerQuit, ReleaseQueue
  <2>3. stage' \in {"loop", "destroy", "bell", "freed"}
    BY <1>2 DEF Start, AnswerClose, SendQuit, AnswerQuit, ReleaseQueue
  <2> QED BY <2>1, <2>2, <2>3
<1>3. CASE Quit
  BY <1>3, ChainAssumption, EmptySeq DEF Quit, ReleaseList, Sources
<1>4. CASE CloseSource
  <2>1. Head(closing) \in Sources /\ Tail(closing) \in Seq(Sources)
    BY <1>4, HeadTailProperties DEF CloseSource
  <2>2. srcRef' \in [Sources -> Counts]
    BY <1>4, <2>1, CountTypes DEF CloseSource
  <2> QED BY <1>4, <2>1, <2>2 DEF CloseSource
<1>5. CASE AddQ \/ StopWorkers \/ RingQuit
  BY <1>5 DEF AddQ, StopWorkers, RingQuit
<1>6. CASE \/ ResetBell \/ Swap \/ Return \/ UNCHANGED vars
           \/ (\E w \in Workers : Worker(w) \/ SpuriousWakeup(w))
  BY <1>6 DEF ResetBell, Swap, Return, vars, Worker, GetWork, CheckQuit, RunJob, AddA,
              SpuriousWakeup, mainVars
<1> QED BY <1>1, <1>2, <1>3, <1>4, <1>5, <1>6 DEF Next, Consume

LEMMA GotType ==
  ASSUME WQP!IInv, NEW w \in Workers, pc[w] = "run" PROVE got[w] \in Jobs
BY DEF WQP!IInv, WQP!TypeOK, WQP!RunsAnItem

LEMMA QueueStep == MainOK /\ [Next]_vars => [WQP!Next]_(WQP!vars)
<1> SUFFICES ASSUME MainOK, [Next]_vars PROVE WQP!Next \/ UNCHANGED WQP!vars
  OBVIOUS
<1>0. UNCHANGED wqVars => UNCHANGED WQP!vars
  BY DEF wqVars, WQP!vars
<1>1. ASSUME NEW i \in Jobs, WQ!SendWork(i) PROVE WQP!Next
  BY <1>1 DEF WQ!SendWork, WQP!SendWork, WQ!Signalled, WQP!Signalled, WQ!Waiting, WQP!Waiting, WQP!Next
<1>2. ASSUME WQ!SetQuit(TRUE) PROVE WQP!Next
  BY <1>2 DEF WQ!SetQuit, WQP!SetQuit, WQ!AllWoken, WQP!AllWoken, WQP!Next
<1>3. ASSUME NEW w \in Workers, WQ!TakeOrWait(w) PROVE WQP!TakeOrWait(w)
  BY <1>3 DEF WQ!TakeOrWait, WQP!TakeOrWait, WQ!PassOn, WQP!PassOn, WQ!Signalled, WQP!Signalled, WQ!Waiting, WQP!Waiting
<1>4. ASSUME NEW w \in Workers, Worker(w) \/ SpuriousWakeup(w) PROVE WQP!Next \/ UNCHANGED wqVars
  <2>1. CASE GetWork(w)
    BY <1>3, <2>1 DEF GetWork, WQ!GetWork, WQP!GetWork, WQ!Resume, WQP!Resume, WQP!Next
  <2>2. CASE SpuriousWakeup(w)
    BY <2>2 DEF SpuriousWakeup, WQ!SpuriousWakeup, WQP!SpuriousWakeup, WQP!Next
  <2>3. CASE CheckQuit(w)
    BY <2>3 DEF CheckQuit, WQ!CheckQuit, WQP!CheckQuit, WQ!ShouldQuit, WQP!ShouldQuit,
                WQ!Leave, WQP!Leave, WQ!GoOn, WQP!GoOn, WQP!Next
  <2>4. CASE RunJob(w)
    BY <2>4 DEF RunJob
  <2>5. CASE AddA(w)
    BY <2>5 DEF AddA, WQ!RunJob, WQP!RunJob, WQP!Next
  <2> QED BY <1>4, <2>1, <2>2, <2>3, <2>4, <2>5 DEF Worker
<1>5. CASE AddQ
  BY <1>1, <1>5 DEF AddQ, MainOK
<1>6. CASE CloseSource
  <2>1. Head(closing) \in Sources
    BY <1>6, HeadTailProperties DEF CloseSource, MainOK
  <2> QED BY <1>0, <1>1, <1>6, <2>1, JobTypes DEF CloseSource
<1>7. CASE StopWorkers
  BY <1>2, <1>7 DEF StopWorkers
<1>8. CASE \/ Start \/ (\E r \in Requests, s \in Sources : Read(r, s)) \/ Quit \/ Consume
           \/ SendQuit \/ RingQuit \/ ResetBell \/ Swap \/ Return \/ UNCHANGED vars
  <2>1. UNCHANGED wqVars
    BY <1>8 DEF Start, Read, Quit, Consume, AnswerRead, AnswerWrite, AnswerClose, AnswerQuit,
                SendQuit, RingQuit, ResetBell, Swap, Return, vars
  <2> QED BY <1>0, <2>1
<1> QED BY <1>0, <1>4, <1>5, <1>6, <1>7, <1>8 DEF Next

LEMMA EventStep ==
  MainOK /\ WQP!IInv /\ [Next]_vars => [EDP!Next]_(EDP!vars)
<1> SUFFICES ASSUME MainOK, WQP!IInv, [Next]_vars PROVE EDP!Next \/ UNCHANGED EDP!vars
  OBVIOUS
<1>0. UNCHANGED edVars => UNCHANGED EDP!vars
  BY DEF edVars, EDP!vars
<1>1. ASSUME NEW w \in Workers, Worker(w) \/ SpuriousWakeup(w)
      PROVE  EDP!Next \/ UNCHANGED edVars
  <2>1. CASE RunJob(w)
    <3>1. got[w] \in Jobs
      BY <2>1, GotType DEF RunJob
    <3> QED BY <2>1, <3>1 DEF RunJob, ED!Send, EDP!Send, ED!Range, EDP!Range, EDP!Next
  <2>2. CASE AddA(w)
    BY <2>2 DEF AddA, ED!RingBell, EDP!RingBell, EDP!Next
  <2> QED BY <1>1, <2>1, <2>2 DEF Worker, GetWork, CheckQuit, SpuriousWakeup
<1>2. CASE Consume
  BY <1>2 DEF Consume, AnswerRead, AnswerWrite, AnswerClose, AnswerQuit,
              ED!Deliver, EDP!Deliver, EDP!Next
<1>3. CASE SendQuit
  BY <1>3 DEF SendQuit, ED!Send, EDP!Send, ED!Range, EDP!Range, EDP!Next
<1>4. CASE RingQuit
  BY <1>4 DEF RingQuit, ED!RingBell, EDP!RingBell, EDP!Next
<1>5. CASE ResetBell
  BY <1>5 DEF ResetBell, ED!ResetBell, EDP!ResetBell, EDP!Next
<1>6. CASE Swap
  BY <1>6 DEF Swap, ED!Swap, EDP!Swap, EDP!Next
<1>7. CASE Return
  BY <1>7 DEF Return, ED!Return, EDP!Return, EDP!Next
<1>8. CASE \/ Start \/ (\E r \in Requests, s \in Sources : Read(r, s)) \/ Quit
           \/ AddQ \/ CloseSource \/ StopWorkers \/ UNCHANGED vars
  <2>1. UNCHANGED edVars
    BY <1>8 DEF Start, Read, Quit, AddQ, CloseSource, StopWorkers, vars
  <2> QED BY <1>0, <2>1
<1> QED BY <1>0, <1>1, <1>2, <1>3, <1>4, <1>5, <1>6, <1>7, <1>8 DEF Next

\* The invariants of the two parts
Parts == MainOK /\ WQP!IInv /\ EDP!IInv

LEMMA PartsStep == Parts /\ [Next]_vars => Parts'
<1> SUFFICES ASSUME Parts, [Next]_vars PROVE Parts'
  OBVIOUS
<1>1. MainOK' /\ [WQP!Next]_(WQP!vars) /\ [EDP!Next]_(EDP!vars)
  BY MainStep, QueueStep, EventStep DEF Parts
<1>2. WQP!IInv'
  <2>1. WQP!TypeOK' /\ WQP!RunsAnItem' /\ WQP!NobodySleeps' /\ WQP!InOnePlace'
    BY <1>1, QueueConstants, WQP!TypeStep, WQP!RunsAnItemStep, WQP!NobodySleepsStep, WQP!InOnePlaceStep
       DEF Parts, WQP!IInv
  <2> QED BY <2>1 DEF WQP!IInv
<1>3. EDP!IInv'
  BY <1>1, EventConstants, EDP!Inductive DEF Parts
<1> QED BY <1>1, <1>2, <1>3 DEF Parts

LEMMA InitParts == Init => Parts
<1> SUFFICES ASSUME Init PROVE Parts
  OBVIOUS
<1>1. WQP!Init /\ EDP!Init
  BY DEF Init, WQ!Init, WQP!Init, ED!Init, EDP!Init
<1>2. WQP!IInv
  BY <1>1, QueueConstants, WQP!InitIInv
<1>3. EDP!IInv
  BY <1>1, EventConstants, EDP!InitIInv
<1>4. Len(Chain) + 1 \in Int
  BY ChainAssumption, LenProperties
<1>5. srcRef \in [Sources -> Counts] /\ sqRef \in Counts
  BY <1>4 DEF Init, Counts, NewRef
<1>6. closing \in Seq(Sources)
  BY EmptySeq DEF Init
<1>7. at \in [Requests -> {"new", "over"} \cup Sources]
  BY DEF Init
<1>8. todo \in Jobs \cup {None} /\ stage \in {"setup", "loop", "destroy", "join", "bell", "freed"}
  BY DEF Init
<1>10. slRef \in Int
  BY DEF Init
<1>11. asked \in BOOLEAN
  BY DEF Init
<1>9. MainOK
  BY <1>5, <1>6, <1>7, <1>8, <1>10, <1>11 DEF MainOK
<1> QED BY <1>2, <1>3, <1>9 DEF Parts

-----------------------------------------------------------------------------
(* Sequences *)

LEMMA HeadOfRest ==
  ASSUME NEW S, NEW q \in Seq(S), q # <<>>
  PROVE  /\ Head(q) \in Range(q) /\ Range(Tail(q)) \subseteq Range(q)
         /\ Range(q) = {Head(q)} \cup Range(Tail(q))
         /\ IsInjective(q) => IsInjective(Tail(q)) /\ Head(q) \notin Range(Tail(q))
<1>1. /\ Len(q) \in Nat \ {0} /\ DOMAIN q = 1..Len(q)
      /\ DOMAIN Tail(q) = 1..(Len(q) - 1)
      /\ \A n \in 1..(Len(q) - 1) : Tail(q)[n] = q[n + 1]
      /\ Head(q) = q[1]
  BY HeadTailProperties, LenProperties, EmptySeq
<1>2. /\ 1 \in DOMAIN q
      /\ \A n \in DOMAIN Tail(q) : n + 1 \in DOMAIN q /\ n + 1 # 1
      /\ \A m \in DOMAIN q : m # 1 => m - 1 \in DOMAIN Tail(q) /\ (m - 1) + 1 = m
  BY <1>1
<1>3. Range(Tail(q)) \subseteq Range(q) /\ Head(q) \in Range(q)
  BY <1>1, <1>2 DEF Range
<1>4. ASSUME NEW x \in Range(q), x # Head(q) PROVE x \in Range(Tail(q))
  <2>1. PICK m \in DOMAIN q : x = q[m]
    BY DEF Range
  <2>2. m # 1 /\ x = Tail(q)[m - 1] /\ m - 1 \in DOMAIN Tail(q)
    BY <1>1, <1>2, <1>4, <2>1
  <2> QED BY <2>2 DEF Range
<1>5. ASSUME IsInjective(q) PROVE IsInjective(Tail(q))
  <2> SUFFICES ASSUME NEW a \in DOMAIN Tail(q), NEW b \in DOMAIN Tail(q),
                      Tail(q)[a] = Tail(q)[b]
               PROVE  a = b
    BY DEF IsInjective
  <2>1. a + 1 = b + 1
    BY <1>1, <1>2, <1>5 DEF IsInjective
  <2> QED BY <1>1, <2>1
<1>6. ASSUME IsInjective(q) PROVE Head(q) \notin Range(Tail(q))
  BY <1>1, <1>2, <1>6 DEF IsInjective, Range
<1> QED BY <1>3, <1>4, <1>5, <1>6

LEMMA Appended ==
  ASSUME NEW S, NEW q \in Seq(S), NEW x \in S
  PROVE  /\ Range(Append(q, x)) = Range(q) \cup {x}
         /\ IsInjective(q) /\ x \notin Range(q) => IsInjective(Append(q, x))
         /\ Append(q, x)[Len(Append(q, x))] = x
<1>1. /\ Len(Append(q, x)) = Len(q) + 1 /\ Len(q) \in Nat
      /\ DOMAIN q = 1..Len(q) /\ DOMAIN Append(q, x) = 1..(Len(q) + 1)
      /\ \A n \in 1..Len(q) : Append(q, x)[n] = q[n]
      /\ Append(q, x)[Len(q) + 1] = x
  BY AppendProperties, LenProperties
<1>2. 1..(Len(q) + 1) = (1..Len(q)) \cup {Len(q) + 1}
  BY <1>1
<1>3. Range(Append(q, x)) = Range(q) \cup {x}
  BY <1>1, <1>2 DEF Range
<1>4. IsInjective(q) /\ x \notin Range(q) => IsInjective(Append(q, x))
  BY <1>1, <1>2 DEF IsInjective, Range
<1> QED BY <1>1, <1>3, <1>4

(***************************************************************************)
(* A sequence without repetitions in three parts has no element in two of  *)
(* them, and its last element is last in the part it is in.                *)
(***************************************************************************)
LEMMA ThreeParts ==
  ASSUME NEW S, NEW a \in Seq(S), NEW b \in Seq(S), NEW c \in Seq(S),
         IsInjective(a \o b \o c)
  PROVE  /\ Range(a \o b \o c) = Range(a) \cup Range(b) \cup Range(c)
         /\ Range(a) \cap (Range(b) \cup Range(c)) = {}
         /\ Range(b) \cap Range(c) = {}
         /\ b # <<>> /\ Head(b) = (a \o b \o c)[Len(a \o b \o c)] => Tail(b) = <<>> /\ c = <<>>
<1> DEFINE q == a \o b \o c
           m == Len(a)
           n == Len(a) + Len(b)
           o == Len(a) + Len(b) + Len(c)
<1>1. /\ Len(a) \in Nat /\ Len(b) \in Nat /\ Len(c) \in Nat
      /\ DOMAIN a = 1..Len(a) /\ DOMAIN b = 1..Len(b) /\ DOMAIN c = 1..Len(c)
  BY LenProperties
<1>2. /\ a \o b \in Seq(S) /\ Len(a \o b) = n
      /\ \A i \in 1..n : (a \o b)[i] = IF i <= m THEN a[i] ELSE b[i - m]
  BY ConcatProperties
<1>3. /\ Len(q) = o
      /\ \A i \in 1..o : q[i] = IF i <= n THEN (a \o b)[i] ELSE c[i - n]
  BY <1>2, ConcatProperties
<1>4. DOMAIN q = 1..o
  BY <1>3, LenProperties
<1>5. \A i \in 1..Len(a) : i \in 1..o /\ q[i] = a[i]
  BY <1>1, <1>2, <1>3
<1>6. \A i \in 1..Len(b) : m + i \in 1..o /\ q[m + i] = b[i]
  BY <1>1, <1>2, <1>3
<1>7. \A i \in 1..Len(c) : n + i \in 1..o /\ q[n + i] = c[i]
  BY <1>1, <1>2, <1>3
<1>8. Range(q) = Range(a) \cup Range(b) \cup Range(c)
  <2>1. Range(a) \subseteq Range(q)
    BY <1>1, <1>4, <1>5 DEF Range
  <2>2. Range(b) \subseteq Range(q)
    BY <1>1, <1>4, <1>6 DEF Range
  <2>3. Range(c) \subseteq Range(q)
    BY <1>1, <1>4, <1>7 DEF Range
  <2>4. ASSUME NEW i \in 1..o PROVE q[i] \in Range(a) \cup Range(b) \cup Range(c)
    <3>1. CASE i <= m
      BY <1>1, <1>5, <3>1 DEF Range
    <3>2. CASE i > m /\ i <= n
      <4>1. i - m \in 1..Len(b) /\ q[i] = b[i - m]
        BY <1>1, <1>2, <1>3, <3>2
      <4> QED BY <1>1, <4>1 DEF Range
    <3>3. CASE i > n
      <4>1. i - n \in 1..Len(c) /\ q[i] = c[i - n]
        BY <1>1, <1>3, <3>3
      <4> QED BY <1>1, <4>1 DEF Range
    <3> QED BY <1>1, <3>1, <3>2, <3>3
  <2>5. Range(q) = {q[i] : i \in 1..o}
    BY <1>4 DEF Range
  <2> QED BY <2>1, <2>2, <2>3, <2>4, <2>5
<1>9. \A i, j \in 1..o : q[i] = q[j] => i = j
  BY <1>4 DEF IsInjective
<1> HIDE DEF q
<1>10. Range(a) \cap (Range(b) \cup Range(c)) = {} /\ Range(b) \cap Range(c) = {}
  <2>1. \A i \in 1..Len(a), j \in 1..Len(b) : a[i] # b[j]
    BY <1>1, <1>5, <1>6, <1>9
  <2>2. \A i \in 1..Len(a), j \in 1..Len(c) : a[i] # c[j]
    BY <1>1, <1>5, <1>7, <1>9
  <2>3. ASSUME NEW i \in 1..Len(b), NEW j \in 1..Len(c) PROVE b[i] # c[j]
    <3>1. m + i # n + j
      BY <1>1
    <3> QED BY <1>6, <1>7, <1>9, <3>1
  <2> QED BY <1>1, <2>1, <2>2, <2>3 DEF Range
<1>11. ASSUME b # <<>>, Head(b) = q[Len(q)] PROVE Tail(b) = <<>> /\ c = <<>>
  <2>1. Len(b) > 0 /\ Head(b) = b[1]
    BY <1>1, <1>11, EmptySeq
  <2>2. m + 1 = o
    <3>1. m + 1 \in 1..o /\ q[m + 1] = b[1] /\ o \in 1..o
      BY <1>1, <1>6, <2>1
    <3> QED BY <1>3, <1>9, <1>11, <2>1, <3>1
  <2>3. Len(b) = 1 /\ Len(c) = 0
    BY <1>1, <2>1, <2>2
  <2>4. Tail(b) \in Seq(S) /\ Len(Tail(b)) = 0
    BY <1>11, <2>3, HeadTailProperties
  <2> QED BY <2>3, <2>4, EmptySeq
<1> QED BY <1>8, <1>10, <1>11 DEF q

-----------------------------------------------------------------------------
(* Answers and the jobs they are for *)

\* A worker that runs a job stays there until it has answered it, and one that
\* has left does not come back.
LEMMA OthersStay ==
  ASSUME Parts, [Next]_vars, NEW w \in Workers, pc[w] \in {"run", "exited"}, ~AddA(w)
  PROVE  pc'[w] = pc[w] /\ got'[w] = got[w]
<1> USE DEF Parts, WQP!IInv, WQP!TypeOK
<1>1. ASSUME NEW i \in Jobs, WQ!SendWork(i) PROVE pc'[w] = pc[w] /\ got'[w] = got[w]
  <2>1. UNCHANGED got /\ pc' \in {pc} \cup WQP!Signalled(pc)
    BY <1>1 DEF WQ!SendWork, WQ!Signalled, WQP!Signalled, WQ!Waiting, WQP!Waiting
  <2>2. \A q \in WQP!Signalled(pc) : q[w] = pc[w]
    BY QueueConstants, WQP!SignalledWakesOne
  <2> QED BY <2>1, <2>2
<1>2. CASE StopWorkers
  BY <1>2 DEF StopWorkers, WQ!SetQuit, WQ!AllWoken
<1>3. ASSUME NEW v \in Workers, WQ!TakeOrWait(v), v # w
      PROVE  pc'[w] = pc[w] /\ got'[w] = got[w]
  <2>1. CASE pc' \in WQ!PassOn([pc EXCEPT ![v] = "check"])
    <3>1. [pc EXCEPT ![v] = "check"] \in [Workers -> WQP!Places]
      BY DEF WQP!Places
    <3>2. pc' \in {[pc EXCEPT ![v] = "check"]} \cup WQP!Signalled([pc EXCEPT ![v] = "check"])
      BY <2>1 DEF WQ!PassOn, WQ!Signalled, WQP!Signalled, WQ!Waiting, WQP!Waiting
    <3>3. \A q \in WQP!Signalled([pc EXCEPT ![v] = "check"]) : q[w] = pc[w]
      BY <1>3, <3>1, QueueConstants, WQP!SignalledWakesOne
    <3>4. pc'[w] = pc[w]
      BY <1>3, <3>2, <3>3
    <3> QED BY <1>3, <3>4 DEF WQ!TakeOrWait
  <2>2. CASE \E place \in {"check", "waiting"} : pc' = [pc EXCEPT ![v] = place]
    BY <1>3, <2>2 DEF WQ!TakeOrWait
  <2> QED BY <1>3, <2>1, <2>2 DEF WQ!TakeOrWait
<1>4. ASSUME NEW v \in Workers, Worker(v) \/ SpuriousWakeup(v)
      PROVE  pc'[w] = pc[w] /\ got'[w] = got[w]
  <2>1. CASE GetWork(v)
    BY <1>3, <2>1 DEF GetWork, WQ!GetWork, WQ!Resume
  <2>2. CASE SpuriousWakeup(v)
    BY <2>2 DEF SpuriousWakeup, WQ!SpuriousWakeup
  <2>3. CASE CheckQuit(v)
    BY <2>3 DEF CheckQuit, WQ!CheckQuit, WQ!Leave, WQ!GoOn
  <2>4. CASE RunJob(v)
    BY <2>4 DEF RunJob, wqVars
  <2>5. CASE AddA(v)
    BY <2>5 DEF AddA, WQ!RunJob
  <2> QED BY <1>4, <2>1, <2>2, <2>3, <2>4, <2>5 DEF Worker
<1>5. CASE AddQ
  BY <1>1, <1>5 DEF AddQ, MainOK
<1>6. CASE CloseSource
  <2>1. Head(closing) \in Sources
    BY <1>6, HeadTailProperties DEF CloseSource, MainOK
  <2> QED BY <1>1, <1>6, <2>1, JobTypes DEF CloseSource, wqVars
<1>7. CASE \/ Start \/ (\E r \in Requests, s \in Sources : Read(r, s)) \/ Quit \/ Consume
           \/ SendQuit \/ RingQuit \/ ResetBell \/ Swap \/ Return \/ UNCHANGED vars
  <2>1. UNCHANGED wqVars
    BY <1>7 DEF Start, Read, Quit, Consume, AnswerRead, AnswerWrite, AnswerClose, AnswerQuit,
                SendQuit, RingQuit, ResetBell, Swap, Return, vars
  <2> QED BY <2>1 DEF wqVars
<1> QED BY <1>2, <1>4, <1>5, <1>6, <1>7 DEF Next

\* What has been delivered is told from what is still to be.
LEMMA SentParts ==
  ASSUME Parts, IsInjective(sent)
  PROVE  /\ Range(sent) = Range(delivered) \cup Range(batch) \cup Range(answers)
         /\ Range(delivered) \cap (Range(batch) \cup Range(answers)) = {}
         /\ Range(batch) \cap Range(answers) = {}
         /\ batch # <<>> /\ Head(batch) = sent[Len(sent)] => Tail(batch) = <<>> /\ answers = <<>>
<1> DEFINE S == Jobs \cup {AQuit}
<1>1. /\ delivered \in Seq(S) /\ batch \in Seq(S) /\ answers \in Seq(S)
      /\ sent = delivered \o batch \o answers
  BY DEF Parts, EDP!IInv, EDP!TypeOK, EDP!InOrder
<1> HIDE DEF S
<1> QED BY <1>1, ThreeParts

\* What has been sent is what has been done, or what the worker that is sending
\* has got.
Sending ==
  /\ IsInjective(sent)
  /\ \A m \in Range(sent) : m \in done \cup {AQuit} \/ (ringer \in Workers /\ m = got[ringer])
  /\ done \subseteq Range(sent)
  /\ ringer \in Workers => pc[ringer] = "run" /\ got[ringer] \in Range(answers)

LEMMA SendingStep == Parts /\ Sending /\ [Next]_vars => Sending'
<1> SUFFICES ASSUME Parts, Sending, [Next]_vars PROVE Sending'
  OBVIOUS
<1>t. /\ sent \in Seq(Jobs \cup {AQuit}) /\ answers \in Seq(Jobs \cup {AQuit})
      /\ ringer \in Workers \cup {Main, None} /\ Main \notin Workers /\ None \notin Workers
  BY MainAssumption DEF Parts, EDP!IInv, EDP!TypeOK
<1>1. ASSUME NEW w \in Workers, RunJob(w) PROVE Sending'
  <2>1. /\ got[w] \in Jobs /\ got[w] \notin Range(sent)
        /\ sent' = Append(sent, got[w]) /\ answers' = Append(answers, got[w])
        /\ ringer' = w /\ pc[w] = "run" /\ UNCHANGED <<pc, got, done>>
    BY <1>1, GotType DEF RunJob, ED!Send, ED!Range, Range, wqVars, Parts
  <2>2. /\ Range(sent') = Range(sent) \cup {got[w]} /\ IsInjective(sent')
        /\ Range(answers') = Range(answers) \cup {got[w]}
    BY <1>t, <2>1, Appended DEF Sending
  <2>3. ringer \notin Workers
    BY <1>1, <1>t DEF RunJob, ED!Send
  <2> QED BY <2>1, <2>2, <2>3 DEF Sending
<1>2. ASSUME NEW w \in Workers, AddA(w) PROVE Sending'
  <2>1. /\ ringer = w /\ ringer' = None /\ UNCHANGED <<sent, answers>>
        /\ done' = done \cup {got[w]} /\ pc[w] = "run"
    BY <1>2 DEF AddA, ED!RingBell, WQ!RunJob
  <2>2. answers \in Seq(Jobs \cup {AQuit}) /\ got[w] \in Range(answers)
    BY <1>t, <2>1 DEF Sending
  <2>3. got[w] \in Range(sent)
    BY <2>2, SentParts DEF Sending
  <2> QED BY <1>t, <2>1, <2>2, <2>3 DEF Sending
<1>3. CASE SendQuit
  <2>1. /\ AQuit \notin Range(sent) /\ sent' = Append(sent, AQuit) /\ ringer = None /\ ringer' = Main
        /\ UNCHANGED <<pc, got, done>>
    BY <1>3 DEF SendQuit, ED!Send, ED!Range, Range, wqVars
  <2>2. Range(sent') = Range(sent) \cup {AQuit} /\ IsInjective(sent')
    BY <1>t, <2>1, Appended DEF Sending
  <2> QED BY <1>t, <2>1, <2>2 DEF Sending
<1>4. CASE RingQuit
  BY <1>4, <1>t DEF RingQuit, ED!RingBell, Sending, wqVars
<1>5. CASE Swap
  BY <1>5, <1>t DEF Swap, ED!Swap, Sending, wqVars
<1>6. CASE ResetBell \/ Return \/ Consume
  BY <1>6 DEF ResetBell, ED!ResetBell, Return, ED!Return, Consume, AnswerRead, AnswerWrite,
              AnswerClose, AnswerQuit, ED!Deliver, Sending, wqVars
<1>7. CASE \/ Start \/ (\E r \in Requests, s \in Sources : Read(r, s)) \/ Quit
           \/ AddQ \/ CloseSource \/ StopWorkers \/ UNCHANGED vars
           \/ (\E w \in Workers : GetWork(w) \/ CheckQuit(w) \/ SpuriousWakeup(w))
  <2>1. UNCHANGED <<done, sent, answers, ringer>>
    BY <1>7 DEF Start, Read, Quit, AddQ, WQ!SendWork, CloseSource, StopWorkers, WQ!SetQuit,
                GetWork, WQ!GetWork, WQ!Resume, WQ!TakeOrWait, CheckQuit, WQ!CheckQuit,
                SpuriousWakeup, WQ!SpuriousWakeup, vars, wqVars, edVars
  <2>2. \A w \in Workers : ~AddA(w)
    BY <1>t, <2>1 DEF AddA, ED!RingBell
  <2>3. ringer \in Workers => pc'[ringer] = pc[ringer] /\ got'[ringer] = got[ringer]
    BY <2>2, OthersStay DEF Sending
  <2> QED BY <2>1, <2>3 DEF Sending
<1> QED BY <1>1, <1>2, <1>3, <1>4, <1>5, <1>6, <1>7 DEF Next, Worker

LEMMA Answered ==
  ASSUME Parts, Sending
  PROVE  /\ Range(delivered) \subseteq done \cup {AQuit}
         /\ done \subseteq offered /\ offered \subseteq Jobs
         /\ batch # <<>> => /\ Head(batch) \notin Range(delivered)
                           /\ Head(batch) \in offered \cup {AQuit}
                           /\ Head(batch) \in Range(sent)
<1>1. /\ Range(sent) = Range(delivered) \cup Range(batch) \cup Range(answers)
      /\ Range(delivered) \cap (Range(batch) \cup Range(answers)) = {}
  BY SentParts DEF Sending
<1>2. Range(delivered) \subseteq done \cup {AQuit}
  BY <1>1 DEF Sending
<1>3. done \subseteq offered /\ offered \subseteq Jobs
  BY DEF Parts, WQP!IInv, WQP!InOnePlace, WQP!TypeOK
<1>4. Range(sent) \subseteq offered \cup {AQuit}
  <2>1. ringer \in Workers => got[ringer] \in offered
    <3>1. ringer \in Workers => got[ringer] \in WQP!Held
      BY MessageAssumption, GotType DEF Sending, WQP!Held, Parts
    <3> QED BY <3>1 DEF Parts, WQP!IInv, WQP!InOnePlace
  <2> QED BY <1>3, <2>1 DEF Sending
<1>5. batch # <<>> => Head(batch) \in Range(batch)
  <2>1. batch \in Seq(Jobs \cup {AQuit})
    BY DEF Parts, EDP!IInv, EDP!TypeOK
  <2> QED BY <2>1, HeadOfRest
<1> QED BY <1>1, <1>2, <1>3, <1>4, <1>5

\* consume passes on from the batch what has not been delivered.
LEMMA Delivers ==
  ASSUME Parts, Sending, ED!Deliver
  PROVE  /\ batch # <<>> /\ Range(delivered') = Range(delivered) \cup {Head(batch)}
         /\ UNCHANGED <<sent, answers, ringer>> /\ batch' = Tail(batch)
<1>1. delivered \in Seq(Jobs \cup {AQuit}) /\ batch \in Seq(Jobs \cup {AQuit})
  BY DEF Parts, EDP!IInv, EDP!TypeOK
<1>2. batch # <<>> /\ delivered' = Append(delivered, Head(batch))
  BY DEF ED!Deliver
<1>3. Head(batch) \in Jobs \cup {AQuit}
  BY <1>1, <1>2, HeadTailProperties
<1> QED BY <1>1, <1>2, <1>3, Appended DEF ED!Deliver

-----------------------------------------------------------------------------
(* The calls of each request *)

LEMMA JobForms ==
  ASSUME NEW s \in Sources
  PROVE  /\ CloseJob(s).rq = None /\ CloseJob(s).src = s
         /\ \A r : /\ ReadJob(s, r).rq = r /\ WriteJob(s, r).rq = r
                  /\ ReadJob(s, r).src = s /\ WriteJob(s, r).src = s
                  /\ ReadJob(s, r) # WriteJob(s, r)
                  /\ ReadJob(s, r).type # "close" /\ WriteJob(s, r).type # "close"
         /\ CloseJob(s).type = "close"
BY DEF CloseJob, ReadJob, WriteJob

LEMMA JobKinds ==
  ASSUME NEW j \in Jobs
  PROVE  /\ j.src \in Sources
         /\ \/ j = CloseJob(j.src) /\ j.type = "close"
            \/ j.rq \in Requests /\ j.type # "close" /\ j \in {ReadJob(j.src, j.rq), WriteJob(j.src, j.rq)}
BY DEF Jobs, CloseJob, ReadJob, WriteJob

Ever == ({todo} \cup offered) \ {None}

CallsOf(r) == {j \in Pending : j.rq = r}

\* A request in a source has one call there; it writes after it has read.
RequestCalls ==
  \A r \in Requests :
    /\ at[r] = "new" => \A j \in Ever : j.rq # r
    /\ at[r] = "over" => CallsOf(r) = {}
    /\ at[r] \in Sources =>
         \/ CallsOf(r) = {ReadJob(at[r], r)} /\ WriteJob(at[r], r) \notin Ever
         \/ CallsOf(r) = {WriteJob(at[r], r)}

\* What is still to be queued has not been.
TodoFresh == todo \notin offered /\ \A s \in Sources : todo # CloseJob(s)

Calls == RequestCalls /\ TodoFresh

LEMMA CallsStep == Parts /\ Sending /\ Calls /\ [Next]_vars => Calls'
<1> SUFFICES ASSUME Parts, Sending, Calls, [Next]_vars PROVE Calls'
  OBVIOUS
<1> USE DEF Calls
<1>a. /\ Range(delivered) \subseteq offered \cup {AQuit} /\ offered \subseteq Jobs
      /\ None \notin Jobs /\ AQuit \notin Jobs /\ None # AQuit /\ None \notin Requests
      /\ "new" \notin Sources /\ "over" \notin Sources
      /\ at \in [Requests -> {"new", "over"} \cup Sources]
      /\ todo \in Jobs \cup {None}
  BY Answered, MessageAssumption, RequestsAssumption, ChainAssumption DEF Parts, MainOK, Sources
<1>b. Pending = Ever \ Range(delivered) /\ Pending' = Ever' \ Range(delivered')
  BY DEF Pending, Ever
<1>1. ASSUME NEW r \in Requests, NEW s \in Sources, Read(r, s) PROVE Calls'
  <2> DEFINE j == ReadJob(s, r)
  <2>1. /\ at[r] = "new" /\ at' = [at EXCEPT ![r] = s] /\ todo = None /\ todo' = j
        /\ UNCHANGED <<offered, delivered>>
    BY <1>1 DEF Read, Idle, AtRest, wqVars, edVars
  <2>2. j \in Jobs /\ j.rq = r /\ j \notin Ever /\ j # AQuit /\ j # None
    BY <1>a, <2>1, JobTypes, JobForms DEF RequestCalls
  <2>3. Ever' = Ever \cup {j}
    BY <2>1, <2>2 DEF Ever
  <2>4. Pending' = Pending \cup {j}
    BY <1>a, <1>b, <2>1, <2>2, <2>3 DEF Ever
  <2>5. \A i \in Ever : i.rq # r
    BY <2>1 DEF RequestCalls
  <2>6. CallsOf(r)' = {j} /\ WriteJob(s, r) \notin Ever'
    BY <1>b, <2>2, <2>3, <2>4, <2>5, JobForms DEF CallsOf
  <2>7. ASSUME NEW q \in Requests, q # r PROVE CallsOf(q)' = CallsOf(q) /\ at'[q] = at[q]
    BY <1>a, <2>1, <2>2, <2>4, <2>7 DEF CallsOf
  <2>8. RequestCalls'
    BY <1>a, <2>1, <2>2, <2>3, <2>6, <2>7, JobForms DEF RequestCalls
  <2>9. TodoFresh'
    BY <1>a, <2>1, <2>2, JobForms DEF TodoFresh, Ever
  <2> QED BY <2>8, <2>9
\* An answer is for a call that is pending.
<1>c. ASSUME InConsume, ED!Deliver, batch # <<>>, Head(batch) # AQuit
      PROVE  /\ Head(batch) \in Pending /\ todo = None
             /\ Range(delivered') = Range(delivered) \cup {Head(batch)}
  BY <1>a, <1>b, <1>c, Answered, Delivers DEF Ever, InConsume, AtRest
<1>2. ASSUME NEW r \in Requests, NEW s \in Sources, AnswerRead(r, s) PROVE Calls'
  <2> DEFINE j == ReadJob(s, r)
             k == WriteJob(s, r)
  <2>1. /\ InConsume /\ ED!Deliver /\ batch # <<>> /\ Head(batch) = j /\ UNCHANGED offered
    BY <1>2 DEF AnswerRead, wqVars
  <2>2. /\ j \in Jobs /\ k \in Jobs /\ j # k /\ j.rq = r /\ k.rq = r
        /\ j.src = s /\ j # AQuit /\ k # AQuit /\ j # None /\ k # None
    BY <1>a, JobTypes, JobForms
  <2>3. j \in Pending /\ todo = None /\ Range(delivered') = Range(delivered) \cup {j}
    BY <1>c, <2>1, <2>2
  <2>4. at[r] = s /\ CallsOf(r) = {j} /\ k \notin Ever
    <3>1. j \in CallsOf(r) /\ j \in Ever
      BY <1>b, <2>2, <2>3 DEF CallsOf
    <3>2. at[r] \in Sources /\ (j = ReadJob(at[r], r) \/ j = WriteJob(at[r], r))
      BY <1>a, <2>2, <3>1 DEF RequestCalls
    <3>3. at[r] = s
      BY <2>2, <3>2, JobForms
    <3> QED BY <2>2, <3>1, <3>3 DEF RequestCalls
  <2>5. CASE at' = [at EXCEPT ![r] = "over"] /\ todo' = todo
    <3>1. Ever' = Ever /\ Pending' = Pending \ {j}
      BY <1>b, <2>1, <2>3, <2>5 DEF Ever
    <3>2. CallsOf(r)' = {} /\ at'[r] = "over"
      BY <1>a, <2>4, <2>5, <3>1 DEF CallsOf
    <3>3. ASSUME NEW q \in Requests, q # r PROVE CallsOf(q)' = CallsOf(q) /\ at'[q] = at[q]
      BY <1>a, <2>2, <2>5, <3>1, <3>3 DEF CallsOf
    <3> QED BY <1>a, <2>1, <2>5, <3>1, <3>2, <3>3 DEF RequestCalls, TodoFresh
  <2>6. CASE todo' = k /\ UNCHANGED at
    <3>1. Ever' = Ever \cup {k}
      BY <2>1, <2>2, <2>3, <2>6 DEF Ever
    <3>2. Pending' = (Pending \ {j}) \cup {k}
      BY <1>a, <1>b, <2>2, <2>3, <2>4, <3>1 DEF Ever
    <3>3. CallsOf(r)' = {k}
      BY <2>2, <2>4, <3>2 DEF CallsOf
    <3>4. ASSUME NEW q \in Requests, q # r PROVE CallsOf(q)' = CallsOf(q)
      BY <2>2, <3>2, <3>4 DEF CallsOf
    <3>5. RequestCalls'
      BY <1>a, <2>2, <2>4, <2>6, <3>1, <3>3, <3>4, JobForms DEF RequestCalls
    <3>6. TodoFresh'
      BY <2>1, <2>2, <2>4, <2>6, JobForms DEF TodoFresh, Ever
    <3> QED BY <3>5, <3>6
  <2> QED BY <1>2, <2>5, <2>6 DEF AnswerRead, Over
<1>3. ASSUME NEW r \in Requests, NEW s \in Sources, AnswerWrite(r, s) PROVE Calls'
  <2> DEFINE k == WriteJob(s, r)
  <2>1. /\ InConsume /\ ED!Deliver /\ batch # <<>> /\ Head(batch) = k
        /\ at' = [at EXCEPT ![r] = "over"] /\ UNCHANGED <<offered, todo>>
    BY <1>3 DEF AnswerWrite, Over, wqVars
  <2>2. k \in Jobs /\ k.rq = r /\ k # AQuit /\ k # None
    BY <1>a, JobTypes, JobForms
  <2>3. k \in Pending /\ Range(delivered') = Range(delivered) \cup {k}
    BY <1>c, <2>1, <2>2
  <2>4. Ever' = Ever /\ Pending' = Pending \ {k}
    BY <1>b, <2>1, <2>3 DEF Ever
  <2>5. CallsOf(r) = {k}
    <3>1. k \in CallsOf(r) /\ k \in Ever
      BY <1>b, <2>2, <2>3 DEF CallsOf
    <3>2. at[r] \in Sources /\ k \in {ReadJob(at[r], r), WriteJob(at[r], r)}
      BY <1>a, <2>2, <3>1 DEF RequestCalls
    <3>3. at[r] = s
      BY <3>2, JobForms
    <3> QED BY <3>1, <3>3, JobForms DEF RequestCalls
  <2>6. CallsOf(r)' = {} /\ at'[r] = "over"
    BY <1>a, <2>1, <2>4, <2>5 DEF CallsOf
  <2>7. ASSUME NEW q \in Requests, q # r PROVE CallsOf(q)' = CallsOf(q) /\ at'[q] = at[q]
    BY <1>a, <2>1, <2>2, <2>4, <2>7 DEF CallsOf
  <2> QED BY <1>a, <2>1, <2>4, <2>6, <2>7 DEF RequestCalls, TodoFresh
<1>d. ASSUME UNCHANGED at, Ever' \subseteq Ever \cup {CloseJob(s) : s \in Sources},
             \A r \in Requests : CallsOf(r)' = CallsOf(r)
      PROVE  RequestCalls'
  <2>1. \A s \in Sources : CloseJob(s).rq \notin Requests
    BY <1>a, JobForms
  <2>2. \A r \in Requests, j \in Ever' : j.rq = r => j \in Ever
    BY <1>d, <2>1
  <2>3. \A r \in Requests : at[r] \in Sources /\ WriteJob(at[r], r) \in Ever' => WriteJob(at[r], r) \in Ever
    BY <2>2, JobForms
  <2> QED BY <1>d, <2>2, <2>3 DEF RequestCalls
<1>4. ASSUME NEW s \in Sources, AnswerClose(s) PROVE Calls'
  <2> DEFINE j == CloseJob(s)
  <2>1. /\ InConsume /\ ED!Deliver /\ batch # <<>> /\ Head(batch) = j
        /\ UNCHANGED <<offered, todo, at>>
    BY <1>4 DEF AnswerClose, wqVars
  <2>2. j \in Jobs /\ j.rq \notin Requests /\ j # AQuit
    BY <1>a, JobTypes, JobForms
  <2>3. Ever' = Ever /\ Pending' = Pending \ {j}
    BY <1>b, <1>c, <2>1, <2>2 DEF Ever
  <2>4. \A r \in Requests : CallsOf(r)' = CallsOf(r)
    BY <2>2, <2>3 DEF CallsOf
  <2>5. TodoFresh'
    BY <2>1 DEF TodoFresh
  <2> QED BY <1>d, <2>1, <2>3, <2>4, <2>5
<1>5. CASE AnswerQuit
  <2>1. /\ Range(delivered') = Range(delivered) \cup {AQuit}
        /\ UNCHANGED <<offered, todo, at>>
    BY <1>5, Delivers DEF AnswerQuit, wqVars
  <2>2. Ever' = Ever /\ Pending' = Pending
    BY <1>a, <1>b, <2>1 DEF Ever
  <2>3. \A r \in Requests : CallsOf(r)' = CallsOf(r)
    BY <2>2 DEF CallsOf
  <2>4. TodoFresh'
    BY <2>1 DEF TodoFresh
  <2> QED BY <1>d, <2>1, <2>2, <2>3, <2>4
<1>6. CASE AddQ
  <2>1. /\ todo # None /\ offered' = offered \cup {todo} /\ todo' = None
        /\ UNCHANGED <<delivered, at>>
    BY <1>6 DEF AddQ, WQ!SendWork, edVars
  <2>2. Ever' = Ever /\ Pending' = Pending
    BY <1>a, <1>b, <2>1 DEF Ever
  <2>3. \A r \in Requests : CallsOf(r)' = CallsOf(r)
    BY <2>2 DEF CallsOf
  <2>4. TodoFresh'
    BY <1>a, <2>1, JobTypes DEF TodoFresh
  <2> QED BY <1>d, <2>1, <2>2, <2>3, <2>4
<1>7. CASE CloseSource
  <2>1. PICK s \in Sources : /\ offered' \in {offered, offered \cup {CloseJob(s)}}
                             /\ UNCHANGED <<todo, delivered, at>>
    <3>1. Head(closing) \in Sources
      BY <1>7, HeadTailProperties DEF CloseSource, Parts, MainOK
    <3> QED BY <1>7, <3>1 DEF CloseSource, WQ!SendWork, wqVars, edVars
  <2>2. CloseJob(s) \in Jobs /\ CloseJob(s).rq \notin Requests
    BY <1>a, JobTypes, JobForms
  <2>3. Ever' \subseteq Ever \cup {CloseJob(s)} /\ Ever \subseteq Ever'
    BY <2>1 DEF Ever
  <2>4. Pending' \subseteq Pending \cup {CloseJob(s)} /\ Pending \subseteq Pending'
    BY <1>b, <2>1, <2>3
  <2>5. \A r \in Requests : CallsOf(r)' = CallsOf(r)
    BY <2>2, <2>4 DEF CallsOf
  <2>6. TodoFresh'
    BY <2>1 DEF TodoFresh
  <2> QED BY <1>d, <2>1, <2>3, <2>5, <2>6
<1>8. CASE \/ Start \/ Quit \/ StopWorkers \/ SendQuit \/ RingQuit
           \/ ResetBell \/ Swap \/ Return \/ UNCHANGED vars
           \/ (\E w \in Workers : Worker(w) \/ SpuriousWakeup(w))
  <2>1. UNCHANGED <<offered, todo, delivered, at>>
    BY <1>8 DEF Start, Quit, StopWorkers, WQ!SetQuit, SendQuit, ED!Send, RingQuit, ED!RingBell,
                ResetBell, ED!ResetBell, Swap, ED!Swap, Return, ED!Return,
                Worker, GetWork, WQ!GetWork, WQ!Resume, WQ!TakeOrWait, CheckQuit, WQ!CheckQuit, RunJob,
                AddA, WQ!RunJob, SpuriousWakeup, WQ!SpuriousWakeup, vars, wqVars, edVars, mainVars
  <2>2. Ever' = Ever /\ Pending' = Pending
    BY <1>b, <2>1 DEF Ever
  <2>3. \A r \in Requests : CallsOf(r)' = CallsOf(r)
    BY <2>2 DEF CallsOf
  <2>4. TodoFresh'
    BY <2>1 DEF TodoFresh
  <2> QED BY <1>d, <2>1, <2>2, <2>3, <2>4
<1> QED BY <1>1, <1>2, <1>3, <1>4, <1>5, <1>6, <1>7, <1>8 DEF Next, Consume

-----------------------------------------------------------------------------
(* The references *)

Users(s) == {r \in Requests : at[r] = s}
Active == {r \in Requests : at[r] \in Sources}

LEMMA UsersFinite ==
  /\ IsFiniteSet(Active) /\ Cardinality(Active) \in Nat
  /\ \A s : IsFiniteSet(Users(s)) /\ Cardinality(Users(s)) \in Nat
<1>1. Active \in SUBSET Requests /\ \A s : Users(s) \in SUBSET Requests
  BY DEF Active, Users
<1>2. \A T \in SUBSET Requests : IsFiniteSet(T) /\ Cardinality(T) \in Nat
  BY RequestsAssumption, FS_Subset, FS_CardinalityType
<1> QED BY <1>1, <1>2

ListHolds(s) == slRef > 0 \/ s \in Range(closing)

\* A source is held by the list, twice for each request that is there, and by
\* its close.
SourceCounts ==
  \A s \in Sources :
    /\ srcRef[s].strong = (IF ListHolds(s) THEN 1 ELSE 0) + Cardinality(Users(s)) + Cardinality(Users(s))
    /\ srcRef[s].weak = (IF CloseJob(s) \in offered \ Range(delivered) THEN 1 ELSE 0)

\* The list is held by the interfaces and by each request.
ListCount == slRef = (IF asked THEN 0 ELSE 1) + Cardinality(Active)

\* The closes are queued when the list is gone, and once each.
Closes ==
  /\ IsInjective(closing)
  /\ closing # <<>> => slRef = 0
  /\ \A s \in Sources : CloseJob(s) \in offered <=> slRef = 0 /\ s \notin Range(closing)

Unclosed == {s \in Sources : CloseJob(s) \notin Range(delivered)}

\* The pool is held by run, by each source, and by its last message.
QueueCount ==
  /\ sqRef.strong = (IF stage = "setup" THEN 1 ELSE 0) + Cardinality(Unclosed)
  /\ sqRef.weak = (IF AQuit \in Range(sent) \ Range(delivered) THEN 1 ELSE 0)

Counted == SourceCounts /\ ListCount /\ Closes /\ QueueCount

LEMMA UnclosedFinite == IsFiniteSet(Unclosed) /\ Cardinality(Unclosed) \in Nat
<1>1. Len(Chain) \in Nat /\ Chain \in [1..Len(Chain) -> Sources] /\ DOMAIN Chain = 1..Len(Chain)
  BY ChainAssumption, LenProperties DEF Sources
<1>2. Chain \in Surjection(1..Len(Chain), Sources)
  BY <1>1 DEF Surjection, Sources, Range
<1>3. IsFiniteSet(Sources)
  BY <1>1, <1>2, FS_Interval, FS_Surjection
<1>4. Unclosed \in SUBSET Sources
  BY DEF Unclosed
<1> QED BY <1>3, <1>4, FS_Subset, FS_CardinalityType

LEMMA Enters ==
  ASSUME MainOK, NEW r \in Requests, NEW s \in Sources,
         at[r] = "new", at' = [at EXCEPT ![r] = s]
  PROVE  /\ Cardinality(Active)' = Cardinality(Active) + 1
         /\ Cardinality(Users(s))' = Cardinality(Users(s)) + 1
         /\ \A q \in Sources \ {s} : Cardinality(Users(q))' = Cardinality(Users(q))
<1>1. "new" \notin Sources /\ "over" \notin Sources /\ at \in [Requests -> {"new", "over"} \cup Sources]
  BY ChainAssumption DEF Sources, MainOK
<1>2. Active' = Active \cup {r} /\ r \notin Active
  BY <1>1 DEF Active
<1>3. Users(s)' = Users(s) \cup {r} /\ r \notin Users(s)
  BY <1>1 DEF Users
<1>4. \A q \in Sources \ {s} : Users(q)' = Users(q)
  BY <1>1 DEF Users
<1> QED BY <1>2, <1>3, <1>4, UsersFinite, FS_AddElement

LEMMA Leaves ==
  ASSUME MainOK, NEW r \in Requests, NEW s \in Sources,
         at[r] = s, at' = [at EXCEPT ![r] = "over"]
  PROVE  /\ Cardinality(Active) > 0 /\ Cardinality(Users(s)) > 0
         /\ Cardinality(Active)' = Cardinality(Active) - 1
         /\ Cardinality(Users(s))' = Cardinality(Users(s)) - 1
         /\ \A q \in Sources \ {s} : Cardinality(Users(q))' = Cardinality(Users(q))
<1>1. "new" \notin Sources /\ "over" \notin Sources /\ at \in [Requests -> {"new", "over"} \cup Sources]
  BY ChainAssumption DEF Sources, MainOK
<1>2. Active' = Active \ {r} /\ r \in Active
  BY <1>1 DEF Active
<1>3. Users(s)' = Users(s) \ {r} /\ r \in Users(s)
  BY <1>1 DEF Users
<1>4. \A q \in Sources \ {s} : Users(q)' = Users(q)
  BY <1>1 DEF Users
<1>5. Active # {} /\ Users(s) # {}
  BY <1>2, <1>3
<1>6. Cardinality(Active) > 0 /\ Cardinality(Users(s)) > 0
  BY <1>5, UsersFinite, FS_EmptySet
<1> QED BY <1>2, <1>3, <1>4, <1>6, UsersFinite, FS_RemoveElement

\* When the last reference to the list goes its sources are there to be released.
LEMMA ListReleased ==
  ASSUME MainOK, Closes, closing = <<>>, slRef > 0, ReleaseList, UNCHANGED offered
  PROVE  Closes' /\ \A s \in Sources : ListHolds(s) /\ ListHolds(s)'
<1>1. slRef \in Int /\ Range(Chain) = Sources /\ IsInjective(Chain)
  BY ChainAssumption DEF MainOK, Sources
<1>2. \A s \in Sources : CloseJob(s) \notin offered
  BY DEF Closes
<1>3. CASE slRef = 1
  BY <1>1, <1>2, <1>3 DEF ReleaseList, Closes, ListHolds
<1>4. CASE slRef # 1
  BY <1>1, <1>2, <1>4 DEF ReleaseList, Closes, ListHolds
<1> QED BY <1>3, <1>4

\* A request is in the source from which it gets an answer.
LEMMA AnswersUser ==
  ASSUME Parts, Sending, Calls, NEW r \in Requests, NEW s \in Sources,
         AnswerRead(r, s) \/ AnswerWrite(r, s)
  PROVE  at[r] = s
<1> DEFINE j == Head(batch)
<1>1. batch # <<>> /\ j \in {ReadJob(s, r), WriteJob(s, r)} /\ todo = None
  BY DEF AnswerRead, AnswerWrite, InConsume, AtRest
<1>2. j \in Jobs /\ j # AQuit /\ j # None /\ j.rq = r /\ j.src = s
  BY <1>1, JobTypes, JobForms, MessageAssumption
<1>3. j \in Ever /\ j \in CallsOf(r)
  BY <1>1, <1>2, Answered DEF Ever, CallsOf, Pending
<1>4. at[r] \in Sources /\ j \in {ReadJob(at[r], r), WriteJob(at[r], r)}
  BY <1>2, <1>3 DEF Calls, RequestCalls, Parts, MainOK
<1> QED BY <1>2, <1>4, JobForms

LEMMA CountedStep == Parts /\ Sending /\ Calls /\ Counted /\ [Next]_vars => Counted'
<1> SUFFICES ASSUME Parts, Sending, Calls, Counted, [Next]_vars PROVE Counted'
  OBVIOUS
<1> USE DEF Counted
<1>a. /\ srcRef \in [Sources -> Counts] /\ sqRef \in Counts /\ slRef \in Int /\ MainOK
      /\ offered \subseteq Jobs /\ AQuit \notin Jobs /\ None \notin Jobs
      /\ Range(delivered) \subseteq offered \cup {AQuit}
  BY Answered, MessageAssumption DEF Parts, MainOK
<1>b. /\ Cardinality(Active) \in Nat /\ Cardinality(Unclosed) \in Nat
      /\ \A s \in Sources : Cardinality(Users(s)) \in Nat
  BY UsersFinite, UnclosedFinite
<1>c. \A s \in Sources : srcRef[s].strong \in Int /\ srcRef[s].weak \in Int
  BY <1>a DEF Counts
\* Without a close delivered or a message to end with the pool's count stays.
<1>d. ASSUME UNCHANGED sqRef, stage' = "setup" <=> stage = "setup",
             \A s \in Sources : CloseJob(s) \in Range(delivered') <=> CloseJob(s) \in Range(delivered),
             AQuit \in Range(sent') \ Range(delivered') <=> AQuit \in Range(sent) \ Range(delivered)
      PROVE  QueueCount'
  <2>1. Unclosed' = Unclosed
    BY <1>d DEF Unclosed
  <2> QED BY <1>d, <2>1 DEF QueueCount
<1>1. ASSUME NEW r \in Requests, NEW s \in Sources, Read(r, s) PROVE Counted'
  <2>1. /\ slRef > 0 /\ slRef' = slRef + 1 /\ at[r] = "new" /\ at' = [at EXCEPT ![r] = s]
        /\ srcRef' = [srcRef EXCEPT ![s] = Acquire(Acquire(@))]
        /\ UNCHANGED <<offered, delivered, sent, closing, asked, sqRef, stage>>
    BY <1>1 DEF Read, wqVars, edVars
  <2>2. srcRef[s].strong > 0
    BY <1>b, <1>c, <2>1 DEF SourceCounts, ListHolds
  <2>3. srcRef'[s].strong = srcRef[s].strong + 2 /\ srcRef'[s].weak = srcRef[s].weak
    BY <1>a, <1>c, <2>1, <2>2 DEF Acquire, Counts
  <2>e. /\ Cardinality(Active)' = Cardinality(Active) + 1
        /\ Cardinality(Users(s))' = Cardinality(Users(s)) + 1
        /\ \A q \in Sources \ {s} : Cardinality(Users(q))' = Cardinality(Users(q))
    BY <1>a, <2>1, Enters
  <2>4. \A q \in Sources \ {s} : srcRef'[q] = srcRef[q]
    BY <1>a, <2>1
  <2>5. \A q \in Sources : ListHolds(q) /\ ListHolds(q)'
    BY <1>a, <2>1 DEF ListHolds
  <2>6. SourceCounts'
    BY <1>a, <1>b, <1>c, <2>1, <2>3, <2>4, <2>5, <2>e DEF SourceCounts
  <2>7. ListCount'
    BY <1>a, <1>b, <2>1, <2>e DEF ListCount
  <2>8. Closes'
    BY <1>a, <2>1 DEF Closes
  <2>9. QueueCount'
    BY <1>d, <2>1
  <2> QED BY <2>6, <2>7, <2>8, <2>9
\* The end of a request
<1>e. ASSUME NEW r \in Requests, NEW s \in Sources, AnswerRead(r, s) \/ AnswerWrite(r, s)
      PROVE  /\ at[r] = s /\ slRef > 0 /\ closing = <<>>
             /\ UNCHANGED <<offered, sent, asked, sqRef, stage>>
             /\ \A q \in Sources : CloseJob(q) \in Range(delivered') <=> CloseJob(q) \in Range(delivered)
             /\ AQuit \in Range(delivered') <=> AQuit \in Range(delivered)
             /\ srcRef[s].strong > 1
  <2>1. at[r] = s
    BY <1>e, AnswersUser
  <2>2. /\ Range(delivered') = Range(delivered) \cup {Head(batch)}
        /\ Head(batch) \in {ReadJob(s, r), WriteJob(s, r)}
        /\ closing = <<>> /\ UNCHANGED <<offered, sent, asked, sqRef, stage>>
    BY <1>e, Delivers DEF AnswerRead, AnswerWrite, Over, InConsume, AtRest, wqVars
  <2>3. Head(batch) # AQuit /\ \A q \in Sources : Head(batch) # CloseJob(q)
    BY <1>a, <2>2, JobTypes, JobForms
  <2>4. r \in Active /\ r \in Users(s)
    BY <2>1 DEF Active, Users
  <2>5. Cardinality(Active) > 0 /\ Cardinality(Users(s)) > 0
    BY <1>b, <2>4, UsersFinite, FS_EmptySet
  <2>6. slRef > 0
    BY <1>b, <2>5 DEF ListCount
  <2>7. srcRef[s].strong > 1
    BY <1>b, <2>5, <2>6 DEF SourceCounts, ListHolds
  <2> QED BY <2>1, <2>2, <2>3, <2>6, <2>7
<1>2. ASSUME NEW r \in Requests, NEW s \in Sources, AnswerRead(r, s) \/ AnswerWrite(r, s), Over(r, s)
      PROVE  Counted'
  <2>a. /\ at[r] = s /\ slRef > 0 /\ closing = <<>> /\ srcRef[s].strong > 1
        /\ UNCHANGED <<offered, sent, asked, sqRef, stage>>
        /\ \A q \in Sources : CloseJob(q) \in Range(delivered') <=> CloseJob(q) \in Range(delivered)
        /\ AQuit \in Range(delivered') <=> AQuit \in Range(delivered)
    BY <1>2, <1>e
  <2>1. /\ at' = [at EXCEPT ![r] = "over"] /\ ReleaseList
        /\ srcRef' = [srcRef EXCEPT ![s] = Release(Release(@))]
    BY <1>2 DEF Over
  <2>2. Closes' /\ \A q \in Sources : ListHolds(q) /\ ListHolds(q)'
    BY <2>a, <1>a, <2>1, ListReleased
  <2>3. srcRef'[s].strong = srcRef[s].strong - 2 /\ srcRef'[s].weak = srcRef[s].weak
    BY <2>a, <1>a, <1>c, <2>1 DEF Release, Counts
  <2>e. /\ Cardinality(Active)' = Cardinality(Active) - 1
        /\ Cardinality(Users(s))' = Cardinality(Users(s)) - 1
        /\ \A q \in Sources \ {s} : Cardinality(Users(q))' = Cardinality(Users(q))
    BY <2>a, <1>a, <2>1, Leaves
  <2>4. \A q \in Sources \ {s} : srcRef'[q] = srcRef[q]
    BY <2>a, <1>a, <2>1
  <2>5. SourceCounts'
    <3>1. ASSUME NEW q \in Sources, q # s
          PROVE  /\ srcRef'[q].strong = 1 + Cardinality(Users(q)') + Cardinality(Users(q)')
                 /\ srcRef'[q].weak = (IF CloseJob(q) \in offered' \ Range(delivered') THEN 1 ELSE 0)
      BY <2>a, <2>2, <2>4, <2>e, <3>1 DEF SourceCounts
    <3>2. /\ srcRef'[s].strong = 1 + Cardinality(Users(s)') + Cardinality(Users(s)')
          /\ srcRef'[s].weak = (IF CloseJob(s) \in offered' \ Range(delivered') THEN 1 ELSE 0)
      BY <1>b, <2>a, <2>2, <2>3, <2>e DEF SourceCounts
    <3> QED BY <2>2, <3>1, <3>2 DEF SourceCounts
  <2>6. ListCount'
    BY <1>a, <1>b, <2>a, <2>1, <2>e DEF ListCount, ReleaseList
  <2>7. QueueCount'
    BY <1>d, <2>a
  <2> QED BY <2>2, <2>5, <2>6, <2>7
<1>3. ASSUME NEW r \in Requests, NEW s \in Sources, AnswerRead(r, s), ~Over(r, s) PROVE Counted'
  <2>1. /\ srcRef' = [srcRef EXCEPT ![s] = Release(Acquire(@))]
        /\ UNCHANGED <<closing, slRef, at>>
    BY <1>3 DEF AnswerRead
  <2>2. srcRef'[s].strong = srcRef[s].strong /\ srcRef'[s].weak = srcRef[s].weak
    <3>1. srcRef[s] \in Counts /\ srcRef[s].strong > 0 /\ srcRef[s].strong \in Int
      BY <1>3, <1>a, <1>c, <1>e
    <3>2. Acquire(srcRef[s]).strong = srcRef[s].strong + 1 /\ Acquire(srcRef[s]) \in Counts
      BY <3>1, CountTypes, CountSteps
    <3>3. srcRef'[s] = Release(Acquire(srcRef[s]))
      BY <1>a, <2>1
    <3> QED BY <3>1, <3>2, <3>3, CountSteps
  <2>3. \A q \in Sources \ {s} : srcRef'[q] = srcRef[q]
    BY <1>a, <2>1
  <2>4. SourceCounts'
    BY <1>3, <1>e, <2>1, <2>2, <2>3 DEF SourceCounts, ListHolds, Users
  <2>5. ListCount' /\ Closes'
    BY <1>3, <1>e, <2>1 DEF ListCount, Closes, Active
  <2>6. QueueCount'
    BY <1>3, <1>d, <1>e
  <2> QED BY <2>4, <2>5, <2>6
<1>4. CASE Quit
  <2>1. /\ ~asked /\ asked' = TRUE /\ ReleaseList /\ closing = <<>>
        /\ UNCHANGED <<offered, delivered, sent, srcRef, sqRef, stage, at>>
    BY <1>4 DEF Quit, Idle, AtRest, wqVars, edVars
  <2>2. slRef > 0
    BY <1>a, <1>b, <2>1 DEF ListCount
  <2>3. Closes' /\ \A q \in Sources : ListHolds(q) /\ ListHolds(q)'
    BY <1>a, <2>1, <2>2, ListReleased
  <2>e. Active' = Active /\ \A q \in Sources : Users(q)' = Users(q)
    BY <2>1 DEF Active, Users
  <2>4. ASSUME NEW q \in Sources
        PROVE  /\ srcRef'[q].strong = 1 + Cardinality(Users(q)') + Cardinality(Users(q)')
               /\ srcRef'[q].weak = (IF CloseJob(q) \in offered' \ Range(delivered') THEN 1 ELSE 0)
    BY <2>1, <2>3, <2>e DEF SourceCounts
  <2>7. SourceCounts'
    BY <2>3, <2>4 DEF SourceCounts
  <2>8. slRef = 1 + Cardinality(Active) /\ slRef' = slRef - 1
    BY <2>1 DEF ListCount, ReleaseList
  <2>5. ListCount'
    BY <1>a, <1>b, <2>1, <2>e, <2>8 DEF ListCount
  <2>6. QueueCount'
    BY <1>d, <2>1
  <2> QED BY <2>3, <2>5, <2>6, <2>7
\* Steps that leave the sources and the list alone
<1>f. ASSUME UNCHANGED <<offered, closing, srcRef, slRef, asked, at>>,
             \A q \in Sources : CloseJob(q) \in Range(delivered') <=> CloseJob(q) \in Range(delivered)
      PROVE  SourceCounts' /\ ListCount' /\ Closes'
  <2>1. Active' = Active /\ \A q \in Sources : Users(q)' = Users(q) /\ ListHolds(q)' = ListHolds(q)
    BY <1>f DEF Active, Users, ListHolds
  <2>2. SourceCounts'
    BY <1>f, <2>1 DEF SourceCounts
  <2>3. ListCount'
    BY <1>f, <2>1 DEF ListCount
  <2>4. Closes'
    BY <1>f DEF Closes
  <2> QED BY <2>2, <2>3, <2>4
\* When the list is gone so are the requests.
<1>g. ASSUME slRef = 0, NEW s \in Sources
      PROVE  srcRef[s].strong = (IF s \in Range(closing) THEN 1 ELSE 0)
  <2>1. Active = {}
    BY <1>b, <1>g, UsersFinite, FS_EmptySet DEF ListCount
  <2>2. Users(s) = {}
    BY <2>1 DEF Active, Users
  <2>3. Cardinality(Users(s)) = 0
    BY <2>2, FS_EmptySet
  <2> QED BY <1>g, <2>3 DEF SourceCounts, ListHolds
<1>5. CASE Start
  <2>1. /\ stage = "setup" /\ sqRef' = Release(sqRef) /\ stage' \in {"destroy", "loop"}
        /\ UNCHANGED <<offered, delivered, sent, closing, srcRef, slRef, asked, at>>
    BY <1>5 DEF Start, ReleaseQueue, wqVars, edVars
  <2>2. sqRef'.strong = Cardinality(Unclosed) /\ sqRef'.weak = sqRef.weak
    BY <1>a, <1>b, <2>1, CountSteps DEF QueueCount
  <2>3. Unclosed' = Unclosed
    BY <2>1 DEF Unclosed
  <2>4. QueueCount'
    BY <1>b, <2>1, <2>2, <2>3 DEF QueueCount
  <2> QED BY <1>f, <2>1, <2>4
<1>6. CASE CloseSource
  <2>0. closing \in Seq(Sources) /\ closing # <<>>
    BY <1>6 DEF CloseSource, Parts, MainOK
  <2>s. PICK s \in Sources : s = Head(closing)
    BY <2>0, HeadTailProperties
  <2> DEFINE j == CloseJob(s)
  <2>1. closing # <<>> /\ closing' = Tail(closing) /\ slRef = 0
        /\ UNCHANGED <<delivered, sent, stage, sqRef, slRef, asked, at>>
    BY <1>6 DEF CloseSource, Closes, edVars
  <2>2. /\ s \in Sources /\ s \in Range(closing) /\ s \notin Range(closing')
        /\ Range(closing) = {s} \cup Range(closing') /\ IsInjective(closing')
    BY <2>0, <2>s, <2>1, HeadOfRest DEF Closes
  <2>3. srcRef[s].strong = 1 /\ srcRef[s].weak = 0 /\ j \in Jobs /\ j \notin offered /\ j \notin Range(delivered)
    BY <1>a, <1>g, <2>1, <2>2, JobTypes DEF Closes, SourceCounts
  <2>4. /\ srcRef' = [srcRef EXCEPT ![s] = Acquire(Release(@))]
        /\ offered' = offered \cup {j}
    BY <1>6, <2>s, <2>3 DEF CloseSource, ReleaseFires, WQ!SendWork
  <2>5. srcRef'[s].strong = 0 /\ srcRef'[s].weak = 1
    <3>1. PICK c \in Counts : c = srcRef[s]
      BY <1>a
    <3>2. Release(c) \in Counts
      BY CountTypes
    <3>3. c.strong = 1 /\ c.strong > 0 /\ c.weak = 0
      BY <2>3, <3>1
    <3>4. Release(c).strong = 0 /\ Release(c).weak = 0
      BY <3>3, CountSteps
    <3>5. Acquire(Release(c)).strong = 0 /\ Acquire(Release(c)).weak = 1
      BY <3>2, <3>4, CountSteps
    <3> QED BY <1>a, <2>4, <3>1, <3>5
  <2>6. \A q \in Sources \ {s} : /\ srcRef'[q] = srcRef[q] /\ ListHolds(q)' = ListHolds(q)
                                 /\ CloseJob(q) # j
    BY <1>a, <2>1, <2>2, <2>4, JobForms DEF ListHolds
  <2>14. ~ListHolds(s)'
    BY <2>1, <2>2 DEF ListHolds
  <2>7. \A q \in Sources : Users(q)' = Users(q)
    BY <2>1 DEF Users
  <2>8. Cardinality(Users(s)) = 0
    BY <1>b, <2>1, <2>2, <2>3 DEF SourceCounts, ListHolds
  <2>9. SourceCounts'
    <3>1. ASSUME NEW q \in Sources, q # s
          PROVE  /\ srcRef'[q] = srcRef[q] /\ ListHolds(q)' = ListHolds(q) /\ Users(q)' = Users(q)
                 /\ CloseJob(q) \in offered' \ Range(delivered') <=> CloseJob(q) \in offered \ Range(delivered)
      BY <2>1, <2>4, <2>6, <2>7, <3>1
    <3>2. j \in offered' \ Range(delivered') /\ Cardinality(Users(s)') = 0
      BY <2>1, <2>2, <2>3, <2>4, <2>7, <2>8
    <3> QED BY <2>5, <2>14, <3>1, <3>2 DEF SourceCounts
  <2>10. Active' = Active
    BY <2>1 DEF Active
  <2>11. ListCount'
    BY <2>1, <2>10 DEF ListCount
  <2>12. Closes'
    BY <2>1, <2>2, <2>4, <2>6 DEF Closes
  <2>13. QueueCount'
    BY <1>d, <2>1
  <2> QED BY <2>9, <2>11, <2>12, <2>13
<1>7. ASSUME NEW s \in Sources, AnswerClose(s) PROVE Counted'
  <2> DEFINE j == CloseJob(s)
  <2>1. /\ stage = "loop" /\ batch # <<>> /\ Head(batch) = j
        /\ srcRef' = [srcRef EXCEPT ![s] = Release(@)]
        /\ sqRef' = Release(sqRef) /\ stage' \in {"destroy", "loop"}
        /\ Range(delivered') = Range(delivered) \cup {j}
        /\ UNCHANGED <<offered, sent, closing, slRef, asked, at>>
    BY <1>7, Delivers DEF AnswerClose, InConsume, AtRest, ReleaseQueue, wqVars
  <2>2. j \in offered /\ j \notin Range(delivered) /\ j # AQuit
        /\ \A q \in Sources \ {s} : CloseJob(q) # j
    BY <1>a, <2>1, Answered, JobTypes, JobForms
  <2>3. slRef = 0 /\ s \notin Range(closing)
    BY <2>2 DEF Closes
  <2>4. srcRef[s].strong = 0 /\ srcRef[s].weak = 1
    BY <1>g, <2>2, <2>3 DEF SourceCounts
  <2>5. srcRef'[s].strong = 0 /\ srcRef'[s].weak = 0
    BY <1>a, <2>1, <2>4, CountSteps
  <2>6. \A q \in Sources : Users(q)' = Users(q) /\ ListHolds(q)' = ListHolds(q)
    BY <2>1 DEF Users, ListHolds
  <2>7. \A q \in Sources \ {s} : srcRef'[q] = srcRef[q]
    BY <1>a, <2>1
  <2>8. Cardinality(Users(s)) = 0
    BY <1>b, <2>3, <2>4 DEF SourceCounts, ListHolds
  <2>9. SourceCounts'
    BY <2>1, <2>2, <2>3, <2>5, <2>6, <2>7, <2>8 DEF SourceCounts, ListHolds
  <2>10. Active' = Active
    BY <2>1 DEF Active
  <2>11. ListCount' /\ Closes'
    BY <2>1, <2>10 DEF ListCount, Closes
  <2>12. Unclosed' = Unclosed \ {s} /\ s \in Unclosed
    BY <2>1, <2>2 DEF Unclosed
  <2>13. Cardinality(Unclosed') = Cardinality(Unclosed) - 1 /\ Cardinality(Unclosed) > 0
    BY <2>12, UnclosedFinite, FS_RemoveElement, FS_EmptySet
  <2>14. QueueCount'
    BY <1>a, <1>b, <2>1, <2>2, <2>13, CountSteps DEF QueueCount
  <2> QED BY <2>9, <2>11, <2>14
<1>8. CASE SendQuit
  <2>1. /\ stage = "join" /\ stage' = "bell" /\ sqRef' = AcquireWeak(sqRef)
        /\ AQuit \notin Range(sent) /\ sent' = Append(sent, AQuit)
        /\ UNCHANGED <<offered, delivered, closing, srcRef, slRef, asked, at>>
    BY <1>8 DEF SendQuit, ED!Send, ED!Range, Range, wqVars
  <2>2. Range(sent') = Range(sent) \cup {AQuit}
    BY <2>1, Appended DEF Parts, EDP!IInv, EDP!TypeOK
  <2>3. AQuit \notin Range(delivered)
    BY <2>1, SentParts DEF Sending
  <2>4. Unclosed' = Unclosed
    BY <2>1 DEF Unclosed
  <2>5. QueueCount'
    BY <1>a, <2>1, <2>2, <2>3, <2>4, CountSteps DEF QueueCount
  <2> QED BY <1>f, <2>1, <2>5
<1>9. CASE AnswerQuit
  <2>1. /\ stage = "loop" /\ stage' \in {"freed", "loop"} /\ sqRef' = ReleaseWeak(sqRef)
        /\ batch # <<>> /\ Head(batch) = AQuit
        /\ Range(delivered') = Range(delivered) \cup {AQuit}
        /\ UNCHANGED <<offered, sent, closing, srcRef, slRef, asked, at>>
    BY <1>9, Delivers DEF AnswerQuit, InConsume, AtRest, wqVars
  <2>2. AQuit \in Range(sent) /\ AQuit \notin Range(delivered)
    BY <2>1, Answered
  <2>3. \A q \in Sources : CloseJob(q) \in Range(delivered') <=> CloseJob(q) \in Range(delivered)
    BY <1>a, <2>1, JobTypes
  <2>4. Unclosed' = Unclosed
    BY <2>3 DEF Unclosed
  <2>5. QueueCount'
    BY <1>a, <2>1, <2>2, <2>4, CountSteps DEF QueueCount
  <2> QED BY <1>f, <2>1, <2>3, <2>5
<1>10. CASE AddQ
  <2>1. /\ todo # None /\ offered' = offered \cup {todo}
        /\ UNCHANGED <<delivered, sent, closing, srcRef, sqRef, stage, slRef, asked, at>>
    BY <1>10 DEF AddQ, WQ!SendWork, edVars
  <2>2. \A q \in Sources : CloseJob(q) \in offered' <=> CloseJob(q) \in offered
    BY <2>1 DEF Calls, TodoFresh
  <2>3. Active' = Active /\ \A q \in Sources : Users(q)' = Users(q) /\ ListHolds(q)' = ListHolds(q)
    BY <2>1 DEF Active, Users, ListHolds
  <2>4. SourceCounts'
    BY <2>1, <2>2, <2>3 DEF SourceCounts
  <2>5. ListCount'
    BY <2>1, <2>3 DEF ListCount
  <2>6. Closes'
    BY <2>1, <2>2 DEF Closes
  <2>7. QueueCount'
    BY <1>d, <2>1
  <2> QED BY <2>4, <2>5, <2>6, <2>7
<1>11. ASSUME NEW w \in Workers, RunJob(w) PROVE Counted'
  <2>1. /\ got[w] \in Jobs /\ sent' = Append(sent, got[w])
        /\ UNCHANGED <<offered, delivered, closing, srcRef, sqRef, stage, slRef, asked, at>>
    BY <1>11, GotType DEF RunJob, ED!Send, Parts, wqVars, mainVars
  <2>2. sent \in Seq(Jobs \cup {AQuit}) /\ got[w] \in Jobs \cup {AQuit} /\ got[w] # AQuit
    BY <1>a, <2>1 DEF Parts, EDP!IInv, EDP!TypeOK
  <2>3. Range(sent') = Range(sent) \cup {got[w]}
    BY <2>1, <2>2, Appended
  <2> QED BY <1>d, <1>f, <2>1, <2>2, <2>3
<1>12. CASE \/ StopWorkers \/ RingQuit \/ ResetBell \/ Swap \/ Return \/ UNCHANGED vars
            \/ (\E w \in Workers : GetWork(w) \/ CheckQuit(w) \/ AddA(w) \/ SpuriousWakeup(w))
  <2>1. /\ stage' = "setup" <=> stage = "setup"
        /\ UNCHANGED <<offered, delivered, sent, closing, srcRef, sqRef, slRef, asked, at>>
    BY <1>12 DEF StopWorkers, WQ!SetQuit, RingQuit, ED!RingBell,
                ResetBell, ED!ResetBell, Swap, ED!Swap, Return, ED!Return,
                GetWork, WQ!GetWork, WQ!Resume, WQ!TakeOrWait, CheckQuit, WQ!CheckQuit,
                AddA, WQ!RunJob, SpuriousWakeup, WQ!SpuriousWakeup, vars, wqVars, edVars, mainVars
  <2> QED BY <1>d, <1>f, <2>1
<1> QED BY <1>1, <1>2, <1>3, <1>4, <1>5, <1>6, <1>7, <1>8, <1>9, <1>10, <1>11, <1>12
        DEF Next, Consume, Worker, AnswerWrite

-----------------------------------------------------------------------------
(* The end of the pool *)

\* When the pool's last holder has gone nothing is left to do for it.
LEMMA AllServed ==
  ASSUME Parts, Sending, Calls, Counted, sqRef.strong = 0
  PROVE  /\ todo = None /\ closing = <<>> /\ jobs = <<>> /\ WQP!Held = {}
         /\ \A s \in Sources : Freed(srcRef[s])
<1>1. /\ offered \subseteq Jobs /\ Range(delivered) \subseteq done \cup {AQuit} /\ AQuit \notin Jobs
      /\ None \notin Jobs /\ todo \in Jobs \cup {None} /\ closing \in Seq(Sources) /\ jobs \in Seq(Jobs)
      /\ done \subseteq offered
  BY Answered, MessageAssumption DEF Parts, MainOK, WQP!IInv, WQP!TypeOK
<1>2. Cardinality(Unclosed) = 0 /\ stage # "setup"
  BY UnclosedFinite DEF Counted, QueueCount
<1>3. \A s \in Sources : CloseJob(s) \in Range(delivered)
  BY <1>2, UnclosedFinite, FS_EmptySet DEF Unclosed
<1>4. \A s \in Sources : CloseJob(s) \in offered
  BY <1>1, <1>3, JobTypes
<1>5. \A s \in Sources : slRef = 0 /\ s \notin Range(closing)
  BY <1>4 DEF Counted, Closes
<1>6. closing = <<>>
  <2> SUFFICES ASSUME closing # <<>> PROVE FALSE
    OBVIOUS
  <2>1. Head(closing) \in Sources /\ Head(closing) \in Range(closing)
    BY <1>1, HeadOfRest, HeadTailProperties
  <2> QED BY <1>5, <2>1
<1>7. \A s \in Sources : Users(s) = {} /\ Cardinality(Users(s)) = 0
  <2> SUFFICES ASSUME NEW s \in Sources PROVE Users(s) = {}
    BY FS_EmptySet
  <2>1. Cardinality(Active) = 0
    BY <1>5, UsersFinite DEF Counted, ListCount
  <2> QED BY <2>1, UsersFinite, FS_EmptySet DEF Active, Users
<1>8. ASSUME NEW j \in Pending PROVE FALSE
  <2>1. j \in Jobs /\ j \notin Range(delivered)
    BY <1>1 DEF Pending
  <2>2. j.type # "close" /\ j.rq \in Requests
    BY <1>3, <2>1, JobKinds
  <2>3. j \in Ever /\ j \in CallsOf(j.rq)
    BY <2>1, <1>8 DEF Ever, CallsOf, Pending
  <2>4. at[j.rq] \in Sources
    BY <2>2, <2>3 DEF Calls, RequestCalls, Parts, MainOK
  <2> QED BY <1>7, <2>2, <2>4 DEF Users
<1>9. todo = None
  BY <1>1, <1>8 DEF Pending, Calls, TodoFresh
<1>10. offered \subseteq done
  BY <1>1, <1>8 DEF Pending
<1>11. WQP!Held = {} /\ WQP!Queued = {}
  BY <1>10 DEF Parts, WQP!IInv, WQP!InOnePlace
<1>12. jobs = <<>>
  <2>1. WQP!Queued = Range(jobs)
    BY DEF WQP!Queued, WQP!Range, Range
  <2> QED BY <1>1, <1>11, <2>1, HeadOfRest
<1>13. ASSUME NEW s \in Sources PROVE Freed(srcRef[s])
  <2>1. srcRef[s].strong = 0 /\ srcRef[s].weak = 0
    BY <1>3, <1>5, <1>7 DEF Counted, SourceCounts, ListHolds
  <2> QED BY <2>1 DEF Freed
<1> QED BY <1>6, <1>9, <1>11, <1>12, <1>13

\* The threads are told to quit when the pool's last holder has gone, and the
\* message that ends it comes after them.
QuitsLast ==
  /\ quit \/ stage = "destroy" <=> sqRef.strong = 0
  /\ stage \in {"join", "bell", "freed"} => quit
  /\ AQuit \in Range(sent) =>
        /\ quit /\ stage \in {"bell", "loop", "freed"}
        /\ \A w \in Workers : pc[w] = "exited"
        /\ AQuit = sent[Len(sent)]
  /\ stage \in {"bell", "freed"} => AQuit \in Range(sent)
  /\ ringer = Main => stage = "bell"
  /\ stage = "freed" => answers = <<>> /\ batch = <<>> /\ ringer = None

Ends == QuitsLast /\ NoJobLost

LEMMA EndsStep == Parts /\ Sending /\ Calls /\ Counted /\ Ends /\ [Next]_vars => Ends'
<1> SUFFICES ASSUME Parts, Sending, Calls, Counted, Ends, [Next]_vars PROVE Ends'
  OBVIOUS
<1> USE DEF Ends, NoJobLost
<1>a. /\ sqRef \in Counts /\ sqRef.strong \in Int /\ sqRef.weak \in Int
      /\ quit \in BOOLEAN /\ sent \in Seq(Jobs \cup {AQuit}) /\ AQuit \notin Jobs
      /\ ringer \in Workers \cup {Main, None} /\ Main \notin Workers /\ None \notin Workers /\ Main # None
  BY MainAssumption, MessageAssumption DEF Parts, MainOK, Counts, WQP!IInv, WQP!TypeOK, EDP!IInv, EDP!TypeOK
<1>b. quit => todo = None /\ closing = <<>> /\ WQP!Held = {}
  BY AllServed DEF QuitsLast
<1>c. stage = "setup" => sqRef.strong > 0 /\ ~quit
  BY <1>a, UnclosedFinite DEF QuitsLast, Counted, QueueCount
\* A thread that runs a job has not left, so that the message that ends the pool
\* has not been sent.
<1>d. ASSUME NEW w \in Workers, pc[w] = "run"
      PROVE  AQuit \notin Range(sent) /\ stage \notin {"bell", "freed"}
  BY <1>d DEF QuitsLast
<1>1. CASE AddQ \/ CloseSource
  <2>1. UNCHANGED <<quit, dropped, stage, sqRef, sent, ringer, answers, batch>>
    BY <1>1 DEF AddQ, CloseSource, WQ!SendWork, wqVars, edVars
  <2>2. UNCHANGED refused /\ ~quit
    BY <1>b, <1>1 DEF AddQ, CloseSource, WQ!SendWork, wqVars
  <2>3. AQuit \notin Range(sent) /\ stage \notin {"bell", "freed"}
    BY <2>2 DEF QuitsLast
  <2> QED BY <2>1, <2>2, <2>3 DEF QuitsLast
<1>2. ASSUME UNCHANGED <<quit, refused, dropped, sent, ringer>>, sqRef' = Release(sqRef),
             sqRef.strong > 0, ~quit, stage \in {"setup", "loop"},
             stage' = IF ReleaseFires(sqRef) THEN "destroy" ELSE "loop"
      PROVE  Ends'
  <2>1. sqRef'.strong = sqRef.strong - 1
    BY <1>a, <1>2, CountSteps
  <2>2. stage' = "destroy" <=> sqRef'.strong = 0
    BY <1>a, <1>2, <2>1 DEF ReleaseFires
  <2>3. AQuit \notin Range(sent) /\ ringer # Main
    BY <1>2 DEF QuitsLast
  <2> QED BY <1>2, <2>2, <2>3 DEF QuitsLast
<1>3. CASE Start
  <2>1. /\ UNCHANGED <<quit, refused, dropped, sent, ringer>> /\ sqRef' = Release(sqRef) /\ stage = "setup"
        /\ stage' = IF ReleaseFires(sqRef) THEN "destroy" ELSE "loop"
    BY <1>3 DEF Start, ReleaseQueue, wqVars, edVars
  <2> QED BY <1>2, <1>c, <2>1
<1>4. ASSUME NEW s \in Sources, AnswerClose(s) PROVE Ends'
  <2>1. /\ UNCHANGED <<quit, refused, dropped, sent, ringer>> /\ sqRef' = Release(sqRef) /\ stage = "loop"
        /\ stage' = IF ReleaseFires(sqRef) THEN "destroy" ELSE "loop"
        /\ batch # <<>> /\ Head(batch) = CloseJob(s)
    BY <1>4 DEF AnswerClose, InConsume, AtRest, ReleaseQueue, ED!Deliver, wqVars
  <2>2. s \in Unclosed
    BY <2>1, Answered DEF Unclosed
  <2>3. Cardinality(Unclosed) \in Nat /\ Cardinality(Unclosed) # 0
    BY <2>2, UnclosedFinite, FS_EmptySet
  <2>4. sqRef.strong > 0
    BY <2>1, <2>3 DEF Counted, QueueCount
  <2>5. ~quit
    BY <2>4 DEF QuitsLast
  <2> QED BY <1>2, <2>1, <2>4, <2>5
<1>5. CASE StopWorkers
  <2>1. /\ stage = "destroy" /\ stage' = "join" /\ quit' = TRUE
        /\ UNCHANGED <<refused, dropped, sent, ringer, answers, batch, sqRef>>
    BY <1>5 DEF StopWorkers, WQ!SetQuit, edVars
  <2>2. AQuit \notin Range(sent) /\ ringer # Main
    BY <2>1 DEF QuitsLast
  <2> QED BY <2>1, <2>2 DEF QuitsLast
<1>6. CASE SendQuit
  <2>1. /\ stage = "join" /\ stage' = "bell" /\ \A w \in Workers : pc[w] = "exited"
        /\ sqRef' = AcquireWeak(sqRef) /\ sent' = Append(sent, AQuit)
        /\ UNCHANGED <<pc, quit, refused, dropped>>
    BY <1>6 DEF SendQuit, ED!Send, wqVars
  <2>2. sqRef'.strong = sqRef.strong
    BY <1>a, <2>1, CountSteps
  <2>3. Range(sent') = Range(sent) \cup {AQuit} /\ sent'[Len(sent')] = AQuit
    BY <1>a, <2>1, Appended
  <2> QED BY <2>1, <2>2, <2>3 DEF QuitsLast
<1>7. CASE RingQuit
  <2>1. /\ stage = "bell" /\ stage' = "loop" /\ ringer' = None
        /\ UNCHANGED <<pc, quit, refused, dropped, sent, sqRef>>
    BY <1>7 DEF RingQuit, ED!RingBell, wqVars
  <2> QED BY <1>a, <2>1 DEF QuitsLast
<1>8. CASE AnswerQuit
  <2>1. /\ stage = "loop" /\ stage' \in {"freed", "loop"} /\ sqRef' = ReleaseWeak(sqRef)
        /\ batch # <<>> /\ Head(batch) = AQuit /\ batch' = Tail(batch)
        /\ UNCHANGED <<pc, quit, refused, dropped, sent, ringer, answers>>
    BY <1>8 DEF AnswerQuit, InConsume, AtRest, ED!Deliver, wqVars
  <2>2. sqRef'.strong = sqRef.strong
    BY <1>a, <2>1, CountSteps
  <2>3. AQuit \in Range(sent)
    BY <2>1, Answered
  <2>4. quit /\ (\A w \in Workers : pc[w] = "exited") /\ AQuit = sent[Len(sent)]
    BY <2>3 DEF QuitsLast
  <2>5. answers = <<>> /\ Tail(batch) = <<>>
    BY <2>1, <2>4, SentParts DEF Sending
  <2>6. ringer = None
    BY <1>a, <2>1, <2>4 DEF Sending, QuitsLast
  <2> QED BY <2>1, <2>2, <2>3, <2>4, <2>5, <2>6 DEF QuitsLast
<1>9. ASSUME NEW w \in Workers, RunJob(w) PROVE Ends'
  <2>1. /\ pc[w] = "run" /\ sent' = Append(sent, got[w]) /\ ringer' = w /\ got[w] \in Jobs
        /\ UNCHANGED <<pc, quit, refused, dropped, stage, sqRef>>
    BY <1>9, GotType DEF RunJob, ED!Send, Parts, wqVars, mainVars
  <2>2. Range(sent') = Range(sent) \cup {got[w]}
    BY <1>a, <2>1, Appended
  <2> QED BY <1>a, <1>d, <2>1, <2>2 DEF QuitsLast
<1>10. ASSUME NEW w \in Workers, AddA(w) PROVE Ends'
  <2>1. /\ pc[w] = "run" /\ ringer' = None
        /\ UNCHANGED <<quit, refused, dropped, stage, sqRef, sent>>
    BY <1>10 DEF AddA, ED!RingBell, WQ!RunJob, mainVars
  <2> QED BY <1>a, <1>d, <2>1 DEF QuitsLast
<1>11. ASSUME NEW w \in Workers, GetWork(w) \/ CheckQuit(w) \/ SpuriousWakeup(w) PROVE Ends'
  <2>1. UNCHANGED <<quit, refused, stage, sqRef, sent, ringer, answers, batch>>
    BY <1>11 DEF GetWork, WQ!GetWork, WQ!Resume, WQ!TakeOrWait, CheckQuit, WQ!CheckQuit,
                 SpuriousWakeup, WQ!SpuriousWakeup, mainVars, edVars
  <2>2. UNCHANGED dropped
    <3>1. CASE CheckQuit(w)
      <4>1. pc[w] = "check" /\ (dropped' = dropped \/ (quit /\ dropped' = dropped \cup ({got[w]} \ {None})))
        BY <3>1 DEF CheckQuit, WQ!CheckQuit, WQ!Leave, WQ!GoOn, WQ!ShouldQuit
      <4>2. quit => got[w] = None
        BY <1>b, <4>1 DEF WQP!Held
      <4> QED BY <4>1, <4>2
    <3> QED BY <1>11, <3>1 DEF GetWork, WQ!GetWork, WQ!Resume, WQ!TakeOrWait,
                              SpuriousWakeup, WQ!SpuriousWakeup
  <2>3. \A v \in Workers : ~AddA(v)
    BY <1>a, <2>1 DEF AddA, ED!RingBell
  <2>4. \A v \in Workers : pc[v] = "exited" => pc'[v] = "exited"
    BY <2>3, OthersStay
  <2> QED BY <2>1, <2>2, <2>4 DEF QuitsLast
<1>12. CASE ResetBell \/ Swap \/ Return
  <2>1. /\ stage = "loop"
        /\ UNCHANGED <<pc, quit, refused, dropped, stage, sqRef, sent, ringer>>
    BY <1>12 DEF ResetBell, ED!ResetBell, Swap, ED!Swap, Return, ED!Return, AtRest, wqVars, mainVars
  <2> QED BY <2>1 DEF QuitsLast
<1>13. ASSUME NEW r \in Requests, NEW s \in Sources, Read(r, s) \/ AnswerRead(r, s) \/ AnswerWrite(r, s)
       PROVE  Ends'
  <2>1. /\ stage = "loop"
        /\ UNCHANGED <<pc, quit, refused, dropped, stage, sqRef, sent, ringer>>
    BY <1>13 DEF Read, Idle, AnswerRead, AnswerWrite, InConsume, AtRest, ED!Deliver, wqVars, edVars
  <2> QED BY <2>1 DEF QuitsLast
<1>14. CASE Quit \/ UNCHANGED vars
  <2>1. UNCHANGED <<pc, quit, refused, dropped, stage, sqRef, sent, ringer, answers, batch>>
    BY <1>14 DEF Quit, vars, wqVars, edVars, mainVars
  <2> QED BY <2>1 DEF QuitsLast
<1> QED BY <1>1, <1>3, <1>4, <1>5, <1>6, <1>7, <1>8, <1>9, <1>10, <1>11, <1>12, <1>13, <1>14
        DEF Next, Consume, Worker

-----------------------------------------------------------------------------
(* The invariant *)

IInv == Parts /\ Sending /\ Calls /\ Counted /\ Ends

LEMMA InitIInv == Init => IInv
<1> SUFFICES ASSUME Init PROVE IInv
  OBVIOUS
<1>1. Parts
  BY InitParts
<1>2. /\ todo = None /\ closing = <<>> /\ stage = "setup" /\ slRef = 1 /\ asked = FALSE
      /\ srcRef = [s \in Sources |-> NewRef] /\ sqRef = [strong |-> Len(Chain) + 1, weak |-> 0]
      /\ at = [r \in Requests |-> "new"]
      /\ offered = {} /\ refused = {} /\ dropped = {} /\ done = {} /\ quit = FALSE
      /\ sent = <<>> /\ delivered = <<>> /\ answers = <<>> /\ batch = <<>> /\ ringer = None
  BY DEF Init, WQ!Init, ED!Init
<1>3. Range(<<>>) = {} /\ IsInjective(<<>>)
  BY DEF Range, IsInjective
<1>4. None \notin Workers /\ Main # None
  BY MainAssumption
<1>5. Sending
  BY <1>2, <1>3, <1>4 DEF Sending
<1>6. Calls
  <2>1. "new" \notin Sources /\ "over" \notin Sources /\ "new" # "over"
    BY ChainAssumption DEF Sources
  <2>2. \A s \in Sources : CloseJob(s) # None
    BY JobTypes, MessageAssumption
  <2>3. Ever = {}
    BY <1>2 DEF Ever
  <2> QED BY <1>2, <2>1, <2>2, <2>3 DEF Calls, RequestCalls, TodoFresh
<1>7. Counted
  <2>1. "new" \notin Sources
    BY ChainAssumption DEF Sources
  <2>2. Active = {} /\ \A s \in Sources : Users(s) = {}
    BY <1>2, <2>1 DEF Active, Users
  <2>3. Unclosed = Sources
    BY <1>2, <1>3 DEF Unclosed
  <2>4. Cardinality(Sources) = Len(Chain) /\ Len(Chain) \in Nat
    <3>1. Len(Chain) \in Nat /\ Chain \in [1..Len(Chain) -> Sources] /\ DOMAIN Chain = 1..Len(Chain)
      BY ChainAssumption, LenProperties DEF Sources
    <3>2. Chain \in Surjection(1..Len(Chain), Sources) /\ Chain \in Injection(1..Len(Chain), Sources)
      BY <3>1, ChainAssumption DEF Surjection, Injection, IsInjective, Sources, Range
    <3>3. IsFiniteSet(1..Len(Chain)) /\ Cardinality(1..Len(Chain)) = Len(Chain)
      BY <3>1, FS_Interval
    <3> QED BY <3>1, <3>2, <3>3, FS_Surjection
  <2>5. SourceCounts
    <3>1. ASSUME NEW s \in Sources
          PROVE  srcRef[s].strong = 1 /\ srcRef[s].weak = 0 /\ Cardinality(Users(s)) = 0 /\ ListHolds(s)
      <4>1. srcRef[s].strong = 1 /\ srcRef[s].weak = 0
        BY <1>2 DEF NewRef
      <4>2. Cardinality(Users(s)) = 0
        BY <2>2, FS_EmptySet
      <4>3. ListHolds(s)
        BY <1>2 DEF ListHolds
      <4> QED BY <4>1, <4>2, <4>3
    <3> QED BY <1>2, <3>1 DEF SourceCounts
  <2>6. ListCount
    BY <1>2, <2>2, FS_EmptySet DEF ListCount
  <2>7. Closes
    BY <1>2, <1>3 DEF Closes
  <2>8. QueueCount
    BY <1>2, <1>3, <2>3, <2>4 DEF QueueCount
  <2> QED BY <2>5, <2>6, <2>7, <2>8 DEF Counted
<1>8. Ends
  <2>1. Len(Chain) \in Nat
    BY ChainAssumption, LenProperties
  <2> QED BY <1>2, <1>3, <1>4, <2>1 DEF Ends, QuitsLast, NoJobLost
<1> QED BY <1>1, <1>5, <1>6, <1>7, <1>8 DEF IInv

LEMMA Inductive == IInv /\ [Next]_vars => IInv'
BY PartsStep, SendingStep, CallsStep, CountedStep, EndsStep DEF IInv

LEMMA Invariance == Spec => []IInv
BY InitIInv, Inductive, PTL DEF Spec

-----------------------------------------------------------------------------
(* The theorems *)

(***************************************************************************)
(* The pool uses its two parts as they are meant to be used: what the work *)
(* queue and the data event of util/event.c promise holds of it.           *)
(***************************************************************************)
THEOREM ImplementsItsParts == Spec => WQP!Spec /\ EDP!Spec
<1>1. Init => WQP!Init /\ EDP!Init
  BY DEF Init, WQ!Init, WQP!Init, ED!Init, EDP!Init
<1>2. IInv /\ [Next]_vars => [WQP!Next]_(WQP!vars) /\ [EDP!Next]_(EDP!vars)
  BY QueueStep, EventStep DEF IInv, Parts
<1> QED BY Invariance, <1>1, <1>2, PTL DEF Spec, WQP!Spec, EDP!Spec

(***************************************************************************)
(* Every variable keeps its type; no reference count falls below zero.     *)
(***************************************************************************)
THEOREM TypeCorrect == Spec => []TypeOK
<1>1. ASSUME IInv PROVE TypeOK
  <2>1. WQ!TypeOK /\ ED!TypeOK
    BY <1>1 DEF IInv, Parts, WQP!IInv, WQP!TypeOK, WQ!TypeOK, WQP!Places, WQ!Places,
                EDP!IInv, EDP!TypeOK, ED!TypeOK
  <2>2. /\ srcRef \in [Sources -> Counts] /\ sqRef \in Counts
        /\ Cardinality(Active) \in Nat /\ Cardinality(Unclosed) \in Nat
        /\ \A s \in Sources : Cardinality(Users(s)) \in Nat
    BY <1>1, UsersFinite, UnclosedFinite DEF IInv, Parts, MainOK
  <2>3. sqRef \in RefType
    <3>1. sqRef.strong \in Nat /\ sqRef.weak \in Nat
      BY <1>1, <2>2 DEF IInv, Counted, QueueCount
    <3> QED BY <2>2, <3>1 DEF Counts, RefType
  <2>4. ASSUME NEW s \in Sources PROVE srcRef[s] \in RefType
    <3>1. srcRef[s].strong \in Nat /\ srcRef[s].weak \in Nat
      BY <1>1, <2>2 DEF IInv, Counted, SourceCounts
    <3> QED BY <2>2, <3>1 DEF Counts, RefType
  <2>5. slRef \in Nat
    BY <1>1, <2>2 DEF IInv, Counted, ListCount
  <2>6. srcRef \in [Sources -> RefType]
    BY <2>2, <2>4
  <2> QED BY <1>1, <2>1, <2>3, <2>5, <2>6 DEF IInv, Parts, MainOK, TypeOK
<1> QED BY Invariance, <1>1, PTL

\* Each request in a source has one call there.
LEMMA OneCallEach ==
  ASSUME Parts, Sending, Calls, NEW s \in Sources
  PROVE  Cardinality({j \in PendingAt(s) : j.type # "close"}) = Cardinality(Users(s))
<1> DEFINE calls == {j \in PendingAt(s) : j.type # "close"}
           rqOf == [j \in calls |-> j.rq]
<1>1. Pending \subseteq Jobs
  BY Answered DEF Pending, Parts, MainOK
<1>2. ASSUME NEW j \in calls PROVE j.rq \in Users(s) /\ CallsOf(j.rq) = {j}
  <2>1. j \in Jobs /\ j \in Pending /\ j \in Ever /\ j.src = s /\ j.rq \in Requests
    BY <1>1, JobKinds DEF PendingAt, Pending, Ever
  <2>2. j \in CallsOf(j.rq)
    BY <2>1 DEF CallsOf
  <2>3. at[j.rq] \in Sources /\ j \in {ReadJob(at[j.rq], j.rq), WriteJob(at[j.rq], j.rq)}
    BY <2>1, <2>2 DEF Calls, RequestCalls, Parts, MainOK
  <2>4. at[j.rq] = s
    BY <2>1, <2>3, JobForms
  <2> QED BY <2>1, <2>2, <2>3, <2>4 DEF Calls, RequestCalls, Users
<1>3. ASSUME NEW r \in Users(s) PROVE \E j \in calls : j.rq = r
  <2>1. r \in Requests /\ at[r] = s
    BY DEF Users
  <2>2. PICK j \in {ReadJob(s, r), WriteJob(s, r)} : j \in CallsOf(r)
    BY <2>1 DEF Calls, RequestCalls
  <2> QED BY <2>2, JobForms DEF CallsOf, PendingAt
<1>4. rqOf \in Injection(calls, Users(s)) /\ rqOf \in Surjection(calls, Users(s))
  <2>1. rqOf \in [calls -> Users(s)]
    BY <1>2
  <2>2. ASSUME NEW i \in calls, NEW j \in calls, rqOf[i] = rqOf[j] PROVE i = j
    BY <1>2, <2>2
  <2> QED BY <1>3, <2>1, <2>2 DEF Injection, IsInjective, Surjection
<1> HIDE DEF rqOf, calls
<1>5. Cardinality(calls) = Cardinality(Users(s))
  BY <1>4, UsersFinite, FS_Injection
<1> QED BY <1>5 DEF calls

(***************************************************************************)
(* No job ever finds its source freed, and a source is closed only when no *)
(* call of it is left to run.                                              *)
(***************************************************************************)
THEOREM RefsBalance == Spec => []SourceRefsBalance
<1>1. ASSUME IInv PROVE SourceRefsBalance
  <2> SUFFICES ASSUME NEW s \in Sources
               PROVE  LET calls  == {j \in PendingAt(s) : j.type # "close"}
                          closes == PendingAt(s) \ calls
                          users  == {r \in Requests : at[r] = s}
                      IN  /\ srcRef[s].strong = (IF slRef > 0 \/ s \in Range(closing) THEN 1 ELSE 0)
                                                   + Cardinality(users) + Cardinality(calls)
                          /\ srcRef[s].weak = Cardinality(closes)
    BY DEF SourceRefsBalance
  <2> DEFINE calls  == {j \in PendingAt(s) : j.type # "close"}
             closes == PendingAt(s) \ calls
  <2>1. Parts /\ Sending /\ Calls /\ SourceCounts
    BY <1>1 DEF IInv, Counted
  <2>2. Cardinality(calls) = Cardinality(Users(s))
    BY <2>1, OneCallEach
  <2>3. Pending \subseteq Jobs /\ CloseJob(s) # None
    BY <2>1, Answered, JobTypes, MessageAssumption DEF Pending, Parts, MainOK
  <2>4. closes = IF CloseJob(s) \in offered \ Range(delivered) THEN {CloseJob(s)} ELSE {}
    <3>1. \A j \in closes : j = CloseJob(s) /\ j \in offered \ Range(delivered)
      BY <2>1, <2>3, JobKinds DEF PendingAt, Pending, Calls, TodoFresh
    <3>2. CloseJob(s) \in offered \ Range(delivered) => CloseJob(s) \in closes
      BY <2>3, JobForms DEF PendingAt, Pending
    <3> QED BY <3>1, <3>2
  <2>5. Cardinality(closes) = IF CloseJob(s) \in offered \ Range(delivered) THEN 1 ELSE 0
    BY <2>4, FS_EmptySet, FS_Singleton
  <2> QED BY <2>1, <2>2, <2>5 DEF SourceCounts, ListHolds, Users
<1> QED BY Invariance, <1>1, PTL

(***************************************************************************)
(* No job is lost in the quit.                                             *)
(***************************************************************************)
THEOREM NothingIsLost == Spec => []NoJobLost
<1>1. IInv => NoJobLost
  BY DEF IInv, Ends
<1> QED BY Invariance, <1>1, PTL

(***************************************************************************)
(* The pool is freed when nothing can touch it again.                      *)
(***************************************************************************)
THEOREM FreedComesLast == Spec => []FreedLast
<1>1. ASSUME IInv, stage = "freed"
      PROVE  /\ \A w \in Workers : pc[w] = "exited"
             /\ jobs = <<>> /\ todo = None /\ closing = <<>>
             /\ answers = <<>> /\ batch = <<>> /\ ringer = None
             /\ \A s \in Sources : Freed(srcRef[s])
  <2>1. QuitsLast
    BY <1>1 DEF IInv, Ends
  <2>2. AQuit \in Range(sent) /\ sqRef.strong = 0
    BY <1>1, <2>1 DEF QuitsLast
  <2> QED BY <1>1, <2>1, <2>2, AllServed DEF QuitsLast, IInv
<1>2. IInv => FreedLast
  BY <1>1 DEF FreedLast
<1> QED BY Invariance, <1>2, PTL

-----------------------------------------------------------------------------
(* The pool is a job service *)

\* Nothing is asked of a source that has no user, and what is left to answer of
\* a source are the calls of its users.
LEMMA CallsNeedTheList ==
  ASSUME Parts, Sending, Calls, Counted, NEW j \in Pending, j.type # "close"
  PROVE  slRef > 0
<1>1. j \in Jobs /\ j.rq \in Requests
  BY Answered, JobKinds DEF Pending, Parts, MainOK
<1>2. j \in Ever /\ j \in CallsOf(j.rq)
  BY <1>1 DEF Ever, CallsOf, Pending
<1>3. j.rq \in Active
  BY <1>1, <1>2 DEF Calls, RequestCalls, Active, Parts, MainOK
<1>4. Cardinality(Active) \in Nat /\ Cardinality(Active) # 0
  BY <1>3, UsersFinite, FS_EmptySet
<1> QED BY <1>4 DEF Counted, ListCount, Parts, MainOK

accepted == offered \ refused
executed == Range(sent) \ {AQuit}
answered == Range(delivered) \ {AQuit}

LEMMA ServiceStep == IInv /\ [Next]_vars => [JS!Next]_(JS!vars)
<1> SUFFICES ASSUME IInv, [Next]_vars PROVE JS!Next \/ UNCHANGED JS!vars
  OBVIOUS
<1> DEFINE open == stage # "freed"
<1>a. /\ refused = {} /\ refused' = {} /\ accepted = offered /\ accepted' = offered'
      /\ Range(delivered) \subseteq done \cup {AQuit} /\ done \subseteq offered
      /\ offered \subseteq Jobs /\ AQuit \notin Jobs
      /\ None \notin Jobs /\ todo \in Jobs \cup {None} /\ closing \in Seq(Sources)
  BY Inductive, Answered, MessageAssumption
     DEF IInv, Ends, NoJobLost, accepted, Parts, MainOK
<1>b. UNCHANGED <<accepted, executed, answered, open>> => UNCHANGED JS!vars
  BY DEF JS!vars, accepted, executed, answered
<1>c. ASSUME NEW j \in Jobs, open, open' = open,
             offered' = offered \cup {j}, j \notin offered, UNCHANGED <<sent, delivered>>,
             \A k \in offered : k.src = j.src => k.type # "close",
             j.type = "close" => \A k \in offered : k.src = j.src => k \in Range(delivered)
      PROVE  JS!Next
  <2>1. UNCHANGED <<executed, answered>>
    BY <1>c DEF executed, answered
  <2>2. JS!Accept(j)
    BY <1>a, <1>c, <2>1 DEF JS!Accept, JS!Siblings, JS!Closes, JobSource, JobIsClose, accepted, executed, answered
  <2> QED BY <2>2 DEF JS!Next
<1>1. CASE AddQ
  <2>1. /\ todo # None /\ todo \in Jobs /\ offered' = offered \cup {todo}
        /\ todo \notin offered /\ UNCHANGED <<sent, delivered, stage>>
    BY <1>1, <1>a DEF AddQ, WQ!SendWork, edVars
  <2>2. todo \in Pending /\ todo.type # "close"
    BY <1>a, <2>1, JobKinds DEF Pending, IInv, Calls, TodoFresh
  <2>3. slRef > 0
    BY <2>2, CallsNeedTheList DEF IInv
  <2>4. \A k \in offered : k.type # "close"
    BY <1>a, <2>3, JobKinds DEF IInv, Counted, Closes
  <2>5. stage # "freed"
    BY <2>1, AllServed DEF IInv, Ends, QuitsLast
  <2> QED BY <1>c, <2>1, <2>2, <2>4, <2>5
<1>2. CASE CloseSource
  <2>1. closing # <<>> /\ UNCHANGED <<sent, delivered, stage>>
    BY <1>2 DEF CloseSource, edVars
  <2>s. PICK s \in Sources : s = Head(closing)
    BY <1>a, <2>1, HeadTailProperties
  <2>2. s \in Range(closing) /\ slRef = 0
    BY <1>a, <2>1, <2>s, HeadOfRest DEF IInv, Counted, Closes
  <2>3. CloseJob(s) \in Jobs /\ CloseJob(s) \notin offered
    BY <2>2, JobTypes DEF IInv, Counted, Closes
  <2>4. offered' \in {offered, offered \cup {CloseJob(s)}}
    BY <1>2, <2>s DEF CloseSource, WQ!SendWork, wqVars
  <2>5. \A k \in offered : k.src = s => k.type # "close"
    BY <1>a, <2>3, JobKinds
  <2>6. \A k \in offered : k.src = s => k \in Range(delivered)
    BY <1>a, <2>2, <2>5, CallsNeedTheList DEF Pending, IInv
  <2>7. stage # "freed"
    BY <2>1, AllServed DEF IInv, Ends, QuitsLast
  <2>8. CASE offered' = offered
    BY <1>a, <1>b, <2>1, <2>8 DEF executed, answered
  <2> QED BY <1>c, <2>1, <2>3, <2>4, <2>5, <2>6, <2>7, <2>8, JobForms
<1>3. ASSUME NEW w \in Workers, RunJob(w) PROVE JS!Next
  <2>1. /\ got[w] \in Jobs /\ got[w] \notin Range(sent) /\ sent' = Append(sent, got[w])
        /\ pc[w] = "run" /\ UNCHANGED <<offered, refused, delivered, stage>>
    BY <1>3, GotType DEF RunJob, ED!Send, ED!Range, Range, IInv, Parts, wqVars, mainVars
  <2>2. Range(sent') = Range(sent) \cup {got[w]}
    <3>1. sent \in Seq(Jobs \cup {AQuit}) /\ got[w] \in Jobs \cup {AQuit}
      BY <2>1 DEF IInv, Parts, EDP!IInv, EDP!TypeOK
    <3> QED BY <2>1, <3>1, Appended
  <2>3. got[w] \in offered
    <3>1. got[w] \in WQP!Held
      BY <1>a, <2>1 DEF WQP!Held
    <3> QED BY <3>1 DEF IInv, Parts, WQP!IInv, WQP!InOnePlace
  <2>4. stage # "freed"
    BY <2>1 DEF IInv, Ends, QuitsLast
  <2>5. /\ got[w] \in accepted \ executed /\ executed' = executed \cup {got[w]}
        /\ UNCHANGED <<accepted, answered>>
    BY <1>a, <2>1, <2>2, <2>3 DEF executed, answered
  <2> QED BY <2>1, <2>4, <2>5 DEF JS!Next, JS!Execute, accepted, executed, answered
<1>4. ASSUME InConsume, batch # <<>>, Head(batch) # AQuit, ED!Deliver,
             stage' # "freed", UNCHANGED wqVars
      PROVE  JS!Next
  <2>1. /\ Range(delivered') = Range(delivered) \cup {Head(batch)} /\ UNCHANGED <<sent, offered, refused>>
        /\ Head(batch) \notin Range(delivered) /\ Head(batch) \in Range(sent)
        /\ Head(batch) \in Jobs
    BY <1>4, <1>a, Delivers, Answered DEF IInv, wqVars
  <2>2. stage # "freed"
    BY <1>4 DEF InConsume, AtRest
  <2>3. /\ Head(batch) \in executed \ answered /\ answered' = answered \cup {Head(batch)}
        /\ UNCHANGED <<accepted, executed>>
    BY <1>4, <2>1 DEF accepted, executed, answered
  <2> QED BY <1>4, <2>1, <2>2, <2>3 DEF JS!Next, JS!Answer, accepted, executed, answered
<1>5. ASSUME NEW r \in Requests, NEW s \in Sources, AnswerRead(r, s) \/ AnswerWrite(r, s)
      PROVE  JS!Next
  <2>1. Head(batch) \in {ReadJob(s, r), WriteJob(s, r)} /\ batch # <<>> /\ InConsume /\ ED!Deliver
        /\ UNCHANGED stage /\ UNCHANGED wqVars
    BY <1>5 DEF AnswerRead, AnswerWrite
  <2>2. Head(batch) # AQuit /\ stage' # "freed"
    BY <1>a, <2>1, JobTypes DEF InConsume, AtRest
  <2> QED BY <1>4, <2>1, <2>2
<1>6. ASSUME NEW s \in Sources, AnswerClose(s) PROVE JS!Next
  <2>1. Head(batch) = CloseJob(s) /\ batch # <<>> /\ InConsume /\ ED!Deliver
        /\ stage' \in {"destroy", "loop"} /\ UNCHANGED wqVars
    BY <1>6 DEF AnswerClose, ReleaseQueue
  <2> QED BY <1>4, <1>a, <2>1, JobTypes
<1>7. CASE AnswerQuit
  <2>1. /\ stage = "loop" /\ Range(delivered') = Range(delivered) \cup {AQuit}
        /\ Head(batch) = AQuit /\ batch # <<>> /\ UNCHANGED <<offered, refused, sent>>
    BY <1>7, Delivers DEF AnswerQuit, InConsume, AtRest, IInv, wqVars
  <2>2. UNCHANGED <<accepted, executed, answered>>
    BY <2>1 DEF accepted, executed, answered
  <2>3. CASE stage' # "freed"
    BY <1>b, <2>1, <2>2, <2>3
  <2>4. CASE stage' = "freed"
    <3>1. sqRef.strong = 0
      BY <2>1, Answered DEF IInv, Ends, QuitsLast
    <3>2. Cardinality(Unclosed) = 0
      BY <3>1, UnclosedFinite DEF IInv, Counted, QueueCount
    <3>3. \A s \in Sources : CloseJob(s) \in Range(delivered)
      BY <3>2, UnclosedFinite, FS_EmptySet DEF Unclosed
    <3>4. \A j \in Jobs : j.type = "close" => j \in answered
      BY <1>a, <3>3, JobKinds DEF answered
    <3>5. ASSUME NEW j \in offered PROVE j \in Range(delivered)
      <4> SUFFICES ASSUME j \notin Range(delivered) PROVE FALSE
        OBVIOUS
      <4>1. j \in Pending /\ j \in Jobs /\ j.type # "close"
        BY <1>a, <3>3, JobKinds DEF Pending
      <4>2. slRef > 0
        BY <4>1, CallsNeedTheList DEF IInv
      <4>3. j.src \in Sources /\ CloseJob(j.src) \in offered
        BY <1>a, <3>3, <4>1, JobKinds, JobTypes
      <4> QED BY <4>2, <4>3 DEF IInv, Counted, Closes
    <3>6. accepted = answered
      BY <1>a, <3>5 DEF answered
    <3> QED BY <2>1, <2>2, <2>4, <3>4, <3>6
            DEF JS!Next, JS!End, JS!Closes, JobIsClose, accepted, executed, answered
  <2> QED BY <2>3, <2>4
<1>8. CASE SendQuit
  <2>1. /\ stage = "join" /\ stage' = "bell" /\ sent' = Append(sent, AQuit)
        /\ UNCHANGED <<offered, refused, delivered>>
    BY <1>8 DEF SendQuit, ED!Send, wqVars
  <2>2. Range(sent') = Range(sent) \cup {AQuit}
    BY <2>1, Appended DEF IInv, Parts, EDP!IInv, EDP!TypeOK
  <2>3. UNCHANGED <<accepted, executed, answered>>
    BY <2>1, <2>2 DEF accepted, executed, answered
  <2> QED BY <1>b, <2>1, <2>3
<1>9. CASE \/ Start \/ (\E r \in Requests, s \in Sources : Read(r, s)) \/ Quit \/ StopWorkers \/ RingQuit
           \/ ResetBell \/ Swap \/ Return \/ UNCHANGED vars
           \/ (\E w \in Workers : GetWork(w) \/ CheckQuit(w) \/ AddA(w) \/ SpuriousWakeup(w))
  <2>1. /\ stage' = "freed" <=> stage = "freed"
        /\ UNCHANGED <<offered, delivered, sent>>
    BY <1>9 DEF Start, ReleaseQueue, Read, Quit, StopWorkers, WQ!SetQuit, RingQuit, ED!RingBell,
                ResetBell, ED!ResetBell, Swap, ED!Swap, Return, ED!Return,
                GetWork, WQ!GetWork, WQ!Resume, WQ!TakeOrWait, CheckQuit, WQ!CheckQuit,
                AddA, WQ!RunJob, SpuriousWakeup, WQ!SpuriousWakeup, vars, wqVars, edVars, mainVars
  <2>2. UNCHANGED <<accepted, executed, answered, open>>
    BY <1>a, <2>1 DEF executed, answered
  <2> QED BY <1>b, <2>2
<1> QED BY <1>1, <1>2, <1>3, <1>5, <1>6, <1>7, <1>8, <1>9 DEF Next, Consume, Worker

(***************************************************************************)
(* The pool implements the service it promises, as far as safety goes: a   *)
(* job is run once and answered once, the close of a source last, and the  *)
(* service ends when every source is closed and nothing is unanswered.     *)
(***************************************************************************)
THEOREM ImplementsServiceSafely == Spec => JS!Init /\ [][JS!Next]_(JS!vars)
<1>1. Init => JS!Init
  <2>1. Range(<<>>) = {}
    BY DEF Range
  <2> QED BY <2>1 DEF Init, WQ!Init, ED!Init, JS!Init
<1> QED BY Invariance, ServiceStep, <1>1, PTL DEF Spec
=============================================================================
