--------------------------- MODULE LifecycleProofs ---------------------------
(***************************************************************************)
(* However the mounts are left and the signals come, what is taken down    *)
(* has no user left, and what is freed is left alone.                      *)
(***************************************************************************)
EXTENDS Lifecycle, FiniteSetTheorems, SequenceTheorems, TLAPS

-----------------------------------------------------------------------------
(* Stacks.  A task keeps its place, the number of tasks below it, while     *)
(* callbacks come and go above it.                                          *)

Deep(t, b) == work[t][Len(work[t]) - b]

InStack(t, b) == b \in Nat /\ b < Len(work[t])

Has(t, b, do, at) == InStack(t, b) /\ Deep(t, b) = [do |-> do, at |-> at]

CallDo == {"release", "quit", "unmount", "join", "swap", "unlink", "exit"}

\* What Main's stack is while it creates an interface
Creating(i) ==
  {Task("acquire", "listMem") \o Task("acquire", "running") \o Task("start", i),
   Task("acquire", "running") \o Task("start", i),
   Task("start", i)}

Signalling == work[Main] = Task("acquire", "icc") \o Task("next", 1) \o Task("arm", Nobody)

Consuming == work[Main] = Task("acquire", "list")

MainStack ==
  CASE phase = "config" ->
         \/ work[Main] = <<>>
         \/ /\ starting = Nobody /\ made < Len(Order)
            /\ work[Main] \in Creating(Order[made + 1])
    [] phase = "loop" ->
         \/ Consuming /\ \E r \in Reads : read[r] = "running"
         \/ Signalling
         \/ \A b \in Nat : InStack(Main, b) => Deep(Main, b).do \in CallDo \cup {"next", "arm"}
    [] OTHER -> work[Main] = <<>>

\* The read that the fuse thread of i is about to send
Asked(i, r) == r \in Reads /\ from[r] = i /\ read[r] = "looked"

FuseStack(i) ==
  CASE pc[i] = "start" -> work[i] \in {Task("acquire", i) \o Task("mount", Nobody),
                                       Task("mount", Nobody)}
    [] pc[i] = "serve" ->
         \/ work[i] \in {<<>>, Task("walk", Nobody)}
         \/ \E r \in Reads : /\ Asked(i, r)
                             /\ work[i] \in {Task("walk", r), Task("send", r),
                                             Task("acquire", i) \o Task("send", r)}
    [] pc[i] = "finish" ->
         /\ work[i] # <<>> /\ Deep(i, 0).do = "gone"
         /\ \A b \in Nat \ {0} : InStack(i, b) => Deep(i, b).do \in CallDo
    [] OTHER -> work[i] = <<>>

\* Interfaces are created in their order.
InOrderMade ==
  /\ starting # Nobody => /\ phase = "config" /\ work[Main] = <<>>
                          /\ made < Len(Order) /\ starting = Order[made + 1]
                          /\ pc[starting] # "unborn"
  /\ \A k \in DOMAIN Order :
       /\ k <= made => pc[Order[k]] \notin {"unborn", "start"}
       /\ k > made /\ starting # Order[k] => pc[Order[k]] = "unborn"
  /\ phase # "config" => made = Len(Order)

QueueOK ==
  /\ \A j, k \in DOMAIN inbox : inbox[j] = inbox[k] => j = k
  /\ \A k \in DOMAIN inbox : read[inbox[k]] = "sent"
  /\ \A r \in Reads : read[r] # "unseen" => from[r] \in Interfaces

-----------------------------------------------------------------------------
(* Who holds references *)

\* The releases under way
Releases(c) == {<<"stack", p[1], p[2]>> :
                  p \in {q \in Threads \X Nat : Has(q[1], q[2], "release", c)}}

\* user_quit's reference to the array, once it has it
Nexts == {<<"stack", p[1], p[2]>> :
            p \in {q \in Threads \X Nat : /\ InStack(q[1], q[2])
                                          /\ Deep(q[1], q[2]).do = "next"
                                          /\ ~Signalling}}

If(cond, what) == IF cond THEN {<<what, Nobody, 0>>} ELSE {}

Serving(i) == pc[i] = "serve" \/ (pc[i] = "start" /\ work[i] = Task("mount", Nobody))

\* A read that has been given its interface
Underway(r) ==
  \/ read[r] \in {"sent", "running"}
  \/ read[r] = "looked" /\ work[from[r]] = Task("send", r)

Readers(i) == {<<"read", r, 0>> : r \in {q \in Reads : from[q] = i /\ Underway(q)}}

Running == {<<"read", r, 0>> : r \in {q \in Reads : read[q] = "running"}}

ListCounter == IF count["list"] > 0 THEN "list" ELSE "listMem"

\* The users of the list, whichever count has them
ListUsers(c) == IF c = ListCounter THEN Releases("list") \cup Running ELSE {}

Listing(i) ==
  /\ i \notin shut
  /\ \/ pc[i] # "unborn"
     \/ work[Main] \in {Task("acquire", "running") \o Task("start", i), Task("start", i)}

Active(i) == i \notin quit /\ (pc[i] # "unborn" \/ work[Main] = Task("start", i))

\* What keeps a reference for as long as it lasts
Fixed(c) ==
  CASE c = "icc"     -> If(count["running"] > 0, "own")
    [] c = "running" -> If(phase = "config", "run")
    [] c = "loop"    -> If(count["running"] > 0, "own") \cup If(count["listMem"] > 0, "list")
                        \cup If(pool, "pool")
    [] c = "list"    -> If(count["running"] > 0, "own")
    [] c = "listMem" -> If(count["list"] > 0, "own") \cup If(sources # "closed", "sources")
    [] OTHER         -> If(count["icc"] > 0, "array") \cup If(Serving(c), "thread")

Users(c) ==
  CASE c = "icc"     -> Nexts
    [] c = "running" -> {<<"interface", i, 0>> : i \in {j \in Interfaces : Active(j)}}
    [] c = "loop"    -> {}
    [] c = "list"    -> ListUsers(c)
    [] c = "listMem" -> {<<"interface", i, 0>> : i \in {j \in Interfaces : Listing(j)}}
                        \cup ListUsers(c)
    [] OTHER         -> Readers(c)

Holders(c) == Fixed(c) \cup Users(c) \cup (IF c = "list" THEN {} ELSE Releases(c))

\* if_consume has made a request, which is about to acquire the list.
Debt(c) == IF Consuming /\ c = ListCounter THEN 1 ELSE 0

Enough(c) == IsFiniteSet(Holders(c)) /\ Cardinality(Holders(c)) <= count[c] + Debt(c)

\* The array may be freed under the handler of a signal.
CountsOK ==
  /\ \A c \in Counters : c # "icc" \/ count["icc"] > 0 => Enough(c)
  /\ count["icc"] = 0 => count["running"] = 0 /\ Releases("icc") = {}

-----------------------------------------------------------------------------
(* What is done once *)

QuitOK ==
  \A t \in Threads, b \in Nat, i \in Interfaces : Has(t, b, "quit", i) => pc[i] # "unborn"

JoinOK ==
  \A i \in Interfaces :
    /\ i \in shut => count[i] = 0
    /\ \A t \in Threads, b \in Nat : Has(t, b, "join", i) =>
         /\ count[i] = 0 /\ i \notin shut
         /\ \A u \in Threads, d \in Nat : Has(u, d, "join", i) => u = t /\ d = b

SwapOK ==
  /\ \A t \in Threads, b \in Nat : Has(t, b, "swap", Nobody) =>
       /\ b > 0 /\ Has(t, b - 1, "release", "icc")
       /\ listed /\ count["running"] = 0
       /\ \A u \in Threads, d \in Nat : Has(u, d, "swap", Nobody) => u = t /\ d = b
  /\ listed => \/ count["running"] > 0
               \/ \E t \in Threads, b \in Nat : Has(t, b, "swap", Nobody)
  /\ count["running"] > 0 => listed
  /\ ender # Nobody => ~listed

SignalOK ==
  LET ByInterface == ender \in Interfaces
  IN /\ Signalling => listed \/ ByInterface
     /\ \A t \in Threads, b \in Nat :
          InStack(t, b) /\ Deep(t, b).do = "next" /\ count["icc"] = 0 => ByInterface
     /\ "icc" \in astray => ByInterface

UnlinkOK ==
  /\ sources # "open" => count["list"] = 0
  /\ \A t \in Threads, b \in Nat : Has(t, b, "unlink", Nobody) =>
       /\ sources = "open" /\ count["list"] = 0
       /\ \A u \in Threads, d \in Nat : Has(u, d, "unlink", Nobody) => u = t /\ d = b

ExitOK ==
  /\ exit => count["loop"] = 0
  /\ \A t \in Threads, b \in Nat : Has(t, b, "exit", Nobody) => count["loop"] = 0
  /\ phase = "over" => exit

AstrayOK == astray \subseteq {"icc", "list", "stats"}

Steady ==
  /\ MainStack
  /\ \A i \in Interfaces : FuseStack(i)
  /\ InOrderMade /\ QueueOK /\ CountsOK
  /\ QuitOK /\ JoinOK /\ SwapOK /\ SignalOK /\ UnlinkOK /\ ExitOK /\ AstrayOK

IInv == LifeTypeOK /\ (Orderly => Steady)

-----------------------------------------------------------------------------
(* Sequences of tasks *)

LEMMA OrderIs ==
  /\ DOMAIN Order = 1..Len(Order) /\ Len(Order) \in Nat
  /\ \A k \in 1..Len(Order) : Order[k] \in Interfaces
  /\ \A i \in Interfaces : \E k \in 1..Len(Order) : i = Order[k]
<1>1. Order \in Seq(Interfaces)  BY NamesAreApart
<1> QED  BY <1>1 DEF Interfaces

LEMMA OneTask ==
  ASSUME NEW do, NEW at
  PROVE  /\ Task(do, at) = <<[do |-> do, at |-> at]>>
         /\ Len(Task(do, at)) = 1 /\ Task(do, at)[1] = [do |-> do, at |-> at]
         /\ Task(do, at) # <<>>
  BY DEF Task

LEMMA OneAndOne ==
  ASSUME NEW x, NEW y
  PROVE  <<x>> \o <<y>> = <<x, y>>
<1> DEFINE S == {x, y}
           s == <<x>> \o <<y>>
           u == <<x, y>>
<1>1. <<x>> \in Seq(S) /\ <<y>> \in Seq(S) /\ u \in Seq(S)  OBVIOUS
<1>2. /\ s \in Seq(S) /\ Len(s) = Len(<<x>>) + Len(<<y>>)
      /\ \A i \in 1..Len(<<x>>) + Len(<<y>>) :
           s[i] = IF i <= Len(<<x>>) THEN <<x>>[i] ELSE <<y>>[i - Len(<<x>>)]
  BY <1>1, ConcatProperties
<1>3. Len(s) = 2 /\ s[1] = x /\ s[2] = y
  BY <1>2
<1>4. Len(u) = 2 /\ u[1] = x /\ u[2] = y
  OBVIOUS
<1> HIDE DEF s, u
<1>5. Len(s) = Len(u) /\ \A i \in 1..Len(s) : s[i] = u[i]  BY <1>3, <1>4
<1>6. s = u  BY <1>1, <1>2, <1>5, SeqEqual
<1> QED  BY <1>6 DEF s, u

LEMMA TwoAndOne ==
  ASSUME NEW x, NEW y, NEW z
  PROVE  <<x, y>> \o <<z>> = <<x, y, z>>
<1> DEFINE S == {x, y, z}
           s == <<x, y>> \o <<z>>
           u == <<x, y, z>>
<1>1. <<x, y>> \in Seq(S) /\ <<z>> \in Seq(S) /\ u \in Seq(S)  OBVIOUS
<1>2. /\ s \in Seq(S) /\ Len(s) = Len(<<x, y>>) + Len(<<z>>)
      /\ \A i \in 1..Len(<<x, y>>) + Len(<<z>>) :
           s[i] = IF i <= Len(<<x, y>>) THEN <<x, y>>[i] ELSE <<z>>[i - Len(<<x, y>>)]
  BY <1>1, ConcatProperties
<1>3. Len(s) = 3 /\ s[1] = x /\ s[2] = y /\ s[3] = z
  BY <1>2
<1>4. Len(u) = 3 /\ u[1] = x /\ u[2] = y /\ u[3] = z
  OBVIOUS
<1> HIDE DEF s, u
<1>5. Len(s) = Len(u) /\ \A i \in 1..Len(s) : s[i] = u[i]  BY <1>3, <1>4
<1>6. s = u  BY <1>1, <1>2, <1>5, SeqEqual
<1> QED  BY <1>6 DEF s, u

LEMMA ThreeAndOne ==
  ASSUME NEW x, NEW y, NEW z, NEW w
  PROVE  <<x, y, z>> \o <<w>> = <<x, y, z, w>>
<1> DEFINE S == {x, y, z, w}
           s == <<x, y, z>> \o <<w>>
           u == <<x, y, z, w>>
<1>1. <<x, y, z>> \in Seq(S) /\ <<w>> \in Seq(S) /\ u \in Seq(S)  OBVIOUS
<1>2. /\ s \in Seq(S) /\ Len(s) = Len(<<x, y, z>>) + Len(<<w>>)
      /\ \A i \in 1..Len(<<x, y, z>>) + Len(<<w>>) :
           s[i] = IF i <= Len(<<x, y, z>>) THEN <<x, y, z>>[i] ELSE <<w>>[i - Len(<<x, y, z>>)]
  BY <1>1, ConcatProperties
<1>3. Len(s) = 4 /\ s[1] = x /\ s[2] = y /\ s[3] = z /\ s[4] = w
  BY <1>2
<1>4. Len(u) = 4 /\ u[1] = x /\ u[2] = y /\ u[3] = z /\ u[4] = w
  OBVIOUS
<1> HIDE DEF s, u
<1>5. Len(s) = Len(u) /\ \A i \in 1..Len(s) : s[i] = u[i]  BY <1>3, <1>4
<1>6. s = u  BY <1>1, <1>2, <1>5, SeqEqual
<1> QED  BY <1>6 DEF s, u

LEMMA TwoTasks ==
  ASSUME NEW d1, NEW a1, NEW d2, NEW a2
  PROVE  Task(d1, a1) \o Task(d2, a2) = <<[do |-> d1, at |-> a1], [do |-> d2, at |-> a2]>>
  BY OneAndOne DEF Task

LEMMA ThreeTasks ==
  ASSUME NEW d1, NEW a1, NEW d2, NEW a2, NEW d3, NEW a3
  PROVE  Task(d1, a1) \o Task(d2, a2) \o Task(d3, a3) =
           <<[do |-> d1, at |-> a1], [do |-> d2, at |-> a2], [do |-> d3, at |-> a3]>>
<1>1. Task(d1, a1) \o Task(d2, a2) = <<[do |-> d1, at |-> a1], [do |-> d2, at |-> a2]>>
  BY TwoTasks
<1> QED  BY <1>1, TwoAndOne DEF Task

LEMMA FourTasks ==
  ASSUME NEW d1, NEW a1, NEW d2, NEW a2, NEW d3, NEW a3, NEW d4, NEW a4
  PROVE  Task(d1, a1) \o Task(d2, a2) \o Task(d3, a3) \o Task(d4, a4) =
           <<[do |-> d1, at |-> a1], [do |-> d2, at |-> a2],
             [do |-> d3, at |-> a3], [do |-> d4, at |-> a4]>>
<1>1. Task(d1, a1) \o Task(d2, a2) = <<[do |-> d1, at |-> a1], [do |-> d2, at |-> a2]>>
  BY TwoTasks
<1> DEFINE x == [do |-> d1, at |-> a1]
           y == [do |-> d2, at |-> a2]
           z == [do |-> d3, at |-> a3]
           w == [do |-> d4, at |-> a4]
<1>2. Task(d3, a3) = <<z>> /\ Task(d4, a4) = <<w>>  BY DEF Task
<1>3. Task(d1, a1) \o Task(d2, a2) = <<x, y>>  BY <1>1
<1> HIDE DEF x, y, z, w
<1>4. <<x, y>> \o <<z>> = <<x, y, z>>  BY TwoAndOne
<1>5. <<x, y, z>> \o <<w>> = <<x, y, z, w>>  BY ThreeAndOne
<1>6. Task(d1, a1) \o Task(d2, a2) \o Task(d3, a3) \o Task(d4, a4) = <<x, y, z, w>>
  BY <1>2, <1>3, <1>4, <1>5
<1> QED  BY <1>6 DEF x, y, z, w

-----------------------------------------------------------------------------
(* A step leaves the lowest n tasks of t's stack and puts tasks on them.     *)

Pushed(t, n, tasks) ==
  /\ n \in Nat /\ n <= Len(work[t])
  /\ tasks \in Seq(Tasks)
  /\ work' \in [Threads -> Seq(Tasks)]
  /\ \A u \in Threads \ {t} : work'[u] = work[u]
  /\ Len(work'[t]) = n + Len(tasks)
  /\ \A b \in Nat : b < n => Deep(t, b)' = Deep(t, b)
  /\ \A b \in Nat : n <= b /\ b < n + Len(tasks) => Deep(t, b)' = tasks[n + Len(tasks) - b]

LEMMA CallPushes ==
  ASSUME work \in [Threads -> Seq(Tasks)], NEW t \in Threads, work[t] # <<>>,
         NEW tasks \in Seq(Tasks), Call(t, tasks)
  PROVE  /\ Pushed(t, Len(work[t]) - 1, tasks)
         /\ InStack(t, Len(work[t]) - 1)
         /\ Deep(t, Len(work[t]) - 1) = Head(work[t])
<1> DEFINE s == work[t]
<1>1. s \in Seq(Tasks) /\ s # <<>>  OBVIOUS
<1>2. /\ Len(s) \in Nat /\ Len(s) > 0 /\ Tail(s) \in Seq(Tasks) /\ Len(Tail(s)) = Len(s) - 1
      /\ Head(s) = s[1] /\ \A k \in 1..Len(s) - 1 : Tail(s)[k] = s[k + 1]
  BY <1>1
<1>3. work' = [work EXCEPT ![t] = tasks \o Tail(s)]  BY DEF Call
<1>4. work'[t] = tasks \o Tail(s) /\ \A u \in Threads \ {t} : work'[u] = work[u]  BY <1>3
<1>5. tasks \o Tail(s) \in Seq(Tasks)  BY <1>2
<1>6. work' \in [Threads -> Seq(Tasks)]  BY <1>3, <1>5
<1>7. /\ Len(work'[t]) = Len(tasks) + Len(s) - 1
      /\ Len(tasks) \in Nat
      /\ \A k \in 1..Len(tasks) : work'[t][k] = tasks[k]
      /\ \A k \in Len(tasks) + 1..Len(tasks) + Len(s) - 1 : work'[t][k] = Tail(s)[k - Len(tasks)]
  BY <1>2, <1>4
<1>8. \A b \in Nat : b < Len(s) - 1 => Deep(t, b)' = Deep(t, b)
  <2> SUFFICES ASSUME NEW b \in Nat, b < Len(s) - 1 PROVE Deep(t, b)' = Deep(t, b)  OBVIOUS
  <2> DEFINE k == Len(tasks) + Len(s) - 1 - b
  <2>1. k \in Len(tasks) + 1..Len(tasks) + Len(s) - 1  BY <1>2, <1>7
  <2>2. work'[t][k] = Tail(s)[k - Len(tasks)]  BY <1>7, <2>1
  <2>3. k - Len(tasks) = Len(s) - 1 - b /\ Len(s) - 1 - b \in 1..Len(s) - 1  BY <1>2, <1>7
  <2>4. Tail(s)[Len(s) - 1 - b] = s[Len(s) - 1 - b + 1]  BY <1>2, <2>3
  <2>5. Len(s) - 1 - b + 1 = Len(s) - b  BY <1>2
  <2> QED  BY <1>7, <2>2, <2>3, <2>4, <2>5 DEF Deep
<1>9. \A b \in Nat : Len(s) - 1 <= b /\ b < Len(s) - 1 + Len(tasks) =>
        Deep(t, b)' = tasks[Len(s) - 1 + Len(tasks) - b]
  <2> SUFFICES ASSUME NEW b \in Nat, Len(s) - 1 <= b, b < Len(s) - 1 + Len(tasks)
               PROVE  Deep(t, b)' = tasks[Len(s) - 1 + Len(tasks) - b]  OBVIOUS
  <2>1. /\ Len(work'[t]) - b = Len(s) - 1 + Len(tasks) - b
        /\ Len(s) - 1 + Len(tasks) - b \in 1..Len(tasks)
    BY <1>2, <1>7
  <2> QED  BY <1>7, <2>1 DEF Deep
<1>10. Len(s) - (Len(s) - 1) = 1  BY <1>2
<1>11. Len(work'[t]) = (Len(s) - 1) + Len(tasks)  BY <1>2, <1>7
<1>12. Len(s) - 1 \in Nat /\ Len(s) - 1 <= Len(s)  BY <1>2
<1>13. Pushed(t, Len(s) - 1, tasks)
  BY <1>4, <1>6, <1>8, <1>9, <1>11, <1>12 DEF Pushed
<1>14. InStack(t, Len(s) - 1)  BY <1>2 DEF InStack
<1>15. Deep(t, Len(s) - 1) = Head(s)  BY <1>2, <1>10 DEF Deep
<1> QED  BY <1>13, <1>14, <1>15

LEMMA HandlePushes ==
  ASSUME work \in [Threads -> Seq(Tasks)], NEW t \in Threads, work[t] = <<>>,
         NEW tasks \in Seq(Tasks), work' = [work EXCEPT ![t] = tasks]
  PROVE  Pushed(t, 0, tasks)
<1>1. work'[t] = tasks /\ \A u \in Threads \ {t} : work'[u] = work[u]  OBVIOUS
<1>2. work' \in [Threads -> Seq(Tasks)]  OBVIOUS
<1>3. Len(tasks) \in Nat /\ Len(work[t]) = 0  OBVIOUS
<1>4. \A b \in Nat : 0 <= b /\ b < 0 + Len(tasks) => Deep(t, b)' = tasks[0 + Len(tasks) - b]
  <2> SUFFICES ASSUME NEW b \in Nat, b < Len(tasks) PROVE Deep(t, b)' = tasks[0 + Len(tasks) - b]
    BY <1>3
  <2>1. Len(work'[t]) - b = 0 + Len(tasks) - b  BY <1>1, <1>3
  <2> QED  BY <1>1, <2>1 DEF Deep
<1> QED  BY <1>1, <1>2, <1>3, <1>4 DEF Pushed

\* Where a task is after a step, and where it was
LEMMA HasAfter ==
  ASSUME NEW t \in Threads, NEW n, NEW tasks, Pushed(t, n, tasks),
         NEW u \in Threads, NEW b \in Nat, NEW do, NEW at
  PROVE  Has(u, b, do, at)' <=>
           \/ (u # t \/ b < n) /\ Has(u, b, do, at)
           \/ /\ u = t
              /\ \E j \in 1..Len(tasks) : /\ b = n + Len(tasks) - j
                                          /\ tasks[j] = [do |-> do, at |-> at]
<1>1. CASE u # t
  BY <1>1 DEF Pushed, Has, InStack, Deep
<1>2. CASE u = t /\ b < n
  <2>1. InStack(u, b) /\ InStack(u, b)'  BY <1>2 DEF Pushed, InStack
  <2>2. Deep(u, b)' = Deep(u, b)  BY <1>2 DEF Pushed
  <2>3. ~\E j \in 1..Len(tasks) : b = n + Len(tasks) - j  BY <1>2 DEF Pushed
  <2> QED  BY <1>2, <2>1, <2>2, <2>3 DEF Has
<1>3. CASE u = t /\ b >= n
  <2>1. Len(tasks) \in Nat /\ n \in Nat  BY DEF Pushed
  <2>2. CASE b < n + Len(tasks)
    <3> DEFINE j == n + Len(tasks) - b
    <3>1. j \in 1..Len(tasks) /\ n + Len(tasks) - j = b  BY <1>3, <2>1, <2>2
    <3>2. Deep(u, b)' = tasks[j]  BY <1>3, <2>1, <2>2 DEF Pushed
    <3>3. InStack(u, b)'  BY <1>3, <2>2 DEF Pushed, InStack
    <3>4. \A k \in 1..Len(tasks) : b = n + Len(tasks) - k => k = j  BY <2>1
    <3> HIDE DEF j
    <3> QED  BY <1>3, <2>1, <3>1, <3>2, <3>3, <3>4 DEF Has
  <2>3. CASE b >= n + Len(tasks)
    <3>1. ~InStack(u, b)'  BY <1>3, <2>1, <2>3 DEF Pushed, InStack
    <3>2. ~\E j \in 1..Len(tasks) : b = n + Len(tasks) - j  BY <2>1, <2>3
    <3> QED  BY <1>3, <2>1, <3>1, <3>2 DEF Has
  <2> QED  BY <2>1, <2>2, <2>3
<1> QED  BY <1>1, <1>2, <1>3 DEF Pushed
-----------------------------------------------------------------------------
(* Counting *)

LEMMA NotMore ==
  ASSUME NEW S, IsFiniteSet(S), NEW T, T \subseteq S
  PROVE  IsFiniteSet(T) /\ Cardinality(T) <= Cardinality(S)
  BY FS_Subset

LEMMA OneMore ==
  ASSUME NEW S, IsFiniteSet(S), NEW y, NEW T, T \subseteq S \cup {y}
  PROVE  IsFiniteSet(T) /\ Cardinality(T) <= Cardinality(S) + 1
<1>1. IsFiniteSet(S \cup {y}) /\ Cardinality(S \cup {y}) <= Cardinality(S) + 1
      /\ Cardinality(S) \in Nat /\ Cardinality(S \cup {y}) \in Nat
  BY FS_AddElement, FS_CardinalityType
<1>2. IsFiniteSet(T) /\ Cardinality(T) <= Cardinality(S \cup {y})  BY <1>1, FS_Subset
<1>3. Cardinality(T) \in Nat  BY <1>2, FS_CardinalityType
<1> QED  BY <1>1, <1>2, <1>3

LEMMA OneLess ==
  ASSUME NEW S, IsFiniteSet(S), NEW x \in S, NEW T, T \subseteq S \ {x}
  PROVE  IsFiniteSet(T) /\ Cardinality(T) <= Cardinality(S) - 1 /\ Cardinality(S) > 0
<1>1. IsFiniteSet(S \ {x}) /\ Cardinality(S \ {x}) = Cardinality(S) - 1
      /\ Cardinality(S) \in Nat /\ Cardinality(S \ {x}) \in Nat
  BY FS_RemoveElement, FS_CardinalityType
<1>2. IsFiniteSet(T) /\ Cardinality(T) <= Cardinality(S \ {x})  BY <1>1, FS_Subset
<1>3. Cardinality(T) \in Nat  BY <1>2, FS_CardinalityType
<1> QED  BY <1>1, <1>2, <1>3

LEMMA OneForOne ==
  ASSUME NEW S, IsFiniteSet(S), NEW x \in S, NEW y, NEW T, T \subseteq (S \ {x}) \cup {y}
  PROVE  IsFiniteSet(T) /\ Cardinality(T) <= Cardinality(S)
<1>1. IsFiniteSet(S \ {x}) /\ Cardinality(S \ {x}) = Cardinality(S) - 1
      /\ Cardinality(S) \in Nat /\ Cardinality(S \ {x}) \in Nat
  BY FS_RemoveElement, FS_CardinalityType
<1>2. IsFiniteSet(T) /\ Cardinality(T) <= Cardinality(S \ {x}) + 1  BY <1>1, OneMore
<1>3. Cardinality(T) \in Nat  BY <1>2, FS_CardinalityType
<1> QED  BY <1>1, <1>2, <1>3

LEMMA OneHolder ==
  ASSUME NEW S, IsFiniteSet(S), NEW x \in S
  PROVE  /\ Cardinality(S) \in Nat /\ Cardinality(S) >= 1
         /\ \A y \in S : y # x => Cardinality(S) >= 2
         /\ \A y, z \in S : y # x /\ z # x /\ y # z => Cardinality(S) >= 3
<1>1. \A R : IsFiniteSet(R) => Cardinality(R) \in Nat  BY FS_CardinalityType
<1>2. \A R, w : IsFiniteSet(R) /\ w \in R =>
        IsFiniteSet(R \ {w}) /\ Cardinality(R \ {w}) <= Cardinality(R) - 1 /\ Cardinality(R) > 0
  <2> SUFFICES ASSUME NEW R, NEW w \in R, IsFiniteSet(R)
               PROVE  /\ IsFiniteSet(R \ {w}) /\ Cardinality(R \ {w}) <= Cardinality(R) - 1
                      /\ Cardinality(R) > 0
    OBVIOUS
  <2> QED  BY OneLess
<1>3. \A R, w, v : IsFiniteSet(R) /\ w \in R /\ v \in R /\ v # w => Cardinality(R) >= 2
  <2> SUFFICES ASSUME NEW R, NEW w \in R, NEW v \in R, IsFiniteSet(R), v # w
               PROVE  Cardinality(R) >= 2
    OBVIOUS
  <2> DEFINE Q == R \ {w}
  <2>1. IsFiniteSet(Q) /\ Cardinality(Q) <= Cardinality(R) - 1  BY <1>2
  <2>2. v \in Q  OBVIOUS
  <2> HIDE DEF Q
  <2>3. Cardinality(Q) > 0  BY <1>2, <2>1, <2>2
  <2> QED  BY <1>1, <2>1, <2>3
<1>4. \A y, z \in S : y # x /\ z # x /\ y # z => Cardinality(S) >= 3
  <2> SUFFICES ASSUME NEW y \in S, NEW z \in S, y # x, z # x, y # z PROVE Cardinality(S) >= 3
    OBVIOUS
  <2> DEFINE Q == S \ {x}
  <2>1. IsFiniteSet(Q) /\ Cardinality(Q) <= Cardinality(S) - 1  BY <1>2
  <2>2. y \in Q /\ z \in Q  OBVIOUS
  <2> HIDE DEF Q
  <2>3. Cardinality(Q) >= 2  BY <1>3, <2>1, <2>2
  <2> QED  BY <1>1, <2>1, <2>3
<1>5. Cardinality(S) \in Nat /\ Cardinality(S) > 0  BY <1>1, <1>2
<1> QED  BY <1>3, <1>4, <1>5

-----------------------------------------------------------------------------
(* Holders *)

St(t, b) == <<"stack", t, b>>

LEMMA Tokens ==
  /\ \A t, b, u, d : St(t, b) = St(u, d) <=> t = u /\ b = d
  /\ \A t, b, x, k : St(t, b) # <<"read", x, k>> /\ St(t, b) # <<"interface", x, k>>
  /\ \A t, b, x, k : \A w \in {"own", "run", "list", "pool", "sources", "array", "thread"} :
       /\ St(t, b) # <<w, x, k>>
       /\ <<w, t, b>> # <<"read", x, k>> /\ <<w, t, b>> # <<"interface", x, k>>
       /\ \A v : v # w => <<w, t, b>> # <<v, x, k>>
  /\ \A x, k, y, j : /\ <<"read", x, k>> # <<"interface", y, j>>
                     /\ <<"read", x, k>> = <<"read", y, j>> <=> x = y /\ k = j
                     /\ <<"interface", x, k>> = <<"interface", y, j>> <=> x = y /\ k = j
  BY DEF St

LEMMA ReleasesAre ==
  ASSUME NEW c
  PROVE  /\ \A x : x \in Releases(c) <=>
              \E u \in Threads, b \in Nat : x = St(u, b) /\ Has(u, b, "release", c)
         /\ \A u \in Threads, b \in Nat : St(u, b) \in Releases(c) <=> Has(u, b, "release", c)
<1>1. \A x : x \in Releases(c) <=>
              \E u \in Threads, b \in Nat : x = St(u, b) /\ Has(u, b, "release", c)
  <2> TAKE x
  <2>1. ASSUME x \in Releases(c)
        PROVE  \E u \in Threads, b \in Nat : x = St(u, b) /\ Has(u, b, "release", c)
    <3>1. PICK p \in Threads \X Nat : x = <<"stack", p[1], p[2]>> /\ Has(p[1], p[2], "release", c)
      BY <2>1 DEF Releases
    <3>2. p[1] \in Threads /\ p[2] \in Nat  OBVIOUS
    <3> QED  BY <3>1, <3>2 DEF St
  <2>2. ASSUME NEW u \in Threads, NEW b \in Nat, x = St(u, b), Has(u, b, "release", c)
        PROVE  x \in Releases(c)
    <3>1. <<u, b>> \in Threads \X Nat /\ <<u, b>>[1] = u /\ <<u, b>>[2] = b  OBVIOUS
    <3> QED  BY <2>2, <3>1 DEF Releases, St
  <2> QED  BY <2>1, <2>2
<1> QED  BY <1>1, Tokens

LEMMA ReleasesAfter ==
  ASSUME NEW t \in Threads, NEW n, NEW tasks, Pushed(t, n, tasks), NEW c
  PROVE  Releases(c)' \subseteq
           (Releases(c) \ {St(t, b) : b \in {d \in Nat : d >= n}})
             \cup {St(t, n + Len(tasks) - j) : j \in {k \in 1..Len(tasks) :
                                                       tasks[k] = [do |-> "release", at |-> c]}}
<1> DEFINE Off == {St(t, b) : b \in {d \in Nat : d >= n}}
           On == {St(t, n + Len(tasks) - j) : j \in {k \in 1..Len(tasks) :
                                                       tasks[k] = [do |-> "release", at |-> c]}}
<1> SUFFICES ASSUME NEW x \in Releases(c)' PROVE x \in (Releases(c) \ Off) \cup On
  OBVIOUS
<1>1. PICK u \in Threads, b \in Nat : x = <<"stack", u, b>> /\ Has(u, b, "release", c)'
  BY DEF Releases
<1>2. CASE (u # t \/ b < n) /\ Has(u, b, "release", c)
  <2>1. x \in Releases(c)  BY <1>1, <1>2, ReleasesAre DEF St
  <2>2. n \in Nat  BY DEF Pushed
  <2>3. x \notin Off  BY <1>1, <1>2, <2>2, Tokens DEF St
  <2> QED  BY <2>1, <2>3
<1>3. CASE u = t /\ \E j \in 1..Len(tasks) : /\ b = n + Len(tasks) - j
                                             /\ tasks[j] = [do |-> "release", at |-> c]
  BY <1>1, <1>3 DEF St
<1> QED  BY <1>1, <1>2, <1>3, HasAfter

\* When nothing of the kind is pushed
LEMMA NoNewReleases ==
  ASSUME NEW t \in Threads, NEW n, NEW tasks, Pushed(t, n, tasks), NEW c,
         \A j \in 1..Len(tasks) : tasks[j] # [do |-> "release", at |-> c]
  PROVE  Releases(c)' \subseteq Releases(c) \ {St(t, b) : b \in {d \in Nat : d >= n}}
  BY ReleasesAfter

LEMMA KeepsIcc ==
  ASSUME count'["running"] > 0 => count["running"] > 0,
         Releases("icc")' \subseteq Releases("icc"), Nexts' \subseteq Nexts
  PROVE  Holders("icc")' \subseteq Holders("icc")
  BY DEF Holders, Fixed, Users, If

LEMMA KeepsRunning ==
  ASSUME phase' = "config" => phase = "config",
         Releases("running")' \subseteq Releases("running"),
         \A i \in Interfaces : Active(i)' => Active(i)
  PROVE  Holders("running")' \subseteq Holders("running")
  BY DEF Holders, Fixed, Users, If

LEMMA KeepsLoop ==
  ASSUME count'["running"] > 0 => count["running"] > 0,
         count'["listMem"] > 0 => count["listMem"] > 0, pool' => pool,
         Releases("loop")' \subseteq Releases("loop")
  PROVE  Holders("loop")' \subseteq Holders("loop")
  BY DEF Holders, Fixed, Users, If

LEMMA KeepsList ==
  ASSUME count'["running"] > 0 => count["running"] > 0,
         count'["list"] > 0 <=> count["list"] > 0,
         Releases("list")' \subseteq Releases("list"), Running' \subseteq Running
  PROVE  Holders("list")' \subseteq Holders("list")
<1>1. ListCounter' = ListCounter  BY DEF ListCounter
<1>2. ListUsers("list")' \subseteq ListUsers("list")  BY <1>1 DEF ListUsers
<1> QED  BY <1>2 DEF Holders, Fixed, Users, If

LEMMA KeepsListMem ==
  ASSUME count'["list"] > 0 <=> count["list"] > 0, sources' # "closed" => sources # "closed",
         Releases("list")' \subseteq Releases("list"), Running' \subseteq Running,
         Releases("listMem")' \subseteq Releases("listMem"),
         \A i \in Interfaces : Listing(i)' => Listing(i)
  PROVE  Holders("listMem")' \subseteq Holders("listMem")
<1>1. ListCounter' = ListCounter  BY DEF ListCounter
<1>2. ListUsers("listMem")' \subseteq ListUsers("listMem")  BY <1>1 DEF ListUsers
<1> QED  BY <1>2 DEF Holders, Fixed, Users, If

LEMMA InterfaceIsOther ==
  ASSUME NEW i \in Interfaces
  PROVE  /\ i \notin {"icc", "running", "loop", "list", "listMem"}
         /\ Holders(i) = If(count["icc"] > 0, "array") \cup If(Serving(i), "thread")
                         \cup Readers(i) \cup Releases(i)
<1>1. i \notin {"icc", "running", "loop", "list", "listMem"}  BY NamesAreApart
<1> QED  BY <1>1 DEF Holders, Fixed, Users

LEMMA KeepsInterface ==
  ASSUME NEW i \in Interfaces, count'["icc"] > 0 => count["icc"] > 0,
         Serving(i)' => Serving(i), Readers(i)' \subseteq Readers(i),
         Releases(i)' \subseteq Releases(i)
  PROVE  Holders(i)' \subseteq Holders(i)
<1>1. i \notin {"icc", "running", "loop", "list", "listMem"}  BY NamesAreApart
<1> QED  BY <1>1 DEF Holders, Fixed, Users, If

LEMMA KeepsReaders ==
  ASSUME NEW i,
         \A r \in Reads : Underway(r)' /\ from'[r] = i => Underway(r) /\ from[r] = i
  PROVE  Readers(i)' \subseteq Readers(i)
  BY DEF Readers

LEMMA KeepsRunningReads ==
  ASSUME \A r \in Reads : read'[r] = "running" => read[r] = "running"
  PROVE  Running' \subseteq Running
  BY DEF Running

LEMMA CounterKinds ==
  ASSUME NEW c \in Counters
  PROVE  c \in {"icc", "running", "loop", "list", "listMem"} \/ c \in Interfaces
  BY DEF Counters
-----------------------------------------------------------------------------
(* Tasks and who does them *)

LEMMA TaskTypes ==
  ASSUME NEW x \in Tasks
  PROVE  /\ x = [do |-> x.do, at |-> x.at]
         /\ x.do \in {"acquire", "release", "start", "quit", "unmount", "join", "walk",
                      "send", "next", "mount", "gone", "swap", "unlink", "exit", "arm"}
         /\ x.do \in {"acquire", "release"} => x.at \in Counters
         /\ x.do \in {"start", "quit", "unmount", "join"} => x.at \in Interfaces
         /\ x.do = "walk" => x.at \in Reads \cup {Nobody}
         /\ x.do = "send" => x.at \in Reads
         /\ x.do = "next" => x.at \in 1..Len(Order) + 1
         /\ x.do \in {"mount", "gone", "swap", "unlink", "exit", "arm"} => x.at = Nobody
  BY DEF Tasks

LEMMA TasksAre ==
  /\ \A c \in Counters : /\ [do |-> "acquire", at |-> c] \in Tasks
                         /\ [do |-> "release", at |-> c] \in Tasks
  /\ \A i \in Interfaces : /\ [do |-> "start", at |-> i] \in Tasks
                           /\ [do |-> "quit", at |-> i] \in Tasks
                           /\ [do |-> "unmount", at |-> i] \in Tasks
                           /\ [do |-> "join", at |-> i] \in Tasks
  /\ \A r \in Reads : [do |-> "send", at |-> r] \in Tasks /\ [do |-> "walk", at |-> r] \in Tasks
  /\ \A k \in 1..Len(Order) + 1 : [do |-> "next", at |-> k] \in Tasks
  /\ \A x \in {"walk", "mount", "gone", "swap", "unlink", "exit", "arm"} :
       [do |-> x, at |-> Nobody] \in Tasks
  /\ Interfaces \subseteq Counters
  /\ {"icc", "running", "loop", "list", "listMem"} \subseteq Counters
  BY DEF Tasks, Counters

LEMMA TopIs ==
  ASSUME LifeTypeOK, NEW t \in Threads, work[t] # <<>>
  PROVE  /\ Head(work[t]) \in Tasks /\ Head(work[t]) = work[t][1]
         /\ Len(work[t]) \in Nat /\ Len(work[t]) > 0
         /\ Len(work[t]) - 1 \in Nat /\ InStack(t, Len(work[t]) - 1)
         /\ Deep(t, Len(work[t]) - 1) = Head(work[t])
<1>1. work[t] \in Seq(Tasks)  BY DEF LifeTypeOK
<1>2. Len(work[t]) \in Nat /\ Len(work[t]) > 0 /\ Head(work[t]) = work[t][1]
      /\ Head(work[t]) \in Tasks
  BY <1>1
<1>3. Len(work[t]) - (Len(work[t]) - 1) = 1  BY <1>2
<1> QED  BY <1>2, <1>3 DEF InStack, Deep

LEMMA DueIs ==
  ASSUME LifeTypeOK, NEW t \in Threads, NEW do, Due(t, do)
  PROVE  /\ work[t] # <<>> /\ Len(work[t]) - 1 \in Nat
         /\ Head(work[t]) = [do |-> do, at |-> At(t)]
         /\ work[t][1] = [do |-> do, at |-> At(t)]
         /\ Head(work[t]) \in Tasks
         /\ Has(t, Len(work[t]) - 1, do, At(t))
<1>1. work[t] # <<>> /\ Head(work[t]).do = do  BY DEF Due
<1> QED  BY <1>1, TopIs, TaskTypes DEF At, Has

LEMMA HeadsAre ==
  /\ \A x : Head(<<x>>) = x /\ Len(<<x>>) = 1 /\ <<x>> # <<>>
  /\ \A x, y : Head(<<x, y>>) = x /\ Len(<<x, y>>) = 2 /\ <<x, y>> # <<>>
  /\ \A x, y, z : Head(<<x, y, z>>) = x /\ Len(<<x, y, z>>) = 3 /\ <<x, y, z>> # <<>>
  OBVIOUS

LEMMA ThreadsAre ==
  /\ Main \in Threads /\ Interfaces \subseteq Threads /\ Main \notin Interfaces
  /\ Nobody \notin Interfaces /\ Nobody # Main /\ Nobody \notin Reads
  /\ \A t \in Threads : t # Main => t \in Interfaces
  BY NamesAreApart DEF Threads

\* Where each kind of stack is seen
LEMMA MainDoes ==
  ASSUME LifeTypeOK, MainStack, work[Main] # <<>>
  PROVE  \/ /\ phase = "config" /\ starting = Nobody /\ made < Len(Order)
            /\ \/ work[Main] = Task("acquire", "listMem") \o Task("acquire", "running")
                               \o Task("start", Order[made + 1])
               \/ work[Main] = Task("acquire", "running") \o Task("start", Order[made + 1])
               \/ work[Main] = Task("start", Order[made + 1])
            /\ Head(work[Main]).do \in {"acquire", "start"}
         \/ phase = "loop" /\ Consuming /\ Head(work[Main]).do = "acquire"
            /\ \E r \in Reads : read[r] = "running"
         \/ phase = "loop" /\ Signalling /\ Head(work[Main]).do = "acquire"
         \/ /\ phase = "loop" /\ Head(work[Main]).do \in CallDo \cup {"next", "arm"}
            /\ ~Signalling /\ ~Consuming
            /\ \A b \in Nat : InStack(Main, b) => Deep(Main, b).do \in CallDo \cup {"next", "arm"}
<1>1. phase \in {"config", "loop", "over", "killed"}  BY DEF LifeTypeOK
<1>2. phase \in {"config", "loop"}  BY <1>1 DEF MainStack
<1>3. ASSUME Consuming PROVE Head(work[Main]).do = "acquire"
  <2> DEFINE x == [do |-> "acquire", at |-> "list"]
  <2>1. work[Main] = <<x>>  BY <1>3 DEF Consuming, Task
  <2> HIDE DEF x
  <2>2. Head(work[Main]) = x  BY <2>1, HeadsAre
  <2> QED  BY <2>2 DEF x
<1>4. ASSUME Signalling PROVE Head(work[Main]).do = "acquire"
  <2> DEFINE x == [do |-> "acquire", at |-> "icc"]
             y == [do |-> "next", at |-> 1]
             z == [do |-> "arm", at |-> Nobody]
  <2>1. work[Main] = <<x, y, z>>  BY <1>4, ThreeTasks DEF Signalling
  <2> HIDE DEF x, y, z
  <2>2. Head(work[Main]) = x  BY <2>1, HeadsAre
  <2> QED  BY <2>2 DEF x
<1>5. ASSUME phase = "config"
      PROVE  /\ starting = Nobody /\ made < Len(Order)
             /\ work[Main] \in Creating(Order[made + 1])
             /\ Head(work[Main]).do \in {"acquire", "start"}
  <2>1. starting = Nobody /\ made < Len(Order) /\ work[Main] \in Creating(Order[made + 1])
    BY <1>5 DEF MainStack
  <2> DEFINE i == Order[made + 1]
  <2> HIDE DEF i
  <2>2. /\ Task("acquire", "listMem") \o Task("acquire", "running") \o Task("start", i) =
             <<[do |-> "acquire", at |-> "listMem"], [do |-> "acquire", at |-> "running"],
               [do |-> "start", at |-> i]>>
        /\ Task("acquire", "running") \o Task("start", i) =
             <<[do |-> "acquire", at |-> "running"], [do |-> "start", at |-> i]>>
        /\ Task("start", i) = <<[do |-> "start", at |-> i]>>
    BY ThreeTasks, TwoTasks, OneTask
  <2>3. work[Main] \in Creating(i) => Head(work[Main]).do \in {"acquire", "start"}
    <3> DEFINE x == [do |-> "acquire", at |-> "listMem"]
               y == [do |-> "acquire", at |-> "running"]
               z == [do |-> "start", at |-> i]
    <3>1. x.do = "acquire" /\ y.do = "acquire" /\ z.do = "start"  OBVIOUS
    <3>2. work[Main] \in Creating(i) => work[Main] \in {<<x, y, z>>, <<y, z>>, <<z>>}
      BY <2>2 DEF Creating
    <3> HIDE DEF x, y, z
    <3>3. work[Main] \in Creating(i) => Head(work[Main]) \in {x, y, z}  BY <3>2, HeadsAre
    <3> QED  BY <3>1, <3>3
  <2> QED  BY <2>1, <2>3 DEF i
<1>6. ASSUME \A b \in Nat : InStack(Main, b) => Deep(Main, b).do \in CallDo \cup {"next", "arm"}
      PROVE  Head(work[Main]).do \in CallDo \cup {"next", "arm"}
  BY <1>6, TopIs, ThreadsAre
<1>7. "acquire" \notin CallDo \cup {"next", "arm"}  BY DEF CallDo
<1>8. CASE phase = "config"  BY <1>5, <1>8 DEF Creating
<1>9. CASE phase = "loop"
  BY <1>3, <1>4, <1>6, <1>7, <1>9 DEF MainStack
<1> QED  BY <1>2, <1>8, <1>9

LEMMA FuseDoes ==
  ASSUME LifeTypeOK, NEW i \in Interfaces, FuseStack(i), work[i] # <<>>
  PROVE  \/ /\ pc[i] = "start"
            /\ \/ work[i] = <<[do |-> "acquire", at |-> i], [do |-> "mount", at |-> Nobody]>>
               \/ work[i] = <<[do |-> "mount", at |-> Nobody]>>
         \/ pc[i] = "serve" /\ work[i] = <<[do |-> "walk", at |-> Nobody]>>
         \/ /\ pc[i] = "serve"
            /\ \E r \in Reads : /\ Asked(i, r)
                                /\ \/ work[i] = <<[do |-> "walk", at |-> r]>>
                                   \/ work[i] = <<[do |-> "send", at |-> r]>>
                                   \/ work[i] = <<[do |-> "acquire", at |-> i],
                                                  [do |-> "send", at |-> r]>>
         \/ /\ pc[i] = "finish" /\ Head(work[i]).do \in CallDo \cup {"gone"}
            /\ Deep(i, 0).do = "gone"
            /\ Head(work[i]).do = "gone" <=> Len(work[i]) = 1
            /\ \A b \in Nat \ {0} : InStack(i, b) => Deep(i, b).do \in CallDo
<1>1. pc[i] \in {"unborn", "start", "serve", "finish", "gone"}  BY DEF LifeTypeOK
<1>2. i \in Threads  BY ThreadsAre
<1>3. CASE pc[i] = "start"
  BY <1>3, TwoTasks, OneTask DEF FuseStack
<1>4. CASE pc[i] = "serve"
  <2>1. \/ work[i] = Task("walk", Nobody)
        \/ \E r \in Reads : /\ Asked(i, r)
                            /\ work[i] \in {Task("walk", r), Task("send", r),
                                            Task("acquire", i) \o Task("send", r)}
    BY <1>4 DEF FuseStack
  <2>2. CASE work[i] = Task("walk", Nobody)  BY <1>4, <2>2, OneTask
  <2>3. ASSUME NEW r \in Reads, Asked(i, r),
               work[i] \in {Task("walk", r), Task("send", r),
                            Task("acquire", i) \o Task("send", r)}
        PROVE  \/ work[i] = <<[do |-> "walk", at |-> r]>>
               \/ work[i] = <<[do |-> "send", at |-> r]>>
               \/ work[i] = <<[do |-> "acquire", at |-> i], [do |-> "send", at |-> r]>>
    <3>1. Task("acquire", i) \o Task("send", r) =
            <<[do |-> "acquire", at |-> i], [do |-> "send", at |-> r]>>
      BY TwoTasks
    <3>2. /\ Task("walk", r) = <<[do |-> "walk", at |-> r]>>
          /\ Task("send", r) = <<[do |-> "send", at |-> r]>>
      BY DEF Task
    <3> QED  BY <2>3, <3>1, <3>2
  <2> QED  BY <1>4, <2>1, <2>2, <2>3
<1>5. CASE pc[i] = "finish"
  <2>1. /\ work[i] # <<>> /\ Deep(i, 0).do = "gone"
        /\ \A b \in Nat \ {0} : InStack(i, b) => Deep(i, b).do \in CallDo
    BY <1>5 DEF FuseStack
  <2>2. /\ Len(work[i]) \in Nat /\ Len(work[i]) > 0 /\ InStack(i, Len(work[i]) - 1)
        /\ Deep(i, Len(work[i]) - 1) = Head(work[i])
    BY <1>2, TopIs
  <2>3. CASE Len(work[i]) = 1
    BY <1>5, <2>1, <2>2, <2>3
  <2>4. CASE Len(work[i]) # 1
    <3>1. Len(work[i]) - 1 \in Nat \ {0}  BY <2>2, <2>4
    <3>2. Head(work[i]).do \in CallDo  BY <2>1, <2>2, <3>1
    <3> QED  BY <1>5, <2>1, <2>4, <3>2 DEF CallDo
  <2> QED  BY <2>3, <2>4
<1> QED  BY <1>1, <1>3, <1>4, <1>5 DEF FuseStack
-----------------------------------------------------------------------------
(* What a step that pushes tasks leaves as it was *)

LEMMA DeepAfter ==
  ASSUME NEW t \in Threads, NEW n, NEW tasks, Pushed(t, n, tasks), NEW u \in Threads, NEW b \in Nat
  PROVE  /\ InStack(u, b)' =>
              \/ (u # t \/ b < n) /\ InStack(u, b) /\ Deep(u, b)' = Deep(u, b)
              \/ u = t /\ \E j \in 1..Len(tasks) : /\ b = n + Len(tasks) - j
                                                   /\ Deep(u, b)' = tasks[j]
         /\ (u # t \/ b < n) /\ InStack(u, b) => InStack(u, b)' /\ Deep(u, b)' = Deep(u, b)
<1>1. CASE u # t
  BY <1>1 DEF Pushed, InStack, Deep
<1>2. CASE u = t /\ b < n
  <2>1. InStack(u, b) /\ InStack(u, b)'  BY <1>2 DEF Pushed, InStack
  <2>2. Deep(u, b)' = Deep(u, b)  BY <1>2 DEF Pushed
  <2> QED  BY <1>2, <2>1, <2>2
<1>3. CASE u = t /\ b >= n
  <2>1. Len(tasks) \in Nat /\ n \in Nat  BY DEF Pushed
  <2>2. CASE b < n + Len(tasks)
    <3> DEFINE j == n + Len(tasks) - b
    <3>1. j \in 1..Len(tasks) /\ n + Len(tasks) - j = b  BY <1>3, <2>1, <2>2
    <3>2. Deep(u, b)' = tasks[j]  BY <1>3, <2>1, <2>2 DEF Pushed
    <3>3. ~(u # t \/ b < n)  BY <1>3, <2>1
    <3> HIDE DEF j
    <3> QED  BY <1>3, <3>1, <3>2, <3>3
  <2>3. CASE b >= n + Len(tasks)
    <3>1. ~InStack(u, b)'  BY <1>3, <2>1, <2>3 DEF Pushed, InStack
    <3>2. ~(u # t \/ b < n)  BY <1>3, <2>1
    <3> QED  BY <3>1, <3>2
  <2> QED  BY <2>1, <2>2, <2>3
<1>4. n \in Nat  BY DEF Pushed
<1> QED  BY <1>1, <1>2, <1>3, <1>4

LEMMA QuitFrame ==
  ASSUME QuitOK, NEW t \in Threads, NEW n, NEW tasks, Pushed(t, n, tasks),
         \A j \in 1..Len(tasks) : \A i \in Interfaces :
            tasks[j] = [do |-> "quit", at |-> i] => pc'[i] # "unborn",
         \A i \in Interfaces : pc[i] # "unborn" => pc'[i] # "unborn"
  PROVE  QuitOK'
<1> SUFFICES ASSUME NEW u \in Threads, NEW b \in Nat, NEW i \in Interfaces,
                    Has(u, b, "quit", i)'
             PROVE  pc'[i] # "unborn"
  BY DEF QuitOK
<1>1. \/ Has(u, b, "quit", i)
      \/ \E j \in 1..Len(tasks) : tasks[j] = [do |-> "quit", at |-> i]
  BY HasAfter
<1>2. Has(u, b, "quit", i) => pc[i] # "unborn"  BY DEF QuitOK
<1> QED  BY <1>1, <1>2

LEMMA JoinFrame ==
  ASSUME JoinOK, NEW t \in Threads, NEW n, NEW tasks, Pushed(t, n, tasks),
         \A j \in 1..Len(tasks) : tasks[j].do # "join",
         \A i \in Interfaces : count[i] = 0 => count'[i] = 0, shut' = shut
  PROVE  JoinOK'
<1>1. \A u \in Threads, b \in Nat, i \in Interfaces : Has(u, b, "join", i)' => Has(u, b, "join", i)
  <2> SUFFICES ASSUME NEW u \in Threads, NEW b \in Nat, NEW i \in Interfaces, Has(u, b, "join", i)'
               PROVE  Has(u, b, "join", i)
    OBVIOUS
  <2>1. \A j \in 1..Len(tasks) : tasks[j] # [do |-> "join", at |-> i]  OBVIOUS
  <2> QED  BY <2>1, HasAfter
<1>2. ASSUME NEW i \in Interfaces
      PROVE  /\ i \in shut' => count'[i] = 0
             /\ \A u \in Threads, b \in Nat : Has(u, b, "join", i)' =>
                  /\ count'[i] = 0 /\ i \notin shut'
                  /\ \A v \in Threads, d \in Nat : Has(v, d, "join", i)' => v = u /\ d = b
  <2>1. i \in shut => count[i] = 0  BY DEF JoinOK
  <2>2. \A u \in Threads, b \in Nat : Has(u, b, "join", i) =>
          /\ count[i] = 0 /\ i \notin shut
          /\ \A v \in Threads, d \in Nat : Has(v, d, "join", i) => v = u /\ d = b
    BY DEF JoinOK
  <2> QED  BY <1>1, <2>1, <2>2
<1> QED  BY <1>2 DEF JoinOK

LEMMA SwapFrame ==
  ASSUME SwapOK, NEW t \in Threads, NEW n, NEW tasks, Pushed(t, n, tasks),
         \A j \in 1..Len(tasks) : tasks[j].do # "swap",
         \A b \in Nat : Has(t, b, "swap", Nobody) => b < n,
         count'["running"] = count["running"] \/ (count["running"] > 0 /\ count'["running"] > 0),
         UNCHANGED <<listed, ender>>
  PROVE  SwapOK'
<1>1. \A u \in Threads, b \in Nat : Has(u, b, "swap", Nobody)' <=> Has(u, b, "swap", Nobody)
  <2> SUFFICES ASSUME NEW u \in Threads, NEW b \in Nat
               PROVE  Has(u, b, "swap", Nobody)' <=> Has(u, b, "swap", Nobody)
    OBVIOUS
  <2>1. \A j \in 1..Len(tasks) : tasks[j] # [do |-> "swap", at |-> Nobody]  OBVIOUS
  <2>2. Has(u, b, "swap", Nobody)' <=> (u # t \/ b < n) /\ Has(u, b, "swap", Nobody)
    BY <2>1, HasAfter
  <2>3. u = t /\ Has(u, b, "swap", Nobody) => b < n  OBVIOUS
  <2> QED  BY <2>2, <2>3
<1>2. ASSUME NEW u \in Threads, NEW b \in Nat, Has(u, b, "swap", Nobody)'
      PROVE  /\ b > 0 /\ Has(u, b - 1, "release", "icc")'
             /\ listed' /\ count'["running"] = 0
             /\ \A v \in Threads, d \in Nat : Has(v, d, "swap", Nobody)' => v = u /\ d = b
  <2>1. Has(u, b, "swap", Nobody)  BY <1>1, <1>2
  <2>2. /\ b > 0 /\ Has(u, b - 1, "release", "icc") /\ listed /\ count["running"] = 0
        /\ \A v \in Threads, d \in Nat : Has(v, d, "swap", Nobody) => v = u /\ d = b
    BY <2>1 DEF SwapOK
  <2>3. b - 1 \in Nat /\ n \in Nat /\ (u # t \/ b - 1 < n)  BY <2>1, <2>2 DEF Pushed
  <2>4. Has(u, b - 1, "release", "icc")'  BY <2>2, <2>3, HasAfter
  <2> QED  BY <1>1, <2>2, <2>4
<1>3. listed' => \/ count'["running"] > 0
                 \/ \E u \in Threads, b \in Nat : Has(u, b, "swap", Nobody)'
  BY <1>1 DEF SwapOK
<1>4. (ender' # Nobody => ~listed') /\ (count'["running"] > 0 => listed')  BY DEF SwapOK
<1> QED  BY <1>2, <1>3, <1>4 DEF SwapOK

LEMMA UnlinkFrame ==
  ASSUME UnlinkOK, NEW t \in Threads, NEW n, NEW tasks, Pushed(t, n, tasks),
         \A j \in 1..Len(tasks) : tasks[j].do # "unlink",
         count["list"] = 0 => count'["list"] = 0, sources' = sources
  PROVE  UnlinkOK'
<1>1. \A u \in Threads, b \in Nat : Has(u, b, "unlink", Nobody)' => Has(u, b, "unlink", Nobody)
  <2> SUFFICES ASSUME NEW u \in Threads, NEW b \in Nat, Has(u, b, "unlink", Nobody)'
               PROVE  Has(u, b, "unlink", Nobody)
    OBVIOUS
  <2>1. \A j \in 1..Len(tasks) : tasks[j] # [do |-> "unlink", at |-> Nobody]  OBVIOUS
  <2> QED  BY <2>1, HasAfter
<1> QED  BY <1>1 DEF UnlinkOK

LEMMA ExitFrame ==
  ASSUME ExitOK, NEW t \in Threads, NEW n, NEW tasks, Pushed(t, n, tasks),
         \A j \in 1..Len(tasks) : tasks[j].do = "exit" => count'["loop"] = 0,
         count["loop"] = 0 => count'["loop"] = 0, exit' = exit,
         phase' = "over" => phase = "over"
  PROVE  ExitOK'
<1>1. \A u \in Threads, b \in Nat : Has(u, b, "exit", Nobody)' =>
         Has(u, b, "exit", Nobody) \/ count'["loop"] = 0
  <2> SUFFICES ASSUME NEW u \in Threads, NEW b \in Nat, Has(u, b, "exit", Nobody)'
               PROVE  Has(u, b, "exit", Nobody) \/ count'["loop"] = 0
    OBVIOUS
  <2>1. \A j \in 1..Len(tasks) : tasks[j] = [do |-> "exit", at |-> Nobody] => count'["loop"] = 0
    OBVIOUS
  <2> QED  BY <2>1, HasAfter
<1> QED  BY <1>1 DEF ExitOK

LEMMA SignalFrame ==
  ASSUME SignalOK, NEW t \in Threads, NEW n, NEW tasks, Pushed(t, n, tasks),
         \A j \in 1..Len(tasks) : tasks[j].do # "next",
         count'["icc"] = 0 => count["icc"] = 0,
         "icc" \in astray' => "icc" \in astray,
         Signalling' => Signalling, UNCHANGED <<listed, ender>>
  PROVE  SignalOK'
<1>1. ASSUME NEW u \in Threads, NEW b \in Nat, InStack(u, b)', Deep(u, b)'.do = "next"
      PROVE  InStack(u, b) /\ Deep(u, b).do = "next"
  BY <1>1, DeepAfter
<1>2. ASSUME NEW u \in Threads, NEW b \in Nat, InStack(u, b)', Deep(u, b)'.do = "next",
             count'["icc"] = 0
      PROVE  ender' \in Interfaces
  <2>1. InStack(u, b) /\ Deep(u, b).do = "next" /\ count["icc"] = 0  BY <1>1, <1>2
  <2>2. ender \in Interfaces  BY <2>1 DEF SignalOK
  <2> QED  BY <2>2
<1> QED  BY <1>2 DEF SignalOK

LEMMA QueueFrame ==
  ASSUME QueueOK, UNCHANGED <<inbox, read, from>>
  PROVE  QueueOK'
  BY DEF QueueOK

LEMMA OrderFrame ==
  ASSUME InOrderMade, UNCHANGED <<phase, made, starting, pc>>,
         starting # Nobody => work'[Main] = <<>>
  PROVE  InOrderMade'
  BY DEF InOrderMade

Flat(tasks, t) == \A j \in 1..Len(tasks) :
                    tasks[j].do \in CallDo \cup (IF t = Main THEN {"next", "arm"} ELSE {})

\* A call under way goes on.
LEMMA CallFrame ==
  ASSUME LifeTypeOK, MainStack, \A i \in Interfaces : FuseStack(i), InOrderMade,
         NEW t \in Threads, work[t] # <<>>, Head(work[t]).do \in CallDo \cup {"next", "arm"},
         NEW tasks \in Seq(Tasks), Call(t, tasks), Flat(tasks, t),
         UNCHANGED <<phase, made, starting, pc, read, from>>
  PROVE  /\ Pushed(t, Len(work[t]) - 1, tasks)
         /\ MainStack' /\ \A i \in Interfaces : FuseStack(i)'
         /\ InOrderMade'
         /\ Signalling' <=> Signalling
         /\ Consuming' <=> Consuming
         /\ t = Main => phase = "loop" /\ ~Signalling /\ ~Consuming /\ ~Signalling' /\ ~Consuming'
         /\ t # Main => t \in Interfaces /\ pc[t] = "finish" /\ work'[Main] = work[Main]
         /\ \A i \in Interfaces : pc[i] # "finish" => work'[i] = work[i]
<1>0. work \in [Threads -> Seq(Tasks)]  BY DEF LifeTypeOK
<1>1. Pushed(t, Len(work[t]) - 1, tasks)  BY <1>0, CallPushes
<1> DEFINE n == Len(work[t]) - 1
<1>2. /\ n \in Nat /\ Len(tasks) \in Nat /\ work' \in [Threads -> Seq(Tasks)]
      /\ \A u \in Threads \ {t} : work'[u] = work[u]
      /\ Len(work'[t]) = n + Len(tasks)
  BY <1>1 DEF Pushed
<1>3. CASE t = Main
  <2>1. /\ phase = "loop" /\ ~Signalling /\ ~Consuming
        /\ \A b \in Nat : InStack(Main, b) => Deep(Main, b).do \in CallDo \cup {"next", "arm"}
    BY <1>3, MainDoes DEF CallDo
  <2>2. \A b \in Nat : InStack(Main, b)' => Deep(Main, b)'.do \in CallDo \cup {"next", "arm"}
    <3> SUFFICES ASSUME NEW b \in Nat, InStack(Main, b)'
                 PROVE  Deep(Main, b)'.do \in CallDo \cup {"next", "arm"}
      OBVIOUS
    <3> QED  BY <1>1, <1>3, <2>1, DeepAfter DEF Flat
  <2>3. MainStack'  BY <2>1, <2>2 DEF MainStack
  <2>4. \A i \in Interfaces : work'[i] = work[i]  BY <1>2, <1>3, ThreadsAre
  <2>5. \A i \in Interfaces : FuseStack(i)'
    <3> SUFFICES ASSUME NEW i \in Interfaces PROVE FuseStack(i)'  OBVIOUS
    <3>1. FuseStack(i)  OBVIOUS
    <3>2. work'[i] = work[i] /\ pc' = pc  BY <2>4
    <3>3. \A b : Deep(i, b)' = Deep(i, b) /\ (InStack(i, b)' <=> InStack(i, b))
      BY <3>2 DEF Deep, InStack
    <3>4. \A r : Asked(i, r)' <=> Asked(i, r)  BY DEF Asked
    <3> QED  BY <3>1, <3>2, <3>3, <3>4 DEF FuseStack
  <2>6. starting = Nobody  BY <2>1 DEF InOrderMade
  <2>7. InOrderMade'  BY <2>6, OrderFrame
  <2>8. ~Signalling' /\ ~Consuming'
    <3>1. ASSUME work'[Main] # <<>>
          PROVE  Head(work'[Main]).do # "acquire"
      <4>1. LifeTypeOK  OBVIOUS
      <4>2. work'[Main] \in Seq(Tasks)  BY <1>2, ThreadsAre
      <4>3. Len(work'[Main]) - 1 \in Nat /\ Len(work'[Main]) > 0  BY <3>1, <4>2
      <4>4. \A b : b = Len(work'[Main]) - 1 => InStack(Main, b)' /\ Deep(Main, b)' = Head(work'[Main])
        BY <4>2, <4>3 DEF InStack, Deep
      <4>5. Head(work'[Main]).do \in CallDo \cup {"next", "arm"}
        BY <2>2, <4>3, <4>4
      <4> QED  BY <4>5 DEF CallDo
    <3> DEFINE x == [do |-> "acquire", at |-> "icc"]
               y == [do |-> "next", at |-> 1]
               z == [do |-> "arm", at |-> Nobody]
               w == [do |-> "acquire", at |-> "list"]
    <3>2. Signalling' => work'[Main] = <<x, y, z>>  BY ThreeTasks DEF Signalling
    <3>3. Consuming' => work'[Main] = <<w>>  BY DEF Consuming, Task
    <3>4. x.do = "acquire" /\ w.do = "acquire"  OBVIOUS
    <3> HIDE DEF x, y, z, w
    <3>5. <<x, y, z>> # <<>> /\ Head(<<x, y, z>>) = x /\ <<w>> # <<>> /\ Head(<<w>>) = w
      BY HeadsAre
    <3>6. ~Signalling'  BY <3>1, <3>2, <3>4, <3>5
    <3>7. ~Consuming'  BY <3>1, <3>3, <3>4, <3>5
    <3> QED  BY <3>6, <3>7
  <2>9. \A i \in Interfaces : pc[i] # "finish" => work'[i] = work[i]  BY <2>4
  <2> QED  BY <1>1, <1>3, <2>1, <2>3, <2>5, <2>7, <2>8, <2>9
<1>4. CASE t # Main
  <2>1. t \in Interfaces  BY <1>4, ThreadsAre
  <2>2. /\ pc[t] = "finish" /\ Head(work[t]).do # "gone" /\ Len(work[t]) # 1
        /\ Deep(t, 0).do = "gone"
        /\ \A b \in Nat \ {0} : InStack(t, b) => Deep(t, b).do \in CallDo
    <3>1. "acquire" \notin CallDo \cup {"next", "arm"} /\ "mount" \notin CallDo \cup {"next", "arm"}
          /\ "walk" \notin CallDo \cup {"next", "arm"} /\ "send" \notin CallDo \cup {"next", "arm"}
          /\ "gone" \notin CallDo \cup {"next", "arm"}
      BY DEF CallDo
    <3>2. \A x, y : Head(<<x>>) = x /\ Head(<<x, y>>) = x  BY HeadsAre
    <3>3. FuseStack(t)  BY <2>1
    <3>4. Head(work[t]).do \notin {"acquire", "mount", "walk", "send", "gone"}  BY <3>1
    <3> DEFINE a == [do |-> "acquire", at |-> t]
               m == [do |-> "mount", at |-> Nobody]
               s(r) == [do |-> "send", at |-> r]
               w(r) == [do |-> "walk", at |-> r]
    <3>5. a.do = "acquire" /\ m.do = "mount" /\ \A r : s(r).do = "send" /\ w(r).do = "walk"
      OBVIOUS
    <3>6. \/ work[t] = <<a, m>> \/ work[t] = <<m>> \/ work[t] = <<w(Nobody)>>
          \/ \E r \in Reads : work[t] = <<w(r)>> \/ work[t] = <<s(r)>> \/ work[t] = <<a, s(r)>>
          \/ /\ pc[t] = "finish"
             /\ Deep(t, 0).do = "gone"
             /\ Head(work[t]).do = "gone" <=> Len(work[t]) = 1
             /\ \A b \in Nat \ {0} : InStack(t, b) => Deep(t, b).do \in CallDo
      BY <2>1, <3>3, FuseDoes
    <3> HIDE DEF a, m, s, w
    <3> QED  BY <3>2, <3>4, <3>5, <3>6
  <2>3. n > 0  BY <2>2, TopIs
  <2>4. work'[t] # <<>>  BY <1>2, <2>3
  <2>5. \A b \in Nat \ {0} : InStack(t, b)' => Deep(t, b)'.do \in CallDo
    <3> SUFFICES ASSUME NEW b \in Nat \ {0}, InStack(t, b)' PROVE Deep(t, b)'.do \in CallDo
      OBVIOUS
    <3>1. \/ InStack(t, b) /\ Deep(t, b)' = Deep(t, b)
          \/ \E j \in 1..Len(tasks) : Deep(t, b)' = tasks[j]
      BY <1>1, DeepAfter
    <3> QED  BY <1>4, <2>2, <3>1 DEF Flat
  <2>6. Deep(t, 0)'.do = "gone"  BY <1>1, <2>2, <2>3 DEF Pushed
  <2>7. FuseStack(t)'  BY <2>2, <2>4, <2>5, <2>6 DEF FuseStack
  <2>8. work'[Main] = work[Main]  BY <1>2, <1>4, ThreadsAre
  <2>9. ASSUME NEW i \in Interfaces, i # t PROVE FuseStack(i)' /\ work'[i] = work[i]
    <3>1. FuseStack(i)  OBVIOUS
    <3>2. work'[i] = work[i] /\ pc' = pc  BY <1>2, <2>9, ThreadsAre
    <3>3. \A b : Deep(i, b)' = Deep(i, b) /\ (InStack(i, b)' <=> InStack(i, b))
      BY <3>2 DEF Deep, InStack
    <3>4. \A r : Asked(i, r)' <=> Asked(i, r)  BY DEF Asked
    <3> QED  BY <3>1, <3>2, <3>3, <3>4 DEF FuseStack
  <2>10. MainStack'
    <3>1. \A b : Deep(Main, b)' = Deep(Main, b) /\ (InStack(Main, b)' <=> InStack(Main, b))
      BY <2>8 DEF Deep, InStack
    <3>2. Consuming' = Consuming /\ Signalling' = Signalling  BY <2>8 DEF Consuming, Signalling
    <3> QED  BY <2>8, <3>1, <3>2 DEF MainStack
  <2>11. InOrderMade'  BY <2>8, OrderFrame DEF InOrderMade
  <2>12. (Signalling' <=> Signalling) /\ (Consuming' <=> Consuming)
    BY <2>8 DEF Consuming, Signalling
  <2> QED  BY <1>1, <1>4, <2>1, <2>2, <2>7, <2>8, <2>9, <2>10, <2>11, <2>12
<1> QED  BY <1>3, <1>4
-----------------------------------------------------------------------------
(* Counts and their holders *)

LEMMA CountTypes ==
  ASSUME LifeTypeOK, NEW c \in Counters
  PROVE  count[c] \in Nat /\ Debt(c) \in {0, 1} /\ count[c] + Debt(c) \in Nat
<1>1. count[c] \in Nat  BY DEF LifeTypeOK
<1>2. Debt(c) \in {0, 1}  BY DEF Debt
<1> QED  BY <1>1, <1>2

LEMMA FewerHolders ==
  ASSUME NEW c, Enough(c), Holders(c)' \subseteq Holders(c),
         (count[c] + Debt(c))' = count[c] + Debt(c), count[c] + Debt(c) \in Nat
  PROVE  Enough(c)'
<1>1. IsFiniteSet(Holders(c)) /\ Cardinality(Holders(c)) <= count[c] + Debt(c)  BY DEF Enough
<1>2. IsFiniteSet(Holders(c)') /\ Cardinality(Holders(c)') <= Cardinality(Holders(c))
  BY <1>1, NotMore
<1>3. Cardinality(Holders(c)') \in Nat /\ Cardinality(Holders(c)) \in Nat
  BY <1>1, <1>2, FS_CardinalityType
<1>4. Cardinality(Holders(c)') <= (count[c] + Debt(c))'  BY <1>1, <1>2, <1>3
<1> QED  BY <1>2, <1>4 DEF Enough

LEMMA OtherHolder ==
  ASSUME NEW c, Enough(c), NEW x \in Holders(c), NEW y,
         Holders(c)' \subseteq (Holders(c) \ {x}) \cup {y},
         (count[c] + Debt(c))' = count[c] + Debt(c), count[c] + Debt(c) \in Nat
  PROVE  Enough(c)'
<1>1. IsFiniteSet(Holders(c)) /\ Cardinality(Holders(c)) <= count[c] + Debt(c)  BY DEF Enough
<1>2. IsFiniteSet(Holders(c)') /\ Cardinality(Holders(c)') <= Cardinality(Holders(c))
  BY <1>1, OneForOne
<1>3. Cardinality(Holders(c)') \in Nat /\ Cardinality(Holders(c)) \in Nat
  BY <1>1, <1>2, FS_CardinalityType
<1>4. Cardinality(Holders(c)') <= (count[c] + Debt(c))'  BY <1>1, <1>2, <1>3
<1> QED  BY <1>2, <1>4 DEF Enough

LEMMA NewHolder ==
  ASSUME NEW c, Enough(c), NEW y, Holders(c)' \subseteq Holders(c) \cup {y},
         (count[c] + Debt(c))' = count[c] + Debt(c) + 1, count[c] + Debt(c) \in Nat
  PROVE  Enough(c)'
<1>1. IsFiniteSet(Holders(c)) /\ Cardinality(Holders(c)) <= count[c] + Debt(c)  BY DEF Enough
<1>2. IsFiniteSet(Holders(c)') /\ Cardinality(Holders(c)') <= Cardinality(Holders(c)) + 1
  BY <1>1, OneMore
<1>3. Cardinality(Holders(c)') \in Nat /\ Cardinality(Holders(c)) \in Nat
  BY <1>1, <1>2, FS_CardinalityType
<1>4. Cardinality(Holders(c)') <= (count[c] + Debt(c))'  BY <1>1, <1>2, <1>3
<1> QED  BY <1>2, <1>4 DEF Enough

LEMMA LostHolder ==
  ASSUME NEW c, Enough(c), NEW x \in Holders(c), Holders(c)' \subseteq Holders(c) \ {x},
         (count[c] + Debt(c))' = (count[c] + Debt(c)) - 1, count[c] + Debt(c) \in Nat
  PROVE  Enough(c)'
<1>1. IsFiniteSet(Holders(c)) /\ Cardinality(Holders(c)) <= count[c] + Debt(c)  BY DEF Enough
<1>2. IsFiniteSet(Holders(c)') /\ Cardinality(Holders(c)') <= Cardinality(Holders(c)) - 1
  BY <1>1, OneLess
<1>3. Cardinality(Holders(c)') \in Nat /\ Cardinality(Holders(c)) \in Nat
  BY <1>1, <1>2, FS_CardinalityType
<1>4. Cardinality(Holders(c)') <= (count[c] + Debt(c))'  BY <1>1, <1>2, <1>3
<1> QED  BY <1>2, <1>4 DEF Enough

\* Nothing is acquired or released.
LEMMA Balance ==
  ASSUME LifeTypeOK, CountsOK, count' = count, Consuming' <=> Consuming,
         \A c \in Counters : \/ Holders(c)' \subseteq Holders(c)
                             \/ \E x \in Holders(c) : \E y :
                                  Holders(c)' \subseteq (Holders(c) \ {x}) \cup {y},
         count["icc"] = 0 => Releases("icc")' = {}
  PROVE  CountsOK'
<1>1. ASSUME NEW c \in Counters, c # "icc" \/ count["icc"] > 0
      PROVE  Enough(c)'
  <2>1. Enough(c) /\ count[c] + Debt(c) \in Nat  BY <1>1, CountTypes DEF CountsOK
  <2>2. (count[c] + Debt(c))' = count[c] + Debt(c)  BY DEF Debt, ListCounter
  <2> QED  BY <2>1, <2>2, FewerHolders, OtherHolder
<1>2. count'["icc"] = 0 => count'["running"] = 0 /\ Releases("icc")' = {}  BY DEF CountsOK
<1>3. \A c \in Counters : c # "icc" \/ count'["icc"] > 0 => Enough(c)'  BY <1>1
<1> QED  BY <1>2, <1>3 DEF CountsOK

\* What holds on to a count
LEMMA HeldIsPositive ==
  ASSUME LifeTypeOK, NEW c \in Counters, Enough(c), NEW x \in Holders(c)
  PROVE  /\ count[c] + Debt(c) >= 1
         /\ \A y \in Holders(c) : y # x => count[c] + Debt(c) >= 2
         /\ \A y, z \in Holders(c) : y # x /\ z # x /\ y # z => count[c] + Debt(c) >= 3
<1>1. count[c] + Debt(c) \in Nat  BY CountTypes
<1>2. IsFiniteSet(Holders(c)) /\ Cardinality(Holders(c)) <= count[c] + Debt(c)  BY DEF Enough
<1>3. /\ Cardinality(Holders(c)) \in Nat /\ Cardinality(Holders(c)) >= 1
      /\ \A y \in Holders(c) : y # x => Cardinality(Holders(c)) >= 2
      /\ \A y, z \in Holders(c) : y # x /\ z # x /\ y # z => Cardinality(Holders(c)) >= 3
  BY <1>2, OneHolder
<1> QED  BY <1>1, <1>2, <1>3

LEMMA ConfigHolds ==
  ASSUME LifeTypeOK, CountsOK
  PROVE  /\ phase = "config" => count["running"] > 0
         /\ count["running"] > 0 => count["icc"] > 0 /\ count["list"] > 0 /\ count["loop"] > 0
         /\ count["list"] > 0 => count["listMem"] > 0
         /\ count["listMem"] > 0 \/ pool => count["loop"] > 0
         /\ \A i \in Interfaces : count["icc"] > 0 \/ Serving(i) => count[i] > 0
         /\ \A i \in Interfaces, r \in Reads : from[r] = i /\ Underway(r) => count[i] > 0
<1>1. \A c \in Counters : count[c] \in Nat  BY DEF LifeTypeOK
<1>2. /\ {"icc", "running", "loop", "list", "listMem"} \subseteq Counters
      /\ Interfaces \subseteq Counters
  BY DEF Counters
<1>3. phase = "config" => count["running"] > 0
  <2> SUFFICES ASSUME phase = "config" PROVE count["running"] > 0  OBVIOUS
  <2>1. <<"run", Nobody, 0>> \in Holders("running")  BY DEF Holders, Fixed, If
  <2>2. Enough("running")  BY <1>2 DEF CountsOK
  <2>3. count["running"] + Debt("running") >= 1  BY <1>2, <2>1, <2>2, HeldIsPositive
  <2>4. Debt("running") = 0  BY DEF Debt, ListCounter
  <2> QED  BY <1>1, <1>2, <2>3, <2>4
<1>4. count["running"] > 0 => count["icc"] > 0
  BY <1>1, <1>2 DEF CountsOK
<1>5. count["running"] > 0 => count["list"] > 0
  <2> SUFFICES ASSUME count["running"] > 0, count["list"] = 0 PROVE FALSE
    BY <1>1, <1>2
  <2>1. <<"own", Nobody, 0>> \in Holders("list")  BY DEF Holders, Fixed, If
  <2>2. Enough("list")  BY <1>2 DEF CountsOK
  <2>3. count["list"] + Debt("list") >= 1  BY <1>2, <2>1, <2>2, HeldIsPositive
  <2>4. Debt("list") = 0  BY DEF Debt, ListCounter
  <2> QED  BY <1>1, <1>2, <2>3, <2>4
<1>6. count["list"] > 0 => count["listMem"] > 0
  <2> SUFFICES ASSUME count["list"] > 0 PROVE count["listMem"] > 0  OBVIOUS
  <2>1. <<"own", Nobody, 0>> \in Holders("listMem")  BY DEF Holders, Fixed, If
  <2>2. Enough("listMem")  BY <1>2 DEF CountsOK
  <2>3. count["listMem"] + Debt("listMem") >= 1  BY <1>2, <2>1, <2>2, HeldIsPositive
  <2>4. Debt("listMem") = 0  BY DEF Debt, ListCounter
  <2> QED  BY <1>1, <1>2, <2>3, <2>4
<1>7. count["running"] > 0 \/ count["listMem"] > 0 \/ pool => count["loop"] > 0
  <2> SUFFICES ASSUME count["running"] > 0 \/ count["listMem"] > 0 \/ pool
               PROVE  count["loop"] > 0
    OBVIOUS
  <2>1. \E x : x \in Holders("loop")  BY DEF Holders, Fixed, If
  <2>2. Enough("loop")  BY <1>2 DEF CountsOK
  <2>3. count["loop"] + Debt("loop") >= 1  BY <1>2, <2>1, <2>2, HeldIsPositive
  <2>4. Debt("loop") = 0  BY DEF Debt, ListCounter
  <2> QED  BY <1>1, <1>2, <2>3, <2>4
<1>8. ASSUME NEW i \in Interfaces, NEW x \in Holders(i)
      PROVE  count[i] > 0
  <2>1. i \in Counters /\ i # "icc" /\ i # "list" /\ i # "listMem"  BY <1>2, InterfaceIsOther
  <2>2. Enough(i)  BY <2>1 DEF CountsOK
  <2>3. count[i] + Debt(i) >= 1  BY <2>1, <2>2, <1>8, HeldIsPositive
  <2>4. Debt(i) = 0  BY <2>1 DEF Debt, ListCounter
  <2> QED  BY <1>1, <2>1, <2>3, <2>4
<1>9. \A i \in Interfaces : count["icc"] > 0 \/ Serving(i) => count[i] > 0
  <2> SUFFICES ASSUME NEW i \in Interfaces, count["icc"] > 0 \/ Serving(i) PROVE count[i] > 0
    OBVIOUS
  <2>1. \E x : x \in Holders(i)  BY InterfaceIsOther DEF If
  <2> QED  BY <1>8, <2>1
<1>10. \A i \in Interfaces, r \in Reads : from[r] = i /\ Underway(r) => count[i] > 0
  <2> SUFFICES ASSUME NEW i \in Interfaces, NEW r \in Reads, from[r] = i, Underway(r)
               PROVE  count[i] > 0
    OBVIOUS
  <2>1. <<"read", r, 0>> \in Readers(i)  BY DEF Readers
  <2>2. <<"read", r, 0>> \in Holders(i)  BY <2>1, InterfaceIsOther
  <2> QED  BY <1>8, <2>2
<1> QED  BY <1>3, <1>4, <1>5, <1>6, <1>7, <1>9, <1>10
-----------------------------------------------------------------------------
(* What the invariant says of shutting down *)

LEMMA BornInLoop ==
  ASSUME LifeTypeOK, InOrderMade
  PROVE  /\ phase # "config" => \A i \in Interfaces : pc[i] \notin {"unborn", "start"}
         /\ \A i \in Interfaces : pc[i] = "start" => starting = i /\ phase = "config"
<1>1. /\ DOMAIN Order = 1..Len(Order) /\ Len(Order) \in Nat
      /\ \A i \in Interfaces : \E k \in 1..Len(Order) : i = Order[k]
  BY OrderIs
<1>2. \A k \in 1..Len(Order) :
        /\ k <= made => pc[Order[k]] \notin {"unborn", "start"}
        /\ k > made /\ starting # Order[k] => pc[Order[k]] = "unborn"
  BY <1>1 DEF InOrderMade
<1>3. made \in Nat  BY <1>1 DEF LifeTypeOK
<1>4. phase # "config" => \A i \in Interfaces : pc[i] \notin {"unborn", "start"}
  <2>1. phase # "config" => made = Len(Order)  BY DEF InOrderMade
  <2> QED  BY <1>1, <1>2, <2>1
<1>5. \A i \in Interfaces : pc[i] = "start" => starting = i
  <2> SUFFICES ASSUME NEW i \in Interfaces, pc[i] = "start" PROVE starting = i  OBVIOUS
  <2>1. PICK k \in 1..Len(Order) : i = Order[k]  BY <1>1
  <2>2. k <= made \/ k > made  BY <1>1, <1>3
  <2> QED  BY <1>2, <2>1, <2>2
<1> QED  BY <1>4, <1>5

\* A request under way keeps its interface.
LEMMA RunningKeeps ==
  ASSUME LifeTypeOK, Steady, NEW r \in Reads, read[r] = "running"
  PROVE  from[r] \in Interfaces /\ from[r] \notin shut /\ count[from[r]] > 0
<1>1. from[r] \in Interfaces  BY DEF Steady, QueueOK
<1>2. count[from[r]] > 0  BY <1>1, ConfigHolds DEF Steady, Underway
<1>3. from[r] \in shut => count[from[r]] = 0  BY <1>1 DEF Steady, JoinOK
<1> QED  BY <1>1, <1>2, <1>3

\* The list's memory outlives all interfaces and requests.
LEMMA MemoryIsLast ==
  ASSUME LifeTypeOK, Steady, count["listMem"] = 0
  PROVE  /\ sources = "closed" /\ count["list"] = 0 /\ phase # "config"
         /\ \A r \in Reads : read[r] # "running"
         /\ shut = Interfaces
<1>1. count["list"] = 0 /\ count["running"] = 0 /\ phase # "config"
  <2>1. \A c \in {"list", "running", "listMem"} : count[c] \in Nat  BY DEF LifeTypeOK, Counters
  <2> QED  BY <2>1, ConfigHolds DEF Steady
<1>2. \A i \in Interfaces : pc[i] # "unborn"  BY <1>1, BornInLoop DEF Steady
<1>3. "listMem" \in Counters /\ Enough("listMem")  BY DEF Steady, CountsOK, Counters
<1>4. ListCounter = "listMem"  BY <1>1 DEF ListCounter
<1>5. \A r \in Reads : read[r] # "running"
  <2> SUFFICES ASSUME NEW r \in Reads, read[r] = "running" PROVE FALSE  OBVIOUS
  <2> DEFINE i == from[r]
  <2>1. i \in Interfaces /\ i \notin shut  BY RunningKeeps
  <2>2. Listing(i)  BY <1>2, <2>1 DEF Listing
  <2>3. <<"interface", i, 0>> \in Users("listMem")  BY <2>1, <2>2 DEF Users
  <2>4. <<"read", r, 0>> \in Running  BY DEF Running
  <2>5. <<"read", r, 0>> \in Users("listMem")  BY <1>4, <2>4 DEF Users, ListUsers
  <2>6. <<"interface", i, 0>> # <<"read", r, 0>>  BY Tokens
  <2>7. count["listMem"] + Debt("listMem") >= 2
    BY <1>3, <2>3, <2>5, <2>6, HeldIsPositive DEF Holders
  <2> QED  BY <2>7, <1>3, CountTypes
<1>6. Debt("listMem") = 0
  <2>1. ~Consuming
    <3>1. ASSUME Consuming PROVE work[Main] # <<>> /\ Head(work[Main]).do = "acquire"
                                 /\ Head(work[Main]).at = "list"
      <4> DEFINE x == [do |-> "acquire", at |-> "list"]
      <4>1. work[Main] = <<x>>  BY <3>1 DEF Consuming, Task
      <4>2. x.do = "acquire" /\ x.at = "list"  OBVIOUS
      <4> HIDE DEF x
      <4> QED  BY <4>1, <4>2, HeadsAre
    <3>2. ASSUME Signalling PROVE Head(work[Main]).at = "icc"
      <4> DEFINE x == [do |-> "acquire", at |-> "icc"]
                 y == [do |-> "next", at |-> 1]
                 z == [do |-> "arm", at |-> Nobody]
      <4>1. work[Main] = <<x, y, z>>  BY <3>2, ThreeTasks DEF Signalling
      <4>2. x.at = "icc"  OBVIOUS
      <4> HIDE DEF x, y, z
      <4> QED  BY <4>1, <4>2, HeadsAre
    <3>3. "acquire" \notin CallDo \cup {"next", "arm"}  BY DEF CallDo
    <3>4. MainStack  BY DEF Steady
    <3> QED  BY <1>1, <1>5, <3>1, <3>2, <3>3, <3>4, MainDoes
  <2> QED  BY <2>1 DEF Debt
<1>7. ASSUME NEW x \in Holders("listMem") PROVE FALSE
  <2>1. count["listMem"] + Debt("listMem") >= 1  BY <1>3, <1>7, HeldIsPositive
  <2> QED  BY <1>6, <2>1
<1>8. sources = "closed"
  <2>1. sources # "closed" => <<"sources", Nobody, 0>> \in Holders("listMem")
    BY DEF Holders, Fixed, If
  <2> QED  BY <1>7, <2>1
<1>9. \A i \in Interfaces : i \in shut
  <2> SUFFICES ASSUME NEW i \in Interfaces, i \notin shut PROVE FALSE  OBVIOUS
  <2>1. Listing(i)  BY <1>2 DEF Listing
  <2>2. <<"interface", i, 0>> \in Holders("listMem")  BY <2>1 DEF Holders, Users
  <2> QED  BY <1>7, <2>2
<1> QED  BY <1>1, <1>5, <1>8, <1>9 DEF LifeTypeOK

LEMMA LoopIsLast ==
  ASSUME LifeTypeOK, Steady, count["loop"] = 0
  PROVE  count["listMem"] = 0 /\ count["running"] = 0 /\ ~pool
<1>1. \A c \in {"loop", "running", "listMem"} : count[c] \in Nat  BY DEF LifeTypeOK, Counters
<1> QED  BY <1>1, ConfigHolds DEF Steady

\* An interface that has been shut has no users.
LEMMA ShutIsUnused ==
  ASSUME LifeTypeOK, Steady, NEW i \in shut
  PROVE  /\ i \in Interfaces /\ count[i] = 0 /\ pc[i] \in {"finish", "gone"}
         /\ \A r \in Reads : from[r] = i => ~Underway(r)
<1>1. i \in Interfaces  BY DEF LifeTypeOK
<1>2. count[i] = 0  BY <1>1 DEF Steady, JoinOK
<1>3. count["icc"] \in Nat /\ count["running"] \in Nat  BY DEF LifeTypeOK, Counters
<1>4. count["icc"] = 0 /\ ~Serving(i) /\ \A r \in Reads : from[r] = i => ~Underway(r)
  BY <1>1, <1>2, <1>3, ConfigHolds DEF Steady
<1>5. phase # "config"  BY <1>3, <1>4, ConfigHolds DEF Steady
<1>6. pc[i] \in {"unborn", "start", "serve", "finish", "gone"}  BY <1>1 DEF LifeTypeOK
<1>7. pc[i] \notin {"unborn", "start"}  BY <1>1, <1>5, BornInLoop DEF Steady
<1>8. pc[i] # "serve"  BY <1>4 DEF Serving
<1> QED  BY <1>1, <1>2, <1>4, <1>6, <1>7, <1>8

LEMMA InvImpliesOrder == IInv => TakenDownInOrder
<1> SUFFICES ASSUME LifeTypeOK, Steady
             PROVE  /\ \A i \in shut : /\ pc[i] \in {"finish", "gone"}
                                       /\ \A r \in Reads : from[r] = i => Settled(r)
                    /\ exit => /\ shut = Interfaces
                               /\ \A i \in Interfaces : pc[i] \in {"finish", "gone"}
                               /\ sources = "closed" /\ ~pool
  BY DEF IInv, TakenDownInOrder
<1>1. ASSUME NEW i \in shut
      PROVE  /\ pc[i] \in {"finish", "gone"}
             /\ \A r \in Reads : from[r] = i => Settled(r)
  BY <1>1, ShutIsUnused DEF Underway, Settled
<1>2. ASSUME exit
      PROVE  shut = Interfaces /\ sources = "closed" /\ ~pool
  BY <1>2, LoopIsLast, MemoryIsLast DEF Steady, ExitOK
<1> QED  BY <1>1, <1>2

\* The sources are released after every interface has quit.
LEMMA SourcesAreLater ==
  ASSUME LifeTypeOK, Steady, sources # "open"
  PROVE  quit = Interfaces
<1>1. count["list"] = 0  BY DEF Steady, UnlinkOK
<1>2. count["running"] = 0 /\ phase # "config"
  <2>1. \A c \in {"list", "running"} : count[c] \in Nat  BY DEF LifeTypeOK, Counters
  <2> QED  BY <1>1, <2>1, ConfigHolds DEF Steady
<1>4. ASSUME NEW i \in Interfaces, Active(i) PROVE FALSE
  <2>1. <<"interface", i, 0>> \in Holders("running")  BY <1>4 DEF Holders, Users
  <2>2. "running" \in Counters /\ Enough("running")  BY DEF Steady, CountsOK, Counters
  <2>3. count["running"] + Debt("running") >= 1  BY <2>1, <2>2, HeldIsPositive
  <2>4. Debt("running") = 0  BY DEF Debt, ListCounter
  <2> QED  BY <1>2, <2>3, <2>4
<1>3. \A i \in Interfaces : pc[i] # "unborn"  BY <1>2, BornInLoop DEF Steady
<1> QED  BY <1>3, <1>4 DEF Active, LifeTypeOK

\* They are used too late when they are released, or later.
LateUse == astray \cap {"list", "stats"} # {} => sources # "open"

LEMMA InvImpliesUnused == IInv /\ LateUse => FreedIsLeftAlone
  BY SourcesAreLater DEF IInv, LateUse, FreedIsLeftAlone, Steady, AstrayOK, SignalOK

LEMMA LateUseStep ==
  ASSUME LateUse, [LifeNext]_lifeVars
  PROVE  LateUse'
<1> USE DEF runVars, fiVars, readVars, endVars, pastVars
<1>1. ASSUME NEW t \in Threads, Step(t) PROVE LateUse'
  <2>1. CASE Start(t) \/ Quit(t) \/ Unmount(t) \/ Arm(t) \/ Swap(t) \/ Exit(t)
    BY <2>1 DEF LateUse, Start, Quit, Unmount, Arm, Swap, Exit
  <2>2. CASE Count(t) \/ Join(t) \/ QuitNext(t)
    BY <2>2 DEF LateUse, Count, Join, QuitNext, Use
  <2>3. CASE Unlink(t)  BY <2>3 DEF LateUse, Unlink
  <2> QED  BY <1>1, <2>1, <2>2, <2>3 DEF Step
<1>2. ASSUME NEW i \in Interfaces,
             FuseStep(i) \/ UnmountOutside(i) \/ \E r \in Reads \cup {Nobody} : Look(i, r)
      PROVE  LateUse'
  BY <1>2 DEF LateUse, FuseStep, Mount, EndSession, Gone, Walked, Send, Use, UnmountOutside, Look
<1>3. CASE \E t, u \in Threads : Collide(t, u)  BY <1>3 DEF LateUse, Collide
<1>4. CASE Create \/ Started \/ StartedSoon \/ StartLoop \/ Consume \/ Signal \/ EndPool
           \/ EndLoop \/ Kill
  BY <1>4 DEF LateUse, Create, Started, StartedSoon, Enlist, StartLoop, Consume, Signal,
              EndPool, EndLoop, Kill
<1>5. CASE CloseSources  BY <1>5 DEF LateUse, CloseSources
<1>6. CASE StatTick  BY <1>6 DEF LateUse, StatTick, Use
<1>7. CASE \E r \in Reads : ReadDone(r)  BY <1>7 DEF LateUse, ReadDone, Use
<1>8. CASE UNCHANGED lifeVars  BY <1>8 DEF LateUse, lifeVars
<1> QED  BY <1>1, <1>2, <1>3, <1>4, <1>5, <1>6, <1>7, <1>8 DEF LifeNext

-----------------------------------------------------------------------------
(* Steps that neither begin nor end a call *)

NoCalls(s) == \A k \in 1..Len(s) : s[k].do \notin CallDo \cup {"next"}

LEMMA NoCallsIn ==
  /\ NoCalls(<<>>)
  /\ \A x : x.do \notin CallDo \cup {"next"} => NoCalls(<<x>>)
  /\ \A x, y : {x.do, y.do} \cap (CallDo \cup {"next"}) = {} => NoCalls(<<x, y>>)
  /\ \A x, y, z : {x.do, y.do, z.do} \cap (CallDo \cup {"next"}) = {} => NoCalls(<<x, y, z>>)
<1> DEFINE C == CallDo \cup {"next"}
<1>1. NoCalls(<<>>)  BY DEF NoCalls
<1>2. ASSUME NEW x, x.do \notin C PROVE NoCalls(<<x>>)  BY <1>2 DEF NoCalls
<1>3. ASSUME NEW x, NEW y, {x.do, y.do} \cap C = {} PROVE NoCalls(<<x, y>>)
  <2>1. x.do \notin C /\ y.do \notin C  BY <1>3
  <2>2. Len(<<x, y>>) = 2 /\ <<x, y>>[1] = x /\ <<x, y>>[2] = y  OBVIOUS
  <2> HIDE DEF C
  <2>3. \A k \in 1..2 : <<x, y>>[k].do \notin C  BY <2>1, <2>2
  <2> QED  BY <2>2, <2>3 DEF NoCalls, C
<1>4. ASSUME NEW x, NEW y, NEW z, {x.do, y.do, z.do} \cap C = {} PROVE NoCalls(<<x, y, z>>)
  <2>1. x.do \notin C /\ y.do \notin C /\ z.do \notin C  BY <1>4
  <2>2. /\ Len(<<x, y, z>>) = 3 /\ <<x, y, z>>[1] = x /\ <<x, y, z>>[2] = y
        /\ <<x, y, z>>[3] = z
    OBVIOUS
  <2> HIDE DEF C
  <2>3. \A k \in 1..3 : <<x, y, z>>[k].do \notin C  BY <2>1, <2>2
  <2> QED  BY <2>2, <2>3 DEF NoCalls, C
<1> QED  BY <1>1, <1>2, <1>3, <1>4

LEMMA QuietFrame ==
  ASSUME work \in [Threads -> Seq(Tasks)], work' \in [Threads -> Seq(Tasks)],
         \A u \in Threads : work'[u] = work[u] \/ (NoCalls(work[u]) /\ NoCalls(work'[u]))
  PROVE  /\ \A u \in Threads, b \in Nat, do \in CallDo : \A at :
              Has(u, b, do, at)' <=> Has(u, b, do, at)
         /\ \A u \in Threads, b \in Nat : /\ InStack(u, b)' /\ Deep(u, b)'.do = "next"
                                          => InStack(u, b) /\ Deep(u, b).do = "next"
         /\ \A c : Releases(c)' = Releases(c)
<1>1. ASSUME NEW u \in Threads, NEW b \in Nat
      PROVE  /\ InStack(u, b)' /\ Deep(u, b)'.do \in CallDo \cup {"next"}
                => InStack(u, b) /\ Deep(u, b) = Deep(u, b)'
             /\ InStack(u, b) /\ Deep(u, b).do \in CallDo \cup {"next"}
                => InStack(u, b)' /\ Deep(u, b) = Deep(u, b)'
  <2>1. CASE work'[u] = work[u]  BY <2>1 DEF InStack, Deep
  <2>2. CASE NoCalls(work[u]) /\ NoCalls(work'[u])
    <3>1. Len(work[u]) \in Nat /\ Len(work'[u]) \in Nat  OBVIOUS
    <3>2. InStack(u, b) => Len(work[u]) - b \in 1..Len(work[u])  BY <3>1 DEF InStack
    <3>3. InStack(u, b)' => Len(work'[u]) - b \in 1..Len(work'[u])  BY <3>1 DEF InStack
    <3>4. InStack(u, b) => Deep(u, b).do \notin CallDo \cup {"next"}
      BY <2>2, <3>2 DEF NoCalls, Deep
    <3>5. InStack(u, b)' => Deep(u, b)'.do \notin CallDo \cup {"next"}
      BY <2>2, <3>3 DEF NoCalls, Deep
    <3> QED  BY <3>4, <3>5
  <2> QED  BY <2>1, <2>2
<1>2. \A u \in Threads, b \in Nat, do \in CallDo : \A at :
              Has(u, b, do, at)' <=> Has(u, b, do, at)
  <2> SUFFICES ASSUME NEW u \in Threads, NEW b \in Nat, NEW do \in CallDo, NEW at
               PROVE  Has(u, b, do, at)' <=> Has(u, b, do, at)
    OBVIOUS
  <2> DEFINE x == [do |-> do, at |-> at]
  <2>1. x.do \in CallDo \cup {"next"}  OBVIOUS
  <2>2. /\ Has(u, b, do, at)' <=> InStack(u, b)' /\ Deep(u, b)' = x
        /\ Has(u, b, do, at) <=> InStack(u, b) /\ Deep(u, b) = x
    BY DEF Has
  <2> HIDE DEF x
  <2> QED  BY <1>1, <2>1, <2>2
<1>3. "release" \in CallDo  BY DEF CallDo
<1>4. \A c : Releases(c)' = Releases(c)
  <2> SUFFICES ASSUME NEW c PROVE Releases(c)' = Releases(c)  OBVIOUS
  <2>1. {q \in Threads \X Nat : Has(q[1], q[2], "release", c)'}
          = {q \in Threads \X Nat : Has(q[1], q[2], "release", c)}
    <3>1. \A q \in Threads \X Nat :
            Has(q[1], q[2], "release", c)' <=> Has(q[1], q[2], "release", c)
      <4> SUFFICES ASSUME NEW q \in Threads \X Nat
                   PROVE  Has(q[1], q[2], "release", c)' <=> Has(q[1], q[2], "release", c)
        OBVIOUS
      <4>1. q[1] \in Threads /\ q[2] \in Nat  OBVIOUS
      <4> QED  BY <1>2, <1>3, <4>1
    <3> QED  BY <3>1
  <2> QED  BY <2>1 DEF Releases
<1>5. \A u \in Threads, b \in Nat : /\ InStack(u, b)' /\ Deep(u, b)'.do = "next"
                                    => InStack(u, b) /\ Deep(u, b).do = "next"
  BY <1>1
<1> QED  BY <1>2, <1>4, <1>5

Quiet == \A u \in Threads, b \in Nat, do \in CallDo : \A at :
           Has(u, b, do, at)' <=> Has(u, b, do, at)

LEMMA QuietOnce ==
  ASSUME Quiet, LifeTypeOK, QuitOK, JoinOK, SwapOK, UnlinkOK, ExitOK,
         \A i \in Interfaces : pc[i] # "unborn" => pc'[i] # "unborn",
         \A c \in Counters : /\ count[c] = 0 <=> count'[c] = 0
                             /\ count[c] > 0 <=> count'[c] > 0,
         UNCHANGED <<shut, listed, ender, sources>>, exit' = exit,
         phase' = "over" => phase = "over" \/ exit
  PROVE  QuitOK' /\ JoinOK' /\ SwapOK' /\ UnlinkOK' /\ ExitOK'
<1>1. {"quit", "join", "swap", "unlink", "exit", "release"} \subseteq CallDo  BY DEF CallDo
<1>2. {"running", "list", "loop"} \subseteq Counters /\ Interfaces \subseteq Counters
  BY DEF Counters
<1>3. QuitOK'  BY <1>1 DEF Quiet, QuitOK
<1>4. JoinOK'
  <2>1. ASSUME NEW i \in Interfaces
        PROVE  /\ i \in shut' => count'[i] = 0
               /\ \A u \in Threads, b \in Nat : Has(u, b, "join", i)' =>
                    /\ count'[i] = 0 /\ i \notin shut'
                    /\ \A v \in Threads, d \in Nat : Has(v, d, "join", i)' => v = u /\ d = b
    <3>1. i \in shut => count[i] = 0  BY DEF JoinOK
    <3>2. \A u \in Threads, b \in Nat : Has(u, b, "join", i) =>
          /\ count[i] = 0 /\ i \notin shut
          /\ \A v \in Threads, d \in Nat : Has(v, d, "join", i) => v = u /\ d = b
      BY DEF JoinOK
    <3>3. \A u \in Threads, b \in Nat : Has(u, b, "join", i)' <=> Has(u, b, "join", i)
      BY <1>1 DEF Quiet
    <3> QED  BY <1>2, <3>1, <3>2, <3>3
  <2> QED  BY <2>1 DEF JoinOK
<1>5. SwapOK'
  <2>1. \A u \in Threads, b \in Nat : Has(u, b, "swap", Nobody)' <=> Has(u, b, "swap", Nobody)
    BY <1>1 DEF Quiet
  <2>2. \A u \in Threads, b \in Nat :
          Has(u, b, "release", "icc")' <=> Has(u, b, "release", "icc")
    BY <1>1 DEF Quiet
  <2>3. ASSUME NEW u \in Threads, NEW b \in Nat, Has(u, b, "swap", Nobody)
        PROVE  /\ b > 0 /\ Has(u, b - 1, "release", "icc")'
               /\ listed' /\ count'["running"] = 0
               /\ \A v \in Threads, d \in Nat : Has(v, d, "swap", Nobody)' => v = u /\ d = b
    <3>1. /\ b > 0 /\ Has(u, b - 1, "release", "icc") /\ listed /\ count["running"] = 0
          /\ \A v \in Threads, d \in Nat : Has(v, d, "swap", Nobody) => v = u /\ d = b
      BY <2>3 DEF SwapOK
    <3>2. b - 1 \in Nat  BY <3>1
    <3> QED  BY <1>2, <2>1, <2>2, <3>1, <3>2
  <2>4. listed' => \/ count'["running"] > 0
                   \/ \E u \in Threads, b \in Nat : Has(u, b, "swap", Nobody)'
    BY <1>2, <2>1 DEF SwapOK
  <2>5. (ender' # Nobody => ~listed') /\ (count'["running"] > 0 => listed')
    BY <1>2 DEF SwapOK
  <2> QED  BY <2>1, <2>3, <2>4, <2>5 DEF SwapOK
<1>6. UnlinkOK'
  <2>1. \A u \in Threads, b \in Nat :
          Has(u, b, "unlink", Nobody)' <=> Has(u, b, "unlink", Nobody)
    BY <1>1 DEF Quiet
  <2> QED  BY <1>2, <2>1 DEF UnlinkOK
<1>7. ExitOK'
  <2>1. \A u \in Threads, b \in Nat : Has(u, b, "exit", Nobody)' <=> Has(u, b, "exit", Nobody)
    BY <1>1 DEF Quiet
  <2> QED  BY <1>2, <2>1 DEF ExitOK
<1> QED  BY <1>3, <1>4, <1>5, <1>6, <1>7

LEMMA QuietSignal ==
  ASSUME SignalOK,
         \A u \in Threads, b \in Nat : /\ InStack(u, b)' /\ Deep(u, b)'.do = "next"
                                       => InStack(u, b) /\ Deep(u, b).do = "next",
         count'["icc"] = 0 => count["icc"] = 0, UNCHANGED <<listed, ender>>,
         "icc" \in astray' => "icc" \in astray,
         Signalling' => Signalling
  PROVE  SignalOK'
  BY DEF SignalOK

LEMMA FuseSame ==
  ASSUME NEW i, FuseStack(i), work'[i] = work[i], pc'[i] = pc[i],
         \A r \in Reads : Asked(i, r) => Asked(i, r)'
  PROVE  FuseStack(i)'
<1>1. \A b : Deep(i, b)' = Deep(i, b) /\ (InStack(i, b)' <=> InStack(i, b))
  BY DEF Deep, InStack
<1> QED  BY <1>1 DEF FuseStack

LEMMA MainSame ==
  ASSUME MainStack, work'[Main] = work[Main], phase' = phase,
         work[Main] = <<>> \/ UNCHANGED <<starting, made>>,
         \A r \in Reads : read[r] = "running" => read'[r] = "running"
  PROVE  MainStack' /\ (Signalling' <=> Signalling) /\ (Consuming' <=> Consuming)
<1>1. \A b : Deep(Main, b)' = Deep(Main, b) /\ (InStack(Main, b)' <=> InStack(Main, b))
  BY DEF Deep, InStack
<1>2. (Consuming' <=> Consuming) /\ (Signalling' <=> Signalling)  BY DEF Consuming, Signalling
<1>3. MainStack'
  <2>1. CASE work[Main] = <<>>
    <3>1. \A b \in Nat : ~InStack(Main, b)  BY <2>1 DEF InStack
    <3> QED  BY <1>1, <1>2, <2>1, <3>1 DEF MainStack
  <2>2. CASE UNCHANGED <<starting, made>>
    BY <1>1, <1>2, <2>2 DEF MainStack
  <2> QED  BY <2>1, <2>2
<1> QED  BY <1>2, <1>3

Kept(c) == Releases(c)' \subseteq Releases(c)

\* Which holders a step that keeps the releases has to look at
LEMMA AllKeep ==
  ASSUME \A c \in Counters : count'[c] > 0 <=> count[c] > 0,
         phase' = "config" => phase = "config", pool' => pool,
         sources' # "closed" => sources # "closed"
  PROVE  /\ Kept("icc") /\ Nexts' \subseteq Nexts => Holders("icc")' \subseteq Holders("icc")
         /\ Kept("running") /\ (\A i \in Interfaces : Active(i)' => Active(i))
            => Holders("running")' \subseteq Holders("running")
         /\ Kept("loop") => Holders("loop")' \subseteq Holders("loop")
         /\ Kept("list") /\ Running' \subseteq Running
            => Holders("list")' \subseteq Holders("list")
         /\ Kept("list") /\ Running' \subseteq Running /\ Kept("listMem")
            /\ (\A i \in Interfaces : Listing(i)' => Listing(i))
            => Holders("listMem")' \subseteq Holders("listMem")
         /\ \A i \in Interfaces : /\ Kept(i) /\ (Serving(i)' => Serving(i))
                                  /\ Readers(i)' \subseteq Readers(i)
                                  => Holders(i)' \subseteq Holders(i)
<1>1. {"icc", "running", "loop", "list", "listMem"} \subseteq Counters  BY DEF Counters
<1>2. /\ count'["icc"] > 0 <=> count["icc"] > 0
      /\ count'["running"] > 0 <=> count["running"] > 0
      /\ count'["list"] > 0 <=> count["list"] > 0
      /\ count'["listMem"] > 0 <=> count["listMem"] > 0
  BY <1>1
<1>3. Kept("icc") /\ Nexts' \subseteq Nexts => Holders("icc")' \subseteq Holders("icc")
  BY <1>2, KeepsIcc DEF Kept
<1>4. Kept("running") /\ (\A i \in Interfaces : Active(i)' => Active(i))
            => Holders("running")' \subseteq Holders("running")
  BY <1>2, KeepsRunning DEF Kept
<1>5. Kept("loop") => Holders("loop")' \subseteq Holders("loop")
  BY <1>2, KeepsLoop DEF Kept
<1>6. Kept("list") /\ Running' \subseteq Running => Holders("list")' \subseteq Holders("list")
  BY <1>2, KeepsList DEF Kept
<1>7. Kept("list") /\ Running' \subseteq Running /\ Kept("listMem")
            /\ (\A i \in Interfaces : Listing(i)' => Listing(i))
            => Holders("listMem")' \subseteq Holders("listMem")
  BY <1>2, KeepsListMem DEF Kept
<1>8. \A i \in Interfaces : /\ Kept(i) /\ (Serving(i)' => Serving(i))
                            /\ Readers(i)' \subseteq Readers(i)
                            => Holders(i)' \subseteq Holders(i)
  BY <1>2, KeepsInterface DEF Kept
<1> QED  BY <1>3, <1>4, <1>5, <1>6, <1>7, <1>8
-----------------------------------------------------------------------------
(* Types *)

LEMMA OnZeroIs ==
  /\ OnZero("icc") = [k \in 1..made |-> [do |-> "release", at |-> Order[k]]]
  /\ OnZero("running") = <<[do |-> "swap", at |-> Nobody], [do |-> "release", at |-> "icc"],
                           [do |-> "release", at |-> "loop"], [do |-> "release", at |-> "list"]>>
  /\ OnZero("loop") = <<[do |-> "exit", at |-> Nobody]>>
  /\ OnZero("list") = <<[do |-> "unlink", at |-> Nobody], [do |-> "release", at |-> "listMem"]>>
  /\ OnZero("listMem") = <<[do |-> "release", at |-> "loop"]>>
  /\ \A i \in Interfaces : OnZero(i) = <<[do |-> "quit", at |-> i], [do |-> "join", at |-> i]>>
<1>1. \A i \in Interfaces : i \notin {"icc", "running", "loop", "list", "listMem"}
  BY InterfaceIsOther
<1>2. OnZero("icc") = [k \in 1..made |-> [do |-> "release", at |-> Order[k]]]  BY DEF OnZero
<1>3. OnZero("running") = Task("swap", Nobody) \o Task("release", "icc")
                          \o Task("release", "loop") \o Task("release", "list")
  BY DEF OnZero
<1>4. OnZero("loop") = Task("exit", Nobody) /\ OnZero("listMem") = Task("release", "loop")
  BY DEF OnZero
<1>5. OnZero("list") = Task("unlink", Nobody) \o Task("release", "listMem")  BY DEF OnZero
<1>6. \A i \in Interfaces : OnZero(i) = Task("quit", i) \o Task("join", i)
  BY <1>1 DEF OnZero
<1>7. OnZero("running") =
        <<[do |-> "swap", at |-> Nobody], [do |-> "release", at |-> "icc"],
          [do |-> "release", at |-> "loop"], [do |-> "release", at |-> "list"]>>
  <2> DEFINE x == [do |-> "swap", at |-> Nobody]
             y == [do |-> "release", at |-> "icc"]
             z == [do |-> "release", at |-> "loop"]
             w == [do |-> "release", at |-> "list"]
  <2>1. /\ Task("swap", Nobody) = <<x>> /\ Task("release", "icc") = <<y>>
        /\ Task("release", "loop") = <<z>> /\ Task("release", "list") = <<w>>
    BY DEF Task
  <2>2. OnZero("running") = <<x>> \o <<y>> \o <<z>> \o <<w>>  BY <1>3, <2>1
  <2> HIDE DEF x, y, z, w
  <2>3. <<x>> \o <<y>> = <<x, y>>  BY OneAndOne
  <2>4. <<x, y>> \o <<z>> = <<x, y, z>>  BY TwoAndOne
  <2>5. <<x, y, z>> \o <<w>> = <<x, y, z, w>>  BY ThreeAndOne
  <2>6. OnZero("running") = <<x, y, z, w>>  BY <2>2, <2>3, <2>4, <2>5
  <2> QED  BY <2>6 DEF x, y, z, w
<1>8. /\ OnZero("loop") = <<[do |-> "exit", at |-> Nobody]>>
      /\ OnZero("listMem") = <<[do |-> "release", at |-> "loop"]>>
  BY <1>4 DEF Task
<1>9. OnZero("list") = <<[do |-> "unlink", at |-> Nobody], [do |-> "release", at |-> "listMem"]>>
  BY <1>5, TwoTasks
<1>10. \A i \in Interfaces : OnZero(i) = <<[do |-> "quit", at |-> i], [do |-> "join", at |-> i]>>
  BY <1>6, TwoTasks
<1> QED  BY <1>2, <1>7, <1>8, <1>9, <1>10

LEMMA SeqTasks ==
  /\ <<>> \in Seq(Tasks)
  /\ \A x \in Tasks : <<x>> \in Seq(Tasks)
  /\ \A x, y \in Tasks : <<x, y>> \in Seq(Tasks)
  /\ \A x, y, z \in Tasks : <<x, y, z>> \in Seq(Tasks)
  /\ \A x, y, z, w \in Tasks : <<x, y, z, w>> \in Seq(Tasks)
  OBVIOUS

LEMMA OnZeroTyped ==
  ASSUME LifeTypeOK, NEW c \in Counters
  PROVE  OnZero(c) \in Seq(Tasks)
<1>1. c \in {"icc", "running", "loop", "list", "listMem"} \/ c \in Interfaces  BY CounterKinds
<1>2. CASE c = "icc"
  <2>1. made \in Nat /\ \A k \in 1..made : Order[k] \in Interfaces
    BY OrderIs DEF LifeTypeOK
  <2>2. \A k \in 1..made : [do |-> "release", at |-> Order[k]] \in Tasks
    BY <2>1, TasksAre
  <2> DEFINE f(k) == [do |-> "release", at |-> Order[k]]
  <2>3. OnZero(c) = [k \in 1..made |-> f(k)] /\ \A k \in 1..made : f(k) \in Tasks
    BY <1>2, <2>2, OnZeroIs
  <2> HIDE DEF f
  <2> QED  BY <2>1, <2>3
<1> DEFINE T(do, at) == [do |-> do, at |-> at]
<1>3. \A c2 \in Counters : T("release", c2) \in Tasks  BY TasksAre
<1>4. {"icc", "loop", "list", "listMem"} \subseteq Counters  BY TasksAre
<1>5. T("swap", Nobody) \in Tasks /\ T("exit", Nobody) \in Tasks /\ T("unlink", Nobody) \in Tasks
  BY TasksAre
<1>6. \A i \in Interfaces : T("quit", i) \in Tasks /\ T("join", i) \in Tasks  BY TasksAre
<1>7. /\ OnZero("running") = <<T("swap", Nobody), T("release", "icc"), T("release", "loop"),
                               T("release", "list")>>
      /\ OnZero("loop") = <<T("exit", Nobody)>>
      /\ OnZero("list") = <<T("unlink", Nobody), T("release", "listMem")>>
      /\ OnZero("listMem") = <<T("release", "loop")>>
      /\ \A i \in Interfaces : OnZero(i) = <<T("quit", i), T("join", i)>>
  BY OnZeroIs
<1> HIDE DEF T
<1>8. T("release", "icc") \in Tasks /\ T("release", "loop") \in Tasks
      /\ T("release", "list") \in Tasks /\ T("release", "listMem") \in Tasks
  BY <1>3, <1>4
<1>9. OnZero("running") \in Seq(Tasks) /\ OnZero("loop") \in Seq(Tasks)
  BY <1>5, <1>7, <1>8, SeqTasks
<1>10. OnZero("list") \in Seq(Tasks) /\ OnZero("listMem") \in Seq(Tasks)
  BY <1>5, <1>7, <1>8, SeqTasks
<1>11. \A i \in Interfaces : OnZero(i) \in Seq(Tasks)
  BY <1>6, <1>7, SeqTasks
<1> QED  BY <1>1, <1>2, <1>9, <1>10, <1>11

LEMMA CallTyped ==
  ASSUME LifeTypeOK, NEW t \in Threads, work[t] # <<>>, NEW tasks \in Seq(Tasks), Call(t, tasks)
  PROVE  work' \in [Threads -> Seq(Tasks)]
<1>1. work \in [Threads -> Seq(Tasks)]  BY DEF LifeTypeOK
<1> QED  BY <1>1, CallPushes DEF Pushed

LEMMA HandleTyped ==
  ASSUME LifeTypeOK, NEW tasks \in Seq(Tasks), Handle(tasks)
  PROVE  work' \in [Threads -> Seq(Tasks)]
<1>1. work \in [Threads -> Seq(Tasks)] /\ Main \in Threads  BY ThreadsAre DEF LifeTypeOK
<1> QED  BY <1>1 DEF Handle

LEMMA CounterTyped ==
  ASSUME LifeTypeOK, NEW t \in Threads, Counts(t)
  PROVE  /\ Counter(t) \in Counters /\ At(t) \in Counters /\ work[t] # <<>>
         /\ Counted(t) \in Nat /\ count[Counter(t)] \in Nat
         /\ count[Counter(t)] = 0 => Counted(t) = 0
         /\ count[Counter(t)] > 0 /\ Acquires(t) => Counted(t) = count[Counter(t)] + 1
         /\ count[Counter(t)] > 0 /\ Due(t, "release") => Counted(t) = count[Counter(t)] - 1
<1>1. At(t) \in Counters /\ work[t] # <<>> /\ Head(work[t]).do \in {"acquire", "release"}
  <2>1. Head(work[t]) \in Tasks /\ work[t] # <<>> /\ Head(work[t]).do \in {"acquire", "release"}
    BY DueIs DEF Counts, Acquires, Due
  <2> QED  BY <2>1, TaskTypes DEF At
<1>2. Counter(t) \in Counters  BY <1>1, TasksAre DEF Counter
<1>3. count[Counter(t)] \in Nat  BY <1>2 DEF LifeTypeOK
<1>4. Due(t, "release") => ~Acquires(t)  BY DEF Due, Acquires
<1> DEFINE n == count[Counter(t)]
<1>5. Counted(t) = IF n = 0 THEN 0 ELSE IF Acquires(t) THEN n + 1 ELSE n - 1  BY DEF Counted
<1>6. n \in Nat  BY <1>3
<1> HIDE DEF n
<1>7. /\ Counted(t) \in Nat
      /\ n = 0 => Counted(t) = 0
      /\ n > 0 /\ Acquires(t) => Counted(t) = n + 1
      /\ n > 0 /\ Due(t, "release") => Counted(t) = n - 1
  BY <1>4, <1>5, <1>6
<1> QED  BY <1>1, <1>2, <1>3, <1>7 DEF n

LEMMA CountTyped ==
  ASSUME LifeTypeOK, NEW t \in Threads, Count(t)
  PROVE  LifeTypeOK'
<1>1. Counts(t)  BY DEF Count
<1>2. /\ Counter(t) \in Counters /\ work[t] # <<>> /\ Counted(t) \in Nat
  BY <1>1, CounterTyped
<1> DEFINE c == Counter(t)
           tasks == IF count[c] = 0 THEN <<>> ELSE Callbacks(t, Counted(t))
<1>3. tasks \in Seq(Tasks)
  BY <1>2, OnZeroTyped, SeqTasks DEF Callbacks
<1>4. Call(t, tasks) /\ count' = [count EXCEPT ![c] = Counted(t)]  BY DEF Count
<1> HIDE DEF tasks
<1>5. work' \in [Threads -> Seq(Tasks)]  BY <1>2, <1>3, <1>4, CallTyped
<1>6. count' \in [Counters -> Nat]  BY <1>2, <1>4 DEF LifeTypeOK
<1>7. astray' \subseteq {"count", "icc", "interface", "list", "stats", "syncif"}
  BY DEF Count, Use, LifeTypeOK
<1> QED  BY <1>5, <1>6, <1>7
         DEF Count, LifeTypeOK, runVars, fiVars, mountVars, readVars, endVars, pastVars

LEMMA AtTypes ==
  ASSUME LifeTypeOK, NEW t \in Threads, NEW do, Due(t, do)
  PROVE  /\ work[t] # <<>>
         /\ do \in {"acquire", "release"} => At(t) \in Counters
         /\ do \in {"start", "quit", "unmount", "join"} => At(t) \in Interfaces
         /\ do = "walk" => At(t) \in Reads \cup {Nobody}
         /\ do = "send" => At(t) \in Reads
         /\ do = "next" => At(t) \in 1..Len(Order) + 1
<1>1. work[t] # <<>> /\ Head(work[t]) \in Tasks /\ Head(work[t]).do = do
  BY DueIs DEF Due
<1> QED  BY <1>1, TaskTypes DEF At

LEMMA StartTyped ==
  ASSUME LifeTypeOK, NEW t \in Threads, Start(t)
  PROVE  LifeTypeOK'
<1>1. Due(t, "start")  BY DEF Start
<1>2. work[t] # <<>> /\ At(t) \in Interfaces
  BY <1>1, AtTypes
<1> DEFINE a == [do |-> "acquire", at |-> At(t)]
           m == [do |-> "mount", at |-> Nobody]
<1>3. a \in Tasks /\ m \in Tasks  BY <1>2, TasksAre
<1>4. Task("acquire", At(t)) \o Task("mount", Nobody) = <<a, m>>  BY TwoTasks
<1>5. work' = [work EXCEPT ![t] = Tail(@), ![At(t)] = <<a, m>>]  BY <1>4 DEF Start
<1> HIDE DEF a, m
<1>6. work' \in [Threads -> Seq(Tasks)]
  <2>1. Tail(work[t]) \in Seq(Tasks)  BY <1>2 DEF LifeTypeOK
  <2>2. <<a, m>> \in Seq(Tasks)  BY <1>3
  <2>3. work \in [Threads -> Seq(Tasks)]  BY DEF LifeTypeOK
  <2> QED  BY <1>5, <2>1, <2>2, <2>3
<1>7. starting' \in Interfaces
  BY <1>2 DEF Start
<1>8. pc' \in [Interfaces -> {"unborn", "start", "serve", "finish", "gone"}]
  BY <1>2 DEF Start, LifeTypeOK
<1> QED  BY <1>6, <1>7, <1>8 DEF Start, LifeTypeOK, mountVars, readVars, endVars, pastVars

LEMMA MainTyped ==
  ASSUME LifeTypeOK, Orderly => Steady, Create \/ StartLoop \/ Consume \/ Signal
         \/ CloseSources \/ EndPool \/ \E r \in Reads : ReadDone(r)
  PROVE  LifeTypeOK'
<1> DEFINE T(do, at) == [do |-> do, at |-> at]
<1>0. /\ \A c \in Counters : T("release", c) \in Tasks /\ T("acquire", c) \in Tasks
      /\ {"icc", "running", "loop", "list", "listMem"} \subseteq Counters
      /\ Interfaces \subseteq Counters
      /\ \A i \in Interfaces : T("start", i) \in Tasks
      /\ 1 \in 1..Len(Order) + 1 => T("next", 1) \in Tasks
      /\ T("arm", Nobody) \in Tasks
  BY TasksAre
<1>1. CASE Create
  <2> DEFINE i == Order[made + 1]
  <2>1. i \in Interfaces
    <3>1. made + 1 \in 1..Len(Order)  BY <1>1, OrderIs DEF Create, LifeTypeOK
    <3> QED  BY <3>1, OrderIs
  <2>2. Handle(Task("acquire", "listMem") \o Task("acquire", "running") \o Task("start", i))
    BY <1>1 DEF Create
  <2> HIDE DEF i
  <2>3. Handle(<<T("acquire", "listMem"), T("acquire", "running"), T("start", i)>>)
    <3>1. Task("acquire", "listMem") \o Task("acquire", "running") \o Task("start", i)
            = <<T("acquire", "listMem"), T("acquire", "running"), T("start", i)>>
      BY ThreeTasks
    <3> QED  BY <2>2, <3>1
  <2>4. T("acquire", "listMem") \in Tasks /\ T("acquire", "running") \in Tasks
        /\ T("start", i) \in Tasks
    BY <1>0, <2>1
  <2> HIDE DEF T
  <2>5. work' \in [Threads -> Seq(Tasks)]  BY <2>3, <2>4, SeqTasks, HandleTyped
  <2> QED  BY <1>1, <2>5 DEF Create, LifeTypeOK, runVars, fiVars, mountVars, readVars, endVars, pastVars
<1>2. ASSUME NEW c \in Counters, Handle(Task("release", c)) PROVE work' \in [Threads -> Seq(Tasks)]
  <2>1. Task("release", c) = <<T("release", c)>> /\ T("release", c) \in Tasks  BY <1>0 DEF Task
  <2> HIDE DEF T
  <2> QED  BY <1>2, <2>1, SeqTasks, HandleTyped
<1>3. CASE StartLoop
  BY <1>0, <1>2, <1>3 DEF StartLoop, LifeTypeOK, runVars, fiVars, mountVars, readVars, endVars, pastVars
<1>4. CASE CloseSources
  BY <1>0, <1>2, <1>4 DEF CloseSources, LifeTypeOK, runVars, fiVars, mountVars, readVars, endVars, pastVars
<1>5. CASE EndPool
  BY <1>0, <1>2, <1>5 DEF EndPool, LifeTypeOK, runVars, fiVars, mountVars, readVars, endVars, pastVars
<1>6. CASE Consume
  <2>1. Handle(<<T("acquire", "list")>>)  BY <1>6 DEF Consume, Task
  <2>2. T("acquire", "list") \in Tasks  BY <1>0
  <2> HIDE DEF T
  <2>3. work' \in [Threads -> Seq(Tasks)]  BY <2>1, <2>2, SeqTasks, HandleTyped
  <2>4. inbox \in Seq(Reads) /\ inbox # <<>> /\ inbox' = Tail(inbox)
        /\ read' = [read EXCEPT ![Head(inbox)] = "running"]
    BY <1>6 DEF Consume, LifeTypeOK
  <2>5. inbox' \in Seq(Reads)  BY <2>4
  <2>6. read' \in [Reads -> ReadStages]
    BY <2>4 DEF LifeTypeOK, ReadStages
  <2> QED  BY <1>6, <2>3, <2>5, <2>6 DEF Consume, LifeTypeOK, runVars, fiVars, mountVars, endVars, pastVars
<1>7. CASE Signal
  <2>1. CASE listed
    <3>1. Handle(Task("acquire", "icc") \o Task("next", 1) \o Task("arm", Nobody))
      BY <1>7, <2>1 DEF Signal
    <3>2. Handle(<<T("acquire", "icc"), T("next", 1), T("arm", Nobody)>>)
      <4>1. Task("acquire", "icc") \o Task("next", 1) \o Task("arm", Nobody)
              = <<T("acquire", "icc"), T("next", 1), T("arm", Nobody)>>
        BY ThreeTasks
      <4> QED  BY <3>1, <4>1
    <3>3. T("acquire", "icc") \in Tasks /\ T("next", 1) \in Tasks /\ T("arm", Nobody) \in Tasks
      <4>1. 1 \in 1..Len(Order) + 1  BY OrderIs
      <4> HIDE DEF T
      <4> QED  BY <1>0, <4>1
    <3> HIDE DEF T
    <3>4. work' \in [Threads -> Seq(Tasks)]  BY <3>2, <3>3, SeqTasks, HandleTyped
    <3>5. signals' \in 0..MaxSignals  BY <1>7, SignalsAssumption DEF Signal, LifeTypeOK
    <3> QED  BY <1>7, <3>4, <3>5
             DEF Signal, LifeTypeOK, runVars, fiVars, mountVars, readVars, endVars, pastVars
  <2>2. CASE ~listed
    <3>1. Handle(<<>> \o Task("arm", Nobody))  BY <1>7, <2>2 DEF Signal
    <3>2. Task("arm", Nobody) = <<T("arm", Nobody)>>  BY DEF Task
    <3>3. T("arm", Nobody) \in Tasks  BY <1>0
    <3> HIDE DEF T
    <3>4. <<T("arm", Nobody)>> \in Seq(Tasks)  BY <3>3
    <3>5. <<>> \o <<T("arm", Nobody)>> \in Seq(Tasks)  BY <3>4
    <3>6. work' \in [Threads -> Seq(Tasks)]  BY <3>1, <3>2, <3>5, HandleTyped
    <3>7. signals' \in 0..MaxSignals  BY <1>7, SignalsAssumption DEF Signal, LifeTypeOK
    <3> QED  BY <1>7, <3>6, <3>7
             DEF Signal, LifeTypeOK, runVars, fiVars, mountVars, readVars, endVars, pastVars
  <2> QED  BY <2>1, <2>2
<1>8. ASSUME NEW r \in Reads, ReadDone(r) PROVE LifeTypeOK'
  <2>1. from[r] \in Interfaces
    <3>1. Steady /\ read[r] = "running"  BY <1>8 DEF ReadDone, Idle, Going
    <3> QED  BY <3>1 DEF Steady, QueueOK
  <2> DEFINE i == from[r]
  <2>2. Handle(Task("release", i) \o Task("release", "list"))  BY <1>8 DEF ReadDone
  <2>3. Handle(<<T("release", i), T("release", "list")>>)  BY <2>2, TwoTasks
  <2>4. T("release", i) \in Tasks /\ T("release", "list") \in Tasks  BY <1>0, <2>1
  <2> HIDE DEF T, i
  <2>5. work' \in [Threads -> Seq(Tasks)]  BY <2>3, <2>4, SeqTasks, HandleTyped
  <2>6. read' \in [Reads -> ReadStages]
    BY <1>8 DEF LifeTypeOK, ReadDone, ReadStages
  <2>7. astray' \subseteq {"count", "icc", "interface", "list", "stats", "syncif"}
    BY <1>8 DEF ReadDone, Use, LifeTypeOK
  <2> QED  BY <1>8, <2>5, <2>6, <2>7 DEF ReadDone, LifeTypeOK, runVars, fiVars, mountVars, endVars, pastVars
<1> QED  BY <1>1, <1>3, <1>4, <1>5, <1>6, <1>7, <1>8

LEMMA StepTyped ==
  ASSUME LifeTypeOK, NEW t \in Threads,
         \/ Quit(t) \/ Unmount(t) \/ Join(t) \/ QuitNext(t)
         \/ Arm(t) \/ Swap(t) \/ Unlink(t) \/ Exit(t)
  PROVE  LifeTypeOK'
<1> DEFINE T(do, at) == [do |-> do, at |-> at]
           Things == {"count", "icc", "interface", "list", "stats", "syncif"}
<1>0. /\ \A c \in Counters : T("release", c) \in Tasks
      /\ {"icc", "running", "loop", "list", "listMem"} \subseteq Counters
      /\ Interfaces \subseteq Counters
      /\ \A i \in Interfaces : T("unmount", i) \in Tasks /\ T("quit", i) \in Tasks
      /\ \A k \in 1..Len(Order) + 1 : T("next", k) \in Tasks
  BY TasksAre
<1>1. CASE Quit(t)
  <2>1. work[t] # <<>> /\ At(t) \in Interfaces  BY <1>1, AtTypes DEF Quit
  <2>2. CASE At(t) \in quit
    <3>1. Call(t, <<>>)  BY <1>1, <2>2 DEF Quit
    <3>2. work' \in [Threads -> Seq(Tasks)]  BY <2>1, <3>1, SeqTasks, CallTyped
    <3> QED  BY <1>1, <2>1, <3>2
             DEF Quit, LifeTypeOK, runVars, mountVars, readVars, endVars, pastVars
  <2>3. CASE At(t) \notin quit
    <3>1. Call(t, Task("unmount", At(t)) \o Task("release", "running"))
      BY <1>1, <2>3 DEF Quit
    <3>2. Task("unmount", At(t)) \o Task("release", "running")
            = <<T("unmount", At(t)), T("release", "running")>>
      BY TwoTasks
    <3>3. T("unmount", At(t)) \in Tasks /\ T("release", "running") \in Tasks  BY <1>0, <2>1
    <3> HIDE DEF T
    <3>4. work' \in [Threads -> Seq(Tasks)]  BY <2>1, <3>1, <3>2, <3>3, SeqTasks, CallTyped
    <3> QED  BY <1>1, <2>1, <3>4
             DEF Quit, LifeTypeOK, runVars, mountVars, readVars, endVars, pastVars
  <2> QED  BY <2>2, <2>3
<1>2. CASE Unmount(t)
  <2>1. work[t] # <<>> /\ At(t) \in Interfaces  BY <1>2, AtTypes DEF Unmount
  <2>2. Call(t, <<>>)  BY <1>2 DEF Unmount
  <2>3. work' \in [Threads -> Seq(Tasks)]  BY <2>1, <2>2, SeqTasks, CallTyped
  <2>4. /\ mounted' \subseteq Interfaces
        /\ kernel' \in [Interfaces -> {"none", "up", "down"}]
    BY <1>2 DEF Unmount, LifeTypeOK
  <2> QED  BY <1>2, <2>3, <2>4
           DEF Unmount, LifeTypeOK, runVars, readVars, endVars, pastVars
<1>3. CASE Join(t)
  <2>1. work[t] # <<>> /\ At(t) \in Interfaces  BY <1>3, AtTypes DEF Join
  <2>2. Call(t, <<T("release", "listMem")>>)  BY <1>3 DEF Join, Task
  <2>3. T("release", "listMem") \in Tasks  BY <1>0
  <2> HIDE DEF T
  <2>4. work' \in [Threads -> Seq(Tasks)]  BY <2>1, <2>2, <2>3, SeqTasks, CallTyped
  <2>5. astray' \subseteq Things  BY <1>3 DEF Join, Use, LifeTypeOK
  <2> QED  BY <1>3, <2>1, <2>4, <2>5
           DEF Join, LifeTypeOK, runVars, mountVars, readVars, endVars, pastVars
<1>4. CASE QuitNext(t)
  <2>1. work[t] # <<>> /\ At(t) \in 1..Len(Order) + 1  BY <1>4, AtTypes DEF QuitNext
  <2> DEFINE k == At(t)
  <2>2. \/ Call(t, <<>>)
        \/ Call(t, Task("release", "icc"))
        \/ k <= made /\ Call(t, Task("quit", Order[k]) \o Task("next", k + 1))
    <3>1. count["icc"] \in Nat /\ made \in Nat  BY TasksAre DEF LifeTypeOK
    <3>2. CASE count["icc"] = 0  BY <1>4, <3>1, <3>2 DEF QuitNext
    <3>3. CASE count["icc"] > 0 /\ k > made  BY <1>4, <3>1, <3>3 DEF QuitNext
    <3>4. CASE count["icc"] # 0 /\ ~(count["icc"] > 0 /\ k > made)
      <4>1. k <= made  BY <2>1, <3>1, <3>4, OrderIs
      <4>2. Call(t, Task("quit", Order[k]) \o Task("next", k + 1))  BY <1>4, <3>1, <3>4 DEF QuitNext
      <4> QED  BY <4>1, <4>2
    <3> QED  BY <3>2, <3>3, <3>4
  <2>3. work' \in [Threads -> Seq(Tasks)]
    <3>1. CASE Call(t, <<>>)  BY <2>1, <3>1, SeqTasks, CallTyped
    <3>2. CASE Call(t, Task("release", "icc"))
      <4>1. Task("release", "icc") = <<T("release", "icc")>> /\ T("release", "icc") \in Tasks
        BY <1>0 DEF Task
      <4> HIDE DEF T
      <4> QED  BY <2>1, <3>2, <4>1, SeqTasks, CallTyped
    <3>3. CASE k <= made /\ Call(t, Task("quit", Order[k]) \o Task("next", k + 1))
      <4>1. Task("quit", Order[k]) \o Task("next", k + 1) = <<T("quit", Order[k]), T("next", k + 1)>>
        BY TwoTasks
      <4>2. k \in 1..Len(Order) /\ k + 1 \in 1..Len(Order) + 1
        BY <2>1, <3>3, OrderIs DEF LifeTypeOK
      <4>3. T("quit", Order[k]) \in Tasks /\ T("next", k + 1) \in Tasks
        <5>1. Order[k] \in Interfaces  BY <4>2, OrderIs
        <5> HIDE DEF T, k
        <5> QED  BY <1>0, <4>2, <5>1
      <4> HIDE DEF T
      <4> QED  BY <2>1, <3>3, <4>1, <4>3, SeqTasks, CallTyped
    <3> QED  BY <2>2, <3>1, <3>2, <3>3
  <2>4. astray' \subseteq Things  BY <1>4 DEF QuitNext, Use, LifeTypeOK
  <2> QED  BY <1>4, <2>3, <2>4
           DEF QuitNext, LifeTypeOK, runVars, fiVars, mountVars, readVars, endVars, pastVars
<1>5. CASE Arm(t)
  <2>1. work[t] # <<>> /\ Call(t, <<>>)  BY <1>5, AtTypes DEF Arm
  <2>2. work' \in [Threads -> Seq(Tasks)]  BY <2>1, SeqTasks, CallTyped
  <2> QED  BY <1>5, <2>2
           DEF Arm, LifeTypeOK, runVars, fiVars, mountVars, readVars, endVars, pastVars
<1>6. CASE Swap(t)
  <2>1. work[t] # <<>> /\ Call(t, <<>>)  BY <1>6, AtTypes DEF Swap
  <2>2. work' \in [Threads -> Seq(Tasks)]  BY <2>1, SeqTasks, CallTyped
  <2> QED  BY <1>6, <2>2
           DEF Swap, LifeTypeOK, runVars, fiVars, mountVars, readVars, endVars, pastVars
<1>7. CASE Unlink(t)
  <2>1. work[t] # <<>> /\ Call(t, <<>>)  BY <1>7, AtTypes DEF Unlink
  <2>2. work' \in [Threads -> Seq(Tasks)]  BY <2>1, SeqTasks, CallTyped
  <2>3. astray' \subseteq Things  BY <1>7 DEF Unlink, Use, LifeTypeOK
  <2> QED  BY <1>7, <2>2, <2>3
           DEF Unlink, LifeTypeOK, runVars, fiVars, mountVars, readVars, endVars, pastVars
<1>8. CASE Exit(t)
  <2>1. work[t] # <<>> /\ Call(t, <<>>)  BY <1>8, AtTypes DEF Exit
  <2>2. work' \in [Threads -> Seq(Tasks)]  BY <2>1, SeqTasks, CallTyped
  <2> QED  BY <1>8, <2>2
           DEF Exit, LifeTypeOK, runVars, fiVars, mountVars, readVars, endVars, pastVars
<1> QED  BY <1>1, <1>2, <1>3, <1>4, <1>5, <1>6, <1>7, <1>8

LEMMA FuseTyped ==
  ASSUME LifeTypeOK, NEW i \in Interfaces,
         FuseStep(i) \/ UnmountOutside(i) \/ \E r \in Reads \cup {Nobody} : Look(i, r)
  PROVE  LifeTypeOK'
<1> DEFINE T(do, at) == [do |-> do, at |-> at]
<1>0. /\ \A c \in Counters : T("release", c) \in Tasks /\ T("acquire", c) \in Tasks
      /\ Interfaces \subseteq Counters
      /\ T("quit", i) \in Tasks /\ T("gone", Nobody) \in Tasks
      /\ \A r \in Reads : T("send", r) \in Tasks
      /\ \A r \in Reads \cup {Nobody} : T("walk", r) \in Tasks
  BY TasksAre
<1>1. i \in Threads /\ work \in [Threads -> Seq(Tasks)]  BY ThreadsAre DEF LifeTypeOK
<1>2. Leaving(i) \in Seq(Tasks)
  <2>1. Leaving(i) = <<T("quit", i), T("release", i), T("gone", Nobody)>>
    BY ThreeTasks DEF Leaving
  <2>2. T("quit", i) \in Tasks /\ T("release", i) \in Tasks /\ T("gone", Nobody) \in Tasks
    BY <1>0
  <2> HIDE DEF T
  <2> QED  BY <2>1, <2>2, SeqTasks
<1>3. CASE Mount(i)
  <2>1. work[i] # <<>>  BY <1>1, <1>3, AtTypes DEF Mount
  <2>2. Call(i, <<>>) \/ Call(i, Leaving(i))  BY <1>3 DEF Mount
  <2>3. work' \in [Threads -> Seq(Tasks)]  BY <1>1, <1>2, <2>1, <2>2, SeqTasks, CallTyped
  <2>4. /\ mounted' \subseteq Interfaces
        /\ kernel' \in [Interfaces -> {"none", "up", "down"}]
        /\ pc' \in [Interfaces -> {"unborn", "start", "serve", "finish", "gone"}]
    BY <1>3 DEF Mount, LifeTypeOK
  <2> QED  BY <1>3, <2>3, <2>4 DEF Mount, LifeTypeOK, runVars, readVars, endVars, pastVars
<1>4. CASE EndSession(i)
  <2>1. work' \in [Threads -> Seq(Tasks)]  BY <1>1, <1>2, <1>4 DEF EndSession
  <2> QED  BY <1>4, <2>1 DEF EndSession, LifeTypeOK, runVars, mountVars, readVars, endVars, pastVars
<1>5. CASE Gone(i)
  <2>1. work[i] # <<>> /\ Call(i, <<>>)  BY <1>1, <1>5, AtTypes DEF Gone
  <2>2. work' \in [Threads -> Seq(Tasks)]  BY <1>1, <2>1, SeqTasks, CallTyped
  <2> QED  BY <1>5, <2>2 DEF Gone, LifeTypeOK, runVars, mountVars, readVars, endVars, pastVars
<1>6. CASE Walked(i)
  <2> DEFINE r == At(i)
  <2>1. work[i] # <<>> /\ r \in Reads \cup {Nobody}  BY <1>1, <1>6, AtTypes DEF Walked
  <2>2. \/ r # Nobody /\ Call(i, Task("acquire", i) \o Task("send", r))
        \/ Call(i, <<>>)
    BY <1>6 DEF Walked
  <2>3. work' \in [Threads -> Seq(Tasks)]
    <3>1. CASE r # Nobody /\ Call(i, Task("acquire", i) \o Task("send", r))
      <4>1. Task("acquire", i) \o Task("send", r) = <<T("acquire", i), T("send", r)>>
        BY TwoTasks
      <4>2. T("acquire", i) \in Tasks /\ T("send", r) \in Tasks
        <5>1. r \in Reads  BY <2>1, <3>1
        <5> HIDE DEF T, r
        <5> QED  BY <1>0, <5>1
      <4> HIDE DEF T, r
      <4> QED  BY <1>1, <2>1, <3>1, <4>1, <4>2, SeqTasks, CallTyped
    <3>2. CASE Call(i, <<>>)  BY <1>1, <2>1, <3>2, SeqTasks, CallTyped
    <3> QED  BY <2>2, <3>1, <3>2
  <2>4. read' \in [Reads -> ReadStages]
    BY <1>6, <2>1 DEF Walked, LifeTypeOK, ReadStages
  <2> QED  BY <1>6, <2>3, <2>4
           DEF Walked, LifeTypeOK, runVars, fiVars, mountVars, endVars, pastVars
<1>7. CASE Send(i)
  <2>1. work[i] # <<>> /\ Call(i, <<>>) /\ At(i) \in Reads  BY <1>1, <1>7, AtTypes DEF Send
  <2>2. work' \in [Threads -> Seq(Tasks)]  BY <1>1, <2>1, SeqTasks, CallTyped
  <2>3. inbox' \in Seq(Reads)  BY <1>7, <2>1 DEF Send, LifeTypeOK
  <2>4. read' \in [Reads -> ReadStages]
    BY <1>7 DEF Send, LifeTypeOK, ReadStages
  <2>5. astray' \subseteq {"count", "icc", "interface", "list", "stats", "syncif"}
    BY <1>7 DEF Send, Use, LifeTypeOK
  <2> QED  BY <1>7, <2>2, <2>3, <2>4, <2>5
           DEF Send, LifeTypeOK, runVars, fiVars, mountVars, endVars, pastVars
<1>8. CASE UnmountOutside(i)
  BY <1>8 DEF UnmountOutside, LifeTypeOK, runVars, readVars, endVars, pastVars
<1>9. ASSUME NEW r \in Reads \cup {Nobody}, Look(i, r) PROVE LifeTypeOK'
  <2>1. work' = [work EXCEPT ![i] = <<T("walk", r)>>]  BY <1>9 DEF Look, Task
  <2>2. T("walk", r) \in Tasks  BY <1>0
  <2> HIDE DEF T
  <2>3. work' \in [Threads -> Seq(Tasks)]  BY <1>1, <2>1, <2>2
  <2>4. /\ read' \in [Reads -> ReadStages]
        /\ from' \in [Reads -> Interfaces \cup {Nobody}]
    <3>1. CASE r = Nobody  BY <1>9, <3>1 DEF Look, LifeTypeOK
    <3>2. CASE r # Nobody
      <4>1. r \in Reads  BY <3>2
      <4>2. read' = [read EXCEPT ![r] = "looked"] /\ from' = [from EXCEPT ![r] = i]
        BY <1>9, <3>2 DEF Look
      <4> QED  BY <4>1, <4>2 DEF LifeTypeOK, ReadStages
    <3> QED  BY <3>1, <3>2
  <2> QED  BY <1>9, <2>3, <2>4
           DEF Look, LifeTypeOK, runVars, fiVars, mountVars, endVars, pastVars
<1> QED  BY <1>3, <1>4, <1>5, <1>6, <1>7, <1>8, <1>9 DEF FuseStep

LEMMA OtherTyped ==
  ASSUME LifeTypeOK, Orderly => Steady,
         \/ Started \/ StartedSoon \/ StatTick \/ EndLoop \/ Kill
         \/ \E t, u \in Threads : Collide(t, u)
  PROVE  LifeTypeOK'
<1>1. CASE Started \/ StartedSoon
  <2>1. /\ starting # Nobody /\ starting' = Nobody /\ made' = made + 1 /\ Steady
        /\ UNCHANGED <<phase, fiVars, work, count, readVars, endVars, ender, torn, astray>>
    BY <1>1 DEF Started, StartedSoon, Enlist, Configuring, Going
  <2>2. made' \in 0..Len(Order)
    BY <2>1, OrderIs DEF Steady, InOrderMade, LifeTypeOK
  <2>3. hasty' \subseteq Interfaces
    BY <1>1, <2>1 DEF Started, StartedSoon, LifeTypeOK
  <2> QED  BY <2>1, <2>2, <2>3 DEF LifeTypeOK, fiVars, mountVars, readVars, endVars
<1>2. CASE StatTick
  <2>1. astray' \subseteq {"count", "icc", "interface", "list", "stats", "syncif"}
    BY <1>2 DEF StatTick, Use, LifeTypeOK
  <2> QED  BY <1>2, <2>1
           DEF StatTick, LifeTypeOK, runVars, fiVars, mountVars, readVars, endVars, pastVars
<1>3. CASE EndLoop \/ Kill
  BY <1>3 DEF EndLoop, Kill, LifeTypeOK, runVars, fiVars, mountVars, readVars, endVars, pastVars
<1>4. ASSUME NEW t \in Threads, NEW u \in Threads, Collide(t, u) PROVE LifeTypeOK'
  <2>1. Counter(t) \in Counters  BY <1>4, CounterTyped DEF Collide
  <2> QED  BY <1>4, <2>1
           DEF Collide, LifeTypeOK, runVars, fiVars, mountVars, readVars, endVars, pastVars
<1> QED  BY <1>1, <1>2, <1>3, <1>4
-----------------------------------------------------------------------------
(* Steps that change no count and neither begin nor end a call              *)

LEMMA QuietBalance ==
  ASSUME LifeTypeOK, LifeTypeOK', Steady,
         \A u \in Threads : work'[u] = work[u] \/ (NoCalls(work[u]) /\ NoCalls(work'[u])),
         count' = count, Consuming' <=> Consuming, Signalling' <=> Signalling,
         UNCHANGED <<shut, listed, ender, sources, pool>>, exit' = exit,
         phase' = "config" => phase = "config",
         phase' = "over" => phase = "over" \/ exit,
         \A i \in Interfaces : /\ pc[i] # "unborn" => pc'[i] # "unborn"
                               /\ Active(i)' => Active(i)
                               /\ Listing(i)' => Listing(i)
                               /\ Serving(i)' => Serving(i),
         \A r \in Reads : /\ Underway(r)' => Underway(r) /\ from'[r] = from[r]
                          /\ read'[r] = "running" => read[r] = "running",
         "icc" \in astray' => "icc" \in astray
  PROVE  CountsOK' /\ QuitOK' /\ JoinOK' /\ SwapOK' /\ SignalOK' /\ UnlinkOK' /\ ExitOK'
<1>1. /\ work \in [Threads -> Seq(Tasks)] /\ work' \in [Threads -> Seq(Tasks)]
      /\ count \in [Counters -> Nat]
  BY DEF LifeTypeOK
<1>2. /\ Quiet
      /\ \A u \in Threads, b \in Nat : /\ InStack(u, b)' /\ Deep(u, b)'.do = "next"
                                       => InStack(u, b) /\ Deep(u, b).do = "next"
      /\ \A c : Releases(c)' = Releases(c)
  BY <1>1, QuietFrame DEF Quiet
<1>3. QuitOK' /\ JoinOK' /\ SwapOK' /\ UnlinkOK' /\ ExitOK'
  BY <1>2, QuietOnce DEF Steady
<1>4. SignalOK'
  BY <1>2, QuietSignal DEF Steady
<1>5. \A c : Kept(c)  BY <1>2 DEF Kept
<1>6. Nexts' \subseteq Nexts
  <2> SUFFICES ASSUME NEW x \in Nexts' PROVE x \in Nexts  OBVIOUS
  <2>1. PICK p \in Threads \X Nat : /\ x = <<"stack", p[1], p[2]>>
                                    /\ InStack(p[1], p[2])' /\ Deep(p[1], p[2])'.do = "next"
                                    /\ ~Signalling'
    BY DEF Nexts
  <2>2. p[1] \in Threads /\ p[2] \in Nat  OBVIOUS
  <2>3. InStack(p[1], p[2]) /\ Deep(p[1], p[2]).do = "next" /\ ~Signalling
    BY <1>2, <2>1, <2>2
  <2> QED  BY <2>1, <2>3 DEF Nexts
<1>7. Running' \subseteq Running  BY KeepsRunningReads
<1>8. \A i \in Interfaces : Readers(i)' \subseteq Readers(i)
  BY KeepsReaders
<1>9. ASSUME NEW c \in Counters PROVE Holders(c)' \subseteq Holders(c)
  <2>1. /\ Kept("icc") /\ Nexts' \subseteq Nexts => Holders("icc")' \subseteq Holders("icc")
        /\ Kept("running") /\ (\A i \in Interfaces : Active(i)' => Active(i))
            => Holders("running")' \subseteq Holders("running")
        /\ Kept("loop") => Holders("loop")' \subseteq Holders("loop")
        /\ Kept("list") /\ Running' \subseteq Running
            => Holders("list")' \subseteq Holders("list")
        /\ Kept("list") /\ Running' \subseteq Running /\ Kept("listMem")
            /\ (\A i \in Interfaces : Listing(i)' => Listing(i))
            => Holders("listMem")' \subseteq Holders("listMem")
        /\ \A i \in Interfaces : /\ Kept(i) /\ (Serving(i)' => Serving(i))
                                  /\ Readers(i)' \subseteq Readers(i)
                                  => Holders(i)' \subseteq Holders(i)
    BY AllKeep
  <2>2. c \in {"icc", "running", "loop", "list", "listMem"} \/ c \in Interfaces  BY CounterKinds
  <2>3. /\ \A i \in Interfaces : Active(i)' => Active(i)
        /\ \A i \in Interfaces : Listing(i)' => Listing(i)
        /\ \A i \in Interfaces : Serving(i)' => Serving(i)
        /\ Kept("icc") /\ Kept("running") /\ Kept("loop") /\ Kept("list") /\ Kept("listMem")
        /\ \A i \in Interfaces : Kept(i)
    BY <1>5
  <2>4. /\ Holders("icc")' \subseteq Holders("icc")
        /\ Holders("running")' \subseteq Holders("running")
        /\ Holders("loop")' \subseteq Holders("loop")
        /\ Holders("list")' \subseteq Holders("list")
        /\ Holders("listMem")' \subseteq Holders("listMem")
        /\ \A i \in Interfaces : Holders(i)' \subseteq Holders(i)
    <3>1. Holders("icc")' \subseteq Holders("icc")  BY <1>6, <2>1, <2>3
    <3>2. Holders("running")' \subseteq Holders("running")  BY <2>1, <2>3
    <3>3. Holders("loop")' \subseteq Holders("loop")  BY <2>1, <2>3
    <3>4. Holders("list")' \subseteq Holders("list")  BY <1>7, <2>1, <2>3
    <3>5. Holders("listMem")' \subseteq Holders("listMem")  BY <1>7, <2>1, <2>3
    <3>6. \A i \in Interfaces : Holders(i)' \subseteq Holders(i)  BY <1>8, <2>1, <2>3
    <3> QED  BY <3>1, <3>2, <3>3, <3>4, <3>5, <3>6
  <2>5. CASE c = "icc"  BY <2>4, <2>5
  <2>6. CASE c = "running"  BY <2>4, <2>6
  <2>7. CASE c = "loop"  BY <2>4, <2>7
  <2>8. CASE c = "list"  BY <2>4, <2>8
  <2>9. CASE c = "listMem"  BY <2>4, <2>9
  <2>10. CASE c \in Interfaces  BY <2>4, <2>10
  <2> QED  BY <2>2, <2>5, <2>6, <2>7, <2>8, <2>9, <2>10
<1>10. count["icc"] = 0 => Releases("icc")' = {}  BY <1>2 DEF Steady, CountsOK
<1>11. CountsOK'  BY <1>9, <1>10, Balance DEF Steady
<1> QED  BY <1>3, <1>4, <1>11

\* The event loop ends or the program is killed; nothing else changes.
LEMMA EndSteady ==
  ASSUME LifeTypeOK, LifeTypeOK', Steady, EndLoop \/ Kill
  PROVE  Steady'
<1>1. /\ phase = "loop" /\ work[Main] = <<>> /\ phase' \in {"over", "killed"}
      /\ phase' = "over" => exit
      /\ UNCHANGED <<made, starting, pc, quit, shut, work, count, inbox, read, from, listed,
                     sources, pool, ender, astray>> /\ exit' = exit
  BY DEF EndLoop, Kill, Idle, fiVars, readVars, endVars, pastVars
<1>2. (Consuming' <=> Consuming) /\ (Signalling' <=> Signalling)  BY <1>1 DEF Consuming, Signalling
<1>3. \A i \in Interfaces : /\ Active(i)' => Active(i)
                            /\ Listing(i)' => Listing(i)
                            /\ Serving(i)' => Serving(i)
  BY <1>1 DEF Active, Listing, Serving
<1>4. \A r \in Reads : Underway(r)' => Underway(r)  BY <1>1 DEF Underway
<1>5. CountsOK' /\ QuitOK' /\ JoinOK' /\ SwapOK' /\ SignalOK' /\ UnlinkOK' /\ ExitOK'
  BY <1>1, <1>2, <1>3, <1>4, QuietBalance
<1>6. MainStack'  BY <1>1 DEF MainStack
<1>7. \A i \in Interfaces : FuseStack(i)'
  BY <1>1, FuseSame DEF Steady, Asked
<1>8. InOrderMade'  BY <1>1 DEF Steady, InOrderMade
<1>9. QueueOK'  BY <1>1, QueueFrame DEF Steady
<1>10. AstrayOK'  BY <1>1 DEF Steady, AstrayOK
<1> QED  BY <1>5, <1>6, <1>7, <1>8, <1>9, <1>10 DEF Steady

\* Somebody unmounts a file system, or statistics are asked for.
LEMMA IdleSteady ==
  ASSUME LifeTypeOK, LifeTypeOK', Steady, StatTick \/ \E i \in Interfaces : UnmountOutside(i)
  PROVE  Steady'
<1>1. /\ UNCHANGED <<phase, made, starting, pc, quit, shut, work, count, inbox, read, from,
                     listed, sources, pool, ender>> /\ exit' = exit
      /\ astray' \subseteq astray \cup {"stats"}
  BY DEF StatTick, UnmountOutside, Use, fiVars, mountVars, readVars, endVars, pastVars, runVars
<1>2. (Consuming' <=> Consuming) /\ (Signalling' <=> Signalling)  BY <1>1 DEF Consuming, Signalling
<1>3. \A i \in Interfaces : /\ Active(i)' => Active(i)
                            /\ Listing(i)' => Listing(i)
                            /\ Serving(i)' => Serving(i)
  BY <1>1 DEF Active, Listing, Serving
<1>4. \A r \in Reads : Underway(r)' => Underway(r)  BY <1>1 DEF Underway
<1>5. CountsOK' /\ QuitOK' /\ JoinOK' /\ SwapOK' /\ SignalOK' /\ UnlinkOK' /\ ExitOK'
  BY <1>1, <1>2, <1>3, <1>4, QuietBalance
<1>6. MainStack'  BY <1>1, MainSame DEF Steady
<1>7. \A i \in Interfaces : FuseStack(i)'
  BY <1>1, FuseSame DEF Steady, Asked
<1>8. InOrderMade'  BY <1>1 DEF Steady, InOrderMade
<1>9. QueueOK'  BY <1>1, QueueFrame DEF Steady
<1>10. AstrayOK'  BY <1>1 DEF Steady, AstrayOK
<1> QED  BY <1>5, <1>6, <1>7, <1>8, <1>9, <1>10 DEF Steady

\* fuse_go's wait is over.
LEMMA StartedSteady ==
  ASSUME LifeTypeOK, LifeTypeOK', Steady, Started
  PROVE  Steady'
<1>1. /\ phase = "config" /\ work[Main] = <<>> /\ starting # Nobody /\ pc[starting] # "start"
      /\ starting' = Nobody /\ made' = made + 1
      /\ UNCHANGED <<phase, pc, quit, shut, work, count, inbox, read, from, listed,
                     sources, pool, ender, astray>> /\ exit' = exit
  BY DEF Started, Enlist, Configuring, fiVars, readVars, endVars
<1>2. (Consuming' <=> Consuming) /\ (Signalling' <=> Signalling)  BY <1>1 DEF Consuming, Signalling
<1>3. \A i \in Interfaces : /\ Active(i)' => Active(i)
                            /\ Listing(i)' => Listing(i)
                            /\ Serving(i)' => Serving(i)
  BY <1>1 DEF Active, Listing, Serving
<1>4. \A r \in Reads : Underway(r)' => Underway(r)  BY <1>1 DEF Underway
<1>5. CountsOK' /\ QuitOK' /\ JoinOK' /\ SwapOK' /\ SignalOK' /\ UnlinkOK' /\ ExitOK'
  BY <1>1, <1>2, <1>3, <1>4, QuietBalance
<1>6. MainStack'  BY <1>1, MainSame DEF Steady
<1>7. \A i \in Interfaces : FuseStack(i)'
  BY <1>1, FuseSame DEF Steady, Asked
<1>8. InOrderMade'
  <2>1. /\ made < Len(Order) /\ starting = Order[made + 1] /\ pc[starting] # "unborn"
        /\ made \in Nat /\ Len(Order) \in Nat /\ DOMAIN Order = 1..Len(Order)
    BY <1>1, OrderIs DEF Steady, InOrderMade, LifeTypeOK
  <2>2. ASSUME NEW k \in DOMAIN Order
        PROVE  /\ k <= made' => pc'[Order[k]] \notin {"unborn", "start"}
               /\ k > made' => pc'[Order[k]] = "unborn"
    <3>1. /\ k <= made => pc[Order[k]] \notin {"unborn", "start"}
          /\ k > made /\ starting # Order[k] => pc[Order[k]] = "unborn"
      BY DEF Steady, InOrderMade
    <3>2. Order[k] = Order[made + 1] => k = made + 1  BY <2>1, NamesAreApart
    <3>3. k \in Nat /\ (k <= made \/ k = made + 1 \/ k > made + 1)  BY <2>1
    <3>4. k <= made' <=> k <= made \/ k = made + 1  BY <1>1, <2>1, <3>3
    <3>5. k > made' <=> k > made + 1  BY <1>1
    <3>6. k > made + 1 => k > made /\ k # made + 1  BY <2>1, <3>3
    <3> QED  BY <1>1, <2>1, <3>1, <3>2, <3>4, <3>5, <3>6
  <2> QED  BY <1>1, <2>2 DEF InOrderMade
<1>9. QueueOK'  BY <1>1, QueueFrame DEF Steady
<1>10. AstrayOK'  BY <1>1 DEF Steady, AstrayOK
<1> QED  BY <1>5, <1>6, <1>7, <1>8, <1>9, <1>10 DEF Steady
-----------------------------------------------------------------------------
(* Starting, serving, and the calls that main makes while configuring       *)

LEMMA CallAlone ==
  ASSUME LifeTypeOK, NEW t \in Threads, NEW x, work[t] = <<x>>,
         NEW tasks \in Seq(Tasks), Call(t, tasks)
  PROVE  work'[t] = tasks /\ \A u \in Threads \ {t} : work'[u] = work[u]
<1>1. work \in [Threads -> Seq(Tasks)]  BY DEF LifeTypeOK
<1>2. work' = [work EXCEPT ![t] = tasks \o Tail(work[t])]  BY <1>1 DEF Call
<1>3. Tail(work[t]) = <<>>
  <2>1. work[t] \in Seq(Tasks) /\ Len(work[t]) = 1  BY <1>1
  <2> QED  BY <2>1
<1>4. tasks \o <<>> = tasks  OBVIOUS
<1> QED  BY <1>1, <1>2, <1>3, <1>4

LEMMA CallDrop ==
  ASSUME LifeTypeOK, NEW t \in Threads, Call(t, <<>>)
  PROVE  /\ \A x, y : work[t] = <<x, y>> => work'[t] = <<y>>
         /\ \A x, y, z : work[t] = <<x, y, z>> => work'[t] = <<y, z>>
         /\ \A u \in Threads \ {t} : work'[u] = work[u]
<1>1. work \in [Threads -> Seq(Tasks)]  BY DEF LifeTypeOK
<1>2. work' = [work EXCEPT ![t] = <<>> \o Tail(work[t])]  BY <1>1 DEF Call
<1>3. ASSUME NEW x, NEW y, work[t] = <<x, y>> PROVE work'[t] = <<y>>
  <2>1. Tail(work[t]) = <<y>>  BY <1>3
  <2>2. <<>> \o <<y>> = <<y>>  OBVIOUS
  <2> QED  BY <1>1, <1>2, <2>1, <2>2
<1>4. ASSUME NEW x, NEW y, NEW z, work[t] = <<x, y, z>> PROVE work'[t] = <<y, z>>
  <2>1. Tail(work[t]) = <<y, z>>  BY <1>4
  <2>2. <<>> \o <<y, z>> = <<y, z>>  OBVIOUS
  <2> QED  BY <1>1, <1>2, <2>1, <2>2
<1> QED  BY <1>1, <1>2, <1>3, <1>4

\* What a fuse thread with a task is at
LEMMA FuseDue ==
  ASSUME LifeTypeOK, NEW i \in Interfaces, FuseStack(i), work[i] # <<>>
  PROVE  LET x == Head(work[i])
         IN /\ x.do = "mount" => pc[i] = "start" /\ work[i] = <<x>>
            /\ x.do = "walk" => /\ pc[i] = "serve" /\ work[i] = <<x>>
                                /\ x.at # Nobody => Asked(i, x.at)
            /\ x.do = "send" => pc[i] = "serve" /\ work[i] = <<x>> /\ Asked(i, x.at)
            /\ x.do = "acquire" =>
                 /\ x = [do |-> "acquire", at |-> i]
                 /\ \/ /\ pc[i] = "start"
                       /\ work[i] = <<x, [do |-> "mount", at |-> Nobody]>>
                    \/ /\ pc[i] = "serve"
                       /\ \E r \in Reads : /\ Asked(i, r)
                                           /\ work[i] = <<x, [do |-> "send", at |-> r]>>
            /\ x.do = "gone" => pc[i] = "finish" /\ Len(work[i]) = 1
            /\ x.do \notin {"mount", "walk", "send", "acquire", "gone"} =>
                 pc[i] = "finish" /\ x.do \in CallDo /\ Len(work[i]) > 1
<1> DEFINE T(do, at) == [do |-> do, at |-> at]
           x == Head(work[i])
<1>1. \/ pc[i] = "start" /\ work[i] = <<T("acquire", i), T("mount", Nobody)>>
      \/ pc[i] = "start" /\ work[i] = <<T("mount", Nobody)>>
      \/ pc[i] = "serve" /\ work[i] = <<T("walk", Nobody)>>
      \/ pc[i] = "serve" /\ \E r \in Reads : Asked(i, r) /\ work[i] = <<T("walk", r)>>
      \/ pc[i] = "serve" /\ \E r \in Reads : Asked(i, r) /\ work[i] = <<T("send", r)>>
      \/ pc[i] = "serve" /\ \E r \in Reads : /\ Asked(i, r)
                                             /\ work[i] = <<T("acquire", i), T("send", r)>>
      \/ /\ pc[i] = "finish" /\ x.do \in CallDo \cup {"gone"}
         /\ x.do = "gone" <=> Len(work[i]) = 1
  BY FuseDoes
<1>2. \A do, at : T(do, at).do = do /\ T(do, at).at = at  OBVIOUS
<1>3. \A do : do \in CallDo => do \notin {"mount", "walk", "send", "acquire", "gone"}
  BY DEF CallDo
<1>4. Len(work[i]) \in Nat /\ Len(work[i]) > 0  BY TopIs, ThreadsAre
<1> HIDE DEF T
<1>5. CASE pc[i] = "start" /\ work[i] = <<T("acquire", i), T("mount", Nobody)>>
  <2>1. x = T("acquire", i)  BY <1>5, HeadsAre
  <2> HIDE DEF x
  <2>2. x.do = "acquire" /\ work[i] = <<x, T("mount", Nobody)>>  BY <1>2, <1>5, <2>1
  <2> QED  BY <1>5, <2>1, <2>2 DEF x, T
<1>6. CASE pc[i] = "start" /\ work[i] = <<T("mount", Nobody)>>
  <2>1. x = T("mount", Nobody)  BY <1>6, HeadsAre
  <2> HIDE DEF x
  <2>2. x.do = "mount" /\ work[i] = <<x>>  BY <1>2, <1>6, <2>1
  <2> QED  BY <1>6, <2>2 DEF x
<1>7. CASE pc[i] = "serve" /\ work[i] = <<T("walk", Nobody)>>
  <2>1. x = T("walk", Nobody)  BY <1>7, HeadsAre
  <2> HIDE DEF x
  <2>2. x.do = "walk" /\ x.at = Nobody /\ work[i] = <<x>>  BY <1>2, <1>7, <2>1
  <2> QED  BY <1>7, <2>2 DEF x
<1>8. ASSUME pc[i] = "serve", NEW r \in Reads, Asked(i, r), work[i] = <<T("walk", r)>>
      PROVE  x.do = "walk" /\ x.at = r /\ work[i] = <<x>>
  <2>1. x = T("walk", r)  BY <1>8, HeadsAre
  <2> HIDE DEF x
  <2> QED  BY <1>2, <1>8, <2>1
<1>9. ASSUME pc[i] = "serve", NEW r \in Reads, Asked(i, r), work[i] = <<T("send", r)>>
      PROVE  x.do = "send" /\ x.at = r /\ work[i] = <<x>>
  <2>1. x = T("send", r)  BY <1>9, HeadsAre
  <2> HIDE DEF x
  <2> QED  BY <1>2, <1>9, <2>1
<1>10. ASSUME pc[i] = "serve", NEW r \in Reads, Asked(i, r),
              work[i] = <<T("acquire", i), T("send", r)>>
       PROVE  x.do = "acquire" /\ x = T("acquire", i) /\ work[i] = <<x, T("send", r)>>
  <2>1. x = T("acquire", i)  BY <1>10, HeadsAre
  <2> HIDE DEF x
  <2> QED  BY <1>2, <1>10, <2>1
<1>11. CASE pc[i] = "serve" /\ \E r \in Reads : Asked(i, r) /\ work[i] = <<T("walk", r)>>
  BY <1>8, <1>11
<1>12. CASE pc[i] = "serve" /\ \E r \in Reads : Asked(i, r) /\ work[i] = <<T("send", r)>>
  BY <1>9, <1>12
<1>13. CASE pc[i] = "serve" /\ \E r \in Reads : /\ Asked(i, r)
                                                /\ work[i] = <<T("acquire", i), T("send", r)>>
  <2>1. PICK r \in Reads : Asked(i, r) /\ work[i] = <<T("acquire", i), T("send", r)>>  BY <1>13
  <2>2. x.do = "acquire" /\ x = T("acquire", i) /\ work[i] = <<x, T("send", r)>>
    BY <1>10, <1>13, <2>1
  <2> HIDE DEF x
  <2> QED  BY <1>13, <2>1, <2>2 DEF T, x
<1>14. CASE /\ pc[i] = "finish" /\ x.do \in CallDo \cup {"gone"}
            /\ x.do = "gone" <=> Len(work[i]) = 1
  <2>1. x.do \in CallDo => x.do \notin {"mount", "walk", "send", "acquire", "gone"}  BY <1>3
  <2>2. x.do = "gone" => Len(work[i]) = 1  BY <1>14
  <2>3. x.do \in CallDo => Len(work[i]) > 1
    <3> SUFFICES ASSUME x.do \in CallDo PROVE Len(work[i]) > 1  OBVIOUS
    <3>1. x.do # "gone"  BY <2>1
    <3>2. Len(work[i]) # 1  BY <1>14, <3>1
    <3>3. \A n : n \in Nat /\ n > 0 /\ n # 1 => n > 1  OBVIOUS
    <3> QED  BY ONLY <1>4, <3>2, <3>3
  <2>4. pc[i] = "finish" /\ (x.do \in CallDo \/ x.do = "gone")  BY <1>14
  <2>5. CASE x.do = "gone"  BY <2>2, <2>4, <2>5
  <2>6. CASE x.do \in CallDo
    <3>1. x.do \notin {"mount", "walk", "send", "acquire", "gone"}  BY <2>1, <2>6
    <3> QED  BY <2>3, <2>4, <2>6, <3>1
  <2> QED  BY <2>4, <2>5, <2>6
<1> QED  BY <1>1, <1>5, <1>6, <1>7, <1>11, <1>12, <1>13, <1>14

LEMMA FuseNoCalls ==
  ASSUME LifeTypeOK, NEW i \in Interfaces, FuseStack(i), pc[i] # "finish"
  PROVE  NoCalls(work[i])
<1>0. {"acquire", "mount", "walk", "send"} \cap (CallDo \cup {"next"}) = {}  BY DEF CallDo
<1>1. CASE work[i] = <<>>  BY <1>1, NoCallsIn
<1>2. CASE work[i] # <<>>
  <2> DEFINE T(do, at) == [do |-> do, at |-> at]
  <2>1. \/ \E do \in {"mount", "walk", "send"} : \E at : work[i] = <<T(do, at)>>
        \/ \E do, ex \in {"acquire", "mount", "send"} : \E at, bt : work[i] = <<T(do, at), T(ex, bt)>>
    BY <1>2, FuseDoes
  <2>2. \A do, at : T(do, at).do = do  OBVIOUS
  <2> HIDE DEF T
  <2>3. ASSUME NEW do \in {"mount", "walk", "send"}, NEW at, work[i] = <<T(do, at)>>
        PROVE  NoCalls(work[i])
    <3>1. T(do, at).do \notin CallDo \cup {"next"}  BY <1>0, <2>2, <2>3
    <3> QED  BY <2>3, <3>1, NoCallsIn
  <2>4. ASSUME NEW do \in {"acquire", "mount", "send"}, NEW at,
               NEW ex \in {"acquire", "mount", "send"}, NEW bt,
               work[i] = <<T(do, at), T(ex, bt)>>
        PROVE  NoCalls(work[i])
    <3>1. {T(do, at).do, T(ex, bt).do} \cap (CallDo \cup {"next"}) = {}
      BY <1>0, <2>2, <2>4
    <3> QED  BY <2>4, <3>1, NoCallsIn
  <2> QED  BY <2>1, <2>3, <2>4
<1> QED  BY <1>1, <1>2

LEMMA FuseQuiet ==
  ASSUME LifeTypeOK, LifeTypeOK', Steady, NEW i \in Interfaces,
         UNCHANGED <<phase, made, starting, quit, shut, count, listed, sources, pool, ender>>,
         exit' = exit,
         \A u \in Threads \ {i} : work'[u] = work[u],
         NoCalls(work[i]), NoCalls(work'[i]), FuseStack(i)',
         pc[i] # "unborn", pc'[i] # "unborn", pc'[i] = "start" => pc[i] = "start",
         \A j \in Interfaces \ {i} : pc'[j] = pc[j],
         Serving(i)' => Serving(i),
         \A r \in Reads : /\ Underway(r)' => Underway(r) /\ from'[r] = from[r]
                          /\ read'[r] = "running" <=> read[r] = "running"
                          /\ \A j \in Interfaces \ {i} : Asked(j, r) => Asked(j, r)',
         "icc" \in astray' => "icc" \in astray, QueueOK', AstrayOK'
  PROVE  Steady'
<1>1. /\ i \in Threads /\ i # Main /\ Main \in Threads /\ Interfaces \subseteq Threads
      /\ Nobody \notin Interfaces
  BY ThreadsAre
<1>2. MainStack' /\ (Signalling' <=> Signalling) /\ (Consuming' <=> Consuming)
  BY <1>1, MainSame DEF Steady
<1>3. \A j \in Interfaces : FuseStack(j)'
  <2> SUFFICES ASSUME NEW j \in Interfaces, j # i PROVE FuseStack(j)'  OBVIOUS
  <2>1. work'[j] = work[j] /\ pc'[j] = pc[j] /\ FuseStack(j)  BY <1>1 DEF Steady
  <2> QED  BY <2>1, FuseSame
<1>4. \A j \in Interfaces : /\ pc[j] # "unborn" => pc'[j] # "unborn"
                            /\ pc'[j] # "unborn" => pc[j] # "unborn"
                            /\ Serving(j)' => Serving(j)
  <2> SUFFICES ASSUME NEW j \in Interfaces
               PROVE  /\ pc[j] # "unborn" <=> pc'[j] # "unborn"
                      /\ Serving(j)' => Serving(j)
    OBVIOUS
  <2>1. CASE j = i  BY <2>1
  <2>2. CASE j # i
    <3>1. work'[j] = work[j] /\ pc'[j] = pc[j]  BY <1>1, <2>2
    <3> QED  BY <3>1 DEF Serving
  <2> QED  BY <2>1, <2>2
<1>5. work'[Main] = work[Main]  BY <1>1
<1>6. \A j \in Interfaces : (Active(j)' => Active(j)) /\ (Listing(j)' => Listing(j))
  BY <1>4, <1>5 DEF Active, Listing
<1>7. CountsOK' /\ QuitOK' /\ JoinOK' /\ SwapOK' /\ SignalOK' /\ UnlinkOK' /\ ExitOK'
  BY <1>2, <1>4, <1>6, QuietBalance
<1>8. InOrderMade'
  <2>1. starting \in Interfaces \cup {Nobody}  BY DEF LifeTypeOK
  <2>2. starting' # Nobody => /\ phase' = "config" /\ work'[Main] = <<>>
                              /\ made' < Len(Order) /\ starting' = Order[made' + 1]
                              /\ pc'[starting'] # "unborn"
    BY <1>4, <1>5, <2>1 DEF Steady, InOrderMade
  <2>3. ASSUME NEW k \in DOMAIN Order
        PROVE  /\ k <= made' => pc'[Order[k]] \notin {"unborn", "start"}
               /\ k > made' /\ starting' # Order[k] => pc'[Order[k]] = "unborn"
    <3>1. Order[k] \in Interfaces  BY OrderIs
    <3>2. /\ k <= made => pc[Order[k]] \notin {"unborn", "start"}
          /\ k > made /\ starting # Order[k] => pc[Order[k]] = "unborn"
      BY DEF Steady, InOrderMade
    <3>3. CASE Order[k] = i  BY <3>2, <3>3
    <3>4. CASE Order[k] # i  BY <3>1, <3>2, <3>4
    <3> QED  BY <3>3, <3>4
  <2>4. phase' # "config" => made' = Len(Order)  BY DEF Steady, InOrderMade
  <2> QED  BY <2>2, <2>3, <2>4 DEF InOrderMade
<1> QED  BY <1>2, <1>3, <1>7, <1>8 DEF Steady

\* Two interfaces do not read the same.
LEMMA AskedOnce ==
  ASSUME NEW i, NEW j, NEW r, Asked(i, r), Asked(j, r)
  PROVE  i = j
  BY DEF Asked

LEMMA LookSteady ==
  ASSUME LifeTypeOK, LifeTypeOK', Steady, NEW i \in Interfaces, NEW r \in Reads \cup {Nobody},
         Look(i, r)
  PROVE  Steady'
<1>1. /\ pc[i] = "serve" /\ work[i] = <<>>
      /\ UNCHANGED <<phase, made, starting, quit, shut, count, listed, sources, pool, ender,
                     pc, inbox, astray>>
      /\ exit' = exit
      /\ work' = [work EXCEPT ![i] = Task("walk", r)]
  BY DEF Look, runVars, fiVars, endVars, pastVars
<1>2. i \in Threads /\ work \in [Threads -> Seq(Tasks)]  BY ThreadsAre DEF LifeTypeOK
<1>3. work'[i] = Task("walk", r) /\ \A u \in Threads \ {i} : work'[u] = work[u]  BY <1>1, <1>2
<1> DEFINE w == [do |-> "walk", at |-> r]
           s(q) == [do |-> "send", at |-> q]
           m == [do |-> "mount", at |-> Nobody]
<1>4. work'[i] = <<w>>  BY <1>3 DEF Task
<1>5. w.do = "walk" /\ (\A q : s(q).do = "send") /\ m.do = "mount"  OBVIOUS
<1>6. (\A q : Task("send", q) = <<s(q)>>) /\ Task("mount", Nobody) = <<m>>  BY DEF Task
<1> HIDE DEF w, s, m
<1>7. (\A q : work'[i] # <<s(q)>>) /\ work'[i] # <<m>>
  <2>1. Head(work'[i]) = w /\ (\A q : Head(<<s(q)>>) = s(q)) /\ Head(<<m>>) = m
    BY <1>4, HeadsAre
  <2> QED  BY <1>5, <2>1
<1>8. NoCalls(work[i]) /\ NoCalls(work'[i])
  <2>1. w.do \notin CallDo \cup {"next"}  BY <1>5 DEF CallDo
  <2> QED  BY <1>1, <1>4, <2>1, NoCallsIn
<1>9. \A q \in Reads : q # r => read'[q] = read[q] /\ from'[q] = from[q]
  <2>1. CASE r = Nobody  BY <2>1 DEF Look
  <2>2. CASE r # Nobody
    <3>1. r \in Reads /\ read' = [read EXCEPT ![r] = "looked"] /\ from' = [from EXCEPT ![r] = i]
      BY <2>2 DEF Look
    <3> QED  BY <3>1 DEF LifeTypeOK
  <2> QED  BY <2>1, <2>2
<1>10. r \in Reads => read'[r] = "looked" /\ from'[r] = i /\ read[r] = "unseen"
  <2> SUFFICES ASSUME r \in Reads PROVE read'[r] = "looked" /\ from'[r] = i /\ read[r] = "unseen"
    OBVIOUS
  <2>1. r # Nobody  BY ThreadsAre
  <2> QED  BY <2>1 DEF Look, LifeTypeOK
<1>11. FuseStack(i)'
  <2>1. CASE r = Nobody
    BY <1>1, <1>3, <2>1 DEF FuseStack
  <2>2. CASE r # Nobody
    <3>1. r \in Reads  BY <2>2
    <3>2. Asked(i, r)'  BY <1>10, <3>1 DEF Asked
    <3> QED  BY <1>1, <1>3, <3>1, <3>2 DEF FuseStack
  <2> QED  BY <2>1, <2>2
<1>12. ASSUME NEW q \in Reads
       PROVE  /\ Underway(q)' => Underway(q) /\ from'[q] = from[q]
              /\ read'[q] = "running" <=> read[q] = "running"
              /\ \A j \in Interfaces \ {i} : Asked(j, q) => Asked(j, q)'
  <2>1. CASE q = r
    <3>1. read'[q] = "looked" /\ from'[q] = i /\ read[q] = "unseen"  BY <1>10, <2>1
    <3>2. ~Underway(q)'  BY <1>6, <1>7, <3>1 DEF Underway
    <3> QED  BY <3>1, <3>2 DEF Asked
  <2>2. CASE q # r
    <3>1. read'[q] = read[q] /\ from'[q] = from[q]  BY <1>9, <2>2
    <3>2. read[q] # "unseen" => from[q] \in Interfaces  BY DEF Steady, QueueOK
    <3>3. Underway(q)' => Underway(q)
      <4>1. CASE from[q] = i  BY <1>6, <1>7, <3>1, <4>1 DEF Underway
      <4>2. CASE from[q] # i
        <5>1. read[q] = "looked" => work'[from[q]] = work[from[q]]
          BY <1>3, <3>2, <4>2, ThreadsAre
        <5> QED  BY <3>1, <5>1 DEF Underway
      <4> QED  BY <4>1, <4>2
    <3> QED  BY <3>1, <3>3 DEF Asked
  <2> QED  BY <2>1, <2>2
<1>13. Serving(i)' => Serving(i)  BY <1>1 DEF Serving
<1>14. QueueOK'
  <2>1. \A k \in DOMAIN inbox : inbox[k] \in Reads /\ inbox[k] # r
    BY <1>10 DEF Steady, QueueOK, LifeTypeOK
  <2>2. \A q \in Reads : read'[q] # "unseen" => from'[q] \in Interfaces
    BY <1>9, <1>10 DEF Steady, QueueOK
  <2> QED  BY <1>1, <1>9, <2>1, <2>2 DEF Steady, QueueOK
<1>15. AstrayOK'  BY <1>1 DEF Steady, AstrayOK
<1> QED  BY <1>1, <1>3, <1>8, <1>11, <1>12, <1>13, <1>14, <1>15, FuseQuiet

\* The session is made.
LEMMA MountSteady ==
  ASSUME LifeTypeOK, LifeTypeOK', Steady, NEW i \in Interfaces, Mount(i), pc'[i] = "serve"
  PROVE  Steady'
<1>0. i \in Threads /\ Interfaces \subseteq Threads  BY ThreadsAre
<1>1. /\ Due(i, "mount") /\ Call(i, <<>>) /\ pc' = [pc EXCEPT ![i] = "serve"]
      /\ UNCHANGED <<phase, made, starting, quit, shut, count, listed, sources, pool, ender,
                     inbox, read, from, astray>>
      /\ exit' = exit
  <2>1. pc \in [Interfaces -> {"unborn", "start", "serve", "finish", "gone"}]  BY DEF LifeTypeOK
  <2>2. pc' = [pc EXCEPT ![i] = "finish"] => pc'[i] = "finish"  BY <2>1
  <2> QED  BY <2>2 DEF Mount, runVars, readVars, endVars, pastVars
<1>2. FuseStack(i) /\ work[i] # <<>> /\ Head(work[i]).do = "mount"
  BY <1>1 DEF Steady, Due
<1>3. pc[i] = "start" /\ work[i] = <<Head(work[i])>>  BY <1>2, FuseDue
<1>4. work'[i] = <<>> /\ \A u \in Threads \ {i} : work'[u] = work[u]
  BY <1>0, <1>1, <1>3, SeqTasks, CallAlone
<1>5. work[i] = Task("mount", Nobody)
  <2>1. Head(work[i]) \in Tasks  BY <1>0, <1>2, TopIs
  <2>2. Head(work[i]) = [do |-> "mount", at |-> Nobody]  BY <1>2, <2>1, TaskTypes
  <2> QED  BY <1>3, <2>2 DEF Task
<1>6. NoCalls(work[i]) /\ NoCalls(work'[i])
  BY <1>2, <1>3, <1>4, FuseNoCalls, NoCallsIn
<1>7. /\ pc'[i] = "serve" /\ \A j \in Interfaces \ {i} : pc'[j] = pc[j]
  BY <1>1 DEF LifeTypeOK
<1>8. FuseStack(i)'  BY <1>4, <1>7 DEF FuseStack
<1>9. Serving(i)' => Serving(i)  BY <1>3, <1>5 DEF Serving
<1>10. ASSUME NEW q \in Reads
       PROVE  /\ Underway(q)' => Underway(q) /\ from'[q] = from[q]
              /\ read'[q] = "running" <=> read[q] = "running"
              /\ \A j \in Interfaces \ {i} : Asked(j, q) => Asked(j, q)'
  <2>1. Underway(q)' => Underway(q)
    <3>1. read[q] # "unseen" => from[q] \in Interfaces  BY DEF Steady, QueueOK
    <3>2. Task("send", q) # <<>>  BY OneTask
    <3>3. read[q] = "looked" /\ work'[from[q]] = Task("send", q) => work[from[q]] = Task("send", q)
      BY <1>0, <1>4, <3>1, <3>2
    <3> QED  BY <1>1, <3>3 DEF Underway
  <2> QED  BY <1>1, <2>1 DEF Asked
<1>11. QueueOK' /\ AstrayOK'  BY <1>1, QueueFrame DEF Steady, AstrayOK
<1> QED  BY <1>1, <1>3, <1>4, <1>6, <1>7, <1>8, <1>9, <1>10, <1>11, FuseQuiet

LEMMA WalkedSteady ==
  ASSUME LifeTypeOK, LifeTypeOK', Steady, NEW i \in Interfaces, Walked(i)
  PROVE  Steady'
<1>0. i \in Threads /\ Interfaces \subseteq Threads  BY ThreadsAre
<1> DEFINE r == At(i)
<1>1. /\ Due(i, "walk") /\ At(i) \in Reads \cup {Nobody}
      /\ UNCHANGED <<phase, made, starting, pc, quit, shut, count, listed, sources, pool, ender,
                     inbox, from, astray>>
      /\ exit' = exit
      /\ \/ /\ r # Nobody /\ read' = read
            /\ Call(i, Task("acquire", i) \o Task("send", r))
         \/ /\ Call(i, <<>>)
            /\ r = Nobody => read' = read
            /\ r # Nobody => read' = [read EXCEPT ![r] = "refused"]
  BY <1>0, AtTypes DEF Walked, runVars, fiVars, endVars, pastVars
<1>2. FuseStack(i) /\ work[i] # <<>> /\ Head(work[i]).do = "walk" /\ Head(work[i]).at = r
  BY <1>1 DEF Steady, Due, At
<1>3. pc[i] = "serve" /\ work[i] = <<Head(work[i])>> /\ (r # Nobody => Asked(i, r))
  BY <1>2, FuseDue
<1> HIDE DEF r
<1>4. NoCalls(work[i])  BY <1>2, <1>3, FuseNoCalls
<1> DEFINE T(do, at) == [do |-> do, at |-> at]
<1>5. Task("acquire", i) \o Task("send", r) = <<T("acquire", i), T("send", r)>>
  BY TwoTasks
<1>6. /\ \A u \in Threads \ {i} : work'[u] = work[u]
      /\ \/ r # Nobody /\ read' = read /\ work'[i] = <<T("acquire", i), T("send", r)>>
         \/ /\ work'[i] = <<>>
            /\ r = Nobody => read' = read
            /\ r # Nobody => read' = [read EXCEPT ![r] = "refused"]
  <2>1. CASE r # Nobody /\ read' = read /\ Call(i, Task("acquire", i) \o Task("send", r))
    <3>1. i \in Counters /\ r \in Reads  BY <1>1, <2>1, TasksAre DEF r
    <3>2. T("acquire", i) \in Tasks /\ T("send", r) \in Tasks  BY <3>1, TasksAre
    <3> HIDE DEF T
    <3>3. <<T("acquire", i), T("send", r)>> \in Seq(Tasks)  BY <3>2
    <3>4. Call(i, <<T("acquire", i), T("send", r)>>)  BY <1>5, <2>1
    <3>5. /\ work'[i] = <<T("acquire", i), T("send", r)>>
          /\ \A u \in Threads \ {i} : work'[u] = work[u]
      BY <1>0, <1>3, <3>3, <3>4, CallAlone
    <3> QED  BY <2>1, <3>5
  <2>2. CASE /\ Call(i, <<>>)
             /\ r = Nobody => read' = read
             /\ r # Nobody => read' = [read EXCEPT ![r] = "refused"]
    <3>1. work'[i] = <<>> /\ \A u \in Threads \ {i} : work'[u] = work[u]
      BY <1>0, <1>3, <2>2, SeqTasks, CallAlone
    <3> QED  BY <2>2, <3>1
  <2> QED  BY <1>1, <2>1, <2>2 DEF r
<1>7. NoCalls(work'[i])
  <2>1. T("acquire", i).do = "acquire" /\ T("send", r).do = "send"  OBVIOUS
  <2> HIDE DEF T
  <2>2. {T("acquire", i).do, T("send", r).do} \cap (CallDo \cup {"next"}) = {}
    BY <2>1 DEF CallDo
  <2>3. NoCalls(<<T("acquire", i), T("send", r)>>)  BY <2>2, NoCallsIn
  <2> QED  BY <1>6, <2>3, NoCallsIn
<1>8. FuseStack(i)'
  <2>1. CASE work'[i] = <<>>  BY <1>1, <1>3, <2>1 DEF FuseStack
  <2>2. CASE r # Nobody /\ read' = read /\ work'[i] = <<T("acquire", i), T("send", r)>>
    <3>0. r \in Reads  BY <1>1, <2>2 DEF r
    <3>1. PICK q \in Reads : q = r  BY <3>0
    <3>2. Asked(i, q)'  BY <1>1, <1>3, <2>2, <3>1 DEF Asked
    <3>3. work'[i] = Task("acquire", i) \o Task("send", q)  BY <1>5, <2>2, <3>1
    <3> HIDE DEF T
    <3> QED  BY <1>1, <1>3, <3>1, <3>2, <3>3 DEF FuseStack
  <2> QED  BY <1>6, <2>1, <2>2
<1>9. ASSUME NEW q \in Reads
      PROVE  read'[q] = read[q] \/ (q = r /\ read[q] = "looked" /\ from[q] = i /\ read'[q] = "refused")
  <2>1. CASE read' = read  BY <2>1
  <2>2. CASE r # Nobody /\ read' = [read EXCEPT ![r] = "refused"]
    <3>1. read \in [Reads -> ReadStages]
      BY DEF LifeTypeOK
    <3>2. Asked(i, r)  BY <1>3, <2>2
    <3> QED  BY <2>2, <3>1, <3>2 DEF Asked
  <2> QED  BY <1>6, <2>1, <2>2
<1>10. ASSUME NEW q \in Reads
       PROVE  /\ Underway(q)' => Underway(q) /\ from'[q] = from[q]
              /\ read'[q] = "running" <=> read[q] = "running"
              /\ \A j \in Interfaces \ {i} : Asked(j, q) => Asked(j, q)'
  <2>1. read[q] # "unseen" => from[q] \in Interfaces  BY DEF Steady, QueueOK
  <2>2. work'[i] # Task("send", q)
    <3> DEFINE s == [do |-> "send", at |-> q]
               a == T("acquire", i)
    <3>1. Task("send", q) = <<s>> /\ a.do = "acquire" /\ s.do = "send"  BY DEF Task
    <3>2. work'[i] = <<>> \/ work'[i] = <<a, T("send", r)>>  BY <1>6
    <3> HIDE DEF s, a, T
    <3>3. Head(<<s>>) = s /\ Head(<<a, T("send", r)>>) = a /\ <<s>> # <<>>  BY HeadsAre
    <3> QED  BY <3>1, <3>2, <3>3
  <2>3. Underway(q)' => Underway(q)
    <3>1. CASE read'[q] = read[q]
      <4>1. from[q] # i /\ read[q] = "looked" => work'[from[q]] = work[from[q]]
        BY <1>0, <1>6, <2>1
      <4> QED  BY <1>1, <2>2, <3>1, <4>1 DEF Underway
    <3>2. CASE read'[q] = "refused"  BY <3>2 DEF Underway
    <3> QED  BY <1>9, <3>1, <3>2
  <2>4. \A j \in Interfaces \ {i} : Asked(j, q) => Asked(j, q)'
    BY <1>1, <1>9 DEF Asked
  <2>5. read'[q] = "running" <=> read[q] = "running"  BY <1>9
  <2> QED  BY <1>1, <2>3, <2>4, <2>5
<1>11. QueueOK'
  <2>1. \A k \in DOMAIN inbox : inbox[k] \in Reads /\ read[inbox[k]] = "sent"
    BY DEF Steady, QueueOK, LifeTypeOK
  <2>2. \A k \in DOMAIN inbox : read'[inbox[k]] = "sent"  BY <1>9, <2>1
  <2>3. \A q \in Reads : read'[q] # "unseen" => from'[q] \in Interfaces
    BY <1>1, <1>9 DEF Steady, QueueOK
  <2> QED  BY <1>1, <2>2, <2>3 DEF Steady, QueueOK
<1>12. AstrayOK'  BY <1>1 DEF Steady, AstrayOK
<1>13. Serving(i)' => Serving(i)  BY <1>3 DEF Serving
<1> QED  BY <1>1, <1>3, <1>4, <1>6, <1>7, <1>8, <1>10, <1>11, <1>12, <1>13, FuseQuiet

\* While an interface serves, the queue for reads is there.
LEMMA QueueIsThere ==
  ASSUME LifeTypeOK, Steady, NEW i \in Interfaces, pc[i] = "serve"
  PROVE  phase # "over"
<1> SUFFICES ASSUME phase = "over" PROVE FALSE  OBVIOUS
<1>1. count["loop"] = 0  BY DEF Steady, ExitOK
<1>2. i \in shut  BY <1>1, LoopIsLast, MemoryIsLast
<1> QED  BY <1>2, ShutIsUnused

LEMMA SendSteady ==
  ASSUME LifeTypeOK, LifeTypeOK', Steady, NEW i \in Interfaces, Send(i)
  PROVE  Steady'
<1>0. i \in Threads /\ Interfaces \subseteq Threads  BY ThreadsAre
<1> DEFINE r == At(i)
<1>1. /\ Due(i, "send") /\ r \in Reads
      /\ UNCHANGED <<phase, made, starting, pc, quit, shut, count, listed, sources, pool, ender,
                     from>>
      /\ exit' = exit
      /\ Call(i, <<>>) /\ inbox' = Append(inbox, r) /\ read' = [read EXCEPT ![r] = "sent"]
      /\ astray' = astray \cup (IF phase = "over" THEN {"syncif"} ELSE {})
  BY <1>0, AtTypes DEF Send, Use, runVars, fiVars, endVars, pastVars
<1>2. FuseStack(i) /\ work[i] # <<>> /\ Head(work[i]).do = "send" /\ Head(work[i]).at = r
  BY <1>1 DEF Steady, Due, At
<1>3. pc[i] = "serve" /\ work[i] = <<Head(work[i])>> /\ Asked(i, r)
  BY <1>2, FuseDue
<1>4. work[i] = Task("send", r)
  <2>1. Head(work[i]) \in Tasks  BY <1>0, <1>2, TopIs
  <2>2. Head(work[i]) = [do |-> "send", at |-> r]  BY <1>2, <2>1, TaskTypes
  <2> QED  BY <1>3, <2>2 DEF Task
<1> HIDE DEF r
<1>5. NoCalls(work[i])  BY <1>2, <1>3, FuseNoCalls
<1>6. work'[i] = <<>> /\ \A u \in Threads \ {i} : work'[u] = work[u]
  BY <1>0, <1>1, <1>3, SeqTasks, CallAlone
<1>7. NoCalls(work'[i])  BY <1>6, NoCallsIn
<1>8. FuseStack(i)'  BY <1>1, <1>3, <1>6 DEF FuseStack
<1>9. /\ \A q \in Reads : q # r => read'[q] = read[q]
      /\ read'[r] = "sent" /\ read[r] = "looked" /\ from[r] = i
  BY <1>1, <1>3 DEF Asked, LifeTypeOK
<1>10. ASSUME NEW q \in Reads
       PROVE  /\ Underway(q)' => Underway(q) /\ from'[q] = from[q]
              /\ read'[q] = "running" <=> read[q] = "running"
              /\ \A j \in Interfaces \ {i} : Asked(j, q) => Asked(j, q)'
  <2>1. CASE q = r
    <3>1. Underway(q)  BY <1>4, <1>9, <2>1 DEF Underway
    <3> QED  BY <1>1, <1>9, <2>1, <3>1 DEF Asked
  <2>2. CASE q # r
    <3>1. read'[q] = read[q]  BY <1>9, <2>2
    <3>2. read[q] # "unseen" => from[q] \in Interfaces  BY DEF Steady, QueueOK
    <3>3. Task("send", q) # <<>>  BY OneTask
    <3>4. read[q] = "looked" /\ work'[from[q]] = Task("send", q) => work[from[q]] = Task("send", q)
      BY <1>0, <1>6, <3>2, <3>3
    <3> QED  BY <1>1, <3>1, <3>4 DEF Underway, Asked
  <2> QED  BY <2>1, <2>2
<1>11. QueueOK'
  <2>1. /\ inbox \in Seq(Reads) /\ Len(inbox) \in Nat /\ DOMAIN inbox = 1..Len(inbox)
        /\ \A k \in 1..Len(inbox) : inbox[k] \in Reads /\ read[inbox[k]] = "sent"
        /\ \A j, k \in 1..Len(inbox) : inbox[j] = inbox[k] => j = k
    BY DEF Steady, QueueOK, LifeTypeOK
  <2>2. /\ DOMAIN inbox' = 1..Len(inbox) + 1
        /\ \A k \in 1..Len(inbox) : inbox'[k] = inbox[k]
        /\ inbox'[Len(inbox) + 1] = r
    BY <1>1, <2>1
  <2>3. \A k \in 1..Len(inbox) : inbox[k] # r  BY <1>9, <2>1
  <2>4. \A k \in DOMAIN inbox' : k \in 1..Len(inbox) \/ k = Len(inbox) + 1  BY <2>1, <2>2
  <2>5. \A j, k \in DOMAIN inbox' : inbox'[j] = inbox'[k] => j = k
    BY <2>1, <2>2, <2>3, <2>4
  <2>6. \A k \in DOMAIN inbox' : read'[inbox'[k]] = "sent"
    BY <1>9, <2>1, <2>2, <2>3, <2>4
  <2>7. \A q \in Reads : read'[q] # "unseen" => from'[q] \in Interfaces
    BY <1>1, <1>9 DEF Steady, QueueOK
  <2> QED  BY <2>5, <2>6, <2>7 DEF QueueOK
<1>12. "icc" \in astray' => "icc" \in astray
  <2>1. phase # "over"  BY <1>3, QueueIsThere
  <2>2. astray' = astray  BY <1>1, <2>1
  <2> QED  BY <2>2
<1>13. Serving(i)' => Serving(i)  BY <1>3 DEF Serving
<1>14. AstrayOK'
  <2>1. phase # "over"  BY <1>3, QueueIsThere
  <2> QED  BY <1>1, <2>1 DEF Steady, AstrayOK
<1> QED  BY <1>1, <1>3, <1>5, <1>6, <1>7, <1>8, <1>10, <1>11, <1>12, <1>13, <1>14, FuseQuiet
-----------------------------------------------------------------------------
(* References acquired, and what main does while it configures              *)

LEMMA Acquired ==
  ASSUME LifeTypeOK, CountsOK, NEW d \in Counters, count[d] > 0,
         count' = [count EXCEPT ![d] = count[d] + 1],
         Consuming' <=> Consuming, Releases("icc")' \subseteq Releases("icc"),
         NEW y, Holders(d)' \subseteq Holders(d) \cup {y},
         \A c \in Counters \ {d} : Holders(c)' \subseteq Holders(c)
  PROVE  CountsOK' /\ \A c \in Counters : /\ count[c] = 0 <=> count'[c] = 0
                                          /\ count[c] > 0 <=> count'[c] > 0
<1>1. \A c \in Counters : count[c] \in Nat  BY DEF LifeTypeOK
<1>2. count'[d] = count[d] + 1 /\ \A c \in Counters \ {d} : count'[c] = count[c]
  BY DEF LifeTypeOK
<1>3. \A c \in Counters : /\ count[c] = 0 <=> count'[c] = 0
                          /\ count[c] > 0 <=> count'[c] > 0
  <2> SUFFICES ASSUME NEW c \in Counters
               PROVE  /\ count[c] = 0 <=> count'[c] = 0
                      /\ count[c] > 0 <=> count'[c] > 0
    OBVIOUS
  <2>1. CASE c = d  BY <1>1, <1>2, <2>1
  <2>2. CASE c # d  BY <1>2, <2>2
  <2> QED  BY <2>1, <2>2
<1>4. {"icc", "running", "list"} \subseteq Counters  BY DEF Counters
<1>5. \A c : Debt(c)' = Debt(c)  BY <1>3, <1>4 DEF Debt, ListCounter
<1>6. ASSUME NEW c \in Counters, c # "icc" \/ count'["icc"] > 0 PROVE Enough(c)'
  <2>1. Enough(c) /\ count[c] + Debt(c) \in Nat /\ Debt(c) \in {0, 1} /\ count[c] \in Nat
    BY <1>3, <1>4, <1>6, CountTypes DEF CountsOK
  <2>2. CASE c = d
    <3>1. (count[c] + Debt(c))' = count[c] + 1 + Debt(c)  BY <1>2, <1>5, <2>2
    <3>2. count[c] + 1 + Debt(c) = count[c] + Debt(c) + 1  BY <2>1
    <3> QED  BY <2>1, <2>2, <3>1, <3>2, NewHolder
  <2>3. CASE c # d
    <3>1. (count[c] + Debt(c))' = count[c] + Debt(c)  BY <1>2, <1>5, <2>3
    <3> QED  BY <2>1, <2>3, <3>1, FewerHolders
  <2> QED  BY <2>2, <2>3
<1>7. count'["icc"] = 0 => count'["running"] = 0 /\ Releases("icc")' = {}
  BY <1>3, <1>4 DEF CountsOK
<1> QED  BY <1>3, <1>6, <1>7 DEF CountsOK

LEMMA QuietRest ==
  ASSUME LifeTypeOK, LifeTypeOK', Steady,
         \A u \in Threads : work'[u] = work[u] \/ (NoCalls(work[u]) /\ NoCalls(work'[u])),
         \A c \in Counters : /\ count[c] = 0 <=> count'[c] = 0
                             /\ count[c] > 0 <=> count'[c] > 0,
         UNCHANGED <<shut, listed, ender, sources>>, exit' = exit, phase' = phase,
         \A i \in Interfaces : pc[i] # "unborn" => pc'[i] # "unborn"
  PROVE  /\ QuitOK' /\ JoinOK' /\ SwapOK' /\ UnlinkOK' /\ ExitOK'
         /\ ("icc" \in astray' => "icc" \in astray) /\ (Signalling' => Signalling) => SignalOK'
         /\ \A c : Kept(c)
         /\ \A u \in Threads, b \in Nat : /\ InStack(u, b)' /\ Deep(u, b)'.do = "next"
                                          => InStack(u, b) /\ Deep(u, b).do = "next"
         /\ (Signalling' <=> Signalling) => Nexts' \subseteq Nexts
<1>1. /\ work \in [Threads -> Seq(Tasks)] /\ work' \in [Threads -> Seq(Tasks)]
  BY DEF LifeTypeOK
<1>2. /\ Quiet
      /\ \A u \in Threads, b \in Nat : /\ InStack(u, b)' /\ Deep(u, b)'.do = "next"
                                       => InStack(u, b) /\ Deep(u, b).do = "next"
      /\ \A c : Releases(c)' = Releases(c)
  BY <1>1, QuietFrame DEF Quiet
<1>3. QuitOK' /\ JoinOK' /\ SwapOK' /\ UnlinkOK' /\ ExitOK'
  BY <1>2, QuietOnce DEF Steady
<1>4. ("icc" \in astray' => "icc" \in astray) /\ (Signalling' => Signalling) => SignalOK'
  <2>1. count'["icc"] = 0 => count["icc"] = 0  BY DEF Counters
  <2> QED  BY <1>2, <2>1, QuietSignal DEF Steady
<1>5. \A c : Kept(c)  BY <1>2 DEF Kept
<1>6. ASSUME Signalling' <=> Signalling, NEW x \in Nexts' PROVE x \in Nexts
  <2>1. PICK p \in Threads \X Nat : /\ x = <<"stack", p[1], p[2]>>
                                    /\ InStack(p[1], p[2])' /\ Deep(p[1], p[2])'.do = "next"
                                    /\ ~Signalling'
    BY <1>6 DEF Nexts
  <2>2. p[1] \in Threads /\ p[2] \in Nat  OBVIOUS
  <2>3. InStack(p[1], p[2]) /\ Deep(p[1], p[2]).do = "next" /\ ~Signalling
    BY <1>2, <1>6, <2>1, <2>2
  <2> QED  BY <2>1, <2>3 DEF Nexts
<1> QED  BY <1>2, <1>3, <1>4, <1>5, <1>6

LEMMA CreatingIs ==
  ASSUME NEW i
  PROVE  /\ \A s \in Creating(i) : /\ NoCalls(s) /\ s # <<>> /\ s # Task("acquire", "list")
                                   /\ s # Task("acquire", "icc") \o Task("next", 1)
                                          \o Task("arm", Nobody)
         /\ Task("acquire", "listMem") \o Task("acquire", "running") \o Task("start", i)
              \notin {Task("acquire", "running") \o Task("start", i), Task("start", i)}
         /\ Task("acquire", "running") \o Task("start", i) # Task("start", i)
<1> DEFINE T(do, at) == [do |-> do, at |-> at]
           x == T("acquire", "listMem")
           y == T("acquire", "running")
           z == T("start", i)
           w == T("acquire", "list")
           v == T("acquire", "icc")
           n == T("next", 1)
           a == T("arm", Nobody)
<1>1. /\ x.do = "acquire" /\ y.do = "acquire" /\ z.do = "start"
      /\ x.at = "listMem" /\ y.at = "running" /\ w.at = "list" /\ v.at = "icc"
      /\ w.do = "acquire" /\ v.do = "acquire"
  OBVIOUS
<1>2. /\ Task("acquire", "listMem") \o Task("acquire", "running") \o Task("start", i) = <<x, y, z>>
      /\ Task("acquire", "icc") \o Task("next", 1) \o Task("arm", Nobody) = <<v, n, a>>
  BY ThreeTasks
<1>3. Task("acquire", "running") \o Task("start", i) = <<y, z>>  BY TwoTasks
<1>4. Task("start", i) = <<z>> /\ Task("acquire", "list") = <<w>>  BY DEF Task
<1> HIDE DEF x, y, z, w, v, n, a
<1>5. /\ Head(<<x, y, z>>) = x /\ Head(<<y, z>>) = y /\ Head(<<z>>) = z /\ Head(<<w>>) = w
      /\ Head(<<v, n, a>>) = v /\ <<x, y, z>> # <<>> /\ <<y, z>> # <<>> /\ <<z>> # <<>>
  BY HeadsAre
<1>6. x # w /\ y # w /\ z # w /\ x # v /\ y # v /\ z # v /\ x # y /\ x # z /\ y # z  BY <1>1
<1>7. \A s \in Creating(i) : s \in {<<x, y, z>>, <<y, z>>, <<z>>}
  BY <1>2, <1>3, <1>4 DEF Creating
<1>8. NoCalls(<<x, y, z>>) /\ NoCalls(<<y, z>>) /\ NoCalls(<<z>>)
  <2>1. {x.do, y.do, z.do} \cap (CallDo \cup {"next"}) = {}  BY <1>1 DEF CallDo
  <2>2. {y.do, z.do} \cap (CallDo \cup {"next"}) = {} /\ z.do \notin CallDo \cup {"next"}
    BY <2>1
  <2> QED  BY <2>1, <2>2, NoCallsIn
<1>9. \A s \in {<<x, y, z>>, <<y, z>>, <<z>>} : s # <<>> /\ s # <<w>> /\ s # <<v, n, a>>
  BY <1>5, <1>6
<1>10. <<x, y, z>> # <<y, z>> /\ <<x, y, z>> # <<z>> /\ <<y, z>> # <<z>>  BY <1>5, <1>6
<1>11. \A s \in Creating(i) : NoCalls(s)  BY <1>7, <1>8
<1> QED  BY <1>2, <1>3, <1>4, <1>7, <1>9, <1>10, <1>11

LEMMA Configures ==
  ASSUME LifeTypeOK, LifeTypeOK', Steady, phase = "config", starting = Nobody, made < Len(Order),
         UNCHANGED <<phase, made, starting, pc, quit, shut, inbox, read, from, listed, sources,
                     pool, ender, astray>>, exit' = exit,
         \A u \in Threads \ {Main} : work'[u] = work[u],
         work[Main] = <<>> \/ work[Main] \in Creating(Order[made + 1]),
         work'[Main] \in Creating(Order[made + 1]),
         \A c \in Counters : /\ count[c] = 0 <=> count'[c] = 0
                             /\ count[c] > 0 <=> count'[c] > 0
  PROVE  /\ MainStack' /\ (\A i \in Interfaces : FuseStack(i)') /\ InOrderMade' /\ QueueOK'
         /\ QuitOK' /\ JoinOK' /\ SwapOK' /\ UnlinkOK' /\ ExitOK' /\ SignalOK' /\ AstrayOK'
         /\ ~Consuming /\ ~Consuming' /\ Nexts' \subseteq Nexts /\ Running' \subseteq Running
         /\ \A c : Kept(c)
         /\ \A i \in Interfaces : Readers(i)' \subseteq Readers(i) /\ (Serving(i)' => Serving(i))
<1>1. Main \in Threads /\ Interfaces \subseteq Threads /\ Main \notin Interfaces  BY ThreadsAre
<1>2. Order[made + 1] = Order[made' + 1]  OBVIOUS
<1>3. /\ \A s \in Creating(Order[made + 1]) : NoCalls(s)
      /\ NoCalls(<<>>)
      /\ ~Signalling /\ ~Signalling' /\ ~Consuming /\ ~Consuming'
  <2>1. \A i : \A s \in Creating(i) : /\ NoCalls(s) /\ s # <<>> /\ s # Task("acquire", "list")
                                 /\ s # Task("acquire", "icc") \o Task("next", 1)
                                        \o Task("arm", Nobody)
    BY CreatingIs
  <2>2. /\ <<>> # Task("acquire", "list")
        /\ <<>> # Task("acquire", "icc") \o Task("next", 1) \o Task("arm", Nobody)
    <3> DEFINE x == [do |-> "acquire", at |-> "icc"]
               y == [do |-> "next", at |-> 1]
               z == [do |-> "arm", at |-> Nobody]
    <3>1. Task("acquire", "icc") \o Task("next", 1) \o Task("arm", Nobody) = <<x, y, z>>
      BY ThreeTasks
    <3> HIDE DEF x, y, z
    <3>2. <<x, y, z>> # <<>>  BY HeadsAre
    <3> QED  BY <3>1, <3>2, OneTask
  <2>3. \A s \in Creating(Order[made + 1]) :
          /\ NoCalls(s) /\ s # Task("acquire", "list")
          /\ s # Task("acquire", "icc") \o Task("next", 1) \o Task("arm", Nobody)
    BY <2>1
  <2>4. ~Signalling /\ ~Consuming  BY <2>2, <2>3 DEF Signalling, Consuming
  <2>5. ~Signalling' /\ ~Consuming'  BY <2>3 DEF Signalling, Consuming
  <2> QED  BY <2>3, <2>4, <2>5, NoCallsIn
<1>4. \A u \in Threads : work'[u] = work[u] \/ (NoCalls(work[u]) /\ NoCalls(work'[u]))
  BY <1>3
<1>5. /\ QuitOK' /\ JoinOK' /\ SwapOK' /\ UnlinkOK' /\ ExitOK' /\ SignalOK'
      /\ Nexts' \subseteq Nexts /\ \A c : Kept(c)
  BY <1>3, <1>4, QuietRest
<1>6. MainStack'  BY <1>2 DEF MainStack
<1>7. \A i \in Interfaces : work'[i] = work[i]  BY <1>1
<1>8. \A i \in Interfaces : FuseStack(i)'
  BY <1>7, FuseSame DEF Steady, Asked
<1>9. InOrderMade' /\ QueueOK' /\ AstrayOK'
  BY QueueFrame DEF Steady, InOrderMade, AstrayOK
<1>10. \A r \in Reads : Underway(r)' => Underway(r)
  <2> SUFFICES ASSUME NEW r \in Reads, Underway(r)' PROVE Underway(r)  OBVIOUS
  <2>1. read[r] # "unseen" => from[r] \in Interfaces  BY DEF Steady, QueueOK
  <2>2. read[r] = "looked" => work'[from[r]] = work[from[r]]  BY <1>7, <2>1
  <2> QED  BY <2>2 DEF Underway
<1>11. \A i \in Interfaces : Readers(i)' \subseteq Readers(i)  BY <1>10, KeepsReaders
<1>12. \A i \in Interfaces : Serving(i)' => Serving(i)  BY <1>7 DEF Serving
<1>13. Running' \subseteq Running  BY KeepsRunningReads
<1> QED  BY <1>3, <1>5, <1>6, <1>8, <1>9, <1>11, <1>12, <1>13

LEMMA NextBorn ==
  ASSUME LifeTypeOK, made < Len(Order)
  PROVE  /\ made + 1 \in DOMAIN Order /\ Order[made + 1] \in Interfaces
         /\ \A k \in DOMAIN Order : Order[k] = Order[made + 1] => k = made + 1
<1>1. made \in Nat /\ Len(Order) \in Nat /\ DOMAIN Order = 1..Len(Order)
  BY OrderIs DEF LifeTypeOK
<1>2. made + 1 \in DOMAIN Order  BY <1>1
<1> QED  BY <1>1, <1>2, OrderIs, NamesAreApart

LEMMA CreateSteady ==
  ASSUME LifeTypeOK, LifeTypeOK', Steady, Create
  PROVE  Steady'
<1>1. /\ phase = "config" /\ starting = Nobody /\ made < Len(Order) /\ work[Main] = <<>>
      /\ UNCHANGED <<phase, made, starting, pc, quit, shut, inbox, read, from, listed, sources,
                     pool, ender, astray, count>> /\ exit' = exit
      /\ work' = [work EXCEPT ![Main] = Task("acquire", "listMem") \o Task("acquire", "running")
                                        \o Task("start", Order[made + 1])]
  BY DEF Create, Configuring, Handle, runVars, fiVars, readVars, endVars, pastVars
<1>2. /\ work'[Main] = Task("acquire", "listMem") \o Task("acquire", "running")
                       \o Task("start", Order[made + 1])
      /\ \A u \in Threads \ {Main} : work'[u] = work[u]
  BY <1>1, ThreadsAre DEF LifeTypeOK
<1>3. work'[Main] \in Creating(Order[made + 1])  BY <1>2 DEF Creating
<1>4. /\ MainStack' /\ (\A i \in Interfaces : FuseStack(i)') /\ InOrderMade' /\ QueueOK'
      /\ QuitOK' /\ JoinOK' /\ SwapOK' /\ UnlinkOK' /\ ExitOK' /\ SignalOK' /\ AstrayOK'
      /\ ~Consuming /\ ~Consuming' /\ Nexts' \subseteq Nexts /\ Running' \subseteq Running
      /\ \A c : Kept(c)
      /\ \A i \in Interfaces : Readers(i)' \subseteq Readers(i) /\ (Serving(i)' => Serving(i))
  BY <1>1, <1>2, <1>3, Configures
<1>5. ASSUME NEW i \in Interfaces
      PROVE  (Active(i)' => Active(i)) /\ (Listing(i)' => Listing(i))
  <2>1. work'[Main] # Task("start", i)
        /\ work'[Main] \notin {Task("acquire", "running") \o Task("start", i), Task("start", i)}
    <3> DEFINE T(do, at) == [do |-> do, at |-> at]
               x == T("acquire", "listMem")
               y == T("acquire", "running")
               z == T("start", Order[made + 1])
               w == T("start", i)
    <3>1. Task("acquire", "listMem") \o Task("acquire", "running") \o Task("start", Order[made + 1])
            = <<x, y, z>>
      BY ThreeTasks
    <3>2. Task("acquire", "running") \o Task("start", i) = <<y, w>> /\ Task("start", i) = <<w>>
      BY TwoTasks, OneTask
    <3> HIDE DEF x, y, z, w
    <3>3. Len(<<x, y, z>>) = 3 /\ Len(<<y, w>>) = 2 /\ Len(<<w>>) = 1  BY HeadsAre
    <3> QED  BY <1>2, <3>1, <3>2, <3>3
  <2> QED  BY <1>1, <2>1 DEF Active, Listing
<1>6. CountsOK'
  <2>1. /\ Holders("icc")' \subseteq Holders("icc")
        /\ Holders("running")' \subseteq Holders("running")
        /\ Holders("loop")' \subseteq Holders("loop")
        /\ Holders("list")' \subseteq Holders("list")
        /\ Holders("listMem")' \subseteq Holders("listMem")
        /\ \A i \in Interfaces : Holders(i)' \subseteq Holders(i)
    BY <1>1, <1>4, <1>5, AllKeep
  <2>2. \A c \in Counters : Holders(c)' \subseteq Holders(c)
    BY <2>1 DEF Counters
  <2>3. count["icc"] = 0 => Releases("icc")' = {}  BY <1>4 DEF Steady, CountsOK, Kept
  <2> QED  BY <1>1, <1>4, <2>2, <2>3, Balance DEF Steady
<1> QED  BY <1>4, <1>6 DEF Steady
-----------------------------------------------------------------------------
(* The thread of an interface starts                                        *)

\* What main does while it configures, told by the task on top
LEMMA ConfigDoes ==
  ASSUME LifeTypeOK, MainStack, work[Main] # <<>>,
         Head(work[Main]).do = "start"
         \/ /\ Head(work[Main]).do = "acquire" /\ ~Signalling /\ ~Consuming
  PROVE  LET i == Order[made + 1]
         IN /\ phase = "config" /\ starting = Nobody /\ made < Len(Order)
            /\ work[Main] \in Creating(i)
            /\ Head(work[Main]).do = "start" => work[Main] = Task("start", i)
            /\ Head(work[Main]) = [do |-> "acquire", at |-> "listMem"] =>
                 work[Main] = Task("acquire", "listMem") \o Task("acquire", "running")
                              \o Task("start", i)
            /\ Head(work[Main]) = [do |-> "acquire", at |-> "running"] =>
                 work[Main] = Task("acquire", "running") \o Task("start", i)
            /\ Head(work[Main]).do = "acquire" => Head(work[Main]).at \in {"listMem", "running"}
            /\ Head(work[Main]).do = "start" => Head(work[Main]).at = i
<1>1. "acquire" \notin CallDo \cup {"next", "arm"} /\ "start" \notin CallDo \cup {"next", "arm"}
  BY DEF CallDo
<1> DEFINE i == Order[made + 1]
           x == [do |-> "acquire", at |-> "listMem"]
           y == [do |-> "acquire", at |-> "running"]
           z == [do |-> "start", at |-> i]
           c == [do |-> "acquire", at |-> "list"]
           s == [do |-> "acquire", at |-> "icc"]
           h == Head(work[Main])
<1>2. /\ phase = "config" /\ starting = Nobody /\ made < Len(Order)
      /\ \/ work[Main] = Task("acquire", "listMem") \o Task("acquire", "running")
                           \o Task("start", i)
         \/ work[Main] = Task("acquire", "running") \o Task("start", i)
         \/ work[Main] = Task("start", i)
  BY <1>1, MainDoes
<1>3. /\ Task("acquire", "listMem") \o Task("acquire", "running") \o Task("start", i) = <<x, y, z>>
      /\ Task("acquire", "running") \o Task("start", i) = <<y, z>> /\ Task("start", i) = <<z>>
  <2>1. Task("acquire", "listMem") \o Task("acquire", "running") \o Task("start", i) = <<x, y, z>>
    BY ThreeTasks
  <2>2. Task("acquire", "running") \o Task("start", i) = <<y, z>>  BY TwoTasks
  <2>3. Task("start", i) = <<z>>  BY DEF Task
  <2> QED  BY <2>1, <2>2, <2>3
<1>4. /\ x.do = "acquire" /\ y.do = "acquire" /\ z.do = "start" /\ z.at = i
      /\ x.at = "listMem" /\ y.at = "running"
  OBVIOUS
<1> HIDE DEF x, y, z, c, s
<1>5. Head(<<x, y, z>>) = x /\ Head(<<y, z>>) = y /\ Head(<<z>>) = z  BY HeadsAre
<1>6. \/ h = x /\ work[Main] = <<x, y, z>>
      \/ h = y /\ work[Main] = <<y, z>>
      \/ h = z /\ work[Main] = <<z>>
  BY <1>2, <1>3, <1>5
<1> HIDE DEF h, i
<1>7. /\ h.do = "start" => work[Main] = <<z>> /\ h.at = i
      /\ h = x => work[Main] = <<x, y, z>>
      /\ h = y => work[Main] = <<y, z>>
      /\ h.do = "acquire" => h.at \in {"listMem", "running"}
  BY <1>4, <1>6
<1>8. work[Main] \in Creating(i)  BY <1>2 DEF Creating
<1> QED  BY <1>2, <1>3, <1>7, <1>8 DEF h, i, x, y

LEMMA StartSteady ==
  ASSUME LifeTypeOK, LifeTypeOK', Steady, NEW t \in Threads, Start(t)
  PROVE  Steady'
<1>0. Main \in Threads /\ Interfaces \subseteq Threads /\ Main \notin Interfaces
      /\ Nobody \notin Interfaces
  BY ThreadsAre
<1>1. /\ Due(t, "start") /\ starting' = At(t) /\ pc' = [pc EXCEPT ![At(t)] = "start"]
      /\ work' = [work EXCEPT ![t] = Tail(@),
                              ![At(t)] = Task("acquire", At(t)) \o Task("mount", Nobody)]
      /\ UNCHANGED <<phase, made, quit, shut, count, inbox, read, from, listed, sources, pool,
                     ender, astray>> /\ exit' = exit
  BY DEF Start, readVars, endVars, pastVars
<1>2. work[t] # <<>> /\ Head(work[t]).do = "start"  BY <1>1 DEF Due
<1>3. t = Main
  <2>1. ASSUME t # Main PROVE FALSE
    <3>1. t \in Interfaces /\ FuseStack(t)  BY <2>1, ThreadsAre DEF Steady
    <3>2. Head(work[t]).do \in CallDo  BY <1>2, <3>1, FuseDue
    <3> QED  BY <1>2, <3>2 DEF CallDo
  <2> QED  BY <2>1
<1> DEFINE i == Order[made + 1]
           a == [do |-> "acquire", at |-> i]
           m == [do |-> "mount", at |-> Nobody]
<1>4. /\ phase = "config" /\ starting = Nobody /\ made < Len(Order)
      /\ work[Main] = Task("start", i) /\ work[Main] \in Creating(i) /\ At(Main) = i
  BY <1>2, <1>3, ConfigDoes DEF Steady, At
<1>5. i \in Interfaces /\ made + 1 \in DOMAIN Order
      /\ \A k \in DOMAIN Order : Order[k] = i => k = made + 1
  BY <1>4, NextBorn
<1>6. made \in Nat /\ made + 1 > made /\ DOMAIN Order = 1..Len(Order) /\ Len(Order) \in Nat
  BY OrderIs DEF LifeTypeOK
<1>7. pc[i] = "unborn"
  BY <1>0, <1>4, <1>5, <1>6 DEF Steady, InOrderMade
<1> HIDE DEF i
<1>8. /\ pc'[i] = "start" /\ \A j \in Interfaces \ {i} : pc'[j] = pc[j]
  BY <1>1, <1>3, <1>4, <1>5 DEF LifeTypeOK
<1>9. /\ work'[Main] = Tail(work[Main]) /\ work'[i] = Task("acquire", i) \o Task("mount", Nobody)
      /\ \A u \in Threads \ {Main, i} : work'[u] = work[u]
  BY <1>0, <1>1, <1>3, <1>4, <1>5 DEF LifeTypeOK
<1>10. work'[Main] = <<>>
  <2> DEFINE z == [do |-> "start", at |-> i]
  <2>1. work[Main] = <<z>>  BY <1>4 DEF Task
  <2> HIDE DEF z
  <2>2. Tail(<<z>>) = <<>>  OBVIOUS
  <2> QED  BY <1>9, <2>1, <2>2
<1>11. work'[i] = <<a, m>>  BY <1>9, TwoTasks
<1>12. a.do = "acquire" /\ m.do = "mount"  OBVIOUS
<1>13. work[i] = <<>>  BY <1>5, <1>7 DEF Steady, FuseStack
<1>14. \A x : work'[i] # <<x>> /\ \A do, at : work'[i] # Task(do, at)
  <2> HIDE DEF a, m
  <2>1. Len(<<a, m>>) = 2 /\ \A x : Len(<<x>>) = 1  BY HeadsAre
  <2>2. \A do, at : Len(Task(do, at)) = 1  BY OneTask
  <2> QED  BY <1>11, <2>1, <2>2
<1>15. NoCalls(work[Main]) /\ NoCalls(work'[Main]) /\ NoCalls(work[i]) /\ NoCalls(work'[i])
       /\ ~Consuming /\ ~Signalling
  <2>1. NoCalls(work[Main]) /\ ~Consuming /\ ~Signalling
    BY <1>4, CreatingIs DEF Consuming, Signalling
  <2>2. {a.do, m.do} \cap (CallDo \cup {"next"}) = {}  BY <1>12 DEF CallDo
  <2> HIDE DEF a, m
  <2>3. NoCalls(work'[i])  BY <1>11, <2>2, NoCallsIn
  <2> QED  BY <1>10, <1>13, <2>1, <2>3, NoCallsIn
<1>16. ~Consuming' /\ ~Signalling'
  <2> DEFINE x == [do |-> "acquire", at |-> "icc"]
             y == [do |-> "next", at |-> 1]
             z == [do |-> "arm", at |-> Nobody]
  <2>1. Task("acquire", "icc") \o Task("next", 1) \o Task("arm", Nobody) = <<x, y, z>>
    BY ThreeTasks
  <2> HIDE DEF x, y, z
  <2>2. <<x, y, z>> # <<>> /\ Task("acquire", "list") # <<>>  BY HeadsAre, OneTask
  <2> QED  BY <1>10, <2>1, <2>2 DEF Consuming, Signalling
<1>17. \A u \in Threads : work'[u] = work[u] \/ (NoCalls(work[u]) /\ NoCalls(work'[u]))
  BY <1>9, <1>15
<1>18. ASSUME NEW j \in Interfaces
       PROVE  /\ pc[j] # "unborn" => pc'[j] # "unborn"
              /\ Active(j)' => Active(j)
              /\ Listing(j)' => Listing(j)
              /\ Serving(j)' => Serving(j)
  <2>1. CASE j = i
    <3>1. Active(j)' => Active(j)  BY <1>1, <1>4, <2>1 DEF Active
    <3>2. Listing(j)' => Listing(j)  BY <1>1, <1>4, <2>1 DEF Listing
    <3>3. ~Serving(j)'  BY <1>8, <1>14, <2>1 DEF Serving
    <3> QED  BY <1>8, <2>1, <3>1, <3>2, <3>3
  <2>2. CASE j # i
    <3>1. pc'[j] = pc[j] /\ work'[j] = work[j]  BY <1>0, <1>8, <1>9, <2>2
    <3>2. Task("start", j) # <<>>  BY OneTask
    <3>3. Task("acquire", "running") \o Task("start", j) # <<>>
      <4> DEFINE x == [do |-> "acquire", at |-> "running"]
                 y == [do |-> "start", at |-> j]
      <4>1. Task("acquire", "running") \o Task("start", j) = <<x, y>>  BY TwoTasks
      <4> HIDE DEF x, y
      <4> QED  BY <4>1, HeadsAre
    <3> QED  BY <1>1, <1>10, <3>1, <3>2, <3>3 DEF Active, Listing, Serving
  <2> QED  BY <2>1, <2>2
<1>19. ASSUME NEW r \in Reads
       PROVE  Underway(r)' => Underway(r)
  <2>1. read[r] # "unseen" => from[r] \in Interfaces  BY DEF Steady, QueueOK
  <2>2. CASE from[r] = i  BY <1>1, <1>14, <2>2 DEF Underway
  <2>3. CASE from[r] # i  BY <1>0, <1>1, <1>9, <2>1, <2>3 DEF Underway
  <2> QED  BY <2>2, <2>3
<1>20. CountsOK' /\ QuitOK' /\ JoinOK' /\ SwapOK' /\ SignalOK' /\ UnlinkOK' /\ ExitOK'
  BY <1>1, <1>15, <1>16, <1>17, <1>18, <1>19, QuietBalance
<1>21. MainStack'  BY <1>1, <1>4, <1>10 DEF MainStack
<1>22. ASSUME NEW j \in Interfaces PROVE FuseStack(j)'
  <2>1. CASE j = i  BY <1>8, <1>9, <2>1 DEF FuseStack
  <2>2. CASE j # i
    <3>1. pc'[j] = pc[j] /\ work'[j] = work[j]  BY <1>0, <1>8, <1>9, <2>2
    <3> QED  BY <1>1, <3>1, FuseSame DEF Steady, Asked
  <2> QED  BY <2>1, <2>2
<1>23. InOrderMade'
  <2>1. starting' = i /\ i = Order[made' + 1]  BY <1>1, <1>3, <1>4 DEF i
  <2>2. ASSUME NEW k \in DOMAIN Order
        PROVE  /\ k <= made => pc'[Order[k]] \notin {"unborn", "start"}
               /\ k > made /\ i # Order[k] => pc'[Order[k]] = "unborn"
    <3>1. /\ k <= made => pc[Order[k]] \notin {"unborn", "start"}
          /\ k > made /\ starting # Order[k] => pc[Order[k]] = "unborn"
      BY DEF Steady, InOrderMade
    <3>2. Order[k] \in Interfaces  BY OrderIs
    <3>3. CASE Order[k] = i
      <4>1. k = made + 1  BY <1>5, <3>3
      <4> QED  BY <1>6, <3>3, <4>1
    <3>4. CASE Order[k] # i
      <4>1. pc'[Order[k]] = pc[Order[k]] /\ starting # Order[k]  BY <1>0, <1>4, <1>8, <3>2, <3>4
      <4> QED  BY <3>1, <4>1
    <3> QED  BY <3>3, <3>4
  <2> QED  BY <1>1, <1>4, <1>8, <1>10, <2>1, <2>2 DEF InOrderMade
<1>24. QueueOK' /\ AstrayOK'  BY <1>1, QueueFrame DEF Steady, AstrayOK
<1> QED  BY <1>20, <1>21, <1>22, <1>23, <1>24 DEF Steady
-----------------------------------------------------------------------------
(* References acquired *)

LEMMA AcquireDoes ==
  ASSUME LifeTypeOK, NEW t \in Threads, Count(t), Due(t, "acquire"), count[Counter(t)] > 0
  PROVE  /\ count' = [count EXCEPT ![Counter(t)] = count[Counter(t)] + 1]
         /\ Call(t, <<>>) /\ Counter(t) \in Counters
         /\ UNCHANGED <<phase, made, starting, pc, quit, shut, inbox, read, from, listed,
                        sources, pool, ender, astray>> /\ exit' = exit
         /\ \A c \in Counters : /\ count[c] = 0 <=> count'[c] = 0
                                /\ count[c] > 0 <=> count'[c] > 0
<1>1. Acquires(t) /\ Counts(t)  BY DEF Acquires, Counts
<1>2. /\ Counter(t) \in Counters /\ count[Counter(t)] \in Nat
      /\ Counted(t) = count[Counter(t)] + 1
  BY <1>1, CounterTyped
<1>3. Callbacks(t, Counted(t)) = <<>>  BY <1>1 DEF Callbacks
<1>4. count' = [count EXCEPT ![Counter(t)] = Counted(t)] /\ Call(t, <<>>)
  BY <1>2, <1>3 DEF Count
<1>5. /\ UNCHANGED <<phase, made, starting, pc, quit, shut, inbox, read, from, listed,
                     sources, pool, ender>> /\ exit' = exit
  BY DEF Count, runVars, fiVars, readVars, endVars, pastVars
<1>6. astray' = astray  BY <1>2 DEF Count, Use
<1>7. \A c \in Counters : /\ count[c] = 0 <=> count'[c] = 0
                          /\ count[c] > 0 <=> count'[c] > 0
  <2> SUFFICES ASSUME NEW c \in Counters
               PROVE  /\ count[c] = 0 <=> count'[c] = 0
                      /\ count[c] > 0 <=> count'[c] > 0
    OBVIOUS
  <2>1. CASE c = Counter(t)
    <3>1. count'[c] = count[c] + 1 /\ count[c] \in Nat  BY <1>2, <1>4, <2>1 DEF LifeTypeOK
    <3> QED  BY <2>1, <3>1
  <2>2. CASE c # Counter(t)  BY <1>4, <2>2 DEF LifeTypeOK
  <2> QED  BY <2>1, <2>2
<1> QED  BY <1>2, <1>4, <1>5, <1>6, <1>7

\* ic_fuse_make takes the list, then ic_running.
LEMMA ConfigAcquireSteady ==
  ASSUME LifeTypeOK, LifeTypeOK', Steady, Count(Main), Due(Main, "acquire"),
         ~Signalling, ~Consuming
  PROVE  Steady'
<1>0. Main \in Threads /\ Interfaces \subseteq Threads /\ Main \notin Interfaces
  BY ThreadsAre
<1> DEFINE i == Order[made + 1]
           x == [do |-> "acquire", at |-> "listMem"]
           y == [do |-> "acquire", at |-> "running"]
           z == [do |-> "start", at |-> i]
           h == Head(work[Main])
           d == Counter(Main)
<1>1. work[Main] # <<>> /\ h.do = "acquire" /\ h = [do |-> "acquire", at |-> At(Main)]
  BY <1>0, DueIs DEF Due
<1>2. /\ phase = "config" /\ starting = Nobody /\ made < Len(Order)
      /\ work[Main] \in Creating(i)
      /\ h = x => work[Main] = Task("acquire", "listMem") \o Task("acquire", "running")
                                \o Task("start", i)
      /\ h = y => work[Main] = Task("acquire", "running") \o Task("start", i)
      /\ h.at \in {"listMem", "running"}
  BY <1>1, ConfigDoes DEF Steady
<1>3. At(Main) \in {"listMem", "running"} /\ d = At(Main)
  BY <1>2 DEF At, Counter
<1>4. count["running"] > 0 /\ count["listMem"] > 0
  BY <1>2, ConfigHolds DEF Steady
<1>5. /\ count' = [count EXCEPT ![d] = count[d] + 1] /\ count[d] > 0
      /\ Call(Main, <<>>) /\ d \in Counters
      /\ UNCHANGED <<phase, made, starting, pc, quit, shut, inbox, read, from, listed,
                     sources, pool, ender, astray>> /\ exit' = exit
      /\ \A c \in Counters : /\ count[c] = 0 <=> count'[c] = 0
                             /\ count[c] > 0 <=> count'[c] > 0
  BY <1>0, <1>3, <1>4, AcquireDoes
<1>6. \A u \in Threads \ {Main} : work'[u] = work[u]  BY <1>0, <1>5, CallDrop
<1>7. Task("acquire", "listMem") \o Task("acquire", "running") \o Task("start", i) = <<x, y, z>>
  BY ThreeTasks
<1>8. Task("acquire", "running") \o Task("start", i) = <<y, z>>  BY TwoTasks
<1>9. \A j : Task("start", j) = <<[do |-> "start", at |-> j]>>  BY DEF Task
<1>10. h = x \/ h = y  BY <1>1, <1>3
<1>11. x.at = "listMem" /\ y.at = "running" /\ z.at = i  OBVIOUS
<1>12. i \in Interfaces  BY <1>2, NextBorn
<1> HIDE DEF x, y, z, i, h
<1>13. /\ h = x => work[Main] = <<x, y, z>> /\ work'[Main] = <<y, z>>
       /\ h = y => work[Main] = <<y, z>> /\ work'[Main] = <<z>>
  <2>1. /\ h = x => work[Main] = <<x, y, z>>
        /\ h = y => work[Main] = <<y, z>>
    BY <1>2, <1>7, <1>8
  <2>2. /\ \A a, b : work[Main] = <<a, b>> => work'[Main] = <<b>>
        /\ \A a, b, c : work[Main] = <<a, b, c>> => work'[Main] = <<b, c>>
    BY <1>0, <1>5, CallDrop
  <2> QED  BY <2>1, <2>2
<1>14. Task("start", i) = <<z>>  BY <1>9 DEF z
<1>15. work'[Main] \in Creating(i)  BY <1>8, <1>10, <1>13, <1>14 DEF Creating
<1>16. /\ MainStack' /\ (\A j \in Interfaces : FuseStack(j)') /\ InOrderMade' /\ QueueOK'
       /\ QuitOK' /\ JoinOK' /\ SwapOK' /\ UnlinkOK' /\ ExitOK' /\ SignalOK' /\ AstrayOK'
       /\ ~Consuming' /\ Nexts' \subseteq Nexts /\ Running' \subseteq Running
       /\ \A c : Kept(c)
       /\ \A j \in Interfaces : Readers(j)' \subseteq Readers(j) /\ (Serving(j)' => Serving(j))
  BY <1>2, <1>5, <1>6, <1>15, Configures DEF i
<1>17. \A j : Task("start", j) = <<z>> => j = i
  <2> SUFFICES ASSUME NEW j, Task("start", j) = <<z>> PROVE j = i  OBVIOUS
  <2> DEFINE w == [do |-> "start", at |-> j]
  <2>1. w.at = j /\ Task("start", j) = <<w>>  BY <1>9
  <2> HIDE DEF w
  <2> QED  BY <1>11, <2>1, HeadsAre
<1>18. \A j : Task("acquire", "running") \o Task("start", j) = <<y, z>> => j = i
  <2> SUFFICES ASSUME NEW j, Task("acquire", "running") \o Task("start", j) = <<y, z>>
               PROVE  j = i
    OBVIOUS
  <2> DEFINE w == [do |-> "start", at |-> j]
  <2>1. w.at = j /\ Task("acquire", "running") \o Task("start", j) = <<y, w>>
    BY TwoTasks DEF y
  <2> HIDE DEF w
  <2>2. <<y, w>>[2] = w /\ <<y, z>>[2] = z  OBVIOUS
  <2> QED  BY <1>11, <2>1, <2>2
<1>19. \A j : /\ Task("start", j) # <<y, z>> /\ Task("acquire", "running") \o Task("start", j) # <<z>>
  <2> TAKE j
  <2> DEFINE w == [do |-> "start", at |-> j]
  <2>1. Task("acquire", "running") \o Task("start", j) = <<y, w>> /\ Task("start", j) = <<w>>
    <3>1. Task("acquire", "running") \o Task("start", j) = <<y, w>>  BY TwoTasks DEF y
    <3> QED  BY <1>9, <3>1
  <2> HIDE DEF w
  <2>2. Len(<<y, w>>) = 2 /\ Len(<<w>>) = 1 /\ Len(<<y, z>>) = 2 /\ Len(<<z>>) = 1  BY HeadsAre
  <2> QED  BY <2>1, <2>2
<1>20. ASSUME NEW j \in Interfaces
       PROVE  /\ j # i \/ h = y => (Listing(j)' => Listing(j))
              /\ j # i \/ h = x => (Active(j)' => Active(j))
  <2>1. CASE h = x
    <3>1. work'[Main] = <<y, z>>  BY <1>13, <2>1
    <3>2. work'[Main] # Task("start", j)  BY <1>19, <3>1
    <3>3. j # i => work'[Main] # Task("acquire", "running") \o Task("start", j)
      BY <1>18, <3>1
    <3>4. Active(j)' => Active(j)  BY <1>5, <3>2 DEF Active
    <3>5. j # i => (Listing(j)' => Listing(j))  BY <1>5, <3>2, <3>3 DEF Listing
    <3>6. x # y  BY <1>11
    <3> QED  BY <2>1, <3>4, <3>5, <3>6
  <2>2. CASE h = y
    <3>1. work'[Main] = <<z>> /\ work[Main] = Task("acquire", "running") \o Task("start", i)
      BY <1>8, <1>13, <2>2
    <3>2. j # i => work'[Main] # Task("start", j)  BY <1>17, <3>1
    <3>3. work'[Main] # Task("acquire", "running") \o Task("start", j)  BY <1>19, <3>1
    <3>4. j # i => (Active(j)' => Active(j))  BY <1>5, <3>2 DEF Active
    <3>5. Listing(j)' => Listing(j)  BY <1>5, <3>1, <3>2, <3>3 DEF Listing
    <3>6. x # y  BY <1>11
    <3> QED  BY <2>2, <3>4, <3>5, <3>6
  <2> QED  BY <1>10, <2>1, <2>2
<1>21. /\ Holders("icc")' \subseteq Holders("icc")
       /\ Holders("loop")' \subseteq Holders("loop")
       /\ Holders("list")' \subseteq Holders("list")
       /\ \A j \in Interfaces : Holders(j)' \subseteq Holders(j)
       /\ (\A j \in Interfaces : Active(j)' => Active(j))
            => Holders("running")' \subseteq Holders("running")
       /\ (\A j \in Interfaces : Listing(j)' => Listing(j))
            => Holders("listMem")' \subseteq Holders("listMem")
  BY <1>5, <1>16, AllKeep
<1> DEFINE n == <<"interface", i, 0>>
<1>22. CASE h = x
  <2>1. d = "listMem"  BY <1>3, <1>11, <1>22 DEF h, At
  <2>2. \A j \in Interfaces : (Active(j)' => Active(j)) /\ (j # i => (Listing(j)' => Listing(j)))
    BY <1>20, <1>22
  <2>3. Holders("listMem")' \subseteq Holders("listMem") \cup {n}
    <3>1. ListCounter' = ListCounter  BY <1>5 DEF ListCounter, Counters
    <3>2. Releases("list")' \subseteq Releases("list") /\ Releases("listMem")' \subseteq Releases("listMem")
      BY <1>16 DEF Kept
    <3>3. ListUsers("listMem")' \subseteq ListUsers("listMem")  BY <1>16, <3>1, <3>2 DEF ListUsers
    <3>4. Users("listMem")' \subseteq Users("listMem") \cup {n}  BY <2>2, <3>3 DEF Users
    <3>5. Fixed("listMem")' \subseteq Fixed("listMem")  BY <1>5 DEF Fixed, If, Counters
    <3> QED  BY <3>2, <3>4, <3>5 DEF Holders
  <2> HIDE DEF n, d
  <2>4. \A c \in Counters \ {d} : Holders(c)' \subseteq Holders(c)
    BY <1>21, <2>1, <2>2 DEF Counters
  <2>5. Releases("icc")' \subseteq Releases("icc")  BY <1>16 DEF Kept
  <2>6. Consuming' <=> Consuming  BY <1>16
  <2> QED  BY <1>5, <2>1, <2>3, <2>4, <2>5, <2>6, Acquired, <1>16 DEF Steady
<1>23. CASE h = y
  <2>1. d = "running"  BY <1>3, <1>11, <1>23 DEF h, At
  <2>2. \A j \in Interfaces : (Listing(j)' => Listing(j)) /\ (j # i => (Active(j)' => Active(j)))
    BY <1>20, <1>23
  <2>3. Holders("running")' \subseteq Holders("running") \cup {n}
    <3>1. Releases("running")' \subseteq Releases("running")  BY <1>16 DEF Kept
    <3>2. Users("running")' \subseteq Users("running") \cup {n}  BY <2>2 DEF Users
    <3>3. Fixed("running")' \subseteq Fixed("running")  BY <1>5 DEF Fixed, If
    <3> QED  BY <3>1, <3>2, <3>3 DEF Holders
  <2> HIDE DEF n, d
  <2>4. \A c \in Counters \ {d} : Holders(c)' \subseteq Holders(c)
    BY <1>21, <2>1, <2>2 DEF Counters
  <2>5. Releases("icc")' \subseteq Releases("icc")  BY <1>16 DEF Kept
  <2>6. Consuming' <=> Consuming  BY <1>16
  <2> QED  BY <1>5, <2>1, <2>3, <2>4, <2>5, <2>6, Acquired, <1>16 DEF Steady
<1> QED  BY <1>10, <1>22, <1>23

\* What an acquiring thread of an interface leaves as it was
LEMMA FuseAcquires ==
  ASSUME LifeTypeOK, LifeTypeOK', Steady, NEW i \in Interfaces, Count(i), Due(i, "acquire"),
         count[i] > 0, NEW s, work[i] = <<[do |-> "acquire", at |-> i], s>>,
         s.do \in {"mount", "send"}, FuseStack(i)',
         NEW y, Holders(i)' \subseteq Holders(i) \cup {y},
         \A r \in Reads : from[r] # i => (Underway(r)' => Underway(r))
  PROVE  Steady'
<1>0. /\ i \in Threads /\ i # Main /\ Main \in Threads /\ Interfaces \subseteq Threads
      /\ Nobody \notin Interfaces
  BY ThreadsAre
<1> DEFINE a == [do |-> "acquire", at |-> i]
<1>1. At(i) = i
  <2>1. a.at = i  OBVIOUS
  <2> HIDE DEF a
  <2> QED  BY <2>1, HeadsAre DEF At, a
<1>2. Counter(i) = i /\ i \in Counters
  BY <1>1, InterfaceIsOther DEF Counter, Counters
<1>3. /\ count' = [count EXCEPT ![i] = count[i] + 1] /\ Call(i, <<>>)
      /\ UNCHANGED <<phase, made, starting, pc, quit, shut, inbox, read, from, listed,
                     sources, pool, ender, astray>> /\ exit' = exit
      /\ \A c \in Counters : /\ count[c] = 0 <=> count'[c] = 0
                             /\ count[c] > 0 <=> count'[c] > 0
  BY <1>0, <1>2, AcquireDoes
<1>4. \A u \in Threads \ {i} : work'[u] = work[u]  BY <1>0, <1>3, CallDrop
<1>5. work'[i] = <<s>>  BY <1>0, <1>3, CallDrop
<1>6. NoCalls(work[i]) /\ NoCalls(work'[i])
  <2>1. a.do = "acquire" /\ "acquire" \notin CallDo \cup {"next"} /\ s.do \notin CallDo \cup {"next"}
    BY DEF CallDo
  <2> HIDE DEF a
  <2>2. work[i] = <<a, s>>  BY DEF a
  <2> QED  BY <1>5, <2>1, <2>2, NoCallsIn
<1>7. MainStack' /\ (Signalling' <=> Signalling) /\ (Consuming' <=> Consuming)
  BY <1>0, <1>3, <1>4, MainSame DEF Steady
<1>8. \A j \in Interfaces : FuseStack(j)'
  <2> SUFFICES ASSUME NEW j \in Interfaces, j # i PROVE FuseStack(j)'  OBVIOUS
  <2>1. work'[j] = work[j] /\ pc'[j] = pc[j] /\ FuseStack(j)  BY <1>0, <1>3, <1>4 DEF Steady
  <2> QED  BY <1>3, <2>1, FuseSame DEF Asked
<1>9. \A u \in Threads : work'[u] = work[u] \/ (NoCalls(work[u]) /\ NoCalls(work'[u]))
  BY <1>4, <1>6
<1>10. /\ QuitOK' /\ JoinOK' /\ SwapOK' /\ UnlinkOK' /\ ExitOK' /\ SignalOK'
       /\ \A c : Kept(c)
       /\ Nexts' \subseteq Nexts
  BY <1>3, <1>7, <1>9, QuietRest
<1>11. work'[Main] = work[Main]  BY <1>0, <1>4
<1>12. \A j \in Interfaces : (Active(j)' => Active(j)) /\ (Listing(j)' => Listing(j))
  BY <1>3, <1>11 DEF Active, Listing
<1>13. InOrderMade' /\ QueueOK' /\ AstrayOK'
  BY <1>3, <1>11, OrderFrame, QueueFrame DEF Steady, AstrayOK, InOrderMade
<1>14. Running' \subseteq Running  BY <1>3, KeepsRunningReads
<1>15. ASSUME NEW j \in Interfaces, j # i
       PROVE  (Serving(j)' => Serving(j)) /\ Readers(j)' \subseteq Readers(j)
  <2>1. work'[j] = work[j] /\ pc'[j] = pc[j]  BY <1>0, <1>3, <1>4, <1>15
  <2>2. Serving(j)' => Serving(j)  BY <2>1 DEF Serving
  <2>3. \A r \in Reads : Underway(r)' /\ from'[r] = j => Underway(r) /\ from[r] = j
    BY <1>3, <1>15
  <2> QED  BY <2>2, <2>3, KeepsReaders
<1>16. /\ Holders("icc")' \subseteq Holders("icc")
       /\ Holders("running")' \subseteq Holders("running")
       /\ Holders("loop")' \subseteq Holders("loop")
       /\ Holders("list")' \subseteq Holders("list")
       /\ Holders("listMem")' \subseteq Holders("listMem")
       /\ \A j \in Interfaces \ {i} : Holders(j)' \subseteq Holders(j)
  BY <1>3, <1>10, <1>12, <1>14, <1>15, AllKeep
<1>17. \A c \in Counters \ {i} : Holders(c)' \subseteq Holders(c)
  BY <1>16 DEF Counters
<1>18. Releases("icc")' \subseteq Releases("icc")  BY <1>10 DEF Kept
<1>19. CountsOK'
  BY <1>2, <1>3, <1>7, <1>17, <1>18, Acquired DEF Steady
<1> QED  BY <1>7, <1>8, <1>10, <1>13, <1>19 DEF Steady

\* fuse_main takes the interface, and fuse_read takes it for a read.
LEMMA FuseAcquireSteady ==
  ASSUME LifeTypeOK, LifeTypeOK', Steady, NEW i \in Interfaces, Count(i), Due(i, "acquire")
  PROVE  Steady'
<1>0. i \in Threads /\ Interfaces \subseteq Threads  BY ThreadsAre
<1>1. work[i] # <<>> /\ Head(work[i]).do = "acquire" /\ FuseStack(i)
  BY DEF Due, Steady
<1> DEFINE a == [do |-> "acquire", at |-> i]
           m == [do |-> "mount", at |-> Nobody]
           s(r) == [do |-> "send", at |-> r]
<1>2. /\ Head(work[i]) = a
      /\ \/ pc[i] = "start" /\ work[i] = <<a, m>>
         \/ pc[i] = "serve" /\ \E r \in Reads : Asked(i, r) /\ work[i] = <<a, s(r)>>
  BY <1>1, FuseDue
<1>3. count[i] > 0
  <2>1. CASE pc[i] = "start"
    <3>1. phase = "config"  BY <2>1, BornInLoop DEF Steady
    <3> QED  BY <3>1, ConfigHolds DEF Steady
  <2>2. CASE pc[i] = "serve"
    BY <2>2, ConfigHolds DEF Steady, Serving
  <2> QED  BY <1>2, <2>1, <2>2
<1>4. i \in Counters /\ {"icc"} \subseteq Counters  BY DEF Counters
<1>5. Counter(i) = i
  <2>1. a.at = i  OBVIOUS
  <2> QED  BY <1>2, <2>1, InterfaceIsOther DEF Counter, At
<1>6. /\ Call(i, <<>>)
      /\ UNCHANGED <<phase, made, starting, pc, quit, shut, inbox, read, from, listed,
                     sources, pool, ender, astray>>
      /\ \A c \in Counters : /\ count[c] = 0 <=> count'[c] = 0
                             /\ count[c] > 0 <=> count'[c] > 0
  BY <1>0, <1>3, <1>5, AcquireDoes
<1>7. /\ \A u \in Threads \ {i} : work'[u] = work[u]
      /\ \A x, y : work[i] = <<x, y>> => work'[i] = <<y>>
  BY <1>0, <1>6, CallDrop
<1>8. m.do = "mount" /\ \A r : s(r).do = "send" /\ s(r).at = r  OBVIOUS
<1>9. ASSUME NEW q \in Reads, from[q] # i PROVE Underway(q)' => Underway(q)
  <2>1. read[q] # "unseen" => from[q] \in Interfaces  BY DEF Steady, QueueOK
  <2>2. read[q] = "looked" => work'[from[q]] = work[from[q]]  BY <1>0, <1>7, <1>9, <2>1
  <2> QED  BY <1>6, <2>2 DEF Underway
<1>10. Task("mount", Nobody) = <<m>> /\ \A r : Task("send", r) = <<s(r)>>  BY DEF Task
<1>11. Releases(i)' \subseteq Releases(i)
  <2>1. \A u \in Threads : work'[u] = work[u] \/ (NoCalls(work[u]) /\ NoCalls(work'[u]))
    <3>1. NoCalls(work[i])  BY <1>1, <1>2, FuseNoCalls
    <3>2. ASSUME NEW z, z \in {"mount", "send"}, NEW x, x.do = z PROVE NoCalls(<<x>>)
      <4>1. x.do \notin CallDo \cup {"next"}  BY <3>2 DEF CallDo
      <4> QED  BY <4>1, NoCallsIn
    <3> HIDE DEF a, m, s
    <3>3. NoCalls(<<m>>) /\ \A r : NoCalls(<<s(r)>>)  BY <1>8, <3>2
    <3>4. work'[i] = <<m>> \/ \E r : work'[i] = <<s(r)>>  BY <1>2, <1>7
    <3>5. NoCalls(work'[i])  BY <3>3, <3>4
    <3> QED  BY <1>7, <3>1, <3>5
  <2>2. /\ work \in [Threads -> Seq(Tasks)] /\ work' \in [Threads -> Seq(Tasks)]
    BY DEF LifeTypeOK
  <2> QED  BY <2>1, <2>2, QuietFrame
<1>12. /\ Holders(i) = If(count["icc"] > 0, "array") \cup If(Serving(i), "thread")
                         \cup Readers(i) \cup Releases(i)
       /\ Holders(i)' = If(count'["icc"] > 0, "array") \cup If(Serving(i)', "thread")
                         \cup Readers(i)' \cup Releases(i)'
       /\ count'["icc"] > 0 => count["icc"] > 0
  BY <1>4, <1>6, InterfaceIsOther DEF Holders, Fixed, Users, If
<1> HIDE DEF a, m, s
<1>13. CASE pc[i] = "start" /\ work[i] = <<a, m>>
  <2>1. work'[i] = <<m>>  BY <1>7, <1>13
  <2>2. FuseStack(i)'  BY <1>6, <1>10, <1>13, <2>1 DEF FuseStack
  <2>3. \A q \in Reads : Underway(q)' => Underway(q)
    <3> SUFFICES ASSUME NEW q \in Reads, from[q] = i PROVE Underway(q)' => Underway(q)
      BY <1>9
    <3>1. work'[i] # Task("send", q)
      <4>1. Head(<<m>>) = m /\ Head(<<s(q)>>) = s(q)  BY HeadsAre
      <4> QED  BY <1>8, <1>10, <2>1, <4>1
    <3> QED  BY <1>6, <3>1 DEF Underway
  <2>4. Readers(i)' \subseteq Readers(i)  BY <1>6, <2>3, KeepsReaders
  <2>5. Holders(i)' \subseteq Holders(i) \cup {<<"thread", Nobody, 0>>}
    BY <1>11, <1>12, <2>4 DEF If
  <2>6. work[i] = <<[do |-> "acquire", at |-> i], m>>  BY <1>13 DEF a
  <2> QED  BY <1>3, <1>8, <1>9, <2>2, <2>5, <2>6, FuseAcquires
<1>14. CASE pc[i] = "serve" /\ \E r \in Reads : Asked(i, r) /\ work[i] = <<a, s(r)>>
  <2>1. PICK r \in Reads : Asked(i, r) /\ work[i] = <<a, s(r)>>  BY <1>14
  <2>2. work'[i] = <<s(r)>>  BY <1>7, <2>1
  <2>3. FuseStack(i)'
    <3>1. pc'[i] = "serve"  BY <1>6, <1>14
    <3>2. work'[i] = Task("send", r) /\ from'[r] = i /\ read'[r] = "looked"
      BY <1>6, <1>10, <2>1, <2>2 DEF Asked
    <3> QED  BY <3>1, <3>2 DEF FuseStack, Asked
  <2>4. \A q \in Reads : q # r => (Underway(q)' => Underway(q))
    <3> SUFFICES ASSUME NEW q \in Reads, q # r, from[q] = i PROVE Underway(q)' => Underway(q)
      BY <1>9
    <3>1. work'[i] # Task("send", q)
      <4>1. Head(<<s(r)>>) = s(r) /\ Head(<<s(q)>>) = s(q)  BY HeadsAre
      <4> QED  BY <1>8, <1>10, <2>2, <4>1
    <3> QED  BY <1>6, <3>1 DEF Underway
  <2>5. Readers(i)' \subseteq Readers(i) \cup {<<"read", r, 0>>}
    BY <1>6, <2>4 DEF Readers
  <2>6. Serving(i)' => Serving(i)  BY <1>14 DEF Serving
  <2>7. Holders(i)' \subseteq Holders(i) \cup {<<"read", r, 0>>}
    BY <1>11, <1>12, <2>5, <2>6 DEF If
  <2>8. work[i] = <<[do |-> "acquire", at |-> i], s(r)>>  BY <2>1 DEF a
  <2> QED  BY <1>3, <1>8, <1>9, <2>3, <2>7, <2>8, FuseAcquires
<1> QED  BY <1>2, <1>13, <1>14
-----------------------------------------------------------------------------
(* Calls that pass references on *)

LEMMA PushRest ==
  ASSUME LifeTypeOK, Steady, NEW t \in Threads, NEW n, NEW tasks, Pushed(t, n, tasks),
         count' = count, \A i \in Interfaces : pc[i] # "unborn" => pc'[i] # "unborn",
         \A j \in 1..Len(tasks) :
            /\ tasks[j].do \in {"release", "unmount", "quit", "gone", "next", "arm", "acquire"}
            /\ tasks[j].do = "quit" => pc'[tasks[j].at] # "unborn"
  PROVE  /\ QuitOK'
         /\ shut' = shut => JoinOK'
         /\ /\ UNCHANGED <<listed, ender>>
            /\ \A b \in Nat : Has(t, b, "swap", Nobody) => b < n
            => SwapOK'
         /\ /\ UNCHANGED <<listed, ender>>
            /\ "icc" \in astray' => "icc" \in astray
            /\ Signalling' => Signalling
            /\ \A j \in 1..Len(tasks) : tasks[j].do # "next"
            => SignalOK'
         /\ sources' = sources => UnlinkOK'
         /\ exit' = exit /\ (phase' = "over" => phase = "over") => ExitOK'
<1>1. \A j \in 1..Len(tasks) : tasks[j].do \notin {"join", "swap", "unlink", "exit"}
  OBVIOUS
<1>2. QuitOK'
  <2>1. \A j \in 1..Len(tasks) : \A i \in Interfaces :
          tasks[j] = [do |-> "quit", at |-> i] => pc'[i] # "unborn"
    OBVIOUS
  <2> QED  BY <2>1, QuitFrame DEF Steady
<1>3. shut' = shut => JoinOK'
  <2>1. \A i \in Interfaces : count[i] = 0 => count'[i] = 0  OBVIOUS
  <2>2. \A j \in 1..Len(tasks) : tasks[j].do # "join"  BY <1>1
  <2> QED  BY <2>1, <2>2, JoinFrame DEF Steady
<1>4. UNCHANGED <<listed, ender>> /\ (\A b \in Nat : Has(t, b, "swap", Nobody) => b < n)
      => SwapOK'
  <2>1. \A j \in 1..Len(tasks) : tasks[j].do # "swap"  BY <1>1
  <2> QED  BY <2>1, SwapFrame DEF Steady
<1>5. /\ UNCHANGED <<listed, ender>>
      /\ "icc" \in astray' => "icc" \in astray
      /\ Signalling' => Signalling
      /\ \A j \in 1..Len(tasks) : tasks[j].do # "next"
      => SignalOK'
  BY SignalFrame DEF Steady
<1>6. sources' = sources => UnlinkOK'
  <2>1. \A j \in 1..Len(tasks) : tasks[j].do # "unlink"  BY <1>1
  <2> QED  BY <2>1, UnlinkFrame DEF Steady
<1>7. exit' = exit /\ (phase' = "over" => phase = "over") => ExitOK'
  <2>1. \A j \in 1..Len(tasks) : tasks[j].do # "exit"  BY <1>1
  <2> QED  BY <2>1, ExitFrame DEF Steady
<1> QED  BY <1>2, <1>3, <1>4, <1>5, <1>6, <1>7

LEMMA NextsAre ==
  /\ \A u \in Threads, b \in Nat : St(u, b) \in Nexts <=> /\ InStack(u, b)
                                                          /\ Deep(u, b).do = "next"
                                                          /\ ~Signalling
  /\ \A x \in Nexts : \E u \in Threads, b \in Nat : /\ x = St(u, b)
                                                    /\ InStack(u, b)
                                                    /\ Deep(u, b).do = "next"
                                                    /\ ~Signalling
<1>1. ASSUME NEW x \in Nexts
      PROVE  \E u \in Threads, b \in Nat : /\ x = St(u, b)
                                           /\ InStack(u, b)
                                           /\ Deep(u, b).do = "next"
                                           /\ ~Signalling
  <2>1. PICK p \in Threads \X Nat : /\ x = <<"stack", p[1], p[2]>>
                                    /\ InStack(p[1], p[2]) /\ Deep(p[1], p[2]).do = "next"
                                    /\ ~Signalling
    BY DEF Nexts
  <2>2. p[1] \in Threads /\ p[2] \in Nat  OBVIOUS
  <2> QED  BY <2>1, <2>2 DEF St
<1>2. ASSUME NEW u \in Threads, NEW b \in Nat
      PROVE  St(u, b) \in Nexts <=> InStack(u, b) /\ Deep(u, b).do = "next" /\ ~Signalling
  <2>1. <<u, b>> \in Threads \X Nat /\ <<u, b>>[1] = u /\ <<u, b>>[2] = b  OBVIOUS
  <2>2. InStack(u, b) /\ Deep(u, b).do = "next" /\ ~Signalling => St(u, b) \in Nexts
    BY <2>1 DEF Nexts, St
  <2>3. ASSUME St(u, b) \in Nexts PROVE InStack(u, b) /\ Deep(u, b).do = "next" /\ ~Signalling
    <3>1. PICK v \in Threads, d \in Nat : /\ St(u, b) = St(v, d)
                                          /\ InStack(v, d) /\ Deep(v, d).do = "next"
                                          /\ ~Signalling
      BY <1>1, <2>3
    <3>2. v = u /\ d = b  BY <3>1, Tokens
    <3> QED  BY <3>1, <3>2
  <2> QED  BY <2>2, <2>3
<1> QED  BY <1>1, <1>2

\* Those that are left, but for what was done
LEMMA NextsAfter ==
  ASSUME NEW t \in Threads, NEW n, NEW tasks, Pushed(t, n, tasks), Signalling' <=> Signalling,
         \A j \in 1..Len(tasks) : tasks[j].do # "next"
  PROVE  Nexts' \subseteq Nexts \ {St(t, b) : b \in {d \in Nat : d >= n}}
<1> SUFFICES ASSUME NEW x \in Nexts'
             PROVE  x \in Nexts \ {St(t, b) : b \in {d \in Nat : d >= n}}
  OBVIOUS
<1>1. PICK u \in Threads, b \in Nat : /\ x = St(u, b)
                                      /\ InStack(u, b)' /\ Deep(u, b)'.do = "next"
                                      /\ ~Signalling'
  <2>1. PICK p \in Threads \X Nat : /\ x = <<"stack", p[1], p[2]>>
                                    /\ InStack(p[1], p[2])' /\ Deep(p[1], p[2])'.do = "next"
                                    /\ ~Signalling'
    BY DEF Nexts
  <2>2. p[1] \in Threads /\ p[2] \in Nat  OBVIOUS
  <2> QED  BY <2>1, <2>2 DEF St
<1>2. (u # t \/ b < n) /\ InStack(u, b) /\ Deep(u, b).do = "next"
  <2>1. \/ (u # t \/ b < n) /\ InStack(u, b) /\ Deep(u, b)' = Deep(u, b)
        \/ \E j \in 1..Len(tasks) : Deep(u, b)' = tasks[j]
    BY <1>1, DeepAfter
  <2> QED  BY <1>1, <2>1
<1>3. x \in Nexts  BY <1>1, <1>2, NextsAre
<1>4. n \in Nat  BY DEF Pushed
<1>5. x \notin {St(t, b1) : b1 \in {d \in Nat : d >= n}}
  <2> SUFFICES ASSUME NEW d \in Nat, d >= n, St(u, b) = St(t, d) PROVE FALSE
    BY <1>1
  <2>1. u = t /\ b = d  BY Tokens
  <2> QED  BY <1>2, <1>4, <2>1
<1> QED  BY <1>3, <1>5

\* What a call does to the users of the counts when none of them gains one
Milder ==
  /\ \A i \in Interfaces : /\ Active(i)' => Active(i)
                           /\ Listing(i)' => Listing(i)
                           /\ Serving(i)' => Serving(i)
  /\ \A r \in Reads : /\ Underway(r)' => Underway(r) /\ from'[r] = from[r]
                      /\ read'[r] = "running" => read[r] = "running"

\* One holder may take the place of another.
Swapped(c) ==
  \/ Holders(c)' \subseteq Holders(c)
  \/ \E x \in Holders(c) : \E y : Holders(c)' \subseteq (Holders(c) \ {x}) \cup {y}

\* What is put on the stack releases no other counter.
OnlyReleases(tasks, d) ==
  \A c \in Counters \ {d} : \A j \in 1..Len(tasks) : tasks[j] # [do |-> "release", at |-> c]

\* Counts stay as they are, and d's holders are as many as before.
LEMMA CallBalance ==
  ASSUME LifeTypeOK, CountsOK, count' = count, Consuming' <=> Consuming,
         NEW t \in Threads, NEW n, NEW tasks, Pushed(t, n, tasks),
         phase' = "config" => phase = "config", pool' => pool,
         sources' # "closed" => sources # "closed",
         NEW d, d # "list", OnlyReleases(tasks, d),
         Nexts' \subseteq Nexts \/ d = "icc", d = "icc" => count["icc"] > 0,
         Milder, Swapped(d)
  PROVE  CountsOK'
<1>0. /\ \A i \in Interfaces : /\ Active(i)' => Active(i)
                               /\ Listing(i)' => Listing(i)
                               /\ Serving(i)' => Serving(i)
      /\ \A r \in Reads : /\ Underway(r)' => Underway(r) /\ from'[r] = from[r]
                          /\ read'[r] = "running" => read[r] = "running"
  BY DEF Milder
<1>1. \A c \in Counters \ {d} : Kept(c)
  <2> SUFFICES ASSUME NEW c \in Counters \ {d} PROVE Kept(c)  OBVIOUS
  <2>0. \A j \in 1..Len(tasks) : tasks[j] # [do |-> "release", at |-> c]
    BY DEF OnlyReleases
  <2>1. Releases(c)' \subseteq Releases(c) \ {St(t, b) : b \in {e \in Nat : e >= n}}
    BY <2>0, NoNewReleases
  <2> QED  BY <2>1 DEF Kept
<1>2. Running' \subseteq Running  BY <1>0, KeepsRunningReads
<1>3. \A i \in Interfaces : Readers(i)' \subseteq Readers(i)  BY <1>0, KeepsReaders
<1>4. /\ Kept("icc") /\ Nexts' \subseteq Nexts => Holders("icc")' \subseteq Holders("icc")
      /\ Kept("running") /\ (\A i \in Interfaces : Active(i)' => Active(i))
            => Holders("running")' \subseteq Holders("running")
      /\ Kept("loop") => Holders("loop")' \subseteq Holders("loop")
      /\ Kept("list") /\ Running' \subseteq Running
            => Holders("list")' \subseteq Holders("list")
      /\ Kept("list") /\ Running' \subseteq Running /\ Kept("listMem")
            /\ (\A i \in Interfaces : Listing(i)' => Listing(i))
            => Holders("listMem")' \subseteq Holders("listMem")
      /\ \A i \in Interfaces : /\ Kept(i) /\ (Serving(i)' => Serving(i))
                                  /\ Readers(i)' \subseteq Readers(i)
                                  => Holders(i)' \subseteq Holders(i)
  BY AllKeep
<1>5. {"icc", "running", "loop", "list", "listMem"} \subseteq Counters
      /\ Interfaces \subseteq Counters
  BY DEF Counters
<1>6. ASSUME NEW c \in Counters, c # d PROVE Holders(c)' \subseteq Holders(c)
  <2>1. Kept(c) /\ Kept("list")  BY <1>1, <1>5, <1>6
  <2>2. c \in {"icc", "running", "loop", "list", "listMem"} \/ c \in Interfaces  BY CounterKinds
  <2>3. CASE c = "icc"  BY <1>4, <1>6, <2>1, <2>3
  <2>4. CASE c = "running"  BY <1>0, <1>4, <2>1, <2>4
  <2>5. CASE c = "loop"  BY <1>4, <2>1, <2>5
  <2>6. CASE c = "list"  BY <1>2, <1>4, <2>1, <2>6
  <2>7. CASE c = "listMem"  BY <1>0, <1>2, <1>4, <2>1, <2>7
  <2>8. CASE c \in Interfaces  BY <1>0, <1>3, <1>4, <2>1, <2>8
  <2> QED  BY <2>2, <2>3, <2>4, <2>5, <2>6, <2>7, <2>8
<1>7. count["icc"] = 0 => Releases("icc")' = {}
  <2> SUFFICES ASSUME count["icc"] = 0 PROVE Releases("icc")' = {}  OBVIOUS
  <2>1. d # "icc" /\ Releases("icc") = {}  BY DEF CountsOK
  <2> QED  BY <1>1, <1>5, <2>1 DEF Kept
<1>8. \A c \in Counters : \/ Holders(c)' \subseteq Holders(c)
                          \/ \E x \in Holders(c) : \E y :
                               Holders(c)' \subseteq (Holders(c) \ {x}) \cup {y}
  BY <1>6 DEF Swapped
<1> QED  BY <1>7, <1>8, Balance

LEMMA CallSame ==
  ASSUME LifeTypeOK, Steady, NEW t \in Threads, work[t] # <<>>,
         Head(work[t]).do \in CallDo \cup {"next", "arm"},
         NEW tasks \in Seq(Tasks), Call(t, tasks), Flat(tasks, t),
         UNCHANGED <<phase, made, starting, pc, inbox, read, from>>,
         quit \subseteq quit', shut \subseteq shut'
  PROVE  /\ Pushed(t, Len(work[t]) - 1, tasks)
         /\ MainStack' /\ (\A i \in Interfaces : FuseStack(i)') /\ InOrderMade' /\ QueueOK'
         /\ (Signalling' <=> Signalling) /\ (Consuming' <=> Consuming)
         /\ t = Main => phase = "loop" /\ ~Signalling /\ ~Consuming
         /\ t # Main => t \in Interfaces /\ pc[t] = "finish"
         /\ \A i \in Interfaces : /\ Active(i)' => Active(i)
                                  /\ Listing(i)' => Listing(i)
                                  /\ Serving(i)' => Serving(i)
         /\ \A r \in Reads : /\ Underway(r)' => Underway(r) /\ from'[r] = from[r]
                             /\ read'[r] = "running" => read[r] = "running"
<1>1. /\ Pushed(t, Len(work[t]) - 1, tasks)
      /\ MainStack' /\ \A i \in Interfaces : FuseStack(i)'
      /\ InOrderMade'
      /\ (Signalling' <=> Signalling) /\ (Consuming' <=> Consuming)
      /\ t = Main => phase = "loop" /\ ~Signalling /\ ~Consuming
      /\ t # Main => t \in Interfaces /\ pc[t] = "finish" /\ work'[Main] = work[Main]
      /\ \A i \in Interfaces : pc[i] # "finish" => work'[i] = work[i]
  BY CallFrame DEF Steady
<1>2. QueueOK'  BY QueueFrame DEF Steady
<1>3. ASSUME NEW i \in Interfaces
      PROVE  /\ Active(i)' => Active(i)
             /\ Listing(i)' => Listing(i)
             /\ Serving(i)' => Serving(i)
  <2>1. pc[i] # "unborn" \/ work'[Main] = work[Main]
    BY <1>1, BornInLoop DEF Steady
  <2>2. Active(i)' => Active(i)  BY <2>1 DEF Active
  <2>3. Listing(i)' => Listing(i)  BY <2>1 DEF Listing
  <2>4. pc[i] = "start" => work'[i] = work[i]  BY <1>1
  <2>5. Serving(i)' => Serving(i)  BY <2>4 DEF Serving
  <2> QED  BY <2>2, <2>3, <2>5
<1>4. ASSUME NEW r \in Reads PROVE Underway(r)' => Underway(r)
  <2>1. read[r] # "unseen" => from[r] \in Interfaces  BY DEF Steady, QueueOK
  <2>2. ASSUME read[r] = "looked", work'[from[r]] = Task("send", r)
        PROVE  work[from[r]] = Task("send", r)
    <3>1. from[r] \in Interfaces  BY <2>1, <2>2
    <3>2. CASE pc[from[r]] # "finish"  BY <1>1, <2>2, <3>1, <3>2
    <3>3. CASE pc[from[r]] = "finish"
      <4> DEFINE i == from[r]
                 s == [do |-> "send", at |-> r]
      <4>1. FuseStack(i)' /\ pc'[i] = "finish"  BY <1>1, <3>1, <3>3
      <4>2. Deep(i, 0)'.do = "gone"  BY <4>1 DEF FuseStack
      <4>3. work'[i] = <<s>>  BY <2>2 DEF Task
      <4>4. s.do = "send"  OBVIOUS
      <4> HIDE DEF s
      <4>5. Deep(i, 0)' = s  BY <4>3 DEF Deep
      <4> QED  BY <4>2, <4>4, <4>5
    <3> QED  BY <3>2, <3>3
  <2> QED  BY <2>2 DEF Underway
<1> QED  BY <1>1, <1>2, <1>3, <1>4

\* What is done, and calls nothing
LEMMA LeafSteady ==
  ASSUME LifeTypeOK, LifeTypeOK', Steady, NEW t \in Threads,
         Unmount(t) \/ Arm(t) \/ Exit(t) \/ Unlink(t) \/ Swap(t)
  PROVE  Steady'
<1>1. work[t] # <<>> /\ Head(work[t]).do \in {"unmount", "arm", "exit", "unlink", "swap"}
  BY DEF Unmount, Arm, Exit, Unlink, Swap, Due
<1>2. /\ Call(t, <<>>)
      /\ UNCHANGED <<phase, made, starting, pc, quit, shut, inbox, read, from, count, pool>>
  BY DEF Unmount, Arm, Exit, Unlink, Swap, runVars, fiVars, mountVars, readVars, endVars
<1>3. Head(work[t]).do \in CallDo \cup {"next", "arm"}  BY <1>1 DEF CallDo
<1> DEFINE n == Len(work[t]) - 1
           none == <<>>
<1>4. none \in Seq(Tasks) /\ Len(none) = 0 /\ 1..Len(none) = {} /\ Flat(none, t)
  BY SeqTasks DEF Flat
<1>5. n \in Nat /\ InStack(t, n) /\ Deep(t, n) = Head(work[t])  BY <1>1, TopIs
<1>6. /\ Pushed(t, n, none)
      /\ MainStack' /\ (\A i \in Interfaces : FuseStack(i)') /\ InOrderMade' /\ QueueOK'
      /\ (Signalling' <=> Signalling) /\ (Consuming' <=> Consuming)
      /\ t = Main => ~Signalling
      /\ \A i \in Interfaces : /\ Active(i)' => Active(i)
                               /\ Listing(i)' => Listing(i)
                               /\ Serving(i)' => Serving(i)
      /\ \A r \in Reads : /\ Underway(r)' => Underway(r) /\ from'[r] = from[r]
                          /\ read'[r] = "running" => read[r] = "running"
  BY <1>1, <1>2, <1>3, <1>4, CallSame
<1> HIDE DEF n, none
<1>7. sources' # "closed" => sources # "closed"
  <2>1. CASE Unlink(t)
    <3>1. Has(t, n, "unlink", Nobody)
      <4>1. Due(t, "unlink")  BY <2>1 DEF Unlink
      <4>2. Has(t, n, "unlink", At(t))  BY <4>1, DueIs DEF n
      <4>3. Head(work[t]) = [do |-> "unlink", at |-> At(t)]  BY <4>1, DueIs
      <4>4. Head(work[t]) \in Tasks  BY <1>1, TopIs
      <4>5. [do |-> "unlink", at |-> At(t)].do = "unlink" /\ [do |-> "unlink", at |-> At(t)].at = At(t)
        OBVIOUS
      <4>6. At(t) = Nobody  BY <4>3, <4>4, <4>5, TaskTypes
      <4> QED  BY <4>2, <4>6
    <3> QED  BY <1>5, <3>1 DEF Steady, UnlinkOK
  <2>2. CASE ~Unlink(t)
    <3>1. sources' = sources  BY <2>2 DEF Unmount, Arm, Exit, Swap, endVars
    <3> QED  BY <3>1
  <2> QED  BY <2>1, <2>2
<1>8. Nexts' \subseteq Nexts
  <2>1. \A j \in 1..Len(none) : none[j].do # "next"  BY <1>4
  <2> QED  BY <1>6, <2>1, NextsAfter
<1>9. CountsOK'
  <2>2. \A c : \A j \in 1..Len(none) : none[j] # [do |-> "release", at |-> c]  BY <1>4
  <2>3. "loop" # "list" /\ "loop" # "icc"  OBVIOUS
  <2>4. Holders("loop")' \subseteq Holders("loop")
    <3>1. Releases("loop")' \subseteq Releases("loop")
      BY <1>6, <2>2, NoNewReleases
    <3> QED  BY <1>2, <3>1, KeepsLoop
  <2>5. Milder  BY <1>6 DEF Milder
  <2>6. OnlyReleases(none, "loop") /\ Swapped("loop")  BY <2>2, <2>4 DEF OnlyReleases, Swapped
  <2>7. CountsOK  BY DEF Steady
  <2>8. Pushed(t, n, none) /\ (Consuming' <=> Consuming)  BY <1>6
  <2> QED  BY <1>2, <1>7, <1>8, <2>3, <2>5, <2>6, <2>7, <2>8, CallBalance
<1>10. /\ QuitOK'
       /\ shut' = shut => JoinOK'
       /\ /\ UNCHANGED <<listed, ender>>
          /\ \A b \in Nat : Has(t, b, "swap", Nobody) => b < n
          => SwapOK'
       /\ /\ UNCHANGED <<listed, ender>>
          /\ "icc" \in astray' => "icc" \in astray
          => SignalOK'
       /\ sources' = sources => UnlinkOK'
       /\ exit' = exit => ExitOK'
  BY <1>2, <1>4, <1>6, PushRest
<1>11. \A b \in Nat : InStack(t, b) => b <= n
  BY <1>5 DEF InStack, n
<1>12. QuitOK' /\ JoinOK'  BY <1>2, <1>10
<1>13. \A b \in Nat : Has(t, b, "swap", Nobody) /\ Head(work[t]).do # "swap" => b < n
  <2> SUFFICES ASSUME NEW b \in Nat, Has(t, b, "swap", Nobody), Head(work[t]).do # "swap"
               PROVE  b < n
    OBVIOUS
  <2>1. b <= n /\ Deep(t, b).do = "swap"  BY <1>11 DEF Has
  <2>2. b # n  BY <1>5, <2>1
  <2> QED  BY <1>5, <2>1, <2>2
<1>14. \A u \in Threads, b \in Nat : \A do, at : Has(u, b, do, at)' =>
          Has(u, b, do, at) /\ (u # t \/ b < n)
  <2> SUFFICES ASSUME NEW u \in Threads, NEW b \in Nat, NEW do, NEW at, Has(u, b, do, at)'
               PROVE  Has(u, b, do, at) /\ (u # t \/ b < n)
    OBVIOUS
  <2> QED  BY <1>4, <1>6, HasAfter
<1>15. CASE Unmount(t) \/ Arm(t)
  <2>1. Head(work[t]).do # "swap"  BY <1>15 DEF Unmount, Arm, Due
  <2>2. UNCHANGED <<listed, ender, sources, astray>> /\ exit' = exit
    BY <1>15 DEF Unmount, Arm, endVars, pastVars
  <2>3. SwapOK' /\ SignalOK' /\ UnlinkOK' /\ ExitOK'  BY <1>10, <1>13, <2>1, <2>2
  <2>4. AstrayOK'  BY <2>2 DEF Steady, AstrayOK
  <2> QED  BY <1>6, <1>9, <1>12, <2>3, <2>4 DEF Steady
<1>16. CASE Exit(t)
  <2>1. Head(work[t]).do = "exit"  BY <1>16 DEF Exit, Due
  <2>2. UNCHANGED <<listed, ender, sources, astray>>
    BY <1>16 DEF Exit, pastVars
  <2>3. SwapOK' /\ SignalOK' /\ UnlinkOK'  BY <1>10, <1>13, <2>1, <2>2
  <2>4. Has(t, n, "exit", Nobody)
    <3>1. Due(t, "exit")  BY <1>16 DEF Exit
    <3>2. Has(t, n, "exit", At(t)) /\ Head(work[t]) = [do |-> "exit", at |-> At(t)]
      BY <3>1, DueIs DEF n
    <3>3. Head(work[t]) \in Tasks  BY <1>1, TopIs
    <3>4. [do |-> "exit", at |-> At(t)].do = "exit" /\ [do |-> "exit", at |-> At(t)].at = At(t)
      OBVIOUS
    <3>5. At(t) = Nobody  BY <3>2, <3>3, <3>4, TaskTypes
    <3> QED  BY <3>2, <3>5
  <2>5. count["loop"] = 0  BY <1>5, <2>4 DEF Steady, ExitOK
  <2>6. exit' = TRUE  BY <1>16 DEF Exit
  <2>7. ExitOK'  BY <1>2, <2>5, <2>6 DEF ExitOK
  <2>8. AstrayOK'  BY <2>2 DEF Steady, AstrayOK
  <2> QED  BY <1>6, <1>9, <1>12, <2>3, <2>7, <2>8 DEF Steady
<1>17. CASE Unlink(t)
  <2>1. Head(work[t]).do = "unlink"  BY <1>17 DEF Unlink, Due
  <2>2. UNCHANGED <<listed, ender>> /\ exit' = exit /\ sources' = "closing"
        /\ astray' \subseteq astray \cup {"list"}
    BY <1>17 DEF Unlink, pastVars, Use
  <2>3. SwapOK' /\ SignalOK' /\ ExitOK'  BY <1>10, <1>13, <2>1, <2>2
  <2>4. Has(t, n, "unlink", Nobody)
    <3>1. Due(t, "unlink")  BY <1>17 DEF Unlink
    <3>2. Has(t, n, "unlink", At(t)) /\ Head(work[t]) = [do |-> "unlink", at |-> At(t)]
      BY <3>1, DueIs DEF n
    <3>3. Head(work[t]) \in Tasks  BY <1>1, TopIs
    <3>4. [do |-> "unlink", at |-> At(t)].do = "unlink" /\ [do |-> "unlink", at |-> At(t)].at = At(t)
      OBVIOUS
    <3>5. At(t) = Nobody  BY <3>2, <3>3, <3>4, TaskTypes
    <3> QED  BY <3>2, <3>5
  <2>5. /\ count["list"] = 0
        /\ \A u \in Threads, e \in Nat : Has(u, e, "unlink", Nobody) => u = t /\ e = n
    BY <1>5, <2>4 DEF Steady, UnlinkOK
  <2>6. \A u \in Threads, b \in Nat : ~Has(u, b, "unlink", Nobody)'
    <3> SUFFICES ASSUME NEW u \in Threads, NEW b \in Nat, Has(u, b, "unlink", Nobody)' PROVE FALSE
      OBVIOUS
    <3>1. Has(u, b, "unlink", Nobody) /\ (u # t \/ b < n)  BY <1>14
    <3> QED  BY <1>5, <2>5, <3>1
  <2>7. UnlinkOK'  BY <1>2, <2>5, <2>6 DEF UnlinkOK
  <2>8. AstrayOK'  BY <2>2 DEF Steady, AstrayOK
  <2> QED  BY <1>6, <1>9, <1>12, <2>3, <2>7, <2>8 DEF Steady
<1>18. CASE Swap(t)
  <2>2. listed' = FALSE /\ ender' = t /\ exit' = exit /\ UNCHANGED <<sources, astray>>
    BY <1>18 DEF Swap
  <2>3. UnlinkOK' /\ ExitOK'  BY <1>10, <2>2
  <2>4. Has(t, n, "swap", Nobody)
    <3>1. Due(t, "swap")  BY <1>18 DEF Swap
    <3>2. Has(t, n, "swap", At(t)) /\ Head(work[t]) = [do |-> "swap", at |-> At(t)]
      BY <3>1, DueIs DEF n
    <3>3. Head(work[t]) \in Tasks  BY <1>1, TopIs
    <3>4. [do |-> "swap", at |-> At(t)].do = "swap" /\ [do |-> "swap", at |-> At(t)].at = At(t)
      OBVIOUS
    <3>5. At(t) = Nobody  BY <3>2, <3>3, <3>4, TaskTypes
    <3> QED  BY <3>2, <3>5
  <2>5. /\ n > 0 /\ Has(t, n - 1, "release", "icc")
        /\ listed /\ count["running"] = 0
        /\ \A u \in Threads, e \in Nat : Has(u, e, "swap", Nobody) => u = t /\ e = n
    BY <1>5, <2>4 DEF Steady, SwapOK
  <2>6. \A u \in Threads, b \in Nat : ~Has(u, b, "swap", Nobody)'
    <3> SUFFICES ASSUME NEW u \in Threads, NEW b \in Nat, Has(u, b, "swap", Nobody)' PROVE FALSE
      OBVIOUS
    <3>1. Has(u, b, "swap", Nobody) /\ (u # t \/ b < n)  BY <1>14
    <3> QED  BY <1>5, <2>5, <3>1
  <2>7. SwapOK'  BY <1>2, <2>2, <2>5, <2>6 DEF SwapOK
  <2>8. SignalOK'
    <3>1. count["icc"] # 0
      <4>1. n - 1 \in Nat  BY <1>5, <2>5
      <4>2. St(t, n - 1) \in Releases("icc")  BY <2>5, <4>1, ReleasesAre
      <4> QED  BY <4>2 DEF Steady, CountsOK
    <3>2. ender = Nobody  BY <2>5 DEF Steady, SwapOK
    <3>3. "icc" \notin astray  BY <3>2, ThreadsAre DEF Steady, SignalOK
    <3>4. Signalling' => ender' \in Interfaces
      <4>1. CASE t = Main
        <5>1. ~Signalling  BY <1>6, <4>1
        <5> QED  BY <1>6, <5>1
      <4>2. CASE t # Main  BY <2>2, <4>2, ThreadsAre
      <4> QED  BY <4>1, <4>2
    <3> QED  BY <1>2, <2>2, <3>1, <3>3, <3>4 DEF SignalOK
  <2>9. AstrayOK'  BY <2>2 DEF Steady, AstrayOK
  <2> QED  BY <1>6, <1>9, <1>12, <2>3, <2>7, <2>8, <2>9 DEF Steady
<1> QED  BY <1>15, <1>16, <1>17, <1>18

\* The one release among the tasks
LEMMA OneRelease ==
  ASSUME NEW t \in Threads, NEW n, NEW tasks, Pushed(t, n, tasks), NEW c, NEW k \in 1..Len(tasks),
         \A j \in 1..Len(tasks) : tasks[j] = [do |-> "release", at |-> c] => j = k
  PROVE  /\ Releases(c)' \subseteq Releases(c) \cup {St(t, n + Len(tasks) - k)}
         /\ Releases(c)' \subseteq (Releases(c) \ {St(t, b) : b \in {d \in Nat : d >= n}})
                                   \cup {St(t, n + Len(tasks) - k)}
  BY ReleasesAfter

LEMMA QuitSteady ==
  ASSUME LifeTypeOK, LifeTypeOK', Steady, NEW t \in Threads, Quit(t)
  PROVE  Steady'
<1>0. PICK i : i = At(t)  OBVIOUS
<1> DEFINE n == Len(work[t]) - 1
           a == [do |-> "unmount", at |-> i]
           r == [do |-> "release", at |-> "running"]
           tasks == IF i \in quit THEN <<>> ELSE <<a, r>>
<1>1. /\ Due(t, "quit") /\ quit' = quit \cup {i}
      /\ Call(t, tasks)
      /\ UNCHANGED <<phase, made, starting, pc, shut, count, inbox, read, from, listed, sources,
                     pool, ender, astray>> /\ exit' = exit
  <2>1. Task("unmount", i) \o Task("release", "running") = <<a, r>>  BY TwoTasks
  <2> QED  BY <1>0, <2>1 DEF Quit, runVars, mountVars, readVars, endVars, pastVars
<1>2. work[t] # <<>> /\ Head(work[t]).do = "quit" /\ i \in Interfaces /\ n \in Nat
      /\ Has(t, n, "quit", i)
  BY <1>0, <1>1, DueIs, AtTypes DEF Due
<1>3. a \in Tasks /\ r \in Tasks  BY <1>2, TasksAre
<1>4. a.do = "unmount" /\ r.do = "release" /\ r.at = "running"  OBVIOUS
<1>5. pc[i] # "unborn"  BY <1>2 DEF Steady, QuitOK
<1> HIDE DEF a, r
<1>6. /\ tasks \in Seq(Tasks) /\ Flat(tasks, t)
      /\ i \in quit => 1..Len(tasks) = {}
      /\ i \notin quit => 1..Len(tasks) = {1, 2} /\ Len(tasks) = 2 /\ tasks[1] = a /\ tasks[2] = r
  <2>1. CASE i \in quit
    <3>1. tasks = <<>> /\ 1..Len(tasks) = {}  BY <2>1
    <3> QED  BY <2>1, <3>1, SeqTasks DEF Flat
  <2>2. CASE i \notin quit
    <3>1. tasks = <<a, r>>  BY <2>2
    <3>2. tasks \in Seq(Tasks)  BY <1>3, <3>1, SeqTasks
    <3>3. 1..Len(tasks) = {1, 2} /\ Len(tasks) = 2 /\ tasks[1] = a /\ tasks[2] = r  BY <3>1
    <3> HIDE DEF tasks
    <3>4. Flat(tasks, t)  BY <1>4, <3>3 DEF Flat, CallDo
    <3> QED  BY <2>2, <3>2, <3>3, <3>4
  <2> QED  BY <2>1, <2>2
<1>7. Head(work[t]).do \in CallDo \cup {"next", "arm"} /\ quit \subseteq quit' /\ shut \subseteq shut'
  BY <1>1, <1>2 DEF CallDo
<1>8. i \in quit'  BY <1>1
<1>9. InStack(t, n) /\ Deep(t, n) = Head(work[t])  BY <1>2, TopIs
<1> HIDE DEF tasks
<1>10. /\ Pushed(t, n, tasks)
       /\ MainStack' /\ (\A j \in Interfaces : FuseStack(j)') /\ InOrderMade' /\ QueueOK'
       /\ (Signalling' <=> Signalling) /\ (Consuming' <=> Consuming)
       /\ \A j \in Interfaces : /\ Active(j)' => Active(j)
                                /\ Listing(j)' => Listing(j)
                                /\ Serving(j)' => Serving(j)
       /\ \A q \in Reads : /\ Underway(q)' => Underway(q) /\ from'[q] = from[q]
                           /\ read'[q] = "running" => read[q] = "running"
  BY <1>1, <1>2, <1>6, <1>7, CallSame
<1>11. \A j \in 1..Len(tasks) : tasks[j].do \in {"unmount", "release"}
  BY <1>4, <1>6
<1>12. \A b \in Nat : Has(t, b, "swap", Nobody) => b < n
  <2> SUFFICES ASSUME NEW b \in Nat, Has(t, b, "swap", Nobody) PROVE b < n  OBVIOUS
  <2>1. b <= n /\ Deep(t, b).do = "swap"  BY TopIs, <1>2 DEF Has, InStack
  <2>2. b # n  BY <1>2, <1>9, <2>1
  <2> QED  BY <1>2, <2>1, <2>2
<1> HIDE DEF n
<1>13. QuitOK' /\ JoinOK' /\ SwapOK' /\ SignalOK' /\ UnlinkOK' /\ ExitOK'
  BY <1>1, <1>10, <1>11, <1>12, PushRest
<1>14. Nexts' \subseteq Nexts  BY <1>10, <1>11, NextsAfter
<1>15. \A c \in Counters \ {"running"} : \A j \in 1..Len(tasks) :
          tasks[j] # [do |-> "release", at |-> c]
  <2> SUFFICES ASSUME NEW c \in Counters \ {"running"}, NEW j \in 1..Len(tasks),
                      tasks[j] = [do |-> "release", at |-> c]
               PROVE  FALSE
    OBVIOUS
  <2>1. tasks[j].do = "release" /\ tasks[j].at = c  OBVIOUS
  <2> QED  BY <1>4, <1>6, <2>1
<1>16. \/ Holders("running")' \subseteq Holders("running")
       \/ \E x \in Holders("running") : \E y :
             Holders("running")' \subseteq (Holders("running") \ {x}) \cup {y}
  <2>1. CASE i \in quit
    <3>1. Releases("running")' \subseteq Releases("running")
      BY <1>6, <1>10, <2>1, NoNewReleases
    <3> QED  BY <1>1, <1>10, <3>1, KeepsRunning
  <2>2. CASE i \notin quit
    <3> DEFINE x == <<"interface", i, 0>>
               y == St(t, n + Len(tasks) - 2)
    <3>1. \A j \in 1..Len(tasks) : tasks[j] = [do |-> "release", at |-> "running"] => j = 2
      <4>1. tasks[1].do # "release"  BY <1>4, <1>6, <2>2
      <4> QED  BY <1>6, <2>2, <4>1
    <3>2. Releases("running")' \subseteq Releases("running") \cup {y}
      BY <1>6, <1>10, <2>2, <3>1, OneRelease
    <3>3. Active(i)  BY <1>5, <2>2 DEF Active
    <3>4. x \in Users("running")  BY <1>2, <3>3 DEF Users
    <3>5. ~Active(i)'  BY <1>8 DEF Active
    <3>6. \A z : z \in Users("running")' => z \in Users("running") /\ z # x
      <4> SUFFICES ASSUME NEW j \in Interfaces, Active(j)'
                   PROVE  /\ <<"interface", j, 0>> \in Users("running")
                          /\ <<"interface", j, 0>> # x
        BY DEF Users
      <4>1. Active(j) /\ j # i  BY <1>10, <3>5
      <4> QED  BY <4>1, Tokens DEF Users
    <3>7. x \notin Fixed("running")' /\ Fixed("running")' \subseteq Fixed("running")
      BY <1>1 DEF Fixed, If
    <3>8. x \notin Releases("running")  BY ReleasesAre, Tokens
    <3> HIDE DEF x, y
    <3>9. Holders("running")' \subseteq (Holders("running") \ {x}) \cup {y}
      BY <3>2, <3>6, <3>7, <3>8 DEF Holders
    <3>10. x \in Holders("running")  BY <3>4 DEF Holders
    <3> QED  BY <3>9, <3>10
  <2> QED  BY <2>1, <2>2
<1>17. CountsOK'
  <2>1. "running" # "list" /\ "running" # "icc"  OBVIOUS
  <2>2. Milder  BY <1>10 DEF Milder
  <2>3. OnlyReleases(tasks, "running") /\ Swapped("running")
    BY <1>15, <1>16 DEF OnlyReleases, Swapped
  <2>4. CountsOK  BY DEF Steady
  <2>5. /\ count' = count /\ (pool' => pool) /\ (phase' = "config" => phase = "config")
        /\ sources' # "closed" => sources # "closed"
    BY <1>1
  <2>6. Pushed(t, n, tasks) /\ (Consuming' <=> Consuming)  BY <1>10
  <2> QED  BY <1>14, <2>1, <2>2, <2>3, <2>4, <2>5, <2>6, CallBalance
<1>18. AstrayOK'  BY <1>1 DEF Steady, AstrayOK
<1> QED  BY <1>10, <1>13, <1>17, <1>18 DEF Steady

LEMMA JoinSteady ==
  ASSUME LifeTypeOK, LifeTypeOK', Steady, NEW t \in Threads, Join(t)
  PROVE  Steady'
<1>0. PICK i : i = At(t)  OBVIOUS
<1> DEFINE n == Len(work[t]) - 1
           r == [do |-> "release", at |-> "listMem"]
           tasks == <<r>>
<1>1. /\ Due(t, "join") /\ shut' = shut \cup {i}
      /\ Call(t, tasks) /\ Use("interface", i \in shut)
      /\ UNCHANGED <<phase, made, starting, pc, quit, count, inbox, read, from, listed, sources,
                     pool, ender>> /\ exit' = exit
  BY <1>0 DEF Join, runVars, mountVars, readVars, endVars, pastVars, Task
<1>2. work[t] # <<>> /\ Head(work[t]).do = "join" /\ i \in Interfaces /\ n \in Nat
      /\ Has(t, n, "join", i)
  BY <1>0, <1>1, DueIs, AtTypes DEF Due
<1>3. r \in Tasks  BY TasksAre
<1>4. r.do = "release" /\ r.at = "listMem"  OBVIOUS
<1>5. /\ count[i] = 0 /\ i \notin shut
      /\ \A u \in Threads, d \in Nat : Has(u, d, "join", i) => u = t /\ d = n
  BY <1>2 DEF Steady, JoinOK
<1>6. pc[i] # "unborn"
  <2>1. count["icc"] \in Nat /\ count["running"] \in Nat  BY DEF LifeTypeOK, Counters
  <2>2. phase # "config"  BY <1>2, <1>5, <2>1, ConfigHolds DEF Steady
  <2> QED  BY <1>2, <2>2, BornInLoop DEF Steady
<1> HIDE DEF r
<1>7. /\ tasks \in Seq(Tasks) /\ Flat(tasks, t)
      /\ 1..Len(tasks) = {1} /\ Len(tasks) = 1 /\ tasks[1] = r
  <2>1. tasks \in Seq(Tasks)  BY <1>3, SeqTasks
  <2>2. 1..Len(tasks) = {1} /\ Len(tasks) = 1 /\ tasks[1] = r  OBVIOUS
  <2> HIDE DEF tasks
  <2>3. Flat(tasks, t)  BY <1>4, <2>2 DEF Flat, CallDo
  <2> QED  BY <2>1, <2>2, <2>3
<1>8. Head(work[t]).do \in CallDo \cup {"next", "arm"} /\ quit \subseteq quit' /\ shut \subseteq shut'
  BY <1>1, <1>2 DEF CallDo
<1>9. InStack(t, n) /\ Deep(t, n) = Head(work[t])  BY <1>2, TopIs
<1> HIDE DEF tasks
<1>10. /\ Pushed(t, n, tasks)
       /\ MainStack' /\ (\A j \in Interfaces : FuseStack(j)') /\ InOrderMade' /\ QueueOK'
       /\ (Signalling' <=> Signalling) /\ (Consuming' <=> Consuming)
       /\ \A j \in Interfaces : /\ Active(j)' => Active(j)
                                /\ Listing(j)' => Listing(j)
                                /\ Serving(j)' => Serving(j)
       /\ \A q \in Reads : /\ Underway(q)' => Underway(q) /\ from'[q] = from[q]
                           /\ read'[q] = "running" => read[q] = "running"
  BY <1>1, <1>2, <1>7, <1>8, CallSame
<1>11. \A j \in 1..Len(tasks) : tasks[j].do = "release"
  BY <1>4, <1>7
<1>12. \A b \in Nat : Has(t, b, "swap", Nobody) => b < n
  <2> SUFFICES ASSUME NEW b \in Nat, Has(t, b, "swap", Nobody) PROVE b < n  OBVIOUS
  <2>1. b <= n /\ Deep(t, b).do = "swap"  BY TopIs, <1>2 DEF Has, InStack
  <2>2. b # n  BY <1>2, <1>9, <2>1
  <2> QED  BY <1>2, <2>1, <2>2
<1> HIDE DEF n
<1>13. astray' = astray  BY <1>1, <1>5 DEF Use
<1>14. QuitOK' /\ SwapOK' /\ SignalOK' /\ UnlinkOK' /\ ExitOK'
  BY <1>1, <1>10, <1>11, <1>12, <1>13, PushRest
<1>15. JoinOK'
  <2>1. ASSUME NEW u \in Threads, NEW b \in Nat, NEW j \in Interfaces, Has(u, b, "join", j)'
        PROVE  Has(u, b, "join", j) /\ j # i
    <3>1. (u # t \/ b < n) /\ Has(u, b, "join", j)
      <4>1. \A k \in 1..Len(tasks) : tasks[k] # [do |-> "join", at |-> j]
        BY <1>11
      <4> QED  BY <1>10, <2>1, <4>1, HasAfter
    <3>2. j # i  BY <1>2, <1>5, <3>1
    <3> QED  BY <3>1, <3>2
  <2>2. \A j \in Interfaces : j \in shut' => count'[j] = 0
    BY <1>1, <1>5 DEF Steady, JoinOK
  <2>3. ASSUME NEW j \in Interfaces, NEW u \in Threads, NEW b \in Nat, Has(u, b, "join", j)'
        PROVE  /\ count'[j] = 0 /\ j \notin shut'
               /\ \A v \in Threads, d \in Nat : Has(v, d, "join", j)' => v = u /\ d = b
    <3>1. Has(u, b, "join", j) /\ j # i  BY <2>1, <2>3
    <3>2. /\ count[j] = 0 /\ j \notin shut
          /\ \A v \in Threads, d \in Nat : Has(v, d, "join", j) => v = u /\ d = b
      BY <3>1 DEF Steady, JoinOK
    <3> QED  BY <1>1, <2>1, <3>1, <3>2
  <2> QED  BY <2>2, <2>3 DEF JoinOK
<1>16. Nexts' \subseteq Nexts  BY <1>10, <1>11, NextsAfter
<1>17. \A c \in Counters \ {"listMem"} : \A j \in 1..Len(tasks) :
          tasks[j] # [do |-> "release", at |-> c]
  <2> SUFFICES ASSUME NEW c \in Counters \ {"listMem"}, NEW j \in 1..Len(tasks),
                      tasks[j] = [do |-> "release", at |-> c]
               PROVE  FALSE
    OBVIOUS
  <2>1. tasks[j].at = c  OBVIOUS
  <2> QED  BY <1>4, <1>7, <2>1
<1>18. \E x \in Holders("listMem") : \E y :
             Holders("listMem")' \subseteq (Holders("listMem") \ {x}) \cup {y}
  <2> DEFINE x == <<"interface", i, 0>>
             y == St(t, n + Len(tasks) - 1)
  <2>1. \A j \in 1..Len(tasks) : j = 1  BY <1>7
  <2>2. Releases("listMem")' \subseteq Releases("listMem") \cup {y}
    BY <1>7, <1>10, <2>1, OneRelease
  <2>3. Listing(i)  BY <1>5, <1>6 DEF Listing
  <2>4. x \in Users("listMem")  BY <1>2, <2>3 DEF Users
  <2>5. ~Listing(i)'  BY <1>1 DEF Listing
  <2>6. Releases("list")' \subseteq Releases("list")
    <3>1. "list" \in Counters \ {"listMem"}  BY DEF Counters
    <3>2. \A j \in 1..Len(tasks) : tasks[j] # [do |-> "release", at |-> "list"]  BY <1>17, <3>1
    <3>3. Releases("list")' \subseteq Releases("list") \ {St(t, b) : b \in {d \in Nat : d >= n}}
      BY <1>10, <3>2, NoNewReleases
    <3> QED  BY <3>3
  <2>7. Running' \subseteq Running  BY <1>10, KeepsRunningReads
  <2>8. ListUsers("listMem")' \subseteq ListUsers("listMem")
    BY <1>1, <2>6, <2>7 DEF ListUsers, ListCounter
  <2>9. x \notin ListUsers("listMem")
    BY ReleasesAre, Tokens DEF ListUsers, Running
  <2>10. \A z : z \in Users("listMem")' => z \in Users("listMem") /\ z # x
    <3> SUFFICES ASSUME NEW z \in Users("listMem")'
                 PROVE  z \in Users("listMem") /\ z # x
      OBVIOUS
    <3>1. CASE z \in ListUsers("listMem")'  BY <2>8, <2>9, <3>1 DEF Users
    <3>2. CASE \E j \in Interfaces : Listing(j)' /\ z = <<"interface", j, 0>>
      <4>1. PICK j \in Interfaces : Listing(j)' /\ z = <<"interface", j, 0>>  BY <3>2
      <4>2. Listing(j) /\ j # i  BY <1>10, <2>5, <4>1
      <4> QED  BY <4>1, <4>2, Tokens DEF Users
    <3> QED  BY <3>1, <3>2 DEF Users
  <2>11. x \notin Fixed("listMem")' /\ Fixed("listMem")' \subseteq Fixed("listMem")
    BY <1>1 DEF Fixed, If
  <2>12. x \notin Releases("listMem")  BY ReleasesAre, Tokens
  <2> HIDE DEF x, y
  <2>13. Holders("listMem")' \subseteq (Holders("listMem") \ {x}) \cup {y}
    BY <2>2, <2>10, <2>11, <2>12 DEF Holders
  <2>14. x \in Holders("listMem")  BY <2>4 DEF Holders
  <2> QED  BY <2>13, <2>14
<1>19. CountsOK'
  <2>1. "listMem" # "list" /\ "listMem" # "icc"  OBVIOUS
  <2>2. /\ count' = count /\ (pool' => pool) /\ (phase' = "config" => phase = "config")
        /\ sources' # "closed" => sources # "closed"
    BY <1>1
  <2>3. CountsOK  BY DEF Steady
  <2>4. Swapped("listMem")  BY <1>18 DEF Swapped
  <2>5. Pushed(t, n, tasks) /\ (Consuming' <=> Consuming) /\ Milder
    BY <1>10 DEF Milder
  <2>6. OnlyReleases(tasks, "listMem") /\ Nexts' \subseteq Nexts
    BY <1>16, <1>17 DEF OnlyReleases
  <2> QED  BY <2>1, <2>2, <2>3, <2>4, <2>5, <2>6, CallBalance
<1>20. AstrayOK'  BY <1>13 DEF Steady, AstrayOK
<1> QED  BY <1>10, <1>14, <1>15, <1>19, <1>20 DEF Steady

\* user_quit's loop
LEMMA QuitNextSteady ==
  ASSUME LifeTypeOK, LifeTypeOK', Steady, NEW t \in Threads, QuitNext(t)
  PROVE  Steady'
<1>0. PICK k : k = At(t)  OBVIOUS
<1> DEFINE n == Len(work[t]) - 1
           r == [do |-> "release", at |-> "icc"]
           q == [do |-> "quit", at |-> Order[k]]
           m == [do |-> "next", at |-> k + 1]
<1>1. /\ Due(t, "next") /\ Use("icc", count["icc"] = 0)
      /\ UNCHANGED <<phase, made, starting, pc, quit, shut, count, inbox, read, from, listed,
                     sources, pool, ender>> /\ exit' = exit
      /\ count["icc"] = 0 => Call(t, <<>>)
      /\ count["icc"] # 0 /\ k > made => Call(t, <<r>>)
      /\ count["icc"] # 0 /\ ~(k > made) => Call(t, <<q, m>>)
  <2>1. count["icc"] \in Nat  BY DEF LifeTypeOK, Counters
  <2>2. Task("quit", Order[k]) \o Task("next", k + 1) = <<q, m>>  BY TwoTasks
  <2>3. Task("release", "icc") = <<r>>  BY DEF Task
  <2>4. /\ Due(t, "next") /\ Use("icc", count["icc"] = 0)
        /\ UNCHANGED <<phase, made, starting, pc, quit, shut, count, inbox, read, from, listed,
                       sources, pool, ender>> /\ exit' = exit
        /\ Call(t, CASE count["icc"] = 0 -> <<>>
                     [] count["icc"] > 0 /\ k > made -> Task("release", "icc")
                     [] OTHER -> Task("quit", Order[k]) \o Task("next", k + 1))
    BY <1>0 DEF QuitNext, runVars, fiVars, mountVars, readVars, endVars, pastVars
  <2> HIDE DEF r, q, m
  <2>5. count["icc"] # 0 => count["icc"] > 0  BY <2>1
  <2>6. count["icc"] = 0 => Call(t, <<>>)
    <3> SUFFICES ASSUME count["icc"] = 0 PROVE Call(t, <<>>)  OBVIOUS
    <3>1. ~(count["icc"] > 0)  BY <2>1
    <3> QED  BY <2>4, <3>1 DEF Call
  <2>7. count["icc"] # 0 /\ k > made => Call(t, <<r>>)
    BY <2>3, <2>4, <2>5 DEF Call
  <2>8. count["icc"] # 0 /\ ~(k > made) => Call(t, <<q, m>>)
    BY <2>2, <2>4, <2>5 DEF Call
  <2> QED  BY <2>4, <2>6, <2>7, <2>8
<1>2. work[t] # <<>> /\ Head(work[t]).do = "next" /\ k \in 1..Len(Order) + 1 /\ n \in Nat
      /\ Has(t, n, "next", k) /\ InStack(t, n) /\ Deep(t, n) = Head(work[t])
  BY <1>0, <1>1, DueIs, AtTypes, TopIs DEF Due
<1>3. t = Main
  <2> SUFFICES ASSUME t # Main PROVE FALSE  OBVIOUS
  <2>1. t \in Interfaces /\ FuseStack(t)  BY ThreadsAre DEF Steady
  <2>2. Head(work[t]).do \in CallDo  BY <1>2, <2>1, FuseDue
  <2> QED  BY <1>2, <2>2 DEF CallDo
<1>4. made \in Nat /\ Len(Order) \in Nat /\ k \in Nat /\ k >= 1 /\ made <= Len(Order)
      /\ DOMAIN Order = 1..Len(Order)
  BY <1>2, OrderIs DEF LifeTypeOK
<1>5. k <= made => Order[k] \in Interfaces /\ pc[Order[k]] # "unborn" /\ k + 1 \in 1..Len(Order) + 1
  <2> SUFFICES ASSUME k <= made
               PROVE  Order[k] \in Interfaces /\ pc[Order[k]] # "unborn" /\ k + 1 \in 1..Len(Order) + 1
    OBVIOUS
  <2>1. k \in 1..Len(Order) /\ k \in 1..made  BY <1>2, <1>4
  <2>2. Order[k] \in Interfaces  BY <2>1, OrderIs
  <2>3. k + 1 \in 1..Len(Order) + 1  BY <1>4
  <2>4. pc[Order[k]] # "unborn"  BY <1>4, <2>1, <2>2 DEF Steady, InOrderMade
  <2> QED  BY <2>2, <2>3, <2>4
<1>6. PICK tasks : /\ count["icc"] = 0 => tasks = <<>>
                   /\ count["icc"] # 0 /\ k > made => tasks = <<r>>
                   /\ count["icc"] # 0 /\ ~(k > made) => tasks = <<q, m>>
  <2> HIDE DEF r, q, m
  <2>1. CASE count["icc"] = 0  BY <2>1
  <2>2. CASE count["icc"] # 0 /\ k > made  BY <2>2
  <2>3. CASE count["icc"] # 0 /\ ~(k > made)  BY <2>3
  <2> QED  BY <2>1, <2>2, <2>3
<1>7. /\ r.do = "release" /\ r.at = "icc" /\ q.do = "quit" /\ q.at = Order[k]
      /\ m.do = "next"
  OBVIOUS
<1>8. r \in Tasks /\ (k <= made => q \in Tasks /\ m \in Tasks)
  BY <1>5, TasksAre
<1> HIDE DEF r, q, m
<1>9. Call(t, tasks)  BY <1>1, <1>6
<1>10. ~(k > made) => k <= made  BY <1>4
<1>11. tasks \in Seq(Tasks)  BY <1>6, <1>8, <1>10, SeqTasks
<1>12. /\ count["icc"] = 0 => 1..Len(tasks) = {}
       /\ count["icc"] # 0 /\ k > made => 1..Len(tasks) = {1} /\ Len(tasks) = 1 /\ tasks[1] = r
       /\ count["icc"] # 0 /\ ~(k > made) =>
            1..Len(tasks) = {1, 2} /\ Len(tasks) = 2 /\ tasks[1] = q /\ tasks[2] = m
  <2>1. Len(<<>>) = 0 /\ 1..0 = {}  OBVIOUS
  <2>2. 1..Len(<<r>>) = {1} /\ Len(<<r>>) = 1 /\ <<r>>[1] = r  OBVIOUS
  <2>3. 1..Len(<<q, m>>) = {1, 2} /\ Len(<<q, m>>) = 2 /\ <<q, m>>[1] = q /\ <<q, m>>[2] = m
    OBVIOUS
  <2> QED  BY <1>6, <2>1, <2>2, <2>3
<1>13. \A j \in 1..Len(tasks) :
          \/ tasks[j] = r /\ count["icc"] # 0 /\ k > made /\ j = 1 /\ Len(tasks) = 1
          \/ tasks[j] = q /\ count["icc"] # 0 /\ k <= made /\ j = 1
          \/ tasks[j] = m /\ count["icc"] # 0 /\ j = 2 /\ Len(tasks) = 2
  BY <1>10, <1>12
<1>14. Flat(tasks, t)
  BY <1>3, <1>7, <1>13 DEF Flat, CallDo
<1>15. Head(work[t]).do \in CallDo \cup {"next", "arm"} /\ quit \subseteq quit' /\ shut \subseteq shut'
  BY <1>1, <1>2
<1>16. /\ Pushed(t, n, tasks)
       /\ MainStack' /\ (\A j \in Interfaces : FuseStack(j)') /\ InOrderMade' /\ QueueOK'
       /\ (Signalling' <=> Signalling) /\ (Consuming' <=> Consuming) /\ ~Signalling
       /\ \A j \in Interfaces : /\ Active(j)' => Active(j)
                                /\ Listing(j)' => Listing(j)
                                /\ Serving(j)' => Serving(j)
       /\ \A p \in Reads : /\ Underway(p)' => Underway(p) /\ from'[p] = from[p]
                           /\ read'[p] = "running" => read[p] = "running"
  BY <1>1, <1>2, <1>3, <1>9, <1>11, <1>14, <1>15, CallSame
<1>17. \A b \in Nat : Has(t, b, "swap", Nobody) => b < n
  <2> SUFFICES ASSUME NEW b \in Nat, Has(t, b, "swap", Nobody) PROVE b < n  OBVIOUS
  <2>1. b <= n /\ Deep(t, b).do = "swap"  BY TopIs, <1>2 DEF Has, InStack
  <2>2. b # n  BY <1>2, <2>1
  <2> QED  BY <1>2, <2>1, <2>2
<1> HIDE DEF n
<1>18. \A j \in 1..Len(tasks) :
          /\ tasks[j].do \in {"release", "unmount", "quit", "gone", "next", "arm", "acquire"}
          /\ tasks[j].do = "quit" => pc'[tasks[j].at] # "unborn"
  BY <1>1, <1>5, <1>7, <1>13
<1>19. QuitOK' /\ JoinOK' /\ SwapOK' /\ UnlinkOK' /\ ExitOK'
  BY <1>1, <1>16, <1>17, <1>18, PushRest
<1>20. "icc" \in astray' => "icc" \in astray \/ ender \in Interfaces
  BY <1>1, <1>2 DEF Use, Steady, SignalOK
<1>21. SignalOK'
  <2>1. ASSUME NEW u \in Threads, NEW b \in Nat, InStack(u, b)', Deep(u, b)'.do = "next",
               count'["icc"] = 0
        PROVE  ender' \in Interfaces
    <3>1. \/ InStack(u, b) /\ Deep(u, b)' = Deep(u, b)
          \/ \E j \in 1..Len(tasks) : Deep(u, b)' = tasks[j]
      <4>1. Pushed(t, n, tasks)  BY <1>16
      <4> QED  BY <2>1, <4>1, DeepAfter
    <3>2. count["icc"] = 0 /\ 1..Len(tasks) = {}  BY <1>1, <1>12, <2>1
    <3>3. InStack(u, b) /\ Deep(u, b).do = "next"  BY <2>1, <3>1, <3>2
    <3> QED  BY <1>1, <3>2, <3>3 DEF Steady, SignalOK
  <2>2. "icc" \in astray => ender \in Interfaces  BY DEF Steady, SignalOK
  <2>3. ~Signalling'  BY <1>16
  <2>4. "icc" \in astray' => ender' \in Interfaces  BY <1>1, <1>20, <2>2
  <2> QED  BY <2>1, <2>3, <2>4 DEF SignalOK
<1>22. AstrayOK'
  <2>1. astray' \subseteq astray \cup {"icc"}  BY <1>1 DEF Use
  <2> QED  BY <2>1 DEF Steady, AstrayOK
<1>23. St(t, n) \in Nexts
  <2>1. Deep(t, n).do = "next"  BY <1>2
  <2> QED  BY <1>2, <1>16, <2>1, NextsAre
<1>24. \A x \in Nexts' : x \in Nexts /\ (count["icc"] # 0 /\ k > made => x # St(t, n))
  <2> SUFFICES ASSUME NEW x \in Nexts'
               PROVE  x \in Nexts /\ (count["icc"] # 0 /\ k > made => x # St(t, n))
    OBVIOUS
  <2>1. PICK u \in Threads, b \in Nat : /\ x = St(u, b)
                                        /\ InStack(u, b)' /\ Deep(u, b)'.do = "next"
    <3>1. PICK p \in Threads \X Nat : /\ x = <<"stack", p[1], p[2]>>
                                      /\ InStack(p[1], p[2])' /\ Deep(p[1], p[2])'.do = "next"
      BY DEF Nexts
    <3>2. p[1] \in Threads /\ p[2] \in Nat  OBVIOUS
    <3> QED  BY <3>1, <3>2 DEF St
  <2>2. CASE (u # t \/ b < n) /\ InStack(u, b) /\ Deep(u, b)' = Deep(u, b)
    <3>1. x \in Nexts  BY <1>16, <2>1, <2>2, NextsAre
    <3>2. x # St(t, n)
      <4> SUFFICES ASSUME St(u, b) = St(t, n) PROVE FALSE  BY <2>1
      <4>1. u = t /\ b = n  BY Tokens
      <4> QED  BY <1>2, <2>2, <4>1
    <3> QED  BY <3>1, <3>2
  <2>3. CASE u = t /\ \E j \in 1..Len(tasks) : b = n + Len(tasks) - j /\ Deep(u, b)' = tasks[j]
    <3>1. PICK j \in 1..Len(tasks) : b = n + Len(tasks) - j /\ Deep(u, b)' = tasks[j]
      BY <2>3
    <3>2. tasks[j] = m /\ j = 2 /\ Len(tasks) = 2
      BY <1>7, <1>13, <2>1, <3>1
    <3>3. ~(count["icc"] # 0 /\ k > made)  BY <1>12, <3>2
    <3>4. b = n  BY <1>2, <3>1, <3>2
    <3> QED  BY <1>23, <2>1, <2>3, <3>3, <3>4
  <2> QED  BY <1>16, <2>1, <2>2, <2>3, DeepAfter
<1>25. CASE count["icc"] # 0 /\ k > made
  <2> DEFINE y == St(t, n + Len(tasks) - 1)
  <2>1. \A c \in Counters \ {"icc"} : \A j \in 1..Len(tasks) :
          tasks[j] # [do |-> "release", at |-> c]
    <3> SUFFICES ASSUME NEW c \in Counters \ {"icc"}, NEW j \in 1..Len(tasks),
                        tasks[j] = [do |-> "release", at |-> c]
                 PROVE  FALSE
      OBVIOUS
    <3>1. tasks[j].at = c  OBVIOUS
    <3> QED  BY <1>7, <1>12, <1>25, <3>1
  <2>2. y = St(t, n) /\ y \in Nexts
    <3>1. n + Len(tasks) - 1 = n
      <4>1. Len(tasks) = 1 /\ n \in Nat  BY <1>2, <1>12, <1>25
      <4> QED  BY ONLY <4>1
    <3> QED  BY <1>23, <3>1
  <2>3. 1 \in 1..Len(tasks) /\ \A j \in 1..Len(tasks) : j = 1  BY <1>12, <1>25
  <2>4. Releases("icc")' \subseteq Releases("icc") \cup {y}
    BY <1>16, <2>3, OneRelease
  <2> HIDE DEF y
  <2>5. Holders("icc")' \subseteq Holders("icc")
    <3>1. Nexts' \subseteq Nexts  BY <1>24
    <3>2. Fixed("icc")' \subseteq Fixed("icc")  BY <1>1 DEF Fixed, If
    <3> QED  BY <2>2, <2>4, <3>1, <3>2 DEF Holders, Users
  <2>6. "icc" # "list" /\ count["icc"] > 0
    <3>1. count["icc"] \in Nat  BY DEF LifeTypeOK, Counters
    <3> QED  BY <1>25, <3>1
  <2>7. CountsOK'
    <3>1. /\ count' = count /\ (pool' => pool) /\ (phase' = "config" => phase = "config")
          /\ sources' # "closed" => sources # "closed"
      BY <1>1
    <3>2. CountsOK  BY DEF Steady
    <3>3. Pushed(t, n, tasks) /\ (Consuming' <=> Consuming) /\ Milder
      BY <1>16 DEF Milder
    <3>4. OnlyReleases(tasks, "icc") /\ Swapped("icc")  BY <2>1, <2>5 DEF OnlyReleases, Swapped
    <3> QED  BY <2>6, <3>1, <3>2, <3>3, <3>4, CallBalance
  <2> QED  BY <1>16, <1>19, <1>21, <1>22, <2>7 DEF Steady
<1>26. CASE ~(count["icc"] # 0 /\ k > made)
  <2>1. \A c : \A j \in 1..Len(tasks) : tasks[j] # [do |-> "release", at |-> c]
    <3> SUFFICES ASSUME NEW c, NEW j \in 1..Len(tasks),
                        tasks[j] = [do |-> "release", at |-> c]
                 PROVE  FALSE
      OBVIOUS
    <3>1. tasks[j].do = "release"  OBVIOUS
    <3> QED  BY <1>7, <1>13, <1>26, <3>1
  <2>2. Nexts' \subseteq Nexts  BY <1>24
  <2>3. Holders("loop")' \subseteq Holders("loop")
    <3>1. Releases("loop")' \subseteq Releases("loop")
      BY <1>16, <2>1, NoNewReleases
    <3> QED  BY <1>1, <3>1, KeepsLoop
  <2>4. "loop" # "list" /\ "loop" # "icc"  OBVIOUS
  <2>5. CountsOK'
    <3>1. /\ count' = count /\ (pool' => pool) /\ (phase' = "config" => phase = "config")
          /\ sources' # "closed" => sources # "closed"
      BY <1>1
    <3>2. CountsOK  BY DEF Steady
    <3>3. Pushed(t, n, tasks) /\ (Consuming' <=> Consuming) /\ Milder
      BY <1>16 DEF Milder
    <3>4. OnlyReleases(tasks, "loop") /\ Swapped("loop")  BY <2>1, <2>3 DEF OnlyReleases, Swapped
    <3> QED  BY <2>2, <2>4, <3>1, <3>2, <3>3, <3>4, CallBalance
  <2> QED  BY <1>16, <1>19, <1>21, <1>22, <2>5 DEF Steady
<1> QED  BY <1>25, <1>26
-----------------------------------------------------------------------------
(* The end of an interface's thread                                         *)

LEMMA GoneSteady ==
  ASSUME LifeTypeOK, LifeTypeOK', Steady, NEW i \in Interfaces, Gone(i)
  PROVE  Steady'
<1>0. i \in Threads /\ Interfaces \subseteq Threads  BY ThreadsAre
<1>1. /\ Due(i, "gone") /\ Call(i, <<>>) /\ pc' = [pc EXCEPT ![i] = "gone"]
      /\ UNCHANGED <<phase, made, starting, quit, shut, count, listed, sources, pool, ender,
                     inbox, read, from, astray>>
      /\ exit' = exit
  BY DEF Gone, runVars, mountVars, readVars, endVars, pastVars
<1>2. FuseStack(i) /\ work[i] # <<>> /\ Head(work[i]).do = "gone"
  BY <1>1 DEF Steady, Due
<1>3. pc[i] = "finish" /\ Len(work[i]) = 1  BY <1>2, FuseDue
<1>4. work[i] = <<Head(work[i])>> /\ work[i] \in Seq(Tasks)
  BY <1>0, <1>2, <1>3 DEF LifeTypeOK
<1>5. work'[i] = <<>> /\ \A u \in Threads \ {i} : work'[u] = work[u]
  BY <1>0, <1>1, <1>4, SeqTasks, CallAlone
<1>6. NoCalls(work[i]) /\ NoCalls(work'[i])
  <2>1. "gone" \notin CallDo \cup {"next"}  BY DEF CallDo
  <2>2. \A x : x.do = "gone" => NoCalls(<<x>>)  BY <2>1, NoCallsIn
  <2> QED  BY <1>2, <1>4, <1>5, <2>2, NoCallsIn
<1>7. pc'[i] = "gone" /\ \A j \in Interfaces \ {i} : pc'[j] = pc[j]
  BY <1>1 DEF LifeTypeOK
<1>8. FuseStack(i)'  BY <1>5, <1>7 DEF FuseStack
<1>9. Serving(i)' => Serving(i)  BY <1>7 DEF Serving
<1>10. ASSUME NEW q \in Reads
       PROVE  /\ Underway(q)' => Underway(q) /\ from'[q] = from[q]
              /\ read'[q] = "running" <=> read[q] = "running"
              /\ \A j \in Interfaces \ {i} : Asked(j, q) => Asked(j, q)'
  <2>1. Underway(q)' => Underway(q)
    <3>1. read[q] # "unseen" => from[q] \in Interfaces  BY DEF Steady, QueueOK
    <3>2. Task("send", q) # <<>>  BY OneTask
    <3>3. read[q] = "looked" /\ work'[from[q]] = Task("send", q) => work[from[q]] = Task("send", q)
      BY <1>0, <1>5, <3>1, <3>2
    <3> QED  BY <1>1, <3>3 DEF Underway
  <2> QED  BY <1>1, <2>1 DEF Asked
<1>11. QueueOK' /\ AstrayOK'  BY <1>1, QueueFrame DEF Steady, AstrayOK
<1> QED  BY <1>1, <1>3, <1>5, <1>6, <1>7, <1>8, <1>9, <1>10, <1>11, FuseQuiet

\* The thread leaves its loop, or could not mount: it gives up its reference.
LEMMA LeaveSteady ==
  ASSUME LifeTypeOK, LifeTypeOK', Steady, NEW i \in Interfaces,
         EndSession(i) \/ (Mount(i) /\ pc'[i] # "serve")
  PROVE  Steady'
<1>0. /\ i \in Threads /\ Interfaces \subseteq Threads /\ i # Main /\ Main \in Threads
      /\ i \in Counters /\ Interfaces \subseteq Counters /\ Nobody \notin Interfaces
  BY ThreadsAre DEF Counters
<1> DEFINE q == [do |-> "quit", at |-> i]
           r == [do |-> "release", at |-> i]
           g == [do |-> "gone", at |-> Nobody]
           tasks == <<q, r, g>>
<1>1. Leaving(i) = tasks  BY ThreeTasks DEF Leaving
<1>2. /\ q.do = "quit" /\ q.at = i /\ r.do = "release" /\ r.at = i /\ g.do = "gone"
      /\ q \in Tasks /\ r \in Tasks /\ g \in Tasks
  BY <1>0, TasksAre
<1>3. /\ UNCHANGED <<phase, made, starting, quit, shut, count, listed, sources, pool, ender,
                     inbox, read, from, astray>>
      /\ exit' = exit /\ pc' = [pc EXCEPT ![i] = "finish"]
  <2>1. CASE EndSession(i)
    BY <2>1 DEF EndSession, runVars, mountVars, readVars, endVars, pastVars
  <2>2. CASE Mount(i) /\ pc'[i] # "serve"
    <3>1. pc' # [pc EXCEPT ![i] = "serve"]  BY <2>2 DEF LifeTypeOK
    <3> QED  BY <2>2, <3>1 DEF Mount, runVars, readVars, endVars, pastVars
  <2> QED  BY <2>1, <2>2
<1>4. pc'[i] = "finish" /\ \A j \in Interfaces \ {i} : pc'[j] = pc[j]
  BY <1>3 DEF LifeTypeOK
<1> HIDE DEF q, r, g
<1>5. 1..Len(tasks) = {1, 2, 3} /\ Len(tasks) = 3 /\ tasks[1] = q /\ tasks[2] = r /\ tasks[3] = g
  OBVIOUS
<1>6. tasks \in Seq(Tasks)  BY <1>2, SeqTasks
<1> HIDE DEF tasks
<1>7. /\ Pushed(i, 0, tasks) /\ work'[i] = tasks
      /\ \A u \in Threads \ {i} : work'[u] = work[u]
      /\ NoCalls(work[i]) /\ Serving(i)
      /\ pc[i] \in {"start", "serve"}
      /\ work[i] = <<>> \/ \E x : work[i] = <<x>> /\ x.do = "mount"
  <2>1. CASE EndSession(i)
    <3>1. pc[i] = "serve" /\ work[i] = <<>> /\ work' = [work EXCEPT ![i] = tasks]
      BY <1>1, <2>1 DEF EndSession
    <3>2. work \in [Threads -> Seq(Tasks)]  BY DEF LifeTypeOK
    <3>3. Pushed(i, 0, tasks)  BY <1>0, <1>6, <3>1, <3>2, HandlePushes
    <3>4. work'[i] = tasks /\ \A u \in Threads \ {i} : work'[u] = work[u]  BY <1>0, <3>1, <3>2
    <3>5. NoCalls(work[i])  BY <3>1, NoCallsIn
    <3> QED  BY <3>1, <3>3, <3>4, <3>5 DEF Serving
  <2>2. CASE Mount(i) /\ pc'[i] # "serve"
    <3>1. Due(i, "mount") /\ Call(i, tasks)
      <4>1. pc' # [pc EXCEPT ![i] = "serve"]  BY <2>2 DEF LifeTypeOK
      <4> QED  BY <1>1, <2>2, <4>1 DEF Mount
    <3>2. FuseStack(i) /\ work[i] # <<>> /\ Head(work[i]).do = "mount"
      BY <3>1 DEF Steady, Due
    <3>3. pc[i] = "start" /\ work[i] = <<Head(work[i])>>  BY <3>2, FuseDue
    <3>4. work'[i] = tasks /\ \A u \in Threads \ {i} : work'[u] = work[u]
      BY <1>0, <1>6, <3>1, <3>3, CallAlone
    <3>5. work[i] = Task("mount", Nobody)
      <4>1. Head(work[i]) \in Tasks  BY <1>0, <3>2, TopIs
      <4>2. Head(work[i]) = [do |-> "mount", at |-> Nobody]  BY <3>2, <4>1, TaskTypes
      <4> QED  BY <3>3, <4>2 DEF Task
    <3>6. Pushed(i, Len(work[i]) - 1, tasks)
      <4>1. work \in [Threads -> Seq(Tasks)]  BY DEF LifeTypeOK
      <4> QED  BY <1>0, <1>6, <3>1, <3>2, <4>1, CallPushes
    <3>7. Len(work[i]) - 1 = 0  BY <3>3, HeadsAre
    <3>8. Pushed(i, 0, tasks)  BY <3>6, <3>7
    <3>9. NoCalls(work[i])  BY <3>2, <3>3, FuseNoCalls
    <3> QED  BY <3>2, <3>3, <3>4, <3>5, <3>8, <3>9 DEF Serving
  <2> QED  BY <2>1, <2>2
<1>8. FuseStack(i)'
  <2>1. Deep(i, 0)' = g /\ Deep(i, 1)' = r /\ Deep(i, 2)' = q /\ Len(work'[i]) = 3
    <3>1. work'[i] = tasks  BY <1>7
    <3>2. Len(work'[i]) = 3 /\ work'[i][1] = q /\ work'[i][2] = r /\ work'[i][3] = g
      BY <1>5, <3>1
    <3>3. 3 - 0 = 3 /\ 3 - 1 = 2 /\ 3 - 2 = 1  OBVIOUS
    <3>4. \A b : Deep(i, b)' = work'[i][3 - b]  BY <3>2 DEF Deep
    <3>5. Deep(i, 0)' = work'[i][3] /\ Deep(i, 1)' = work'[i][2] /\ Deep(i, 2)' = work'[i][1]
      BY <3>3, <3>4
    <3> QED  BY <3>2, <3>5
  <2>2. \A b \in Nat \ {0} : InStack(i, b)' => b = 1 \/ b = 2
    BY <2>1 DEF InStack
  <2>3. \A b \in Nat \ {0} : InStack(i, b)' => Deep(i, b)'.do \in CallDo
    <3> SUFFICES ASSUME NEW b \in Nat \ {0}, InStack(i, b)' PROVE Deep(i, b)'.do \in CallDo
      OBVIOUS
    <3>1. b = 1 \/ b = 2  BY <2>2
    <3>2. Deep(i, 1)'.do \in CallDo /\ Deep(i, 2)'.do \in CallDo  BY <1>2, <2>1 DEF CallDo
    <3>3. CASE b = 1  BY <3>2, <3>3
    <3>4. CASE b = 2  BY <3>2, <3>4
    <3> QED  BY <3>1, <3>3, <3>4
  <2>4. work'[i] # <<>>  BY <2>1
  <2> QED  BY <1>2, <1>4, <2>1, <2>3, <2>4 DEF FuseStack
<1>9. MainStack' /\ (Signalling' <=> Signalling) /\ (Consuming' <=> Consuming)
  BY <1>0, <1>3, <1>7, MainSame DEF Steady
<1>10. ASSUME NEW j \in Interfaces, j # i
       PROVE  FuseStack(j)' /\ work'[j] = work[j] /\ pc'[j] = pc[j]
  <2>1. work'[j] = work[j] /\ pc'[j] = pc[j] /\ FuseStack(j)
    BY <1>0, <1>4, <1>7, <1>10 DEF Steady
  <2> QED  BY <1>3, <2>1, FuseSame DEF Asked
<1>11. work'[Main] = work[Main]  BY <1>0, <1>7
<1>12. ASSUME NEW j \in Interfaces
       PROVE  /\ Active(j)' => Active(j)
              /\ Listing(j)' => Listing(j)
              /\ Serving(j)' => Serving(j)
              /\ pc[j] # "unborn" => pc'[j] # "unborn"
  <2>1. CASE j = i
    <3>1. pc[i] # "unborn" /\ pc'[i] = "finish"  BY <1>4, <1>7
    <3> QED  BY <1>3, <2>1, <3>1 DEF Active, Listing, Serving
  <2>2. CASE j # i
    BY <1>3, <1>10, <1>11, <2>2 DEF Active, Listing, Serving
  <2> QED  BY <2>1, <2>2
<1>13. ~Serving(i)'  BY <1>4 DEF Serving
<1>14. ASSUME NEW p \in Reads
       PROVE  /\ Underway(p)' => Underway(p) /\ from'[p] = from[p]
              /\ read'[p] = "running" => read[p] = "running"
  <2>1. read[p] # "unseen" => from[p] \in Interfaces  BY DEF Steady, QueueOK
  <2>2. work'[i] # Task("send", p)
    <3>1. Len(Task("send", p)) = 1  BY OneTask
    <3> QED  BY <1>5, <1>7, <3>1
  <2>3. read[p] = "looked" /\ work'[from[p]] = Task("send", p) => work[from[p]] = Task("send", p)
    BY <1>10, <2>1, <2>2
  <2> QED  BY <1>3, <2>3 DEF Underway
<1>15. InOrderMade'
  <2>1. starting \in Interfaces \cup {Nobody}  BY DEF LifeTypeOK
  <2>2. starting' # Nobody => /\ phase' = "config" /\ work'[Main] = <<>>
                              /\ made' < Len(Order) /\ starting' = Order[made' + 1]
                              /\ pc'[starting'] # "unborn"
    BY <1>3, <1>11, <1>12, <2>1 DEF Steady, InOrderMade
  <2>3. ASSUME NEW k \in DOMAIN Order
        PROVE  /\ k <= made' => pc'[Order[k]] \notin {"unborn", "start"}
               /\ k > made' /\ starting' # Order[k] => pc'[Order[k]] = "unborn"
    <3>1. Order[k] \in Interfaces  BY OrderIs
    <3>2. /\ k <= made => pc[Order[k]] \notin {"unborn", "start"}
          /\ k > made /\ starting # Order[k] => pc[Order[k]] = "unborn"
      BY DEF Steady, InOrderMade
    <3>3. CASE Order[k] = i
      <4>1. pc[Order[k]] # "unborn" /\ pc'[Order[k]] = "finish"  BY <1>4, <1>7, <3>3
      <4> QED  BY <1>3, <3>2, <4>1
    <3>4. CASE Order[k] # i
      <4>1. pc'[Order[k]] = pc[Order[k]]  BY <1>10, <3>1, <3>4
      <4> QED  BY <1>3, <3>2, <4>1
    <3> QED  BY <3>3, <3>4
  <2>4. phase' # "config" => made' = Len(Order)  BY <1>3 DEF Steady, InOrderMade
  <2> QED  BY <2>2, <2>3, <2>4 DEF InOrderMade
<1>16. QueueOK' /\ AstrayOK'  BY <1>3, QueueFrame DEF Steady, AstrayOK
<1>17. \A j \in 1..Len(tasks) :
          /\ tasks[j].do \in {"release", "unmount", "quit", "gone"}
          /\ tasks[j].do = "quit" => pc'[tasks[j].at] # "unborn"
          /\ tasks[j].do = "release" => j = 2
  BY <1>2, <1>4, <1>5
<1>18. \A b \in Nat : ~Has(i, b, "swap", Nobody)
  <2> SUFFICES ASSUME NEW b \in Nat, Has(i, b, "swap", Nobody) PROVE FALSE  OBVIOUS
  <2>1. InStack(i, b) /\ Deep(i, b).do = "swap"  BY DEF Has
  <2>2. PICK x : work[i] = <<x>> /\ x.do = "mount"
    <3>1. work[i] # <<>>  BY <2>1 DEF InStack
    <3> QED  BY <1>7, <3>1
  <2>3. Len(work[i]) = 1 /\ work[i][1] = x  BY <2>2
  <2>4. b = 0  BY <2>1, <2>3 DEF InStack
  <2> QED  BY <2>1, <2>2, <2>3, <2>4 DEF Deep
<1>19. QuitOK' /\ JoinOK' /\ SwapOK' /\ SignalOK' /\ UnlinkOK' /\ ExitOK'
  <2>1. \A j \in 1..Len(tasks) :
          /\ tasks[j].do \in {"release", "unmount", "quit", "gone", "next", "arm", "acquire"}
          /\ tasks[j].do = "quit" => pc'[tasks[j].at] # "unborn"
    BY <1>17
  <2>2. \A j \in 1..Len(tasks) : tasks[j].do # "next"  BY <1>17
  <2>3. \A b \in Nat : Has(i, b, "swap", Nobody) => b < 0  BY <1>18
  <2>4. \A j \in Interfaces : pc[j] # "unborn" => pc'[j] # "unborn"  BY <1>12
  <2>5. /\ QuitOK'
        /\ shut' = shut => JoinOK'
        /\ UNCHANGED <<listed, ender>> => SwapOK'
        /\ /\ UNCHANGED <<listed, ender>>
           /\ "icc" \in astray' => "icc" \in astray
           /\ Signalling' => Signalling
           => SignalOK'
        /\ sources' = sources => UnlinkOK'
        /\ exit' = exit /\ (phase' = "over" => phase = "over") => ExitOK'
    BY <1>0, <1>3, <1>7, <2>1, <2>2, <2>3, <2>4, PushRest
  <2> QED  BY <1>3, <1>9, <2>5
<1>20. Nexts' \subseteq Nexts
  <2>1. \A j \in 1..Len(tasks) : tasks[j].do # "next"  BY <1>17
  <2> QED  BY <1>0, <1>7, <1>9, <2>1, NextsAfter
<1>21. \A c \in Counters \ {i} : \A j \in 1..Len(tasks) : tasks[j] # [do |-> "release", at |-> c]
  <2> SUFFICES ASSUME NEW c \in Counters \ {i}, NEW j \in 1..Len(tasks),
                      tasks[j] = [do |-> "release", at |-> c]
               PROVE  FALSE
    OBVIOUS
  <2>1. tasks[j].do = "release" /\ tasks[j].at = c  OBVIOUS
  <2>2. j = 2  BY <1>17, <2>1
  <2> QED  BY <1>2, <1>5, <2>1, <2>2
<1>22. \E x \in Holders(i) : \E y : Holders(i)' \subseteq (Holders(i) \ {x}) \cup {y}
  <2> DEFINE x == <<"thread", Nobody, 0>>
             y == St(i, 0 + Len(tasks) - 2)
  <2>1. \A j \in 1..Len(tasks) : tasks[j] = [do |-> "release", at |-> i] => j = 2
    <3> SUFFICES ASSUME NEW j \in 1..Len(tasks), tasks[j] = [do |-> "release", at |-> i]
                 PROVE  j = 2
      OBVIOUS
    <3>1. tasks[j].do = "release"  OBVIOUS
    <3> QED  BY <1>17, <3>1
  <2>2. Releases(i)' \subseteq Releases(i) \cup {y}
    <3>1. 2 \in 1..Len(tasks)  BY <1>5
    <3> QED  BY <1>0, <1>7, <2>1, <3>1, OneRelease
  <2>3. Readers(i)' \subseteq Readers(i)  BY <1>14, KeepsReaders
  <2>4. /\ Holders(i) = If(count["icc"] > 0, "array") \cup If(Serving(i), "thread")
                         \cup Readers(i) \cup Releases(i)
        /\ Holders(i)' = If(count'["icc"] > 0, "array") \cup If(Serving(i)', "thread")
                         \cup Readers(i)' \cup Releases(i)'
    BY InterfaceIsOther DEF Holders, Fixed, Users, If
  <2>5. x \in If(Serving(i), "thread") /\ If(Serving(i)', "thread") = {}
    BY <1>7, <1>13 DEF If
  <2>6. x \notin If(count["icc"] > 0, "array") /\ x \notin Readers(i) /\ x \notin Releases(i)
    BY Tokens, ReleasesAre DEF If, Readers
  <2>7. If(count'["icc"] > 0, "array") = If(count["icc"] > 0, "array")  BY <1>3
  <2> HIDE DEF x, y
  <2> QED  BY <2>2, <2>3, <2>4, <2>5, <2>6, <2>7
<1>23. CountsOK'
  <2>1. i # "list" /\ i # "icc"  BY InterfaceIsOther
  <2>2. /\ count' = count /\ (pool' => pool) /\ (phase' = "config" => phase = "config")
        /\ sources' # "closed" => sources # "closed"
    BY <1>3
  <2>3. CountsOK  BY DEF Steady
  <2>4. Pushed(i, 0, tasks) /\ (Consuming' <=> Consuming) /\ Milder
    BY <1>7, <1>9, <1>12, <1>14 DEF Milder
  <2>5. OnlyReleases(tasks, i) /\ Swapped(i)  BY <1>21, <1>22 DEF OnlyReleases, Swapped
  <2> QED  BY <1>0, <1>20, <2>1, <2>2, <2>3, <2>4, <2>5, CallBalance
<1>24. \A j \in Interfaces : FuseStack(j)'  BY <1>8, <1>10
<1> QED  BY <1>9, <1>15, <1>16, <1>19, <1>23, <1>24 DEF Steady

LEMMA ConsumingIs ==
  ASSUME LifeTypeOK, Steady, Consuming
  PROVE  /\ phase = "loop" /\ \E r \in Reads : read[r] = "running"
         /\ work[Main] = <<[do |-> "acquire", at |-> "list"]>>
         /\ ~Signalling
<1>1. Task("acquire", "list") # <<>>  BY OneTask
<1>2. work[Main] = Task("acquire", "list")  BY DEF Consuming
<1>3. \A i : Task("acquire", "list") \notin Creating(i)  BY CreatingIs
<1>4. ~Signalling
  <2> DEFINE s == Task("acquire", "list")
             x == [do |-> "acquire", at |-> "icc"]
             y == [do |-> "next", at |-> 1]
             z == [do |-> "arm", at |-> Nobody]
  <2>1. Len(s) = 1  BY OneTask
  <2>2. Task("acquire", "icc") \o Task("next", 1) \o Task("arm", Nobody) = <<x, y, z>>
    BY ThreeTasks
  <2>3. work[Main] = s  BY <1>2
  <2> HIDE DEF s, x, y, z
  <2>4. Len(<<x, y, z>>) = 3  BY HeadsAre
  <2> QED  BY <2>1, <2>2, <2>3, <2>4 DEF Signalling
<1>5. phase = "loop" /\ \E r \in Reads : read[r] = "running"
  <2>1. \A i : work[Main] # Task("acquire", "listMem") \o Task("acquire", "running") \o Task("start", i)
               /\ work[Main] # Task("acquire", "running") \o Task("start", i)
               /\ work[Main] # Task("start", i)
    BY <1>2, <1>3 DEF Creating
  <2>2. MainStack /\ work[Main] # <<>>  BY <1>1, <1>2 DEF Steady
  <2> QED  BY <1>4, <2>1, <2>2, MainDoes
<1> QED  BY <1>2, <1>4, <1>5 DEF Task

\* if_consume's request takes the list, which a read that is running keeps.
LEMMA ListAcquireSteady ==
  ASSUME LifeTypeOK, LifeTypeOK', Steady, Count(Main), Due(Main, "acquire"), Consuming
  PROVE  Steady'
<1>0. Main \in Threads /\ Interfaces \subseteq Threads /\ Main \notin Interfaces
  BY ThreadsAre
<1> DEFINE x == [do |-> "acquire", at |-> "list"]
           d == Counter(Main)
<1>1. /\ phase = "loop" /\ work[Main] = <<x>> /\ ~Signalling
      /\ \E r \in Reads : read[r] = "running"
  BY ConsumingIs
<1>2. x.do = "acquire" /\ x.at = "list"  OBVIOUS
<1> HIDE DEF x
<1>3. Head(work[Main]) = x  BY <1>1, HeadsAre
<1>4. {"list", "listMem"} \subseteq Counters /\ count["list"] \in Nat /\ count["listMem"] \in Nat
  BY DEF Counters, LifeTypeOK
<1>5. d = ListCounter /\ d \in {"list", "listMem"}
  BY <1>2, <1>3, <1>4 DEF Counter, At, ListCounter
<1>6. \A j \in Interfaces : pc[j] \notin {"unborn", "start"}
  BY <1>1, BornInLoop DEF Steady
<1>7. count[d] > 0
  <2>1. CASE count["list"] > 0  BY <1>5, <2>1 DEF ListCounter
  <2>2. CASE ~(count["list"] > 0)
    <3>1. d = "listMem" /\ ListCounter = "listMem"  BY <1>5, <2>2 DEF ListCounter
    <3>2. PICK r \in Reads : read[r] = "running"  BY <1>1
    <3>3. from[r] \in Interfaces /\ from[r] \notin shut  BY <3>2, RunningKeeps
    <3> DEFINE y == <<"read", r, 0>>
               z == <<"interface", from[r], 0>>
    <3>4. y \in Running  BY <3>2 DEF Running
    <3>5. Listing(from[r])  BY <1>6, <3>3 DEF Listing
    <3>6. y \in Users("listMem") /\ z \in Users("listMem")
      BY <3>1, <3>3, <3>4, <3>5 DEF Users, ListUsers
    <3>7. y \in Holders("listMem") /\ z \in Holders("listMem")  BY <3>6 DEF Holders
    <3>8. y # z  BY Tokens
    <3>9. Enough("listMem")  BY <1>4 DEF Steady, CountsOK
    <3> HIDE DEF y, z
    <3>10. count["listMem"] + Debt("listMem") >= 2
      BY <1>4, <3>7, <3>8, <3>9, HeldIsPositive
    <3>11. Debt("listMem") \in {0, 1}  BY <1>4, CountTypes
    <3>12. \A a \in Nat, b \in {0, 1} : a + b >= 2 => a > 0  OBVIOUS
    <3> QED  BY <1>4, <3>1, <3>10, <3>11, <3>12
  <2> QED  BY <2>1, <2>2
<1>8. /\ count' = [count EXCEPT ![d] = count[d] + 1]
      /\ Call(Main, <<>>) /\ d \in Counters
      /\ UNCHANGED <<phase, made, starting, pc, quit, shut, inbox, read, from, listed,
                     sources, pool, ender, astray>> /\ exit' = exit
      /\ \A c \in Counters : /\ count[c] = 0 <=> count'[c] = 0
                             /\ count[c] > 0 <=> count'[c] > 0
  BY <1>0, <1>7, AcquireDoes
<1> HIDE DEF d
<1>9. work'[Main] = <<>> /\ \A u \in Threads \ {Main} : work'[u] = work[u]
  BY <1>0, <1>1, <1>8, SeqTasks, CallAlone
<1>10. NoCalls(work[Main]) /\ NoCalls(work'[Main])
  <2>1. x.do \notin CallDo \cup {"next"}  BY <1>2 DEF CallDo
  <2> QED  BY <1>1, <1>9, <2>1, NoCallsIn
<1>11. ~Consuming' /\ ~Signalling'
  <2>1. Task("acquire", "list") # <<>>  BY OneTask
  <2>2. Task("acquire", "icc") \o Task("next", 1) \o Task("arm", Nobody) # <<>>
    BY ThreeTasks, HeadsAre
  <2> QED  BY <1>9, <2>1, <2>2 DEF Consuming, Signalling
<1>12. MainStack'
  <2>1. \A b \in Nat : ~InStack(Main, b)'
    <3>1. Len(work'[Main]) = 0  BY <1>9
    <3> QED  BY <3>1 DEF InStack
  <2> QED  BY <1>1, <1>8, <2>1 DEF MainStack
<1>13. ASSUME NEW j \in Interfaces PROVE FuseStack(j)' /\ work'[j] = work[j]
  <2>1. work'[j] = work[j] /\ pc'[j] = pc[j] /\ FuseStack(j)  BY <1>0, <1>8, <1>9 DEF Steady
  <2> QED  BY <1>8, <2>1, FuseSame DEF Asked
<1>14. /\ QuitOK' /\ JoinOK' /\ SwapOK' /\ UnlinkOK' /\ ExitOK' /\ SignalOK'
       /\ \A c : Kept(c)
       /\ Nexts' \subseteq Nexts
  <2>1. \A u \in Threads : work'[u] = work[u] \/ (NoCalls(work[u]) /\ NoCalls(work'[u]))
    BY <1>9, <1>10
  <2> QED  BY <1>1, <1>8, <1>11, <2>1, QuietRest
<1>15. InOrderMade' /\ QueueOK' /\ AstrayOK'
  BY <1>8, <1>9, OrderFrame, QueueFrame DEF Steady, AstrayOK
<1>16. ASSUME NEW j \in Interfaces
       PROVE  /\ Active(j)' => Active(j)
              /\ Listing(j)' => Listing(j)
              /\ Serving(j)' => Serving(j)
              /\ Readers(j)' \subseteq Readers(j)
  <2>1. pc[j] # "unborn" /\ work'[j] = work[j]  BY <1>6, <1>13
  <2>2. \A r \in Reads : Underway(r)' /\ from'[r] = j => Underway(r) /\ from[r] = j
    BY <1>8, <2>1 DEF Underway
  <2>3. Readers(j)' \subseteq Readers(j)  BY <2>2, KeepsReaders
  <2> QED  BY <1>8, <2>1, <2>3 DEF Active, Listing, Serving
<1>17. Running' \subseteq Running  BY <1>8, KeepsRunningReads
<1>18. \A c \in Counters : Holders(c)' \subseteq Holders(c)
  <2>1. /\ Holders("icc")' \subseteq Holders("icc")
        /\ Holders("running")' \subseteq Holders("running")
        /\ Holders("loop")' \subseteq Holders("loop")
        /\ Holders("list")' \subseteq Holders("list")
        /\ Holders("listMem")' \subseteq Holders("listMem")
        /\ \A j \in Interfaces : Holders(j)' \subseteq Holders(j)
    BY <1>8, <1>14, <1>16, <1>17, AllKeep
  <2> QED  BY <2>1 DEF Counters
<1>19. ASSUME NEW c \in Counters
       PROVE  /\ (count[c] + Debt(c))' = count[c] + Debt(c)
              /\ count[c] + Debt(c) \in Nat
  <2>1. count[c] \in Nat /\ count[d] \in Nat  BY <1>8 DEF LifeTypeOK
  <2>2. Debt(c)' = 0  BY <1>11 DEF Debt
  <2>3. Debt(c) = IF c = d THEN 1 ELSE 0  BY <1>5 DEF Debt
  <2>4. count'[c] = IF c = d THEN count[c] + 1 ELSE count[c]  BY <1>8 DEF LifeTypeOK
  <2> QED  BY <2>1, <2>2, <2>3, <2>4
<1>20. CountsOK'
  <2>1. ASSUME NEW c \in Counters, c # "icc" \/ count'["icc"] > 0 PROVE Enough(c)'
    <3>1. "icc" \in Counters  BY DEF Counters
    <3>2. Enough(c)  BY <1>8, <2>1, <3>1 DEF Steady, CountsOK
    <3> QED  BY <1>18, <1>19, <3>2, FewerHolders
  <2>2. count'["icc"] = 0 => count'["running"] = 0 /\ Releases("icc")' = {}
    <3>1. {"icc", "running"} \subseteq Counters  BY DEF Counters
    <3>2. Kept("icc")  BY <1>14
    <3>3. count["icc"] = 0 => count["running"] = 0 /\ Releases("icc") = {}
      BY DEF Steady, CountsOK
    <3> QED  BY <1>8, <3>1, <3>2, <3>3 DEF Kept
  <2> QED  BY <2>1, <2>2 DEF CountsOK
<1> QED  BY <1>12, <1>13, <1>14, <1>15, <1>20 DEF Steady

LEMMA NextsOnMain ==
  ASSUME LifeTypeOK, Steady, NEW i \in Interfaces, NEW b \in Nat, InStack(i, b)
  PROVE  Deep(i, b).do # "next"
<1>0. i \in Threads /\ FuseStack(i)  BY ThreadsAre DEF Steady
<1>1. CASE pc[i] = "finish"
  BY <1>0, <1>1 DEF FuseStack, CallDo
<1>2. CASE pc[i] # "finish"
  <2>1. NoCalls(work[i])  BY <1>0, <1>2, FuseNoCalls
  <2>2. Len(work[i]) \in Nat  BY <1>0 DEF LifeTypeOK
  <2>3. Len(work[i]) - b \in 1..Len(work[i])  BY <2>2 DEF InStack
  <2> QED  BY <2>1, <2>3 DEF NoCalls, Deep
<1> QED  BY <1>1, <1>2

LEMMA SignallingIs ==
  ASSUME LifeTypeOK, Steady, Signalling
  PROVE  /\ phase = "loop" /\ ~Consuming
         /\ work[Main] = <<[do |-> "acquire", at |-> "icc"], [do |-> "next", at |-> 1],
                           [do |-> "arm", at |-> Nobody]>>
<1> DEFINE s == Task("acquire", "icc") \o Task("next", 1) \o Task("arm", Nobody)
           x == [do |-> "acquire", at |-> "icc"]
           y == [do |-> "next", at |-> 1]
           z == [do |-> "arm", at |-> Nobody]
<1>1. s = <<x, y, z>>  BY ThreeTasks
<1>2. work[Main] = s  BY DEF Signalling
<1>3. \A i : s \notin Creating(i)  BY CreatingIs
<1>4. Len(Task("acquire", "list")) = 1  BY OneTask
<1> HIDE DEF s, x, y, z
<1>5. ~Consuming
  <2>1. Len(work[Main]) = 3  BY <1>1, <1>2, HeadsAre
  <2> QED  BY <1>4, <2>1 DEF Consuming
<1>6. phase = "loop"
  <2>1. \A i : work[Main] # Task("acquire", "listMem") \o Task("acquire", "running") \o Task("start", i)
               /\ work[Main] # Task("acquire", "running") \o Task("start", i)
               /\ work[Main] # Task("start", i)
    BY <1>2, <1>3 DEF Creating
  <2>2. MainStack /\ work[Main] # <<>>  BY <1>1, <1>2, HeadsAre DEF Steady
  <2> QED  BY <1>5, <2>1, <2>2, MainDoes
<1> QED  BY <1>1, <1>2, <1>5, <1>6 DEF s, x, y, z

\* What user_quit's acquiring of the array leaves as it was, whether or not it is there
LEMMA ArrayAcquired ==
  ASSUME LifeTypeOK, LifeTypeOK', Steady, Signalling, Call(Main, <<>>),
         UNCHANGED <<phase, made, starting, pc, quit, shut, inbox, read, from, listed,
                     sources, pool, ender>>, exit' = exit,
         \A c \in Counters : /\ count[c] = 0 <=> count'[c] = 0
                             /\ count[c] > 0 <=> count'[c] > 0
  PROVE  /\ MainStack' /\ (\A i \in Interfaces : FuseStack(i)') /\ InOrderMade' /\ QueueOK'
         /\ QuitOK' /\ JoinOK' /\ SwapOK' /\ UnlinkOK' /\ ExitOK'
         /\ ~Signalling' /\ ~Consuming /\ ~Consuming'
         /\ Nexts' \subseteq {St(Main, 1)}
         /\ \A c \in Counters \ {"icc"} : Holders(c)' \subseteq Holders(c)
         /\ Fixed("icc")' \subseteq Fixed("icc") /\ Releases("icc")' \subseteq Releases("icc")
<1>0. Main \in Threads /\ Interfaces \subseteq Threads /\ Main \notin Interfaces
  BY ThreadsAre
<1> DEFINE x == [do |-> "acquire", at |-> "icc"]
           y == [do |-> "next", at |-> 1]
           z == [do |-> "arm", at |-> Nobody]
<1>1. phase = "loop" /\ ~Consuming /\ work[Main] = <<x, y, z>>  BY SignallingIs
<1>2. x.do = "acquire" /\ y.do = "next" /\ z.do = "arm"  OBVIOUS
<1>3. Task("acquire", "list") = <<[do |-> "acquire", at |-> "list"]>>  BY DEF Task
<1>4. Task("acquire", "icc") \o Task("next", 1) \o Task("arm", Nobody) = <<x, y, z>>
  BY ThreeTasks
<1> HIDE DEF x, y, z
<1>5. work'[Main] = <<y, z>> /\ \A u \in Threads \ {Main} : work'[u] = work[u]
  BY <1>0, <1>1, CallDrop
<1>6. Len(work[Main]) = 3 /\ Head(work[Main]) = x /\ work[Main] # <<>>  BY <1>1, HeadsAre
<1>7. Pushed(Main, 2, <<>>) /\ InStack(Main, 2) /\ Deep(Main, 2) = x
  <2>1. /\ Pushed(Main, Len(work[Main]) - 1, <<>>)
        /\ InStack(Main, Len(work[Main]) - 1)
        /\ Deep(Main, Len(work[Main]) - 1) = Head(work[Main])
    <3>1. work \in [Threads -> Seq(Tasks)]  BY DEF LifeTypeOK
    <3> QED  BY <1>0, <1>6, <3>1, SeqTasks, CallPushes
  <2>2. 3 - 1 = 2  OBVIOUS
  <2> QED  BY <1>6, <2>1, <2>2
<1>8. ~Consuming' /\ ~Signalling'
  <2>1. Len(work'[Main]) = 2  BY <1>5, HeadsAre
  <2>2. Len(<<[do |-> "acquire", at |-> "list"]>>) = 1 /\ Len(<<x, y, z>>) = 3  BY HeadsAre
  <2>3. work'[Main] # Task("acquire", "list")  BY <1>3, <2>1, <2>2
  <2>4. work'[Main] # Task("acquire", "icc") \o Task("next", 1) \o Task("arm", Nobody)
    BY <1>4, <2>1, <2>2
  <2> QED  BY <2>3, <2>4 DEF Consuming, Signalling
<1>9. /\ \A b \in Nat : InStack(Main, b)' => b = 0 \/ b = 1
      /\ Deep(Main, 0)' = z /\ Deep(Main, 1)' = y
  <2>1. Len(work'[Main]) = 2 /\ work'[Main][1] = y /\ work'[Main][2] = z  BY <1>5
  <2>2. 2 - 0 = 2 /\ 2 - 1 = 1  OBVIOUS
  <2>3. \A b : Deep(Main, b)' = work'[Main][2 - b]  BY <2>1 DEF Deep
  <2>4. \A b \in Nat : InStack(Main, b)' => b = 0 \/ b = 1  BY <2>1 DEF InStack
  <2> QED  BY <2>1, <2>2, <2>3, <2>4
<1>10. MainStack'
  <2>1. \A b \in Nat : InStack(Main, b)' => Deep(Main, b)'.do \in CallDo \cup {"next", "arm"}
    <3> SUFFICES ASSUME NEW b \in Nat, InStack(Main, b)'
                 PROVE  Deep(Main, b)'.do \in CallDo \cup {"next", "arm"}
      OBVIOUS
    <3>1. b = 0 \/ b = 1  BY <1>9
    <3> QED  BY <1>2, <1>9, <3>1
  <2> QED  BY <1>1, <2>1 DEF MainStack
<1>11. ASSUME NEW j \in Interfaces PROVE FuseStack(j)' /\ work'[j] = work[j]
  <2>1. work'[j] = work[j] /\ pc'[j] = pc[j] /\ FuseStack(j)  BY <1>0, <1>5 DEF Steady
  <2> QED  BY <2>1, FuseSame DEF Asked
<1>12. InOrderMade' /\ QueueOK'
  <2>1. starting = Nobody  BY <1>1 DEF Steady, InOrderMade
  <2> QED  BY <2>1, OrderFrame, QueueFrame DEF Steady
<1>13. \A j \in 1..Len(<<>>) : FALSE  OBVIOUS
<1>14. \A b \in Nat : Has(Main, b, "swap", Nobody) => b < 2
  <2> SUFFICES ASSUME NEW b \in Nat, Has(Main, b, "swap", Nobody) PROVE b < 2  OBVIOUS
  <2>1. b <= 2 /\ Deep(Main, b).do = "swap"  BY <1>6 DEF Has, InStack
  <2>2. b # 2  BY <1>2, <1>7, <2>1
  <2> QED  BY <2>1, <2>2
<1>15. {"icc", "running", "loop", "list", "listMem"} \cup Interfaces \subseteq Counters
  BY DEF Counters
<1>16. QuitOK' /\ JoinOK' /\ UnlinkOK' /\ ExitOK'
  <2> DEFINE none == <<>>
  <2>1. 1..Len(none) = {} /\ Pushed(Main, 2, none)  BY <1>7
  <2> HIDE DEF none
  <2>2. QuitOK'  BY <1>0, <2>1, QuitFrame DEF Steady
  <2>3. JoinOK'
    <3>1. \A j \in Interfaces : count[j] = 0 => count'[j] = 0  BY <1>15
    <3> QED  BY <1>0, <2>1, <3>1, JoinFrame DEF Steady
  <2>4. UnlinkOK'
    <3>1. count["list"] = 0 => count'["list"] = 0  BY <1>15
    <3> QED  BY <1>0, <2>1, <3>1, UnlinkFrame DEF Steady
  <2>5. ExitOK'
    <3>1. count["loop"] = 0 => count'["loop"] = 0  BY <1>15
    <3> QED  BY <1>0, <2>1, <3>1, ExitFrame DEF Steady
  <2> QED  BY <2>2, <2>3, <2>4, <2>5
<1>17. SwapOK'
  <2> DEFINE none == <<>>
  <2>1. 1..Len(none) = {} /\ Pushed(Main, 2, none)  BY <1>7
  <2> HIDE DEF none
  <2>2. count'["running"] = count["running"] \/ (count["running"] > 0 /\ count'["running"] > 0)
    <3>1. "running" \in Counters /\ count["running"] \in Nat  BY <1>15 DEF LifeTypeOK
    <3>2. /\ count["running"] = 0 <=> count'["running"] = 0
          /\ count["running"] > 0 <=> count'["running"] > 0
      BY <3>1
    <3> QED  BY <3>1, <3>2
  <2> QED  BY <1>0, <1>14, <2>1, <2>2, SwapFrame DEF Steady
<1>18. \A c : Releases(c)' \subseteq Releases(c)
  <2> TAKE c
  <2> DEFINE none == <<>>
  <2>1. 1..Len(none) = {} /\ Pushed(Main, 2, none)  BY <1>7
  <2> HIDE DEF none
  <2>2. \A j \in 1..Len(none) : none[j] # [do |-> "release", at |-> c]  BY <2>1
  <2>3. Releases(c)' \subseteq Releases(c) \ {St(Main, b) : b \in {e \in Nat : e >= 2}}
    BY <1>0, <2>1, <2>2, NoNewReleases
  <2> QED  BY <2>3
<1>19. Nexts' \subseteq {St(Main, 1)}
  <2> SUFFICES ASSUME NEW a \in Nexts' PROVE a = St(Main, 1)  OBVIOUS
  <2>1. PICK u \in Threads, b \in Nat : a = St(u, b) /\ InStack(u, b)' /\ Deep(u, b)'.do = "next"
    BY DEF Nexts, St
  <2>2. u = Main
    <3> SUFFICES ASSUME u \in Interfaces PROVE FALSE  BY ThreadsAre
    <3>1. InStack(u, b) /\ Deep(u, b).do = "next"
      BY <1>11, <2>1 DEF InStack, Deep
    <3> QED  BY <3>1, NextsOnMain
  <2>3. b = 1
    <3>1. b = 0 \/ b = 1  BY <1>9, <2>1, <2>2
    <3> QED  BY <1>2, <1>9, <2>1, <2>2, <3>1
  <2> QED  BY <2>1, <2>2, <2>3
<1>20. \A c \in Counters \ {"icc"} : Holders(c)' \subseteq Holders(c)
  <2>1. ASSUME NEW j \in Interfaces
        PROVE  /\ Active(j)' => Active(j)
               /\ Listing(j)' => Listing(j)
               /\ Serving(j)' => Serving(j)
               /\ Readers(j)' \subseteq Readers(j)
    <3>1. pc[j] # "unborn" /\ work'[j] = work[j]  BY <1>1, <1>11, BornInLoop DEF Steady
    <3>2. \A r \in Reads : Underway(r)' /\ from'[r] = j => Underway(r) /\ from[r] = j
      BY <3>1 DEF Underway
    <3>3. Readers(j)' \subseteq Readers(j)  BY <3>2, KeepsReaders
    <3> QED  BY <3>1, <3>3 DEF Active, Listing, Serving
  <2>2. Running' \subseteq Running  BY KeepsRunningReads
  <2>3. \A c : Kept(c)  BY <1>18 DEF Kept
  <2>4. \A c \in Counters : count'[c] > 0 <=> count[c] > 0  OBVIOUS
  <2>5. /\ Holders("running")' \subseteq Holders("running")
        /\ Holders("loop")' \subseteq Holders("loop")
        /\ Holders("list")' \subseteq Holders("list")
        /\ Holders("listMem")' \subseteq Holders("listMem")
        /\ \A j \in Interfaces : Holders(j)' \subseteq Holders(j)
    BY <2>1, <2>2, <2>3, <2>4, AllKeep
  <2> QED  BY <2>5 DEF Counters
<1>21. Fixed("icc")' \subseteq Fixed("icc")  BY <1>15 DEF Fixed, If
<1> QED  BY <1>1, <1>8, <1>10, <1>11, <1>12, <1>16, <1>17, <1>18, <1>19, <1>20, <1>21

\* user_quit takes the array, or goes on with one that is freed.
LEMMA ArrayAcquireSteady ==
  ASSUME LifeTypeOK, LifeTypeOK', Steady, Count(Main), Due(Main, "acquire"), Signalling
  PROVE  Steady'
<1>0. Main \in Threads /\ Main \notin Interfaces  BY ThreadsAre
<1> DEFINE x == [do |-> "acquire", at |-> "icc"]
           y == [do |-> "next", at |-> 1]
           z == [do |-> "arm", at |-> Nobody]
<1>1. work[Main] = <<x, y, z>> /\ ~Consuming  BY SignallingIs
<1>2. x.at = "icc"  OBVIOUS
<1>3. "icc" \in Counters /\ count["icc"] \in Nat /\ "running" \in Counters
  BY DEF Counters, LifeTypeOK
<1>4. Counter(Main) = "icc"
  <2> HIDE DEF x, y, z
  <2>1. Head(work[Main]) = x  BY <1>1, HeadsAre
  <2> QED  BY <1>2, <2>1 DEF Counter, At
<1>5. CASE count["icc"] > 0
  <2>1. /\ count' = [count EXCEPT !["icc"] = count["icc"] + 1]
        /\ Call(Main, <<>>)
        /\ UNCHANGED <<phase, made, starting, pc, quit, shut, inbox, read, from, listed,
                       sources, pool, ender, astray>> /\ exit' = exit
        /\ \A c \in Counters : /\ count[c] = 0 <=> count'[c] = 0
                               /\ count[c] > 0 <=> count'[c] > 0
    BY <1>0, <1>4, <1>5, AcquireDoes
  <2>2. /\ MainStack' /\ (\A i \in Interfaces : FuseStack(i)') /\ InOrderMade' /\ QueueOK'
        /\ QuitOK' /\ JoinOK' /\ SwapOK' /\ UnlinkOK' /\ ExitOK'
        /\ ~Signalling' /\ ~Consuming'
        /\ Nexts' \subseteq {St(Main, 1)}
        /\ \A c \in Counters \ {"icc"} : Holders(c)' \subseteq Holders(c)
        /\ Fixed("icc")' \subseteq Fixed("icc") /\ Releases("icc")' \subseteq Releases("icc")
    BY <2>1, ArrayAcquired
  <2>3. Holders("icc")' \subseteq Holders("icc") \cup {St(Main, 1)}
    <3>1. Users("icc")' \subseteq {St(Main, 1)}  BY <2>2 DEF Users
    <3> QED  BY <2>2, <3>1 DEF Holders
  <2>4. CountsOK'
    <3>1. Consuming' <=> Consuming  BY <1>1, <2>2
    <3> QED  BY <1>3, <1>5, <2>1, <2>2, <2>3, <3>1, Acquired DEF Steady
  <2>5. SignalOK'
    <3>1. count'["icc"] # 0  BY <1>3, <1>5, <2>1
    <3>2. "icc" \in astray' => ender' \in Interfaces  BY <2>1 DEF Steady, SignalOK
    <3> QED  BY <2>2, <3>1, <3>2 DEF SignalOK
  <2>6. AstrayOK'  BY <2>1 DEF Steady, AstrayOK
  <2> QED  BY <2>2, <2>4, <2>5, <2>6 DEF Steady
<1>6. CASE count["icc"] = 0
  <2>1. Counts(Main)  BY DEF Counts, Acquires
  <2>2. /\ count' = count /\ Call(Main, <<>>) /\ astray' = astray \cup {"icc"}
        /\ UNCHANGED <<phase, made, starting, pc, quit, shut, inbox, read, from, listed,
                       sources, pool, ender>> /\ exit' = exit
    <3>1. count' = [count EXCEPT !["icc"] = 0]
      <4>1. Counted(Main) = 0  BY <1>0, <1>4, <1>6, <2>1, CounterTyped
      <4> QED  BY <1>4, <4>1 DEF Count
    <3>2. count' = count  BY <1>3, <1>6, <3>1 DEF LifeTypeOK
    <3>3. Call(Main, <<>>) /\ astray' = astray \cup {"icc"}
      BY <1>4, <1>6 DEF Count, Use
    <3> QED
      BY <3>2, <3>3 DEF Count, runVars, fiVars, readVars, endVars, pastVars
  <2>3. /\ MainStack' /\ (\A i \in Interfaces : FuseStack(i)') /\ InOrderMade' /\ QueueOK'
        /\ QuitOK' /\ JoinOK' /\ SwapOK' /\ UnlinkOK' /\ ExitOK'
        /\ ~Signalling' /\ ~Consuming'
        /\ \A c \in Counters \ {"icc"} : Holders(c)' \subseteq Holders(c)
        /\ Releases("icc")' \subseteq Releases("icc")
    <3>1. \A c \in Counters : /\ count[c] = 0 <=> count'[c] = 0
                              /\ count[c] > 0 <=> count'[c] > 0
      BY <2>2
    <3> QED  BY <2>2, <3>1, ArrayAcquired
  <2>4. count["running"] = 0 /\ Releases("icc") = {}  BY <1>6 DEF Steady, CountsOK
  <2>5. ender \in Interfaces
    <3>1. listed \/ ender \in Interfaces  BY DEF Steady, SignalOK
    <3>2. ~listed
      <4> SUFFICES ASSUME listed PROVE FALSE  OBVIOUS
      <4>1. \E t \in Threads, b \in Nat : Has(t, b, "swap", Nobody)
        <5>1. ~(count["running"] > 0)  BY <2>4
        <5> QED  BY <5>1 DEF Steady, SwapOK
      <4>2. PICK t \in Threads, b \in Nat : Has(t, b, "swap", Nobody)  BY <4>1
      <4>3. b > 0 /\ Has(t, b - 1, "release", "icc")  BY <4>2 DEF Steady, SwapOK
      <4>4. b - 1 \in Nat  BY <4>3
      <4>5. St(t, b - 1) \in Releases("icc")  BY <4>3, <4>4, ReleasesAre
      <4> QED  BY <2>4, <4>5
    <3> QED  BY <3>1, <3>2
  <2>6. SignalOK'
    <3>1. ender' \in Interfaces  BY <2>2, <2>5
    <3> QED  BY <2>3, <3>1 DEF SignalOK
  <2>7. AstrayOK'  BY <2>2 DEF Steady, AstrayOK
  <2>8. CountsOK'
    <3>1. ASSUME NEW c \in Counters, c # "icc" PROVE Enough(c)'
      <4>1. Enough(c)  BY <3>1 DEF Steady, CountsOK
      <4>2. Debt(c)' = Debt(c)  BY <1>1, <2>3 DEF Debt
      <4>3. (count[c] + Debt(c))' = count[c] + Debt(c)  BY <2>2, <4>2
      <4>4. count[c] + Debt(c) \in Nat  BY CountTypes
      <4>5. Holders(c)' \subseteq Holders(c)  BY <2>3, <3>1
      <4> QED  BY <4>1, <4>3, <4>4, <4>5, FewerHolders
    <3>2. ~(count'["icc"] > 0)  BY <1>6, <2>2
    <3>3. count'["running"] = 0 /\ Releases("icc")' = {}  BY <2>2, <2>3, <2>4
    <3> QED  BY <3>1, <3>2, <3>3 DEF CountsOK
  <2> QED  BY <2>3, <2>6, <2>7, <2>8 DEF Steady
<1> QED  BY <1>3, <1>5, <1>6

LEMMA AcquireSteady ==
  ASSUME LifeTypeOK, LifeTypeOK', Steady, NEW t \in Threads, Count(t), Due(t, "acquire")
  PROVE  Steady'
<1>1. CASE t = Main
  BY <1>1, ConfigAcquireSteady, ListAcquireSteady, ArrayAcquireSteady
<1>2. CASE t # Main
  BY <1>2, ThreadsAre, FuseAcquireSteady
<1> QED  BY <1>1, <1>2

-----------------------------------------------------------------------------
(* Handlers of the main thread                                              *)

LEMMA ListedHasArray ==
  ASSUME LifeTypeOK, Steady, listed
  PROVE  count["icc"] > 0
<1>1. count["icc"] \in Nat /\ count["running"] \in Nat  BY DEF LifeTypeOK, Counters
<1> SUFFICES ASSUME count["icc"] = 0 PROVE FALSE  BY <1>1
<1>2. count["running"] = 0 /\ Releases("icc") = {}  BY DEF Steady, CountsOK
<1>3. \E t \in Threads, b \in Nat : Has(t, b, "swap", Nobody)
  <2>1. ~(count["running"] > 0)  BY <1>2
  <2> QED  BY <2>1 DEF Steady, SwapOK
<1>4. PICK t \in Threads, b \in Nat : Has(t, b, "swap", Nobody)  BY <1>3
<1>5. b > 0 /\ Has(t, b - 1, "release", "icc")  BY <1>4 DEF Steady, SwapOK
<1>6. b - 1 \in Nat  BY <1>5
<1>7. St(t, b - 1) \in Releases("icc")  BY <1>5, <1>6, ReleasesAre
<1> QED  BY <1>2, <1>7

LEMMA SignalTasks ==
  LET s == Task("acquire", "icc") \o Task("next", 1) \o Task("arm", Nobody)
  IN s = <<[do |-> "acquire", at |-> "icc"], [do |-> "next", at |-> 1],
           [do |-> "arm", at |-> Nobody]>> /\ s[1].do = "acquire"
<1> DEFINE x == [do |-> "acquire", at |-> "icc"]
           y == [do |-> "next", at |-> 1]
           z == [do |-> "arm", at |-> Nobody]
<1>1. Task("acquire", "icc") \o Task("next", 1) \o Task("arm", Nobody) = <<x, y, z>>
  BY ThreeTasks
<1>2. x.do = "acquire"  OBVIOUS
<1> HIDE DEF x, y, z
<1>3. <<x, y, z>>[1] = x  OBVIOUS
<1>4. (Task("acquire", "icc") \o Task("next", 1) \o Task("arm", Nobody))[1] = x
  BY <1>1, <1>3
<1> QED  BY <1>1, <1>2, <1>4 DEF x, y, z

LEMMA AllMade ==
  ASSUME LifeTypeOK, InOrderMade, made = Len(Order), starting = Nobody
  PROVE  \A i \in Interfaces : pc[i] \notin {"unborn", "start"}
<1> SUFFICES ASSUME NEW i \in Interfaces PROVE pc[i] \notin {"unborn", "start"}  OBVIOUS
<1>1. PICK k \in 1..Len(Order) : i = Order[k]  BY OrderIs
<1>2. k \in DOMAIN Order /\ k <= made  BY OrderIs
<1> QED  BY <1>1, <1>2 DEF InOrderMade

\* A handler starts: what it leaves alone
LEMMA Handled ==
  ASSUME LifeTypeOK, Steady, work[Main] = <<>>, NEW tasks \in Seq(Tasks), Handle(tasks),
         phase \in {"config", "loop"}, phase' = "loop", starting = Nobody, made = Len(Order),
         UNCHANGED <<made, starting, pc, quit, shut, from>>,
         \A r \in Reads : read[r] = "looked" <=> read'[r] = "looked"
  PROVE  /\ Pushed(Main, 0, tasks)
         /\ work'[Main] = tasks /\ \A u \in Threads \ {Main} : work'[u] = work[u]
         /\ \A i \in Interfaces : FuseStack(i)' /\ pc[i] # "unborn"
         /\ InOrderMade' /\ ~Consuming /\ ~Signalling
         /\ \A i \in Interfaces : /\ Active(i)' => Active(i)
                                  /\ Listing(i)' => Listing(i)
                                  /\ Serving(i)' => Serving(i)
         /\ \A r \in Reads : read'[r] = read[r] => (Underway(r)' => Underway(r))
         /\ \A b \in Nat : ~InStack(Main, b)
         /\ Nexts = {}
<1>0. Main \in Threads /\ Interfaces \subseteq Threads /\ Main \notin Interfaces
  BY ThreadsAre
<1>1. work \in [Threads -> Seq(Tasks)]  BY DEF LifeTypeOK
<1>2. Pushed(Main, 0, tasks)  BY <1>0, <1>1, HandlePushes DEF Handle
<1>3. work'[Main] = tasks /\ \A u \in Threads \ {Main} : work'[u] = work[u]
  BY <1>0, <1>1 DEF Handle
<1>4. \A i \in Interfaces : pc[i] \notin {"unborn", "start"}  BY AllMade DEF Steady
<1>5. ASSUME NEW i \in Interfaces PROVE FuseStack(i)'
  <2>1. work'[i] = work[i] /\ pc'[i] = pc[i] /\ FuseStack(i)  BY <1>0, <1>3 DEF Steady
  <2> QED  BY <2>1, FuseSame DEF Asked
<1>6. ~Consuming /\ ~Signalling
  <2>1. Task("acquire", "list") # <<>>  BY OneTask
  <2>2. Task("acquire", "icc") \o Task("next", 1) \o Task("arm", Nobody) # <<>>
    BY ThreeTasks, HeadsAre
  <2> QED  BY <2>1, <2>2 DEF Consuming, Signalling
<1>7. InOrderMade'
  BY DEF Steady, InOrderMade
<1>8. \A i \in Interfaces : /\ Active(i)' => Active(i)
                            /\ Listing(i)' => Listing(i)
                            /\ Serving(i)' => Serving(i)
  BY <1>4 DEF Active, Listing, Serving
<1>9. ASSUME NEW r \in Reads, read'[r] = read[r], Underway(r)' PROVE Underway(r)
  <2>1. read[r] = "looked" => from[r] \in Interfaces  BY DEF Steady, QueueOK
  <2>2. read[r] = "looked" => work'[from[r]] = work[from[r]]  BY <1>0, <1>3, <2>1
  <2> QED  BY <1>9, <2>2 DEF Underway
<1>10. \A b \in Nat : ~InStack(Main, b)
  <2>1. Len(work[Main]) = 0  OBVIOUS
  <2> QED  BY <2>1 DEF InStack
<1>11. Nexts = {}
  <2> SUFFICES ASSUME NEW a \in Nexts PROVE FALSE  OBVIOUS
  <2>1. PICK u \in Threads, b \in Nat : a = St(u, b) /\ InStack(u, b) /\ Deep(u, b).do = "next"
    BY NextsAre
  <2>2. u \in Interfaces  BY <1>10, <2>1, ThreadsAre
  <2> QED  BY <2>1, <2>2, NextsOnMain
<1> QED  BY <1>2, <1>3, <1>4, <1>5, <1>6, <1>7, <1>8, <1>9, <1>10, <1>11

\* What it calls is an ordinary stack of tasks.
LEMMA HandledStack ==
  ASSUME LifeTypeOK, phase' = "loop", NEW tasks, Pushed(Main, 0, tasks), work'[Main] = tasks,
         tasks # <<>>, \A j \in 1..Len(tasks) : tasks[j].do \in CallDo \cup {"next", "arm"}
  PROVE  MainStack' /\ ~Consuming' /\ ~Signalling'
<1>1. \A b \in Nat : InStack(Main, b)' => Deep(Main, b)'.do \in CallDo \cup {"next", "arm"}
  <2> SUFFICES ASSUME NEW b \in Nat, InStack(Main, b)'
               PROVE  Deep(Main, b)'.do \in CallDo \cup {"next", "arm"}
    OBVIOUS
  <2>1. Main \in Threads  BY ThreadsAre
  <2>2. \E j \in 1..Len(tasks) : Deep(Main, b)' = tasks[j]
    <3>1. \/ (Main # Main \/ b < 0) /\ InStack(Main, b) /\ Deep(Main, b)' = Deep(Main, b)
          \/ Main = Main /\ \E j \in 1..Len(tasks) : /\ b = 0 + Len(tasks) - j
                                                     /\ Deep(Main, b)' = tasks[j]
      BY <2>1, DeepAfter
    <3>2. ~(b < 0)  OBVIOUS
    <3> QED  BY <3>1, <3>2
  <2> QED  BY <2>2
<1>2. 1 \in 1..Len(tasks) /\ tasks[1].do \in CallDo \cup {"next", "arm"}
  <2>1. tasks \in Seq(Tasks)  BY DEF Pushed
  <2>2. Len(tasks) \in Nat /\ Len(tasks) # 0  BY <2>1
  <2> QED  BY <2>2
<1>3. Task("acquire", "list")[1].do = "acquire"
  <2>1. Task("acquire", "list")[1] = [do |-> "acquire", at |-> "list"]  BY OneTask
  <2> QED  BY <2>1
<1>4. (Task("acquire", "icc") \o Task("next", 1) \o Task("arm", Nobody))[1].do = "acquire"
  BY SignalTasks
<1>5. "acquire" \notin CallDo \cup {"next", "arm"}  BY DEF CallDo
<1>6. work'[Main] # Task("acquire", "list")  BY <1>2, <1>3, <1>5
<1>7. work'[Main] # Task("acquire", "icc") \o Task("next", 1) \o Task("arm", Nobody)
  BY <1>2, <1>4, <1>5
<1>8. ~Consuming' /\ ~Signalling'  BY <1>6, <1>7 DEF Consuming, Signalling
<1> QED  BY <1>1, <1>8 DEF MainStack

\* run, the sources or the pool give up their reference: Fixed to the stack of Main
LEMMA GivesUp ==
  ASSUME LifeTypeOK, LifeTypeOK', Steady, work[Main] = <<>>, NEW c, c \in {"running", "listMem", "loop"},
         Handle(Task("release", c)), NEW w, w \in {"run", "sources", "pool"},
         Fixed(c)' \subseteq Fixed(c) \ {<<w, Nobody, 0>>}, <<w, Nobody, 0>> \in Fixed(c),
         phase \in {"config", "loop"}, phase' = "loop", starting = Nobody, made = Len(Order),
         pool' => pool, sources' # "closed" => sources # "closed",
         UNCHANGED <<made, starting, pc, quit, shut, from, inbox, read, count, listed, ender,
                     astray>>, exit' = exit,
         sources' = sources \/ (sources # "open" /\ sources' # "open")
  PROVE  Steady'
<1>0. Main \in Threads /\ {"running", "listMem", "loop"} \subseteq Counters
  BY ThreadsAre DEF Counters
<1> DEFINE r == [do |-> "release", at |-> c]
           tasks == <<r>>
           x == <<w, Nobody, 0>>
<1>1. r \in Tasks /\ r.do = "release" /\ r.at = c  BY <1>0, TasksAre
<1>2. Handle(tasks)  BY DEF Task
<1> HIDE DEF r
<1>3. tasks \in Seq(Tasks) /\ tasks # <<>>  BY <1>1, SeqTasks
<1>4. 1..Len(tasks) = {1} /\ Len(tasks) = 1 /\ tasks[1] = r  OBVIOUS
<1> HIDE DEF tasks
<1>5. /\ Pushed(Main, 0, tasks)
      /\ work'[Main] = tasks /\ \A u \in Threads \ {Main} : work'[u] = work[u]
      /\ \A i \in Interfaces : FuseStack(i)' /\ pc[i] # "unborn"
      /\ InOrderMade' /\ ~Consuming /\ ~Signalling
      /\ \A i \in Interfaces : /\ Active(i)' => Active(i)
                               /\ Listing(i)' => Listing(i)
                               /\ Serving(i)' => Serving(i)
      /\ \A q \in Reads : Underway(q)' => Underway(q)
      /\ \A b \in Nat : ~InStack(Main, b)
      /\ Nexts = {}
  BY <1>2, <1>3, Handled
<1>6. \A j \in 1..Len(tasks) : tasks[j].do = "release" /\ tasks[j].at = c
  BY <1>1, <1>4
<1>7. MainStack' /\ ~Consuming' /\ ~Signalling'
  <2>1. \A j \in 1..Len(tasks) : tasks[j].do \in CallDo \cup {"next", "arm"}
    BY <1>6 DEF CallDo
  <2> QED  BY <1>3, <1>5, <2>1, HandledStack
<1>8. QueueOK' /\ AstrayOK'  BY QueueFrame DEF Steady, AstrayOK
<1>9. \A b \in Nat : Has(Main, b, "swap", Nobody) => b < 0  BY <1>5 DEF Has
<1>10. /\ QuitOK' /\ JoinOK' /\ SwapOK' /\ SignalOK' /\ ExitOK'
       /\ sources' = sources => UnlinkOK'
  <2>1. \A i \in Interfaces : pc[i] # "unborn" => pc'[i] # "unborn"  OBVIOUS
  <2>2. phase' # "over"  OBVIOUS
  <2> QED  BY <1>0, <1>5, <1>6, <1>7, <1>9, <2>1, <2>2, PushRest
<1>11. UnlinkOK'
  <2> SUFFICES ASSUME sources # "open", sources' # "open" PROVE UnlinkOK'  BY <1>10
  <2>1. count["list"] = 0  BY DEF Steady, UnlinkOK
  <2>2. ASSUME NEW u \in Threads, NEW b \in Nat, Has(u, b, "unlink", Nobody)' PROVE FALSE
    <3>1. \A j \in 1..Len(tasks) : tasks[j] # [do |-> "unlink", at |-> Nobody]  BY <1>6
    <3>2. \/ (u # Main \/ b < 0) /\ Has(u, b, "unlink", Nobody)
          \/ /\ u = Main
             /\ \E j \in 1..Len(tasks) : /\ b = 0 + Len(tasks) - j
                                         /\ tasks[j] = [do |-> "unlink", at |-> Nobody]
      BY <1>0, <1>5, <2>2, HasAfter
    <3>3. Has(u, b, "unlink", Nobody)  BY <3>1, <3>2
    <3> QED  BY <3>3 DEF Steady, UnlinkOK
  <2> QED  BY <2>1, <2>2 DEF UnlinkOK
<1>12. Nexts' \subseteq Nexts
  <2>1. \A j \in 1..Len(tasks) : tasks[j].do # "next"  BY <1>6
  <2> QED  BY <1>0, <1>5, <1>7, <2>1, NextsAfter
<1>13. \A d \in Counters \ {c} : \A j \in 1..Len(tasks) : tasks[j] # [do |-> "release", at |-> d]
  <2> SUFFICES ASSUME NEW d \in Counters \ {c}, NEW j \in 1..Len(tasks),
                      tasks[j] = [do |-> "release", at |-> d]
               PROVE  FALSE
    OBVIOUS
  <2>1. tasks[j].at = d  OBVIOUS
  <2> QED  BY <1>6, <2>1
<1>14. \A q \in Reads : /\ Underway(q)' => Underway(q) /\ from'[q] = from[q]
                        /\ read'[q] = "running" => read[q] = "running"
  BY <1>5
<1>15. x \in Holders(c) /\ \E y : Holders(c)' \subseteq (Holders(c) \ {x}) \cup {y}
  <2> DEFINE y == St(Main, 0 + Len(tasks) - 1)
  <2>1. Releases(c)' \subseteq Releases(c) \cup {y}
    <3>1. 1 \in 1..Len(tasks) /\ \A j \in 1..Len(tasks) : tasks[j] = r => j = 1
      BY <1>4
    <3> QED  BY <1>0, <1>5, <3>1, OneRelease DEF r
  <2>2. Users(c)' \subseteq Users(c) /\ x \notin Users(c)
    <3>1. Running' \subseteq Running  BY KeepsRunningReads
    <3>2. "list" # c /\ "list" \in Counters  BY DEF Counters
    <3>3. Releases("list")' \subseteq Releases("list")
      <4>1. \A j \in 1..Len(tasks) : tasks[j] # [do |-> "release", at |-> "list"]
        BY <1>13, <3>2
      <4> QED  BY <1>0, <1>5, <4>1, NoNewReleases
    <3>4. \A e : ListUsers(e)' \subseteq ListUsers(e)
      BY <3>1, <3>3 DEF ListUsers, ListCounter
    <3>5. \A e : x \notin ListUsers(e)
      BY ReleasesAre, Tokens DEF ListUsers, Running
    <3>6. CASE c = "running"  BY <1>5, <3>6, Tokens DEF Users
    <3>7. CASE c = "loop"  BY <3>7 DEF Users
    <3>8. CASE c = "listMem"  BY <1>5, <3>4, <3>5, <3>8, Tokens DEF Users
    <3> QED  BY <3>6, <3>7, <3>8
  <2>3. x \notin Releases(c)  BY ReleasesAre, Tokens
  <2> HIDE DEF x, y
  <2>4. Holders(c) = Fixed(c) \cup Users(c) \cup Releases(c)
        /\ Holders(c)' = Fixed(c)' \cup Users(c)' \cup Releases(c)'
    BY DEF Holders
  <2>5. Fixed(c)' \subseteq Fixed(c) \ {x} /\ x \in Fixed(c)  BY DEF x
  <2>6. Holders(c)' \subseteq (Holders(c) \ {x}) \cup {y}
    BY <2>1, <2>2, <2>3, <2>4, <2>5
  <2> QED  BY <2>4, <2>5, <2>6
<1>16. CountsOK'
  <2>1. Swapped(c)  BY <1>15 DEF Swapped
  <2>2. Milder  BY <1>5, <1>14 DEF Milder
  <2>3. OnlyReleases(tasks, c)  BY <1>13 DEF OnlyReleases
  <2>4. CountsOK /\ (Consuming' <=> Consuming) /\ c # "list" /\ c # "icc" /\ phase' # "config"
    BY <1>5, <1>7 DEF Steady
  <2> QED  BY <1>0, <1>5, <1>12, <2>1, <2>2, <2>3, <2>4, CallBalance
<1> QED  BY <1>5, <1>7, <1>8, <1>10, <1>11, <1>16 DEF Steady

LEMMA HandlerSteady ==
  ASSUME LifeTypeOK, LifeTypeOK', Steady, StartLoop \/ CloseSources \/ EndPool
  PROVE  Steady'
<1>1. CASE StartLoop
  <2>1. /\ work[Main] = <<>> /\ Handle(Task("release", "running"))
        /\ phase = "config" /\ phase' = "loop" /\ starting = Nobody /\ made = Len(Order)
        /\ UNCHANGED <<made, starting, pc, quit, shut, from, inbox, read, count, listed, ender,
                       astray, sources, pool>> /\ exit' = exit
    BY <1>1 DEF StartLoop, Configuring, fiVars, readVars, endVars, pastVars
  <2>2. /\ Fixed("running")' \subseteq Fixed("running") \ {<<"run", Nobody, 0>>}
        /\ <<"run", Nobody, 0>> \in Fixed("running")
    BY <2>1 DEF Fixed, If
  <2> QED  BY <2>1, <2>2, GivesUp
<1>2. ASSUME Idle PROVE phase = "loop" /\ starting = Nobody /\ made = Len(Order) /\ work[Main] = <<>>
  BY <1>2 DEF Idle, Steady, InOrderMade
<1>3. CASE CloseSources
  <2>1. /\ Idle /\ Handle(Task("release", "listMem"))
        /\ sources = "closing" /\ sources' = "closed"
        /\ UNCHANGED <<phase, made, starting, pc, quit, shut, from, inbox, read, count, listed, ender,
                       astray, pool>> /\ exit' = exit
    BY <1>3 DEF CloseSources, runVars, fiVars, readVars, pastVars
  <2>2. /\ Fixed("listMem")' \subseteq Fixed("listMem") \ {<<"sources", Nobody, 0>>}
        /\ <<"sources", Nobody, 0>> \in Fixed("listMem")
    <3>1. <<"own", Nobody, 0>> # <<"sources", Nobody, 0>>  OBVIOUS
    <3> QED  BY <2>1, <3>1 DEF Fixed, If
  <2> QED  BY <1>2, <2>1, <2>2, GivesUp
<1>4. CASE EndPool
  <2>1. /\ Idle /\ Handle(Task("release", "loop"))
        /\ pool /\ pool' = FALSE
        /\ UNCHANGED <<phase, made, starting, pc, quit, shut, from, inbox, read, count, listed, ender,
                       astray, sources>> /\ exit' = exit
    BY <1>4 DEF EndPool, runVars, fiVars, readVars, pastVars
  <2>2. /\ Fixed("loop")' \subseteq Fixed("loop") \ {<<"pool", Nobody, 0>>}
        /\ <<"pool", Nobody, 0>> \in Fixed("loop")
    <3>1. /\ <<"own", Nobody, 0>> # <<"pool", Nobody, 0>>
          /\ <<"list", Nobody, 0>> # <<"pool", Nobody, 0>>
      OBVIOUS
    <3> QED  BY <2>1, <3>1 DEF Fixed, If
  <2> QED  BY <1>2, <2>1, <2>2, GivesUp
<1> QED  BY <1>1, <1>3, <1>4

\* user_quit: while the array is the one in use, it has not been freed.
LEMMA SignalSteady ==
  ASSUME LifeTypeOK, LifeTypeOK', Steady, Signal
  PROVE  Steady'
<1>0. Main \in Threads  BY ThreadsAre
<1> DEFINE x == [do |-> "acquire", at |-> "icc"]
           y == [do |-> "next", at |-> 1]
           z == [do |-> "arm", at |-> Nobody]
<1>1. Task("acquire", "icc") \o Task("next", 1) \o Task("arm", Nobody) = <<x, y, z>>
  BY SignalTasks
<1>2. PICK tasks : tasks = (IF listed THEN Task("acquire", "icc") \o Task("next", 1) ELSE <<>>)
                            \o Task("arm", Nobody)
  OBVIOUS
<1>3. Task("arm", Nobody) = <<z>> /\ Task("arm", Nobody) \in Seq({z})  BY DEF Task
<1>4. <<>> \o Task("arm", Nobody) = <<z>>
  <2> HIDE DEF z
  <2> QED  BY <1>3
<1>5. IF listed THEN tasks = <<x, y, z>> ELSE tasks = <<z>>
  <2>1. CASE listed  BY <1>1, <1>2, <2>1
  <2>2. CASE ~listed  BY <1>2, <1>4, <2>2
  <2> QED  BY <2>1, <2>2
<1>6. /\ Idle /\ Handle(tasks)
      /\ UNCHANGED <<phase, made, starting, pc, quit, shut, from, inbox, read, count, listed, ender,
                     astray, sources, pool>> /\ exit' = exit
  BY <1>2 DEF Signal, runVars, fiVars, readVars, pastVars
<1>7. /\ phase = "loop" /\ starting = Nobody /\ made = Len(Order) /\ work[Main] = <<>>
  BY <1>6 DEF Idle, Steady, InOrderMade
<1>8. x \in Tasks /\ y \in Tasks /\ z \in Tasks
  <2>1. "icc" \in Counters /\ 1 \in 1..Len(Order) + 1  BY OrderIs DEF Counters
  <2> QED  BY <2>1, TasksAre
<1>9. x.do = "acquire" /\ y.do = "next" /\ z.do = "arm"  OBVIOUS
<1> HIDE DEF x, y, z
<1>10. tasks \in Seq(Tasks)  BY <1>5, <1>8, SeqTasks
<1>11. /\ Pushed(Main, 0, tasks)
       /\ work'[Main] = tasks /\ \A u \in Threads \ {Main} : work'[u] = work[u]
       /\ \A i \in Interfaces : FuseStack(i)' /\ pc[i] # "unborn"
       /\ InOrderMade' /\ ~Consuming /\ ~Signalling
       /\ \A i \in Interfaces : /\ Active(i)' => Active(i)
                                /\ Listing(i)' => Listing(i)
                                /\ Serving(i)' => Serving(i)
       /\ \A q \in Reads : Underway(q)' => Underway(q)
       /\ \A b \in Nat : ~InStack(Main, b)
       /\ Nexts = {}
  BY <1>6, <1>7, <1>10, Handled
<1>12. \A j \in 1..Len(tasks) : tasks[j].do \in {"acquire", "next", "arm"}
                               /\ (~listed => tasks[j].do = "arm")
  <2>1. CASE listed
    <3>1. tasks = <<x, y, z>>  BY <1>5, <2>1
    <3>2. 1..Len(tasks) = {1, 2, 3} /\ tasks[1] = x /\ tasks[2] = y /\ tasks[3] = z  BY <3>1
    <3> QED  BY <1>9, <2>1, <3>2
  <2>2. CASE ~listed
    <3>1. tasks = <<z>>  BY <1>5, <2>2
    <3>2. 1..Len(tasks) = {1} /\ tasks[1] = z  BY <3>1
    <3> QED  BY <1>9, <2>2, <3>2
  <2> QED  BY <2>1, <2>2
<1>13. MainStack' /\ ~Consuming' /\ (Signalling' <=> listed)
  <2>1. CASE listed
    <3>1. work'[Main] = <<x, y, z>>  BY <1>5, <1>11, <2>1
    <3>2. Signalling'  BY <1>1, <3>1 DEF Signalling
    <3>3. Len(work'[Main]) = 3  BY <3>1, HeadsAre
    <3>4. Len(Task("acquire", "list")) = 1  BY OneTask
    <3>5. ~Consuming'  BY <3>3, <3>4 DEF Consuming
    <3> QED  BY <1>6, <1>7, <2>1, <3>2, <3>5 DEF MainStack
  <2>2. CASE ~listed
    <3>1. \A j \in 1..Len(tasks) : tasks[j].do \in CallDo \cup {"next", "arm"}
      BY <1>12, <2>2
    <3>2. tasks # <<>>  BY <1>5, <2>2, HeadsAre
    <3> QED  BY <1>6, <1>7, <1>11, <2>2, <3>1, <3>2, HandledStack
  <2> QED  BY <2>1, <2>2
<1>14. QueueOK' /\ AstrayOK'  BY <1>6, QueueFrame DEF Steady, AstrayOK
<1>15. \A b \in Nat : Has(Main, b, "swap", Nobody) => b < 0  BY <1>11 DEF Has
<1>16. QuitOK' /\ JoinOK' /\ SwapOK' /\ UnlinkOK' /\ ExitOK'
  <2>1. \A i \in Interfaces : pc[i] # "unborn" => pc'[i] # "unborn"  BY <1>6
  <2> QED  BY <1>0, <1>6, <1>11, <1>12, <1>15, <2>1, PushRest
<1>17. SignalOK'
  <2>1. ASSUME NEW u \in Threads, NEW b \in Nat, InStack(u, b)', Deep(u, b)'.do = "next",
               count'["icc"] = 0
        PROVE  FALSE
    <3>1. ~listed
      <4>1. listed => count["icc"] > 0  BY ListedHasArray
      <4> QED  BY <1>6, <2>1, <4>1
    <3>2. \/ InStack(u, b) /\ Deep(u, b)' = Deep(u, b)
          \/ \E j \in 1..Len(tasks) : Deep(u, b)' = tasks[j]
      BY <1>0, <1>11, <2>1, DeepAfter
    <3>3. InStack(u, b) /\ Deep(u, b).do = "next"  BY <1>12, <2>1, <3>1, <3>2
    <3>4. St(u, b) \in Nexts  BY <1>11, <3>3, NextsAre
    <3> QED  BY <1>11, <3>4
  <2>2. "icc" \in astray' => ender' \in Interfaces  BY <1>6 DEF Steady, SignalOK
  <2>3. Signalling' => listed'  BY <1>6, <1>13
  <2> QED  BY <2>1, <2>2, <2>3 DEF SignalOK
<1>18. \A c : Kept(c)
  <2> TAKE c
  <2>1. \A j \in 1..Len(tasks) : tasks[j] # [do |-> "release", at |-> c]
    <3> SUFFICES ASSUME NEW j \in 1..Len(tasks), tasks[j] = [do |-> "release", at |-> c]
                 PROVE  FALSE
      OBVIOUS
    <3>1. tasks[j].do = "release"  OBVIOUS
    <3> QED  BY <1>12, <3>1
  <2>2. Releases(c)' \subseteq Releases(c) \ {St(Main, b) : b \in {d \in Nat : d >= 0}}
    BY <1>0, <1>11, <2>1, NoNewReleases
  <2> QED  BY <2>2 DEF Kept
<1>19. Nexts' \subseteq Nexts
  <2>1. CASE listed  BY <1>13, <2>1 DEF Nexts
  <2>2. CASE ~listed
    <3>1. \A j \in 1..Len(tasks) : tasks[j].do # "next"  BY <1>12, <2>2
    <3>2. Signalling' <=> Signalling  BY <1>11, <1>13, <2>2
    <3> QED  BY <1>0, <1>11, <3>1, <3>2, NextsAfter
  <2> QED  BY <2>1, <2>2
<1>20. \A c \in Counters : Holders(c)' \subseteq Holders(c)
  <2>1. \A i \in Interfaces : Readers(i)' \subseteq Readers(i)
    BY <1>6, <1>11, KeepsReaders
  <2>2. Running' \subseteq Running  BY <1>6, KeepsRunningReads
  <2>3. \A c \in Counters : count'[c] > 0 <=> count[c] > 0  BY <1>6
  <2>4. /\ Holders("icc")' \subseteq Holders("icc")
        /\ Holders("running")' \subseteq Holders("running")
        /\ Holders("loop")' \subseteq Holders("loop")
        /\ Holders("list")' \subseteq Holders("list")
        /\ Holders("listMem")' \subseteq Holders("listMem")
        /\ \A i \in Interfaces : Holders(i)' \subseteq Holders(i)
    BY <1>6, <1>11, <1>18, <1>19, <2>1, <2>2, <2>3, AllKeep
  <2> QED  BY <2>4 DEF Counters
<1>21. CountsOK'
  <2>1. Consuming' <=> Consuming  BY <1>11, <1>13
  <2>2. count["icc"] = 0 => Releases("icc")' = {}  BY <1>18 DEF Kept, Steady, CountsOK
  <2> QED  BY <1>6, <1>20, <2>1, <2>2, Balance DEF Steady
<1> QED  BY <1>11, <1>13, <1>14, <1>16, <1>17, <1>21 DEF Steady

\* if_consume takes a read out of the queue and makes a request, which has yet to
\* acquire the list.
LEMMA ConsumeSteady ==
  ASSUME LifeTypeOK, LifeTypeOK', Steady, Consume
  PROVE  Steady'
<1>0. Main \in Threads  BY ThreadsAre
<1> DEFINE x == [do |-> "acquire", at |-> "list"]
           tasks == <<x>>
<1>1. PICK r : r = Head(inbox)  OBVIOUS
<1>2. /\ Idle /\ inbox # <<>> /\ inbox' = Tail(inbox) /\ Handle(tasks)
      /\ read' = [read EXCEPT ![r] = "running"]
      /\ UNCHANGED <<phase, made, starting, pc, quit, shut, from, count, listed, ender,
                     astray, sources, pool>> /\ exit' = exit
  BY <1>1 DEF Consume, runVars, fiVars, endVars, pastVars, Task
<1>3. /\ phase = "loop" /\ starting = Nobody /\ made = Len(Order) /\ work[Main] = <<>>
  BY <1>2 DEF Idle, Steady, InOrderMade
<1>4. inbox \in Seq(Reads) /\ 1 \in DOMAIN inbox /\ r = inbox[1]
  BY <1>1, <1>2 DEF LifeTypeOK
<1>5. r \in Reads /\ read[r] = "sent"  BY <1>4 DEF Steady, QueueOK
<1>6. read'[r] = "running" /\ \A q \in Reads \ {r} : read'[q] = read[q]
  BY <1>2, <1>5 DEF LifeTypeOK
<1>7. x \in Tasks /\ x.do = "acquire"
  <2>1. "list" \in Counters  BY DEF Counters
  <2> QED  BY <2>1, TasksAre
<1> HIDE DEF x
<1>8. tasks \in Seq(Tasks)  BY <1>7, SeqTasks
<1>9. NoCalls(tasks) /\ NoCalls(<<>>)
  <2>1. x.do \notin CallDo \cup {"next"}  BY <1>7 DEF CallDo
  <2> QED  BY <2>1, NoCallsIn
<1>10. tasks = Task("acquire", "list")  BY DEF Task, x
<1> HIDE DEF tasks
<1>11. \A q \in Reads : read[q] = "looked" <=> read'[q] = "looked"
  BY <1>5, <1>6
<1>12. /\ Pushed(Main, 0, tasks)
       /\ work'[Main] = tasks /\ \A u \in Threads \ {Main} : work'[u] = work[u]
       /\ \A i \in Interfaces : FuseStack(i)' /\ pc[i] # "unborn"
       /\ InOrderMade' /\ ~Consuming /\ ~Signalling
       /\ \A i \in Interfaces : /\ Active(i)' => Active(i)
                                /\ Listing(i)' => Listing(i)
                                /\ Serving(i)' => Serving(i)
       /\ \A q \in Reads : read'[q] = read[q] => (Underway(q)' => Underway(q))
  BY <1>2, <1>3, <1>8, <1>11, Handled
<1>13. Consuming'  BY <1>10, <1>12 DEF Consuming
<1>14. MainStack'  BY <1>2, <1>3, <1>5, <1>6, <1>13 DEF MainStack
<1>15. ~Signalling'
  <2>1. Len(work'[Main]) = 1
    <3>1. Len(Task("acquire", "list")) = 1  BY OneTask
    <3> QED  BY <1>10, <1>12, <3>1
  <2>2. \A a, b, c : Len(<<a, b, c>>) = 3  BY HeadsAre
  <2>3. \E a, b, c : Task("acquire", "icc") \o Task("next", 1) \o Task("arm", Nobody) = <<a, b, c>>
    BY SignalTasks
  <2>4. Len(Task("acquire", "icc") \o Task("next", 1) \o Task("arm", Nobody)) = 3  BY <2>2, <2>3
  <2> QED  BY <2>1, <2>4 DEF Signalling
<1>16. QueueOK'
  <2>1. ASSUME NEW k \in DOMAIN inbox'
        PROVE  k + 1 \in DOMAIN inbox /\ inbox'[k] = inbox[k + 1] /\ k \in Nat /\ k # 0
    BY <1>2, <1>4
  <2>2. \A j, k \in DOMAIN inbox : inbox[j] = inbox[k] => j = k  BY DEF Steady, QueueOK
  <2>3. \A j, k \in DOMAIN inbox' : inbox'[j] = inbox'[k] => j = k
    <3> SUFFICES ASSUME NEW j \in DOMAIN inbox', NEW k \in DOMAIN inbox', inbox'[j] = inbox'[k]
                 PROVE  j = k
      OBVIOUS
    <3>1. j + 1 = k + 1  BY <2>1, <2>2
    <3> QED  BY <2>1, <3>1
  <2>4. \A k \in DOMAIN inbox' : read'[inbox'[k]] = "sent"
    <3> SUFFICES ASSUME NEW k \in DOMAIN inbox' PROVE read'[inbox'[k]] = "sent"  OBVIOUS
    <3>1. k + 1 \in DOMAIN inbox /\ inbox'[k] = inbox[k + 1] /\ k + 1 # 1  BY <2>1
    <3>2. inbox[k + 1] # r /\ inbox[k + 1] \in Reads  BY <1>4, <2>2, <3>1
    <3>3. read[inbox[k + 1]] = "sent"  BY <3>1 DEF Steady, QueueOK
    <3> QED  BY <1>6, <3>1, <3>2, <3>3
  <2>5. \A q \in Reads : read'[q] # "unseen" => from'[q] \in Interfaces
    <3>1. from[r] \in Interfaces  BY <1>5 DEF Steady, QueueOK
    <3>2. \A q \in Reads : read[q] # "unseen" => from[q] \in Interfaces
      BY DEF Steady, QueueOK
    <3> QED  BY <1>2, <1>6, <3>1, <3>2
  <2> QED  BY <2>3, <2>4, <2>5 DEF QueueOK
<1>17. /\ QuitOK' /\ JoinOK' /\ SwapOK' /\ UnlinkOK' /\ ExitOK' /\ SignalOK'
       /\ \A c : Kept(c)
       /\ Nexts' \subseteq Nexts
  <2>1. \A u \in Threads : work'[u] = work[u] \/ (NoCalls(work[u]) /\ NoCalls(work'[u]))
    BY <1>3, <1>9, <1>12
  <2>2. \A c \in Counters : /\ count[c] = 0 <=> count'[c] = 0
                            /\ count[c] > 0 <=> count'[c] > 0
    BY <1>2
  <2> QED  BY <1>2, <1>12, <1>15, <2>1, <2>2, QuietRest
<1>18. Running' \subseteq Running \cup {<<"read", r, 0>>}
  BY <1>6 DEF Running
<1>19. \A i \in Interfaces : Readers(i)' \subseteq Readers(i)
  <2>1. Underway(r)  BY <1>5 DEF Underway
  <2>2. \A q \in Reads : Underway(q)' => Underway(q)  BY <1>6, <1>12, <2>1
  <2> QED  BY <1>2, <2>2, KeepsReaders
<1>20. /\ Holders("icc")' \subseteq Holders("icc")
       /\ Holders("running")' \subseteq Holders("running")
       /\ Holders("loop")' \subseteq Holders("loop")
       /\ \A i \in Interfaces : Holders(i)' \subseteq Holders(i)
  <2>1. \A c \in Counters : count'[c] > 0 <=> count[c] > 0  BY <1>2
  <2> QED  BY <1>2, <1>12, <1>17, <1>19, <2>1, AllKeep
<1>21. ASSUME NEW c \in {"list", "listMem"}
       PROVE  Holders(c)' \subseteq Holders(c) \cup (IF c = ListCounter THEN {<<"read", r, 0>>} ELSE {})
  <2>1. ListUsers(c)' \subseteq ListUsers(c)
                                \cup (IF c = ListCounter THEN {<<"read", r, 0>>} ELSE {})
    BY <1>2, <1>17, <1>18 DEF ListUsers, ListCounter, Kept
  <2>2. Fixed(c)' = Fixed(c)
    BY <1>2 DEF Fixed
  <2>3. Releases(c)' \subseteq Releases(c)  BY <1>17 DEF Kept
  <2>4. CASE c = "list"
    BY <2>1, <2>2, <2>3, <2>4 DEF Holders, Users
  <2>5. CASE c = "listMem"
    BY <1>12, <2>1, <2>2, <2>3, <2>5 DEF Holders, Users
  <2> QED  BY <2>4, <2>5
<1>22. CountsOK'
  <2>1. ASSUME NEW c \in Counters, c # "icc" \/ count'["icc"] > 0 PROVE Enough(c)'
    <3>1. Enough(c)  BY <1>2, <2>1 DEF Steady, CountsOK
    <3>2. Debt(c) = 0 /\ count[c] \in Nat /\ count'[c] = count[c]
      BY <1>2, <1>12 DEF Debt, LifeTypeOK
    <3>3. Debt(c)' = IF c = ListCounter THEN 1 ELSE 0
      BY <1>2, <1>13 DEF Debt, ListCounter
    <3>4. CASE c \in {"list", "listMem"} /\ c = ListCounter
      <4>1. Holders(c)' \subseteq Holders(c) \cup {<<"read", r, 0>>}  BY <1>21, <3>4
      <4>2. (count[c] + Debt(c))' = (count[c] + Debt(c)) + 1 /\ count[c] + Debt(c) \in Nat
        BY <3>2, <3>3, <3>4
      <4> QED  BY <3>1, <4>1, <4>2, NewHolder
    <3>5. CASE ~(c \in {"list", "listMem"} /\ c = ListCounter)
      <4>1. Holders(c)' \subseteq Holders(c)
        <5>1. CASE c \in {"list", "listMem"}  BY <1>21, <3>5, <5>1
        <5>2. CASE c \notin {"list", "listMem"}  BY <1>20, <5>2 DEF Counters
        <5> QED  BY <5>1, <5>2
      <4>2. c # ListCounter  BY <3>5 DEF ListCounter
      <4>3. (count[c] + Debt(c))' = count[c] + Debt(c) /\ count[c] + Debt(c) \in Nat
        BY <3>2, <3>3, <4>2
      <4> QED  BY <3>1, <4>1, <4>3, FewerHolders
    <3> QED  BY <3>4, <3>5
  <2>2. count'["icc"] = 0 => count'["running"] = 0 /\ Releases("icc")' = {}
    BY <1>2, <1>17 DEF Steady, CountsOK, Kept
  <2> QED  BY <2>1, <2>2 DEF CountsOK
<1>23. AstrayOK'  BY <1>2 DEF Steady, AstrayOK
<1> QED  BY <1>12, <1>14, <1>16, <1>17, <1>22, <1>23 DEF Steady

\* read_done: the reply is given, then the interface and the list are released.
LEMMA ReadDoneSteady ==
  ASSUME LifeTypeOK, LifeTypeOK', Steady, NEW r \in Reads, ReadDone(r)
  PROVE  Steady'
<1>0. Main \in Threads  BY ThreadsAre
<1>1. PICK i : i = from[r]  OBVIOUS
<1> DEFINE x == [do |-> "release", at |-> i]
           y == [do |-> "release", at |-> "list"]
           tasks == <<x, y>>
           a == <<"read", r, 0>>
<1>2. /\ Idle /\ read[r] = "running" /\ Handle(tasks)
      /\ \E end \in {"dropped", "replied", "left", "leftInPool"} :
           read' = [read EXCEPT ![r] = end]
      /\ Use("interface", i \in shut)
      /\ UNCHANGED <<phase, made, starting, pc, quit, shut, from, inbox, count, listed, ender,
                     sources, pool>> /\ exit' = exit
  <2>1. Task("release", i) \o Task("release", "list") = tasks  BY TwoTasks
  <2> QED  BY <1>1, <2>1 DEF ReadDone, runVars, fiVars, endVars, pastVars
<1>3. /\ phase = "loop" /\ starting = Nobody /\ made = Len(Order) /\ work[Main] = <<>>
  BY <1>2 DEF Idle, Steady, InOrderMade
<1>4. i \in Interfaces /\ i \notin shut /\ i \in Counters
  BY <1>1, <1>2, RunningKeeps DEF Counters
<1>5. astray' = astray  BY <1>2, <1>4 DEF Use
<1>6. read'[r] \in {"dropped", "replied", "left", "leftInPool"} /\ \A q \in Reads \ {r} : read'[q] = read[q]
  BY <1>2 DEF LifeTypeOK
<1>7. x \in Tasks /\ y \in Tasks /\ x.do = "release" /\ y.do = "release" /\ x.at = i /\ y.at = "list"
  <2>1. "list" \in Counters  BY DEF Counters
  <2> QED  BY <1>4, <2>1, TasksAre
<1> HIDE DEF x, y
<1>8. tasks \in Seq(Tasks)  BY <1>7, SeqTasks
<1>9. 1..Len(tasks) = {1, 2} /\ Len(tasks) = 2 /\ tasks[1] = x /\ tasks[2] = y /\ tasks # <<>>
  BY HeadsAre
<1> HIDE DEF tasks
<1>10. \A q \in Reads : read[q] = "looked" <=> read'[q] = "looked"
  BY <1>2, <1>6
<1>11. /\ Pushed(Main, 0, tasks)
       /\ work'[Main] = tasks /\ \A u \in Threads \ {Main} : work'[u] = work[u]
       /\ \A j \in Interfaces : FuseStack(j)' /\ pc[j] # "unborn"
       /\ InOrderMade' /\ ~Consuming /\ ~Signalling
       /\ \A j \in Interfaces : /\ Active(j)' => Active(j)
                                /\ Listing(j)' => Listing(j)
                                /\ Serving(j)' => Serving(j)
       /\ \A q \in Reads : read'[q] = read[q] => (Underway(q)' => Underway(q))
       /\ \A b \in Nat : ~InStack(Main, b)
  BY <1>2, <1>3, <1>8, <1>10, Handled
<1>12. \A j \in 1..Len(tasks) : tasks[j].do = "release"  BY <1>7, <1>9
<1>13. MainStack' /\ ~Consuming' /\ ~Signalling'
  <2>1. \A j \in 1..Len(tasks) : tasks[j].do \in CallDo \cup {"next", "arm"}
    BY <1>12 DEF CallDo
  <2> QED  BY <1>2, <1>3, <1>9, <1>11, <2>1, HandledStack
<1>14. QueueOK'
  <2>1. \A k \in DOMAIN inbox : inbox[k] # r  BY <1>2 DEF Steady, QueueOK
  <2>2. \A k \in DOMAIN inbox : inbox[k] \in Reads  BY DEF LifeTypeOK
  <2>3. \A k \in DOMAIN inbox' : read'[inbox'[k]] = "sent"
    BY <1>2, <1>6, <2>1, <2>2 DEF Steady, QueueOK
  <2>4. \A q \in Reads : read'[q] # "unseen" => from'[q] \in Interfaces
    BY <1>1, <1>2, <1>4, <1>6 DEF Steady, QueueOK
  <2>5. \A j, k \in DOMAIN inbox' : inbox'[j] = inbox'[k] => j = k
    BY <1>2 DEF Steady, QueueOK
  <2> QED  BY <2>3, <2>4, <2>5 DEF QueueOK
<1>15. \A b \in Nat : Has(Main, b, "swap", Nobody) => b < 0  BY <1>11 DEF Has
<1>16. QuitOK' /\ JoinOK' /\ SwapOK' /\ SignalOK' /\ UnlinkOK' /\ ExitOK'
  <2>1. \A j \in Interfaces : pc[j] # "unborn" => pc'[j] # "unborn"  BY <1>2
  <2> QED  BY <1>0, <1>2, <1>3, <1>5, <1>11, <1>12, <1>13, <1>15, <2>1, PushRest
<1>17. Nexts' \subseteq Nexts
  <2>1. \A j \in 1..Len(tasks) : tasks[j].do # "next"  BY <1>12
  <2> QED  BY <1>0, <1>11, <1>13, <2>1, NextsAfter
<1>18. ASSUME NEW c, c # i, c # "list" PROVE Kept(c)
  <2>1. \A j \in 1..Len(tasks) : tasks[j] # [do |-> "release", at |-> c]
    <3> SUFFICES ASSUME NEW j \in 1..Len(tasks), tasks[j] = [do |-> "release", at |-> c]
                 PROVE  FALSE
      OBVIOUS
    <3>1. tasks[j].at = c  OBVIOUS
    <3> QED  BY <1>7, <1>9, <1>18, <3>1
  <2>2. Releases(c)' \subseteq Releases(c) \ {St(Main, b) : b \in {d \in Nat : d >= 0}}
    BY <1>0, <1>11, <2>1, NoNewReleases
  <2> QED  BY <2>2 DEF Kept
<1>19. i # "list"  BY <1>4, InterfaceIsOther
<1>20. x # y  BY <1>7, <1>19
<1>21. Releases(i)' \subseteq Releases(i) \cup {St(Main, 0 + Len(tasks) - 1)}
  <2>1. 1 \in 1..Len(tasks) /\ \A j \in 1..Len(tasks) : tasks[j] = x => j = 1
    BY <1>9, <1>20
  <2> QED  BY <1>0, <1>11, <2>1, OneRelease DEF x
<1>22. Releases("list")' \subseteq Releases("list") \cup {St(Main, 0 + Len(tasks) - 2)}
  <2>1. 2 \in 1..Len(tasks) /\ \A j \in 1..Len(tasks) : tasks[j] = y => j = 2
    BY <1>9, <1>20
  <2> QED  BY <1>0, <1>11, <2>1, OneRelease DEF y
<1>23. Running' \subseteq Running \ {a} /\ a \in Running
  BY <1>2, <1>6, Tokens DEF Running
<1>24. ~Underway(r)' /\ Underway(r) /\ \A q \in Reads : Underway(q)' => Underway(q)
  <2>1. ~Underway(r)'  BY <1>6 DEF Underway
  <2> QED  BY <1>2, <1>6, <1>11, <2>1 DEF Underway
<1>25. \A j \in Interfaces : Readers(j)' \subseteq Readers(j)
  BY <1>2, <1>24, KeepsReaders
<1>26. a \in Readers(i) /\ a \notin Readers(i)'
  <2>1. a \in Readers(i)  BY <1>1, <1>24 DEF Readers
  <2>2. \A q \in Reads : Underway(q)' => <<"read", q, 0>> # a  BY <1>24, Tokens
  <2> QED  BY <2>1, <2>2 DEF Readers
<1>27. \A c : a \notin Releases(c) /\ a \notin Fixed(c)
  <2>1. \A c : a \notin Releases(c)  BY ReleasesAre, Tokens
  <2>2. \A c : a \notin Fixed(c)
    <3> TAKE c
    <3>1. \A w \in {"own", "run", "list", "pool", "sources", "array", "thread"} :
             a # <<w, Nobody, 0>>
      BY Tokens
    <3> HIDE DEF a
    <3> QED  BY <3>1 DEF Fixed, If
  <2> QED  BY <2>1, <2>2
<1>28. \A c \in {"list", "listMem"} : Fixed(c)' \subseteq Fixed(c)
  BY <1>2, <1>11 DEF Fixed, If
<1> HIDE DEF a, x, y
<1>29. ASSUME NEW c \in Counters
       PROVE  \/ Holders(c)' \subseteq Holders(c)
              \/ \E p \in Holders(c) : \E q : Holders(c)' \subseteq (Holders(c) \ {p}) \cup {q}
  <2>1. CASE c \in Interfaces
    <3>1. /\ Holders(c) = If(count["icc"] > 0, "array") \cup If(Serving(c), "thread")
                          \cup Readers(c) \cup Releases(c)
          /\ Holders(c)' = If(count'["icc"] > 0, "array") \cup If(Serving(c)', "thread")
                          \cup Readers(c)' \cup Releases(c)'
      BY <2>1, InterfaceIsOther DEF Holders, Fixed, Users, If
    <3>2. /\ If(count'["icc"] > 0, "array") \subseteq If(count["icc"] > 0, "array")
          /\ If(Serving(c)', "thread") \subseteq If(Serving(c), "thread")
          /\ Readers(c)' \subseteq Readers(c)
      BY <1>2, <1>11, <1>25, <2>1 DEF If
    <3>3. CASE c # i
      <4>1. Releases(c)' \subseteq Releases(c)  BY <1>18, <2>1, <3>3, InterfaceIsOther DEF Kept
      <4> QED  BY <3>1, <3>2, <4>1
    <3>4. CASE c = i
      <4>1. a \in Holders(i)  BY <1>26, <3>1, <3>4
      <4>2. a \notin If(count["icc"] > 0, "array") /\ a \notin If(Serving(i), "thread")
        BY Tokens DEF If, a
      <4>3. Holders(i)' \subseteq (Holders(i) \ {a}) \cup {St(Main, 0 + Len(tasks) - 1)}
        BY <1>21, <1>26, <1>27, <3>1, <3>2, <3>4, <4>2
      <4> QED  BY <3>4, <4>1, <4>3
    <3> QED  BY <3>3, <3>4
  <2>2. CASE c = "list"
    <3>1. Holders(c) = Fixed(c) \cup ListUsers(c) /\ Holders(c)' = Fixed(c)' \cup ListUsers(c)'
      BY <2>2 DEF Holders, Users
    <3>2. CASE c = ListCounter
      <4>1. ListUsers(c) = Releases("list") \cup Running
            /\ ListUsers(c)' = Releases("list")' \cup Running'
        BY <1>2, <3>2 DEF ListUsers, ListCounter
      <4>2. Holders(c)' \subseteq (Holders(c) \ {a}) \cup {St(Main, 0 + Len(tasks) - 2)}
        BY <1>22, <1>23, <1>27, <1>28, <2>2, <3>1, <4>1
      <4>3. a \in Holders(c)  BY <1>23, <3>1, <4>1
      <4> QED  BY <4>2, <4>3
    <3>3. CASE c # ListCounter
      <4>1. ListUsers(c)' = {}  BY <1>2, <3>3 DEF ListUsers, ListCounter
      <4> QED  BY <1>28, <2>2, <3>1, <4>1
    <3> QED  BY <3>2, <3>3
  <2>3. CASE c = "listMem"
    <3> DEFINE L == {<<"interface", j, 0>> : j \in {k \in Interfaces : Listing(k)}}
    <3>1. /\ Holders(c) = Fixed(c) \cup L \cup ListUsers(c) \cup Releases(c)
          /\ Holders(c)' = Fixed(c)' \cup L' \cup ListUsers(c)' \cup Releases(c)'
      BY <2>3 DEF Holders, Users
    <3>2. L' \subseteq L  BY <1>11
    <3>3. a \notin L  BY Tokens DEF a
    <3>4. Releases(c)' \subseteq Releases(c)
      <4>1. c # i  BY <1>4, <2>3, InterfaceIsOther
      <4> QED  BY <1>18, <2>3, <4>1 DEF Kept
    <3> HIDE DEF L
    <3>5. CASE c = ListCounter
      <4>1. ListUsers(c) = Releases("list") \cup Running
            /\ ListUsers(c)' = Releases("list")' \cup Running'
        BY <1>2, <3>5 DEF ListUsers, ListCounter
      <4>2. Holders(c)' \subseteq (Holders(c) \ {a}) \cup {St(Main, 0 + Len(tasks) - 2)}
        BY <1>22, <1>23, <1>27, <1>28, <2>3, <3>1, <3>2, <3>3, <3>4, <4>1
      <4>3. a \in Holders(c)  BY <1>23, <3>1, <4>1
      <4> QED  BY <4>2, <4>3
    <3>6. CASE c # ListCounter
      <4>1. ListUsers(c)' = {}  BY <1>2, <3>6 DEF ListUsers, ListCounter
      <4> QED  BY <1>28, <2>3, <3>1, <3>2, <3>4, <4>1
    <3> QED  BY <3>5, <3>6
  <2>4. CASE c \in {"icc", "running", "loop"}
    <3>1. c # i /\ c # "list"  BY <1>4, <2>4, InterfaceIsOther
    <3>2. Kept(c)  BY <1>18, <3>1
    <3>3. \A d \in Counters : count'[d] > 0 <=> count[d] > 0  BY <1>2
    <3> QED  BY <1>2, <1>11, <1>17, <2>4, <3>2, <3>3, AllKeep
  <2> QED  BY <2>1, <2>2, <2>3, <2>4, CounterKinds
<1>30. CountsOK'
  <2>1. count["icc"] = 0 => Releases("icc")' = {}
    <3>1. "icc" # i /\ "icc" # "list"  BY <1>4, InterfaceIsOther
    <3>2. Kept("icc")  BY <1>18, <3>1
    <3> QED  BY <3>2 DEF Kept, Steady, CountsOK
  <2>2. CountsOK /\ count' = count /\ (Consuming' <=> Consuming)
    BY <1>2, <1>11, <1>13 DEF Steady
  <2> QED  BY <1>29, <2>1, <2>2, Balance
<1>31. AstrayOK'  BY <1>5 DEF Steady, AstrayOK
<1> QED  BY <1>11, <1>13, <1>14, <1>16, <1>30, <1>31 DEF Steady

-----------------------------------------------------------------------------
(* References released *)

LEMMA OnZeroFlat ==
  ASSUME LifeTypeOK, NEW c \in Counters
  PROVE  /\ OnZero(c) \in Seq(Tasks)
         /\ \A j \in 1..Len(OnZero(c)) :
              /\ OnZero(c)[j].do \in {"release", "swap", "exit", "unlink", "quit", "join"}
              /\ OnZero(c)[j].do = "release" => c \notin Interfaces
              /\ OnZero(c)[j].do = "swap" => c = "running"
              /\ OnZero(c)[j].do = "exit" => c = "loop"
              /\ OnZero(c)[j].do = "unlink" => c = "list"
              /\ OnZero(c)[j].do \in {"quit", "join"} => c \in Interfaces
              /\ OnZero(c)[j].do = "quit" => OnZero(c)[j].at = c
         /\ c # "icc" => Len(OnZero(c)) \in {1, 2, 4}
<1>0. OnZero(c) \in Seq(Tasks)  BY OnZeroTyped
<1> DEFINE Fine(s) ==
             \A j \in 1..Len(s) :
               /\ s[j].do \in {"release", "swap", "exit", "unlink", "quit", "join"}
               /\ s[j].do = "release" => c \notin Interfaces
               /\ s[j].do = "swap" => c = "running"
               /\ s[j].do = "exit" => c = "loop"
               /\ s[j].do = "unlink" => c = "list"
               /\ s[j].do \in {"quit", "join"} => c \in Interfaces
               /\ s[j].do = "quit" => s[j].at = c
<1>1. CASE c = "icc"
  <2>1. "icc" \notin Interfaces  BY InterfaceIsOther
  <2> DEFINE s == [k \in 1..made |-> [do |-> "release", at |-> Order[k]]]
  <2>2. OnZero(c) = s  BY <1>1, OnZeroIs
  <2>3. made \in Nat  BY OrderIs DEF LifeTypeOK
  <2>4. DOMAIN s = 1..made /\ \A j \in 1..made : s[j].do = "release"  OBVIOUS
  <2> HIDE DEF s
  <2>5. 1..Len(s) = 1..made
    <3>1. s \in Seq(Tasks)  BY <1>0, <2>2
    <3> QED  BY <2>4, <3>1
  <2>6. Fine(s)  BY <1>1, <2>1, <2>4, <2>5
  <2> QED  BY <1>0, <1>1, <2>2, <2>6
<1>2. CASE c = "running"
  <2> DEFINE a == [do |-> "swap", at |-> Nobody]
             x == [do |-> "release", at |-> "icc"]
             y == [do |-> "release", at |-> "loop"]
             z == [do |-> "release", at |-> "list"]
             s == <<a, x, y, z>>
  <2>1. OnZero(c) = s  BY <1>2, OnZeroIs
  <2>2. a.do = "swap" /\ x.do = "release" /\ y.do = "release" /\ z.do = "release"
        /\ c \notin Interfaces
    BY <1>2, InterfaceIsOther
  <2> HIDE DEF a, x, y, z
  <2>3. 1..Len(s) = {1, 2, 3, 4} /\ Len(s) = 4 /\ s[1] = a /\ s[2] = x /\ s[3] = y /\ s[4] = z
    OBVIOUS
  <2> HIDE DEF s
  <2>4. Fine(s)  BY <1>2, <2>2, <2>3
  <2> QED  BY <1>0, <2>1, <2>3, <2>4
<1>3. CASE c = "loop"
  <2> DEFINE a == [do |-> "exit", at |-> Nobody]
             s == <<a>>
  <2>1. OnZero(c) = s  BY <1>3, OnZeroIs
  <2>2. a.do = "exit"  OBVIOUS
  <2> HIDE DEF a
  <2>3. 1..Len(s) = {1} /\ Len(s) = 1 /\ s[1] = a  OBVIOUS
  <2> HIDE DEF s
  <2>4. Fine(s)  BY <1>3, <2>2, <2>3
  <2> QED  BY <1>0, <2>1, <2>3, <2>4
<1>4. CASE c = "list"
  <2> DEFINE a == [do |-> "unlink", at |-> Nobody]
             x == [do |-> "release", at |-> "listMem"]
             s == <<a, x>>
  <2>1. OnZero(c) = s  BY <1>4, OnZeroIs
  <2>2. a.do = "unlink" /\ x.do = "release" /\ c \notin Interfaces
    BY <1>4, InterfaceIsOther
  <2> HIDE DEF a, x
  <2>3. 1..Len(s) = {1, 2} /\ Len(s) = 2 /\ s[1] = a /\ s[2] = x  OBVIOUS
  <2> HIDE DEF s
  <2>4. Fine(s)  BY <1>4, <2>2, <2>3
  <2> QED  BY <1>0, <2>1, <2>3, <2>4
<1>5. CASE c = "listMem"
  <2> DEFINE x == [do |-> "release", at |-> "loop"]
             s == <<x>>
  <2>1. OnZero(c) = s  BY <1>5, OnZeroIs
  <2>2. x.do = "release" /\ c \notin Interfaces  BY <1>5, InterfaceIsOther
  <2> HIDE DEF x
  <2>3. 1..Len(s) = {1} /\ Len(s) = 1 /\ s[1] = x  OBVIOUS
  <2> HIDE DEF s
  <2>4. Fine(s)  BY <1>5, <2>2, <2>3
  <2> QED  BY <1>0, <2>1, <2>3, <2>4
<1>6. CASE c \in Interfaces
  <2> DEFINE a == [do |-> "quit", at |-> c]
             x == [do |-> "join", at |-> c]
             s == <<a, x>>
  <2>1. OnZero(c) = s  BY <1>6, OnZeroIs
  <2>2. a.do = "quit" /\ x.do = "join" /\ a.at = c  OBVIOUS
  <2> HIDE DEF a, x
  <2>3. 1..Len(s) = {1, 2} /\ Len(s) = 2 /\ s[1] = a /\ s[2] = x  OBVIOUS
  <2> HIDE DEF s
  <2>4. Fine(s)  BY <1>6, <2>2, <2>3
  <2> QED  BY <1>0, <2>1, <2>3, <2>4
<1> QED  BY <1>1, <1>2, <1>3, <1>4, <1>5, <1>6, CounterKinds

\* Who releases has the reference: the count is not zero.
LEMMA ReleaseHeld ==
  ASSUME LifeTypeOK, Steady, NEW t \in Threads, Due(t, "release")
  PROVE  LET d == Counter(t)
             x == St(t, Len(work[t]) - 1)
         IN /\ d \in Counters /\ count[d] \in Nat /\ count[d] > 0
            /\ x \in Holders(d) /\ x \in Releases(At(t)) /\ Enough(d)
            /\ At(t) = d \/ (At(t) = "list" /\ d = "listMem" /\ count["list"] = 0)
            /\ Consuming /\ d = ListCounter =>
                 \E r \in Reads : /\ read[r] = "running"
                                  /\ <<"read", r, 0>> \in Holders(d) /\ <<"read", r, 0>> # x
            /\ d # "list" => x \in Releases(d) \/ x \in ListUsers(d)
<1>1. PICK d, n, x, a : d = Counter(t) /\ n = Len(work[t]) - 1 /\ x = St(t, n) /\ a = At(t)
  OBVIOUS
<1>2. n \in Nat /\ Has(t, n, "release", a)  BY <1>1, DueIs
<1>3. x \in Releases(a)  BY <1>1, <1>2, ReleasesAre
<1>4. d \in Counters /\ count[d] \in Nat
  BY <1>1, CounterTyped DEF Counts, Acquires
<1>5. a = d \/ (a = "list" /\ d = "listMem" /\ count["list"] = 0)
  BY <1>1 DEF Counter
<1>6. a = "list" => d = ListCounter
  <2>1. count["list"] \in Nat  BY DEF LifeTypeOK, Counters
  <2> QED  BY <1>1, <2>1 DEF Counter, ListCounter
<1>7. x \in Holders(d)
  <2>1. CASE a # "list"
    BY <1>3, <1>5, <2>1 DEF Holders
  <2>2. CASE a = "list"
    <3>1. x \in ListUsers(d)  BY <1>3, <1>6, <2>2 DEF ListUsers
    <3>2. d = "list" \/ d = "listMem"  BY <1>6, <2>2 DEF ListCounter
    <3>3. ListUsers(d) \subseteq Users(d)  BY <3>2 DEF Users
    <3> QED  BY <3>1, <3>3 DEF Holders
  <2> QED  BY <2>1, <2>2
<1>8. ASSUME Consuming, d = ListCounter
      PROVE  \E r \in Reads : /\ read[r] = "running"
                              /\ <<"read", r, 0>> \in Holders(d) /\ <<"read", r, 0>> # x
  <2>1. PICK r \in Reads : read[r] = "running"  BY <1>8, ConsumingIs
  <2>2. <<"read", r, 0>> \in Running  BY <2>1 DEF Running
  <2>3. d \in {"list", "listMem"}  BY <1>8 DEF ListCounter
  <2>4. <<"read", r, 0>> \in ListUsers(d)  BY <1>8, <2>2 DEF ListUsers
  <2>5. <<"read", r, 0>> \in Holders(d)  BY <2>3, <2>4 DEF Holders, Users
  <2>6. <<"read", r, 0>> # x  BY <1>1, Tokens
  <2> QED  BY <2>1, <2>5, <2>6
<1>9. d = "icc" => count[d] > 0
  <2> SUFFICES ASSUME d = "icc", count["icc"] = 0 PROVE FALSE  BY <1>4
  <2>1. a = "icc"  BY <1>5
  <2> QED  BY <1>3, <2>1 DEF Steady, CountsOK
<1>10. Enough(d)
  BY <1>4, <1>9 DEF Steady, CountsOK
<1>11. count[d] > 0
  <2>1. count[d] + Debt(d) >= 1  BY <1>4, <1>7, <1>10, HeldIsPositive
  <2>2. CASE Debt(d) = 0
    <3>1. \A m \in Nat : m + 0 >= 1 => m > 0  OBVIOUS
    <3> QED  BY <1>4, <2>1, <2>2, <3>1
  <2>3. CASE Debt(d) # 0
    <3>1. Consuming /\ d = ListCounter /\ Debt(d) = 1  BY <2>3 DEF Debt
    <3>2. count[d] + Debt(d) >= 2
      BY <1>4, <1>7, <1>8, <1>10, <3>1, HeldIsPositive
    <3>3. \A m \in Nat : m + 1 >= 2 => m > 0  OBVIOUS
    <3> QED  BY <1>4, <3>1, <3>2, <3>3
  <2> QED  BY <2>2, <2>3
<1>12. d # "list" => x \in Releases(d) \/ x \in ListUsers(d)
  <2>1. a = "list" => x \in ListUsers(d)  BY <1>3, <1>6 DEF ListUsers
  <2> QED  BY <1>3, <1>5, <2>1
<1> QED  BY <1>1, <1>3, <1>4, <1>5, <1>7, <1>8, <1>10, <1>11, <1>12

\* What a release does, and what it leaves alone
LEMMA ReleaseDoes ==
  ASSUME LifeTypeOK, Steady, NEW t \in Threads, Count(t), Due(t, "release"),
         NEW d, d = Counter(t), NEW n, n = Len(work[t]) - 1,
         NEW tasks, tasks = IF count[d] > 1 THEN <<>> ELSE OnZero(d)
  PROVE  /\ n \in Nat /\ count' = [count EXCEPT ![d] = count[d] - 1]
         /\ \A c \in Counters : c # d => count'[c] = count[c]
         /\ count'[d] = count[d] - 1 /\ count'[d] \in Nat
         /\ UNCHANGED <<phase, made, starting, pc, quit, shut, inbox, read, from, listed,
                        sources, pool, ender, astray>> /\ exit' = exit
         /\ Pushed(t, n, tasks)
         /\ MainStack' /\ (\A i \in Interfaces : FuseStack(i)') /\ InOrderMade' /\ QueueOK'
         /\ AstrayOK'
         /\ (Signalling' <=> Signalling) /\ (Consuming' <=> Consuming)
         /\ Milder /\ Nexts' \subseteq Nexts
         /\ \A b \in Nat : Has(t, b, "swap", Nobody) => b < n
         /\ \A c : \A b \in Nat : b >= n + Len(tasks) => St(t, b) \notin Releases(c)'
<1>1. /\ d \in Counters /\ count[d] \in Nat /\ count[d] > 0
  BY ReleaseHeld
<1>2. work[t] # <<>> /\ n \in Nat /\ Has(t, n, "release", At(t)) /\ Head(work[t]).do = "release"
  BY DueIs DEF Due
<1>3. Counts(t) /\ ~Acquires(t)
  <2>1. "release" # "acquire"  OBVIOUS
  <2> QED  BY <1>2, <2>1 DEF Counts, Acquires, Due
<1>4. Counted(t) = count[d] - 1  BY <1>1, <1>3, CounterTyped
<1>5. count' = [count EXCEPT ![d] = count[d] - 1]  BY <1>4 DEF Count
<1>6. Call(t, tasks)
  <2>1. Call(t, IF count[d] = 0 THEN <<>> ELSE Callbacks(t, Counted(t)))  BY DEF Count
  <2>2. Callbacks(t, Counted(t)) = tasks
    <3>1. CASE count[d] > 1
      <4>1. Counted(t) > 0  BY <1>1, <1>4, <3>1
      <4> QED  BY <1>3, <3>1, <4>1 DEF Callbacks
    <3>2. CASE ~(count[d] > 1)
      <4>1. ~(Counted(t) > 0)  BY <1>1, <1>4, <3>2
      <4> QED  BY <1>3, <3>2, <4>1 DEF Callbacks
    <3> QED  BY <3>1, <3>2
  <2> QED  BY <1>1, <2>1, <2>2
<1>7. /\ UNCHANGED <<phase, made, starting, pc, quit, shut, inbox, read, from, listed,
                     sources, pool, ender>> /\ exit' = exit
  BY DEF Count, runVars, fiVars, readVars, endVars, pastVars
<1>8. astray' = astray  BY <1>1 DEF Count, Use
<1>9. /\ tasks \in Seq(Tasks) /\ Flat(tasks, t)
      /\ \A j \in 1..Len(tasks) : tasks[j].do # "next"
  <2>1. CASE count[d] > 1
    <3> DEFINE none == <<>>
    <3>1. tasks = none /\ none \in Seq(Tasks) /\ 1..Len(none) = {}  BY <2>1, SeqTasks
    <3> HIDE DEF none
    <3> QED  BY <3>1 DEF Flat
  <2>2. CASE ~(count[d] > 1)
    <3>1. tasks = OnZero(d)  BY <2>2
    <3>2. \A j \in 1..Len(tasks) : tasks[j].do \in CallDo /\ tasks[j].do # "next"
      BY <1>1, <3>1, OnZeroFlat DEF CallDo
    <3> QED  BY <1>1, <3>1, <3>2, OnZeroFlat DEF Flat
  <2> QED  BY <2>1, <2>2
<1>10. Head(work[t]).do \in CallDo \cup {"next", "arm"} /\ quit \subseteq quit' /\ shut \subseteq shut'
  BY <1>2, <1>7 DEF CallDo
<1>11. /\ Pushed(t, n, tasks)
       /\ MainStack' /\ (\A i \in Interfaces : FuseStack(i)') /\ InOrderMade' /\ QueueOK'
       /\ (Signalling' <=> Signalling) /\ (Consuming' <=> Consuming)
       /\ \A i \in Interfaces : /\ Active(i)' => Active(i)
                                /\ Listing(i)' => Listing(i)
                                /\ Serving(i)' => Serving(i)
       /\ \A r \in Reads : /\ Underway(r)' => Underway(r) /\ from'[r] = from[r]
                           /\ read'[r] = "running" => read[r] = "running"
  BY <1>2, <1>6, <1>7, <1>9, <1>10, CallSame
<1>12. Milder  BY <1>11 DEF Milder
<1>13. Nexts' \subseteq Nexts  BY <1>9, <1>11, NextsAfter
<1>14. \A b \in Nat : Has(t, b, "swap", Nobody) => b < n
  <2> SUFFICES ASSUME NEW b \in Nat, Has(t, b, "swap", Nobody) PROVE b < n  OBVIOUS
  <2>1. b <= n /\ Deep(t, b).do = "swap"  BY TopIs, <1>2 DEF Has, InStack
  <2>2. b # n  BY <1>2, <2>1 DEF Has
  <2> QED  BY <1>2, <2>1, <2>2
<1>15. \A c : \A b \in Nat : b >= n + Len(tasks) => St(t, b) \notin Releases(c)'
  <2> SUFFICES ASSUME NEW c, NEW b \in Nat, b >= n + Len(tasks), St(t, b) \in Releases(c)'
               PROVE  FALSE
    OBVIOUS
  <2>1. \E u \in Threads, e \in Nat : St(t, b) = St(u, e) /\ Has(u, e, "release", c)'
    BY DEF Releases, St
  <2>2. Has(t, b, "release", c)'  BY <2>1, Tokens
  <2>3. b < Len(work'[t])  BY <2>2 DEF Has, InStack
  <2>4. Len(work'[t]) = n + Len(tasks)  BY <1>11 DEF Pushed
  <2>5. PICK m : m = n + Len(tasks)  OBVIOUS
  <2>6. m \in Nat
    <3>1. PICK l : l = Len(tasks)  OBVIOUS
    <3>2. l \in Nat  BY <1>9, <3>1
    <3>3. m = n + l /\ n \in Nat  BY <1>2, <2>5, <3>1
    <3> QED  BY ONLY <3>2, <3>3
  <2>7. b >= m /\ b < m  BY <2>3, <2>4, <2>5
  <2>8. \A e, f \in Nat : ~(e >= f /\ e < f)  OBVIOUS
  <2> QED  BY <2>6, <2>7, <2>8
<1>16. AstrayOK'  BY <1>8 DEF Steady, AstrayOK
<1>17. /\ \A c \in Counters : c # d => count'[c] = count[c]
       /\ count'[d] = count[d] - 1 /\ count'[d] \in Nat
  BY <1>1, <1>5 DEF LifeTypeOK
<1> QED  BY <1>2, <1>5, <1>7, <1>8, <1>11, <1>12, <1>13, <1>14, <1>15, <1>16, <1>17

\* Fewer counts above zero and no new user: whose place a new release takes
LEMMA ReleaseHolders ==
  ASSUME LifeTypeOK, LifeTypeOK', NEW t \in Threads, NEW n \in Nat, NEW x, x = St(t, n),
         NEW c \in Counters, NEW Y,
         \A e \in Counters : count'[e] > 0 => count[e] > 0,
         Milder, Nexts' \subseteq Nexts, x \notin Nexts,
         UNCHANGED <<phase, pool, sources>>,
         c = "listMem" => ListCounter' = ListCounter,
         Releases(c)' \subseteq (Releases(c) \ {x}) \cup Y,
         c = ListCounter' => Releases("list")' \subseteq (Releases("list") \ {x}) \cup Y
  PROVE  /\ Holders(c)' \subseteq Holders(c) \cup Y
         /\ x \in Holders(c)' => x \in Y
         /\ \A w \in {"own", "list", "array"} :
              <<w, Nobody, 0>> \in Holders(c)' => <<w, Nobody, 0>> \in Fixed(c)' \cup Y
<1>1. /\ \A i \in Interfaces : /\ Active(i)' => Active(i)
                               /\ Listing(i)' => Listing(i)
                               /\ Serving(i)' => Serving(i)
      /\ \A r \in Reads : /\ Underway(r)' => Underway(r) /\ from'[r] = from[r]
                          /\ read'[r] = "running" => read[r] = "running"
  BY DEF Milder
<1>2. Running' \subseteq Running  BY <1>1, KeepsRunningReads
<1>3. \A i \in Interfaces : Readers(i)' \subseteq Readers(i)  BY <1>1, KeepsReaders
<1>4. {"icc", "running", "loop", "list", "listMem"} \subseteq Counters  BY DEF Counters
<1>5. /\ count'["icc"] > 0 => count["icc"] > 0
      /\ count'["running"] > 0 => count["running"] > 0
      /\ count'["list"] > 0 => count["list"] > 0
      /\ count'["listMem"] > 0 => count["listMem"] > 0
  BY <1>4
<1> DEFINE tok == {<<w, Nobody, 0>> : w \in {"own", "run", "list", "pool", "sources", "array",
                                             "thread"}}
<1>6. x \notin tok  BY Tokens
<1>7. \A w \in {"own", "list", "array"} : <<w, Nobody, 0>> \in tok  OBVIOUS
<1>8. Fixed(c)' \subseteq Fixed(c) /\ Fixed(c)' \subseteq tok
  <2>1. CASE c = "icc"  BY <1>5, <2>1 DEF Fixed, If
  <2>2. CASE c = "running"  BY <2>2 DEF Fixed, If
  <2>3. CASE c = "loop"  BY <1>5, <2>3 DEF Fixed, If
  <2>4. CASE c = "list"  BY <1>5, <2>4 DEF Fixed, If
  <2>5. CASE c = "listMem"  BY <1>5, <2>5 DEF Fixed, If
  <2>6. CASE c \in Interfaces
    <3>1. c \notin {"icc", "running", "loop", "list", "listMem"}  BY <2>6, InterfaceIsOther
    <3>2. /\ Fixed(c) = If(count["icc"] > 0, "array") \cup If(Serving(c), "thread")
          /\ Fixed(c)' = If(count["icc"] > 0, "array")' \cup If(Serving(c), "thread")'
      BY <3>1 DEF Fixed
    <3>3. Serving(c)' => Serving(c)  BY <1>1, <2>6
    <3> QED  BY <1>5, <3>2, <3>3 DEF If
  <2> QED  BY <2>1, <2>2, <2>3, <2>4, <2>5, <2>6, CounterKinds
<1>9. /\ Releases("list")' \cap tok = {} /\ Releases(c)' \cap tok = {}
      /\ Running' \cap tok = {} /\ x \notin Running'
  <2>1. \A e : Releases(e)' \cap tok = {}
    <3> SUFFICES ASSUME NEW e, NEW y \in Releases(e)', y \in tok PROVE FALSE  OBVIOUS
    <3>1. \E u \in Threads, b \in Nat : y = St(u, b)  BY DEF Releases, St
    <3> QED  BY <3>1, Tokens
  <2>2. Running' \cap tok = {} /\ x \notin Running'
    <3> SUFFICES ASSUME NEW y \in Running', y \in tok \/ y = x PROVE FALSE  OBVIOUS
    <3>1. \E r \in Reads : y = <<"read", r, 0>>  BY DEF Running
    <3> QED  BY <3>1, Tokens
  <2> QED  BY <2>1, <2>2
<1>10. \A e : e = c => ListUsers(e)' \subseteq (ListUsers(e) \ {x}) \cup Y
  <2> SUFFICES ASSUME c = ListCounter'
               PROVE  ListUsers(c)' \subseteq (ListUsers(c) \ {x}) \cup Y
    BY DEF ListUsers
  <2>1. c = ListCounter
    <3>1. CASE c = "listMem"  BY <3>1
    <3>2. CASE c # "listMem"
      <4>1. c = "list" /\ count'["list"] > 0  BY <3>2 DEF ListCounter
      <4> QED  BY <1>5, <4>1 DEF ListCounter
    <3> QED  BY <3>1, <3>2
  <2>2. ListUsers(c) = Releases("list") \cup Running
        /\ ListUsers(c)' = Releases("list")' \cup Running'
    BY <2>1 DEF ListUsers
  <2> QED  BY <1>2, <1>9, <2>2
<1>11. ListUsers(c)' \cap tok = {}  BY <1>9 DEF ListUsers
<1>12. Users(c)' \subseteq (Users(c) \ {x}) \cup Y /\ Users(c)' \cap tok = {}
  <2>1. CASE c = "icc"
    <3>1. Users(c) = Nexts /\ Users(c)' = Nexts'  BY <2>1 DEF Users
    <3>2. Nexts \cap tok = {}
      <4> SUFFICES ASSUME NEW y \in Nexts, y \in tok PROVE FALSE  OBVIOUS
      <4>1. \E u \in Threads, b \in Nat : y = St(u, b)  BY NextsAre
      <4> QED  BY <4>1, Tokens
    <3> QED  BY <3>1, <3>2
  <2>2. CASE c = "running"
    <3> DEFINE U == {<<"interface", i, 0>> : i \in {j \in Interfaces : Active(j)}}
    <3>1. Users(c) = U /\ Users(c)' = U'  BY <2>2 DEF Users
    <3>2. U' \subseteq U  BY <1>1
    <3>3. x \notin U /\ U \cap tok = {}  BY Tokens
    <3> QED  BY <3>1, <3>2, <3>3
  <2>3. CASE c = "loop"  BY <2>3 DEF Users
  <2>4. CASE c = "list"  BY <1>10, <1>11, <2>4 DEF Users
  <2>5. CASE c = "listMem"
    <3> DEFINE U == {<<"interface", i, 0>> : i \in {j \in Interfaces : Listing(j)}}
    <3>1. Users(c) = U \cup ListUsers(c) /\ Users(c)' = U' \cup ListUsers(c)'
      BY <2>5 DEF Users
    <3>2. U' \subseteq U  BY <1>1
    <3>3. x \notin U /\ U \cap tok = {}  BY Tokens
    <3> QED  BY <1>10, <1>11, <3>1, <3>2, <3>3
  <2>6. CASE c \in Interfaces
    <3>1. c \notin {"icc", "running", "loop", "list", "listMem"}  BY <2>6, InterfaceIsOther
    <3>2. Users(c) = Readers(c) /\ Users(c)' = Readers(c)'  BY <3>1 DEF Users
    <3>3. Readers(c) \cap tok = {} /\ x \notin Readers(c)
      <4> SUFFICES ASSUME NEW y \in Readers(c), y \in tok \/ y = x PROVE FALSE  OBVIOUS
      <4>1. \E r \in Reads : y = <<"read", r, 0>>  BY DEF Readers
      <4> QED  BY <4>1, Tokens
    <3> QED  BY <1>3, <2>6, <3>2, <3>3
  <2> QED  BY <2>1, <2>2, <2>3, <2>4, <2>5, <2>6, CounterKinds
<1> HIDE DEF tok
<1>13. /\ Holders(c) = Fixed(c) \cup Users(c) \cup (IF c = "list" THEN {} ELSE Releases(c))
       /\ Holders(c)' = Fixed(c)' \cup Users(c)' \cup (IF c = "list" THEN {} ELSE Releases(c)')
  BY DEF Holders
<1>14. Holders(c)' \subseteq Holders(c) \cup Y  BY <1>8, <1>12, <1>13
<1>15. x \in Holders(c)' => x \in Y  BY <1>6, <1>8, <1>12, <1>13
<1>16. \A y \in tok : y \in Holders(c)' => y \in Fixed(c)'  BY <1>9, <1>12, <1>13
<1> QED  BY <1>7, <1>14, <1>15, <1>16

\* A release of d, at place n of the stack of t, and what it calls
Releasing(t, d, n, tasks) ==
  /\ LifeTypeOK /\ LifeTypeOK' /\ Steady
  /\ t \in Threads /\ Count(t) /\ Due(t, "release")
  /\ d = Counter(t) /\ n = Len(work[t]) - 1
  /\ tasks = (IF count[d] > 1 THEN <<>> ELSE OnZero(d))

LEMMA ReleasingDoes ==
  ASSUME NEW t, NEW d, NEW n, NEW tasks, Releasing(t, d, n, tasks)
  PROVE  /\ t \in Threads /\ d \in Counters /\ n \in Nat /\ LifeTypeOK /\ LifeTypeOK'
         /\ count[d] \in Nat /\ count[d] > 0 /\ count'[d] = count[d] - 1
         /\ \A c \in Counters : c # d => count'[c] = count[c]
         /\ \A c \in Counters : count'[c] > 0 => count[c] > 0
         /\ \A c \in Counters : c # d \/ count[d] > 1 => (count'[c] > 0 <=> count[c] > 0)
         /\ count[d] > 1 => tasks = <<>>
         /\ ~(count[d] > 1) => tasks = OnZero(d) /\ count[d] = 1 /\ count'[d] = 0
         /\ UNCHANGED <<phase, made, starting, pc, quit, shut, inbox, read, from, listed,
                        sources, pool, ender, astray>> /\ exit' = exit
         /\ Pushed(t, n, tasks)
         /\ (Signalling' <=> Signalling) /\ (Consuming' <=> Consuming)
         /\ Milder /\ Nexts' \subseteq Nexts /\ St(t, n) \notin Nexts
         /\ St(t, n) \in Holders(d) /\ St(t, n) \in Releases(At(t)) /\ Enough(d)
         /\ CountsOK
<1>1. /\ LifeTypeOK /\ LifeTypeOK' /\ Steady
      /\ t \in Threads /\ Count(t) /\ Due(t, "release")
      /\ d = Counter(t) /\ n = Len(work[t]) - 1
      /\ tasks = IF count[d] > 1 THEN <<>> ELSE OnZero(d)
  BY DEF Releasing
<1>2. /\ n \in Nat /\ \A c \in Counters : c # d => count'[c] = count[c]
      /\ count'[d] = count[d] - 1 /\ count'[d] \in Nat
      /\ UNCHANGED <<phase, made, starting, pc, quit, shut, inbox, read, from, listed,
                     sources, pool, ender, astray>> /\ exit' = exit
      /\ Pushed(t, n, tasks)
      /\ (Signalling' <=> Signalling) /\ (Consuming' <=> Consuming)
      /\ Milder /\ Nexts' \subseteq Nexts
  BY <1>1, ReleaseDoes
<1>3. /\ d \in Counters /\ count[d] \in Nat /\ count[d] > 0
      /\ St(t, n) \in Holders(d) /\ St(t, n) \in Releases(At(t)) /\ Enough(d)
  BY <1>1, ReleaseHeld
<1>4. /\ ~(count[d] > 1) => count[d] = 1 /\ count'[d] = 0
      /\ count[d] > 1 => count'[d] > 0
  <2>1. \A m, k \in Nat : m > 0 /\ k = m - 1 => /\ ~(m > 1) => m = 1 /\ k = 0
                                                /\ m > 1 => k > 0
    OBVIOUS
  <2> QED  BY <1>2, <1>3, <2>1
<1>5. St(t, n) \notin Nexts
  <2>1. Has(t, n, "release", At(t))  BY <1>1, DueIs
  <2>2. Deep(t, n).do = "release"  BY <2>1 DEF Has
  <2> QED  BY <1>1, <1>2, <2>2, NextsAre
<1>6. CountsOK  BY <1>1 DEF Steady
<1>7. \A c \in Counters : count'[c] > 0 => count[c] > 0  BY <1>2, <1>3
<1>8. \A c \in Counters : c # d \/ count[d] > 1 => (count'[c] > 0 <=> count[c] > 0)
  BY <1>2, <1>3, <1>4
<1> QED  BY <1>1, <1>2, <1>3, <1>4, <1>5, <1>6, <1>7, <1>8

NoRelease(tasks, c) == \A j \in 1..Len(tasks) : tasks[j] # [do |-> "release", at |-> c]

LEMMA DropsTop ==
  ASSUME NEW t \in Threads, NEW n, NEW tasks, Pushed(t, n, tasks), NEW c, NoRelease(tasks, c)
  PROVE  Releases(c)' \subseteq Releases(c) \ {St(t, n)}
<1>1. Releases(c)' \subseteq Releases(c) \ {St(t, b) : b \in {e \in Nat : e >= n}}
  BY NoNewReleases DEF NoRelease
<1>2. n \in {e \in Nat : e >= n}  BY DEF Pushed
<1> QED  BY <1>1, <1>2

\* A count whose releases do not grow has enough holders still.
LEMMA ReleaseSpares ==
  ASSUME NEW t, NEW d, NEW n, NEW tasks, Releasing(t, d, n, tasks),
         NEW c \in Counters, c # "icc" \/ count["icc"] > 0,
         NoRelease(tasks, c), c = ListCounter' => NoRelease(tasks, "list"),
         c \in {"list", "listMem"} => ListCounter' = ListCounter
  PROVE  Enough(c)'
<1> DEFINE x == St(t, n)
           none == {}
<1>1. /\ t \in Threads /\ d \in Counters /\ n \in Nat /\ LifeTypeOK /\ LifeTypeOK'
      /\ count[d] \in Nat /\ count'[d] = count[d] - 1
      /\ \A e \in Counters : e # d => count'[e] = count[e]
      /\ \A e \in Counters : count'[e] > 0 => count[e] > 0
      /\ UNCHANGED <<phase, sources, pool>>
      /\ Pushed(t, n, tasks)
      /\ (Consuming' <=> Consuming)
      /\ Milder /\ Nexts' \subseteq Nexts /\ x \notin Nexts
      /\ x \in Holders(d) /\ CountsOK
  BY ReleasingDoes
<1>2. Enough(c)  BY <1>1 DEF CountsOK
<1>3. Releases(c)' \subseteq (Releases(c) \ {x}) \cup none  BY <1>1, DropsTop
<1>4. c = ListCounter' => Releases("list")' \subseteq (Releases("list") \ {x}) \cup none
  BY <1>1, DropsTop
<1> HIDE DEF x
<1>5. x = St(t, n)  BY DEF x
<1>6. Holders(c)' \subseteq Holders(c) \cup none /\ (x \in Holders(c)' => x \in none)
  BY <1>1, <1>3, <1>4, <1>5, ReleaseHolders
<1>7. Debt(c)' = Debt(c)
  <2>1. CASE c \in {"list", "listMem"}
    BY <1>1, <2>1 DEF Debt
  <2>2. CASE c \notin {"list", "listMem"}
    <3>1. c # ListCounter /\ c # ListCounter'  BY <2>2 DEF ListCounter
    <3> QED  BY <3>1 DEF Debt
  <2> QED  BY <2>1, <2>2
<1>8. count[c] \in Nat /\ Debt(c) \in {0, 1} /\ count[c] + Debt(c) \in Nat
  BY <1>1, CountTypes
<1>9. CASE c # d
  <2>1. (count[c] + Debt(c))' = count[c] + Debt(c)
    <3>1. count'[c] = count[c]  BY <1>1, <1>9
    <3> QED  BY <1>7, <3>1
  <2>2. Holders(c)' \subseteq Holders(c)  BY <1>6
  <2> QED  BY <1>2, <1>8, <2>1, <2>2, FewerHolders
<1>10. CASE c = d
  <2>1. (count[c] + Debt(c))' = (count[c] + Debt(c)) - 1
    <3>1. count'[c] = count[c] - 1  BY <1>1, <1>10
    <3>2. \A m, k \in Nat : (m - 1) + k = (m + k) - 1  OBVIOUS
    <3>3. Debt(c) \in Nat  BY <1>8
    <3>4. (count[c] - 1) + Debt(c) = (count[c] + Debt(c)) - 1  BY <1>8, <3>2, <3>3
    <3>5. (count[c] + Debt(c))' = count'[c] + Debt(c)'  OBVIOUS
    <3> QED  BY <1>7, <3>1, <3>4, <3>5
  <2>2. x \in Holders(c) /\ Holders(c)' \subseteq Holders(c) \ {x}  BY <1>1, <1>6, <1>10
  <2> QED  BY <1>2, <1>8, <2>1, <2>2, LostHolder
<1> QED  BY <1>9, <1>10

\* A count that loses what held it on behalf of another gains a release instead.
LEMMA ReleaseReplaces ==
  ASSUME NEW t, NEW d, NEW n, NEW tasks, Releasing(t, d, n, tasks),
         NEW c \in Counters, c # d, c # "icc" \/ count["icc"] > 0,
         NEW y, NEW u, NEW b, y = St(u, b), Releases(c)' \subseteq (Releases(c) \ {St(t, n)}) \cup {y},
         c = ListCounter' => Releases("list")' \subseteq (Releases("list") \ {St(t, n)}) \cup {y},
         c \in {"list", "listMem"} => ListCounter' = ListCounter,
         NEW w \in {"own", "list", "array"},
         <<w, Nobody, 0>> \in Fixed(c), <<w, Nobody, 0>> \notin Fixed(c)'
  PROVE  Enough(c)'
<1> DEFINE x == St(t, n)
           Y == {y}
           z == <<w, Nobody, 0>>
<1>1. /\ t \in Threads /\ d \in Counters /\ n \in Nat /\ LifeTypeOK /\ LifeTypeOK'
      /\ \A e \in Counters : e # d => count'[e] = count[e]
      /\ \A e \in Counters : count'[e] > 0 => count[e] > 0
      /\ UNCHANGED <<phase, sources, pool>>
      /\ (Consuming' <=> Consuming)
      /\ Milder /\ Nexts' \subseteq Nexts /\ x \notin Nexts
      /\ CountsOK
  BY ReleasingDoes
<1>2. Enough(c)  BY <1>1 DEF CountsOK
<1>3. /\ Releases(c)' \subseteq (Releases(c) \ {x}) \cup Y
      /\ c = ListCounter' => Releases("list")' \subseteq (Releases("list") \ {x}) \cup Y
  OBVIOUS
<1>4. z # y /\ Y = {y}  BY Tokens
<1>5. z \in Fixed(c) /\ z \notin Fixed(c)' /\ x = St(t, n)  OBVIOUS
<1> HIDE DEF x, Y
<1>6. /\ Holders(c)' \subseteq Holders(c) \cup Y
      /\ \A v \in {"own", "list", "array"} :
           <<v, Nobody, 0>> \in Holders(c)' => <<v, Nobody, 0>> \in Fixed(c)' \cup Y
  BY <1>1, <1>3, <1>5, ReleaseHolders
<1>7. z \in Holders(c) /\ z \notin Holders(c)'
  <2>1. z \in Holders(c)  BY <1>5 DEF Holders
  <2>2. z \in Holders(c)' => z \in Fixed(c)' \cup Y  BY <1>6
  <2> QED  BY <1>4, <1>5, <2>1, <2>2
<1> HIDE DEF z
<1>8. Holders(c)' \subseteq (Holders(c) \ {z}) \cup {y}  BY <1>4, <1>6, <1>7
<1>9. (count[c] + Debt(c))' = count[c] + Debt(c)
  <2>1. Debt(c)' = Debt(c)
    <3>1. CASE c \in {"list", "listMem"}
      BY <1>1, <3>1 DEF Debt
    <3>2. CASE c \notin {"list", "listMem"}
      <4>1. c # ListCounter /\ c # ListCounter'  BY <3>2 DEF ListCounter
      <4> QED  BY <4>1 DEF Debt
    <3> QED  BY <3>1, <3>2
  <2>2. count'[c] = count[c]  BY <1>1
  <2> QED  BY <2>1, <2>2
<1>10. count[c] + Debt(c) \in Nat  BY <1>1, CountTypes
<1> QED  BY <1>2, <1>7, <1>8, <1>9, <1>10, OtherHolder

\* What the callbacks of a count release
LEMMA ZeroReleases ==
  ASSUME LifeTypeOK
  PROVE  /\ \A c : NoRelease(<<>>, c)
         /\ \A i \in Interfaces : \A c : NoRelease(OnZero(i), c)
         /\ \A c : NoRelease(OnZero("loop"), c)
         /\ \A c : c # "loop" => NoRelease(OnZero("listMem"), c)
         /\ \A c : c # "listMem" => NoRelease(OnZero("list"), c)
         /\ \A c : c \notin {"icc", "loop", "list"} => NoRelease(OnZero("running"), c)
         /\ \A c : c \notin Interfaces => NoRelease(OnZero("icc"), c)
<1>1. \A c : NoRelease(<<>>, c)
  <2> DEFINE none == <<>>
  <2>1. 1..Len(none) = {}  OBVIOUS
  <2> HIDE DEF none
  <2>2. \A c : NoRelease(none, c)  BY <2>1 DEF NoRelease
  <2> QED  BY <2>2 DEF none
<1>2. ASSUME NEW i \in Interfaces, NEW c PROVE NoRelease(OnZero(i), c)
  <2> DEFINE a == [do |-> "quit", at |-> i]
             b == [do |-> "join", at |-> i]
             r == [do |-> "release", at |-> c]
             s == <<a, b>>
  <2>1. OnZero(i) = s  BY OnZeroIs
  <2>2. a # r /\ b # r
    <3>1. a.do = "quit" /\ b.do = "join" /\ r.do = "release"  OBVIOUS
    <3> QED  BY <3>1
  <2> HIDE DEF a, b, r
  <2>3. 1..Len(s) = {1, 2} /\ s[1] = a /\ s[2] = b  OBVIOUS
  <2> HIDE DEF s
  <2>4. \A j \in 1..Len(s) : s[j] # r  BY <2>2, <2>3
  <2> QED  BY <2>1, <2>4 DEF NoRelease, r
<1>3. ASSUME NEW c PROVE NoRelease(OnZero("loop"), c)
  <2> DEFINE a == [do |-> "exit", at |-> Nobody]
             r == [do |-> "release", at |-> c]
             s == <<a>>
  <2>1. OnZero("loop") = s  BY OnZeroIs
  <2>2. a # r
    <3>1. a.do = "exit" /\ r.do = "release"  OBVIOUS
    <3> QED  BY <3>1
  <2> HIDE DEF a, r
  <2>3. 1..Len(s) = {1} /\ s[1] = a  OBVIOUS
  <2> HIDE DEF s
  <2>4. \A j \in 1..Len(s) : s[j] # r  BY <2>2, <2>3
  <2> QED  BY <2>1, <2>4 DEF NoRelease, r
<1>4. ASSUME NEW c, c # "loop" PROVE NoRelease(OnZero("listMem"), c)
  <2> DEFINE a == [do |-> "release", at |-> "loop"]
             r == [do |-> "release", at |-> c]
             s == <<a>>
  <2>1. OnZero("listMem") = s  BY OnZeroIs
  <2>2. a # r
    <3>1. a.at = "loop" /\ r.at = c  OBVIOUS
    <3> QED  BY <1>4, <3>1
  <2> HIDE DEF a, r
  <2>3. 1..Len(s) = {1} /\ s[1] = a  OBVIOUS
  <2> HIDE DEF s
  <2>4. \A j \in 1..Len(s) : s[j] # r  BY <2>2, <2>3
  <2> QED  BY <2>1, <2>4 DEF NoRelease, r
<1>5. ASSUME NEW c, c # "listMem" PROVE NoRelease(OnZero("list"), c)
  <2> DEFINE a == [do |-> "unlink", at |-> Nobody]
             b == [do |-> "release", at |-> "listMem"]
             r == [do |-> "release", at |-> c]
             s == <<a, b>>
  <2>1. OnZero("list") = s  BY OnZeroIs
  <2>2. a # r /\ b # r
    <3>1. a.do = "unlink" /\ b.at = "listMem" /\ r.do = "release" /\ r.at = c  OBVIOUS
    <3> QED  BY <1>5, <3>1
  <2> HIDE DEF a, b, r
  <2>3. 1..Len(s) = {1, 2} /\ s[1] = a /\ s[2] = b  OBVIOUS
  <2> HIDE DEF s
  <2>4. \A j \in 1..Len(s) : s[j] # r  BY <2>2, <2>3
  <2> QED  BY <2>1, <2>4 DEF NoRelease, r
<1>6. ASSUME NEW c, c \notin {"icc", "loop", "list"} PROVE NoRelease(OnZero("running"), c)
  <2> DEFINE a == [do |-> "swap", at |-> Nobody]
             b == [do |-> "release", at |-> "icc"]
             e == [do |-> "release", at |-> "loop"]
             f == [do |-> "release", at |-> "list"]
             r == [do |-> "release", at |-> c]
             s == <<a, b, e, f>>
  <2>1. OnZero("running") = s  BY OnZeroIs
  <2>2. a # r /\ b # r /\ e # r /\ f # r
    <3>1. /\ a.do = "swap" /\ b.at = "icc" /\ e.at = "loop" /\ f.at = "list"
          /\ r.do = "release" /\ r.at = c
      OBVIOUS
    <3> QED  BY <1>6, <3>1
  <2> HIDE DEF a, b, e, f, r
  <2>3. 1..Len(s) = {1, 2, 3, 4} /\ s[1] = a /\ s[2] = b /\ s[3] = e /\ s[4] = f  OBVIOUS
  <2> HIDE DEF s
  <2>4. \A j \in 1..Len(s) : s[j] # r  BY <2>2, <2>3
  <2> QED  BY <2>1, <2>4 DEF NoRelease, r
<1>7. ASSUME NEW c, c \notin Interfaces PROVE NoRelease(OnZero("icc"), c)
  <2> DEFINE s == [k \in 1..made |-> [do |-> "release", at |-> Order[k]]]
  <2>1. OnZero("icc") = s  BY OnZeroIs
  <2>2. made \in Nat /\ made <= Len(Order)  BY OrderIs DEF LifeTypeOK
  <2>3. /\ DOMAIN s = 1..made
        /\ \A j \in 1..made : s[j] = [do |-> "release", at |-> Order[j]]
    OBVIOUS
  <2> HIDE DEF s
  <2>4. s \in Seq(Tasks)  BY <2>1, OnZeroTyped, TasksAre
  <2>5. 1..Len(s) = 1..made  BY <2>3, <2>4
  <2> SUFFICES ASSUME NEW j \in 1..Len(s), s[j] = [do |-> "release", at |-> c] PROVE FALSE
    BY <2>1 DEF NoRelease
  <2>6. s[j].at = Order[j]
    <3>1. s[j] = [do |-> "release", at |-> Order[j]]  BY <2>3, <2>5
    <3> QED  BY <3>1
  <2>7. s[j].at = c  OBVIOUS
  <2>8. j \in 1..Len(Order)  BY <2>2, <2>5, OrderIs
  <2>9. Order[j] \in Interfaces  BY <2>8, OrderIs
  <2> QED  BY <1>7, <2>6, <2>7, <2>9
<1> QED  BY <1>1, <1>2, <1>3, <1>4, <1>5, <1>6, <1>7

\* The array's clause of CountsOK
LEMMA ArrayStays ==
  ASSUME NEW t, NEW d, NEW n, NEW tasks, Releasing(t, d, n, tasks),
         d # "icc" \/ count[d] > 1, NoRelease(tasks, "icc") \/ count["icc"] > 0
  PROVE  count'["icc"] = 0 => count'["running"] = 0 /\ Releases("icc")' = {}
<1> SUFFICES ASSUME count'["icc"] = 0
             PROVE  count'["running"] = 0 /\ Releases("icc")' = {}
  OBVIOUS
<1>1. /\ t \in Threads /\ LifeTypeOK /\ LifeTypeOK'
      /\ \A c \in Counters : c # d \/ count[d] > 1 => (count'[c] > 0 <=> count[c] > 0)
      /\ \A c \in Counters : count'[c] > 0 => count[c] > 0
      /\ Pushed(t, n, tasks) /\ CountsOK
  BY ReleasingDoes
<1>2. {"icc", "running"} \subseteq Counters /\ "icc" \in Counters /\ "running" \in Counters
  BY DEF Counters
<1>3. /\ count["icc"] \in Nat /\ count["running"] \in Nat
      /\ count'["icc"] \in Nat /\ count'["running"] \in Nat
  BY <1>1, <1>2 DEF LifeTypeOK
<1>4. count'["icc"] > 0 <=> count["icc"] > 0  BY <1>1, <1>2
<1>5. count["icc"] = 0  BY <1>3, <1>4
<1>6. count["running"] = 0 /\ Releases("icc") = {}  BY <1>1, <1>5 DEF CountsOK
<1>7. count'["running"] = 0
  <2>1. ~(count'["running"] > 0)  BY <1>1, <1>2, <1>6
  <2> QED  BY <1>3, <2>1
<1>8. NoRelease(tasks, "icc")  BY <1>3, <1>5
<1>9. Releases("icc")' \subseteq Releases("icc") \ {St(t, n)}  BY <1>1, <1>8, DropsTop
<1> QED  BY <1>6, <1>7, <1>9

LEMMA CounterStays ==
  ASSUME NEW t, NEW d, NEW n, NEW tasks, Releasing(t, d, n, tasks)
  PROVE  /\ d # "list" \/ count[d] > 1 => ListCounter' = ListCounter
         /\ \A c \in Counters : (c # "icc" \/ count'["icc"] > 0) => (c # "icc" \/ count["icc"] > 0)
<1>1. /\ \A c \in Counters : c # d \/ count[d] > 1 => (count'[c] > 0 <=> count[c] > 0)
      /\ \A c \in Counters : count'[c] > 0 => count[c] > 0
  BY ReleasingDoes
<1>2. "list" \in Counters /\ "icc" \in Counters  BY DEF Counters
<1> QED  BY <1>1, <1>2 DEF ListCounter

LEMMA QuietReleaseCounts ==
  ASSUME NEW t, NEW d, NEW n, NEW tasks, Releasing(t, d, n, tasks),
         count[d] > 1 \/ d \in Interfaces \/ d = "loop"
  PROVE  CountsOK'
<1>1. /\ LifeTypeOK
      /\ count[d] > 1 => tasks = <<>>
      /\ ~(count[d] > 1) => tasks = OnZero(d)
  BY ReleasingDoes
<1>2. \A c : NoRelease(tasks, c)
  <2>1. CASE count[d] > 1  BY <1>1, <2>1, ZeroReleases
  <2>2. CASE ~(count[d] > 1) /\ d \in Interfaces  BY <1>1, <2>2, ZeroReleases
  <2>3. CASE ~(count[d] > 1) /\ d = "loop"  BY <1>1, <2>3, ZeroReleases
  <2> QED  BY <2>1, <2>2, <2>3
<1>3. d # "icc" \/ count[d] > 1
  BY InterfaceIsOther
<1>4. d # "list" \/ count[d] > 1
  BY InterfaceIsOther
<1>5. ListCounter' = ListCounter  BY <1>4, CounterStays
<1>6. ASSUME NEW c \in Counters, c # "icc" \/ count'["icc"] > 0 PROVE Enough(c)'
  <2>1. c # "icc" \/ count["icc"] > 0  BY <1>6, CounterStays
  <2> QED  BY <1>2, <1>5, <2>1, ReleaseSpares
<1>7. count'["icc"] = 0 => count'["running"] = 0 /\ Releases("icc")' = {}
  BY <1>2, <1>3, ArrayStays
<1> QED  BY <1>6, <1>7 DEF CountsOK

\* The memory of the list: the loop's reference is in the list no more.
LEMMA MemoryReleaseCounts ==
  ASSUME NEW t, NEW n, NEW tasks, Releasing(t, "listMem", n, tasks), ~(count["listMem"] > 1)
  PROVE  CountsOK'
<1> DEFINE d == "listMem"
           y == St(t, (n + Len(tasks)) - 1)
<1>1. /\ LifeTypeOK /\ LifeTypeOK' /\ t \in Threads
      /\ tasks = OnZero(d) /\ count[d] = 1 /\ count'[d] = 0
      /\ Pushed(t, n, tasks)
  BY ReleasingDoes
<1>2. \A c : c # "loop" => NoRelease(tasks, c)  BY <1>1, ZeroReleases
<1>3. ListCounter' = ListCounter  BY CounterStays
<1>4. "list" # "loop" /\ "icc" # "loop" /\ "loop" \in Counters /\ d \in Counters
  BY DEF Counters
<1>5. ASSUME NEW c \in Counters, c # "loop", c # "icc" \/ count'["icc"] > 0 PROVE Enough(c)'
  <2>1. c # "icc" \/ count["icc"] > 0  BY <1>5, CounterStays
  <2>2. NoRelease(tasks, c) /\ NoRelease(tasks, "list")  BY <1>2, <1>4, <1>5
  <2> QED  BY <1>3, <2>1, <2>2, ReleaseSpares
<1>6. Enough("loop")'
  <2> DEFINE r == [do |-> "release", at |-> "loop"]
  <2>1. tasks = <<r>>  BY <1>1, OnZeroIs
  <2> HIDE DEF r
  <2>2. 1 \in 1..Len(tasks) /\ \A j \in 1..Len(tasks) : tasks[j] = r => j = 1
    BY <2>1
  <2>3. Releases("loop")' \subseteq (Releases("loop") \ {St(t, b) : b \in {e \in Nat : e >= n}})
                                     \cup {St(t, n + Len(tasks) - 1)}
    BY <1>1, <2>2, OneRelease DEF r
  <2>4. n + Len(tasks) - 1 = (n + Len(tasks)) - 1
    <3>1. n \in Nat /\ Len(tasks) = 1  BY <1>1, <2>1 DEF Pushed
    <3> QED  BY <3>1
  <2>5. St(t, n) \in {St(t, b) : b \in {e \in Nat : e >= n}}
    <3>1. n \in {e \in Nat : e >= n}  BY <1>1 DEF Pushed
    <3> QED  BY <3>1
  <2>6. Releases("loop")' \subseteq (Releases("loop") \ {St(t, n)}) \cup {y}
    BY <2>3, <2>4, <2>5
  <2>7. /\ <<"list", Nobody, 0>> \in Fixed("loop") /\ <<"list", Nobody, 0>> \notin Fixed("loop")'
    <3>1. count["listMem"] > 0 /\ ~(count'["listMem"] > 0)  BY <1>1
    <3>2. \A k : <<"list", Nobody, 0>> \notin If(k, "own") /\ <<"list", Nobody, 0>> \notin If(k, "pool")
      BY DEF If
    <3>3. Fixed("loop")' = If(count["running"] > 0, "own")' \cup If(count["listMem"] > 0, "list")'
                           \cup If(pool, "pool")'
      BY DEF Fixed
    <3> QED  BY <3>1, <3>3 DEF Fixed, If
  <2>8. "loop" # ListCounter'  BY DEF ListCounter
  <2> QED  BY <1>4, <2>6, <2>7, <2>8, ReleaseReplaces
<1>7. count'["icc"] = 0 => count'["running"] = 0 /\ Releases("icc")' = {}
  BY <1>2, <1>4, ArrayStays
<1> QED  BY <1>5, <1>6, <1>7 DEF CountsOK

\* No more than one holder: who releases is the only one.
LEMMA LastHolder ==
  ASSUME NEW t, NEW d, NEW n, NEW tasks, Releasing(t, d, n, tasks), ~(count[d] > 1), Debt(d) = 0
  PROVE  \A y \in Holders(d) : y = St(t, n)
<1>1. /\ LifeTypeOK /\ d \in Counters /\ count[d] = 1 /\ St(t, n) \in Holders(d) /\ Enough(d)
  BY ReleasingDoes
<1> SUFFICES ASSUME NEW y \in Holders(d), y # St(t, n) PROVE FALSE  OBVIOUS
<1>2. count[d] + Debt(d) >= 2  BY <1>1, HeldIsPositive
<1> QED  BY <1>1, <1>2

\* ic_running: interfaces_quit releases in its turn what it held.
LEMMA RunningReleaseCounts ==
  ASSUME NEW t, NEW n, NEW tasks, Releasing(t, "running", n, tasks), ~(count["running"] > 1)
  PROVE  CountsOK'
<1> DEFINE d == "running"
           Rel(c) == [do |-> "release", at |-> c]
<1>1. /\ LifeTypeOK /\ LifeTypeOK' /\ t \in Threads
      /\ tasks = OnZero(d) /\ count[d] = 1 /\ count'[d] = 0
      /\ Pushed(t, n, tasks) /\ CountsOK
      /\ \A c \in Counters : c # d => count'[c] = count[c]
  BY ReleasingDoes
<1>2. \A c : c \notin {"icc", "loop", "list"} => NoRelease(tasks, c)  BY <1>1, ZeroReleases
<1>3. ListCounter' = ListCounter  BY CounterStays
<1>4. {"icc", "running", "loop", "list", "listMem"} \subseteq Counters  BY DEF Counters
<1>5. count["icc"] > 0 /\ count["list"] > 0 /\ count["loop"] > 0
  BY <1>1, ConfigHolds
<1>6. ListCounter = "list"  BY <1>5 DEF ListCounter
<1>7. ASSUME NEW c \in Counters, c \notin {"icc", "loop", "list"} PROVE Enough(c)'
  <2>1. NoRelease(tasks, c) /\ c # ListCounter'  BY <1>2, <1>3, <1>6, <1>7
  <2> QED  BY <1>3, <1>7, <2>1, ReleaseSpares
<1>8. ASSUME NEW c \in {"icc", "loop", "list"} PROVE Enough(c)'
  <2> DEFINE a == [do |-> "swap", at |-> Nobody]
             x == Rel("icc")
             y == Rel("loop")
             z == Rel("list")
  <2>1. tasks = <<a, x, y, z>>  BY <1>1, OnZeroIs
  <2>2. a # x /\ a # y /\ a # z /\ x # y /\ x # z /\ y # z
    <3>1. a.do = "swap" /\ x.do = "release" /\ y.do = "release" /\ z.do = "release"
          /\ x.at = "icc" /\ y.at = "loop" /\ z.at = "list"
      OBVIOUS
    <3> QED  BY <3>1
  <2>3. Rel(c) \in {x, y, z}  OBVIOUS
  <2> HIDE DEF a, x, y, z, Rel
  <2>4. 1..Len(tasks) = {1, 2, 3, 4} /\ tasks[1] = a /\ tasks[2] = x /\ tasks[3] = y /\ tasks[4] = z
    BY <2>1
  <2>5. PICK k \in 1..Len(tasks) : \A j \in 1..Len(tasks) : tasks[j] = Rel(c) => j = k
    BY <2>2, <2>3, <2>4
  <2>6. \A j \in 1..Len(tasks) : tasks[j] = [do |-> "release", at |-> c] => j = k
    BY <2>5 DEF Rel
  <2>7. PICK y1, b : y1 = St(t, b) /\ b = n + Len(tasks) - k  OBVIOUS
  <2>8. Releases(c)' \subseteq (Releases(c) \ {St(t, b2) : b2 \in {e \in Nat : e >= n}}) \cup {y1}
    BY <1>1, <2>6, <2>7, OneRelease
  <2>9. St(t, n) \in {St(t, b2) : b2 \in {e \in Nat : e >= n}}
    <3>1. n \in {e \in Nat : e >= n}  BY <1>1 DEF Pushed
    <3> QED  BY <3>1
  <2>10. Releases(c)' \subseteq (Releases(c) \ {St(t, n)}) \cup {y1}
    BY <2>8, <2>9
  <2>11. c = ListCounter' => Releases("list")' \subseteq (Releases("list") \ {St(t, n)}) \cup {y1}
    BY <1>3, <1>6, <2>10
  <2>12. <<"own", Nobody, 0>> \in Fixed(c) /\ <<"own", Nobody, 0>> \notin Fixed(c)'
    <3>1. count["running"] > 0 /\ ~(count'["running"] > 0)  BY <1>1
    <3> DEFINE o == <<"own", Nobody, 0>>
    <3>2. \A k2 : o \notin If(k2, "list") /\ o \notin If(k2, "pool")  BY DEF If
    <3>3. \A w : If(FALSE, w) = {}  BY DEF If
    <3>4. o \in If(TRUE, "own")  BY DEF If
    <3>5. If(count["running"] > 0, "own") = If(TRUE, "own")
          /\ If(count["running"] > 0, "own")' = If(FALSE, "own")
      BY <3>1 DEF If
    <3> HIDE DEF o
    <3>6. CASE c = "icc"  BY <3>3, <3>4, <3>5, <3>6 DEF Fixed, o
    <3>7. CASE c = "loop"
      <4>1. /\ Fixed(c) = If(count["running"] > 0, "own") \cup If(count["listMem"] > 0, "list")
                          \cup If(pool, "pool")
            /\ Fixed(c)' = If(count["running"] > 0, "own")' \cup If(count["listMem"] > 0, "list")'
                           \cup If(pool, "pool")'
        BY <3>7 DEF Fixed
      <4>2. o \notin If(count["listMem"] > 0, "list")' /\ o \notin If(pool, "pool")'
        BY DEF If, o
      <4> QED  BY <3>3, <3>4, <3>5, <4>1, <4>2 DEF o
    <3>8. CASE c = "list"  BY <3>3, <3>4, <3>5, <3>8 DEF Fixed, o
    <3> QED  BY <3>6, <3>7, <3>8
  <2>13. c \in Counters /\ c # "running"  BY <1>4
  <2> QED  BY <1>3, <1>5, <2>7, <2>10, <2>11, <2>12, <2>13, ReleaseReplaces
<1>9. count'["icc"] = 0 => count'["running"] = 0 /\ Releases("icc")' = {}
  BY <1>5, ArrayStays
<1> QED  BY <1>7, <1>8, <1>9 DEF CountsOK

\* The array: ic_done for all releases the interfaces.
LEMMA ArrayReleaseCounts ==
  ASSUME NEW t, NEW n, NEW tasks, Releasing(t, "icc", n, tasks), ~(count["icc"] > 1)
  PROVE  CountsOK'
<1> DEFINE d == "icc"
           x == St(t, n)
<1>1. /\ LifeTypeOK /\ LifeTypeOK' /\ t \in Threads
      /\ tasks = OnZero(d) /\ count[d] = 1 /\ count'[d] = 0
      /\ Pushed(t, n, tasks) /\ CountsOK
      /\ \A c \in Counters : c # d => count'[c] = count[c]
  BY ReleasingDoes
<1>2. \A c : c \notin Interfaces => NoRelease(tasks, c)  BY <1>1, ZeroReleases
<1>3. ListCounter' = ListCounter  BY CounterStays
<1>4. {"icc", "running", "loop", "list", "listMem"} \subseteq Counters
      /\ {"icc", "running", "loop", "list", "listMem"} \cap Interfaces = {}
  BY InterfaceIsOther DEF Counters
<1>5. ASSUME NEW c \in Counters, c \notin Interfaces PROVE Enough(c)'
  <2>1. NoRelease(tasks, c) /\ NoRelease(tasks, "list")  BY <1>2, <1>4, <1>5
  <2> QED  BY <1>1, <1>3, <2>1, ReleaseSpares
<1>6. ASSUME NEW i \in Interfaces PROVE Enough(i)'
  <2>1. PICK k \in 1..Len(Order) : i = Order[k]  BY OrderIs
  <2>2. \A j \in 1..Len(tasks) : tasks[j] = [do |-> "release", at |-> i] => j = k
    <3> SUFFICES ASSUME NEW j \in 1..Len(tasks), tasks[j] = [do |-> "release", at |-> i]
                 PROVE  j = k
      OBVIOUS
    <3>1. tasks = [m \in 1..made |-> [do |-> "release", at |-> Order[m]]]  BY <1>1, OnZeroIs
    <3>2. made \in Nat /\ made <= Len(Order)  BY <1>1, OrderIs DEF LifeTypeOK
    <3>3. DOMAIN tasks = 1..made  BY <3>1
    <3>4. tasks \in Seq(Tasks)  BY <1>1 DEF Pushed
    <3>5. j \in 1..made
      <4>1. \A s \in Seq(Tasks) : DOMAIN s = 1..Len(s)  OBVIOUS
      <4>2. 1..Len(tasks) = 1..made  BY <3>3, <3>4, <4>1
      <4> QED  BY <4>2
    <3>6. tasks[j].at = Order[j]  BY <3>1, <3>5
    <3>7. tasks[j].at = i  OBVIOUS
    <3>8. j \in DOMAIN Order /\ k \in DOMAIN Order  BY <2>1, <3>2, <3>5, OrderIs
    <3> QED  BY <2>1, <3>6, <3>7, <3>8, NamesAreApart
  <2>3. PICK y, b : y = St(t, b) /\ b = n + Len(tasks) - k  OBVIOUS
  <2>4. Releases(i)' \subseteq (Releases(i) \ {x}) \cup {y}
    <3>1. CASE k \in 1..Len(tasks)
      <4>1. Releases(i)' \subseteq (Releases(i) \ {St(t, b2) : b2 \in {e \in Nat : e >= n}}) \cup {y}
        BY <1>1, <2>2, <2>3, <3>1, OneRelease
      <4>2. x \in {St(t, b2) : b2 \in {e \in Nat : e >= n}}
        <5>1. n \in {e \in Nat : e >= n}  BY <1>1 DEF Pushed
        <5> QED  BY <5>1
      <4> QED  BY <4>1, <4>2
    <3>2. CASE k \notin 1..Len(tasks)
      <4>1. NoRelease(tasks, i)  BY <2>2, <3>2 DEF NoRelease
      <4> QED  BY <1>1, <4>1, DropsTop
    <3> QED  BY <3>1, <3>2
  <2>5. i \in Counters /\ i \notin {"icc", "list", "listMem"} /\ i # ListCounter'
    BY <1>4 DEF Counters, ListCounter
  <2>6. <<"array", Nobody, 0>> \in Fixed(i) /\ <<"array", Nobody, 0>> \notin Fixed(i)'
    <3>1. i \notin {"icc", "running", "loop", "list", "listMem"}  BY InterfaceIsOther
    <3>2. /\ Fixed(i) = If(count["icc"] > 0, "array") \cup If(Serving(i), "thread")
          /\ Fixed(i)' = If(count["icc"] > 0, "array")' \cup If(Serving(i), "thread")'
      BY <3>1 DEF Fixed
    <3>3. count["icc"] > 0 /\ ~(count'["icc"] > 0)  BY <1>1
    <3>4. If(count["icc"] > 0, "array") = {<<"array", Nobody, 0>>}
          /\ If(count["icc"] > 0, "array")' = {}
      BY <3>3 DEF If
    <3>5. <<"array", Nobody, 0>> \notin If(Serving(i), "thread")'  BY DEF If
    <3> QED  BY <3>2, <3>4, <3>5
  <2> QED  BY <2>3, <2>4, <2>5, <2>6, ReleaseReplaces
<1>7. count'["running"] = 0 /\ Releases("icc")' = {}
  <2>1. Debt(d) = 0  BY DEF Debt, ListCounter
  <2>2. \A y \in Holders(d) : y = x  BY <1>1, <2>1, LastHolder
  <2>3. <<"own", Nobody, 0>> # x  BY Tokens
  <2>4. ~(count["running"] > 0)
    <3> SUFFICES ASSUME count["running"] > 0 PROVE FALSE  OBVIOUS
    <3>1. <<"own", Nobody, 0>> \in Fixed(d)  BY DEF Fixed, If
    <3>2. <<"own", Nobody, 0>> \in Holders(d)  BY <3>1 DEF Holders
    <3> QED  BY <2>2, <2>3, <3>2
  <2>5. count["running"] \in Nat  BY <1>1, <1>4 DEF LifeTypeOK
  <2>6. count'["running"] = 0  BY <1>1, <1>4, <2>4, <2>5
  <2>7. Releases("icc")' \subseteq Releases("icc") \ {x}  BY <1>1, <1>2, <1>4, DropsTop
  <2>8. Releases("icc") \subseteq Holders("icc")  BY DEF Holders
  <2> QED  BY <2>2, <2>6, <2>7, <2>8
<1> QED  BY <1>1, <1>5, <1>6, <1>7 DEF CountsOK

\* The list: those who read from it keep its memory from now on.
LEMMA ListReleaseCounts ==
  ASSUME NEW t, NEW n, NEW tasks, Releasing(t, "list", n, tasks), ~(count["list"] > 1)
  PROVE  CountsOK'
<1> DEFINE d == "list"
           x == St(t, n)
           own == <<"own", Nobody, 0>>
<1>1. /\ LifeTypeOK /\ LifeTypeOK' /\ t \in Threads /\ n \in Nat
      /\ tasks = OnZero(d) /\ count[d] = 1 /\ count'[d] = 0
      /\ Pushed(t, n, tasks) /\ CountsOK
      /\ \A c \in Counters : c # d => count'[c] = count[c]
      /\ UNCHANGED <<phase, pool, sources>> /\ (Consuming' <=> Consuming)
      /\ Milder /\ Nexts' \subseteq Nexts
      /\ x \in Holders(d) /\ x \in Releases(At(t)) /\ Enough(d)
  BY ReleasingDoes
<1>2. \A c : c # "listMem" => NoRelease(tasks, c)  BY <1>1, ZeroReleases
<1>3. {"icc", "running", "loop", "list", "listMem"} \subseteq Counters /\ d \in Counters
      /\ {"icc", "running", "loop", "list", "listMem"} \cap Interfaces = {}
  BY InterfaceIsOther DEF Counters
<1>4. ListCounter = "list" /\ ListCounter' = "listMem"
  BY <1>1 DEF ListCounter
<1>5. ASSUME NEW c \in Counters, c \notin {"list", "listMem"}, c # "icc" \/ count'["icc"] > 0
      PROVE  Enough(c)'
  <2>1. NoRelease(tasks, c) /\ c # ListCounter'  BY <1>2, <1>4, <1>5
  <2>2. c # "icc" \/ count["icc"] > 0  BY <1>5, CounterStays, <1>1
  <2> QED  BY <1>5, <2>1, <2>2, ReleaseSpares
<1>6. At(t) = "list"
  <2>1. Due(t, "release") /\ d = Counter(t)  BY DEF Releasing
  <2> QED  BY <2>1 DEF Counter
<1>7. Releases("list")' \subseteq Releases("list") \ {x}  BY <1>1, <1>2, DropsTop
<1>8. Running' \subseteq Running  BY <1>1, KeepsRunningReads DEF Milder
<1>9. Holders(d) = Fixed(d) \cup (Releases("list") \cup Running)
  BY <1>4 DEF Holders, Users, ListUsers
<1>10. count["running"] = 0 /\ \E p : Releases("list") \subseteq {x} /\ Running \subseteq {p}
                                      /\ (Debt(d) = 0 => Running = {})
  <2>1. own \in Holders(d) <=> count["running"] > 0
    <3>1. Fixed(d) = If(count["running"] > 0, "own")  BY DEF Fixed
    <3>2. own \notin Releases("list") \cup Running
      BY ReleasesAre, Tokens DEF Running
    <3> QED  BY <1>9, <3>1, <3>2 DEF If
  <2>2. own # x  BY Tokens
  <2>3. \A y \in Running : y # x  BY Tokens DEF Running
  <2>4. \A y \in Running : y # own  BY Tokens DEF Running
  <2>5. count["running"] \in Nat  BY <1>1, <1>3 DEF LifeTypeOK
  <2> HIDE DEF own, x
  <2>6. CASE Debt(d) = 0
    <3>1. \A y \in Holders(d) : y = x
      <4>1. \A y \in Holders(d) : y = St(t, n)  BY <2>6, LastHolder
      <4> QED  BY <4>1 DEF x
    <3>2. ~(count["running"] > 0)  BY <2>1, <2>2, <3>1
    <3>3. Running = {} /\ Releases("list") \subseteq {x}  BY <1>9, <2>3, <3>1
    <3> QED  BY <2>5, <3>2, <3>3
  <2>7. CASE Debt(d) # 0
    <3>1. Consuming /\ Debt(d) = 1  BY <2>7 DEF Debt
    <3>2. PICK r \in Reads : read[r] = "running"
      <4>1. LifeTypeOK /\ Steady  BY DEF Releasing
      <4> QED  BY <3>1, <4>1, ConsumingIs
    <3> DEFINE p == <<"read", r, 0>>
    <3>3. p \in Running  BY <3>2 DEF Running
    <3> HIDE DEF p
    <3>4. p \in Holders(d) /\ p # x /\ p # own  BY <1>9, <2>3, <2>4, <3>3
    <3>5. ~(count[d] + Debt(d) >= 3)  BY <1>1, <3>1
    <3>6. \A y, z \in Holders(d) : ~(y # x /\ z # x /\ y # z)
      BY <1>1, <1>3, <3>5, HeldIsPositive
    <3>7. \A y \in Holders(d) : y = x \/ y = p  BY <3>4, <3>6
    <3>8. ~(count["running"] > 0)  BY <2>1, <2>2, <3>4, <3>7
    <3>9. Running \subseteq {p}  BY <1>9, <2>3, <3>7
    <3>10. Releases("list") \subseteq {x}
      <4>1. p \notin Releases("list")  BY ReleasesAre, Tokens DEF p
      <4> QED  BY <1>9, <3>7, <4>1
    <3> QED  BY <2>5, <2>7, <3>8, <3>9, <3>10
  <2> QED  BY <2>6, <2>7
<1>11. PICK p : /\ Releases("list") \subseteq {x} /\ Running \subseteq {p}
                /\ (Debt(d) = 0 => Running = {})
  BY <1>10
<1>12. Releases("list")' = {} /\ Running' \subseteq {p} /\ (Debt(d) = 0 => Running' = {})
  BY <1>7, <1>8, <1>11
<1>13. Debt(d) \in {0, 1} /\ Debt("listMem") = 0 /\ Debt(d)' = 0 /\ Debt("listMem")' = Debt(d)
  BY <1>1, <1>4 DEF Debt
<1>14. count'["running"] = 0  BY <1>1, <1>3, <1>10
<1>15. Enough("list")'
  <2>1. Fixed("list")' = {}  BY <1>14 DEF Fixed, If
  <2>2. Users("list")' = {}  BY <1>4 DEF Users, ListUsers
  <2>3. Holders("list")' = {}  BY <2>1, <2>2 DEF Holders
  <2>4. IsFiniteSet(Holders("list")') /\ Cardinality(Holders("list")') = 0
    BY <2>3, FS_EmptySet
  <2>5. count'["list"] + Debt("list")' = 0  BY <1>1, <1>13
  <2> QED  BY <2>4, <2>5 DEF Enough
<1>16. Enough("listMem")'
  <2> DEFINE S == Holders("listMem")
             T == (S \ {own}) \cup {x}
             I == {<<"interface", i, 0>> : i \in {j \in Interfaces : Listing(j)}}
  <2>1. Enough("listMem")  BY <1>1, <1>3 DEF CountsOK
  <2>2. /\ S = Fixed("listMem") \cup (I \cup ListUsers("listMem")) \cup Releases("listMem")
        /\ S' = Fixed("listMem")' \cup (I' \cup ListUsers("listMem")') \cup Releases("listMem")'
    BY DEF Holders, Users
  <2>3. own \in S
    <3>1. own \in Fixed("listMem")  BY <1>1 DEF Fixed, If
    <3> QED  BY <2>2, <3>1
  <2>4. Fixed("listMem")' \subseteq Fixed("listMem") /\ own \notin Fixed("listMem")'
    <3>1. count["list"] > 0 /\ ~(count'["list"] > 0)  BY <1>1
    <3> QED  BY <1>1, <3>1 DEF Fixed, If
  <2>5. I' \subseteq I /\ own \notin I'
    <3>1. \A i \in Interfaces : Listing(i)' => Listing(i)  BY <1>1 DEF Milder
    <3>2. own \notin I  BY Tokens
    <3> QED  BY <3>1, <3>2
  <2>6. ListUsers("listMem")' \subseteq {p} /\ (Debt(d) = 0 => ListUsers("listMem")' = {})
    <3>1. ListUsers("listMem")' = Releases("list")' \cup Running'  BY <1>4 DEF ListUsers
    <3> QED  BY <1>12, <3>1
  <2>7. Releases("listMem")' \subseteq Releases("listMem") \cup {x}
    <3> DEFINE a == [do |-> "unlink", at |-> Nobody]
               b == [do |-> "release", at |-> "listMem"]
    <3>1. tasks = <<a, b>>  BY <1>1, OnZeroIs
    <3>2. a # b
      <4>1. a.do = "unlink" /\ b.do = "release"  OBVIOUS
      <4> QED  BY <4>1
    <3> HIDE DEF a, b
    <3>3. 1..Len(tasks) = {1, 2} /\ Len(tasks) = 2 /\ tasks[1] = a /\ tasks[2] = b  BY <3>1
    <3>4. 2 \in 1..Len(tasks) /\ \A j \in 1..Len(tasks) : tasks[j] = b => j = 2
      BY <3>2, <3>3
    <3>5. Releases("listMem")' \subseteq Releases("listMem") \cup {St(t, n + Len(tasks) - 2)}
      BY <1>1, <3>4, OneRelease DEF b
    <3>6. n + Len(tasks) - 2 = n
      <4>1. \A m \in Nat : m + 2 - 2 = m  OBVIOUS
      <4>2. n \in Nat /\ Len(tasks) = 2  BY <1>1, <3>3
      <4> QED  BY ONLY <4>1, <4>2
    <3> QED  BY <3>5, <3>6
  <2>8. own \notin Releases("listMem")  BY ReleasesAre, Tokens
  <2>9. S' \subseteq T \cup {p} /\ (Debt(d) = 0 => S' \subseteq T)
    <3>1. own # x  BY Tokens
    <3> DEFINE R == Releases("listMem")
               F == Fixed("listMem")
               L == ListUsers("listMem")
    <3>2. F' \subseteq S \ {own}  BY <2>2, <2>4
    <3>3. I' \subseteq S \ {own}  BY <2>2, <2>5
    <3>4. R' \subseteq (S \ {own}) \cup {x}  BY <2>2, <2>7, <2>8
    <3>5. S' = F' \cup (I' \cup L') \cup R'  BY <2>2
    <3> HIDE DEF R, F, L, I, S, own, x
    <3> QED  BY <2>6, <3>2, <3>3, <3>4, <3>5 DEF L
  <2>10. IsFiniteSet(T) /\ Cardinality(T) <= Cardinality(S) /\ Cardinality(S) <= count["listMem"]
         /\ IsFiniteSet(S)
    <3>1. IsFiniteSet(S) /\ Cardinality(S) <= count["listMem"] + 0  BY <1>13, <2>1 DEF Enough
    <3>2. count["listMem"] \in Nat  BY <1>1, <1>3 DEF LifeTypeOK
    <3>3. IsFiniteSet(T) /\ Cardinality(T) <= Cardinality(S)
      <4> HIDE DEF S, own, x
      <4>1. own \in S /\ T \subseteq (S \ {own}) \cup {x}  BY <2>3
      <4> HIDE DEF T
      <4> QED  BY <3>1, <4>1, OneForOne
    <3>4. count["listMem"] + 0 = count["listMem"]  BY <3>2
    <3> QED  BY <3>1, <3>3, <3>4
  <2>11. count'["listMem"] = count["listMem"] /\ count["listMem"] \in Nat
    BY <1>1, <1>3 DEF LifeTypeOK
  <2> HIDE DEF T, S
  <2>12. Cardinality(T) \in Nat /\ Cardinality(S) \in Nat
    BY <2>10, FS_CardinalityType
  <2>13. CASE Debt(d) = 0
    <3>1. IsFiniteSet(S') /\ Cardinality(S') <= Cardinality(T)
      BY <2>9, <2>10, <2>13, NotMore
    <3>2. Cardinality(S') \in Nat  BY <3>1, FS_CardinalityType
    <3>3. Cardinality(S') <= count'["listMem"] + Debt("listMem")'
      <4>1. PICK m1, m2, m3, m4 : m1 = Cardinality(S') /\ m2 = Cardinality(T)
                                  /\ m3 = Cardinality(S) /\ m4 = count["listMem"]
        OBVIOUS
      <4>2. m1 \in Nat /\ m2 \in Nat /\ m3 \in Nat /\ m4 \in Nat /\ m1 <= m2 /\ m2 <= m3 /\ m3 <= m4
        BY <2>10, <2>11, <2>12, <3>1, <3>2, <4>1
      <4>3. m1 <= m4 + 0  BY ONLY <4>2
      <4> QED  BY <1>13, <2>11, <2>13, <4>1, <4>3
    <3> QED  BY <3>1, <3>3 DEF Enough, S
  <2>14. CASE Debt(d) = 1
    <3>1. IsFiniteSet(S') /\ Cardinality(S') <= Cardinality(T) + 1
      BY <2>9, <2>10, OneMore
    <3>2. Cardinality(S') \in Nat  BY <3>1, FS_CardinalityType
    <3>3. Cardinality(S') <= count'["listMem"] + Debt("listMem")'
      <4>1. PICK m1, m2, m3, m4 : m1 = Cardinality(S') /\ m2 = Cardinality(T)
                                  /\ m3 = Cardinality(S) /\ m4 = count["listMem"]
        OBVIOUS
      <4>2. m1 \in Nat /\ m2 \in Nat /\ m3 \in Nat /\ m4 \in Nat /\ m1 <= m2 + 1 /\ m2 <= m3
            /\ m3 <= m4
        BY <2>10, <2>11, <2>12, <3>1, <3>2, <4>1
      <4>3. m1 <= m4 + 1  BY ONLY <4>2
      <4> QED  BY <1>13, <2>11, <2>14, <4>1, <4>3
    <3> QED  BY <3>1, <3>3 DEF Enough, S
  <2> QED  BY <1>13, <2>13, <2>14
<1>17. count'["icc"] = 0 => count'["running"] = 0 /\ Releases("icc")' = {}
  <2>1. NoRelease(tasks, "icc")  BY <1>2
  <2>2. d # "icc"  OBVIOUS
  <2> QED  BY <2>1, <2>2, ArrayStays
<1> QED  BY <1>5, <1>15, <1>16, <1>17 DEF CountsOK

LEMMA ReleaseCounts ==
  ASSUME NEW t, NEW d, NEW n, NEW tasks, Releasing(t, d, n, tasks)
  PROVE  CountsOK'
<1>1. d \in Counters  BY ReleasingDoes
<1>2. CASE count[d] > 1 \/ d \in Interfaces \/ d = "loop"  BY <1>2, QuietReleaseCounts
<1>3. CASE ~(count[d] > 1) /\ d = "listMem"  BY <1>3, MemoryReleaseCounts
<1>4. CASE ~(count[d] > 1) /\ d = "running"  BY <1>4, RunningReleaseCounts
<1>5. CASE ~(count[d] > 1) /\ d = "icc"  BY <1>5, ArrayReleaseCounts
<1>6. CASE ~(count[d] > 1) /\ d = "list"  BY <1>6, ListReleaseCounts
<1> QED  BY <1>1, <1>2, <1>3, <1>4, <1>5, <1>6, CounterKinds

\* What its callbacks do once
LEMMA ReleaseFlat ==
  ASSUME NEW t, NEW d, NEW n, NEW tasks, Releasing(t, d, n, tasks), NEW j \in 1..Len(tasks)
  PROVE  /\ tasks[j].do \in {"release", "swap", "exit", "unlink", "quit", "join"}
         /\ tasks[j].do = "swap" => d = "running"
         /\ tasks[j].do = "exit" => d = "loop"
         /\ tasks[j].do = "unlink" => d = "list"
         /\ tasks[j].do \in {"quit", "join"} => d \in Interfaces
         /\ tasks[j].do = "quit" => tasks[j].at = d
         /\ ~(count[d] > 1) /\ tasks = OnZero(d) /\ count'[d] = 0
<1>1. /\ LifeTypeOK /\ d \in Counters
      /\ count[d] > 1 => tasks = <<>>
      /\ ~(count[d] > 1) => tasks = OnZero(d) /\ count'[d] = 0
  BY ReleasingDoes
<1>2. ~(count[d] > 1)
  <2> SUFFICES ASSUME count[d] > 1 PROVE FALSE  OBVIOUS
  <2> DEFINE none == <<>>
  <2>1. tasks = none /\ 1..Len(none) = {}  BY <1>1
  <2> HIDE DEF none
  <2> QED  BY <2>1
<1>3. tasks = OnZero(d)  BY <1>1, <1>2
<1> QED  BY <1>1, <1>2, <1>3, OnZeroFlat

LEMMA ReleaseOnce ==
  ASSUME NEW t, NEW d, NEW n, NEW tasks, Releasing(t, d, n, tasks)
  PROVE  QuitOK' /\ JoinOK' /\ ExitOK'
<1>1. /\ t \in Threads /\ d \in Counters /\ n \in Nat /\ LifeTypeOK /\ LifeTypeOK'
      /\ count[d] \in Nat /\ count[d] > 0 /\ count'[d] = count[d] - 1
      /\ \A c \in Counters : c # d => count'[c] = count[c]
      /\ ~(count[d] > 1) => tasks = OnZero(d) /\ count[d] = 1 /\ count'[d] = 0
      /\ UNCHANGED <<phase, pc, shut>> /\ exit' = exit
      /\ Pushed(t, n, tasks) /\ St(t, n) \in Holders(d) /\ CountsOK
  BY ReleasingDoes
<1>2. Steady  BY DEF Releasing
<1>3. \A c \in Counters : count[c] = 0 => count'[c] = 0
  BY <1>1
<1>4. \A i \in Interfaces : i \in Counters  BY DEF Counters
<1>5. ASSUME d \in Interfaces, ~(count[d] > 1) PROVE pc[d] # "unborn"
  <2>1. count["icc"] = 0
    <3> SUFFICES ASSUME count["icc"] # 0 PROVE FALSE  OBVIOUS
    <3>1. count["icc"] \in Nat  BY <1>1 DEF LifeTypeOK, Counters
    <3>2. count["icc"] > 0  BY <3>1
    <3>3. <<"array", Nobody, 0>> \in Holders(d)
      <4>1. <<"array", Nobody, 0>> \in If(count["icc"] > 0, "array")  BY <3>2 DEF If
      <4> QED  BY <1>5, <4>1, InterfaceIsOther
    <3>4. Debt(d) = 0  BY <1>5, InterfaceIsOther DEF Debt, ListCounter
    <3>5. <<"array", Nobody, 0>> = St(t, n)  BY <1>5, <3>3, <3>4, LastHolder
    <3> QED  BY <3>5, Tokens
  <2>2. count["running"] = 0  BY <1>1, <2>1 DEF CountsOK
  <2>3. phase # "config"  BY <1>1, <2>2, ConfigHolds
  <2> QED  BY <1>1, <1>2, <1>5, <2>3, BornInLoop DEF Steady
<1>6. QuitOK'
  <2>1. \A j \in 1..Len(tasks) : \A i \in Interfaces :
          tasks[j] = [do |-> "quit", at |-> i] => pc'[i] # "unborn"
    <3> SUFFICES ASSUME NEW j \in 1..Len(tasks), NEW i \in Interfaces,
                        tasks[j] = [do |-> "quit", at |-> i]
                 PROVE  pc'[i] # "unborn"
      OBVIOUS
    <3>1. tasks[j].do = "quit" /\ tasks[j].at = i  OBVIOUS
    <3>2. d \in Interfaces /\ d = i /\ ~(count[d] > 1)  BY <3>1, ReleaseFlat
    <3> QED  BY <1>1, <1>5, <3>2
  <2> QED  BY <1>1, <1>2, <2>1, QuitFrame DEF Steady
<1>7. ExitOK'
  <2>1. \A j \in 1..Len(tasks) : tasks[j].do = "exit" => count'["loop"] = 0
    BY ReleaseFlat
  <2>2. "loop" \in Counters  BY DEF Counters
  <2> QED  BY <1>1, <1>2, <1>3, <2>1, <2>2, ExitFrame DEF Steady
<1>8. JoinOK'
  <2>1. CASE \A j \in 1..Len(tasks) : tasks[j].do # "join"
    BY <1>1, <1>2, <1>3, <1>4, <2>1, JoinFrame DEF Steady
  <2>2. CASE ~ \A j \in 1..Len(tasks) : tasks[j].do # "join"
    <3>1. PICK j \in 1..Len(tasks) : tasks[j].do = "join"  BY <2>2
    <3>2. d \in Interfaces /\ tasks = OnZero(d) /\ ~(count[d] > 1)  BY <3>1, ReleaseFlat
    <3>3. count[d] = 1 /\ count'[d] = 0  BY <1>1, <3>2
    <3>4. JoinOK  BY <1>2 DEF Steady
    <3>5. d \notin shut  BY <3>2, <3>3, <3>4 DEF JoinOK
    <3>6. \A u \in Threads, b \in Nat : ~Has(u, b, "join", d)
      BY <3>2, <3>3, <3>4 DEF JoinOK
    <3> DEFINE x == [do |-> "quit", at |-> d]
               y == [do |-> "join", at |-> d]
    <3>7. tasks = <<x, y>>  BY <3>2, OnZeroIs
    <3>8. /\ \A i : [do |-> "join", at |-> i] = y => i = d
          /\ \A i : x # [do |-> "join", at |-> i]
      <4>1. \A i : [do |-> "join", at |-> i].at = i /\ [do |-> "join", at |-> i].do = "join"
        OBVIOUS
      <4>2. y.at = d /\ x.do = "quit"  OBVIOUS
      <4> QED  BY <4>1, <4>2
    <3> HIDE DEF x, y
    <3>9. 1..Len(tasks) = {1, 2} /\ Len(tasks) = 2 /\ tasks[1] = x /\ tasks[2] = y  BY <3>7
    <3>10. ASSUME NEW u \in Threads, NEW b \in Nat, NEW i \in Interfaces, Has(u, b, "join", i)'
           PROVE  \/ Has(u, b, "join", i) /\ i # d
                  \/ u = t /\ b = n + Len(tasks) - 2 /\ i = d
      <4>1. \/ (u # t \/ b < n) /\ Has(u, b, "join", i)
            \/ /\ u = t
               /\ \E k \in 1..Len(tasks) : /\ b = n + Len(tasks) - k
                                           /\ tasks[k] = [do |-> "join", at |-> i]
        <5>1. t \in Threads /\ Pushed(t, n, tasks)  BY <1>1
        <5>2. Has(u, b, "join", i)' <=>
                \/ (u # t \/ b < n) /\ Has(u, b, "join", i)
                \/ /\ u = t
                   /\ \E k \in 1..Len(tasks) : /\ b = n + Len(tasks) - k
                                               /\ tasks[k] = [do |-> "join", at |-> i]
          BY <5>1, HasAfter
        <5> QED  BY <3>10, <5>2
      <4>2. CASE Has(u, b, "join", i)  BY <3>6, <4>2
      <4>3. CASE /\ u = t
                 /\ \E k \in 1..Len(tasks) : /\ b = n + Len(tasks) - k
                                             /\ tasks[k] = [do |-> "join", at |-> i]
        <5>1. PICK k \in 1..Len(tasks) : /\ b = n + Len(tasks) - k
                                         /\ tasks[k] = [do |-> "join", at |-> i]
          BY <4>3
        <5>2. k = 1 \/ k = 2  BY <3>9
        <5>3. k # 1  BY <3>8, <3>9, <5>1
        <5>4. k = 2  BY <5>2, <5>3
        <5>5. i = d  BY <3>8, <3>9, <5>1, <5>4
        <5> QED  BY <4>3, <5>1, <5>4, <5>5
      <4> QED  BY <4>1, <4>2, <4>3
    <3>11. \A i \in Interfaces : i \in shut' => count'[i] = 0
      BY <1>1, <1>3, <1>4, <3>4 DEF JoinOK
    <3>12. ASSUME NEW i \in Interfaces, NEW u \in Threads, NEW b \in Nat, Has(u, b, "join", i)'
           PROVE  /\ count'[i] = 0 /\ i \notin shut'
                  /\ \A v \in Threads, e \in Nat : Has(v, e, "join", i)' => v = u /\ e = b
      <4>1. CASE i = d
        <5>1. u = t /\ b = n + Len(tasks) - 2  BY <3>10, <3>12, <4>1
        <5>2. ASSUME NEW v \in Threads, NEW e \in Nat, Has(v, e, "join", i)'
              PROVE  v = u /\ e = b
          BY <3>10, <4>1, <5>1, <5>2
        <5> QED  BY <1>1, <3>3, <3>5, <4>1, <5>2
      <4>2. CASE i # d
        <5>1. Has(u, b, "join", i)  BY <3>10, <3>12, <4>2
        <5>2. ASSUME NEW v \in Threads, NEW e \in Nat, Has(v, e, "join", i)'
              PROVE  v = u /\ e = b
          <6>1. Has(v, e, "join", i)  BY <3>10, <4>2, <5>2
          <6> QED  BY <3>4, <5>1, <6>1 DEF JoinOK
        <5>3. count[i] = 0 /\ i \notin shut  BY <3>4, <5>1 DEF JoinOK
        <5> QED  BY <1>1, <1>3, <1>4, <5>2, <5>3
      <4> QED  BY <4>1, <4>2
    <3> QED  BY <3>11, <3>12 DEF JoinOK
  <2> QED  BY <2>1, <2>2
<1> QED  BY <1>6, <1>7, <1>8

LEMMA ReleaseSwap ==
  ASSUME NEW t, NEW d, NEW n, NEW tasks, Releasing(t, d, n, tasks)
  PROVE  SwapOK'
<1>1. /\ t \in Threads /\ d \in Counters /\ n \in Nat /\ LifeTypeOK /\ LifeTypeOK'
      /\ \A c \in Counters : c # d => count'[c] = count[c]
      /\ \A c \in Counters : c # d \/ count[d] > 1 => (count'[c] > 0 <=> count[c] > 0)
      /\ ~(count[d] > 1) => tasks = OnZero(d) /\ count[d] = 1 /\ count'[d] = 0
      /\ UNCHANGED <<listed, ender>> /\ Pushed(t, n, tasks)
  BY ReleasingDoes
<1>2. SwapOK  BY DEF Releasing, Steady
<1>3. \A b \in Nat : Has(t, b, "swap", Nobody) => b < n
  <2>1. /\ LifeTypeOK /\ Steady
        /\ t \in Threads /\ Count(t) /\ Due(t, "release")
        /\ d = Counter(t) /\ n = Len(work[t]) - 1
        /\ tasks = IF count[d] > 1 THEN <<>> ELSE OnZero(d)
    BY DEF Releasing
  <2> QED  BY <2>1, ReleaseDoes
<1>4. "running" \in Counters  BY DEF Counters
<1>5. CASE d # "running" \/ count[d] > 1
  <2>1. \A j \in 1..Len(tasks) : tasks[j].do # "swap"  BY <1>5, ReleaseFlat
  <2>2. count'["running"] = count["running"] \/ (count["running"] > 0 /\ count'["running"] > 0)
    <3>1. CASE d # "running"  BY <1>1, <1>4, <3>1
    <3>2. CASE d = "running" /\ count[d] > 1
      <4>1. count["running"] > 0
        <5>1. count["running"] \in Nat  BY <1>1, <1>4 DEF LifeTypeOK
        <5> QED  BY <3>2, <5>1
      <4> QED  BY <1>1, <1>4, <3>2, <4>1
    <3> QED  BY <1>5, <3>1, <3>2
  <2> QED  BY <1>1, <1>2, <1>3, <2>1, <2>2, SwapFrame
<1>6. CASE d = "running" /\ ~(count[d] > 1)
  <2> DEFINE a == [do |-> "swap", at |-> Nobody]
             x == [do |-> "release", at |-> "icc"]
             y == [do |-> "release", at |-> "loop"]
             z == [do |-> "release", at |-> "list"]
  <2>1. tasks = <<a, x, y, z>>  BY <1>1, <1>6, OnZeroIs
  <2>2. a # x /\ a # y /\ a # z
    <3>1. a.do = "swap" /\ x.do = "release" /\ y.do = "release" /\ z.do = "release"  OBVIOUS
    <3> QED  BY <3>1
  <2> HIDE DEF a, x, y, z
  <2>3. /\ 1..Len(tasks) = {1, 2, 3, 4} /\ Len(tasks) = 4
        /\ tasks[1] = a /\ tasks[2] = x /\ tasks[3] = y /\ tasks[4] = z
    BY <2>1
  <2>4. count["running"] = 1 /\ count'["running"] = 0  BY <1>1, <1>6
  <2>5. \A u \in Threads, b \in Nat : ~Has(u, b, "swap", Nobody)
    BY <1>2, <2>4 DEF SwapOK
  <2>6. listed /\ listed'
    <3>1. count["running"] > 0  BY <2>4
    <3> QED  BY <1>1, <1>2, <3>1 DEF SwapOK
  <2>7. ender' # Nobody => ~listed'  BY <1>1, <1>2 DEF SwapOK
  <2>8. PICK p : p = n + 3  OBVIOUS
  <2>9. p \in Nat /\ p > 0 /\ p - 1 \in Nat  BY <1>1, <2>8
  <2>10. n + Len(tasks) - 1 = p /\ n + Len(tasks) - 2 = p - 1
    <3>1. \A m \in Nat : m + 4 - 1 = m + 3 /\ m + 4 - 2 = (m + 3) - 1  OBVIOUS
    <3> QED  BY <1>1, <2>3, <2>8, <3>1
  <2>11. Pushed(t, n, tasks) /\ t \in Threads  BY <1>1
  <2>12. Has(t, p, "swap", Nobody)'
    <3>1. Has(t, p, "swap", Nobody)' <=>
            \/ (t # t \/ p < n) /\ Has(t, p, "swap", Nobody)
            \/ /\ t = t
               /\ \E k \in 1..Len(tasks) : /\ p = n + Len(tasks) - k
                                           /\ tasks[k] = [do |-> "swap", at |-> Nobody]
      BY <2>9, <2>11, HasAfter
    <3>2. 1 \in 1..Len(tasks) /\ p = n + Len(tasks) - 1 /\ tasks[1] = [do |-> "swap", at |-> Nobody]
      BY <2>3, <2>10 DEF a
    <3> QED  BY <3>1, <3>2
  <2>13. Has(t, p - 1, "release", "icc")'
    <3>1. PICK q : q = p - 1  OBVIOUS
    <3>2. Has(t, q, "release", "icc")' <=>
            \/ (t # t \/ q < n) /\ Has(t, q, "release", "icc")
            \/ /\ t = t
               /\ \E k \in 1..Len(tasks) : /\ q = n + Len(tasks) - k
                                           /\ tasks[k] = [do |-> "release", at |-> "icc"]
      BY <2>9, <2>11, <3>1, HasAfter
    <3>3. 2 \in 1..Len(tasks) /\ q = n + Len(tasks) - 2 /\ tasks[2] = [do |-> "release", at |-> "icc"]
      BY <2>3, <2>10, <3>1 DEF x
    <3> QED  BY <3>1, <3>2, <3>3
  <2>14. ASSUME NEW u \in Threads, NEW b \in Nat, Has(u, b, "swap", Nobody)'
         PROVE  u = t /\ b = p
    <3>1. Has(u, b, "swap", Nobody)' <=>
            \/ (u # t \/ b < n) /\ Has(u, b, "swap", Nobody)
            \/ /\ u = t
               /\ \E k \in 1..Len(tasks) : /\ b = n + Len(tasks) - k
                                           /\ tasks[k] = [do |-> "swap", at |-> Nobody]
      BY <2>11, HasAfter
    <3>2. u = t /\ \E k \in 1..Len(tasks) : /\ b = n + Len(tasks) - k
                                            /\ tasks[k] = [do |-> "swap", at |-> Nobody]
      BY <2>5, <2>14, <3>1
    <3>3. PICK k \in 1..Len(tasks) : b = n + Len(tasks) - k /\ tasks[k] = a
      BY <3>2 DEF a
    <3>4. k = 1  BY <2>2, <2>3, <3>3
    <3> QED  BY <2>10, <3>2, <3>3, <3>4
  <2> HIDE <2>8
  <2>15. \A u \in Threads, b \in Nat : Has(u, b, "swap", Nobody)' =>
           /\ b > 0 /\ Has(u, b - 1, "release", "icc")'
           /\ listed' /\ count'["running"] = 0
           /\ \A v \in Threads, e \in Nat : Has(v, e, "swap", Nobody)' => v = u /\ e = b
    BY <2>4, <2>6, <2>9, <2>13, <2>14
  <2>16. \E u \in Threads, b \in Nat : Has(u, b, "swap", Nobody)'
    BY <1>1, <2>9, <2>12
  <2>17. ~(count'["running"] > 0)  BY <2>4
  <2> QED  BY <2>7, <2>15, <2>16, <2>17 DEF SwapOK
<1> QED  BY <1>5, <1>6

LEMMA ReleaseSignal ==
  ASSUME NEW t, NEW d, NEW n, NEW tasks, Releasing(t, d, n, tasks)
  PROVE  SignalOK'
<1>1. /\ t \in Threads /\ d \in Counters /\ n \in Nat /\ LifeTypeOK /\ LifeTypeOK'
      /\ \A c \in Counters : c # d \/ count[d] > 1 => (count'[c] > 0 <=> count[c] > 0)
      /\ UNCHANGED <<listed, ender, astray>> /\ Pushed(t, n, tasks)
      /\ (Signalling' <=> Signalling) /\ St(t, n) \notin Nexts
  BY ReleasingDoes
<1>2. SignalOK /\ SwapOK  BY DEF Releasing, Steady
<1>3. \A j \in 1..Len(tasks) : tasks[j].do # "next"  BY ReleaseFlat
<1>4. "icc" \in Counters /\ "running" \in Counters  BY DEF Counters
<1>5. CASE d # "icc" \/ count[d] > 1
  <2>1. count'["icc"] = 0 => count["icc"] = 0
    <3>1. count["icc"] \in Nat /\ count'["icc"] \in Nat  BY <1>1, <1>4 DEF LifeTypeOK
    <3>2. count'["icc"] > 0 <=> count["icc"] > 0  BY <1>1, <1>4, <1>5
    <3> QED  BY <3>1, <3>2
  <2> QED  BY <1>1, <1>2, <1>3, <2>1, SignalFrame
<1>6. CASE d = "icc" /\ ~(count[d] > 1)
  <2>1. Debt(d) = 0  BY <1>6 DEF Debt, ListCounter
  <2>2. \A y \in Holders("icc") : y = St(t, n)  BY <1>6, <2>1, LastHolder
  <2>3. Nexts = {}
    <3>1. Nexts \subseteq Holders("icc")  BY DEF Holders, Users
    <3> QED  BY <1>1, <2>2, <3>1
  <2>4. Signalling => ender \in Interfaces
    <3> SUFFICES ASSUME listed, Signalling PROVE FALSE  BY <1>2 DEF SignalOK
    <3>1. CASE count["running"] > 0
      <4>1. <<"own", Nobody, 0>> \in Fixed("icc")  BY <3>1 DEF Fixed, If
      <4>2. <<"own", Nobody, 0>> \in Holders("icc")  BY <4>1 DEF Holders
      <4> QED  BY <2>2, <4>2, Tokens
    <3>2. CASE ~(count["running"] > 0)
      <4>1. PICK u \in Threads, b \in Nat : Has(u, b, "swap", Nobody)
        BY <1>2, <3>2 DEF SwapOK
      <4>2. b > 0 /\ Has(u, b - 1, "release", "icc")  BY <1>2, <4>1 DEF SwapOK
      <4>3. b - 1 \in Nat  BY <4>2
      <4>4. St(u, b - 1) \in Releases("icc")  BY <4>2, <4>3, ReleasesAre
      <4>5. St(u, b - 1) = St(t, n)  BY <2>2, <4>4 DEF Holders
      <4>6. u = t /\ b - 1 = n  BY <4>5, Tokens
      <4>7. Has(t, b, "swap", Nobody) => b < n
        <5>1. /\ LifeTypeOK /\ Steady
              /\ t \in Threads /\ Count(t) /\ Due(t, "release")
              /\ d = Counter(t) /\ n = Len(work[t]) - 1
              /\ tasks = IF count[d] > 1 THEN <<>> ELSE OnZero(d)
          BY DEF Releasing
        <5>2. \A e \in Nat : Has(t, e, "swap", Nobody) => e < n  BY <5>1, ReleaseDoes
        <5> QED  BY <5>2
      <4>8. b < n  BY <4>1, <4>6, <4>7
      <4> QED  BY <1>1, <4>6, <4>8
    <3> QED  BY <3>1, <3>2
  <2>5. ASSUME NEW u \in Threads, NEW b \in Nat, InStack(u, b)', Deep(u, b)'.do = "next"
        PROVE  ender' \in Interfaces
    <3>1. InStack(u, b) /\ Deep(u, b).do = "next"
      <4>1. \/ (u # t \/ b < n) /\ InStack(u, b) /\ Deep(u, b)' = Deep(u, b)
            \/ u = t /\ \E j \in 1..Len(tasks) : /\ b = n + Len(tasks) - j
                                                 /\ Deep(u, b)' = tasks[j]
        <5>1. t \in Threads /\ Pushed(t, n, tasks)  BY <1>1
        <5>2. InStack(u, b)' =>
                \/ (u # t \/ b < n) /\ InStack(u, b) /\ Deep(u, b)' = Deep(u, b)
                \/ u = t /\ \E j \in 1..Len(tasks) : /\ b = n + Len(tasks) - j
                                                     /\ Deep(u, b)' = tasks[j]
          BY <5>1, DeepAfter
        <5> QED  BY <2>5, <5>2
      <4> QED  BY <1>3, <2>5, <4>1
    <3>2. ~Signalling => St(u, b) \in Nexts  BY <3>1, NextsAre
    <3> QED  BY <1>1, <2>3, <2>4, <3>2
  <2>6. Signalling' => listed' \/ ender' \in Interfaces  BY <1>1, <2>4
  <2>7. "icc" \in astray' => ender' \in Interfaces  BY <1>1, <1>2 DEF SignalOK
  <2> QED  BY <2>5, <2>6, <2>7 DEF SignalOK
<1> QED  BY <1>5, <1>6

LEMMA ReleaseUnlink ==
  ASSUME NEW t, NEW d, NEW n, NEW tasks, Releasing(t, d, n, tasks)
  PROVE  UnlinkOK'
<1>1. /\ t \in Threads /\ d \in Counters /\ n \in Nat /\ LifeTypeOK /\ LifeTypeOK'
      /\ \A c \in Counters : c # d => count'[c] = count[c]
      /\ \A c \in Counters : c # d \/ count[d] > 1 => (count'[c] > 0 <=> count[c] > 0)
      /\ ~(count[d] > 1) => tasks = OnZero(d) /\ count[d] = 1 /\ count'[d] = 0
      /\ UNCHANGED <<sources>> /\ Pushed(t, n, tasks)
  BY ReleasingDoes
<1>2. UnlinkOK  BY DEF Releasing, Steady
<1>3. "list" \in Counters  BY DEF Counters
<1>4. CASE d # "list" \/ count[d] > 1
  <2>1. \A j \in 1..Len(tasks) : tasks[j].do # "unlink"  BY <1>4, ReleaseFlat
  <2>2. count["list"] = 0 => count'["list"] = 0
    <3>1. count["list"] \in Nat /\ count'["list"] \in Nat  BY <1>1, <1>3 DEF LifeTypeOK
    <3>2. count'["list"] > 0 <=> count["list"] > 0  BY <1>1, <1>3, <1>4
    <3> QED  BY <3>1, <3>2
  <2> QED  BY <1>1, <1>2, <2>1, <2>2, UnlinkFrame
<1>5. CASE d = "list" /\ ~(count[d] > 1)
  <2> DEFINE a == [do |-> "unlink", at |-> Nobody]
             x == [do |-> "release", at |-> "listMem"]
  <2>1. tasks = <<a, x>>  BY <1>1, <1>5, OnZeroIs
  <2>2. a # x
    <3>1. a.do = "unlink" /\ x.do = "release"  OBVIOUS
    <3> QED  BY <3>1
  <2> HIDE DEF a, x
  <2>3. 1..Len(tasks) = {1, 2} /\ Len(tasks) = 2 /\ tasks[1] = a /\ tasks[2] = x  BY <2>1
  <2>4. count["list"] = 1 /\ count'["list"] = 0  BY <1>1, <1>5
  <2>5. \A u \in Threads, b \in Nat : ~Has(u, b, "unlink", Nobody)
    BY <1>2, <2>4 DEF UnlinkOK
  <2>6. sources' = "open"  BY <1>1, <1>2, <2>4 DEF UnlinkOK
  <2>7. ASSUME NEW u \in Threads, NEW b \in Nat, Has(u, b, "unlink", Nobody)'
        PROVE  u = t /\ b = n + Len(tasks) - 1
    <3>0. Pushed(t, n, tasks) /\ t \in Threads  BY <1>1
    <3>1. Has(u, b, "unlink", Nobody)' <=>
            \/ (u # t \/ b < n) /\ Has(u, b, "unlink", Nobody)
            \/ /\ u = t
               /\ \E k \in 1..Len(tasks) : /\ b = n + Len(tasks) - k
                                           /\ tasks[k] = [do |-> "unlink", at |-> Nobody]
      BY <3>0, HasAfter
    <3>2. u = t /\ \E k \in 1..Len(tasks) : /\ b = n + Len(tasks) - k
                                            /\ tasks[k] = [do |-> "unlink", at |-> Nobody]
      BY <2>5, <2>7, <3>1
    <3>3. PICK k \in 1..Len(tasks) : b = n + Len(tasks) - k /\ tasks[k] = a
      BY <3>2 DEF a
    <3>4. k = 1  BY <2>2, <2>3, <3>3
    <3> QED  BY <3>2, <3>3, <3>4
  <2> QED  BY <2>4, <2>6, <2>7 DEF UnlinkOK
<1> QED  BY <1>4, <1>5

LEMMA ReleaseSteady ==
  ASSUME LifeTypeOK, LifeTypeOK', Steady, NEW t \in Threads, Count(t), Due(t, "release")
  PROVE  Steady'
<1>1. PICK d, n : d = Counter(t) /\ n = Len(work[t]) - 1  OBVIOUS
<1>2. PICK tasks : tasks = IF count[d] > 1 THEN <<>> ELSE OnZero(d)  OBVIOUS
<1>3. Releasing(t, d, n, tasks)  BY <1>1, <1>2 DEF Releasing
<1>4. /\ MainStack' /\ (\A i \in Interfaces : FuseStack(i)') /\ InOrderMade' /\ QueueOK'
      /\ AstrayOK'
  BY <1>1, <1>2, ReleaseDoes
<1>5. CountsOK'  BY <1>3, ReleaseCounts
<1>6. QuitOK' /\ JoinOK' /\ ExitOK'  BY <1>3, ReleaseOnce
<1>7. SwapOK' /\ SignalOK' /\ UnlinkOK'  BY <1>3, ReleaseSwap, ReleaseSignal, ReleaseUnlink
<1> QED  BY <1>4, <1>5, <1>6, <1>7 DEF Steady

-----------------------------------------------------------------------------
(* The beginning *)

LEMMA UpToThree ==
  ASSUME NEW a, NEW b, NEW c
  PROVE  /\ IsFiniteSet({a}) /\ Cardinality({a}) <= 1
         /\ IsFiniteSet({a, b}) /\ Cardinality({a, b}) <= 2
         /\ IsFiniteSet({a, b, c}) /\ Cardinality({a, b, c}) <= 3
<1>1. IsFiniteSet({a}) /\ Cardinality({a}) = 1  BY FS_Singleton
<1> DEFINE S == {a}
           T == {a, b}
           U == {a, b, c}
<1>2. T \subseteq S \cup {b} /\ U \subseteq T \cup {c}  OBVIOUS
<1>3. IsFiniteSet(S) /\ Cardinality(S) = 1  BY <1>1
<1> HIDE DEF S, T, U
<1>4. IsFiniteSet(T) /\ Cardinality(T) <= Cardinality(S) + 1  BY <1>2, <1>3, OneMore
<1>5. IsFiniteSet(U) /\ Cardinality(U) <= Cardinality(T) + 1  BY <1>2, <1>4, OneMore
<1>6. Cardinality(T) \in Nat /\ Cardinality(U) \in Nat  BY <1>4, <1>5, FS_CardinalityType
<1>7. Cardinality(T) <= 2  BY <1>3, <1>4, <1>6
<1>8. Cardinality(U) <= 3  BY <1>5, <1>6, <1>7
<1> QED  BY <1>1, <1>4, <1>5, <1>7, <1>8 DEF S, T, U

LEMMA InitTyped == LifeInit => LifeTypeOK
<1> SUFFICES ASSUME LifeInit PROVE LifeTypeOK  OBVIOUS
<1> USE DEF LifeInit
<1>1. <<>> \in Seq(Tasks) /\ <<>> \in Seq(Reads)  BY SeqTasks
<1>2. work \in [Threads -> Seq(Tasks)]
  <2> DEFINE none == <<>>
  <2>1. work = [t \in Threads |-> none]  OBVIOUS
  <2>2. none \in Seq(Tasks)  BY <1>1
  <2> HIDE DEF none
  <2> QED  BY <2>1, <2>2
<1>3. count \in [Counters -> Nat]  OBVIOUS
<1>4. /\ phase \in {"config", "loop", "over", "killed"}
      /\ made \in 0..Len(Order)
      /\ starting \in Interfaces \cup {Nobody}
      /\ pc \in [Interfaces -> {"unborn", "start", "serve", "finish", "gone"}]
  BY OrderIs
<1>5. /\ quit \subseteq Interfaces /\ mounted \subseteq Interfaces
      /\ shut \subseteq Interfaces
      /\ kernel \in [Interfaces -> {"none", "up", "down"}]
      /\ inbox \in Seq(Reads)
  BY <1>1
<1>6. /\ read \in [Reads -> ReadStages]
      /\ from \in [Reads -> Interfaces \cup {Nobody}]
      /\ sources \in {"open", "closing", "closed"}
      /\ {listed, pool, exit, armed} \subseteq BOOLEAN
  BY DEF ReadStages
<1>7. /\ signals \in 0..MaxSignals
      /\ ender \in Threads \cup {Nobody}
      /\ hasty \subseteq Interfaces /\ torn \subseteq Counters
      /\ astray \subseteq {"count", "icc", "interface", "list", "stats", "syncif"}
  BY SignalsAssumption
<1> QED  BY <1>2, <1>3, <1>4, <1>5, <1>6, <1>7 DEF LifeTypeOK

LEMMA InitCounts == LifeInit => CountsOK
<1> SUFFICES ASSUME LifeInit PROVE CountsOK  OBVIOUS
<1>0. LifeTypeOK  BY InitTyped
<1>1. Main \in Threads /\ Interfaces \subseteq Threads /\ Nobody \notin Interfaces
  BY ThreadsAre
<1>2. \A t \in Threads, b \in Nat : ~InStack(t, b)
  <2> SUFFICES ASSUME NEW t \in Threads, NEW b \in Nat, InStack(t, b) PROVE FALSE  OBVIOUS
  <2> DEFINE none == <<>>
  <2>1. work[t] = none  BY DEF LifeInit
  <2>2. Len(none) = 0  OBVIOUS
  <2> HIDE DEF none
  <2>3. b < 0  BY <2>1, <2>2 DEF InStack
  <2> QED  BY <2>3
<1>3. \A c : Releases(c) = {}  BY <1>2 DEF Releases, Has
<1>4. Nexts = {}  BY <1>2 DEF Nexts
<1>5. Running = {}  BY DEF Running, LifeInit
<1>6. work[Main] = <<>> /\ \A i \in Interfaces : pc[i] = "unborn" /\ from = [r \in Reads |-> Nobody]
  BY <1>1 DEF LifeInit
<1>7. \A i \in Interfaces : ~Active(i) /\ ~Listing(i) /\ ~Serving(i) /\ Readers(i) = {}
  <2> SUFFICES ASSUME NEW i \in Interfaces
               PROVE  ~Active(i) /\ ~Listing(i) /\ ~Serving(i) /\ Readers(i) = {}
    OBVIOUS
  <2>1. Task("start", i) # <<>>  BY OneTask
  <2>2. Task("acquire", "running") \o Task("start", i) # <<>>
    BY TwoTasks, HeadsAre
  <2>3. ~Active(i)  BY <1>6, <2>1 DEF Active
  <2>4. ~Listing(i)  BY <1>6, <2>1, <2>2 DEF Listing
  <2>5. ~Serving(i)  BY <1>6 DEF Serving
  <2>6. Readers(i) = {}  BY <1>1, <1>6 DEF Readers
  <2> QED  BY <2>3, <2>4, <2>5, <2>6
<1>8. /\ {"icc", "running", "loop", "list", "listMem"} \subseteq Counters
      /\ {"icc", "running", "loop", "list", "listMem"} \cap Interfaces = {}
  BY InterfaceIsOther DEF Counters
<1>9. /\ count["icc"] = 1 /\ count["running"] = 1 /\ count["loop"] = 3 /\ count["list"] = 1
      /\ count["listMem"] = 2 /\ \A i \in Interfaces : count[i] = 1
  <2> DEFINE f(c) == CASE c = "loop" -> 3 [] c = "listMem" -> 2 [] OTHER -> 1
  <2>1. count = [c \in Counters |-> f(c)]  BY DEF LifeInit
  <2>2. /\ f("icc") = 1 /\ f("running") = 1 /\ f("loop") = 3 /\ f("list") = 1 /\ f("listMem") = 2
        /\ \A i : i # "loop" /\ i # "listMem" => f(i) = 1
    OBVIOUS
  <2> HIDE DEF f
  <2>3. \A i \in Interfaces : i \in Counters /\ i # "loop" /\ i # "listMem"
    BY <1>8 DEF Counters
  <2> QED  BY <1>8, <2>1, <2>2, <2>3
<1>10. \A c : ListUsers(c) = {}  BY <1>3, <1>5 DEF ListUsers
<1>11. ASSUME NEW c \in Counters PROVE Enough(c)
  <2>0. Debt(c) = 0 /\ count[c] + Debt(c) = count[c]
    <3>1. Task("acquire", "list") # <<>>  BY OneTask
    <3>2. ~Consuming  BY <1>6, <3>1 DEF Consuming
    <3>3. count[c] \in Nat  BY <1>0 DEF LifeTypeOK
    <3> QED  BY <3>2, <3>3 DEF Debt
  <2> DEFINE own == <<"own", Nobody, 0>>
             run == <<"run", Nobody, 0>>
             list == <<"list", Nobody, 0>>
             pl == <<"pool", Nobody, 0>>
             src == <<"sources", Nobody, 0>>
             arr == <<"array", Nobody, 0>>
  <2>1. \E S : IsFiniteSet(S) /\ Cardinality(S) <= count[c] /\ Holders(c) \subseteq S
    <3>1. CASE c = "icc"
      <4>1. Holders(c) \subseteq {own}
        BY <1>3, <1>4, <3>1 DEF Holders, Users, Fixed, If
      <4> QED  BY <1>9, <3>1, <4>1, UpToThree
    <3>2. CASE c = "running"
      <4>1. Users(c) = {}  BY <1>7, <3>2 DEF Users
      <4>2. Holders(c) \subseteq {run}  BY <1>3, <3>2, <4>1 DEF Holders, Fixed, If
      <4> QED  BY <1>9, <3>2, <4>2, UpToThree
    <3>3. CASE c = "loop"
      <4>1. Users(c) = {}  BY <3>3 DEF Users
      <4>2. Holders(c) \subseteq {own, list, pl}  BY <1>3, <3>3, <4>1 DEF Holders, Fixed, If
      <4> QED  BY <1>9, <3>3, <4>2, UpToThree
    <3>4. CASE c = "list"
      <4>1. Users(c) = {}  BY <1>10, <3>4 DEF Users
      <4>2. Holders(c) \subseteq {own}  BY <3>4, <4>1 DEF Holders, Fixed, If
      <4> QED  BY <1>9, <3>4, <4>2, UpToThree
    <3>5. CASE c = "listMem"
      <4>1. Users(c) = {}  BY <1>7, <1>10, <3>5 DEF Users
      <4>2. Holders(c) \subseteq {own, src}  BY <1>3, <3>5, <4>1 DEF Holders, Fixed, If
      <4> QED  BY <1>9, <3>5, <4>2, UpToThree
    <3>6. CASE c \in Interfaces
      <4>1. Holders(c) = If(count["icc"] > 0, "array") \cup If(Serving(c), "thread")
                         \cup Readers(c) \cup Releases(c)
        BY <3>6, InterfaceIsOther
      <4>2. Holders(c) \subseteq {arr}  BY <1>3, <1>7, <3>6, <4>1 DEF If
      <4> QED  BY <1>9, <3>6, <4>2, UpToThree
    <3> QED  BY <3>1, <3>2, <3>3, <3>4, <3>5, <3>6, CounterKinds
  <2>2. PICK S : IsFiniteSet(S) /\ Cardinality(S) <= count[c] /\ Holders(c) \subseteq S
    BY <2>1
  <2>3. IsFiniteSet(Holders(c)) /\ Cardinality(Holders(c)) <= Cardinality(S)
    BY <2>2, NotMore
  <2>4. Cardinality(Holders(c)) \in Nat /\ Cardinality(S) \in Nat /\ count[c] \in Nat
    BY <1>0, <2>2, <2>3, FS_CardinalityType DEF LifeTypeOK
  <2>5. Cardinality(Holders(c)) <= count[c]  BY <2>2, <2>3, <2>4
  <2> QED  BY <2>0, <2>3, <2>5 DEF Enough
<1> QED  BY <1>9, <1>11 DEF CountsOK

LEMMA InitSteady == LifeInit => IInv
<1> SUFFICES ASSUME LifeInit PROVE LifeTypeOK /\ Steady  BY DEF IInv
<1>1. LifeTypeOK /\ CountsOK  BY InitTyped, InitCounts
<1>2. Main \in Threads /\ Interfaces \subseteq Threads  BY ThreadsAre
<1>3. \A t \in Threads : work[t] = <<>>  BY DEF LifeInit
<1>4. \A t \in Threads, b \in Nat : ~InStack(t, b)
  <2> SUFFICES ASSUME NEW t \in Threads, NEW b \in Nat, InStack(t, b) PROVE FALSE  OBVIOUS
  <2> DEFINE none == <<>>
  <2>1. work[t] = none  BY <1>3
  <2>2. Len(none) = 0  OBVIOUS
  <2> HIDE DEF none
  <2>3. b < 0  BY <2>1, <2>2 DEF InStack
  <2> QED  BY <2>3
<1>5. \A t \in Threads, b \in Nat : \A do, at : ~Has(t, b, do, at)  BY <1>4 DEF Has
<1>6. MainStack  BY <1>2, <1>3 DEF LifeInit, MainStack
<1>7. \A i \in Interfaces : FuseStack(i)
  <2> SUFFICES ASSUME NEW i \in Interfaces PROVE FuseStack(i)  OBVIOUS
  <2>1. pc[i] = "unborn" /\ work[i] = <<>>  BY <1>2, <1>3 DEF LifeInit
  <2> QED  BY <2>1 DEF FuseStack
<1>8. InOrderMade
  <2>1. \A k \in DOMAIN Order : pc[Order[k]] = "unborn" /\ ~(k <= made)
    <3> SUFFICES ASSUME NEW k \in DOMAIN Order PROVE pc[Order[k]] = "unborn" /\ ~(k <= made)
      OBVIOUS
    <3>1. k \in 1..Len(Order) /\ Order[k] \in Interfaces  BY OrderIs
    <3>2. ~(k <= 0)  BY <3>1, OrderIs
    <3> QED  BY <3>1, <3>2 DEF LifeInit
  <2> QED  BY <2>1 DEF LifeInit, InOrderMade
<1>9. QueueOK
  <2>1. DOMAIN inbox = {}
    <3> DEFINE none == <<>>
    <3>1. inbox = none /\ DOMAIN none = {}  BY DEF LifeInit
    <3> QED  BY <3>1
  <2>2. \A r \in Reads : read[r] = "unseen"  BY DEF LifeInit
  <2> QED  BY <2>1, <2>2 DEF QueueOK
<1>10. shut = {} /\ exit = FALSE /\ phase = "config" /\ sources = "open" /\ astray = {}
       /\ listed /\ ender = Nobody
  BY DEF LifeInit
<1>11. count["running"] > 0
  BY <1>1, <1>10, ConfigHolds
<1>12. ~Signalling
  <2> DEFINE s == Task("acquire", "icc") \o Task("next", 1) \o Task("arm", Nobody)
  <2>1. s # <<>>  BY SignalTasks, HeadsAre
  <2> QED  BY <1>2, <1>3, <2>1 DEF Signalling
<1>13. QuitOK /\ JoinOK  BY <1>5, <1>10 DEF QuitOK, JoinOK
<1>14. SwapOK  BY <1>5, <1>10, <1>11 DEF SwapOK
<1>15. SignalOK  BY <1>4, <1>10, <1>12 DEF SignalOK
<1>16. UnlinkOK /\ ExitOK /\ AstrayOK  BY <1>5, <1>10 DEF UnlinkOK, ExitOK, AstrayOK
<1> QED  BY <1>1, <1>6, <1>7, <1>8, <1>9, <1>13, <1>14, <1>15, <1>16 DEF Steady

-----------------------------------------------------------------------------
(* Every step *)

LEMMA StepSteady ==
  ASSUME LifeTypeOK, LifeTypeOK', Steady, NEW t \in Threads, Step(t)
  PROVE  Steady'
<1>1. CASE Start(t)  BY <1>1, StartSteady
<1>2. CASE Count(t)
  <2>1. Due(t, "acquire") \/ Due(t, "release")  BY <1>2 DEF Count, Counts, Acquires
  <2> QED  BY <1>2, <2>1, AcquireSteady, ReleaseSteady
<1>3. CASE Quit(t)  BY <1>3, QuitSteady
<1>4. CASE Join(t)  BY <1>4, JoinSteady
<1>5. CASE QuitNext(t)  BY <1>5, QuitNextSteady
<1>6. CASE Unmount(t) \/ Arm(t) \/ Exit(t) \/ Unlink(t) \/ Swap(t)  BY <1>6, LeafSteady
<1> QED  BY <1>1, <1>2, <1>3, <1>4, <1>5, <1>6 DEF Step

LEMMA FuseStepSteady ==
  ASSUME LifeTypeOK, LifeTypeOK', Steady, NEW i \in Interfaces,
         FuseStep(i) \/ UnmountOutside(i) \/ \E r \in Reads \cup {Nobody} : Look(i, r)
  PROVE  Steady'
<1>1. CASE Mount(i)
  <2>1. CASE pc'[i] = "serve"  BY <1>1, <2>1, MountSteady
  <2>2. CASE pc'[i] # "serve"  BY <1>1, <2>2, LeaveSteady
  <2> QED  BY <2>1, <2>2
<1>2. CASE EndSession(i)  BY <1>2, LeaveSteady
<1>3. CASE Gone(i)  BY <1>3, GoneSteady
<1>4. CASE Walked(i)  BY <1>4, WalkedSteady
<1>5. CASE Send(i)  BY <1>5, SendSteady
<1>6. CASE UnmountOutside(i)
  <2>1. \E j \in Interfaces : UnmountOutside(j)  BY <1>6
  <2> QED  BY <2>1, IdleSteady
<1>7. CASE \E r \in Reads \cup {Nobody} : Look(i, r)
  <2>1. PICK r \in Reads \cup {Nobody} : Look(i, r)  BY <1>7
  <2> QED  BY <2>1, LookSteady
<1> QED  BY <1>1, <1>2, <1>3, <1>4, <1>5, <1>6, <1>7 DEF FuseStep

LEMMA MainSteady ==
  ASSUME LifeTypeOK, LifeTypeOK', Steady,
         \/ Create \/ Started \/ StartLoop \/ Consume \/ \E r \in Reads : ReadDone(r)
         \/ Signal \/ StatTick \/ CloseSources \/ EndPool \/ EndLoop \/ Kill
  PROVE  Steady'
<1>1. CASE Create  BY <1>1, CreateSteady
<1>2. CASE Started  BY <1>2, StartedSteady
<1>3. CASE StartLoop \/ CloseSources \/ EndPool  BY <1>3, HandlerSteady
<1>4. CASE Consume  BY <1>4, ConsumeSteady
<1>5. CASE \E r \in Reads : ReadDone(r)
  <2>1. PICK r \in Reads : ReadDone(r)  BY <1>5
  <2> QED  BY <2>1, ReadDoneSteady
<1>6. CASE Signal  BY <1>6, SignalSteady
<1>7. CASE StatTick  BY <1>7, IdleSteady
<1>8. CASE EndLoop \/ Kill  BY <1>8, EndSteady
<1> QED  BY <1>1, <1>2, <1>3, <1>4, <1>5, <1>6, <1>7, <1>8

\* What has gone wrong once stays so.
LEMMA StaysDisorderly ==
  ASSUME LifeNext, Orderly'
  PROVE  Orderly /\ ~StartedSoon /\ ~ \E t, u \in Threads : Collide(t, u)
<1>1. torn' = {} /\ hasty' = {}  BY DEF Orderly
<1>2. ASSUME NEW t \in Threads, NEW u \in Threads, Collide(t, u) PROVE FALSE
  BY <1>1, <1>2 DEF Collide
<1>3. ~StartedSoon  BY <1>1 DEF StartedSoon
<1>4. torn' = torn /\ hasty' = hasty
  <2>1. ASSUME NEW t \in Threads, Step(t) PROVE torn' = torn /\ hasty' = hasty
    <3>1. CASE Start(t)  BY <3>1 DEF Start, pastVars
    <3>2. CASE Count(t)  BY <3>2 DEF Count, pastVars
    <3>3. CASE Quit(t)  BY <3>3 DEF Quit, pastVars
    <3>4. CASE Unmount(t)  BY <3>4 DEF Unmount, pastVars
    <3>5. CASE Join(t)  BY <3>5 DEF Join, pastVars
    <3>6. CASE QuitNext(t)  BY <3>6 DEF QuitNext, pastVars
    <3>7. CASE Arm(t)  BY <3>7 DEF Arm, pastVars
    <3>8. CASE Swap(t)  BY <3>8 DEF Swap
    <3>9. CASE Unlink(t)  BY <3>9 DEF Unlink, pastVars
    <3>10. CASE Exit(t)  BY <3>10 DEF Exit, pastVars
    <3> QED  BY <2>1, <3>1, <3>2, <3>3, <3>4, <3>5, <3>6, <3>7, <3>8, <3>9, <3>10 DEF Step
  <2>2. ASSUME NEW i \in Interfaces,
               FuseStep(i) \/ UnmountOutside(i) \/ \E r \in Reads \cup {Nobody} : Look(i, r)
        PROVE  torn' = torn /\ hasty' = hasty
    BY <2>2 DEF FuseStep, Mount, EndSession, Gone, Walked, Send, UnmountOutside, Look, pastVars
  <2>3. \/ Create \/ Started \/ StartLoop \/ Consume \/ \E r \in Reads : ReadDone(r)
        \/ Signal \/ StatTick \/ CloseSources \/ EndPool \/ EndLoop \/ Kill
        => torn' = torn /\ hasty' = hasty
    BY DEF Create, Started, Enlist, StartLoop, Consume, ReadDone, Signal, StatTick, CloseSources,
           EndPool, EndLoop, Kill, pastVars
  <2> QED  BY <1>2, <1>3, <2>1, <2>2, <2>3 DEF LifeNext
<1> QED  BY <1>1, <1>2, <1>3, <1>4 DEF Orderly

LEMMA NextTyped ==
  ASSUME IInv, LifeNext
  PROVE  LifeTypeOK'
<1>1. LifeTypeOK /\ (Orderly => Steady)  BY DEF IInv
<1>2. ASSUME NEW t \in Threads, Step(t) PROVE LifeTypeOK'
  BY <1>1, <1>2, StartTyped, CountTyped, StepTyped DEF Step
<1>3. ASSUME NEW t \in Threads, NEW u \in Threads, Collide(t, u) PROVE LifeTypeOK'
  <2>1. \E e, f \in Threads : Collide(e, f)  BY <1>3
  <2> QED  BY <1>1, <2>1, OtherTyped
<1>4. ASSUME NEW i \in Interfaces,
             FuseStep(i) \/ UnmountOutside(i) \/ \E r \in Reads \cup {Nobody} : Look(i, r)
      PROVE  LifeTypeOK'
  BY <1>1, <1>4, FuseTyped
<1>5. \/ Create \/ StartLoop \/ Consume \/ (\E r \in Reads : ReadDone(r))
      \/ Signal \/ CloseSources \/ EndPool
      => LifeTypeOK'
  BY <1>1, MainTyped
<1>6. Started \/ StartedSoon \/ StatTick \/ EndLoop \/ Kill => LifeTypeOK'
  BY <1>1, OtherTyped
<1> QED  BY <1>2, <1>3, <1>4, <1>5, <1>6 DEF LifeNext

LEMMA NextInv ==
  ASSUME IInv, [LifeNext]_lifeVars
  PROVE  IInv'
<1>1. LifeTypeOK /\ (Orderly => Steady)  BY DEF IInv
<1>2. CASE LifeNext
  <2>1. LifeTypeOK'  BY <1>2, NextTyped
  <2>2. ASSUME Orderly' PROVE Steady'
    <3>1. Orderly /\ ~StartedSoon /\ ~ \E t, u \in Threads : Collide(t, u)
      BY <1>2, <2>2, StaysDisorderly
    <3>2. Steady  BY <1>1, <3>1
    <3>3. ASSUME NEW t \in Threads, Step(t) PROVE Steady'
      BY <1>1, <2>1, <3>2, <3>3, StepSteady
    <3>4. ASSUME NEW i \in Interfaces,
                 FuseStep(i) \/ UnmountOutside(i) \/ \E r \in Reads \cup {Nobody} : Look(i, r)
          PROVE  Steady'
      BY <1>1, <2>1, <3>2, <3>4, FuseStepSteady
    <3>5. \/ Create \/ Started \/ StartLoop \/ Consume \/ (\E r \in Reads : ReadDone(r))
          \/ Signal \/ StatTick \/ CloseSources \/ EndPool \/ EndLoop \/ Kill
          => Steady'
      BY <1>1, <2>1, <3>2, MainSteady
    <3> QED  BY <1>2, <3>1, <3>3, <3>4, <3>5 DEF LifeNext
  <2> QED  BY <2>1, <2>2 DEF IInv
<1>3. CASE UNCHANGED lifeVars
  <2>1. UNCHANGED <<phase, made, starting, pc, quit, mounted, kernel, shut, work, count, inbox,
                    read, from, listed, sources, pool, exit, armed, signals, ender, hasty, torn,
                    astray>>
    BY <1>3 DEF lifeVars, runVars, fiVars, mountVars, readVars, endVars, pastVars
  <2>2. LifeTypeOK'  BY <1>1, <2>1 DEF LifeTypeOK
  <2>3. Orderly' => Orderly  BY <2>1 DEF Orderly
  <2>4. Steady => Steady'
    <3>1. MainStack => MainStack'  BY <2>1 DEF MainStack, Consuming, Signalling, InStack, Deep
    <3>2. \A i \in Interfaces : FuseStack(i) => FuseStack(i)'
      BY <2>1 DEF FuseStack, Asked, InStack, Deep
    <3>3. (InOrderMade => InOrderMade') /\ (QueueOK => QueueOK')
      BY <2>1 DEF InOrderMade, QueueOK
    <3>4. /\ Signalling' <=> Signalling
          /\ Consuming' <=> Consuming
          /\ \A t, b, do, at : Has(t, b, do, at)' <=> Has(t, b, do, at)
          /\ \A t, b : InStack(t, b)' <=> InStack(t, b)
          /\ \A t, b : Deep(t, b)' = Deep(t, b)
          /\ \A i : (Active(i)' <=> Active(i)) /\ (Listing(i)' <=> Listing(i))
          /\ \A i : Serving(i)' <=> Serving(i)
          /\ \A r : Underway(r)' <=> Underway(r)
          /\ ListCounter' = ListCounter
      BY <2>1 DEF Signalling, Consuming, Has, InStack, Deep, Active, Listing, Serving, Underway,
                  ListCounter
    <3>5. /\ \A c : Releases(c)' = Releases(c)
          /\ Nexts' = Nexts /\ Running' = Running
          /\ \A i : Readers(i)' = Readers(i)
      BY <2>1, <3>4 DEF Releases, Nexts, Running, Readers
    <3>6. \A c : Holders(c)' = Holders(c) /\ Debt(c)' = Debt(c)
      <4>1. \A c : ListUsers(c)' = ListUsers(c)  BY <3>4, <3>5 DEF ListUsers
      <4>2. \A c : Fixed(c)' = Fixed(c)  BY <2>1, <3>4 DEF Fixed, If
      <4>3. \A c : Users(c)' = Users(c)  BY <3>4, <3>5, <4>1 DEF Users
      <4>4. \A c : Debt(c)' = Debt(c)  BY <3>4 DEF Debt
      <4> QED  BY <3>5, <4>2, <4>3, <4>4 DEF Holders
    <3>7. CountsOK => CountsOK'
      BY <2>1, <3>5, <3>6 DEF CountsOK, Enough
    <3>8. (QuitOK => QuitOK') /\ (JoinOK => JoinOK') /\ (SwapOK => SwapOK')
      BY <2>1, <3>4 DEF QuitOK, JoinOK, SwapOK
    <3>9. (SignalOK => SignalOK') /\ (UnlinkOK => UnlinkOK') /\ (ExitOK => ExitOK')
          /\ (AstrayOK => AstrayOK')
      BY <2>1, <3>4 DEF SignalOK, UnlinkOK, ExitOK, AstrayOK
    <3> QED  BY <3>1, <3>2, <3>3, <3>7, <3>8, <3>9 DEF Steady
  <2> QED  BY <1>1, <2>2, <2>3, <2>4 DEF IInv
<1> QED  BY <1>2, <1>3

-----------------------------------------------------------------------------
(* Theorems *)

\* The inductive invariant: who holds a reference is counted, for every
\* configuration of interfaces, every set of reads and any number of signals.
THEOREM HeldIsCounted == LifeSpec => []IInv
<1>1. LifeInit => IInv  BY InitSteady
<1>2. IInv /\ [LifeNext]_lifeVars => IInv'  BY NextInv
<1> QED  BY <1>1, <1>2, PTL DEF LifeSpec

\* Every variable keeps its type: the counts are natural numbers, and the stack
\* of each thread holds tasks of the program.
THEOREM LifeTypeCorrect == LifeSpec => []LifeTypeOK
<1>1. IInv => LifeTypeOK  BY DEF IInv
<1> QED  BY <1>1, HeldIsCounted, PTL

\* fi_close takes an interface down when its thread serves no more and its reads
\* are settled; do_exit comes when every interface, the sources and the pool are
\* gone.
THEOREM OrderlyEnd == LifeSpec => []TakenDownInOrder
<1>1. IInv => TakenDownInOrder  BY InvImpliesOrder
<1> QED  BY <1>1, HeldIsCounted, PTL

\* Counts, interfaces and the queue of syncif are not used after they are freed;
\* the array only when an interface ended them all in its own thread; the sources,
\* by walks and by the timer for statistics, only when every interface has quit.
THEOREM FreedUnused == LifeSpec => []FreedIsLeftAlone
<1>1. LifeInit => LateUse  BY DEF LifeInit, LateUse
<1>2. LateUse /\ [LifeNext]_lifeVars => LateUse'  BY LateUseStep
<1>3. IInv /\ LateUse => FreedIsLeftAlone  BY InvImpliesUnused
<1> QED  BY <1>1, <1>2, <1>3, HeldIsCounted, PTL DEF LifeSpec
=============================================================================
