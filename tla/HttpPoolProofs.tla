---------------------------- MODULE HttpPoolProofs ----------------------------
(***************************************************************************)
(* The http client for any requests and connections: a request is in one   *)
(* place at a time, none waits while it could be sent, all is freed when   *)
(* it is closed, and each request is called back once.                     *)
(***************************************************************************)
EXTENDS HttpPool, FiniteSetTheorems, SequenceTheorems, TLAPS

(* The inductive invariant *)

\* The calls that are made for a request
RequestCalls == {"try", "make", "error", "answer", "free_rq"}

\* How the calls under way lie on each other: one that handles a failure is the
\* innermost; a request has one call at a time, but that its answer is followed
\* by its end.
Shape(s) ==
  /\ \A i \in DOMAIN s :
        /\ s[i].call \in {"make", "error"} => i = 1
        /\ s[i].rq # None <=> s[i].call \in RequestCalls
        /\ s[i].conn # None => s[i].call = "make"
        /\ s[i].call = "answer" =>
             i + 1 \in DOMAIN s /\ s[i + 1].call = "free_rq" /\ s[i + 1].rq = s[i].rq
  /\ \A i, j \in DOMAIN s :
        /\ i < j /\ s[i].rq = s[j].rq /\ s[i].rq # None =>
             j = i + 1 /\ s[i].call = "answer"
        /\ s[i].call = "release" /\ s[j].call = "release" => i = j

Under(f) == \E x \in Range(stack) : x.call = f
UnderFor(f, r) == \E x \in Range(stack) : x.call = f /\ x.rq = r
Dealt(r) == \E x \in Range(stack) : x.rq = r
Queued(r) == r \in Range(rqq)
Sent(r) == rqConn[r] \in Conns

\* Where the requests are
Places ==
  /\ IsInjective(rqq)
  /\ \A r \in Requests : Queued(r) \/ Sent(r) \/ Dealt(r) => status[r] = "active"
  /\ \A r \in Requests : Queued(r) => ~Sent(r) /\ ~Dealt(r)
  /\ \A r \in Requests : Sent(r) => conn[rqConn[r]] = "inuse"
  /\ \A r, q \in Requests : Sent(r) /\ rqConn[r] = rqConn[q] => r = q
  /\ ~MayOutlast => \A r \in Active : Queued(r) \/ Sent(r) \/ Dealt(r)

\* The connections in use, of requests and of calls
Holds ==
  /\ \A x \in Range(stack) : x.call \in {"try", "make"} => ~Sent(x.rq)
  /\ \A x \in Range(stack) : x.call = "error" => rqConn[x.rq] \in Conns \cup {None}
  /\ \A x \in Range(stack) : x.conn # None =>
        conn[x.conn] = "inuse" /\ \A r \in Requests : rqConn[r] # x.conn
  /\ \A c \in In("inuse") : \/ \E r \in Requests : rqConn[r] = c
                            \/ \E x \in Range(stack) : x.conn = c

\* What waits has a call under way that will find what there is for it.
Sought ==
  /\ n_conn = Cardinality(Conns \ In("none"))
  /\ ~endpoint => rqq = <<>> /\ In("none") = Conns
  /\ rqq # <<>> /\ In("ready") # {} => Under("link")
  /\ rqq # <<>> /\ In("none") # {} => Under("new")
  /\ In("new") # {} => Under("new") \/ Under("resolve")

\* Who holds the pool, and what closes it
Closes ==
  /\ Under("release") => closing
  /\ cnnRef = (IF endpoint THEN 1 ELSE 0) + (IF closing /\ ~Under("release") THEN 0 ELSE 1)
  /\ closing => \A r \in Active : UnderFor("free_rq", r)
  /\ closing /\ endpoint => \/ Under("tidy_endpoint")
                            \/ In("none") = Conns /\ Under("free_if_unused")

\* Who has been called back
Answered(r) == answers[r] # <<>>

Answers ==
  /\ \A r \in Requests : Answered(r) => \E ok \in BOOLEAN : answers[r] = <<ok>>
  /\ \A r \in Requests :
        /\ status[r] = "idle" => ~Answered(r)
        /\ status[r] = "over" => Answered(r)
        /\ status[r] = "active" =>
             (Answered(r) <=> UnderFor("free_rq", r) /\ ~UnderFor("answer", r))

IInv == TypeOK /\ Shape(stack) /\ Places /\ Holds /\ Sought /\ Closes /\ Answers

-----------------------------------------------------------------------------
(* The stack *)

LEMMA ListOfOne ==
  ASSUME NEW a \in Frames
  PROVE  <<a>> \in Seq(Frames) /\ Len(<<a>>) = 1 /\ <<a>>[1] = a /\ Range(<<a>>) = {a}
<1>1. <<a>> \in Seq(Frames) /\ Len(<<a>>) = 1 /\ <<a>>[1] = a /\ DOMAIN <<a>> = 1..1
  OBVIOUS
<1> QED BY <1>1 DEF Range

LEMMA ListOfTwo ==
  ASSUME NEW a \in Frames, NEW b \in Frames
  PROVE  /\ <<a, b>> \in Seq(Frames) /\ Len(<<a, b>>) = 2
         /\ <<a, b>>[1] = a /\ <<a, b>>[2] = b /\ Range(<<a, b>>) = {a, b}
<1>1. /\ <<a, b>> \in Seq(Frames) /\ Len(<<a, b>>) = 2
      /\ <<a, b>>[1] = a /\ <<a, b>>[2] = b /\ DOMAIN <<a, b>> = 1..2
  OBVIOUS
<1> QED BY <1>1 DEF Range

LEMMA ListsJoin ==
  ASSUME NEW a \in Frames, NEW b \in Frames
  PROVE  <<a>> \o <<b>> = <<a, b>>
<1> DEFINE s == <<a>> \o <<b>>
           t == <<a, b>>
<1>1. /\ s \in Seq(Frames) /\ Len(s) = 2 /\ s[1] = a /\ s[2] = b
      /\ t \in Seq(Frames) /\ Len(t) = 2 /\ t[1] = a /\ t[2] = b
  BY ListOfOne, ListOfTwo, ConcatProperties
<1> HIDE DEF s, t
<1>2. \A i \in 1..Len(s) : s[i] = t[i]
  BY <1>1
<1>3. s = t
  BY <1>1, <1>2, SeqEqual
<1> QED BY <1>3 DEF s, t

\* The calls that are put on the stack
Plain(a) == /\ a \in Frames
            /\ a.rq # None <=> a.call \in RequestCalls
            /\ a.conn # None => a.call = "make"

LEMMA ShapeOfOne ==
  ASSUME NEW a, Plain(a), a.call # "answer"
  PROVE  Shape(<<a>>)
BY ListOfOne DEF Shape, Plain

LEMMA ShapeOfTwo ==
  ASSUME NEW a, NEW b, Plain(a), Plain(b), b.call \notin {"make", "error", "answer"},
         IF a.call = "answer" THEN b.call = "free_rq" /\ b.rq = a.rq ELSE a.rq = b.rq => a.rq = None,
         a.call # b.call
  PROVE  Shape(<<a, b>>)
<1>1. a \in Frames /\ b \in Frames
  BY DEF Plain
<1> QED BY <1>1, ListOfTwo DEF Shape, Plain

LEMMA Rest ==
  ASSUME stack \in Seq(Frames), stack # <<>>, Shape(stack)
  PROVE  /\ It \in Frames /\ It \in Range(stack) /\ It = stack[1]
         /\ Tail(stack) \in Seq(Frames) /\ Shape(Tail(stack))
         /\ Range(stack) = {It} \cup Range(Tail(stack))
         /\ It.rq # None <=> It.call \in RequestCalls
         /\ It.conn # None => It.call = "make"
         /\ \A x \in Range(Tail(stack)) :
               /\ x \in Frames /\ x.call \notin {"make", "error"} /\ x.conn = None
               /\ x.rq # None <=> x.call \in RequestCalls
               /\ x.rq = It.rq /\ x.rq # None => It.call = "answer" /\ x.call = "free_rq"
               /\ It.call = "release" => x.call # "release"
         /\ It.call = "answer" => \E x \in Range(Tail(stack)) : x.call = "free_rq" /\ x.rq = It.rq
<1> DEFINE T == Tail(stack)
           n == Len(stack)
<1>1. /\ n \in Nat \ {0} /\ DOMAIN stack = 1..n /\ It = stack[1] /\ It \in Frames
      /\ T \in Seq(Frames) /\ Len(T) = n - 1 /\ DOMAIN T = 1..(n - 1)
      /\ \A i \in 1..(n - 1) : T[i] = stack[i + 1] /\ i + 1 \in 1..n
      /\ \A i \in 1..n : stack[i] \in Frames
  BY HeadTailProperties, LenProperties, EmptySeq DEF It
<1>2. Range(stack) = {stack[i] : i \in 1..n} /\ Range(T) = {stack[i] : i \in 2..n}
  <2>1. Range(T) = {T[i] : i \in 1..(n - 1)}
    BY <1>1 DEF Range
  <2>2. ASSUME NEW i \in 2..n PROVE i - 1 \in 1..(n - 1) /\ T[i - 1] = stack[i]
    BY <1>1
  <2>3. ASSUME NEW i \in 1..(n - 1) PROVE i + 1 \in 2..n /\ T[i] = stack[i + 1]
    BY <1>1
  <2> QED BY <1>1, <2>1, <2>2, <2>3 DEF Range
<1>3. Shape(T)
  <2>1. ASSUME NEW i \in 1..(n - 1)
        PROVE  /\ T[i].call \notin {"make", "error"}
               /\ T[i].rq # None <=> T[i].call \in RequestCalls
               /\ T[i].conn # None => T[i].call = "make"
               /\ T[i].call = "answer" =>
                    i + 1 \in 1..(n - 1) /\ T[i + 1].call = "free_rq" /\ T[i + 1].rq = T[i].rq
    BY <1>1 DEF Shape
  <2>2. ASSUME NEW i \in 1..(n - 1), NEW j \in 1..(n - 1)
        PROVE  /\ i < j /\ T[i].rq = T[j].rq /\ T[i].rq # None =>
                    j = i + 1 /\ T[i].call = "answer"
               /\ T[i].call = "release" /\ T[j].call = "release" => i = j
    <3>1. i + 1 \in DOMAIN stack /\ j + 1 \in DOMAIN stack /\ T[i] = stack[i + 1] /\ T[j] = stack[j + 1]
      BY <1>1
    <3> QED BY <1>1, <3>1 DEF Shape
  <2> QED BY <1>1, <2>1, <2>2 DEF Shape
<1>4. ASSUME NEW i \in 2..n
      PROVE  /\ stack[i].call \notin {"make", "error"} /\ stack[i].conn = None
             /\ stack[i].rq # None <=> stack[i].call \in RequestCalls
             /\ stack[i].rq = It.rq /\ stack[i].rq # None => It.call = "answer" /\ stack[i].call = "free_rq"
             /\ It.call = "release" => stack[i].call # "release"
  BY <1>1 DEF Shape
<1>5. /\ It.rq # None <=> It.call \in RequestCalls
      /\ It.conn # None => It.call = "make"
      /\ It.call = "answer" => 2 \in 2..n /\ stack[2].call = "free_rq" /\ stack[2].rq = It.rq
  BY <1>1 DEF Shape
<1>6. Range(stack) = {It} \cup Range(T)
  BY <1>1, <1>2
<1> QED BY <1>1, <1>2, <1>3, <1>4, <1>5, <1>6

\* The innermost call goes on with others.
LEMMA OnRest ==
  ASSUME stack \in Seq(Frames), stack # <<>>, Shape(stack),
         NEW fs \in Seq(Frames), Shape(fs),
         \A x \in Range(fs), y \in Range(Tail(stack)) :
            /\ x.rq # None => x.rq # y.rq
            /\ x.call = "release" => y.call # "release"
  PROVE  LET s == fs \o Tail(stack)
         IN  s \in Seq(Frames) /\ Shape(s) /\ Range(s) = Range(fs) \cup Range(Tail(stack))
<1> DEFINE T == Tail(stack)
           s == fs \o T
           m == Len(fs)
           n == Len(T)
<1>1. /\ T \in Seq(Frames) /\ Shape(T)
      /\ \A x \in Range(T) : x.call \notin {"make", "error"}
  BY Rest
<1>2. /\ m \in Nat /\ n \in Nat /\ DOMAIN fs = 1..m /\ DOMAIN T = 1..n
      /\ s \in Seq(Frames) /\ Len(s) = m + n /\ DOMAIN s = 1..(m + n)
      /\ \A i \in 1..m : s[i] = fs[i]
      /\ \A i \in (m + 1)..(m + n) : s[i] = T[i - m]
  BY <1>1, ConcatProperties, LenProperties
<1>3. ASSUME NEW i \in 1..(m + n)
      PROVE  \/ i \in 1..m /\ s[i] = fs[i] /\ s[i] \in Range(fs)
             \/ i \in (m + 1)..(m + n) /\ i - m \in 1..n /\ s[i] = T[i - m] /\ s[i] \in Range(T)
  <2>1. CASE i \in 1..m
    BY <1>2, <2>1 DEF Range
  <2>2. CASE i \in (m + 1)..(m + n)
    <3>1. i - m \in 1..n /\ s[i] = T[i - m]
      BY <1>2, <2>2
    <3> QED BY <1>2, <2>2, <3>1 DEF Range
  <2> QED BY <1>2, <2>1, <2>2
<1>4. Range(s) = Range(fs) \cup Range(T)
  <2>1. Range(s) \subseteq Range(fs) \cup Range(T)
    BY <1>2, <1>3 DEF Range
  <2>2. ASSUME NEW i \in 1..m PROVE fs[i] \in Range(s)
    BY <1>2, i \in 1..(m + n) DEF Range
  <2>3. ASSUME NEW i \in 1..n PROVE T[i] \in Range(s)
    <3>1. i + m \in (m + 1)..(m + n) /\ s[i + m] = T[i] /\ i + m \in DOMAIN s
      BY <1>2
    <3> QED BY <3>1 DEF Range
  <2> QED BY <1>2, <2>1, <2>2, <2>3 DEF Range
<1>5. ASSUME NEW i \in 1..(m + n)
      PROVE  /\ s[i].call \in {"make", "error"} => i = 1
             /\ s[i].rq # None <=> s[i].call \in RequestCalls
             /\ s[i].conn # None => s[i].call = "make"
             /\ s[i].call = "answer" =>
                  i + 1 \in 1..(m + n) /\ s[i + 1].call = "free_rq" /\ s[i + 1].rq = s[i].rq
  <2>1. CASE i \in 1..m
    <3>1. s[i] = fs[i] /\ (s[i].call = "answer" => i + 1 \in 1..m)
      BY <1>2, <2>1 DEF Shape
    <3>2. i + 1 \in 1..m => s[i + 1] = fs[i + 1] /\ i + 1 \in 1..(m + n)
      BY <1>2
    <3> QED BY <1>2, <2>1, <3>1, <3>2 DEF Shape
  <2>2. CASE i \in (m + 1)..(m + n)
    <3>1. i - m \in 1..n /\ s[i] = T[i - m] /\ s[i] \in Range(T)
      BY <1>3, <2>2, <1>2
    <3>2. s[i].call = "answer" =>
            (i - m) + 1 \in 1..n /\ T[(i - m) + 1].call = "free_rq" /\ T[(i - m) + 1].rq = s[i].rq
      BY <1>1, <1>2, <3>1 DEF Shape
    <3>3. (i - m) + 1 \in 1..n => i + 1 \in (m + 1)..(m + n) /\ s[i + 1] = T[(i - m) + 1]
      <4>1. (i + 1) - m = (i - m) + 1
        BY <1>2
      <4> QED BY <1>2, <4>1
    <3> QED BY <1>1, <1>2, <3>1, <3>2, <3>3 DEF Shape
  <2> QED BY <1>2, <2>1, <2>2
<1>6. ASSUME NEW i \in 1..(m + n), NEW j \in 1..(m + n)
      PROVE  /\ i < j /\ s[i].rq = s[j].rq /\ s[i].rq # None =>
                  j = i + 1 /\ s[i].call = "answer"
             /\ s[i].call = "release" /\ s[j].call = "release" => i = j
  <2>1. CASE i \in 1..m /\ j \in 1..m
    BY <1>2, <2>1 DEF Shape
  <2>2. CASE i \in (m + 1)..(m + n) /\ j \in (m + 1)..(m + n)
    <3>1. i - m \in 1..n /\ s[i] = T[i - m] /\ j - m \in 1..n /\ s[j] = T[j - m]
      BY <1>2, <2>2
    <3>2. /\ i - m < j - m /\ s[i].rq = s[j].rq /\ s[i].rq # None =>
               j - m = (i - m) + 1 /\ s[i].call = "answer"
          /\ s[i].call = "release" /\ s[j].call = "release" => i - m = j - m
      BY <1>1, <1>2, <3>1 DEF Shape
    <3> QED BY <1>2, <3>2
  <2>3. CASE i \in 1..m /\ j \in (m + 1)..(m + n)
    BY <1>2, <1>3, <2>3
  <2>4. CASE i \in (m + 1)..(m + n) /\ j \in 1..m
    BY <1>2, <1>3, <2>4
  <2> QED BY <1>2, <2>1, <2>2, <2>3, <2>4
<1> HIDE DEF s, m, n
<1>7. Shape(s)
  BY <1>2, <1>5, <1>6 DEF Shape
<1> QED BY <1>2, <1>4, <1>7 DEF s

\* Nothing below has its request, or is the release it is.
Fresh(a) == \A y \in Range(Tail(stack)) : /\ a.rq # None => a.rq # y.rq
                                          /\ a.call = "release" => y.call # "release"

\* What is under way when the innermost call goes on with the calls in A
Moves(A) ==
  /\ \A f \in Calls \ {It.call} : Under(f)' <=> Under(f) \/ \E x \in A : x.call = f
  /\ \A q \in Requests \ {It.rq} : Dealt(q)' <=> Dealt(q) \/ \E x \in A : x.rq = q
  /\ \A q \in Requests \ {It.rq}, f \in Calls :
       UnderFor(f, q)' <=> UnderFor(f, q) \/ \E x \in A : x.call = f /\ x.rq = q
  /\ \A q \in Requests : q = It.rq /\ It.call # "answer" =>
       /\ Dealt(q)' <=> \E x \in A : x.rq = q
       /\ \A f \in Calls : UnderFor(f, q)' <=> \E x \in A : x.call = f /\ x.rq = q

LEMMA Seen ==
  ASSUME TypeOK, Shape(stack), stack # <<>>, NEW A,
         Range(stack') = A \cup Range(Tail(stack))
  PROVE  Moves(A)
<1> DEFINE T == Range(Tail(stack))
<1>1. /\ Range(stack) = {It} \cup T
      /\ It.rq \in Requests /\ It.call # "answer" => \A x \in T : x.rq # It.rq
  BY Rest, HttpPoolAssumption DEF TypeOK
<1>2. Range(stack') = A \cup T
  OBVIOUS
<1> HIDE DEF T
<1>3. ASSUME NEW f \in Calls \ {It.call} PROVE Under(f)' <=> Under(f) \/ \E x \in A : x.call = f
  BY <1>1, <1>2 DEF Under
<1>4. ASSUME NEW f \in Calls, NEW q \in Requests \ {It.rq}
      PROVE  UnderFor(f, q)' <=> UnderFor(f, q) \/ \E x \in A : x.call = f /\ x.rq = q
  BY <1>1, <1>2 DEF UnderFor
<1>5. ASSUME NEW q \in Requests \ {It.rq} PROVE Dealt(q)' <=> Dealt(q) \/ \E x \in A : x.rq = q
  BY <1>1, <1>2 DEF Dealt
<1>6. ASSUME NEW q \in Requests, q = It.rq, It.call # "answer", NEW f \in Calls
      PROVE  /\ Dealt(q)' <=> \E x \in A : x.rq = q
             /\ UnderFor(f, q)' <=> \E x \in A : x.call = f /\ x.rq = q
  BY <1>1, <1>2, <1>6 DEF Dealt, UnderFor
<1>7. \A q \in Requests : q = It.rq /\ It.call # "answer" =>
        (Dealt(q)' <=> \E x \in A : x.rq = q)
  BY <1>1, <1>2 DEF Dealt
<1> QED BY <1>3, <1>4, <1>5, <1>6, <1>7 DEF Moves

LEMMA PutNone ==
  ASSUME TypeOK, Shape(stack), stack # <<>>, Returns
  PROVE  /\ stack' \in Seq(Frames) /\ Shape(stack') /\ Range(stack') = Range(Tail(stack))
         /\ Moves({})
<1>1. stack' \in Seq(Frames) /\ Shape(stack') /\ Range(stack') = Range(Tail(stack))
  BY Rest DEF TypeOK, Returns
<1>2. Range(stack') = {} \cup Range(Tail(stack))
  BY <1>1
<1> QED BY <1>1, <1>2, Seen

LEMMA PutOne ==
  ASSUME TypeOK, Shape(stack), stack # <<>>, NEW a, Plain(a), a.call # "answer", Fresh(a),
         GoesOn(<<a>>)
  PROVE  /\ stack' \in Seq(Frames) /\ Shape(stack')
         /\ Range(stack') = {a} \cup Range(Tail(stack)) /\ Moves({a})
<1>1. a \in Frames /\ stack \in Seq(Frames)
  BY DEF Plain, TypeOK
<1>2. <<a>> \in Seq(Frames) /\ Shape(<<a>>) /\ Range(<<a>>) = {a}
  BY <1>1, ListOfOne, ShapeOfOne
<1>3. \A x \in Range(<<a>>), y \in Range(Tail(stack)) :
         /\ x.rq # None => x.rq # y.rq
         /\ x.call = "release" => y.call # "release"
  BY <1>2 DEF Fresh
<1>4. /\ stack' \in Seq(Frames) /\ Shape(stack')
      /\ Range(stack') = {a} \cup Range(Tail(stack))
  BY <1>1, <1>2, <1>3, OnRest DEF GoesOn
<1> QED BY <1>4, Seen

LEMMA PutTwo ==
  ASSUME TypeOK, Shape(stack), stack # <<>>, NEW a, NEW b, Plain(a), Plain(b),
         b.call \notin {"make", "error", "answer"},
         IF a.call = "answer" THEN b.call = "free_rq" /\ b.rq = a.rq ELSE a.rq = b.rq => a.rq = None,
         a.call # b.call, Fresh(a), Fresh(b),
         GoesOn(<<a, b>>)
  PROVE  /\ stack' \in Seq(Frames) /\ Shape(stack')
         /\ Range(stack') = {a, b} \cup Range(Tail(stack)) /\ Moves({a, b})
<1>1. a \in Frames /\ b \in Frames /\ stack \in Seq(Frames)
  BY DEF Plain, TypeOK
<1>2. <<a, b>> \in Seq(Frames) /\ Shape(<<a, b>>) /\ Range(<<a, b>>) = {a, b}
  BY <1>1, ListOfTwo, ShapeOfTwo
<1>3. \A x \in Range(<<a, b>>), y \in Range(Tail(stack)) :
         /\ x.rq # None => x.rq # y.rq
         /\ x.call = "release" => y.call # "release"
  BY <1>2 DEF Fresh
<1>4. /\ stack' \in Seq(Frames) /\ Shape(stack')
      /\ Range(stack') = {a, b} \cup Range(Tail(stack))
  BY <1>1, <1>2, <1>3, OnRest DEF GoesOn
<1> QED BY <1>4, Seen

\* A call goes on top of the innermost one.
LEMMA OnTop ==
  ASSUME stack \in Seq(Frames), stack # <<>>, NEW a \in Frames
  PROVE  <<a>> \o stack = <<a, It>> \o Tail(stack)
<1> DEFINE T == Tail(stack)
           s == <<a>> \o stack
           t == <<a, It>> \o T
<1>1. /\ Len(stack) \in Nat \ {0} /\ It = stack[1] /\ It \in Frames
      /\ T \in Seq(Frames) /\ Len(T) = Len(stack) - 1
      /\ \A i \in 1..Len(T) : T[i] = stack[i + 1]
  BY HeadTailProperties, LenProperties, EmptySeq DEF It
<1>2. /\ s \in Seq(Frames) /\ Len(s) = Len(stack) + 1
      /\ \A i \in 1..Len(s) : s[i] = IF i <= 1 THEN <<a>>[i] ELSE stack[i - 1]
  BY <1>1, ListOfOne, ConcatProperties
<1>3. /\ t \in Seq(Frames) /\ Len(t) = Len(stack) + 1
      /\ \A i \in 1..Len(t) : t[i] = IF i <= 2 THEN <<a, It>>[i] ELSE T[i - 2]
  BY <1>1, ListOfTwo, ConcatProperties
<1>4. ASSUME NEW i \in 1..Len(s) PROVE s[i] = t[i]
  <2>1. CASE i = 1
    BY <1>1, <1>2, <1>3, <2>1, ListOfOne, ListOfTwo
  <2>2. CASE i = 2
    BY <1>1, <1>2, <1>3, <2>2, ListOfTwo
  <2>3. CASE i > 2
    <3>1. i - 2 \in 1..Len(T) /\ T[i - 2] = stack[(i - 2) + 1] /\ (i - 2) + 1 = i - 1
      BY <1>1, <1>2, <2>3
    <3> QED BY <1>2, <1>3, <2>3, <3>1
  <2> QED BY <1>2, <2>1, <2>2, <2>3
<1> HIDE DEF s, t
<1>5. s = t
  BY <1>2, <1>3, <1>4, SeqEqual
<1> QED BY <1>5 DEF s, t

\* The calls that are made
LEMMA CallTypes ==
  ASSUME NEW f \in Calls
  PROVE  /\ Call(f) \in Frames
         /\ Call(f).call = f /\ Call(f).rq = None /\ Call(f).conn = None
BY DEF Call, Frames

LEMMA CallForTypes ==
  ASSUME NEW f \in Calls, NEW r \in Requests
  PROVE  /\ CallFor(f, r) \in Frames
         /\ CallFor(f, r).call = f /\ CallFor(f, r).rq = r /\ CallFor(f, r).conn = None
BY DEF Call, CallFor, Frames

-----------------------------------------------------------------------------
(* The queue *)

LEMMA QueueGrows ==
  ASSUME rqq \in Seq(Requests), IsInjective(rqq), NEW r \in Requests, r \notin Range(rqq)
  PROVE  LET q == <<r>> \o rqq
         IN  /\ q \in Seq(Requests) /\ q # <<>> /\ IsInjective(q)
             /\ Range(q) = {r} \cup Range(rqq)
<1> DEFINE q == <<r>> \o rqq
           n == Len(rqq)
<1>1. <<r>> \in Seq(Requests) /\ Len(<<r>>) = 1 /\ <<r>>[1] = r
  OBVIOUS
<1>2. /\ n \in Nat /\ DOMAIN rqq = 1..n
      /\ q \in Seq(Requests) /\ DOMAIN q = 1..(n + 1) /\ Len(q) = n + 1
      /\ q[1] = r /\ \A i \in 1..n : q[i + 1] = rqq[i]
  <2>1. /\ q \in Seq(Requests) /\ Len(q) = 1 + n /\ n \in Nat
        /\ \A i \in 1..(1 + n) : q[i] = IF i <= 1 THEN <<r>>[i] ELSE rqq[i - 1]
    BY <1>1, ConcatProperties, LenProperties
  <2>2. ASSUME NEW i \in 1..n PROVE q[i + 1] = rqq[i]
    <3>1. i + 1 \in 1..(1 + n) /\ ~(i + 1 <= 1) /\ (i + 1) - 1 = i
      BY <2>1
    <3> QED BY <2>1, <3>1
  <2> QED BY <1>1, <2>1, <2>2, LenProperties
<1>3. ASSUME NEW i \in 1..(n + 1)
      PROVE  i = 1 \/ (i - 1 \in 1..n /\ q[i] = rqq[i - 1])
  <2>1. i # 1 => i - 1 \in 1..n /\ (i - 1) + 1 = i
    BY <1>2
  <2> QED BY <1>2, <2>1
<1> HIDE DEF q, n
<1>4. Range(q) = {r} \cup Range(rqq)
  <2>1. ASSUME NEW i \in 1..(n + 1) PROVE q[i] \in {r} \cup Range(rqq)
    BY <1>2, <1>3 DEF Range
  <2>2. r \in Range(q)
    BY <1>2, 1 \in 1..(n + 1) DEF Range
  <2>3. ASSUME NEW i \in 1..n PROVE rqq[i] \in Range(q)
    BY <1>2, i + 1 \in 1..(n + 1) DEF Range
  <2>4. Range(q) = {q[i] : i \in 1..(n + 1)} /\ Range(rqq) = {rqq[i] : i \in 1..n}
    BY <1>2 DEF Range
  <2> QED BY <2>1, <2>2, <2>3, <2>4
<1>5. IsInjective(q)
  <2>1. ASSUME NEW i \in 1..(n + 1), NEW j \in 1..(n + 1), q[i] = q[j]
        PROVE  i = j
    <3>1. CASE i = 1 \/ j = 1
      BY <1>2, <1>3, <2>1, <3>1 DEF Range
    <3>2. CASE i # 1 /\ j # 1
      <4>1. i - 1 = j - 1
        <5>1. /\ i - 1 \in DOMAIN rqq /\ j - 1 \in DOMAIN rqq
              /\ rqq[i - 1] = rqq[j - 1]
          BY <1>2, <1>3, <2>1, <3>2
        <5> QED BY <5>1 DEF IsInjective
      <4> QED BY <1>2, <4>1
    <3> QED BY <3>1, <3>2
  <2> QED BY <1>2, <2>1 DEF IsInjective
<1>6. q # <<>>
  BY <1>2
<1> QED BY <1>2, <1>4, <1>5, <1>6 DEF q

\* Without one of its members, the queue has all the others.
LEMMA QueueShrinks ==
  ASSUME rqq \in Seq(Requests), IsInjective(rqq), NEW k \in DOMAIN rqq
  PROVE  LET q == SubSeq(rqq, 1, k - 1) \o SubSeq(rqq, k + 1, Len(rqq))
         IN  /\ rqq[k] \in Requests /\ rqq[k] \in Range(rqq)
             /\ q \in Seq(Requests) /\ IsInjective(q)
             /\ Range(q) = Range(rqq) \ {rqq[k]}
<1> DEFINE n == Len(rqq)
           a == SubSeq(rqq, 1, k - 1)
           b == SubSeq(rqq, k + 1, n)
           q == a \o b
           At(i) == IF i < k THEN i ELSE i + 1
<1>1. n \in Nat /\ DOMAIN rqq = 1..n /\ k \in 1..n /\ \A i \in 1..n : rqq[i] \in Requests
  BY LenProperties
<1>2. /\ a \in Seq(Requests) /\ Len(a) = k - 1
      /\ \A i \in 1..(k - 1) : a[i] = rqq[i]
  <2>1. \A i \in 1..(k - 1) : rqq[i] \in Requests
    BY <1>1
  <2>2. /\ a \in Seq(Requests) /\ Len(a) = IF 1 <= k - 1 THEN (k - 1) - 1 + 1 ELSE 0
        /\ \A i \in 1..((k - 1) - 1 + 1) : a[i] = rqq[1 + i - 1]
    BY <1>1, <2>1, SubSeqProperties
  <2> QED BY <1>1, <2>2
<1>3. /\ b \in Seq(Requests) /\ Len(b) = n - k
      /\ \A i \in 1..(n - k) : b[i] = rqq[k + i]
  <2>1. \A i \in (k + 1)..n : rqq[i] \in Requests
    BY <1>1
  <2>2. /\ b \in Seq(Requests) /\ Len(b) = IF k + 1 <= n THEN n - (k + 1) + 1 ELSE 0
        /\ \A i \in 1..(n - (k + 1) + 1) : b[i] = rqq[(k + 1) + i - 1]
    BY <1>1, <2>1, SubSeqProperties
  <2>3. ASSUME NEW i \in 1..(n - k) PROVE b[i] = rqq[k + i]
    <3>1. i \in 1..(n - (k + 1) + 1) /\ (k + 1) + i - 1 = k + i
      BY <1>1
    <3> QED BY <2>2, <3>1
  <2> QED BY <1>1, <2>2, <2>3
<1> HIDE DEF a, b, n
<1>4. /\ q \in Seq(Requests) /\ DOMAIN q = 1..(n - 1)
      /\ \A i \in 1..(n - 1) : q[i] = rqq[At(i)] /\ At(i) \in 1..n
  <2>1. /\ q \in Seq(Requests) /\ Len(q) = n - 1
        /\ \A i \in 1..(n - 1) : q[i] = IF i <= k - 1 THEN a[i] ELSE b[i - (k - 1)]
    <3>1. Len(a) + Len(b) = n - 1
      BY <1>1, <1>2, <1>3
    <3>2. /\ q \in Seq(Requests) /\ Len(q) = n - 1
          /\ \A i \in 1..(n - 1) : q[i] = IF i <= Len(a) THEN a[i] ELSE b[i - Len(a)]
      <4>1. /\ q \in Seq(Requests) /\ Len(q) = Len(a) + Len(b)
            /\ \A i \in 1..(Len(a) + Len(b)) : q[i] = IF i <= Len(a) THEN a[i] ELSE b[i - Len(a)]
        BY <1>2, <1>3, ConcatProperties
      <4> QED BY <3>1, <4>1
    <3> QED BY <1>2, <3>2
  <2> HIDE DEF q
  <2>2. ASSUME NEW i \in 1..(n - 1) PROVE q[i] = rqq[At(i)] /\ At(i) \in 1..n
    <3>1. CASE i < k
      <4>1. i \in 1..(k - 1) /\ i <= k - 1 /\ i \in 1..n
        BY <1>1, <3>1
      <4> QED BY <1>2, <2>1, <3>1, <4>1
    <3>2. CASE i >= k
      <4>1. /\ i - (k - 1) \in 1..(n - k) /\ k + (i - (k - 1)) = i + 1
            /\ ~(i <= k - 1) /\ ~(i < k) /\ i + 1 \in 1..n
        BY <1>1, <3>2
      <4> QED BY <1>3, <2>1, <4>1
    <3> QED BY <1>1, <3>1, <3>2
  <2> QED BY <1>1, <2>1, <2>2, LenProperties
<1> HIDE DEF q
<1>5. Range(q) = Range(rqq) \ {rqq[k]}
  <2>1. ASSUME NEW i \in 1..(n - 1) PROVE q[i] \in Range(rqq) \ {rqq[k]}
    <3>1. At(i) # k /\ At(i) \in 1..n
      BY <1>1, <1>4
    <3> QED BY <1>1, <1>4, <3>1 DEF Range, IsInjective
  <2>2. ASSUME NEW j \in 1..n, j # k PROVE rqq[j] \in Range(q)
    <3>1. CASE j < k
      BY <1>1, <1>4, <3>1, j \in 1..(n - 1), At(j) = j DEF Range
    <3>2. CASE j > k
      <4>1. j - 1 \in 1..(n - 1) /\ At(j - 1) = j
        BY <1>1, <3>2
      <4> QED BY <1>4, <4>1 DEF Range
    <3> QED BY <1>1, <2>2, <3>1, <3>2
  <2> QED BY <1>1, <1>4, <2>1, <2>2 DEF Range
<1>6. IsInjective(q)
  <2>1. ASSUME NEW i \in 1..(n - 1), NEW j \in 1..(n - 1), q[i] = q[j] PROVE i = j
    <3>1. At(i) = At(j)
      BY <1>1, <1>4, <2>1 DEF IsInjective
    <3> QED BY <1>1, <3>1
  <2> QED BY <1>4, <2>1 DEF IsInjective
<1>7. rqq[k] \in Range(rqq)
  BY DEF Range
<1> QED BY <1>1, <1>4, <1>5, <1>6, <1>7 DEF q, a, b, n

LEMMA QueueHead ==
  ASSUME rqq \in Seq(Requests), IsInjective(rqq), rqq # <<>>
  PROVE  /\ Head(rqq) \in Requests /\ Head(rqq) \in Range(rqq)
         /\ Tail(rqq) \in Seq(Requests) /\ IsInjective(Tail(rqq))
         /\ Range(Tail(rqq)) = Range(rqq) \ {Head(rqq)}
<1>1. /\ Len(rqq) \in Nat \ {0} /\ 1 \in DOMAIN rqq /\ Head(rqq) = rqq[1]
  BY EmptySeq, LenProperties
<1>2. SubSeq(rqq, 1, 1 - 1) = <<>> /\ SubSeq(rqq, 1 + 1, Len(rqq)) = Tail(rqq)
  BY SubSeqEmpty, TailIsSubSeq
<1>3. Tail(rqq) \in Seq(Requests) /\ <<>> \o Tail(rqq) = Tail(rqq)
  BY HeadTailProperties, ConcatEmptySeq
<1> QED BY <1>1, <1>2, <1>3, QueueShrinks

LEMMA FirstOf ==
  ASSUME NEW S \in SUBSET Nat, S # {}
  PROVE  Min(S) \in S
<1>1. PICK x \in S : \A y \in S : <<y, x>> \notin OpToRel(<, Nat)
  BY NatLessThanWellFounded, WFMin
<1>2. \A y \in S : x <= y
  <2>1. ASSUME NEW y \in S, y < x PROVE FALSE
    <3>1. <<y, x>> \in Nat \X Nat
      OBVIOUS
    <3> QED BY <1>1, <2>1, <3>1 DEF OpToRel
  <2> QED BY <2>1
<1> QED BY <1>2 DEF Min

-----------------------------------------------------------------------------
(* Each action keeps the invariant. *)

LEMMA NullTypes == /\ None \notin Conns /\ None \notin Requests
                   /\ Gone \notin Conns /\ Gone \notin Requests
BY HttpPoolAssumption

\* What the innermost call is when it is one of a request
LEMMA TopOf ==
  ASSUME TypeOK, Shape(stack), Places, stack # <<>>, It.call \in RequestCalls
  PROVE  /\ It.rq \in Requests /\ status[It.rq] = "active" /\ ~Queued(It.rq)
         /\ It.call # "answer" => \A x \in Range(Tail(stack)) : x.rq # It.rq
<1>1. It \in Frames /\ It \in Range(stack) /\ It.rq # None
  BY Rest DEF TypeOK
<1>2. It.rq \in Requests /\ Dealt(It.rq)
  BY <1>1 DEF Frames, Dealt
<1> QED BY <1>1, <1>2, Rest DEF TypeOK, Places

\* Nor is there anything under way between events.
LEMMA Quiet ==
  ASSUME Idle
  PROVE  Range(stack) = {} /\ \A f, q : ~Under(f) /\ ~UnderFor(f, q) /\ ~Dealt(q)
<1>1. Range(stack) = {}
  BY DEF Idle, Range
<1> QED BY <1>1 DEF Under, UnderFor, Dealt

\* An event starts the calls in A.
Starts(A) ==
  /\ Range(stack) = {} /\ Range(stack') = A
  /\ \A f \in Calls : ~Under(f) /\ (Under(f)' <=> \E x \in A : x.call = f)
  /\ \A q \in Requests : ~Dealt(q) /\ (Dealt(q)' <=> \E x \in A : x.rq = q)
  /\ \A f \in Calls, q \in Requests :
       ~UnderFor(f, q) /\ (UnderFor(f, q)' <=> \E x \in A : x.call = f /\ x.rq = q)

LEMMA StartOne ==
  ASSUME Idle, NEW a, Plain(a), a.call # "answer", stack' = <<a>>
  PROVE  stack' \in Seq(Frames) /\ Shape(stack') /\ Starts({a})
<1>1. stack' \in Seq(Frames) /\ Shape(stack') /\ Range(stack') = {a}
  BY ListOfOne, ShapeOfOne DEF Plain
<1> QED BY <1>1, Quiet DEF Starts, Under, Dealt, UnderFor

LEMMA StartTwo ==
  ASSUME Idle, NEW a, NEW b, Plain(a), Plain(b), b.call \notin {"make", "error", "answer"},
         IF a.call = "answer" THEN b.call = "free_rq" /\ b.rq = a.rq ELSE a.rq = b.rq => a.rq = None,
         a.call # b.call, stack' = <<a, b>>
  PROVE  stack' \in Seq(Frames) /\ Shape(stack') /\ Starts({a, b})
<1>1. stack' \in Seq(Frames) /\ Shape(stack') /\ Range(stack') = {a, b}
  BY ListOfTwo, ShapeOfTwo DEF Plain
<1> QED BY <1>1, Quiet DEF Starts, Under, Dealt, UnderFor

\* A call that works on the pool is for no request.
LEMMA TopOfPool ==
  ASSUME TypeOK, Shape(stack), stack # <<>>, It.call \notin RequestCalls
  PROVE  /\ It.rq = None /\ It.conn = None /\ Under(It.call)
         /\ \A x \in Range(stack) : x.conn = None
BY Rest DEF TypeOK, Under, RequestCalls

\* What an action leaves alone
LEMMA SamePlaces ==
  ASSUME Places, UNCHANGED <<status, rqConn, rqq, conn>>, \A q \in Requests : Dealt(q)' <=> Dealt(q)
  PROVE  Places'
BY DEF Places, Queued, Sent, Active

LEMMA SameHolds ==
  ASSUME Holds, UNCHANGED rqConn, In("inuse")' = In("inuse"),
         \A c \in Conns : conn[c] = "inuse" => conn'[c] = "inuse",
         \A x \in Range(stack) : x.conn = None,
         \A x \in Range(stack') : \/ x \in Range(stack)
                                  \/ x.conn = None /\ x.call \notin {"try", "make", "error"}
  PROVE  Holds'
<1>1. ASSUME NEW x \in Range(stack')
      PROVE  /\ x.call \in {"try", "make"} => ~Sent(x.rq)'
             /\ x.call = "error" => rqConn'[x.rq] \in Conns \cup {None}
             /\ x.conn = None
  BY DEF Holds, Sent
<1>2. ASSUME NEW c \in In("inuse") PROVE \E r \in Requests : rqConn'[r] = c
  BY NullTypes DEF Holds, In
<1> QED BY <1>1, <1>2 DEF Holds

LEMMA SameAnswers ==
  ASSUME Answers, UNCHANGED <<status, answers>>,
         \A q \in Requests, f \in Calls : UnderFor(f, q)' <=> UnderFor(f, q)
  PROVE  Answers'
<1>1. ASSUME NEW q \in Requests
      PROVE  /\ Answered(q)' <=> Answered(q)
             /\ UnderFor("answer", q)' <=> UnderFor("answer", q)
             /\ UnderFor("free_rq", q)' <=> UnderFor("free_rq", q)
  BY DEF Answered, Calls
<1> QED BY <1>1 DEF Answers

\* Once closed, nothing is queued.
LEMMA ClosedQueue ==
  ASSUME TypeOK, Places, Closes, closing
  PROVE  rqq = <<>> /\ \A r \in Requests : ~Queued(r)
<1>1. \A r \in Requests : ~Queued(r)
  BY DEF Places, Closes, Active, UnderFor, Dealt
<1>2. rqq # <<>> => Head(rqq) \in Requests /\ Queued(Head(rqq))
  BY QueueHead DEF TypeOK, Places, Queued
<1> QED BY <1>1, <1>2

LEMMA TryStep == IInv /\ Try => IInv'
<1> SUFFICES ASSUME IInv, Try PROVE IInv'
  OBVIOUS
<1> DEFINE T == Range(Tail(stack))
<1>r. PICK r : r = It.rq
  OBVIOUS
<1>1. /\ stack # <<>> /\ stack \in Seq(Frames) /\ It.call = "try"
  BY DEF IInv, TypeOK, Try, Top
<1>2. /\ r \in Requests /\ status[r] = "active" /\ ~Queued(r) /\ ~Sent(r) /\ Dealt(r)
      /\ \A x \in T : x.rq # r /\ x \in Frames
      /\ Range(stack) = {It} \cup T /\ It.conn = None
  BY <1>1, <1>r, TopOf, Rest DEF IInv, RequestCalls, Holds, Dealt
<1>3. ~Answered(r) /\ ~closing
  BY <1>1, <1>2, <1>r DEF IInv, Answers, Closes, UnderFor, Active
<1>a. CASE /\ retries[r] > MAX_RETRIES
           /\ GoesOn(<<CallFor("answer", r), CallFor("free_rq", r)>>)
           /\ UNCHANGED <<retries, rqq, endpoint, cnnRef>>
  <2>1. PICK a, b : a = CallFor("answer", r) /\ b = CallFor("free_rq", r)
    OBVIOUS
  <2>2. /\ Plain(a) /\ a.call = "answer" /\ a.rq = r /\ a.conn = None /\ Fresh(a)
        /\ Plain(b) /\ b.call = "free_rq" /\ b.rq = r /\ b.conn = None /\ Fresh(b)
    BY <1>2, <2>1, CallForTypes, NullTypes DEF Calls, RequestCalls, Plain, Fresh
  <2>3. /\ stack' \in Seq(Frames) /\ Shape(stack')
        /\ Range(stack') = {a, b} \cup T /\ Moves({a, b})
    BY <1>1, <1>a, <2>1, <2>2, PutTwo DEF IInv
  <2>4. UNCHANGED <<status, retries, answers, rqConn, rqq, conn, used, n_conn, orphans,
                    endpoint, cnnRef, closing, astray>>
    BY <1>a, <1>r DEF Try
  <2> HIDE DEF T
  <2>5. /\ \A q \in Requests : Dealt(q)' <=> Dealt(q)
        /\ \A f \in Calls \ RequestCalls : Under(f)' <=> Under(f)
        /\ \A q \in Requests \ {r}, f \in Calls : UnderFor(f, q)' <=> UnderFor(f, q)
        /\ UnderFor("answer", r)' /\ UnderFor("free_rq", r)'
    BY <1>1, <1>2, <1>r, <2>2, <2>3, NullTypes DEF Moves, RequestCalls, Calls
  <2>6. TypeOK'
    BY <2>3, <2>4 DEF IInv, TypeOK
  <2>7. Places'
    BY <2>4, <2>5 DEF IInv, Places, Queued, Sent, Active
  <2>8. Holds'
    BY <1>1, <1>2, <2>2, <2>3, <2>4 DEF IInv, Holds, Sent, In
  <2>9. Sought'
    BY <2>4, <2>5 DEF IInv, Sought, In, Calls, RequestCalls
  <2>10. Closes'
    BY <1>3, <2>4, <2>5 DEF IInv, Closes, Calls, RequestCalls
  <2>11. Answers'
    <3>1. ASSUME NEW q \in Requests, q # r
          PROVE  \A f \in {"answer", "free_rq"} : UnderFor(f, q)' <=> UnderFor(f, q)
      BY <2>5, <3>1 DEF Calls
    <3>2. \A q \in Requests : Answered(q)' <=> Answered(q)
      BY <2>4 DEF Answered
    <3> QED BY <1>2, <1>3, <2>4, <2>5, <3>1, <3>2 DEF IInv, Answers
  <2> QED BY <2>3, <2>6, <2>7, <2>8, <2>9, <2>10, <2>11 DEF IInv
<1>b. CASE /\ retries[r] <= MAX_RETRIES
           /\ retries' = [retries EXCEPT ![r] = @ + 1]
           /\ rqq' = <<r>> \o rqq
           /\ endpoint' = TRUE
           /\ cnnRef' = IF endpoint THEN cnnRef ELSE cnnRef + 1
           /\ GoesOn(<<Call("link"), Call("new")>>)
  <2>1. PICK a, b : a = Call("link") /\ b = Call("new")
    OBVIOUS
  <2>2. /\ Plain(a) /\ a.call = "link" /\ a.rq = None /\ a.conn = None /\ Fresh(a)
        /\ Plain(b) /\ b.call = "new" /\ b.rq = None /\ b.conn = None /\ Fresh(b)
    BY <2>1, CallTypes DEF Calls, RequestCalls, Plain, Fresh
  <2>3. /\ stack' \in Seq(Frames) /\ Shape(stack')
        /\ Range(stack') = {a, b} \cup T /\ Moves({a, b})
    BY <1>1, <1>b, <2>1, <2>2, PutTwo DEF IInv
  <2>4. UNCHANGED <<status, answers, rqConn, conn, used, n_conn, orphans, closing, astray>>
    BY <1>b, <1>r DEF Try
  <2>5. /\ rqq' \in Seq(Requests) /\ rqq' # <<>> /\ IsInjective(rqq')
        /\ Range(rqq') = {r} \cup Range(rqq)
    BY <1>2, <1>b, QueueGrows DEF IInv, TypeOK, Places, Queued
  <2> HIDE DEF T
  <2>6. /\ \A q \in Requests \ {r} : Dealt(q)' <=> Dealt(q)
        /\ ~Dealt(r)' /\ \A f \in Calls : ~UnderFor(f, r)'
        /\ \A f \in Calls \ RequestCalls : Under(f)' <=> Under(f) \/ f \in {"link", "new"}
        /\ \A q \in Requests \ {r}, f \in Calls : UnderFor(f, q)' <=> UnderFor(f, q)
    BY <1>1, <1>2, <1>r, <2>2, <2>3, NullTypes DEF Moves, RequestCalls
  <2>7. Closes'
    BY <1>3, <1>b, <2>4, <2>6 DEF IInv, Closes, TypeOK, Calls, RequestCalls
  <2>8. TypeOK'
    <3>1. retries' \in [Requests -> 0..(MAX_RETRIES + 1)]
      BY <1>2, <1>b, HttpPoolAssumption DEF IInv, TypeOK
    <3>2. endpoint' \in BOOLEAN /\ cnnRef' \in 0..2
      BY <1>b, <2>7 DEF Closes
    <3> QED BY <2>3, <2>4, <2>5, <3>1, <3>2 DEF IInv, TypeOK
  <2>9. Places'
    BY <1>2, <2>4, <2>5, <2>6 DEF IInv, Places, Queued, Sent, Active
  <2>10. Holds'
    BY <1>1, <1>2, <2>2, <2>3, <2>4 DEF IInv, Holds, Sent, In
  <2>11. Sought'
    BY <1>b, <2>4, <2>5, <2>6 DEF IInv, Sought, In, Calls, RequestCalls
  <2>12. Answers'
    <3>1. ASSUME NEW q \in Requests, q # r
          PROVE  \A f \in {"answer", "free_rq"} : UnderFor(f, q)' <=> UnderFor(f, q)
      BY <2>6, <3>1 DEF Calls
    <3>2. ~UnderFor("free_rq", r)'
      BY <2>6 DEF Calls
    <3>3. \A q \in Requests : Answered(q)' <=> Answered(q)
      BY <2>4 DEF Answered
    <3> QED BY <1>2, <1>3, <2>4, <3>1, <3>2, <3>3 DEF IInv, Answers
  <2> QED BY <2>3, <2>7, <2>8, <2>9, <2>10, <2>11, <2>12 DEF IInv
<1> QED BY <1>a, <1>b, <1>r DEF Try

LEMMA MakeStep == IInv /\ MakeRequest => IInv'
<1> SUFFICES ASSUME IInv, MakeRequest PROVE IInv'
  OBVIOUS
<1> DEFINE T == Range(Tail(stack))
<1>r. PICK r, c : r = It.rq /\ c = It.conn
  OBVIOUS
<1>1. /\ stack # <<>> /\ stack \in Seq(Frames) /\ It.call = "make"
  BY DEF IInv, TypeOK, MakeRequest, Top
<1>2. /\ r \in Requests /\ status[r] = "active" /\ ~Queued(r) /\ ~Sent(r) /\ Dealt(r)
      /\ \A x \in T : x.rq # r /\ x \in Frames /\ x.conn = None
      /\ Range(stack) = {It} \cup T /\ c \in Conns \cup {None}
      /\ c # None => conn[c] = "inuse" /\ \A q \in Requests : rqConn[q] # c
  BY <1>1, <1>r, TopOf, Rest DEF IInv, RequestCalls, Holds, Dealt, Frames
<1>3. ~Answered(r) /\ ~closing
  BY <1>1, <1>2, <1>r DEF IInv, Answers, Closes, UnderFor, Active
<1>4. /\ UNCHANGED <<status, retries, answers, rqq, conn, used, n_conn, orphans,
                      endpoint, cnnRef, closing, astray>>
      /\ rqConn' = [rqConn EXCEPT ![r] = c]
  BY <1>r DEF MakeRequest, epVars, cnnVars
<1>5. /\ rqConn' \in [Requests -> Conns \cup {None, Gone}] /\ rqConn'[r] = c
      /\ \A q \in Requests \ {r} : rqConn'[q] = rqConn[q] /\ (Sent(q)' <=> Sent(q))
      /\ Sent(r)' <=> c # None
  BY <1>2, <1>4, NullTypes DEF IInv, TypeOK, Sent
<1>6. /\ stack' \in Seq(Frames) /\ Shape(stack')
      /\ \A x \in Range(stack') : x \in T \/ (x.call = "error" /\ x.rq = r /\ x.conn = None)
      /\ \A q \in Requests \ {r} : Dealt(q)' <=> Dealt(q)
      /\ \A f \in Calls \ RequestCalls : Under(f)' <=> Under(f)
      /\ \A q \in Requests \ {r}, f \in Calls : UnderFor(f, q)' <=> UnderFor(f, q)
      /\ ~UnderFor("free_rq", r)' /\ (c = None => Dealt(r)')
  <2>1. CASE c # None /\ Returns
    <3>1. stack' \in Seq(Frames) /\ Shape(stack') /\ Range(stack') = T /\ Moves({})
      BY <1>1, <2>1, PutNone DEF IInv
    <3> HIDE DEF T
    <3> QED BY <1>1, <1>2, <1>r, <2>1, <3>1, NullTypes DEF Moves, RequestCalls, Calls
  <2>2. CASE GoesOn(<<CallFor("error", r)>>)
    <3>1. PICK a : a = CallFor("error", r)
      OBVIOUS
    <3>2. Plain(a) /\ a.call = "error" /\ a.rq = r /\ a.conn = None /\ Fresh(a)
      BY <1>2, <3>1, CallForTypes, NullTypes DEF Calls, RequestCalls, Plain, Fresh
    <3>3. stack' \in Seq(Frames) /\ Shape(stack') /\ Range(stack') = {a} \cup T /\ Moves({a})
      BY <1>1, <2>2, <3>1, <3>2, PutOne DEF IInv
    <3> HIDE DEF T
    <3> QED BY <1>1, <1>2, <1>r, <3>2, <3>3, NullTypes DEF Moves, RequestCalls, Calls
  <2> QED BY <1>r, <2>1, <2>2 DEF MakeRequest
<1>7. TypeOK'
  BY <1>4, <1>5, <1>6 DEF IInv, TypeOK
<1> HIDE DEF T
<1>8. Places'
  BY <1>2, <1>4, <1>5, <1>6 DEF IInv, Places, Queued, Sent, Active
<1>9. Holds'
  <2>1. ASSUME NEW x \in Range(stack')
        PROVE  /\ x.call \in {"try", "make"} => ~Sent(x.rq)'
               /\ x.call = "error" => rqConn'[x.rq] \in Conns \cup {None}
               /\ x.conn = None
    <3>1. CASE x \in T
      <4>1. x \in Range(stack) /\ x.rq \in (Requests \ {r}) \cup {None} /\ x.conn = None
        BY <1>2, <3>1 DEF Frames
      <4>2. x.rq # None <=> x.call \in RequestCalls
        BY <1>1, <3>1, Rest DEF IInv, T
      <4> QED BY <1>5, <4>1, <4>2 DEF IInv, Holds, RequestCalls
    <3>2. CASE x \notin T
      BY <1>2, <1>5, <1>6, <3>2
    <3> QED BY <3>1, <3>2
  <2>2. ASSUME NEW d \in In("inuse") PROVE \E q \in Requests : rqConn'[q] = d
    <3>1. CASE \E q \in Requests : rqConn[q] = d
      BY <1>2, <1>5, <3>1 DEF Sent, In
    <3>2. CASE \E x \in Range(stack) : x.conn = d
      <4>1. d \in Conns /\ d # None
        BY NullTypes DEF In
      <4> QED BY <1>2, <1>5, <1>r, <3>2, <4>1
    <3> QED BY <3>1, <3>2 DEF IInv, Holds
  <2>3. In("inuse")' = In("inuse")
    BY <1>4 DEF In
  <2> QED BY <2>1, <2>2, <2>3 DEF Holds
<1>10. Sought'
  BY <1>4, <1>6 DEF IInv, Sought, In, Calls, RequestCalls
<1>11. Closes'
  BY <1>3, <1>4, <1>6 DEF IInv, Closes, Calls, RequestCalls
<1>12. Answers'
  <2>1. \A q \in Requests : Answered(q)' <=> Answered(q)
    BY <1>4 DEF Answered
  <2>2. ASSUME NEW q \in Requests, q # r
        PROVE  \A f \in {"answer", "free_rq"} : UnderFor(f, q)' <=> UnderFor(f, q)
    BY <1>6, <2>2 DEF Calls
  <2> QED BY <1>2, <1>3, <1>4, <1>6, <2>1, <2>2 DEF IInv, Answers
<1> QED BY <1>6, <1>7, <1>8, <1>9, <1>10, <1>11, <1>12 DEF IInv

LEMMA ErrorStep == IInv /\ Error => IInv'
<1> SUFFICES ASSUME IInv, Error PROVE IInv'
  OBVIOUS
<1> DEFINE T == Range(Tail(stack))
<1>r. PICK r, c : r = It.rq /\ c = rqConn[r]
  OBVIOUS
<1>1. /\ stack # <<>> /\ stack \in Seq(Frames) /\ It.call = "error"
  BY DEF IInv, TypeOK, Error, Top
<1>2. /\ r \in Requests /\ status[r] = "active" /\ ~Queued(r) /\ Dealt(r)
      /\ \A x \in T : x.rq # r /\ x \in Frames /\ x.conn = None /\ x.call \notin {"make", "error"}
      /\ Range(stack) = {It} \cup T /\ It.conn = None /\ c \in Conns \cup {None}
  BY <1>1, <1>r, TopOf, Rest DEF IInv, RequestCalls, Holds, Dealt, Frames
<1>3. ~Answered(r) /\ ~closing
  BY <1>1, <1>2, <1>r DEF IInv, Answers, Closes, UnderFor, Active
<1>4. /\ UNCHANGED <<status, retries, answers, rqq, used, n_conn, orphans,
                      endpoint, cnnRef, closing, astray>>
      /\ rqConn' = [rqConn EXCEPT ![r] = None]
      /\ conn' = IF c = None THEN conn ELSE [conn EXCEPT ![c] = "bad"]
  BY <1>r DEF Error, cnnVars
<1>5. /\ rqConn' \in [Requests -> Conns \cup {None, Gone}] /\ rqConn'[r] = None
      /\ \A q \in Requests \ {r} : rqConn'[q] = rqConn[q] /\ (Sent(q)' <=> Sent(q))
      /\ ~Sent(r)'
  BY <1>2, <1>4, NullTypes DEF IInv, TypeOK, Sent
<1>6. /\ conn' \in [Conns -> ConnStates]
      /\ c # None => conn[c] = "inuse" /\ endpoint
      /\ \A d \in Conns : \/ d # c /\ conn'[d] = conn[d]
                          \/ d = c /\ conn'[d] = "bad" /\ conn[d] = "inuse"
      /\ \A q \in Requests \ {r} : Sent(q) => rqConn[q] # c
  <2>1. c \in Conns => conn[c] = "inuse" /\ \A q \in Requests \ {r} : Sent(q) => rqConn[q] # c
    BY <1>2, <1>r DEF IInv, Places, Sent
  <2>2. c \in Conns => endpoint
    BY <2>1 DEF IInv, Sought, In
  <2> QED BY <1>2, <1>4, <2>1, <2>2, NullTypes DEF IInv, TypeOK, ConnStates, Sent
<1>7. /\ In("inuse")' = In("inuse") \ {c} /\ In("ready")' = In("ready")
      /\ In("none")' = In("none") /\ In("new")' = In("new")
  BY <1>6, NullTypes DEF In
<1>8. /\ stack' \in Seq(Frames) /\ Shape(stack')
      /\ \A x \in Range(stack') : \/ x \in T
                                  \/ x.conn = None /\ (x.call = "link" \/ (x.call = "try" /\ x.rq = r))
      /\ \A q \in Requests : Dealt(q)' <=> Dealt(q)
      /\ \A f \in Calls \ (RequestCalls \cup {"link"}) : Under(f)' <=> Under(f)
      /\ Under("link") => Under("link")'
      /\ \A q \in Requests \ {r}, f \in Calls : UnderFor(f, q)' <=> UnderFor(f, q)
      /\ ~UnderFor("free_rq", r)'
  <2>1. PICK a, b : a = Call("link") /\ b = CallFor("try", r)
    OBVIOUS
  <2>2. /\ Plain(a) /\ a.call = "link" /\ a.rq = None /\ a.conn = None /\ Fresh(a)
        /\ Plain(b) /\ b.call = "try" /\ b.rq = r /\ b.conn = None /\ Fresh(b)
    BY <1>2, <2>1, CallTypes, CallForTypes, NullTypes DEF Calls, RequestCalls, Plain, Fresh
  <2>3. CASE GoesOn(<<a, b>>)
    <3>1. /\ stack' \in Seq(Frames) /\ Shape(stack')
          /\ Range(stack') = {a, b} \cup T /\ Moves({a, b})
      BY <1>1, <2>2, <2>3, NullTypes, PutTwo DEF IInv
    <3> HIDE DEF T
    <3> QED BY <1>1, <1>2, <1>r, <2>2, <3>1, NullTypes DEF Moves, RequestCalls, Calls
  <2>4. CASE GoesOn(<<b>>)
    <3>1. /\ stack' \in Seq(Frames) /\ Shape(stack')
          /\ Range(stack') = {b} \cup T /\ Moves({b})
      BY <1>1, <2>2, <2>4, PutOne DEF IInv
    <3> HIDE DEF T
    <3> QED BY <1>1, <1>2, <1>r, <2>2, <3>1, NullTypes DEF Moves, RequestCalls, Calls
  <2> QED BY <1>r, <2>1, <2>3, <2>4 DEF Error
<1>9. TypeOK'
  BY <1>4, <1>5, <1>6, <1>8 DEF IInv, TypeOK
<1> HIDE DEF T
<1>10. Places'
  BY <1>2, <1>4, <1>5, <1>6, <1>8 DEF IInv, Places, Queued, Sent, Active
<1>11. Holds'
  <2>1. ASSUME NEW x \in Range(stack')
        PROVE  /\ x.call \in {"try", "make"} => ~Sent(x.rq)'
               /\ x.call # "error" /\ x.conn = None
    <3>1. CASE x \in T
      <4>1. x \in Range(stack) /\ x.rq \in (Requests \ {r}) \cup {None}
        BY <1>2, <3>1 DEF Frames
      <4>2. x.rq # None <=> x.call \in RequestCalls
        BY <1>1, <3>1, Rest DEF IInv, T
      <4> QED BY <1>2, <1>5, <3>1, <4>1, <4>2 DEF IInv, Holds, RequestCalls
    <3>2. CASE x \notin T
      BY <1>2, <1>5, <1>8, <3>2
    <3> QED BY <3>1, <3>2
  <2>2. ASSUME NEW d \in In("inuse") \ {c} PROVE \E q \in Requests : rqConn'[q] = d
    <3>1. d \in Conns /\ d # None
      BY NullTypes DEF In
    <3>2. \A x \in Range(stack) : x.conn = None
      BY <1>2
    <3>3. PICK q \in Requests : rqConn[q] = d
      BY <3>1, <3>2 DEF IInv, Holds
    <3> QED BY <1>5, <1>r, <3>3
  <2> QED BY <1>7, <2>1, <2>2 DEF Holds
<1>12. Sought'
  BY <1>4, <1>6, <1>7, <1>8 DEF IInv, Sought, Calls, RequestCalls
<1>13. Closes'
  BY <1>3, <1>4, <1>8 DEF IInv, Closes, Calls, RequestCalls
<1>14. Answers'
  <2>1. \A q \in Requests : Answered(q)' <=> Answered(q)
    BY <1>4 DEF Answered
  <2>2. ASSUME NEW q \in Requests, q # r
        PROVE  \A f \in {"answer", "free_rq"} : UnderFor(f, q)' <=> UnderFor(f, q)
    BY <1>8, <2>2 DEF Calls
  <2> QED BY <1>2, <1>3, <1>4, <1>8, <2>1, <2>2 DEF IInv, Answers
<1> QED BY <1>8, <1>9, <1>10, <1>11, <1>12, <1>13, <1>14 DEF IInv

LEMMA AnswerStep == IInv /\ Answer => IInv'
<1> SUFFICES ASSUME IInv, Answer PROVE IInv'
  OBVIOUS
<1> DEFINE T == Range(Tail(stack))
<1>r. PICK r : r = It.rq
  OBVIOUS
<1>1. /\ stack # <<>> /\ stack \in Seq(Frames) /\ It.call = "answer"
  BY DEF IInv, TypeOK, Answer, Top
<1>2. /\ r \in Requests /\ status[r] = "active" /\ ~Queued(r) /\ Dealt(r) /\ It.ok \in BOOLEAN
      /\ \A x \in T : /\ x \in Frames /\ x.conn = None /\ x.call \notin {"make", "error"}
                      /\ x.rq = r => x.call = "free_rq"
      /\ \E x \in T : x.call = "free_rq" /\ x.rq = r
      /\ Range(stack) = {It} \cup T /\ It.conn = None
  BY <1>1, <1>r, TopOf, Rest, NullTypes DEF IInv, RequestCalls, Dealt, Frames
<1>3. ~Answered(r)
  BY <1>1, <1>2, <1>r DEF IInv, Answers, UnderFor
<1>4. /\ UNCHANGED <<status, retries, rqConn, rqq, conn, used, n_conn, orphans,
                      endpoint, cnnRef, astray>>
      /\ answers' = [answers EXCEPT ![r] = <<It.ok>>]
  <2>1. answers[r] = <<>>
    BY <1>3 DEF Answered
  <2> QED BY <1>r, <2>1 DEF Answer, epVars
<1>5. \/ Returns /\ UNCHANGED closing
      \/ Active = {r} /\ ~closing /\ closing' = TRUE /\ GoesOn(Free)
  BY <1>r DEF Answer
<1>6. /\ stack' \in Seq(Frames) /\ Shape(stack')
      /\ \A x \in Range(stack') : x \in T \/ (x.conn = None /\ x.call \in {"tidy_endpoint", "release"})
      /\ \A q \in Requests : Dealt(q)' <=> Dealt(q)
      /\ \A f \in Calls \ (RequestCalls \cup {"tidy_endpoint", "release"}) : Under(f)' <=> Under(f)
      /\ Under("tidy_endpoint")' <=> Under("tidy_endpoint") \/ (closing # closing' /\ endpoint)
      /\ Under("release")' <=> Under("release") \/ closing # closing'
      /\ \A q \in Requests \ {r}, f \in Calls : UnderFor(f, q)' <=> UnderFor(f, q)
      /\ UnderFor("free_rq", r)' /\ ~UnderFor("answer", r)'
  <2>1. CASE Returns /\ UNCHANGED closing
    <3>1. stack' \in Seq(Frames) /\ Shape(stack') /\ Range(stack') = T /\ Moves({})
      BY <1>1, <2>1, PutNone DEF IInv
    <3> HIDE DEF T
    <3>2. Dealt(r)' /\ UnderFor("free_rq", r)' /\ ~UnderFor("answer", r)'
      BY <1>2, <3>1 DEF Dealt, UnderFor
    <3> QED BY <1>1, <1>2, <1>r, <2>1, <3>1, <3>2, NullTypes DEF Moves, RequestCalls, Calls
  <2>2. CASE Active = {r} /\ ~closing /\ closing' = TRUE /\ GoesOn(Free)
    <3>1. PICK a, b : a = Call("tidy_endpoint") /\ b = Call("release")
      OBVIOUS
    <3>2. /\ Plain(a) /\ a.call = "tidy_endpoint" /\ a.rq = None /\ a.conn = None /\ Fresh(a)
          /\ Plain(b) /\ b.call = "release" /\ b.rq = None /\ b.conn = None /\ Fresh(b)
      BY <1>2, <2>2, <3>1, CallTypes DEF Calls, RequestCalls, Plain, Fresh, IInv, Closes, Under
    <3>3. CASE endpoint
      <4>1. Free = <<a, b>>
        <5>1. <<a>> \o <<b>> = <<a, b>>
          BY <3>2, ListsJoin DEF Plain
        <5> QED BY <3>1, <3>3, <5>1 DEF Free
      <4>2. /\ stack' \in Seq(Frames) /\ Shape(stack')
            /\ Range(stack') = {a, b} \cup T /\ Moves({a, b})
        BY <1>1, <2>2, <3>2, <4>1, PutTwo DEF IInv
      <4> HIDE DEF T
      <4>3. Dealt(r)' /\ UnderFor("free_rq", r)' /\ ~UnderFor("answer", r)'
        BY <1>2, <3>2, <4>2 DEF Dealt, UnderFor
      <4>4. closing # closing'
        BY <2>2
      <4>5. \A x \in Range(stack') : x \in T \/ (x.conn = None /\ x.call \in {"tidy_endpoint", "release"})
        BY <3>2, <4>2
      <4>6. /\ \A q \in Requests : Dealt(q)' <=> Dealt(q)
            /\ \A q \in Requests \ {r}, f \in Calls : UnderFor(f, q)' <=> UnderFor(f, q)
        BY <1>2, <1>r, <3>2, <4>2, <4>3, NullTypes DEF Moves
      <4>7. \A f \in Calls \ {"answer"} :
              Under(f)' <=> Under(f) \/ f = "release" \/ (f = "tidy_endpoint" /\ endpoint)
        BY <1>1, <3>2, <3>3, <4>2 DEF Moves
      <4> QED BY <4>2, <4>3, <4>4, <4>5, <4>6, <4>7 DEF Calls, RequestCalls
    <3>4. CASE ~endpoint
      <4>1. Free = <<b>>
        BY <3>1, <3>4 DEF Free
      <4>2. /\ stack' \in Seq(Frames) /\ Shape(stack')
            /\ Range(stack') = {b} \cup T /\ Moves({b})
        BY <1>1, <2>2, <3>2, <4>1, PutOne DEF IInv
      <4> HIDE DEF T
      <4>3. Dealt(r)' /\ UnderFor("free_rq", r)' /\ ~UnderFor("answer", r)'
        BY <1>2, <3>2, <4>2 DEF Dealt, UnderFor
      <4>4. closing # closing'
        BY <2>2
      <4>5. \A x \in Range(stack') : x \in T \/ (x.conn = None /\ x.call \in {"tidy_endpoint", "release"})
        BY <3>2, <4>2
      <4>6. /\ \A q \in Requests : Dealt(q)' <=> Dealt(q)
            /\ \A q \in Requests \ {r}, f \in Calls : UnderFor(f, q)' <=> UnderFor(f, q)
        BY <1>2, <1>r, <3>2, <4>2, <4>3, NullTypes DEF Moves
      <4>7. \A f \in Calls \ {"answer"} :
              Under(f)' <=> Under(f) \/ f = "release" \/ (f = "tidy_endpoint" /\ endpoint)
        BY <1>1, <3>2, <3>4, <4>2 DEF Moves
      <4> QED BY <4>2, <4>3, <4>4, <4>5, <4>6, <4>7 DEF Calls, RequestCalls
    <3> QED BY <3>3, <3>4
  <2> QED BY <1>5, <2>1, <2>2
<1>7. TypeOK'
  <2>1. <<It.ok>> \in Seq(BOOLEAN)
    BY <1>2
  <2> QED BY <1>2, <1>4, <1>5, <1>6, <2>1 DEF IInv, TypeOK
<1> HIDE DEF T
<1>8. Places'
  BY <1>4, <1>6, SamePlaces DEF IInv
<1>9. Holds'
  BY <1>2, <1>4, <1>6, NullTypes DEF IInv, Holds, Sent, In
<1>10. Sought'
  BY <1>4, <1>6 DEF IInv, Sought, In, Calls, RequestCalls
<1>11. Closes'
  BY <1>4, <1>5, <1>6, <1>2 DEF IInv, Closes, Calls, RequestCalls, Active, In
<1>12. Answers'
  <2>1. ASSUME NEW q \in Requests \ {r}
        PROVE  /\ Answered(q)' <=> Answered(q)
               /\ answers'[q] = answers[q]
               /\ \A f \in {"answer", "free_rq"} : UnderFor(f, q)' <=> UnderFor(f, q)
    BY <1>4, <1>6 DEF Calls, Answered, IInv, TypeOK
  <2>2. answers'[r] = <<It.ok>> /\ Answered(r)'
    BY <1>2, <1>4 DEF Answered, IInv, TypeOK
  <2> QED BY <1>2, <1>4, <1>6, <2>1, <2>2 DEF IInv, Answers
<1> QED BY <1>6, <1>7, <1>8, <1>9, <1>10, <1>11, <1>12 DEF IInv

LEMMA FreeRqStep == IInv /\ FreeRq => IInv'
<1> SUFFICES ASSUME IInv, FreeRq PROVE IInv'
  OBVIOUS
<1> DEFINE T == Range(Tail(stack))
<1>r. PICK r, c : r = It.rq /\ c = rqConn[r]
  OBVIOUS
<1>1. /\ stack # <<>> /\ stack \in Seq(Frames) /\ It.call = "free_rq"
  BY DEF IInv, TypeOK, FreeRq, Top
<1>2. /\ r \in Requests /\ status[r] = "active" /\ ~Queued(r)
      /\ \A x \in T : x.rq # r /\ x \in Frames /\ x.conn = None /\ x.call \notin {"make", "error"}
      /\ Range(stack) = {It} \cup T /\ It.conn = None
  BY <1>1, <1>r, TopOf, Rest DEF IInv, RequestCalls, Frames
<1>3. Answered(r)
  BY <1>1, <1>2, <1>r DEF IInv, Answers, UnderFor
<1>4. /\ UNCHANGED <<retries, answers, rqq, used, n_conn, orphans, endpoint, cnnRef, closing>>
      /\ status' = [status EXCEPT ![r] = "over"]
      /\ rqConn' = [rqConn EXCEPT ![r] = None]
      /\ conn' = IF c \in Conns THEN [conn EXCEPT ![c] = "ready"] ELSE conn
      /\ astray' \subseteq {"resolved", "returned", "endpoint"}
  BY <1>r, NullTypes DEF FreeRq, IInv, TypeOK
<1>5. /\ rqConn' \in [Requests -> Conns \cup {None, Gone}] /\ ~Sent(r)'
      /\ status' \in [Requests -> {"idle", "active", "over"}] /\ status'[r] = "over"
      /\ \A q \in Requests \ {r} : rqConn'[q] = rqConn[q] /\ (Sent(q)' <=> Sent(q)) /\ status'[q] = status[q]
  BY <1>2, <1>4, NullTypes DEF IInv, TypeOK, Sent
<1>6. /\ conn' \in [Conns -> ConnStates]
      /\ c \in Conns => conn[c] = "inuse" /\ endpoint
      /\ \A d \in Conns : \/ d # c /\ conn'[d] = conn[d]
                          \/ d = c /\ conn'[d] = "ready" /\ conn[d] = "inuse"
      /\ \A q \in Requests \ {r} : Sent(q) => rqConn[q] # c
  <2>1. c \in Conns => conn[c] = "inuse" /\ \A q \in Requests \ {r} : Sent(q) => rqConn[q] # c
    BY <1>2, <1>r DEF IInv, Places, Sent
  <2>2. c \in Conns => endpoint
    BY <2>1 DEF IInv, Sought, In
  <2> QED BY <1>2, <1>4, <2>1, <2>2 DEF IInv, TypeOK, ConnStates, Sent
<1>7. /\ In("inuse")' = In("inuse") \ {c} /\ In("none")' = In("none") /\ In("new")' = In("new")
      /\ c \notin Conns => In("ready")' = In("ready")
  BY <1>6 DEF In
<1>8. /\ stack' \in Seq(Frames) /\ Shape(stack')
      /\ \A x \in Range(stack') : x \in T \/ (x.conn = None /\ x.call = "link")
      /\ \A q \in Requests \ {r} : Dealt(q)' <=> Dealt(q)
      /\ ~Dealt(r)'
      /\ \A f \in Calls \ (RequestCalls \cup {"link"}) : Under(f)' <=> Under(f)
      /\ Under("link") \/ c \in Conns => Under("link")'
      /\ \A q \in Requests \ {r}, f \in Calls : UnderFor(f, q)' <=> UnderFor(f, q)
  <2>1. PICK a : a = Call("link")
    OBVIOUS
  <2>2. Plain(a) /\ a.call = "link" /\ a.rq = None /\ a.conn = None /\ Fresh(a)
    BY <1>2, <2>1, CallTypes, NullTypes DEF Calls, RequestCalls, Plain, Fresh
  <2>3. CASE GoesOn(<<a>>)
    <3>1. /\ stack' \in Seq(Frames) /\ Shape(stack')
          /\ Range(stack') = {a} \cup T /\ Moves({a})
      BY <1>1, <2>2, <2>3, PutOne DEF IInv
    <3> HIDE DEF T
    <3> QED BY <1>1, <1>2, <1>r, <2>2, <3>1, NullTypes DEF Moves, RequestCalls, Calls
  <2>4. CASE c \notin Conns /\ Returns
    <3>1. /\ stack' \in Seq(Frames) /\ Shape(stack') /\ Range(stack') = T /\ Moves({})
      BY <1>1, <2>4, PutNone DEF IInv
    <3> HIDE DEF T
    <3> QED BY <1>1, <1>2, <1>r, <2>4, <3>1 DEF Moves, RequestCalls, Calls
  <2> QED BY <1>r, <2>1, <2>3, <2>4, NullTypes DEF FreeRq
<1>9. TypeOK'
  BY <1>4, <1>5, <1>6, <1>8 DEF IInv, TypeOK
<1> HIDE DEF T
<1>10. Places'
  BY <1>2, <1>4, <1>5, <1>6, <1>8 DEF IInv, Places, Queued, Sent, Active
<1>11. Holds'
  <2>1. ASSUME NEW x \in Range(stack')
        PROVE  /\ x.call \in {"try", "make"} => ~Sent(x.rq)'
               /\ x.call # "error" /\ x.conn = None
    <3>1. CASE x \in T
      <4>1. x \in Range(stack) /\ x.rq \in (Requests \ {r}) \cup {None}
        BY <1>2, <3>1 DEF Frames
      <4>2. x.rq # None <=> x.call \in RequestCalls
        BY <1>1, <3>1, Rest DEF IInv, T
      <4> QED BY <1>2, <1>5, <3>1, <4>1, <4>2 DEF IInv, Holds, RequestCalls
    <3>2. CASE x \notin T
      BY <1>8, <3>2
    <3> QED BY <3>1, <3>2
  <2>2. ASSUME NEW d \in In("inuse") \ {c} PROVE \E q \in Requests : rqConn'[q] = d
    <3>1. d \in Conns /\ d # None
      BY NullTypes DEF In
    <3>2. \A x \in Range(stack) : x.conn = None
      BY <1>2
    <3>3. PICK q \in Requests : rqConn[q] = d
      BY <3>1, <3>2 DEF IInv, Holds
    <3> QED BY <1>5, <1>r, <3>3
  <2> QED BY <1>7, <2>1, <2>2 DEF Holds
<1>12. Sought'
  BY <1>4, <1>6, <1>7, <1>8 DEF IInv, Sought, Calls, RequestCalls
<1>13. Closes'
  <2>1. Active' = Active \ {r}
    BY <1>5 DEF Active
  <2> QED BY <1>4, <1>7, <1>8, <2>1 DEF IInv, Closes, Calls, RequestCalls, Active
<1>14. Answers'
  <2>1. \A q \in Requests : Answered(q)' <=> Answered(q)
    BY <1>4 DEF Answered
  <2>2. ASSUME NEW q \in Requests, q # r
        PROVE  \A f \in {"answer", "free_rq"} : UnderFor(f, q)' <=> UnderFor(f, q)
    BY <1>8, <2>2 DEF Calls
  <2> QED BY <1>2, <1>3, <1>4, <1>5, <2>1, <2>2 DEF IInv, Answers
<1> QED BY <1>8, <1>9, <1>10, <1>11, <1>12, <1>13, <1>14 DEF IInv

-----------------------------------------------------------------------------
(* The steps of the pool *)

LEMMA TryLinkStep == IInv /\ TryLink => IInv'
<1> SUFFICES ASSUME IInv, TryLink PROVE IInv'
  OBVIOUS
<1> DEFINE T == Range(Tail(stack))
<1>1. /\ stack # <<>> /\ stack \in Seq(Frames) /\ It.call = "link" /\ It \in Frames /\ endpoint
      /\ Range(stack) = {It} \cup T /\ It.rq = None /\ It.conn = None /\ Under("link")
      /\ \A x \in Range(stack) : x.conn = None
      /\ \A x \in T : x \in Frames /\ x.call \notin {"make", "error"} /\ (x.rq # None <=> x.call \in RequestCalls)
  <2>1. stack # <<>> /\ stack \in Seq(Frames) /\ It.call = "link" /\ endpoint
    BY DEF IInv, TypeOK, TryLink, Top, EndpointCalls
  <2> QED BY <2>1, Rest, TopOfPool DEF IInv, RequestCalls
<1>a. CASE /\ rqq # <<>>
           /\ \E c \in In("ready") :
                /\ conn' = [conn EXCEPT ![c] = "inuse"]
                /\ used' = used \cup {c}
                /\ stack' = <<[CallFor("make", Head(rqq)) EXCEPT !.conn = c]>> \o stack
           /\ rqq' = Tail(rqq)
  <2>c. PICK c \in In("ready") :
          /\ conn' = [conn EXCEPT ![c] = "inuse"]
          /\ used' = used \cup {c}
          /\ stack' = <<[CallFor("make", Head(rqq)) EXCEPT !.conn = c]>> \o stack
    BY <1>a
  <2>1. PICK r, a :
          /\ r = Head(rqq) /\ a = [CallFor("make", r) EXCEPT !.conn = c]
          /\ conn' = [conn EXCEPT ![c] = "inuse"]
          /\ used' = used \cup {c}
          /\ stack' = <<a>> \o stack
    BY <2>c
  <2>2. /\ r \in Requests /\ Queued(r) /\ rqq' \in Seq(Requests) /\ IsInjective(rqq')
        /\ Range(rqq') = Range(rqq) \ {r}
    BY <1>a, <2>1, QueueHead DEF IInv, TypeOK, Places, Queued
  <2>3. /\ ~Sent(r) /\ ~Dealt(r) /\ status[r] = "active" /\ ~closing
        /\ \A f \in Calls : ~UnderFor(f, r)
    BY <2>2, ClosedQueue DEF IInv, Places, Dealt, UnderFor
  <2>4. ~Answered(r)
    BY <2>2, <2>3 DEF IInv, Answers, Calls
  <2>5. /\ UNCHANGED <<status, retries, answers, rqConn, n_conn, orphans, endpoint, cnnRef, closing, astray>>
    BY DEF TryLink, rqVars, cnnVars
  <2>6. /\ conn' \in [Conns -> ConnStates] /\ c \in Conns /\ conn[c] = "ready"
        /\ \A d \in Conns : \/ d # c /\ conn'[d] = conn[d]
                            \/ d = c /\ conn'[d] = "inuse" /\ conn[d] = "ready"
        /\ In("inuse")' = In("inuse") \cup {c} /\ In("none")' = In("none") /\ In("new")' = In("new")
        /\ In("ready")' \subseteq In("ready")
    BY <2>1 DEF IInv, TypeOK, In, ConnStates
  <2>7. /\ Plain(a) /\ a.call = "make" /\ a.rq = r /\ a.conn = c /\ Fresh(a)
        /\ Plain(It) /\ Fresh(It)
    <3>1. /\ a \in Frames /\ a.call = "make" /\ a.rq = r /\ a.conn = c
      BY <2>1, <2>2, <2>6 DEF CallFor, Call, Frames, Calls
    <3>2. \A x \in T : x.rq # r
      BY <1>1, <2>3 DEF Dealt
    <3> QED BY <1>1, <2>2, <3>1, <3>2, NullTypes DEF Plain, Fresh, RequestCalls
  <2>8. /\ stack' \in Seq(Frames) /\ Shape(stack')
        /\ Range(stack') = {a, It} \cup T /\ Moves({a, It})
    <3>1. a \in Frames /\ stack' = <<a, It>> \o Tail(stack)
      BY <1>1, <2>1, <2>7, OnTop DEF Plain
    <3> QED BY <1>1, <2>2, <2>7, <3>1, NullTypes, PutTwo DEF IInv, GoesOn
  <2> HIDE DEF T
  <2>9. /\ \A q \in Requests \ {r} : Dealt(q)' <=> Dealt(q)
        /\ Dealt(r)' /\ Under("link")'
        /\ \A f \in Calls \ RequestCalls : Under(f)' <=> Under(f)
        /\ \A q \in Requests, f \in {"answer", "free_rq"} : UnderFor(f, q)' <=> UnderFor(f, q)
    <3>1. Under("link")' /\ Dealt(r)'
      BY <1>1, <2>7, <2>8 DEF Under, Dealt
    <3> QED BY <1>1, <2>2, <2>7, <2>8, <3>1, NullTypes DEF Moves, RequestCalls, Calls
  <2>10. TypeOK'
    BY <2>1, <2>2, <2>5, <2>6, <2>8 DEF IInv, TypeOK
  <2>11. Places'
    BY <2>2, <2>3, <2>5, <2>6, <2>9 DEF IInv, Places, Queued, Sent, Active
  <2>12. Holds'
    <3>1. \A q \in Requests : Sent(q) => rqConn[q] # c
      BY <2>6 DEF IInv, Places
    <3>2. \A q \in Requests : rqConn[q] # c
      BY <2>6, <3>1 DEF Sent
    <3>3. ASSUME NEW x \in Range(stack')
          PROVE  /\ x.call \in {"try", "make"} => ~Sent(x.rq)'
                 /\ x.call # "error" /\ x.conn \in {None, c}
      BY <1>1, <2>3, <2>5, <2>7, <2>8 DEF IInv, Holds, Sent
    <3>4. ASSUME NEW d \in In("inuse") \cup {c}
          PROVE  (\E q \in Requests : rqConn[q] = d) \/ \E x \in Range(stack') : x.conn = d
      <4>1. CASE d = c
        BY <2>7, <2>8, <4>1
      <4>2. CASE d # c
        BY <1>1, <4>2, NullTypes DEF IInv, Holds, In
      <4> QED BY <4>1, <4>2
    <3>5. rqConn' = rqConn /\ conn'[c] = "inuse"
      BY <2>5, <2>6
    <3>6. \A x \in Range(stack') : x.conn # None =>
             conn'[x.conn] = "inuse" /\ \A q \in Requests : rqConn'[q] # x.conn
      BY <3>2, <3>3, <3>5
    <3>7. \A d \in In("inuse")' : \/ \E q \in Requests : rqConn'[q] = d
                                  \/ \E x \in Range(stack') : x.conn = d
      BY <2>6, <3>4, <3>5
    <3> QED BY <3>3, <3>6, <3>7 DEF Holds
  <2>13. Sought'
    BY <1>1, <2>5, <2>6, <2>9, <1>a DEF IInv, Sought, Calls, RequestCalls
  <2>14. Closes'
    BY <2>3, <2>5, <2>9 DEF IInv, Closes, Calls, RequestCalls
  <2>15. Answers'
    <3>1. \A q \in Requests : Answered(q)' <=> Answered(q)
      BY <2>5 DEF Answered
    <3> QED BY <2>5, <2>9, <3>1 DEF IInv, Answers
  <2> QED BY <2>8, <2>10, <2>11, <2>12, <2>13, <2>14, <2>15 DEF IInv
<1>b. CASE /\ rqq = <<>> \/ In("ready") = {}
           /\ Returns
           /\ UNCHANGED <<rqq, conn, used>>
  <2>1. /\ stack' \in Seq(Frames) /\ Shape(stack') /\ Range(stack') = T /\ Moves({})
    BY <1>1, <1>b, PutNone DEF IInv
  <2>2. UNCHANGED <<status, retries, answers, rqConn, rqq, conn, used, n_conn, orphans, endpoint,
                    cnnRef, closing, astray>>
    BY <1>b DEF TryLink, rqVars, cnnVars
  <2> HIDE DEF T
  <2>3. /\ \A q \in Requests : Dealt(q)' <=> Dealt(q)
        /\ \A f \in Calls \ {"link"} : Under(f)' <=> Under(f)
        /\ \A q \in Requests, f \in Calls : UnderFor(f, q)' <=> UnderFor(f, q)
    BY <1>1, <2>1, NullTypes DEF Moves
  <2>4. TypeOK'
    BY <2>1, <2>2 DEF IInv, TypeOK
  <2>5. Places'
    BY <2>2, <2>3, SamePlaces DEF IInv
  <2>6. Holds'
    <3>1. \A x \in Range(stack') : x \in Range(stack)
      BY <1>1, <2>1
    <3>2. rqConn' = rqConn /\ conn' = conn /\ In("inuse")' = In("inuse")
      BY <2>2 DEF In
    <3>3. Holds
      BY DEF IInv
    <3> QED BY <1>1, <3>1, <3>2, <3>3, SameHolds
  <2>7. Sought'
    BY <1>b, <2>2, <2>3 DEF IInv, Sought, In, Calls
  <2>8. Closes'
    BY <2>2, <2>3 DEF IInv, Closes, Calls, Active, In
  <2>9. Answers'
    BY <2>2, <2>3, SameAnswers DEF IInv
  <2> QED BY <2>1, <2>4, <2>5, <2>6, <2>7, <2>8, <2>9 DEF IInv
<1> QED BY <1>a, <1>b DEF TryLink

\* As many connections as are counted are in the list.
LEMMA Counted ==
  ASSUME conn \in [Conns -> ConnStates]
  PROVE  /\ IsFiniteSet(In("none")) /\ IsFiniteSet(Conns \ In("none"))
         /\ MAX_CONN \in Nat /\ Cardinality(In("none")) \in 0..MAX_CONN
         /\ Cardinality(Conns \ In("none")) = MAX_CONN - Cardinality(In("none"))
         /\ Cardinality(Conns \ In("none")) \in 0..MAX_CONN
<1>1. IsFiniteSet(Conns) /\ In("none") \subseteq Conns /\ Conns \cap In("none") = In("none")
  BY HttpPoolAssumption DEF In
<1>2. /\ IsFiniteSet(In("none")) /\ Cardinality(In("none")) <= Cardinality(Conns)
      /\ IsFiniteSet(Conns \ In("none"))
      /\ Cardinality(Conns \ In("none")) = Cardinality(Conns) - Cardinality(Conns \cap In("none"))
  BY <1>1, FS_Subset, FS_Difference
<1>3. Cardinality(Conns) \in Nat /\ Cardinality(In("none")) \in Nat
  BY <1>1, <1>2, FS_CardinalityType
<1> QED BY <1>1, <1>2, <1>3 DEF MAX_CONN

LEMMA CountedNext ==
  ASSUME conn' \in [Conns -> ConnStates]
  PROVE  Cardinality(Conns \ In("none")') \in 0..MAX_CONN
<1>1. IsFiniteSet(Conns) /\ Conns \ In("none")' \subseteq Conns
  BY HttpPoolAssumption
<1> QED BY <1>1, FS_Subset, FS_CardinalityType DEF MAX_CONN

LEMMA TryNewStep == IInv /\ TryNew => IInv'
<1> SUFFICES ASSUME IInv, TryNew PROVE IInv'
  OBVIOUS
<1> DEFINE T == Range(Tail(stack))
<1>1. /\ stack # <<>> /\ It.call = "new" /\ endpoint /\ It.rq = None
      /\ Range(stack) = {It} \cup T /\ \A x \in Range(stack) : x.conn = None
  <2>1. stack # <<>> /\ It.call = "new" /\ endpoint
    BY DEF TryNew, Top, EndpointCalls
  <2> QED BY <2>1, Rest, TopOfPool DEF IInv, RequestCalls, TypeOK
<1>2. UNCHANGED <<status, retries, answers, rqConn, rqq, orphans, endpoint, cnnRef, closing, astray>>
  BY DEF TryNew, rqVars, cnnVars
<1>3. /\ stack' \in Seq(Frames) /\ Shape(stack')
      /\ \A x \in Range(stack') : x \in T \/ (x.call = "resolve" /\ x.conn = None)
      /\ \A q \in Requests : Dealt(q)' <=> Dealt(q)
      /\ \A f \in Calls \ {"new", "resolve"} : Under(f)' <=> Under(f)
      /\ Under("resolve")'
      /\ \A q \in Requests, f \in Calls : UnderFor(f, q)' <=> UnderFor(f, q)
  <2>1. PICK a : a = Call("resolve")
    OBVIOUS
  <2>2. Plain(a) /\ a.call = "resolve" /\ a.rq = None /\ a.conn = None /\ Fresh(a)
    BY <2>1, CallTypes DEF Calls, RequestCalls, Plain, Fresh
  <2>3. stack' \in Seq(Frames) /\ Shape(stack') /\ Range(stack') = {a} \cup T /\ Moves({a})
    BY <1>1, <2>1, <2>2, PutOne DEF IInv, TryNew
  <2> HIDE DEF T
  <2> QED BY <1>1, <2>2, <2>3, NullTypes DEF Moves, Calls
<1> DEFINE Renewed ==
             /\ conn' \in [Conns -> ConnStates] /\ used' \subseteq Conns
             /\ In("ready")' = In("ready") /\ In("inuse")' = In("inuse")
             /\ \A c \in Conns : conn[c] = "inuse" => conn'[c] = "inuse"
             /\ n_conn' = Cardinality(Conns \ In("none")')
             /\ rqq # <<>> => In("none")' = {}
             /\ rqq = <<>> => UNCHANGED conn
<1>4. Renewed
  <2>1. ASSUME rqq # <<>>, n_conn < MAX_CONN,
               NEW C \in kSubset(MAX_CONN - n_conn, In("none")),
               conn' = [c \in Conns |-> IF c \in C THEN "new" ELSE conn[c]],
               used' = used \ C, n_conn' = MAX_CONN
        PROVE  Renewed
    <3>1. C = In("none")
      <4>1. /\ C \subseteq In("none") /\ Cardinality(C) = MAX_CONN - n_conn
        BY DEF kSubset
      <4>2. Cardinality(C) = Cardinality(In("none"))
        BY <4>1, Counted DEF IInv, TypeOK, Sought
      <4> QED BY <4>1, <4>2, Counted, FS_Subset DEF IInv, TypeOK
    <3>2. /\ conn' \in [Conns -> ConnStates] /\ used' \subseteq Conns
          /\ \A c \in Conns : \/ conn[c] = "none" /\ conn'[c] = "new"
                              \/ conn[c] # "none" /\ conn'[c] = conn[c]
      BY <2>1, <3>1 DEF IInv, TypeOK, ConnStates, In
    <3>3. In("ready")' = In("ready") /\ In("inuse")' = In("inuse") /\ In("none")' = {}
      BY <3>2 DEF In
    <3>4. Conns \ In("none")' = Conns
      BY <3>3
    <3> QED BY <2>1, <3>2, <3>3, <3>4 DEF MAX_CONN
  <2>2. ASSUME rqq = <<>> \/ n_conn >= MAX_CONN, UNCHANGED <<conn, used, n_conn>>
        PROVE  Renewed
    <3>1. n_conn >= MAX_CONN => In("none") = {}
      <4>1. n_conn >= MAX_CONN => Cardinality(In("none")) = 0
        BY Counted DEF IInv, TypeOK, Sought
      <4> QED BY <4>1, Counted, FS_EmptySet DEF IInv, TypeOK
    <3> QED BY <2>2, <3>1 DEF IInv, TypeOK, Sought, In
  <2> QED BY <2>1, <2>2 DEF TryNew
<1>5. TypeOK'
  <2>1. n_conn' \in 0..MAX_CONN
    <3>1. conn' \in [Conns -> ConnStates] => Cardinality(Conns \ In("none")') \in 0..MAX_CONN
      BY CountedNext
    <3> QED BY <1>4, <3>1
  <2> QED BY <1>2, <1>3, <1>4, <2>1 DEF IInv, TypeOK
<1> HIDE DEF T
<1>6. Places'
  BY <1>2, <1>3, <1>4 DEF IInv, Places, Queued, Sent, Active
<1>7. Holds'
  <2>1. \A x \in Range(stack') : x \in Range(stack) \/ (x.call = "resolve" /\ x.conn = None)
    BY <1>1, <1>3
  <2>2. Holds /\ UNCHANGED rqConn
    BY <1>2 DEF IInv
  <2> QED BY <1>1, <1>4, <2>1, <2>2, SameHolds
<1>8. Sought'
  BY <1>1, <1>2, <1>3, <1>4 DEF IInv, Sought, Calls
<1>9. Closes'
  <2>1. closing => UNCHANGED conn
    BY <1>4, ClosedQueue DEF IInv
  <2>2. closing => In("none")' = In("none")
    BY <2>1 DEF In
  <2> QED BY <1>2, <1>3, <2>2 DEF IInv, Closes, Calls, Active
<1>10. Answers'
  BY <1>2, <1>3, SameAnswers DEF IInv
<1> QED BY <1>3, <1>5, <1>6, <1>7, <1>8, <1>9, <1>10 DEF IInv

LEMMA TryResolveStep == IInv /\ TryResolve => IInv'
<1> SUFFICES ASSUME IInv, TryResolve PROVE IInv'
  OBVIOUS
<1> DEFINE T == Range(Tail(stack))
<1>1. /\ stack # <<>> /\ It.call = "resolve" /\ endpoint /\ It.rq = None /\ Under("resolve")
      /\ stack \in Seq(Frames) /\ It \in Frames /\ It \in Range(stack) /\ It.conn = None
      /\ Range(stack) = {It} \cup T /\ \A x \in Range(stack) : x.conn = None
  <2>1. stack # <<>> /\ It.call = "resolve" /\ endpoint
    BY DEF TryResolve, Top, EndpointCalls
  <2> QED BY <2>1, Rest, TopOfPool DEF IInv, RequestCalls, TypeOK
<1>2. UNCHANGED <<status, retries, answers, rqConn, rqq, n_conn, orphans, endpoint, cnnRef, closing, astray>>
  BY DEF TryResolve, rqVars, cnnVars
<1> DEFINE Found ==
             /\ stack' \in Seq(Frames) /\ Shape(stack')
             /\ \A x \in Range(stack') : x \in Range(stack) \/ (x.call = "link" /\ x.conn = None)
             /\ \A q \in Requests : Dealt(q)' <=> Dealt(q)
             /\ \A f \in Calls \ {"link", "resolve"} : Under(f)' <=> Under(f)
             /\ Under("link") => Under("link")'
             /\ In("new")' # {} => Under("resolve")'
             /\ In("ready")' = In("ready") \/ Under("link")'
             /\ \A q \in Requests, f \in Calls : UnderFor(f, q)' <=> UnderFor(f, q)
             /\ conn' \in [Conns -> ConnStates] /\ used' \subseteq Conns
             /\ In("inuse")' = In("inuse") /\ In("none")' = In("none")
             /\ \A c \in Conns : conn[c] = "inuse" => conn'[c] = "inuse"
<1>3. Found
  <2>1. ASSUME NEW c \in In("new"), NEW s \in {"awaitdns", "faileddns", "ready"},
               conn' = [conn EXCEPT ![c] = s]
        PROVE  /\ conn' \in [Conns -> ConnStates]
               /\ In("inuse")' = In("inuse") /\ In("none")' = In("none")
               /\ \A d \in Conns : conn[d] = "inuse" => conn'[d] = "inuse"
               /\ s # "ready" => In("ready")' = In("ready")
    BY <2>1 DEF IInv, TypeOK, ConnStates, In
  <2>2. ASSUME UNCHANGED stack
        PROVE  /\ stack' \in Seq(Frames) /\ Shape(stack') /\ Range(stack') = Range(stack)
               /\ \A q \in Requests : Dealt(q)' <=> Dealt(q)
               /\ \A f \in Calls : Under(f)' <=> Under(f)
               /\ \A q \in Requests, f \in Calls : UnderFor(f, q)' <=> UnderFor(f, q)
    BY <2>2 DEF IInv, TypeOK, Dealt, Under, UnderFor
  <2>3. ASSUME NEW c \in In("new"), conn' = [conn EXCEPT ![c] = "awaitdns"], UNCHANGED <<used, stack>>
        PROVE  Found
    BY <1>1, <2>1, <2>2, <2>3 DEF Calls, IInv, TypeOK
  <2>4. ASSUME NEW c \in In("new"), Unresolved(c), UNCHANGED stack
        PROVE  Found
    <3>1. conn' = [conn EXCEPT ![c] = "faileddns"] /\ used' \subseteq Conns
      BY <2>4 DEF Unresolved, IInv, TypeOK, In
    <3> QED BY <1>1, <2>1, <2>2, <2>4, <3>1 DEF Calls
  <2>5. ASSUME NEW c \in In("new"), Ready(c), stack' = <<Call("link")>> \o stack
        PROVE  Found
    <3>1. conn' = [conn EXCEPT ![c] = "ready"] /\ used' \subseteq Conns
      BY <2>5 DEF Ready, IInv, TypeOK, In
    <3>2. PICK a : a = Call("link")
      OBVIOUS
    <3>3. /\ Plain(a) /\ a.call = "link" /\ a.rq = None /\ a.conn = None /\ Fresh(a)
          /\ Plain(It) /\ Fresh(It)
      BY <1>1, <3>2, CallTypes DEF Calls, RequestCalls, Plain, Fresh
    <3>4. GoesOn(<<a, It>>)
      BY <1>1, <2>5, <3>2, <3>3, OnTop DEF Plain, GoesOn
    <3>5. /\ stack' \in Seq(Frames) /\ Shape(stack')
          /\ Range(stack') = {a, It} \cup T /\ Moves({a, It})
      BY <1>1, <3>3, <3>4, PutTwo DEF IInv
    <3> HIDE DEF T
    <3>6. Under("link")' /\ Under("resolve")'
      BY <1>1, <3>3, <3>5 DEF Under
    <3>7. /\ \A q \in Requests : Dealt(q)' <=> Dealt(q)
          /\ \A f \in Calls \ {"link", "resolve"} : Under(f)' <=> Under(f)
          /\ \A q \in Requests, f \in Calls : UnderFor(f, q)' <=> UnderFor(f, q)
      BY <1>1, <3>3, <3>5, NullTypes DEF Moves
    <3>8. \A x \in Range(stack') : x \in Range(stack) \/ (x.call = "link" /\ x.conn = None)
      BY <1>1, <3>3, <3>5
    <3> QED BY <2>1, <3>1, <3>5, <3>6, <3>7, <3>8
  <2>6. ASSUME In("new") = {}, Returns, UNCHANGED <<conn, used>>
        PROVE  Found
    <3>1. stack' \in Seq(Frames) /\ Shape(stack') /\ Range(stack') = T /\ Moves({})
      BY <1>1, <2>6, PutNone DEF IInv
    <3> HIDE DEF T
    <3>2. /\ \A q \in Requests : Dealt(q)' <=> Dealt(q)
          /\ \A f \in Calls \ {"resolve"} : Under(f)' <=> Under(f)
          /\ \A q \in Requests, f \in Calls : UnderFor(f, q)' <=> UnderFor(f, q)
      BY <1>1, <3>1, NullTypes DEF Moves
    <3>3. \A x \in Range(stack') : x \in Range(stack)
      BY <1>1, <3>1
    <3>4. \A s : In(s)' = In(s)
      BY <2>6 DEF In
    <3> QED BY <2>6, <3>1, <3>2, <3>3, <3>4 DEF IInv, TypeOK, Calls
  <2> QED BY <2>3, <2>4, <2>5, <2>6 DEF TryResolve
<1> HIDE DEF T
<1>4. TypeOK'
  BY <1>2, <1>3 DEF IInv, TypeOK
<1>5. Places'
  BY <1>2, <1>3 DEF IInv, Places, Queued, Sent, Active
<1>6. Holds'
  <2>1. Holds /\ UNCHANGED rqConn
    BY <1>2 DEF IInv
  <2> QED BY <1>1, <1>3, <2>1, SameHolds
<1>7. Sought'
  BY <1>1, <1>2, <1>3 DEF IInv, Sought, Calls
<1>8. Closes'
  BY <1>2, <1>3 DEF IInv, Closes, Calls, Active
<1>9. Answers'
  BY <1>2, <1>3, SameAnswers DEF IInv
<1> QED BY <1>3, <1>4, <1>5, <1>6, <1>7, <1>8, <1>9 DEF IInv

LEMMA FreeIfUnusedStep == IInv /\ FreeIfUnused => IInv'
<1> SUFFICES ASSUME IInv, FreeIfUnused PROVE IInv'
  OBVIOUS
<1> DEFINE T == Range(Tail(stack))
<1>1. /\ stack # <<>> /\ It.call = "free_if_unused" /\ endpoint /\ It.rq = None
      /\ Range(stack) = {It} \cup T /\ \A x \in Range(stack) : x.conn = None
  <2>1. stack # <<>> /\ It.call = "free_if_unused" /\ endpoint
    BY DEF FreeIfUnused, Top, EndpointCalls
  <2> QED BY <2>1, Rest, TopOfPool DEF IInv, RequestCalls, TypeOK
<1>2. /\ UNCHANGED <<status, retries, answers, rqConn, rqq, conn, used, n_conn, orphans, closing, astray>>
      /\ IF In("none") = Conns /\ rqq = <<>>
         THEN endpoint' = FALSE /\ cnnRef' = cnnRef - 1
         ELSE UNCHANGED <<endpoint, cnnRef>>
      /\ Returns
  BY DEF FreeIfUnused, rqVars, epVars
<1>3. stack' \in Seq(Frames) /\ Shape(stack') /\ Range(stack') = T /\ Moves({})
  BY <1>1, <1>2, PutNone DEF IInv
<1> HIDE DEF T
<1>4. /\ \A q \in Requests : Dealt(q)' <=> Dealt(q)
      /\ \A f \in Calls \ {"free_if_unused"} : Under(f)' <=> Under(f)
      /\ \A q \in Requests, f \in Calls : UnderFor(f, q)' <=> UnderFor(f, q)
  BY <1>1, <1>3, NullTypes DEF Moves
<1>5. \A s : In(s)' = In(s)
  BY <1>2 DEF In
<1>6. Places'
  BY <1>2, <1>4, SamePlaces DEF IInv
<1>7. Holds'
  <2>1. Holds /\ UNCHANGED rqConn /\ conn' = conn
    BY <1>2 DEF IInv
  <2>2. \A x \in Range(stack') : x \in Range(stack)
    BY <1>1, <1>3
  <2> QED BY <1>1, <1>5, <2>1, <2>2, SameHolds
<1>8. Sought'
  BY <1>2, <1>4, <1>5 DEF IInv, Sought, Calls
<1>9. Closes'
  <2>1. closing => rqq = <<>>
    BY ClosedQueue DEF IInv
  <2>2. Active' = Active /\ closing' = closing
    BY <1>2 DEF Active
  <2>3. closing => \A r \in Active : UnderFor("free_rq", r)'
    BY <1>4 DEF IInv, Closes, Active, Calls
  <2>4. closing /\ endpoint' => Under("tidy_endpoint")'
    BY <1>1, <1>2, <1>4, <2>1 DEF IInv, Closes, Calls
  <2>5. Under("release")' <=> Under("release")
    BY <1>4 DEF Calls
  <2>6. cnnRef' = (IF endpoint' THEN 1 ELSE 0) + (IF closing /\ ~Under("release") THEN 0 ELSE 1)
    <3>1. endpoint /\ cnnRef = 1 + (IF closing /\ ~Under("release") THEN 0 ELSE 1)
      BY <1>1 DEF IInv, Closes
    <3>2. CASE In("none") = Conns /\ rqq = <<>>
      BY <1>2, <3>1, <3>2
    <3>3. CASE ~(In("none") = Conns /\ rqq = <<>>)
      BY <1>2, <3>1, <3>3
    <3> QED BY <3>2, <3>3
  <2> QED BY <2>2, <2>3, <2>4, <2>5, <2>6 DEF IInv, Closes
<1>10. TypeOK'
  <2>1. endpoint' \in BOOLEAN
    BY <1>2 DEF IInv, TypeOK
  <2>2. cnnRef' \in 0..2
    BY <1>9, <2>1 DEF Closes
  <2> QED BY <1>2, <1>3, <2>1, <2>2 DEF IInv, TypeOK
<1>11. Answers'
  BY <1>2, <1>4, SameAnswers DEF IInv
<1> QED BY <1>3, <1>6, <1>7, <1>8, <1>9, <1>10, <1>11 DEF IInv

LEMMA EndpointGoneStep == IInv /\ EndpointGone => IInv'
<1> SUFFICES ASSUME IInv, EndpointGone PROVE IInv'
  OBVIOUS
<1> DEFINE T == Range(Tail(stack))
<1>1. /\ stack # <<>> /\ It.call \in EndpointCalls /\ ~endpoint /\ It.rq = None
      /\ Range(stack) = {It} \cup T /\ \A x \in Range(stack) : x.conn = None
  <2>1. stack # <<>> /\ It.call \in EndpointCalls /\ ~endpoint
    BY DEF EndpointGone
  <2> QED BY <2>1, Rest, TopOfPool DEF IInv, RequestCalls, EndpointCalls, TypeOK
<1>2. /\ UNCHANGED <<status, retries, answers, rqConn, rqq, conn, used, n_conn, orphans,
                      endpoint, cnnRef, closing>>
      /\ astray' = astray \cup {"endpoint"} /\ Returns
  BY DEF EndpointGone, rqVars, epVars
<1>3. stack' \in Seq(Frames) /\ Shape(stack') /\ Range(stack') = T /\ Moves({})
  BY <1>1, <1>2, PutNone DEF IInv
<1> HIDE DEF T
<1>4. /\ \A q \in Requests : Dealt(q)' <=> Dealt(q)
      /\ \A f \in Calls \ EndpointCalls : Under(f)' <=> Under(f)
      /\ \A q \in Requests, f \in Calls : UnderFor(f, q)' <=> UnderFor(f, q)
  BY <1>1, <1>3, NullTypes DEF Moves
<1>5. \A s : In(s)' = In(s)
  BY <1>2 DEF In
<1>6. TypeOK'
  BY <1>2, <1>3 DEF IInv, TypeOK
<1>7. Places'
  BY <1>2, <1>4, SamePlaces DEF IInv
<1>8. Holds'
  <2>1. Holds /\ UNCHANGED rqConn /\ conn' = conn
    BY <1>2 DEF IInv
  <2>2. \A x \in Range(stack') : x \in Range(stack)
    BY <1>1, <1>3
  <2> QED BY <1>1, <1>5, <2>1, <2>2, SameHolds
<1>9. Sought'
  <2>1. In("new") = {}
    BY <1>1 DEF IInv, Sought, In
  <2> QED BY <1>1, <1>2, <1>5, <2>1 DEF IInv, Sought
<1>10. Closes'
  BY <1>1, <1>2, <1>4 DEF IInv, Closes, Calls, EndpointCalls, Active
<1>11. Answers'
  BY <1>2, <1>4, SameAnswers DEF IInv
<1> QED BY <1>3, <1>6, <1>7, <1>8, <1>9, <1>10, <1>11 DEF IInv

LEMMA ReleaseStep == IInv /\ ReleaseCnn => IInv'
<1> SUFFICES ASSUME IInv, ReleaseCnn PROVE IInv'
  OBVIOUS
<1> DEFINE T == Range(Tail(stack))
<1>1. /\ stack # <<>> /\ It.call = "release" /\ It.rq = None /\ Under("release")
      /\ Range(stack) = {It} \cup T /\ \A x \in Range(stack) : x.conn = None
      /\ \A x \in T : x.call # "release"
  <2>1. stack # <<>> /\ It.call = "release"
    BY DEF ReleaseCnn, Top
  <2> QED BY <2>1, Rest, TopOfPool DEF IInv, RequestCalls, TypeOK
<1>2. /\ UNCHANGED <<status, retries, answers, rqConn, rqq, conn, used, n_conn, orphans,
                      endpoint, closing, astray>>
      /\ cnnRef' = cnnRef - 1 /\ Returns
  BY DEF ReleaseCnn, rqVars, epVars
<1>3. stack' \in Seq(Frames) /\ Shape(stack') /\ Range(stack') = T /\ Moves({})
  BY <1>1, <1>2, PutNone DEF IInv
<1> HIDE DEF T
<1>4. /\ \A q \in Requests : Dealt(q)' <=> Dealt(q)
      /\ \A f \in Calls \ {"release"} : Under(f)' <=> Under(f)
      /\ ~Under("release")'
      /\ \A q \in Requests, f \in Calls : UnderFor(f, q)' <=> UnderFor(f, q)
  <2>1. ~Under("release")'
    BY <1>1, <1>3 DEF Under
  <2> QED BY <1>1, <1>3, <2>1, NullTypes DEF Moves
<1>5. \A s : In(s)' = In(s)
  BY <1>2 DEF In
<1>6. Places'
  BY <1>2, <1>4, SamePlaces DEF IInv
<1>7. Holds'
  <2>1. Holds /\ UNCHANGED rqConn /\ conn' = conn
    BY <1>2 DEF IInv
  <2>2. \A x \in Range(stack') : x \in Range(stack)
    BY <1>1, <1>3
  <2> QED BY <1>1, <1>5, <2>1, <2>2, SameHolds
<1>8. Sought'
  BY <1>2, <1>4, <1>5 DEF IInv, Sought, Calls
<1>9. Closes'
  BY <1>1, <1>2, <1>4, <1>5 DEF IInv, Closes, Calls, Active
<1>10. TypeOK'
  <2>1. cnnRef' \in 0..2
    BY <1>2, <1>9 DEF Closes, IInv, TypeOK
  <2> QED BY <1>2, <1>3, <2>1 DEF IInv, TypeOK
<1>11. Answers'
  BY <1>2, <1>4, SameAnswers DEF IInv
<1> QED BY <1>3, <1>6, <1>7, <1>8, <1>9, <1>10, <1>11 DEF IInv

LEMMA ExpireStep == IInv /\ ExpireAncient => IInv'
<1> SUFFICES ASSUME IInv, ExpireAncient PROVE IInv'
  OBVIOUS
<1> DEFINE T == Range(Tail(stack))
<1>1. /\ stack # <<>> /\ stack \in Seq(Frames) /\ It.call = "expire" /\ It \in Frames /\ endpoint
      /\ Range(stack) = {It} \cup T /\ It.rq = None /\ It.conn = None
      /\ \A x \in Range(stack) : x.conn = None
      /\ \A x \in T : x \in Frames /\ x.call \notin {"make", "error"} /\ (x.rq # None <=> x.call \in RequestCalls)
  <2>1. stack # <<>> /\ stack \in Seq(Frames) /\ It.call = "expire" /\ endpoint
    BY DEF IInv, TypeOK, ExpireAncient, Top, EndpointCalls
  <2> QED BY <2>1, Rest, TopOfPool DEF IInv, RequestCalls
<1>2. UNCHANGED <<status, retries, answers, rqConn, conn, used, n_conn, orphans, endpoint,
                  cnnRef, closing, astray>>
  BY DEF ExpireAncient, rqVars, cnnVars
<1>3. \A s : In(s)' = In(s)
  BY <1>2 DEF In
<1> DEFINE first == Min({i \in DOMAIN rqq : rqq[i] \in It.old})
<1>a. CASE /\ It.old \cap Range(rqq) # {}
           /\ rqq' = SubSeq(rqq, 1, first - 1) \o SubSeq(rqq, first + 1, Len(rqq))
           /\ GoesOn(<<CallFor("make", rqq[first]), [It EXCEPT !.old = @ \ {rqq[first]}]>>)
  <2>1. first \in DOMAIN rqq
    <3>1. {i \in DOMAIN rqq : rqq[i] \in It.old} # {}
      BY <1>a DEF Range
    <3>2. {i \in DOMAIN rqq : rqq[i] \in It.old} \subseteq Nat
      BY LenProperties DEF IInv, TypeOK
    <3> QED BY <3>1, <3>2, FirstOf
  <2>2. PICK r, a, b : /\ r = rqq[first] /\ a = CallFor("make", r)
                       /\ b = [It EXCEPT !.old = @ \ {r}]
    OBVIOUS
  <2>3. /\ r \in Requests /\ Queued(r) /\ rqq' \in Seq(Requests) /\ IsInjective(rqq')
        /\ Range(rqq') = Range(rqq) \ {r}
    BY <1>a, <2>1, <2>2, QueueShrinks DEF IInv, TypeOK, Places, Queued
  <2>4. /\ ~Sent(r) /\ ~Dealt(r) /\ status[r] = "active" /\ ~closing
        /\ \A f \in Calls : ~UnderFor(f, r)
    BY <2>3, ClosedQueue DEF IInv, Places, Dealt, UnderFor
  <2>5. ~Answered(r)
    BY <2>3, <2>4 DEF IInv, Answers, Calls
  <2>6. /\ Plain(a) /\ a.call = "make" /\ a.rq = r /\ a.conn = None /\ Fresh(a)
        /\ Plain(b) /\ b.call = "expire" /\ b.rq = None /\ b.conn = None /\ Fresh(b)
    <3>1. /\ a \in Frames /\ a.call = "make" /\ a.rq = r /\ a.conn = None
      BY <2>2, <2>3, CallForTypes DEF Calls
    <3>2. /\ b \in Frames /\ b.call = "expire" /\ b.rq = None /\ b.conn = None
      BY <1>1, <2>2 DEF Frames
    <3>3. \A x \in T : x.rq # r
      BY <1>1, <2>4 DEF Dealt
    <3> QED BY <1>1, <2>3, <3>1, <3>2, <3>3, NullTypes DEF Plain, Fresh, RequestCalls
  <2>7. /\ stack' \in Seq(Frames) /\ Shape(stack')
        /\ Range(stack') = {a, b} \cup T /\ Moves({a, b})
    BY <1>1, <1>a, <2>2, <2>3, <2>6, NullTypes, PutTwo DEF IInv
  <2> HIDE DEF T, first
  <2>8. /\ \A q \in Requests \ {r} : Dealt(q)' <=> Dealt(q)
        /\ Dealt(r)'
        /\ \A f \in Calls \ (RequestCalls \cup {"expire"}) : Under(f)' <=> Under(f)
        /\ \A q \in Requests, f \in {"answer", "free_rq"} : UnderFor(f, q)' <=> UnderFor(f, q)
    <3>1. Dealt(r)'
      BY <2>6, <2>7 DEF Dealt
    <3> QED BY <1>1, <2>3, <2>6, <2>7, <3>1, NullTypes DEF Moves, RequestCalls, Calls
  <2>9. TypeOK'
    BY <1>2, <2>3, <2>7 DEF IInv, TypeOK
  <2>10. Places'
    BY <1>2, <2>3, <2>4, <2>8 DEF IInv, Places, Queued, Sent, Active
  <2>11. Holds'
    <3>1. ASSUME NEW x \in Range(stack')
          PROVE  /\ x.call \in {"try", "make"} => ~Sent(x.rq)'
                 /\ x.call # "error" /\ x.conn = None
      BY <1>1, <1>2, <2>4, <2>6, <2>7 DEF IInv, Holds, Sent
    <3>2. ASSUME NEW d \in In("inuse") PROVE \E q \in Requests : rqConn'[q] = d
      BY <1>1, <1>2, NullTypes DEF IInv, Holds, In
    <3> QED BY <1>3, <3>1, <3>2 DEF Holds
  <2>12. Sought'
    <3>1. rqq # <<>>
      BY <2>3 DEF Queued, Range
    <3> QED BY <1>1, <1>2, <1>3, <2>8, <3>1 DEF IInv, Sought, Calls, RequestCalls
  <2>13. Closes'
    BY <1>2, <1>3, <2>4, <2>8 DEF IInv, Closes, Calls, RequestCalls
  <2>14. Answers'
    <3>1. \A q \in Requests : Answered(q)' <=> Answered(q)
      BY <1>2 DEF Answered
    <3> QED BY <1>2, <2>8, <3>1 DEF IInv, Answers
  <2> QED BY <2>7, <2>9, <2>10, <2>11, <2>12, <2>13, <2>14 DEF IInv
<1>b. CASE Returns /\ UNCHANGED rqq
  <2>1. stack' \in Seq(Frames) /\ Shape(stack') /\ Range(stack') = T /\ Moves({})
    BY <1>1, <1>b, PutNone DEF IInv
  <2> HIDE DEF T, first
  <2>2. /\ \A q \in Requests : Dealt(q)' <=> Dealt(q)
        /\ \A f \in Calls \ {"expire"} : Under(f)' <=> Under(f)
        /\ \A q \in Requests, f \in Calls : UnderFor(f, q)' <=> UnderFor(f, q)
    BY <1>1, <2>1, NullTypes DEF Moves
  <2>3. TypeOK'
    BY <1>2, <1>b, <2>1 DEF IInv, TypeOK
  <2>4. Places'
    BY <1>2, <1>b, <2>2, SamePlaces DEF IInv
  <2>5. Holds'
    <3>1. \A x \in Range(stack') : x \in Range(stack)
      BY <1>1, <2>1
    <3>2. Holds /\ UNCHANGED rqConn /\ conn' = conn
      BY <1>2 DEF IInv
    <3> QED BY <1>1, <1>3, <3>1, <3>2, SameHolds
  <2>6. Sought'
    BY <1>b, <1>2, <1>3, <2>2 DEF IInv, Sought, Calls
  <2>7. Closes'
    BY <1>2, <1>3, <2>2 DEF IInv, Closes, Calls, Active
  <2>8. Answers'
    BY <1>2, <2>2, SameAnswers DEF IInv
  <2> QED BY <2>1, <2>3, <2>4, <2>5, <2>6, <2>7, <2>8 DEF IInv
<1> HIDE DEF first
<1> QED BY <1>a, <1>b DEF ExpireAncient, first

LEMMA TidyEndpointStep == IInv /\ TidyEndpoint => IInv'
<1> SUFFICES ASSUME IInv, TidyEndpoint PROVE IInv'
  OBVIOUS
<1> DEFINE T == Range(Tail(stack))
<1>1. /\ stack # <<>> /\ It.call = "tidy_endpoint" /\ endpoint /\ It.rq = None
      /\ Range(stack) = {It} \cup T /\ \A x \in Range(stack) : x.conn = None
  <2>1. stack # <<>> /\ It.call = "tidy_endpoint" /\ endpoint
    BY DEF TidyEndpoint, Top, EndpointCalls
  <2> QED BY <2>1, Rest, TopOfPool DEF IInv, RequestCalls, TypeOK
<1> DEFINE Tidied(D, again) ==
             /\ conn' = [c \in Conns |-> CASE c \in D     -> "none"
                                           [] c \in again -> "new"
                                           [] OTHER       -> conn[c]]
             /\ used' = used \ D
             /\ n_conn' = n_conn - Cardinality(D)
             /\ rqConn' = [r \in Requests |-> IF rqConn[r] \in D THEN Gone ELSE rqConn[r]]
             /\ orphans' = (orphans \/ In("awaitdns") \cap D # {})
<1>d. PICK D \in Disposals : \E again \in SUBSET (In("faileddns") \ D) : Tidied(D, again)
  BY DEF TidyEndpoint
<1>2. PICK again \in SUBSET (In("faileddns") \ D) : Tidied(D, again)
  BY <1>d
<1>3. /\ UNCHANGED <<status, retries, answers, rqq, endpoint, cnnRef, closing, astray>>
      /\ GoesOn((IF closing THEN <<>> ELSE <<Call("new")>>) \o <<Call("free_if_unused")>>)
  BY DEF TidyEndpoint
<1>4. /\ D \subseteq Conns \ In("none")
      /\ closing => D = Conns \ In("none")
      /\ ~closing /\ ~MayOutlast => D \cap In("inuse") = {}
  BY DEF Disposals
<1>5. /\ conn' \in [Conns -> ConnStates]
      /\ \A c \in Conns : \/ c \in D /\ conn'[c] = "none" /\ conn[c] # "none"
                          \/ c \in again /\ c \notin D /\ conn'[c] = "new" /\ conn[c] = "faileddns"
                          \/ c \notin D /\ c \notin again /\ conn'[c] = conn[c]
  BY <1>2, <1>4 DEF IInv, TypeOK, ConnStates, In
<1>6. /\ In("inuse")' = In("inuse") \ D /\ In("ready")' \subseteq In("ready")
      /\ In("none")' = In("none") \cup D
      /\ closing => In("none")' = Conns /\ In("new")' = {}
  <2>1. In("inuse")' = In("inuse") \ D /\ In("ready")' \subseteq In("ready")
    BY <1>5 DEF In
  <2>2. In("none")' = In("none") \cup D
    BY <1>4, <1>5 DEF In
  <2>3. closing => In("none")' = Conns
    BY <1>4, <2>2 DEF In
  <2>4. closing => In("new")' = {}
    BY <2>3 DEF In
  <2> QED BY <2>1, <2>2, <2>3, <2>4
<1>7. n_conn' = Cardinality(Conns \ In("none")')
  <2> DEFINE S == Conns \ In("none")
  <2>1. Conns \ In("none")' = S \ D /\ S \cap D = D
    BY <1>4, <1>6
  <2>2. IsFiniteSet(S) /\ n_conn = Cardinality(S)
    BY Counted DEF IInv, TypeOK, Sought
  <2>3. Cardinality(S \ D) = Cardinality(S) - Cardinality(S \cap D)
    BY <2>2, FS_Difference
  <2> QED BY <1>2, <2>1, <2>2, <2>3
<1>8. ASSUME NEW q \in Requests
      PROVE  /\ rqConn'[q] \in Conns \cup {None, Gone}
             /\ Sent(q)' <=> Sent(q) /\ rqConn[q] \notin D
             /\ Sent(q)' => rqConn'[q] = rqConn[q]
  BY <1>2, NullTypes DEF IInv, TypeOK, Sent
<1>9. /\ stack' \in Seq(Frames) /\ Shape(stack')
      /\ \A x \in Range(stack') : x \in T \/ (x.conn = None /\ x.call \in {"new", "free_if_unused"})
      /\ \A q \in Requests : Dealt(q)' <=> Dealt(q)
      /\ \A f \in Calls \ {"tidy_endpoint", "new", "free_if_unused"} : Under(f)' <=> Under(f)
      /\ ~closing => Under("new")'
      /\ Under("free_if_unused")'
      /\ \A q \in Requests, f \in Calls : UnderFor(f, q)' <=> UnderFor(f, q)
  <2>1. PICK a, b : a = Call("new") /\ b = Call("free_if_unused")
    OBVIOUS
  <2>2. /\ Plain(a) /\ a.call = "new" /\ a.rq = None /\ a.conn = None /\ Fresh(a)
        /\ Plain(b) /\ b.call = "free_if_unused" /\ b.rq = None /\ b.conn = None /\ Fresh(b)
    BY <2>1, CallTypes DEF Calls, RequestCalls, Plain, Fresh
  <2>3. CASE closing
    <3>1. GoesOn(<<b>>)
      <4>1. <<>> \o <<b>> = <<b>>
        BY <2>2, ListOfOne, ConcatEmptySeq DEF Plain
      <4> QED BY <1>3, <2>1, <2>3, <4>1
    <3>2. stack' \in Seq(Frames) /\ Shape(stack') /\ Range(stack') = {b} \cup T /\ Moves({b})
      BY <1>1, <2>2, <3>1, PutOne DEF IInv
    <3> HIDE DEF T
    <3> QED BY <1>1, <2>2, <2>3, <3>2, NullTypes DEF Moves, Calls
  <2>4. CASE ~closing
    <3>1. GoesOn(<<a, b>>)
      <4>1. <<a>> \o <<b>> = <<a, b>>
        BY <2>2, ListsJoin DEF Plain
      <4> QED BY <1>3, <2>1, <2>4, <4>1
    <3>2. stack' \in Seq(Frames) /\ Shape(stack') /\ Range(stack') = {a, b} \cup T /\ Moves({a, b})
      BY <1>1, <2>2, <3>1, PutTwo DEF IInv
    <3> HIDE DEF T
    <3> QED BY <1>1, <2>2, <2>4, <3>2, NullTypes DEF Moves, Calls
  <2> QED BY <2>3, <2>4
<1> HIDE DEF T
<1>10. TypeOK'
  <2>1. n_conn' \in 0..MAX_CONN
    BY <1>5, <1>7, CountedNext
  <2>2. rqConn' \in [Requests -> Conns \cup {None, Gone}]
    BY <1>2, <1>8
  <2>3. orphans' \in BOOLEAN /\ used' \subseteq Conns
    BY <1>2 DEF IInv, TypeOK
  <2> QED BY <1>3, <1>5, <1>9, <2>1, <2>2, <2>3 DEF IInv, TypeOK
<1>11. Places'
  <2>1. \A q \in Requests : Sent(q)' => conn'[rqConn'[q]] = "inuse"
    BY <1>5, <1>8 DEF IInv, Places, Sent
  <2>2. \A q, p \in Requests : Sent(q)' /\ rqConn'[q] = rqConn'[p] => q = p
    BY <1>8 DEF IInv, Places, Sent
  <2>3. ASSUME ~MayOutlast, NEW q \in Active PROVE Queued(q) \/ Sent(q)' \/ Dealt(q)
    <3>1. CASE closing
      BY <3>1 DEF IInv, Closes, UnderFor, Dealt
    <3>2. CASE ~closing
      <4>1. q \in Requests /\ (Queued(q) \/ Sent(q) \/ Dealt(q))
        BY <2>3 DEF IInv, Places, Active
      <4>2. Sent(q) => rqConn[q] \in In("inuse")
        BY <4>1 DEF IInv, Places, Sent, In
      <4> QED BY <1>4, <1>8, <2>3, <3>2, <4>1, <4>2
    <3> QED BY <3>1, <3>2
  <2> QED BY <1>3, <1>8, <1>9, <2>1, <2>2, <2>3 DEF IInv, Places, Queued, Active
<1>12. Holds'
  <2>1. ASSUME NEW x \in Range(stack')
        PROVE  /\ x.call \in {"try", "make"} => ~Sent(x.rq)'
               /\ x.call # "error" /\ x.conn = None
    <3>1. CASE x \in T
      <4>1. x \in Range(stack) /\ x \in Frames /\ x.call # "error"
            /\ (x.rq # None <=> x.call \in RequestCalls)
        BY <1>1, <3>1, Rest DEF IInv, TypeOK, T
      <4> QED BY <1>1, <1>8, <4>1 DEF IInv, Holds, RequestCalls, Frames
    <3>2. CASE x \notin T
      BY <1>9, <3>2
    <3> QED BY <3>1, <3>2
  <2>2. ASSUME NEW d \in In("inuse") \ D PROVE \E q \in Requests : rqConn'[q] = d
    <3>1. PICK q \in Requests : rqConn[q] = d
      BY <1>1, NullTypes DEF IInv, Holds, In
    <3> QED BY <1>2, <3>1
  <2> QED BY <1>6, <2>1, <2>2 DEF Holds
<1>13. Sought'
  <2>1. closing => rqq = <<>>
    BY ClosedQueue DEF IInv
  <2>2. Under("link")' <=> Under("link")
    BY <1>9 DEF Calls
  <2> QED BY <1>1, <1>3, <1>6, <1>7, <1>9, <2>1, <2>2 DEF IInv, Sought
<1>14. Closes'
  BY <1>3, <1>6, <1>9 DEF IInv, Closes, Calls, Active
<1>15. Answers'
  BY <1>3, <1>9, SameAnswers DEF IInv
<1> QED BY <1>9, <1>10, <1>11, <1>12, <1>13, <1>14, <1>15 DEF IInv

-----------------------------------------------------------------------------
(* The events *)

LEMMA HttpRequestStep == IInv /\ (\E r \in Requests : HttpRequest(r)) => IInv'
<1> SUFFICES ASSUME IInv, NEW r \in Requests, HttpRequest(r) PROVE IInv'
  OBVIOUS
<1>1. /\ Idle /\ ~closing /\ status[r] = "idle" /\ status' = [status EXCEPT ![r] = "active"]
      /\ UNCHANGED <<retries, answers, rqConn, rqq, conn, used, n_conn, orphans, endpoint,
                     cnnRef, closing, astray>>
  BY DEF HttpRequest, epVars, cnnVars
<1>2. PICK a : a = CallFor("try", r)
  OBVIOUS
<1>3. Plain(a) /\ a.call = "try" /\ a.rq = r /\ a.conn = None
  BY <1>2, CallForTypes, NullTypes DEF Calls, RequestCalls, Plain
<1>4. stack' \in Seq(Frames) /\ Shape(stack') /\ Starts({a})
  BY <1>1, <1>2, <1>3, StartOne DEF HttpRequest
<1>5. /\ status' \in [Requests -> {"idle", "active", "over"}] /\ status'[r] = "active"
      /\ \A q \in Requests \ {r} : status'[q] = status[q]
  BY <1>1 DEF IInv, TypeOK
<1>6. ~Queued(r) /\ ~Sent(r) /\ ~Answered(r)
  BY <1>1 DEF IInv, Places, Answers
<1>7. \A s : In(s)' = In(s)
  BY <1>1 DEF In
<1>8. TypeOK'
  BY <1>1, <1>4, <1>5 DEF IInv, TypeOK
<1>9. /\ \A q \in Requests : ~Dealt(q) /\ (Dealt(q)' <=> q = r)
      /\ \A q \in Requests, f \in Calls \ {"try"} : ~UnderFor(f, q) /\ ~UnderFor(f, q)'
      /\ \A f \in Calls \ {"try"} : ~Under(f) /\ ~Under(f)'
  BY <1>3, <1>4 DEF Starts
<1>10. Places'
  BY <1>1, <1>5, <1>6, <1>9 DEF IInv, Places, Queued, Sent, Active
<1>11. Holds'
  <2>1. rqConn' = rqConn /\ conn' = conn /\ Range(stack') = {a} /\ Range(stack) = {}
    BY <1>1, <1>4 DEF Starts
  <2> QED BY <1>3, <1>6, <1>7, <2>1 DEF IInv, Holds, Sent
<1>12. Sought'
  BY <1>1, <1>7, <1>9 DEF IInv, Sought, Calls
<1>13. Closes'
  BY <1>1, <1>9 DEF IInv, Closes, Calls
<1>14. Answers'
  <2>1. \A q \in Requests : Answered(q)' <=> Answered(q)
    BY <1>1 DEF Answered
  <2>2. ASSUME NEW q \in Requests
        PROVE  ~UnderFor("free_rq", q) /\ ~UnderFor("free_rq", q)'
    BY <1>9 DEF Calls
  <2> QED BY <1>1, <1>5, <1>6, <2>1, <2>2 DEF IInv, Answers
<1> QED BY <1>4, <1>8, <1>10, <1>11, <1>12, <1>13, <1>14 DEF IInv

LEMMA DoneStep == IInv /\ (\E c \in Conns : Done(c)) => IInv'
<1> SUFFICES ASSUME IInv, NEW c \in Conns, Done(c) PROVE IInv'
  OBVIOUS
<1>1. PICK r \in Requests :
        /\ Idle /\ conn[c] = "inuse" /\ rqConn[r] = c
        /\ \/ stack' = <<[CallFor("answer", r) EXCEPT !.ok = TRUE], CallFor("free_rq", r)>>
           \/ stack' = <<CallFor("error", r)>>
        /\ UNCHANGED <<status, retries, answers, rqConn, rqq, conn, used, n_conn, orphans,
                       endpoint, cnnRef, closing, astray>>
  BY DEF Done, rqVars, epVars, cnnVars
<1>2. Sent(r) /\ ~Queued(r) /\ status[r] = "active"
  BY <1>1 DEF IInv, Places, Sent
<1>3. ~closing /\ ~Answered(r)
  BY <1>1, <1>2, Quiet DEF IInv, Closes, Active, Answers
<1>4. /\ stack' \in Seq(Frames) /\ Shape(stack')
      /\ \A x \in Range(stack') : x.conn = None /\ x.rq = r /\ x.call \in {"answer", "free_rq", "error"}
      /\ \A q \in Requests : ~Dealt(q) /\ (Dealt(q)' <=> q = r)
      /\ \A f \in Calls \ RequestCalls : ~Under(f) /\ ~Under(f)'
      /\ \A q \in Requests, f \in Calls : ~UnderFor(f, q) /\ (UnderFor(f, q)' => q = r)
      /\ UnderFor("free_rq", r)' => UnderFor("answer", r)'
  <2>1. CASE stack' = <<[CallFor("answer", r) EXCEPT !.ok = TRUE], CallFor("free_rq", r)>>
    <3>1. PICK a, b : a = [CallFor("answer", r) EXCEPT !.ok = TRUE] /\ b = CallFor("free_rq", r)
      OBVIOUS
    <3>2. /\ Plain(a) /\ a.call = "answer" /\ a.rq = r /\ a.conn = None
          /\ Plain(b) /\ b.call = "free_rq" /\ b.rq = r /\ b.conn = None
      <4>1. a \in Frames /\ a.call = "answer" /\ a.rq = r /\ a.conn = None
        BY <3>1 DEF CallFor, Call, Frames, Calls
      <4> QED BY <3>1, <4>1, CallForTypes, NullTypes DEF Calls, RequestCalls, Plain
    <3>3. stack' \in Seq(Frames) /\ Shape(stack') /\ Starts({a, b})
      BY <1>1, <2>1, <3>1, <3>2, StartTwo
    <3>4. UnderFor("answer", r)'
      BY <3>2, <3>3 DEF Starts, Calls
    <3> QED BY <3>2, <3>3, <3>4, NullTypes DEF Starts, Calls, RequestCalls
  <2>2. CASE stack' = <<CallFor("error", r)>>
    <3>1. PICK a : a = CallFor("error", r)
      OBVIOUS
    <3>2. Plain(a) /\ a.call = "error" /\ a.rq = r /\ a.conn = None
      BY <3>1, CallForTypes, NullTypes DEF Calls, RequestCalls, Plain
    <3>3. stack' \in Seq(Frames) /\ Shape(stack') /\ Starts({a})
      BY <1>1, <2>2, <3>1, <3>2, StartOne
    <3> QED BY <3>2, <3>3, NullTypes DEF Starts, Calls, RequestCalls
  <2> QED BY <1>1, <2>1, <2>2
<1>5. \A s : In(s)' = In(s)
  BY <1>1 DEF In
<1>6. TypeOK'
  BY <1>1, <1>4 DEF IInv, TypeOK
<1>7. Places'
  BY <1>1, <1>2, <1>4 DEF IInv, Places, Queued, Sent, Active
<1>8. Holds'
  <2>1. rqConn' = rqConn /\ conn' = conn /\ Range(stack) = {}
    BY <1>1, Quiet
  <2>2. \A d \in In("inuse") : \E q \in Requests : rqConn[q] = d
    BY <2>1 DEF IInv, Holds
  <2> QED BY <1>1, <1>4, <1>5, <2>1, <2>2 DEF Holds, Sent
<1>9. Sought'
  BY <1>1, <1>4, <1>5 DEF IInv, Sought, Calls, RequestCalls
<1>10. Closes'
  BY <1>1, <1>3, <1>4 DEF IInv, Closes, Calls, RequestCalls
<1>11. Answers'
  <2>1. \A q \in Requests : Answered(q)' <=> Answered(q)
    BY <1>1 DEF Answered
  <2>2. ASSUME NEW q \in Requests, q # r
        PROVE  ~UnderFor("free_rq", q) /\ ~UnderFor("free_rq", q)'
    BY <1>4, <2>2 DEF Calls
  <2> QED BY <1>1, <1>2, <1>3, <1>4, <2>1, <2>2 DEF IInv, Answers
<1> QED BY <1>4, <1>6, <1>7, <1>8, <1>9, <1>10, <1>11 DEF IInv

LEMMA ResolvedStep == IInv /\ (\E c \in Conns : Resolved(c)) => IInv'
<1> SUFFICES ASSUME IInv, NEW c \in Conns, Resolved(c) PROVE IInv'
  OBVIOUS
<1>1. /\ Idle /\ conn[c] = "awaitdns"
      /\ UNCHANGED <<status, retries, answers, rqConn, rqq, n_conn, orphans, endpoint, cnnRef,
                     closing, astray>>
  BY DEF Resolved, rqVars, cnnVars
<1>2. PICK s \in {"faileddns", "ready"} : /\ conn' = [conn EXCEPT ![c] = s] /\ used' = used \cup {c}
                                         /\ stack' = IF s = "ready" THEN <<Call("link")>> ELSE stack
  BY DEF Resolved, Unresolved, Ready
<1>3. /\ conn' \in [Conns -> ConnStates] /\ endpoint
      /\ In("inuse")' = In("inuse") /\ In("none")' = In("none") /\ In("new")' = In("new")
      /\ s # "ready" => In("ready")' = In("ready")
      /\ \A d \in Conns : conn[d] = "inuse" => conn'[d] = "inuse"
  BY <1>1, <1>2 DEF IInv, TypeOK, ConnStates, In, Sought
<1>4. /\ stack' \in Seq(Frames) /\ Shape(stack') /\ Range(stack) = {}
      /\ \A x \in Range(stack') : x.call = "link" /\ x.conn = None
      /\ \A q \in Requests : ~Dealt(q) /\ ~Dealt(q)'
      /\ \A f \in Calls : ~Under(f) /\ (Under(f)' <=> f = "link" /\ s = "ready")
      /\ \A q \in Requests, f \in Calls : ~UnderFor(f, q) /\ ~UnderFor(f, q)'
  <2>1. CASE s = "ready"
    <3>1. PICK a : a = Call("link")
      OBVIOUS
    <3>2. Plain(a) /\ a.call = "link" /\ a.rq = None /\ a.conn = None
      BY <3>1, CallTypes DEF Calls, RequestCalls, Plain
    <3>3. stack' \in Seq(Frames) /\ Shape(stack') /\ Starts({a})
      BY <1>1, <1>2, <2>1, <3>1, <3>2, StartOne
    <3> QED BY <2>1, <3>2, <3>3, NullTypes DEF Starts
  <2>2. CASE s # "ready"
    <3>1. stack' = stack /\ Range(stack) = {} /\ Range(stack') = {}
      BY <1>1, <1>2, <2>2, Quiet
    <3> QED BY <1>1, <2>2, <3>1, Quiet DEF IInv, TypeOK, Dealt, Under, UnderFor
  <2> QED BY <2>1, <2>2
<1>5. TypeOK'
  BY <1>1, <1>2, <1>3, <1>4 DEF IInv, TypeOK
<1>6. Places'
  BY <1>1, <1>3, <1>4 DEF IInv, Places, Queued, Sent, Active
<1>7. Holds'
  <2>1. Holds /\ UNCHANGED rqConn
    BY <1>1 DEF IInv
  <2> QED BY <1>3, <1>4, <2>1, SameHolds
<1>8. Sought'
  BY <1>1, <1>3, <1>4 DEF IInv, Sought, Calls
<1>9. Closes'
  BY <1>1, <1>3, <1>4 DEF IInv, Closes, Calls, Active
<1>10. Answers'
  BY <1>1, <1>4, SameAnswers DEF IInv
<1> QED BY <1>4, <1>5, <1>6, <1>7, <1>8, <1>9, <1>10 DEF IInv

LEMMA TidyStep == IInv /\ (\E old \in SUBSET Requests : Tidy(old)) => IInv'
<1> SUFFICES ASSUME IInv, NEW old \in SUBSET Requests, Tidy(old) PROVE IInv'
  OBVIOUS
<1>1. /\ Idle /\ endpoint /\ ~closing
      /\ stack' = <<[Call("expire") EXCEPT !.old = old], Call("tidy_endpoint")>>
      /\ UNCHANGED <<status, retries, answers, rqConn, rqq, conn, used, n_conn, orphans,
                     endpoint, cnnRef, closing, astray>>
  BY DEF Tidy, rqVars, epVars, cnnVars
<1>2. PICK a, b : a = [Call("expire") EXCEPT !.old = old] /\ b = Call("tidy_endpoint")
  OBVIOUS
<1>3. /\ Plain(a) /\ a.call = "expire" /\ a.rq = None /\ a.conn = None
      /\ Plain(b) /\ b.call = "tidy_endpoint" /\ b.rq = None /\ b.conn = None
  <2>1. a \in Frames /\ a.call = "expire" /\ a.rq = None /\ a.conn = None
    BY <1>2 DEF Call, Frames, Calls
  <2> QED BY <1>2, <2>1, CallTypes DEF Calls, RequestCalls, Plain
<1>4. stack' \in Seq(Frames) /\ Shape(stack') /\ Starts({a, b})
  BY <1>1, <1>2, <1>3, StartTwo
<1>5. \A s : In(s)' = In(s)
  BY <1>1 DEF In
<1>6. /\ \A q \in Requests : ~Dealt(q) /\ ~Dealt(q)'
      /\ \A f \in Calls \ {"expire", "tidy_endpoint"} : ~Under(f) /\ ~Under(f)'
      /\ \A q \in Requests, f \in Calls : ~UnderFor(f, q) /\ ~UnderFor(f, q)'
      /\ Range(stack) = {} /\ Range(stack') = {a, b}
  BY <1>3, <1>4, NullTypes DEF Starts
<1>7. TypeOK'
  BY <1>1, <1>4 DEF IInv, TypeOK
<1>8. Places'
  BY <1>1, <1>6, SamePlaces DEF IInv
<1>9. Holds'
  <2>1. Holds /\ UNCHANGED rqConn /\ conn' = conn
    BY <1>1 DEF IInv
  <2> QED BY <1>3, <1>5, <1>6, <2>1, SameHolds
<1>10. Sought'
  BY <1>1, <1>5, <1>6 DEF IInv, Sought, Calls
<1>11. Closes'
  BY <1>1, <1>6 DEF IInv, Closes, Calls
<1>12. Answers'
  BY <1>1, <1>6, SameAnswers DEF IInv
<1> QED BY <1>4, <1>7, <1>8, <1>9, <1>10, <1>11, <1>12 DEF IInv

LEMMA CloseStep == IInv /\ Close => IInv'
<1> SUFFICES ASSUME IInv, Close PROVE IInv'
  OBVIOUS
<1>1. /\ Idle /\ Active = {} /\ ~closing /\ closing' = TRUE /\ stack' = Free
      /\ UNCHANGED <<status, retries, answers, rqConn, rqq, conn, used, n_conn, orphans,
                     endpoint, cnnRef, astray>>
  BY DEF Close, rqVars, epVars
<1>2. PICK a, b : a = Call("tidy_endpoint") /\ b = Call("release")
  OBVIOUS
<1>3. /\ Plain(a) /\ a.call = "tidy_endpoint" /\ a.rq = None /\ a.conn = None
      /\ Plain(b) /\ b.call = "release" /\ b.rq = None /\ b.conn = None
  BY <1>2, CallTypes DEF Calls, RequestCalls, Plain
<1>4. /\ stack' \in Seq(Frames) /\ Shape(stack') /\ Range(stack) = {}
      /\ \A x \in Range(stack') : x.conn = None /\ x.call \in {"tidy_endpoint", "release"}
      /\ \A q \in Requests : ~Dealt(q) /\ ~Dealt(q)'
      /\ \A f \in Calls : ~Under(f)
      /\ \A f \in Calls \ {"tidy_endpoint", "release"} : ~Under(f)'
      /\ Under("release")' /\ (endpoint => Under("tidy_endpoint")')
      /\ \A q \in Requests, f \in Calls : ~UnderFor(f, q) /\ ~UnderFor(f, q)'
  <2>1. CASE endpoint
    <3>1. stack' = <<a, b>>
      <4>1. <<a>> \o <<b>> = <<a, b>>
        BY <1>3, ListsJoin DEF Plain
      <4> QED BY <1>1, <1>2, <2>1, <4>1 DEF Free
    <3>2. stack' \in Seq(Frames) /\ Shape(stack') /\ Starts({a, b})
      BY <1>1, <1>3, <3>1, StartTwo
    <3> QED BY <1>3, <3>2, NullTypes DEF Starts, Calls
  <2>2. CASE ~endpoint
    <3>1. stack' = <<b>>
      <4>1. <<>> \o <<b>> = <<b>>
        BY <1>3, ListOfOne, ConcatEmptySeq DEF Plain
      <4> QED BY <1>1, <1>2, <2>2, <4>1 DEF Free
    <3>2. stack' \in Seq(Frames) /\ Shape(stack') /\ Starts({b})
      BY <1>1, <1>3, <3>1, StartOne
    <3> QED BY <1>3, <2>2, <3>2, NullTypes DEF Starts, Calls
  <2> QED BY <2>1, <2>2
<1>5. \A s : In(s)' = In(s)
  BY <1>1 DEF In
<1>6. TypeOK'
  BY <1>1, <1>4 DEF IInv, TypeOK
<1>7. Places'
  BY <1>1, <1>4, SamePlaces DEF IInv
<1>8. Holds'
  <2>1. Holds /\ UNCHANGED rqConn /\ conn' = conn
    BY <1>1 DEF IInv
  <2> QED BY <1>4, <1>5, <2>1, SameHolds
<1>9. Sought'
  BY <1>1, <1>4, <1>5 DEF IInv, Sought, Calls
<1>10. Closes'
  <2>1. Active' = {}
    BY <1>1 DEF Active
  <2>2. ~Under("release") /\ Under("release")'
    BY <1>4 DEF Calls
  <2> QED BY <1>1, <1>4, <2>1, <2>2 DEF IInv, Closes
<1>11. Answers'
  BY <1>1, <1>4, SameAnswers DEF IInv
<1> QED BY <1>4, <1>6, <1>7, <1>8, <1>9, <1>10, <1>11 DEF IInv

\* What a step that touches none of what the invariant speaks of leaves of it
LEMMA Untouched ==
  ASSUME IInv, UNCHANGED <<status, retries, answers, rqConn, rqq, conn, used, n_conn, endpoint,
                           cnnRef, closing, stack>>,
         orphans' \in BOOLEAN, astray' \subseteq {"resolved", "returned", "endpoint"}
  PROVE  IInv'
<1>1. TypeOK' /\ Shape(stack')
  BY DEF IInv, TypeOK
<1>2. Places' /\ Holds'
  BY DEF IInv, Places, Holds, Queued, Sent, Dealt, Active, In
<1>3. Sought' /\ Closes'
  BY DEF IInv, Sought, Closes, Under, UnderFor, Active, In
<1>4. Answers'
  BY DEF IInv, Answers, Answered, UnderFor
<1> QED BY <1>1, <1>2, <1>3, <1>4 DEF IInv

-----------------------------------------------------------------------------
(* The invariant holds. *)

LEMMA InitInv == Init => IInv
<1> SUFFICES ASSUME Init PROVE IInv
  OBVIOUS
<1>1. /\ rqq = <<>> /\ stack = <<>> /\ Range(rqq) = {} /\ Range(stack) = {}
      /\ <<>> \in Seq(Requests) /\ <<>> \in Seq(Frames) /\ <<>> \in Seq(BOOLEAN)
      /\ DOMAIN rqq = {} /\ DOMAIN stack = {}
  <2>1. DOMAIN <<>> = {} /\ Len(<<>>) = 0
    OBVIOUS
  <2> QED BY <2>1 DEF Init, Range
<1>2. \A f, q : ~Under(f) /\ ~UnderFor(f, q) /\ ~Dealt(q) /\ ~Queued(q)
  BY <1>1 DEF Under, UnderFor, Dealt, Queued
<1>3. /\ conn \in [Conns -> ConnStates] /\ In("none") = Conns /\ n_conn = 0
      /\ \A f \in ConnStates \ {"none"} : In(f) = {}
  BY DEF Init, In, ConnStates
<1>4. MAX_CONN \in Nat /\ n_conn = Cardinality(Conns \ In("none"))
  BY <1>3, Counted, FS_EmptySet
<1>5. TypeOK
  <2>1. /\ status \in [Requests -> {"idle", "active", "over"}]
        /\ retries \in [Requests -> 0..(MAX_RETRIES + 1)]
    BY HttpPoolAssumption DEF Init
  <2>2. /\ answers \in [Requests -> Seq(BOOLEAN)]
        /\ rqConn \in [Requests -> Conns \cup {None, Gone}]
    BY <1>1 DEF Init
  <2>3. /\ used \subseteq Conns /\ orphans \in BOOLEAN /\ endpoint \in BOOLEAN
        /\ closing \in BOOLEAN /\ astray \subseteq {"resolved", "returned", "endpoint"}
    BY DEF Init
  <2>4. cnnRef \in 0..2 /\ n_conn \in 0..MAX_CONN
    BY <1>3, <1>4 DEF Init
  <2> QED BY <1>1, <1>3, <2>1, <2>2, <2>3, <2>4 DEF TypeOK
<1>6. Shape(stack)
  BY <1>1 DEF Shape
<1>7. Places
  <2>1. Active = {} /\ \A r \in Requests : ~Sent(r)
    BY NullTypes DEF Init, Sent, Active
  <2>2. IsInjective(rqq)
    BY <1>1 DEF IsInjective
  <2> QED BY <1>2, <2>1, <2>2 DEF Places
<1>8. Holds
  BY <1>1, <1>3 DEF Holds, ConnStates
<1>9. Sought /\ Closes
  BY <1>1, <1>2, <1>3, <1>4 DEF Init, Sought, Closes, ConnStates
<1>10. Answers
  BY DEF Init, Answers, Answered
<1> QED BY <1>5, <1>6, <1>7, <1>8, <1>9, <1>10 DEF IInv

LEMMA StepInv == IInv /\ [Next]_vars => IInv'
<1> SUFFICES ASSUME IInv, [Next]_vars PROVE IInv'
  OBVIOUS
<1>1. CASE Step
  BY <1>1, TryStep, MakeStep, ErrorStep, AnswerStep, FreeRqStep, TryLinkStep, TryNewStep,
     TryResolveStep, ExpireStep, TidyEndpointStep, FreeIfUnusedStep, EndpointGoneStep,
     ReleaseStep DEF Step
<1>2. CASE \E r \in Requests : HttpRequest(r)
  BY <1>2, HttpRequestStep
<1>3. CASE \E c \in Conns : Done(c) \/ Resolved(c)
  BY <1>3, DoneStep, ResolvedStep
<1>4. CASE ResolvedLate
  <2>1. orphans' \in BOOLEAN /\ astray' \subseteq {"resolved", "returned", "endpoint"}
    BY <1>4 DEF ResolvedLate, IInv, TypeOK
  <2> QED BY <1>4, <2>1, Untouched DEF ResolvedLate, rqVars, epVars
<1>5. CASE \E old \in SUBSET Requests : Tidy(old)
  BY <1>5, TidyStep
<1>6. CASE Close
  BY <1>6, CloseStep
<1>7. CASE UNCHANGED vars
  <2>1. orphans' \in BOOLEAN /\ astray' \subseteq {"resolved", "returned", "endpoint"}
    BY <1>7 DEF vars, cnnVars, IInv, TypeOK
  <2> QED BY <1>7, <2>1, Untouched DEF vars, rqVars, epVars, cnnVars
<1> QED BY <1>1, <1>2, <1>3, <1>4, <1>5, <1>6, <1>7 DEF Next

THEOREM Invariant == Spec => []IInv
BY InitInv, StepInv, PTL DEF Spec

\* The state of the client stays within its types, n_conn within the connections
\* that are allowed, and cnn->r within the endpoint's hold and the owner's: it is
\* never counted below zero.
THEOREM TypeCorrect == Spec => []TypeOK
<1>1. IInv => TypeOK
  BY DEF IInv
<1> QED BY <1>1, Invariant, PTL

LEMMA OneHolder ==
  ASSUME IInv, NEW c \in In("inuse")
  PROVE  Cardinality({r \in Requests : rqConn[r] = c}
                     \cup {stack[i].rq : i \in {j \in DOMAIN stack : stack[j].conn = c}}) = 1
<1> DEFINE senders == {r \in Requests : rqConn[r] = c}
           makers  == {stack[i].rq : i \in {j \in DOMAIN stack : stack[j].conn = c}}
<1>1. c \in Conns /\ c # None
  BY NullTypes DEF In
<1>2. CASE \E r \in Requests : rqConn[r] = c
  <2>1. PICK r \in Requests : rqConn[r] = c
    BY <1>2
  <2>2. senders = {r}
    BY <1>1, <2>1 DEF IInv, Places, Sent
  <2>3. makers = {}
    BY <1>1, <2>1 DEF IInv, Holds, Range
  <2>4. senders \cup makers = {r}
    BY <2>2, <2>3
  <2> QED BY <2>4, FS_Singleton
<1>3. CASE ~\E r \in Requests : rqConn[r] = c
  <2>1. PICK i \in DOMAIN stack : stack[i].conn = c
    BY <1>3 DEF IInv, Holds, Range
  <2>2. \A j \in DOMAIN stack : stack[j].conn = c => j = 1
    BY <1>1 DEF IInv, Shape
  <2>3. senders \cup makers = {stack[i].rq}
    BY <1>3, <2>1, <2>2
  <2> QED BY <2>3, FS_Singleton
<1> QED BY <1>2, <1>3

\* A request that is active is in one place, and a connection in use has one
\* holder, whatever the calls of client.c and connection.c make of each other.
THEOREM OnePlace == Spec => []InOnePlace
<1>1. IInv => InOnePlace
  <2> SUFFICES ASSUME IInv PROVE InOnePlace
    OBVIOUS
  <2>1. \A r : Handlers(r) # {} <=> Dealt(r)
    BY DEF Handlers, Dealt, Range
  <2>2. IsInjective(rqq)
    BY DEF IInv, Places
  <2>3. ASSUME NEW r \in Requests
        PROVE  LET queued == r \in Range(rqq)
                   sent   == rqConn[r] \in Conns
                   dealt  == Handlers(r) # {}
               IN  /\ queued \/ sent \/ dealt => status[r] = "active"
                   /\ queued => ~sent /\ ~dealt
                   /\ sent => conn[rqConn[r]] = "inuse"
                   /\ ~MayOutlast /\ status[r] = "active" => queued \/ sent \/ dealt
    BY <2>1 DEF IInv, Places, Queued, Sent, Active
  <2> QED BY <2>2, <2>3, OneHolder DEF InOnePlace
<1> QED BY <1>1, Invariant, PTL

\* Between events no request waits while a connection is ready, about to be looked
\* up, or allowed to be made.
THEOREM NoneWaitsIdly == Spec => []NoIdleConnection
<1>1. IInv => NoIdleConnection
  BY Quiet DEF IInv, Sought, NoIdleConnection
<1> QED BY <1>1, Invariant, PTL

\* Closing frees the endpoint, its connections and the pool within the event, and
\* nothing frees the pool before.
THEOREM FreedWhenClosed == Spec => []ClosedMeansFreed
<1>1. IInv => ClosedMeansFreed
  <2> SUFFICES ASSUME IInv PROVE ClosedMeansFreed
    OBVIOUS
  <2>1. ASSUME Idle, closing PROVE cnnRef = 0
    <3>1. \A f : ~Under(f)
      BY <2>1, Quiet
    <3>2. ~endpoint
      BY <2>1, <3>1 DEF IInv, Closes
    <3> QED BY <2>1, <3>1, <3>2 DEF IInv, Closes
  <2>2. cnnRef = 0 => closing /\ ~endpoint /\ In("none") = Conns
    BY DEF IInv, TypeOK, Closes, Sought
  <2> QED BY <2>1, <2>2 DEF ClosedMeansFreed
<1> QED BY <1>1, Invariant, PTL

-----------------------------------------------------------------------------
(* The client implements FetchService, but for its liveness. *)

LEMMA SameService ==
  ASSUME UNCHANGED <<status, answers, closing>>
  PROVE  UNCHANGED FS!vars
BY DEF FS!vars

LEMMA NoneWaits ==
  ASSUME IInv, NEW q \in Requests, q \notin Active
  PROVE  ~FS!Waiting(q)
<1>1. status[q] = "idle" \/ (status[q] = "over" /\ answers[q] # <<>>)
  BY DEF IInv, TypeOK, Answers, Answered, Active
<1> QED BY <1>1 DEF FS!Waiting

LEMMA AnswerOfService == IInv /\ Answer => FS!Next
<1> SUFFICES ASSUME IInv, Answer PROVE FS!Next
  OBVIOUS
<1> DEFINE r == It.rq
<1>1. stack # <<>> /\ It.call = "answer"
  BY DEF Answer, Top
<1>2. It \in Frames /\ It \in Range(stack)
  BY <1>1, Rest DEF IInv, TypeOK
<1>3. r \in Requests /\ status[r] = "active"
  BY <1>1, TopOf DEF IInv, RequestCalls
<1>4. answers[r] = <<>>
  BY <1>1, <1>2, <1>3 DEF IInv, Answers, Answered, UnderFor
<1>5. It.ok \in BOOLEAN /\ answers' = [answers EXCEPT ![r] = <<It.ok>>]
  <2>1. It.ok \in BOOLEAN
    BY <1>2 DEF Frames
  <2>2. Append(<<>>, It.ok) = <<It.ok>>
    BY <2>1
  <2>3. answers' = [answers EXCEPT ![r] = Append(answers[r], It.ok)]
    BY DEF Answer
  <2> QED BY <1>4, <2>1, <2>2, <2>3
<1>6. FS!Waiting(r)
  BY <1>3, <1>4 DEF FS!Waiting
<1>7. UNCHANGED closing \/ (closing' = TRUE /\ ~closing /\ Active = {r})
  BY DEF Answer
<1>8. Active = {r} => \A q \in Requests \ {r} : ~FS!Waiting(q)
  BY NoneWaits
<1>9. UNCHANGED status
  BY DEF Answer
<1> HIDE DEF r
<1>10. FS!Answer(r)
  BY <1>5, <1>6, <1>7, <1>8, <1>9 DEF FS!Answer
<1> QED BY <1>3, <1>10 DEF FS!Next

LEMMA StepOfService == IInv /\ [Next]_vars => [FS!Next]_FS!vars
<1> SUFFICES ASSUME IInv, [Next]_vars PROVE [FS!Next]_FS!vars
  OBVIOUS
<1>1. CASE Answer
  BY <1>1, AnswerOfService
<1>2. CASE \E r \in Requests : HttpRequest(r)
  <2>1. PICK r \in Requests : HttpRequest(r)
    BY <1>2
  <2>2. status[r] = "idle" /\ ~closing /\ UNCHANGED <<answers, closing>>
    BY <2>1 DEF HttpRequest, cnnVars
  <2>3. \A q \in Requests : status'[q] = IF q = r THEN "active" ELSE status[q]
    BY <2>1 DEF HttpRequest, IInv, TypeOK
  <2>4. FS!Ask(r)
    BY <2>2, <2>3 DEF FS!Ask
  <2> QED BY <2>4 DEF FS!Next
<1>3. CASE Close
  <2>1. \A r \in Requests : ~FS!Waiting(r)
    BY <1>3, NoneWaits DEF Close
  <2>2. ~closing /\ closing' = TRUE /\ UNCHANGED <<status, answers>>
    BY <1>3 DEF Close, rqVars
  <2>3. FS!Close
    BY <2>1, <2>2 DEF FS!Close
  <2> QED BY <2>3 DEF FS!Next
<1>4. CASE FreeRq
  <2>1. It.rq \in Requests /\ status[It.rq] = "active"
    BY <1>4, TopOf DEF FreeRq, Top, IInv, RequestCalls
  <2>2. \A q \in Requests : status'[q] # "idle" <=> status[q] # "idle"
    BY <1>4, <2>1 DEF FreeRq, IInv, TypeOK
  <2>3. UNCHANGED <<answers, closing>>
    BY <1>4 DEF FreeRq
  <2> QED BY <2>2, <2>3 DEF FS!vars
<1>5. CASE \/ Try \/ MakeRequest \/ Error \/ TryLink \/ TryNew \/ TryResolve
           \/ ExpireAncient \/ TidyEndpoint \/ FreeIfUnused \/ EndpointGone \/ ReleaseCnn
  <2>1. UNCHANGED <<status, answers, closing>>
    BY <1>5 DEF Try, MakeRequest, Error, TryLink, TryNew, TryResolve, ExpireAncient,
       TidyEndpoint, FreeIfUnused, EndpointGone, ReleaseCnn, rqVars, cnnVars
  <2> QED BY <2>1, SameService
<1>6. CASE \/ \E c \in Conns : Done(c) \/ Resolved(c)
           \/ ResolvedLate
           \/ \E old \in SUBSET Requests : Tidy(old)
           \/ UNCHANGED vars
  <2>1. UNCHANGED <<status, answers, closing>>
    BY <1>6 DEF Done, Resolved, ResolvedLate, Tidy, vars, rqVars, cnnVars
  <2> QED BY <2>1, SameService
<1> QED BY <1>1, <1>2, <1>3, <1>4, <1>5, <1>6 DEF Next, Step

\* Each request is called back at most once, only after it was made and never after
\* the client was closed: every step of client.c and connection.c is one of the
\* service's or none to it.
THEOREM CalledBackOnce == Spec => FS!Init /\ [][FS!Next]_FS!vars
<1>1. Init => FS!Init
  BY DEF Init, FS!Init
<1> QED BY <1>1, StepOfService, Invariant, PTL DEF Spec
=============================================================================
