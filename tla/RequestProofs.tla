---------------------------- MODULE RequestProofs ----------------------------
(***************************************************************************)
(* Whatever the sources are and however requests meet there, each is       *)
(* answered once, with what it asked for.  In the second part, on          *)
(* Directory: whatever files are configured, the answers to the kernel     *)
(* and the listings it gets are theirs.                                    *)
(***************************************************************************)
EXTENDS Request, Directory, FiniteSetTheorems, SequenceTheorems, WellFoundedInduction, TLAPS

-----------------------------------------------------------------------------
(* Blocks *)

LEMMA BlockOf ==
  ASSUME NEW u \in Nat, NEW n \in Nat \ {0}
  PROVE  /\ u \div n \in Nat /\ n * (u \div n) \in Nat
         /\ n * (u \div n) <= u /\ u < n * (u \div n) + n
OBVIOUS

LEMMA BlocksInOrder ==
  ASSUME NEW u \in Nat, NEW v \in Nat, NEW n \in Nat \ {0}, u <= v
  PROVE  n * (u \div n) <= n * (v \div n)
<1> DEFINE i == u \div n  j == v \div n
<1>1. i \in Nat /\ j \in Nat /\ n * i <= u /\ v < n * j + n /\ n * i \in Nat /\ n * j \in Nat
  BY BlockOf
<1> HIDE DEF i, j
<1>2. n * i < n * j + n
  BY <1>1
<1>3. i < j + 1
  <2>1. ASSUME i >= j + 1 PROVE n * i >= n * j + n
    BY <1>1, <2>1
  <2> QED BY <1>1, <1>2, <2>1
<1>4. i <= j
  BY <1>1, <1>3
<1>5. n * i <= n * j
  BY <1>1, <1>4
<1> QED BY <1>5 DEF i, j

LEMMA StartsABlock ==
  ASSUME NEW b \in Nat, NEW n \in Nat \ {0}
  PROVE  n * b \in Nat /\ (n * b) \div n = b
OBVIOUS

\* The beginning of a block
Begins(x, n) == x = n * (x \div n)

LEMMA ExpandCovers ==
  ASSUME NEW S \in SUBSET Nat, NEW n \in Nat \ {0}
  PROVE  /\ S \subseteq Expand(S, n) /\ Expand(S, n) \subseteq Nat
         /\ BlocksOf(S, n) \subseteq Nat
<1>1. BlocksOf(S, n) \subseteq Nat
  BY BlockOf DEF BlocksOf
<1>2. ASSUME NEW u \in S PROVE u \in Expand(S, n)
  <2>1. u \in Block(n, u \div n)
    BY BlockOf DEF Block
  <2> QED BY <2>1 DEF Expand, BlocksOf
<1>3. ASSUME NEW b \in Nat PROVE Block(n, b) \subseteq Nat
  BY StartsABlock DEF Block
<1> QED BY <1>1, <1>2, <1>3 DEF Expand

\* A gap of a range of whole blocks begins with one.
LEMMA GapsBegin ==
  ASSUME NEW S \in SUBSET Nat, NEW n \in Nat \ {0}, NEW g \in Gaps(Expand(S, n))
  PROVE  /\ g \in Nat \X Nat /\ g[1] <= g[2] /\ Begins(g[1], n)
<1>1. /\ g \in Expand(S, n) \X Expand(S, n) /\ g[1] <= g[2] /\ g[1] - 1 \notin Expand(S, n)
  BY DEF Gaps
<1>2. g[1] \in Nat /\ g[2] \in Nat
  BY <1>1, ExpandCovers
<1>3. PICK b \in BlocksOf(S, n) : g[1] \in Block(n, b)
  BY <1>1 DEF Expand
<1>4. b \in Nat /\ n * b \in Nat /\ (n * b) \div n = b
  BY ExpandCovers, StartsABlock
<1>5. g[1] >= n * b /\ g[1] <= n * b + n - 1
  BY <1>2, <1>3, <1>4 DEF Block
<1>6. g[1] > n * b => g[1] - 1 \in Block(n, b)
  BY <1>2, <1>4, <1>5 DEF Block
<1>7. g[1] = n * b
  BY <1>1, <1>2, <1>4, <1>5, <1>6 DEF Expand
<1> QED BY <1>1, <1>2, <1>4, <1>7 DEF Begins

-----------------------------------------------------------------------------
(* Types *)

\* Chunks, jobs and blocks; that they end where the model does is left open.
Pieces == [from : Nat, len : Nat, eof : BOOLEAN, origin : Sources, quality : Quality]
Questions == [rq : Requests, src : Sources, gap : (Nat \X Nat) \cup {<<>>}]
Copies == [block : Nat, quality : Quality]

\* What a server is asked for is a gap that begins with a block.
Asked(j) == Kind[j.src] = "http" => /\ j.gap \in Nat \X Nat /\ j.gap[1] <= j.gap[2]
                                    /\ Begins(j.gap[1], BlockSize[j.src])

\* Every variable but the counts of references
Types ==
  /\ stage \in [Requests -> {"new", "running", "over"}]
  /\ src \in [Requests -> Sources \cup {0}]
  /\ desired \in [Requests -> SUBSET Nat]
  /\ out \in [Requests -> [Units -> {"unset"} \cup Quality]]
  /\ chunks \in [Requests -> SUBSET Pieces]
  /\ failed \in [Requests -> BOOLEAN]
  /\ replies \in [Requests -> Seq({"ok", "error"})]
  /\ jobs \subseteq Questions /\ (\A j \in jobs : Asked(j))
  /\ subFailed \in [Requests -> BOOLEAN]
  /\ turn \in Turns
  /\ cache \in [Sources -> SUBSET Copies]

LEMMA Constants ==
  /\ FileLen \in Nat /\ NSources \in Nat /\ Sources \subseteq Nat \ {0} /\ Units \subseteq Nat
  /\ \A s \in Sources : BlockSize[s] \in Nat \ {0} /\ Target[s] \in Sources \cup {0}
  /\ \A r \in Requests : Want[r] \subseteq Units
  /\ None \notin Requests
BY RequestAssumption DEF Sources, Units

LEMMA FetchedChunk ==
  ASSUME NEW s \in Sources, NEW g \in Nat \X Nat, g[1] <= g[2]
  PROVE  /\ Fetched(s, g) \in Pieces /\ Fetched(s, g).from = g[1]
         /\ Fetched(s, g).quality = "good" /\ Fetched(s, g).origin = s
         /\ Fetched(s, g).eof => Fetched(s, g).from + Fetched(s, g).len >= FileLen
<1> DEFINE x == g[1]  y == g[2] + 1
           end == IF y <= FileLen THEN y ELSE IF x <= FileLen THEN FileLen ELSE x
           eof == IF Kind[s] = "http" THEN y >= FileLen ELSE y > FileLen
<1>1. x \in Nat /\ y \in Nat /\ x < y /\ FileLen \in Nat
  BY Constants
<1>2. end \in Nat /\ end - x \in Nat /\ (y >= FileLen => end >= FileLen) /\ x + (end - x) = end
  BY <1>1
<1>3. Fetched(s, g) = [from |-> x, len |-> end - x, origin |-> s, quality |-> "good", eof |-> eof]
  BY DEF Fetched
<1>4. eof \in BOOLEAN
  <2>1. (y >= FileLen) \in BOOLEAN /\ (y > FileLen) \in BOOLEAN
    BY <1>1
  <2> HIDE DEF y
  <2> QED BY <2>1, Zenon
<1>6. x = g[1]
  OBVIOUS
<1>5. eof => y >= FileLen
  <2> HIDE DEF x, y
  <2> QED BY <1>1
<1> HIDE DEF x, y, end, eof
<1> QED BY <1>1, <1>2, <1>3, <1>4, <1>5, <1>6 DEF Pieces, Quality

LEMMA CachedChunk ==
  ASSUME NEW t \in Sources, NEW h \in Copies
  PROVE  /\ CacheChunk(t, h) \in Pieces /\ CacheChunk(t, h).quality = h.quality
         /\ ~CacheChunk(t, h).eof
<1>1. BlockSize[t] \in Nat /\ h.block \in Nat /\ h.quality \in Quality
  BY Constants DEF Copies
<1>2. BlockSize[t] * h.block \in Nat
  BY <1>1
<1> QED BY <1>1, <1>2 DEF CacheChunk, Pieces

-----------------------------------------------------------------------------
(* What a source has found *)

\* Chunks that say where the file ends are right.
EndsRight(c) == c.eof => c.from + c.len >= FileLen

LEMMA FoundTypes ==
  ASSUME Types, NEW r \in Requests, NEW found \in SUBSET Pieces, NEW wide \in SUBSET Nat,
         Found(r, found, wide)
  PROVE  /\ desired' \in [Requests -> SUBSET Nat]
         /\ out' \in [Requests -> [Units -> {"unset"} \cup Quality]]
         /\ chunks' \in [Requests -> SUBSET Pieces]
<1>1. ASSUME NEW u, \E c \in found : u \in Span(c)
      PROVE  (CHOOSE c \in found : u \in Span(c)).quality \in Quality
  <2>1. (CHOOSE c \in found : u \in Span(c)) \in Pieces
    BY <1>1
  <2> QED BY <2>1 DEF Pieces
<1>2. out' \in [Requests -> [Units -> {"unset"} \cup Quality]]
  BY <1>1 DEF Found, Types
<1> QED BY <1>2 DEF Found, Types

\* What is missing of a request's units of the file, and of no other's, stays
\* desired.
Missing(r) == \A u \in Want[r] : u < FileLen /\ out[r][u] = "unset" => u \in desired[r]

LEMMA FoundMissing ==
  ASSUME Types, NEW r \in Requests, NEW found \in SUBSET Pieces, NEW wide \in SUBSET Nat,
         Found(r, found, wide), desired[r] \subseteq wide,
         \A c \in found : EndsRight(c)
  PROVE  /\ Missing(r) => Missing(r)'
         /\ \A q \in Requests : q # r => out'[q] = out[q] /\ desired'[q] = desired[q]
                                         /\ chunks'[q] = chunks[q]
<1>1. ASSUME Missing(r), NEW u \in Want[r], u < FileLen, out'[r][u] = "unset"
      PROVE  u \in desired'[r]
  <2>1. u \in Units /\ u \in Nat
    BY Constants
  <2>2. out'[r][u] = IF \E c \in found : u \in Span(c)
                     THEN (CHOOSE c \in found : u \in Span(c)).quality ELSE out[r][u]
    BY <2>1 DEF Found, Types
  <2>3. ~ \E c \in found : u \in Span(c)
    <3>1. SUFFICES ASSUME \E c \in found : u \in Span(c) PROVE FALSE
      OBVIOUS
    <3>2. (CHOOSE c \in found : u \in Span(c)) \in Pieces
      BY <3>1
    <3>3. (CHOOSE c \in found : u \in Span(c)).quality \in Quality
      BY <3>2 DEF Pieces
    <3> QED BY <3>1, <3>3, <2>2, <1>1 DEF Quality
  <2>4. u \in wide
    BY <1>1, <2>2, <2>3 DEF Missing
  <2>5. \A c \in found : c.eof => u < c.from + c.len
    <3>1. TAKE c \in found
    <3>2. c.from + c.len \in Nat
      BY DEF Pieces
    <3> QED BY <3>2, <2>1, <1>1, Constants DEF EndsRight
  <2>6. desired'[r] = {v \in wide : \A c \in found : /\ v \notin Span(c)
                                                     /\ c.eof => v < c.from + c.len}
    <3>1. desired' = [desired EXCEPT ![r] =
                        {v \in wide : \A c \in found : /\ v \notin Span(c)
                                                       /\ c.eof => v < c.from + c.len}]
      BY DEF Found
    <3> QED BY <3>1 DEF Types
  <2> QED BY <2>3, <2>4, <2>5, <2>6
<1> QED BY <1>1 DEF Missing, Found, Types

-----------------------------------------------------------------------------
(* Every step keeps the types *)

LEMMA FinishTypes ==
  ASSUME Types, NEW r \in Requests, Finish(r)
  PROVE  /\ stage' \in [Requests -> {"new", "running", "over"}]
         /\ src' \in [Requests -> Sources \cup {0}]
         /\ turn' \in Turns
BY DEF Finish, Yield, Types, Turns, NoTurn

LEMMA ReplyTypes ==
  ASSUME Types, NEW r \in Requests, NEW what \in {"ok", "error"}, Reply(r, what)
  PROVE  /\ replies' \in [Requests -> Seq({"ok", "error"})]
         /\ replies'[r] = Append(replies[r], what)
         /\ replies[r] = <<>> => Len(replies'[r]) = 1 /\ replies'[r] = <<what>>
         /\ \A q \in Requests : q # r => replies'[q] = replies[q]
<1>1. <<>> \in Seq({"ok", "error"}) /\ Len(<<>>) = 0
  BY EmptySeq
<1>2. Append(<<>>, what) = <<what>> /\ Len(<<what>>) = 1
  OBVIOUS
<1> QED BY <1>1, <1>2, AppendProperties DEF Reply, Types

LEMMA HitsAreCopies ==
  ASSUME Types, NEW t \in Sources, NEW wide, NEW H \in Hits(t, wide)
  PROVE  /\ H \subseteq cache[t] /\ H \subseteq Copies
         /\ {CacheChunk(t, h) : h \in H} \subseteq Pieces
<1>1. H \subseteq cache[t] /\ H \subseteq Copies
  BY DEF Hits, Types
<1> QED BY <1>1, CachedChunk

LEMMA StoredTypes ==
  ASSUME NEW t \in Sources, NEW c \in Pieces
  PROVE  Stored(t, c) \subseteq Copies
<1> DEFINE n == BlockSize[t]  end == c.from + c.len
<1>1. n \in Nat \ {0} /\ c.from \in Nat /\ c.len \in Nat /\ end \in Nat /\ c.quality \in Quality
  BY Constants DEF Pieces
<1>2. Span(c) \in SUBSET Nat
  BY <1>1 DEF Span
<1>3. BlocksWithin(Span(c), n) \subseteq Nat
  BY <1>1, <1>2, ExpandCovers DEF BlocksWithin
<1>4. end \div n \in Nat
  <2> HIDE DEF end, n
  <2> QED BY <1>1, BlockOf
<1>5. \A e \in Stored(t, c) :
        /\ e.block \in BlocksWithin(Span(c), n) \cup {end \div n}
        /\ e.quality \in {c.quality, "junk"}
        /\ e = [block |-> e.block, quality |-> e.quality]
  BY DEF Stored
<1> HIDE DEF end, n
<1> QED BY <1>1, <1>3, <1>4, <1>5 DEF Copies, Quality

LEMMA TypesKept == Types /\ [Next]_vars => Types'
<1> SUFFICES ASSUME Types, [Next]_vars PROVE Types'
  OBVIOUS
<1>1. ASSUME NEW r \in Requests, Arrive(r) PROVE Types'
  <2>1. Want[r] \subseteq Nat
    BY Constants
  <2>2. CASE Want[r] # {}
    <3>1. /\ stage' = [stage EXCEPT ![r] = "running"]
          /\ desired' = [desired EXCEPT ![r] = Want[r]]
          /\ turn' = [rq |-> r, step |-> "next", owes |-> "creator", from |-> 0]
          /\ UNCHANGED <<src, out, chunks, failed, replies, jobs, subFailed, cache>>
      BY <1>1, <2>2 DEF Arrive
    <3> QED BY <2>1, <3>1 DEF Types, Turns
  <2>3. CASE Want[r] = {}
    BY <1>1, <2>3, ReplyTypes DEF Arrive, Types
  <2> QED BY <2>2, <2>3
<1>2. CASE Unwind
  BY <1>2 DEF Unwind, Types, rqVars, Turns, NoTurn
<1>3. CASE Quit
  BY <1>3 DEF Quit, Types, rqVars
<1>4. ASSUME NEW r \in Requests, RunNext(r) PROVE Types'
  <2>1. CASE Fail(r)
    BY <2>1, FinishTypes, ReplyTypes DEF Fail, Types
  <2>2. CASE Fulfil(r)
    BY <2>2, ReplyTypes DEF Fulfil, Types, Turns
  <2>3. CASE Exhaust(r)
    BY <2>3, FinishTypes, ReplyTypes DEF Exhaust, Types
  <2>4. ASSUME NEW t \in Sources, Skip(r, t) PROVE Types'
    BY <2>4 DEF Skip, Types
  <2>5. ASSUME NEW t \in Sources, ReadCache(r, t) PROVE Types'
    <3>1. PICK H \in Hits(t, Expand(desired[r], BlockSize[t])) :
            Found(r, {CacheChunk(t, h) : h \in H}, Expand(desired[r], BlockSize[t]))
      BY <2>5 DEF ReadCache
    <3>2. Expand(desired[r], BlockSize[t]) \subseteq Nat
      <4>1. desired[r] \in SUBSET Nat /\ BlockSize[t] \in Nat \ {0}
        BY Constants DEF Types
      <4> QED BY <4>1, ExpandCovers
    <3>3. /\ desired' \in [Requests -> SUBSET Nat]
          /\ out' \in [Requests -> [Units -> {"unset"} \cup Quality]]
          /\ chunks' \in [Requests -> SUBSET Pieces]
      BY <3>1, <3>2, HitsAreCopies, FoundTypes
    <3> QED BY <2>5, <3>3 DEF ReadCache, Types
  <2>6. ASSUME NEW t \in Sources, ReadHttp(r, t) PROVE Types'
    <3>1. \A g \in Gaps(Expand(desired[r], BlockSize[t])) :
             /\ g \in Nat \X Nat /\ g[1] <= g[2] /\ Begins(g[1], BlockSize[t])
      BY GapsBegin, Constants DEF Types
    <3>2. jobs' \subseteq Questions /\ (\A j \in jobs' : Asked(j))
      BY <2>6, <3>1 DEF ReadHttp, Questions, Types, Asked
    <3>3. turn' \in Turns
      BY <2>6 DEF ReadHttp, Yield, Types, Turns, NoTurn
    <3> QED BY <2>6, <3>2, <3>3 DEF ReadHttp, Types
  <2>7. ASSUME NEW t \in Sources, ReadFile(r, t) PROVE Types'
    <3>1. turn' \in Turns
      BY <2>7 DEF ReadFile, Yield, Types, Turns, NoTurn
    <3> QED BY <2>7, <3>1 DEF ReadFile, Types, Questions, Asked
  <2> QED BY <1>4, <2>1, <2>2, <2>3, <2>4, <2>5, <2>6, <2>7 DEF RunNext
<1>5. ASSUME NEW r \in Requests, RunNextWrite(r) PROVE Types'
  <2>1. ASSUME NEW t \in Sources, WriteNext(r, t) PROVE Types'
    <3>1. chunks[r] # {} /\ Current(r) \in Pieces
      BY <2>1 DEF WriteNext, Current, Types
    <3>2. Stored(t, Current(r)) \subseteq Copies
      BY <3>1, StoredTypes
    <3>3. cache' \in [Sources -> SUBSET Copies]
      BY <2>1, <3>2 DEF WriteNext, Types
    <3> QED BY <2>1, <3>3 DEF WriteNext, Types
  <2>2. CASE FreeChunk(r)
    BY <2>2 DEF FreeChunk, Types
  <2>3. CASE WritesDone(r)
    BY <2>3, FinishTypes DEF WritesDone, Types
  <2> QED BY <1>5, <2>1, <2>2, <2>3 DEF RunNextWrite
<1>6. ASSUME NEW j \in jobs, AnswerHttp(j) PROVE Types'
  <2>1. j.rq \in Requests /\ j.src \in Sources /\ Asked(j) /\ jobs' \subseteq jobs
    BY <1>6 DEF Types, Questions, AnswerHttp
  <2>2. PICK ok \in BOOLEAN :
          /\ Found(j.rq, IF ok THEN {Fetched(j.src, j.gap)} ELSE {}, desired[j.rq])
          /\ subFailed' = [subFailed EXCEPT ![j.rq] = @ \/ ~ok]
    BY <1>6 DEF AnswerHttp
  <2>3. (IF ok THEN {Fetched(j.src, j.gap)} ELSE {}) \in SUBSET Pieces
    BY <1>6, <2>1, FetchedChunk DEF AnswerHttp, Asked
  <2>4. desired[j.rq] \in SUBSET Nat
    BY <2>1 DEF Types
  <2>5. /\ desired' \in [Requests -> SUBSET Nat]
        /\ out' \in [Requests -> [Units -> {"unset"} \cup Quality]]
        /\ chunks' \in [Requests -> SUBSET Pieces]
    BY <2>1, <2>2, <2>3, <2>4, FoundTypes
  <2>6. subFailed' \in [Requests -> BOOLEAN] /\ failed' \in [Requests -> BOOLEAN]
    BY <1>6, <2>1, <2>2 DEF AnswerHttp, Types
  <2>7. turn' \in Turns
    BY <1>6, <2>1 DEF AnswerHttp, Turns, NoTurn
  <2> QED BY <1>6, <2>1, <2>5, <2>6, <2>7 DEF AnswerHttp, Types
<1>7. ASSUME NEW j \in jobs, AnswerFile(j) PROVE Types'
  <2>1. j.rq \in Requests /\ j.src \in Sources /\ jobs' \subseteq jobs
    BY <1>7 DEF Types, Questions, AnswerFile
  <2>2. PICK G \in SUBSET Gaps(Expand(desired[j.rq], BlockSize[j.src])) :
          Found(j.rq, {Fetched(j.src, g) : g \in G}, desired[j.rq])
    BY <1>7 DEF AnswerFile
  <2>3. desired[j.rq] \in SUBSET Nat /\ BlockSize[j.src] \in Nat \ {0}
    BY <2>1, Constants DEF Types
  <2>4. {Fetched(j.src, g) : g \in G} \in SUBSET Pieces
    BY <2>1, <2>3, FetchedChunk, GapsBegin
  <2>5. /\ desired' \in [Requests -> SUBSET Nat]
        /\ out' \in [Requests -> [Units -> {"unset"} \cup Quality]]
        /\ chunks' \in [Requests -> SUBSET Pieces]
    BY <2>1, <2>2, <2>3, <2>4, FoundTypes
  <2>6. failed' \in [Requests -> BOOLEAN]
    BY <1>7, <2>1 DEF AnswerFile, Types
  <2>7. turn' \in Turns
    BY <1>7, <2>1 DEF AnswerFile, Turns
  <2> QED BY <1>7, <2>1, <2>5, <2>6, <2>7 DEF AnswerFile, Types
<1>8. ASSUME NEW s \in Sources, Evict(s) \/ Reflect(s) \/ Forgive(s) PROVE Types'
  <2>1. CASE Evict(s)
    BY <2>1 DEF Evict, Types, rqVars
  <2>2. CASE Reflect(s)
    <3>1. Target[s] \in Sources
      BY <2>2, Constants DEF Reflect
    <3> QED BY <2>2, <3>1 DEF Reflect, Types, rqVars
  <2>3. CASE Forgive(s)
    BY <2>3 DEF Forgive, Types, rqVars
  <2> QED BY <1>8, <2>1, <2>2, <2>3
<1>9. CASE UNCHANGED vars
  BY <1>9 DEF vars, rqVars, Types
<1> QED BY <1>1, <1>2, <1>3, <1>4, <1>5, <1>6, <1>7, <1>8, <1>9 DEF Next, Step, Main, Answer

-----------------------------------------------------------------------------
(* A request is in one hand *)

InHand(r) == turn.rq = r /\ turn.step \in {"next", "write"}

TurnOK == turn = NoTurn \/ (turn.rq \in Requests /\ turn.step # "idle")

\* A reply is sent on the way from reading to writing, or at the end.
Answered(r) ==
  /\ stage[r] = "new" => replies[r] = <<>>
  /\ stage[r] = "running" => replies[r] = IF Writing(r) THEN <<"ok">> ELSE <<>>
  /\ stage[r] = "over" => Len(replies[r]) = 1

\* The main thread works on a request that no source has.
Held(r) ==
  /\ InHand(r) => stage[r] = "running" /\ \A j \in jobs : j.rq # r
  /\ Writing(r) => ~failed[r] /\ desired[r] = {}

OneJob == \A j \in jobs : /\ Kind[j.src] \in {"http", "file"}
                          /\ Kind[j.src] = "file" => j.gap = <<>>

Hands == /\ TurnOK
         /\ \A r \in Requests : Answered(r) /\ Held(r)
         /\ OneJob
         /\ OneHandAtATime

LEMMA RequestOfJob == Types => \A j \in jobs : j \in Questions /\ j.rq \in Requests /\ j.src \in Sources
BY DEF Types, Questions

\* What OneHandAtATime and OneJob say of one job
InOneHand(j) ==
  /\ stage[j.rq] = "running" /\ src[j.rq] = j.src /\ ~failed[j.rq]
  /\ turn.rq = j.rq => turn.step = "unwind"
  /\ Kind[j.src] \in {"http", "file"} /\ (Kind[j.src] = "file" => j.gap = <<>>)

\* A step for r leaves the other requests in the hands they were in.
LEMMA OthersKept ==
  ASSUME Types, Types', Hands, NEW r \in Requests,
         turn = NoTurn \/ turn.rq = r, turn' = NoTurn \/ (turn'.rq = r /\ turn'.step # "idle"),
         \A q \in Requests : q # r => /\ stage'[q] = stage[q] /\ src'[q] = src[q]
                                      /\ failed'[q] = failed[q] /\ replies'[q] = replies[q],
         \A j \in jobs' : j.rq # r => j \in jobs,
         Answered(r)', Held(r)', \A j \in jobs' : j.rq = r => InOneHand(j)'
  PROVE  Hands'
<1>1. TurnOK'
  BY DEF TurnOK
<1>2. ASSUME NEW q \in Requests, q # r PROVE turn.rq # q /\ turn'.rq # q
  BY <1>2, Constants DEF NoTurn
<1>3. ASSUME NEW q \in Requests PROVE Answered(q)'
  BY <1>2 DEF Hands, Answered, Writing
<1>4. ASSUME NEW q \in Requests PROVE Held(q)'
  BY <1>2 DEF Hands, Held, InHand, Writing
<1>5. ASSUME NEW j \in jobs' PROVE InOneHand(j)'
  <2>1. j.rq \in Requests
    BY <1>5, RequestOfJob DEF Types, Questions
  <2>2. CASE j.rq # r
    BY <2>1, <2>2, <1>2 DEF Hands, OneJob, OneHandAtATime, InOneHand
  <2> QED BY <2>2
<1> QED BY <1>1, <1>3, <1>4, <1>5 DEF Hands, OneJob, OneHandAtATime, InOneHand

LEMMA FinishSteps ==
  ASSUME Types, NEW r \in Requests, Finish(r), turn.rq = r
  PROVE  /\ stage'[r] = "over" /\ (turn' = NoTurn \/ (turn'.rq = r /\ turn'.step = "unwind"))
         /\ \A q \in Requests : q # r => stage'[q] = stage[q] /\ src'[q] = src[q]
BY DEF Finish, Yield, Types, NoTurn, Turns

LEMMA HandsKept == Types /\ Types' /\ Hands /\ [Next]_vars => Hands'
<1> SUFFICES ASSUME Types, Types', Hands, [Next]_vars PROVE Hands'
  OBVIOUS
<1> USE RequestOfJob
<1>1. ASSUME NEW r \in Requests, Arrive(r) PROVE Hands'
  <2>1. stage[r] = "new" /\ turn = NoTurn /\ replies[r] = <<>> /\ UNCHANGED <<src, failed, jobs>>
    BY <1>1 DEF Arrive, Idle, Hands, Answered
  <2>2. \A j \in jobs : j.rq # r
    BY <2>1 DEF Hands, OneHandAtATime
  <2>3. CASE Want[r] # {}
    <3>1. /\ stage' = [stage EXCEPT ![r] = "running"] /\ replies' = replies
          /\ turn' = [rq |-> r, step |-> "next", owes |-> "creator", from |-> 0]
      BY <1>1, <2>3 DEF Arrive
    <3>2. Answered(r)' /\ Held(r)'
      BY <2>1, <2>2, <3>1 DEF Types, Answered, Held, InHand, Writing
    <3> QED BY <2>1, <2>2, <3>1, <3>2, OthersKept DEF Types
  <2>4. CASE Want[r] = {}
    <3>1. /\ stage' = [stage EXCEPT ![r] = "over"] /\ Reply(r, "ok") /\ turn' = turn
      BY <1>1, <2>4 DEF Arrive
    <3>2. Answered(r)' /\ Held(r)'
      BY <2>1, <3>1, ReplyTypes, Constants DEF Types, Answered, Held, InHand, Writing, NoTurn
    <3> QED BY <2>1, <2>2, <3>1, <3>2, ReplyTypes, OthersKept DEF Types
  <2> QED BY <2>3, <2>4
<1>2. CASE Unwind
  <2>1. /\ turn.step = "unwind" /\ turn' = NoTurn
        /\ UNCHANGED <<stage, src, desired, failed, replies, jobs>>
    BY <1>2 DEF Unwind, rqVars
  <2>2. PICK r \in Requests : turn.rq = r
    BY <2>1 DEF Hands, TurnOK, NoTurn
  <2>3. Answered(r)' /\ Held(r)'
    BY <2>1, <2>2, Constants DEF Hands, Answered, Held, InHand, Writing, NoTurn
  <2>4. \A j \in jobs' : j.rq = r => InOneHand(j)'
    BY <2>1, <2>2, Constants DEF Hands, OneJob, OneHandAtATime, InOneHand, NoTurn
  <2> QED BY <2>1, <2>2, <2>3, <2>4, OthersKept
<1>3. CASE UNCHANGED <<stage, src, desired, failed, replies, jobs, turn>>
  <2>1. \A r \in Requests : Answered(r)' /\ Held(r)'
    BY <1>3 DEF Hands, Answered, Held, InHand, Writing
  <2>2. TurnOK' /\ OneJob' /\ OneHandAtATime'
    BY <1>3 DEF Hands, TurnOK, OneJob, OneHandAtATime
  <2> QED BY <2>1, <2>2 DEF Hands
<1>4. ASSUME NEW r \in Requests, RunNext(r) PROVE Hands'
  <2>1. /\ turn.rq = r /\ turn.step = "next" /\ stage[r] = "running" /\ replies[r] = <<>>
        /\ \A j \in jobs : j.rq # r
    BY <1>4 DEF RunNext, Fail, Fulfil, Exhaust, Skip, ReadCache, ReadHttp, ReadFile, Asks,
                Wanting, Running, Hands, Answered, Held, InHand, Writing
  <2>2. CASE Fail(r) \/ Exhaust(r)
    <3>1. Finish(r) /\ Reply(r, "error") /\ UNCHANGED <<failed, jobs>>
      BY <2>2 DEF Fail, Exhaust
    <3>2. Answered(r)' /\ Held(r)'
      BY <2>1, <3>1, FinishSteps, ReplyTypes DEF Answered, Held, InHand, Writing, NoTurn
    <3> QED BY <2>1, <3>1, <3>2, FinishSteps, ReplyTypes, OthersKept
  <2>3. CASE Fulfil(r)
    <3>1. /\ Reply(r, "ok") /\ ~failed[r] /\ desired[r] = {} /\ turn' = [turn EXCEPT !.step = "write"]
          /\ src' = [src EXCEPT ![r] = 0] /\ UNCHANGED <<stage, desired, failed, jobs>>
      BY <2>3 DEF Fulfil
    <3>2. turn'.rq = r /\ turn'.step = "write"
      BY <2>1, <3>1 DEF Types, Turns
    <3>3. Answered(r)' /\ Held(r)'
      BY <2>1, <3>1, <3>2, ReplyTypes DEF Answered, Held, InHand, Writing
    <3> QED BY <2>1, <3>1, <3>2, <3>3, ReplyTypes, OthersKept DEF Types
  <2>4. ASSUME NEW t \in Sources, Skip(r, t) \/ ReadCache(r, t) PROVE Hands'
    <3>1. src' = [src EXCEPT ![r] = t] /\ UNCHANGED <<stage, failed, replies, jobs, turn>>
      BY <2>4 DEF Skip, ReadCache
    <3>2. Answered(r)' /\ Held(r)'
      BY <2>1, <3>1 DEF Hands, Answered, Held, InHand, Writing
    <3> QED BY <2>1, <3>1, <3>2, OthersKept DEF Types
  <2>5. ASSUME NEW t \in Sources, ReadHttp(r, t) \/ ReadFile(r, t) PROVE Hands'
    <3>1. /\ src' = [src EXCEPT ![r] = t] /\ ~failed[r] /\ Kind[t] \in {"http", "file"} /\ Yield
          /\ UNCHANGED <<stage, failed, replies>>
      BY <2>5 DEF ReadHttp, ReadFile, Asks, Wanting
    <3>2. turn' = NoTurn \/ (turn'.rq = r /\ turn'.step = "unwind")
      BY <2>1, <3>1 DEF Yield, Types, Turns
    <3>3. \A j \in jobs' : j \in jobs \/ (j.rq = r /\ j.src = t /\ (Kind[t] = "file" => j.gap = <<>>))
      BY <2>5 DEF ReadHttp, ReadFile
    <3>4. Answered(r)' /\ Held(r)'
      BY <2>1, <3>1, <3>2, Constants DEF Hands, Answered, Held, InHand, Writing, NoTurn
    <3>5. \A j \in jobs' : j.rq = r => InOneHand(j)'
      BY <2>1, <3>1, <3>2, <3>3, Constants DEF InOneHand, Types, NoTurn
    <3>6. \A j \in jobs' : j.rq # r => j \in jobs
      BY <3>3
    <3> QED BY <2>1, <3>1, <3>2, <3>4, <3>5, <3>6, OthersKept DEF Types
  <2> QED BY <1>4, <2>2, <2>3, <2>4, <2>5 DEF RunNext
<1>5. ASSUME NEW r \in Requests, RunNextWrite(r) PROVE Hands'
  <2>1. /\ turn.rq = r /\ turn.step = "write" /\ stage[r] = "running" /\ replies[r] = <<"ok">>
        /\ ~failed[r] /\ desired[r] = {} /\ \A j \in jobs : j.rq # r
    BY <1>5 DEF RunNextWrite, WriteNext, FreeChunk, WritesDone,
                Hands, Answered, Held, InHand, Writing
  <2>2. ASSUME NEW t \in Sources, WriteNext(r, t) PROVE Hands'
    <3>1. src' = [src EXCEPT ![r] = t] /\ UNCHANGED <<stage, failed, desired, replies, jobs, turn>>
      BY <2>2 DEF WriteNext
    <3>2. Answered(r)' /\ Held(r)'
      BY <2>1, <3>1 DEF Hands, Answered, Held, InHand, Writing
    <3> QED BY <2>1, <3>1, <3>2, OthersKept DEF Types
  <2>3. CASE FreeChunk(r)
    <3>1. src' = [src EXCEPT ![r] = 0] /\ UNCHANGED <<stage, failed, desired, replies, jobs, turn>>
      BY <2>3 DEF FreeChunk
    <3>2. Answered(r)' /\ Held(r)'
      BY <2>1, <3>1 DEF Hands, Answered, Held, InHand, Writing
    <3> QED BY <2>1, <3>1, <3>2, OthersKept DEF Types
  <2>4. CASE WritesDone(r)
    <3>1. Finish(r) /\ UNCHANGED <<failed, replies, jobs>>
      BY <2>4 DEF WritesDone
    <3>2. Answered(r)' /\ Held(r)'
      BY <2>1, <3>1, FinishSteps DEF Answered, Held, InHand, Writing, NoTurn
    <3> QED BY <2>1, <3>1, <3>2, FinishSteps, OthersKept
  <2> QED BY <1>5, <2>2, <2>3, <2>4 DEF RunNextWrite
<1>6. ASSUME NEW j \in jobs, AnswerHttp(j) PROVE Hands'
  <2> DEFINE r == j.rq  last == {k \in jobs : k.rq = r} = {j}
  <2>1. /\ turn = NoTurn /\ jobs' = jobs \ {j} /\ UNCHANGED <<stage, src, replies>>
        /\ turn' = IF last THEN [rq |-> r, step |-> "next", owes |-> "nothing", from |-> 0] ELSE NoTurn
        /\ \A q \in Requests : q # r => failed'[q] = failed[q]
        /\ ~last => ~failed'[r]
    BY <1>6 DEF AnswerHttp, Idle, Types
  <2>2. r \in Requests /\ stage[r] = "running" /\ replies[r] = <<>>
    BY <2>1, Constants DEF Hands, OneHandAtATime, Answered, Writing, NoTurn
  <2>3. last => \A k \in jobs' : k.rq # r
    BY <2>1
  <2> HIDE DEF last, r
  <2>4. Answered(r)' /\ Held(r)'
    BY <2>1, <2>2, <2>3, Constants DEF Answered, Held, InHand, Writing, NoTurn
  <2>5. \A k \in jobs' : k.rq = r => InOneHand(k)'
    BY <2>1, <2>2, <2>3, Constants DEF Hands, OneJob, OneHandAtATime, InOneHand, NoTurn
  <2> QED BY <2>1, <2>2, <2>4, <2>5, OthersKept
<1>7. ASSUME NEW j \in jobs, AnswerFile(j) PROVE Hands'
  <2> DEFINE r == j.rq
  <2>1. /\ turn = NoTurn /\ jobs' = jobs \ {j} /\ UNCHANGED <<stage, src, replies>>
        /\ turn' = [rq |-> r, step |-> "next", owes |-> "job", from |-> j.src]
        /\ \A q \in Requests : q # r => failed'[q] = failed[q]
        /\ Kind[j.src] = "file"
    BY <1>7 DEF AnswerFile, Idle, Types
  <2>2. r \in Requests /\ stage[r] = "running" /\ replies[r] = <<>>
    BY <2>1, Constants DEF Hands, OneHandAtATime, Answered, Writing, NoTurn
  <2>3. \A k \in jobs' : k.rq # r
    <3>1. ASSUME NEW k \in jobs, k.rq = r PROVE k = j
      <4>1. k.src = j.src /\ k.gap = <<>> /\ j.gap = <<>>
        BY <2>1, <3>1 DEF Hands, OneJob, OneHandAtATime
      <4> QED BY <3>1, <4>1 DEF Questions
    <3> QED BY <2>1, <3>1
  <2> HIDE DEF r
  <2>4. Answered(r)' /\ Held(r)'
    BY <2>1, <2>2, <2>3 DEF Answered, Held, InHand, Writing
  <2> QED BY <2>1, <2>2, <2>3, <2>4, OthersKept
<1>8. ASSUME \/ Quit \/ UNCHANGED vars
             \/ \E s \in Sources : Evict(s) \/ Reflect(s) \/ Forgive(s)
      PROVE  UNCHANGED <<stage, src, desired, failed, replies, jobs, turn>>
  BY <1>8 DEF Quit, Evict, Reflect, Forgive, rqVars, vars
<1> QED BY <1>1, <1>2, <1>3, <1>4, <1>5, <1>6, <1>7, <1>8 DEF Next, Step, Main, Answer

-----------------------------------------------------------------------------
(* What a reader is given *)

\* All units of the file that r wants have been copied to its reply.
AllFound(r) == \A u \in Want[r] : u < FileLen => out[r][u] # "unset"

Complete == \A r \in Requests : /\ stage[r] = "running" => Missing(r)
                                /\ replies[r] = <<"ok">> => AllFound(r)

\* A step for r leaves the replies to others as they were.
LEMMA OthersComplete ==
  ASSUME Complete, NEW r \in Requests,
         \A q \in Requests : q # r => /\ stage'[q] = stage[q] /\ replies'[q] = replies[q]
                                      /\ out'[q] = out[q] /\ desired'[q] = desired[q],
         stage'[r] = "running" => Missing(r)', replies'[r] = <<"ok">> => AllFound(r)'
  PROVE  Complete'
<1>1. ASSUME NEW q \in Requests, q # r
      PROVE  (stage'[q] = "running" => Missing(q)') /\ (replies'[q] = <<"ok">> => AllFound(q)')
  BY <1>1 DEF Complete, Missing, AllFound
<1> QED BY <1>1 DEF Complete

\* A step of r that leaves its reply and its desire alone, and is not its start.
LEMMA SameComplete ==
  ASSUME Complete, Types, NEW r \in Requests,
         \A q \in Requests : q # r => stage'[q] = stage[q] /\ replies'[q] = replies[q],
         UNCHANGED <<out, desired>>, stage'[r] = "running" => stage[r] = "running",
         replies'[r] = <<"ok">> => AllFound(r)
  PROVE  Complete'
<1>1. (stage'[r] = "running" => Missing(r)') /\ (replies'[r] = <<"ok">> => AllFound(r)')
  BY DEF Complete, Missing, AllFound
<1> QED BY <1>1, OthersComplete

\* What r finds before it is answered leaves its missing units desired.
LEMMA FoundComplete ==
  ASSUME Complete, Types, NEW r \in Requests, stage[r] = "running", replies[r] = <<>>,
         NEW found \in SUBSET Pieces, NEW wide \in SUBSET Nat,
         Found(r, found, wide), desired[r] \subseteq wide, \A c \in found : EndsRight(c),
         UNCHANGED <<stage, replies>>
  PROVE  Complete'
<1>1. Missing(r)'
  BY FoundMissing DEF Complete
<1>2. \A q \in Requests : q # r => out'[q] = out[q] /\ desired'[q] = desired[q]
  BY FoundMissing
<1>3. replies'[r] # <<"ok">>
  OBVIOUS
<1> QED BY <1>1, <1>2, <1>3, OthersComplete

LEMMA CompleteKept == Types /\ Hands /\ Complete /\ [Next]_vars => Complete'
<1> SUFFICES ASSUME Types, Hands, Complete, [Next]_vars PROVE Complete'
  OBVIOUS
<1>1. ASSUME NEW r \in Requests, Arrive(r) PROVE Complete'
  <2>1. stage[r] = "new" /\ replies[r] = <<>> /\ UNCHANGED out
    BY <1>1 DEF Arrive, Hands, Answered
  <2>2. CASE Want[r] # {}
    <3>1. /\ stage' = [stage EXCEPT ![r] = "running"] /\ replies' = replies
          /\ desired' = [desired EXCEPT ![r] = Want[r]]
      BY <1>1, <2>2 DEF Arrive
    <3>2. Missing(r)' /\ replies'[r] # <<"ok">>
      BY <2>1, <3>1 DEF Missing, Types
    <3> QED BY <2>1, <3>1, <3>2, OthersComplete DEF Types
  <2>3. CASE Want[r] = {}
    <3>1. stage' = [stage EXCEPT ![r] = "over"] /\ Reply(r, "ok") /\ UNCHANGED desired
      BY <1>1, <2>3 DEF Arrive
    <3> QED BY <2>1, <2>3, <3>1, ReplyTypes, SameComplete DEF Types, AllFound
  <2> QED BY <2>2, <2>3
<1>2. CASE UNCHANGED <<stage, replies, out, desired>>
  BY <1>2 DEF Complete, Missing, AllFound
<1>3. ASSUME NEW r \in Requests, RunNext(r) PROVE Complete'
  <2>1. turn.rq = r /\ turn.step = "next" /\ stage[r] = "running" /\ replies[r] = <<>>
    BY <1>3 DEF RunNext, Fail, Fulfil, Exhaust, Skip, ReadCache, ReadHttp, ReadFile, Asks,
                Wanting, Running, Hands, Answered, Held, InHand, Writing
  <2>2. CASE Fail(r) \/ Exhaust(r)
    <3>1. Finish(r) /\ Reply(r, "error") /\ UNCHANGED <<out, desired>>
      BY <2>2 DEF Fail, Exhaust
    <3>2. replies'[r] = <<"error">> /\ <<"error">> # <<"ok">>
      BY <2>1, <3>1, ReplyTypes
    <3> QED BY <2>1, <3>1, <3>2, FinishSteps, ReplyTypes, SameComplete
  <2>3. CASE Fulfil(r)
    <3>1. Reply(r, "ok") /\ desired[r] = {} /\ UNCHANGED <<stage, out, desired>>
      BY <2>3 DEF Fulfil
    <3>2. AllFound(r)
      BY <2>1, <3>1 DEF Complete, Missing, AllFound
    <3> QED BY <3>1, <3>2, ReplyTypes, SameComplete
  <2>4. ASSUME NEW t \in Sources, ReadCache(r, t) PROVE Complete'
    <3>1. PICK H \in Hits(t, Expand(desired[r], BlockSize[t])) :
            Found(r, {CacheChunk(t, h) : h \in H}, Expand(desired[r], BlockSize[t]))
      BY <2>4 DEF ReadCache
    <3>2. desired[r] \in SUBSET Nat /\ BlockSize[t] \in Nat \ {0}
      BY Constants DEF Types
    <3>3. \A c \in {CacheChunk(t, h) : h \in H} : c \in Pieces /\ EndsRight(c)
      BY HitsAreCopies, CachedChunk DEF EndsRight
    <3>4. stage' = stage /\ replies' = replies
      BY <2>4 DEF ReadCache
    <3>5. /\ desired[r] \subseteq Expand(desired[r], BlockSize[t])
          /\ Expand(desired[r], BlockSize[t]) \in SUBSET Nat
      BY <3>2, ExpandCovers
    <3>6. {CacheChunk(t, h) : h \in H} \in SUBSET Pieces
      BY <3>3
    <3> QED BY <2>1, <3>1, <3>3, <3>4, <3>5, <3>6, FoundComplete
  <2>5. ASSUME NEW t \in Sources, Skip(r, t) \/ ReadHttp(r, t) \/ ReadFile(r, t) PROVE Complete'
    BY <1>2, <2>5 DEF Skip, ReadHttp, ReadFile
  <2> QED BY <1>3, <2>2, <2>3, <2>4, <2>5 DEF RunNext
<1>4. ASSUME NEW r \in Requests, RunNextWrite(r) PROVE Complete'
  <2>1. CASE WritesDone(r)
    <3>1. Finish(r) /\ turn.rq = r /\ UNCHANGED <<out, desired, replies>>
      BY <2>1 DEF WritesDone, Writing
    <3>2. replies'[r] = <<"ok">> => AllFound(r)
      BY <3>1 DEF Complete
    <3> QED BY <3>1, <3>2, FinishSteps, SameComplete
  <2>2. CASE FreeChunk(r) \/ \E t \in Sources : WriteNext(r, t)
    BY <1>2, <2>2 DEF FreeChunk, WriteNext
  <2> QED BY <1>4, <2>1, <2>2 DEF RunNextWrite
<1>5. ASSUME NEW j \in jobs, AnswerHttp(j) \/ AnswerFile(j) PROVE Complete'
  <2> DEFINE r == j.rq
  <2>1. /\ r \in Requests /\ j.src \in Sources /\ stage[r] = "running" /\ replies[r] = <<>>
        /\ Asked(j) /\ UNCHANGED <<stage, replies>> /\ desired[r] \in SUBSET Nat
    <3>1. r \in Requests /\ j.src \in Sources /\ stage[r] = "running" /\ turn = NoTurn /\ Asked(j)
      BY <1>5, RequestOfJob DEF AnswerHttp, AnswerFile, Idle, Hands, OneHandAtATime, Types
    <3>2. replies[r] = <<>>
      BY <3>1, Constants DEF Hands, Answered, Writing, NoTurn
    <3> QED BY <1>5, <3>1, <3>2 DEF AnswerHttp, AnswerFile, Types
  <2>2. CASE AnswerHttp(j)
    <3>1. PICK found \in {{}, {Fetched(j.src, j.gap)}} : Found(r, found, desired[r])
      BY <2>2 DEF AnswerHttp
    <3>2. \A c \in found : c \in Pieces /\ EndsRight(c)
      BY <2>1, <2>2, <3>1, FetchedChunk DEF AnswerHttp, Asked, EndsRight
    <3> HIDE DEF r
    <3> QED BY <2>1, <3>1, <3>2, FoundComplete
  <2>3. CASE AnswerFile(j)
    <3>1. PICK G \in SUBSET Gaps(Expand(desired[r], BlockSize[j.src])) :
            Found(r, {Fetched(j.src, g) : g \in G}, desired[r])
      BY <2>3 DEF AnswerFile
    <3>2. \A g \in G : g \in Nat \X Nat /\ g[1] <= g[2]
      BY <2>1, GapsBegin, Constants
    <3>3. \A c \in {Fetched(j.src, g) : g \in G} : c \in Pieces /\ EndsRight(c)
      BY <2>1, <3>2, FetchedChunk DEF EndsRight
    <3> HIDE DEF r
    <3> QED BY <2>1, <3>1, <3>3, FoundComplete
  <2> QED BY <1>5, <2>2, <2>3
<1>6. ASSUME \/ Unwind \/ Quit \/ UNCHANGED vars
             \/ \E s \in Sources : Evict(s) \/ Reflect(s) \/ Forgive(s)
      PROVE  UNCHANGED <<stage, replies, out, desired>>
  BY <1>6 DEF Unwind, Quit, Evict, Reflect, Forgive, rqVars, vars
<1> QED BY <1>1, <1>2, <1>3, <1>4, <1>5, <1>6 DEF Next, Step, Main, Answer

-----------------------------------------------------------------------------
(* Nothing is corrupt where all blocks have one size *)

SameBlocks == \A s, t \in Sources : BlockSize[s] = BlockSize[t]

\* A chunk that ends the file begins with a block, of any source.
GoodPiece(c) == /\ c.quality = "good"
                /\ c.eof => \A t \in Sources : Begins(c.from, BlockSize[t])

Good ==
  /\ \A s \in Sources : \A h \in cache[s] : h.quality = "good"
  /\ \A r \in Requests : /\ \A c \in chunks[r] : GoodPiece(c)
                         /\ \A u \in Units : out[r][u] \in {"unset", "good"}

LEMMA StoredGood ==
  ASSUME NEW t \in Sources, NEW c \in Pieces, GoodPiece(c)
  PROVE  \A h \in Stored(t, c) : h.quality = "good"
<1> DEFINE n == BlockSize[t]  end == c.from + c.len
<1>1. n \in Nat \ {0} /\ c.from \in Nat /\ end \in Nat /\ c.from <= end
  BY Constants DEF Pieces
<1>2. c.eof => n * (end \div n) >= c.from
  <2>1. n * (c.from \div n) <= n * (end \div n)
    <3> HIDE DEF end, n
    <3> QED BY <1>1, BlocksInOrder
  <2>2. c.eof => c.from = n * (c.from \div n)
    BY DEF GoodPiece, Begins
  <2> QED BY <2>1, <2>2
<1>3. \A h \in Stored(t, c) : \/ h.quality = c.quality
                              \/ c.eof /\ ~(n * (end \div n) >= c.from)
  BY DEF Stored
<1> HIDE DEF end, n
<1> QED BY <1>2, <1>3 DEF GoodPiece

LEMMA FoundGood ==
  ASSUME Types, Good, NEW r \in Requests, NEW found \in SUBSET Pieces, NEW wide,
         Found(r, found, wide), \A c \in found : GoodPiece(c), UNCHANGED cache
  PROVE  Good'
<1>1. ASSUME NEW u, \E c \in found : u \in Span(c)
      PROVE  (CHOOSE c \in found : u \in Span(c)).quality = "good"
  <2>1. (CHOOSE c \in found : u \in Span(c)) \in found
    BY <1>1
  <2> QED BY <2>1 DEF GoodPiece
<1>2. ASSUME NEW q \in Requests, NEW u \in Units PROVE out'[q][u] \in {"unset", "good"}
  BY <1>1 DEF Found, Types, Good
<1>3. ASSUME NEW q \in Requests, NEW c \in chunks'[q] PROVE GoodPiece(c)
  BY <1>3 DEF Found, Types, Good
<1> QED BY <1>2, <1>3 DEF Good, GoodPiece

\* A gap at whose beginning a block begins is a good chunk of any server or
\* file system.
LEMMA FetchedGood ==
  ASSUME SameBlocks, NEW s \in Sources, NEW g \in Nat \X Nat, g[1] <= g[2],
         Begins(g[1], BlockSize[s])
  PROVE  Fetched(s, g) \in Pieces /\ GoodPiece(Fetched(s, g))
<1>1. \A t \in Sources : Begins(g[1], BlockSize[t])
  BY DEF SameBlocks
<1> QED BY <1>1, FetchedChunk DEF GoodPiece

LEMMA GoodKept == SameBlocks /\ Types /\ Good /\ [Next]_vars => Good'
<1> SUFFICES ASSUME SameBlocks, Types, Good, [Next]_vars PROVE Good'
  OBVIOUS
<1>1. CASE UNCHANGED <<cache, chunks, out>>
  BY <1>1 DEF Good, GoodPiece
<1>2. ASSUME NEW r \in Requests, RunNext(r) PROVE Good'
  <2>1. ASSUME NEW t \in Sources, ReadCache(r, t) PROVE Good'
    <3>1. PICK H \in Hits(t, Expand(desired[r], BlockSize[t])) :
            Found(r, {CacheChunk(t, h) : h \in H}, Expand(desired[r], BlockSize[t]))
      BY <2>1 DEF ReadCache
    <3>2. \A c \in {CacheChunk(t, h) : h \in H} : c \in Pieces /\ GoodPiece(c)
      BY HitsAreCopies, CachedChunk DEF GoodPiece, Good
    <3>3. cache' = cache
      BY <2>1 DEF ReadCache
    <3> QED BY <3>1, <3>2, <3>3, FoundGood
  <2>2. CASE ~ \E t \in Sources : ReadCache(r, t)
    BY <1>1, <1>2, <2>2 DEF RunNext, Fail, Fulfil, Exhaust, Skip, ReadHttp, ReadFile
  <2> QED BY <2>1, <2>2
<1>3. ASSUME NEW r \in Requests, RunNextWrite(r) PROVE Good'
  <2>1. ASSUME NEW t \in Sources, WriteNext(r, t) PROVE Good'
    <3>1. chunks[r] # {} /\ cache' \in {cache, [cache EXCEPT ![t] = @ \cup Stored(t, Current(r))]}
      BY <2>1 DEF WriteNext
    <3>2. Current(r) \in chunks[r]
      BY <3>1 DEF Current
    <3>3. Current(r) \in Pieces /\ GoodPiece(Current(r))
      BY <3>2 DEF Types, Good
    <3>4. \A h \in Stored(t, Current(r)) : h.quality = "good"
      BY <3>3, StoredGood
    <3>5. \A s \in Sources : \A h \in cache'[s] : h.quality = "good"
      BY <3>1, <3>4 DEF Types, Good
    <3> QED BY <2>1, <3>5 DEF WriteNext, Good, GoodPiece
  <2>2. CASE FreeChunk(r)
    <3>1. /\ UNCHANGED <<cache, out>>
          /\ \A q \in Requests : chunks'[q] \subseteq chunks[q]
      BY <2>2 DEF FreeChunk, Types
    <3> QED BY <3>1 DEF Good, GoodPiece
  <2>3. CASE WritesDone(r)
    BY <1>1, <2>3 DEF WritesDone
  <2> QED BY <1>3, <2>1, <2>2, <2>3 DEF RunNextWrite
<1>4. ASSUME NEW j \in jobs, AnswerHttp(j) PROVE Good'
  <2>1. j.rq \in Requests /\ j.src \in Sources /\ Asked(j) /\ Kind[j.src] = "http" /\ cache' = cache
    BY <1>4, RequestOfJob DEF AnswerHttp, Types
  <2>2. PICK found \in {{}, {Fetched(j.src, j.gap)}} : Found(j.rq, found, desired[j.rq])
    BY <1>4 DEF AnswerHttp
  <2>3. \A c \in found : c \in Pieces /\ GoodPiece(c)
    BY <2>1, <2>2, FetchedGood DEF Asked
  <2> QED BY <2>1, <2>2, <2>3, FoundGood
<1>5. ASSUME NEW j \in jobs, AnswerFile(j) PROVE Good'
  <2>1. j.rq \in Requests /\ j.src \in Sources /\ desired[j.rq] \in SUBSET Nat /\ cache' = cache
    BY <1>5, RequestOfJob DEF AnswerFile, Types
  <2>2. PICK G \in SUBSET Gaps(Expand(desired[j.rq], BlockSize[j.src])) :
          Found(j.rq, {Fetched(j.src, g) : g \in G}, desired[j.rq])
    BY <1>5 DEF AnswerFile
  <2>3. \A g \in G : g \in Nat \X Nat /\ g[1] <= g[2] /\ Begins(g[1], BlockSize[j.src])
    BY <2>1, GapsBegin, Constants
  <2>4. \A c \in {Fetched(j.src, g) : g \in G} : c \in Pieces /\ GoodPiece(c)
    BY <2>1, <2>3, FetchedGood
  <2> QED BY <2>1, <2>2, <2>4, FoundGood
<1>6. ASSUME NEW s \in Sources, Evict(s) \/ Reflect(s) PROVE Good'
  <2>1. CASE Evict(s)
    <3>1. \A t \in Sources : cache'[t] \subseteq cache[t]
      BY <2>1 DEF Evict, Types
    <3>2. chunks' = chunks /\ out' = out
      BY <2>1 DEF Evict, rqVars
    <3> QED BY <3>1, <3>2 DEF Good, GoodPiece
  <2>2. CASE Reflect(s)
    <3>1. Target[s] \in Sources /\ chunks' = chunks /\ out' = out
      BY <2>2, Constants DEF Reflect, rqVars
    <3>2. \A t \in Sources : cache'[t] \subseteq cache[t] \cup cache[s]
      BY <2>2, <3>1 DEF Reflect, Types
    <3> QED BY <3>1, <3>2 DEF Good, GoodPiece
  <2> QED BY <1>6, <2>1, <2>2
<1>7. ASSUME \/ Unwind \/ Quit \/ UNCHANGED vars
             \/ (\E r \in Requests : Arrive(r)) \/ (\E s \in Sources : Forgive(s))
      PROVE  UNCHANGED <<cache, chunks, out>>
  BY <1>7 DEF Unwind, Quit, Arrive, Forgive, rqVars, vars
<1> QED BY <1>1, <1>2, <1>3, <1>4, <1>5, <1>6, <1>7 DEF Next, Step, Main, Answer

-----------------------------------------------------------------------------
(* References to requests *)

LEMMA ExpandStays ==
  ASSUME NEW S \in SUBSET Units, NEW s \in Sources
  PROVE  Expand(S, BlockSize[s]) \subseteq Units
<1> DEFINE n == BlockSize[s]  k == (Top + 1) \div n
<1>1. n \in Nat \ {0} /\ Top \in Nat /\ Top + 1 \in Nat /\ (Top + 1) % n = 0
  BY RequestAssumption, LayoutAssumption
<1> HIDE DEF n
<1>2. k \in Nat /\ n * k = Top + 1
  BY <1>1
<1> HIDE DEF k
<1>3. ASSUME NEW v \in S PROVE Block(n, v \div n) \subseteq Units
  <2> DEFINE b == v \div n
  <2>1. v \in Nat /\ v <= Top
    BY Constants DEF Units
  <2>2. b \in Nat /\ n * b \in Nat /\ n * b <= v
    BY <1>1, <2>1, BlockOf
  <2> HIDE DEF b
  <2>3. n * b < n * k
    BY <1>1, <1>2, <2>1, <2>2
  <2>4. b < k
    <3>1. b >= k => n * b >= n * k
      BY <1>1, <1>2, <2>2
    <3>2. n * k \in Nat
      BY <1>1, <1>2
    <3> QED BY <1>2, <2>2, <2>3, <3>1, <3>2
  <2>5. n * b + n <= n * k
    <3>1. k = (b + 1) + (k - b - 1) /\ k - b - 1 \in Nat
      BY <1>2, <2>2, <2>4
    <3>2. n * k >= n * (b + 1)
      BY <1>1, <1>2, <2>2, <2>4
    <3> QED BY <1>1, <1>2, <2>2, <3>2
  <2>6. n * b + n - 1 <= Top
    BY <1>1, <1>2, <2>2, <2>5
  <2>7. Block(n, b) \subseteq Units
    BY <1>1, <2>2, <2>6 DEF Block, Units
  <2> QED BY <2>7 DEF b
<1> QED BY <1>3 DEF Expand, BlocksOf, n

LEMMA GapsAreFew ==
  ASSUME NEW S \in SUBSET Units
  PROVE  IsFiniteSet(Gaps(S))
<1>1. IsFiniteSet(Units)
  BY RequestAssumption, FS_Interval DEF Units
<1>2. IsFiniteSet(S \X S)
  BY <1>1, FS_Subset, FS_Product
<1> QED BY <1>2, FS_Subset DEF Gaps

\* What is asked for stays within what blocks there are.
Inside == \A r \in Requests : desired[r] \subseteq Units

JobsFor(r) == {j \in jobs : j.rq = r}

One(b) == IF b THEN 1 ELSE 0

Balanced(r) == rqRef[r] = One(stage[r] = "running") + Cardinality(JobsFor(r))
                        + One(turn.rq = r /\ turn.owes # "nothing")

\* A handler on its way out has something to give up.
Owing == turn.step = "unwind" => turn.owes # "nothing"

Counted == /\ rqRef \in [Requests -> Int]
           /\ IsFiniteSet(jobs) /\ Inside /\ Owing
           /\ \A r \in Requests : Balanced(r)

LEMMA InsideKept == Types /\ Inside /\ [Next]_vars => Inside'
<1> SUFFICES ASSUME Types, Inside, [Next]_vars PROVE Inside'
  OBVIOUS
<1>1. ASSUME NEW r \in Requests, NEW found, NEW wide \in SUBSET Units, Found(r, found, wide)
      PROVE  Inside'
  BY <1>1 DEF Found, Types, Inside
<1>2. ASSUME NEW r \in Requests, Arrive(r) PROVE Inside'
  BY <1>2, Constants DEF Arrive, Types, Inside
<1>3. ASSUME NEW r \in Requests, NEW t \in Sources, ReadCache(r, t) PROVE Inside'
  BY <1>1, <1>3, ExpandStays DEF ReadCache, Inside
<1>4. ASSUME NEW j \in jobs, AnswerHttp(j) \/ AnswerFile(j) PROVE Inside'
  <2>1. j.rq \in Requests /\ desired[j.rq] \in SUBSET Units
    BY RequestOfJob DEF Inside
  <2>2. \E found : Found(j.rq, found, desired[j.rq])
    BY <1>4 DEF AnswerHttp, AnswerFile
  <2> QED BY <1>1, <2>1, <2>2
<1>5. CASE UNCHANGED desired
  BY <1>5 DEF Inside
<1> QED BY <1>2, <1>3, <1>4, <1>5 DEF Next, Step, Main, Answer, Unwind, Quit, Evict, Reflect, Forgive,
          RunNext, RunNextWrite, Fail, Fulfil, Exhaust, Skip, ReadHttp, ReadFile,
          WriteNext, FreeChunk, WritesDone, rqVars, vars

\* A step for r, in its turn or in nobody's, counts for r alone.
LEMMA OthersCounted ==
  ASSUME Types, Types', Counted, NEW r \in Requests,
         turn = NoTurn \/ turn.rq = r, turn' = NoTurn \/ turn'.rq = r,
         \A q \in Requests : q # r => stage'[q] = stage[q] /\ rqRef'[q] = rqRef[q],
         \A j \in Questions : j.rq # r => (j \in jobs' <=> j \in jobs),
         rqRef' \in [Requests -> Int], IsFiniteSet(jobs'), Inside', Owing', Balanced(r)'
  PROVE  Counted'
<1>1. ASSUME NEW q \in Requests, q # r PROVE Balanced(q)'
  <2>1. JobsFor(q)' = JobsFor(q)
    BY <1>1 DEF JobsFor, Types
  <2>2. turn.rq # q /\ turn'.rq # q
    BY <1>1, Constants DEF NoTurn
  <2>3. Balanced(q)
    BY DEF Counted
  <2> QED BY <1>1, <2>1, <2>2, <2>3 DEF Balanced, One
<1> QED BY <1>1 DEF Counted

\* A read adds a reference for each answer it will have.
LEMMA AskedOf ==
  ASSUME Types, Inside, NEW r \in Requests, NEW t \in Sources, ReadHttp(r, t) \/ ReadFile(r, t)
  PROVE  \E J : /\ jobs' = jobs \cup J /\ IsFiniteSet(J) /\ \A j \in J : j.rq = r
                /\ rqRef' = [rqRef EXCEPT ![r] = @ + Cardinality(J)]
<1>1. CASE ReadFile(r, t)
  <2> DEFINE j == [rq |-> r, src |-> t, gap |-> <<>>]
  <2>1. IsFiniteSet({j}) /\ Cardinality({j}) = 1
    BY FS_Singleton
  <2>2. jobs' = jobs \cup {j} /\ rqRef' = [rqRef EXCEPT ![r] = @ + 1] /\ j.rq = r
    BY <1>1 DEF ReadFile
  <2> HIDE DEF j
  <2> QED BY <2>1, <2>2
<1>2. CASE ReadHttp(r, t)
  <2> DEFINE gaps == Gaps(Expand(desired[r], BlockSize[t]))
             J == {[rq |-> r, src |-> t, gap |-> g] : g \in gaps}
             f == [g \in gaps |-> [rq |-> r, src |-> t, gap |-> g]]
  <2>1. IsFiniteSet(gaps)
    BY ExpandStays, GapsAreFew DEF Inside
  <2>2. f \in Bijection(gaps, J)
    BY DEF Bijection, Injection, Surjection, IsInjective
  <2>3. IsFiniteSet(J) /\ Cardinality(J) = Cardinality(gaps)
    <3> HIDE DEF gaps, J, f
    <3> QED BY <2>1, <2>2, FS_Bijection DEF ExistsBijection
  <2>4. /\ jobs' = jobs \cup J /\ rqRef' = [rqRef EXCEPT ![r] = @ + Cardinality(gaps)]
        /\ \A j \in J : j.rq = r
    BY <1>2 DEF ReadHttp
  <2> HIDE DEF gaps, J
  <2> QED BY <2>3, <2>4
<1> QED BY <1>1, <1>2

LEMMA CountedKept ==
  Types /\ Types' /\ Hands /\ Hands' /\ Counted /\ [Next]_vars => Counted'
<1> SUFFICES ASSUME Types, Types', Hands, Hands', Counted, [Next]_vars PROVE Counted'
  OBVIOUS
<1> USE RequestOfJob
<1>0. Inside'
  BY InsideKept DEF Counted
<1>1. ASSUME NEW r \in Requests, Arrive(r) PROVE Counted'
  <2>1. stage[r] = "new" /\ turn = NoTurn /\ jobs' = jobs
    BY <1>1 DEF Arrive, Idle
  <2>2. Balanced(r) /\ None # r
    BY Constants DEF Counted
  <2>3. JobsFor(r) = {} /\ JobsFor(r)' = {}
    BY <2>1 DEF Hands, OneHandAtATime, JobsFor
  <2>4. CASE Want[r] # {}
    <3>1. /\ stage' = [stage EXCEPT ![r] = "running"] /\ rqRef' = [rqRef EXCEPT ![r] = 2]
          /\ turn' = [rq |-> r, step |-> "next", owes |-> "creator", from |-> 0]
      BY <1>1, <2>4 DEF Arrive
    <3>2. Balanced(r)'
      BY <2>3, <3>1, FS_EmptySet DEF Balanced, One, Types, Counted
    <3>3. Owing' /\ turn'.rq = r
      BY <3>1 DEF Owing
    <3>4. /\ rqRef' \in [Requests -> Int]
          /\ \A q \in Requests : q # r => stage'[q] = stage[q] /\ rqRef'[q] = rqRef[q]
      BY <3>1 DEF Types, Counted
    <3>5. IsFiniteSet(jobs')
      BY <2>1 DEF Counted
    <3> QED BY <1>0, <2>1, <3>2, <3>3, <3>4, <3>5, OthersCounted
  <2>5. CASE Want[r] = {}
    <3>1. stage' = [stage EXCEPT ![r] = "over"] /\ rqRef' = rqRef /\ turn' = turn
      BY <1>1, <2>5 DEF Arrive
    <3>2. stage'[r] = "over" /\ \A q \in Requests : q # r => stage'[q] = stage[q]
      BY <3>1 DEF Types
    <3>3. Balanced(r)'
      BY <2>1, <2>2, <2>3, <3>1, <3>2 DEF Balanced, One
    <3> QED BY <1>0, <2>1, <3>1, <3>2, <3>3, OthersCounted DEF Counted, Owing
  <2> QED BY <2>4, <2>5
<1>2. CASE Unwind
  <2>1. /\ turn.step = "unwind" /\ turn' = NoTurn /\ stage' = stage /\ jobs' = jobs
        /\ rqRef' = [rqRef EXCEPT ![turn.rq] = @ - 1]
    BY <1>2 DEF Unwind, ReleaseRq, rqVars
  <2>2. PICK r \in Requests : turn.rq = r
    BY <2>1 DEF Hands, TurnOK, NoTurn
  <2>3. Balanced(r) /\ None # r /\ turn.owes # "nothing"
    BY <2>1, Constants DEF Counted, Owing
  <2>4. JobsFor(r)' = JobsFor(r)
    BY <2>1 DEF JobsFor
  <2>5. IsFiniteSet(JobsFor(r))
    BY FS_Subset DEF JobsFor, Counted
  <2>6. Cardinality(JobsFor(r)) \in Nat
    BY <2>5, FS_CardinalityType
  <2>7. rqRef'[r] = rqRef[r] - 1 /\ rqRef[r] \in Int
    BY <2>1, <2>2 DEF Counted
  <2>8. Balanced(r)'
    BY <2>1, <2>2, <2>3, <2>4, <2>6, <2>7 DEF Balanced, One, NoTurn
  <2>9. rqRef' \in [Requests -> Int] /\ IsFiniteSet(jobs')
    <3>1. rqRef' = [rqRef EXCEPT ![r] = @ - 1]
      BY <2>1, <2>2
    <3> QED BY <2>1, <3>1 DEF Counted
  <2>11. Owing'
    BY <2>1 DEF Owing, NoTurn
  <2>10. \A q \in Requests : q # r => rqRef'[q] = rqRef[q] /\ stage'[q] = stage[q]
    BY <2>1, <2>2 DEF Counted
  <2> QED BY <1>0, <2>1, <2>2, <2>8, <2>9, <2>10, <2>11, OthersCounted
<1>3. CASE UNCHANGED <<stage, rqRef, jobs, turn>>
  <2>1. \A r \in Requests : JobsFor(r)' = JobsFor(r)
    BY <1>3 DEF JobsFor
  <2>2. \A r \in Requests : Balanced(r)'
    BY <1>3, <2>1 DEF Counted, Balanced
  <2> QED BY <1>0, <1>3, <2>2 DEF Counted, Owing
\* The end of a request, wherever it comes
<1>4. ASSUME NEW r \in Requests, turn.rq = r, Finish(r), stage[r] = "running",
             \A j \in jobs : j.rq # r, jobs' = jobs, turn.step # "unwind"
      PROVE  Counted'
  <2>1. JobsFor(r) = {} /\ JobsFor(r)' = {}
    BY <1>4 DEF JobsFor
  <2>2. /\ rqRef' = [rqRef EXCEPT ![r] = @ - 1]
        /\ turn' = IF turn.owes = "nothing" THEN NoTurn ELSE [turn EXCEPT !.step = "unwind"]
    BY <1>4 DEF Finish, ReleaseRq, Yield
  <2>3. rqRef'[r] = rqRef[r] - 1 /\ rqRef[r] \in Int /\ Balanced(r) /\ None # r
    BY <2>2, Constants DEF Counted
  <2>4. turn'.rq = (IF turn.owes = "nothing" THEN None ELSE r) /\ Owing'
        /\ turn'.owes = turn.owes
    BY <1>4, <2>2 DEF Types, Turns, NoTurn, Owing
  <2>5. stage'[r] = "over" /\ \A q \in Requests : q # r => stage'[q] = stage[q]
    BY <1>4, FinishSteps
  <2>6. Balanced(r)'
    BY <1>4, <2>1, <2>3, <2>4, <2>5, FS_EmptySet DEF Balanced, One
  <2>7. turn' = NoTurn \/ turn'.rq = r
    BY <2>2, <2>4
  <2> QED BY <1>0, <1>4, <2>2, <2>4, <2>5, <2>6, <2>7, OthersCounted DEF Counted
<1>5. ASSUME NEW r \in Requests, RunNext(r) PROVE Counted'
  <2>1. /\ turn.rq = r /\ turn.step = "next" /\ stage[r] = "running"
        /\ \A j \in jobs : j.rq # r
    BY <1>5 DEF RunNext, Fail, Fulfil, Exhaust, Skip, ReadCache, ReadHttp, ReadFile, Asks,
                Wanting, Running, Hands, Answered, Held, InHand, Writing
  <2>2. CASE Fail(r) \/ Exhaust(r)
    BY <1>4, <2>1, <2>2 DEF Fail, Exhaust
  <2>3. CASE Fulfil(r)
    <3>1. /\ turn' = [turn EXCEPT !.step = "write"] /\ UNCHANGED <<stage, rqRef, jobs>>
      BY <2>3 DEF Fulfil
    <3>2. turn'.rq = r /\ turn'.owes = turn.owes /\ Owing'
      BY <2>1, <3>1 DEF Types, Turns, Owing
    <3>3. Balanced(r)'
      BY <2>1, <3>1, <3>2 DEF Balanced, Counted, JobsFor
    <3> QED BY <1>0, <2>1, <3>1, <3>2, <3>3, OthersCounted DEF Counted
  <2>4. CASE \E t \in Sources : Skip(r, t) \/ ReadCache(r, t)
    BY <1>3, <2>4 DEF Skip, ReadCache
  <2>5. ASSUME NEW t \in Sources, ReadHttp(r, t) \/ ReadFile(r, t) PROVE Counted'
    <3>1. \E J : /\ jobs' = jobs \cup J /\ IsFiniteSet(J) /\ \A j \in J : j.rq = r
                 /\ rqRef' = [rqRef EXCEPT ![r] = @ + Cardinality(J)]
      BY <2>5, AskedOf DEF ReadHttp, ReadFile, Counted
    <3>2. PICK J : /\ jobs' = jobs \cup J /\ IsFiniteSet(J) /\ \A j \in J : j.rq = r
                   /\ rqRef' = [rqRef EXCEPT ![r] = @ + Cardinality(J)]
      BY <3>1
    <3>3. stage' = stage /\ turn' = IF turn.owes = "nothing" THEN NoTurn
                                    ELSE [turn EXCEPT !.step = "unwind"]
      BY <2>5 DEF ReadHttp, ReadFile, Yield
    <3>4. /\ turn'.rq = (IF turn.owes = "nothing" THEN None ELSE r) /\ turn'.owes = turn.owes
          /\ Owing'
      BY <2>1, <3>3 DEF Types, Turns, NoTurn, Owing
    <3>5. JobsFor(r) = {} /\ JobsFor(r)' = J
      BY <2>1, <3>2 DEF JobsFor
    <3>6. Cardinality(J) \in Nat
      BY <3>2, FS_CardinalityType
    <3>7. rqRef'[r] = rqRef[r] + Cardinality(J) /\ rqRef[r] \in Int /\ Balanced(r) /\ None # r
          /\ rqRef' \in [Requests -> Int]
      BY <3>2, <3>6, Constants DEF Counted
    <3>8. Balanced(r)'
      BY <2>1, <3>3, <3>4, <3>5, <3>6, <3>7, FS_EmptySet DEF Balanced, One
    <3>9. IsFiniteSet(jobs')
      BY <3>2, FS_Union DEF Counted
    <3>10. turn' = NoTurn \/ turn'.rq = r
      BY <3>3, <3>4
    <3>11. \A q \in Requests : q # r => rqRef'[q] = rqRef[q] /\ stage'[q] = stage[q]
      BY <3>2, <3>3 DEF Counted
    <3> QED BY <1>0, <2>1, <3>2, <3>4, <3>7, <3>8, <3>9, <3>10, <3>11, OthersCounted
  <2> QED BY <1>5, <2>2, <2>3, <2>4, <2>5 DEF RunNext
<1>6. ASSUME NEW r \in Requests, RunNextWrite(r) PROVE Counted'
  <2>1. /\ turn.rq = r /\ turn.step = "write" /\ stage[r] = "running"
        /\ \A j \in jobs : j.rq # r
    BY <1>6 DEF RunNextWrite, WriteNext, FreeChunk, WritesDone,
                Hands, Answered, Held, InHand, Writing
  <2>2. CASE WritesDone(r)
    BY <1>4, <2>1, <2>2 DEF WritesDone
  <2>3. CASE FreeChunk(r) \/ \E t \in Sources : WriteNext(r, t)
    BY <1>3, <2>3 DEF FreeChunk, WriteNext
  <2> QED BY <1>6, <2>2, <2>3 DEF RunNextWrite
<1>7. ASSUME NEW j \in jobs, AnswerHttp(j) \/ AnswerFile(j) PROVE Counted'
  <2> DEFINE r == j.rq
  <2>1. /\ r \in Requests /\ stage[r] = "running" /\ turn = NoTurn /\ jobs' = jobs \ {j}
        /\ stage' = stage
    BY <1>7 DEF AnswerHttp, AnswerFile, Idle, Hands, OneHandAtATime
  <2>2. \/ rqRef' = [rqRef EXCEPT ![r] = @ - 1] /\ (turn'.owes = "nothing")
        \/ rqRef' = rqRef /\ turn'.rq = r /\ turn'.owes = "job"
    BY <1>7 DEF AnswerHttp, AnswerFile, NoTurn
  <2>3. (turn' = NoTurn \/ turn'.rq = r) /\ Owing'
    BY <1>7 DEF AnswerHttp, AnswerFile, NoTurn, Owing
  <2> HIDE DEF r
  <2>4. JobsFor(r)' = JobsFor(r) \ {j} /\ j \in JobsFor(r)
    BY <2>1 DEF JobsFor, r
  <2>5. IsFiniteSet(JobsFor(r)) /\ IsFiniteSet(jobs')
    BY <2>1, FS_Subset DEF JobsFor, Counted
  <2>6. Cardinality(JobsFor(r)') = Cardinality(JobsFor(r)) - 1 /\ Cardinality(JobsFor(r)) \in Nat
    BY <2>4, <2>5, FS_RemoveElement, FS_CardinalityType
  <2>7. Balanced(r) /\ rqRef[r] \in Int /\ turn.rq # r /\ rqRef' \in [Requests -> Int]
    BY <2>1, <2>2, Constants DEF Counted, NoTurn
  <2>8. Balanced(r)'
    <3>1. rqRef[r] = 1 + Cardinality(JobsFor(r))
      BY <2>1, <2>6, <2>7 DEF Balanced, One
    <3>2. rqRef'[r] = 1 + (Cardinality(JobsFor(r)) - 1) + One(turn'.rq = r /\ turn'.owes # "nothing")
      BY <2>1, <2>2, <2>6, <2>7, <3>1 DEF One, Counted
    <3> QED BY <2>1, <2>6, <3>2 DEF Balanced, One
  <2>9. \A q \in Requests : q # r => rqRef'[q] = rqRef[q]
    BY <2>2 DEF Counted
  <2>10. \A k \in Questions : k.rq # r => (k \in jobs' <=> k \in jobs)
    BY <2>1 DEF r
  <2> QED BY <1>0, <2>1, <2>3, <2>5, <2>7, <2>8, <2>9, <2>10, OthersCounted
<1>8. ASSUME \/ Quit \/ UNCHANGED vars
             \/ \E s \in Sources : Evict(s) \/ Reflect(s) \/ Forgive(s)
      PROVE  UNCHANGED <<stage, rqRef, jobs, turn>>
  BY <1>8 DEF Quit, Evict, Reflect, Forgive, rqVars, refVars, vars
<1> QED BY <1>1, <1>2, <1>3, <1>5, <1>6, <1>7, <1>8 DEF Next, Step, Main, Answer

-----------------------------------------------------------------------------
(* What there is of the file, its blocks and its sources *)

\* A chunk does not reach beyond the last block.
Short(c) == c \in Chunks /\ c.from + c.len <= Top + 1

Fits ==
  /\ scheme \in Schemes /\ asked \in BOOLEAN /\ faulted \in BOOLEAN
  /\ \A r \in Requests : \A c \in chunks[r] : Short(c)
  /\ jobs \subseteq JobType
  /\ cache \in [Sources -> SUBSET [block : Units, quality : Quality]]
  /\ failing \subseteq Sources

LEMMA BlockStays ==
  ASSUME NEW S \in SUBSET Units, NEW t \in Sources, NEW b \in BlocksOf(S, BlockSize[t])
  PROVE  /\ b \in Units /\ BlockSize[t] * b \in Units
         /\ BlockSize[t] * b + BlockSize[t] <= Top + 1
<1> DEFINE n == BlockSize[t]
<1>1. n \in Nat \ {0} /\ Top \in Nat /\ S \subseteq Nat
  BY Constants, RequestAssumption DEF Units
<1>2. PICK u \in S : b = u \div n
  BY DEF BlocksOf
<1>3. b \in Nat /\ n * b \in Nat /\ n * b <= u
  BY <1>1, <1>2, BlockOf
<1>4. Block(n, b) \subseteq Units
  BY ExpandStays DEF Expand
<1> HIDE DEF n
<1>5. n * b \in Block(n, b) /\ n * b + n - 1 \in Block(n, b)
  BY <1>1, <1>3 DEF Block
<1>6. n * b \in 0..Top /\ n * b + n - 1 \in 0..Top
  BY <1>4, <1>5 DEF Units
<1>7. n * b >= b
  BY <1>1, <1>3
<1>8. b \in 0..Top
  BY <1>1, <1>3, <1>6, <1>7
<1> QED BY <1>1, <1>3, <1>6, <1>8 DEF n, Units

LEMMA FetchedFits ==
  ASSUME NEW s \in Sources, NEW g \in Units \X Units, g[1] <= g[2]
  PROVE  Short(Fetched(s, g))
<1> DEFINE x == g[1]  y == g[2] + 1
           end == IF y <= FileLen THEN y ELSE IF x <= FileLen THEN FileLen ELSE x
<1>1. x \in Nat /\ y \in Nat /\ x < y /\ FileLen \in Nat /\ y <= Top + 1 /\ Top \in Nat /\ x \in Units
  BY RequestAssumption DEF Units
<1>2. Fetched(s, g) = [from |-> x, len |-> end - x, origin |-> s, quality |-> "good",
                       eof |-> Fetched(s, g).eof] /\ Fetched(s, g).eof \in BOOLEAN
  <2>1. g \in Nat \X Nat
    BY Constants
  <2> QED BY <2>1, FetchedChunk DEF Fetched, Pieces
<1> HIDE DEF x, y
<1>3. end - x \in 0..(Top + 1) /\ x + (end - x) <= Top + 1
  BY <1>1
<1> HIDE DEF end
<1> QED BY <1>1, <1>2, <1>3 DEF Short, Chunks, Quality

LEMMA CacheChunkFits ==
  ASSUME NEW S \in SUBSET Units, NEW t \in Sources, NEW h \in Copies,
         h.block \in BlocksOf(S, BlockSize[t])
  PROVE  Short(CacheChunk(t, h))
<1> DEFINE n == BlockSize[t]
<1>1. n * h.block \in Units /\ n * h.block + n <= Top + 1 /\ n \in Nat \ {0} /\ n * h.block \in Nat
      /\ h.quality \in Quality /\ Top \in Nat
  BY BlockStays, Constants, RequestAssumption DEF Copies
<1>2. CacheChunk(t, h) = [from |-> n * h.block, len |-> n, eof |-> FALSE, origin |-> t,
                          quality |-> h.quality]
  BY DEF CacheChunk
<1> HIDE DEF n
<1>3. n \in 0..(Top + 1)
  BY <1>1
<1> QED BY <1>1, <1>2, <1>3 DEF Short, Chunks

\* ds_write stores blocks that there are.
LEMMA StoredFits ==
  ASSUME NEW t \in Sources, NEW c, Short(c)
  PROVE  Stored(t, c) \subseteq [block : Units, quality : Quality]
<1> DEFINE n == BlockSize[t]  end == c.from + c.len
<1>1. /\ n \in Nat \ {0} /\ Top \in Nat /\ Top + 1 \in Nat /\ (Top + 1) % n = 0
      /\ c.from \in Nat /\ c.len \in Nat /\ end \in Nat /\ end <= Top + 1 /\ c.quality \in Quality
  BY RequestAssumption, LayoutAssumption DEF Short, Chunks, Units
<1>2. Span(c) \in SUBSET Units
  BY <1>1 DEF Span, Units
<1>3. BlocksWithin(Span(c), n) \subseteq Units
  BY <1>2, BlockStays DEF BlocksWithin
<1> HIDE DEF n, end
<1>4. end % n # 0 => end \div n \in Units
  <2>1. end % n # 0 => end \in 0..Top
    BY <1>1
  <2>2. end \div n \in Nat /\ end \div n <= end
    <3>1. end \div n \in Nat /\ n * (end \div n) <= end
      BY <1>1, BlockOf
    <3>2. n * (end \div n) >= end \div n
      BY <1>1, <3>1
    <3> QED BY <1>1, <3>1, <3>2
  <2> QED BY <1>1, <2>1, <2>2 DEF Units
<1>5. ASSUME NEW e \in Stored(t, c)
      PROVE  /\ e.block \in BlocksWithin(Span(c), n) \/ (end % n # 0 /\ e.block = end \div n)
             /\ e.quality \in {c.quality, "junk"}
             /\ e = [block |-> e.block, quality |-> e.quality]
  BY DEF Stored, n, end
<1> QED BY <1>1, <1>3, <1>4, <1>5 DEF Quality

LEMMA FoundFits ==
  ASSUME Types, Fits, NEW r \in Requests, NEW found, NEW wide, Found(r, found, wide),
         \A c \in found : Short(c)
  PROVE  \A q \in Requests : \A c \in chunks'[q] : Short(c)
BY DEF Found, Types, Fits

LEMMA FitsKept == Types /\ Inside /\ Fits /\ [Next]_vars => Fits'
<1> SUFFICES ASSUME Types, Inside, Fits, [Next]_vars PROVE Fits'
  OBVIOUS
<1>0. UNCHANGED scheme
  BY DEF Next, vars
<1>1. ASSUME \/ UNCHANGED vars \/ Unwind \/ (\E r \in Requests : Arrive(r)) \/ Quit
      PROVE  Fits'
  BY <1>0, <1>1 DEF Unwind, Arrive, Quit, vars, rqVars, Fits, Short
<1>2. ASSUME NEW r \in Requests, RunNext(r) PROVE Fits'
  <2>1. CASE Fail(r)
    <3>1. failing' \subseteq Sources
      BY <2>1, RequestAssumption DEF Fail, SetFailed, Fits
    <3> QED BY <1>0, <2>1, <3>1 DEF Fail, Fits, Short
  <2>2. CASE Fulfil(r) \/ Exhaust(r) \/ \E t \in Sources : Skip(r, t)
    BY <1>0, <2>2 DEF Fulfil, Exhaust, Skip, Fits, Short
  <2>3. ASSUME NEW t \in Sources, ReadCache(r, t) PROVE Fits'
    <3> DEFINE wide == Expand(desired[r], BlockSize[t])
    <3>1. PICK H \in Hits(t, wide) : Found(r, {CacheChunk(t, h) : h \in H}, wide)
      BY <2>3 DEF ReadCache
    <3>2. wide \in SUBSET Units
      BY ExpandStays DEF Inside
    <3>3. \A h \in H : h \in Copies /\ h.block \in BlocksOf(wide, BlockSize[t])
      BY HitsAreCopies DEF Hits
    <3> HIDE DEF wide
    <3>4. \A c \in {CacheChunk(t, h) : h \in H} : Short(c)
      BY <3>2, <3>3, CacheChunkFits
    <3>5. \A q \in Requests : \A c \in chunks'[q] : Short(c)
      BY <3>1, <3>4, FoundFits
    <3> QED BY <1>0, <2>3, <3>5 DEF ReadCache, Fits, Short
  <2>4. ASSUME NEW t \in Sources, ReadHttp(r, t) PROVE Fits'
    <3>1. \A g \in Gaps(Expand(desired[r], BlockSize[t])) : g \in Units \X Units
      BY ExpandStays DEF Inside, Gaps
    <3>2. jobs' \subseteq JobType
      BY <2>4, <3>1 DEF ReadHttp, Fits, JobType
    <3> QED BY <1>0, <2>4, <3>2 DEF ReadHttp, Fits, Short
  <2>5. ASSUME NEW t \in Sources, ReadFile(r, t) PROVE Fits'
    <3>1. jobs' \subseteq JobType
      BY <2>5 DEF ReadFile, Fits, JobType
    <3> QED BY <1>0, <2>5, <3>1 DEF ReadFile, Fits, Short
  <2> QED BY <1>2, <2>1, <2>2, <2>3, <2>4, <2>5 DEF RunNext
<1>3. ASSUME NEW r \in Requests, RunNextWrite(r) PROVE Fits'
  <2>1. ASSUME NEW t \in Sources, WriteNext(r, t) PROVE Fits'
    <3>1. Current(r) \in chunks[r]
      BY <2>1 DEF WriteNext, Current
    <3>2. Stored(t, Current(r)) \subseteq [block : Units, quality : Quality]
      BY <3>1, StoredFits DEF Fits
    <3>3. cache' \in [Sources -> SUBSET [block : Units, quality : Quality]]
      BY <2>1, <3>2 DEF WriteNext, Fits
    <3> QED BY <1>0, <2>1, <3>3 DEF WriteNext, Fits, Short
  <2>2. CASE FreeChunk(r)
    <3>1. \A q \in Requests : chunks'[q] \subseteq chunks[q]
      BY <2>2 DEF FreeChunk, Types
    <3> QED BY <1>0, <2>2, <3>1 DEF FreeChunk, Fits, Short
  <2>3. CASE WritesDone(r)
    BY <1>0, <2>3 DEF WritesDone, Fits, Short
  <2> QED BY <1>3, <2>1, <2>2, <2>3 DEF RunNextWrite
<1>4. ASSUME NEW j \in jobs, AnswerHttp(j) PROVE Fits'
  <2>1. j.rq \in Requests /\ j.src \in Sources /\ Asked(j) /\ Kind[j.src] = "http" /\ j \in JobType
    BY <1>4, RequestOfJob DEF AnswerHttp, Types, Fits
  <2>2. PICK found \in {{}, {Fetched(j.src, j.gap)}} : Found(j.rq, found, desired[j.rq])
    BY <1>4 DEF AnswerHttp
  <2>3. j.gap \in Units \X Units /\ j.gap[1] <= j.gap[2]
    BY <2>1 DEF Asked, JobType
  <2>4. \A c \in found : Short(c)
    BY <2>1, <2>3, FetchedFits
  <2>5. \A q \in Requests : \A c \in chunks'[q] : Short(c)
    BY <2>1, <2>2, <2>4, FoundFits
  <2>6. faulted' \in BOOLEAN
    BY <1>4 DEF AnswerHttp, Fits
  <2> QED BY <1>0, <1>4, <2>5, <2>6 DEF AnswerHttp, Fits, Short
<1>5. ASSUME NEW j \in jobs, AnswerFile(j) PROVE Fits'
  <2>1. j.rq \in Requests /\ j.src \in Sources /\ desired[j.rq] \in SUBSET Units
    BY RequestOfJob DEF Inside
  <2>2. PICK G \in SUBSET Gaps(Expand(desired[j.rq], BlockSize[j.src])) :
          Found(j.rq, {Fetched(j.src, g) : g \in G}, desired[j.rq])
    BY <1>5 DEF AnswerFile
  <2>3. \A g \in G : g \in Units \X Units /\ g[1] <= g[2]
    BY <2>1, ExpandStays DEF Gaps
  <2>4. \A c \in {Fetched(j.src, g) : g \in G} : Short(c)
    BY <2>1, <2>3, FetchedFits
  <2>5. \A q \in Requests : \A c \in chunks'[q] : Short(c)
    BY <2>1, <2>2, <2>4, FoundFits
  <2>6. faulted' \in BOOLEAN
    BY <1>5 DEF AnswerFile, Fits
  <2> QED BY <1>0, <1>5, <2>5, <2>6 DEF AnswerFile, Fits, Short
<1>6. ASSUME NEW s \in Sources, Evict(s) \/ Reflect(s) \/ Forgive(s) PROVE Fits'
  <2>1. cache' \in [Sources -> SUBSET [block : Units, quality : Quality]] /\ failing' \subseteq Sources
    <3>1. CASE Evict(s)
      BY <3>1 DEF Evict, Fits
    <3>2. CASE Reflect(s)
      BY <3>2 DEF Reflect, Fits
    <3>3. CASE Forgive(s)
      BY <3>3 DEF Forgive, Fits
    <3> QED BY <1>6, <3>1, <3>2, <3>3
  <2> QED BY <1>0, <1>6, <2>1 DEF Evict, Reflect, Forgive, rqVars, Fits, Short
<1> QED BY <1>1, <1>2, <1>3, <1>4, <1>5, <1>6 DEF Next, Step, Main, Answer

-----------------------------------------------------------------------------
(* References to sources and to their list *)

\* Which chunks a request may have at the source it is at, and which not
OnCourse(r) ==
  /\ stage[r] # "running" => src[r] = 0
  /\ stage[r] = "new" => chunks[r] = {}
  /\ stage[r] = "over" /\ chunks[r] # {} => replies[r] = <<"error">>
  /\ stage[r] = "running" /\ ~Writing(r) => \A c \in chunks[r] : c.origin <= src[r]
  /\ Writing(r) /\ chunks[r] # {} => src[r] < Current(r).origin

\* No chunk of a source is one that it still has to answer with.
Unanswered(j) == \A c \in chunks[j.rq] :
                   c.origin = j.src => Kind[j.src] = "http" /\ c.from # j.gap[1]

Course ==
  /\ \A r \in Requests : OnCourse(r)
  /\ \A j \in jobs : Unanswered(j)
  /\ \A j, k \in jobs : j.rq = k.rq /\ Kind[j.src] = "http" /\ j.gap[1] = k.gap[1] => j = k
  /\ turn.owes = "job" <=> turn.from # 0

\* What has a reference to a source: the caches that reflect to it, the requests
\* that are there, chunks and the reads it has to answer.
Followers(s) == {c \in Sources : Target[c] = s /\ Linked(c)}
Users(s) == {r \in Requests : src[r] = s}
Offered(s) == {rc \in UNION {{r} \X chunks[r] : r \in Requests} : rc[2].origin = s}
Readers(s) == {r \in Requests : JobsOf(r, s) # {}}

Uses(s) == Cardinality(Users(s)) + Cardinality(Offered(s)) + Cardinality(Readers(s))
           + One(turn.owes = "job" /\ turn.from = s)

FewUses(s) == IsFiniteSet(Users(s)) /\ IsFiniteSet(Offered(s)) /\ IsFiniteSet(Readers(s))

SourcesShared ==
  /\ srcRef \in [Sources -> Int]
  /\ \A s \in Sources :
       /\ FewUses(s)
       /\ srcRef[s] = One(slRef.strong > 0) + Cardinality(Followers(s)) + Uses(s)

\* What has a reference to the list
Holders == {r \in Requests : rqRef[r] > 0}

ListShared ==
  /\ slRef \in RefType /\ IsFiniteSet(Holders)
  /\ slRef.strong + slRef.weak = One(~asked) + Cardinality(Holders)
  /\ slRef.strong > 0 => slRef.weak = 0
  /\ ~asked => slRef.strong > 0

LEMMA FirstOf ==
  ASSUME NEW S \in SUBSET Nat, S # {}
  PROVE  Min(S) \in S /\ \A x \in S : Min(S) <= x
<1>1. PICK x \in S : \A y \in S : <<y, x>> \notin OpToRel(<, Nat)
  BY NatLessThanWellFounded, WFMin
<1>2. \A y \in S : x <= y
  <2>1. ASSUME NEW y \in S, y < x PROVE FALSE
    <3>1. <<y, x>> \in Nat \X Nat
      OBVIOUS
    <3> QED BY <1>1, <2>1, <3>1 DEF OpToRel
  <2> QED BY <2>1
<1> QED BY <1>2 DEF Min

\* The list is followed to the first linked source after the one r is at.
LEMMA NextOf ==
  ASSUME Types, NEW r \in Requests, NEW t, t = MoveOn(r).to
  PROVE  /\ t \in Sources \cup {0} /\ src[r] \in Sources \cup {0}
         /\ MoveOn(r).ref = Drop(Take(srcRef, t), src[r])
         /\ t # 0 => t > src[r] /\ Linked(t)
         /\ \A s \in Sources : s > src[r] /\ Linked(s) => t # 0 /\ t <= s
<1> DEFINE later == {s \in Sources : s > src[r] /\ Linked(s)}
<1>1. t = (IF later = {} THEN 0 ELSE Min(later)) /\ MoveOn(r).ref = Drop(Take(srcRef, t), src[r])
  BY DEF MoveOn, NextSource
<1>2. later \in SUBSET Nat /\ 0 \notin Sources
  BY Constants
<1>3. src[r] \in Sources \cup {0}
  BY DEF Types
<1> HIDE DEF later
<1>4. ASSUME later # {} PROVE t \in later /\ \A s \in later : t <= s
  <2>1. t = Min(later)
    BY <1>1, <1>4
  <2> QED BY <1>2, <1>4, <2>1, FirstOf
<1> QED BY <1>1, <1>2, <1>3, <1>4 DEF later

LEMMA OneIsInt == \A b : One(b) \in {0, 1}
BY DEF One

\* References taken and given up
LEMMA TakeDrop ==
  ASSUME NEW ref \in [Sources -> Int], NEW t \in Sources \cup {0}
  PROVE  /\ Take(ref, t) \in [Sources -> Int] /\ Drop(ref, t) \in [Sources -> Int]
         /\ \A s \in Sources : /\ Take(ref, t)[s] = ref[s] + One(t = s)
                               /\ Drop(ref, t)[s] = ref[s] - One(t = s)
<1>1. 0 \notin Sources
  BY Constants
<1> QED BY <1>1 DEF Take, Drop, One

\* A request that goes from one source to another
LEMMA UsersMove ==
  ASSUME Types, NEW r \in Requests, NEW t, src' = [src EXCEPT ![r] = t],
         NEW s \in Sources, IsFiniteSet(Users(s))
  PROVE  /\ IsFiniteSet(Users(s)')
         /\ Cardinality(Users(s)') = Cardinality(Users(s)) + One(t = s) - One(src[r] = s)
<1>1. src'[r] = t /\ \A q \in Requests : q # r => src'[q] = src[q]
  BY DEF Types
<1>2. Cardinality(Users(s)) \in Nat
  BY FS_CardinalityType
<1>3. CASE t = s /\ src[r] # s
  <2>1. Users(s)' = Users(s) \cup {r} /\ r \notin Users(s)
    BY <1>1, <1>3 DEF Users
  <2> QED BY <2>1, <1>2, <1>3, FS_AddElement DEF One
<1>4. CASE t # s /\ src[r] = s
  <2>1. Users(s)' = Users(s) \ {r} /\ r \in Users(s)
    BY <1>1, <1>4 DEF Users
  <2> QED BY <2>1, <1>2, <1>4, FS_RemoveElement DEF One
<1>5. CASE t = s <=> src[r] = s
  <2>1. Users(s)' = Users(s)
    BY <1>1, <1>5 DEF Users
  <2>2. One(t = s) = One(src[r] = s) /\ One(t = s) \in {0, 1}
    BY <1>5, OneIsInt DEF One
  <2> QED BY <2>1, <2>2, <1>2
<1> QED BY <1>3, <1>4, <1>5

\* r finds new chunks at t, or begins to wait there.
Finds(r, t, found) ==
  /\ IsFiniteSet(found) /\ found \cap chunks[r] = {} /\ \A c \in found : c.origin = t
  /\ chunks' = [chunks EXCEPT ![r] = @ \cup found]

Waits(r, t, J) ==
  /\ J # {} /\ (\A j \in J : j.rq = r /\ j.src = t) /\ \A j \in jobs : j.rq # r
  /\ jobs' = jobs \cup J

LEMMA OfferedGrows ==
  ASSUME Types, NEW r \in Requests, NEW t, NEW found, Finds(r, t, found),
         NEW s \in Sources, IsFiniteSet(Offered(s))
  PROVE  /\ IsFiniteSet(Offered(s)')
         /\ Cardinality(Offered(s)') = Cardinality(Offered(s)) + (IF s = t THEN Cardinality(found) ELSE 0)
<1> DEFINE F == {r} \X found
<1> USE DEF Finds
<1>1. chunks'[r] = chunks[r] \cup found /\ \A q \in Requests : q # r => chunks'[q] = chunks[q]
  BY DEF Types
<1>2. Cardinality(Offered(s)) \in Nat /\ Cardinality(found) \in Nat
  BY FS_CardinalityType
<1>3. CASE s # t
  <2>1. Offered(s)' = Offered(s)
    BY <1>1, <1>3 DEF Offered
  <2> QED BY <2>1, <1>2, <1>3
<1>4. CASE s = t
  <2>1. IsFiniteSet(F) /\ Cardinality(F) = Cardinality(found)
    <3> DEFINE f == [c \in found |-> <<r, c>>]
    <3>1. f \in Bijection(found, F)
      BY DEF Bijection, Injection, Surjection, IsInjective
    <3> HIDE DEF f, F
    <3> QED BY <3>1, FS_Bijection DEF ExistsBijection
  <2>2. Offered(s)' = Offered(s) \cup F /\ Offered(s) \cap F = {}
    BY <1>1, <1>4 DEF Offered
  <2> HIDE DEF F
  <2>3. IsFiniteSet(Offered(s) \cup F)
        /\ Cardinality(Offered(s) \cup F) = Cardinality(Offered(s)) + Cardinality(F) - Cardinality({})
    BY <2>1, <2>2, FS_Union
  <2> QED BY <1>2, <1>4, <2>1, <2>2, <2>3, FS_EmptySet
<1> QED BY <1>3, <1>4

\* One that is freed
LEMMA OfferedShrinks ==
  ASSUME Types, NEW r \in Requests, NEW c \in chunks[r], chunks' = [chunks EXCEPT ![r] = @ \ {c}],
         NEW s \in Sources, IsFiniteSet(Offered(s))
  PROVE  /\ IsFiniteSet(Offered(s)')
         /\ Cardinality(Offered(s)') = Cardinality(Offered(s)) - One(c.origin = s)
<1>1. chunks'[r] = chunks[r] \ {c} /\ \A q \in Requests : q # r => chunks'[q] = chunks[q]
  BY DEF Types
<1>2. Cardinality(Offered(s)) \in Nat
  BY FS_CardinalityType
<1>3. Offered(s)' = Offered(s) \ {<<r, c>>}
  BY <1>1 DEF Offered
<1>4. <<r, c>> \in Offered(s) <=> c.origin = s
  BY DEF Offered
<1> QED BY <1>2, <1>3, <1>4, FS_RemoveElement DEF One

\* A read is given to a source.
LEMMA ReadersJoin ==
  ASSUME NEW r \in Requests, NEW t, NEW J, Waits(r, t, J),
         NEW s \in Sources, IsFiniteSet(Readers(s))
  PROVE  /\ IsFiniteSet(Readers(s)')
         /\ Cardinality(Readers(s)') = Cardinality(Readers(s)) + One(t = s)
<1>1. \A q \in Requests : JobsOf(q, s)' = JobsOf(q, s) \cup (IF q = r /\ s = t THEN J ELSE {})
  BY DEF JobsOf, Waits
<1>2. JobsOf(r, s) = {} /\ J # {}
  BY DEF JobsOf, Waits
<1>3. Cardinality(Readers(s)) \in Nat
  BY FS_CardinalityType
<1>4. CASE s = t
  <2>1. Readers(s)' = Readers(s) \cup {r} /\ r \notin Readers(s)
    BY <1>1, <1>2, <1>4 DEF Readers
  <2>2. One(t = s) = 1
    BY <1>4 DEF One
  <2>3. IsFiniteSet(Readers(s)') /\ Cardinality(Readers(s)') = Cardinality(Readers(s)) + 1
    BY <2>1, FS_AddElement
  <2> QED BY <2>2, <2>3
<1>5. CASE s # t
  <2>1. Readers(s)' = Readers(s)
    BY <1>1, <1>5 DEF Readers
  <2> QED BY <1>3, <1>5, <2>1 DEF One
<1> QED BY <1>4, <1>5

\* A source has given its last answer to a read, or one of several.
LEMMA ReadersLeave ==
  ASSUME Types, OneHandAtATime, NEW j \in jobs, jobs' = jobs \ {j},
         NEW last \in BOOLEAN, last <=> {k \in jobs : k.rq = j.rq} = {j},
         NEW s \in Sources, IsFiniteSet(Readers(s))
  PROVE  /\ IsFiniteSet(Readers(s)')
         /\ Cardinality(Readers(s)') = Cardinality(Readers(s)) - (IF j.src = s THEN One(last) ELSE 0)
<1>1. j.rq \in Requests /\ \A k \in jobs : k.rq = j.rq => k.src = j.src
  BY RequestOfJob DEF OneHandAtATime
<1>2. Cardinality(Readers(s)) \in Nat
  BY FS_CardinalityType
<1>3. \A q \in Requests : JobsOf(q, s)' = JobsOf(q, s) \ {j}
  BY DEF JobsOf
<1>4. \A q \in Requests : q # j.rq => JobsOf(q, s)' = JobsOf(q, s)
  BY <1>3 DEF JobsOf
<1>5. CASE j.src = s /\ last
  <2>1. JobsOf(j.rq, s) = {j}
    BY <1>1, <1>5 DEF JobsOf
  <2>2. Readers(s)' = Readers(s) \ {j.rq} /\ j.rq \in Readers(s)
    BY <1>1, <1>3, <1>4, <2>1 DEF Readers
  <2> QED BY <1>2, <1>5, <2>2, FS_RemoveElement DEF One
<1>6. CASE j.src = s /\ ~last
  <2>1. PICK k \in jobs : k.rq = j.rq /\ k # j
    BY <1>6
  <2>2. k \in JobsOf(j.rq, s) /\ k \in JobsOf(j.rq, s)'
    BY <1>1, <1>6, <2>1 DEF JobsOf
  <2>3. Readers(s)' = Readers(s)
    BY <1>4, <2>2 DEF Readers
  <2> QED BY <1>2, <1>6, <2>3 DEF One
<1>7. CASE j.src # s
  <2>1. JobsOf(j.rq, s) = {} /\ JobsOf(j.rq, s)' = {}
    BY <1>1, <1>7 DEF JobsOf
  <2>2. Readers(s)' = Readers(s)
    BY <1>4, <2>1 DEF Readers
  <2> QED BY <1>2, <1>7, <2>2
<1> QED BY <1>5, <1>6, <1>7

\* Gaps of one range begin at different places, and there is one.
LEMMA GapsApart ==
  ASSUME NEW S \in SUBSET Nat, NEW g \in Gaps(S), NEW h \in Gaps(S), g[1] = h[1]
  PROVE  g = h
<1>1. /\ g \in Nat \X Nat /\ h \in Nat \X Nat
      /\ g[1] <= g[2] /\ g[1]..g[2] \subseteq S /\ g[2] + 1 \notin S
      /\ h[1] <= h[2] /\ h[1]..h[2] \subseteq S /\ h[2] + 1 \notin S
  BY DEF Gaps
<1>2. g[2] < h[2] => g[2] + 1 \in h[1]..h[2]
  BY <1>1
<1>3. h[2] < g[2] => h[2] + 1 \in g[1]..g[2]
  BY <1>1
<1>4. g[2] = h[2]
  BY <1>1, <1>2, <1>3
<1> QED BY <1>1, <1>4

LEMMA GapOf ==
  ASSUME NEW S \in SUBSET Units, NEW v \in S
  PROVE  \E g \in Gaps(S) : v \in g[1]..g[2]
<1> DEFINE starts == {x \in Nat : x <= v /\ x..v \subseteq S}  x == Min(starts)
           ends == {y \in Nat : y >= v /\ y + 1 \notin S}  y == Min(ends)
<1>1. S \subseteq Nat /\ Top \in Nat /\ v \in Nat /\ \A u \in S : u <= Top
  BY Constants, RequestAssumption DEF Units
<1>2. x \in starts /\ \A w \in starts : x <= w
  <2>1. v \in starts /\ starts \in SUBSET Nat
    BY <1>1
  <2> HIDE DEF starts
  <2> QED BY <2>1, FirstOf
<1>3. x \in Nat /\ x <= v /\ x..v \subseteq S
  BY <1>2
<1>4. x - 1 \notin S
  <2>1. ASSUME x - 1 \in S PROVE FALSE
    <3>1. x - 1 \in Nat /\ x - 1 <= v /\ ~(x <= x - 1)
      BY <1>1, <1>3, <2>1
    <3> HIDE DEF x
    <3>2. (x - 1)..v \subseteq S
      BY <1>1, <1>3, <2>1, <3>1
    <3>3. x - 1 \in starts
      BY <3>1, <3>2
    <3> QED BY <1>2, <3>1, <3>3
  <2> QED BY <2>1
<1> HIDE DEF x
<1>5. y \in ends /\ \A z \in ends : y <= z
  <2>1. Top \in ends /\ ends \in SUBSET Nat
    BY <1>1
  <2> HIDE DEF ends
  <2> QED BY <2>1, FirstOf
<1>6. y \in Nat /\ v <= y /\ y + 1 \notin S
  BY <1>5
<1> HIDE DEF y
<1>7. \A u \in v..y : u \in S
  <2>1. ASSUME NEW u \in v..y, u # v PROVE u \in S
    <3>1. u - 1 \in Nat /\ u - 1 >= v /\ u - 1 < y /\ (u - 1) + 1 = u
      BY <1>1, <1>6, <2>1
    <3>2. u - 1 \notin ends
      BY <1>5, <1>6, <3>1
    <3> QED BY <3>1, <3>2
  <2> QED BY <2>1
<1>8. x..y \subseteq S
  BY <1>1, <1>3, <1>6, <1>7
<1>9. x \in S /\ y \in S /\ x <= y
  BY <1>1, <1>3, <1>6, <1>8
<1>10. <<x, y>> \in Gaps(S) /\ v \in x..y
  BY <1>1, <1>3, <1>4, <1>6, <1>8, <1>9 DEF Gaps
<1> QED BY <1>10

LEMMA GapThere ==
  ASSUME NEW S \in SUBSET Units, S # {}
  PROVE  Gaps(S) # {}
BY GapOf

\* A cache finds one chunk for each copy, a server or a disk one for each gap.
LEMMA HitsCount ==
  ASSUME Types, NEW t \in Sources, NEW wide \in SUBSET Units, NEW H \in Hits(t, wide)
  PROVE  LET found == {CacheChunk(t, h) : h \in H}
         IN  IsFiniteSet(H) /\ IsFiniteSet(found) /\ Cardinality(found) = Cardinality(H)
<1> DEFINE n == BlockSize[t]  found == {CacheChunk(t, h) : h \in H}
           at == [h \in H |-> h.block]  chunk == [h \in H |-> CacheChunk(t, h)]
<1>1. n \in Nat \ {0} /\ IsFiniteSet(Units)
  BY Constants, RequestAssumption, FS_Interval DEF Units
<1>2. \A h \in H : h.block \in Units /\ h.block \in Nat
  BY BlockStays, Constants DEF Hits
<1>3. \A f, h \in H : f.block = h.block => f = h
  BY DEF Hits
<1>4. at \in Injection(H, Units)
  BY <1>2, <1>3 DEF Injection, IsInjective
<1>5. IsFiniteSet(H)
  BY <1>1, <1>4, FS_Injection
<1>6. ASSUME NEW f \in H, NEW h \in H, CacheChunk(t, f) = CacheChunk(t, h) PROVE f = h
  <2>1. n * f.block = n * h.block
    BY <1>6 DEF CacheChunk
  <2>2. f.block \in Nat /\ h.block \in Nat
    BY <1>2
  <2> HIDE DEF n
  <2>3. (n * f.block) \div n = f.block /\ (n * h.block) \div n = h.block
    BY <1>1, <2>2, StartsABlock
  <2>4. f.block = h.block
    BY <2>1, <2>3
  <2> QED BY <1>3, <2>4
<1>7. chunk \in Bijection(H, found)
  BY <1>6 DEF Bijection, Injection, Surjection, IsInjective
<1> HIDE DEF chunk, found
<1>8. IsFiniteSet(found) /\ Cardinality(found) = Cardinality(H)
  BY <1>5, <1>7, FS_Bijection DEF ExistsBijection
<1> QED BY <1>5, <1>8 DEF found

LEMMA FetchedCount ==
  ASSUME NEW s \in Sources, NEW S \in SUBSET Units, NEW G \in SUBSET Gaps(S)
  PROVE  LET found == {Fetched(s, g) : g \in G}
         IN  IsFiniteSet(found) /\ Cardinality(found) = Cardinality(G)
<1> DEFINE found == {Fetched(s, g) : g \in G}  chunk == [g \in G |-> Fetched(s, g)]
<1>1. IsFiniteSet(G)
  BY GapsAreFew, FS_Subset
<1>2. S \in SUBSET Nat /\ \A g \in G : g \in Nat \X Nat /\ g[1] <= g[2] /\ g \in Gaps(S)
  BY Constants DEF Gaps
<1>3. \A g \in G : Fetched(s, g).from = g[1]
  BY <1>2, FetchedChunk
<1>4. \A g, h \in G : Fetched(s, g) = Fetched(s, h) => g = h
  BY <1>2, <1>3, GapsApart
<1>5. chunk \in Bijection(G, found)
  BY <1>4 DEF Bijection, Injection, Surjection, IsInjective
<1> HIDE DEF chunk, found
<1>6. IsFiniteSet(found) /\ Cardinality(found) = Cardinality(G)
  BY <1>1, <1>5, FS_Bijection DEF ExistsBijection
<1> QED BY <1>6 DEF found

\* What Settle lets go of, for one source
Closing(ref, s) == {c \in Sources : Target[c] = s /\ Linked(c) /\ ref[c] = 0}

LEMMA SettleTypes ==
  ASSUME NEW ref \in [Sources -> Int]
  PROVE  /\ Settle(ref) \in [Sources -> Int]
         /\ \A s \in Sources : /\ Settle(ref)[s] = ref[s] - Cardinality(Closing(ref, s))
                               /\ IsFiniteSet(Closing(ref, s))
                               /\ IsFiniteSet(Followers(s))
                               /\ Target[s] # 0 => Settle(ref)[s] = ref[s]
<1>1. IsFiniteSet(Sources)
  BY Constants, RequestAssumption, FS_Interval DEF Sources
<1>2. \A s \in Sources : IsFiniteSet(Closing(ref, s)) /\ IsFiniteSet(Followers(s))
  BY <1>1, FS_Subset DEF Closing, Followers
<1>3. \A s \in Sources : Cardinality(Closing(ref, s)) \in Nat
  BY <1>2, FS_CardinalityType
<1>4. Settle(ref) = [s \in Sources |-> ref[s] - Cardinality(Closing(ref, s))]
  BY DEF Settle, Closing
<1>5. ASSUME NEW s \in Sources, Target[s] # 0 PROVE Closing(ref, s) = {}
  <2>1. ASSUME NEW c \in Sources, Target[c] = s PROVE FALSE
    <3>1. s # 0
      BY Constants
    <3>2. Target[Target[c]] = 0
      BY <2>1, <3>1, LayoutAssumption
    <3> QED BY <1>5, <2>1, <3>2
  <2> QED BY <2>1 DEF Closing
<1> QED BY <1>2, <1>3, <1>4, <1>5, FS_EmptySet

\* A source in use is not closed by taking more of it.
LEMMA SettleAdds ==
  ASSUME NEW ref \in [Sources -> Int], NEW t \in Sources, ref[t] > 0, NEW k \in Nat
  PROVE  [Settle(ref) EXCEPT ![t] = @ + k] = Settle([ref EXCEPT ![t] = @ + k])
<1> DEFINE more == [ref EXCEPT ![t] = @ + k]
<1>1. more \in [Sources -> Int] /\ \A s \in Sources : more[s] = 0 <=> ref[s] = 0
  OBVIOUS
<1>2. \A s \in Sources : Closing(more, s) = Closing(ref, s)
  BY <1>1 DEF Closing
<1>3. Settle(more) = [s \in Sources |-> more[s] - Cardinality(Closing(ref, s))]
  BY <1>2 DEF Settle, Closing
<1>4. Settle(ref) = [s \in Sources |-> ref[s] - Cardinality(Closing(ref, s))]
  BY DEF Settle, Closing
<1>5. \A s \in Sources : Cardinality(Closing(ref, s)) \in Nat
  BY SettleTypes, FS_CardinalityType
<1>6. \A s \in Sources : more[s] - Cardinality(Closing(ref, s)) =
        [Settle(ref) EXCEPT ![t] = @ + k][s]
  BY <1>4, <1>5
<1> HIDE DEF more
<1> QED BY <1>3, <1>4, <1>6 DEF more

LEMMA SettleNothing ==
  ASSUME NEW ref \in [Sources -> Int], \A s \in Sources : Linked(s) => ref[s] # 0
  PROVE  Settle(ref) = ref
<1>1. \A s \in Sources : Cardinality(Closing(ref, s)) = 0
  BY FS_EmptySet DEF Closing
<1>2. Settle(ref) = [s \in Sources |-> ref[s] - Cardinality(Closing(ref, s))]
  BY DEF Settle, Closing
<1> QED BY <1>1, <1>2

\* ref has a reference for each use that there will be, none of a source that is gone.
Accounted(ref, listed) == \A s \in Sources :
  /\ FewUses(s)'
  /\ ref[s] = listed + Cardinality(Followers(s)) + Uses(s)'
  /\ ref[s] > 0 => Linked(s)

\* The references balance again when the caches nobody uses have been closed.
LEMMA Rebalance ==
  ASSUME NEW ref \in [Sources -> Int], srcRef' = Settle(ref), Accounted(ref, One(slRef'.strong > 0))
  PROVE  SourcesShared'
<1>1. ASSUME NEW s \in Sources
      PROVE  srcRef'[s] = One(slRef'.strong > 0) + Cardinality(Followers(s)') + Uses(s)'
  <2> DEFINE F == Followers(s)  C == Closing(ref, s)
  <2>1. IsFiniteSet(F) /\ IsFiniteSet(C) /\ srcRef'[s] = ref[s] - Cardinality(C)
    BY SettleTypes
  <2>2. ASSUME NEW c \in Sources, Target[c] = s
        PROVE  srcRef'[c] = ref[c] /\ ref[c] >= 0 /\ (ref[c] > 0 => Linked(c))
    <3>1. srcRef'[c] = ref[c]
      BY <2>2, Constants, SettleTypes
    <3>2. ref[c] = One(slRef'.strong > 0) + Cardinality(Followers(c)) + Uses(c)' /\ FewUses(c)'
      BY DEF Accounted
    <3>3. Cardinality(Followers(c)) \in Nat /\ One(slRef'.strong > 0) \in Nat
      BY SettleTypes, FS_CardinalityType, OneIsInt
    <3>4. Uses(c)' \in Nat
      <4>1. Cardinality(Users(c)') \in Nat /\ Cardinality(Offered(c)') \in Nat
            /\ Cardinality(Readers(c)') \in Nat /\ One(turn'.owes = "job" /\ turn'.from = c) \in Nat
        BY <3>2, FS_CardinalityType, OneIsInt DEF FewUses
      <4> QED BY <4>1 DEF Uses
    <3>5. ref[c] > 0 => Linked(c)
      BY DEF Accounted
    <3> QED BY <3>1, <3>2, <3>3, <3>4, <3>5
  <2>3. Followers(s)' = F \ C /\ C \subseteq F
    BY <2>2 DEF Followers, Closing, Linked
  <2> HIDE DEF F, C
  <2>4. Cardinality(F \ C) = Cardinality(F) - Cardinality(C)
    <3>1. Cardinality(F \ C) = Cardinality(F) - Cardinality(F \cap C) /\ F \cap C = C
      BY <2>1, <2>3, FS_Difference
    <3> QED BY <3>1
  <2>5. Cardinality(F) \in Nat /\ Cardinality(C) \in Nat
    BY <2>1, FS_CardinalityType
  <2>6. ref[s] = One(slRef'.strong > 0) + Cardinality(F) + Uses(s)'
    BY DEF Accounted, F
  <2>7. Uses(s)' \in Int /\ One(slRef'.strong > 0) \in Int
    <3>1. Cardinality(Users(s)') \in Int /\ Cardinality(Offered(s)') \in Int
          /\ Cardinality(Readers(s)') \in Int /\ One(turn'.owes = "job" /\ turn'.from = s) \in Int
      BY FS_CardinalityType, OneIsInt DEF FewUses, Accounted
    <3> QED BY <3>1, OneIsInt DEF Uses
  <2> QED BY <2>1, <2>3, <2>4, <2>5, <2>6, <2>7
<1> QED BY <1>1, SettleTypes DEF SourcesShared, Accounted

\* ReleaseSl gives up one reference to each source, or none.
LEMMA ReleasedSl ==
  ASSUME NEW ref \in [Sources -> Int], ReleaseSl(ref), slRef \in RefType,
         slRef.strong + slRef.weak > 0, Accounted(ref, One(slRef.strong > 0))
  PROVE  /\ SourcesShared'
         /\ slRef' \in RefType
         /\ slRef'.strong + slRef'.weak = slRef.strong + slRef.weak - 1
         /\ slRef'.strong > 0 => slRef.strong > 0
         /\ slRef.strong = 0 => slRef'.strong = 0
         /\ slRef.strong > 1 => slRef'.strong > 0
         /\ slRef.strong > 0 => slRef'.weak = slRef.weak
<1>1. slRef.strong \in Nat /\ slRef.weak \in Nat
  BY DEF RefType
<1>2. slRef' = IF slRef.strong > 0 THEN [slRef EXCEPT !.strong = @ - 1]
               ELSE [slRef EXCEPT !.weak = @ - 1]
  BY DEF ReleaseSl, Release, ReleaseWeak
<1>3. /\ slRef' \in RefType
      /\ slRef'.strong = IF slRef.strong > 0 THEN slRef.strong - 1 ELSE 0
      /\ slRef'.weak = IF slRef.strong > 0 THEN slRef.weak ELSE slRef.weak - 1
  BY <1>1, <1>2 DEF RefType
<1> DEFINE left == IF ReleaseFires(slRef)
                   THEN [s \in Sources |-> IF ref[s] > 0 THEN ref[s] - 1 ELSE 0]
                   ELSE ref
<1>4. srcRef' = Settle(left)
  BY DEF ReleaseSl
<1>5. left \in [Sources -> Int]
  OBVIOUS
<1>6. Accounted(left, One(slRef'.strong > 0))
  <2>1. CASE slRef.strong = 1
    <3>1. \A s \in Sources : left[s] = IF ref[s] > 0 THEN ref[s] - 1 ELSE 0
      BY <2>1 DEF ReleaseFires
    <3> HIDE DEF left
    <3>2. ASSUME NEW s \in Sources
          PROVE  /\ left[s] = Cardinality(Followers(s)) + Uses(s)'
                 /\ left[s] > 0 => Linked(s)
      <4>1. ref[s] = 1 + Cardinality(Followers(s)) + Uses(s)' /\ ref[s] \in Int
            /\ (ref[s] > 0 => Linked(s))
        BY <2>1 DEF Accounted, One
      <4>2. Cardinality(Followers(s)) \in Nat /\ Uses(s)' \in Nat
        <5>1. Cardinality(Users(s)') \in Nat /\ Cardinality(Offered(s)') \in Nat
              /\ Cardinality(Readers(s)') \in Nat /\ One(turn'.owes = "job" /\ turn'.from = s) \in Nat
          BY FS_CardinalityType, OneIsInt DEF FewUses, Accounted
        <5> QED BY <5>1, SettleTypes, FS_CardinalityType DEF Uses
      <4> QED BY <3>1, <4>1, <4>2
    <3>3. One(slRef'.strong > 0) = 0
      BY <1>3, <2>1 DEF One
    <3>4. \A s \in Sources : Cardinality(Followers(s)) + Uses(s)' = 0 + Cardinality(Followers(s)) + Uses(s)'
      BY SettleTypes, FS_CardinalityType
    <3> QED BY <3>2, <3>3, <3>4 DEF Accounted
  <2>2. CASE slRef.strong # 1
    <3>1. left = ref /\ One(slRef'.strong > 0) = One(slRef.strong > 0)
      BY <1>1, <1>3, <2>2 DEF ReleaseFires, One
    <3> QED BY <3>1
  <2> QED BY <2>1, <2>2
<1> HIDE DEF left
<1>7. SourcesShared'
  BY <1>4, <1>5, <1>6, Rebalance
<1> QED BY <1>1, <1>3, <1>7

\* What is shared is there.
LEMMA Alive ==
  ASSUME Types, Counted, NEW r \in Requests
  PROVE  /\ rqRef[r] \in Int /\ rqRef[r] >= 0
         /\ stage[r] = "running" => rqRef[r] >= 1
         /\ turn.step = "unwind" /\ turn.rq = r => rqRef[r] >= 1
<1>1. Balanced(r) /\ IsFiniteSet(JobsFor(r))
  BY FS_Subset DEF Counted, JobsFor
<1>2. Cardinality(JobsFor(r)) \in Nat
  BY <1>1, FS_CardinalityType
<1> QED BY <1>1, <1>2 DEF Balanced, One, Counted, Owing

LEMMA AliveNext ==
  ASSUME Types', Counted', NEW r \in Requests, stage'[r] = "running"
  PROVE  rqRef'[r] >= 1
<1>1. Balanced(r)' /\ IsFiniteSet(JobsFor(r)')
  BY FS_Subset DEF Counted, JobsFor
<1>2. Cardinality(JobsFor(r)') \in Nat
  BY <1>1, FS_CardinalityType
<1> QED BY <1>1, <1>2 DEF Balanced, One, Counted

\* rq_release by one who has a reference
LEMMA ReleasedRq ==
  ASSUME Types, Counted, ListShared, NEW r \in Requests, rqRef[r] >= 1, rqRef[r] \in Int,
         NEW ref \in [Sources -> Int], ReleaseRq(r, ref), UNCHANGED asked,
         Accounted(ref, One(slRef.strong > 0))
  PROVE  SourcesShared' /\ ListShared'
<1>1. /\ rqRef'[r] = rqRef[r] - 1 /\ \A q \in Requests : q # r => rqRef'[q] = rqRef[q]
  BY DEF ReleaseRq, Counted
<1>2. Cardinality(Holders) \in Nat /\ IsFiniteSet(Holders)
  BY FS_CardinalityType DEF ListShared
<1>3. CASE rqRef[r] = 1
  <2>1. ReleaseSl(ref)
    BY <1>3 DEF ReleaseRq
  <2>2. r \in Holders /\ Holders' = Holders \ {r}
    BY <1>1, <1>3 DEF Holders
  <2>3. IsFiniteSet(Holders') /\ Cardinality(Holders') = Cardinality(Holders) - 1
    BY <1>2, <2>2, FS_RemoveElement
  <2>4. Cardinality(Holders) >= 1
    BY <1>2, <2>2, FS_EmptySet
  <2>5. slRef \in RefType /\ slRef.strong \in Nat /\ slRef.weak \in Nat
        /\ slRef.strong + slRef.weak = One(~asked) + Cardinality(Holders)
        /\ (slRef.strong > 0 => slRef.weak = 0) /\ (~asked => slRef.strong > 0)
    BY DEF ListShared, RefType
  <2>6. slRef.strong + slRef.weak > 0 /\ One(~asked) \in {0, 1} /\ One(~asked') = One(~asked)
    BY <1>2, <2>4, <2>5, OneIsInt
  <2>7. /\ SourcesShared'
        /\ slRef' \in RefType
        /\ slRef'.strong + slRef'.weak = slRef.strong + slRef.weak - 1
        /\ slRef'.strong > 0 => slRef.strong > 0
        /\ slRef.strong > 1 => slRef'.strong > 0
        /\ slRef.strong > 0 => slRef'.weak = slRef.weak
    BY <2>1, <2>5, <2>6, ReleasedSl
  <2>8. slRef'.strong \in Nat /\ slRef'.weak \in Nat
    BY <2>7 DEF RefType
  <2>9. ~asked => slRef.strong > 1
    BY <2>4, <2>5, <1>2 DEF One
  <2>10. slRef'.strong + slRef'.weak = One(~asked') + Cardinality(Holders')
    BY <1>2, <2>3, <2>5, <2>6, <2>7
  <2>11. (slRef'.strong > 0 => slRef'.weak = 0) /\ (~asked' => slRef'.strong > 0)
    BY <2>5, <2>7, <2>8, <2>9
  <2> QED BY <2>3, <2>7, <2>10, <2>11 DEF ListShared
<1>4. CASE rqRef[r] # 1
  <2>1. srcRef' = Settle(ref) /\ UNCHANGED slRef
    BY <1>4 DEF ReleaseRq
  <2>2. Holders' = Holders
    BY <1>1, <1>4 DEF Holders
  <2>3. SourcesShared'
    BY <2>1, Rebalance
  <2> QED BY <2>1, <2>2, <2>3 DEF ListShared
<1> QED BY <1>3, <1>4

LEMMA SharesInt ==
  ASSUME SourcesShared, NEW s \in Sources
  PROVE  /\ srcRef[s] \in Int /\ One(slRef.strong > 0) \in Nat
         /\ Cardinality(Followers(s)) \in Nat /\ Cardinality(Users(s)) \in Nat
         /\ Cardinality(Offered(s)) \in Nat /\ Cardinality(Readers(s)) \in Nat
         /\ One(turn.owes = "job" /\ turn.from = s) \in Nat /\ Uses(s) \in Nat /\ srcRef[s] >= Uses(s)
         /\ srcRef[s] = One(slRef.strong > 0) + Cardinality(Followers(s)) + Uses(s)
<1>1. /\ srcRef[s] \in Int /\ One(slRef.strong > 0) \in Nat /\ Cardinality(Followers(s)) \in Nat
      /\ srcRef[s] = One(slRef.strong > 0) + Cardinality(Followers(s)) + Uses(s)
  BY SettleTypes, FS_CardinalityType, OneIsInt DEF SourcesShared
<1>2. /\ Cardinality(Users(s)) \in Nat /\ Cardinality(Offered(s)) \in Nat
      /\ Cardinality(Readers(s)) \in Nat /\ One(turn.owes = "job" /\ turn.from = s) \in Nat
  BY FS_CardinalityType, OneIsInt DEF SourcesShared, FewUses
<1>3. Uses(s) \in Nat
  BY <1>2 DEF Uses
<1> QED BY <1>1, <1>2, <1>3

\* What is in use is linked.
LEMMA InUse ==
  ASSUME Types, SourcesShared
  PROVE  /\ \A r \in Requests : src[r] # 0 => Linked(src[r])
         /\ \A r \in Requests : \A c \in chunks[r] : Linked(c.origin)
         /\ \A j \in jobs : Linked(j.src)
<1>1. ASSUME NEW s \in Sources, Users(s) # {} \/ Offered(s) # {} \/ Readers(s) # {} PROVE Linked(s)
  <2>1. IsFiniteSet(Users(s)) /\ IsFiniteSet(Offered(s)) /\ IsFiniteSet(Readers(s))
    BY DEF SourcesShared, FewUses
  <2>2. Cardinality(Users(s)) # 0 \/ Cardinality(Offered(s)) # 0 \/ Cardinality(Readers(s)) # 0
    BY <1>1, <2>1, FS_EmptySet
  <2> QED BY <2>2, SharesInt DEF Linked, Uses
<1>2. ASSUME NEW r \in Requests, src[r] # 0 PROVE Linked(src[r])
  <2>1. src[r] \in Sources /\ r \in Users(src[r])
    BY <1>2 DEF Types, Users
  <2> QED BY <1>1, <2>1
<1>3. ASSUME NEW r \in Requests, NEW c \in chunks[r] PROVE Linked(c.origin)
  <2>1. c.origin \in Sources
    BY DEF Types, Pieces
  <2>2. <<r, c>> \in Offered(c.origin)
    BY DEF Offered
  <2> QED BY <1>1, <2>1, <2>2
<1>4. ASSUME NEW j \in jobs PROVE Linked(j.src)
  <2>1. j.src \in Sources /\ j.rq \in Requests /\ j \in JobsOf(j.rq, j.src)
    BY RequestOfJob DEF JobsOf
  <2>2. j.rq \in Readers(j.src)
    BY <2>1 DEF Readers
  <2> QED BY <1>1, <2>1, <2>2
<1> QED BY <1>2, <1>3, <1>4

\* References follow a change in what they are for.
LEMMA Changes ==
  ASSUME SourcesShared, NEW ref \in [Sources -> Int],
         \A s \in Sources : /\ FewUses(s)' /\ ref[s] = srcRef[s] + Uses(s)' - Uses(s)
                            /\ ref[s] > 0 => Linked(s)
  PROVE  Accounted(ref, One(slRef.strong > 0))
<1>1. ASSUME NEW s \in Sources
      PROVE  ref[s] = One(slRef.strong > 0) + Cardinality(Followers(s)) + Uses(s)'
  <2>1. Cardinality(Users(s)') \in Nat /\ Cardinality(Offered(s)') \in Nat
        /\ Cardinality(Readers(s)') \in Nat /\ One(turn'.owes = "job" /\ turn'.from = s) \in Nat
    BY FS_CardinalityType, OneIsInt DEF FewUses
  <2>2. Uses(s)' \in Nat
    BY <2>1 DEF Uses
  <2> QED BY <2>2, SharesInt
<1> QED BY <1>1 DEF Accounted

\* A request goes on to a source, or to none: rq_advance_sl and rq_reset_sl
LEMMA Moves ==
  ASSUME Types, SourcesShared, NEW r \in Requests, NEW t \in Sources \cup {0},
         t # 0 => Linked(t) /\ src[r] # t, src' = [src EXCEPT ![r] = t],
         NEW ref, ref = Drop(Take(srcRef, t), src[r])
  PROVE  /\ ref \in [Sources -> Int]
         /\ \A s \in Sources :
              /\ IsFiniteSet(Users(s)') /\ Cardinality(Users(s)') \in Nat
              /\ ref[s] = srcRef[s] + Cardinality(Users(s)') - Cardinality(Users(s))
              /\ ref[s] > 0 => Linked(s)
              /\ s = t => ref[s] > 0
<1>1. srcRef \in [Sources -> Int] /\ src[r] \in Sources \cup {0}
  BY DEF SourcesShared, Types
<1>2. /\ ref \in [Sources -> Int]
      /\ \A s \in Sources : ref[s] = srcRef[s] + One(t = s) - One(src[r] = s)
  BY <1>1, TakeDrop DEF One
<1>3. ASSUME NEW s \in Sources
      PROVE  /\ IsFiniteSet(Users(s)') /\ Cardinality(Users(s)') \in Nat
             /\ ref[s] = srcRef[s] + Cardinality(Users(s)') - Cardinality(Users(s))
             /\ ref[s] > 0 => Linked(s)
             /\ s = t => ref[s] > 0
  <2>1. IsFiniteSet(Users(s)) /\ srcRef[s] \in Int
    BY DEF SourcesShared, FewUses
  <2>2. /\ IsFiniteSet(Users(s)')
        /\ Cardinality(Users(s)') = Cardinality(Users(s)) + One(t = s) - One(src[r] = s)
    BY <2>1, UsersMove DEF One
  <2>3. Cardinality(Users(s)') \in Nat /\ Cardinality(Users(s)) \in Nat
    BY <2>1, <2>2, FS_CardinalityType
  <2>4. One(t = s) \in {0, 1} /\ One(src[r] = s) \in {0, 1}
    BY OneIsInt
  <2>5. s = t => One(t = s) = 1 /\ One(src[r] = s) = 0 /\ Linked(s)
    BY Constants DEF One
  <2>6. s # t => One(t = s) = 0
    BY DEF One
  <2> QED BY <1>2, <2>1, <2>2, <2>3, <2>4, <2>5, <2>6 DEF Linked
<1> QED BY <1>2, <1>3

\* What the handler that runs owes is the same.
SameDebt == \A s \in Sources : turn'.owes = "job" /\ turn'.from = s <=> turn.owes = "job" /\ turn.from = s

LEMMA MovesOnly ==
  ASSUME Types, SourcesShared, NEW r \in Requests, NEW t \in Sources \cup {0},
         t # 0 => Linked(t) /\ src[r] # t, src' = [src EXCEPT ![r] = t],
         UNCHANGED <<chunks, jobs>>, SameDebt,
         NEW ref, ref = Drop(Take(srcRef, t), src[r])
  PROVE  ref \in [Sources -> Int] /\ Accounted(ref, One(slRef.strong > 0))
<1>1. /\ ref \in [Sources -> Int]
      /\ \A s \in Sources :
           /\ IsFiniteSet(Users(s)') /\ Cardinality(Users(s)') \in Nat
           /\ ref[s] = srcRef[s] + Cardinality(Users(s)') - Cardinality(Users(s))
           /\ ref[s] > 0 => Linked(s)
  BY Moves
<1>2. ASSUME NEW s \in Sources PROVE FewUses(s)' /\ ref[s] = srcRef[s] + Uses(s)' - Uses(s)
  <2>1. Offered(s)' = Offered(s) /\ Readers(s)' = Readers(s)
    BY DEF Offered, Readers, JobsOf
  <2>2. One(turn'.owes = "job" /\ turn'.from = s) = One(turn.owes = "job" /\ turn.from = s)
    BY DEF SameDebt, One
  <2> QED BY <1>1, <2>1, <2>2, SharesInt DEF FewUses, Uses, SourcesShared
<1> QED BY <1>1, <1>2, Changes

\* The only job of its request that a file source has
LEMMA AloneAtFile ==
  ASSUME Types, Hands, NEW j \in jobs, Kind[j.src] = "file", NEW k \in jobs, k.rq = j.rq
  PROVE  k = j
<1>1. k.src = j.src /\ k.gap = <<>> /\ j.gap = <<>>
  BY DEF Hands, OneJob, OneHandAtATime
<1> QED BY <1>1, RequestOfJob DEF Questions

\* Whoever is there has its reference to the list while it has one itself.
LEMMA ListKept ==
  ASSUME ListShared, UNCHANGED <<slRef, asked>>,
         \A r \in Requests : rqRef'[r] > 0 <=> rqRef[r] > 0
  PROVE  ListShared'
<1>1. Holders' = Holders
  BY DEF Holders
<1> QED BY <1>1 DEF ListShared

\* A request goes on to a source and finds chunks there.
LEMMA MovesAndFinds ==
  ASSUME Types, SourcesShared, NEW r \in Requests, NEW t \in Sources, Linked(t), src[r] # t,
         src' = [src EXCEPT ![r] = t], UNCHANGED <<jobs, turn, slRef>>,
         NEW found, Finds(r, t, found),
         srcRef' = [Settle(Drop(Take(srcRef, t), src[r])) EXCEPT ![t] = @ + Cardinality(found)]
  PROVE  SourcesShared'
<1> DEFINE ref == Drop(Take(srcRef, t), src[r])  k == Cardinality(found)
           more == [ref EXCEPT ![t] = @ + k]
<1>1. /\ ref \in [Sources -> Int]
      /\ \A s \in Sources :
           /\ IsFiniteSet(Users(s)') /\ Cardinality(Users(s)') \in Nat
           /\ ref[s] = srcRef[s] + Cardinality(Users(s)') - Cardinality(Users(s))
           /\ ref[s] > 0 => Linked(s)
           /\ s = t => ref[s] > 0
  <2> HIDE DEF ref
  <2>1. ref = Drop(Take(srcRef, t), src[r])
    BY DEF ref
  <2> QED BY <2>1, Moves
<1>2. k \in Nat
  BY FS_CardinalityType DEF Finds
<1>3. srcRef' = Settle(more)
  <2> HIDE DEF ref, k
  <2>1. ref \in [Sources -> Int] /\ ref[t] > 0
    BY <1>1
  <2>2. [Settle(ref) EXCEPT ![t] = @ + k] = Settle([ref EXCEPT ![t] = @ + k])
    BY <1>2, <2>1, SettleAdds
  <2> QED BY <2>2 DEF ref, k
<1> HIDE DEF ref
<1>4. more \in [Sources -> Int] /\ \A s \in Sources : more[s] = ref[s] + (IF s = t THEN k ELSE 0)
  <2> HIDE DEF k
  <2> QED BY <1>1, <1>2
<1>5. ASSUME NEW s \in Sources
      PROVE  /\ IsFiniteSet(Offered(s)')
             /\ Cardinality(Offered(s)') = Cardinality(Offered(s)) + (IF s = t THEN k ELSE 0)
             /\ Readers(s)' = Readers(s)
  <2>1. IsFiniteSet(Offered(s))
    BY DEF SourcesShared, FewUses
  <2>2. Readers(s)' = Readers(s)
    BY DEF Readers, JobsOf
  <2> QED BY <2>1, <2>2, OfferedGrows
<1> HIDE DEF more, k
<1>6. ASSUME NEW s \in Sources
      PROVE  /\ FewUses(s)' /\ more[s] = srcRef[s] + Uses(s)' - Uses(s)
             /\ more[s] > 0 => Linked(s)
  <2>1. FewUses(s)'
    BY <1>1, <1>5 DEF FewUses, SourcesShared
  <2>2. Uses(s)' = Cardinality(Users(s)') + Cardinality(Offered(s)') + Cardinality(Readers(s))
                   + One(turn.owes = "job" /\ turn.from = s)
    BY <1>5 DEF Uses
  <2>3. more[s] = srcRef[s] + Uses(s)' - Uses(s)
    BY <1>1, <1>2, <1>4, <1>5, <2>2, SharesInt DEF Uses
  <2>4. more[s] > 0 => Linked(s)
    BY <1>1, <1>2, <1>4
  <2> QED BY <2>1, <2>3, <2>4
<1>7. Accounted(more, One(slRef'.strong > 0))
  BY <1>4, <1>6, Changes
<1> QED BY <1>3, <1>4, <1>7, Rebalance

\* A request goes on to a source that has answers to give.
LEMMA MovesAndWaits ==
  ASSUME Types, SourcesShared, NEW r \in Requests, NEW t \in Sources, Linked(t), src[r] # t,
         src' = [src EXCEPT ![r] = t], UNCHANGED <<chunks, slRef>>, SameDebt,
         NEW J, Waits(r, t, J),
         srcRef' = Take(Settle(Drop(Take(srcRef, t), src[r])), t)
  PROVE  SourcesShared'
<1> DEFINE ref == Drop(Take(srcRef, t), src[r])  more == [ref EXCEPT ![t] = @ + 1]
<1>1. /\ ref \in [Sources -> Int]
      /\ \A s \in Sources :
           /\ IsFiniteSet(Users(s)') /\ Cardinality(Users(s)') \in Nat
           /\ ref[s] = srcRef[s] + Cardinality(Users(s)') - Cardinality(Users(s))
           /\ ref[s] > 0 => Linked(s)
           /\ s = t => ref[s] > 0
  <2> HIDE DEF ref
  <2>1. ref = Drop(Take(srcRef, t), src[r])
    BY DEF ref
  <2> QED BY <2>1, Moves
<1>3. srcRef' = Settle(more)
  <2> HIDE DEF ref
  <2>1. ref \in [Sources -> Int] /\ ref[t] > 0 /\ t # 0
    BY <1>1, Constants
  <2>2. [Settle(ref) EXCEPT ![t] = @ + 1] = Settle([ref EXCEPT ![t] = @ + 1])
    BY <2>1, SettleAdds
  <2> QED BY <2>1, <2>2 DEF ref, Take
<1> HIDE DEF ref
<1>4. more \in [Sources -> Int] /\ \A s \in Sources : more[s] = ref[s] + One(t = s)
  BY <1>1 DEF One
<1>5. ASSUME NEW s \in Sources
      PROVE  /\ IsFiniteSet(Readers(s)')
             /\ Cardinality(Readers(s)') = Cardinality(Readers(s)) + One(t = s)
             /\ Offered(s)' = Offered(s)
  <2>1. IsFiniteSet(Readers(s))
    BY DEF SourcesShared, FewUses
  <2>2. Offered(s)' = Offered(s)
    BY DEF Offered
  <2> QED BY <2>1, <2>2, ReadersJoin DEF One
<1> HIDE DEF more
<1>6. ASSUME NEW s \in Sources
      PROVE  /\ FewUses(s)' /\ more[s] = srcRef[s] + Uses(s)' - Uses(s)
             /\ more[s] > 0 => Linked(s)
  <2>1. FewUses(s)'
    BY <1>1, <1>5 DEF FewUses, SourcesShared
  <2>2. Uses(s)' = Cardinality(Users(s)') + Cardinality(Offered(s)) + Cardinality(Readers(s)')
                   + One(turn.owes = "job" /\ turn.from = s)
    BY <1>5 DEF Uses, SameDebt, One
  <2>3. One(t = s) \in {0, 1} /\ (One(t = s) = 1 => s = t)
    BY DEF One
  <2>4. more[s] = srcRef[s] + Uses(s)' - Uses(s)
    BY <1>1, <1>4, <1>5, <2>2, <2>3, SharesInt DEF Uses
  <2>5. more[s] > 0 => Linked(s)
    BY <1>1, <1>4, <2>3
  <2> QED BY <2>1, <2>4, <2>5
<1>7. Accounted(more, One(slRef'.strong > 0))
  BY <1>4, <1>6, Changes
<1> QED BY <1>3, <1>4, <1>7, Rebalance

\* A source answers: the reference of its read goes to whoever answers for it,
\* or with the last answer.
LEMMA AnswersGive ==
  ASSUME Types, Hands, SourcesShared, NEW j \in jobs, jobs' = jobs \ {j}, UNCHANGED <<src, slRef>>,
         NEW last \in BOOLEAN, last <=> {k \in jobs : k.rq = j.rq} = {j}, turn = NoTurn,
         NEW found, Finds(j.rq, j.src, found),
         NEW owed \in {0, 1},
         \A s \in Sources : One(turn'.owes = "job" /\ turn'.from = s) = IF s = j.src THEN owed ELSE 0,
         srcRef' = [srcRef EXCEPT ![j.src] = @ + Cardinality(found) + owed - One(last)]
  PROVE  SourcesShared'
<1> DEFINE k == Cardinality(found)
<1>1. j.rq \in Requests /\ j.src \in Sources /\ src[j.rq] = j.src
  BY RequestOfJob DEF Hands, OneHandAtATime
<1>2. k \in Nat /\ One(last) \in {0, 1} /\ srcRef \in [Sources -> Int]
  BY FS_CardinalityType, OneIsInt DEF SourcesShared, Finds
<1> HIDE DEF k
<1>3. /\ srcRef' \in [Sources -> Int]
      /\ \A s \in Sources : srcRef'[s] = srcRef[s] + (IF s = j.src THEN k + owed - One(last) ELSE 0)
  <2>1. srcRef' = [srcRef EXCEPT ![j.src] = @ + k + owed - One(last)]
    BY DEF k
  <2> HIDE DEF k
  <2> QED BY <1>1, <1>2, <2>1
<1>4. ASSUME NEW s \in Sources
      PROVE  /\ IsFiniteSet(Offered(s)') /\ IsFiniteSet(Readers(s)') /\ Users(s)' = Users(s)
             /\ Cardinality(Offered(s)') = Cardinality(Offered(s)) + (IF s = j.src THEN k ELSE 0)
             /\ Cardinality(Readers(s)') = Cardinality(Readers(s)) - (IF j.src = s THEN One(last) ELSE 0)
  <2>1. IsFiniteSet(Offered(s)) /\ IsFiniteSet(Readers(s))
    BY DEF SourcesShared, FewUses
  <2>2. Users(s)' = Users(s)
    BY DEF Users
  <2>3. /\ IsFiniteSet(Offered(s)')
        /\ Cardinality(Offered(s)') = Cardinality(Offered(s)) + (IF s = j.src THEN Cardinality(found) ELSE 0)
    BY <1>1, <2>1, OfferedGrows
  <2>4. /\ IsFiniteSet(Readers(s)')
        /\ Cardinality(Readers(s)') = Cardinality(Readers(s)) - (IF j.src = s THEN One(last) ELSE 0)
    BY <2>1, ReadersLeave DEF Hands
  <2> QED BY <2>2, <2>3, <2>4 DEF k
<1>5. ASSUME NEW s \in Sources
      PROVE  FewUses(s)' /\ srcRef'[s] = srcRef[s] + Uses(s)' - Uses(s)
  <2>1. FewUses(s)'
    BY <1>4 DEF FewUses, SourcesShared
  <2>2. One(turn.owes = "job" /\ turn.from = s) = 0
    BY DEF NoTurn, One
  <2>3. Uses(s)' = Cardinality(Users(s)) + Cardinality(Offered(s)') + Cardinality(Readers(s)')
                   + (IF s = j.src THEN owed ELSE 0)
    BY <1>4 DEF Uses
  <2>4. Uses(s) = Cardinality(Users(s)) + Cardinality(Offered(s)) + Cardinality(Readers(s))
    BY <2>2, SharesInt DEF Uses
  <2> QED BY <1>2, <1>3, <1>4, <2>1, <2>3, <2>4, SharesInt
\* The source is in use, that of the request.
<1>6. ASSUME NEW s \in Sources PROVE (Linked(s) => srcRef'[s] # 0) /\ (srcRef'[s] > 0 => Linked(s))
  <2>1. CASE s # j.src
    BY <1>2, <1>3, <2>1 DEF Linked
  <2>2. CASE s = j.src
    <3>1. Linked(s)
      BY <2>2, InUse
    <3>2. j.rq \in Users(s) /\ Users(s)' = Users(s) /\ IsFiniteSet(Users(s))
      BY <1>1, <1>4, <2>2 DEF Users, SourcesShared, FewUses
    <3>3. Cardinality(Users(s)) \in Nat /\ Cardinality(Users(s)) # 0
      BY <3>2, FS_EmptySet, FS_CardinalityType
    <3>4. Cardinality(Offered(s)') \in Nat /\ Cardinality(Readers(s)') \in Nat
      BY <1>4, FS_CardinalityType
    <3>5. Uses(s)' > 0 /\ Uses(s)' \in Nat
      <4>1. Uses(s)' = Cardinality(Users(s)) + Cardinality(Offered(s)') + Cardinality(Readers(s)') + owed
        BY <2>2, <3>2 DEF Uses
      <4> QED BY <3>3, <3>4, <4>1
    <3>6. srcRef'[s] > 0
      BY <1>5, <3>5, SharesInt
    <3> QED BY <3>1, <3>6
  <2> QED BY <2>1, <2>2
<1> DEFINE ref == srcRef'
<1>7. srcRef' = Settle(srcRef')
  <2> QED BY <1>3, <1>6, SettleNothing
<1>8. Accounted(srcRef', One(slRef.strong > 0))
  <2> QED BY <1>3, <1>5, <1>6, Changes
<1> QED BY <1>3, <1>7, <1>8, Rebalance

LEMMA SharesKept ==
  /\ Types /\ Types' /\ Hands /\ Counted /\ Counted' /\ Fits /\ Course
  /\ SourcesShared /\ ListShared /\ [Next]_vars
  => SourcesShared' /\ ListShared'
<1> SUFFICES ASSUME Types, Types', Hands, Counted, Counted', Fits, Course,
                    SourcesShared, ListShared, [Next]_vars
             PROVE  SourcesShared' /\ ListShared'
  OBVIOUS
<1> USE RequestOfJob
<1>0. srcRef \in [Sources -> Int] /\ \A s \in Sources : FewUses(s) /\ Uses(s) \in Int /\ srcRef[s] \in Int
  BY SharesInt DEF SourcesShared
\* What is in use and the references are the same, but for the list's own.
<1>1. ASSUME UNCHANGED <<src, chunks, jobs, srcRef>>, SameDebt,
             slRef'.strong > 0 <=> slRef.strong > 0
      PROVE  SourcesShared'
  <2>1. \A s \in Sources : /\ Users(s)' = Users(s) /\ Offered(s)' = Offered(s)
                           /\ Readers(s)' = Readers(s) /\ Followers(s)' = Followers(s)
    BY <1>1 DEF Users, Offered, Readers, JobsOf, Followers, Linked
  <2>2. \A s \in Sources : One(turn'.owes = "job" /\ turn'.from = s) = One(turn.owes = "job" /\ turn.from = s)
    BY <1>1 DEF SameDebt, One
  <2>3. One(slRef'.strong > 0) = One(slRef.strong > 0)
    BY <1>1 DEF One
  <2>4. \A s \in Sources : FewUses(s)' /\ Uses(s)' = Uses(s)
    BY <1>0, <2>1, <2>2 DEF FewUses, Uses
  <2> QED BY <1>1, <2>1, <2>3, <2>4 DEF SourcesShared
<1>2. ASSUME NEW r \in Requests, Arrive(r) PROVE SourcesShared' /\ ListShared'
  <2>1. turn = NoTurn /\ stage[r] = "new" /\ UNCHANGED <<src, chunks, jobs, srcRef, asked>>
    BY <1>2 DEF Arrive, Idle
  <2>2. CASE Want[r] # {}
    <3>1. /\ rqRef' = [rqRef EXCEPT ![r] = 2] /\ slRef' = Acquire(slRef)
          /\ turn' = [rq |-> r, step |-> "next", owes |-> "creator", from |-> 0]
      BY <1>2, <2>2 DEF Arrive
    <3>2. rqRef[r] = 0
      <4>1. JobsFor(r) = {}
        BY <2>1 DEF Hands, OneHandAtATime, JobsFor
      <4>2. Cardinality(JobsFor(r)) = 0 /\ turn.rq # r /\ Balanced(r)
        BY <2>1, <4>1, Constants, FS_EmptySet DEF Counted, NoTurn
      <4> QED BY <2>1, <4>2 DEF Balanced, One
    <3>3. Holders' = Holders \cup {r} /\ r \notin Holders
      BY <3>1, <3>2 DEF Holders, Counted
    <3>4. IsFiniteSet(Holders') /\ Cardinality(Holders') = Cardinality(Holders) + 1
          /\ Cardinality(Holders) \in Nat
      BY <3>3, FS_AddElement, FS_CardinalityType DEF ListShared
    <3>5. slRef.strong \in Nat /\ slRef.weak \in Nat
          /\ slRef' = [strong |-> IF slRef.strong > 0 THEN slRef.strong + 1 ELSE slRef.strong,
                       weak |-> IF slRef.strong > 0 THEN slRef.weak ELSE slRef.weak + 1]
      BY <3>1 DEF ListShared, RefType, Acquire
    <3>6. slRef' \in RefType /\ slRef'.strong + slRef'.weak = slRef.strong + slRef.weak + 1
          /\ (slRef'.strong > 0 <=> slRef.strong > 0) /\ (slRef'.strong > 0 => slRef'.weak = slRef.weak)
      BY <3>5 DEF RefType
    <3>7. ListShared'
      <4>1. One(~asked) \in {0, 1} /\ One(~asked') = One(~asked)
        BY <2>1, OneIsInt
      <4> QED BY <2>1, <3>4, <3>5, <3>6, <4>1 DEF ListShared
    <3>8. SameDebt
      BY <2>1, <3>1 DEF SameDebt, NoTurn
    <3> QED BY <1>1, <2>1, <3>6, <3>7, <3>8
  <2>3. CASE Want[r] = {}
    <3>1. UNCHANGED <<rqRef, slRef, turn>>
      BY <1>2, <2>3 DEF Arrive
    <3> QED BY <1>1, <2>1, <3>1, ListKept DEF SameDebt
  <2> QED BY <2>2, <2>3
<1>3. CASE Unwind
  <2> DEFINE ref == Drop(srcRef, turn.from)
  <2>1. /\ turn.step = "unwind" /\ ReleaseRq(turn.rq, ref) /\ turn' = NoTurn
        /\ UNCHANGED <<src, chunks, jobs, asked>>
    BY <1>3 DEF Unwind, rqVars
  <2>2. turn.rq \in Requests /\ turn.from \in Sources \cup {0} /\ (turn.owes = "job" <=> turn.from # 0)
    BY <2>1 DEF Hands, TurnOK, NoTurn, Types, Turns, Course
  <2>3. ref \in [Sources -> Int] /\ \A s \in Sources : ref[s] = srcRef[s] - One(turn.from = s)
    BY <1>0, <2>2, TakeDrop DEF One
  <2> HIDE DEF ref
  <2>4. ASSUME NEW s \in Sources
        PROVE  /\ FewUses(s)' /\ ref[s] = srcRef[s] + Uses(s)' - Uses(s)
               /\ ref[s] > 0 => Linked(s)
    <3>1. Users(s)' = Users(s) /\ Offered(s)' = Offered(s) /\ Readers(s)' = Readers(s)
      BY <2>1 DEF Users, Offered, Readers, JobsOf
    <3>2. One(turn'.owes = "job" /\ turn'.from = s) = 0
      BY <2>1 DEF One, NoTurn
    <3>3. One(turn.owes = "job" /\ turn.from = s) = One(turn.from = s) /\ One(turn.from = s) \in {0, 1}
      BY <2>2, Constants DEF One
    <3> QED BY <1>0, <2>3, <3>1, <3>2, <3>3, SharesInt DEF FewUses, Uses, Linked
  <2>5. Accounted(ref, One(slRef.strong > 0))
    BY <2>3, <2>4, Changes
  <2>6. rqRef[turn.rq] >= 1 /\ rqRef[turn.rq] \in Int
    BY <2>1, <2>2, Alive
  <2> QED BY <2>1, <2>2, <2>3, <2>5, <2>6, ReleasedRq
<1>4. CASE Quit
  <2>1. /\ turn = NoTurn /\ ~asked /\ asked' = TRUE /\ ReleaseSl(srcRef)
        /\ UNCHANGED <<src, chunks, jobs, turn, rqRef>>
    BY <1>4 DEF Quit, Idle, rqVars
  <2>2. \A s \in Sources : /\ FewUses(s)' /\ srcRef[s] = srcRef[s] + Uses(s)' - Uses(s)
                           /\ srcRef[s] > 0 => Linked(s)
    <3>1. TAKE s \in Sources
    <3>2. Users(s)' = Users(s) /\ Offered(s)' = Offered(s) /\ Readers(s)' = Readers(s)
      BY <2>1 DEF Users, Offered, Readers, JobsOf
    <3> QED BY <1>0, <2>1, <3>2 DEF FewUses, Uses, Linked
  <2>3. Accounted(srcRef, One(slRef.strong > 0))
    BY <1>0, <2>2, Changes
  <2>4. slRef \in RefType /\ slRef.strong \in Nat /\ slRef.weak \in Nat /\ slRef.strong > 0
        /\ slRef.weak = 0 /\ slRef.strong = 1 + Cardinality(Holders) /\ Cardinality(Holders) \in Nat
        /\ IsFiniteSet(Holders)
    BY <2>1, FS_CardinalityType DEF ListShared, RefType, One
  <2>5. /\ SourcesShared' /\ slRef' \in RefType
        /\ slRef'.strong + slRef'.weak = slRef.strong + slRef.weak - 1
        /\ slRef'.strong > 0 => slRef.strong > 0
        /\ slRef.strong > 0 => slRef'.weak = slRef.weak
    BY <1>0, <2>1, <2>3, <2>4, ReleasedSl
  <2>6. Holders' = Holders /\ One(~asked') = 0
    BY <2>1 DEF Holders, One
  <2> QED BY <2>1, <2>4, <2>5, <2>6 DEF ListShared
\* The end of a request, wherever it comes
<1>5. ASSUME NEW r \in Requests, stage[r] = "running", Finish(r), UNCHANGED <<chunks, jobs, asked>>
      PROVE  SourcesShared' /\ ListShared'
  <2> DEFINE ref == Drop(srcRef, src[r])
  <2>1. src' = [src EXCEPT ![r] = 0] /\ ReleaseRq(r, ref) /\ Yield
    BY <1>5 DEF Finish
  <2>2. SameDebt
    BY <2>1, Constants DEF Yield, SameDebt, NoTurn, Types, Turns
  <2>3. ref = Drop(Take(srcRef, 0), src[r])
    BY DEF Take
  <2> HIDE DEF ref
  <2>4. ref \in [Sources -> Int] /\ Accounted(ref, One(slRef.strong > 0))
    BY <1>5, <2>1, <2>2, <2>3, MovesOnly
  <2>5. rqRef[r] >= 1 /\ rqRef[r] \in Int
    BY <1>5, Alive
  <2> QED BY <1>5, <2>1, <2>4, <2>5, ReleasedRq
\* A step from one source to another
<1>6. ASSUME NEW r \in Requests, NEW t \in Sources \cup {0}, t # 0 => Linked(t) /\ src[r] # t,
             src' = [src EXCEPT ![r] = t], srcRef' = Settle(Drop(Take(srcRef, t), src[r])), SameDebt,
             UNCHANGED <<chunks, jobs, rqRef, slRef, asked>>
      PROVE  SourcesShared' /\ ListShared'
  <2> DEFINE ref == Drop(Take(srcRef, t), src[r])
  <2>1. ref \in [Sources -> Int] /\ Accounted(ref, One(slRef.strong > 0))
    BY <1>6, MovesOnly
  <2> HIDE DEF ref
  <2>2. SourcesShared'
    BY <1>6, <2>1, Rebalance DEF ref
  <2> QED BY <1>6, <2>2, ListKept
<1>7. ASSUME NEW r \in Requests, RunNext(r) PROVE SourcesShared' /\ ListShared'
  <2>1. /\ turn.rq = r /\ turn.step = "next" /\ stage[r] = "running"
        /\ \A j \in jobs : j.rq # r
    BY <1>7 DEF RunNext, Fail, Fulfil, Exhaust, Skip, ReadCache, ReadHttp, ReadFile, Asks,
                Wanting, Running, Hands, Answered, Held, InHand, Writing
  <2>2. src[r] \in Sources \cup {0} /\ r # None /\ \A c \in chunks[r] : c.origin <= src[r]
    BY <2>1, Constants DEF Types, Course, OnCourse, Writing
  <2>3. CASE Fail(r) \/ Exhaust(r)
    BY <1>5, <2>1, <2>3 DEF Fail, Exhaust
  <2>4. CASE Fulfil(r)
    <3>1. /\ src' = [src EXCEPT ![r] = 0] /\ srcRef' = Settle(Drop(srcRef, src[r]))
          /\ turn' = [turn EXCEPT !.step = "write"]
          /\ UNCHANGED <<chunks, jobs, rqRef, slRef, asked>>
      BY <2>4 DEF Fulfil
    <3>2. SameDebt
      BY <3>1 DEF SameDebt, Types, Turns
    <3>3. srcRef' = Settle(Drop(Take(srcRef, 0), src[r]))
      BY <3>1 DEF Take
    <3> QED BY <1>6, <3>1, <3>2, <3>3
\* The next source, when there is one
  <2>5. ASSUME NEW t \in Sources, MoveOn(r).to = t
        PROVE  /\ Linked(t) /\ src[r] < t /\ src[r] # t /\ MoveOn(r).ref = Drop(Take(srcRef, t), src[r])
               /\ \A c \in chunks[r] : c.origin # t
    <3>1. t # 0 /\ t \in Nat
      BY Constants
    <3>2. t > src[r] /\ Linked(t) /\ MoveOn(r).ref = Drop(Take(srcRef, t), src[r])
      BY <2>5, <3>1, NextOf
    <3>3. src[r] \in Nat /\ \A c \in chunks[r] : c.origin \in Nat
      <4>1. \A c \in chunks[r] : c.origin \in Sources
        BY DEF Types, Pieces
      <4>2. Sources \subseteq Nat /\ 0 \in Nat
        BY Constants
      <4> QED BY <2>2, <4>1, <4>2
    <3> QED BY <2>2, <3>1, <3>2, <3>3
  <2>6. ASSUME NEW t \in Sources, Skip(r, t) PROVE SourcesShared' /\ ListShared'
    <3>1. /\ src' = [src EXCEPT ![r] = t] /\ srcRef' = Settle(MoveOn(r).ref) /\ MoveOn(r).to = t
          /\ UNCHANGED <<chunks, jobs, rqRef, slRef, asked, turn>>
      BY <2>6 DEF Skip
    <3>2. SameDebt
      BY <3>1 DEF SameDebt
    <3> QED BY <1>6, <2>5, <3>1, <3>2
  <2>7. ASSUME NEW t \in Sources, ReadCache(r, t) PROVE SourcesShared' /\ ListShared'
    <3> DEFINE wide == Expand(desired[r], BlockSize[t])
    <3>1. /\ src' = [src EXCEPT ![r] = t] /\ MoveOn(r).to = t
          /\ UNCHANGED <<jobs, rqRef, slRef, asked, turn>>
      BY <2>7 DEF ReadCache, Asks
    <3>2. PICK H \in Hits(t, wide) :
            /\ Found(r, {CacheChunk(t, h) : h \in H}, wide)
            /\ srcRef' = [Settle(MoveOn(r).ref) EXCEPT ![t] = @ + Cardinality(H)]
      BY <2>7 DEF ReadCache
    <3>3. wide \in SUBSET Units
      BY ExpandStays DEF Counted, Inside
    <3> DEFINE found == {CacheChunk(t, h) : h \in H}
    <3>4. IsFiniteSet(found) /\ Cardinality(found) = Cardinality(H)
      <4> HIDE DEF wide
      <4> QED BY <3>2, <3>3, HitsCount
    <3>5. \A c \in found : c.origin = t
      BY DEF CacheChunk
    <3>6. Finds(r, t, found)
      BY <2>5, <3>1, <3>2, <3>4, <3>5 DEF Found, Finds
    <3>7. srcRef' = [Settle(Drop(Take(srcRef, t), src[r])) EXCEPT ![t] = @ + Cardinality(found)]
      BY <2>5, <3>1, <3>2, <3>4
    <3>8. Linked(t) /\ src[r] # t
      BY <2>5, <3>1
    <3> HIDE DEF wide, found
    <3>9. SourcesShared'
      BY <3>1, <3>6, <3>7, <3>8, MovesAndFinds
    <3> QED BY <3>1, <3>9, ListKept
  <2>8. ASSUME NEW t \in Sources, Asks(r, t), src' = [src EXCEPT ![r] = t], Yield,
               srcRef' = Take(Settle(MoveOn(r).ref), t), UNCHANGED <<chunks, slRef>>,
               NEW J, Waits(r, t, J)
        PROVE  SourcesShared'
    <3>1. /\ Linked(t) /\ src[r] # t
          /\ srcRef' = Take(Settle(Drop(Take(srcRef, t), src[r])), t)
      BY <2>5, <2>8 DEF Asks
    <3>2. SameDebt
      BY <2>8, Constants DEF Yield, SameDebt, NoTurn, Types, Turns
    <3> QED BY <2>8, <3>1, <3>2, MovesAndWaits
  <2>9. ASSUME NEW t \in Sources, ReadHttp(r, t) \/ ReadFile(r, t)
        PROVE  /\ SourcesShared' /\ ListShared'
    <3>1. \E J : Waits(r, t, J)
      <4>1. CASE ReadFile(r, t)
        <5> DEFINE j == [rq |-> r, src |-> t, gap |-> <<>>]
        <5>1. jobs' = jobs \cup {j} /\ j.rq = r /\ j.src = t
          BY <4>1 DEF ReadFile
        <5> HIDE DEF j
        <5>2. Waits(r, t, {j})
          BY <2>1, <5>1 DEF Waits
        <5> QED BY <5>2
      <4>2. CASE ReadHttp(r, t)
        <5> DEFINE wide == Expand(desired[r], BlockSize[t])
                   J == {[rq |-> r, src |-> t, gap |-> g] : g \in Gaps(wide)}
        <5>1. jobs' = jobs \cup J /\ desired[r] # {}
          BY <4>2 DEF ReadHttp, Asks, Wanting
        <5>2. wide \in SUBSET Units /\ wide # {}
          <6>1. desired[r] \in SUBSET Units /\ desired[r] \in SUBSET Nat /\ BlockSize[t] \in Nat \ {0}
            BY Constants DEF Counted, Inside, Types
          <6>2. desired[r] \subseteq wide
            BY <6>1, ExpandCovers
          <6> QED BY <5>1, <6>1, <6>2, ExpandStays
        <5>3. Gaps(wide) # {}
          <6> HIDE DEF wide
          <6> QED BY <5>2, GapThere
        <5>4. J # {} /\ \A j \in J : j.rq = r /\ j.src = t
          <6>1. PICK g \in Gaps(wide) : TRUE
            BY <5>3
          <6>2. [rq |-> r, src |-> t, gap |-> g] \in J
            OBVIOUS
          <6> QED BY <6>2
        <5> HIDE DEF J
        <5>5. Waits(r, t, J)
          BY <2>1, <5>1, <5>4 DEF Waits
        <5> QED BY <5>5
      <4> QED BY <2>9, <4>1, <4>2
    <3>2. SourcesShared'
      BY <2>8, <2>9, <3>1 DEF ReadHttp, ReadFile
    <3>3. rqRef'[r] >= 1 /\ rqRef[r] >= 1
      BY <2>1, <2>9, Alive, AliveNext DEF ReadHttp, ReadFile
    <3>4. /\ UNCHANGED <<slRef, asked>>
          /\ \A q \in Requests : q # r => rqRef'[q] = rqRef[q]
      BY <2>9 DEF ReadHttp, ReadFile, Counted
    <3>5. rqRef'[r] \in Int /\ rqRef[r] \in Int
      BY DEF Counted
    <3>6. \A q \in Requests : rqRef'[q] > 0 <=> rqRef[q] > 0
      BY <3>3, <3>4, <3>5
    <3> QED BY <3>2, <3>4, <3>6, ListKept
  <2> QED BY <1>7, <2>3, <2>4, <2>6, <2>7, <2>9 DEF RunNext
<1>8. ASSUME NEW r \in Requests, RunNextWrite(r) PROVE SourcesShared' /\ ListShared'
  <2>1. turn.rq = r /\ turn.step = "write" /\ stage[r] = "running"
    BY <1>8 DEF RunNextWrite, WriteNext, FreeChunk, WritesDone, Hands, Held, InHand, Writing
  <2>2. src[r] \in Sources \cup {0}
    BY DEF Types
  <2>3. CASE WritesDone(r)
    BY <1>5, <2>1, <2>3 DEF WritesDone
  <2>4. ASSUME NEW t \in Sources, WriteNext(r, t) PROVE SourcesShared' /\ ListShared'
    <3>1. /\ src' = [src EXCEPT ![r] = t] /\ srcRef' = Settle(MoveOn(r).ref) /\ MoveOn(r).to = t
          /\ UNCHANGED <<chunks, jobs, rqRef, slRef, asked, turn>>
      BY <2>4 DEF WriteNext
    <3>2. t # 0 /\ t \in Nat /\ src[r] \in Nat
      BY <2>2, Constants
    <3>3. t > src[r] /\ Linked(t) /\ MoveOn(r).ref = Drop(Take(srcRef, t), src[r])
      BY <3>1, <3>2, NextOf
    <3>4. src[r] # t
      BY <3>2, <3>3
    <3>5. SameDebt
      BY <3>1 DEF SameDebt
    <3> QED BY <1>6, <3>1, <3>3, <3>4, <3>5
  <2>5. CASE FreeChunk(r)
    <3> DEFINE c == Current(r)  left == Drop(srcRef, src[r])  ref == Drop(left, c.origin)
    <3>1. /\ src' = [src EXCEPT ![r] = 0] /\ srcRef' = Settle(ref)
          /\ chunks' = [chunks EXCEPT ![r] = @ \ {c}] /\ chunks[r] # {}
          /\ UNCHANGED <<jobs, rqRef, slRef, asked, turn>>
      BY <2>5 DEF FreeChunk
    <3>2. c \in chunks[r] /\ c.origin \in Sources /\ left = Drop(Take(srcRef, 0), src[r])
      BY <3>1 DEF Current, Types, Pieces, Take
    <3> HIDE DEF c, left
    <3>3. /\ left \in [Sources -> Int]
          /\ \A s \in Sources :
               /\ IsFiniteSet(Users(s)') /\ Cardinality(Users(s)') \in Nat
               /\ left[s] = srcRef[s] + Cardinality(Users(s)') - Cardinality(Users(s))
               /\ left[s] > 0 => Linked(s)
      BY <3>1, <3>2, Moves
    <3>4. ref \in [Sources -> Int] /\ \A s \in Sources : ref[s] = left[s] - One(c.origin = s)
      BY <3>2, <3>3, TakeDrop DEF One
    <3> HIDE DEF ref
    <3>5. ASSUME NEW s \in Sources
          PROVE  /\ FewUses(s)' /\ ref[s] = srcRef[s] + Uses(s)' - Uses(s)
                 /\ ref[s] > 0 => Linked(s)
      <4>1. /\ IsFiniteSet(Offered(s)')
            /\ Cardinality(Offered(s)') = Cardinality(Offered(s)) - One(c.origin = s)
        <5>1. IsFiniteSet(Offered(s))
          BY <1>0 DEF FewUses
        <5> QED BY <3>1, <3>2, <5>1, OfferedShrinks DEF One
      <4>2. Readers(s)' = Readers(s)
        BY <3>1 DEF Readers, JobsOf
      <4>3. FewUses(s)'
        BY <1>0, <3>3, <4>1, <4>2 DEF FewUses
      <4>4. Uses(s)' = Cardinality(Users(s)') + Cardinality(Offered(s)') + Cardinality(Readers(s))
                       + One(turn.owes = "job" /\ turn.from = s)
        BY <3>1, <4>2 DEF Uses
      <4>5. One(c.origin = s) \in {0, 1}
        BY OneIsInt
      <4>6. ref[s] = srcRef[s] + Uses(s)' - Uses(s)
        BY <3>3, <3>4, <4>1, <4>4, <4>5, SharesInt DEF Uses
      <4>7. ref[s] > 0 => Linked(s)
        BY <3>3, <3>4, <4>5
      <4> QED BY <4>3, <4>6, <4>7
    <3>6. Accounted(ref, One(slRef'.strong > 0))
      BY <3>1, <3>4, <3>5, Changes
    <3> QED BY <3>1, <3>4, <3>6, Rebalance, ListKept
  <2> QED BY <1>8, <2>3, <2>4, <2>5 DEF RunNextWrite
<1>9. ASSUME NEW j \in jobs, AnswerHttp(j) \/ AnswerFile(j) PROVE ListShared'
  <2>1. /\ j.rq \in Requests /\ stage[j.rq] = "running" /\ UNCHANGED <<stage, slRef, asked>>
        /\ \A q \in Requests : q # j.rq => rqRef'[q] = rqRef[q]
    BY <1>9 DEF AnswerHttp, AnswerFile, Hands, OneHandAtATime, Counted
  <2>2. rqRef'[j.rq] >= 1 /\ rqRef[j.rq] >= 1 /\ rqRef'[j.rq] \in Int /\ rqRef[j.rq] \in Int
    BY <2>1, Alive, AliveNext DEF Counted
  <2>3. \A q \in Requests : rqRef'[q] > 0 <=> rqRef[q] > 0
    BY <2>1, <2>2
  <2> QED BY <2>1, <2>3, ListKept
<1>10. ASSUME NEW j \in jobs, AnswerHttp(j) PROVE SourcesShared'
  <2> DEFINE last == {k \in jobs : k.rq = j.rq} = {j}
  <2>1. /\ turn = NoTurn /\ Kind[j.src] = "http" /\ jobs' = jobs \ {j} /\ UNCHANGED <<src, slRef>>
        /\ turn'.owes = "nothing" /\ j.rq \in Requests /\ j.src \in Sources
    BY <1>10 DEF AnswerHttp, Idle, NoTurn
  <2>2. PICK ok \in BOOLEAN :
          /\ Found(j.rq, IF ok THEN {Fetched(j.src, j.gap)} ELSE {}, desired[j.rq])
          /\ srcRef' = [srcRef EXCEPT ![j.src] = @ + (IF ok THEN 1 ELSE 0) - (IF last THEN 1 ELSE 0)]
    BY <1>10 DEF AnswerHttp
  <2> DEFINE f == Fetched(j.src, j.gap)  found == IF ok THEN {f} ELSE {}
  <2>3. f.origin = j.src /\ f.from = j.gap[1]
    <3>1. j.gap \in Nat \X Nat /\ j.gap[1] <= j.gap[2]
      BY <2>1 DEF Types, Asked
    <3> QED BY <2>1, <3>1, FetchedChunk
  <2>4. f \notin chunks[j.rq]
    BY <2>3 DEF Course, Unanswered
  <2> HIDE DEF f
  <2>5. IsFiniteSet(found) /\ Cardinality(found) = IF ok THEN 1 ELSE 0
    BY FS_Singleton, FS_EmptySet
  <2>6. Finds(j.rq, j.src, found)
    BY <2>2, <2>3, <2>4, <2>5 DEF Finds, Found, f
  <2>7. \A s \in Sources : One(turn'.owes = "job" /\ turn'.from = s) = IF s = j.src THEN 0 ELSE 0
    BY <2>1 DEF One
  <2>8. last \in BOOLEAN
    OBVIOUS
  <2>9. srcRef' = [srcRef EXCEPT ![j.src] = @ + Cardinality(found) + 0 - One(last)]
    <3>1. srcRef[j.src] \in Int /\ One(last) = IF last THEN 1 ELSE 0
      BY <1>0, <2>1 DEF One
    <3> DEFINE n == srcRef[j.src]
    <3>2. n + (IF ok THEN 1 ELSE 0) - (IF last THEN 1 ELSE 0) = n + Cardinality(found) + 0 - One(last)
      <4> HIDE DEF last, found, n
      <4> QED BY <2>5, <3>1 DEF n
    <3> HIDE DEF last, found
    <3> QED BY <2>2, <3>2 DEF last
  <2> HIDE DEF found
  <2> QED BY <2>1, <2>6, <2>7, <2>8, <2>9, AnswersGive
<1>11. ASSUME NEW j \in jobs, AnswerFile(j) PROVE SourcesShared'
  <2> DEFINE last == {k \in jobs : k.rq = j.rq} = {j}
  <2>1. /\ turn = NoTurn /\ Kind[j.src] = "file" /\ jobs' = jobs \ {j} /\ UNCHANGED <<src, slRef>>
        /\ turn'.owes = "job" /\ turn'.from = j.src /\ j.rq \in Requests /\ j.src \in Sources
    BY <1>11 DEF AnswerFile, Idle
  <2>2. PICK G \in SUBSET Gaps(Expand(desired[j.rq], BlockSize[j.src])) :
          /\ Found(j.rq, {Fetched(j.src, g) : g \in G}, desired[j.rq])
          /\ srcRef' = [srcRef EXCEPT ![j.src] = @ + Cardinality(G)]
    BY <1>11 DEF AnswerFile
  <2> DEFINE found == {Fetched(j.src, g) : g \in G}
  <2>3. IsFiniteSet(found) /\ Cardinality(found) = Cardinality(G)
    <3>1. Expand(desired[j.rq], BlockSize[j.src]) \in SUBSET Units
      BY <2>1, ExpandStays DEF Counted, Inside
    <3> QED BY <2>1, <2>2, <3>1, FetchedCount
  <2>4. \A c \in found : c.origin = j.src
    BY DEF Fetched
  <2>5. \A c \in chunks[j.rq] : c.origin # j.src
    BY <2>1 DEF Course, Unanswered
  <2>6. Finds(j.rq, j.src, found)
    BY <2>2, <2>3, <2>4, <2>5 DEF Finds, Found
  <2>7. \A s \in Sources : One(turn'.owes = "job" /\ turn'.from = s) = IF s = j.src THEN 1 ELSE 0
    BY <2>1 DEF One
  <2>8. last \in BOOLEAN /\ last
    BY <2>1, AloneAtFile
  <2>9. srcRef' = [srcRef EXCEPT ![j.src] = @ + Cardinality(found) + 1 - One(last)]
    <3>1. srcRef[j.src] \in Int /\ One(last) = 1 /\ Cardinality(found) \in Nat
      BY <1>0, <2>1, <2>3, <2>8, FS_CardinalityType DEF One
    <3> DEFINE n == srcRef[j.src]
    <3>2. n + Cardinality(G) = n + Cardinality(found) + 1 - One(last)
      <4> HIDE DEF last, found, n
      <4> QED BY <2>3, <3>1 DEF n
    <3> HIDE DEF last, found
    <3> QED BY <2>2, <3>2
  <2> HIDE DEF found
  <2> QED BY <2>1, <2>6, <2>7, <2>8, <2>9, AnswersGive
<1>12. ASSUME UNCHANGED vars \/ \E s \in Sources : Evict(s) \/ Reflect(s) \/ Forgive(s)
       PROVE  SourcesShared' /\ ListShared'
  <2>1. UNCHANGED <<src, chunks, jobs, srcRef, turn, slRef, asked, rqRef>>
    BY <1>12 DEF Evict, Reflect, Forgive, rqVars, refVars, vars
  <2> QED BY <1>1, <2>1, ListKept DEF SameDebt
<1> QED BY <1>2, <1>3, <1>4, <1>7, <1>8, <1>9, <1>10, <1>11, <1>12 DEF Next, Step, Main, Answer

\* A step of r leaves the others on their course.
LEMMA OthersOnCourse ==
  ASSUME Types, Types', Course, NEW r \in Requests,
         turn = NoTurn \/ turn.rq = r, turn' = NoTurn \/ turn'.rq = r,
         \A q \in Requests : q # r => /\ stage'[q] = stage[q] /\ src'[q] = src[q]
                                      /\ replies'[q] = replies[q] /\ chunks'[q] = chunks[q]
  PROVE  \A q \in Requests : q # r => OnCourse(q)'
<1> SUFFICES ASSUME NEW q \in Requests, q # r PROVE OnCourse(q)'
  OBVIOUS
<1>1. ~Writing(q) /\ ~Writing(q)'
  BY Constants DEF Writing, NoTurn
<1> QED BY <1>1 DEF Course, OnCourse

LEMMA CourseKept ==
  /\ Types /\ Types' /\ Hands /\ Counted /\ Course /\ SourcesShared /\ [Next]_vars => Course'
<1> SUFFICES ASSUME Types, Types', Hands, Counted, Course, SourcesShared, [Next]_vars
             PROVE  Course'
  OBVIOUS
<1> USE RequestOfJob
<1>0. /\ \A r \in Requests : src[r] \in Nat /\ \A c \in chunks[r] : c.origin \in Nat \ {0}
      /\ \A s \in Sources : s \in Nat \ {0}
  <2>1. \A r \in Requests : \A c \in chunks[r] : c.origin \in Sources
    BY DEF Types, Pieces
  <2>2. \A r \in Requests : src[r] \in Sources \cup {0}
    BY DEF Types
  <2>3. Sources \subseteq Nat \ {0} /\ 0 \in Nat
    BY Constants
  <2>4. \A r \in Requests : src[r] \in Nat
    BY <2>2, <2>3
  <2>5. \A r \in Requests : \A c \in chunks[r] : c.origin \in Nat \ {0}
    BY <2>1, <2>3
  <2> QED BY <2>3, <2>4, <2>5
\* No chunk comes, and no job.
<1>1. ASSUME NEW r \in Requests, turn = NoTurn \/ turn.rq = r, turn' = NoTurn \/ turn'.rq = r,
             \A q \in Requests : q # r => /\ stage'[q] = stage[q] /\ src'[q] = src[q]
                                          /\ replies'[q] = replies[q] /\ chunks'[q] = chunks[q],
             OnCourse(r)', chunks'[r] \subseteq chunks[r], jobs' \subseteq jobs,
             turn'.owes = "job" <=> turn'.from # 0
      PROVE  Course'
  <2>1. \A q \in Requests : OnCourse(q)' /\ chunks'[q] \subseteq chunks[q]
    BY <1>1, OthersOnCourse
  <2>2. \A j \in jobs' : Unanswered(j)'
    BY <1>1, <2>1 DEF Course, Unanswered
  <2>3. \A j, k \in jobs' : j.rq = k.rq /\ Kind[j.src] = "http" /\ j.gap[1] = k.gap[1] => j = k
    BY <1>1 DEF Course
  <2> QED BY <1>1, <2>1, <2>2, <2>3 DEF Course
<1>2. ASSUME NEW r \in Requests, Arrive(r) PROVE Course'
  <2>1. /\ turn = NoTurn /\ stage[r] = "new" /\ chunks[r] = {} /\ src[r] = 0
        /\ UNCHANGED <<src, chunks, jobs>>
    BY <1>2 DEF Arrive, Idle, Course, OnCourse
  <2>2. stage'[r] \in {"running", "over"}
        /\ \A q \in Requests : q # r => stage'[q] = stage[q] /\ replies'[q] = replies[q]
    BY <1>2, ReplyTypes DEF Arrive, Types
  <2>3. /\ turn' = NoTurn \/ turn'.rq = r
        /\ turn'.owes = "job" <=> turn'.from # 0
    BY <1>2, <2>1 DEF Arrive, NoTurn
  <2>4. OnCourse(r)'
    BY <2>1, <2>2 DEF OnCourse
  <2> QED BY <1>1, <2>1, <2>2, <2>3, <2>4
<1>3. CASE Unwind
  <2>1. turn.step = "unwind" /\ turn' = NoTurn /\ UNCHANGED <<stage, src, replies, chunks, jobs>>
    BY <1>3 DEF Unwind, rqVars
  <2>2. \A q \in Requests : ~Writing(q) /\ ~Writing(q)'
    BY <2>1 DEF Writing, NoTurn
  <2>3. \A q \in Requests : OnCourse(q)'
    BY <2>1, <2>2 DEF Course, OnCourse
  <2>4. \A j \in jobs' : Unanswered(j)'
    BY <2>1 DEF Course, Unanswered
  <2> QED BY <2>1, <2>3, <2>4 DEF Course, NoTurn
<1>4. CASE UNCHANGED <<stage, src, replies, chunks, jobs, turn>>
  BY <1>4 DEF Course, OnCourse, Unanswered, Writing, Current
\* The end of a request, wherever it comes
<1>5. ASSUME NEW r \in Requests, turn.rq = r, Finish(r), UNCHANGED <<chunks, jobs>>,
             \A q \in Requests : q # r => replies'[q] = replies[q],
             chunks[r] # {} => replies'[r] = <<"error">>
      PROVE  Course'
  <2>1. /\ stage'[r] = "over" /\ src'[r] = 0 /\ Yield
        /\ \A q \in Requests : q # r => stage'[q] = stage[q] /\ src'[q] = src[q]
    BY <1>5 DEF Finish, Types
  <2>2. /\ turn' = NoTurn \/ turn'.rq = r
        /\ turn'.owes = "job" <=> turn'.from # 0
        /\ ~Writing(r)'
    BY <1>5, <2>1, Constants DEF Yield, Types, Turns, NoTurn, Course, Writing
  <2>3. OnCourse(r)'
    BY <1>5, <2>1, <2>2 DEF OnCourse
  <2> QED BY <1>1, <1>5, <2>1, <2>2, <2>3
<1>6. ASSUME NEW r \in Requests, RunNext(r) PROVE Course'
  <2>1. /\ turn.rq = r /\ turn.step = "next" /\ stage[r] = "running" /\ replies[r] = <<>>
        /\ \A j \in jobs : j.rq # r
    BY <1>6 DEF RunNext, Fail, Fulfil, Exhaust, Skip, ReadCache, ReadHttp, ReadFile, Asks,
                Wanting, Running, Hands, Answered, Held, InHand, Writing
  <2>2. (turn.owes = "job" <=> turn.from # 0) /\ \A c \in chunks[r] : c.origin <= src[r]
    BY <2>1 DEF Course, OnCourse, Writing
  <2>3. CASE Fail(r) \/ Exhaust(r)
    <3>1. Finish(r) /\ Reply(r, "error") /\ UNCHANGED <<chunks, jobs>>
      BY <2>3 DEF Fail, Exhaust
    <3> QED BY <1>5, <2>1, <3>1, ReplyTypes
  <2>4. CASE Fulfil(r)
    <3>1. /\ Reply(r, "ok") /\ turn' = [turn EXCEPT !.step = "write"]
          /\ src' = [src EXCEPT ![r] = 0] /\ UNCHANGED <<stage, chunks, jobs>>
      BY <2>4 DEF Fulfil
    <3>2. /\ turn'.rq = r /\ turn'.step = "write" /\ (turn'.owes = "job" <=> turn'.from # 0)
          /\ src'[r] = 0 /\ \A q \in Requests : q # r => src'[q] = src[q]
      BY <2>1, <2>2, <3>1 DEF Types, Turns
    <3>3. OnCourse(r)'
      <4>1. chunks'[r] # {} => Current(r)' \in chunks[r]
        BY <3>1 DEF Current
      <4>2. chunks'[r] # {} => src'[r] < Current(r)'.origin
        BY <1>0, <3>2, <4>1
      <4> QED BY <2>1, <3>1, <3>2, <4>2 DEF OnCourse, Writing
    <3> QED BY <1>1, <2>1, <3>1, <3>2, <3>3, ReplyTypes
\* The request goes on, and may find chunks where it comes.
  <2>5. ASSUME NEW t \in Sources, MoveOn(r).to = t, src' = [src EXCEPT ![r] = t],
               UNCHANGED <<stage, replies>>,
               turn' = turn \/ Yield,
               \A q \in Requests : q # r => chunks'[q] = chunks[q],
               \A c \in chunks'[r] : c \in chunks[r] \/ c.origin = t
        PROVE  /\ \A q \in Requests : OnCourse(q)'
               /\ turn'.owes = "job" <=> turn'.from # 0
               /\ \A c \in chunks[r] : c.origin # t
    <3>1. t > src[r] /\ t \in Nat \ {0} /\ src[r] \in Nat
      BY <1>0, <2>5, NextOf
    <3>2. \A c \in chunks[r] : c.origin \in Nat /\ c.origin <= src[r] /\ c.origin < t
      BY <1>0, <2>2, <3>1
    <3>3. \A c \in chunks'[r] : c.origin <= t
      BY <2>5, <3>1, <3>2
    <3>4. /\ turn' = NoTurn \/ turn'.rq = r
          /\ turn'.owes = "job" <=> turn'.from # 0
          /\ ~Writing(r)'
      BY <2>1, <2>2, <2>5, Constants DEF Yield, Types, Turns, NoTurn, Writing
    <3>5. src'[r] = t /\ \A q \in Requests : q # r => src'[q] = src[q]
      BY <2>5 DEF Types
    <3>6. OnCourse(r)'
      BY <2>1, <2>5, <3>3, <3>4, <3>5 DEF OnCourse
    <3>7. \A q \in Requests : OnCourse(q)'
      BY <2>1, <2>5, <3>4, <3>5, <3>6, OthersOnCourse
    <3>8. \A c \in chunks[r] : c.origin # t
      BY <3>1, <3>2
    <3> QED BY <3>4, <3>7, <3>8
  <2>6. ASSUME NEW t \in Sources, Skip(r, t) \/ ReadCache(r, t) PROVE Course'
    <3>1. /\ MoveOn(r).to = t /\ src' = [src EXCEPT ![r] = t]
          /\ UNCHANGED <<stage, replies, turn, jobs>>
      BY <2>6 DEF Skip, ReadCache, Asks
    <3>2. /\ \A q \in Requests : q # r => chunks'[q] = chunks[q]
          /\ \A c \in chunks'[r] : c \in chunks[r] \/ c.origin = t
      <4>1. CASE Skip(r, t)
        BY <4>1 DEF Skip
      <4>2. CASE ReadCache(r, t)
        <5>1. PICK H : Found(r, {CacheChunk(t, h) : h \in H}, Expand(desired[r], BlockSize[t]))
          BY <4>2 DEF ReadCache
        <5>2. \A c \in {CacheChunk(t, h) : h \in H} : c.origin = t
          BY DEF CacheChunk
        <5> QED BY <5>1, <5>2 DEF Found, Types
      <4> QED BY <2>6, <4>1, <4>2
    <3>3. (\A q \in Requests : OnCourse(q)') /\ (turn'.owes = "job" <=> turn'.from # 0)
      BY <2>5, <3>1, <3>2
    <3>4. \A j \in jobs' : Unanswered(j)'
      BY <2>1, <3>1, <3>2 DEF Course, Unanswered
    <3> QED BY <3>1, <3>3, <3>4 DEF Course
  <2>7. ASSUME NEW t \in Sources, ReadHttp(r, t) \/ ReadFile(r, t) PROVE Course'
    <3>1. /\ MoveOn(r).to = t /\ src' = [src EXCEPT ![r] = t] /\ Yield
          /\ UNCHANGED <<stage, replies, chunks>>
      BY <2>7 DEF ReadHttp, ReadFile, Asks
    <3>2. /\ \A q \in Requests : OnCourse(q)'
          /\ turn'.owes = "job" <=> turn'.from # 0
          /\ \A c \in chunks[r] : c.origin # t
      BY <2>5, <3>1
    <3>3. /\ \A j \in jobs' : j \in jobs \/ (j.rq = r /\ j.src = t)
          /\ jobs \subseteq jobs'
      BY <2>7 DEF ReadHttp, ReadFile
    <3>4. \A j \in jobs' : Unanswered(j)'
      BY <2>1, <3>1, <3>2, <3>3 DEF Course, Unanswered
    <3>5. ASSUME NEW j \in jobs', NEW k \in jobs', j.rq = k.rq, Kind[j.src] = "http", j.gap[1] = k.gap[1]
          PROVE  j = k
      <4>1. CASE j \in jobs \/ k \in jobs
        <5>1. j \in jobs /\ k \in jobs
          BY <2>1, <3>3, <3>5, <4>1
        <5> QED BY <3>5, <5>1 DEF Course
      <4>2. CASE j \notin jobs /\ k \notin jobs
        <5>1. j.src = t /\ ReadHttp(r, t)
          BY <2>7, <3>3, <3>5, <4>2 DEF ReadHttp, ReadFile
        <5>2. PICK g \in Gaps(Expand(desired[r], BlockSize[t])) : j = [rq |-> r, src |-> t, gap |-> g]
          BY <4>2, <5>1 DEF ReadHttp
        <5>3. PICK h \in Gaps(Expand(desired[r], BlockSize[t])) : k = [rq |-> r, src |-> t, gap |-> h]
          BY <4>2, <5>1 DEF ReadHttp
        <5>4. Expand(desired[r], BlockSize[t]) \in SUBSET Nat
          <6>1. desired[r] \in SUBSET Nat /\ BlockSize[t] \in Nat \ {0}
            BY Constants DEF Types
          <6> QED BY <6>1, ExpandCovers
        <5>5. g[1] = h[1]
          BY <3>5, <5>2, <5>3
        <5>6. g = h
          BY <5>4, <5>5, GapsApart
        <5> QED BY <5>2, <5>3, <5>6
      <4> QED BY <4>1, <4>2
    <3> QED BY <3>2, <3>4, <3>5 DEF Course
  <2> QED BY <1>6, <2>3, <2>4, <2>6, <2>7 DEF RunNext
<1>7. ASSUME NEW r \in Requests, RunNextWrite(r) PROVE Course'
  <2>1. turn.rq = r /\ turn.step = "write" /\ stage[r] = "running"
    BY <1>7 DEF RunNextWrite, WriteNext, FreeChunk, WritesDone, Hands, Held, InHand, Writing
  <2>2. CASE WritesDone(r)
    <3>1. Finish(r) /\ chunks[r] = {} /\ UNCHANGED <<chunks, jobs, replies>>
      BY <2>2 DEF WritesDone
    <3> QED BY <1>5, <2>1, <3>1
  <2>3. ASSUME NEW t \in Sources, WriteNext(r, t) PROVE Course'
    <3>1. /\ MoveOn(r).to = t /\ src' = [src EXCEPT ![r] = t] /\ t # Current(r).origin
          /\ chunks[r] # {} /\ UNCHANGED <<stage, replies, chunks, jobs, turn>>
      BY <2>3 DEF WriteNext
    <3>2. Current(r) \in chunks[r] /\ Writing(r)
      BY <2>1, <3>1 DEF Current, Writing
    <3>3. Linked(Current(r).origin) /\ src[r] < Current(r).origin /\ Current(r).origin \in Sources
      BY <3>1, <3>2, InUse DEF Course, OnCourse, Types, Pieces
    <3>4. t <= Current(r).origin
      <4>1. \A s \in Sources : s > src[r] /\ Linked(s) => t # 0 /\ t <= s
        BY <3>1, NextOf
      <4> QED BY <1>0, <3>3, <4>1
    <3>5. t < Current(r).origin
      BY <1>0, <3>1, <3>3, <3>4
    <3>6. src'[r] = t /\ \A q \in Requests : q # r => src'[q] = src[q]
      BY <3>1 DEF Types
    <3>7. OnCourse(r)'
      <4>1. Current(r)' = Current(r) /\ Writing(r)'
        BY <3>1, <3>2 DEF Current, Writing
      <4> QED BY <2>1, <3>1, <3>5, <3>6, <4>1 DEF OnCourse
    <3> QED BY <1>1, <2>1, <3>1, <3>6, <3>7 DEF Course
  <2>4. CASE FreeChunk(r)
    <3>1. /\ src' = [src EXCEPT ![r] = 0] /\ chunks' = [chunks EXCEPT ![r] = @ \ {Current(r)}]
          /\ UNCHANGED <<stage, replies, jobs, turn>>
      BY <2>4 DEF FreeChunk
    <3>2. /\ src'[r] = 0 /\ chunks'[r] \subseteq chunks[r]
          /\ \A q \in Requests : q # r => src'[q] = src[q] /\ chunks'[q] = chunks[q]
      BY <3>1 DEF Types
    <3>3. OnCourse(r)'
      <4>1. chunks'[r] # {} => Current(r)' \in chunks[r]
        BY <3>2 DEF Current
      <4>2. chunks'[r] # {} => src'[r] < Current(r)'.origin
        BY <1>0, <3>2, <4>1
      <4> QED BY <2>1, <3>1, <3>2, <4>2 DEF OnCourse, Writing
    <3> QED BY <1>1, <2>1, <3>1, <3>2, <3>3 DEF Course
  <2> QED BY <1>7, <2>2, <2>3, <2>4 DEF RunNextWrite
<1>8. ASSUME NEW j \in jobs, AnswerHttp(j) PROVE Course'
  <2> DEFINE r == j.rq
  <2>1. /\ turn = NoTurn /\ Kind[j.src] = "http" /\ jobs' = jobs \ {j}
        /\ UNCHANGED <<stage, src, replies>>
        /\ turn' = NoTurn \/ turn' = [rq |-> r, step |-> "next", owes |-> "nothing", from |-> 0]
    BY <1>8 DEF AnswerHttp, Idle
  <2>2. r \in Requests /\ j.src \in Sources /\ src[r] = j.src /\ stage[r] = "running"
        /\ \A c \in chunks[r] : c.origin <= src[r]
    BY <2>1, Constants DEF Hands, OneHandAtATime, Course, OnCourse, Writing, NoTurn
  <2>3. PICK ok \in BOOLEAN : Found(r, IF ok THEN {Fetched(j.src, j.gap)} ELSE {}, desired[r])
    BY <1>8 DEF AnswerHttp
  <2>4. Fetched(j.src, j.gap).origin = j.src /\ Fetched(j.src, j.gap).from = j.gap[1]
    <3>1. j.gap \in Nat \X Nat /\ j.gap[1] <= j.gap[2]
      BY <2>1 DEF Types, Asked
    <3> QED BY <2>2, <3>1, FetchedChunk
  <2>5. /\ \A q \in Requests : q # r => chunks'[q] = chunks[q]
        /\ \A c \in chunks'[r] : c \in chunks[r] \/ (c.origin = j.src /\ c.from = j.gap[1])
    BY <2>2, <2>3, <2>4 DEF Found, Types
  <2>6. OnCourse(r)'
    <3>1. \A c \in chunks'[r] : c.origin <= src[r]
      BY <1>0, <2>2, <2>5
    <3>2. ~Writing(r)'
      BY <2>1 DEF Writing, NoTurn
    <3> QED BY <2>1, <2>2, <3>1, <3>2 DEF OnCourse
  <2> HIDE DEF r
  <2>7. turn' = NoTurn \/ turn'.rq = r
    BY <2>1
  <2>8. \A q \in Requests : OnCourse(q)'
    BY <2>1, <2>2, <2>5, <2>6, <2>7, OthersOnCourse
  <2>9. ASSUME NEW k \in jobs' PROVE Unanswered(k)'
    <3>1. k \in jobs /\ k # j /\ Unanswered(k) /\ k.rq \in Requests
      BY <2>1, <2>9 DEF Course
    <3>2. CASE k.rq = r
      <4>1. k.src = j.src /\ k.gap[1] # j.gap[1]
        BY <2>1, <2>2, <3>1, <3>2 DEF Hands, OneHandAtATime, Course, r
      <4> QED BY <2>1, <2>5, <3>1, <3>2, <4>1 DEF Unanswered
    <3>3. CASE k.rq # r
      BY <2>5, <3>1, <3>3 DEF Unanswered
    <3> QED BY <3>2, <3>3
  <2>10. \A i, k \in jobs' : i.rq = k.rq /\ Kind[i.src] = "http" /\ i.gap[1] = k.gap[1] => i = k
    BY <2>1 DEF Course
  <2>11. turn'.owes = "job" <=> turn'.from # 0
    BY <2>1 DEF NoTurn
  <2> QED BY <2>8, <2>9, <2>10, <2>11 DEF Course
<1>9. ASSUME NEW j \in jobs, AnswerFile(j) PROVE Course'
  <2> DEFINE r == j.rq
  <2>1. /\ turn = NoTurn /\ Kind[j.src] = "file" /\ jobs' = jobs \ {j}
        /\ UNCHANGED <<stage, src, replies>>
        /\ turn' = [rq |-> r, step |-> "next", owes |-> "job", from |-> j.src]
    BY <1>9 DEF AnswerFile, Idle
  <2>2. r \in Requests /\ j.src \in Sources /\ src[r] = j.src /\ stage[r] = "running"
        /\ \A c \in chunks[r] : c.origin <= src[r]
    BY <2>1, Constants DEF Hands, OneHandAtATime, Course, OnCourse, Writing, NoTurn
  <2>3. PICK G : Found(r, {Fetched(j.src, g) : g \in G}, desired[r])
    BY <1>9 DEF AnswerFile
  <2>4. \A c \in {Fetched(j.src, g) : g \in G} : c.origin = j.src
    BY DEF Fetched
  <2>5. /\ \A q \in Requests : q # r => chunks'[q] = chunks[q]
        /\ \A c \in chunks'[r] : c \in chunks[r] \/ c.origin = j.src
    BY <2>2, <2>3, <2>4 DEF Found, Types
  <2>6. OnCourse(r)'
    <3>1. \A c \in chunks'[r] : c.origin <= src[r]
      BY <1>0, <2>2, <2>5
    <3>2. ~Writing(r)'
      BY <2>1 DEF Writing, NoTurn
    <3> QED BY <2>1, <2>2, <3>1, <3>2 DEF OnCourse
  <2>7. \A k \in jobs' : k \in jobs /\ k.rq # r
    BY <2>1, AloneAtFile
  <2> HIDE DEF r
  <2>8. turn'.rq = r /\ (turn'.owes = "job" <=> turn'.from # 0)
    BY <1>0, <2>1, <2>2
  <2>9. \A q \in Requests : OnCourse(q)'
    BY <2>1, <2>2, <2>5, <2>6, <2>8, OthersOnCourse
  <2>10. \A k \in jobs' : Unanswered(k)'
    BY <2>1, <2>5, <2>7 DEF Unanswered, Course
  <2>11. \A i, k \in jobs' : i.rq = k.rq /\ Kind[i.src] = "http" /\ i.gap[1] = k.gap[1] => i = k
    BY <2>7 DEF Course
  <2> QED BY <2>8, <2>9, <2>10, <2>11 DEF Course
<1>10. ASSUME \/ Quit \/ UNCHANGED vars
              \/ \E s \in Sources : Evict(s) \/ Reflect(s) \/ Forgive(s)
       PROVE  UNCHANGED <<stage, src, replies, chunks, jobs, turn>>
  BY <1>10 DEF Quit, Evict, Reflect, Forgive, rqVars, vars
<1> QED BY <1>2, <1>3, <1>4, <1>6, <1>7, <1>8, <1>9, <1>10 DEF Next, Step, Main, Answer

-----------------------------------------------------------------------------
(* No error without a cause *)

\* The file's uri is for some source.
Served == \A k \in Schemes : \E s \in Sources : Kind[s] = k

\* The block that u is in begins before the end of the file.
Near(u) == \A s \in Sources : BlockSize[s] * (u \div BlockSize[s]) < FileLen

Nearby == /\ \A r \in Requests : \A u \in desired[r] : Near(u)
          /\ \A j \in jobs : Kind[j.src] = "http" => j.gap[1] < FileLen

\* An answer that r waits for is to bring u.
ToCome(r, u) == \E j \in jobs : /\ j.rq = r /\ Kind[j.src] = scheme
                                /\ Kind[j.src] = "http" => u \in j.gap[1]..j.gap[2]

\* r has come to a source that has the file.
Reached(r) == ~Writing(r) /\ \E s \in Sources : s <= src[r] /\ Kind[s] = scheme

Untroubled(r) == /\ ~failed[r] /\ ~subFailed[r] /\ replies[r] # <<"error">>
                 /\ Reached(r) => \A u \in desired[r] : ToCome(r, u)

NoTrouble == failing = {} /\ \A r \in Requests : Untroubled(r)

Smooth == ~PastTheEnd => Nearby /\ (~asked /\ ~faulted => NoTrouble)

LEMMA NearBlock ==
  ASSUME SameBlocks, NEW S \in SUBSET Nat, \A u \in S : Near(u), NEW s \in Sources,
         NEW v \in Expand(S, BlockSize[s])
  PROVE  Near(v)
<1>1. PICK u \in S : v \in Block(BlockSize[s], u \div BlockSize[s])
  BY DEF Expand, BlocksOf
<1> SUFFICES ASSUME NEW t \in Sources PROVE BlockSize[t] * (v \div BlockSize[t]) < FileLen
  BY DEF Near
<1> DEFINE n == BlockSize[t]  b == u \div n
<1>2. n \in Nat \ {0} /\ BlockSize[s] = n /\ u \in Nat
  BY Constants DEF SameBlocks
<1>3. b \in Nat /\ n * b \in Nat /\ n * b < FileLen
  BY <1>2, BlockOf DEF Near
<1>4. v \in Block(n, b)
  BY <1>1, <1>2
<1> HIDE DEF b, n
<1>5. v \in Nat /\ n * b <= v /\ v < n * b + n
  BY <1>2, <1>3, <1>4 DEF Block
<1>6. v \div n = b
  BY <1>2, <1>3, <1>5
<1> QED BY <1>3, <1>6 DEF n

\* What lies within the file does.
LEMMA NearBegins ==
  ASSUME NEW u \in Nat, u < FileLen PROVE Near(u)
<1> SUFFICES ASSUME NEW t \in Sources PROVE BlockSize[t] * (u \div BlockSize[t]) < FileLen
  BY DEF Near
<1>1. BlockSize[t] \in Nat \ {0} /\ FileLen \in Nat
  BY Constants
<1> DEFINE m == BlockSize[t] * (u \div BlockSize[t])
<1>2. m \in Nat /\ m <= u
  BY <1>1, BlockOf
<1> HIDE DEF m
<1>3. m < FileLen
  BY <1>1, <1>2
<1> QED BY <1>3 DEF m

\* All of a gap is answered for by what is fetched for it.
LEMMA FetchedCovers ==
  ASSUME NEW s \in Sources, NEW g \in Nat \X Nat, g[1] <= g[2], NEW u \in g[1]..g[2]
  PROVE  LET c == Fetched(s, g) IN u \in Span(c) \/ (c.eof /\ u >= c.from + c.len)
<1> DEFINE x == g[1]  y == g[2] + 1
           end == IF y <= FileLen THEN y ELSE IF x <= FileLen THEN FileLen ELSE x
           c == Fetched(s, g)
<1>1. x \in Nat /\ y \in Nat /\ x < y /\ FileLen \in Nat /\ u \in Nat /\ x <= u /\ u < y
  BY Constants
<1>2. c.from = x /\ c.len = end - x /\ (y > FileLen => c.eof)
  <2> DEFINE eof == IF Kind[s] = "http" THEN y >= FileLen ELSE y > FileLen
  <2>1. c = [from |-> x, len |-> end - x, origin |-> s, quality |-> "good", eof |-> eof]
    BY DEF Fetched
  <2>2. y > FileLen => eof
    <3> HIDE DEF x, y
    <3> QED BY <1>1
  <2> HIDE DEF x, y, end, eof, c
  <2> QED BY <2>1, <2>2
<1> HIDE DEF x, y, c
<1>3. c.from + c.len = end /\ Span(c) = x..(end - 1)
  BY <1>1, <1>2 DEF Span
<1>4. u \in Span(c) \/ (c.eof /\ u >= end)
  BY <1>1, <1>2, <1>3
<1> QED BY <1>3, <1>4 DEF c

\* A request desires no more than before but what is found, and no other does.
LEMMA FoundDesire ==
  ASSUME Types, NEW r \in Requests, NEW found, NEW wide, Found(r, found, wide)
  PROVE  /\ desired'[r] \subseteq wide
         /\ \A q \in Requests : q # r => desired'[q] = desired[q]
         /\ \A u \in desired'[r] : \A c \in found : u \notin Span(c) /\ (c.eof => u < c.from + c.len)
BY DEF Types, Found

LEMMA NearKept ==
  ASSUME SameBlocks, Types, Nearby, ~PastTheEnd', [Next]_vars
  PROVE  Nearby'
<1>0. ASSUME \A q \in Requests : desired'[q] \subseteq desired[q], jobs' \subseteq jobs PROVE Nearby'
  BY <1>0 DEF Nearby, Near
<1>1. ASSUME NEW r \in Requests, Arrive(r) PROVE Nearby'
  <2>1. CASE Want[r] # {}
    <3>1. /\ stage' = [stage EXCEPT ![r] = "running"] /\ jobs' = jobs
          /\ desired' = [desired EXCEPT ![r] = Want[r]]
      BY <1>1, <2>1 DEF Arrive
    <3>2. Want[r] \subseteq 0..(FileLen - 1)
      BY <3>1 DEF PastTheEnd, Types
    <3>3. \A u \in Want[r] : Near(u)
      BY <3>2, NearBegins, Constants
    <3> QED BY <3>1, <3>3 DEF Nearby, Near, Types
  <2>2. CASE Want[r] = {}
    BY <1>0, <1>1, <2>2 DEF Arrive
  <2> QED BY <2>1, <2>2
<1>2. ASSUME NEW r \in Requests, NEW t \in Sources, ReadCache(r, t) PROVE Nearby'
  <2> DEFINE wide == Expand(desired[r], BlockSize[t])
  <2>1. PICK H \in Hits(t, wide) : Found(r, {CacheChunk(t, h) : h \in H}, wide)
    BY <1>2 DEF ReadCache
  <2>2. desired[r] \in SUBSET Nat /\ \A u \in desired[r] : Near(u)
    BY DEF Types, Nearby
  <2>3. \A u \in wide : Near(u)
    BY <2>2, NearBlock
  <2> HIDE DEF wide
  <2>4. desired'[r] \subseteq wide /\ \A q \in Requests : q # r => desired'[q] = desired[q]
    BY <2>1, FoundDesire
  <2>5. jobs' = jobs
    BY <1>2 DEF ReadCache
  <2> QED BY <2>3, <2>4, <2>5 DEF Nearby, Near
<1>3. ASSUME NEW r \in Requests, NEW t \in Sources, ReadHttp(r, t) PROVE Nearby'
  <2> DEFINE wide == Expand(desired[r], BlockSize[t])
  <2>1. /\ jobs' = jobs \cup {[rq |-> r, src |-> t, gap |-> g] : g \in Gaps(wide)}
        /\ desired' = desired
    BY <1>3 DEF ReadHttp
  <2>2. desired[r] \in SUBSET Nat /\ \A u \in desired[r] : Near(u)
    BY DEF Types, Nearby
  <2>3. \A u \in wide : Near(u)
    BY <2>2, NearBlock
  <2>4. ASSUME NEW g \in Gaps(wide) PROVE g[1] < FileLen
    <3>1. g[1] \in wide /\ Begins(g[1], BlockSize[t])
      BY <2>2, GapsBegin, Constants DEF Gaps
    <3>2. BlockSize[t] * (g[1] \div BlockSize[t]) < FileLen
      BY <2>3, <3>1 DEF Near
    <3> QED BY <3>1, <3>2 DEF Begins
  <2> HIDE DEF wide
  <2> QED BY <2>1, <2>4 DEF Nearby, Near
<1>4. ASSUME NEW r \in Requests, NEW t \in Sources, ReadFile(r, t) PROVE Nearby'
  <2>1. jobs' = jobs \cup {[rq |-> r, src |-> t, gap |-> <<>>]} /\ desired' = desired /\ Kind[t] = "file"
    BY <1>4 DEF ReadFile
  <2> QED BY <2>1 DEF Nearby, Near
<1>5. ASSUME NEW j \in jobs, AnswerHttp(j) \/ AnswerFile(j) PROVE Nearby'
  <2>1. j.rq \in Requests
    BY RequestOfJob
  <2>2. jobs' \subseteq jobs /\ \E found : Found(j.rq, found, desired[j.rq])
    BY <1>5 DEF AnswerHttp, AnswerFile
  <2>3. \A q \in Requests : desired'[q] \subseteq desired[q]
    BY <2>1, <2>2, FoundDesire
  <2> QED BY <1>0, <2>2, <2>3
<1>6. CASE UNCHANGED <<desired, jobs>>
  BY <1>0, <1>6
<1>7. \/ UNCHANGED <<desired, jobs>>
      \/ \E r \in Requests : Arrive(r) \/ \E t \in Sources : ReadCache(r, t) \/ ReadHttp(r, t) \/ ReadFile(r, t)
      \/ \E j \in jobs : AnswerHttp(j) \/ AnswerFile(j)
  BY DEF Next, Step, Main, Answer, RunNext, RunNextWrite, vars, rqVars, Unwind, Quit, Fail, Fulfil, Exhaust,
         Skip, WriteNext, FreeChunk, WritesDone, Evict, Reflect, Forgive
<1> QED BY <1>1, <1>2, <1>3, <1>4, <1>5, <1>6, <1>7

-----------------------------------------------------------------------------
LEMMA OthersUntroubled ==
  ASSUME Types, NEW r \in Requests, \A q \in Requests : Untroubled(q), scheme' = scheme,
         turn = NoTurn \/ turn.rq = r, turn' = NoTurn \/ turn'.rq = r,
         \A q \in Requests : q # r => /\ failed'[q] = failed[q] /\ subFailed'[q] = subFailed[q]
                                      /\ replies'[q] = replies[q] /\ src'[q] = src[q]
                                      /\ desired'[q] = desired[q],
         \A j \in jobs : j.rq # r => j \in jobs',
         Untroubled(r)'
  PROVE  \A q \in Requests : Untroubled(q)'
<1> SUFFICES ASSUME NEW q \in Requests, q # r PROVE Untroubled(q)'
  OBVIOUS
<1>1. turn.rq # q /\ turn'.rq # q
  BY Constants DEF NoTurn
<1>2. Reached(q)' => Reached(q)
  BY <1>1 DEF Reached, Writing
<1>3. ASSUME NEW u, ToCome(q, u) PROVE ToCome(q, u)'
  BY <1>3 DEF ToCome
<1>4. Untroubled(q)
  OBVIOUS
<1> QED BY <1>2, <1>3, <1>4 DEF Untroubled

\* Where all sources are linked, the next is the one that follows.
LEMMA NextIsNext ==
  ASSUME Types, SourcesShared, ListShared, ~asked, NEW r \in Requests, NEW t, t = MoveOn(r).to
  PROVE  /\ t = 0 => \A s \in Sources : s <= src[r]
         /\ t # 0 => \A s \in Sources : s <= t => s <= src[r] \/ s = t
<1>1. slRef.strong > 0
  BY DEF ListShared
<1>2. ASSUME NEW s \in Sources PROVE Linked(s)
  <2>1. One(slRef.strong > 0) = 1
    BY <1>1 DEF One
  <2> QED BY <2>1, SharesInt DEF Linked
<1>3. \A s \in Sources : s > src[r] => t # 0 /\ t <= s
  BY <1>2, NextOf
<1>4. t \in Sources \cup {0} /\ src[r] \in Sources \cup {0} /\ Sources \subseteq Int
  BY NextOf, Constants
<1>6. \A x \in Sources \cup {0} : x \in Int
  BY <1>4
<1>5. t \in Int /\ src[r] \in Int
  BY <1>4, <1>6, Zenon
<1> QED BY <1>3, <1>4, <1>5

\* A request that still wants something has not come to who has the file.
LEMMA NotReached ==
  ASSUME Types, Hands, NEW r \in Requests, Untroubled(r), Wanting(r)
  PROVE  \A s \in Sources : s <= src[r] => Kind[s] # scheme
<1>1. turn.rq = r /\ turn.step = "next" /\ desired[r] # {}
  BY DEF Wanting, Running
<1>2. \A j \in jobs : j.rq # r
  BY <1>1 DEF Hands, Held, InHand
<1>3. ~Reached(r)
  BY <1>1, <1>2 DEF Untroubled, ToCome
<1> QED BY <1>1, <1>3 DEF Reached, Writing

\* The next source it comes to is the first that may have it.
LEMMA ComesTo ==
  ASSUME Types, Hands, SourcesShared, ListShared, ~asked, NEW r \in Requests, Untroubled(r),
         NEW t \in Sources, t = MoveOn(r).to, Wanting(r), src' = [src EXCEPT ![r] = t],
         scheme' = scheme, Reached(r)'
  PROVE  Kind[t] = scheme
<1>1. src'[r] = t /\ t # 0
  BY Constants DEF Types
<1>2. PICK s \in Sources : s <= t /\ Kind[s] = scheme
  BY <1>1 DEF Reached
<1>3. s <= src[r] \/ s = t
  BY <1>1, <1>2, NextIsNext
<1> QED BY <1>2, <1>3, NotReached

LEMMA AnswersCover ==
  ASSUME Types, NEW j \in jobs, Untroubled(j.rq), NEW found \in SUBSET Pieces,
         Found(j.rq, found, desired[j.rq]), turn = NoTurn, UNCHANGED <<scheme, src>>, jobs' = jobs \ {j},
         Kind[j.src] = scheme =>
           \A u \in desired[j.rq] : (Kind[j.src] = "http" => u \in j.gap[1]..j.gap[2]) =>
             \E c \in found : u \in Span(c) \/ (c.eof /\ u >= c.from + c.len)
  PROVE  Reached(j.rq)' => \A u \in desired'[j.rq] : ToCome(j.rq, u)'
<1> DEFINE r == j.rq
<1>1. r \in Requests
  BY RequestOfJob
<1>2. ASSUME Reached(r)', NEW u \in desired'[r] PROVE ToCome(r, u)'
  <2>1. Reached(r)
    BY <1>2 DEF Reached, Writing, NoTurn
  <2>2. u \in desired[r]
    BY <1>1, <1>2, FoundDesire
  <2>3. PICK k \in jobs : /\ k.rq = r /\ Kind[k.src] = scheme
                          /\ Kind[k.src] = "http" => u \in k.gap[1]..k.gap[2]
    BY <2>1, <2>2 DEF Untroubled, ToCome
  <2>4. k # j
    <3>1. ASSUME NEW c \in found PROVE u \notin Span(c) /\ (c.eof => u < c.from + c.len)
      BY <1>1, <1>2, FoundDesire
    <3>2. SUFFICES ASSUME k = j PROVE FALSE
      OBVIOUS
    <3>3. PICK c \in found : u \in Span(c) \/ (c.eof /\ u >= c.from + c.len)
      BY <2>2, <2>3, <3>2
    <3>4. u \in Nat /\ c.from + c.len \in Nat
      BY <1>1, <2>2 DEF Types, Pieces
    <3> QED BY <3>1, <3>3, <3>4
  <2> QED BY <2>3, <2>4 DEF ToCome
<1> QED BY <1>2

LEMMA TroubleAvoided ==
  ASSUME SameBlocks, Served, Types, Fits, Inside, Hands, Course, SourcesShared, ListShared,
         Nearby, NoTrouble, ~asked, ~faulted', [Next]_vars, ~asked'
  PROVE  NoTrouble'
<1>0. \A q \in Requests : Untroubled(q)
  BY DEF NoTrouble
<1> USE <1>0
<1>s. scheme' = scheme /\ scheme \in {"http", "file"} /\ scheme \in Schemes
  BY RequestAssumption DEF Next, vars, Fits
<1>e. <<"ok">> # <<"error">>
  BY EmptySeq
\* One request moves.
<1>a. ASSUME NEW r \in Requests, turn = NoTurn \/ turn.rq = r, turn' = NoTurn \/ turn'.rq = r,
             \A q \in Requests : q # r => /\ failed'[q] = failed[q] /\ subFailed'[q] = subFailed[q]
                                          /\ replies'[q] = replies[q] /\ src'[q] = src[q]
                                          /\ desired'[q] = desired[q],
             \A j \in jobs : j.rq # r => j \in jobs',
             ~failed'[r], ~subFailed'[r], replies'[r] # <<"error">>,
             Reached(r)' => \A u \in desired'[r] : ToCome(r, u)', failing' = failing
      PROVE  NoTrouble'
  <2>1. Untroubled(r)'
    BY <1>a DEF Untroubled
  <2>2. \A q \in Requests : Untroubled(q)'
    BY <1>a, <1>s, <2>1, OthersUntroubled
  <2> QED BY <1>a, <2>2 DEF NoTrouble
\* None does.
<1>b. ASSUME UNCHANGED <<failed, subFailed, replies, src, desired, jobs>>, failing' = {},
             \A q \in Requests : Writing(q)' <=> Writing(q)
      PROVE  NoTrouble'
  BY <1>b, <1>s DEF NoTrouble, Untroubled, Reached, ToCome
<1>n. \A r \in Requests : Reached(r)' => src'[r] # 0
  BY Constants DEF Reached
<1>1. ASSUME NEW r \in Requests, Arrive(r) PROVE NoTrouble'
  <2>1. /\ turn = NoTurn /\ stage[r] = "new" /\ UNCHANGED <<src, failed, subFailed, jobs, failing>>
        /\ turn' = NoTurn \/ turn'.rq = r
    BY <1>1 DEF Arrive, Idle
  <2>2. src[r] = 0 /\ replies[r] = <<>>
    BY <2>1 DEF Course, OnCourse, Hands, Answered
  <2>3. replies' = replies \/ Reply(r, "ok")
    BY <1>1 DEF Arrive
  <2>4. replies'[r] # <<"error">> /\ \A q \in Requests : q # r => replies'[q] = replies[q]
    BY <1>e, <2>2, <2>3, ReplyTypes, EmptySeq
  <2>5. \A q \in Requests : q # r => desired'[q] = desired[q]
    BY <1>1 DEF Arrive, Types
  <2>6. ~failed'[r] /\ ~subFailed'[r]
    BY <2>1 DEF Untroubled
  <2> QED BY <1>a, <1>n, <2>1, <2>2, <2>4, <2>5, <2>6
<1>2. ASSUME \/ Unwind \/ UNCHANGED vars \/ \E s \in Sources : Evict(s) \/ Reflect(s) \/ Forgive(s)
      PROVE  NoTrouble'
  <2>1. UNCHANGED <<failed, subFailed, replies, src, desired, jobs>> /\ failing' = {}
    BY <1>2 DEF Unwind, Evict, Reflect, Forgive, rqVars, vars, NoTrouble
  <2>2. turn' = turn \/ (turn.step = "unwind" /\ turn' = NoTurn)
    BY <1>2 DEF Unwind, Evict, Reflect, Forgive, vars
  <2>3. \A q \in Requests : Writing(q)' <=> Writing(q)
    BY <2>2 DEF Writing, NoTurn
  <2> QED BY <1>b, <2>1, <2>3
<1>3. ASSUME NEW r \in Requests, RunNext(r) PROVE NoTrouble'
  <2>1. turn.rq = r /\ turn.step = "next" /\ replies[r] = <<>> /\ ~failed[r] /\ ~subFailed[r]
        /\ failing = {}
    BY <1>3 DEF RunNext, Fail, Fulfil, Exhaust, Skip, ReadCache, ReadHttp, ReadFile, Asks,
                Wanting, Running, Hands, Answered, Held, InHand, Writing, Untroubled, NoTrouble
  <2>2. ~Fail(r)
    BY <2>1 DEF Fail
  <2>3. CASE Fulfil(r)
    <3>1. /\ Reply(r, "ok") /\ UNCHANGED <<desired, failed, jobs, subFailed, failing>>
          /\ src' = [src EXCEPT ![r] = 0] /\ turn'.rq = r
      BY <2>1, <2>3 DEF Fulfil, Types, Turns
    <3>2. src'[r] = 0 /\ \A q \in Requests : q # r => src'[q] = src[q]
      BY <3>1 DEF Types
    <3>3. replies'[r] # <<"error">> /\ \A q \in Requests : q # r => replies'[q] = replies[q]
      BY <1>e, <2>1, <3>1, ReplyTypes, EmptySeq
    <3> QED BY <1>a, <1>n, <2>1, <3>1, <3>2, <3>3
  <2>4. ~Exhaust(r)
    <3>1. SUFFICES ASSUME Wanting(r), MoveOn(r).to = 0 PROVE FALSE
      BY DEF Exhaust
    <3>2. PICK s \in Sources : Kind[s] = scheme
      BY <1>s DEF Served
    <3> QED BY <3>1, <3>2, NextIsNext, NotReached
  <2>5. ASSUME NEW t \in Sources, Skip(r, t) PROVE NoTrouble'
    <3>1. /\ Wanting(r) /\ t = MoveOn(r).to /\ src' = [src EXCEPT ![r] = t]
          /\ UNCHANGED <<desired, failed, replies, jobs, subFailed, turn, failing>>
      BY <2>5 DEF Skip
    <3>2. Kind[t] # scheme
      BY <1>s, <2>1, <2>5 DEF Skip, CanRead, PathOk
    <3>3. ~Reached(r)'
      BY <1>s, <3>1, <3>2, ComesTo
    <3>4. turn' = turn /\ \A q \in Requests : q # r => src'[q] = src[q]
      BY <3>1 DEF Types
    <3> QED BY <1>a, <2>1, <3>1, <3>3, <3>4
  <2>6. ASSUME NEW t \in Sources, ReadCache(r, t) PROVE NoTrouble'
    <3>1. /\ Wanting(r) /\ t = MoveOn(r).to /\ src' = [src EXCEPT ![r] = t] /\ Kind[t] = "cache"
          /\ UNCHANGED <<failed, replies, jobs, subFailed, turn, failing>>
          /\ \E found, wide : Found(r, found, wide)
      BY <2>6 DEF ReadCache, Asks
    <3>2. ~Reached(r)'
      BY <1>s, <3>1, ComesTo
    <3>3. \A q \in Requests : q # r => desired'[q] = desired[q]
      BY <3>1, FoundDesire
    <3>4. turn' = turn /\ \A q \in Requests : q # r => src'[q] = src[q]
      BY <3>1 DEF Types
    <3> QED BY <1>a, <2>1, <3>1, <3>2, <3>3, <3>4
  <2>7. ASSUME NEW t \in Sources, ReadHttp(r, t) PROVE NoTrouble'
    <3> DEFINE wide == Expand(desired[r], BlockSize[t])
    <3>1. /\ src' = [src EXCEPT ![r] = t] /\ scheme = "http" /\ Kind[t] = "http"
          /\ jobs' = jobs \cup {[rq |-> r, src |-> t, gap |-> g] : g \in Gaps(wide)}
          /\ subFailed' = [subFailed EXCEPT ![r] = FALSE]
          /\ UNCHANGED <<desired, failed, replies, failing>>
      BY <2>7 DEF ReadHttp
    <3>2. turn' = NoTurn \/ turn'.rq = r
      BY <2>1, <2>7 DEF ReadHttp, Yield, Types, Turns
    <3>3. ASSUME NEW u \in desired[r] PROVE ToCome(r, u)'
      <4>1. desired[r] \subseteq wide /\ wide \subseteq Units
        BY ExpandStays, ExpandCovers, Constants DEF Inside, Types
      <4>2. PICK g \in Gaps(wide) : u \in g[1]..g[2]
        BY <4>1, GapOf
      <4> HIDE DEF wide
      <4>3. [rq |-> r, src |-> t, gap |-> g] \in jobs'
        BY <3>1, <4>2
      <4> QED BY <1>s, <3>1, <4>2, <4>3 DEF ToCome
    <3>4. \A q \in Requests : q # r => src'[q] = src[q] /\ subFailed'[q] = subFailed[q]
      BY <3>1 DEF Types
    <3>5. ~subFailed'[r]
      BY <3>1 DEF Types
    <3>6. /\ \A j \in jobs : j \in jobs'
          /\ UNCHANGED <<desired, failed, replies, failing>>
      BY <3>1
    <3>7. \A u \in desired'[r] : ToCome(r, u)'
      BY <3>3, <3>6
    <3> QED BY <1>a, <2>1, <3>2, <3>4, <3>5, <3>6, <3>7
  <2>8. ASSUME NEW t \in Sources, ReadFile(r, t) PROVE NoTrouble'
    <3>1. /\ Wanting(r) /\ t = MoveOn(r).to /\ src' = [src EXCEPT ![r] = t] /\ Kind[t] = "file"
          /\ jobs' = jobs \cup {[rq |-> r, src |-> t, gap |-> <<>>]}
          /\ UNCHANGED <<desired, failed, replies, subFailed, failing>>
      BY <2>8 DEF ReadFile, Asks
    <3>2. turn' = NoTurn \/ turn'.rq = r
      BY <2>1, <2>8 DEF ReadFile, Yield, Types, Turns
    <3>3. ASSUME Reached(r)', NEW u \in desired[r] PROVE ToCome(r, u)'
      <4>1. Kind[t] = scheme
        BY <1>s, <3>1, <3>3, ComesTo
      <4>2. [rq |-> r, src |-> t, gap |-> <<>>] \in jobs'
        BY <3>1
      <4> QED BY <1>s, <3>1, <4>1, <4>2 DEF ToCome
    <3>4. \A q \in Requests : q # r => src'[q] = src[q]
      BY <3>1 DEF Types
    <3> QED BY <1>a, <2>1, <3>1, <3>2, <3>3, <3>4
  <2> QED BY <1>3, <2>2, <2>3, <2>4, <2>5, <2>6, <2>7, <2>8 DEF RunNext
<1>4. ASSUME NEW r \in Requests, RunNextWrite(r) PROVE NoTrouble'
  <2>1. /\ turn.rq = r /\ turn.step = "write"
        /\ UNCHANGED <<desired, failed, replies, jobs, subFailed, failing>>
        /\ ~failed[r] /\ ~subFailed[r] /\ replies[r] # <<"error">>
    BY <1>4 DEF RunNextWrite, WriteNext, FreeChunk, WritesDone, Writing, Untroubled
  <2>2. CASE WritesDone(r)
    <3>1. Finish(r)
      BY <2>2 DEF WritesDone
    <3>2. src'[r] = 0
      BY <3>1 DEF Finish, Types
    <3> QED BY <1>a, <1>n, <2>1, <3>1, <3>2, FinishSteps
  <2>3. CASE FreeChunk(r)
    <3>1. src' = [src EXCEPT ![r] = 0] /\ turn' = turn
      BY <2>3 DEF FreeChunk
    <3>2. src'[r] = 0 /\ \A q \in Requests : q # r => src'[q] = src[q]
      BY <3>1 DEF Types
    <3> QED BY <1>a, <1>n, <2>1, <3>1, <3>2
  <2>4. ASSUME NEW t \in Sources, WriteNext(r, t) PROVE NoTrouble'
    <3>1. src' = [src EXCEPT ![r] = t] /\ turn' = turn
      BY <2>4 DEF WriteNext
    <3>2. ~Reached(r)' /\ \A q \in Requests : q # r => src'[q] = src[q]
      BY <2>1, <3>1 DEF Types, Reached, Writing
    <3> QED BY <1>a, <2>1, <3>1, <3>2
  <2> QED BY <1>4, <2>2, <2>3, <2>4 DEF RunNextWrite
<1>5. ASSUME NEW j \in jobs, AnswerHttp(j) \/ AnswerFile(j) PROVE NoTrouble'
  <2> DEFINE r == j.rq
  <2>1. /\ r \in Requests /\ j.src \in Sources /\ turn = NoTurn /\ (turn' = NoTurn \/ turn'.rq = r)
        /\ jobs' = jobs \ {j} /\ UNCHANGED <<src, replies, failing>> /\ Asked(j)
    BY <1>5, RequestOfJob DEF AnswerHttp, AnswerFile, Idle, Types
  <2>2. desired[r] \in SUBSET Nat /\ ~subFailed[r] /\ replies[r] # <<"error">>
    BY <2>1 DEF Types, Untroubled
  <2>3. \A k \in jobs : k.rq # r => k \in jobs'
    BY <2>1
\* What it finds, with no failure
  <2>4. ASSUME NEW found \in SUBSET Pieces, Found(r, found, desired[r]),
               Kind[j.src] = scheme =>
                 \A u \in desired[r] : (Kind[j.src] = "http" => u \in j.gap[1]..j.gap[2]) =>
                   \E c \in found : u \in Span(c) \/ (c.eof /\ u >= c.from + c.len),
               ~failed'[r], ~subFailed'[r],
               \A q \in Requests : q # r => failed'[q] = failed[q] /\ subFailed'[q] = subFailed[q]
        PROVE  NoTrouble'
    <3>1. Reached(r)' => \A u \in desired'[r] : ToCome(r, u)'
      BY <1>s, <2>1, <2>4, AnswersCover
    <3>2. \A q \in Requests : q # r => desired'[q] = desired[q]
      BY <2>1, <2>4, FoundDesire
    <3> HIDE DEF r
    <3> QED BY <1>a, <2>1, <2>2, <2>3, <2>4, <3>1, <3>2
  <2>5. CASE AnswerHttp(j)
    <3>1. Kind[j.src] = "http"
      BY <2>5 DEF AnswerHttp
    <3>2. PICK ok \in BOOLEAN :
            /\ Found(r, IF ok THEN {Fetched(j.src, j.gap)} ELSE {}, desired[r])
            /\ subFailed' = [subFailed EXCEPT ![r] = @ \/ ~ok]
            /\ failed' = [failed EXCEPT ![r] = ({k \in jobs : k.rq = j.rq} = {j}) /\ subFailed'[r]]
            /\ faulted' = (faulted \/ (~ok /\ j.gap[1] < FileLen))
      BY <2>5 DEF AnswerHttp
    <3>3. ok = TRUE
      BY <3>1, <3>2 DEF Nearby
    <3>4. Found(r, {Fetched(j.src, j.gap)}, desired[r])
      BY <3>2, <3>3
    <3>5. j.gap \in Nat \X Nat /\ j.gap[1] <= j.gap[2] /\ Fetched(j.src, j.gap) \in Pieces
      BY <2>1, <3>1, FetchedChunk DEF Asked
    <3>6. ASSUME NEW u \in j.gap[1]..j.gap[2]
          PROVE  \E c \in {Fetched(j.src, j.gap)} : u \in Span(c) \/ (c.eof /\ u >= c.from + c.len)
      BY <2>1, <3>5, FetchedCovers
    <3>7. ~subFailed'[r] /\ \A q \in Requests : q # r => subFailed'[q] = subFailed[q]
      BY <2>1, <2>2, <3>2, <3>3 DEF Types
    <3>8. ~failed'[r] /\ \A q \in Requests : q # r => failed'[q] = failed[q]
      BY <2>1, <3>2, <3>7 DEF Types
    <3> HIDE DEF r
    <3> QED BY <2>4, <3>1, <3>4, <3>5, <3>6, <3>7, <3>8
  <2>6. CASE AnswerFile(j)
    <3> DEFINE wide == Expand(desired[r], BlockSize[j.src])
               gaps == IF scheme = "file" THEN Gaps(wide) ELSE {}
    <3>1. PICK G \in SUBSET gaps :
            /\ failed' = [failed EXCEPT ![r] = G # gaps] /\ faulted' = (faulted \/ G # gaps)
            /\ Found(r, {Fetched(j.src, g) : g \in G}, desired[r])
      BY <2>6 DEF AnswerFile
    <3>2. G = gaps
      BY <3>1
    <3> DEFINE found == {Fetched(j.src, g) : g \in gaps}
    <3>3. \A g \in gaps : g \in Nat \X Nat /\ g[1] <= g[2]
      BY <2>1, <2>2, GapsBegin, Constants
    <3>4. found \in SUBSET Pieces
      BY <2>1, <3>3, FetchedChunk
    <3>5. ASSUME Kind[j.src] = scheme, NEW u \in desired[r]
          PROVE  \E c \in found : u \in Span(c) \/ (c.eof /\ u >= c.from + c.len)
      <4>1. Kind[j.src] = "file" /\ gaps = Gaps(wide)
        BY <2>6, <3>5 DEF AnswerFile
      <4>2. desired[r] \subseteq wide /\ wide \subseteq Units
        BY <2>1, <2>2, ExpandStays, ExpandCovers, Constants DEF Inside
      <4> HIDE DEF wide
      <4>3. PICK g \in gaps : u \in g[1]..g[2]
        BY <4>1, <4>2, GapOf
      <4>4. Fetched(j.src, g) \in found
        OBVIOUS
      <4> HIDE DEF found, gaps
      <4> QED BY <2>1, <3>3, <4>3, <4>4, FetchedCovers
    <3>6. subFailed' = subFailed
      BY <2>6 DEF AnswerFile
    <3>7. ~failed'[r] /\ \A q \in Requests : q # r => failed'[q] = failed[q]
      BY <2>1, <3>1, <3>2 DEF Types
    <3>8. Found(r, found, desired[r])
      BY <3>1, <3>2
    <3> HIDE DEF r, found, gaps
    <3> QED BY <2>2, <2>4, <3>4, <3>5, <3>6, <3>7, <3>8
  <2> QED BY <1>5, <2>5, <2>6
<1>6. ~Quit
  BY DEF Quit
<1> QED BY <1>1, <1>2, <1>3, <1>4, <1>5, <1>6 DEF Next, Step, Main, Answer

LEMMA SmoothKept ==
  ASSUME SameBlocks, Served, Types, Fits, Inside, Hands, Course, SourcesShared, ListShared, Smooth,
         [Next]_vars
  PROVE  Smooth'
<1> SUFFICES ASSUME ~PastTheEnd' PROVE Nearby' /\ (~asked' /\ ~faulted' => NoTrouble')
  BY DEF Smooth
<1>1. ~PastTheEnd
  <2>1. \/ stage' = stage
        \/ \E q \in Requests : \/ stage' = [stage EXCEPT ![q] = "running"]
                               \/ stage' = [stage EXCEPT ![q] = "over"]
    <3>1. ASSUME NEW q \in Requests, Arrive(q) \/ Finish(q)
          PROVE  \/ stage' = [stage EXCEPT ![q] = "running"]
                 \/ stage' = [stage EXCEPT ![q] = "over"]
      BY <3>1 DEF Arrive, Finish
    <3>2. \/ stage' = stage
          \/ \E q \in Requests : Arrive(q) \/ Finish(q)
      BY DEF Next, Step, Main, Answer, RunNext, RunNextWrite, vars, rqVars, Unwind, Quit, Fail, Fulfil,
             Exhaust, Skip, ReadCache, ReadHttp, ReadFile, AnswerHttp, AnswerFile, WriteNext,
             FreeChunk, WritesDone, Evict, Reflect, Forgive
    <3> QED BY <3>1, <3>2
  <2>2. ASSUME NEW r \in Requests, stage[r] # "new" PROVE stage'[r] # "new"
    BY <2>1, <2>2 DEF Types
  <2> QED BY <2>2 DEF PastTheEnd
<1>2. Nearby'
  BY <1>1, NearKept DEF Smooth
<1>3. ~asked' /\ ~faulted' => ~asked /\ ~faulted
  <2>1. ASSUME NEW j \in jobs, AnswerHttp(j) \/ AnswerFile(j) PROVE asked' = asked /\ (faulted => faulted')
    BY <2>1 DEF AnswerHttp, AnswerFile
  <2>2. \/ UNCHANGED <<asked, faulted>> \/ asked'
        \/ \E j \in jobs : AnswerHttp(j) \/ AnswerFile(j)
    BY DEF Next, Step, Main, Answer, RunNext, RunNextWrite, vars, Arrive, Unwind, Quit, Fail, Fulfil,
           Exhaust, Skip, ReadCache, ReadHttp, ReadFile, WriteNext, FreeChunk, WritesDone, Evict,
           Reflect, Forgive
  <2> QED BY <2>1, <2>2
<1> QED BY <1>1, <1>2, <1>3, TroubleAvoided DEF Smooth

-----------------------------------------------------------------------------
(* The invariant and the theorems *)

IInv == /\ Types /\ Fits /\ Hands /\ Complete /\ (SameBlocks => Good)
        /\ Counted /\ Course /\ SourcesShared /\ ListShared

LEMMA InitIInv == Init => IInv
<1> SUFFICES ASSUME Init PROVE IInv
  OBVIOUS
<1>1. Types
  BY EmptySeq DEF Init, Types, Turns, NoTurn
<1>2. Hands
  BY Constants DEF Init, Hands, TurnOK, Answered, Held, InHand, Writing, OneJob, OneHandAtATime, NoTurn
<1>3. Complete
  BY DEF Init, Complete
<1>4. Good
  BY DEF Init, Good
<1>5. Counted
  <2>1. \A r \in Requests : JobsFor(r) = {} /\ turn.rq # r
    BY Constants DEF Init, JobsFor, NoTurn
  <2>2. \A r \in Requests : Balanced(r)
    <3>1. TAKE r \in Requests
    <3>2. rqRef[r] = 0 /\ stage[r] = "new" /\ Cardinality(JobsFor(r)) = 0
      BY <2>1, FS_EmptySet DEF Init
    <3> QED BY <2>1, <3>2 DEF Balanced, One
  <2> QED BY <2>2, FS_EmptySet DEF Init, Counted, Inside, Owing, NoTurn
<1>6. Fits /\ Course
  BY RequestAssumption DEF Init, Fits, Course, OnCourse, Writing, NoTurn
<1>7. SourcesShared
  <2>1. \A s \in Sources : Followers(s) = {c \in Sources : Target[c] = s} /\ IsFiniteSet(Followers(s))
    <3>0. IsFiniteSet(Sources)
      BY FS_Interval, RequestAssumption DEF Sources
    <3>1. \A s \in Sources : IsFiniteSet({c \in Sources : Target[c] = s})
      BY <3>0, FS_Subset
    <3>2. \A s \in Sources : Cardinality({c \in Sources : Target[c] = s}) \in Nat
      BY <3>1, FS_CardinalityType
    <3>3. \A s \in Sources : Linked(s)
      BY <3>2 DEF Init, Linked
    <3> QED BY <3>1, <3>3 DEF Followers
  <2>2. \A s \in Sources : Cardinality(Followers(s)) \in Nat
    BY <2>1, FS_CardinalityType
  <2>3. \A s \in Sources : srcRef[s] = 1 + Cardinality(Followers(s)) /\ srcRef[s] \in Int
    <3>1. TAKE s \in Sources
    <3>2. srcRef[s] = 1 + Cardinality({c \in Sources : Target[c] = s})
      BY DEF Init
    <3>3. srcRef[s] = 1 + Cardinality(Followers(s))
      BY <2>1, <3>2
    <3> QED BY <2>2, <3>3
  <2>4. \A s \in Sources : Users(s) = {} /\ Offered(s) = {} /\ Readers(s) = {}
    <3>1. 0 \notin Sources
      BY Constants
    <3> QED BY <3>1 DEF Init, Users, Offered, Readers, JobsOf
  <2>5. \A s \in Sources : FewUses(s) /\ Uses(s) = 0
    <3>1. One(turn.owes = "job" /\ turn.from = 0) = 0 /\ turn.owes = "nothing"
      BY DEF Init, NoTurn, One
    <3>2. \A s \in Sources : One(turn.owes = "job" /\ turn.from = s) = 0
      BY <3>1 DEF One
    <3>3. \A s \in Sources : FewUses(s)
      BY <2>4, FS_EmptySet DEF FewUses
    <3>4. Cardinality({}) = 0
      BY FS_EmptySet
    <3>5. \A s \in Sources : Uses(s) = 0
      BY <2>4, <3>2, <3>4 DEF Uses
    <3> QED BY <3>3, <3>5
  <2>6. One(slRef.strong > 0) = 1
    BY DEF Init, NewRef, One
  <2>7. srcRef \in [Sources -> Int]
    <3>1. srcRef = [s \in Sources |-> 1 + Cardinality({c \in Sources : Target[c] = s})]
      BY DEF Init
    <3> QED BY <2>3, <3>1
  <2> QED BY <2>2, <2>3, <2>5, <2>6, <2>7 DEF SourcesShared
<1>8. ListShared
  <2>1. Holders = {}
    BY DEF Init, Holders
  <2> QED BY <2>1, FS_EmptySet DEF Init, ListShared, NewRef, RefType, One
<1> QED BY <1>1, <1>2, <1>3, <1>4, <1>5, <1>6, <1>7, <1>8 DEF IInv

THEOREM Invariance == Spec => []IInv
<1>1. IInv /\ [Next]_vars => IInv'
  <2> SUFFICES ASSUME IInv, [Next]_vars PROVE IInv'
    OBVIOUS
  <2>1. Types' /\ Hands' /\ Complete'
    BY TypesKept, HandsKept, CompleteKept DEF IInv
  <2>2. Counted' /\ Fits'
    BY <2>1, CountedKept, FitsKept DEF IInv, Counted
  <2>3. Course' /\ SourcesShared' /\ ListShared'
    BY <2>1, <2>2, CourseKept, SharesKept DEF IInv
  <2>4. (SameBlocks => Good)'
    BY GoodKept DEF IInv, SameBlocks
  <2> QED BY <2>1, <2>2, <2>3, <2>4 DEF IInv
<1> QED BY InitIInv, <1>1, PTL DEF Spec

(***************************************************************************)
(* Ranges, chunks and blocks stay within what there is of the file and its *)
(* last block, and no count of references falls below zero.                *)
(***************************************************************************)
THEOREM TypeCorrect == Spec => []TypeOK
<1>1. IInv => TypeOK
  <2> SUFFICES ASSUME IInv PROVE TypeOK
    OBVIOUS
  <2>1. desired \in [Requests -> SUBSET Units] /\ chunks \in [Requests -> SUBSET Chunks]
    BY DEF IInv, Types, Counted, Inside, Fits, Short
  <2>2. rqRef \in [Requests -> Nat]
    BY Alive DEF IInv, Counted
  <2>3. srcRef \in [Sources -> Nat]
    <3>1. \A s \in Sources : srcRef[s] \in Int /\ srcRef[s] >= Uses(s) /\ Uses(s) \in Nat
      BY SharesInt DEF IInv
    <3>2. \A s \in Sources : srcRef[s] \in Nat
      BY <3>1
    <3> QED BY <3>2 DEF IInv, SourcesShared
  <2>4. slRef \in RefType
    BY DEF IInv, ListShared
  <2> QED BY <2>1, <2>2, <2>3, <2>4 DEF TypeOK, IInv, Types, Fits
<1> QED BY Invariance, <1>1, PTL

(***************************************************************************)
(* Each read is answered once, whatever sources it meets, in whatever      *)
(* order they answer, and whichever of them fail: rq_run_next sends a      *)
(* reply on the way to the writes or at the end, and never at both.        *)
(***************************************************************************)
THEOREM EachIsAnsweredOnce == Spec => []AnsweredOnce
<1>1. IInv => AnsweredOnce
  <2>1. Len(<<>>) = 0 /\ Len(<<"ok">>) = 1
    BY EmptySeq
  <2>2. ASSUME IInv, NEW r \in Requests
        PROVE  /\ Len(replies[r]) <= 1
               /\ stage[r] = "new" => replies[r] = <<>>
               /\ stage[r] = "over" => replies[r] # <<>>
    <3>1. stage[r] \in {"new", "running", "over"} /\ Answered(r)
      BY <2>2 DEF IInv, Hands, Types
    <3>2. replies[r] \in {<<>>, <<"ok">>} \/ (stage[r] = "over" /\ Len(replies[r]) = 1)
      BY <3>1 DEF Answered
    <3>3. Len(replies[r]) <= 1
      <4> DEFINE n == Len(replies[r])
      <4>1. n = 0 \/ n = 1
        BY <2>1, <3>2, Zenon
      <4> HIDE DEF n
      <4>2. n <= 1
        BY <4>1
      <4> QED BY <4>2 DEF n
    <3>5. stage[r] = "new" => replies[r] = <<>>
      BY <3>1 DEF Answered
    <3>4. stage[r] = "over" => replies[r] # <<>>
      BY <2>1, <3>1 DEF Answered
    <3> QED BY <3>3, <3>4, <3>5
  <2> QED BY <2>2 DEF AnsweredOnce
<1> QED BY Invariance, <1>1, PTL

(***************************************************************************)
(* While a source has an answer to give, the main thread leaves the        *)
(* request alone, so that the worker of syncsource.c reads rq->desired     *)
(* without a lock, and an error is blamed on the source that reports it.   *)
(***************************************************************************)
THEOREM OneHand == Spec => []OneHandAtATime
<1>1. IInv => OneHandAtATime
  BY DEF IInv, Hands
<1> QED BY Invariance, <1>1, PTL

(***************************************************************************)
(* Every reference is accounted for: those to a request by who runs it and *)
(* the answers to come, those to a source by the list, the caches that     *)
(* reflect to it, requests, chunks and reads under way, and those to the   *)
(* list by the requests there are.  So nothing is freed under its user,    *)
(* and nothing stays but what a request that ended in error still had.     *)
(***************************************************************************)
THEOREM ReferencesBalance == Spec => []RefsBalance
<1>1. IInv => RefsBalance
  <2> SUFFICES ASSUME IInv PROVE RefsBalance
    OBVIOUS
  <2>1. SourceRefsBalance
    <3> SUFFICES ASSUME NEW s \in Sources
                 PROVE  srcRef[s] =
                            (IF slRef.strong > 0 THEN 1 ELSE 0)
                          + Cardinality(Followers(s)) + Cardinality(Users(s))
                          + Cardinality(Offered(s)) + Cardinality(Readers(s))
                          + (IF turn.owes = "job" /\ turn.from = s THEN 1 ELSE 0)
      BY DEF SourceRefsBalance, Followers, Users, Offered, Readers
    <3> QED BY SharesInt DEF IInv, Uses, One
  <2>2. RequestRefsBalance
    <3> SUFFICES ASSUME NEW r \in Requests
                 PROVE  rqRef[r] = (IF stage[r] = "running" THEN 1 ELSE 0)
                                   + Cardinality({j \in jobs : j.rq = r})
                                   + (IF turn.rq = r /\ turn.owes # "nothing" THEN 1 ELSE 0)
      BY DEF RequestRefsBalance
    <3> QED BY DEF IInv, Counted, Balanced, One, JobsFor
  <2>3. ~asked => slRef.strong = 1 + Cardinality(Holders)
    BY DEF IInv, ListShared, RefType, One
  <2>4. \A r \in Requests : stage[r] = "over" /\ chunks[r] # {} => replies[r] = <<"error">>
    BY DEF IInv, Course, OnCourse
  <2> QED BY <2>1, <2>2, <2>3, <2>4 DEF RefsBalance, Holders
<1> QED BY Invariance, <1>1, PTL

(***************************************************************************)
(* Whatever the sources' blocks, nothing that is missing is forgotten: a   *)
(* reply that reports success has every unit of the file copied to it.     *)
(***************************************************************************)
THEOREM NothingIsForgotten == Spec => []Complete
<1>1. IInv => Complete
  BY DEF IInv
<1> QED BY Invariance, <1>1, PTL

(***************************************************************************)
(* Where all blocks have one size, what is copied to a reply is right, as  *)
(* is what ds_write puts in a cache ("XXX prove safe").                    *)
(***************************************************************************)
THEOREM RepliesAreRight == ASSUME SameBlocks PROVE Spec => []RepliesComplete
<1>1. IInv => RepliesComplete
  <2> SUFFICES ASSUME IInv PROVE RepliesComplete
    OBVIOUS
  <2>1. MissingIsDesired
    BY DEF IInv, Complete, Missing, MissingIsDesired
  <2>2. ASSUME NEW r \in Requests, replies[r] = <<"ok">>, NEW u \in Want[r], u < FileLen
        PROVE  out[r][u] = "good"
    BY <2>2, Constants DEF IInv, Complete, AllFound, Good
  <2> QED BY <2>1, <2>2 DEF RepliesComplete
<1> QED BY Invariance, <1>1, PTL

THEOREM CachesAreRight == ASSUME SameBlocks PROVE Spec => []CachesFaithful
<1>1. IInv => CachesFaithful
  BY DEF IInv, Good, CachesFaithful
<1> QED BY Invariance, <1>1, PTL

(***************************************************************************)
(* Where all blocks have one size and there is a source for the file's     *)
(* uri, no read is answered with an error unless a source has failed,      *)
(* somebody read past the end of the file or the interfaces have quit: a   *)
(* cache never leaves a server a question that it has to refuse, and what  *)
(* the source that has the file answers is all that was still desired.     *)
(***************************************************************************)
THEOREM NoErrorWithoutCause ==
  ASSUME SameBlocks, Served PROVE Spec => []NoNeedlessError
<1>1. ASSUME Init PROVE Smooth
  <2>1. Nearby
    BY <1>1 DEF Init, Nearby
  <2>2. ASSUME NEW r \in Requests PROVE Untroubled(r)
    BY <1>1, EmptySeq DEF Init, Untroubled
  <2>3. NoTrouble
    BY <1>1, <2>2 DEF Init, NoTrouble
  <2> QED BY <2>1, <2>3 DEF Smooth
<1>2. IInv /\ Smooth /\ [Next]_vars => Smooth'
  BY SmoothKept DEF IInv, Counted
<1>3. Smooth => NoNeedlessError
  BY DEF Smooth, NoTrouble, Untroubled, NoNeedlessError
<1> QED BY Invariance, <1>1, <1>2, <1>3, PTL DEF Spec

(***************************************************************************)
(* "Caches don't see their own reads as writes" (README.hacking): what a   *)
(* write adds to a cache was found further down the list, however sources  *)
(* have left it since, and no write goes to the target of a reflection.    *)
(***************************************************************************)
THEOREM CachesAreWrittenFromBelow == Spec => WritesComeFromBelow
<1> DEFINE OK == \A s \in Sources :
                   cache'[s] \ cache[s] # {} =>
                     \/ turn.step = "write" /\ s < Current(turn.rq).origin /\ s \notin Targets
                     \/ turn.step = "idle" /\ s \in Targets
<1>1. ASSUME IInv, IInv', [Next]_vars PROVE [OK]_vars
  <2>1. CASE cache' = cache
    BY <2>1
  <2>2. ASSUME NEW r \in Requests, NEW t \in Sources, WriteNext(r, t) PROVE OK
    <3>1. /\ turn.rq = r /\ turn.step = "write" /\ MoveOn(r).to = t /\ t # Current(r).origin
          /\ chunks[r] # {} /\ src' = [src EXCEPT ![r] = t] /\ UNCHANGED <<chunks, turn>>
          /\ cache' = IF CanWrite(t) THEN [cache EXCEPT ![t] = @ \cup Stored(t, Current(r))] ELSE cache
      BY <2>2 DEF WriteNext, Writing
    <3>2. t < Current(r).origin
      <4>1. Writing(r)' /\ (chunks[r] # {})'
        BY <3>1 DEF Writing
      <4>2. Current(r)' = Current(r)
        BY <3>1 DEF Current
      <4>3. src'[r] = t
        BY <1>1, <3>1 DEF IInv, Types
      <4>4. OnCourse(r)'
        BY <1>1 DEF IInv, Course
      <4>5. src'[r] < (Current(r).origin)'
        BY <4>1, <4>4 DEF OnCourse
      <4> QED BY <4>2, <4>3, <4>5
    <3>3. \A s \in Sources : cache'[s] \ cache[s] # {} => s = t /\ CanWrite(t)
      BY <3>1 DEF IInv, Types
    <3> QED BY <3>1, <3>2, <3>3 DEF CanWrite
  <2>3. ASSUME NEW s \in Sources, Evict(s) PROVE OK
    <3>1. \A t \in Sources : cache'[t] \subseteq cache[t]
      BY <1>1, <2>3 DEF Evict, IInv, Types
    <3> QED BY <3>1
  <2>4. ASSUME NEW s \in Sources, Reflect(s) PROVE OK
    <3>1. turn = NoTurn /\ Target[s] \in Sources /\ Target[s] \in Targets
          /\ cache' = [cache EXCEPT ![Target[s]] = @ \cup cache[s], ![s] = {}]
      BY <2>4, Constants DEF Reflect, Idle, Targets
    <3>2. \A t \in Sources : cache'[t] \ cache[t] # {} => t = Target[s]
      BY <1>1, <3>1 DEF IInv, Types
    <3> QED BY <3>1, <3>2 DEF NoTurn
  <2> HIDE DEF OK
  <2>5. \/ cache' = cache
        \/ \E r \in Requests : \E t \in Sources : WriteNext(r, t)
        \/ \E s \in Sources : Evict(s) \/ Reflect(s)
    BY <1>1 DEF Next, Step, Main, Answer, RunNext, RunNextWrite, vars, Unwind, Quit, Arrive, Fail,
                Fulfil, Exhaust, Skip, ReadCache, ReadHttp, ReadFile, FreeChunk, WritesDone,
                AnswerHttp, AnswerFile, Forgive
  <2> QED BY <2>1, <2>2, <2>3, <2>4, <2>5
<1>2. IInv /\ IInv' /\ [Next]_vars => [OK]_vars
  BY <1>1
<1> QED BY Invariance, <1>2, PTL DEF Spec, WritesComeFromBelow

-----------------------------------------------------------------------------
(* Directory: the entries of the configuration *)

LEMMA EntryTypes ==
  ASSUME NEW c \in Configs, NEW k \in 1..Len(c)
  PROVE  /\ c[k] \in Entries /\ c[k].dir \in Seq(Names) /\ Path(c[k]) \in Seq(Names)
         /\ IsRoot(c[k]) <=> Path(c[k]) = Root
         /\ ~IsRoot(c[k]) => c[k].name \in Names /\ Path(c[k]) = Append(c[k].dir, c[k].name)
<1>1. c \in Seq(Entries)
  BY ConfigAssumption
<1>2. c[k] \in Entries
  BY <1>1, ElementOfSeq
<1>3. c[k].dir \in Seq(Names) /\ c[k].name \in Names \cup {Nil}
  BY <1>2 DEF Entries
<1>4. CASE IsRoot(c[k])
  BY <1>2, <1>3, <1>4, EmptySeq DEF Path, Root
<1>5. CASE ~IsRoot(c[k])
  <2>1. c[k].name \in Names
    BY <1>3, <1>5 DEF IsRoot
  <2> QED BY <1>2, <1>3, <1>5, <2>1, AppendProperties DEF Path, Root
<1> QED BY <1>4, <1>5

-----------------------------------------------------------------------------
(* The invariant *)

\* The inode that the k-th file gets
InodeOf(k) == IF IsRoot(conf[k]) THEN 1 ELSE k + 1

\* Of the files added so far the k-th is the last with its path.
IsLast(k, p) == /\ k \in 1..added /\ Path(conf[k]) = p
                /\ \A l \in 1..added : Path(conf[l]) = p => l <= k

\* The tables of inodes have what the last entry for each path says.
Inodes ==
  /\ conf \in Configs
  /\ added \in 0..Len(conf) /\ inode = FirstInode + added
  /\ \A k \in 1..added : Path(conf[k]) \in DOMAIN fninode
  /\ \A p \in DOMAIN fninode : \E k \in 1..added :
        /\ IsLast(k, p) /\ fninode[p] = InodeOf(k)
        /\ InodeOf(k) \in DOMAIN stat /\ stat[InodeOf(k)] = SetStat(conf[k], InodeOf(k))
  /\ DOMAIN stat \subseteq 1..inode
  /\ 1 \in DOMAIN stat => Root \in DOMAIN fninode

\* The names in a directory are those of the files added.
Dirs ==
  /\ \A d \in DOMAIN dirfiles :
        /\ d \in Seq(Names) /\ dirfiles[d] \in Seq(Names)
        /\ \A n \in Range(dirfiles[d]) : Append(d, n) \in DOMAIN fninode
  /\ \A k \in 1..added : ~IsRoot(conf[k]) =>
        conf[k].dir \in DOMAIN dirfiles /\ conf[k].name \in Range(dirfiles[conf[k].dir])
  /\ resolved \subseteq DOMAIN dirfiles \cap DOMAIN fninode
  /\ added < Len(conf) => resolved = {}

\* What can be looked up is what is in the directories resolved so far.
Looks ==
  /\ DOMAIN lookup \subseteq (1..inode) \X (Names \cup {".", ".."})
  /\ DOMAIN readdir \subseteq 1..inode
  /\ \A d \in resolved : \A n \in Range(dirfiles[d]) :
        /\ <<fninode[d], n>> \in DOMAIN lookup
        /\ lookup[<<fninode[d], n>>] = fninode[Append(d, n)]
  /\ \A x \in DOMAIN lookup : x[2] \in Names =>
        \E d \in resolved : x[1] = fninode[d] /\ x[2] \in Range(dirfiles[d])

Tables == Inodes /\ Dirs /\ Looks

\* The kernel knows inodes by the paths that lead to them.
Known ==
  /\ phase \in {"load", "serve", "died", "crashed"}
  /\ phase = "serve" => added = Len(conf) /\ resolved = DOMAIN dirfiles
  /\ phase # "serve" => known = {}
  /\ known \subseteq [ino : 1..inode, path : Seq(Names)]
  /\ \A h \in known : h.path \in DOMAIN fninode /\ h.ino = fninode[h.path]

DirInv == Tables /\ Known /\ AnswersAreConfigured

-----------------------------------------------------------------------------
LEMMA PathTypes ==
  ASSUME Inodes
  PROVE  /\ \A p \in DOMAIN fninode : p \in Seq(Names) /\ fninode[p] \in 1..inode
         /\ Root \in DOMAIN fninode => fninode[Root] = 1
         /\ \A p, q \in DOMAIN fninode : fninode[p] = fninode[q] => p = q
<1>1. ASSUME NEW p \in DOMAIN fninode
      PROVE  \E k \in 1..added : /\ k \in 1..Len(conf) /\ Path(conf[k]) = p /\ p \in Seq(Names)
                                 /\ fninode[p] = IF p = Root THEN 1 ELSE k + 1
  <2>1. PICK k \in 1..added : IsLast(k, p) /\ fninode[p] = InodeOf(k)
    BY DEF Inodes
  <2>2. k \in 1..Len(conf)
    BY DEF Inodes
  <2> QED BY <2>1, <2>2, EntryTypes DEF Inodes, IsLast, InodeOf
<1>2. added \in Nat /\ inode = added + 2
  BY DEF Inodes, FirstInode
<1>3. ASSUME NEW p \in DOMAIN fninode, NEW q \in DOMAIN fninode, fninode[p] = fninode[q]
      PROVE  p = q
  BY <1>1, <1>2, <1>3
<1>4. \A p \in DOMAIN fninode : p \in Seq(Names) /\ fninode[p] \in 1..inode
  BY <1>1, <1>2
<1> QED BY <1>1, <1>3, <1>4

LEMMA AddStep == Tables /\ Known /\ AddFile => Tables' /\ Known'
<1> SUFFICES ASSUME Tables, Known, AddFile PROVE Tables' /\ Known'
  OBVIOUS
<1>n. PICK n : n = added + 1
  OBVIOUS
<1>e. PICK e : e = conf[n]
  OBVIOUS
<1>i. PICK ino : ino = IF IsRoot(e) THEN 1 ELSE inode
  OBVIOUS
<1> USE DEF Tables
<1>1. /\ phase = "load" /\ added < Len(conf) /\ added' = n /\ inode' = inode + 1
      /\ stat' = Set(stat, ino, SetStat(e, ino))
      /\ fninode' = Set(fninode, Path(e), ino)
      /\ lookup' = Set(lookup, <<ino, ".">>, ino)
      /\ dirfiles' = IF IsRoot(e) THEN dirfiles ELSE Set(dirfiles, e.dir, Append(Listed(e.dir), e.name))
      /\ UNCHANGED <<conf, phase, resolved, readdir, known>>
  BY <1>n, <1>e, <1>i DEF AddFile
<1>2. /\ conf \in Configs /\ added \in Nat /\ Len(conf) \in Nat /\ inode = added + 2
      /\ n \in 1..Len(conf) /\ n \notin 1..added /\ 1..n = (1..added) \cup {n}
      /\ \A k \in 1..added : k \in 1..Len(conf)
  <2>1. conf \in Seq(Entries)
    BY ConfigAssumption DEF Inodes
  <2>2. Len(conf) \in Nat
    BY <2>1, LenProperties
  <2> QED BY <1>1, <1>n, <2>2 DEF Inodes, FirstInode
<1>3. /\ Path(e) \in Seq(Names) /\ (IsRoot(e) <=> Path(e) = Root)
      /\ ~IsRoot(e) => e.name \in Names /\ e.dir \in Seq(Names) /\ Path(e) = Append(e.dir, e.name)
  BY <1>2, <1>e, EntryTypes
<1>4. ino = InodeOf(n) /\ ino \in 1..inode /\ InodeOf(n)' = InodeOf(n)
      /\ \A k \in 1..added : InodeOf(k)' = InodeOf(k)
  <2>1. ino = InodeOf(n)
    BY <1>1, <1>2, <1>n, <1>e, <1>i DEF InodeOf
  <2>2. ino \in 1..inode
    BY <1>2, <1>i
  <2> QED BY <1>1, <2>1, <2>2 DEF InodeOf
<1>5. Inodes'
  <2>1. ASSUME NEW p \in DOMAIN fninode, p # Path(e)
        PROVE  \E k \in 1..n :
                  /\ IsLast(k, p)' /\ fninode'[p] = InodeOf(k)'
                  /\ InodeOf(k)' \in DOMAIN stat' /\ stat'[InodeOf(k)'] = SetStat(conf[k], InodeOf(k)')
    <3>1. PICK k \in 1..added :
             /\ IsLast(k, p) /\ fninode[p] = InodeOf(k)
             /\ InodeOf(k) \in DOMAIN stat /\ stat[InodeOf(k)] = SetStat(conf[k], InodeOf(k))
      BY DEF Inodes
    <3>2. IsLast(k, p)'
      BY <1>1, <1>2, <1>e, <2>1, <3>1 DEF IsLast
    <3>3. InodeOf(k) # ino
      <4>1. IsRoot(conf[k]) <=> p = Root
        BY <1>2, <3>1, EntryTypes DEF IsLast
      <4> QED BY <1>2, <1>3, <1>i, <2>1, <4>1 DEF InodeOf
    <3>4. fninode'[p] = fninode[p] /\ InodeOf(k) \in DOMAIN stat' /\ stat'[InodeOf(k)] = stat[InodeOf(k)]
      BY <1>1, <2>1, <3>1, <3>3 DEF Set
    <3>5. InodeOf(k)' = InodeOf(k) /\ k \in 1..n
      BY <1>2, <1>4
    <3> QED BY <1>1, <3>1, <3>2, <3>4, <3>5
  <2>2. /\ IsLast(n, Path(e))' /\ fninode'[Path(e)] = InodeOf(n)'
        /\ InodeOf(n)' \in DOMAIN stat' /\ stat'[InodeOf(n)'] = SetStat(conf[n], InodeOf(n)')
    <3>1. IsLast(n, Path(e))'
      BY <1>1, <1>2, <1>e DEF IsLast
    <3>2. fninode'[Path(e)] = ino /\ ino \in DOMAIN stat' /\ stat'[ino] = SetStat(e, ino)
      BY <1>1 DEF Set
    <3> QED BY <1>1, <1>4, <1>e, <3>1, <3>2
  <2>3. DOMAIN fninode' = DOMAIN fninode \cup {Path(e)} /\ DOMAIN stat' = DOMAIN stat \cup {ino}
    BY <1>1 DEF Set
  <2>4. \A p \in DOMAIN fninode' : \E k \in 1..n :
                  /\ IsLast(k, p)' /\ fninode'[p] = InodeOf(k)'
                  /\ InodeOf(k)' \in DOMAIN stat' /\ stat'[InodeOf(k)'] = SetStat(conf[k], InodeOf(k)')
    BY <1>2, <2>1, <2>2, <2>3
  <2>5. \A k \in 1..n : Path(conf[k]) \in DOMAIN fninode'
    BY <1>2, <1>e, <2>3 DEF Inodes
  <2>6. DOMAIN stat' \subseteq 1..inode'
    BY <1>1, <1>2, <1>4, <2>3 DEF Inodes
  <2>7. 1 \in DOMAIN stat' => Root \in DOMAIN fninode'
    BY <1>2, <1>3, <1>i, <2>3 DEF Inodes
  <2> QED BY <1>n, <1>1, <1>2, <2>4, <2>5, <2>6, <2>7 DEF Inodes, FirstInode
<1>6. Dirs'
  <2>1. resolved = {}
    BY <1>1 DEF Dirs
  <2>2. DOMAIN fninode' = DOMAIN fninode \cup {Path(e)}
    BY <1>1 DEF Set
  <2>3. CASE IsRoot(e)
    <3>1. \A d \in DOMAIN dirfiles : d \in Seq(Names) /\ dirfiles[d] \in Seq(Names)
             /\ \A m \in Range(dirfiles[d]) : Append(d, m) \in DOMAIN fninode'
      BY <2>2 DEF Dirs
    <3>2. \A k \in 1..n : ~IsRoot(conf[k]) =>
             conf[k].dir \in DOMAIN dirfiles /\ conf[k].name \in Range(dirfiles[conf[k].dir])
      BY <1>2, <1>e, <2>3 DEF Dirs
    <3> QED BY <1>1, <2>1, <2>3, <3>1, <3>2 DEF Dirs
  <2>4. CASE ~IsRoot(e)
    <3>o. PICK old : old = Listed(e.dir)
      OBVIOUS
    <3>1. old \in Seq(Names) /\ \A m \in Range(old) : Append(e.dir, m) \in DOMAIN fninode
      <4>1. Range(<<>>) = {}
        BY DEF Range
      <4> QED BY <3>o, <4>1, EmptySeq DEF Listed, Dirs
    <3>2. Append(old, e.name) \in Seq(Names) /\ Range(Append(old, e.name)) = Range(old) \cup {e.name}
      <4>1. /\ Len(Append(old, e.name)) = Len(old) + 1 /\ Len(old) \in Nat /\ Append(old, e.name) \in Seq(Names)
            /\ DOMAIN old = 1..Len(old) /\ DOMAIN Append(old, e.name) = 1..(Len(old) + 1)
            /\ \A i \in 1..Len(old) : Append(old, e.name)[i] = old[i]
            /\ Append(old, e.name)[Len(old) + 1] = e.name
        BY <1>3, <2>4, <3>1, AppendProperties, LenProperties
      <4>2. 1..(Len(old) + 1) = (1..Len(old)) \cup {Len(old) + 1}
        BY <4>1
      <4> QED BY <4>1, <4>2 DEF Range
    <3>3. /\ DOMAIN dirfiles' = DOMAIN dirfiles \cup {e.dir}
          /\ dirfiles'[e.dir] = Append(old, e.name)
          /\ \A d \in DOMAIN dirfiles : d # e.dir => dirfiles'[d] = dirfiles[d]
      <4>1. dirfiles' = Set(dirfiles, e.dir, Append(old, e.name))
        BY <1>1, <2>4, <3>o
      <4> QED BY <4>1 DEF Set
    <3>4. ASSUME NEW d \in DOMAIN dirfiles'
          PROVE  /\ d \in Seq(Names) /\ dirfiles'[d] \in Seq(Names)
                 /\ \A m \in Range(dirfiles'[d]) : Append(d, m) \in DOMAIN fninode'
      BY <1>3, <2>2, <2>4, <3>1, <3>2, <3>3 DEF Dirs
    <3>5. ASSUME NEW k \in 1..n, ~IsRoot(conf[k])
          PROVE  conf[k].dir \in DOMAIN dirfiles' /\ conf[k].name \in Range(dirfiles'[conf[k].dir])
      <4>1. CASE k = n
        BY <1>e, <3>2, <3>3, <4>1
      <4>2. CASE k \in 1..added /\ conf[k].dir = e.dir
        BY <3>o, <3>2, <3>3, <3>5, <4>2 DEF Dirs, Listed
      <4>3. CASE k \in 1..added /\ conf[k].dir # e.dir
        BY <3>3, <3>5, <4>3 DEF Dirs
      <4> QED BY <1>2, <4>1, <4>2, <4>3
    <3> QED BY <1>1, <2>1, <3>4, <3>5 DEF Dirs
  <2> QED BY <2>3, <2>4
<1>7. Looks'
  <2>1. resolved = {}
    BY <1>1 DEF Dirs
  <2>2. DOMAIN lookup' = DOMAIN lookup \cup {<<ino, ".">>}
    BY <1>1 DEF Set
  <2>3. \A x \in DOMAIN lookup' : x[2] \notin Names
    BY <2>1, <2>2, ConfigAssumption DEF Looks
  <2>4. DOMAIN lookup' \subseteq (1..inode') \X (Names \cup {".", ".."})
    BY <1>1, <1>2, <1>4, <2>2 DEF Looks
  <2> QED BY <1>1, <1>2, <2>1, <2>3, <2>4 DEF Looks
<1>8. Known'
  BY <1>1 DEF Known
<1> QED BY <1>5, <1>6, <1>7, <1>8

LEMMA ResolveStep ==
  ASSUME Tables, Known, NEW d \in DOMAIN dirfiles, ResolveDir(d)
  PROVE  Tables' /\ Known'
<1> USE DEF Tables
<1>1. /\ phase = "load" /\ added = Len(conf) /\ d \notin resolved
      /\ UNCHANGED <<conf, added, inode, stat, fninode, dirfiles, known>>
  BY DEF ResolveDir
<1>2. Inodes'
  BY <1>1 DEF Inodes, IsLast, InodeOf
<1>3. CASE d \notin DOMAIN fninode
  <2>1. phase' = "crashed" /\ UNCHANGED <<resolved, lookup, readdir>>
    BY <1>3 DEF ResolveDir
  <2>2. Dirs' /\ Looks'
    BY <1>1, <2>1 DEF Dirs, Looks
  <2>3. Known'
    BY <1>1, <2>1 DEF Known
  <2> QED BY <1>2, <2>2, <2>3
<1>4. CASE d \in DOMAIN fninode
  <2>1. PICK dir, files : dir = fninode[d] /\ files = dirfiles[d]
    OBVIOUS
  <2>2. PICK downs, ups, members :
           /\ downs = {dir} \X Range(files)
           /\ members = [k \in DOMAIN files |-> fninode[Append(d, files[k])]]
           /\ ups = Range(members) \X {".."}
    OBVIOUS
  <2>3. /\ readdir' = Set(readdir, dir, members)
        /\ lookup' = [x \in DOMAIN lookup \cup downs \cup ups |->
                        IF x \in downs THEN fninode[Append(d, x[2])]
                        ELSE IF x \in ups THEN dir ELSE lookup[x]]
        /\ resolved' = resolved \cup {d} /\ UNCHANGED phase
    BY <1>4, <2>1, <2>2 DEF ResolveDir
  <2>4. /\ files \in Seq(Names) /\ Range(files) \subseteq Names
        /\ \A n \in Range(files) : Append(d, n) \in DOMAIN fninode
        /\ \A k \in DOMAIN files : files[k] \in Range(files)
    BY <2>1 DEF Dirs, Range
  <2>5. /\ dir \in 1..inode /\ Range(members) \subseteq 1..inode
        /\ \A n \in Range(files) : fninode[Append(d, n)] \in 1..inode
    BY <1>4, <2>1, <2>2, <2>4, PathTypes DEF Range
  <2>6. Dirs'
    <3>1. /\ resolved' \subseteq DOMAIN dirfiles' \cap DOMAIN fninode'
          /\ ~(added' < Len(conf'))
      BY <1>1, <1>4, <2>3 DEF Dirs, Inodes
    <3>2. UNCHANGED <<conf, added, fninode, dirfiles>>
      BY <1>1
    <3> QED BY <3>1, <3>2 DEF Dirs
  <2>7. DOMAIN lookup' \subseteq (1..inode) \X (Names \cup {".", ".."})
    BY <2>2, <2>3, <2>4, <2>5 DEF Looks
  <2>8. DOMAIN readdir' \subseteq 1..inode
    BY <2>3, <2>5 DEF Looks, Set
  <2>9. ASSUME NEW c \in resolved', NEW n \in Range(dirfiles[c])
        PROVE  <<fninode[c], n>> \in DOMAIN lookup' /\ lookup'[<<fninode[c], n>>] = fninode[Append(c, n)]
    <3>1. CASE c = d
      <4>1. <<fninode[c], n>> \in downs
        BY <2>1, <2>2, <2>9, <3>1
      <4> QED BY <2>3, <3>1, <4>1
    <3>2. CASE c # d
      <4>1. /\ c \in resolved /\ <<fninode[c], n>> \in DOMAIN lookup
            /\ lookup[<<fninode[c], n>>] = fninode[Append(c, n)]
        BY <2>3, <2>9, <3>2 DEF Looks
      <4>2. fninode[c] # dir
        BY <1>4, <2>1, <3>2, <4>1, PathTypes DEF Dirs
      <4>3. n \in Names /\ n # ".."
        BY <4>1, ConfigAssumption DEF Dirs, Range
      <4>4. <<fninode[c], n>> \notin downs /\ <<fninode[c], n>> \notin ups
        BY <2>2, <4>2, <4>3
      <4> QED BY <2>3, <4>1, <4>4
    <3> QED BY <3>1, <3>2
  <2>10. ASSUME NEW x \in DOMAIN lookup', x[2] \in Names
         PROVE  \E c \in resolved' : x[1] = fninode[c] /\ x[2] \in Range(dirfiles[c])
    <3>1. CASE x \in DOMAIN lookup
      BY <2>3, <2>10, <3>1 DEF Looks
    <3>2. CASE x \in downs
      BY <2>1, <2>2, <2>3, <3>2
    <3>3. CASE x \in ups
      BY <2>2, <2>10, <3>3, ConfigAssumption
    <3> QED BY <2>3, <3>1, <3>2, <3>3
  <2>11. Looks'
    BY <1>1, <2>7, <2>8, <2>9, <2>10 DEF Looks
  <2>12. Known'
    BY <1>1, <2>3 DEF Known
  <2> QED BY <1>2, <2>6, <2>11, <2>12
<1> QED BY <1>3, <1>4

LEMMA LoadedStep == Tables /\ Known /\ Loaded => Tables' /\ Known'
<1> SUFFICES ASSUME Tables, Known, Loaded PROVE Tables' /\ Known'
  OBVIOUS
<1> USE DEF Tables
<1>1. /\ phase = "load" /\ added = Len(conf) /\ resolved = DOMAIN dirfiles
      /\ lookup' = Set(lookup, <<1, "..">>, 1)
      /\ UNCHANGED <<conf, added, inode, stat, fninode, dirfiles, resolved, readdir>>
  BY DEF Loaded
<1>2. Inodes' /\ Dirs'
  BY <1>1 DEF Inodes, IsLast, InodeOf, Dirs
<1>3. 1 \in 1..inode
  BY DEF Inodes, FirstInode
<1>4. /\ DOMAIN lookup' = DOMAIN lookup \cup {<<1, "..">>}
      /\ \A x \in DOMAIN lookup : x # <<1, "..">> => lookup'[x] = lookup[x]
  BY <1>1 DEF Set
<1>5. Looks'
  <2>1. DOMAIN lookup' \subseteq (1..inode) \X (Names \cup {".", ".."})
    BY <1>3, <1>4 DEF Looks
  <2>2. ASSUME NEW c \in resolved, NEW n \in Range(dirfiles[c])
        PROVE  <<fninode[c], n>> \in DOMAIN lookup' /\ lookup'[<<fninode[c], n>>] = fninode[Append(c, n)]
    <3>1. n \in Names
      BY <1>1, <2>2 DEF Dirs, Range
    <3>2. <<fninode[c], n>> # <<1, "..">>
      BY <3>1, ConfigAssumption
    <3> QED BY <1>4, <3>2 DEF Looks
  <2>3. ASSUME NEW x \in DOMAIN lookup', x[2] \in Names
        PROVE  \E c \in resolved : x[1] = fninode[c] /\ x[2] \in Range(dirfiles[c])
    <3>1. x # <<1, "..">>
      BY <2>3, ConfigAssumption
    <3> QED BY <1>4, <2>3, <3>1 DEF Looks
  <2> QED BY <1>1, <2>1, <2>2, <2>3 DEF Looks
<1>6. Known'
  <2>1. CASE 1 \in DOMAIN stat
    <3>1. phase' = "serve" /\ known' = {[ino |-> 1, path |-> Root]}
      BY <2>1 DEF Loaded
    <3>2. Root \in DOMAIN fninode /\ fninode[Root] = 1 /\ Root \in Seq(Names)
      BY <2>1, PathTypes DEF Inodes
    <3> QED BY <1>1, <1>3, <3>1, <3>2 DEF Known
  <2>2. CASE 1 \notin DOMAIN stat
    <3>1. phase' = "died" /\ UNCHANGED known
      BY <2>2 DEF Loaded
    <3> QED BY <1>1, <3>1 DEF Known
  <2> QED BY <2>1, <2>2
<1> QED BY <1>2, <1>5, <1>6

-----------------------------------------------------------------------------
(* What the kernel is told *)

LEMMA AttributesOfPath ==
  ASSUME Tables, Known, phase = "serve", NEW p \in DOMAIN fninode
  PROVE  /\ For(p) # {} /\ fninode[p] \in DOMAIN stat /\ stat[fninode[p]] = Attributes(p)
         /\ stat[fninode[p]].ino = fninode[p]
<1>1. added = Len(conf) /\ conf \in Seq(Entries) /\ added \in Nat /\ DOMAIN conf = 1..added
  BY ConfigAssumption, LenProperties DEF Tables, Inodes, Known
<1>2. PICK k \in 1..added :
         /\ IsLast(k, p) /\ fninode[p] = InodeOf(k)
         /\ InodeOf(k) \in DOMAIN stat /\ stat[InodeOf(k)] = SetStat(conf[k], InodeOf(k))
  BY DEF Tables, Inodes
<1>3. k \in For(p) /\ \A l \in For(p) : l <= k
  BY <1>1, <1>2 DEF For, IsLast
<1>4. LastFor(p) = k
  <2>1. For(p) \subseteq 1..added
    BY <1>1 DEF For
  <2>2. \A m \in For(p) : (\A l \in For(p) : l <= m) => m = k
    BY <1>3, <2>1
  <2> QED BY <1>3, <2>2 DEF LastFor
<1>5. InodeFor(p) = InodeOf(k)
  <2>1. IsRoot(conf[k]) <=> p = Root
    BY <1>1, <1>2, EntryTypes DEF IsLast, Tables, Inodes
  <2> QED BY <1>1, <1>4, <2>1 DEF InodeFor, InodeOf, FirstInode
<1>6. stat[fninode[p]] = Attributes(p)
  BY <1>2, <1>4, <1>5 DEF Attributes
<1>7. stat[fninode[p]].ino = fninode[p]
  BY <1>2 DEF SetStat
<1> QED BY <1>2, <1>3, <1>6, <1>7

\* A name is found in a directory when a file of that path is configured.
LEMMA LookupFinds ==
  ASSUME Tables, Known, phase = "serve", NEW p \in DOMAIN fninode, NEW name \in Names
  PROVE  /\ <<fninode[p], name>> \in DOMAIN lookup =>
               Append(p, name) \in DOMAIN fninode
               /\ lookup[<<fninode[p], name>>] = fninode[Append(p, name)]
         /\ <<fninode[p], name>> \notin DOMAIN lookup => For(Append(p, name)) = {}
<1>1. /\ added = Len(conf) /\ resolved = DOMAIN dirfiles /\ conf \in Configs /\ conf \in Seq(Entries)
      /\ DOMAIN conf = 1..added /\ p \in Seq(Names)
  BY ConfigAssumption, LenProperties, PathTypes DEF Tables, Inodes, Known
<1>2. ASSUME <<fninode[p], name>> \in DOMAIN lookup
      PROVE  Append(p, name) \in DOMAIN fninode
             /\ lookup[<<fninode[p], name>>] = fninode[Append(p, name)]
  <2>1. PICK d \in resolved : fninode[p] = fninode[d] /\ name \in Range(dirfiles[d])
    BY <1>2 DEF Tables, Looks
  <2>2. d = p
    BY <2>1, PathTypes DEF Tables, Dirs
  <2> QED BY <2>1, <2>2 DEF Tables, Dirs, Looks
<1>3. ASSUME <<fninode[p], name>> \notin DOMAIN lookup, NEW l \in For(Append(p, name)) PROVE FALSE
  <2>1. l \in 1..Len(conf) /\ Path(conf[l]) = Append(p, name)
    BY <1>1, <1>3 DEF For
  <2>2. ~IsRoot(conf[l])
    <3>1. Append(p, name) # Root
      BY <1>1, AppendProperties DEF Root
    <3> QED BY <1>1, <2>1, <3>1, EntryTypes
  <2>3. conf[l].dir = p /\ conf[l].name = name
    <3>1. /\ conf[l].dir \in Seq(Names) /\ conf[l].name \in Names
          /\ Append(conf[l].dir, conf[l].name) = Append(p, name)
      BY <1>1, <2>1, <2>2, EntryTypes
    <3> QED BY <1>1, <3>1, AppendInjective
  <2>4. p \in resolved /\ name \in Range(dirfiles[p])
    BY <1>1, <2>1, <2>2, <2>3 DEF Tables, Dirs
  <2> QED BY <1>3, <2>4 DEF Tables, Looks
<1> QED BY <1>2, <1>3

LEMMA KernelStep == DirInv /\ Kernel => DirInv'
<1> SUFFICES ASSUME DirInv, Kernel PROVE DirInv'
  OBVIOUS
<1>u. UNCHANGED <<conf, phase, loadVars>>
  BY DEF Kernel, Lookup, GetAttr, Open, ReadLink, OpenDir, Read, ReadDir
<1>t. Tables'
  BY <1>u DEF DirInv, Tables, Inodes, Dirs, Looks, IsLast, InodeOf, loadVars
<1>k. UNCHANGED known => Known'
  BY <1>u DEF DirInv, Known, loadVars
<1>f. \A op, p, arg : Configured(op, p, arg)' = Configured(op, p, arg)
  BY <1>u DEF Configured, Attributes, InodeFor, LastFor, For
<1>r. UNCHANGED reply => AnswersAreConfigured'
  BY <1>f DEF DirInv, AnswersAreConfigured
\* One answer, as it is configured
<1>a. ASSUME NEW op, NEW p, NEW arg,
             reply' = [op |-> op, path |-> p, arg |-> arg, answers |-> <<Configured(op, p, arg)>>]
      PROVE  AnswersAreConfigured'
  BY <1>a, <1>f DEF AnswersAreConfigured
<1>h. ASSUME NEW h \in known
      PROVE  /\ phase = "serve" /\ h.path \in DOMAIN fninode /\ h.ino = fninode[h.path]
             /\ h.path \in Seq(Names)
             /\ h.ino \in DOMAIN stat /\ stat[h.ino] = Attributes(h.path)
  <2>1. phase = "serve" /\ h.path \in DOMAIN fninode /\ h.ino = fninode[h.path] /\ h.path \in Seq(Names)
    BY DEF DirInv, Known
  <2> QED BY <2>1, AttributesOfPath DEF DirInv
<1>1. ASSUME NEW h \in known, NEW name \in Names, Lookup(h, name) PROVE DirInv'
  <2>1. CASE <<h.ino, name>> \in DOMAIN lookup
    <3> DEFINE i == lookup[<<h.ino, name>>]
    <3>1. Append(h.path, name) \in DOMAIN fninode /\ i = fninode[Append(h.path, name)]
      BY <1>h, <2>1, LookupFinds DEF DirInv
    <3>2. /\ For(Append(h.path, name)) # {} /\ stat[i] = Attributes(Append(h.path, name))
          /\ stat[i].ino = i
      BY <1>h, <3>1, AttributesOfPath DEF DirInv
    <3>3. Configured("lookup", h.path, name) = stat[i]
      BY <3>2 DEF Configured
    <3>4. /\ reply' = [op |-> "lookup", path |-> h.path, arg |-> name, answers |-> <<stat[i]>>]
          /\ known' = known \cup {[ino |-> stat[i].ino, path |-> Append(h.path, name)]}
      BY <1>1, <2>1 DEF Lookup, Respond
    <3>5. AnswersAreConfigured'
      BY <1>a, <3>3, <3>4
    <3>6. i \in 1..inode /\ Append(h.path, name) \in Seq(Names)
      BY <3>1, PathTypes DEF DirInv, Tables
    <3>7. known' = known \cup {[ino |-> i, path |-> Append(h.path, name)]}
      BY <3>2, <3>4
    <3>8. Known'
      <4> DEFINE new == [ino |-> i, path |-> Append(h.path, name)]
      <4>1. new \in [ino : 1..inode, path : Seq(Names)] /\ new.path \in DOMAIN fninode /\ new.ino = fninode[new.path]
        BY <3>1, <3>6
      <4>2. known' = known \cup {new} /\ phase = "serve"
        BY <1>h, <3>7
      <4> HIDE DEF new
      <4> QED BY <1>u, <4>1, <4>2 DEF DirInv, Known, loadVars
    <3> QED BY <1>t, <3>5, <3>8 DEF DirInv
  <2>2. CASE <<h.ino, name>> \notin DOMAIN lookup
    <3>1. For(Append(h.path, name)) = {}
      BY <1>h, <2>2, LookupFinds DEF DirInv
    <3>2. Configured("lookup", h.path, name) = "ENOENT"
      BY <3>1 DEF Configured
    <3>3. reply' = [op |-> "lookup", path |-> h.path, arg |-> name, answers |-> <<"ENOENT">>] /\ UNCHANGED known
      BY <1>1, <2>2 DEF Lookup, Respond
    <3> QED BY <1>t, <1>k, <1>a, <3>2, <3>3 DEF DirInv
  <2> QED BY <2>1, <2>2
<1>2. ASSUME NEW h \in known, GetAttr(h) PROVE DirInv'
  <2>1. Configured("getattr", h.path, Nil) = stat[h.ino]
    BY <1>h DEF Configured
  <2>2. reply' = [op |-> "getattr", path |-> h.path, arg |-> Nil, answers |-> <<stat[h.ino]>>] /\ UNCHANGED known
    BY <1>2, <1>h DEF GetAttr, Respond
  <2> QED BY <1>t, <1>k, <1>a, <2>1, <2>2 DEF DirInv
<1>3. ASSUME NEW h \in known, Open(h) PROVE DirInv'
  <2>1. Configured("open", h.path, Nil) = IF stat[h.ino].kind = "dir" THEN "EISDIR" ELSE "open"
    BY <1>h DEF Configured
  <2>2. /\ reply' = [op |-> "open", path |-> h.path, arg |-> Nil,
                     answers |-> <<IF stat[h.ino].kind = "dir" THEN "EISDIR" ELSE "open">>]
        /\ UNCHANGED known
    BY <1>3, <1>h DEF Open, Respond
  <2> QED BY <1>t, <1>k, <1>a, <2>1, <2>2 DEF DirInv
<1>4. ASSUME NEW h \in known, ReadLink(h) PROVE DirInv'
  <2>1. Configured("readlink", h.path, Nil) = stat[h.ino].uri
    BY <1>h DEF Configured
  <2>2. reply' = [op |-> "readlink", path |-> h.path, arg |-> Nil, answers |-> <<stat[h.ino].uri>>] /\ UNCHANGED known
    BY <1>4 DEF ReadLink, Respond
  <2> QED BY <1>t, <1>k, <1>a, <2>1, <2>2 DEF DirInv
<1>5. ASSUME NEW h \in known, NEW off \in Offsets, NEW size \in Spans, Read(h, off, size) PROVE DirInv'
  <2> DEFINE st == stat[h.ino]
             arg == <<off, size>>
  <2>1. st.size \in Nat
    <3>0. Inodes
      BY DEF DirInv, Tables
    <3>1. PICK k \in 1..added : st = SetStat(conf[k], InodeOf(k))
      <4>1. PICK p : p = h.path
        OBVIOUS
      <4>2. p \in DOMAIN fninode /\ h.ino = fninode[p]
        BY <1>h, <4>1
      <4>3. PICK k \in 1..added : fninode[p] = InodeOf(k) /\ stat[InodeOf(k)] = SetStat(conf[k], InodeOf(k))
        BY <3>0, <4>2 DEF Inodes
      <4> QED BY <4>2, <4>3
    <3>2. conf[k] \in Entries
      BY <3>0, EntryTypes DEF Inodes
    <3> QED BY <3>1, <3>2 DEF SetStat, Entries
  <2>2. Clip(st, off, size) = IF off + size > st.size /\ off <= st.size THEN st.size - off ELSE size
    BY <2>1, SpanAssumption DEF Clip
  <2>3. Configured("read", h.path, arg) = [uri |-> st.uri, off |-> off, size |-> Clip(st, off, size)]
    BY <1>h, <2>2 DEF Configured
  <2>4. /\ reply' = [op |-> "read", path |-> h.path, arg |-> arg,
                     answers |-> <<[uri |-> st.uri, off |-> off, size |-> Clip(st, off, size)]>>]
        /\ UNCHANGED known
    BY <1>5 DEF Read, Respond
  <2> QED BY <1>t, <1>k, <1>a, <2>3, <2>4 DEF DirInv
<1>6. ASSUME NEW h \in known, OpenDir(h) PROVE DirInv'
  BY <1>6, <1>t, <1>k, <1>r DEF OpenDir, DirInv
<1>7. ASSUME NEW size \in PieceSizes, ReadDir(size) PROVE DirInv'
  <2>1. UNCHANGED known /\ reply'.op = "readdir"
    BY <1>7 DEF ReadDir, Respond
  <2> QED BY <1>t, <1>k, <2>1 DEF DirInv, AnswersAreConfigured
<1> QED BY <1>1, <1>2, <1>3, <1>4, <1>5, <1>6, <1>7 DEF Kernel

LEMMA InitDirInv == DirInit => DirInv
<1> SUFFICES ASSUME DirInit PROVE DirInv
  OBVIOUS
<1>1. conf \in Configs /\ Len(conf) \in Nat
  BY ConfigAssumption, LenProperties DEF DirInit
<1>2. DOMAIN Empty = {}
  BY DEF Empty
<1>6. added = 0 /\ inode = 2 /\ 1..added = {}
  BY DEF DirInit, FirstInode
<1>7. /\ stat = Empty /\ fninode = Empty /\ dirfiles = Empty /\ resolved = {}
      /\ lookup = Empty /\ readdir = Empty
  BY DEF DirInit
<1>8. Inodes
  BY <1>1, <1>2, <1>6, <1>7 DEF Inodes, FirstInode
<1>3. Inodes /\ Dirs /\ Looks
  BY <1>1, <1>2, <1>6, <1>7, <1>8 DEF Dirs, Looks
<1>4. Known
  BY <1>1 DEF DirInit, Known
<1>5. AnswersAreConfigured
  BY DEF DirInit, AnswersAreConfigured, NoReply
<1> QED BY <1>3, <1>4, <1>5 DEF DirInv, Tables

LEMMA Inductive == DirInv /\ [DirNext]_dirVars => DirInv'
<1> SUFFICES ASSUME DirInv, [DirNext]_dirVars PROVE DirInv'
  OBVIOUS
<1>1. CASE Load
  <2>1. Tables' /\ Known'
    BY <1>1, AddStep, ResolveStep, LoadedStep DEF Load, DirInv
  <2>2. UNCHANGED <<conf, reply>>
    BY <1>1 DEF Load, AddFile, ResolveDir, Loaded
  <2>3. \A op, p, arg : Configured(op, p, arg)' = Configured(op, p, arg)
    BY <2>2 DEF Configured, Attributes, InodeFor, LastFor, For
  <2> QED BY <2>1, <2>2, <2>3 DEF DirInv, AnswersAreConfigured
<1>2. CASE Kernel
  BY <1>2, KernelStep
<1>3. CASE UNCHANGED dirVars
  <2>1. \A op, p, arg : Configured(op, p, arg)' = Configured(op, p, arg)
    BY <1>3 DEF dirVars, Configured, Attributes, InodeFor, LastFor, For
  <2> QED BY <1>3, <2>1 DEF dirVars, loadVars, DirInv, Tables, Inodes, Dirs, Looks, IsLast, InodeOf, Known,
                            AnswersAreConfigured
<1> QED BY <1>1, <1>2, <1>3 DEF DirNext

LEMMA DirInvariance == DirSpec => []DirInv
BY InitDirInv, Inductive, PTL DEF DirSpec

-----------------------------------------------------------------------------
(***************************************************************************)
(* The tables map paths to inodes, inodes to attributes and names in an    *)
(* inode to inodes, and the kernel knows no inode that was not given out.  *)
(***************************************************************************)
THEOREM DirTypeCorrect == DirSpec => []DirTypeOK
<1>1. ASSUME DirInv PROVE DirTypeOK
  <2>1. /\ DOMAIN fninode \subseteq Seq(Names) /\ DOMAIN dirfiles \subseteq Seq(Names)
        /\ resolved \subseteq DOMAIN dirfiles
    BY <1>1, PathTypes DEF DirInv, Tables, Dirs
  <2> QED BY <1>1, <2>1 DEF DirInv, Tables, Inodes, Looks, Known, DirTypeOK
<1> QED BY DirInvariance, <1>1, PTL

(***************************************************************************)
(* Whatever files are configured, in whatever order and how often, every   *)
(* request but that for a listing has one answer, and it is what the last  *)
(* entry for the path says that has led the kernel to the inode.           *)
(***************************************************************************)
THEOREM AnswersComeFromTheConfiguration == DirSpec => []AnswersAreConfigured
<1>1. DirInv => AnswersAreConfigured
  BY DEF DirInv
<1> QED BY DirInvariance, <1>1, PTL

-----------------------------------------------------------------------------
(* Sequences.  What holds of all of them is shown by the least number that  *)
(* would be an exception.                                                   *)

LEMMA LeastOf ==
  ASSUME NEW S \in SUBSET Nat, S # {}
  PROVE  \E x \in S : \A y \in S : x <= y
BY FirstOf

\* A set of numbers that has 0 and after each number the next has them all.
LEMMA AllUpTo ==
  ASSUME NEW n \in Nat, NEW S, 0 \in S, \A k \in 1..n : k - 1 \in S => k \in S
  PROVE  0..n \subseteq S
<1> DEFINE bad == (0..n) \ S
<1>1. bad = {}
  <2> SUFFICES ASSUME bad # {} PROVE FALSE  OBVIOUS
  <2>1. PICK k \in bad : \A j \in bad : k <= j
    <3>1. bad \in SUBSET Nat  OBVIOUS
    <3> HIDE DEF bad
    <3> QED BY <3>1, LeastOf
  <2>2. k \in 1..n /\ k - 1 \in 0..n /\ ~(k <= k - 1)  OBVIOUS
  <2>3. k - 1 \notin bad
    <3> HIDE DEF bad
    <3> QED BY <2>1, <2>2
  <2> QED BY <2>2, <2>3
<1> QED BY <1>1

\* The function that Only is defined by
LEMMA OnlyIs ==
  ASSUME NEW T, NEW s \in Seq(T), NEW S
  PROVE  \E f : /\ Only(s, S) = f[Len(s)]
                /\ f[0] = <<>>
                /\ \A k \in 1..Len(s) :
                     f[k] = IF s[k] \in S THEN Append(f[k - 1], s[k]) ELSE f[k - 1]
<1> DEFINE Steps(f, n) ==
             f = [k \in 0..n |-> IF k = 0 THEN <<>>
                                 ELSE IF s[k] \in S THEN Append(f[k - 1], s[k]) ELSE f[k - 1]]
           some == {n \in 0..Len(s) : \E f : Steps(f, n)}
<1>0. Len(s) \in Nat  BY LenProperties
<1>1. 0 \in some
  <2>1. PICK f : f = [k \in 0..0 |-> <<>>]  OBVIOUS
  <2>2. Steps(f, 0)
    <3>1. \A k \in 0..0 : k = 0  OBVIOUS
    <3> QED BY <2>1, <3>1
  <2> HIDE DEF Is
  <2> QED BY <1>0, <2>2
<1>2. ASSUME NEW n \in 1..Len(s), n - 1 \in some PROVE n \in some
  <2>1. PICK f : Steps(f, n - 1)  BY <1>2
  <2> DEFINE x == IF s[n] \in S THEN Append(f[n - 1], s[n]) ELSE f[n - 1]
             g == [k \in 0..n |-> IF k = n THEN x ELSE f[k]]
  <2>2. \A k \in 0..n : g[k] = IF k = 0 THEN <<>>
                               ELSE IF s[k] \in S THEN Append(g[k - 1], s[k]) ELSE g[k - 1]
    <3> SUFFICES ASSUME NEW k \in 0..n
                 PROVE  g[k] = IF k = 0 THEN <<>>
                               ELSE IF s[k] \in S THEN Append(g[k - 1], s[k]) ELSE g[k - 1]
      OBVIOUS
    <3>1. CASE k = n
      <4>1. g[k] = x /\ g[k - 1] = f[n - 1] /\ k # 0  BY <1>0, <3>1
      <4> QED BY <3>1, <4>1
    <3>2. CASE k # n
      <4>1. k \in 0..(n - 1) /\ g[k] = f[k] /\ (k # 0 => g[k - 1] = f[k - 1])  BY <1>0, <3>2
      <4> HIDE DEF g
      <4> QED BY <2>1, <4>1
    <3> QED BY <3>1, <3>2
  <2>3. Steps(g, n)
    <3>1. g = [k \in 0..n |-> g[k]]  OBVIOUS
    <3> HIDE DEF g
    <3> QED BY <2>2, <3>1
  <2>4. n \in 0..Len(s)  BY <1>0
  <2> HIDE DEF g
  <2> QED BY <2>3, <2>4
<1>3. PICK f : Steps(f, Len(s))
  <2>1. 0..Len(s) \subseteq some
    <3> HIDE DEF some
    <3> QED BY <1>0, <1>1, <1>2, AllUpTo
  <2>2. Len(s) \in some
    <3> HIDE DEF some
    <3> QED BY <1>0, <2>1
  <2> HIDE DEF Is
  <2> QED BY <2>2
<1>4. PICK g : g = CHOOSE only : Steps(only, Len(s))  OBVIOUS
<1>5. Steps(g, Len(s))
  <2> HIDE DEF Is
  <2> QED BY <1>3, <1>4
<1>6. Only(s, S) = g[Len(s)]  BY <1>4 DEF Only
<1>7. g[0] = <<>> /\ \A k \in 1..Len(s) :
                     g[k] = IF s[k] \in S THEN Append(g[k - 1], s[k]) ELSE g[k - 1]
  <2>1. \A k \in 0..Len(s) : g[k] = IF k = 0 THEN <<>>
                                    ELSE IF s[k] \in S THEN Append(g[k - 1], s[k]) ELSE g[k - 1]
    BY <1>5
  <2>2. 0 \in 0..Len(s) /\ \A k \in 1..Len(s) : k \in 0..Len(s) /\ k # 0  BY <1>0
  <2> QED BY <2>1, <2>2
<1> QED BY <1>6, <1>7

LEMMA OnlyTyped ==
  ASSUME NEW T, NEW s \in Seq(T), NEW S
  PROVE  Only(s, S) \in Seq(T \cap S)
<1>0. Len(s) \in Nat /\ \A k \in 1..Len(s) : s[k] \in T  BY LenProperties, ElementOfSeq
<1>1. PICK f : /\ Only(s, S) = f[Len(s)]
               /\ f[0] = <<>>
               /\ \A k \in 1..Len(s) :
                    f[k] = IF s[k] \in S THEN Append(f[k - 1], s[k]) ELSE f[k - 1]
  BY OnlyIs
<1> DEFINE typed == {k \in 0..Len(s) : f[k] \in Seq(T \cap S)}
<1>2. 0 \in typed
  <2>1. <<>> \in Seq(T \cap S)  OBVIOUS
  <2>2. 0 \in 0..Len(s)  BY <1>0
  <2> QED BY <1>1, <2>1, <2>2
<1>3. ASSUME NEW k \in 1..Len(s), k - 1 \in typed PROVE k \in typed
  <2>1. k \in 0..Len(s) /\ f[k - 1] \in Seq(T \cap S)  BY <1>0, <1>3
  <2>2. s[k] \in S => s[k] \in T \cap S /\ Append(f[k - 1], s[k]) \in Seq(T \cap S)
    BY <1>0, <2>1, AppendProperties
  <2> QED BY <1>1, <2>1, <2>2
<1>4. Len(s) \in typed
  <2> HIDE DEF typed
  <2>1. 0..Len(s) \subseteq typed  BY <1>0, <1>2, <1>3, AllUpTo
  <2> QED BY <1>0, <2>1
<1> QED BY <1>1, <1>4

LEMMA OnlyNone == \A S : Only(<<>>, S) = <<>>
<1>1. ASSUME NEW S, NEW s \in Seq(Nat), Len(s) = 0 PROVE Only(s, S) = <<>>
  <2>1. PICK f : /\ Only(s, S) = f[Len(s)]
                 /\ f[0] = <<>>
                 /\ \A k \in 1..Len(s) :
                      f[k] = IF s[k] \in S THEN Append(f[k - 1], s[k]) ELSE f[k - 1]
    BY OnlyIs
  <2> QED BY <1>1, <2>1
<1>2. <<>> \in Seq(Nat) /\ Len(<<>>) = 0  OBVIOUS
<1> QED BY <1>1, <1>2

LEMMA OnlyAppend ==
  ASSUME NEW T, NEW s \in Seq(T), NEW x \in T, NEW S
  PROVE  Only(Append(s, x), S) = IF x \in S THEN Append(Only(s, S), x) ELSE Only(s, S)
<1>t. PICK t : t = Append(s, x)  OBVIOUS
<1>n. PICK n : n = Len(s)  OBVIOUS
<1>1. /\ n \in Nat /\ t \in Seq(T) /\ Len(t) = n + 1 /\ t[n + 1] = x
      /\ \A k \in 1..n : t[k] = s[k]
  BY <1>t, <1>n, AppendProperties, LenProperties
<1>2. PICK f : /\ Only(s, S) = f[n]
               /\ f[0] = <<>>
               /\ \A k \in 1..n :
                    f[k] = IF s[k] \in S THEN Append(f[k - 1], s[k]) ELSE f[k - 1]
  BY <1>n, OnlyIs
<1>3. PICK g : /\ Only(t, S) = g[Len(t)]
               /\ g[0] = <<>>
               /\ \A k \in 1..Len(t) :
                    g[k] = IF t[k] \in S THEN Append(g[k - 1], t[k]) ELSE g[k - 1]
  BY <1>1, OnlyIs
<1> DEFINE same == {k \in 0..n : f[k] = g[k]}
<1>4. 0 \in same  BY <1>1, <1>2, <1>3
<1>5. ASSUME NEW k \in 1..n, k - 1 \in same PROVE k \in same
  <2>1. k \in 0..n /\ k \in 1..Len(t) /\ f[k - 1] = g[k - 1] /\ t[k] = s[k]  BY <1>1, <1>5
  <2> QED BY <1>2, <1>3, <2>1
<1>6. n \in same
  <2> HIDE DEF same
  <2>1. 0..n \subseteq same  BY <1>1, <1>4, <1>5, AllUpTo
  <2> QED BY <1>1, <2>1
<1>7. n + 1 \in 1..Len(t) /\ (n + 1) - 1 = n  BY <1>1
<1>8. g[n + 1] = IF x \in S THEN Append(g[n], x) ELSE g[n]  BY <1>1, <1>3, <1>7
<1>9. Only(t, S) = g[n + 1] /\ f[n] = g[n]  BY <1>1, <1>3, <1>6
<1> QED BY <1>2, <1>8, <1>9, <1>t

\* Nothing is left out when all are in S.
LEMMA OnlyAll ==
  ASSUME NEW T, NEW s \in Seq(T), NEW S, \A k \in 1..Len(s) : s[k] \in S
  PROVE  Only(s, S) = s
<1>0. Len(s) \in Nat /\ \A k \in 1..Len(s) : s[k] \in T  BY LenProperties, ElementOfSeq
<1>1. PICK f : /\ Only(s, S) = f[Len(s)]
               /\ f[0] = <<>>
               /\ \A k \in 1..Len(s) :
                    f[k] = IF s[k] \in S THEN Append(f[k - 1], s[k]) ELSE f[k - 1]
  BY OnlyIs
<1> DEFINE same == {k \in 0..Len(s) : f[k] = SubSeq(s, 1, k)}
<1>2. 0 \in same
  <2>1. SubSeq(s, 1, 0) = <<>>  BY SubSeqEmpty
  <2>2. f[0] = SubSeq(s, 1, 0)  BY <1>1, <2>1
  <2>3. 0 \in 0..Len(s)  BY <1>0
  <2> QED BY <2>2, <2>3
<1>3. ASSUME NEW k \in 1..Len(s), k - 1 \in same PROVE k \in same
  <2>1. k \in 0..Len(s) /\ f[k - 1] = SubSeq(s, 1, k - 1)  BY <1>0, <1>3
  <2>2. SubSeq(s, 1, k) = SubSeq(s, 1, k - 1) \o <<s[k]>>
    BY <1>0, SubSeqRecursiveSecond
  <2>3. SubSeq(s, 1, k - 1) \in Seq(T)  BY <1>0, SubSeqProperties
  <2>4. f[k] = Append(SubSeq(s, 1, k - 1), s[k])  BY <1>1, <2>1
  <2> QED BY <1>0, <2>1, <2>2, <2>3, <2>4, AppendIsConcat
<1>4. Len(s) \in same
  <2> HIDE DEF same
  <2>1. 0..Len(s) \subseteq same  BY <1>0, <1>2, <1>3, AllUpTo
  <2> QED BY <1>0, <2>1
<1> QED BY <1>1, <1>4, SubSeqFull

\* The ends of the entries grow.
LEMMA EndsAre ==
  ASSUME NEW buf, Len(buf) \in Nat, \A k \in 1..Len(buf) : buf[k].name \in DOMAIN Room
  PROVE  /\ Ends(buf)[0] = 0
         /\ \A k \in 0..Len(buf) : Ends(buf)[k] \in Nat
         /\ \A k \in 1..Len(buf) : Ends(buf)[k] = Ends(buf)[k - 1] + Room[buf[k].name]
         /\ \A j, k \in 0..Len(buf) : j < k => Ends(buf)[j] < Ends(buf)[k]
<1> DEFINE Steps(f, n) ==
             f = [k \in 0..n |-> IF k = 0 THEN 0 ELSE f[k - 1] + Room[buf[k].name]]
           some == {n \in 0..Len(buf) : \E f : Steps(f, n)}
<1>1. 0 \in some
  <2>1. PICK f : f = [k \in 0..0 |-> 0]  OBVIOUS
  <2>2. Steps(f, 0)
    <3>1. \A k \in 0..0 : k = 0  OBVIOUS
    <3> QED BY <2>1, <3>1
  <2> HIDE DEF Is
  <2> QED BY <2>2
<1>2. ASSUME NEW n \in 1..Len(buf), n - 1 \in some PROVE n \in some
  <2>1. PICK f : Steps(f, n - 1)  BY <1>2
  <2> DEFINE x == f[n - 1] + Room[buf[n].name]
             g == [k \in 0..n |-> IF k = n THEN x ELSE f[k]]
  <2>2. \A k \in 0..n : g[k] = IF k = 0 THEN 0 ELSE g[k - 1] + Room[buf[k].name]
    <3> SUFFICES ASSUME NEW k \in 0..n
                 PROVE  g[k] = IF k = 0 THEN 0 ELSE g[k - 1] + Room[buf[k].name]
      OBVIOUS
    <3>1. CASE k = n
      <4>1. g[k] = x /\ g[k - 1] = f[n - 1] /\ k # 0  BY <3>1
      <4> QED BY <3>1, <4>1
    <3>2. CASE k # n
      <4>1. k \in 0..(n - 1) /\ g[k] = f[k] /\ (k # 0 => g[k - 1] = f[k - 1])  BY <3>2
      <4> HIDE DEF g
      <4> QED BY <2>1, <4>1
    <3> QED BY <3>1, <3>2
  <2>3. Steps(g, n)
    <3>1. g = [k \in 0..n |-> g[k]]  OBVIOUS
    <3> HIDE DEF g
    <3> QED BY <2>2, <3>1
  <2>4. n \in 0..Len(buf)  OBVIOUS
  <2> HIDE DEF g
  <2> QED BY <2>3, <2>4
<1>3. PICK f : Steps(f, Len(buf))
  <2>1. 0..Len(buf) \subseteq some
    <3> HIDE DEF some
    <3> QED BY <1>1, <1>2, AllUpTo
  <2>2. Len(buf) \in some
    <3> HIDE DEF some
    <3> QED BY <2>1
  <2> HIDE DEF Is
  <2> QED BY <2>2
<1>4. PICK e : e = Ends(buf)  OBVIOUS
<1>5. e = CHOOSE end : Steps(end, Len(buf))  BY <1>4 DEF Ends
<1>6. Steps(e, Len(buf))
  <2> HIDE DEF Is
  <2> QED BY <1>3, <1>5
<1>7. \A k \in 0..Len(buf) : e[k] = IF k = 0 THEN 0 ELSE e[k - 1] + Room[buf[k].name]
  BY <1>6
<1>8. /\ e[0] = 0
      /\ \A k \in 1..Len(buf) :
           /\ e[k] = e[k - 1] + Room[buf[k].name]
           /\ Room[buf[k].name] \in Nat /\ Room[buf[k].name] >= 1
  <2>1. 0 \in 0..Len(buf) /\ \A k \in 1..Len(buf) : k \in 0..Len(buf) /\ k # 0  OBVIOUS
  <2>2. \A name \in DOMAIN Room : Room[name] \in Nat /\ Room[name] >= 1
    BY RoomAssumption
  <2> QED BY <1>7, <2>1, <2>2
<1> DEFINE number == {k \in 0..Len(buf) : e[k] \in Nat}
           grown  == {k \in 0..Len(buf) : \A j \in 0..Len(buf) : j < k => e[j] < e[k]}
<1>9. 0..Len(buf) \subseteq number
  <2>1. 0 \in number  BY <1>8
  <2>2. ASSUME NEW k \in 1..Len(buf), k - 1 \in number PROVE k \in number  BY <1>8, <2>2
  <2> HIDE DEF number
  <2> QED BY <2>1, <2>2, AllUpTo
<1>10. \A k \in 0..Len(buf) : e[k] \in Nat  BY <1>9
<1>11. 0..Len(buf) \subseteq grown
  <2>1. 0 \in grown  OBVIOUS
  <2>2. ASSUME NEW k \in 1..Len(buf), k - 1 \in grown PROVE k \in grown
    <3>1. k \in 0..Len(buf) /\ k - 1 \in 0..Len(buf)  OBVIOUS
    <3>2. e[k] \in Nat /\ e[k - 1] \in Nat /\ e[k - 1] < e[k]  BY <1>8, <1>10, <3>1
    <3>3. ASSUME NEW j \in 0..Len(buf), j < k PROVE e[j] < e[k]
      <4>1. e[j] \in Nat  BY <1>10
      <4>2. CASE j = k - 1  BY <3>2, <4>2
      <4>3. CASE j < k - 1
        <5>1. e[j] < e[k - 1]  BY <2>2, <4>3
        <5> QED BY <3>2, <4>1, <5>1
      <4> QED BY <3>3, <4>2, <4>3
    <3> QED BY <3>1, <3>3
  <2> HIDE DEF grown
  <2> QED BY <2>1, <2>2, AllUpTo
<1>12. \A k \in 0..Len(buf) : e[k] \in Nat /\ \A j \in 0..Len(buf) : j < k => e[j] < e[k]
  BY <1>10, <1>11
<1> QED BY <1>4, <1>8, <1>12
-----------------------------------------------------------------------------
(* Listings *)

\* The files configured in directory d, in their order
Below(d) == {e \in Range(conf) : ~IsRoot(e) /\ e.dir = d}
Files(d) == Only(conf, Below(d))

\* Those of them that were added
AddedTo(d) == Only(SubSeq(conf, 1, added), Below(d))

\* The names in a directory are those of its files, in their order.
Ordered ==
  \A d : /\ Len(Listed(d)) = Len(AddedTo(d))
         /\ \A k \in 1..Len(AddedTo(d)) : Listed(d)[k] = AddedTo(d)[k].name
         /\ d \in DOMAIN dirfiles => Len(Listed(d)) > 0

\* A directory that is resolved can be listed, and left upwards.
Through ==
  /\ DOMAIN readdir \subseteq {fninode[d] : d \in resolved}
  /\ \A d \in resolved :
        /\ fninode[d] \in DOMAIN readdir
        /\ readdir[fninode[d]] =
             [k \in DOMAIN dirfiles[d] |-> fninode[Append(d, dirfiles[d][k])]]
        /\ \A n \in Range(dirfiles[d]) :
             /\ <<fninode[Append(d, n)], "..">> \in DOMAIN lookup
             /\ lookup[<<fninode[Append(d, n)], "..">>] = fninode[d]
  /\ phase = "serve" => <<1, "..">> \in DOMAIN lookup /\ lookup[<<1, "..">>] = 1

\* A listing under way has the entries up to the end of one.
Upto(h, m, over) ==
  [at |-> h, off |-> Ends(Buffer(h.ino))[m], got |-> SubSeq(Buffer(h.ino), 1, m), over |-> over]

Cut ==
  /\ phase # "serve" => listing = NoListing
  /\ \/ listing = NoListing
     \/ \E h \in known, over \in BOOLEAN :
          \/ /\ h.ino \notin DOMAIN readdir
             /\ listing = [at |-> h, off |-> 0, got |-> <<>>, over |-> over]
          \/ /\ h.ino \in DOMAIN readdir
             /\ \E m \in 0..Len(Buffer(h.ino)) :
                  listing = Upto(h, m, over) /\ (over => m = Len(Buffer(h.ino)))

ListInv == DirInv /\ Ordered /\ Through /\ Cut

\* The listing that ListingIsWhole promises
Whole(p) ==
  <<[name |-> ".", ino |-> InodeFor(p)],
    [name |-> "..", ino |-> InodeFor(IF p = Root THEN p ELSE Front(p))]>>
  \o [k \in DOMAIN Files(p) |->
        [name |-> Files(p)[k].name, ino |-> InodeFor(Path(Files(p)[k]))]]

LEMMA ConfTypes ==
  ASSUME Inodes
  PROVE  /\ conf \in Configs /\ conf \in Seq(Entries) /\ Len(conf) \in Nat
         /\ DOMAIN conf = 1..Len(conf) /\ added \in 0..Len(conf)
         /\ \A k \in 1..Len(conf) : conf[k] \in Range(conf)
         /\ Range(conf) \subseteq Entries
<1>1. conf \in Configs /\ added \in 0..Len(conf)  BY DEF Inodes
<1>2. conf \in Seq(Entries)  BY <1>1, ConfigAssumption
<1>3. Len(conf) \in Nat /\ DOMAIN conf = 1..Len(conf)  BY <1>2, LenProperties
<1>4. \A k \in 1..Len(conf) : conf[k] \in Entries  BY <1>2, ElementOfSeq
<1> QED BY <1>1, <1>2, <1>3, <1>4 DEF Range

LEMMA AboveRoot ==
  ASSUME Inodes, NEW p \in DOMAIN fninode, p # Root
  PROVE  /\ fninode[p] # 1
         /\ \E k \in 1..added : /\ IsLast(k, p) /\ ~IsRoot(conf[k]) /\ Path(conf[k]) = p
                                /\ fninode[p] \in DOMAIN stat
                                /\ stat[fninode[p]] = SetStat(conf[k], fninode[p])
<1>1. PICK k \in 1..added : /\ IsLast(k, p) /\ fninode[p] = InodeOf(k)
                            /\ InodeOf(k) \in DOMAIN stat
                            /\ stat[InodeOf(k)] = SetStat(conf[k], InodeOf(k))
  BY DEF Inodes
<1>2. k \in 1..Len(conf) /\ conf \in Configs  BY DEF Inodes
<1>3. Path(conf[k]) = p  BY <1>1 DEF IsLast
<1>4. ~IsRoot(conf[k])  BY <1>2, <1>3, EntryTypes
<1>5. fninode[p] = k + 1  BY <1>1, <1>4 DEF InodeOf
<1> QED BY <1>1, <1>3, <1>4, <1>5

LEMMA FilesTyped ==
  ASSUME Inodes, NEW d
  PROVE  /\ Files(d) \in Seq(Entries \cap Below(d))
         /\ AddedTo(d) \in Seq(Entries \cap Below(d))
         /\ added = Len(conf) => AddedTo(d) = Files(d)
<1>1. conf \in Seq(Entries) /\ Len(conf) \in Nat /\ added \in 0..Len(conf)  BY ConfTypes
<1>2. SubSeq(conf, 1, added) \in Seq(Entries)
  <2>1. \A i \in 1..added : conf[i] \in Entries  BY <1>1, ElementOfSeq
  <2> QED BY <1>1, <2>1, SubSeqProperties
<1>3. Files(d) \in Seq(Entries \cap Below(d))  BY <1>1, OnlyTyped DEF Files
<1>4. AddedTo(d) \in Seq(Entries \cap Below(d))  BY <1>2, OnlyTyped DEF AddedTo
<1>5. added = Len(conf) => SubSeq(conf, 1, added) = conf  BY <1>1, SubSeqFull
<1> QED BY <1>3, <1>4, <1>5 DEF Files, AddedTo

LEMMA ListedTyped ==
  ASSUME Dirs, NEW d
  PROVE  Listed(d) \in Seq(Names)
BY EmptySeq DEF Dirs, Listed

LEMMA AddOrdered ==
  ASSUME Tables, Known, Ordered, Through, AddFile
  PROVE  Ordered' /\ Through'
<1>n. PICK n : n = added + 1  OBVIOUS
<1>e. PICK e : e = conf[n]  OBVIOUS
<1>1. /\ phase = "load" /\ added < Len(conf) /\ added' = n
      /\ dirfiles' = IF IsRoot(e) THEN dirfiles
                     ELSE Set(dirfiles, e.dir, Append(Listed(e.dir), e.name))
      /\ UNCHANGED <<conf, phase, resolved, readdir>>
  BY <1>n, <1>e DEF AddFile
<1>2. /\ conf \in Configs /\ conf \in Seq(Entries) /\ Len(conf) \in Nat /\ added \in Nat
      /\ n \in 1..Len(conf) /\ e \in Entries /\ e \in Range(conf)
  BY <1>1, <1>n, <1>e, ConfTypes, ElementOfSeq DEF Tables
<1>3. resolved = {} /\ resolved' = {}  BY <1>1 DEF Tables, Dirs
<1>4. Through'
  <2>1. DOMAIN readdir = {}  BY <1>3 DEF Through
  <2> QED BY <1>1, <1>3, <2>1 DEF Through
<1>5. ~IsRoot(e) => e.dir \in Seq(Names) /\ e.name \in Names
  BY <1>2, <1>e, EntryTypes
<1>6. ASSUME NEW d
      PROVE  /\ Below(d)' = Below(d)
             /\ AddedTo(d)' = IF ~IsRoot(e) /\ e.dir = d THEN Append(AddedTo(d), e)
                              ELSE AddedTo(d)
  <2>1. Below(d)' = Below(d)  BY <1>1 DEF Below
  <2>2. SubSeq(conf, 1, added) \in Seq(Entries)
    <3>1. \A i \in 1..added : conf[i] \in Entries  BY <1>1, <1>2, ElementOfSeq
    <3> QED BY <1>2, <3>1, SubSeqProperties
  <2>3. SubSeq(conf, 1, n) = Append(SubSeq(conf, 1, added), e)
    <3>1. SubSeq(conf, 1, n) = SubSeq(conf, 1, n - 1) \o <<conf[n]>>
      BY <1>2, SubSeqRecursiveSecond
    <3>2. n - 1 = added  BY <1>n, <1>2
    <3> QED BY <1>2, <1>e, <2>2, <3>1, <3>2, AppendIsConcat
  <2>4. e \in Below(d) <=> ~IsRoot(e) /\ e.dir = d  BY <1>2 DEF Below
  <2>5. AddedTo(d)' = Only(Append(SubSeq(conf, 1, added), e), Below(d))
    BY <1>1, <2>1, <2>3 DEF AddedTo
  <2>6. Only(Append(SubSeq(conf, 1, added), e), Below(d))
          = IF e \in Below(d) THEN Append(AddedTo(d), e) ELSE AddedTo(d)
    BY <1>2, <2>2, OnlyAppend DEF AddedTo
  <2> QED BY <2>1, <2>4, <2>5, <2>6
<1>7. ASSUME NEW d
      PROVE  Listed(d)' = IF ~IsRoot(e) /\ e.dir = d THEN Append(Listed(d), e.name)
                          ELSE Listed(d)
  BY <1>1 DEF Listed, Set
<1>8. ASSUME NEW d
      PROVE  /\ Len(Listed(d)') = Len(AddedTo(d)')
             /\ \A k \in 1..Len(AddedTo(d)') : Listed(d)'[k] = AddedTo(d)'[k].name
             /\ d \in DOMAIN dirfiles' => Len(Listed(d)') > 0
  <2>1. /\ Listed(d) \in Seq(Names) /\ AddedTo(d) \in Seq(Entries)
        /\ Len(Listed(d)) \in Nat /\ Len(AddedTo(d)) \in Nat
    <3>1. Listed(d) \in Seq(Names)  BY ListedTyped DEF Tables
    <3>2. AddedTo(d) \in Seq(Entries \cap Below(d))  BY FilesTyped DEF Tables
    <3>3. AddedTo(d) \in Seq(Entries)
      <4>1. Entries \cap Below(d) \subseteq Entries  OBVIOUS
      <4> QED BY <3>2, <4>1, SeqMonotonic
    <3> QED BY <3>1, <3>3, LenProperties
  <2>2. /\ Len(Listed(d)) = Len(AddedTo(d))
        /\ \A k \in 1..Len(AddedTo(d)) : Listed(d)[k] = AddedTo(d)[k].name
        /\ d \in DOMAIN dirfiles => Len(Listed(d)) > 0
    BY DEF Ordered
  <2>3. CASE ~IsRoot(e) /\ e.dir = d
    <3>1. PICK s, t : s = Listed(d) /\ t = AddedTo(d)  OBVIOUS
    <3>2. /\ Len(Append(s, e.name)) = Len(s) + 1 /\ Append(s, e.name)[Len(s) + 1] = e.name
          /\ \A k \in 1..Len(s) : Append(s, e.name)[k] = s[k]
      BY <1>5, <2>1, <2>3, <3>1, AppendProperties
    <3>3. /\ Len(Append(t, e)) = Len(t) + 1 /\ Append(t, e)[Len(t) + 1] = e
          /\ \A k \in 1..Len(t) : Append(t, e)[k] = t[k]
      BY <1>2, <2>1, <3>1, AppendProperties
    <3>4. Listed(d)' = Append(s, e.name) /\ AddedTo(d)' = Append(t, e)
      BY <1>6, <1>7, <2>3, <3>1
    <3>5. \A k \in 1..(Len(t) + 1) : k \in 1..Len(t) \/ k = Len(t) + 1
      BY <2>1, <3>1
    <3>6. \A k \in 1..(Len(t) + 1) : Append(s, e.name)[k] = Append(t, e)[k].name
      BY <2>2, <3>1, <3>2, <3>3, <3>5
    <3> QED BY <2>1, <2>2, <3>1, <3>2, <3>3, <3>4, <3>6
  <2>4. CASE ~(~IsRoot(e) /\ e.dir = d)
    <3>1. Listed(d)' = Listed(d) /\ AddedTo(d)' = AddedTo(d)  BY <1>6, <1>7, <2>4
    <3>2. d \in DOMAIN dirfiles' => d \in DOMAIN dirfiles  BY <1>1, <2>4 DEF Set
    <3> QED BY <2>2, <3>1, <3>2
  <2> QED BY <2>3, <2>4
<1>9. Ordered'  BY <1>8 DEF Ordered
<1> QED BY <1>4, <1>9

LEMMA OrderedStays ==
  ASSUME Ordered, UNCHANGED <<conf, added, dirfiles>>
  PROVE  Ordered'
<1>1. ASSUME NEW d PROVE Listed(d)' = Listed(d) /\ AddedTo(d)' = AddedTo(d)
  <2>1. Below(d)' = Below(d)  BY DEF Below
  <2> QED BY <2>1 DEF Listed, AddedTo
<1> QED BY <1>1 DEF Ordered

LEMMA ResolveThrough ==
  ASSUME Tables, Known, Through, NEW d \in DOMAIN dirfiles, ResolveDir(d)
  PROVE  Through'
<1>1. /\ phase = "load" /\ d \notin resolved
      /\ UNCHANGED <<conf, added, inode, stat, fninode, dirfiles, known>>
  BY DEF ResolveDir
<1>2. CASE d \notin DOMAIN fninode
  <2>1. phase' = "crashed" /\ UNCHANGED <<resolved, lookup, readdir>>
    BY <1>2 DEF ResolveDir
  <2> QED BY <1>1, <2>1 DEF Through
<1>3. CASE d \in DOMAIN fninode
  <2>1. PICK dir, files : dir = fninode[d] /\ files = dirfiles[d]
    OBVIOUS
  <2>2. PICK downs, ups, members :
           /\ downs = {dir} \X Range(files)
           /\ members = [k \in DOMAIN files |-> fninode[Append(d, files[k])]]
           /\ ups = Range(members) \X {".."}
    OBVIOUS
  <2>3. /\ readdir' = Set(readdir, dir, members)
        /\ lookup' = [x \in DOMAIN lookup \cup downs \cup ups |->
                        IF x \in downs THEN fninode[Append(d, x[2])]
                        ELSE IF x \in ups THEN dir ELSE lookup[x]]
        /\ resolved' = resolved \cup {d} /\ UNCHANGED phase
    BY <1>3, <2>1, <2>2 DEF ResolveDir
  <2>4. /\ \A c \in DOMAIN dirfiles : c \in Seq(Names) /\ Range(dirfiles[c]) \subseteq Names
        /\ \A c \in DOMAIN dirfiles : \A n \in Range(dirfiles[c]) : Append(c, n) \in DOMAIN fninode
        /\ \A k \in DOMAIN files : files[k] \in Range(files)
        /\ resolved \subseteq DOMAIN dirfiles /\ resolved \subseteq DOMAIN fninode
    BY <2>1 DEF Tables, Dirs, Range
  <2>5. \A p, q \in DOMAIN fninode : fninode[p] = fninode[q] => p = q
    BY PathTypes DEF Tables
  <2>6. DOMAIN readdir' \subseteq {fninode[c] : c \in resolved'}
    BY <2>1, <2>3 DEF Through, Set
  <2>7. \A n \in Names : n # ".."  BY ConfigAssumption
  <2>8. ASSUME NEW c \in resolved'
        PROVE  /\ fninode[c] \in DOMAIN readdir'
               /\ readdir'[fninode[c]] =
                    [k \in DOMAIN dirfiles[c] |-> fninode[Append(c, dirfiles[c][k])]]
    <3>1. CASE c = d  BY <2>1, <2>2, <2>3, <3>1 DEF Set
    <3>2. CASE c # d
      <4>1. c \in resolved /\ fninode[c] # dir  BY <1>3, <2>1, <2>3, <2>4, <2>5, <3>2
      <4>2. /\ fninode[c] \in DOMAIN readdir
            /\ readdir[fninode[c]] =
                 [k \in DOMAIN dirfiles[c] |-> fninode[Append(c, dirfiles[c][k])]]
        BY <4>1 DEF Through
      <4> QED BY <2>3, <4>1, <4>2 DEF Set
    <3> QED BY <3>1, <3>2
  <2>9. ASSUME NEW c \in resolved', NEW n \in Range(dirfiles[c])
        PROVE  /\ <<fninode[Append(c, n)], "..">> \in DOMAIN lookup'
               /\ lookup'[<<fninode[Append(c, n)], "..">>] = fninode[c]
    <3>1. PICK x : x = <<fninode[Append(c, n)], "..">>  OBVIOUS
    <3>2. x \notin downs
      <4>1. \A y \in downs : y[2] \in Range(files)  BY <2>2
      <4>2. x[2] = ".."  BY <3>1
      <4>3. Range(files) \subseteq Names  BY <2>1, <2>4
      <4> QED BY <2>7, <4>1, <4>2, <4>3
    <3>3. CASE c = d
      <4>1. PICK k \in DOMAIN files : n = files[k]  BY <2>1, <3>3 DEF Range
      <4>2. members[k] = fninode[Append(c, n)] /\ k \in DOMAIN members  BY <2>2, <3>3, <4>1
      <4>3. x \in ups  BY <2>2, <3>1, <4>2 DEF Range
      <4> QED BY <2>1, <2>3, <3>1, <3>2, <3>3, <4>3
    <3>4. CASE c # d
      <4>1. c \in resolved /\ c \in DOMAIN dirfiles  BY <2>3, <2>4, <3>4
      <4>2. x \in DOMAIN lookup /\ lookup[x] = fninode[c]  BY <3>1, <4>1 DEF Through
      <4>3. x \notin ups
        <5> SUFFICES ASSUME x \in ups PROVE FALSE  OBVIOUS
        <5>1. PICK k \in DOMAIN files : fninode[Append(c, n)] = fninode[Append(d, files[k])]
          BY <2>2, <3>1 DEF Range
        <5>2. PICK m : m = files[k]  OBVIOUS
        <5>3. m \in Range(dirfiles[d])  BY <2>1, <2>4, <5>2
        <5>4. Append(c, n) \in DOMAIN fninode /\ Append(d, m) \in DOMAIN fninode
          BY <2>4, <4>1, <5>3
        <5>5. Append(c, n) = Append(d, m)  BY <2>5, <5>1, <5>2, <5>4
        <5>6. c \in Seq(Names) /\ d \in Seq(Names) /\ n \in Names /\ m \in Names
          BY <2>4, <4>1, <5>3
        <5> QED BY <3>4, <5>5, <5>6, AppendInjective
      <4> QED BY <2>3, <3>1, <3>2, <4>2, <4>3
    <3> QED BY <3>3, <3>4
  <2>10. phase' # "serve"  BY <1>1, <2>3
  <2>11. \A c \in resolved' :
           /\ fninode[c] \in DOMAIN readdir'
           /\ readdir'[fninode[c]] =
                [k \in DOMAIN dirfiles[c] |-> fninode[Append(c, dirfiles[c][k])]]
           /\ \A n \in Range(dirfiles[c]) :
                /\ <<fninode[Append(c, n)], "..">> \in DOMAIN lookup'
                /\ lookup'[<<fninode[Append(c, n)], "..">>] = fninode[c]
    BY <2>8, <2>9
  <2> QED BY <1>1, <2>6, <2>10, <2>11 DEF Through
<1> QED BY <1>2, <1>3

LEMMA LoadedThrough ==
  ASSUME Tables, Known, Through, Loaded
  PROVE  Through'
<1>1. /\ lookup' = Set(lookup, <<1, "..">>, 1)
      /\ UNCHANGED <<conf, added, inode, stat, fninode, dirfiles, resolved, readdir>>
  BY DEF Loaded
<1>2. /\ DOMAIN lookup' = DOMAIN lookup \cup {<<1, "..">>} /\ lookup'[<<1, "..">>] = 1
      /\ \A x \in DOMAIN lookup : x # <<1, "..">> => lookup'[x] = lookup[x]
  BY <1>1 DEF Set
<1>3. ASSUME NEW c \in resolved, NEW n \in Range(dirfiles[c])
      PROVE  /\ <<fninode[Append(c, n)], "..">> \in DOMAIN lookup'
             /\ lookup'[<<fninode[Append(c, n)], "..">>] = fninode[c]
  <2>1. PICK x : x = <<fninode[Append(c, n)], "..">>  OBVIOUS
  <2>2. x \in DOMAIN lookup /\ lookup[x] = fninode[c]  BY <2>1 DEF Through
  <2>3. /\ c \in Seq(Names) /\ n \in Names /\ Append(c, n) \in DOMAIN fninode
    BY DEF Tables, Dirs, Range
  <2>4. Append(c, n) # Root  BY <2>3, AppendProperties DEF Root
  <2>5. fninode[Append(c, n)] # 1  BY <2>3, <2>4, AboveRoot DEF Tables
  <2>6. x # <<1, "..">>  BY <2>1, <2>5
  <2> QED BY <1>2, <2>1, <2>2, <2>6
<1> QED BY <1>1, <1>2, <1>3 DEF Through

\* The handlers change neither the tables nor what is made of them.
LEMMA TablesStay ==
  ASSUME UNCHANGED <<conf, phase, loadVars>>
  PROVE  /\ \A i : Buffer(i)' = Buffer(i)
         /\ Ordered => Ordered'
         /\ Through => Through'
<1>1. UNCHANGED <<conf, phase, added, inode, stat, fninode, dirfiles, resolved, lookup, readdir>>
  BY DEF loadVars
<1>2. \A i : Buffer(i)' = Buffer(i)  BY <1>1 DEF Buffer
<1>3. Ordered => Ordered'  BY <1>1, OrderedStays
<1>4. Through => Through'  BY <1>1 DEF Through
<1> QED BY <1>2, <1>3, <1>4

LEMMA InodeForIs ==
  ASSUME Tables, Known, phase = "serve", NEW p \in DOMAIN fninode
  PROVE  InodeFor(p) = fninode[p]
<1>1. stat[fninode[p]] = Attributes(p) /\ stat[fninode[p]].ino = fninode[p]
  BY AttributesOfPath
<1>2. Attributes(p).ino = InodeFor(p)  BY DEF Attributes, SetStat
<1> QED BY <1>1, <1>2

\* What is above a directory, or the root itself
LEMMA ParentOf ==
  ASSUME Tables, Known, Through, phase = "serve", NEW p \in DOMAIN fninode
  PROVE  /\ <<fninode[p], "..">> \in DOMAIN lookup
         /\ lookup[<<fninode[p], "..">>] = InodeFor(IF p = Root THEN p ELSE Front(p))
<1>1. CASE p = Root
  <2>1. fninode[p] = 1  BY <1>1, PathTypes DEF Tables
  <2> QED BY <1>1, <2>1, InodeForIs DEF Through
<1>2. CASE p # Root
  <2>1. PICK k \in 1..added : ~IsRoot(conf[k]) /\ Path(conf[k]) = p
    BY <1>2, AboveRoot DEF Tables
  <2>2. conf \in Configs /\ k \in 1..Len(conf)  BY ConfTypes DEF Tables
  <2>3. PICK d, n : d = conf[k].dir /\ n = conf[k].name  OBVIOUS
  <2>4. d \in Seq(Names) /\ n \in Names /\ p = Append(d, n)
    BY <2>1, <2>2, <2>3, EntryTypes
  <2>5. d \in resolved /\ n \in Range(dirfiles[d])
    BY <2>1, <2>3 DEF Tables, Dirs, Known
  <2>6. d \in DOMAIN fninode  BY <2>5 DEF Tables, Dirs
  <2>7. Front(p) = d
    <3>1. /\ p \in Seq(Names) /\ Len(p) = Len(d) + 1 /\ Len(d) \in Nat
          /\ \A i \in 1..Len(d) : p[i] = d[i]
      BY <2>4, AppendProperties, LenProperties
    <3>2. Front(p) = SubSeq(p, 1, Len(d))  BY <3>1 DEF Front
    <3>3. \A i \in 1..Len(d) : p[i] \in Names  BY <2>4, <3>1, ElementOfSeq
    <3>4. /\ SubSeq(p, 1, Len(d)) \in Seq(Names) /\ Len(SubSeq(p, 1, Len(d))) = Len(d)
          /\ \A i \in 1..Len(d) : SubSeq(p, 1, Len(d))[i] = p[i]
      BY <3>1, <3>3, SubSeqProperties
    <3> QED BY <2>4, <3>1, <3>2, <3>4, SeqEqual
  <2>8. InodeFor(d) = fninode[d]  BY <2>6, InodeForIs
  <2> QED BY <1>2, <2>4, <2>5, <2>7, <2>8 DEF Through
<1> QED BY <1>1, <1>2

\* A file of directory p, and what the tables have of it
LEMMA FileIn ==
  ASSUME Tables, Known, phase = "serve", NEW p \in Seq(Names), NEW f \in Below(p)
  PROVE  /\ f.name \in Names /\ Path(f) = Append(p, f.name)
         /\ Path(f) \in DOMAIN fninode /\ InodeFor(Path(f)) = fninode[Path(f)]
         /\ fninode[Path(f)] \in DOMAIN stat /\ stat[fninode[Path(f)]].name = f.name
<1>1. PICK j \in 1..Len(conf) : f = conf[j]
  BY ConfTypes DEF Below, Range, Tables
<1>2. ~IsRoot(f) /\ f.dir = p  BY DEF Below
<1>3. added = Len(conf) /\ conf \in Configs  BY ConfTypes DEF Tables, Known
<1>4. f.name \in Names /\ Path(f) = Append(p, f.name)  BY <1>1, <1>2, <1>3, EntryTypes
<1>5. Path(f) \in DOMAIN fninode  BY <1>1, <1>3 DEF Tables, Inodes
<1>6. Path(f) # Root  BY <1>4, AppendProperties DEF Root
<1>7. PICK q : q = Path(f)  OBVIOUS
<1>8. PICK k \in 1..added : /\ ~IsRoot(conf[k]) /\ Path(conf[k]) = q
                            /\ fninode[q] \in DOMAIN stat
                            /\ stat[fninode[q]] = SetStat(conf[k], fninode[q])
  BY <1>5, <1>6, <1>7, AboveRoot DEF Tables
<1>9. conf[k].name = f.name
  <2>1. k \in 1..Len(conf)  BY <1>3
  <2>2. /\ conf[k].dir \in Seq(Names) /\ conf[k].name \in Names
        /\ q = Append(conf[k].dir, conf[k].name)
    BY <1>3, <1>8, <2>1, EntryTypes
  <2>3. PICK d, n, m : d = conf[k].dir /\ n = conf[k].name /\ m = f.name  OBVIOUS
  <2>4. d \in Seq(Names) /\ n \in Names /\ m \in Names /\ Append(d, n) = Append(p, m)
    BY <1>4, <1>7, <2>2, <2>3
  <2>5. n = m  BY <2>4, AppendInjective
  <2> QED BY <2>3, <2>5
<1>10. stat[fninode[q]].name = f.name  BY <1>8, <1>9 DEF SetStat
<1>11. InodeFor(q) = fninode[q]  BY <1>5, <1>7, InodeForIs
<1> QED BY <1>4, <1>5, <1>7, <1>8, <1>10, <1>11

LEMMA NamesInOrder ==
  ASSUME Tables, Known, Ordered, phase = "serve", NEW p
  PROVE  /\ Files(p) \in Seq(Entries \cap Below(p)) /\ Len(Files(p)) \in Nat
         /\ DOMAIN Files(p) = 1..Len(Files(p))
         /\ Len(Listed(p)) = Len(Files(p))
         /\ \A k \in 1..Len(Files(p)) : /\ Files(p)[k] \in Below(p)
                                        /\ Listed(p)[k] = Files(p)[k].name
         /\ p \in DOMAIN dirfiles => Len(Files(p)) > 0
<1>1. Files(p) \in Seq(Entries \cap Below(p)) /\ AddedTo(p) = Files(p)
  BY FilesTyped DEF Tables, Known
<1>2. Len(Files(p)) \in Nat /\ DOMAIN Files(p) = 1..Len(Files(p))  BY <1>1, LenProperties
<1>3. \A k \in 1..Len(Files(p)) : Files(p)[k] \in Below(p)  BY <1>1, ElementOfSeq
<1> QED BY <1>1, <1>2, <1>3 DEF Ordered

\* The buffer of a directory is its listing.
LEMMA BufferIs ==
  ASSUME Tables, Known, Ordered, Through, phase = "serve", NEW p \in DOMAIN fninode,
         fninode[p] \in DOMAIN readdir
  PROVE  Buffer(fninode[p]) = Whole(p) /\ Files(p) # <<>>
<1>1. PICK ino : ino = fninode[p]  OBVIOUS
<1>2. p \in resolved /\ p \in DOMAIN dirfiles /\ p \in Seq(Names)
  <2>1. PICK d \in resolved : fninode[d] = fninode[p]  BY DEF Through
  <2>2. d = p  BY <2>1, PathTypes DEF Tables, Dirs
  <2> QED BY <2>1, <2>2 DEF Tables, Dirs
<1>3. PICK files : files = Files(p)  OBVIOUS
<1>4. PICK n : n = Len(files)  OBVIOUS
<1>5. /\ n \in Nat /\ n > 0 /\ DOMAIN files = 1..n
      /\ \A k \in 1..n : files[k] \in Below(p) /\ dirfiles[p][k] = files[k].name
      /\ Len(dirfiles[p]) = n
  <2>1. Listed(p) = dirfiles[p]  BY <1>2 DEF Listed
  <2> QED BY <1>2, <1>3, <1>4, <2>1, NamesInOrder
<1>6. DOMAIN dirfiles[p] = 1..n
  <2>1. dirfiles[p] \in Seq(Names)  BY <1>2 DEF Tables, Dirs
  <2> QED BY <1>5, <2>1, LenProperties
<1>7. PICK members : members = readdir[ino]  OBVIOUS
<1>8. \A k \in 1..n :
        /\ members[k] = fninode[Append(p, files[k].name)]
        /\ members[k] = InodeFor(Path(files[k]))
        /\ members[k] \in DOMAIN stat /\ stat[members[k]].name = files[k].name
  <2> SUFFICES ASSUME NEW k \in 1..n
               PROVE  /\ members[k] = fninode[Append(p, files[k].name)]
                      /\ members[k] = InodeFor(Path(files[k]))
                      /\ members[k] \in DOMAIN stat
                      /\ stat[members[k]].name = files[k].name
    OBVIOUS
  <2>1. members = [j \in DOMAIN dirfiles[p] |-> fninode[Append(p, dirfiles[p][j])]]
    BY <1>1, <1>2, <1>7 DEF Through
  <2>2. members[k] = fninode[Append(p, files[k].name)]  BY <1>5, <1>6, <2>1
  <2>3. PICK f : f = files[k]  OBVIOUS
  <2>4. f \in Below(p)  BY <1>5, <2>3
  <2>5. /\ Path(f) = Append(p, f.name) /\ InodeFor(Path(f)) = fninode[Path(f)]
        /\ fninode[Path(f)] \in DOMAIN stat /\ stat[fninode[Path(f)]].name = f.name
    BY <1>2, <2>4, FileIn
  <2> QED BY <2>2, <2>3, <2>5
<1>9. members \in Seq(DOMAIN stat) /\ Len(members) = n
  <2>1. members = [j \in 1..n |-> fninode[Append(p, dirfiles[p][j])]]
    BY <1>1, <1>2, <1>6, <1>7 DEF Through
  <2>2. members \in [1..n -> DOMAIN stat]  BY <1>8, <2>1
  <2>3. members \in Seq(DOMAIN stat)  BY <1>5, <2>2
  <2>4. DOMAIN members = 1..n  BY <2>1
  <2> QED BY <1>5, <2>3, <2>4, LenProperties
<1>10. Only(members, DOMAIN stat) = members
  BY <1>8, <1>9, OnlyAll
<1>11. DOMAIN members = 1..n  BY <1>9, LenProperties
<1>12. ino \in DOMAIN stat /\ ino = InodeFor(p)
  BY <1>1, AttributesOfPath, InodeForIs
<1>13. /\ <<ino, "..">> \in DOMAIN lookup
       /\ lookup[<<ino, "..">>] = InodeFor(IF p = Root THEN p ELSE Front(p))
  BY <1>1, ParentOf
<1>14. PICK a, b : /\ a = [name |-> ".", ino |-> ino]
                   /\ b = [name |-> "..", ino |-> lookup[<<ino, "..">>]]
  OBVIOUS
<1>15. PICK rest : rest = [k \in 1..n |-> [name |-> files[k].name, ino |-> members[k]]]
  OBVIOUS
<1>16. Buffer(ino) = (<<a>> \o <<b>>) \o rest
  <2>1. [k \in DOMAIN members |-> [name |-> stat[members[k]].name, ino |-> members[k]]] = rest
    BY <1>8, <1>11, <1>15
  <2> QED BY <1>7, <1>10, <1>12, <1>13, <1>14, <2>1 DEF Buffer
<1>17. Whole(p) = <<a, b>> \o rest
  <2>1. [k \in DOMAIN files |-> [name |-> files[k].name, ino |-> InodeFor(Path(files[k]))]]
          = rest
    BY <1>5, <1>8, <1>15
  <2> QED BY <1>3, <1>12, <1>13, <1>14, <2>1 DEF Whole
<1>18. <<a>> \o <<b>> = <<a, b>>
  <2>1. PICK S : S = {a, b}  OBVIOUS
  <2>2. <<a>> \in Seq(S) /\ <<b>> \in Seq(S) /\ <<a, b>> \in Seq(S)  BY <2>1
  <2>3. PICK s : s = <<a>> \o <<b>>  OBVIOUS
  <2>4. Len(<<a>>) = 1 /\ Len(<<b>>) = 1 /\ <<a>>[1] = a /\ <<b>>[1] = b  OBVIOUS
  <2>5. s \in Seq(S) /\ Len(s) = 2 /\ s[1] = a /\ s[2] = b
    BY <2>2, <2>3, <2>4, ConcatProperties
  <2>6. Len(<<a, b>>) = 2 /\ <<a, b>>[1] = a /\ <<a, b>>[2] = b  OBVIOUS
  <2>7. \A k \in 1..2 : s[k] = <<a, b>>[k]  BY <2>5, <2>6
  <2> QED BY <2>2, <2>3, <2>5, <2>6, <2>7, SeqEqual
<1>19. files # <<>>
  <2>1. Len(<<>>) = 0  OBVIOUS
  <2> QED BY <1>4, <1>5, <2>1
<1> QED BY <1>1, <1>3, <1>16, <1>17, <1>18, <1>19

\* What has no list has no files.
LEMMA NothingIn ==
  ASSUME Tables, Known, Ordered, Through, phase = "serve", NEW p \in DOMAIN fninode,
         fninode[p] \notin DOMAIN readdir
  PROVE  Files(p) = <<>>
<1>1. p \notin DOMAIN dirfiles  BY DEF Through, Known
<1>2. Listed(p) = <<>>  BY <1>1 DEF Listed
<1>3. Len(Files(p)) = 0 /\ Files(p) \in Seq(Entries \cap Below(p))
  BY <1>2, NamesInOrder
<1> QED BY <1>3, EmptySeq

\* The names in a listing have room in it.
LEMMA WholeTypes ==
  ASSUME Tables, Known, Ordered, phase = "serve", NEW p \in Seq(Names)
  PROVE  /\ \E T : Whole(p) \in Seq(T)
         /\ Len(Whole(p)) \in Nat
         /\ \A k \in 1..Len(Whole(p)) : Whole(p)[k].name \in DOMAIN Room
<1>1. PICK a, b, rest :
         /\ a = [name |-> ".", ino |-> InodeFor(p)]
         /\ b = [name |-> "..", ino |-> InodeFor(IF p = Root THEN p ELSE Front(p))]
         /\ rest = [k \in DOMAIN Files(p) |->
                      [name |-> Files(p)[k].name, ino |-> InodeFor(Path(Files(p)[k]))]]
  OBVIOUS
<1>2. PICK n : n = Len(Files(p))  OBVIOUS
<1>3. n \in Nat /\ DOMAIN Files(p) = 1..n /\ \A k \in 1..n : Files(p)[k] \in Below(p)
  BY <1>2, NamesInOrder
<1> DEFINE T == {a, b} \cup {rest[k] : k \in 1..n}
<1>4. rest \in [1..n -> T]  BY <1>1, <1>3
<1>5. rest \in Seq(T)  BY <1>3, <1>4
<1>6. \A x \in T : x.name \in DOMAIN Room
  <2>1. ASSUME NEW k \in 1..n PROVE rest[k].name \in Names
    <3>1. rest[k].name = Files(p)[k].name  BY <1>1, <1>3
    <3>2. PICK f : f = Files(p)[k]  OBVIOUS
    <3>3. f \in Below(p)  BY <1>3, <3>2
    <3>4. f.name \in Names  BY <3>3, FileIn
    <3> QED BY <3>1, <3>2, <3>4
  <2>2. Names \cup {".", ".."} = DOMAIN Room  BY RoomAssumption
  <2>3. a.name = "." /\ b.name = ".."  BY <1>1
  <2> QED BY <2>1, <2>2, <2>3
<1>7. a \in T /\ b \in T  OBVIOUS
<1> HIDE DEF T
<1>8. <<a, b>> \in Seq(T)  BY <1>7
<1>9. Whole(p) = <<a, b>> \o rest  BY <1>1 DEF Whole
<1>10. Whole(p) \in Seq(T)  BY <1>5, <1>8, <1>9, ConcatProperties
<1>11. Len(Whole(p)) \in Nat  BY <1>10, LenProperties
<1>12. \A k \in 1..Len(Whole(p)) : Whole(p)[k] \in T  BY <1>10, ElementOfSeq
<1> QED BY <1>6, <1>10, <1>11, <1>12

LEMMA GreatestOf ==
  ASSUME NEW n \in Nat, NEW S \in SUBSET (1..n), S # {}
  PROVE  \E x \in S : \A y \in S : x >= y
<1> DEFINE bounds == {m \in Nat : \A y \in S : y <= m}
<1>1. bounds \in SUBSET Nat /\ n \in bounds  OBVIOUS
<1>2. PICK m \in bounds : \A b \in bounds : m <= b
  <2> HIDE DEF bounds
  <2> QED BY <1>1, LeastOf
<1>3. m \in Nat /\ \A y \in S : y <= m  OBVIOUS
<1>4. m \in S
  <2> SUFFICES ASSUME m \notin S PROVE FALSE  OBVIOUS
  <2>1. m > 0
    <3>1. PICK y \in S : y \in 1..n  OBVIOUS
    <3> QED BY <1>3, <3>1
  <2>2. m - 1 \in Nat /\ \A y \in S : y <= m - 1  BY <1>3, <2>1
  <2>3. m - 1 \in bounds  BY <2>2
  <2> QED BY <1>2, <1>3, <2>3
<1> QED BY <1>3, <1>4

\* What the kernel lists has the path of a directory, whose entries have room.
LEMMA BufferTypes ==
  ASSUME Tables, Known, Ordered, Through, phase = "serve", NEW h \in known,
         h.ino \in DOMAIN readdir
  PROVE  /\ Buffer(h.ino) = Whole(h.path) /\ Files(h.path) # <<>>
         /\ \E T : Buffer(h.ino) \in Seq(T)
         /\ Len(Buffer(h.ino)) \in Nat
         /\ \A k \in 1..Len(Buffer(h.ino)) : Buffer(h.ino)[k].name \in DOMAIN Room
<1>1. h.path \in DOMAIN fninode /\ h.ino = fninode[h.path]  BY DEF Known
<1>2. h.path \in Seq(Names)  BY <1>1, PathTypes DEF Tables
<1>3. Buffer(h.ino) = Whole(h.path) /\ Files(h.path) # <<>>  BY <1>1, BufferIs
<1> QED BY <1>2, <1>3, WholeTypes

LEMMA CutOpens ==
  ASSUME Tables, Known, Ordered, Through, Cut, NEW h \in known, OpenDir(h)
  PROVE  Cut'
<1>1. /\ phase = "serve" /\ UNCHANGED <<conf, phase, loadVars, known>>
      /\ listing' = [at |-> h, off |-> 0, got |-> <<>>, over |-> FALSE]
  BY DEF OpenDir
<1>2. Buffer(h.ino)' = Buffer(h.ino) /\ UNCHANGED readdir
  BY <1>1, TablesStay DEF loadVars
<1>3. CASE h.ino \notin DOMAIN readdir  BY <1>1, <1>2, <1>3 DEF Cut
<1>4. CASE h.ino \in DOMAIN readdir
  <2>1. PICK buf : buf = Buffer(h.ino)  OBVIOUS
  <2>2. Len(buf) \in Nat /\ Ends(buf)[0] = 0
    BY <1>1, <1>4, <2>1, BufferTypes, EndsAre
  <2>3. SubSeq(buf, 1, 0) = <<>>
    <3>1. \E T : buf \in Seq(T)  BY <1>1, <1>4, <2>1, BufferTypes
    <3> QED BY <3>1, SubSeqEmpty
  <2>4. listing' = Upto(h, 0, FALSE)'  BY <1>1, <1>2, <2>1, <2>2, <2>3 DEF Upto
  <2>5. 0 \in 0..Len(Buffer(h.ino)')  BY <1>2, <2>1, <2>2
  <2> QED BY <1>1, <1>2, <1>4, <2>4, <2>5 DEF Cut
<1> QED BY <1>3, <1>4

\* A piece goes from the end of an entry to that of a later one, or is the
\* end of the listing.
LEMMA CutGrows ==
  ASSUME Tables, Known, Ordered, Through, Cut, NEW size \in PieceSizes, ReadDir(size)
  PROVE  Cut'
<1>1. UNCHANGED <<conf, phase, loadVars, known>> /\ phase = "serve" /\ ~listing.over
  BY DEF ReadDir, Respond
<1>2. (\A i : Buffer(i)' = Buffer(i)) /\ UNCHANGED readdir
  BY <1>1, TablesStay DEF loadVars
<1>3. listing # NoListing  BY <1>1 DEF NoListing
<1>4. PICK h \in known, over \in BOOLEAN :
          \/ /\ h.ino \notin DOMAIN readdir
             /\ listing = [at |-> h, off |-> 0, got |-> <<>>, over |-> over]
          \/ /\ h.ino \in DOMAIN readdir
             /\ \E m \in 0..Len(Buffer(h.ino)) :
                  listing = Upto(h, m, over) /\ (over => m = Len(Buffer(h.ino)))
  BY <1>3 DEF Cut
<1>5. listing.at = h  BY <1>4 DEF Upto
<1>6. CASE h.ino \notin DOMAIN readdir
  <2>1. listing = [at |-> h, off |-> 0, got |-> <<>>, over |-> over]  BY <1>4, <1>6
  <2>2. listing' = [listing EXCEPT !.over = TRUE]  BY <1>5, <1>6 DEF ReadDir
  <2>3. listing' = [at |-> h, off |-> 0, got |-> <<>>, over |-> TRUE]  BY <2>1, <2>2
  <2> QED BY <1>1, <1>2, <1>6, <2>3 DEF Cut
<1>7. CASE h.ino \in DOMAIN readdir
  <2>1. PICK buf : buf = Buffer(h.ino)  OBVIOUS
  <2>2. PICK n, end : n = Len(buf) /\ end = Ends(buf)  OBVIOUS
  <2>3. PICK m \in 0..n : listing = Upto(h, m, over) /\ (over => m = n)
    BY <1>4, <1>7, <2>1, <2>2
  <2>4. /\ n \in Nat /\ \A k \in 1..n : buf[k].name \in DOMAIN Room
        /\ end[0] = 0
        /\ \A k \in 0..n : end[k] \in Nat
        /\ \A k \in 1..n : end[k] = end[k - 1] + Room[buf[k].name]
        /\ \A j, k \in 0..n : j < k => end[j] < end[k]
    BY <1>1, <1>7, <2>1, <2>2, BufferTypes, EndsAre
  <2>5. /\ listing.off = end[m] /\ listing.got = SubSeq(buf, 1, m)
        /\ listing = [at |-> h, off |-> end[m], got |-> SubSeq(buf, 1, m), over |-> over]
    BY <2>1, <2>2, <2>3 DEF Upto
  <2>6. PICK cut : cut = IF end[m] + size < end[n] THEN end[m] + size ELSE end[n]
    OBVIOUS
  <2>7. PICK new : new = {k \in 1..n : end[k - 1] >= end[m] /\ end[k] <= cut}
    OBVIOUS
  <2>8. PICK lo, hi : /\ lo = CHOOSE k \in new : \A l \in new : k <= l
                      /\ hi = CHOOSE k \in new : \A l \in new : k >= l
    OBVIOUS
  <2>9. /\ new = {} => listing' = [listing EXCEPT !.over = TRUE]
        /\ new # {} => listing' = [listing EXCEPT !.got = @ \o SubSeq(buf, lo, hi),
                                                  !.off = Where(buf, hi)]
    <3> DEFINE B == Buffer(listing.at.ino)
               C == IF listing.off + size < Ends(B)[Len(B)]
                    THEN listing.off + size ELSE Ends(B)[Len(B)]
               New == {k \in 1..Len(B) : Ends(B)[k - 1] >= listing.off /\ Ends(B)[k] <= C}
    <3>1. /\ New = {} => listing' = [listing EXCEPT !.over = TRUE]
          /\ New # {} => listing' =
               [listing EXCEPT !.got = @ \o SubSeq(B, CHOOSE k \in New : \A l \in New : k <= l,
                                                      CHOOSE k \in New : \A l \in New : k >= l),
                               !.off = Where(B, CHOOSE k \in New : \A l \in New : k >= l)]
      BY <1>5, <1>7 DEF ReadDir
    <3>2. New = new /\ B = buf
      <4>1. B = buf  BY <1>5, <2>1
      <4>2. C = cut  BY <2>2, <2>5, <2>6, <4>1
      <4> QED BY <2>2, <2>5, <2>7, <4>1, <4>2
    <3> HIDE DEF New
    <3> QED BY <2>8, <3>1, <3>2
  <2>10. m < n => m + 1 \in new
    <3> SUFFICES ASSUME m < n PROVE m + 1 \in new  OBVIOUS
    <3>1. PICK k : k = m + 1  OBVIOUS
    <3>2. k \in 1..n /\ k - 1 = m  BY <2>4, <3>1
    <3>3. PICK r : r = Room[buf[k].name]  OBVIOUS
    <3>4. r \in Nat /\ size >= r /\ size \in Nat
      BY <2>4, <3>2, <3>3, RoomAssumption
    <3>5. end[k] = end[m] + r /\ end[k] \in Nat /\ end[m] \in Nat /\ end[n] \in Nat
      BY <2>4, <3>2, <3>3
    <3>6. end[k] <= end[n]  BY <2>4, <3>2, <3>5
    <3>7. end[k] <= cut  BY <2>6, <3>4, <3>5, <3>6
    <3> QED BY <2>7, <3>1, <3>2, <3>5, <3>7
  <2>11. \A k \in new : k \in 1..n /\ m + 1 <= k
    <3> SUFFICES ASSUME NEW k \in new PROVE k \in 1..n /\ m + 1 <= k  OBVIOUS
    <3>1. k \in 1..n /\ end[k - 1] >= end[m]  BY <2>7
    <3>2. k - 1 \in 0..n /\ m \in 0..n  BY <2>4, <3>1
    <3>3. PICK j : j = k - 1  OBVIOUS
    <3>4. end[j] \in Nat /\ end[m] \in Nat /\ (j < m => end[j] < end[m])
      BY <2>4, <3>2, <3>3
    <3>5. ~(j < m)  BY <3>1, <3>3, <3>4
    <3> QED BY <2>4, <3>1, <3>2, <3>3, <3>5
  <2>12. CASE new = {}
    <3>1. m = n  BY <2>4, <2>10, <2>12
    <3>2. listing' = [at |-> h, off |-> end[m], got |-> SubSeq(buf, 1, m), over |-> TRUE]
      BY <2>5, <2>9, <2>12
    <3>3. listing' = Upto(h, m, TRUE)'  BY <1>1, <1>2, <2>1, <2>2, <3>2 DEF Upto
    <3> QED BY <1>1, <1>2, <1>7, <2>1, <2>2, <3>1, <3>3 DEF Cut
  <2>13. CASE new # {}
    <3>1. m < n  BY <2>4, <2>11, <2>13
    <3>2. lo = m + 1
      <4>1. m + 1 \in new /\ \A l \in new : m + 1 <= l  BY <2>10, <2>11, <3>1
      <4>2. \E k \in new : \A l \in new : k <= l  BY <4>1
      <4>3. lo \in new /\ \A l \in new : lo <= l  BY <2>8, <4>2
      <4> QED BY <2>4, <2>11, <4>1, <4>3
    <3>3. hi \in new
      <4>1. new \in SUBSET (1..n)  BY <2>7
      <4>2. \E k \in new : \A l \in new : k >= l  BY <2>4, <2>13, <4>1, GreatestOf
      <4> QED BY <2>8, <4>2
    <3>4. hi \in 1..n /\ m + 1 <= hi  BY <2>11, <3>3
    <3>5. SubSeq(buf, 1, m) \o SubSeq(buf, m + 1, hi) = SubSeq(buf, 1, hi)
      <4>1. PICK T : buf \in Seq(T)  BY <1>1, <1>7, <2>1, BufferTypes
      <4>2. /\ 1 \in 1..(Len(buf) + 1) /\ m \in (1 - 1)..Len(buf) /\ hi \in m..Len(buf)
        BY <2>2, <2>4, <3>4
      <4> QED BY <4>1, <4>2, ConcatAdjacentSubSeq
    <3>6. over = FALSE
      <4>1. listing.over = over  BY <2>5
      <4> QED BY <1>1, <4>1
    <3>7. listing' = [at |-> h, off |-> end[hi], got |-> SubSeq(buf, 1, hi), over |-> FALSE]
      <4>1. Where(buf, hi) = end[hi]  BY <2>2 DEF Where
      <4>2. listing' = [at |-> h, off |-> end[hi],
                        got |-> SubSeq(buf, 1, m) \o SubSeq(buf, m + 1, hi), over |-> over]
        BY <2>5, <2>9, <2>13, <3>2, <4>1
      <4> QED BY <3>5, <3>6, <4>2
    <3>8. listing' = Upto(h, hi, FALSE)'  BY <1>1, <1>2, <2>1, <2>2, <3>7 DEF Upto
    <3>9. hi \in 0..n  BY <2>4, <3>4
    <3> QED BY <1>1, <1>2, <1>7, <2>1, <2>2, <3>8, <3>9 DEF Cut
  <2> QED BY <2>12, <2>13
<1> QED BY <1>6, <1>7

LEMMA CutStays ==
  ASSUME Cut, phase = "serve" \/ listing = NoListing,
         UNCHANGED <<conf, phase, loadVars, listing>>, known \subseteq known'
  PROVE  Cut'
<1>1. (\A i : Buffer(i)' = Buffer(i)) /\ UNCHANGED readdir  BY TablesStay DEF loadVars
<1>2. \A h, m, over : Upto(h, m, over)' = Upto(h, m, over)  BY <1>1 DEF Upto
<1> QED BY <1>1, <1>2 DEF Cut

LEMMA InitListInv == DirInit => ListInv
<1> SUFFICES ASSUME DirInit PROVE ListInv  OBVIOUS
<1>1. DirInv  BY InitDirInv
<1>2. DOMAIN Empty = {}  BY DEF Empty
<1>3. Ordered
  <2>1. added = 0 /\ dirfiles = Empty  BY DEF DirInit
  <2>2. conf \in Seq(Entries)  BY ConfTypes, <1>1 DEF DirInv, Tables
  <2>3. SubSeq(conf, 1, 0) = <<>>  BY <2>2, SubSeqEmpty
  <2>4. \A d : AddedTo(d) = <<>> /\ Listed(d) = <<>>
    BY <1>2, <2>1, <2>3, OnlyNone DEF AddedTo, Listed
  <2>5. Len(<<>>) = 0  OBVIOUS
  <2> QED BY <1>2, <2>1, <2>4, <2>5 DEF Ordered
<1>4. Through  BY <1>2 DEF DirInit, Through
<1>5. Cut  BY DEF DirInit, Cut
<1> QED BY <1>1, <1>3, <1>4, <1>5 DEF ListInv

LEMMA ListInductive == ListInv /\ [DirNext]_dirVars => ListInv'
<1> SUFFICES ASSUME ListInv, [DirNext]_dirVars PROVE ListInv'  OBVIOUS
<1>1. DirInv'  BY Inductive DEF ListInv
<1>2. Tables /\ Known /\ Ordered /\ Through /\ Cut  BY DEF ListInv, DirInv
<1>3. CASE Load
  <2>1. Ordered' /\ Through'
    <3>1. CASE AddFile  BY <1>2, <3>1, AddOrdered
    <3>2. ASSUME NEW d \in DOMAIN dirfiles, ResolveDir(d) PROVE Ordered' /\ Through'
      <4>1. UNCHANGED <<conf, added, dirfiles>>  BY <3>2 DEF ResolveDir
      <4> QED BY <1>2, <3>2, <4>1, OrderedStays, ResolveThrough
    <3>3. CASE Loaded
      <4>1. UNCHANGED <<conf, added, dirfiles>>  BY <3>3 DEF Loaded
      <4> QED BY <1>2, <3>3, <4>1, OrderedStays, LoadedThrough
    <3> QED BY <1>3, <3>1, <3>2, <3>3 DEF Load
  <2>2. phase = "load" /\ listing' = listing
    BY <1>3 DEF Load, AddFile, ResolveDir, Loaded
  <2>3. listing = NoListing /\ NoListing' = NoListing  BY <1>2, <2>2 DEF Cut, NoListing
  <2>4. Cut'  BY <2>2, <2>3 DEF Cut
  <2> QED BY <1>1, <2>1, <2>4 DEF ListInv
<1>4. CASE Kernel
  <2>1. UNCHANGED <<conf, phase, loadVars>>
    BY <1>4 DEF Kernel, Lookup, GetAttr, Open, ReadLink, OpenDir, Read, ReadDir
  <2>2. Ordered' /\ Through'  BY <1>2, <2>1, TablesStay
  <2>3. Cut'
    <3>1. ASSUME NEW h \in known, OpenDir(h) PROVE Cut'  BY <1>2, <3>1, CutOpens
    <3>2. ASSUME NEW size \in PieceSizes, ReadDir(size) PROVE Cut'  BY <1>2, <3>2, CutGrows
    <3>3. ASSUME NEW h \in known,
                 \/ \E name \in Names : Lookup(h, name)
                 \/ GetAttr(h) \/ Open(h) \/ ReadLink(h)
                 \/ \E off \in Offsets, size \in Spans : Read(h, off, size)
          PROVE  Cut'
      <4>1. /\ UNCHANGED listing /\ known \subseteq known'
            /\ phase = "serve"
        BY <3>3 DEF Lookup, GetAttr, Open, ReadLink, Read, Respond
      <4> QED BY <1>2, <2>1, <4>1, CutStays
    <3> QED BY <1>4, <3>1, <3>2, <3>3 DEF Kernel
  <2> QED BY <1>1, <2>2, <2>3 DEF ListInv
<1>5. CASE UNCHANGED dirVars
  <2>1. UNCHANGED <<conf, phase, loadVars, listing, known>>  BY <1>5 DEF dirVars
  <2>2. Ordered' /\ Through'  BY <1>2, <2>1, TablesStay
  <2>3. Cut'
    <3>1. phase = "serve" \/ listing = NoListing  BY <1>2 DEF Cut
    <3> QED BY <1>2, <2>1, <3>1, CutStays
  <2> QED BY <1>1, <2>2, <2>3 DEF ListInv
<1> QED BY <1>3, <1>4, <1>5 DEF DirNext

(***************************************************************************)
(* Each listing that the kernel puts together from pieces has the files of *)
(* its directory, each once and in their order, after "." and "..", with   *)
(* the inodes that a lookup gives, and when it is over all of them: the    *)
(* tables have them, the buffer is made alike each time, and a piece ends  *)
(* where an entry does, which is where the next one begins.                *)
(***************************************************************************)
THEOREM ListingsAreWhole == DirSpec => []ListingIsWhole
<1>1. ListInv => ListingIsWhole
  <2> SUFFICES ASSUME ListInv, listing.at # Nil PROVE ListingIsWhole
    BY DEF ListingIsWhole
  <2>1. Tables /\ Known /\ Ordered /\ Through /\ Cut  BY DEF ListInv, DirInv
  <2>2. listing # NoListing  BY DEF NoListing
  <2>3. phase = "serve"  BY <2>1, <2>2 DEF Cut
  <2>4. PICK p : p = listing.at.path  OBVIOUS
  <2>5. /\ IsPrefix(listing.got, Whole(p))
        /\ listing.over => listing.got = IF Files(p) = <<>> THEN <<>> ELSE Whole(p)
    <3>1. PICK h \in known, over \in BOOLEAN :
             \/ /\ h.ino \notin DOMAIN readdir
                /\ listing = [at |-> h, off |-> 0, got |-> <<>>, over |-> over]
             \/ /\ h.ino \in DOMAIN readdir
                /\ \E m \in 0..Len(Buffer(h.ino)) :
                     listing = Upto(h, m, over) /\ (over => m = Len(Buffer(h.ino)))
      BY <2>1, <2>2 DEF Cut
    <3>2. listing.at = h /\ p = h.path /\ listing.over = over  BY <2>4, <3>1 DEF Upto
    <3>3. /\ p \in DOMAIN fninode /\ h.ino = fninode[p] /\ p \in Seq(Names)
      BY <2>1, <3>2, PathTypes DEF Known, Tables
    <3>4. PICK T : Whole(p) \in Seq(T) /\ Len(Whole(p)) \in Nat
      BY <2>1, <2>3, <3>3, WholeTypes
    <3>5. PICK w : w = Whole(p)  OBVIOUS
    <3>6. \A m \in 0..Len(w) : IsPrefix(SubSeq(w, 1, m), w)
      <4> SUFFICES ASSUME NEW m \in 0..Len(w) PROVE IsPrefix(SubSeq(w, 1, m), w)
        OBVIOUS
      <4>1. PICK s : s = SubSeq(w, 1, m)  OBVIOUS
      <4>2. \A i \in 1..m : w[i] \in T  BY <3>4, <3>5, ElementOfSeq
      <4>3. Len(s) = m /\ s \in Seq(T)  BY <3>4, <3>5, <4>1, <4>2, SubSeqProperties
      <4>4. s = SubSeq(w, 1, Len(s)) /\ Len(s) <= Len(w)  BY <3>4, <3>5, <4>1, <4>3
      <4> QED BY <4>1, <4>4 DEF IsPrefix
    <3>7. CASE h.ino \notin DOMAIN readdir
      <4>1. listing.got = <<>>  BY <3>1, <3>7
      <4>2. Files(p) = <<>>  BY <2>1, <2>3, <3>3, <3>7, NothingIn
      <4>3. SubSeq(w, 1, 0) = <<>>  BY <3>4, <3>5, SubSeqEmpty
      <4>4. 0 \in 0..Len(w)  BY <3>4, <3>5
      <4>5. IsPrefix(<<>>, w)  BY <3>6, <4>3, <4>4
      <4> QED BY <3>5, <4>1, <4>2, <4>5
    <3>8. CASE h.ino \in DOMAIN readdir
      <4>1. Buffer(h.ino) = w /\ Files(p) # <<>>
        BY <2>1, <2>3, <3>2, <3>5, <3>8, BufferTypes
      <4>2. PICK m \in 0..Len(w) : listing.got = SubSeq(w, 1, m) /\ (over => m = Len(w))
        BY <3>1, <3>8, <4>1 DEF Upto
      <4>3. SubSeq(w, 1, Len(w)) = w  BY <3>4, <3>5, SubSeqFull
      <4> QED BY <3>2, <3>5, <3>6, <4>1, <4>2, <4>3
    <3> QED BY <3>7, <3>8
  <2> QED BY <2>4, <2>5 DEF ListingIsWhole, Whole, Files, Below
<1>2. DirSpec => []ListInv  BY InitListInv, ListInductive, PTL DEF DirSpec
<1> QED BY <1>1, <1>2, PTL
=============================================================================
