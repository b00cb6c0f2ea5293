------------------------------- MODULE Request -------------------------------
(***************************************************************************)
(* The life of a read request: request.c, with the source list it walks    *)
(* (sourcelist.c, source.c) and the read and write operations of the       *)
(* sources (cache.c, http.c, file2.c through syncsource.c).                *)
(*                                                                         *)
(* A request asks each source in turn for what is still missing.  A cache  *)
(* answers within the call; http and file later, from the event loop, the  *)
(* former with one answer for each gap.  When nothing is missing the reply *)
(* is sent and each chunk that was found is offered for writing to every   *)
(* source before the one it came from.                                     *)
(*                                                                         *)
(* Everything here runs in the main thread.  One action is one call of     *)
(* rq_run_next or rq_run_next_write, which call themselves until a source  *)
(* has to be waited for: "turn" is the request they are called for, and    *)
(* nothing else happens in the main thread before it is given up.          *)
(*                                                                         *)
(* All requests are for one file, of FileLen units; a range is a set of    *)
(* units.  A cached block or a chunk is "good" when it is that part of the *)
(* file, with zeros after its end, and "junk" otherwise.                   *)
(***************************************************************************)
EXTENDS Integers, Sequences, FiniteSets, FiniteSetsExt, Refs

CONSTANTS
  Requests,   \* the requests that may come
  Want,       \* the units each of them asks for, an interval
  Top,        \* the last unit any block reaches
  FileLen,    \* the units the file really has
  NSources,   \* the length of the source list
  Kind,       \* what each source is
  BlockSize,  \* the units of its block (sources that read)
  Target,     \* the cache a cache reflects to, or 0
  Schemes,    \* the kinds of source the file's uri may be for
  HasFails,   \* the sources with a fail_timeout
  Faulty,     \* the sources that may fail
  None        \* no request

Units == 0..Top
Sources == 1..NSources
Kinds == {"cache", "meta", "http", "file"}
Quality == {"good", "junk"}

ASSUME RequestAssumption ==
  /\ FileLen \in Nat /\ Top \in Nat /\ NSources \in Nat
  /\ Want \in [Requests -> SUBSET Units]
  /\ Kind \in [Sources -> Kinds]
  /\ BlockSize \in [Sources -> Nat \ {0}]
  /\ Target \in [Sources -> Sources \cup {0}]
  /\ Schemes \subseteq {"http", "file"}
  /\ HasFails \subseteq Sources /\ Faulty \subseteq Sources
  /\ None \notin Requests

\* Bounds of the model: the blocks end at Top, reflection goes one step, and to
\* a cache of the same block size.
ASSUME LayoutAssumption ==
  \A s \in Sources :
    /\ (Top + 1) % BlockSize[s] = 0
    /\ Target[s] # 0 => /\ Kind[s] = "cache" /\ Kind[Target[s]] = "cache"
                        /\ Target[s] # s /\ Target[Target[s]] = 0
                        /\ BlockSize[Target[s]] = BlockSize[s]

Targets == {Target[s] : s \in Sources} \ {0}
Caches == {s \in Sources : Kind[s] = "cache"}

\* src->read and src->write are set; the target of a reflection loses its write.
CanRead(s)  == Kind[s] # "meta"
CanWrite(s) == Kind[s] = "cache" /\ s \notin Targets

-----------------------------------------------------------------------------
(* Ranges of units: see util/ranges.c *)

\* ranges_blockify_expand and ranges_blockify_reduce
Block(n, b) == (b * n)..(b * n + n - 1)
BlocksOf(S, n) == {u \div n : u \in S}
Expand(S, n) == UNION {Block(n, b) : b \in BlocksOf(S, n)}
BlocksWithin(S, n) == {b \in BlocksOf(S, n) : Block(n, b) \subseteq S}

\* The intervals of a range, as the iteration of ranges_next gives them
Gaps(S) == {g \in S \X S : /\ g[1] <= g[2] /\ g[1]..g[2] \subseteq S
                           /\ g[1] - 1 \notin S /\ g[2] + 1 \notin S}

\* struct chunk: the units from..(from + len - 1), of some quality
Chunks == [from : Units, len : 0..(Top + 1), eof : BOOLEAN,
           origin : Sources, quality : Quality]

Span(c) == c.from..(c.from + c.len - 1)

\* Fetched that never notices the end of the file
FetchedOnAndOn(s, gap) ==
  LET x   == gap[1]
      y   == gap[2] + 1
      end == IF y <= FileLen THEN y ELSE IF x <= FileLen THEN FileLen ELSE x
  IN  [from |-> x, len |-> end - x, origin |-> s, quality |-> "good", eof |-> FALSE]

\* What a server or a file system returns for a gap: what there is of it, and
\* whether that was the end.  A server says so when the last byte is among it,
\* a file when there was less than asked for.
Fetched(s, gap) ==
  LET x   == gap[1]
      y   == gap[2] + 1
      end == IF y <= FileLen THEN y ELSE IF x <= FileLen THEN FileLen ELSE x
  IN  [from |-> x, len |-> end - x, origin |-> s, quality |-> "good",
       eof |-> IF Kind[s] = "http" THEN y >= FileLen ELSE y > FileLen]

-----------------------------------------------------------------------------
VARIABLES
  scheme,     \* the kind of source the file's uri is for, by its prefix
  stage,      \* each request: not here yet, running, or over
  src,        \* rq->src, 0 for none
  desired,    \* rq->desired
  out,        \* rq->out
  chunks,     \* rq->chunks
  failed,     \* rq->failed_errno is set
  replies,    \* what rq->done has been called with, and how often
  rqRef,      \* the strong count of each request
  jobs,       \* the reads that http and file have still to answer
  subFailed,  \* wr->failed_errno of the http read of each request
  turn,       \* the request being run in the main thread, and what it owes
  cache,      \* the blocks each cache holds
  failing,    \* the sources with a recorded failure for this path
  srcRef,     \* the strong count of each source
  slRef,      \* sl->r
  asked,      \* whether the interfaces have quit
  faulted     \* whether a source has failed so far

rqVars  == <<stage, src, desired, out, chunks, failed, replies>>
refVars == <<rqRef, srcRef, slRef>>
vars == <<scheme, rqVars, refVars, jobs, subFailed, turn, cache, failing, asked, faulted>>

NoTurn == [rq |-> None, step |-> "idle", owes |-> "nothing", from |-> 0]

\* A source is linked in the list until its last strong reference goes.
Linked(s) == srcRef[s] > 0

\* NextSource that may stay where it is
NextOrSame(s) == LET later == {t \in Sources : t >= s /\ Linked(t)}
                 IN  IF later = {} THEN 0 ELSE Min(later)

\* sl_get_root, for s = 0, and src_get_next
NextSource(s) == LET later == {t \in Sources : t > s /\ Linked(t)}
                 IN  IF later = {} THEN 0 ELSE Min(later)

Init ==
  /\ scheme \in Schemes
  /\ stage = [r \in Requests |-> "new"]
  /\ src = [r \in Requests |-> 0]
  /\ desired = [r \in Requests |-> {}]
  /\ out = [r \in Requests |-> [u \in Units |-> "unset"]]
  /\ chunks = [r \in Requests |-> {}]
  /\ failed = [r \in Requests |-> FALSE]
  /\ replies = [r \in Requests |-> <<>>]
  /\ rqRef = [r \in Requests |-> 0]
  /\ jobs = {}
  /\ subFailed = [r \in Requests |-> FALSE]
  /\ turn = NoTurn
  /\ cache = [s \in Sources |-> {}]
  /\ failing = {}
  /\ srcRef = [s \in Sources |-> 1 + Cardinality({c \in Sources : Target[c] = s})]
  /\ slRef = NewRef
  /\ asked = FALSE
  /\ faulted = FALSE

-----------------------------------------------------------------------------
(* References *)

\* src_acquire and src_release on a pointer that may be null
Take(ref, s) == IF s = 0 THEN ref ELSE [ref EXCEPT ![s] = @ + 1]
Drop(ref, s) == IF s = 0 THEN ref ELSE [ref EXCEPT ![s] = @ - 1]

\* A cache whose last reference goes is closed, and lets go of its target.
Settle(ref) ==
  [s \in Sources |-> ref[s] - Cardinality({c \in Sources : /\ Target[c] = s
                                                          /\ Linked(c) /\ ref[c] = 0})]

\* sl_release: the last reference releases every source in the list.
ReleaseSl(ref) ==
  /\ slRef' = Release(slRef)
  /\ srcRef' = Settle(IF ReleaseFires(slRef)
                      THEN [s \in Sources |-> IF ref[s] > 0 THEN ref[s] - 1 ELSE 0]
                      ELSE ref)

\* ReleaseRq that releases the list each time
ReleaseRqAndSl(r, ref) ==
  /\ rqRef' = [rqRef EXCEPT ![r] = @ - 1]
  /\ ReleaseSl(ref)

\* rq_release: the last reference releases the source list.
ReleaseRq(r, ref) ==
  /\ rqRef' = [rqRef EXCEPT ![r] = @ - 1]
  /\ IF rqRef[r] = 1 THEN ReleaseSl(ref)
     ELSE srcRef' = Settle(ref) /\ UNCHANGED slRef

\* Yield that keeps on running the request
YieldNot == UNCHANGED turn

\* The request is done with, or waits: what called it has its own references
\* to give up on the way out.
Yield == turn' = IF turn.owes = "nothing" THEN NoTurn
                 ELSE [turn EXCEPT !.step = "unwind"]

\* Finish that forgets the reference of rq->src
FinishKeepsSource(r) ==
  /\ stage' = [stage EXCEPT ![r] = "over"]
  /\ src' = [src EXCEPT ![r] = 0]
  /\ ReleaseRq(r, srcRef)
  /\ Yield

\* The end of a request: rq->src goes and the reference rq_run took.  Whatever
\* chunks it has stay as they are.
Finish(r) ==
  /\ stage' = [stage EXCEPT ![r] = "over"]
  /\ src' = [src EXCEPT ![r] = 0]
  /\ ReleaseRq(r, Drop(srcRef, src[r]))
  /\ Yield

Reply(r, what) == replies' = [replies EXCEPT ![r] = Append(@, what)]

-----------------------------------------------------------------------------
(* Requests come and the interfaces quit *)

Idle == turn = NoTurn

\* sl_read: rq_create and rq_run.  A request of no length is answered at once.
Arrive(r) ==
  /\ Idle
  /\ stage[r] = "new"
  /\ \/ /\ Want[r] # {}
        /\ stage' = [stage EXCEPT ![r] = "running"]
        /\ desired' = [desired EXCEPT ![r] = Want[r]]
        /\ rqRef' = [rqRef EXCEPT ![r] = 2]
        /\ slRef' = Acquire(slRef)
        /\ turn' = [rq |-> r, step |-> "next", owes |-> "creator", from |-> 0]
        /\ UNCHANGED replies
     \/ /\ Want[r] = {}
        /\ stage' = [stage EXCEPT ![r] = "over"]
        /\ Reply(r, "ok")
        /\ UNCHANGED <<desired, rqRef, slRef, turn>>
  /\ UNCHANGED <<src, out, chunks, failed, srcRef, jobs, subFailed,
                 cache, failing, asked, faulted>>

\* The handler that ran the request returns: sl_read gives up the reference of
\* rq_create, syncsource's result those of the job.
Unwind ==
  /\ turn.step = "unwind"
  /\ ReleaseRq(turn.rq, Drop(srcRef, turn.from))
  /\ turn' = NoTurn
  /\ UNCHANGED <<rqVars, jobs, subFailed, cache, failing, asked, faulted>>

\* interfaces_quit
Quit ==
  /\ Idle
  /\ ~asked
  /\ asked' = TRUE
  /\ ReleaseSl(srcRef)
  /\ UNCHANGED <<rqVars, rqRef, jobs, subFailed, turn, cache, failing, faulted>>

-----------------------------------------------------------------------------
(* Reading: rq_run_next *)

Running(r) == turn.rq = r /\ turn.step = "next"

\* failures_check through src_path_ok: the source has not failed for this path
\* within its fail_timeout.
PathOk(t) == t \notin failing

\* failures_fail through src_set_failed, nothing for a source without failures
SetFailed(s) == failing' = failing \cup ({s} \cap HasFails)

\* Found that takes any chunk for the last
FoundTruncates(r, found, wide) ==
  /\ out' = [out EXCEPT ![r] = [u \in Units |->
               IF u \in Want[r] /\ \E c \in found : u \in Span(c)
               THEN (CHOOSE c \in found : u \in Span(c)).quality ELSE @[u]]]
  /\ desired' = [desired EXCEPT ![r] = {u \in wide : \A c \in found : u < c.from}]
  /\ chunks' = [chunks EXCEPT ![r] = @ \cup found]

\* rq_found_data, for the chunks a source has found and a desire it may have
\* widened; each chunk takes a reference to its source.
Found(r, found, wide) ==
  /\ out' = [out EXCEPT ![r] = [u \in Units |->
               IF u \in Want[r] /\ \E c \in found : u \in Span(c)
               THEN (CHOOSE c \in found : u \in Span(c)).quality ELSE @[u]]]
  /\ desired' = [desired EXCEPT ![r] = {u \in wide :
                   \A c \in found : /\ u \notin Span(c)
                                    /\ c.eof => u < c.from + c.len}]
  /\ chunks' = [chunks EXCEPT ![r] = @ \cup found]

\* The source that reported an error is noted, the reader told.
Fail(r) ==
  /\ Running(r)
  /\ failed[r]
  /\ SetFailed(src[r])
  /\ Reply(r, "error")
  /\ Finish(r)
  /\ UNCHANGED <<desired, out, chunks, failed, jobs, subFailed, cache, asked, faulted>>

\* Nothing is missing: the reply is sent and the writes begin.
Fulfil(r) ==
  /\ Running(r)
  /\ ~failed[r] /\ desired[r] = {}
  /\ Reply(r, "ok")
  /\ src' = [src EXCEPT ![r] = 0]
  /\ srcRef' = Settle(Drop(srcRef, src[r]))
  /\ turn' = [turn EXCEPT !.step = "write"]
  /\ UNCHANGED <<stage, desired, out, chunks, failed, rqRef, slRef,
                 jobs, subFailed, cache, failing, asked, faulted>>

\* rq_reset_sl and rq_advance_sl: the next source is taken before the last goes.
MoveOn(r) == LET t == NextSource(src[r])
             IN  [to |-> t, ref |-> Drop(Take(srcRef, t), src[r])]

Wanting(r) == Running(r) /\ ~failed[r] /\ desired[r] # {}

\* Exhaust that leaves the reader without a reply
ExhaustSilently(r) ==
  /\ Wanting(r)
  /\ MoveOn(r).to = 0
  /\ Finish(r)
  /\ UNCHANGED <<desired, out, chunks, failed, replies, jobs, subFailed,
                 cache, failing, asked, faulted>>

\* No source is left.
Exhaust(r) ==
  /\ Wanting(r)
  /\ MoveOn(r).to = 0
  /\ Reply(r, "error")
  /\ Finish(r)
  /\ UNCHANGED <<desired, out, chunks, failed, jobs, subFailed,
                 cache, failing, asked, faulted>>

\* A source is asked that can read, and has not failed for this path lately.
Asks(r, t) == Wanting(r) /\ MoveOn(r).to = t /\ CanRead(t) /\ PathOk(t)

\* The next source is passed over, by rq_run_next or by http_read itself.
Skip(r, t) ==
  /\ Wanting(r)
  /\ MoveOn(r).to = t
  /\ \/ ~CanRead(t)
     \/ ~PathOk(t)
     \/ Kind[t] = "http" /\ scheme # "http"
  /\ src' = [src EXCEPT ![r] = t]
  /\ srcRef' = Settle(MoveOn(r).ref)
  /\ UNCHANGED <<stage, desired, out, chunks, failed, replies, rqRef, slRef,
                 jobs, subFailed, turn, cache, failing, asked, faulted>>

\* The copies a cache may find for the blocks of a range, one for each block
\* it holds.
Hits(t, wide) ==
  LET there == {h \in cache[t] : h.block \in BlocksOf(wide, BlockSize[t])}
  IN  {H \in SUBSET there : \A h \in there : \E g \in H :
          g.block = h.block /\ \A f \in H : f.block = g.block => f = g}

CacheChunk(t, h) == [from |-> BlockSize[t] * h.block, len |-> BlockSize[t],
                     eof |-> FALSE, origin |-> t, quality |-> h.quality]

\* ds_read of cache.c: the desire is widened to whole blocks, for good.
ReadCache(r, t) ==
  /\ Asks(r, t)
  /\ Kind[t] = "cache"
  /\ src' = [src EXCEPT ![r] = t]
  /\ \E H \in Hits(t, Expand(desired[r], BlockSize[t])) :
       /\ Found(r, {CacheChunk(t, h) : h \in H}, Expand(desired[r], BlockSize[t]))
       /\ srcRef' = [Settle(MoveOn(r).ref) EXCEPT ![t] = @ + Cardinality(H)]
  /\ UNCHANGED <<stage, failed, replies, rqRef, slRef,
                 jobs, subFailed, turn, cache, failing, asked, faulted>>

\* http_read: one request to the server for each gap.
ReadHttp(r, t) ==
  LET gaps == Gaps(Expand(desired[r], BlockSize[t]))
  IN  /\ Asks(r, t)
      /\ Kind[t] = "http" /\ scheme = "http"
      /\ src' = [src EXCEPT ![r] = t]
      /\ jobs' = jobs \cup {[rq |-> r, src |-> t, gap |-> g] : g \in gaps}
      /\ subFailed' = [subFailed EXCEPT ![r] = FALSE]
      /\ rqRef' = [rqRef EXCEPT ![r] = @ + Cardinality(gaps)]
      /\ srcRef' = Take(Settle(MoveOn(r).ref), t)
      /\ Yield
      /\ UNCHANGED <<stage, desired, out, chunks, failed, replies, slRef,
                     cache, failing, asked, faulted>>

\* src_read of syncsource.c: one job for the whole of it, whatever the uri.
ReadFile(r, t) ==
  /\ Asks(r, t)
  /\ Kind[t] = "file"
  /\ src' = [src EXCEPT ![r] = t]
  /\ jobs' = jobs \cup {[rq |-> r, src |-> t, gap |-> <<>>]}
  /\ rqRef' = [rqRef EXCEPT ![r] = @ + 1]
  /\ srcRef' = Take(Settle(MoveOn(r).ref), t)
  /\ Yield
  /\ UNCHANGED <<stage, desired, out, chunks, failed, replies, slRef,
                 subFailed, cache, failing, asked, faulted>>

-----------------------------------------------------------------------------
(* Answers *)

\* read_done of http.c.  The answer to the last gap runs the request on; a gap
\* that begins after the end of the file is one the server refuses.
AnswerHttp(j) ==
  LET last == {k \in jobs : k.rq = j.rq} = {j}
      r    == j.rq
  IN  /\ Idle
      /\ j \in jobs /\ Kind[j.src] = "http"
      /\ jobs' = jobs \ {j}
      /\ rqRef' = [rqRef EXCEPT ![r] = @ - 1]
      /\ \E ok \in BOOLEAN :
           /\ ok => j.gap[1] < FileLen
           /\ ~ok => j.src \in Faulty \/ j.gap[1] >= FileLen
           /\ Found(r, IF ok THEN {Fetched(j.src, j.gap)} ELSE {}, desired[r])
           /\ subFailed' = [subFailed EXCEPT ![r] = @ \/ ~ok]
           /\ srcRef' = [srcRef EXCEPT ![j.src] = @ + (IF ok THEN 1 ELSE 0)
                                                   - (IF last THEN 1 ELSE 0)]
           /\ failed' = [failed EXCEPT ![r] = last /\ subFailed'[r]]
           /\ faulted' = (faulted \/ (~ok /\ j.gap[1] < FileLen))
      /\ turn' = IF last THEN [rq |-> r, step |-> "next", owes |-> "nothing", from |-> 0]
                 ELSE NoTurn
      /\ UNCHANGED <<stage, src, replies, slRef, cache, failing, asked>>

\* file_read and A_READ: all gaps are read, or an error ends it after some.
AnswerFile(j) ==
  LET r    == j.rq
      gaps == IF scheme = "file" THEN Gaps(Expand(desired[r], BlockSize[j.src])) ELSE {}
  IN  /\ Idle
      /\ j \in jobs /\ Kind[j.src] = "file"
      /\ jobs' = jobs \ {j}
      /\ \E G \in SUBSET gaps :
           /\ G # gaps => j.src \in Faulty
           /\ failed' = [failed EXCEPT ![r] = G # gaps]
           /\ faulted' = (faulted \/ G # gaps)
           /\ Found(r, {Fetched(j.src, g) : g \in G}, desired[r])
           /\ srcRef' = [srcRef EXCEPT ![j.src] = @ + Cardinality(G)]
      /\ turn' = [rq |-> r, step |-> "next", owes |-> "job", from |-> j.src]
      /\ UNCHANGED <<stage, src, replies, rqRef, slRef, subFailed,
                     cache, failing, asked>>

-----------------------------------------------------------------------------
(* Writing: rq_run_next_write *)

Writing(r) == turn.rq = r /\ turn.step = "write"

\* The chunk at the head of rq->chunks; which one is first makes no difference.
Current(r) == CHOOSE c \in chunks[r] : TRUE

\* Stored that takes every block the chunk touches
StoredTouched(t, c) ==
  {[block |-> b, quality |-> IF Block(BlockSize[t], b) \subseteq Span(c)
                             THEN c.quality ELSE "junk"] : b \in BlocksOf(Span(c), BlockSize[t])}

\* ds_write of cache.c: the blocks that lie within the chunk and, at the end of
\* the file, the last block, copied from where it begins relative to the chunk.
Stored(t, c) ==
  LET n   == BlockSize[t]
      end == c.from + c.len
      lastBlock == end \div n
  IN  {[block |-> b, quality |-> c.quality] : b \in BlocksWithin(Span(c), n)}
        \cup (IF c.eof /\ end % n # 0
              THEN {[block |-> lastBlock,
                     quality |-> IF n * lastBlock >= c.from THEN c.quality ELSE "junk"]}
              ELSE {})

\* WriteNext that does not stop at the chunk's origin
WritePast(r, t) ==
  /\ Writing(r)
  /\ chunks[r] # {}
  /\ MoveOn(r).to = t
  /\ src' = [src EXCEPT ![r] = t]
  /\ srcRef' = Settle(MoveOn(r).ref)
  /\ cache' = IF CanWrite(t) THEN [cache EXCEPT ![t] = @ \cup Stored(t, Current(r))]
              ELSE cache
  /\ UNCHANGED <<stage, desired, out, chunks, failed, replies, rqRef, slRef,
                 jobs, subFailed, turn, failing, asked, faulted>>

\* A source before the chunk's origin is passed, and written to if it can be.
WriteNext(r, t) ==
  /\ Writing(r)
  /\ chunks[r] # {}
  /\ MoveOn(r).to = t
  /\ t # Current(r).origin
  /\ src' = [src EXCEPT ![r] = t]
  /\ srcRef' = Settle(MoveOn(r).ref)
  /\ cache' = IF CanWrite(t) THEN [cache EXCEPT ![t] = @ \cup Stored(t, Current(r))]
              ELSE cache
  /\ UNCHANGED <<stage, desired, out, chunks, failed, replies, rqRef, slRef,
                 jobs, subFailed, turn, failing, asked, faulted>>

\* The chunk's origin is reached, or the end of the list: the chunk is freed.
FreeChunk(r) ==
  /\ Writing(r)
  /\ chunks[r] # {}
  /\ MoveOn(r).to \in {0, Current(r).origin}
  /\ src' = [src EXCEPT ![r] = 0]
  /\ chunks' = [chunks EXCEPT ![r] = @ \ {Current(r)}]
  /\ srcRef' = Settle(Drop(Drop(srcRef, src[r]), Current(r).origin))
  /\ UNCHANGED <<stage, desired, out, failed, replies, rqRef, slRef,
                 jobs, subFailed, turn, cache, failing, asked, faulted>>

\* No chunk is left to write: the end of a request that was fulfilled.
WritesDone(r) ==
  /\ Writing(r)
  /\ chunks[r] = {}
  /\ Finish(r)
  /\ UNCHANGED <<desired, out, chunks, failed, replies, jobs, subFailed,
                 cache, failing, asked, faulted>>

-----------------------------------------------------------------------------
(* What else happens to caches and failures *)

\* A block makes room for another, of this file or of any other.
Evict(s) ==
  /\ Idle
  /\ \E h \in cache[s] : cache' = [cache EXCEPT ![s] = @ \ {h}]
  /\ UNCHANGED <<rqVars, refVars, jobs, subFailed, turn, failing, asked, faulted>>

\* reflect_go: every block moves to the target.
Reflect(s) ==
  /\ Idle
  /\ Target[s] # 0 /\ Linked(s)
  /\ cache[s] # {}
  /\ cache' = [cache EXCEPT ![Target[s]] = @ \cup cache[s], ![s] = {}]
  /\ UNCHANGED <<rqVars, refVars, jobs, subFailed, turn, failing, asked, faulted>>

\* The timeout of a failure passes.
Forgive(s) ==
  /\ Idle
  /\ s \in failing
  /\ failing' = failing \ {s}
  /\ UNCHANGED <<rqVars, refVars, jobs, subFailed, turn, cache, asked, faulted>>

-----------------------------------------------------------------------------
RunNext(r) == \/ Fail(r) \/ Fulfil(r) \/ Exhaust(r)
              \/ \E t \in Sources : \/ Skip(r, t) \/ ReadCache(r, t)
                                    \/ ReadHttp(r, t) \/ ReadFile(r, t)

RunNextWrite(r) == \/ \E t \in Sources : WriteNext(r, t)
                   \/ FreeChunk(r) \/ WritesDone(r)

Main == (\E r \in Requests : RunNext(r) \/ RunNextWrite(r)) \/ Unwind

Answer(r) == \E j \in jobs : j.rq = r /\ (AnswerHttp(j) \/ AnswerFile(j))

Step == \/ \E r \in Requests : Arrive(r)
        \/ Main
        \/ \E r \in Requests : Answer(r)
        \/ Quit
        \/ \E s \in Sources : Evict(s) \/ Reflect(s) \/ Forgive(s)

Next == Step /\ UNCHANGED scheme

Spec == Init /\ [][Next]_vars

\* The main thread does not stop within a handler, and servers, disks and the
\* retries of the http client come to an end, with an answer or an error.
Fairness == /\ WF_vars(Main /\ UNCHANGED scheme)
            /\ \A r \in Requests : WF_vars(Answer(r) /\ UNCHANGED scheme)

FairSpec == Spec /\ Fairness

-----------------------------------------------------------------------------
JobType == [rq : Requests, src : Sources, gap : (Units \X Units) \cup {<<>>}]

Turns == [rq : Requests \cup {None}, step : {"idle", "next", "write", "unwind"},
          owes : {"nothing", "creator", "job"}, from : Sources \cup {0}]

TypeOK ==
  /\ scheme \in Schemes
  /\ stage \in [Requests -> {"new", "running", "over"}]
  /\ src \in [Requests -> Sources \cup {0}]
  /\ desired \in [Requests -> SUBSET Units]
  /\ out \in [Requests -> [Units -> {"unset"} \cup Quality]]
  /\ chunks \in [Requests -> SUBSET Chunks]
  /\ failed \in [Requests -> BOOLEAN]
  /\ replies \in [Requests -> Seq({"ok", "error"})]
  /\ rqRef \in [Requests -> Nat]
  /\ jobs \subseteq JobType
  /\ subFailed \in [Requests -> BOOLEAN]
  /\ turn \in Turns
  /\ cache \in [Sources -> SUBSET [block : Units, quality : Quality]]
  /\ failing \subseteq Sources
  /\ srcRef \in [Sources -> Nat]
  /\ slRef \in RefType
  /\ asked \in BOOLEAN
  /\ faulted \in BOOLEAN

(***************************************************************************)
(* Each read is answered once: the reply callback frees the fuse request,  *)
(* so that a second call of rq->done would use freed memory, and a request *)
(* that is over without one would leave a reader blocked.                  *)
(***************************************************************************)
AnsweredOnce ==
  \A r \in Requests :
    /\ Len(replies[r]) <= 1
    /\ stage[r] = "new" => replies[r] = <<>>
    /\ stage[r] = "over" => replies[r] # <<>>

(***************************************************************************)
(* What is neither copied to the reply nor known to be after the end of    *)
(* the file is still desired, however the sources have widened, narrowed   *)
(* and split the range on the way; so that a reply that reports success    *)
(* carries every unit asked for that the file has.  None of them is        *)
(* corrupt, wherever each came from.                                       *)
(***************************************************************************)
MissingIsDesired ==
  \A r \in Requests :
    stage[r] = "running" =>
      \A u \in Want[r] : u < FileLen /\ out[r][u] = "unset" => u \in desired[r]

RepliesComplete ==
  /\ MissingIsDesired
  /\ \A r \in Requests :
       replies[r] = <<"ok">> =>
         \A u \in Want[r] : u < FileLen => out[r][u] = "good"

(***************************************************************************)
(* A cached block is that block of the file.  At the end of the file       *)
(* ds_write copies a block that is not whole out of a larger chunk, from a *)
(* place it computes; "XXX prove safe" says the code.                      *)
(***************************************************************************)
CachesFaithful ==
  \A s \in Sources : \A h \in cache[s] : h.quality = "good"

\* The jobs of a request at a source
JobsOf(r, s) == {j \in jobs : j.rq = r /\ j.src = s}

(***************************************************************************)
(* References are accounted for.  A source has those of the list and of    *)
(* the caches that reflect to it, of the requests that are there, their    *)
(* chunks, and the reads under way (http keeps one for all the gaps of a   *)
(* read), so that no source is closed under a request, a chunk or an       *)
(* answer that names it.  A request has those of the handler that runs it  *)
(* and of every answer yet to come, and is gone as soon as there is        *)
(* neither; its own to the list goes then, and its chunks have gone before *)
(* unless it ended in error.                                               *)
(***************************************************************************)
SourceRefsBalance ==
  \A s \in Sources :
    srcRef[s] =
        (IF slRef.strong > 0 THEN 1 ELSE 0)
      + Cardinality({c \in Sources : Target[c] = s /\ Linked(c)})
      + Cardinality({r \in Requests : src[r] = s})
      + Cardinality({rc \in UNION {{r} \X chunks[r] : r \in Requests} : rc[2].origin = s})
      + Cardinality({r \in Requests : JobsOf(r, s) # {}})
      + (IF turn.owes = "job" /\ turn.from = s THEN 1 ELSE 0)

RequestRefsBalance ==
  \A r \in Requests :
    rqRef[r] = (IF stage[r] = "running" THEN 1 ELSE 0)
             + Cardinality({j \in jobs : j.rq = r})
               \* The handler's own: that of the job it answers is still held.
             + (IF turn.rq = r /\ turn.owes # "nothing" THEN 1 ELSE 0)

RefsBalance ==
  /\ SourceRefsBalance
  /\ RequestRefsBalance
  /\ ~asked => slRef.strong = 1 + Cardinality({r \in Requests : rqRef[r] > 0})
  /\ \A r \in Requests :
       stage[r] = "over" /\ chunks[r] # {} => replies[r] = <<"error">>

(***************************************************************************)
(* A request is in one hand at a time: while a source has an answer to     *)
(* give, it is the one the request is at, and the main thread leaves the   *)
(* request alone.  The worker of syncsource.c reads rq->desired without a  *)
(* lock, and an error is blamed on rq->src; both rest on this.             *)
(***************************************************************************)
OneHandAtATime ==
  \A j \in jobs :
    /\ stage[j.rq] = "running"
    /\ src[j.rq] = j.src
    /\ turn.rq = j.rq => turn.step = "unwind"
    /\ ~failed[j.rq]

\* A read has come that goes past the end of the file.
PastTheEnd == \E r \in Requests : stage[r] # "new" /\ ~(Want[r] \subseteq 0..(FileLen - 1))

(***************************************************************************)
(* As long as no source has failed, nobody has read past the end of the    *)
(* file and the interfaces have not quit, no read is answered with an      *)
(* error because of what the caches happen to hold and the sources were    *)
(* asked for.  A server refuses what is past the end, and fails by that.   *)
(***************************************************************************)
NoNeedlessError ==
  \A r \in Requests :
    replies[r] = <<"error">> => asked \/ faulted \/ PastTheEnd

(***************************************************************************)
(* README.hacking: a request is "passed around until complete when it is   *)
(* freed", and the project was run "under load to ensure no leaks".  So    *)
(* one that is over has no chunk left, nor their references to sources.    *)
(***************************************************************************)
NoLeak == \A r \in Requests : stage[r] = "over" => chunks[r] = {}

(***************************************************************************)
(* "Caches don't see their own reads as writes, and so are not polluted by *)
(* them" (README.hacking): what a write adds to a cache was found by a     *)
(* source further down the list.  Otherwise blocks only move to a target.  *)
(***************************************************************************)
WritesComeFromBelow ==
  [][\A s \in Sources :
       cache'[s] \ cache[s] # {} =>
         \/ turn.step = "write" /\ s < Current(turn.rq).origin /\ s \notin Targets
         \/ turn.step = "idle" /\ s \in Targets]_vars

(***************************************************************************)
(* Every read that comes is answered in the end.                           *)
(***************************************************************************)
EveryReadAnswered == \A r \in Requests : stage[r] = "running" ~> stage[r] = "over"

(***************************************************************************)
(* After the interfaces have quit each source is closed in the end, and    *)
(* stays closed, but for one that found a chunk which a request that is    *)
(* over has left behind, and the cache such a source reflects to: these    *)
(* stay open, and the event loop waits for them.                           *)
(***************************************************************************)
LeftBehind(s) ==
  \E r \in Requests : stage[r] = "over" /\ \E c \in chunks[r] : c.origin = s

Kept(s) == LeftBehind(s) \/ \E c \in Sources : Target[c] = s /\ LeftBehind(c)

SourcesClose == <>[](asked => \A s \in Sources : Linked(s) => Kept(s))
=============================================================================
