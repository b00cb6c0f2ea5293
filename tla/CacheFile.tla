------------------------------ MODULE CacheFile ------------------------------
(***************************************************************************)
(* Cache files: one file of slots, shared by several servers, and what     *)
(* each of them does to it.  A read marks the slot it has found with a     *)
(* hash of ones while it copies the block.  Writes do not go to the shared *)
(* file: each server spools them in a file of its own, and from time to    *)
(* time "reflects" these under a lock file, which a thread removes when    *)
(* what was written is on disk.                                            *)
(*                                                                         *)
(* A server may be killed between any two accesses to a file.  Within a    *)
(* server all but the fsync is the work of the main thread, in handlers    *)
(* that nothing interrupts; servers interleave at every access.            *)
(*                                                                         *)
(* A hash stands for its block.  Times are not counted: Hour is the moment *)
(* at which a lock that somebody has seen becomes ancient.                 *)
(***************************************************************************)
EXTENDS Naturals

CONSTANTS
  Servers,
  Blocks,
  Slots,        \* of the shared file
  Wanted,       \* the blocks that the requests of each server are about
  Places,       \* the slots of the shared file that a block may be in
  SpoolEntries, \* the slots of a spool file: 1 .. SpoolEntries
  Keep,         \* the servers with "keep" set for the shared file
  MaxStops,     \* bound: how often a server is killed or closed
  Zeros, Ones,  \* the hashes of an empty and of a locked slot
  None

\* A lock file: who made it, and the time it has as its text, which no other has.
\* The text is empty until it is written.
Texts == {"empty", "time"}

LockFile == [by : Servers, text : Texts]

ASSUME CacheFileAssumption ==
  /\ SpoolEntries \in Nat \ {0} /\ MaxStops \in Nat
  /\ Places \in [Blocks -> (SUBSET Slots) \ {{}}]
  /\ Wanted \in [Servers -> SUBSET Blocks]
  /\ Keep \subseteq Servers
  /\ Zeros # Ones /\ {Zeros, Ones, None} \cap Blocks = {}
  /\ None \notin Servers /\ None \notin Slots
  /\ None \notin Texts /\ None \notin LockFile

VARIABLES
  hash,     \* the hash in the header of each slot
  data,     \* the block in each slot
  lock,     \* the lock file
  pc,       \* what the main thread of each server is about to do
  slot,     \* the slot it is at
  block,    \* the block it reads or writes
  spool,    \* the blocks in its spool
  entry,    \* the entry of the spool it is at
  pending,  \* c->pending of the spool
  seen,     \* cf->seen: a time that has gone with its lock is as good as none
  ancient,  \* the servers for which cf->seen_when is more than an hour ago
  thread,   \* where the thread of fsync_async is
  unsynced, \* the servers with writes that are not on disk
  missed,   \* those whose fsync was called when cf->fd had been closed
  stops,    \* how often a server has been killed or closed
  met,      \* the slots in which two servers have been at the same time
  lost,     \* the slots that a server left locked when it was killed
  usurped   \* the servers that lost the lock they need to another one

fileVars  == <<hash, data>>
lockVars  == <<lock, seen, ancient, usurped>>
mainVars  == <<pc, slot, block>>
spoolVars == <<spool, entry, pending>>
syncVars  == <<thread, unsynced, missed>>
pastVars  == <<stops, met, lost>>
vars == <<fileVars, lockVars, mainVars, spoolVars, syncVars, pastVars>>

-----------------------------------------------------------------------------
NoSlots == [k \in Slots |-> Zeros]

EmptySpool == [i \in 1..SpoolEntries |-> Zeros]

\* A server is in a slot from reading its header up to writing its last hash.
Reading == {"mark", "copy"}
Writing == {"claim", "fill", "label"}

Inside(k) == {s \in Servers : pc[s] \in Reading \cup Writing /\ slot[s] = k}

\* The header of a slot was read, with a hash that lets the server in.
Enter(s, k, b, step) ==
  /\ pc' = [pc EXCEPT ![s] = step]
  /\ slot' = [slot EXCEPT ![s] = k]
  /\ block' = [block EXCEPT ![s] = b]
  /\ met' = IF Inside(k) = {} THEN met ELSE met \cup {k}

Go(s, step) == pc' = [pc EXCEPT ![s] = step] /\ UNCHANGED <<slot, block>>

\* The server is in no slot any more.
Leave(s, step) ==
  /\ pc' = [pc EXCEPT ![s] = step]
  /\ slot' = [slot EXCEPT ![s] = None]
  /\ block' = [block EXCEPT ![s] = None]

SetHash(k, h) == hash' = [hash EXCEPT ![k] = h]

Init == /\ hash = NoSlots
        /\ data = NoSlots
        /\ lock = None
        /\ pc = [s \in Servers |-> "idle"]
        /\ slot = [s \in Servers |-> None]
        /\ block = [s \in Servers |-> None]
        /\ spool = [s \in Servers |-> EmptySpool]
        /\ entry = [s \in Servers |-> 0]
        /\ pending = [s \in Servers |-> FALSE]
        /\ seen = [s \in Servers |-> None]
        /\ ancient = {}
        /\ thread = [s \in Servers |-> "none"]
        /\ unsynced = {}
        /\ missed = {}
        /\ stops = 0
        /\ met = {}
        /\ lost = {}
        /\ usurped = {}

-----------------------------------------------------------------------------
(* read_block: a slot with another hash is passed over, and nothing changes *)

\* cache_check_lock has read a header with the hash it looks for.
Find(s, b, k) ==
  /\ pc[s] = "idle"
  /\ k \in Places[b] /\ hash[k] = b
  /\ Enter(s, k, b, "mark")
  /\ UNCHANGED <<fileVars, lockVars, spoolVars, syncVars, stops, lost>>

\* The rest of cache_check_lock: set_header
Mark(s) ==
  /\ pc[s] = "mark"
  /\ SetHash(slot[s], Ones)
  /\ Go(s, "copy")
  /\ UNCHANGED <<data, lockVars, spoolVars, syncVars, pastVars>>

\* Restore that returns without unlocking
RestoreForgotten(s) ==
  /\ pc[s] = "copy"
  /\ Leave(s, "idle")
  /\ UNCHANGED <<fileVars, lockVars, spoolVars, syncVars, pastVars>>

\* read_data, rq_found_data and cache_unlock
Restore(s) ==
  /\ pc[s] = "copy"
  /\ SetHash(slot[s], block[s])
  /\ Leave(s, "idle")
  /\ UNCHANGED <<data, lockVars, spoolVars, syncVars, pastVars>>

-----------------------------------------------------------------------------
(* The spool: a file of the server's own, written by its main thread alone *)

\* ds_write and cache_queue_write, to any entry
Spool(s, b, i) ==
  /\ pc[s] = "idle"
  /\ spool' = [spool EXCEPT ![s][i] = b]
  /\ pending' = [pending EXCEPT ![s] = TRUE]
  /\ UNCHANGED <<fileVars, lockVars, mainVars, entry, syncVars, pastVars>>

-----------------------------------------------------------------------------
(* The lock file: lock of file.c, lock_path and unlock_path *)

\* Whoever made the lock still needs it: it reflects, or its fsync runs.
Reflecting(s) == pc[s] \in {"stamp", "scan"} \cup Writing

Needed(l) == l # None /\ (Reflecting(l.by) \/ thread[l.by] # "none")

\* lock_path that finds no lock; the text comes after the link.
MakeLock(s) ==
  /\ lock = None
  /\ lock' = [by |-> s, text |-> "empty"]
  /\ Go(s, "stamp")
  /\ UNCHANGED usurped

\* Whom s robs of a lock when it removes the one there is
Robbed(s) == {t \in Servers \ {s} : Needed(lock) /\ lock.by = t}

\* unlink, whosever the lock is
RemoveLock(s) ==
  /\ lock' = None
  /\ seen' = [t \in Servers |-> IF seen[t] = "time" THEN None ELSE seen[t]]
  /\ ancient' = {t \in ancient : seen[t] # "time"}

\* reflect_tick with something to reflect, and the lock is free.  A server whose
\* fsync runs has the lock itself, unless it was usurped: that case is left out.
TakeLock(s) ==
  /\ pc[s] = "idle" /\ pending[s]
  /\ thread[s] = "none"
  /\ MakeLock(s)
  /\ seen' = [seen EXCEPT ![s] = None]
  /\ ancient' = ancient \ {s}
  /\ UNCHANGED <<fileVars, spoolVars, syncVars, pastVars>>

\* TickLocked that starts its hour again each time
TickStartsAgain(s) ==
  /\ pc[s] = "idle" /\ pending[s]
  /\ lock # None
  /\ seen' = [seen EXCEPT ![s] = lock.text]
  /\ ancient' = ancient \ {s}
  /\ Go(s, "idle")
  /\ UNCHANGED <<lock, usurped, fileVars, spoolVars, syncVars, pastVars>>

\* TickLocked that forgets the pending blocks before it has the lock
TickForgets(s) ==
  /\ pc[s] = "idle" /\ pending[s]
  /\ lock # None
  /\ seen' = [seen EXCEPT ![s] = lock.text]
  /\ ancient' = IF seen[s] = lock.text THEN ancient ELSE ancient \ {s}
  /\ Go(s, IF s \in ancient' THEN "bust" ELSE "idle")
  /\ pending' = [pending EXCEPT ![s] = FALSE]
  /\ UNCHANGED <<lock, usurped, fileVars, spool, entry, syncVars, pastVars>>

\* reflect_tick with something to reflect, and the lock is taken: its text is
\* read.  One seen for an hour is that of an ancient lock.  (If the lock goes
\* between link and read_file nothing happens.)
TickLocked(s) ==
  /\ pc[s] = "idle" /\ pending[s]
  /\ lock # None
  /\ seen' = [seen EXCEPT ![s] = lock.text]
  /\ ancient' = IF seen[s] = lock.text THEN ancient ELSE ancient \ {s}
  /\ Go(s, IF s \in ancient' THEN "bust" ELSE "idle")
  /\ UNCHANGED <<lock, usurped, fileVars, spoolVars, syncVars, pastVars>>

Bust(s) ==
  /\ pc[s] = "bust"
  /\ RemoveLock(s)
  /\ usurped' = usurped \cup Robbed(s)
  /\ Go(s, "relock")
  /\ UNCHANGED <<fileVars, spoolVars, syncVars, pastVars>>

\* lock_path once more; what was seen stays noted.
Relock(s) ==
  /\ pc[s] = "relock"
  /\ \/ MakeLock(s)
     \/ lock # None /\ Go(s, "idle") /\ UNCHANGED <<lock, usurped>>
  /\ UNCHANGED <<seen, ancient, fileVars, spoolVars, syncVars, pastVars>>

\* The text of the lock, if the file is still there; reflect_go goes on.
Stamp(s) ==
  /\ pc[s] = "stamp"
  /\ lock' = IF lock # None /\ lock.by = s THEN [lock EXCEPT !.text = "time"] ELSE lock
  /\ pending' = [pending EXCEPT ![s] = FALSE]
  /\ entry' = [entry EXCEPT ![s] = 1]
  /\ Go(s, "scan")
  /\ UNCHANGED <<seen, ancient, usurped, fileVars, spool, syncVars, pastVars>>

-----------------------------------------------------------------------------
(* reflect_go: each block of the spool goes to the shared file *)

AtEntry(s) == pc[s] = "scan" /\ entry[s] <= SpoolEntries

\* cache_unlock_empty of the entry, and the next one
EntryDone(s) ==
  /\ spool' = [spool EXCEPT ![s][entry[s]] = Zeros]
  /\ entry' = [entry EXCEPT ![s] = @ + 1]
  /\ UNCHANGED pending

\* cache_lock_any finds nothing, or cache_lock a slot that somebody has locked:
\* then the block is dropped.
Skip(s) ==
  /\ AtEntry(s)
  /\ LET b == spool[s][entry[s]]
     IN  b = Zeros \/ \E k \in Places[b] : hash[k] = Ones
  /\ EntryDone(s)
  /\ UNCHANGED <<fileVars, lockVars, mainVars, syncVars, pastVars>>

\* cache_queue_write to the shared file: cache_lock has read the header of a
\* slot that is not locked.
Choose(s) ==
  /\ AtEntry(s)
  /\ LET b == spool[s][entry[s]]
     IN  /\ b # Zeros
         /\ \E k \in Places[b] : hash[k] # Ones /\ Enter(s, k, b, "claim")
  /\ UNCHANGED <<fileVars, lockVars, spoolVars, syncVars, stops, lost>>

\* Claim that writes the block at once
ClaimUnlocked(s) ==
  /\ pc[s] = "claim"
  /\ Go(s, "fill")
  /\ UNCHANGED <<fileVars, lockVars, spoolVars, syncVars, pastVars>>

\* The rest of cache_lock: set_header
Claim(s) ==
  /\ pc[s] = "claim"
  /\ SetHash(slot[s], Ones)
  /\ Go(s, "fill")
  /\ UNCHANGED <<data, lockVars, spoolVars, syncVars, pastVars>>

\* write_data
Fill(s) ==
  /\ pc[s] = "fill"
  /\ data' = [data EXCEPT ![slot[s]] = block[s]]
  /\ unsynced' = unsynced \cup {s}
  /\ Go(s, "label")
  /\ UNCHANGED <<hash, lockVars, spoolVars, thread, missed, pastVars>>

\* cache_unlock
Label(s) ==
  /\ pc[s] = "label"
  /\ SetHash(slot[s], block[s])
  /\ EntryDone(s)
  /\ Leave(s, "scan")
  /\ UNCHANGED <<data, lockVars, syncVars, pastVars>>

\* EndReflect that gives the lock up at once
EndReflectUnlocked(s) ==
  /\ pc[s] = "scan" /\ entry[s] > SpoolEntries
  /\ RemoveLock(s)
  /\ usurped' = usurped \cup Robbed(s)
  /\ entry' = [entry EXCEPT ![s] = 0]
  /\ Go(s, "idle")
  /\ thread' = [thread EXCEPT ![s] = "start"]
  /\ UNCHANGED <<fileVars, spool, pending, unsynced, missed, pastVars>>

\* unlock of file.c: fsync_async starts a thread.
EndReflect(s) ==
  /\ pc[s] = "scan" /\ entry[s] > SpoolEntries
  /\ entry' = [entry EXCEPT ![s] = 0]
  /\ Go(s, "idle")
  /\ thread' = [thread EXCEPT ![s] = "start"]
  /\ UNCHANGED <<fileVars, lockVars, spool, pending, unsynced, missed, pastVars>>

\* fsync_async_thread calls fsync.
FsyncBegins(s) ==
  /\ thread[s] = "start"
  /\ pc[s] # "closed"
  /\ thread' = [thread EXCEPT ![s] = "fsync"]
  /\ UNCHANGED <<unsynced, missed, fileVars, lockVars, mainVars, spoolVars, pastVars>>

\* unlock_done.  When the cache has been closed cf is freed, and the lock may or
\* may not be removed.
UnlockDone(s) ==
  /\ thread' = [thread EXCEPT ![s] = "none"]
  /\ \/ /\ RemoveLock(s)
        /\ usurped' = (usurped \cup Robbed(s)) \ (IF Reflecting(s) THEN {} ELSE {s})
     \/ /\ pc[s] = "closed"
        /\ usurped' = usurped \ {s}
        /\ UNCHANGED <<lock, seen, ancient>>

\* An fsync that has begun ends with the writes on disk, even if the cache is
\* closed meanwhile; the lock goes after it.
FsyncEnds(s) ==
  /\ thread[s] = "fsync"
  /\ unsynced' = unsynced \ {s}
  /\ UnlockDone(s)
  /\ UNCHANGED <<missed, fileVars, mainVars, spoolVars, pastVars>>

\* cf_close has closed the descriptor before fsync is called: nothing of this
\* file is synced, the result is not looked at, and the lock goes all the same.
FsyncMisses(s) ==
  /\ thread[s] = "start"
  /\ pc[s] = "closed"
  /\ missed' = missed \cup {s}
  /\ UnlockDone(s)
  /\ UNCHANGED <<unsynced, fileVars, mainVars, spoolVars, pastVars>>

-----------------------------------------------------------------------------
(* Servers come and go *)

\* What a server had in memory is gone, and the next one empties its spool.
Vanish(s) ==
  /\ Leave(s, "down")
  /\ spool' = [spool EXCEPT ![s] = EmptySpool]
  /\ entry' = [entry EXCEPT ![s] = 0]
  /\ pending' = [pending EXCEPT ![s] = FALSE]
  /\ seen' = [seen EXCEPT ![s] = None]
  /\ ancient' = ancient \ {s}
  /\ thread' = [thread EXCEPT ![s] = "none"]
  /\ unsynced' = unsynced \ {s}
  /\ missed' = missed \ {s}
  /\ usurped' = usurped \ {s}
  /\ UNCHANGED <<fileVars, lock, met>>

\* SIGKILL, at any moment; also the end of a process whose cache is closed.
Kill(s) ==
  /\ pc[s] # "down"
  /\ pc[s] = "closed" \/ stops < MaxStops
  /\ stops' = IF pc[s] = "closed" THEN stops ELSE stops + 1
  /\ lost' = IF pc[s] \in {"copy", "fill", "label"} THEN lost \cup {slot[s]}
             ELSE lost
  /\ Vanish(s)

\* cache_close and cf_close: nothing waits for the thread.
Close(s) ==
  /\ pc[s] = "idle"
  /\ stops < MaxStops
  /\ stops' = stops + 1
  /\ Go(s, "closed")
  /\ seen' = [seen EXCEPT ![s] = None]
  /\ ancient' = ancient \ {s}
  /\ UNCHANGED <<lock, usurped, fileVars, spoolVars, syncVars, met, lost>>

\* cf_open: without "keep" the file is emptied, whoever is using it.
Start(s) ==
  /\ pc[s] = "down"
  /\ Go(s, "idle")
  /\ IF s \in Keep THEN UNCHANGED <<hash, data, met>>
     ELSE /\ hash' = NoSlots
          /\ data' = NoSlots
          /\ met' = met \cup {k \in Slots : Inside(k) # {}}
  /\ UNCHANGED <<lockVars, spoolVars, syncVars, stops, lost>>

\* An hour in which nobody needed a lock for so long
Hour ==
  /\ ~Needed(lock)
  /\ ancient # {s \in Servers : seen[s] # None}
  /\ ancient' = {s \in Servers : seen[s] # None}
  /\ UNCHANGED <<lock, seen, usurped, fileVars, mainVars, spoolVars, syncVars, pastVars>>

-----------------------------------------------------------------------------
Read(s) == Mark(s) \/ Restore(s)

Lock(s) == Bust(s) \/ Relock(s) \/ Stamp(s)

Reflect(s) == \/ Skip(s) \/ Choose(s) \/ Claim(s) \/ Fill(s) \/ Label(s)
              \/ EndReflect(s)

Fsync(s) == FsyncBegins(s) \/ FsyncEnds(s) \/ FsyncMisses(s)

Next == \/ \E s \in Servers :
             \/ \E b \in Wanted[s], k \in Slots : Find(s, b, k)
             \/ \E b \in Wanted[s], i \in 1..SpoolEntries : Spool(s, b, i)
             \/ TakeLock(s) \/ TickLocked(s)
             \/ Read(s) \/ Lock(s) \/ Reflect(s) \/ Fsync(s)
             \/ Kill(s) \/ Close(s) \/ Start(s)
        \/ Hour

Spec == Init /\ [][Next]_vars

\* A handler runs to its end and a thread to its own.  The timer of the spool
\* is periodic, and comes between other handlers.  Nothing gives a server the
\* lock in its turn.
Fairness ==
  /\ \A s \in Servers : /\ WF_vars(Read(s) \/ Lock(s) \/ Reflect(s))
                        /\ WF_vars(Fsync(s))
                        /\ SF_vars(TickLocked(s))
  /\ WF_vars(Hour)

FairSpec == Spec /\ Fairness

-----------------------------------------------------------------------------
Hashes == Blocks \cup {Zeros, Ones}

Steps == Reading \cup Writing \cup
         {"idle", "down", "closed", "bust", "relock", "stamp", "scan"}

TypeOK == /\ hash \in [Slots -> Hashes]
          /\ data \in [Slots -> Blocks \cup {Zeros}]
          /\ lock \in LockFile \cup {None}
          /\ pc \in [Servers -> Steps]
          /\ slot \in [Servers -> Slots \cup {None}]
          /\ block \in [Servers -> Blocks \cup {None}]
          /\ \A s \in Servers : pc[s] \in Reading \cup Writing =>
                                  slot[s] # None /\ block[s] # None
          /\ spool \in [Servers -> [1..SpoolEntries -> Blocks \cup {Zeros}]]
          /\ entry \in [Servers -> 0..(SpoolEntries + 1)]
          /\ pending \in [Servers -> BOOLEAN]
          /\ seen \in [Servers -> Texts \cup {None}]
          /\ ancient \subseteq Servers
          /\ thread \in [Servers -> {"none", "start", "fsync"}]
          /\ unsynced \subseteq Servers /\ missed \subseteq Servers
          /\ stops \in 0..MaxStops
          /\ met \subseteq Slots /\ lost \subseteq Slots
          /\ usurped \subseteq Servers

(***************************************************************************)
(* A slot with the hash of a block holds that block, whenever servers are  *)
(* killed and whichever locks are busted, and a read copies what it looked *)
(* for.  That is so of a slot in which no two servers have been at once:   *)
(* reads do not take the lock file, and get_header and set_header are two  *)
(* accesses.                                                               *)
(***************************************************************************)
LabelsAreRight ==
  /\ \A k \in Slots \ met : hash[k] \in Blocks => data[k] = hash[k]
  /\ \A s \in Servers : pc[s] = "copy" /\ slot[s] \notin met => data[slot[s]] = block[s]

(***************************************************************************)
(* A slot that is locked is one in which some server is, which will unlock *)
(* it, or one in which a server was killed, and which no server will ever  *)
(* use again.                                                              *)
(***************************************************************************)
LockedSlotsAreInUse ==
  \A k \in Slots \ lost :
    hash[k] = Ones =>
      \E s \in Inside(k) : pc[s] \in {"copy", "fill", "label"}

(***************************************************************************)
(* A server writes to the shared file under its own lock, and keeps the    *)
(* lock until what it wrote is on disk.  Only a server that has lost a     *)
(* lock to another one is excepted, and what it wrote if it closed the     *)
(* cache (cf_close) before its fsync was called, which then does nothing.  *)
(***************************************************************************)
LockCoversWrites ==
  \A s \in Servers \ usurped :
    s \in unsynced \ missed \/ pc[s] \in Writing => lock # None /\ lock.by = s

(***************************************************************************)
(* What is in a spool is to be reflected: the timer will look for it, or   *)
(* the reflection under way has still to come to it.                       *)
(***************************************************************************)
SpoolIsPending ==
  \A s \in Servers, i \in 1..SpoolEntries :
    spool[s][i] # Zeros =>
      pending[s] \/ (pc[s] \in {"scan"} \cup Writing /\ i >= entry[s])

\* A server that would reflect
Waits(s) == pending[s] /\ pc[s] \notin {"closed", "down"}

(***************************************************************************)
(* A lock does not keep a server with blocks to reflect waiting for ever,  *)
(* even if its owner was killed, with or without its text written.         *)
(***************************************************************************)
LocksEnd ==
  (lock # None /\ \E s \in Servers : Waits(s))
    ~> (lock = None \/ \A s \in Servers : ~Waits(s))
=============================================================================
