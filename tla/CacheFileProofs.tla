--------------------------- MODULE CacheFileProofs ---------------------------
(***************************************************************************)
(* The invariants of cache files, for any servers, blocks, slots, places   *)
(* and spools, and any number of kills; and, at the end, of the lists of   *)
(* ranges in which a source keeps what of a file it has and what it needs. *)
(***************************************************************************)
EXTENDS CacheFile, Ranges, TLAPS

\* A reflection is at an entry of the spool.
EntryInRange ==
  \A s \in Servers :
    /\ pc[s] = "scan" => entry[s] >= 1
    /\ pc[s] \in Writing => entry[s] \in 1..SpoolEntries

Typed == TypeOK /\ EntryInRange

\* Types, and the place in the spool, at the start.
LEMMA TypedInit == Init => Typed
<1> SUFFICES ASSUME Init PROVE Typed
  OBVIOUS
<1> USE CacheFileAssumption DEF Init
<1>1. \A s \in Servers : pc[s] = "idle" /\ entry[s] = 0
  OBVIOUS
<1>2. spool \in [Servers -> [1..SpoolEntries -> Blocks \cup {Zeros}]]
  BY DEF EmptySpool
<1>3. entry \in [Servers -> 0..(SpoolEntries + 1)] /\ stops \in 0..MaxStops
  OBVIOUS
<1> QED
  BY <1>1, <1>2, <1>3
  DEF Typed, TypeOK, EntryInRange, NoSlots, Hashes, Steps, Reading, Writing

\* Each step keeps types, and the place in the spool.
LEMMA TypedStep == Typed /\ [Next]_vars => Typed'
<1> SUFFICES ASSUME Typed, [Next]_vars PROVE Typed'
  OBVIOUS
<1> USE CacheFileAssumption
    DEF Typed, TypeOK, EntryInRange, Hashes, Steps, Reading, Writing, Texts,
      LockFile,
        vars, fileVars, lockVars, mainVars, spoolVars, syncVars, pastVars
<1>1. ASSUME NEW s \in Servers, NEW b \in Wanted[s], NEW k \in Slots, Find(s, b, k)
      PROVE Typed'
  BY <1>1 DEF Find, Enter
<1>2. ASSUME NEW s \in Servers, Mark(s) PROVE Typed'
  BY <1>2 DEF Mark, SetHash, Go
<1>3. ASSUME NEW s \in Servers, Restore(s) PROVE Typed'
  BY <1>3 DEF Restore, SetHash, Leave
<1>4. ASSUME NEW s \in Servers, NEW b \in Wanted[s], NEW i \in 1..SpoolEntries, Spool(s, b, i)
      PROVE Typed'
  BY <1>4 DEF Spool
<1>5. ASSUME NEW s \in Servers, TakeLock(s) PROVE Typed'
  BY <1>5 DEF TakeLock, MakeLock, Go
<1>6. ASSUME NEW s \in Servers, TickLocked(s) PROVE Typed'
  BY <1>6 DEF TickLocked, Go
<1>7. ASSUME NEW s \in Servers, Bust(s) PROVE Typed'
  BY <1>7 DEF Bust, RemoveLock, Robbed, Go
<1>8. ASSUME NEW s \in Servers, Relock(s) PROVE Typed'
  <2>1. CASE MakeLock(s)
    BY <1>8, <2>1 DEF Relock, MakeLock, Go
  <2>2. CASE ~MakeLock(s)
    BY <1>8, <2>2 DEF Relock, Go
  <2> QED BY <2>1, <2>2
<1>9. ASSUME NEW s \in Servers, Stamp(s) PROVE Typed'
  <2>1. lock' \in LockFile \cup {None}
    BY <1>9 DEF Stamp
  <2> QED BY <1>9, <2>1 DEF Stamp, Go
<1>10. ASSUME NEW s \in Servers, Skip(s) PROVE Typed'
  BY <1>10 DEF Skip, AtEntry, EntryDone
<1>11. ASSUME NEW s \in Servers, Choose(s) PROVE Typed'
  BY <1>11 DEF Choose, AtEntry, Enter
<1>12. ASSUME NEW s \in Servers, Claim(s) PROVE Typed'
  BY <1>12 DEF Claim, SetHash, Go
<1>13. ASSUME NEW s \in Servers, Fill(s) PROVE Typed'
  BY <1>13 DEF Fill, Go
<1>14. ASSUME NEW s \in Servers, Label(s) PROVE Typed'
  BY <1>14 DEF Label, SetHash, EntryDone, Leave
<1>15. ASSUME NEW s \in Servers, EndReflect(s) PROVE Typed'
  BY <1>15 DEF EndReflect, Go
<1>16. ASSUME NEW s \in Servers, Fsync(s) PROVE Typed'
  <2>1. CASE FsyncBegins(s)
    BY <2>1 DEF FsyncBegins
  <2>2. ASSUME UnlockDone(s)
        PROVE  /\ lock' \in LockFile \cup {None}
               /\ seen' \in [Servers -> Texts \cup {None}]
               /\ ancient' \subseteq Servers /\ usurped' \subseteq Servers
               /\ thread' \in [Servers -> {"none", "start", "fsync"}]
    BY <2>2 DEF UnlockDone, RemoveLock, Robbed
  <2>3. CASE FsyncEnds(s)
    BY <2>2, <2>3 DEF FsyncEnds
  <2>4. CASE FsyncMisses(s)
    BY <2>2, <2>4 DEF FsyncMisses
  <2> QED BY <1>16, <2>1, <2>3, <2>4 DEF Fsync
<1>17. ASSUME NEW s \in Servers, Kill(s) PROVE Typed'
  BY <1>17 DEF Kill, Vanish, Leave, EmptySpool
<1>18. ASSUME NEW s \in Servers, Close(s) PROVE Typed'
  BY <1>18 DEF Close, Go
<1>19. ASSUME NEW s \in Servers, Start(s) PROVE Typed'
  BY <1>19 DEF Start, Go, NoSlots
<1>20. CASE Hour
  BY <1>20 DEF Hour
<1>21. CASE UNCHANGED vars
  BY <1>21
<1> QED
  BY <1>1, <1>2, <1>3, <1>4, <1>5, <1>6, <1>7, <1>8, <1>9, <1>10, <1>11, <1>12,
     <1>13, <1>14, <1>15, <1>16, <1>17, <1>18, <1>19, <1>20, <1>21
  DEF Next, Read, Lock, Reflect

\* Blocks enter a spool with its flag set, which only a reflection clears.
LEMMA SpoolStep == Typed /\ SpoolIsPending /\ [Next]_vars => SpoolIsPending'
<1> SUFFICES ASSUME Typed /\ SpoolIsPending, [Next]_vars PROVE SpoolIsPending'
  OBVIOUS
<1> USE CacheFileAssumption
    DEF Typed, TypeOK, EntryInRange, SpoolIsPending, Steps, Writing,
        vars, fileVars, lockVars, mainVars, spoolVars, syncVars, pastVars
<1>1. ASSUME NEW s \in Servers, NEW b \in Wanted[s], NEW k \in Slots, Find(s, b, k)
      PROVE SpoolIsPending'
  BY <1>1 DEF Find, Enter
<1>2. ASSUME NEW s \in Servers, Mark(s) PROVE SpoolIsPending'
  BY <1>2 DEF Mark, SetHash, Go
<1>3. ASSUME NEW s \in Servers, Restore(s) PROVE SpoolIsPending'
  BY <1>3 DEF Restore, SetHash, Leave
<1>4. ASSUME NEW s \in Servers, NEW b \in Wanted[s], NEW i \in 1..SpoolEntries, Spool(s, b, i)
      PROVE SpoolIsPending'
  BY <1>4 DEF Spool
<1>5. ASSUME NEW s \in Servers, TakeLock(s) PROVE SpoolIsPending'
  BY <1>5 DEF TakeLock, MakeLock, Go
<1>6. ASSUME NEW s \in Servers, TickLocked(s) PROVE SpoolIsPending'
  BY <1>6 DEF TickLocked, Go
<1>7. ASSUME NEW s \in Servers, Bust(s) PROVE SpoolIsPending'
  BY <1>7 DEF Bust, RemoveLock, Go
<1>8. ASSUME NEW s \in Servers, Relock(s) PROVE SpoolIsPending'
  BY <1>8 DEF Relock, MakeLock, Go
<1>9. ASSUME NEW s \in Servers, Stamp(s) PROVE SpoolIsPending'
  BY <1>9 DEF Stamp, Go
<1>10. ASSUME NEW s \in Servers, Skip(s) PROVE SpoolIsPending'
  BY <1>10 DEF Skip, AtEntry, EntryDone
<1>11. ASSUME NEW s \in Servers, Choose(s) PROVE SpoolIsPending'
  BY <1>11 DEF Choose, AtEntry, Enter
<1>12. ASSUME NEW s \in Servers, Claim(s) PROVE SpoolIsPending'
  BY <1>12 DEF Claim, SetHash, Go
<1>13. ASSUME NEW s \in Servers, Fill(s) PROVE SpoolIsPending'
  BY <1>13 DEF Fill, Go
<1>14. ASSUME NEW s \in Servers, Label(s) PROVE SpoolIsPending'
  BY <1>14 DEF Label, SetHash, EntryDone, Leave
<1>15. ASSUME NEW s \in Servers, EndReflect(s) PROVE SpoolIsPending'
  BY <1>15 DEF EndReflect, Go
<1>16. ASSUME NEW s \in Servers, Fsync(s) PROVE SpoolIsPending'
  BY <1>16 DEF Fsync, FsyncBegins, FsyncEnds, FsyncMisses, UnlockDone, RemoveLock
<1>17. ASSUME NEW s \in Servers, Kill(s) PROVE SpoolIsPending'
  BY <1>17 DEF Kill, Vanish, Leave, EmptySpool
<1>18. ASSUME NEW s \in Servers, Close(s) PROVE SpoolIsPending'
  BY <1>18 DEF Close, Go
<1>19. ASSUME NEW s \in Servers, Start(s) PROVE SpoolIsPending'
  BY <1>19 DEF Start, Go, NoSlots
<1>20. CASE Hour
  BY <1>20 DEF Hour
<1>21. CASE UNCHANGED vars
  BY <1>21
<1> QED
  BY <1>1, <1>2, <1>3, <1>4, <1>5, <1>6, <1>7, <1>8, <1>9, <1>10, <1>11, <1>12,
     <1>13, <1>14, <1>15, <1>16, <1>17, <1>18, <1>19, <1>20, <1>21
  DEF Next, Read, Lock, Reflect

\* Whoever locks a slot stays in it until it is unlocked, or dies in it.
LEMMA LockedStep == Typed /\ LockedSlotsAreInUse /\ [Next]_vars => LockedSlotsAreInUse'
<1> SUFFICES ASSUME Typed /\ LockedSlotsAreInUse, [Next]_vars PROVE LockedSlotsAreInUse'
  OBVIOUS
<1> USE CacheFileAssumption
    DEF Typed, TypeOK, LockedSlotsAreInUse, Hashes, Texts, LockFile, Inside,
      Reading, Writing,
        vars, fileVars, lockVars, mainVars, spoolVars, syncVars, pastVars
<1>1. ASSUME NEW s \in Servers, NEW b \in Wanted[s], NEW k \in Slots, Find(s, b, k)
      PROVE LockedSlotsAreInUse'
  BY <1>1 DEF Find, Enter
<1>2. ASSUME NEW s \in Servers, Mark(s) PROVE LockedSlotsAreInUse'
  BY <1>2 DEF Mark, SetHash, Go
<1>3. ASSUME NEW s \in Servers, Restore(s) PROVE LockedSlotsAreInUse'
  BY <1>3 DEF Restore, SetHash, Leave
<1>4. ASSUME NEW s \in Servers, NEW b \in Wanted[s], NEW i \in 1..SpoolEntries, Spool(s, b, i)
      PROVE LockedSlotsAreInUse'
  BY <1>4 DEF Spool
<1>5. ASSUME NEW s \in Servers, TakeLock(s) PROVE LockedSlotsAreInUse'
  BY <1>5 DEF TakeLock, MakeLock, Go
<1>6. ASSUME NEW s \in Servers, TickLocked(s) PROVE LockedSlotsAreInUse'
  BY <1>6 DEF TickLocked, Go
<1>7. ASSUME NEW s \in Servers, Bust(s) PROVE LockedSlotsAreInUse'
  BY <1>7 DEF Bust, RemoveLock, Go
<1>8. ASSUME NEW s \in Servers, Relock(s) PROVE LockedSlotsAreInUse'
  <2>1. UNCHANGED <<hash, slot, lost>> /\ pc[s] = "relock"
    BY <1>8 DEF Relock, MakeLock, Go
  <2>2. \A t \in Servers \ {s} : pc'[t] = pc[t]
    BY <1>8 DEF Relock, MakeLock, Go
  <2> SUFFICES ASSUME NEW k \in Slots \ lost', hash'[k] = Ones
                PROVE  \E t \in Inside(k)' : pc'[t] \in {"copy", "fill", "label"}
    BY DEF LockedSlotsAreInUse
  <2>3. PICK t \in Inside(k) : pc[t] \in {"copy", "fill", "label"}
    BY <2>1
  <2> QED BY <2>1, <2>2, <2>3
<1>9. ASSUME NEW s \in Servers, Stamp(s) PROVE LockedSlotsAreInUse'
  BY <1>9 DEF Stamp, Go
<1>10. ASSUME NEW s \in Servers, Skip(s) PROVE LockedSlotsAreInUse'
  BY <1>10 DEF Skip, AtEntry, EntryDone
<1>11. ASSUME NEW s \in Servers, Choose(s) PROVE LockedSlotsAreInUse'
  <2> SUFFICES ASSUME NEW j \in Slots \ lost', hash'[j] = Ones
                PROVE  \E t \in Inside(j)' : pc'[t] \in {"copy", "fill", "label"}
    BY DEF LockedSlotsAreInUse
  <2>1. PICK t \in Inside(j) : pc[t] \in {"copy", "fill", "label"}
    BY <1>11 DEF Choose, AtEntry, Enter
  <2> QED BY <1>11, <2>1 DEF Choose, AtEntry, Enter
<1>12. ASSUME NEW s \in Servers, Claim(s) PROVE LockedSlotsAreInUse'
  BY <1>12 DEF Claim, SetHash, Go
<1>13. ASSUME NEW s \in Servers, Fill(s) PROVE LockedSlotsAreInUse'
  BY <1>13 DEF Fill, Go
<1>14. ASSUME NEW s \in Servers, Label(s) PROVE LockedSlotsAreInUse'
  BY <1>14 DEF Label, SetHash, EntryDone, Leave
<1>15. ASSUME NEW s \in Servers, EndReflect(s) PROVE LockedSlotsAreInUse'
  BY <1>15 DEF EndReflect, Go
<1>16. ASSUME NEW s \in Servers, Fsync(s) PROVE LockedSlotsAreInUse'
  BY <1>16 DEF Fsync, FsyncBegins, FsyncEnds, FsyncMisses, UnlockDone, RemoveLock
<1>17. ASSUME NEW s \in Servers, Kill(s) PROVE LockedSlotsAreInUse'
  BY <1>17 DEF Kill, Vanish, Leave, EmptySpool
<1>18. ASSUME NEW s \in Servers, Close(s) PROVE LockedSlotsAreInUse'
  BY <1>18 DEF Close, Go
<1>19. ASSUME NEW s \in Servers, Start(s) PROVE LockedSlotsAreInUse'
  <2> SUFFICES ASSUME NEW j \in Slots \ lost', hash'[j] = Ones
                PROVE  \E t \in Inside(j)' : pc'[t] \in {"copy", "fill", "label"}
    BY DEF LockedSlotsAreInUse
  <2>1. PICK t \in Inside(j) : pc[t] \in {"copy", "fill", "label"}
    BY <1>19 DEF Start, Go, NoSlots
  <2> QED BY <1>19, <2>1 DEF Start, Go, NoSlots
<1>20. CASE Hour
  BY <1>20 DEF Hour
<1>21. CASE UNCHANGED vars
  BY <1>21
<1> QED
  BY <1>1, <1>2, <1>3, <1>4, <1>5, <1>6, <1>7, <1>8, <1>9, <1>10, <1>11, <1>12,
     <1>13, <1>14, <1>15, <1>16, <1>17, <1>18, <1>19, <1>20, <1>21
  DEF Next, Read, Lock, Reflect

\* A slot in which no two servers have been has at most one in it.
Alone ==
  \A s, t \in Servers :
    pc[s] \in Reading \cup Writing /\ pc[t] \in Reading \cup Writing /\ slot[s] = slot[t]
      => s = t \/ slot[s] \in met

\* What a server that is alone in a slot knows of it.
SlotIsHeld ==
  \A s \in Servers :
    slot[s] \notin met =>
      /\ pc[s] = "mark" => hash[slot[s]] = block[s]
      /\ pc[s] \in {"copy", "fill", "label"} => hash[slot[s]] = Ones
      /\ pc[s] \in {"copy", "label"} => data[slot[s]] = block[s]

SlotsHeld == Alone /\ SlotIsHeld /\ LabelsAreRight

\* One server alone in a slot keeps hash and block together.
LEMMA LabelStep == Typed /\ SlotsHeld /\ [Next]_vars => SlotsHeld'
<1> SUFFICES ASSUME Typed /\ SlotsHeld, [Next]_vars PROVE SlotsHeld'
  OBVIOUS
<1> USE CacheFileAssumption
    DEF Typed, TypeOK, SlotsHeld, Alone, SlotIsHeld, LabelsAreRight, Hashes, Texts,
      LockFile, Inside, Reading, Writing,
        vars, fileVars, lockVars, mainVars, spoolVars, syncVars, pastVars
<1>1. ASSUME NEW s \in Servers, NEW b \in Wanted[s], NEW k \in Slots, Find(s, b, k)
      PROVE SlotsHeld'
  BY <1>1 DEF Find, Enter
<1>2. ASSUME NEW s \in Servers, Mark(s) PROVE SlotsHeld'
  BY <1>2 DEF Mark, SetHash, Go
<1>3. ASSUME NEW s \in Servers, Restore(s) PROVE SlotsHeld'
  BY <1>3 DEF Restore, SetHash, Leave
<1>4. ASSUME NEW s \in Servers, NEW b \in Wanted[s], NEW i \in 1..SpoolEntries, Spool(s, b, i)
      PROVE SlotsHeld'
  BY <1>4 DEF Spool
<1>5. ASSUME NEW s \in Servers, TakeLock(s) PROVE SlotsHeld'
  BY <1>5 DEF TakeLock, MakeLock, Go
<1>6. ASSUME NEW s \in Servers, TickLocked(s) PROVE SlotsHeld'
  BY <1>6 DEF TickLocked, Go
<1>7. ASSUME NEW s \in Servers, Bust(s) PROVE SlotsHeld'
  BY <1>7 DEF Bust, RemoveLock, Go
<1>8. ASSUME NEW s \in Servers, Relock(s) PROVE SlotsHeld'
  <2>1. pc[s] = "relock" /\ pc'[s] \in {"stamp", "idle"} /\ \A t \in Servers \ {s} : pc'[t] = pc[t]
    BY <1>8 DEF Relock, MakeLock, Go
  <2>2. UNCHANGED <<hash, data, slot, block, met>>
    BY <1>8 DEF Relock, MakeLock, Go
  <2> QED BY <2>1, <2>2
<1>9. ASSUME NEW s \in Servers, Stamp(s) PROVE SlotsHeld'
  BY <1>9 DEF Stamp, Go
<1>10. ASSUME NEW s \in Servers, Skip(s) PROVE SlotsHeld'
  BY <1>10 DEF Skip, AtEntry, EntryDone
<1>11. ASSUME NEW s \in Servers, Choose(s) PROVE SlotsHeld'
  BY <1>11 DEF Choose, AtEntry, Enter
<1>12. ASSUME NEW s \in Servers, Claim(s) PROVE SlotsHeld'
  BY <1>12 DEF Claim, SetHash, Go
<1>13. ASSUME NEW s \in Servers, Fill(s) PROVE SlotsHeld'
  BY <1>13 DEF Fill, Go
<1>14. ASSUME NEW s \in Servers, Label(s) PROVE SlotsHeld'
  BY <1>14 DEF Label, SetHash, EntryDone, Leave
<1>15. ASSUME NEW s \in Servers, EndReflect(s) PROVE SlotsHeld'
  BY <1>15 DEF EndReflect, Go
<1>16. ASSUME NEW s \in Servers, Fsync(s) PROVE SlotsHeld'
  BY <1>16 DEF Fsync, FsyncBegins, FsyncEnds, FsyncMisses, UnlockDone, RemoveLock
<1>17. ASSUME NEW s \in Servers, Kill(s) PROVE SlotsHeld'
  BY <1>17 DEF Kill, Vanish, Leave, EmptySpool
<1>18. ASSUME NEW s \in Servers, Close(s) PROVE SlotsHeld'
  BY <1>18 DEF Close, Go
<1>19. ASSUME NEW s \in Servers, Start(s) PROVE SlotsHeld'
  BY <1>19 DEF Start, Go, NoSlots
<1>20. CASE Hour
  BY <1>20 DEF Hour
<1>21. CASE UNCHANGED vars
  BY <1>21
<1> QED
  BY <1>1, <1>2, <1>3, <1>4, <1>5, <1>6, <1>7, <1>8, <1>9, <1>10, <1>11, <1>12,
     <1>13, <1>14, <1>15, <1>16, <1>17, <1>18, <1>19, <1>20, <1>21
  DEF Next, Read, Lock, Reflect

\* The server reflects, or the fsync of its reflection runs.
Needs(s) == Reflecting(s) \/ thread[s] # "none"

\* Writes that are not on disk belong to a reflection or to its fsync, but for
\* those of a server that closed the cache before it.
SyncFollows ==
  \A s \in unsynced \ missed : pc[s] \in {"scan"} \cup Writing \/ thread[s] # "none"

\* A time that has been seen is that of the lock there is.
SeenIsThere ==
  \A s \in Servers : seen[s] = "time" => lock # None /\ lock.text = "time"

\* Whoever needs a lock has it unless it was usurped, with its text once the
\* main thread has written it; no server with an fsync running locks again, and
\* nobody finds the lock ancient.
LockIsHeld ==
  \A s \in Servers \ usurped :
    /\ Needs(s) => lock # None /\ lock.by = s
    /\ pc[s] = "stamp" => lock.text = "empty"
    /\ pc[s] \in {"scan"} \cup Writing => lock.text = "time"
    /\ thread[s] # "none" => lock.text = "time" /\ pc[s] \in Reading \cup {"idle", "closed"}
    /\ Needs(s) => \A t \in ancient : seen[t] # "time"

LockHeld == SyncFollows /\ SeenIsThere /\ LockIsHeld

\* Locks are made when nobody needs one, and kept while they are needed.
LEMMA LockStep == Typed /\ LockHeld /\ [Next]_vars => LockHeld'
<1> SUFFICES ASSUME Typed /\ LockHeld, [Next]_vars PROVE LockHeld'
  OBVIOUS
<1> USE CacheFileAssumption
    DEF Typed, TypeOK, LockHeld, SyncFollows, SeenIsThere, LockIsHeld, Needs, Needed,
        Reflecting, Robbed,
      Texts, LockFile, Steps, Reading, Writing,
        vars, fileVars, lockVars, mainVars, spoolVars, syncVars, pastVars
<1>1. ASSUME NEW s \in Servers, NEW b \in Wanted[s], NEW k \in Slots, Find(s, b, k)
      PROVE LockHeld'
  BY <1>1 DEF Find, Enter
<1>2. ASSUME NEW s \in Servers, Mark(s) PROVE LockHeld'
  BY <1>2 DEF Mark, SetHash, Go
<1>3. ASSUME NEW s \in Servers, Restore(s) PROVE LockHeld'
  BY <1>3 DEF Restore, SetHash, Leave
<1>4. ASSUME NEW s \in Servers, NEW b \in Wanted[s], NEW i \in 1..SpoolEntries, Spool(s, b, i)
      PROVE LockHeld'
  BY <1>4 DEF Spool
<1>5. ASSUME NEW s \in Servers, TakeLock(s) PROVE LockHeld'
  <2>1. SyncFollows'
    BY <1>5 DEF TakeLock, MakeLock, Go
  <2>2. SeenIsThere'
    BY <1>5 DEF TakeLock, MakeLock, Go
  <2>3. ASSUME NEW t \in Servers \ usurped'
        PROVE  /\ Needs(t)' => lock' # None /\ lock'.by = t
               /\ pc'[t] = "stamp" => lock'.text = "empty"
    BY <1>5, <2>3 DEF TakeLock, MakeLock, Go
  <2>4. ASSUME NEW t \in Servers \ usurped'
        PROVE  /\ pc'[t] \in {"scan"} \cup Writing => lock'.text = "time"
               /\ thread'[t] # "none" => lock'.text = "time" /\ pc'[t] \in Reading \cup {"idle", "closed"}
    BY <1>5, <2>4 DEF TakeLock, MakeLock, Go
  <2>5. ASSUME NEW t \in Servers \ usurped', Needs(t)', NEW u \in ancient'
        PROVE  seen'[u] # "time"
    BY <1>5, <2>5 DEF TakeLock, MakeLock, Go
  <2> QED BY <2>1, <2>2, <2>3, <2>4, <2>5 DEF LockIsHeld, LockHeld
<1>6. ASSUME NEW s \in Servers, TickLocked(s) PROVE LockHeld'
  BY <1>6 DEF TickLocked, Go
<1>7. ASSUME NEW s \in Servers, Bust(s) PROVE LockHeld'
  <2>1. SyncFollows'
    BY <1>7 DEF Bust, RemoveLock, Go
  <2>2. SeenIsThere'
    BY <1>7 DEF Bust, RemoveLock, Go
  <2>3. ASSUME NEW t \in Servers \ usurped'
        PROVE  /\ Needs(t)' => lock' # None /\ lock'.by = t
               /\ pc'[t] = "stamp" => lock'.text = "empty"
    <3>1. pc[s] = "bust" /\ pc' = [pc EXCEPT ![s] = "relock"] /\ thread' = thread
      BY <1>7 DEF Bust, Go
    <3>2. t \notin usurped /\ t \notin Robbed(s)
      BY <1>7, <2>3 DEF Bust
    <3>3. Needs(t)' => Needs(t)
      BY <3>1
    <3>4. ~Needs(s) \/ s \in usurped
      BY <3>1
    <3>5. Needs(t) => Needed(lock) /\ lock.by = t
      BY <3>2
    <3> QED BY <3>1, <3>2, <3>3, <3>4, <3>5
  <2>4. ASSUME NEW t \in Servers \ usurped'
        PROVE  /\ pc'[t] \in {"scan"} \cup Writing => lock'.text = "time"
               /\ thread'[t] # "none" => lock'.text = "time" /\ pc'[t] \in Reading \cup {"idle", "closed"}
    <3>1. lock' = None
      BY <1>7 DEF Bust, RemoveLock
    <3> QED BY <2>3, <2>4, <3>1
  <2>5. ASSUME NEW t \in Servers \ usurped', Needs(t)', NEW u \in ancient'
        PROVE  seen'[u] # "time"
    BY <1>7, <2>5 DEF Bust, RemoveLock, Go
  <2> QED BY <2>1, <2>2, <2>3, <2>4, <2>5 DEF LockIsHeld, LockHeld
<1>8. ASSUME NEW s \in Servers, Relock(s) PROVE LockHeld'
  <2>1. pc[s] = "relock" /\ UNCHANGED <<seen, ancient, usurped, thread, unsynced, missed>>
    BY <1>8 DEF Relock, MakeLock
  <2>2. CASE MakeLock(s)
    <3>1. lock = None /\ lock' = [by |-> s, text |-> "empty"] /\ pc' = [pc EXCEPT ![s] = "stamp"]
      BY <2>2 DEF MakeLock, Go
    <3>2. SyncFollows' /\ SeenIsThere'
      BY <2>1, <3>1
    <3>3. \A t \in Servers \ usurped : ~Needs(t) /\ thread[t] = "none"
      BY <3>1
    <3>4. LockIsHeld'
      BY <2>1, <3>1, <3>2, <3>3
    <3> QED BY <3>2, <3>4
  <2>3. CASE ~MakeLock(s)
    <3>1. lock' = lock /\ pc' = [pc EXCEPT ![s] = "idle"]
      BY <1>8, <2>3 DEF Relock, Go
    <3> QED BY <2>1, <3>1
  <2> QED BY <2>2, <2>3
<1>9. ASSUME NEW s \in Servers, Stamp(s) PROVE LockHeld'
  <2>1. SyncFollows'
    BY <1>9 DEF Stamp, Go
  <2>2. SeenIsThere'
    BY <1>9 DEF Stamp, Go
  <2>3. ASSUME NEW t \in Servers \ usurped'
        PROVE  /\ Needs(t)' => lock' # None /\ lock'.by = t
               /\ pc'[t] = "stamp" => lock'.text = "empty"
    <3>1. pc[s] = "stamp" /\ pc' = [pc EXCEPT ![s] = "scan"] /\ thread' = thread /\ usurped' = usurped
      BY <1>9 DEF Stamp, Go
    <3>2. CASE t = s
      <4>1. lock # None /\ lock.by = s
        BY <2>3, <3>1, <3>2
      <4>2. lock \in LockFile /\ lock' = [lock EXCEPT !.text = "time"]
        BY <1>9, <4>1 DEF Stamp
      <4>3. lock' \in LockFile /\ lock'.by = s
        BY <4>1, <4>2
      <4> QED BY <3>1, <3>2, <4>3
    <3>3. CASE t # s
      <4>1. Needs(t)' = Needs(t) /\ pc'[t] = pc[t]
        BY <3>1, <3>3
      <4>2. Needs(t) => lock # None /\ lock.by = t /\ lock' = lock
        BY <1>9, <2>3, <3>1, <3>3 DEF Stamp
      <4> QED BY <2>3, <3>1, <4>1, <4>2
    <3> QED BY <3>2, <3>3
  <2>4. ASSUME NEW t \in Servers \ usurped'
        PROVE  /\ pc'[t] \in {"scan"} \cup Writing => lock'.text = "time"
               /\ thread'[t] # "none" => lock'.text = "time" /\ pc'[t] \in Reading \cup {"idle", "closed"}
    BY <1>9, <2>4 DEF Stamp, Go
  <2>5. ASSUME NEW t \in Servers \ usurped', Needs(t)', NEW u \in ancient'
        PROVE  seen'[u] # "time"
    BY <1>9, <2>5 DEF Stamp, Go
  <2> QED BY <2>1, <2>2, <2>3, <2>4, <2>5 DEF LockIsHeld, LockHeld
<1>10. ASSUME NEW s \in Servers, Skip(s) PROVE LockHeld'
  BY <1>10 DEF Skip, AtEntry, EntryDone
<1>11. ASSUME NEW s \in Servers, Choose(s) PROVE LockHeld'
  BY <1>11 DEF Choose, AtEntry, Enter
<1>12. ASSUME NEW s \in Servers, Claim(s) PROVE LockHeld'
  BY <1>12 DEF Claim, SetHash, Go
<1>13. ASSUME NEW s \in Servers, Fill(s) PROVE LockHeld'
  BY <1>13 DEF Fill, Go
<1>14. ASSUME NEW s \in Servers, Label(s) PROVE LockHeld'
  BY <1>14 DEF Label, SetHash, EntryDone, Leave
<1>15. ASSUME NEW s \in Servers, EndReflect(s) PROVE LockHeld'
  <2>1. SyncFollows'
    BY <1>15 DEF EndReflect, Go
  <2>2. SeenIsThere'
    BY <1>15 DEF EndReflect, Go
  <2>3. ASSUME NEW t \in Servers \ usurped'
        PROVE  /\ Needs(t)' => lock' # None /\ lock'.by = t
               /\ pc'[t] = "stamp" => lock'.text = "empty"
    BY <1>15, <2>3 DEF EndReflect, Go
  <2>4. ASSUME NEW t \in Servers \ usurped'
        PROVE  /\ pc'[t] \in {"scan"} \cup Writing => lock'.text = "time"
               /\ thread'[t] # "none" => lock'.text = "time" /\ pc'[t] \in Reading \cup {"idle", "closed"}
    BY <1>15, <2>4 DEF EndReflect, Go
  <2>5. ASSUME NEW t \in Servers \ usurped', Needs(t)', NEW u \in ancient'
        PROVE  seen'[u] # "time"
    BY <1>15, <2>5 DEF EndReflect, Go
  <2> QED BY <2>1, <2>2, <2>3, <2>4, <2>5 DEF LockIsHeld, LockHeld
<1>16. ASSUME NEW s \in Servers, Fsync(s) PROVE LockHeld'
  <2>1. CASE FsyncBegins(s)
    BY <2>1 DEF FsyncBegins
  <2>2. ASSUME UnlockDone(s), UNCHANGED pc, unsynced' \ missed' \subseteq unsynced \ missed,
               s \notin unsynced' \ missed', thread[s] # "none"
        PROVE  LockHeld'
    <3>1. /\ thread' = [thread EXCEPT ![s] = "none"]
          /\ usurped \ {s} \subseteq usurped'
      BY <2>2 DEF UnlockDone
    <3>2. SyncFollows'
      BY <2>2, <3>1
    <3>3. SeenIsThere'
      BY <2>2 DEF UnlockDone, RemoveLock
    <3>4. ~Needs(s)' \/ s \in usurped'
      <4>1. CASE s \in usurped
        BY <2>2, <3>1, <4>1 DEF UnlockDone
      <4>2. CASE s \notin usurped
        BY <2>2, <3>1, <4>2
      <4> QED BY <4>1, <4>2
    <3>5. \A t \in Servers \ {s} : Needs(t)' = Needs(t)
      BY <2>2, <3>1
    <3>6. CASE RemoveLock(s) /\ usurped' = (usurped \cup Robbed(s)) \ (IF Reflecting(s) THEN {} ELSE {s})
      <4>1. \A t \in Servers \ usurped' : ~Needs(t)'
        BY <3>4, <3>5, <3>6
      <4> QED BY <2>2, <3>1, <3>2, <3>3, <4>1
    <3>7. CASE UNCHANGED <<lock, seen, ancient>> /\ usurped' = usurped \ {s}
      BY <2>2, <3>1, <3>2, <3>3, <3>4, <3>5, <3>7
    <3> QED BY <2>2, <3>6, <3>7 DEF UnlockDone
  <2>3. CASE FsyncEnds(s)
    BY <2>2, <2>3 DEF FsyncEnds
  <2>4. CASE FsyncMisses(s)
    BY <2>2, <2>4 DEF FsyncMisses
  <2> QED BY <1>16, <2>1, <2>3, <2>4 DEF Fsync
<1>17. ASSUME NEW s \in Servers, Kill(s) PROVE LockHeld'
  <2>1. SyncFollows'
    BY <1>17 DEF Kill, Vanish, Leave
  <2>2. SeenIsThere'
    BY <1>17 DEF Kill, Vanish, Leave
  <2>3. ASSUME NEW t \in Servers \ usurped'
        PROVE  /\ Needs(t)' => lock' # None /\ lock'.by = t
               /\ pc'[t] = "stamp" => lock'.text = "empty"
    BY <1>17, <2>3 DEF Kill, Vanish, Leave
  <2>4. ASSUME NEW t \in Servers \ usurped'
        PROVE  /\ pc'[t] \in {"scan"} \cup Writing => lock'.text = "time"
               /\ thread'[t] # "none" => lock'.text = "time" /\ pc'[t] \in Reading \cup {"idle", "closed"}
    BY <1>17, <2>4 DEF Kill, Vanish, Leave
  <2>5. ASSUME NEW t \in Servers \ usurped', Needs(t)', NEW u \in ancient'
        PROVE  seen'[u] # "time"
    BY <1>17, <2>5 DEF Kill, Vanish, Leave
  <2> QED BY <2>1, <2>2, <2>3, <2>4, <2>5 DEF LockIsHeld, LockHeld
<1>18. ASSUME NEW s \in Servers, Close(s) PROVE LockHeld'
  BY <1>18 DEF Close, Go
<1>19. ASSUME NEW s \in Servers, Start(s) PROVE LockHeld'
  BY <1>19 DEF Start, Go, NoSlots
<1>20. CASE Hour
  BY <1>20 DEF Hour
<1>21. CASE UNCHANGED vars
  BY <1>21
<1> QED
  BY <1>1, <1>2, <1>3, <1>4, <1>5, <1>6, <1>7, <1>8, <1>9, <1>10, <1>11, <1>12,
     <1>13, <1>14, <1>15, <1>16, <1>17, <1>18, <1>19, <1>20, <1>21
  DEF Next, Read, Lock, Reflect

-----------------------------------------------------------------------------
\* What the other lemmas start from.
LEMMA TypeInvariant == Spec => []Typed
BY TypedInit, TypedStep, PTL DEF Spec

(***************************************************************************)
(* Types, for any instance.                                                *)
(***************************************************************************)
THEOREM TypeCorrect == Spec => []TypeOK
<1>1. Typed => TypeOK
  BY DEF Typed
<1> QED BY <1>1, TypeInvariant, PTL

(***************************************************************************)
(* What is in a spool is to be reflected (cache_queue_write, reflect_go).  *)
(***************************************************************************)
THEOREM SpoolsAreReflected == Spec => []SpoolIsPending
<1>1. Init => SpoolIsPending
  BY DEF Init, EmptySpool, SpoolIsPending
<1> QED BY <1>1, SpoolStep, TypeInvariant, PTL DEF Spec

(***************************************************************************)
(* A slot is locked by a server that will unlock it, or was lost when its  *)
(* server was killed (cache_lock, cache_check_lock, cache_unlock).         *)
(***************************************************************************)
THEOREM LocksAreUsed == Spec => []LockedSlotsAreInUse
<1>1. Init => LockedSlotsAreInUse
  BY CacheFileAssumption DEF Init, NoSlots, LockedSlotsAreInUse
<1> QED BY <1>1, LockedStep, TypeInvariant, PTL DEF Spec

(***************************************************************************)
(* Where no two servers meet a slot holds the block its hash stands for,   *)
(* however many servers are killed, closed and started (cache.c, file.c).  *)
(***************************************************************************)
THEOREM BlocksAreRight == Spec => []LabelsAreRight
<1>1. Init => SlotsHeld
  BY CacheFileAssumption
  DEF Init, NoSlots, SlotsHeld, Alone, SlotIsHeld, LabelsAreRight, Reading, Writing
<1>2. SlotsHeld => LabelsAreRight
  BY DEF SlotsHeld
<1> QED BY <1>1, <1>2, LabelStep, TypeInvariant, PTL DEF Spec

(***************************************************************************)
(* A server writes under its own lock, and keeps it until the writes are   *)
(* on disk, unless it is robbed of the lock or closes the cache before its *)
(* fsync is called (lock, unlock and cf_close of file.c).                  *)
(***************************************************************************)
THEOREM WritesAreCovered == Spec => []LockCoversWrites
<1>1. Init => LockHeld
  BY CacheFileAssumption
  DEF Init, LockHeld, SyncFollows, SeenIsThere, LockIsHeld, Needs, Reflecting, Texts, Writing
<1>2. LockHeld => LockCoversWrites
  BY DEF LockHeld, SyncFollows, LockIsHeld, LockCoversWrites, Needs, Reflecting
<1> QED BY <1>1, <1>2, LockStep, TypeInvariant, PTL DEF Spec

-----------------------------------------------------------------------------
(***************************************************************************)
(* Lists of ranges stand for the bytes they should, for all offsets and    *)
(* sizes of blocks: see Ranges, which shares nothing with CacheFile.       *)
(***************************************************************************)

\* p is in r; in a range of S.
In(p, r) == r.a <= p /\ p < r.b

InSome(p, S) == \E r \in S : In(p, r)

\* r and s have no byte in common.
Off(r, s) == r.b <= s.a \/ s.b <= r.a \/ r.b <= r.a \/ s.b <= s.a

AllOff(S) == \A r, s \in S : r = s \/ Off(r, s)

\* c is not inside r.
Uncut(r, c) == ~(r.a < c /\ c < r.b)

\* What chop at c leaves of r
Piece(q, r, c) == \/ Uncut(r, c) /\ q = r
                  \/ ~Uncut(r, c) /\ q \in {Range(r.a, c), Range(c, r.b)}

(***************************************************************************)
(* Where the block of x begins, and the first block not before x           *)
(***************************************************************************)
LEMMA StartOf ==
  ASSUME NEW x \in Nat, NEW n \in Nat \ {0}
  PROVE  /\ x \div n \in Nat /\ BlockStart(x, n) \in Nat
         /\ BlockStart(x, n) <= x /\ x < BlockStart(x, n) + n
BY DEF BlockStart

LEMMA NextMultiple ==
  ASSUME NEW i \in Nat, NEW j \in Nat, NEW n \in Nat \ {0}
  PROVE  i * n < j * n => i * n + n <= j * n
<1>1. i < j => i * n + n <= j * n
  OBVIOUS
<1>2. i >= j => i * n >= j * n
  OBVIOUS
<1> QED BY <1>1, <1>2

LEMMA UpTo ==
  ASSUME NEW x \in Nat, NEW n \in Nat \ {0}
  PROVE  /\ (x + n - 1) \div n \in Nat /\ Up(x, n) \in Nat
         /\ x <= Up(x, n) /\ Up(x, n) < x + n
<1>1. x + n - 1 \in Nat
  OBVIOUS
<1>2. Up(x, n) = BlockStart(x + n - 1, n)
  BY DEF Up, BlockStart
<1> QED BY <1>1, <1>2, StartOf DEF Up

(***************************************************************************)
(* The blocks a range touches are from the block its first byte is in to   *)
(* where the block of its last byte ends.                                  *)
(***************************************************************************)
LEMMA TouchedIsRounded ==
  ASSUME NEW r \in AllRanges, NEW n \in Nat \ {0}, NEW p \in Nat
  PROVE  /\ p \in Touched(r, n) <=> BlockStart(r.a, n) <= p /\ p < Up(r.b, n)
         /\ BlockStart(r.a, n) <= Up(r.b, n)
<1> DEFINE i == p \div n  j == r.a \div n  k == (r.b + n - 1) \div n
<1>1. r.a \in Nat /\ r.b \in Nat /\ r.a <= r.b
  BY DEF AllRanges
<1>2. i \in Nat /\ j \in Nat /\ k \in Nat
  BY <1>1, StartOf, UpTo
<1>3. BlockStart(p, n) = i * n /\ BlockStart(r.a, n) = j * n /\ Up(r.b, n) = k * n
  BY DEF BlockStart, Up
<1>4. /\ i * n \in Nat /\ i * n <= p /\ p < i * n + n
      /\ j * n \in Nat /\ j * n <= r.a /\ r.a < j * n + n
      /\ k * n \in Nat /\ r.b <= k * n /\ k * n < r.b + n
  BY <1>1, <1>3, StartOf, UpTo
<1>5. i * n < j * n => i * n + n <= j * n
  BY <1>2, NextMultiple
<1>6. i * n < k * n => i * n + n <= k * n
  BY <1>2, NextMultiple
<1>7. k * n < j * n => k * n + n <= j * n
  BY <1>2, NextMultiple
<1>71. k * n < i * n => k * n + n <= i * n
  BY <1>2, NextMultiple
<1>8. BlockStart(r.a, n) <= p <=> r.a < BlockStart(p, n) + n
  <2> HIDE DEF i, j, k
  <2>1. j * n < i * n => j * n + n <= i * n
    BY <1>2, NextMultiple
  <2> QED BY <1>1, <1>3, <1>4, <1>5, <2>1
<1>9. p < Up(r.b, n) <=> BlockStart(p, n) < r.b
  <2> HIDE DEF i, j, k
  <2> QED BY <1>1, <1>3, <1>4, <1>6, <1>71
<1>10. BlockStart(r.a, n) <= Up(r.b, n)
  <2> HIDE DEF i, j, k
  <2> QED BY <1>1, <1>3, <1>4
<1>11. p \in Touched(r, n) <=> BlockStart(p, n) < r.b /\ r.a < BlockStart(p, n) + n
  <2>1. BlockStart(p, n) < r.b => p \in 0..(r.b + n)
    BY <1>1, StartOf
  <2> QED BY <2>1 DEF Touched
<1> QED BY <1>8, <1>9, <1>10, <1>11

(***************************************************************************)
(* The blocks that a range contains are from the first one that begins in  *)
(* it to where the last begins that does not.                              *)
(***************************************************************************)
LEMMA ContainedIsRounded ==
  ASSUME NEW r \in AllRanges, NEW n \in Nat \ {0}, NEW p \in Nat
  PROVE  p \in Contained(r, n) <=> Up(r.a, n) <= p /\ p < BlockStart(r.b, n)
<1> DEFINE i == p \div n  j == (r.a + n - 1) \div n  k == r.b \div n
<1>1. r.a \in Nat /\ r.b \in Nat /\ r.a <= r.b
  BY DEF AllRanges
<1>2. i \in Nat /\ j \in Nat /\ k \in Nat
  BY <1>1, StartOf, UpTo
<1>3. BlockStart(p, n) = i * n /\ Up(r.a, n) = j * n /\ BlockStart(r.b, n) = k * n
  BY DEF BlockStart, Up
<1>4. /\ i * n \in Nat /\ i * n <= p /\ p < i * n + n
      /\ j * n \in Nat /\ r.a <= j * n /\ j * n < r.a + n
      /\ k * n \in Nat /\ k * n <= r.b /\ r.b < k * n + n
  BY <1>1, <1>3, StartOf, UpTo
<1>5. i * n < j * n => i * n + n <= j * n
  BY <1>2, NextMultiple
<1>6. i * n < k * n => i * n + n <= k * n
  BY <1>2, NextMultiple
<1>7. k * n < i * n => k * n + n <= i * n
  BY <1>2, NextMultiple
<1>8. Up(r.a, n) <= p <=> r.a <= BlockStart(p, n)
  <2> HIDE DEF i, j, k
  <2> QED BY <1>1, <1>3, <1>4, <1>5
<1>9. p < BlockStart(r.b, n) <=> BlockStart(p, n) + n <= r.b
  <2> HIDE DEF i, j, k
  <2> QED BY <1>1, <1>3, <1>4, <1>6, <1>7
<1>10. p \in Contained(r, n) <=> r.a <= BlockStart(p, n) /\ BlockStart(p, n) + n <= r.b
  <2>1. BlockStart(p, n) \in Nat /\ BlockStart(p, n) <= p /\ p < BlockStart(p, n) + n
    BY StartOf
  <2> QED BY <1>1, <2>1 DEF Contained, Bytes
<1> QED BY <1>8, <1>9, <1>10

(***************************************************************************)
(* chop leaves the bytes of a list as they are, no two ranges with a byte  *)
(* in common, and none with c inside.                                      *)
(***************************************************************************)
LEMMA ChopKeeps ==
  ASSUME NEW S \in SUBSET AllRanges, NEW c \in Nat, AllOff(S)
  PROVE  /\ Chop(S, c) \subseteq AllRanges
         /\ AllOff(Chop(S, c))
         /\ \A p \in Nat : InSome(p, Chop(S, c)) <=> InSome(p, S)
         /\ \A r \in Chop(S, c) : Uncut(r, c)
         /\ \A d \in Nat : (\A r \in S : Uncut(r, d)) => \A r \in Chop(S, c) : Uncut(r, d)
<1> DEFINE C == Chop(S, c)
<1>1. \A r \in S : r.a \in Nat /\ r.b \in Nat /\ r.a <= r.b /\ r = Range(r.a, r.b)
  BY DEF AllRanges, Range
<1>2. \A q \in C : \E r \in S : Piece(q, r, c)
  BY DEF Chop, Uncut, Piece
<1>3. \A r \in S : IF Uncut(r, c) THEN r \in C
                  ELSE Range(r.a, c) \in C /\ Range(c, r.b) \in C
  BY DEF Chop, Uncut
<1>4. C \subseteq AllRanges
  BY <1>1, <1>2 DEF AllRanges, Range, Uncut, Piece
<1>5. AllOff(C)
  <2> SUFFICES ASSUME NEW q \in C, NEW t \in C, q # t PROVE Off(q, t)
    BY DEF AllOff
  <2>1. PICK r \in S : Piece(q, r, c)
    BY <1>2
  <2>2. PICK s \in S : Piece(t, s, c)
    BY <1>2
  <2>3. r = s \/ Off(r, s)
    BY DEF AllOff
  <2>4. r.a <= q.a /\ q.b <= r.b /\ s.a <= t.a /\ t.b <= s.b
    BY <1>1, <2>1, <2>2 DEF Range, Uncut, Piece
  <2>5. /\ q.a \in Nat /\ q.b \in Nat /\ t.a \in Nat /\ t.b \in Nat
        /\ r.a \in Nat /\ r.b \in Nat /\ s.a \in Nat /\ s.b \in Nat
    BY <1>1, <1>4 DEF AllRanges
  <2>6. CASE r # s
    BY <2>3, <2>4, <2>5, <2>6 DEF Off
  <2>7. CASE r = s
    BY <2>1, <2>2, <2>5, <2>7 DEF Off, Range, Piece
  <2> QED BY <2>6, <2>7
<1>6. ASSUME NEW p \in Nat PROVE InSome(p, C) <=> InSome(p, S)
  <2>1. ASSUME InSome(p, C) PROVE InSome(p, S)
    BY <1>1, <1>2, <2>1 DEF InSome, In, Range, Uncut, Piece
  <2>2. ASSUME NEW r \in S, In(p, r) PROVE InSome(p, C)
    <3>1. CASE Uncut(r, c)
      BY <1>3, <2>2, <3>1 DEF InSome
    <3>2. CASE ~Uncut(r, c)
      <4>1. Range(r.a, c) \in C /\ Range(c, r.b) \in C
        BY <1>3, <3>2
      <4>2. In(p, Range(r.a, c)) \/ In(p, Range(c, r.b))
        BY <1>1, <2>2 DEF In, Range
      <4> QED BY <4>1, <4>2 DEF InSome
    <3> QED BY <3>1, <3>2
  <2> QED BY <2>1, <2>2 DEF InSome
<1>7. \A q \in C : Uncut(q, c)
  BY <1>1, <1>2 DEF Uncut, Range, Piece
<1>8. ASSUME NEW d \in Nat, \A r \in S : Uncut(r, d), NEW q \in C PROVE Uncut(q, d)
  BY <1>1, <1>2, <1>8 DEF Uncut, Range, Piece
<1> QED BY <1>4, <1>5, <1>6, <1>7, <1>8

LEMMA CoveredIsIn ==
  ASSUME NEW S \in SUBSET AllRanges
  PROVE  Covered(S) \subseteq Nat /\ \A p \in Nat : p \in Covered(S) <=> InSome(p, S)
<1>1. \A r \in S : r.a \in Nat /\ r.b \in Nat
  BY DEF AllRanges
<1>2. ASSUME NEW r \in S, NEW p \in Bytes(r) PROVE p \in Nat /\ In(p, r)
  BY <1>1 DEF Bytes, In
<1>3. ASSUME NEW r \in S, NEW p \in Nat, In(p, r) PROVE p \in Bytes(r)
  BY <1>1, <1>3 DEF Bytes, In
<1> QED BY <1>2, <1>3 DEF Covered, InSome

LEMMA GivenIsRanges == ASSUME NEW S \in Given PROVE S \in SUBSET AllRanges
BY RangesAssumption DEF Given, AllRanges

-----------------------------------------------------------------------------
\* What the loop under way has yet to put in place, and what it will give
Held(p) == InSome(p, list) \/ InSome(p, kept)

Mine(p) == first <= p /\ p < last

Now(p) == IF fn = "add" THEN Held(p) \/ Mine(p)
          ELSE IF fn = "remove" THEN Held(p) /\ ~Mine(p)
          ELSE InSome(p, list)

\* What a range still to be taken is for
For(p, r) == IF call = "expand" THEN p \in Touched(r, size)
             ELSE IF call = "reduce" THEN p \in Contained(r, size)
             ELSE In(p, r)

ToCome(p) == \E r \in todo : For(p, r)

Promise == \A p \in Nat :
             p \in bytes <=> IF call = "difference" THEN Now(p) /\ ~ToCome(p)
                            ELSE Now(p) \/ ToCome(p)

Loop == /\ fn = "none" => kept = {}
        /\ fn = "add" => call # "difference"
        /\ fn = "remove" => call = "difference"
        /\ AllOff(list \cup kept) /\ list \cap kept = {}
        /\ fn # "none" => \A r \in kept : Off(r, Range(first, last))
        /\ fn = "remove" => \A r \in list : Uncut(r, first) /\ Uncut(r, last)

IInv == RangesTypeOK /\ Loop /\ Promise

LEMMA Start0 == RangesInit => IInv
BY DEF RangesInit, IInv, RangesTypeOK, Loop, Promise, AllOff, Now, ToCome, InSome, AllRanges

(***************************************************************************)
(* A call begins with its promise for the ranges it has still to take.     *)
(***************************************************************************)
LEMMA CallStep ==
  ASSUME IInv, NEW what, NEW T \in SUBSET AllRanges, NEW L \in SUBSET AllRanges,
         NEW n \in Nat \ {0}, NEW B \in SUBSET Nat,
         what \in {"merge", "difference", "expand", "reduce"},
         Call(what, T, L, n, B), AllOff(L),
         \A p \in Nat :
           p \in B <=> IF what = "difference" THEN InSome(p, L) /\ ~InSome(p, T)
                      ELSE InSome(p, L) \/ \E r \in T :
                             IF what = "expand" THEN p \in Touched(r, n)
                             ELSE IF what = "reduce" THEN p \in Contained(r, n)
                             ELSE In(p, r)
  PROVE  IInv'
<1>1. /\ fn = "none" /\ fn' = "none" /\ kept = {} /\ kept' = {} /\ call' = what
      /\ todo' = T /\ list' = L /\ size' = n /\ bytes' = B /\ first' = first /\ last' = last
  BY DEF Call, Ready, IInv, Loop
<1>2. RangesTypeOK'
  BY <1>1 DEF IInv, RangesTypeOK
<1>3. Loop'
  BY <1>1 DEF Loop
<1>4. Promise'
  BY <1>1 DEF Promise, Now, ToCome, For, InSome
<1> QED BY <1>2, <1>3, <1>4 DEF IInv

(***************************************************************************)
(* A range that is taken passes from what is to come to the loop.          *)
(***************************************************************************)
LEMMA TakeStep == ASSUME IInv, NEW r \in todo, Take(r) PROVE IInv'
<1>1. /\ fn = "none" /\ kept = {} /\ todo' = todo \ {r}
      /\ UNCHANGED <<call, size, bytes, kept>>
  BY DEF Take, Add, Remove, IInv, Loop
<1>2. /\ r \in AllRanges /\ r.a \in Nat /\ r.b \in Nat /\ r.a <= r.b
      /\ size \in Nat \ {0} /\ todo' \subseteq AllRanges
      /\ list \subseteq AllRanges /\ AllOff(list)
  BY <1>1 DEF IInv, RangesTypeOK, Loop, AllRanges
<1>3. \A p \in Nat : ToCome(p) <=> ToCome(p)' \/ For(p, r)
  BY <1>1 DEF ToCome, For
<1>4. \A p \in Nat : p \in bytes' <=> IF call = "difference"
                                     THEN InSome(p, list) /\ ~(ToCome(p)' \/ For(p, r))
                                     ELSE InSome(p, list) \/ ToCome(p)' \/ For(p, r)
  BY <1>1, <1>3 DEF IInv, Promise, Now
<1>5. ASSUME NEW x \in Nat, NEW y \in Nat, x <= y, call # "difference", Add(x, y),
             \A p \in Nat : For(p, r) <=> x <= p /\ p < y
      PROVE  IInv'
  <2>1. fn' = "add" /\ first' = x /\ last' = y /\ list' = list
    BY <1>5 DEF Add
  <2>2. RangesTypeOK'
    BY <1>1, <1>2, <1>5, <2>1 DEF IInv, RangesTypeOK
  <2>3. Loop'
    BY <1>1, <1>2, <1>5, <2>1 DEF Loop, AllOff
  <2>4. \A p \in Nat : Now(p)' <=> InSome(p, list) \/ For(p, r)
    BY <1>1, <1>5, <2>1 DEF Now, Held, Mine, InSome
  <2>5. Promise'
    BY <1>1, <1>4, <1>5, <2>4 DEF Promise
  <2> QED BY <2>2, <2>3, <2>5 DEF IInv
<1>6. CASE call = "merge" /\ Add(r.a, r.b)
  BY <1>2, <1>5, <1>6 DEF For, In
<1>7. CASE call = "expand" /\ Add(BlockStart(r.a, size), Up(r.b, size))
  <2>1. /\ BlockStart(r.a, size) \in Nat /\ Up(r.b, size) \in Nat
        /\ BlockStart(r.a, size) <= Up(r.b, size)
    BY <1>2, StartOf, UpTo, TouchedIsRounded
  <2>2. \A p \in Nat : For(p, r) <=> BlockStart(r.a, size) <= p /\ p < Up(r.b, size)
    BY <1>2, <1>7, TouchedIsRounded DEF For
  <2> QED BY <1>5, <1>7, <2>1, <2>2
<1>8. CASE call = "reduce"
  <2>1. BlockStart(r.b, size) \in Nat /\ Up(r.a, size) \in Nat
    BY <1>2, StartOf, UpTo
  <2>2. \A p \in Nat : For(p, r) <=> Up(r.a, size) <= p /\ p < BlockStart(r.b, size)
    BY <1>2, <1>8, ContainedIsRounded DEF For
  <2>3. CASE BlockStart(r.b, size) > Up(r.a, size) /\ Add(Up(r.a, size), BlockStart(r.b, size))
    BY <1>5, <1>8, <2>1, <2>2, <2>3
  <2>4. CASE BlockStart(r.b, size) <= Up(r.a, size) /\ UNCHANGED <<fn, first, last, list, kept>>
    <3>1. \A p \in Nat : ~For(p, r)
      BY <2>1, <2>2, <2>4
    <3>2. RangesTypeOK' /\ Loop'
      BY <1>1, <1>2, <2>4 DEF IInv, RangesTypeOK, Loop
    <3>3. \A p \in Nat : Now(p)' <=> InSome(p, list)
      BY <1>1, <2>4 DEF Now
    <3>4. Promise'
      BY <1>1, <1>4, <1>8, <3>1, <3>3 DEF Promise
    <3> QED BY <3>2, <3>4 DEF IInv
  <2> QED BY <1>8, <2>3, <2>4 DEF Take
<1>9. CASE call = "difference" /\ Remove(r.a, r.b)
  <2> DEFINE C == Chop(list, r.a)  D == Chop(C, r.b)
  <2>1. fn' = "remove" /\ first' = r.a /\ last' = r.b /\ list' = D
    BY <1>9 DEF Remove
  <2>2. /\ C \subseteq AllRanges /\ AllOff(C)
        /\ \A p \in Nat : InSome(p, C) <=> InSome(p, list)
        /\ \A q \in C : Uncut(q, r.a)
    BY <1>2, ChopKeeps
  <2>3. /\ D \subseteq AllRanges /\ AllOff(D)
        /\ \A p \in Nat : InSome(p, D) <=> InSome(p, C)
        /\ \A q \in D : Uncut(q, r.a) /\ Uncut(q, r.b)
    <3> HIDE DEF C
    <3> QED BY <1>2, <2>2, ChopKeeps
  <2> HIDE DEF C, D
  <2>4. RangesTypeOK'
    BY <1>1, <1>2, <2>1, <2>3 DEF IInv, RangesTypeOK
  <2>5. Loop'
    BY <1>1, <1>9, <2>1, <2>3 DEF Loop, AllOff
  <2>6. \A p \in Nat : Now(p)' <=> InSome(p, list) /\ ~For(p, r)
    BY <1>1, <1>9, <2>1, <2>2, <2>3 DEF Now, Held, Mine, InSome, For, In
  <2>7. Promise'
    BY <1>1, <1>4, <1>9, <2>6 DEF Promise
  <2> QED BY <2>4, <2>5, <2>7 DEF IInv
<1> QED BY <1>6, <1>7, <1>8, <1>9 DEF Take

(***************************************************************************)
(* Each iteration of a loop moves one range, or joins it to its own.       *)
(***************************************************************************)
LEMMA LoopStep == ASSUME IInv, NEW r \in list, Step(r) PROVE IInv'
<1>1. /\ UNCHANGED <<fn, todo, call, size, bytes>> /\ list' = list \ {r}
      /\ \A p \in Nat : ToCome(p)' <=> ToCome(p)
  BY DEF Step, SetAside, Unify, Spare, Free, ToCome, For
<1>2. /\ list \cup kept \subseteq AllRanges /\ r \in AllRanges /\ first \in Nat /\ last \in Nat /\ first <= last
      /\ \A q \in list \cup kept : q.a \in Nat /\ q.b \in Nat /\ q.a <= q.b
  BY DEF IInv, RangesTypeOK, AllRanges
<1>3. \A p \in Nat : Held(p) <=> InSome(p, list') \/ InSome(p, kept) \/ In(p, r)
  BY <1>1 DEF Held, InSome
<1>4. SUFFICES /\ RangesTypeOK' /\ Loop'
               /\ \A p \in Nat : Now(p)' <=> Now(p)
  BY <1>1 DEF IInv, Promise
<1>5. CASE SetAside(r)
  <2>1. fn = "add" /\ Apart(r) /\ kept' = kept \cup {r} /\ UNCHANGED <<first, last>>
    BY <1>5 DEF SetAside
  <2>2. Off(r, Range(first, last))
    BY <1>2, <2>1 DEF Apart, Off, Range
  <2>3. RangesTypeOK' /\ Loop'
    BY <1>1, <1>2, <2>1, <2>2 DEF IInv, RangesTypeOK, Loop, AllOff
  <2>4. \A p \in Nat : Now(p)' <=> Now(p)
    BY <1>1, <1>3, <2>1 DEF Now, Held, Mine, InSome
  <2> QED BY <2>3, <2>4
<1>6. CASE Unify(r)
  <2>1. /\ fn = "add" /\ ~Apart(r) /\ kept' = kept
        /\ first' = IF r.a < first THEN r.a ELSE first
        /\ last' = IF r.b > last THEN r.b ELSE last
    BY <1>6 DEF Unify
  <2>2. RangesTypeOK'
    BY <1>1, <1>2, <2>1 DEF IInv, RangesTypeOK
  <2>3. ASSUME NEW q \in kept PROVE Off(q, Range(first', last'))
    <3>1. Off(q, Range(first, last)) /\ Off(q, r)
      BY <2>1 DEF IInv, Loop, AllOff
    <3> QED BY <1>2, <2>1, <3>1 DEF Off, Range, Apart
  <2>4. Loop'
    BY <1>1, <2>1, <2>3 DEF IInv, Loop, AllOff
  <2>5. \A p \in Nat : Mine(p)' <=> Mine(p) \/ In(p, r)
    BY <1>2, <2>1 DEF Mine, In, Apart
  <2>6. \A p \in Nat : Now(p)' <=> Now(p)
    BY <1>1, <1>3, <2>1, <2>5 DEF Now, Held
  <2> QED BY <2>2, <2>4, <2>6
<1>7. CASE Spare(r)
  <2>1. fn = "remove" /\ (first >= r.b \/ last <= r.a) /\ kept' = kept \cup {r} /\ UNCHANGED <<first, last>>
    BY <1>7 DEF Spare
  <2>2. Off(r, Range(first, last))
    BY <1>2, <2>1 DEF Off, Range
  <2>3. RangesTypeOK' /\ Loop'
    BY <1>1, <1>2, <2>1, <2>2 DEF IInv, RangesTypeOK, Loop, AllOff
  <2>4. \A p \in Nat : Now(p)' <=> Now(p)
    BY <1>1, <1>3, <2>1 DEF Now, Held, Mine, InSome
  <2> QED BY <2>3, <2>4
<1>8. CASE Free(r)
  <2>1. fn = "remove" /\ ~(first >= r.b \/ last <= r.a) /\ kept' = kept /\ UNCHANGED <<first, last>>
    BY <1>8 DEF Free
  <2>2. Uncut(r, first) /\ Uncut(r, last)
    BY <2>1 DEF IInv, Loop
  <2>3. RangesTypeOK' /\ Loop'
    BY <1>1, <1>2, <2>1 DEF IInv, RangesTypeOK, Loop, AllOff
  <2>4. \A p \in Nat : In(p, r) => Mine(p)
    BY <1>2, <2>1, <2>2 DEF In, Mine, Uncut
  <2>5. \A p \in Nat : Now(p)' <=> Now(p)
    BY <1>1, <1>3, <2>1, <2>4 DEF Now, Held, Mine
  <2> QED BY <2>3, <2>5
<1> QED BY <1>5, <1>6, <1>7, <1>8 DEF Step

LEMMA ReturnStep == ASSUME IInv, Return PROVE IInv'
<1>1. /\ fn # "none" /\ list = {} /\ kept' = {} /\ fn' = "none" /\ first' = 0 /\ last' = 0
      /\ list' = IF fn = "add" THEN kept \cup {Range(first, last)} ELSE kept
      /\ UNCHANGED <<todo, call, size, bytes>>
  BY DEF Return
<1>2. Range(first, last) \in AllRanges
  BY DEF IInv, RangesTypeOK, AllRanges, Range
<1>3. RangesTypeOK'
  BY <1>1, <1>2 DEF IInv, RangesTypeOK
<1>4. \A q \in kept : Off(q, Range(first, last)) /\ Off(Range(first, last), q)
  BY <1>1 DEF IInv, Loop, Off
<1>5. Loop'
  BY <1>1, <1>4 DEF IInv, Loop, AllOff
<1>6. \A p \in Nat : ToCome(p)' <=> ToCome(p)
  BY <1>1 DEF ToCome, For
<1>7. \A p \in Nat : Now(p)' <=> Now(p)
  <2>1. CASE fn = "add"
    <3>1. \A p \in Nat : In(p, Range(first, last)) <=> Mine(p)
      BY DEF In, Range, Mine
    <3> QED BY <1>1, <2>1, <3>1 DEF Now, Held, InSome
  <2>2. CASE fn = "remove"
    <3>1. \A q \in kept : \A p \in Nat : In(p, q) => ~Mine(p)
      <4> SUFFICES ASSUME NEW q \in kept, NEW p \in Nat, In(p, q) PROVE ~Mine(p)
        OBVIOUS
      <4>1. Off(q, Range(first, last)) /\ q \in AllRanges /\ first \in Nat /\ last \in Nat
        BY <1>1 DEF IInv, Loop, RangesTypeOK
      <4> QED BY <4>1 DEF Off, Range, In, Mine, AllRanges
    <3> QED BY <1>1, <2>2, <3>1 DEF Now, Held, InSome
  <2> QED BY <1>1, <2>1, <2>2 DEF IInv, RangesTypeOK
<1>8. Promise'
  BY <1>1, <1>6, <1>7 DEF IInv, Promise
<1> QED BY <1>3, <1>5, <1>8 DEF IInv

LEMMA Inductive == IInv /\ [RangesNext]_rangeVars => IInv'
<1> SUFFICES ASSUME IInv, [RangesNext]_rangeVars PROVE IInv'
  OBVIOUS
<1>1. /\ list \in SUBSET AllRanges /\ AllOff(list) /\ bytes \in SUBSET Nat
      /\ AllOff({}) /\ 1 \in Nat \ {0}
  BY DEF IInv, RangesTypeOK, Loop, AllOff
<1>2. Ready => \A p \in Nat : p \in bytes <=> InSome(p, list)
  BY DEF Ready, IInv, Promise, Now, ToCome
<1>3. ASSUME NEW S \in Given, Merge(S) \/ Copy(S) \/ Difference(S) PROVE IInv'
  <2>1. S \in SUBSET AllRanges
    BY GivenIsRanges
  <2>2. Covered(S) \subseteq Nat /\ \A p \in Nat : p \in Covered(S) <=> InSome(p, S)
    BY <2>1, CoveredIsIn
  <2>3. Ready
    BY <1>3 DEF Merge, Copy, Difference, Call
  <2>4. CASE Merge(S)
    <3>1. bytes \cup Covered(S) \in SUBSET Nat
      BY <1>1, <2>2
    <3>2. \A p \in Nat : p \in bytes \cup Covered(S) <=> InSome(p, list) \/ \E r \in S : In(p, r)
      BY <1>2, <2>2, <2>3 DEF InSome
    <3>3. Call("merge", S, list, 1, bytes \cup Covered(S))
      BY <2>4 DEF Merge
    <3> QED BY <1>1, <2>1, <3>1, <3>2, <3>3, CallStep
  <2>5. CASE Copy(S)
    <3>1. \A p \in Nat : p \in Covered(S) <=> InSome(p, {}) \/ \E r \in S : In(p, r)
      BY <2>2 DEF InSome
    <3>2. Call("merge", S, {}, 1, Covered(S))
      BY <2>5 DEF Copy
    <3> QED BY <1>1, <2>1, <2>2, <3>1, <3>2, CallStep
  <2>6. CASE Difference(S)
    <3>1. bytes \ Covered(S) \in SUBSET Nat
      BY <1>1
    <3>2. \A p \in Nat : p \in bytes \ Covered(S) <=> InSome(p, list) /\ ~InSome(p, S)
      BY <1>2, <2>2, <2>3
    <3>3. Call("difference", S, list, 1, bytes \ Covered(S))
      BY <2>6 DEF Difference
    <3> QED BY <1>1, <2>1, <3>1, <3>2, <3>3, CallStep
  <2> QED BY <1>3, <2>4, <2>5, <2>6
<1>4. ASSUME NEW n \in Sizes, Expand(n) \/ Reduce(n) PROVE IInv'
  <2> DEFINE T == UNION {Touched(r, n) : r \in list}
             C == UNION {Contained(r, n) : r \in list}
  <2>1. n \in Nat \ {0}
    BY RangesAssumption
  <2>2. CASE Expand(n)
    <3>1. T \in SUBSET Nat
      BY <1>1, <2>1 DEF Touched, AllRanges
    <3>2. \A p \in Nat : p \in T <=> InSome(p, {}) \/ \E r \in list : p \in Touched(r, n)
      BY DEF InSome
    <3>3. Call("expand", list, {}, n, T)
      BY <2>2 DEF Expand
    <3> HIDE DEF T
    <3> QED BY <1>1, <2>1, <3>1, <3>2, <3>3, CallStep
  <2>3. CASE Reduce(n)
    <3>1. C \in SUBSET Nat
      BY <1>1, <2>1 DEF Contained, Bytes, AllRanges
    <3>2. \A p \in Nat : p \in C <=> InSome(p, {}) \/ \E r \in list : p \in Contained(r, n)
      BY DEF InSome
    <3>3. Call("reduce", list, {}, n, C)
      BY <2>3 DEF Reduce
    <3> HIDE DEF C
    <3> QED BY <1>1, <2>1, <3>1, <3>2, <3>3, CallStep
  <2> QED BY <1>4, <2>2, <2>3
<1>5. ASSUME NEW r \in todo, Take(r) PROVE IInv'
  BY <1>5, TakeStep
<1>6. ASSUME NEW r \in list, Step(r) PROVE IInv'
  BY <1>6, LoopStep
<1>7. CASE Return
  BY <1>7, ReturnStep
<1>8. CASE UNCHANGED rangeVars
  BY <1>8 DEF rangeVars, IInv, RangesTypeOK, Loop, Promise, AllOff, Now, Held, Mine, ToCome, For, InSome
<1> QED BY <1>3, <1>4, <1>5, <1>6, <1>7, <1>8 DEF RangesNext

(***************************************************************************)
(* After each call a list of ranges stands for the bytes the call is for,  *)
(* and for each of them once (ranges.c).                                   *)
(***************************************************************************)
THEOREM ListsAreFaithful == RangesSpec => []Faithful
<1>1. IInv => Faithful
  <2> SUFFICES ASSUME IInv, fn = "none"
               PROVE  /\ todo = {} => Covered(list) = bytes
                      /\ \A r, s \in list : r = s \/ Bytes(r) \cap Bytes(s) = {}
    BY DEF Faithful, Meaning, Disjoint, Ready
  <2>1. list \in SUBSET AllRanges /\ bytes \subseteq Nat
    BY DEF IInv, RangesTypeOK
  <2>2. todo = {} => \A p \in Nat : p \in bytes <=> InSome(p, list)
    BY DEF IInv, Promise, Now, ToCome
  <2>3. todo = {} => Covered(list) = bytes
    BY <2>1, <2>2, CoveredIsIn
  <2>4. ASSUME NEW r \in list, NEW s \in list, r # s PROVE Bytes(r) \cap Bytes(s) = {}
    <3>1. Off(r, s)
      BY <2>4 DEF IInv, Loop, AllOff
    <3> QED BY <2>1, <3>1 DEF Off, Bytes, AllRanges
  <2> QED BY <2>3, <2>4
<1> QED BY <1>1, Start0, Inductive, PTL DEF RangesSpec
=============================================================================
