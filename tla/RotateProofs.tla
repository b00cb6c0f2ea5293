---------------------------- MODULE RotateProofs ----------------------------
(***************************************************************************)
(* The invariants of log rotation, for any number of rotations, lines,     *)
(* crashes and failures.                                                   *)
(***************************************************************************)
EXTENDS Rotate, FiniteSetTheorems, SequenceTheorems, TLAPS

WQP == INSTANCE WorkQueueProofs WITH
         Workers <- {Worker}, Items <- Jobs, NoItem <- None, ChecksFlag <- TRUE,
         queue <- jobs

LEMMA QueueConstants == None \notin Jobs /\ TRUE \in BOOLEAN
BY NoneAssumption

-----------------------------------------------------------------------------
(* Names *)

AnyName == [n : Int, ext : Seq({"gz", "tmp"})]

\* The names there may be after k rotations
Upto(k) == {a \in AnyName : /\ a.n \in -1..(k - 1) /\ Len(a.ext) <= 2 * k
                            /\ a.n = -1 => a = Log}

LEMMA ExtsAre == Exts = {x \in Seq({"gz", "tmp"}) : Len(x) <= 2 * MaxRotations}
<1>1. MaxRotations \in Nat
  BY BoundsAssumption
<1>2. ASSUME NEW x \in Exts PROVE x \in Seq({"gz", "tmp"}) /\ Len(x) <= 2 * MaxRotations
  <2>1. PICK k \in 0..(2 * MaxRotations) : x \in [1..k -> {"gz", "tmp"}]
    BY DEF Exts
  <2>2. k \in Nat /\ x \in Seq({"gz", "tmp"})
    BY <1>1, <2>1, SeqDef
  <2>3. Len(x) = k
    BY <2>1, <2>2
  <2> QED BY <1>1, <2>1, <2>2, <2>3
<1>3. ASSUME NEW x \in Seq({"gz", "tmp"}), Len(x) <= 2 * MaxRotations PROVE x \in Exts
  <2>1. Len(x) \in 0..(2 * MaxRotations) /\ x \in [1..Len(x) -> {"gz", "tmp"}]
    BY <1>1, <1>3, LenProperties
  <2> QED BY <2>1 DEF Exts
<1> QED BY <1>2, <1>3

LEMMA NamesAre ==
  Names = {a \in AnyName : a.n \in -1..MaxRotations /\ Len(a.ext) <= 2 * MaxRotations}
<1>1. MaxRotations \in Nat
  BY BoundsAssumption
<1>2. ASSUME NEW a \in Names
      PROVE  a \in AnyName /\ a.n \in -1..MaxRotations /\ Len(a.ext) <= 2 * MaxRotations
  <2>1. a = [n |-> a.n, ext |-> a.ext] /\ a.n \in -1..MaxRotations /\ a.ext \in Exts
    BY DEF Names
  <2> QED BY <1>1, <2>1, ExtsAre DEF AnyName
<1>3. ASSUME NEW a \in AnyName, a.n \in -1..MaxRotations, Len(a.ext) <= 2 * MaxRotations
      PROVE  a \in Names
  <2>1. a = [n |-> a.n, ext |-> a.ext] /\ a.ext \in Exts
    BY <1>3, ExtsAre DEF AnyName
  <2> QED BY <1>3, <2>1 DEF Names
<1> QED BY <1>2, <1>3

(***************************************************************************)
(* The new name of a file, and those the compressor makes of it, are other *)
(* names; what it makes of a name that is not an archive is not one.       *)
(***************************************************************************)
LEMMA NamesApart ==
  ASSUME NEW a \in AnyName
  PROVE  /\ NewName(a) \in AnyName /\ NewName(a).n = a.n + 1 /\ NewName(a).ext = a.ext
         /\ Tmp(a) \in AnyName /\ Tmp(a).n = a.n /\ Len(Tmp(a).ext) = Len(a.ext) + 2
         /\ Done(a) \in AnyName /\ Done(a).n = a.n /\ Len(Done(a).ext) = Len(a.ext) + 1
         /\ Tmp(a) # a /\ Done(a) # a /\ Tmp(a) # Done(a)
         /\ ~IsArchive(Tmp(a)) /\ Tmp(a).ext # <<>>
         /\ Done(a).ext # <<>>
         /\ IsArchive(NewName(a)) <=> IsArchive(a)
         /\ ~EndsInGz(a) => (IsArchive(a) <=> a.ext = <<>>) /\ (IsArchive(Done(a)) <=> IsArchive(a))
<1>1. a.ext \in Seq({"gz", "tmp"}) /\ Len(a.ext) \in Nat
  BY DEF AnyName
<1>2. NewName(a) \in AnyName /\ NewName(a).n = a.n + 1 /\ NewName(a).ext = a.ext
  BY DEF NewName, AnyName
<1>3. /\ a.ext \o <<"gz", "tmp">> \in Seq({"gz", "tmp"})
      /\ Len(a.ext \o <<"gz", "tmp">>) = Len(a.ext) + 2
      /\ a.ext \o <<"gz">> \in Seq({"gz", "tmp"})
      /\ Len(a.ext \o <<"gz">>) = Len(a.ext) + 1
      /\ a.ext = <<>> => a.ext \o <<"gz">> = <<"gz">>
  <2>1. <<"gz", "tmp">> \in Seq({"gz", "tmp"}) /\ <<"gz">> \in Seq({"gz", "tmp"})
    OBVIOUS
  <2>2. Len(<<"gz", "tmp">>) = 2 /\ Len(<<"gz">>) = 1
    OBVIOUS
  <2>3. /\ a.ext \o <<"gz", "tmp">> \in Seq({"gz", "tmp"})
        /\ Len(a.ext \o <<"gz", "tmp">>) = Len(a.ext) + Len(<<"gz", "tmp">>)
    BY <1>1, <2>1, ConcatProperties
  <2>4. /\ a.ext \o <<"gz">> \in Seq({"gz", "tmp"})
        /\ Len(a.ext \o <<"gz">>) = Len(a.ext) + Len(<<"gz">>)
    BY <1>1, <2>1, ConcatProperties
  <2>5. <<>> \o <<"gz">> = <<"gz">>
    BY <2>1, ConcatEmptySeq
  <2> QED BY <2>2, <2>3, <2>4, <2>5
<1>4. /\ Tmp(a) \in AnyName /\ Tmp(a).n = a.n /\ Tmp(a).ext = a.ext \o <<"gz", "tmp">>
      /\ Done(a) \in AnyName /\ Done(a).n = a.n /\ Done(a).ext = a.ext \o <<"gz">>
  BY <1>3 DEF Tmp, Done, AnyName
<1>5. Len(<<>>) = 0 /\ Len(<<"gz">>) = 1
  OBVIOUS
<1>6. ~IsArchive(Tmp(a)) /\ Tmp(a).ext # <<>> /\ Done(a).ext # <<>>
      /\ Tmp(a) # a /\ Done(a) # a /\ Tmp(a) # Done(a)
  <2>1. Len(Tmp(a).ext) = Len(a.ext) + 2 /\ Len(Done(a).ext) = Len(a.ext) + 1
    BY <1>3, <1>4
  <2>2. Len(Tmp(a).ext) \notin {0, 1, Len(a.ext), Len(Done(a).ext)} /\ Len(Done(a).ext) \notin {0, Len(a.ext)}
    BY <1>1, <2>1
  <2>3. Tmp(a).ext \notin {<<>>, <<"gz">>} /\ Done(a).ext # <<>>
    BY <1>5, <2>2
  <2>4. Tmp(a) # a /\ Done(a) # a /\ Tmp(a) # Done(a)
    BY <2>2
  <2> QED BY <2>3, <2>4 DEF IsArchive
<1>7. ASSUME ~EndsInGz(a)
      PROVE  (IsArchive(a) <=> a.ext = <<>>) /\ (IsArchive(Done(a)) <=> IsArchive(a))
  <2>1. IsArchive(a) <=> a.ext = <<>>
    BY <1>7 DEF EndsInGz, IsArchive
  <2>2. IsArchive(Done(a)) => Len(a.ext) = 0
    <3>1. Len(Done(a).ext) = Len(a.ext) + 1
      BY <1>3, <1>4
    <3>2. IsArchive(Done(a)) => Len(Done(a).ext) \in {0, 1}
      BY <1>5 DEF IsArchive
    <3> QED BY <1>1, <3>1, <3>2
  <2>3. Len(a.ext) = 0 => a.ext = <<>>
    BY <1>1, EmptySeq
  <2>4. a.ext = <<>> => IsArchive(Done(a))
    BY <1>3, <1>4 DEF IsArchive
  <2> QED BY <2>1, <2>2, <2>3, <2>4
<1> QED BY <1>2, <1>3, <1>4, <1>6, <1>7 DEF IsArchive

LEMMA NewNames ==
  ASSUME NEW a \in AnyName, NEW b \in AnyName, NewName(a) = NewName(b)
  PROVE  a = b
<1>1. a.n + 1 = b.n + 1 /\ a.ext = b.ext
  BY NamesApart
<1> QED BY <1>1 DEF AnyName

(***************************************************************************)
(* What a rename leaves in the directory.                                  *)
(***************************************************************************)
LEMMA RenamedIs ==
  ASSUME NEW from, NEW to, from # to, There(from)
  PROVE  /\ DOMAIN Renamed(from, to) = (DOMAIN dir \ {from}) \cup {to}
         /\ Renamed(from, to)[to] = dir[from]
         /\ \A a \in DOMAIN dir \ {from, to} : Renamed(from, to)[a] = dir[a]
BY DEF Renamed, Bind, Unbind, There

LEMMA BoundIs ==
  ASSUME NEW name, NEW file
  PROVE  /\ DOMAIN Bind(dir, name, file) = DOMAIN dir \cup {name}
         /\ Bind(dir, name, file)[name] = file
         /\ \A a \in DOMAIN dir \ {name} : Bind(dir, name, file)[a] = dir[a]
         /\ DOMAIN Unbind(dir, name) = DOMAIN dir \ {name}
         /\ \A a \in DOMAIN dir \ {name} : Unbind(dir, name)[a] = dir[a]
BY DEF Bind, Unbind

-----------------------------------------------------------------------------
(* Types *)

Typed ==
  /\ maxOld \in MaxOlds
  /\ written \in 0..MaxLines /\ (held # 0 => written < MaxLines)
  /\ files \in Seq(SUBSET (1..written))
  /\ dir \in [DOMAIN dir -> 0..Len(files)]
  /\ step \in {"none", "tmp", "copy", "rename", "unlink"}
  /\ in \in 0..Len(files) /\ out \in 0..Len(files)
  /\ step \in {"copy", "rename", "unlink"} => out # 0
  /\ stage \in {"serve", "rotate", "placed", "finish", "over"}
  /\ rotations \in 0..MaxRotations
  /\ fd \in 0..Len(files) /\ held \in 0..Len(files)
  /\ aged \subseteq 1..written /\ late \subseteq 1..written
  /\ raced \in BOOLEAN
  /\ crashes \in 0..MaxCrashes /\ faults \in 0..MaxFaults

LEMMA FileAdded ==
  ASSUME Typed, files' = Append(files, {}), written' = written
  PROVE  /\ Len(files) \in Nat /\ Len(files') = Len(files) + 1
         /\ files' \in Seq(SUBSET (1..written'))
         /\ \A k \in 1..Len(files) : files'[k] = files[k]
         /\ files'[Len(files')] = {}
<1> DEFINE S == SUBSET (1..written)
<1>1. files \in Seq(S) /\ {} \in S
  BY DEF Typed
<1> QED BY <1>1, AppendProperties, LenProperties

LEMMA FileChanged ==
  ASSUME Typed, NEW k \in 1..Len(files), NEW E \in SUBSET (1..written'),
         written \in Nat, written' \in Nat, written <= written', files' = [files EXCEPT ![k] = E]
  PROVE  /\ Len(files') = Len(files) /\ files' \in Seq(SUBSET (1..written'))
         /\ \A i \in 1..Len(files) : files'[i] = IF i = k THEN E ELSE files[i]
<1> DEFINE S == SUBSET (1..written')
<1>1. files \in Seq(S)
  <2>1. SUBSET (1..written) \subseteq S
    OBVIOUS
  <2> QED BY <2>1, SeqMonotonic DEF Typed
<1> HIDE DEF S
<1>2. E \in S
  BY DEF S
<1>3. files' \in Seq(S) /\ Len(files') = Len(files)
      /\ \A i \in 1..Len(files) : files'[i] = IF i = k THEN E ELSE files[i]
  BY <1>1, <1>2, ExceptSeq
<1> QED BY <1>3 DEF S

LEMMA LinesAre ==
  ASSUME Typed, NEW f \in 0..Len(files)
  PROVE  /\ Lines(f) \subseteq 1..written
         /\ f # 0 => Lines(f) = files[f]
         /\ Lines(0) = {}
<1>1. f # 0 => files[f] \in SUBSET (1..written)
  BY ElementOfSeq, LenProperties DEF Typed
<1> QED BY <1>1 DEF Lines

\* Changes of the directory by a name
LEMMA DirTypes ==
  ASSUME NEW n \in Nat, dir \in [DOMAIN dir -> 0..n]
  PROVE  /\ \A name : Unbind(dir, name) \in [DOMAIN Unbind(dir, name) -> 0..n]
         /\ \A name : \A f \in 0..n :
              Bind(dir, name, f) \in [DOMAIN Bind(dir, name, f) -> 0..n]
         /\ \A from, to : There(from) =>
              Renamed(from, to) \in [DOMAIN Renamed(from, to) -> 0..n]
BY DEF Unbind, Bind, Renamed, There

LEMMA LogOpened ==
  ASSUME Typed, OpenLog, written' = written
  PROVE  /\ files' \in Seq(SUBSET (1..written')) /\ Len(files') \in Nat
         /\ Len(files) <= Len(files') /\ Len(files) \in Nat
         /\ dir' \in [DOMAIN dir' -> 0..Len(files')] /\ fd' \in 0..Len(files')
         /\ ~There(Log) => fd' = Len(files) + 1 /\ dir' = Bind(dir, Log, fd')
         /\ DOMAIN dir' = DOMAIN dir \cup {Log} /\ dir'[Log] = fd'
         /\ \A a \in DOMAIN dir : dir'[a] = dir[a]
         /\ \A f \in 0..Len(files) : Lines(f)' = Lines(f)
         /\ ~There(Log) => files'[fd'] = {}
<1>0. Len(files) \in Nat
  BY LenProperties DEF Typed
<1>1. CASE There(Log)
  <2>1. UNCHANGED <<dir, files>> /\ fd' = dir[Log] /\ Log \in DOMAIN dir
    BY <1>1 DEF OpenLog, There
  <2>2. dir[Log] \in 0..Len(files) /\ files \in Seq(SUBSET (1..written))
    BY <2>1 DEF Typed
  <2>3. \A f \in 0..Len(files) : Lines(f)' = Lines(f)
    BY <2>1 DEF Lines
  <2>4. DOMAIN dir' = DOMAIN dir \cup {Log}
    BY <2>1
  <2>5. files' \in Seq(SUBSET (1..written')) /\ Len(files') = Len(files)
    BY <2>1, <2>2
  <2>6. dir' \in [DOMAIN dir' -> 0..Len(files')] /\ fd' \in 0..Len(files')
    BY <2>1, <2>2, <2>5 DEF Typed
  <2> QED BY <1>0, <1>1, <2>1, <2>3, <2>4, <2>5, <2>6
<1>2. CASE ~There(Log)
  <2>1. /\ files' = Append(files, {}) /\ fd' = Len(files') /\ dir' = Bind(dir, Log, fd')
    BY <1>2 DEF OpenLog
  <2>2. /\ Len(files') = Len(files) + 1 /\ files' \in Seq(SUBSET (1..written'))
        /\ \A k \in 1..Len(files) : files'[k] = files[k]
        /\ files'[Len(files')] = {}
    BY <2>1, FileAdded
  <2>3. dir \in [DOMAIN dir -> 0..Len(files')] /\ fd' \in 0..Len(files') /\ fd' # 0
    BY <1>0, <2>1, <2>2 DEF Typed
  <2>4. dir' \in [DOMAIN dir' -> 0..Len(files')]
    BY <1>0, <2>1, <2>2, <2>3, DirTypes
  <2>5. /\ DOMAIN dir' = DOMAIN dir \cup {Log} /\ dir'[Log] = fd'
        /\ \A a \in DOMAIN dir : dir'[a] = dir[a]
    BY <1>2, <2>1 DEF Bind, There
  <2>6. \A f \in 0..Len(files) : Lines(f)' = Lines(f)
    BY <2>2 DEF Lines
  <2>7. files'[fd'] = {}
    BY <2>1, <2>2
  <2> QED BY <1>0, <1>2, <2>1, <2>2, <2>3, <2>4, <2>5, <2>6, <2>7
<1> QED BY <1>1, <1>2

LEMMA TypedKept == Typed /\ [Next]_vars => Typed'
<1> SUFFICES ASSUME Typed, [Next]_vars PROVE Typed'
  OBVIOUS
<1>0. Len(files) \in Nat /\ MaxLines \in Nat /\ MaxRotations \in Nat /\ MaxCrashes \in Nat /\ MaxFaults \in Nat
  BY LenProperties, BoundsAssumption DEF Typed
<1>1. CASE TakeFd /\ UNCHANGED maxOld
  BY <1>1 DEF TakeFd, Typed, jobVars, rotVars, pastVars
<1>2. CASE WriteLine /\ UNCHANGED maxOld
  <2>1. /\ held \in 1..Len(files) /\ written' = written + 1 /\ written < MaxLines
        /\ files' = [files EXCEPT ![held] = @ \cup {written'}] /\ held' = 0
        /\ UNCHANGED <<dir, jobVars, rotVars, fd, aged, raced, crashes, faults>>
    BY <1>2 DEF WriteLine, Typed
  <2>2. files[held] \in SUBSET (1..written)
    BY <2>1, ElementOfSeq DEF Typed
  <2>3. files' = [files EXCEPT ![held] = files[held] \cup {written'}]
        /\ files[held] \cup {written'} \in SUBSET (1..written')
    BY <2>1, <2>2 DEF Typed
  <2>4. Len(files') = Len(files) /\ files' \in Seq(SUBSET (1..written'))
    BY <2>1, <2>3, FileChanged DEF Typed
  <2>5. late' \subseteq 1..written' /\ aged \subseteq 1..written' /\ written' \in 0..MaxLines
    BY <1>0, <1>2, <2>1 DEF WriteLine, Typed
  <2> QED BY <1>2, <2>1, <2>4, <2>5 DEF Typed, jobVars, rotVars
<1>3. CASE Hup /\ UNCHANGED maxOld
  <2>1. rotations' \in 0..MaxRotations
    BY <1>0, <1>3 DEF Hup, Typed
  <2> QED BY <1>3, <2>1 DEF Hup, Typed, jobVars, logVars
<1>4. ASSUME NEW name \in doomed, Delete(name), UNCHANGED maxOld PROVE Typed'
  <2>1. dir' \in [DOMAIN dir' -> 0..Len(files)]
    BY <1>0, <1>4, DirTypes DEF Delete, Typed
  <2>2. aged' \subseteq 1..written
    <3>1. There(name) => Lines(dir[name]) \subseteq 1..written
      BY LinesAre DEF There, Typed
    <3> QED BY <1>4, <3>1 DEF Delete, Typed
  <2> QED BY <1>4, <2>1, <2>2 DEF Delete, Typed, jobVars, logVars
<1>5. ASSUME NEW name \in moves, Place(name), UNCHANGED maxOld PROVE Typed'
  <2>1. dir' \in [DOMAIN dir' -> 0..Len(files)]
    BY <1>0, <1>5, DirTypes DEF Place, Typed
  <2>2. raced' \in BOOLEAN /\ stage' \in {"rotate", "placed"}
    BY <1>5 DEF Place, Typed
  <2> QED BY <1>5, <2>1, <2>2 DEF Place, Typed, jobVars, logVars
<1>6. CASE Move /\ UNCHANGED maxOld
  <2>1. dir' \in [DOMAIN dir' -> 0..Len(files)]
    <3>1. dir' = dir \/ (There(moving) /\ dir' = Renamed(moving, NewName(moving)))
      BY <1>6 DEF Move
    <3> QED BY <1>0, <3>1, DirTypes DEF Typed
  <2> QED BY <1>6, <2>1 DEF Move, Typed, jobVars, logVars, pastVars
<1>7. CASE Reopen /\ UNCHANGED maxOld
  <2>1. UNCHANGED <<written, held, jobVars, rotations, pastVars, maxOld>> /\ OpenLog /\ stage' = "serve"
    BY <1>7 DEF Reopen
  <2>2. /\ files' \in Seq(SUBSET (1..written')) /\ Len(files') \in Nat /\ Len(files) <= Len(files')
        /\ dir' \in [DOMAIN dir' -> 0..Len(files')] /\ fd' \in 0..Len(files')
    BY <2>1, LogOpened
  <2> QED BY <1>0, <2>1, <2>2 DEF Typed, jobVars, pastVars
<1>8. CASE (Loop \/ SpuriousWakeup \/ Finish \/ Drain) /\ UNCHANGED maxOld
  <2>1. UNCHANGED <<dir, files, jobVars, rotations, logVars, pastVars, maxOld>>
        /\ stage' \in {stage, "finish", "over"}
    BY <1>8 DEF Loop, SpuriousWakeup, Finish, Drain, rotVars
  <2> QED BY <2>1 DEF Typed, jobVars, logVars, pastVars
<1>9. CASE (OpenIn \/ RenameOut \/ Unlink) /\ UNCHANGED maxOld
  <2>1. UNCHANGED <<files, rotVars, logVars, aged, late, crashes, faults, maxOld>>
    BY <1>9 DEF OpenIn, RenameOut, Unlink, pastVars
  <2>2. raced' \in BOOLEAN
    BY <1>9 DEF OpenIn, RenameOut, Unlink, pastVars, Typed
  <2>3. /\ step' \in {"none", "tmp", "unlink"}
        /\ in' \in {0, in} \cup (IF There(Path) THEN {dir[Path]} ELSE {}) /\ out' \in {0, out}
        /\ step' = "unlink" => step = "rename" /\ out' = out
    BY <1>9 DEF OpenIn, RenameOut, Unlink, JobEnds, Runs
  <2>4. in' \in 0..Len(files)
    BY <1>0, <2>3 DEF Typed, There
  <2>5. dir' \in [DOMAIN dir' -> 0..Len(files)]
    <3>1. \/ dir' = dir \/ dir' = Unbind(dir, Path)
          \/ There(Tmp(Path)) /\ dir' = Renamed(Tmp(Path), Done(Path))
      BY <1>9 DEF OpenIn, RenameOut, Unlink
    <3> QED BY <1>0, <3>1, DirTypes DEF Typed
  <2> QED BY <1>0, <2>1, <2>2, <2>3, <2>4, <2>5 DEF Typed, rotVars, logVars
<1>10. CASE OpenOut /\ UNCHANGED maxOld
  <2>1. CASE There(Tmp(Path))
    BY <1>0, <1>10, <2>1 DEF OpenOut, JobEnds, Typed, rotVars, logVars, pastVars
  <2>2. CASE ~There(Tmp(Path))
    <3>1. /\ files' = Append(files, {}) /\ out' = Len(files') /\ step' = "copy" /\ in' = in
          /\ dir' = Bind(dir, Tmp(Path), out')
          /\ UNCHANGED <<rotVars, logVars, pastVars, maxOld>>
      BY <1>10, <2>2 DEF OpenOut
    <3>2. /\ Len(files') = Len(files) + 1 /\ files' \in Seq(SUBSET (1..written'))
      BY <3>1, FileAdded DEF logVars
    <3>3. dir \in [DOMAIN dir -> 0..Len(files')] /\ out' \in 0..Len(files') /\ out' # 0
      BY <1>0, <3>1, <3>2 DEF Typed
    <3>4. dir' \in [DOMAIN dir' -> 0..Len(files')]
      BY <1>0, <3>1, <3>2, <3>3, DirTypes
    <3> QED BY <1>0, <3>1, <3>2, <3>3, <3>4 DEF Typed, rotVars, logVars, pastVars
  <2> QED BY <2>1, <2>2
<1>11. CASE Block /\ UNCHANGED maxOld
  <2>1. /\ UNCHANGED <<dir, in, out, rotVars, logVars, pastVars, maxOld>> /\ step = "copy"
        /\ step' \in {"copy", "rename"}
        /\ files' = files \/ files' = [files EXCEPT ![out] = Lines(in)]
    BY <1>11 DEF Block, Runs
  <2>2. out \in 1..Len(files) /\ Lines(in) \in SUBSET (1..written')
    BY <2>1, LinesAre DEF Typed, logVars
  <2>3. files' \in Seq(SUBSET (1..written')) /\ Len(files') = Len(files)
    <3>1. CASE files' = files
      BY <2>1, <3>1 DEF Typed, logVars
    <3>2. CASE files' = [files EXCEPT ![out] = Lines(in)]
      BY <2>1, <2>2, <3>2, FileChanged DEF Typed, logVars
    <3> QED BY <2>1, <3>1, <3>2
  <2> QED BY <2>1, <2>3 DEF Typed, rotVars, logVars, pastVars
<1>12. CASE BlockFails /\ UNCHANGED maxOld
  BY <1>0, <1>12 DEF BlockFails, JobEnds, Typed, rotVars, logVars
<1>13. CASE Crash /\ UNCHANGED maxOld
  <2>1. /\ OpenLog /\ step' = "none" /\ in' = 0 /\ out' = 0 /\ held' = 0 /\ stage' = "serve"
        /\ UNCHANGED <<rotations, written, aged, late, raced, faults, maxOld>>
        /\ crashes < MaxCrashes /\ crashes' = crashes + 1
    BY <1>13 DEF Crash
  <2>2. /\ files' \in Seq(SUBSET (1..written')) /\ Len(files') \in Nat
        /\ dir' \in [DOMAIN dir' -> 0..Len(files')] /\ fd' \in 0..Len(files')
    BY <2>1, LogOpened
  <2> QED BY <1>0, <2>1, <2>2 DEF Typed
<1>14. CASE UNCHANGED vars
  BY <1>14 DEF vars, Typed, jobVars, rotVars, logVars, pastVars
<1> QED
  BY <1>1, <1>2, <1>3, <1>4, <1>5, <1>6, <1>7, <1>8, <1>9, <1>10, <1>11, <1>12, <1>13, <1>14
  DEF Next, Step, Rotation, Compress

-----------------------------------------------------------------------------
(* The names there are *)

\* What rotation has still to come to
Pending == doomed \cup moves \cup (IF stage = "placed" THEN {moving} ELSE {})

Named ==
  /\ DOMAIN dir \subseteq Upto(rotations)
  /\ Pending \subseteq Upto(rotations - 1)
  /\ \A j \in offered : /\ j.rot <= rotations
                        /\ j.path.n \in 0..(rotations - 1)
                        /\ Len(j.path.ext) <= 2 * (j.rot - 1)
  /\ There(Log) => dir[Log] # 0
  /\ fd # 0

\* Where the rotation is, and which jobs it has given
Course ==
  /\ ~Rotating => doomed = {} /\ moves = {}
  /\ doomed \cap moves = {}
  /\ stage # "placed" => moving = Log
  /\ stage = "placed" => /\ doomed = {} /\ moving \notin moves
                         /\ \A m \in moves : m.n <= moving.n
  /\ step # "none" => pc[Worker] = "run"
  /\ \A j \in offered :
       /\ ~EndsInGz(j.path)
       /\ Rotating /\ j.rot = rotations =>
            \A m \in Pending : m.n < j.path.n /\ NewName(m) # j.path

LEMMA JobIs ==
  ASSUME NEW j \in Jobs
  PROVE  j.rot \in 1..MaxRotations /\ j.path \in Names /\ j.path \in AnyName
BY NamesAre DEF Jobs

LEMMA AtWork ==
  ASSUME WQP!IInv, pc[Worker] = "run"
  PROVE  got[Worker] \in offered /\ got[Worker] \in Jobs
<1>1. got[Worker] \in Jobs /\ got[Worker] # None
  BY QueueConstants DEF WQP!IInv, WQP!TypeOK, WQP!RunsAnItem
<1>2. got[Worker] \in WQP!Held
  BY <1>1 DEF WQP!Held
<1> QED BY <1>1, <1>2 DEF WQP!IInv, WQP!InOnePlace

\* The path of the job that runs
LEMMA PathIs ==
  ASSUME WQP!IInv, Course, Named, step # "none" \/ pc[Worker] = "run"
  PROVE  /\ pc[Worker] = "run" /\ got[Worker] \in offered
         /\ Path \in AnyName /\ Path.n \in 0..(rotations - 1)
         /\ Len(Path.ext) <= 2 * (got[Worker].rot - 1)
         /\ got[Worker].rot \in 1..MaxRotations /\ got[Worker].rot <= rotations
         /\ ~EndsInGz(Path)
BY AtWork, JobIs DEF Course, Named, Path

LEMMA UptoIs ==
  ASSUME NEW k \in Int, NEW a \in Upto(k)
  PROVE  /\ a \in AnyName /\ a.n \in -1..(k - 1) /\ Len(a.ext) <= 2 * k /\ k \in Nat
         /\ a \in Upto(k + 1) /\ NewName(a) \in Upto(k + 1) /\ NewName(a) # Log
         /\ NewName(a).n \in 0..k
<1>1. a \in AnyName /\ a.n \in -1..(k - 1) /\ Len(a.ext) <= 2 * k /\ (a.n = -1 => a = Log)
  BY DEF Upto
<1>2. k \in Nat /\ a.n \in -1..((k + 1) - 1) /\ Len(a.ext) <= 2 * (k + 1)
  <2>1. Len(a.ext) \in Nat
    BY <1>1 DEF AnyName
  <2> QED BY <1>1, <2>1
<1>3. NewName(a) \in AnyName /\ NewName(a).n = a.n + 1 /\ NewName(a).ext = a.ext
  BY <1>1, NamesApart
<1>4. NewName(a).n \in 0..k /\ NewName(a).n # -1
  BY <1>1, <1>2, <1>3
<1>5. NewName(a) # Log
  BY <1>4 DEF Log, Name
<1> QED BY <1>1, <1>2, <1>3, <1>4, <1>5 DEF Upto

LEMMA NewJobIs ==
  ASSUME Typed, Named, stage = "placed"
  PROVE  [rot |-> rotations, path |-> NewName(moving)] \in Jobs
<1>1. moving \in Upto(rotations - 1) /\ rotations \in 0..MaxRotations /\ MaxRotations \in Nat
  BY BoundsAssumption DEF Named, Pending, Typed
<1>2. rotations - 1 \in Nat /\ NewName(moving) \in AnyName
      /\ NewName(moving).n \in 0..(rotations - 1) /\ Len(NewName(moving).ext) <= 2 * (rotations - 1)
      /\ Len(NewName(moving).ext) \in Nat
  <2>1. moving \in AnyName /\ Len(moving.ext) <= 2 * (rotations - 1)
        /\ NewName(moving).n \in 0..(rotations - 1) /\ rotations - 1 \in Nat
    BY <1>1, UptoIs
  <2>2. Len(moving.ext) \in Nat
    BY <2>1 DEF AnyName
  <2> QED BY <2>1, <2>2, NamesApart
<1>3. NewName(moving) \in Names
  BY <1>1, <1>2, NamesAre
<1> QED BY <1>1, <1>2, <1>3 DEF Jobs

-----------------------------------------------------------------------------
(* The queue *)

Ending ==
  /\ ~flags /\ refused = {}
  /\ quit <=> stage \in {"finish", "over"}
  /\ pc[Worker] = "exited" => jobs = <<>> /\ quit
  /\ pc[Worker] # "exited" => dropped = {}
  /\ \A i, j \in dropped : i = j
  /\ stage = "over" => pc[Worker] = "exited"

Work == WQP!IInv /\ Ending

LEMMA QueueStep ==
  Typed /\ Named /\ Work /\ [Next]_vars => [WQP!Next]_(WQP!vars) \/ Crash
<1> SUFFICES ASSUME Typed, Named, Work, [Next]_vars, ~Crash PROVE WQP!Next \/ UNCHANGED WQP!vars
  OBVIOUS
<1>0. UNCHANGED wqVars => UNCHANGED WQP!vars
  BY DEF wqVars, WQP!vars
<1>1. ASSUME NEW i \in Jobs, WQ!SendWork(i) PROVE WQP!Next
  BY <1>1 DEF WQ!SendWork, WQP!SendWork, WQ!Signalled, WQP!Signalled, WQ!Waiting, WQP!Waiting, WQP!Next
<1>2. ASSUME WQ!TakeOrWait(Worker) PROVE WQP!TakeOrWait(Worker)
  BY <1>2 DEF WQ!TakeOrWait, WQP!TakeOrWait, WQ!PassOn, WQP!PassOn, WQ!Signalled, WQP!Signalled, WQ!Waiting, WQP!Waiting
<1>3. CASE Loop \/ SpuriousWakeup
  <2>1. CASE WQ!GetWork(Worker) \/ WQ!Resume(Worker)
    BY <1>2, <2>1 DEF WQ!GetWork, WQP!GetWork, WQ!Resume, WQP!Resume, WQP!Next
  <2>2. CASE SpuriousWakeup
    BY <2>2 DEF SpuriousWakeup, WQ!SpuriousWakeup, WQP!SpuriousWakeup, WQP!Next
  <2>3. CASE WQ!CheckQuit(Worker)
    BY <2>3 DEF WQ!CheckQuit, WQP!CheckQuit, WQ!ShouldQuit, WQP!ShouldQuit,
                WQ!Leave, WQP!Leave, WQ!GoOn, WQP!GoOn, WQP!Next
  <2>4. CASE WQ!CheckFlag(Worker)
    BY <2>4 DEF WQ!CheckFlag, WQP!CheckFlag, WQ!Leave, WQP!Leave, WQ!GoOn, WQP!GoOn, WQP!Next
  <2> QED BY <1>3, <2>1, <2>2, <2>3, <2>4 DEF Loop
<1>4. JobEnds => WQP!Next
  BY DEF JobEnds, WQ!RunJob, WQP!RunJob, WQP!Next
<1>5. CASE Compress \/ BlockFails
  <2>1. JobEnds \/ UNCHANGED wqVars
    BY <1>5 DEF Compress, OpenIn, OpenOut, Block, RenameOut, Unlink, BlockFails
  <2> QED BY <1>0, <1>4, <2>1
<1>6. CASE Move
  <2>1. UNCHANGED wqVars \/ WQ!SendWork([rot |-> rotations, path |-> NewName(moving)])
    BY <1>6 DEF Move
  <2>2. [rot |-> rotations, path |-> NewName(moving)] \in Jobs
    BY <1>6, NewJobIs DEF Move
  <2> QED BY <1>0, <1>1, <2>1, <2>2
<1>7. CASE Finish
  BY <1>7 DEF Finish, WQ!SetQuit, WQP!SetQuit, WQ!AllWoken, WQP!AllWoken, WQP!Next
<1>8. CASE Drain
  <2>1. jobs = <<>> /\ quit = TRUE
    BY <1>8 DEF Drain, Work, Ending, WQP!IInv, WQP!TypeOK
  <2>2. Range(jobs) = {}
    BY <2>1 DEF Range
  <2> QED BY <1>8, <2>1, <2>2 DEF Drain, WQP!vars
<1>9. CASE \/ TakeFd \/ WriteLine \/ Hup \/ (\E name \in doomed : Delete(name))
           \/ (\E name \in moves : Place(name)) \/ Reopen \/ UNCHANGED vars
  <2>1. UNCHANGED wqVars
    BY <1>9 DEF TakeFd, WriteLine, Hup, Delete, Place, Reopen, vars
  <2> QED BY <1>0, <2>1
<1> QED BY <1>3, <1>5, <1>6, <1>7, <1>8, <1>9 DEF Next, Step, Rotation

LEMMA QueueStarts == WQP!Init => WQP!IInv
BY QueueConstants, WQP!InitIInv

LEMMA QueueRestarts == WQP!Init' => WQP!IInv'
BY QueueStarts, PTL

LEMMA WorkKept == Typed /\ Named /\ Work /\ [Next]_vars => WQP!IInv'
<1> SUFFICES ASSUME Typed, Named, Work, [Next]_vars PROVE WQP!IInv'
  OBVIOUS
<1>1. CASE [WQP!Next]_(WQP!vars)
  <2>1. WQP!TypeOK' /\ WQP!RunsAnItem' /\ WQP!NobodySleeps' /\ WQP!InOnePlace'
    BY <1>1, QueueConstants, WQP!TypeStep, WQP!RunsAnItemStep, WQP!NobodySleepsStep, WQP!InOnePlaceStep
       DEF Work, WQP!IInv
  <2> QED BY <2>1 DEF WQP!IInv
<1>2. CASE Crash
  <2>1. WQP!Init'
    BY <1>2 DEF Crash, WQP!Init
  <2> QED BY <2>1, QueueRestarts
<1> QED BY <1>1, <1>2, QueueStep

LEMMA EndingKept == Typed /\ Work /\ Course /\ [Next]_vars => Ending'
<1> SUFFICES ASSUME Typed, Work, Course, [Next]_vars PROVE Ending'
  OBVIOUS
<1>0. /\ pc \in [{Worker} -> WQP!Places] /\ quit \in BOOLEAN /\ flags \in BOOLEAN
      /\ got \in [{Worker} -> Jobs \cup {None}]
  BY DEF Work, WQP!IInv, WQP!TypeOK
<1> USE DEF Work, Ending
<1>1. ASSUME NEW i, WQ!SendWork(i), stage = "placed", stage' = "rotate" PROVE Ending'
  <2>1. ~quit /\ pc[Worker] # "exited"
    BY <1>1
  <2>2. pc'[Worker] # "exited"
    BY <1>0, <1>1, <2>1 DEF WQ!SendWork, WQ!Signalled, WQ!Waiting
  <2> QED BY <1>1, <2>1, <2>2 DEF WQ!SendWork
<1>2. CASE Loop \/ SpuriousWakeup
  <2>0. UNCHANGED stage
    BY <1>2 DEF Loop, SpuriousWakeup, rotVars
  <2>1. CASE WQ!GetWork(Worker) \/ WQ!Resume(Worker)
    <3>1. pc[Worker] # "exited" /\ UNCHANGED <<quit, flags, refused, dropped>>
      BY <2>1 DEF WQ!GetWork, WQ!Resume, WQ!TakeOrWait
    <3>2. pc'[Worker] # "exited"
      BY <1>0, <2>1 DEF WQ!GetWork, WQ!Resume, WQ!TakeOrWait, WQ!PassOn, WQ!Signalled, WQ!Waiting
    <3> QED BY <2>0, <3>1, <3>2
  <2>2. CASE SpuriousWakeup
    BY <1>0, <2>0, <2>2 DEF SpuriousWakeup, WQ!SpuriousWakeup
  <2>3. CASE WQ!CheckQuit(Worker)
    <3>1. CASE WQ!ShouldQuit /\ WQ!Leave(Worker)
      BY <1>0, <2>0, <2>3, <3>1 DEF WQ!CheckQuit, WQ!ShouldQuit, WQ!Leave
    <3>2. CASE pc'[Worker] # "exited" /\ UNCHANGED dropped
      BY <2>0, <2>3, <3>2 DEF WQ!CheckQuit
    <3>3. \/ WQ!ShouldQuit /\ WQ!Leave(Worker)
          \/ pc'[Worker] # "exited" /\ UNCHANGED dropped
      BY <1>0, <2>3 DEF WQ!CheckQuit, WQ!GoOn
    <3> QED BY <3>1, <3>2, <3>3
  <2>4. CASE WQ!CheckFlag(Worker)
    <3>1. pc[Worker] = "flag" /\ pc'[Worker] # "exited" /\ UNCHANGED <<quit, flags, refused, dropped>>
      BY <1>0, <2>4 DEF WQ!CheckFlag, WQ!GoOn
    <3> QED BY <2>0, <3>1
  <2> QED BY <1>2, <2>1, <2>2, <2>3, <2>4 DEF Loop
<1>3. CASE Compress \/ BlockFails
  <2>1. UNCHANGED stage /\ (UNCHANGED wqVars \/ JobEnds)
    BY <1>3 DEF Compress, OpenIn, OpenOut, Block, RenameOut, Unlink, BlockFails, rotVars
  <2>2. CASE JobEnds
    BY <1>0, <2>1, <2>2 DEF JobEnds, WQ!RunJob
  <2> QED BY <2>1, <2>2 DEF wqVars
<1>4. CASE Move
  <2>1. CASE UNCHANGED wqVars
    BY <1>4, <2>1 DEF Move, wqVars
  <2>2. CASE WQ!SendWork([rot |-> rotations, path |-> NewName(moving)])
    BY <1>1, <1>4, <2>2 DEF Move
  <2> QED BY <1>4, <2>1, <2>2 DEF Move
<1>5. CASE Finish
  BY <1>0, <1>5 DEF Finish, WQ!SetQuit, WQ!AllWoken
<1>6. CASE Drain
  <2>1. jobs = <<>>
    BY <1>6 DEF Drain
  <2>2. Range(jobs) = {}
    BY <2>1 DEF Range
  <2> QED BY <1>6, <2>1, <2>2 DEF Drain
<1>7. CASE Crash
  BY <1>7 DEF Crash
<1>8. CASE \/ TakeFd \/ WriteLine \/ Hup \/ (\E name \in doomed : Delete(name))
           \/ (\E name \in moves : Place(name)) \/ Reopen \/ UNCHANGED vars
  <2>1. UNCHANGED wqVars
    BY <1>8 DEF TakeFd, WriteLine, Hup, Delete, Place, Reopen, vars
  <2>2. stage' \in {"finish", "over"} <=> stage \in {"finish", "over"}
    BY <1>8 DEF TakeFd, WriteLine, Hup, Delete, Place, Reopen, vars, rotVars
  <2>3. stage' = "over" => stage = "over"
    BY <1>8 DEF TakeFd, WriteLine, Hup, Delete, Place, Reopen, vars, rotVars
  <2> QED BY <2>1, <2>2, <2>3 DEF wqVars
<1> QED BY <1>2, <1>3, <1>4, <1>5, <1>6, <1>7, <1>8 DEF Next, Step, Rotation

LEMMA UptoGrows == ASSUME NEW k \in Int, NEW l \in Int, k <= l PROVE Upto(k) \subseteq Upto(l)
<1> SUFFICES ASSUME NEW a \in Upto(k) PROVE a \in Upto(l)
  OBVIOUS
<1>1. Len(a.ext) \in Nat
  BY DEF Upto, AnyName
<1> QED BY <1>1 DEF Upto

LEMMA LogIs == Log \in AnyName /\ Log.n = -1 /\ Log.ext = <<>> /\ \A k \in Nat : Log \in Upto(k)
<1>1. <<>> \in Seq({"gz", "tmp"}) /\ Len(<<>>) = 0
  OBVIOUS
<1>2. Log \in AnyName /\ Log.n = -1 /\ Log.ext = <<>>
  BY <1>1 DEF Log, Name, AnyName
<1> QED BY <1>1, <1>2 DEF Upto

\* The names the job that runs makes
LEMMA MadeIs ==
  ASSUME Typed, WQP!IInv, Course, Named, step # "none" \/ pc[Worker] = "run"
  PROVE  /\ {Path, Tmp(Path), Done(Path)} \subseteq Upto(rotations)
         /\ Log \notin {Path, Tmp(Path), Done(Path)}
<1>1. /\ Path \in AnyName /\ Path.n \in 0..(rotations - 1)
      /\ Len(Path.ext) <= 2 * (got[Worker].rot - 1)
      /\ got[Worker].rot \in 1..MaxRotations /\ got[Worker].rot <= rotations
  BY PathIs
<1>2. rotations \in Nat /\ Len(Path.ext) \in Nat /\ got[Worker].rot \in Nat
  <2>1. Len(Path.ext) \in Nat
    BY <1>1 DEF AnyName
  <2>2. MaxRotations \in Nat /\ rotations \in 0..MaxRotations
    BY BoundsAssumption DEF Typed
  <2> QED BY <1>1, <2>1, <2>2
<1>3. /\ Tmp(Path) \in AnyName /\ Tmp(Path).n = Path.n /\ Len(Tmp(Path).ext) = Len(Path.ext) + 2
      /\ Done(Path) \in AnyName /\ Done(Path).n = Path.n /\ Len(Done(Path).ext) = Len(Path.ext) + 1
  BY <1>1, NamesApart
<1>4. Path.n # -1 /\ Path.n \in -1..(rotations - 1) /\ Len(Path.ext) + 2 <= 2 * rotations
  BY <1>1, <1>2
<1>5. Path \in Upto(rotations) /\ Tmp(Path) \in Upto(rotations) /\ Done(Path) \in Upto(rotations)
  BY <1>1, <1>2, <1>3, <1>4 DEF Upto
<1> QED BY <1>3, <1>4, <1>5, LogIs

LEMMA NamedKept == Typed /\ Named /\ Course /\ Work /\ [Next]_vars => Named'
<1> SUFFICES ASSUME Typed, Named, Course, Work, [Next]_vars PROVE Named'
  OBVIOUS
<1>0. /\ rotations \in 0..MaxRotations /\ rotations \in Nat /\ rotations - 1 \in Int
      /\ WQP!IInv /\ offered \subseteq Jobs
  BY BoundsAssumption DEF Typed, Work, WQP!IInv, WQP!TypeOK
\* The steps that change neither what rotation has to come to nor the jobs
<1>1. ASSUME Pending' \subseteq Pending, UNCHANGED <<rotations, offered, fd>>,
             DOMAIN dir' \subseteq Upto(rotations),
             Log \in DOMAIN dir' => dir'[Log] # 0
      PROVE  Named'
  BY <1>1 DEF Named, There
<1>2. ASSUME UNCHANGED <<dir, rotations, offered, fd, doomed, moves, moving>>,
             stage' = "placed" => stage = "placed"
      PROVE  Named'
  BY <1>2 DEF Named, There, Pending
<1>3. ASSUME UNCHANGED <<rotVars, offered, fd>>, DOMAIN dir' \subseteq DOMAIN dir \cup Upto(rotations),
             There(Log)' => There(Log) /\ dir'[Log] = dir[Log]
      PROVE  Named'
  BY <1>3 DEF Named, There, Pending, rotVars
<1>4. CASE TakeFd \/ WriteLine \/ Loop \/ SpuriousWakeup \/ Finish \/ Drain
  <2>1. UNCHANGED <<dir, rotations, doomed, moves, moving, fd>>
        /\ (stage' = "placed" => stage = "placed")
    BY <1>4 DEF TakeFd, WriteLine, Loop, SpuriousWakeup, Finish, Drain, rotVars, logVars
  <2>2. UNCHANGED offered
    BY <1>4 DEF TakeFd, WriteLine, Loop, SpuriousWakeup, Finish, Drain, wqVars,
       WQ!GetWork, WQ!Resume, WQ!TakeOrWait, WQ!CheckQuit, WQ!CheckFlag, WQ!SpuriousWakeup, WQ!SetQuit
  <2> QED BY <1>2, <2>1, <2>2
<1>5. CASE Hup
  <2>1. /\ rotations' = rotations + 1 /\ rotations' \in Int /\ rotations' - 1 = rotations
        /\ UNCHANGED <<dir, offered, fd>> /\ Pending' \subseteq DOMAIN dir
    BY <1>0, <1>5 DEF Hup, Pending, wqVars, logVars
  <2>2. Upto(rotations) \subseteq Upto(rotations')
    BY <1>0, <2>1, UptoGrows
  <2>3. \A j \in offered : /\ j.rot <= rotations'
                           /\ j.path.n \in 0..(rotations' - 1)
    <3> SUFFICES ASSUME NEW j \in offered PROVE j.rot <= rotations' /\ j.path.n \in 0..(rotations' - 1)
      OBVIOUS
    <3>1. j.rot \in 1..MaxRotations
      BY <1>0, JobIs
    <3> QED BY <1>0, <2>1, <3>1, BoundsAssumption DEF Named
  <2> QED BY <2>1, <2>2, <2>3 DEF Named, There
<1>6. ASSUME NEW name \in doomed, Delete(name) PROVE Named'
  <2>1. UNCHANGED <<rotations, offered, fd>> /\ Pending' \subseteq Pending /\ dir' = Unbind(dir, name)
    BY <1>6 DEF Delete, Pending, wqVars, logVars
  <2> QED BY <1>1, <2>1, BoundIs DEF Named, There
<1>7. ASSUME NEW name \in moves, Place(name) PROVE Named'
  <2>1. UNCHANGED <<rotations, offered, fd>> /\ Pending' \subseteq Pending
    BY <1>7 DEF Place, Pending, wqVars, logVars
  <2>2. NewName(name) \in Upto(rotations) /\ NewName(name) # Log
    <3>1. name \in Upto(rotations - 1)
      BY DEF Named, Pending
    <3>2. (rotations - 1) + 1 = rotations
      BY <1>0
    <3> QED BY <1>0, <3>1, <3>2, UptoIs
  <2>3. dir' = dir \/ dir' = Bind(dir, NewName(name), 0)
    BY <1>7 DEF Place
  <2>4. DOMAIN dir' \subseteq Upto(rotations) /\ (Log \in DOMAIN dir' => dir'[Log] # 0)
    <3>1. DOMAIN dir \subseteq Upto(rotations) /\ (Log \in DOMAIN dir => dir[Log] # 0)
      BY DEF Named, There
    <3>2. CASE dir' = Bind(dir, NewName(name), 0)
      BY <2>2, <3>1, <3>2 DEF Bind
    <3> QED BY <2>3, <3>1, <3>2
  <2> QED BY <1>1, <2>1, <2>4
<1>8. CASE Move
  <2>1. /\ UNCHANGED <<rotations, fd, doomed, moves>> /\ stage' = "rotate" /\ stage = "placed"
        /\ Pending' \subseteq Pending
    BY <1>8 DEF Move, logVars, Pending
  <2>2. moving \in Upto(rotations - 1) /\ (rotations - 1) + 1 = rotations
    BY <1>0, <2>1 DEF Named, Pending
  <2>3. CASE ~There(moving)
    BY <1>1, <1>8, <2>1, <2>3 DEF Move, wqVars, Named, There
  <2>4. CASE There(moving)
    <3>1. NewName(moving) \in Upto(rotations) /\ NewName(moving) # Log /\ moving \in AnyName
      BY <1>0, <2>2, UptoIs
    <3>2. dir' = Renamed(moving, NewName(moving)) /\ moving # NewName(moving)
      <4>1. NewName(moving).n = moving.n + 1 /\ moving.n \in Int
        BY <3>1, NamesApart DEF AnyName
      <4> QED BY <1>8, <2>4, <4>1 DEF Move
    <3>3. DOMAIN dir' \subseteq Upto(rotations) /\ (Log \in DOMAIN dir' => dir'[Log] # 0)
      <4>1. DOMAIN dir \subseteq Upto(rotations) /\ (Log \in DOMAIN dir => dir[Log] # 0)
        BY DEF Named, There
      <4>2. /\ DOMAIN dir' = (DOMAIN dir \ {moving}) \cup {NewName(moving)}
            /\ \A a \in DOMAIN dir \ {moving, NewName(moving)} : dir'[a] = dir[a]
        BY <2>4, <3>2 DEF Renamed, Bind, Unbind, There
      <4> QED BY <3>1, <4>1, <4>2
    <3>4. offered' \subseteq offered \cup {[rot |-> rotations, path |-> NewName(moving)]}
      BY <1>8 DEF Move, wqVars, WQ!SendWork
    <3>5. /\ NewName(moving).n \in 0..(rotations - 1)
          /\ Len(NewName(moving).ext) <= 2 * (rotations - 1)
      <4>1. Len(moving.ext) <= 2 * (rotations - 1) /\ NewName(moving).n \in 0..(rotations - 1)
        BY <1>0, <2>2, UptoIs
      <4> QED BY <3>1, <4>1, NamesApart
    <3> QED BY <1>0, <2>1, <3>3, <3>4, <3>5 DEF Named, There
  <2> QED BY <2>3, <2>4
<1>9. CASE Reopen
  <2>1. UNCHANGED <<rotations, offered, written>> /\ Pending' = {} /\ OpenLog
    BY <1>9 DEF Reopen, Pending, wqVars
  <2>2. /\ ~There(Log) => fd' = Len(files) + 1 /\ Len(files) \in Nat
        /\ DOMAIN dir' = DOMAIN dir \cup {Log} /\ dir'[Log] = fd'
        /\ \A a \in DOMAIN dir : dir'[a] = dir[a]
    BY <2>1, LogOpened
  <2>3. fd' # 0
    BY <2>2 DEF Named, There
  <2>4. DOMAIN dir' \subseteq Upto(rotations)
    BY <1>0, <2>2, LogIs DEF Named
  <2> QED BY <2>1, <2>2, <2>3, <2>4 DEF Named, There
<1>10. CASE OpenIn \/ Block \/ BlockFails
  <2>1. UNCHANGED <<dir, rotVars, fd, offered>>
    BY <1>10 DEF OpenIn, Block, BlockFails, logVars, wqVars, JobEnds, WQ!RunJob
  <2> QED BY <1>3, <2>1 DEF There
<1>11. CASE OpenOut \/ RenameOut \/ Unlink
  <2>1. UNCHANGED <<rotVars, fd, offered>>
    BY <1>11 DEF OpenOut, RenameOut, Unlink, logVars, wqVars, JobEnds, WQ!RunJob
  <2>2. /\ {Path, Tmp(Path), Done(Path)} \subseteq Upto(rotations)
        /\ Log \notin {Path, Tmp(Path), Done(Path)} /\ Tmp(Path) # Done(Path)
    <3>1. pc[Worker] = "run"
      BY <1>11 DEF OpenOut, RenameOut, Unlink, Runs
    <3> QED BY <1>0, <3>1, MadeIs, PathIs, NamesApart
  <2>3. \/ dir' = dir \/ dir' = Unbind(dir, Path)
        \/ There(Tmp(Path)) /\ dir' = Renamed(Tmp(Path), Done(Path))
        \/ \E f : dir' = Bind(dir, Tmp(Path), f)
    BY <1>11 DEF OpenOut, RenameOut, Unlink
  <2>4. DOMAIN dir' \subseteq DOMAIN dir \cup Upto(rotations)
    BY <2>2, <2>3 DEF Renamed, Bind, Unbind
  <2>5. There(Log)' => There(Log) /\ dir'[Log] = dir[Log]
    BY <2>2, <2>3 DEF Renamed, Bind, Unbind, There
  <2> QED BY <1>3, <2>1, <2>4, <2>5
<1>12. CASE Crash
  <2>1. UNCHANGED <<rotations, written>> /\ Pending' = {} /\ OpenLog /\ offered' = {}
    BY <1>12 DEF Crash, Pending
  <2>2. /\ ~There(Log) => fd' = Len(files) + 1 /\ Len(files) \in Nat
        /\ DOMAIN dir' = DOMAIN dir \cup {Log} /\ dir'[Log] = fd'
        /\ \A a \in DOMAIN dir : dir'[a] = dir[a]
    BY <2>1, LogOpened
  <2>3. fd' # 0
    BY <2>2 DEF Named, There
  <2>4. DOMAIN dir' \subseteq Upto(rotations)
    BY <1>0, <2>2, LogIs DEF Named
  <2> QED BY <2>1, <2>2, <2>3, <2>4 DEF Named, There
<1>13. CASE UNCHANGED vars
  BY <1>2, <1>13 DEF vars, wqVars, rotVars, logVars
<1> QED
  BY <1>4, <1>5, <1>6, <1>7, <1>8, <1>9, <1>10, <1>11, <1>12, <1>13
  DEF Next, Step, Rotation, Compress

LEMMA CourseKept == Typed /\ Named /\ Course /\ Work /\ [Next]_vars => Course'
<1> SUFFICES ASSUME Typed, Named, Course, Work, [Next]_vars PROVE Course'
  OBVIOUS
<1>0. /\ rotations \in Nat /\ offered \subseteq Jobs /\ pc \in [{Worker} -> WQP!Places]
      /\ \A j \in offered : j.rot \in Nat
  <2>1. offered \subseteq Jobs /\ pc \in [{Worker} -> WQP!Places]
    BY DEF Work, WQP!IInv, WQP!TypeOK
  <2>2. rotations \in Nat
    BY BoundsAssumption DEF Typed
  <2>3. \A j \in offered : j.rot \in 1..MaxRotations
    BY <2>1, JobIs
  <2> QED BY <2>1, <2>2, <2>3, BoundsAssumption
\* The compressor's job
<1> DEFINE Busy == step # "none" => pc[Worker] = "run"
<1>1. ASSUME UNCHANGED <<rotations, offered, doomed, moves, moving>>, Busy',
             stage' = stage \/ (stage \notin {"rotate", "placed"} /\ stage' \notin {"rotate", "placed"})
      PROVE  Course'
  BY <1>1 DEF Course, Pending, Rotating
<1>2. CASE TakeFd \/ WriteLine \/ Loop \/ SpuriousWakeup \/ Finish \/ Drain
  <2>1. /\ UNCHANGED <<rotations, doomed, moves, moving, step>>
        /\ stage' = stage \/ (stage \notin {"rotate", "placed"} /\ stage' \notin {"rotate", "placed"})
    BY <1>2 DEF TakeFd, WriteLine, Loop, SpuriousWakeup, Finish, Drain, rotVars, jobVars
  <2>2. UNCHANGED offered
    BY <1>2 DEF TakeFd, WriteLine, Loop, SpuriousWakeup, Finish, Drain, wqVars,
       WQ!GetWork, WQ!Resume, WQ!TakeOrWait, WQ!CheckQuit, WQ!CheckFlag, WQ!SpuriousWakeup, WQ!SetQuit
  <2>3. pc[Worker] = "run" => pc'[Worker] = "run"
    BY <1>0, <1>2 DEF TakeFd, WriteLine, Loop, SpuriousWakeup, Finish, Drain, wqVars,
       WQ!GetWork, WQ!Resume, WQ!CheckQuit, WQ!CheckFlag, WQ!SpuriousWakeup, WQ!SetQuit, WQ!AllWoken
  <2>4. Busy'
    BY <2>1, <2>3 DEF Course
  <2> QED BY <1>1, <2>1, <2>2, <2>4
<1>3. CASE Compress \/ BlockFails
  <2>1. UNCHANGED <<rotVars, offered>> /\ (step' = "none" \/ (UNCHANGED pc /\ pc[Worker] = "run"))
    BY <1>3 DEF Compress, OpenIn, OpenOut, Block, RenameOut, Unlink, BlockFails, JobEnds, WQ!RunJob, wqVars, Runs
  <2> QED BY <1>1, <2>1 DEF rotVars
<1>4. CASE Hup
  <2>1. /\ rotations' = rotations + 1 /\ stage' = "rotate" /\ moving = Log
        /\ UNCHANGED <<step, pc, offered, moving>>
    BY <1>4 DEF Hup, Course, wqVars, jobVars
  <2>2. \A j \in offered : j.rot # rotations'
    BY <1>0, <2>1 DEF Named
  <2>3. doomed' \cap moves' = {}
    BY <1>4 DEF Hup
  <2> QED BY <2>1, <2>2, <2>3 DEF Course, Rotating
<1>5. ASSUME NEW name \in doomed, Delete(name) PROVE Course'
  <2>1. /\ UNCHANGED <<step, pc, offered, moving, moves, rotations, stage>> /\ Pending' \subseteq Pending
        /\ stage = "rotate"
    BY <1>5 DEF Delete, wqVars, jobVars, Pending
  <2>2. doomed' \cap moves' = {}
    BY <1>5 DEF Delete, Course
  <2> QED BY <2>1, <2>2 DEF Course, Rotating
<1>6. ASSUME NEW name \in moves, Place(name) PROVE Course'
  <2>1. /\ UNCHANGED <<step, pc, offered, doomed, rotations>> /\ Pending' \subseteq Pending
        /\ stage = "rotate" /\ moves' = moves \ {name} /\ doomed = {} /\ IsNext(name)
        /\ \/ stage' = "rotate" /\ moving' = moving
           \/ stage' = "placed" /\ moving' = name
    BY <1>6 DEF Place, wqVars, jobVars, Pending
  <2> QED BY <2>1 DEF Course, Rotating, IsNext
<1>7. CASE Move
  <2>0. /\ stage = "placed" /\ stage' = "rotate" /\ moving' = Log
        /\ UNCHANGED <<step, doomed, moves, rotations>>
    BY <1>7 DEF Move, jobVars
  <2>1. Pending' \subseteq Pending /\ Pending' = moves /\ doomed = {} /\ moving \notin moves
    BY <2>0 DEF Pending, Course
  <2>2. CASE UNCHANGED wqVars
    BY <2>0, <2>1, <2>2 DEF Course, Rotating, wqVars
  <2>3. CASE WQ!SendWork([rot |-> rotations, path |-> NewName(moving)]) /\ ~EndsInGz(moving)
    <3>1. pc[Worker] = "run" => pc'[Worker] = "run"
      BY <1>0, <2>3 DEF WQ!SendWork, WQ!Signalled, WQ!Waiting
    <3>2. Pending \subseteq Upto(rotations - 1) /\ moving \in Pending /\ rotations - 1 \in Int
      BY <1>0, <2>0 DEF Named, Pending
    <3>3. \A m \in Pending : m \in AnyName /\ m.n \in Int
      BY <3>2 DEF Upto
    <3>4. /\ moving \in AnyName /\ NewName(moving).n = moving.n + 1 /\ NewName(moving).ext = moving.ext
      BY <3>2, <3>3, NamesApart
    <3>5. ~EndsInGz(NewName(moving))
      BY <2>3, <3>4 DEF EndsInGz
    <3>6. \A m \in moves : m.n <= moving.n
      BY <2>0 DEF Course
    <3>7. \A m \in Pending' : m.n < NewName(moving).n /\ NewName(m) # NewName(moving)
      BY <2>1, <3>2, <3>3, <3>4, <3>6, NewNames
    <3>8. offered' = offered \cup {[rot |-> rotations, path |-> NewName(moving)]}
      BY <2>3 DEF WQ!SendWork
    <3>9. \A j \in offered' :
            /\ ~EndsInGz(j.path)
            /\ Rotating' /\ j.rot = rotations' =>
                 \A m \in Pending' : m.n < j.path.n /\ NewName(m) # j.path
      BY <2>0, <2>1, <3>5, <3>7, <3>8 DEF Course, Rotating
    <3> QED BY <2>0, <3>1, <3>9 DEF Course, Rotating
  <2> QED BY <1>7, <2>2, <2>3 DEF Move
<1>8. CASE Reopen
  <2>1. /\ UNCHANGED <<step, pc, offered, doomed, moves, moving, rotations>>
        /\ stage = "rotate" /\ stage' = "serve" /\ doomed = {} /\ moves = {}
    BY <1>8 DEF Reopen, wqVars, jobVars
  <2> QED BY <2>1 DEF Course, Rotating
<1>9. CASE Crash
  <2>1. /\ step' = "none" /\ doomed' = {} /\ moves' = {} /\ moving' = Log /\ offered' = {}
        /\ stage' = "serve"
    BY <1>9 DEF Crash
  <2> QED BY <2>1 DEF Course
<1>10. CASE UNCHANGED vars
  BY <1>1, <1>10 DEF vars, wqVars, rotVars, jobVars, Course
<1> QED
  BY <1>2, <1>3, <1>4, <1>5, <1>6, <1>7, <1>8, <1>9, <1>10 DEF Next, Step, Rotation

-----------------------------------------------------------------------------
(* What this gives *)

Base == Typed /\ Named /\ Course /\ Work

LEMMA BaseStarts == Init => Base
<1> SUFFICES ASSUME Init PROVE Base
  OBVIOUS
<1>0. /\ MaxLines \in Nat /\ MaxRotations \in Nat /\ MaxCrashes \in Nat /\ MaxFaults \in Nat
      /\ WQ!Init /\ rotations = 0 /\ stage = "serve"
  BY BoundsAssumption DEF Init
<1>1. files \in Seq(SUBSET (1..written)) /\ Len(files) = 1
  <2>1. files = <<{}>> /\ {} \in SUBSET (1..written)
    BY DEF Init
  <2> QED BY <2>1
<1>2. dir \in [DOMAIN dir -> 0..Len(files)] /\ DOMAIN dir = {Log} /\ dir[Log] = 1
  BY <1>1 DEF Init
<1>3. Typed
  <2>1. written = 0 /\ written \in 0..MaxLines /\ rotations \in 0..MaxRotations
        /\ crashes \in 0..MaxCrashes /\ faults \in 0..MaxFaults
    BY <1>0 DEF Init
  <2>2. in \in 0..Len(files) /\ out \in 0..Len(files) /\ fd \in 0..Len(files) /\ held \in 0..Len(files)
    BY <1>1 DEF Init
  <2>3. maxOld \in MaxOlds /\ held = 0 /\ step = "none" /\ stage = "serve"
        /\ aged = {} /\ late = {} /\ raced = FALSE
    BY DEF Init
  <2> QED BY <1>1, <1>2, <2>1, <2>2, <2>3 DEF Typed
<1>4. Pending = {} /\ offered = {}
  BY <1>0 DEF Init, WQ!Init, Pending
<1>5. Named
  <2>1. Log \in Upto(0) /\ fd = 1
    BY LogIs DEF Init
  <2> QED BY <1>0, <1>2, <1>4, <2>1 DEF Named, There
<1>6. Course
  BY <1>0, <1>4 DEF Init, Course
<1>7. Work
  <2>1. WQP!Init
    BY <1>0 DEF WQ!Init, WQP!Init
  <2> QED BY <1>0, <2>1, QueueStarts DEF WQ!Init, Work, Ending
<1> QED BY <1>3, <1>5, <1>6, <1>7 DEF Base

LEMMA BaseKept == Base /\ [Next]_vars => Base'
BY TypedKept, NamedKept, CourseKept, WorkKept, EndingKept DEF Base, Work

LEMMA BaseHolds == Spec => []Base
BY BaseStarts, BaseKept, PTL DEF Spec

LEMMA BaseIsTyped == Base => TypeOK
<1> SUFFICES ASSUME Base PROVE TypeOK
  OBVIOUS
<1>1. MaxRotations \in Nat /\ rotations \in 0..MaxRotations /\ rotations \in Nat /\ rotations - 1 \in Int
      /\ Len(files) \in Nat
  BY BoundsAssumption, LenProperties DEF Base, Typed
<1>2. ASSUME NEW k \in Int, k <= MaxRotations PROVE Upto(k) \subseteq Names
  <2> SUFFICES ASSUME NEW a \in Upto(k) PROVE a \in Names
    OBVIOUS
  <2>1. a \in AnyName /\ a.n \in -1..(k - 1) /\ Len(a.ext) <= 2 * k /\ Len(a.ext) \in Nat
    BY DEF Upto, AnyName
  <2> QED BY <1>1, <1>2, <2>1, NamesAre
<1>3. DOMAIN dir \subseteq Names /\ Pending \subseteq Names
  BY <1>1, <1>2 DEF Base, Named
<1>4. Log \in Names
  <2>1. 0 \in Int /\ Log \in Upto(0)
    BY LogIs
  <2> QED BY <1>1, <1>2, <2>1
<1>5. doomed \subseteq Names /\ moves \subseteq Names /\ moving \in Names
  BY <1>3, <1>4 DEF Base, Course, Pending
<1>6. WQ!TypeOK
  BY DEF Base, Work, WQP!IInv, WQP!TypeOK, WQ!TypeOK, WQP!Places, WQ!Places
<1>7. fd \in 1..Len(files)
  BY <1>1 DEF Base, Typed, Named
<1>8. \A name \in DOMAIN dir : dir[name] \in 0..Len(files)
  BY DEF Base, Typed
<1>9. \A k \in DOMAIN files : files[k] \subseteq 1..written
  <2>1. \A k \in DOMAIN files : files[k] \in SUBSET (1..written)
    BY ElementOfSeq, LenProperties DEF Base, Typed
  <2> QED BY <2>1
<1> QED BY <1>3, <1>5, <1>6, <1>7, <1>8, <1>9 DEF Base, Typed, TypeOK

(***************************************************************************)
(* The types of Rotate, for every choice of the constants: a name never    *)
(* has more than one suffix and one temporary suffix for each rotation,    *)
(* and a descriptor always stands for a file (hupev, rotate, compress).    *)
(***************************************************************************)
THEOREM TypeCorrect == Spec => []TypeOK
BY BaseHolds, BaseIsTyped, PTL

LEMMA BaseRunsAll == Base => FinishRunsAll
<1> SUFFICES ASSUME Base, stage = "over"
             PROVE  offered = done \cup dropped /\ Cardinality(dropped) <= 1
  BY DEF FinishRunsAll
<1>1. /\ pc[Worker] = "exited" /\ jobs = <<>> /\ refused = {} /\ \A i, j \in dropped : i = j
      /\ WQP!InOnePlace
  BY DEF Base, Work, Ending, WQP!IInv
<1>2. WQP!Queued = {} /\ WQP!Held = {}
  <2>1. WQP!Queued = {}
    BY <1>1 DEF WQP!Queued, WQP!Range
  <2>2. WQP!Held = {}
    BY <1>1 DEF WQP!Held
  <2> QED BY <2>1, <2>2
<1>3. Cardinality(dropped) <= 1
  <2>1. CASE dropped = {}
    BY <2>1, FS_EmptySet
  <2>2. ASSUME NEW i \in dropped PROVE Cardinality(dropped) <= 1
    <3>1. dropped = {i}
      BY <1>1
    <3> QED BY <3>1, FS_Singleton
  <2> QED BY <2>1, <2>2
<1> QED BY <1>1, <1>2, <1>3 DEF WQP!InOnePlace

(***************************************************************************)
(* When the program has ended, every archive queued for compression has    *)
(* been compressed, but for one at most, whatever the number of rotations, *)
(* crashes and failures: it is the one the thread had just taken when      *)
(* background_finish set quit.                                             *)
(***************************************************************************)
THEOREM JobsAreFinished == Spec => []FinishRunsAll
BY BaseHolds, BaseRunsAll, PTL

-----------------------------------------------------------------------------
(* Where the lines are *)

\* A file has one name.
OneName == \A a, b \in DOMAIN dir : dir[a] = dir[b] => a = b \/ dir[a] = 0

LEMMA OneNameKept == Base /\ OneName /\ [Next]_vars => OneName'
<1> SUFFICES ASSUME Base, OneName, [Next]_vars PROVE OneName'
  OBVIOUS
<1>0. Typed /\ dir \in [DOMAIN dir -> 0..Len(files)] /\ Len(files) \in Nat
  BY LenProperties DEF Base, Typed
<1>1. ASSUME UNCHANGED dir PROVE OneName'
  BY <1>1 DEF OneName
<1>2. ASSUME NEW name, NEW file, dir' = Bind(dir, name, file),
             file = 0 \/ \A a \in DOMAIN dir : dir[a] # file
      PROVE  OneName'
  BY <1>2 DEF OneName, Bind
<1>3. ASSUME NEW name, dir' = Unbind(dir, name) PROVE OneName'
  BY <1>3 DEF OneName, Unbind
<1>4. ASSUME NEW from, NEW to, There(from), dir' = Renamed(from, to) PROVE OneName'
  BY <1>4 DEF OneName, Renamed, Bind, Unbind, There
<1>5. ASSUME OpenLog PROVE OneName'
  <2>1. CASE There(Log)
    BY <1>1, <1>5, <2>1 DEF OpenLog
  <2>2. CASE ~There(Log)
    <3>1. dir' = Bind(dir, Log, Len(files')) /\ files' = Append(files, {})
      BY <1>5, <2>2 DEF OpenLog
    <3>2. Len(files') = Len(files) + 1
      BY <1>0, <3>1, AppendProperties DEF Typed
    <3>3. \A a \in DOMAIN dir : dir[a] # Len(files')
      BY <1>0, <3>2
    <3> QED BY <1>2, <3>1, <3>3
  <2> QED BY <2>1, <2>2
<1>6. CASE OpenOut
  <2>1. CASE There(Tmp(Path))
    BY <1>1, <1>6, <2>1 DEF OpenOut
  <2>2. CASE ~There(Tmp(Path))
    <3>1. dir' = Bind(dir, Tmp(Path), Len(files')) /\ files' = Append(files, {})
      BY <1>6, <2>2 DEF OpenOut
    <3>2. Len(files') = Len(files) + 1
      BY <1>0, <3>1, AppendProperties DEF Typed
    <3>3. \A a \in DOMAIN dir : dir[a] # Len(files')
      BY <1>0, <3>2
    <3> QED BY <1>2, <3>1, <3>3
  <2> QED BY <2>1, <2>2
<1>7. CASE RenameOut
  BY <1>1, <1>4, <1>7 DEF RenameOut
<1>8. CASE Unlink
  BY <1>3, <1>8 DEF Unlink
<1>9. CASE Move
  BY <1>1, <1>4, <1>9 DEF Move
<1>10. ASSUME NEW name \in moves, Place(name) PROVE OneName'
  BY <1>1, <1>2, <1>10 DEF Place
<1>11. ASSUME NEW name \in doomed, Delete(name) PROVE OneName'
  BY <1>3, <1>11 DEF Delete
<1>12. CASE Reopen \/ Crash
  BY <1>5, <1>12 DEF Reopen, Crash
<1>13. CASE \/ TakeFd \/ WriteLine \/ Hup \/ Loop \/ SpuriousWakeup \/ OpenIn \/ Block \/ BlockFails
            \/ Finish \/ Drain \/ UNCHANGED vars
  BY <1>1, <1>13 DEF TakeFd, WriteLine, Hup, Loop, SpuriousWakeup, OpenIn, Block, BlockFails,
     Finish, Drain, vars
<1> QED
  BY <1>6, <1>7, <1>8, <1>9, <1>10, <1>11, <1>12, <1>13 DEF Next, Step, Rotation, Compress

\* The name that has been made and is still to get its file
Awaited(a) == stage = "placed" /\ a = NewName(moving)

Real == {a \in Archives : ~Awaited(a)}

\* The number a name has, or will have when the rotation is over
Level(a) == IF a \in Pending THEN a.n + 1 ELSE a.n

\* The lines there are to keep
Kept == 1..written \ (aged \cup late)

Has(a, y) == y \in Lines(dir[a])

LEMMA LevelIs ==
  ASSUME Base, NEW a \in DOMAIN dir
  PROVE  /\ a \in AnyName /\ a.n \in Int /\ -1 <= a.n /\ (a.n = -1 => a = Log)
         /\ Level(a) \in Int
         /\ a \in Pending => Level(a) = a.n + 1
         /\ a \notin Pending => Level(a) = a.n
<1>1. a \in Upto(rotations) /\ rotations \in Int
  BY BoundsAssumption DEF Base, Named, Typed
<1> QED BY <1>1 DEF Level, Upto

\* While the rotation stands still
LEMMA StandsStill ==
  ASSUME UNCHANGED <<doomed, moves, moving>>, (stage' = "placed") = (stage = "placed")
  PROVE  /\ Pending' = Pending
         /\ \A a : Level(a)' = Level(a)
         /\ \A a : Awaited(a)' = Awaited(a)
         /\ UNCHANGED dir => Archives' = Archives /\ Real' = Real
<1>1. Pending' = Pending /\ (\A a : Awaited(a)' = Awaited(a))
  BY DEF Pending, Awaited
<1>2. \A a : Level(a)' = Level(a)
  BY <1>1 DEF Level
<1>3. UNCHANGED dir => Archives' = Archives /\ Real' = Real
  BY <1>1 DEF Archives, Real
<1> QED BY <1>1, <1>2, <1>3

(***************************************************************************)
(* What rotation has still to come to is there, and has a lower number     *)
(* than what it has done; the job that runs is one of this rotation, and   *)
(* the file it reads has kept its name.                                    *)
(***************************************************************************)
Undisturbed ==
  /\ Pending \subseteq DOMAIN dir
  /\ stage = "placed" => There(NewName(moving))
  /\ \A a \in Pending, b \in Real \ Pending : a.n < b.n
  /\ step # "none" => /\ Rotating => got[Worker].rot = rotations
                      /\ There(Path) /\ dir[Path] = in

LEMMA AtJob ==
  ASSUME Base, Undisturbed, step # "none"
  PROVE  /\ pc[Worker] = "run" /\ There(Path) /\ dir[Path] = in
         /\ Path \in AnyName /\ Path.n \in Int /\ Tmp(Path).n = Path.n /\ Done(Path).n = Path.n
         /\ Tmp(Path) # Path /\ Done(Path) # Path /\ Tmp(Path) # Done(Path)
         /\ \A m \in Pending : m.n < Path.n
         /\ {Path, Tmp(Path), Done(Path)} \cap Pending = {}
         /\ Level(Path) = Path.n /\ Level(Done(Path)) = Path.n
         /\ ~Awaited(Path)
         /\ ~IsArchive(Tmp(Path))
         /\ IsArchive(Path) <=> Path.ext = <<>>
         /\ IsArchive(Done(Path)) <=> IsArchive(Path)
<1>1. /\ pc[Worker] = "run" /\ got[Worker] \in offered /\ Path \in AnyName /\ ~EndsInGz(Path)
      /\ Path.n \in Int
  BY PathIs DEF Base, Work, AnyName
<1>2. /\ Tmp(Path).n = Path.n /\ Done(Path).n = Path.n
      /\ Tmp(Path) # Path /\ Done(Path) # Path /\ Tmp(Path) # Done(Path)
      /\ ~IsArchive(Tmp(Path)) /\ (IsArchive(Path) <=> Path.ext = <<>>)
      /\ (IsArchive(Done(Path)) <=> IsArchive(Path))
  BY <1>1, NamesApart
<1>3. \A m \in Pending : m.n < Path.n /\ NewName(m) # Path
  <2>1. CASE Rotating
    <3>1. got[Worker].rot = rotations
      BY <2>1 DEF Undisturbed
    <3> QED BY <1>1, <2>1, <3>1 DEF Base, Course, Path
  <2>2. CASE ~Rotating
    <3>1. Pending = {}
      BY <2>2 DEF Base, Course, Pending, Rotating
    <3> QED BY <3>1
  <2> QED BY <2>1, <2>2
<1>4. \A m \in Pending : m.n \in Int
  BY LevelIs DEF Undisturbed
<1>5. {Path, Tmp(Path), Done(Path)} \cap Pending = {}
  BY <1>1, <1>2, <1>3, <1>4
<1>6. ~Awaited(Path)
  BY <1>3 DEF Awaited, Pending
<1> QED BY <1>1, <1>2, <1>3, <1>5, <1>6 DEF Undisturbed, Level

\* What the main thread is about to rename
LEMMA AtMove ==
  ASSUME Base, Undisturbed, stage = "placed"
  PROVE  /\ moving \in Pending /\ There(moving) /\ There(NewName(moving))
         /\ moving \in AnyName /\ moving.n \in Int /\ NewName(moving).n = moving.n + 1
         /\ NewName(moving) # moving /\ NewName(moving) \notin Pending
         /\ \A m \in Pending : m.n <= moving.n
         /\ doomed = {} /\ moving \notin moves /\ Pending = moves \cup {moving}
         /\ Level(moving) = moving.n + 1 /\ Level(NewName(moving)) = moving.n + 1
         /\ ~Awaited(moving)
         /\ IsArchive(NewName(moving)) <=> IsArchive(moving)
<1>1. /\ moving \in Pending /\ There(moving) /\ There(NewName(moving)) /\ doomed = {}
      /\ moving \notin moves /\ Pending = moves \cup {moving}
      /\ \A m \in moves : m.n <= moving.n
  BY DEF Base, Course, Undisturbed, Pending, There
<1>2. moving \in AnyName /\ moving.n \in Int /\ Level(moving) = moving.n + 1
  BY <1>1, LevelIs DEF There
<1>3. NewName(moving).n = moving.n + 1 /\ (IsArchive(NewName(moving)) <=> IsArchive(moving))
  BY <1>2, NamesApart
<1>4. \A m \in Pending : m.n <= moving.n
  BY <1>1, <1>2
<1>5. NewName(moving) # moving /\ NewName(moving) \notin Pending
  BY <1>2, <1>3, <1>4
<1>6. Level(NewName(moving)) = moving.n + 1
  BY <1>3, <1>5 DEF Level
<1> QED BY <1>1, <1>2, <1>3, <1>4, <1>5, <1>6 DEF Awaited

\* The compressor's output has its own name until it is complete, and none
\* writes to it.
Copying ==
  step \in {"copy", "rename"} =>
    /\ There(Tmp(Path)) /\ dir[Tmp(Path)] = out
    /\ ~Awaited(Tmp(Path))
    /\ out \notin {0, fd, held}
    /\ Lines(out) \subseteq Lines(in)
    /\ step = "rename" => Lines(in) \ late \subseteq Lines(out)

Copied == step = "unlink" => There(Done(Path))

LEMMA UndisturbedKept ==
  Base /\ Undisturbed /\ Copying /\ [Next]_vars /\ Base' /\ ~raced' => Undisturbed'
<1> SUFFICES ASSUME Base, Undisturbed, Copying, [Next]_vars, Base', ~raced' PROVE Undisturbed'
  OBVIOUS
<1>0. /\ WQP!IInv /\ pc \in [{Worker} -> WQP!Places] /\ (step # "none" => pc[Worker] = "run")
      /\ Course /\ rotations \in Int
  <2>1. rotations \in Int
    BY BoundsAssumption DEF Base, Typed
  <2> QED BY <2>1 DEF Base, Work, WQP!IInv, WQP!TypeOK, Course
<1>1. ASSUME UNCHANGED <<dir, doomed, moves, moving, rotations>>, (stage' = "placed") = (stage = "placed"),
             Rotating' => Rotating,
             step' # "none" => step # "none" /\ UNCHANGED <<got, in>>
      PROVE  Undisturbed'
  BY <1>1, StandsStill DEF Undisturbed, There, Path
<1>2. CASE TakeFd \/ WriteLine \/ Loop \/ SpuriousWakeup \/ Finish \/ Drain
  <2>1. /\ UNCHANGED <<dir, doomed, moves, moving, rotations, step, in>>
        /\ (stage' = "placed") = (stage = "placed") /\ (Rotating' => Rotating)
    BY <1>2 DEF TakeFd, WriteLine, Loop, SpuriousWakeup, Finish, Drain, rotVars, jobVars, Rotating
  <2>2. step # "none" => UNCHANGED got
    BY <1>0, <1>2 DEF TakeFd, WriteLine, Loop, SpuriousWakeup, Finish, Drain, wqVars,
       WQ!GetWork, WQ!Resume, WQ!CheckQuit, WQ!CheckFlag, WQ!SpuriousWakeup, WQ!SetQuit
  <2> QED BY <1>1, <2>1, <2>2
<1>3. CASE Hup
  <2>1. /\ step' = "none" /\ stage' = "rotate" /\ dir' = dir
        /\ Pending' = DOMAIN dir
    BY <1>3 DEF Hup, jobVars, Pending
  <2>2. Real' \subseteq DOMAIN dir
    BY <2>1 DEF Real, Archives
  <2> QED BY <2>1, <2>2 DEF Undisturbed
<1>4. ASSUME NEW name \in doomed, Delete(name) PROVE Undisturbed'
  <2>1. /\ stage = "rotate" /\ stage' = "rotate" /\ dir' = Unbind(dir, name)
        /\ doomed' = doomed \ {name} /\ UNCHANGED <<moves, moving, rotations, step, in, got>>
    BY <1>4 DEF Delete, wqVars, jobVars
  <2>2. Pending = doomed \cup moves /\ Pending' = Pending \ {name} /\ name \in Pending
    BY <1>0, <2>1 DEF Pending, Course
  <2>3. DOMAIN dir' = DOMAIN dir \ {name} /\ \A a \in DOMAIN dir' : dir'[a] = dir[a]
    BY <2>1 DEF Unbind
  <2>4. Real' \ Pending' \subseteq Real \ Pending
    BY <2>1, <2>2, <2>3 DEF Real, Archives, Awaited
  <2>5. step # "none" => Path # name
    BY <2>2, AtJob
  <2>6. step' # "none" => /\ Rotating' => got'[Worker].rot = rotations'
                          /\ There(Path)' /\ dir'[Path'] = in'
    BY <2>1, <2>3, <2>5 DEF Undisturbed, There, Path, Rotating
  <2> QED BY <2>1, <2>2, <2>3, <2>4, <2>6 DEF Undisturbed
<1>5. ASSUME NEW name \in moves, Place(name) PROVE Undisturbed'
  <2>0. /\ stage = "rotate" /\ doomed = {} /\ name \in Pending /\ Pending = moves
        /\ UNCHANGED <<doomed, rotations, step, in, got>> /\ moves' = moves \ {name}
    BY <1>5 DEF Place, wqVars, jobVars, Pending
  <2>1. CASE There(NewName(name))
    <3>1. stage' = "rotate" /\ dir' = dir /\ ~IsArchive(name)
      BY <1>5, <2>1 DEF Place
    <3>2. Pending' = Pending \ {name}
      BY <2>0, <3>1 DEF Pending
    <3>3. Real' \ Pending' \subseteq Real \ Pending
      BY <2>0, <3>1, <3>2 DEF Real, Archives, Awaited
    <3> QED BY <2>0, <3>1, <3>2, <3>3 DEF Undisturbed, There, Path, Rotating
  <2>2. CASE ~There(NewName(name))
    <3>1. stage' = "placed" /\ moving' = name /\ dir' = Bind(dir, NewName(name), 0)
      BY <1>5, <2>2 DEF Place
    <3>2. Pending' = Pending
      BY <2>0, <3>1 DEF Pending
    <3>3. DOMAIN dir' = DOMAIN dir \cup {NewName(name)} /\ \A a \in DOMAIN dir : dir'[a] = dir[a]
      BY <2>2, <3>1 DEF Bind, There
    <3>4. Real' \subseteq Real
      BY <2>0, <3>1, <3>3 DEF Real, Archives, Awaited
    <3>5. step' # "none" => /\ Rotating' => got'[Worker].rot = rotations'
                            /\ There(Path)' /\ dir'[Path'] = in'
      BY <2>0, <3>3 DEF Undisturbed, There, Path, Rotating
    <3> QED BY <3>1, <3>2, <3>3, <3>4, <3>5 DEF Undisturbed, There
  <2> QED BY <2>1, <2>2
<1>6. CASE Move
  <2>1. /\ stage = "placed" /\ stage' = "rotate" /\ UNCHANGED <<doomed, moves, rotations, step, in>>
    BY <1>6 DEF Move, jobVars
  <2>2. /\ There(moving) /\ NewName(moving) # moving /\ doomed = {} /\ Pending = moves \cup {moving}
        /\ moving \notin moves /\ NewName(moving) \notin Pending
        /\ NewName(moving).n = moving.n + 1 /\ moving.n \in Int
        /\ \A m \in Pending : m.n <= moving.n
    BY <2>1, AtMove
  <2>3. dir' = Renamed(moving, NewName(moving)) /\ UNCHANGED got
    BY <1>6, <2>2 DEF Move, wqVars, WQ!SendWork
  <2>4. /\ DOMAIN dir' = (DOMAIN dir \ {moving}) \cup {NewName(moving)}
        /\ \A a \in DOMAIN dir \ {moving, NewName(moving)} : dir'[a] = dir[a]
    BY <2>2, <2>3 DEF Renamed, Bind, Unbind, There
  <2>5. Pending' = moves
    BY <2>1, <2>2 DEF Pending
  <2>6. Real' \ Pending' \subseteq (Real \ Pending) \cup {NewName(moving)}
    BY <2>1, <2>2, <2>4, <2>5 DEF Real, Archives, Awaited
  <2>7. \A a \in Pending' : a.n < NewName(moving).n
    <3>1. \A m \in Pending : m.n \in Int
      BY LevelIs DEF Undisturbed
    <3> QED BY <2>2, <2>5, <3>1
  <2>8. step' # "none" => /\ Rotating' => got'[Worker].rot = rotations'
                          /\ There(Path)' /\ dir'[Path'] = in'
    <3>1. step # "none" => Path \notin {moving, NewName(moving)}
      BY <2>1, <2>2, AtJob DEF Awaited
    <3> QED BY <2>1, <2>3, <2>4, <3>1 DEF Undisturbed, There, Path, Rotating
  <2> QED BY <2>1, <2>2, <2>4, <2>5, <2>6, <2>7, <2>8 DEF Undisturbed
<1>7. CASE Reopen
  <2>1. /\ OpenLog /\ stage' = "serve" /\ Pending' = {} /\ UNCHANGED <<step, in, got, written>>
    BY <1>7 DEF Reopen, Pending, wqVars, jobVars
  <2>2. DOMAIN dir \subseteq DOMAIN dir' /\ \A a \in DOMAIN dir : dir'[a] = dir[a]
    BY <2>1, LogOpened DEF Base
  <2> QED BY <2>1, <2>2 DEF Undisturbed, There, Path, Rotating
<1>8. CASE Crash
  <2>1. stage' = "serve" /\ Pending' = {} /\ step' = "none"
    BY <1>8 DEF Crash, Pending
  <2> QED BY <2>1 DEF Undisturbed
<1>9. CASE Block \/ BlockFails
  <2>1. \/ UNCHANGED <<dir, rotVars, got, in>> /\ step # "none"
        \/ step' = "none" /\ UNCHANGED <<dir, rotVars>>
    BY <1>9 DEF Block, BlockFails, Runs, wqVars, JobEnds
  <2>2. UNCHANGED <<dir, rotVars>> /\ (step' # "none" => step # "none" /\ UNCHANGED <<got, in>>)
    BY <2>1
  <2> QED BY <1>1, <2>2 DEF rotVars, Rotating
<1>10. CASE OpenIn
  <2>1. CASE There(Path)
    <3>1. /\ in' = dir[Path] /\ ~(Rotating /\ got[Worker].rot < rotations) /\ UNCHANGED <<dir, rotVars, got>>
          /\ pc[Worker] = "run"
      BY <1>10, <2>1 DEF OpenIn, wqVars, Runs
    <3>2. got[Worker].rot \in 1..MaxRotations /\ got[Worker].rot <= rotations
      BY <1>0, <3>1, PathIs DEF Base
    <3>3. Rotating => got[Worker].rot = rotations
      BY <1>0, <3>1, <3>2, BoundsAssumption
    <3> QED BY <2>1, <3>1, <3>3, StandsStill DEF Undisturbed, There, Path, Rotating, rotVars
  <2>2. CASE ~There(Path)
    <3>1. step' = "none" /\ UNCHANGED <<dir, rotVars>>
      BY <1>10, <2>2 DEF OpenIn, JobEnds
    <3> QED BY <1>1, <3>1 DEF rotVars, Rotating
  <2> QED BY <2>1, <2>2
<1>11. CASE OpenOut
  <2>1. CASE There(Tmp(Path))
    <3>1. step' = "none" /\ UNCHANGED <<dir, rotVars>>
      BY <1>11, <2>1 DEF OpenOut, JobEnds
    <3> QED BY <1>1, <3>1 DEF rotVars, Rotating
  <2>2. CASE ~There(Tmp(Path))
    <3>1. /\ dir' = Bind(dir, Tmp(Path), out') /\ UNCHANGED <<rotVars, got, in>> /\ step # "none"
      BY <1>11, <2>2 DEF OpenOut, wqVars, Runs
    <3>2. DOMAIN dir' = DOMAIN dir \cup {Tmp(Path)} /\ \A a \in DOMAIN dir : dir'[a] = dir[a]
      BY <2>2, <3>1 DEF Bind, There
    <3>3. ~IsArchive(Tmp(Path))
      BY <3>1, AtJob
    <3>4. Pending' = Pending /\ Real' = Real
      BY <3>1, <3>2, <3>3, StandsStill DEF rotVars, Real, Archives
    <3> QED BY <3>1, <3>2, <3>4 DEF Undisturbed, There, Path, Rotating, rotVars
  <2> QED BY <2>1, <2>2
<1>12. CASE RenameOut
  <2>1. /\ step = "rename" /\ There(Tmp(Path)) /\ ~Awaited(Tmp(Path))
    BY <1>12 DEF RenameOut, Runs, Copying
  <2>2. /\ dir' = Renamed(Tmp(Path), Done(Path)) /\ UNCHANGED <<rotVars, got, in>>
    BY <1>12, <2>1 DEF RenameOut, wqVars
  <2>3. /\ Tmp(Path) # Done(Path) /\ Tmp(Path) # Path /\ Done(Path) # Path
        /\ {Tmp(Path), Done(Path)} \cap Pending = {} /\ Done(Path).n = Path.n
        /\ \A m \in Pending : m.n < Path.n
    BY <2>1, AtJob
  <2>4. /\ DOMAIN dir' = (DOMAIN dir \ {Tmp(Path)}) \cup {Done(Path)}
        /\ \A a \in DOMAIN dir \ {Tmp(Path), Done(Path)} : dir'[a] = dir[a]
    BY <2>1, <2>2, <2>3 DEF Renamed, Bind, Unbind, There
  <2>5. Pending' = Pending /\ Real' \subseteq Real \cup {Done(Path)}
    BY <2>2, <2>4, StandsStill DEF rotVars, Real, Archives
  <2>6. stage = "placed" => There(NewName(moving))'
    BY <2>1, <2>2, <2>4 DEF Undisturbed, There, rotVars, Awaited
  <2>7. There(Path)' /\ dir'[Path'] = in'
    BY <2>1, <2>2, <2>3, <2>4 DEF Undisturbed, There, Path
  <2>8. \A a \in Pending', b \in Real' \ Pending' : a.n < b.n
    BY <2>3, <2>5 DEF Undisturbed
  <2>9. Pending' \subseteq DOMAIN dir'
    BY <2>3, <2>4, <2>5 DEF Undisturbed
  <2>10. Rotating' => got'[Worker].rot = rotations'
    BY <2>1, <2>2 DEF Undisturbed, Rotating, rotVars
  <2> QED BY <2>2, <2>6, <2>7, <2>8, <2>9, <2>10 DEF Undisturbed, rotVars
<1>13. CASE Unlink
  <2>1. step' = "none" /\ UNCHANGED rotVars /\ dir' = Unbind(dir, Path) /\ step = "unlink"
    BY <1>13 DEF Unlink, JobEnds, Runs
  <2>2. Path \notin Pending /\ ~Awaited(Path)
    BY <2>1, AtJob
  <2>3. DOMAIN dir' = DOMAIN dir \ {Path}
    BY <2>1 DEF Unbind
  <2>4. Pending' = Pending /\ Real' \subseteq Real
    BY <2>1, <2>3, StandsStill DEF rotVars, Real, Archives
  <2> QED BY <2>1, <2>2, <2>3, <2>4 DEF Undisturbed, There, rotVars, Awaited
<1>14. CASE UNCHANGED vars
  BY <1>1, <1>14 DEF vars, wqVars, rotVars, jobVars, Rotating
<1> QED
  BY <1>2, <1>3, <1>4, <1>5, <1>6, <1>7, <1>8, <1>9, <1>10, <1>11, <1>12, <1>13, <1>14
  DEF Next, Step, Rotation, Compress

LEMMA LineWritten ==
  ASSUME Typed, WriteLine
  PROVE  /\ held \in 1..Len(files) /\ written' = written + 1 /\ written \in Nat
         /\ \A f \in 0..Len(files) : Lines(f)' = IF f = held THEN Lines(f) \cup {written'} ELSE Lines(f)
<1>1. held \in 1..Len(files) /\ files \in Seq(SUBSET (1..written)) /\ written \in Nat
  <2>1. Len(files) \in Nat /\ written \in 0..MaxLines /\ MaxLines \in Nat
    BY BoundsAssumption, LenProperties DEF Typed
  <2>2. held # 0
    BY DEF WriteLine
  <2> QED BY <2>1, <2>2 DEF Typed
<1>2. files' = [files EXCEPT ![held] = files[held] \cup {written'}] /\ written' = written + 1
  BY DEF WriteLine
<1>3. \A i \in 1..Len(files) : files'[i] = IF i = held THEN files[held] \cup {written'} ELSE files[i]
  BY <1>1, <1>2
<1>4. ASSUME NEW f \in 0..Len(files)
      PROVE  Lines(f)' = IF f = held THEN Lines(f) \cup {written'} ELSE Lines(f)
  <2>1. CASE f = 0
    BY <1>1, <2>1 DEF Lines
  <2>2. CASE f # 0
    <3>1. f \in 1..Len(files) /\ Lines(f) = files[f] /\ Lines(f)' = files'[f]
      BY <2>2, LenProperties DEF Lines, Typed
    <3> QED BY <1>3, <3>1
  <2> QED BY <2>1, <2>2
<1> QED BY <1>1, <1>2, <1>4

LEMMA CopyingKept ==
  Base /\ OneName /\ Undisturbed /\ Copying /\ Copied /\ [Next]_vars /\ ~raced' => Copying' /\ Copied'
<1> SUFFICES ASSUME Base, OneName, Undisturbed, Copying, Copied, [Next]_vars, ~raced'
             PROVE  Copying' /\ Copied'
  OBVIOUS
<1>0. /\ Typed /\ Len(files) \in Nat /\ in \in 0..Len(files) /\ out \in 0..Len(files)
      /\ WQP!IInv /\ pc \in [{Worker} -> WQP!Places] /\ (step # "none" => pc[Worker] = "run")
  <2>1. Typed /\ Len(files) \in Nat /\ in \in 0..Len(files) /\ out \in 0..Len(files)
    BY LenProperties DEF Base, Typed
  <2> QED BY <2>1 DEF Base, Work, WQP!IInv, WQP!TypeOK, Course
<1>1. ASSUME step' \notin {"copy", "rename", "unlink"} PROVE Copying' /\ Copied'
  BY <1>1 DEF Copying, Copied
\* The output goes on as it was
<1>2. ASSUME UNCHANGED <<step, in, out, got, late>>, out \notin {fd', held'},
             step \in {"copy", "rename"} =>
               There(Tmp(Path))' /\ dir'[Tmp(Path)] = dir[Tmp(Path)] /\ ~Awaited(Tmp(Path))',
             step = "unlink" => There(Done(Path))',
             Lines(in)' = Lines(in), Lines(out)' = Lines(out)
      PROVE  Copying' /\ Copied'
  BY <1>2 DEF Copying, Copied, There, Path
<1>3. ASSUME UNCHANGED <<step, in, out, got, late, fd, dir, moving, files>>, held' \in {held, fd},
             stage' = "placed" => stage = "placed"
      PROVE  Copying' /\ Copied'
  <2>1. Lines(in)' = Lines(in) /\ Lines(out)' = Lines(out)
    BY <1>3 DEF Lines
  <2>2. UNCHANGED Path
    BY <1>3 DEF Path
  <2> QED BY <1>3, <2>1, <2>2 DEF Copying, Copied, There, Awaited
<1>4. CASE TakeFd \/ Loop \/ SpuriousWakeup \/ Finish \/ Drain
  <2>1. /\ UNCHANGED <<dir, moving, step, in, out, late, fd, files>> /\ held' \in {held, fd}
        /\ (stage' = "placed" => stage = "placed")
    BY <1>4 DEF TakeFd, Loop, SpuriousWakeup, Finish, Drain, rotVars, jobVars, logVars, pastVars
  <2>2. step # "none" => UNCHANGED got
    BY <1>0, <1>4 DEF TakeFd, Loop, SpuriousWakeup, Finish, Drain, wqVars,
       WQ!GetWork, WQ!Resume, WQ!CheckQuit, WQ!CheckFlag, WQ!SpuriousWakeup, WQ!SetQuit
  <2> QED BY <1>1, <1>3, <2>1, <2>2
<1>5. CASE WriteLine
  <2>1. /\ held # 0 /\ held' = 0 /\ written' = written + 1
        /\ files' = [files EXCEPT ![held] = @ \cup {written'}]
        /\ UNCHANGED <<dir, step, in, out, got, fd, rotVars>>
        /\ late' = IF held \notin Range(dir) \/ (held = in /\ step \in {"rename", "unlink"})
                   THEN late \cup {written'} ELSE late
    BY <1>5 DEF WriteLine, wqVars, jobVars
  <2>2. Path' = Path /\ \A a : Awaited(a)' = Awaited(a)
    BY <2>1, StandsStill DEF Path, rotVars
  <2>3. \A f \in 0..Len(files) : Lines(f)' = IF f = held THEN Lines(f) \cup {written'} ELSE Lines(f)
    BY <1>0, <1>5, LineWritten
  <2>5. ASSUME step \in {"copy", "rename"}
        PROVE  Lines(out)' \subseteq Lines(in)' /\ (step = "rename" => Lines(in)' \ late' \subseteq Lines(out)')
    <3>1. out # held /\ Lines(out) \subseteq Lines(in) /\ (step = "rename" => Lines(in) \ late \subseteq Lines(out))
      BY <2>5 DEF Copying
    <3>2. Lines(out)' = Lines(out)
      BY <1>0, <2>1, <2>3, <3>1
    <3>3. CASE in = held
      <4>1. Lines(in)' = Lines(in) \cup {written'}
        BY <1>0, <2>1, <2>3, <3>3
      <4>2. step = "rename" => late' = late \cup {written'}
        BY <2>1, <3>3
      <4> QED BY <3>1, <3>2, <4>1, <4>2
    <3>4. CASE in # held
      <4>1. Lines(in)' = Lines(in)
        BY <1>0, <2>1, <2>3, <3>4
      <4> QED BY <2>1, <3>1, <3>2, <4>1
    <3> QED BY <3>3, <3>4
  <2> QED BY <2>1, <2>2, <2>5 DEF Copying, Copied, There
<1>6. CASE Hup
  BY <1>1, <1>6 DEF Hup, jobVars
<1>7. ASSUME NEW name \in doomed, Delete(name) PROVE Copying' /\ Copied'
  <2>1. /\ dir' = Unbind(dir, name) /\ UNCHANGED <<step, in, out, got, late, fd, held, files, moving, stage>>
        /\ name \in Pending
    BY <1>7 DEF Delete, wqVars, jobVars, logVars, Pending
  <2>2. \A f : Lines(f)' = Lines(f)
    BY <2>1 DEF Lines
  <2>3. step # "none" => Tmp(Path) # name /\ Done(Path) # name
    BY <2>1, AtJob
  <2>4. DOMAIN dir' = DOMAIN dir \ {name} /\ \A a \in DOMAIN dir' : dir'[a] = dir[a]
    BY <2>1 DEF Unbind
  <2>5. Path' = Path
    BY <2>1 DEF Path
  <2> QED BY <2>1, <2>2, <2>3, <2>4, <2>5 DEF Copying, Copied, There, Awaited
<1>8. ASSUME NEW name \in moves, Place(name) PROVE Copying' /\ Copied'
  <2>1. UNCHANGED <<step, in, out, got, late, fd, held, files>>
    BY <1>8 DEF Place, wqVars, jobVars, logVars
  <2>2. CASE There(NewName(name))
    BY <1>3, <1>8, <2>1, <2>2 DEF Place
  <2>3. CASE ~There(NewName(name))
    <3>1. dir' = Bind(dir, NewName(name), 0) /\ moving' = name
      BY <1>8, <2>3 DEF Place
    <3>2. DOMAIN dir \subseteq DOMAIN dir' /\ \A a \in DOMAIN dir : a # NewName(name) /\ dir'[a] = dir[a]
      BY <2>3, <3>1 DEF Bind, There
    <3>3. \A f : Lines(f)' = Lines(f)
      BY <2>1 DEF Lines
    <3>4. Path' = Path
      BY <2>1 DEF Path
    <3> QED BY <2>1, <3>1, <3>2, <3>3, <3>4 DEF Copying, Copied, There, Awaited
  <2> QED BY <2>2, <2>3
<1>9. CASE Move
  <2>1. /\ stage = "placed" /\ stage' = "rotate" /\ UNCHANGED <<step, in, out, late, fd, held, files>>
    BY <1>9 DEF Move, jobVars, logVars, pastVars
  <2>2. There(moving) /\ NewName(moving) # moving /\ moving \in Pending
    BY <2>1, AtMove
  <2>3. dir' = Renamed(moving, NewName(moving)) /\ UNCHANGED got
    BY <1>9, <2>2 DEF Move, wqVars, WQ!SendWork
  <2>4. /\ DOMAIN dir' = (DOMAIN dir \ {moving}) \cup {NewName(moving)}
        /\ \A a \in DOMAIN dir \ {moving, NewName(moving)} : dir'[a] = dir[a]
    BY <2>2, <2>3 DEF Renamed, Bind, Unbind, There
  <2>5. step # "none" => Tmp(Path) # moving /\ Done(Path) # moving
    BY <2>2, AtJob
  <2>6. Path' = Path
    BY <2>3 DEF Path
  <2>7. \A f : Lines(f)' = Lines(f)
    BY <2>1 DEF Lines
  <2> QED BY <2>1, <2>4, <2>5, <2>6, <2>7 DEF Copying, Copied, There, Awaited
<1>10. CASE Reopen
  <2>1. /\ OpenLog /\ UNCHANGED <<step, in, out, got, late, held, moving, written>>
        /\ stage' = "serve"
    BY <1>10 DEF Reopen, wqVars, jobVars, pastVars
  <2>2. /\ ~There(Log) => fd' = Len(files) + 1
        /\ DOMAIN dir' = DOMAIN dir \cup {Log} /\ dir'[Log] = fd'
        /\ \A a \in DOMAIN dir : dir'[a] = dir[a]
        /\ \A f \in 0..Len(files) : Lines(f)' = Lines(f)
    BY <1>0, <2>1, LogOpened
  <2>3. Path' = Path
    BY <2>1 DEF Path
  <2>4. step \in {"copy", "rename"} => out # fd'
    <3>1. CASE There(Log)
      <4>1. step # "none" => Tmp(Path).ext # <<>> /\ Tmp(Path) # Log
        BY AtJob, NamesApart, LogIs
      <4> QED BY <2>2, <3>1, <4>1 DEF OneName, Copying, There
    <3>2. CASE ~There(Log)
      BY <1>0, <2>2, <3>2
    <3> QED BY <3>1, <3>2
  <2>5. Lines(in)' = Lines(in) /\ Lines(out)' = Lines(out)
    BY <1>0, <2>1, <2>2
  <2> QED BY <2>1, <2>2, <2>3, <2>4, <2>5 DEF Copying, Copied, There, Awaited
<1>11. CASE Crash
  BY <1>1, <1>11 DEF Crash
<1>12. CASE OpenIn \/ BlockFails \/ Unlink
  <2>1. step' \in {"none", "tmp"}
    BY <1>12 DEF OpenIn, BlockFails, Unlink, JobEnds
  <2> QED BY <1>1, <2>1
<1>13. CASE OpenOut
  <2>1. CASE There(Tmp(Path))
    BY <1>1, <1>13, <2>1 DEF OpenOut, JobEnds
  <2>2. CASE ~There(Tmp(Path))
    <3>1. /\ dir' = Bind(dir, Tmp(Path), out') /\ UNCHANGED <<rotVars, got, in, fd, held>>
          /\ files' = Append(files, {}) /\ out' = Len(files') /\ step' = "copy" /\ written' = written
      BY <1>13, <2>2 DEF OpenOut, wqVars, logVars
    <3>2. out' = Len(files) + 1 /\ files'[out'] = {}
      BY <1>0, <3>1, FileAdded
    <3>3. out' \notin {0, fd, held} /\ Lines(out)' = {}
      BY <1>0, <3>2 DEF Typed, Lines
    <3>4. Tmp(Path) \in DOMAIN dir' /\ dir'[Tmp(Path)] = out'
      BY <3>1 DEF Bind
    <3>5. ~Awaited(Tmp(Path))
      BY <2>2 DEF Undisturbed, Awaited, There
    <3>6. Path' = Path /\ ~Awaited(Tmp(Path))'
      BY <3>1, <3>5, StandsStill DEF Path, rotVars, Awaited
    <3> QED BY <3>1, <3>3, <3>4, <3>6 DEF Copying, Copied, There
  <2> QED BY <2>1, <2>2
<1>14. CASE Block
  <2>1. /\ step = "copy" /\ UNCHANGED <<dir, in, out, got, rotVars, fd, held, late>>
        /\ \/ files[out] # Lines(in) /\ files' = [files EXCEPT ![out] = Lines(in)] /\ step' = "copy"
           \/ files[out] = Lines(in) /\ step' = "rename" /\ UNCHANGED files
    BY <1>14 DEF Block, Runs, wqVars, logVars, pastVars
  <2>2. Path' = Path /\ \A a : Awaited(a)' = Awaited(a)
    BY <2>1, StandsStill DEF Path, rotVars
  <2>3. in # out /\ out # 0 /\ out \in 1..Len(files)
    <3>1. dir[Path] = in /\ There(Path) /\ Tmp(Path) # Path
      BY <2>1, AtJob
    <3> QED BY <1>0, <2>1, <3>1 DEF Copying, OneName, There
  <2>4. Lines(out)' \subseteq Lines(in)' /\ (step' = "rename" => Lines(in)' = Lines(out)')
    <3>1. CASE files' = [files EXCEPT ![out] = Lines(in)] /\ step' = "copy"
      <4>1. files'[out] = Lines(in)
        BY <1>0, <2>3, <3>1 DEF Typed
      <4>2. Lines(in)' = Lines(in)
        BY <2>1, <2>3, <3>1 DEF Lines
      <4> QED BY <2>1, <2>3, <3>1, <4>1, <4>2 DEF Lines
    <3>2. CASE files[out] = Lines(in) /\ step' = "rename" /\ UNCHANGED files
      BY <2>1, <2>3, <3>2 DEF Lines
    <3> QED BY <2>1, <3>1, <3>2
  <2> QED BY <2>1, <2>2, <2>4 DEF Copying, Copied, There
<1>15. CASE RenameOut
  <2>1. CASE There(Tmp(Path))
    <3>1. dir' = Renamed(Tmp(Path), Done(Path)) /\ UNCHANGED got /\ step' = "unlink"
      BY <1>15, <2>1 DEF RenameOut, wqVars
    <3>2. There(Done(Path))'
      BY <3>1 DEF Renamed, Bind, There, Path
    <3> QED BY <3>1, <3>2 DEF Copying, Copied
  <2>2. CASE ~There(Tmp(Path))
    BY <1>1, <1>15, <2>2 DEF RenameOut, JobEnds
  <2> QED BY <2>1, <2>2
<1>16. CASE UNCHANGED vars
  BY <1>3, <1>16 DEF vars, wqVars, rotVars, jobVars, logVars, pastVars
<1> QED
  BY <1>4, <1>5, <1>6, <1>7, <1>8, <1>9, <1>10, <1>11, <1>12, <1>13, <1>14, <1>15, <1>16
  DEF Next, Step, Rotation, Compress

-----------------------------------------------------------------------------
(* What the steps do to the archives *)

LEMMA MoveIs ==
  ASSUME Base, Undisturbed, Move, NEW M, M = moving, NEW N, N = NewName(moving)
  PROVE  /\ stage' = "rotate" /\ M \in DOMAIN dir /\ N # M /\ Awaited(N) /\ ~Awaited(M)
         /\ DOMAIN dir' = (DOMAIN dir \ {M}) \cup {N} /\ dir'[N] = dir[M]
         /\ \A a \in DOMAIN dir' \ {N} : a \in DOMAIN dir /\ a # M /\ dir'[a] = dir[a]
         /\ \A a : ~Awaited(a)'
         /\ Level(N)' = Level(M)
         /\ \A a \in DOMAIN dir' \ {N} : Level(a)' = Level(a)
         /\ IsArchive(N) <=> IsArchive(M)
         /\ M \in Archives => M \in Real
         /\ Archives' = IF IsArchive(M) THEN (Archives \ {M}) \cup {N} ELSE Archives
         /\ Real' = IF IsArchive(M) THEN (Real \ {M}) \cup {N} ELSE Real
<1>1. /\ stage = "placed" /\ stage' = "rotate" /\ UNCHANGED <<doomed, moves>>
  BY DEF Move
<1>2. /\ There(M) /\ N # M /\ doomed = {} /\ Pending = moves \cup {M}
      /\ M \notin moves /\ N \notin Pending /\ ~Awaited(M) /\ (IsArchive(N) <=> IsArchive(M))
      /\ N.n = M.n + 1 /\ Level(M) = M.n + 1
  BY <1>1, AtMove
<1>3. dir' = Renamed(M, N)
  BY <1>2 DEF Move
<1>4. /\ DOMAIN dir' = (DOMAIN dir \ {M}) \cup {N} /\ dir'[N] = dir[M]
      /\ \A a \in DOMAIN dir' \ {N} : a \in DOMAIN dir /\ a # M /\ dir'[a] = dir[a]
  BY <1>2, <1>3 DEF Renamed, Bind, Unbind, There
<1>5. Pending' = moves /\ \A a : ~Awaited(a)'
  BY <1>1, <1>2 DEF Pending, Awaited
<1>6. Level(N)' = Level(M) /\ \A a \in DOMAIN dir' \ {N} : Level(a)' = Level(a)
  BY <1>2, <1>4, <1>5 DEF Level
<1>7. Awaited(N) /\ (M \in Archives => M \in Real)
  BY <1>1, <1>2 DEF Awaited, Real
<1>8. Archives' = IF IsArchive(M) THEN (Archives \ {M}) \cup {N} ELSE Archives
  <2>1. ASSUME NEW a PROVE a \in Archives' <=> a \in DOMAIN dir' /\ IsArchive(a)
    BY DEF Archives
  <2>2. There(N)
    BY <1>1 DEF Undisturbed
  <2> QED BY <1>2, <1>4, <2>1, <2>2 DEF Archives, There
<1>9. Real' = Archives' /\ \A a : Awaited(a) <=> a = N
  BY <1>1, <1>5 DEF Real, Awaited
<1>10. Real' = IF IsArchive(M) THEN (Real \ {M}) \cup {N} ELSE Real
  <2>1. IsArchive(M) => Archives \ {M, N} = Real \ {M}
    BY <1>9 DEF Real
  <2>2. ~IsArchive(M) => Archives = Real
    BY <1>2, <1>9 DEF Real, Archives
  <2> QED BY <1>2, <1>8, <1>9, <2>1, <2>2
<1> QED BY <1>1, <1>2, <1>4, <1>5, <1>6, <1>7, <1>8, <1>10 DEF There

LEMMA RenameOutIs ==
  ASSUME Base, Undisturbed, Copying, RenameOut, NEW P, P = Path, NEW D, D = Done(Path), NEW T, T = Tmp(Path)
  PROVE  /\ step = "rename" /\ step' = "unlink" /\ UNCHANGED <<in, out, got>>
         /\ P # D /\ T # D /\ P # T /\ P \in DOMAIN dir /\ dir[P] = in /\ ~Awaited(P) /\ ~Awaited(T)
         /\ DOMAIN dir' = (DOMAIN dir \ {T}) \cup {D} /\ dir'[D] = out
         /\ \A a \in DOMAIN dir' \ {D} : a \in DOMAIN dir /\ dir'[a] = dir[a]
         /\ \A a : Level(a)' = Level(a)
         /\ \A a : Awaited(a)' = Awaited(a)
         /\ Level(D) = D.n /\ Level(P) = D.n
         /\ IsArchive(D) <=> IsArchive(P)
         /\ IsArchive(P) => P \in Real
         /\ Archives' = IF IsArchive(P) THEN Archives \cup {D} ELSE Archives
         /\ Real' = IF IsArchive(P) /\ ~Awaited(D) THEN Real \cup {D} ELSE Real
<1>1. /\ step = "rename" /\ There(T) /\ ~Awaited(T)
  BY DEF RenameOut, Runs, Copying
<1>2. /\ dir' = Renamed(T, D) /\ step' = "unlink" /\ UNCHANGED <<in, out, got, doomed, moves, moving, stage>>
  BY <1>1 DEF RenameOut, wqVars, rotVars
<1>3. /\ P # D /\ T # D /\ P # T /\ P \in DOMAIN dir /\ dir[P] = in /\ ~Awaited(P)
      /\ Level(D) = D.n /\ Level(P) = D.n /\ (IsArchive(D) <=> IsArchive(P)) /\ ~IsArchive(T)
  BY <1>1, AtJob DEF There
<1>4. dir[T] = out
  BY <1>1 DEF Copying
<1>5. /\ DOMAIN dir' = (DOMAIN dir \ {T}) \cup {D} /\ dir'[D] = out
      /\ \A a \in DOMAIN dir' \ {D} : a \in DOMAIN dir /\ dir'[a] = dir[a]
  BY <1>1, <1>2, <1>3, <1>4 DEF Renamed, Bind, Unbind, There
<1>6. (\A a : Level(a)' = Level(a)) /\ (\A a : Awaited(a)' = Awaited(a))
  BY <1>2, StandsStill
<1>7. Archives' = IF IsArchive(P) THEN Archives \cup {D} ELSE Archives
  BY <1>3, <1>5 DEF Archives
<1>8. Real' = IF IsArchive(P) /\ ~Awaited(D) THEN Real \cup {D} ELSE Real
  BY <1>6, <1>7 DEF Real
<1>9. IsArchive(P) => P \in Real
  BY <1>3 DEF Real, Archives
<1> QED BY <1>1, <1>2, <1>3, <1>5, <1>6, <1>7, <1>8, <1>9

LEMMA UnlinkIs ==
  ASSUME Base, Undisturbed, Copied, Unlink, NEW P, P = Path
  PROVE  /\ step = "unlink" /\ step' = "none"
         /\ P \in DOMAIN dir /\ dir[P] = in /\ ~Awaited(P) /\ P \notin Pending
         /\ DOMAIN dir' = DOMAIN dir \ {P}
         /\ \A a \in DOMAIN dir' : dir'[a] = dir[a]
         /\ \A a : Level(a)' = Level(a)
         /\ \A a : Awaited(a)' = Awaited(a)
         /\ Archives' = Archives \ {P} /\ Real' = Real \ {P}
         /\ P \in Real => \E Q \in Real \ {P} : Level(Q) = Level(P)
<1>1. /\ step = "unlink" /\ step' = "none" /\ dir' = Unbind(dir, P) /\ UNCHANGED <<doomed, moves, moving, stage>>
  BY DEF Unlink, Runs, JobEnds, rotVars
<1>2. P \in DOMAIN dir /\ dir[P] = in /\ ~Awaited(P) /\ P \notin Pending
  BY <1>1, AtJob DEF There
<1>3. DOMAIN dir' = DOMAIN dir \ {P} /\ \A a \in DOMAIN dir' : dir'[a] = dir[a]
  BY <1>1 DEF Unbind
<1>4. (\A a : Level(a)' = Level(a)) /\ (\A a : Awaited(a)' = Awaited(a))
  BY <1>1, StandsStill
<1>5. Archives' = Archives \ {P} /\ Real' = Real \ {P}
  BY <1>3, <1>4 DEF Archives, Real
<1>6. ASSUME P \in Real PROVE \E Q \in Real \ {P} : Level(Q) = Level(P)
  <2>1. IsArchive(P)
    BY <1>6 DEF Real, Archives
  <2>2. /\ There(Done(P)) /\ Done(P) # P /\ IsArchive(Done(P))
        /\ Level(Done(P)) = P.n /\ Level(P) = P.n /\ Done(P).n = P.n
        /\ P \notin Pending
    BY <1>1, <2>1, AtJob DEF Copied
  <2>3. CASE ~Awaited(Done(P))
    <3>1. Done(P) \in Real
      BY <2>2, <2>3 DEF Real, Archives, There
    <3> QED BY <2>2, <3>1
  <2>4. CASE Awaited(Done(P))
    <3>1. stage = "placed" /\ Done(P) = NewName(moving)
      BY <2>4 DEF Awaited
    <3>2. /\ There(moving) /\ IsArchive(moving) /\ ~Awaited(moving) /\ moving \in Pending
          /\ Level(moving) = NewName(moving).n
      BY <2>2, <3>1, AtMove
    <3>3. moving \in Real
      BY <3>2 DEF Real, Archives, There
    <3> QED BY <2>2, <3>1, <3>2, <3>3
  <2> QED BY <2>3, <2>4
<1> QED BY <1>1, <1>2, <1>3, <1>4, <1>5, <1>6

LEMMA HupIs ==
  ASSUME Base, Hup, ~raced'
  PROVE  /\ step = "none" /\ step' = "none" /\ Archives' = Archives /\ Real' = Real
         /\ \A a : ~Awaited(a) /\ ~Awaited(a)'
         /\ \A a \in DOMAIN dir : Level(a)' = Level(a) + 1 /\ Level(a) \in Int
<1>1. /\ stage = "serve" /\ stage' = "rotate" /\ UNCHANGED <<dir, step>> /\ step = "none"
  BY DEF Hup, jobVars
<1>2. Pending' = DOMAIN dir /\ Pending = {}
  BY <1>1 DEF Hup, Pending, Base, Course, Rotating
<1>3. Archives' = Archives /\ Real' = Real /\ \A a : ~Awaited(a) /\ ~Awaited(a)'
  BY <1>1 DEF Real, Archives, Awaited
<1>4. \A a \in DOMAIN dir : Level(a)' = Level(a) + 1 /\ Level(a) \in Int
  BY <1>2, LevelIs DEF Level
<1> QED BY <1>1, <1>3, <1>4

LEMMA DeleteIs ==
  ASSUME Base, Undisturbed, NEW name \in doomed, Delete(name)
  PROVE  /\ name \in Pending /\ name \in DOMAIN dir
         /\ DOMAIN dir' = DOMAIN dir \ {name} /\ \A a \in DOMAIN dir' : dir'[a] = dir[a]
         /\ \A a : Awaited(a)' = Awaited(a)
         /\ \A a \in DOMAIN dir' : Level(a)' = Level(a)
         /\ Archives' = Archives \ {name} /\ Real' = Real \ {name}
<1>1. /\ stage = "rotate" /\ dir' = Unbind(dir, name) /\ doomed' = doomed \ {name}
      /\ UNCHANGED <<moves, moving, stage>>
  BY DEF Delete
<1>2. DOMAIN dir' = DOMAIN dir \ {name} /\ \A a \in DOMAIN dir' : dir'[a] = dir[a]
  BY <1>1 DEF Unbind
<1>3. /\ \A a : Awaited(a)' = Awaited(a) /\ ~Awaited(a)
      /\ \A a \in DOMAIN dir' : (a \in Pending') = (a \in Pending)
  BY <1>1, <1>2 DEF Awaited, Pending
<1>4. name \in Pending /\ name \in DOMAIN dir
  BY DEF Pending, Undisturbed
<1>5. Archives' = Archives \ {name} /\ Real' = Real \ {name}
  BY <1>2, <1>3 DEF Real, Archives
<1>6. \A a \in DOMAIN dir' : Level(a)' = Level(a)
  BY <1>3 DEF Level
<1> QED BY <1>2, <1>3, <1>4, <1>5, <1>6

LEMMA PlaceIs ==
  ASSUME Base, NEW name \in moves, Place(name), ~raced'
  PROVE  /\ Real' = Real /\ Archives' \subseteq Archives \cup (DOMAIN dir' \ DOMAIN dir)
         /\ DOMAIN dir \subseteq DOMAIN dir' /\ \A a \in DOMAIN dir : dir'[a] = dir[a]
         /\ \A a \in DOMAIN dir' \ DOMAIN dir : dir'[a] = 0
         /\ \A a : ~Awaited(a) /\ (a \in DOMAIN dir' /\ Awaited(a)' => dir'[a] = 0)
         /\ \A a \in Archives : Level(a)' = Level(a)
<1>1. stage = "rotate" /\ moves' = moves \ {name} /\ doomed' = doomed
  BY DEF Place
<1>2. CASE There(NewName(name))
  <2>1. UNCHANGED <<dir, stage, moving>> /\ ~IsArchive(name)
    BY <1>2 DEF Place
  <2>2. /\ \A a : ~Awaited(a)' /\ ~Awaited(a)
        /\ Pending \ {name} \subseteq Pending' /\ Pending' \subseteq Pending
    BY <1>1, <2>1 DEF Awaited, Pending
  <2>3. Archives' = Archives /\ Real' = Real /\ name \notin Archives
    BY <2>1, <2>2 DEF Real, Archives
  <2>4. \A a \in Archives : Level(a)' = Level(a)
    BY <2>2, <2>3 DEF Level
  <2> QED BY <2>1, <2>2, <2>3, <2>4
<1>3. CASE ~There(NewName(name))
  <2>1. dir' = Bind(dir, NewName(name), 0) /\ moving' = name /\ stage' = "placed"
    BY <1>3 DEF Place
  <2>2. /\ DOMAIN dir' = DOMAIN dir \cup {NewName(name)} /\ dir'[NewName(name)] = 0
        /\ \A a \in DOMAIN dir : a # NewName(name) /\ dir'[a] = dir[a]
    BY <1>3, <2>1 DEF Bind, There
  <2>3. Pending' = Pending /\ \A a : ~Awaited(a) /\ (Awaited(a)' <=> a = NewName(name))
    BY <1>1, <2>1 DEF Pending, Awaited
  <2>4. Archives' \subseteq Archives \cup {NewName(name)} /\ Archives \subseteq Archives'
    BY <2>2 DEF Archives
  <2>5. Real' = Real
    BY <2>2, <2>3 DEF Real, Archives
  <2>6. \A a : Level(a)' = Level(a)
    BY <2>3 DEF Level
  <2>7. NewName(name) \in DOMAIN dir' \ DOMAIN dir
    BY <2>2
  <2> QED BY <2>2, <2>3, <2>4, <2>5, <2>6, <2>7
<1> QED BY <1>2, <1>3

LEMMA OpenedIs ==
  ASSUME Base, Reopen \/ Crash
  PROVE  /\ Len(files) \in Nat /\ UNCHANGED <<written, aged, late>>
         /\ DOMAIN dir' = DOMAIN dir \cup {Log} /\ dir'[Log] = fd' /\ fd' # 0
         /\ \A a \in DOMAIN dir : dir'[a] = dir[a]
         /\ ~There(Log) => fd' = Len(files) + 1 /\ Lines(fd)' = {}
         /\ \A f \in 0..Len(files) : Lines(f)' = Lines(f)
         /\ \A a : ~Awaited(a)' /\ Level(a)' = a.n
         /\ Archives' = Archives \cup {Log} /\ Real' = Archives'
         /\ \A a \in DOMAIN dir' : a.n \in Int /\ -1 <= a.n /\ (a.n = -1 => a = Log)
         /\ Log.n = -1 /\ Log.ext = <<>>
<1>1. OpenLog /\ UNCHANGED <<written, aged, late>> /\ stage' = "serve" /\ Pending' = {}
  BY DEF Reopen, Crash, Pending, pastVars
<1>2. /\ Len(files) \in Nat
      /\ ~There(Log) => fd' = Len(files) + 1 /\ files'[fd'] = {}
      /\ DOMAIN dir' = DOMAIN dir \cup {Log} /\ dir'[Log] = fd'
      /\ \A a \in DOMAIN dir : dir'[a] = dir[a]
      /\ \A f \in 0..Len(files) : Lines(f)' = Lines(f)
  BY <1>1, LogOpened, LenProperties DEF Base, Typed
<1>3. fd' # 0
  BY <1>2 DEF Base, Named, There
<1>4. ~There(Log) => Lines(fd)' = {}
  BY <1>2 DEF Lines
<1>5. \A a : ~Awaited(a)' /\ Level(a)' = a.n
  BY <1>1 DEF Awaited, Level
<1>6. IsArchive(Log) /\ Log.n = -1 /\ Log.ext = <<>> /\ Log \in AnyName
  BY LogIs DEF IsArchive
<1>7. Archives' = Archives \cup {Log} /\ Real' = Archives'
  BY <1>2, <1>5, <1>6 DEF Archives, Real
<1>8. \A a \in DOMAIN dir' : a.n \in Int /\ -1 <= a.n /\ (a.n = -1 => a = Log)
  BY <1>2, <1>6, LevelIs
<1> QED BY <1>1, <1>2, <1>3, <1>4, <1>5, <1>6, <1>7, <1>8

-----------------------------------------------------------------------------
(* The logs *)

(***************************************************************************)
(* What is written to has the name of a log, and no other file at its      *)
(* level but while the compressor has made its copy and not removed it.    *)
(***************************************************************************)
LogsNamed ==
  \A a \in DOMAIN dir : dir[a] \in {fd, held} /\ dir[a] # 0 => a.ext = <<>> /\ ~Awaited(a)

LogsAlone ==
  \A a, b \in Real : dir[a] \in {fd, held} /\ dir[a] # 0 /\ Level(a) = Level(b) /\ a # b =>
                       dir[a] = in /\ step = "unlink"

Logs == LogsNamed /\ LogsAlone

LEMMA LogsKept ==
  Base /\ OneName /\ Undisturbed /\ Copying /\ Copied /\ Logs /\ [Next]_vars /\ OneName' /\ ~raced' => Logs'
<1> SUFFICES ASSUME Base, OneName, Undisturbed, Copying, Copied, Logs, [Next]_vars, OneName', ~raced'
             PROVE  Logs'
  OBVIOUS
<1>0. /\ Typed /\ Len(files) \in Nat /\ fd \in 0..Len(files) /\ held \in 0..Len(files)
      /\ in \in 0..Len(files) /\ Real \subseteq DOMAIN dir
  BY LenProperties DEF Base, Typed, Real, Archives
<1>1. ASSUME \A a \in DOMAIN dir' : dir'[a] \in {fd', held'} /\ dir'[a] # 0 =>
               /\ a \in DOMAIN dir /\ dir[a] = dir'[a] /\ dir[a] \in {fd, held}
               /\ Awaited(a)' => Awaited(a)
      PROVE  LogsNamed'
  BY <1>1 DEF Logs, LogsNamed
<1>2. ASSUME Real' \subseteq Real,
             \A a \in Real' : dir'[a] \in {fd', held'} /\ dir'[a] # 0 =>
                                dir[a] = dir'[a] /\ dir[a] \in {fd, held},
             \A a, b \in Real' : Level(a)' = Level(b)' => Level(a) = Level(b),
             step = "unlink" => step' = "unlink" /\ in' = in
      PROVE  LogsAlone'
  BY <1>2 DEF Logs, LogsAlone
<1>3. ASSUME UNCHANGED <<dir, doomed, moves, moving>>, (stage' = "placed") = (stage = "placed"),
             {fd', held'} \subseteq {fd, held, 0},
             step = "unlink" => step' = "unlink" /\ in' = in
      PROVE  Logs'
  <2>1. /\ Real' = Real /\ \A a : Level(a)' = Level(a)
        /\ \A a : Awaited(a)' = Awaited(a)
    BY <1>3, StandsStill
  <2> QED BY <1>1, <1>2, <1>3, <2>1 DEF Logs
<1>4. CASE TakeFd \/ WriteLine \/ Loop \/ SpuriousWakeup \/ Finish \/ Drain
  <2>1. /\ UNCHANGED <<dir, doomed, moves, moving, step, in, fd>>
        /\ (stage' = "placed") = (stage = "placed") /\ held' \in {fd, held, 0}
    BY <1>4 DEF TakeFd, WriteLine, Loop, SpuriousWakeup, Finish, Drain, rotVars, jobVars, logVars
  <2> QED BY <1>3, <2>1
<1>5. CASE Hup
  <2>1. UNCHANGED <<dir, fd, held, step, in>>
    BY <1>5 DEF Hup, jobVars, logVars
  <2>2. /\ Real' = Real /\ \A a : ~Awaited(a)'
        /\ \A a \in Real : Level(a)' = Level(a) + 1 /\ Level(a) \in Int
    BY <1>0, <1>5, HupIs
  <2>3. \A a, b \in Real' : Level(a)' = Level(b)' => Level(a) = Level(b)
    <3> SUFFICES ASSUME NEW a \in Real, NEW b \in Real, Level(a)' = Level(b)' PROVE Level(a) = Level(b)
      BY <2>2
    <3>1. Level(a) + 1 = Level(b) + 1 /\ Level(a) \in Int /\ Level(b) \in Int
      BY <2>2
    <3> QED BY <3>1
  <2> QED BY <1>1, <1>2, <2>1, <2>2, <2>3 DEF Logs
<1>6. ASSUME NEW name \in doomed, Delete(name) PROVE Logs'
  <2>1. UNCHANGED <<step, in, fd, held>>
    BY <1>6 DEF Delete, jobVars, logVars
  <2>2. /\ DOMAIN dir' = DOMAIN dir \ {name} /\ \A a \in DOMAIN dir' : dir'[a] = dir[a]
        /\ \A a : Awaited(a)' = Awaited(a)
        /\ \A a \in DOMAIN dir' : Level(a)' = Level(a)
        /\ Real' = Real \ {name}
    BY <1>6, DeleteIs
  <2> QED BY <1>0, <1>1, <1>2, <2>1, <2>2 DEF Logs
<1>7. ASSUME NEW name \in moves, Place(name) PROVE Logs'
  <2>1. UNCHANGED <<step, in, fd, held>>
    BY <1>7 DEF Place, jobVars, logVars
  <2>2. /\ Real' = Real
        /\ DOMAIN dir \subseteq DOMAIN dir' /\ \A a \in DOMAIN dir : dir'[a] = dir[a]
        /\ \A a \in DOMAIN dir' \ DOMAIN dir : dir'[a] = 0
        /\ \A a : a \in DOMAIN dir' /\ Awaited(a)' => dir'[a] = 0
        /\ \A a \in Real : Level(a)' = Level(a)
    BY <1>7, PlaceIs DEF Real
  <2> QED BY <1>0, <1>1, <1>2, <2>1, <2>2 DEF Logs
<1>8. CASE Move
  <2>1. UNCHANGED <<step, in, fd, held>>
    BY <1>8 DEF Move, jobVars, logVars
  <2> SUFFICES ASSUME NEW m, m = moving, NEW n, n = NewName(moving) PROVE Logs'
    OBVIOUS
  <2>2. /\ m \in DOMAIN dir /\ n # m /\ (IsArchive(n) <=> IsArchive(m))
        /\ DOMAIN dir' = (DOMAIN dir \ {m}) \cup {n} /\ dir'[n] = dir[m]
        /\ \A a \in DOMAIN dir' \ {n} : a \in DOMAIN dir /\ a # m /\ dir'[a] = dir[a]
        /\ \A a : ~Awaited(a)'
        /\ Level(n)' = Level(m) /\ \A a \in DOMAIN dir' \ {n} : Level(a)' = Level(a)
        /\ m \in Archives => m \in Real
        /\ Real' = IF IsArchive(m) THEN (Real \ {m}) \cup {n} ELSE Real
        /\ Awaited(n)
    BY <1>8, MoveIs
  <2>3. n.ext = m.ext
    BY <2>2, LevelIs, NamesApart
  <2>4. LogsNamed'
    BY <2>1, <2>2, <2>3 DEF Logs, LogsNamed
  <2>5. LogsAlone'
    <3> DEFINE g(a) == IF a = n THEN m ELSE a
    <3>1. n \notin Real
      BY <2>2 DEF Real
    <3>2. \A a \in Real' : g(a) \in Real /\ dir'[a] = dir[g(a)] /\ Level(a)' = Level(g(a))
      <4>1. Real' \subseteq DOMAIN dir'
        BY DEF Real, Archives
      <4>2. IsArchive(m) => m \in Real
        BY <2>2 DEF Archives
      <4>3. ~IsArchive(m) => n \notin Real'
        BY <2>2, <3>1
      <4> QED BY <2>2, <3>1, <4>1, <4>2, <4>3
    <3>3. \A a, b \in Real' : a # b => g(a) # g(b)
      <4>1. m \notin Real'
        BY <2>2 DEF Real, Archives
      <4> QED BY <4>1
    <3> HIDE DEF g
    <3> QED BY <2>1, <3>2, <3>3 DEF Logs, LogsAlone
  <2> QED BY <2>4, <2>5 DEF Logs
<1>9. CASE Reopen \/ Crash
  <2>1. /\ DOMAIN dir' = DOMAIN dir \cup {Log} /\ dir'[Log] = fd' /\ fd' # 0
        /\ \A a \in DOMAIN dir : dir'[a] = dir[a]
        /\ \A a : ~Awaited(a)' /\ Level(a)' = a.n
        /\ Real' = Archives \cup {Log}
        /\ \A a \in DOMAIN dir' : a.n \in Int /\ -1 <= a.n /\ (a.n = -1 => a = Log)
        /\ Log.n = -1 /\ Log.ext = <<>>
    BY <1>9, OpenedIs
  <2>2. \A a \in DOMAIN dir' : dir'[a] = fd' => a = Log
    BY <2>1 DEF OneName
  <2>3. held' = 0 \/ (held' = held /\ stage = "rotate" /\ Pending = {} /\ UNCHANGED <<step, in>>)
    BY <1>9 DEF Reopen, Crash, Pending, jobVars
  <2>4. LogsNamed'
    BY <2>1, <2>2, <2>3 DEF Logs, LogsNamed
  <2>5. LogsAlone'
    <3> SUFFICES ASSUME NEW a \in Real', NEW b \in Real', dir'[a] \in {fd', held'}, dir'[a] # 0, a.n = b.n, a # b
                 PROVE  dir'[a] = in' /\ step' = "unlink"
      BY <2>1 DEF LogsAlone
    <3>1. a \in DOMAIN dir' /\ b \in DOMAIN dir'
      BY DEF Real, Archives
    <3>2. a # Log /\ b # Log
      BY <2>1, <3>1
    <3>3. dir'[a] = held' /\ held' = held /\ stage = "rotate" /\ Pending = {} /\ UNCHANGED <<step, in>>
      BY <2>2, <2>3, <3>1, <3>2
    <3>4. a \in Real /\ b \in Real /\ Level(a) = Level(b) /\ dir[a] = dir'[a]
      BY <2>1, <3>1, <3>2, <3>3 DEF Real, Archives, Awaited, Level
    <3> QED BY <3>3, <3>4 DEF Logs, LogsAlone
  <2> QED BY <2>4, <2>5 DEF Logs
<1>10. CASE OpenIn \/ Block \/ BlockFails \/ (OpenOut /\ There(Tmp(Path)))
  <2>1. UNCHANGED <<dir, doomed, moves, moving, stage, fd, held>> /\ step # "unlink"
    BY <1>10 DEF OpenIn, Block, BlockFails, OpenOut, rotVars, logVars, Runs
  <2> QED BY <1>3, <2>1
<1>11. CASE OpenOut /\ ~There(Tmp(Path))
  <2>1. /\ dir' = Bind(dir, Tmp(Path), out') /\ UNCHANGED <<rotVars, fd, held>> /\ step = "tmp"
        /\ files' = Append(files, {}) /\ out' = Len(files') /\ written' = written
    BY <1>11 DEF OpenOut, Runs, logVars
  <2>2. out' = Len(files) + 1 /\ out' \notin {fd, held}
    <3>1. out' = Len(files) + 1
      BY <1>0, <2>1, FileAdded
    <3> QED BY <1>0, <3>1
  <2>3. /\ DOMAIN dir' = DOMAIN dir \cup {Tmp(Path)} /\ dir'[Tmp(Path)] = out'
        /\ \A a \in DOMAIN dir : dir'[a] = dir[a]
    BY <1>11, <2>1 DEF Bind, There
  <2>4. ~IsArchive(Tmp(Path))
    BY <2>1, AtJob
  <2>5. /\ \A a : Level(a)' = Level(a)
        /\ \A a : Awaited(a)' = Awaited(a)
    BY <2>1, StandsStill DEF rotVars
  <2>6. Real' = Real
    BY <2>3, <2>4, <2>5 DEF Real, Archives
  <2> QED BY <1>0, <1>1, <1>2, <2>1, <2>2, <2>3, <2>5, <2>6 DEF Logs
<1>12. CASE RenameOut
  <2> SUFFICES ASSUME NEW P, P = Path, NEW D, D = Done(Path), NEW T, T = Tmp(Path) PROVE Logs'
    OBVIOUS
  <2>1. /\ step = "rename" /\ step' = "unlink" /\ UNCHANGED <<in, out, fd, held>>
        /\ P # D /\ dir[P] = in
        /\ DOMAIN dir' = (DOMAIN dir \ {T}) \cup {D} /\ dir'[D] = out
        /\ \A a \in DOMAIN dir' \ {D} : a \in DOMAIN dir /\ dir'[a] = dir[a]
        /\ \A a : Level(a)' = Level(a)
        /\ \A a : Awaited(a)' = Awaited(a)
        /\ Level(D) = Level(P) /\ (IsArchive(P) => P \in Real)
        /\ Real' = IF IsArchive(P) /\ ~Awaited(D) THEN Real \cup {D} ELSE Real
    BY <1>12, RenameOutIs DEF RenameOut, logVars
  <2>2. out \notin {fd, held}
    BY <2>1 DEF Copying
  <2>3. LogsNamed'
    BY <1>1, <2>1, <2>2
  <2>4. LogsAlone'
    <3> SUFFICES ASSUME NEW a \in Real', NEW b \in Real', dir'[a] \in {fd, held}, dir'[a] # 0,
                        Level(a) = Level(b), a # b
                 PROVE  dir'[a] = in
      BY <2>1 DEF LogsAlone
    <3>1. a # D /\ a \in Real /\ dir'[a] = dir[a]
      BY <1>0, <2>1, <2>2 DEF Real, Archives
    <3>2. b \notin Real
      BY <2>1, <3>1 DEF Logs, LogsAlone
    <3>3. b = D /\ P \in Real /\ Level(a) = Level(P)
      BY <2>1, <3>2
    <3>4. a = P
      BY <2>1, <3>1, <3>3 DEF Logs, LogsAlone
    <3> QED BY <2>1, <3>1, <3>4
  <2> QED BY <2>3, <2>4 DEF Logs
<1>13. CASE Unlink
  <2> SUFFICES ASSUME NEW P, P = Path PROVE Logs'
    OBVIOUS
  <2>1. /\ UNCHANGED <<fd, held>> /\ dir[P] = in /\ P \in DOMAIN dir
        /\ DOMAIN dir' = DOMAIN dir \ {P}
        /\ \A a \in DOMAIN dir' : dir'[a] = dir[a]
        /\ \A a : Level(a)' = Level(a)
        /\ \A a : Awaited(a)' = Awaited(a)
        /\ Real' = Real \ {P}
    BY <1>13, UnlinkIs DEF Unlink, logVars
  <2>2. LogsNamed'
    BY <1>1, <2>1
  <2>3. LogsAlone'
    <3> SUFFICES ASSUME NEW a \in Real', NEW b \in Real', dir'[a] \in {fd, held}, dir'[a] # 0,
                        Level(a) = Level(b), a # b
                 PROVE  FALSE
      BY <2>1 DEF LogsAlone
    <3>1. a \in DOMAIN dir /\ a # P /\ dir[a] = dir'[a] /\ a \in Real /\ b \in Real
      BY <1>0, <2>1
    <3>2. dir[a] = dir[P]
      BY <2>1, <3>1 DEF Logs, LogsAlone
    <3> QED BY <2>1, <3>1, <3>2 DEF OneName
  <2> QED BY <2>2, <2>3 DEF Logs
<1>14. CASE UNCHANGED vars
  BY <1>3, <1>14 DEF vars, wqVars, rotVars, jobVars, logVars
<1> QED
  BY <1>4, <1>5, <1>6, <1>7, <1>8, <1>9, <1>10, <1>11, <1>12, <1>13, <1>14
  DEF Next, Step, Rotation, Compress

-----------------------------------------------------------------------------
(* The lines that are kept *)

(***************************************************************************)
(* Of two archives at one level neither has a line to keep that the other  *)
(* lacks, but for what is at a lower level as well.                        *)
(***************************************************************************)
Alike ==
  \A y \in Kept, a, b \in Real :
    Level(a) = Level(b) /\ Has(a, y) /\ ~Has(b, y) => \E c \in Real : Level(c) < Level(a) /\ Has(c, y)

\* What the rename to an awaited name will overwrite is elsewhere as well.
Spare ==
  \A a \in Archives \ Real, y \in Kept :
    Has(a, y) => \E c \in Real : Level(c) <= Level(a) /\ Has(c, y)

Present == \A y \in Kept : \E a \in Real : Has(a, y)

View == Alike /\ Spare /\ Present

Leveled == Real \subseteq Archives /\ \A a \in Archives : Level(a) \in Int

LEMMA LevelsAreInt == Base => Leveled
BY LevelIs DEF Leveled, Real, Archives

LEMMA LevelsStayInt == Base' => Leveled'
BY LevelsAreInt, PTL

(***************************************************************************)
(* A step keeps the view when every archive after it comes, k levels up,   *)
(* from one before it with the same lines to keep, and no line is dropped. *)
(***************************************************************************)
LEMMA ViewCarried ==
  ASSUME Base, Base', View, NEW k \in Int, NEW g, Kept' \subseteq Kept,
         \A a \in Real' : /\ g[a] \in Real /\ Level(a)' = Level(g[a]) + k
                          /\ \A y \in Kept' : Has(a, y)' <=> Has(g[a], y),
         \A c \in Real, y \in Kept' :
            Has(c, y) => \E a \in Real' : Level(a)' <= Level(c) + k /\ Has(a, y)',
         \A a \in Archives' \ Real', y \in Kept' :
            Has(a, y)' => \E c \in Archives : Level(c) + k <= Level(a)' /\ Has(c, y)
  PROVE  View'
<1>0. /\ Real \subseteq Archives /\ \A a \in Archives : Level(a) \in Int
      /\ Real' \subseteq Archives' /\ \A a \in Archives' : Level(a)' \in Int
  BY LevelsAreInt, LevelsStayInt DEF Leveled
<1>1. Present'
  <2> SUFFICES ASSUME NEW y \in Kept' PROVE \E a \in Real' : Has(a, y)'
    BY DEF Present
  <2>1. PICK c \in Real : Has(c, y)
    BY DEF View, Present
  <2> QED BY <2>1
<1>2. Alike'
  <2> SUFFICES ASSUME NEW y \in Kept', NEW a \in Real', NEW b \in Real',
                      Level(a)' = Level(b)', Has(a, y)', ~Has(b, y)'
               PROVE  \E c \in Real' : Level(c)' < Level(a)' /\ Has(c, y)'
    BY DEF Alike
  <2>1. /\ g[a] \in Real /\ g[b] \in Real /\ Has(g[a], y) /\ ~Has(g[b], y)
        /\ Level(a)' = Level(g[a]) + k /\ Level(b)' = Level(g[b]) + k
    OBVIOUS
  <2>2. Level(g[a]) = Level(g[b])
    <3>1. Level(g[a]) \in Int /\ Level(g[b]) \in Int
      BY <1>0, <2>1
    <3>2. Level(g[a]) + k = Level(g[b]) + k
      BY <2>1
    <3>3. \A i, j \in Int : i + k = j + k => i = j
      OBVIOUS
    <3> QED BY <3>1, <3>2, <3>3
  <2>3. PICK c \in Real : Level(c) < Level(g[a]) /\ Has(c, y)
    BY <2>1, <2>2 DEF View, Alike
  <2>4. PICK d \in Real' : Level(d)' <= Level(c) + k /\ Has(d, y)'
    BY <2>3
  <2>5. Level(d)' < Level(a)'
    BY <1>0, <2>1, <2>3, <2>4
  <2> QED BY <2>4, <2>5
<1>3. Spare'
  <2> SUFFICES ASSUME NEW a \in Archives' \ Real', NEW y \in Kept', Has(a, y)'
               PROVE  \E c \in Real' : Level(c)' <= Level(a)' /\ Has(c, y)'
    BY DEF Spare
  <2>1. PICK c \in Archives : Level(c) + k <= Level(a)' /\ Has(c, y)
    OBVIOUS
  <2>2. PICK d \in Real : Level(d) <= Level(c) /\ Has(d, y)
    <3>1. CASE c \in Real
      BY <1>0, <2>1, <3>1
    <3>2. CASE c \notin Real
      BY <2>1, <3>2 DEF View, Spare
    <3> QED BY <3>1, <3>2
  <2>3. PICK e \in Real' : Level(e)' <= Level(d) + k /\ Has(e, y)'
    BY <2>2
  <2>4. Level(e)' <= Level(a)'
    BY <1>0, <2>1, <2>2, <2>3
  <2> QED BY <2>3, <2>4
<1> QED BY <1>1, <1>2, <1>3 DEF View

LEMMA ViewTheSame ==
  ASSUME Base, Base', View, NEW k \in Int, Kept' \subseteq Kept, Archives' = Archives, Real' = Real,
         \A a \in Archives : Level(a)' = Level(a) + k,
         \A a \in Archives : Lines(dir[a])' = Lines(dir[a])
  PROVE  View'
<1>0. /\ Real \subseteq Archives /\ \A a \in Archives : Level(a) \in Int
      /\ Real' \subseteq Archives' /\ \A a \in Archives' : Level(a)' \in Int
  BY LevelsAreInt, LevelsStayInt DEF Leveled
<1> DEFINE g == [a \in Archives |-> a]
<1>1. \A a \in Archives : g[a] = a
  OBVIOUS
<1> HIDE DEF g
<1>2. \A a \in Archives : \A y : Has(a, y)' <=> Has(a, y)
  BY DEF Has
<1>3. \A a \in Real' : /\ g[a] \in Real /\ Level(a)' = Level(g[a]) + k
                       /\ \A y \in Kept' : Has(a, y)' <=> Has(g[a], y)
  BY <1>0, <1>1, <1>2
<1>4. \A c \in Real, y \in Kept' :
            Has(c, y) => \E a \in Real' : Level(a)' <= Level(c) + k /\ Has(a, y)'
  BY <1>0, <1>2
<1>5. \A a \in Archives' \ Real', y \in Kept' :
            Has(a, y)' => \E c \in Archives : Level(c) + k <= Level(a)' /\ Has(c, y)
  BY <1>0, <1>2
<1> QED BY <1>3, <1>4, <1>5, ViewCarried

\* Levels and numbers
LEMMA LevelsAndNumbers ==
  ASSUME Base, Undisturbed
  PROVE  /\ \A a \in Archives, c \in Real : Level(c) < Level(a) => c.n < a.n
         /\ \A a, b \in Archives : a.n < b.n => Level(a) <= Level(b)
         /\ \A a, b \in Archives : a.n = b.n => Level(a) = Level(b)
<1>0. \A a \in Archives : /\ a.n \in Int /\ Level(a) \in Int
                          /\ a \in Pending => Level(a) = a.n + 1
                          /\ a \notin Pending => Level(a) = a.n
  BY LevelIs DEF Archives
<1>1. \A a \in Archives, c \in Archives : a \in Pending /\ c \notin Pending => a.n < c.n
  <2> SUFFICES ASSUME NEW a \in Archives, NEW c \in Archives, a \in Pending, c \notin Pending
               PROVE  a.n < c.n
    OBVIOUS
  <2>1. CASE Awaited(c)
    <3>1. stage = "placed" /\ c = NewName(moving)
      BY <2>1 DEF Awaited
    <3>2. a.n <= moving.n /\ moving.n \in Int /\ c.n = moving.n + 1
      BY <3>1, AtMove
    <3> QED BY <1>0, <3>2
  <2>2. CASE ~Awaited(c)
    BY <2>2 DEF Undisturbed, Real
  <2> QED BY <2>1, <2>2
<1>2. ASSUME NEW a \in Archives, NEW c \in Real, Level(c) < Level(a) PROVE c.n < a.n
  <2>1. c \in Archives
    BY DEF Real
  <2> QED BY <1>0, <1>1, <1>2, <2>1
<1>3. ASSUME NEW a \in Archives, NEW b \in Archives, a.n < b.n PROVE Level(a) <= Level(b)
  BY <1>0, <1>3
<1>4. ASSUME NEW a \in Archives, NEW b \in Archives, a.n = b.n PROVE Level(a) = Level(b)
  <2>1. (a \in Pending) = (b \in Pending)
    BY <1>0, <1>1, <1>4
  <2> QED BY <1>0, <1>4, <2>1
<1> QED BY <1>2, <1>3, <1>4

(***************************************************************************)
(* A rotation that ends, or that a crash ends where it is, leaves the      *)
(* levels as they are in the numbers alone.                                *)
(***************************************************************************)
LEMMA ViewReopened ==
  ASSUME Base, Undisturbed, View, Reopen \/ Crash
  PROVE  View'
<1>0. /\ UNCHANGED <<written, aged, late>>
      /\ DOMAIN dir' = DOMAIN dir \cup {Log}
      /\ \A a \in DOMAIN dir : dir'[a] = dir[a]
      /\ \A f \in 0..Len(files) : Lines(f)' = Lines(f)
      /\ \A a : Level(a)' = a.n
      /\ Archives' = Archives \cup {Log} /\ Real' = Archives'
      /\ \A a \in DOMAIN dir' : a.n \in Int /\ -1 <= a.n /\ (a.n = -1 => a = Log)
      /\ Log.n = -1
  BY OpenedIs
<1>1. Kept' = Kept
  BY <1>0 DEF Kept
<1>2. \A a \in Archives : \A y : Has(a, y)' <=> Has(a, y)
  <2>1. \A a \in Archives : dir[a] \in 0..Len(files) /\ dir'[a] = dir[a]
    BY <1>0 DEF Archives, Base, Typed
  <2> QED BY <1>0, <2>1 DEF Has
<1>3. Real \subseteq Archives
  BY DEF Real
<1>4. Present'
  BY <1>0, <1>1, <1>2, <1>3 DEF View, Present
<1>5. Spare'
  BY <1>0 DEF Spare
<1>6. Alike'
  <2> SUFFICES ASSUME NEW y \in Kept, NEW a \in Real', NEW b \in Real', a.n = b.n, Has(a, y)', ~Has(b, y)'
               PROVE  \E c \in Real' : c.n < a.n /\ Has(c, y)'
    BY <1>0, <1>1 DEF Alike
  <2>1. a # b
    OBVIOUS
  <2>2. a \in Archives /\ b \in Archives
    <3>1. a \in DOMAIN dir' /\ b \in DOMAIN dir'
      BY DEF Real, Archives
    <3> QED BY <1>0, <2>1, <3>1
  <2>3. Has(a, y) /\ ~Has(b, y) /\ Level(a) = Level(b)
    BY <1>2, <2>2, LevelsAndNumbers
  <2>4. SUFFICES \E c \in Real : c.n < a.n /\ Has(c, y)
    BY <1>0, <1>2, <1>3
  <2>5. \A c \in Real : Level(c) < Level(a) => c.n < a.n
    BY <2>2, LevelsAndNumbers
  <2>6. CASE a \in Real /\ b \in Real
    BY <2>3, <2>5, <2>6 DEF View, Alike
  <2>7. CASE a \notin Real
    <3>1. b \in Real
      BY <2>1, <2>2, <2>7 DEF Real, Awaited
    <3>2. PICK c \in Real : Level(c) <= Level(a) /\ Has(c, y)
      BY <2>2, <2>3, <2>7 DEF View, Spare
    <3>3. CASE Level(c) < Level(a)
      BY <2>5, <3>2, <3>3
    <3>4. CASE Level(c) = Level(a)
      <4>1. \E d \in Real : Level(d) < Level(c) /\ Has(d, y)
        BY <2>3, <3>1, <3>2, <3>4 DEF View, Alike
      <4> QED BY <2>5, <3>4, <4>1
    <3>5. Level(c) \in Int /\ Level(a) \in Int
      BY <2>2, LevelsAreInt DEF Leveled
    <3> QED BY <3>2, <3>3, <3>4, <3>5
  <2>8. CASE b \notin Real
    <3>1. a \in Real /\ stage = "placed" /\ b = NewName(moving)
      BY <2>1, <2>2, <2>8 DEF Real, Awaited
    <3>2. /\ There(moving) /\ IsArchive(moving) /\ ~Awaited(moving) /\ moving.n \in Int
          /\ b.n = moving.n + 1 /\ Level(moving) = Level(b)
      BY <2>2, <3>1, AtMove DEF Archives
    <3>3. moving \in Real
      BY <3>2 DEF Real, Archives, There
    <3>4. CASE Has(moving, y)
      BY <3>2, <3>3, <3>4
    <3>5. CASE ~Has(moving, y)
      <4>1. \E d \in Real : Level(d) < Level(a) /\ Has(d, y)
        BY <2>3, <3>1, <3>2, <3>3, <3>5 DEF View, Alike
      <4> QED BY <2>5, <4>1
    <3> QED BY <3>4, <3>5
  <2> QED BY <2>6, <2>7, <2>8
<1> QED BY <1>4, <1>5, <1>6 DEF View

(***************************************************************************)
(* A line is written to a log that no other archive is level with, or else *)
(* is late.                                                                *)
(***************************************************************************)
LEMMA ViewWritten ==
  ASSUME Base, OneName, Logs, View, WriteLine
  PROVE  View'
<1> SUFFICES ASSUME NEW z, z = written' PROVE View'
  OBVIOUS
<1>0. /\ z = written + 1 /\ written' = z /\ written \in Nat /\ held \in 1..Len(files)
      /\ \A f \in 0..Len(files) : Lines(f)' = IF f = held THEN Lines(f) \cup {z} ELSE Lines(f)
      /\ \A f \in 0..Len(files) : Lines(f) \subseteq 1..written
  BY LineWritten, LinesAre DEF Base
<1>1. /\ UNCHANGED <<dir, rotVars, aged>>
      /\ late' = IF held \notin Range(dir) \/ (held = in /\ step \in {"rename", "unlink"})
                 THEN late \cup {z} ELSE late
  BY DEF WriteLine
<1>2. Archives' = Archives /\ Real' = Real /\ \A a : Level(a)' = Level(a)
  BY <1>1, StandsStill DEF rotVars
<1>3. \A a \in Archives : dir[a] \in 0..Len(files) /\ dir'[a] = dir[a]
  BY <1>1 DEF Archives, Base, Typed
<1>4. /\ \A a \in Archives, y \in 1..written : Has(a, y)' <=> Has(a, y)
      /\ \A a \in Archives : Has(a, z)' <=> dir[a] = held
  <2>1. \A a \in Archives : Lines(dir[a])' = IF dir[a] = held THEN Lines(dir[a]) \cup {z} ELSE Lines(dir[a])
    BY <1>0, <1>3
  <2>2. z \notin 1..written
    BY <1>0
  <2>3. \A a \in Archives : Lines(dir[a]) \subseteq 1..written
    BY <1>0, <1>3
  <2>4. ASSUME NEW a \in Archives, NEW y \in 1..written PROVE Has(a, y)' <=> Has(a, y)
    <3>1. y # z
      BY <2>2
    <3> QED BY <2>1, <3>1 DEF Has
  <2>5. ASSUME NEW a \in Archives PROVE Has(a, z)' <=> dir[a] = held
    <3>1. z \notin Lines(dir[a])
      BY <2>2, <2>3
    <3> QED BY <2>1, <3>1 DEF Has
  <2> QED BY <2>4, <2>5
<1>5. \A y \in Kept' : y = z \/ (y \in Kept /\ y \in 1..written)
  BY <1>0, <1>1 DEF Kept
<1>6. ASSUME z \in Kept'
      PROVE  \E a \in Real : /\ dir[a] = held
                             /\ \A b \in Archives : dir[b] = held => b = a
                             /\ \A b \in Real : Level(b) = Level(a) => b = a
  <2>1. held \in Range(dir) /\ ~(held = in /\ step = "unlink")
    BY <1>1, <1>6 DEF Kept
  <2>2. PICK a \in DOMAIN dir : dir[a] = held
    BY <2>1 DEF Range
  <2>3. held # 0
    BY <1>0
  <2>4. a.ext = <<>> /\ ~Awaited(a)
    BY <2>2, <2>3 DEF Logs, LogsNamed
  <2>5. a \in Real
    BY <2>4 DEF Real, Archives, IsArchive
  <2>6. \A b \in Archives : dir[b] = held => b = a
    BY <2>2, <2>3 DEF OneName, Archives
  <2>7. \A b \in Real : Level(b) = Level(a) => b = a
    BY <2>1, <2>2, <2>3, <2>5 DEF Logs, LogsAlone
  <2> QED BY <2>2, <2>5, <2>6, <2>7
<1>7. Real \subseteq Archives
  BY DEF Real
<1>8. Present'
  BY <1>2, <1>4, <1>5, <1>6, <1>7 DEF View, Present
<1>9. Alike'
  <2> SUFFICES ASSUME NEW y \in Kept', NEW a \in Real, NEW b \in Real,
                      Level(a) = Level(b), Has(a, y)', ~Has(b, y)'
               PROVE  \E c \in Real : Level(c) < Level(a) /\ Has(c, y)'
    BY <1>2 DEF Alike
  <2>1. CASE y = z
    <3>1. dir[a] = held /\ a # b
      BY <1>4, <1>7, <2>1
    <3> QED BY <1>6, <1>7, <2>1, <3>1
  <2>2. CASE y \in Kept /\ y \in 1..written
    <3>1. Has(a, y) /\ ~Has(b, y)
      BY <1>4, <1>7, <2>2
    <3> QED BY <1>4, <1>7, <2>2, <3>1 DEF View, Alike
  <2> QED BY <1>5, <2>1, <2>2
<1>10. Spare'
  <2> SUFFICES ASSUME NEW a \in Archives \ Real, NEW y \in Kept', Has(a, y)'
               PROVE  \E c \in Real : Level(c) <= Level(a) /\ Has(c, y)'
    BY <1>2 DEF Spare
  <2>1. CASE y = z
    <3>1. dir[a] = held
      BY <1>4, <2>1
    <3> QED BY <1>6, <2>1, <3>1
  <2>2. CASE y \in Kept /\ y \in 1..written
    <3>1. Has(a, y)
      BY <1>4, <2>2
    <3> QED BY <1>4, <1>7, <2>2, <3>1 DEF View, Spare
  <2> QED BY <1>5, <2>1, <2>2
<1> QED BY <1>8, <1>9, <1>10 DEF View

LEMMA ViewKept ==
  Base /\ OneName /\ Undisturbed /\ Copying /\ Copied /\ Logs /\ View /\ [Next]_vars /\ Base' /\ ~raced' => View'
<1> SUFFICES ASSUME Base, OneName, Undisturbed, Copying, Copied, Logs, View, [Next]_vars, Base', ~raced'
             PROVE  View'
  OBVIOUS
<1>0. /\ Typed /\ Len(files) \in Nat /\ in \in 0..Len(files) /\ out \in 0..Len(files)
      /\ \A a \in DOMAIN dir : dir[a] \in 0..Len(files)
      /\ Archives \subseteq DOMAIN dir /\ Real \subseteq Archives
      /\ \A a \in Archives : Level(a) \in Int
  <2>1. Typed /\ Len(files) \in Nat
    BY LenProperties DEF Base, Typed
  <2> QED BY <2>1, LevelsAreInt DEF Typed, Archives, Leveled
<1>1. UNCHANGED files => \A f : Lines(f)' = Lines(f)
  BY DEF Lines
<1>2. ASSUME UNCHANGED <<dir, doomed, moves, moving, aged, late, written>>,
             (stage' = "placed") = (stage = "placed"),
             \A f \in 0..Len(files) : (f = out => step # "copy") => Lines(f)' = Lines(f)
      PROVE  View'
  <2>1. /\ Archives' = Archives /\ Real' = Real
        /\ \A a : Level(a)' = Level(a)
    BY <1>2, StandsStill
  <2>2. \A a \in Archives : dir[a] = out => step # "copy"
    <3> SUFFICES ASSUME NEW a \in Archives, dir[a] = out, step = "copy" PROVE FALSE
      OBVIOUS
    <3>1. There(Tmp(Path)) /\ dir[Tmp(Path)] = out /\ out # 0 /\ ~IsArchive(Tmp(Path))
      BY AtJob DEF Copying
    <3>2. a = Tmp(Path)
      BY <1>0, <3>1 DEF OneName, There
    <3> QED BY <3>1, <3>2 DEF Archives
  <2>3. \A a \in Archives : Lines(dir[a])' = Lines(dir[a])
    BY <1>0, <1>2, <2>2
  <2>4. Kept' = Kept
    BY <1>2 DEF Kept
  <2>5. \A a \in Archives : Level(a)' = Level(a) + 0
    BY <1>0, <2>1
  <2> QED BY <2>1, <2>3, <2>4, <2>5, ViewTheSame
<1>3. CASE TakeFd \/ Loop \/ SpuriousWakeup \/ Finish \/ Drain \/ OpenIn \/ BlockFails
  <2>1. /\ UNCHANGED <<dir, files, doomed, moves, moving, aged, late, written>>
        /\ (stage' = "placed") = (stage = "placed")
    BY <1>3 DEF TakeFd, Loop, SpuriousWakeup, Finish, Drain, OpenIn, BlockFails, rotVars, logVars, pastVars
  <2> QED BY <1>1, <1>2, <2>1
<1>4. CASE Block
  <2>1. /\ UNCHANGED <<dir, doomed, moves, moving, stage, aged, late, written>> /\ step = "copy"
        /\ files' = files \/ files' = [files EXCEPT ![out] = Lines(in)]
    BY <1>4 DEF Block, Runs, rotVars, logVars, pastVars
  <2>2. \A f \in 0..Len(files) : f # out => Lines(f)' = Lines(f)
    <3>1. files' = [files EXCEPT ![out] = Lines(in)] => \A f : f # out => Lines(f)' = Lines(f)
      BY DEF Lines
    <3> QED BY <1>1, <2>1, <3>1
  <2> QED BY <1>2, <2>1, <2>2
<1>5. CASE Hup
  <2>1. UNCHANGED <<dir, files, aged, late, written>>
    BY <1>5 DEF Hup, logVars
  <2>2. /\ Archives' = Archives /\ Real' = Real
        /\ \A a \in Archives : Level(a)' = Level(a) + 1
    BY <1>0, <1>5, HupIs
  <2>3. Kept' = Kept
    BY <2>1 DEF Kept
  <2>4. \A a \in Archives : Lines(dir[a])' = Lines(dir[a])
    BY <1>1, <2>1
  <2> QED BY <2>2, <2>3, <2>4, ViewTheSame
<1>6. ASSUME NEW name \in doomed, Delete(name) PROVE View'
  <2>1. /\ UNCHANGED <<files, late, written>>
        /\ aged' = aged \cup (IF There(name) THEN Lines(dir[name]) ELSE {})
    BY <1>6 DEF Delete, logVars
  <2>2. /\ name \in DOMAIN dir /\ DOMAIN dir' = DOMAIN dir \ {name}
        /\ \A a \in DOMAIN dir' : dir'[a] = dir[a] /\ Level(a)' = Level(a)
        /\ Archives' = Archives \ {name} /\ Real' = Real \ {name}
    BY <1>6, DeleteIs
  <2>3. Kept' = Kept \ Lines(dir[name])
    BY <2>1, <2>2 DEF Kept, There
  <2> DEFINE g == [a \in Archives |-> a]
  <2>4. \A a \in Archives : g[a] = a
    OBVIOUS
  <2> HIDE DEF g
  <2>5. \A a \in Archives' : \A y : Has(a, y)' <=> Has(a, y)
    BY <1>0, <1>1, <2>1, <2>2 DEF Has
  <2>6. Real' \subseteq Archives' /\ Archives' \subseteq DOMAIN dir'
    BY <1>0, <2>2
  <2>7. \A a \in Real' : /\ g[a] \in Real /\ Level(a)' = Level(g[a]) + 0
                         /\ \A y \in Kept' : Has(a, y)' <=> Has(g[a], y)
    BY <1>0, <2>2, <2>4, <2>5, <2>6
  <2>8. \A c \in Real, y \in Kept' :
            Has(c, y) => \E a \in Real' : Level(a)' <= Level(c) + 0 /\ Has(a, y)'
    <3> SUFFICES ASSUME NEW c \in Real, NEW y \in Kept', Has(c, y)
                 PROVE  c \in Real' /\ Level(c)' <= Level(c) + 0 /\ Has(c, y)'
      OBVIOUS
    <3>1. c # name
      BY <2>3 DEF Has
    <3> QED BY <1>0, <2>2, <2>5, <2>6, <3>1
  <2>9. \A a \in Archives' \ Real', y \in Kept' :
            Has(a, y)' => \E c \in Archives : Level(c) + 0 <= Level(a)' /\ Has(c, y)
    BY <1>0, <2>2, <2>5, <2>6
  <2> QED BY <2>3, <2>7, <2>8, <2>9, ViewCarried
<1>7. ASSUME NEW name \in moves, Place(name) PROVE View'
  <2>1. /\ UNCHANGED <<files, late, written, aged>>
    BY <1>7 DEF Place, logVars
  <2>2. /\ Real' = Real /\ Archives' \subseteq Archives \cup (DOMAIN dir' \ DOMAIN dir)
        /\ \A a \in DOMAIN dir : dir'[a] = dir[a]
        /\ \A a \in DOMAIN dir' \ DOMAIN dir : dir'[a] = 0
        /\ \A a \in Archives : Level(a)' = Level(a)
    BY <1>7, PlaceIs
  <2>3. Kept' = Kept
    BY <2>1 DEF Kept
  <2> DEFINE g == [a \in Archives |-> a]
  <2>4. \A a \in Archives : g[a] = a
    OBVIOUS
  <2> HIDE DEF g
  <2>5. \A a \in Archives : \A y : Has(a, y)' <=> Has(a, y)
    BY <1>0, <1>1, <2>1, <2>2 DEF Has
  <2>6. \A a \in DOMAIN dir' \ DOMAIN dir : \A y : ~Has(a, y)'
    <3>1. Lines(0)' = {}
      BY DEF Lines
    <3> QED BY <2>2, <3>1 DEF Has
  <2>7. \A a \in Real' : /\ g[a] \in Real /\ Level(a)' = Level(g[a]) + 0
                         /\ \A y \in Kept' : Has(a, y)' <=> Has(g[a], y)
    BY <1>0, <2>2, <2>4, <2>5
  <2>8. \A c \in Real, y \in Kept' :
            Has(c, y) => \E a \in Real' : Level(a)' <= Level(c) + 0 /\ Has(a, y)'
    BY <1>0, <2>2, <2>5
  <2>9. \A a \in Archives' \ Real', y \in Kept' :
            Has(a, y)' => \E c \in Archives : Level(c) + 0 <= Level(a)' /\ Has(c, y)
    BY <1>0, <2>2, <2>5, <2>6
  <2> QED BY <2>3, <2>7, <2>8, <2>9, ViewCarried
<1>8. CASE Move
  <2> SUFFICES ASSUME NEW m, m = moving, NEW n, n = NewName(moving) PROVE View'
    OBVIOUS
  <2>1. /\ UNCHANGED <<files, late, written, aged>>
    BY <1>8 DEF Move, logVars, pastVars
  <2>2. /\ m \in DOMAIN dir /\ n # m /\ (IsArchive(n) <=> IsArchive(m))
        /\ DOMAIN dir' = (DOMAIN dir \ {m}) \cup {n} /\ dir'[n] = dir[m]
        /\ \A a \in DOMAIN dir' \ {n} : a \in DOMAIN dir /\ a # m /\ dir'[a] = dir[a]
        /\ \A a : ~Awaited(a)'
        /\ Level(n)' = Level(m) /\ \A a \in DOMAIN dir' \ {n} : Level(a)' = Level(a)
        /\ m \in Archives => m \in Real
        /\ Real' = IF IsArchive(m) THEN (Real \ {m}) \cup {n} ELSE Real
        /\ Awaited(n)
    BY <1>8, MoveIs
  <2>3. Kept' = Kept
    BY <2>1 DEF Kept
  <2> DEFINE g == [a \in Real' |-> IF a = n THEN m ELSE a]
  <2>4. \A a \in Real' : g[a] = IF a = n THEN m ELSE a
    OBVIOUS
  <2> HIDE DEF g
  <2>5. n \notin Real /\ m \notin Real' /\ Real' = Archives' /\ Real' \subseteq DOMAIN dir'
    BY <2>2 DEF Real, Archives
  <2>6. IsArchive(m) <=> m \in Real
    BY <2>2 DEF Real, Archives
  <2>7. \A a \in Real' : g[a] \in Real /\ Level(a)' = Level(g[a]) /\ dir'[a] = dir[g[a]]
    BY <2>2, <2>4, <2>5, <2>6
  <2>8. \A a \in Real' : \A y : Has(a, y)' <=> Has(g[a], y)
    BY <1>1, <2>1, <2>7 DEF Has
  <2>9. \A c \in Real : \E a \in Real' : g[a] = c
    BY <2>2, <2>4, <2>5, <2>6
  <2>10. \A a \in Real' : /\ g[a] \in Real /\ Level(a)' = Level(g[a]) + 0
                          /\ \A y \in Kept' : Has(a, y)' <=> Has(g[a], y)
    BY <1>0, <2>7, <2>8
  <2>11. \A c \in Real, y \in Kept' :
            Has(c, y) => \E a \in Real' : Level(a)' <= Level(c) + 0 /\ Has(a, y)'
    <3> SUFFICES ASSUME NEW c \in Real, NEW y \in Kept', Has(c, y)
                 PROVE  \E a \in Real' : Level(a)' <= Level(c) + 0 /\ Has(a, y)'
      OBVIOUS
    <3>1. PICK a \in Real' : g[a] = c
      BY <2>9
    <3>2. Level(a)' = Level(c) /\ Has(a, y)' /\ Level(c) \in Int
      BY <1>0, <2>7, <2>8, <3>1
    <3> QED BY <3>2
  <2>12. \A a \in Archives' \ Real', y \in Kept' :
            Has(a, y)' => \E c \in Archives : Level(c) + 0 <= Level(a)' /\ Has(c, y)
    BY <2>5
  <2> QED BY <2>3, <2>10, <2>11, <2>12, ViewCarried
<1>9. CASE OpenOut
  <2>1. CASE There(Tmp(Path))
    <3>1. UNCHANGED <<dir, files, doomed, moves, moving, stage, aged, late, written>>
      BY <1>9, <2>1 DEF OpenOut, rotVars, logVars, pastVars
    <3> QED BY <1>1, <1>2, <3>1
  <2>2. CASE ~There(Tmp(Path))
    <3>1. /\ dir' = Bind(dir, Tmp(Path), out') /\ UNCHANGED <<rotVars, aged, late, written>> /\ step = "tmp"
          /\ files' = Append(files, {})
      BY <1>9, <2>2 DEF OpenOut, Runs, logVars, pastVars
    <3>2. /\ DOMAIN dir' = DOMAIN dir \cup {Tmp(Path)}
          /\ \A a \in DOMAIN dir : dir'[a] = dir[a]
      BY <2>2, <3>1 DEF Bind, There
    <3>3. ~IsArchive(Tmp(Path))
      BY <3>1, AtJob
    <3>4. /\ \A a : Level(a)' = Level(a)
          /\ \A a : Awaited(a)' = Awaited(a)
      BY <3>1, StandsStill DEF rotVars
    <3>5. Archives' = Archives
      BY <3>2, <3>3 DEF Archives
    <3>6. Real' = Real
      BY <3>4, <3>5 DEF Real
    <3>7. \A f \in 0..Len(files) : Lines(f)' = Lines(f)
      BY <1>0, <3>1, FileAdded DEF Lines
    <3>8. \A a \in Archives : Lines(dir[a])' = Lines(dir[a])
      BY <1>0, <3>2, <3>7
    <3>9. Kept' = Kept
      BY <3>1 DEF Kept
    <3>10. \A a \in Archives : Level(a)' = Level(a) + 0
      BY <1>0, <3>4
    <3> QED BY <3>5, <3>6, <3>8, <3>9, <3>10, ViewTheSame
  <2> QED BY <2>1, <2>2
<1>10. CASE RenameOut
  <2> SUFFICES ASSUME NEW P, P = Path, NEW D, D = Done(Path), NEW T, T = Tmp(Path) PROVE View'
    OBVIOUS
  <2>1. /\ P # D /\ T # D /\ P # T /\ P \in DOMAIN dir /\ dir[P] = in /\ ~Awaited(P)
        /\ DOMAIN dir' = (DOMAIN dir \ {T}) \cup {D} /\ dir'[D] = out
        /\ \A a \in DOMAIN dir' \ {D} : a \in DOMAIN dir /\ dir'[a] = dir[a]
        /\ \A a : Level(a)' = Level(a)
        /\ Level(D) = Level(P) /\ (IsArchive(D) <=> IsArchive(P))
        /\ IsArchive(P) => P \in Real
        /\ Archives' = IF IsArchive(P) THEN Archives \cup {D} ELSE Archives
        /\ Real' = IF IsArchive(P) /\ ~Awaited(D) THEN Real \cup {D} ELSE Real
    BY <1>10, RenameOutIs
  <2>2. /\ UNCHANGED <<files, late, written, aged>> /\ step = "rename"
    BY <1>10 DEF RenameOut, Runs, logVars, pastVars
  <2>3. Kept' = Kept
    BY <2>2 DEF Kept
  <2>4. \A a \in Archives \ {D} : \A y : Has(a, y)' <=> Has(a, y)
    <3>1. \A a \in Archives \ {D} : a \in Archives'
      BY <2>1
    <3>2. \A a \in Archives \ {D} : dir'[a] = dir[a]
      BY <2>1, <3>1 DEF Archives
    <3> QED BY <1>1, <2>2, <3>2 DEF Has
  <2>5. \A y \in Kept' : Has(D, y)' <=> Has(P, y)
    <3>1. Lines(out) \subseteq Lines(in) /\ Lines(in) \ late \subseteq Lines(out)
      BY <2>2 DEF Copying
    <3>2. \A y \in Kept : y \in Lines(out) <=> y \in Lines(in)
      BY <3>1 DEF Kept
    <3>3. \A y : Has(D, y)' <=> y \in Lines(out)
      BY <1>1, <2>1, <2>2 DEF Has
    <3> QED BY <2>1, <2>3, <3>2, <3>3 DEF Has
  <2> DEFINE g == [a \in Archives' |-> IF a = D THEN P ELSE a]
  <2>6. \A a \in Archives' : g[a] = IF a = D THEN P ELSE a
    OBVIOUS
  <2> HIDE DEF g
  <2>7. Real' \subseteq Archives'
    BY LevelsStayInt DEF Leveled
  <2>8. D \in Archives' => IsArchive(P) /\ P \in Real
    BY <2>1 DEF Archives
  <2>9. \A a \in Real' : /\ g[a] \in Real /\ Level(a)' = Level(g[a]) + 0
                         /\ \A y \in Kept' : Has(a, y)' <=> Has(g[a], y)
    <3> SUFFICES ASSUME NEW a \in Real'
                 PROVE  /\ g[a] \in Real /\ Level(a)' = Level(g[a]) + 0
                        /\ \A y \in Kept' : Has(a, y)' <=> Has(g[a], y)
      OBVIOUS
    <3>1. a \in Archives'
      BY <2>7
    <3>2. CASE a = D
      <4>1. g[a] = P /\ P \in Real
        BY <2>6, <2>8, <3>1, <3>2
      <4>2. Level(a)' = Level(P) /\ Level(P) \in Int
        BY <1>0, <2>1, <3>2, <4>1
      <4> QED BY <2>5, <3>2, <4>1, <4>2
    <3>3. CASE a # D
      <4>1. g[a] = a /\ a \in Real
        BY <2>1, <2>6, <3>1, <3>3
      <4>2. Level(a)' = Level(a) /\ Level(a) \in Int
        BY <1>0, <2>1, <4>1
      <4> QED BY <1>0, <2>4, <3>3, <4>1, <4>2
    <3> QED BY <3>2, <3>3
  <2>10. \A c \in Real, y \in Kept' :
            Has(c, y) => \E a \in Real' : Level(a)' <= Level(c) + 0 /\ Has(a, y)'
    <3> SUFFICES ASSUME NEW c \in Real, NEW y \in Kept', Has(c, y)
                 PROVE  \E a \in Real' : Level(a)' <= Level(c) + 0 /\ Has(a, y)'
      OBVIOUS
    <3>0. \A a \in Real : a \in Real' /\ Level(a)' = Level(a) /\ Level(a) \in Int
      BY <1>0, <2>1
    <3>1. CASE c # D
      <4>1. Has(c, y)'
        BY <1>0, <2>4, <3>1
      <4> QED BY <3>0, <4>1
    <3>2. CASE c = D
      <4>1. P \in Real /\ Level(P) = Level(D)
        BY <2>1, <3>2 DEF Real, Archives
      <4>2. CASE Has(P, y)
        <5>1. Has(D, y)'
          BY <2>5, <4>2
        <5> QED BY <3>0, <3>2, <5>1
      <4>3. CASE ~Has(P, y)
        <5>1. PICK d \in Real : Level(d) < Level(D) /\ Has(d, y)
          BY <2>3, <3>2, <4>1, <4>3 DEF View, Alike
        <5>2. d # D
          BY <3>0, <3>2, <5>1
        <5>3. Has(d, y)'
          BY <1>0, <2>4, <5>1, <5>2
        <5>4. Level(d)' <= Level(c) + 0
          BY <3>0, <3>2, <5>1
        <5> QED BY <3>0, <5>3, <5>4
      <4> QED BY <4>2, <4>3
    <3> QED BY <3>1, <3>2
  <2>11. \A a \in Archives' \ Real', y \in Kept' :
            Has(a, y)' => \E c \in Archives : Level(c) + 0 <= Level(a)' /\ Has(c, y)
    <3> SUFFICES ASSUME NEW a \in Archives' \ Real', NEW y \in Kept', Has(a, y)'
                 PROVE  \E c \in Archives : Level(c) + 0 <= Level(a)' /\ Has(c, y)
      OBVIOUS
    <3>1. CASE a = D
      <4>1. P \in Archives /\ Level(a)' = Level(P) /\ Level(P) \in Int
        BY <1>0, <2>1, <2>8, <3>1
      <4>2. Has(P, y)
        BY <2>5, <3>1
      <4> QED BY <4>1, <4>2
    <3>2. CASE a # D
      <4>1. a \in Archives /\ Level(a)' = Level(a) /\ Level(a) \in Int
        BY <1>0, <2>1, <3>2
      <4>2. Has(a, y)
        BY <2>4, <3>2, <4>1
      <4> QED BY <4>1, <4>2
    <3> QED BY <3>1, <3>2
  <2> QED BY <2>3, <2>9, <2>10, <2>11, ViewCarried
<1>11. CASE Unlink
  <2> SUFFICES ASSUME NEW P, P = Path PROVE View'
    OBVIOUS
  <2>1. /\ DOMAIN dir' = DOMAIN dir \ {P}
        /\ \A a \in DOMAIN dir' : dir'[a] = dir[a]
        /\ \A a : Level(a)' = Level(a)
        /\ Archives' = Archives \ {P} /\ Real' = Real \ {P}
        /\ P \in Real => \E Q \in Real \ {P} : Level(Q) = Level(P)
    BY <1>11, UnlinkIs
  <2>2. /\ UNCHANGED <<files, late, written, aged>>
    BY <1>11 DEF Unlink, logVars, pastVars
  <2>3. Kept' = Kept
    BY <2>2 DEF Kept
  <2>4. \A a \in Archives' : \A y : Has(a, y)' <=> Has(a, y)
    <3>1. Archives' \subseteq DOMAIN dir'
      BY DEF Archives
    <3> QED BY <1>1, <2>1, <2>2, <3>1 DEF Has
  <2> DEFINE g == [a \in Archives |-> a]
  <2>5. \A a \in Archives : g[a] = a
    OBVIOUS
  <2> HIDE DEF g
  <2>6. \A a \in Real' : /\ g[a] \in Real /\ Level(a)' = Level(g[a]) + 0
                         /\ \A y \in Kept' : Has(a, y)' <=> Has(g[a], y)
    BY <1>0, <2>1, <2>4, <2>5
  <2>7. \A c \in Real, y \in Kept' :
            Has(c, y) => \E a \in Real' : Level(a)' <= Level(c) + 0 /\ Has(a, y)'
    <3> SUFFICES ASSUME NEW c \in Real, NEW y \in Kept', Has(c, y)
                 PROVE  \E a \in Real' : Level(a)' <= Level(c) + 0 /\ Has(a, y)'
      OBVIOUS
    <3>0. \A a \in Real \ {P} : /\ a \in Real' /\ Level(a)' = Level(a) /\ Level(a) \in Int
                                /\ Has(a, y)' <=> Has(a, y)
      BY <1>0, <2>1, <2>4
    <3>1. CASE c # P
      BY <3>0, <3>1
    <3>2. CASE c = P
      <4>1. PICK Q \in Real \ {P} : Level(Q) = Level(P)
        BY <2>1, <3>2
      <4>2. CASE Has(Q, y)
        <5>1. Level(Q)' <= Level(c) + 0 /\ Has(Q, y)' /\ Q \in Real'
          BY <3>0, <3>2, <4>1, <4>2
        <5> QED BY <5>1
      <4>3. CASE ~Has(Q, y)
        <5>1. PICK d \in Real : Level(d) < Level(P) /\ Has(d, y)
          BY <2>3, <3>2, <4>1, <4>3 DEF View, Alike
        <5>2. d # P /\ Level(P) \in Int
          BY <1>0, <3>2, <5>1
        <5>3. Level(d)' <= Level(c) + 0 /\ Has(d, y)' /\ d \in Real'
          BY <3>0, <3>2, <5>1, <5>2
        <5> QED BY <5>3
      <4> QED BY <4>2, <4>3
    <3> QED BY <3>1, <3>2
  <2>8. \A a \in Archives' \ Real', y \in Kept' :
            Has(a, y)' => \E c \in Archives : Level(c) + 0 <= Level(a)' /\ Has(c, y)
    BY <1>0, <2>1, <2>4
  <2> QED BY <2>3, <2>6, <2>7, <2>8, ViewCarried
<1>12. CASE UNCHANGED vars
  BY <1>1, <1>2, <1>12 DEF vars, rotVars, logVars, pastVars
<1> QED
  BY <1>3, <1>4, <1>5, <1>6, <1>7, <1>8, <1>9, <1>10, <1>11, <1>12, ViewReopened, ViewWritten
  DEF Next, Step, Rotation, Compress

-----------------------------------------------------------------------------
(* The order of the lines *)

\* What only the first of two files holds was logged after all the other holds.
After(x, y) == \A i \in y, j \in x \ y : i < j

Sorted == \A a, b \in Archives : Level(a) <= Level(b) => After(Lines(dir[a]), Lines(dir[b]))

CopySorted == step \in {"copy", "rename"} => After(Lines(in), Lines(out))

(***************************************************************************)
(* A log that may be written to has what is in the archives that are no    *)
(* older; and the descriptor a thread holds is of an older log than the    *)
(* one logging has now.                                                    *)
(***************************************************************************)
LogsHaveAll ==
  \A a \in Archives : dir[a] \in {fd, held} /\ dir[a] # 0 =>
    \A c \in Archives \ {a} : Level(c) <= Level(a) => Lines(dir[c]) \subseteq Lines(dir[a])

LogsInOrder ==
  \A a, b \in Archives : dir[a] = fd /\ dir[b] = held /\ held # 0 /\ fd # held => Level(a) < Level(b)

Order == Sorted /\ CopySorted /\ LogsHaveAll /\ LogsInOrder

LEMMA OrderCarried ==
  ASSUME Base, Order, NEW k \in Int, NEW g, fd' = fd, held' \in {0, fd, held}, fd # 0,
         \A a \in Archives' : \/ dir'[a] = 0
                              \/ /\ g[a] \in Archives /\ Level(a)' = Level(g[a]) + k
                                 /\ dir'[a] = dir[g[a]] /\ Lines(dir[a])' = Lines(dir[g[a]]),
         \A a, b \in Archives' : g[a] = g[b] => a = b \/ dir'[a] = 0
  PROVE  Sorted' /\ LogsHaveAll' /\ LogsInOrder'
<1>0. \A a \in Archives : Level(a) \in Int
  BY LevelsAreInt DEF Leveled
<1>1. \A a \in Archives' : dir'[a] = 0 => Lines(dir[a])' = {}
  BY DEF Lines
<1>2. ASSUME NEW a \in Archives', NEW b \in Archives', dir'[a] # 0, dir'[b] # 0
      PROVE  /\ g[a] \in Archives /\ g[b] \in Archives
             /\ (Level(a)' <= Level(b)') <=> (Level(g[a]) <= Level(g[b]))
             /\ (Level(a)' < Level(b)') <=> (Level(g[a]) < Level(g[b]))
  <2>1. /\ g[a] \in Archives /\ g[b] \in Archives
        /\ Level(a)' = Level(g[a]) + k /\ Level(b)' = Level(g[b]) + k
    BY <1>2
  <2>2. Level(g[a]) \in Int /\ Level(g[b]) \in Int
    BY <1>0, <2>1
  <2>3. \A i, j \in Int : (i + k <= j + k <=> i <= j) /\ (i + k < j + k <=> i < j)
    OBVIOUS
  <2> QED BY <2>1, <2>2, <2>3
<1>3. Sorted'
  <2> SUFFICES ASSUME NEW a \in Archives', NEW b \in Archives', Level(a)' <= Level(b)'
               PROVE  After(Lines(dir[a]), Lines(dir[b]))'
    BY DEF Sorted
  <2>1. CASE dir'[a] = 0 \/ dir'[b] = 0
    BY <1>1, <2>1 DEF After
  <2>2. CASE dir'[a] # 0 /\ dir'[b] # 0
    <3>1. After(Lines(dir[g[a]]), Lines(dir[g[b]]))
      BY <1>2, <2>2 DEF Order, Sorted
    <3>2. Lines(dir[a])' = Lines(dir[g[a]]) /\ Lines(dir[b])' = Lines(dir[g[b]])
      BY <2>2
    <3> QED BY <3>1, <3>2 DEF After
  <2> QED BY <2>1, <2>2
<1>4. LogsHaveAll'
  <2> SUFFICES ASSUME NEW a \in Archives', dir'[a] \in {fd', held'}, dir'[a] # 0,
                      NEW c \in Archives' \ {a}, Level(c)' <= Level(a)'
               PROVE  Lines(dir[c])' \subseteq Lines(dir[a])'
    BY DEF LogsHaveAll
  <2>1. CASE dir'[c] = 0
    BY <1>1, <2>1
  <2>2. CASE dir'[c] # 0
    <3>1. /\ g[a] \in Archives /\ dir'[a] = dir[g[a]] /\ Lines(dir[a])' = Lines(dir[g[a]])
          /\ g[c] \in Archives /\ Lines(dir[c])' = Lines(dir[g[c]]) /\ g[c] # g[a]
      BY <2>2
    <3>2. Level(g[c]) <= Level(g[a])
      BY <1>2, <2>2
    <3> QED BY <3>1, <3>2 DEF Order, LogsHaveAll
  <2> QED BY <2>1, <2>2
<1>5. LogsInOrder'
  <2> SUFFICES ASSUME NEW a \in Archives', NEW b \in Archives', dir'[a] = fd, dir'[b] = held',
                      held' # 0, fd # held'
               PROVE  Level(a)' < Level(b)'
    BY DEF LogsInOrder
  <2>1. dir'[a] # 0 /\ dir'[b] # 0 /\ held' = held
    OBVIOUS
  <2>2. dir[g[a]] = fd /\ dir[g[b]] = held /\ g[a] \in Archives /\ g[b] \in Archives
    BY <2>1
  <2> QED BY <1>2, <2>1, <2>2 DEF Order, LogsInOrder
<1> QED BY <1>3, <1>4, <1>5

LEMMA CopySortedKept ==
  Base /\ OneName /\ Undisturbed /\ Copying /\ CopySorted /\ [Next]_vars => CopySorted'
<1> SUFFICES ASSUME Base, OneName, Undisturbed, Copying, CopySorted, [Next]_vars PROVE CopySorted'
  OBVIOUS
<1>0. Typed /\ Len(files) \in Nat /\ in \in 0..Len(files) /\ out \in 0..Len(files)
  BY LenProperties DEF Base, Typed
<1>1. ASSUME step' \notin {"copy", "rename"} PROVE CopySorted'
  BY <1>1 DEF CopySorted
<1>2. ASSUME UNCHANGED <<step, in, out>>, \A f \in 0..Len(files) : Lines(f)' = Lines(f) PROVE CopySorted'
  <2>1. Lines(in)' = Lines(in) /\ Lines(out)' = Lines(out)
    BY <1>0, <1>2
  <2> QED BY <1>2, <2>1 DEF CopySorted, After
<1>3. UNCHANGED files => \A f : Lines(f)' = Lines(f)
  BY DEF Lines
<1>4. CASE \/ TakeFd \/ Hup \/ (\E name \in doomed : Delete(name)) \/ (\E name \in moves : Place(name))
           \/ Move \/ Loop \/ SpuriousWakeup \/ Finish \/ Drain \/ UNCHANGED vars
  <2>1. UNCHANGED <<step, in, out, files>>
    BY <1>4 DEF TakeFd, Hup, Delete, Place, Move, Loop, SpuriousWakeup, Finish, Drain, jobVars, vars
  <2> QED BY <1>2, <1>3, <2>1
<1>5. CASE Reopen
  <2>1. UNCHANGED jobVars
    BY <1>5 DEF Reopen
  <2> QED BY <1>2, <1>5, <2>1, OpenedIs DEF jobVars
<1>6. CASE Crash \/ OpenIn \/ BlockFails \/ RenameOut \/ Unlink
  <2>1. step' \in {"none", "tmp", "unlink"}
    BY <1>6 DEF Crash, OpenIn, BlockFails, RenameOut, Unlink, JobEnds
  <2> QED BY <1>1, <2>1
<1>7. CASE WriteLine
  <2>1. /\ written' = written + 1 /\ written \in Nat
        /\ \A f \in 0..Len(files) : Lines(f)' = IF f = held THEN Lines(f) \cup {written'} ELSE Lines(f)
        /\ \A f \in 0..Len(files) : Lines(f) \subseteq 1..written
    BY <1>0, <1>7, LineWritten, LinesAre
  <2>2. UNCHANGED <<step, in, out>>
    BY <1>7 DEF WriteLine, jobVars
  <2> SUFFICES ASSUME step \in {"copy", "rename"} PROVE After(Lines(in), Lines(out))'
    BY <2>2 DEF CopySorted
  <2>3. out # held /\ Lines(out)' = Lines(out)
    BY <1>0, <2>1, <2>2 DEF Copying
  <2>4. Lines(in)' \subseteq Lines(in) \cup {written'}
    BY <1>0, <2>1, <2>2
  <2>5. \A i \in Lines(out) : i < written'
    BY <1>0, <2>1
  <2> QED BY <2>3, <2>4, <2>5 DEF CopySorted, After
<1>8. CASE OpenOut
  <2>1. CASE There(Tmp(Path))
    BY <1>1, <1>8, <2>1 DEF OpenOut, JobEnds
  <2>2. CASE ~There(Tmp(Path))
    <3>1. files' = Append(files, {}) /\ out' = Len(files') /\ written' = written
      BY <1>8, <2>2 DEF OpenOut, logVars
    <3>2. files'[out'] = {}
      BY <1>0, <3>1, FileAdded
    <3>3. Lines(out)' = {}
      BY <3>2 DEF Lines
    <3> QED BY <3>3 DEF CopySorted, After
  <2> QED BY <2>1, <2>2
<1>9. CASE Block
  <2>1. /\ step = "copy" /\ UNCHANGED <<in, out>>
        /\ files' = files \/ files' = [files EXCEPT ![out] = Lines(in)]
    BY <1>9 DEF Block, Runs
  <2>2. in # out /\ out \in 1..Len(files)
    <3>1. dir[Path] = in /\ There(Path) /\ Tmp(Path) # Path
      BY <2>1, AtJob
    <3> QED BY <1>0, <2>1, <3>1 DEF Copying, OneName, There
  <2>3. CASE files' = files
    <3>1. Lines(in)' = Lines(in) /\ Lines(out)' = Lines(out)
      BY <1>3, <2>1, <2>3
    <3> QED BY <2>1, <3>1 DEF CopySorted, After
  <2>4. CASE files' = [files EXCEPT ![out] = Lines(in)]
    <3>1. files'[out] = Lines(in)
      BY <1>0, <2>2, <2>4 DEF Typed
    <3>2. Lines(in)' = Lines(in)
      BY <2>1, <2>2, <2>4 DEF Lines
    <3>3. Lines(out)' = Lines(in)
      BY <2>1, <2>2, <3>1 DEF Lines
    <3> QED BY <3>2, <3>3 DEF CopySorted, After
  <2> QED BY <2>1, <2>3, <2>4
<1> QED
  BY <1>4, <1>5, <1>6, <1>7, <1>8, <1>9 DEF Next, Step, Rotation, Compress

LEMMA OrderWritten ==
  ASSUME Base, OneName, Order, WriteLine
  PROVE  Sorted' /\ LogsHaveAll' /\ LogsInOrder'
<1> SUFFICES ASSUME NEW z, z = written' PROVE Sorted' /\ LogsHaveAll' /\ LogsInOrder'
  OBVIOUS
<1>0. /\ z = written + 1 /\ written \in Nat /\ held \in 1..Len(files) /\ held # 0
      /\ \A f \in 0..Len(files) : Lines(f)' = IF f = held THEN Lines(f) \cup {z} ELSE Lines(f)
      /\ \A f \in 0..Len(files) : Lines(f) \subseteq 1..written
  BY LineWritten, LinesAre DEF Base
<1>1. /\ UNCHANGED <<dir, rotVars, fd>> /\ held' = 0
  BY DEF WriteLine
<1>2. Archives' = Archives /\ \A a : Level(a)' = Level(a)
  BY <1>1, StandsStill DEF rotVars
<1>3. \A a \in Archives : dir[a] \in 0..Len(files) /\ dir'[a] = dir[a] /\ Level(a) \in Int
  BY <1>1, LevelsAreInt DEF Archives, Base, Typed, Leveled
<1>4. \A a \in Archives : /\ Lines(dir[a])' = IF dir[a] = held THEN Lines(dir[a]) \cup {z} ELSE Lines(dir[a])
                          /\ Lines(dir[a]) \subseteq 1..written
  BY <1>0, <1>3
<1>5. Sorted'
  <2> SUFFICES ASSUME NEW a \in Archives, NEW b \in Archives, Level(a) <= Level(b)
               PROVE  After(Lines(dir[a]), Lines(dir[b]))'
    BY <1>2 DEF Sorted
  <2>1. After(Lines(dir[a]), Lines(dir[b]))
    BY DEF Order, Sorted
  <2>2. CASE dir[b] = held
    <3>1. Lines(dir[b])' = Lines(dir[b]) \cup {z}
      BY <1>4, <2>2
    <3>2. CASE a = b
      BY <3>2 DEF After
    <3>3. CASE a # b
      <4>1. Lines(dir[a]) \subseteq Lines(dir[b])
        BY <1>0, <2>2, <3>3 DEF Order, LogsHaveAll
      <4>2. dir[a] # held
        BY <1>0, <2>2, <3>3 DEF OneName, Archives
      <4>3. Lines(dir[a])' \subseteq Lines(dir[b])'
        BY <1>4, <3>1, <4>1, <4>2
      <4> QED BY <4>3 DEF After
    <3> QED BY <3>2, <3>3
  <2>3. CASE dir[b] # held
    <3>1. Lines(dir[b])' = Lines(dir[b]) /\ Lines(dir[a])' \subseteq Lines(dir[a]) \cup {z}
      BY <1>4, <2>3
    <3>2. \A i \in Lines(dir[b]) : i < z
      <4>1. Lines(dir[b]) \subseteq 1..written
        BY <1>4
      <4>2. \A i \in 1..written : i < z
        BY <1>0
      <4> QED BY <4>1, <4>2
    <3> QED BY <2>1, <3>1, <3>2 DEF After
  <2> QED BY <2>2, <2>3
<1>6. LogsHaveAll'
  <2> SUFFICES ASSUME NEW a \in Archives, dir[a] = fd, dir[a] # 0,
                      NEW c \in Archives \ {a}, Level(c) <= Level(a)
               PROVE  Lines(dir[c])' \subseteq Lines(dir[a])'
    BY <1>1, <1>2 DEF LogsHaveAll
  <2>1. Lines(dir[c]) \subseteq Lines(dir[a])
    BY DEF Order, LogsHaveAll
  <2>2. dir[c] # held
    <3>1. CASE dir[c] = held /\ fd # held
      <4>1. Level(a) < Level(c)
        BY <1>0, <3>1 DEF Order, LogsInOrder
      <4> QED BY <1>3, <4>1
    <3>2. CASE dir[c] = held /\ fd = held
      BY <3>2 DEF OneName, Archives
    <3> QED BY <3>1, <3>2
  <2>3. Lines(dir[c])' = Lines(dir[c]) /\ Lines(dir[a]) \subseteq Lines(dir[a])'
    BY <1>4, <2>2
  <2> QED BY <2>1, <2>3
<1>7. LogsInOrder'
  BY <1>1 DEF LogsInOrder
<1> QED BY <1>5, <1>6, <1>7

LEMMA OrderReopened ==
  ASSUME Base, Undisturbed, Order, Reopen \/ Crash, OneName'
  PROVE  Sorted' /\ LogsHaveAll' /\ LogsInOrder'
<1>0. /\ DOMAIN dir' = DOMAIN dir \cup {Log} /\ dir'[Log] = fd' /\ fd' # 0
      /\ \A a \in DOMAIN dir : dir'[a] = dir[a]
      /\ ~There(Log) => Lines(fd)' = {}
      /\ \A f \in 0..Len(files) : Lines(f)' = Lines(f)
      /\ \A a : Level(a)' = a.n
      /\ Archives' = Archives \cup {Log}
      /\ \A a \in DOMAIN dir' : a.n \in Int /\ -1 <= a.n /\ (a.n = -1 => a = Log)
      /\ Log.n = -1 /\ Log.ext = <<>>
  BY OpenedIs
<1>1. \A a \in Archives' : /\ a \in DOMAIN dir' /\ a.n \in Int /\ -1 <= a.n /\ (a.n = -1 => a = Log)
                           /\ dir'[a] = fd' => a = Log
  BY <1>0 DEF Archives, OneName
<1>2. \A a \in Archives' : \/ a \in Archives /\ dir'[a] = dir[a] /\ Lines(dir[a])' = Lines(dir[a])
                           \/ a = Log /\ Lines(dir[a])' = {}
  <2> SUFFICES ASSUME NEW a \in Archives'
               PROVE  \/ a \in Archives /\ dir'[a] = dir[a] /\ Lines(dir[a])' = Lines(dir[a])
                      \/ a = Log /\ Lines(dir[a])' = {}
    OBVIOUS
  <2>1. CASE a \in Archives
    <3>1. a \in DOMAIN dir /\ dir[a] \in 0..Len(files)
      BY <2>1 DEF Archives, Base, Typed
    <3> QED BY <1>0, <2>1, <3>1
  <2>2. CASE a \notin Archives
    <3>1. a = Log /\ ~There(Log)
      BY <1>0, <2>2, LogIs DEF Archives, There, IsArchive
    <3> QED BY <1>0, <3>1
  <2> QED BY <2>1, <2>2
<1>3. \A a, b \in Archives : a.n <= b.n => Level(a) <= Level(b)
  <2> SUFFICES ASSUME NEW a \in Archives, NEW b \in Archives, a.n <= b.n PROVE Level(a) <= Level(b)
    OBVIOUS
  <2>1. a.n \in Int /\ b.n \in Int /\ Level(a) \in Int /\ Level(b) \in Int
    BY LevelIs DEF Archives
  <2>2. a.n < b.n \/ a.n = b.n
    BY <2>1
  <2> QED BY <2>1, <2>2, LevelsAndNumbers
<1>4. Sorted'
  <2> SUFFICES ASSUME NEW a \in Archives', NEW b \in Archives', a.n <= b.n
               PROVE  After(Lines(dir[a]), Lines(dir[b]))'
    BY <1>0 DEF Sorted
  <2>1. CASE Lines(dir[a])' = {} \/ Lines(dir[b])' = {}
    BY <2>1 DEF After
  <2>2. CASE ~(Lines(dir[a])' = {} \/ Lines(dir[b])' = {})
    <3>1. /\ a \in Archives /\ Lines(dir[a])' = Lines(dir[a])
          /\ b \in Archives /\ Lines(dir[b])' = Lines(dir[b])
      BY <1>2, <2>2
    <3> QED BY <1>3, <3>1 DEF Order, Sorted, After
  <2> QED BY <2>1, <2>2
<1>5. held' = 0 \/ (held' = held /\ stage = "rotate" /\ Pending = {})
  BY DEF Reopen, Crash, Pending
<1>6. LogsHaveAll'
  <2> SUFFICES ASSUME NEW a \in Archives', dir'[a] \in {fd', held'}, dir'[a] # 0,
                      NEW c \in Archives', c # a, c.n <= a.n
               PROVE  Lines(dir[c])' \subseteq Lines(dir[a])'
    BY <1>0 DEF LogsHaveAll
  <2>1. a # Log
    BY <1>0, <1>1
  <2>2. a \in Archives /\ dir[a] = held /\ dir[a] # 0 /\ Lines(dir[a])' = Lines(dir[a])
    BY <1>1, <1>2, <1>5, <2>1
  <2>3. CASE Lines(dir[c])' = {}
    BY <2>3
  <2>4. CASE Lines(dir[c])' # {}
    <3>1. c \in Archives /\ Lines(dir[c])' = Lines(dir[c])
      BY <1>2, <2>4
    <3> QED BY <1>3, <2>2, <3>1 DEF Order, LogsHaveAll
  <2> QED BY <2>3, <2>4
<1>7. LogsInOrder'
  <2> SUFFICES ASSUME NEW a \in Archives', NEW b \in Archives', dir'[a] = fd', dir'[b] = held', fd' # held'
               PROVE  a.n < b.n
    BY <1>0 DEF LogsInOrder
  <2>1. a = Log /\ b # Log
    BY <1>0, <1>1
  <2> QED BY <1>0, <1>1, <2>1
<1> QED BY <1>4, <1>6, <1>7

LEMMA OrderKept ==
  Base /\ OneName /\ Undisturbed /\ Copying /\ Copied /\ Order /\ [Next]_vars /\ OneName' /\ ~raced' => Order'
<1> SUFFICES ASSUME Base, OneName, Undisturbed, Copying, Copied, Order, [Next]_vars, OneName', ~raced'
             PROVE  Sorted' /\ LogsHaveAll' /\ LogsInOrder'
  BY CopySortedKept DEF Order
<1>0. /\ Typed /\ Len(files) \in Nat /\ fd # 0 /\ in \in 0..Len(files) /\ out \in 0..Len(files)
      /\ \A a \in DOMAIN dir : dir[a] \in 0..Len(files)
      /\ Archives \subseteq DOMAIN dir
      /\ \A a \in Archives : Level(a) \in Int
  <2>1. Typed /\ Len(files) \in Nat
    BY LenProperties DEF Base, Typed
  <2> QED BY <2>1, LevelsAreInt DEF Base, Named, Typed, Archives, Leveled
<1>1. UNCHANGED files => \A f : Lines(f)' = Lines(f)
  BY DEF Lines
\* Every archive was there, with what it has now
<1>2. ASSUME NEW k \in Int, fd' = fd, held' \in {0, fd, held},
             \A a \in Archives' : \/ dir'[a] = 0
                                  \/ /\ a \in Archives /\ Level(a)' = Level(a) + k
                                     /\ dir'[a] = dir[a] /\ Lines(dir[a])' = Lines(dir[a])
      PROVE  Sorted' /\ LogsHaveAll' /\ LogsInOrder'
  <2> DEFINE g == [a \in Archives' |-> a]
  <2>1. \A a \in Archives' : g[a] = a
    OBVIOUS
  <2> HIDE DEF g
  <2>2. \A a \in Archives' : \/ dir'[a] = 0
                             \/ /\ g[a] \in Archives /\ Level(a)' = Level(g[a]) + k
                                /\ dir'[a] = dir[g[a]] /\ Lines(dir[a])' = Lines(dir[g[a]])
    BY <1>2, <2>1
  <2>3. \A a, b \in Archives' : g[a] = g[b] => a = b \/ dir'[a] = 0
    BY <2>1
  <2>4. k \in Int /\ fd' = fd /\ held' \in {0, fd, held} /\ fd # 0
    BY <1>0, <1>2
  <2> HIDE <1>2
  <2> QED BY <2>2, <2>3, <2>4, OrderCarried
<1>3. ASSUME UNCHANGED <<dir, doomed, moves, moving, fd>>, held' \in {0, fd, held},
             (stage' = "placed") = (stage = "placed"),
             \A f \in 0..Len(files) : (f = out => step # "copy") => Lines(f)' = Lines(f)
      PROVE  Sorted' /\ LogsHaveAll' /\ LogsInOrder'
  <2>1. /\ Archives' = Archives
        /\ \A a : Level(a)' = Level(a)
    BY <1>3, StandsStill
  <2>2. \A a \in Archives : dir[a] = out => step # "copy"
    <3> SUFFICES ASSUME NEW a \in Archives, dir[a] = out, step = "copy" PROVE FALSE
      OBVIOUS
    <3>1. There(Tmp(Path)) /\ dir[Tmp(Path)] = out /\ out # 0 /\ ~IsArchive(Tmp(Path))
      BY AtJob DEF Copying
    <3>2. a = Tmp(Path)
      BY <1>0, <3>1 DEF OneName, There
    <3> QED BY <3>1, <3>2 DEF Archives
  <2>3. \A a \in Archives : Lines(dir[a])' = Lines(dir[a])
    BY <1>0, <1>3, <2>2
  <2>4. \A a \in Archives' : a \in Archives /\ Level(a)' = Level(a) + 0 /\ dir'[a] = dir[a]
    BY <1>0, <1>3, <2>1
  <2> QED BY <1>2, <1>3, <2>3, <2>4
<1>4. CASE TakeFd \/ Loop \/ SpuriousWakeup \/ Finish \/ Drain \/ OpenIn \/ BlockFails
  <2>1. /\ UNCHANGED <<dir, files, doomed, moves, moving, fd>> /\ held' \in {fd, held}
        /\ (stage' = "placed") = (stage = "placed")
    BY <1>4 DEF TakeFd, Loop, SpuriousWakeup, Finish, Drain, OpenIn, BlockFails, rotVars, logVars
  <2> QED BY <1>1, <1>3, <2>1
<1>5. CASE Block
  <2>1. /\ UNCHANGED <<dir, doomed, moves, moving, stage, fd, held>> /\ step = "copy"
        /\ files' = files \/ files' = [files EXCEPT ![out] = Lines(in)]
    BY <1>5 DEF Block, Runs, rotVars, logVars
  <2>2. \A f \in 0..Len(files) : f # out => Lines(f)' = Lines(f)
    <3>1. files' = [files EXCEPT ![out] = Lines(in)] => \A f : f # out => Lines(f)' = Lines(f)
      BY DEF Lines
    <3> QED BY <1>1, <2>1, <3>1
  <2> QED BY <1>3, <2>1, <2>2
<1>6. CASE Hup
  <2>1. UNCHANGED <<dir, files, fd, held>>
    BY <1>6 DEF Hup, logVars
  <2>2. /\ Archives' = Archives
        /\ \A a \in Archives : Level(a)' = Level(a) + 1
    BY <1>0, <1>6, HupIs
  <2>3. \A a \in Archives : Lines(dir[a])' = Lines(dir[a])
    BY <1>1, <2>1
  <2> QED BY <1>2, <2>1, <2>2, <2>3
<1>7. ASSUME NEW name \in doomed, Delete(name) PROVE Sorted' /\ LogsHaveAll' /\ LogsInOrder'
  <2>1. UNCHANGED <<files, fd, held>>
    BY <1>7 DEF Delete, logVars
  <2>2. /\ DOMAIN dir' = DOMAIN dir \ {name}
        /\ \A a \in DOMAIN dir' : dir'[a] = dir[a] /\ Level(a)' = Level(a)
        /\ Archives' = Archives \ {name}
    BY <1>7, DeleteIs
  <2>3. \A a \in Archives' : /\ a \in Archives /\ Level(a)' = Level(a) + 0
                             /\ dir'[a] = dir[a] /\ Lines(dir[a])' = Lines(dir[a])
    BY <1>0, <1>1, <2>1, <2>2
  <2> QED BY <1>2, <2>1, <2>3
<1>8. ASSUME NEW name \in moves, Place(name) PROVE Sorted' /\ LogsHaveAll' /\ LogsInOrder'
  <2>1. UNCHANGED <<files, fd, held>>
    BY <1>8 DEF Place, logVars
  <2>2. /\ Archives' \subseteq Archives \cup (DOMAIN dir' \ DOMAIN dir)
        /\ \A a \in DOMAIN dir : dir'[a] = dir[a]
        /\ \A a \in DOMAIN dir' \ DOMAIN dir : dir'[a] = 0
        /\ \A a \in Archives : Level(a)' = Level(a)
    BY <1>8, PlaceIs
  <2>3. \A a \in Archives : Level(a)' = Level(a) + 0 /\ dir'[a] = dir[a] /\ Lines(dir[a])' = Lines(dir[a])
    BY <1>0, <1>1, <2>1, <2>2
  <2> QED BY <1>2, <2>1, <2>2, <2>3
<1>9. CASE Move
  <2> SUFFICES ASSUME NEW m, m = moving, NEW n, n = NewName(moving)
               PROVE  Sorted' /\ LogsHaveAll' /\ LogsInOrder'
    OBVIOUS
  <2>1. UNCHANGED <<files, fd, held>>
    BY <1>9 DEF Move, logVars
  <2>2. /\ m \in DOMAIN dir /\ n # m /\ (IsArchive(n) <=> IsArchive(m))
        /\ DOMAIN dir' = (DOMAIN dir \ {m}) \cup {n} /\ dir'[n] = dir[m]
        /\ \A a \in DOMAIN dir' \ {n} : a \in DOMAIN dir /\ a # m /\ dir'[a] = dir[a]
        /\ Level(n)' = Level(m) /\ \A a \in DOMAIN dir' \ {n} : Level(a)' = Level(a)
    BY <1>9, MoveIs
  <2> DEFINE g == [a \in Archives' |-> IF a = n THEN m ELSE a]
  <2>3. \A a \in Archives' : g[a] = IF a = n THEN m ELSE a
    OBVIOUS
  <2> HIDE DEF g
  <2>4. Archives' \subseteq DOMAIN dir' /\ m \notin Archives' /\ (n \in Archives' => m \in Archives)
        /\ Archives' \ {n} \subseteq Archives
    BY <2>2 DEF Archives
  <2>5. \A a \in Archives' : g[a] \in Archives /\ Level(a)' = Level(g[a]) /\ dir'[a] = dir[g[a]]
    BY <2>2, <2>3, <2>4
  <2>6. \A a \in Archives' : /\ g[a] \in Archives /\ Level(a)' = Level(g[a]) + 0
                             /\ dir'[a] = dir[g[a]] /\ Lines(dir[a])' = Lines(dir[g[a]])
    BY <1>0, <1>1, <2>1, <2>5
  <2>7. \A a, b \in Archives' : g[a] = g[b] => a = b
    BY <2>3, <2>4
  <2> QED BY <1>0, <2>1, <2>6, <2>7, OrderCarried
<1>10. CASE OpenOut
  <2>1. CASE There(Tmp(Path))
    <3>1. UNCHANGED <<dir, files, doomed, moves, moving, stage, fd, held>>
      BY <1>10, <2>1 DEF OpenOut, rotVars, logVars
    <3> QED BY <1>1, <1>3, <3>1
  <2>2. CASE ~There(Tmp(Path))
    <3>1. /\ dir' = Bind(dir, Tmp(Path), out') /\ UNCHANGED <<rotVars, fd, held, written>> /\ step = "tmp"
          /\ files' = Append(files, {})
      BY <1>10, <2>2 DEF OpenOut, Runs, logVars
    <3>2. /\ DOMAIN dir' = DOMAIN dir \cup {Tmp(Path)}
          /\ \A a \in DOMAIN dir : dir'[a] = dir[a]
      BY <2>2, <3>1 DEF Bind, There
    <3>3. ~IsArchive(Tmp(Path))
      BY <3>1, AtJob
    <3>4. \A a : Level(a)' = Level(a)
      BY <3>1, StandsStill DEF rotVars
    <3>5. Archives' = Archives
      BY <3>2, <3>3 DEF Archives
    <3>6. \A f \in 0..Len(files) : Lines(f)' = Lines(f)
      BY <1>0, <3>1, FileAdded DEF Lines
    <3>7. \A a \in Archives : Level(a)' = Level(a) + 0 /\ dir'[a] = dir[a] /\ Lines(dir[a])' = Lines(dir[a])
      BY <1>0, <3>2, <3>4, <3>6
    <3> QED BY <1>2, <3>1, <3>5, <3>7
  <2> QED BY <2>1, <2>2
<1>11. CASE Unlink
  <2> SUFFICES ASSUME NEW P, P = Path PROVE Sorted' /\ LogsHaveAll' /\ LogsInOrder'
    OBVIOUS
  <2>1. /\ DOMAIN dir' = DOMAIN dir \ {P}
        /\ \A a \in DOMAIN dir' : dir'[a] = dir[a]
        /\ \A a : Level(a)' = Level(a)
        /\ Archives' = Archives \ {P}
    BY <1>11, UnlinkIs
  <2>2. UNCHANGED <<files, fd, held>>
    BY <1>11 DEF Unlink, logVars
  <2>3. \A a \in Archives' : /\ a \in Archives /\ Level(a)' = Level(a) + 0
                             /\ dir'[a] = dir[a] /\ Lines(dir[a])' = Lines(dir[a])
    BY <1>0, <1>1, <2>1, <2>2
  <2> QED BY <1>2, <2>2, <2>3
<1>12. CASE RenameOut
  <2> SUFFICES ASSUME NEW P, P = Path, NEW D, D = Done(Path), NEW T, T = Tmp(Path)
               PROVE  Sorted' /\ LogsHaveAll' /\ LogsInOrder'
    OBVIOUS
  <2>1. /\ P # D /\ P \in DOMAIN dir /\ dir[P] = in
        /\ DOMAIN dir' = (DOMAIN dir \ {T}) \cup {D} /\ dir'[D] = out
        /\ \A a \in DOMAIN dir' \ {D} : a \in DOMAIN dir /\ dir'[a] = dir[a]
        /\ \A a : Level(a)' = Level(a)
        /\ Level(D) = Level(P) /\ (IsArchive(D) <=> IsArchive(P))
        /\ Archives' = IF IsArchive(P) THEN Archives \cup {D} ELSE Archives
    BY <1>12, RenameOutIs
  <2>2. UNCHANGED <<files, fd, held>> /\ step = "rename"
    BY <1>12 DEF RenameOut, Runs, logVars
  <2>3. \A f : Lines(f)' = Lines(f)
    BY <1>1, <2>2
  <2>4. \A a \in Archives' \ {D} : a \in Archives /\ dir'[a] = dir[a] /\ Lines(dir[a])' = Lines(dir[a])
    <3>1. \A a \in Archives' \ {D} : a \in DOMAIN dir' /\ a \in Archives
      BY <2>1 DEF Archives
    <3> QED BY <2>1, <2>3, <3>1
  <2>5. /\ out \notin {fd, held} /\ Lines(out) \subseteq Lines(in) /\ After(Lines(in), Lines(out))
    BY <2>2 DEF Copying, Order, CopySorted
  <2>6. D \in Archives' => P \in Archives
    BY <2>1 DEF Archives
  <2>7. Lines(dir[D])' = Lines(out)
    BY <2>1, <2>3
  <2>8. Sorted'
    <3> SUFFICES ASSUME NEW a \in Archives', NEW b \in Archives', Level(a) <= Level(b)
                 PROVE  After(Lines(dir[a]), Lines(dir[b]))'
      BY <2>1 DEF Sorted
    <3>1. CASE a = b
      BY <3>1 DEF After
    <3>2. CASE a = D /\ b # D
      <4>1. After(Lines(in), Lines(dir[b]))
        BY <2>1, <2>4, <2>6, <3>2 DEF Order, Sorted
      <4> QED BY <2>4, <2>5, <2>7, <3>2, <4>1 DEF After
    <3>3. CASE a # D /\ b = D
      <4>1. After(Lines(dir[a]), Lines(in))
        BY <2>1, <2>4, <2>6, <3>3 DEF Order, Sorted
      <4> QED BY <2>4, <2>5, <2>7, <3>3, <4>1 DEF After
    <3>4. CASE a # D /\ b # D
      <4>1. After(Lines(dir[a]), Lines(dir[b]))
        BY <2>4, <3>4 DEF Order, Sorted
      <4> QED BY <2>4, <3>4, <4>1 DEF After
    <3> QED BY <3>1, <3>2, <3>3, <3>4
  <2>9. LogsHaveAll'
    <3> SUFFICES ASSUME NEW a \in Archives', dir'[a] \in {fd, held}, dir'[a] # 0,
                        NEW c \in Archives', c # a, Level(c) <= Level(a)
                 PROVE  Lines(dir[c])' \subseteq Lines(dir[a])'
      BY <2>1, <2>2 DEF LogsHaveAll
    <3>1. a # D /\ a \in Archives /\ dir[a] = dir'[a] /\ Lines(dir[a])' = Lines(dir[a])
      BY <2>1, <2>4, <2>5
    <3>2. CASE c = D
      <4>1. P = a \/ Lines(dir[P]) \subseteq Lines(dir[a])
        BY <2>1, <2>6, <3>1, <3>2 DEF Order, LogsHaveAll
      <4> QED BY <2>1, <2>5, <2>7, <3>1, <3>2, <4>1
    <3>3. CASE c # D
      BY <2>4, <3>1, <3>3 DEF Order, LogsHaveAll
    <3> QED BY <3>2, <3>3
  <2>10. LogsInOrder'
    <3> SUFFICES ASSUME NEW a \in Archives', NEW b \in Archives', dir'[a] = fd, dir'[b] = held, held # 0, fd # held
                 PROVE  Level(a) < Level(b)
      BY <2>1, <2>2 DEF LogsInOrder
    <3> QED BY <2>1, <2>4, <2>5 DEF Order, LogsInOrder
  <2> QED BY <2>8, <2>9, <2>10
<1>13. CASE UNCHANGED vars
  BY <1>1, <1>3, <1>13 DEF vars, rotVars, logVars
<1> QED
  BY <1>4, <1>5, <1>6, <1>7, <1>8, <1>9, <1>10, <1>11, <1>12, <1>13, OrderReopened, OrderWritten
  DEF Next, Step, Rotation, Compress

-----------------------------------------------------------------------------
(* The invariant *)

Steady == Undisturbed /\ Copying /\ Copied /\ Logs /\ View /\ Order

IInv == Base /\ OneName /\ (~raced => Steady)

\* What has been raced stays so.
LEMMA RacedStays == Typed /\ [Next]_vars /\ ~raced' => ~raced
<1> SUFFICES ASSUME Typed, [Next]_vars, ~raced' PROVE ~raced
  OBVIOUS
<1>1. raced \in BOOLEAN
  BY DEF Typed
<1>2. raced' = raced \/ raced' = (raced \/ step # "none")
      \/ (\E name \in moves : raced' = (raced \/ IsArchive(name)))
      \/ raced' = (raced \/ (Rotating /\ got[Worker].rot < rotations))
  <2>1. CASE Hup \/ OpenIn
    BY <2>1 DEF Hup, OpenIn
  <2>2. ASSUME NEW name \in moves, Place(name)
        PROVE  raced' = raced \/ raced' = (raced \/ IsArchive(name))
    BY <2>2 DEF Place
  <2>3. CASE TakeFd \/ WriteLine \/ Move \/ Reopen \/ Loop \/ SpuriousWakeup
    BY <2>3 DEF TakeFd, WriteLine, Move, Reopen, Loop, SpuriousWakeup, pastVars
  <2>4. CASE OpenOut \/ Block \/ RenameOut \/ Unlink \/ BlockFails
    BY <2>4 DEF OpenOut, Block, RenameOut, Unlink, BlockFails, pastVars
  <2>5. CASE Finish \/ Drain \/ Crash
    BY <2>5 DEF Finish, Drain, Crash, pastVars
  <2>6. ASSUME NEW name \in doomed, Delete(name) PROVE raced' = raced
    BY <2>6 DEF Delete
  <2>7. CASE UNCHANGED vars
    BY <2>7 DEF vars, pastVars
  <2> QED BY <2>1, <2>2, <2>3, <2>4, <2>5, <2>6, <2>7 DEF Next, Step, Rotation, Compress
<1> QED BY <1>1, <1>2

LEMMA InvariantStarts == Init => IInv
<1> SUFFICES ASSUME Init PROVE IInv
  OBVIOUS
<1>1. /\ Base /\ DOMAIN dir = {Log} /\ dir[Log] = 1 /\ fd = 1 /\ held = 0
      /\ step = "none" /\ stage = "serve" /\ Pending = {} /\ written = 0
  BY BaseStarts DEF Init, Pending
<1>2. IsArchive(Log) /\ Log.ext = <<>>
  BY LogIs DEF IsArchive
<1>3. /\ Archives = {Log} /\ Real = {Log} /\ \A a : ~Awaited(a)
      /\ Kept = {}
  BY <1>1, <1>2 DEF Archives, Real, Awaited, Kept
<1>4. Undisturbed /\ Copying /\ Copied
  BY <1>1 DEF Undisturbed, Copying, Copied
<1>5. Logs
  BY <1>1, <1>2, <1>3 DEF Logs, LogsNamed, LogsAlone
<1>6. View
  BY <1>3 DEF View, Alike, Spare, Present
<1>7. Order
  BY <1>1, <1>3 DEF Order, Sorted, After, CopySorted, LogsHaveAll, LogsInOrder
<1>8. OneName
  BY <1>1 DEF OneName
<1> QED BY <1>1, <1>4, <1>5, <1>6, <1>7, <1>8 DEF IInv, Steady

LEMMA InvariantKept == IInv /\ [Next]_vars => IInv'
<1> SUFFICES ASSUME IInv, [Next]_vars PROVE IInv'
  OBVIOUS
<1>1. Base /\ Base' /\ OneName /\ OneName' /\ Typed
  BY BaseKept, OneNameKept DEF IInv, Base
<1>2. ASSUME ~raced' PROVE Steady'
  <2>1. Steady
    BY <1>1, <1>2, RacedStays DEF IInv
  <2>2. Undisturbed' /\ Copying' /\ Copied'
    BY <1>1, <1>2, <2>1, UndisturbedKept, CopyingKept DEF Steady
  <2>3. Logs'
    BY <1>1, <1>2, <2>1, LogsKept DEF Steady
  <2>4. View'
    BY <1>1, <1>2, <2>1, ViewKept DEF Steady
  <2>5. Order'
    BY <1>1, <1>2, <2>1, OrderKept DEF Steady
  <2> QED BY <2>2, <2>3, <2>4, <2>5 DEF Steady
<1> QED BY <1>1, <1>2 DEF IInv

LEMMA InvariantHolds == Spec => []IInv
BY InvariantStarts, InvariantKept, PTL DEF Spec

LEMMA InvariantLosesNothing == IInv => NoLineLost
<1> SUFFICES ASSUME IInv, ~raced
             PROVE  1..written \subseteq (UNION {Lines(dir[name]) : name \in Archives}) \cup aged \cup late
  BY DEF NoLineLost
<1>1. ASSUME NEW y \in Kept PROVE y \in UNION {Lines(dir[name]) : name \in Archives}
  <2>1. PICK a \in Real : Has(a, y)
    BY DEF IInv, Steady, View, Present
  <2> QED BY <2>1 DEF Real, Has
<1> QED BY <1>1 DEF Kept

(***************************************************************************)
(* However often the log is rotated (rotate), the process killed between   *)
(* any two of its system calls, and the compressor stopped by an error     *)
(* (block), each line that was logged is in the log or in an archive,      *)
(* unless its file was removed for its age (matching_file) or it came too  *)
(* late for the compressor, and no job has met a later rotation or taken   *)
(* the name of an archive that was still to move.                          *)
(***************************************************************************)
THEOREM NoLineIsLost == Spec => []NoLineLost
BY InvariantHolds, InvariantLosesNothing, PTL

LEMMA InvariantIsInOrder == IInv => ArchivesInOrder
<1> SUFFICES ASSUME IInv, ~raced, NEW a \in Archives, NEW b \in Archives, a.n < b.n
             PROVE  \A i \in Lines(dir[b]), j \in Lines(dir[a]) \ Lines(dir[b]) : i < j
  BY DEF ArchivesInOrder
<1>1. Level(a) <= Level(b)
  BY LevelsAndNumbers DEF IInv, Steady
<1> QED BY <1>1 DEF IInv, Steady, Order, Sorted, After

(***************************************************************************)
(* Under the same condition the numbers of the archives are the order of   *)
(* the lines in them, between any two steps of rotate and of compress.     *)
(***************************************************************************)
THEOREM ArchivesStayInOrder == Spec => []ArchivesInOrder
BY InvariantHolds, InvariantIsInOrder, PTL
=============================================================================
