------------------------------- MODULE Rotate -------------------------------
(***************************************************************************)
(* Rotation of a log file: on SIGHUP the main thread renames the file and  *)
(* its archives (config.c, util/rotate.c) and queues those that are not    *)
(* compressed for the one thread of util/background.c, which compresses    *)
(* them and removes the originals (util/compressor.c), while any thread    *)
(* may write to the log through a descriptor it took before.               *)
(*                                                                         *)
(* The file system is a directory, from names to files, and the lines in   *)
(* each file; compressing is copying them.  The thread's queue and loop    *)
(* are those of WorkQueue.  What a step of rotation or compression does is *)
(* one system call.  The process may be killed between any two, and be     *)
(* started again.                                                          *)
(***************************************************************************)
EXTENDS Integers, Sequences, FiniteSets, Functions

CONSTANTS
  Worker,        \* the thread of background_start
  None,          \* no job
  MaxOlds,       \* what rr->max_old may be configured to, -1 for no limit
  MaxRotations,  \* bounds: how often the signal may come,
  MaxLines,      \*   how many lines are logged,
  MaxCrashes,    \*   how often the process is killed,
  MaxFaults      \*   and how many reads or writes of the compressor fail

ASSUME BoundsAssumption ==
  /\ \A old \in MaxOlds : old \in Int /\ old >= -1
  /\ MaxRotations \in Nat /\ MaxLines \in Nat
  /\ MaxCrashes \in Nat /\ MaxFaults \in Nat

\* The name with number n and what follows it: "log" itself counts as number
\* -1, log.0.gz.tmp is number 0 with <<"gz", "tmp">>.
Name(n, ext) == [n |-> n, ext |-> ext]

Log == Name(-1, <<>>)

Exts == UNION {[1..k -> {"gz", "tmp"}] : k \in 0..(2 * MaxRotations)}
Names == [n : -1..MaxRotations, ext : Exts]

\* The names the compressor makes of a path
Tmp(name)  == [name EXCEPT !.ext = @ \o <<"gz", "tmp">>]
Done(name) == [name EXCEPT !.ext = @ \o <<"gz">>]

\* The log and its archives, as far as they can be read
IsArchive(name) == name.ext \in {<<>>, <<"gz">>}

EndsInGz(name) == name.ext # <<>> /\ name.ext[Len(name.ext)] = "gz"

\* A job, told apart from those for the same path by its rotation
Jobs == [rot : 1..MaxRotations, path : Names]

ASSUME NoneAssumption == None \notin Jobs

VARIABLES
  \* the background thread and its queue: see WorkQueue
  jobs, quit, flags, flagsChanged, pc, got, offered, refused, done, dropped,
  \* the file system
  dir,         \* the file each name that is there stands for
  files,       \* the lines in each file; file 0 is always empty
  \* the job that runs
  step,        \* its next system call
  in, out,     \* the files it has open
  \* the main thread
  maxOld,      \* rr->max_old
  stage,       \* where it is in rotate_log and background_finish
  doomed,      \* the names found that are too old
  moves,       \* the names found that are still to be renamed
  moving,      \* the one whose new name has been created
  rotations,   \* how many rotations have begun
  \* logging
  fd,          \* the file log_fd is open for
  held,        \* the file a thread is about to write to, 0 for none
  written,     \* the lines written so far are 1..written
  \* history
  aged,        \* the lines in the files removed as too old
  late,        \* the lines written to a file already read to its end, or gone
  raced,       \* whether a job has run during a later rotation, or made the name
               \*   that an archive was to get before it did
  crashes, faults

wqVars   == <<jobs, quit, flags, flagsChanged, pc, got,
              offered, refused, done, dropped>>
jobVars  == <<step, in, out>>
rotVars  == <<stage, doomed, moves, moving, rotations>>
logVars  == <<fd, held, written>>
pastVars == <<aged, late, raced, crashes, faults>>
vars == <<maxOld, wqVars, dir, files, jobVars, rotVars, logVars, pastVars>>

WQ == INSTANCE WorkQueue WITH
        Workers <- {Worker}, Items <- Jobs, NoItem <- None, ChecksFlag <- TRUE,
        queue <- jobs

-----------------------------------------------------------------------------
(* The file system *)

There(name) == name \in DOMAIN dir

\* creat, link or rename to, and unlink, of a name
Bind(d, name, file) == [m \in DOMAIN d \cup {name} |-> IF m = name THEN file ELSE d[m]]
Unbind(d, name) == [m \in DOMAIN d \ {name} |-> d[m]]

\* The name from now stands for what the name to stood for.
Renamed(from, to) == Bind(Unbind(dir, from), to, dir[from])

\* open with O_CREAT: the file is made when the name is not there.
OpenLog ==
  IF There(Log) THEN fd' = dir[Log] /\ UNCHANGED <<dir, files>>
  ELSE /\ files' = Append(files, {})
       /\ fd' = Len(files')
       /\ dir' = Bind(dir, Log, fd')

Lines(file) == IF file = 0 THEN {} ELSE files[file]

Init ==
  /\ maxOld \in MaxOlds
  /\ WQ!Init
  /\ dir = [m \in {Log} |-> 1]
  /\ files = <<{}>>
  /\ step = "none" /\ in = 0 /\ out = 0
  /\ stage = "serve"
  /\ doomed = {} /\ moves = {} /\ moving = Log
  /\ rotations = 0
  /\ fd = 1 /\ held = 0 /\ written = 0
  /\ aged = {} /\ late = {} /\ raced = FALSE
  /\ crashes = 0 /\ faults = 0

-----------------------------------------------------------------------------
(* Logging, in whatever thread: send of util/logging.c *)

\* TakeFd by a thread that may remember the first descriptor
TakeFdCached ==
  /\ stage # "over"
  /\ held = 0 /\ written < MaxLines
  /\ held' \in {1, fd}
  /\ UNCHANGED <<wqVars, dir, files, jobVars, rotVars, fd, written, pastVars>>

\* log_fd is read
TakeFd ==
  /\ stage # "over"
  /\ held = 0 /\ written < MaxLines
  /\ held' = fd
  /\ UNCHANGED <<wqVars, dir, files, jobVars, rotVars, fd, written, pastVars>>

\* and the line written.  No descriptor of a log is ever closed: what config.c
\* opens is not kept in ld->fd.
WriteLine ==
  /\ held # 0
  /\ written' = written + 1
  /\ files' = [files EXCEPT ![held] = @ \cup {written'}]
  /\ late' = IF held \notin Range(dir) \/ (held = in /\ step \in {"rename", "unlink"})
             THEN late \cup {written'} ELSE late
  /\ held' = 0
  /\ UNCHANGED <<wqVars, dir, jobVars, rotVars, fd, aged, raced, crashes, faults>>

-----------------------------------------------------------------------------
(* Rotation, in the main thread *)

Rotating == stage \in {"rotate", "placed"}

\* matching_file: what is too old, and the name a file gets
TooOld(name) == maxOld >= 0 /\ name.n >= maxOld

NewName(name) == [name EXCEPT !.n = @ + 1]

\* hupev, rotate_log_dest and the loop on readdir.  Every name in the directory
\* is the log's.
Hup ==
  /\ stage = "serve"
  /\ rotations < MaxRotations
  /\ rotations' = rotations + 1
  /\ stage' = "rotate"
  /\ doomed' = {name \in DOMAIN dir : TooOld(name)}
  /\ moves' = {name \in DOMAIN dir : ~TooOld(name)}
  /\ raced' = (raced \/ step # "none")
  /\ UNCHANGED <<wqVars, dir, files, jobVars, moving, logVars, aged, late, crashes, faults>>

\* unlink, within that loop; the name may be gone by now.
Delete(name) ==
  /\ stage = "rotate"
  /\ name \in doomed
  /\ doomed' = doomed \ {name}
  /\ dir' = Unbind(dir, name)
  /\ aged' = aged \cup (IF There(name) THEN Lines(dir[name]) ELSE {})
  /\ UNCHANGED <<wqVars, files, jobVars, stage, moves, moving, rotations, logVars,
                 late, raced, crashes, faults>>

\* The names with the highest number come first.
IsNext(name) == \A m \in moves : m.n <= name.n

\* only_create: the new name is made, or the file left alone when it is there.
Place(name) ==
  /\ stage = "rotate"
  /\ doomed = {}
  /\ name \in moves /\ IsNext(name)
  /\ moves' = moves \ {name}
  /\ IF There(NewName(name))
     THEN raced' = (raced \/ IsArchive(name)) /\ UNCHANGED <<dir, stage, moving>>
     ELSE /\ dir' = Bind(dir, NewName(name), 0)
          /\ moving' = name
          /\ stage' = "placed"
          /\ UNCHANGED raced
  /\ UNCHANGED <<wqVars, files, jobVars, doomed, rotations, logVars, aged, late, crashes, faults>>

\* rename and compressor_add.  The rename fails when the name is gone.
Move ==
  /\ stage = "placed"
  /\ stage' = "rotate"
  /\ moving' = Log
  /\ IF ~There(moving) THEN UNCHANGED <<wqVars, dir>>
     ELSE /\ dir' = Renamed(moving, NewName(moving))
          /\ IF EndsInGz(moving) THEN UNCHANGED wqVars
             ELSE WQ!SendWork([rot |-> rotations, path |-> NewName(moving)])
  /\ UNCHANGED <<files, jobVars, doomed, moves, rotations, logVars, pastVars>>

\* open_log_dest and logging_fd
Reopen ==
  /\ stage = "rotate"
  /\ doomed = {} /\ moves = {}
  /\ OpenLog
  /\ stage' = "serve"
  /\ UNCHANGED <<wqVars, jobVars, doomed, moves, moving, rotations, held, written, pastVars>>

-----------------------------------------------------------------------------
(* Compression, in the background thread *)

Path == got[Worker].path

Runs(s) == pc[Worker] = "run" /\ step = s

\* The end of a job, whatever became of it
JobEnds ==
  /\ WQ!RunJob(Worker)
  /\ step' = "none" /\ in' = 0 /\ out' = 0

\* The loop of worker, but for the job
Loop ==
  /\ \/ WQ!GetWork(Worker) \/ WQ!Resume(Worker)
     \/ WQ!CheckQuit(Worker) \/ WQ!CheckFlag(Worker)
  /\ UNCHANGED <<dir, files, jobVars, rotVars, logVars, pastVars>>

\* pthread_cond_wait may return for no reason; nothing makes it.
SpuriousWakeup ==
  /\ WQ!SpuriousWakeup(Worker)
  /\ UNCHANGED <<dir, files, jobVars, rotVars, logVars, pastVars>>

OpenIn ==
  /\ Runs("none")
  /\ IF There(Path)
     THEN /\ in' = dir[Path]
          /\ step' = "tmp"
          /\ raced' = (raced \/ (Rotating /\ got[Worker].rot < rotations))
          /\ UNCHANGED <<wqVars, out>>
     ELSE JobEnds /\ UNCHANGED raced
  /\ UNCHANGED <<dir, files, rotVars, logVars, aged, late, crashes, faults>>

\* open with O_EXCL
OpenOut ==
  /\ Runs("tmp")
  /\ IF There(Tmp(Path)) THEN JobEnds /\ UNCHANGED <<dir, files>>
     ELSE /\ files' = Append(files, {})
          /\ out' = Len(files')
          /\ dir' = Bind(dir, Tmp(Path), out')
          /\ step' = "copy"
          /\ UNCHANGED <<wqVars, in>>
  /\ UNCHANGED <<rotVars, logVars, pastVars>>

\* block: what has not been read is copied; when there is nothing the input
\* has come to its end.
Block ==
  /\ Runs("copy")
  /\ IF files[out] # Lines(in)
     THEN files' = [files EXCEPT ![out] = Lines(in)] /\ UNCHANGED step
     ELSE step' = "rename" /\ UNCHANGED files
  /\ UNCHANGED <<wqVars, dir, in, out, rotVars, logVars, pastVars>>

\* BlockFails that goes on as at the end of the input
BlockFailsGoesOn ==
  /\ Runs("copy")
  /\ faults < MaxFaults
  /\ faults' = faults + 1
  /\ step' = "rename"
  /\ UNCHANGED <<wqVars, in, out, dir, files, rotVars, logVars, aged, late, raced, crashes>>

\* An error of block ends the job, and leaves its output where it is.
BlockFails ==
  /\ Runs("copy")
  /\ faults < MaxFaults
  /\ faults' = faults + 1
  /\ JobEnds
  /\ UNCHANGED <<dir, files, rotVars, logVars, aged, late, raced, crashes>>

RenameOut ==
  /\ Runs("rename")
  /\ IF There(Tmp(Path))
     THEN dir' = Renamed(Tmp(Path), Done(Path)) /\ step' = "unlink" /\ UNCHANGED <<wqVars, in, out>>
     ELSE JobEnds /\ UNCHANGED dir
  /\ UNCHANGED <<files, rotVars, logVars, pastVars>>

Unlink ==
  /\ Runs("unlink")
  /\ dir' = Unbind(dir, Path)
  /\ JobEnds
  /\ UNCHANGED <<files, rotVars, logVars, pastVars>>

Compress == OpenIn \/ OpenOut \/ Block \/ RenameOut \/ Unlink

-----------------------------------------------------------------------------
(* The end *)

\* Finish by background_stop
FinishStops ==
  /\ stage = "serve"
  /\ stage' = "finish"
  /\ WQ!SetFlags(TRUE)
  /\ UNCHANGED <<dir, files, jobVars, doomed, moves, moving, rotations, logVars, pastVars>>

\* Finish that sets quit and wakes nobody
FinishUnheard ==
  /\ stage = "serve"
  /\ stage' = "finish"
  /\ quit' = TRUE
  /\ UNCHANGED <<jobs, flags, flagsChanged, pc, got, offered, refused, done, dropped>>
  /\ UNCHANGED <<dir, files, jobVars, doomed, moves, moving, rotations, logVars, pastVars>>

\* rotator_release and background_finish
Finish ==
  /\ stage = "serve"
  /\ stage' = "finish"
  /\ WQ!SetQuit(TRUE)
  /\ UNCHANGED <<dir, files, jobVars, doomed, moves, moving, rotations, logVars, pastVars>>

\* The pthread_join returns; background_finish takes the quit back and the last
\* reference to the background goes: bb_ref_free quits again, and disposes of
\* what is still queued.
Drain ==
  /\ stage = "finish"
  /\ pc[Worker] = "exited"
  /\ stage' = "over"
  /\ dropped' = dropped \cup Range(jobs)
  /\ jobs' = <<>>
  /\ quit' = TRUE
  /\ UNCHANGED <<flags, flagsChanged, pc, got, offered, refused, done, dir, files, jobVars,
                 doomed, moves, moving, rotations, logVars, pastVars>>

\* The process is killed, and started again on the same directory.
Crash ==
  /\ stage # "over"
  /\ crashes < MaxCrashes
  /\ crashes' = crashes + 1
  /\ jobs' = <<>> /\ quit' = FALSE /\ flags' = FALSE /\ flagsChanged' = FALSE
  /\ pc' = [w \in {Worker} |-> "get"] /\ got' = [w \in {Worker} |-> None]
  /\ offered' = {} /\ refused' = {} /\ done' = {} /\ dropped' = {}
  /\ step' = "none" /\ in' = 0 /\ out' = 0
  /\ stage' = "serve"
  /\ doomed' = {} /\ moves' = {} /\ moving' = Log
  /\ held' = 0
  /\ OpenLog
  /\ UNCHANGED <<rotations, written, aged, late, raced, faults>>

-----------------------------------------------------------------------------
Rotation == (\E name \in doomed : Delete(name)) \/ (\E name \in moves : Place(name))
              \/ Move \/ Reopen

Step == \/ TakeFd \/ WriteLine
        \/ Hup \/ Rotation
        \/ Loop \/ SpuriousWakeup \/ Compress \/ BlockFails
        \/ Finish \/ Drain
        \/ Crash

Next == Step /\ UNCHANGED maxOld

Spec == Init /\ [][Next]_vars

\* The thread is scheduled, and the main thread goes on.
Fairness == /\ WF_vars(Loop /\ UNCHANGED maxOld)
            /\ WF_vars(Compress /\ UNCHANGED maxOld)
            /\ WF_vars(Drain /\ UNCHANGED maxOld)

FairSpec == Spec /\ Fairness

-----------------------------------------------------------------------------
TypeOK ==
  /\ maxOld \in MaxOlds
  /\ WQ!TypeOK
  /\ DOMAIN dir \subseteq Names
  /\ \A name \in DOMAIN dir : dir[name] \in 0..Len(files)
  /\ \A k \in DOMAIN files : files[k] \subseteq 1..written
  /\ step \in {"none", "tmp", "copy", "rename", "unlink"}
  /\ in \in 0..Len(files) /\ out \in 0..Len(files)
  /\ stage \in {"serve", "rotate", "placed", "finish", "over"}
  /\ doomed \subseteq Names /\ moves \subseteq Names /\ moving \in Names
  /\ rotations \in 0..MaxRotations
  /\ fd \in 1..Len(files) /\ held \in 0..Len(files)
  /\ written \in 0..MaxLines
  /\ aged \subseteq 1..written /\ late \subseteq 1..written
  /\ raced \in BOOLEAN
  /\ crashes \in 0..MaxCrashes /\ faults \in 0..MaxFaults

Archives == {name \in DOMAIN dir : IsArchive(name)}

(***************************************************************************)
(* No rotation, compression, failure of one or crash between any two of    *)
(* their steps loses a line: it is in the log or in an archive.  Except    *)
(* when it was in a file removed for its age; when it was written after    *)
(* the compressor had come to the end of the file, through a descriptor    *)
(* from before the rotation; and unless a job has run during a rotation    *)
(* later than its own, when the names may change under it, or an archive   *)
(* was left behind as the name it was to get was there.                    *)
(***************************************************************************)
NoLineLost ==
  ~raced => 1..written \subseteq (UNION {Lines(dir[name]) : name \in Archives}) \cup aged \cup late

(***************************************************************************)
(* Under the same condition the archives are in order: what only the one   *)
(* with the lower number holds was logged after all the other one holds.   *)
(***************************************************************************)
ArchivesInOrder ==
  ~raced => \A newer, older \in Archives :
              newer.n < older.n =>
                \A y \in Lines(dir[older]), x \in Lines(dir[newer]) \ Lines(dir[older]) : y < x

(***************************************************************************)
(* background_finish lets the thread run what is queued before the program *)
(* ends.  It falls short of that by one job at most: the thread tests      *)
(* wqueue_should_quit with its last item in hand and the queue empty.      *)
(***************************************************************************)
FinishRunsAll ==
  stage = "over" => /\ offered = done \cup dropped
                    /\ Cardinality(dropped) <= 1

(***************************************************************************)
(* The program does not hang in rotator_release: the pthread_join returns, *)
(* however far the thread is with its jobs.                                *)
(***************************************************************************)
FinishEnds == stage = "finish" ~> stage # "finish"
=============================================================================
