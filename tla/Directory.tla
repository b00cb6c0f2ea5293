----------------------------- MODULE Directory -----------------------------
(***************************************************************************)
(* The directories and attributes that fuse8 serves.  sources/meta.c makes *)
(* tables of the configured files, once, before the interfaces start; the  *)
(* handlers of interfaces/fuse.c answer the kernel from them, each in one  *)
(* go, and keep nothing between two requests.  A path is the sequence of   *)
(* its names, without the slashes the configuration may have at its ends.  *)
(***************************************************************************)
EXTENDS Integers, Sequences, SequencesExt

CONSTANTS
  Names,     \* the names of files
  Configs,   \* the lists of files a metadata file may have
  Defaults,  \* the permissions that the defaults give each kind of file
  Room,      \* the bytes of an entry of a listing, by its name
  PieceSizes, \* the sizes of the pieces the kernel asks of a listing
  Spans,     \* the lengths of the reads,
  Offsets,   \*   and where they begin
  Nil

FileKinds == {"file", "dir", "link"}

\* A file of the configuration.  The root has the name Nil.
Entries == [kind : FileKinds, dir : Seq(Names), name : Names \cup {Nil},
            perms : SUBSET {"r", "w", "x"}, size : Nat, uri : Nat]

Root == <<>>

IsRoot(e) == e.name = Nil
Path(e) == IF IsRoot(e) THEN Root ELSE Append(e.dir, e.name)

ASSUME ConfigAssumption ==
  /\ Nil \notin Names /\ {".", ".."} \cap Names = {}
  /\ Configs \subseteq Seq(Entries)
  /\ \A conf \in Configs : \A k \in DOMAIN conf :
       IsRoot(conf[k]) => conf[k].kind = "dir" /\ conf[k].dir = Root

\* A piece has room for the longest entry: the kernel asks for a page.
ASSUME RoomAssumption ==
  /\ Room \in [Names \cup {".", ".."} -> Nat \ {0}]
  /\ PieceSizes \subseteq Nat
  /\ \A size \in PieceSizes, name \in DOMAIN Room : size >= Room[name]

ASSUME SpanAssumption == Offsets \subseteq Nat /\ Spans \subseteq Nat

VARIABLES
  conf,      \* what the metadata file says
  phase,     \* of the program: "load", "serve", or how it ended before
  added,     \* how many files process_file has added
  inode,     \* the next inode
  stat,      \* the attributes of an inode
  fninode,   \* the inode of a path
  dirfiles,  \* the names in a directory, by its path
  resolved,  \* the directories that resolve_dirs has been through
  lookup,    \* the inode of a name in a directory
  readdir,   \* the inodes in a directory
  \* the kernel
  known,     \* the files it has looked up: their inodes and paths
  listing,   \* the directory it lists, how far, and what it has got
  reply      \* its last request and all the answers to that

loadVars == <<added, inode, stat, fninode, dirfiles, resolved, lookup, readdir>>
dirVars == <<conf, phase, loadVars, known, listing, reply>>

\* The tables of util/assoc.c
Set(table, key, value) ==
  [x \in DOMAIN table \cup {key} |-> IF x = key THEN value ELSE table[x]]

Empty == [x \in {} |-> Nil]

NoListing == [at |-> Nil, off |-> 0, got |-> <<>>, over |-> TRUE]
NoReply == [op |-> "none", path |-> Root, arg |-> Nil, answers |-> <<>>]

\* FirstInode without regard to the root
FirstInodeOne == 1

\* Inode 1 is the root's.
FirstInode == 2

DirInit ==
  /\ conf \in Configs
  /\ phase = "load"
  /\ added = 0 /\ inode = FirstInode
  /\ stat = Empty /\ fninode = Empty /\ dirfiles = Empty
  /\ resolved = {} /\ lookup = Empty /\ readdir = Empty
  /\ known = {} /\ listing = NoListing /\ reply = NoReply

-----------------------------------------------------------------------------
(* Loading: process_file *)

\* add_type and set_stat.  The permissions of an entry add to the default ones;
\* a default for the size is not heeded.
SetStat(e, ino) ==
  [ino |-> ino, name |-> e.name, kind |-> e.kind, perms |-> Defaults[e.kind] \cup e.perms,
   size |-> e.size, uri |-> IF e.kind = "dir" THEN Nil ELSE e.uri]

Listed(d) == IF d \in DOMAIN dirfiles THEN dirfiles[d] ELSE <<>>

\* add_file and add_to_dir.  The root, too, uses up an inode.
AddFile ==
  /\ phase = "load" /\ added < Len(conf)
  /\ LET e   == conf[added + 1]
         ino == IF IsRoot(e) THEN 1 ELSE inode
     IN  /\ stat' = Set(stat, ino, SetStat(e, ino))
         /\ fninode' = Set(fninode, Path(e), ino)
         /\ lookup' = Set(lookup, <<ino, ".">>, ino)
         /\ dirfiles' = IF IsRoot(e) THEN dirfiles
                        ELSE Set(dirfiles, e.dir, Append(Listed(e.dir), e.name))
  /\ added' = added + 1
  /\ inode' = inode + 1
  /\ UNCHANGED <<conf, phase, resolved, readdir, known, listing, reply>>

\* resolve_dir, for the directories in the order of the hash table.  Names in
\* a directory that has no entry of its own are the end of the program.
ResolveDir(d) ==
  /\ phase = "load" /\ added = Len(conf)
  /\ d \in DOMAIN dirfiles \ resolved
  /\ IF d \notin DOMAIN fninode
     THEN phase' = "crashed" /\ UNCHANGED <<resolved, lookup, readdir>>
     ELSE LET dir     == fninode[d]
              files   == dirfiles[d]
              members == [k \in DOMAIN files |-> fninode[Append(d, files[k])]]
              downs   == {dir} \X Range(files)
              ups     == Range(members) \X {".."}
          IN  /\ readdir' = Set(readdir, dir, members)
              /\ lookup' = [x \in DOMAIN lookup \cup downs \cup ups |->
                              IF x \in downs THEN fninode[Append(d, x[2])]
                              ELSE IF x \in ups THEN dir ELSE lookup[x]]
              /\ resolved' = resolved \cup {d}
              /\ UNCHANGED phase
  /\ UNCHANGED <<conf, added, inode, stat, fninode, dirfiles, known, listing, reply>>

\* The end of resolve_dirs, and check_ok
Loaded ==
  /\ phase = "load" /\ added = Len(conf)
  /\ resolved = DOMAIN dirfiles
  /\ lookup' = Set(lookup, <<1, "..">>, 1)
  /\ IF 1 \in DOMAIN stat
     THEN phase' = "serve" /\ known' = {[ino |-> 1, path |-> Root]}
     ELSE phase' = "died" /\ UNCHANGED known
  /\ UNCHANGED <<conf, added, inode, stat, fninode, dirfiles, resolved, readdir, listing, reply>>

Load == AddFile \/ (\E d \in DOMAIN dirfiles : ResolveDir(d)) \/ Loaded

-----------------------------------------------------------------------------
(* The kernel's requests, and their handlers.  The kernel looks up names in *)
(* directories, reads the targets of links, and the bytes of files.         *)

Respond(op, h, arg, answers) ==
  /\ phase = "serve"
  /\ reply' = [op |-> op, path |-> h.path, arg |-> arg, answers |-> answers]

\* The kernel's view of a file it knows
Is(h, kind) == stat[h.ino].kind = kind

\* fuse_lookup, sl_lookup and sm_lookup
Lookup(h, name) ==
  /\ Is(h, "dir")
  /\ IF <<h.ino, name>> \in DOMAIN lookup
     THEN LET st == stat[lookup[<<h.ino, name>>]] IN
          /\ Respond("lookup", h, name, <<st>>)
          /\ known' = known \cup {[ino |-> st.ino, path |-> Append(h.path, name)]}
     ELSE Respond("lookup", h, name, <<"ENOENT">>) /\ UNCHANGED known
  /\ UNCHANGED <<conf, phase, loadVars, listing>>

\* fuse_getattr
GetAttr(h) ==
  /\ Respond("getattr", h, Nil, <<IF h.ino \in DOMAIN stat THEN stat[h.ino] ELSE "ENOENT">>)
  /\ UNCHANGED <<conf, phase, loadVars, known, listing>>

\* fuse_open
Open(h) ==
  /\ Respond("open", h, Nil,
            <<IF h.ino \notin DOMAIN stat THEN "ENOENT"
              ELSE IF stat[h.ino].kind = "dir" THEN "EISDIR" ELSE "open">>)
  /\ UNCHANGED <<conf, phase, loadVars, known, listing>>

\* fuse_readlink
ReadLink(h) ==
  /\ Is(h, "link")
  /\ Respond("readlink", h, Nil, <<stat[h.ino].uri>>)
  /\ UNCHANGED <<conf, phase, loadVars, known, listing>>

\* fuse_read as far as the call of si_read, which the answer stands for: a
\* read that ends beyond the end of the file is cut short, but not one that
\* begins there, as the difference is compared without its sign.
Clip(st, off, size) == IF off <= st.size /\ size > st.size - off THEN st.size - off ELSE size

Read(h, off, size) ==
  /\ Is(h, "file")
  /\ Respond("read", h, <<off, size>>, <<[uri |-> stat[h.ino].uri, off |-> off,
                                         size |-> Clip(stat[h.ino], off, size)]>>)
  /\ UNCHANGED <<conf, phase, loadVars, known, listing>>

\* Of a sequence the elements that are in S, in their order
Only(s, S) ==
  LET only[k \in 0..Len(s)] ==
        IF k = 0 THEN <<>>
        ELSE IF s[k] \in S THEN Append(only[k - 1], s[k]) ELSE only[k - 1]
  IN  only[Len(s)]

\* The entries fuse_readdir adds to its buffer, each time anew
Buffer(ino) ==
  LET Item(name, i) == [name |-> name, ino |-> i]
      members == Only(readdir[ino], DOMAIN stat)
  IN  (IF ino \in DOMAIN stat THEN <<Item(".", ino)>> ELSE <<>>)
      \o (IF <<ino, "..">> \in DOMAIN lookup THEN <<Item("..", lookup[<<ino, "..">>])>> ELSE <<>>)
      \o [k \in DOMAIN members |-> Item(stat[members[k]].name, members[k])]

\* The byte at which each entry ends; entry 0 is none.
Ends(buf) ==
  LET end[k \in 0..Len(buf)] == IF k = 0 THEN 0 ELSE end[k - 1] + Room[buf[k].name] IN end

\* Where, taken before the buffer is extended
WhereBefore(buf, k) == Ends(buf)[k - 1]

\* The offset that an entry bears: where the next one begins
Where(buf, k) == Ends(buf)[k]

\* The kernel begins to list a directory.
OpenDir(h) ==
  /\ phase = "serve" /\ Is(h, "dir")
  /\ listing.over
  /\ listing' = [at |-> h, off |-> 0, got |-> <<>>, over |-> FALSE]
  /\ UNCHANGED <<conf, phase, loadVars, known, reply>>

\* fuse_readdir.  The kernel takes the entries that are whole, goes on at the
\* offset of the last, and is through when there is nothing more.  When the
\* inode has no list both an error and an empty answer are sent.
ReadDir(size) ==
  /\ ~listing.over
  /\ LET h   == listing.at
         buf == Buffer(h.ino)
         end == Ends(buf)
         cut == IF listing.off + size < end[Len(buf)] THEN listing.off + size ELSE end[Len(buf)]
         new == {k \in 1..Len(buf) : end[k - 1] >= listing.off /\ end[k] <= cut}
         lo  == CHOOSE k \in new : \A l \in new : k <= l
         hi  == CHOOSE k \in new : \A l \in new : k >= l
     IN  IF h.ino \notin DOMAIN readdir
         THEN /\ Respond("readdir", h, Nil, <<"ENOENT", "end">>)
              /\ listing' = [listing EXCEPT !.over = TRUE]
         ELSE IF new = {}
         THEN /\ Respond("readdir", h, Nil, <<"end">>)
              /\ listing' = [listing EXCEPT !.over = TRUE]
         ELSE /\ Respond("readdir", h, Nil, <<"piece">>)
              /\ listing' = [listing EXCEPT !.got = @ \o SubSeq(buf, lo, hi),
                                            !.off = Where(buf, hi)]
  /\ UNCHANGED <<conf, phase, loadVars, known>>

Kernel ==
  \/ \E h \in known :
       \/ \E name \in Names : Lookup(h, name)
       \/ GetAttr(h) \/ Open(h) \/ ReadLink(h) \/ OpenDir(h)
       \/ \E off \in Offsets, size \in Spans : Read(h, off, size)
  \/ \E size \in PieceSizes : ReadDir(size)

DirNext == Load \/ Kernel

DirSpec == DirInit /\ [][DirNext]_dirVars

-----------------------------------------------------------------------------
DirTypeOK ==
  /\ conf \in Configs
  /\ phase \in {"load", "serve", "died", "crashed"}
  /\ added \in 0..Len(conf) /\ inode = FirstInode + added
  /\ DOMAIN stat \subseteq 1..inode
  /\ DOMAIN fninode \subseteq Seq(Names)
  /\ DOMAIN dirfiles \subseteq Seq(Names) /\ resolved \subseteq DOMAIN dirfiles
  /\ DOMAIN lookup \subseteq (1..inode) \X (Names \cup {".", ".."})
  /\ DOMAIN readdir \subseteq 1..inode
  /\ known \subseteq [ino : 1..inode, path : Seq(Names)]

\* The entries for a path; the last of them counts.
For(p) == {k \in DOMAIN conf : Path(conf[k]) = p}
LastFor(p) == CHOOSE k \in For(p) : \A l \in For(p) : l <= k
InodeFor(p) == IF p = Root THEN 1 ELSE FirstInode + LastFor(p) - 1
Attributes(p) == SetStat(conf[LastFor(p)], InodeFor(p))

\* What there is to answer to a request, by the configuration alone
Configured(op, p, arg) ==
  LET st   == Attributes(p)
      down == Append(p, arg)
  IN CASE op = "lookup"   -> IF For(down) = {} THEN "ENOENT" ELSE Attributes(down)
       [] op = "getattr"  -> st
       [] op = "open"     -> IF st.kind = "dir" THEN "EISDIR" ELSE "open"
       [] op = "readlink" -> st.uri
       [] op = "read"     -> [uri |-> st.uri, off |-> arg[1],
                              size |-> IF arg[1] + arg[2] > st.size /\ arg[1] <= st.size
                                       THEN st.size - arg[1] ELSE arg[2]]

(***************************************************************************)
(* However the kernel comes to a file, from directory to directory, it is  *)
(* told of that file what the configuration says for its path, the last    *)
(* entry counting where several have the same path, and in whatever order  *)
(* files and the directories they are in come; and every request has one   *)
(* answer.  Listings are the next property's.                              *)
(***************************************************************************)
AnswersAreConfigured ==
  reply.op \notin {"none", "readdir"} =>
    reply.answers = <<Configured(reply.op, reply.path, reply.arg)>>

(***************************************************************************)
(* A listing has the files of its directory, each in its turn, after "."   *)
(* and "..", however it is cut into pieces, and all of them when it has    *)
(* come to its end; the inodes in it are those that a lookup gives.  A     *)
(* directory with nothing in it has no listing: its end is an error.       *)
(***************************************************************************)
ListingIsWhole ==
  LET p     == listing.at.path
      files == Only(conf, {e \in Range(conf) : ~IsRoot(e) /\ e.dir = p})
      whole == <<[name |-> ".", ino |-> InodeFor(p)],
                 [name |-> "..", ino |-> InodeFor(IF p = Root THEN p ELSE Front(p))]>>
               \o [k \in DOMAIN files |->
                     [name |-> files[k].name, ino |-> InodeFor(Path(files[k]))]]
  IN  listing.at # Nil =>
        /\ IsPrefix(listing.got, whole)
        /\ listing.over => listing.got = IF files = <<>> THEN <<>> ELSE whole
=============================================================================
