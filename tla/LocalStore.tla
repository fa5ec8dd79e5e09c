----------------------------- MODULE LocalStore -----------------------------
(***************************************************************************)
(* LocalFileSystem and MultiLocalFileSystem: objects (a file, or a         *)
(* directory with all that is below it) copied between the user's active   *)
(* storage, the working directory of a task, and the locations of an       *)
(* archive store, with FileCopy.copyFile and copyDirectory.                *)
(*                                                                         *)
(* One task copies at a time, one location after the other, directories    *)
(* depth first, and files in parts through a channel.  Meanwhile the user  *)
(* goes on working in the active storage: files are changed, removed and   *)
(* made there while they are copied.  A copy may fail at every step, or    *)
(* its worker stop; whatever was written by then stays, and the next call  *)
(* finds it.                                                               *)
(*                                                                         *)
(* External: the file system, as FileCopy uses it.  A file that was        *)
(* removed after it was opened can still be read; a transfer moves no more *)
(* than the source holds at that moment, and may move less.                *)
(***************************************************************************)
EXTENDS Naturals, Sequences, FiniteSets, Functions

CONSTANTS
  Locations,  \* the locations of the archive store, in their order
  Dirs,       \* directories, and
  Files,      \* files, by their path below a place
  Parent,     \* the directory each path is in
  ObjectOf,   \* the object each path belongs to
  NoDir,      \* an object is in no directory of an object
  NoFile,     \* "there is no such file"
  Versions,   \* bound: what the user or the worker writes into a file
  Buffer,     \* FILE_COPY_BUFFER_SIZE, in units of those
  MaxEdits,   \* bound: how often the user changes a file
  MaxCalls    \* bound: how many calls are made

Paths == Dirs \cup Files
Objects == {p \in Paths : Parent[p] = NoDir}
Archive == {Locations[i] : i \in DOMAIN Locations}
Places == {"user", "working"} \cup Archive
Units == UNION {Range(c) : c \in Versions}
Contents == Seq(Units)

\* A path is below an object, in finitely many steps.
ASSUME TreeAssumption ==
  /\ IsFiniteSet(Paths)
  /\ Dirs \cap Files = {} /\ NoDir \notin Paths
  /\ Parent \in [Paths -> Dirs \cup {NoDir}]
  /\ ObjectOf \in [Paths -> Objects]
  /\ \A p \in Paths : ObjectOf[p] = IF p \in Objects THEN p ELSE ObjectOf[Parent[p]]
  /\ \A S \in SUBSET Paths : S # {} => \E p \in S : Parent[p] \notin S

\* The locations are different directories, neither the user's nor the task's.
ASSUME CopyAssumption ==
  /\ Locations \in Seq(Archive) /\ Locations # <<>>
  /\ \A i, j \in DOMAIN Locations : Locations[i] = Locations[j] => i = j
  /\ {"user", "working"} \cap Archive = {}
  /\ Versions # {} /\ Versions \subseteq Contents /\ NoFile \notin Contents
  /\ Buffer \in Nat \ {0} /\ MaxEdits \in Nat /\ MaxCalls \in Nat

VARIABLES
  disk,      \* what each place holds of each file
  dirs,      \* the directories of each place
  pc,        \* where the call is
  obj,       \* the object it is about
  from,      \* where it copies from
  route,     \* where it copies to
  at,        \* the loop counter i of MultiLocalFileSystem.store
  cur,       \* the directory being copied
  todo,      \* the entries of it and of those above that are still to be copied
  file,      \* the file being copied
  input,     \* what the open source holds when its name is gone
  size,      \* the size of the source when it was opened
  pos,       \* how much of it is copied
  progress,  \* the counters of Progress
  edits,     \* the number of changes the user made
  calls,     \* the number of calls made
  edited,    \* history: the user changed the source during the call
  before     \* history: what the places held when the call began

vars == <<disk, dirs, pc, obj, from, route, at, cur, todo, file, input, size, pos,
          progress, edits, calls, edited, before>>
call == <<obj, from, route>>
user == <<edits, calls, edited, before>>
stream == <<file, input, size, pos>>

Ended == {"returned", "threw"}
Copying == pc \notin Ended \cup {"idle"}

Present(where, p) == IF p \in Dirs THEN p \in dirs[where] ELSE disk[where][p] # NoFile
Entries(where, d) == {p \in Paths : Parent[p] = d /\ Present(where, p)}

NoProgress == [bytes |-> 0, files |-> 0, dirs |-> 0]
Nothing == [f \in Files |-> NoFile]

Init ==
  /\ \E c \in Versions :
       disk = [w \in Places |-> IF w = "user" THEN [f \in Files |-> c] ELSE Nothing]
  /\ dirs = [w \in Places |-> IF w = "user" THEN Dirs ELSE {}]
  /\ pc = "idle"
  /\ obj = NoDir /\ from = "user" /\ route = <<>> /\ at = 1
  /\ cur = NoDir /\ todo = {}
  /\ file = NoDir /\ input = NoFile /\ size = 0 /\ pos = 0
  /\ progress = NoProgress
  /\ edits = 0 /\ calls = 0 /\ edited = FALSE
  /\ before = [w \in Places |-> Nothing]

-----------------------------------------------------------------------------
(* A task calls the store, with a Progress of its own: an archive store has *)
(* every location written, and one of them read; the user's storage is both *)
(* read and written.                                                        *)
Begin(o, src, dsts, first) ==
  /\ pc = "idle" /\ calls < MaxCalls
  /\ pc' = first
  /\ calls' = calls + 1
  /\ obj' = o /\ from' = src /\ route' = dsts /\ at' = 1
  /\ progress' = NoProgress
  /\ edited' = FALSE
  /\ before' = disk
  /\ UNCHANGED <<disk, dirs, cur, todo, stream, edits>>

Store == \E o \in Objects : Begin(o, "working", Locations, "location")
Retrieve == \E o \in Objects, w \in Archive : Begin(o, w, <<"working">>, "location")
UserStore == \E o \in Objects : Begin(o, "working", <<"user">>, "location")
UserRetrieve == \E o \in Objects : Begin(o, "user", <<"working">>, "location")
Delete == \E o \in Objects, w \in Archive : Begin(o, w, <<w>>, "delete")

(* A location is done: the next one, or the end of the call. *)
NextLocation ==
  /\ at' = at + 1
  /\ pc' = IF at = Len(route) THEN "returned" ELSE "location"

To == route[at]

(* One round of the loop: the object is a file, a directory, or not there, *)
(* in which case nothing is done.                                          *)
CopyFile == obj \in Files /\ pc' = "open" /\ file' = obj /\ UNCHANGED <<at, cur>>
CopyDirectory == obj \in Dirs /\ pc' = "list" /\ cur' = obj /\ UNCHANGED <<at, file>>

Location ==
  /\ pc = "location"
  /\ \/ Present(from, obj) /\ (CopyFile \/ CopyDirectory)
     \/ ~Present(from, obj) /\ NextLocation /\ UNCHANGED <<cur, file>>
  /\ UNCHANGED <<disk, dirs, call, todo, input, size, pos, progress, user>>

(* doCopyDirectory lists the source and makes the directory. *)
List ==
  /\ pc = "list"
  /\ todo' = todo \cup Entries(from, cur)
  /\ dirs' = [dirs EXCEPT ![To] = @ \cup {cur}]
  /\ pc' = "walk"
  /\ UNCHANGED <<disk, call, at, cur, stream, progress, user>>

(* The next entry of the directory, in any order. *)
Visit ==
  /\ pc = "walk"
  /\ \E p \in todo :
       /\ Parent[p] = cur
       /\ todo' = todo \ {p}
       /\ IF p \in Dirs
          THEN cur' = p /\ pc' = "list" /\ UNCHANGED file
          ELSE file' = p /\ pc' = "open" /\ UNCHANGED cur
  /\ UNCHANGED <<disk, dirs, call, at, input, size, pos, progress, user>>

(* The last entry is copied: the directory is counted, and left. *)
Leave ==
  /\ pc = "walk"
  /\ \A p \in todo : Parent[p] # cur
  /\ progress' = [progress EXCEPT !.dirs = @ + 1]
  /\ cur' = Parent[cur]
  /\ IF cur = obj THEN NextLocation ELSE UNCHANGED <<at, pc>>
  /\ UNCHANGED <<disk, dirs, call, todo, stream, user>>

(* doCopyFile opens the source, which must exist, then the destination,     *)
(* which is emptied, and takes the size of the source.                      *)
Open ==
  /\ pc = "open"
  /\ IF disk[from][file] = NoFile
     THEN pc' = "threw" /\ UNCHANGED <<disk, size>>
     ELSE /\ pc' = "copy"
          /\ disk' = [disk EXCEPT ![To][file] = <<>>]
          /\ size' = Len(disk[from][file])
  /\ input' = NoFile /\ pos' = 0
  /\ UNCHANGED <<dirs, call, at, cur, todo, file, progress, user>>

(* What the open stream of the source reads. *)
Source == IF input = NoFile THEN disk[from][file] ELSE input

Smaller(m, n) == IF m < n THEN m ELSE n

\* Mutant: the last part is taken one unit too short.
AvailableButOne ==
  IF Len(Source) > pos THEN Smaller(Len(Source) - pos, Smaller(size - pos - 1, Buffer)) ELSE 0

Available ==
  IF Len(Source) > pos THEN Smaller(Len(Source) - pos, Smaller(size - pos, Buffer)) ELSE 0

(* What a transfer can move: less than it was asked for, but not nothing. *)
Copied == IF Available = 0 THEN {0} ELSE 1 .. Available

\* Mutant: a full buffer is counted, whatever was transferred.
TransferCounts ==
  /\ pc = "copy" /\ pos < size
  /\ \E n \in Copied :
       /\ disk' = [disk EXCEPT ![To][file] = @ \o SubSeq(Source, pos + 1, pos + n)]
       /\ pos' = pos + n
       /\ progress' = [progress EXCEPT !.bytes = @ + Smaller(size - pos, Buffer)]
  /\ UNCHANGED <<dirs, pc, call, at, cur, todo, file, input, size, user>>

\* Mutant: the position moves on by the buffer.
TransferSkips ==
  /\ pc = "copy" /\ pos < size
  /\ \E n \in Copied :
       /\ disk' = [disk EXCEPT ![To][file] = @ \o SubSeq(Source, pos + 1, pos + n)]
       /\ pos' = pos + Buffer
       /\ progress' = [progress EXCEPT !.bytes = @ + n]
  /\ UNCHANGED <<dirs, pc, call, at, cur, todo, file, input, size, user>>

(* One transfer.  Of a source that became shorter than what is copied of it *)
(* nothing is transferred, and the loop goes on.                            *)
Transfer ==
  /\ pc = "copy" /\ pos < size
  /\ \E n \in Copied :
       /\ disk' = [disk EXCEPT ![To][file] = @ \o SubSeq(Source, pos + 1, pos + n)]
       /\ pos' = pos + n
       /\ progress' = [progress EXCEPT !.bytes = @ + n]
  /\ UNCHANGED <<dirs, pc, call, at, cur, todo, file, input, size, user>>

(* File.length: a file that does not exist has length 0. *)
Length(w, f) == IF disk[w][f] = NoFile THEN 0 ELSE Len(disk[w][f])

(* The streams are closed and the two files compared, by length. *)
Compare ==
  /\ pc = "copy" /\ pos >= size
  /\ IF Length(from, file) # Length(To, file)
     THEN pc' = "threw" /\ UNCHANGED <<at, progress>>
     ELSE /\ progress' = [progress EXCEPT !.files = @ + 1]
          /\ IF obj \in Files THEN NextLocation ELSE pc' = "walk" /\ UNCHANGED at
  /\ UNCHANGED <<disk, dirs, call, cur, todo, stream, user>>

(* Files.deleteIfExists: a directory has to be empty. *)
DeleteIfExists ==
  /\ pc = "delete"
  /\ IF obj \in Files
     THEN disk' = [disk EXCEPT ![from][obj] = NoFile] /\ pc' = "returned" /\ UNCHANGED dirs
     ELSE /\ UNCHANGED disk
          /\ IF Entries(from, obj) = {}
             THEN dirs' = [dirs EXCEPT ![from] = @ \ {obj}] /\ pc' = "returned"
             ELSE pc' = "threw" /\ UNCHANGED dirs
  /\ UNCHANGED <<call, at, cur, todo, stream, progress, user>>

\* Mutant: a location that fails is passed over.
FailPasses ==
  /\ Copying
  /\ IF pc # "delete" /\ at < Len(route) THEN NextLocation ELSE pc' = "threw" /\ UNCHANGED at
  /\ UNCHANGED <<disk, dirs, call, cur, todo, stream, progress, user>>

(* A disk that is full or gone, a path that is refused, or the end of the   *)
(* worker.                                                                  *)
Fail ==
  /\ Copying
  /\ pc' = "threw"
  /\ UNCHANGED <<disk, dirs, call, at, cur, todo, stream, progress, user>>

-----------------------------------------------------------------------------
(* The task is done with the call. *)
Forget ==
  /\ pc \in Ended
  /\ pc' = "idle"
  /\ obj' = NoDir /\ from' = "user" /\ route' = <<>> /\ at' = 1
  /\ cur' = NoDir /\ todo' = {}
  /\ file' = NoDir /\ input' = NoFile /\ size' = 0 /\ pos' = 0
  /\ progress' = NoProgress
  /\ edited' = FALSE
  /\ before' = [w \in Places |-> Nothing]
  /\ UNCHANGED <<disk, dirs, edits, calls>>

(* Between two calls the worker clears its working directory, or puts an    *)
(* object there to be stored.                                               *)
Prepare ==
  /\ pc = "idle"
  /\ \E o \in Objects, c \in Versions \cup {NoFile} :
       /\ c # NoFile => calls < MaxCalls
       /\ disk' = [disk EXCEPT !["working"] =
                     [f \in Files |-> IF ObjectOf[f] = o THEN c ELSE NoFile]]
       /\ dirs' = [dirs EXCEPT !["working"] =
                     IF c = NoFile THEN {} ELSE {d \in Dirs : ObjectOf[d] = o}]
  /\ UNCHANGED <<pc, call, at, cur, todo, stream, progress, user>>

(* The user changes, removes or makes a file while the storage is copied    *)
(* from.  A file that is removed while it is open can still be read.        *)
Edit(f, c) ==
  /\ edits < MaxEdits
  /\ Copying /\ from = "user"
  /\ c # disk["user"][f]
  /\ Parent[f] # NoDir => Parent[f] \in dirs["user"]
  /\ disk' = [disk EXCEPT !["user"][f] = c]
  /\ input' = IF /\ pc = "copy" /\ file = f /\ input = NoFile /\ c = NoFile
              THEN disk["user"][f] ELSE input
  /\ edits' = edits + 1
  /\ edited' = TRUE
  /\ UNCHANGED <<dirs, pc, call, at, cur, todo, file, size, pos, progress, calls, before>>

UserEdits == \E f \in Files, c \in Versions \cup {NoFile} : Edit(f, c)

Step == Location \/ List \/ Visit \/ Leave \/ Open \/ Transfer \/ Compare \/ DeleteIfExists

Next ==
  \/ Store \/ Retrieve \/ UserStore \/ UserRetrieve \/ Delete
  \/ Step
  \/ Fail
  \/ Forget
  \/ Prepare
  \/ UserEdits

Spec == Init /\ [][Next]_vars

(* The thread of the call runs. *)
FairSpec == Spec /\ WF_vars(Step)

-----------------------------------------------------------------------------
(* The type of every variable. *)
TypeOK ==
  /\ disk \in [Places -> [Files -> {NoFile} \cup Contents]]
  /\ dirs \in [Places -> SUBSET Dirs]
  /\ pc \in {"idle", "location", "list", "walk", "open", "copy", "delete"} \cup Ended
  /\ obj \in Objects \cup {NoDir} /\ from \in Places
  /\ route \in {Locations, <<"user">>, <<>>} \cup {<<w>> : w \in Archive \cup {"working"}}
  /\ at \in 1 .. Len(Locations) + 1
  /\ cur \in Dirs \cup {NoDir} /\ todo \subseteq Paths
  /\ file \in Files \cup {NoDir} /\ input \in {NoFile} \cup Contents
  /\ size \in Nat /\ pos \in 0 .. size
  /\ progress \in [bytes : Nat, files : Nat, dirs : Nat]
  /\ edits \in 0 .. MaxEdits /\ calls \in 0 .. MaxCalls /\ edited \in BOOLEAN
  /\ before \in [Places -> [Files -> {NoFile} \cup Contents]]

InObject(f) == ObjectOf[f] = obj
Moves == from \notin {route[i] : i \in DOMAIN route}

\* What a place has of the object is what the source has.
Whole(w) ==
  \A p \in Paths : ObjectOf[p] = obj /\ Present(from, p) =>
    Present(w, p) /\ (p \in Files => disk[w][p] = disk[from][p])

(* A store or retrieve that returns has copied the whole object, every      *)
(* directory of it, to every place it is meant for, however short the       *)
(* transfers are and whatever failed calls have left there.  Until then,    *)
(* and after a failure too, the places before the current one have the      *)
(* whole object and those after it what they had, and nothing but files of  *)
(* the source is ever replaced ("merges the source with the destination").  *)
(* Files that change while they are copied are not promised                 *)
(* (FileCopy.doCopyFile compares lengths only).                             *)
CopiesWhole ==
  (pc # "idle" /\ Moves /\ ~edited) =>
    \A i \in DOMAIN route :
      /\ i < at \/ pc = "returned" => Whole(route[i])
      /\ \A f \in Files :
           i > at \/ ~InObject(f) \/ disk[from][f] = NoFile
             => disk[route[i]][f] = before[route[i]][f]

(* "Progress information should be updated for monitoring as the copy       *)
(* occurs": a call that returns has counted every byte, file and directory  *)
(* it copied, once for each place, and before that never more.              *)
Found == {f \in Files : InObject(f) /\ disk[from][f] # NoFile}
FoundDirs == {d \in dirs[from] : ObjectOf[d] = obj}
BytesOf(F) == UNION {{f} \X (1 .. Len(disk[from][f])) : f \in F}
Bytes == BytesOf(Found)
Totals(n) == [bytes |-> n * Cardinality(Bytes), files |-> n * Cardinality(Found),
              dirs |-> n * Cardinality(FoundDirs)]

ProgressExact ==
  (pc # "idle" /\ Moves /\ ~edited) =>
    /\ progress.bytes <= Totals(Len(route)).bytes
    /\ progress.files <= Totals(Len(route)).files
    /\ pc = "returned" => progress = Totals(Len(route))

(* A call ends, unless the file it copies becomes shorter than what is      *)
(* copied of it: the loop of doCopyFile then has nothing more to transfer.  *)
CutShort == pc = "copy" /\ pos < size /\ Len(Source) <= pos
EndsUnlessCutShort == Copying ~> (~Copying \/ CutShort)

-----------------------------------------------------------------------------
(***************************************************************************)
(* The inductive invariant behind TypeOK, CopiesWhole and ProgressExact.   *)
(***************************************************************************)
InRound == pc \in {"list", "walk", "open", "copy"}
InTree == InRound /\ obj \in Dirs
InFile == pc \in {"open", "copy"}

(* Nothing is in a place without the directory that it is in. *)
Rooted ==
  \A w \in Places : \A p \in Paths :
    Present(w, p) /\ Parent[p] # NoDir => Parent[p] \in dirs[w]

(* Where a call is, and what it is about. *)
Shape ==
  /\ pc # "idle" => /\ obj \in Objects
                    /\ Moves \/ route = <<from>>
  /\ pc = "delete" => route = <<from>>
  /\ InRound \/ pc = "location" => Moves /\ at \in DOMAIN route
  /\ pc = "returned" /\ Moves => at = Len(route) + 1
  /\ ~InTree /\ pc \notin Ended => todo = {}
  /\ InRound /\ obj \in Files => InFile /\ file = obj
  /\ InTree => cur \in Dirs
  /\ InFile => file \in Files /\ ObjectOf[file] = obj /\ (InTree => Parent[file] = cur)
  /\ pc = "copy" => Source \in Contents /\ disk[To][file] \in Contents

(* What is copied so far is the beginning of the source. *)
Faithful ==
  ~edited =>
    /\ InFile => disk[from][file] # NoFile
    /\ pc = "copy" => /\ input = NoFile /\ size = Len(disk[from][file])
                      /\ disk[To][file] = SubSeq(disk[from][file], 1, pos)

(* A is the recursion: the directory being copied and those it is in.  All  *)
(* but the one that is to be listed were made.                              *)
Chain(A) ==
  /\ {obj, cur} \subseteq A
  /\ \A d \in A : /\ ObjectOf[d] = obj /\ Parent[d] # cur
                  /\ d # obj => Parent[d] \in A
                  /\ d \in dirs[To] \/ (pc = "list" /\ d = cur)
  /\ \A d, e \in A : Parent[d] = Parent[e] => d = e
  /\ \A p \in todo : Parent[p] \in A

(* V are the directories that were listed.  An entry of theirs is waiting,  *)
(* is listed too, is the one at hand, or is copied.                         *)
AtHand(p) == (pc = "list" /\ p = cur) \/ (InFile /\ p = file)

Listed(A, V) ==
  /\ V \subseteq dirs[from] \cap dirs[To]
  /\ \A d \in V : ObjectOf[d] = obj /\ (d # obj => Parent[d] \in V)
  /\ A \ V = IF pc = "list" THEN {cur} ELSE {}
  /\ cur \in dirs[from]
  /\ \A p \in todo : Present(from, p) /\ Parent[p] \in V /\ p \notin V
  /\ \A p \in todo : ~AtHand(p)
  /\ \A p \in Paths : Parent[p] \in V /\ Present(from, p) =>
       \/ p \in todo \cup V \/ AtHand(p)
       \/ p \in Files /\ disk[To][p] = disk[from][p]

(* The files of this round that are done, and the units. *)
Done(V) == {f \in Found : Parent[f] \in V /\ f \notin todo /\ ~AtHand(f)}
BytesDone(V) == BytesOf(Done(V)) \cup (IF pc = "copy" THEN {file} \X (1 .. pos) ELSE {})

(* What was counted: the whole object for every location that is done, and  *)
(* what is done for this one.                                               *)
Counted(A, V) ==
  /\ progress.bytes = Totals(at - 1).bytes + Cardinality(BytesDone(V))
  /\ progress.files = Totals(at - 1).files + Cardinality(Done(V))
  /\ progress.dirs = Totals(at - 1).dirs + Cardinality(V \ A)

Round(A, V) ==
  /\ IF InTree THEN Chain(A) ELSE A = {}
  /\ ~edited => /\ IF InTree THEN Listed(A, V) ELSE V = {}
                /\ Counted(A, V)

Rounds == InRound \/ pc = "location" => \E A, V \in SUBSET Dirs : Round(A, V)

Totalled == pc \in Ended => ProgressExact

IInv == TypeOK /\ Rooted /\ Shape /\ Faithful /\ CopiesWhole /\ Rounds /\ Totalled
=============================================================================
