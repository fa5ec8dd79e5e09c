---------------------------- MODULE TivoliStore ----------------------------
(***************************************************************************)
(* TivoliStorageManager: the archive store that keeps two copies of every  *)
(* chunk of a deposit, one on each of two Tivoli (TSM) server nodes.       *)
(*                                                                         *)
(* A call (store, retrieve or delete) runs in the thread of the worker     *)
(* task that makes it.  A store starts two tracker threads, one per node;  *)
(* each runs the external command "dsmc archive" until it exits with 0 or  *)
(* MaxRetries attempts are used.  All calls of one JVM share a temporary   *)
(* directory per deposit, under TEMP_PATH_PREFIX: the chunks of a deposit  *)
(* are handled by several threads (Context.noChunkThreads), and a failed   *)
(* deposit is tried again (Task.isRedeliver), so calls on the same         *)
(* directory, and even on the same file, overlap.                          *)
(*                                                                         *)
(* External, modelled from how the code uses it: the dsmc command and the  *)
(* servers behind it.  "dsmc archive" reads the file when it starts, and   *)
(* may exit with 0 only if it had a file to read; when it exits with an    *)
(* error the server may or may not have kept the copy.  "dsmc retrieve"    *)
(* exits with 0 only if the node holds a copy, and with an error it may    *)
(* have written some of the file or all of it.  Each dsmc is a process of  *)
(* its own: when the thread that waits for it is interrupted, or the JVM   *)
(* stops, nothing ends the process, which goes on as an orphan.            *)
(***************************************************************************)
EXTENDS Naturals

CONSTANTS
  Calls,       \* slots for calls in progress: a slot is used again when done
  Deposits,    \* deposit ids: one temporary directory each
  Chunks,      \* archive files; the name of a file carries its deposit's id
  DepositOf,   \* the deposit a chunk belongs to
  Data,        \* what a chunk's working file can contain
  NoFile,      \* "there is no file", and "the node holds no copy"
  Torn,        \* the content of a file that is still being written
  NoCall,      \* "no call is writing this file"
  MaxRetries,  \* tsmMaxRetries
  JvmErrors    \* whether a tracker thread may die of a java.lang.Error

ASSUME ConstantsAssumption ==
  /\ DepositOf \in [Chunks -> Deposits]
  /\ NoFile \notin Data /\ Torn \notin Data /\ NoFile # Torn
  /\ NoCall \notin Calls
  /\ MaxRetries \in Nat
  /\ JvmErrors \in BOOLEAN

VARIABLES
  pc,       \* where the thread of each call is
  call,     \* the arguments of each call
  tries,    \* the loop counter r of a retrieve
  got,      \* what a retrieve has moved to its working file
  trk,      \* the tracker, or the orphaned dsmc, of each call and node
  dirs,     \* the deposits whose temporary directory exists
  tmp,      \* the content of each temporary file
  writer,   \* the call whose Files.copy is still filling the file
  archive,  \* what each node holds of each chunk
  overlap   \* history: another call on the same chunk ran at the same time

vars == <<pc, call, tries, got, trk, dirs, tmp, writer, archive, overlap>>
files == <<dirs, tmp, writer>>

Nodes == {1, 2}   \* TSM_SERVER_NODE1_OPT and TSM_SERVER_NODE2_OPT

Idle == [op |-> "none"]
StoreCalls == [op: {"store"}, chunk: Chunks, data: Data \cup {NoFile}]
RetrieveCalls == [op: {"retrieve"}, chunk: Chunks, node: Nodes]
DeleteCalls == [op: {"delete"}, chunk: Chunks, node: Nodes]

\* Cut: an interrupt of its thread, or a stop of the JVM, ended the call.
Ended == {"returned", "threw", "cut"}

\* A tracker: its state, its loop counter r, and what dsmc read of the file.
Tracker(s, r, d) == [state |-> s, r |-> r, sent |-> d]
Fresh(s) == Tracker(s, 0, NoFile)
TrackerLive(k, n) == trk[k][n].state \in {"ready", "running", "orphan"}

\* The call can still touch the files or the nodes.  A call that ended stays
\* live as long as a tracker or a dsmc process it left behind does.
Live(k) == \/ pc[k] \notin Ended \cup {"idle"}
           \/ \E n \in Nodes : TrackerLive(k, n)

Dir(k) == DepositOf[call[k].chunk]
FilesIn(d) == {c \in Chunks : DepositOf[c] = d /\ tmp[c] # NoFile}
NodeCopy(k) == archive[call[k].node][call[k].chunk]

Goto(k, where) == pc' = [pc EXCEPT ![k] = where]

-----------------------------------------------------------------------------
Init ==
  /\ pc = [k \in Calls |-> "idle"]
  /\ call = [k \in Calls |-> Idle]
  /\ tries = [k \in Calls |-> 0]
  /\ got = [k \in Calls |-> NoFile]
  /\ trk = [k \in Calls |-> [n \in Nodes |-> Fresh("none")]]
  /\ dirs = {}
  /\ tmp = [c \in Chunks |-> NoFile]
  /\ writer = [c \in Chunks |-> NoCall]
  /\ archive = [n \in Nodes |-> [c \in Chunks |-> NoFile]]
  /\ overlap = [k \in Calls |-> FALSE]

(***************************************************************************)
(* A worker task calls the store.  The history variable is set for the     *)
(* new call when a call on the same chunk is live, and for every call on   *)
(* that chunk that is not forgotten yet.                                   *)
(***************************************************************************)
Begin(k, args, first) ==
  /\ pc[k] = "idle"
  /\ Goto(k, first)
  /\ call' = [call EXCEPT ![k] = args]
  /\ overlap' = [j \in Calls |->
       IF j = k
       THEN \E i \in Calls \ {k} :
              pc[i] # "idle" /\ call[i].chunk = args.chunk /\ Live(i)
       ELSE \/ overlap[j]
            \/ pc[j] # "idle" /\ call[j].chunk = args.chunk]
  /\ UNCHANGED <<tries, got, trk, files, archive>>

\* store(depositId, working, progress).  Without a working file (data is
\* NoFile) nothing is copied: the trackers get whatever the directory holds.
CallStore(k) == \E args \in StoreCalls :
  Begin(k, args, IF args.data = NoFile THEN "spawn" ELSE "checkdir")

CallRetrieve(k) == \E args \in RetrieveCalls : Begin(k, args, "checkdir")

CallDelete(k) == \E args \in DeleteCalls : Begin(k, args, "dsmcdelete")

-----------------------------------------------------------------------------
(***************************************************************************)
(* The temporary directory: Files.exists, then Files.createDirectory.  The *)
(* two are not atomic, so the directory may be there by then.              *)
(***************************************************************************)
AfterDir(k) == IF call[k].op = "store" THEN "copy"
               ELSE IF MaxRetries = 0 THEN "returned" ELSE "attempt"

CheckDir(k) ==
  /\ pc[k] = "checkdir"
  /\ Goto(k, IF Dir(k) \in dirs THEN AfterDir(k) ELSE "mkdir")
  /\ UNCHANGED <<call, tries, got, trk, files, archive, overlap>>

MakeDir(k) ==
  /\ pc[k] = "mkdir"
  /\ dirs' = dirs \cup {Dir(k)}
  /\ Goto(k, IF Dir(k) \in dirs THEN "threw" ELSE AfterDir(k))
  /\ UNCHANGED <<call, tries, got, trk, tmp, writer, archive, overlap>>

\* Mutant: a temporary file that is already there is taken for the chunk's.
CopyStartSkips(k) ==
  /\ pc[k] = "copy"
  /\ IF Dir(k) \in dirs
     THEN IF tmp[call[k].chunk] = NoFile
          THEN /\ tmp' = [tmp EXCEPT ![call[k].chunk] = Torn]
               /\ writer' = [writer EXCEPT ![call[k].chunk] = k]
               /\ Goto(k, "copying")
          ELSE Goto(k, "spawn") /\ UNCHANGED <<tmp, writer>>
     ELSE Goto(k, "threw") /\ UNCHANGED <<tmp, writer>>
  /\ UNCHANGED <<call, tries, got, trk, dirs, archive, overlap>>

(***************************************************************************)
(* Files.copy with REPLACE_EXISTING: the old file is removed and a new one *)
(* opened, then filled.  A copy whose file was removed or replaced in the  *)
(* meantime goes on writing to a file that has no name any more.           *)
(***************************************************************************)
CopyStart(k) ==
  /\ pc[k] = "copy"
  /\ IF Dir(k) \in dirs
     THEN /\ tmp' = [tmp EXCEPT ![call[k].chunk] = Torn]
          /\ writer' = [writer EXCEPT ![call[k].chunk] = k]
          /\ Goto(k, "copying")
     ELSE Goto(k, "threw") /\ UNCHANGED <<tmp, writer>>
  /\ UNCHANGED <<call, tries, got, trk, dirs, archive, overlap>>

CopyEnd(k) ==
  /\ pc[k] = "copying"
  /\ Goto(k, "spawn")
  /\ IF writer[call[k].chunk] = k
     THEN /\ tmp' = [tmp EXCEPT ![call[k].chunk] = call[k].data]
          /\ writer' = [writer EXCEPT ![call[k].chunk] = NoCall]
     ELSE UNCHANGED <<tmp, writer>>
  /\ UNCHANGED <<call, tries, got, trk, dirs, archive, overlap>>

\* An I/O error (the disk is full, a permission is missing) where the call works
\* on the files.  A copy that breaks off takes the temporary file away again if
\* it can; what a move has left in the working file is nobody's any more.
Fails(k) ==
  LET c == call[k].chunk
  IN /\ pc[k] \in {"mkdir", "copy", "copying", "takefile", "rmdir"}
     /\ Goto(k, "threw")
     /\ \/ /\ writer' = [writer EXCEPT ![c] = IF @ = k THEN NoCall ELSE @]
           /\ UNCHANGED tmp
        \/ /\ pc[k] \in {"copy", "copying"}
           /\ tmp' = [tmp EXCEPT ![c] = NoFile]
           /\ writer' = [writer EXCEPT ![c] = NoCall]
     /\ UNCHANGED <<call, tries, got, trk, dirs, archive, overlap>>

\* Mutant: the locations are numbered from 0.
SpawnFromZero(k) ==
  /\ pc[k] = "spawn"
  /\ Goto(k, "await1")
  /\ trk' = [trk EXCEPT ![k] = [n \in {0, 1} |-> Fresh("ready")]]
  /\ UNCHANGED <<call, tries, got, files, archive, overlap>>

\* Both trackers are submitted.  With MaxRetries = 0 their loop has no
\* iteration and they are done at once.
Spawn(k) ==
  /\ pc[k] = "spawn"
  /\ Goto(k, "await1")
  /\ trk' = [trk EXCEPT ![k] = [n \in Nodes |->
               Fresh(IF MaxRetries = 0 THEN "done" ELSE "ready")]]
  /\ UNCHANGED <<call, tries, got, files, archive, overlap>>

\* Mutant: dsmc is given the directory and takes the file it finds there.
TrackerStartAny(k, n) ==
  /\ trk[k][n].state = "ready"
  /\ \E c \in FilesIn(Dir(k)) :
       trk' = [trk EXCEPT ![k][n] = Tracker("running", @.r, tmp[c])]
  /\ UNCHANGED <<pc, call, tries, got, files, archive, overlap>>

(***************************************************************************)
(* TSMTracker: one attempt is a dsmc process that reads the file and later *)
(* exits.  The sleep between two attempts is the time spent in "ready".    *)
(* Nothing interrupts these threads: their executor is local to the call   *)
(* and is only shut down in order.                                         *)
(***************************************************************************)
TrackerStart(k, n) ==
  /\ trk[k][n].state = "ready"
  /\ trk' = [trk EXCEPT ![k][n] =
               Tracker("running", @.r, tmp[call[k].chunk])]
  /\ UNCHANGED <<pc, call, tries, got, files, archive, overlap>>

TrackerSucceeds(k, n) ==
  /\ trk[k][n].state = "running"
  /\ trk[k][n].sent # NoFile
  /\ archive' = [archive EXCEPT ![n][call[k].chunk] = trk[k][n].sent]
  /\ trk' = [trk EXCEPT ![k][n] = Fresh("done")]
  /\ UNCHANGED <<pc, call, tries, got, files, overlap>>

\* The dsmc of this tracker may have brought its file to the server.
MayKeep(k, n) ==
  \/ UNCHANGED archive
  \/ /\ trk[k][n].sent # NoFile
     /\ archive' = [archive EXCEPT ![n][call[k].chunk] = trk[k][n].sent]

\* Mutant: the attempts are not counted.
TrackerFailsForever(k, n) ==
  /\ trk[k][n].state = "running"
  /\ trk' = [trk EXCEPT ![k][n] = Tracker("ready", 0, NoFile)]
  /\ UNCHANGED <<pc, call, tries, got, files, archive, overlap>>

\* dsmc exits with an error: the next attempt, or an exception if this was the
\* last.  dsmc that cannot be started, or whose output cannot be read, is an
\* exception at any attempt.
TrackerFails(k, n) ==
  /\ trk[k][n].state \in {"ready", "running"}
  /\ \/ /\ trk[k][n].state = "running" /\ trk[k][n].r # MaxRetries - 1
        /\ trk' = [trk EXCEPT ![k][n] = Tracker("ready", @.r + 1, NoFile)]
     \/ trk' = [trk EXCEPT ![k][n] = Fresh("failed")]
  /\ MayKeep(k, n)
  /\ UNCHANGED <<pc, call, tries, got, files, overlap>>

\* The thread dies of an Error (no memory for the output of dsmc, say).
TrackerDies(k, n) ==
  /\ JvmErrors
  /\ trk[k][n].state \in {"ready", "running"}
  /\ trk' = [trk EXCEPT ![k][n] = Fresh("died")]
  /\ MayKeep(k, n)
  /\ UNCHANGED <<pc, call, tries, got, files, overlap>>

\* Mutant: an Exception of a tracker is logged, as an Error is dropped.
AwaitLogs(k, n, here, next) ==
  /\ pc[k] = here
  /\ trk[k][n].state \in {"done", "failed", "died"}
  /\ Goto(k, IF trk[k][n].state = "done" THEN next ELSE "checkfile")
  /\ UNCHANGED <<call, tries, got, trk, files, archive, overlap>>

(***************************************************************************)
(* loc1Future.get(), then loc2Future.get().  An Exception of a tracker is  *)
(* thrown on at once, without waiting for the other tracker and without    *)
(* removing the temporary file; an Error is dropped and the call goes on   *)
(* as if the copy had been made.                                           *)
(***************************************************************************)
Await(k, n, here, next) ==
  /\ pc[k] = here
  /\ trk[k][n].state \in {"done", "failed", "died"}
  /\ Goto(k, CASE trk[k][n].state = "done" -> next
               [] trk[k][n].state = "failed" -> "threw"
               [] trk[k][n].state = "died" -> "checkfile")
  /\ UNCHANGED <<call, tries, got, trk, files, archive, overlap>>

\* Mutant: the future of node 2 is asked first.
Await1Swapped(k) == Await(k, 2, "await1", "await2")

Await1(k) == Await(k, 1, "await1", "await2")
Await2(k) == Await(k, 2, "await2", "checkfile")

-----------------------------------------------------------------------------
\* dsmc retrieve writes the temporary file, with the directories on its way.
Fetches(k, d) ==
  /\ dirs' = dirs \cup {Dir(k)}
  /\ tmp' = [tmp EXCEPT ![call[k].chunk] = d]
  /\ writer' = [writer EXCEPT ![call[k].chunk] = NoCall]

\* dsmc retrieve has written nothing, a part, or all of the node's copy.
FetchesSome(k) ==
  \/ UNCHANGED files
  \/ Fetches(k, Torn)
  \/ NodeCopy(k) # NoFile /\ Fetches(k, NodeCopy(k))

\* One attempt of a retrieve: dsmc leaves the file in the temporary directory.
AttemptSucceeds(k) ==
  /\ pc[k] = "attempt"
  /\ NodeCopy(k) # NoFile
  /\ Fetches(k, NodeCopy(k))
  /\ tries' = [tries EXCEPT ![k] = 0]
  /\ Goto(k, "checkfile")
  /\ UNCHANGED <<call, got, trk, archive, overlap>>

\* As for a tracker: the next attempt, or an exception, which can end any
\* attempt if dsmc cannot be started or its messages cannot be read.
AttemptFails(k) ==
  /\ pc[k] = "attempt"
  /\ \/ /\ tries[k] # MaxRetries - 1
        /\ tries' = [tries EXCEPT ![k] = @ + 1] /\ UNCHANGED pc
     \/ tries' = [tries EXCEPT ![k] = 0] /\ Goto(k, "threw")
  /\ FetchesSome(k)
  /\ UNCHANGED <<call, got, trk, archive, overlap>>

\* Mutant: a store leaves its temporary file to others.
CheckFileKeeps(k) ==
  /\ pc[k] = "checkfile"
  /\ Goto(k, CASE call[k].op = "store" -> "returned"
               [] call[k].op = "retrieve" /\ tmp[call[k].chunk] # NoFile -> "takefile"
               [] OTHER -> "rmdir")
  /\ UNCHANGED <<call, tries, got, trk, files, archive, overlap>>

(***************************************************************************)
(* Both calls end with Files.exists on the temporary file.  If it is there *)
(* a store deletes it and a retrieve moves it to the working file.  Then   *)
(* the directory is deleted, which fails if another chunk's file is in it  *)
(* or if it is already gone.  A store that finds no file returns at once.  *)
(***************************************************************************)
CheckFile(k) ==
  /\ pc[k] = "checkfile"
  /\ Goto(k, CASE tmp[call[k].chunk] # NoFile -> "takefile"
               [] tmp[call[k].chunk] = NoFile /\ call[k].op = "store" -> "returned"
               [] OTHER -> "rmdir")
  /\ UNCHANGED <<call, tries, got, trk, files, archive, overlap>>

TakeFile(k) ==
  LET c == call[k].chunk
  IN /\ pc[k] = "takefile"
     /\ Goto(k, IF tmp[c] = NoFile THEN "threw" ELSE "rmdir")
     /\ tmp' = [tmp EXCEPT ![c] = NoFile]
     /\ writer' = [writer EXCEPT ![c] = NoCall]
     /\ got' = IF call[k].op = "retrieve" THEN [got EXCEPT ![k] = tmp[c]] ELSE got
     /\ UNCHANGED <<call, tries, trk, dirs, archive, overlap>>

\* Mutant: the directory is deleted with whatever is in it.
RemoveDirWithFiles(k) ==
  /\ pc[k] = "rmdir"
  /\ dirs' = dirs \ {Dir(k)}
  /\ tmp' = [c \in Chunks |-> IF c \in FilesIn(Dir(k)) THEN NoFile ELSE tmp[c]]
  /\ Goto(k, IF Dir(k) \in dirs THEN "returned" ELSE "threw")
  /\ UNCHANGED <<call, tries, got, trk, writer, archive, overlap>>

RemoveDir(k) ==
  /\ pc[k] = "rmdir"
  /\ IF Dir(k) \in dirs /\ FilesIn(Dir(k)) = {}
     THEN dirs' = dirs \ {Dir(k)} /\ Goto(k, "returned")
     ELSE Goto(k, "threw") /\ UNCHANGED dirs
  /\ UNCHANGED <<call, tries, got, trk, tmp, writer, archive, overlap>>

\* Whether it exits with 0 or not, dsmc may have removed the node's copy.
MayRemove(k) ==
  \/ UNCHANGED archive
  \/ archive' = [archive EXCEPT ![call[k].node][call[k].chunk] = NoFile]

\* delete runs dsmc once.  An error of dsmc is only logged; that it cannot be
\* started, or its messages cannot be read, is thrown.
Delete(k) ==
  /\ pc[k] = "dsmcdelete"
  /\ MayRemove(k)
  /\ \/ Goto(k, "returned")
     \/ Goto(k, "threw")
  /\ UNCHANGED <<call, tries, got, trk, files, overlap>>

-----------------------------------------------------------------------------
(***************************************************************************)
(* The thread of a call is interrupted where it waits: for the trackers,   *)
(* which go on, for dsmc, which goes on as an orphan, or between two       *)
(* attempts (an orphan that ends at once and has written nothing).         *)
(***************************************************************************)
Interrupt(k) ==
  /\ Goto(k, "cut")
  /\ \/ pc[k] \in {"await1", "await2"} /\ UNCHANGED trk
     \/ /\ pc[k] \in {"attempt", "dsmcdelete"}
        /\ trk' = [trk EXCEPT ![k][call[k].node] = Fresh("orphan")]
  /\ UNCHANGED <<call, tries, got, files, archive, overlap>>

\* An orphaned dsmc ends, and nobody looks at how.
OrphanEnds(k, n) ==
  /\ trk[k][n].state = "orphan"
  /\ trk' = [trk EXCEPT ![k][n] = Fresh("none")]
  /\ \/ call[k].op = "store" /\ MayKeep(k, n) /\ UNCHANGED files
     \/ call[k].op = "retrieve" /\ FetchesSome(k) /\ UNCHANGED archive
     \/ call[k].op = "delete" /\ MayRemove(k) /\ UNCHANGED files
  /\ UNCHANGED <<pc, call, tries, got, overlap>>

-----------------------------------------------------------------------------
\* The caller is done with the call, and its trackers have stopped.
Forget(k) ==
  /\ pc[k] \in Ended
  /\ ~Live(k)
  /\ Goto(k, "idle")
  /\ call' = [call EXCEPT ![k] = Idle]
  /\ tries' = [tries EXCEPT ![k] = 0]
  /\ got' = [got EXCEPT ![k] = NoFile]
  /\ trk' = [trk EXCEPT ![k] = [n \in Nodes |-> Fresh("none")]]
  /\ overlap' = [overlap EXCEPT ![k] = FALSE]
  /\ UNCHANGED <<files, archive>>

\* The thread of the call, or of its tracker, waits for a dsmc process.
DsmcRuns(k, n) ==
  \/ trk[k][n].state = "running"
  \/ pc[k] \in {"attempt", "dsmcdelete"} /\ n = call[k].node

\* The worker's JVM stops: every call ends where it is and all trackers are gone,
\* the dsmc processes go on, and the temporary directory stays as it was.
Crash ==
  /\ \E k \in Calls : Live(k)
  /\ pc' = [k \in Calls |-> IF pc[k] \in Ended \cup {"idle"} THEN pc[k] ELSE "cut"]
  /\ trk' = [k \in Calls |-> [n \in Nodes |->
               IF DsmcRuns(k, n) THEN Tracker("orphan", 0, trk[k][n].sent)
               ELSE IF trk[k][n].state = "orphan" THEN trk[k][n] ELSE Fresh("none")]]
  /\ writer' = [c \in Chunks |-> NoCall]
  /\ UNCHANGED <<call, tries, got, dirs, tmp, archive, overlap>>

TrackerStep(k, n) ==
  \/ TrackerStart(k, n)
  \/ TrackerSucceeds(k, n)
  \/ TrackerFails(k, n)
  \/ TrackerDies(k, n)
  \/ OrphanEnds(k, n)

CallStep(k) ==
  \/ CheckDir(k)
  \/ MakeDir(k)
  \/ CopyStart(k)
  \/ CopyEnd(k)
  \/ Fails(k)
  \/ Spawn(k)
  \/ Await1(k)
  \/ Await2(k)
  \/ AttemptSucceeds(k)
  \/ AttemptFails(k)
  \/ CheckFile(k)
  \/ TakeFile(k)
  \/ RemoveDir(k)
  \/ Delete(k)

NextOf(k) ==
  \/ CallStore(k)
  \/ CallRetrieve(k)
  \/ CallDelete(k)
  \/ CallStep(k)
  \/ \E n \in Nodes : TrackerStep(k, n)
  \/ Interrupt(k)
  \/ Forget(k)

Next == (\E k \in Calls : NextOf(k)) \/ Crash

Spec == Init /\ [][Next]_vars

\* Every thread that can run does run, and every dsmc exits sooner or later:
\* the code waits for it without a time limit, and reads what it writes only
\* after it has exited.
Fairness == \A k \in Calls :
  WF_vars(CallStep(k)) /\ \A n \in Nodes : WF_vars(TrackerStep(k, n))

FairSpec == Spec /\ Fairness

-----------------------------------------------------------------------------
PCs == {"idle", "checkdir", "mkdir", "copy", "copying", "spawn", "await1",
        "await2", "attempt", "checkfile", "takefile", "rmdir", "dsmcdelete",
        "returned", "threw", "cut"}
TrackerStates == {"none", "ready", "running", "orphan", "done", "failed", "died"}
Contents == Data \cup {NoFile, Torn}

\* The type of every variable.
TypeOK ==
  /\ pc \in [Calls -> PCs]
  /\ call \in [Calls -> StoreCalls \cup RetrieveCalls \cup DeleteCalls \cup {Idle}]
  /\ tries \in [Calls -> Nat]
  /\ got \in [Calls -> Contents]
  /\ trk \in [Calls -> [Nodes -> [state: TrackerStates, r: Nat, sent: Contents]]]
  /\ dirs \subseteq Deposits
  /\ tmp \in [Chunks -> Contents]
  /\ writer \in [Chunks -> Calls \cup {NoCall}]
  /\ archive \in [Nodes -> [Chunks -> Contents]]
  /\ overlap \in [Calls -> BOOLEAN]

Returned(k, o) == pc[k] = "returned" /\ call[k].op = o

\* A store that returns its archive id has put its own bytes on both nodes:
\* not on one only, not half a file, not what an earlier attempt left behind,
\* whatever the other chunks of the deposit do in the same directory meanwhile.
\* A store that met a call on its chunk is promised nothing, and such a call is
\* any whose tracker or dsmc still runs, be its worker stopped or its caller told
\* that it failed.
StoreReplicated ==
  \A k \in Calls :
    (Returned(k, "store") /\ call[k].data # NoFile /\ ~overlap[k])
      => \A n \in Nodes : archive[n][call[k].chunk] = call[k].data

\* A retrieve that returns has put the node's copy of its own chunk in the working
\* file, although calls on the deposit's other chunks create, fill and delete the
\* directory it goes through at the same time.
RetrieveFaithful ==
  \A k \in Calls :
    (Returned(k, "retrieve") /\ ~overlap[k])
      => /\ got[k] # NoFile
         /\ got[k] = archive[call[k].node][call[k].chunk]

\* A call that returns has removed its temporary file, also if an earlier call
\* on the chunk was cut short and had left one: the shared disk fills up only
\* through calls that failed and were not made again.
NothingLeftBehind ==
  \A k \in Calls :
    (pc[k] = "returned" /\ call[k].op # "delete" /\ ~overlap[k])
      => tmp[call[k].chunk] = NoFile

\* Unless it is cut short, a store leaves trackers running in one way only: it
\* threw because node 1 failed, and the upload to node 2 goes on behind the
\* caller's back.
OnlyNode2Lingers ==
  \A k \in Calls, n \in Nodes :
    (trk[k][n].state \in {"ready", "running"} /\ pc[k] \notin {"await1", "await2", "cut"})
      => /\ n = 2
         /\ pc[k] = "threw"
         /\ trk[k][1].state = "failed"

(***************************************************************************)
(* The inductive invariant behind these properties, call by call.  Alone   *)
(* is what the history variable buys: no other call on the chunk can act   *)
(* any more (Quiet).                                                       *)
(***************************************************************************)
Alone(k) == pc[k] # "idle" /\ ~overlap[k]
SameChunk(j, k) == call[j].chunk = call[k].chunk

Quiet == \A k \in Calls, j \in Calls :
  (j # k /\ Alone(k) /\ pc[j] # "idle" /\ SameChunk(j, k)) => ~Live(j)

\* Which calls can be where.
Flow(k) ==
  /\ pc[k] = "idle" <=> call[k] = Idle
  /\ pc[k] \in {"copy", "copying", "spawn", "await1", "await2"} => call[k].op = "store"
  /\ pc[k] = "attempt" => call[k].op = "retrieve"
  /\ pc[k] = "dsmcdelete" => call[k].op = "delete"
  /\ call[k].op = "delete" => pc[k] \in {"dsmcdelete"} \cup Ended
  /\ (call[k].op = "store" /\ pc[k] \in {"checkdir", "mkdir", "copy", "copying"})
       => call[k].data # NoFile
  /\ \A n \in Nodes : trk[k][n].state # "none" =>
       /\ pc[k] \in {"await1", "await2", "checkfile", "takefile", "rmdir"} \cup Ended
       /\ \/ call[k].op = "store"
          \/ pc[k] = "cut" /\ trk[k][n].state = "orphan" /\ n = call[k].node

\* A file that is still being copied belongs to the call that copies it.
Writing == \A c \in Chunks, k \in Calls :
  writer[c] = k => pc[k] = "copying" /\ call[k].chunk = c

\* Past a tracker's Future.get, that tracker is done.
Awaited(k) ==
  /\ pc[k] = "await2" => trk[k][1].state = "done"
  /\ (call[k].op = "store" /\ pc[k] \in {"checkfile", "takefile", "rmdir"})
       => \A n \in Nodes : trk[k][n].state = "done"
  /\ \A n \in Nodes :
       /\ trk[k][n].state # "died"
       /\ trk[k][n].state = "orphan" => pc[k] \in {"threw", "cut"}
       /\ pc[k] = "returned" => ~TrackerLive(k, n)
       /\ (trk[k][n].state \in {"ready", "running"} /\ pc[k] = "threw")
            => n = 2 /\ trk[k][1].state = "failed"

\* What a store that is alone finds in its temporary file and on the nodes.
Storing(k) ==
  (Alone(k) /\ call[k].op = "store" /\ call[k].data # NoFile) =>
    /\ pc[k] = "copying" => writer[call[k].chunk] = k
    /\ (pc[k] \in {"spawn", "await1", "await2"} \/ \E n \in Nodes : TrackerLive(k, n))
         => tmp[call[k].chunk] = call[k].data
    /\ \A n \in Nodes :
         /\ TrackerLive(k, n) => trk[k][n].sent \in {NoFile, call[k].data}
         /\ trk[k][n].state = "done" \/ pc[k] = "returned"
              => archive[n][call[k].chunk] = call[k].data

\* What a retrieve that is alone has in its temporary or its working file.
Retrieving(k) ==
  (Alone(k) /\ call[k].op = "retrieve") =>
    /\ pc[k] \in {"checkfile", "takefile"} =>
         NodeCopy(k) # NoFile /\ tmp[call[k].chunk] = NodeCopy(k)
    /\ pc[k] \in {"rmdir", "returned"} =>
         NodeCopy(k) # NoFile /\ got[k] = NodeCopy(k)

\* A call that is alone has taken its temporary file away before the directory.
Removed(k) ==
  (Alone(k) /\ call[k].op # "delete" /\ pc[k] \in {"rmdir", "returned"})
    => tmp[call[k].chunk] = NoFile

\* The invariant that each step preserves, for a store that makes at least one
\* attempt and whose tracker threads die of no Error.
CallInv(k) == Flow(k) /\ Awaited(k) /\ Storing(k) /\ Retrieving(k) /\ Removed(k)

IInv == TypeOK /\ Writing /\ Quiet /\ \A k \in Calls : CallInv(k)

(***************************************************************************)
(* TivoliStorageManager implements ReplicatedStore.                        *)
(***************************************************************************)
Status(k) == IF pc[k] \in {"idle", "returned"} THEN pc[k]
             ELSE IF pc[k] \in Ended THEN "threw" ELSE "pending"

Lingers(k) == pc[k] \in Ended /\ Live(k)

Statuses == [k \in Calls |-> Status(k)]
Results == [k \in Calls |-> IF pc[k] = "returned" THEN got[k] ELSE NoFile]
LingeringCalls == {k \in Calls : Lingers(k)}

Promise == INSTANCE ReplicatedStore WITH
  status <- Statuses, result <- Results, lingering <- LingeringCalls, copies <- archive

\* The store keeps the promise: each step of it is a step of ReplicatedStore, so
\* a call that throws may leave one copy but one that returns never does, and a
\* tracker or a dsmc left behind writes nothing but what its own call was given.
KeepsPromise == Promise!Spec

\* Every call ends, and so does every tracker it left behind.
EveryCallEnds == \A k \in Calls : Live(k) ~> ~Live(k)
=============================================================================
