----------------------------- MODULE SftpStore -----------------------------
(***************************************************************************)
(* SFTPFileSystem, a user's storage behind SSH.  Every operation connects, *)
(* works with relative paths in the current directory of its channel, and  *)
(* disconnects; session and channel are fields of the object, which every  *)
(* command reads again, while a tree is copied through one channel.  Calls *)
(* on one object and on several run side by side, and each may fail at     *)
(* every command.  Paths are sequences of names below rootPath.            *)
(***************************************************************************)
EXTENDS Naturals, Sequences, SequencesExt

CONSTANTS
  Calls, NoCall,     \* calls that are made, each once
  Objects,           \* SFTPFileSystem objects
  Stamps,            \* the seconds of the clock, as names of directories
  Trees,             \* what is stored: [dirs, files], sets of paths
  Data, Wanted,      \* a tree on the server, in DataDir, and what is fetched of it
  RootIsSlash,       \* rootPath is "/"
  Dir, Torn          \* a directory; a file that was cut off

DestDir == <<"dest">>
DataDir == <<"data">>

Everything(t) == t.dirs \cup t.files
Names == Stamps \cup {"dest", "data"}
           \cup UNION {Range(p) : p \in UNION {Everything(t) : t \in Trees \cup {Data}}}
Paths == Seq(Names)
Contents == [by : Calls \cup {NoCall}, of : Paths]

\* A tree has every directory on the way to what is in it; one item is stored.
ASSUME SftpAssumption ==
  /\ NoCall \notin Calls
  /\ RootIsSlash \in BOOLEAN
  /\ Dir # Torn /\ Dir \notin Contents /\ Torn \notin Contents
  /\ Wanted \subseteq Everything(Data)
  /\ \A t \in Trees \cup {Data} :
       /\ t.dirs \cap t.files = {}
       /\ \A p \in Everything(t) : /\ p \in Paths \ {<<>>}
                                   /\ \A q \in Prefixes(p) \ {<<>>, p} : q \in t.dirs
  /\ \A t \in Trees : \A p, q \in Everything(t) : Head(p) = Head(q)

VARIABLES
  remote,       \* the server: what each path there is
  session,      \* the field session, by the call that made it
  channelSftp,  \* the field channelSftp, likewise
  connected,    \* the calls whose session is connected
  chan,         \* the channel each call has made
  pc, job,
  path,         \* the local variable path
  using,        \* the channel that was passed to Utility
  at,           \* the directory whose copy is under way
  todo,         \* entries of it and of those above that are not copied yet
  got,          \* what a retrieve has written
  alone         \* history: no other call met this one on its object

fields == <<session, channelSftp>>
vars == <<remote, session, channelSftp, connected, chan, pc, job, path, using,
          at, todo, got, alone>>

Content(k, p) == [by |-> k, of |-> p]
Parent(p) == Front(p)
Children(t, p) == {[path |-> q, dir |-> q \in t.dirs] : q \in {q \in Everything(t) : Parent(q) = p}}
Top(t) == {p \in t.dirs : Len(p) = 1}

IsDir(p) == p \in DOMAIN remote /\ remote[p] = Dir
Below(p) == {q \in DOMAIN remote : IsPrefix(p, q)}
With(p, x) == [q \in DOMAIN remote \cup {p} |-> IF q = p THEN x ELSE remote[q]]

NoChannel == [open |-> FALSE, cwd |-> <<>>, on |-> NoCall]
NoJob == [op |-> "none"]
Stores == [op: {"store"}, obj: Objects, tree: Trees]
Retrieves(paths) == [op: {"retrieve"}, obj: Objects, path: paths]
Queries == [op: {"query"}, obj: Objects, throws: BOOLEAN]

Init ==
  /\ remote = [p \in {<<>>, DestDir, DataDir} \cup {DataDir \o q : q \in Everything(Data)} |->
                 IF \E q \in Data.files : p = DataDir \o q THEN Content(NoCall, p) ELSE Dir]
  /\ session = [o \in Objects |-> NoCall]
  /\ channelSftp = [o \in Objects |-> NoCall]
  /\ connected = {}
  /\ chan = [k \in Calls |-> NoChannel]
  /\ pc = [k \in Calls |-> "idle"]
  /\ job = [k \in Calls |-> NoJob]
  /\ path = [k \in Calls |-> <<>>]
  /\ using = [k \in Calls |-> NoCall]
  /\ at = [k \in Calls |-> <<>>]
  /\ todo = [k \in Calls |-> {}]
  /\ got = [k \in Calls |-> {}]
  /\ alone = [k \in Calls |-> TRUE]

Ended == {"returned", "threw"}
Running(k) == pc[k] \notin {"idle"} \cup Ended
Goto(k, l) == pc' = [pc EXCEPT ![k] = l]

\* A retrieve is of data that the user has there, by its path below rootPath, or of
\* what a store returned, which begins with rootPath.
Known == {DataDir \o q : q \in Wanted} \cup
         {path[k] : k \in {j \in Calls : pc[j] = "returned" /\ job[j].op = "store"}}

Begin(k, j) ==
  /\ pc[k] = "idle"
  /\ Goto(k, "session")
  /\ job' = [job EXCEPT ![k] = j]
  /\ LET others == {i \in Calls \ {k} : Running(i) /\ job[i].obj = j.obj}
     IN alone' = [i \in Calls |->
                    IF i = k THEN others = {} ELSE alone[i] /\ i \notin others]
  /\ UNCHANGED <<remote, fields, connected, chan, path, using, at, todo, got>>

(***************************************************************************)
(* Connect and Disconnect.                                                 *)
(***************************************************************************)
NewSession(k) ==
  /\ pc[k] = "session"
  /\ session' = [session EXCEPT ![job[k].obj] = k]
  /\ Goto(k, "connect")
  /\ UNCHANGED <<remote, channelSftp, connected, chan, job, path, using, at, todo,
                 got, alone>>

\* One of the 25 attempts succeeds.  A session that is connected already refuses.
ConnectSession(k) ==
  /\ pc[k] = "connect"
  /\ session[job[k].obj] \notin connected
  /\ connected' = connected \cup {session[job[k].obj]}
  /\ Goto(k, "channel")
  /\ UNCHANGED <<remote, fields, chan, job, path, using, at, todo, got, alone>>

OpenChannel(k) ==
  /\ pc[k] = "channel"
  /\ session[job[k].obj] \in connected
  /\ chan' = [chan EXCEPT ![k] = [open |-> TRUE, cwd |-> <<>>, on |-> session[job[k].obj]]]
  /\ channelSftp' = [channelSftp EXCEPT ![job[k].obj] = k]
  /\ Goto(k, "root")
  /\ UNCHANGED <<remote, session, connected, job, path, using, at, todo, got, alone>>

Field(k) == channelSftp[job[k].obj]
Usable(c) == c # NoCall /\ chan[c].open
Cwd(k) == chan[Field(k)].cwd
MoveTo(c, p) == chan' = [chan EXCEPT ![c].cwd = p]

\* cd(rootPath)
CdRoot(k) ==
  /\ pc[k] = "root"
  /\ Usable(Field(k))
  /\ MoveTo(Field(k), <<>>)
  /\ Goto(k, IF job[k].op = "query" THEN "query" ELSE "base")
  /\ UNCHANGED <<remote, fields, connected, job, path, using, at, todo, got, alone>>

\* Mutant: the session stays connected when the call throws.
DisconnectOnSuccess(k) ==
  /\ pc[k] \in {"close", "abort"}
  /\ connected' = IF pc[k] = "close" THEN connected \ {session[job[k].obj]} ELSE connected
  /\ chan' = [c \in Calls |->
       IF c = Field(k) \/ chan[c].on \notin connected' THEN NoChannel ELSE chan[c]]
  /\ Goto(k, IF pc[k] = "close" THEN "returned" ELSE "threw")
  /\ UNCHANGED <<remote, fields, job, path, using, at, todo, got, alone>>

\* Whatever the fields hold is closed; the channels of a session go with it.
Disconnect(k) ==
  /\ pc[k] \in {"close", "abort"}
  /\ connected' = connected \ {session[job[k].obj]}
  /\ chan' = [c \in Calls |->
       IF c = Field(k) \/ chan[c].on = session[job[k].obj] THEN NoChannel ELSE chan[c]]
  /\ Goto(k, IF pc[k] = "close" THEN "returned" ELSE "threw")
  /\ UNCHANGED <<remote, fields, job, path, using, at, todo, got, alone>>

(***************************************************************************)
(* store: a new directory, named after the second, takes the copy.         *)
(***************************************************************************)
CdBase(k) ==
  /\ pc[k] = "base" /\ job[k].op = "store"
  /\ Usable(Field(k))
  /\ path' = [path EXCEPT ![k] = Cwd(k) \o DestDir]
  /\ IsDir(path'[k])
  /\ MoveTo(Field(k), path'[k])
  /\ Goto(k, "folder")
  /\ UNCHANGED <<remote, fields, connected, job, using, at, todo, got, alone>>

\* Mutant: a directory that is there already is used.
MakeFolderAnyway(k, s) ==
  /\ pc[k] = "folder"
  /\ Usable(Field(k))
  /\ path' = [path EXCEPT ![k] = Append(path[k], s)]
  /\ remote' = With(Append(Cwd(k), s), Dir)
  /\ MoveTo(Field(k), Append(Cwd(k), s))
  /\ Goto(k, "top")
  /\ UNCHANGED <<fields, connected, job, using, at, todo, got, alone>>

\* mkdir refuses a name that is taken: two stores in one second, or in the hour
\* that the clock repeats.
MakeFolder(k, s) ==
  /\ pc[k] = "folder"
  /\ Usable(Field(k))
  /\ Append(Cwd(k), s) \notin DOMAIN remote
  /\ path' = [path EXCEPT ![k] = Append(path[k], s)]
  /\ remote' = With(Append(Cwd(k), s), Dir)
  /\ MoveTo(Field(k), Append(Cwd(k), s))
  /\ Goto(k, "top")
  /\ UNCHANGED <<fields, connected, job, using, at, todo, got, alone>>

\* A directory is made again on the server, and its entries go into it.
MakeTop(k) ==
  /\ pc[k] = "top"
  /\ Usable(Field(k))
  /\ LET t == job[k].tree
         top == Top(t)
     IN IF top = {}
          THEN /\ UNCHANGED <<remote, chan, at>>
               /\ todo' = [todo EXCEPT ![k] = Children(t, <<>>)]
          ELSE \E p \in top :
                 /\ Cwd(k) \o p \notin DOMAIN remote
                 /\ remote' = With(Cwd(k) \o p, Dir)
                 /\ MoveTo(Field(k), Cwd(k) \o p)
                 /\ at' = [at EXCEPT ![k] = p]
                 /\ todo' = [todo EXCEPT ![k] = Children(t, p)]
  /\ using' = [using EXCEPT ![k] = Field(k)]
  /\ Goto(k, "send")
  /\ UNCHANGED <<fields, connected, job, path, got, alone>>

Here(k) == {e \in todo[k] : Parent(e.path) = at[k]}
Take(k, e) == todo' = [todo EXCEPT ![k] = @ \ {e}]
There(k, e) == Append(chan[using[k]].cwd, Last(e.path))

SendFile(k, e) ==
  /\ pc[k] = "send"
  /\ Usable(using[k])
  /\ e \in Here(k) /\ ~e.dir
  /\ ~IsDir(There(k, e))
  /\ remote' = With(There(k, e), Content(k, e.path))
  /\ Take(k, e)
  /\ UNCHANGED <<fields, connected, chan, pc, job, path, using, at, got, alone>>

\* Mutant: the directory is not made.
SendDirectoryUnmade(k, e) ==
  /\ pc[k] = "send"
  /\ Usable(using[k])
  /\ e \in Here(k) /\ e.dir
  /\ MoveTo(using[k], There(k, e))
  /\ at' = [at EXCEPT ![k] = e.path]
  /\ todo' = [todo EXCEPT ![k] = (@ \ {e}) \cup Children(job[k].tree, e.path)]
  /\ UNCHANGED <<remote, fields, connected, pc, job, path, using, got, alone>>

\* Made if it is not there, entered, and its entries are next.
SendDirectory(k, e) ==
  /\ pc[k] = "send"
  /\ Usable(using[k])
  /\ e \in Here(k) /\ e.dir
  /\ There(k, e) \in DOMAIN remote => IsDir(There(k, e))
  /\ remote' = With(There(k, e), Dir)
  /\ MoveTo(using[k], There(k, e))
  /\ at' = [at EXCEPT ![k] = e.path]
  /\ todo' = [todo EXCEPT ![k] = (@ \ {e}) \cup Children(job[k].tree, e.path)]
  /\ UNCHANGED <<fields, connected, pc, job, path, using, got, alone>>

(***************************************************************************)
(* retrieve.                                                               *)
(***************************************************************************)
Listing(p) ==
  {[path |-> q, dir |-> IsDir(q)] : q \in {q \in DOMAIN remote \ {<<>>} : Parent(q) = p}}

\* A path that a store returned, to which pwd() is prefixed once more, leads to what
\* the store made there only if rootPath is "/".
Found(k) == IsPrefix(DestDir, job[k].path) => RootIsSlash

\* stat and the first getDir: in the directory itself, or in that of a file.
StatBase(k) ==
  /\ pc[k] = "base" /\ job[k].op = "retrieve"
  /\ Usable(Field(k))
  /\ path' = [path EXCEPT ![k] = Cwd(k) \o job[k].path]
  /\ Found(k) /\ path'[k] \in DOMAIN remote
  /\ using' = [using EXCEPT ![k] = Field(k)]
  /\ LET p == path'[k]
         dir == IF IsDir(p) THEN p ELSE Parent(p)
     IN /\ MoveTo(Field(k), dir)
        /\ at' = [at EXCEPT ![k] = dir]
        /\ todo' = [todo EXCEPT ![k] =
             IF IsDir(p) THEN Listing(p) ELSE {[path |-> p, dir |-> FALSE]}]
  /\ Goto(k, "get")
  /\ UNCHANGED <<remote, fields, connected, job, got, alone>>

GetFile(k, e) ==
  /\ pc[k] = "get"
  /\ Usable(using[k])
  /\ e \in Here(k) /\ ~e.dir
  /\ There(k, e) \in DOMAIN remote /\ ~IsDir(There(k, e))
  /\ got' = [got EXCEPT ![k] = @ \cup {<<e.path, remote[There(k, e)]>>}]
  /\ Take(k, e)
  /\ UNCHANGED <<remote, fields, connected, chan, pc, job, path, using, at, alone>>

\* The path of a subdirectory is made from the channel's current directory.
GetDirectory(k, e) ==
  /\ pc[k] = "get"
  /\ Usable(using[k])
  /\ e \in Here(k) /\ e.dir
  /\ IsDir(There(k, e))
  /\ MoveTo(using[k], There(k, e))
  /\ at' = [at EXCEPT ![k] = e.path]
  /\ todo' = [todo EXCEPT ![k] = (@ \ {e}) \cup
       {[f EXCEPT !.path = Append(e.path, Last(f.path))] : f \in Listing(There(k, e))}]
  /\ UNCHANGED <<remote, fields, connected, pc, job, path, using, got, alone>>

\* cd("..") when a directory is done, and the end of the recursion.
Root(t) == IF Top(t) = {} THEN <<>> ELSE CHOOSE p \in Top(t) : TRUE
Start(k) ==
  IF job[k].op = "store" THEN Root(job[k].tree)
  ELSE IF IsDir(path[k]) THEN path[k] ELSE Parent(path[k])

Leave(k) ==
  /\ pc[k] \in {"send", "get"}
  /\ Usable(using[k])
  /\ Here(k) = {} /\ at[k] # Start(k)
  /\ at' = [at EXCEPT ![k] = Parent(at[k])]
  /\ MoveTo(using[k], IF chan[using[k]].cwd = <<>> THEN <<>> ELSE Parent(chan[using[k]].cwd))
  /\ UNCHANGED <<remote, fields, connected, pc, job, path, using, todo, got, alone>>

\* The local variables of Utility's methods are gone.
Unwind(k) ==
  /\ using' = [using EXCEPT ![k] = NoCall]
  /\ at' = [at EXCEPT ![k] = <<>>]
  /\ todo' = [todo EXCEPT ![k] = {}]

Done(k) ==
  /\ pc[k] \in {"send", "get"}
  /\ Here(k) = {} /\ at[k] = Start(k)
  /\ Goto(k, "close")
  /\ Unwind(k)
  /\ UNCHANGED <<remote, fields, connected, chan, job, path, got, alone>>

\* list, exists, getSize, isDirectory, getUsableSpace: they read, and getSize
\* changes the current directory.  The first two do not throw, whatever happens.
Swallows(k) == job[k].op = "query" /\ ~job[k].throws

Query(k) ==
  /\ pc[k] = "query"
  /\ Usable(Field(k))
  /\ \E p \in {Cwd(k), DataDir} : MoveTo(Field(k), p)
  /\ Goto(k, "close")
  /\ UNCHANGED <<remote, fields, connected, job, path, using, at, todo, got, alone>>

\* Any command may fail, or find its channel closed; a put leaves part of a file.
Fail(k) ==
  /\ pc[k] \in {"connect", "channel", "root", "base", "folder", "top", "send", "get", "query"}
  /\ \/ UNCHANGED remote
     \/ /\ pc[k] = "send" /\ Usable(using[k])
        /\ \E e \in Here(k) : /\ ~e.dir /\ ~IsDir(There(k, e))
                              /\ remote' = With(There(k, e), Torn)
  /\ Goto(k, IF Swallows(k) THEN "close" ELSE "abort")
  /\ path' = [path EXCEPT ![k] = <<>>]
  /\ got' = [got EXCEPT ![k] = {}]
  /\ Unwind(k)
  /\ UNCHANGED <<fields, connected, chan, job, alone>>

\* All calls were made: the model stops here.
Finished ==
  /\ \A k \in Calls : pc[k] \in Ended
  /\ UNCHANGED vars

Step(k) ==
  \/ NewSession(k) \/ ConnectSession(k) \/ OpenChannel(k) \/ CdRoot(k) \/ Disconnect(k)
  \/ CdBase(k) \/ (\E s \in Stamps : MakeFolder(k, s)) \/ MakeTop(k) \/ StatBase(k)
  \/ (\E e \in todo[k] : SendFile(k, e) \/ SendDirectory(k, e) \/ GetFile(k, e)
                           \/ GetDirectory(k, e))
  \/ Leave(k) \/ Done(k) \/ Query(k) \/ Fail(k)

Next ==
  \/ \E k \in Calls :
       \/ \E j \in Stores \cup Retrieves(Known) \cup Queries : Begin(k, j)
       \/ Step(k)
  \/ Finished

Spec == Init /\ [][Next]_vars

-----------------------------------------------------------------------------
PCs == {"idle", "session", "connect", "channel", "root", "base", "folder", "top",
        "send", "get", "query", "close", "abort", "returned", "threw"}

Values == {Dir, Torn} \cup Contents

\* What is above something is a directory.
Server ==
  /\ DOMAIN remote \subseteq Paths /\ IsDir(<<>>) /\ IsDir(DataDir)
  /\ \A p \in DOMAIN remote : /\ remote[p] \in Values
                              /\ \A q \in Prefixes(p) \ {p} : IsDir(q)

\* The type of every variable.  Channels are in directories.
TypeOK ==
  /\ Server
  /\ session \in [Objects -> Calls \cup {NoCall}]
  /\ channelSftp \in [Objects -> Calls \cup {NoCall}]
  /\ connected \subseteq Calls
  /\ chan \in [Calls -> [open : BOOLEAN, cwd : Paths, on : Calls \cup {NoCall}]]
  /\ \A k \in Calls : IsDir(chan[k].cwd)
  /\ pc \in [Calls -> PCs]
  /\ job \in [Calls -> {NoJob} \cup Stores \cup Retrieves(Paths) \cup Queries]
  /\ path \in [Calls -> Paths] /\ at \in [Calls -> Paths]
  /\ using \in [Calls -> Calls \cup {NoCall}]
  /\ todo \in [Calls -> SUBSET [path : Paths \ {<<>>}, dir : BOOLEAN]]
  /\ got \in [Calls -> SUBSET (Paths \X Values)]
  /\ alone \in [Calls -> BOOLEAN]

\* As long as no two calls meet on one object, a store that returned has its tree,
\* and nothing else, in the directory whose path it returned, and keeps it there
\* whatever other stores do in the same second, half fail, or are made again; and a
\* retrieve that returned has every file below its path.
TreesWhole ==
  (\A k \in Calls : alone[k]) => \A k \in Calls : pc[k] = "returned" =>
    /\ job[k].op = "store" =>
         LET t == job[k].tree
         IN /\ Below(path[k]) = {path[k]} \cup {path[k] \o p : p \in Everything(t)}
            /\ \A p \in t.files : remote[path[k] \o p] = Content(k, p)
            /\ \A p \in t.dirs : IsDir(path[k] \o p)
    /\ job[k].op = "retrieve" =>
         got[k] = {<<p, remote[p]>> : p \in {p \in Below(job[k].path) : ~IsDir(p)}}

\* A call that met no other on its object leaves nothing connected, wherever it
\* failed: the channel in the field may be an earlier call's when it does.
Disconnected ==
  \A k \in Calls : (pc[k] \in Ended /\ alone[k]) => k \notin connected /\ ~chan[k].open

(***************************************************************************)
(* The inductive invariant behind Disconnected.                            *)
(***************************************************************************)
\* Calls that are under way on one object have met.
Met ==
  \A j, k \in Calls :
    (j # k /\ Running(j) /\ Running(k) /\ job[j].obj = job[k].obj) => ~alone[k]

\* The fields hold what some call has put there, on its own object.
Held ==
  \A o \in Objects :
    /\ session[o] # NoCall => pc[session[o]] # "idle" /\ job[session[o]].obj = o
    /\ channelSftp[o] # NoCall => pc[channelSftp[o]] # "idle" /\ job[channelSftp[o]].obj = o

\* A call that is under way has put its session there, and later its channel, and
\* whoever replaced it has met it.
Replaced ==
  \A k \in Calls : Running(k) =>
    LET s == session[job[k].obj]
    IN /\ pc[k] # "session" => s # NoCall /\ (s # k => ~alone[s] /\ ~alone[k])
       /\ pc[k] = "session" => k \notin connected /\ s # k
       /\ chan[k].open => pc[k] \notin {"session", "connect", "channel"}

\* An open channel is on its call's session, if the call is alone.
Channels ==
  \A k \in Calls : chan[k].open =>
    /\ pc[k] # "idle"
    /\ alone[k] => chan[k].on = k

Idle == \A k \in Calls : pc[k] = "idle" => k \notin connected /\ alone[k]

\* The types of what links calls, sessions and channels; cwd is another matter.
LinkType ==
  /\ session \in [Objects -> Calls \cup {NoCall}]
  /\ channelSftp \in [Objects -> Calls \cup {NoCall}]
  /\ connected \subseteq Calls
  /\ chan = [k \in Calls |-> [open |-> chan[k].open, cwd |-> chan[k].cwd, on |-> chan[k].on]]
  /\ \A k \in Calls : chan[k].open \in BOOLEAN
  /\ pc \in [Calls -> PCs]
  /\ job = [k \in Calls |-> job[k]]
  /\ \A k \in Calls : pc[k] # "idle" => job[k].obj \in Objects
  /\ using \in [Calls -> Calls \cup {NoCall}]
  /\ alone \in [Calls -> BOOLEAN]

Links == LinkType /\ Met /\ Held /\ Replaced /\ Channels /\ Idle /\ Disconnected

(***************************************************************************)
(* The inductive invariant behind TypeOK and TreesWhole.                   *)
(***************************************************************************)
\* What a call is for, by where it is.
Tasks ==
  \A k \in Calls :
    /\ pc[k] # "idle" => job[k] # NoJob
    /\ pc[k] \in {"folder", "top", "send"} => job[k] \in Stores
    /\ pc[k] = "get" => job[k] \in Retrieves(Paths)
    /\ pc[k] = "query" => job[k] \in Queries

\* A call that met no other works with its own channel.
Own ==
  \A k \in Calls : alone[k] =>
    /\ pc[k] \in {"root", "base", "folder", "top", "send", "get", "query"} => Field(k) = k
    /\ pc[k] \in {"send", "get"} => using[k] = k

\* Where its channel is.
Where(k) ==
  chan[k].open =>
    /\ pc[k] = "base" => chan[k].cwd = <<>>
    /\ pc[k] = "folder" => chan[k].cwd = DestDir
    /\ pc[k] = "top" => chan[k].cwd = path[k]
    /\ pc[k] = "send" => chan[k].cwd = path[k] \o at[k]
    /\ pc[k] = "get" => chan[k].cwd = at[k]

\* The recursion: what is to be copied yet is in the current directory, or in one
\* above it, but not above the one it started in, nor on the way.
Walks(k) ==
  /\ pc[k] \notin {"send", "get"} => at[k] = <<>> /\ todo[k] = {}
  /\ pc[k] \in {"send", "get"} =>
       /\ IsPrefix(Start(k), at[k])
       /\ \A e \in todo[k] : /\ IsPrefix(Start(k), Parent(e.path))
                             /\ IsPrefix(Parent(e.path), at[k])
                             /\ ~IsPrefix(e.path, at[k])
  /\ pc[k] = "send" => \A e \in todo[k] : /\ e.path \in Everything(job[k].tree)
                                          /\ e.dir = (e.path \in job[k].tree.dirs)
  /\ pc[k] = "get" => \A e \in todo[k] : e.path \in Below(path[k]) /\ e.dir = IsDir(e.path)

Left(k, p) == \E e \in todo[k] : IsPrefix(e.path, p)

\* The directory that a store has made, and what is in it.
HasFolder(k) == pc[k] \in {"top", "send", "close", "returned"} /\ job[k].op = "store"
Copied(k) == {p \in Everything(job[k].tree) : pc[k] # "top" /\ ~Left(k, p)}

Sent(k) ==
  /\ pc[k] = "folder" => path[k] = DestDir
  /\ HasFolder(k) =>
       /\ \E s \in Stamps : path[k] = Append(DestDir, s)
       /\ Below(path[k]) = {path[k]} \cup {path[k] \o p : p \in Copied(k)}
       /\ \A p \in Copied(k) :
            remote[path[k] \o p] = IF p \in job[k].tree.dirs THEN Dir ELSE Content(k, p)

Apart == \A j, k \in Calls : HasFolder(j) /\ HasFolder(k) /\ path[j] = path[k] => j = k

\* A retrieve is of what no store is writing to, and has all files but those to come.
Settled(p) ==
  \/ IsPrefix(DataDir, p)
  \/ \E j \in Calls : pc[j] = "returned" /\ HasFolder(j) /\ path[j] = p

Fetched(k) ==
  /\ pc[k] \notin {"get", "close", "returned"} => got[k] = {}
  /\ pc[k] = "get" => path[k] = job[k].path /\ path[k] \in DOMAIN remote
  /\ job[k].op = "retrieve" =>
       /\ Settled(job[k].path)
       /\ pc[k] \in {"get", "close", "returned"} =>
            got[k] = {<<p, remote[p]>> :
                        p \in {p \in Below(job[k].path) : ~IsDir(p) /\ ~Left(k, p)}}

Quiet == \A k \in Calls : alone[k]

Copies == Apart /\ \A k \in Calls : Where(k) /\ Walks(k) /\ Sent(k) /\ Fetched(k)

IInv == Links /\ TypeOK /\ Tasks /\ Own /\ (Quiet => Copies)
=============================================================================
