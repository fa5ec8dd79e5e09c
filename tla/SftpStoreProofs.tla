-------------------------- MODULE SftpStoreProofs --------------------------
(***************************************************************************)
(* SftpStore for any number of calls and objects, any trees and any        *)
(* failures: a call that met no other on its object leaves nothing         *)
(* connected, and as long as no two calls meet, every store that returns   *)
(* has its tree on the server and every retrieve all its files.            *)
(***************************************************************************)
EXTENDS SftpStore, SequenceTheorems, TLAPS

USE DEF Ended, Running, Goto, fields

-----------------------------------------------------------------------------
(***************************************************************************)
(* Paths.                                                                  *)
(***************************************************************************)
LEMMA PathIs ==
  ASSUME NEW p \in Paths
  PROVE  /\ p \in Seq(Names) /\ Len(p) \in Nat
         /\ \A i \in 1 .. Len(p) : p[i] \in Names
         /\ p # <<>> <=> Len(p) > 0
         /\ <<>> \in Paths /\ Len(<<>>) = 0
  BY LenProperties, ElementOfSeq, EmptySeq DEF Paths

LEMMA SamePath ==
  ASSUME NEW p \in Paths, NEW q \in Paths, Len(p) = Len(q), \A i \in 1 .. Len(p) : p[i] = q[i]
  PROVE  p = q
  BY SeqEqual DEF Paths

\* The first n names of a path.
LEMMA FirstOf ==
  ASSUME NEW p \in Paths, NEW n \in 0 .. Len(p)
  PROVE  /\ SubSeq(p, 1, n) \in Paths /\ Len(SubSeq(p, 1, n)) = n
         /\ \A i \in 1 .. n : SubSeq(p, 1, n)[i] = p[i]
<1>1. Len(p) \in Nat /\ \A i \in 1 .. Len(p) : p[i] \in Names
  BY PathIs
<1>2. \A i \in 1 .. n : p[i] \in Names
  BY <1>1
<1>3. 1 \in Int /\ n \in Int
  BY <1>1
<1>4. /\ SubSeq(p, 1, n) \in Seq(Names) /\ Len(SubSeq(p, 1, n)) = IF 1 <= n THEN n - 1 + 1 ELSE 0
      /\ \A i \in 1 .. n - 1 + 1 : SubSeq(p, 1, n)[i] = p[1 + i - 1]
  BY <1>2, <1>3, SubSeqProperties
<1>5. n - 1 + 1 = n /\ \A i \in 1 .. n : 1 + i - 1 = i
  BY <1>1
<1> QED BY <1>1, <1>4, <1>5 DEF Paths

\* A prefix, name by name.
LEMMA PrefixIs ==
  ASSUME NEW p \in Paths, NEW q \in Paths
  PROVE  IsPrefix(p, q) <=> Len(p) <= Len(q) /\ \A i \in 1 .. Len(p) : p[i] = q[i]
<1>1. Len(p) \in Nat /\ Len(q) \in Nat
  BY PathIs
<1>2. CASE Len(p) <= Len(q)
  <2>1. /\ SubSeq(q, 1, Len(p)) \in Paths /\ Len(SubSeq(q, 1, Len(p))) = Len(p)
        /\ \A i \in 1 .. Len(p) : SubSeq(q, 1, Len(p))[i] = q[i]
    BY <1>1, <1>2, FirstOf
  <2>2. SubSeq(p, 1, Len(p)) = p
    BY SubSeqFull DEF Paths
  <2>3. (\A i \in 1 .. Len(p) : p[i] = q[i]) => p = SubSeq(q, 1, Len(p))
    BY <2>1, SamePath
  <2> QED BY <1>2, <2>1, <2>2, <2>3 DEF IsPrefix
<1>3. CASE ~(Len(p) <= Len(q))
  BY <1>3 DEF IsPrefix
<1> QED BY <1>2, <1>3

LEMMA PrefixOrder ==
  /\ \A p \in Paths : IsPrefix(p, p) /\ IsPrefix(<<>>, p) /\ (IsPrefix(p, <<>>) => p = <<>>)
  /\ \A p, q \in Paths : IsPrefix(p, q) /\ IsPrefix(q, p) => p = q
  /\ \A p, q, r \in Paths : IsPrefix(p, q) /\ IsPrefix(q, r) => IsPrefix(p, r)
  /\ \A p, q, r \in Paths : IsPrefix(p, r) /\ IsPrefix(q, r) /\ Len(p) = Len(q) => p = q
<1>1. \A p \in Paths : IsPrefix(p, p) /\ IsPrefix(<<>>, p) /\ (IsPrefix(p, <<>>) => p = <<>>)
  BY PathIs, PrefixIs
<1>2. \A p, q \in Paths : IsPrefix(p, q) /\ IsPrefix(q, p) => p = q
  <2> SUFFICES ASSUME NEW p \in Paths, NEW q \in Paths, IsPrefix(p, q), IsPrefix(q, p)
               PROVE  p = q
    OBVIOUS
  <2>1. Len(p) = Len(q) /\ \A i \in 1 .. Len(p) : p[i] = q[i]
    BY PathIs, PrefixIs
  <2> QED BY <2>1, SamePath
<1>3. \A p, q, r \in Paths : IsPrefix(p, q) /\ IsPrefix(q, r) => IsPrefix(p, r)
  <2> SUFFICES ASSUME NEW p \in Paths, NEW q \in Paths, NEW r \in Paths,
                      IsPrefix(p, q), IsPrefix(q, r)
               PROVE  IsPrefix(p, r)
    OBVIOUS
  <2>1. /\ Len(p) <= Len(q) /\ \A i \in 1 .. Len(p) : p[i] = q[i]
        /\ Len(q) <= Len(r) /\ \A i \in 1 .. Len(q) : q[i] = r[i]
        /\ Len(p) \in Nat /\ Len(q) \in Nat /\ Len(r) \in Nat
    BY PathIs, PrefixIs
  <2>2. \A i \in 1 .. Len(p) : i \in 1 .. Len(q)
    BY <2>1
  <2>3. Len(p) <= Len(r) /\ \A i \in 1 .. Len(p) : p[i] = r[i]
    BY <2>1, <2>2
  <2> QED BY <2>3, PrefixIs
<1>4. \A p, q, r \in Paths : IsPrefix(p, r) /\ IsPrefix(q, r) /\ Len(p) = Len(q) => p = q
  <2> SUFFICES ASSUME NEW p \in Paths, NEW q \in Paths, NEW r \in Paths,
                      IsPrefix(p, r), IsPrefix(q, r), Len(p) = Len(q)
               PROVE  p = q
    OBVIOUS
  <2>1. \A i \in 1 .. Len(p) : p[i] = q[i]
    BY PrefixIs
  <2> QED BY <2>1, SamePath
<1> QED BY <1>1, <1>2, <1>3, <1>4

\* A path and the directory it is in.
LEMMA ParentOf ==
  ASSUME NEW p \in Paths, p # <<>>
  PROVE  /\ Parent(p) \in Paths /\ Len(Parent(p)) = Len(p) - 1 /\ Last(p) \in Names
         /\ Append(Parent(p), Last(p)) = p
         /\ IsPrefix(Parent(p), p) /\ Parent(p) # p
         /\ \A q \in Paths : IsPrefix(q, p) /\ q # p => IsPrefix(q, Parent(p))
<1>1. Len(p) \in Nat /\ Len(p) > 0 /\ \A i \in 1 .. Len(p) : p[i] \in Names
  BY PathIs
<1>2. /\ Parent(p) \in Paths /\ Len(Parent(p)) = Len(p) - 1
      /\ \A i \in 1 .. Len(p) - 1 : Parent(p)[i] = p[i]
  <2>1. Len(p) - 1 \in 0 .. Len(p)
    BY <1>1
  <2>2. Parent(p) = SubSeq(p, 1, Len(p) - 1)
    BY DEF Parent, Front
  <2>3. \A n \in 0 .. Len(p) :
          /\ SubSeq(p, 1, n) \in Paths /\ Len(SubSeq(p, 1, n)) = n
          /\ \A i \in 1 .. n : SubSeq(p, 1, n)[i] = p[i]
    BY FirstOf
  <2> QED BY <2>1, <2>2, <2>3
<1>3. Last(p) \in Names /\ Last(p) = p[Len(p)]
  BY <1>1 DEF Last
<1>4. Append(Parent(p), Last(p)) = p
  <2>1. /\ Append(Parent(p), Last(p)) \in Paths
        /\ Len(Append(Parent(p), Last(p))) = Len(p)
        /\ \A i \in 1 .. Len(p) - 1 : Append(Parent(p), Last(p))[i] = Parent(p)[i]
        /\ Append(Parent(p), Last(p))[Len(p)] = Last(p)
    BY <1>1, <1>2, <1>3, AppendProperties DEF Paths
  <2>2. \A i \in 1 .. Len(p) : i \in 1 .. Len(p) - 1 \/ i = Len(p)
    BY <1>1
  <2>3. \A i \in 1 .. Len(p) : Append(Parent(p), Last(p))[i] = p[i]
    BY <1>2, <1>3, <2>1, <2>2
  <2> QED BY <2>1, <2>3, SamePath
<1>5. IsPrefix(Parent(p), p) /\ Parent(p) # p
  <2>1. Len(Parent(p)) <= Len(p) /\ Len(Parent(p)) # Len(p)
    BY <1>1, <1>2
  <2> QED BY <1>2, <2>1, PrefixIs
<1>6. ASSUME NEW q \in Paths, IsPrefix(q, p), q # p PROVE IsPrefix(q, Parent(p))
  <2>1. Len(q) \in Nat /\ Len(q) <= Len(p) /\ \A i \in 1 .. Len(q) : q[i] = p[i]
    BY <1>6, PathIs, PrefixIs
  <2>2. Len(q) # Len(p)
    BY <1>6, <2>1, SamePath
  <2>3. Len(q) <= Len(p) - 1 /\ \A i \in 1 .. Len(q) : i \in 1 .. Len(p) - 1
    BY <1>1, <2>1, <2>2
  <2>4. \A i \in 1 .. Len(q) : q[i] = Parent(p)[i]
    BY <1>2, <2>1, <2>3
  <2> QED BY <1>2, <2>3, <2>4, PrefixIs
<1> QED BY <1>2, <1>3, <1>4, <1>5, <1>6

LEMMA ChildOf ==
  ASSUME NEW p \in Paths, NEW x \in Names
  PROVE  /\ Append(p, x) \in Paths /\ Append(p, x) # <<>> /\ Len(Append(p, x)) = Len(p) + 1
         /\ Parent(Append(p, x)) = p /\ Last(Append(p, x)) = x
         /\ IsPrefix(p, Append(p, x)) /\ ~IsPrefix(Append(p, x), p)
         /\ \A y \in Names : Append(p, x) = Append(p, y) => x = y
<1> DEFINE c == Append(p, x)
<1>1. /\ c \in Paths /\ c # <<>> /\ Len(c) = Len(p) + 1 /\ c[Len(p) + 1] = x /\ Len(p) \in Nat
      /\ \A i \in 1 .. Len(p) : c[i] = p[i]
  BY AppendProperties, PathIs DEF Paths
<1>2. Last(c) = x
  BY <1>1 DEF Last
<1>3. Parent(c) \in Paths /\ Append(Parent(c), Last(c)) = c /\ Last(c) \in Names
  BY <1>1, ParentOf
<1>4. Parent(c) = p
  <2>1. Append(Parent(c), x) = Append(p, x)
    BY <1>2, <1>3
  <2>2. Parent(c) \in Seq(Names) /\ p \in Seq(Names)
    BY <1>3 DEF Paths
  <2> HIDE DEF c
  <2> QED BY <2>1, <2>2, AppendInjective
<1>5. IsPrefix(p, c)
  <2> HIDE DEF c
  <2>1. Len(p) <= Len(c) /\ \A i \in 1 .. Len(p) : p[i] = c[i]
    BY <1>1
  <2> QED BY <1>1, <2>1, PrefixIs
<1>6. ~IsPrefix(c, p)
  <2> HIDE DEF c
  <2>1. ~(Len(c) <= Len(p))
    BY <1>1
  <2> QED BY <1>1, <2>1, PrefixIs
<1>7. \A y \in Names : Append(p, x) = Append(p, y) => x = y
  BY AppendInjective DEF Paths
<1> QED BY <1>1, <1>2, <1>4, <1>5, <1>6, <1>7

\* On the way from a directory to something below it.
LEMMA Towards ==
  ASSUME NEW p \in Paths, NEW q \in Paths, IsPrefix(p, q), p # q
  PROVE  \E c \in Paths : /\ c # <<>> /\ Parent(c) = p /\ IsPrefix(c, q)
                          /\ c \in Prefixes(q) /\ Len(c) = Len(p) + 1
<1>1. /\ Len(p) \in Nat /\ Len(q) \in Nat /\ Len(p) <= Len(q)
      /\ \A i \in 1 .. Len(p) : p[i] = q[i]
  BY PathIs, PrefixIs
<1>2. Len(p) # Len(q)
  BY <1>1, SamePath
<1> DEFINE c == SubSeq(q, 1, Len(p) + 1)
<1>3. /\ Len(p) + 1 \in 0 .. Len(q)
  BY <1>1, <1>2
<1>4. /\ c \in Paths /\ Len(c) = Len(p) + 1 /\ \A i \in 1 .. Len(p) + 1 : c[i] = q[i]
  BY <1>3, FirstOf
<1>5. c \in Prefixes(q)
  BY <1>3 DEF Prefixes
<1> HIDE DEF c
<1>6. IsPrefix(c, q)
  BY <1>1, <1>3, <1>4, PrefixIs
<1>7. c # <<>>
  BY <1>1, <1>4, PathIs
<1>8. IsPrefix(p, c) /\ p # c
  <2>1. \A i \in 1 .. Len(p) : i \in 1 .. Len(p) + 1
    BY <1>1
  <2>2. Len(p) <= Len(c) /\ Len(p) # Len(c) /\ \A i \in 1 .. Len(p) : p[i] = c[i]
    BY <1>1, <1>4, <2>1
  <2> QED BY <1>4, <2>2, PrefixIs
<1>9. Parent(c) = p
  <2>1. Parent(c) \in Paths /\ Len(Parent(c)) = Len(p) /\ IsPrefix(p, Parent(c))
    <3>1. Len(p) + 1 - 1 = Len(p)
      BY <1>1
    <3> QED BY <1>4, <1>7, <1>8, <3>1, ParentOf
  <2> QED BY <2>1, PrefixOrder
<1> QED BY <1>4, <1>5, <1>6, <1>7, <1>9

\* The prefixes of a path.
LEMMA PrefixesAre ==
  ASSUME NEW p \in Paths, NEW q
  PROVE  q \in Prefixes(p) <=> q \in Paths /\ IsPrefix(q, p)
<1>1. Len(p) \in Nat
  BY PathIs
<1>2. ASSUME q \in Prefixes(p) PROVE q \in Paths /\ IsPrefix(q, p)
  <2>1. PICK n \in 0 .. Len(p) : q = SubSeq(p, 1, n)
    BY <1>2 DEF Prefixes
  <2>2. q \in Paths /\ Len(q) = n /\ \A i \in 1 .. n : q[i] = p[i]
    BY <2>1, FirstOf
  <2>3. Len(q) <= Len(p)
    BY <1>1, <2>2
  <2> QED BY <2>2, <2>3, PrefixIs
<1>3. ASSUME q \in Paths, IsPrefix(q, p) PROVE q \in Prefixes(p)
  <2>1. Len(q) \in 0 .. Len(p)
    BY <1>1, <1>3, PathIs, PrefixIs
  <2>2. SubSeq(q, 1, Len(q)) = q
    BY <1>3, SubSeqFull DEF Paths
  <2>3. q = SubSeq(p, 1, Len(q))
    BY <1>3, <2>2 DEF IsPrefix
  <2> QED BY <2>1, <2>3 DEF Prefixes
<1> QED BY <1>2, <1>3

LEMMA AppendWithin ==
  ASSUME NEW p \in Paths, NEW q \in Paths, NEW x \in Names
  PROVE  p \o q \in Paths /\ Append(p \o q, x) = p \o Append(q, x)
<1>1. p \o q \in Paths
  BY ConcatProperties DEF Paths
<1>2. Append(q, x) \in Paths /\ <<x>> \in Seq(Names)
  BY ChildOf
<1>3. Append(q, x) = q \o <<x>> /\ Append(p \o q, x) = (p \o q) \o <<x>>
  BY <1>1, AppendIsConcat DEF Paths
<1>4. (p \o q) \o <<x>> = p \o (q \o <<x>>)
  BY <1>2, ConcatAssociative DEF Paths
<1> QED BY <1>1, <1>3, <1>4

LEMMA SameWithin ==
  ASSUME NEW p \in Paths, NEW q \in Paths, NEW r \in Paths, p \o q = p \o r
  PROVE  q = r
BY ConcatSimplifications DEF Paths

\* What is in a directory, by its path in there.
LEMMA Within ==
  ASSUME NEW p \in Paths, NEW q \in Paths
  PROVE  /\ p \o q \in Paths /\ IsPrefix(p, p \o q) /\ Len(p \o q) = Len(p) + Len(q)
         /\ p \o <<>> = p /\ <<>> \o p = p
         /\ \A x \in Names : Append(p \o q, x) = p \o Append(q, x)
         /\ \A r \in Paths : p \o q = p \o r => q = r
         /\ p \o q = p => q = <<>>
<1>1. /\ p \o q \in Paths /\ Len(p \o q) = Len(p) + Len(q) /\ Len(p) \in Nat /\ Len(q) \in Nat
      /\ \A i \in 1 .. Len(p) + Len(q) : (p \o q)[i] = IF i <= Len(p) THEN p[i] ELSE q[i - Len(p)]
  BY ConcatProperties, PathIs DEF Paths
<1>2. IsPrefix(p, p \o q)
  <2>1. Len(p) <= Len(p \o q) /\ \A i \in 1 .. Len(p) : i \in 1 .. Len(p) + Len(q) /\ i <= Len(p)
    BY <1>1
  <2> QED BY <1>1, <2>1, PrefixIs
<1>3. p \o <<>> = p /\ <<>> \o p = p
  BY ConcatEmptySeq DEF Paths
<1>4. \A x \in Names : Append(p \o q, x) = p \o Append(q, x)
  BY AppendWithin
<1>5. \A r \in Paths : p \o q = p \o r => q = r
  BY SameWithin
<1>6. p \o q = p => q = <<>>
  BY ConcatSimplifications DEF Paths
<1> QED BY <1>1, <1>2, <1>3, <1>4, <1>5, <1>6

-----------------------------------------------------------------------------

LEMMA InitLinks == Init => Links
<1> SUFFICES ASSUME Init PROVE Links
  OBVIOUS
<1>1. LinkType
  <2>1. {session, channelSftp} \subseteq [Objects -> Calls \cup {NoCall}]
    BY DEF Init
  <2>2. chan = [k \in Calls |-> [open |-> chan[k].open, cwd |-> chan[k].cwd, on |-> chan[k].on]]
    BY DEF Init, NoChannel
  <2>3. /\ \A k \in Calls : chan[k].open \in BOOLEAN
        /\ job = [k \in Calls |-> job[k]]
    BY DEF Init, NoChannel
  <2>4. /\ pc \in [Calls -> PCs] /\ using \in [Calls -> Calls \cup {NoCall}]
        /\ alone \in [Calls -> BOOLEAN] /\ connected \subseteq Calls
        /\ \A k \in Calls : pc[k] = "idle"
    BY DEF Init, PCs
  <2> QED BY <2>1, <2>2, <2>3, <2>4 DEF LinkType
<1> QED BY <1>1 DEF Init, Links, Met, Held, Replaced, Channels, Idle, Disconnected, NoChannel

\* Who is in the fields.
LEMMA InFields ==
  ASSUME LinkType, Held, NEW o \in Objects
  PROVE  /\ session[o] # NoCall =>
              session[o] \in Calls /\ pc[session[o]] # "idle" /\ job[session[o]].obj = o
         /\ channelSftp[o] # NoCall =>
              channelSftp[o] \in Calls /\ pc[channelSftp[o]] # "idle"
                /\ job[channelSftp[o]].obj = o
<1>1. {session, channelSftp} \subseteq [Objects -> Calls \cup {NoCall}]
  BY DEF LinkType
<1> QED BY <1>1 DEF Held

\* A change of directory leaves every channel open, or closed, on its session.
LEMMA MoveKeeps ==
  ASSUME LinkType, NEW c \in Calls, NEW p, MoveTo(c, p)
  PROVE  /\ chan' = [k \in Calls |-> [open |-> chan'[k].open, cwd |-> chan'[k].cwd,
                                      on |-> chan'[k].on]]
         /\ \A k \in Calls : chan'[k].open = chan[k].open /\ chan'[k].on = chan[k].on
<1>1. chan[c] = [open |-> chan[c].open, cwd |-> chan[c].cwd, on |-> chan[c].on]
  BY DEF LinkType
<1>2. chan' = [k \in Calls |-> IF k = c THEN [chan[c] EXCEPT !.cwd = p] ELSE chan[k]]
  BY DEF MoveTo, LinkType
<1>3. [chan[c] EXCEPT !.cwd = p] = [open |-> chan[c].open, cwd |-> p, on |-> chan[c].on]
  BY <1>1
<1>4. \A k \in Calls \ {c} :
        chan[k] = [open |-> chan[k].open, cwd |-> chan[k].cwd, on |-> chan[k].on]
  BY DEF LinkType
<1> QED BY <1>2, <1>3, <1>4

\* The commands between Connect and Disconnect: they work on the server, and move
\* channels.
Works(k) ==
  /\ pc[k] \notin {"idle", "session", "returned", "threw"}
  /\ UNCHANGED <<session, channelSftp, connected, job, alone>>
  /\ \/ chan' = chan
     \/ \E c \in Calls : \E p : MoveTo(c, p)
  /\ \E l \in PCs \ {"idle", "session", "connect", "channel", "returned", "threw"} :
       pc' = [pc EXCEPT ![k] = l]
  /\ using' \in [Calls -> Calls \cup {NoCall}]

LEMMA WorksKeep ==
  ASSUME Links, NEW k \in Calls, Works(k)
  PROVE  Links'
<1> USE DEF Links
<1>1. /\ chan' = [j \in Calls |-> [open |-> chan'[j].open, cwd |-> chan'[j].cwd,
                                   on |-> chan'[j].on]]
      /\ \A j \in Calls : chan'[j].open = chan[j].open /\ chan'[j].on = chan[j].on
  BY MoveKeeps DEF Works, LinkType
<1>2. /\ pc' \in [Calls -> PCs]
      /\ pc'[k] \notin {"idle", "session", "connect", "channel", "returned", "threw"}
      /\ pc[k] \notin {"idle", "session", "returned", "threw"}
      /\ \A j \in Calls \ {k} : pc'[j] = pc[j]
      /\ UNCHANGED <<session, channelSftp, connected, job, alone>>
  BY DEF Works, LinkType
<1>3. LinkType'
  <2>1. using' \in [Calls -> Calls \cup {NoCall}]
    BY DEF Works
  <2>2. \A j \in Calls : chan'[j].open \in BOOLEAN
    BY <1>1 DEF LinkType
  <2> QED BY <1>1, <1>2, <2>1, <2>2 DEF LinkType
<1>4. Met' /\ Held'
  <2>1. Met'
    BY <1>2 DEF Met
  <2>2. \A j \in Calls : pc[j] # "idle" => pc'[j] # "idle"
    BY <1>2
  <2>3. Held'
    BY <1>2, <2>2, InFields DEF Held
  <2> QED BY <2>1, <2>3
<1>5. Replaced'
  BY <1>1, <1>2 DEF Replaced
<1>6. Channels' /\ Idle' /\ Disconnected'
  BY <1>1, <1>2 DEF Channels, Idle, Disconnected
<1> QED BY <1>3, <1>4, <1>5, <1>6

-----------------------------------------------------------------------------
LEMMA BeginKeeps ==
  ASSUME SftpAssumption, Links, NEW k \in Calls,
         NEW j \in Stores \cup Retrieves(Known) \cup Queries, Begin(k, j)
  PROVE  Links'
<1> USE DEF Links
<1>1. j.obj \in Objects
  BY DEF Stores, Retrieves, Queries
<1>2. /\ pc[k] = "idle" /\ pc'[k] = "session" /\ job'[k] = j
      /\ \A i \in Calls \ {k} : pc'[i] = pc[i] /\ job'[i] = job[i]
      /\ \A i \in Calls \ {k} :
           alone'[i] = (alone[i] /\ ~(Running(i) /\ job[i].obj = j.obj))
      /\ alone'[k] = (\A i \in Calls \ {k} : ~(Running(i) /\ job[i].obj = j.obj))
      /\ UNCHANGED <<session, channelSftp, connected, chan, using>>
  BY DEF Begin, LinkType
<1>3. LinkType'
  <2>1. pc' \in [Calls -> PCs] /\ alone' \in [Calls -> BOOLEAN]
    BY DEF Begin, LinkType, PCs
  <2>2. job' = [i \in Calls |-> job'[i]]
    BY DEF Begin, LinkType
  <2>3. \A i \in Calls : pc'[i] # "idle" => job'[i].obj \in Objects
    BY <1>1, <1>2 DEF LinkType
  <2> QED BY <2>1, <2>2, <2>3, <1>2 DEF LinkType
<1>4. Met'
  <2> SUFFICES ASSUME NEW i \in Calls, NEW l \in Calls, i # l, Running(i)', Running(l)',
                      job'[i].obj = job'[l].obj
               PROVE  ~alone'[l]
    BY DEF Met
  <2>1. CASE i # k /\ l # k
    BY <2>1, <1>2 DEF Met
  <2>2. CASE i = k
    BY <2>2, <1>2
  <2>3. CASE l = k
    BY <2>3, <1>2
  <2> QED BY <2>1, <2>2, <2>3
<1>5. \A o \in Objects : /\ session[o] # NoCall => session[o] \in Calls \ {k}
                         /\ channelSftp[o] # NoCall => channelSftp[o] \in Calls \ {k}
  BY <1>2, InFields
<1>6. Held'
  BY <1>2, <1>5 DEF Held
<1>7. Replaced'
  <2> SUFFICES ASSUME NEW i \in Calls, Running(i)'
               PROVE  LET s == session[job'[i].obj]
                      IN /\ pc'[i] # "session" => s # NoCall /\ (s # i => ~alone'[s] /\ ~alone'[i])
                         /\ pc'[i] = "session" => i \notin connected /\ s # i
                         /\ chan[i].open => pc'[i] \notin {"session", "connect", "channel"}
    BY <1>2 DEF Replaced
  <2>1. CASE i = k
    BY <2>1, <1>1, <1>2, <1>5, SftpAssumption DEF Idle, Channels
  <2>2. CASE i # k
    <3>1. /\ pc'[i] = pc[i] /\ job'[i] = job[i] /\ job[i].obj \in Objects
          /\ alone'[i] => alone[i]
      BY <2>2, <1>2 DEF LinkType
    <3>2. \A l \in Calls \ {k} : alone'[l] => alone[l]
      BY <1>2
    <3> QED BY <2>2, <3>1, <3>2, <1>5 DEF Replaced
  <2> QED BY <2>1, <2>2
<1>8. Channels' /\ Idle' /\ Disconnected'
  BY <1>2 DEF Channels, Idle, Disconnected, LinkType
<1> QED BY <1>3, <1>4, <1>6, <1>7, <1>8

LEMMA NewSessionKeeps ==
  ASSUME SftpAssumption, Links, NEW k \in Calls, NewSession(k)
  PROVE  Links'
<1> USE DEF Links
<1>1. /\ pc[k] = "session" /\ pc'[k] = "connect" /\ job[k].obj \in Objects
      /\ \A i \in Calls \ {k} : pc'[i] = pc[i]
      /\ session'[job[k].obj] = k
      /\ \A o \in Objects \ {job[k].obj} : session'[o] = session[o]
      /\ UNCHANGED <<channelSftp, connected, chan, job, using, alone>>
  BY DEF NewSession, LinkType
<1>2. LinkType'
  BY <1>1 DEF NewSession, LinkType, PCs
<1>3. Met'
  BY <1>1 DEF Met
<1>4. Held'
  <2>1. \A o \in Objects : channelSftp[o] # NoCall =>
          pc'[channelSftp[o]] # "idle" /\ job[channelSftp[o]].obj = o
    BY <1>1, InFields
  <2>2. \A o \in Objects : session'[o] # NoCall =>
          pc'[session'[o]] # "idle" /\ job[session'[o]].obj = o
    BY <1>1, InFields
  <2> QED BY <2>1, <2>2, <1>1 DEF Held
<1>5. Replaced'
  <2> SUFFICES ASSUME NEW i \in Calls, Running(i)'
               PROVE  LET s == session'[job[i].obj]
                      IN /\ pc'[i] # "session" => s # NoCall /\ (s # i => ~alone[s] /\ ~alone[i])
                         /\ pc'[i] = "session" => i \notin connected /\ s # i
                         /\ chan[i].open => pc'[i] \notin {"session", "connect", "channel"}
    BY <1>1 DEF Replaced
  <2>1. CASE i = k
    BY <2>1, <1>1, SftpAssumption DEF Replaced
  <2>2. CASE i # k /\ job[i].obj = job[k].obj
    <3>1. ~alone[i] /\ ~alone[k]
      BY <2>2, <1>1 DEF Met
    <3> QED BY <2>2, <3>1, <1>1, SftpAssumption DEF Replaced
  <2>3. CASE i # k /\ job[i].obj # job[k].obj
    <3>1. session'[job[i].obj] = session[job[i].obj]
      BY <2>3, <1>1 DEF LinkType
    <3> QED BY <2>3, <3>1, <1>1 DEF Replaced
  <2> QED BY <2>1, <2>2, <2>3
<1>6. Channels' /\ Idle' /\ Disconnected'
  BY <1>1 DEF Channels, Idle, Disconnected
<1> QED BY <1>2, <1>3, <1>4, <1>5, <1>6

LEMMA ConnectKeeps ==
  ASSUME Links, NEW k \in Calls, ConnectSession(k)
  PROVE  Links'
<1> USE DEF Links
<1> DEFINE s == session[job[k].obj]
<1>1. /\ pc[k] = "connect" /\ pc'[k] = "channel" /\ job[k].obj \in Objects
      /\ \A i \in Calls \ {k} : pc'[i] = pc[i]
      /\ connected' = connected \cup {s}
      /\ UNCHANGED <<session, channelSftp, chan, job, using, alone>>
  BY DEF ConnectSession, LinkType
<1>2. /\ s \in Calls /\ pc[s] # "idle" /\ job[s].obj = job[k].obj
      /\ s # k => ~alone[s]
  BY <1>1, InFields DEF Replaced
<1> HIDE DEF s
<1>3. LinkType'
  BY <1>1, <1>2 DEF ConnectSession, LinkType, PCs
<1>4. Met'
  BY <1>1 DEF Met
<1>5. Held'
  BY <1>1, InFields DEF Held
<1>6. Replaced'
  <2>1. \A i \in Calls : pc[i] = "session" => i # s
    BY <1>2 DEF Replaced, s
  <2> QED BY <1>1, <2>1 DEF Replaced
<1>7. Channels' /\ Idle' /\ Disconnected'
  BY <1>1, <1>2 DEF Channels, Idle, Disconnected
<1> QED BY <1>3, <1>4, <1>5, <1>6, <1>7

LEMMA OpenKeeps ==
  ASSUME Links, NEW k \in Calls, OpenChannel(k)
  PROVE  Links'
<1> USE DEF Links
<1> DEFINE s == session[job[k].obj]
<1>1. /\ pc[k] = "channel" /\ pc'[k] = "root" /\ job[k].obj \in Objects
      /\ \A i \in Calls \ {k} : pc'[i] = pc[i] /\ chan'[i] = chan[i]
      /\ chan'[k] = [open |-> TRUE, cwd |-> <<>>, on |-> s]
      /\ channelSftp'[job[k].obj] = k
      /\ \A o \in Objects \ {job[k].obj} : channelSftp'[o] = channelSftp[o]
      /\ UNCHANGED <<session, connected, job, using, alone>>
  BY DEF OpenChannel, LinkType
<1>2. s # k => ~alone[k]
  BY <1>1 DEF Replaced
<1>3. LinkType'
  <2>1. chan' = [i \in Calls |-> [open |-> chan'[i].open, cwd |-> chan'[i].cwd, on |-> chan'[i].on]]
    <3>1. \A i \in Calls \ {k} :
            chan[i] = [open |-> chan[i].open, cwd |-> chan[i].cwd, on |-> chan[i].on]
      BY DEF LinkType
    <3>2. chan' = [i \in Calls |-> IF i = k THEN [open |-> TRUE, cwd |-> <<>>, on |-> s]
                                  ELSE chan[i]]
      BY DEF OpenChannel, LinkType
    <3> HIDE DEF s
    <3> QED BY <3>1, <3>2
  <2>2. channelSftp' \in [Objects -> Calls \cup {NoCall}] /\ pc' \in [Calls -> PCs]
    BY DEF OpenChannel, LinkType, PCs
  <2>3. \A i \in Calls : chan'[i].open \in BOOLEAN
    <3>1. chan'[k].open = TRUE
      BY <1>1
    <3> QED BY <3>1, <1>1 DEF LinkType
  <2>4. \A i \in Calls : pc'[i] # "idle" => job'[i].obj \in Objects
    BY <1>1 DEF LinkType
  <2> QED BY <2>1, <2>2, <2>3, <2>4, <1>1 DEF LinkType
<1>4. Met'
  BY <1>1 DEF Met
<1>5. Held'
  <2>1. \A o \in Objects : session[o] # NoCall =>
          pc'[session[o]] # "idle" /\ job[session[o]].obj = o
    BY <1>1, InFields
  <2>2. \A o \in Objects : channelSftp'[o] # NoCall =>
          pc'[channelSftp'[o]] # "idle" /\ job[channelSftp'[o]].obj = o
    BY <1>1, InFields
  <2> QED BY <2>1, <2>2, <1>1 DEF Held
<1>6. Replaced'
  BY <1>1 DEF Replaced
<1>7. Channels'
  BY <1>1, <1>2 DEF Channels
<1>8. Idle' /\ Disconnected'
  BY <1>1 DEF Idle, Disconnected
<1> QED BY <1>3, <1>4, <1>5, <1>6, <1>7, <1>8

LEMMA DisconnectKeeps ==
  ASSUME Links, NEW k \in Calls, Disconnect(k)
  PROVE  Links'
<1> USE DEF Links
<1> DEFINE s == session[job[k].obj]
<1>1. /\ pc[k] \in {"close", "abort"} /\ pc'[k] \in Ended /\ job[k].obj \in Objects
      /\ \A i \in Calls \ {k} : pc'[i] = pc[i]
      /\ connected' = connected \ {s}
      /\ \A i \in Calls :
           /\ chan'[i] = NoChannel \/ chan'[i] = chan[i]
           /\ chan[i].on = s => chan'[i] = NoChannel
      /\ UNCHANGED <<session, channelSftp, job, using, alone>>
  BY DEF Disconnect, LinkType
<1>2. alone[k] => s = k
  BY <1>1 DEF Replaced
<1>3. NoChannel.open = FALSE
  BY DEF NoChannel
<1>4. LinkType'
  <2>1. chan' = [i \in Calls |-> [open |-> chan'[i].open, cwd |-> chan'[i].cwd, on |-> chan'[i].on]]
    <3>1. \A i \in Calls :
            chan[i] = [open |-> chan[i].open, cwd |-> chan[i].cwd, on |-> chan[i].on]
      BY DEF LinkType
    <3>2. NoChannel = [open |-> NoChannel.open, cwd |-> NoChannel.cwd, on |-> NoChannel.on]
      BY DEF NoChannel
    <3>3. chan' = [i \in Calls |-> chan'[i]]
      BY DEF Disconnect
    <3>4. \A i \in Calls :
            chan'[i] = [open |-> chan'[i].open, cwd |-> chan'[i].cwd, on |-> chan'[i].on]
      BY <3>1, <3>2, <1>1
    <3> QED BY <3>3, <3>4
  <2>2. pc' \in [Calls -> PCs]
    BY DEF Disconnect, LinkType, PCs
  <2>3. \A i \in Calls : chan'[i].open \in BOOLEAN
    BY <1>1, <1>3 DEF LinkType
  <2>4. connected' \subseteq Calls
    BY <1>1 DEF LinkType
  <2>5. \A i \in Calls : pc'[i] # "idle" => job'[i].obj \in Objects
    BY <1>1 DEF LinkType
  <2> QED BY <2>1, <2>2, <2>3, <2>4, <2>5, <1>1 DEF LinkType
<1> HIDE DEF s
<1>5. Met'
  BY <1>1 DEF Met
<1>6. Held'
  BY <1>1, InFields DEF Held
<1>7. Replaced'
  BY <1>1, <1>3 DEF Replaced
<1>8. Channels' /\ Idle'
  BY <1>1, <1>3 DEF Channels, Idle
<1>9. Disconnected'
  BY <1>1, <1>2, <1>3 DEF Channels, Disconnected
<1> QED BY <1>4, <1>5, <1>6, <1>7, <1>8, <1>9

\* All the other steps are of the kind Works.
LEMMA StepWorks ==
  ASSUME SftpAssumption, Links, NEW k \in Calls, Step(k),
         ~(NewSession(k) \/ ConnectSession(k) \/ OpenChannel(k) \/ Disconnect(k))
  PROVE  Works(k)
<1> USE DEF Links
<1>1. Field(k) \in Calls \cup {NoCall} \/ pc[k] = "idle"
  BY DEF LinkType, Field
<1>2. using[k] \in Calls \cup {NoCall}
  BY DEF LinkType
<1>3. \A c : Usable(c) => c # NoCall
  BY DEF Usable
<1>4. CASE CdRoot(k)
  BY <1>4, <1>1, <1>3 DEF CdRoot, Works, PCs, LinkType
<1>5. CASE CdBase(k) \/ Query(k)
  BY <1>5, <1>1, <1>3 DEF CdBase, Query, Works, PCs, LinkType
<1>6. ASSUME NEW x \in Stamps, MakeFolder(k, x)
      PROVE  Works(k)
  BY <1>6, <1>1, <1>3 DEF MakeFolder, Works, PCs, LinkType
<1>7. CASE MakeTop(k)
  BY <1>7, <1>1, <1>3 DEF MakeTop, Works, PCs, LinkType
<1>8. CASE StatBase(k)
  BY <1>8, <1>1, <1>3 DEF StatBase, Works, PCs, LinkType
<1>9. ASSUME NEW e \in todo[k],
             SendFile(k, e) \/ SendDirectory(k, e) \/ GetFile(k, e) \/ GetDirectory(k, e)
      PROVE  Works(k)
  BY <1>9, <1>2, <1>3 DEF SendFile, SendDirectory, GetFile, GetDirectory, Works, PCs, LinkType
<1>10. CASE Leave(k)
  BY <1>10, <1>2, <1>3 DEF Leave, Works, PCs, LinkType
<1>11. CASE Done(k) \/ Fail(k)
  BY <1>11 DEF Done, Fail, Unwind, Works, PCs, LinkType
<1> QED BY <1>4, <1>5, <1>6, <1>7, <1>8, <1>9, <1>10, <1>11 DEF Step

LEMMA LinksStep ==
  ASSUME Links, [Next]_vars
  PROVE  Links'
<1>1. CASE UNCHANGED vars
  BY <1>1 DEF vars, Links, LinkType, Met, Held, Replaced, Channels, Idle, Disconnected
<1>2. ASSUME NEW k \in Calls, Step(k)
      PROVE  Links'
  BY <1>2, SftpAssumption, NewSessionKeeps, ConnectKeeps, OpenKeeps, DisconnectKeeps,
     StepWorks, WorksKeep
<1> QED BY <1>1, <1>2, SftpAssumption, BeginKeeps DEF Next, Finished

-----------------------------------------------------------------------------
(***************************************************************************)
(* Types.                                                                  *)
(***************************************************************************)
\* What is inside a directory has a prefix that is on the way to it, or inside it.
LEMMA PrefixWithin ==
  ASSUME NEW p \in Paths, NEW q \in Paths, NEW r \in Paths, IsPrefix(r, p \o q)
  PROVE  IsPrefix(r, p) \/ \E s \in Paths : r = p \o s /\ IsPrefix(s, q)
<1>1. /\ p \o q \in Paths /\ Len(p \o q) = Len(p) + Len(q)
      /\ \A i \in 1 .. Len(p) + Len(q) : (p \o q)[i] = IF i <= Len(p) THEN p[i] ELSE q[i - Len(p)]
      /\ Len(p) \in Nat /\ Len(q) \in Nat /\ Len(r) \in Nat
  BY ConcatProperties, PathIs DEF Paths
<1>2. Len(r) <= Len(p) + Len(q) /\ \A i \in 1 .. Len(r) : r[i] = (p \o q)[i]
  BY <1>1, PrefixIs
<1>3. CASE Len(r) <= Len(p)
  <2>1. \A i \in 1 .. Len(r) : i \in 1 .. Len(p) + Len(q) /\ i <= Len(p)
    BY <1>1, <1>3
  <2>2. \A i \in 1 .. Len(r) : r[i] = p[i]
    BY <1>1, <1>2, <2>1
  <2> QED BY <1>3, <2>2, PrefixIs
<1>4. CASE Len(r) > Len(p)
  <2> DEFINE n == Len(r) - Len(p)
             s == SubSeq(q, 1, n)
  <2>1. n \in 0 .. Len(q)
    BY <1>1, <1>2, <1>4
  <2>2. s \in Paths /\ Len(s) = n /\ \A i \in 1 .. n : s[i] = q[i]
    BY <2>1, FirstOf
  <2> HIDE DEF s
  <2>3. IsPrefix(s, q)
    <3>1. Len(s) <= Len(q) /\ \A i \in 1 .. Len(s) : s[i] = q[i]
      BY <1>1, <2>1, <2>2
    <3> QED BY <2>2, <3>1, PrefixIs
  <2>4. /\ p \o s \in Paths /\ Len(p \o s) = Len(p) + Len(s)
        /\ \A i \in 1 .. Len(p) + Len(s) : (p \o s)[i] = IF i <= Len(p) THEN p[i] ELSE s[i - Len(p)]
    BY <2>2, ConcatProperties DEF Paths
  <2>5. Len(p \o s) = Len(r)
    BY <1>1, <2>2, <2>4
  <2>6. \A i \in 1 .. Len(r) : (p \o s)[i] = r[i]
    <3> SUFFICES ASSUME NEW i \in 1 .. Len(r) PROVE (p \o s)[i] = r[i]
      OBVIOUS
    <3>1. i \in 1 .. Len(p) + Len(s) /\ i \in 1 .. Len(p) + Len(q)
      BY <1>1, <1>2, <2>2
    <3>2. (p \o s)[i] = IF i <= Len(p) THEN p[i] ELSE s[i - Len(p)]
      BY <2>4, <3>1
    <3>3. r[i] = IF i <= Len(p) THEN p[i] ELSE q[i - Len(p)]
      BY <1>1, <1>2, <3>1
    <3>4. ~(i <= Len(p)) => i - Len(p) \in 1 .. n
      BY <1>1, <3>1
    <3> QED BY <2>2, <3>2, <3>3, <3>4
  <2>7. r = p \o s
    BY <2>4, <2>5, <2>6, SamePath
  <2> QED
    <3>1. s \in Paths /\ r = p \o s /\ IsPrefix(s, q)
      BY <2>2, <2>3, <2>7
    <3> QED BY <3>1
<1>5. Len(r) <= Len(p) \/ Len(r) > Len(p)
  BY <1>1
<1> QED BY <1>3, <1>4, <1>5

\* The directories of the server, and the names of trees.
LEMMA Named ==
  /\ "dest" \in Names /\ "data" \in Names /\ Stamps \subseteq Names
  /\ DestDir \in Paths /\ DataDir \in Paths /\ <<>> \in Paths
  /\ Len(DestDir) = 1 /\ Len(DataDir) = 1 /\ DestDir # <<>> /\ DataDir # <<>>
  /\ Parent(DestDir) = <<>> /\ Parent(DataDir) = <<>>
  /\ ~IsPrefix(DataDir, DestDir)
<1>1. "dest" \in Names /\ "data" \in Names /\ Stamps \subseteq Names
  BY DEF Names
<1>2. /\ DestDir \in Paths /\ DataDir \in Paths /\ <<>> \in Paths
      /\ Len(DestDir) = 1 /\ Len(DataDir) = 1 /\ DestDir # <<>> /\ DataDir # <<>>
      /\ DestDir[1] = "dest" /\ DataDir[1] = "data"
  BY <1>1, EmptySeq DEF DestDir, DataDir, Paths
<1>3. ~IsPrefix(DataDir, DestDir)
  <2>1. 1 \in 1 .. Len(DataDir) /\ DataDir[1] # DestDir[1]
    BY <1>2
  <2> QED BY <1>2, <2>1, PrefixIs
<1>4. \A p \in Paths : Len(p) = 1 => Parent(p) = <<>>
  <2> SUFFICES ASSUME NEW p \in Paths, Len(p) = 1 PROVE Parent(p) = <<>>
    OBVIOUS
  <2>1. p # <<>> /\ 1 - 1 = 0
    BY PathIs
  <2>2. Parent(p) \in Paths /\ Len(Parent(p)) = 0
    BY <2>1, ParentOf
  <2> QED BY <2>2, PathIs
<1> QED BY <1>1, <1>2, <1>3, <1>4

LEMMA InTrees ==
  ASSUME NEW t \in Trees \cup {Data}, NEW p \in Everything(t)
  PROVE  p \in Paths /\ p # <<>> /\ (p \in t.dirs => p \notin t.files)
         /\ \A q \in Paths : IsPrefix(q, p) /\ q # <<>> /\ q # p => q \in t.dirs
<1>1. p \in Paths \ {<<>>} /\ \A q \in Prefixes(p) \ {<<>>, p} : q \in t.dirs
  BY SftpAssumption
<1>2. t.dirs \cap t.files = {}
  BY SftpAssumption
<1> QED BY <1>1, <1>2, PrefixesAre

LEMMA ChildrenType ==
  ASSUME NEW t \in Trees, NEW p
  PROVE  Children(t, p) \subseteq [path : Paths \ {<<>>}, dir : BOOLEAN]
<1>1. \A q \in Everything(t) : q \in Paths \ {<<>>} /\ (q \in t.dirs) \in BOOLEAN
  BY InTrees
<1>2. \A q \in Everything(t) :
        [path |-> q, dir |-> q \in t.dirs] \in [path : Paths \ {<<>>}, dir : BOOLEAN]
  BY <1>1
<1> QED BY <1>2 DEF Children

LEMMA ServerIs ==
  ASSUME Server, NEW p \in DOMAIN remote
  PROVE  /\ p \in Paths /\ remote[p] \in Values /\ <<>> \in DOMAIN remote
         /\ \A q \in Paths : IsPrefix(q, p) /\ q # p => q \in DOMAIN remote /\ IsDir(q)
         /\ p # <<>> => IsDir(Parent(p)) /\ Parent(p) \in Paths
<1>1. p \in Paths /\ remote[p] \in Values /\ <<>> \in DOMAIN remote
  BY DEF Server, IsDir
<1>2. \A q \in Paths : IsPrefix(q, p) /\ q # p => IsDir(q)
  BY <1>1, PrefixesAre DEF Server
<1> QED BY <1>1, <1>2, ParentOf DEF IsDir

\* Something is put on the server: what was a directory stays one.
Grown ==
  /\ Server'
  /\ \A p \in DOMAIN remote : p \in DOMAIN remote'
  /\ \A p : IsDir(p) => IsDir(p)'

LEMMA Grows ==
  ASSUME Server, NEW d, IsDir(d), NEW n \in Names, NEW v \in Values,
         IsDir(Append(d, n)) => v = Dir, remote' = With(Append(d, n), v)
  PROVE  Grown /\ Append(d, n) \in Paths
<1> DEFINE c == Append(d, n)
<1>1. d \in DOMAIN remote /\ d \in Paths
  BY ServerIs DEF IsDir
<1>2. c \in Paths /\ c # <<>> /\ Parent(c) = d
  BY <1>1, ChildOf
<1>3. /\ DOMAIN remote' = DOMAIN remote \cup {c}
      /\ \A q \in DOMAIN remote : q # c => remote'[q] = remote[q]
      /\ remote'[c] = v
  BY DEF With
<1> HIDE DEF c
<1>4. IsDir(c) => v = Dir
  BY DEF c
<1>5. \A p : IsDir(p) => IsDir(p)'
  BY <1>3, <1>4 DEF IsDir
<1>6. ASSUME NEW p \in DOMAIN remote'
      PROVE  remote'[p] \in Values /\ \A q \in Prefixes(p) \ {p} : IsDir(q)'
  <2>1. CASE p \in DOMAIN remote
    <3>1. remote[p] \in Values /\ \A q \in Prefixes(p) \ {p} : IsDir(q)
      BY <2>1 DEF Server
    <3> QED BY <1>3, <1>5, <3>1
  <2>2. CASE p = c
    <3>1. \A q \in Prefixes(c) \ {c} : q \in Paths /\ IsPrefix(q, d)
      BY <1>2, PrefixesAre, ParentOf
    <3>2. \A q \in Paths : IsPrefix(q, d) => IsDir(q)
      BY <1>1, ServerIs
    <3> QED BY <1>3, <1>5, <2>2, <3>1, <3>2
  <2> QED BY <1>3, <2>1, <2>2
<1>7. Server'
  <2>1. DOMAIN remote' \subseteq Paths
    BY <1>2, <1>3 DEF Server
  <2>2. IsDir(<<>>)' /\ IsDir(DataDir)'
    BY <1>5 DEF Server
  <2> QED BY <1>6, <2>1, <2>2 DEF Server
<1> QED BY <1>2, <1>3, <1>5, <1>7 DEF Grown, c

LEMMA NotGrown ==
  ASSUME Server, remote' = remote
  PROVE  Grown
  BY DEF Grown, Server, IsDir

\* A call and what it is for.
LEMMA JobIs ==
  ASSUME TypeOK, NEW k \in Calls
  PROVE  /\ job[k] = NoJob \/ job[k].obj \in Objects
         /\ job[k] \in Stores <=> job[k].op = "store"
         /\ job[k] \in Stores => job[k].tree \in Trees
         /\ job[k] \in Retrieves(Paths) <=> job[k].op = "retrieve"
         /\ job[k] \in Retrieves(Paths) => job[k].path \in Paths
         /\ job[k] = NoJob <=> job[k].op = "none"
         /\ job[k] \in Queries <=> job[k].op = "query"
<1>1. job[k] \in {NoJob} \cup Stores \cup Retrieves(Paths) \cup Queries
  BY DEF TypeOK
<1>2. NoJob.op = "none"
  BY DEF NoJob
<1>3. \A j \in Stores : j.op = "store" /\ j.tree \in Trees /\ j.obj \in Objects
  BY DEF Stores
<1>4. \A j \in Retrieves(Paths) : j.op = "retrieve" /\ j.path \in Paths /\ j.obj \in Objects
  BY DEF Retrieves
<1>5. \A j \in Queries : j.op = "query" /\ j.obj \in Objects
  BY DEF Queries
<1> QED BY <1>1, <1>2, <1>3, <1>4, <1>5

LEMMA KnownPaths ==
  ASSUME TypeOK
  PROVE  Known \subseteq Paths
<1>1. \A q \in Wanted : DataDir \o q \in Paths
  <2>1. \A q \in Everything(Data) : q \in Paths
    BY InTrees
  <2>2. \A q \in Wanted : q \in Paths
    BY <2>1, SftpAssumption
  <2> QED BY <2>2, Named, Within
<1>2. \A k \in Calls : path[k] \in Paths
  BY DEF TypeOK
<1> QED BY <1>1, <1>2 DEF Known

Entries == [path : Paths \ {<<>>}, dir : BOOLEAN]

LEMMA ListingType ==
  ASSUME Server, NEW p
  PROVE  /\ Listing(p) \subseteq Entries
         /\ \A f \in Listing(p) : Parent(f.path) = p /\ f.path \in DOMAIN remote
                                  /\ Last(f.path) \in Names /\ f.dir = IsDir(f.path)
<1>1. \A q \in DOMAIN remote \ {<<>>} : q \in Paths \ {<<>>} /\ IsDir(q) \in BOOLEAN
  BY ServerIs DEF IsDir
<1>2. \A q \in DOMAIN remote \ {<<>>} : [path |-> q, dir |-> IsDir(q)] \in Entries
  BY <1>1 DEF Entries
<1>3. ASSUME NEW f \in Listing(p)
      PROVE  f \in Entries /\ Parent(f.path) = p /\ f.path \in DOMAIN remote
             /\ Last(f.path) \in Names /\ f.dir = IsDir(f.path)
  <2>1. PICK q \in DOMAIN remote \ {<<>>} : Parent(q) = p /\ f = [path |-> q, dir |-> IsDir(q)]
    BY <1>3 DEF Listing
  <2>2. f.path = q /\ f.dir = IsDir(q)
    BY <2>1
  <2>3. Last(q) \in Names
    BY <1>1, ParentOf
  <2> QED BY <1>2, <2>1, <2>2, <2>3
<1> QED BY <1>3

\* The two halves of TypeOK that a step changes: channels, and a call's variables.
ChanType ==
  /\ chan \in [Calls -> [open : BOOLEAN, cwd : Paths, on : Calls \cup {NoCall}]]
  /\ \A k \in Calls : IsDir(chan[k].cwd)

LEMMA MoveTypes ==
  ASSUME ChanType, Grown, NEW c \in Calls, NEW p \in Paths, IsDir(p)', MoveTo(c, p)
  PROVE  ChanType'
<1>1. chan' \in [Calls -> [open : BOOLEAN, cwd : Paths, on : Calls \cup {NoCall}]]
  BY DEF ChanType, MoveTo
<1>2. chan'[c].cwd = p /\ \A k \in Calls \ {c} : chan'[k] = chan[k]
  BY DEF ChanType, MoveTo
<1>3. \A q : IsDir(q) => IsDir(q)'
  BY DEF Grown
<1>4. \A k \in Calls : IsDir(chan[k].cwd)'
  BY <1>2, <1>3 DEF ChanType, IsDir
<1> QED BY <1>1, <1>4 DEF ChanType

LEMMA StaysTyped ==
  ASSUME ChanType, Grown, chan' = chan
  PROVE  ChanType'
  BY DEF ChanType, Grown

CallType ==
  /\ path \in [Calls -> Paths] /\ at \in [Calls -> Paths]
  /\ using \in [Calls -> Calls \cup {NoCall}]
  /\ todo \in [Calls -> SUBSET Entries]
  /\ got \in [Calls -> SUBSET (Paths \X Values)]

LEMMA Typed ==
  TypeOK => /\ Server /\ ChanType /\ CallType
            /\ session \in [Objects -> Calls \cup {NoCall}]
            /\ channelSftp \in [Objects -> Calls \cup {NoCall}]
            /\ connected \subseteq Calls
            /\ pc \in [Calls -> PCs]
            /\ job \in [Calls -> {NoJob} \cup Stores \cup Retrieves(Paths) \cup Queries]
            /\ alone \in [Calls -> BOOLEAN]
  BY DEF TypeOK, ChanType, CallType, Entries

\* A step of a call that keeps the types of the pieces keeps TypeOK.
LEMMA PiecesKeep ==
  ASSUME TypeOK, Tasks, NEW k \in Calls, NEW l \in PCs, pc[k] # "idle",
         Grown, ChanType', CallType',
         session' \in [Objects -> Calls \cup {NoCall}],
         channelSftp' \in [Objects -> Calls \cup {NoCall}],
         connected' \subseteq Calls,
         pc' = [pc EXCEPT ![k] = l], job' = job, alone' = alone,
         l \in {"folder", "top", "send"} => job[k] \in Stores,
         l = "get" => job[k] \in Retrieves(Paths),
         l = "query" => job[k] \in Queries
  PROVE  TypeOK' /\ Tasks'
<1>1. pc' \in [Calls -> PCs] /\ pc'[k] = l /\ \A i \in Calls \ {k} : pc'[i] = pc[i]
  BY Typed
<1>2. TypeOK'
  BY <1>1, Typed DEF TypeOK, ChanType, CallType, Entries, Grown
<1>3. Tasks'
  BY <1>1 DEF Tasks
<1> QED BY <1>2, <1>3

\* A usable channel, and the directory it is in.
LEMMA UsableIs ==
  ASSUME TypeOK, NEW c \in Calls \cup {NoCall}, Usable(c)
  PROVE  /\ c \in Calls /\ chan[c].cwd \in Paths /\ IsDir(chan[c].cwd)
         /\ chan[c].cwd \in DOMAIN remote
  BY DEF TypeOK, Usable, IsDir

LEMMA FieldIs ==
  ASSUME TypeOK, NEW k \in Calls, job[k] # NoJob
  PROVE  Field(k) \in Calls \cup {NoCall} /\ job[k].obj \in Objects
  BY JobIs, Typed DEF Field

\* A name in a directory.
LEMMA OneName ==
  ASSUME NEW c \in Paths, NEW p \in Paths, Len(p) = 1
  PROVE  Last(p) \in Names /\ c \o p = Append(c, Last(p)) /\ Parent(p) = <<>> /\ p # <<>>
<1>1. p # <<>>
  <2>1. p # <<>> <=> Len(p) > 0
    BY PathIs
  <2> QED BY <2>1
<1>2. /\ Parent(p) \in Paths /\ Len(Parent(p)) = 0
      /\ Last(p) \in Names /\ Append(Parent(p), Last(p)) = p
  <2>1. 1 - 1 = 0
    OBVIOUS
  <2> QED BY <1>1, <2>1, ParentOf
<1>3. Parent(p) = <<>> /\ <<>> \in Paths
  BY <1>2, PathIs
<1>4. Append(<<>>, Last(p)) = p
  BY <1>2, <1>3
<1>5. Append(c \o <<>>, Last(p)) = c \o Append(<<>>, Last(p)) /\ c \o <<>> = c
  BY <1>2, <1>3, Within
<1> QED BY <1>1, <1>2, <1>3, <1>4, <1>5

LEMMA ParentIn ==
  ASSUME NEW p \in Paths
  PROVE  Parent(p) \in Paths /\ (p = <<>> => Parent(p) = <<>>)
<1>1. Parent(<<>>) = <<>>
  <2>1. Parent(<<>>) = SubSeq(<<>>, 1, 0 - 1)
    BY DEF Parent, Front
  <2> QED BY <2>1
<1> QED BY <1>1, ParentOf, PathIs

\* What the copy of a tree looks at on the server.
LEMMA ThereIs ==
  ASSUME TypeOK, NEW k \in Calls, Usable(using[k]), NEW e \in todo[k]
  PROVE  /\ using[k] \in Calls /\ e \in Entries /\ e.path \in Paths /\ e.path # <<>>
         /\ Last(e.path) \in Names /\ IsDir(chan[using[k]].cwd)
         /\ chan[using[k]].cwd \in Paths /\ There(k, e) \in Paths
         /\ There(k, e) = Append(chan[using[k]].cwd, Last(e.path))
<1>1. /\ using[k] \in Calls /\ chan[using[k]].cwd \in Paths /\ IsDir(chan[using[k]].cwd)
  BY UsableIs, Typed DEF CallType
<1>2. e \in Entries /\ e.path \in Paths /\ e.path # <<>>
  BY Typed DEF CallType, Entries
<1>3. Last(e.path) \in Names
  BY <1>2, ParentOf
<1> QED BY <1>1, <1>2, <1>3, ChildOf DEF There

LEMMA ConnectTypes ==
  ASSUME TypeOK, Tasks, Links, NEW k \in Calls,
         NewSession(k) \/ ConnectSession(k) \/ OpenChannel(k) \/ CdRoot(k) \/ Disconnect(k)
  PROVE  TypeOK' /\ Tasks'
<1>1. pc[k] # "idle" /\ job[k] # NoJob /\ job[k].obj \in Objects /\ remote' = remote
      /\ job' = job /\ alone' = alone
  BY JobIs DEF NewSession, ConnectSession, OpenChannel, CdRoot, Disconnect, Tasks
<1>2. Grown /\ CallType'
  BY <1>1, NotGrown, Typed DEF NewSession, ConnectSession, OpenChannel, CdRoot, Disconnect, CallType
<1>3. IsDir(<<>>) /\ IsDir(<<>>)' /\ <<>> \in Paths
  <2>1. IsDir(<<>>) /\ \A p : IsDir(p) => IsDir(p)'
    BY <1>2, Typed DEF Server, Grown
  <2> QED BY <2>1, Named
<1>4. session[job[k].obj] \in Calls \cup {NoCall}
  BY <1>1, Typed
<1>5. CASE NewSession(k)
  <2>1. ChanType' /\ session' \in [Objects -> Calls \cup {NoCall}]
    BY <1>2, <1>5, StaysTyped, Typed DEF NewSession
  <2>2. "connect" \in PCs /\ pc' = [pc EXCEPT ![k] = "connect"]
    BY <1>5 DEF NewSession, PCs
  <2> QED BY <1>1, <1>2, <1>5, <2>1, <2>2, Typed, PiecesKeep DEF NewSession
<1>6. CASE ConnectSession(k)
  <2>1. ChanType'
    BY <1>2, <1>6, StaysTyped, Typed DEF ConnectSession
  <2>2. "channel" \in PCs /\ pc' = [pc EXCEPT ![k] = "channel"]
    BY <1>6 DEF ConnectSession, PCs
  <2>3. session[job[k].obj] \in Calls
    BY <1>1, <1>6, InFields DEF Links, Replaced, ConnectSession
  <2> QED BY <1>1, <1>2, <1>6, <2>1, <2>2, <2>3, Typed, PiecesKeep DEF ConnectSession
<1>7. CASE OpenChannel(k)
  <2>1. ChanType'
    <3>1. [open |-> TRUE, cwd |-> <<>>, on |-> session[job[k].obj]]
            \in [open : BOOLEAN, cwd : Paths, on : Calls \cup {NoCall}]
      BY <1>3, <1>4
    <3>2. chan' \in [Calls -> [open : BOOLEAN, cwd : Paths, on : Calls \cup {NoCall}]]
      BY <1>7, <3>1, Typed DEF OpenChannel, ChanType
    <3>3. chan'[k].cwd = <<>> /\ \A i \in Calls \ {k} : chan'[i] = chan[i]
      BY <1>7, Typed DEF OpenChannel, ChanType
    <3>4. \A i \in Calls : IsDir(chan[i].cwd)
      BY Typed DEF ChanType
    <3>5. \A i \in Calls : IsDir(chan[i].cwd)'
      BY <1>1, <1>3, <3>3, <3>4 DEF IsDir
    <3> QED BY <3>2, <3>5 DEF ChanType
  <2>2. "root" \in PCs /\ pc' = [pc EXCEPT ![k] = "root"]
    BY <1>7 DEF OpenChannel, PCs
  <2>3. channelSftp' \in [Objects -> Calls \cup {NoCall}]
    BY <1>7, Typed DEF OpenChannel
  <2> QED BY <1>1, <1>2, <1>7, <2>1, <2>2, <2>3, Typed, PiecesKeep DEF OpenChannel
<1>8. CASE CdRoot(k)
  <2>1. Field(k) \in Calls
    BY <1>1, <1>8, FieldIs, UsableIs DEF CdRoot
  <2>2. ChanType'
    BY <1>2, <1>3, <1>8, <2>1, MoveTypes, Typed DEF CdRoot
  <2>3. PICK l \in {"query", "base"} :
          pc' = [pc EXCEPT ![k] = l] /\ (l = "query" => job[k].op = "query")
    BY <1>8 DEF CdRoot
  <2>4. l \in PCs /\ (l = "query" => job[k] \in Queries)
    BY <2>3, JobIs DEF PCs
  <2> QED BY <1>1, <1>2, <1>8, <2>2, <2>3, <2>4, Typed, PiecesKeep DEF CdRoot
<1>9. CASE Disconnect(k)
  <2>1. /\ NoChannel \in [open : BOOLEAN, cwd : Paths, on : Calls \cup {NoCall}]
        /\ NoChannel.cwd = <<>>
    BY <1>3 DEF NoChannel
  <2>2. ChanType'
    <3>1. chan' = [c \in Calls |-> IF c = Field(k) \/ chan[c].on = session[job[k].obj]
                                     THEN NoChannel ELSE chan[c]]
      BY <1>9 DEF Disconnect
    <3>2. \A c \in Calls : chan[c] \in [open : BOOLEAN, cwd : Paths, on : Calls \cup {NoCall}]
      BY Typed DEF ChanType
    <3>3. chan' \in [Calls -> [open : BOOLEAN, cwd : Paths, on : Calls \cup {NoCall}]]
      BY <2>1, <3>1, <3>2
    <3>4. \A i \in Calls : chan'[i] = NoChannel \/ chan'[i] = chan[i]
      BY <3>1
    <3>5. \A i \in Calls : IsDir(chan[i].cwd)
      BY Typed DEF ChanType
    <3>6. \A i \in Calls : chan'[i].cwd = <<>> \/ chan'[i].cwd = chan[i].cwd
      BY <2>1, <3>4
    <3>7. \A i \in Calls : IsDir(chan[i].cwd)'
      BY <1>1, <1>3, <3>5, <3>6 DEF IsDir
    <3> QED BY <3>3, <3>7 DEF ChanType
  <2>3. PICK l \in {"returned", "threw"} : pc' = [pc EXCEPT ![k] = l]
    BY <1>9 DEF Disconnect
  <2>4. l \in PCs
    BY DEF PCs
  <2>5. connected' \subseteq Calls
    BY <1>9, Typed DEF Disconnect
  <2> QED BY <1>1, <1>2, <1>9, <2>2, <2>3, <2>4, <2>5, Typed, PiecesKeep DEF Disconnect
<1> QED BY <1>5, <1>6, <1>7, <1>8, <1>9

LEMMA StoreTypes ==
  ASSUME TypeOK, Tasks, Links, NEW k \in Calls,
         CdBase(k) \/ (\E s \in Stamps : MakeFolder(k, s)) \/ MakeTop(k)
  PROVE  TypeOK' /\ Tasks'
<1>1. /\ pc[k] # "idle" /\ job[k] # NoJob /\ job[k].obj \in Objects /\ job[k] \in Stores
      /\ job[k].tree \in Trees
      /\ UNCHANGED <<session, channelSftp, connected, job, alone, got>>
  BY JobIs DEF CdBase, MakeFolder, MakeTop, Tasks
<1>2. Field(k) \in Calls /\ Cwd(k) \in Paths /\ IsDir(Cwd(k))
  BY <1>1, FieldIs, UsableIs DEF CdBase, MakeFolder, MakeTop, Cwd
<1>3. CASE CdBase(k)
  <2>1. Grown
    BY <1>3, NotGrown, Typed DEF CdBase
  <2>2. PICK d \in Paths : d = Cwd(k) \o DestDir
    BY <1>2, Named, Within
  <2>3. path' = [path EXCEPT ![k] = d] /\ path'[k] = d /\ IsDir(d)' /\ MoveTo(Field(k), d)
    BY <1>3, <2>2, Typed DEF CdBase, CallType, IsDir
  <2>4. ChanType'
    BY <1>2, <2>1, <2>2, <2>3, MoveTypes, Typed
  <2>5. CallType'
    BY <1>3, <2>3, Typed DEF CdBase, CallType
  <2>6. "folder" \in PCs
    BY DEF PCs
  <2> QED BY <1>1, <1>3, <2>1, <2>4, <2>5, <2>6, Typed, PiecesKeep DEF CdBase
<1>4. ASSUME NEW s \in Stamps, MakeFolder(k, s)
      PROVE  TypeOK' /\ Tasks'
  <2>1. s \in Names /\ Dir \in Values
    BY Named DEF Values
  <2>2. remote' = With(Append(Cwd(k), s), Dir)
    BY <1>4 DEF MakeFolder
  <2>3. Grown /\ Append(Cwd(k), s) \in Paths
    BY <1>2, <2>1, <2>2, Grows, Typed
  <2>4. PICK d \in Paths : d = Append(Cwd(k), s)
    BY <2>3
  <2>5. ChanType'
    <3>1. IsDir(d)'
      BY <2>2, <2>4 DEF With, IsDir
    <3>2. MoveTo(Field(k), d)
      BY <1>4, <2>4 DEF MakeFolder
    <3> QED BY <1>2, <2>3, <3>1, <3>2, MoveTypes, Typed
  <2>6. CallType'
    <3>1. Append(path[k], s) \in Paths
      BY <2>1, ChildOf, Typed DEF CallType
    <3> QED BY <1>4, <3>1, Typed DEF MakeFolder, CallType
  <2>7. "top" \in PCs
    BY DEF PCs
  <2> QED BY <1>1, <1>4, <2>3, <2>5, <2>6, <2>7, Typed, PiecesKeep DEF MakeFolder
<1>5. CASE MakeTop(k)
  <2> DEFINE t == job[k].tree
  <2>1. t \in Trees
    BY <1>1
  <2>2. \A p : Children(t, p) \subseteq Entries
    BY <2>1, ChildrenType DEF Entries
  <2>3. Grown /\ ChanType' /\ at' \in [Calls -> Paths] /\ todo' \in [Calls -> SUBSET Entries]
    <3>1. CASE Top(t) = {}
      <4>1. Grown
        BY <1>5, <3>1, NotGrown, Typed DEF MakeTop
      <4> HIDE DEF t
      <4> QED BY <1>5, <2>2, <3>1, <4>1, StaysTyped, Typed DEF MakeTop, CallType, t
    <3>2. CASE Top(t) # {}
      <4>1. PICK p \in Top(t) :
              /\ remote' = With(Cwd(k) \o p, Dir)
              /\ MoveTo(Field(k), Cwd(k) \o p)
              /\ at' = [at EXCEPT ![k] = p]
              /\ todo' = [todo EXCEPT ![k] = Children(t, p)]
        BY <1>5, <3>2 DEF MakeTop
      <4>2. p \in Everything(t) /\ Len(p) = 1
        BY DEF Top, Everything
      <4>3. p \in Paths
        BY <2>1, <4>2, InTrees
      <4>4. Last(p) \in Names /\ Cwd(k) \o p = Append(Cwd(k), Last(p))
        BY <1>2, <4>2, <4>3, OneName
      <4>5. Dir \in Values
        BY DEF Values
      <4>6. Grown /\ Cwd(k) \o p \in Paths
        BY <1>2, <4>1, <4>4, <4>5, Grows, Typed
      <4>7. PICK d \in Paths : d = Cwd(k) \o p
        BY <4>6
      <4>8. ChanType'
        <5>1. IsDir(d)' /\ MoveTo(Field(k), d)
          BY <4>1, <4>7 DEF With, IsDir
        <5> QED BY <1>2, <4>6, <5>1, MoveTypes, Typed
      <4> HIDE DEF t
      <4> QED BY <2>2, <4>1, <4>3, <4>6, <4>8, Typed DEF CallType
    <3> QED BY <3>1, <3>2
  <2>4. CallType'
    BY <1>2, <1>5, <2>3, Typed DEF MakeTop, CallType
  <2>5. "send" \in PCs
    BY DEF PCs
  <2> QED BY <1>1, <1>5, <2>3, <2>4, <2>5, Typed, PiecesKeep DEF MakeTop
<1> QED BY <1>3, <1>4, <1>5

LEMMA SendTypes ==
  ASSUME TypeOK, Tasks, NEW k \in Calls, NEW e \in todo[k], SendFile(k, e) \/ SendDirectory(k, e)
  PROVE  TypeOK' /\ Tasks'
<1>1. /\ pc[k] = "send" /\ "send" \in PCs /\ pc' = [pc EXCEPT ![k] = "send"]
      /\ job[k] \in Stores /\ job[k].tree \in Trees /\ Usable(using[k])
      /\ UNCHANGED <<session, channelSftp, connected, job, alone, got, path, using>>
  <2>1. pc[k] = "send" /\ pc' = pc
    BY DEF SendFile, SendDirectory
  <2>2. pc' = [pc EXCEPT ![k] = "send"] /\ "send" \in PCs
    BY <2>1, Typed DEF PCs
  <2>3. job[k] \in Stores /\ job[k].tree \in Trees
    BY <2>1, JobIs DEF Tasks
  <2> QED BY <2>1, <2>2, <2>3 DEF SendFile, SendDirectory
<1>2. PICK d \in Paths : d = There(k, e)
  BY <1>1, ThereIs
<1>3. /\ using[k] \in Calls /\ e.path \in Paths /\ Last(e.path) \in Names
      /\ IsDir(chan[using[k]].cwd) /\ d = Append(chan[using[k]].cwd, Last(e.path))
  BY <1>1, <1>2, ThereIs
<1>4. CASE SendFile(k, e)
  <2>1. Content(k, e.path) \in Values
    BY <1>3 DEF Content, Values, Contents
  <2>2. ~IsDir(d) /\ remote' = With(d, Content(k, e.path))
    BY <1>2, <1>4 DEF SendFile
  <2>3. Grown
    BY <1>3, <2>1, <2>2, Grows, Typed
  <2>4. ChanType' /\ CallType'
    BY <1>4, <2>3, StaysTyped, Typed DEF SendFile, Take, CallType
  <2> QED BY <1>1, <2>3, <2>4, Typed, PiecesKeep
<1>5. CASE SendDirectory(k, e)
  <2>1. Dir \in Values
    BY DEF Values
  <2>2. remote' = With(d, Dir) /\ MoveTo(using[k], d)
    BY <1>2, <1>5 DEF SendDirectory
  <2>3. Grown
    BY <1>3, <2>1, <2>2, Grows, Typed
  <2>4. IsDir(d)'
    BY <2>2 DEF With, IsDir
  <2>5. ChanType'
    BY <1>3, <2>2, <2>3, <2>4, MoveTypes, Typed
  <2>6. CallType'
    <3>1. Children(job[k].tree, e.path) \subseteq Entries
      BY <1>1, ChildrenType DEF Entries
    <3> QED BY <1>1, <1>3, <1>5, <3>1, Typed DEF SendDirectory, CallType
  <2> QED BY <1>1, <2>3, <2>5, <2>6, Typed, PiecesKeep
<1> QED BY <1>4, <1>5

LEMMA GetTypes ==
  ASSUME TypeOK, Tasks, NEW k \in Calls, NEW e \in todo[k], GetFile(k, e) \/ GetDirectory(k, e)
  PROVE  TypeOK' /\ Tasks'
<1>1. /\ pc[k] = "get" /\ "get" \in PCs /\ pc' = [pc EXCEPT ![k] = "get"]
      /\ job[k] \in Retrieves(Paths) /\ Usable(using[k]) /\ remote' = remote
      /\ UNCHANGED <<session, channelSftp, connected, job, alone, path, using>>
  <2>1. pc[k] = "get" /\ pc' = pc
    BY DEF GetFile, GetDirectory
  <2>2. pc' = [pc EXCEPT ![k] = "get"] /\ "get" \in PCs
    BY <2>1, Typed DEF PCs
  <2>3. job[k] \in Retrieves(Paths)
    BY <2>1 DEF Tasks
  <2> QED BY <2>1, <2>2, <2>3 DEF GetFile, GetDirectory
<1>2. PICK d \in Paths : d = There(k, e)
  BY <1>1, ThereIs
<1>3. using[k] \in Calls /\ e.path \in Paths
  BY <1>1, ThereIs
<1>4. Grown
  BY <1>1, NotGrown, Typed
<1>5. CASE GetFile(k, e)
  <2>1. remote[d] \in Values
    BY <1>2, <1>5, ServerIs, Typed DEF GetFile
  <2>2. got' = [got EXCEPT ![k] = @ \cup {<<e.path, remote[d]>>}] /\ UNCHANGED <<chan, at>>
    BY <1>2, <1>5 DEF GetFile
  <2>3. todo' = [todo EXCEPT ![k] = @ \ {e}]
    BY <1>5 DEF GetFile, Take
  <2>4. ChanType' /\ CallType'
    BY <1>1, <1>3, <1>4, <2>1, <2>2, <2>3, StaysTyped, Typed DEF CallType
  <2> QED BY <1>1, <1>4, <2>4, Typed, PiecesKeep
<1>6. CASE GetDirectory(k, e)
  <2>1. IsDir(d)' /\ MoveTo(using[k], d)
    BY <1>2, <1>6 DEF GetDirectory, IsDir
  <2>2. ChanType'
    BY <1>3, <1>4, <2>1, MoveTypes, Typed
  <2>3. \A f \in Listing(d) : [f EXCEPT !.path = Append(e.path, Last(f.path))] \in Entries
    <3> SUFFICES ASSUME NEW f \in Listing(d)
                 PROVE  [f EXCEPT !.path = Append(e.path, Last(f.path))] \in Entries
      OBVIOUS
    <3>1. f \in Entries /\ Last(f.path) \in Names
      BY ListingType, Typed
    <3>2. Append(e.path, Last(f.path)) \in Paths \ {<<>>}
      BY <1>3, <3>1, ChildOf
    <3> QED BY <3>1, <3>2 DEF Entries
  <2>4. todo' = [todo EXCEPT ![k] = (@ \ {e}) \cup
                   {[f EXCEPT !.path = Append(e.path, Last(f.path))] : f \in Listing(d)}]
    BY <1>2, <1>6 DEF GetDirectory
  <2>5. todo' \in [Calls -> SUBSET Entries]
    BY <2>3, <2>4, Typed DEF CallType
  <2>6. CallType'
    BY <1>1, <1>3, <1>6, <2>5, Typed DEF GetDirectory, CallType
  <2> QED BY <1>1, <1>4, <2>2, <2>6, Typed, PiecesKeep
<1> QED BY <1>5, <1>6

LEMMA BaseTypes ==
  ASSUME TypeOK, Tasks, NEW k \in Calls, StatBase(k) \/ Query(k)
  PROVE  TypeOK' /\ Tasks'
<1>1. /\ pc[k] # "idle" /\ job[k] # NoJob /\ Usable(Field(k)) /\ remote' = remote
      /\ UNCHANGED <<session, channelSftp, connected, job, alone, got>>
  BY JobIs DEF StatBase, Query, Tasks
<1>2. Field(k) \in Calls /\ Cwd(k) \in Paths /\ IsDir(Cwd(k))
  BY <1>1, FieldIs, UsableIs DEF Cwd
<1>3. Grown
  BY <1>1, NotGrown, Typed
<1>4. "get" \in PCs /\ "close" \in PCs
  BY DEF PCs
<1>5. CASE StatBase(k)
  <2>1. job[k] \in Retrieves(Paths) /\ job[k].path \in Paths
    BY <1>5, JobIs DEF StatBase
  <2>2. PICK p \in Paths : p = Cwd(k) \o job[k].path
    BY <1>2, <2>1, Within
  <2>3. p \in DOMAIN remote /\ path' = [path EXCEPT ![k] = p] /\ path'[k] = p
    BY <1>5, <2>2, Typed DEF StatBase, CallType
  <2>4. PICK d \in Paths : d = IF IsDir(p) THEN p ELSE Parent(p)
    BY <2>2, ParentIn
  <2>5. IsDir(d) /\ (~IsDir(p) => p # <<>>)
    BY <2>3, <2>4, ServerIs, Typed DEF Server
  <2>6. MoveTo(Field(k), d) /\ at' = [at EXCEPT ![k] = d]
    BY <1>5, <2>3, <2>4 DEF StatBase
  <2>7. todo' = [todo EXCEPT ![k] = IF IsDir(p) THEN Listing(p) ELSE {[path |-> p, dir |-> FALSE]}]
    BY <1>5, <2>3 DEF StatBase
  <2>8. ChanType'
    <3>1. IsDir(d)'
      BY <1>3, <2>5 DEF Grown
    <3> QED BY <1>2, <1>3, <2>6, <3>1, MoveTypes, Typed
  <2>9. (IF IsDir(p) THEN Listing(p) ELSE {[path |-> p, dir |-> FALSE]}) \subseteq Entries
    <3>1. CASE IsDir(p)
      BY <3>1, ListingType, Typed
    <3>2. CASE ~IsDir(p)
      <4>1. [path |-> p, dir |-> FALSE] \in Entries
        BY <2>5, <3>2 DEF Entries
      <4> QED BY <3>2, <4>1
    <3> QED BY <3>1, <3>2
  <2>10. using' = [using EXCEPT ![k] = Field(k)] /\ pc' = [pc EXCEPT ![k] = "get"]
    BY <1>5 DEF StatBase
  <2>11. CallType'
    BY <1>1, <1>2, <2>3, <2>6, <2>7, <2>9, <2>10, Typed DEF CallType
  <2> QED BY <1>1, <1>3, <1>4, <2>1, <2>8, <2>10, <2>11, Typed, PiecesKeep
<1>6. CASE Query(k)
  <2>1. PICK d \in {Cwd(k), DataDir} : MoveTo(Field(k), d)
    BY <1>6 DEF Query
  <2>2. d \in Paths /\ IsDir(d)
    BY <1>2, Named, Typed DEF Server
  <2>3. ChanType'
    <3>1. IsDir(d)'
      BY <1>3, <2>2 DEF Grown
    <3> QED BY <1>2, <1>3, <2>1, <2>2, <3>1, MoveTypes, Typed
  <2>4. CallType'
    BY <1>6, Typed DEF Query, CallType
  <2> QED BY <1>1, <1>3, <1>4, <1>6, <2>3, <2>4, Typed, PiecesKeep DEF Query
<1> QED BY <1>5, <1>6

LEMMA EndTypes ==
  ASSUME TypeOK, Tasks, NEW k \in Calls, Leave(k) \/ Done(k) \/ Fail(k)
  PROVE  TypeOK' /\ Tasks'
<1>1. /\ pc[k] # "idle" /\ job[k] # NoJob /\ <<>> \in Paths
      /\ UNCHANGED <<session, channelSftp, connected, job, alone>>
      /\ "close" \in PCs /\ "abort" \in PCs
  BY Named DEF Leave, Done, Fail, Tasks, PCs
<1>2. CASE Leave(k)
  <2>1. Grown /\ using[k] \in Calls /\ Usable(using[k])
    BY <1>2, NotGrown, UsableIs, Typed DEF Leave, CallType
  <2>2. PICK p \in Paths : p = chan[using[k]].cwd
    BY <2>1, UsableIs
  <2>3. IsDir(p) /\ p \in DOMAIN remote
    BY <2>1, <2>2, UsableIs
  <2>4. PICK d \in Paths : d = IF p = <<>> THEN <<>> ELSE Parent(p)
    BY <1>1, <2>2, ParentIn
  <2>5. IsDir(d)
    BY <2>3, <2>4, ServerIs, Typed
  <2>6. ChanType'
    <3>1. IsDir(d)'
      BY <2>1, <2>5 DEF Grown
    <3>2. MoveTo(using[k], d)
      BY <1>2, <2>2, <2>4 DEF Leave
    <3> QED BY <2>1, <3>1, <3>2, MoveTypes, Typed
  <2>7. CallType'
    <3>1. Parent(at[k]) \in Paths
      BY ParentIn, Typed DEF CallType
    <3> QED BY <1>2, <3>1, Typed DEF Leave, CallType
  <2>8. pc' = [pc EXCEPT ![k] = pc[k]] /\ pc[k] \in PCs
    BY <1>2, Typed DEF Leave
  <2> QED BY <1>1, <2>1, <2>6, <2>7, <2>8, Typed, PiecesKeep DEF Tasks
<1>3. CASE Done(k)
  <2>1. Grown /\ ChanType'
    BY <1>3, NotGrown, StaysTyped, Typed DEF Done
  <2>2. CallType'
    BY <1>1, <1>3, Typed DEF Done, Unwind, CallType
  <2> QED BY <1>1, <1>3, <2>1, <2>2, Typed, PiecesKeep DEF Done
<1>4. CASE Fail(k)
  <2>1. Grown
    <3>1. CASE remote' = remote
      BY <3>1, NotGrown, Typed
    <3>2. CASE /\ pc[k] = "send" /\ Usable(using[k])
               /\ \E e \in Here(k) : /\ ~e.dir /\ ~IsDir(There(k, e))
                                     /\ remote' = With(There(k, e), Torn)
      <4>1. PICK e \in todo[k] : ~IsDir(There(k, e)) /\ remote' = With(There(k, e), Torn)
        BY <3>2 DEF Here
      <4>2. /\ IsDir(chan[using[k]].cwd) /\ Last(e.path) \in Names
            /\ There(k, e) = Append(chan[using[k]].cwd, Last(e.path))
        BY <3>2, ThereIs
      <4>3. Torn \in Values
        BY DEF Values
      <4> QED BY <4>1, <4>2, <4>3, Grows, Typed
    <3> QED BY <1>4, <3>1, <3>2 DEF Fail
  <2>2. ChanType'
    BY <1>4, <2>1, StaysTyped, Typed DEF Fail
  <2>3. CallType'
    BY <1>1, <1>4, Typed DEF Fail, Unwind, CallType
  <2> QED BY <1>1, <1>4, <2>1, <2>2, <2>3, Typed, PiecesKeep DEF Fail
<1> QED BY <1>2, <1>3, <1>4

LEMMA BeginTypes ==
  ASSUME TypeOK, Tasks, NEW k \in Calls,
         NEW j \in Stores \cup Retrieves(Known) \cup Queries, Begin(k, j)
  PROVE  TypeOK' /\ Tasks'
<1>1. j \in Stores \cup Retrieves(Paths) \cup Queries
  <2>1. Retrieves(Known) \subseteq Retrieves(Paths)
    BY KnownPaths DEF Retrieves
  <2> QED BY <2>1
<1>2. j # NoJob
  <2>1. j.op \in {"store", "retrieve", "query"}
    BY <1>1 DEF Stores, Retrieves, Queries
  <2> QED BY <2>1 DEF NoJob
<1>3. /\ pc' \in [Calls -> PCs] /\ pc'[k] = "session" /\ \A i \in Calls \ {k} : pc'[i] = pc[i]
      /\ job' \in [Calls -> {NoJob} \cup Stores \cup Retrieves(Paths) \cup Queries]
      /\ job'[k] = j /\ \A i \in Calls \ {k} : job'[i] = job[i]
  <2>1. "session" \in PCs
    BY DEF PCs
  <2>2. pc' = [pc EXCEPT ![k] = "session"] /\ job' = [job EXCEPT ![k] = j]
    BY DEF Begin
  <2> QED BY <1>1, <2>1, <2>2, Typed
<1>4. alone' \in [Calls -> BOOLEAN]
  <2> DEFINE others == {i \in Calls \ {k} : Running(i) /\ job[i].obj = j.obj}
  <2>1. alone' = [i \in Calls |-> IF i = k THEN others = {} ELSE alone[i] /\ i \notin others]
    BY DEF Begin
  <2> HIDE DEF others
  <2>2. \A i \in Calls : alone[i] \in BOOLEAN
    BY Typed
  <2>3. \A i \in Calls : (IF i = k THEN others = {} ELSE alone[i] /\ i \notin others) \in BOOLEAN
    BY <2>2
  <2> QED BY <2>1, <2>3
<1>5. Server' /\ ChanType' /\ CallType'
  <2>1. UNCHANGED <<remote, fields, connected, chan, path, using, at, todo, got>>
    BY DEF Begin
  <2>2. Grown
    BY <2>1, NotGrown, Typed
  <2>3. Server'
    BY <2>2 DEF Grown
  <2> QED BY <2>1, <2>2, <2>3, StaysTyped, Typed DEF CallType
<1>6. TypeOK'
  BY <1>3, <1>4, <1>5, Typed DEF Begin, TypeOK, ChanType, CallType, Entries
<1>7. Tasks'
  BY <1>2, <1>3 DEF Tasks
<1> QED BY <1>6, <1>7

\* What is on the server at first.
LEMMA InitServer ==
  ASSUME Init
  PROVE  /\ Server /\ IsDir(<<>>) /\ IsDir(DestDir) /\ IsDir(DataDir)
         /\ \A p \in DOMAIN remote : IsPrefix(DestDir, p) => p = DestDir
<1> DEFINE data == {DataDir \o q : q \in Everything(Data)}
           S == {<<>>, DestDir, DataDir} \cup data
<1>1. \A q \in Everything(Data) :
        /\ q \in Paths /\ q # <<>> /\ DataDir \o q \in Paths
        /\ DataDir \o q # DataDir /\ DataDir \o q # <<>> /\ DataDir \o q # DestDir
        /\ IsPrefix(DataDir, DataDir \o q)
        /\ \A r \in Paths : DataDir \o q = DataDir \o r => q = r
  <2> SUFFICES ASSUME NEW q \in Everything(Data)
               PROVE  /\ q \in Paths /\ q # <<>> /\ DataDir \o q \in Paths
                      /\ DataDir \o q # DataDir /\ DataDir \o q # <<>> /\ DataDir \o q # DestDir
                      /\ IsPrefix(DataDir, DataDir \o q)
                      /\ \A r \in Paths : DataDir \o q = DataDir \o r => q = r
    OBVIOUS
  <2>1. q \in Paths /\ q # <<>>
    BY InTrees
  <2>2. /\ DataDir \o q \in Paths /\ IsPrefix(DataDir, DataDir \o q)
        /\ DataDir \o q # DataDir
        /\ \A r \in Paths : DataDir \o q = DataDir \o r => q = r
    BY <2>1, Named, Within
  <2>3. DataDir \o q # <<>>
    BY <2>2, Named, PrefixOrder
  <2>4. DataDir \o q # DestDir
    BY <2>2, Named
  <2> QED BY <2>1, <2>2, <2>3, <2>4
<1>2. remote = [p \in S |-> IF \E q \in Data.files : p = DataDir \o q
                              THEN Content(NoCall, p) ELSE Dir]
  BY DEF Init
<1>3. S \subseteq Paths
  BY <1>1, Named
<1>4. \A p \in S : remote[p] \in Values
  BY <1>2, <1>3 DEF Values, Contents, Content
<1>5. \A q \in Data.files : q \in Everything(Data)
  BY DEF Everything
<1>6. IsDir(<<>>) /\ IsDir(DestDir) /\ IsDir(DataDir)
  BY <1>1, <1>2, <1>5 DEF IsDir
<1>7. ASSUME NEW q \in Data.dirs PROVE IsDir(DataDir \o q)
  <2>1. q \in Everything(Data) /\ q \notin Data.files
    BY <1>7, SftpAssumption DEF Everything
  <2>2. ~\E r \in Data.files : DataDir \o q = DataDir \o r
    BY <1>1, <1>5, <2>1
  <2> QED BY <1>2, <2>1, <2>2 DEF IsDir
<1>8. \A p \in Paths : Len(p) = 1 => \A r \in Paths : IsPrefix(r, p) => r = <<>> \/ r = p
  <2> SUFFICES ASSUME NEW p \in Paths, Len(p) = 1, NEW r \in Paths, IsPrefix(r, p)
               PROVE  r = <<>> \/ r = p
    OBVIOUS
  <2>1. p # <<>> /\ Parent(p) = <<>>
    BY Named, OneName
  <2>2. r # p => IsPrefix(r, <<>>)
    BY <2>1, ParentOf
  <2> QED BY <2>2, PrefixOrder
<1>9. ASSUME NEW p \in S, NEW r \in Paths, IsPrefix(r, p), r # p
      PROVE  IsDir(r)
  <2>1. CASE p = <<>>
    BY <1>9, <2>1, PrefixOrder
  <2>2. CASE p = DestDir \/ p = DataDir
    BY <1>6, <1>8, <1>9, <2>2, Named
  <2>3. ASSUME NEW q \in Everything(Data), p = DataDir \o q
        PROVE  IsDir(r)
    <3>1. q \in Paths
      BY <1>1
    <3>2. CASE IsPrefix(r, DataDir)
      BY <1>6, <1>8, <3>2, Named
    <3>3. ASSUME NEW s \in Paths, r = DataDir \o s, IsPrefix(s, q)
          PROVE  IsDir(r)
      <4>1. s # q
        BY <1>9, <2>3, <3>3
      <4>2. s = <<>> \/ s \in Data.dirs
        BY <3>3, <4>1, InTrees
      <4>3. DataDir \o <<>> = DataDir
        BY Named, Within
      <4> QED BY <1>6, <1>7, <3>3, <4>2, <4>3
    <3>4. IsPrefix(r, DataDir \o q) /\ DataDir \in Paths
      BY <1>9, <2>3, Named
    <3>5. IsPrefix(r, DataDir) \/ \E s \in Paths : r = DataDir \o s /\ IsPrefix(s, q)
      BY <1>9, <3>1, <3>4, PrefixWithin
    <3> QED BY <3>2, <3>3, <3>5
  <2> QED BY <2>1, <2>2, <2>3
<1>10. DOMAIN remote = S
  BY <1>2
<1>11. ASSUME NEW p \in DOMAIN remote, IsPrefix(DestDir, p) PROVE p = DestDir
  <2>1. p \in S /\ p \in Paths
    BY <1>3, <1>10
  <2>2. ~IsPrefix(DestDir, <<>>)
    BY Named, PrefixOrder
  <2>3. ~IsPrefix(DataDir, p)
    <3>1. IsPrefix(DataDir, p) => DataDir = DestDir
      BY <1>11, <2>1, Named, PrefixOrder
    <3>2. DataDir # DestDir
      BY Named, PrefixOrder
    <3> QED BY <3>1, <3>2
  <2>4. p # DataDir
    BY <2>3, Named, PrefixOrder
  <2>5. p = <<>> \/ p = DestDir \/ p = DataDir \/ IsPrefix(DataDir, p)
    BY <1>1, <2>1
  <2> QED BY <1>11, <2>2, <2>3, <2>4, <2>5
<1> HIDE DEF S
<1>12. Server
  <2>1. \A p \in DOMAIN remote : \A r \in Prefixes(p) \ {p} : IsDir(r)
    BY <1>3, <1>9, <1>10, PrefixesAre
  <2> QED BY <1>3, <1>4, <1>6, <1>10, <2>1 DEF Server
<1> QED BY <1>6, <1>11, <1>12

LEMMA InitTypes ==
  ASSUME Init
  PROVE  TypeOK /\ Tasks
<1>1. Server /\ IsDir(<<>>) /\ <<>> \in Paths
  BY InitServer, Named
<1>2. NoChannel \in [open : BOOLEAN, cwd : Paths, on : Calls \cup {NoCall}] /\ NoChannel.cwd = <<>>
  BY <1>1 DEF NoChannel
<1>3. ChanType
  BY <1>1, <1>2 DEF Init, ChanType
<1>4. CallType
  BY <1>1 DEF Init, CallType
<1>5. /\ session \in [Objects -> Calls \cup {NoCall}]
      /\ channelSftp \in [Objects -> Calls \cup {NoCall}]
      /\ connected \subseteq Calls /\ pc \in [Calls -> PCs]
      /\ job \in [Calls -> {NoJob} \cup Stores \cup Retrieves(Paths) \cup Queries]
      /\ alone \in [Calls -> BOOLEAN]
      /\ \A k \in Calls : pc[k] = "idle"
  BY DEF Init, PCs
<1> QED BY <1>1, <1>3, <1>4, <1>5 DEF TypeOK, ChanType, CallType, Entries, Tasks

LEMMA TypesStep ==
  ASSUME Links, TypeOK, Tasks, [Next]_vars
  PROVE  TypeOK' /\ Tasks'
<1>1. CASE UNCHANGED vars
  <2>1. UNCHANGED <<remote, session, channelSftp, connected, chan, pc, job, path, using,
                    at, todo, got, alone>>
    BY <1>1 DEF vars
  <2>2. Server'
    BY <2>1, NotGrown, Typed DEF Grown
  <2>3. \A k \in Calls : IsDir(chan[k].cwd)'
    BY <2>1, Typed DEF IsDir, ChanType
  <2> QED BY <2>1, <2>2, <2>3, Typed DEF TypeOK, ChanType, CallType, Entries, Tasks
<1>2. ASSUME NEW k \in Calls, Step(k)
      PROVE  TypeOK' /\ Tasks'
  <2>1. ASSUME NEW e \in todo[k],
               SendFile(k, e) \/ SendDirectory(k, e) \/ GetFile(k, e) \/ GetDirectory(k, e)
        PROVE  TypeOK' /\ Tasks'
    BY <2>1, SendTypes, GetTypes
  <2> QED BY <1>2, <2>1, ConnectTypes, StoreTypes, BaseTypes, EndTypes DEF Step
<1> QED BY <1>1, <1>2, BeginTypes DEF Next, Finished

-----------------------------------------------------------------------------
(***************************************************************************)
(* A call that met no other works with its own channel.                    *)
(***************************************************************************)
LEMMA OwnKeeps ==
  ASSUME TypeOK, Own, NEW k \in Calls, NEW l \in PCs,
         pc' = [pc EXCEPT ![k] = l], UNCHANGED <<channelSftp, job, alone>>,
         l \in {"root", "base", "folder", "top", "send", "get", "query"} =>
           pc[k] \in {"root", "base", "folder", "top", "send", "get", "query"},
         \A i \in Calls \ {k} : using'[i] = using[i],
         l \in {"send", "get"} => \/ using'[k] = using[k] /\ pc[k] \in {"send", "get"}
                                  \/ using'[k] = Field(k)
  PROVE  Own'
<1>1. pc'[k] = l /\ \A i \in Calls \ {k} : pc'[i] = pc[i]
  BY Typed
<1>2. \A i \in Calls : Field(i)' = Field(i)
  BY DEF Field
<1> QED BY <1>1, <1>2 DEF Own

LEMMA OwnStep ==
  ASSUME Links, TypeOK, Tasks, Own, [Next]_vars
  PROVE  Own'
<1>1. CASE UNCHANGED vars
  BY <1>1 DEF vars, Own, Field
<1>2. ASSUME NEW k \in Calls, NEW j, Begin(k, j)
      PROVE  Own'
  <2>1. /\ pc'[k] = "session" /\ \A i \in Calls \ {k} : pc'[i] = pc[i] /\ job'[i] = job[i]
        /\ \A i \in Calls \ {k} : alone'[i] => alone[i]
        /\ UNCHANGED <<channelSftp, using>>
    BY <1>2, Typed DEF Begin
  <2> QED BY <2>1 DEF Own, Field
<1>3. ASSUME NEW k \in Calls, OpenChannel(k)
      PROVE  Own'
  <2>1. /\ pc[k] = "channel" /\ pc'[k] = "root" /\ \A i \in Calls \ {k} : pc'[i] = pc[i]
        /\ job[k].obj \in Objects /\ channelSftp'[job[k].obj] = k
        /\ \A o \in Objects \ {job[k].obj} : channelSftp'[o] = channelSftp[o]
        /\ UNCHANGED <<job, using, alone>>
    BY <1>3, Typed, JobIs DEF OpenChannel, Tasks
  <2>2. ASSUME NEW i \in Calls \ {k}, alone[i], Running(i)
        PROVE  job[i].obj \in Objects \ {job[k].obj}
    <3>1. job[i].obj \in Objects
      BY <2>2, JobIs DEF Tasks
    <3>2. job[i].obj # job[k].obj
      BY <2>1, <2>2 DEF Links, Met
    <3> QED BY <3>1, <3>2
  <2> QED BY <2>1, <2>2 DEF Own, Field
<1>4. ASSUME NEW k \in Calls, Step(k), ~OpenChannel(k)
      PROVE  Own'
  <2>1. ASSUME NewSession(k) \/ ConnectSession(k) \/ CdRoot(k) \/ Disconnect(k) \/ CdBase(k)
               \/ (\E s \in Stamps : MakeFolder(k, s)) \/ Query(k)
        PROVE  Own'
    <3>1. PICK l \in PCs \ {"send", "get"} :
            /\ pc' = [pc EXCEPT ![k] = l]
            /\ l \in {"root", "base", "folder", "top", "send", "get", "query"} =>
                 pc[k] \in {"root", "base", "folder", "top", "send", "get", "query"}
      <4>1. \E l \in {"connect", "channel", "returned", "threw", "folder", "top", "base",
                      "query", "close"} :
              /\ pc' = [pc EXCEPT ![k] = l]
              /\ l \in {"base", "folder", "top", "query"} =>
                   pc[k] \in {"root", "base", "folder", "top", "send", "get", "query"}
        <5>1. CASE NewSession(k) \/ ConnectSession(k)
          BY <5>1 DEF NewSession, ConnectSession
        <5>2. CASE CdRoot(k) \/ Query(k)
          BY <5>2 DEF CdRoot, Query
        <5>3. CASE Disconnect(k)
          BY <5>3 DEF Disconnect
        <5>4. CASE CdBase(k) \/ \E s \in Stamps : MakeFolder(k, s)
          BY <5>4 DEF CdBase, MakeFolder
        <5> QED BY <2>1, <5>1, <5>2, <5>3, <5>4
      <4> QED BY <4>1 DEF PCs
    <3>2. UNCHANGED <<channelSftp, job, alone, using>>
      BY <2>1 DEF NewSession, ConnectSession, CdRoot, Disconnect, CdBase, MakeFolder, Query
    <3> QED BY <3>1, <3>2, OwnKeeps
  <2>2. ASSUME MakeTop(k) \/ StatBase(k)
        PROVE  Own'
    <3>1. PICK l \in {"send", "get"} : pc' = [pc EXCEPT ![k] = l] /\ pc[k] \in {"top", "base"}
      BY <2>2 DEF MakeTop, StatBase
    <3>2. UNCHANGED <<channelSftp, job, alone>> /\ using' = [using EXCEPT ![k] = Field(k)]
      BY <2>2 DEF MakeTop, StatBase
    <3>3. using'[k] = Field(k) /\ \A i \in Calls \ {k} : using'[i] = using[i]
      BY <3>2, Typed DEF CallType
    <3>4. l \in PCs
      BY DEF PCs
    <3> QED BY <3>1, <3>2, <3>3, <3>4, OwnKeeps
  <2>3. ASSUME \/ \E e \in todo[k] : \/ SendFile(k, e) \/ SendDirectory(k, e)
                                     \/ GetFile(k, e) \/ GetDirectory(k, e)
               \/ Leave(k)
        PROVE  Own'
    <3>1. pc[k] \in {"send", "get"} /\ UNCHANGED <<pc, channelSftp, job, alone, using>>
      BY <2>3 DEF SendFile, SendDirectory, GetFile, GetDirectory, Leave
    <3> QED BY <3>1 DEF Own, Field
  <2>4. ASSUME Done(k) \/ Fail(k)
        PROVE  Own'
    <3>1. PICK l \in {"close", "abort"} : pc' = [pc EXCEPT ![k] = l]
      BY <2>4 DEF Done, Fail
    <3>2. UNCHANGED <<channelSftp, job, alone>> /\ using' = [using EXCEPT ![k] = NoCall]
      BY <2>4 DEF Done, Fail, Unwind
    <3>3. \A i \in Calls \ {k} : using'[i] = using[i]
      BY <3>2, Typed DEF CallType
    <3>4. l \in PCs
      BY DEF PCs
    <3> QED BY <3>1, <3>2, <3>3, <3>4, OwnKeeps
  <2> QED BY <1>4, <2>1, <2>2, <2>3, <2>4 DEF Step
<1> QED BY <1>1, <1>2, <1>3, <1>4 DEF Next, Finished

LEMMA InitOwn == Init => Own
  BY DEF Init, Own

-----------------------------------------------------------------------------
(***************************************************************************)
(* What one step leaves to the other calls, when none has met another.     *)
(***************************************************************************)
Calm == IInv /\ Quiet

LEMMA CalmIs ==
  Calm => /\ Links /\ TypeOK /\ Tasks /\ Own /\ Quiet /\ Apart
          /\ \A k \in Calls : alone[k] /\ Where(k) /\ Walks(k) /\ Sent(k) /\ Fetched(k)
BY DEF Calm, IInv, Copies, Quiet

Stays(i) ==
  /\ pc'[i] = pc[i] /\ job'[i] = job[i] /\ path'[i] = path[i] /\ at'[i] = at[i]
  /\ todo'[i] = todo[i] /\ got'[i] = got[i]

LEMMA OthersStay ==
  ASSUME TypeOK, NEW k \in Calls, Step(k), NEW i \in Calls \ {k}
  PROVE  Stays(i)
<1> USE DEF Stays, Unwind, Take
<1> USE Typed DEF CallType
<1>1. CASE NewSession(k) \/ ConnectSession(k) \/ OpenChannel(k) \/ CdRoot(k) \/ Disconnect(k)
  BY <1>1 DEF NewSession, ConnectSession, OpenChannel, CdRoot, Disconnect
<1>2. CASE CdBase(k) \/ (\E s \in Stamps : MakeFolder(k, s))
  BY <1>2 DEF CdBase, MakeFolder
<1>3. CASE MakeTop(k)
  BY <1>3 DEF MakeTop
<1>4. CASE StatBase(k)
  BY <1>4 DEF StatBase
<1>5. ASSUME NEW e \in todo[k], SendFile(k, e) \/ SendDirectory(k, e)
      PROVE  Stays(i)
  BY <1>5 DEF SendFile, SendDirectory
<1>6. ASSUME NEW e \in todo[k], GetFile(k, e) \/ GetDirectory(k, e)
      PROVE  Stays(i)
  BY <1>6 DEF GetFile, GetDirectory
<1>7. CASE Leave(k) \/ Done(k) \/ Query(k) \/ Fail(k)
  BY <1>7 DEF Leave, Done, Query, Fail
<1> QED BY <1>1, <1>2, <1>3, <1>4, <1>5, <1>6, <1>7 DEF Step

\* The channel that a call works with is its own.
LEMMA Mine ==
  ASSUME Calm, NEW k \in Calls
  PROVE  /\ pc[k] \in {"root", "base", "folder", "top", "send", "get", "query"} =>
              Field(k) = k /\ Cwd(k) = chan[k].cwd
         /\ pc[k] \in {"send", "get"} => using[k] = k
  BY CalmIs DEF Own, Cwd

LEMMA OthersChannels ==
  ASSUME Calm, NEW k \in Calls, Step(k), NEW i \in Calls \ {k}, chan'[i].open
  PROVE  chan'[i] = chan[i]
<1>1. \A c \in Calls : \A p : MoveTo(c, p) /\ i # c => chan'[i] = chan[i]
  BY CalmIs, Typed DEF MoveTo, ChanType
<1>2. CASE NewSession(k) \/ ConnectSession(k) \/ Done(k) \/ Fail(k)
  BY <1>2 DEF NewSession, ConnectSession, Done, Fail
<1>3. CASE OpenChannel(k)
  BY <1>3, CalmIs, Typed DEF OpenChannel, ChanType
<1>4. CASE CdRoot(k) \/ CdBase(k) \/ (\E s \in Stamps : MakeFolder(k, s)) \/ Query(k)
  BY <1>1, <1>4, Mine DEF CdRoot, CdBase, MakeFolder, Query
<1>5. CASE MakeTop(k) \/ StatBase(k)
  BY <1>1, <1>5, Mine DEF MakeTop, StatBase
<1>6. CASE Leave(k)
  BY <1>1, <1>6, Mine DEF Leave
<1>7. ASSUME NEW e \in todo[k],
             SendFile(k, e) \/ SendDirectory(k, e) \/ GetFile(k, e) \/ GetDirectory(k, e)
      PROVE  chan'[i] = chan[i]
  BY <1>1, <1>7, Mine DEF SendFile, SendDirectory, GetFile, GetDirectory
<1>8. CASE Disconnect(k)
  <2>1. chan'[i] = NoChannel \/ chan'[i] = chan[i]
    BY <1>8 DEF Disconnect
  <2>2. ~NoChannel.open
    BY DEF NoChannel
  <2> QED BY <2>1, <2>2
<1> QED BY <1>2, <1>3, <1>4, <1>5, <1>6, <1>7, <1>8 DEF Step

\* What is on the server stays a directory, or what it was; what is below d stays.
Kept == \A p \in DOMAIN remote : p \in DOMAIN remote' /\ (IsDir(p) <=> IsDir(p)')

Same(d) ==
  \A p \in Paths : IsPrefix(d, p) =>
    /\ p \in DOMAIN remote' <=> p \in DOMAIN remote
    /\ p \in DOMAIN remote => remote'[p] = remote[p]

\* The directories that other stores have made, and what is retrieved.
Aside(k) ==
  /\ Kept
  /\ \A i \in Calls \ {k} : HasFolder(i) => Same(path[i])
  /\ \A i \in Calls : job[i].op = "retrieve" => Same(job[i].path)

LEMMA ReadAside ==
  ASSUME remote' = remote, NEW k \in Calls
  PROVE  Aside(k)
  BY DEF Aside, Kept, Same, IsDir

LEMMA SameBelow ==
  ASSUME TypeOK, TypeOK', NEW d, Same(d)
  PROVE  /\ Below(d)' = Below(d)
         /\ \A p \in Below(d) : remote'[p] = remote[p] /\ IsDir(p)' = IsDir(p)
<1>1. DOMAIN remote \subseteq Paths /\ DOMAIN remote' \subseteq Paths
  BY DEF TypeOK, Server
<1> QED BY <1>1 DEF Same, Below, IsDir

\* A directory in DestDir is of length 2.
LEMMA FolderIs ==
  ASSUME NEW s \in Stamps
  PROVE  /\ Append(DestDir, s) \in Paths /\ Len(Append(DestDir, s)) = 2
         /\ IsPrefix(DestDir, Append(DestDir, s)) /\ Parent(Append(DestDir, s)) = DestDir
<1>1. s \in Names /\ DestDir \in Paths /\ Len(DestDir) = 1
  BY Named
<1>2. 1 + 1 = 2
  OBVIOUS
<1> QED BY <1>1, <1>2, ChildOf

LEMMA SentIs ==
  ASSUME Calm, NEW k \in Calls, HasFolder(k)
  PROVE  /\ path[k] \in Paths /\ path[k] \in DOMAIN remote /\ Len(path[k]) = 2
         /\ IsPrefix(DestDir, path[k])
<1>1. path[k] \in Paths
  BY CalmIs, Typed DEF CallType
<1>2. \E s \in Stamps : path[k] = Append(DestDir, s)
  BY CalmIs DEF Sent
<1>3. path[k] \in Below(path[k])
  BY CalmIs DEF Sent
<1> QED BY <1>1, <1>2, <1>3, FolderIs DEF Below

\* What one store writes is not in the way of the others.
LEMMA WriteAside ==
  ASSUME Calm, NEW k \in Calls, NEW w \in Paths, NEW v, remote' = With(w, v),
         \/ \E s \in Stamps : w = Append(DestDir, s) /\ w \notin DOMAIN remote
         \/ HasFolder(k) /\ pc[k] # "returned" /\ IsPrefix(path[k], w),
         w \in DOMAIN remote => (IsDir(w) <=> v = Dir)
  PROVE  Aside(k)
<1>1. /\ DOMAIN remote' = DOMAIN remote \cup {w} /\ remote'[w] = v
      /\ \A p \in DOMAIN remote : p # w => remote'[p] = remote[p]
  BY DEF With
<1>2. Kept
  BY <1>1 DEF Kept, IsDir
<1>3. \A d \in Paths : ~IsPrefix(d, w) => Same(d)
  BY <1>1 DEF Same
<1>4. ASSUME NEW i \in Calls, HasFolder(i), i # k \/ pc[k] = "returned"
      PROVE  Same(path[i])
  <2>1. path[i] \in Paths /\ path[i] \in DOMAIN remote /\ Len(path[i]) = 2
    BY <1>4, SentIs
  <2>2. CASE \E s \in Stamps : w = Append(DestDir, s) /\ w \notin DOMAIN remote
    <3>1. w # path[i] /\ Len(w) = 2
      BY <2>1, <2>2, FolderIs
    <3>2. ~IsPrefix(path[i], w)
      BY <2>1, <3>1, PrefixOrder
    <3> QED BY <1>3, <2>1, <3>2
  <2>3. CASE HasFolder(k) /\ pc[k] # "returned" /\ IsPrefix(path[k], w)
    <3>1. path[k] \in Paths /\ Len(path[k]) = 2 /\ path[k] # path[i]
      BY <1>4, <2>3, SentIs, CalmIs DEF Apart
    <3>2. ~IsPrefix(path[i], w)
      BY <2>1, <2>3, <3>1, PrefixOrder
    <3> QED BY <1>3, <2>1, <3>2
  <2> QED BY <2>2, <2>3
<1>5. IsPrefix(DestDir, w)
  <2>1. CASE HasFolder(k) /\ IsPrefix(path[k], w)
    <3>1. path[k] \in Paths /\ IsPrefix(DestDir, path[k])
      BY <2>1, SentIs
    <3> QED BY <2>1, <3>1, Named, PrefixOrder
  <2>2. CASE \E s \in Stamps : w = Append(DestDir, s)
    BY <2>2, FolderIs
  <2> QED BY <2>1, <2>2
<1>6. ASSUME NEW i \in Calls, job[i].op = "retrieve"
      PROVE  Same(job[i].path)
  <2>1. Settled(job[i].path)
    BY <1>6, CalmIs DEF Fetched
  <2>2. job[i].path \in Paths
    BY <1>6, CalmIs, JobIs
  <2>3. CASE IsPrefix(DataDir, job[i].path)
    <3>1. ~IsPrefix(DataDir, w)
      BY <1>5, Named, PrefixOrder
    <3>2. ~IsPrefix(job[i].path, w)
      BY <2>2, <2>3, <3>1, Named, PrefixOrder
    <3> QED BY <1>3, <2>2, <3>2
  <2>4. ASSUME NEW j \in Calls, pc[j] = "returned", HasFolder(j), path[j] = job[i].path
        PROVE  Same(job[i].path)
    BY <1>4, <2>4
  <2> QED BY <2>1, <2>3, <2>4 DEF Settled
<1> QED BY <1>2, <1>4, <1>6 DEF Aside

\* A call that does not write, and writes that are elsewhere, leave it what it has.
LEMMA SentStays ==
  ASSUME NEW k \in Calls, Sent(k), pc'[k] = "folder" => pc[k] = "folder",
         HasFolder(k)' => HasFolder(k), path'[k] = path[k], job'[k] = job[k],
         HasFolder(k) => /\ Copied(k)' = Copied(k) /\ Below(path[k])' = Below(path[k])
                         /\ \A p \in Below(path[k]) : remote'[p] = remote[p]
  PROVE  Sent(k)'
<1>1. ASSUME HasFolder(k)
      PROVE  /\ \E s \in Stamps : path'[k] = Append(DestDir, s)
             /\ Below(path[k])' = {path'[k]} \cup {path'[k] \o p : p \in Copied(k)'}
             /\ \A p \in Copied(k)' :
                  remote'[path'[k] \o p] = IF p \in job'[k].tree.dirs THEN Dir ELSE Content(k, p)
  <2>1. /\ \E s \in Stamps : path[k] = Append(DestDir, s)
        /\ Below(path[k]) = {path[k]} \cup {path[k] \o p : p \in Copied(k)}
        /\ \A p \in Copied(k) :
             remote[path[k] \o p] = IF p \in job[k].tree.dirs THEN Dir ELSE Content(k, p)
    BY <1>1 DEF Sent
  <2>2. \A p \in Copied(k) : remote'[path[k] \o p] = remote[path[k] \o p]
    BY <1>1, <2>1
  <2>3. {path'[k] \o p : p \in Copied(k)'} = {path[k] \o p : p \in Copied(k)}
    BY <1>1
  <2>4. \A p \in Copied(k)' :
          remote'[path'[k] \o p] = IF p \in job'[k].tree.dirs THEN Dir ELSE Content(k, p)
    BY <1>1, <2>1, <2>2
  <2> QED BY <1>1, <2>1, <2>3, <2>4
<1>2. pc'[k] = "folder" => path'[k] = DestDir
  BY DEF Sent
<1> QED BY <1>1, <1>2 DEF Sent

LEMMA SettledStays ==
  ASSUME NEW k \in Calls, pc[k] # "returned", \A j \in Calls \ {k} : Stays(j), NEW p, Settled(p)
  PROVE  Settled(p)'
<1>1. ASSUME NEW j \in Calls, pc[j] = "returned", HasFolder(j), path[j] = p
      PROVE  (pc[j] = "returned" /\ HasFolder(j) /\ path[j] = p)'
  <2>1. j # k
    BY <1>1
  <2> QED BY <1>1, <2>1 DEF HasFolder, Stays
<1> QED BY <1>1 DEF Settled

LEMMA FetchedStays ==
  ASSUME NEW k \in Calls, Fetched(k), got'[k] = got[k], path'[k] = path[k], job'[k] = job[k],
         pc'[k] \notin {"get", "close", "returned"} => pc[k] \notin {"get", "close", "returned"},
         pc'[k] = "get" => pc[k] = "get" /\ path[k] \in DOMAIN remote',
         job[k].op = "retrieve" =>
           /\ Settled(job[k].path)'
           /\ pc'[k] \in {"get", "close", "returned"} => pc[k] \in {"get", "close", "returned"}
           /\ Below(job[k].path)' = Below(job[k].path)
           /\ \A p \in Below(job[k].path) : /\ remote'[p] = remote[p] /\ IsDir(p)' = IsDir(p)
                                            /\ ~IsDir(p) => (Left(k, p)' <=> Left(k, p))
  PROVE  Fetched(k)'
<1>1. pc'[k] \notin {"get", "close", "returned"} => got'[k] = {}
  BY DEF Fetched
<1>2. pc'[k] = "get" => path'[k] = job'[k].path /\ path'[k] \in DOMAIN remote'
  BY DEF Fetched
<1>3. ASSUME job[k].op = "retrieve", pc'[k] \in {"get", "close", "returned"}
      PROVE  got'[k] = {<<p, remote'[p]>> :
                          p \in {p \in Below(job[k].path)' : (~IsDir(p) /\ ~Left(k, p))'}}
  <2>1. got[k] = {<<p, remote[p]>> :
                    p \in {p \in Below(job[k].path) : ~IsDir(p) /\ ~Left(k, p)}}
    BY <1>3 DEF Fetched
  <2>2. {p \in Below(job[k].path) : ~IsDir(p) /\ ~Left(k, p)}
          = {p \in Below(job[k].path)' : (~IsDir(p) /\ ~Left(k, p))'}
    BY <1>3
  <2>3. \A p \in Below(job[k].path) : remote'[p] = remote[p]
    BY <1>3
  <2> QED BY <1>3, <2>1, <2>2, <2>3
<1> QED BY <1>1, <1>2, <1>3 DEF Fetched

\* The other calls keep what they have.
LEMMA OthersKeep ==
  ASSUME Calm, TypeOK', NEW k \in Calls, pc[k] # "returned", Aside(k),
         NEW i \in Calls \ {k}, \A j \in Calls \ {k} : Stays(j),
         chan'[i].open => chan'[i] = chan[i]
  PROVE  Where(i)' /\ Walks(i)' /\ Sent(i)' /\ Fetched(i)'
<1> USE DEF Stays
<1>1. Where(i) /\ Walks(i) /\ Sent(i) /\ Fetched(i) /\ TypeOK /\ Tasks
  BY CalmIs
<1>2. Where(i)'
  BY <1>1 DEF Where
<1>3. \A p : Left(i, p)' <=> Left(i, p)
  BY DEF Left
<1>4. job[i].op = "retrieve" =>
        /\ Below(job[i].path)' = Below(job[i].path)
        /\ \A p \in Below(job[i].path) : remote'[p] = remote[p] /\ IsDir(p)' = IsDir(p)
  BY <1>1, SameBelow DEF Aside
<1>5. HasFolder(i) =>
        /\ Below(path[i])' = Below(path[i])
        /\ \A p \in Below(path[i]) : remote'[p] = remote[p]
  BY <1>1, SameBelow DEF Aside
<1>6. pc[i] = "get" => job[i].op = "retrieve" /\ path[i] = job[i].path /\ path[i] \in DOMAIN remote
  BY <1>1, JobIs DEF Tasks, Fetched
<1>7. pc[i] = "send" => job[i].op = "store"
  BY <1>1, JobIs DEF Tasks
<1>8. pc[i] \in {"send", "get"} => Start(i)' = Start(i)
  <2>1. CASE pc[i] = "send"
    BY <1>7, <2>1 DEF Start
  <2>2. CASE pc[i] = "get"
    <3>1. IsDir(path[i]) <=> IsDir(path[i])'
      BY <1>6, <2>2 DEF Aside, Kept, IsDir
    <3> QED BY <1>6, <2>2, <3>1 DEF Start
  <2> QED BY <2>1, <2>2
<1>9. Walks(i)'
  <2>1. /\ pc'[i] \notin {"send", "get"} => at'[i] = <<>> /\ todo'[i] = {}
        /\ pc'[i] = "send" => \A e \in todo'[i] : /\ e.path \in Everything(job'[i].tree)
                                                 /\ e.dir = (e.path \in job'[i].tree.dirs)
    BY <1>1 DEF Walks
  <2>2. pc'[i] \in {"send", "get"} =>
          /\ IsPrefix(Start(i), at[i])'
          /\ \A e \in todo'[i] : /\ IsPrefix(Start(i), Parent(e.path))'
                                /\ IsPrefix(Parent(e.path), at[i])'
                                /\ ~IsPrefix(e.path, at[i])'
    BY <1>1, <1>8 DEF Walks
  <2>3. pc'[i] = "get" => \A e \in todo'[i] : (e.path \in Below(path[i]) /\ e.dir = IsDir(e.path))'
    BY <1>1, <1>4, <1>6 DEF Walks
  <2> QED BY <2>1, <2>2, <2>3 DEF Walks
<1>10. HasFolder(i)' <=> HasFolder(i)
  BY DEF HasFolder
<1>11. Copied(i)' = Copied(i)
  BY <1>3 DEF Copied
<1>12. Sent(i)'
  BY <1>1, <1>5, <1>10, <1>11, SentStays
<1>13. Fetched(i)'
  <2>1. job[i].op = "retrieve" => Settled(job[i].path)'
    BY <1>1, SettledStays DEF Fetched
  <2>2. pc[i] = "get" => path[i] \in DOMAIN remote'
    BY <1>6 DEF Aside, Kept
  <2> QED BY <1>1, <1>3, <1>4, <2>1, <2>2, FetchedStays
<1> QED BY <1>2, <1>9, <1>12, <1>13

\* What remains to be shown of a step: what it does for the call that takes it.
LEMMA CopiesKeep ==
  ASSUME Calm, TypeOK', NEW k \in Calls, pc[k] # "returned", Step(k), Aside(k),
         \A i \in Calls : HasFolder(i)' => HasFolder(i) /\ path'[i] = path[i],
         Where(k)', Walks(k)', Sent(k)', Fetched(k)'
  PROVE  Copies'
<1>1. \A i \in Calls \ {k} : Stays(i) /\ (chan'[i].open => chan'[i] = chan[i])
  BY CalmIs, OthersStay, OthersChannels
<1>2. \A i \in Calls \ {k} : Where(i)' /\ Walks(i)' /\ Sent(i)' /\ Fetched(i)'
  BY <1>1, OthersKeep
<1>3. Apart'
  BY CalmIs DEF Apart
<1> QED BY <1>2, <1>3 DEF Copies

-----------------------------------------------------------------------------
(***************************************************************************)
(* What a step does for the call that takes it: connecting, and the end.   *)
(***************************************************************************)
LEMMA MyMove ==
  ASSUME TypeOK, NEW k \in Calls, NEW p, MoveTo(k, p)
  PROVE  chan'[k].cwd = p /\ chan'[k].open = chan[k].open
  BY Typed DEF MoveTo, ChanType

LEMMA GoesOn ==
  ASSUME Calm, TypeOK', NEW k \in Calls, Step(k), Where(k)', remote' = remote,
         pc[k] \notin {"folder", "top", "send", "get", "returned"},
         pc'[k] \notin {"folder", "top", "send", "get"},
         UNCHANGED <<job, path, at, todo, got>>,
         HasFolder(k)' => HasFolder(k),
         pc[k] = "close" => pc'[k] = "returned",
         job[k].op = "retrieve" /\ pc'[k] \in {"close", "returned"} => pc[k] = "close"
  PROVE  Copies'
<1>1. Aside(k) /\ Walks(k) /\ Sent(k) /\ Fetched(k) /\ TypeOK
  BY CalmIs, ReadAside
<1>2. \A i \in Calls : HasFolder(i)' => HasFolder(i) /\ path'[i] = path[i]
  <2>1. \A i \in Calls \ {k} : Stays(i)
    BY <1>1, OthersStay
  <2> QED BY <2>1 DEF Stays, HasFolder
<1>3. Walks(k)'
  BY <1>1 DEF Walks
<1>4. Sent(k)'
  <2>1. HasFolder(k) => Copied(k)' = Copied(k)
    BY DEF Copied, Left, HasFolder
  <2>2. Below(path[k])' = Below(path[k])
    BY DEF Below
  <2> QED BY <1>1, <2>1, <2>2, SentStays
<1>5. Fetched(k)'
  <2>1. \A j \in Calls \ {k} : Stays(j)
    BY <1>1, OthersStay
  <2>2. job[k].op = "retrieve" => Settled(job[k].path)'
    BY <1>1, <2>1, SettledStays DEF Fetched
  <2>3. Below(job[k].path)' = Below(job[k].path)
    BY DEF Below
  <2>4. \A p : IsDir(p)' = IsDir(p) /\ (Left(k, p)' <=> Left(k, p))
    BY DEF IsDir, Left
  <2> QED BY <1>1, <2>2, <2>3, <2>4, FetchedStays
<1> QED BY <1>1, <1>2, <1>3, <1>4, <1>5, CopiesKeep

LEMMA ConnectCopies ==
  ASSUME Calm, TypeOK', NEW k \in Calls,
         NewSession(k) \/ ConnectSession(k) \/ OpenChannel(k) \/ CdRoot(k) \/ Query(k)
           \/ Disconnect(k)
  PROVE  Copies'
<1>1. Step(k) /\ remote' = remote /\ UNCHANGED <<job, path, at, todo, got>>
  BY DEF NewSession, ConnectSession, OpenChannel, CdRoot, Query, Disconnect, Step
<1>2. CASE NewSession(k) \/ ConnectSession(k) \/ OpenChannel(k)
  <2>1. pc[k] \in {"session", "connect", "channel"} /\ pc'[k] \in {"connect", "channel", "root"}
    BY <1>2, CalmIs, Typed DEF NewSession, ConnectSession, OpenChannel
  <2>2. Where(k)' /\ ~HasFolder(k)'
    BY <2>1 DEF Where, HasFolder
  <2> QED BY <1>1, <2>1, <2>2, GoesOn
<1>3. CASE CdRoot(k)
  <2>1. pc[k] = "root" /\ pc'[k] \in {"query", "base"} /\ MoveTo(k, <<>>)
    BY <1>3, CalmIs, Typed, Mine DEF CdRoot
  <2>2. chan'[k].cwd = <<>>
    BY <2>1, CalmIs, MyMove
  <2>3. Where(k)' /\ ~HasFolder(k)'
    BY <2>1, <2>2 DEF Where, HasFolder
  <2> QED BY <1>1, <2>1, <2>3, GoesOn
<1>4. CASE Query(k)
  <2>1. pc[k] = "query" /\ pc'[k] = "close"
    BY <1>4, CalmIs, Typed DEF Query
  <2>2. job[k].op = "query"
    BY <2>1, CalmIs, JobIs DEF Tasks
  <2>3. Where(k)' /\ ~HasFolder(k)'
    BY <1>1, <2>1, <2>2 DEF Where, HasFolder
  <2> QED BY <1>1, <2>1, <2>2, <2>3, GoesOn
<1>5. CASE Disconnect(k)
  <2>1. /\ pc[k] \in {"close", "abort"} /\ pc'[k] \in {"returned", "threw"}
        /\ pc'[k] = "returned" <=> pc[k] = "close"
    BY <1>5, CalmIs, Typed DEF Disconnect
  <2>2. Where(k)' /\ (HasFolder(k)' => HasFolder(k))
    BY <1>1, <2>1 DEF Where, HasFolder
  <2> QED BY <1>1, <2>1, <2>2, GoesOn
<1> QED BY <1>2, <1>3, <1>4, <1>5

LEMMA ParentWithin ==
  ASSUME NEW p \in Paths, NEW q \in Paths, q # <<>>
  PROVE  /\ p \o q # <<>> /\ Parent(p \o q) = p \o Parent(q)
         /\ Append(p \o Parent(q), Last(q)) = p \o q
<1>1. Parent(q) \in Paths /\ Last(q) \in Names /\ Append(Parent(q), Last(q)) = q
  BY ParentOf
<1>2. p \o Parent(q) \in Paths /\ Append(p \o Parent(q), Last(q)) = p \o Append(Parent(q), Last(q))
  BY <1>1, AppendWithin
<1>3. Append(p \o Parent(q), Last(q)) = p \o q
  BY <1>1, <1>2
<1>4. /\ Append(p \o Parent(q), Last(q)) # <<>>
      /\ Parent(Append(p \o Parent(q), Last(q))) = p \o Parent(q)
  BY <1>1, <1>2, ChildOf
<1> QED BY <1>3, <1>4

\* Where a recursion is.
LEMMA WalkIs ==
  ASSUME Calm, NEW k \in Calls, pc[k] \in {"send", "get"}
  PROVE  /\ Start(k) \in Paths /\ at[k] \in Paths /\ path[k] \in Paths /\ using[k] = k
         /\ IsPrefix(Start(k), at[k])
         /\ pc[k] = "send" => job[k].op = "store" /\ job[k].tree \in Trees /\ HasFolder(k)
         /\ pc[k] = "get" => job[k].op = "retrieve" /\ path[k] = job[k].path
                               /\ path[k] \in DOMAIN remote
         /\ \A e \in todo[k] :
              /\ e \in Entries /\ e.path \in Paths /\ e.path # <<>> /\ Parent(e.path) \in Paths
              /\ IsPrefix(Start(k), Parent(e.path)) /\ IsPrefix(Parent(e.path), at[k])
              /\ ~IsPrefix(e.path, at[k])
<1>1. at[k] \in Paths /\ path[k] \in Paths /\ todo[k] \subseteq Entries
  BY CalmIs, Typed DEF CallType
<1>2. using[k] = k
  BY Mine
<1>3. pc[k] = "send" => job[k].op = "store" /\ job[k].tree \in Trees /\ HasFolder(k)
  BY CalmIs, JobIs DEF Tasks, HasFolder
<1>4. pc[k] = "get" => job[k].op = "retrieve" /\ path[k] = job[k].path /\ path[k] \in DOMAIN remote
  BY CalmIs, JobIs DEF Tasks, Fetched
<1>5. Start(k) \in Paths
  <2>1. CASE pc[k] = "send"
    <3>1. \A t \in Trees : Root(t) \in Paths
      <4>1. \A t \in Trees : Top(t) # {} => Root(t) \in Everything(t)
        BY DEF Root, Top, Everything
      <4> QED BY <4>1, InTrees, Named DEF Root
    <3> QED BY <1>3, <2>1, <3>1 DEF Start
  <2>2. CASE pc[k] = "get"
    BY <1>1, <1>4, <2>2, ParentIn DEF Start
  <2> QED BY <2>1, <2>2
<1>6. \A e \in todo[k] : /\ e \in Entries /\ e.path \in Paths
                         /\ e.path # <<>> /\ Parent(e.path) \in Paths
  <2>1. \A e \in todo[k] : e \in Entries /\ e.path \in Paths /\ e.path # <<>>
    BY <1>1 DEF Entries
  <2> QED BY <2>1, ParentIn
<1>7. Walks(k)
  BY CalmIs
<1> QED BY <1>1, <1>2, <1>3, <1>4, <1>5, <1>6, <1>7 DEF Walks

LEMMA DoneCopies ==
  ASSUME Calm, TypeOK', NEW k \in Calls, Done(k)
  PROVE  Copies'
<1>1. /\ Step(k) /\ remote' = remote /\ UNCHANGED <<chan, job, path, got>>
      /\ pc[k] \in {"send", "get"} /\ pc'[k] = "close" /\ at'[k] = <<>> /\ todo'[k] = {}
      /\ \A i \in Calls \ {k} : Stays(i)
  BY CalmIs, OthersStay, Typed DEF Done, Step, Unwind, CallType
<1>2. todo[k] = {}
  <2> SUFFICES ASSUME NEW e \in todo[k] PROVE FALSE
    OBVIOUS
  <2>1. Parent(e.path) = at[k]
    BY <1>1, WalkIs, PrefixOrder DEF Done
  <2> QED BY <2>1 DEF Done, Here
<1>3. Aside(k) /\ Walks(k) /\ Sent(k) /\ Fetched(k)
  BY <1>1, CalmIs, ReadAside
<1>4. HasFolder(k)' => HasFolder(k)
  BY <1>1, WalkIs DEF HasFolder
<1>5. Where(k)' /\ Walks(k)'
  BY <1>1 DEF Where, Walks
<1>6. \A p : IsDir(p)' = IsDir(p) /\ (Left(k, p)' <=> Left(k, p)) /\ Below(p)' = Below(p)
  BY <1>1, <1>2 DEF IsDir, Left, Below
<1>7. Sent(k)'
  <2>1. Copied(k)' = Copied(k)
    BY <1>1, <1>6 DEF Copied
  <2> QED BY <1>1, <1>3, <1>4, <1>6, <2>1, SentStays
<1>8. Fetched(k)'
  <2>1. job[k].op = "retrieve" => Settled(job[k].path)' /\ pc[k] = "get"
    BY <1>1, <1>3, WalkIs, SettledStays DEF Fetched
  <2> QED BY <1>1, <1>3, <1>6, <2>1, FetchedStays
<1>9. \A i \in Calls : HasFolder(i)' => HasFolder(i) /\ path'[i] = path[i]
  BY <1>1, <1>4 DEF Stays, HasFolder
<1> QED BY <1>1, <1>3, <1>5, <1>7, <1>8, <1>9, CopiesKeep

LEMMA LeaveCopies ==
  ASSUME Calm, TypeOK', NEW k \in Calls, Leave(k)
  PROVE  Copies'
<1>1. /\ Step(k) /\ remote' = remote /\ UNCHANGED <<pc, job, path, got, todo>>
      /\ pc[k] \in {"send", "get"} /\ chan[k].open /\ Here(k) = {} /\ at[k] # Start(k)
      /\ \A i \in Calls \ {k} : Stays(i)
  BY CalmIs, OthersStay, Mine DEF Leave, Step, Usable
<1>2. at'[k] = Parent(at[k]) /\ MoveTo(k, IF chan[k].cwd = <<>> THEN <<>> ELSE Parent(chan[k].cwd))
  BY <1>1, CalmIs, Mine, Typed DEF Leave, CallType
<1>3. at[k] \in Paths /\ at[k] # <<>> /\ Start(k) \in Paths /\ path[k] \in Paths
  <2>1. at[k] \in Paths /\ Start(k) \in Paths /\ IsPrefix(Start(k), at[k]) /\ path[k] \in Paths
    BY <1>1, WalkIs
  <2> QED BY <1>1, <2>1, PrefixOrder
<1>4. /\ Parent(at[k]) \in Paths /\ IsPrefix(Parent(at[k]), at[k])
      /\ \A q \in Paths : IsPrefix(q, at[k]) /\ q # at[k] => IsPrefix(q, Parent(at[k]))
  BY <1>3, ParentOf
<1>5. Where(k)'
  <2>1. chan'[k].cwd = IF chan[k].cwd = <<>> THEN <<>> ELSE Parent(chan[k].cwd)
    BY <1>2, CalmIs, MyMove
  <2>2. Where(k)
    BY CalmIs
  <2>3. pc[k] = "send" => chan'[k].cwd = path[k] \o Parent(at[k])
    BY <1>1, <1>3, <2>1, <2>2, ParentWithin DEF Where
  <2>4. pc[k] = "get" => chan'[k].cwd = Parent(at[k])
    BY <1>1, <1>3, <2>1, <2>2 DEF Where
  <2> QED BY <1>1, <1>2, <2>3, <2>4 DEF Where
<1>6. Walks(k)'
  <2>1. Walks(k) /\ Start(k)' = Start(k) /\ (\A p : IsDir(p)' = IsDir(p) /\ Below(p)' = Below(p))
    BY <1>1, CalmIs DEF Start, IsDir, Below
  <2>2. IsPrefix(Start(k), Parent(at[k]))
    BY <1>1, <1>3, <1>4, WalkIs
  <2>3. ASSUME NEW e \in todo[k]
        PROVE  /\ IsPrefix(Start(k), Parent(e.path)) /\ IsPrefix(Parent(e.path), Parent(at[k]))
               /\ ~IsPrefix(e.path, Parent(at[k]))
    <3>1. /\ e.path \in Paths /\ Parent(e.path) \in Paths /\ IsPrefix(Start(k), Parent(e.path))
          /\ IsPrefix(Parent(e.path), at[k]) /\ ~IsPrefix(e.path, at[k])
      BY <1>1, WalkIs
    <3>2. Parent(e.path) # at[k]
      BY <1>1 DEF Here
    <3>3. ~IsPrefix(e.path, Parent(at[k]))
      BY <1>3, <1>4, <3>1, PrefixOrder
    <3> QED BY <1>4, <3>1, <3>2, <3>3
  <2>4. /\ pc[k] = "send" => \A e \in todo[k] : /\ e.path \in Everything(job[k].tree)
                                               /\ e.dir = (e.path \in job[k].tree.dirs)
        /\ pc[k] = "get" => \A e \in todo[k] : e.path \in Below(path[k])' /\ e.dir = IsDir(e.path)'
    <3>1. Below(path[k])' = Below(path[k])
      BY <1>1 DEF Below
    <3> QED BY <2>1, <3>1 DEF Walks
  <2> QED BY <1>1, <1>2, <2>1, <2>2, <2>3, <2>4 DEF Walks
<1>7. Aside(k) /\ Sent(k) /\ Fetched(k)
  BY <1>1, CalmIs, ReadAside
<1>8. \A p : IsDir(p)' = IsDir(p) /\ (Left(k, p)' <=> Left(k, p)) /\ Below(p)' = Below(p)
  BY <1>1 DEF IsDir, Left, Below
<1>9. Sent(k)'
  <2>1. Copied(k)' = Copied(k) /\ HasFolder(k)' = HasFolder(k)
    BY <1>1, <1>8 DEF Copied, HasFolder
  <2> QED BY <1>1, <1>7, <1>8, <2>1, SentStays
<1>10. Fetched(k)'
  <2>1. job[k].op = "retrieve" => Settled(job[k].path)'
    BY <1>1, <1>7, SettledStays DEF Fetched
  <2>2. pc[k] = "get" => path[k] \in DOMAIN remote'
    BY <1>1, WalkIs
  <2> QED BY <1>1, <1>7, <1>8, <2>1, <2>2, FetchedStays
<1>11. \A i \in Calls : HasFolder(i)' => HasFolder(i) /\ path'[i] = path[i]
  BY <1>1 DEF HasFolder
<1> QED BY <1>1, <1>5, <1>6, <1>7, <1>9, <1>10, <1>11, CopiesKeep

\* What a store is about to write is in its own directory.
LEMMA ThereInFolder ==
  ASSUME Calm, NEW k \in Calls, pc[k] = "send", chan[k].open, NEW e \in Here(k)
  PROVE  /\ There(k, e) = path[k] \o e.path /\ There(k, e) \in Paths
         /\ IsPrefix(path[k], There(k, e)) /\ e \in todo[k] /\ Parent(e.path) = at[k]
<1>1. /\ e \in todo[k] /\ Parent(e.path) = at[k] /\ e.path \in Paths /\ e.path # <<>>
      /\ path[k] \in Paths /\ using[k] = k
  BY WalkIs DEF Here
<1>2. chan[k].cwd = path[k] \o at[k]
  BY CalmIs DEF Where
<1>3. There(k, e) = Append(path[k] \o Parent(e.path), Last(e.path))
  BY <1>1, <1>2 DEF There
<1>4. There(k, e) = path[k] \o e.path
  BY <1>1, <1>3, ParentWithin
<1>5. path[k] \o e.path \in Paths /\ IsPrefix(path[k], path[k] \o e.path)
  BY <1>1, Within
<1> QED BY <1>1, <1>4, <1>5

LEMMA NotDirectories ==
  Torn # Dir /\ \A c \in Calls \cup {NoCall}, p \in Paths : Content(c, p) # Dir
BY SftpAssumption DEF Content, Contents

LEMMA FailCopies ==
  ASSUME Calm, TypeOK', NEW k \in Calls, Fail(k)
  PROVE  Copies'
<1>1. /\ Step(k) /\ UNCHANGED <<chan, job>>
      /\ pc[k] \notin {"returned", "close"} /\ at'[k] = <<>> /\ todo'[k] = {}
      /\ pc'[k] = "abort" \/ (pc'[k] = "close" /\ job[k].op = "query")
      /\ got'[k] = {} /\ \A i \in Calls \ {k} : Stays(i)
  BY CalmIs, OthersStay, Typed DEF Fail, Step, Unwind, CallType, Swallows
<1>2. Aside(k)
  <2>1. CASE remote' = remote
    BY <2>1, ReadAside
  <2>2. ASSUME pc[k] = "send", Usable(using[k]), NEW e \in Here(k),
               ~IsDir(There(k, e)), remote' = With(There(k, e), Torn)
        PROVE  Aside(k)
    <3>1. chan[k].open
      BY <2>2, Mine DEF Usable
    <3>2. There(k, e) \in Paths /\ IsPrefix(path[k], There(k, e))
      BY <2>2, <3>1, ThereInFolder
    <3>3. HasFolder(k)
      BY <2>2, WalkIs
    <3> QED BY <2>2, <3>2, <3>3, NotDirectories, WriteAside
  <2> QED BY <2>1, <2>2 DEF Fail
<1>3. Where(k)' /\ Walks(k)' /\ ~HasFolder(k)'
  BY <1>1 DEF Where, Walks, HasFolder
<1>4. Sent(k)'
  BY <1>1, <1>3 DEF Sent
<1>5. Fetched(k)'
  <2>1. job[k].op = "retrieve" => Settled(job[k].path)'
    BY <1>1, CalmIs, SettledStays DEF Fetched
  <2> QED BY <1>1, <2>1 DEF Fetched
<1>6. \A i \in Calls : HasFolder(i)' => HasFolder(i) /\ path'[i] = path[i]
  BY <1>1, <1>3 DEF Stays, HasFolder
<1> QED BY <1>1, <1>2, <1>3, <1>4, <1>5, <1>6, CopiesKeep

LEMMA CdBaseCopies ==
  ASSUME Calm, TypeOK', NEW k \in Calls, CdBase(k)
  PROVE  Copies'
<1>1. /\ Step(k) /\ remote' = remote /\ UNCHANGED <<job, at, todo, got>>
      /\ pc[k] = "base" /\ job[k].op = "store" /\ pc'[k] = "folder"
      /\ chan[k].open /\ path'[k] = chan[k].cwd \o DestDir /\ MoveTo(k, path'[k])
      /\ \A i \in Calls \ {k} : Stays(i)
  BY CalmIs, OthersStay, Mine, Typed DEF CdBase, Step, Usable, CallType
<1>2. path'[k] = DestDir
  <2>1. chan[k].cwd = <<>>
    BY <1>1, CalmIs DEF Where
  <2>2. <<>> \o DestDir = DestDir
    BY Named, Within
  <2> QED BY <1>1, <2>1, <2>2
<1>3. chan'[k].cwd = DestDir
  BY <1>1, <1>2, CalmIs, MyMove
<1>4. Where(k)' /\ ~HasFolder(k)' /\ Aside(k)
  BY <1>1, <1>3, ReadAside DEF Where, HasFolder
<1>5. Walks(k)' /\ Fetched(k)'
  BY <1>1, CalmIs DEF Walks, Fetched
<1>6. Sent(k)'
  BY <1>2, <1>4 DEF Sent
<1>7. \A i \in Calls : HasFolder(i)' => HasFolder(i) /\ path'[i] = path[i]
  BY <1>1, <1>4 DEF Stays, HasFolder
<1> QED BY <1>1, <1>4, <1>5, <1>6, <1>7, CopiesKeep

LEMMA BeginCopies ==
  ASSUME Calm, TypeOK', NEW k \in Calls,
         NEW j \in Stores \cup Retrieves(Known) \cup Queries, Begin(k, j)
  PROVE  Copies'
<1>1. /\ UNCHANGED <<remote, chan, path, at, todo, got>>
      /\ pc[k] = "idle" /\ pc'[k] = "session" /\ job'[k] = j
      /\ \A i \in Calls \ {k} : Stays(i)
  BY CalmIs, Typed DEF Begin, Stays
<1>2. Aside(k) /\ Walks(k) /\ Fetched(k)
  BY <1>1, CalmIs, ReadAside
<1>3. Where(k)' /\ Walks(k)' /\ ~HasFolder(k)'
  BY <1>1, <1>2 DEF Where, Walks, HasFolder
<1>4. Sent(k)'
  BY <1>1, <1>3 DEF Sent
<1>5. Fetched(k)'
  <2>1. ASSUME j.op = "retrieve" PROVE Settled(j.path)'
    <3>1. j.path \in Known
      BY <2>1 DEF Stores, Retrieves, Queries
    <3>2. ASSUME NEW q \in Wanted, j.path = DataDir \o q PROVE IsPrefix(DataDir, j.path)
      <4>1. q \in Paths
        BY SftpAssumption, InTrees
      <4> QED BY <3>2, <4>1, Named, Within
    <3>3. ASSUME NEW i \in Calls, pc[i] = "returned", job[i].op = "store", j.path = path[i]
          PROVE  (pc[i] = "returned" /\ HasFolder(i) /\ path[i] = j.path)'
      <4>1. i # k
        BY <1>1, <3>3
      <4> QED BY <1>1, <3>3, <4>1 DEF Stays, HasFolder
    <3>4. \/ \E q \in Wanted : j.path = DataDir \o q
          \/ \E i \in Calls : pc[i] = "returned" /\ job[i].op = "store" /\ j.path = path[i]
      BY <3>1 DEF Known
    <3>5. CASE \E q \in Wanted : j.path = DataDir \o q
      BY <3>2, <3>5 DEF Settled
    <3>6. CASE \E i \in Calls : pc[i] = "returned" /\ job[i].op = "store" /\ j.path = path[i]
      BY <3>3, <3>6 DEF Settled
    <3> QED BY <3>4, <3>5, <3>6
  <2>2. got'[k] = {}
    BY <1>1, <1>2 DEF Fetched
  <2> QED BY <1>1, <2>1, <2>2 DEF Fetched
<1>6. \A i \in Calls \ {k} : Where(i)' /\ Walks(i)' /\ Sent(i)' /\ Fetched(i)'
  BY <1>1, <1>2, OthersKeep
<1>7. Apart'
  <2>1. \A i \in Calls : HasFolder(i)' => HasFolder(i) /\ path'[i] = path[i]
    BY <1>1, <1>3 DEF Stays, HasFolder
  <2> QED BY <2>1, CalmIs DEF Apart
<1> QED BY <1>3, <1>4, <1>5, <1>6, <1>7 DEF Copies

-----------------------------------------------------------------------------
(***************************************************************************)
(* What a step does for the call that takes it: a store.                   *)
(***************************************************************************)
LEMMA ChildIs ==
  ASSUME NEW t \in Trees, NEW p \in Paths, NEW c \in Children(t, p)
  PROVE  /\ c.path \in Everything(t) /\ c.path \in Paths /\ c.path # <<>> /\ Parent(c.path) = p
         /\ c.dir = (c.path \in t.dirs)
         /\ IsPrefix(p, c.path) /\ ~IsPrefix(c.path, p) /\ c.path # p
<1>1. PICK q \in Everything(t) : Parent(q) = p /\ c = [path |-> q, dir |-> q \in t.dirs]
  BY DEF Children
<1>2. c.path = q /\ c.dir = (q \in t.dirs)
  BY <1>1
<1>3. q \in Paths /\ q # <<>>
  BY InTrees
<1>4. IsPrefix(p, q) /\ p # q
  BY <1>1, <1>3, ParentOf
<1>5. ~IsPrefix(q, p)
  BY <1>3, <1>4, PrefixOrder
<1> QED BY <1>1, <1>2, <1>3, <1>4, <1>5

LEMMA ChildTowards ==
  ASSUME NEW t \in Trees, NEW p \in Paths, NEW q \in Everything(t), IsPrefix(p, q), p # q
  PROVE  \E c \in Children(t, p) : IsPrefix(c.path, q)
<1>1. q \in Paths
  BY InTrees
<1>2. PICK r \in Paths : r # <<>> /\ Parent(r) = p /\ IsPrefix(r, q)
  BY <1>1, Towards
<1>3. r \in Everything(t)
  BY <1>2, InTrees DEF Everything
<1>4. [path |-> r, dir |-> r \in t.dirs] \in Children(t, p)
  BY <1>2, <1>3 DEF Children
<1> QED BY <1>2, <1>4

\* One item is stored: all of it is at, or in, the same directory.
LEMMA TopIs ==
  ASSUME NEW t \in Trees, NEW p \in Top(t)
  PROVE  /\ p \in Everything(t) /\ p \in t.dirs /\ p \in Paths /\ Len(p) = 1
         /\ \A q \in Everything(t) : IsPrefix(p, q)
         /\ Root(t) = p
<1>1. \A r \in Top(t) : r \in Everything(t) /\ r \in t.dirs /\ Len(r) = 1 /\ r \in Paths
  BY InTrees DEF Top, Everything
<1>2. \A r \in Top(t), q \in Everything(t) : IsPrefix(r, q)
  <2> SUFFICES ASSUME NEW r \in Top(t), NEW q \in Everything(t)
               PROVE  IsPrefix(r, q)
    OBVIOUS
  <2>1. q \in Paths /\ q # <<>> /\ r \in Paths /\ Len(r) = 1
    BY <1>1, InTrees
  <2>2. Len(q) \in Nat /\ Len(q) > 0
    BY <2>1, PathIs
  <2>3. Head(r) = Head(q)
    BY <1>1, SftpAssumption
  <2>4. Head(r) = r[1] /\ Head(q) = q[1]
    BY <2>1 DEF Paths
  <2>5. Len(r) <= Len(q) /\ \A i \in 1 .. Len(r) : r[i] = q[i]
    BY <2>1, <2>2, <2>3, <2>4
  <2> QED BY <2>1, <2>5, PrefixIs
<1>3. \A r \in Top(t) : r = p
  BY <1>1, <1>2, PrefixOrder
<1>4. Root(t) = p
  BY <1>3 DEF Root
<1> QED BY <1>1, <1>2, <1>4

LEMMA MakeFolderCopies ==
  ASSUME Calm, TypeOK', NEW k \in Calls, NEW s \in Stamps, MakeFolder(k, s)
  PROVE  Copies'
<1>1. /\ Step(k) /\ UNCHANGED <<job, at, todo, got>>
      /\ pc[k] = "folder" /\ pc'[k] = "top"
      /\ chan[k].open /\ path'[k] = Append(path[k], s) /\ MoveTo(k, Append(chan[k].cwd, s))
      /\ Append(chan[k].cwd, s) \notin DOMAIN remote
      /\ remote' = With(Append(chan[k].cwd, s), Dir)
      /\ \A i \in Calls \ {k} : Stays(i)
  BY CalmIs, OthersStay, Mine, Typed DEF MakeFolder, Step, Usable, CallType
<1>2. chan[k].cwd = DestDir /\ path[k] = DestDir /\ job[k].op = "store"
  BY <1>1, CalmIs, JobIs DEF Where, Sent, Tasks
<1>3. PICK w \in Paths : w = Append(DestDir, s)
  BY FolderIs
<1>4. /\ w \notin DOMAIN remote /\ remote' = With(w, Dir) /\ MoveTo(k, w) /\ path'[k] = w
      /\ Len(w) = 2
  BY <1>1, <1>2, <1>3, FolderIs
<1>5. Aside(k)
  BY <1>3, <1>4, WriteAside
<1>6. Where(k)'
  <2>1. chan'[k].cwd = w
    BY <1>4, CalmIs, MyMove
  <2> QED BY <1>1, <1>4, <2>1 DEF Where
<1>7. Walks(k)' /\ Fetched(k)'
  BY <1>1, <1>2, CalmIs DEF Walks, Fetched
<1>8. Sent(k)'
  <2>1. DOMAIN remote' = DOMAIN remote \cup {w}
    BY <1>4 DEF With
  <2>2. \A q \in DOMAIN remote : ~IsPrefix(w, q)
    BY <1>4, CalmIs, ServerIs DEF TypeOK
  <2>3. IsPrefix(w, w)
    BY PrefixOrder
  <2>4. Below(w)' = {w}
    BY <2>1, <2>2, <2>3 DEF Below
  <2>5. Below(path[k])' = {w}
    BY <1>4, <2>4 DEF Below
  <2>6. Copied(k)' = {}
    BY <1>1 DEF Copied
  <2>7. {path'[k] \o p : p \in Copied(k)'} = {}
    BY <2>6
  <2> QED BY <1>1, <1>3, <1>4, <2>5, <2>6, <2>7 DEF Sent
<1>9. \A i \in Calls \ {k} : Where(i)' /\ Walks(i)' /\ Sent(i)' /\ Fetched(i)'
  BY <1>1, <1>5, CalmIs, OthersChannels, OthersKeep
<1>10. Apart'
  <2>1. \A i \in Calls \ {k} : HasFolder(i)' => HasFolder(i) /\ path'[i] = path[i]
    BY <1>1 DEF Stays, HasFolder
  <2>2. \A i \in Calls \ {k} : HasFolder(i)' => path'[i] # path'[k]
    BY <1>4, <2>1, SentIs
  <2> QED BY <2>1, <2>2, CalmIs DEF Apart
<1> QED BY <1>6, <1>7, <1>8, <1>9, <1>10 DEF Copies

\* One item more is in the directory of the store.
LEMMA SentMore ==
  ASSUME Calm, NEW k \in Calls, HasFolder(k), job[k].tree \in Trees,
         NEW p \in Everything(job[k].tree),
         remote' = With(path[k] \o p, IF p \in job[k].tree.dirs THEN Dir ELSE Content(k, p)),
         pc'[k] = "send", path'[k] = path[k], job' = job, Copied(k)' = Copied(k) \cup {p}
  PROVE  Sent(k)'
<1>1. path[k] \in Paths /\ p \in Paths
  BY SentIs, InTrees
<1>2. PICK w \in Paths : w = path[k] \o p
  BY <1>1, Within
<1>3. IsPrefix(path[k], w)
  BY <1>1, <1>2, Within
<1>4. /\ DOMAIN remote' = DOMAIN remote \cup {w}
      /\ remote'[w] = IF p \in job[k].tree.dirs THEN Dir ELSE Content(k, p)
      /\ \A q \in DOMAIN remote : q # w => remote'[q] = remote[q]
  BY <1>2 DEF With
<1>5. /\ \E s \in Stamps : path[k] = Append(DestDir, s)
      /\ Below(path[k]) = {path[k]} \cup {path[k] \o q : q \in Copied(k)}
      /\ \A q \in Copied(k) :
           remote[path[k] \o q] = IF q \in job[k].tree.dirs THEN Dir ELSE Content(k, q)
  BY CalmIs DEF Sent
<1>6. Below(path[k])' = Below(path[k]) \cup {w}
  BY <1>3, <1>4 DEF Below
<1>7. {path'[k] \o q : q \in Copied(k)'} = {path[k] \o q : q \in Copied(k)} \cup {w}
  BY <1>2
<1>8. ASSUME NEW q \in Copied(k)'
      PROVE  remote'[path'[k] \o q] = IF q \in job'[k].tree.dirs THEN Dir ELSE Content(k, q)
  <2>1. CASE q = p
    BY <1>2, <1>4, <2>1
  <2>2. CASE q \in Copied(k) /\ q # p
    <3>1. q \in Paths
      BY <2>2, InTrees DEF Copied
    <3>2. path[k] \o q # w
      BY <1>1, <1>2, <2>2, <3>1, SameWithin
    <3>3. path[k] \o q \in DOMAIN remote
      BY <1>5, <2>2 DEF Below
    <3> QED BY <1>4, <1>5, <2>2, <3>2, <3>3
  <2> QED BY <1>8, <2>1, <2>2
<1> QED BY <1>5, <1>6, <1>7, <1>8 DEF Sent

LEMMA MakeTopCopies ==
  ASSUME Calm, TypeOK', NEW k \in Calls, MakeTop(k)
  PROVE  Copies'
<1> DEFINE t == job[k].tree
<1>1. /\ Step(k) /\ UNCHANGED <<job, path, got>>
      /\ pc[k] = "top" /\ pc'[k] = "send" /\ chan[k].open /\ Cwd(k) = chan[k].cwd /\ Field(k) = k
      /\ \A i \in Calls \ {k} : Stays(i)
  BY CalmIs, OthersStay, Mine, Typed DEF MakeTop, Step, Usable
<1>2. /\ t \in Trees /\ job[k].op = "store" /\ HasFolder(k)
      /\ chan[k].cwd = path[k] /\ path[k] \in Paths /\ at[k] = <<>> /\ got[k] = {}
  <2>1. job[k].op = "store" /\ t \in Trees
    BY <1>1, CalmIs, JobIs DEF Tasks
  <2>2. HasFolder(k)
    BY <1>1, <2>1 DEF HasFolder
  <2>3. chan[k].cwd = path[k] /\ at[k] = <<>> /\ got[k] = {}
    BY <1>1, CalmIs DEF Where, Walks, Fetched
  <2> QED BY <2>1, <2>2, <2>3, SentIs
<1>3. PICK r \in Paths :
        /\ r = Root(t) /\ at'[k] = r /\ todo'[k] = Children(t, r)
        /\ chan'[k].cwd = path[k] \o r
        /\ \/ Top(t) = {} /\ r = <<>> /\ remote' = remote
           \/ r \in Top(t) /\ path[k] \o r \notin DOMAIN remote /\ remote' = With(path[k] \o r, Dir)
  <2>1. CASE Top(t) = {}
    <3>1. /\ UNCHANGED <<remote, chan, at>> /\ todo' = [todo EXCEPT ![k] = Children(t, <<>>)]
      BY <2>1 DEF MakeTop
    <3>2. todo'[k] = Children(t, <<>>)
      BY <3>1, CalmIs, Typed DEF CallType
    <3>3. Root(t) = <<>> /\ <<>> \in Paths /\ path[k] \o <<>> = path[k]
      BY <1>2, <2>1, Named, Within DEF Root
    <3> HIDE DEF t
    <3> QED BY <1>2, <2>1, <3>1, <3>2, <3>3
  <2>2. CASE Top(t) # {}
    <3>1. PICK p \in Top(t) :
            /\ Cwd(k) \o p \notin DOMAIN remote
            /\ remote' = With(Cwd(k) \o p, Dir)
            /\ MoveTo(Field(k), Cwd(k) \o p)
            /\ at' = [at EXCEPT ![k] = p]
            /\ todo' = [todo EXCEPT ![k] = Children(t, p)]
      BY <2>2 DEF MakeTop
    <3>2. p \in Paths /\ Root(t) = p
      BY <1>2, TopIs
    <3>3. PICK w : w = path[k] \o p
      OBVIOUS
    <3>4. chan'[k].cwd = w
      BY <1>1, <1>2, <3>1, <3>3, CalmIs, MyMove
    <3>5. at'[k] = p /\ todo'[k] = Children(t, p)
      BY <3>1, CalmIs, Typed DEF CallType
    <3> HIDE DEF t
    <3> QED BY <1>1, <1>2, <3>1, <3>2, <3>3, <3>4, <3>5
  <2> QED BY <2>1, <2>2
<1> HIDE DEF t
<1>4. Where(k)'
  BY <1>1, <1>3 DEF Where
<1>5. Walks(k)'
  <2>1. Start(k)' = r
    BY <1>1, <1>2, <1>3 DEF Start, t
  <2>2. \A e \in todo'[k] : /\ e.path \in Everything(t) /\ e.dir = (e.path \in t.dirs)
                           /\ Parent(e.path) = r /\ ~IsPrefix(e.path, r)
    BY <1>2, <1>3, ChildIs
  <2>3. IsPrefix(r, r)
    BY PrefixOrder
  <2> QED BY <1>1, <1>3, <2>1, <2>2, <2>3 DEF Walks, t
<1>6. \A q \in Everything(t) : Left(k, q)' <=> r # q
  <2> SUFFICES ASSUME NEW q \in Everything(t) PROVE Left(k, q)' <=> r # q
    OBVIOUS
  <2>1. IsPrefix(r, q) /\ q \in Paths
    BY <1>2, <1>3, TopIs, InTrees, PrefixOrder
  <2>2. r # q => Left(k, q)'
    BY <1>2, <1>3, <2>1, ChildTowards DEF Left
  <2>3. ~Left(k, r)'
    BY <1>2, <1>3, ChildIs DEF Left
  <2> QED BY <2>2, <2>3
<1>7. Copied(k) = {} /\ Copied(k)' = {q \in Everything(t) : q = r}
  BY <1>1, <1>6 DEF Copied, t
<1>8. Sent(k)' /\ Aside(k)
  <2>1. CASE r = <<>> /\ remote' = remote
    <3>1. Copied(k)' = {}
      BY <1>2, <1>7, <2>1, InTrees
    <3>2. Aside(k) /\ Below(path[k])' = Below(path[k])
      BY <1>1, <2>1, ReadAside DEF Below
    <3> QED BY <1>1, <1>2, <1>7, <2>1, <3>1, <3>2, CalmIs, SentStays
  <2>2. CASE /\ r \in Top(t) /\ path[k] \o r \notin DOMAIN remote
             /\ remote' = With(path[k] \o r, Dir)
    <3>1. r \in Everything(t) /\ r \in t.dirs
      BY <1>2, <2>2, TopIs
    <3>2. Copied(k)' = Copied(k) \cup {r}
      BY <1>7, <3>1
    <3>3. Sent(k)'
      BY <1>1, <1>2, <2>2, <3>1, <3>2, SentMore DEF t
    <3>4. path[k] \o r \in Paths /\ IsPrefix(path[k], path[k] \o r)
      BY <1>2, Within
    <3>5. Aside(k)
      BY <1>1, <1>2, <2>2, <3>4, WriteAside
    <3> QED BY <3>3, <3>5
  <2> QED BY <1>3, <2>1, <2>2
<1>9. Fetched(k)'
  BY <1>1, <1>2, CalmIs DEF Fetched
<1>10. \A i \in Calls : HasFolder(i)' => HasFolder(i) /\ path'[i] = path[i]
  BY <1>1, <1>2 DEF Stays, HasFolder
<1> QED BY <1>1, <1>4, <1>5, <1>8, <1>9, <1>10, CopiesKeep

\* An entry that is next is not in another that is to come.
LEMMA NextEntry ==
  ASSUME Calm, NEW k \in Calls, pc[k] \in {"send", "get"}, NEW e \in Here(k), NEW f \in todo[k],
         IsPrefix(f.path, e.path)
  PROVE  f = e
<1>1. e \in todo[k] /\ Parent(e.path) = at[k]
  BY DEF Here
<1>2. /\ e \in Entries /\ f \in Entries /\ e.path \in Paths /\ f.path \in Paths /\ e.path # <<>>
      /\ ~IsPrefix(f.path, at[k])
  BY <1>1, WalkIs
<1>3. f.path = e.path
  BY <1>1, <1>2, ParentOf
<1>4. f.dir = e.dir
  <2>1. Walks(k)
    BY CalmIs
  <2>2. CASE pc[k] = "send"
    BY <1>1, <1>3, <2>1, <2>2 DEF Walks
  <2>3. CASE pc[k] = "get"
    BY <1>1, <1>3, <2>1, <2>3 DEF Walks
  <2> QED BY <2>2, <2>3
<1> QED BY <1>2, <1>3, <1>4 DEF Entries

\* The recursion enters a directory: its entries are next.
LEMMA Enters ==
  ASSUME Calm, NEW k \in Calls, pc[k] \in {"send", "get"}, NEW e \in Here(k), NEW U,
         \A c \in U : c.path \in Paths /\ c.path # <<>> /\ Parent(c.path) = e.path,
         at'[k] = e.path, todo'[k] = (todo[k] \ {e}) \cup U, Start(k)' = Start(k)
  PROVE  /\ IsPrefix(Start(k)', at'[k])
         /\ \A f \in todo'[k] : /\ IsPrefix(Start(k)', Parent(f.path))
                               /\ IsPrefix(Parent(f.path), at'[k])
                               /\ ~IsPrefix(f.path, at'[k])
<1>1. e \in todo[k] /\ Parent(e.path) = at[k]
  BY DEF Here
<1>2. /\ Start(k) \in Paths /\ at[k] \in Paths /\ e.path \in Paths /\ e.path # <<>>
      /\ IsPrefix(Start(k), at[k])
  BY <1>1, WalkIs
<1>3. IsPrefix(at[k], e.path)
  BY <1>1, <1>2, ParentOf
<1>4. IsPrefix(Start(k), e.path)
  BY <1>2, <1>3, PrefixOrder
<1>5. ASSUME NEW f \in todo[k] \ {e}
      PROVE  /\ IsPrefix(Start(k), Parent(f.path)) /\ IsPrefix(Parent(f.path), e.path)
             /\ ~IsPrefix(f.path, e.path)
  <2>1. /\ IsPrefix(Start(k), Parent(f.path)) /\ IsPrefix(Parent(f.path), at[k])
        /\ Parent(f.path) \in Paths
    BY WalkIs
  <2>2. ~IsPrefix(f.path, e.path)
    BY NextEntry
  <2> QED BY <1>2, <1>3, <2>1, <2>2, PrefixOrder
<1>6. ASSUME NEW f \in U
      PROVE  /\ IsPrefix(Start(k), Parent(f.path)) /\ IsPrefix(Parent(f.path), e.path)
             /\ ~IsPrefix(f.path, e.path)
  <2>1. IsPrefix(e.path, f.path) /\ e.path # f.path /\ f.path \in Paths /\ Parent(f.path) = e.path
    BY ParentOf
  <2> QED BY <1>2, <1>4, <2>1, PrefixOrder
<1> QED BY <1>4, <1>5, <1>6

LEMMA SendCopies ==
  ASSUME Calm, TypeOK', NEW k \in Calls, NEW e \in todo[k], SendFile(k, e) \/ SendDirectory(k, e)
  PROVE  Copies'
<1> DEFINE t == job[k].tree
<1>1. /\ Step(k) /\ UNCHANGED <<pc, job, path, got>>
      /\ pc[k] = "send" /\ using[k] = k /\ chan[k].open /\ e \in Here(k)
      /\ \A i \in Calls \ {k} : Stays(i)
  <2>1. Step(k) /\ UNCHANGED <<pc, job, path, got>>
    BY DEF SendFile, SendDirectory, Step
  <2>2. pc[k] = "send" /\ Usable(using[k]) /\ e \in Here(k)
    BY DEF SendFile, SendDirectory
  <2>3. using[k] = k /\ chan[k].open
    BY <2>2, Mine DEF Usable
  <2> QED BY <2>1, <2>2, <2>3, CalmIs, OthersStay
<1>2. /\ t \in Trees /\ job[k].op = "store" /\ HasFolder(k) /\ path[k] \in Paths
      /\ e.path \in Everything(t) /\ e.dir = (e.path \in t.dirs) /\ e.path \in Paths
  <2>1. Walks(k)
    BY CalmIs
  <2> QED BY <1>1, <2>1, WalkIs DEF Walks
<1>3. /\ There(k, e) = path[k] \o e.path /\ There(k, e) \in Paths
      /\ IsPrefix(path[k], There(k, e)) /\ Parent(e.path) = at[k]
  BY <1>1, ThereInFolder
<1>4. /\ remote' = With(path[k] \o e.path, IF e.path \in t.dirs THEN Dir ELSE Content(k, e.path))
      /\ Aside(k)
  <2>1. CASE SendFile(k, e)
    <3>1. ~e.dir /\ remote' = With(There(k, e), Content(k, e.path)) /\ ~IsDir(There(k, e))
      BY <2>1 DEF SendFile
    <3>2. Content(k, e.path) # Dir
      BY <1>2, NotDirectories
    <3>3. Aside(k)
      BY <1>1, <1>2, <1>3, <3>1, <3>2, WriteAside
    <3> HIDE DEF t
    <3> QED BY <1>2, <1>3, <3>1, <3>3
  <2>2. CASE SendDirectory(k, e)
    <3>1. /\ e.dir /\ remote' = With(There(k, e), Dir)
          /\ There(k, e) \in DOMAIN remote => IsDir(There(k, e))
      BY <2>2 DEF SendDirectory
    <3>2. Aside(k)
      BY <1>1, <1>2, <1>3, <3>1, WriteAside
    <3> HIDE DEF t
    <3> QED BY <1>2, <1>3, <3>1, <3>2
  <2> QED BY <2>1, <2>2
<1>5. PICK U : /\ todo'[k] = (todo[k] \ {e}) \cup U
               /\ e.path \notin t.dirs => U = {} /\ at'[k] = at[k] /\ chan' = chan
               /\ e.path \in t.dirs =>
                    U = Children(t, e.path) /\ at'[k] = e.path /\ MoveTo(k, There(k, e))
  <2>1. CASE SendFile(k, e)
    <3>1. todo'[k] = todo[k] \ {e} /\ UNCHANGED <<at, chan>> /\ ~e.dir
      BY <2>1, CalmIs, Typed DEF SendFile, Take, CallType
    <3>2. todo'[k] = (todo[k] \ {e}) \cup {}
      BY <3>1
    <3> HIDE DEF t
    <3> QED BY <1>2, <3>1, <3>2
  <2>2. CASE SendDirectory(k, e)
    <3>1. /\ todo'[k] = (todo[k] \ {e}) \cup Children(t, e.path)
          /\ at'[k] = e.path /\ MoveTo(k, There(k, e)) /\ e.dir
      BY <1>1, <2>2, CalmIs, Typed DEF SendDirectory, CallType
    <3> HIDE DEF t
    <3> QED BY <1>2, <3>1
  <2> QED BY <2>1, <2>2
<1>6. /\ \A c \in U : /\ c.path \in Everything(t) /\ c.path \in Paths /\ c.path # <<>>
                      /\ Parent(c.path) = e.path /\ c.dir = (c.path \in t.dirs)
                      /\ IsPrefix(e.path, c.path) /\ c.path # e.path
      /\ \A q \in Everything(t) : IsPrefix(e.path, q) /\ e.path # q =>
           \E c \in U : IsPrefix(c.path, q)
  <2>1. CASE e.path \in t.dirs
    BY <1>2, <1>5, <2>1, ChildIs, ChildTowards
  <2>2. CASE e.path \notin t.dirs
    BY <1>2, <1>5, <2>2, InTrees
  <2> QED BY <2>1, <2>2
<1> HIDE DEF t
<1>7. Where(k)'
  <2>1. CASE e.path \in t.dirs
    <3>1. PICK w : w = There(k, e)
      OBVIOUS
    <3>2. chan'[k].cwd = path[k] \o e.path
      BY <1>3, <1>5, <2>1, <3>1, CalmIs, MyMove
    <3> QED BY <1>1, <1>5, <2>1, <3>2 DEF Where
  <2>2. CASE e.path \notin t.dirs
    <3>1. Where(k)
      BY CalmIs
    <3> QED BY <1>1, <1>5, <2>2, <3>1 DEF Where
  <2> QED BY <2>1, <2>2
<1>8. Walks(k)'
  <2>1. Walks(k) /\ Start(k)' = Start(k)
    BY <1>1, <1>2, CalmIs DEF Start
  <2>2. \A f \in todo'[k] : f.path \in Everything(t) /\ f.dir = (f.path \in t.dirs)
    BY <1>1, <1>5, <1>6, <2>1 DEF Walks, t
  <2>3. /\ IsPrefix(Start(k)', at'[k])
        /\ \A f \in todo'[k] : /\ IsPrefix(Start(k)', Parent(f.path))
                              /\ IsPrefix(Parent(f.path), at'[k])
                              /\ ~IsPrefix(f.path, at'[k])
    <3>1. CASE e.path \in t.dirs
      BY <1>1, <1>5, <1>6, <2>1, <3>1, Enters
    <3>2. CASE e.path \notin t.dirs
      BY <1>1, <1>5, <2>1, <3>2 DEF Walks
    <3> QED BY <3>1, <3>2
  <2> QED BY <1>1, <2>2, <2>3 DEF Walks, t
<1>9. \A q \in Everything(t) : Left(k, q)' <=> Left(k, q) /\ q # e.path
  <2> SUFFICES ASSUME NEW q \in Everything(t) PROVE Left(k, q)' <=> Left(k, q) /\ q # e.path
    OBVIOUS
  <2>1. q \in Paths /\ \A f \in todo[k] : f.path \in Paths
    BY <1>1, <1>2, InTrees, WalkIs
  <2>2. ASSUME Left(k, q), q # e.path PROVE Left(k, q)'
    <3>1. PICK f \in todo[k] : IsPrefix(f.path, q)
      BY <2>2 DEF Left
    <3>2. CASE f = e
      <4>1. PICK c \in U : IsPrefix(c.path, q)
        BY <1>6, <2>2, <3>1, <3>2
      <4> QED BY <1>5, <4>1 DEF Left
    <3>3. CASE f # e
      BY <1>5, <3>1, <3>3 DEF Left
    <3> QED BY <3>2, <3>3
  <2>3. ASSUME Left(k, q)' PROVE Left(k, q) /\ q # e.path
    <3>1. PICK f \in (todo[k] \ {e}) \cup U : IsPrefix(f.path, q)
      BY <1>5, <2>3 DEF Left
    <3>2. CASE f \in todo[k] \ {e}
      <4>1. ~IsPrefix(f.path, e.path)
        BY <1>1, <3>2, NextEntry
      <4> QED BY <3>1, <3>2, <4>1 DEF Left
    <3>3. CASE f \in U
      <4>1. f.path \in Paths /\ IsPrefix(e.path, f.path) /\ f.path # e.path
        BY <1>6, <3>3
      <4>2. IsPrefix(e.path, q) /\ q # e.path
        BY <1>2, <2>1, <3>1, <4>1, PrefixOrder
      <4> QED BY <4>2 DEF Left
    <3> QED BY <3>1, <3>2, <3>3
  <2> QED BY <2>2, <2>3
<1>10. Sent(k)'
  <2>1. Copied(k)' = Copied(k) \cup {e.path}
    <3>1. Copied(k) = {q \in Everything(t) : ~Left(k, q)}
      BY <1>1 DEF Copied, t
    <3>2. Copied(k)' = {q \in Everything(t) : ~Left(k, q)'}
      BY <1>1 DEF Copied, t
    <3> QED BY <1>2, <1>9, <3>1, <3>2
  <2> QED BY <1>1, <1>2, <1>4, <2>1, SentMore DEF t
<1>11. Fetched(k)'
  BY <1>1, <1>2, CalmIs DEF Fetched
<1>12. \A i \in Calls : HasFolder(i)' => HasFolder(i) /\ path'[i] = path[i]
  BY <1>1 DEF HasFolder
<1> QED BY <1>1, <1>4, <1>7, <1>8, <1>10, <1>11, <1>12, CopiesKeep

-----------------------------------------------------------------------------
(***************************************************************************)
(* What a step does for the call that takes it: a retrieve.                *)
(***************************************************************************)
LEMMA ListingIs ==
  ASSUME TypeOK, NEW p \in Paths
  PROVE  /\ \A f \in Listing(p) :
              /\ f.path \in DOMAIN remote /\ f.path \in Paths /\ f.path # <<>> /\ Parent(f.path) = p
              /\ f.dir = IsDir(f.path) /\ IsPrefix(p, f.path) /\ f.path # p
              /\ ~IsPrefix(f.path, p)
         /\ \A q \in DOMAIN remote : IsPrefix(p, q) /\ p # q =>
              \E f \in Listing(p) : IsPrefix(f.path, q)
<1>1. ASSUME NEW f \in Listing(p)
      PROVE  /\ f.path \in DOMAIN remote /\ f.path \in Paths /\ f.path # <<>> /\ Parent(f.path) = p
             /\ f.dir = IsDir(f.path) /\ IsPrefix(p, f.path) /\ f.path # p
             /\ ~IsPrefix(f.path, p)
  <2>1. f \in Entries /\ Parent(f.path) = p /\ f.path \in DOMAIN remote /\ f.dir = IsDir(f.path)
    BY Typed, ListingType
  <2>2. f.path \in Paths /\ f.path # <<>>
    BY <2>1 DEF Entries
  <2>3. IsPrefix(p, f.path) /\ f.path # p
    BY <2>1, <2>2, ParentOf
  <2> QED BY <2>1, <2>2, <2>3, PrefixOrder
<1>2. ASSUME NEW q \in DOMAIN remote, IsPrefix(p, q), p # q
      PROVE  \E f \in Listing(p) : IsPrefix(f.path, q)
  <2>1. q \in Paths
    BY Typed, ServerIs
  <2>2. PICK c \in Paths : c # <<>> /\ Parent(c) = p /\ IsPrefix(c, q)
    BY <1>2, <2>1, Towards
  <2>3. c \in DOMAIN remote
    BY <2>2, Typed, ServerIs
  <2>4. [path |-> c, dir |-> IsDir(c)] \in Listing(p)
    BY <2>2, <2>3 DEF Listing
  <2> QED BY <2>2, <2>4
<1> QED BY <1>1, <1>2

LEMMA StatBaseCopies ==
  ASSUME Calm, TypeOK', NEW k \in Calls, StatBase(k)
  PROVE  Copies'
<1>1. /\ Step(k) /\ remote' = remote /\ UNCHANGED <<job, got>>
      /\ pc[k] = "base" /\ pc'[k] = "get" /\ chan[k].open /\ Field(k) = k /\ Cwd(k) = chan[k].cwd
      /\ job[k].op = "retrieve" /\ job[k].path \in Paths
      /\ \A i \in Calls \ {k} : Stays(i)
  <2>1. /\ Step(k) /\ remote' = remote /\ UNCHANGED <<job, got>> /\ pc[k] = "base"
        /\ job[k].op = "retrieve" /\ Usable(Field(k)) /\ pc' = [pc EXCEPT ![k] = "get"]
    BY DEF StatBase, Step
  <2>2. Field(k) = k /\ Cwd(k) = chan[k].cwd /\ chan[k].open /\ pc'[k] = "get"
    BY <2>1, Mine, CalmIs, Typed DEF Usable
  <2>3. job[k].path \in Paths
    BY <2>1, CalmIs, JobIs
  <2> QED BY <2>1, <2>2, <2>3, CalmIs, OthersStay
<1>2. PICK p \in Paths : p = job[k].path
  BY <1>1
<1>3. path'[k] = p /\ p \in DOMAIN remote
  <2>1. chan[k].cwd = <<>>
    BY <1>1, CalmIs DEF Where
  <2>2. <<>> \o p = p
    BY Within
  <2>3. path' = [path EXCEPT ![k] = <<>> \o job[k].path] /\ path'[k] \in DOMAIN remote
    BY <1>1, <2>1 DEF StatBase
  <2>4. path'[k] = p
    BY <1>2, <2>2, <2>3, CalmIs, Typed DEF CallType
  <2> QED BY <2>3, <2>4
<1>4. PICK d \in Paths : d = IF IsDir(p) THEN p ELSE Parent(p)
  BY ParentIn
<1>5. /\ MoveTo(k, d) /\ at'[k] = d
      /\ todo'[k] = IF IsDir(p) THEN Listing(p) ELSE {[path |-> p, dir |-> FALSE]}
  <2>1. /\ MoveTo(k, d) /\ at' = [at EXCEPT ![k] = d]
        /\ todo' = [todo EXCEPT ![k] =
                      IF IsDir(p) THEN Listing(p) ELSE {[path |-> p, dir |-> FALSE]}]
    <3>1. /\ chan' = [chan EXCEPT ![k].cwd = IF IsDir(path'[k]) THEN path'[k] ELSE Parent(path'[k])]
          /\ at' = [at EXCEPT ![k] = IF IsDir(path'[k]) THEN path'[k] ELSE Parent(path'[k])]
          /\ todo' = [todo EXCEPT ![k] = IF IsDir(path'[k]) THEN Listing(path'[k])
                                         ELSE {[path |-> path'[k], dir |-> FALSE]}]
      BY <1>1 DEF StatBase, MoveTo
    <3>2. d = IF IsDir(path'[k]) THEN path'[k] ELSE Parent(path'[k])
      BY <1>3, <1>4
    <3> QED BY <1>3, <3>1, <3>2 DEF MoveTo
  <2> QED BY <2>1, CalmIs, Typed DEF CallType
<1>6. ~IsDir(p) => p # <<>> /\ Parent(p) = d /\ ~IsPrefix(p, d)
  <2>1. IsDir(<<>>)
    BY CalmIs DEF TypeOK, Server
  <2>2. p # <<>> => IsPrefix(Parent(p), p) /\ Parent(p) # p
    BY ParentOf
  <2> QED BY <1>4, <2>1, <2>2, PrefixOrder
<1>7. Where(k)'
  <2>1. chan'[k].cwd = d
    BY <1>5, CalmIs, MyMove
  <2> QED BY <1>1, <1>5, <2>1 DEF Where
<1>8. Walks(k)'
  <2>1. Start(k)' = d
    BY <1>1, <1>3, <1>4 DEF Start, IsDir
  <2>2. IsPrefix(d, d) /\ IsPrefix(p, p)
    BY PrefixOrder
  <2>3. \A e \in todo'[k] : /\ e.path \in Below(p) /\ e.dir = IsDir(e.path)
                           /\ Parent(e.path) = d /\ ~IsPrefix(e.path, d)
    <3>1. CASE IsDir(p)
      BY <1>4, <1>5, <3>1, CalmIs, ListingIs DEF Below
    <3>2. CASE ~IsDir(p)
      <4>1. \A e \in todo'[k] : e.path = p /\ e.dir = FALSE
        BY <1>5, <3>2
      <4>2. p \in Below(p) /\ IsDir(p) = FALSE
        BY <1>3, <2>2, <3>2 DEF Below
      <4> QED BY <1>6, <3>2, <4>1, <4>2
    <3> QED BY <3>1, <3>2
  <2>4. Below(path[k])' = Below(p) /\ \A q : IsDir(q)' = IsDir(q)
    BY <1>1, <1>3 DEF Below, IsDir
  <2> QED BY <1>1, <1>5, <2>1, <2>2, <2>3, <2>4 DEF Walks
<1>9. Fetched(k)'
  <2>1. Fetched(k)
    BY CalmIs
  <2>2. Settled(job[k].path)'
    BY <1>1, <2>1, SettledStays DEF Fetched
  <2>3. \A q \in Below(p) : ~IsDir(q) => Left(k, q)'
    <3> SUFFICES ASSUME NEW q \in Below(p), ~IsDir(q) PROVE Left(k, q)'
      OBVIOUS
    <3>1. q \in DOMAIN remote /\ IsPrefix(p, q)
      BY DEF Below
    <3>2. CASE IsDir(p)
      <4>1. PICK f \in Listing(p) : IsPrefix(f.path, q)
        BY <3>1, <3>2, CalmIs, ListingIs
      <4> QED BY <1>5, <3>2, <4>1 DEF Left
    <3>3. CASE ~IsDir(p)
      <4>1. [path |-> p, dir |-> FALSE] \in todo'[k]
        BY <1>5, <3>3
      <4> QED BY <3>1, <4>1 DEF Left
    <3> QED BY <3>2, <3>3
  <2>4. Below(job[k].path)' = Below(p) /\ \A q : IsDir(q)' = IsDir(q)
    BY <1>1, <1>2 DEF Below, IsDir
  <2>5. {q \in Below(job[k].path)' : (~IsDir(q) /\ ~Left(k, q))'} = {}
    BY <2>3, <2>4
  <2>6. got'[k] = {}
    BY <1>1, <2>1 DEF Fetched
  <2>7. {<<q, remote'[q]>> : q \in {q \in Below(job[k].path)' : (~IsDir(q) /\ ~Left(k, q))'}} = {}
    BY <2>5
  <2> QED BY <1>1, <1>2, <1>3, <2>2, <2>6, <2>7 DEF Fetched
<1>10. Sent(k)' /\ ~HasFolder(k)' /\ Aside(k)
  BY <1>1, ReadAside DEF Sent, HasFolder
<1>11. \A i \in Calls : HasFolder(i)' => HasFolder(i) /\ path'[i] = path[i]
  BY <1>1, <1>10 DEF Stays, HasFolder
<1> QED BY <1>1, <1>7, <1>8, <1>9, <1>10, <1>11, CopiesKeep

LEMMA GetCopies ==
  ASSUME Calm, TypeOK', NEW k \in Calls, NEW e \in todo[k], GetFile(k, e) \/ GetDirectory(k, e)
  PROVE  Copies'
<1>1. /\ Step(k) /\ remote' = remote /\ UNCHANGED <<pc, job, path>>
      /\ pc[k] = "get" /\ using[k] = k /\ chan[k].open /\ e \in Here(k)
      /\ \A i \in Calls \ {k} : Stays(i)
  <2>1. Step(k) /\ remote' = remote /\ UNCHANGED <<pc, job, path>>
    BY DEF GetFile, GetDirectory, Step
  <2>2. pc[k] = "get" /\ Usable(using[k]) /\ e \in Here(k)
    BY DEF GetFile, GetDirectory
  <2>3. using[k] = k /\ chan[k].open
    BY <2>2, Mine DEF Usable
  <2> QED BY <2>1, <2>2, <2>3, CalmIs, OthersStay
<1>2. /\ job[k].op = "retrieve" /\ path[k] = job[k].path /\ path[k] \in DOMAIN remote
      /\ path[k] \in Paths /\ e.path \in Paths /\ e.path # <<>> /\ Parent(e.path) = at[k]
  BY <1>1, WalkIs DEF Here
<1>3. e.path \in Below(path[k]) /\ e.dir = IsDir(e.path)
  <2>1. Walks(k)
    BY CalmIs
  <2> QED BY <1>1, <2>1 DEF Walks
<1>4. There(k, e) = e.path
  <2>1. chan[k].cwd = at[k]
    BY <1>1, CalmIs DEF Where
  <2> QED BY <1>1, <1>2, <2>1, ParentOf DEF There
<1>5. PICK U : /\ todo'[k] = (todo[k] \ {e}) \cup U
               /\ ~e.dir => /\ U = {} /\ at'[k] = at[k] /\ chan' = chan
                            /\ got'[k] = got[k] \cup {<<e.path, remote[e.path]>>}
               /\ e.dir => /\ U = Listing(e.path) /\ at'[k] = e.path /\ MoveTo(k, e.path)
                           /\ got'[k] = got[k]
  <2>1. CASE GetFile(k, e)
    <3>1. /\ todo'[k] = todo[k] \ {e} /\ UNCHANGED <<at, chan>> /\ ~e.dir
          /\ got'[k] = got[k] \cup {<<e.path, remote[e.path]>>}
      BY <1>4, <2>1, CalmIs, Typed DEF GetFile, Take, CallType
    <3>2. todo'[k] = (todo[k] \ {e}) \cup {}
      BY <3>1
    <3> QED BY <3>1, <3>2
  <2>2. CASE GetDirectory(k, e)
    <3>1. \A f \in Listing(e.path) : [f EXCEPT !.path = Append(e.path, Last(f.path))] = f
      <4> SUFFICES ASSUME NEW f \in Listing(e.path)
                   PROVE  [f EXCEPT !.path = Append(e.path, Last(f.path))] = f
        OBVIOUS
      <4>1. f \in Entries /\ f.path \in Paths /\ f.path # <<>> /\ Parent(f.path) = e.path
        BY <1>2, CalmIs, Typed, ListingIs, ListingType
      <4>2. Append(e.path, Last(f.path)) = f.path
        BY <4>1, ParentOf
      <4> QED BY <4>1, <4>2 DEF Entries
    <3>2. {[f EXCEPT !.path = Append(e.path, Last(f.path))] : f \in Listing(e.path)}
            = Listing(e.path)
      BY <3>1
    <3>3. todo' = [todo EXCEPT ![k] = (@ \ {e}) \cup
                     {[f EXCEPT !.path = Append(e.path, Last(f.path))] : f \in Listing(e.path)}]
      BY <1>4, <2>2 DEF GetDirectory
    <3>4. todo'[k] = (todo[k] \ {e}) \cup Listing(e.path)
      BY <3>2, <3>3, CalmIs, Typed DEF CallType
    <3>5. at'[k] = e.path /\ MoveTo(k, e.path) /\ e.dir /\ got' = got
      BY <1>1, <1>4, <2>2, CalmIs, Typed DEF GetDirectory, CallType
    <3> QED BY <3>4, <3>5
  <2> QED BY <2>1, <2>2
<1>6. /\ \A c \in U : /\ c.path \in Paths /\ c.path # <<>> /\ Parent(c.path) = e.path
                      /\ c.path \in DOMAIN remote /\ c.dir = IsDir(c.path)
                      /\ IsPrefix(e.path, c.path) /\ c.path # e.path
      /\ \A q \in DOMAIN remote : IsPrefix(e.path, q) /\ e.path # q =>
           \E c \in U : IsPrefix(c.path, q)
  <2>1. CASE e.dir
    BY <1>2, <1>5, <2>1, CalmIs, ListingIs
  <2>2. CASE ~e.dir
    <3>1. \A q \in DOMAIN remote : IsPrefix(e.path, q) => q = e.path
      BY <1>2, <1>3, <2>2, CalmIs, Typed, ServerIs
    <3> QED BY <1>5, <2>2, <3>1
  <2> QED BY <2>1, <2>2
<1>7. \A q : IsDir(q)' = IsDir(q) /\ Below(q)' = Below(q)
  BY <1>1 DEF IsDir, Below
<1>8. Where(k)'
  <2>1. CASE e.dir
    <3>1. PICK w : w = e.path
      OBVIOUS
    <3>2. chan'[k].cwd = e.path
      BY <1>5, <2>1, <3>1, CalmIs, MyMove
    <3> QED BY <1>1, <1>5, <2>1, <3>2 DEF Where
  <2>2. CASE ~e.dir
    <3>1. Where(k)
      BY CalmIs
    <3> QED BY <1>1, <1>5, <2>2, <3>1 DEF Where
  <2> QED BY <2>1, <2>2
<1>9. Walks(k)'
  <2>1. Walks(k) /\ Start(k)' = Start(k)
    BY <1>1, CalmIs DEF Start, IsDir
  <2>2. \A f \in todo'[k] : f.path \in Below(path[k]) /\ f.dir = IsDir(f.path)
    <3>1. \A f \in todo[k] : f.path \in Below(path[k]) /\ f.dir = IsDir(f.path)
      BY <1>1, <2>1 DEF Walks
    <3>2. \A f \in U : f.path \in Below(path[k]) /\ f.dir = IsDir(f.path)
      <4>1. IsPrefix(path[k], e.path)
        BY <1>3 DEF Below
      <4> QED BY <1>2, <1>6, <4>1, PrefixOrder DEF Below
    <3> QED BY <1>5, <3>1, <3>2
  <2>3. /\ IsPrefix(Start(k)', at'[k])
        /\ \A f \in todo'[k] : /\ IsPrefix(Start(k)', Parent(f.path))
                              /\ IsPrefix(Parent(f.path), at'[k])
                              /\ ~IsPrefix(f.path, at'[k])
    <3>1. CASE e.dir
      BY <1>1, <1>5, <1>6, <2>1, <3>1, Enters
    <3>2. CASE ~e.dir
      BY <1>1, <1>5, <2>1, <3>2 DEF Walks
    <3> QED BY <3>1, <3>2
  <2>4. Below(path[k])' = Below(path[k])
    BY <1>1 DEF Below
  <2> QED BY <1>1, <1>7, <2>2, <2>3, <2>4 DEF Walks
<1>10. \A q \in Below(path[k]) : ~IsDir(q) => (Left(k, q)' <=> Left(k, q) /\ q # e.path)
  <2> SUFFICES ASSUME NEW q \in Below(path[k]), ~IsDir(q)
               PROVE  Left(k, q)' <=> Left(k, q) /\ q # e.path
    OBVIOUS
  <2>1. q \in DOMAIN remote /\ q \in Paths /\ \A f \in todo[k] : f.path \in Paths
    BY <1>1, CalmIs, Typed, ServerIs, WalkIs DEF Below
  <2>2. ASSUME Left(k, q), q # e.path PROVE Left(k, q)'
    <3>1. PICK f \in todo[k] : IsPrefix(f.path, q)
      BY <2>2 DEF Left
    <3>2. CASE f = e
      <4>1. PICK c \in U : IsPrefix(c.path, q)
        BY <1>6, <2>1, <2>2, <3>1, <3>2
      <4> QED BY <1>5, <4>1 DEF Left
    <3>3. CASE f # e
      BY <1>5, <3>1, <3>3 DEF Left
    <3> QED BY <3>2, <3>3
  <2>3. ASSUME Left(k, q)' PROVE Left(k, q) /\ q # e.path
    <3>1. PICK f \in (todo[k] \ {e}) \cup U : IsPrefix(f.path, q)
      BY <1>5, <2>3 DEF Left
    <3>2. CASE f \in todo[k] \ {e}
      <4>1. ~IsPrefix(f.path, e.path)
        BY <1>1, <3>2, NextEntry
      <4> QED BY <3>1, <3>2, <4>1 DEF Left
    <3>3. CASE f \in U
      <4>1. f.path \in Paths /\ IsPrefix(e.path, f.path) /\ f.path # e.path
        BY <1>6, <3>3
      <4>2. IsPrefix(e.path, q) /\ q # e.path
        BY <1>2, <2>1, <3>1, <4>1, PrefixOrder
      <4> QED BY <4>2 DEF Left
    <3> QED BY <3>1, <3>2, <3>3
  <2> QED BY <2>2, <2>3
<1>11. Fetched(k)'
  <2>1. Fetched(k)
    BY CalmIs
  <2>2. Settled(job[k].path)'
    BY <1>1, <1>2, <2>1, SettledStays DEF Fetched
  <2>3. got[k] = {<<p, remote[p]>> : p \in {p \in Below(path[k]) : ~IsDir(p) /\ ~Left(k, p)}}
    BY <1>1, <1>2, <2>1 DEF Fetched
  <2>4. got'[k] = {<<p, remote[p]>> : p \in {p \in Below(path[k]) : ~IsDir(p) /\ ~Left(k, p)'}}
    <3>1. CASE e.dir
      <4>1. {p \in Below(path[k]) : ~IsDir(p) /\ ~Left(k, p)'}
              = {p \in Below(path[k]) : ~IsDir(p) /\ ~Left(k, p)}
        BY <1>3, <1>10, <3>1
      <4> QED BY <1>5, <2>3, <3>1, <4>1
    <3>2. CASE ~e.dir
      <4>1. {p \in Below(path[k]) : ~IsDir(p) /\ ~Left(k, p)'}
              = {p \in Below(path[k]) : ~IsDir(p) /\ ~Left(k, p)} \cup {e.path}
        BY <1>3, <1>10, <3>2
      <4> QED BY <1>5, <2>3, <3>2, <4>1
    <3> QED BY <3>1, <3>2
  <2>5. {p \in Below(job[k].path)' : (~IsDir(p) /\ ~Left(k, p))'}
          = {p \in Below(path[k]) : ~IsDir(p) /\ ~Left(k, p)'}
    <3>1. Below(job[k].path)' = Below(path[k])
      BY <1>1, <1>2 DEF Below
    <3> QED BY <1>7, <3>1
  <2>6. got'[k] = {<<p, remote'[p]>> :
                     p \in {p \in Below(job[k].path)' : (~IsDir(p) /\ ~Left(k, p))'}}
    BY <1>1, <2>4, <2>5
  <2> QED BY <1>1, <1>2, <2>2, <2>6 DEF Fetched
<1>12. ~HasFolder(k) /\ ~HasFolder(k)' /\ Sent(k)' /\ Aside(k)
  BY <1>1, <1>2, ReadAside DEF HasFolder, Sent
<1>13. \A i \in Calls : HasFolder(i)' => HasFolder(i) /\ path'[i] = path[i]
  BY <1>1 DEF HasFolder
<1> QED BY <1>1, <1>8, <1>9, <1>11, <1>12, <1>13, CopiesKeep

-----------------------------------------------------------------------------
(***************************************************************************)
(* The inductive invariant.                                                *)
(***************************************************************************)
LEMMA InitInv == Init => IInv
<1> SUFFICES ASSUME Init PROVE IInv
  OBVIOUS
<1>1. Copies
  <2>1. ~NoChannel.open /\ NoJob.op = "none"
    BY DEF NoChannel, NoJob
  <2> QED BY <2>1 DEF Init, Copies, Apart, Where, Walks, Sent, Fetched, HasFolder
<1> QED BY <1>1, InitLinks, InitTypes, InitOwn DEF IInv

LEMMA QuietBefore ==
  ASSUME Links, [Next]_vars, Quiet'
  PROVE  Quiet
<1> SUFFICES ASSUME NEW i \in Calls PROVE alone[i]
  BY DEF Quiet
<1>1. alone'[i]
  BY DEF Quiet
<1>2. CASE UNCHANGED vars
  BY <1>1, <1>2 DEF vars
<1>3. ASSUME NEW k \in Calls, NEW j, Begin(k, j)
      PROVE  alone[i]
  <2>1. pc[k] = "idle" /\ (i # k => alone[i])
    BY <1>1, <1>3 DEF Begin
  <2> QED BY <2>1 DEF Links, Idle
<1>4. ASSUME NEW k \in Calls, Step(k)
      PROVE  alone[i]
  <2>1. alone' = alone
    BY <1>4 DEF Step, NewSession, ConnectSession, OpenChannel, CdRoot, Disconnect, CdBase,
         MakeFolder, MakeTop, StatBase, SendFile, SendDirectory, GetFile, GetDirectory,
         Leave, Done, Query, Fail
  <2> QED BY <1>1, <2>1
<1> QED BY <1>2, <1>3, <1>4 DEF Next, Finished

LEMMA CopiesStep ==
  ASSUME Calm, TypeOK', [Next]_vars
  PROVE  Copies'
<1>1. CASE UNCHANGED vars
  <2>1. Copies
    BY DEF Calm, IInv
  <2>2. UNCHANGED <<remote, chan, pc, job, path, at, todo, got>>
    BY <1>1 DEF vars
  <2>3. Apart' /\ \A i \in Calls : Where(i)'
    BY <2>1, <2>2 DEF Copies, Apart, HasFolder, Where
  <2>4. ASSUME NEW i \in Calls
        PROVE  Walks(i)' /\ Sent(i)' /\ Fetched(i)'
    <3>1. Walks(i) /\ Sent(i) /\ Fetched(i)
      BY <2>1 DEF Copies
    <3>2. \A p : IsDir(p)' = IsDir(p) /\ Below(p)' = Below(p) /\ (Left(i, p)' <=> Left(i, p))
      BY <2>2 DEF IsDir, Below, Left
    <3>3. /\ Copied(i)' = Copied(i) /\ HasFolder(i)' = HasFolder(i) /\ Start(i)' = Start(i)
          /\ Below(path[i])' = Below(path[i]) /\ Below(job[i].path)' = Below(job[i].path)
          /\ Settled(job[i].path)' = Settled(job[i].path)
      BY <2>2 DEF Copied, Left, HasFolder, Start, IsDir, Below, Settled
    <3>4. Walks(i)'
      BY <2>2, <3>1, <3>2, <3>3 DEF Walks
    <3>5. Sent(i)'
      BY <2>2, <3>1, <3>3, SentStays
    <3>6. pc[i] = "get" => path[i] \in DOMAIN remote
      BY <3>1 DEF Fetched
    <3>7. job[i].op = "retrieve" => Settled(job[i].path)
      BY <3>1 DEF Fetched
    <3>8. Fetched(i)'
      BY <2>2, <3>1, <3>2, <3>3, <3>6, <3>7, FetchedStays
    <3> QED BY <3>4, <3>5, <3>8
  <2> QED BY <2>3, <2>4 DEF Copies
<1>2. ASSUME NEW k \in Calls, Step(k)
      PROVE  Copies'
  <2>1. ASSUME NEW e \in todo[k],
               SendFile(k, e) \/ SendDirectory(k, e) \/ GetFile(k, e) \/ GetDirectory(k, e)
        PROVE  Copies'
    BY <2>1, SendCopies, GetCopies
  <2> QED BY <1>2, <2>1, ConnectCopies, CdBaseCopies, MakeFolderCopies, MakeTopCopies,
             StatBaseCopies, LeaveCopies, DoneCopies, FailCopies DEF Step
<1> QED BY <1>1, <1>2, BeginCopies DEF Next, Finished

LEMMA StepInv == IInv /\ [Next]_vars => IInv'
<1> SUFFICES ASSUME IInv, [Next]_vars PROVE IInv'
  OBVIOUS
<1>1. Links' /\ TypeOK' /\ Tasks' /\ Own'
  BY LinksStep, TypesStep, OwnStep DEF IInv
<1>2. Quiet' => Copies'
  BY <1>1, QuietBefore, CopiesStep DEF IInv, Calm
<1> QED BY <1>1, <1>2 DEF IInv

\* Who has put what into the fields and who has met whom; and as long as nobody has,
\* where every channel is, what every recursion has still to do, and what every store
\* and retrieve has.
THEOREM Invariance == Spec => []IInv
<1> QED BY InitInv, StepInv, PTL DEF Spec

\* The type of every variable, and that a channel is always in a directory that is
\* there, whatever the calls do to each other's fields.
THEOREM TypeCorrect == Spec => []TypeOK
<1>1. IInv => TypeOK
  BY DEF IInv
<1> QED BY Invariance, <1>1, PTL

\* A call that met no other on its object leaves neither its session nor its
\* channel open, wherever it failed (SFTPFileSystem.Disconnect).
THEOREM Disconnects == Spec => []Disconnected
<1>1. IInv => Disconnected
  BY DEF IInv, Links
<1> QED BY Invariance, <1>1, PTL

\* Without two calls on one object at once, a store that returned has its whole tree
\* and nothing else in its directory, for as long as the system runs, and a retrieve
\* that returned has every file there is (SFTPFileSystem.store and retrieve, Utility).
THEOREM WholeTrees == Spec => []TreesWhole
<1>1. IInv => TreesWhole
  <2> SUFFICES ASSUME IInv, Quiet, NEW k \in Calls, pc[k] = "returned"
               PROVE  /\ job[k].op = "store" =>
                           /\ Below(path[k]) = {path[k]} \cup
                                {path[k] \o p : p \in Everything(job[k].tree)}
                           /\ \A p \in job[k].tree.files : remote[path[k] \o p] = Content(k, p)
                           /\ \A p \in job[k].tree.dirs : IsDir(path[k] \o p)
                      /\ job[k].op = "retrieve" =>
                           got[k] = {<<p, remote[p]>> :
                                       p \in {p \in Below(job[k].path) : ~IsDir(p)}}
    BY DEF TreesWhole, Quiet
  <2>1. Calm
    BY DEF Calm
  <2>2. \A p : ~Left(k, p)
    BY <2>1, CalmIs DEF Walks, Left
  <2>3. ASSUME job[k].op = "store"
        PROVE  /\ Below(path[k]) = {path[k]} \cup {path[k] \o p : p \in Everything(job[k].tree)}
               /\ \A p \in job[k].tree.files : remote[path[k] \o p] = Content(k, p)
               /\ \A p \in job[k].tree.dirs : IsDir(path[k] \o p)
    <3>1. Copied(k) = Everything(job[k].tree) /\ HasFolder(k)
      BY <2>2, <2>3 DEF Copied, HasFolder
    <3>2. /\ Below(path[k]) = {path[k]} \cup {path[k] \o p : p \in Copied(k)}
          /\ \A p \in Copied(k) :
               remote[path[k] \o p] = IF p \in job[k].tree.dirs THEN Dir ELSE Content(k, p)
      BY <2>1, <3>1, CalmIs DEF Sent
    <3>3. job[k].tree \in Trees
      BY <2>1, <2>3, CalmIs, JobIs
    <3>4. \A p \in job[k].tree.files : p \in Everything(job[k].tree) /\ p \notin job[k].tree.dirs
      BY <3>3, SftpAssumption DEF Everything
    <3>5. \A p \in job[k].tree.dirs : p \in Everything(job[k].tree)
      BY DEF Everything
    <3>6. \A p \in job[k].tree.dirs : path[k] \o p \in DOMAIN remote
      BY <3>1, <3>2, <3>5 DEF Below
    <3>7. \A p \in job[k].tree.dirs : IsDir(path[k] \o p)
      BY <3>1, <3>2, <3>5, <3>6 DEF IsDir
    <3> QED BY <3>1, <3>2, <3>4, <3>7
  <2>4. ASSUME job[k].op = "retrieve"
        PROVE  got[k] = {<<p, remote[p]>> : p \in {p \in Below(job[k].path) : ~IsDir(p)}}
    <3>1. got[k] = {<<p, remote[p]>> :
                      p \in {p \in Below(job[k].path) : ~IsDir(p) /\ ~Left(k, p)}}
      BY <2>1, <2>4, CalmIs DEF Fetched
    <3>2. {p \in Below(job[k].path) : ~IsDir(p) /\ ~Left(k, p)}
          = {p \in Below(job[k].path) : ~IsDir(p)}
      BY <2>2
    <3> QED BY <3>1, <3>2
  <2> QED BY <2>3, <2>4
<1> QED BY Invariance, <1>1, PTL
=============================================================================
