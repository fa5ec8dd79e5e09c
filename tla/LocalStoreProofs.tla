-------------------------- MODULE LocalStoreProofs --------------------------
(***************************************************************************)
(* LocalStore: types, whole copies and exact counters, for any tree, any   *)
(* number of locations, any content and any number of calls and changes.   *)
(***************************************************************************)
EXTENDS LocalStore, Integers, SequenceTheorems, FiniteSetTheorems, TLAPS

-----------------------------------------------------------------------------
\* Every path is in an object, and so is the directory it is in.
LEMMA OnTree ==
  ASSUME NEW p \in Paths
  PROVE  /\ ObjectOf[p] \in Objects
         /\ Parent[p] = NoDir => p \in Objects /\ ObjectOf[p] = p
         /\ Parent[p] # NoDir => /\ p \notin Objects
                                 /\ Parent[p] \in Dirs /\ Parent[p] \in Paths
                                 /\ ObjectOf[Parent[p]] = ObjectOf[p]
  BY TreeAssumption DEF Objects, Paths

LEMMA ObjectIsTop ==
  ASSUME NEW o \in Objects
  PROVE  o \in Paths /\ Parent[o] = NoDir /\ ObjectOf[o] = o
  BY TreeAssumption DEF Objects, Paths

\* An object that is a file has nothing below it.
LEMMA FileAlone ==
  ASSUME NEW p \in Paths, ObjectOf[p] \in Files
  PROVE  p = ObjectOf[p]
<1> DEFINE S == {q \in Paths : ObjectOf[q] \in Files /\ q # ObjectOf[q]}
<1> SUFFICES S = {}
  OBVIOUS
<1> SUFFICES ASSUME S # {} PROVE FALSE
  OBVIOUS
<1>1. PICK q \in S : Parent[q] \notin S
  <2>1. S \in SUBSET Paths
    OBVIOUS
  <2> HIDE DEF S
  <2> QED BY <2>1, TreeAssumption
<1>2. Parent[q] # NoDir
  BY OnTree
<1>3. Parent[q] \in Dirs /\ Parent[q] \in Paths /\ ObjectOf[Parent[q]] = ObjectOf[q]
  BY <1>2, OnTree
<1>4. Parent[q] = ObjectOf[q]
  BY <1>1, <1>3
<1> QED BY <1>3, <1>4, TreeAssumption DEF Paths

Routes == {Locations, <<"user">>, <<>>} \cup {<<w>> : w \in Archive \cup {"working"}}

\* A route goes to different places, no more of them than there are locations.
LEMMA RouteOf ==
  ASSUME NEW r \in Routes
  PROVE  /\ r \in Seq(Places) /\ Len(r) \in Nat /\ Len(r) <= Len(Locations)
         /\ DOMAIN r = 1 .. Len(r)
         /\ \A i \in DOMAIN r : i \in Nat /\ i <= Len(r) /\ r[i] \in Places
         /\ \A i, j \in DOMAIN r : r[i] = r[j] => i = j
<1>1. Len(Locations) \in Nat /\ Len(Locations) >= 1 /\ Locations \in Seq(Places)
  <2>1. Archive \subseteq Places
    BY DEF Places
  <2>2. Locations \in Seq(Places)
    BY <2>1, CopyAssumption, SeqMonotonic
  <2> QED BY <2>2, CopyAssumption, EmptySeq, LenProperties
<1>2. CASE r = Locations
  BY <1>1, <1>2, CopyAssumption, LenProperties, ElementOfSeq
<1>3. CASE r = <<>>
  BY <1>1, <1>3, EmptySeq, LenProperties
<1>5. CASE \E w \in Places : r = <<w>>
  <2>1. PICK w \in Places : r = <<w>>
    BY <1>5
  <2>2. r \in Seq(Places) /\ Len(r) = 1 /\ DOMAIN r = 1 .. 1 /\ r[1] = w
    BY <2>1
  <2> QED BY <1>1, <2>2
<1>6. r = Locations \/ r = <<>> \/ \E w \in Places : r = <<w>>
  <2>1. {"user", "working"} \cup Archive \subseteq Places
    BY DEF Places
  <2>2. \/ r = Locations \/ r = <<"user">> \/ r = <<>>
        \/ r \in {<<w>> : w \in Archive \cup {"working"}}
    BY DEF Routes
  <2> QED BY <2>1, <2>2
<1> QED BY <1>2, <1>3, <1>5, <1>6

\* Where a copy goes.
LEMMA Destination ==
  ASSUME TypeOK, Shape, InRound \/ pc = "location"
  PROVE  /\ To \in Places /\ from \in Places /\ To # from
         /\ at \in Nat /\ at >= 1 /\ at <= Len(route) /\ Len(route) \in Nat
         /\ at # Len(route) => at + 1 \in DOMAIN route
         /\ at + 1 <= Len(Locations) + 1
         /\ DOMAIN route = 1 .. Len(route)
         /\ \A i \in DOMAIN route : /\ i \in Nat /\ i <= Len(route)
                                   /\ route[i] \in Places /\ (route[i] = To => i = at)
         /\ obj \in Objects /\ obj \in Paths /\ ObjectOf[obj] = obj /\ Moves
<1>1. route \in Routes /\ at \in DOMAIN route /\ Moves /\ from \in Places /\ obj \in Objects
  BY DEF TypeOK, Routes, Shape, InRound
<1>2. from # To
  BY <1>1 DEF Moves, To
<1>3. Len(Locations) \in Nat
  BY CopyAssumption, LenProperties
<1> QED BY <1>1, <1>2, <1>3, RouteOf, ObjectIsTop DEF To

-----------------------------------------------------------------------------
\* Units of finitely many files are finitely many.
LEMMA BytesFinite ==
  ASSUME NEW F \in SUBSET Files, NEW s, \A f \in F : s[f] \in Contents
  PROVE  IsFiniteSet(UNION {{f} \X (1 .. Len(s[f])) : f \in F})
<1> DEFINE G == [f \in F |-> {f} \X (1 .. Len(s[f]))]
           T == {G[f] : f \in F}
<1>1. IsFiniteSet(F)
  <2>1. IsFiniteSet(Paths) /\ F \in SUBSET Paths
    BY TreeAssumption DEF Paths
  <2> QED BY <2>1, FS_Subset
<1>2. IsFiniteSet(T)
  <2>1. G \in Surjection(F, T)
    BY DEF Surjection
  <2> HIDE DEF G, T
  <2> QED BY <1>1, <2>1, FS_Surjection
<1>3. \A U \in T : IsFiniteSet(U)
  <2> SUFFICES ASSUME NEW f \in F PROVE IsFiniteSet({f} \X (1 .. Len(s[f])))
    OBVIOUS
  <2>1. Len(s[f]) \in Nat
    BY LenProperties DEF Contents
  <2>2. IsFiniteSet({f})
    BY FS_Singleton
  <2>3. IsFiniteSet(1 .. Len(s[f]))
    BY <2>1, FS_Interval
  <2> QED BY <2>2, <2>3, FS_Product
<1>4. UNION T = UNION {{f} \X (1 .. Len(s[f])) : f \in F}
  OBVIOUS
<1> HIDE DEF T
<1> QED BY <1>2, <1>3, <1>4, FS_UNION

\* More units of a file.
LEMMA UnitsMore ==
  ASSUME NEW S, IsFiniteSet(S), NEW f, NEW U, IsFiniteSet(U), NEW T, T = {f} \X U,
         S \cap T = {}
  PROVE  Cardinality(S \cup T) = Cardinality(S) + Cardinality(U)
<1>1. IsFiniteSet({f}) /\ Cardinality({f}) = 1
  BY FS_Singleton
<1>2. IsFiniteSet(T) /\ Cardinality(T) = Cardinality({f}) * Cardinality(U)
  BY <1>1, FS_Product
<1>3. Cardinality(U) \in Nat /\ Cardinality(S) \in Nat /\ Cardinality({}) = 0
  BY FS_CardinalityType, FS_EmptySet
<1>4. Cardinality(T) = Cardinality(U)
  BY <1>1, <1>2, <1>3
<1>5. Cardinality(S \cup T) = Cardinality(S) + Cardinality(T) - Cardinality(S \cap T)
  BY <1>2, FS_Union
<1>6. Cardinality(S \cap T) = 0
  <2>1. S \cap T = {}
    OBVIOUS
  <2> QED BY <1>3, <2>1
<1> QED BY <1>3, <1>4, <1>5, <1>6

\* k - 1 rounds and a part of the next are no more than n rounds.
LEMMA WithinRounds ==
  ASSUME NEW B \in Nat, NEW b \in Nat, b <= B, NEW n \in Nat, NEW k \in 1 .. n
  PROVE  (k - 1) * B + b <= B * n
<1>1. (k - 1) * B + b <= (k - 1) * B + B
  OBVIOUS
<1>2. (k - 1) * B + B = B * k
  OBVIOUS
<1>3. B * k <= B * n
  <2>1. n - k \in Nat /\ B * n = B * k + B * (n - k)
    OBVIOUS
  <2>2. B * (n - k) \in Nat /\ B * k \in Nat /\ B * n \in Nat
    BY <2>1
  <2> QED BY <2>1, <2>2
<1>4. B * k \in Nat /\ B * n \in Nat /\ (k - 1) * B \in Nat
  OBVIOUS
<1> QED BY <1>1, <1>2, <1>3, <1>4

-----------------------------------------------------------------------------
\* What there is of an object is finite.
LEMMA Finite ==
  ASSUME TypeOK
  PROVE  /\ IsFiniteSet(Files) /\ IsFiniteSet(Dirs)
         /\ IsFiniteSet(Found) /\ Cardinality(Found) \in Nat
         /\ IsFiniteSet(FoundDirs) /\ Cardinality(FoundDirs) \in Nat
         /\ IsFiniteSet(Bytes) /\ Cardinality(Bytes) \in Nat
<1>1. IsFiniteSet(Files) /\ IsFiniteSet(Dirs)
  <2>1. IsFiniteSet(Paths) /\ Files \in SUBSET Paths /\ Dirs \in SUBSET Paths
    BY TreeAssumption DEF Paths
  <2> QED BY <2>1, FS_Subset
<1>2. Found \in SUBSET Files /\ FoundDirs \in SUBSET Dirs
  BY DEF Found, FoundDirs, TypeOK
<1>3. IsFiniteSet(Bytes)
  <2>1. \A f \in Found : disk[from][f] \in Contents
    BY DEF TypeOK, Found
  <2> QED BY <1>2, <2>1, BytesFinite DEF Bytes, BytesOf
<1>4. IsFiniteSet(Found) /\ IsFiniteSet(FoundDirs)
  BY <1>1, <1>2, FS_Subset
<1> QED BY <1>1, <1>3, <1>4, FS_CardinalityType

-----------------------------------------------------------------------------
\* Back at the object, no other directory is open and nothing is waiting.
LEMMA ChainEnds ==
  ASSUME TypeOK, Shape, pc = "walk", cur = obj, \A p \in todo : Parent[p] # cur,
         NEW A \in SUBSET Dirs, Chain(A)
  PROVE  A = {obj} /\ todo = {}
<1> DEFINE S == A \ {obj}
<1>1. S = {}
  <2> SUFFICES ASSUME S # {} PROVE FALSE
    OBVIOUS
  <2>1. PICK d \in S : Parent[d] \notin S
    <3>1. S \in SUBSET Paths
      BY DEF Paths
    <3> HIDE DEF S
    <3> QED BY <3>1, TreeAssumption
  <2>2. Parent[d] \in A /\ Parent[d] # obj
    BY DEF Chain
  <2> QED BY <2>1, <2>2
<1>2. A = {obj}
  BY <1>1 DEF Chain
<1> QED BY <1>2 DEF Chain

-----------------------------------------------------------------------------
\* An object that is not in a place has nothing there.
LEMMA Absent ==
  ASSUME TypeOK, Rooted, obj \in Objects, ~Present(from, obj),
         NEW p \in Paths, ObjectOf[p] = obj
  PROVE  ~Present(from, p)
<1> DEFINE S == {q \in Paths : ObjectOf[q] = obj /\ Present(from, q)}
<1> SUFFICES ASSUME S # {} PROVE FALSE
  OBVIOUS
<1>1. PICK q \in S : Parent[q] \notin S
  <2>1. S \in SUBSET Paths
    OBVIOUS
  <2> HIDE DEF S
  <2> QED BY <2>1, TreeAssumption
<1>2. q \in Paths /\ ObjectOf[q] = obj /\ Present(from, q) /\ from \in Places
  BY DEF TypeOK
<1>3. CASE Parent[q] = NoDir
  BY <1>2, <1>3, OnTree
<1>4. CASE Parent[q] # NoDir
  <2>1. Parent[q] \in dirs[from]
    BY <1>2, <1>4 DEF Rooted
  <2>2. Parent[q] \in Dirs /\ Parent[q] \in Paths /\ ObjectOf[Parent[q]] = obj
    BY <1>2, <1>4, OnTree
  <2>3. Present(from, Parent[q])
    BY <2>1, <2>2 DEF Present
  <2> QED BY <1>1, <2>2, <2>3
<1> QED BY <1>3, <1>4

\* When the directory of the object is left, nothing is waiting, the recursion is
\* over, every directory was listed and every file is copied.
LEMMA AllDone ==
  ASSUME TypeOK, Rooted, Shape, pc = "walk", ~edited,
         \A p \in todo : Parent[p] # cur, cur = obj,
         NEW A \in SUBSET Dirs, NEW V \in SUBSET Dirs, Round(A, V)
  PROVE  V = FoundDirs /\ Done(V) = Found /\ Whole(To)
<1>1. /\ Chain(A) /\ Listed(A, V) /\ obj \in Dirs /\ obj \in Objects /\ from \in Places
      /\ To \in Places
  BY Destination DEF Shape, InRound, InFile, InTree, Round, TypeOK, Objects, Paths
<1>2. obj \in V
  BY <1>1 DEF Chain, Listed
<1>3. todo = {} /\ \A p \in Paths : ~AtHand(p)
  BY <1>1, ChainEnds DEF AtHand, InFile
<1> DEFINE Reached(q) == q \in V \/ (q \in Files /\ Parent[q] \in V /\ disk[To][q] = disk[from][q])
           S == {q \in Paths : ObjectOf[q] = obj /\ Present(from, q) /\ ~Reached(q)}
<1>4. S = {}
  <2> SUFFICES ASSUME S # {} PROVE FALSE
    OBVIOUS
  <2>1. PICK q \in S : Parent[q] \notin S
    <3>1. S \in SUBSET Paths
      OBVIOUS
    <3> HIDE DEF S
    <3> QED BY <3>1, TreeAssumption
  <2>2. q \in Paths /\ ObjectOf[q] = obj /\ Present(from, q) /\ ~Reached(q)
    OBVIOUS
  <2>3. Parent[q] # NoDir
    BY <1>2, <2>2, OnTree
  <2>4. /\ Parent[q] \in Dirs /\ Parent[q] \in Paths /\ ObjectOf[Parent[q]] = obj
        /\ Parent[q] \in dirs[from]
    BY <1>1, <2>2, <2>3, OnTree DEF Rooted
  <2>5. Present(from, Parent[q])
    BY <2>4 DEF Present
  <2>6. Reached(Parent[q])
    BY <2>1, <2>4, <2>5
  <2>7. Parent[q] \in V
    BY <2>4, <2>6, TreeAssumption
  <2>8. q \in V \/ (q \in Files /\ disk[To][q] = disk[from][q])
    BY <1>1, <1>3, <2>2, <2>7 DEF Listed
  <2> QED BY <2>2, <2>7, <2>8
<1>5. \A q \in Paths : ObjectOf[q] = obj /\ Present(from, q) => Reached(q)
  BY <1>4
<1> HIDE DEF S
<1>6. V = FoundDirs
  <2>1. V \subseteq FoundDirs
    BY <1>1 DEF Listed, FoundDirs
  <2>2. ASSUME NEW d \in FoundDirs PROVE d \in V
    <3>1. d \in Dirs /\ d \in Paths /\ ObjectOf[d] = obj /\ Present(from, d)
      BY <1>1 DEF FoundDirs, TypeOK, Paths, Present
    <3> QED BY <1>5, <3>1, TreeAssumption
  <2> QED BY <2>1, <2>2
<1>7. \A f \in Found : Parent[f] \in V /\ disk[To][f] = disk[from][f]
  <2> SUFFICES ASSUME NEW f \in Found PROVE Reached(f) /\ f \notin Dirs
    BY <1>6
  <2>1. f \in Files /\ f \in Paths /\ f \notin Dirs /\ ObjectOf[f] = obj /\ disk[from][f] # NoFile
    BY TreeAssumption DEF Found, InObject, Paths
  <2>2. Present(from, f)
    BY <2>1 DEF Present
  <2> QED BY <1>5, <2>1, <2>2
<1>8. Done(V) = Found
  BY <1>3, <1>7 DEF Done, Found, Paths
<1>9. Whole(To)
  <2> SUFFICES ASSUME NEW p \in Paths, ObjectOf[p] = obj, Present(from, p)
               PROVE  Present(To, p) /\ (p \in Files => disk[To][p] = disk[from][p])
    BY DEF Whole
  <2>1. CASE p \in Dirs
    <3>1. p \in V
      BY <1>5, <2>1, TreeAssumption
    <3> QED BY <3>1, <2>1, <1>1, TreeAssumption DEF Listed, Present
  <2>2. CASE p \in Files
    <3>1. p \notin Dirs /\ p \in Found
      BY <2>2, TreeAssumption DEF Found, InObject, Present
    <3> QED BY <1>7, <2>2, <3>1 DEF Present
  <2> QED BY <2>1, <2>2 DEF Paths
<1> QED BY <1>6, <1>8, <1>9

-----------------------------------------------------------------------------
\* A location is done: what the places before it have stays, and the counters hold
\* a whole object more.
LEMMA Arrive ==
  ASSUME IInv, InRound \/ pc = "location", NextLocation, TypeOK', todo' = {},
         UNCHANGED <<disk, dirs, obj, from, route, edited, before>>,
         ~edited => /\ Whole(To)
                    /\ progress' = Totals(at)
  PROVE  Rooted' /\ Shape' /\ Faithful' /\ CopiesWhole' /\ Rounds' /\ Totalled'
<1>1. /\ TypeOK /\ Rooted /\ Shape /\ CopiesWhole
      /\ at' = at + 1 /\ pc' = IF at = Len(route) THEN "returned" ELSE "location"
  BY DEF IInv, NextLocation
<1>2. /\ at \in Nat /\ at >= 1 /\ at <= Len(route) /\ Len(route) \in Nat /\ Moves /\ obj \in Objects
      /\ at # Len(route) => at + 1 \in DOMAIN route
      /\ DOMAIN route = 1 .. Len(route)
  BY <1>1, Destination
<1>0. at' = at + 1 /\ at \in Nat
  BY <1>1, <1>2
<1>3. Moves' /\ ~InRound' /\ ~InFile' /\ ~InTree'
  BY <1>1, <1>2 DEF Moves, InRound, InFile, InTree
<1>4. Rooted'
  BY <1>1 DEF Rooted, Present
<1>5. Shape'
  BY <1>1, <1>2, <1>3 DEF Shape, InRound, InFile, InTree, Ended
<1>6. Faithful'
  BY <1>1, <1>3 DEF Faithful
<1>7. CopiesWhole'
  <2> SUFFICES ASSUME ~edited, NEW k \in DOMAIN route
               PROVE  /\ k < at' \/ pc' = "returned" => Whole(route[k])'
                      /\ \A f \in Files : k > at' \/ ~InObject(f) \/ disk[from][f] = NoFile
                            => disk[route[k]][f] = before[route[k]][f]
    BY <1>1 DEF CopiesWhole, InObject
  <2>1. pc # "idle"
    BY DEF InRound
  <2>2. \A f \in Files : k > at' \/ ~InObject(f) \/ disk[from][f] = NoFile
            => disk[route[k]][f] = before[route[k]][f]
    BY <1>1, <1>2, <2>1 DEF CopiesWhole
  <2>3. k < at' \/ pc' = "returned" => k < at \/ k = at
    <3>1. k \in Nat /\ k <= Len(route) /\ Len(route) \in Nat
      BY <1>1, Destination
    <3>2. pc' = "returned" => at = Len(route)
      BY <1>1
    <3> QED BY <1>0, <3>1, <3>2
  <2>4. k < at => Whole(route[k])
    BY <1>1, <1>2, <2>1 DEF CopiesWhole
  <2>5. k = at => Whole(route[k])
    BY DEF To
  <2>6. Whole(route[k])' <=> Whole(route[k])
    BY DEF Whole, Present
  <2> QED BY <2>2, <2>3, <2>4, <2>5, <2>6
<1>8. /\ Cardinality(Bytes) \in Nat /\ Cardinality(Found) \in Nat /\ Cardinality(FoundDirs) \in Nat
      /\ Bytes' = Bytes /\ Found' = Found /\ FoundDirs' = FoundDirs
  BY <1>1, Finite DEF Bytes, BytesOf, Found, FoundDirs, InObject
<1>9. Rounds'
  <2> SUFFICES ASSUME pc' = "location" PROVE Round({}, {})'
    BY <1>3 DEF Rounds
  <2> SUFFICES ASSUME ~edited' PROVE Counted({}, {})'
    BY <1>3 DEF Round
  <2>1. Done({})' = {} /\ BytesDone({})' = {} /\ {} \ {} = {}
    BY DEF Done, BytesDone, BytesOf
  <2>2. Cardinality({}) = 0
    BY FS_EmptySet
  <2>3. at' - 1 = at
    BY <1>0
  <2>4. progress' = Totals(at - 1)'
    BY <1>8, <2>3 DEF Totals
  <2>5. progress'.bytes \in Nat /\ progress'.files \in Nat /\ progress'.dirs \in Nat
    BY DEF TypeOK
  <2> QED BY <2>1, <2>2, <2>4, <2>5 DEF Counted
<1>10. Totalled'
  <2> SUFFICES ASSUME pc' = "returned", ~edited PROVE ProgressExact'
    BY <1>1 DEF Totalled, ProgressExact, Ended
  <2>1. at = Len(route)
    BY <1>1
  <2>2. progress' = Totals(Len(route))'
    BY <1>8, <2>1 DEF Totals
  <2>3. progress'.bytes \in Nat /\ progress'.files \in Nat
    BY DEF TypeOK
  <2> QED BY <2>2, <2>3 DEF ProgressExact
<1> QED BY <1>4, <1>5, <1>6, <1>7, <1>9, <1>10

-----------------------------------------------------------------------------
\* The units that are done are units of the object, and so are the files.
LEMMA DoneIsFound ==
  ASSUME TypeOK, Shape, Faithful, ~edited, NEW V
  PROVE  /\ Done(V) \subseteq Found /\ BytesDone(V) \subseteq Bytes
         /\ IsFiniteSet(Done(V)) /\ IsFiniteSet(BytesDone(V))
         /\ Cardinality(Done(V)) \in Nat /\ Cardinality(BytesDone(V)) \in Nat
         /\ Cardinality(Done(V)) <= Cardinality(Found)
         /\ Cardinality(BytesDone(V)) <= Cardinality(Bytes)
<1>1. Done(V) \subseteq Found
  BY DEF Done
<1>2. BytesOf(Done(V)) \subseteq Bytes
  BY <1>1 DEF BytesOf, Bytes
<1>3. ASSUME pc = "copy" PROVE {file} \X (1 .. pos) \subseteq Bytes
  <2>1. file \in Found
    BY <1>3 DEF Shape, InFile, Found, InObject, Faithful
  <2>2. pos \in Nat /\ size \in Nat /\ pos <= size /\ size = Len(disk[from][file])
    BY <1>3 DEF TypeOK, Faithful
  <2>3. 1 .. pos \subseteq 1 .. Len(disk[from][file])
    BY <2>2
  <2> QED BY <2>1, <2>3 DEF Bytes, BytesOf
<1>4. BytesDone(V) \subseteq Bytes
  BY <1>2, <1>3 DEF BytesDone
<1> QED BY <1>1, <1>4, Finite, FS_Subset, FS_CardinalityType

\* Until the call returns the counters hold no more than all of it.
LEMMA NeverMore ==
  ASSUME IInv
  PROVE  ProgressExact
<1> SUFFICES ASSUME pc # "idle", Moves, ~edited PROVE ProgressExact
  BY DEF ProgressExact
<1>1. TypeOK /\ Shape /\ Faithful
  BY DEF IInv
<1>2. CASE pc \in Ended
  BY <1>2 DEF IInv, Totalled
<1>3. CASE pc \notin Ended
  <2>1. InRound \/ pc = "location"
    <3>1. pc # "delete"
      <4>1. route = <<from>> => ~Moves
        <5>1. Len(<<from>>) = 1 /\ <<from>>[1] = from /\ 1 \in DOMAIN <<from>>
          OBVIOUS
        <5> QED BY <5>1 DEF Moves
      <4> QED BY <1>1, <4>1 DEF Shape
    <3> QED BY <1>1, <1>3, <3>1 DEF TypeOK, InRound, Ended
  <2>2. PICK A \in SUBSET Dirs, V \in SUBSET Dirs : Counted(A, V)
    BY <2>1 DEF IInv, Rounds, Round
  <2> DEFINE b == Cardinality(BytesDone(V))
             f == Cardinality(Done(V))
             B == Cardinality(Bytes)
             F == Cardinality(Found)
             n == Len(route)
  <2>3. b \in Nat /\ b <= B /\ B \in Nat /\ f \in Nat /\ f <= F /\ F \in Nat
    BY <1>1, Finite, DoneIsFound
  <2>4. n \in Nat /\ at \in 1 .. n
    BY <1>1, <2>1, Destination
  <2>5. progress.bytes = (at - 1) * B + b /\ progress.files = (at - 1) * F + f
    BY <2>2 DEF Counted, Totals
  <2>6. Totals(Len(route)).bytes = n * B /\ Totals(Len(route)).files = n * F
    BY DEF Totals
  <2> HIDE DEF b, f, B, F, n
  <2>7. (at - 1) * B + b <= B * n /\ (at - 1) * F + f <= F * n
    BY <2>3, <2>4, WithinRounds
  <2>8. B * n = n * B /\ F * n = n * F
    BY <2>3, <2>4
  <2>9. pc # "returned"
    BY <1>3 DEF Ended
  <2> QED BY <2>5, <2>6, <2>7, <2>8, <2>9 DEF ProgressExact
<1> QED BY <1>2, <1>3

-----------------------------------------------------------------------------
\* A call begins.
LEMMA BeginStep ==
  ASSUME IInv, NEW o \in Objects, NEW src \in Places, NEW dsts \in Routes, NEW first,
         Begin(o, src, dsts, first),
         \/ first = "location" /\ dsts # <<>> /\ src \notin {dsts[i] : i \in DOMAIN dsts}
         \/ first = "delete" /\ dsts = <<src>>
  PROVE  IInv'
<1>1. /\ TypeOK /\ Rooted /\ Shape /\ pc = "idle" /\ todo = {}
  BY DEF IInv, Begin, Shape, InTree, InRound, Ended
<1>2. /\ pc' = first /\ obj' = o /\ from' = src /\ route' = dsts /\ at' = 1
      /\ progress' = NoProgress /\ edited' = FALSE /\ before' = disk
      /\ UNCHANGED <<disk, dirs, cur, todo, file, input, size, pos, edits>>
  BY DEF Begin, stream
<1>3. TypeOK'
  <2>1. calls' \in 0 .. MaxCalls
    <3>1. calls \in Nat /\ calls < MaxCalls /\ MaxCalls \in Nat /\ calls' = calls + 1
      BY <1>1, CopyAssumption DEF TypeOK, Begin
    <3> QED BY <3>1
  <2>2. 1 \in 1 .. Len(Locations) + 1
    BY CopyAssumption, LenProperties
  <2>3. NoProgress \in [bytes : Nat, files : Nat, dirs : Nat]
    BY DEF NoProgress
  <2> QED BY <1>1, <1>2, <2>1, <2>2, <2>3 DEF TypeOK, Routes
<1>4. Rooted'
  BY <1>1, <1>2 DEF Rooted, Present
<1>5. ~InRound' /\ ~InTree' /\ ~InFile' /\ pc' \notin Ended /\ pc' # "idle" /\ pc' # "copy"
  BY <1>2 DEF InRound, InTree, InFile, Ended
<1>6. Shape'
  <2>1. 1 \in DOMAIN dsts \/ dsts = <<>>
    <3>1. dsts \in Seq(Places) /\ DOMAIN dsts = 1 .. Len(dsts) /\ Len(dsts) \in Nat
      BY RouteOf
    <3> QED BY <3>1, EmptySeq
  <2>2. Moves' \/ route' = <<from'>>
    BY <1>2 DEF Moves
  <2> QED BY <1>1, <1>2, <1>5, <2>1, <2>2 DEF Shape, Moves
<1>7. Faithful'
  BY <1>5 DEF Faithful
<1>8. CopiesWhole'
  <2>1. \A i \in DOMAIN dsts : i \in Nat /\ i >= 1
    <3>1. DOMAIN dsts = 1 .. Len(dsts) /\ Len(dsts) \in Nat
      BY RouteOf
    <3> QED BY <3>1
  <2> QED BY <1>2, <1>5, <2>1 DEF CopiesWhole, Ended
<1>9. Rounds'
  <2>1. Done({})' = {} /\ BytesDone({})' = {} /\ {} \ {} = {} /\ Cardinality({}) = 0
    BY <1>5, FS_EmptySet DEF Done, BytesDone, BytesOf
  <2>2. /\ Cardinality(Bytes)' \in Nat /\ Cardinality(Found)' \in Nat
        /\ Cardinality(FoundDirs)' \in Nat
    <3>1. Found' \in SUBSET Files /\ FoundDirs' \in SUBSET Dirs
      BY <1>1, <1>2 DEF TypeOK, Found, FoundDirs
    <3>2. \A f \in Found' : disk[src][f] \in Contents
      BY <1>1, <1>2 DEF TypeOK, Found
    <3>3. IsFiniteSet(UNION {{f} \X (1 .. Len(disk[src][f])) : f \in Found'})
      BY <3>1, <3>2, BytesFinite
    <3>4. IsFiniteSet(Bytes')
      BY <1>2, <3>3 DEF Bytes, BytesOf
    <3> QED BY <3>1, <3>4, <1>1, Finite, FS_Subset, FS_CardinalityType
  <2>3. Totals(at - 1)' = NoProgress
    <3>1. at' - 1 = 0
      BY <1>2
    <3> QED BY <3>1, <2>2 DEF Totals, NoProgress
  <2>4. NoProgress.bytes = 0 /\ NoProgress.files = 0 /\ NoProgress.dirs = 0
    BY DEF NoProgress
  <2>5. Counted({}, {})'
    <3>1. progress'.bytes = 0 /\ progress'.files = 0 /\ progress'.dirs = 0
      BY <1>2, <2>4
    <3>2. Totals(at - 1)'.bytes = 0 /\ Totals(at - 1)'.files = 0 /\ Totals(at - 1)'.dirs = 0
      BY <2>3, <2>4
    <3>3. /\ Cardinality(BytesDone({})') = 0 /\ Cardinality(Done({})') = 0
          /\ Cardinality({} \ {}) = 0
      BY <2>1
    <3> QED BY <3>1, <3>2, <3>3 DEF Counted
  <2>6. Round({}, {})'
    BY <1>5, <2>5 DEF Round
  <2> QED BY <2>6 DEF Rounds
<1>10. Totalled'
  BY <1>5 DEF Totalled
<1> QED BY <1>3, <1>4, <1>6, <1>7, <1>8, <1>9, <1>10 DEF IInv

LEMMA BeginsStep ==
  ASSUME IInv, Store \/ Retrieve \/ UserStore \/ UserRetrieve \/ Delete
  PROVE  IInv'
<1>1. /\ Archive \subseteq Places /\ {"user", "working"} \subseteq Places
      /\ "user" \notin Archive /\ "working" \notin Archive
  BY CopyAssumption DEF Places
<1>2. \A w \in Archive \cup {"user", "working"} :
        <<w>> \in Routes /\ <<w>> # <<>> /\ {<<w>>[i] : i \in DOMAIN <<w>>} = {w}
  BY DEF Routes
<1>3. /\ Locations \in Routes /\ Locations # <<>>
      /\ {Locations[i] : i \in DOMAIN Locations} = Archive
  BY CopyAssumption DEF Routes, Archive
<1>4. CASE Store
  BY <1>1, <1>3, <1>4, BeginStep DEF Store
<1>5. CASE Retrieve
  <2>1. PICK o \in Objects, w \in Archive : Begin(o, w, <<"working">>, "location")
    BY <1>5 DEF Retrieve
  <2> QED BY <1>1, <1>2, <2>1, BeginStep
<1>6. CASE UserStore
  BY <1>1, <1>2, <1>6, BeginStep DEF UserStore
<1>7. CASE UserRetrieve
  BY <1>1, <1>2, <1>7, BeginStep DEF UserRetrieve
<1>8. CASE Delete
  <2>1. PICK o \in Objects, w \in Archive : Begin(o, w, <<w>>, "delete")
    BY <1>8 DEF Delete
  <2> QED BY <1>1, <1>2, <2>1, BeginStep
<1> QED BY <1>4, <1>5, <1>6, <1>7, <1>8

\* A call fails: what is written stays as it is.
LEMMA FailStep ==
  ASSUME IInv, Fail
  PROVE  IInv'
<1>1. /\ TypeOK /\ Rooted /\ Shape /\ CopiesWhole /\ ProgressExact /\ pc # "idle" /\ pc' = "threw"
      /\ UNCHANGED <<disk, dirs, obj, from, route, at, cur, todo, file, input, size, pos,
                     progress, edits, calls, edited, before>>
  BY NeverMore DEF IInv, Fail, Copying, call, stream, user
<1>2. ~InRound' /\ ~InTree' /\ ~InFile' /\ pc' \in Ended
  BY <1>1 DEF InRound, InTree, InFile, Ended
<1>3. TypeOK'
  BY <1>1 DEF TypeOK, Ended
<1>4. Rooted'
  BY <1>1 DEF Rooted, Present
<1>5. Shape'
  BY <1>1, <1>2 DEF Shape, Moves
<1>6. Faithful'
  BY <1>1, <1>2 DEF Faithful
<1>7. CopiesWhole'
  BY <1>1 DEF CopiesWhole, Moves, InObject, Whole, Present
<1>8. Rounds'
  BY <1>1, <1>2 DEF Rounds
<1>9. Totalled'
  BY <1>1 DEF Totalled, ProgressExact, Moves, Totals, Bytes, BytesOf, Found, FoundDirs, InObject
<1> QED BY <1>3, <1>4, <1>5, <1>6, <1>7, <1>8, <1>9 DEF IInv

\* The task is done with the call.
LEMMA ForgetStep ==
  ASSUME IInv, Forget
  PROVE  IInv'
<1>1. /\ TypeOK /\ Rooted /\ pc' = "idle" /\ todo' = {}
      /\ UNCHANGED <<disk, dirs, edits, calls>>
  BY DEF IInv, Forget
<1>2. ~InRound' /\ ~InTree' /\ ~InFile' /\ pc' \notin Ended
  BY <1>1 DEF InRound, InTree, InFile, Ended
<1>3. TypeOK'
  <2>1. 1 \in 1 .. Len(Locations) + 1
    BY CopyAssumption, LenProperties
  <2>2. NoProgress \in [bytes : Nat, files : Nat, dirs : Nat]
    BY DEF NoProgress
  <2>3. Nothing \in [Files -> {NoFile} \cup Contents] /\ "user" \in Places
    BY DEF Nothing, Places
  <2>4. /\ disk' \in [Places -> [Files -> {NoFile} \cup Contents]]
        /\ dirs' \in [Places -> SUBSET Dirs]
        /\ edits' \in 0 .. MaxEdits /\ calls' \in 0 .. MaxCalls
    BY <1>1 DEF TypeOK
  <2>5. /\ obj' = NoDir /\ from' = "user" /\ route' = <<>> /\ at' = 1 /\ cur' = NoDir
        /\ file' = NoDir /\ input' = NoFile /\ size' = 0 /\ pos' = 0
        /\ progress' = NoProgress /\ edited' = FALSE /\ before' = [w \in Places |-> Nothing]
    BY DEF Forget
  <2>6. before' \in [Places -> [Files -> {NoFile} \cup Contents]] /\ from' \in Places
    BY <2>3, <2>5
  <2>7. size' \in Nat /\ pos' \in 0 .. size' /\ at' \in 1 .. Len(Locations) + 1
    BY <2>1, <2>5
  <2>8. route' \in Routes
    BY <2>5 DEF Routes
  <2>9. /\ obj' \in Objects \cup {NoDir} /\ cur' \in Dirs \cup {NoDir} /\ todo' \subseteq Paths
        /\ file' \in Files \cup {NoDir} /\ input' \in {NoFile} \cup Contents
        /\ progress' \in [bytes : Nat, files : Nat, dirs : Nat] /\ edited' \in BOOLEAN
    BY <1>1, <2>2, <2>5
  <2> QED BY <1>1, <2>4, <2>6, <2>7, <2>8, <2>9 DEF TypeOK, Routes
<1>4. Rooted'
  BY <1>1 DEF Rooted, Present
<1> QED BY <1>1, <1>2, <1>3, <1>4
        DEF IInv, Shape, Faithful, CopiesWhole, Rounds, Totalled

\* The worker clears its working directory, or puts an object there.
LEMMA PrepareStep ==
  ASSUME IInv, Prepare
  PROVE  IInv'
<1>1. /\ TypeOK /\ Rooted /\ Shape /\ pc = "idle" /\ todo = {}
  BY DEF IInv, Prepare, Shape, InTree, InRound, Ended
<1>2. PICK o \in Objects, c \in Versions \cup {NoFile} :
        /\ disk' = [disk EXCEPT !["working"] =
                      [f \in Files |-> IF ObjectOf[f] = o THEN c ELSE NoFile]]
        /\ dirs' = [dirs EXCEPT !["working"] =
                      IF c = NoFile THEN {} ELSE {d \in Dirs : ObjectOf[d] = o}]
  BY DEF Prepare
<1>3. UNCHANGED <<pc, obj, from, route, at, cur, todo, file, input, size, pos, progress, edits,
                  calls, edited, before>>
  BY DEF Prepare, call, stream, user
<1>4. ~InRound' /\ ~InTree' /\ ~InFile' /\ pc' \notin Ended /\ pc' = "idle" /\ todo' = {}
  BY <1>1, <1>3 DEF InRound, InTree, InFile, Ended
<1>5. TypeOK'
  <2>1. "working" \in Places /\ c \in {NoFile} \cup Contents
    BY CopyAssumption DEF Places
  <2>2. disk' \in [Places -> [Files -> {NoFile} \cup Contents]]
    BY <1>1, <1>2, <2>1 DEF TypeOK
  <2>3. dirs' \in [Places -> SUBSET Dirs]
    BY <1>1, <1>2, <2>1 DEF TypeOK
  <2> QED BY <1>1, <1>3, <2>2, <2>3 DEF TypeOK
<1>6. Rooted'
  <2> SUFFICES ASSUME NEW w \in Places, NEW p \in Paths, Present(w, p)', Parent[p] # NoDir
               PROVE  Parent[p] \in dirs'[w]
    BY DEF Rooted
  <2>1. CASE w # "working"
    BY <1>1, <1>2, <2>1 DEF Rooted, Present, TypeOK
  <2>2. CASE w = "working"
    <3>1. /\ dirs'[w] = IF c = NoFile THEN {} ELSE {d \in Dirs : ObjectOf[d] = o}
          /\ disk'[w] = [f \in Files |-> IF ObjectOf[f] = o THEN c ELSE NoFile]
      BY <1>1, <1>2, <2>2 DEF TypeOK
    <3>2. c # NoFile /\ ObjectOf[p] = o
      BY <3>1 DEF Present, Paths
    <3> QED BY <3>1, <3>2, OnTree
  <2> QED BY <2>1, <2>2
<1>7. Shape'
  BY <1>4 DEF Shape
<1> QED BY <1>4, <1>5, <1>6, <1>7 DEF IInv, Faithful, CopiesWhole, Rounds, Totalled

\* The user changes a file of the storage that is copied from.
LEMMA EditStep ==
  ASSUME IInv, NEW f \in Files, NEW c \in Versions \cup {NoFile}, Edit(f, c)
  PROVE  IInv'
<1>1. /\ TypeOK /\ Rooted /\ Shape /\ Rounds /\ from = "user" /\ Copying
      /\ edited' = TRUE /\ edits' = edits + 1 /\ edits < MaxEdits
      /\ Parent[f] # NoDir => Parent[f] \in dirs["user"]
      /\ disk' = [disk EXCEPT !["user"][f] = c]
      /\ input' = IF /\ pc = "copy" /\ file = f /\ input = NoFile /\ c = NoFile
                  THEN disk["user"][f] ELSE input
      /\ UNCHANGED <<dirs, pc, obj, from, route, at, cur, todo, file, size, pos, progress, calls,
                     before>>
  BY DEF IInv, Edit, call
<1>2. /\ "user" \in Places /\ c \in {NoFile} \cup Contents
      /\ disk["user"][f] \in {NoFile} \cup Contents
  BY <1>1, CopyAssumption DEF Places, TypeOK
<1>3. disk' \in [Places -> [Files -> {NoFile} \cup Contents]]
  BY <1>1, <1>2 DEF TypeOK
<1>4. TypeOK'
  <2>1. input' \in {NoFile} \cup Contents
    BY <1>1, <1>2 DEF TypeOK
  <2>2. edits' \in 0 .. MaxEdits
    BY <1>1, CopyAssumption DEF TypeOK
  <2> QED BY <1>1, <1>3, <2>1, <2>2 DEF TypeOK
<1>5. Rooted'
  <2> SUFFICES ASSUME NEW w \in Places, NEW p \in Paths, Present(w, p)', Parent[p] # NoDir
               PROVE  Parent[p] \in dirs[w]
    BY <1>1 DEF Rooted
  <2>1. CASE w = "user" /\ p = f
    BY <1>1, <2>1
  <2>2. CASE w # "user" \/ p # f
    <3>1. Present(w, p)
      BY <1>1, <1>2, <2>2 DEF Present, TypeOK, Paths
    <3> QED BY <1>1, <3>1 DEF Rooted
  <2> QED BY <2>1, <2>2
<1>6. Shape'
  <2>1. ASSUME pc = "copy" PROVE Source' \in Contents /\ disk'[To'][file] \in Contents
    <3>1. To \in Places /\ To # "user" /\ To' = To /\ file \in Files
      BY <1>1, <2>1, Destination DEF Shape, InRound, InFile, To
    <3>2. disk'[To] = disk[To]
      BY <1>1, <3>1 DEF TypeOK
    <3>3. Source' \in Contents
      <4>1. CASE file # f
        <5>1. disk'["user"][file] = disk["user"][file] /\ input' = input
          BY <1>1, <1>2, <3>1, <4>1 DEF TypeOK
        <5> QED BY <1>1, <2>1, <5>1 DEF Source, Shape
      <4>2. CASE file = f /\ input = NoFile /\ c = NoFile
        <5>1. input' = disk["user"][f] /\ disk["user"][f] \in Contents
          BY <1>1, <2>1, <4>2 DEF Shape, Source
        <5> QED BY <5>1, CopyAssumption DEF Source
      <4>3. CASE file = f /\ input = NoFile /\ c # NoFile
        <5>1. input' = NoFile /\ disk'["user"][f] = c
          BY <1>1, <1>2, <4>3 DEF TypeOK
        <5> QED BY <1>1, <1>2, <4>3, <5>1 DEF Source
      <4>4. CASE file = f /\ input # NoFile
        BY <1>1, <2>1, <4>4 DEF Shape, Source
      <4> QED BY <4>1, <4>2, <4>3, <4>4
    <3> QED BY <1>1, <2>1, <3>1, <3>2, <3>3 DEF Shape
  <2> QED BY <1>1, <2>1 DEF Shape, InRound, InTree, InFile, Moves
<1>7. pc \notin Ended
  BY <1>1 DEF Copying
<1>8. Rounds'
  <2> SUFFICES ASSUME InRound \/ pc = "location" PROVE \E A, V \in SUBSET Dirs : Round(A, V)'
    BY <1>1 DEF Rounds, InRound
  <2>1. PICK A \in SUBSET Dirs, V \in SUBSET Dirs : Round(A, V)
    BY <1>1 DEF Rounds
  <2>2. Round(A, V)'
    BY <1>1, <2>1 DEF Round, InTree, InRound, Chain, To
  <2> QED BY <2>2
<1> QED BY <1>1, <1>4, <1>5, <1>6, <1>7, <1>8 DEF IInv, Faithful, CopiesWhole, Totalled

\* An object is deleted in one location.
LEMMA DeleteStep ==
  ASSUME IInv, DeleteIfExists
  PROVE  IInv'
<1>1. /\ TypeOK /\ Rooted /\ Shape /\ pc = "delete" /\ pc' \in {"returned", "threw"}
      /\ obj \in Objects /\ route = <<from>>
      /\ UNCHANGED <<obj, from, route, at, cur, todo, file, input, size, pos, progress, edits,
                     calls, edited, before>>
  BY DEF IInv, DeleteIfExists, Shape, call, stream, user
<1>2. ~InRound' /\ ~InTree' /\ ~InFile' /\ pc' \in Ended /\ pc' # "idle" /\ pc' # "delete"
  BY <1>1 DEF InRound, InTree, InFile, Ended
<1>3. ~Moves'
  <2>1. Len(<<from>>) = 1 /\ <<from>>[1] = from /\ 1 \in DOMAIN <<from>>
    OBVIOUS
  <2> QED BY <1>1, <2>1 DEF Moves
<1>4. CASE /\ obj \in Files /\ UNCHANGED dirs
           /\ disk' = [disk EXCEPT ![from][obj] = NoFile]
  <2>1. disk' \in [Places -> [Files -> {NoFile} \cup Contents]]
    BY <1>1, <1>4 DEF TypeOK
  <2>2. TypeOK'
    BY <1>1, <1>2, <1>4, <2>1 DEF TypeOK
  <2>3. Rooted'
    <3> SUFFICES ASSUME NEW w \in Places, NEW p \in Paths, Present(w, p)'
                 PROVE  Present(w, p)
      BY <1>1, <1>4 DEF Rooted
    <3> QED BY <1>1, <1>4 DEF Present, TypeOK, Paths
  <2> QED BY <1>1, <1>2, <1>3, <2>2, <2>3 DEF IInv, Shape, Faithful, CopiesWhole, Rounds,
             Totalled, ProgressExact
<1>5. CASE UNCHANGED <<disk, dirs>>
  <2>1. TypeOK' /\ Rooted'
    BY <1>1, <1>2, <1>5 DEF TypeOK, Rooted, Present
  <2> QED BY <1>1, <1>2, <1>3, <2>1 DEF IInv, Shape, Faithful, CopiesWhole, Rounds, Totalled,
             ProgressExact
<1>6. CASE /\ obj \notin Files /\ UNCHANGED disk /\ Entries(from, obj) = {}
           /\ dirs' = [dirs EXCEPT ![from] = @ \ {obj}]
  <2>1. TypeOK'
    BY <1>1, <1>2, <1>6 DEF TypeOK
  <2>2. Rooted'
    <3> SUFFICES ASSUME NEW w \in Places, NEW p \in Paths, Present(w, p)', Parent[p] # NoDir
                 PROVE  Parent[p] \in dirs'[w]
      BY DEF Rooted
    <3>1. Present(w, p) /\ Parent[p] \in dirs[w]
      BY <1>1, <1>6 DEF Present, Rooted, TypeOK
    <3>2. w = from => Parent[p] # obj
      BY <1>6, <3>1 DEF Entries
    <3> QED BY <1>1, <1>6, <3>1, <3>2 DEF TypeOK
  <2> QED BY <1>1, <1>2, <1>3, <2>1, <2>2 DEF IInv, Shape, Faithful, CopiesWhole, Rounds,
             Totalled, ProgressExact
<1> QED BY <1>4, <1>5, <1>6 DEF DeleteIfExists

-----------------------------------------------------------------------------
\* A step that writes at most files of the source, to the current place, leaves the
\* places before it whole and what is not to be replaced as it was.
LEMMA StillWhole ==
  ASSUME IInv, InRound \/ pc = "location", pc' # "returned",
         UNCHANGED <<obj, from, route, at, edited, before>>,
         \A w \in Places : w # To => disk'[w] = disk[w] /\ dirs'[w] = dirs[w],
         ~edited => \A f \in Files : ~InObject(f) \/ disk[from][f] = NoFile
                                       => disk'[To][f] = disk[To][f]
  PROVE  CopiesWhole'
<1>1. TypeOK /\ Shape /\ CopiesWhole
  BY DEF IInv
<1>2. /\ Moves /\ from \in Places /\ from # To
      /\ \A i \in DOMAIN route : route[i] \in Places /\ (route[i] = To => i = at)
      /\ at \in Nat /\ \A i \in DOMAIN route : i \in Nat
  BY <1>1, Destination
<1>3. disk'[from] = disk[from] /\ dirs'[from] = dirs[from]
  BY <1>2
<1> SUFFICES ASSUME ~edited, NEW k \in DOMAIN route
             PROVE  /\ k < at => Whole(route[k])'
                    /\ \A f \in Files : k > at \/ ~InObject(f) \/ disk[from][f] = NoFile
                          => disk'[route[k]][f] = before[route[k]][f]
  BY <1>3 DEF CopiesWhole, InObject
<1>4. /\ k < at => Whole(route[k])
      /\ \A f \in Files : k > at \/ ~InObject(f) \/ disk[from][f] = NoFile
            => disk[route[k]][f] = before[route[k]][f]
  BY <1>1, <1>2 DEF CopiesWhole, InRound
<1>5. CASE route[k] # To
  <2>1. disk'[route[k]] = disk[route[k]] /\ dirs'[route[k]] = dirs[route[k]]
    BY <1>2, <1>5
  <2> QED BY <1>3, <1>4, <2>1 DEF Whole, Present
<1>6. CASE route[k] = To
  <2>1. k = at /\ ~(k < at) /\ ~(k > at)
    BY <1>2, <1>6
  <2> QED BY <1>4, <1>6, <2>1
<1> QED BY <1>5, <1>6

\* The object is a file, a directory, or not there.
LEMMA LocationStep ==
  ASSUME IInv, Location
  PROVE  IInv'
<1>1. /\ TypeOK /\ Rooted /\ Shape /\ Rounds /\ pc = "location" /\ todo = {}
      /\ UNCHANGED <<disk, dirs, obj, from, route, todo, input, size, pos, progress, edits, calls,
                     edited, before>>
  BY DEF IInv, Location, Shape, InTree, InRound, Ended, call, user
<1>2. /\ at \in Nat /\ at >= 1 /\ from \in Places /\ To \in Places /\ To # from
      /\ at + 1 <= Len(Locations) + 1
      /\ obj \in Objects /\ obj \in Paths /\ ObjectOf[obj] = obj /\ Parent[obj] = NoDir
  BY <1>1, Destination, ObjectIsTop
<1>3. Rooted'
  BY <1>1 DEF Rooted, Present
<1>4. ~edited => Counted({}, {})
  BY <1>1 DEF Rounds, Round, InTree, InRound
<1>5. Done({}) = {} /\ BytesDone({}) = {} /\ Cardinality({}) = 0
  BY <1>1, FS_EmptySet DEF Done, BytesDone, BytesOf
<1>6. CASE Present(from, obj) /\ CopyFile
  <2>1. /\ obj \in Files /\ obj \notin Dirs /\ pc' = "open" /\ file' = obj /\ UNCHANGED <<at, cur>>
    BY <1>6, TreeAssumption DEF CopyFile
  <2>2. InRound' /\ ~InTree' /\ InFile' /\ pc' \notin Ended
    BY <1>1, <2>1 DEF InRound, InTree, InFile, Ended
  <2>3. TypeOK'
    BY <1>1, <2>1 DEF TypeOK
  <2>4. Shape'
    BY <1>1, <1>2, <2>1, <2>2 DEF Shape, InRound, Moves
  <2>5. Faithful'
    BY <1>1, <1>6, <2>1 DEF Faithful, Present
  <2>6. CopiesWhole'
    BY <1>1, <2>1, StillWhole
  <2>7. Rounds'
    <3>1. ~edited => Counted({}, {})'
      <4>1. Done({})' = {} /\ BytesDone({})' = {}
        BY <2>1 DEF Done, BytesDone, BytesOf
      <4> QED BY <1>1, <1>4, <1>5, <2>1, <4>1
              DEF Counted, Totals, Bytes, BytesOf, Found, FoundDirs, InObject
    <3>2. Round({}, {})'
      BY <1>1, <2>2, <3>1 DEF Round
    <3> QED BY <3>2 DEF Rounds
  <2> QED BY <1>3, <2>2, <2>3, <2>4, <2>5, <2>6, <2>7 DEF IInv, Totalled
<1>7. CASE Present(from, obj) /\ CopyDirectory
  <2>1. /\ obj \in Dirs /\ obj \notin Files /\ pc' = "list" /\ cur' = obj /\ UNCHANGED <<at, file>>
    BY <1>7, TreeAssumption DEF CopyDirectory
  <2>2. InRound' /\ InTree' /\ ~InFile' /\ pc' \notin Ended
    BY <1>1, <2>1 DEF InRound, InTree, InFile, Ended
  <2>3. TypeOK'
    BY <1>1, <2>1 DEF TypeOK
  <2>4. Shape'
    BY <1>1, <1>2, <2>1, <2>2 DEF Shape, InRound, Moves
  <2>5. Faithful'
    BY <2>1, <2>2 DEF Faithful
  <2>6. CopiesWhole'
    BY <1>1, <2>1, StillWhole
  <2>7. Rounds'
    <3>1. ~edited => Counted({obj}, {})'
      <4>1. Done({})' = {} /\ BytesDone({})' = {} /\ {} \ {obj} = {}
        BY <2>1 DEF Done, BytesDone, BytesOf
      <4>2. {} \ {} = {}
        OBVIOUS
      <4> QED BY <1>1, <1>4, <1>5, <2>1, <4>1, <4>2
              DEF Counted, Totals, Bytes, BytesOf, Found, FoundDirs, InObject
    <3>2. Chain({obj})'
      BY <1>1, <1>2, <2>1, TreeAssumption DEF Chain, Paths
    <3>3. Listed({obj}, {})'
      BY <1>1, <1>2, <1>7, <2>1, TreeAssumption DEF Listed, Present, Paths
    <3>4. PICK A \in SUBSET Dirs : A = {obj}
      BY <2>1
    <3>5. Round(A, {})'
      BY <1>1, <2>2, <3>1, <3>2, <3>3, <3>4 DEF Round
    <3> QED BY <3>5 DEF Rounds
  <2> QED BY <1>3, <2>2, <2>3, <2>4, <2>5, <2>6, <2>7 DEF IInv, Totalled
<1>8. CASE ~Present(from, obj) /\ NextLocation /\ UNCHANGED <<cur, file>>
  <2>1. \A p \in Paths : ObjectOf[p] = obj => ~Present(from, p)
    BY <1>1, <1>2, <1>8, Absent
  <2>2. Whole(To)
    BY <2>1 DEF Whole
  <2>3. Found = {} /\ FoundDirs = {}
    BY <1>1, <1>2, <2>1, TreeAssumption DEF Found, FoundDirs, InObject, Present, Paths, TypeOK
  <2>4. Bytes = {}
    BY <2>3 DEF Bytes, BytesOf
  <2>5. Totals(at - 1) = Totals(at) /\ Totals(at) = [bytes |-> 0, files |-> 0, dirs |-> 0]
    <3>1. Cardinality(Bytes) = 0 /\ Cardinality(Found) = 0 /\ Cardinality(FoundDirs) = 0
      BY <1>5, <2>3, <2>4
    <3>2. (at - 1) * 0 = 0 /\ at * 0 = 0
      BY <1>2
    <3> QED BY <3>1, <3>2 DEF Totals
  <2>6. ~edited => progress' = Totals(at)
    <3> SUFFICES ASSUME ~edited PROVE progress = Totals(at)
      BY <1>1
    <3>1. progress.bytes = 0 /\ progress.files = 0 /\ progress.dirs = 0
      <4>1. {} \ {} = {}
        OBVIOUS
      <4> QED BY <1>4, <1>5, <2>5, <4>1 DEF Counted
    <3>2. progress \in [bytes : Nat, files : Nat, dirs : Nat]
      BY <1>1 DEF TypeOK
    <3> QED BY <2>5, <3>1, <3>2
  <2>7. TypeOK'
    <3>1. at' \in 1 .. Len(Locations) + 1
      BY <1>2, <1>8, CopyAssumption, LenProperties DEF NextLocation
    <3>2. pc' \in {"returned", "location"}
      BY <1>8 DEF NextLocation
    <3> QED BY <1>1, <1>8, <3>1, <3>2 DEF TypeOK, Ended
  <2>8. Rooted' /\ Shape' /\ Faithful' /\ CopiesWhole' /\ Rounds' /\ Totalled'
    BY <1>1, <1>8, <2>2, <2>6, <2>7, Arrive
  <2> QED BY <2>7, <2>8 DEF IInv
<1> QED BY <1>6, <1>7, <1>8 DEF Location

-----------------------------------------------------------------------------
\* The recursion of a directory that is being copied.
LEMMA Recursion ==
  ASSUME IInv, InTree
  PROVE  /\ TypeOK /\ Rooted /\ Shape /\ Faithful /\ pc \notin Ended
         /\ obj \in Objects /\ obj \in Dirs /\ obj \notin Files /\ Parent[obj] = NoDir
         /\ obj \in Paths /\ ObjectOf[obj] = obj
         /\ from \in Places /\ To \in Places /\ To # from
         /\ cur \in Dirs /\ cur \in Paths /\ cur # NoDir
         /\ \E A, V \in SUBSET Dirs : Chain(A) /\ (~edited => Listed(A, V) /\ Counted(A, V))
<1>1. TypeOK /\ Rooted /\ Shape /\ Faithful /\ Rounds /\ InRound /\ obj \in Dirs
  BY DEF IInv, InTree
<1>2. \E A, V \in SUBSET Dirs : Chain(A) /\ (~edited => Listed(A, V) /\ Counted(A, V))
  <2>1. PICK A \in SUBSET Dirs, V \in SUBSET Dirs : Round(A, V)
    BY <1>1 DEF Rounds
  <2>2. Chain(A) /\ (~edited => Listed(A, V) /\ Counted(A, V))
    BY <2>1 DEF Round
  <2> QED BY <2>2
<1>3. cur \in Dirs /\ cur \in Paths /\ cur # NoDir /\ obj \in Paths /\ obj \notin Files
  BY <1>1, TreeAssumption DEF Shape, Paths
<1> QED BY <1>1, <1>2, <1>3, Destination, ObjectIsTop DEF InRound, Ended

\* A directory is listed and made.
LEMMA ListStep ==
  ASSUME IInv, List
  PROVE  IInv'
<1>1. /\ pc = "list" /\ pc' = "walk" /\ InTree
      /\ todo' = todo \cup Entries(from, cur)
      /\ dirs' = [dirs EXCEPT ![To] = @ \cup {cur}]
      /\ UNCHANGED <<disk, obj, from, route, at, cur, file, input, size, pos, progress, edits,
                     calls, edited, before>>
  <2>1. obj \in Dirs
    BY DEF List, IInv, Shape, InRound, InFile, Objects, Paths
  <2> QED BY <2>1 DEF List, call, stream, user, InTree, InRound
<1>2. /\ TypeOK /\ Rooted /\ Shape /\ from \in Places /\ To \in Places /\ To # from
      /\ obj \in Dirs /\ Parent[obj] = NoDir /\ cur \in Dirs /\ cur \in Paths /\ cur # NoDir
  BY <1>1, Recursion
<1>3. PICK A \in SUBSET Dirs, V \in SUBSET Dirs :
        Chain(A) /\ (~edited => Listed(A, V) /\ Counted(A, V))
  BY <1>1, Recursion
<1>4. InRound' /\ InTree' /\ ~InFile' /\ pc' \notin Ended /\ To' = To
  BY <1>1, <1>2 DEF InRound, InTree, InFile, Ended, To
<1>5. /\ dirs'[To] = dirs[To] \cup {cur}
      /\ \A w \in Places : w # To => dirs'[w] = dirs[w]
  BY <1>1, <1>2 DEF TypeOK
<1>6. TypeOK'
  <2>1. dirs' \in [Places -> SUBSET Dirs]
    BY <1>1, <1>2 DEF TypeOK
  <2>2. todo' \subseteq Paths
    BY <1>1, <1>2 DEF TypeOK, Entries
  <2> QED BY <1>1, <1>2, <2>1, <2>2 DEF TypeOK
<1>7. Rooted'
  <2> SUFFICES ASSUME NEW w \in Places, NEW p \in Paths, Present(w, p)', Parent[p] # NoDir
               PROVE  Parent[p] \in dirs'[w]
    BY DEF Rooted
  <2>1. CASE Present(w, p)
    BY <1>2, <1>5, <2>1 DEF Rooted
  <2>2. CASE ~Present(w, p)
    <3>1. w = To /\ p = cur
      BY <1>1, <1>5, <2>2 DEF Present
    <3>2. cur # obj /\ Parent[cur] \in A /\ Parent[cur] # cur
      BY <1>2, <1>3, <3>1 DEF Chain
    <3>3. Parent[cur] \in dirs[To]
      BY <1>3, <3>2 DEF Chain
    <3> QED BY <1>5, <3>1, <3>3
  <2> QED BY <2>1, <2>2
<1>8. Shape'
  BY <1>1, <1>2, <1>4 DEF Shape, InRound, Moves
<1>9. Faithful'
  BY <1>1, <1>4 DEF Faithful
<1>10. CopiesWhole'
  BY <1>1, <1>4, <1>5, StillWhole DEF InTree
<1>11. Chain(A)'
  BY <1>1, <1>3, <1>4, <1>5 DEF Chain, Entries
<1>12. ASSUME ~edited PROVE Listed(A, V \cup {cur})' /\ Counted(A, V \cup {cur})'
  <2>1. Listed(A, V) /\ Counted(A, V)
    BY <1>3, <1>12
  <2>2. /\ cur \in A /\ cur \notin V /\ Parent[cur] # cur
        /\ cur # obj => Parent[cur] \in V
        /\ cur \in dirs[from] /\ cur \notin todo
        /\ \A d \in V : Parent[d] # cur
    <3>1. cur \in A /\ Parent[cur] # cur /\ (cur # obj => Parent[cur] \in A) /\ ObjectOf[cur] = obj
      BY <1>3 DEF Chain
    <3>2. A \ V = {cur} /\ cur \in dirs[from] /\ cur \notin todo
      BY <1>1, <2>1 DEF Listed, AtHand
    <3>3. \A d \in V : d # obj => Parent[d] \in V
      BY <2>1 DEF Listed
    <3> QED BY <1>2, <3>1, <3>2, <3>3
  <2>3. \A p \in Paths : Present(from, p)' <=> Present(from, p)
    BY <1>1, <1>2, <1>5 DEF Present
  <2>4. Listed(A, V \cup {cur})'
    <3>1. /\ V \cup {cur} \subseteq dirs'[from] \cap dirs'[To]
          /\ \A d \in V \cup {cur} : ObjectOf[d] = obj /\ (d # obj => Parent[d] \in V \cup {cur})
          /\ A \ (V \cup {cur}) = {} /\ cur \in dirs'[from]
      BY <1>1, <1>2, <1>3, <1>5, <2>1, <2>2 DEF Listed, Chain
    <3>2. \A p \in todo' : Present(from, p) /\ Parent[p] \in V \cup {cur} /\ p \notin V \cup {cur}
      BY <1>1, <2>1, <2>2 DEF Listed, Entries
    <3>3. \A p \in Paths : Parent[p] \in V \cup {cur} /\ Present(from, p) =>
            \/ p \in todo' \cup V \cup {cur}
            \/ p \in Files /\ disk[To][p] = disk[from][p]
      BY <1>1, <2>1, <2>2 DEF Listed, Entries, AtHand, InFile
    <3>4. \A p : ~AtHand(p)'
      BY <1>1, <1>4 DEF AtHand
    <3>5. \A p \in todo' : p \in Paths
      BY <1>6 DEF TypeOK
    <3> QED BY <1>1, <1>4, <2>3, <3>1, <3>2, <3>3, <3>4, <3>5 DEF Listed
  <2>5. Done(V \cup {cur})' = Done(V)
    <3>1. Found' = Found
      BY <1>1 DEF Found, InObject
    <3>2. \A p : ~AtHand(p)'
      BY <1>1, <1>4 DEF AtHand
    <3>3. \A f \in Found : f \in Paths /\ f \in Files /\ f \notin Dirs /\ Present(from, f)
                            /\ ~AtHand(f)
      BY <1>1, <1>2, TreeAssumption DEF Found, Present, Paths, AtHand, InFile
    <3>4. \A f \in Found : f \in todo' <=> f \in todo \/ Parent[f] = cur
      BY <1>1, <3>3 DEF Entries
    <3>5. \A f \in Found : (Parent[f] \in V \cup {cur} /\ f \notin todo')
                             <=> (Parent[f] \in V /\ f \notin todo)
      BY <2>2, <3>4
    <3> QED BY <1>1, <3>1, <3>2, <3>3, <3>5 DEF Done
  <2>6. BytesDone(V \cup {cur})' = BytesDone(V)
    BY <1>1, <2>5 DEF BytesDone, BytesOf
  <2>7. (V \cup {cur}) \ A = V \ A
    BY <2>2
  <2>8. Counted(A, V \cup {cur})'
    BY <1>1, <1>5, <1>2, <2>1, <2>5, <2>6, <2>7
       DEF Counted, Totals, Bytes, BytesOf, Found, FoundDirs, InObject
  <2> QED BY <2>4, <2>8
<1>13. Rounds'
  <2>1. PICK U \in SUBSET Dirs : U = V \cup {cur}
    BY <1>2
  <2>2. Round(A, U)'
    BY <1>1, <1>4, <1>11, <1>12, <2>1 DEF Round
  <2> QED BY <2>2 DEF Rounds
<1> QED BY <1>4, <1>6, <1>7, <1>8, <1>9, <1>10, <1>13 DEF IInv, Totalled

\* An entry is taken: it is entered, or opened.
LEMMA VisitStep ==
  ASSUME IInv, Visit
  PROVE  IInv'
<1>1. /\ pc = "walk" /\ InTree
      /\ UNCHANGED <<disk, dirs, obj, from, route, at, input, size, pos, progress, edits, calls,
                     edited, before>>
  <2>1. obj \in Dirs
    BY DEF Visit, IInv, Shape, InRound, InFile, Objects, Paths
  <2> QED BY <2>1 DEF Visit, call, user, InTree, InRound
<1>2. PICK p \in todo : /\ Parent[p] = cur /\ todo' = todo \ {p}
                        /\ IF p \in Dirs
                           THEN cur' = p /\ pc' = "list" /\ UNCHANGED file
                           ELSE file' = p /\ pc' = "open" /\ UNCHANGED cur
  BY DEF Visit
<1>3. /\ TypeOK /\ Rooted /\ Shape /\ from \in Places /\ To \in Places /\ To # from
      /\ obj \in Dirs /\ Parent[obj] = NoDir /\ cur \in Dirs /\ cur \in Paths /\ cur # NoDir
  BY <1>1, Recursion
<1>4. PICK A \in SUBSET Dirs, V \in SUBSET Dirs :
        Chain(A) /\ (~edited => Listed(A, V) /\ Counted(A, V))
  BY <1>1, Recursion
<1>5. /\ p \in Paths /\ ObjectOf[p] = obj /\ p # obj /\ cur \in A /\ p \notin A /\ p # cur
      /\ \A d \in A : Parent[d] # p /\ Parent[d] # cur
  <2>1. p \in Paths /\ cur \in A /\ ObjectOf[cur] = obj /\ \A d \in A : Parent[d] # cur
    BY <1>2, <1>3, <1>4 DEF TypeOK, Chain
  <2>2. ObjectOf[p] = obj /\ p # obj /\ p \notin A /\ p # cur
    BY <1>2, <1>3, <2>1, OnTree
  <2>3. \A d \in A : Parent[d] # p
    BY <1>3, <1>4, <2>1, <2>2, TreeAssumption DEF Chain, Paths
  <2> QED BY <2>1, <2>2, <2>3
<1>6. InRound' /\ InTree' /\ pc' \notin Ended /\ To' = To /\ pc' \in {"list", "open"}
  BY <1>1, <1>2, <1>3 DEF InRound, InTree, Ended, To
<1>7. Rooted' /\ \A w, q : Present(w, q)' <=> Present(w, q)
  BY <1>1, <1>3 DEF Rooted, Present
<1>8. CopiesWhole'
  BY <1>1, <1>6, StillWhole DEF InTree, Ended
<1>9. CASE p \in Dirs
  <2>1. cur' = p /\ pc' = "list" /\ file' = file /\ ~InFile'
    BY <1>2, <1>9 DEF InFile
  <2>2. TypeOK'
    BY <1>1, <1>2, <1>3, <1>9, <2>1 DEF TypeOK
  <2>3. Shape'
    BY <1>1, <1>3, <1>6, <1>9, <2>1 DEF Shape, InRound, Moves
  <2>4. Faithful'
    BY <2>1 DEF Faithful
  <2>5. Chain(A \cup {p})'
    <3>1. {obj, p} \subseteq A \cup {p}
      BY <1>4 DEF Chain
    <3>2. \A d \in A \cup {p} :
            ObjectOf[d] = obj /\ Parent[d] # p /\ (d # obj => Parent[d] \in A \cup {p})
      BY <1>2, <1>4, <1>5 DEF Chain
    <3>3. \A d \in A \cup {p} : d \in dirs[To] \/ d = p
      BY <1>1, <1>4 DEF Chain
    <3>4. \A d, e \in A \cup {p} : Parent[d] = Parent[e] => d = e
      BY <1>2, <1>4, <1>5 DEF Chain
    <3>5. \A q \in todo' : Parent[q] \in A \cup {p}
      BY <1>2, <1>4 DEF Chain
    <3> QED BY <1>1, <1>6, <2>1, <3>1, <3>2, <3>3, <3>4, <3>5 DEF Chain
  <2>6. ASSUME ~edited PROVE Listed(A \cup {p}, V)' /\ Counted(A \cup {p}, V)'
    <3>1. Listed(A, V) /\ Counted(A, V)
      BY <1>4, <2>6
    <3>2. p \notin V /\ Present(from, p) /\ p \in dirs[from]
      BY <1>2, <1>9, <3>1 DEF Listed, Present
    <3>3. \A q : (AtHand(q)' <=> q = p) /\ ~AtHand(q)
      BY <1>1, <2>1 DEF AtHand, InFile
    <3>4. Listed(A \cup {p}, V)'
      <4>1. (A \cup {p}) \ V = {p}
        BY <1>1, <3>1, <3>2 DEF Listed
      <4>2. \A q \in todo' : Present(from, q) /\ Parent[q] \in V /\ q \notin V /\ q # p
        BY <1>2, <3>1 DEF Listed
      <4>3. \A q \in Paths : Parent[q] \in V /\ Present(from, q) =>
              q \in todo' \cup V \/ q = p \/ (q \in Files /\ disk[To][q] = disk[from][q])
        BY <1>2, <3>1, <3>3 DEF Listed
      <4>4. /\ V \subseteq dirs[from] \cap dirs[To]
            /\ \A d \in V : ObjectOf[d] = obj /\ (d # obj => Parent[d] \in V)
        BY <3>1 DEF Listed
      <4> QED BY <1>1, <1>6, <1>7, <2>1, <3>2, <3>3, <4>1, <4>2, <4>3, <4>4 DEF Listed
    <3>5. Done(V)' = Done(V)
      BY <1>1, <1>2, <1>9, <3>3, TreeAssumption DEF Done, Found, InObject
    <3>6. BytesDone(V)' = BytesDone(V)
      BY <1>1, <2>1, <3>5 DEF BytesDone, BytesOf
    <3>7. V \ (A \cup {p}) = V \ A
      BY <3>2
    <3>8. Counted(A \cup {p}, V)'
      BY <1>1, <3>1, <3>5, <3>6, <3>7
      DEF Counted, Totals, Bytes, BytesOf, Found, FoundDirs, InObject
    <3> QED BY <3>4, <3>8
  <2>7. Rounds'
    <3>1. PICK B \in SUBSET Dirs : B = A \cup {p}
      BY <1>9
    <3>2. Chain(B)' /\ (~edited => Listed(B, V)' /\ Counted(B, V)')
      BY <2>5, <2>6, <3>1
    <3>3. Round(B, V)'
      BY <1>1, <1>6, <3>2 DEF Round
    <3> QED BY <3>3 DEF Rounds
  <2> QED BY <1>6, <1>7, <1>8, <2>2, <2>3, <2>4, <2>7 DEF IInv, Totalled
<1>10. CASE p \notin Dirs
  <2>1. /\ cur' = cur /\ pc' = "open" /\ file' = p /\ InFile' /\ p \in Files
    BY <1>2, <1>5, <1>10 DEF InFile, Paths
  <2>2. TypeOK'
    BY <1>1, <1>2, <1>3, <2>1 DEF TypeOK
  <2>3. Shape'
    BY <1>1, <1>2, <1>3, <1>5, <1>6, <2>1, TreeAssumption DEF Shape, InRound, Moves
  <2>4. Faithful'
    <3> SUFFICES ASSUME ~edited PROVE disk[from][p] # NoFile
      BY <1>1, <2>1 DEF Faithful
    <3>1. Present(from, p)
      BY <1>2, <1>4 DEF Listed
    <3> QED BY <1>10, <3>1 DEF Present
  <2>5. Chain(A)'
    BY <1>1, <1>2, <1>4, <1>6, <2>1 DEF Chain
  <2>6. ASSUME ~edited PROVE Listed(A, V)' /\ Counted(A, V)'
    <3>1. Listed(A, V) /\ Counted(A, V)
      BY <1>4, <2>6
    <3>2. \A q : (AtHand(q)' <=> q = p) /\ ~AtHand(q)
      BY <1>1, <2>1 DEF AtHand, InFile
    <3>3. Listed(A, V)'
      <4>1. A \ V = {}
        BY <1>1, <3>1 DEF Listed
      <4>2. \A q \in todo' : Present(from, q) /\ Parent[q] \in V /\ q \notin V /\ q # p
        BY <1>2, <3>1 DEF Listed
      <4>3. \A q \in Paths : Parent[q] \in V /\ Present(from, q) =>
              q \in todo' \cup V \/ q = p \/ (q \in Files /\ disk[To][q] = disk[from][q])
        BY <1>2, <3>1, <3>2 DEF Listed
      <4>4. /\ V \subseteq dirs[from] \cap dirs[To] /\ cur \in dirs[from]
            /\ \A d \in V : ObjectOf[d] = obj /\ (d # obj => Parent[d] \in V)
        BY <3>1 DEF Listed
      <4> QED BY <1>1, <1>6, <1>7, <2>1, <3>2, <4>1, <4>2, <4>3, <4>4 DEF Listed
    <3>4. Done(V)' = Done(V)
      BY <1>1, <1>2, <3>2 DEF Done, Found, InObject
    <3>5. BytesDone(V)' = BytesDone(V)
      BY <1>1, <2>1, <3>4 DEF BytesDone, BytesOf
    <3>6. Counted(A, V)'
      BY <1>1, <3>1, <3>4, <3>5 DEF Counted, Totals, Bytes, BytesOf, Found, FoundDirs, InObject
    <3> QED BY <3>3, <3>6
  <2>7. Rounds'
    <3>1. Round(A, V)'
      BY <1>1, <1>6, <2>5, <2>6 DEF Round
    <3> QED BY <3>1 DEF Rounds
  <2> QED BY <1>6, <1>7, <1>8, <2>2, <2>3, <2>4, <2>7 DEF IInv, Totalled
<1> QED BY <1>9, <1>10

\* A directory is left.
LEMMA LeaveStep ==
  ASSUME IInv, Leave
  PROVE  IInv'
<1>1. /\ pc = "walk" /\ InTree /\ \A p \in todo : Parent[p] # cur
      /\ progress' = [progress EXCEPT !.dirs = @ + 1] /\ cur' = Parent[cur]
      /\ UNCHANGED <<disk, dirs, obj, from, route, todo, file, input, size, pos, edits, calls,
                     edited, before>>
  <2>1. obj \in Dirs
    BY DEF Leave, IInv, Shape, InRound, InFile, Objects, Paths
  <2> QED BY <2>1 DEF Leave, call, user, stream, InTree, InRound
<1>2. /\ TypeOK /\ Rooted /\ Shape /\ from \in Places /\ To \in Places /\ To # from
      /\ obj \in Dirs /\ Parent[obj] = NoDir /\ cur \in Dirs /\ cur \in Paths /\ cur # NoDir
  BY <1>1, Recursion
<1>3. PICK A \in SUBSET Dirs, V \in SUBSET Dirs :
        Chain(A) /\ (~edited => Listed(A, V) /\ Counted(A, V))
  BY <1>1, Recursion
<1>4. cur \in A /\ ObjectOf[cur] = obj /\ (cur # obj => Parent[cur] \in A)
  BY <1>3 DEF Chain
<1>5. /\ progress' \in [bytes : Nat, files : Nat, dirs : Nat] /\ progress'.bytes = progress.bytes
      /\ progress'.files = progress.files /\ progress'.dirs = progress.dirs + 1
  BY <1>1, <1>2 DEF TypeOK
<1>6. cur' \in Dirs \cup {NoDir}
  BY <1>1, <1>2, TreeAssumption
<1>7. ~edited => V \subseteq Dirs /\ IsFiniteSet(V \ A) /\ A \subseteq V
                 /\ Cardinality(V \ A) \in Nat
                 /\ Cardinality((V \ A) \cup {cur}) = Cardinality(V \ A) + 1
  <2> SUFFICES ASSUME ~edited PROVE /\ V \subseteq Dirs /\ IsFiniteSet(V \ A) /\ A \subseteq V
                                    /\ Cardinality(V \ A) \in Nat
                                    /\ Cardinality((V \ A) \cup {cur}) = Cardinality(V \ A) + 1
    OBVIOUS
  <2>1. A \ V = {} /\ V \in SUBSET Dirs
    BY <1>1, <1>3 DEF Listed
  <2>2. IsFiniteSet(V \ A)
    BY <1>2, <2>1, Finite, FS_Subset
  <2>3. cur \notin V \ A
    BY <1>4
  <2> QED BY <2>1, <2>2, <2>3, FS_AddElement, FS_CardinalityType
<1>8. CASE cur # obj
  <2>1. pc' = "walk" /\ at' = at
    BY <1>1, <1>8 DEF Leave
  <2>2. InRound' /\ InTree' /\ ~InFile' /\ pc' \notin Ended /\ To' = To
    BY <1>1, <1>2, <2>1 DEF InRound, InTree, InFile, Ended, To
  <2>3. TypeOK'
    BY <1>1, <1>2, <1>5, <1>6, <2>1 DEF TypeOK
  <2>4. Rooted' /\ \A w, q : Present(w, q)' <=> Present(w, q)
    BY <1>1, <1>2 DEF Rooted, Present
  <2>5. cur' \in Dirs /\ cur' \in A /\ cur' # cur
    BY <1>1, <1>3, <1>4, <1>8 DEF Chain
  <2>6. Shape'
    BY <1>1, <1>2, <2>1, <2>2, <2>5 DEF Shape, InRound, Moves
  <2>7. Faithful'
    BY <2>1, <2>2 DEF Faithful
  <2>8. CopiesWhole'
    BY <1>1, <2>1, StillWhole DEF InTree
  <2>0. PICK B \in SUBSET Dirs : B = A \ {cur}
    OBVIOUS
  <2>9. Chain(B)'
    <3>1. /\ {obj, cur'} \subseteq A \ {cur}
          /\ \A d \in A \ {cur} : /\ ObjectOf[d] = obj /\ Parent[d] # cur'
                                  /\ d # obj => Parent[d] \in A \ {cur}
                                  /\ d \in dirs[To]
          /\ \A d, e \in A \ {cur} : Parent[d] = Parent[e] => d = e
      BY <1>1, <1>3, <1>8, <2>5 DEF Chain
    <3>2. \A p \in todo : Parent[p] \in A \ {cur}
      BY <1>1, <1>3 DEF Chain
    <3> QED BY <1>1, <2>0, <2>1, <2>2, <3>1, <3>2 DEF Chain
  <2>10. ASSUME ~edited PROVE Listed(B, V)' /\ Counted(B, V)'
    <3>1. Listed(A, V) /\ Counted(A, V)
      BY <1>3, <2>10
    <3>2. \A q : ~AtHand(q)' /\ ~AtHand(q)
      BY <1>1, <2>1 DEF AtHand, InFile
    <3>3. Listed(B, V)'
      <4>1. B \ V = {}
        BY <1>7, <2>0, <2>10
      <4>2. cur' \in dirs[from]
        BY <1>7, <2>5, <2>10, <3>1 DEF Listed
      <4> QED BY <1>1, <2>1, <2>2, <2>4, <3>1, <3>2, <4>1, <4>2 DEF Listed
    <3>4. Done(V)' = Done(V)
      BY <1>1, <3>2 DEF Done, Found, InObject
    <3>5. BytesDone(V)' = BytesDone(V)
      BY <1>1, <2>1, <3>4 DEF BytesDone, BytesOf
    <3>6. V \ B = (V \ A) \cup {cur}
      BY <1>4, <1>7, <2>0, <2>10
    <3>7. Totals(at - 1)' = Totals(at - 1)
      BY <1>1, <2>1 DEF Totals, Bytes, BytesOf, Found, FoundDirs, InObject
    <3>8. Totals(at - 1).dirs \in Nat
      <4>1. at - 1 \in Nat
        BY <1>2, Destination, <1>1 DEF InTree
      <4>2. Cardinality(FoundDirs) \in Nat
        BY <1>2, Finite
      <4> QED BY <4>1, <4>2 DEF Totals
    <3>9. progress'.dirs = Totals(at - 1).dirs + Cardinality((V \ A) \cup {cur})
      BY <1>5, <1>7, <2>10, <3>1, <3>8 DEF Counted
    <3>10. Counted(B, V)'
      BY <1>5, <3>1, <3>4, <3>5, <3>6, <3>7, <3>9 DEF Counted
    <3> QED BY <3>3, <3>10
  <2>11. Rounds'
    <3>1. Round(B, V)'
      BY <1>1, <2>2, <2>9, <2>10 DEF Round
    <3> QED BY <3>1 DEF Rounds
  <2> QED BY <2>2, <2>3, <2>4, <2>6, <2>7, <2>8, <2>11 DEF IInv, Totalled
<1>9. CASE cur = obj
  <2>1. NextLocation
    BY <1>9 DEF Leave
  <2>2. todo = {} /\ A = {obj}
    BY <1>1, <1>2, <1>3, <1>9, ChainEnds
  <2>3. ASSUME ~edited PROVE Whole(To) /\ progress' = Totals(at)
    <3>1. Round(A, V)
      BY <1>1, <1>3 DEF Round
    <3>2. V = FoundDirs /\ Done(V) = Found /\ Whole(To)
      BY <1>1, <1>2, <1>9, <2>3, <3>1, AllDone
    <3>3. BytesDone(V) = Bytes
      BY <1>1, <3>2 DEF BytesDone, Bytes, BytesOf
    <3>4. (V \ A) \cup {cur} = V
      BY <1>4, <1>7, <2>2, <2>3, <1>9
    <3>5. at \in Nat /\ at >= 1
      BY <1>1, <1>2, Destination DEF InTree
    <3> DEFINE B == Cardinality(Bytes)
               F == Cardinality(Found)
               D == Cardinality(FoundDirs)
    <3>6. B \in Nat /\ F \in Nat /\ D \in Nat
      BY <1>2, Finite
    <3>7. Cardinality(V \ A) \in Nat /\ Cardinality(V \ A) + 1 = D
      BY <1>7, <2>3, <3>2, <3>4
    <3>8. /\ progress.bytes = (at - 1) * B + B /\ progress.files = (at - 1) * F + F
          /\ progress.dirs = (at - 1) * D + Cardinality(V \ A)
      BY <1>3, <2>3, <3>2, <3>3 DEF Counted, Totals
    <3> HIDE DEF B, F, D
    <3>9. (at - 1) * B + B = at * B /\ (at - 1) * F + F = at * F /\ (at - 1) * D + D = at * D
      BY <3>5, <3>6
    <3>10. progress'.dirs = at * D
      <4> DEFINE x == (at - 1) * D
      <4>1. x \in Nat
        BY <3>5, <3>6
      <4> HIDE DEF x
      <4>2. progress'.dirs = x + Cardinality(V \ A) + 1
        BY <1>5, <3>8 DEF x
      <4>3. progress'.dirs = x + D
        BY <3>7, <4>1, <4>2
      <4> QED BY <3>9, <4>3 DEF x
    <3>11. progress'.bytes = at * B /\ progress'.files = at * F
      BY <1>5, <3>8, <3>9
    <3>12. progress' = Totals(at)
      <4>1. progress' = [bytes |-> at * B, files |-> at * F, dirs |-> at * D]
        BY <1>5, <3>10, <3>11
      <4> QED BY <4>1 DEF Totals, B, F, D
    <3> QED BY <3>2, <3>12
  <2>4. TypeOK'
    <3>1. at \in Nat /\ at >= 1 /\ at + 1 <= Len(Locations) + 1 /\ Len(Locations) \in Nat
      BY <1>1, <1>2, Destination, CopyAssumption, LenProperties DEF InTree
    <3>2. at' = at + 1 /\ pc' \in {"returned", "location"}
      BY <2>1 DEF NextLocation
    <3>3. at' \in 1 .. Len(Locations) + 1
      BY <3>1, <3>2
    <3> QED BY <1>1, <1>2, <1>5, <1>6, <3>2, <3>3 DEF TypeOK, Ended
  <2>5. Rooted' /\ Shape' /\ Faithful' /\ CopiesWhole' /\ Rounds' /\ Totalled'
    BY <1>1, <2>1, <2>2, <2>3, <2>4, Arrive DEF InTree
  <2> QED BY <2>4, <2>5 DEF IInv
<1> QED BY <1>8, <1>9

-----------------------------------------------------------------------------
\* Copying a file, of a tree or alone: where it is.
LEMMA FileAtHand ==
  ASSUME IInv, InFile
  PROVE  /\ TypeOK /\ Rooted /\ Shape /\ Faithful /\ InRound /\ pc \notin Ended
         /\ file \in Files /\ file \in Paths /\ file \notin Dirs /\ ObjectOf[file] = obj
         /\ from \in Places /\ To \in Places /\ To # from
         /\ at \in Nat /\ at >= 1 /\ at + 1 <= Len(Locations) + 1 /\ Len(Locations) \in Nat
         /\ obj \in Objects /\ Parent[obj] = NoDir
         /\ obj \in Dirs => InTree /\ cur \in Dirs /\ Parent[file] = cur
         /\ obj \notin Dirs => ~InTree /\ file = obj /\ todo = {} /\ obj \in Files
         /\ \A p : AtHand(p) <=> p = file
         /\ Parent[file] # NoDir => Parent[file] \in dirs[To]
         /\ \E A, V \in SUBSET Dirs :
              /\ IF InTree THEN Chain(A) ELSE A = {}
              /\ ~edited => (IF InTree THEN Listed(A, V) ELSE V = {}) /\ Counted(A, V)
<1>1. TypeOK /\ Rooted /\ Shape /\ Faithful /\ Rounds /\ InRound /\ pc # "list"
  BY DEF IInv, InFile, InRound
<1>2. PICK A \in SUBSET Dirs, V \in SUBSET Dirs :
         /\ IF InTree THEN Chain(A) ELSE A = {}
         /\ ~edited => (IF InTree THEN Listed(A, V) ELSE V = {}) /\ Counted(A, V)
  <2>1. PICK A \in SUBSET Dirs, V \in SUBSET Dirs : Round(A, V)
    BY <1>1 DEF Rounds
  <2> QED BY <2>1 DEF Round
<1>3. /\ file \in Files /\ file \in Paths /\ file \notin Dirs /\ ObjectOf[file] = obj
      /\ from \in Places /\ To \in Places /\ To # from
      /\ at \in Nat /\ at >= 1 /\ at + 1 <= Len(Locations) + 1
      /\ obj \in Objects /\ Parent[obj] = NoDir
  BY <1>1, Destination, ObjectIsTop, TreeAssumption DEF Shape, Paths
<1>4. Len(Locations) \in Nat
  BY CopyAssumption, LenProperties
<1>5. obj \in Dirs => InTree /\ cur \in Dirs /\ Parent[file] = cur
  BY <1>1 DEF Shape, InTree
<1>6. obj \notin Dirs => ~InTree /\ file = obj /\ todo = {} /\ obj \in Files
  BY <1>1, <1>3 DEF Shape, InTree, Objects, Paths, Ended, InFile
<1>7. \A p : AtHand(p) <=> p = file
  BY <1>1 DEF AtHand
<1>8. Parent[file] # NoDir => Parent[file] \in dirs[To]
  BY <1>1, <1>2, <1>3, <1>5, <1>6 DEF Chain
<1>9. pc \notin Ended
  BY DEF InFile, Ended
<1> QED BY <1>1, <1>2, <1>3, <1>4, <1>5, <1>6, <1>7, <1>8, <1>9

\* As long as the same file is at hand, with the same entries waiting, what was done
\* is done, and the recursion is where it was.
LEMMA SameFile ==
  ASSUME IInv, InFile, InFile',
         UNCHANGED <<dirs, obj, from, route, at, cur, todo, file, edited>>,
         \A w \in Places : \A p \in Files :
           (w # To \/ p # file) => disk'[w][p] = disk[w][p],
         NEW A \in SUBSET Dirs, NEW V \in SUBSET Dirs
  PROVE  /\ Chain(A) => Chain(A)'
         /\ Listed(A, V) => Listed(A, V)'
         /\ Done(V)' = Done(V) /\ file \notin Done(V)
         /\ BytesOf(Done(V))' = BytesOf(Done(V))
         /\ \A n : Totals(n)' = Totals(n)
<1>1. /\ file \in Files /\ from \in Places /\ To \in Places /\ To # from /\ file \in Paths
      /\ To' = To /\ pc # "list" /\ pc' # "list"
      /\ \A p : AtHand(p) <=> p = file
      /\ \A p : AtHand(p)' <=> p = file
  <2>1. pc # "list" /\ pc' # "list"
    BY DEF InFile
  <2>2. \A p : AtHand(p)' <=> p = file
    BY <2>1 DEF AtHand
  <2> QED BY <2>1, <2>2, FileAtHand DEF To
<1>2. \A p \in Files : disk'[from][p] = disk[from][p]
  BY <1>1
<1>3. \A p \in Paths : Present(from, p)' <=> Present(from, p)
  BY <1>2 DEF Present, Paths
<1>4. Chain(A) => Chain(A)'
  BY <1>1 DEF Chain
<1>5. Listed(A, V) => Listed(A, V)'
  <2> SUFFICES ASSUME Listed(A, V) PROVE Listed(A, V)'
    OBVIOUS
  <2>1. \A p \in todo : p \in Paths
    BY FileAtHand DEF TypeOK
  <2>2. \A p \in Files : p # file => disk'[To][p] = disk[To][p]
    BY <1>1
  <2>3. \A p \in Paths : Parent[p] \in V /\ Present(from, p)' =>
          \/ p \in todo \cup V \/ AtHand(p)'
          \/ p \in Files /\ disk'[To][p] = disk'[from][p]
    BY <1>1, <1>2, <1>3, <2>2 DEF Listed
  <2> QED BY <1>1, <1>3, <2>1, <2>3 DEF Listed
<1>6. Found' = Found /\ BytesOf(Found)' = BytesOf(Found) /\ FoundDirs' = FoundDirs
  BY <1>2 DEF Found, InObject, BytesOf, FoundDirs
<1>7. Done(V)' = Done(V) /\ file \notin Done(V)
  BY <1>1, <1>6 DEF Done
<1>8. BytesOf(Done(V))' = BytesOf(Done(V))
  <2>1. Done(V) \subseteq Files
    BY DEF Done, Found
  <2> QED BY <1>2, <1>7, <2>1 DEF BytesOf
<1>9. \A n : Totals(n)' = Totals(n)
  BY <1>6 DEF Totals, Bytes
<1> QED BY <1>4, <1>5, <1>7, <1>8, <1>9

\* The streams are opened.
LEMMA OpenStep ==
  ASSUME IInv, Open
  PROVE  IInv'
<1>1. /\ pc = "open" /\ InFile /\ input' = NoFile /\ pos' = 0
      /\ UNCHANGED <<dirs, obj, from, route, at, cur, todo, file, progress, edits, calls, edited,
                     before>>
  BY DEF Open, InFile, call, user
<1>2. /\ TypeOK /\ Rooted /\ Shape /\ Faithful /\ InRound
      /\ file \in Files /\ file \in Paths /\ file \notin Dirs /\ ObjectOf[file] = obj
      /\ from \in Places /\ To \in Places /\ To # from /\ To' = To
  BY <1>1, FileAtHand DEF To
<1>3. CASE pc' = "threw" /\ UNCHANGED <<disk, size>>
  <2>1. ~InRound' /\ ~InTree' /\ ~InFile' /\ pc' \in Ended
    BY <1>3 DEF InRound, InTree, InFile, Ended
  <2>2. TypeOK'
    BY <1>1, <1>2, <1>3, <2>1, CopyAssumption DEF TypeOK
  <2>3. Rooted'
    BY <1>1, <1>2, <1>3 DEF Rooted, Present
  <2>4. Shape'
    BY <1>1, <1>2, <1>3, <2>1 DEF Shape, Moves
  <2>5. Faithful'
    BY <1>3, <2>1 DEF Faithful
  <2>6. CopiesWhole'
    BY <1>1, <1>2, <1>3, StillWhole
  <2>7. Rounds'
    BY <1>3, <2>1 DEF Rounds
  <2>8. Totalled'
    <3>1. ProgressExact
      BY NeverMore
    <3> QED BY <1>1, <1>3, <3>1
            DEF Totalled, ProgressExact, Moves, Totals, Bytes, BytesOf, Found, FoundDirs, InObject
  <2> QED BY <2>2, <2>3, <2>4, <2>5, <2>6, <2>7, <2>8 DEF IInv
<1>4. CASE /\ disk[from][file] # NoFile /\ pc' = "copy"
           /\ disk' = [disk EXCEPT ![To][file] = <<>>]
           /\ size' = Len(disk[from][file])
  <2>1. InRound' /\ (InTree' <=> InTree) /\ InFile' /\ pc' \notin Ended /\ pc' # "returned"
    BY <1>1, <1>2, <1>4 DEF InRound, InTree, InFile, Ended
  <2>2. disk[from][file] \in Contents /\ <<>> \in Contents
    BY <1>2, <1>4 DEF TypeOK, Contents
  <2>3. /\ disk'[To][file] = <<>>
        /\ \A w \in Places : \A p \in Files : (w # To \/ p # file) => disk'[w][p] = disk[w][p]
        /\ \A w \in Places : w # To => disk'[w] = disk[w]
    BY <1>2, <1>4 DEF TypeOK
  <2>4. TypeOK'
    <3>1. disk' \in [Places -> [Files -> {NoFile} \cup Contents]]
      BY <1>2, <1>4, <2>2 DEF TypeOK
    <3>2. size' \in Nat /\ pos' \in 0 .. size'
      <4>1. Len(disk[from][file]) \in Nat
        BY <2>2, LenProperties DEF Contents
      <4> QED BY <1>1, <1>4, <4>1
    <3> QED BY <1>1, <1>2, <1>4, <3>1, <3>2 DEF TypeOK
  <2>5. Rooted'
    <3> SUFFICES ASSUME NEW w \in Places, NEW p \in Paths, Present(w, p)', Parent[p] # NoDir
                 PROVE  Parent[p] \in dirs[w]
      BY <1>1 DEF Rooted
    <3>1. CASE w = To /\ p = file
      BY <1>1, <3>1, FileAtHand
    <3>2. CASE w # To \/ p # file
      <4>1. Present(w, p)
        BY <1>1, <2>3, <3>2 DEF Present, Paths
      <4> QED BY <1>2, <4>1 DEF Rooted
    <3> QED BY <3>1, <3>2
  <2>6. Shape'
    <3>1. Source' = disk[from][file]
      BY <1>1, <1>2, <2>3 DEF Source
    <3>2. Source' \in Contents /\ disk'[To'][file'] \in Contents
      BY <1>1, <1>2, <2>2, <2>3, <3>1
    <3>3. Moves' <=> Moves
      BY <1>1 DEF Moves
    <3>4. Moves /\ at \in DOMAIN route /\ obj \in Objects /\ (obj \in Files => file = obj)
          /\ (InTree => cur \in Dirs /\ Parent[file] = cur) /\ (~InTree => todo = {})
      BY <1>1, <1>2, <2>1 DEF Shape, InFile, Ended
    <3> QED BY <1>1, <1>2, <1>4, <2>1, <3>2, <3>3, <3>4 DEF Shape
  <2>7. Faithful'
    <3>1. SubSeq(disk[from][file], 1, 0) = <<>>
      BY SubSeqEmpty
    <3> QED BY <1>1, <1>2, <1>4, <2>1, <2>3, <3>1 DEF Faithful
  <2>8. CopiesWhole'
    <3>1. \A f \in Files : ~InObject(f) \/ disk[from][f] = NoFile => disk'[To][f] = disk[To][f]
      BY <1>2, <1>4, <2>3 DEF InObject
    <3> QED BY <1>1, <1>2, <2>1, <2>3, <3>1, StillWhole
  <2>9. Rounds'
    <3>1. PICK A \in SUBSET Dirs, V \in SUBSET Dirs :
            /\ IF InTree THEN Chain(A) ELSE A = {}
            /\ ~edited => (IF InTree THEN Listed(A, V) ELSE V = {}) /\ Counted(A, V)
      BY <1>1, FileAtHand
    <3>2. ~edited => Counted(A, V)'
      <4>1. BytesDone(V)' = BytesDone(V)
        <5>1. {file} \X (1 .. 0) = {}
          OBVIOUS
        <5>2. BytesOf(Done(V))' = BytesOf(Done(V))
          BY <1>1, <2>1, <2>3, SameFile
        <5> QED BY <1>1, <1>4, <5>1, <5>2 DEF BytesDone
      <4>2. Done(V)' = Done(V) /\ \A n : Totals(n)' = Totals(n)
        BY <1>1, <2>1, <2>3, SameFile
      <4> QED BY <1>1, <3>1, <4>1, <4>2 DEF Counted
    <3>3. Round(A, V)'
      <4>1. (Chain(A) => Chain(A)') /\ (Listed(A, V) => Listed(A, V)')
        BY <1>1, <2>1, <2>3, SameFile
      <4> QED BY <1>1, <2>1, <3>1, <3>2, <4>1 DEF Round
    <3> QED BY <3>3 DEF Rounds
  <2> QED BY <2>1, <2>4, <2>5, <2>6, <2>7, <2>8, <2>9 DEF IInv, Totalled
<1> QED BY <1>3, <1>4 DEF Open

\* A transfer stays within the size and within what the source holds.
LEMMA Amount ==
  ASSUME TypeOK, Source \in Contents, pos < size, NEW n \in Copied
  PROVE  /\ n \in Nat /\ pos \in Nat /\ size \in Nat /\ Len(Source) \in Nat
         /\ pos + n <= size /\ (n > 0 => pos + n <= Len(Source))
<1>1. pos \in Nat /\ size \in Nat
  BY DEF TypeOK
<1>2. Len(Source) \in Nat
  BY LenProperties DEF Contents
<1> DEFINE l == Len(Source)
<1>3. CASE l > pos
  <2>1. /\ Available \in Nat /\ Available <= l - pos /\ Available <= size - pos
    BY <1>1, <1>2, <1>3, CopyAssumption DEF Available, Smaller
  <2>2. n \in Nat /\ n <= Available
    BY <2>1 DEF Copied
  <2> HIDE DEF l
  <2> QED BY <1>1, <1>2, <1>3, <2>1, <2>2 DEF l
<1>4. CASE ~(l > pos)
  <2>1. Available = 0 /\ n = 0
    BY <1>4 DEF Available, Copied
  <2> QED BY <1>1, <1>2, <2>1
<1> QED BY <1>3, <1>4

\* A part of the file is transferred.
LEMMA TransferStep ==
  ASSUME IInv, Transfer
  PROVE  IInv'
<1>1. /\ pc = "copy" /\ InFile /\ pos < size /\ pc' = "copy"
      /\ UNCHANGED <<dirs, obj, from, route, at, cur, todo, file, input, size, edits, calls, edited,
                     before>>
  BY DEF Transfer, InFile, call, user
<1>2. PICK n \in Copied :
        /\ disk' = [disk EXCEPT ![To][file] = @ \o SubSeq(Source, pos + 1, pos + n)]
        /\ pos' = pos + n
        /\ progress' = [progress EXCEPT !.bytes = @ + n]
  BY DEF Transfer
<1>3. /\ TypeOK /\ Rooted /\ Shape /\ Faithful /\ InRound
      /\ file \in Files /\ file \in Paths /\ file \notin Dirs /\ ObjectOf[file] = obj
      /\ from \in Places /\ To \in Places /\ To # from /\ To' = To
  BY <1>1, FileAtHand DEF To
<1>4. Source \in Contents /\ disk[To][file] \in Contents
  BY <1>1, <1>3 DEF Shape
<1>5. /\ n \in Nat /\ pos \in Nat /\ size \in Nat /\ Len(Source) \in Nat
      /\ pos + n <= size /\ (n > 0 => pos + n <= Len(Source))
  BY <1>1, <1>3, <1>4, Amount
<1> DEFINE more == SubSeq(Source, pos + 1, pos + n)
<1>6. more \in Contents
  <2>1. \A i \in pos + 1 .. pos + n : Source[i] \in Units
    <3>1. Source \in Seq(Units)
      BY <1>4 DEF Contents
    <3>2. \A i \in 1 .. Len(Source) : Source[i] \in Units
      BY <3>1, ElementOfSeq
    <3>3. \A i \in pos + 1 .. pos + n : i \in 1 .. Len(Source)
      BY <1>5
    <3> QED BY <3>2, <3>3
  <2>2. pos + 1 \in Int /\ pos + n \in Int
    BY <1>5
  <2> QED BY <2>1, <2>2, SubSeqProperties DEF Contents
<1>7. disk[To][file] \o more \in Contents
  <2> HIDE DEF more
  <2> QED BY <1>4, <1>6, ConcatProperties DEF Contents
<1>8. /\ disk'[To][file] = disk[To][file] \o more
      /\ \A w \in Places : \A p \in Files : (w # To \/ p # file) => disk'[w][p] = disk[w][p]
      /\ \A w \in Places : w # To => disk'[w] = disk[w]
      /\ disk' \in [Places -> [Files -> {NoFile} \cup Contents]]
  <2>1. disk' = [disk EXCEPT ![To][file] = @ \o more]
    BY <1>2
  <2> HIDE DEF more
  <2> QED BY <1>3, <1>7, <2>1 DEF TypeOK
<1>9. InRound' /\ (InTree' <=> InTree) /\ InFile' /\ pc' \notin Ended /\ pc' # "returned"
  BY <1>1 DEF InRound, InTree, InFile, Ended
<1> HIDE DEF more
<1>10. /\ progress' \in [bytes : Nat, files : Nat, dirs : Nat]
       /\ progress'.bytes = progress.bytes + n /\ progress'.files = progress.files
       /\ progress'.dirs = progress.dirs /\ progress.bytes \in Nat
  <2>1. progress \in [bytes : Nat, files : Nat, dirs : Nat]
    BY <1>3 DEF TypeOK
  <2>2. progress' = [progress EXCEPT !.bytes = progress.bytes + n]
    BY <1>2
  <2> QED BY <1>5, <2>1, <2>2
<1>11. TypeOK'
  <2>1. pos' \in 0 .. size'
    BY <1>1, <1>2, <1>5
  <2> QED BY <1>1, <1>3, <1>8, <1>10, <2>1 DEF TypeOK
<1>12. Rooted'
  <2> SUFFICES ASSUME NEW w \in Places, NEW p \in Paths, Present(w, p)' PROVE Present(w, p)
    BY <1>1, <1>3 DEF Rooted
  <2>1. CASE w = To /\ p = file
    BY <1>3, <1>4, <2>1, CopyAssumption DEF Present
  <2>2. CASE w # To \/ p # file
    BY <1>1, <1>8, <2>2 DEF Present, Paths
  <2> QED BY <2>1, <2>2
<1>13. Source' = Source
  BY <1>1, <1>3, <1>8 DEF Source
<1>14. Shape'
  <2>1. Source' \in Contents /\ disk'[To'][file'] \in Contents
    BY <1>1, <1>3, <1>4, <1>7, <1>8, <1>13
  <2>2. Moves' <=> Moves
    BY <1>1 DEF Moves
  <2>3. Moves /\ at \in DOMAIN route /\ obj \in Objects /\ (obj \in Files => file = obj)
        /\ (InTree => cur \in Dirs /\ Parent[file] = cur) /\ (~InTree => todo = {})
    BY <1>1, <1>3 DEF Shape, InFile, Ended
  <2> QED BY <1>1, <1>3, <1>9, <2>1, <2>2, <2>3 DEF Shape
<1>15. Faithful'
  <2> SUFFICES ASSUME ~edited
               PROVE  /\ disk'[from][file] # NoFile /\ input = NoFile
                      /\ size = Len(disk'[from][file])
                      /\ disk'[To][file] = SubSeq(disk'[from][file], 1, pos + n)
    BY <1>1, <1>2, <1>3 DEF Faithful
  <2> DEFINE s == disk[from][file]
  <2>1. /\ s # NoFile /\ input = NoFile /\ size = Len(s) /\ disk[To][file] = SubSeq(s, 1, pos)
        /\ Source = s /\ s \in Seq(Units) /\ disk'[from][file] = s
    BY <1>1, <1>3, <1>4, <1>8 DEF Faithful, Source, Contents
  <2> HIDE DEF s
  <2>2. SubSeq(s, 1, pos) \o SubSeq(s, pos + 1, pos + n) = SubSeq(s, 1, pos + n)
    <3>1. /\ 1 \in 1 .. Len(s) + 1 /\ pos \in 1 - 1 .. Len(s) /\ pos + n \in pos .. Len(s)
      BY <1>1, <1>5, <2>1
    <3> QED BY <2>1, <3>1, ConcatAdjacentSubSeq
  <2> QED BY <1>8, <2>1, <2>2 DEF more, s
<1>16. CopiesWhole'
  <2>1. ~edited => \A f \in Files : ~InObject(f) \/ disk[from][f] = NoFile
                                      => disk'[To][f] = disk[To][f]
    BY <1>1, <1>3, <1>8 DEF InObject, Faithful
  <2> QED BY <1>1, <1>3, <1>8, <1>9, <2>1, StillWhole
<1>17. Rounds'
  <2>1. PICK A \in SUBSET Dirs, V \in SUBSET Dirs :
          /\ IF InTree THEN Chain(A) ELSE A = {}
          /\ ~edited => (IF InTree THEN Listed(A, V) ELSE V = {}) /\ Counted(A, V)
    BY <1>1, FileAtHand
  <2>2. /\ (Chain(A) => Chain(A)') /\ (Listed(A, V) => Listed(A, V)')
        /\ Done(V)' = Done(V) /\ file \notin Done(V)
        /\ BytesOf(Done(V))' = BytesOf(Done(V))
        /\ \A m : Totals(m)' = Totals(m)
    BY <1>1, <1>8, <1>9, SameFile
  <2>3. ASSUME ~edited PROVE Counted(A, V)'
    <3>1. BytesDone(V) = BytesOf(Done(V)) \cup ({file} \X (1 .. pos))
      BY <1>1 DEF BytesDone
    <3>2. BytesDone(V)' = BytesOf(Done(V)) \cup ({file} \X (1 .. pos + n))
      BY <1>1, <1>2, <2>2 DEF BytesDone
    <3>3. BytesDone(V)' = BytesDone(V) \cup ({file} \X (pos + 1 .. pos + n))
      <4>1. 1 .. pos + n = (1 .. pos) \cup (pos + 1 .. pos + n)
        BY <1>5
      <4> QED BY <3>1, <3>2, <4>1
    <3>4. \A k \in pos + 1 .. pos + n : <<file, k>> \notin BytesDone(V)
      <4>1. \A k : <<file, k>> \notin BytesOf(Done(V))
        BY <2>2 DEF BytesOf
      <4>2. \A k \in pos + 1 .. pos + n : k \notin 1 .. pos
        BY <1>5
      <4> QED BY <3>1, <4>1, <4>2
    <3>5. IsFiniteSet(BytesDone(V)) /\ Cardinality(BytesDone(V)) \in Nat
      BY <1>3, <2>3, DoneIsFound
    <3>6. Cardinality(BytesDone(V)') = Cardinality(BytesDone(V)) + n
      <4>1. PICK S, U, T : S = BytesDone(V) /\ U = pos + 1 .. pos + n /\ T = {file} \X U
        OBVIOUS
      <4>2. IsFiniteSet(U) /\ Cardinality(U) = n
        <5> DEFINE lo == pos + 1
                   hi == pos + n
        <5>1. lo \in Int /\ hi \in Int /\ lo <= hi + 1 /\ hi - lo + 1 = n /\ U = lo .. hi
          BY <1>5, <4>1
        <5> HIDE DEF lo, hi
        <5>2. IsFiniteSet(lo .. hi) /\ Cardinality(lo .. hi) = IF lo > hi THEN 0 ELSE hi - lo + 1
          BY <5>1, FS_Interval
        <5> QED BY <5>1, <5>2
      <4>3. IsFiniteSet(S) /\ S \cap T = {} /\ T = {file} \X U
        BY <3>4, <3>5, <4>1
      <4>4. Cardinality(S \cup T) = Cardinality(S) + Cardinality(U)
        BY <4>2, <4>3, UnitsMore
      <4>5. BytesDone(V)' = S \cup T
        BY <3>3, <4>1
      <4> QED BY <4>1, <4>2, <4>4, <4>5
    <3>7. Counted(A, V)
      BY <2>1, <2>3
    <3>8. Totals(at - 1).bytes \in Nat
      <4>1. at - 1 \in Nat
        BY <1>1, FileAtHand
      <4>2. Cardinality(Bytes) \in Nat
        BY <1>3, Finite
      <4> QED BY <4>1, <4>2 DEF Totals
    <3>9. progress'.bytes = Totals(at - 1).bytes + Cardinality(BytesDone(V)')
      BY <1>5, <1>10, <3>5, <3>6, <3>7, <3>8 DEF Counted
    <3> QED BY <1>1, <1>10, <2>2, <3>7, <3>9 DEF Counted
  <2>4. Round(A, V)'
    BY <1>1, <1>9, <2>1, <2>2, <2>3 DEF Round
  <2> QED BY <2>4 DEF Rounds
<1> QED BY <1>9, <1>11, <1>12, <1>14, <1>15, <1>16, <1>17 DEF IInv, Totalled

\* All of the source is transferred: the file is copied.
LEMMA FileWhole ==
  ASSUME IInv, pc = "copy", pos >= size, ~edited
  PROVE  /\ disk[To][file] = disk[from][file] /\ disk[from][file] # NoFile
         /\ pos = Len(disk[from][file]) /\ file \in Found
<1>1. /\ TypeOK /\ Faithful /\ file \in Files /\ ObjectOf[file] = obj /\ from \in Places
  BY FileAtHand DEF InFile
<1>2. /\ disk[from][file] # NoFile /\ size = Len(disk[from][file])
      /\ disk[To][file] = SubSeq(disk[from][file], 1, pos)
  BY <1>1 DEF Faithful, InFile
<1>3. pos = size
  BY <1>1 DEF TypeOK
<1>4. disk[from][file] \in Seq(Units)
  BY <1>1, <1>2 DEF TypeOK, Contents
<1>5. SubSeq(disk[from][file], 1, pos) = disk[from][file]
  BY <1>2, <1>3, <1>4, SubSeqFull
<1> QED BY <1>1, <1>2, <1>3, <1>5 DEF Found, InObject

\* The streams are closed, and the files compared.
LEMMA CompareStep ==
  ASSUME IInv, Compare
  PROVE  IInv'
<1>1. /\ pc = "copy" /\ InFile /\ pos >= size
      /\ UNCHANGED <<disk, dirs, obj, from, route, cur, todo, file, input, size, pos, edits, calls,
                     edited, before>>
  BY DEF Compare, InFile, call, stream, user
<1>2. /\ TypeOK /\ Rooted /\ Shape /\ Faithful /\ InRound
      /\ file \in Files /\ file \in Paths /\ file \notin Dirs /\ ObjectOf[file] = obj
      /\ from \in Places /\ To \in Places /\ To # from
      /\ at \in Nat /\ at >= 1 /\ at + 1 <= Len(Locations) + 1 /\ Len(Locations) \in Nat
      /\ obj \in Objects /\ Parent[obj] = NoDir
      /\ (obj \in Dirs => InTree /\ cur \in Dirs /\ Parent[file] = cur)
      /\ (obj \notin Dirs => ~InTree /\ file = obj /\ todo = {} /\ obj \in Files)
      /\ \A p : AtHand(p) <=> p = file
  BY <1>1, FileAtHand
<1>3. PICK A \in SUBSET Dirs, V \in SUBSET Dirs :
        /\ IF InTree THEN Chain(A) ELSE A = {}
        /\ ~edited => (IF InTree THEN Listed(A, V) ELSE V = {}) /\ Counted(A, V)
  BY <1>1, FileAtHand
<1>4. Rooted' /\ \A w, q : Present(w, q)' <=> Present(w, q)
  BY <1>1, <1>2 DEF Rooted, Present
<1>5. Bytes' = Bytes /\ Found' = Found /\ FoundDirs' = FoundDirs /\ \A n : Totals(n)' = Totals(n)
  BY <1>1 DEF Totals, Bytes, BytesOf, Found, FoundDirs, InObject
<1>6. CASE pc' = "threw" /\ UNCHANGED <<at, progress>>
  <2>1. ~InRound' /\ ~InTree' /\ ~InFile' /\ pc' \in Ended
    BY <1>6 DEF InRound, InTree, InFile, Ended
  <2>2. TypeOK'
    BY <1>1, <1>2, <1>6, <2>1 DEF TypeOK
  <2>3. Shape'
    BY <1>1, <1>2, <1>6, <2>1 DEF Shape, Moves
  <2>4. Faithful'
    BY <1>6, <2>1 DEF Faithful
  <2>5. CopiesWhole'
    BY <1>1, <1>2, <1>6, StillWhole
  <2>6. Rounds'
    BY <1>6, <2>1 DEF Rounds
  <2>7. Totalled'
    <3>1. ProgressExact
      BY NeverMore
    <3> QED BY <1>1, <1>5, <1>6, <3>1 DEF Totalled, ProgressExact, Moves
  <2> QED BY <1>4, <2>2, <2>3, <2>4, <2>5, <2>6, <2>7 DEF IInv
<1>7. CASE /\ progress' = [progress EXCEPT !.files = @ + 1]
           /\ IF obj \in Files THEN NextLocation ELSE pc' = "walk" /\ UNCHANGED at
  <2>1. /\ progress' \in [bytes : Nat, files : Nat, dirs : Nat]
        /\ progress'.bytes = progress.bytes /\ progress'.files = progress.files + 1
        /\ progress'.dirs = progress.dirs /\ progress.files \in Nat
    <3>1. progress \in [bytes : Nat, files : Nat, dirs : Nat]
      BY <1>2 DEF TypeOK
    <3> QED BY <1>7, <3>1
  <2>2. CASE obj \in Files
    <3>1. NextLocation /\ obj \notin Dirs /\ ~InTree /\ file = obj /\ todo = {}
      BY <1>2, <1>7, <2>2, TreeAssumption
    <3>2. TypeOK'
      <4>1. at' = at + 1 /\ pc' \in {"returned", "location"}
        BY <3>1 DEF NextLocation
      <4>2. at' \in 1 .. Len(Locations) + 1
        BY <1>2, <4>1
      <4> QED BY <1>1, <1>2, <2>1, <4>1, <4>2 DEF TypeOK, Ended
    <3>3. ASSUME ~edited PROVE Whole(To) /\ progress' = Totals(at)
      <4>1. /\ disk[To][obj] = disk[from][obj] /\ disk[from][obj] # NoFile
            /\ pos = Len(disk[from][obj]) /\ obj \in Found
        BY <1>1, <3>1, <3>3, FileWhole
      <4>2. \A p \in Paths : ObjectOf[p] = obj => p = obj
        BY <2>2, FileAlone
      <4>3. Whole(To)
        BY <3>1, <4>1, <4>2 DEF Whole, Present
      <4>4. Found = {obj} /\ FoundDirs = {}
        <5>1. \A d \in dirs[from] : d \in Paths /\ d # obj
          BY <1>2, <3>1 DEF TypeOK, Paths
        <5> QED BY <4>1, <4>2, <5>1 DEF Found, FoundDirs, InObject, Paths
      <4>5. V = {} /\ A = {} /\ Counted({}, {})
        BY <1>3, <3>1, <3>3
      <4>6. Done({}) = {} /\ {} \ {} = {}
        BY DEF Done
      <4>7. BytesDone({}) = Bytes
        <5>1. BytesDone({}) = {obj} \X (1 .. Len(disk[from][obj]))
          BY <1>1, <3>1, <4>1, <4>6 DEF BytesDone, BytesOf
        <5>2. Bytes = {obj} \X (1 .. Len(disk[from][obj]))
          BY <4>4 DEF Bytes, BytesOf
        <5> QED BY <5>1, <5>2
      <4>8. Cardinality({}) = 0 /\ Cardinality({obj}) = 1
        BY FS_EmptySet, FS_Singleton
      <4> DEFINE B == Cardinality(Bytes)
      <4>9. B \in Nat
        BY <1>2, Finite
      <4>10. /\ progress.bytes = (at - 1) * B + B
             /\ progress.files = (at - 1) * 1 + 0 /\ progress.dirs = (at - 1) * 0 + 0
        BY <4>4, <4>5, <4>6, <4>7, <4>8 DEF Counted, Totals
      <4> HIDE DEF B
      <4>11. (at - 1) * B + B = at * B
        BY <1>2, <4>9
      <4>12. progress'.bytes = at * B /\ progress'.files = at * 1 /\ progress'.dirs = at * 0
        BY <1>2, <2>1, <4>10, <4>11
      <4>13. Totals(at) = [bytes |-> at * B, files |-> at * 1, dirs |-> at * 0]
        BY <4>4, <4>8 DEF Totals, B
      <4>14. progress' = Totals(at)
        BY <2>1, <4>12, <4>13
      <4> QED BY <4>3, <4>14
    <3>4. Rooted' /\ Shape' /\ Faithful' /\ CopiesWhole' /\ Rounds' /\ Totalled'
      BY <1>1, <1>2, <3>1, <3>2, <3>3, Arrive
    <3> QED BY <3>2, <3>4 DEF IInv
  <2>3. CASE obj \notin Files
    <3>1. /\ obj \in Dirs /\ InTree /\ cur \in Dirs /\ Parent[file] = cur
          /\ pc' = "walk" /\ at' = at
      BY <1>2, <1>7, <2>3
    <3>2. InRound' /\ InTree' /\ ~InFile' /\ pc' \notin Ended /\ To' = To /\ pc' # "list"
      BY <1>1, <3>1 DEF InRound, InTree, InFile, Ended, To
    <3>3. TypeOK'
      BY <1>1, <1>2, <2>1, <3>1 DEF TypeOK
    <3>4. Shape'
      BY <1>1, <1>2, <3>1, <3>2 DEF Shape, InRound, Moves
    <3>5. Faithful'
      BY <3>1, <3>2 DEF Faithful
    <3>6. CopiesWhole'
      BY <1>1, <1>2, <3>1, StillWhole
    <3>7. Chain(A) /\ Chain(A)'
      BY <1>1, <1>3, <3>1, <3>2 DEF Chain
    <3>8. ASSUME ~edited PROVE Listed(A, V)' /\ Counted(A, V)'
      <4>1. Listed(A, V) /\ Counted(A, V)
        BY <1>3, <3>1, <3>8
      <4>2. /\ disk[To][file] = disk[from][file] /\ pos = Len(disk[from][file]) /\ file \in Found
        BY <1>1, <3>8, FileWhole
      <4>3. \A q : ~AtHand(q)'
        BY <3>1, <3>2 DEF AtHand
      <4>4. Listed(A, V)'
        <5>1. /\ V \subseteq dirs[from] \cap dirs[To] /\ cur \in dirs[from] /\ A \ V = {}
              /\ \A d \in V : ObjectOf[d] = obj /\ (d # obj => Parent[d] \in V)
              /\ \A q \in todo : Present(from, q) /\ Parent[q] \in V /\ q \notin V
          BY <1>1, <4>1 DEF Listed
        <5>2. \A q \in Paths : Parent[q] \in V /\ Present(from, q) =>
                q \in todo \cup V \/ (q \in Files /\ disk[To][q] = disk[from][q])
          BY <1>2, <4>1, <4>2 DEF Listed
        <5> QED BY <1>1, <1>4, <3>1, <3>2, <4>3, <5>1, <5>2 DEF Listed
      <4>5. /\ Done(V)' = Done(V) \cup {file} /\ file \notin Done(V)
        <5>1. cur \in V
          <6>1. cur \in A /\ A \ V = {}
            BY <1>1, <3>7, <4>1 DEF Chain, Listed
          <6> QED BY <6>1
        <5>2. file \notin todo
          BY <1>2, <4>1 DEF Listed
        <5> QED BY <1>1, <1>2, <1>5, <3>1, <4>2, <4>3, <5>1, <5>2 DEF Done
      <4>6. BytesDone(V)' = BytesDone(V)
        <5>1. BytesDone(V) = BytesOf(Done(V)) \cup ({file} \X (1 .. Len(disk[from][file])))
          BY <1>1, <4>2 DEF BytesDone
        <5>2. BytesDone(V)' = BytesOf(Done(V) \cup {file})
          BY <1>1, <3>1, <4>5 DEF BytesDone, BytesOf
        <5> QED BY <5>1, <5>2 DEF BytesOf
      <4>7. /\ Cardinality(Done(V)') = Cardinality(Done(V)) + 1 /\ Cardinality(Done(V)) \in Nat
        <5>1. IsFiniteSet(Done(V)) /\ Cardinality(Done(V)) \in Nat
          BY <1>2, <3>8, DoneIsFound
        <5> QED BY <4>5, <5>1, FS_AddElement
      <4>8. Totals(at - 1).files \in Nat
        <5>1. at - 1 \in Nat /\ Cardinality(Found) \in Nat
          BY <1>2, Finite
        <5> QED BY <5>1 DEF Totals
      <4>9. progress'.files = Totals(at - 1).files + Cardinality(Done(V)')
        BY <2>1, <4>1, <4>7, <4>8 DEF Counted
      <4>10. Counted(A, V)'
        BY <1>5, <2>1, <3>1, <4>1, <4>6, <4>9 DEF Counted
      <4> QED BY <4>4, <4>10
    <3>9. Rounds'
      <4>1. Round(A, V)'
        BY <1>1, <3>2, <3>7, <3>8 DEF Round
      <4> QED BY <4>1 DEF Rounds
    <3> QED BY <1>4, <3>2, <3>3, <3>4, <3>5, <3>6, <3>9 DEF IInv, Totalled
  <2> QED BY <2>2, <2>3
<1> QED BY <1>6, <1>7 DEF Compare

-----------------------------------------------------------------------------
\* At the start the user's storage holds everything, and nothing else does.
LEMMA InitStep == Init => IInv
<1> SUFFICES ASSUME Init PROVE IInv
  OBVIOUS
<1>1. PICK c \in Versions :
        disk = [w \in Places |-> IF w = "user" THEN [f \in Files |-> c] ELSE Nothing]
  BY DEF Init
<1>2. /\ dirs = [w \in Places |-> IF w = "user" THEN Dirs ELSE {}]
      /\ pc = "idle" /\ obj = NoDir /\ from = "user" /\ route = <<>> /\ at = 1
      /\ cur = NoDir /\ todo = {} /\ file = NoDir /\ input = NoFile /\ size = 0 /\ pos = 0
      /\ progress = NoProgress /\ edits = 0 /\ calls = 0 /\ edited = FALSE
      /\ before = [w \in Places |-> Nothing]
  BY DEF Init
<1>3. "user" \in Places /\ c \in Contents
  BY CopyAssumption DEF Places
<1>4. /\ ~InRound /\ ~InTree /\ ~InFile /\ pc \notin Ended
  BY <1>2 DEF InRound, InTree, InFile, Ended
<1>5. TypeOK
  <2>1. disk \in [Places -> [Files -> {NoFile} \cup Contents]]
    BY <1>1, <1>3 DEF Nothing
  <2>2. dirs \in [Places -> SUBSET Dirs]
    BY <1>2
  <2>3. before \in [Places -> [Files -> {NoFile} \cup Contents]]
    BY <1>2 DEF Nothing
  <2>4. at \in 1 .. Len(Locations) + 1
    BY <1>2, CopyAssumption, LenProperties
  <2>5. progress \in [bytes : Nat, files : Nat, dirs : Nat]
    BY <1>2 DEF NoProgress
  <2>6. edits \in 0 .. MaxEdits /\ calls \in 0 .. MaxCalls
    BY <1>2, CopyAssumption
  <2>7. size \in Nat /\ pos \in 0 .. size
    BY <1>2
  <2>8. route \in {Locations, <<"user">>, <<>>} \cup {<<w>> : w \in Archive \cup {"working"}}
    BY <1>2
  <2>9. /\ pc \in {"idle", "location", "list", "walk", "open", "copy", "delete"} \cup Ended
        /\ edited \in BOOLEAN
    BY <1>2
  <2>10. /\ obj \in Objects \cup {NoDir} /\ from \in Places /\ cur \in Dirs \cup {NoDir}
         /\ todo \subseteq Paths /\ file \in Files \cup {NoDir}
         /\ input \in {NoFile} \cup Contents
    BY <1>2, <1>3
  <2> QED BY <2>1, <2>2, <2>3, <2>4, <2>5, <2>6, <2>7, <2>8, <2>9, <2>10 DEF TypeOK
<1>6. Rooted
  <2> SUFFICES ASSUME NEW w \in Places, NEW p \in Paths, Present(w, p), Parent[p] # NoDir
               PROVE  Parent[p] \in dirs[w]
    BY DEF Rooted
  <2>1. CASE w = "user"
    BY <1>2, <1>3, <2>1, OnTree
  <2>2. CASE w # "user"
    BY <1>1, <1>2, <2>2 DEF Present, Nothing, Paths
  <2> QED BY <2>1, <2>2
<1>7. Shape
  BY <1>2, <1>4 DEF Shape
<1>8. Faithful /\ CopiesWhole /\ Rounds /\ Totalled
  BY <1>2, <1>4 DEF Faithful, CopiesWhole, Rounds, Totalled
<1> QED BY <1>5, <1>6, <1>7, <1>8 DEF IInv

\* Nothing changes.
LEMMA StutterStep ==
  ASSUME IInv, UNCHANGED vars
  PROVE  IInv'
<1>1. UNCHANGED <<disk, dirs, pc, obj, from, route, at, cur, todo, file, input, size, pos,
                  progress, edits, calls, edited, before>>
  BY DEF vars
<1>2. TypeOK'
  BY <1>1 DEF IInv, TypeOK
<1>3. Rooted' /\ Shape' /\ Faithful' /\ CopiesWhole'
  BY <1>1 DEF IInv, Rooted, Shape, Faithful, CopiesWhole, Present, Moves, InRound, InTree, InFile,
              To, Source, Whole, InObject
<1>4. Totalled'
  BY <1>1 DEF IInv, Totalled, ProgressExact, Moves, Totals, Bytes, BytesOf, Found, FoundDirs,
              InObject
<1>5. Rounds'
  <2> SUFFICES ASSUME (InRound \/ pc = "location")' PROVE \E A, V \in SUBSET Dirs : Round(A, V)'
    BY DEF Rounds
  <2>1. PICK A \in SUBSET Dirs, V \in SUBSET Dirs : Round(A, V)
    BY <1>1 DEF IInv, Rounds, InRound
  <2>2. /\ (InTree' <=> InTree) /\ (Chain(A)' <=> Chain(A)) /\ (Listed(A, V)' <=> Listed(A, V))
    BY <1>1 DEF InTree, InRound, Chain, Listed, To, Present, AtHand, InFile
  <2>3. Counted(A, V)' <=> Counted(A, V)
    <3>1. /\ Found' = Found /\ Bytes' = Bytes /\ FoundDirs' = FoundDirs
          /\ Totals(at - 1)' = Totals(at - 1)
      BY <1>1 DEF Totals, Bytes, BytesOf, Found, FoundDirs, InObject
    <3>2. Done(V)' = Done(V)
      BY <1>1, <3>1 DEF Done, AtHand, InFile
    <3>3. BytesDone(V)' = BytesDone(V)
      BY <1>1, <3>2 DEF BytesDone, BytesOf
    <3> QED BY <1>1, <3>1, <3>2, <3>3 DEF Counted
  <2>4. Round(A, V)'
    BY <1>1, <2>1, <2>2, <2>3 DEF Round
  <2> QED BY <2>4
<1> QED BY <1>2, <1>3, <1>4, <1>5 DEF IInv

LEMMA NextStep == IInv /\ [Next]_vars => IInv'
<1> SUFFICES ASSUME IInv, [Next]_vars PROVE IInv'
  OBVIOUS
<1>1. CASE Store \/ Retrieve \/ UserStore \/ UserRetrieve \/ Delete
  BY <1>1, BeginsStep
<1>2. CASE Step
  BY <1>2, LocationStep, ListStep, VisitStep, LeaveStep, OpenStep, TransferStep, CompareStep,
     DeleteStep DEF Step
<1>3. CASE Fail
  BY <1>3, FailStep
<1>4. CASE Forget
  BY <1>4, ForgetStep
<1>5. CASE Prepare
  BY <1>5, PrepareStep
<1>6. CASE UserEdits
  BY <1>6, EditStep DEF UserEdits
<1>7. CASE UNCHANGED vars
  BY <1>7, StutterStep
<1> QED BY <1>1, <1>2, <1>3, <1>4, <1>5, <1>6, <1>7 DEF Next

-----------------------------------------------------------------------------
\* The inductive invariant: where the recursion of a copy is, which directories it has
\* listed, and that their entries are waiting, at hand or copied, and counted.
THEOREM Invariance == Spec => []IInv
  BY InitStep, NextStep, PTL DEF Spec

\* Every variable keeps its type; the position never passes the size.
THEOREM TypeCorrect == Spec => []TypeOK
<1>1. IInv => TypeOK
  BY DEF IInv
<1> QED BY <1>1, Invariance, PTL

\* A store or retrieve that returns has copied the whole object to every place it is
\* meant for, and replaced nothing else, whatever failed before it.
THEOREM WholeCopies == Spec => []CopiesWhole
<1>1. IInv => CopiesWhole
  BY DEF IInv
<1> QED BY <1>1, Invariance, PTL

\* A call that returns has counted every byte, file and directory it copied, once for
\* each place, and no call counts more.
THEOREM ExactProgress == Spec => []ProgressExact
<1>1. IInv => ProgressExact
  BY NeverMore
<1> QED BY <1>1, Invariance, PTL
=============================================================================
