-------------------------- MODULE OracleStoreProofs --------------------------
(***************************************************************************)
(* Proofs about OracleStore, for every retry interval, number of attempts  *)
(* and duration of a restore.                                              *)
(***************************************************************************)
EXTENDS OracleStore, TLAPS

\* With no attempt at all a call returns without having done anything.
AtLeastOneAttempt == MaxRetries # 0

-----------------------------------------------------------------------------
(***************************************************************************)
(* The arithmetic of the intervals.                                        *)
(***************************************************************************)
LEMMA Times ==
  ASSUME NEW a \in Nat, NEW b \in Nat, NEW c \in Nat
  PROVE  /\ a * c \in Nat
         /\ (a + 1) * c = a * c + c
         /\ a <= b => a * c <= b * c
<1>1. a * c \in Nat /\ (a + 1) * c = a * c + c
  OBVIOUS
<1>2. ASSUME a <= b PROVE a * c <= b * c
  <2>1. PICK d \in Nat : b = a + d
    <3>1. b - a \in Nat /\ b = a + (b - a)
      BY <1>2
    <3> QED BY <3>1
  <2>2. b * c = a * c + d * c /\ d * c \in Nat
    BY <2>1
  <2> QED BY <1>1, <2>2
<1> QED BY <1>1, <1>2

\* An attempt takes the time of its polls and one interval to wait.
LEMMA Minutes ==
  ASSUME TypeOK, retryTime # 0
  PROVE  /\ Looks \in Nat /\ AttemptMinutes \in Nat
         /\ (Looks + 1) * retryTime \in Nat
         /\ AttemptMinutes = (Looks + 1) * retryTime + retryTime
<1>1. retryTime \in Nat \ {0}
  BY OracleAssumption DEF TypeOK
<1>2. 60 \div retryTime \in Nat
  BY <1>1
<1>3. Looks \in Nat
  BY <1>2 DEF Looks
<1>4. AttemptMinutes = ((Looks + 1) + 1) * retryTime
  BY <1>1, <1>3 DEF AttemptMinutes
<1>5. Looks + 1 \in Nat
  BY <1>3
<1> HIDE DEF Looks
<1> QED BY <1>1, <1>3, <1>4, <1>5, Times

\* The attempts made so far leave room for one more.
LEMMA Attempts ==
  ASSUME TypeOK, retryTime # 0, r < MaxRetries
  PROVE  /\ r * AttemptMinutes \in Nat
         /\ MaxRetries * AttemptMinutes \in Nat
         /\ (r + 1) * AttemptMinutes = r * AttemptMinutes + AttemptMinutes
         /\ (r + 1) * AttemptMinutes <= MaxRetries * AttemptMinutes
<1>1. AttemptMinutes \in Nat
  BY Minutes
<1>2. r \in Nat /\ r + 1 \in Nat /\ MaxRetries \in Nat /\ r + 1 <= MaxRetries
  BY OracleAssumption DEF TypeOK
<1> QED BY <1>1, <1>2, Times

\* The intervals do not change, nor what is computed from them.
LEMMA SameMinutes ==
  ASSUME retryTime' = retryTime
  PROVE  Looks' = Looks /\ AttemptMinutes' = AttemptMinutes
BY DEF Looks, AttemptMinutes

-----------------------------------------------------------------------------
LEMMA InitIInv == Init => IInv
<1> SUFFICES ASSUME Init PROVE IInv
  OBVIOUS
<1>1. TypeOK
  BY OracleAssumption DEF Init, TypeOK
<1>2. Flow /\ StoreKept /\ RetrieveWhole
  BY DEF Init, Flow, StoreKept, RetrieveWhole
<1>3. Spent /\ TimeBound
  <2>1. r = 0 /\ clock = 0 /\ pc = "idle"
    BY DEF Init
  <2>2. retryTime # 0 => clock <= MaxRetries * AttemptMinutes
    <3> SUFFICES ASSUME retryTime # 0 PROVE clock <= MaxRetries * AttemptMinutes
      OBVIOUS
    <3>1. MaxRetries * AttemptMinutes \in Nat
      BY <1>1, Minutes, OracleAssumption, Times
    <3> QED BY <2>1, <3>1
  <2> QED BY <2>1, <2>2 DEF Spent, TimeBound
<1> QED BY <1>1, <1>2, <1>3 DEF IInv

LEMMA BeginType ==
  ASSUME TypeOK, data' \in Data \cup {NoFile},
         NEW o \in {"store", "retrieve", "delete"},
         NEW first \in {"restore", "upload", "delete", "returned"},
         Begin(o, first)
  PROVE  TypeOK'
<1> USE OracleAssumption DEF TypeOK, Begin
<1>1. ready' \in Nat \cup {Never}
  OBVIOUS
<1>2. pc' \in {"idle", "restore", "poll", "get", "upload", "delete", "caught",
              "returned", "threw"}
  OBVIOUS
<1>3. /\ r' \in Nat /\ (r' < MaxRetries \/ r' = 0)
      /\ polls' \in Nat /\ clock' \in Nat /\ asked' \in Nat
  OBVIOUS
<1>4. /\ retryTime' \in RetryTimes /\ object' \in Data \cup {NoFile}
      /\ working' \in Data \cup {NoFile, Torn}
  OBVIOUS
<1>5. /\ op' \in {"none", "store", "retrieve", "delete"}
      /\ cause' \in {"none", "request", "by_zero", "restore_failed"}
  OBVIOUS
<1> QED BY <1>1, <1>2, <1>3, <1>4, <1>5

\* The restore asked for takes one of the times a restore may take.
LEMMA RestoreType ==
  ASSUME TypeOK, RequestRestore
  PROVE  ready' \in Nat \cup {Never}
<1>1. CASE UNCHANGED ready
  BY <1>1 DEF TypeOK
<1>2. CASE ready' \in {clock + d : d \in RestoreTimes}
  <2>1. PICK d \in RestoreTimes : ready' = clock + d
    BY <1>2
  <2> QED BY <2>1, OracleAssumption DEF TypeOK
<1> QED BY <1>1, <1>2 DEF RequestRestore

LEMMA TypeStep ==
  ASSUME AtLeastOneAttempt, TypeOK, Flow, [Next]_vars
  PROVE  TypeOK'
<1> USE OracleAssumption DEF AtLeastOneAttempt
<1>1. CASE CallStore
  BY <1>1, BeginType DEF CallStore
<1>2. CASE CallRetrieve
  BY <1>2, BeginType DEF CallRetrieve
<1>3. CASE CallDelete
  BY <1>3, BeginType DEF CallDelete
<1> USE DEF TypeOK, Flow, args, storage, Fail
<1>4. CASE RequestRestore
  <2>1. ready' \in Nat \cup {Never}
    BY <1>4, RestoreType
  <2>2. polls' \in Nat /\ asked' \in Nat
    BY <1>4 DEF RequestRestore
  <2>3. /\ pc' \in {"poll", "caught"}
        /\ cause' \in {"none", "request", "by_zero", "restore_failed"}
    BY <1>4 DEF RequestRestore
  <2>4. UNCHANGED <<args, r, clock, object, working>>
    BY <1>4 DEF RequestRestore
  <2> QED BY <2>1, <2>2, <2>3, <2>4
<1>5. CASE Poll
  <2>1. polls' \in Nat /\ clock' \in Nat
    BY <1>5 DEF Poll
  <2>2. /\ pc' \in {"poll", "get", "caught"}
        /\ cause' \in {"none", "request", "by_zero", "restore_failed"}
    BY <1>5 DEF Poll
  <2>3. UNCHANGED <<args, r, asked, storage, working>>
    BY <1>5 DEF Poll
  <2> QED BY <2>1, <2>2, <2>3
<1>6. CASE Get
  BY <1>6 DEF Get
<1>7. CASE Upload
  BY <1>7 DEF Upload
<1>8. CASE Catch
  BY <1>8 DEF Catch
<1>9. CASE Delete
  BY <1>9 DEF Delete
<1>10. CASE Forget
  BY <1>10 DEF Forget
<1>11. CASE UNCHANGED vars
  BY <1>11 DEF vars
<1> QED BY <1>1, <1>2, <1>3, <1>4, <1>5, <1>6, <1>7, <1>8, <1>9, <1>10, <1>11 DEF Next, CallStep

\* What is kept does not depend on the minutes.
LEMMA KeptStep ==
  ASSUME AtLeastOneAttempt, TypeOK, Flow, StoreKept, RetrieveWhole, [Next]_vars
  PROVE  Flow' /\ StoreKept' /\ RetrieveWhole'
<1> USE OracleAssumption
    DEF AtLeastOneAttempt, TypeOK, Flow, StoreKept, RetrieveWhole, args, storage, Begin, Fail
<1>1. CASE CallStore
  BY <1>1 DEF CallStore
<1>2. CASE CallRetrieve
  BY <1>2 DEF CallRetrieve
<1>3. CASE CallDelete
  BY <1>3 DEF CallDelete
<1>4. CASE RequestRestore
  BY <1>4 DEF RequestRestore
<1>5. CASE Poll
  BY <1>5 DEF Poll
<1>6. CASE Get
  BY <1>6 DEF Get
<1>7. CASE Upload
  BY <1>7 DEF Upload
<1>8. CASE Catch
  BY <1>8 DEF Catch
<1>9. CASE Delete
  BY <1>9 DEF Delete
<1>10. CASE Forget
  BY <1>10 DEF Forget
<1>11. CASE UNCHANGED vars
  BY <1>11 DEF vars
<1> QED BY <1>1, <1>2, <1>3, <1>4, <1>5, <1>6, <1>7, <1>8, <1>9, <1>10, <1>11 DEF Next, CallStep

-----------------------------------------------------------------------------
(***************************************************************************)
(* The time bound: Spent follows the clock through the attempts.           *)
(***************************************************************************)
LEMMA SpentStep ==
  ASSUME AtLeastOneAttempt, TypeOK, Spent, [Next]_vars
  PROVE  Spent'
<1> SUFFICES ASSUME retryTime' # 0
             PROVE  /\ pc' \in {"restore", "upload"} => clock' <= r' * AttemptMinutes'
                    /\ pc' = "poll" => /\ clock' = asked' + polls' * retryTime'
                                      /\ polls' <= Looks' + 1
                    /\ pc' \in {"poll", "get"} => asked' <= r' * AttemptMinutes'
                    /\ pc' \in {"get", "caught"} =>
                          clock' <= r' * AttemptMinutes' + (Looks' + 1) * retryTime'
                    /\ pc' \in {"returned", "threw", "idle"} =>
                          clock' <= MaxRetries * AttemptMinutes'
                    /\ pc' = "delete" => clock' = 0
  BY DEF Spent
<1>1. retryTime' = retryTime
  BY DEF Next, CallStep, CallStore, CallRetrieve, CallDelete, RequestRestore, Poll,
         Get, Upload, Catch, Delete, Forget, Begin, args, vars
<1>2. Looks' = Looks /\ AttemptMinutes' = AttemptMinutes /\ retryTime # 0
  BY <1>1, SameMinutes
<1> DEFINE A == AttemptMinutes
           L == Looks
           B == (L + 1) * retryTime
<1>3. A \in Nat /\ L \in Nat /\ B \in Nat /\ A = B + retryTime
  BY <1>2, Minutes
<1>4. r \in Nat /\ r < MaxRetries /\ MaxRetries \in Nat /\ retryTime \in Nat
  BY OracleAssumption DEF AtLeastOneAttempt, TypeOK
<1>5. /\ r * A \in Nat /\ MaxRetries * A \in Nat
      /\ (r + 1) * A = r * A + A /\ (r + 1) * A <= MaxRetries * A
  BY <1>2, <1>4, Attempts
<1>6. /\ pc \in {"restore", "upload"} => clock <= r * A
      /\ pc = "poll" => clock = asked + polls * retryTime /\ polls <= L + 1
      /\ pc \in {"poll", "get"} => asked <= r * A
      /\ pc \in {"get", "caught"} => clock <= r * A + B
      /\ pc \in {"returned", "threw", "idle"} => clock <= MaxRetries * A
      /\ pc = "delete" => clock = 0
  BY <1>2 DEF Spent
<1>7. clock \in Nat /\ polls \in Nat /\ asked \in Nat
  BY DEF TypeOK
<1> DEFINE Goal == /\ pc' \in {"restore", "upload"} => clock' <= r' * A
                   /\ pc' = "poll" => /\ clock' = asked' + polls' * retryTime
                                     /\ polls' <= L + 1
                   /\ pc' \in {"poll", "get"} => asked' <= r' * A
                   /\ pc' \in {"get", "caught"} => clock' <= r' * A + B
                   /\ pc' \in {"returned", "threw", "idle"} => clock' <= MaxRetries * A
                   /\ pc' = "delete" => clock' = 0
<1>8. SUFFICES Goal
  BY <1>1, <1>2
<1>9. 0 * A = 0 /\ 0 * retryTime = 0
  BY <1>3, <1>4
<1>10. polls <= L + 1 => polls * retryTime \in Nat /\ polls * retryTime <= B
  BY <1>3, <1>4, <1>7, Times
<1>11. (polls + 1) * retryTime = polls * retryTime + retryTime /\ polls * retryTime \in Nat
  BY <1>4, <1>7, Times
<1>12. L = Looks
  OBVIOUS
<1> HIDE DEF A, B, L
<1> USE OracleAssumption DEF Fail, args, storage
<1>20. CASE CallStore \/ CallRetrieve \/ CallDelete
  <2>1. r' = 0 /\ polls' = 0 /\ clock' = 0 /\ asked' = 0
    BY <1>20 DEF CallStore, CallRetrieve, CallDelete, Begin
  <2>2. pc' \in {"restore", "upload", "delete", "returned"}
    BY <1>20 DEF CallStore, CallRetrieve, CallDelete, Begin
  <2> QED BY <2>1, <2>2, <1>5, <1>9
<1>21. CASE RequestRestore
  <2>1. pc = "restore" /\ r' = r /\ clock' = clock
    BY <1>21 DEF RequestRestore
  <2>2. \/ pc' = "poll" /\ polls' = 0 /\ asked' = clock
        \/ pc' = "caught"
    BY <1>21 DEF RequestRestore
  <2> QED BY <2>1, <2>2, <1>3, <1>5, <1>6, <1>7, <1>9
<1>22. CASE Poll
  <2>1. pc = "poll" /\ r' = r /\ asked' = asked
    BY <1>22 DEF Poll
  <2>2. \/ pc' \in {"caught", "get"} /\ UNCHANGED <<polls, clock>>
        \/ pc' = "poll" /\ polls <= L /\ polls' = polls + 1 /\ clock' = clock + retryTime
    BY <1>22, <1>12 DEF Poll
  <2>3. CASE pc' \in {"caught", "get"} /\ UNCHANGED <<polls, clock>>
    BY <2>1, <2>3, <1>3, <1>5, <1>6, <1>7, <1>10
  <2>4. CASE pc' = "poll" /\ polls <= L /\ polls' = polls + 1 /\ clock' = clock + retryTime
    <3>1. clock' = asked + (polls * retryTime + retryTime)
      BY <2>1, <2>4, <1>4, <1>6, <1>7, <1>11
    <3>2. polls' * retryTime = polls * retryTime + retryTime
      BY <2>4, <1>11
    <3> QED BY <2>1, <2>4, <3>1, <3>2, <1>3, <1>6, <1>7
  <2> QED BY <2>2, <2>3, <2>4
<1>23. CASE Get
  <2>1. pc = "get" /\ pc' \in {"returned", "caught"} /\ UNCHANGED <<r, clock>>
    BY <1>23 DEF Get
  <2> QED BY <2>1, <1>3, <1>4, <1>5, <1>6, <1>7
<1>24. CASE Upload
  <2>1. pc = "upload" /\ pc' \in {"returned", "caught"} /\ UNCHANGED <<r, clock>>
    BY <1>24 DEF Upload
  <2> QED BY <2>1, <1>3, <1>4, <1>5, <1>6, <1>7
<1>25. CASE Catch
  <2>1. pc = "caught"
    BY <1>25 DEF Catch
  <2>2. \/ pc' = "threw" /\ UNCHANGED clock
        \/ pc' \in {"upload", "restore"} /\ r' = r + 1 /\ clock' = clock + retryTime
    BY <1>25 DEF Catch
  <2>3. clock + retryTime <= r * A + A
    BY <2>1, <1>3, <1>4, <1>5, <1>6, <1>7
  <2> QED BY <2>1, <2>2, <2>3, <1>3, <1>4, <1>5, <1>6, <1>7
<1>26. CASE Delete
  <2>1. pc = "delete" /\ pc' = "returned" /\ clock' = clock
    BY <1>26 DEF Delete
  <2> QED BY <2>1, <1>5, <1>6
<1>27. CASE Forget
  <2>1. pc \in {"returned", "threw"} /\ pc' = "idle" /\ clock' = clock
    BY <1>27 DEF Forget
  <2> QED BY <2>1, <1>6
<1>28. CASE UNCHANGED vars
  BY <1>28, <1>6 DEF vars
<1> QED BY <1>20, <1>21, <1>22, <1>23, <1>24, <1>25, <1>26, <1>27, <1>28 DEF Next, CallStep

LEMMA SpentBounds == AtLeastOneAttempt /\ TypeOK /\ Flow /\ Spent => TimeBound
<1> SUFFICES ASSUME AtLeastOneAttempt, TypeOK, Flow, Spent, retryTime # 0
             PROVE  clock <= MaxRetries * AttemptMinutes
  BY DEF TimeBound
<1> DEFINE A == AttemptMinutes
           B == (Looks + 1) * retryTime
<1>1. A \in Nat /\ B \in Nat /\ A = B + retryTime /\ Looks \in Nat
  BY Minutes
<1>2. r \in Nat /\ r < MaxRetries /\ MaxRetries \in Nat /\ retryTime \in Nat
  BY OracleAssumption DEF AtLeastOneAttempt, TypeOK
<1>3. /\ r * A \in Nat /\ MaxRetries * A \in Nat
      /\ (r + 1) * A = r * A + A /\ (r + 1) * A <= MaxRetries * A
  BY <1>2, Attempts
<1>4. polls <= Looks + 1 => polls * retryTime \in Nat /\ polls * retryTime <= B
  BY <1>1, <1>2, Times DEF TypeOK
<1>5. /\ pc \in {"restore", "upload"} => clock <= r * A
      /\ pc = "poll" => clock = asked + polls * retryTime /\ polls <= Looks + 1
      /\ pc \in {"poll", "get"} => asked <= r * A
      /\ pc \in {"get", "caught"} => clock <= r * A + B
      /\ pc \in {"returned", "threw", "idle"} => clock <= MaxRetries * A
      /\ pc = "delete" => clock = 0
  BY DEF Spent
<1>6. clock \in Nat /\ asked \in Nat
  BY DEF TypeOK
<1>7. pc \in {"idle", "restore", "poll", "get", "upload", "delete", "caught",
             "returned", "threw"}
  BY DEF TypeOK
<1>8. r * A + B <= MaxRetries * A
  BY <1>1, <1>2, <1>3
<1>9. pc = "poll" => clock <= r * A + B
  <2> SUFFICES ASSUME pc = "poll" PROVE clock <= r * A + B
    OBVIOUS
  <2>1. polls * retryTime \in Nat /\ polls * retryTime <= B
    BY <1>4, <1>5
  <2>2. asked <= r * A /\ clock = asked + polls * retryTime
    BY <1>5
  <2> HIDE DEF A, B
  <2> QED BY <2>1, <2>2, <1>1, <1>3, <1>6
<1>10. pc \in {"restore", "upload", "get", "caught"} => clock <= r * A + B
  <2> HIDE DEF A, B
  <2> QED BY <1>1, <1>3, <1>5, <1>6
<1>11. pc = "delete" => clock <= r * A + B
  <2> HIDE DEF A, B
  <2> QED BY <1>1, <1>3, <1>5, <1>6
<1>12. clock <= MaxRetries * A
  <2> HIDE DEF A, B
  <2> QED BY <1>1, <1>3, <1>5, <1>6, <1>7, <1>8, <1>9, <1>10, <1>11
<1> QED BY <1>12

LEMMA NextIInv ==
  ASSUME AtLeastOneAttempt, IInv, [Next]_vars
  PROVE  IInv'
<1>1. TypeOK /\ Flow /\ StoreKept /\ RetrieveWhole /\ Spent
  BY DEF IInv
<1>2. TypeOK'
  BY <1>1, TypeStep
<1>3. Flow' /\ StoreKept' /\ RetrieveWhole'
  BY <1>1, KeptStep
<1>4. Spent'
  BY <1>1, SpentStep
<1>5. TimeBound'
  BY <1>2, <1>3, <1>4, SpentBounds, PTL
<1> QED BY <1>2, <1>3, <1>4, <1>5 DEF IInv

\* The inductive invariant holds at every moment.
THEOREM Invariance ==
  ASSUME AtLeastOneAttempt
  PROVE  Spec => []IInv
<1>1. IInv /\ [Next]_vars => IInv'
  BY NextIInv
<1> QED BY InitIInv, <1>1, PTL DEF Spec

\* Every variable keeps its type.
THEOREM TypeCorrect ==
  ASSUME AtLeastOneAttempt
  PROVE  Spec => []TypeOK
<1>1. IInv => TypeOK
  BY DEF IInv
<1> QED BY <1>1, Invariance, PTL

\* A store that returns has left its chunk in the storage.
THEOREM StoresKept ==
  ASSUME AtLeastOneAttempt
  PROVE  Spec => []StoreKept
<1>1. IInv => StoreKept
  BY DEF IInv
<1> QED BY <1>1, Invariance, PTL

\* A retrieve that returns has delivered the whole object.
THEOREM RetrievesWhole ==
  ASSUME AtLeastOneAttempt
  PROVE  Spec => []RetrieveWhole
<1>1. IInv => RetrieveWhole
  BY DEF IInv
<1> QED BY <1>1, Invariance, PTL

\* A call ends, or has not yet ended, within its minutes: MaxRetries attempts
\* of (Looks + 2) intervals each, for every interval.
THEOREM CallsBounded ==
  ASSUME AtLeastOneAttempt
  PROVE  Spec => []TimeBound
<1>1. IInv => TimeBound
  BY DEF IInv
<1> QED BY <1>1, Invariance, PTL

-----------------------------------------------------------------------------
(***************************************************************************)
(* The two hours of the polling loop, or what integer division makes of    *)
(* them.                                                                   *)
(***************************************************************************)
LEMMA Remainder ==
  ASSUME NEW t \in Nat \ {0}
  PROVE  /\ 60 \div t \in Nat /\ 60 % t \in 0 .. t - 1
         /\ (60 \div t) * t = 60 - (60 % t)
OBVIOUS

LEMMA MinutesOfLooks ==
  ASSUME TypeOK, retryTime # 0
  PROVE  /\ Looks \in Nat /\ retryTime \in Nat \ {0}
         /\ 60 % retryTime \in Nat
         /\ Looks * retryTime = 120 - 2 * (60 % retryTime)
<1>1. retryTime \in Nat \ {0}
  BY OracleAssumption DEF TypeOK
<1> DEFINE q == 60 \div retryTime
           m == 60 % retryTime
<1>2. q \in Nat /\ m \in Nat /\ q * retryTime = 60 - m
  BY <1>1, Remainder
<1>3. Looks = q * 2
  BY DEF Looks
<1> HIDE DEF q, m
<1>4. (q * 2) * retryTime = 2 * (q * retryTime)
  BY <1>1, <1>2
<1>5. Looks * retryTime = 120 - 2 * m /\ Looks \in Nat
  BY <1>2, <1>3, <1>4
<1> QED BY <1>1, <1>2, <1>5 DEF m

\* Only an interval of at most an hour allows a second look.
LEMMA SecondLook ==
  ASSUME TypeOK, retryTime # 0, polls > 0, polls <= Looks
  PROVE  retryTime <= 60
<1>1. retryTime \in Nat \ {0} /\ polls \in Nat
  BY OracleAssumption DEF TypeOK
<1>2. SUFFICES ASSUME retryTime > 60 PROVE FALSE
  BY <1>1
<1>3. 60 \div retryTime = 0
  BY <1>1, <1>2
<1> QED BY <1>1, <1>3 DEF Looks

\* A restore is given up after the last of the looks, and only there.
LEMMA WatchedStep ==
  ASSUME IInv, IInv', Watched, TwoHours, [Next]_vars
  PROVE  Watched' /\ TwoHours'
<1> USE OracleAssumption DEF args, storage, Fail
<1>1. TypeOK
  BY DEF IInv
<1>2. CASE CallStore \/ CallRetrieve \/ CallDelete
  BY <1>2 DEF CallStore, CallRetrieve, CallDelete, Begin, Watched, TwoHours
<1>3. CASE RequestRestore
  <2>1. CASE pc' = "caught"
    BY <1>3, <2>1 DEF RequestRestore, Watched, TwoHours
  <2>2. CASE pc' = "poll"
    <3>1. polls' = 0 /\ asked' = clock /\ clock' = clock
      BY <1>3, <2>2 DEF RequestRestore
    <3>2. CASE ready # Never /\ (clock < ready \/ Restored) /\ ready' = ready
      <4>1. ready' # Never /\ (ready' >= asked' \/ Restored')
        BY <3>1, <3>2, <1>1 DEF TypeOK, Restored, RestoreHours
      <4> QED BY <2>2, <3>1, <4>1 DEF Watched, TwoHours
    <3>3. CASE ready' \in {clock + d : d \in RestoreTimes}
      <4>1. PICK d \in RestoreTimes : ready' = clock + d
        BY <3>3
      <4>2. ready' \in Nat /\ ready' >= clock
        BY <4>1, <1>1 DEF TypeOK
      <4> QED BY <2>2, <3>1, <4>2 DEF Watched, TwoHours
    <3> QED BY <1>3, <2>2, <3>2, <3>3 DEF RequestRestore
  <2> QED BY <1>3, <2>1, <2>2 DEF RequestRestore
<1>4. CASE Poll
  <2>1. CASE pc' = "get" \/ (pc' = "caught" /\ cause' # "restore_failed")
    BY <2>1 DEF Watched, TwoHours
  <2>2. CASE pc' = "caught" /\ cause' = "restore_failed"
    <3>1. /\ retryTime # 0 /\ polls > Looks /\ pc = "poll"
          /\ UNCHANGED <<ready, asked, retryTime>>
      BY <1>4, <2>2 DEF Poll
    <3> DEFINE w == 120 - 2 * (60 % retryTime)
    <3>2. /\ Looks \in Nat /\ retryTime \in Nat /\ Looks * retryTime = w
          /\ polls \in Nat /\ asked \in Nat
      BY <3>1, <1>1, MinutesOfLooks DEF TypeOK
    <3>3. polls - 1 \in Nat /\ Looks <= polls - 1
      BY <3>1, <3>2
    <3>4. /\ (polls - 1) * retryTime \in Nat /\ Looks * retryTime \in Nat
          /\ Looks * retryTime <= (polls - 1) * retryTime
      BY <3>2, <3>3, Times
    <3>5. ready # Never /\ ready > asked + (polls - 1) * retryTime
      BY <3>1, <3>2 DEF Watched
    <3>6. ready \in Nat
      BY <3>5, <1>1 DEF TypeOK
    <3>7. ready > asked + w
      <4> DEFINE m == (polls - 1) * retryTime
      <4>1. m \in Nat /\ w \in Nat /\ w <= m /\ ready > asked + m
        BY <3>2, <3>4, <3>5
      <4> HIDE DEF m, w
      <4> QED BY <4>1, <3>2, <3>6
    <3> QED BY <2>2, <3>1, <3>7 DEF Watched, TwoHours
  <2>3. CASE pc' = "poll"
    <3>1. /\ pc = "poll" /\ retryTime # 0 /\ ~Restored /\ polls <= Looks
          /\ polls' = polls + 1 /\ UNCHANGED <<ready, asked, retryTime>>
      BY <1>4, <2>3 DEF Poll
    <3>2. retryTime \in Nat \ {0} /\ polls \in Nat /\ asked \in Nat /\ clock \in Nat
      BY <3>1, <1>1, MinutesOfLooks DEF TypeOK
    <3>3. ready # Never /\ ready \in Nat
      BY <3>1, <1>1 DEF Watched, TypeOK
    <3>4. clock = asked + polls * retryTime
      BY <3>1 DEF IInv, Spent
    <3>5. ~(ready <= clock /\ clock < ready + 1440)
      BY <3>1, <3>3 DEF Restored, RestoreHours
    <3>6. ready > clock
      <4>1. CASE polls = 0
        <5>1. clock = asked
          BY <4>1, <3>2, <3>4
        <5>2. ready >= asked
          BY <4>1, <3>1 DEF Watched
        <5> QED BY <5>1, <5>2, <3>2, <3>3, <3>5
      <4>2. CASE polls > 0
        <5>1. polls - 1 \in Nat /\ polls = (polls - 1) + 1
          BY <4>2, <3>2
        <5>2. polls * retryTime = (polls - 1) * retryTime + retryTime
          BY <5>1, <3>2, Times
        <5>3. ready > asked + (polls - 1) * retryTime /\ (polls - 1) * retryTime \in Nat
          BY <4>2, <5>1, <3>1, <3>2, Times DEF Watched
        <5> DEFINE m == (polls - 1) * retryTime
        <5>4. m \in Nat /\ clock = asked + (m + retryTime) /\ ready > asked + m
          BY <5>2, <5>3, <3>4
        <5>5. retryTime <= 60
          BY <4>2, <3>1, <1>1, SecondLook
        <5> HIDE DEF m
        <5> QED BY <5>4, <5>5, <3>2, <3>3, <3>5
      <4> QED BY <4>1, <4>2, <3>2
    <3>7. (polls' - 1) = polls /\ polls' # 0
      BY <3>1, <3>2
    <3>8. ready' > asked' + (polls' - 1) * retryTime'
      BY <3>1, <3>4, <3>6, <3>7
    <3> QED BY <2>3, <3>1, <3>3, <3>7, <3>8 DEF Watched, TwoHours
  <2> QED BY <1>4, <2>1, <2>2, <2>3 DEF Poll
<1>5. CASE Get
  BY <1>5 DEF Get, Watched, TwoHours
<1>6. CASE Upload
  BY <1>6 DEF Upload, Watched, TwoHours
<1>7. CASE Catch
  BY <1>7 DEF Catch, Watched, TwoHours
<1>8. CASE Delete
  BY <1>8 DEF Delete, Watched, TwoHours
<1>9. CASE Forget
  BY <1>9 DEF Forget, Watched, TwoHours
<1>10. CASE UNCHANGED vars
  BY <1>10 DEF vars, Watched, TwoHours, Restored
<1> QED BY <1>2, <1>3, <1>4, <1>5, <1>6, <1>7, <1>8, <1>9, <1>10 DEF Next, CallStep

\* Whatever the interval, an attempt gives up a restore only if it takes longer
\* than two hours less twice what the interval leaves of an hour: two hours in full
\* if the interval divides the hour.
THEOREM RestoresAwaited ==
  ASSUME AtLeastOneAttempt
  PROVE  Spec => []TwoHours
<1>2. Init => Watched /\ TwoHours
  BY DEF Init, Watched, TwoHours
<1>3. IInv /\ IInv' /\ Watched /\ TwoHours /\ [Next]_vars => Watched' /\ TwoHours'
  BY WatchedStep
<1> QED BY <1>2, <1>3, Invariance, PTL DEF Spec
=============================================================================
