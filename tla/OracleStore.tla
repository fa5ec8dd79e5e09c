----------------------------- MODULE OracleStore -----------------------------
(***************************************************************************)
(* OracleObjectStorageClassic: the archive store that keeps a chunk as one *)
(* object of the archive tier of Oracle's object storage.                  *)
(*                                                                         *)
(* Such an object has to be restored before it can be read.  A retrieve    *)
(* asks for that, looks at intervals of RetryTime minutes whether it is    *)
(* done, and then downloads it; whatever goes wrong, the whole attempt is  *)
(* made again, up to MaxRetries times.  A store is tried again in the same *)
(* way, a delete is not.                                                   *)
(*                                                                         *)
(* External, modelled from how the code uses it: the object storage.  Any  *)
(* request may fail, and a failed upload or delete may have been carried   *)
(* out.  A restored object stays readable for RestoreHours.                *)
(***************************************************************************)
EXTENDS Naturals

CONSTANTS
  Data,          \* what a chunk can contain
  NoFile,        \* "there is no object", and "nothing was downloaded"
  Torn,          \* a download that was cut short
  RetryTimes,    \* what occRetryTime may be, in minutes
  MaxRetries,    \* occMaxRetries
  RestoreTimes,  \* how many minutes a restore may take
  Never          \* "no restore was asked for"

RestoreHours == 24  \* the argument of RestoreObjectsDetails.hours

ASSUME OracleAssumption ==
  /\ NoFile \notin Data /\ Torn \notin Data /\ NoFile # Torn
  /\ RetryTimes \subseteq Nat
  /\ MaxRetries \in Nat
  /\ RestoreTimes \subseteq Nat
  /\ Never \notin Nat

VARIABLES
  retryTime,  \* OracleObjectStorageClassic.retryTime
  pc,         \* where the call is
  op,         \* store, retrieve or delete
  data,       \* what a store was given
  r,          \* the attempts made before this one
  polls,      \* attemptCount
  clock,      \* minutes since the call began
  asked,      \* when this attempt asked for the restore
  object,     \* what the storage holds
  ready,      \* when the object is or was restored
  working,    \* the working file of a retrieve
  cause       \* the exception that ended the last attempt

vars == <<retryTime, pc, op, data, r, polls, clock, asked, object, ready,
          working, cause>>
storage == <<object, ready>>
args == <<retryTime, op, data>>

Init ==
  /\ retryTime \in RetryTimes
  /\ pc = "idle" /\ op = "none" /\ data = NoFile
  /\ r = 0 /\ polls = 0 /\ clock = 0 /\ asked = 0
  /\ object = NoFile /\ ready = Never
  /\ working = NoFile
  /\ cause = "none"

\* The object can be read at the moment.
Restored == /\ ready # Never
            /\ ready <= clock
            /\ clock < ready + RestoreHours * 60

-----------------------------------------------------------------------------
\* A worker task calls the store.  By then an object that was restored for an
\* earlier call has gone back to the archive tier, or it is still restored.
Begin(o, first) ==
  /\ pc = "idle"
  /\ op' = o
  /\ pc' = first
  /\ r' = 0 /\ polls' = 0 /\ clock' = 0 /\ asked' = 0
  /\ ready' \in IF ready = Never THEN {Never} ELSE {Never, 0}
  /\ working' = NoFile
  /\ cause' = "none"
  /\ UNCHANGED <<retryTime, object>>

CallStore == data' \in Data /\ Begin("store", IF MaxRetries = 0 THEN "returned" ELSE "upload")
CallRetrieve ==
  /\ data' = NoFile
  /\ Begin("retrieve", IF MaxRetries = 0 THEN "returned" ELSE "restore")
CallDelete == data' = NoFile /\ Begin("delete", "delete")

\* The request of an attempt fails, and the attempt with it.
Fail(why) == pc' = "caught" /\ cause' = why

-----------------------------------------------------------------------------
\* The client is made anew and the object asked for.  The restore starts unless
\* an earlier request has started one that still goes on or holds.
RequestRestore ==
  /\ pc = "restore"
  /\ \/ /\ object # NoFile
        /\ pc' = "poll"
        /\ polls' = 0 /\ asked' = clock
        /\ IF ready # Never /\ (clock < ready \/ Restored)
           THEN UNCHANGED ready
           ELSE ready' \in {clock + d : d \in RestoreTimes}
        /\ UNCHANGED cause
     \/ Fail("request") /\ UNCHANGED <<polls, asked, ready>>
  /\ UNCHANGED <<args, r, clock, object, working>>

\* How often attemptCount may be exceeded: integer division, as in the code.
Looks == (60 \div retryTime) * 2

\* Mutant: the polls are not counted.
PollUncounted ==
  /\ pc = "poll"
  /\ IF Restored THEN pc' = "get" ELSE UNCHANGED pc
  /\ UNCHANGED <<args, r, polls, clock, asked, storage, working, cause>>

\* Mutant: the polls of one hour are allowed for, not of two.
PollOneHour ==
  /\ pc = "poll"
  /\ IF retryTime = 0 \/ polls > 60 \div retryTime
     THEN /\ pc' = "caught"
          /\ cause' = IF retryTime = 0 THEN "by_zero" ELSE "restore_failed"
          /\ UNCHANGED <<polls, clock>>
     ELSE IF Restored THEN pc' = "get" /\ UNCHANGED <<polls, clock, cause>>
     ELSE polls' = polls + 1 /\ clock' = clock + retryTime /\ UNCHANGED <<pc, cause>>
  /\ UNCHANGED <<args, r, asked, storage, working>>

\* One round of the polling loop: is the object restored?  If not, sleep.  The
\* request may fail and the sleep be interrupted, which the attempt catches.
Poll ==
  /\ pc = "poll"
  /\ \/ /\ retryTime = 0   \* the division by it throws
        /\ pc' = "caught" /\ cause' = "by_zero"
        /\ UNCHANGED <<polls, clock>>
     \/ /\ retryTime # 0 /\ polls > Looks
        /\ pc' = "caught" /\ cause' = "restore_failed"
        /\ UNCHANGED <<polls, clock>>
     \/ /\ retryTime # 0 /\ polls <= Looks
        /\ \/ Restored /\ pc' = "get" /\ UNCHANGED <<polls, clock, cause>>
           \/ /\ ~Restored
              /\ polls' = polls + 1 /\ clock' = clock + retryTime
              /\ UNCHANGED <<pc, cause>>
           \/ Fail("request") /\ UNCHANGED <<polls, clock>>
  /\ UNCHANGED <<args, r, asked, storage, working>>

\* The download, to the working file.
Get ==
  /\ pc = "get"
  /\ \/ /\ Restored
        /\ working' = object
        /\ pc' = "returned" /\ UNCHANGED cause
     \/ Fail("request") /\ working' \in {working, Torn}
  /\ UNCHANGED <<args, r, polls, clock, asked, storage>>

Upload ==
  /\ pc = "upload"
  /\ \/ /\ object' = data /\ ready' = Never
        /\ pc' = "returned" /\ UNCHANGED cause
     \/ /\ Fail("request")
        /\ \/ UNCHANGED storage
           \/ object' = data /\ ready' = Never
  /\ UNCHANGED <<args, r, polls, clock, asked, working>>

\* Mutant: the last attempt leaves the loop without an exception.
CatchLast ==
  /\ pc = "caught"
  /\ IF r = MaxRetries - 1
     THEN pc' = "returned" /\ UNCHANGED <<r, clock>>
     ELSE r' = r + 1 /\ clock' = clock + retryTime
          /\ pc' = IF op = "store" THEN "upload" ELSE "restore"
  /\ UNCHANGED <<args, polls, asked, storage, working, cause>>

\* Mutant: the last attempt is counted wrong.
CatchOffByOne ==
  /\ pc = "caught"
  /\ IF r = MaxRetries
     THEN pc' = "threw" /\ UNCHANGED <<r, clock>>
     ELSE r' = r + 1 /\ clock' = clock + retryTime
          /\ pc' = IF op = "store" THEN "upload" ELSE "restore"
  /\ UNCHANGED <<args, polls, asked, storage, working, cause>>

\* Mutant: the wait between two attempts doubles each time.
CatchBackOff ==
  /\ pc = "caught"
  /\ IF r = MaxRetries - 1
     THEN pc' = "threw" /\ UNCHANGED <<r, clock>>
     ELSE r' = r + 1 /\ clock' = clock + retryTime * 2^(r + 1)
          /\ pc' = IF op = "store" THEN "upload" ELSE "restore"
  /\ UNCHANGED <<args, polls, asked, storage, working, cause>>

\* The catch block of an attempt: the last one throws on, and any other sleeps and
\* tries again, or throws when this sleep is interrupted.
Catch ==
  /\ pc = "caught"
  /\ \/ pc' = "threw" /\ UNCHANGED <<r, clock>>
     \/ /\ r # MaxRetries - 1
        /\ r' = r + 1 /\ clock' = clock + retryTime
        /\ pc' = IF op = "store" THEN "upload" ELSE "restore"
  /\ UNCHANGED <<args, polls, asked, storage, working, cause>>

\* A delete that fails is only logged, with the words "Object does not exists".
Delete ==
  /\ pc = "delete"
  /\ \/ object' = NoFile /\ ready' = Never /\ UNCHANGED cause
     \/ /\ cause' = "request"
        /\ \/ UNCHANGED storage
           \/ object' = NoFile /\ ready' = Never
  /\ pc' = "returned"
  /\ UNCHANGED <<args, r, polls, clock, asked, working>>

\* The caller is done with the call.
Forget ==
  /\ pc \in {"returned", "threw"}
  /\ pc' = "idle"
  /\ UNCHANGED <<args, r, polls, clock, asked, storage, working, cause>>

CallStep == RequestRestore \/ Poll \/ Get \/ Upload \/ Catch \/ Delete

Next == CallStore \/ CallRetrieve \/ CallDelete \/ CallStep \/ Forget

Spec == Init /\ [][Next]_vars

\* The thread of the call runs, and each request is answered or fails.
FairSpec == Spec /\ WF_vars(CallStep)

-----------------------------------------------------------------------------
\* The type of every variable.
TypeOK ==
  /\ retryTime \in RetryTimes
  /\ pc \in {"idle", "restore", "poll", "get", "upload", "delete", "caught",
             "returned", "threw"}
  /\ op \in {"none", "store", "retrieve", "delete"}
  /\ data \in Data \cup {NoFile}
  /\ r \in Nat /\ (r < MaxRetries \/ r = 0)
  /\ polls \in Nat /\ clock \in Nat /\ asked \in Nat
  /\ object \in Data \cup {NoFile}
  /\ ready \in Nat \cup {Never}
  /\ working \in Data \cup {NoFile, Torn}
  /\ cause \in {"none", "request", "by_zero", "restore_failed"}

\* A store that returns has left its chunk in the storage, whichever of its
\* attempts were carried out though they failed.
StoreKept == (pc = "returned" /\ op = "store") => object = data

\* A retrieve that returns has the object in the working file, not nothing and
\* not what a cut download of an earlier attempt left there.
RetrieveWhole == (pc = "returned" /\ op = "retrieve") =>
  working = object /\ working # NoFile

\* "retry for two hours (restores should be approx 1 hr)": an attempt gives up a
\* restore only if the object was not restored within two hours of its request,
\* less twice what the interval leaves of an hour: at 45 minutes a restore of 91
\* is given up already, and above the hour everything the first look did not find.
TwoHours ==
  (cause = "restore_failed" /\ pc = "caught") =>
    ready > asked + (120 - 2 * (60 % retryTime))

\* However the failures fall, a call is over after so many minutes: each attempt
\* polls for two hours and one interval more, and waits one interval at its end.
AttemptMinutes == (Looks + 2) * retryTime
TimeBound == retryTime # 0 => clock <= MaxRetries * AttemptMinutes

\* Every call ends, whatever the storage answers.
EveryCallEnds == pc # "idle" ~> pc \in {"returned", "threw"}

(***************************************************************************)
(* The inductive invariant behind these.                                   *)
(***************************************************************************)
Flow ==
  /\ pc \in {"restore", "poll", "get"} => op = "retrieve"
  /\ pc = "upload" => op = "store"
  /\ pc = "delete" => op = "delete"
  /\ pc = "caught" => op \in {"store", "retrieve"}
  /\ pc \in {"poll", "get"} => object # NoFile

\* The minutes of an attempt, counted from when it began at the earliest.
Spent ==
  retryTime # 0 =>
    /\ pc \in {"restore", "upload"} => clock <= r * AttemptMinutes
    /\ pc = "poll" => /\ clock = asked + polls * retryTime
                     /\ polls <= Looks + 1
    /\ pc \in {"poll", "get"} => asked <= r * AttemptMinutes
    /\ pc \in {"get", "caught"} => clock <= r * AttemptMinutes + (Looks + 1) * retryTime
    /\ pc \in {"returned", "threw", "idle"} => clock <= MaxRetries * AttemptMinutes
    /\ pc = "delete" => clock = 0

\* An attempt goes on polling only as long as the last look found no object.
Watched ==
  (pc = "poll" /\ retryTime # 0) =>
    /\ ready # Never
    /\ polls = 0 => ready >= asked \/ Restored
    /\ polls > 0 => ready > asked + (polls - 1) * retryTime

IInv == TypeOK /\ Flow /\ StoreKept /\ RetrieveWhole /\ Spent /\ TimeBound
=============================================================================
