------------------------- MODULE TivoliStoreProofs -------------------------
(***************************************************************************)
(* Proofs about TivoliStore, for any number of calls, deposits, chunks,    *)
(* contents and retries.                                                   *)
(***************************************************************************)
EXTENDS TivoliStore, TLAPS

AllFlow == \A k \in Calls : Flow(k)

\* What a call's arguments are, from the name of its operation.
LEMMA CallOfOp ==
  ASSUME TypeOK, NEW k \in Calls
  PROVE  /\ call[k].op = "store" <=> call[k] \in StoreCalls
         /\ call[k].op = "retrieve" <=> call[k] \in RetrieveCalls
         /\ call[k].op = "delete" <=> call[k] \in DeleteCalls
         /\ call[k].op = "none" <=> call[k] = Idle
         /\ call[k] # Idle => call[k].chunk \in Chunks /\ Dir(k) \in Deposits
  BY ConstantsAssumption DEF TypeOK, StoreCalls, RetrieveCalls, DeleteCalls, Idle, Dir

\* The initial state satisfies the type invariant and the control-flow invariant.
LEMMA InitTypeFlow == Init => TypeOK /\ AllFlow
  BY ConstantsAssumption
  DEF Init, TypeOK, AllFlow, Flow, PCs, Contents, TrackerStates, Fresh, Tracker, Idle, Nodes, Ended

\* A call that has left a tracker or a dsmc behind has not been forgotten.
LEMMA LiveCall ==
  ASSUME TypeOK, NEW k \in Calls, Flow(k), NEW n \in Nodes, TrackerLive(k, n)
  PROVE  /\ pc[k] # "idle" /\ Live(k) /\ call[k].chunk \in Chunks /\ Dir(k) \in Deposits
         /\ call[k] \in StoreCalls \cup RetrieveCalls \cup DeleteCalls
  <1>1. pc[k] # "idle" /\ call[k] # Idle
    BY DEF TrackerLive, Flow, Ended
  <1>2. QED
    BY <1>1, CallOfOp DEF Live, TypeOK

\* What a dsmc retrieve that may have failed leaves in the temporary directory.
LEMMA FetchTypes ==
  ASSUME TypeOK, NEW k \in Calls, call[k] \in RetrieveCalls, FetchesSome(k)
  PROVE  /\ dirs' \subseteq Deposits
         /\ tmp' \in [Chunks -> Contents]
         /\ writer' \in [Chunks -> Calls \cup {NoCall}]
  <1> USE DEF TypeOK
  <1>1. call[k].chunk \in Chunks /\ NodeCopy(k) \in Contents /\ Dir(k) \in Deposits
    BY ConstantsAssumption DEF NodeCopy, RetrieveCalls, Dir
  <1>2. ASSUME NEW d \in Contents, Fetches(k, d)
        PROVE  /\ dirs' \subseteq Deposits
               /\ tmp' \in [Chunks -> Contents]
               /\ writer' \in [Chunks -> Calls \cup {NoCall}]
    BY <1>1, <1>2 DEF Fetches
  <1>3. CASE UNCHANGED files
    BY <1>3 DEF files
  <1>4. QED
    BY <1>1, <1>2, <1>3 DEF FetchesSome, Contents

LEMMA KeepTypes ==
  ASSUME TypeOK, NEW k \in Calls, NEW n \in Nodes, call[k].chunk \in Chunks, MayKeep(k, n)
  PROVE  archive' \in [Nodes -> [Chunks -> Contents]]
  <1> USE DEF TypeOK
  <1>1. CASE UNCHANGED archive
    BY <1>1
  <1>2. CASE archive' = [archive EXCEPT ![n][call[k].chunk] = trk[k][n].sent]
    BY <1>2
  <1>3. QED
    BY <1>1, <1>2 DEF MayKeep

LEMMA RemoveTypes ==
  ASSUME TypeOK, NEW k \in Calls, call[k] \in DeleteCalls, MayRemove(k)
  PROVE  archive' \in [Nodes -> [Chunks -> Contents]]
  <1> USE DEF TypeOK
  <1>1. call[k].node \in Nodes /\ call[k].chunk \in Chunks /\ NoFile \in Contents
    BY DEF DeleteCalls, Contents
  <1>2. CASE UNCHANGED archive
    BY <1>2
  <1>3. CASE archive' = [archive EXCEPT ![call[k].node][call[k].chunk] = NoFile]
    BY <1>1, <1>3
  <1>4. QED
    BY <1>2, <1>3 DEF MayRemove

LEMMA TypeStep == TypeOK /\ AllFlow /\ [Next]_vars => TypeOK'
  <1> SUFFICES ASSUME TypeOK, AllFlow, [Next]_vars PROVE TypeOK'
    OBVIOUS
  <1> USE ConstantsAssumption DEF TypeOK
  <1>1. ASSUME NEW k \in Calls, CallStore(k) PROVE TypeOK'
    BY <1>1 DEF CallStore, Begin, Goto, PCs, files
  <1>2. ASSUME NEW k \in Calls, CallRetrieve(k) PROVE TypeOK'
    BY <1>2 DEF CallRetrieve, Begin, Goto, PCs, files
  <1>3. ASSUME NEW k \in Calls, CallDelete(k) PROVE TypeOK'
    BY <1>3 DEF CallDelete, Begin, Goto, PCs, files
  <1>4. ASSUME NEW k \in Calls, CheckDir(k) PROVE TypeOK'
    BY <1>4 DEF CheckDir, AfterDir, Goto, PCs, files
  <1>5. ASSUME NEW k \in Calls, MakeDir(k) PROVE TypeOK'
    <2>1. Dir(k) \in Deposits
      BY <1>5, CallOfOp DEF MakeDir, AllFlow, Flow
    <2>2. dirs' \subseteq Deposits
      BY <1>5, <2>1 DEF MakeDir
    <2>3. pc' \in [Calls -> PCs]
      BY <1>5 DEF MakeDir, AfterDir, Goto, PCs
    <2>4. QED
      BY <1>5, <2>2, <2>3 DEF MakeDir
  <1>6. ASSUME NEW k \in Calls, CopyStart(k) PROVE TypeOK'
    <2>1. CASE Dir(k) \in dirs
      BY <1>6, <2>1 DEF CopyStart, Goto, PCs, Contents
    <2>2. CASE Dir(k) \notin dirs
      BY <1>6, <2>2 DEF CopyStart, Goto, PCs
    <2>3. QED
      BY <2>1, <2>2
  <1>7. ASSUME NEW k \in Calls, CopyEnd(k) PROVE TypeOK'
    <2>1. call[k].data \in Contents
      BY <1>7, CallOfOp DEF CopyEnd, AllFlow, Flow, StoreCalls, Contents
    <2>2. QED
      BY <1>7, <2>1 DEF CopyEnd, Goto, PCs
  <1>8. ASSUME NEW k \in Calls, Spawn(k) PROVE TypeOK'
    BY <1>8 DEF Spawn, Goto, PCs, TrackerStates, Fresh, Tracker, Contents, files
  <1>9. ASSUME NEW k \in Calls, NEW n \in Nodes, TrackerStep(k, n) PROVE TypeOK'
    <2>1. trk[k][n] \in [state: TrackerStates, r: Nat, sent: Contents]
      OBVIOUS
    <2>2. TrackerLive(k, n) => call[k].chunk \in Chunks
      BY LiveCall DEF AllFlow
    <2>3. CASE TrackerStart(k, n)
      BY <2>1, <2>2, <2>3 DEF TrackerStart, TrackerLive, TrackerStates, Tracker, files
    <2>4. CASE TrackerSucceeds(k, n)
      BY <2>1, <2>2, <2>4
      DEF TrackerSucceeds, TrackerLive, TrackerStates, Fresh, Tracker, Contents, files
    <2>5. CASE TrackerFails(k, n)
      <3>1. archive' \in [Nodes -> [Chunks -> Contents]]
        BY <2>2, <2>5, KeepTypes DEF TrackerFails, TrackerLive
      <3>2. trk' \in [Calls -> [Nodes -> [state: TrackerStates, r: Nat, sent: Contents]]]
        <4>1. /\ Fresh("failed") \in [state: TrackerStates, r: Nat, sent: Contents]
              /\ Tracker("ready", trk[k][n].r + 1, NoFile)
                   \in [state: TrackerStates, r: Nat, sent: Contents]
          BY <2>1 DEF TrackerStates, Fresh, Tracker, Contents
        <4>2. CASE trk' = [trk EXCEPT ![k][n] = Fresh("failed")]
          BY <4>1, <4>2
        <4>3. CASE trk' = [trk EXCEPT ![k][n] = Tracker("ready", trk[k][n].r + 1, NoFile)]
          BY <4>1, <4>3
        <4>4. QED
          BY <2>5, <4>2, <4>3 DEF TrackerFails
      <3>3. QED
        BY <2>5, <3>1, <3>2 DEF TrackerFails, files
    <2>6. CASE TrackerDies(k, n)
      <3>1. archive' \in [Nodes -> [Chunks -> Contents]]
        BY <2>2, <2>6, KeepTypes DEF TrackerDies, TrackerLive
      <3>2. QED
        BY <2>6, <3>1 DEF TrackerDies, TrackerStates, Fresh, Tracker, Contents, files
    <2>7. CASE OrphanEnds(k, n)
      <3>1. /\ archive' \in [Nodes -> [Chunks -> Contents]]
            /\ dirs' \subseteq Deposits
            /\ tmp' \in [Chunks -> Contents]
            /\ writer' \in [Chunks -> Calls \cup {NoCall}]
        BY <2>2, <2>7, KeepTypes, RemoveTypes, FetchTypes, CallOfOp
        DEF OrphanEnds, TrackerLive, files
      <3>2. QED
        BY <2>7, <3>1 DEF OrphanEnds, TrackerStates, Fresh, Tracker, Contents
    <2>8. QED
      BY <1>9, <2>3, <2>4, <2>5, <2>6, <2>7 DEF TrackerStep
  <1>10. ASSUME NEW k \in Calls, Await1(k) \/ Await2(k) PROVE TypeOK'
    BY <1>10 DEF Await1, Await2, Await, Goto, PCs, files
  <1>11. ASSUME NEW k \in Calls, AttemptSucceeds(k) PROVE TypeOK'
    <2>1. call[k] \in RetrieveCalls
      BY <1>11, CallOfOp DEF AttemptSucceeds, AllFlow, Flow
    <2>2. FetchesSome(k)
      BY <1>11 DEF AttemptSucceeds, FetchesSome
    <2>3. QED
      BY <1>11, <2>1, <2>2, FetchTypes DEF AttemptSucceeds, Goto, PCs
  <1>12. ASSUME NEW k \in Calls, AttemptFails(k) PROVE TypeOK'
    <2>1. tries' \in [Calls -> Nat]
      <3>1. PICK r \in Nat : tries' = [tries EXCEPT ![k] = r]
        <4>1. tries[k] \in Nat /\ 0 \in Nat /\ tries[k] + 1 \in Nat
          OBVIOUS
        <4>2. \/ tries' = [tries EXCEPT ![k] = 0]
              \/ tries' = [tries EXCEPT ![k] = tries[k] + 1]
          BY <1>12 DEF AttemptFails
        <4>3. QED
          BY <4>1, <4>2
      <3>2. QED
        BY <3>1
    <2>2. pc' \in [Calls -> PCs]
      BY <1>12 DEF AttemptFails, Goto, PCs
    <2>3. call[k] \in RetrieveCalls
      BY <1>12, CallOfOp DEF AttemptFails, AllFlow, Flow
    <2>4. QED
      BY <1>12, <2>1, <2>2, <2>3, FetchTypes DEF AttemptFails
  <1>13. ASSUME NEW k \in Calls, CheckFile(k) PROVE TypeOK'
    BY <1>13 DEF CheckFile, Goto, PCs, files
  <1>14. ASSUME NEW k \in Calls, TakeFile(k) PROVE TypeOK'
    <2>1. call[k].chunk \in Chunks
      BY <1>14, CallOfOp DEF TakeFile, AllFlow, Flow
    <2>2. QED
      BY <1>14, <2>1 DEF TakeFile, Goto, PCs, Contents
  <1>15. ASSUME NEW k \in Calls, RemoveDir(k) PROVE TypeOK'
    BY <1>15 DEF RemoveDir, Goto, PCs
  <1>16. ASSUME NEW k \in Calls, Delete(k) PROVE TypeOK'
    <2>1. call[k] \in DeleteCalls
      BY <1>16, CallOfOp DEF Delete, AllFlow, Flow
    <2>2. QED
      BY <1>16, <2>1, RemoveTypes DEF Delete, Goto, PCs, files
  <1>17. ASSUME NEW k \in Calls, Forget(k) PROVE TypeOK'
    BY <1>17 DEF Forget, Goto, PCs, TrackerStates, Fresh, Tracker, Contents, files
  <1>18. CASE Crash
    BY <1>18 DEF Crash, PCs, Ended, TrackerStates, Fresh, Tracker, Contents
  <1>19. CASE UNCHANGED vars
    BY <1>19 DEF vars
  <1>20. ASSUME NEW k \in Calls, Fails(k) PROVE TypeOK'
    <2>1. call[k].chunk \in Chunks
      BY <1>20, CallOfOp DEF Fails, AllFlow, Flow
    <2>2. QED
      BY <1>20, <2>1 DEF Fails, Goto, PCs, Contents
  <1>21. ASSUME NEW k \in Calls, Interrupt(k) PROVE TypeOK'
    <2>1. Fresh("orphan") \in [state: TrackerStates, r: Nat, sent: Contents]
      BY DEF TrackerStates, Fresh, Tracker, Contents
    <2>2. ASSUME pc[k] \in {"attempt", "dsmcdelete"}
          PROVE  trk' \in [Calls -> [Nodes -> [state: TrackerStates, r: Nat, sent: Contents]]]
      <3>1. call[k].node \in Nodes
        BY <2>2, CallOfOp DEF AllFlow, Flow, RetrieveCalls, DeleteCalls
      <3>2. trk' = [trk EXCEPT ![k][call[k].node] = Fresh("orphan")]
        BY <1>21, <2>2 DEF Interrupt
      <3>3. QED
        BY <2>1, <3>1, <3>2
    <2>3. trk' \in [Calls -> [Nodes -> [state: TrackerStates, r: Nat, sent: Contents]]]
      BY <1>21, <2>2 DEF Interrupt
    <2>4. pc' \in [Calls -> PCs]
      BY <1>21 DEF Interrupt, Goto, PCs
    <2>5. QED
      BY <1>21, <2>3, <2>4 DEF Interrupt, files
  <1>22. QED
    BY <1>1, <1>2, <1>3, <1>4, <1>5, <1>6, <1>7, <1>8, <1>9, <1>10, <1>11, <1>12,
       <1>13, <1>14, <1>15, <1>16, <1>17, <1>18, <1>19, <1>20, <1>21
    DEF Next, NextOf, CallStep

-----------------------------------------------------------------------------
(***************************************************************************)
(* What a step of one call leaves alone.                                   *)
(***************************************************************************)

\* A step of one call moves no other call.
LEMMA OtherCalls ==
  ASSUME TypeOK, NEW k \in Calls, NextOf(k), NEW j \in Calls, j # k
  PROVE  /\ pc'[j] = pc[j] /\ call'[j] = call[j] /\ trk'[j] = trk[j]
         /\ got'[j] = got[j]
         /\ overlap[j] => overlap'[j]
  <1> USE DEF TypeOK
  <1>1. CASE CallStore(k) \/ CallRetrieve(k) \/ CallDelete(k)
    BY <1>1 DEF CallStore, CallRetrieve, CallDelete, Begin, Goto
  <1>2. CASE CallStep(k)
    BY <1>2
    DEF CallStep, CheckDir, MakeDir, CopyStart, CopyEnd, Spawn, Await1, Await2, Await,
        AttemptSucceeds, AttemptFails, CheckFile, TakeFile, RemoveDir, Delete, Fails, Goto
  <1>3. ASSUME NEW n \in Nodes, TrackerStep(k, n) PROVE trk'[j] = trk[j]
    BY <1>3 DEF TrackerStep, TrackerStart, TrackerSucceeds, TrackerFails, TrackerDies,
                OrphanEnds
  <1>4. CASE \E n \in Nodes : TrackerStep(k, n)
    BY <1>3, <1>4 DEF TrackerStep, TrackerStart, TrackerSucceeds, TrackerFails, TrackerDies,
                      OrphanEnds
  <1>5. CASE Forget(k) \/ Interrupt(k)
    BY <1>5 DEF Forget, Interrupt, Goto
  <1>6. QED
    BY <1>1, <1>2, <1>4, <1>5 DEF NextOf

\* What a dsmc may have done to a node is done to its own chunk's copy.
LEMMA OtherCopies ==
  ASSUME TypeOK, NEW k \in Calls, NEW m \in Nodes, MayKeep(k, m) \/ MayRemove(k),
         NEW c \in Chunks, c # call[k].chunk, NEW n \in Nodes
  PROVE  archive'[n][c] = archive[n][c]
  <1> USE DEF TypeOK
  <1>1. CASE archive' = [archive EXCEPT ![m][call[k].chunk] = trk[k][m].sent]
    BY <1>1
  <1>2. CASE archive' = [archive EXCEPT ![call[k].node][call[k].chunk] = NoFile]
    BY <1>2
  <1>3. QED
    BY <1>1, <1>2 DEF MayKeep, MayRemove

\* A step of a call touches no file and no copy but those of its own chunk, and a
\* call that is idle or no longer live touches none.
LEMMA OtherChunks ==
  ASSUME TypeOK, NEW k \in Calls, Flow(k), NextOf(k), NEW c \in Chunks,
         pc[k] = "idle" \/ ~Live(k) \/ c # call[k].chunk
  PROVE  /\ tmp'[c] = tmp[c] /\ writer'[c] = writer[c]
         /\ \A n \in Nodes : archive'[n][c] = archive[n][c]
  <1> USE DEF TypeOK
  <1>1. CASE CallStore(k) \/ CallRetrieve(k) \/ CallDelete(k)
    BY <1>1 DEF CallStore, CallRetrieve, CallDelete, Begin, files
  <1>2. CASE CallStep(k)
    <2>1. pc[k] # "idle" /\ Live(k) /\ c # call[k].chunk
      BY <1>2
      DEF CallStep, CheckDir, MakeDir, CopyStart, CopyEnd, Spawn, Await1, Await2, Await,
          AttemptSucceeds, AttemptFails, CheckFile, TakeFile, RemoveDir, Delete, Fails,
          Live, Ended
    <2>2. CASE CheckDir(k) \/ MakeDir(k) \/ Spawn(k) \/ Await1(k) \/ Await2(k)
               \/ CheckFile(k) \/ RemoveDir(k)
      BY <2>2 DEF CheckDir, MakeDir, Spawn, Await1, Await2, Await, CheckFile, RemoveDir,
                  files
    <2>3. CASE CopyStart(k) \/ CopyEnd(k) \/ Fails(k)
      BY <2>1, <2>3 DEF CopyStart, CopyEnd, Fails
    <2>4. CASE AttemptSucceeds(k) \/ AttemptFails(k) \/ TakeFile(k)
      BY <2>1, <2>4 DEF AttemptSucceeds, AttemptFails, FetchesSome, Fetches, TakeFile, files
    <2>5. CASE Delete(k)
      BY <2>1, <2>5, OtherCopies DEF Delete, files, Nodes
    <2>6. QED
      BY <1>2, <2>2, <2>3, <2>4, <2>5 DEF CallStep
  <1>3. ASSUME NEW m \in Nodes, TrackerStep(k, m)
        PROVE  /\ tmp'[c] = tmp[c] /\ writer'[c] = writer[c]
               /\ \A n \in Nodes : archive'[n][c] = archive[n][c]
    <2>1. c # call[k].chunk
      <3>1. TrackerLive(k, m)
        BY <1>3 DEF TrackerStep, TrackerStart, TrackerSucceeds, TrackerFails, TrackerDies,
                    OrphanEnds, TrackerLive
      <3>2. QED
        BY <3>1, LiveCall
    <2>2. CASE TrackerStart(k, m)
      BY <2>2 DEF TrackerStart, files
    <2>3. CASE TrackerSucceeds(k, m)
      BY <2>1, <2>3 DEF TrackerSucceeds, files
    <2>4. CASE TrackerFails(k, m) \/ TrackerDies(k, m)
      BY <2>1, <2>4, OtherCopies DEF TrackerFails, TrackerDies, files
    <2>5. CASE OrphanEnds(k, m)
      BY <2>1, <2>5, OtherCopies DEF OrphanEnds, FetchesSome, Fetches, files
    <2>6. QED
      BY <1>3, <2>2, <2>3, <2>4, <2>5 DEF TrackerStep
  <1>4. CASE Forget(k) \/ Interrupt(k)
    BY <1>4 DEF Forget, Interrupt, files
  <1>5. QED
    BY <1>1, <1>2, <1>3, <1>4 DEF NextOf

\* A call that has started and is not live any more can only be forgotten.
LEMMA OnlyLiveCallsAct ==
  ASSUME NEW k \in Calls, Flow(k), NextOf(k), pc[k] # "idle", ~Live(k)
  PROVE  Forget(k)
  <1>1. ~CallStore(k) /\ ~CallRetrieve(k) /\ ~CallDelete(k)
    BY DEF CallStore, CallRetrieve, CallDelete, Begin
  <1>2. ~CallStep(k)
    BY DEF CallStep, CheckDir, MakeDir, CopyStart, CopyEnd, Spawn, Await1, Await2, Await,
           AttemptSucceeds, AttemptFails, CheckFile, TakeFile, RemoveDir, Delete, Fails,
           Live, Ended
  <1>3. ASSUME NEW n \in Nodes, TrackerStep(k, n) PROVE FALSE
    BY <1>3 DEF TrackerStep, TrackerStart, TrackerSucceeds, TrackerFails, TrackerDies,
                OrphanEnds, TrackerLive, Live
  <1>4. ~Interrupt(k)
    BY DEF Interrupt, Live, Ended
  <1>5. QED
    BY <1>1, <1>2, <1>3, <1>4 DEF NextOf

\* Between its start and the moment it is forgotten a call keeps its arguments.
LEMMA SameCall ==
  ASSUME TypeOK, NEW k \in Calls, NextOf(k), pc[k] # "idle"
  PROVE  (call' = call /\ overlap' = overlap) \/ (Forget(k) /\ pc'[k] = "idle")
  <1>1. ~CallStore(k) /\ ~CallRetrieve(k) /\ ~CallDelete(k)
    BY DEF CallStore, CallRetrieve, CallDelete, Begin
  <1>2. CASE CallStep(k)
    BY <1>2
    DEF CallStep, CheckDir, MakeDir, CopyStart, CopyEnd, Spawn, Await1, Await2, Await,
        AttemptSucceeds, AttemptFails, CheckFile, TakeFile, RemoveDir, Delete, Fails
  <1>3. CASE \E n \in Nodes : TrackerStep(k, n)
    BY <1>3 DEF TrackerStep, TrackerStart, TrackerSucceeds, TrackerFails, TrackerDies,
                OrphanEnds
  <1>4. CASE Forget(k) \/ Interrupt(k)
    BY <1>4 DEF Forget, Interrupt, Goto, TypeOK
  <1>5. QED
    BY <1>1, <1>2, <1>3, <1>4 DEF NextOf

\* The history variable does its work: a call that is alone stays the only live one
\* on its chunk.
LEMMA QuietStep ==
  ASSUME IInv, NEW k \in Calls, NextOf(k)
  PROVE  Quiet'
  <1> USE DEF IInv
  <1> SUFFICES ASSUME NEW i \in Calls, NEW j \in Calls, j # i,
                      Alone(i)', pc'[j] # "idle", SameChunk(j, i)'
               PROVE  ~Live(j)'
    BY DEF Quiet
  <1>1. Flow(k)
    BY DEF CallInv
  <1>2. ASSUME NEW m \in Calls, m # k
        PROVE  /\ pc'[m] = pc[m] /\ call'[m] = call[m] /\ trk'[m] = trk[m]
               /\ (~overlap'[m] => ~overlap[m])
    BY <1>2, OtherCalls DEF TypeOK
  <1>3. ASSUME NEW m \in Calls, m # k PROVE Live(m)' <=> Live(m)
    BY <1>2, <1>3 DEF Live, TrackerLive
  <1>4. CASE pc[k] = "idle"
    <2>1. PICK args \in StoreCalls \cup RetrieveCalls \cup DeleteCalls, first \in PCs :
            Begin(k, args, first)
      <3>1. ~CallStep(k) /\ ~Forget(k) /\ ~Interrupt(k)
        BY <1>4
        DEF CallStep, CheckDir, MakeDir, CopyStart, CopyEnd, Spawn, Await1, Await2, Await,
            AttemptSucceeds, AttemptFails, CheckFile, TakeFile, RemoveDir, Delete, Fails,
            Forget, Interrupt, Ended
      <3>2. ASSUME NEW n \in Nodes, TrackerStep(k, n) PROVE FALSE
        BY <1>1, <1>4, <3>2
        DEF TrackerStep, TrackerStart, TrackerSucceeds, TrackerFails, TrackerDies,
            OrphanEnds, TrackerLive, Flow, Ended
      <3>3. QED
        BY <3>1, <3>2 DEF NextOf, CallStore, CallRetrieve, CallDelete, PCs
    <2>2. call'[k] = args
      BY <2>1 DEF Begin, TypeOK
    <2>3. CASE i = k
      <3>1. ~(pc[j] # "idle" /\ call[j].chunk = args.chunk /\ Live(j))
        BY <2>1, <2>3 DEF Begin, Alone
      <3>2. QED
        BY <1>2, <1>3, <2>2, <2>3, <3>1 DEF SameChunk
    <2>4. CASE j = k
      <3>1. overlap'[i]
        BY <1>2, <2>1, <2>2, <2>4 DEF Begin, Alone, SameChunk
      <3>2. QED
        BY <3>1 DEF Alone
    <2>5. CASE i # k /\ j # k
      BY <1>2, <1>3, <2>5 DEF Quiet, Alone, SameChunk
    <2>6. QED
      BY <2>3, <2>4, <2>5
  <1>5. CASE pc[k] # "idle"
    <2>1. CASE i = k
      BY <1>2, <1>3, <1>5, <2>1, SameCall DEF Quiet, Alone, SameChunk
    <2>2. CASE j = k
      <3>1. ~Forget(k) /\ call' = call
        <4>1. ~Forget(k)
          BY <2>2 DEF Forget, Goto, TypeOK
        <4>2. QED
          BY <4>1, <1>5, SameCall
      <3>2. Alone(i) /\ SameChunk(k, i)
        BY <1>2, <2>2, <3>1 DEF Alone, SameChunk
      <3>3. ~Live(k)
        BY <1>5, <2>2, <3>2 DEF Quiet
      <3>4. QED
        BY <1>1, <1>5, <2>2, <3>1, <3>3, OnlyLiveCallsAct
    <2>3. CASE i # k /\ j # k
      BY <1>2, <1>3, <2>3 DEF Quiet, Alone, SameChunk
    <2>4. QED
      BY <2>1, <2>2, <2>3
  <1>6. QED
    BY <1>4, <1>5

\* A step of one call preserves what the invariant says of every other call.
LEMMA OthersKeep ==
  ASSUME IInv, NEW k \in Calls, NextOf(k), NEW j \in Calls, j # k
  PROVE  CallInv(j)'
  <1> USE DEF IInv
  <1>1. /\ pc'[j] = pc[j] /\ call'[j] = call[j] /\ trk'[j] = trk[j] /\ got'[j] = got[j]
        /\ Alone(j)' => Alone(j)
    BY OtherCalls DEF Alone, TypeOK
  <1>2. CallInv(j) /\ Flow(k)
    BY DEF CallInv
  <1>3. Flow(j)'
    BY <1>1, <1>2 DEF CallInv, Flow
  <1>4. Awaited(j)'
    BY <1>1, <1>2 DEF CallInv, Awaited, TrackerLive
  <1>5. ASSUME Alone(j)'
        PROVE  /\ tmp'[call[j].chunk] = tmp[call[j].chunk]
               /\ writer'[call[j].chunk] = writer[call[j].chunk]
               /\ \A n \in Nodes :
                    archive'[n][call[j].chunk] = archive[n][call[j].chunk]
    <2>1. call[j].chunk \in Chunks
      BY <1>1, <1>2, <1>5, CallOfOp DEF CallInv, Flow, Alone
    <2>2. pc[k] = "idle" \/ ~Live(k) \/ call[j].chunk # call[k].chunk
      BY <1>1, <1>5 DEF Quiet, SameChunk
    <2>3. QED
      BY <1>2, <2>1, <2>2, OtherChunks
  <1>6. Storing(j)'
    BY <1>1, <1>2, <1>5 DEF CallInv, Storing, TrackerLive
  <1>7. Retrieving(j)'
    <2>1. ASSUME Alone(j)', call[j].op = "retrieve" PROVE NodeCopy(j)' = NodeCopy(j)
      <3>1. call[j].node \in Nodes
        BY <2>1, CallOfOp DEF RetrieveCalls
      <3>2. QED
        BY <1>1, <1>5, <2>1, <3>1 DEF NodeCopy
    <2>2. QED
      BY <1>1, <1>2, <1>5, <2>1 DEF CallInv, Retrieving
  <1>8. Removed(j)'
    BY <1>1, <1>2, <1>5 DEF CallInv, Removed
  <1>9. QED
    BY <1>3, <1>4, <1>6, <1>7, <1>8 DEF CallInv

\* A file that is being copied has one copier, and it is still copying.
LEMMA WritingStep ==
  ASSUME IInv, NEW k \in Calls, NextOf(k)
  PROVE  Writing'
  <1> USE DEF IInv
  <1> SUFFICES ASSUME NEW c \in Chunks, NEW j \in Calls, writer'[c] = j
               PROVE  pc'[j] = "copying" /\ call'[j].chunk = c
    BY DEF Writing
  <1>1. Flow(k) /\ (pc[k] # "idle" => call[k].chunk \in Chunks)
    BY CallOfOp DEF CallInv, Flow
  <1>2. CASE CopyStart(k)
    <2>1. CASE c = call[k].chunk /\ Dir(k) \in dirs
      BY <1>2, <2>1 DEF CopyStart, Goto, TypeOK
    <2>2. CASE c # call[k].chunk \/ Dir(k) \notin dirs
      <3>1. writer'[c] = writer[c]
        BY <1>2, <2>2 DEF CopyStart, TypeOK
      <3>2. j # k
        BY <1>2, <3>1 DEF CopyStart, Writing
      <3>3. QED
        BY <3>1, <3>2, OtherCalls DEF Writing
    <2>3. QED
      BY <2>1, <2>2
  <1>3. ASSUME ~CopyStart(k) PROVE writer'[c] = writer[c] \/ writer'[c] = NoCall
    <2>1. CASE CallStore(k) \/ CallRetrieve(k) \/ CallDelete(k)
      BY <2>1 DEF CallStore, CallRetrieve, CallDelete, Begin, files
    <2>2. CASE CallStep(k)
      BY <1>3, <2>2
      DEF CallStep, CheckDir, MakeDir, CopyEnd, Spawn, Await1, Await2, Await,
          AttemptSucceeds, AttemptFails, FetchesSome, Fetches, CheckFile, TakeFile,
          RemoveDir, Delete, Fails, files, TypeOK
    <2>3. CASE \E n \in Nodes : TrackerStep(k, n)
      BY <2>3 DEF TrackerStep, TrackerStart, TrackerSucceeds, TrackerFails, TrackerDies,
                  OrphanEnds, FetchesSome, Fetches, files, TypeOK
    <2>4. CASE Forget(k) \/ Interrupt(k)
      BY <2>4 DEF Forget, Interrupt, files
    <2>5. QED
      BY <2>1, <2>2, <2>3, <2>4 DEF NextOf
  <1>4. CASE ~CopyStart(k)
    <2>1. writer[c] = j
      BY <1>3, <1>4, ConstantsAssumption
    <2>2. pc[j] = "copying" /\ call[j].chunk = c
      BY <2>1 DEF Writing
    <2>3. CASE j # k
      BY <2>2, <2>3, OtherCalls
    <2>4. CASE j = k
      <3>1. CASE CopyEnd(k) \/ Fails(k)
        <4>1. writer' = [writer EXCEPT ![c] = NoCall]
          BY <2>1, <2>2, <2>4, <3>1 DEF CopyEnd, Fails
        <4>2. writer'[c] = NoCall
          BY <4>1 DEF TypeOK
        <4>3. QED
          BY <4>2, ConstantsAssumption
      <3>2. CASE ~CopyEnd(k) /\ ~Fails(k)
        <4>1. \A n \in Nodes : trk[k][n].state = "none"
          BY <1>1, <2>2, <2>4 DEF Flow, Ended
        <4>2. FALSE
          BY <1>4, <2>2, <2>4, <3>2, <4>1
          DEF NextOf, CallStore, CallRetrieve, CallDelete, Begin, CallStep, CheckDir,
              MakeDir, CopyStart, Spawn, Await1, Await2, Await, AttemptSucceeds,
              AttemptFails, CheckFile, TakeFile, RemoveDir, Delete, Forget, Interrupt, Ended,
              TrackerStep, TrackerStart, TrackerSucceeds, TrackerFails, TrackerDies,
              OrphanEnds, TrackerLive
        <4>3. QED
          BY <4>2
      <3>3. QED
        BY <3>1, <3>2
    <2>5. QED
      BY <2>3, <2>4
  <1>5. QED
    BY <1>2, <1>4

(***************************************************************************)
(* A step of a call preserves what the invariant says of that call.        *)
(***************************************************************************)
AtLeastOneAttempt == MaxRetries # 0
NoJvmErrors == ~JvmErrors

\* A call without trackers has none to wait for.
LEMMA NothingAwaited ==
  ASSUME NEW k \in Calls, \A n \in Nodes : trk'[k][n].state = "none", pc'[k] # "await2",
         call'[k].op = "store" => pc'[k] \notin {"checkfile", "takefile", "rmdir"}
  PROVE  Awaited(k)'
  BY DEF Awaited, TrackerLive

LEMMA BeginKeeps ==
  ASSUME IInv, NEW k \in Calls, CallStore(k) \/ CallRetrieve(k) \/ CallDelete(k)
  PROVE  CallInv(k)'
  <1> USE DEF IInv
  <1>1. /\ pc[k] = "idle" /\ trk' = trk
        /\ \/ /\ call'[k] \in StoreCalls
              /\ pc'[k] = IF call'[k].data = NoFile THEN "spawn" ELSE "checkdir"
           \/ call'[k] \in RetrieveCalls /\ pc'[k] = "checkdir"
           \/ call'[k] \in DeleteCalls /\ pc'[k] = "dsmcdelete"
    BY DEF CallStore, CallRetrieve, CallDelete, Begin, Goto, TypeOK
  <1>2. \A n \in Nodes : trk[k][n].state = "none"
    BY <1>1 DEF CallInv, Flow, Ended
  <1>3. Flow(k)'
    BY <1>1, <1>2 DEF Flow, Ended, StoreCalls, RetrieveCalls, DeleteCalls, Idle
  <1>4. Awaited(k)'
    BY <1>1, <1>2, NothingAwaited DEF StoreCalls
  <1>5. QED
    BY <1>1, <1>2, <1>3, <1>4
    DEF CallInv, Storing, Retrieving, Removed, TrackerLive, StoreCalls, RetrieveCalls,
        DeleteCalls

\* A dsmc that nobody waits for ends: its call has ended before, and is promised nothing
\* that it could break.
LEMMA OrphanKeeps ==
  ASSUME IInv, NEW k \in Calls, NEW m \in Nodes, OrphanEnds(k, m)
  PROVE  CallInv(k)'
  <1> USE DEF IInv
  <1>1. /\ CallInv(k) /\ trk[k][m].state = "orphan" /\ TrackerLive(k, m)
        /\ pc' = pc /\ call' = call /\ got' = got /\ overlap' = overlap
        /\ trk'[k][m].state = "none" /\ trk'[k][m].sent = NoFile
        /\ \A n \in Nodes : n # m => trk'[k][n] = trk[k][n]
    BY DEF OrphanEnds, TrackerLive, Fresh, Tracker, TypeOK
  <1>2. pc[k] \in {"threw", "cut"}
    BY <1>1 DEF CallInv, Awaited
  <1>3. Flow(k)'
    BY <1>1, <1>2 DEF CallInv, Flow
  <1>4. Awaited(k)'
    BY <1>1, <1>2 DEF CallInv, Awaited, TrackerLive, Nodes
  <1>5. Storing(k)'
    <2>1. call[k].op = "store" => tmp' = tmp /\ call[k].chunk \in Chunks
      BY CallOfOp DEF OrphanEnds, files, StoreCalls
    <2>2. call[k].op = "store" => \A n \in Nodes : n # m =>
            archive'[n][call[k].chunk] = archive[n][call[k].chunk]
      BY DEF OrphanEnds, MayKeep, TypeOK
    <2>3. QED
      BY <1>1, <1>2, <2>1, <2>2 DEF CallInv, Storing, Alone, TrackerLive
  <1>6. Retrieving(k)' /\ Removed(k)'
    BY <1>1, <1>2 DEF Retrieving, Removed
  <1>7. QED
    BY <1>3, <1>4, <1>5, <1>6 DEF CallInv

LEMMA TrackerKeeps ==
  ASSUME IInv, NoJvmErrors, NEW k \in Calls, NEW m \in Nodes,
         TrackerStart(k, m) \/ TrackerSucceeds(k, m) \/ TrackerFails(k, m)
  PROVE  CallInv(k)'
  <1> USE DEF IInv
  <1> DEFINE c == call[k].chunk
  <1>1. /\ trk[k][m].state \in {"ready", "running"} /\ TrackerLive(k, m)
        /\ pc' = pc /\ call' = call /\ tmp' = tmp /\ writer' = writer /\ overlap' = overlap
    BY DEF TrackerStart, TrackerSucceeds, TrackerFails, TrackerLive, files
  <1>2. /\ call[k].op = "store" /\ call[k] \in StoreCalls /\ c \in Chunks
        /\ pc[k] \in {"await1", "await2", "threw", "cut"}
    <2>1. call[k].op = "store" /\ pc[k] # "idle"
      BY <1>1 DEF CallInv, Flow, Ended
    <2>2. QED
      BY <1>1, <2>1, CallOfOp DEF CallInv, Flow, Awaited, Ended, StoreCalls
  <1>3. \A n \in Nodes : n # m => trk'[k][n] = trk[k][n]
    BY DEF TrackerStart, TrackerSucceeds, TrackerFails, TypeOK
  <1>4. /\ trk'[k][m].state \in {"ready", "running", "done", "failed"}
        /\ trk'[k][m].sent \in {NoFile, tmp[c]}
        /\ trk'[k][m].state = "done" => archive'[m][c] = trk[k][m].sent
                                        /\ trk[k][m].sent # NoFile
    <2>1. CASE TrackerStart(k, m)
      BY <2>1 DEF TrackerStart, Tracker, TypeOK
    <2>2. CASE TrackerSucceeds(k, m)
      BY <1>2, <2>2 DEF TrackerSucceeds, Fresh, Tracker, TypeOK
    <2>3. CASE TrackerFails(k, m)
      BY <2>3 DEF TrackerFails, Fresh, Tracker, TypeOK
    <2>4. QED
      BY <2>1, <2>2, <2>3
  <1>5. \A n \in Nodes : n # m => archive'[n][c] = archive[n][c]
    BY DEF TrackerStart, TrackerSucceeds, TrackerFails, MayKeep, TypeOK
  <1>6. Flow(k)'
    BY <1>1, <1>2 DEF CallInv, Flow, Ended, StoreCalls, Idle
  <1>7. Awaited(k)'
    BY <1>1, <1>2, <1>3, <1>4 DEF CallInv, Awaited, TrackerLive, Nodes
  <1>8. Storing(k)'
    BY <1>1, <1>2, <1>3, <1>4, <1>5 DEF CallInv, Storing, Alone, TrackerLive
  <1>9. QED
    BY <1>1, <1>2, <1>6, <1>7, <1>8 DEF CallInv, Retrieving, Removed

LEMMA CallStepKeeps ==
  ASSUME IInv, AtLeastOneAttempt, NEW k \in Calls, CallStep(k)
  PROVE  CallInv(k)'
  <1> USE DEF IInv
  <1> DEFINE c == call[k].chunk
  <1>1. /\ call' = call /\ overlap' = overlap
        /\ pc[k] \notin {"idle", "returned", "threw", "cut"}
    BY DEF CallStep, CheckDir, MakeDir, CopyStart, CopyEnd, Spawn, Await1, Await2, Await,
           AttemptSucceeds, AttemptFails, CheckFile, TakeFile, RemoveDir, Delete, Fails
  <1>2. /\ CallInv(k) /\ call[k] # Idle /\ c \in Chunks
        /\ call[k] \in StoreCalls \cup RetrieveCalls \cup DeleteCalls
    BY <1>1, CallOfOp DEF CallInv, Flow, TypeOK
  <1>3. \/ call[k].op = "store" /\ call[k] \in StoreCalls
        \/ call[k].op = "retrieve" /\ call[k] \in RetrieveCalls
        \/ call[k].op = "delete" /\ call[k] \in DeleteCalls
    BY <1>2 DEF StoreCalls, RetrieveCalls, DeleteCalls
  <1>4. CASE CheckDir(k) \/ MakeDir(k)
    <2>1. /\ pc[k] \in {"checkdir", "mkdir"}
          /\ pc'[k] \in {"mkdir", "threw"} \/ pc'[k] = AfterDir(k)
          /\ trk' = trk
      BY <1>4 DEF CheckDir, MakeDir, Goto, TypeOK
    <2>2. call[k].op # "delete" /\ \A n \in Nodes : trk[k][n].state = "none"
      BY <1>2, <2>1 DEF CallInv, Flow, Ended
    <2>3. pc'[k] \in {"mkdir", "threw"}
          \/ (call[k].op = "store" /\ pc'[k] = "copy")
          \/ (call[k].op = "retrieve" /\ pc'[k] = "attempt")
      BY <1>3, <2>1, <2>2 DEF AfterDir, AtLeastOneAttempt
    <2>4. Flow(k)'
      BY <1>1, <1>2, <2>1, <2>2, <2>3 DEF CallInv, Flow, Idle
    <2>5. Awaited(k)'
      BY <1>1, <2>1, <2>2, <2>3, NothingAwaited
    <2>6. QED
      BY <1>1, <2>1, <2>2, <2>3, <2>4, <2>5
      DEF CallInv, Storing, Retrieving, Removed, TrackerLive
  <1>5. CASE CopyStart(k)
    <2>1. /\ pc[k] = "copy" /\ trk' = trk /\ call[k].op = "store"
          /\ \A n \in Nodes : trk[k][n].state = "none"
          /\ \/ pc'[k] = "copying" /\ writer'[c] = k
             \/ pc'[k] = "threw"
      BY <1>2, <1>5 DEF CopyStart, Goto, CallInv, Flow, Ended, TypeOK
    <2>2. Flow(k)'
      BY <1>1, <1>2, <2>1 DEF CallInv, Flow, Idle
    <2>3. Awaited(k)'
      BY <1>1, <2>1, NothingAwaited
    <2>4. QED
      BY <1>1, <2>1, <2>2, <2>3 DEF CallInv, Storing, Retrieving, Removed, TrackerLive
  <1>6. CASE CopyEnd(k)
    <2>1. /\ pc[k] = "copying" /\ pc'[k] = "spawn" /\ trk' = trk /\ call[k].op = "store"
          /\ \A n \in Nodes : trk[k][n].state = "none"
          /\ writer[c] = k => tmp'[c] = call[k].data
      BY <1>2, <1>6 DEF CopyEnd, Goto, CallInv, Flow, Ended, TypeOK
    <2>2. Flow(k)'
      BY <1>1, <1>2, <2>1 DEF CallInv, Flow, Idle
    <2>3. Awaited(k)'
      BY <1>1, <2>1, NothingAwaited
    <2>4. QED
      BY <1>1, <1>2, <2>1, <2>2, <2>3
      DEF CallInv, Storing, Retrieving, Removed, TrackerLive, Alone
  <1>7. CASE Spawn(k)
    <2>1. /\ pc[k] = "spawn" /\ pc'[k] = "await1" /\ call[k].op = "store" /\ tmp' = tmp
          /\ \A n \in Nodes : trk'[k][n].state = "ready"
      BY <1>2, <1>7
      DEF Spawn, Goto, CallInv, Flow, Fresh, Tracker, TypeOK, AtLeastOneAttempt, files
    <2>2. Flow(k)'
      BY <1>1, <1>2, <2>1 DEF CallInv, Flow, Idle
    <2>3. Awaited(k)'
      BY <1>1, <2>1 DEF Awaited
    <2>4. Storing(k)'
      BY <1>1, <1>2, <1>7, <2>1
      DEF CallInv, Storing, Alone, Spawn, Fresh, Tracker, TypeOK
    <2>5. QED
      BY <1>1, <2>1, <2>2, <2>3, <2>4 DEF CallInv, Retrieving, Removed
  <1>8. CASE Await1(k) \/ Await2(k)
    <2>1. /\ trk' = trk /\ tmp' = tmp /\ writer' = writer /\ archive' = archive
          /\ call[k].op = "store"
          /\ \/ pc[k] = "await1" /\ trk[k][1].state = "done" /\ pc'[k] = "await2"
             \/ pc[k] = "await1" /\ trk[k][1].state = "failed" /\ pc'[k] = "threw"
             \/ pc[k] = "await2" /\ trk[k][2].state = "done" /\ pc'[k] = "checkfile"
             \/ pc[k] = "await2" /\ trk[k][2].state = "failed" /\ pc'[k] = "threw"
      BY <1>2, <1>8
      DEF Await1, Await2, Await, Goto, CallInv, Flow, Awaited, TypeOK, files, Nodes
    <2>2. Flow(k)'
      BY <1>1, <1>2, <2>1 DEF CallInv, Flow, Idle, Ended
    <2>3. Awaited(k)'
      BY <1>1, <1>2, <2>1 DEF CallInv, Awaited, TrackerLive, Nodes
    <2>4. Storing(k)'
      BY <1>1, <1>2, <2>1 DEF CallInv, Storing, TrackerLive, Alone
    <2>5. QED
      BY <1>1, <2>1, <2>2, <2>3, <2>4 DEF CallInv, Retrieving, Removed
  <1>9. CASE AttemptSucceeds(k)
    <2>1. call[k].op = "retrieve" /\ call[k] \in RetrieveCalls
      BY <1>2, <1>9, CallOfOp DEF AttemptSucceeds, CallInv, Flow
    <2>2. /\ pc[k] = "attempt" /\ pc'[k] = "checkfile" /\ trk' = trk
          /\ NodeCopy(k) # NoFile /\ tmp'[c] = NodeCopy(k) /\ NodeCopy(k)' = NodeCopy(k)
      BY <1>2, <1>9 DEF AttemptSucceeds, Fetches, Goto, NodeCopy, TypeOK
    <2>3. Flow(k)'
      BY <1>1, <1>2, <2>1, <2>2 DEF CallInv, Flow, Idle, Ended
    <2>4. QED
      BY <1>1, <1>2, <2>1, <2>2, <2>3
      DEF CallInv, Awaited, Storing, Retrieving, Removed, TrackerLive
  <1>10. CASE AttemptFails(k)
    <2>1. /\ pc[k] = "attempt" /\ pc'[k] \in {"attempt", "threw"} /\ trk' = trk
          /\ call[k].op = "retrieve" /\ \A n \in Nodes : trk[k][n].state = "none"
      BY <1>2, <1>10 DEF AttemptFails, Goto, CallInv, Flow, TypeOK
    <2>2. Flow(k)'
      BY <1>1, <1>2, <2>1 DEF CallInv, Flow, Idle, Ended
    <2>3. QED
      BY <1>1, <1>2, <2>1, <2>2
      DEF CallInv, Awaited, Storing, Retrieving, Removed, TrackerLive
  <1>11. CASE CheckFile(k)
    <2>1. /\ pc[k] = "checkfile" /\ trk' = trk /\ tmp' = tmp /\ writer' = writer
          /\ archive' = archive /\ call[k].op # "delete"
          /\ \/ pc'[k] = "takefile" /\ tmp[c] # NoFile
             \/ pc'[k] = "returned" /\ tmp[c] = NoFile /\ call[k].op = "store"
             \/ pc'[k] = "rmdir" /\ tmp[c] = NoFile /\ call[k].op # "store"
      BY <1>2, <1>11 DEF CheckFile, Goto, CallInv, Flow, Ended, TypeOK, files
    <2>2. Flow(k)'
      BY <1>1, <1>2, <2>1 DEF CallInv, Flow, Idle, Ended
    <2>3. Awaited(k)'
      BY <1>1, <1>2, <2>1 DEF CallInv, Awaited, TrackerLive
    <2>4. Storing(k)'
      BY <1>1, <1>2, <2>1 DEF CallInv, Awaited, Storing, TrackerLive, Alone
    <2>5. QED
      BY <1>1, <1>2, <2>1, <2>2, <2>3, <2>4
      DEF CallInv, Retrieving, Removed, Alone, NodeCopy
  <1>12. CASE TakeFile(k)
    <2>1. /\ pc[k] = "takefile" /\ trk' = trk /\ archive' = archive /\ tmp'[c] = NoFile
          /\ pc'[k] \in {"threw", "rmdir"} /\ call[k].op # "delete"
          /\ call[k].op = "retrieve" => got'[k] = tmp[c]
      BY <1>2, <1>12 DEF TakeFile, Goto, CallInv, Flow, Ended, TypeOK
    <2>2. Flow(k)'
      BY <1>1, <1>2, <2>1 DEF CallInv, Flow, Idle, Ended
    <2>3. Awaited(k)'
      <3>1. \A n \in Nodes : ~TrackerLive(k, n)
        BY <1>2, <2>1 DEF CallInv, Flow, Awaited, TrackerLive
      <3>2. QED
        BY <1>1, <1>2, <2>1, <3>1 DEF CallInv, Awaited, TrackerLive
    <2>4. Storing(k)'
      BY <1>1, <1>2, <2>1 DEF CallInv, Storing, Awaited, TrackerLive, Alone
    <2>5. QED
      BY <1>1, <1>2, <2>1, <2>2, <2>3, <2>4
      DEF CallInv, Retrieving, Removed, Alone, NodeCopy
  <1>13. CASE RemoveDir(k)
    <2>1. /\ pc[k] = "rmdir" /\ trk' = trk /\ archive' = archive /\ tmp' = tmp
          /\ writer' = writer /\ got' = got
          /\ pc'[k] \in {"returned", "threw"} /\ call[k].op # "delete"
      BY <1>2, <1>13 DEF RemoveDir, Goto, CallInv, Flow, Ended, TypeOK
    <2>2. Flow(k)'
      BY <1>1, <1>2, <2>1 DEF CallInv, Flow, Idle, Ended
    <2>3. Awaited(k)'
      <3>1. \A n \in Nodes : ~TrackerLive(k, n)
        BY <1>2, <2>1 DEF CallInv, Flow, Awaited, TrackerLive
      <3>2. QED
        BY <1>1, <1>2, <2>1, <3>1 DEF CallInv, Awaited, TrackerLive
    <2>4. Storing(k)'
      BY <1>1, <1>2, <2>1 DEF CallInv, Awaited, Storing, TrackerLive, Alone
    <2>5. QED
      BY <1>1, <1>2, <2>1, <2>2, <2>3, <2>4
      DEF CallInv, Retrieving, Removed, Alone, NodeCopy
  <1>14. CASE Delete(k)
    <2>1. /\ pc[k] = "dsmcdelete" /\ pc'[k] \in {"returned", "threw"} /\ trk' = trk
          /\ call[k].op = "delete" /\ \A n \in Nodes : trk[k][n].state = "none"
      BY <1>2, <1>14 DEF Delete, Goto, CallInv, Flow, TypeOK, files, Ended
    <2>2. Flow(k)'
      BY <1>1, <1>2, <2>1 DEF CallInv, Flow, Idle, Ended
    <2>3. QED
      BY <1>1, <1>2, <2>1, <2>2
      DEF CallInv, Awaited, Storing, Retrieving, Removed, TrackerLive
  <1>15. CASE Fails(k)
    <2>1. /\ pc[k] \in {"mkdir", "copy", "copying", "takefile", "rmdir"} /\ pc'[k] = "threw"
          /\ trk' = trk /\ archive' = archive /\ call[k].op # "delete"
      BY <1>2, <1>15 DEF Fails, Goto, CallInv, Flow, Ended, TypeOK
    <2>2. \A n \in Nodes : trk[k][n].state \in {"none", "done"}
      BY <1>2, <2>1 DEF CallInv, Flow, Awaited, Ended
    <2>3. Flow(k)'
      BY <1>1, <1>2, <2>1 DEF CallInv, Flow, Idle, Ended
    <2>4. Awaited(k)'
      BY <1>1, <2>1, <2>2 DEF Awaited, TrackerLive
    <2>5. Storing(k)'
      BY <1>1, <1>2, <2>1, <2>2 DEF CallInv, Storing, TrackerLive, Alone
    <2>6. QED
      BY <1>1, <2>1, <2>3, <2>4, <2>5 DEF CallInv, Retrieving, Removed
  <1>16. QED
    BY <1>4, <1>5, <1>6, <1>7, <1>8, <1>9, <1>10, <1>11, <1>12, <1>13, <1>14, <1>15
    DEF CallStep

\* A call that is interrupted leaves its trackers or its dsmc running.
LEMMA InterruptKeeps ==
  ASSUME IInv, NEW k \in Calls, Interrupt(k)
  PROVE  CallInv(k)'
  <1> USE DEF IInv
  <1>1. /\ CallInv(k) /\ pc'[k] = "cut" /\ call' = call /\ overlap' = overlap
        /\ tmp' = tmp /\ archive' = archive
    BY DEF Interrupt, Goto, files, TypeOK
  <1>2. CASE pc[k] \in {"await1", "await2"}
    <2>1. trk' = trk /\ call[k].op = "store"
      BY <1>1, <1>2 DEF Interrupt, CallInv, Flow
    <2>2. Flow(k)' /\ Awaited(k)'
      BY <1>1, <1>2, <2>1 DEF CallInv, Flow, Awaited, Ended, Idle
    <2>3. Storing(k)'
      BY <1>1, <1>2, <2>1 DEF CallInv, Storing, Alone, TrackerLive
    <2>4. QED
      BY <1>1, <2>2, <2>3 DEF CallInv, Retrieving, Removed
  <1>3. CASE pc[k] \in {"attempt", "dsmcdelete"}
    <2>1. call[k].op # "store" /\ call[k].op # "none" /\ call[k] # Idle
      BY <1>1, <1>3 DEF CallInv, Flow, Idle
    <2>2. \A n \in Nodes : trk[k][n].state = "none"
      BY <1>1, <1>3 DEF CallInv, Flow, Ended
    <2>3. \A n \in Nodes : trk'[k][n].state =
            IF n = call[k].node THEN "orphan" ELSE "none"
      BY <1>3, <2>2 DEF Interrupt, Fresh, Tracker, TypeOK
    <2>4. Flow(k)'
      BY <1>1, <1>3, <2>1, <2>3 DEF CallInv, Flow, Ended, Idle
    <2>5. Awaited(k)'
      BY <1>1, <2>1, <2>3 DEF Awaited
    <2>6. QED
      BY <1>1, <2>1, <2>4, <2>5 DEF CallInv, Storing, Retrieving, Removed
  <1>4. QED
    BY <1>2, <1>3 DEF Interrupt

LEMMA ForgetKeeps ==
  ASSUME IInv, NEW k \in Calls, Forget(k)
  PROVE  CallInv(k)'
  <1>1. /\ pc'[k] = "idle" /\ call'[k] = Idle
        /\ \A n \in Nodes : trk'[k][n].state = "none"
    BY DEF Forget, Goto, Fresh, Tracker, IInv, TypeOK
  <1>2. QED
    BY <1>1
    DEF CallInv, Flow, Awaited, Storing, Retrieving, Removed, Alone, TrackerLive, Idle

\* A crash starts nothing.
LEMMA CrashLive ==
  ASSUME Crash, NEW k \in Calls, Live(k)'
  PROVE  Live(k)
  BY DEF Crash, Live, TrackerLive, DsmcRuns, Fresh, Tracker, Ended

LEMMA CrashKeeps ==
  ASSUME IInv, Crash
  PROVE  Writing' /\ Quiet' /\ \A k \in Calls : CallInv(k)'
  <1> USE DEF IInv
  <1>1. Writing'
    BY ConstantsAssumption DEF Crash, Writing
  <1>2. /\ \A k \in Calls :
             pc'[k] = IF pc[k] \in Ended \cup {"idle"} THEN pc[k] ELSE "cut"
        /\ call' = call /\ tmp' = tmp /\ archive' = archive /\ got' = got
        /\ overlap' = overlap
    BY DEF Crash
  <1>3. \A k \in Calls, n \in Nodes :
          /\ DsmcRuns(k, n) => trk'[k][n].state = "orphan" /\ trk'[k][n].sent = trk[k][n].sent
          /\ (~DsmcRuns(k, n) /\ trk[k][n].state = "orphan") => trk'[k][n] = trk[k][n]
          /\ (~DsmcRuns(k, n) /\ trk[k][n].state # "orphan")
               => trk'[k][n].state = "none" /\ trk'[k][n].sent = NoFile
    BY DEF Crash, Fresh, Tracker
  <1>4. Quiet'
    <2>1. \A k \in Calls : Live(k)' => Live(k)
      BY CrashLive
    <2>2. QED
      BY <1>2, <2>1 DEF Quiet, Alone, SameChunk
  <1>5. ASSUME NEW k \in Calls PROVE CallInv(k)'
    <2> DEFINE runs(n) == DsmcRuns(k, n) \/ trk[k][n].state = "orphan"
    <2>1. /\ CallInv(k)
          /\ \A n \in Nodes :
               trk'[k][n].state \in {"orphan", "none"}
               /\ (trk'[k][n].state = "orphan" <=> runs(n))
               /\ trk'[k][n].sent \in {NoFile, trk[k][n].sent}
      BY <1>3
    <2>2. \A n \in Nodes : runs(n) =>
            /\ pc'[k] \in {"threw", "cut"} /\ call[k] # Idle
            /\ \/ call[k].op = "store" /\ TrackerLive(k, n)
               \/ pc'[k] = "cut" /\ call[k].op # "store" /\ n = call[k].node
      BY <1>2, <2>1 DEF CallInv, Flow, Awaited, DsmcRuns, TrackerLive, Ended, Idle
    <2>3. Flow(k)'
      BY <1>2, <2>1, <2>2 DEF CallInv, Flow, Ended, Idle
    <2>4. Awaited(k)'
      BY <1>2, <2>1, <2>2 DEF CallInv, Awaited, TrackerLive, Ended
    <2>5. Storing(k)'
      BY <1>2, <2>1, <2>2 DEF CallInv, Storing, TrackerLive, Ended, Alone
    <2>6. Retrieving(k)' /\ Removed(k)'
      BY <1>2, <1>5 DEF CallInv, Retrieving, Removed, Ended, Alone, NodeCopy
    <2>7. QED
      BY <2>3, <2>4, <2>5, <2>6 DEF CallInv
  <1>6. QED
    BY <1>1, <1>4, <1>5

(***************************************************************************)
(* The theorems.                                                           *)
(***************************************************************************)

LEMMA InitIInv == Init => IInv
  <1> SUFFICES ASSUME Init PROVE IInv
    OBVIOUS
  <1>1. TypeOK /\ AllFlow
    BY InitTypeFlow
  <1>2. \A k \in Calls : pc[k] = "idle" /\ \A n \in Nodes : trk[k][n].state = "none"
    BY DEF Init, Fresh, Tracker
  <1>3. \A k \in Calls : call[k].op = "none"
    BY DEF Init, Idle
  <1>4. Writing /\ Quiet
    BY <1>2, ConstantsAssumption DEF Init, Writing, Quiet, Alone
  <1>5. QED
    BY <1>1, <1>2, <1>3, <1>4
    DEF IInv, CallInv, AllFlow, Awaited, Storing, Retrieving, Removed, Alone, TrackerLive

LEMMA StepIInv ==
  ASSUME AtLeastOneAttempt, NoJvmErrors
  PROVE  IInv /\ [Next]_vars => IInv'
  <1> SUFFICES ASSUME IInv, [Next]_vars PROVE IInv'
    OBVIOUS
  <1>1. TypeOK'
    BY TypeStep DEF IInv, CallInv, AllFlow
  <1>2. ASSUME NEW k \in Calls, NextOf(k)
        PROVE  Writing' /\ Quiet' /\ \A j \in Calls : CallInv(j)'
    <2>1. Writing' /\ Quiet'
      BY <1>2, WritingStep, QuietStep
    <2>2. CallInv(k)'
      <3>1. ASSUME NEW n \in Nodes, TrackerStep(k, n) PROVE CallInv(k)'
        BY <3>1, TrackerKeeps, OrphanKeeps DEF TrackerStep, TrackerDies, NoJvmErrors
      <3>2. QED
        BY <1>2, <3>1, BeginKeeps, CallStepKeeps, InterruptKeeps, ForgetKeeps DEF NextOf
    <2>3. QED
      BY <1>2, <2>1, <2>2, OthersKeep
  <1>3. CASE Crash
    BY <1>1, <1>3, CrashKeeps DEF IInv
  <1>4. CASE UNCHANGED vars
    BY <1>4
    DEF vars, IInv, TypeOK, Writing, Quiet, CallInv, Flow, Awaited, Storing, Retrieving,
        Removed, Alone, SameChunk, Live, TrackerLive, NodeCopy
  <1>5. QED
    BY <1>1, <1>2, <1>3, <1>4 DEF Next, IInv

\* The inductive invariant holds of every behaviour in which a call makes at least
\* one attempt and no tracker thread dies of an Error.
THEOREM Invariance ==
  ASSUME AtLeastOneAttempt, NoJvmErrors
  PROVE  Spec => []IInv
  <1>1. IInv /\ [Next]_vars => IInv'
    BY StepIInv
  <1>2. QED
    BY <1>1, InitIInv, PTL DEF Spec

\* Every variable keeps its type.
THEOREM TypeCorrect ==
  ASSUME AtLeastOneAttempt, NoJvmErrors
  PROVE  Spec => []TypeOK
  <1>1. IInv => TypeOK
    BY DEF IInv
  <1>2. QED
    BY <1>1, Invariance, PTL

\* A store that returns, and met no other call on its chunk, has its own bytes on both
\* nodes: for any number of calls, chunks that share a directory, retries and crashes.
THEOREM Replication ==
  ASSUME AtLeastOneAttempt, NoJvmErrors
  PROVE  Spec => []StoreReplicated
  <1>1. IInv => StoreReplicated
    BY DEF IInv, CallInv, Awaited, Storing, Alone, StoreReplicated, Returned
  <1>2. QED
    BY <1>1, Invariance, PTL

\* A retrieve that returns, and met no other call on its chunk, has delivered the copy
\* of the node it was sent to.
THEOREM Fidelity ==
  ASSUME AtLeastOneAttempt, NoJvmErrors
  PROVE  Spec => []RetrieveFaithful
  <1>1. IInv => RetrieveFaithful
    BY DEF IInv, CallInv, Retrieving, Alone, RetrieveFaithful, Returned, NodeCopy
  <1>2. QED
    BY <1>1, Invariance, PTL

\* Calls that return leave no temporary file behind.
THEOREM Cleanliness ==
  ASSUME AtLeastOneAttempt, NoJvmErrors
  PROVE  Spec => []NothingLeftBehind
  <1>1. IInv => NothingLeftBehind
    BY DEF IInv, CallInv, Removed, Alone, NothingLeftBehind
  <1>2. QED
    BY <1>1, Invariance, PTL

\* The one kind of tracker that outlives its call is the upload to node 2 of a store
\* that threw because of node 1.
THEOREM Lingering ==
  ASSUME AtLeastOneAttempt, NoJvmErrors
  PROVE  Spec => []OnlyNode2Lingers
  <1>1. IInv => OnlyNode2Lingers
    BY DEF IInv, CallInv, Flow, Awaited, OnlyNode2Lingers, TrackerLive, Ended
  <1>2. QED
    BY <1>1, Invariance, PTL

-----------------------------------------------------------------------------
(***************************************************************************)
(* Each step is a step of ReplicatedStore.                                 *)
(***************************************************************************)

\* What a step of one call does to the abstract state.
LEMMA MappedStep ==
  ASSUME IInv, NEW k \in Calls, NextOf(k)
  PROVE  /\ Statuses' = [Statuses EXCEPT ![k] = Status(k)']
         /\ Results' = [Results EXCEPT ![k] = IF pc'[k] = "returned" THEN got'[k] ELSE NoFile]
         /\ LingeringCalls' = IF Lingers(k)' THEN LingeringCalls \cup {k} ELSE LingeringCalls \ {k}
  <1>1. ASSUME NEW j \in Calls, j # k
        PROVE  pc'[j] = pc[j] /\ trk'[j] = trk[j] /\ got'[j] = got[j]
    BY <1>1, OtherCalls DEF IInv
  <1>2. \A j \in Calls \ {k} : Status(j)' = Status(j)
    BY <1>1 DEF Status
  <1>3. \A j \in Calls \ {k} : Lingers(j)' <=> Lingers(j)
    BY <1>1 DEF Lingers, Live, TrackerLive
  <1>4. Statuses' = [Statuses EXCEPT ![k] = Status(k)']
    BY <1>2 DEF Statuses
  <1>5. Results' = [Results EXCEPT ![k] = IF pc'[k] = "returned" THEN got'[k] ELSE NoFile]
    BY <1>1 DEF Results
  <1>6. LingeringCalls' = IF Lingers(k)' THEN LingeringCalls \cup {k} ELSE LingeringCalls \ {k}
    BY <1>3 DEF LingeringCalls
  <1>7. QED
    BY <1>4, <1>5, <1>6

\* A step that changes nothing a caller could tell.
LEMMA SilentStep ==
  ASSUME IInv, NEW k \in Calls, NextOf(k), UNCHANGED <<call, overlap, archive>>,
         Status(k)' = Status(k), Lingers(k)' = Lingers(k),
         pc'[k] = "returned" => pc[k] = "returned" /\ got'[k] = got[k]
  PROVE  UNCHANGED Promise!vars
  <1>1. Status(k) = "returned" <=> pc[k] = "returned"
    BY DEF Status, Ended
  <1>2. Status(k)' = "returned" <=> pc'[k] = "returned"
    BY DEF Status, Ended
  <1>3. Statuses' = Statuses
    BY MappedStep DEF Statuses
  <1>4. Results' = Results
    BY MappedStep, <1>1, <1>2 DEF Results
  <1>5. LingeringCalls' = LingeringCalls
    BY MappedStep DEF LingeringCalls
  <1>6. QED
    BY <1>3, <1>4, <1>5 DEF Promise!vars

\* A call that throws, or is cut short.
LEMMA ThrowStep ==
  ASSUME IInv, NEW k \in Calls, NextOf(k), UNCHANGED <<call, overlap>>,
         Status(k) = "pending", pc'[k] \in {"threw", "cut"},
         UNCHANGED archive \/ (call[k].op = "delete" /\ MayRemove(k))
  PROVE  Promise!Throw(k)
  <1>1. Status(k)' = "threw" /\ Statuses[k] = "pending" /\ pc[k] # "returned"
    BY DEF Status, Statuses, Ended
  <1>2. Results' = Results
    BY MappedStep, <1>1 DEF Results
  <1>3. k \notin LingeringCalls
    BY <1>1 DEF LingeringCalls, Lingers, Status, Ended
  <1>4. LingeringCalls' \in {LingeringCalls, LingeringCalls \cup {k}}
    BY MappedStep, <1>3
  <1>5. IF call[k].op = "delete" THEN Promise!Remove(k) ELSE UNCHANGED archive
    BY DEF Promise!Remove, MayRemove
  <1>6. QED
    BY MappedStep, <1>1, <1>2, <1>4, <1>5 DEF Promise!Throw

LEMMA ReturnStep ==
  ASSUME IInv, IInv', NEW k \in Calls, NextOf(k), UNCHANGED <<call, overlap>>,
         Status(k) = "pending", pc'[k] = "returned",
         UNCHANGED archive \/ (call[k].op = "delete" /\ MayRemove(k))
  PROVE  Promise!Return(k)
  <1>1. Status(k)' = "returned" /\ Statuses[k] = "pending" /\ pc[k] \notin Ended \cup {"idle"}
    BY DEF Status, Statuses, Ended
  <1>2. Results' = [Results EXCEPT ![k] = got'[k]] /\ got'[k] \in Data \cup {NoFile, Torn}
    BY MappedStep DEF IInv, TypeOK, Contents
  <1>3. LingeringCalls' = LingeringCalls
    <2>1. k \notin LingeringCalls
      BY <1>1 DEF LingeringCalls, Lingers
    <2>2. ~Lingers(k)'
      BY DEF Lingers, Live, TrackerLive, IInv, CallInv, Awaited, Flow, Ended
    <2>3. LingeringCalls' = LingeringCalls \ {k}
      BY MappedStep, <2>2
    <2>4. QED
      BY <2>1, <2>3
  <1>4. Alone(k)' <=> ~overlap[k]
    BY DEF Alone
  <1>5. ASSUME ~overlap[k] PROVE Promise!Kept(k)
    <2>1. CASE call[k].op = "store"
      BY <2>1, <1>4, <1>5 DEF IInv, CallInv, Awaited, Storing, Promise!Kept
    <2>2. CASE call[k].op = "retrieve"
      <3>1. Results'[k] = got'[k]
        BY <1>2 DEF Results
      <3>2. NodeCopy(k)' = archive[call[k].node][call[k].chunk]
        BY <2>2 DEF NodeCopy
      <3>3. NodeCopy(k)' # NoFile /\ got'[k] = NodeCopy(k)'
        BY <2>2, <1>4, <1>5 DEF IInv, CallInv, Retrieving
      <3>4. QED
        BY <2>2, <3>1, <3>2, <3>3 DEF Promise!Kept
    <2>3. CASE call[k].op \notin {"store", "retrieve"}
      BY <2>3 DEF Promise!Kept
    <2>4. QED
      BY <2>1, <2>2, <2>3
  <1>6. IF call[k].op = "delete" THEN Promise!Remove(k) ELSE UNCHANGED archive
    BY DEF Promise!Remove, MayRemove
  <1>7. QED
    BY MappedStep, <1>1, <1>2, <1>3, <1>5, <1>6 DEF Promise!Return

\* A dsmc that has put a copy on its node.
LEMMA PutStep ==
  ASSUME IInv, NEW k \in Calls, NEW n \in Nodes, NextOf(k),
         UNCHANGED <<pc, call, got, overlap>>,
         TrackerLive(k, n), call[k].op = "store", trk[k][n].sent # NoFile,
         archive' = [archive EXCEPT ![n][call[k].chunk] = trk[k][n].sent]
  PROVE  Promise!Put(k, n)
  <1>1. Live(k) /\ pc[k] # "idle"
    BY LiveCall DEF IInv, CallInv
  <1>2. Promise!Active(k)
    BY <1>1 DEF Promise!Active, Statuses, Status, LingeringCalls, Lingers, Ended
  <1>3. trk[k][n].sent \in Promise!Writable(k)
    <2>1. trk[k][n].sent \in Data \cup {Torn}
      BY DEF IInv, TypeOK, Contents
    <2>2. (~overlap[k] /\ call[k].data # NoFile) => trk[k][n].sent = call[k].data
      BY <1>1 DEF IInv, CallInv, Storing, Alone
    <2>3. QED
      BY <2>1, <2>2 DEF Promise!Writable
  <1>4. Statuses' = Statuses /\ Results' = Results
    BY DEF Statuses, Status, Results
  <1>5. LingeringCalls' \in {LingeringCalls, LingeringCalls \ {k}}
    <2>1. Lingers(k)' => Lingers(k)
      BY <1>1 DEF Lingers, Live
    <2>2. Lingers(k) => LingeringCalls \cup {k} = LingeringCalls
      BY DEF LingeringCalls
    <2>3. QED
      BY MappedStep, <2>1, <2>2
  <1>6. QED
    BY <1>1, <1>2, <1>3, <1>4, <1>5 DEF Promise!Put

LEMMA TrackerStepMaps ==
  ASSUME IInv, NoJvmErrors, NEW k \in Calls, NEW n \in Nodes, TrackerStep(k, n)
  PROVE  Promise!Next \/ UNCHANGED Promise!vars
  <1>1. /\ NextOf(k) /\ UNCHANGED <<pc, call, got, overlap>>
        /\ TrackerLive(k, n)
    BY DEF NextOf, TrackerStep, TrackerStart, TrackerSucceeds, TrackerFails, TrackerDies,
           OrphanEnds, TrackerLive
  <1>2. Status(k)' = Status(k) /\ Statuses' = Statuses /\ Results' = Results
    BY <1>1 DEF Status, Statuses, Results
  <1>3. CASE /\ call[k].op = "store" /\ trk[k][n].sent # NoFile
             /\ archive' = [archive EXCEPT ![n][call[k].chunk] = trk[k][n].sent]
    BY <1>1, <1>3, PutStep DEF Promise!Next
  <1>4. CASE /\ Lingers(k) /\ ~Lingers(k)'
             /\ UNCHANGED archive \/ (call[k].op = "delete" /\ MayRemove(k))
    <2>1. LingeringCalls' = LingeringCalls \ {k} /\ k \in LingeringCalls
      BY <1>1, <1>4, MappedStep DEF LingeringCalls
    <2>2. IF call[k].op = "delete" THEN Promise!Remove(k) ELSE UNCHANGED archive
      BY <1>4 DEF Promise!Remove, MayRemove
    <2>3. Promise!Settle(k)
      BY <1>1, <1>2, <2>1, <2>2 DEF Promise!Settle
    <2>4. QED
      BY <2>3 DEF Promise!Next
  <1>5. CASE UNCHANGED archive
    <2>1. CASE Lingers(k)' = Lingers(k)
      BY <1>1, <1>2, <1>5, <2>1, SilentStep
    <2>2. CASE Lingers(k)' # Lingers(k)
      <3>1. Lingers(k) /\ ~Lingers(k)'
        BY <1>1, <2>2 DEF Lingers, Live
      <3>2. QED
        BY <1>4, <1>5, <3>1
    <2>3. QED
      BY <2>1, <2>2 DEF Lingers
  <1>6. CASE OrphanEnds(k, n) /\ call[k].op = "delete"
    <2>1. pc[k] = "cut" /\ trk[k][n].state = "orphan" /\ n = call[k].node
      BY <1>6 DEF OrphanEnds, IInv, CallInv, Flow
    <2>2. \A m \in Nodes : m # n => trk'[k][m].state = "none"
      BY <1>6, <2>1 DEF OrphanEnds, IInv, TypeOK, CallInv, Flow
    <2>3. trk'[k][n].state = "none"
      BY <1>6 DEF OrphanEnds, Fresh, Tracker, IInv, TypeOK
    <2>4. Lingers(k) /\ ~Lingers(k)'
      BY <1>1, <2>1, <2>2, <2>3 DEF Lingers, Live, TrackerLive, Ended
    <2>5. MayRemove(k)
      BY <1>6 DEF OrphanEnds
    <2>6. QED
      BY <1>4, <1>6, <2>4, <2>5
  <1>7. \/ UNCHANGED archive
        \/ /\ call[k].op = "store" /\ trk[k][n].sent # NoFile
           /\ archive' = [archive EXCEPT ![n][call[k].chunk] = trk[k][n].sent]
        \/ OrphanEnds(k, n) /\ call[k].op = "delete"
    <2>1. trk[k][n].state \in {"ready", "running"} => call[k].op = "store"
      BY DEF IInv, CallInv, Flow
    <2>2. QED
      BY <2>1 DEF TrackerStep, TrackerStart, TrackerSucceeds, TrackerFails, TrackerDies,
                  OrphanEnds, MayKeep, NoJvmErrors
  <1>8. QED
    BY <1>3, <1>5, <1>6, <1>7

LEMMA CallStepMaps ==
  ASSUME IInv, IInv', AtLeastOneAttempt, NEW k \in Calls, CallStep(k)
  PROVE  Promise!Next \/ UNCHANGED Promise!vars
  <1>1. /\ NextOf(k) /\ UNCHANGED <<call, overlap>>
        /\ pc[k] \notin Ended \cup {"idle"}
        /\ pc'[k] # "idle"
    BY DEF NextOf, CallStep, CheckDir, MakeDir, CopyStart, CopyEnd, Spawn, Await1, Await2,
           Await, AttemptSucceeds, AttemptFails, CheckFile, TakeFile, RemoveDir, Delete,
           Fails, Goto, AfterDir, Ended, IInv, TypeOK
  <1>2. Status(k) = "pending" /\ ~Lingers(k)
    BY <1>1 DEF Status, Lingers, Ended
  <1>3. /\ ~Delete(k) => UNCHANGED archive
        /\ Delete(k) => /\ pc'[k] \in {"returned", "threw"} /\ call[k].op = "delete"
                        /\ MayRemove(k)
    BY DEF CallStep, CheckDir, MakeDir, CopyStart, CopyEnd, Spawn, Await1, Await2,
           Await, AttemptSucceeds, AttemptFails, CheckFile, TakeFile, RemoveDir, Delete,
           Fails, Goto, files, IInv, TypeOK, CallInv, Flow
  <1>4. CASE pc'[k] \in {"threw", "cut"}
    BY <1>1, <1>2, <1>3, <1>4, ThrowStep DEF Promise!Next
  <1>5. CASE pc'[k] = "returned"
    BY <1>1, <1>2, <1>3, <1>5, ReturnStep DEF Promise!Next
  <1>6. CASE pc'[k] \notin Ended
    <2>1. Status(k)' = "pending" /\ ~Lingers(k)'
      BY <1>1, <1>6 DEF Status, Lingers, Ended
    <2>2. UNCHANGED <<call, overlap, archive>>
      BY <1>1, <1>3, <1>6 DEF Ended
    <2>3. Status(k)' = Status(k)
      BY <1>2, <2>1
    <2>4. Lingers(k)' = Lingers(k)
      BY <1>2, <2>1 DEF Lingers, Ended
    <2>5. pc'[k] # "returned"
      BY <1>6 DEF Ended
    <2>6. UNCHANGED Promise!vars
      BY <1>1, <2>2, <2>3, <2>4, <2>5, SilentStep
    <2>7. QED
      BY <2>6
  <1>7. QED
    BY <1>4, <1>5, <1>6 DEF Ended

LEMMA BeginMaps ==
  ASSUME IInv, IInv', AtLeastOneAttempt, NEW k \in Calls,
         CallStore(k) \/ CallRetrieve(k) \/ CallDelete(k)
  PROVE  Promise!Begin(k)
  <1>1. PICK args \in StoreCalls \cup RetrieveCalls \cup DeleteCalls :
          \E first \in PCs \ (Ended \cup {"idle"}) : Begin(k, args, first)
    BY DEF CallStore, CallRetrieve, CallDelete, PCs, Ended
  <1>2. /\ NextOf(k) /\ pc[k] = "idle" /\ pc'[k] \notin Ended \cup {"idle"}
        /\ call' = [call EXCEPT ![k] = args] /\ UNCHANGED archive
        /\ overlap' = [j \in Calls |->
             IF j = k
             THEN \E i \in Calls \ {k} :
                    pc[i] # "idle" /\ call[i].chunk = args.chunk /\ Live(i)
             ELSE overlap[j] \/ (pc[j] # "idle" /\ call[j].chunk = args.chunk)]
    BY <1>1 DEF NextOf, Begin, Goto, IInv, TypeOK
  <1>3. args \in Promise!Args
    BY DEF Promise!Args, StoreCalls, RetrieveCalls, DeleteCalls
  <1>4. Status(k)' = "pending" /\ Statuses[k] = "idle"
    BY <1>2 DEF Status, Statuses, Ended
  <1>5. Results' = Results
    BY MappedStep, <1>2 DEF Results, Ended
  <1>6. LingeringCalls' = LingeringCalls
    BY MappedStep, <1>2 DEF LingeringCalls, Lingers, Ended
  <1>7. \A i \in Calls : Statuses[i] # "idle" <=> pc[i] # "idle"
    BY DEF Statuses, Status, Ended
  <1>8. \A i \in Calls : pc[i] # "idle" => (Promise!Active(i) <=> Live(i))
    BY DEF Promise!Active, Statuses, Status, LingeringCalls, Lingers, Live, Ended
  <1> DEFINE rivals == {j \in Calls \ {k} : Statuses[j] # "idle" /\ call[j].chunk = args.chunk}
  <1>9. overlap' = [j \in Calls |->
          IF j = k THEN \E i \in rivals : Promise!Active(i) ELSE overlap[j] \/ j \in rivals]
    <2>1. (\E i \in rivals : Promise!Active(i)) <=>
            \E i \in Calls \ {k} : pc[i] # "idle" /\ call[i].chunk = args.chunk /\ Live(i)
      BY <1>7, <1>8
    <2>2. \A j \in Calls \ {k} : j \in rivals <=> (pc[j] # "idle" /\ call[j].chunk = args.chunk)
      BY <1>7
    <2>3. QED
      BY <1>2, <2>1, <2>2
  <1>10. QED
    BY MappedStep, <1>2, <1>3, <1>4, <1>5, <1>6, <1>9 DEF Promise!Begin

LEMMA ForgetMaps ==
  ASSUME IInv, NEW k \in Calls, Forget(k)
  PROVE  Promise!Forget(k)
  <1>1. /\ NextOf(k) /\ pc[k] \in Ended /\ ~Live(k) /\ pc'[k] = "idle"
        /\ call' = [call EXCEPT ![k] = Idle] /\ overlap' = [overlap EXCEPT ![k] = FALSE]
        /\ UNCHANGED archive
    BY DEF NextOf, Forget, Goto, IInv, TypeOK
  <1>2. Statuses[k] \in {"returned", "threw"} /\ Status(k)' = "idle"
    BY <1>1 DEF Statuses, Status, Ended
  <1>3. k \notin LingeringCalls /\ ~Lingers(k)'
    BY <1>1 DEF LingeringCalls, Lingers, Ended
  <1>4. LingeringCalls' = LingeringCalls
    <2>1. LingeringCalls' = LingeringCalls \ {k}
      BY MappedStep, <1>1, <1>3
    <2>2. QED
      BY <2>1, <1>3
  <1>5. Idle = Promise!Idle
    BY DEF Idle, Promise!Idle
  <1>6. QED
    BY MappedStep, <1>1, <1>2, <1>3, <1>4, <1>5 DEF Promise!Forget

LEMMA InterruptMaps ==
  ASSUME IInv, NEW k \in Calls, Interrupt(k)
  PROVE  Promise!Throw(k)
  <1>1. /\ NextOf(k) /\ pc[k] \in {"await1", "await2", "attempt", "dsmcdelete"}
        /\ pc'[k] = "cut" /\ UNCHANGED <<call, overlap, archive>>
    BY DEF NextOf, Interrupt, Goto, IInv, TypeOK
  <1>2. QED
    BY <1>1, ThrowStep DEF Status, Ended

LEMMA CrashMaps ==
  ASSUME IInv, Crash
  PROVE  Promise!Stop
  <1>1. \A k \in Calls : pc'[k] = IF pc[k] \in Ended \cup {"idle"} THEN pc[k] ELSE "cut"
    BY DEF Crash
  <1>2. Statuses' = [k \in Calls |-> IF Statuses[k] = "pending" THEN "threw" ELSE Statuses[k]]
    BY <1>1 DEF Statuses, Status, Ended
  <1>3. LingeringCalls' \in SUBSET {k \in Calls : Promise!Active(k)}
    <2>1. ASSUME NEW k \in Calls, Lingers(k)' PROVE Promise!Active(k)
      <3>1. Live(k) /\ pc[k] # "idle"
        BY <1>1, <2>1, CrashLive DEF Lingers, Ended
      <3>2. QED
        BY <3>1 DEF Promise!Active, Statuses, Status, LingeringCalls, Lingers, Ended
    <2>2. QED
      BY <2>1 DEF LingeringCalls
  <1>4. Results' = Results
    BY <1>1 DEF Results, Ended, Crash
  <1>5. QED
    BY <1>2, <1>3, <1>4 DEF Promise!Stop, Crash

LEMMA InitMaps == Init => Promise!Init
  <1> SUFFICES ASSUME Init PROVE Promise!Init
    OBVIOUS
  <1>1. Statuses = [k \in Calls |-> "idle"]
    BY DEF Init, Statuses, Status
  <1>2. Results = [k \in Calls |-> NoFile]
    BY DEF Init, Results
  <1>3. LingeringCalls = {}
    BY DEF Init, LingeringCalls, Lingers, Ended
  <1>4. QED
    BY <1>1, <1>2, <1>3 DEF Init, Promise!Init, Idle, Promise!Idle

\* TivoliStorageManager implements ReplicatedStore: whatever the schedule of calls and
\* trackers, the retries and the crashes, its callers see what the abstract store
\* allows and nothing else.
THEOREM Refinement ==
  ASSUME AtLeastOneAttempt, NoJvmErrors
  PROVE  Spec => KeepsPromise
  <1>1. ASSUME IInv, IInv', [Next]_vars PROVE [Promise!Next]_(Promise!vars)
    <2>1. ASSUME NEW k \in Calls, NextOf(k) PROVE Promise!Next \/ UNCHANGED Promise!vars
      BY <1>1, <2>1, BeginMaps, CallStepMaps, TrackerStepMaps, InterruptMaps, ForgetMaps
      DEF NextOf, Promise!Next
    <2>2. CASE Crash
      BY <1>1, <2>2, CrashMaps DEF Promise!Next
    <2>3. CASE UNCHANGED vars
      <3>1. Statuses' = Statuses /\ Results' = Results
        BY <2>3 DEF vars, Statuses, Status, Results
      <3>2. LingeringCalls' = LingeringCalls
        BY <2>3 DEF vars, LingeringCalls, Lingers, Live, TrackerLive
      <3>3. QED
        BY <2>3, <3>1, <3>2 DEF vars, Promise!vars
    <2>4. QED
      BY <1>1, <2>1, <2>2, <2>3 DEF Next
  <1>2. QED
    BY <1>1, InitMaps, Invariance, PTL DEF Spec, KeepsPromise, Promise!Spec
=============================================================================
