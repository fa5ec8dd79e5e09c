-------------------------- MODULE EncryptionProofs --------------------------
(***************************************************************************)
(* Proofs about the two parts of Encryption: FileCrypto, for every size of *)
(* the chunk, the buffer, the block and the tag; and KeyStoreFile, for any *)
(* number of runs, aliases, entries and keys, and any lists.               *)
(***************************************************************************)
EXTENDS FileCrypto, KeyStoreFile, TLAPS

(***************************************************************************)
(* FileCrypto.                                                             *)
(***************************************************************************)
\* An update gives out part of what the cipher has, and never more.
LEMMA OutputBounds ==
  ASSUME NEW h \in Nat, NEW n \in Nat
  PROVE  UpdateOutput(h, n) \in 0..(h + n)
<1> DEFINE a == Available(h, n)
<1>1. a \in Nat /\ a <= h + n
  BY CryptoAssumption DEF Available
<1>2. a % Block \in 0..(Block - 1) /\ (a % Block) <= a
  <2>1. a % Block \in 0..(Block - 1)
    BY <1>1, CryptoAssumption
  <2>2. (a % Block) <= a
    <3>1. CASE a < Block
      BY <3>1, <1>1, CryptoAssumption
    <3>2. CASE a >= Block
      BY <3>2, <2>1, <1>1, CryptoAssumption
    <3> QED BY <3>1, <3>2, <1>1, CryptoAssumption
  <2> QED BY <2>1, <2>2
<1> QED BY <1>1, <1>2 DEF UpdateOutput

LEMMA InitIInv == Init => IInv
<1> SUFFICES ASSUME Init PROVE IInv
  OBVIOUS
<1>1. file \in Whole /\ Len(file.layers) = 0 /\ file.len = size /\ size \in Nat
  BY CryptoAssumption DEF Init, Whole, IVs
<1>2. TypeOK
  BY <1>1, CryptoAssumption DEF Init, TypeOK, PCs, Reasons, IVs
<1>3. Flow /\ Conserved /\ IVsKeptInTemp
  BY DEF Init, Flow, Conserved, IVsKeptInTemp
<1>4. NothingLost
  BY <1>1 DEF NothingLost
<1>5. LengthsFit
  BY <1>1, CryptoAssumption DEF LengthsFit, Init
<1>6. IVsKept
  BY <1>1, FilesAssumption DEF IVsKept, Survivor
<1> QED BY <1>2, <1>3, <1>4, <1>5, <1>6 DEF IInv

-----------------------------------------------------------------------------
\* What the temporary file is given is a whole file.
LEMMA ResultWhole ==
  ASSUME TypeOK, Flow, pc = "loop", left = 0,
         ~(op = "decrypt" /\ (~Fits(iv) \/ held < Tag))
  PROVE  Result \in Whole
<1>1. file \in Whole /\ iv \in IVs
  BY DEF TypeOK, Flow
<1>2. file.len \in Nat /\ file.layers \in Seq(IVs)
  BY <1>1 DEF Whole
<1>3. NewLayers \in Seq(IVs)
  <2>1. CASE op = "encrypt"
    BY <1>1, <1>2, <2>1 DEF NewLayers
  <2>2. CASE op = "decrypt"
    BY <1>2, <2>2 DEF NewLayers, Fits
  <2> QED BY <2>1, <2>2 DEF TypeOK
<1>4. (IF op = "encrypt" THEN written + held + Tag ELSE written + held - Tag) \in Nat
  BY CryptoAssumption DEF TypeOK
<1> QED BY <1>3, <1>4 DEF Result, Whole

LEMMA TypeStep ==
  ASSUME TypeOK, Flow, [Next]_vars
  PROVE  TypeOK'
<1> USE DEF TypeOK
<1>0. ASSUME NEW r \in Reasons, Ends(r), iv \in IVs
         PROVE  pc' \in PCs /\ why' \in Reasons /\ lost' \subseteq IVs
  BY <1>0 DEF Ends, PCs
<1>1. CASE EncryptFile
  BY <1>1, CryptoAssumption DEF EncryptFile, PCs, Reasons, env, stream, disk
<1>2. CASE DecryptFile
  BY <1>2, CryptoAssumption DEF DecryptFile, PCs, Reasons, env, stream, disk, ivs, IVs
<1>3. CASE NoKey
  BY <1>3, <1>0 DEF NoKey, Reasons, env, stream, disk, ivs, Flow
<1>4. CASE InitCipher
  BY <1>4, <1>0 DEF InitCipher, Reasons, PCs, env, stream, disk, ivs, Flow
<1>5. CASE OpenInput
  BY <1>5, <1>0 DEF OpenInput, Reasons, PCs, env, disk, ivs, Flow, Whole
<1>6. CASE OpenOutput
  BY <1>6 DEF OpenOutput, Reasons, PCs, env, ivs
<1>7. CASE ReadBuffer
  <2> DEFINE n == IF left < Buffer THEN left ELSE Buffer
             out == UpdateOutput(held, n)
  <2>1. n \in Nat /\ left - n \in Nat
    BY CryptoAssumption
  <2>2. out \in Nat /\ held + n - out \in Nat
    <3>1. out \in 0..(held + n)
      BY <2>1, OutputBounds
    <3> HIDE DEF out, n
    <3> QED BY <3>1, <2>1
  <2>3. left' = left - n /\ written' = written + out /\ held' = held + n - out
    BY <1>7 DEF ReadBuffer
  <2>4. left' \in Nat /\ written' \in Nat /\ held' \in Nat
    <3> HIDE DEF out, n
    <3> QED BY <2>1, <2>2, <2>3
  <2>5. pc' \in PCs /\ why' \in Reasons /\ lost' \subseteq IVs
    BY <1>7, <1>0 DEF ReadBuffer, Reasons, Flow
  <2> QED BY <1>7, <2>4, <2>5 DEF ReadBuffer, env, disk, ivs
<1>8. CASE Finish
  BY <1>8, <1>0, ResultWhole DEF Finish, Reasons, PCs, env, stream, ivs, Flow
<1>9. CASE DeleteFile
  BY <1>9 DEF DeleteFile, Reasons, PCs, env, stream, ivs
<1>10. CASE MoveFile
  BY <1>10, <1>0 DEF MoveFile, Reasons, PCs, env, stream, disk, ivs, Flow
<1>11. CASE ReturnIV
  BY <1>11 DEF ReturnIV, Reasons, PCs, env, stream, disk, Flow
<1>12. CASE IOFails
  BY <1>12, <1>0 DEF IOFails, Reasons, PCs, env, stream, disk, ivs, Flow
<1>13. CASE Crash
  BY <1>13, <1>0 DEF Crash, Reasons, PCs, env, stream, disk, ivs, Flow
<1>14. CASE UNCHANGED vars
  BY <1>14 DEF vars
<1> QED BY <1>1, <1>2, <1>3, <1>4, <1>5, <1>6, <1>7, <1>8, <1>9, <1>10,
           <1>11, <1>12, <1>13, <1>14 DEF Next

\* The order of the steps on the two files is what keeps the chunk whole.
LEMMA DurableStep ==
  ASSUME TypeOK, Flow, NothingLost, [Next]_vars
  PROVE  Flow' /\ NothingLost'
<1> USE DEF TypeOK, Flow, NothingLost
<1>1. CASE EncryptFile
  BY <1>1, CryptoAssumption DEF EncryptFile, disk, IVs
<1>2. CASE DecryptFile
  BY <1>2 DEF DecryptFile, disk
<1>3. CASE NoKey
  BY <1>3 DEF NoKey, disk, Ends
<1>4. CASE InitCipher
  BY <1>4 DEF InitCipher, disk, Ends
<1>5. CASE OpenInput
  BY <1>5 DEF OpenInput, disk, Ends
<1>6. CASE OpenOutput
  BY <1>6 DEF OpenOutput
<1>7. CASE ReadBuffer
  BY <1>7 DEF ReadBuffer, disk, Ends
<1>8. CASE Finish
  BY <1>8, ResultWhole DEF Finish, Ends
<1>9. CASE DeleteFile
  BY <1>9 DEF DeleteFile
<1>10. CASE MoveFile
  BY <1>10 DEF MoveFile, Ends, disk
<1>11. CASE ReturnIV
  BY <1>11 DEF ReturnIV, disk
<1>12. CASE IOFails
  BY <1>12 DEF IOFails, disk, Ends
<1>13. CASE Crash
  BY <1>13 DEF Crash, disk, Ends
<1>14. CASE UNCHANGED vars
  BY <1>14 DEF vars
<1> QED BY <1>1, <1>2, <1>3, <1>4, <1>5, <1>6, <1>7, <1>8, <1>9, <1>10,
           <1>11, <1>12, <1>13, <1>14 DEF Next

-----------------------------------------------------------------------------
LEMMA Distributes ==
  ASSUME NEW l \in Nat
  PROVE  Tag * (l + 1) = Tag * l + Tag
BY CryptoAssumption

LEMMA ConservedStep ==
  ASSUME TypeOK, Flow, Conserved, [Next]_vars
  PROVE  Conserved'
<1> USE DEF Conserved
<1>1. CASE OpenInput
  BY <1>1 DEF OpenInput, disk, Ends
<1>2. CASE OpenOutput
  BY <1>2 DEF OpenOutput, TypeOK, Flow, Whole
<1>3. CASE ReadBuffer
  <2> DEFINE n == IF left < Buffer THEN left ELSE Buffer
             out == UpdateOutput(held, n)
  <2>1. n \in Nat /\ held \in Nat /\ written \in Nat /\ left \in Nat
    BY CryptoAssumption DEF TypeOK
  <2>2. out \in Nat
    <3>1. out \in 0..(held + n)
      BY <2>1, OutputBounds
    <3> HIDE DEF out, n
    <3> QED BY <3>1, <2>1
  <2>3. left' = left - n /\ written' = written + out /\ held' = held + n - out
    BY <1>3 DEF ReadBuffer
  <2>4. written' + held' + left' = written + held + left
    <3> HIDE DEF out, n
    <3> QED BY <2>1, <2>2, <2>3
  <2> QED BY <1>3, <2>4 DEF ReadBuffer, disk, Ends
<1>4. CASE Finish
  BY <1>4 DEF Finish, Ends
<1>5. CASE ~(OpenInput \/ OpenOutput \/ ReadBuffer \/ Finish)
  BY <1>5 DEF Next, vars, EncryptFile, DecryptFile, NoKey, InitCipher, DeleteFile,
              MoveFile, ReturnIV, IOFails, Crash, Ends, disk, stream
<1> QED BY <1>1, <1>2, <1>3, <1>4, <1>5

LEMMA LengthsStep ==
  ASSUME TypeOK, Flow, Conserved, LengthsFit, [Next]_vars
  PROVE  LengthsFit'
<1> DEFINE Fit(f) == f \notin {NoFile, Partial} => f.len = size + Tag * Len(f.layers)
<1>1. Fit(file) /\ Fit(temp) /\ size' = size
  BY DEF LengthsFit, Next, vars, EncryptFile, DecryptFile, NoKey, InitCipher, OpenInput,
         OpenOutput, ReadBuffer, Finish, DeleteFile, MoveFile, ReturnIV, IOFails, Crash, env
<1>2. CASE Finish /\ pc' = "delete"
  <2>1. file \in Whole /\ file # NoFile /\ file # Partial
    BY <1>2, FilesAssumption DEF TypeOK, Flow, Finish
  <2>2. file.len = size + Tag * Len(file.layers) /\ file.len = written + held
    BY <1>1, <1>2, <2>1 DEF Conserved, Finish, TypeOK, Whole
  <2>3. Len(file.layers) \in Nat /\ file.layers \in Seq(IVs) /\ iv \in IVs
    BY <2>1, <1>2 DEF Whole, Flow, Finish
  <2>4. Result.len = size + Tag * Len(Result.layers)
    <3>1. CASE op = "encrypt"
      <4>1. Len(Result.layers) = Len(file.layers) + 1
        BY <3>1, <2>3 DEF Result, NewLayers
      <4>2. Result.len = written + held + Tag
        BY <3>1 DEF Result
      <4>3. Tag * Len(Result.layers) = Tag * Len(file.layers) + Tag
        BY <4>1, <2>3, Distributes
      <4> QED BY <4>2, <4>3, <2>2, <2>3, CryptoAssumption DEF TypeOK
    <3>2. CASE op = "decrypt"
      <4>0. Len(file.layers) > 0
        BY <3>2, <1>2 DEF Finish, Fits, Ends
      <4>1. Len(Result.layers) = Len(file.layers) - 1 /\ Len(file.layers) - 1 \in Nat
        BY <3>2, <4>0, <2>3 DEF Result, NewLayers
      <4>2. Result.len = written + held - Tag
        BY <3>2 DEF Result
      <4>3. Tag * Len(file.layers) = Tag * Len(Result.layers) + Tag
        <5> DEFINE l == Len(file.layers) - 1
        <5>1. Tag * (l + 1) = Tag * l + Tag
          BY <4>1, Distributes
        <5>2. l + 1 = Len(file.layers)
          BY <2>3
        <5> QED BY <5>1, <5>2, <4>1
      <4> QED BY <4>1, <4>2, <4>3, <2>2, <2>3, CryptoAssumption DEF TypeOK
    <3> QED BY <3>1, <3>2 DEF TypeOK
  <2>5. file' = file /\ temp' = Result
    BY <1>2 DEF Finish, Ends
  <2> QED BY <1>1, <2>4, <2>5 DEF LengthsFit
<1>3. CASE /\ ~(Finish /\ pc' = "delete")
  <2>1. file' \in {file, temp, NoFile} /\ temp' \in {temp, NoFile, Partial}
    BY <1>3 DEF Next, vars, EncryptFile, DecryptFile, NoKey, InitCipher, OpenInput,
         OpenOutput, ReadBuffer, Finish, DeleteFile, MoveFile, ReturnIV, IOFails, Crash, disk
  <2> QED BY <1>1, <2>1 DEF LengthsFit
<1> QED BY <1>2, <1>3

-----------------------------------------------------------------------------
\* A file with the IVs of another one, and perhaps of one more call.
Accounted(f, s) == \A j \in 1..Len(f.layers) : f.layers[j] \in s

\* The call that ends moves its IV, if its input is gone, to the lost ones.
LEMMA EndsAccounts ==
  ASSUME NEW r, Ends(r), known' = known
  PROVE  known' \cup lost' \cup InFlight' = known \cup lost \cup InFlight
<1>1. InFlight' = {}
  BY DEF Ends, InFlight, InputGone
<1>2. lost' = lost \cup InFlight
  BY DEF Ends, InFlight
<1> QED BY <1>1, <1>2

LEMMA NewLayersAccounted ==
  ASSUME TypeOK, Flow, pc = "loop", op = "decrypt" => Fits(iv),
         NEW S, Accounted(file, S)
  PROVE  Accounted(Result, S \cup (IF op = "encrypt" THEN {iv} ELSE {}))
<1>1. file.layers \in Seq(IVs) /\ Len(file.layers) \in Nat
  BY DEF TypeOK, Flow, Whole
<1>2. Result.layers = NewLayers
  BY DEF Result
<1>3. CASE op = "encrypt"
  <2>1. /\ Len(NewLayers) = Len(file.layers) + 1
        /\ \A j \in 1..Len(file.layers) : NewLayers[j] = file.layers[j]
        /\ NewLayers[Len(file.layers) + 1] = iv
    BY <1>1, <1>3 DEF NewLayers, TypeOK
  <2> QED BY <1>1, <1>2, <1>3, <2>1 DEF Accounted
<1>4. CASE op = "decrypt"
  <2>1. Len(file.layers) > 0
    BY <1>4 DEF Fits
  <2>2. /\ Len(NewLayers) = Len(file.layers) - 1
        /\ \A j \in 1..(Len(file.layers) - 1) : NewLayers[j] = file.layers[j]
    BY <1>1, <1>4, <2>1 DEF NewLayers
  <2> QED BY <1>1, <1>2, <1>4, <2>1, <2>2 DEF Accounted
<1> QED BY <1>3, <1>4 DEF TypeOK

LEMMA IVsStep ==
  ASSUME TypeOK, Flow, NothingLost, IVsKept, IVsKeptInTemp, [Next]_vars
  PROVE  IVsKept' /\ IVsKeptInTemp'
<1>0. Accounted(Survivor, known \cup lost \cup InFlight)
  BY DEF IVsKept, Accounted
<1>1. ASSUME NEW r \in Reasons, Ends(r), UNCHANGED disk, UNCHANGED known
      PROVE  IVsKept' /\ IVsKeptInTemp'
  <2>1. Survivor' = Survivor
    BY <1>1 DEF Survivor, disk
  <2>2. known' \cup lost' \cup InFlight' = known \cup lost \cup InFlight
    BY <1>1, EndsAccounts
  <2>3. IVsKeptInTemp'
    BY <1>1 DEF Ends, IVsKeptInTemp
  <2> QED BY <1>0, <2>1, <2>2, <2>3 DEF IVsKept, Accounted
<1>2. ASSUME UNCHANGED <<disk, known, lost>>, InFlight = {}, InFlight' = {},
             pc' \notin {"delete", "move"}
      PROVE  IVsKept' /\ IVsKeptInTemp'
  BY <1>2 DEF IVsKept, IVsKeptInTemp, Survivor, disk
<1>3. CASE EncryptFile \/ DecryptFile
  BY <1>2, <1>3 DEF EncryptFile, DecryptFile, InFlight, InputGone, ivs
<1>4. CASE NoKey \/ IOFails \/ Crash
  BY <1>1, <1>4 DEF NoKey, IOFails, Crash, ivs, Reasons
<1>5. CASE InitCipher
  BY <1>1, <1>2, <1>5 DEF InitCipher, InFlight, InputGone, ivs, Reasons
<1>6. CASE OpenInput
  BY <1>1, <1>2, <1>6 DEF OpenInput, InFlight, InputGone, ivs, Reasons
<1>7. CASE OpenOutput
  <2>1. Survivor' = Survivor /\ InFlight' = InFlight /\ pc' = "loop"
    BY <1>7 DEF OpenOutput, Survivor, InFlight, InputGone, Flow
  <2> QED BY <1>7, <2>1 DEF OpenOutput, ivs, IVsKept, IVsKeptInTemp
<1>8. CASE ReadBuffer
  BY <1>1, <1>2, <1>8 DEF ReadBuffer, InFlight, InputGone, ivs, Reasons
<1>9. CASE Finish
  <2>1. CASE op = "decrypt" /\ (~Fits(iv) \/ held < Tag)
    BY <1>1, <1>9, <2>1 DEF Finish, ivs, Reasons, disk
  <2>2. CASE ~(op = "decrypt" /\ (~Fits(iv) \/ held < Tag))
    <3>1. Survivor = file /\ Survivor' = Survivor /\ InFlight = {} /\ InFlight' = {}
      BY <1>9, <2>2 DEF Finish, Survivor, InFlight, InputGone, Flow
    <3>2. Accounted(file, known \cup lost)
      BY <1>0, <3>1
    <3>3. Accounted(Result, (known \cup lost) \cup (IF op = "encrypt" THEN {iv} ELSE {}))
      BY <3>2, <1>9, <2>2, NewLayersAccounted DEF Finish
    <3>4. /\ temp' = Result /\ UNCHANGED <<op, iv, known, lost>>
      BY <1>9, <2>2 DEF Finish, ivs
    <3> QED BY <1>0, <3>1, <3>3, <3>4 DEF IVsKept, IVsKeptInTemp, Accounted
  <2> QED BY <2>1, <2>2
<1>10. CASE DeleteFile
  <2>1. UNCHANGED <<op, iv, temp, known, lost>> /\ pc = "delete" /\ pc' = "move"
    BY <1>10 DEF DeleteFile, ivs
  <2>2. IVsKeptInTemp'
    BY <2>1 DEF IVsKeptInTemp
  <2>3. CASE file' = file
    <3>1. Survivor' = Survivor /\ InFlight = {} /\ InFlight' = {}
      BY <2>1, <2>3 DEF Survivor, InFlight, InputGone, Flow
    <3> QED BY <2>1, <2>2, <3>1 DEF IVsKept
  <2>4. CASE file' = NoFile
    <3>1. Survivor' = temp /\ InFlight' = (IF op = "encrypt" THEN {iv} ELSE {})
      BY <2>1, <2>4 DEF Survivor, InFlight, InputGone
    <3> QED BY <2>1, <2>2, <3>1 DEF IVsKept, IVsKeptInTemp
  <2> QED BY <1>10, <2>3, <2>4 DEF DeleteFile
<1>11. CASE MoveFile
  <2>1. CASE file # NoFile
    BY <1>1, <1>11, <2>1 DEF MoveFile, ivs, Reasons
  <2>2. CASE file = NoFile
    <3>1. temp # NoFile
      BY <1>11, FilesAssumption DEF MoveFile, Flow
    <3>2. /\ UNCHANGED <<op, iv, known, lost>> /\ file' = temp /\ pc' = "moved" /\ pc = "move"
      BY <1>11, <2>2 DEF MoveFile, ivs
    <3>3. Survivor' = Survivor /\ InFlight' = InFlight
      BY <2>2, <3>1, <3>2 DEF Survivor, InFlight, InputGone
    <3> QED BY <3>2, <3>3 DEF IVsKept, IVsKeptInTemp
  <2> QED BY <2>1, <2>2
<1>12. CASE ReturnIV
  <2>1. Survivor' = Survivor /\ lost' = lost /\ known' = known \cup {iv} /\ pc' = "idle"
    BY <1>12 DEF ReturnIV, Survivor, disk
  <2>2. (known \cup lost \cup InFlight) \subseteq (known' \cup lost' \cup InFlight')
    BY <2>1 DEF InFlight
  <2> QED BY <2>1, <2>2 DEF IVsKept, IVsKeptInTemp
<1>13. CASE UNCHANGED vars
  BY <1>13 DEF vars, IVsKept, IVsKeptInTemp, Survivor, InFlight, InputGone
<1> QED BY <1>3, <1>4, <1>5, <1>6, <1>7, <1>8, <1>9, <1>10, <1>11, <1>12, <1>13
        DEF Next

LEMMA StepIInv == IInv /\ [Next]_vars => IInv'
BY TypeStep, DurableStep, ConservedStep, LengthsStep, IVsStep DEF IInv

THEOREM Invariance == Spec => []IInv
<1>1. Init => IInv
  BY InitIInv
<1>2. IInv /\ [Next]_vars => IInv'
  BY StepIInv
<1> QED BY <1>1, <1>2, PTL DEF Spec

\* Nothing but the temporary file is ever half written.
THEOREM TypeCorrect == Spec => []TypeOK
<1>1. IInv => TypeOK
  BY DEF IInv
<1> QED BY <1>1, Invariance, PTL

\* The chunk survives every failure, crash and new attempt, whole, under one of
\* the two names.
THEOREM Durability == Spec => []NothingLost
<1>1. IInv => NothingLost
  BY DEF IInv
<1> QED BY <1>1, Invariance, PTL

\* The caller can decrypt it unless a call was cut short after its input was gone.
THEOREM IVsAreKept == Spec => []IVsKept
<1>1. IInv => IVsKept
  BY DEF IInv
<1> QED BY <1>1, Invariance, PTL

\* The read loop and doFinal drop no byte, whatever the sizes of chunk, buffer,
\* block and tag.
THEOREM NoByteDropped == Spec => []LengthsFit
<1>1. IInv => LengthsFit
  BY DEF IInv
<1> QED BY <1>1, Invariance, PTL

-----------------------------------------------------------------------------
\* Multiples of m stay multiples when m is added or taken away.
LEMMA Multiples ==
  ASSUME NEW m \in Nat \ {0}, NEW a \in Nat, a % m = 0
  PROVE  (a + m) % m = 0 /\ (a >= m => (a - m) % m = 0)
<1> DEFINE q == a \div m
<1>1. q \in Nat /\ a = m * q
  BY SMT
<1> HIDE DEF q
<1>2. a + m = m * (q + 1)
  BY <1>1, SMT
<1>3. (a + m) % m = 0
  <2>1. (m * (q + 1)) % m = 0
    BY <1>1, SMT
  <2> QED BY <2>1, <1>2
<1>4. CASE a >= m
  <2>1. q - 1 \in Nat
    BY <1>4, <1>1, SMT
  <2>2. a - m = m * (q - 1)
    BY <1>1, SMT
  <2>3. (m * (q - 1)) % m = 0
    BY <2>1, SMT
  <2> QED BY <2>2, <2>3, <1>3
<1> QED BY <1>3, <1>4

LEMMA Remainder ==
  ASSUME NEW m \in Nat \ {0}, NEW a \in Nat, a % m = 0, NEW b \in Nat, b < m
  PROVE  (a + b) % m = b
  BY SMT

\* Whole blocks of a bytes: none if they do not fill one.
LEMMA WholeBlocks ==
  ASSUME NEW m \in Nat \ {0}, NEW a \in Nat
  PROVE  (a - (a % m) = 0) <=> a < m
<1>1. CASE a < m
  BY <1>1, SMT
<1>2. CASE a >= m
  BY <1>2, SMT
<1> QED BY <1>1, <1>2

\* What one round of the read loop makes the cipher give out.
LEMMA FullRead ==
  ASSUME BlocksFill, TypeOK, Flow, Conserved, EvenReads,
         pc = "loop", left > 0, left >= Buffer
  PROVE  /\ UpdateOutput(held, Buffer) # 0
         /\ held + Buffer - UpdateOutput(held, Buffer) = IF op = "decrypt" THEN Tag ELSE 0
<1>1. /\ file \in Whole /\ file.len \in Nat /\ left \in Nat /\ left <= file.len
      /\ op \in {"encrypt", "decrypt"}
  BY DEF TypeOK, Flow, Conserved, Whole
<1>2. /\ Buffer \in Nat \ {0} /\ Block \in Nat \ {0} /\ Tag = Block /\ Buffer >= 2 * Block
      /\ Buffer % Block = 0
  BY CryptoAssumption DEF BlocksFill
<1>3. /\ (file.len - left) % Buffer = 0
      /\ held = IF op = "decrypt" /\ left # file.len THEN Tag ELSE 0
  BY DEF EvenReads
<1>4. (Buffer - Block) % Block = 0
  <2>1. Buffer \in Nat /\ Buffer >= Block
    BY <1>2
  <2> QED BY <2>1, <1>2, Multiples
<1>5. UpdateOutput(held, Buffer) # 0
      /\ held + Buffer - UpdateOutput(held, Buffer) = IF op = "decrypt" THEN Tag ELSE 0
  <2>1. CASE op = "encrypt"
    BY <2>1, <1>2, <1>3 DEF UpdateOutput, Available
  <2>2. CASE op = "decrypt" /\ left = file.len
    BY <2>2, <1>2, <1>3, <1>4 DEF UpdateOutput, Available
  <2>3. CASE op = "decrypt" /\ left # file.len
    BY <2>3, <1>2, <1>3 DEF UpdateOutput, Available
  <2> QED BY <2>1, <2>2, <2>3, <1>1
<1> QED BY <1>5

LEMMA LastRead ==
  ASSUME BlocksFill, TypeOK, Flow, Conserved, EvenReads,
         pc = "loop", left > 0, left < Buffer
  PROVE  UpdateOutput(held, left) = 0 <=> ShortTail
<1>1. /\ file \in Whole /\ file.len \in Nat /\ left \in Nat /\ left <= file.len
      /\ op \in {"encrypt", "decrypt"}
  BY DEF TypeOK, Flow, Conserved, Whole
<1>2. /\ Buffer \in Nat \ {0} /\ Block \in Nat \ {0} /\ Tag = Block /\ Buffer >= 2 * Block
  BY CryptoAssumption DEF BlocksFill
<1>3. /\ (file.len - left) % Buffer = 0
      /\ held = IF op = "decrypt" /\ left # file.len THEN Tag ELSE 0
  BY DEF EvenReads
<1>4. file.len % Buffer = left
  <2> DEFINE a == file.len - left
  <2>1. a \in Nat /\ a + left = file.len /\ a % Buffer = 0
    BY <1>1, <1>3
  <2> HIDE DEF a
  <2> QED BY <2>1, <1>1, <1>2, Remainder
<1>5. left # file.len => file.len > Buffer
  <2> DEFINE a == file.len - left
  <2>1. a \in Nat /\ a + left = file.len /\ a % Buffer = 0
    BY <1>1, <1>3
  <2> HIDE DEF a
  <2>2. a < Buffer => a = 0
    BY <2>1, <1>2, WholeBlocks
  <2> QED BY <2>1, <2>2, <1>1, <1>2
<1>6. Available(held, left) \in Nat
  BY <1>1, <1>2, <1>3 DEF Available
<1>7. UpdateOutput(held, left) = 0 <=> Available(held, left) < Block
  <2> DEFINE a == Available(held, left)
  <2>1. a \in Nat /\ UpdateOutput(held, left) = a - (a % Block)
    BY <1>6 DEF UpdateOutput
  <2> HIDE DEF a
  <2>2. UpdateOutput(held, left) = 0 <=> a < Block
    BY <2>1, <1>2, WholeBlocks
  <2> QED BY <2>2 DEF a
<1>8. CASE op = "encrypt"
  BY <1>1, <1>2, <1>3, <1>4, <1>7, <1>8 DEF Available, ShortTail
<1>9. CASE op = "decrypt" /\ left = file.len
  <2>1. Available(held, left) < Block <=> left < Tag + Block
    <3>1. held = 0 /\ op # "encrypt"
      BY <1>3, <1>9
    <3>2. CASE left < Tag
      <4>1. Available(held, left) = 0
        BY <1>1, <1>2, <3>1, <3>2 DEF Available
      <4> QED BY <4>1, <3>2, <1>1, <1>2
    <3>3. CASE left >= Tag
      <4>1. Available(held, left) = left - Tag
        BY <1>1, <1>2, <3>1, <3>3 DEF Available
      <4> QED BY <4>1, <3>3, <1>1, <1>2
    <3> QED BY <3>2, <3>3, <1>1, <1>2
  <2>2. ShortTail <=> left < Tag + Block
    BY <1>1, <1>2, <1>9 DEF ShortTail
  <2> QED BY <2>1, <2>2, <1>1, <1>2, <1>7
<1>10. CASE op = "decrypt" /\ left # file.len
  <2>1. Available(held, left) = left
    BY <1>1, <1>2, <1>3, <1>10 DEF Available
  <2>2. ShortTail <=> left \in 1 .. Block - 1
    <3> DEFINE tail == file.len % Buffer
    <3>1. tail = left
      BY <1>4
    <3>2. ShortTail <=> tail \in 1 .. Block - 1
      <4>1. ~(file.len <= Buffer)
        BY <1>1, <1>2, <1>5, <1>10
      <4> HIDE DEF tail
      <4> QED BY <4>1, <1>10 DEF ShortTail, tail
    <3> QED BY <3>1, <3>2
  <2> QED BY <2>1, <2>2, <1>1, <1>2, <1>7
<1> QED BY <1>1, <1>8, <1>9, <1>10

LEMMA EvenReadsStep ==
  ASSUME BlocksFill, IInv, EvenReads, [Next]_vars
  PROVE  EvenReads'
<1> USE DEF EvenReads, NullOnlyAtShortTails
<1>0. TypeOK /\ Flow /\ Conserved /\ NothingLost
  BY DEF IInv
<1>1. CASE EncryptFile \/ DecryptFile \/ InitCipher \/ OpenInput
  BY <1>1, <1>0 DEF EncryptFile, DecryptFile, InitCipher, OpenInput, Ends, env, stream, disk,
     ivs
<1>2. CASE NoKey \/ IOFails \/ Crash
  BY <1>2, <1>0 DEF NoKey, IOFails, Crash, Ends, env, stream, disk, ivs
<1>3. CASE OpenOutput
  <2>1. left = file.len /\ file.len \in Nat
    BY <1>3, <1>0 DEF OpenOutput, Conserved, TypeOK, Flow, Whole
  <2>2. pc' = "loop" /\ held' = 0 /\ left' = left /\ file' = file /\ why' = why
    BY <1>3 DEF OpenOutput
  <2>3. (file.len - left) % Buffer = 0
    BY <2>1, CryptoAssumption
  <2>4. why # "null"
    BY <1>3 DEF OpenOutput
  <2> QED BY <2>1, <2>2, <2>3, <2>4
<1>4. CASE ReadBuffer
  <2>1. /\ pc = "loop" /\ left > 0 /\ left \in Nat /\ file # NoFile
        /\ file' = file /\ op' = op /\ why # "null"
        /\ file.len \in Nat /\ left <= file.len
    BY <1>4, <1>0 DEF ReadBuffer, TypeOK, Flow, Conserved, disk, Whole
  <2>2. ShortTail' <=> ShortTail
    BY <2>1 DEF ShortTail
  <2>3. CASE left < Buffer
    <3> DEFINE out == UpdateOutput(held, left)
    <3>1. left' = 0 /\ (IF out = 0 THEN Ends("null") ELSE UNCHANGED <<pc, why, lost>>)
      BY <1>4, <2>1, <2>3 DEF ReadBuffer
    <3>2. out = 0 <=> ShortTail
      BY <1>0, <2>1, <2>3, LastRead
    <3> HIDE DEF out
    <3> QED BY <2>1, <2>2, <3>1, <3>2 DEF Ends
  <2>4. CASE left >= Buffer
    <3> DEFINE out == UpdateOutput(held, Buffer)
    <3>1. /\ left' = left - Buffer /\ held' = held + Buffer - out
          /\ IF out = 0 THEN Ends("null") ELSE UNCHANGED <<pc, why, lost>>
      BY <1>4, <2>1, <2>4, CryptoAssumption DEF ReadBuffer
    <3>2. out # 0 /\ held + Buffer - out = (IF op = "decrypt" THEN Tag ELSE 0)
      BY <1>0, <2>1, <2>4, FullRead
    <3>3. (file.len - left') % Buffer = 0 /\ left' \in Nat /\ left' # file.len
      <4> DEFINE a == file.len - left
      <4>1. a \in Nat /\ file.len - left' = a + Buffer
        <5>1. Buffer \in Nat
          BY CryptoAssumption
        <5>2. left' = left - Buffer
          BY <3>1
        <5> QED BY <5>1, <5>2, <2>1
      <4>3. a % Buffer = 0
        BY <2>1
      <4>2. left' \in Nat /\ left' # file.len
        BY <2>1, <2>4, <3>1, CryptoAssumption
      <4> HIDE DEF a
      <4> QED BY <4>1, <4>2, <4>3, CryptoAssumption, Multiples
    <3> HIDE DEF out
    <3> QED BY <2>1, <2>2, <3>1, <3>2, <3>3
  <2> QED BY <2>1, <2>3, <2>4, CryptoAssumption
<1>5. CASE Finish
  <2>1. file' = file /\ op' = op /\ pc = "loop" /\ left = 0 /\ why # "null"
    BY <1>5 DEF Finish
  <2>2. ShortTail' <=> ShortTail
    BY <2>1 DEF ShortTail
  <2> QED BY <1>5, <2>1, <2>2, <1>0 DEF Finish, Ends
<1>6. CASE DeleteFile \/ MoveFile \/ ReturnIV
  BY <1>6, <1>0 DEF DeleteFile, MoveFile, ReturnIV, Ends, env, stream, disk, ivs
<1>7. CASE UNCHANGED vars
  <2>1. ShortTail' <=> ShortTail
    BY <1>7 DEF vars, ShortTail
  <2> QED BY <1>7, <2>1 DEF vars
<1> QED BY <1>1, <1>2, <1>3, <1>4, <1>5, <1>6, <1>7 DEF Next

\* The read loop throws for want of output only at the sizes that ShortTail names,
\* for every buffer that holds a whole number of blocks (Encryption.doCrypto).
THEOREM ShortTails ==
  ASSUME BlocksFill
  PROVE  Spec => []NullOnlyAtShortTails
<1>1. Init => EvenReads
  BY DEF Init, EvenReads, NullOnlyAtShortTails
<1>2. IInv /\ EvenReads /\ [Next]_vars => EvenReads'
  BY EvenReadsStep
<1>3. EvenReads => NullOnlyAtShortTails
  BY DEF EvenReads
<1> QED BY <1>1, <1>2, <1>3, Invariance, PTL DEF Spec

(***************************************************************************)
(* KeyStoreFile.                                                           *)
(***************************************************************************)
USE DEF Ended, Goto, Stores, Saving

\* The entry of the alias a run is at, and the key it made for it.
LEMMA AtAlias ==
  ASSUME KeyTypeOK, NEW r \in Runs, at[r] # "idle"
  PROVE  /\ aliases[r] \in Seq(Aliases) /\ Len(aliases[r]) \in Nat
         /\ i[r] \in 1..Len(aliases[r])
         /\ Entry(r) \in Entries
         /\ Saving(r) => keys[r][i[r]] \in Keys
<1>1. aliases[r] \in Seq(Aliases) /\ i[r] <= Len(aliases[r]) /\ i[r] \in Nat \ {0}
  BY KeyAssumption DEF KeyTypeOK, Counted
<1>2. i[r] \in 1..Len(aliases[r])
  BY <1>1
<1>3. Entry(r) \in Entries
  BY <1>1, <1>2, KeyAssumption DEF Entry
<1>4. Saving(r) => keys[r][i[r]] \in Keys
  <2>1. keys[r] \in Seq(Keys) /\ (Saving(r) => Len(keys[r]) = i[r])
    BY DEF KeyTypeOK, Counted
  <2> QED BY <2>1, <1>1
<1> QED BY <1>1, <1>2, <1>3, <1>4

LEMMA EmptyStore == Empty \in Stores
  BY DEF Empty

LEMMA KeyInitType == KeyInit => KeyTypeOK
<1> SUFFICES ASSUME KeyInit PROVE KeyTypeOK
  OBVIOUS
<1>1. last \in Stores /\ keystore \in Stores \cup {NoKeyStore, Torn}
  BY EmptyStore DEF KeyInit, FileOf
<1>2. ks \in [Runs -> Stores]
  BY EmptyStore DEF KeyInit
<1>3. keys \in [Runs -> Seq(Keys)] /\ aliases \in [Runs -> Lists \cup {<<>>}]
  BY DEF KeyInit
<1>4. \A r \in Runs : Counted(r)
  BY DEF KeyInit, Counted
<1>5. /\ mixed \in [Runs -> BOOLEAN] /\ error \in [Runs -> BOOLEAN]
      /\ alone \in [Runs -> BOOLEAN]
  BY DEF KeyInit
<1>6. /\ at \in [Runs -> {"idle", "load", "open", "write", "check"} \cup Ended]
      /\ i \in [Runs -> Nat \ {0}]
  BY DEF KeyInit
<1>7. cut \in BOOLEAN /\ raced \in BOOLEAN
  BY Zenon DEF KeyInit
<1> QED BY <1>1, <1>2, <1>3, <1>4, <1>5, <1>6, <1>7 DEF KeyTypeOK

LEMMA KeyTypeStep ==
  ASSUME KeyTypeOK, [KeyNext]_keyVars
  PROVE  KeyTypeOK'
<1> USE DEF KeyTypeOK
<1>1. CASE UNCHANGED keyVars
  BY <1>1 DEF keyVars, Counted
<1>2. ASSUME NEW r \in Runs, NEW l \in Lists, Begin(r, l)
      PROVE  KeyTypeOK'
  <2>1. l \in Seq(Aliases) /\ Len(l) >= 1
    BY KeyAssumption
  <2>2. \A q \in Runs : Counted(q)'
    BY <1>2, <2>1 DEF Begin, Counted
  <2> QED BY <1>2, <2>2 DEF Begin
<1>3. ASSUME NEW r \in Runs, Load(r)
      PROVE  KeyTypeOK'
  <2> USE <1>3 DEF Load
  <2>1. PICK k \in Keys :
          /\ keys' = [keys EXCEPT ![r] = Append(@, k)]
          /\ ks' = [ks EXCEPT ![r] = [IF keystore = NoKeyStore THEN Empty ELSE keystore
                                        EXCEPT ![Entry(r)] = k]]
    OBVIOUS
  <2>2. (IF keystore = NoKeyStore THEN Empty ELSE keystore) \in Stores
    BY EmptyStore
  <2>3. [IF keystore = NoKeyStore THEN Empty ELSE keystore EXCEPT ![Entry(r)] = k] \in Stores
    BY <2>2
  <2>4. ks' \in [Runs -> Stores]
    BY <2>1, <2>3
  <2>5. Append(keys[r], k) \in Seq(Keys) /\ Len(Append(keys[r], k)) = Len(keys[r]) + 1
    OBVIOUS
  <2>6. keys' \in [Runs -> Seq(Keys)]
    BY <2>1, <2>5
  <2>7. \A q \in Runs : Counted(q)'
    BY <2>1, <2>5 DEF Counted
  <2> QED BY <2>4, <2>6, <2>7
<1>4. ASSUME NEW r \in Runs, Open(r)
      PROVE  KeyTypeOK'
  BY <1>4 DEF Open, Counted
<1>5. ASSUME NEW r \in Runs, Write(r)
      PROVE  KeyTypeOK'
  <2> USE <1>5 DEF Write
  <2>1. /\ i[r] \in 1..Len(aliases[r]) /\ Len(aliases[r]) \in Nat
        /\ Entry(r) \in Entries /\ keys[r][i[r]] \in Keys
    BY AtAlias
  <2>2. last' \in Stores /\ keystore' \in Stores \cup {NoKeyStore, Torn}
    BY <2>1
  <2>3. i' \in [Runs -> Nat \ {0}]
    BY <2>1
  <2>4. \A q \in Runs : Counted(q)'
    BY <2>1 DEF Counted
  <2> QED BY <2>2, <2>3, <2>4
<1>6. ASSUME NEW r \in Runs, Check(r)
      PROVE  KeyTypeOK'
  <2> USE <1>6 DEF Check
  <2>1. i[r] \in 1..Len(aliases[r]) /\ Len(aliases[r]) \in Nat
    BY AtAlias
  <2>2. i' \in [Runs -> Nat \ {0}]
    BY <2>1
  <2>3. \A q \in Runs : Counted(q)'
    BY <2>1 DEF Counted
  <2>4. error' \in [Runs -> BOOLEAN]
    BY Zenon
  <2> QED BY <2>2, <2>3, <2>4
<1>7. ASSUME NEW r \in Runs, Fail(r)
      PROVE  KeyTypeOK'
  BY <1>7 DEF Fail, Counted
<1>8. ASSUME NEW r \in Runs, Forget(r)
      PROVE  KeyTypeOK'
  <2>1. ks' \in [Runs -> Stores]
    BY <1>8, EmptyStore DEF Forget
  <2>2. \A q \in Runs : Counted(q)'
    BY <1>8 DEF Forget, Counted
  <2> QED BY <1>8, <2>1, <2>2 DEF Forget
<1> QED BY <1>1, <1>2, <1>3, <1>4, <1>5, <1>6, <1>7, <1>8 DEF KeyNext

\* Every variable keeps its type; a run never leaves its list.
THEOREM KeyTypeCorrect == KeySpec => []KeyTypeOK
  BY KeyInitType, KeyTypeStep, PTL DEF KeySpec

-----------------------------------------------------------------------------
\* A file of keys is the keys: only the empty keystore is no file.
LEMMA FileOfLast ==
  ASSUME NEW s \in Stores
  PROVE  /\ FileOf(s) \in Stores \cup {NoKeyStore} /\ FileOf(s) # Torn
         /\ (IF FileOf(s) = NoKeyStore THEN Empty ELSE FileOf(s)) = s
         /\ (\E e \in Entries : s[e] # Missing) => FileOf(s) = s
  BY KeyAssumption DEF FileOf, Empty

LEMMA KeyInitInvariant == KeyInit => KeysInv
<1> SUFFICES ASSUME KeyInit PROVE KeysInv
  OBVIOUS
<1>1. KeyTypeOK
  BY KeyInitType
<1>2. OneSaver /\ Faithful
  BY DEF KeyInit, OneSaver, Faithful
<1>3. KeysKept
  BY DEF KeyInit, KeysKept
<1> QED BY <1>1, <1>2, <1>3 DEF KeysInv

LEMMA KeyInvariantStep ==
  ASSUME KeysInv, [KeyNext]_keyVars
  PROVE  KeysInv'
<1>1. KeyTypeOK /\ KeyTypeOK'
  BY KeyTypeStep DEF KeysInv
<1> SUFFICES (OneSaver /\ Faithful /\ KeysKept)'
  BY <1>1 DEF KeysInv
<1> SUFFICES ASSUME ~raced' PROVE (OneSaver /\ Faithful /\ KeysKept)'
  BY DEF OneSaver, Faithful, KeysKept
<1>2. raced => raced'
  BY DEF KeysInv, KeyNext, keyVars, Begin, Load, Open, Write, Check, Fail, Forget
<1>3. /\ \A p, q \in Runs : Saving(p) /\ Saving(q) => p = q
      /\ \A r \in Runs : ~mixed[r]
      /\ \A r \in Runs : Saving(r) =>
           ~cut /\ ks[r] = [last EXCEPT ![Entry(r)] = keys[r][i[r]]]
      /\ keystore = IF cut \/ \E r \in Runs : at[r] = "write" THEN Torn ELSE FileOf(last)
  BY <1>2 DEF KeysInv, OneSaver, Faithful, KeysKept
<1> USE <1>1 DEF KeyTypeOK, OneSaver, Faithful, KeysKept, Entry
<1>4. CASE UNCHANGED keyVars
  BY <1>3, <1>4 DEF keyVars
<1>5. ASSUME NEW r \in Runs, NEW l \in Lists, Begin(r, l)
      PROVE  (OneSaver /\ Faithful /\ KeysKept)'
  BY <1>3, <1>5 DEF Begin
<1>6. ASSUME NEW r \in Runs, Load(r)
      PROVE  (OneSaver /\ Faithful /\ KeysKept)'
  <2> USE <1>6 DEF Load
  <2>1. \A q \in Runs : ~Saving(q)
    OBVIOUS
  <2>2. keystore = FileOf(last) /\ ~cut
    BY <1>3, <2>1
  <2>3. PICK k \in Keys :
          /\ keys' = [keys EXCEPT ![r] = Append(@, k)]
          /\ ks' = [ks EXCEPT ![r] = [IF keystore = NoKeyStore THEN Empty ELSE keystore
                                        EXCEPT ![Entry(r)] = k]]
    OBVIOUS
  <2>4. ks'[r] = [last EXCEPT ![Entry(r)] = k]
    BY <2>2, <2>3, FileOfLast
  <2>5. keys'[r][i[r]] = k
    BY <2>3 DEF Counted
  <2>6. OneSaver'
    BY <2>1
  <2>7. Faithful'
    BY <1>3, <2>1, <2>2, <2>4, <2>5
  <2> QED BY <2>1, <2>2, <2>6, <2>7
<1>7. ASSUME NEW r \in Runs, Open(r)
      PROVE  (OneSaver /\ Faithful /\ KeysKept)'
  <2> USE <1>7 DEF Open
  <2>1. \A q \in Runs : at[q] # "write"
    BY <1>3
  <2>2. OneSaver'
    BY <1>3
  <2>3. Faithful'
    BY <1>3, <2>1
  <2> QED BY <2>2, <2>3
<1>8. ASSUME NEW r \in Runs, Write(r)
      PROVE  (OneSaver /\ Faithful /\ KeysKept)'
  <2> USE <1>8 DEF Write
  <2>1. \A q \in Runs : Saving(q) => q = r
    BY <1>3
  <2>2. keystore' = ks[r] /\ ~cut
    BY <1>3
  <2>3. ks[r] = last'
    BY <1>3
  <2>4. /\ Entry(r) \in Entries /\ keys[r][i[r]] \in Keys
    BY AtAlias
  <2>5. last'[Entry(r)] \in Keys
    BY <2>4
  <2>6. FileOf(last') = last'
    BY <2>4, <2>5, KeyAssumption DEF FileOf, Empty
  <2>7. \A q \in Runs : ~Saving(q)'
    BY <2>1
  <2> QED BY <1>3, <2>2, <2>3, <2>6, <2>7
<1>9. ASSUME NEW r \in Runs, Check(r)
      PROVE  (OneSaver /\ Faithful /\ KeysKept)'
  BY <1>3, <1>9 DEF Check
<1>10. ASSUME NEW r \in Runs, Fail(r)
       PROVE  (OneSaver /\ Faithful /\ KeysKept)'
  <2> USE <1>10 DEF Fail
  <2>1. OneSaver'
    BY <1>3
  <2>2. CASE at[r] = "write"
    <3>1. keystore' = Torn /\ cut'
      BY <1>3, <2>2
    <3>2. \A q \in Runs : ~Saving(q)'
      BY <1>3, <2>2
    <3>3. Faithful'
      BY <1>3, <3>2
    <3> QED BY <2>1, <3>1, <3>3
  <2>3. CASE at[r] # "write"
    <3>1. keystore' = keystore /\ cut' = cut
      BY <2>3, Zenon
    <3>2. \A q \in Runs : at'[q] = "write" <=> at[q] = "write"
      BY <2>3
    <3>3. Faithful'
      BY <1>3, <3>1
    <3> QED BY <1>3, <2>1, <3>1, <3>2, <3>3
  <2> QED BY <2>2, <2>3
<1>11. ASSUME NEW r \in Runs, Forget(r)
       PROVE  (OneSaver /\ Faithful /\ KeysKept)'
  BY <1>3, <1>11 DEF Forget
<1> QED BY <1>4, <1>5, <1>6, <1>7, <1>8, <1>9, <1>10, <1>11 DEF KeyNext

\* The inductive invariant of the keystore file.
THEOREM KeyInvariance == KeySpec => []KeysInv
  BY KeyInitInvariant, KeyInvariantStep, PTL DEF KeySpec

\* No key is lost to runs that fail, are stopped or come later, unless two saves
\* overlap or one is stopped while it writes.
THEOREM KeysAreKept == KeySpec => []KeysKept
<1>1. KeysInv => KeysKept
  BY DEF KeysInv
<1> QED BY <1>1, KeyInvariance, PTL

-----------------------------------------------------------------------------
LEMMA InitLone == KeyInit => Lone /\ Verified
  BY DEF KeyInit, Lone, Verified

LEMMA LoneStep ==
  ASSUME KeyTypeOK, Lone, [KeyNext]_keyVars
  PROVE  Lone'
<1> USE DEF KeyTypeOK, Lone, Idling
<1>1. CASE UNCHANGED keyVars
  BY <1>1 DEF keyVars
<1>2. ASSUME NEW r \in Runs, NEW l \in Lists, Begin(r, l)
      PROVE  Lone'
  BY <1>2 DEF Begin
<1>3. ASSUME NEW r \in Runs, Load(r)
      PROVE  Lone'
  BY <1>3 DEF Load
<1>4. ASSUME NEW r \in Runs, Open(r)
      PROVE  Lone'
  BY <1>4 DEF Open
<1>5. ASSUME NEW r \in Runs, Write(r)
      PROVE  Lone'
  BY <1>5 DEF Write
<1>6. ASSUME NEW r \in Runs, Check(r)
      PROVE  Lone'
  BY <1>6 DEF Check
<1>7. ASSUME NEW r \in Runs, Fail(r)
      PROVE  Lone'
  BY <1>7 DEF Fail
<1>8. ASSUME NEW r \in Runs, Forget(r)
      PROVE  Lone'
  BY <1>8 DEF Forget
<1> QED BY <1>1, <1>2, <1>3, <1>4, <1>5, <1>6, <1>7, <1>8 DEF KeyNext

\* A step that is not this run's: it leaves the file alone, or ends the run's
\* being alone.
LEMMA VerifiedByOthers ==
  ASSUME KeyTypeOK, Verified, NEW r \in Runs,
         alone'[r] => alone[r] /\ keystore' = keystore,
         at'[r] = at[r], aliases'[r] = aliases[r], i'[r] = i[r], keys'[r] = keys[r],
         error'[r] = error[r], alone'[r], at'[r] \in {"check", "returned"}
  PROVE  /\ keystore' \in Stores
         /\ ~error'[r] =>
              \A n \in 1..ReadBack(r)' : keystore'[EntryOf[aliases'[r][n]]] = keys'[r][n]
  BY DEF Verified, ReadBack

LEMMA VerifiedStep ==
  ASSUME KeyTypeOK, Lone, Verified, [KeyNext]_keyVars
  PROVE  Verified'
<1> SUFFICES ASSUME NEW q \in Runs, alone'[q], at'[q] \in {"check", "returned"}
             PROVE  /\ keystore' \in Stores
                    /\ ~error'[q] =>
                         \A n \in 1..ReadBack(q)' :
                           keystore'[EntryOf[aliases'[q][n]]] = keys'[q][n]
  BY DEF Verified
<1> DEFINE Kept == /\ alone[q] /\ keystore' = keystore
                   /\ at'[q] = at[q] /\ aliases'[q] = aliases[q] /\ i'[q] = i[q]
                   /\ keys'[q] = keys[q] /\ error'[q] = error[q]
<1>1. CASE Kept
  BY <1>1, VerifiedByOthers
<1>2. CASE UNCHANGED keyVars
  <2>1. Kept
    BY <1>2 DEF keyVars
  <2> QED BY <2>1, <1>1
<1> HIDE DEF Kept
<1>3. ASSUME NEW r \in Runs,
             \/ \E l \in Lists : Begin(r, l)
             \/ Load(r) \/ Open(r) \/ Fail(r) \/ Forget(r)
      PROVE  Kept
  <2>1. /\ at \in [Runs -> {"idle", "load", "open", "write", "check"} \cup Ended]
        /\ aliases \in [Runs -> Lists \cup {<<>>}] /\ i \in [Runs -> Nat \ {0}]
        /\ keys \in [Runs -> Seq(Keys)] /\ error \in [Runs -> BOOLEAN]
        /\ alone \in [Runs -> BOOLEAN]
    BY DEF KeyTypeOK
  <2>2. q # r
    BY <1>3, <2>1 DEF Begin, Load, Open, Fail, Forget
  <2>3. alone[q]
    BY <1>3, <2>1, <2>2 DEF Begin, Load, Open, Fail, Forget
  <2>4. at'[q] = at[q] /\ aliases'[q] = aliases[q] /\ i'[q] = i[q] /\ keys'[q] = keys[q]
    BY <1>3, <2>1, <2>2 DEF Begin, Load, Open, Fail, Forget
  <2>5. error'[q] = error[q]
    BY <1>3, <2>1, <2>2 DEF Begin, Load, Open, Fail, Forget
  <2>6. Idling(r)
    BY <2>2, <2>3, <2>4 DEF Lone
  <2>7. keystore' = keystore
    BY <1>3, <2>6 DEF Idling, Begin, Load, Open, Fail, Forget
  <2> QED BY <2>3, <2>4, <2>5, <2>7 DEF Kept
<1>4. ASSUME NEW r \in Runs, Write(r)
      PROVE  q = r /\ alone[q]
  BY <1>4 DEF Write, KeyTypeOK, Lone, Idling
<1>5. ASSUME Write(q)
      PROVE  keystore' \in Stores /\ ReadBack(q)' = 0
  <2>1. ~mixed[q]
    BY <1>5 DEF Write, Lone
  <2>2. keystore' = ks[q]
    BY <1>5, <2>1 DEF Write
  <2>3. i'[q] = 1 /\ at'[q] = "check"
    BY <1>5 DEF Write, KeyTypeOK
  <2> QED BY <2>2, <2>3 DEF KeyTypeOK, ReadBack
<1>6. ASSUME NEW r \in Runs, Check(r)
      PROVE  q = r /\ alone[q]
  BY <1>6 DEF Check, KeyTypeOK, Lone, Idling
<1>7. ASSUME Check(q)
      PROVE  /\ keystore' \in Stores
             /\ ~error'[q] =>
                  \A n \in 1..ReadBack(q)' :
                    keystore'[EntryOf[aliases'[q][n]]] = keys'[q][n]
  <2>1. alone[q] /\ keystore' = keystore /\ aliases' = aliases /\ keys' = keys /\ at[q] = "check"
    BY <1>7, <1>6 DEF Check
  <2>2. keystore \in Stores
    BY <2>1 DEF Verified
  <2>3. i[q] \in 1..Len(aliases[q]) /\ Len(aliases[q]) \in Nat
    BY <2>1, AtAlias
  <2>4. ReadBack(q)' = i[q]
    BY <1>7, <2>1, <2>3 DEF Check, KeyTypeOK, ReadBack
  <2>5. ReadBack(q) = i[q] - 1
    BY <2>1 DEF ReadBack
  <2>6. ~error'[q] => ~error[q] /\ keystore[Entry(q)] = keys[q][i[q]]
    BY <1>7 DEF Check, KeyTypeOK
  <2>7. ASSUME ~error'[q], NEW n \in 1..i[q]
        PROVE  keystore[EntryOf[aliases[q][n]]] = keys[q][n]
    <3>1. CASE n = i[q]
      BY <2>6, <2>7, <3>1 DEF Entry
    <3>2. CASE n # i[q]
      <4>1. n \in 1..ReadBack(q)
        BY <2>3, <2>5, <3>2
      <4> QED BY <4>1, <2>1, <2>6, <2>7 DEF Verified
    <3> QED BY <3>1, <3>2
  <2> QED BY <2>1, <2>2, <2>4, <2>7
<1>8. CASE \E r \in Runs : Write(r)
  BY <1>4, <1>5, <1>8
<1>9. CASE \E r \in Runs : Check(r)
  BY <1>6, <1>7, <1>9
<1> QED BY <1>1, <1>2, <1>3, <1>8, <1>9 DEF KeyNext

\* A run that ends without a complaint and met no other has its keys in the file,
\* each under its alias, whatever the list (the second loop of main, Encryption).
THEOREM Tells == KeySpec => []CheckTells
<1>1. KeyInit => TellsInv
  BY KeyInitType, InitLone DEF TellsInv
<1>2. TellsInv /\ [KeyNext]_keyVars => TellsInv'
  BY KeyTypeStep, LoneStep, VerifiedStep DEF TellsInv
<1>3. TellsInv => CheckTells
  <2> SUFFICES ASSUME TellsInv, NEW r \in Runs,
                      at[r] = "returned", ~error[r], alone[r]
               PROVE  /\ keystore \in Stores
                      /\ \A n \in DOMAIN aliases[r] :
                           keystore[EntryOf[aliases[r][n]]] = keys[r][n]
    BY DEF CheckTells
  <2>1. aliases[r] \in Seq(Aliases)
    BY AtAlias DEF TellsInv
  <2>2. DOMAIN aliases[r] = 1..ReadBack(r)
    BY <2>1 DEF ReadBack
  <2> QED BY <2>2 DEF TellsInv, Verified
<1> QED BY <1>1, <1>2, <1>3, PTL DEF KeySpec
=============================================================================
