----------------------------- MODULE FileCrypto -----------------------------
(***************************************************************************)
(* Encryption.encryptFile and decryptFile: a chunk of a deposit replaced,  *)
(* in place, by its encrypted or decrypted form.  The new form is written  *)
(* to "<file>.encrypted" through a read buffer; then the file is deleted   *)
(* and the new one renamed to its name.  The only copy of the IV is the    *)
(* return value of encryptFile, which the caller has to keep.              *)
(*                                                                         *)
(* External, modelled from how the code uses it: the cipher.  A GCM cipher *)
(* gives out whole blocks only, holds the rest back until doFinal, and,    *)
(* when it decrypts, holds the last Tag bytes back as well; an update that *)
(* has no output gives null.  The authentication tag makes doFinal throw   *)
(* when the IV is not the one of the encryption.                           *)
(***************************************************************************)
EXTENDS Naturals, Sequences

CONSTANTS
  Sizes,    \* what the size of the chunk may be, in bytes
  Buffer,   \* encBufferSize, the size of the read buffer
  Block,    \* AES_BLOCK_SIZE
  Tag,      \* TAG_BIT_LENGTH, in bytes
  Modes,    \* the encryption modes of the context
  MaxIVs,   \* bound: how many calls of encryptFile are made
  NoFile,   \* "there is no such file"
  Partial   \* the content of a file that is still being written

IV_SIZE == 96        \* what doCrypto generates, whatever the mode
CBC_IV_LENGTH == 16  \* what the CBC cipher of the JDK takes

ASSUME CryptoAssumption ==
  /\ Sizes \subseteq Nat
  /\ Buffer \in Nat \ {0} /\ Block \in Nat \ {0} /\ Tag \in Nat
  /\ MaxIVs \in Nat
  /\ Modes \subseteq {"GCM", "CBC"}

\* A whole file: how often the chunk was encrypted, with which IVs.
IVs == 1..MaxIVs
Whole == [len: Nat, layers: Seq(IVs)]

ASSUME FilesAssumption ==
  NoFile # Partial /\ NoFile \notin Whole /\ Partial \notin Whole

VARIABLES
  mode,     \* context.getEncryptionMode()
  size,     \* the size of the chunk before any encryption
  pc,       \* where the call is
  op,       \* encrypt or decrypt
  iv,       \* the call's IV
  file,     \* the file
  temp,     \* the file with the extension ".encrypted"
  left,     \* how many bytes of the input are not read yet
  held,     \* how many bytes the cipher holds back
  written,  \* how many bytes went to the temporary file
  spent,    \* how many IVs were generated
  known,    \* the IVs the caller was given
  lost,     \* history: IVs of calls that ended when their input was gone
  why       \* why the last call threw

vars == <<mode, size, pc, op, iv, file, temp, left, held, written, spent,
          known, lost, why>>
env == <<mode, size>>
stream == <<left, held, written>>
disk == <<file, temp>>
ivs == <<spent, known>>

Init ==
  /\ mode \in Modes
  /\ size \in Sizes
  /\ pc = "idle"
  /\ op = "encrypt"
  /\ iv = 0
  /\ file = [len |-> size, layers |-> <<>>]
  /\ temp = NoFile
  /\ left = 0 /\ held = 0 /\ written = 0
  /\ spent = 0
  /\ known = {}
  /\ lost = {}
  /\ why = "none"

-----------------------------------------------------------------------------
\* What an update of n bytes gives out, with h bytes held back before it.
Available(h, n) == IF op = "encrypt" THEN h + n
                   ELSE IF h + n < Tag THEN 0 ELSE h + n - Tag
UpdateOutput(h, n) == LET a == Available(h, n) IN a - (a % Block)

\* The IV of an encryption opened by the cipher in use, and that of the file.
Fits(v) == Len(file.layers) > 0 /\ file.layers[Len(file.layers)] = v

\* The IVs of what the call writes.
NewLayers == IF op = "encrypt" THEN Append(file.layers, iv)
             ELSE SubSeq(file.layers, 1, Len(file.layers) - 1)

\* Mutant: the output of doFinal is not written.
ResultCutShort == [len |-> written, layers |-> NewLayers]

\* What the temporary file holds when all went well.
Result == [len |-> IF op = "encrypt" THEN written + held + Tag
                                     ELSE written + held - Tag,
           layers |-> NewLayers]

\* The call ends here.  When its input file is gone by now, so is its IV.
InputGone == pc = "moved" \/ (pc = "move" /\ file = NoFile)
Ends(reason) ==
  /\ pc' = "idle"
  /\ why' = reason
  /\ lost' = IF op = "encrypt" /\ InputGone THEN lost \cup {iv} ELSE lost

-----------------------------------------------------------------------------
EncryptFile ==
  /\ pc = "idle"
  /\ spent < MaxIVs
  /\ spent' = spent + 1
  /\ op' = "encrypt" /\ iv' = spent + 1
  /\ pc' = "cipher" /\ why' = "none"
  /\ UNCHANGED <<env, stream, disk, known, lost>>

\* The caller passes the IV it was given for this file, or another one.
DecryptFile ==
  /\ pc = "idle"
  /\ op' = "decrypt" /\ iv' \in known
  /\ pc' = "cipher" /\ why' = "none"
  /\ UNCHANGED <<env, stream, disk, ivs, lost>>

\* The key may not be had: neither Vault nor the keystore answers.
NoKey ==
  /\ pc = "cipher"
  /\ Ends("nokey")
  /\ UNCHANGED <<env, op, iv, stream, disk, ivs>>

InitCipher ==
  /\ pc = "cipher"
  /\ IF mode = "CBC" /\ IV_SIZE # CBC_IV_LENGTH
     THEN Ends("ivlength")
     ELSE pc' = "input" /\ UNCHANGED <<why, lost>>
  /\ UNCHANGED <<env, op, iv, stream, disk, ivs>>

\* Mutant: the output is opened first, so that nothing stops the truncation.
OpenInputLate ==
  /\ pc = "input"
  /\ pc' = "output"
  /\ left' = IF file = NoFile THEN 0 ELSE file.len
  /\ UNCHANGED <<env, op, iv, held, written, disk, ivs, lost, why>>

\* The input is opened before the output, which is created or truncated.
OpenInput ==
  /\ pc = "input"
  /\ IF file = NoFile
     THEN Ends("nofile") /\ UNCHANGED left
     ELSE pc' = "output" /\ left' = file.len /\ UNCHANGED <<why, lost>>
  /\ UNCHANGED <<env, op, iv, held, written, disk, ivs>>

OpenOutput ==
  /\ pc = "output"
  /\ temp' = Partial
  /\ held' = 0 /\ written' = 0
  /\ pc' = "loop"
  /\ UNCHANGED <<env, op, iv, left, file, ivs, lost, why>>

\* Mutant: the whole buffer is used, whatever nread is.
ReadBufferWhole ==
  /\ pc = "loop"
  /\ left > 0
  /\ left' = left - Buffer
  /\ written' = written + Buffer
  /\ UNCHANGED <<env, op, iv, held, disk, ivs, pc, lost, why>>

\* Mutant: the read buffer is one block (AES_BLOCK_SIZE for encBufferSize).
ReadBufferByBlock ==
  /\ pc = "loop"
  /\ left > 0
  /\ LET n == IF left < Block THEN left ELSE Block
         out == UpdateOutput(held, n)
     IN /\ left' = left - n
        /\ written' = written + out
        /\ held' = held + n - out
        /\ IF out = 0 THEN Ends("null") ELSE UNCHANGED <<pc, why, lost>>
  /\ UNCHANGED <<env, op, iv, disk, ivs>>

\* One round of the read loop.  Writing an update that gave null throws.
ReadBuffer ==
  /\ pc = "loop"
  /\ left > 0
  /\ LET n == IF left < Buffer THEN left ELSE Buffer
         out == UpdateOutput(held, n)
     IN /\ left' = left - n
        /\ written' = written + out
        /\ held' = held + n - out
        /\ IF out = 0 THEN Ends("null") ELSE UNCHANGED <<pc, why, lost>>
  /\ UNCHANGED <<env, op, iv, disk, ivs>>

\* doFinal, and its output written.
Finish ==
  /\ pc = "loop"
  /\ left = 0
  /\ IF op = "decrypt" /\ (~Fits(iv) \/ held < Tag)
     THEN Ends("badtag") /\ UNCHANGED temp
     ELSE pc' = "delete" /\ temp' = Result /\ UNCHANGED <<why, lost>>
  /\ UNCHANGED <<env, op, iv, stream, file, ivs>>

\* FileUtils.deleteQuietly: a failure goes unnoticed.
DeleteFile ==
  /\ pc = "delete"
  /\ file' \in {file, NoFile}
  /\ pc' = "move"
  /\ UNCHANGED <<env, op, iv, stream, temp, ivs, lost, why>>

\* FileUtils.moveFile throws when the target exists.
MoveFile ==
  /\ pc = "move"
  /\ IF file # NoFile
     THEN Ends("exists") /\ UNCHANGED disk
     ELSE /\ pc' = "moved"
          /\ file' = temp /\ temp' = NoFile
          /\ UNCHANGED <<why, lost>>
  /\ UNCHANGED <<env, op, iv, stream, ivs>>

\* Mutant: doCrypto returns the argument it was called with, null.
ReturnNoIV ==
  /\ pc = "moved"
  /\ pc' = "idle"
  /\ UNCHANGED <<env, op, iv, stream, disk, ivs, lost, why>>

\* The IV is returned, and the caller keeps it with the deposit.
ReturnIV ==
  /\ pc = "moved"
  /\ pc' = "idle"
  /\ known' = known \cup {iv}
  /\ UNCHANGED <<env, op, iv, stream, disk, spent, lost, why>>

\* Creating, writing or renaming the temporary file may fail.
IOFails ==
  /\ pc \in {"output", "loop", "move"}
  /\ Ends("io")
  /\ UNCHANGED <<env, op, iv, stream, disk, ivs>>

\* The worker stops in the middle of a call.
Crash ==
  /\ pc # "idle"
  /\ Ends("crash")
  /\ UNCHANGED <<env, op, iv, stream, disk, ivs>>

Next ==
  \/ EncryptFile
  \/ DecryptFile
  \/ NoKey
  \/ InitCipher
  \/ OpenInput
  \/ OpenOutput
  \/ ReadBuffer
  \/ Finish
  \/ DeleteFile
  \/ MoveFile
  \/ ReturnIV
  \/ IOFails
  \/ Crash

Spec == Init /\ [][Next]_vars

-----------------------------------------------------------------------------
Reasons == {"none", "nokey", "ivlength", "nofile", "null", "badtag", "exists",
            "io", "crash"}
PCs == {"idle", "cipher", "input", "output", "loop", "delete", "move", "moved"}

\* The type of every variable; only the file itself is never half written.
TypeOK ==
  /\ mode \in Modes
  /\ size \in Nat
  /\ pc \in PCs
  /\ op \in {"encrypt", "decrypt"}
  /\ iv \in 0..MaxIVs
  /\ file \in Whole \cup {NoFile}
  /\ temp \in Whole \cup {NoFile, Partial}
  /\ left \in Nat /\ held \in Nat /\ written \in Nat
  /\ spent \in 0..MaxIVs
  /\ known \subseteq IVs
  /\ lost \subseteq IVs
  /\ why \in Reasons

\* At every moment, across calls that fail half way, crashes and new attempts,
\* the chunk is whole in the file or in the temporary file next to it.
NothingLost == file \in Whole \/ temp \in Whole

\* The copy that counts: the file, or what was to replace it.
Survivor == IF file # NoFile THEN file ELSE temp

\* The chunk can be decrypted as long as its IVs are with the caller: an IV is
\* missing only while its call has still to return it, or because that call was
\* cut short after the input file was gone.
InFlight == IF op = "encrypt" /\ InputGone THEN {iv} ELSE {}

IVsKept ==
  \A i \in 1..Len(Survivor.layers) :
    Survivor.layers[i] \in known \cup lost \cup InFlight

\* No byte is dropped between the reads, the cipher's blocks and doFinal: each
\* encryption adds the tag to the chunk's size and each decryption takes it off.
LengthsFit ==
  \A f \in {file, temp} \ {NoFile, Partial} :
    f.len = size + Tag * Len(f.layers)

(***************************************************************************)
(* The inductive invariant behind these: what is where at each point.      *)
(***************************************************************************)
Flow ==
  /\ pc \in {"output", "loop", "delete"} => file # NoFile
  /\ pc \in {"delete", "move"} => temp \in Whole
  /\ pc = "moved" => file \in Whole
  /\ pc # "idle" => iv \in IVs

\* Bytes read are held back by the cipher or written.
Conserved ==
  /\ pc = "output" => left = file.len
  /\ pc = "loop" => written + held + left = file.len

\* What is to replace the file has the IVs of the file and this call's.
IVsKeptInTemp ==
  pc \in {"delete", "move"} =>
    \A i \in 1..Len(temp.layers) :
      temp.layers[i] \in known \cup lost \cup (IF op = "encrypt" THEN {iv} ELSE {})

IInv == TypeOK /\ Flow /\ NothingLost /\ Conserved /\ LengthsFit
        /\ IVsKept /\ IVsKeptInTemp

\* The sizes at which the last read gives the cipher too little for a block.
ShortTail == LET tail == file.len % Buffer IN
  IF op = "encrypt" THEN tail \in 1..Block - 1
  ELSE IF file.len <= Buffer THEN file.len < Tag + Block
       ELSE tail \in 1..Block - 1

\* The read loop throws for want of output at no other size, whatever the cipher
\* held back before: a chunk of any size but these can be encrypted and decrypted.
NullOnlyAtShortTails == why = "null" => file # NoFile /\ ShortTail

\* The real sizes: blocks and tags of 16 bytes (AES_BLOCK_SIZE, TAG_BIT_LENGTH) and
\* a read buffer of a whole number of them (encBufferSize, 1024).
BlocksFill == Tag = Block /\ Buffer % Block = 0 /\ Buffer >= 2 * Block

\* The inductive invariant behind NullOnlyAtShortTails: all reads but the last fill the
\* buffer, and leave the cipher with nothing but the tag.
EvenReads ==
  /\ pc = "loop" /\ left > 0 =>
       /\ (file.len - left) % Buffer = 0
       /\ held = IF op = "decrypt" /\ left # file.len THEN Tag ELSE 0
  /\ why = "null" => pc = "idle"
  /\ NullOnlyAtShortTails

\* What the code's comments promise: a file that was encrypted can be decrypted
\* with the IV of its encryption ("iv - Initialisation Vector used for the
\* encryption"); only the disk, the key or a crash may get in the way.
DecryptsWhatItEncrypted ==
  ~(why = "null" /\ op = "decrypt" /\ file # NoFile /\ Fits(iv))
=============================================================================
