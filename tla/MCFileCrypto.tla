---------------------------- MODULE MCFileCrypto ----------------------------
(***************************************************************************)
(* TLC instances of FileCrypto.  The buffer is two blocks instead of 64,   *)
(* and the tag one block, as in AES-GCM; the sizes go past two buffers.    *)
(***************************************************************************)
EXTENDS FileCrypto

MCSizes == 0..14
=============================================================================
