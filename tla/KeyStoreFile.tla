---------------------------- MODULE KeyStoreFile ----------------------------
(***************************************************************************)
(* The keystore file, Encryption.saveSecretKeyToKeyStore and the tool that *)
(* calls it (Encryption.main, generateSecretKeyAndAddToJCEKS): for each    *)
(* alias of a list it makes a key, loads the whole file, adds the key and  *)
(* writes the whole file again; then it reads every key back.  Nothing     *)
(* locks the file against a second run, opening it for writing empties it, *)
(* and a run may fail or be stopped at every step.                         *)
(*                                                                         *)
(* An alias is the JSON text of a list's element, with its quotes.         *)
(* External: the JCEKS keystore, where aliases that differ in case only    *)
(* are one entry, and which loads a file only if it is whole.              *)
(***************************************************************************)
EXTENDS Naturals, Sequences

CONSTANTS
  Runs,      \* processes that run the tool
  Aliases,
  Entries,   \* the entries of the keystore,
  EntryOf,   \* and the one each alias names
  Lists,     \* the lists of aliases that are given to the tool
  Keys,      \* the keys generateSecretKey makes (a bound)
  Missing, NoKeyStore, Torn

ASSUME KeyAssumption ==
  /\ EntryOf \in [Aliases -> Entries]
  /\ Lists \subseteq Seq(Aliases) \ {<<>>}
  /\ Missing \notin Keys
  /\ NoKeyStore # Torn
  /\ {NoKeyStore, Torn} \cap [Entries -> Keys \cup {Missing}] = {}

VARIABLES
  keystore,    \* the keystore file: its entries, no file, or one that does not load
  at,
  aliases, \* the list a run was given
  i,       \* the loop counter
  keys,    \* the array keys of a run
  ks,      \* the KeyStore object
  mixed,   \* another run writes, or opens the file, while this one writes
  error,   \* the run has printed "ERROR! The ... key ... is different!"
  last,    \* history: the key of the last save of each entry that ended
  cut,     \* history: a run has ended while it wrote
  raced,   \* history: two saves have overlapped
  alone    \* history: no other run has been under way since this one began

keyVars == <<keystore, at, aliases, i, keys, ks, mixed, error, last, cut, raced, alone>>

Stores == [Entries -> Keys \cup {Missing}]
Empty == [e \in Entries |-> Missing]
Ended == {"returned", "threw"}
Goto(r, l) == at' = [at EXCEPT ![r] = l]
Entry(r) == EntryOf[aliases[r][i[r]]]

\* The file that holds just these keys.
FileOf(s) == IF s = Empty THEN NoKeyStore ELSE s

KeyInit ==
  /\ last \in {Empty} \cup [Entries -> Keys]
  /\ keystore = FileOf(last)
  /\ at = [r \in Runs |-> "idle"]
  /\ aliases = [r \in Runs |-> <<>>]
  /\ i = [r \in Runs |-> 1]
  /\ keys = [r \in Runs |-> <<>>]
  /\ ks = [r \in Runs |-> Empty]
  /\ mixed = [r \in Runs |-> FALSE]
  /\ error = [r \in Runs |-> FALSE]
  /\ cut = FALSE
  /\ raced = FALSE
  /\ alone = [r \in Runs |-> TRUE]

Begin(r, l) ==
  /\ at[r] = "idle"
  /\ Goto(r, "load")
  /\ aliases' = [aliases EXCEPT ![r] = l]
  /\ alone' = [q \in Runs |-> IF q = r THEN \A p \in Runs : at[p] \in {"idle"} \cup Ended
                              ELSE FALSE]
  /\ UNCHANGED <<keystore, i, keys, ks, mixed, error, last, cut, raced>>

(***************************************************************************)
(* saveSecretKeyToKeyStore, in the first loop of the tool.                 *)
(***************************************************************************)
Saving(r) == at[r] \in {"open", "write"}

\* A new key is unlike all that are anywhere.
InUse(k) ==
  \/ \E e \in Entries : last[e] = k \/ (keystore \notin {NoKeyStore, Torn} /\ keystore[e] = k)
  \/ \E r \in Runs : \/ \E n \in DOMAIN keys[r] : keys[r][n] = k
                     \/ \E e \in Entries : ks[r][e] = k

\* Mutant: any exception of the load is taken for a missing file.
LoadAnyway(r) ==
  /\ at[r] = "load"
  /\ \E k \in Keys :
       /\ ~InUse(k)
       /\ keys' = [keys EXCEPT ![r] = Append(@, k)]
       /\ ks' = [ks EXCEPT ![r] = [IF keystore \in {NoKeyStore, Torn} THEN Empty ELSE keystore
                                     EXCEPT ![Entry(r)] = k]]
  /\ Goto(r, "open")
  /\ raced' = (raced \/ \E q \in Runs : Saving(q))
  /\ UNCHANGED <<keystore, aliases, i, mixed, error, last, cut, alone>>

\* The whole file is loaded; only one that is missing counts as empty.
Load(r) ==
  /\ at[r] = "load"
  /\ keystore # Torn
  /\ \E k \in Keys :
       /\ ~InUse(k)
       /\ keys' = [keys EXCEPT ![r] = Append(@, k)]
       /\ ks' = [ks EXCEPT ![r] = [IF keystore = NoKeyStore THEN Empty ELSE keystore
                                     EXCEPT ![Entry(r)] = k]]
  /\ Goto(r, "open")
  /\ raced' = (raced \/ \E q \in Runs : Saving(q))
  /\ UNCHANGED <<keystore, aliases, i, mixed, error, last, cut, alone>>

\* new FileOutputStream: the file is empty now, and no keystore.
Open(r) ==
  /\ at[r] = "open"
  /\ keystore' = Torn
  /\ mixed' = [q \in Runs |->
       IF q = r THEN \E p \in Runs \ {r} : at[p] = "write" ELSE mixed[q] \/ at[q] = "write"]
  /\ Goto(r, "write")
  /\ UNCHANGED <<aliases, i, keys, ks, error, last, cut, raced, alone>>

\* Mutant: the loop goes on to the size of the list.
WriteBeyond(r) ==
  /\ at[r] = "write"
  /\ keystore' = ks[r]
  /\ last' = [last EXCEPT ![Entry(r)] = keys[r][i[r]]]
  /\ i' = [i EXCEPT ![r] = IF @ <= Len(aliases[r]) THEN @ + 1 ELSE 1]
  /\ Goto(r, IF i[r] <= Len(aliases[r]) THEN "load" ELSE "check")
  /\ UNCHANGED <<aliases, keys, ks, mixed, error, cut, raced, alone>>

\* ks.store has written its last byte.  What two runs have written into one file
\* may be neither's keystore.
Write(r) ==
  /\ at[r] = "write"
  /\ keystore' \in {ks[r]} \cup (IF mixed[r] THEN {Torn} ELSE {})
  /\ last' = [last EXCEPT ![Entry(r)] = keys[r][i[r]]]
  /\ i' = [i EXCEPT ![r] = IF @ < Len(aliases[r]) THEN @ + 1 ELSE 1]
  /\ Goto(r, IF i[r] < Len(aliases[r]) THEN "load" ELSE "check")
  /\ UNCHANGED <<aliases, keys, ks, mixed, error, cut, raced, alone>>

(***************************************************************************)
(* The second loop: getSecretKeyFromKeyStore for each alias.  A file that   *)
(* does not load throws, and so does equals on the null of a missing alias. *)
(***************************************************************************)
\* Mutant: any key will do.
CheckPresent(r) ==
  /\ at[r] = "check"
  /\ keystore \notin {NoKeyStore, Torn}
  /\ keystore[Entry(r)] # Missing
  /\ i' = [i EXCEPT ![r] = IF @ < Len(aliases[r]) THEN @ + 1 ELSE @]
  /\ Goto(r, IF i[r] < Len(aliases[r]) THEN "check" ELSE "returned")
  /\ UNCHANGED <<keystore, aliases, keys, ks, mixed, error, last, cut, raced, alone>>

Check(r) ==
  /\ at[r] = "check"
  /\ keystore \notin {NoKeyStore, Torn}
  /\ keystore[Entry(r)] # Missing
  /\ error' = [error EXCEPT ![r] = @ \/ keystore[Entry(r)] # keys[r][i[r]]]
  /\ i' = [i EXCEPT ![r] = IF @ < Len(aliases[r]) THEN @ + 1 ELSE @]
  /\ Goto(r, IF i[r] < Len(aliases[r]) THEN "check" ELSE "returned")
  /\ UNCHANGED <<keystore, aliases, keys, ks, mixed, last, cut, raced, alone>>

\* Any exception ends the run, which prints it; and a run may be stopped.  What it
\* was writing is not whole then.
Fail(r) ==
  /\ at[r] \notin {"idle"} \cup Ended
  /\ keystore' \in {keystore} \cup (IF at[r] = "write" THEN {Torn} ELSE {})
  /\ cut' = (cut \/ at[r] = "write")
  /\ Goto(r, "threw")
  /\ UNCHANGED <<aliases, i, keys, ks, mixed, error, last, raced, alone>>

\* The tool can be run again.
Forget(r) ==
  /\ at[r] \in Ended
  /\ Goto(r, "idle")
  /\ aliases' = [aliases EXCEPT ![r] = <<>>]
  /\ i' = [i EXCEPT ![r] = 1]
  /\ keys' = [keys EXCEPT ![r] = <<>>]
  /\ ks' = [ks EXCEPT ![r] = Empty]
  /\ mixed' = [mixed EXCEPT ![r] = FALSE]
  /\ error' = [error EXCEPT ![r] = FALSE]
  /\ alone' = [alone EXCEPT ![r] = TRUE]
  /\ UNCHANGED <<keystore, last, cut, raced>>

KeyNext == \E r \in Runs :
  \/ \E l \in Lists : Begin(r, l)
  \/ Load(r) \/ Open(r) \/ Write(r) \/ Check(r) \/ Fail(r) \/ Forget(r)

KeySpec == KeyInit /\ [][KeyNext]_keyVars

-----------------------------------------------------------------------------
\* How far a run is in its list.
Counted(r) ==
  /\ at[r] = "idle" => i[r] = 1 /\ keys[r] = <<>>
  /\ at[r] # "idle" => aliases[r] \in Lists /\ i[r] <= Len(aliases[r])
  /\ at[r] = "load" => Len(keys[r]) = i[r] - 1
  /\ Saving(r) => Len(keys[r]) = i[r]
  /\ at[r] \in {"check", "returned"} => Len(keys[r]) = Len(aliases[r])

\* The type of every variable.
KeyTypeOK ==
  /\ keystore \in Stores \cup {NoKeyStore, Torn}
  /\ at \in [Runs -> {"idle", "load", "open", "write", "check"} \cup Ended]
  /\ aliases \in [Runs -> Lists \cup {<<>>}]
  /\ i \in [Runs -> Nat \ {0}]
  /\ keys \in [Runs -> Seq(Keys)]
  /\ ks \in [Runs -> Stores]
  /\ mixed \in [Runs -> BOOLEAN]
  /\ error \in [Runs -> BOOLEAN]
  /\ last \in Stores
  /\ cut \in BOOLEAN /\ raced \in BOOLEAN
  /\ alone \in [Runs -> BOOLEAN]
  /\ \A r \in Runs : Counted(r)

\* As long as no two saves overlap, every key ever saved is in the file until its
\* entry is saved again, through runs that fail or are stopped at any other point
\* than within a write; and after one that was stopped there the file never loads
\* again: no later run starts a new keystore in the place of the lost one.
KeysKept ==
  \/ raced
  \/ keystore = IF cut \/ \E r \in Runs : at[r] = "write" THEN Torn ELSE FileOf(last)

\* A run that ends without a complaint, and met no other, leaves the keys it has
\* printed in the file, each under its alias, also if aliases of its list name one
\* entry (main of Encryption).
CheckTells ==
  \A r \in Runs :
    (at[r] = "returned" /\ ~error[r] /\ alone[r]) =>
      /\ keystore \in Stores
      /\ \A n \in DOMAIN aliases[r] : keystore[EntryOf[aliases[r][n]]] = keys[r][n]

(***************************************************************************)
(* The inductive invariant behind KeysKept.                                *)
(***************************************************************************)
OneSaver == raced \/ \A p, q \in Runs : Saving(p) /\ Saving(q) => p = q

\* What a save is about to write is what is there, and its own key.
Faithful ==
  \/ raced
  \/ \A r \in Runs :
       /\ ~mixed[r]
       /\ Saving(r) => ~cut /\ ks[r] = [last EXCEPT ![Entry(r)] = keys[r][i[r]]]

KeysInv == KeyTypeOK /\ OneSaver /\ Faithful /\ KeysKept

(***************************************************************************)
(* The inductive invariant behind CheckTells.                              *)
(***************************************************************************)
Idling(r) == at[r] \in {"idle"} \cup Ended

\* While a run is alone nobody else has the file.
Lone ==
  \A r \in Runs :
    /\ at[r] = "idle" => ~mixed[r]
    /\ (alone[r] /\ at[r] # "idle") => ~mixed[r] /\ \A q \in Runs \ {r} : Idling(q)

\* How many of its keys a run has read back.
ReadBack(r) == IF at[r] = "returned" THEN Len(aliases[r]) ELSE i[r] - 1

Verified ==
  \A r \in Runs : (alone[r] /\ at[r] \in {"check", "returned"}) =>
    /\ keystore \in Stores
    /\ ~error[r] =>
         \A n \in 1..ReadBack(r) : keystore[EntryOf[aliases[r][n]]] = keys[r][n]

TellsInv == KeyTypeOK /\ Lone /\ Verified
=============================================================================
