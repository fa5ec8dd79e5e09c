-------------------------- MODULE RecordStoreProofs --------------------------
(***************************************************************************)
(* Proofs about RecordStore, for any tables of operations, any clients and *)
(* records and any size of the pool.                                       *)
(***************************************************************************)
EXTENDS RecordStore, FiniteSetTheorems, TLAPS

-----------------------------------------------------------------------------
(***************************************************************************)
(* Facts about single definitions.                                         *)
(***************************************************************************)
LEMMA ReadOp == Read \in Ops
BY DEF Read, Plain, Ops

\* Objects are what a row was when it was read.
LEMMA Snapshots ==
  ASSUME TypeOK, NEW r \in Records, NEW x \in Snapshot(r)
  PROVE  x \in Object /\ x.rec = r /\ Behind(x)
<1>1. rows[r] \in Row
  BY DEF TypeOK
<1>2. /\ rows[r].state = "live"
      /\ x = [rec |-> r, ver |-> rows[r].ver, has |-> rows[r].has]
  BY DEF Snapshot
<1>3. x \in Object
  BY <1>1, <1>2 DEF Row, Object
<1>4. x.rec = r /\ x.ver = rows[r].ver /\ x.has = rows[r].has
  BY <1>2
<1>5. x.ver <= rows[r].ver
  BY <1>1, <1>4 DEF Row
<1> QED BY <1>2, <1>3, <1>4, <1>5 DEF Behind

\* The rows of the database only move on: none is unmade, none comes back
\* unless the program made its identifier, and a versioned one keeps what it
\* holds.
MovesOn(r) ==
  /\ rows'[r].state = "fresh" => rows'[r] = rows[r]
  /\ rows[r].state # "fresh" => rows'[r].state # "fresh"
  /\ entity[r] \notin Assigned =>
       (rows[r].state = "deleted" => rows'[r].state = "deleted")
  /\ entity[r] \in Versioned =>
       /\ rows[r].ver <= rows'[r].ver
       /\ rows[r].has \subseteq rows'[r].has
       /\ rows[r].state # "fresh" /\ rows[r].ver = rows'[r].ver => rows'[r].has = rows[r].has
RowsMoveOn == \A r \in Records : MovesOn(r)

LEMMA RowsAlone ==
  ASSUME TypeOK, rows' = rows
  PROVE  RowsMoveOn /\ rows' \in [Records -> Row]
<1>1. \A r \in Records : rows[r] \in Row
  BY DEF TypeOK
<1> QED BY <1>1 DEF TypeOK, RowsMoveOn, MovesOn, Row

\* An insert, an update or a delete moves its row on.
LEMMA InsertMovesOn ==
  ASSUME TypeOK, FreshEmpty, NEW c \in Clients, Inserted(c)
  PROVE  RowsMoveOn /\ rows' \in [Records -> Row]
<1> DEFINE k == rec[c]
<1>1. k \in Records
  BY DEF TypeOK
<1>2. Stored \in Row
  BY DEF Stored, Row
<1>3. /\ rows' = [rows EXCEPT ![k] = Stored]
      /\ rows[k].state = "fresh" \/ entity[k] \in Assigned
  BY DEF Inserted, Free
<1>4. rows' \in [Records -> Row]
  BY <1>1, <1>2, <1>3 DEF TypeOK
<1>5. ASSUME NEW r \in Records, r # k PROVE rows'[r] = rows[r] /\ rows[r] \in Row
  BY <1>3, <1>5 DEF TypeOK
<1>6. rows'[k] = Stored
  BY <1>1, <1>3 DEF TypeOK
<1>7. entity[k] \notin Assigned =>
        rows[k].state = "fresh" /\ rows[k].ver = 0 /\ rows[k].has = {}
  BY <1>1, <1>3 DEF FreshEmpty
<1>8. Stored.state = "live" /\ Stored.ver = 0 /\ Stored.has = {}
  BY DEF Stored
<1> HIDE DEF k
<1>9. MovesOn(k)
  BY <1>6, <1>7, <1>8, AssignedAssumption DEF MovesOn
<1>10. \A r \in Records : r # k => MovesOn(r)
  BY <1>5 DEF MovesOn, Row
<1> QED BY <1>4, <1>9, <1>10 DEF RowsMoveOn

LEMMA UpdateMovesOn ==
  ASSUME TypeOK, NEW c \in Clients, NEW x \in Object, Updated(c, x),
         Behind(x), x.rec = rec[c]
  PROVE  /\ RowsMoveOn /\ rows' \in [Records -> Row]
         /\ rows[rec[c]].state # "fresh"
         /\ rows'[rec[c]].state = rows[rec[c]].state
         /\ rows'[rec[c]].ver = rows[rec[c]].ver + 1
         /\ rows'[rec[c]].has = x.has
<1> DEFINE k == rec[c]
<1>1. k \in Records /\ rows \in [Records -> Row]
  BY DEF TypeOK
<1>2. x.has \in SUBSET Edits /\ x.ver \in Nat
  BY DEF Object
<1>3. /\ rows' = [rows EXCEPT ![k] = [state |-> "live", ver |-> rows[k].ver + 1,
                                       has |-> x.has]]
      /\ rows[k].state = "live"
      /\ entity[k] \in Versioned => x.ver = rows[k].ver
  BY DEF Updated, Accepts
<1>4. rows[k] \in Row /\ rows[k].ver \in Nat /\ rows[k].ver + 1 \in Nat
  BY <1>1 DEF Row
<1>5. rows'[k] = [state |-> "live", ver |-> rows[k].ver + 1, has |-> x.has]
  BY <1>1, <1>3
<1>6. /\ rows'[k].state = rows[k].state /\ rows'[k].ver = rows[k].ver + 1
      /\ rows'[k].has = x.has /\ rows'[k] \in Row
  BY <1>2, <1>3, <1>4, <1>5 DEF Row
<1>7. rows'[k] \in Row
  BY <1>6
<1>8. ASSUME NEW r \in Records, r # k PROVE rows'[r] = rows[r] /\ rows[r] \in Row
  BY <1>1, <1>3, <1>8
<1>9. rows' \in [Records -> Row]
  BY <1>1, <1>3, <1>7, <1>8
<1>10. entity[k] \in Versioned => rows[k].has \subseteq x.has
  BY <1>3 DEF Behind
<1> HIDE DEF k
<1>11. RowsMoveOn
  <2> SUFFICES ASSUME NEW r \in Records PROVE MovesOn(r)
    BY DEF RowsMoveOn
  <2>1. CASE r = k
    <3>1. rows[k].ver <= rows'[k].ver /\ rows[k].ver # rows'[k].ver
      BY <1>4, <1>6
    <3>2. rows[k].state = "live" /\ rows'[k].state = "live"
      BY <1>3, <1>6
    <3>3. rows'[k].has = x.has
      BY <1>6
    <3> QED BY <2>1, <3>1, <3>2, <3>3, <1>10 DEF MovesOn
  <2>2. CASE r # k
    BY <2>2, <1>8 DEF MovesOn, Row
  <2> QED BY <2>1, <2>2
<1> QED BY <1>3, <1>6, <1>9, <1>11 DEF k

LEMMA DeleteMovesOn ==
  ASSUME TypeOK, NEW c \in Clients, NEW x, Deleted(c, x)
  PROVE  /\ RowsMoveOn /\ rows' \in [Records -> Row]
         /\ rows[rec[c]].state = "live" /\ rows'[rec[c]].state = "deleted"
         /\ \A r \in Records : rows'[r].has = rows[r].has
<1> DEFINE k == rec[c]
<1>1. k \in Records /\ rows \in [Records -> Row]
  BY DEF TypeOK
<1>2. rows' = [rows EXCEPT ![k].state = "deleted"] /\ rows[k].state = "live"
  BY DEF Deleted, Accepts
<1>3. rows[k] \in Row
  BY <1>1
<1>4. rows'[k] = [rows[k] EXCEPT !.state = "deleted"]
  BY <1>1, <1>2
<1>5. /\ rows'[k] \in Row /\ rows'[k].state = "deleted"
      /\ rows'[k].ver = rows[k].ver /\ rows'[k].has = rows[k].has
  BY <1>3, <1>4 DEF Row
<1>6. ASSUME NEW r \in Records, r # k PROVE rows'[r] = rows[r] /\ rows[r] \in Row
  BY <1>1, <1>2, <1>6
<1>7. rows' \in [Records -> Row]
  BY <1>1, <1>2, <1>5, <1>6
<1> HIDE DEF k
<1>8. RowsMoveOn
  BY <1>1, <1>2, <1>3, <1>5, <1>6 DEF RowsMoveOn, MovesOn, Row
<1>9. \A r \in Records : rows'[r].has = rows[r].has
  BY <1>5, <1>6
<1> QED BY <1>2, <1>5, <1>7, <1>8, <1>9 DEF k

-----------------------------------------------------------------------------
(***************************************************************************)
(* What moving on keeps.                                                   *)
(***************************************************************************)
LEMMA BehindKept ==
  ASSUME TypeOK, RowsMoveOn, rows' \in [Records -> Row], entity' = entity,
         NEW x \in Object, Behind(x)
  PROVE  Behind(x)'
<1>1. x.rec \in Records /\ x.ver \in Nat
  BY DEF Object
<1>2. rows[x.rec] \in Row /\ rows'[x.rec] \in Row
  BY <1>1 DEF TypeOK
<1>3. rows[x.rec].ver \in Nat /\ rows'[x.rec].ver \in Nat
  BY <1>2 DEF Row
<1> QED BY <1>1, <1>3 DEF RowsMoveOn, MovesOn, Behind

LEMMA FreshKept ==
  ASSUME RowsMoveOn, FreshEmpty PROVE FreshEmpty'
BY DEF RowsMoveOn, MovesOn, FreshEmpty

LEMMA AckedKept ==
  ASSUME RowsMoveOn, NoLostUpdate, entity' = entity, acked' = acked
  PROVE  NoLostUpdate'
BY DEF RowsMoveOn, MovesOn, NoLostUpdate

LEMMA DeletedKept ==
  ASSUME RowsMoveOn, DeletedOnce, entity' = entity, deletes' = deletes
  PROVE  DeletedOnce'
BY DEF RowsMoveOn, MovesOn, DeletedOnce

-----------------------------------------------------------------------------
(***************************************************************************)
(* The sessions: who holds a connection, and how a call ends.              *)
(***************************************************************************)
Sessions == HeldByRunning /\ PoolBound

LEMMA HeldFinite ==
  ASSUME TypeOK
  PROVE  IsFiniteSet(held) /\ Cardinality(held) \in Nat
<1>1. IsFiniteSet(held)
  BY ClientsAssumption, FS_Subset DEF TypeOK
<1> QED BY <1>1, FS_CardinalityType

LEMMA ReturnSessions ==
  ASSUME TypeOK, Sessions, NEW c \in Clients, NEW leaks \in BOOLEAN,
         leaks => c \in held, Return(c, leaks)
  PROVE  Sessions' /\ leaked' \in Nat
<1>1. /\ pc' = [pc EXCEPT ![c] = "idle"]
      /\ held' = held \ {c}
      /\ leaked' = IF leaks THEN leaked + 1 ELSE leaked
  BY DEF Return
<1>2. HeldByRunning'
  <2>1. \A d \in Clients : pc'[d] = IF d = c THEN "idle" ELSE pc[d]
    BY <1>1 DEF TypeOK
  <2>2. "idle" \notin Holding
    BY DEF Holding
  <2>3. held' = {d \in Clients : pc'[d] \in Holding}
    BY <1>1, <2>1, <2>2 DEF Sessions, HeldByRunning
  <2> QED BY <2>3 DEF HeldByRunning, Holding
<1>3. leaked \in Nat /\ leaked' \in Nat
  BY <1>1 DEF TypeOK
<1>4. IsFiniteSet(held) /\ Cardinality(held) \in Nat
  BY HeldFinite
<1>5. Cardinality(held') = IF c \in held THEN Cardinality(held) - 1 ELSE Cardinality(held)
  BY <1>1, <1>4, FS_RemoveElement
<1>6. PoolBound'
  <2>1. Cardinality(held) + leaked <= PoolSize
    BY DEF Sessions, PoolBound
  <2>2. Cardinality(held') + leaked' <= PoolSize
    <3>1. CASE leaks
      BY <3>1, <2>1, <1>1, <1>3, <1>4, <1>5, BoundsAssumption
    <3>2. CASE ~leaks
      BY <3>2, <2>1, <1>1, <1>3, <1>4, <1>5, BoundsAssumption
    <3> QED BY <3>1, <3>2
  <2> QED BY <2>2 DEF PoolBound
<1> QED BY <1>2, <1>3, <1>6 DEF Sessions

\* A step that moves a call on without a change of its connection.
LEMMA SameSessions ==
  ASSUME TypeOK, Sessions, NEW c \in Clients, NEW p \in States,
         pc' = [pc EXCEPT ![c] = p], p \in Holding <=> pc[c] \in Holding,
         held' = held, leaked' = leaked
  PROVE  Sessions'
<1>1. \A d \in Clients : pc'[d] = IF d = c THEN p ELSE pc[d]
  BY DEF TypeOK
<1>2. held' = {d \in Clients : pc'[d] \in Holding}
  BY <1>1 DEF Sessions, HeldByRunning
<1>3. HeldByRunning'
  BY <1>2 DEF HeldByRunning, Holding
<1> QED BY <1>3 DEF Sessions, PoolBound

\* The end of a call leaves nothing known of it but its record.
LEMMA ReturnTypes ==
  ASSUME TypeOK, OpsKnown, NEW c \in Clients, NEW leaks \in BOOLEAN,
         Return(c, leaks), entity' = entity
  PROVE  /\ pc' \in [Clients -> States] /\ op' \in [Clients -> Ops]
         /\ rec' = rec /\ held' \subseteq Clients
         /\ \A d \in Clients : pc'[d] # "idle" => d # c /\ pc[d] # "idle"
         /\ OpsKnown'
<1>1. /\ pc' = [pc EXCEPT ![c] = "idle"]
      /\ held' = held \ {c}
      /\ op' = [op EXCEPT ![c] = Read]
      /\ rec' = rec
  BY DEF Return
<1>2. "idle" \in States
  BY DEF States
<1>3. pc' \in [Clients -> States] /\ op' \in [Clients -> Ops]
  BY <1>1, <1>2, ReadOp DEF TypeOK
<1>4. held' \subseteq Clients
  BY <1>1 DEF TypeOK
<1>5. \A d \in Clients : /\ pc'[d] # "idle" => d # c /\ pc[d] # "idle"
                         /\ d # c => pc'[d] = pc[d] /\ op'[d] = op[d]
  BY <1>1 DEF TypeOK
<1>6. OpsKnown'
  BY <1>1, <1>5 DEF OpsKnown
<1> QED BY <1>1, <1>3, <1>4, <1>5, <1>6

\* The objects callers hold after a step: each was held before, or was made
\* by the step and is not behind its row.
LEMMA ObjectsKept ==
  ASSUME TypeOK, CopiesBehind, RowsMoveOn, rows' \in [Records -> Row], entity' = entity,
         \A d \in Clients : \A x \in copy'[d] : x \in copy[d] \/ Behind(x)'
  PROVE  CopiesBehind'
<1>1. SUFFICES ASSUME NEW d \in Clients, NEW x \in copy'[d], x \in copy[d]
               PROVE  Behind(x)'
  BY DEF CopiesBehind
<1>2. x \in Object /\ Behind(x)
  BY <1>1 DEF TypeOK, CopiesBehind
<1> QED BY <1>2, BehindKept

-----------------------------------------------------------------------------
(***************************************************************************)
(* The invariant is kept by every action.                                  *)
(***************************************************************************)
\* What the steps that end a call have in common.
LEMMA EndKeeps ==
  ASSUME IInv, NEW c \in Clients, NEW leaks \in BOOLEAN, leaks => c \in held,
         Return(c, leaks), entity' = entity, edits' = edits,
         RowsMoveOn, rows' \in [Records -> Row],
         NEW o \in SUBSET Object, copy' = [copy EXCEPT ![c] = o],
         \A x \in o : x \in copy[c] \/ Behind(x)', \A x, y \in o : x = y,
         acked' \in [Records -> SUBSET Edits], deletes' \in [Records -> Nat],
         faults' \in 0 .. MaxFaults,
         NoLostUpdate', DeletedOnce'
  PROVE  IInv'
<1> USE DEF IInv
<1>1. Sessions' /\ leaked' \in Nat
  BY ReturnSessions DEF Sessions
<1>2. /\ pc' \in [Clients -> States] /\ op' \in [Clients -> Ops]
      /\ rec' = rec /\ held' \subseteq Clients
      /\ \A d \in Clients : pc'[d] # "idle" => d # c /\ pc[d] # "idle"
      /\ OpsKnown'
  BY ReturnTypes
<1>3. copy' \in [Clients -> SUBSET Object]
  BY DEF TypeOK
<1>4. TypeOK'
  BY <1>1, <1>2, <1>3 DEF TypeOK
<1>5. \A d \in Clients : copy'[d] = IF d = c THEN o ELSE copy[d]
  BY DEF TypeOK
<1>6. CopiesBehind'
  <2>1. \A d \in Clients : \A x \in copy'[d] : x \in copy[d] \/ Behind(x)'
    BY <1>5
  <2> QED BY <2>1, ObjectsKept
<1>7. CopiesOfCall'
  BY <1>2, <1>5 DEF CopiesOfCall
<1>8. FreshEmpty'
  BY FreshKept
<1>9. OneObject'
  BY <1>5 DEF OneObject
<1> QED BY <1>1, <1>2, <1>4, <1>6, <1>7, <1>8, <1>9 DEF Sessions

\* What the steps that leave the database alone have in common.
LEMMA DatabaseAlone ==
  ASSUME IInv, UNCHANGED <<entity, rows, acked, deletes>>
  PROVE  /\ RowsMoveOn /\ rows' \in [Records -> Row]
         /\ FreshEmpty' /\ NoLostUpdate' /\ DeletedOnce'
<1>1. RowsMoveOn /\ rows' \in [Records -> Row]
  BY RowsAlone DEF IInv
<1> QED BY <1>1, FreshKept, AckedKept, DeletedKept DEF IInv

LEMMA BeginKeeps ==
  ASSUME IInv, NEW c \in Clients, NEW r \in Records, NEW o \in Operations[entity[r]],
         Begin(c, r, o), edits' \in 0 .. MaxEdits,
         NEW obj \in SUBSET Object, copy' = [copy EXCEPT ![c] = obj],
         \A x \in obj : x.rec = r /\ Behind(x), \A x, y \in obj : x = y
  PROVE  IInv'
<1> USE DEF IInv
<1>1. /\ pc[c] = "idle"
      /\ pc' = [pc EXCEPT ![c] = IF o.find \in {"success", "finally"} THEN "find" ELSE "wait"]
      /\ op' = [op EXCEPT ![c] = o] /\ rec' = [rec EXCEPT ![c] = r]
      /\ UNCHANGED <<entity, rows, held, leaked, acked, deletes, faults>>
  BY DEF Begin
<1>2. o \in Ops
  BY OperationsAssumption DEF TypeOK
<1>3. PICK p \in {"find", "wait"} : pc' = [pc EXCEPT ![c] = p]
  BY <1>1
<1>4. p \in States /\ p \notin Holding /\ "idle" \notin Holding
  BY DEF States, Holding
<1>5. /\ RowsMoveOn /\ rows' \in [Records -> Row]
      /\ FreshEmpty' /\ NoLostUpdate' /\ DeletedOnce'
  BY <1>1, DatabaseAlone
<1>6. TypeOK'
  <2>1. pc' \in [Clients -> States]
    BY <1>3, <1>4 DEF TypeOK
  <2>2. op' \in [Clients -> Ops] /\ rec' \in [Clients -> Records]
    BY <1>1, <1>2 DEF TypeOK
  <2>3. copy' \in [Clients -> SUBSET Object]
    BY DEF TypeOK
  <2> QED BY <1>1, <1>5, <2>1, <2>2, <2>3 DEF TypeOK
<1>7. Sessions'
  BY <1>1, <1>3, <1>4, SameSessions DEF Sessions
<1>8. \A d \in Clients :
        /\ op'[d] = IF d = c THEN o ELSE op[d]
        /\ rec'[d] = IF d = c THEN r ELSE rec[d]
        /\ copy'[d] = IF d = c THEN obj ELSE copy[d]
        /\ d # c => pc'[d] = pc[d]
  BY <1>1 DEF TypeOK
<1>9. OpsKnown'
  <2>1. pc'[c] \in {"find", "finding"} => o.find \in {"success", "finally"}
    BY <1>1 DEF TypeOK
  <2> QED BY <1>1, <1>8, <2>1 DEF OpsKnown
<1>10. CopiesOfCall'
  BY <1>8 DEF CopiesOfCall
<1>11. CopiesBehind'
  <2>1. \A x \in obj : Behind(x)'
    BY <1>1, <1>5, BehindKept
  <2> QED BY <1>1, <1>5, <1>8, <2>1, ObjectsKept
<1>12. OneObject'
  BY <1>8 DEF OneObject
<1> QED BY <1>5, <1>6, <1>7, <1>9, <1>10, <1>11, <1>12 DEF Sessions

LEMMA CallKeeps ==
  ASSUME IInv, NEW c \in Clients, Call(c)
  PROVE  IInv'
<1>0. PICK r \in Records : \E o \in Operations[entity[r]] :
        CallInsert(c, r, o) \/ CallUpdate(c, r, o) \/ CallDelete(c, r, o) \/ CallQuery(c, r, o)
  BY DEF Call
<1>1. PICK o \in Operations[entity[r]] :
        CallInsert(c, r, o) \/ CallUpdate(c, r, o) \/ CallDelete(c, r, o) \/ CallQuery(c, r, o)
  BY <1>0
<1>2. edits \in 0 .. MaxEdits /\ copy \in [Clients -> SUBSET Object]
  BY DEF IInv, TypeOK
<1>3. CASE CallInsert(c, r, o)
  <2>1. Begin(c, r, o) /\ copy' = [copy EXCEPT ![c] = {}] /\ edits' = edits
    BY <1>3 DEF CallInsert
  <2> QED BY <1>2, <2>1, BeginKeeps
<1>4. CASE CallQuery(c, r, o)
  <2>1. Begin(c, r, o) /\ copy' = [copy EXCEPT ![c] = {}] /\ edits' = edits
    BY <1>4 DEF CallQuery
  <2> QED BY <1>2, <2>1, BeginKeeps
<1>5. CASE CallDelete(c, r, o)
  <2>1. Begin(c, r, o) /\ edits' = edits
    BY <1>5 DEF CallDelete
  <2>2. CASE o.find # "given"
    <3>1. copy' = [copy EXCEPT ![c] = {}]
      BY <1>5, <2>2 DEF CallDelete
    <3> QED BY <1>2, <2>1, <3>1, BeginKeeps
  <2>3. CASE o.find = "given"
    <3>1. copy' = copy /\ \E x \in copy[c] : x.rec = r
      BY <1>5, <2>3 DEF CallDelete
    <3>2. copy' = [copy EXCEPT ![c] = copy[c]] /\ copy[c] \in SUBSET Object
      BY <1>2, <3>1
    <3>3. /\ \A x \in copy[c] : x.rec = r /\ Behind(x)
          /\ \A x, y \in copy[c] : x = y
      BY <3>1 DEF IInv, CopiesBehind, OneObject
    <3> QED BY <1>2, <2>1, <3>2, <3>3, BeginKeeps
  <2> QED BY <2>2, <2>3
<1>6. CASE CallUpdate(c, r, o)
  <2>1. /\ Begin(c, r, o) /\ edits' = edits + 1 /\ edits < MaxEdits
        /\ \E x \in copy[c] :
             /\ x.rec = r
             /\ copy' = [copy EXCEPT ![c] = {[x EXCEPT !.has = @ \cup {edits + 1}]}]
    BY <1>6 DEF CallUpdate
  <2>2. PICK x \in copy[c] :
             /\ x.rec = r
             /\ copy' = [copy EXCEPT ![c] = {[x EXCEPT !.has = @ \cup {edits + 1}]}]
    BY <2>1
  <2> DEFINE y == [x EXCEPT !.has = @ \cup {edits + 1}]
  <2>3. x \in Object /\ Behind(x)
    BY <1>2 DEF IInv, CopiesBehind
  <2>4. edits + 1 \in Edits /\ edits' \in 0 .. MaxEdits
    BY <1>2, <2>1, BoundsAssumption DEF Edits
  <2>5. y.rec = r /\ y.ver = x.ver /\ y.has = x.has \cup {edits + 1} /\ y \in Object
    BY <2>2, <2>3, <2>4 DEF Object
  <2>6. copy' = [copy EXCEPT ![c] = {y}]
    BY <2>2
  <2> HIDE DEF y
  <2>7. Behind(y)
    BY <2>2, <2>3, <2>5 DEF Behind
  <2>8. Begin(c, r, o)
    BY <2>1
  <2>9. {y} \in SUBSET Object /\ (\A z \in {y} : z.rec = r /\ Behind(z)) /\ \A z, w \in {y} : z = w
    BY <2>5, <2>7
  <2> QED BY <2>4, <2>6, <2>8, <2>9, BeginKeeps
<1> QED BY <1>1, <1>3, <1>4, <1>5, <1>6

\* A step of a call that goes on: it may change its connection and its object.
LEMMA GoesOnKeeps ==
  ASSUME IInv, NEW c \in Clients, pc[c] # "idle",
         NEW p \in States, pc' = [pc EXCEPT ![c] = p],
         p = "finding" => pc[c] = "find", p # "find",
         UNCHANGED <<entity, rows, op, rec, leaked, edits, acked, deletes, faults>>,
         Sessions', held' \subseteq Clients,
         NEW o \in {copy[c], Snapshot(rec[c])}, copy' = [copy EXCEPT ![c] = o]
  PROVE  IInv'
<1> USE DEF IInv
<1>1. rec[c] \in Records /\ copy[c] \in SUBSET Object
  BY DEF TypeOK
<1>2. /\ \A x \in o : x \in Object /\ x.rec = rec[c] /\ Behind(x)
      /\ \A x, y \in o : x = y
  <2>1. CASE o = copy[c]
    BY <1>1, <2>1 DEF CopiesBehind, CopiesOfCall, OneObject
  <2>2. CASE o = Snapshot(rec[c])
    <3>1. \A x \in o : x \in Object /\ x.rec = rec[c] /\ Behind(x)
      BY <1>1, <2>2, Snapshots
    <3>2. \A x, y \in o : x = y
      BY <2>2 DEF Snapshot
    <3> QED BY <3>1, <3>2
  <2> QED BY <2>1, <2>2
<1>3. /\ RowsMoveOn /\ rows' \in [Records -> Row]
      /\ FreshEmpty' /\ NoLostUpdate' /\ DeletedOnce'
  BY DatabaseAlone
<1>4. TypeOK'
  <2>1. pc' \in [Clients -> States]
    BY DEF TypeOK
  <2>2. copy' \in [Clients -> SUBSET Object]
    BY <1>2 DEF TypeOK
  <2> QED BY <1>3, <2>1, <2>2 DEF TypeOK
<1>5. \A d \in Clients : /\ copy'[d] = IF d = c THEN o ELSE copy[d]
                         /\ pc'[d] # "idle" => pc[d] # "idle"
                         /\ pc'[d] = "find" => pc[d] = "find"
                         /\ pc'[d] = "finding" => pc[d] \in {"find", "finding"}
  BY DEF TypeOK
<1>6. OpsKnown' /\ CopiesOfCall' /\ OneObject'
  BY <1>2, <1>5 DEF OpsKnown, CopiesOfCall, OneObject
<1>7. CopiesBehind'
  <2>1. \A x \in o : Behind(x)'
    BY <1>2, <1>3, BehindKept
  <2> QED BY <1>3, <1>5, <2>1, ObjectsKept
<1> QED BY <1>3, <1>4, <1>6, <1>7 DEF Sessions

LEMMA ConnectKeeps ==
  ASSUME IInv, NEW c \in Clients, Connect(c)
  PROVE  IInv'
<1>1. /\ pc[c] \in {"find", "wait"} /\ Cardinality(held) + leaked < PoolSize
      /\ held' = held \cup {c}
      /\ UNCHANGED <<entity, rows, op, rec, copy, leaked, edits, acked, deletes, faults>>
  BY DEF Connect
<1>2. PICK p \in Holding : pc' = [pc EXCEPT ![c] = p] /\ (p = "finding" => pc[c] = "find")
  <2>1. CASE pc[c] = "find"
    BY <2>1 DEF Connect, Holding
  <2>2. CASE pc[c] = "wait" /\ op[c].find = "same"
    BY <2>2 DEF Connect, Holding
  <2>3. CASE pc[c] = "wait" /\ op[c].find # "same"
    BY <2>3 DEF Connect, Holding
  <2> QED BY <1>1, <2>1, <2>2, <2>3
<1>3. p \in States /\ pc[c] # "idle" /\ pc[c] \notin Holding /\ p # "find"
  BY <1>1 DEF Holding, States
<1>4. c \notin held
  BY <1>3 DEF IInv, HeldByRunning
<1>5. HeldByRunning'
  <2>1. \A d \in Clients : pc'[d] = IF d = c THEN p ELSE pc[d]
    BY <1>2 DEF IInv, TypeOK
  <2>2. held' = {d \in Clients : pc'[d] \in Holding}
    BY <1>1, <2>1 DEF IInv, HeldByRunning
  <2> QED BY <2>2 DEF HeldByRunning, Holding
<1>6. PoolBound'
  <2>1. Cardinality(held') = Cardinality(held) + 1 /\ Cardinality(held) \in Nat
    BY <1>1, <1>4, HeldFinite, FS_AddElement DEF IInv
  <2>2. leaked \in Nat /\ leaked' = leaked
    BY <1>1 DEF IInv, TypeOK
  <2>3. Cardinality(held') + leaked' <= PoolSize
    BY <1>1, <2>1, <2>2, BoundsAssumption
  <2> QED BY <2>3 DEF PoolBound
<1>7. copy' = [copy EXCEPT ![c] = copy[c]] /\ held' \subseteq Clients
  BY <1>1 DEF IInv, TypeOK
<1> QED BY <1>1, <1>2, <1>3, <1>5, <1>6, <1>7, GoesOnKeeps DEF Sessions

LEMMA LookupsKeep ==
  ASSUME IInv, NEW c \in Clients, Find(c) \/ Look(c)
  PROVE  IInv'
<1>1. CASE Look(c)
  <2>1. /\ pc[c] = "look" /\ pc' = [pc EXCEPT ![c] = "run"] /\ held' = held
        /\ copy' = [copy EXCEPT ![c] = Snapshot(rec[c])]
        /\ UNCHANGED <<entity, rows, op, rec, leaked, edits, acked, deletes, faults>>
    BY <1>1 DEF Look
  <2>2. "run" \in States /\ "run" \in Holding /\ "look" \in Holding
    BY DEF States, Holding
  <2>3. Sessions' /\ held' \subseteq Clients
    BY <2>1, <2>2, SameSessions DEF IInv, Sessions, TypeOK
  <2> QED BY <2>1, <2>2, <2>3, GoesOnKeeps
<1>2. CASE Find(c)
  <2>1. /\ pc[c] = "finding" /\ pc' = [pc EXCEPT ![c] = "wait"] /\ held' = held \ {c}
        /\ copy' = [copy EXCEPT ![c] = Snapshot(rec[c])]
        /\ UNCHANGED <<entity, rows, op, rec, leaked, edits, acked, deletes, faults>>
    BY <1>2 DEF Find
  <2>2. "wait" \in States /\ "wait" \notin Holding
    BY DEF States, Holding
  <2>3. HeldByRunning'
    <3>1. \A d \in Clients : pc'[d] = IF d = c THEN "wait" ELSE pc[d]
      BY <2>1 DEF IInv, TypeOK
    <3>2. held' = {d \in Clients : pc'[d] \in Holding}
      BY <2>1, <2>2, <3>1 DEF IInv, HeldByRunning
    <3> QED BY <3>2 DEF HeldByRunning, Holding
  <2>4. PoolBound'
    <3>1. /\ IsFiniteSet(held) /\ Cardinality(held) \in Nat
          /\ Cardinality(held') <= Cardinality(held) /\ Cardinality(held') \in Nat
      BY <2>1, HeldFinite, FS_Subset, FS_CardinalityType DEF IInv
    <3>2. leaked \in Nat /\ leaked' = leaked /\ Cardinality(held) + leaked <= PoolSize
      BY <2>1 DEF IInv, TypeOK, PoolBound
    <3>3. Cardinality(held') + leaked' <= PoolSize
      BY <3>1, <3>2, BoundsAssumption
    <3> QED BY <3>3 DEF PoolBound
  <2>5. Sessions' /\ held' \subseteq Clients
    BY <2>1, <2>3, <2>4 DEF Sessions, IInv, TypeOK
  <2> QED BY <2>1, <2>2, <2>5, GoesOnKeeps
<1> QED BY <1>1, <1>2

LEMMA RunningHolds ==
  ASSUME IInv, NEW c \in Clients, pc[c] = "run"
  PROVE  c \in held
BY DEF IInv, HeldByRunning, Holding

LEMMA UnwrittenKeeps ==
  ASSUME IInv, NEW c \in Clients, Query(c) \/ NoAccess(c) \/ Refuse(c)
  PROVE  IInv'
<1>1. pc[c] = "run" /\ UNCHANGED <<entity, rows, edits, acked, deletes, faults>>
  BY DEF Query, NoAccess, Refuse
<1>2. c \in held
  BY <1>1, RunningHolds
<1>3. PICK leaks \in BOOLEAN : Return(c, leaks)
  <2>1. (op[c].closes = "never") \in BOOLEAN /\ LeaksOnFailure(op[c].closes) \in BOOLEAN
    BY DEF LeaksOnFailure
  <2> QED BY <2>1 DEF Query, NoAccess, Refuse
<1>4. rec[c] \in Records /\ copy[c] \in SUBSET Object /\ copy \in [Clients -> SUBSET Object]
  BY DEF IInv, TypeOK
<1>5. PICK o \in {{}, copy[c], Snapshot(rec[c])} : copy' = [copy EXCEPT ![c] = o]
  <2>1. CASE Query(c)
    BY <2>1 DEF Query
  <2>2. CASE Refuse(c)
    BY <2>2 DEF Refuse
  <2>3. CASE NoAccess(c)
    BY <2>3, <1>4 DEF NoAccess
  <2> QED BY <2>1, <2>2, <2>3
<1>6. /\ RowsMoveOn /\ rows' \in [Records -> Row]
      /\ FreshEmpty' /\ NoLostUpdate' /\ DeletedOnce'
  BY <1>1, DatabaseAlone
<1>7. o \in SUBSET Object /\ (\A x \in o : x \in copy[c] \/ Behind(x)') /\ \A x, y \in o : x = y
  <2>1. CASE o = {}
    BY <2>1
  <2>2. CASE o = copy[c]
    BY <2>2, <1>4 DEF IInv, OneObject
  <2>3. CASE o = Snapshot(rec[c])
    <3>1. \A x \in o : x \in Object /\ Behind(x)
      BY <1>4, <2>3, Snapshots DEF IInv
    <3>2. \A x \in o : Behind(x)'
      BY <1>1, <1>6, <3>1, BehindKept DEF IInv
    <3>3. \A x, y \in o : x = y
      BY <2>3 DEF Snapshot
    <3> QED BY <3>1, <3>2, <3>3
  <2> QED BY <1>5, <2>1, <2>2, <2>3
<1>8. /\ acked' \in [Records -> SUBSET Edits] /\ deletes' \in [Records -> Nat]
      /\ faults' \in 0 .. MaxFaults
  BY <1>1 DEF IInv, TypeOK
<1> QED BY <1>1, <1>2, <1>3, <1>5, <1>6, <1>7, <1>8, EndKeeps

\* The object of a running write.
LEMMA OwnObject ==
  ASSUME IInv, NEW c \in Clients, pc[c] = "run", NEW x \in copy[c]
  PROVE  x \in Object /\ x.rec = rec[c] /\ Behind(x) /\ rec[c] \in Records
BY DEF IInv, TypeOK, CopiesOfCall, CopiesBehind

LEMMA FaultKeeps ==
  ASSUME IInv, NEW c \in Clients, Fault(c)
  PROVE  IInv'
<1>1. /\ faults < MaxFaults /\ faults' = faults + 1
      /\ copy' = [copy EXCEPT ![c] = {}]
      /\ UNCHANGED <<entity, edits, acked, deletes>>
  BY DEF Fault
<1>2. PICK leaks \in BOOLEAN : Return(c, leaks) /\ (leaks => c \in held)
  BY DEF Fault, LeaksOnFailure
<1>3. RowsMoveOn /\ rows' \in [Records -> Row]
  <2>1. CASE rows' = rows
    BY <2>1, RowsAlone DEF IInv
  <2>2. CASE Inserted(c)
    BY <2>2, InsertMovesOn DEF IInv
  <2>3. CASE pc[c] = "run" /\ \E x \in copy[c] : Updated(c, x) \/ Deleted(c, x)
    <3>1. PICK x \in copy[c] : Updated(c, x) \/ Deleted(c, x)
      BY <2>3
    <3>2. x \in Object /\ x.rec = rec[c] /\ Behind(x)
      BY <2>3, OwnObject
    <3>3. CASE Updated(c, x)
      BY <3>2, <3>3, UpdateMovesOn DEF IInv
    <3>4. CASE Deleted(c, x)
      BY <3>4, DeleteMovesOn DEF IInv
    <3> QED BY <3>1, <3>3, <3>4
  <2> QED BY <2>1, <2>2, <2>3 DEF Fault
<1>4. NoLostUpdate' /\ DeletedOnce'
  BY <1>1, <1>3, AckedKept, DeletedKept DEF IInv
<1>5. /\ acked' \in [Records -> SUBSET Edits] /\ deletes' \in [Records -> Nat]
      /\ faults' \in 0 .. MaxFaults
  BY <1>1, BoundsAssumption DEF IInv, TypeOK
<1>6. PICK o \in SUBSET Object : o = {}
  OBVIOUS
<1>7. /\ copy' = [copy EXCEPT ![c] = o]
      /\ (\A x \in o : x \in copy[c] \/ Behind(x)') /\ \A x, y \in o : x = y
      /\ entity' = entity /\ edits' = edits
  BY <1>1, <1>6
<1>8. Return(c, leaks) /\ (leaks => c \in held)
  BY <1>2
<1> QED BY <1>3, <1>4, <1>5, <1>7, <1>8, EndKeeps

LEMMA CommitKeeps ==
  ASSUME IInv, NEW c \in Clients, Commit(c)
  PROVE  IInv'
<1>1. /\ pc[c] = "run" /\ UNCHANGED <<entity, edits, faults>>
      /\ Return(c, op[c].closes = "never")
  BY DEF Commit
<1>2. PICK leaks \in BOOLEAN : Return(c, leaks)
  BY <1>1
<1>3. c \in held
  BY <1>1, RunningHolds
<1> DEFINE k == rec[c]
<1>4. /\ k \in Records /\ rows \in [Records -> Row]
      /\ acked \in [Records -> SUBSET Edits] /\ deletes \in [Records -> Nat]
      /\ faults' \in 0 .. MaxFaults
  BY <1>1 DEF IInv, TypeOK
<1>5. CASE /\ Inserted(c)
           /\ copy' = [copy EXCEPT ![c] = {[rec |-> rec[c], ver |-> 0, has |-> {}]}]
           /\ UNCHANGED <<acked, deletes>>
  <2>0. PICK z : z = [rec |-> rec[c], ver |-> 0, has |-> {}]
    OBVIOUS
  <2>1. RowsMoveOn /\ rows' \in [Records -> Row]
    BY <1>5, InsertMovesOn DEF IInv
  <2>2. NoLostUpdate' /\ DeletedOnce'
    BY <1>1, <1>5, <2>1, AckedKept, DeletedKept DEF IInv
  <2>3. rows'[k] = Stored
    BY <1>4, <1>5 DEF Inserted
  <2>4. z \in Object /\ z.rec = k /\ z.ver = 0 /\ z.has = {}
    BY <2>0, <1>4 DEF Object
  <2>5. copy' = [copy EXCEPT ![c] = {z}]
    BY <2>0, <1>5
  <2>6. Behind(z)'
    BY <2>3, <2>4 DEF Behind, Stored
  <2>7. {z} \in SUBSET Object /\ (\A x \in {z} : x \in copy[c] \/ Behind(x)')
        /\ \A x, y \in {z} : x = y
    BY <2>4, <2>6
  <2>8. acked' \in [Records -> SUBSET Edits] /\ deletes' \in [Records -> Nat]
    BY <1>4, <1>5
  <2> QED BY <1>1, <1>2, <1>3, <1>4, <2>1, <2>2, <2>5, <2>7, <2>8, EndKeeps
<1>6. ASSUME NEW x \in copy[c], Updated(c, x),
             copy' = [copy EXCEPT ![c] = {[x EXCEPT !.ver = rows[rec[c]].ver + 1]}],
             acked' = [acked EXCEPT ![rec[c]] = @ \cup x.has],
             UNCHANGED deletes
      PROVE  IInv'
  <2>0. PICK z : z = [x EXCEPT !.ver = rows[rec[c]].ver + 1]
    OBVIOUS
  <2>1. x \in Object /\ x.rec = k /\ Behind(x)
    BY <1>1, OwnObject
  <2>2. /\ RowsMoveOn /\ rows' \in [Records -> Row]
        /\ rows[k].state # "fresh" /\ rows'[k].state = rows[k].state
        /\ rows'[k].ver = rows[k].ver + 1 /\ rows'[k].has = x.has
    BY <1>6, <2>1, UpdateMovesOn DEF IInv
  <2>3. DeletedOnce'
    BY <1>1, <1>6, <2>2, DeletedKept DEF IInv
  <2>4. rows[k].ver + 1 \in Nat
    BY <1>4 DEF Row
  <2>5. z \in Object /\ z.rec = k /\ z.ver = rows[k].ver + 1 /\ z.has = x.has
    BY <2>0, <2>1, <2>4 DEF Object
  <2>6. copy' = [copy EXCEPT ![c] = {z}]
    BY <2>0, <1>6
  <2>7. x.has \in SUBSET Edits
    BY <2>1 DEF Object
  <2>8. acked' \in [Records -> SUBSET Edits] /\ deletes' \in [Records -> Nat]
    BY <1>4, <1>6, <2>7
  <2>9. NoLostUpdate'
    <3>1. SUFFICES ASSUME NEW r \in Records, entity[r] \in Versioned
                   PROVE  acked'[r] \subseteq rows'[r].has
      BY <1>1 DEF NoLostUpdate
    <3>2. acked[r] \subseteq rows[r].has /\ rows[r].has \subseteq rows'[r].has
      BY <2>2, <3>1 DEF IInv, NoLostUpdate, RowsMoveOn, MovesOn
    <3>3. acked'[r] = IF r = k THEN acked[r] \cup x.has ELSE acked[r]
      BY <1>4, <1>6
    <3> QED BY <2>2, <3>2, <3>3
  <2>10. Behind(z)'
    <3>1. rows'[k].state # "fresh" /\ z.ver = rows'[k].ver /\ z.has = rows'[k].has
      BY <2>2, <2>5
    <3>2. z.ver <= rows'[k].ver
      BY <2>4, <2>5, <3>1
    <3> QED BY <2>5, <3>1, <3>2 DEF Behind
  <2>11. {z} \in SUBSET Object /\ (\A w \in {z} : w \in copy[c] \/ Behind(w)')
         /\ \A w, y \in {z} : w = y
    BY <2>5, <2>10
  <2> QED BY <1>1, <1>2, <1>3, <1>4, <2>2, <2>3, <2>6, <2>8, <2>9, <2>11, EndKeeps
<1>7. ASSUME NEW x \in copy[c], Deleted(c, x),
             copy' = [copy EXCEPT ![c] = {}],
             deletes' = [deletes EXCEPT ![rec[c]] = IF entity[rec[c]] \in Assigned
                                                     THEN @ ELSE @ + 1],
             UNCHANGED acked
      PROVE  IInv'
  <2>1. /\ RowsMoveOn /\ rows' \in [Records -> Row]
        /\ rows[k].state = "live" /\ rows'[k].state = "deleted"
    BY <1>7, DeleteMovesOn DEF IInv
  <2>2. NoLostUpdate'
    BY <1>1, <1>7, <2>1, AckedKept DEF IInv
  <2>3. entity[k] \notin Assigned => deletes[k] = 0
    <3>1. entity[k] \notin Assigned =>
            deletes[k] \in Nat /\ deletes[k] <= 1 /\ deletes[k] # 1
      BY <1>4, <2>1 DEF IInv, DeletedOnce
    <3> QED BY <3>1
  <2>4. \A r \in Records : entity[r] \notin Assigned =>
          deletes'[r] = IF r = k THEN 1 ELSE deletes[r]
    BY <1>4, <1>7, <2>3
  <2>5. DeletedOnce'
    BY <1>1, <2>1, <2>4 DEF IInv, DeletedOnce, RowsMoveOn, MovesOn
  <2>6. acked' \in [Records -> SUBSET Edits] /\ deletes' \in [Records -> Nat]
    BY <1>4, <1>7
  <2>7. PICK o \in SUBSET Object : o = {}
    OBVIOUS
  <2>8. copy' = [copy EXCEPT ![c] = o] /\ \A y \in o : FALSE
    BY <1>7, <2>7
  <2> QED BY <1>1, <1>2, <1>3, <1>4, <2>1, <2>2, <2>5, <2>6, <2>8, EndKeeps
<1>8. CASE /\ NothingToDelete(c)
           /\ copy' = [copy EXCEPT ![c] = {}]
           /\ UNCHANGED <<rows, acked, deletes>>
  <2>1. /\ RowsMoveOn /\ rows' \in [Records -> Row]
        /\ NoLostUpdate' /\ DeletedOnce'
    BY <1>1, <1>8, DatabaseAlone
  <2>2. PICK o \in SUBSET Object : o = {}
    OBVIOUS
  <2>3. /\ copy' = [copy EXCEPT ![c] = o] /\ \A y \in o : FALSE
        /\ acked' \in [Records -> SUBSET Edits] /\ deletes' \in [Records -> Nat]
    BY <1>4, <1>8, <2>2
  <2> QED BY <1>1, <1>2, <1>3, <1>4, <2>1, <2>3, EndKeeps
<1> QED BY <1>5, <1>6, <1>7, <1>8 DEF Commit

LEMMA CrashKeeps ==
  ASSUME IInv, Crash
  PROVE  IInv'
<1>1. /\ pc' = [c \in Clients |-> "idle"] /\ copy' = [c \in Clients |-> {}]
      /\ op' = [c \in Clients |-> Read] /\ held' = {} /\ leaked' = 0
      /\ faults < MaxFaults /\ faults' = faults + 1
      /\ UNCHANGED <<entity, rows, rec, edits, acked, deletes>>
  BY DEF Crash
<1>2. /\ RowsMoveOn /\ rows' \in [Records -> Row]
      /\ FreshEmpty' /\ NoLostUpdate' /\ DeletedOnce'
  BY <1>1, DatabaseAlone
<1>3. TypeOK'
  <2>1. pc' \in [Clients -> States] /\ copy' \in [Clients -> SUBSET Object]
    BY <1>1 DEF States
  <2>2. op' \in [Clients -> Ops] /\ rec' \in [Clients -> Records]
    BY <1>1, ReadOp DEF IInv, TypeOK
  <2>3. faults' \in 0 .. MaxFaults
    BY <1>1, BoundsAssumption DEF IInv, TypeOK
  <2> QED BY <1>1, <1>2, <2>1, <2>2, <2>3 DEF IInv, TypeOK
<1>4. HeldByRunning'
  BY <1>1 DEF HeldByRunning, Holding
<1>5. PoolBound'
  <2>1. Cardinality(held') + leaked' = 0
    BY <1>1, FS_EmptySet
  <2> QED BY <2>1, BoundsAssumption DEF PoolBound
<1>6. OpsKnown' /\ CopiesOfCall' /\ CopiesBehind' /\ OneObject'
  BY <1>1 DEF OpsKnown, CopiesOfCall, CopiesBehind, OneObject
<1> QED BY <1>2, <1>3, <1>4, <1>5, <1>6 DEF IInv

-----------------------------------------------------------------------------
(***************************************************************************)
(* The theorems.                                                           *)
(***************************************************************************)
LEMMA Start == Init => IInv
<1> SUFFICES ASSUME Init PROVE IInv
  OBVIOUS
<1>1. Stored \in Row /\ [Stored EXCEPT !.state = "fresh"] \in Row
      /\ Stored.state = "live"
      /\ [Stored EXCEPT !.state = "fresh"].ver = 0 /\ [Stored EXCEPT !.state = "fresh"].has = {}
  BY DEF Stored, Row
<1>2. \A r \in Records : rows[r] \in {Stored, [Stored EXCEPT !.state = "fresh"]}
  BY DEF Init
<1>3. rows \in [Records -> Row] /\ FreshEmpty
  BY <1>1, <1>2 DEF Init, FreshEmpty
<1>4. TypeOK
  <2>1. pc \in [Clients -> States] /\ op \in [Clients -> Ops] /\ rec \in [Clients -> Records]
    BY ReadOp DEF Init, States
  <2>2. copy \in [Clients -> SUBSET Object] /\ held \subseteq Clients /\ leaked \in Nat
    BY DEF Init
  <2>3. edits \in 0 .. MaxEdits /\ faults \in 0 .. MaxFaults
    BY BoundsAssumption DEF Init
  <2>4. acked \in [Records -> SUBSET Edits] /\ deletes \in [Records -> Nat]
    BY DEF Init
  <2>5. entity \in [Records -> Entities]
    BY DEF Init
  <2> QED BY <1>3, <2>1, <2>2, <2>3, <2>4, <2>5 DEF TypeOK
<1>5. HeldByRunning
  BY DEF Init, HeldByRunning, Holding
<1>6. PoolBound
  <2>1. Cardinality(held) + leaked = 0
    BY FS_EmptySet DEF Init
  <2> QED BY <2>1, BoundsAssumption DEF PoolBound
<1>7. OpsKnown /\ CopiesOfCall /\ CopiesBehind /\ OneObject
  BY DEF Init, OpsKnown, CopiesOfCall, CopiesBehind, OneObject
<1>8. NoLostUpdate /\ DeletedOnce
  BY DEF Init, NoLostUpdate, DeletedOnce
<1> QED BY <1>3, <1>4, <1>5, <1>6, <1>7, <1>8 DEF IInv

LEMMA Step == IInv /\ [Next]_vars => IInv'
<1> SUFFICES ASSUME IInv, [Next]_vars PROVE IInv'
  OBVIOUS
<1>1. CASE UNCHANGED vars
  BY <1>1 DEF vars, IInv, TypeOK, HeldByRunning, PoolBound, OpsKnown, CopiesOfCall,
              CopiesBehind, Behind, OneObject, FreshEmpty, NoLostUpdate, DeletedOnce
<1>2. CASE Crash
  BY <1>2, CrashKeeps
<1>3. ASSUME NEW c \in Clients, Call(c) PROVE IInv'
  BY <1>3, CallKeeps
<1>4. ASSUME NEW c \in Clients, Connect(c) PROVE IInv'
  BY <1>4, ConnectKeeps
<1>5. ASSUME NEW c \in Clients, Work(c) PROVE IInv'
  BY <1>5, LookupsKeep, UnwrittenKeeps, CommitKeeps DEF Work
<1>6. ASSUME NEW c \in Clients, Fault(c) PROVE IInv'
  BY <1>6, FaultKeeps
<1> QED BY <1>1, <1>2, <1>3, <1>4, <1>5, <1>6 DEF Next

(* The inductive invariant holds of every behaviour. *)
THEOREM Invariance == Spec => []IInv
BY Start, Step, PTL DEF Spec

(* The variables keep their types: rows, objects and calls are what the     *)
(* DAOs can make of them.                                                   *)
THEOREM TypeCorrect == Spec => []TypeOK
<1>1. IInv => TypeOK
  BY DEF IInv
<1> QED BY <1>1, Invariance, PTL

(* No edit of a versioned row that a call confirmed is ever overwritten,    *)
(* for any number of clients and however they fail.                         *)
THEOREM UpdatesKept == Spec => []NoLostUpdate
<1>1. IInv => NoLostUpdate
  BY DEF IInv
<1> QED BY <1>1, Invariance, PTL

(* A row whose identifier the database made is deleted by at most one call  *)
(* that returns, and stays deleted, whichever way the deletes look it up.   *)
THEOREM DeletesOnce == Spec => []DeletedOnce
<1>1. IInv => DeletedOnce
  BY DEF IInv
<1> QED BY <1>1, Invariance, PTL

(* A call waits for a connection with none in its hands, and the calls and  *)
(* the leaks never share one out twice.                                     *)
THEOREM WaitsWithoutConnection ==
  Spec => [](/\ Cardinality(held) + leaked <= PoolSize
             /\ \A c \in Clients : pc[c] \in {"find", "wait"} => c \notin held)
<1>1. IInv => /\ Cardinality(held) + leaked <= PoolSize
              /\ \A c \in Clients : pc[c] \in {"find", "wait"} => c \notin held
  BY DEF IInv, PoolBound, HeldByRunning, Holding
<1> QED BY <1>1, Invariance, PTL

\* The tables close the session of every update of a versioned entity in a
\* finally, as those of the DAOs do.
UpdatesProtected ==
  \A e \in Entities \cap Versioned : \A o \in Operations[e] :
    o.act \in {"update", "saveOrUpdate"} => o.closes = "finally" /\ o.find = "given"

(* With such tables no update of a versioned row costs a connection, be it  *)
(* refused, failed or done.                                                 *)
THEOREM UpdatesClose ==
  ASSUME UpdatesProtected
  PROVE  Spec => UpdatesNeverLeak
<1>1. ASSUME IInv, [Next]_vars, NEW c \in Clients, Updating(c), pc'[c] = "idle"
      PROVE  leaked' <= leaked
  <2>1. /\ op[c] \in Operations[entity[rec[c]]] /\ entity[rec[c]] \in Entities \cap Versioned
        /\ leaked \in Nat /\ pc[c] # "idle" /\ op[c].act \in {"update", "saveOrUpdate"}
    BY <1>1 DEF IInv, OpsKnown, TypeOK, Updating
  <2>2. op[c].closes = "finally" /\ op[c].find = "given"
    BY <2>1 DEF UpdatesProtected
  <2>3. CASE UNCHANGED vars
    BY <2>1, <2>3 DEF vars
  <2>4. CASE Crash
    BY <2>1, <2>4 DEF Crash
  <2>5. ASSUME NEW d \in Clients, d # c, Call(d) \/ Connect(d) \/ Work(d) \/ Fault(d)
        PROVE  leaked' <= leaked
    <3>1. pc'[c] = pc[c]
      BY <1>1, <2>5 DEF IInv, TypeOK, Call, CallInsert, CallUpdate, CallDelete, CallQuery, Begin,
         Connect, Work, Find, Look, Query, NoAccess, Commit, Refuse, Fault, Return
    <3> QED BY <1>1, <2>1, <3>1
  <2>6. CASE Call(c) \/ Connect(c)
    <3>1. leaked' = leaked
      BY <2>6 DEF Call, CallInsert, CallUpdate, CallDelete, CallQuery, Begin, Connect
    <3> QED BY <2>1, <3>1
  <2>7. CASE Work(c)
    <3>1. leaked' = leaked
      BY <2>2, <2>1, <2>7
      DEF Work, Find, Look, Query, NoAccess, Commit, Refuse, Return, LeaksOnFailure
    <3> QED BY <2>1, <3>1
  <2>8. CASE Fault(c)
    <3>0. pc[c] # "finding"
      BY <1>1, <2>2 DEF IInv, OpsKnown
    <3>1. leaked' = leaked
      BY <2>2, <2>8, <3>0 DEF Fault, Return, LeaksOnFailure
    <3> QED BY <2>1, <3>1
  <2> QED BY <1>1, <2>3, <2>4, <2>5, <2>6, <2>7, <2>8 DEF Next
<1>2. IInv /\ [Next]_vars =>
        [\A c \in Clients : Updating(c) /\ pc'[c] = "idle" => leaked' <= leaked]_vars
  BY <1>1
<1> QED BY <1>2, Invariance, PTL DEF Spec, UpdatesNeverLeak
=============================================================================
