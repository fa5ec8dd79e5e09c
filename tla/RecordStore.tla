---------------------------- MODULE RecordStore ----------------------------
(***************************************************************************)
(* The database as the data access objects see it: clients (request        *)
(* threads) read rows, change the objects they got, and write them back     *)
(* later, each call in a session of its own with a connection of a bounded *)
(* pool.  DaoOperations says what each call does with its session.         *)
(*                                                                         *)
(* Hibernate, the pool and the database are modelled from how the DAOs use *)
(* them: a session takes its connection at its first statement and gives   *)
(* it back when it is closed; a failed commit is rolled back; the update   *)
(* or delete of a row that is gone is refused, and so is that of a         *)
(* versioned row of another version than the object's; nothing can be      *)
(* flushed outside of a transaction.  An entity whose identifiers the      *)
(* program assigns is different: its rows can be inserted again once they  *)
(* were deleted, two inserts may meet, and an object that is deleted and   *)
(* has no row any more counts as one that was never saved, so that there   *)
(* is nothing to delete and the call returns.  A caller whose write failed *)
(* does not use its object again.                                          *)
(***************************************************************************)
EXTENDS DaoOperations, Naturals, FiniteSets

CONSTANTS
  Clients,       \* the threads that call the DAOs
  Records,       \* the identifiers of rows
  Entities,      \* the entities
  Operations,    \* the operations there are on each entity
  Versioned,     \* the entities whose rows carry a version
  Assigned,      \* the entities whose identifiers the program assigns
  PoolSize,      \* the connections of the pool
  MaxEdits,      \* bound: the changes callers make to objects
  MaxFaults      \* bound: the failures of the database, and the restarts

ASSUME OperationsAssumption == \A e \in Entities : Operations[e] \subseteq Ops
ASSUME AssignedAssumption == Assigned \cap Versioned = {}
ASSUME ClientsAssumption == IsFiniteSet(Clients)
ASSUME BoundsAssumption == PoolSize \in Nat /\ MaxEdits \in Nat /\ MaxFaults \in Nat

VARIABLES
  entity,   \* the entity each record is of
  rows,     \* the rows of the database: state, version, and the edits they hold
  pc,       \* where the call of each client is
  op,       \* its operation (Read when there is no call)
  rec,      \* the record it is about
  copy,     \* the object the client holds: {} or its one snapshot of a row
  held,     \* the clients whose session holds a connection
  leaked,   \* the number of connections of sessions nobody will close
  edits,    \* the number of edits callers made
  acked,    \* of each record, the edits whose call returned
  deletes,  \* of each record with an identifier of the database's, the
            \* number of delete calls that returned
  faults    \* the number of failures and restarts that happened

vars == <<entity, rows, pc, op, rec, copy, held, leaked, edits, acked, deletes, faults>>

Edits == 1 .. MaxEdits
Row == [state : {"fresh", "live", "deleted"}, ver : Nat, has : SUBSET Edits]
Object == [rec : Records, ver : Nat, has : SUBSET Edits]
States == {"idle", "find", "finding", "wait", "look", "run"}
Holding == {"finding", "look", "run"}

TypeOK ==
  /\ entity \in [Records -> Entities]
  /\ rows \in [Records -> Row]
  /\ pc \in [Clients -> States]
  /\ op \in [Clients -> Ops]
  /\ rec \in [Clients -> Records]
  /\ copy \in [Clients -> SUBSET Object]
  /\ held \subseteq Clients
  /\ leaked \in Nat
  /\ edits \in 0 .. MaxEdits
  /\ acked \in [Records -> SUBSET Edits]
  /\ deletes \in [Records -> Nat]
  /\ faults \in 0 .. MaxFaults

-----------------------------------------------------------------------------
Stored == [state |-> "live", ver |-> 0, has |-> {}]
Snapshot(r) ==
  IF rows[r].state = "live" THEN {[rec |-> r, ver |-> rows[r].ver, has |-> rows[r].has]} ELSE {}

\* Mutant: the entities have no version that the database could compare.
AcceptsAnyVersion(r, o) == rows[r].state = "live"

(* The database's answer to the write of an object: a row that is gone is   *)
(* not written, nor is a versioned one that changed since the object was    *)
(* read.                                                                    *)
Accepts(r, o) ==
  /\ rows[r].state = "live"
  /\ entity[r] \in Versioned => o.ver = rows[r].ver

\* Mutant: every end of a call counts its connection back into the pool.
ReturnTwice(c, leaks) ==
  /\ pc' = [pc EXCEPT ![c] = "idle"]
  /\ held' = held \ {c}
  /\ leaked' = IF leaks THEN leaked + 1 ELSE leaked - 1
  /\ op' = [op EXCEPT ![c] = Read]
  /\ UNCHANGED rec

(* The end of a call: its session is closed, or its connection is lost.     *)
Return(c, leaks) ==
  /\ pc' = [pc EXCEPT ![c] = "idle"]
  /\ held' = held \ {c}
  /\ leaked' = IF leaks THEN leaked + 1 ELSE leaked
  /\ op' = [op EXCEPT ![c] = Read]
  /\ UNCHANGED rec

(* Whether a call whose query or transaction failed leaves its session open. *)
LeaksOnFailure(how) == how # "finally"

Init ==
  /\ entity \in [Records -> Entities]
  /\ rows \in [Records -> {Stored, [Stored EXCEPT !.state = "fresh"]}]
  /\ pc = [c \in Clients |-> "idle"]
  /\ op = [c \in Clients |-> Read]
  /\ \E r \in Records : rec = [c \in Clients |-> r]
  /\ copy = [c \in Clients |-> {}]
  /\ held = {}
  /\ leaked = 0
  /\ edits = 0
  /\ acked = [r \in Records |-> {}]
  /\ deletes = [r \in Records |-> 0]
  /\ faults = 0

-----------------------------------------------------------------------------
Begin(c, r, o) ==
  /\ pc[c] = "idle"
  /\ pc' = [pc EXCEPT ![c] = IF o.find \in {"success", "finally"} THEN "find" ELSE "wait"]
  /\ op' = [op EXCEPT ![c] = o]
  /\ rec' = [rec EXCEPT ![c] = r]
  /\ UNCHANGED <<entity, rows, held, leaked, acked, deletes, faults>>

(* A new object is saved: its identifier is its own, unless the program     *)
(* assigned one that is taken.                                              *)
CallInsert(c, r, o) ==
  /\ o.act \in {"insert", "saveOrUpdate"}
  /\ \/ entity[r] \in Assigned
     \/ rows[r].state = "fresh" /\ \A d \in Clients : pc[d] # "idle" => rec[d] # r
  /\ Begin(c, r, o)
  /\ copy' = [copy EXCEPT ![c] = {}]
  /\ UNCHANGED edits

(* The caller changes the object it holds and has it written. *)
CallUpdate(c, r, o) ==
  /\ o.act \in {"update", "saveOrUpdate"}
  /\ edits < MaxEdits
  /\ \E x \in copy[c] :
       /\ x.rec = r
       /\ copy' = [copy EXCEPT ![c] = {[x EXCEPT !.has = @ \cup {edits + 1}]}]
  /\ edits' = edits + 1
  /\ Begin(c, r, o)

(* A delete is given an object or the identifier of a row there is or was. *)
CallDelete(c, r, o) ==
  /\ o.act = "delete"
  /\ rows[r].state # "fresh"
  /\ IF o.find = "given"
       THEN (\E x \in copy[c] : x.rec = r) /\ UNCHANGED copy
       ELSE copy' = [copy EXCEPT ![c] = {}]
  /\ Begin(c, r, o)
  /\ UNCHANGED edits

CallQuery(c, r, o) ==
  /\ o.act \in {"read", "count"}
  /\ copy' = [copy EXCEPT ![c] = {}]
  /\ Begin(c, r, o)
  /\ UNCHANGED edits

Call(c) ==
  \E r \in Records : \E o \in Operations[entity[r]] :
    CallInsert(c, r, o) \/ CallUpdate(c, r, o) \/ CallDelete(c, r, o) \/ CallQuery(c, r, o)

(* The session's first statement takes a connection, once there is one. *)
Connect(c) ==
  /\ pc[c] \in {"find", "wait"}
  /\ Cardinality(held) + leaked < PoolSize
  /\ held' = held \cup {c}
  /\ pc' = [pc EXCEPT ![c] = CASE @ = "find" -> "finding"
                               [] @ = "wait" /\ op[c].find = "same" -> "look"
                               [] OTHER -> "run"]
  /\ UNCHANGED <<entity, rows, op, rec, copy, leaked, edits, acked, deletes, faults>>

\* Mutant: the delete opens its own session first and looks the row up inside.
FindInside(c) ==
  /\ pc[c] = "finding"
  /\ copy' = [copy EXCEPT ![c] = Snapshot(rec[c])]
  /\ pc' = [pc EXCEPT ![c] = "wait"]
  /\ UNCHANGED <<entity, rows, op, rec, held, leaked, edits, acked, deletes, faults>>

(* The lookup of a delete in a session of its own, which is closed. *)
Find(c) ==
  /\ pc[c] = "finding"
  /\ copy' = [copy EXCEPT ![c] = Snapshot(rec[c])]
  /\ pc' = [pc EXCEPT ![c] = "wait"]
  /\ held' = held \ {c}
  /\ UNCHANGED <<entity, rows, op, rec, leaked, edits, acked, deletes, faults>>

(* The lookup of a delete in the session of the delete. *)
Look(c) ==
  /\ pc[c] = "look"
  /\ copy' = [copy EXCEPT ![c] = Snapshot(rec[c])]
  /\ pc' = [pc EXCEPT ![c] = "run"]
  /\ UNCHANGED <<entity, rows, op, rec, held, leaked, edits, acked, deletes, faults>>

Query(c) ==
  /\ pc[c] = "run"
  /\ op[c].act \in {"read", "count"}
  /\ copy' = [copy EXCEPT ![c] = IF op[c].act = "read" THEN Snapshot(rec[c]) ELSE {}]
  /\ Return(c, op[c].closes = "never")
  /\ UNCHANGED <<entity, rows, edits, acked, deletes, faults>>

(* The early return for a user who may see nothing. *)
NoAccess(c) ==
  /\ pc[c] = "run"
  /\ op[c].closes = "access"
  /\ Return(c, TRUE)
  /\ UNCHANGED <<entity, rows, copy, edits, acked, deletes, faults>>

(* What a committed write makes of the row. *)
Free(r) == rows[r].state = "fresh" \/ (entity[r] \in Assigned /\ rows[r].state = "deleted")

Inserted(c) ==
  /\ copy[c] = {}
  /\ op[c].act \in {"insert", "saveOrUpdate"}
  /\ Free(rec[c])
  /\ rows' = [rows EXCEPT ![rec[c]] = Stored]

\* Mutant: the object is merged, which inserts it again if its row is gone.
Merged(c, x) ==
  /\ op[c].act \in {"update", "saveOrUpdate"}
  /\ rows[rec[c]].state = "deleted" \/ Accepts(rec[c], x)
  /\ rows' = [rows EXCEPT ![rec[c]] = [state |-> "live", ver |-> @.ver + 1, has |-> x.has]]

Updated(c, x) ==
  /\ op[c].act \in {"update", "saveOrUpdate"}
  /\ Accepts(rec[c], x)
  /\ rows' = [rows EXCEPT ![rec[c]] = [state |-> "live", ver |-> @.ver + 1, has |-> x.has]]

Deleted(c, x) ==
  /\ op[c].act = "delete"
  /\ op[c].commits
  /\ Accepts(rec[c], x)
  /\ rows' = [rows EXCEPT ![rec[c]].state = "deleted"]

(* The delete of an object of another session whose row is not there: with  *)
(* neither a version nor an identifier of the database's it counts as one   *)
(* that was never saved.                                                    *)
NothingToDelete(c) ==
  /\ op[c].act = "delete"
  /\ op[c].find # "same"
  /\ op[c].commits
  /\ entity[rec[c]] \in Assigned
  /\ rows[rec[c]].state # "live"
  /\ copy[c] # {}

Commit(c) ==
  /\ pc[c] = "run"
  /\ \/ /\ Inserted(c)
        /\ copy' = [copy EXCEPT ![c] = {[rec |-> rec[c], ver |-> 0, has |-> {}]}]
        /\ UNCHANGED <<acked, deletes>>
     \/ \E x \in copy[c] :
          /\ Updated(c, x)
          /\ copy' = [copy EXCEPT ![c] = {[x EXCEPT !.ver = rows[rec[c]].ver + 1]}]
          /\ acked' = [acked EXCEPT ![rec[c]] = @ \cup x.has]
          /\ UNCHANGED deletes
     \/ \E x \in copy[c] :
          /\ Deleted(c, x)
          /\ copy' = [copy EXCEPT ![c] = {}]
          /\ deletes' = [deletes EXCEPT ![rec[c]] = IF entity[rec[c]] \in Assigned
                                                    THEN @ ELSE @ + 1]
          /\ UNCHANGED acked
     \/ /\ NothingToDelete(c)
        /\ copy' = [copy EXCEPT ![c] = {}]
        /\ UNCHANGED <<rows, acked, deletes>>
  /\ Return(c, op[c].closes = "never")
  /\ UNCHANGED <<entity, edits, faults>>

(* The write throws: there is no object to delete, there is no transaction, *)
(* the identifier is taken, or the row is gone - if need be between two     *)
(* statements of the delete - or of another version.                        *)
Refuse(c) ==
  /\ pc[c] = "run"
  /\ op[c].act \in {"insert", "update", "saveOrUpdate", "delete"}
  /\ \/ op[c].act = "delete" /\ (copy[c] = {} \/ ~op[c].commits)
     \/ op[c].act = "insert" /\ rows[rec[c]].state = "live"
     \/ \E x \in copy[c] : ~Accepts(rec[c], x)
  /\ copy' = [copy EXCEPT ![c] = {}]
  /\ Return(c, LeaksOnFailure(op[c].closes))
  /\ UNCHANGED <<entity, rows, edits, acked, deletes, faults>>

(* The database fails a statement or a commit.  A commit may fail after it  *)
(* took effect.                                                             *)
Fault(c) ==
  /\ pc[c] # "idle"
  /\ faults < MaxFaults
  /\ faults' = faults + 1
  /\ \/ UNCHANGED rows
     \/ pc[c] = "run" /\ Inserted(c)
     \/ pc[c] = "run" /\ \E x \in copy[c] : Updated(c, x) \/ Deleted(c, x)
  /\ copy' = [copy EXCEPT ![c] = {}]
  /\ Return(c, /\ c \in held
               /\ LeaksOnFailure(IF pc[c] = "finding" THEN op[c].find ELSE op[c].closes))
  /\ UNCHANGED <<entity, edits, acked, deletes>>

(* The program stops and is started again: its threads, objects and         *)
(* connections are gone.                                                    *)
Crash ==
  /\ faults < MaxFaults
  /\ faults' = faults + 1
  /\ pc' = [c \in Clients |-> "idle"]
  /\ copy' = [c \in Clients |-> {}]
  /\ op' = [c \in Clients |-> Read]
  /\ held' = {}
  /\ leaked' = 0
  /\ UNCHANGED <<entity, rows, rec, edits, acked, deletes>>

Work(c) == Find(c) \/ Look(c) \/ Query(c) \/ NoAccess(c) \/ Commit(c) \/ Refuse(c)

Next ==
  \/ \E c \in Clients : Call(c) \/ Connect(c) \/ Work(c) \/ Fault(c)
  \/ Crash

Spec == Init /\ [][Next]_vars

(* A call that has its connection goes on; the pool serves whoever waits.   *)
Fairness == \A c \in Clients : WF_vars(Work(c)) /\ SF_vars(Connect(c))
FairSpec == Spec /\ Fairness

-----------------------------------------------------------------------------
(* What an update or a saveOrUpdate of a versioned row wrote is never       *)
(* overwritten by a caller that had not read it: the row holds every edit   *)
(* of every call that returned (VaultDAOImpl.update, saveOrUpdateVault and  *)
(* the updates of the other entities with a @Version).                      *)
NoLostUpdate == \A r \in Records : entity[r] \in Versioned => acked[r] \subseteq rows[r].has

(* Of all deletes of a row whose identifier the database made at most one   *)
(* returns, whichever way each looked the row up, and then the row is gone  *)
(* for good, whoever still holds it as an object (delete and deleteById of  *)
(* the DAOs).  Groups, which people name, are different: a second delete    *)
(* returns too (GroupDAOImpl.delete).                                       *)
DeletedOnce ==
  \A r \in Records :
    entity[r] \notin Assigned =>
      deletes[r] <= 1 /\ (deletes[r] = 1 => rows[r].state = "deleted")

(* The update of a versioned row, which callers must expect to be refused,  *)
(* costs no connection however it ends (the finally of VaultDAOImpl.update  *)
(* and of the other updates of entities with a @Version).                   *)
Updating(c) ==
  pc[c] # "idle" /\ op[c].act \in {"update", "saveOrUpdate"} /\ entity[rec[c]] \in Versioned
UpdatesNeverLeak ==
  [][\A c \in Clients : Updating(c) /\ pc'[c] = "idle" => leaked' <= leaked]_vars

(* Calls never block each other: no lookup or write waits for a connection   *)
(* while its client has one, so that a call ends unless the methods that    *)
(* leave their session open have used up the pool.                          *)
OnlyLeaksBlock ==
  \A c \in Clients : pc[c] # "idle" ~> pc[c] = "idle" \/ leaked = PoolSize

-----------------------------------------------------------------------------
(* The inductive invariant. *)
HeldByRunning == held = {c \in Clients : pc[c] \in Holding}
PoolBound == Cardinality(held) + leaked <= PoolSize
OpsKnown ==
  \A c \in Clients :
    /\ pc[c] # "idle" => op[c] \in Operations[entity[rec[c]]]
    /\ pc[c] \in {"find", "finding"} => op[c].find \in {"success", "finally"}
CopiesOfCall ==
  \A c \in Clients : pc[c] # "idle" => \A x \in copy[c] : x.rec = rec[c]
Behind(x) ==
  /\ rows[x.rec].state # "fresh"
  /\ entity[x.rec] \in Versioned =>
       /\ x.ver <= rows[x.rec].ver
       /\ x.ver = rows[x.rec].ver => rows[x.rec].has \subseteq x.has
OneObject == \A c \in Clients : \A x, y \in copy[c] : x = y
CopiesBehind == \A c \in Clients : \A x \in copy[c] : Behind(x)
FreshEmpty ==
  \A r \in Records : rows[r].state = "fresh" => rows[r].ver = 0 /\ rows[r].has = {}

IInv ==
  /\ TypeOK
  /\ HeldByRunning
  /\ PoolBound
  /\ OpsKnown
  /\ CopiesOfCall
  /\ CopiesBehind
  /\ OneObject
  /\ FreshEmpty
  /\ NoLostUpdate
  /\ DeletedOnce
=============================================================================
