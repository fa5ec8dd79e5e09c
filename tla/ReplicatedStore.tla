-------------------------- MODULE ReplicatedStore --------------------------
(***************************************************************************)
(* What an archive store with several copies promises its callers: a call  *)
(* that stores a chunk either returns, and then every node holds what it   *)
(* was given, or throws, and then each node may or may not hold it, and    *)
(* may still come to hold it as long as the call lingers.  A call lingers  *)
(* also when the process that made it has stopped.  Promises are made to   *)
(* calls that met no other call on their chunk, lingering ones included.   *)
(***************************************************************************)
CONSTANTS Calls, Nodes, Chunks, Data, NoFile, Torn

VARIABLES
  status,     \* of each call: idle, pending, returned or threw
  call,       \* its arguments
  result,     \* what a retrieve that returned has delivered
  lingering,  \* calls that ended but still go on behind the caller's back
  copies,     \* what each node holds of each chunk
  overlap     \* calls that met another call on their chunk

vars == <<status, call, result, lingering, copies, overlap>>

Idle == [op |-> "none"]
Args == [op: {"store"}, chunk: Chunks, data: Data \cup {NoFile}]
        \cup [op: {"retrieve", "delete"}, chunk: Chunks, node: Nodes]

Active(k) == status[k] = "pending" \/ k \in lingering

Init ==
  /\ status = [k \in Calls |-> "idle"]
  /\ call = [k \in Calls |-> Idle]
  /\ result = [k \in Calls |-> NoFile]
  /\ lingering = {}
  /\ copies = [n \in Nodes |-> [c \in Chunks |-> NoFile]]
  /\ overlap = [k \in Calls |-> FALSE]

Begin(k) ==
  /\ status[k] = "idle"
  /\ status' = [status EXCEPT ![k] = "pending"]
  /\ UNCHANGED <<result, lingering, copies>>
  /\ \E args \in Args :
       /\ call' = [call EXCEPT ![k] = args]
       /\ LET rivals == {j \in Calls \ {k} :
                           status[j] # "idle" /\ call[j].chunk = args.chunk}
          IN overlap' = [j \in Calls |-> IF j = k THEN \E i \in rivals : Active(i)
                                         ELSE overlap[j] \/ j \in rivals]

\* What a store may write: its own data, unless it met another call on its
\* chunk or had no file of its own.
Writable(k) == IF overlap[k] \/ call[k].data = NoFile
               THEN Data \cup {Torn} ELSE {call[k].data}

Put(k, n) ==
  /\ call[k].op = "store"
  /\ Active(k)
  /\ UNCHANGED <<status, call, result, overlap>>
  /\ \E d \in Writable(k) : copies' = [copies EXCEPT ![n][call[k].chunk] = d]
  /\ lingering' \in {lingering, lingering \ {k}}

\* A delete takes the copy away, or does not.
Remove(k) == copies' \in {copies, [copies EXCEPT ![call[k].node][call[k].chunk] = NoFile]}

Kept(k) == CASE call[k].op = "store" ->
                  call[k].data # NoFile =>
                    \A n \in Nodes : copies[n][call[k].chunk] = call[k].data
             [] call[k].op = "retrieve" ->
                  /\ result'[k] # NoFile
                  /\ result'[k] = copies[call[k].node][call[k].chunk]
             [] OTHER -> TRUE

Return(k) ==
  /\ status[k] = "pending"
  /\ status' = [status EXCEPT ![k] = "returned"]
  /\ \E d \in Data \cup {NoFile, Torn} : result' = [result EXCEPT ![k] = d]
  /\ overlap[k] \/ Kept(k)
  /\ IF call[k].op = "delete" THEN Remove(k) ELSE UNCHANGED copies
  /\ UNCHANGED <<call, lingering, overlap>>

Throw(k) ==
  /\ status[k] = "pending"
  /\ status' = [status EXCEPT ![k] = "threw"]
  /\ lingering' \in {lingering, lingering \cup {k}}
  /\ IF call[k].op = "delete" THEN Remove(k) ELSE UNCHANGED copies
  /\ UNCHANGED <<call, result, overlap>>

Settle(k) ==
  /\ k \in lingering
  /\ lingering' = lingering \ {k}
  /\ IF call[k].op = "delete" THEN Remove(k) ELSE UNCHANGED copies
  /\ UNCHANGED <<status, call, result, overlap>>

Forget(k) ==
  /\ status[k] \in {"returned", "threw"}
  /\ k \notin lingering
  /\ status' = [status EXCEPT ![k] = "idle"]
  /\ call' = [call EXCEPT ![k] = Idle]
  /\ result' = [result EXCEPT ![k] = NoFile]
  /\ overlap' = [overlap EXCEPT ![k] = FALSE]
  /\ UNCHANGED <<lingering, copies>>

\* The process stops: nothing is pending any more, but what the calls have
\* started elsewhere may linger.
Stop ==
  /\ status' = [k \in Calls |-> IF status[k] = "pending" THEN "threw" ELSE status[k]]
  /\ lingering' \in SUBSET {k \in Calls : Active(k)}
  /\ UNCHANGED <<call, result, copies, overlap>>

Next ==
  \/ \E k \in Calls : Begin(k) \/ Return(k) \/ Throw(k) \/ Settle(k) \/ Forget(k)
  \/ \E k \in Calls, n \in Nodes : Put(k, n)
  \/ Stop

Spec == Init /\ [][Next]_vars
=============================================================================
