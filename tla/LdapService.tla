---------------------------- MODULE LdapService ----------------------------
(***************************************************************************)
(* LDAPService: every request makes a connection, puts it into the one     *)
(* field connection, and from then on works with whatever the field holds. *)
(* Requests run in threads of their own, so that each use of the field is  *)
(* a step.  The server may stop to answer and may drop any connection.     *)
(***************************************************************************)
EXTENDS Naturals

CONSTANTS
  Requests,    \* the threads of requests
  Conns,       \* LdapNetworkConnections (a bound)
  NoConn

ASSUME LdapAssumption == NoConn \notin Conns

VARIABLES
  connection,  \* the field
  open,        \* the connections that are connected
  limited,     \* the one in the field has a time limit for answers
  silent,      \* the server does not answer any more
  pc, op,
  mine,        \* the connection a request has made
  uses,        \* the one it waits for or reads from
  waits,       \* whether it waits without a limit
  alone        \* history: no other request was running meanwhile

net == <<connection, open, limited, silent>>
vars == <<connection, open, limited, silent, pc, op, mine, uses, waits, alone>>

Ops == {"autocompleteUID", "getLdapUserInfo", "getLDAPAttributes"}
Ended == {"returned", "threw"}
Running(r) == pc[r] \notin {"idle"} \cup Ended

Init ==
  /\ connection = NoConn
  /\ open = {}
  /\ limited = FALSE
  /\ silent = FALSE
  /\ pc = [r \in Requests |-> "idle"]
  /\ op = [r \in Requests |-> "autocompleteUID"]
  /\ mine = [r \in Requests |-> NoConn]
  /\ uses = [r \in Requests |-> NoConn]
  /\ waits = [r \in Requests |-> FALSE]
  /\ alone = [r \in Requests |-> TRUE]

Goto(r, l) == pc' = [pc EXCEPT ![r] = l]

\* Mutant: the connection of the request before is used again.
BeginReuse(r, o) ==
  /\ pc[r] = "idle"
  /\ Goto(r, "bind")
  /\ op' = [op EXCEPT ![r] = o]
  /\ UNCHANGED <<net, mine, uses, waits, alone>>

Begin(r, o) ==
  /\ pc[r] = "idle"
  /\ Goto(r, "new")
  /\ op' = [op EXCEPT ![r] = o]
  /\ LET others == {q \in Requests \ {r} : Running(q)}
     IN alone' = [q \in Requests |->
                    IF q = r THEN others = {} ELSE alone[q] /\ q \notin others]
  /\ UNCHANGED <<net, mine, uses, waits>>

\* An exception: only getLDAPAttributes has a finally.
Throw(r) == Goto(r, IF op[r] = "getLDAPAttributes" THEN "finally" ELSE "threw")

(***************************************************************************)
(* getConnection.                                                          *)
(***************************************************************************)
Fresh == {x \in Conns \ (open \cup {connection}) :
            \A r \in Requests : x \notin {mine[r], uses[r]}}

New(r) ==
  /\ pc[r] = "new"
  /\ \E x \in Fresh :
       /\ connection' = x
       /\ mine' = [mine EXCEPT ![r] = x]
  /\ limited' = TRUE                 \* the library's default, 30 seconds
  /\ Goto(r, "setTimeOut")
  /\ UNCHANGED <<open, silent, op, uses, waits, alone>>

\* The port is not a number, say: the field keeps what it had.
NewFails(r) ==
  /\ pc[r] = "new"
  /\ Throw(r)
  /\ UNCHANGED <<net, op, mine, uses, waits, alone>>

SetTimeOut(r) ==
  /\ pc[r] = "setTimeOut"
  /\ limited' = FALSE
  /\ Goto(r, "bind")
  /\ UNCHANGED <<connection, open, silent, op, mine, uses, waits, alone>>

\* A bind connects if need be, and waits for the answer.
Bind(r) ==
  /\ pc[r] = "bind"
  /\ open' = open \cup {connection}
  /\ uses' = [uses EXCEPT ![r] = connection]
  /\ waits' = [waits EXCEPT ![r] = ~limited]
  /\ Goto(r, "binding")
  /\ UNCHANGED <<connection, limited, silent, op, mine, alone>>

Unreachable(r) ==
  /\ pc[r] = "bind"
  /\ Throw(r)
  /\ UNCHANGED <<net, op, mine, uses, waits, alone>>

Answered(r) ==
  /\ uses' = [uses EXCEPT ![r] = NoConn]
  /\ waits' = [waits EXCEPT ![r] = FALSE]

Bound(r) ==
  /\ pc[r] = "binding"
  /\ ~silent /\ uses[r] \in open
  /\ Goto(r, IF op[r] = "getLdapUserInfo" THEN "limit" ELSE "search")
  /\ Answered(r)
  /\ UNCHANGED <<net, op, mine, alone>>

(***************************************************************************)
(* The search.  In getLdapUserInfo it has a limit of its own.              *)
(***************************************************************************)
\* Mutant: the limit is not set.
LimitLate(r) ==
  /\ pc[r] = "limit"
  /\ Goto(r, "search")
  /\ UNCHANGED <<net, op, mine, uses, waits, alone>>

Limit(r) ==
  /\ pc[r] = "limit"
  /\ limited' = TRUE
  /\ Goto(r, "search")
  /\ UNCHANGED <<connection, open, silent, op, mine, uses, waits, alone>>

\* The cursor keeps the connection and the limit it was made with.
Search(r) ==
  /\ pc[r] = "search"
  /\ connection \in open
  /\ uses' = [uses EXCEPT ![r] = connection]
  /\ waits' = [waits EXCEPT ![r] = ~limited]
  /\ Goto(r, IF op[r] = "getLdapUserInfo" THEN "unlimit" ELSE "read")
  /\ UNCHANGED <<net, op, mine, alone>>

\* No search context or a filter that is not valid, which getLdapUserInfo finds
\* before it sets the limit, or a connection that is closed.
SearchFails(r) ==
  /\ pc[r] \in {"limit", "search"}
  /\ Throw(r)
  /\ UNCHANGED <<net, op, mine, uses, waits, alone>>

Unlimit(r) ==
  /\ pc[r] = "unlimit"
  /\ limited' = FALSE
  /\ Goto(r, "read")
  /\ UNCHANGED <<connection, open, silent, op, mine, uses, waits, alone>>

Read(r) ==
  /\ pc[r] = "read"
  /\ ~silent /\ uses[r] \in open
  /\ Goto(r, "close")
  /\ Answered(r)
  /\ UNCHANGED <<net, op, mine, alone>>

\* What a request waits for does not come: the server refuses (the password, the
\* entry without a cn), the connection was closed, or the time is over.
AnswerFails(r) ==
  /\ pc[r] \in {"binding", "read"}
  /\ ~silent \/ uses[r] \notin open \/ ~waits[r]
  /\ Throw(r)
  /\ Answered(r)
  /\ UNCHANGED <<net, op, mine, alone>>

\* Mutant: closed on success only, in getLDAPAttributes too.
CloseOwn(r) ==
  /\ pc[r] \in {"close", "finally"}
  /\ open' = IF pc[r] = "close" THEN open \ {connection} ELSE open
  /\ Goto(r, IF pc[r] = "close" /\ connection \in open THEN "returned" ELSE "threw")
  /\ UNCHANGED <<connection, limited, silent, op, mine, uses, waits, alone>>

\* closeConnection: an unbind of a connection that is closed is refused.  In the
\* finally after an exception that exception or this one goes on.
Close(r) ==
  /\ pc[r] \in {"close", "finally"}
  /\ open' = open \ {connection}
  /\ Goto(r, IF pc[r] = "close" /\ connection \in open THEN "returned" ELSE "threw")
  /\ UNCHANGED <<connection, limited, silent, op, mine, uses, waits, alone>>

\* The thread serves its next request.
Forget(r) ==
  /\ pc[r] \in Ended
  /\ Goto(r, "idle")
  /\ op' = [op EXCEPT ![r] = "autocompleteUID"]
  /\ mine' = [mine EXCEPT ![r] = NoConn]
  /\ alone' = [alone EXCEPT ![r] = TRUE]
  /\ UNCHANGED <<net, uses, waits>>

Drop(x) ==
  /\ x \in open
  /\ open' = open \ {x}
  /\ UNCHANGED <<connection, limited, silent, pc, op, mine, uses, waits, alone>>

Silence ==
  /\ silent' = ~silent
  /\ UNCHANGED <<connection, open, limited, pc, op, mine, uses, waits, alone>>

Step(r) ==
  \/ New(r) \/ NewFails(r) \/ SetTimeOut(r) \/ Bind(r) \/ Unreachable(r) \/ Bound(r)
  \/ Limit(r) \/ Search(r) \/ SearchFails(r) \/ Unlimit(r)
  \/ Read(r) \/ AnswerFails(r) \/ Close(r)

Next ==
  \/ \E r \in Requests : (\E o \in Ops : Begin(r, o)) \/ Step(r) \/ Forget(r)
  \/ \E x \in Conns : Drop(x)
  \/ Silence

Spec == Init /\ [][Next]_vars

\* A thread that can go on does: an answer that was sent arrives, and a wait with
\* a limit ends.
FairSpec == Spec /\ \A r \in Requests : WF_vars(Step(r))

-----------------------------------------------------------------------------
PCs == {"idle", "new", "setTimeOut", "bind", "binding", "limit", "search",
        "unlimit", "read", "close", "finally", "returned", "threw"}

\* The type of every variable.
TypeOK ==
  /\ connection \in Conns \cup {NoConn}
  /\ open \subseteq Conns
  /\ limited \in BOOLEAN
  /\ silent \in BOOLEAN
  /\ pc \in [Requests -> PCs]
  /\ op \in [Requests -> Ops]
  /\ mine \in [Requests -> Conns \cup {NoConn}]
  /\ uses \in [Requests -> Conns \cup {NoConn}]
  /\ waits \in [Requests -> BOOLEAN]
  /\ alone \in [Requests -> BOOLEAN]

\* A request that met no other has closed the connection it made when it ends,
\* whatever happened if it is getLDAPAttributes, and when it returns if it is one
\* of the other two, which have no finally.
ClosesAlone ==
  \A r \in Requests :
    (pc[r] \in Ended /\ alone[r] /\ mine[r] \in open)
      => pc[r] = "threw" /\ op[r] # "getLDAPAttributes"

\* "We don't want this to take too long": once getLdapUserInfo has sent its search
\* it ends although the server has stopped answering, unless another request
\* changed the limit through the field.
UserInfoEnds ==
  \A r \in Requests :
    (op[r] = "getLdapUserInfo" /\ pc[r] \in {"unlimit", "read"})
      ~> (~Running(r) \/ ~alone[r])

(***************************************************************************)
(* The inductive invariant behind ClosesAlone.  From New on, the field has *)
(* the connection of a request that is alone; once that one has ended, the *)
(* field never has it again while a request that made one uses it.         *)
(***************************************************************************)
Past(r) == Running(r) /\ mine[r] # NoConn

Made ==
  \A r \in Requests :
    /\ pc[r] \in {"idle", "new"} => mine[r] = NoConn
    /\ mine[r] = NoConn => pc[r] \in {"idle", "new", "finally", "threw"}

FieldSet == (\E r \in Requests : Past(r)) => connection \in Conns

Quiet == \A r, q \in Requests : (alone[r] /\ Running(r) /\ Running(q)) => q = r

OwnField ==
  \A r \in Requests : alone[r] =>
    /\ Past(r) => connection = mine[r]
    /\ \A q \in Requests : (pc[r] \in Ended /\ Past(q)) => connection # mine[r]

IInv == TypeOK /\ Made /\ FieldSet /\ Quiet /\ OwnField /\ ClosesAlone
=============================================================================
