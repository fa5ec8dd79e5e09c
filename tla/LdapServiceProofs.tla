------------------------- MODULE LdapServiceProofs --------------------------
(***************************************************************************)
(* LdapService for any number of requests and connections: the types, and  *)
(* that a request which met no other closes its connection.                *)
(***************************************************************************)
EXTENDS LdapService, TLAPS

USE DEF Ops, Ended, Running, Goto, net, PCs

LEMMA InitInvariant == Init => IInv
<1> SUFFICES ASSUME Init PROVE IInv
  OBVIOUS
<1>1. TypeOK
  BY DEF Init, TypeOK
<1>2. Made /\ FieldSet /\ Quiet /\ OwnField /\ ClosesAlone
  BY DEF Init, Made, FieldSet, Past, Quiet, OwnField, ClosesAlone
<1> QED BY <1>1, <1>2 DEF IInv

\* Only New and a thread's own steps concern the types.
LEMMA TypeStep ==
  ASSUME TypeOK, Made, FieldSet, [Next]_vars
  PROVE  TypeOK'
<1> USE DEF TypeOK
<1>1. CASE UNCHANGED vars
  BY <1>1 DEF vars
<1>2. ASSUME NEW r \in Requests, NEW o \in Ops, Begin(r, o)
      PROVE  TypeOK'
  <2> DEFINE others == {q \in Requests \ {r} : Running(q)}
  <2>1. alone' = [q \in Requests |->
                    IF q = r THEN others = {} ELSE alone[q] /\ q \notin others]
    BY <1>2 DEF Begin
  <2>2. alone' \in [Requests -> BOOLEAN]
    <3> HIDE DEF others
    <3> QED BY <2>1
  <2> QED BY <1>2, <2>2 DEF Begin
<1>3. ASSUME NEW r \in Requests, Step(r)
      PROVE  TypeOK'
  <2>1. CASE New(r)
    BY <2>1 DEF New, Fresh
  <2>2. CASE SetTimeOut(r) \/ NewFails(r)
    BY <2>2 DEF SetTimeOut, NewFails, Throw
  <2>3. CASE Bind(r)
    <3>1. connection \in Conns
      BY <2>3 DEF Bind, FieldSet, Past, Made
    <3> QED BY <2>3, <3>1 DEF Bind
  <2>4. CASE Unreachable(r)
    BY <2>4 DEF Unreachable, Throw
  <2>5. CASE Bound(r)
    BY <2>5 DEF Bound, Answered
  <2>6. CASE Limit(r)
    BY <2>6 DEF Limit
  <2>7. CASE Search(r)
    BY <2>7 DEF Search
  <2>8. CASE SearchFails(r)
    BY <2>8 DEF SearchFails, Throw
  <2>9. CASE Unlimit(r)
    BY <2>9 DEF Unlimit
  <2>10. CASE Read(r)
    BY <2>10 DEF Read, Answered
  <2>11. CASE AnswerFails(r)
    BY <2>11 DEF AnswerFails, Answered, Throw
  <2>12. CASE Close(r)
    BY <2>12 DEF Close
  <2> QED BY <1>3, <2>1, <2>2, <2>3, <2>4, <2>5, <2>6, <2>7, <2>8, <2>9, <2>10,
             <2>11, <2>12 DEF Step
<1>4. ASSUME NEW r \in Requests, Forget(r)
      PROVE  TypeOK'
  BY <1>4 DEF Forget
<1>5. ASSUME NEW x \in Conns, Drop(x)
      PROVE  TypeOK'
  BY <1>5 DEF Drop
<1>6. CASE Silence
  <2>1. silent' \in BOOLEAN
    BY <1>6, Zenon DEF Silence
  <2> QED BY <1>6, <2>1 DEF Silence
<1> QED BY <1>1, <1>2, <1>3, <1>4, <1>5, <1>6 DEF Next

-----------------------------------------------------------------------------
\* What all steps of a running request but New have in common: the field and
\* the connections that were made stay, and nobody else moves.
Stays(r) ==
  /\ UNCHANGED <<connection, mine, alone, op>>
  /\ pc' = [pc EXCEPT ![r] = pc'[r]]
  /\ Running(r)
  /\ pc'[r] \in PCs \ {"idle", "new"}

LEMMA StepStays ==
  ASSUME TypeOK, NEW r \in Requests, Step(r), ~New(r)
  PROVE  Stays(r)
<1> USE DEF TypeOK, Stays, Past
<1>1. CASE SetTimeOut(r) \/ NewFails(r)
  BY <1>1 DEF SetTimeOut, NewFails, Throw
<1>2. CASE Bind(r)
  BY <1>2 DEF Bind
<1>3. CASE Unreachable(r)
  BY <1>3 DEF Unreachable, Throw
<1>4. CASE Bound(r)
  BY <1>4 DEF Bound
<1>5. CASE Limit(r)
  BY <1>5 DEF Limit
<1>6. CASE Search(r)
  BY <1>6 DEF Search
<1>7. CASE SearchFails(r)
  BY <1>7 DEF SearchFails, Throw
<1>8. CASE Unlimit(r)
  BY <1>8 DEF Unlimit
<1>9. CASE Read(r)
  BY <1>9 DEF Read
<1>10. CASE AnswerFails(r)
  BY <1>10 DEF AnswerFails, Throw
<1>11. CASE Close(r)
  BY <1>11 DEF Close
<1> QED BY <1>1, <1>2, <1>3, <1>4, <1>5, <1>6, <1>7, <1>8, <1>9, <1>10, <1>11 DEF Step

\* Where a step leaves its request: it has closed what the field holds, or the
\* operation is one without a finally.
LEMMA StepEnds ==
  ASSUME TypeOK, NEW r \in Requests, Step(r), ~New(r)
  PROVE  /\ open' \subseteq open \/ (pc[r] = "bind" /\ open' = open \cup {connection})
         /\ pc[r] \in {"new", "finally"} => pc'[r] \in {"finally", "threw"}
         /\ pc'[r] \in Ended =>
              /\ open' \subseteq open
              /\ connection \in open' => pc'[r] = "threw" /\ op[r] # "getLDAPAttributes"
<1> USE DEF TypeOK
<1>1. CASE SetTimeOut(r) \/ NewFails(r)
  BY <1>1 DEF SetTimeOut, NewFails, Throw
<1>2. CASE Bind(r)
  BY <1>2 DEF Bind
<1>3. CASE Unreachable(r)
  BY <1>3 DEF Unreachable, Throw
<1>4. CASE Bound(r)
  BY <1>4 DEF Bound
<1>5. CASE Limit(r)
  BY <1>5 DEF Limit
<1>6. CASE Search(r)
  BY <1>6 DEF Search
<1>7. CASE SearchFails(r)
  BY <1>7 DEF SearchFails, Throw
<1>8. CASE Unlimit(r)
  BY <1>8 DEF Unlimit
<1>9. CASE Read(r)
  BY <1>9 DEF Read
<1>10. CASE AnswerFails(r)
  BY <1>10 DEF AnswerFails, Throw
<1>11. CASE Close(r)
  BY <1>11 DEF Close
<1> QED BY <1>1, <1>2, <1>3, <1>4, <1>5, <1>6, <1>7, <1>8, <1>9, <1>10, <1>11 DEF Step

LEMMA InvariantStep ==
  ASSUME IInv, [Next]_vars
  PROVE  IInv'
<1>1. TypeOK'
  BY TypeStep DEF IInv
<1> SUFFICES (Made /\ FieldSet /\ Quiet /\ OwnField /\ ClosesAlone)'
  BY <1>1 DEF IInv
<1> USE DEF IInv, TypeOK, Made, FieldSet, Past, Quiet, OwnField, ClosesAlone
<1>2. CASE UNCHANGED vars
  BY <1>2 DEF vars
<1>3. ASSUME NEW r \in Requests, NEW o \in Ops, Begin(r, o)
      PROVE  (Made /\ FieldSet /\ Quiet /\ OwnField /\ ClosesAlone)'
  <2> USE <1>3 DEF Begin
  <2>1. \A q \in Requests : q # r => /\ pc'[q] = pc[q] /\ op'[q] = op[q]
                                     /\ alone'[q] => alone[q] /\ ~Running(q)
    OBVIOUS
  <2>2. alone'[r] => \A q \in Requests : q # r => ~Running(q)
    OBVIOUS
  <2>3. pc'[r] = "new" /\ UNCHANGED <<connection, open, mine>>
    OBVIOUS
  <2>4. Made' /\ FieldSet' /\ Quiet'
    BY <2>1, <2>2, <2>3
  <2>5. OwnField'
    BY <2>1, <2>3
  <2>6. ClosesAlone'
    BY <2>1, <2>3
  <2> QED BY <2>4, <2>5, <2>6
<1>4. ASSUME NEW r \in Requests, New(r)
      PROVE  (Made /\ FieldSet /\ Quiet /\ OwnField /\ ClosesAlone)'
  <2>1. PICK x \in Fresh : connection' = x /\ mine' = [mine EXCEPT ![r] = x]
    BY <1>4 DEF New
  <2>2. x \in Conns /\ x \notin open /\ \A q \in Requests : mine[q] # x
    BY <2>1 DEF Fresh
  <2>3. pc' = [pc EXCEPT ![r] = "setTimeOut"] /\ UNCHANGED <<open, op, alone>>
    BY <1>4 DEF New
  <2>4. Running(r) /\ x # NoConn
    BY <1>4, <2>2, LdapAssumption DEF New
  <2>5. Made'
    BY <2>1, <2>3, <2>4
  <2>6. FieldSet' /\ Quiet'
    BY <2>1, <2>2, <2>3, <2>4
  <2>7. OwnField'
    BY <2>1, <2>2, <2>3, <2>4
  <2>8. ClosesAlone'
    BY <2>1, <2>3
  <2> QED BY <2>5, <2>6, <2>7, <2>8
<1>5. ASSUME NEW r \in Requests, Step(r), ~New(r)
      PROVE  (Made /\ FieldSet /\ Quiet /\ OwnField /\ ClosesAlone)'
  <2>1. Stays(r)
    BY <1>5, StepStays
  <2>2. /\ open' \subseteq open \/ (pc[r] = "bind" /\ open' = open \cup {connection})
        /\ pc[r] \in {"new", "finally"} => pc'[r] \in {"finally", "threw"}
        /\ pc'[r] \in Ended =>
             /\ open' \subseteq open
             /\ connection \in open' => pc'[r] = "threw" /\ op[r] # "getLDAPAttributes"
    BY <1>5, StepEnds
  <2>3. FieldSet' /\ Quiet'
    BY <2>1 DEF Stays
  <2>4. Made'
    BY <2>1, <2>2 DEF Stays
  <2>5. OwnField'
    BY <2>1 DEF Stays
  <2>6. ASSUME NEW q \in Requests, pc'[q] \in Ended, alone'[q], mine'[q] \in open'
        PROVE  pc'[q] = "threw" /\ op'[q] # "getLDAPAttributes"
    <3>1. CASE q = r
      <4>1. mine[r] \in Conns
        BY <2>1, <2>2, <2>6, <3>1 DEF Stays
      <4>2. connection = mine[r]
        BY <4>1, <2>1, <2>6, <3>1, LdapAssumption DEF Stays
      <4> QED BY <4>2, <2>1, <2>2, <2>6, <3>1 DEF Stays
    <3>2. CASE q # r
      BY <2>1, <2>2, <2>6, <3>2 DEF Stays
    <3> QED BY <3>1, <3>2
  <2> QED BY <2>3, <2>4, <2>5, <2>6
<1>6. ASSUME NEW r \in Requests, Forget(r)
      PROVE  (Made /\ FieldSet /\ Quiet /\ OwnField /\ ClosesAlone)'
  BY <1>6 DEF Forget
<1>7. ASSUME NEW x \in Conns, Drop(x)
      PROVE  (Made /\ FieldSet /\ Quiet /\ OwnField /\ ClosesAlone)'
  BY <1>7 DEF Drop
<1>8. CASE Silence
  BY <1>8 DEF Silence
<1> QED BY <1>2, <1>3, <1>4, <1>5, <1>6, <1>7, <1>8 DEF Next

\* Every variable keeps its type, and the field is set when a request uses it; a
\* request that is alone works with its own connection, whatever fails.
THEOREM Invariance == Spec => []IInv
  BY InitInvariant, InvariantStep, PTL DEF Spec

\* The field, the limits and the connections keep their types in every schedule of
\* requests over any server.
THEOREM TypeCorrect == Spec => []TypeOK
<1>1. IInv => TypeOK
  BY DEF IInv
<1> QED BY <1>1, Invariance, PTL

\* A request that met no other closes the connection it made; only autocompleteUID
\* and getLdapUserInfo leave it open, when they throw.
THEOREM Closes == Spec => []ClosesAlone
<1>1. IInv => ClosesAlone
  BY DEF IInv
<1> QED BY <1>1, Invariance, PTL
=============================================================================
