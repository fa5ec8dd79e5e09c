-------------------------- MODULE RoleStoreProofs --------------------------
(***************************************************************************)
(* RoleStore for any number of clients, users, targets, roles and          *)
(* permissions: the types, what the starts of brokers leave behind, and    *)
(* that assignments are single.                                            *)
(***************************************************************************)
EXTENDS RoleStore, FiniteSetTheorems, TLAPS

Wants == [id: Ids \cup {0}, role: Rows, user: Users, target: Targets \cup {Global}]

LEMMA GivenType ==
  ASSUME NEW n, NEW S \in SUBSET (Permissions \cup Obsolete)
  PROVE  /\ Given(n, S) \subseteq Permissions \cup Obsolete
         /\ S \subseteq Permissions => Given(n, S) \subseteq Permissions
BY DEF Given

LEMMA RowType ==
  ASSUME NEW n \in Names, FreeCopies(n) # {}
  PROVE  /\ NewRow(n) \in Rows /\ NewRow(n) \notin roles /\ NewRow(n)[1] = n
         /\ \A c \in Clients : ~Remembers(c, NewRow(n))
<1>1. PICK i \in FreeCopies(n) : NewRow(n) = <<n, i>>
  BY DEF NewRow
<1>2. /\ i \in Copies /\ <<n, i>> \notin roles
      /\ \A c \in Clients : ~Remembers(c, <<n, i>>)
  BY DEF FreeCopies
<1> QED BY <1>1, <1>2 DEF Rows

LEMMA NoViewType == NoView \in Views
BY RolesAssumption DEF NoView, Views, Rows, Names, SpecialNames

LEMMA EndType ==
  ASSUME TypeOK, NEW c \in Clients, End(c)
  PROVE  /\ pc' \in [Clients -> PCs]
         /\ view' \in [Clients -> Views]
         /\ want' \in [Clients -> {NoGrant} \cup Wants]
         /\ alone' \in [Clients -> BOOLEAN]
<1> USE DEF TypeOK, End
<1>1. pc' \in [Clients -> PCs]
  BY DEF PCs
<1>2. view' \in [Clients -> Views]
  BY NoViewType
<1>3. want' \in [Clients -> {NoGrant} \cup Wants]
  BY DEF Wants
<1>4. alone' \in [Clients -> BOOLEAN]
  OBVIOUS
<1> QED BY <1>1, <1>2, <1>3, <1>4

LEMMA InitType == Init => TypeOK
<1> SUFFICES ASSUME Init PROVE TypeOK
  OBVIOUS
<1>1. table \subseteq Permissions \cup Obsolete
  BY DEF Init
<1>2. roles \subseteq Rows /\ admin \subseteq Rows
  BY RolesAssumption DEF Init, Rows, Names
<1>3. perms \in [Rows -> SUBSET (Permissions \cup Obsolete)]
  BY <1>1, GivenType DEF Init
<1>4. view \in [Clients -> Views]
  BY NoViewType DEF Init
<1>5. raced \in BOOLEAN /\ namesake \in BOOLEAN /\ started \in BOOLEAN
  BY Zenon DEF Init
<1> QED BY <1>1, <1>2, <1>3, <1>4, <1>5 DEF Init, TypeOK, PCs

\* The part of TypeOK about one kind of a client's step each.
LEMMA TypeStart ==
  ASSUME TypeOK, NEW c \in Clients, StartStep(c)
  PROVE  TypeOK'
<1> USE DEF TypeOK
<1>1. CASE Start(c)
  BY <1>1 DEF Start, data, PCs
<1>2. CASE SyncRead(c)
  <2>1. view' \in [Clients -> Views]
    <3>1. [view[c] EXCEPT !.table = table \cap Permissions] \in Views
      BY DEF Views
    <3> QED BY <1>2, <3>1 DEF SyncRead
  <2> QED BY <1>2, <2>1 DEF SyncRead, data, history, PCs
<1>3. CASE SyncCommit(c)
  BY <1>3 DEF SyncCommit, history, PCs
<1>4. CASE SyncRefused(c)
  BY <1>4 DEF SyncRefused, data, history, PCs
<1>5. CASE StoreRead(c)
  <2>1. view' \in [Clients -> Views]
    BY <1>5, NoViewType DEF StoreRead, Views
  <2>2. pc' \in [Clients -> PCs]
    BY <1>5 DEF StoreRead, PCs
  <2> QED BY <1>5, <2>1, <2>2 DEF StoreRead, data, history
<1>6. CASE StoreCommit(c)
  <2> USE <1>6
  <2>0. \A n \in Missing(c) : NewRow(n) \in Rows
    BY RowType DEF StoreCommit, Names, Missing
  <2>1. roles' \subseteq Rows /\ admin' \subseteq Rows
    BY <2>0 DEF StoreCommit
  <2>2. view[c].table \subseteq Permissions \cup Obsolete
    BY DEF Views
  <2>3. perms' \in [Rows -> SUBSET (Permissions \cup Obsolete)]
    BY <2>2, GivenType DEF StoreCommit
  <2>4. raced' \in BOOLEAN /\ started' \in BOOLEAN
    BY DEF StoreCommit
  <2> QED BY <2>1, <2>3, <2>4, EndType DEF StoreCommit, Wants
<1>7. CASE StoreRefused(c)
  BY <1>7 DEF StoreRefused, data, history, PCs
<1> QED BY <1>1, <1>2, <1>3, <1>4, <1>5, <1>6, <1>7 DEF StartStep

LEMMA TypeRole ==
  ASSUME TypeOK, NEW c \in Clients, RoleStep(c)
  PROVE  TypeOK'
<1> USE DEF TypeOK
<1>1. ASSUME NEW n \in Chosen, NEW p \in Edits, NewRole(c, n, p)
      PROVE  TypeOK'
  <2>1. roles' \subseteq Rows
    BY <1>1, RowType DEF NewRole, Names
  <2>2. perms' \in [Rows -> SUBSET (Permissions \cup Obsolete)]
    BY <1>1 DEF NewRole
  <2>3. namesake' \in BOOLEAN
    BY <1>1 DEF NewRole
  <2> QED BY <1>1, <2>1, <2>2, <2>3 DEF NewRole
<1>2. ASSUME NEW k \in roles, NEW next \in {"editrole", "deleterole"}, FindRole(c, k, next)
      PROVE  TypeOK'
  <2>1. [NoView EXCEPT !.table = table, !.row = k] \in Views
    BY NoViewType DEF Views
  <2>2. view' \in [Clients -> Views]
    BY <1>2, <2>1 DEF FindRole
  <2>3. pc' \in [Clients -> PCs]
    BY <1>2 DEF FindRole, PCs
  <2> QED BY <1>2, <2>2, <2>3 DEF FindRole, data, history
<1>3. ASSUME NEW p \in Edits, UpdateRole(c, p)
      PROVE  TypeOK'
  <2>1. perms' \in [Rows -> SUBSET (Permissions \cup Obsolete)]
    BY <1>3 DEF UpdateRole, Views
  <2> QED BY <1>3, <2>1, EndType DEF UpdateRole, history, Wants
<1>4. ASSUME RemoveRole(c)
      PROVE  TypeOK'
  <2>1. perms' \in [Rows -> SUBSET (Permissions \cup Obsolete)]
    BY <1>4 DEF RemoveRole
  <2>2. roles' \subseteq Rows
    BY <1>4 DEF RemoveRole
  <2> QED BY <1>4, <2>1, <2>2, EndType DEF RemoveRole, history, Wants
<1> QED BY <1>1, <1>2, <1>3, <1>4 DEF RoleStep

LEMMA TypeGrant ==
  ASSUME TypeOK, Wanted, NEW c \in Clients, GrantStep(c)
  PROVE  TypeOK'
<1> USE DEF TypeOK
<1>1. ASSUME NEW k \in roles, NEW u \in Users, NEW t \in Targets \cup {Global},
             Check(c, [id |-> 0, role |-> k, user |-> u, target |-> t])
      PROVE  TypeOK'
  <2>1. [id |-> 0, role |-> k, user |-> u, target |-> t] \in Wants
    BY DEF Wants
  <2> QED BY <1>1, <2>1 DEF Check, data, history, PCs, Wants
<1>2. ASSUME Persist(c)
      PROVE  TypeOK'
  <2>1. PICK x \in Ids : x = CHOOSE y \in FreeIds : TRUE
    BY <1>2 DEF Persist, FreeIds
  <2>2. want[c] \in Wants
    BY <1>2 DEF Persist, Wanted, Handles, Wants
  <2>3. [want[c] EXCEPT !.id = x] \in Grants /\ [want[c] EXCEPT !.id = x].id = x
    BY <2>2 DEF Wants, Grants
  <2>4. grants' \subseteq Grants /\ doubtful' \subseteq Ids
    BY <1>2, <2>1, <2>3 DEF Persist
  <2> QED BY <1>2, <2>4, EndType DEF Persist, Wants
<1>3. ASSUME NEW g \in grants, NEW next \in {"editgrant", "deletegrant"}, FindGrant(c, g, next)
      PROVE  TypeOK'
  <2>1. g \in Wants
    BY DEF Wants, Grants
  <2> QED BY <1>3, <2>1 DEF FindGrant, data, history, PCs, Wants
<1>4. ASSUME NEW t \in Targets \cup {Global}, UpdateGrant(c, t)
      PROVE  TypeOK'
  <2>1. want[c] \in Wants
    BY <1>4 DEF UpdateGrant, Wanted, Handles, Wants
  <2>2. \A h \in grants : h.id = want[c].id => want[c].id \in Ids
    BY DEF Grants
  <2>3. want[c].id \in Ids => [want[c] EXCEPT !.target = t] \in Grants
    BY <2>1 DEF Wants, Grants
  <2>4. [want[c] EXCEPT !.target = t].id = want[c].id
    BY <2>1 DEF Wants
  <2>5. grants' \subseteq Grants
    BY <1>4, <2>2, <2>3, <2>4 DEF UpdateGrant
  <2> QED BY <1>4, <2>5, EndType DEF UpdateGrant, history, Wants
<1>5. ASSUME DeleteGrant(c)
      PROVE  TypeOK'
  BY <1>5, EndType DEF DeleteGrant, Wants
<1> QED BY <1>1, <1>2, <1>3, <1>4, <1>5 DEF GrantStep

LEMMA TypeStep ==
  ASSUME TypeOK, Wanted, [Next]_vars
  PROVE  TypeOK'
<1>1. CASE UNCHANGED vars
  BY <1>1 DEF vars, TypeOK
<1>2. ASSUME NEW c \in Clients, Stop(c)
      PROVE  TypeOK'
  BY <1>2, EndType DEF Stop, TypeOK, data, history, Wants
<1> QED BY <1>1, <1>2, TypeStart, TypeRole, TypeGrant DEF Next

-----------------------------------------------------------------------------
\* A step that leaves the assignments alone, and lets no client begin to handle
\* one, disturbs nothing about them.
LEMMA AssignmentsStay ==
  ASSUME TypeOK, Assignments, UNCHANGED <<grants, doubtful>>,
         \A d \in Clients : Handles(d)' =>
           pc'[d] = pc[d] /\ want'[d] = want[d] /\ (alone'[d] => alone[d])
  PROVE  Assignments'
<1> USE DEF Assignments, Handles
<1>1. Wanted' /\ Placed' /\ UniqueIds'
  BY DEF Wanted, Placed, UniqueIds
<1>2. Remembered' /\ LookedUp' /\ OneGrantEach'
  BY DEF Remembered, LookedUp, OneGrantEach, SameGrant
<1>3. LonePersist'
  BY DEF LonePersist, SameGrant
<1> QED BY <1>1, <1>2, <1>3

LEMMA EndStays ==
  ASSUME TypeOK, NEW c \in Clients, End(c)
  PROVE  /\ ~Handles(c)' /\ pc'[c] = "idle"
         /\ \A d \in Clients \ {c} : /\ pc'[d] = pc[d] /\ want'[d] = want[d]
                                     /\ alone'[d] = alone[d] /\ view'[d] = view[d]
BY DEF End, Handles, TypeOK

LEMMA AssignStart ==
  ASSUME TypeOK, Assignments, NEW c \in Clients, StartStep(c)
  PROVE  Assignments'
<1>1. UNCHANGED <<grants, doubtful>>
  BY DEF StartStep, Start, SyncRead, SyncCommit, SyncRefused, StoreRead, StoreCommit,
         StoreRefused, data, history
<1>2. \A d \in Clients : Handles(d)' =>
        pc'[d] = pc[d] /\ want'[d] = want[d] /\ (alone'[d] => alone[d])
  <2>1. CASE Start(c)
    BY <2>1 DEF Start, Handles, TypeOK
  <2>2. CASE SyncRead(c) \/ SyncCommit(c) \/ SyncRefused(c) \/ StoreRead(c) \/ StoreRefused(c)
    BY <2>2 DEF SyncRead, SyncCommit, SyncRefused, StoreRead, StoreRefused, Handles, TypeOK
  <2>3. CASE StoreCommit(c)
    BY <2>3, EndStays DEF StoreCommit
  <2> QED BY <2>1, <2>2, <2>3 DEF StartStep
<1> QED BY <1>1, <1>2, AssignmentsStay

LEMMA AssignRole ==
  ASSUME TypeOK, Assignments, NEW c \in Clients, RoleStep(c)
  PROVE  Assignments'
<1>1. UNCHANGED <<grants, doubtful>>
  BY DEF RoleStep, NewRole, FindRole, UpdateRole, RemoveRole, data, history
<1>2. \A d \in Clients : Handles(d)' =>
        pc'[d] = pc[d] /\ want'[d] = want[d] /\ (alone'[d] => alone[d])
  <2>1. ASSUME NEW n \in Chosen, NEW p \in Edits, NewRole(c, n, p)
        PROVE  UNCHANGED <<pc, want, alone>>
    BY <2>1 DEF NewRole
  <2>2. ASSUME NEW k \in roles, NEW next \in {"editrole", "deleterole"},
               FindRole(c, k, next)
        PROVE  /\ UNCHANGED <<want, alone>>
               /\ \A d \in Clients : Handles(d)' => pc'[d] = pc[d]
    BY <2>2 DEF FindRole, Handles, TypeOK
  <2>3. ASSUME NEW p \in Edits, UpdateRole(c, p)
        PROVE  End(c)
    BY <2>3 DEF UpdateRole
  <2>4. ASSUME RemoveRole(c)
        PROVE  End(c)
    BY <2>4 DEF RemoveRole
  <2> QED BY <2>1, <2>2, <2>3, <2>4, EndStays DEF RoleStep
<1> QED BY <1>1, <1>2, AssignmentsStay

LEMMA AssignCheck ==
  ASSUME TypeOK, Assignments, NEW c \in Clients, NEW g \in Wants, Check(c, g)
  PROVE  Assignments'
<1> USE DEF Assignments
<1>1. /\ grants' = grants /\ doubtful' = doubtful /\ pc'[c] = "persist" /\ want'[c] = g
      /\ alone'[c] = (\A d \in Clients : ~(pc[d] = "persist" /\ SameGrant(want[d], g)))
      /\ \A h \in grants : ~SameGrant(g, h)
      /\ g.target \in Scope(g.role[1])
  BY DEF Check, data, history, Matches, SameGrant, TypeOK, Wants, Grants
<1>2. \A d \in Clients \ {c} :
        /\ pc'[d] = pc[d] /\ want'[d] = want[d]
        /\ alone'[d] => alone[d] /\ ~(pc[d] = "persist" /\ SameGrant(want[d], g))
  BY DEF Check, TypeOK
<1>3. Wanted'
  BY <1>1, <1>2 DEF Wanted, Handles, Wants
<1>4. Placed' /\ UniqueIds' /\ OneGrantEach'
  BY <1>1 DEF Placed, UniqueIds, OneGrantEach, SameGrant
<1>5. Remembered'
  BY <1>1, <1>2 DEF Remembered
<1>6. LookedUp'
  <2> SUFFICES ASSUME NEW d \in Clients, pc'[d] = "persist", want'[d].target = Global,
                      NEW h \in grants, SameGrant(want[d], h)'
               PROVE  h.id \in doubtful /\ ~alone'[d]
    BY <1>1 DEF LookedUp
  <2>1. d # c
    BY <1>1 DEF SameGrant
  <2> QED BY <2>1, <1>2 DEF LookedUp, SameGrant
<1>7. LonePersist'
  <2> SUFFICES ASSUME NEW d \in Clients, NEW e \in Clients, d # e, pc'[d] = "persist",
                      pc'[e] = "persist", SameGrant(want[d], want[e])'
               PROVE  ~alone'[d]
    BY DEF LonePersist
  <2>1. CASE d = c
    BY <2>1, <1>1, <1>2 DEF SameGrant
  <2>2. CASE e = c
    BY <2>2, <1>1, <1>2 DEF SameGrant
  <2>3. CASE d # c /\ e # c
    BY <2>3, <1>2 DEF LonePersist, SameGrant
  <2> QED BY <2>1, <2>2, <2>3
<1> QED BY <1>3, <1>4, <1>5, <1>6, <1>7

LEMMA AssignPersist ==
  ASSUME TypeOK, Assignments, NEW c \in Clients, Persist(c)
  PROVE  Assignments'
<1> USE DEF Assignments
<1>1. PICK x \in FreeIds : x = CHOOSE y \in FreeIds : TRUE
  BY DEF Persist
<1> DEFINE g == [want[c] EXCEPT !.id = x]
<1>2. /\ g \in Grants /\ g.id = x /\ g.role = want[c].role /\ g.user = want[c].user
      /\ g.target = want[c].target
  BY <1>1 DEF Persist, Wanted, Handles, Grants, FreeIds
<1>3. /\ \A h \in grants : h.id # x
      /\ \A d \in Clients : want[d].id # x
  BY <1>1 DEF FreeIds
<1>4. /\ grants' = IF Allowed(g) THEN grants \cup {g} ELSE grants
      /\ doubtful' = IF Allowed(g) /\ ~alone[c] THEN doubtful \cup {x} ELSE doubtful
  BY <1>1, <1>2 DEF Persist
<1>5. /\ ~Handles(c)' /\ pc'[c] = "idle"
      /\ \A d \in Clients \ {c} : /\ pc'[d] = pc[d] /\ want'[d] = want[d]
                                  /\ alone'[d] = alone[d]
  BY EndStays DEF Persist
<1>6. CASE ~Allowed(g)
  <2>1. UNCHANGED <<grants, doubtful>>
    BY <1>4, <1>6
  <2> QED BY <2>1, <1>5, AssignmentsStay
<1>7. CASE Allowed(g)
  <2> HIDE DEF g
  <2>1. grants' = grants \cup {g} /\ doubtful \subseteq doubtful'
        /\ (~alone[c] => x \in doubtful')
    BY <1>4, <1>7
  <2>2. g.target \in Scope(g.role[1])
    BY <1>2 DEF Persist, Wanted, Handles
  <2>3. \A h \in grants : SameGrant(g, h) =>
          g.target = Global /\ h.id \in doubtful /\ ~alone[c]
    BY <1>2, <1>3, <1>7 DEF Allowed, SameGrant, LookedUp, Persist
  <2>4. Wanted' /\ Remembered'
    BY <1>5, <2>1, <1>2, <1>3 DEF Wanted, Remembered, Handles
  <2>5. Placed' /\ UniqueIds'
    BY <2>1, <2>2, <1>2, <1>3 DEF Placed, UniqueIds
  <2>6. OneGrantEach'
    BY <2>1, <2>3, <1>2 DEF OneGrantEach, SameGrant
  <2>7. LookedUp'
    <3> SUFFICES ASSUME NEW d \in Clients, pc'[d] = "persist", want'[d].target = Global,
                        NEW h \in grants', SameGrant(want[d], h)'
                 PROVE  h.id \in doubtful' /\ ~alone'[d]
      BY DEF LookedUp
    <3>1. d # c /\ pc[d] = "persist" /\ want'[d] = want[d] /\ alone'[d] = alone[d]
      BY <1>5
    <3>2. CASE h \in grants
      BY <3>1, <3>2, <2>1 DEF LookedUp, SameGrant
    <3>3. CASE h = g
      <4>1. SameGrant(want[d], want[c]) /\ SameGrant(want[c], want[d])
        BY <3>1, <3>3, <1>2 DEF SameGrant
      <4>2. ~alone[c] /\ ~alone[d]
        BY <4>1, <3>1 DEF LonePersist, Persist
      <4> QED BY <4>2, <3>1, <3>3, <2>1, <1>2
    <3> QED BY <3>2, <3>3, <2>1
  <2>8. LonePersist'
    BY <1>5 DEF LonePersist, SameGrant
  <2> QED BY <2>4, <2>5, <2>6, <2>7, <2>8
<1> QED BY <1>6, <1>7

LEMMA AssignUpdate ==
  ASSUME TypeOK, Assignments, NEW c \in Clients, NEW t \in Targets \cup {Global},
         UpdateGrant(c, t)
  PROVE  Assignments'
<1> USE DEF Assignments
<1> DEFINE g == [want[c] EXCEPT !.target = t]
           row == {h \in grants : h.id = g.id}
<1>1. /\ g.id = want[c].id /\ g.role = want[c].role /\ g.user = want[c].user
      /\ g.target = t /\ t \in Scope(want[c].role[1])
      /\ want[c].target \in Scope(want[c].role[1])
  BY DEF UpdateGrant, Wanted, Handles
<1>2. /\ ~Handles(c)' /\ pc'[c] = "idle"
      /\ \A d \in Clients \ {c} : /\ pc'[d] = pc[d] /\ want'[d] = want[d]
                                  /\ alone'[d] = alone[d]
  BY EndStays DEF UpdateGrant
<1>3. doubtful' = doubtful
  BY DEF UpdateGrant, history
<1>4. CASE ~(row # {} /\ Allowed(g))
  <2>1. UNCHANGED <<grants, doubtful>>
    BY <1>3, <1>4 DEF UpdateGrant
  <2> QED BY <2>1, <1>2, AssignmentsStay
<1>5. CASE row # {} /\ Allowed(g)
  <2>1. grants' = (grants \ row) \cup {g}
    BY <1>5 DEF UpdateGrant
  <2> HIDE DEF g
  <2>2. \A h \in grants \ row : h.id # g.id
    OBVIOUS
  <2>3. PICK old \in grants : /\ old.id = g.id /\ old.role = g.role /\ old.user = g.user
    BY <1>5, <1>1 DEF Remembered, UpdateGrant
  <2>4. t = Global => old.target = Global
    BY <2>3, <1>1, RolesAssumption DEF Scope, Placed
  <2>5. \A h : SameGrant(h, g) /\ t = Global => SameGrant(h, old)
    BY <2>3, <2>4, <1>1 DEF SameGrant
  <2> HIDE DEF row
  <2>6. Wanted'
    BY <1>2 DEF Wanted, Handles
  <2>7. Placed' /\ UniqueIds'
    BY <2>1, <2>2, <1>1 DEF Placed, UniqueIds
  <2>8. Remembered'
    BY <2>1, <2>3, <1>2 DEF Remembered
  <2>9. LookedUp'
    <3> SUFFICES ASSUME NEW d \in Clients, pc'[d] = "persist", want'[d].target = Global,
                        NEW h \in grants', SameGrant(want[d], h)'
                 PROVE  h.id \in doubtful' /\ ~alone'[d]
      BY DEF LookedUp
    <3>1. d # c /\ pc[d] = "persist" /\ want'[d] = want[d] /\ alone'[d] = alone[d]
      BY <1>2
    <3>2. CASE h \in grants
      BY <3>1, <3>2, <1>3 DEF LookedUp, SameGrant
    <3>3. CASE h = g
      <4>1. t = Global /\ SameGrant(want[d], old)
        BY <3>1, <3>3, <2>5, <1>1 DEF SameGrant
      <4> QED BY <4>1, <3>1, <3>3, <1>3, <2>3 DEF LookedUp
    <3> QED BY <3>2, <3>3, <2>1
  <2>10. OneGrantEach'
    <3>1. \A h \in grants \ row : SameGrant(g, h) \/ SameGrant(h, g) =>
            g.target = Global /\ {g.id, h.id} \subseteq doubtful
      <4> SUFFICES ASSUME NEW h \in grants \ row, SameGrant(h, g)
                   PROVE  g.target = Global /\ {g.id, h.id} \subseteq doubtful
        BY DEF SameGrant
      <4>1. g.target = Global
        BY <1>5, <2>2 DEF Allowed, SameGrant
      <4>2. h # old /\ SameGrant(h, old)
        BY <4>1, <2>2, <2>3, <2>5, <1>1
      <4> QED BY <4>1, <4>2, <2>3 DEF OneGrantEach
    <3> QED BY <3>1, <2>1, <1>3, <1>1 DEF OneGrantEach, SameGrant
  <2>11. LonePersist'
    BY <1>2 DEF LonePersist, SameGrant
  <2> QED BY <2>6, <2>7, <2>8, <2>9, <2>10, <2>11
<1> QED BY <1>4, <1>5

LEMMA AssignGrant ==
  ASSUME TypeOK, Assignments, NEW c \in Clients, GrantStep(c)
  PROVE  Assignments'
<1>1. ASSUME NEW k \in roles, NEW u \in Users, NEW t \in Targets \cup {Global},
             Check(c, [id |-> 0, role |-> k, user |-> u, target |-> t])
      PROVE  Assignments'
  <2>1. [id |-> 0, role |-> k, user |-> u, target |-> t] \in Wants
    BY DEF Wants, TypeOK
  <2> QED BY <1>1, <2>1, AssignCheck
<1>2. ASSUME NEW g \in grants, NEW next \in {"editgrant", "deletegrant"}, FindGrant(c, g, next)
      PROVE  Assignments'
  <2> USE DEF Assignments
  <2>1. /\ UNCHANGED <<grants, doubtful, alone>>
        /\ pc'[c] = next /\ want'[c] = g
        /\ \A d \in Clients \ {c} : pc'[d] = pc[d] /\ want'[d] = want[d]
    BY <1>2 DEF FindGrant, data, history, TypeOK
  <2>2. g \in Grants /\ g \in Wants
    BY DEF Wants, Grants, TypeOK
  <2>3. Wanted' /\ Remembered'
    BY <2>1, <2>2 DEF Wanted, Remembered, Handles, Wants, Grants, Placed, UniqueIds
  <2>4. Placed' /\ UniqueIds' /\ OneGrantEach'
    BY <2>1 DEF Placed, UniqueIds, OneGrantEach, SameGrant
  <2>5. LookedUp' /\ LonePersist'
    BY <2>1 DEF LookedUp, LonePersist, SameGrant
  <2> QED BY <2>3, <2>4, <2>5
<1>3. ASSUME DeleteGrant(c)
      PROVE  Assignments'
  <2> USE DEF Assignments
  <2>1. /\ grants' = {h \in grants : h.id # want[c].id}
        /\ doubtful' = doubtful \ {want[c].id}
    BY <1>3 DEF DeleteGrant
  <2>2. /\ ~Handles(c)' /\ pc'[c] = "idle"
        /\ \A d \in Clients \ {c} : /\ pc'[d] = pc[d] /\ want'[d] = want[d]
                                    /\ alone'[d] = alone[d]
    BY <1>3, EndStays DEF DeleteGrant
  <2>3. Wanted' /\ Remembered'
    BY <2>1, <2>2 DEF Wanted, Remembered, Handles
  <2>4. Placed' /\ UniqueIds' /\ OneGrantEach'
    BY <2>1 DEF Placed, UniqueIds, OneGrantEach, SameGrant
  <2>5. LookedUp' /\ LonePersist'
    BY <2>1, <2>2 DEF LookedUp, LonePersist, SameGrant
  <2> QED BY <2>3, <2>4, <2>5
<1> QED BY <1>1, <1>2, <1>3, AssignPersist, AssignUpdate DEF GrantStep

LEMMA AssignStep ==
  ASSUME TypeOK, Assignments, [Next]_vars
  PROVE  Assignments'
<1>1. CASE UNCHANGED vars
  <2>1. UNCHANGED <<grants, doubtful, pc, want, alone>>
    BY <1>1 DEF vars
  <2> QED BY <2>1, AssignmentsStay
<1>2. ASSUME NEW c \in Clients, Stop(c)
      PROVE  Assignments'
  BY <1>2, EndStays, AssignmentsStay DEF Stop, data, history
<1> QED BY <1>1, <1>2, AssignStart, AssignRole, AssignGrant DEF Next

-----------------------------------------------------------------------------
(***************************************************************************)
(* Starts.                                                                 *)
(***************************************************************************)
LEMMA OneRowCount ==
  ASSUME NEW n
  PROVE  OneRow(n) <=> IsFiniteSet(Named(roles, n)) /\ Cardinality(Named(roles, n)) <= 1
<1>1. ASSUME OneRow(n)
      PROVE  IsFiniteSet(Named(roles, n)) /\ Cardinality(Named(roles, n)) <= 1
  <2>1. CASE Named(roles, n) = {}
    BY <2>1, FS_EmptySet
  <2>2. ASSUME NEW k \in Named(roles, n)
        PROVE  Named(roles, n) = {k}
    BY <1>1 DEF OneRow
  <2>3. ASSUME NEW k \in Named(roles, n)
        PROVE  IsFiniteSet(Named(roles, n)) /\ Cardinality(Named(roles, n)) <= 1
    <3>1. IsFiniteSet({k}) /\ Cardinality({k}) = 1
      BY FS_Singleton
    <3>2. Named(roles, n) = {k}
      BY <2>2
    <3> HIDE DEF OneRow
    <3> QED BY <3>1, <3>2
  <2> QED BY <2>1, <2>3
<1>2. ASSUME IsFiniteSet(Named(roles, n)), Cardinality(Named(roles, n)) <= 1
      PROVE  OneRow(n)
  <2>1. Cardinality(Named(roles, n)) \in Nat
    BY <1>2, FS_CardinalityType
  <2>2. Cardinality(Named(roles, n)) = 0 \/ Cardinality(Named(roles, n)) = 1
    BY <1>2, <2>1
  <2> QED BY <2>2, <1>2, FS_EmptySet, FS_Singleton DEF OneRow
<1> QED BY <1>1, <1>2

LEMMA OutdatedGiven ==
  ASSUME NEW c \in Clients, view[c].table = Permissions, NEW k, k[1] \in Managed
  PROVE  Outdated(k, view[c]) <=> view[c].perms[k] # Given(k[1], Permissions)
BY RolesAssumption DEF Outdated, Given

\* What no step but a start's own commits touch: the roles of type ADMIN.
LEMMA StartsStay ==
  ASSUME TypeOK, Starts, UNCHANGED <<admin, table, raced, started>>,
         namesake => namesake',
         \A k \in admin : k \in roles' /\ perms'[k] = perms[k],
         \A k \in roles' \ roles : k[1] \in SpecialNames => ~Own(k[1])',
         \A d \in Clients : Starting(d)' \/ pc'[d] = "threw" =>
           pc'[d] = pc[d] /\ view'[d] = view[d] /\ alone'[d] = alone[d],
         Offered'
  PROVE  Starts'
<1> USE DEF Starts, Starting
<1>1. /\ \A n : Own(n)' => Own(n)
      /\ Managed \subseteq SpecialNames
  BY DEF Own, Managed, SpecialNames
<1>2. Unique'
  BY <1>1 DEF Unique, OneRow, Named
<1>3. Synced'
  BY DEF Synced
<1>4. Viewed'
  <2> SUFFICES ASSUME NEW c \in Clients, pc'[c] = "storing"
               PROVE  /\ \A k \in view'[c].roles :
                           k[1] \in Managed /\ Own(k[1])' => k \in roles'
                      /\ \A k \in admin' :
                           (k \in view'[c].roles => ~Outdated(k, view'[c]))
                             => perms'[k] = Given(k[1], Permissions)
                      /\ alone'[c] => \A n \in SpecialNames :
                           (Own(n)' /\ Named(view'[c].roles, n) = {}) => Named(roles', n) = {}
    BY DEF Viewed, Outdated, Named, Given
  <2>0. view'[c] = view[c] /\ alone'[c] = alone[c]
    OBVIOUS
  <2>1. pc[c] = "storing"
    OBVIOUS
  <2>2. \A k \in view[c].roles : k[1] \in Managed /\ Own(k[1])' => k \in roles'
    BY <2>1, <1>1 DEF Viewed, AdminRows
  <2>3. ASSUME NEW k \in admin, k \in view[c].roles => ~Outdated(k, view[c])
        PROVE  perms'[k] = Given(k[1], Permissions)
    BY <2>1, <2>3 DEF Viewed
  <2>4. ASSUME alone[c], NEW n \in SpecialNames, Own(n)', Named(view[c].roles, n) = {}
        PROVE  Named(roles', n) = {}
    BY <2>1, <2>4, <1>1 DEF Viewed, Named
  <2> QED BY <2>0, <2>2, <2>3, <2>4
<1>5. LoneStart'
  BY DEF LoneStart
<1>6. LoneThrow'
  BY DEF LoneThrow
<1>7. StartedComplete'
  BY <1>1 DEF StartedComplete, Named
<1>8. AdminRows'
  BY <1>1 DEF AdminRows, Managed, SpecialNames
<1> QED BY <1>2, <1>3, <1>4, <1>5, <1>6, <1>7, <1>8

LEMMA StartsBegin ==
  ASSUME TypeOK, Starts, NEW c \in Clients, Start(c)
  PROVE  Starts'
<1> USE DEF Starts
<1>1. /\ UNCHANGED <<data, view, raced, namesake, started>>
      /\ pc'[c] = "sync" /\ \A d \in Clients \ {c} : pc'[d] = pc[d]
      /\ \A d \in Clients \ {c} : alone'[d] => alone[d] /\ ~Starting(d)
      /\ alone'[c] => \A d \in Clients \ {c} : ~Starting(d)
  BY DEF Start, TypeOK
<1>2. Unique'
  BY <1>1 DEF data, Unique, OneRow, Named, Own
<1>3. Synced'
  BY <1>1 DEF data, Synced
<1>4. Viewed'
  BY <1>1 DEF data, Viewed, Outdated, Named, Own
<1>5. LoneStart'
  BY <1>1 DEF LoneStart, Starting
<1>6. LoneThrow' /\ Offered'
  BY <1>1 DEF data, LoneThrow, Offered
<1>7. StartedComplete' /\ AdminRows'
  BY <1>1 DEF data, StartedComplete, Named, Own, AdminRows
<1> QED BY <1>2, <1>3, <1>4, <1>5, <1>6, <1>7

LEMMA StartsSync ==
  ASSUME TypeOK, Starts, NEW c \in Clients, SyncRead(c) \/ SyncCommit(c)
  PROVE  Starts'
<1> USE DEF Starts
<1>1. /\ UNCHANGED <<roles, admin, alone, raced, namesake, started>>
      /\ pc[c] \in {"sync", "syncing"} /\ pc'[c] \in {"syncing", "store"}
      /\ \A d \in Clients \ {c} : pc'[d] = pc[d] /\ view'[d] = view[d]
  BY DEF SyncRead, SyncCommit, data, history, TypeOK
<1>2. /\ table' = table \/ table' = Permissions
      /\ \A k \in Rows : perms'[k] = perms[k] \/ perms'[k] = perms[k] \cap Permissions
  BY DEF SyncRead, SyncCommit, data
<1>3. \A k \in Rows : \A n : perms[k] = Given(n, Permissions) => perms'[k] = Given(n, Permissions)
  <2>1. \A n : Given(n, Permissions) \cap Permissions = Given(n, Permissions)
    BY DEF Given
  <2> QED BY <1>2, <2>1
<1>4. admin \subseteq Rows
  BY DEF TypeOK
<1>5. Unique'
  BY <1>1 DEF Unique, OneRow, Named, Own
<1>6. Synced'
  <2>1. CASE SyncRead(c)
    <3>1. table' = table /\ pc'[c] = "syncing" /\ view'[c].table = table \cap Permissions
      BY <2>1 DEF SyncRead, data, TypeOK, Views
    <3> QED BY <3>1, <1>1 DEF Synced
  <2>2. CASE SyncCommit(c)
    <3>1. table' = Permissions /\ pc'[c] = "store" /\ Starting(c) /\ view' = view
      BY <2>2 DEF SyncCommit, TypeOK, Starting
    <3>2. \A d \in Clients \ {c} : pc[d] = "syncing" => ~alone[d]
      BY <3>1 DEF LoneStart, Starting
    <3> QED BY <3>1, <3>2, <1>1 DEF Synced
  <2> QED BY <2>1, <2>2
<1>7. Viewed'
  <2> SUFFICES ASSUME NEW d \in Clients, pc'[d] = "storing"
               PROVE  /\ \A k \in view'[d].roles :
                           k[1] \in Managed /\ Own(k[1])' => k \in roles'
                      /\ \A k \in admin' :
                           (k \in view'[d].roles => ~Outdated(k, view'[d]))
                             => perms'[k] = Given(k[1], Permissions)
                      /\ alone'[d] => \A n \in SpecialNames :
                           (Own(n)' /\ Named(view'[d].roles, n) = {}) => Named(roles', n) = {}
    BY DEF Viewed, Outdated, Named, Given
  <2>1. pc[d] = "storing" /\ view'[d] = view[d]
    BY <1>1
  <2>2. \A n : Own(n)' = Own(n)
    BY <1>1 DEF Own
  <2> QED BY <2>1, <2>2, <1>1, <1>3, <1>4 DEF Viewed
<1>8. LoneStart'
  BY <1>1 DEF LoneStart, Starting
<1>9. LoneThrow' /\ Offered'
  BY <1>1 DEF LoneThrow, Offered
<1>10. StartedComplete' /\ AdminRows'
  BY <1>1, <1>3, <1>4 DEF StartedComplete, Named, Own, AdminRows
<1> QED BY <1>5, <1>6, <1>7, <1>8, <1>9, <1>10

LEMMA StartsRefused ==
  ASSUME TypeOK, Starts, NEW c \in Clients, SyncRefused(c) \/ StoreRefused(c)
  PROVE  Starts'
<1> USE DEF Starts
<1>1. /\ UNCHANGED <<roles, admin, perms, table, view, alone, raced, namesake, started>>
      /\ pc'[c] = "threw" /\ \A d \in Clients \ {c} : pc'[d] = pc[d]
  BY DEF SyncRefused, StoreRefused, data, history, TypeOK
<1>2. ~alone[c] \/ namesake
  <2>1. CASE SyncRefused(c)
    BY <2>1 DEF SyncRefused, Synced
  <2>2. CASE StoreRefused(c)
    <3>1. PICK k \in view[c].roles : k[1] \in Managed /\ k \notin roles
      BY <2>2 DEF StoreRefused, OutdatedRows, Outdated
    <3>2. pc[c] = "storing"
      BY <2>2 DEF StoreRefused
    <3> QED BY <3>1, <3>2 DEF Viewed, Own
  <2> QED BY <2>1, <2>2
<1>3. Unique' /\ Synced' /\ LoneStart' /\ Offered' /\ AdminRows'
  BY <1>1 DEF Unique, OneRow, Named, Own, Synced, LoneStart, Starting, Offered, AdminRows
<1>4. LoneThrow' /\ StartedComplete'
  BY <1>1, <1>2 DEF LoneThrow, StartedComplete, Named, Own
<1>5. Viewed'
  BY <1>1 DEF Viewed, Outdated, Named, Own
<1> QED BY <1>3, <1>4, <1>5

LEMMA StartsRead ==
  ASSUME TypeOK, Starts, NEW c \in Clients, StoreRead(c)
  PROVE  Starts'
<1> USE DEF Starts
<1>1. /\ UNCHANGED <<roles, admin, perms, table, alone, raced, namesake, started>>
      /\ pc[c] = "store" /\ \A d \in Clients \ {c} : pc'[d] = pc[d] /\ view'[d] = view[d]
  BY DEF StoreRead, data, history, TypeOK
<1>2. view'[c].roles = roles /\ view'[c].perms = perms /\ view'[c].table = table
  BY DEF StoreRead, TypeOK
<1>3. pc'[c] = "storing" \/ pc'[c] = "threw"
  BY DEF StoreRead, TypeOK
<1>4. table = Permissions
  BY <1>1 DEF Synced
<1>5. pc'[c] = "threw" => raced \/ namesake
  <2> SUFFICES ASSUME pc'[c] = "threw" PROVE raced \/ namesake
    OBVIOUS
  <2>1. PICK n \in SpecialNames : ~(Cardinality(Named(roles, n)) <= 1)
    BY DEF StoreRead, TypeOK
  <2>2. ~OneRow(n)
    BY <2>1, OneRowCount
  <2> QED BY <2>2 DEF Unique, Own
<1>6. Unique' /\ Synced' /\ LoneStart' /\ Offered' /\ LoneThrow' /\ StartedComplete' /\ AdminRows'
  BY <1>1, <1>2, <1>3, <1>4, <1>5
     DEF Unique, OneRow, Named, Own, Synced, LoneStart, Starting, Offered, LoneThrow,
         StartedComplete, AdminRows
<1>7. Viewed'
  <2> SUFFICES ASSUME NEW d \in Clients, pc'[d] = "storing"
               PROVE  /\ \A k \in view'[d].roles :
                           k[1] \in Managed /\ Own(k[1])' => k \in roles'
                      /\ \A k \in admin' :
                           (k \in view'[d].roles => ~Outdated(k, view'[d]))
                             => perms'[k] = Given(k[1], Permissions)
                      /\ alone'[d] => \A n \in SpecialNames :
                           (Own(n)' /\ Named(view'[d].roles, n) = {}) => Named(roles', n) = {}
    BY DEF Viewed, Outdated, Named, Given
  <2>0. \A n : Own(n)' = Own(n)
    BY <1>1 DEF Own
  <2>1. CASE d # c
    BY <2>0, <2>1, <1>1 DEF Viewed
  <2>2. CASE d = c
    <3>1. \A k : k[1] \in Managed /\ ~Outdated(k, view'[c]) => perms[k] = Given(k[1], Permissions)
      BY <1>2, <1>4, RolesAssumption DEF Outdated, Given
    <3> QED BY <2>0, <2>2, <1>1, <1>2, <3>1 DEF AdminRows
  <2> QED BY <2>1, <2>2
<1> QED BY <1>6, <1>7

LEMMA StartsCommit ==
  ASSUME TypeOK, Starts, NEW c \in Clients, StoreCommit(c)
  PROVE  Starts'
<1> USE DEF Starts
<1> DEFINE missing == Missing(c)
           new == {NewRow(n) : n \in missing}
           outdated == OutdatedRows(c)
<1>1. /\ pc[c] = "storing" /\ Starting(c)
      /\ view[c].table = Permissions /\ table' = table /\ table = Permissions
      /\ namesake' = namesake /\ started' /\ raced' = (raced \/ ~alone[c])
  BY DEF StoreCommit, Synced, Starting
<1>2. /\ roles' = roles \cup new
      /\ admin' = admin \cup {k \in new : k[1] \in Managed}
      /\ \A k \in Rows : perms'[k] = IF k \in new \cup outdated THEN Given(k[1], Permissions)
                                     ELSE perms[k]
  BY <1>1 DEF StoreCommit
<1>3. \A n \in missing : /\ NewRow(n) \notin roles /\ NewRow(n)[1] = n /\ NewRow(n) \in Rows
                         /\ \A d \in Clients : ~Remembers(d, NewRow(n))
  BY RowType DEF StoreCommit, Names, Missing
<1>4. /\ pc'[c] = "idle"
      /\ \A d \in Clients \ {c} : pc'[d] = pc[d] /\ view'[d] = view[d] /\ alone'[d] = alone[d]
  BY EndStays DEF StoreCommit
<1>5. \A n : Own(n)' = Own(n)
  BY <1>1 DEF Own
<1> HIDE DEF missing, new, outdated
<1>6. admin \subseteq Rows /\ admin' \subseteq Rows /\ \A k \in admin : k \in roles
  BY <1>2, <1>3 DEF new, TypeOK, AdminRows
<1>7. \A k \in roles : k \notin new
  BY <1>3 DEF new
<1>8. \A k \in new : k[1] \in SpecialNames
  BY <1>3 DEF new, missing, Missing
\* The roles of type ADMIN of the view, and those of others.
<1>9. ASSUME NEW k \in admin'
      PROVE  perms'[k] = Given(k[1], Permissions)
  <2>1. CASE k \in new \cup outdated
    BY <2>1, <1>2, <1>6
  <2>2. CASE k \notin new \cup outdated
    <3>1. k \in admin /\ perms'[k] = perms[k]
      BY <2>2, <1>2, <1>6, <1>9
    <3>2. k \in view[c].roles => ~Outdated(k, view[c])
      BY <2>2 DEF outdated, OutdatedRows
    <3> QED BY <3>1, <3>2, <1>1 DEF Viewed
  <2> QED BY <2>1, <2>2
<1>10. \A k \in Rows : perms[k] = Given(k[1], Permissions) => perms'[k] = Given(k[1], Permissions)
  BY <1>2
<1>11. Unique'
  <2> SUFFICES ASSUME ~raced, alone[c], NEW n \in SpecialNames, Own(n)
               PROVE  OneRow(n)'
    BY <1>1, <1>5 DEF Unique
  <2>1. OneRow(n)
    BY DEF Unique
  <2>2. CASE n \in missing
    <3>1. Named(roles, n) = {}
      BY <2>2, <1>1 DEF Viewed, missing, Missing
    <3>2. Named(roles', n) \subseteq {NewRow(n)}
      BY <3>1, <1>2, <1>3 DEF Named, new
    <3> QED BY <3>2 DEF OneRow
  <2>3. CASE n \notin missing
    <3>1. Named(roles', n) = Named(roles, n)
      BY <2>3, <1>2, <1>3 DEF Named, new
    <3> QED BY <3>1, <2>1 DEF OneRow
  <2> QED BY <2>2, <2>3
<1>12. Synced'
  BY <1>1, <1>4 DEF Synced
<1>13. Viewed'
  <2> SUFFICES ASSUME NEW d \in Clients, pc'[d] = "storing"
               PROVE  /\ \A k \in view'[d].roles :
                           k[1] \in Managed /\ Own(k[1])' => k \in roles'
                      /\ \A k \in admin' :
                           (k \in view'[d].roles => ~Outdated(k, view'[d]))
                             => perms'[k] = Given(k[1], Permissions)
                      /\ alone'[d] => \A n \in SpecialNames :
                           (Own(n)' /\ Named(view'[d].roles, n) = {}) => Named(roles', n) = {}
    BY DEF Viewed, Outdated, Named, Given
  <2>1. d # c /\ pc[d] = "storing" /\ view'[d] = view[d]
    BY <1>4
  <2>2. ~alone'[d]
    BY <2>1, <1>1, <1>4 DEF LoneStart, Starting
  <2>3. \A k \in view[d].roles : k[1] \in Managed /\ Own(k[1]) => k \in roles'
    BY <2>1, <1>2 DEF Viewed
  <2>4. \A k \in admin' : perms'[k] = Given(k[1], Permissions)
    BY <1>9
  <2> QED BY <2>1, <2>2, <2>3, <2>4, <1>5
<1>14. LoneStart'
  BY <1>4 DEF LoneStart, Starting
<1>15. LoneThrow' /\ AdminRows'
  <2>1. LoneThrow'
    BY <1>1, <1>4 DEF LoneThrow
  <2>2. AdminRows'
    BY <1>2, <1>5 DEF AdminRows
  <2> QED BY <2>1, <2>2
<1>16. StartedComplete'
  <2> SUFFICES ASSUME NEW n \in Managed, Own(n)
               PROVE  Named(admin', n) # {}
    BY <1>1, <1>5, <1>9 DEF StartedComplete
  <2>1. CASE n \in missing
    BY <2>1, <1>2, <1>3 DEF Named, new
  <2>2. CASE n \notin missing
    <3>1. PICK k \in view[c].roles : k[1] = n
      BY <2>2 DEF missing, Missing, Named, Managed, SpecialNames
    <3>2. k \in admin
      BY <3>1, <1>1 DEF Viewed, AdminRows
    <3> QED BY <3>1, <3>2, <1>2 DEF Named
  <2> QED BY <2>1, <2>2
<1>17. Offered'
  <2> SUFFICES ASSUME NEW d \in Clients, pc'[d] \in {"editrole", "deleterole"}
               PROVE  view'[d].row \notin admin'
    BY DEF Offered
  <2>1. pc[d] \in {"editrole", "deleterole"} /\ view'[d] = view[d]
    BY <1>4
  <2>2. view[d].row \notin admin /\ view[d].row \notin new
    BY <2>1, <1>3 DEF Offered, Remembers, new
  <2> QED BY <2>1, <2>2, <1>2
<1> QED BY <1>11, <1>12, <1>13, <1>14, <1>15, <1>16, <1>17

LEMMA StartsRole ==
  ASSUME TypeOK, Starts, NEW c \in Clients, RoleStep(c)
  PROVE  Starts'
<1> USE DEF Starts
<1>1. ASSUME NEW n \in Chosen, NEW p \in Edits, NewRole(c, n, p)
      PROVE  Starts'
  <2>1. NewRow(n) \in Rows /\ NewRow(n) \notin roles /\ NewRow(n)[1] = n
    BY <1>1, RowType DEF NewRole, Names
  <2>2. /\ roles' = roles \cup {NewRow(n)} /\ n \notin Reserved
        /\ \A k \in roles : perms'[k] = perms[k]
        /\ namesake' = (namesake \/ n \in SpecialNames)
        /\ UNCHANGED <<admin, table, pc, view, alone, raced, started>>
    BY <1>1, <2>1 DEF NewRole, TypeOK
  <2>5. \A k \in admin : k \in roles' /\ perms'[k] = perms[k]
    BY <2>2 DEF AdminRows
  <2>3. Offered'
    BY <2>2 DEF Offered
  <2>4. \A k \in roles' \ roles : k[1] \in SpecialNames => ~Own(k[1])'
    BY <2>1, <2>2 DEF Own
  <2> QED BY <2>2, <2>3, <2>4, <2>5, StartsStay
<1>2. ASSUME NEW k \in roles, NEW next \in {"editrole", "deleterole"}, FindRole(c, k, next)
      PROVE  Starts'
  <2>1. /\ UNCHANGED <<roles, admin, perms, table, raced, started, namesake, alone>>
        /\ pc'[c] = next /\ \A d \in Clients \ {c} : pc'[d] = pc[d] /\ view'[d] = view[d]
        /\ k \notin admin
        /\ view'[c].row = k
    BY <1>2 DEF FindRole, data, history, TypeOK, NoView
  <2>2. Offered'
    BY <2>1 DEF Offered
  <2> QED BY <2>1, <2>2, StartsStay DEF Starting, AdminRows
<1>3. ASSUME (\E p \in Edits : UpdateRole(c, p)) \/ RemoveRole(c)
      PROVE  Starts'
  <2>1. /\ UNCHANGED <<admin, table, raced, started, namesake>> /\ End(c)
        /\ pc[c] \in {"editrole", "deleterole"}
        /\ \A k \in roles \ {view[c].row} : k \in roles' /\ perms'[k] = perms[k]
        /\ roles' \subseteq roles
    BY <1>3 DEF UpdateRole, RemoveRole, history, TypeOK
  <2>2. view[c].row \notin admin
    BY <2>1 DEF Offered
  <2>3. Offered'
    BY <2>1, EndStays DEF Offered
  <2>4. \A k \in admin : k \in roles' /\ perms'[k] = perms[k]
    BY <2>1, <2>2 DEF AdminRows
  <2> QED BY <2>1, <2>3, <2>4, EndStays, StartsStay DEF Starting
<1> QED BY <1>1, <1>2, <1>3 DEF RoleStep

LEMMA StartsOther ==
  ASSUME TypeOK, Starts, NEW c \in Clients, GrantStep(c) \/ Stop(c)
  PROVE  Starts'
<1>1. ASSUME NEW k \in roles, NEW u \in Users, NEW t \in Targets \cup {Global},
             Check(c, [id |-> 0, role |-> k, user |-> u, target |-> t])
      PROVE  Starts'
  <2>1. /\ UNCHANGED <<roles, admin, perms, table, view, raced, started, namesake>>
        /\ pc'[c] = "persist" /\ \A d \in Clients \ {c} : pc'[d] = pc[d]
        /\ \A d \in Clients : pc[d] # "persist" /\ d # c => alone'[d] = alone[d]
    BY <1>1 DEF Check, data, history, TypeOK
  <2>2. Offered'
    BY <2>1 DEF Offered, Starts
  <2> QED BY <2>1, <2>2, StartsStay DEF Starting, Starts, AdminRows
<1>2. ASSUME NEW g \in grants, NEW next \in {"editgrant", "deletegrant"}, FindGrant(c, g, next)
      PROVE  Starts'
  <2>1. /\ UNCHANGED <<roles, admin, perms, table, view, alone, raced, started, namesake>>
        /\ pc'[c] = next /\ \A d \in Clients \ {c} : pc'[d] = pc[d]
    BY <1>2 DEF FindGrant, data, history, TypeOK
  <2>2. Offered'
    BY <2>1 DEF Offered, Starts
  <2> QED BY <2>1, <2>2, StartsStay DEF Starting, Starts, AdminRows
<1>3. ASSUME NEW t, Persist(c) \/ UpdateGrant(c, t) \/ DeleteGrant(c) \/ Stop(c)
      PROVE  Starts'
  <2>1. UNCHANGED <<roles, admin, perms, table, raced, started, namesake>> /\ End(c)
    BY <1>3 DEF Persist, UpdateGrant, DeleteGrant, Stop, data, history
  <2>2. Offered'
    BY <2>1, EndStays DEF Offered, Starts
  <2> QED BY <2>1, <2>2, EndStays, StartsStay DEF Starting, Starts, AdminRows
<1> QED BY <1>1, <1>2, <1>3 DEF GrantStep

LEMMA StartsStep ==
  ASSUME TypeOK, Starts, [Next]_vars
  PROVE  Starts'
<1>1. CASE UNCHANGED vars
  <2>1. UNCHANGED <<roles, admin, perms, table, view, pc, alone, raced, started, namesake>>
    BY <1>1 DEF vars
  <2>2. Offered'
    BY <2>1 DEF Offered, Starts
  <2> QED BY <2>1, <2>2, StartsStay DEF Starts, AdminRows
<1> QED BY <1>1, StartsBegin, StartsSync, StartsRefused, StartsRead, StartsCommit,
           StartsRole, StartsOther DEF Next, StartStep

-----------------------------------------------------------------------------
LEMMA InitInv == Init => IInv
<1> SUFFICES ASSUME Init PROVE IInv
  OBVIOUS
<1>1. TypeOK
  BY InitType
<1>2. Starts
  <2>1. \A n : OneRow(n)
    BY DEF Init, OneRow, Named
  <2>2. AdminRows
    BY DEF Init, AdminRows
  <2> QED BY <2>1, <2>2 DEF Init, Starts, Unique, Synced, Viewed, LoneStart, Starting, Offered,
                      LoneThrow, StartedComplete
<1>3. Assignments
  BY DEF Init, Assignments, Wanted, Handles, Placed, UniqueIds, Remembered, LookedUp,
         LonePersist, OneGrantEach
<1> QED BY <1>1, <1>2, <1>3 DEF IInv

\* Every reachable state satisfies the inductive invariant: what starts have read
\* of the managed roles and what others committed since, and which assignments
\* appeared behind a lookup.
THEOREM Invariance == Spec => []IInv
<1>1. ASSUME IInv, [Next]_vars PROVE IInv'
  <2>1. Wanted
    BY <1>1 DEF IInv, Assignments
  <2> QED BY <1>1, <2>1, TypeStep, StartsStep, AssignStep DEF IInv
<1> QED BY InitInv, <1>1, PTL DEF Spec

\* Every variable of the roles' model keeps its type.
THEOREM TypeCorrect == Spec => []TypeOK
BY Invariance, PTL DEF IInv

\* Brokers that start one at a time make the reserved roles once each, and meet no
\* exception unless a role was given a special name (RoleDAOImpl).
THEOREM LoneStarts == Spec => []StartsSafely
<1>1. IInv => StartsSafely
  <2> SUFFICES ASSUME IInv PROVE StartsSafely
    OBVIOUS
  <2>1. {"IS Admin", "Data Owner"} \subseteq SpecialNames \cap Reserved
    BY DEF SpecialNames, Reserved
  <2>2. raced \/ \A n \in {"IS Admin", "Data Owner"} : OneRow(n)
    BY <2>1 DEF IInv, Starts, Unique, Own
  <2>3. raced \/ \A n \in {"IS Admin", "Data Owner"} : Cardinality(Named(roles, n)) <= 1
    BY <2>2, OneRowCount
  <2> QED BY <2>3 DEF IInv, Starts, LoneThrow, StartsSafely
<1> QED BY Invariance, <1>1, PTL

\* After a start, and for all time, the roles of type ADMIN have the permissions of
\* this release, also where starts overlapped and whichever special roles the
\* database had before; the reserved ones are there, and Vault Creator is unless
\* people gave its name to a role (ensureIsAdminExists and the others).
THEOREM StartsComplete == Spec => []StartedComplete
<1>1. IInv => StartedComplete
  BY DEF IInv, Starts
<1> QED BY Invariance, <1>1, PTL

\* A user has a role once in one place, unless it has no target and two requests
\* looked for it before either stored it (roleAssignmentExists, then store).
THEOREM SingleGrants == Spec => []OneGrantEach
<1>1. IInv => OneGrantEach
  BY DEF IInv, Assignments
<1> QED BY Invariance, <1>1, PTL
=============================================================================
