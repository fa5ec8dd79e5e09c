----------------------------- MODULE RoleStore -----------------------------
(***************************************************************************)
(* The roles, their permissions and who was given them: RoleDAOImpl,       *)
(* PermissionDAOImpl and RoleAssignmentDaoImpl, called by brokers that     *)
(* start and by request threads.  Each method is one or two transactions;  *)
(* a step here is what a transaction reads, or what it commits, and what   *)
(* others commit comes between.  Names have no unique constraint, and the  *)
(* constraints on assignments do not bind those without a target, so that  *)
(* both depend on a lookup made before.                                    *)
(* A role's row is a pair <<name, copy>>: more than one copy should not be. *)
(***************************************************************************)
EXTENDS Naturals, FiniteSets

CONSTANTS
  Clients,           \* brokers that start, and their request threads
  Users,
  Targets, Global,   \* schools, vaults and pending vaults; no target
  Chosen,            \* the names that people want to give to roles
  Handled,           \* the names of the roles that they change and assign (a bound)
  Releases,          \* the special roles that earlier releases had: a set of sets
  Edits,             \* the permissions that people give to roles
  Copies,            \* rows of one name (a bound)
  Ids,               \* ids of assignments (a bound)
  Permissions,       \* the values of the enum Permission ...
  VaultPermissions,  \* ... of type VAULT
  Obsolete           \* permissions that an earlier release had

SpecialNames == {"IS Admin", "Data Owner", "Depositor",
                 "Nominated Data Manager", "Vault Creator"}

ASSUME RolesAssumption ==
  /\ Global \notin Targets
  /\ Handled \subseteq SpecialNames \cup Chosen
  /\ Releases \subseteq SUBSET SpecialNames
  /\ Edits \subseteq SUBSET Permissions
  /\ VaultPermissions \subseteq Permissions
  /\ Obsolete \cap Permissions = {}
  /\ 1 \in Copies

VARIABLES
  roles,       \* the rows of Roles
  admin,       \* those of type ADMIN; the others are of type SCHOOL or VAULT
  perms,       \* Role_permissions, by row
  table,       \* the rows of Permissions
  grants,      \* the rows of Role_assignments
  pc,
  view,        \* what a client's transaction read
  want,        \* the assignment a client handles
  alone,       \* history: no call of the kind has overlapped with this one
  raced,       \* history: two starts have overlapped
  namesake,    \* history: somebody gave a role a special name
  doubtful,    \* history: ids of assignments whose lookup and insert overlapped
               \* with another's of the same one
  started      \* history: some broker has started

vars == <<roles, admin, perms, table, grants, pc, view, want, alone, raced, namesake,
          doubtful, started>>
data == <<roles, admin, perms, table, grants>>
history == <<raced, namesake, doubtful, started>>

Names == SpecialNames \cup Chosen
Rows == Names \X Copies
Views == [roles: SUBSET Rows, perms: [Rows -> SUBSET (Permissions \cup Obsolete)],
          table: SUBSET (Permissions \cup Obsolete), row: Rows]
NoView == [roles |-> {}, perms |-> [k \in Rows |-> {}], table |-> {}, row |-> <<"IS Admin", 1>>]
Grants == [id: Ids, role: Rows, user: Users, target: Targets \cup {Global}]
NoGrant == [id |-> 0]

\* Mutant: one of the names is forgotten.
ReservedOne == {"Data Owner"}

\* RoleUtils.isReservedRoleName: the names nobody may give to a role.
Reserved == {"IS Admin", "Data Owner"}

\* The special roles that starts make with the type ADMIN, and whose permissions
\* every start sets right, whatever type the role of the name has.
Managed == {"IS Admin", "Data Owner", "Vault Creator"}

\* What a start gives a special role.
Given(n, all) ==
  {p \in all : n = "IS Admin" \/ (n \in Managed /\ p \in VaultPermissions)}

\* Mutant: the permissions of IS Admin only are looked at again.
OutdatedAdmin(k, v) == k[1] = "IS Admin" /\ v.perms[k] # Permissions

Outdated(k, v) ==
  /\ k[1] \in Managed
  /\ v.perms[k] # (IF k[1] = "IS Admin" THEN Permissions
                   ELSE v.table \cap VaultPermissions)

Named(S, n) == {k \in S : k[1] = n}

\* An id is free if no row has it and nobody remembers it.
Remembers(c, k) ==
  \/ pc[c] \in {"editrole", "deleterole"} /\ view[c].row = k
  \/ pc[c] \in {"persist", "editgrant", "deletegrant"} /\ want[c].role = k
  \/ pc[c] = "storing" /\ k \in view[c].roles
FreeCopies(n) ==
  {i \in Copies : <<n, i>> \notin roles /\ ~\E c \in Clients : Remembers(c, <<n, i>>)}
NewRow(n) == <<n, CHOOSE i \in FreeCopies(n) : TRUE>>
FreeIds == {i \in Ids : (\A g \in grants : g.id # i) /\ \A c \in Clients : want[c].id # i}

\* IS Admin is given for the whole system, the others in some place.
Scope(n) == IF n = "IS Admin" THEN {Global} ELSE Targets

SameGrant(g, h) == g.role = h.role /\ g.user = h.user /\ g.target = h.target

-----------------------------------------------------------------------------
\* An empty database, or one that an earlier release has filled.
Init ==
  /\ \/ roles = {} /\ table = {}
     \/ /\ \E S \in Releases : roles = S \X {1}
        /\ table \in SUBSET (Permissions \cup Obsolete)
  /\ admin = {k \in roles : k[1] \in Managed}
  /\ perms = [k \in Rows |-> IF k \in roles THEN Given(k[1], table) ELSE {}]
  /\ grants = {}
  /\ pc = [c \in Clients |-> "idle"]
  /\ view = [c \in Clients |-> NoView]
  /\ want = [c \in Clients |-> NoGrant]
  /\ alone = [c \in Clients |-> TRUE]
  /\ raced = FALSE
  /\ namesake = FALSE
  /\ doubtful = {}
  /\ started = FALSE

End(c) ==
  /\ pc' = [pc EXCEPT ![c] = "idle"]
  /\ view' = [view EXCEPT ![c] = NoView]
  /\ want' = [want EXCEPT ![c] = NoGrant]
  /\ alone' = [alone EXCEPT ![c] = TRUE]

(***************************************************************************)
(* A broker that starts: synchronisePermissions, then storeSpecialRoles.   *)
(***************************************************************************)
Starting(c) == pc[c] \in {"sync", "syncing", "store", "storing"}

Start(c) ==
  /\ pc[c] = "idle"
  /\ pc' = [pc EXCEPT ![c] = "sync"]
  /\ LET others == {d \in Clients \ {c} : Starting(d)}
     IN alone' = [d \in Clients |->
                    IF d = c THEN others = {} ELSE alone[d] /\ d \notin others]
  /\ UNCHANGED <<data, view, want, raced, namesake, doubtful, started>>

SyncRead(c) ==
  /\ pc[c] = "sync"
  /\ pc' = [pc EXCEPT ![c] = "syncing"]
  /\ view' = [view EXCEPT ![c].table = table \cap Permissions]
  /\ UNCHANGED <<data, want, alone, history>>

\* The obsolete permissions go, from the roles first, and those that were not
\* found are inserted: all of it, or nothing if another broker was faster.
SyncCommit(c) ==
  /\ pc[c] = "syncing"
  /\ table \cap (Permissions \ view[c].table) = {}
  /\ table' = Permissions
  /\ perms' = [k \in Rows |-> perms[k] \cap Permissions]
  /\ pc' = [pc EXCEPT ![c] = "store"]
  /\ UNCHANGED <<roles, admin, grants, view, want, alone, history>>

SyncRefused(c) ==
  /\ pc[c] = "syncing"
  /\ table \cap (Permissions \ view[c].table) # {}
  /\ pc' = [pc EXCEPT ![c] = "threw"]
  /\ UNCHANGED <<data, view, want, alone, history>>

\* Every lookup by name wants at most one row.
StoreRead(c) ==
  /\ pc[c] = "store"
  /\ view' = [view EXCEPT ![c] =
       [roles |-> roles, perms |-> perms, table |-> table, row |-> NoView.row]]
  /\ pc' = [pc EXCEPT ![c] =
       IF \A n \in SpecialNames : Cardinality(Named(roles, n)) <= 1
         THEN "storing" ELSE "threw"]
  /\ UNCHANGED <<data, want, alone, history>>

Missing(c) == {n \in SpecialNames : Named(view[c].roles, n) = {}}
OutdatedRows(c) == {k \in view[c].roles : Outdated(k, view[c])}

StoreCommit(c) ==
  /\ pc[c] = "storing"
  /\ OutdatedRows(c) \subseteq roles
  /\ \A n \in Missing(c) : FreeCopies(n) # {}
  /\ LET new == {NewRow(n) : n \in Missing(c)}
     IN /\ roles' = roles \cup new
        /\ admin' = admin \cup {k \in new : k[1] \in Managed}
        /\ perms' = [k \in Rows |-> IF k \in new \cup OutdatedRows(c)
                                      THEN Given(k[1], view[c].table) ELSE perms[k]]
  /\ raced' = (raced \/ ~alone[c])
  /\ started' = TRUE
  /\ End(c)
  /\ UNCHANGED <<table, grants, namesake, doubtful>>

\* The foreign key refuses permissions for a role that was removed meanwhile.
StoreRefused(c) ==
  /\ pc[c] = "storing"
  /\ ~(OutdatedRows(c) \subseteq roles)
  /\ pc' = [pc EXCEPT ![c] = "threw"]
  /\ UNCHANGED <<data, view, want, alone, history>>

(***************************************************************************)
(* Roles that people make, change and remove: those of the types SCHOOL    *)
(* and VAULT (findAllEditableRoles), under any name that is not reserved,  *)
(* and the special ones of these types.                                    *)
(***************************************************************************)
NewRole(c, n, p) ==
  /\ pc[c] = "idle"
  /\ n \in Chosen \ Reserved
  /\ p \subseteq table
  /\ FreeCopies(n) # {}
  /\ roles' = roles \cup {NewRow(n)}
  /\ perms' = [perms EXCEPT ![NewRow(n)] = p]
  /\ namesake' = (namesake \/ n \in SpecialNames)
  /\ UNCHANGED <<admin, table, grants, pc, view, want, alone, raced, doubtful, started>>

FindRole(c, k, next) ==
  /\ pc[c] = "idle"
  /\ k \in roles \ admin
  /\ k[1] \in Handled
  /\ pc' = [pc EXCEPT ![c] = next]
  /\ view' = [view EXCEPT ![c] = [NoView EXCEPT !.table = table, !.row = k]]
  /\ UNCHANGED <<data, want, alone, history>>

\* update writes the whole role back; the foreign keys refuse a permission or a
\* role that is gone.
UpdateRole(c, p) ==
  /\ pc[c] = "editrole"
  /\ p \subseteq view[c].table
  /\ perms' = IF view[c].row \in roles /\ p \subseteq table
                THEN [perms EXCEPT ![view[c].row] = p] ELSE perms
  /\ End(c)
  /\ UNCHANGED <<roles, admin, table, grants, history>>

\* delete: a role that somebody has cannot be deleted, one that is gone neither.
RemoveRole(c) ==
  /\ pc[c] = "deleterole"
  /\ LET k == view[c].row
         free == \A g \in grants : g.role # k
     IN /\ roles' = IF free THEN roles \ {k} ELSE roles
        /\ perms' = IF free THEN [perms EXCEPT ![k] = {}] ELSE perms
  /\ End(c)
  /\ UNCHANGED <<admin, table, grants, history>>

(***************************************************************************)
(* Assignments.                                                            *)
(***************************************************************************)
\* roleAssignmentExists: a target that is null is left out of the query, and
\* several rows are an exception.  Only a caller that was told FALSE goes on.
Matches(g) == {h \in grants : /\ h.role = g.role
                              /\ h.user = g.user
                              /\ g.target # Global => h.target = g.target}

Check(c, g) ==
  /\ pc[c] = "idle"
  /\ g.role \in roles
  /\ g.role[1] \in Handled
  /\ g.target \in Scope(g.role[1])
  /\ Matches(g) = {}
  /\ pc' = [pc EXCEPT ![c] = "persist"]
  /\ want' = [want EXCEPT ![c] = g]
  /\ LET others == {d \in Clients : pc[d] = "persist" /\ SameGrant(want[d], g)}
     IN alone' = [d \in Clients |->
                    IF d = c THEN others = {} ELSE alone[d] /\ d \notin others]
  /\ UNCHANGED <<data, view, history>>

\* Mutant: a table without the unique constraints.
AllowedTwice(g) == g.role \in roles

\* The unique constraints, which a null target satisfies, and the foreign key.
Allowed(g) ==
  /\ g.role \in roles
  /\ \A h \in grants : (h.id # g.id /\ SameGrant(g, h)) => g.target = Global

\* Mutant: the row is written with the id of the caller's object.
PersistUnnumbered(c) ==
  /\ pc[c] = "persist"
  /\ Allowed(want[c])
  /\ grants' = grants \cup {want[c]}
  /\ End(c)
  /\ UNCHANGED <<roles, admin, perms, table, history>>

Persist(c) ==
  /\ pc[c] = "persist"
  /\ FreeIds # {}
  /\ LET g == [want[c] EXCEPT !.id = CHOOSE i \in FreeIds : TRUE]
     IN /\ grants' = IF Allowed(g) THEN grants \cup {g} ELSE grants
        /\ doubtful' = IF Allowed(g) /\ ~alone[c] THEN doubtful \cup {g.id} ELSE doubtful
  /\ End(c)
  /\ UNCHANGED <<roles, admin, perms, table, raced, namesake, started>>

FindGrant(c, g, next) ==
  /\ pc[c] = "idle"
  /\ g \in grants
  /\ pc' = [pc EXCEPT ![c] = next]
  /\ want' = [want EXCEPT ![c] = g]
  /\ UNCHANGED <<data, view, alone, history>>

\* update: the row with the id becomes what the caller made of its copy (a
\* pending vault that was accepted, say), whatever the row was meanwhile.
UpdateGrant(c, t) ==
  /\ pc[c] = "editgrant"
  /\ t \in Scope(want[c].role[1])
  /\ LET g == [want[c] EXCEPT !.target = t]
         row == {h \in grants : h.id = g.id}
     IN grants' = IF row # {} /\ Allowed(g) THEN (grants \ row) \cup {g} ELSE grants
  /\ End(c)
  /\ UNCHANGED <<roles, admin, perms, table, history>>

DeleteGrant(c) ==
  /\ pc[c] = "deletegrant"
  /\ grants' = {h \in grants : h.id # want[c].id}
  /\ doubtful' = doubtful \ {want[c].id}
  /\ End(c)
  /\ UNCHANGED <<roles, admin, perms, table, raced, namesake, started>>

\* A start that threw is over, and any client may stop between two transactions.
Stop(c) ==
  /\ pc[c] # "idle"
  /\ End(c)
  /\ UNCHANGED <<data, history>>

StartStep(c) ==
  \/ Start(c) \/ SyncRead(c) \/ SyncCommit(c) \/ SyncRefused(c) \/ StoreRead(c) \/ StoreCommit(c)
  \/ StoreRefused(c)

RoleStep(c) ==
  \/ \E n \in Chosen, p \in Edits : NewRole(c, n, p)
  \/ \E k \in roles, next \in {"editrole", "deleterole"} : FindRole(c, k, next)
  \/ \E p \in Edits : UpdateRole(c, p)
  \/ RemoveRole(c)

GrantStep(c) ==
  \/ \E k \in roles, u \in Users, t \in Targets \cup {Global} :
       Check(c, [id |-> 0, role |-> k, user |-> u, target |-> t])
  \/ Persist(c)
  \/ \E g \in grants, next \in {"editgrant", "deletegrant"} : FindGrant(c, g, next)
  \/ \E t \in Targets \cup {Global} : UpdateGrant(c, t)
  \/ DeleteGrant(c)

Next == \E c \in Clients : StartStep(c) \/ RoleStep(c) \/ GrantStep(c) \/ Stop(c)

Spec == Init /\ [][Next]_vars

-----------------------------------------------------------------------------
PCs == {"idle", "sync", "syncing", "store", "storing", "threw", "editrole",
        "deleterole", "persist", "editgrant", "deletegrant"}

\* The type of every variable.
TypeOK ==
  /\ roles \subseteq Rows /\ admin \subseteq Rows
  /\ perms \in [Rows -> SUBSET (Permissions \cup Obsolete)]
  /\ table \subseteq Permissions \cup Obsolete
  /\ grants \subseteq Grants
  /\ pc \in [Clients -> PCs]
  /\ view \in [Clients -> Views]
  /\ want \in [Clients -> {NoGrant} \cup
       [id: Ids \cup {0}, role: Rows, user: Users, target: Targets \cup {Global}]]
  /\ alone \in [Clients -> BOOLEAN]
  /\ raced \in BOOLEAN /\ namesake \in BOOLEAN /\ started \in BOOLEAN
  /\ doubtful \subseteq Ids

\* Nobody gave this name to another role.
Own(n) == n \in Reserved \/ ~namesake

\* The reserved roles exist once each unless two brokers have started together,
\* and, as long as nobody called another role by a special name either, every
\* start of a single broker succeeds: no exception is left for it to meet.
StartsSafely ==
  /\ raced \/ \A n \in {"IS Admin", "Data Owner"} : Cardinality(Named(roles, n)) <= 1
  /\ raced \/ namesake \/ \A c \in Clients : pc[c] = "threw" => ~alone[c]

\* Once a broker has started, IS Admin and Data Owner exist, and so does Vault
\* Creator unless somebody gave that name, which is not reserved, to a role of an
\* editable type: the start adopts such a role, and people may remove it.  All
\* roles of type ADMIN have just the permissions this release gives them (IS Admin
\* all of them, the other two those of vaults), for all time and through starts
\* that overlap: no start puts back what an older table had, none leaves a role
\* half done, and nobody edits them (storeSpecialRoles, findAllEditableRoles).
StartedComplete ==
  started =>
    /\ \A n \in Managed : Own(n) => Named(admin, n) # {}
    /\ \A k \in admin : perms[k] = Given(k[1], Permissions)

\* A user has a role once in one place: an assignment is doubled only if it has
\* no target and two requests looked for it before either inserted it.
OneGrantEach ==
  \A g, h \in grants :
    (g # h /\ SameGrant(g, h)) => g.target = Global /\ {g.id, h.id} \subseteq doubtful

(***************************************************************************)
(* The inductive invariant behind the three of them.                       *)
(***************************************************************************)
OneRow(n) == \A k, l \in Named(roles, n) : k = l

Unique == raced \/ \A n \in SpecialNames : Own(n) => OneRow(n)

\* What a start has read, and what others have committed since.
Synced ==
  /\ (started \/ \E c \in Clients : pc[c] \in {"store", "storing"}) => table = Permissions
  /\ \A c \in Clients :
       /\ pc[c] = "syncing" /\ alone[c] => table \cap Permissions = view[c].table
       /\ pc[c] = "storing" => view[c].table = Permissions

Viewed ==
  \A c \in Clients : pc[c] = "storing" =>
    /\ \A k \in view[c].roles : k[1] \in Managed /\ Own(k[1]) => k \in roles
    /\ \A k \in admin :
         (k \in view[c].roles => ~Outdated(k, view[c])) => perms[k] = Given(k[1], Permissions)
    /\ alone[c] => \A n \in SpecialNames :
         (Own(n) /\ Named(view[c].roles, n) = {}) => Named(roles, n) = {}

\* A role of a managed name has another type only if people gave it the name.
AdminRows ==
  /\ \A k \in admin : k \in roles /\ k[1] \in Managed
  /\ \A k \in roles : k[1] \in Managed /\ Own(k[1]) => k \in admin

LoneStart == \A c, d \in Clients : (c # d /\ Starting(c) /\ Starting(d)) => ~alone[c]

\* The roles of type ADMIN are not offered for a change.
Offered == \A c \in Clients : pc[c] \in {"editrole", "deleterole"} => view[c].row \notin admin

LoneThrow ==
  raced \/ namesake \/ \A c \in Clients : pc[c] = "threw" => ~alone[c]

\* The assignments a client handles, and those it may meet.
Handles(c) == pc[c] \in {"persist", "editgrant", "deletegrant"}

Wanted ==
  \A c \in Clients : Handles(c) =>
    /\ want[c] \in [id: Ids \cup {0}, role: Rows, user: Users, target: Targets \cup {Global}]
    /\ want[c].target \in Scope(want[c].role[1])

Placed == \A g \in grants : g.target \in Scope(g.role[1])

UniqueIds == \A g, h \in grants : g.id = h.id => g = h

Remembered ==
  \A c \in Clients : pc[c] \in {"editgrant", "deletegrant"} =>
    /\ want[c].id \in Ids
    /\ \A g \in grants : g.id = want[c].id => g.role = want[c].role /\ g.user = want[c].user

\* An assignment that appeared after the lookup for it.
LookedUp ==
  \A c \in Clients : (pc[c] = "persist" /\ want[c].target = Global) =>
    \A h \in grants : SameGrant(want[c], h) => h.id \in doubtful /\ ~alone[c]

LonePersist ==
  \A c, d \in Clients :
    (c # d /\ pc[c] = "persist" /\ pc[d] = "persist" /\ SameGrant(want[c], want[d]))
      => ~alone[c]

Starts ==
  /\ Unique /\ Synced /\ Viewed /\ LoneStart /\ AdminRows /\ Offered /\ LoneThrow
  /\ StartedComplete
Assignments ==
  /\ Wanted /\ Placed /\ UniqueIds /\ Remembered /\ LookedUp /\ LonePersist
  /\ OneGrantEach

IInv == TypeOK /\ Starts /\ Assignments
=============================================================================
