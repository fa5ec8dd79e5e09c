--------------------------- MODULE DaoOperations ---------------------------
(***************************************************************************)
(* What each method of the data access objects does with its Hibernate     *)
(* session.  Every method opens a session, runs one query or one           *)
(* transaction on one kind of entity and gives the session back - or not:  *)
(* how it does so differs from method to method, and that is all that is   *)
(* kept of them here.  RecordStore runs these operations.                  *)
(*                                                                         *)
(*   act      what the operation does to a row                             *)
(*   find     how a delete gets the object it deletes: it is "given", it   *)
(*            is looked up in the "same" session, or first in a session of *)
(*            its own that is closed on "success" only or in a "finally"   *)
(*   commits  whether the write is a committed transaction or a flush      *)
(*            outside of any                                               *)
(*   closes   when the session is closed: in a "finally", on "success",    *)
(*            on success but not on the early return for a user without    *)
(*            access ("access"), or "never"                                *)
(***************************************************************************)
Ops == [act : {"insert", "read", "count", "update", "saveOrUpdate", "delete"},
        find : {"given", "same", "success", "finally"},
        commits : BOOLEAN,
        closes : {"finally", "success", "access", "never"}]

Plain(act) == [act |-> act, find |-> "given", commits |-> TRUE, closes |-> "success"]

Insert == Plain("insert")
Update == Plain("update")
Read   == Plain("read")
Delete(find) == [Plain("delete") EXCEPT !.find = find]

(* The same operation, with another way to close its session. *)
Protected(op) == [op EXCEPT !.closes = "finally"]
Permitted(op) == [op EXCEPT !.closes = "access"]
Unclosed(op)  == [op EXCEPT !.closes = "never"]

Count      == Unclosed(Plain("count"))
FlushedDelete == [Delete("same") EXCEPT !.commits = FALSE]

-----------------------------------------------------------------------------
(* One record for each data access object: its methods and what they do.   *)

ArchiveDAO == [save |-> Insert, update |-> Update, list |-> Read, findById |-> Read]

ArchiveStoreDAO == [save |-> Insert, update |-> Update, list |-> Read, findById |-> Read,
                    findForRetrieval |-> Read, deleteById |-> FlushedDelete]

AuditChunkStatusDAO == [save |-> Insert, update |-> Update, list |-> Read, findById |-> Read,
                        findByAudit |-> Read, findByDeposit |-> Read, findByDepositChunk |-> Read,
                        findBy |-> Read, getLastChunkAuditTime |-> Read, count |-> Count]

AuditDAO == [save |-> Insert, update |-> Update, list |-> Read, findById |-> Read, count |-> Count]

BillingDAO == [save |-> Insert, update |-> Protected(Update),
               saveOrUpdateVault |-> Protected(Plain("saveOrUpdate")),
               list |-> Read, findById |-> Read, search |-> Read, count |-> Count,
               getTotalNumberOfVaults |-> Plain("count")]

ClientDAO == [save |-> Insert, update |-> Update, list |-> Read, findById |-> Read,
              findByApiKey |-> Read, count |-> Count]

DataCreatorDAO == [save |-> Insert, findById |-> Read, update |-> Protected(Update),
                   delete |-> Protected(Delete("success"))]

DataManagerDAO == [save |-> Insert, list |-> Read, findById |-> Read,
                   deleteById |-> FlushedDelete]

DatasetDAO == [save |-> Insert, update |-> Update, list |-> Read, findById |-> Read]

DepositChunkDAO == [save |-> Insert, update |-> Protected(Update), list |-> Read,
                    findById |-> Read]

DepositDAO == [save |-> Insert, update |-> Protected(Update), list |-> Permitted(Read),
               findById |-> Read, count |-> Count, queueCount |-> Count,
               inProgressCount |-> Count, inProgress |-> Read, completed |-> Read,
               search |-> Permitted(Read), size |-> Count,
               getDepositsWaitingForAudit |-> Read]

DepositReviewDAO == [save |-> Insert, update |-> Update, list |-> Read, findById |-> Read,
                     search |-> Read, count |-> Count]

EventDAO == [save |-> Insert, list |-> Read, findById |-> Read, findVaultEvents |-> Read,
             count |-> Count]

FileStoreDAO == [save |-> Insert, update |-> Update, list |-> Read, findById |-> Read,
                 deleteById |-> FlushedDelete]

GroupDAO == [save |-> Insert, update |-> Update, delete |-> Delete("given"), list |-> Read,
             listOfUser |-> Permitted(Read), findById |-> Read, count |-> Count]

JobDAO == [save |-> Insert, update |-> Protected(Update), list |-> Read, findById |-> Read,
           count |-> Count]

PendingDataCreatorDAO == [save |-> Insert, findById |-> Read, update |-> Protected(Update),
                          delete |-> Protected(Delete("success"))]

PendingVaultDAO == [save |-> Insert, findById |-> Read, update |-> Protected(Update),
                    listAll |-> Read, list |-> Permitted(Read), search |-> Permitted(Read),
                    getTotalNumberOfPendingVaults |-> Permitted(Plain("count")),
                    count |-> Count, deleteById |-> Delete("same")]

PermissionDAO == [find |-> Read, findAll |-> Read, findByType |-> Read]

RetentionPolicyDAO == [save |-> Insert, update |-> Update, list |-> Read, findById |-> Read,
                       delete |-> Delete("success")]

RetrieveDAO == [save |-> Insert, update |-> Update, list |-> Permitted(Read),
                findById |-> Read, count |-> Count, queueCount |-> Count,
                inProgressCount |-> Count, inProgress |-> Read]

RoleAssignmentDAO == [roleAssignmentExists |-> Protected(Plain("count")),
                      store |-> Protected(Insert), find |-> Protected(Read),
                      findUserPermissions |-> Protected(Plain("count")),
                      findAll |-> Protected(Read), findBySchoolId |-> Protected(Read),
                      findByVaultId |-> Protected(Read), findByPendingVaultId |-> Protected(Read),
                      findByUserId |-> Protected(Read), findByRoleId |-> Protected(Read),
                      hasPermission |-> Protected(Plain("count")),
                      isAdminUser |-> Protected(Plain("count")),
                      update |-> Protected(Update), delete |-> Protected(Delete("finally"))]

RoleDAO == [store |-> Insert, find |-> Read, getIsAdmin |-> Read, getDataOwner |-> Read,
            getDepositor |-> Read, getVaultCreator |-> Read, getNominatedDataManager |-> Read,
            findAll |-> Read, findAllEditableRoles |-> Read, update |-> Update,
            delete |-> Delete("success")]

UserDAO == [save |-> Insert, update |-> Update, list |-> Read, findById |-> Read,
            search |-> Read, count |-> Count]

VaultDAO == [save |-> Insert, update |-> Protected(Update),
             saveOrUpdateVault |-> Protected(Plain("saveOrUpdate")), listAll |-> Read,
             list |-> Permitted(Read), findById |-> Read, search |-> Permitted(Read),
             count |-> Count, getRetentionPolicyCount |-> Count,
             getTotalNumberOfVaults |-> Permitted(Plain("count")),
             getAllProjectsSize |-> Count]

VaultReviewDAO == [save |-> Insert, update |-> Update, list |-> Read, findById |-> Read,
                   search |-> Read, count |-> Count]

-----------------------------------------------------------------------------
(* The data access object of each entity. *)
DaoOf == [Archive |-> ArchiveDAO, ArchiveStore |-> ArchiveStoreDAO,
          AuditChunkStatus |-> AuditChunkStatusDAO, Audit |-> AuditDAO, BillingInfo |-> BillingDAO,
          Client |-> ClientDAO, DataCreator |-> DataCreatorDAO, DataManager |-> DataManagerDAO,
          Dataset |-> DatasetDAO, DepositChunk |-> DepositChunkDAO, Deposit |-> DepositDAO,
          DepositReview |-> DepositReviewDAO, Event |-> EventDAO, FileStore |-> FileStoreDAO,
          Group |-> GroupDAO, Job |-> JobDAO, PendingDataCreator |-> PendingDataCreatorDAO,
          PendingVault |-> PendingVaultDAO, PermissionModel |-> PermissionDAO,
          RetentionPolicy |-> RetentionPolicyDAO, Retrieve |-> RetrieveDAO,
          RoleAssignment |-> RoleAssignmentDAO, RoleModel |-> RoleDAO, User |-> UserDAO,
          Vault |-> VaultDAO, VaultReview |-> VaultReviewDAO]

(* The operations there are on an entity, however its methods are called. *)
OperationsOn(e) == {DaoOf[e][m] : m \in DOMAIN DaoOf[e]}

(* The entities whose rows carry a @Version. *)
VersionedEntities == {"Vault", "PendingVault", "Deposit", "Job", "BillingInfo",
                      "DataCreator", "PendingDataCreator"}

(* The entities whose @Id the program assigns: it has no generator. *)
AssignedEntities == {"Client", "Dataset", "Group", "PermissionModel", "User"}

=============================================================================
