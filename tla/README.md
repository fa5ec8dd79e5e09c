# Verification of Datavault's common library: TLA+ models, checks and proofs

Datavault moves a research dataset from active storage into an archive: a worker packs
a deposit into chunks, encrypts each chunk and stores it in one or more archive stores,
and brings it back on a retrieve.  The repository holds `datavault-common` (storage
drivers, encryption, the persistent model and its data access objects, LDAP) and
`datavault-webapp`.  The broker and the worker, which call this code, are not in it:
here they appear as "somebody calls this operation, from several threads, and may call
it again after a failure or a restart".  The repository itself says that much:
`Context.noChunkThreads` (task/Context.java:24) has the chunks of a deposit handled by
several threads, and `Task.isRedeliver` (task/Task.java:38) and `restartArchiveIds`
(task/Task.java:36) have an interrupted task delivered again.

Paths below are relative to
`src/datavault-common/src/main/java/org/datavaultplatform/common/` unless they begin
with `webapp/`, for `src/datavault-webapp/src/main/java/org/datavaultplatform/webapp/`.

## 1. Inventory

| component | state it keeps | operations | what is hard | what makes it correct |
|---|---|---|---|---|
| Tivoli archive store, `storage/impl/TivoliStorageManager.java` | a temporary directory per deposit, shared by all calls of the JVM; two server nodes; static retry settings | `store`, `retrieve`, `delete` | two tracker threads per store, external `dsmc` processes with retries, chunk threads in one directory, trackers that outlive their call, `dsmc` processes that outlive the worker, crashes | a store that returns has its bytes on both nodes; a retrieve that returns has the node's bytes; no temporary file stays; every call ends |
| Oracle archive store, `storage/impl/OracleObjectStorageClassic.java` | one object per chunk in an archive tier; static retry settings | `store`, `retrieve` (restore, poll, download), `delete` | attempts around polls, requests that fail after they were carried out, integer division of the hour | what a returning call promises; the two hours a restore is given; a bound on the time of a call |
| File encryption, `crypto/Encryption.java` | the chunk's file and a temporary file next to it; the IV in the call | `encryptFile`, `decryptFile` | replacement in place without a transaction, block arithmetic of the read loop, failures at each step | the chunk is never lost; its IVs stay with the caller; no byte is dropped; what was encrypted can be decrypted |
| Keystore file, `crypto/Encryption.java` 430-453, 559-608 | one keystore file | save a key, get a key, the tool that makes keys for a list | load, change and rewrite without a lock; opening for writing empties the file | every key saved is there until it is saved again; a run that reports nothing has kept its keys |
| Persistence sessions, `model/dao/*Impl.java` (26 classes) | rows, versions of rows, sessions and the connections of a bounded pool | insert, update, saveOrUpdate, delete, queries and counts | each method opens and closes its session in its own way; lookups and writes in different sessions; concurrent writers | no confirmed edit of a versioned row is lost; a row is deleted once; connections come back |
| Roles and assignments, `RoleDAOImpl`, `RoleAssignmentDaoImpl`, `util/RoleUtils.java` | roles, assignments, permissions | create, assign, revoke, special roles at startup, who may assign what | check-then-insert in two transactions; unique constraints with NULL columns; two brokers that start together | special roles once, with this release's permissions; a role once per user and place |
| Local stores, `storage/impl/LocalFileSystem.java`, `MultiLocalFileSystem.java`, `io/FileCopy.java`, `io/Progress.java` | files under one or several roots; progress counters | `store`, `retrieve`, `delete`, `list`, space | several copies one after the other; sources that change while they are copied; transfers that move less than asked; counters read without synchronisation | all copies, whole, or an exception; progress counts what was copied; a call ends |
| SFTP file store, `storage/impl/SFTPFileSystem.java`, `storage/impl/ssh/Utility.java` | a session and a channel in fields | `list`, `store`, `retrieve`, … each between Connect and Disconnect | fields shared by overlapping calls, 25 attempts to connect | a tree is copied whole; nothing stays connected |
| S3 and Glacier, `storage/impl/S3Cloud.java`, `AmazonGlacier.java` | none of their own | one blocking vendor call per operation | in the vendor's library | – |
| LDAP lookups, `services/LDAPService.java` | one `connection` field for all requests | `search`, `autocompleteUID`, `getLdapUserInfo`, `getLDAPAttributes` | the field is replaced by a second request; it is closed on success only | a request uses its own connection, and closes it |
| Tasks, jobs, events, `task/`, `event/`, `model/Job.java`, `model/Deposit.java` | events with sequence numbers, states, chunk status | constructors, getters, the last event of a deposit | events that never got a number all have 0; a restart resumes from the last one | the last event is the latest one |
| Retention policies, `retentionpolicy/` | none | status from dates | arithmetic on dates | the status agrees with the policy's words |
| Web application, `webapp/` | HTTP sessions, the user's authentication | login, logout, session end; forwards to the broker by REST | in the broker | – |
| Manifests, metadata providers, requests and responses | none | one pass of I/O; data transfer objects | nothing concurrent or stateful | – |

**How they interact.**  A worker task calls an archive store once per chunk, from several
threads, after `encryptFile` on the chunk and before `decryptFile` on the way back; the
IVs and the archive ids are written to rows through the data access objects by the
broker.  The three meet in files and return values only: the encrypted file is the
`working` file of a store's call, the archive id and the IV are return values which
the caller must keep.  The stores and the encryption therefore have models of their own,
whose environment is any sequence of calls, and the data access objects a model whose
environment is any set of request threads.

`PROJECT.json` lists every component under "components" and, under "hazards", each
behaviour that is hard to test, at its line, with the properties that watch it or the
reason why none does yet.

## 2. Modules

| module | models | properties |
|---|---|---|
| `ReplicatedStore` | abstract: what a store with two copies promises its callers | – |
| `TivoliStore` | `TivoliStorageManager`, with `dsmc` and its servers as environment | `TypeOK`, `StoreReplicated`, `RetrieveFaithful`, `NothingLeftBehind`, `OnlyNode2Lingers`, `EveryCallEnds`, `KeepsPromise` (it implements `ReplicatedStore`) |
| `OracleStore` | `OracleObjectStorageClassic`, with the object storage as environment and time in minutes | `TypeOK`, `StoreKept`, `RetrieveWhole`, `TwoHours`, `TimeBound`, `EveryCallEnds` |
| `FileCrypto` | `encryptFile`, `decryptFile` and `doCrypto`, with the cipher as environment | `TypeOK`, `NothingLost`, `IVsKept`, `LengthsFit`, `NullOnlyAtShortTails` |
| `KeyStoreFile` | `saveSecretKeyToKeyStore`, `getSecretKeyFromKeyStore` and the tool that calls them | `KeyTypeOK`, `KeysKept`, `CheckTells` |
| `DaoOperations` | every method of the 26 data access objects, by what it does with its session, its transaction and the row | – |
| `RecordStore` | threads that run those operations, with the pool and the database as environment | `TypeOK`, `NoLostUpdate`, `DeletedOnce`, `OnlyLeaksBlock` |
| `RoleStore` | `RoleDAOImpl`, `PermissionDAOImpl`, `RoleAssignmentDaoImpl`: starting brokers and request threads over the tables of roles, permissions and assignments | `TypeOK`, `StartsSafely`, `StartedComplete`, `OneGrantEach` |
| `LdapService` | `LDAPService`, with the server and the LDAP library as environment | `TypeOK`, `ClosesAlone`, `UserInfoEnds` |
| `LocalStore` | `LocalFileSystem`, `MultiLocalFileSystem` and `FileCopy`, with the file system and the user as environment | `TypeOK`, `CopiesWhole`, `ProgressExact`, `EndsUnlessCutShort` |
| `SftpStore` | `SFTPFileSystem` and `ssh/Utility`, with the server as environment | `TypeOK`, `TreesWhole`, `Disconnected` |
| `MC…` | the instances for TLC: small sets, symmetry, the entities' operations | – |
| `…Proofs` | the theorems, checked by TLAPS | – |

Operators under a comment that begins with "Mutant:" are not part of any specification.
Each is a plausible bug: put in the place of the definition it stands before, it makes
TLC find the property that it is listed with in `PROJECT.json` violated.

### TivoliStore

One record per call slot: `pc` says where its thread is, `trk` where its two tracker
threads are and what the running `dsmc` read of the file.  Each check of the file
system (`Files.exists`) and each change (create, copy, move, delete) is a step of its
own, because other calls' steps come between them; `Files.copy` is two steps, with the
file `Torn` in between.  `TrackerFails` covers a `dsmc` whose error hides a copy that was
made, one that cannot be started and one whose messages cannot be read; `AttemptFails` is
the same for a retrieve, and leaves nothing, a part or all of the node's copy in the
temporary file (`FetchesSome`).  `Fails` is an I/O error at any step on the files.

A `dsmc` is a process of its own, started by a `ProcessBuilder`, and nothing in the code
ends one.  `Crash` therefore ends every call and tracker, keeps the files, and turns
every `dsmc` that was running into an `orphan`, which later writes its node or its
temporary file, or does not (`OrphanEnds`).  `Interrupt` ends a call where its thread
waits: for the futures (line 187), and then both trackers go on, or for `dsmc` (lines 123
and 267), and then that goes on as an orphan.  Calls ended in these two ways are `cut`.  A
slot is used again only when its trackers and orphans have ended (`Forget`); the store
itself has no such bookkeeping, which is why `Live` and not `pc` decides whether a call
can still do anything.

The promises are made to calls that met no other call on the same chunk; the history
variable `overlap` records which did.  Two chunks of a deposit may overlap at will: that
is the normal case.  A tracker left behind by a failed store, and a `dsmc` left behind by
a worker that stopped, count as calls in progress, so that the retry of that store is not
promised anything until they have ended: `OnlyNode2Lingers` says exactly which trackers can
be left behind by a store that was not cut short, and `KeepsPromise` what all of them may
still write.  In `ReplicatedStore` a call that ended may linger, after a `Throw` as after a
`Stop` of the process, and a lingering store may still `Put` what it was given, a delete
`Remove` the copy.

### OracleStore

One call at a time (the store keeps nothing between calls but the object) in a storage
whose every request may fail, before or after it took effect.  `clock` counts the
minutes the code sleeps and nothing else.  `Looks` is the limit of the polling loop as
the code computes it, by integer division; an interval of 0 makes it throw.  An
interrupted sleep is an exception like others inside an attempt (line 139) and ends the
call in the catch block (lines 151 and 176).  `TwoHours` says when a restore is given up
at any interval: at those that divide the hour not before two hours, at others before by
twice the remainder.  Negative intervals, which the configuration does not exclude, are
not modelled.

### FileCrypto

Sizes are in bytes.  The read loop is kept whole: what an `update` gives out, what the
cipher holds back until `doFinal`, and that an update without output gives `null`, which
`out.write` rejects.  Deleting the input, renaming the output and returning the IV are
steps of their own, and each may fail or be the last before a crash.

### DaoOperations and RecordStore

`DaoOperations` has a record per data access object, with a field per method; what it
keeps of a method is four facts (what it does to a row, how a delete finds its row,
whether there is a transaction, and when the session is closed).  `RecordStore` runs
them: `Call…`, `Connect` (the first statement takes a connection), `Find` or `Look` for
deletes that look their row up, then `Query`, `NoAccess` (the early return for a user who may
see nothing), `Commit`, `Refuse` or `Fault`.  `leaked` counts the connections of
sessions that nobody will close.

What is assumed of Hibernate 5.6.5 (pom.xml:70-71), which is not in the repository: a
session that is not closed keeps its connection; a commit that fails is rolled back, or
has taken effect already; the write of a row that is gone, or of a versioned row that
changed, is refused; a flush outside of a transaction throws, unless
`hibernate.allow_update_outside_transaction` is set, which nothing in the repository
does.  Five entities, `Group` among them, have an identifier that the program assigns
(`Assigned`: an `@Id` without a generator) and no version: their rows can be inserted
again, two inserts may meet, and a detached object whose row is gone counts as one that was
never saved, so that its delete finds nothing to do and returns (`NothingToDelete`).
`DeletedOnce` is about the others.  A caller whose write failed discards its object, as Hibernate demands.

### LocalStore

A path is a model value; `Parent` gives the tree and `disk` what each place (the user's
storage, the working directory, the locations) has of each file.  The recursion of
`doCopyDirectory` is the set `todo` of entries still to be copied, of the current directory
and of those above it: entries are taken in any order, as `listFiles` promises none, and a
directory is counted when it is left (`Leave`).  A file is opened, copied in parts and
compared in steps of their own, and between them the user changes, removes or makes
files.  `input` is what an open stream still reads of a file that was removed.  `Fail`
stands for every exception and for the end of the worker: what was written stays, and
the next call copies over it.  Contents are sequences of units and may have any length; the instances have short
ones.  A file that changes to another one of the same length while it is
copied passes the comparison, and the copy is a mixture of both: the promises are made
for sources that were left alone (`edited`), and only the end of the call for the others.

### KeyStoreFile

`Begin` starts a run of the tool with one of `Lists`; `Load`, `Open` and `Write` are one
`saveSecretKeyToKeyStore`, in the steps between which another run can come: the file is
read as a whole, emptied when it is opened for writing, and filled.  `mixed` records
that somebody else opened the file during a write, after which its content is no keystore
(`Torn`).  `Check` reads every key back and sets `error` where the tool prints its
complaint.  `Fail` is every exception and every stop; within a write it leaves the file
cut off.  An alias is the text of a JSON element, quotes included
(`aliases.get(i).toString()`, Encryption.java:588), and `EntryOf` says which entry of the
JCEKS keystore it names: there, aliases that differ in case only are one.

### RoleStore

A step is what one transaction reads or what it commits.  A broker that starts runs
`synchronisePermissions` (`SyncRead`, `SyncCommit`) and then `storeSpecialRoles`
(`StoreRead`, `StoreCommit`, or `StoreRefused` if a role whose permissions it wants to set
was removed meanwhile), over an empty database or one that an earlier release left, with
any of the sets of special roles in `Releases`, with too few permissions or with `Obsolete`
ones.  `admin` are the rows of type `ADMIN`: a start makes three special roles of that
type, and the roles that people may change and remove are those of the other types
(`findAllEditableRoles`), whatever their names.  A role that somebody called Vault Creator
before is taken over by a start with the type it has.  Reads see a snapshot, as in MySQL, which
`datavault.properties` names; the name of a role has no unique constraint
(`RoleModel`), so that `roles` has rows `<<name, copy>>`.  Request threads make (`NewRole`)
and remove roles and change their permissions; they look an assignment up (`Check`), insert it
(`Persist`), change its target and delete it.  What the callers, which are in the broker, do
is assumed to be the least that the repository suggests: they refuse the reserved names
only (`RoleUtils.isReservedRoleName`), ask `roleAssignmentExists` before `store`, assign IS Admin
without a target and every other role with one.  The unique constraints of
`RoleAssignment` do not bind rows without a target, because NULL differs from NULL: that
is `Allowed`.

`alone`, `raced`, `namesake` and `doubtful` are history variables for the premises of the
properties: whether two starts overlapped, whether somebody gave a role a special name,
and which assignments were looked up while another one of the same was on its way.

### LdapService

`connection` is the field, `mine` the connection a request made, `uses` the one it got
when it last read the field.  Each use of the field is a step of its own: `New`, `Bind`,
the time limits, the search, each `next` of the cursor, and `Close` (unbind and
close of whatever the field holds by then).  The server may drop a connection and may
become `silent` for good; a wait with a limit then ends with an exception, one
without ends never.  `NewFails` and `SearchFails` are the exceptions before a connection is
made and before a search is sent (in `getLdapUserInfo` also before its limit is set).  The library waits 30 seconds unless told otherwise, and
`setTimeOut(0)`, which `getLdapUserInfo` calls after its search, makes it wait for ever.

### SftpStore

`session` and `channelSftp` are the fields, by the call that set them; `chan` is the
channel each call made, with its current directory.  `Connect` is three steps, and the 25
attempts of it are one that succeeds or fails.  `store` makes its time-stamped directory
(`MakeFolder`, in the current directory of the channel in the field, which `CdBase` has
moved), then `Utility.send` walks the tree: `todo` holds what is still to be copied of the
current directory and of those above it.  `retrieve` is the same walk in the other
direction, from `pwd()` followed by its argument: as what `store` returns begins with
`rootPath` already, such a path leads back to what was stored only where `rootPath` is `/`
(`Found`, `RootIsSlash`).  The queries differ in nothing that changes state and are one
`Query`; `list` and `exists` swallow every exception (`Swallows`), the others throw.  A
stamp is a second of the clock: calls in the same second want the same directory.  A
channel handed to `Utility` (`using`) stays the same for the whole tree, whatever the field
holds meanwhile.

A path is a sequence of names (`Paths`), a tree a record of directories and files whose
paths are below the one item that `send` is given (`Root`), each with all its parents
(`SftpAssumption`): that is what a `File` can be.  The names are not looked into: the
stamps, the user's directory and the names in the trees are all there is on the server.

`TypeOK` does not say that the path of a call is on the server: of two stores on one
object that meet, one can make its directory where the other one's channel is, and then
returns a path that was never made.  `TreesWhole` is about calls that have not met.

## 3. Runs

All runs finish in minutes with two workers.

| run | instance | shows |
|---|---|---|
| `tivoli_same_chunk` | two calls of any kind on one chunk, two contents, one attempt each, failures, interrupts, crashes, orphans; retrieves and deletes of node 2; symmetric calls and contents | the safety properties of `TivoliStore`, and that each step implements `ReplicatedStore` |
| `tivoli_two_chunks` | two threads with a chunk each, stored and retrieved in one shared directory, with the same failures | a store and a retrieve of one chunk never take, lose or mix up the other's file |
| `tivoli_live` | one call, its trackers, two attempts, trackers that die, interrupts, crashes, orphans; fairness, no symmetry | every call ends, and every tracker and `dsmc` it left behind, even if a tracker dies |
| `oracle_calls` | any sequence of calls, three attempts, intervals 0, 20, 30, 45, 60, 70, restores of 0, 1, 60, 90, 91, 120, 121 and 1000 minutes | all properties of `OracleStore` |
| `crypto_in_place` | up to three encryptions and any decryptions, both modes, sizes 0 to 14 with a buffer of 6 and blocks and tags of 3 | all properties of `FileCrypto` |
| `crypto_unreadable` | one encryption | **violation**, the finding below |
| `key_store` | two runs of the tool again and again, three lists of aliases for two entries, six keys, failures and stops | no key is lost unless saves overlap; a run without a complaint kept its keys |
| `records` | two clients on one row of any of the 26 entities, pool of two, two edits, one fault or restart | all properties of `RecordStore` |
| `roles` | two clients that start brokers or handle roles, an empty database or an older one with all special roles or without Vault Creator, two rows for a name, two assignments | starts, and single assignments |
| `ldap_requests` | two requests of any kind, three connections, a server that falls silent or drops connections; fairness | what is closed, and which request ends |
| `local_copies` | two calls of any kind, two locations, an object that is a file and one that is a directory with a file and a directory with a file; contents of three units and of one, a buffer of two, one change by the user | all properties of `LocalStore` |
| `sftp_calls` | two calls of any kind on one or two objects, in one second or two, trees of two levels, failures at every command | trees are whole, and nothing stays connected |

**Why the bounds are enough.**
*Tivoli*: the interesting conflicts are between two calls (a store and its retry, a
store and a retrieve, two chunks in a directory), each of which has already two trackers;
a third call adds no new pair.  One attempt is the first and the last at once, so the
loop's exit is met at every step; two attempts, in `tivoli_live`, have the retry itself.
`OwnChunk` in `tivoli_two_chunks` is a state constraint that gives each thread one chunk:
calls that meet on a chunk are the other run's case, and so are deletes, which do not use
the directory.  `NodeTwo` in `tivoli_same_chunk` sends retrieves and deletes to node 2,
where the uploads of failed stores linger; those to node 1 meet fewer.  Symmetry is used
only in runs without liveness.
*Oracle*: three attempts are a first, a middle and a last one; 45 minutes do not divide the
hour and 70 exceed it; restore times lie on both sides of the two hours, of what is left of
them at 45 minutes, of 0, and past every attempt.
*FileCrypto*: two blocks to a buffer and one block of tag keep every relation between
tail, block, tag and buffer that the real 1024, 16 and 16 have (the buffer a multiple of
the block, the tag one block); the sizes go past two buffers.  `MaxIVs` bounds the
encryptions: three let a chunk be encrypted twice and once more after a crash.
*Records*: a lost update takes two clients and two edits, a hang for want of a connection two
clients and two connections.  Each behaviour picks one entity at the start, so that all 26 tables of
operations are run.
*Local*: `MaxCalls` of two let a call meet what another one left, whole or in part;
`MaxEdits` of one change shortens, lengthens, removes or makes a file; the tree has a
directory in a directory, with files at both levels; `Versions` has a content longer than
the buffer and one shorter.
*KeyStoreFile*: a lost key takes two savers; three keys for each of two runs let a list be
longer than the entries it names, and a second run follow a first.
*Roles*: the races are between two clients; of the five special roles all are there, of the
names that people choose one reserved and one not, which the earlier release may lack;
the permission that they give is not Vault Creator's, so that a start finds such a role out
of date; two rows make a lookup by name
ambiguous, two assignments are a double one.
*LDAP*: two requests and three connections let a request be followed by another one and
both meet a third connection in the field.
*SFTP*: each call is made once, in any of the objects and seconds: two on one object
share its fields, two in different objects share the server's directory only.

**Deadlock** is checked except in the crypto runs, where the caller stops when `MaxIVs`
is used up and it knows no IV, and in the records runs, where unclosed counts can use
the pool up and then all callers wait for good.  That is what the code does, and
`OnlyLeaksBlock` says that nothing else blocks a call.  `SftpStore` has an action
`Finished`, a stutter once both calls have ended, so that a call that is stuck is still
found.

**Fairness.**  Tivoli: weak fairness of each call's thread and of each tracker, that is,
threads are scheduled and `dsmc` exits (the code waits for it without a limit, so nothing
less would do; it reads what `dsmc` writes only after it has exited, lines 123 and 361, so
that a `dsmc` with more to say than a pipe holds would not).  Oracle: weak fairness of the call's steps, that is, a request is
answered or fails.  Records: weak fairness of a call that has its connection, strong
fairness of `Connect`: the pool serves its waiters in turn, so that a caller is not
overtaken for ever while connections come and go.  Local: weak fairness of the call's thread.
LDAP: weak fairness of each request's steps; what a silent server never sends is not such
a step.
No fairness is assumed of failures,
of crashes or of anybody making a call.

### Finding

`Encryption.java:212` (run `crypto_unreadable`): `Cipher.update` may return `null`; a chunk
whose encrypted size is 1 to 15 modulo the 1024-byte buffer can be encrypted but not
decrypted.

### Seen on the way

What the code does in these cases is in the models, and the properties are stated with the
premise that excludes them; none of them contradicts a comment or a test closely enough
to be a run of its own.

- `TivoliStorageManager.java:193`: a tracker thread that ends with a `java.lang.Error` is
  taken for one that made its copy; `store` returns an archive id for a chunk a node may
  not have.  `NoJvmErrors` names the assumption.
- `TivoliStorageManager.java:120` and `:355`: `dsmc` processes outlive a worker that stops and
  a thread that is interrupted.  A redelivered store or retrieve may meet such an orphan,
  which writes the old content to a node, or puts a temporary file back, behind the new
  call's return.  The code cannot find these processes; the promises hold once they ended.
- `OracleObjectStorageClassic.java:129` says "retry for two hours"; at an interval of 45
  minutes the loop gives up after 90, and above an hour after its first look (`TwoHours`
  states what is left).
- `OracleObjectStorageClassic.java:207`: a delete that failed for any reason is logged as
  "Object does not exists" and returns normally.
- `ArchiveStoreDAOImpl.java:80`: `deleteById` flushes outside of a transaction, which
  throws; nothing is deleted and the session stays open.  `FileStoreDAOImpl` and
  `DataManagerDAOImpl` do the same.
- Several methods never close their session (`DepositDAOImpl.java:63` and every `count`,
  among others), and those without a `finally` do not when they throw: `OnlyLeaksBlock`
  takes these leaks as given.
- `GroupDAOImpl.java:46`: a second delete of a group returns as if it had deleted it.  Two
  concurrent updates of an entity without a version both return, and the last one wins.
- `FileCopy.java:227`: a file that becomes shorter while it is copied keeps `doCopyFile` in
  its loop for ever, as `transferFrom` has nothing more to transfer.  `EndsUnlessCutShort`
  says that nothing else does.
- `RoleUtils.java:29`: only IS Admin and Data Owner are reserved.  A role that somebody
  calls Depositor, Nominated Data Manager or Vault Creator makes the lookup by name
  ambiguous, and every later start fails (`namesake`).  Two brokers that start together
  may both insert the special roles, with the same effect (`raced`).
- `RoleDAOImpl.java:102-130`: a role of an editable type that somebody called Vault Creator
  before the first start is taken for the special one; it stays editable and can be removed
  (`findAllEditableRoles`, lines 302-316).
- A global role can be assigned twice by two requests at once (`doubtful`), and then
  `roleAssignmentExists` throws for it (`uniqueResult`).
- `LDAPService.java:143`: `autocompleteUID` and `getLdapUserInfo` leave the connection open
  when they throw.  The time limit is set through the shared field: a second request may
  replace the connection between, and the first then waits without a limit.  Requests that
  overlap close each other's connections; no property is about them.
- `SFTPFileSystem.java:309`: `retrieve` puts `pwd()` before its argument, although a path that
  `store` returned (line 368) begins with it: it is found only if `rootPath` is `/`.
- `SFTPFileSystem.java:191` and `:217`: `list` and `exists` answer a failure with an empty list
  and with "no".  Operations that overlap on one object use and close each other's channel.
- `Encryption.java:432`: of two savers one loses its key, and a stop during a write loses all
  of them.  `getSecretKeyFromKeyStore` throws if it meets a write.  The tool saves a key
  under the alias with its JSON quotes (`Encryption.java:588`): the same name without
  quotes finds nothing.
- 48 attempts of an Oracle retrieve that poll for two hours each may last more than 100
  hours (`TimeBound` gives the bound), where the comment at
  `OracleObjectStorageClassic.java:40` says "24 hours if retry time is 30 minutes" of the 48
  waits alone.
- In CBC mode every `encryptFile` throws: `doCrypto` (`Encryption.java:365`) makes an IV of
  96 bytes in every mode, and CBC takes 16.
- A `retrieve` of a local store for an object that is not there returns without a word
  (`MultiLocalFileSystem.java:64`), as does a `store` whose working file is gone; and
  `delete` of an object that is a directory always throws unless it is empty
  (`MultiLocalFileSystem.java:154`).
- The counters of `Progress` are plain fields which another thread reads: what it sees may
  be old, but what the call has counted when it returns is exact (`ProgressExact`).

## 4. Proofs

TLAPS checks every theorem to its last leaf, for all values of the constants.

| module | theorems | from |
|---|---|---|
| `TivoliStoreProofs` | `TypeCorrect`, `Invariance`, `Replication`, `Fidelity`, `Cleanliness`, `Lingering`, `Refinement` | `AtLeastOneAttempt` (`tsmMaxRetries` is not 0: with 0 the loops do nothing and a store returns without a copy), `NoJvmErrors` (no tracker ends with a `java.lang.Error`, see section 3) |
| `OracleStoreProofs` | `Invariance`, `TypeCorrect`, `StoresKept`, `RetrievesWhole`, `CallsBounded`, `RestoresAwaited` | `AtLeastOneAttempt` |
| `EncryptionProofs`, of `FileCrypto` | `Invariance`, `TypeCorrect`, `Durability`, `IVsAreKept`, `NoByteDropped`, `ShortTails` | the module's assumptions; `ShortTails` also `BlocksFill` (the tag is a block, the buffer at least two whole blocks: the code's are 16 and 1024 bytes) |
| `EncryptionProofs`, of `KeyStoreFile` | `KeyInvariance`, `KeyTypeCorrect`, `KeysAreKept`, `Tells` | the module's assumptions |
| `LocalStoreProofs` | `Invariance`, `TypeCorrect`, `WholeCopies`, `ExactProgress` | `TreeAssumption` (a finite tree: every directory chain ends at an object) and `CopyAssumption` (the locations are different places, none of them the user's or the task's) |
| `RecordStoreProofs` | `TypeCorrect`, `Invariance`, `UpdatesKept`, `DeletesOnce`, `WaitsWithoutConnection`, `UpdatesClose` | the module's assumptions; the last also `UpdatesProtected` (every update of a versioned entity closes its session in a `finally`, as the tables of `DaoOperations` say) |
| `RoleStoreProofs` | `Invariance`, `TypeCorrect`, `LoneStarts`, `StartsComplete`, `SingleGrants` | the module's assumptions |
| `LdapServiceProofs` | `Invariance`, `TypeCorrect`, `Closes` | the module's assumption |
| `SftpStoreProofs` | `Invariance`, `TypeCorrect`, `WholeTrees`, `Disconnects` | `SftpAssumption` (trees are trees, what a retrieve wants is there, a directory is no file), for either value of `RootIsSlash` |

**Tivoli.**  `StoreReplicated` is not inductive: that a node holds the data when the
store returns depends on what the tracker read, which depends on nobody having touched
the temporary file since it was filled.  `IInv` says so step by step: `Flow` (which call
can be where), `Awaited` (what has ended once the thread is past a future), `Storing`,
`Retrieving` and `Removed` (what the file and the nodes hold for a call that is alone on
its chunk), and `Quiet` (if a call is alone, no other call on its chunk is live).  The
proof takes one call's step at a time and shows first that the state of the other calls
(`OtherCalls`) and of the other chunks (`OtherChunks`) is left alone: that is where the shared
directory could do harm and does not.  `Refinement` maps `pc` to the abstract status and
trackers that outlive their call to `lingering`.  Each action of the code is shown to be a
step of `ReplicatedStore` or a stutter: calls begin (`BeginMaps`), run (`CallStepMaps`, of
which only the last step shows outside), their trackers write copies and end
(`TrackerStepMaps`), and the slots are reused (`ForgetMaps`).  Interrupts
(`InterruptMaps`) and crashes (`CrashMaps`) are a `Throw` and a `Stop`, after which the calls
with a `dsmc` or a tracker linger.  That a call may only return with what the abstract one
promises is where `IInv` is used.

**FileCrypto.**  `Flow` says in which form each file is at each point, `Conserved` that
the bytes read are written or held back (`OutputBounds`: an update never gives out more
than it has), `IVsKeptInTemp` that what is to replace the file needs no IV that is not
accounted for.  `ShortTails` is about what the read loop holds back at the end of each
read (`EvenReads`): with whole blocks to a buffer it is the same after every full read, so
that only the last one can give no output.  The arithmetic with a symbolic modulus is in
three lemmas of its own (`Multiples`, `Remainder`, `WholeBlocks`).

**Oracle.**  `Spent` bounds the clock at each point by attempts and polls; the products are
handled in lemmas of their own (`Times`, `Attempts`).  `Watched` ties the number of polls
to the time the object becomes readable.

**Records.**  `CopiesBehind` is the heart: no object is ahead of its row, and one with
its row's version has all its edits, so that a write which the version lets through
loses nothing.  `RowsMoveOn` says that every commit moves a row on (its version grows or
it is deleted for good) and makes `Behind` survive other clients' writes.  `HeldByRunning`
and `PoolBound` are what remains of the pool's counts.

**KeyStoreFile.**  `OneSaver` (at most one run is between load and the end of its write
unless saves overlapped) and `Faithful` (what a run loaded is what the last saves left)
make a save add its key to all the others.  `Tells` has an invariant of its own: while a run
is alone nobody else has the file (`Lone`), and what it has read back without a complaint is
there (`Verified`).

**Roles.**  `Starts` relates what a starting broker has read to what others have committed
since (`Synced`, `Viewed`), so that a start alone meets no row it did not see, and `Unique`
says when a name has one row.  `Assignments` does the same for a lookup and the insert
behind it: `LookedUp` says that an assignment that appeared behind a lookup is remembered
(`Remembered`) as doubtful, which the constraint (`LonePersist`) refuses for rows with a
target.

**LDAP.**  `OwnField`: past `New`, a request that is alone finds its own connection in the
field, and once it has ended nobody's field has it.

**Local.**  `CopiesWhole` needs what the recursion of `doCopyDirectory` has done, and the code
keeps that on its stack.  `Rounds` says that there are two sets of directories, `A` those
on the stack and `V` those listed, such that the stack is a path in the tree (`Chain`) and
every entry of a listed directory is waiting, is at hand, is listed itself or is copied
(`Listed`).  When nothing is waiting, `V` is closed under entries and holds the object;
that the tree has no infinite chain then gives all of it (`Whole`).  The counters are the
sizes of what these sets say is done (`Counted`), on top of a whole object for every
location before: sizes are cardinalities of sets of units (`Bytes`), so that no sum over
a set is needed, and the proof is about disjoint unions.  Each action is shown to keep
`A` and `V`, or to move one directory from waiting to both (`Visit`), or to take it off the
stack (`Leave`).

**SFTP.**  `Links`: `Held` and `Channels` follow the two fields and the call that set them,
`Replaced` and `Met` say that a call whose channel was replaced has met another one.  This
part holds for any calls and gives `Disconnected`.  `TreesWhole` rests on the rest, `Copies`,
which holds as long as no two calls have met (`Quiet`): the channel of a call is in the
directory its next step takes for granted (`Where`), what a walk has to do is below the
directory it is in or beside one above it (`Walks`), a store's directory holds its tree
but for what is to come and nothing else (`Sent`), no two stores have the same directory,
even those of one second, because `mkdir` fails for the second one (`Apart`), and a
retrieve has every file but those to come, of a directory that no store writes to any more
(`Settled`, `Fetched`).  `Quiet` is a premise of the whole, not of one call: of two calls that
meet on one object, a store may write through the channel that a retrieve has moved into
the directory of a third call on another object.

**Only model-checked**: the liveness properties (`EveryCallEnds` of `TivoliStore` and of
`OracleStore`, `OnlyLeaksBlock`, `EndsUnlessCutShort`, `UserInfoEnds`), which need fairness
and are out of this prover's reach.  Every other property of a passing run is stated by a
theorem.

## 5. Not modelled

S3, Glacier: one vendor call per operation.  Dropbox: commented out in the source.
Manifests, metadata providers: one pass of I/O.  Requests and responses: data without
behaviour.  Tasks, jobs and events: data objects; the worker that runs the tasks and the
broker that takes their events are not in the repository, so no order of them can be read
from it.  Retention policies and `RoleUtils.getAssignableRoles`: functions of their
arguments, without state.  Web application: `RestServiceImpl` and the controllers forward
every call to the broker.  Its scripts are copies of third-party libraries (Fancytree in
three files and its minified forms, Bootstrap, bootstrap-select and its translations, jQuery
UI); no page of the application opens a Fancytree, so their behaviour is no part of this
system.  Of the modelled components: what the criteria of the queries select, the
deprecated stream variants of the encryption, the available-space queries of the stores,
and the static retry settings changing under a call in progress (a hazard in
`PROJECT.json`).

## 6. Plan

Done: `ReplicatedStore` and `TivoliStore` with the refinement proved; `FileCrypto`,
`KeyStoreFile`, `OracleStore`, `DaoOperations` and `RecordStore`, `RoleStore`, `LdapService`,
`LocalStore` and `SftpStore`, each with proofs of all its safety properties.

Left, in order of importance:

1. Safety lemmas towards the liveness properties, such as measures that every step of a
   call makes smaller (`TivoliStore`, `OracleStore`, `LocalStore`).
2. The last event of a deposit and the status of a retention policy, as functions against
   reference definitions.
3. Login, logout and session end of the web application in any order.
