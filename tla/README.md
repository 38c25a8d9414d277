# Verification of the warehouse service

TLA+ models of the NestJS warehouse service (`apps/main-service`), the TLC runs
that check them on small instances, and TLAPS proofs of what holds for every
instance. Paths below are relative to `apps/main-service/src`.

## 1. The system

One Node.js process answers HTTP requests over MongoDB. A handler is a chain of
awaited database calls. Each call is atomic on the documents it touches; between
two awaits the handlers of other requests run. There are no locks. One handler
uses a MongoDB transaction in the warehouse (`completeSession` of the inventory
sessions) and some in the user service. There are no automated tests of the
services, so nothing below is covered elsewhere.

### Inventory of components

| Component | State | Operations | What makes it correct | Modelled in |
|---|---|---|---|---|
| Device exports (`modules/device-exports`, tickets) | `device-exports` documents: status, requirements, items, `totalItems`, `totalQuantity`, approval | create, update, delete, addItems, submit, approve, reject, confirm, inventory status | status machine; approvals fit the stock; count = list; nothing sold without approval | `ExportStore`, `ExportTickets` |
| Export sessions | `export-sessions` documents: status, items, `serialChecked` | create, scan, bulk scan, remove, complete | a device has one holder; a closed session is fixed; a full ticket gets completed | `ExportSessions`, `ExportCustody`, `ExportFlow` |
| Device transfers (`modules/devices`) | warehouse and qc status of a device, histories | transfer, bulkTransfer | moves follow the active transition rules | `ExportStore` (without histories) |
| Devices | `devices` documents, unique `mac` | insertMany, findByMacs, move to SOLD, count ready; edit, delete, list | a mac exists once | `ExportStore`, `IntakeStore` (partly) |
| Device imports (`modules/device-imports`) | `device-imports` documents: status, lines, counts, inventory status | create, update, delete, updateProgress, complete | counts follow the sessions; only drafts change | `IntakeStore`, `IntakeFlow` |
| Inventory sessions | `inventory-sessions` documents: status, details, `totalScanned` | create, scan, set status, remove, complete | what a completed session lists is in stock, once | `IntakeStore`, `IntakeFlow` |
| Device validation (`devices/services/device-validation.service.ts`) | none | classify macs | what it accepts for export a scan accepts | `DeviceValidation` |
| Device statistics | none | aggregate | - | no |
| Warehouses, groups, transitions, categories, histories, shared data | one document each | CRUD | - | transitions are the constant `Moves` |
| Data import (`modules/data-import`) | previews in a map of the process | upload, preview, validate, execute | no device enters the stock twice, whoever writes it | `FileImport` |
| Authentication, tokens (`auth`, `tokens`) | refresh-token records | login, register, refresh, logout, change password, delete | an ended session is not brought back; passwords are kept as hashes (they are not) | `AuthTokens` |
| Users and Keycloak accounts (`users`, `common/services/user-keycloak-integration.service.ts`) | MongoDB users, Keycloak accounts | create, update, set and change password, assign and remove role, delete, each synchronised inside a transaction | unique email and code; one password on both sides | `UserAccounts` |
| Unused account code (`auth/services/keycloak-user.service.ts`, `users/value-objects`) | - | no route reaches it | - | no |
| Policy administration (`policy-admin`, `fnc-roles`) | roles, permissions, templates, versions; the policy and data files; OPA; Keycloak's client, roles and composites | edit the catalogue, scan routes, publish, synchronise | what OPA is given and clients are told is a saved version; one version per payload; no role gets a permission it never had | `PolicyCatalog`, `PolicyPublish`, `PolicySync` |
| Guards, files, health, seed, plugins | none, or external | request plumbing | - | no |

### How they interact

Scanning, transferring and completing share the `devices` collection. Sessions
write into their ticket (`$push` of items, `$inc` of the count), and tickets
count what other tickets reserve. The completion of an inventory session inserts
devices in a transaction and counts on its ticket outside of it. The data
import writes the same devices with one `bulkWrite` and no transaction. The
modules talk by direct service calls; there are no queues between them.

The user service writes a user in a MongoDB transaction and calls Keycloak
before the commit, so that a rollback leaves Keycloak as it was told. The
authentication service calls the user service and keeps one record per refresh
token. Policy administration reads the roles that the `fnc-roles` module also
writes, saves a version, puts the payload into OPA over HTTP and writes two
files that OPA watches and loads on its own.

### What is hard

* **Check, await, write.** Nearly every guard is evaluated on a document read
  earlier: scans, approvals, completions, transfers, progress.
* **Several writes, no transaction.** Completing an export session is four
  writes; a crash or a deletion in between leaves the rest undone.
* **Whole-list writes beside `$push`.** `addItems` and `removeItem` write back a
  list they read.
* **Two names for a device.** Export items store `serial`, the checks compare
  the scanned `mac`.
* **Two systems, one transaction.** Keycloak and OPA are told before the
  database commits or the files are written; a failure in between leaves them apart.
* **Reads spread over calls.** `publish`, the synchronisation of roles and the
  file import work on lists they read many calls ago.
* **State of the process.** Previews of uploaded files live in memory; a check
  under way puts back a preview an execution has deleted.
* **A status that many write.** update, create of a session, addItems, confirm
  and complete all set the status of a ticket.

`PROJECT.json` lists each of these hazards at its line with the properties that
would catch it.

## 2. Modules

| Module | Models | State |
|---|---|---|
| `ExportStore` | the collections, the requests in flight, transfers and what the export side calls of the device service | `exp`, `ses`, `dev`, `soldFor`, `pc`, `loc` |
| `ExportTickets` | `device-export.service.ts` | the same |
| `ExportSessions` | `export-session.service.ts` | the same |
| `ExportCustody` | abstract: a device is free, held by one session, or shipped | `holder`, `closed` |
| `ExportFlow` | composition, crash, fairness, properties, refinement mapping | the same as `ExportStore` |
| `MCExport` | constants for TLC | |
| `Lists` | `Keep`, the filter of a list as a function of the indices that stay | |
| `FiniteDataProofs` | lemmas about sums over finite sets, counts by kind and filtered lists | |
| `ExportFlowProofs` | proofs about `ExportFlow` in any interleaving | |
| `ExportSequentialProofs` | proofs about `ExportFlow` and `DeviceValidation` for one request at a time | |
| `IntakeStore` | import tickets, inventory sessions, devices, MongoDB and Mongoose write conflicts | `imp`, `ses`, `from`, `torn`, `pc`, `loc` |
| `IntakeFlow` | `device-import.service.ts`, `inventory-session.service.ts`, properties | the same |
| `MCIntake` | constants for TLC | |
| `IntakeProofs` | proofs about `IntakeFlow` in any interleaving | |
| `IntakeSequentialProofs` | proofs about `IntakeFlow` for one request at a time, crashes included | |
| `FileImport` | `data-import` beside the intake: previews, checks, and the rows of an execution one by one | those of the intake, `previews`, `job` |
| `MCFiles` | constants and the constraint `Bound` for TLC | |
| `FileProofs` | proofs about `FileImport`, on top of `IntakeProofs` | |
| `DeviceValidation` | `validateMacs` as an operator, compared with the judgement of a scan | that of `ExportStore` |
| `AccountStore` | users, token records, Keycloak accounts, transactions and unique indexes of MongoDB | `users`, `tokens`, `accounts`, `apart`, `now`, `begun`, `pc`, `loc` |
| `UserAccounts` | `user.service.ts`, `user.repository.ts`, `user-keycloak-integration.service.ts`, register | the same |
| `AuthTokens` | `auth.service.ts`, `token.service.ts` | the same |
| `AccountFlow` | composition, time, crash, properties | the same |
| `MCAccounts`, `AccountProofs` | constants for TLC; proofs | |
| `PolicyStore` | the catalogue, versions, the policy and data files, OPA, Keycloak's roles | `roles`, `permissions`, `templates`, `versions`, `rego`, `data`, `live`, `notified`, `keycloak`, the histories `taken`, `cut`, `answered`, `granted`, `pc`, `loc` |
| `PolicyCatalog` | roles (both services), permissions and templates, bulk upserts, the route scanner's list | the same |
| `PolicyPublish` | `publish` of `policy.service.ts` and `opa.service.ts`, OPA loading its files | the same |
| `PolicySync` | `sync.service.ts`, `keycloak-admin.service.ts` | the same |
| `PolicyRegister` | abstract: a register of payloads that only grows; OPA holds one it was given, clients are told of one it was given | `registered`, `given`, `held`, `announced` |
| `PolicyFlow` | composition, crash, restart of OPA, properties, refinement mapping | that of `PolicyStore` |
| `MCPolicy`, `PolicyProofs` | constants and the constraint `Bound` for TLC; proofs | |

### State and actions

A request `r` is a program counter `pc[r]`, the database call it performs next,
and `loc[r]`, its local variables: the snapshots it holds. One action is one
database call with everything the handler does up to the next one. An action
named `...Read` is the first call of a handler with the checks that follow it,
so a request that would be refused is not started; later checks may end the
handler (`Finish`). For example `completeSession` of the export side is
`CompleteRead`, `CompletePush`, `CompleteMove`, `CompleteClose`,
`CompleteTotal`, `CompleteWrite`.

Where two consecutive calls cannot be told apart by any other step they are one
action. `DeviceExportService.update` looks the ticket up before it writes, and a
ticket deleted in between makes both do nothing (`WriteTicket`). Lookups of
warehouses and transition rules read configuration, which is constant here.

What a client may send is drawn from small constant sets: `Plans` (requirement
lists), `Batches` (macs of one request), `Moves` (transition rules),
`ClientCounts` (values of `totalItems` in a body). `Features`
names the operations the clients of an instance use, so that a run may leave an
operation out to isolate others. The features are `confirm`, `patch`, `delete`,
`addItems`, `reject`, `remove`, `bulk`, `transfer`, `clientItems`, `crash` on the
export side and `update`, `delete`, `close`, `status`, `remove`, `crash`,
`clientProgress` on the intake side.

History variables: `soldFor` (tickets a device was moved to SOLD for),
`approved`, `wasCompleted` and `published` in the documents. `given` in a ticket
says that its items, or their number, are a client's: set by a body that changes
either, and cleared by the next write of the whole list. `from` in the
intake is the devices collection: the sessions, and with `FileImport` the
uploads, that inserted each mac.

`torn` in `IntakeStore` holds the requests whose write of their session will be
refused. A transaction fails on a session document written after its first
call; a `save()` of a replaced list fails when another `save()` has replaced the
list since it was read. `$push` and status updates do not raise the version, so
a scan beside a `removeItem` is lost without an error, as in Mongoose.

**Files.** A preview is `absent`, `uploaded`, `checked` or `gone`; `job[r]` is what
a request of the data import holds while it awaits a strategy. `validate` reads
the rows, awaits the database, and stores what was valid, which also puts a
deleted preview back. `execute` takes the rows last checked with the merge
strategy the client gives now. The `bulkWrite` is ordered: rows are inserted
one by one, the first that fails ends it, and the preview is deleted whatever
happened. An insert waits while an open transaction holds the same mac
(`Awaited`). A row is a mac, `Incomplete` (no model) or `NoMac` (a model and no mac),
which only the ticket strategy accepts; an insert of such a row is refused by Mongoose
with all others. The model has one read for a check of several rows. A request works
for the intake or for the data import, as a request of the process does.

**Accounts.** A write of a user is held in `loc[r].doc` until `Commit`; another
transaction that writes the same user or takes one of its keys fails at once.
`Mirror` is what Keycloak is sent, made of the user as read before the
transaction; `Together` and `Parted` say which account that reaches. The history
`apart` holds users whose synchronisation was cut short, or whose account that of
another user wrote. Keycloak's search by email also matches infixes: what it
finds is the constant `Matches`, exact in the run and arbitrary in the proofs.
Usernames are distinct, an account keeps its name. `assignRole` stores the code it
is given where login looks up an id, and `removeRole` passes `undefined`, which
Mongoose drops, so it changes nothing in MongoDB. `auth.register` and `POST
/users/register` both call `UserService.create`; `AuthModule` is commented out in
`app.module.ts`, and its services are modelled as they are written.

**Policies.** Two payloads are equal when the texts that are hashed are. The text
is `JSON.stringify` of objects filled in the order of three finds, and a
`Snapshot` keeps what that order and the values can tell apart. Of roles: the names
(`Labels`), the list of permissions, and which codes come before which: a code
is listed where its oldest role is, with what its newest has. A `Label` stands for
a name together with an order of the list. Of permissions: Mongoose gives the
resources of a permission new `_id`s at each write, and they are in the text; the
`edition` of a permission counts its writes and stands for them, so a permission
written again, or deleted and added again, gives another text in whatever order
it comes. Templates are never deleted, which fixes their order. `found` in a
version is a history: how many versions there were when its publish looked for
one. `taken` are the payloads OPA was given by a PUT. `rego` is
`none`, `foreign` (a file of another kind), `rules`, or `broken` (the generated
rules appended to a foreign file, which OPA cannot compile). Both file writes are
one step, as nothing is awaited between them; OPA's load of them is a later step,
`Reload`, which replaces what the PUT left in `data.app`. A lost answer is
modelled for the PUT, where it matters. Roles found by code are the oldest, the
roles published are the newest of each code. Items of a bulk request are upserted
one by one.

**Lists and sums.** `filter` on an array is `Keep(list, kept)`: the items at the
indices in `kept`, in their order. It is written by the ranks of the indices and
not with `SelectSeq`, whose definition is recursive and hides from a proof what it
returns; `MCExport` assumes, and TLC evaluates, that the two agree on all short
lists (`KeepSelects`). Totals over a requirement list and reservations over
tickets are `SumFunction` of the community modules.

Definitions whose comment begins with `Bug:` are not part of the model. Each is
a plausible mistake in the definition after it; replacing that definition by it
must violate a property, which shows that the property depends on the code.

## 3. Runs

| Run | Bounds | Shows |
|---|---|---|
| `ExportSequential` | 2 tickets, 2 sessions, 2 devices (a camera and a router), transfers, one request at a time | every operation of tickets, sessions and transfers keeps: `CheckedMatchesItems`, `AtMostOneHolder`, `ExportedOnce`, `StatusTransitionsAllowed`, `NoOverReservation`, `ClosedSessionIsFixed`, `MovesFollowRules`; the sessions implement `ExportCustody` (`KeepsCustody`); what `validateMacs` accepts for export is what a scan accepts (`ValidatedIsScannable`) |
| `ExportConcurrent` | 1 ticket, 1 session, 2 devices, 2 requests, crashes, all three write paths of a ticket | `TypeOK`, `ExportCountMatchesItems`, `ApprovedBeforeExport` in any interleaving, bodies with a `totalItems` included |
| `SessionsConcurrent` | 1 ticket, 2 sessions, 2 devices, 2 requests, deletion, crashes | `CompletedMeansFull`, `SoldIsListed` in any interleaving |
| `SessionsLiveness` | as above, no deletion and no crash, fair | `FullTicketIsCompleted`: a full ticket is completed by one of its sessions |
| `IntakeSequential` | 2 tickets (an empty device list, one line, or two), 2 sessions, 2 devices of 2 models, batches that repeat a device, one request at a time, crashes | `CountCoversStock`, `LinesAddUp`, `InventoryFollowsCount`, `CompletedIsStocked` |
| `IntakeConcurrent` | 1 ticket, 2 sessions, 2 devices, 2 requests, deletion, crashes; 1 uploaded file of two rows, checked and executed as often as clients like | `TypeOK`, `ScannedMatchesDetails`, `StockedFromPublished`, `StockedOnce` in any interleaving |
| `AccountsConcurrent` | 2 users, 2 emails, 1 password and its hash, 1 token record, 2 requests, failing calls, crashes | `TypeOK`, `KeysUnique`, `PasswordsAgree`, `EndedStaysEnded` in any interleaving |
| `PolicyConcurrent` | 2 roles, 2 codes, 2 names, 2 permissions, 1 template, 2 requests, failing calls, crashes, restarts of OPA | `TypeOK`, `OpaFollowsFile`, `RepeatsOnlyFromRaces`, `OnlyGranted` in any interleaving; publishing implements `PolicyRegister` (`Registered`) |

The remaining runs show that the code does not do what its own messages and guides
say; each is a finding in `PROJECT.json`.

| Run | Violates | How |
|---|---|---|
| `ScanRace` | `AtMostOneHolder` | two scans of a device into two sessions both look before either pushes |
| `ApproveRace` | `NoOverReservation` | two approvals of the same stock |
| `SoldFromElsewhere` | `SoldFromReady` | a device transferred away between its scan and the completion |
| `VersionRace` | `OneVersionPerHash` | two publishes of one payload; the index on the hash is not unique |

### Which properties hold in which setting

The properties of the `Sequential` runs are promises of the operations one
by one. They say nothing of races: when requests overlap most of them fail. The
concurrent runs therefore claim what survives any interleaving. With `addItems`
switched on, `SoldIsListed` fails as well: it writes back a list without what a
session pushed meanwhile, though `ExportCountMatchesItems` still holds because
list and count are written together. With `crash`, `ExportedOnce` fails: a
session completed up to the push is completed again. `InventoryFollowsCount` is
about tickets that have counted something: `complete` accepts a draft without
devices, and an update that then gives it devices does not reopen it.

`ValidatedIsScannable` is about devices whose serial is their mac, and says what
a scan would judge at the time of the validation; it does not say that the scan
still accepts a device that is transferred in between. `PasswordsAgree` excepts
the users in `apart`: a commit that fails after Keycloak was told, or an update of
an account that failed unnoticed, does leave two passwords.
`ExportCountMatchesItems` excepts tickets whose items or count a client gave,
until the next write of the whole list: `create` and `update` store a `totalItems` of
the body as it is.

`Registered` says that nothing reaches OPA or is announced that is not a saved
version, and that OPA never holds anything else. It does not say that OPA holds
what was announced last: with a broken policy, after a PUT whose files were not
written, or while another publish runs, it may hold something older or newer
(`OpaFollowsFile` lists when). Nor does anything exclude that of two publishes
the one that read first writes last: an older payload then is in the files.
`RepeatsOnlyFromRaces` excepts nothing but the race of lookup and save itself,
which `VersionRace` shows. A refresh that read its record
before a logout deleted it still answers with a pair of tokens; what
`EndedStaysEnded` excludes is that the record comes back.

### What the code does not promise

With two requests in flight, or in the setting named, TLC finds a trace to each of
these. They are modelled, and no passing run claims the contrary:

| What happens | Setting | Fails |
|---|---|---|
| a second submission takes an approved ticket back to `PENDING_APPROVAL` | two requests | `StatusTransitionsAllowed` |
| a draft created with items in its body is confirmed, sold and completed | `clientItems`, `confirm` | `StatusTransitionsAllowed`, `ApprovedBeforeExport` |
| a scan is pushed into a session completed since it was read | two requests | `ClosedSessionIsFixed` |
| two removals of one serial both decrement `serialChecked` | two requests | `CheckedMatchesItems` |
| a device whose serial is not its mac is scanned into one session again and again | a label in `SerialOf` | `ScannedOnce` |
| two completions of one session both push its items to the ticket | two requests | `ExportedOnce` |
| a transfer goes along no rule, as the device was moved since it was read | two requests | `MovesFollowRules` |
| of two sessions completed together the import ticket counts one | two requests | `CountCoversStock` |
| a scan of an inventory session is pushed beside its completion and not stocked | two requests | `CompletedIsStocked` |
| an import ticket published between the check and the write is edited or deleted | two requests | |
| Keycloak refuses a new password and the transaction commits it | a failing call | |
| `POST /users` and `setPassword` keep the password as given, where the guides say bcrypt (`docs/AUTH_README.md:205`); such a user cannot log in unless what was given is itself a hash | | |

### Bounds

Two of each actor is enough for the races here: every guard is about one
document, one other document, or one other request. `MaxItems` bounds the items
of a ticket (it stops a completion that would exceed it); in `SessionsLiveness`
it is 10, more than two sessions of two devices can reach even with double
completions, so it never disables a step the fairness relies on. `MaxDrift`
bounds how far `serialChecked` may drift before removals stop. `MaxScans` and
`MaxImported` bound the details of an inventory session and the progress of an
import ticket. `ClientCounts` is one number, wrong for most lists, in the
runs that have bodies with counts. In
`IntakeConcurrent` the constraint `Bound` keeps one session with one scan of a
published ticket once there is a file, and none beside a file with a row without
mac: a file is about the stock and races with each session alone; without a
file only the bounds above apply. Modes are `insert`,
`upsert` and `ticket`; `update` inserts nothing, and its fields are left out.
`MaxRequests` 4 in `AccountsConcurrent` lets two users be created and then two
requests race for them; `MaxTime` 1 with `RecordLife` 0 and `JwtLife` 2 lets the
record of a token expire before its signature does. `MaxRequests` 3 and `MaxChanges` 2 in
`PolicyConcurrent` allow two overlapping publishes or synchronisations with a
third before or after them and changes of roles in between, four in all
(`Bound`); with a policy file the rules cannot be merged into, three in all.
`PolicyStore` counts both (`begun`, `changed`). Ids of tickets and sessions are used once, so the instances stop
when all are used: deadlock is not checked. Symmetry is used where no constant
distinguishes the values, and in no run with a liveness property.

### Fairness

`FairSpec` asks weak fairness of `Step(r)`, the continuation of a request in
flight: the event loop resumes a handler whose database call has answered.
Clients owe nothing: no fairness on the start of a request. The other
specifications state no fairness: their properties are safety. In particular
nothing says that OPA loads its files, which it does on its own.

## 4. Proofs

All theorems are about the specification for every value of the constants that
the named assumptions admit: any number of tickets, sessions, devices, models
and requests. A hypothesis in the last column is a constant formula over
`Features`, `Requests`, `Moves` or `SerialOf`, defined and commented in the module
of the theorem.

### In any interleaving

| Theorem | Says | Assumes beyond the constants |
|---|---|---|
| `TypeCorrect` | `[]TypeOK` | nothing |
| `TypeInvariant` | `[]TypeInv`, the inductive form: a handler at a given call holds the ticket, session and items it needs | nothing |
| `CountIsExact` | `[]ExportCountMatchesItems` | nothing |
| `NothingWithoutApproval` | `[]ApprovedBeforeExport` | `"clientItems" \notin Features` |
| `SoldStaysListed` | `[]SoldIsListed` | neither `clientItems` nor `addItems` |
| `CompletedIsFull` | `[]CompletedMeansFull` | `OnlySessionsFill` |
| `ValidMacsScan` | `[]ValidatedIsScannable` | nothing |
| `IntakeProofs!TypeCorrect` | `[]TypeOK` of the intake | nothing |
| `IntakeProofs!TypeInvariant` | `[]TypeInv`, with the ticket and the existing session a call needs | nothing |
| `ScannedCorrect` | `[]ScannedMatchesDetails` | nothing |
| `StockedFromPublishedCorrect` | `[]StockedFromPublished` | nothing |
| `StockedOnceCorrect` | `[]StockedOnce` | nothing |
| `FileProofs!FileTypeCorrect`, `FileScannedCorrect`, `FileStockedFromPublished`, `FileStockedOnce` | `[]TypeOK`, `[]ScannedMatchesDetails`, `[]StockedFromPublished`, `[]StockedOnce` under `FileSpec` | nothing |
| `AccountProofs!TypeCorrect` | `[]TypeOK` of the accounts | nothing |
| `KeysStayUnique` | `[]KeysUnique` | nothing |
| `PasswordsStayTogether` | `[]PasswordsAgree` | nothing |
| `EndedSessionsStayEnded` | `EndedStaysEnded` | nothing |
| `PolicyProofs!TypeCorrect` | `[]TypeOK` of the policies | nothing |
| `OpaNotLeftBehind` | `[]OpaFollowsFile` | nothing |
| `PublishIsRegister` | `Spec => Registered`, the refinement of `PolicyRegister` | nothing |
| `OnlyRacesRepeat` | `[]RepeatsOnlyFromRaces` | nothing |
| `OnlyGrantedHeld` | `[]OnlyGranted` | nothing |

### One request at a time

| Theorem | Says | Assumes beyond `OneAtATime` |
|---|---|---|
| `ClosedSessionsStay` | `ClosedSessionIsFixed` | nothing |
| `TransfersFollowRules` | `MovesFollowRules` | nothing |
| `CheckedIsCount` | `[]CheckedMatchesItems` and `[]ScannedOnce` | `MacsAreSerials` |
| `OneHolder` | `[]AtMostOneHolder` | `MacsAreSerials` |
| `ListedOnce` | `[]ExportedOnce` | `MacsAreSerials`, `NothingReturns`, `NoDetours` |
| `CustodyKept` | `KeepsCustody`, the refinement of `ExportCustody` | the same, `SessionsAreIds` |
| `StatusesFollow` | `StatusTransitionsAllowed` | `NoReversals` |
| `ApprovalsAreCovered` | `NoOverReservation` | `NoPatch` |
| `CountCovers` | `[]CountCoversStock` | `NoClientProgress` |
| `LinesFollow` | `[]LinesAddUp` | `NoClientProgress` |
| `InventoryFollows` | `[]InventoryFollowsCount` | `NoClientProgress` |
| `CompletedAreStocked` | `[]CompletedIsStocked` | `NoClientProgress` |
| `OneVersionOfText` | `[]OneVersionPerHash` | nothing |

The hypotheses, and what happens without them:

* `OneAtATime`: at most one request is in flight. A process that serves one client
  meets it; two do not. `ScanRace`, `ApproveRace`, `VersionRace` and the races listed
  in section 3 are the counterexamples with two requests. Crashes are not excluded
  by it.
* `MacsAreSerials`: every device carries its mac as serial. A device
  with a label of its own is accepted again and again (section 3).
* `NothingReturns`: no transition rule leads out of `SOLD`. The commented seed
  contains one (`CUSTOMER_RETURN`); a device that came back may rightly be
  sold again, and `ExportedOnce` is no promise about it.
* `NoDetours`: no crash, no `addItems`, no items in a body. A session completed
  up to the push is completed again after a crash; `addItems` lists macs that no
  session holds.
* `NoReversals`: no crash, no update of the status in a body, no items in a body.
  A body may carry any status; after a crash a ticket may have a session and
  not be marked as started.
* `NoPatch`: no update of a ticket. An update is one call, so it may fall between two
  calls of `approve`, which then approves another plan than the one it compared
  with the stock.
* `OnlySessionsFill`: no `confirm`, no update, no `addItems`. `confirm` completes a
  ticket without looking at its total; the two others replace total or list.
* `SessionsAreIds`: no id of a session is `free` or `shipped`, which `ExportCustody`
  uses for the other two states of a device.
* `NoClientProgress`: no update of an import ticket carries progress, which would
  break every count.

The runs `ExportSequential`, `SessionsConcurrent` and `IntakeSequential` meet the
hypotheses of the theorems about their properties, so none of them is vacuous.

### The inductive invariants

**Types.** `TypeOK` is not inductive: a push needs `loc[r].exp` to be a ticket and
not `None`. `TypeInv` adds what each program counter implies for the locals, and
its proof has one step per action.

**Export, any interleaving.** The count of a ticket is inductive on top of it,
because every write sets or increments list and count in one call, except a
client's body, which sets `given` when it changes either. `ApprovalInv`
adds that each request that will create a session, push items or move devices
carries a ticket that was approved when it was read, and that the history of an
approval survives whatever happens to the document. `ListedInv` adds that a
request about to move devices for an existing ticket has its items on that
ticket already; nothing takes items off a ticket when `addItems` is not used.
`FullInv` says of a request about to mark a ticket as completed that the ticket
is full or deleted: a list only grows, so a ticket found full stays full however
many requests push meanwhile.

**Export, one request.** `ReadInv` says that what a request read of its session
is still so when it is used (`StoreAsRead`). `ScanInv` is about the whole of a
scan: the lists of sessions repeat nothing, sessions at work hold disjoint
lists, and a device a scan has checked is in none of them until the push
(`ScanAsRead`). `CustodyInv` continues it to the sale: what is sold is in the
warehouse `SOLD`, what a session at work holds is not, unless its completion is
about to close it, and what a ticket lists is sold or being moved. The refinement
maps a device to `free`, the session that holds it, or `shipped`; each write of a
session is shown to be a take, a give back or a shipment, and every other step a
stutter. `StatusInv` ties items and open sessions of a ticket to its status.
`ReservationInv` follows `approve` through its loop over the models: each model
checked so far is covered by the ready warehouse beside what is reserved, and
there are finitely many tickets.

**Intake, any interleaving.** `ScannedMatchesDetails` is inductive on the types.
`StockedFromPublished` needs three facts: the history `published` follows the
status and is never withdrawn, a session about to be inserted is of a published
ticket, and a session whose devices are in stock exists. `StockedOnce` needs
`OnceInv`: the devices a transaction has inserted (`Adding`) are in no stock and
in no other transaction.

**Intake, one request.** `ReadInv` says that a ticket with sessions is no draft any
more (`SessionTickets`), so that update and delete work on other tickets, and that
what a completion read of its session and ticket still holds at each call
(`AsRead`). `TicketMoves` classifies every step by what it does to a ticket:
made or emptied, given another status while a draft, closed, or counted for. The
properties of tickets then follow by cases. `CountCoversStock` needs `CoverInv` as
well: stock comes by sessions of tickets that have begun, is finite, and a
request about to commit has already counted the devices it will add, so a crash or
an abort in between leaves the count too high and never too low.
`CompletedIsStocked` rests on `OnceInv` and on `SessionMoves`: only a commit
completes a session, with the details the session has.

**Files.** `FileProofs` carries the invariants of the intake over: every step of
`FileSpec` is a step of the intake, leaves the intake alone, writes one row, or
stops the process. A row is inserted only where the mac is in no stock and no
transaction is inserting it, so `OnceInv` survives; that uploads and sessions are
different ids keeps `PublishedSessions`. What `IntakeProofs` shows of steps is cited, not proved again.

**Accounts.** `KeysUnique` needs what a transaction holds: the keys of an open
write are taken by no stored user and no other open write, because a later
writer fails at once. The code of a new user is one above the largest, so the
proof also shows that a finite set of codes has a maximum. `PasswordsAgree` adds
what an open transaction has told Keycloak: until its commit the account of a
user agrees with the document the transaction holds.

**Policies.** `Registered` needs `DraftsSaved` (a payload is put into OPA only
when a version holds it), and that what the files hold was given to OPA before.
`RepeatsOnlyFromRaces` needs what a publish about to save knows: among the first
`found` versions none has its text, and versions are only appended. `OnlyGranted` needs
`GrantInv`: what a request read of roles, permissions or payloads carries only
permissions that were granted, and grants are never withdrawn from the history.
`OneVersionPerHash` under `OneAtATime` needs that nothing is saved between a lookup
and its save, so that every version's publish had looked at all before it.

### Sums and lists without induction

The library's induction theorems take an operator as a parameter, which no
installed prover can instantiate. `FiniteDataProofs` argues by a smallest
counterexample instead: a non-empty collection of subsets of a finite set has a
member that includes no other (`SmallestSet`, by cardinality), so a statement about
a sum that fails for some set fails for a smallest one, and taking one member
out of it gives a smaller one for which it fails too. That a sum is a number, that
it may be taken apart at any member, that sums of sums and counts by kind add up,
and that `Keep` returns a list of exactly the items kept, are proved this way and
cited by the modules above.

### Only model-checked

Liveness: `FullTicketIsCompleted` under weak fairness. The violations of section 3
are counterexamples and stay with TLC. The action properties and invariants of
the passing runs are all stated by a theorem. The other way round `ScannedOnce` and
`OneVersionPerHash` under `OneAtATime` are only proved: no passing run lists them. `KeepSelects`, the agreement of `Keep`
with the recursive `SelectSeq`, is evaluated on lists of up to three devices and
used by no proof.

## 5. Not modelled

Codes, names, dates, notes, prices and messages; pagination, populating and
filtering; expected serials of an import line, which name a device and change no
state; the history collection; configuration lookups that fail (a missing
warehouse makes the handlers stop before they write). A requirement list has one
line per model. Quantities are natural numbers, positive in an export plan.
Progress in the body of an import update (`clientProgress`) is modelled and off
in the runs, because one such request breaks every count.

In the data import: which columns are mapped, the catalogue of models a ticket
file is checked against, the fields an update sets, previews that never expire.
The answer of a `bulkWrite` that failed reports no rows although those before the
failure stay; no property is about the answer.

In the accounts: roles mapped to a Keycloak account, which nothing here reads;
`POST` and `PUT /tokens`, by which a client writes token records itself;
`JwtStrategy.validate`; `token-manager.service.ts` and
`keycloak-user.service.ts`, which no handler of a route calls;
`UserService.register`; codes of users given by clients. The lookup of the role is
merged with the read of the user.

In the policies: descriptions of templates, simulation and debugging routes, which
change nothing; `applyPermissions`, which writes nothing; the interceptor that
authenticates again with Keycloak; descriptions of roles that exist there;
permissions with an empty list of resources, whose text has no `_id` to tell two
writes apart.

`validatePolicy`, `DeviceTransferService.moveToSoldWarehouse`, `bulkUpdateStatus`
and `DeviceStatsService.countReadyToExport` are called by nothing. The seed
service is commented out as a whole, and `generate.js` is a tool for making
projects. Configuration entities are one document each, written by one call.

## 6. Plan

1. Export side: tickets, sessions, transfers, custody. Done.
2. Intake: imports and inventory sessions. Done.
3. Accounts: refresh tokens, users and Keycloak. Done.
4. Policies: catalogue, publishing, synchronisation. Done.
5. Data import beside the intake; validation of macs. Done.
6. Devices: edit, delete and histories, with a crash between the save of a
   transfer and its history record.
7. Proofs: every safety property a passing run checks, the refinements of
   `ExportCustody` and `PolicyRegister` included. Done.
8. Proofs: which of the hypotheses of section 4 can be weakened, first
   `OneAtATime` to requests that work on different tickets and sessions.
