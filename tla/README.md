# Verification of filemoica

filemoica lets people deposit files, encrypted on the server, and share them by
links that expire, may ask for a password and may be single-use. This directory
holds TLA+ models of its backend and of the state its web client keeps, the TLC
instances that check them, and proofs of their main properties. Paths below are
relative to `src/backend/src/` unless they say otherwise; actions bear the names
of the code where it has one.

    ShareLinks.tla       links, downloads, erasure, purge      MCShareLinks.tla      Burn, BurnStopped, Erase
    SingleUse.tla        what single-use links promise         (implemented by ShareLinks)
    Deposit.tla          deposit of files, monthly quota       MCDeposit.tla         Deposit, RegisterRollback
    Sessions.tla         refresh and access tokens             MCSessions.tla        Sessions
    Accounts.tla         confirmation links, second factor     MCAccounts.tla        Accounts
    KeyRotation.tla      master keys and their rotation        MCKeyRotation.tla     Rotation
    RateLimit.tla        the limiter of attempts               MCRateLimit.tla       RateLimit
    Administration.tla   roles, plans, demonstration accounts  MCAdministration.tla  Administration
    Browser.tla          cookies, tabs, the shared refresh     MCBrowser.tla         Browser
                         (composed with Sessions)
    OwnerPage.tla        the page of an account holder         MCOwnerPage.tla       OwnerPage
    *_proofs.tla         theorems about the module of that name; those about SingleUse
                         are in ShareLinks_proofs, those about Sessions in Browser_proofs

    tlc -workers 2 -config Burn.cfg MCShareLinks.tla      model-check an instance
    tlapm ShareLinks_proofs.tla                           check the proofs

## 1. Inventory

One Node.js process serves every request. It runs one piece of code at a time and
changes requests at each `await`: the database (PostgreSQL through Prisma), the
storage (a directory), the mail service (HTTP) and argon2 are all behind one. The
commands `purge-files`, `purge-tokens` and `rotate-keys` are processes of their own
on the same database and storage, and the web client is one more: the browser and
its tabs. The components meet only in the database, the storage and the messages
between client and service. Every race is between calls to the database or the
storage, or between answers, and most handlers are sequences of such calls without
a transaction.

**Share links and downloads** (`shares/`). State: `shares` (`revoked`,
`consumed_at`, `expires_at`, `burn_after_download`, password) and `share_files`
(`downloaded_at`). Operations: create, list, revoke, describe, authorize a
download, claim a file, release it, complete the link. A download calls the
storage and the cipher, and its completion calls the files service. Hard: several
downloads of one link at once; a transfer that breaks; a completion while others
are still receiving. Correct when each file of a single-use link goes to one
recipient at most, a link all of whose files have gone is consumed and its files
erased, and a failure costs no more than it must.

**Files** (`files/files.service.ts`). State: the `files` table and the bytes on the
support. Operations: register, list, remove, removeIfNoUsableShare. Hard: the row
and the bytes are two stores; two erasers on one file; links created while a file
is being judged. Correct when no row is without its bytes, bytes without a row are
on their way out, and a file a link needs is not erased.

**Retention** (`files/retention.service.ts`, `purge-files.ts`). Reads the files by
pages, judges each by its links, its date and the owner's plan, and hands the
inactive ones to the files service. Hard: it runs beside everything else, with the
clock it started with, and erases the rows its own cursor names.

**Deposits and quota** (`files/encrypted-upload.storage.ts`,
`mime-sniffer.stream.ts`, `quota.guard.ts`, `quota.service.ts`). State: a stream
under way (sample held back, bytes counted, what the guard saw left), and
`monthly_usage`. Hard: the volume is read before the body and written after it;
the verdict on the type comes when the first chunks are already there; each way of
failing must clean the support. Correct when a registered file is the whole body,
refused bytes are cleaned, and the month stays within the plan as far as the code
can promise.

**Sessions** (`auth/token.service.ts`, `auth/auth.controller.ts`,
`purge-tokens.ts`). State: `refresh_tokens` in families, `revoked_access_tokens`.
Operations: open, rotate, close, verify, purge, and the administrator's
revocation. Hard: rotation is read, issue, retire, in three calls, and meets
itself, logouts, replays and the purge. Correct when a token serves once, a family
cut off stays so, and an access token of a logout is refused for as long as it
would have been good.

**Accounts** (`auth/auth.service.ts`, `mfa.service.ts`,
`email-verification.service.ts`). State: the user's row, `email_verifications`,
`mfa_challenges`. Operations: register, resend, confirm, login, verify a code,
turn the second factor on and off. Hard: "close what is open, then create one" and
"read, check for a long time, write" without a condition. Correct when codes and
links are about as few, and accept about as many tries, as the documentation says,
and nobody is left without a link.

**Encryption and key rotation** (`crypto/`, `rotate-keys.ts`). Each file has a key
of its own, wrapped by a master key that the configuration names V1 or V2. State:
the keys each process loaded when it started, and the `encryption_version` of each
row. Operations: start, seal, open, `rotate` with its `rotateFiles` and
`rotateShares`. Hard: a label is not a key; processes of the old and of the new
configuration beside each other; a cursor whose row is deleted, rows written behind
it; a stop in the middle and a second execution. Correct when every row can be
opened at every moment, none goes back, and a rotation that is run again ends.

**Rate limiter** (`common/guards/rate-limit.guard.ts`). A window per route and
address in the memory of the process. Hard: the boundary of the window, the
cleanup in passing, a restart. Correct when what passes over any stretch of the life of
the process is bounded and Retry-After tells the truth.

**Administration** (`admin/`, `auth/roles.guard.ts`, `seed.ts`). Changes plans and
roles, revokes sessions. Hard: the guard, the check and the update are three calls,
and two administrators may act on each other. Correct when an administrator is
left and a withdrawn role no longer admits.

**Session of the web client** (`src/frontend/lib/api.ts`, `auth/cookie.service.ts`,
`auth/jwt-auth.guard.ts`). State: two cookies for all the tabs, one shared refresh
per tab. Operations: call, refused with 401, refresh, call again; login, logout.
Hard: several calls refused at once, two tabs, answers that are lost or cross.
Correct when a client that behaves never looks like a thief, no handler does its
work twice and no call waits for ever.

**Account holder's page** (`src/frontend/components/file-transfer-app.tsx`). State:
the list of files, the sendings, the links in three places, the row each button is
busy with. Operations: one handler per button, and one per answer. Hard: answers
arrive in any order, for a screen or a person that is no longer there. Correct when
the lists follow the newest answers, a revoked link is offered nowhere, and buttons
come back.

**Also**: storage (`storage/`), mail (`mail/`), configuration (`config/`), filters,
logging, health, database access, the recipient's page, the confirmation page and
the animation of the web client. Section 5 says what becomes of them.

`PROJECT.json` lists the components with their status, and under `hazards` each
place where this code is hard to test, with the properties that watch it.

## 2. The models and the code

A step is what runs between two awaits: one database or storage call with the code
around it. Each process or request has a `pc`. A request that is refused changes
nothing and is the absence of a step, unless what follows it matters. Where the
database's conditional update decides (`WHERE downloaded_at IS NULL`), the step
tests and sets at once; where the code reads and later writes, these are two steps.
A `Fault` ends a request where it stands: a call that rejects, or the process that
dies. What it had written stays. History variables are written and never read by
an action; each module names its own.

### ShareLinks and SingleUse

| code | model |
|---|---|
| `files`, `shares`, `share_files` | `rows`, `links` with `terms`, `revoked`, `consumed`, `entries`, `claimed` |
| bytes on the support | `content` |
| `shares.service.ts` create | `CreateCheck`, `CreateInsert` (a foreign key fails it whole) |
| revoke | `Revoke` |
| `download.controller.ts`, `authorizeDownload` | `Authorize`, `CheckContent` |
| `claimFile`, `releaseFile` | `Claim`, `Release` |
| the pipeline | `OpenRead`, `Transmit`, `Break` |
| `completeIfFullyDownloaded` | `CountUnclaimed`, `ListCovered`, `Consume`, then the erasure |
| `removeIfNoUsableShare` | `EraseCount`, `EraseFind`, `EraseDelete`, `EraseContent`, `EraseEnd` |
| `remove` | `RemoveRow`, `RemoveContent` |
| `retention.service.ts` | `PurgeStart`, `PurgeScan`, then the erasure |

A download that opened its file goes on reading it after it is unlinked, as a
POSIX file does. Deleting a file takes its `share_files` rows away (the cascade of
`prisma/schema.prisma`). What the library does with a cursor whose row has gone is
not in this repository: `Pages` allows either answer, an empty page or one file
skipped. Files are erased in any order. Passwords, names, sizes and counters of
display are left out.

**SingleUse** is the abstract specification: a grid of slots, one for each file of
each single-use link, `none`, `free`, `held`, `sent`, `lost` or `gone`. A slot is
reserved by one request, delivered once for good, given back or lost. The mapping
(`SlotState`) reads `held` from the requests and the rest from the tables.

### Deposit

Several deposits of one account; accounts share nothing. Sizes are in chunks of the
stream. `Guard` is `quota.guard.ts`; `Open` to `End` are `encrypt` with the sniffer
(`Hold`, `Flush`, `Verify`), the counter (`Pass`) and the truncation by multer;
`Create`, `Record` are `register`; `Discard` is each `storage.remove` of a refused
deposit; `Break` is a client that leaves, `Reject` the database, `KeepGarbage` the
support, `Crash` the process. The sniffer's verdict is a choice. Encryption and the
digest of the bytes are left out.

### Sessions

One account: families share nothing across accounts. A request issues at most one
pair of tokens and lends it its name. `ReadToken`, `Issue`, `Retire` and `Breach`
are `rotate`; `LogoutRead` to `LogoutDeny` are the controller's logout with
`closeSession`; `RevokeSessions` is the administrator's, `PurgeRefreshTokens` and
`PurgeDenied` are the two deletes of `purgeExpired`, which run side by side.
`Accepts` is `verifyAccessToken`. Clients present any token they were ever given.
`forked` remembers the families of which two refreshes read one token at once,
`crossed` the refreshes that had read their token and not inserted the next one when
their family was cut off, by a logout, a replay or the administrator (`CutOff`).

### Accounts

One account, confirmed or not registered yet at the start. `RegisterCheck`,
`RegisterInsert`, `ResendRead` lead to `envoyerLien` (`CloseLinks`, `CreateLink`,
`MailLink`); `ReadLink`, `Confirm` are `confirmer`; `LoginRead` leads to a session
(`OpenSession`) or to `emettre` (`CloseCodes`, `CreateCode`, `MailCode`); `ReadCode`,
`CountTry`, `Abandon`, `UseCode`, `OpenSession` are `verifier` and what follows it.
A mail whose answer came too late may have gone. The tokens of an opened session
are module Sessions. `peak`, `linkPeak` and `codePeak` measure the overlaps the
bounds are stated in.

### KeyRotation

`config` is the two variables of the environment, `keys` what each process loaded
from them, `sealed[r]` the label and the key of a row. A value opens when the
process has, under its label, the key that sealed it: this is what the
authentication tag decides. `Start` passes the validation (`Contract`) and builds
the map of keys (`Load`); `Seal` and `Opens` are those of `crypto.service.ts`;
`Insert` and `Delete` are the service at work. `Begin`, `Read`, `Rewrap` are
`rotate-keys`: a page of files ahead of the cursor, one row after the other, then
the shares; a value that does not open and a row that has gone both throw and end
the execution. `Begin` may be a simulation (`--dry-run`), which counts and writes
nothing. The master key only wraps: files, contents and data keys keep their bytes
and are one sealed value a row. The operator may mistype V2 and correct it (`AddV2`),
and gives the old key up on the word of the command, in either documented way:
`RemoveV1` takes V1 out on a report of zero (`rotate-keys.ts:17`, `57-60`,
`crypto/key-rotation.service.ts:45-49`), after which no process starts, for the
contract asks for V1 (`config/env.validation.ts:177-185`), while those that run go
on; `PromoteV2` has V2 become V1 and disappear (step 4, line 334, of
`src/docs/configuration-deploiement.md`). `blind` remembers that this was done on
the word of an execution during which a file was deleted. One change of key is
modelled, not a second one after it.

### RateLimit

`Attempt` is `canActivate`, which has no await and is one step: cleanup if due
(`Swept`), a new window or one more in the open one, passed or refused. `Restart`
empties the map. Keys are a route and an address; what makes an address is taken as
given. `told` is the date in the first Retry-After of a refusal; `passed[k][t]` counts
the attempts let through before `t`, so that a stretch of time is a difference.

### Administration

`Admit` is `RolesGuard`, which reads the role in the database at each call;
`Require` is `requireUser` with the refusal to lower oneself; `Update` is the
update, without a condition. `Demo` writes one account of `seed.ts`. `overtaken`
and `crossed` remember requests whose actor was lowered between the guard and the
update.

### Browser

The composition of Sessions, whose actions are taken as they are, with what calls
them. `jar` is the two cookies, attached when a request leaves and set when an
answer arrives. `Send`, `Serve` are a call and the guard that admits it; `Refused`
is `request()` on a 401, once: join the refresh of the tab or start one
(`tryRefresh`, `flight`); `Arrive` hands a request to Sessions with the cookies it
carries; `Deliver` sets the cookies (`Cookie`) and wakes the calls that waited
(`Resume`). `Lose` and `LoseCall` are the network, before or after the service.
Requests to `/api/auth` are numbered so that which of them leaves next is fixed. A
call has a kind: most need a session and do their work; a change of the second
factor with a wrong password and a verification with a wrong code are answered with
401 by their handlers, which `request()` cannot tell from an expired session.

### OwnerPage

The service is reduced to what the page can tell: whose file, which links and in
what status. `Press` is a button (`Login`, `UploadOne`, `DeleteFile`,
`CreateLinkForFile`, `CreateShareLink`, `RevokeShare`, `GoTo`, `Logout`, `Reload`);
`Serve` the service's answer as of that moment; `Deliver` the handler that applies
it (`SetFiles`, `SetShares`, `Uploaded`, `Deleted`, `Linked`, `Relinked`, `Revoked`,
`Failed`, `Enter`, `Leave`), whenever it arrives. `known` and `late` remember the
newest thing that answers said of each file and link, and those about which an
older answer came after it; `drafted` the files of each link made from the sending
screen. Identifiers are distinct (UUIDs in the code), and links and calls under way
finitely many: a link is asked for only while one is left for every call.

## 3. What is checked

Every run has `CHECK_DEADLOCK FALSE`: the requests, presses or dates of an instance
are finitely many and end, so the system stops when they have.

| run | instance | states | shows |
|---|---|---|---|
| `burn` | 1 link, 2 files, 2 downloads, a removal, 1 failure, fair | 162,734 | `SingleTransmission`, `RowsHaveContent`, `OrphansArePending`; the requests implement `SingleUseSpec`; `TransmittedLinkConsumed`, `BurnedFilesErased` |
| `erase` | 2 links, 2 files, a download, a purge by pages of one, 3 dates | 995,483 | `EraseSparesKnownLinks`, `PurgeSparesRecentFiles` |
| `deposit` | 2 deposits, bodies below, at and above the limits, 2 plans, 2 months, 1 failure, fair | 358,766 | `RegisteredWhole`, `OrphansAreUnderWay`, `AloneWithinQuota`, `OrphansCleaned` |
| `sessions` | 4 requests, refresh tokens twice as long as access tokens, 4 dates, 1 failure | 350,744 | `LoggedOutAccessRefused`, `OneLiveToken`, `ExtinctForGood`, `SurvivorsCrossed` |
| `accounts` | 5 requests, 2 tries, 2 dates, 1 failure | 174,669 | `TriesBounded`, `SessionsBounded`, `OpenCodesBounded`, `OpenLinksBounded`, `NotLockedOut` |
| `rotation` | 2 files and 1 link of which one file is deposited meanwhile, 2 keys, 1 service, 2 executions at once, 1 stop, V1 taken out or V2 become V1, fair | 1,032,614 | `KeysSuffice`, `ServiceReads`, `NothingLeft`, `NoWayBack`, `Resumes` |
| `rate_limit` | 2 routes (2 attempts in 3 units, 1 in 2), a cleanup every 2, 7 dates | 59,836 | `SlidingBound`, `RetryAfterHolds` |
| `administration` | 3 accounts, 2 administrators, 3 requests, a demonstration script | 1,947,929 | `LastAdminStays`, `WithdrawalHolds` |
| `browser` | 2 calls in two tabs, or in one and the second with a wrong password or code; a login, 2 refreshes, a logout, 2 dates, 1 loss, fair | 785,576 | `BrowserTypeOK`, `NoFalseAlarm`, `RunsOnce`, `LogoutEmptiesJar`, `CallsSettle` |
| `owner_page` | 2 people, 2 files, 2 links, 2 calls at once, 6 presses, 1 loss | 2,902,501 | `TypeOK`, `ListFollows`, `RevokedEverywhere`, `OneDraftPerFile`, `ButtonsReturn` |

The types of every module are proved (section 4); the runs check again only those of
Browser and OwnerPage. Each property is also known to fail for some plausible mistake in
the code (the definitions marked "Mutant"; `mutants` in `PROJECT.json`).

**Why the bounds are enough.** A claim needs a holder and one who waits for it or
comes after; completeness of a link needs two files, of which one is in another
state than the other. The purge needs two files and pages of one for its cursor to
matter, and two links for one to be usable when another is not; dates 0 to 2 put a
file before, at and after its retention. A deposit is interesting below, at and
above the sample (2), the quotas (2 and 3) and the maximal size (3). Four requests
make a login, two refreshes and a logout or a replay; five make a login and two
verifications of its code with a login or a change of link between them. A rotation
needs two pages of one table, the passage to the other, a row written behind the
cursor and a second execution in the middle; one change of key, for the documented
steps end where a second one would begin. Windows of 3 and 2 with a cleanup
every 2 put the cleanup at, before and after their ends, and 7 dates hold two
windows. Two administrators can lower each other, and the third request lowers or
promotes in between. Two calls share a refresh in one tab and not in two. Two people
follow each other at the page, and six presses sign in, send two files, link them
and revoke, or leave in the middle; two calls are what it takes to cross. One
failure at a time is what the code claims to stand. Where a theorem is proved
(below) the bounds no longer matter.

**Fairness.** Weak fairness, on what runs once started: a download's next step and
an eraser's (`burn`), the next step of a deposit or the break of its connection
(`deposit`), the next step of an execution of the rotation and the start of a
service that is down or has an older configuration (`rotation`), the service's
answer to what it received and the browser's handling of it (`browser`: some of
what there is to do is done). The event
loop resumes a request whose call has answered, and a call that never answers ends
in a timeout, which is a fault, a break or a loss. One strong fairness, in
`rotation`: some operator runs the command again, for real, until a report shows
nothing left, which is what `rotate-keys.ts` and the documentation ask of them.
Otherwise nobody is bound to ask for anything, the clock may stand still, faults
need not come, and transfers may break instead of ending.

### Where the code and what is said of it differ

Two runs check a sentence of the documentation or of a comment and find a
counterexample; `findings` in `PROJECT.json` quotes both sides.

| run | said | done |
|---|---|---|
| `burn_stopped` | the files of a consumed link are erased, if no other link is usable | an owner who deletes one of them meanwhile makes the loop of the completion throw, and the rest stays |
| `register_rollback` | a deposit that fails is lost whole | when the monthly counter fails the bytes go and the row stays |

Other sentences are true only with a reservation, which the properties state:

- `src/backend/docs/partages.md:70-72`, an interrupted transfer gives the file back:
  unless the link was completed meanwhile, for the completion counts files claimed,
  not transmitted (`GiveBack` of SingleUse: free again, or gone).
- `src/backend/docs/exploitation.md:192-194`, a link created while the purge works
  keeps its file: the count and the delete are two calls, and only links that
  existed at the count are spared (`EraseSparesKnownLinks`).
- `src/backend/docs/exploitation.md:189`, the dry run counts what the purge erases:
  the purge erases the row of its own cursor, and may then stop or skip.
- `auth/token.service.ts:111-112`, two sessions never live on one family: unless two
  refreshes read a token before either retires it (`OneLiveToken`).
- `auth/auth.controller.ts:338`, a logout revokes the token and its line: a refresh
  that has read its token before and inserts the next one after keeps the session
  alive, with all that descends from it, and nothing else does (`SurvivorsCrossed`).
- `auth/mfa.service.ts:45`, "cinq essais, apres quoi le defi est clos": the attempts
  are read long before they are counted, so a code takes one more for each
  verification that ran beside another (`TriesBounded`, `peak`).
- `auth/mfa.service.ts:97` and `104`, the mail says that the code "ne sert qu'une
  fois": once for each verification that ran beside another, and never for one that
  began after a first was accepted (`SessionsBounded`, `peak`).
- `auth/mfa.service.ts:68-69`, the new code closes the one before, "sinon deux codes
  coexistent": they do when two logins stand between closing and creating
  (`OpenCodesBounded`, `codePeak`).
- `auth/email-verification.service.ts:47-48`, "un seul lien doit fonctionner a la
  fois": likewise (`OpenLinksBounded`, `linkPeak`).
- `src/docs/configuration-deploiement.md:334` has V2 become V1 once the rotation is
  over. The rows were sealed under the label V2, which has no key any more: none of
  them can be opened by a service started with that configuration. `KeysSuffice`
  says so (`Promoted /\ label "v2"`); without that reservation the run `rotation`
  stops on a trace of ten states that ends in `PromoteV2`. The other guide, `rotate-keys.ts:17`, takes V1 out instead: the key of
  every row stays configured, but `config/env.validation.ts:177-185` starts no process
  without V1. Neither way both keeps the rows and lets the service start again: for
  that both variables have to stay.
- `rotate-keys.ts:57-60`, a report of zero means that the old key may go: unless a
  file was deleted during the execution. If it was the row of the cursor, a page may
  miss a row, and the key given up was still its key (`blind` in `KeysSuffice`;
  `NothingLeft`). Without this reservation `rotation` stops too.
- `rotate-keys.ts:26-31` promises a service that reads everything during the rotation:
  if it was restarted with V2 before (`ServiceReads`, under `Restarts`), as the
  deployment guide asks.
- `common/guards/rate-limit.guard.ts`: the counters are in memory, so that the bound
  holds within the life of one process; a stretch across a restart is not bounded.

Several of these races are left open by the code, and the property that watches the
place holds because it names the race and excuses it. What it then still catches is
what else could go wrong there:

| property | excused | caught |
|---|---|---|
| `EraseSparesKnownLinks` | a link created after the count | an eraser that does not count, or counts wrongly |
| `AloneWithinQuota` | deposits that overlap | a wrong comparison, a volume not recorded |
| `OneLiveToken` | two refreshes of one token at once (`forked`) | a rotation that leaves its token alive |
| `SurvivorsCrossed` | the refreshes that cross a cut, and their line | a cut that leaves a token of the family, a replay or a refresh that brings one back |
| `TriesBounded`, `SessionsBounded` | verifications beside one another, one each | an attempt not counted, a code used again later |
| `OpenCodesBounded`, `OpenLinksBounded` | requests between closing and creating at once | one left open by an earlier request |
| `LastAdminStays`, `WithdrawalHolds` | two administrators who lower each other at once | lowering oneself, a role not read again at each call |
| `NoFalseAlarm` | a lost answer, two tabs | a refresh not shared within a tab, a cookie that goes back |
| `LogoutEmptiesJar` | a refresh whose answer crosses a logout | cookies an answered logout leaves |
| `ListFollows` | an older answer that comes after a newer, until the next listing | answers in order applied wrongly, a list that outlives its person |
| `ButtonsReturn` | a button freed while its own call runs, by another row's press or answer | a button that never comes back |

## 4. What is proved

For every value of the constants that satisfies the assumptions of the modules,
with any number of requests and whatever the clock and the failures. The
assumptions are named (`ShareLinksAssumption`, `ProcessAssumption`,
`DepositAssumption`, `SessionsAssumption`, `BrowserAssumption`, `AccountsAssumption`,
`KeyRotationAssumption`, `RateLimitAssumption`, `AdministrationAssumption`,
`PlanAssumption`, `OwnerPageAssumption`): times and sizes are naturals, lifetimes
positive, requests of different kinds distinct. All the invariants and action
properties of section 3 are stated by a theorem below.

| theorem | states | by |
|---|---|---|
| `ShareLinks_proofs!TypeCorrect` | `TypeOK` | inductive as it stands: the link between `pc` and the tables (`RequestsOK`) is part of it |
| `ContentKept` | `RowsHaveContent` | `ContentInv`: whoever stands at "unlink" has a target without a row |
| `OneRecipient` | `SingleTransmission` | `ClaimInv`: a request *keeps* its slot from "open" until it releases, or for ever once it has transmitted; a kept slot is marked or its file has gone; one keeper a slot. Uniqueness alone is not inductive: nothing would stop a second claim |
| `KnownLinksSpared` | `EraseSparesKnownLinks` | inductive with `TypeOK`: a link not in `unseen` existed at the count, and a link that has stopped being usable never is again |
| `RecentFilesSpared` | `PurgeSparesRecentFiles` | `PurgeInv`: the same for each file still to be erased, not only the current one |
| `OrphansPending` | `OrphansArePending` | inductive with `TypeOK`: bytes lose their row in a step that leaves someone at "unlink", or at an end that counts as a failure |
| `Implements` | `Spec => SingleUseSpec` | from `TypeOK` and `ClaimInv`: every step leaves all the slots, or moves one (all those of one file, or of one link) as one step of SingleUse does. One lemma per step that moves a slot (`ClaimMoves`, `ReleaseMoves`, `TransmitMoves`, `FaultMoves`, `DropMoves`...), `Unmoved` for the rest; that one request keeps a slot is what makes the others' slots stay |
| `Deposit_proofs!TypeCorrect` | `TypeOK` | inductive as it stands |
| `WholeOrNothing` | `RegisteredWhole` | `StreamInv`: how held, arrived and passed chunks relate at each stage |
| `AloneStaysWithin` | `AloneWithinQuota` | `QuotaInv`: what passed is within what the guard saw left |
| `NoOrphans` | `OrphansAreUnderWay` | `DoneInv`: a deposit that is over with success has its row |
| `Browser_proofs!TypeCorrect` (of Sessions) | `TypeOK` | with `FamilyInv`: families descend from a login, and clients hold only tokens of requests that are over |
| `LoggedOutRefused` | `LoggedOutAccessRefused` | `ClosedInv`: a token of a logout is on the list or has expired |
| `OneLive` | `OneLiveToken` | `RotationInv`: in a family that is not forked one rotation at a time is under way, and no live token is in a client's hands but the one it exchanges |
| `ExtinctStays` | `ExtinctForGood` | from `FamilyInv`: a live token of a family comes only from a rotation about to issue |
| `OnlyCrossedSurvive` | `SurvivorsCrossed` | `CutInv`: what is alive after a cut descends from those that crossed it, and so does every refresh about to issue in a family that was cut off: it crossed the cut itself, or read a live token since. A line is the least set closed under "presents a token of"; it only grows (`LineGrows`), for a request presents one token for good (`FreshInv`). Live tokens alone are not inductive: the refreshes under way would be forgotten |
| `ServiceUnderneath` | `BrowserSpec => Spec` | every step of the browser is one of Sessions or leaves it alone, so that the theorems above hold under a browser too |
| `BrowserTypes` | `BrowserTypeOK` | part of `BInv`, below |
| `HandlersRunOnce` | `RunsOnce` | `CallInv`: a call not yet tried again has run once at most, and one of kind "plain" that is still to be answered has not run at all |
| `NoFalseAlarms` | `NoFalseAlarm` | `BInv`: the cookies are always of one pair, whose request has been answered (`CookieInv`); two refreshes abroad never carry one token (`AloneInv`); a token whose exchange was answered is in no jar and on no request (`SpentInv`) - all outside of the families that are excused. A token presented again would have to be one of these. `WireInv` ties the journey of a request to its place in the service, `DescentInv` a family to the login it comes from, `FlightInv` a refresh abroad to a tab |
| `LogoutEmpties` | `LogoutEmptiesJar` | `PartingInv`: once a logout has left, no refresh abroad carries its family, and once it is answered no cookie does, unless one crossed it |
| `Accounts_proofs!TypeCorrect` | `TypeOK` | with `PlaceInv`: where a request stands says what it has written |
| `TriesStayBounded` | `TriesBounded` | `TriesInv`: the tries counted and those about to be, together, stay below the limit and the most that ever ran beside one another |
| `SessionsStayBounded` | `SessionsBounded` | `PartyInv`: the verifications of a code and the sessions it opened, together, are no more than ran beside one another, for a session opened means a code closed and no further reader |
| `OpenCodesStayBounded`, `OpenLinksStayBounded` | `OpenCodesBounded`, `OpenLinksBounded` | `CodeInv`, `LinkInv`: what is open and what is about to be created, together. `Request` may be infinite, so these counts rest on `FiniteInv`: finitely many requests have come |
| `NeverLockedOut` | `NotLockedOut` | `PromiseInv`: an unconfirmed person has a request that is on its way to a link or has one that works. |
| `KeyRotation_proofs!TypeCorrect` | `TypeOK` | inductive as it stands |
| `KeysAlwaysSuffice` | `KeysSuffice` | under `Restarts`: `SealInv` (every value, in the tables and in the hands of an execution, is under the new key or under V1 as it was or has become, and every process has loaded only such keys), and `GivenUpInv`: once the old key has been given up on a report that can be trusted, every row is on the new key and no process that writes is without it. That a report can be trusted is `WalkInv` (below): what the command says is true, therefore the key may go |
| `NeverBack` | `NoWayBack` | from `SealInv`: an execution without V2 cannot open, or has nothing to seal again |
| `ServiceGoesOn` | `ServiceReads` | from `SealInv` and, for one service process restarted before the rotation (`Restarts`), that a row labelled V2 means the service has V2; until V2 becomes V1 |
| `NothingStays` | `NothingLeft` | under `Restarts` as well, until V2 becomes V1, by `WalkInv`: until a file is deleted the cursor of an execution is a row or 0 (`CursorInv`), and every row it has *behind* it is on V2 (`BehindInv`) - the files, all of them, once it has passed to the links. What is inserted behind it comes from a service that has V2 (`ServedInv`), and a row read on V2 is still on it when it is passed over (`BatchInv`) |
| `RateLimit_proofs!TypeCorrect` | `TypeOK` | inductive as it stands: no window ends later than one length from now |
| `RetryAfter` | `RetryAfterHolds` | inductive with `TypeOK`: only an attempt after the end of a window moves it, and that one passes |
| `Sliding` | `SlidingBound` | `WindowInv`: the open window began with an attempt let through and has let no more through than its limit; nothing is let through between windows; and a stretch as long as a window that ends where this one began held fewer than the limit, for it misses the first attempt of the one before. A stretch that ends now meets two windows at most (`StretchInv`), and one that has ended keeps what it held, or is forgotten with all the counters at a restart. Counts kept as a cumulative function make this arithmetic: no sum over a set, no induction |
| `Administration_proofs!TypeCorrect` | `TypeOK` | inductive as it stands |
| `OneAdminLeft`, `WithdrawnAtOnce` | `LastAdminStays`, `WithdrawalHolds` | together, with `NotOneself`: the actor of an update that lowers somebody is somebody else, and an administrator, unless a withdrawal overtook it |
| `OwnerPage_proofs!PageTypes` | `TypeOK` | part of `PageInv`, below: `LeftInv`, a cardinality, says that a link is left for each call that asks for one, `AnswerInv` that an answer speaks of what was asked |
| `ListIsNewest` | `ListFollows` | from `PersonInv`: what the page knows of a file it was told for the person signed in, and nothing is known when nobody is, so that emptying the list forgets nobody else's |
| `RevokedStruck` | `RevokedEverywhere` | inductive with the types and `AnswerInv`: a listing that shows a revoked link as live is late, and one that shows it revoked strikes it |
| `OneDraft` | `OneDraftPerFile` | `DraftInv`: a file not sent is in no link (`NewInv`); while a call asks to link it, no other does, and its links are no more than the calls lost (`AheadInv`); and so while it is offered for one (`PendingInv`). `BusyInv`: one such call is listened to at a time. The bound alone is not inductive: at the bound a call could still be ahead |
| `ButtonsComeBack` | `ButtonsReturn` | inductive with the types, `SentInv` and `LeftInv`: an answer keeps what its call was about, though a link made for a file comes back under the name of the link; what ends a call frees the buttons of its own kind, and a reload all of them |

`PageInv` and `BInv` are the conjunctions of all the parts named for their modules,
each of which the others need: what an answer may say depends on who asked, and who
may ask on what was answered.

**Only model-checked**: the five liveness properties (`TransmittedLinkConsumed`,
`BurnedFilesErased`, `OrphansCleaned`, `Resumes`, `CallsSettle`), which need
reasoning about fairness and enabledness, and the two counterexamples.

## 5. What is not modelled

- Ciphers, digests, password hashing and signatures (libraries; a tag is either
  right or breaks the transfer). The storage below "the bytes of this name are
  there": directories and permissions. What a mail says.
- The type of a file (a choice of verdict), validation of input, formats, messages.
- Filters, logging, health, documentation, the connection to the database: no state
  that lasts. Of the configuration, the two master keys are modelled; the other
  values are read once and never change. The csrf guard is a test of one header.
- Of the web client: the recipient's page (its requests are those of ShareLinks; its
  own state is one flag a file), the confirmation page (one call), the
  administration screen, the quota, the form of the second factor, progress, layout
  and the animation.

## 6. Plan

What is left, in the order of what it would protect:

1. **The recipient's page** (`src/frontend/components/share-download.tsx`) composed
   with ShareLinks: which errors may mark a link as dead (`share-download.tsx:67`).
2. **A contract for sessions**: what Browser and OwnerPage each take for granted of
   the service (a session is open or not, for one account) stated as an abstract
   specification that Sessions implements.
3. **The screens of `file-transfer-app.tsx` left out**: administration, quota and the
   form of the second factor.
