# A verification project for multiinfo-gate

multiinfo-gate is an SMS gateway: applications submit messages over HTTP, a worker hands them
over to Plus Multiinfo, follows their status and reports it to webhooks; SMS coming in are
collected and passed on; an admin panel manages accounts, keys and integrations. It is one
Node.js process on one SQLite database. This directory holds TLA+ modules of its core, the
TLC instances that check them and TLAPS proofs of the main results.

## 1. The system

### Components, their state and their operations

| Component | State | Operations | Source |
|---|---|---|---|
| Message statuses | none (pure) | map a Multiinfo code, combine the parts | `multiinfo/status.ts` |
| Message lifecycle | `messages` (status, mi_ids, sent_at, valid_to, final_at), locals of handlers across awaits | submit, send job, poll job, cancel request | `api/submit.ts`, `worker/send.ts`, `worker/poll.ts`, `api/cancel.ts` |
| Job queue | `jobs` (run_at, locked_at, attempts), the tick's batch and lanes | enqueue, claim, complete, retry, defer, fail; tick, run, abandon | `store/jobs.ts`, `worker/loop.ts` |
| Certificate pause | `accounts` (credentials, `active`, `paused_reason`), the client pool | pause, resume, invalidate, probe, new credentials | `worker/certificate.ts`, `worker/clients.ts`, `store/accounts.ts`, `admin/routes/accounts.ts` |
| Webhook deliveries | `webhook_deliveries` | emit, deliver, retry, repeat by hand, scrub | `worker/webhook.ts`, `store/webhook-deliveries.ts` |
| Incoming integrations | `integrations`, dedup and throttle windows, requests waiting for DNS or the application | accept, guard, enrich, send | `api/hooks.ts`, `integrations/pipeline.ts`, `store/integration-guards.ts` |
| Power Automate | idempotency keys in `messages` and `packages`, the group's list | call, repeat, edit | `api/pa-integrations.ts`, `integrations/power-automate.ts`, `api/submit.ts` |
| Threads | `external_ref` of received messages | hand over, remember the ticket, reply | `worker/integrations.ts`, `worker/webhook.ts`, `store/inbound-messages.ts` |
| Packages | `packages`, `package_recipients` | submit, create, poll, order and fetch reports, apply them | `worker/packages.ts`, `store/packages.ts`, `multiinfo/report.ts`, `api/packages.ts` |
| Inbound receiver | one loop per account and service, `inbound_messages` | refresh, poll, store, confirm | `inbound/receiver.ts` |
| Notifications | `notification_queue`, rules, scanner memory | notify, flush, digest, mail and SMS | `notifications/*`, `worker/mail.ts` |
| Incoming mail | `mail_in_state`, `mail_in_seen` | poll mailboxes, process, remember | `worker/mail-in.ts` |
| Reports to senders of mail | jobs `mail.report` and `mail` | reply, first report, final report | `worker/mail-report.ts`, `worker/mail.ts` |
| Microsoft 365 | `m365_accounts`, in-memory refreshes and sign-ins | connect, refresh, disconnect, change, remove | `m365/*` |
| Sign-in and sessions | `admin_users`, in-memory sessions, stages, throttle | both factors, users, sessions | `admin/server.ts`, `admin/throttle.ts`, `admin/session.ts`, `admin/routes/users.ts` |
| Keys | `api_keys` with their services and senders, what stands on them | create, edit, revoke; edit the account | `admin/routes/keys.ts`, `store/api-keys.ts`, `store/accounts.ts` |
| Forms of integrations | `integrations.config`, encrypted secrets, open pages | open, post, save, simple mode | `admin/integration-form.ts`, `admin/simple-form.ts`, `admin/mail-form.ts` |
| Texts and numbers | none (pure) | measure, divide, shorten; normalise, list | `text/*`, `integrations/group/members.ts` |
| Lists | none of their own | pages by offset | `api/messages.ts`, `api/inbound.ts`, `admin/routes/*` |
| Startup, backup | data directory: database, WAL, copies | key check, backup before migration, emergency mode, restore | `index.ts`, `startup/*`, `store/backup.ts`, `store/db.ts` |

(Paths are relative to `src/src/`.)

### How they interact

Requests, the worker's tick, the receiver's loops and the admin panel share the database and the
client pool of one process. Database calls are synchronous, so code between two awaits is atomic
with respect to other handlers; only the awaits (HTTP calls to Multiinfo, to webhook receivers,
to mail servers, DNS) interleave. The worker's jobs are the hub: a request inserts a row and its
job in one transaction; the send job enqueues the poll job; both enqueue webhook jobs; package
jobs enqueue each other. `stop()` does not wait for handlers, so every restart is a crash at an
await, and a kill can fall between any two statements.

### What is hard

* a handler uses after an await what it read before it (poll against cancel, cancel against poll);
* answers of Multiinfo, of a webhook's receiver or of the mail server are lost after it has acted: a
  retry repeats the act;
* closing writes (set the status, delete the job, tell the webhook, enqueue the next job), and those
  that order a report, are separate statements: a kill between them tears them apart;
* locks are freed by age only, while handlers may take longer than that age;
* counters with two owners: `jobs.attempts` counts a handler's retries and the loop's errors;
* the panel shows a form, a person thinks, and what is posted meets rows that have moved on; some
  forms wait for DNS, argon2 or Microsoft between being checked and being saved;
* guards are taken before a wait and given back after it (an event's token, the throttle of sign-ins);
* one thing has many names: a number written with and without its country, a mail by UID and by
  Message-ID, a ticket number in two applications;
* a start may be the second try of one that died anywhere between its copy and its last migration.

The 40 hazards in `PROJECT.json` are the ones the runs are aimed at. Seen as well, and not covered by
a run: a database error after the hand-over is taken for a network error (`worker/send.ts:161`); a job
that kills the process is claimed for ever (`worker/loop.ts:105`); a repeated delivery keeps its old
payload (`store/webhook-deliveries.ts:147`); a subscription that expires during a long poll
(`inbound/receiver.ts:347`); a refusal that stops a service a save has just asked for
(`inbound/receiver.ts:177`); a key revoked while `enrich` waits, which still sends
(`integrations/pipeline.ts:307`); an empty DNS answer kept for a minute (`integrations/sources.ts:99`);
mail jobs that fail silently once SMTP is removed (`worker/mail.ts:104`); the texts of a package that
could not be created stay (`worker/packages.ts:37`).

### What makes each component correct

* Messages: every accepted message keeps a job until it is closed; it is handed over once unless
  an answer was lost; a cancellation reaches the parts at Multiinfo; the end is reported once.
* Queue: a job runs in one place at a time; none starves; nothing that died keeps its lock for ever.
* Webhooks: every event is delivered or shown as failed; none twice without a lost answer.
* Receiver: one loop asks for each service somebody listens to; a message is kept and told once, and
  confirmed only after that; errors shown are about services that are listened to.
* Packages: followed until they end; told of once; created again only after a loss; a ready report stays.
  Every recipient has the result Multiinfo gave him, whatever the report's columns.
* Panel: no session outlives the rights it was opened with; Multiinfo is asked with the saved
  credentials only; a key has nothing its account lost; a secret stays with what it was typed for.
* Microsoft 365: tokens belong to the grant of the account; "sign in again" is shown when it is true.
* Integrations: an event is sent once, a flow that loops stops, a mail brings one SMS, a reply stays
  within its key, a promised report comes, a shortened text is as long as it may be.
* Notifications: limits hold over crashes; nothing is mailed twice without one or a lost
  answer of the mail server.
* Startup: no schema changes without a copy; data under two master keys never comes to be.
* Lists: who turns the pages has seen every row.

## 2. Modules

| Module | Models | Rests on |
|---|---|---|
| `Statuses` | codes, their mapping, the verdict over the parts | |
| `MessageLifecycle` | the life of messages: submit, send, poll, cancel, crashes | `Statuses` |
| `MCMessageLifecycle` | TLC instances of it | |
| `MessageLifecycleProofs` | its theorems | TLAPS |
| `JobQueue` | table `jobs` and the worker loop | |
| `MCJobQueue` | TLC instances of it | |
| `JobQueueProofs` | its theorems | TLAPS |
| `WebhookDelivery` | webhook deliveries, their jobs, repetition by the administrator | |
| `MCWebhookDelivery` | TLC instances of it | |
| `WebhookDeliveryProofs` | its theorems | `WebhookDelivery`, TLAPS |
| `Inbound` | the receiver: its loops, the map of them, stops, pauses, messages and their confirmation | |
| `MCInbound` | TLC instances of it | |
| `Inbox` | what the gateway promises of a message that comes in | |
| `InboundProofs` | the receiver's theorems | `Inbound`, `Inbox`, TLAPS |
| `PackageLifecycle` | packages: accepted, created, followed, reported on, ordered again | `RemoteCall` |
| `PackageLifecycleProofs` | its theorems | `PackageLifecycle`, TLAPS |
| `RemoteCall` | what a call made for somebody else promises: made until it has an outcome, made again only after a loss | |
| `PackageRows` | recipients of a package and the rows of its report | |
| `SignIn`, `Certificates`, `Keys`, `M365`, `Forms` | five parts of the panel | |
| `Panel` | these five side by side | these five |
| `MCPanel` | TLC instances of it | |
| `PanelProofs` | the theorems of the five | `Panel`, TLAPS |
| `Throttle` | the storm guard of an integration | |
| `Hooks`, `FlowCalls` | incoming integrations, calls of flows | `Throttle` |
| `MailIn`, `Threads`, `Reports`, `Texts`, `Recipients` | mailboxes, conversations, reports on a mail's SMS, lengths, numbers | |
| `Integrations` | these seven side by side | these seven |
| `MCIntegrations` | a TLC instance of it | |
| `IntegrationsProofs` | the theorems of the seven | `Integrations`, TLAPS |
| `Notices`, `Startup`, `Lists` | notifications, starts and copies, paging | |
| `Service` | these and `PackageRows` side by side | these four |
| `MCService` | a TLC instance of it | |
| `ServiceProofs` | the theorems of the four | `Service`, TLAPS |

`MessageLifecycle`, `WebhookDelivery` and `PackageLifecycle` implement `RemoteCall`
(`ImplementsHandOver`, `ImplementsCall`, `ImplementsCreation`): an item is `owed` while its send,
webhook or create job is in the queue, `taken` counts
what the other side has, `lost` what the gateway will never know of. `Inbound` implements `Inbox`
(`ImplementsInbox`).

### MessageLifecycle

An action is what a handler does from one await to the next. Columns are functions from messages:
`status`, `finalAt`, `miIds` (which hand-over the row names), `jobs` (the types of the message's
jobs), `attempts`. `sender`, `poller` and `canceller` are the locals of the three handlers across
their awaits; they vanish with the process. `plus` is Multiinfo: the hand-overs it accepted and
the code of each part. Time is a choice: jobs start whenever they are due in some run, seven days
pass (`weekOld`), a deadline passes (`overdue`). `reports`, `lost` and `torn` are history.

Closing actions take a number `n`, the writes that reached the database before a kill. The code's
order of the writes is the order of the `n >= k` conditions.

### JobQueue

`state`, `runAt`, `lockedAt`, `attempts` are the columns; `tickAt`, `waiting`, `lanes` the locals
of `tick`; `passes[k][j]` counts how often `j` was claimed while `k` was due and left behind.
The handlers are reduced to their ends: complete, retry, defer, throw.

### WebhookDelivery

`status` and `content` are what matters of a row of `webhook_deliveries`: its state, and whether
the text of a received message is kept for good, is to leave with the final status (`scrub_after`)
or has left. `queued`, `owner` and `attempts`
are the webhook jobs; an identifier is used once, as in SQLite. `pc` is what the handler waits for:
the name of the target (`resolve`), the answer (`post`, and `taken` once the receiver has the event).
Every way of closing a delivery is the final status and then `jobs.complete`; every way of starting
one is the row and then its job; the number `n` says how far a kill let them get. Emission in the
transaction of a received message knows no such gap. `forsaken` and `doubled` name the deliveries
whose writes were cut there, and those whose job was given up.

Nondeterministic, because the administrator or the world decide at any time: the secret of a key,
whether an integration is enabled, what a name resolves to, whether a secret can be decrypted.

### Inbound

`stored` and `told` are the rows of `inbound_messages` and the deliveries written with them, `error`
the column of `account_services`, `listeners` and `paused` what `activeTargets` computes its answer
from. `loops` and `stopped` are the two maps of the class `Receiver`. A loop is a service and a slot:
a loop that was put out keeps its slot until it ends, and the next one takes another. `pc` is what a
loop waits for: the answer of getsms.aspx (`ask`), the error of a question that was broken off
(`cut`), the answer of confirmsms.aspx, the end of a pause, or its turn with an outcome in hand.
`reply` is the message on its way. `Reconcile` is `refresh`; every change in the panel ends in it,
while an expired key and a pause are noticed by the timer only. `sms` is Multiinfo, which shows an
unconfirmed message again. Time is a choice: a pause ends, a stopped service is due again and a
message comes again whenever that suits. Keys with a webhook and keys with an integration are both
listeners; what an integration filters out is left out.

### PackageLifecycle

`status` and `report` are the columns of `packages`; `jobs[p]` are the jobs of a package: the one that
creates it, the one that follows it, and one for each order of its report (`Reports` bounds them).
`pc[p][j]` is what the handler of a job waits for, or the answer that is on its way to it. `Begin` is
the common entry of the three handlers, `Retry`, `GivesUp` and `Reject` are `handleProviderFailure`,
and each way of ending a handler is an action with a number `n`, as above: the row, the job, and what
follows, a next job or an event. An order of a report and a question that is put off are two writes
as well, the row and then the job: `Order(p, 1)`, `Progress(p, 1)` and `NotYet(p, r, 1)` are those a
kill cuts between them, and `Cuts` gathers every such step. `plus`, `gen` and `made` are Multiinfo: the
package, its report, and how often it was created. `told` counts the events `package.completed` by the
job they came of; `torn` names the jobs whose closing writes a kill cut, `slipped` the packages whose
last order it cut, which have a pending report and no job for it until the next order, `crowded` those
whose report was ordered while it was being fetched: the only excuses of the properties. Left out are the numbers of
recipients, the rows of a report, the texts, and what depends on `active` alone, since an account
that is not active is also paused (`store/accounts.ts`).

### The panel

`SignIn`: a request is what is between two waits: `signIn` is a login that waits for argon2 with the
row it read, or for its second factor; `request` is one of a session, between the hook that looked the
session up and its handler. `crossed` are sign-ins whose user was changed meanwhile.

`Certificates`: `material` are the saved credentials, by number, `pool` those the one client was made
with, `call` those a call is under way with. A client has four connections, and a call beyond them
waits for one (`Waiting`); the loops of the receiver have a pool of their own without that limit.
Closing a client turns the calls that have a connection into `Cut`; one that waits gets a new one and
goes on with the old credentials (`late`). `page` and `saw` are what a request of the panel waits for
and whether it saw the account paused when it began. A check waits twice, for the probe and then for the
inspection of the certificate, and resumes after both (`Inspected`); an edit resumes after its probe
(`EditOk`). So a request may resume an account whose credentials changed while it waited: its probe was
of other ones, and `ResumedForReason` names this case (`Overtaken`: its client was closed meanwhile).

`Keys`: `services` and `dictionary` are what the account has, `holds` and `senders` what the key was
given, `stands` which key an integration stands on. `form` is a form between its check and its saving,
waiting for the name of a server. `strayed` keeps the keys that a crossing edit could touch.

`M365`: `account` is the row, `cache` the access token in memory, `refresh` and `login` what waits for
Microsoft. A refresh token is a number; `grants` remembers whose it is.

`Forms`: `row` is an integration as saved, `tab` a page as it was opened. A secret is named by what it
was typed for, so that `SecretsFit` can say that it is still there.

### Integrations

`Hooks`: `call` is a request with what it has read; `tokens` and `window` are the guards. `FlowCalls`
runs a call in one step, as the code does. `Throttle` holds the window both use.

`MailIn`: `box` and `unread` are the folder, `valid` its UIDVALIDITY, `state` and `seen` the tables,
`poll` the locals of polls; a poll given up by its timeout goes on beside the next one, as in the code,
also one whose folder is still being opened: it then sets the floor, or lists the mails and takes none.

`Threads`: `sms` are messages received and sent, `open` the deliveries that wait for an answer, `made`
the tickets the applications made. `Reports` follows one mail: its rows, its jobs and its outbox. A row
does not stop at a status that the report takes for final. A poll that finds one part failed and others
open writes the failure without `final_at`, and a later one may write another failure; so the report
keeps with each outcome whether it was dated, and an undated failure may become another (`Stands`). A
row that its key asked to cancel (`withdrawn`) goes anywhere: the answer to the request, the hand-over
and the polls write over each other, and `final_at` is taken back where Multiinfo does not withdraw.
Nothing is promised of what was told of such a row; `MessageLifecycle` says what is true of it.

`Texts` and `Recipients` are the pure parts: `Fewest` and the `CutIs...` definitions say what an SMS
is, without an algorithm, and the code's loops (the division into parts, the bisection of `fitToParts`) are checked
against them; the numbers a form lists are checked against what `submitMessages` makes of them.

### Service

`Notices`: `queue` has a row for each notification with a state for mail and one for SMS; `turn` is
what one minute's flush has used up. An attempt to mail fails before or after the server took the mail;
`mailed` counts what the server took, `unheard` what of that the gateway took for a failure and tried
again. `Startup`: `main` is where the start is, `db`, `wal` and `copies`
are the disk, `hands` counts what a person does to it. `PackageRows`: `truth` is what Multiinfo knows,
`row` the table, `seen` what the last file said. `Lists`: `rows` grow and change their status, while
somebody reads with `offset`; `base` is what was there when he began.

## 3. Runs

| Run | Question | Answer |
|---|---|---|
| `MessageParts` | two parts, all orders of answers, polls, cancellations | what is reported stands; what rests as cancelled was withdrawn |
| `MessageLive` | deaths between writes, fairness, refinement | no message loses its job, is sent twice or reported twice without cause; the send job implements `RemoteCall`; every message is closed |
| `FinalLost` | `docs/power-automate.md:342` | violated: a failing send overwrites `cancelled` |
| `Webhook` | two deliveries, retries, repetitions, deletion, kills between two writes, fairness, refinement | a delivery is repeated only after a loss and loses its content exactly when it ends; the webhook job implements `RemoteCall`; every delivery ends |
| `Queue` | three jobs, batches of two in one lane, handlers longer than the lock, a restart, fairness | nobody is overtaken twice by the same job; every due job gets its handler |
| `Inbound` | one service, two messages, lost answers, failing transactions, changing listeners, a pause, a restart, fairness, refinement | one loop asks; no service is forgotten; errors are about what is listened to; messages are kept and told once before they are confirmed; each is taken in the end |
| `Packages` | a package, two orders of its report, lost answers, rejected certificates, two deaths, also between two writes of a handler or an order, fairness, refinement | no package is left without a job; its ends are told once and stand; the creating job implements `RemoteCall`; every package is heard of in the end |
| `Panel` | sign-in, certificates, keys, Microsoft 365, forms | sessions, credentials, keys, grants and secrets are those that are meant, over every order of pages, waits and answers |
| `Integrations` | events, flows, mailboxes, threads, reports, texts, recipients | once each, within the limits, to the right person, of the right length |
| `Service` | notifications, starts, report rows, lists | limits hold over crashes; every change of the schema has its copy; results and pages are complete |
| `ExcessDropped` | `docs/integracje.md:2141` | violated: what a full hour suppresses is counted in no mail |
| `WayBack` | `docs/uruchomienie.md:1283` | violated: a second start writes the copy for the previous release anew, migrated |

`Panel`, `Integrations` and `Service` put components that share no state into one run: the
variable `which` says which of them moves, and a component that does not move keeps one initial state.
`Moving` names those that are explored; a set of one explores one alone. Each property begins with
`which = ...` or speaks of steps of one component; the type invariants are conjuncts of them. The
components share the pairs of values they permute, because a product of permutations of all their
sets would cost more than it saves.

### Not so

Some claims of comments and documents have a definition, marked so where it stands, and are violated.
Three have a run above. The others can be seen by giving the constants below and the definition as an
`INVARIANT` (of the component's instance) to TLC.

| Definition | Claim | What happens |
|---|---|---|
| `MessageLifecycle.PollKeepsCancelled` | comment `worker/poll.ts:101` | a poll that began earlier undoes a cancellation (`FinalLost.cfg` with `RemoteCancels = TRUE`) |
| `MessageLifecycle.WithdrawalIsNotForgotten` | `docs/api.md:792` | a restart forgets a crossed cancellation (`FinalLost.cfg`, `MaxRestarts = 1`) |
| `MessageLifecycle.WeekLimitHolds` | comment `worker/poll.ts:22` | read errors bypass the seven days (`FinalLost.cfg`) |
| `JobQueue.AbandonedAfterStreak` | `docs/uruchomienie.md:1248` | a job is given up before its eighth error in a row (two jobs, `MaxTime = 4`) |
| `WebhookDelivery.ExhaustedIsMarked` | `docs/api.md:2385` | a delivery whose handler keeps throwing stays pending without a job (one delivery, two jobs) |
| `Certificates.PausedByCurrent` | comment `admin/routes/accounts.ts:307` | an account stays paused with its new certificate when it was paused while the form was read |
| `Keys.EnabledHasKey` | comment `admin/routes/keys.ts:301` | an integration is enabled by a form that waited while its key was revoked |
| `M365.MailboxHasAccount` | `m365/service.ts:172` | a mailbox form that waits for DNS is saved with an account removed meanwhile |
| `Forms.PasswordStaysWithServer`, `SecretStaysWithHeader` | comment `admin/routes/integrations.ts:340` | two crossing forms put one server's secret beside another's address |
| `Hooks.RepetitionIsHeard` | comment `store/integration-guards.ts:15` | an event repeated during `enrich` is refused, and the first request then fails |
| `FlowCalls.KeysSendOnce` | `docs/power-automate.md:279` | a repeated key sends twice once the group grew from one number |
| `MailIn.OutageCostsOne` | comment `worker/mail-in.ts:267` | a lost connection marks the rest of the batch as failed (`OneId = FALSE`, `MaxFetch = 2`) |
| `Threads.ReplyReachesWriter` | `docs/integracje.md`, 3.9 | two applications with one key and one ticket number: the reply goes to the other writer |
| `Texts.ShortenedIsSent` | `docs/integracje.md:736` | a text cut to the integration's limit is refused for the key's |
| `Texts.OverIsLeast` | `docs/api.md:471` | the slots to remove are too few, or counted for the wrong size of a part |
| `PackageRows.RepeatCounts` | comment `store/packages.ts:181` | a file without clients, applied again, changes nothing |
| `PackageRows.TwinsCount` | comment `store/packages.ts:181` | two recipients with one number and no client both get the last row |
| `Lists.FilteredIsRead` | `docs/api.md:691` | with a status filter, rows that leave it make others skipped |

### Bounds

Messages: one message with two parts shows every order among parts; kills between two writes are
combined with one part, since the closing writes do not depend on the number of parts; the proofs
cover several messages, which share nothing but the account. `MaxRetries = 1` gives a first and a
last retry; one restart lets a job come back whose process died. The codes are one of each kind the
handler tells apart (waiting, failed, cancelled, delivered, sent without receipt, unknown).

Queue: three jobs are needed for a job to be overtaken by two others; batches of two in one lane make
a claimed job wait behind another; `LockTimeout = 1` and `MaxTime = 3` let locks run out under a
running handler and be taken again.

Webhooks: two deliveries show that jobs of one do not touch the other, one of them belonging to a
received message and to an integration. A job identifier is used once and two of them suffice: the
second is the job of the other delivery or of a repetition; the proofs cover any number. `MaxRetries
= 1` and `MaxUnexpected = 2` keep the order of the two limits; the second restart hits the job that
the first one left.

Inbound: two loops of a service let one that was put out overlap with its successor; three changes
are enough to subscribe, to stop and to resume; one of the two messages answers a notification; one
restart falls between storing and confirming. Services share nothing but the pause of their account:
one is checked, any number is proved.

Packages: packages share nothing but the pause of their account, so one is checked. Two report jobs
are the fewest that cross; `MaxRetries = 1` gives a first and a last retry. Of two deaths each falls
before, between or after any two writes, and the second hits what the first one left.

Panel: two logins at one account, two workers and two pages, two people at one mailbox account are the
fewest that cross; a throttle of two failures is reached and passed, two connections instead of four leave a
call of the four actors waiting, two swaps of credentials let an answer come two certificates late, two headers can change places. One key and one integration suffice
where the hazard lies between a form and the account.

Integrations: two events, two requests and a limit of one fill the guard's window; lists of up to three
numbers grow, shrink and are reordered; two mails, two polls and two values of UIDVALIDITY let a
poll given up meet its successor in a folder made anew (`OneId = TRUE`: the mails share a Message-ID,
the harder case). Two keys of one account, three integrations, two desks. The sizes of a part are cut
from 160, 153, 70 and 67 to 9, 7, 4 and 3 so that texts of six characters cross every border; numbers
have four digits with their country, and two countries. Reports look again after one unit of time, then
after two, for a day of three, and the clock runs one further.

Service: two notifications over three days' ticks, pools of three and two; two releases, of which the
second adds two migrations, two kept copies, two deeds of a person; packages of two recipients with and without clients,
three layouts of the file, two jobs; pages of a list of a few rows.

`CHECK_DEADLOCK FALSE` is set because the system may rest: all messages closed, all jobs done, all
deliveries made, every page closed, or the bounded clock at its end.

### Fairness

The timer fires every second and each request has a timeout, so handlers go on (WF on the steps of
handlers and of the tick). Multiinfo, asked again and again, answers at last (SF on its answers);
a paused account is repaired at last (WF on Resume). Clients and crashes owe nothing.

The receiver's timer and loops go on likewise (WF on `Refresh`, on each loop and on the end of the
quarter of an hour after a stop), and Multiinfo shows an unconfirmed message again (WF). A question
or a confirmation may fail any number of times, but not for ever: SF, for each message, on its being
shown, stored and confirmed. Nothing is assumed of the administrator: `EveryMessageTaken` speaks of
services that stay wanted.

The unions have no fairness: their properties are about what may never happen.

Of packages it is assumed that the worker starts what is due and asks again, that a paused account is
repaired (WF), that Multiinfo sends a package in the end or somebody cancels it (WF on `Advance`),
and that the certificate is not rejected at every single attempt (SF on `Attempted`).

## 4. Proofs

`MessageLifecycleProofs` proves `Spec => []IInv` for all messages, parts, codes, numbers of retries
and restarts, and from it the type invariant, `OneJobPerMessage`, `NoStuckMessage`,
`DuplicateOnlyAfterLoss` and `FinalReportIsLast`. None of these is inductive alone: that a message
with a final report has no job (`JobsAgreeWithRow`) needs that it never has two jobs; that a
duplicate needs a loss needs that a send job without an accepted hand-over has all earlier ones
counted as lost (`HandoversCounted`). The proof has one lemma per family of actions, first for
types (`SendType`, `PollType`, ...), then for the rest (`SendGood`, `PollGood`, ...); a step of
one message leaves the others alone (`SameGood`).

`HandOverImplemented` proves that the send job implements `RemoteCall`. Every step but two (the
acceptance of a message and of a hand-over) leaves a message `Kept`: it adds no send job and no
hand-over and loses at most the one in the hands of the send job; a lemma turns that into a step
of `RemoteCall`. It needs that a cancel request concerns an accepted message (`CancelKnown`),
which is carried along beside the invariant.

`OutcomeInv` is a second invariant above the first, for `ReportedOutcomeStands` and
`CancelledMeansWithdrawn`. Both speak of messages that rest, and neither can be kept by looking at
those only: `ReportStands` and `Withdrawn` say the same of every message without a job, requests to
cancel still under way included. That needs that a message without a job that is not closed has
identifiers to cancel it by (`EndsNamed`), that the parts a cancel request is past are stopped at
Multiinfo (`CancelSoFar`), and that what a poll read as ended has ended (`SeenSoFar`). The run
`MessageParts` checks the two properties with two parts and no crash; the theorems `ReportsStand`
and `CancellationsHold` cover any number of parts, crashes and kills between two writes.

`PackageLifecycleProofs` proves `Spec => []IInv`, `TypeOK`, `StillFollowed`, `EndsAreTold`, the action
property `OutcomesStand` and `ImplementsCreation`, for all packages and all orders of their reports.
`JobsSound` says which jobs a package has in which status, `HandlerSound` what a running handler may
still rely on, `ToldSound` that no job told of an end before it came. The ten closing actions differ
in their writes only, so `CloseIs` states once what a kill leaves of a closing (`Closed`, `Cut`), and
`CutGood` that the excuses follow; a step of one package leaves the others alone (`UntouchedGood`).
`CountsSound` is what makes the creating job a `RemoteCall`.

`PanelProofs` proves the properties of the five parts of the panel, for all logins, workers, keys,
services, grants, headers and pages. Each part has its own `IInv` in its module:

* `SignIn`: passwords that wait for argon2 count as if they had failed, or nothing bounds the
  attempts that get past the throttle; a sign-in under way is of a user who is there unless crossed.
* `Certificates`: `TypeOK` and `CallsAreCurrent` are inductive together: the client is closed in the
  step that saves, so no call uses other credentials than the saved ones but for those that waited for
  a connection then. `ResumedForReason` follows: a probe that was not overtaken is of what is saved.
* `Keys`: a form that was checked and not crossed still fits the account when it is saved.
* `M365`: tokens are numbered as they are issued and outages as they begin (`TokensIssued`,
  `OutagesNumbered`); a sign-in overtaken by a disconnection is of an earlier epoch (`EpochsPass`).
* `Forms`: a form that waits for DNS still finds in the row what it takes over from it (`TakesOver`).

`IntegrationsProofs` proves the properties of the seven parts of the integrations, for all events,
requests, lists, keys, mails, overlapping polls, tickets, schedules of reports, numbers and texts:

* `Hooks`: what neither an identifier nor an entry of the journal keeps from being sent was not sent
  (`Open`), and a request that asks the application has the identifier of its event alone (`CallOK`).
* `FlowCalls`: a key was not used yet, or every position of its list is found (`Untried`, `Answered`);
  that the positions found are those of the list needs that a list names nobody twice
  (`parseMemberLines`), which `FlowsAssumption` states.
* `MailIn`: a mail that is being read is remembered, no other poll reads one with its Message-ID, and
  no SMS was sent for one (`MemorySound`); for each poll, what is below the highest number it looked at
  is decided about, and what is above it is on its list or came later (`FloorSound`). That the floor is
  safe when a folder is made anew needs that no poll is under way then and that the UIDVALIDITY on
  record is never later than the folder's (`PollsSound`).
* `Threads`: a delivery that was answered and an SMS with the number of a ticket stand for a ticket that
  was made of them (`Handovers`). `KeysStayApart` is about steps: `StepsStayApart` has one case for
  each way an SMS comes to be.
* `Reports`: how far the reports are is told by the mail and its job (`Unanswered`, `Answered`): no
  second report without the first, and a first one alone only while the final one is owed. That an outcome
  stands needs that the rows that were told as dated are still so, and that a row that nobody asked to
  cancel has no status but a failure before it is dated (`Tables`).
* `Texts`: what is sent takes the fewest parts because after every character there is no division into
  fewer of what lies before the last part, and none of the parts is over its size (`FillSound`); against
  any other division, a stretch that fits one part makes the filled parts one more at most
  (`OnePartMore`). Halving is sound (`SearchSound`) only if a longer head never takes fewer parts
  (`PartsGrow`). That is plain in one encoding. Where the text leaves GSM, a head in GSM with three dots
  is compared with a longer one in Unicode with one dot: along the text the parts of the first are
  fewer, or as many and their last one used by no more than twice what the other's is (`Across`), and
  the added character and the dot make up for the three. This needs what `TextsAssumption` says of the
  sizes and 160, 153, 70 and 67 satisfy: a part in GSM holds twice what one in Unicode does.
* `Recipients`: a form lists a number as it will be recognised again. Numbers come to rest: one that is
  whole, with its country and without the zeros of a call abroad, is left alone by every later reading,
  whatever the country of the account is by then (`Whole`, `WholeStays`), and what a form saves is whole
  (`ConfigSound`). A list without repetition stays so when it is written into a form and read back.
  `RecipientsAssumption` says what makes it true: country codes are not empty (the form of the account
  refuses that) and begin with no 0 (no country's does; the form does not look), a national number and
  its trunk zero are shorter than a number with its country (10 and 11 digits), and nobody writes the
  zeros of a call abroad twice: the code takes off one pair at a time, so `0000...` would be saved in a
  form that the next reading takes for another number.

The mailbox has twenty-one actions; `QuietStep`, `TakeStep`, `ReadStep` and `FolderStep` say once what
those have in common that move a poll without a trace, take the next mail, decide about one, or leave
the polls alone.

`WebhookDeliveryProofs` proves `Spec => []IInv`, `TypeOK`, `PendingIsOwed`, `OneJobPerDelivery`,
`RepeatedOnlyAfterLoss`, `ContentLeavesWithStatus`, the action property `DeliveredStays`, and `ImplementsCall`: a kill between the two closing writes is the
step `Tear` of `RemoteCall`, and a delivery it hit is excused from the count. `CallsCounted` is
the strengthening that matters: a delivery that has a job or may be repeated has reached the receiver
exactly as often as the gateway lost track of it, and once more only while an answer is on its way; `JobFindsOpen` says that a job finds its delivery
pending or deleted, so a repetition never meets an older job, unless a kill tore the two writes apart.

`InboundProofs` proves `Spec => []IInv`, `TypeOK`, the three invariants of the run `Inbound` and
`ImplementsInbox`, for all services, messages, keys and numbers of overlapping loops. The heart is
`LoopSound`: the map holds exactly the loops that were not put out, and a loop that was put out asks
no more. `ReconcileLights` and `ReconcileHeard` show that a refresh keeps this and leaves no wanted
service without a loop; all other actions go through `SameLights`, since they move a loop without
touching the map. `StoredFirst` relates Multiinfo's queue to the table: what is confirmed is stored.

`RemoteCall` promises `OnceUnlessLost`: the other side takes an item at most once more than the gateway
lost track of it, and nothing is lost that was not taken. Each of the three modules that prove an
implementation concludes it for its own calls, from the steps that the implementation consists of:
`HandedOverOnceUnlessLost`, `PostedOnceUnlessLost` and `CreatedOnceUnlessLost`.

`ServiceProofs` proves the properties of `Notices`, `Startup`, `PackageRows` and `Lists`, for all rules,
limits, causes, numbers of the channel, releases and migrations, master keys, numbers of copies,
recipients, files, rows, filters and sizes of a page:

* `Notices`: a mail job about a row and a row that waits or has not come yet may each mean one more
  mail, so they are counted together with those the server took, and a death adds one, as does an answer
  that was lost and followed by another attempt (`MailsSound`).
  The pools are those of a sliding window, while the budget is taken from the rows: of the SMS handed
  over since any time of the last day, all but those a death kept from being counted are in rows that
  tell when (`TextsSound`). This needs that SMS do not wait, so that a row's SMS is as old as the row,
  and that pruning keeps a day. Sums are cardinalities of sets of pairs (`Units`), which `SumOfTwo`,
  `SumOfOne` and `SumRaised` count without induction. Every turn either lets the table follow
  (`Follows`: it owes no mail more and still tells of the last day), writes mails (`WritingStep`) or
  hands SMS over (`TextsHandedOver`).
* `Startup`: a start goes on without a new copy when one is as new as the last write, so the proof has
  to know what such a copy holds: the data of the database, once the WAL is merged, and if there is
  one, the newest copy is such, so that clearing away the oldest leaves it (`CopiesSound`). That no
  data comes under two keys needs that it is so of every copy, because a copy can be restored, and
  that a process that writes has the key of all that is there (`KeysSound`). The steps are put together
  from `WriteSound`, `CloseSound` and `PutSound`, what a write, a clean end and a new copy do to the disk.
* `PackageRows`: the table is followed row by row of a file in any order. In a file that names the
  clients every recipient with that number and client gets the row that is his. In a first file that
  names nobody, the rows of a number go to its recipients one after the other, each to the first
  that has none: as there are as many rows as recipients, no recipient is left out and no row is lost, so the
  results are those of the file up to an exchange among recipients with one number, and the counts are
  right. That the columns are found is proved for files whose titles tell them, wherever they stand, and
  for files whose columns are where the manual puts them (`RowsAssumption`).
* `Lists`: what was in the list when the reading began has been read or has its place, counted from
  the newest row, on a page still to come (`ToCome`). Rows that come push the others towards later
  pages (`PlaceGrows`), so nothing is passed over while no row leaves the list.

`JobQueueProofs` proves `Spec => []IInv` and from it `TypeOK`, `LocksAreHeld`, `OvertakenOnce` and,
step by step, `NeverClaimedTwice`. The heart is `PassesBounded`: a job that has used up its right
to overtake `k` is at work, gone, or later than `k`; a retry puts it after the time at which the
tick began, hence after every job that was due then.

Loops over a text, a list or a file are recursive functions on `0..n`. The provers have no induction over
data, but they know that a set of numbers that has 0, and with each number the next, has all of them:
`UpTo` follows from the well-founded order of the naturals, `Unfolds` from it that such a function exists
with the values its definition names, and every invariant of a loop is stated as such a set.

Assumptions are those on the constants named in the modules. Every invariant and action property of the
runs is proved. Only model-checked is liveness under fairness, which is outside the prover's reach
(`EventuallyClosed`, `EveryDueJobRuns`, `EventuallyEnded`, `EveryMessageTaken`, `EverySettles`).
`Notices` is proved under the assumption that rows are kept for a day at least (`NoticesAssumption`;
`pruneBefore` is called with a month), and `Startup` is proved under the assumption that a release only
adds migrations to those of the releases before it (`StartupAssumption`), which the numbering of the
files in `migrations` makes true. What the proofs establish for every value of the constants is not run
again on a small one: `TypeOK`, `OneJobPerMessage`, `LocksAreHeld`, `NeverClaimedTwice`,
`PendingIsOwed`, `OneJobPerDelivery` and `DeliveredStays` are proved and leave room in the runs for what
is not.

## 5. Not modelled

* Wire formats, wording, rendering, cryptography and configuration: `admin/views`, `api/openapi.ts` and
  `api/power-automate.ts` (two constant documents), `integrations/presets`, templates and conditions of
  integrations, parsing of mails, `config/env.ts`, `secrets`, `log.ts`. They keep no state and no order;
  what the checks would say of them is what their own lines say.
* Failing database statements, except the receiver's transaction. Kills between two statements are modelled
  where handlers close or put off their work and where a report is ordered or a delivery begun
  (`MessageLifecycle`, `WebhookDelivery`, `PackageLifecycle`), in the flush and the mails of `Notices`, in
  `MailIn` and in `Startup`; routes of the panel run their writes in one step.
* Counters shown in the panel, the journal of an integration, retention of old rows, the window of the
  API's rate limit, the check for new releases.
* Statements of the migrations: a migration is a step of the schema's number.
* Composition across components beyond the refinements of `RemoteCall` and `Inbox`: the unions check
  their parts beside each other, not together. Where parts meet, the module of one holds what it sees
  of the other (a closed client in `Certificates`, a revoked key in `Hooks`, the steps of a row in
  `Reports`).
* In `Reports`, polls of one row that overlap because one outlived its lock, and a kill between the writes
  of a poll that gives up after seven days: the reports end after one.
* In `Startup`, two things beside the order of a start: `verifyMasterKey` recognises only the secrets it
  looks at, so data under two keys means those; and the API already serves between
  `listen` and `setGateVersion`, a moment whose requests are left out.

The components without a module are listed in `PROJECT.json` with the reason.

## 6. Plan

1. (done) `MessageLifecycle`, `JobQueue`, `WebhookDelivery`, both calls as refinements of `RemoteCall`.
2. (done) `Inbound` - loops and exactly-once storing, implementing `Inbox`.
3. (done) `PackageLifecycle` - the three jobs and ordered reports.
4. (done) The panel: `SignIn`, `Certificates`, `Keys`, `M365`, `Forms`.
5. (done) Integrations, mailboxes, threads, reports, texts and numbers; notifications; startup; lists.
6. (done) Theorems about `PackageLifecycle`, about the outcomes of messages and about the panel.
7. (done) Theorems about the integrations.
8. (done) `Service`, the union of `Notices`, `Startup`, `PackageRows` and `Lists`, and theorems about
   `Notices`, `Startup` and `Lists`.
9. (done) Theorems about `PackageRows`, `Texts` and `Recipients`.
