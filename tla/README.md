# A TLA+ model of c0de-webhook

c0de-webhook accepts messages over HTTP, stores them in SQLite and delivers them
by SMTP, Telegram or WhatsApp. An admin UI shows the queue, manages API tokens
and edits the channel settings while the process runs. This directory holds TLA+
modules translated from the Go code, TLC configurations that check them on small
instances, and theorems that TLAPS checks for every instance.

## 1. The system

| Part | State | Operations | Meets the others by |
|---|---|---|---|
| Webhook API (`internal/webhook`) | none | validate the token, check the body, insert a row | the store |
| Message store (`internal/store`) | tables `messages`, `tokens`, `settings`; a pool of up to 4 connections | one SQL statement each, except the claim (a transaction) and `MarkFailed` (two statements) | called by all others, concurrently |
| Delivery queue (`internal/queue`) | the channel `ch` (capacity 2 x workers), one dispatcher, N workers | claim every 2 s, push, receive, send, mark; start resets stuck rows, stop waits | the store, the senders, the context of `main` |
| Senders (`internal/mail`, `telegram`, `whatsapp`) | a connection for the duration of a call | `Send` | called by workers; swapped by `UpdateSenders` |
| WhatsApp Web (`internal/whatsapp/web.go`) | `client`, `linking`, `qrPNG`, a goroutine, the library's own database | link, unlink, send, status | called by the UI and by workers |
| Admin UI (`internal/ui`) | `pendingTokens` | pages, token and queue buttons, settings form | the store, auth, WhatsApp Web, `reloadSenders` |
| Auth (`internal/auth`) | sessions with expiry | login, logout, validate, cleanup, password | the UI's middleware, the store |
| Configuration (`internal/config`, `buildSenders`) | four layers: defaults, file, environment, `settings` | load, validate, lay the table over it | read once by `main`; rebuilt by `reloadSenders` |
| Process (`main.go`) | its goroutines, the port | start, signal, shutdown, the deferred close of the store | everything |

What is hard to get right here:

* *Interleavings.* A row is read by the claim, held in the channel and by a
  worker for as long as a send takes, and written afterwards, while Retry, Delete
  and other workers work on the table. `MarkFailed` reads and writes in two
  statements, `ChangePassword` too. The settings are saved key by key, read
  again and installed, with no lock over the three. A page is counted and listed
  in two statements. `ValidateSession` reads and deletes under two locks.
  `StartLinking` uses `wc.client` without its mutex.
* *Crashes, restarts, shutdown.* The table survives, the channel does not.
  Shutdown may find the channel full, the dispatcher blocked on it and the
  workers leaving. `main` returns, and closes the store, while handlers run. A
  supervisor may start a second process before the first has ended.
* *Failure of one step of several.* An UPDATE after a send, one recipient of
  several, one setting of thirteen, the read of the settings.
* *Stale state.* A Retry button on a page that is seconds old, a settings form
  rendered before another save, a token deleted between validation and
  insertion, a test of the connection before the send.

`PROJECT.json` lists these hazards one by one, each at its line, with the
properties that would notice.

Correct means, for each part: a message is held by one goroutine at most, unless
a Retry met it in hand, is attempted a bounded number of times, is delivered
twice only for a cause that can be named, is called sent only when delivered and
is settled in the end (queue); no message refers to a token that is gone (tokens); a
raw token is on one page, of the session that created it, and a session ends
only by its owner, its age or the process (admin); the worker sends with whole
and current settings, each from the last layer that gives one (settings,
configuration); the linking flag means a linking, and the code on the page
belongs to the client in use (WhatsApp Web); all recipients of a mail get it
equally often, and credentials follow encryption (SMTP); what is answered and
what is recorded stays true through the end of a process (process); a walk
through the pages misses nothing, and the dashboard adds up (pages).

## 2. The modules

| Module | Models |
|---|---|
| `DeliveryQueue` | `worker.go`, the statements of `store.go` on `messages`, start and stop of `main.go`, the queue page's buttons |
| `MessageLifecycle` | abstract: what the service promises of one message |
| `QueueRefinement` | the refinement mapping from `DeliveryQueue` to `MessageLifecycle` |
| `TokenRegistry` | tokens, webhook requests, the connection pool and its foreign keys |
| `AdminSessions` | `auth.go`, the creation of a token and the page that shows it |
| `WhatsAppLinking` | `web.go`: `StartLinking`, `Disconnect`, the goroutine of the QR channel |
| `ChannelSettings` | `handleSaveChannels`, `buildSenders`, `UpdateSenders`, `sendByChannel` as concurrent steps |
| `MailConfig` | pure: `config.Load`, `buildSenders`, and what the settings form renders |
| `SMTPDialog` | `SMTPSender.Send` and `connect`, over the attempts for one message |
| `MailDelivery` | composes `SMTPDialog` and `MailConfig`: attempts under a configuration that changes between and during them |
| `ProcessLifecycle` | `main`: start, signal, end, two processes on one database and port |
| `QueuePages` | the pages of the queue and of a token, the dashboard and its live endpoints |
| `MCQueue`, `MCTokens`, `MCSessions`, `MCLinking`, `MCSettings`, `MCMail`, `MCPages` | symmetry and definitions for TLC |
| `DeliveryQueueProofs` (with the refinement), `ProcessLifecycleProofs`, `AdminSessionsProofs`, `MailDeliveryProofs`, `ChannelSettingsProofs`, `WhatsAppLinkingProofs`, `TokenRegistryProofs`, `QueuePagesProofs` | theorems |

The modules meet at the code's own seams: `SendSucceeds` and `SendFails` of the
queue stand for one dialogue of `SMTPDialog` or one use of the senders in
`ChannelSettings`; `Enqueue` for the `EnqueueMessage` of `TokenRegistry` and the
`Insert` of `ProcessLifecycle`; the worker of `ProcessLifecycle` for the dispatcher
and workers of `DeliveryQueue`; `SaveChannels` of `MailDelivery` for a whole save of
`ChannelSettings`.

### State and actions against the code

`DeliveryQueue`. `status`, `attempts` and `created` are columns; `waiting` is
"next_retry_at is in the future". `ch`, `batch` (the dispatcher's loop
variable) and `closed` are the channel; `pc[w]`, `msg[w]` and `tally[w]` are a
worker's position, message and the local `attempts` of `MarkFailed`. A row that
is deleted keeps the status "deleted" in the model, because a goroutine may
still hold its id. One action is one SQL statement (or transaction), or one
channel operation, or the return of a send: `Claim` is `ClaimPendingMessages`,
`Push` and `DispatcherExit` are the two selects of `dispatch` (a select whose
cases are both ready may take either, so `Claim` and `Push` do not test
`ctxDone`), `Receive`, `DropAndExit` and `BeginSend` are the head of the loop of
`process`, `MarkSent`, `ReadAttempts` and `WriteFailed` are the statements of
`MarkSent` and `MarkFailed`, and `MarkError` is either of them returning an
error. A claim that SQLite refuses ("busy") rolls back and changes nothing.
`Deliver` is the remote side taking the message: `SendFails` may follow
it, because an error after the data (a lost answer, `client.Quit()`) is an error
of `Send`. The Retry button is rendered on failed rows only (`ViewQueue`), but the
page may be old and the UPDATE does not test the status: `RetryMessage` meets the
row in any status, also one that the process has in hand, and then two goroutines
may hold the same message, send it at the same time, and read and write its
`attempts` in any order. Nothing restricts this in any run or theorem; the
properties say what it may lead to. `tries`, `delivered`, `unheard` (answers lost
after a delivery), `unrecorded` (attempts that left no trace in the table),
`retries`, `overlaps` (Retry posts that met the row in hand), `stops` and `dbErrs`
are history: they are in no guard except as bounds.

`MessageLifecycle` ties `Resubmit` to the admin: `asked` is mapped to `retries`. A
message resubmitted while somebody holds it is `doubled` (mapped from `overlaps`),
and only for such a message may an attempt settle what is settled already.

`TokenRegistry`. `conn` and `enforces` model `database/sql`: a statement takes
an idle connection, or opens one when all are busy; `PRAGMA foreign_keys=ON` of
`New` has set the first one only; at most two stay idle. `Occupy` and `Release`
are other statements, such as the claim of the dispatcher. `bearer` is chosen at
first and does not change. `second` is history.

`AdminSessions`. A session is its cookie, and goes from "new" over "checked"
(the password was right) and "live" to "expired" and "gone". `evicting` holds
the cookies that a `ValidateSession` read as expired and deletes under its second
lock. `making[t]` follows a creation from the POST over the INSERT and the map to
the page after the redirect; `Reload` is any other `GET /tokens?new=1`.
`change[k]` is the form a `ChangePassword` has accepted and not written yet;
`Accepted` has the configured password beside the one in force, because
`checkPassword` takes a failing read for a missing row. `shownTo`, `maker` and
the field `sure` are history.

`WhatsAppLinking`. A call is a request of the UI; `pc` is where it is in
`StartLinking` or `Disconnect`. `mu` is the mutex where it is held over more
than one step, which only `Disconnect` does. What whatsmeow does is chosen:
`GetQRChannel` returns a channel or an error and nil, `Connect` and `Logout`
return with or without an error, and an open channel ends with "success"
(`Scan`), "timeout" (`Expire`), or otherwise (`Break`). `qrDone` is written and
never read, and left out.

`ChannelSettings`. The keys are those of one channel, two in the instance, each
empty or not. A request saves them in order (`SaveKey`), reads all
(`ReadSettings`; `buildSenders` ignores an error and uses the rows it got) and
installs (`SwapSenders`). A sender is the settings it was built from. A worker
copies the senders and chooses (`Choose`), then calls `Send`. The fallback to
the configuration file is the empty value; `MailConfig` has it in full. `alone`
is history.

`MailConfig` and `MailDelivery`. One key of each kind stands for its kind: texts,
the text with a list of choices, numbers, switches. A layer is a function from
the keys it has to what it says. `Load`, `applyEnvOverrides`, `buildSenders`,
`settingVal` and `Rendered` are the code's functions, with their own rules for
what is empty or malformed. `page` is the form in a browser, which may be old
when it is saved. A `Restart` may come with another file or environment.

`SMTPDialog`. `pc` is the command that comes next. A command is refused, or its
answer is lost, or it goes through. The server (`envelope`, `copies`) takes the
message for the recipients of this dialogue when the data ends, whether or not
the answer arrives.

`ProcessLifecycle`. Of each process, `main` is the place of the goroutine that
runs `main`, `sig` that of the goroutine of the signals, and `worker` stands for
the dispatcher and the workers. `StartWorker` comes before `Listen`, as in the
code: a process whose port is taken has already reset the rows and started to
deliver when `log.Fatalf` ends it. `ShutdownServer` makes `ListenAndServe` return
at once, and nobody waits for `Shutdown`: `CloseStore` may come while handlers
are between two statements (`Validate`, `Insert`). `Record` is what follows a send: `MarkSent`, `MarkFailed` (an error of
`Send`, before the remote side had the message or after it), or `MarkError` (the
UPDATE fails and is only logged; the row stays in sending, for the next start).
Four histories count the causes for which a delivery may be repeated: `cut`
(the process ended before the record), `unrecorded` (the UPDATE failed), `unheard`
(an error of `Send` after the delivery) and `stolen` (a start reset the row of a
process that was sending it).

`QueuePages`. A walk is `OpenQueue`, `List`, `NextPage` to the end, under the
filter of a status or a token; `Newest` is ORDER BY created_at DESC with its ties.
The table changes in every way the code can change a row, `Progress`: a Retry
post makes any row queued, also a sent one. The dashboard's four queries are four
steps; the errors of the last three are dropped and leave their part empty
(`LosePart`). `left`, `entered`, `slipped` and
`changed` are history: what the table did meanwhile.

## 3. The runs

| Run | Instance | What it shows |
|---|---|---|
| `queue_safety` | 2 rows, 2 workers, `max_retries` 2, 1 stop, 1 failing UPDATE, 2 Retry posts in all, 1 delete | `SingleHolder`, `SendBudget`, `DeliveriesExplained`, `StuckOnlyAfterDbError`, and the refinement `ImplementsLifecycle` |
| `queue_liveness` | 2 rows, 2 workers, `max_retries` 2, 1 stop, 1 Retry, 1 delete | `EventuallySettled` |
| `queue_one_worker` | 4 rows, 1 worker, 1 stop, rows in two different seconds | `ShutdownCompletes`, `FirstTriesInOrder` |
| `token_admin` | 3 tokens, 2 requests, 4 connections of which 3 may be busy, 1 restart | `IntactUntilOverlap` |
| `sessions` | 2 sessions, 3 tokens, 2 changes of the password, restarts | `ShownOnceToMaker`, `LostOnlyByOverwrite`, `NoSpuriousLogout`, `ReplacesWhatItProved` |
| `linking` | 3 link requests, 1 Disconnect | `OneAttempt`, `QRIsCurrent`, `WaitingUnlessLost`, `CallsReturn` |
| `settings` | 2 saves, 1 reload, 1 worker, 2 keys, 1 failing statement, 1 restart | `SendsConfigured`, `AppliedWhenAlone`, `WholeForm` |
| `mail_delivery` | up to 2 recipients, 2 attempts, 4 files, 3 environments, 2 tables, 9 edits of the form, 2 saves, 1 restart | `AllOrNone`, `EncryptedFirst`, `LaterOverridesEarlier`, `UntouchedFormKeeps` |
| `process` | 2 processes, 1 request, 3 starts, 1 kill, 1 failing UPDATE or lost answer, signals everywhere | `DrainedBeforeClose`, `ServesAlone`, `DeliveredOnce`, `HonestAnswers`, `SignalEndsProcess` |
| `pages` | all tables of up to 4 rows, pages of 2, 2 changes in between | `WalkMissesNothing`, `WalkRepeatsNothing`, `DashboardAgrees` |

Each run of a module also checks its `TypeOK`. Two runs end in a violation,
because the code does not do what a document or the schema of the repository
says:

| Run | Statement | What the code does |
|---|---|---|
| `retry_in_flight` | docs/api-reference.md:145, "queued: message accepted, waiting in queue" | `RetryMessage` puts a row back to queued whatever its status; during an attempt it is then claimed and sent a second time |
| `token_dangling` | store.go:111, `ON DELETE SET NULL` | `PRAGMA foreign_keys=ON` is set on one connection of the pool only |

### What else the models show

These are divergences that a passing property delimits: it says where they
happen and that they happen nowhere else.

* *Queue.* A Retry of a row in hand makes a second holder, and a late attempt may
  take a row from sent to queued or failed; `SingleHolder`, `DeliveriesExplained`
  and the lifecycle's `doubled` say how far this goes. A delivered message is
  delivered again after a crash or a failing UPDATE before `MarkSent`, or when the
  answer was lost; `DeliveriesExplained` says that there is no other cause. If the UPDATE after a send fails, the row says sending until the next
  start, though nobody delivers it (docs/api-reference.md:146);
  `StuckOnlyAfterDbError` says that this is the only way. `max_retries` bounds the
  attempts, the first included (store.go:357); README.md:184 calls it "Max send
  retries".
* *Tokens.* A second creation in the same session before the redirect of the
  first is followed loses the first raw token (ui/handler.go:364), although
  docs/api-reference.md:11 says that each is shown once; `LostOnlyByOverwrite`.
* *Linking.* The flag stays up, and the page without a button to disconnect,
  when `GetQRChannel` returned an error or the channel ended with an unhandled
  event (web.go:29, "true when actively waiting for QR scan");
  `WaitingUnlessLost`. After a `Disconnect` the goroutine of an unfinished linking
  may store another code (web.go:142), which web.go:88 excludes; `QRIsCurrent`.
* *Settings.* Two reloads at a time may install in the opposite order of their
  reads, after "Channel settings saved and applied." (ui/handler.go:597);
  `AppliedWhenAlone`. README.md:152 asks for a restart after a change, which the
  reload makes unnecessary.
* *The settings form.* Saved untouched, it switches off TLS that came from the
  file or the environment (settings.html:64-67 looks at the table only), and turns
  a method that is not spelled as in its list ("PLAIN") into "none";
  `UntouchedFormKeeps` says that it changes nothing else. An emptied password field
  says "Leave blank to keep current" (settings.html:56) and falls back to the
  configured password instead of the stored one.
* *Password.* Two changes at a time may both prove the password that only one of
  them replaces; a read that fails makes `checkPassword` compare with the
  configured password; both are outside `ReplacesWhatItProved`, by its condition.
  `handleChangePassword` reports every error as a wrong password.
* *Process.* A second instance resets the rows that the first is sending before
  it finds the port taken (`stolen` in `DeliveredOnce`); the other causes of a
  repeated delivery are those of the queue. A handler that is overtaken
  by the close of the store answers 401 for a database error, which
  docs/api-reference.md:138 reserves for tokens; it never answers 202 falsely
  (`HonestAnswers`).
* *Pages.* A walk misses rows when others leave the selection, share a second,
  or arrive between the count and the list; `WalkMissesNothing` and
  `WalkRepeatsNothing` name exactly these. A token that was never used has a total
  of 1 on its page ("Total Calls"): `COUNT(*)` counts the row of the LEFT JOIN;
  `DashboardAgrees` says so.
* Entries of `pendingTokens` whose session has ended are never removed. README.md
  gives port 8090 and a random secret as defaults, `Default` has 8080 and a
  constant.

### The bounds, and why they are enough

Two workers and two rows are what a conflict needs: two holders of one row, one
holder of two. Four rows and one worker are the least that fill a channel of
capacity two with one message at the worker and one at the blocked dispatcher;
this is what the mutant of `ShutdownCompletes` (a send to the channel outside
the select) needs to fail. With `max_retries` 2 there is an attempt that is
repeated and one that is the last. One stop is a crash or a shutdown anywhere,
and the recovery from it; two Retry posts meet one row twice, or two rows, with a
holder left over from the first when the second comes. `MaxClock` 1 lets rows share a second or not.
Two sessions and three tokens make one that is overwritten, one that overwrites
and one of another session; two changes of the password overlap. Three link
requests make an attempt, a successor, and one that comes while either is on.
Two keys make a half-saved form. Two addresses with doubles make a refusal
before and after an acceptance. Two saves make a page that is stale. The files,
environments and tables have, for each kind of key, a layer that is silent, one
that is empty or malformed and one that counts. Two processes are all that one
port distinguishes; three starts and a kill make a successor that finds the rows
of a predecessor which is gone, or still there, and a third that finds what they
left. One row is enough there: a worker of this module holds one row at a time,
`DeliveredOnce` and `HonestAnswers` speak of one row each, and rows meet only in
the worker; `ProcessLifecycleProofs` has them for all numbers. Four rows on pages of two make two
full pages, or one that is not full. The safety results of the passing runs do
not depend on the bounds: each of them is proved.

Bounds in guards: `MaxStops`, `MaxDbErrors`, `MaxAdminRetries`, `MaxDeletes`,
`MaxClock`, `MaxRestarts`, `MaxOverlap`, `MaxAttempts`, `MaxTo`, `MaxSaves`,
`MaxStarts`, `MaxKills`, `MaxErrors`, `MaxId`, `MaxRows`, `MaxEvents`. Five runs switch deadlock
checking off because the bounded system really stops: `queue_one_worker` (all rows
settled and the stop used), `sessions` (all sessions and creations over),
`mail_delivery` (delivered or out of attempts, and the saves used), `process` (all
starts used) and `pages` (the walk at its end).

Every property of a passing run has a mutant in `PROJECT.json`: a changed
definition, such as a claim without its UPDATE, that makes TLC find the property
violated. The mutants stand in the modules before what they change.

### Fairness

`DeliveryQueue`, weak fairness of: the dispatcher's and every worker's steps
(the Go scheduler and the ticker), `BackoffElapses` (time passes),
`ProcessExit`, and `Start` (the service definitions that the repository's README
gives restart the process: `restart: unless-stopped`, README.md:54, and
`Restart=always`, README.md:259). No fairness for arrivals, admin
actions, signals, crashes or for delivery: an attempt may fail every time. That
a worker's step is fair assumes that `Send` returns. Telegram and WhatsApp have
timeouts; SMTP has one for the dial only, so a server that stops answering in
mid-dialogue holds a worker, and shutdown with it. The liveness results are
about servers that do not.

`ProcessLifecycle`: the goroutines of a process that can run do, and a send
returns, as above. No process need be started, and no signal need come.

`WhatsAppLinking`: a request that has begun goes on, and the library's calls
return. Nothing is assumed of the phone or the QR channel.

The other modules state no fairness, and no liveness. (Expired sessions are
removed in the end because `CleanupSessions` runs every hour; no code depends on
it, as `ValidateSession` looks at the expiry itself.)

## 4. The proofs

Each theorem is about the module's specification with all values of its
constants, under the named assumptions of the module; finite sets are assumed
finite and bounds natural numbers, and nothing else is, except where said.

**`DeliveryQueueProofs`**: `TypeOK`, `SingleHolder` (with `HeldIsSending`: without
a Retry in hand the row of a held message says sending), `SendBudget`,
`DeliveriesExplained`, `StuckOnlyAfterDbError`. None of them restricts the admin
or what fails. `SingleHolder`, `SendBudget` and `DeliveriesExplained` are not
inductive: each counts what has happened and leaves out what may still happen.
`Books` adds it. It follows every row by the number of its copies that wait for a
sender, are with one, have been taken, or have failed, and says what is `Owed`: a
row that may be claimed, or that says sending with nobody to send it (to be reset
by a start), owes one more attempt. `HoldersCounted`, `DeliveriesCounted` and
`AttemptsCounted` are the three properties with these terms added, and each step
moves one unit from term to term or pays for a new one: a Retry, a lost answer, an
unrecorded outcome. Where two holders of a row overwrite each other's count,
the argument for `SendBudget` is `ShownUsedUp` and `MarkingOK`: only a row with a
Retry button can have two holders, such a row has used up its attempts, and
whatever count is lost, no write takes the column below `max_retries` again. So
`MarkFailed` never queues it once more, and each of its further attempts has a
Retry or a lost outcome of its own.

The same module proves the refinement, `Spec => ImplementsLifecycle`. Initial
states map to initial states, and each step to one step of `MessageLifecycle` or to
a stutter. `Books` gives that a message which is tried is pending, removed or
doubled (`HeldInFlight`) and that one given up was tried often enough
(`TriedBefore`); `TakenFirst` that a worker about to write "sent" saw the remote
side take the message. `StatusHonest` is drawn from the lifecycle through the
refinement: a row that says sent was taken by the remote side, and one that says
failed was tried as often as `max_retries` says; this holds of doubled messages too.

`FirstTriesInOrder` has the condition that no UPDATE has failed (a reset that
fails at a start leaves rows that were never tried behind, to be overtaken until
the next one) and is proved for one worker, as its run has one: with two, the Go
scheduler decides which of two received messages is sent first. The invariant is
`Ordered`: of two rows, the older one that was never tried is ahead of one that is
held: in a worker's hand, before it in the channel or in the batch, or in the
channel while the other is in the batch. A claim takes all due rows by
`created_at`; that it cannot leave out an older untried row is `Fresh`: what was
not tried has not failed, waits for no time, and no page offers a Retry for it.
`OvertakenOnlyInHand` says what remains for any number of workers, under the same
condition: who is overtaken is in the hands of another worker.

Of `ShutdownCompletes` all but the fairness is proved: `ShutdownNeverBlocks` (the
dispatcher closes the channel exactly when it ends, `ClosedAtTheEnd`, so once it has
ended no worker waits for a message) and `ShutdownDrains` (from then on each step of a worker
makes the channel shorter, or the way of this worker to its end). The first states guards
where one would like to say ENABLED.

**`ProcessLifecycleProofs`**: `TypeOK`, `DrainedBeforeClose`, `ServesAlone`,
`DeliveredOnce`, `HonestAnswers`. `InOrder` relates the places of the three
goroutines of a process: `main` is past `ListenAndServe` only after `Shutdown`, and
that comes after `Stop`. `Told` relates the place of a request to its row.
`DeliveredOnce` needs a tally: the deliveries of a row, plus the processes that may
still deliver it (`Pending`), plus one if the row may still be claimed (`Owed`:
queued, or in sending with no holder, to be reset by a start), are at most one plus
the four causes (`Excused`). A claim moves one from owed to pending, a delivery
from pending to delivered, and `MarkSent` leaves nothing owed. What makes one out
of nothing is counted: a process that ends after a delivery (`cut`), a record that
fails after one (`unrecorded`), an error after one that queues the row again
(`unheard`), and a reset of a row that another process holds (`stolen`).

**`AdminSessionsProofs`**: `TypeOK`, `ShownOnceToMaker`, `LostOnlyByOverwrite`,
`NoSpuriousLogout`, `ReplacesWhatItProved`. A pending token is its maker's, and
unshown (`PendingUnshown`); one that is not shown yet is pending, overwritten, or
its session is gone (`WhyUnshown`). What `evicting` holds is expired or gone, which
is why the second lock of `ValidateSession` deletes no live session. A form that is
"sure" is the only one, and what it proved is in force (`PasswordInv`).

**`MailDeliveryProofs`**: `TypeOK`, `AllOrNone`, `EncryptedFirst` for the composed
specification, from an invariant of the dialogue (`Dialog`: the envelope is
always the set of the recipients before `rcpt`, which from the data on is all of them), and
`UntouchedFormKeeps` from the lemma `UntouchedForm` about the operators of
`MailConfig` and the invariant that the installed sender is
`buildSenders(config, settings)`. `LaterOverridesEarlier` needs that the table's
switch is written as one of the two options of the form (`Switches`, from
`SwitchAssumption` for the tables and edits of the beginning): any other spelling would count as
"false" although it says nothing of the kind. `LastOpinion` then splits a setting
by the last of the four layers that has an opinion.

**`ChannelSettingsProofs`**: `TypeOK`, `SendsConfigured`, `AppliedWhenAlone`,
`WholeForm`. A worker that chose the API has a copy that can use it (`Ready`). As
long as requests come one at a time, a save has written a prefix of its form
(`Written`), and what was read is what the table says (`Fresh`).

**`WhatsAppLinkingProofs`**: `TypeOK`, `OneAttempt`, `QRIsCurrent`,
`WaitingUnlessLost`. Until somebody disconnects, a linking owns the flag from its
first step until its goroutine ends, no code is stored while it is on its way,
and from `GetDevice` on the client in use is the one it made (`Owned`).

**`TokenRegistryProofs`**: `TypeOK`, `IntactUntilOverlap`. As long as every
statement found an idle connection, the open ones enforce the foreign key
(`Enforced`).

**`QueuePagesProofs`**: `TypeOK`, `WalkMissesNothing`, `WalkRepeatsNothing`,
`DashboardAgrees`. The walk is about ranks: the rank of a row is how many rows of
the selection are newer, and page p lists the ranks from (p-1) * `PerPage` on
(`PageIsRanks`, where no two rows share a second). `Covered` is how far the pages
have come. As long as no row comes in, ranks only fall, so a row that was shown stays
among the covered ones (`Repeats`); as long as none leaves, they only rise, so what
is covered has been shown (`Misses`); and the last page covers what was counted, by
`PagesLemma`: there is a next page exactly if this one ends before the last row.
`Misses` also needs that the count is still right when the rows are listed, which is
why the property excludes a row that slips in between. For the dashboard, `Fresh`
says that every part that has been read is what the query would say now, whichever parts
are missing; the sums over hours
and tokens are then the numbers of rows by `SumOfClasses`. The sum of the community
modules is a recursive function, which is determined by its equation: `SumIs` shows
that any function of the subsets which grows by the value of an added element is that sum, with
a smallest counterexample (`WFMin`) in place of an induction.

Only model-checked: the liveness properties (`EventuallySettled`,
`ShutdownCompletes`, `CallsReturn`, `SignalEndsProcess`), because fairness and
ENABLED are out of the prover's reach. All other properties of the passing runs are
theorems.

## 5. Not modelled

* The text of a mail, the LOGIN exchange, the HTTP requests to the two APIs, the
  parsing of requests: no property is about them. The Telegram and WhatsApp
  Business senders are one call that succeeds or fails, before or after the
  remote side took the message (`SendSucceeds`, `SendFails`).
* The arithmetic of the backoff: a row waits, and then it does not, possibly at
  once; every property holds whatever `retryDelay * (1 << (attempts-1))` yields.
  With the default delay of 30 s the product leaves 64 bits with 30 failed
  attempts.
* Servers that never answer (`smtp.Client` has no deadline): the liveness results
  assume that a send returns.
* Tokens and cookies are never guessed and never repeat; hashes have no
  collisions.
* `cmd/webhook-test` (a client without state), layout, styles and scripts.

## 6. Plan

Done: every component that keeps state, the refinement, and a proof module for
each component, with every safety property of the passing runs. What remains, in
this order:

1. For `CallsReturn` and `SignalEndsProcess` what `ShutdownNeverBlocks` and
   `ShutdownDrains` are for `ShutdownCompletes`: the steps that need no fairness, as
   theorems.
2. `AdminSessions` and `ProcessLifecycle` share the requests of the UI: a form
   that arrives while the process ends.
3. A composition of `DeliveryQueue` with `SMTPDialog`: copies of a mail against
   attempts of the queue.
