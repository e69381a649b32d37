# A TLA+ verification of ssh-logger

ssh-logger records what happens in SSH sessions.  An agent on each host turns
the Linux audit log into events, keeps them in a SQLite spool and posts them
every second to one central server; the server stores them, keeps a registry of
sessions, hands out commands (end this session, apply this firewall policy) in
the answer to each batch, and serves a console to administrators.

This directory holds TLA+ models of that system, TLC configurations that check
them on small instances, and proofs that TLAPS checks for every instance.
`PROJECT.json` is the index: components, runs, the source lines behind every
definition, the hazards the properties are for, the mutants that show each
property can fail, the findings and the theorems.

## 1. Inventory

| Component | Source | State | Operations | Model |
|---|---|---|---|---|
| Audit log collector | `agent/spool.go` 151-268, `agent/parser.go` | checkpoint: inode, offset, boot, dropped | stat, find the rotated file, read a chunk, group, commit | `Collector` |
| Disk spool | `agent/spool.go` 30-150, 270-310 | `queue`, `checkpoint`, `firewall_cache` tables | commit, batch, ack, restart | `Delivery` (queue), `Firewall` (cache) |
| Delivery loop | `agent/main.go` 60-199 | memory of one thread: results, policy, backoff | tick, send, answer, errors | `Delivery`, `Sessions`, `Firewall` |
| Ingest | `server/api.go` 350-520 | `events`, `sessions`, `servers`, `server_control` ... | one transaction per batch | `Delivery`, `Sessions`, `Firewall` |
| Sessions and termination | `server/termination.go`, `agent/termination.go` | `session_terminations`, pidfds | ask, deliver, kill, report, expire | `Sessions` |
| Firewall policy | `server/firewall.go`, `agent/firewall.go` | `firewall_policies`, `firewall_history`, nftables table | change, deliver, save, apply, report, revoke | `Firewall` |
| Tokens and revocation | `server/api.go` 300-345 | `servers.token_hash`, `revoked_at` | rotate, revoke | `Delivery`, `Firewall`, `Sessions` |
| Accounts and roles | `server/accounts.go`, `server/permissions.go` | `admins`, `admin_roles`, `admin_servers`, `auth_sessions` | create, delete, access, password, login, logout | `Accounts` |
| Passkeys | `server/passkeys.go` | `passkeys`, `account_auth`, `auth_pending`, `auth_limits` | begin and finish of four ceremonies, reset | `Accounts` |
| Retention | `server/store.go` | ages of rows | cleanup on a ticker, settings | `Delivery`, `Sessions` |
| SSH access page of the console | `web/src/Firewall.tsx` | React state and refs | poll, change, select a server, type settings, page the history | `FirewallPage` |
| Administrator list of the console | `web/src/AccountSettings.tsx` | list, dialogs | load, create, delete, edit access | `AccountPage` |
| Passkey panel of the console | `web/src/Passkeys.tsx` | keys, dialog, request under way | load, add, delete, disable | `PasskeyPanel` |
| Session dialog of the console | `web/src/main.tsx` 131-135, 244-280 | selected session, page, mode, table | choose, answer | `SessionDetail` |
| Workspace of the console | `web/src/main.tsx`, `web/src/Login.tsx` | login, view, filter, tables, servers, issued token | log in and out, navigate, poll, register, rotate, revoke | `Workspace` |
| Console queries, routing, static files | `server/api.go`, `server/activity.go` | none | read-only SQL | not modelled |
| Migrations, backup, restore | `server/migrations.go`, `server/restore.go`, `scripts/` | files | offline procedures | not modelled |
| Redaction and parsing | `internal/model`, `agent/parser.go` | none | string functions | which records make an event only |
| Deployment scripts | `deploy/`, `install.sh` | host files | shell | what `deploy/update-agent.sh` does to the agent (`Firewall!Reinstall`) only |

How they interact.  The agent is one goroutine: `collect` then at most one
delivery per tick, so nothing else touches the spool between `batch` and `ack`.
Agent and server share nothing but HTTP exchanges, which may be lost before or
after they are processed, time out, and arrive late, behind newer ones.  The
server runs each handler in a goroutine of its own, but all writes are SQLite
transactions on one connection: a transaction is one step, what a handler reads
*before* its transaction may be stale in it.  The three parts of the ingest
transaction touch disjoint tables, so each has a module of its own; the token
check is repeated in each.  The console is one React program in the browser.  It
talks to the server by requests alone; its pages share the login and the list of
servers, and otherwise keep state of their own, which they forget when the
operator leaves them.  Its hazard is time: between a request and its answer, and
between the handler that sets a state and the effect that reacts to it, anything
else may happen.

What is hard here, and hard to test: the agent dying between any two of collect,
send, answer, execute, save, nft and ack; answers that are lost after the commit
and requests that arrive after newer ones; audit numbers that start over at each
boot; rotation, truncation and reboot between two looks at the log; results for
a revision or a request that has been replaced; authentication before, and the
transaction after, another request's transaction; retention deleting what a
redelivery brings back; answers of polls that were asked before a change, of
effects that have been cleaned up and of logins that are over.  `PROJECT.json` lists each hazard at its line with the
properties that watch it.

What makes each component correct:

- collector: no group of records is skipped without the counter saying so, and
  reading never stalls;
- spool and delivery: an event passed by the checkpoint is queued, recorded
  or counted; a row leaves the queue only after the commit; the queue respects
  its limit; everything held is recorded in the end;
- sessions: an ended row is true and stays ended; a success is true; a kill hits
  only the session that was asked for; a session that is gone ends up not shown;
- firewall: "applied" means the kernel holds exactly that policy; no old table
  comes back; the server never gives an old agent an allowlist to open, and the way
  back to an old agent that the README of the repository describes leaves it none; a
  revoked host is left open; a policy reaches the kernel;
- accounts: there is always a super admin; nothing outlives a deleted account;
  no session or ceremony outlives a change of the credentials it began with;
- console: what a page offers to act on is the answer to the current question and
  not older than what the operator was told; what a dialog shows is what it sends
  and what it announces is what happens; and once all is quiet each page shows
  the truth and can be used.

## 2. Modules

| Module | Models | Composes |
|---|---|---|
| `AuditTrail` | what delivery promises for an event: unseen, held, lost (and counted at that moment) or recorded | abstract |
| `AccessPolicy` | what the access policy of a server promises: the table wanted and the kernel's, what the console is told, and when the server is closed to changes | abstract |
| `SessionRegister` | what the register of sessions promises: lives, what is shown of them, requests and their answers | abstract |
| `Delivery` | spool transaction, loop, network, ingest, tokens, retention of events | refines `AuditTrail` |
| `Collector` | `collect` next to a log writer that rotates, truncates and reboots | its result is `Delivery!Collect`'s chunk and gap |
| `Sessions` | registry, termination requests and their execution, retention | network and loop as in `Delivery`; refines `SessionRegister` |
| `Firewall` | policy revisions, agent's cache and table, reports, revocation guard | network and loop as in `Delivery`; refines `AccessPolicy` |
| `Accounts` | accounts, login sessions, passkey ceremonies | - |
| `Console` | what the pages have in common: the servers and null | - |
| `FirewallPage` | the SSH access page next to the server's policies, the agents' reports and other administrators | - |
| `AccountPage` | the administrator list, loaded once and patched afterwards | - |
| `PasskeyPanel` | the passkey panel, its three-request changes, other tabs and browsers | - |
| `SessionDetail` | the session dialog and the effect that fills it | - |
| `ConsolePages` | the four pages, of which the operator visits one | `FirewallPage`, `AccountPage`, `PasskeyPanel`, `SessionDetail` |
| `Workspace` | login, menu, filters, polling effect, servers and tokens | - |
| `..._proofs` | theorems about the module of that name; `ConsolePages_proofs` about four pages and their composition | extend their module |
| `MC...` | the instances TLC checks | extend their module |

How state corresponds to the code.  A variable stands for a table column, a
field of an agent structure, a file or the kernel object its comment names;
variables marked *history* or *ghost* (`collected`, `everStored`, `watched`,
`excused`, `enforced`, `forgotten`, `mine`, the `hash` and `mfa` of a session) record what happened
and no action reads them to decide anything, except where a comment says how
they stand for something the code does know: `Delivery!Collect` uses
`collected` to tell a re-read chunk from a new one.  `pc` is the position of the
agent's single thread.  `wire` is the one exchange the agent waits for; `late`
holds requests it has given up on that may still arrive, in any order, or never.

How actions correspond to the code.  A SQLite transaction is one action, because
the server opens one connection (`store.go:30`) and every write goes through it.
The exception is the spool's commit, which is a step per event and a last one,
so that its limit and its counter are checked as they evolve and a crash falls
between any two.  An HTTP handler that reads before its transaction is two
actions (`Accounts!Submit` and the action named for the handler).  Errors are
separate actions (`...Fails`, `Reject...`, `Refuse`), always with the state
change of the code's error path.  In the console a request is asked, answered by
the server, and handled by the page in three steps (`...phase`); a failed one may
take two.  A handler runs to its next `await` in one step, React batches its state
changes, and the effects they cause run some time later (`ReRun`, `EffectReRun`),
after the handlers of other answers perhaps; before an event of the operator React
runs the effects that are due, so a click sets the state and runs the effect in one
step.  An `alive` flag that the cleanup of an effect clears is modelled as such in
`SessionDetail`; where only the live run can change anything, a module keeps that run
(`poll`, `load`, `listed`) and drops the others.  A definition called *Mutant of X* is a form of
X with a plausible bug.  No specification uses it; it documents which mistake a
property notices, and `PROJECT.json` pairs the two.

Abstractions worth knowing.

- An event, an address, a passkey or a server is a model value.  A password hash
  or a token is some number nothing refers to (`Fresh`), since the code draws them
  at random.
- `Sessions` reduces times to the facts the code derives from them (fresh,
  expired, past the cutoff); agent and server clocks are taken as synchronised,
  as the README of the repository asks.  Its `Cleanup` deletes all that is past
  the cutoff: the batches of 1000 rows only delay that.
- `Sessions!MayPost` lets any session event be lost, which is what a full queue
  or a gap does.  `Collector` and `Delivery` say when that happens.
- `Firewall` leaves out ports, names, protected addresses and the disconnect
  option.  Renaming an allowed address is an `AllowIP` of one that is present; a
  change of ports alone is an `UnbanIP` of one that is absent: each makes a
  new revision of the same content.
- `Accounts` leaves out the failure limit per client address and the filter on
  revoked servers; it keeps the limit per account and purpose.
- `Firewall!Reinstall` is `deploy/update-agent.sh`, which puts any binary in place
  of the agent's and keeps its spool, or a host set up anew, which has none.  A binary
  from before allowlists does not know their fields: it reads its cache without them
  (`Restart`, `Plain`) and opens the table.  `forgotten` is the history of that.
- `Collector` has records instead of bytes; a line is never cut.  A line of more than
  1 MiB, for which each tick fails with an error (`spool.go:222`), is not among the
  records, and neither is `--from-start` (`spool.go:163`), which no unit sets.
- In the console the contents of a table are the question it answers; passwords,
  names and texts are left out, and a form that fails its own validation does
  nothing.  The server side of a page is what that page can tell: `AccountPage` has
  accounts without sessions, `PasskeyPanel` one account's keys, `FirewallPage` the
  policies of `Firewall` without the agent's disk.  Each says in its heading what
  it leaves out.
- `FirewallPage` has no bans: the page offers allowed addresses only, and `legacy`
  stands for a policy from before them.

## 3. Runs

| Run | Question | Bounds |
|---|---|---|
| `delivery_spool` | Does any interleaving of commit, crash, lost answer, late request and failed ack lose an event uncounted, overfill the queue, acknowledge too early or leave `AuditTrail`? | three events, of which a batch holds one large or two small ones, a queue that holds the large one and one other, one late request, one gap |
| `delivery_live` | Is every held event recorded in the end, also the one behind an event whose batches the server refuses for its time, and after a rotated token?  Do expired events go?  Does a gap end in a warning that stays? | scene *clock*: two events, which the queue may hold together, one stamped in the server's future, one token rotation, three clock values, two retention periods; scene *gap*: one event that is always dropped, one late request |
| `collector_rotate` | Is a group skipped without a count, does the position move back without one, does reading stall? | a three-part group closed by EOE, a two-part one without, chunks of four records, two rotations, one truncation, two boots |
| `sessions_retention` | Are an end, a success and an answer true and final while rows, events and requests are deleted under late and repeated deliveries?  Does anything from before a success, a list of active sessions or a redelivered start, open the row of its session again? | one session, one request, one late request, all four kinds of times may pass the cutoff |
| `sessions_boot` | Does a request ever reach the session of another boot with the same number?  Does a session that is gone stay shown?  Is what the tables say what `SessionRegister` allows? | two sessions, two boots, one request, none late |
| `firewall_apply` | Does an old table come back, does a late result rewrite the history, is "applied" ever wrong, can a server be revoked with rules left on it?  May an old binary take the place of the agent, over its cache or without it, and who loses an allowlist then?  Is it all what `AccessPolicy` allows? | three revisions of two modes; scene *late*: a current agent that keeps its cache, one late request, one reboot; scene *versions*: agents of both versions, set up anew or over the cache, nft there or installed later, no late request and no reboot |
| `firewall_live` | Does the policy reach the kernel, whatever failed and whatever older agents left? | scene *repair*: two revisions, agents of both versions replacing each other over the cache or without it, one reboot, no bans, no revocation |
| `accounts` | Do overlapping requests remove the last super admin, delete without right, or leave a session with old credentials?  Does anything outlive a change of keys or a deletion? | two accounts; scene *roles*: two requests between authentication and transaction, one server; scene *keys*: two passkeys (symmetric), one ceremony per account, one request, versions adding up to four, one failure allowed and only for the account that can be deleted |
| `console_pages` | Does a page ever show, offer, send or announce what is not so?  Does the SSH access page come back to the truth after it was disabled? | two servers, of which one may be changed once and leave the list; one other account and two servers to assign; three keys; two sessions, two pages, two requests on the network |
| `workspace` | Does a late answer fill the wrong table, do the settings open for a plain administrator, does the console come to show the truth? | one server; scene *tables*: two logins, of either role; scene *tokens*: one login, with registration, rotation and revocation |
| `collector_stall`, `workspace_token` | counterexamples, see *Findings* | three groups; as `workspace` |

Why the bounds are enough. The hazards need at most: two requests in
the network at a time (one current, one late); two events in the queue, one
of them refused; two owners of one number; a revision before,
the current one and one after; a second account for each request to race with; a
file that is behind, one that is current and one that is new; on a page, one
answer that is too old and one that is new; a last key, one more, and one to add.
A scene is a part of a module's behaviours chosen at the start and kept (`scene`
of the MC modules): it says which of the independent sources of change are
awake, so that one run covers several small corners instead of their product. A
scene's next-state relation lists the module's actions one by one, so that TLC's
coverage counts each of them; every one is taken. `SpoolSpec` of `MCDelivery` is
`Spec` without the steps its one token and its one clock value never enable.
Counters are bounded where the code has none (`Max...`), and every bound is a guard
named in the module (`Failing` bounds whose authentications may fail, `Unsteady`
which servers leave the list). `Cap`, `Limit`, `Chunk`, `BatchMax`, `CleanupMax` and
`PageSize` are the code's own limits made small, so that they are met.

Larger instances were checked once, without a run of their own because of their
time: `AccountPage` with two other accounts and one server, `FirewallPage` with both
servers leaving and coming back, `SessionDetail` with three requests on the network,
and the safety properties of `Workspace` without scenes for two logins.  All held.

The two collector runs set `CHECK_DEADLOCK FALSE`: with a finite supply of records
a collector whose faults are used up may have nothing left to do. Symmetry is used
for the passkeys of `accounts` only, which are compared for equality alone, in a run
without liveness.

Fairness, and why the code justifies it.

- The agent's loop is a `time.Tick` of a second with a back-off of at most a
  minute, and systemd restarts the process: `Send`, `Collect`, `Restart` happen
  again and again (weak, or strong where a crash in between disables them).
- The network, the disk and nft fail now and then but not for ever: strong
  fairness of the success (`IngestCurrent`, `SendSucceeds`, `CommitDone`, `Ack`,
  `Read`, `Save`, `Apply`).  Nothing is assumed about `RejectCurrent` or the
  failures, so any finite number of them is explored.
- Clocks advance (`Tick`, `Lapse`, `Age`), cleanup is on a ticker, and the operator
  installs the token the console showed (`InstallToken`): without that delivery
  stops, which is what rotation is for.
- `Firewall` also assumes that a save and an nft transaction succeed at some time
  while a policy is new (`SF(Save /\ disk # Known(cached))`): an agent that dies between
  every answer and its save makes no progress.
- The browser runs the effects, timers and handlers it has scheduled (weak), and
  every request is answered or fails, because a connection that brings no answer
  ends (weak).  A poll is repeated every five seconds, so it is answered
  again and again although not each time (strong: `AnswerPoll`, and `PollAnswered`
  where the answer may be that the login is over).
- Nothing is assumed about administrators, `Revoke`, `Cleanup` of sessions, logins
  or the host.  `AccessPageConverges` and `WorkspaceConverges` speak of behaviours in
  which these rest at last (`Settled`), because a page cannot come to rest under an
  operator who clicks for ever.

## 4. Proofs

Every invariant and every action property of the passing runs is a theorem of the
specification the runs check on a small instance, and so is each of the three
refinements.  The theorems hold for every value of the constants that satisfies the
named assumption of the module; where a theorem needs more, it says so.  Each module
has an invariant that one step cannot break (`IInv`), since the properties alone are
not inductive.  `AckOnlyCommitted`, `NoOldRules` and `RevokedIsOpen` are theorems of
their own; the runs check them as part of the refinement that implies them.

### Delivery (`Delivery_proofs`, from `DeliveryAssumption`)

- `TypeCorrect`: `[]TypeOK`;
- `NoUncountedLoss`: `[]LossIsCounted`;
- `RequestsBacked`: `[]RequestsAreBackedUp`;
- `AckAfterCommit`: a row leaves the queue only after the commit;
- `QueueBounded`: `[]QueueWithinLimit`, and `QueueMovesOn`: `[]NeverBlocked`;
- `DeliveryImplementsAuditTrail`: `Spec => Trail!Spec`.

`LossIsCounted` speaks of the committed checkpoint, but the loss happens inside an
open transaction: `TxCountsLost` says its counter is already ahead by what it
passed and did not keep, `TxKeepsRows` that it never removes a row.  An ack is safe
because of what happened two messages ago: `WireMatchesSent` ties the batch the
agent remembers to the request on the wire and, once the answer is positive, to
the central store.  `RequestsBackedUp` closes the loop for requests that arrive
after the agent has forgotten them.  `NextIInv` has one step per action; lemmas
for quiet steps of the agent and of the server carry most of them.  The
refinement maps an event to *recorded*, *held*, *lost* or *unseen* and the gap
counter to `dropped`; `CommitDone` is `Observe`, an ingest is `Record`, and every
other action stutters, `Ack` because of `AckAfterCommit`'s argument.

The bytes of the queue are a sum over a set, defined by a fold.  Its laws (nothing
weighs nothing; adding an event adds its size; a part weighs no more than the whole)
are derived from the definition of the fold by taking a smallest set that breaks the
law, which a well-founded relation on the finite sets has.  `QueueInv` says of the
committed queue and of the open transaction that rowids are distinct and the bytes are
within the limit: the comparison in `commit` keeps it for each row, and a rollback
returns to the committed one.  For `NeverBlocked`, the largest prefix of the queue in
the order of rowids that fits is a batch; of two batches one contains the other, and
the larger has the next row, which the smaller left out only because it did not fit;
and one row alone always fits, whatever its size, which is why the oldest is in it.

### Collector (`Collector_proofs`, from `CollectorAssumption`)

- `TypeCorrect`: `[]TypeOK`, and `NoRewind`: `NoUncountedRewind`, for every set of
  faults of the log's writer;
- `NothingLostSilently`: `[]NoSilentGap` when the writer is `Ordinary`: it has none of
  the faults, except that an inode may be used again (`reuse`) where logrotate keeps at
  least one old file.  `collector_rotate` checks the instance without faults; section
  5 says how each of the others breaks the property, so the hypothesis cannot be
  weakened further.

`NoRewind` needs only what collect has decided before it opens the file (`LookFits`):
it starts from the saved checkpoint, or has counted a gap already.

`NoSilentGap` is not inductive in three ways.  It speaks of complete groups, but the
checkpoint passes records of groups that are not: `Accounted` says the same of
everything written of a group, complete or not (`AllAhead`).  Whether a group is ahead
depends on where its records are: in one file and one after the other (`Layout`), with
an unfinished group last (`OpenIsLast`).  And a step of collect acts on what it saw
before: without a race, the log is still that (`LookIsFresh`).  The step that matters
is `Read`.  It holds back a group that may still grow, so if it goes beyond any record
of a group, then that group is closed by its EOE record, or it is old, hence complete,
and not cut off by the end of the chunk; as its records are in one piece, the pass has
seen all of them (`PassYields`), and the event comes out.  A rotation happens only
while the current file is the one being read, so what is ahead is in it and moves with
it, and as the file stays, no new one gets its inode; a truncation is seen in its
length; a reboot and a lost file are counted.  `Min` is a least element by well-founded
induction on the naturals (`LeastIn`).

### Sessions (`Sessions_proofs`, from `SessionsAssumption`)

- `TypeCorrect`, `TablesTrue`: `[]TablesAreTrue`, `EndsStay`: `NeverReopened`,
  `AnswersStand`: `AnswerIsFinal`, `OnlyAskedDie`: `KillsOnlyAsked`;
- `SuccessesEnd`: `[]SucceededIsEnded`, with retention as well.  The property is about
  sessions none of whose times is past the cutoff (`Recent`): a row that was deleted
  may be made again by a redelivered start.
- `SessionsImplementRegister`: `Spec => Register!Spec`, with retention as well.

What the tables say is true because whatever may still reach them is.
`EventsAreReal`, `ResultsAreTrue` and `CommandsAreKnown` say of every event and result
in the outbox, on the wire, in an abandoned request, or in the agent's memory that
it has happened, or belongs to a request that was made; `RowsAreReal` and
`CommandsAreReal` that a row or a request is of a session that has begun.
`NumbersUnique` is what the kernel guarantees: an audit number is given once per boot;
with it `KillsOnlyAsked` follows from the guard of the kill.  `RowsStay` is the
strengthening for `SuccessesEnd`.

The refinement forgets the outbox, the exchanges, the clocks and the agent's memory.
An ingest is `Record`: a row is made, ended or left alone, and each answer in the
batch settles its request or is ignored, a success together with its row.  A kill is
`Kill` because the command names a session that was asked for; of a session that is
gone already it stutters.  `Cleanup` is `Forget`.  TLC checks it in `sessions_boot`,
where nothing is old enough to be forgotten; the theorem covers that too.

### Firewall (`Firewall_proofs`, from `FirewallAssumption`)

- `TypeCorrect`, `ReportsAreTrue`: `[]ReportedIsEnforced`, `RevokedStaysOpen`:
  `[]RevokedIsOpen`, `NoOldTable`: `NoOldRules`, `AllowlistStays`: `AllowlistNotOpened`,
  `RevertAfterConfirmation`: `RevertIsSafe`, `OldHistoryStays`: `OldHistoryIsFinal`;
- `FirewallImplementsAccessPolicy`: `Spec => Access!Spec`.

A revision is one policy, given out in order.  `HeldIsSound` says of every policy the
agent may still install (its memory, its disk, an answer under way) that it is the
server's policy or older, never older than what the table has held, and empty if the
server is revoked.  That an old agent has no allowlist cannot be part of it: such an
agent may be put in place over the cache of a new one.  What it reads there is the
policy without its allowlist (`Matches`), and its revision is entered in `forgotten`;
`MemoryIsSound` says that the agent goes by an allowlist it does not know only in that
case.  So `AllowlistNotOpened` and `ReportedIsEnforced` except the revisions in
`forgotten`, and `RevertIsSafe` says when there are none: if a policy without an
allowlist was reported applied, the table has held it, everything the agent holds is
at least as new, and so the cache, which is written before the table (`TableIsSaved`),
has no allowlist.
`TableIsSound` says the same of the kernel's table, `ReportsAreSound` of every
result that may still be delivered: a success is of a revision the table has held.
Since the table is the newest it has ever been, a success for the current revision
means that the table is exactly the policy, or was until a reboot emptied it or an old
agent opened it.

The refinement forgets memory, disk, messages and history.  A change by an
administrator, and the first contact of a host, are `Change`; the nft transaction is
`Install`, whose conditions are `HeldIsSound`; a reboot is `Lose`; an old agent's start over
the cache of an allowlist is `Forget`, after which `Install` may open that revision
(`RestartIsForget`); an ingest is `Tell`, whose condition is `ReportsAreSound`; and `Revoke` is `Close`, because the
guard of `changeToken` asks for an applied policy that blocks nobody.  Everything else
stutters.

### Accounts (`Accounts_proofs`, from `AccountsAssumption`)

- `TypeCorrect`, `SuperRemains`: `[]AtLeastOneSuper`, `CredentialsCurrent`:
  `[]CredentialsAreCurrent`, `SecondFactor`: `[]MfaEnforced`, `FailuresBounded`:
  `[]FailuresWithinLimit`, `DeletionIsAuthorised`: `DeletedBySuper`,
  `KeyChangeEndsSessions`: `KeyChangeRevokes`.

The properties are inductive together, with two facts added: a token belongs to one
session (`TokensUnique`), and an account without a version row has no ceremony
(`CeremonyHasRow`), so that the version `loadPasskeyUser` starts from cannot outdate one.
What a request found before its transaction is not in the invariant at all: it is
checked again in the transaction, and the proof shows that this is enough.

### Console

The proofs about the console follow one pattern: a property of what is shown holds
because of what is known of the request whose answer will be shown next.

- `Workspace_proofs` (from `ParameterAssumption`): `NoOlderTableShown` and
  `SettingsStaySuper`, with the types.  Unless the effect is due to run again, its
  live run asks for the current view, filter and login, and a table that is
  neither loading nor failed holds its answer (`PollInv`).  That the settings stay
  closed needs more: a demotion is noticed only by the view a poll was asked
  in, so whenever the settings are open the live poll is theirs (`SettingsInv`),
  also across the end of one login and the begin of the next (`EntryInv`).
- `FirewallPage_proofs` (from `ParameterAssumption`): `NoOlderPolicyShown`,
  `ConfirmedIsSent`, `TypingIsSafe` and the types.  A poll that a change has made
  `outdated` is not applied, and any other holds a policy at least as new as
  what was acknowledged (`ShownInv`); the change under way belongs to the open
  dialog, which belongs to the selected server (`DialogInv`).
- `ConsolePages_proofs` has the other three pages and the composition.
  `OwnChangesStay` (no assumption): nothing of the operator but new accounts is in a
  list that is loading (`LoadInv`), a dialog about an account is open on a loaded list
  that has it (`ModalInv`), and the request under way is that dialog's (`PutInv`).
  `LogoutIsAnnounced` (from `PasskeyAssumption`: finitely many keys, and `None` is
  none of the records it stands beside): a panel that
  could know the keys knows them unless its own change is unread (`KnownInv`), the
  list never loads behind a dialog (`DialogInv`), and only an addition registers a
  key (`StepInv`); then what the dialog announced from the keys it had is what
  the server decides from the keys it has, `LastKey` being the arithmetic of it.
  `DialogShowsSelected` (from `DetailAssumption`): of all runs of the effect only the
  last is alive, and it asked for what is selected (`LiveIsSelected`), unless the
  selection was taken away, and then nothing is selected (`StaleIsGone`).
  `ConsoleIsHonest` has all six properties together in the console the run
  `console_pages` checks; that a behaviour of the console is one of each page
  (lemma `PagesAreIndependent`) is how the composition is made.

### Only model-checked

- Liveness under fairness, which is out of the prover's reach: `HeldIsRecorded`,
  `RetentionIsEnforced`, `GapWarningSticks`, `CatchesUp`, `GoneIsNotShownActive`,
  `PolicyConverges`, `AccessPageConverges`, `WorkspaceConverges`.

## 5. Findings

- `collector_stall`: a group that is both the first and the last of a chunk and
  still open is replayed from the same offset for ever; the comment at
  `agent/spool.go:250` promises that it continues next tick.

- `workspace_token`: a poll that the server answered before a registration and
  the page applies after it holds a list without the new server, and
  `main.tsx:203` takes the new token away with it.  The token is shown once; the
  operator has to rotate it.  `tests/browser/server-management.spec.ts:32` says
  that a refresh keeps an issued token; the test refreshes with a later list.

Two further disagreements have no run of their own.

A log truncated in place that grows back
to the saved offset before the next tick is read on from that offset; the part
before it is skipped and not counted, although `README.md:222` names copytruncate
among the cases that increase the counter.  With `regrow` in `Faults` of
`CollectorRotate.cfg` TLC shows it.

The form that creates an account can be opened and sent while the list is still
loading.  If the server answered `GET /admins` before it made the account and the page
applies that answer after it has appended the row (`AccountSettings.tsx:241`),
`setAdmins(rows)` (`AccountSettings.tsx:43`) takes the row away, below the notice that
the account was made, and nothing loads the list again.
`tests/browser/dashboard.spec.ts:127-128` expects the row with the notice; the test
opens the form right after the page and is as a rule slower than the list.  With
`CreatedIsListed` among the invariants of `ConsolePages.cfg` TLC shows it.
`OwnChangesShown` therefore asks for a new account only if the list was loaded when
it was made (`loaded`).

`Collector!Faults` names further behaviours of the log's writer that the passing
run excludes because each breaks `NoSilentGap`: `overrun` (a second rotation before
the first rotated file is read to its end: the file in between is never read),
`race` (rotation between the stat and the open of one collect), `split` (rotation
between two records of one event) and, with a chunk shorter than the log,
`interleave` (an old group of which the chunk holds only the first record) and `slow`
(records of one event more than three seconds apart).  Adding one to `Faults` in
`CollectorRotate.cfg` shows it.  `reuse` (the inode of a deleted log is given to the
new one) breaks it only with `Keep = 1`, where a rotation deletes the file being
read; otherwise it is harmless, as TLC shows and `NothingLostSilently` proves.

## 6. Not modelled, and the plan

Done: delivery with its refinement; collector; sessions; firewall; accounts and
passkeys; the console's pages and workspace; the abstract specifications
`AuditTrail`, `SessionRegister` and `AccessPolicy`; and the proofs of section 4.  Next,
the most important first:

1. what is lost, at most, under the faults that break `NoSilentGap`: which groups, and how
   many, for each of them;
2. the `INSERT ... SELECT` of `requestTermination` that depends on a login session,
   which joins `Accounts` and `Sessions`;
3. the operator's own account in `AccountPage`, and forced termination and the
   retention form in `Workspace`.

What can go wrong in the console and no property is about, each a matter of one
stale look that the next load repairs:

- an account that another administrator deletes after the list was loaded, and the
  operator creates again, is listed twice (`AccountSettings.tsx:241`), once with its
  older access; `AccountPage` has both rows, and `OwnChangesShown` asks of a creation only
  that the new one is there.  The editor opens on either, saving replaces both;
- the access editor works on a copy made when it was opened (`AccountSettings.tsx:510`):
  the last of two administrators wins, without a warning;
- after a lost answer, or a change in another tab, the passkey panel announces
  from keys that are no longer registered (`Passkeys.tsx:52`); `AnnouncedLogout`
  excludes both (`known`);
- a poll asked before a revocation or a termination shows the rows again for up to
  five seconds (`main.tsx:463`, `main.tsx:1047`);
- the 401 of a request from an earlier login ends the one that follows
  (`main.tsx:73`); `Workspace` has it as `LateAnswer`;
- the answer to a registration that arrives after a logout leaves its token in the
  emptied page (`main.tsx:903`); nobody is logged in to see it, and `ApplyPoll` of
  the next login drops it if the server is not in its list;
- the retention settings are fetched without the `alive` check of the other reads
  (`main.tsx:238`);
- `navigate` clears an error that is still true (`main.tsx:326`), and the `finally` of
  a logout clears the `busy` of another action (`main.tsx:641`).

Left out for good: parsing, redaction and hex decoding of audit records (string
functions without state), read-only queries, static files, cookies and HTTP
routing, markup, WebAuthn cryptography (a nondeterministic verdict in `Accounts`
and `PasskeyPanel`), schema migrations and the offline restore (each runs alone,
with the server stopped; a crash in the middle of `server/restore.go` is listed among
the hazards), and the shell scripts, of which only the effect of `update-agent.sh` on
an agent's version and spool matters (`Firewall!Reinstall`).
