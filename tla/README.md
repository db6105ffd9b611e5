# shabadoo in TLA+

A coordinator (`src/hub`), one agent per machine (`src/node`), and the Claude
sessions the agents drive through tmux. Sessions send each other mail through
the coordinator; the coordinator drives the machines by commands sent down a
stream each agent holds open. This directory models that machinery, model-checks
it on small instances with TLC, and proves the core for every instance with TLAPS.

## The system

| Part | State | Operations | What makes it hard |
|---|---|---|---|
| Agent registry (`hub/hub.go`, `hub/agentauth.go`) | `byNode`, `byToken`, `pending` under `Hub.mu`; per connection a queue, a token's expiry, when it was last heard | hello/login, stream, result, report, `Disconnect`, `Call` | every handler and every `Call` is a goroutine; a login supersedes, a stream's deferred disconnect comes late, an operator disconnects, replies race timeouts |
| Agent (`node/hoplite.go`) | token, one stream, a reauth signal, backoff | login, stream with watchdog, report every 5 s, run a command and post its result | dead tokens under live streams, sleeping hosts, half-closed proxies, coordinator restarts |
| Wake cap (`hub/cap.go`) | who works, who was just woken, who is held; a file `cap.off` | `allow`, `observe`, `clearQueued`, `queuedSince` | nudges arrive before any report shows the effect of the last |
| Nudge, stuck watcher (`hub/agentapi.go`, `hub/stuck.go`) | entries per session with mail | nudge on arrival, sweep every two minutes: retry, then tell a person | each nudge may fail silently; a sweep acts on an old list; several tenants share one watcher |
| Message store (`hub/store.go`) | SQLite rows: messages, deliveries | send, broadcast, drain, trim, vacuum | a send is three statements; a drain acknowledges before its reader has it |
| Tasks (`hub/task.go`, `hub/taskwatch.go`) | rows, chase entries | create, update, notices, hourly sweep, pages | read, write and notice are not atomic; rows change while they are paged |
| Devices (`hub/identity.go`) | memory and database copies, one-time codes, throttle | enrol, redeem, revoke, restart | memory and database disagree when one step fails |
| Releases (`hub/release.go`, `node/upgrade.go`, `update.go`) | published files, index, manifest; binaries on a node | publish, prune, upgrade, update, install a tool set, roll out | several renames, any of which may fail, commands that cut into one another |
| Sessions and the live view (`hub/store.go`, `hub/waitingage.go`, `hub/blocked.go`, `hub/events.go`) | what agents report, waiting rows, blocked entries, streams | replace, reconcile, raise, stream | late reports, signals that coalesce, notifications that fail |
| Windows (`launch.go`, `win.go`, `ops.go`, `watch.go`, `core.go`, `deactivate.go`) | tmux windows, folders closed on purpose | open, close, reopen, boot, watch, keep | several openers and one observer that guesses intent |
| Typing (`tmux/tmux.go`, `ops.go`) | a pane's input line | nudge, send, command | another program's screen, a person's keys |
| Setup (`setup.go`, `service.go`, `payload.go`, `uninstall.go`) | binary, units, payload files, backups, Caddyfile | setup, re-run, agent's start, uninstall | steps that fail half way, other writers |
| Transcripts and logs (`claudelog`, `hub/missionlog.go`, `static/index.html`) | files that grow, cursors, cached totals | summarise, tail, poll, page back | lines half written, seconds shared |
| Everything else | | | command line, configuration, parsing, dashboard: sequential text and I/O |

Agents talk to the coordinator by HTTP requests under a bearer token and one
server-sent-event stream; parts of the coordinator share `Hub.mu`, the store, and
the smaller mutexes of the cap and the watchers; watchers are called from report
handlers (cap, blocked) or tickers (stuck, tasks). `PROJECT.json` lists every
part, what is modelled of it, and the hazards with the properties that watch them.

## Modules

- `RemoteCall` is what a caller of `Hub.Call` may rely on: a command takes effect
  at most once, "answered" means it has, "offline" and "queue full" mean it never
  will, and a dropped connection or a timeout promise nothing.
- `AgentHub` is the coordinator's agent plane. A step is what one goroutine does
  between two releases of `Hub.mu`, or at one channel operation: `Verify` and
  `Register` are `handleLogin`, `OpenStream` to `StreamUnlink` are `handleStream`
  with its deferred `disconnect` (`Close` is its end, outside the mutex),
  `KickLookup`/`KickUnlink` are `Disconnect`, `CheckProtocol` to `Return` are
  `Call`, `PostResult`/`DeliverResult` are `handleResult`. Agents and the network
  may do anything an authorised node can: log in at any time, break a stream, lose
  a command or a reply.
- `AgentPlane` extends `AgentHub` with the agents: `Client.Run`, `login`,
  `stream`, the watchdog, the report loop and `credentialRejected`. A request of an
  agent is one step with the handler's step that answers it. Restarts, lost
  logins, stalls, half-closed streams, expired tokens and the operator are faults,
  counted up to `MaxFaults`.
- `Wake` is the nudge, the cap and the stuck watcher over sessions with mail. A
  nudge passes `Gate` (up to `allow`), `ClearQueued` and `Deliver`; a sweep takes a
  tenant's list (`Look`), visits one session at a time (`PassOver`, `Retry`,
  `Notify`), replaces the watcher's map (`EndObserve`) and sends alarms (`Post`).
- `Mailbox` is what senders and sessions may rely on of mail: a copy (a message for
  one session) is read at most once, what has been taken, shed or has expired never
  waits again, "ok" means every copy was put, "error" means nothing.
- `Inbox` is the message tables and their users, a step per SQL statement or
  transaction: `Begin` to `Finish`/`Fail` are `agentSend`/`agentBroadcast` over
  `insertMessage`, `fanOut` and `trim`; `Ask`, `Show`, `GiveUp` are the hook
  `shabadoo inbox`, whose `Drain` is one transaction; `Vacuum` is `Store.Vacuum`
  with the foreign key's cascade. A sender that retries after an error sends a new
  message, so "at most once" is of messages, not of what their senders meant.
- `Credentials` is what an operator and a device may rely on of a device's
  credential: what the device was told it holds it holds until then, through any
  restart; it ends early only by a revocation; what has ended stays ended; but a
  revocation may turn out to have suspended it until the coordinator's next start.
- `Devices` is `DeviceStore` and the handlers over it, a step per hold of its mutex:
  `Mint`, then `CheckThrottle`, `RedeemCode`/`RedeemRefused` and `AnswerRedeem` for
  `POST /api/devices/redeem`, `Identify` and then `Renew` or `SetPushToken` for a
  device's own requests, `AskRevoke` and `Revoke` for the operator's, and `Restart`,
  which loads the table. Every write to the database may fail, and then changes
  nothing. What a device was told is set as its credential is stored: an answer lost
  on the way leaves a device that nobody holds the token of.
- `Tasks` is the rows of `task.go`, the handlers that write them and the sweep of
  `taskwatch.go`. `CreateTask` is one handler; an update is `ReadBefore` (or
  `ReadBeforeFails`, whose error the handler drops), `WriteRow`, `ReadBack` and
  `TellAsker`, a statement each; a sweep lists a tenant (`ListTenant`), compares
  (`Observe`) and sends (`SendMention`). `Restart` loses what the watcher has seen.
- `Releases` is the coordinator's published builds: `Upload`, `MoveIn`, `Enter`,
  `Prune`, `WriteManifest`, and the start that loads the manifest. `Upgrade` extends it
  with the hosts: a command is a goroutine that goes through `Fetch`, `Verify`,
  `DropPrev`, `LinkPrev`, `Swap` and `Exit` (an agent's upgrade and `update`), or
  `StagePart`, `MoveAside` and `MovePart` for each file of a tool's set; and with the
  rollout of `shabadoo upgrade` (`CallNode` to `Confirmed`/`GiveUp`).
- `Windows` is one host's tmux: what opens a window (`CheckOpen`, `KillOld`,
  `NewWindow`, `Settle`), boot (`BootStarts`, `BootComesTo`), the agent's look
  (`TakeLook`) and what it concludes (`Observe`: the watcher of windows that are gone
  and the core keeper).
- `LiveView` is what a report does after it is authenticated: `Post`, `Take` (the
  handler's `now`, which becomes `last_seen` of what it lists), `Store` (with
  `reconcileWaiting`, one transaction), `ObserveBlocked`, `Notify`, and a browser's
  stream of `/api/events` (`Subscribe`, `Wake`, `Drain`, `ReadView`, `ReadAges`: the
  sessions and the ages of their blockers are two queries, with reports in between). A
  report its node has given up goes on as `Late`. Of seconds the model keeps what is
  compared: `after` says of a report that calls a blocker done whether its second is later
  than that of the row, or of another report under way that will write it.
- `Composer` is a pane somebody types into through tmux: `LookToNudge`/`Guard`,
  `Clear`, `Type`, `Await`, `Enter`, `Restore`, `Dismiss`, each one call of tmux, while
  the program reads (`Read`) and draws (`Draw`) when it likes and a person presses keys.
- `Install` is one host's files and services: the steps of `setup` in `Order`, the
  payload's files one at a time (`Look`, `Backup`, `Write`), units (`WriteUnit`,
  `LoadUnit`), services that end of themselves and may come back (`Exits`, `Returns`), the
  Caddyfile, the agent's own `AgentStarts`, `uninstall`, and people and agents changing
  the same files. `systemctl enable` is taken to reload units of itself, as its manual
  says: `daemon-reload` is run only when a unit's file has changed.
- `Transcript` is a transcript being written, the totals folded from it (`Stat`,
  `Summarize`) and the chat tab (`AskTail`, `AskNew`, `AskOlder`, answered by
  `FirstPaint`, `Poll`, `Older`; `Reset`). `Paging` is the pages of tasks (`FirstPage`,
  `HistoryPage`, `ChangesPage`, `Stamp`) and of the merged mission log (`LogPage`) while
  both are written: a task with the second its handler began at (`WriteTask`), which may
  be over when the row commits, and lines that may be the same in one log or in two.
- `AgentHubProofs`, `InboxProofs`, `DevicesProofs`, `NudgeProofs` (of `Wake` and
  `Composer`), `UpgradeProofs`, `TasksProofs`, `HostProofs` (of `Windows` and `Install`)
  and `ViewProofs` (of `LiveView`, `Paging` and `Transcript`) hold the theorems.
  `MC*` instantiate modules; `MCReading` runs `Transcript` and `Paging` side by side, one
  reader to a behaviour.

Abstractions: a connection stands for its token (random, so it names it); clocks
are reduced to the threshold a value has passed (`recent`, `expired`, `working`,
`nudged`, `age`, `quiet`, `raised`) except where a property is about seconds (`Inbox`,
`Devices`, `Releases`, `Install`, `Paging`); payloads, operations and message texts are
left out; a key's challenge and signature are one accepted login; the agent's choice
among keys is whether it holds an authorised one. Of ListSessions, `Wake` keeps undrained
mail, the dialog and the agent's presence. A build, a text of a file and a release's sum
are numbers or records that name them; a record of a transcript is a line of three bytes.
Each definition marked "(The fault: ...)" is a plausible bug that is not part of the
model: with it in place of the definition below it, the property named in `PROJECT.json`
fails. A property that is stated and in no run is one the code does not keep; it is
under "Known divergences".

## Runs

| Run | Checks | Instance |
|---|---|---|
| `hub` | `PendingExact`, `RegistryConsistent`, `UnlinkedIsClosed`, `CommandsReachTarget`, `CallsAreHonest` (implements `RemoteCall`) | 2 nodes, 2 connections, 2 pane commands, queues of 1 |
| `agent_plane` | `NodeSettles` (liveness) | 1 node, 2 connections reused, the operator, 3 faults |
| `wake` | `NoHerd`, `AlarmIsLastResort`, `StuckMailIsChased` (liveness) | 1 session with mail, another that fills the cap of 1, 1 fault |
| `inbox` | `BacklogBounded`, `ShedsOldest`, `DeliversOnce` (implements `Mailbox`) | 2 messages to any of 2 sessions, 2 hooks on one of them, cap 1, TTL 1, time 0..1 |
| `devices` | `OneDevicePerCode`, `GuessesBounded`, `KeepsItsWord` (implements `Credentials`) | 2 devices, 2 codes, 2 redeem requests of 1 client, 1 device request, 1 operator request, limit 1, TTL 1, time 0..2 |
| `tasks` | `EndToldOnce`, `OneMentionPerSpell`, `QuietWorkIsRaised` (liveness) | 2 tasks of one asker, one with an assignee that never reports, 2 updates at once, 1 fault |
| `upgrade` | `ListedIsFetchable`, `BinaryStarts`, `ToolsRecoverable`, `NodeComesBack` (liveness) | 1 node, 2 publishers, 2 commands at once, 3 requests, 1 version kept, 1 fault |
| `windows` | `LaunchFailureIsNotClose`, `LostTmuxClosesNothing`, `CoreComesBack` (liveness) | the core folder and another, boot, keeper, 1 operator; 1 close or failed launch, 2 commands, 1 lost server, 1 cut |
| `live_view` | `IdleScreenIsCurrent`, `OnlyItsProjectResolves`, `RaisedOncePerRepeat`, `PromptIsRaised` (liveness) | 2 nodes, one of which changes once from any window, 1 browser, 1 fault |
| `composer` | `SeenIsSubmitted`, `NudgeKeepsDraft` | 2 operations at once, a row of 1 word, 1 key or dialog by hand |
| `install` | `ServiceIsCurrent`, `RerunChangesNothing`, `ReplacedIsBackedUp`, `UninstallIsComplete` | 2 runs, 2 builds, 1 file, 2 host names, 1 edit, 1 fault, time 0..2 |
| `reading` | `SummaryIsExact`, `NothingIsSkipped`, `HistoryIsExact`, `TailCatchesUp`, `LogIsExact` | 2 transcripts of 3 records, pages of 1; 3 tasks, 2 writes of each, 2 seconds; 6 log lines of 2 nodes, some the same |

Bounds. Two connections are a connection and its successor, and the proofs cover
any number; a queue of one is full as soon as it holds a command; two commands
contend for it. `Conn` is used up in `AgentHub` (a login takes a fresh one), so
`hub` may stop and does not check deadlock; `AgentPlane` gives
connections back (`Collect`) and checks it. Three faults are what it takes to stall
a stream, expire the token of its successor and restart on top. In `Wake`, a limit
of one is filled by one session; `MaxCalls` bounds the nudges under way when
another starts, `MaxFaults` outages, dialogs, failed reads and alarms, and uses of
`cap.off`; `Recipient` keeps the other session to loading the cap; `Watching` is
whether the stuck watcher is enabled, which needs a notifier. In `Inbox` two messages
overflow a cap of one,
two hooks race for one session while the other only accumulates, and one tick is
enough for mail to expire, be vacuumed and be older than other mail; each message
is sent once, so the run stops and does not check deadlock. In `Devices` a second
code and a second device are what a reused code or a wrong entry needs, two requests
race past a throttle of one, and three instants let a credential be renewed, run out,
and be loaded at the very second it ends, where `Identify` still admits it and
`LoadDevices` does not. A code's five minutes and the throttle's fifteen are ends that
may come at any time (`CodeExpires`, `WindowEnds`). In `Tasks` two updates cross on one
task while the other only ages, which is what being carried from list to list and
being forgotten needs; the list limit of two lets both in. In `Upgrade` one version is
kept, so a second publication prunes the first; the builds published include one that
does not run and one of another tool, three requests are an upgrade that meets another
and an install, and the fault is a crash, a step that breaks or a restart of the
coordinator. In `Windows` any number of looks fall into a launch, for a new session
reports at once (`hoplite.go:525`); one launch that dies is what its property is about, and
the second command opens a window beside it (with two it passes too, in 835,000 states). In
`LiveView`
the second node is what a watcher that forgets others' entries needs; with any window to
begin with, one change is enough for a prompt, or a blocker, to come or to go, and the one
fault gives up a report whose handler goes on. In `Composer` one event is one person's key, dialog or a
failed call anywhere. In `Install` the second run is the re-run, the update or the
uninstall; builds are older and newer than a file edited by hand. In `Transcript` a
page of one turn and three records make a page boundary at either side of a record, and
`MaxScan` of seven bytes cuts one in two. In `Paging` three rows in two seconds share
one, and a handler that began in the first may write in the second; of six lines one is
undated, two of one log are equal, and two logs have two in common. Symmetry is used in
safety runs only, over connections, messages, hooks, devices, codes, requests, jobs, host
names, transcripts, and over nodes where they are treated alike.

Fairness. In `AgentPlane`: agents' and handlers' goroutines go on, the backoff is
at most a minute, reports and watchdogs tick; nothing is assumed of the network, of
the coordinator noticing a hang-up, of silence, or of the operator. One assumption is
the network's: a hello or login request ends in an answer or an error, since the
client sets no deadline on it (`hoplite.go:150`) and relies on TCP to give up. In
`Wake`: the sweep's ticker ticks, goroutines run, thresholds pass and the
notifier's call ends; whether a nudge or an alarm works is never assumed. In `Tasks`: the
maintenance ticker, the sweep's own goroutine and the repeat's hours; no update ever
need come. In `Upgrade`: a goroutine goes on, the rollout's polls are answered or time
out, and the service manager starts what exits non-zero. In `Windows`: openers and boot
go on, the agent reports every few seconds and backoffs pass; nobody need open or
close anything. In `LiveView`, of the nodes whose windows change: they reconnect and
report on a timer, handlers go on, thresholds pass; windows need not change, browsers need not come and a
notification need not work more often than faults are bounded.

Every module that models code has a type invariant. That of `AgentPlane` was checked in
the same instance, and is left out of its configuration; all others are proved.

## What the checks show

The registry, the calls and the reconnection logic do what they say: whatever
interleaves, a disconnect removes only its own connection, what is unlinked is closed,
and a node settles after any three faults. A command whose target is checked for pane
support (`RequireProtocol`) is looked up again in a second section, so a node that
downgrades in between gets it; the model has that window and no property claims
otherwise.

The cap binds for the wakes it gates (`NoHerd`), a person is told only after a
retry (`AlarmIsLastResort`), and no mail stays unnoticed for ever, if a session the cap
holds counts as accounted for.

The message store keeps its promises through every interleaving tried and, by the
proofs, all others: what a crash costs is mail, never work done twice, and one trim by
any sender repairs a backlog that dead senders left over the cap. `ShedsOldest` holds
by the stamp a sender's handler took at its start, so a send that was overtaken can
be shed by the mail that overtook it. `trim` counts expired mail too, but that is older
than any live mail and goes first.

A device's credential is what it was told, whatever write fails and whenever the
coordinator restarts, and the throttle lets through one guess more per request under
way, no more.

The end of a task is told, also when updates cross on it, unless a send or an answer
fails or it was reopened under an update that had read its end; and it is told once, unless
two updates crossed (`raced`) or the first read of one failed, whose error the handler
drops (`misread`). Work that stays quiet is raised again and again, once in a `taskRepeat`;
after a restart of the coordinator once more, for its watcher starts with nothing seen
(`forgotten`).

No published build, whatever its name and sum, takes a node out for good: what is swapped
in has run, and a crash between any two steps leaves a binary that starts. A set of
another tool's files is not atomic, but no file of it is lost. What the coordinator lists
it can serve, as long as one machine publishes a tool for a platform and no restart cut
a publication off before its pruning (the history variable `overstock`).

A launch that fails in a folder the agent did not know to be running is taken for a
decision to close it only if two looks found claude running first, which two reports within
one launch may do; a lost tmux server is not, at least until another window is opened; and
the core session comes back unless a launch that was cut short left a window of its name
behind.

A browser that waits shows what is stored, although a frame is read in two queries, and
one that was read across a report lists a blocker without its age until the next. A
blocker is resolved only by a report of its project that calls it done, and no report that
began before the last one that lists it does so: `last_seen` is compared by the handler's
second, so what is left is a given-up report whose handler begins after its successor's. A
prompt that stays is raised although a notification counts
as sent before it is.

What a sender saw on the input row it submits, as a line of its own, however the program
reads; a nudge gives a draft back when the row shows all of it and nobody else touches
the pane.

Setup that reports success leaves nothing old running, also after one that failed half
way: each service runs what was installed, or did and has ended of itself, of which setup
warns on Linux and no more. What it replaces is backed up; uninstall that reports success leaves nothing running.

Totals, pages and tails of what is being written are exact, but for the cases the
properties name.

## Known divergences

These properties are stated in the modules, from what the code or a doc says, and TLC
finds each violated. They are in no run.

| Property | The code | What happens |
|---|---|---|
| `AgentHub!RevocationIsComplete` | `hub.go:757` | A login verified just before its key is removed registers just after `Disconnect`, whose comment says "immediate and complete" (`:751`). |
| `Wake!HoldsAreReleased` | `stuck.go:135` | The retry that "releases the hold when a slot frees" (`:75`) is made once; a session the cap holds at that moment stays held, its alarm suppressed. |
| `Wake!StuckMailIsChased` with two tenants | `stuck.go:168` | Each tenant's pass replaces the whole map, so with two no entry ever ages. The task watcher does the same (`taskwatch.go:93`). |
| `Wake!HandedWorkIsGated` | `agentapi.go:654` | Handed work, documented as gated (`cap.go:52`), is labelled as a person's. |
| `Devices!RetryRevokes` | `identity.go:612` | After a failed delete the log says "retry the revoke"; the retry is answered "unknown device". |
| `Tasks!NeverToldTwice` | `agentapi.go:680` | The error of the first read is dropped, and the zero task it leaves has not ended: a "done" that is repeated is told twice. So are two that cross. |
| `Tasks!NeverUntold` | `agentapi.go:690` | An update that read the end before another reopened the task, and ends it again, tells nobody. |
| `Tasks!NeverNags` | `taskwatch.go:49` | The watcher's map is in memory: after a restart what was raised an hour ago is raised again, against "one reminder per interval". |
| `Tasks!StoppedAskerIsWarned` | `agentapi.go:710` | The core is asked only when the asker's address resolves to nothing; one whose id is precise takes mail although it is stopped. |
| `Tasks!QuietWorkIsRaised` with more tasks than `ListLimit` | `task.go:144`, `taskwatch.go:152` | The sweep sees the hundred tasks touched last: the longest quiet are the first it no longer lists. |
| `Upgrade!NewestIsOurs` | `release.go:279` | `Latest` looks at the platform only: the newest may be another tool's, and the upgrade then finds nothing to fetch or another file. |
| `Upgrade!EachConfirmedFirst` | `cli.go:2141` | A node that is not back in time is passed over with a message, and the next is touched. |
| `Windows!FailureIsNeverClose` | `hoplite.go:525` | A session of the agent's reports at once when it begins, and a slow report leaves a tick behind it, so two looks may fall into the 4 s of a launch (`launch.go:289`), and its failure is then taken for a close. So is that of a folder known to be running that is opened again and fails. |
| `Windows!LostTmuxIsNotIntent` | `watch.go:80` | After the server is lost one new window is enough: the report is not empty, and all the others are taken for closed. |
| `Windows!AlwaysRunning` | `core.go:75` | A launch cut short leaves a dead pane of the core's name, and every later try finds a window of that name and opens none. |
| `LiveView!ReadersAgree` | `store.go:1328` | Ages are read in a query of their own, so a list and an age index can disagree for a frame, against `store.go:1276`. |
| `LiveView!NeverResolvedStanding` | `waitingage.go:103` | A report its node gave up, and whose handler takes its second after the one that lists the blocker again, records it as resolved. |
| `Composer!DraftIsPutBack` | `tmux.go:902` | A draft longer than the row comes back cut off. |
| `Composer!NudgeNeverAnswers` | `ops.go:203` | A dialog that opens between the look and the keys gets the Enter. |
| `Install!ServiceRuns` | `service.go:418` | A service that exits at its start is warned of, and "active" and "setup complete" follow; launchd is not asked at all. |
| `Install!ShorthandGoes` | `uninstall.go:106` | The binary goes first; the link is then looked for through `os.Stat`, which finds nothing at a dangling link. |
| `Install!TheirsStays` | `uninstall.go:101` | A file named `shaba` that is not ours goes too. |
| `Install!ProjectsStay` | `uninstall.go:143` | A purge keeps the project of the current host name only. |
| `Transcript!ConversationsStayApart` | `index.html:2273` | A page of another transcript is appended, against `docs/mobile-client.md:744`. |
| `Transcript!ResetIsOfEverything` | `index.html:2250` | A request under way survives a reset of the tab, and its answer is appended. |
| `Transcript!HalfWrittenIsShown` | `events.go:269` | A record that is half written when the tail is taken is passed over for good. |
| `Paging!NothingIsShadowed` | `agentapi.go:617`, `agentapi.go:677`, `task.go:241` | A row carries the second at which its handler began: one that commits after the tail has passed that second never reaches it, nor does one written in the cursor's own second with a smaller id. |
| `Paging!TwinsAreRead` | `missionlog.go:162` | Of two equal lines, of one log or of two projects (of one node or of two), one may be lost at a page's boundary. |

Met while modelling, and not a property: after a restart that cut a publication off before
its pruning, a build published again can lose its file to the pruning of another tool's
publication (`release.go:238`), and is listed without it until the next start; a person's own message nudges nobody
(`human.go:917`), its first wake is the watcher's; an empty poll keeps the cursor,
contrary to `events.go:127`; an empty history page's `next` restarts at the top;
`taskEnds`' `oldest` is the row created last (`task.go:307`); a mission log lists as
missing only nodes that were online and failed; `uninstall` warns of a marker nobody
writes (`uninstall.go:118`); backups are named by the second, so the second of two in
one overwrites the first. Mail to a name that is ambiguous among running sessions goes to
the one stopped project it matches (`agentapi.go:121`), where `store.go:489` wants an
error rather than a guess; and a running session that matches in part is preferred to a
stopped project of exactly that name. The hold is truncated and then written
(`hold.go`), so that a drain in between sees none.

## What is proved

`AgentHubProofs` proves for all constants satisfying `HubAssumption`:
`TypesCorrect`, `RegistryCorrect`, `UnlinkedClosed`, `CommandsRouted`,
`PendingCorrect` (each `Spec => []` the invariant of that name's run) and
`CallsHonest` (`Spec => CallsAreHonest`, the refinement of `RemoteCall`). All rest on
`Invariance`, `Spec => []Inv`, with

- `RegistryInv`: types, and the registry relation strengthened by what each stage of
  a login and of a stream implies for the maps: a connection is registered for its
  owner only, a fresh one is nowhere, a stream or a pending kick is of a connection
  past `Register`. `RegistryConsistent` alone is not inductive: a disconnect of a
  connection whose owner is unknown would break it.
- `RouteInv`: what is queued, written or posted was put there by a call that holds
  that connection, and that connection is its target's.
- `CallInv`: each command is in at most one place (queue, wire, results or run), and
  its position agrees with how far its `Call` has come; this is what makes "refused
  means never" and "at most once" inductive.
- `PendingExact`, which is inductive given the types.

One lemma per part says the next-state relation preserves it, by one case per
action.

`InboxProofs` proves for all constants satisfying `InboxAssumption` (finitely many
messages; any cap, TTL and bound on time): `TypesCorrect`, `BacklogCorrect`,
`ShedsCorrect` and `DeliveredOnce` (`Spec => DeliversOnce`, the refinement of
`Mailbox`). `Invariance` adds to the types

- `SendsPut`: what a send has put is what it resolved less what it has yet to do;
- `CopyInv`: a copy is in one place, a row, one hook's reply or the screen. Without
  it two hooks' replies might share a copy, and "at most once" is not inductive.

`BacklogBounded` is inductive given the types: an insert adds one to both sides, a
trim leaves at most `Cap`. `StatusIs` reads a copy's abstract state off the
invariant, and `RefinementStep` maps each step to `Mailbox`.

`DevicesProofs` proves for all constants satisfying `DevicesAssumption` (finitely
many redeem requests at once; any limit, TTL and bound on time): `TypesCorrect`,
`OneDevice`, `GuessesCorrect` and `WordKept` (`Spec => KeepsItsWord`, the refinement
of `Credentials`). `Invariance` adds to the types

- `AllAgree`: an entry in memory is in the table too, and one in the table is what the
  device was told. It is what makes a restart harmless, and is why each write goes to
  the table before memory;
- `CodesUsed`: a code that enrolled a device is gone, without which
  `OneDevicePerCode` is not inductive.

`GuessesBounded` is inductive given the types: a check that passes finds fewer
failures than the limit, and an answer turns a try into a failure or clears both.

`NudgeProofs` proves of `Wake`, for all constants satisfying `WakeAssumption` (any sessions, tenants,
limit and bounds, watching or not): `TypeCorrect`, `NoHerdEver` (`Spec => NoHerd`) and
`AlarmAfterRetry` (`Spec => AlarmIsLastResort`). `NoHerd` needs only the types: a wake
that passes the gate found fewer at work than the limit and adds one. An alarm needs

- `EntryInv`: only a session with an entry has an age, and an alarm that is due is of an
  entry the pass under way keeps. Without it a session might be old before it was ever
  retried, or be told of after its entry was dropped.

Of `Composer`, for all constants satisfying `ComposerAssumption` (any operations on the
pane, of any kinds, any drafts and any width of the row): `ComposerTypes`,
`SeenMeansSubmitted` (`SeenIsSubmitted`) and `DraftSurvivesNudge` (`NudgeKeepsDraft`).
`ComposerInv` says of an operation that looked at a pane at rest and has shared it with
nobody since

- `Pane`: of the keys that its stage says it has pressed, the program has read the first
  so many and the others, in their order, are all there is in the pty; what the line holds
  follows from how many were read and whether the Enter came alone. While it types the
  input line has the keyboard, and a nudge's draft is the row it found. That reading goes
  from one such state to another, however many keys it takes at once (`ReadsTyping`), is
  an argument over the keys in turn (`KeyTakes`, `Counting`).
- `Seen`: a text that was not on the line before and is on the screen has been read, so
  that nothing is in the pty and the line is the text; then the Enter comes alone, and
  while it waits no menu is drawn that the operator's Escape would answer. Without it an
  Enter might come in one read with a text that was seen earlier.

Both were checked by TLC on the instance of `composer.cfg`, with drafts longer than the
row as well.

`UpgradeProofs` proves for all constants satisfying the assumptions of `Releases` and
`Upgrade` (any nodes, builds, publishers, parts of a tool and commands):
`UpgradeTypeCorrect`, `BinaryAlwaysStarts` and `ToolsStayRecoverable` (`Spec =>
ToolsRecoverable`). The invariant is the types, `BinaryStarts` and

- `UploadInv`: a build is known from the first step of its upload on, so that no index
  ever names a file nobody sent;
- `JobInv`: a command that is past its check of the staged file has a file that ran on the
  node it is for. Without it a swap might put anything in place, and `BinaryStarts` is not
  inductive.

`ToolsRecoverable` is an action property and needs only the types: a part is moved aside
before another takes its place, whatever the other commands do in between.

`ListedIsThere` (`Spec => []ListedIsFetchable`) assumes `OnePublisher`: no two machines
publish one tool for one platform. Its invariant `FetchInv` says of a store that no start
has overfilled that every entry has its file, that the versions of a set fit what pruning
keeps unless its publisher has yet to prune it, and that a file moved in is there until it
is entered: a pruning that cuts in between is of another set, whose versions it counts,
and what fits is left alone. The run's publishers satisfy the hypothesis.

`ViewProofs` proves, of `LiveView`, for all constants satisfying `LiveViewAssumption` (any
nodes, browsers and views): `ViewTypeCorrect`, `IdleScreenCurrent`, `ProjectResolves` and
`RaisedOnce`. `Inv` adds to the types

- `BehindInv` and `AgesInv`: a stream that is behind is about to read, has a signal, will
  be sent one, or failed to read; and one that lists a blocker without its age is behind, or
  has yet to read the ages of rows that are still there. `IdleScreenIsCurrent` speaks of idle
  streams only and is not inductive: a stream may fall behind between its two queries, and
  what saves it is the signal that is already in its channel.
- `ListedInv`: rows and outstanding blockers are written together.
- `SinceInv` and `StoodInv`: while a blocker stands since the report that listed it last,
  neither its host nor its node's own report calls it done. What is left to resolve it is a
  report that was given up, and `last_seen` keeps back those whose second is not later.
- `RaisedInv`: what counts as raised has an entry that was just told of, so an entry that
  is due is not among it.

`TasksProofs` proves for all constants satisfying `TasksAssumption`: `TasksTypeCorrect`,
`EndTold` (`EndToldOnce`) and, where there is one tenant and its list has room for every
task (`WholeList`), `OneMention` (`OneMentionPerSpell`). Beyond that the property is false
of the code, as "Known divergences" says: entries are forgotten. Restarts are part of both:
they drop updates under way (`untold`) and the watcher's entries (`forgotten`).

- `CleanInv`: an ended task was told of or an update owes the notice, and an open one has no
  update that takes it for ended (`LeastTask`, where no notice failed and nothing was reopened
  under an update); where none crossed and no first read failed, at most one update has
  written and those that only read have read what is there (`MostTask`). `EndToldOnce`
  speaks of tasks with no update under way only.
- `MentionInv`: what is quiet and was raised since the last restart is in the next list,
  hence keeps its entry.
  It relates the sweep's snapshots to the rows as they are by then.

`HostProofs` proves, of `Windows`, for all constants satisfying `WindowsAssumption`:
`WindowsTypeCorrect`, `LostTmuxStays` (`WindowsSpec => LostTmuxClosesNothing`) and
`FailedLaunchStays` (`WindowsSpec => LaunchFailureIsNotClose`), with any number of looks in
a launch. Both are action properties, about the one step that marks a folder (`Observe`),
and neither window nor look alone says why that step is innocent:

- `FailureInv`: of a folder that was launched unknown, what the last look or the one under
  way found running is counted in `looked`, both of them twice, and no look that found it
  dead, or not at all, is before one that found it running.
- `LostInv`: once the server is lost there is no window, and a look under way shows the
  lost folder or nothing at all.

Of `Install`, for all constants satisfying `InstallAssumption` (any builds, files, texts,
plans and bounds): `InstallTypeCorrect`, `NothingIsOverwritten` (`ReplacedIsBackedUp`),
`UninstallLeavesNothing`, `ServicesAreCurrent` and `SetupIsIdempotent`
(`RerunChangesNothing`). `InstallTyped` adds to the types where a command and an installer
may be: an installer of setup is at work only in its `config` step, of the command's
build; units are written before they are loaded. On it rest

- `BackedInv`: a backup is there from the step that takes it to the one that replaces the
  file, not only after; another backup of the second is the only thing that undoes it.
- `UninstallInv`: a unit outlives its process, also one that has ended and may be started
  again, so that what has no unit has no process, and units are removed only after they
  were stopped. The property speaks of the end of an
  uninstall, and would not be inductive.
- `ServicesSound`: the same of a setup inside its `service` step: units written so far say
  what was asked, processes loaded so far are of this binary, or were when they ended of themselves; and from there to the end
  nobody but somebody else changes them.
- `RerunInv`: what each step of setup leaves (`Has`), for the steps a setup has passed
  (`HasDone`) and for the part of a step it is in (`StepHolds`): of the payload, each file
  that is no longer ahead of it has its text. A command run again starts with all of it,
  and each step then finds what it would do done.

The rest of `ViewProofs` is about pages, of any length, of what grows under their reader.
A page is a sequence in order that is cut off: `LeastNatural` (the numbers of a set have a
least, from the well-foundedness of `<`) gives an induction over numbers and over finite
sets, and with it `OneMore` and `Listing`: every finite set has a sequence of its elements
in a given order, so the models' `CHOOSE` of one finds it.

Of `Paging`, for all constants satisfying `PagingAssumption` (finitely many tasks and lines; any clock): `PageTypesAreKept`, `HistoriesAreExact` (`HistoryIsExact`),
`TailsCatchUp` (`TailCatchesUp`) and `LogsAreExact` (`LogIsExact`). The properties speak of
a client that has come to the end; `PageInv` says on the way there where each row is.

- `HistoryInv`: history has come in order and its cursor stands on its last row, so
  nothing that is before the cursor was shown; what was there at the first page was shown,
  or is before the cursor of a history that has not ended.
- `TailInv`: of the rows not written in a shadow, the client has the last writing, or
  history will bring it, or it is beyond the tail's cursor; the last possibility goes with
  a page that was not clamped. It needs that no row is dated later than the clock, though
  one may be dated earlier.
- `LogInv`: the same of the log's one cursor.

Of `Transcript`, for all constants satisfying `TranscriptAssumption` (any transcripts,
callers, lengths, page size and scan limit): `TranscriptTypesAreKept`, `SummariesAreExact`
(`SummaryIsExact`) and `TabsMissNothing` (`NothingIsSkipped`). `TranscriptInv` adds

- `SummaryInv`: where scanning stopped is within the file, so that the next scan's count
  and the one that is kept are of parts that do not overlap (`CountGoesOn`).
- `ScreenInv`: a turn that can be read is on the screen, or starts at the cursor or later,
  or is above all that is shown and, while there is more, ends by where the page before
  begins. `NothingIsSkipped` says no more than that nothing lies between two turns shown,
  which the next page up might break. A cursor one byte into a line is that of the record
  torn at the first paint, or the rest of that line would be a turn nobody is shown.
- `TabInv`: a tab that was reset while it waited shows nothing yet, which is why a page of
  older turns can be told from one that comes too late.

Not proved: liveness and `ENABLED` (out of the prover's reach), so `NodeSettles`,
`StuckMailIsChased`, `QuietWorkIsRaised`, `NodeComesBack`, `CoreComesBack` and
`PromptIsRaised` are model-checked only. Every other property of a run is stated by a
theorem.

## Not modelled

- The rate limiter and the hold: one critical section and one file's presence.
- The command line, the dashboard's other tabs, QR codes, configuration, missions' and
  todos' parsing: sequential text by one process, without state that outlives it.
- `ResolveSession`'s prefixes and broadcast scopes: pure functions over one list.
- The CI watcher and the voice agent: calls to outside services.
- The local socket and `mcp`: a relay that adds a token. It reads `Client.token` without
  a lock while login writes it (`socket.go:185`), a race on a Go string.
- Reports that overwrite newer rows (`hub.go:706`) until the next comes; two writers of
  the manifest, of the list of closed folders or of one staging name of `installTool` at
  once: each is one step in the model, and named in it.
- hello and login without an answer, which park `Run` for good: TCP is assumed to give up.
