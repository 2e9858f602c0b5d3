# MeteorCloud: formal model

TLA+ models of the parts of MeteorCloud whose correctness depends on what runs
at the same time, in which order, and what fails in between, with TLC instances
that check them and TLAPS proofs of the results that hold for any number of
devices, tokens, sessions and organizations.

Source references are to `platform/backend/app/modules` unless said otherwise.

## The system

MeteorCloud is a control plane for edge devices: a FastAPI backend over
PostgreSQL, an MQTT broker whose authentication and authorization the backend
answers, a Redis instance for rate limits, a device agent (`agent-example`), an
installer and a web frontend.

| Component | State | Operations | Talks to |
| --- | --- | --- | --- |
| Device identity (`fleet/identity.py`, `fleet/repository.py`) | none | normalise an inventory, find the candidate rows, decide create / update / refuse | devices table |
| Devices (`fleet/service.py`, `fleet/registration.py`, `fleet/dependencies.py`) | `devices` rows: identity, organization, enabled, credential and MQTT hashes, last heartbeat | enable, disable, rotate, revoke, delete, heartbeat, rename | every path below |
| Token registration (`fleet/registration.py`) | `registration_tokens` rows: cap, use count, expiry, revocation | create, revoke, register a machine | devices, identity |
| Enrollment (`fleet/enrollment.py`) | API keys, enrollment requests: status, expiry, claim time, device | create and revoke keys, submit, check, approve, reject, poll (expire or claim) | devices, identity |
| Catalogue (`fleet/service.py`) | device types and groups | create, rename, delete | devices |
| Ping (`mqtt/service.py`) | `device_commands` rows | send, wait, apply a result, time out | MQTT client, agent |
| MQTT client (`mqtt/broker.py`) | readiness, pending SUBACKs, watch counts | connect, subscribe, watch, unwatch, publish, dispatch | broker, hub, ping, status |
| Event hub (`mqtt/hub.py`, `mqtt/topics.py`) | recent events, subscriber queues | publish, subscribe with replay | MQTT client, event streams (`fleet/router.py`) |
| MQTT authentication and ACL (`mqtt/service.py`, `mqtt/acl.py`) | none | authenticate a client, allow or refuse a topic | devices, broker |
| MQTT status (`mqtt/service.py`) | `mqtt_status` of a device | apply a status message | broker, device rows |
| Organizations (`organizations/service.py`) | organizations, memberships with roles | create, rename, delete, add, change role, remove, leave | identity |
| Rate limiting (`fleet/rate_limit.py`) | counters per key and window, in Redis or in memory | hit | every agent endpoint |
| Agent secrets (`agent-example/edge_agent/persist.py`) | token file, MQTT files, staging directory | save, recover, read | agent commands |
| Agent command line (`agent-example/meteorcli/cli.py`) | `config.json`, stored claim, stored credential, registration token file | register, request-token, claim, config, run | enrollment, registration, secrets |
| Agent MQTT session (`agent-example/edge_agent/mqtt.py`) | connection, last will | start, reconnect, stop, answer commands, mqtt-test, mqtt-listen | broker |
| Heartbeat loop, connectivity (`agent-example/edge_agent/heartbeat.py`, `fleet/status.py`) | interval, backoff; derived status | beat, back off | devices |
| Installer (`installer/edge_installer`) | lock file, state file, terraform variables | apply, upgrade, destroy, plan | terraform, ansible |

Every backend request runs in a database session of its own
(`core/database.py:21-33`): autoflush is off, objects stay as they were read
(`expire_on_commit=False`, identity map), PostgreSQL runs at READ COMMITTED, and
a flush writes only the columns that changed. No row is locked. That is where
most of what is hard here comes from: a handler decides on rows that another
handler has changed by the time it writes. A second source is what is not in the
database: MQTT messages that are lost, late or duplicated, sessions the broker
ends, callbacks on the MQTT client's thread beside the threads of requests, and
agents and installers that are killed between two file operations.

### What makes each component correct

* Registration: a capped token is not used past its cap, its counter does not
  count what did not happen, a machine has one row, a device belongs to the
  tenant of its token, and revoked tokens, superseded credentials and disabled
  devices stay so under stale sessions.
* Enrollment: no credential without an approval, one credential per request, a
  review is final, a revoked key stays revoked, a claimed device is in the
  tenant of its request.
* Ping: a reported completion is true and stays, an answered request leaves a
  settled row, and every request ends.
* Secrets: a device token and its MQTT files change together, also when the
  process is killed.
* Organizations: there is always an owner, and only owners make or undo owners
  and admins.
* Agent commands: the device holds the newest credential it was sent and the
  identity that belongs to it, gives up nothing that can still be used, and
  every command ends.
* Agent MQTT session and status: the row says online exactly when a run of the
  device has a session, once what is in flight has arrived and unless somebody
  else published the newest status, and a run with a replaced password does not
  disturb one with a newer one.
* MQTT client: it is ready once the broker answered for its subscriptions, becomes
  ready again after any number of broken connections, and stays subscribed to
  what is watched, as far as the broker grants it.
* Event hub: a stream gets each event once, misses only what its full queue had
  no room for, and holds nobody up.
* Topics: a device speaks and listens as itself only, what its agent agrees to is
  allowed, and what it sends is heard.
* Installer: one command at a time is at work, a killed one locks nothing for
  good, the state file is whole, and what a command reports is so.

The hazards, each at its line, are in `PROJECT.json` under `hazards`.

## The modules

| Module | Models | State |
| --- | --- | --- |
| `DeviceIdentity` | `fleet/identity.py`, the candidate query | none; operators on identities |
| `Devices` | the devices table, the operators' actions, heartbeats | `devices`, secrets issued so far, the clock, heartbeats in flight |
| `Registration` | tokens and `POST /register`; extends `Devices` | tokens, registrations in flight, history of committed ones |
| `Enrollment` | API keys, requests, reviews, polls; extends `Devices` | keys, requests, submissions, reviews and polls in flight, history of approvals and claims |
| `Fleet` | both paths over one devices table | those of the two |
| `PingCommand` | `send_ping` and `apply_command_result`, broker and device | row, request, answers, messages, the callback's session |
| `SecretsJournal` | `persist.py`, file operation by file operation | files, staging directory, processes |
| `AtomicSecrets` | what `persist.py` promises: the files are replaced at once | one version |
| `Membership` | members, roles, the permission rules | membership rows, requests in flight |
| `AgentCli` | the commands of `meteorcli` and the heartbeat loop, with as much of the server as answers them | the device's files, the commands under way, the server's requests and credentials |
| `Presence` | the agent's MQTT sessions, the test commands and the console's publishing, the broker, `authenticate`, `apply_status_message` | connections, sessions, retained status, messages, the row |
| `StreamTopics` | `mqtt/topics.py` | none; filters and topics |
| `PlatformMqtt` | `mqtt/broker.py` without publishing | connection, `_ready`, `_pending_subs`, `_watch_counts`, the broker's subscriptions, watchers |
| `EventHub` | `mqtt/hub.py` | recent events, listeners, queues, the event being handed out |
| `EventStreams` | `stream_mqtt_events` over the two | those of the two |
| `TopicRules` | `mqtt/acl.py`, the agent's topics, the platform's subscriptions | none; rules on topics |
| `Installer` | lock, state file, variables, terraform | files, infrastructure, processes |
| `FleetProofs` (with those of `Devices`, `Registration` and `Enrollment`), `PingCommandProofs`, `SecretsProofs`, `MembershipProofs`, `AgentCliProofs`, `PresenceProofs`, `EventStreamsProofs` (with those of `EventHub`, `PlatformMqtt` and `TopicRules`), `InstallerProofs` | lemmas and theorems | |

`MC*` modules instantiate them for TLC.

### How code becomes actions

A handler is cut where another one can act: one action for each read it decides
on, and one for its commit, with the decision, the conflict paths and the
rollback as disjuncts of their own. So `_register` is `RegValidate` (the token
is read and checked), `RegMatch` (the candidates are read and the match
decided), then `RegCommit` or `RegConflict`; any of it can end in `RegAbort`.
What a session read is kept in its session record, and `Column(old, new, now)`
gives the value a flush leaves: what the session changed, else what the row
holds now. A commit on a row deleted meanwhile fails as a whole
(StaleDataError).

A poll of a request is `PollExpiring`/`PollExpire`, or `PollApproved`,
`PollMatch`, then `PollCommit` or `PollConflict`. A review is `ReviewRead`, then
`Approve` or `Reject`. `BeatAuth` and `BeatCommit` are a heartbeat.

Identities are sets: a machine's inventory is a serial or none and a set of MAC
addresses, both already normalised. Names, labels, inventories, audit entries
and metrics are left out, since no guard reads them.

A credential or an MQTT secret is a number, never given out twice (`Mint`), so
that "an old credential is accepted again" can be said.

`PingCommand` cuts `send_ping` at its two commits, the publication, each refresh
and the final write. The broker may deliver twice, and lose what it holds; the
device may report a verdict, or anything else, and may be deleted at any time.
The callback reads a row and commits it in two steps, one message at a time, as
the client's network thread does.

`AgentCli` has an action for each HTTP request (served, refused, or served with
the answer lost), each file written, and each decision between them. The secrets
are saved in one step: that is what `AtomicSecrets` promises and `SecretsJournal`
implements. A read that times out, or a connection that is dropped, ends a
command as a kill does, because `EdgeClient` turns only HTTP statuses and the
failure to connect into `AgentApiError`.

`Presence` keeps the two ends of a connection apart: `link` is what the agent
takes it for, `session` what the broker does, and `wire` holds what was sent and
not yet read. Either end may break first. A run that connects with the same
client id ends the session there was and has its will published; a probe
(`mqtt-test`, `mqtt-listen`, or `mosquitto_pub` as `docs/fleet/mqtt.md` has it)
has a client id of its own. A run's statuses are retained. A probe (`Leave`) and
the console (`Console`) may publish anything on the status topic, a status
included; it is not retained, but the platform applies it as any other.

`PlatformMqtt` cuts `_on_connect` where it releases the lock, because watchers
count and subscribe beside it, and `watch_topic` and `unwatch_topic` at each use
of the lock and of the client. The broker grants a subscription or refuses it
(`OnSubscribe`); the client counts either answer. `EventHub` cuts `publish` and `subscribe` after
the lock: the event, or the replay, then goes into the queues one by one.
`EventStreams` runs both: the callbacks wait while a message is handed out, and
a stream watches, subscribes, takes, unsubscribes and unwatches in that order.

In `TopicRules` a topic is the sequence of its levels, and `Reserved` are the
levels that begin with "$": no wildcard in front of a filter covers a topic that
begins with one, and `validate_mqtt_topic` refuses such a filter. `uuid.UUID` reads more
spellings of an id than the platform writes, which is what `Spelling` is for.

`Installer` splits the lock into look, remove, create and stamp, the saving of
the state into open, write and replace, and takes what terraform, SSH and
ansible do as one step that may fail before or after it had its effect. A killed
installer may leave its terraform running (`orphan`).

`SecretsJournal` has a step for every `mkdir`, file write, rename, unlink and
`rmdir`, in the code's order. A process can be killed at each. `Effective` is
what a reader gets from the files.

`Membership` reads the actor's row, then the target's (from the rows the session
has loaded, if they are the same), counts owners when the code does, and writes in a separate step; the flush writes the role into the row
it read, and a deleted row makes it fail.

Some races of the code defeat a property by themselves. Where the code is known
to have one, a history variable remembers that it happened, and the property is
stated for behaviours where it did not, so that everything else is still
checked: `lost` (an answer with a credential was lost) and `torn` (a command
died between secrets and `config.json`) in `AgentCli`, `failed` (the transaction
of the last status failed) and `foreign` (the last status sent to the platform
was published by a probe or the console) in `Presence`, `refused` (the broker
refused the topic on this connection), `overtaken` (the connection changed
while a subscription was under way) and `crossed` (a watch began before the
unsubscription of its topic) in `PlatformMqtt`, `raced` (two commands took the
lock at the same moment) in `Installer`.

## Runs

Counts are distinct states.

| Run | Instance | Shows |
| --- | --- | --- |
| `registration_concurrent` | 1 serial, 1 MAC, 1 token with cap 1, 2 registrations, 1 heartbeat, clock 0..1 | `UseCountWithinCap`, `UseCountNeverOvercounts`; a revoked token, a superseded credential and a disabled device stay so whatever stale session commits |
| `registration_serial` | 2 organizations, 2 tokens with cap 2, one registration at a time | `NoDuplicateIdentity`, `UseCountExact`: what the documents promise, without overlap |
| `enrollment_concurrent` | 1 key, 1 request, 2 reviewers, 3 polls (so that one can find the two devices the others made), clock 0..1, TTL 1 | `IssuedOnlyAfterApproval`; `KeyRevocationIsPermanent` |
| `fleet_tenants` | 2 organizations, a registration, an enrollment with one poll and one reviewer, no TTL (285 k) | `TokenOwnsItsDevices`, `ClaimedDeviceInTenant`, `IssuedOnce`, `ReviewIsFinal` |
| `ping` | 1 command (1 726) | `CompletedMeansPonged`, `ReportedCompletionStays`, `ReturnedMeansSettled`, `PingComesBack` |
| `secrets_crashes` | 1 process, 3 versions, 3 kills (7 503) | the journal implements `AtomicSecrets` (`FilesCommitTogether`) |
| `membership_serial` | 3 users, 1 request at a time, rows re-created up to twice | `AlwaysAnOwner` |
| `membership_owner_race` | 2 users, 2 requests | two owners step down together and none is left (violation) |
| `agent_cli` | 1 command at a time, the heartbeat loop, 2 requests, 2 credentials, 2 device rows, 2 polls, 1 kill (334 858) | types; `NewestCredentialStored`, `IdentityMatchesCredential`, `ClaimGivenUpOnlyWhenOver`; the stored secrets follow `AtomicSecrets` (`SecretsAdvance`); `CommandEnds` |
| `presence` | 2 runs, 1 probe, 2 passwords, 2 messages under way, 1 cut or test from the console (920 656) | `StatusIsTrue`, `SupersededStaysOut`; `OnlineIsNoticed`, `OfflineIsNoticed` |
| `event_streams` | 2 streams with the filter `#` of users of 1 and 2 organizations, 1 topic, 2 events, queues and recent events of 1, 1 break, any subscription granted or refused (688 176) | types; `ReadyMeansAnswered`, `WatchedAreSubscribed`, `NothingTwice`, `NothingLost`; `PublishingResumes`, `SlowStreamDelaysNobody`; and, before it starts, the rules of `TopicRules` over all 22 621 topics of up to 4 of 12 levels, `$SYS` among them |
| `installer` | 3 processes of any command, 2 instances (155 194) | `OneHolder`, `StateFileWhole`, `ReportsAreTrue`, `RefusedOnlyWhenBusy` |

Some properties are stated by theorems only, for every value of the constants,
and are not also run: the types of every module but `AgentCli` and
`EventStreams`, `IssuedMeansApproved`, `ManagersMadeByOwners` and
`ManagersUndoneByOwners`.

### Bounds

* `MaxMint` bounds the secrets issued, `MaxTime` the clock (one step past an
  expiry suffices, since only "before" and "not before" are told apart),
  `MaxGen` the versions saved, `MaxCrashes` the kills, `MaxRow` how often a
  user's row is created again; `MaxCred`, `MaxDevice` and `MaxKills` the
  credentials, rows and kills of `AgentCli`; `MaxPassword`, `MaxQueue` and
  `MaxFaults` the passwords, the messages on their way, and the connections cut and
  tests from the console together in `Presence`; `MaxBreaks` and `MaxEvents` the connections lost and the events
  of `EventStreams`; `MaxInstance` the instances of `Installer`. They are guards
  of the actions they bound. `MaxPolls`, and `MaxRecent` and `MaxQueue` of
  `EventHub`, are limits of the code itself, made small.
* Two sessions of a kind: every disagreement found needs two that overlap, and
  a third sees no more than what one of two left behind. The proofs need no
  such bound.
* One serial number and at most one MAC address already allow a machine to match
  no, one or two devices, by either attribute.
* Two organizations, one of which is the other one's stranger.
* One command in `ping`: commands share the network thread, which makes them
  wait for each other but does not mix their rows. The safety proofs are for any
  number of commands; only the liveness rests on this bound.
* One command at a time in `agent_cli`: two that overlap lose a claim or a device
  id (below). Two requests and two credentials let an old one meet a new one.
* Two runs in `presence` suffice for a takeover and for an old password against
  a new one, one fault for a session lost at either end, the platform away, or a
  test from the console; the probe publishes without one.
* Two streams are the first watcher and one that finds the topic watched; with
  queues of one both the full queue and the replay that is dropped happen, and
  with two events an event that is recent and one that no longer is. Topics of
  four levels have room for a device, and for `commands/result` below it.
* Three installer commands: one that dies, and two that find what it left.
* Three users: actor, target and one more owner.
* Symmetry is used over rows, tokens or users where properties and initial
  states treat them alike, and never in the run with a liveness property.

Deadlock is not checked where the modelled world really runs out: all secrets
given out and the clock at its bound, every request or command used, all events
published and connections lost, or an organization in which nobody is left. It
is checked in `secrets_crashes`, `membership_serial`, `membership_owner_race`,
`agent_cli` and `presence`.

### Fairness

`PingCommand` assumes weak fairness of each request's own steps: `send_ping`
runs in a worker thread, every wait in it has a bound (`wait_for_publish`, the `sleep` of the loop, the deadline), so an enabled
step is taken. Nothing is assumed of the broker, the device, or the callback,
and a request may also die with its process. The deadline is a step that may be
taken at any moment of the wait, so the property does not depend on its length.

`AgentCli` assumes weak fairness of the steps of a command that was started,
since every request it makes has a timeout and every pause an end. Nothing is
assumed of reviewers, of the operator, or that an answer is a good one.

`Presence` assumes that the broker notices broken connections (keep-alive), and
that the platform reconnects (`connect_async`, `loop_start`) and handles what it
is sent, successfully or not: weak fairness. The broker's reading of what an
agent sent is under strong fairness, because two runs with one client id take
the session from each other again and again and in between the reading is not
enabled; each waits at least a second before it connects again
(`reconnect_delay_set`, `mqtt.py:134`), which is what lets it be read. Both are
assumed of the sessions of runs only. Nothing is assumed of what the runs do, of
probes, of operators, or of transactions. `OnlineIsNoticed` and `OfflineIsNoticed`
are stated as "again and again, if the device has (no) session, the row says so":
the same as that a session that lasts is shown for ever after, or leads to it.

`EventStreams` assumes weak fairness of the client's network thread and the
broker behind it, of requests that have begun to watch or unwatch, and of the
handing out of a message. Nothing is assumed of the clients of the streams,
which may never read, of devices, or that a connection lasts.

## Proofs

Every invariant, action property and refinement that a run checks is also proved,
for every value of the constants; only liveness is left to the runs. Where a run
has one process, one poll, one review or one command at a time, so has the
theorem, as a hypothesis in its statement: with two the property is false of the
code, and the last section says how.

### The fleet

`tlapm FleetProofs.tla` has four parts. The first, `DevicesNextKeeps` and the
lemmas before it, says once what operators and heartbeats do to the devices
table. The second proves of `Registration`:

* `RegistrationTypeCorrect`: types, and that rows hold only secrets that were
  given out;
* `UseCountIsCapped`: `use_count` never passes the cap, for any number of
  overlapping registrations;
* `UseCountIsALowerBound`: `use_count` never exceeds the number of committed
  registrations;
* `TenancyIsKept`: a device is in the organization of the token recorded on it;
* `SerialRegistrationsMakeNoDuplicates`: with at most one registration at a time
  no two devices match one machine;
* `SerialRegistrationsAreAllCounted`: with at most one, `use_count` is exactly
  the number of committed registrations.

The first four rest on one inductive invariant, `RegistrationIInv`. That the
counter stays within the cap does not follow from itself: a session writes the
count it read plus one, possibly long after it read it. `SessionFollowsToken`
says what a session in flight knows (its copy of the token has the token's cap
and organization and a count no larger than the token's, and was below the cap
when checked), which makes each write safe. Tenancy likewise needs
`RegMatchedInTenant`: the row a session is about to update is in the session's
organization for as long as the row exists, since `org` is never written after
creation and a deleted row cannot be updated. Duplicates need `MatchStillValid`:
between match and commit nobody else creates or changes an identity, which is
what "one at a time" buys; `HitsAreTheMatches` connects the candidate query with
the matching predicate. The exact count needs `ExactInv`, that the count a
session read is still the token's.

The third part proves of `Enrollment`, for any number of keys, requests,
reviewers and polls, overlapping in any order:

* `EnrollmentTypeCorrect`: types, and that rows hold only secrets that were
  given out;
* `NothingIssuedUnapproved`: no credential for a request nobody approved;
* `ClaimsStayInTenant`: the device of a request exists, was claimed with the
  request, and is in its tenant;

and, where the models show that overlap breaks a property, that it holds
without that overlap and that nothing else disturbs it:

* `SerialPollsIssueOnce`: with polls that do not overlap, one credential per
  request, whatever reviewers and operators do meanwhile;
* `SerialReviewsKeepIssuedApproved`, `SerialReviewsAreFinal`: with one review at
  a time and requests that do not expire (`TTL = 0`), a request with a credential
  is approved and a review is never undone, for any number of overlapping polls.

The first three rest on `EnrollmentIInv`. Besides the types it has `ApprovalInv`,
which follows an approval from the reviewer to the row to the polls that read it
(a session that read "approved" implies a recorded approval, and it keeps working
on that request), and `PollTenancyInv`, the enrollment's counterpart of
`RegMatchedInTenant`. `ClaimWrites` is what a successful claim does to the tables,
the one step that writes both. `OnceInv` adds what a poll between its reads and
its commit knows of a request's `claimed_at`; `ReviewInv` that the only session
that can write a status is the one review, so what it read is still true.

The same modules have action properties, proved for any number of sessions:

* `RegistrationKeepsCredentialsDead`, `RegistrationKeepsDevicesDisabled`: a
  credential that was replaced or revoked never comes back, and a disabled device
  is enabled by an operator or with a new credential only. `RowsMove` is what one
  step may do to credentials and switches; every column a stale session writes
  is one it changed, and what it changes a credential to was drawn at the commit;
* `RevokedTokensStayRevoked`, `RevokedKeysStayRevoked`: no session writes the
  revocation it read. What they need besides the types is that only rows that
  were created are revoked (`RevokedTokensExist`, `RevokedKeysExist`), so that
  the creation of a row revives none.

The fourth part is the composition, both services over one table
(`FleetInvariant`). `FleetIInv` is the conjunction of the two invariants, and the
work is that the steps of one service keep that of the other
(`RegistrationUndisturbed`, `EnrollmentUndisturbed`). What they rely on of each
other is `RowsStay`: a row that was used is neither reused nor moved to another
tenant; and that a claim records no token. From it follow `FleetTypes`,
`FleetDevicesFollowTheirToken`, `FleetClaimsStayInTenant`,
`FleetKeepsCredentialsDead` and `FleetKeepsDevicesDisabled`, with any overlap of
both, and `FleetSerialPollsIssueOnce` and `FleetSerialReviewsAreFinal`, with the
hypotheses they have of `Enrollment` alone and any number of registrations beside.

### Commands, memberships, secrets

`tlapm PingCommandProofs.tla` proves, for any number of commands, the types
(`PingTypeCorrect`), `CompletionIsTrue`, `CompletionStays` and
`AnsweredIsSettled`. `PingInv` is the conjunction of the four with three facts
they need: a report in transit is one the device gave (`ReportsAreGenuine`), only
a request that returned has an answer (`AnswersAreFinal`), and the row of the
result in the network thread's hands is not completed (`CallbackRowNotCompleted`).
The last one is why a late or repeated "failed" cannot overwrite a completion
although the thread decides on a row it read before: it alone completes rows, and
it handles one result at a time. A pool of callback threads would break it.

`tlapm MembershipProofs.tla` proves, for any number of users and overlapping
requests, the types (`MembershipTypeCorrect`) and `OwnersMakeManagers`: a request
past its checks holds a role its actor, as it read him, may give
(`GrantsAllowed`), and only its commit changes a row. `SerialRequestsKeepAnOwner`
and `SerialRequestsSpareManagers` hold if requests do not overlap, since then what
a session read is still true when it writes (`ReadsAreCurrent`), which is what
`membership_owner_race` shows to fail with two.

`tlapm SecretsProofs.tla` proves the refinement: with one process at a time,
killed at any file operation as often as one likes, the journal implements
`AtomicSecrets` for any number of enrollments (`JournalImplementsAtomicSecrets`).
The mapping is `Effective`, what a reader gets from the files, and the invariant
is made for it. `JournalInv` says where a process is and what the staging
directory then looks like (`PlaceInv`), that what a save is to store is newer
than all there is until its mark (`NewestInv`), and that a missing directory has
neither files nor mark (`DiskInv`). Only the step that makes the mark changes what
is read (`WriteDoneSaves`), and it takes the files of the enrollment to their new
version at once; every other step, and every kill, is a stutter.

`tlapm AgentCliProofs.tla` proves the types for any number of overlapping
commands (`AgentTypes`), and, for commands that run one after the other, killed
anywhere, beside the heartbeat loop, reviewers and operators:
`DeviceHoldsItsNewestCredential`, `IdentityFollowsCredential`,
`ClaimsAreNotGivenUpEarly`, and the refinement `SecretsAdvanceAtomically`. With
two overlapping commands each of the four is false (see below). `AgentInv` has,
besides the types, that credentials are issued in order (`IssuedInOrder`), that
a request somebody polls exists (`RequestsExist`) and that an answer carries what
the server issued (`NothingInvented`). `SoloInv` follows the newest credential:
it is lost, stored, or carried by the command (`NewestHeld`), and a credential
that is carried is newer than the stored one; `config.json` names the device of
the stored credential except between the two writes (`IdentityFollows`); and the
claim a command works on is the one on the disk until it replaces it
(`ClaimIsKnown`).

### MQTT

`tlapm EventStreamsProofs.tla` proves, for any number of streams, topics, events,
lost connections and recent events: the types and the bounds of the queues
(`StreamsKeepTypes`), `PublishingWaitsForAnswers`, `WatchersAreSubscribed`,
`NoEventTwice` and `NoEventLost`.

The invariant of the client, `MqttInv`, is about numbers and about the wire.
`_watch_counts` counts the requests between `watch_topic` and `unwatch_topic`
(`CountsRight`). While no subscription overtook a change of the connection,
`_pending_subs` is the number of the SUBSCRIBE packets on the wire, of the
requests about to account for theirs, and of the topics `_on_connect` has yet to
ask for (`PendingExact`): so it is zero, and `_ready` set, only when the base
topics were answered for (`ReadyIsHeard`). `BaseAsked` says that on a live connection
each base topic is subscribed, refused, or asked for, and that nothing on the wire
unsubscribes one. A watched topic is asked for by a request on its way, or the
last packet about it on the wire, or the broker, has it subscribed
or refused it (`WatchersServed`, `EndsIn`), while an unsubscription under way is of a topic
nobody watches (`LeftAlone`); this is what a crossed watch breaks.

The invariant of the hub, `HubInv`, has that an event is its place in the log
(`PlacesInLog`), that a stream that has not subscribed is unknown
(`NothingBeforeOpen`), that the recent events of a topic are its last ones in
order (`RecentAreLast`), and the two properties themselves, which are inductive
with them: what is to come is either in the replay or the event being handed out,
never both.

The same module proves, for any devices, spellings of their ids, levels and
length of topics, the four rules the `event_streams` run evaluates for four
levels: `DevicesAreConfined`, because a filter the ACL allows has no wildcard
(`NoWildcards`) and one without covers itself alone (`PlainFilter`), and a topic
names one device (`OneDevice`); `AgentsAskForWhatIsAllowed`, because every topic
the agent agrees to is its prefix with a suffix (`WholeTopic`), which the ACL
allows (`OwnTopicAllowed`); `SessionsAreHeard`, the topics a session really uses;
and `MatchingIsMqtts`, `mqtt_topic_matches` against what MQTT says of filters, for
the topics a valid filter can bring (`Delivered`), split by whether the filter ends
with "#" (`HashCovers`, `PlainCovers`); such a topic begins with no "$" level
(`DeliveredNamed`), which is where the two would differ. They
rest on `TopicRulesAssumption`: ids are no wildcards, and no spelling is that of
two devices.

`tlapm PresenceProofs.tla` proves, for any number of runs, probes, passwords,
messages under way and faults, the types (`PresenceTypes`), `RowIsTrue` and
`NewestTakesOver`. `StatusIsTrue` speaks of a moment at which everything has
arrived; `PresenceInv` says what is so before that: what a run still has on the
wire is a suffix of its greeting and farewell, and what of it was read decides
the retained status (`OnWire`); no session means that the retained status is not
"online" (`SessionInv`); and the last status sent to the platform is the
retained one, or one a probe or the console published (`foreign`), or the row
already holds it (`QueueInv`). A takeover keeps this
because the will is published with the change of the session. `HeldInv`, that
nobody holds a password that was not issued, is what `NewestTakesOver` needs:
whoever takes a session holds the password in force.

### Installer

`tlapm InstallerProofs.tla` proves, for any number of processes running any
command and killed anywhere: the types (`InstallerTypes`), `OneCommandHolds`,
`RefusalsAreRight`, `StateIsWhole` and `ReportsHold`. `LockInv` has the lock: a
process id in the lock file is that of a command past the lock or of one killed
there (`PlacedInv`), and as long as no two took it at the same moment at most one
command is past the look at the file and the lock is its own (`SoloInv`).
`SaveInv` says that the shared temporary a command is about to rename is the one
it wrote; `ReportInv` follows an apply from its variables over terraform's
instance to the state file, and a destroy to its end. Only a plan can write
beside them (`PlannedGrows`), and no terraform left by a killed command is at
work while another one's is done (`NoOrphan`).

### Assumptions, and what is not proved

The assumptions are those named in the modules (`DevicesAssumption` and
similar): the distinguished values are not members of the sets they complement,
and bounds are natural numbers.

Only model-checked: liveness, since the proof system does not handle liveness
under fairness: `PingComesBack`, `CommandEnds`, `OnlineIsNoticed`,
`OfflineIsNoticed`, `PublishingResumes` and `SlowStreamDelaysNobody`.

## Where the code does something else than it says

`membership_owner_race`, and `findings` in `PROJECT.json` with the quoted line:
two owners that step down together leave an organization without one. The same
models show more when their instance is changed as said; those are not kept as
runs because they follow from the same unlocked reads:

* two overlapping registrations spend a token with `max_uses` 1 twice
  (`registration_serial` with two workers violates `UseCountExact`;
  `registration-tokens.md:23` promises the cap) and create two rows for one
  machine, after which every registration of it is ambiguous
  (`NoDuplicateIdentity`);
* two overlapping polls of a request both get a credential
  (`enrollment_concurrent` violates `IssuedOnce`, against
  `device-request-enrollment.md:64-65`);
* two overlapping reviews, or a review and the expiry of a poll, overwrite each
  other (`fleet_tenants` with two reviewers, or with a TTL, violates
  `ReviewIsFinal`);
* a pending request past its TTL is approved when no poll expired it first,
  because `approve_enrollment_request` looks at the status alone;
* a change or removal by an admin of a member promoted meanwhile goes through
  (`ManagersUndoneByOwners` is proved for requests that do not overlap, and
  fails with two);
* two commands that save or recover the secrets at once take each other's
  staging directory for a leftover (`secrets_crashes` with two processes
  violates `FilesCommitTogether`).

Agent command line:

* a response that is lost after the server served it leaves a credential nobody
  has (`lost`), and in `request-token` a request nobody can claim;
* a kill between the secrets and `config.json` leaves the device id of an earlier
  device, or none, beside the new credential (`torn`);
* commands that overlap lose one's claim or credential to the other, or its device
  id to the `config.json` that `config` read before (`agent_cli` with two commands
  violates each of its four safety properties);
* a stored claim that was approved and claimed already is reported by
  `request-token` as pending (`cli.py:240-244`) until `claim` removes it;
* `heartbeat.py:3` says that transient failures are retried, but a read that
  times out or a dropped connection is no `AgentApiError` and ends the loop.

MQTT:

* a run that cannot reach the broker when it starts goes without MQTT until it is
  started again; two runs of one device take the session from each other for ever;
* disabling a device or replacing its password leaves its session open;
* whoever may publish on a device's status topic sets its row: `mqtt-test status
  '{"status": "offline"}'` (`cli.py:658-681`), the `mosquitto_pub` of
  `docs/fleet/mqtt.md:101-109` and the console (`fleet/service.py:797-834`) show a
  device online that has no session, or offline with one, until the next status
  of a session or reconnection of the platform, which may never come (`foreign`);
* a refused subscription is only logged and then counted (`broker.py:144-148`), as
  `test_mqtt_broker.py:31-36` wants it: `_ready` is set although the platform does
  not hear the base topic, so that "MQTT client is not subscribed." does not
  protect a ping from it, and a watched topic stays without a subscription until
  the next connection (`refused`);
* a status whose transaction fails is acknowledged and lost (`broker.py:196`), and
  the hub is told of a message before its transaction commits;
* a watcher that arrives between the lock and the `unsubscribe` of
  `unwatch_topic` is left without a subscription until the next connection
  (`crossed`); a watcher during a change of the connection is counted in the wrong
  one, so that `_ready` is set too early, or, by `_account_subscribe` of a failed
  subscription, while disconnected (`overtaken`);
* filters that overlap make the broker deliver a message more than once, and each
  copy is an event of its own; events published during a replay come before it;
  a stream whose client leaves before its generator starts is never closed;
* `mqtt_topic_matches("#", "$SYS/x")` is true where MQTT says no, which nobody
  notices, since no filter that is let through brings such a topic;
* the agent agrees to publish on its own `commands` topic, which the ACL refuses
  (the exception in `AgentTopicsAllowed`), and the ACL takes other spellings of a
  device's id for it, on topics nobody else listens to.

Installer:

* two commands that look at the lock file at the same moment both take it, and
  `release` removes whoever's lock there is (`raced`);
* the process id in a stale lock may belong to a new process, which locks the
  installation until it ends (process ids are not reused in the model), and
  `os.kill` fails for a process of another user, whose lock is then taken;
* `upgrade` loads the state before it has the lock and writes it back afterwards,
  so it can record an installation that was destroyed meanwhile; `plan`
  writes the variables, and the constructor the terraform modules, without it;
* a killed installer leaves its terraform running beside the next command;
* a plan beside an apply writes variables that the apply then reads:
  `ReportsAreTrue` accepts the configuration of any plan, so it does not tell;
* `apply` records the instance only when everything after terraform succeeded;
* `destroy` skips terraform when there is no `terraform.tfstate`
  (`terraform.py:105-107`). The model has this as a destroy that succeeds, which is
  the same as long as a terraform that runs has created its state file.

Ping: the write of a timeout overwrites a completion that arrived after the last
refresh (`mqtt/service.py:199`). The operator was told of none, so
`ReportedCompletionStays` allows it.

A registration or a claim enables a device that an operator disabled
(`fleet/registration.py:202`); `DisabledUntilReenabled` allows it, with a new
credential.

## Not modelled

* In topics: their length, NUL, and levels that have "+" or "#" beside other
  characters ("a+"), which `validate_mqtt_topic` lets through and the MQTT client
  refuses.
* Normalisation of MAC addresses and names, labels, inventories, listing and
  pagination: no guard of a modelled action depends on them beyond equality.
* Users, login and JWTs (`identity`): sequential look-ups.
* Audit log and metrics: written with the audited action, read by nobody here.
* Device types and groups: single statements, decided by constraints of the
  database; no other component depends on them.
* Rate limiting: one atomic increment per request. A 429 is an answer in
  `AgentCli`.
* Creating, renaming and deleting organizations; what terraform and ansible do to
  a host; the lengths of pauses and the threshold of `connectivity_status`;
  stopping the platform's MQTT client; commands that change nothing (`status`,
  `info`).
* Frontend and infrastructure descriptions.

## Plan

In this order:

1. Proofs of what remains true when commands, registrations or polls do overlap,
   such as an order on what each leaves behind, in place of hypotheses.
2. Invariants for the hazards without a property: a cross-organization match of a
   claim and a registration, and the rows a crashed ping leaves.
3. Creating and deleting organizations in `Membership`.
