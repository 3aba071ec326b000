# TLA+ models of agent-core-platform

This directory holds TLA+ modules of the platform's stateful parts, the TLC
configurations that check them on small instances, and proofs, checked by TLAPS,
of the properties that matter most for every value of the constants. File and
line references are to the repository.

Status: the Slack Events path, the installation of an agent's Slack App
(reconciliation, OAuth callback, signed state), the Telegram bot with its channel
service, the paging of the GitHub broker and the target resolution are modelled
and checked, and theorems are proved about each of them. The other components are
listed below.

## The system

The platform deploys agents ("Harnesses" of Bedrock AgentCore) from manifests
under `agents/`, and connects them to channels. What runs, and what keeps state:

| Component | Code | State it keeps | Operations |
|---|---|---|---|
| Slack Events ingress | `containers/slack-events/.../ingress.py`, `core.py` (`ingress_response`, `normalized_event`, `verify_slack_signature`) | none | one signed HTTP delivery: verify, normalise, `dispatch` into the queue, answer 200 |
| Event queue | `modules/slack-oauth-callback/main.tf:299-360` (Amazon SQS, external) | a FIFO queue and its dead-letter queue | send with a group and a deduplication id, receive, delete, redrive |
| Slack Events worker | `core.py` (`SlackWorker`), `worker.py` (`lambda_handler`, `SlackPoster`) | locals of one invocation | claim the event, work out the reply, call the Harness, post, complete or release |
| Event table | `worker.py` (`DynamoSlackState`), `core.py` (`InMemorySlackState`) | event records (status, lease token, lease end, TTL), thread records, active sessions | `claim_event`, `complete_event`, `release_event`, `register_thread`, `has_thread`, `active_session`, `set_active_session` |
| Slack reconciliation | `clients/slack/reconciliation.py`, `reconcile.py` | parameters in SSM: provisioner tokens, credentials, binding; the Slack App | `plan`, `apply` (create, update, adopt), `installation_url`, `complete_oauth` |
| Slack OAuth callback | `containers/slack-oauth-callback/.../callback.py`, `handler.py` | the same credentials and binding | `complete_installation` |
| Signed OAuth state | `contracts/slack_oauth_state.py` | none | `sign_state`, `verify_state`, `unverified_agent_name` |
| Channel service | `clients/channel/core.py` | sessions, messages seen | `handle` |
| Telegram bot | `clients/telegram/bot.py` | the poll offset, in a file | polling loop, `load_offset`, `save_offset`, typing indicator |
| CLI chat | `clients/cli/chat.py` | a session name | a loop around the Harness call |
| GitHub tool broker | `containers/github-tool/.../broker.py`, `handler.py` | none | allow-listed operations, token minting, `pullRepository` page by page |
| Target resolution | `scripts/resolve_agent_targets.py` | none | which agents a change deploys, retires or reports |
| Harness module | `modules/agentcore-harness/main.tf` | declarative | the allowed-tools computation |
| Validation, manifest rendering | `scripts/`, `contracts/contract_validation.py` | none | schema checks, one template |
| Harness coding image, deployment wiring, mise extension | `containers/harness-coding`, `modules`, `compositions`, `entrypoints`, `live`, `extensions` | none of their own | shell wrappers, declarative resources |

How they interact:

- Slack calls the ingress over HTTP and repeats a delivery that was not answered
  200. The ingress sends one message per event to the FIFO queue, with the
  thread as message group and tenant and event id as deduplication id.
- The event source mapping receives the front message of a group, hides it for
  six times the worker's timeout and invokes the worker with it
  (`batch_size = 1`). When the invocation returns, the message is deleted; when
  it raises or is cut off, the message is seen again after the visibility
  timeout, at most three times, and then goes to the dead-letter queue.
- Worker invocations share the event table: conditional writes on the event
  record, blind writes on the thread and session records.
- Reconciliation (an operator's command) and the OAuth callback (a Lambda) read
  and write the same two parameters, which have no conditional write; the worker
  and the ingress read them one after the other (`load_agent`, `core.py:123`).
- The Telegram bot calls `ChannelService.handle`, which calls the Harness.

What is hard about it, by component, and the properties that make it right:

- **Event table.** `claim_event` is a clock reading, a put and an update, with
  other invocations, crashes and TTL deletion in between, and a conditional
  write may be applied although its response is lost. Correct when a running
  lease belongs to one invocation, when nobody else ends it, and when a
  completed event stays completed.
- **Ingress, queue and worker.** Repeated deliveries, deduplication that ends
  after five minutes, attempts that die anywhere, a lease, a worker timeout and a
  visibility timeout set in three different files. Correct when no answered event
  is lost, no event is answered twice without a failed attempt, a thread is
  served in order by one worker at a time, a call of the Harness uses the
  thread's current session, and every event is dealt with in the end.
- **Reconciliation and OAuth callback.** Writes of two parameters and of an
  external App, by two programs, with no transaction. Correct when the agent's App
  and its signing key are chosen once, when a bot token is never lost to a write
  of credentials that were read earlier, when a token whose App Slack names is that
  of the App the binding names, and when a reader never meets an installed binding without one.
- **Signed state.** Correct when a state is accepted only for what it was signed
  for and inside its window of time, at its boundaries, and until then always.
- **Channel service and Telegram.** A message is recorded as seen before it is
  handled and the offset is saved before the reply: at most once. Correct when
  `invoke_harness` is entered at most once for an update, and when a stop or a failure costs no more
  than the update in hand.
- **GitHub broker.** Correct when the pages of a repository at one commit make
  up the tree exactly, and when a pull ends.
- **Target resolution.** Correct when each agent is planned with the files it
  has, over any sequence of diffs, and when each removed manifest is
  described by what was planned.

## Modules

| Module | Models | Depends on |
|---|---|---|
| `EventLedger` | the abstract promise of the state store: events are free, claimed or completed, each operation one atomic step (`InMemorySlackState`, plus the lease) | |
| `EventClaims` | `DynamoSlackState`'s event records, request by request | refines `EventLedger` |
| `FifoQueue` | the SQS queue as the Terraform module configures it; operators over one variable, no specification of its own | |
| `EventService` | the abstract promise of the path: what is accepted is attempted until it is completed or given up | |
| `SlackEvents` | Slack's deliveries, the ingress, the queue and the worker, composed over the table | extends `EventClaims`, instances `FifoQueue`; refines `EventClaims` and `EventService` |
| `EventClaimsProofs` | theorems about `EventClaims` | |
| `SlackEventsProofs` | theorems about `SlackEvents`: types, order, refinement, one worker per thread | reuses `EventClaimsProofs` |
| `SlackRecoveryProofs` | theorems about crashes and retries in `SlackEvents` | extends `SlackEventsProofs` |
| `SlackSessionProofs` | theorems about replies, sessions and threads in `SlackEvents`, and its refinement of `EventService` | extends `SlackRecoveryProofs` |
| `OAuthState` | signed states and their window of time | |
| `SlackApps` | Slack's side of an installation: Apps, codes, configuration tokens; mostly external | extends `OAuthState` |
| `SlackParameters` | binding and credentials in SSM | extends `SlackApps` |
| `SlackReconciler` | the operator's commands `apply`, `install-url`, `complete-oauth` | extends `SlackParameters` |
| `OAuthCallback` | invocations of the callback Lambda | extends `SlackParameters` |
| `AgentIdentity` | the abstract promise of the two parameters | |
| `SlackInstallation` | commands, callbacks and `load_agent`, composed | extends the two programs; refines `AgentIdentity` |
| `SlackInstallationProofs` | theorems about `SlackInstallation` | |
| `ChannelService` | messages seen and sessions of a process | |
| `TelegramBot` | the polling loop, the offset file, stops and restarts | extends `ChannelService` |
| `TelegramBotProofs` | theorems about `TelegramBot` | |
| `GitHubBroker` | `pullRepository` and `putFile` on a moving branch | |
| `GitHubBrokerProofs` | theorems about `GitHubBroker` | |
| `AgentTargets` | target resolution over a history of commits | |
| `AgentTargetsProofs` | theorems about `AgentTargets` | |
| `MCEventClaims`, `MCSlackEvents`, `MCSlackInstallation`, `MCTelegramBot`, `MCGitHubBroker`, `MCAgentTargets` | instances for TLC | |

`PROJECT.json` maps each definition to the lines it translates. Definitions
introduced by "A plausible slip" are not used by any specification: each is a
mutated form of the definition after it, and shows that a property notices the
mistake.

### EventClaims and the code

`row` is the table's event records (`pk` and `sk` made from tenant and event id).
An invocation stands for the `uuid4` token that it draws, `pc` says how far it is,
`target` and `readAt` are the locals `event_id` and `now` of `claim_event`.

| Action | Code |
|---|---|
| `ClaimEvent` | `worker.py:50-61`: token drawn, clock read once |
| `ClaimPut` | `put_item` under `attribute_not_exists(pk)` |
| `ClaimUpdate` | `update_item` under `status = inflight AND lease_until < now`, with the old clock reading; False otherwise |
| `ClaimPutResent`, `ClaimUpdateResent`, `CompleteEventResent` | the write is applied, the response is lost, the AWS client sends it again and the condition fails on the invocation's own write |
| `CompleteEvent` | `update_item` under the token; a failed condition propagates |
| `Fail`, `ReleaseEvent` | `process`'s exception handler: `delete_item` under the token, a failed condition is swallowed |
| `Crash` | the invocation ends anywhere, its record stays |
| `Leave` | it returns |
| `Expire` | DynamoDB's TTL deletion, any time after `expires_at` |
| `Tick` | the clock |

One request to DynamoDB is one atomic step. Hosts read the same clock, in whole
units. An invocation claims one event, since the mapping's batch size is 1 and
`lambda_handler` builds a new `DynamoSlackState`.

### SlackEvents and the code

An invocation is the pair of a message and the number of its receive. `step` is
where `SlackWorker.process` is (the module's comment on `Step` lists the places),
next to the `pc` of its claim. `threads` and `session` are the thread and session
records; a thread is named by the timestamp of its root and a session by the
`/new` event it was named after (`None` for the default session). `posts`, `aborts`
and `otherFault` are history.

| Action | Code |
|---|---|
| `Ingress`, `IngressFails` | `ingress_response` with `dispatch`; the 200 reaches Slack or not; or it raises before the dispatch |
| `Receive`, `Redrive` | event source mapping and redrive policy |
| `Route`, `RouteFails` | `_process_record`: agent, harness and token are found, or it raises |
| `TryClaim` | `claim_event` in `process`; False returns, and so deletes the message |
| `Message` | `_message`: what is ignored, mentions open a thread, replies need one |
| `Reply` | `_reply` up to the Harness: `/help`, `/new` and its session record, or read the session and set the status |
| `Invoke`, `Post`, `Complete` | the rest of `process` |
| `Raise`, `PostRaises`, `StatusRaises` | exceptions: any call; posting after a part was posted; the status call, with something other than `RuntimeError` |
| `Clear`, `ClearRaises`, `Release` | the exception handler: clear the status, which may itself raise and skip the rest; release the claim |
| `Stop` | the worker's timeout, a lost host, or a claim or release that raises |
| `Return`, `ReturnLost` | the handler returns; the message is deleted or not |
| `TimePasses` | the clock; an invocation does not outlive `WorkerTimeout` |

The data is reduced to what the properties tell apart: the text of an event is
empty, a help command, `/new`, or something to say; one agent and one channel;
signature, routing and parameter checks pass or raise.

`EventService` sees of this a `stage` (is the event completed, in the queue, or in
the dead-letter queue only), an `attempt` (is an invocation at work on it, and did
it reply) and the two histories `posts` and `aborts`. What is addressed to the bot
(direct messages and mentions that say something) must be answered; a reply in a
thread may find no open thread and be completed in silence.

### SlackInstallation and the code

The state of one agent. `binding` and `credentials` are its parameters, reduced
to what decides: the App, the manifest's digest, `installation_state` and
whether a bot user is known; the client the credentials are for, the signing
key, the bot token (named by the code it was exchanged for) and whether an old
`app_token` is still in them. `op` is the command that an operator runs, with
its place and locals, `cb` the callback invocations with theirs. Each action is
one SSM or Slack request with the checks up to the next one.

| Action | Code |
|---|---|
| `Apply`, `Plan` | `plan`: the binding is read, then the credentials' presence; create, update, adopt, noop, or an error |
| `Rotate`, `StoreRotated` | the refresh token is used up, the new one stored |
| `CreateManifest`, `KeepCredentials` | create: `apps.manifest.create`, then the credentials, and a signed link |
| `Reread`, `ReadCredentials`, `Seed`, `UpdateManifest`, `Sanitize` | update and adopt: the binding again (update only), the credentials, a signing key if there is none, `apps.manifest.update`, the credentials without `app_token` |
| `Bind` | the binding, `installed` if the credentials read above have a token |
| `InstallUrl`, `MintLink` | `installation_url` |
| `CompleteOauth`, `GetCredentials`, `Exchange`, `SaveToken`, `RecordInstalled` | `complete_oauth` |
| `Fail` | any request fails or the process stops: the command is over, what it has written stays |
| `Bootstrap` | external: the workspace owner supplies configuration tokens again |
| `Request` to `SaveBinding`, `Refuse` | `complete_installation`, its error answers, an invocation that is cut off |
| `Approve` | external: somebody approves a link and Slack redirects with a code |
| `LoadBinding`, `LoadCredentials` | the two reads of `load_agent` |

Two commands for one agent do not run at the same time: they are an operator's,
and `reconcile.py` has no server. Callbacks run at any time, next to commands and
to each other. `Init` is a new agent, or one that was installed by an earlier
version: installed or not, without a signing key, with an `app_token` (and then
perhaps with the state `socket_mode_ready`, which `load_agent` accepts and
`normalized_event` does not), or with a binding that is unreadable. The links that
version gave out are taken to have expired; while one is still good, `Sanitize`
might write over the token of its callback. Slack's answer to the exchange of a
code has an `app_id` or not (`Named`), and a bot user or not: `complete_oauth`
requires the first, and the callback compares it only if it is there. Each code
Slack gives is new; App IDs and signing keys are new when they are drawn, since
Slack gives an ID once and `secrets.token_hex` does not repeat.

### TelegramBot and the code

| Action | Code |
|---|---|
| `Start` | `main` up to the loop: a new `ChannelService`, `load_offset`; it raises on a file without a number |
| `Poll` | `getUpdates` with the offset, which confirms what is below it |
| `Take`, `SaveOffset` | `offset = update_id + 1`, and the two halves of `write_text`: the file is truncated, then written |
| `Drop` | `incoming_message` is None, or `handle` returns None (stranger, or seen before) |
| `Handle`, `Invoke`, `SendText` | `ChannelService.handle` up to and into `client.invoke_harness`, its end, `send_text` |
| `LoopCatches` | an exception that the loop catches: it polls again |
| `Stop` | Ctrl-C, a lost host, an exception the loop does not catch |
| `Arrive` | external: an update |

The chunks of a reply are one send. `service.handle` is entered under no
lock by anybody else: the bot is its process's only user.

### GitHubBroker and the code

`PullRepository` is a call with the agent's cursor and its answer: the tree of
the ref at that moment, the ten entries from the cursor, of which those fit that are
text, short enough, and leave room on the page. `PutFile` and `Push` move the branch.
A tree is its own `sha`. A call that fails changes nothing but the agent's
luck, and is no step. GitHub's own truncation of huge trees (`truncated` in the
answer) is left out: such an answer says that it is not whole.

### AgentTargets and the code

A history of commits to one branch; the operator provisions everything once
(`EnumerateTargets`), and from then on resolves the diff between the revision
resolved last and the head (`DiffTargets`), plans all targets it printed
(`PrintTargets`), or is interrupted before (`Interrupted`) and starts over. This
protocol is how CI would use the script; the model assumes that plans are made
for all printed targets or for none, that the two revisions are commits that do
not move while the script runs, and that no path needs git's quoting.
What git shows as a rename or a copy is nondeterministic (`Origins`): any added
file may come from any file of the base.

## Runs

| Run | Instance | Properties | States (distinct) |
|---|---|---|---|
| `claims` | three invocations, one event, no queue | `ClaimsTypeOK`, `LiveLeaseExclusive`, `RunningLeaseFenced`, `CompletedIsFinal`, `ImplementsLedger` | 88,106 |
| `sessions` | two `/new` of a thread, the first delivered twice, every failure | `SessionOfLatestNew`, `NoSilentLoss`, `AbandonedClaimRecoverable`, `ImplementsService` | 835,200 |
| `settles` | a mention and a `/new` in its thread, under fairness | `TypeOK`, `OneWorkerPerThread`, `InvokeUsesCurrentSession`, `FollowupsFindTheirThread`, `ImplementsClaims`, `EveryEventSettles` | 596,404 |
| `resent` | a direct `/new`, delivered twice, writes sent again, a lease shorter than the worker's timeout | `WorkingUnderClaim`, `RepliesBounded`, `CompletedActsOnce` | 3,033,143 |
| `install` | commands, two callbacks, a reader; a new or an old agent | `TypeOK`, `ReaderFindsToken`, `LinksVerifyUntilExpiry`, `NamedTokensAreBound`, `ImplementsIdentity` | 3,463,227 |
| `telegram` | three updates, two faults | `TypeOK`, `InvokedOnce`, `LossBounded`, `EveryUpdateSettles` | 94,023 |
| `broker` | four paths, pages of two, a branch that moves twice | `TypeOK`, `SnapshotIsWhole`, `PullEnds` | 336,150 |
| `targets` | two agents, a bad name, a shared file, five commits | `TypeOK`, `PlannedAsResolved`, `RemovalsDescribed` | 147,884 |
| `short_timeout` | worker timeout 30 s | `AbandonedClaimRecoverable` is violated | |
| `resent_put` | the `put_item` of a claim sent again | `NoSilentLoss` is violated | |
| `status` | a status call that raises | `StatusIsBestEffort` is violated | |
| `adopted` | an installed App whose binding was lost | `InstalledAgentHearsMentions` is violated | |

What the runs show beyond the name of their property:

- `claims` takes the queue away. Exclusion, fencing and finality rest on the
  conditional writes alone, with stale clock readings, records deleted between
  the put and the update, and writes sent again.
- `sessions`: a delivery that Slack repeats after the deduplication interval is
  queued behind a later `/new` and would undo it; the completed record stops it.
  A refused claim acknowledges the message, so a claim may be refused only when
  the event is completed. That depends on the order of three times set in three
  places, and the run checks it at the longest lease for which it holds.
  `ImplementsService` says the same of the whole path at once. Each step is one of
  `EventService`, or none: a message that is queued accepts its event, a claim
  begins an attempt, a post answers, `complete_event` finishes, a failed or stopped
  invocation that was at work fails its attempt, and the dead-letter queue gives up.
  Deduplication, redelivery, leases, hidden messages and refused claims are
  invisible. Whether an abandoned attempt released its claim makes no difference.
- `settles`: since the group is the thread and the visibility timeout exceeds the
  worker's timeout, the blind writes of thread and session records never race.
  A reply finds its thread unless the mention before it was dead-lettered. Each
  answered event ends completed or in the dead-letter queue, so a message that
  always fails does not block its thread for ever.
- `resent`: a worker may outlive its own lease here, by up to half of its time,
  and still nobody takes its event away: the only other claimant waits for the
  message, which is hidden for six worker timeouts. The number of replies is at
  most one more than the number of attempts that claimed the event and failed. It
  is not one: a crash between posting and `complete_event` (`core.py:342`) posts
  again.
- `install`: reconciliation writes back credentials that it read several requests
  before, while a callback may store a token in between. No token is lost by that:
  `Seed` writes only if there was no signing key, so that no callback can have
  verified a state; `Sanitize` only if there was an `app_token`, with which
  `install-url` and `complete-oauth` refuse to work, so that no link is out. Each of
  the other writes of credentials has a token in it, or is the first. What may be
  lost is the newer of two tokens, which `AgentIdentity` allows. A token is stored
  next to the client it was exchanged for, and if Slack names its App, that App is
  the binding's, although binding and credentials were read in two requests.
- `telegram`: what is seen dies with the process, so the saved offset alone keeps
  an update from a second call of the Harness. A call is counted when it is
  entered: the boto3 client has its default retries (`bot.py:188`) and may send
  its request more than once within one call, which the bot neither sees nor
  limits. `LossBounded` counts: no more updates are passed over than there were
  faults. An update may stay unsettled for ever in one case, which the liveness
  property names: the offset file is empty because the bot was stopped while
  writing it, and `load_offset` raises at each start until somebody removes the
  file.
- `broker`: if every answer names the same snapshot, the answers' files are
  that snapshot's text files within the limits, each once. If the branch moved, the
  agent can see it by the snapshots, and its pull ends nevertheless.
- `targets`: cut into diffs at any commits, with any rename detection, with
  runs interrupted and repeated, no agent is left with a plan of older files.

### Bounds

- Times are in units of `WorkerTimeout = 1`, except in `resent`; visibility is then
  6, as deployed. `Lease = 4` is the longest whole value below `5 * WorkerTimeout`, the hardest
  case in which the recovery properties hold. The default deployment has 240 s
  against 180 s, a lease of 1.33 timeouts.
- `resent` has `WorkerTimeout = 2` and `Lease = 1`, since the variable's validation
  accepts up to 900 s against the fixed lease of 240 s: an invocation can then work
  on with its lease over. Visibility is 12.
- `DedupWindow` is 1 or 2, below `LastDelivery + 1`, so that Slack's retries fall
  inside it and after it. (Deployed: 300 s.)
- `MaxReceive` is the deployed 3, or 2 where two messages make the instance big;
  two receives already have a first, a retry and a dead-letter.
- `MaxTime` lets each message be received `MaxReceive` times, one visibility
  timeout apart, and dead-lettered; longer clocks add idle time only.
- `PollDelay` bounds how long a receivable message waits while others act; 0 or 1.
- `Retention = 100` lies beyond `MaxTime` on the path, so no record expires there:
  it is 24 hours in the code, while three receives take 54 minutes by default.
  Expiry is in `EventClaims`, where `Retention = 2`.
- `MaxMessages` is the number of deliveries that can be queued.
- `install`: two Apps (the agent's and the one an operator adopts or a second
  creation makes), two manifests (a reconciled one and a change), two keys, two
  callbacks (concurrent, or a redirect repeated), one fresh code besides that of a past
  installation, and a clock of two instants with `Ttl = 1`, so that a link is good,
  and then expired. Commands are not bounded: they start again as often as they like.
- `telegram`: three updates make a batch with something before and behind the
  update in hand; two faults, so that the bot fails again after a restart; messages
  of two allowed chats whose numbers meet, a stranger, and one without text.
- `broker`: pages of two entries with room for one longest file stand for ten
  entries and 262,144 bytes, where eight files of 32,768 fit; the four sizes are a
  file at the limit, one beyond it, a short one and one that is not text.
- `targets`: five commits are enough to add, provision, change, remove and add an
  agent again; two retirement files.
- Symmetry is used in `claims` (invocations), `install` (Apps, manifests, keys,
  codes, callbacks) and `targets` (agents, contents); none has a liveness property.
- Deadlock checking is off in every run: an instance ends when its deliveries are
  used up and the clock stands at its bound, or, in `targets`, when the last diff is
one that the script refuses.

### Fairness

`FairSpec` assumes weak fairness of `Work(i)` (an invocation that runs takes its
next step, or is stopped), of `Receive(m)` and `Redrive(m)` (the mapping polls,
and SQS applies the redrive policy) and of `TimePasses`. Nothing is assumed of
Slack, and no failure is assumed to occur or not to occur: the actions of
`Trouble` have no fairness.

`TelegramBot` assumes weak fairness of `Work`: somebody starts the bot again, and
its calls return. Faults are bounded by `MaxFaults`, so the bot works in the end; a
bot that is stopped for ever settles nothing. `GitHubBroker` assumes weak fairness
of `PullRepository`: the agent goes on, and its calls succeed in the end;
`MaxMoves` bounds the moves of the branch, as a branch that moved for ever could
grow faster than it is read.

## Disagreements between the code and what is said of it

- **A short worker timeout loses crashed attempts** (run `short_timeout`). The
  lease is a fixed 240 s (`worker.py:32`), the message hides for six worker
  timeouts, and `modules/slack-oauth-callback/variables.tf:92-93` accepts 30 to
  900 s. Let an attempt claim as late as its timeout allows and die. The record's
  lease then ends up to `timeout + 240 s` after the receive, and the message
  is seen again after `6 * timeout`. At 48 s or less the lease may still run:
  the claim is refused, the worker returns, the message is deleted and the record
  stays `inflight` with nobody to reclaim it. The default of 180 s is safe.
- **A resent `put_item` loses the event** (run `resent_put`). If the first
  request of a claim is applied and its response lost, the client's own retry
  finds the invocation's record, the claim is refused as if somebody else held it,
  and the message is deleted.
- **Status calls are not best-effort** (run `status`). `docs/design.md:167-168`
  says "Status failures are best-effort and never block Harness invocation or
  message delivery." `_set_status` swallows `RuntimeError` only
  (`core.py:402-403`), and `_call` turns only `URLError`, `TimeoutError` and
  `JSONDecodeError` into one (`worker.py:188`). Anything else that `urlopen` or
  `read` raises, such as `http.client.HTTPException` or `ConnectionError`
  on a response cut short, fails the attempt.

- **An adopted App does not hear mentions** (run `adopted`). `docs/design.md:65`
  lets an agent be reached by "DMs and threads opened by mentioning an invited
  bot". If an installed App's binding is lost and the App is adopted, `apply`
  keeps the stored bot token, writes `installed` (`reconciliation.py:437`), and
  has no binding to preserve `bot_user_id` from (`reconciliation.py:448`). The worker
  cannot tell the mention in a text without it and drops each `app_mention`
  (`core.py:365-366`), until the App is installed once more.
- **The callback does not always check the App** (read off the model, no run of its
  own). `docs/design.md:71` says "response `ok`, workspace, App ID, and bot token are
  all re-checked before any write". `callback.py:275-277` compares the App ID only if
  the response has a non-empty `app_id`; `complete_oauth` requires one
  (`reconciliation.py:507`). Let an operator adopt an App while the stored credentials
  are those of another. Links then carry a state for the adopted App and the client
  of the other, and a response without `app_id` makes the callback store the
  other App's token under the adopted App's binding. In the model `ExchangeAndCheck`
  takes that step for a code that is not `Named`; `NamedTokensAreBound` is what
  remains true.
- **A failed reconciliation may leave Slack changed** (read off the model, no run
  of its own). `docs/runbook.md:467-469` says "A failed reconciliation leaves the
  previous binding, credentials, external Slack state, and running processes
  unchanged." `apply` updates the manifest before it writes the binding
  (`reconciliation.py:425`, `:452`): if the latter fails, the App runs the new
  manifest and the binding records the old digest. A second `apply` repairs that.
  If the spec is reverted first, `plan` finds the recorded digest and does nothing,
  and the new manifest stays. In the same way a created App whose credentials could
  not be stored is forgotten (`reconciliation.py:389`), and the next `apply` creates
  another; the runbook's rule to stop and adopt is the operator's to follow.

Behaviours that are not disagreements but may surprise. An update of the manifest
that reads the credentials before a first callback stores its token, and
writes the binding after that callback has, puts `approval_required` over
`installed`; the agent is not loaded until it is installed again or its manifest
changes. Adoption never compares the adopted App with the client in the stored
credentials; links then lead to the other App, and exchanges fail, if Slack's answer
names that App (`NamedTokensAreBound`). The Telegram bot's key of seen messages has no chat in it
(`clients/channel/core.py:61`), while the Bot API promises unique message IDs inside a
chat only; and the sessions `/new` made are forgotten on a restart. The files a retired
agent leaves in its directory cannot be changed or deleted later without a failing
diff run (`resolve_agent_targets.py:312`). An enumeration, unlike a diff, never
reports that a manifest has gone.

A behaviour of the Slack path that is not a disagreement but may surprise: in an open thread, a
message that mentions the bot reaches the worker as `app_mention` and as
`message`, with two event ids, and both are answered.

## Proofs

All theorems hold for any events, payloads, numbers of invocations and messages,
and any values of the times, under `ClaimsAssumption` and
`SlackEventsAssumption`: the constants have their types, `None` is not one of the
values, `Lease <= Retention`, and invocations are pairs of message and receive.

**`EventClaimsProofs`.** `ClaimsTypeCorrect`, `LeaseExclusion`
(`LiveLeaseExclusive`), `LeaseFencing` (`RunningLeaseFenced`), `CompletionIsFinal`
(`CompletedIsFinal`) and `TableImplementsLedger` (`ImplementsLedger`).
`LiveLeaseExclusive` alone is not inductive: it says nothing of what the table
holds. `ClaimsInv` adds that clock readings are not in the future (`ReadInPast`,
so an update that finds an old lease finds one that is over now), that a record
is kept at least as long as its lease (`RecordOutlivesLease`, from
`Lease <= Retention`, so TTL never takes a running lease away) and that an
invocation whose lease runs is still the one named in the record (`LeaseKept`).
Exclusion follows since a record names one owner. The refinement maps each
record to a ledger entry; a claim's put or update is the abstract `Claim`, with
the clock reading as the witness for the moment the lease counts from.

**`SlackEventsProofs`.** `TypeCorrect`, `PathImplementsClaims`
(`ImplementsClaims`) and `ThreadsAreSerial` (`OneWorkerPerThread`). The second
makes every theorem about `EventClaims` a theorem about the path. The inductive
invariant is `PathInv`: types; messages are used in order (`QueueOrder`); a
running invocation is the current receive of a queued message at the front of its
group, and its message stays hidden longer than the invocation can run
(`InFlight`); `step` and `pc` agree (`Sync`). Two running invocations of one
thread would be two front messages of one group, or two receives of one message
of which the older one has not ended although its visibility has.

**`SlackRecoveryProofs`.** `WorkIsClaimed` (`WorkingUnderClaim`): whoever works on
an event owns its record, even if its lease runs out first; no relation between
the times is needed, as the queue keeps other claimants away. `NothingLost`
(`NoSilentLoss`) and `AbandonedClaimsRecover` (`AbandonedClaimRecoverable`) hold
under `LeaseEndsInTime == Lease < 5 * WorkerTimeout` and `~ResentWrites` (the client
sends no write of a claim twice). For a lease of 240 s the former means a worker timeout above 48 s. The runs
`short_timeout` and `resent_put` violate one hypothesis each, and with it one of
the conclusions, so neither hypothesis is idle. The inductive invariant is `RecoveryInv`:
a refused or finished claim means a completed event (`Finished`), and each
inflight record is covered by its owner (`LeaseCover`) in one of three ways that
follow each other: the owner is still running (`OwnerRuns`); it has stopped and
the lease is over before the message is seen again (`OwnerStopped`); the message
was received again, and the lease is over (`LeaseOver`). In each way the next
claim of the event is not refused.

**`SlackSessionProofs`**: what a worker does under its claim.
`CompletedEventsRest` (`CompletedActsOnce`): a reply is begun, and a session named,
only by an invocation that works on the event, whose record is then inflight.
`RepliesAreBounded` (`RepliesBounded`) needs `RepliesAccounted`: the one reply that
no failed attempt accounts for belongs to the attempt that completed the event or
is about to. `SessionIsCurrent` (`InvokeUsesCurrentSession`) follows from
`RecordsKept`: nobody else writes the records of a thread while an invocation of
it runs. `LatestNewNamesSession` (`SessionOfLatestNew`) is about order, and needs
`FifoOrder` (what is out of the queue was queued before what is still in its
group) and `AnswersInSession` (a `/new` is answered while it names the session);
`NewStays` then does not even ask for the event to be completed.
`FollowupsFindThread` (`FollowupsFindTheirThread`) rests on `Opened` (a completed
mention has its thread in the table) and on `RecoveryInv`: a message is deleted
only when its event is completed. It and the next one need `LeaseEndsInTime` and
`~ResentWrites`; the others do not.
`PathImplementsService` (`ImplementsService`) is the refinement of `EventService`.
`AttemptOfRunner` (the attempt at an event is that of the one invocation that runs
for it) lets a step be judged by its own invocation alone. `WorkerStep` sorts the
steps of a worker into five kinds, nothing, begin, answer, finish and fail, under
`ServiceInv`, which adds to `RecoveryInv` and `WorkingUnderClaim` that what is
addressed to the bot is never skipped (`SkipsUnaddressed`). `IngressServes` and
`RedriveServes` are the steps of the queue. A message is dead-lettered only at the
front of its group and when it is no longer hidden, hence with nobody at work in its
thread, so an event is given up between attempts only.
`CompletedWereAnswered` is argued on the side of the service, by the six actions of
`EventService`: a completed direct message or mention had a reply.

**`SlackInstallationProofs`**, for any Apps, manifests, keys, codes and callbacks.
`StateWindow`: a state that `sign_state` made verifies from its issue up to, and
not at, its expiry (`LinksAlwaysVerify` says it of each link given out).
`InstallationTypeCorrect`, `ReaderAlwaysFindsToken`, `LinksAlwaysVerify`,
`NamedTokensAlwaysBound`, `InstallationImplementsIdentity`. The inductive
invariant `InstallInv` says of each command and callback, by its place, how its
locals relate to the parameters: `OpInv` and `CallbackInv` (what was read is still
the App and the key that is stored, and a token once read is followed by some
token), `LinkInv` (each link was signed with the stored key and for the App of the
binding), `TokenInv` (an installed binding has a token, and a token an App). Its
step is proved through two facts: which steps are `Steady`, leaving App, key and
the presence of a token alone, and that every `Change` of them is one
`AgentIdentity` allows. The refinement is read off these.

**`TelegramBotProofs`**, for any updates, messages and numbers of faults.
`TelegramTypeCorrect`, `AlwaysInvokedOnce`, `LossAlwaysBounded`. `InvokedOnce`
needs that the file's number is beyond each update that was called
(`Bookmarks`, `CallsAhead`); `LossBounded` is an invariant about a cardinality, and
is inductive once the update in hand is counted with the faults to come
(`Behind`): each fault moves at most that one update among the lost.

**`AgentTargetsProofs`**, for any trees, names and shared paths.
`TargetsTypeCorrect`, `AlwaysPlannedAsResolved`, `RemovalsAlwaysDescribed`. The lemma
`EventOfPath` says that a path which differs is the path of an event, however git
pairs additions and deletions; `UnchangedAgent`, that an agent which is no target has
the same inputs on both sides. `TargetsInv` adds what an unfinished run
has computed and written.

**`GitHubBrokerProofs`**, for any finite set of paths, any sizes, limits and moves
of the branch. `BrokerTypeOK`, `BrokerSnapshotIsWhole`, `BrokerPagesAreBounded`
and `BrokerPullGoesOn`, the safety half of `PullEnds`: each call ends the pull or
raises a cursor that stays below the number of paths. Most of it is about what one
answer is made of. `SetInduction` (a set of numbers with 0 and every successor has
all of them) takes the place of the library's induction, whose predicate no
prover here can instantiate; it follows from the existence of a least number in each
set of numbers. By it, a function that is defined by recursion over the subsets of
a finite set exists (`FoldExists`), a sum over a set grows by what is added
(`TotalWithOneMore`), and a page that is filled up to some place is right up to there
(`FillOne`, `FilesOfPage`). A listing has each file once, at its rank
(`ListingOfTree`, a counting argument), so an answer has the files of its ranks,
apart from those that did not fit (`AnswerIsFair`). `SnapshotIsWhole` says nothing
of a pull under way; the inductive invariant `BrokerInv` says that the pages
are answers (`PagesAreAnswers`), lie behind the cursor (`PagesBehind`), do not overlap
(`PagesApart`) and leave no rank out (`PagesCover`).

Only model-checked: `EveryEventSettles`, `EveryUpdateSettles` and `PullEnds`, which
are liveness under fairness. The prover reaches neither that nor `ENABLED`.

## Plan

1. *(done)* `EventLedger`, `EventClaims`, `FifoQueue`, `SlackEvents`, their runs
   and proofs.
2. *(done)* `SlackApps`, `SlackParameters`, `SlackReconciler`, `OAuthCallback`,
   `OAuthState`, `SlackInstallation`, with `AgentIdentity` as the abstract specification.
3. *(done)* `ChannelService` and `TelegramBot`: at most once, across restarts.
4. *(done)* `AgentTargets` over a history of commits.
5. *(done)* `GitHubBroker`: paging through a tree while its ref moves.
6. *(done)* The safety properties of the Slack path about replies, sessions and
   threads, as theorems, and the path as an implementation of `EventService`.
7. `SlackEvents` over the parameters of `SlackInstallation`, so that an agent is
   loaded twice, by ingress and worker, with a rotation in between.

## Not modelled

- Signature checks, schema validation and the normalisation of Slack's JSON are
  stateless and covered by unit tests; here a check passes or raises.
- The chunks of a reply are one post that may raise after it began.
- The broker's other tools are one request each, with nothing kept between two
  of them; the token minted before each is not seen by the agent. `truncated`
  trees say of themselves that they are not whole.
- Refs that move while `resolve_agent_targets.py` runs: `git diff`, `ls-tree` and
  `rev-parse` each resolve a ref anew (`resolve_agent_targets.py:246-251`, `:348-349`),
  so it should be given commits.
- Two commands of `reconcile.py` for one agent at the same time.
- The retries of the AWS client inside one call of `invoke_harness`, in the Telegram
  bot and in the Events worker; those of DynamoDB's conditional writes are modelled.
- The typing indicator of the Telegram bot: a thread that sends and ignores errors.
- The Harness module's allowed tools are one expression over its variables.
- Retention of messages in SQS (four days by default) is beyond every window
  considered; so is an event that is queued for longer than its record is kept.
- The CLI, manifest rendering, the coding image's shell wrappers, the
  deployment's declarative resources and the mise extension keep no state between
  steps. `PROJECT.json` gives the reason for each.
