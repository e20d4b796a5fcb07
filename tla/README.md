# alarm-receiver in TLA+

`alarm-receiver` (formerly `online-receiver`) is one Rust process. It subscribes to the MQTT topics
`online/+/features/+` and `alarms/+/features/+/+`, checks each message against the sensor's document in
MongoDB, uses up the message's nonce in a replay cache (Redis 2), and writes either an alarm event (Redis 3)
or the online status of a device (Redis 0). A Rocket server answers `GET /keepalive`.

This directory models that behaviour, checks it with TLC on small instances, and proves the central parts
with TLAPS for all of them. Paths below are relative to the repository's root; `main.rs` is `src/main.rs`.

## 1. Inventory

| Component | State it keeps | Operations | Hard part | What makes it correct |
|---|---|---|---|---|
| Message checks (`main.rs`, `models/topic.rs`, `mqtt/mod.rs`) | none | decode, parse, envelope, topic, signature, alarm payload | their order; what the HMAC binds and what it does not (the topic) | only genuine, well-directed messages pass |
| Handler `process_mqtt_message` (`main.rs:288-367`) | the message, the sensor document and clock readings across four kinds of await | look up, verify, claim the nonce, write | redelivery, stale readings, unknown outcomes, crashes between claim and write, two processes | at most one effect per notification; none lost in silence after the claim, but with its task |
| Replay cache (Redis 2) | a key per used nonce, with a TTL of 720 s | `SET NX EX` | the TTL against the window of +-300 s | a used nonce stays used while its message is fresh for anyone |
| Alarm store (`db/alarm.rs`, Redis 3) | a hash per event (24 h), the sorted index `alarms:pending` (no expiry) | `insert_alarm_event` | two lifetimes | index and hashes agree; the two times of an event agree |
| Online status (`db/online.rs`, Redis 0) | a hash per sensor; `fcm_by_api_token` is read only | `insert_or_update_online`: EXISTS, HGET, HGET, HSET | no transaction; other services write and delete the same hashes | `createdAt` is historical, never missing, never after `modifiedAt`; the FCM token follows its registration |
| Sensor lookup (`db/sensor.rs`, MongoDB) | a document per sensor, written elsewhere | `find_sensor_auth` | the document changes while it is used | an event is filed under the token it was signed with |
| MQTT session (`mqtt/mqtt_client.rs`, `main.rs:241-266, 358-366`) | connection, subscriptions at the broker, a stream of 25 items | connect, subscribe, next message, reconnect | items dropped, markers lost, retries, restarts | every loss is noticed and repaired, unless its marker was dropped |
| MQTT options (`mqtt/mqtt_options.rs`, `mqtt_config.rs`) | the merged CA bundle under `/tmp`, which survives the process | `merge_ca_files`, `build_ssl_options` | a crash between its writes; certificates that are renewed | who connects trusts the two certificates it has read, whole |
| Startup, shutdown (`main`) | process alive or not, three Redis connections | every step up to Rocket, `abort` | failures that end the process and one that is retried for ever; the abort at any await | it comes up when everything answers; nothing of an aborted handler goes on |
| Configuration (`config/mod.rs`) | the environment, read once | `init` | what it holds is used unchecked | every Redis connection goes where it says |
| Rocket routes and catchers, logging, error types, typed message helpers | none | constants, names | none | not modelled |

**How they interact.** The paho client puts messages, and `None` when it loses the connection, into the
stream from its own thread. One task takes them and awaits `process_mqtt_message` for each, so one process
handles one message at a time. Two handlers overlap all the same: in a rolling update, and when a process that
died had sent requests that Redis has yet to answer while its successor is at work. That is why `Receiver`
has a set of `Instances`. MongoDB and the three Redis databases are shared with services outside the
repository.

## 2. Modules

| Module | Models | State |
|---|---|---|
| `Notifications` | every synchronous check, as operators | none |
| `AlarmStore` | `db/alarm.rs` | `alarms` (hash per key, with its expiry), `pending` (index scores) |
| `Presence` | the abstract specification of `OnlineStatus`: a heartbeat as one step | `clock`, `online` |
| `OnlineStatus` | `db/online.rs` among the other writers | `online`, `fcm_by_api_token`, `call` (each receiver's place in the four commands) |
| `Receiver` | `process_mqtt_message`; composes the three above | `pc`, `msg`, `auth`, `at` per receiver; `registry` (MongoDB); `replay` (Redis 2: the expiry of each key); `unanswered` (SETs nobody waits for any more); histories `claimed`, `stored`, `failed`, `aborted` |
| `Admission` | the abstract specification: what the handler promises of signed notifications | the status of each notification |
| `MqttSession` | the connection, the stream, the loop and the `None` branch | `phase`, `link`, `subscribed`, `stream`; the history `unnoticed` |
| `Service` | one process: `MqttSession` and one receiver of `Receiver` composed; the stream holds messages | those of both, `stream` as [msg, arrived], `arrived`, `since` |
| `RedisUrl` | `redis_url_with_credentials`, and how the redis crate reads the result | none |
| `Startup` | `main` up to Rocket, the file under `/tmp`, the supervisor; extends `RedisUrl` | `stage`, `env`, `con`, `bundle`, `written`, `unwritten`, `certs`, `mine`, `up` |
| `ReceiverProofs`, `AdmissionProofs`, `ReceiverStoreProofs` | theorems about `Receiver`, the last two both extending the first: claims and effects, the refinement of `Admission`, the stores and the refinement of `OnlineStatus` | - |
| `OnlineStatusProofs`, `MqttSessionProofs`, `ServiceProofs`, `RedisUrlProofs`, `StartupProofs` | theorems about the module each is named after; `StartupProofs` extends `RedisUrlProofs` | - |
| `MCReceiver`, `MCOnlineStatus`, `MCMqttSession`, `MCService`, `MCStartup` | instances for TLC | - |

### From code to actions (`Receiver`)

The handler is cut at its awaits; everything between two awaits is one action.

| Action | Code | `pc` after |
|---|---|---|
| `Receive` | `main.rs:297-317`: payload, JSON, envelope, topic, topic against note | `lookup` |
| `Lookup` | `find_sensor_auth`: MongoDB evaluates the query | `verify` |
| `Admit` / `Reject` | `main.rs:324-329`: alarm type, freshness, HMAC, alarm payload | `claim` / `idle` |
| `Claim` | Redis applies `SET NX EX`: the nonce is won and the TTL begins, but the receiver does not know it | `answer` |
| `Refuse` / `ClaimFails` | the key exists / the command fails before Redis has applied it, which Redis may still do | `idle` |
| `BeginAlarm` / `BeginOnline` / `InvalidUuid` | the OK arrives; in the same stretch the UUID tests, then `received_at` (`alarm.rs:45`) or the first Redis call of a heartbeat | `alarm` / `online` / `idle` |
| `AnswerLost` | the OK does not arrive: the claim fails after the nonce was won | `idle` |
| `LateSet` | external: Redis applies a `SET` whose caller has given up | |
| `StoreAlarm` / `AlarmFails` | the MULTI/EXEC is applied / fails as a whole | `idle` |
| `ReadOnline`, `StoreOnline` / `OnlineFails` | EXISTS, HGET, HGET, then HSET / an error of EXISTS or HSET | `online`, `idle` |
| `Abort` | `mqtt_handle.abort()`, a crash, then a restart; what the task held goes into `aborted`, for nothing reports it | `idle` |
| `ChangeSensor`, `Tick` | external: another service; time | |

A message whose first checks fail leaves nothing but a log line, so it has no action: `WellFormed` is the
guard of `Receive`. An answer that is lost after Redis applied the command is a `StoreAlarm` or `StoreOnline`
as far as the stores are concerned; what differs is one log line.

### From code to actions (`Service`, `Startup`)

`Service` cuts the loop of `main` where `MqttSession` does, with the handler inside:

| Action | Code |
|---|---|
| `Take` | `get_next_message` returns; the handler runs to its first await: `Receive`, the end of a message that fails the first checks, or the reconnection |
| `HandlerStep` | a step of `Receiver`; the stream may grow meanwhile |
| `Finish` | `process_mqtt_message` has returned, whatever it returned (`main.rs:251-264`) |
| `Exit` | a crash, or Rocket's end and `mqtt_handle.abort()`: stream, connection and handler go at once |
| `Deliver`, `LoseLink`, `Outside` | external: the client's callbacks; the registry, late SETs, time |
| `SessionStep` | the other steps of `MqttSession`, unchanged |

`Startup` has one action per await or file operation of `main.rs:226-282`. `Truncate`, `ReadPems` and
`WriteAll` are the calls of `merge_ca_files`, between which the process may die; the file is a sequence of
lines, overwritten in place from where the last write stopped. `Panic` is any of the `expect`s (with
`panic = "abort"`), also for an error of `open` or `write_all` (`mqtt_options.rs:57, 61-63`, the service `"tmp"`
is down), `ConnectFails` and `Wake` the loop of `MqttClient::connect`. `ConnectMongo` contacts no server:
`connect_mongodb` parses the URL (`db/sensor.rs:23-28`; the DNS lookup of a `mongodb+srv` URL is left out).

### Abstractions

- A topic is its sequence of levels. Bytes, JSON and hex are what their decoding tells apart (`encoding`,
  `signature.hex`). The HMAC is ideal: a tag is a key and a text, and the text is the six fields it covers.
- `payload` is the number under `"value"`, or `NoValue`.
- `clock` is milliseconds of true time, which is also how Redis counts expiries. `SystemTime::now` (`Now`) reads
  a value that is off by a member of `ClockErrors`, by at most `MaxClockError`, and may go back from one reading to
  the next. `as_secs` cuts a reading off (`AsSecs`), `as_millis` does not. Something happens at `Instants` only,
  which bound time in the runs and are any set of numbers in the proofs.
- The OK of a `SET` is there within `MaxClaimDelay` of the freshness test, or the command fails (the response
  timeout of `ConnectionManager`); then Redis may still apply it, at any later time (`LateSet`).
- What `failed` holds is reported (`main.rs:261-264`); what `aborted` holds is not.
- The freshness test computes in i64 as the release build does, wrapping (`I64` stands for 2^63), and the
  timestamps of the model reach below `-I64 + clock`, where it does wrap.
- A Redis URL is a sequence of the characters that URLs tell apart; everything else is one character, `x`.
- In `Service` the task does not idle while an item waits, and a handler takes at most `MaxHandling`
  milliseconds: time passes only so far.
- Both stores outlive the process. A Redis that loses its data is not modelled.
- In `Receiver`, hashes of Redis 0 are not deleted and no FCM tokens are registered; `OnlineStatus` has both.

### The assumption on the constants

`CacheOutlivesWindow`: `1000 * TTL > 2000 * Skew + 999 + 2 * MaxClockError + MaxClaimDelay`. The 999 ms are what
`as_secs` adds to the window: a message stays fresh until the second in which it gets too old is over. With the
numbers of `main.rs:22-23`, 720000 > 600999 + 2 * error + delay: the code has 119 seconds, to the millisecond,
for the clock's error (counted twice) and the delay of the `SET`. `AtMostOnce` needs every one of these terms;
the mutant that takes one second off the TTL breaks it.

## 3. What TLC checks

| Run | Instance | Shows |
|---|---|---|
| `alarms` | 1 receiver; 5 signed or forged alarm messages and 9 malformed ones, one of them signed with a timestamp so old that i64 wraps; a sensor with three owners, one with a malformed token; skew 1 s, TTL 4 s, clock off by +-200 ms, delay 600 ms | `TypeOK`, `NonceUsedByGenuine`, `AlarmJustified`, `AlarmTimely`, `PendingResolves` |
| `race` | 2 receivers (symmetric); one notification on two topics of its sensor, which may be revoked, and one of an owner with a malformed token; windows as in `alarms` | `AtMostOnce`, `EffectOnce`, `ClaimAccountedFor` |
| `reuse` | 2 receivers (symmetric); a device that uses one nonce for two alarms, whose events have one key; windows as in `alarms` | `EventsApart` |
| `handler_live` | 2 receivers; an alarm and a heartbeat; skew 0, TTL 2 s, delay 1 s; `FairSpec` | `Settled`, `ImplementsAdmission`, `ImplementsOnlineStatus` |
| `online_one` | 1 receiver, 2 sensors; hashes begun and deleted elsewhere; reads are answered; clock off by +-1 ms | `TypeOK`, `CreatedAtHistorical`, `CreatedBeforeModified`, `ImplementsPresence` |
| `online_race` | 2 receivers (symmetric), 1 sensor; reads may fail; no deletion | `HashComplete` |
| `online_live` | 1 receiver, 2 FCM tokens; deletions, failing commands, crashes; `FairSpec` | `IncompleteRepaired`, `FcmTokenFollows` |
| `session` | the stream's real limit, 25; messages and markers dropped when it is full; `FairSpec` | `TypeOK`, `MarkersTrue`, `LossNoticed`, `LinkRestored` |
| `session_resubscribe` | the same | **violated**: `WaitsSubscribed` (section 5) |
| `service` | 1 process, a stream of 2, handlers of up to 1 s; an alarm of a sensor that may be revoked, and a message that fails the first checks; losses also while the stream is full; skew 1 s, TTL 4 s | `NothingBehindLoss`, `WaitBounded`, `NoHandlerLeft` |
| `service_live` | 1 process, a stream of 2; a heartbeat of a sensor that changes hands and an alarm on an online topic; `FairServiceSpec` | `OnlineJustified`, `RunsAsSession`, `NoneStarves` |
| `startup` | 2 versions of each certificate, 1 renewal, 1 crash at any point; Redis, the broker, the certificates and `/tmp` come and go; a MongoDB URL that does not parse; TLS, or 25 combinations of credentials with and without reserved characters, URIs with credentials of their own and without a scheme; `FairSpec` | `TypeOK`, `TrustStoreWhole`, `ConnectsAsConfigured`, `ComesUp` |

No run turns deadlock checking off: something can always be received, or begun, or lost.

**What the composition adds.** `ImplementsOnlineStatus` says that the heartbeats of `Receiver`, with the aborts and
failures of their tasks, are calls as `OnlineStatus` has them, so that what is checked and proved there of any
number of overlapping receivers holds of the handler's. `RunsAsSession` says the same of `Service` and
`MqttSession` with its fairness: that a handler returns (`WF(Handle)`) is assumed there and follows here from the
fairness of the handler's own awaits. That the steps of `Service` are steps of `Receiver` holds by the way it is
composed and is no property; what is one is that a handler and its item belong together, `NoHandlerLeft`, which an
`Exit` that forgets the abort breaks.

`WaitBounded` bounds the time a message takes, `(StreamLimit + 1) * MaxHandling` from its arrival to its end. With
the code's numbers, 26 lookups of 30 s (`db/sensor.rs:42`) are 780 s and the window is 300 s, so after a MongoDB
outage genuine messages that arrived in time may be refused as stale; so they may in the runs.

**Bounds.** The windows are scaled down: skew 1 instead of 300, and the smallest TTL that
`CacheOutlivesWindow` allows to the millisecond, which is the hardest one. The `Instants` are those at which
something begins or ends: with a clock off by 200 ms a notification of second 3 is fresh from 1800 to 5199, its
claim ends by 5799, and a key set at 1800 expires at 5800. So a claim at the last moment, a reused key, an answer
that takes as long as it may and a dangling index entry all occur, and the bounds of `AlarmTimely`, `EventsApart`
and `WaitBounded` are reached: one millisecond less and the runs fail. Two receivers are
what a rolling update has. The caps are `Instants` (in `Tick`), `MaxRenewals` and `MaxCrashes` (guards
of `Renew` and `Crash`); `claimed` and `stored` are bounded by the properties themselves. The stream of
`Service` holds 2 items, which is enough for one to wait behind another and for a third to be dropped; the
limit of the code is in `session`. Receivers are interchangeable, so symmetry is used in the safety
runs and never with liveness.

**Fairness.** `Receiver`: weak fairness of each receiver's next step, because every await ends: MongoDB's
query has `max_time` 30 s (`db/sensor.rs:42`) and a Redis command is answered or times out. Messages, aborts
and changes of sensors are not fair. `OnlineStatus`: heartbeats of each sensor keep coming and each command,
sent again and again, is answered some time; the `HSET` also when it carries a token, since its success does
not depend on which `HGET` was answered before. Without that last assumption a Redis that fails precisely
those `HSET`s would keep the token out for ever. `MqttSession`: sleeps and handlers end, the process is
restarted by its supervisor, and a broker that is asked again and again accepts some time (strong fairness of
`Connect` and `Reconnect`). `Service` replaces the fairness of handling by that of the handler's steps. `Startup`:
`main` goes on as long as it can and the supervisor restarts it; Kubernetes' liveness probe kills a process
that does not answer while `connect` retries, for Rocket is launched after it; and the broker is tried before
the probe loses its patience, if not at every start (strong fairness of `Connect`). The probe is what makes
`ComesUp` true after a renewed root certificate: the bundle is read once, so only a restart can trust it.

**Mutants.** The definitions whose comment begins with "Mutant" are variants of the definition that follows
them, each a plausible mistake in the code. No specification uses them: putting one in the place of its
original shows that the property it is listed with in `PROJECT.json` can fail.

## 4. What is proved

Everything in this section is checked by `tlapm` and holds for every value of the constants that satisfies the
named assumptions of the modules, which TLC evaluates on its instances. A proof of an invariant has the same
shape everywhere: what a step can do is first reduced to a few summaries, each a lemma, and the inductive
invariant is then preserved summary by summary.

### The handler: claims

`ReceiverProofs.tla`, for every finite or infinite set of receivers and messages, every registration, and every
value of the windows and the instants that satisfies the assumptions of `Receiver`:

- `TypeCorrect`: `Spec => []TypeOK`. One step per action; the records of the stores are typed by lemmas of
  their own (`EventTyped`, `WrittenTyped`), the commands of a heartbeat by `OnlineTyped`.
- `ClaimedAtMostOnce`: `Spec => []AtMostOnce`. `AtMostOnce` is not inductive: nothing in it says why a second
  claim fails. The invariant `ClaimInv` adds `Timing` (a receiver about to claim looked at the notification
  between `Opens` and `Closes`, the ends of its window) and `ClaimsCached` (the replay key of a claimed
  notification lasts until `Opens` and a TTL). `ClaimedIsCached` puts the two together: a claim comes at the
  latest at `Closes + MaxClaimDelay`, which by `CacheOutlivesWindow` is before that key expires, so the `SET NX`
  finds it. `SetNonceExtends` shows that setting a key never shortens another notification's protection, also where
  two notifications share a nonce, where the answer is lost and where Redis applies the `SET` long after. The
  invariant's part `Checked` says that what passed the first checks has a positive timestamp; with it
  `FreshInWindow` shows that the wrapping i64 test on whole seconds (`WholeSeconds`) means no more than the window
  in milliseconds, and without it that is false.

### The handler: effects

The second part of `ReceiverProofs.tla`. `Moves` says what a step does to the receivers' places and to the histories, `Ledger`
which of them win, store, lose or idle, `CacheMoves` what becomes of the replay keys and of the `SET`s nobody
waits for.

- `NoncesAreGenuine`: `Spec => []NonceUsedByGenuine`. The invariant `HandsInv` says what a receiver knows of the
  message in its hands (`Hands`, `Admitted`): past `verify` the sensor document is one MongoDB has had, the topic
  fits it, the HMAC is under its token and the payload is one of that topic. `SentByGenuine` says the same of a `SET` that Redis has yet to apply,
  without which `LateSet` could put a forged key into the cache.
- `OneEffect`: `Spec => []EffectOnce`. Not inductive: that a notification is stored at most once rests on who holds
  it. `SolelyHeld` says that a notification that is held has been claimed once, is neither stored, reported as
  failed nor dropped, and is in no other hands; `OneOutcome` that a failed or dropped one is not stored. With `ClaimInv` (a second claim
  is impossible) they make `EffectInv`.
- `NothingVanishes`: `Spec => []ClaimAccountedFor`: held, stored, reported as failed, or dropped with its task.

`AdmissionProofs.tla`: `KeepsPromise`, `Spec => Promise!Spec`, the safety part of `ImplementsAdmission`. A claim is
an `Admit` of the abstract specification (inside its window, by `Timing` and `FreshInWindow`), a store an
`Apply`, a reported failure or an abort a `GiveUp`, and every other step leaves the status of each notification as it
is. The proof found a fault in the model: the refinement mapping `StatusOf` was a `CASE` whose guards overlapped
(a notification both stored and failed was "applied" and "lost"), so that its value was not determined and TLC
silently took the first. Its guards are disjoint now, and such a notification maps to a status that `Admission`
does not have.

### The handler: stores

`ReceiverStoreProofs.tla`. Only `StoreAlarm` writes events (`AlarmMoves`, `Stored`).

- `AlarmsAreJustified`: `Spec => []AlarmJustified`, from `HandsInv`: the document that admitted the message is still
  in the receiver's hands when it writes, whatever MongoDB holds by then.
- `AlarmsAreTimely`: `Spec => []AlarmTimely`. `Receipts` carries the bound from the freshness test over the answer to
  the transaction: a receipt lies within the window, widened by two readings of the clock and, on the late side, by
  the rest of the second that the test cut off and by the delay of the claim.
- `PendingLeadsToEvents`: `Spec => []PendingResolves`. `Indexed` adds that the score of an entry is the receipt of
  its event and that no hash expires before its retention is over, counted from that receipt; the first alone is
  not enough, since the hash expires and the entry does not.
- `EventsAreApart`: `Spec => EventsApart`, an action property. The TTL starts when Redis applies the `SET`, the receipt
  is read when the answer arrives, and in between other receivers go on. `ApartInv` has three parts beside
  `ClaimInv`: a receipt, in hands or in Redis, is no more than `MaxClaimDelay` and a clock error younger than the
  `SET` of its key, so the key lasts to a TTL less these after it (`ReceiptsCached`); while an answer is on the
  way in time, no other answer of its key is, and every receipt under it is a TTL, less the delay and the error,
  older than the clock is by then (`AnswersApart`); and any two receipts of a key lie that far apart (`ReceiptsApart`),
  whoever holds them, so also when their transactions change places.
- `OnlineIsJustified`: `Spec => []OnlineJustified`. `CallsMatch` ties the arguments of a heartbeat in progress to the
  message its receiver holds.
- `HandlerRunsAsOnlineStatus`: `Spec => ImplementsOnlineStatus`, step by step (`OnlineStep`). A claim on an online
  topic is a `Begin`, a command of the heartbeat its namesake, and an abort a `CallAborted` if the task was in a call
  and a stutter if not. `CallsBegunAndEnded` is the invariant this takes: a receiver is in a call exactly while it
  handles a heartbeat (`ReadingKeeps`: a reply on the way neither ends the call nor changes what it is about). With
  the theorems of the next section: whatever is proved there of `OnlineStatus` without deletions, for two receivers
  above all that no hash lacks its `createdAt`, is so of the hashes the handler writes.

### The online statuses

`OnlineStatusProofs.tla`, for every set of receivers, sensors and tokens. A receiver's step is reduced once, by
`CallEffect`, to what it makes of its call (`Advanced`) and of the hashes (nothing, or the fields of `Written`):

- `OnlineTypeCorrect`: `Spec => []TypeOK`.
- `HashesComplete`: `~MayBeRemoved` implies `Spec => []HashComplete`, for any number of overlapping receivers.
  The invariant `CompleteInv` adds `CallTimes` (a call's time lies between 1 and the clock; before EXISTS is
  answered no `createdAt` is known) and `ReadIsThere` (a `createdAt` that a call has read is there still, so
  the `HSET` that leaves it out leaves none out). With deletions it is false, which is what
  `IncompleteRepaired` is about.
- `TimesInOrder`: where any two receivers are the same one, `Spec => []CreatedBeforeModified`, here also with
  failing reads, which the run `online_one` leaves out. The invariant `OrderInv` adds `NoneAhead`: no
  `createdAt` lies ahead of the clock, nor of a call that has read its time.
- `CreatedAtStays` and `HeartbeatsAreSteps`: where any two receivers are the same one and reads are answered,
  `Spec => CreatedAtHistorical` and `Spec => ImplementsPresence`, whatever the other services write and delete
  between the commands. The invariant `PresenceInv` adds `Current`, what a call knows of its hash until its HSET:
  where it has found no `createdAt` there is none, and the hash was not modified after the time the call has read.
  With it the HSET is one `Heartbeat` of `Presence` (`HsetIsHeartbeat`), the writes of the other services are its
  `SetPreferences` and `Remove`, and every other step is a stutter (`CallAnswered`). Both hypotheses are needed:
  with two receivers the heartbeat timed first may be written last, and a failed HGET writes `createdAt` anew.

### The session and the process

`MqttSessionProofs.tla`, for every limit of the stream:

- `SessionTypeCorrect`: `Spec => []TypeOK`.
- `MarkersAreTrue`: `Spec => []MarkersTrue`. `SessionInv` adds that the stream holds nothing before the first
  connection (`NothingBeforeConnect`); `AppendMarks` and `TailMarks` say where the markers of a stream are
  after a push and after a take.
- `EveryLossNoticed`: `Spec => []LossNoticed`. The marker that would tell of a loss may find the stream full;
  `unnoticed` remembers it until the next session, and the theorem says that this is the only exception.

`ServiceProofs.tla`, for every limit of the stream and every `MaxHandling`:

- `HandlersEndInTime`: `ServiceSpec => []NoHandlerLeft`. The invariant `QueueInv` has it as a part, beside what the
  next two need: a marker is the last item of the stream and found only while the connection is down (`LinkInv`).
- `LossComesLast`: `ServiceSpec => []NothingBehindLoss`, from `QueueInv`.
- `WaitsAreBounded`: `ServiceSpec => []WaitBounded`. The inductive invariant `WaitInv` gives every item
  a bound on its age by its place: an item at place `j` was put in at a place no further back than `StreamLimit`, so
  at most `StreamLimit - j` items and the one then in hand have gone before it, each within `MaxHandling`
  (`Needed`). Where the stream is full nothing is appended, so the limit is what
  bounds the wait.

### Startup

`StartupProofs.tla`, for every `.env`, every contents of the certificates and any number of crashes and renewals.
`Moves` sorts the steps of `Startup` by what they do to the stage and the bundle.

- `TrustsWhatItRead`: `Spec => []TrustStoreWhole`. The invariant `BundleInv` follows `merge_ca_files`: from the
  truncation on the file is this process's own, the place the last `write_all` stopped is its end
  (`WriteAppends`), and what is written and what is left make up the two certificates (`Half`). Without the
  truncation the remains of an earlier process could reach past the end.
- `StartupTypeCorrect`: `Spec => []TypeOK`, from the same invariant, because `TypeOK` says that nothing is written
  past the end of the bundle.
- `ConnectsWithCredentials`: `Spec => []ConnectsAsConfigured`, for credentials and URIs of any length and any
  characters. The invariant `ConInv` is small: what is open was opened with the URL that
  `redis_url_with_credentials` makes. The work is in what that URL means, `InjectedEndpoint` below. Its
  hypothesis `OneUserinfo` is what `main.rs:215-216` says of the URIs that credentials are put into: they are
  `redis://host:port`, without a userinfo of their own. Without it the property is false (section 6); where there
  is no password, URIs may hold one.

### Redis URLs

`RedisUrlProofs.tla`, about the operators of `RedisUrl`:

- `EncodedFaithful`: every string that `urlencoding::encode` has encoded is decoded to itself, and holds none of the
  characters that end a password, a userinfo or an authority. The proof is by induction over the string. `FlattenSeq`
  is first freed of its recursion (`FlattenIs`, `FlattenAppend`), so that encoding and decoding one more character is
  one more concatenation (`EncodedAppend`, `DecodedAppend`, `DecodedAppendCode`). The decoder looks one character
  ahead; that the encoded string never ends in a percent sign (`Closed`) is the strengthening the induction needs.
- `InjectedEndpoint`: the URL with credentials leads to the host and the database of the URI, with just these
  credentials. Each of the three cuts falls where it should: what is put in front of the URI holds no slash
  (`CutBehind`), the `@` behind the credentials is the last one (`SplitAtLast`), and the colon between them the first
  (`SplitAtFirst`).

The library's induction theorems take an operator as parameter, which the provers cannot instantiate.
`SetInduction` and `SequenceInduction` do the same with sets of numbers and of sequences in the place of
predicates, from the theorem that < is well-founded on the natural numbers (`WFMin`).

### Assumptions

Beside `CacheOutlivesWindow` (section 2) the proofs needed facts the instances had and nobody had stated: `None`,
which is the empty name, is no alarm type (`NamesAssumption`; `is_valid_alarm_type` refuses it,
`models/topic.rs:42`), the stream has room for one item (`ServiceAssumption`), and the certificates are sequences of
lines, credentials and URIs sequences of characters (`StartupAssumption`). `IsUrl` says of the empty URI, whose first
character TLC never asked for, that it is none. `Presence!Heartbeat` names the hash it writes instead of nesting one `@` in another,
which `tlapm` reads differently from TLC.

### Not proved

The liveness properties stay with TLC: `Settled`, `IncompleteRepaired`, `FcmTokenFollows`, `LinkRestored`,
`NoneStarves`, `ComesUp`, `RunsAsSession`, and the progress that `ImplementsAdmission` adds to `KeepsPromise`. The
last step from `HandlerRunsAsOnlineStatus` and `HashesComplete` to a theorem about `Receiver` is
not a formal one: `tlapm` does not relate the theorems of an instantiated module to the formulas of its instance.

## 5. Finding

After a lost connection the `None` branch calls `reconnect` only (`main.rs:361`). The session was opened with
`clean_session(true)` (`mqtt/mqtt_options.rs:83`), so the broker starts the new one without subscriptions, and
`subscribe` is called nowhere but in `main` (`main.rs:245`). The task is then "Waiting for incoming MQTT
messages" (`main.rs:249`) that no broker will send, while `GET /keepalive` goes on answering. The run
`session_resubscribe` shows it: connect, subscribe, lose the connection, take the marker, reconnect, and
stay there. A call of `subscribe(TOPICS)` after the loop of `main.rs:361-364` would repair it.

Three further observations, listed as hazards: the nonce is used up before the write, so what fails or crashes
after the claim is lost for good (at most once, not exactly once), and without a report when the task is dropped
(`aborted`); a marker that finds the stream full is dropped, after which nothing wakes the task (`unnoticed`);
and a message may go stale behind slow lookups (`WaitBounded`).

## 6. Not modelled

- Rocket's routes and catchers, logging, error types: they read or write no state of the system. Of the
  configuration, the fields that no step of `Startup` depends on; of the MQTT options, credentials, keep-alive
  and last will, which are handed to the client as they are.
- The decryption of api tokens (`utils_api_token/mod.rs`): a document whose token does not decrypt is `NoAuth`.
- Two processes with one MQTT client id, as in a rolling update: the broker drops the older connection, whose
  process reconnects and drops the newer one, without subscriptions on either (a consequence of section 5).
- A Redis URI that has a userinfo of its own and gets a second one from the environment.
- `models/message.rs`, `get_msg_byte`, `get_bytes_from_payload`, `MqttClient::disconnect`: the program calls
  none of them.
- The order of the keys in the re-serialised payload that the HMAC covers (`main.rs:59`).
- Consumers of `alarms:pending`, the services that register sensors, FCM tokens and preferences, beyond the
  external actions that stand for them; the paho client and the broker, beyond `Push`, `Deliver`, `LoseLink`.

## 7. Plan

Done: `Notifications`, `AlarmStore`, `OnlineStatus` with `Presence`, `Receiver` with `Admission`, `MqttSession`,
`Service`, `RedisUrl`, `Startup`; the runs; a theorem for every invariant and every action property or safety
refinement that a passing run checks.

What is left:

1. With overlapping receivers or failing reads `CreatedAtHistorical` and the order of `modifiedAt` fail by a bounded
   amount; state how much, and prove it from `CallTimes` and `Current`.
2. `Topic::new`, its printed form and the subscribed filters against each other, over bounded topics.
