# Formal models of webex_kms_sdk

TLA+ models of the Webex KMS SDK for Python (`src/src/webex_kms_sdk/`), the TLC
runs that check them on small instances, and TLAPS proofs that the safety
properties hold for instances of any size. The SDK is small, but nearly everything in it happens between
two suspensions of an asyncio loop while other tasks, a websocket, a remote
service or another thread change what was read before. That is what the models
keep; cryptography, parsing, URLs and logging are left out.

## 1. The system

| Component | Source | State | Operations | Talks to |
|---|---|---|---|---|
| EncryptionClient | `encryption.py` | key cache, in-flight table, ECDH context with its TTL and lock, table of pending KMS requests | `get_key`, `process_kms_messages`, `decrypt_text`, `decrypt_message_content` | CoreHTTPClient (requests to KMS), Mercury (replies), ConversationClient |
| MercuryClient, connection | `mercury.py` | websocket, `_connected`, `_connecting`, `_closing`, `_has_connected`, reader, ping and reconnect task | `connect`, `disconnect` (`listen`, `stop_listening`) | DeviceClient through its provider (URL, register), the Mercury service |
| MercuryClient, events | `mercury.py` | table of handlers | `on`, `off`, `clear_handlers`, `process_event` | ConversationClient and user handlers, one task each |
| DeviceClient | `device.py` | the WDM device, `_registered`, callbacks | `register`, `unregister`, `refresh`, `wait_for_registration`, `get_*` | CoreHTTPClient (WDM) |
| ConversationClient | `conversation.py` | table of handlers, the content of each Activity | `on`, `off`, `connect`, its two Mercury handlers, `get_message_content` | Mercury, DeviceClient, EncryptionClient, user handlers |
| ThreadedWebexClient | `threaded.py` | `_connected`, `_closed`, thread, loop, client | `set_custom_websocket_url`, `connect`, `get_key`, `decrypt_text`, `close` | a background thread that runs WebexClient |
| CoreHTTPClient, WebexClient | `core.py` | HTTP session, sub-clients created on first use | `request_url` with retries, `aclose` | all of the above |
| Models, errors, configuration | `models.py`, `errors.py`, `config.py` | none | parsing, exception classes, defaults | |

What is hard in it:

* *Coalescing.* Callers of `get_key` share one task per URI. Calls that start,
  end, fail or are cancelled around the end of such a task race on the in-flight
  table (`encryption.py:97-135`).
* *One ECDH session for all tasks.* It expires, is invalidated by a task whose
  request failed and re-established by another, under a lock that is held over
  HTTP requests and the wait for KMS (`encryption.py:436-506`).
* *Two ways for an answer.* KMS answers in the HTTP response, or with 202 and a
  later Mercury message that may be late, repeated, reordered or lost, and may
  overtake the 202. It is decrypted with the context that is current when it
  arrives (`encryption.py:149-254`).
* *Mercury connections that overlap.* `disconnect` does not stop an attempt or
  the reconnect task; each connection leaves loops behind which act on the
  client's shared flags (`mercury.py:113-139`, `390-576`).
* *Device calls without a lock.* Each reads the local device, sends a request and
  writes the local device (`device.py:36-183`).
* *Requests that are repeated.* `request_url` sends a POST or DELETE again after
  an answer that does not say whether it was carried out (`core.py:110-152`).
* *One task per handler.* An event fans out to Mercury handlers, one of them hands
  its KMS messages to the key retrieval and its activity to further handlers, each
  of which waits for the key by itself and writes to the same Activity
  (`mercury.py:426-488`, `conversation.py:282-385`).
* *Real threads.* The threaded client tests its state under a lock, submits to
  the loop without it, and tears the loop down while others wait
  (`threaded.py:99-246`).

What makes each component correct, in a sentence: a `get_key` returns the key of
its URI or an error, in the end, with at most one retrieval per URI and no
residue in the tables; a Mercury client that says it is connected has a
connection that is read, a lost connection is noticed, and `connect` is refused
only while an attempt is under way; the local device exists at WDM, WDM has no
device that the client has forgotten, and nobody waits for a registration that
has happened; every activity reaches its handlers, in order, and with plaintext
once there is any; `close` ends and leaves no thread.

`PROJECT.json` lists the components with what is modelled of each, and under
`hazards` the places where the code is most exposed to one of these problems, with
the properties that cover it or the reason why none does.

## 2. The modules

| Module | Contents |
|---|---|
| `EncryptionClient` | the retrieval of keys: calls, tasks, session, pending table, messages |
| `KeyRetrieval` | what `get_key` promises its callers, without sessions, requests or messages |
| `EncryptionRefinement` | the refinement mapping from the first to the second |
| `MercuryClient` | connection, loops, reconnect |
| `MercuryUsage` | the same, with a note whether its users called it at rest only |
| `MercuryConnection` | what the client promises: a link, attempts, `disconnect` |
| `MercuryRefinement` | the refinement mapping from the first to the third |
| `CoreHTTPClient` | `request_url`: attempts, answers, retries |
| `DeviceClient` | registration against WDM, composed with `CoreHTTPClient` |
| `ConversationClient` | dispatch of events and activities, handlers, decryption, over the key retrieval as `KeyRetrieval` describes it |
| `ThreadedClient` | threads, the loop and its shutdown |
| `...Proofs` | the theorems about the module of that name |
| `MC...` | finite instances for TLC and their symmetry |

In all modules but `ThreadedClient` everything runs on one
asyncio loop, so an action is what one task does from where it resumes to where it next
suspends: the locks in `get_key`, `mercury.py` and `device.py` are never held
across an `await` and never make anyone wait (`_ecdh_lock` is, and is modelled).
In `ThreadedClient` an action is what a thread does under the lock, or between
two blocking calls.

### EncryptionClient

`callPc`, `callUri`, `callTask`, `callKey` are the invocations of `get_key`;
`keyCache`, `inflight`, `pending`, `current` the fields `_key_cache`,
`_inflight_keys`, `_pending_requests`, `_ecdh_context`; `taskPc`, `attempt`,
`session`, `answer`, `taskKey` the locals of `_retrieve_key_via_ecdh` and what it
calls; `owner` is the holder of `_ecdh_lock`; `sent` are the replies KMS has
pushed. A task has the name of the call that created it. Actions: `GetKey`
(`get_key` up to its `await`), `ResumeCall` (its `finally`), `CancelCall`,
`WaitForLock` / `ReuseSession` / `BeginExchange` / `SendCreate` / `Establish` /
`FailExchange` (`_get_or_create_ecdh` to `_send_ecdh_request`), `SendRetrieve`,
`KmsAccepts` (202), `TimerFires`, `Succeed`, `SessionError`, `OtherError`,
`Invalidate` (`_do_kms_retrieve` and the retry), `Deliver` and
`CacheUnsolicited` (`process_kms_messages`), `KmsReplies` and `ExpireSession`
(KMS and the clock).

Choices of abstraction:

* A key is identified with its URI, a context with the create request that made
  it. KMS answers for the URI it was asked.
* A reply says *key*, *bad status* or *no key*. For a create request the last
  two both mean that the EC key is missing; its status is not looked at.
* Replies never leave `sent`, so loss, delay, duplication and reordering need no
  actions of their own. `process_kms_messages` handles one message at a time.
  Messages that are plain JSON, without encryption, are not modelled.
* Waiters get `_ecdh_lock` in any order; asyncio's order is one of them.
* When the timer of `wait_for` fires on a future that is already resolved,
  Python 3.11 returns the result and 3.12 raises: both are possible.

### MercuryClient

`ws`, `connected`, `connecting`, `closing`, `hasConnected` are the fields;
`latest` is the connection whose loops `_reader_task` and `_ping_task` are; each
actor (a user, or the reconnect task) has a `pc`, the retries it has `left` and
the websocket (`sock`) it works on; `reader`, `reads`, `pinger`, `pings` describe the reader
and ping loop of every connection ever published. Actions follow the functions:
`Connect`, `Disconnect`, `Left`, `CancelConnect`; `ProviderAnswers`,
`ProviderFails`, `Opens`, `OpenFails`, `AuthFails`, `Dropped`, `Wake`, `Publish`
(`_connect_with_backoff`, `_attempt_connection`); `BeginReconnect`,
`StaleClosed` (`_reconnect`); `ReaderStarts`, `ReaderTurns`, `ReaderFails`, `BadFrame`,
`CancelledReaderEnds` (`_reader_loop`); `PingSent`,
`PongArrives`, `PingFails`; `ConnectionLost`.

* Tasks that are ready run in any order. The loop runs them first in, first out,
  which is one of these orders, but how many turns an `await` takes depends on the
  versions of Python and websockets; so the properties do not rest on it. In
  particular a `connect` may publish its websocket between the end of a reader and
  the first step of the reconnect task, which then takes and closes that websocket
  while `_connected` is true (`mercury.py:310-321`, `554-564`).
* A reader is *new* until its first look at `_ws`, and *cancelled* until its
  `finally` block has reset `_connected`. A cancelled ping loop has nothing left to
  do and just ends, except that `wait_for` may swallow the cancellation.
* A custom websocket URL is a provider that answers at once. Cancellation of
  `disconnect`, the content of frames and the handlers are left out.

`MercuryConnection` has a link that is *none*, *up*, *broken* or *taken* (by a
reconnect task that was created before it was up), the attempts under way, and
whether a reader that `disconnect` has cancelled is still to end. `MercuryRefinement` maps `is_connected()` and the published websocket to
the link, and everybody between the call of `connect`, or the creation of the
reconnect task, and its end to the attempts.

### CoreHTTPClient and DeviceClient

`CoreHTTPClient` is a module of actions without a next-state relation of its own:
`Send`, `Returns`, `Raises`, `Sleeps` and `Repeats` are the steps of one
`request_url`, and `carried` says whether the service has carried out the attempt
on the wire. An answer of 423 or 429 means that it has not, a success that it has;
502 to 504, everything else and an exception say nothing. `DeviceClient` conjoins
these actions with its own, so that the local state is written in the step in
which the last answer is seen.

`device` and `registered` are the fields, `op`, `pc` and `snapshot` the calls with
the device that each has read, `wdm` the devices that exist at the service,
`withdrawn` those it has dropped by itself; `callbacks` is the list that `register`
goes through. A device is named after the call and
the attempt whose POST created it. The callbacks of waiters only set an event; one of
the user's may raise, and then `register` fails with the device stored and the
callbacks after it are not invoked (`NotifyWaiters`). `overtaken` is a history variable:
it notes which call has written over which device that was not the local one when
that call began. The `get_*` accessors are a `register` followed
by a read; `_registering` is left out because it is written and never read; ETag
and the other fields of the device do not matter here.

### ConversationClient

`ready` is the ready queue of the asyncio loop: tasks run in the order in which
they became ready, and each action of `Run` takes its head. Whatever comes from
outside (a frame, the answer to a retrieval, a call of the user) happens between
any two of them. `table` holds both registries of handlers, `frame` what arrived
with each event, `dispatched`, `begun` and `missed` the handlers its activity was given
to, those that have been called and those whose task has ended before that, `content` the field of the Activity they share.
`Arrives` is `process_event`; `RunRawHandler` and `RunInternalHandler` are Mercury's
handler tasks; `RunPlainHandler`, `RunMessageHandler` and `WakeUp` those of
ConversationClient; `GetMessageContent` is a user with a fresh copy of the activity.
`retrieval`, `waiters` and `cached` are the in-flight table and the cache, with the
step by which a task ends separate from the steps of those it wakes up:
`StartLoad`, `LoadAnswered`, `FinishLoad`, `AskAgain`. `CancelRead` is that user's cancellation
while it waits: the `await` is not shielded (`encryption.py:125`), so it cancels the
retrieval, every handler that waits for it gets the `CancelledError`, which
`except Exception` (`conversation.py:380`) does not catch, and is never called.
`answered` says that a response has been set as the result which the retrieval is
waiting for; the retrieval takes further steps to see it (`wait_for`, and the POST that it
may still be waiting for), and may fail or be cancelled before: then that response is
`lost`, a history variable.

* `post` stands for post and share, `add` for all other verbs. An event carries at
  most one display name, plain or encrypted, and its KMS messages in any of the
  four places the code looks at.
* A KMS message is the response with the event's key, one that cannot be read,
  one that `KMSMessage.from_dict` rejects, or not a string. Whether a response
  answers the request under way (`ResolvesPending`) or not (`CachesKey`) is open.
* Of a handler only the call is modelled; what it awaits afterwards is its own.
  A handler is registered once at a time. The two event types that `process_event`
  skips, and events without an activity, which are logged, are left out.
* Ciphertext decrypts with its key: decryption fails only with the retrieval.

### ThreadedClient

`closed`, `connected`, `thread`, `attached` (`_loop`, `_client`) are the fields,
`loop` goes through *none, running, stopping, draining, drained, closed*, `queue`
is what `call_soon_threadsafe` has handed over, `task` the coroutine of each call.
`mercury` stands for the connection of MercuryClient as far as `connect` depends
on it, `customUrl` and `clientUrl` for the URL that was set and the one in use. The start of the thread is part of `Connect`, which holds the lock over it. It may fail
in three ways: WebexClient cannot be constructed and the fields are reset
(`StartFailed`); `thread.start()` raises and leaves `_thread` set (`ThreadRefused`);
`new_event_loop()` raises in the thread, outside of its `try`, and `connect` waits for
`_ready` for ever, with the lock (`LoopRefused`, `stuck`), so that no later call gets
past it (`LockFree`).
Calls from the loop's own thread, which the code refuses, are left out; `decrypt_text` is a `get_key` here.

Right before an operator there may be another with the same parameters that
nothing refers to: it is a plausible mistake in that operator (a dropped guard, a
missing reset), and `mutants` in `PROJECT.json` names the property that TLC must
then find violated. A property that no such mistake breaks is not kept.

## 3. What TLC checks

| Run | Instance | Shows |
|---|---|---|
| `encryption_safety` | 2 calls, 2 URIs, 1 pushed reply | `KeyMatchesUri`: no late, repeated or crossed reply gives a caller or the cache the key of another URI. `PendingOwned`, `AwaitedIsRegistered`, `AnswerCorrelated`: the pending table holds what is awaited, from before the POST, and a future only gets its own reply. `ExchangeExclusive`: one exchange at a time. `FailedSessionGone`: a retry never meets the context that failed. |
| `encryption_coalescing` | 3 calls, a good and a malformed URI, 1 pushed reply | `SingleFlight`: one retrieval per URI, and the one a new call joins. `NoRefetch`: a key once retrieved is not retrieved again. |
| `encryption_liveness` | 2 calls, 2 URIs, KMS silent on Mercury | `EveryCallEnds`; `ImplementsKeyRetrieval`, its fairness included. |
| `mercury_safety` | 1 user at any time, no cancellations, 3 websockets | `ConnectingHasAttempt`: `connect` is refused only during an attempt. For users who call only at rest, `ConnectedIsServed`: `_connected` means that the published websocket has its reader, the one `disconnect` would cancel; `OneConnection`: one attempt and one websocket at a time, none of them forgotten; `DisconnectedIsQuiet`: nothing but old ping loops after `disconnect`. |
| `mercury_liveness` | 1 user at any time, cancellations, 2 websockets | `LossNoticed`, `ReconnectEnds`; `ImplementsConnection`, its fairness included. |
| `device` | 4 calls of any operation, 1 retry, lost and misleading answers, devices withdrawn by WDM | `NoMissedRegistration`: nobody waits for a registration that has happened, unless a callback that raises kept `register` from telling or an overtaken `refresh` registered. `DeviceAlive`: the local device exists at WDM, except in the named cases. `NoStrayDevice`: a device at WDM that the client does not know comes from a POST that was repeated, is under way or seemed to fail, or has been written over by a call that had not begun with it: a `register` that another overtook, a `refresh` or `unregister` of an earlier device. |
| `threaded` | 3 calls of any operation | `NoLoopLeft`, `OneCloser`; `UrlInForce`: no custom URL is accepted too late; `CloseEnds`, `WaitersReleased`. |
| `conversation` | 2 events out of 5 frames, 1 key, 3 handlers of which one comes and goes, one topic cleared, a reader of a copy that may cancel, cache on and off | `InOrder`: the handlers of an activity begin in dispatch order, after Mercury's own. `PlaintextStays`: with the cache, no handler turns the shared content back into ciphertext. `KeyAlongsideIsUsed`: no retrieval is started for a key that came with its activity, unless one under way took it and lost it. `EveryActivityHandled`: every activity reaches every handler, whether its key comes or not, except those whose retrieval was cancelled, and except after a malformed KMS object in the same event. |

Four further runs show where the code departs from what the repository says of
it (`findings` in `PROJECT.json` has the lines):

* `reply_unreadable`: a reply over Mercury to a request that is still awaited is
  dropped if its context has expired or was invalidated by another task; the
  flow diagram has it resolve the future.
* `mercury_disconnect_overtaken`: a reconnect under way connects after
  `disconnect` has returned.
* `device_registered_twice`: two concurrent `register` calls create two devices,
  despite the mark that is to make concurrent callers share state.
* `threaded_stranded`: a coroutine submitted while the loop shuts down is dropped,
  and the call never returns (a `connect` in the trace; `get_key` takes the same path).

The models also contain, without a property of their own, that a `connect`
between the loss of a connection and the reconnect starts a second attempt, whose websocket
the reconnect may close under it, that a reader cancelled by `disconnect` may reset
`_connected` of the next connection, that
ping loops of lost connections survive `disconnect`, that a cancelled `connect`
leaves `_connecting` set, that a `refresh` overtaken by an `unregister` brings the
device back and may leave a newer one behind, that a callback which raises keeps waiters
untold, that cancelling one `get_key` keeps an activity from the handlers that wait for the
same key, that a threaded `connect` blocks for ever if the thread cannot create its loop, that `register`, and so the reconnect, is content with a device that WDM has
withdrawn, that `unregister` forgets a device it has not deleted, that after a
failed decryption ciphertext stays the content of an activity, that without the
cache a second handler sets plaintext back to ciphertext for a moment, that
`clear_handlers("conversation.activity")` cuts ConversationClient off, that one
malformed KMS object costs the activity that came with it, that a handler may be
called after `off`, that the second of two concurrent threaded `connect` calls may close
the client of the first, and that `_invalidate_ecdh` may discard a context another
task has just established.

**Bounds.** Two retrievals suffice for every race on the session, the lock and
the pending table, since each step concerns one task and one shared field; the
race of a late `finally` with a newer task needs a third call, hence
`encryption_coalescing`. `MaxPushes = 1` reply is enough for a reply to be
delivered twice, too late, or to the next attempt, as replies stay in `sent`; a
retrieval makes two attempts in the code, which is no bound. `Sockets` bounds the
number of websockets that are opened in one behaviour: with three there is a
connection, its replacement and a competing attempt. When they are used up, no
further attempt succeeds, but every attempt may still fail, retry and end. One user and
the reconnect task are the two actors that compete; under orderly use a second
user acts only where the first one could, and what the theorems say for any number of users needs no
second one here (two users with three websockets are 8 million states, without a violation).
Retry limits are 0 and 1, so both the exhausted and the repeated attempt happen.
Four device calls are any mixture of two registrations, a removal, a refresh or a
waiter, which is what every exception of `DeviceAlive`, `NoStrayDevice` and
`NoMissedRegistration` needs at most (two callbacks and a registration, or two
registrations, a removal and a refresh); one retry is enough for an attempt that was carried out and one that meets
its effects. Calls are single-use: an object that is used again is another call.
Two events with one key are two activities that share a retrieval, or a key that
comes before, with or after the activity that needs it; one verb handler and one
wildcard handler show the order, and the second may come and go. Distinct keys do not
interact, as `SingleFlight` and `KeyMatchesUri` show for the detailed model.

**Fairness.** `FairSpec` assumes what the loop, the operating system and timeouts
provide: ready tasks and threads run, an HTTP request ends (`request_url` has a
timeout and a limited number of attempts), timers fire, opening, authorizing and closing a websocket are timed.
Nothing is assumed of KMS, Mercury, WDM or the callers: no reply need come, no
frame arrive, nobody need call. `ThreadedClient` assumes that its coroutines
end, which is `EveryCallEnds` and `ReconnectEnds` of the other models and the
timeouts of `aclose`. `ConversationClient` assumes that the loop runs what is ready
and that a retrieval ends, in a key or an error, which is `EveryCallEnds`. The
safety runs use no fairness.

**Deadlock** is not checked: a client that nobody calls and nobody sends anything
to has nothing to do. That calls do not get stuck is what the liveness properties
say.

## 4. What is proved

Every safety property that a passing run checks is also a theorem, for every value
of the constants: any sets of calls, users, websockets, events, handlers and keys,
any retry limits, the cache on or off. So are the safety parts of both refinements.
Each module proves that its `IInv` (`UsageIInv` for `MercuryUsage`) is inductive,
with a lemma for every action, and derives its theorems from that. The parts of
`IInv` stand in the component's module, so that TLC could check them on the
instances above first. The only hypotheses are the `ASSUME`s of the modules, which
say that names are distinct, that limits are natural numbers and that tables given
as constants have the right shape, and the two named below.

| Module | Theorem | Property |
|---|---|---|
| `EncryptionClientProofs` | `TypeCorrect` | `TypeOK` |
| | `Coalescing` | `SingleFlight` |
| | `RightKey` | `KeyMatchesUri` |
| | `PendingTable`, `WaitingRegistered`, `OwnReply` | `PendingOwned`, `AwaitedIsRegistered`, `AnswerCorrelated` |
| | `OneExchange` | `ExchangeExclusive` |
| | `FreshRetry` | `FailedSessionGone` |
| | `RetrievedOnce` | `NoRefetch` |
| `EncryptionRefinementProofs` | `Implements` | safety part of `ImplementsKeyRetrieval` |
| `MercuryClientProofs` | `TypeCorrect` | `TypeOK` |
| | `AttemptUnderWay`, if nobody cancels (`~Cancels`) | `ConnectingHasAttempt` |
| `MercuryRefinementProofs` | `Implements` | safety part of `ImplementsConnection` |
| `MercuryUsageProofs` | `Served` | `ConnectedIsServed` |
| | `SingleConnection` | `OneConnection` |
| | `QuietAfterDisconnect` | `DisconnectedIsQuiet` |
| `DeviceClientProofs` | `TypeCorrect` | `TypeOK` |
| | `WaitersTold` | `NoMissedRegistration` |
| | `DeviceKnown` | `DeviceAlive` |
| | `StraysExplained` | `NoStrayDevice` |
| `ThreadedClientProofs` | `TypeCorrect` | `TypeOK` |
| | `SingleCloser` | `OneCloser` |
| | `AcceptedUrl` | `UrlInForce` |
| | `NoThreadLeft` | `NoLoopLeft` |
| `ConversationClientProofs` | `TypeCorrect` | `TypeOK` |
| | `HandlersInOrder` | `InOrder` |
| | `PlaintextIsKept` | `PlaintextStays` |
| | `KeyIsUsed` | `KeyAlongsideIsUsed` |

The properties alone are not inductive. What has to be added, and why:

**EncryptionClient.** `CallsAttached`: an entry of `_inflight_keys` points to a task
for its own URI whose first caller still waits, and a finished task has left its key
in the cache. Without it `SingleFlight` fails when an entry is cleared, and
`RetrievedOnce` has no witness. `SessionsPast`: every context in use was made by a
create request that its task has left behind; without it a new context could be the
one that failed, and `FailedSessionGone` breaks in `Establish`. For the refinement, a
running task is a running load, whatever it exchanges, retries or receives.

**MercuryClient.** `SocketsOwned`: a websocket that is being authorized was opened by
that actor, for nobody else, is not published and has no loops yet; only users
disconnect. Without it the websocket that an attempt drops could be the published one,
and the attempt's failure would break the link that `MercuryConnection` has. Nothing is
assumed of the order in which ready tasks run. `ConnectingHasAttempt`
needs nothing more than types, but does need that nobody cancels a `connect`:
`CancelConnect` leaves `_connecting` behind.

**MercuryUsage.** Its assumption is `~Cancels`, too. Under orderly use the flags and
the actors exclude each other: `OneAtWork` (one actor at a time, none while
connected), `OpenInHand` (an open websocket is published or held by somebody, and a
published one belongs to a connection or to the reconnect that is about to close it),
`ReadersKnown` (no two readers receive from one websocket, and none from one that was not
published, so that the reader of a new connection finds it free), `ClosingIsQuiet`.
`orderly` is an observer: it restricts no step. `ConnectedIsServed` needs it: a `connect`
that overlaps a loss breaks it, as section 2 says.

**DeviceClient.** `RequestsAwaited` ties each call to its HTTP request and bounds the
attempt it is in; `DevicesKnown` says that a device which the client holds, or a call
has read, was published by the `register` it is named after, and that a device at WDM
comes from an attempt already made; `CarriedOut` says what a request that WDM has
carried out, and whose answer is still to come, has done to WDM, which lets
`Registered` conclude that the device it publishes exists. `CallbacksKnown` puts every
waiter on the list of callbacks: `register` has told it, or a callback before it has raised.
`overtaken` only grows, and is only looked at by the properties.

**ThreadedClient.** `CloserOwnsLoop`: until a `close` has begun the loop runs if and
only if `_loop` and `_client` are set, and nobody has asked it to stop; from then
on one call is on its way from the mark to the end of the loop. `OneCloser` and
`NoLoopLeft` both follow the loop from that call.

**ConversationClient.** `InOrder` speaks of handlers that have begun (or, cancelled, never will), while the order
is decided earlier, in three queues: the loop's, the tasks waiting for a key, and those
woken by its arrival. `Blocks` says where the handlers of one dispatch are: in one block
of the ready queue behind Mercury's handlers for the event, of which a prefix may have
run; those of the prefix are past, wait or have been woken in the order of the block
(`InSequence`), and as long as the block is not through none is woken and no key comes
that one of them waits for (`BlockRuns`), so that none of the block finds the key while an
earlier one waits. `VerbsFirst` carries the order of the dispatch, for which
`TablesHold` provides that a handler is in its own table only, and once. `SeenOnce`
provides that an event is dispatched once, `Arrived` that what is queued or waits
belongs to an event that came, and waits for its key. For the other two theorems
`SuccessIsCached` says that a retrieval which ended well, and any plaintext got from
it, has its key in the cache, `KeyComesFirst` that when a handler whose activity brought its
key is ready the key is cached, or set as the result of a retrieval that goes on, or lost, and
`AnswersAwaited` that such a retrieval has not ended. The module begins with lemmas
about sequences (`RemoveAt`, `SetToSeq`, concatenation) and about what it means that a
queue moves by one place (`Moves`, `QueuedSame`, `BlockSame`); the lemmas about actions
cite them.

Only model-checked, on the instances of section 3:

* everything under fairness (`EveryCallEnds`, `LossNoticed`, `ReconnectEnds`, `CloseEnds`,
  `WaitersReleased`, `EveryActivityHandled`, and the fairness of `KeyRetrieval` and
  `MercuryConnection`): it rests on `ENABLED`, which the prover does not handle;
* the four violations, which are counterexamples and need an instance, not a proof.

## 5. What is not modelled, and the plan

Not modelled: JWE, key derivation and decryption, the parsing of payloads and
models, error classes, configuration, logging: data without state, of which the
models keep the outcomes. A wrong answer of KMS (a key that is not the one asked
for). The length of delays, `Retry-After` included. `ConversationClient.connect`
with the copying of the device URL to the encryption client. The cancellation of a
`disconnect` or of a call of DeviceClient (for the local state one more exception). What a
`close` does that waits for a lock which a stuck `connect` holds: it waits for ever, and
`CloseEnds` speaks of those that have got the lock. WebexClient, which
creates its parts and closes two of them.

Planned, in this order:

1. Refinement: the retrieval in `ConversationClient` implements `KeyRetrieval`, checked
   and then proved from `IInv`; `ThreadedClient` implements a client whose calls block
   and end, without a loop, restricted to calls made before `close`.
2. MercuryClient with DeviceClient as its provider: how long a reconnect keeps
   trying a URL that WDM has withdrawn (`mercury.py:584-593`), and which device
   the encryption client names meanwhile.
