# Verification of onebot-connect

TLA+ models of the connection library in `src/onebot-connect` (with the traits of
`src/onebot-connect-interface`), the TLC runs that check them on small instances, and
TLAPS proofs of their main properties for every value of the constants.  Definitions
keep the names of the source; `PROJECT.json` maps each to its lines.

## The system

The library connects OneBot applications with OneBot implementations.  A user gets a
message source (what the other side sent), a provider of clients (what one may send), and
behind both a handful of tokio tasks that talk through channels.

| component | state | operations | correct when |
|---|---|---|---|
| `common/ws.rs` WSTask | command queue, activity flag, manager, send and receive tasks with their signal channels, spawned handlers | select loop, signals, close sequence, reading and writing frames | the close sequence ends, in order, unless the peer stops reading; nothing takes effect after it; nothing received before the peer's close is lost |
| `app/ws.rs`, `app/mod.rs` application WebSocket | action map: echo to responder | send_action, get/set_config, close; events and responses from the peer | a caller gets the response to its own action or an error, and never waits on nothing |
| `common/util.rs` lossy channel | buffer, sender count, waker, closed flag | send, clone, drop, poll | bounded, loses only old items, keeps order, wakes its receiver |
| `common/http_s.rs` HttpServerTask | body queue, command queue, flag, server task, connections with their requests | accept, keep-alive, request, hang-up, select loop, close sequence | a client that waits is answered or let go; nothing is started after the end |
| `imp/http.rs` implementation HTTP server | response map, event queue and its mutex, command channel | send_event, respond, close; get_latest_events and other actions of clients | every event is handed out once and reaches the client that took it; responses go by echo |
| `app/webhook.rs` application webhook | responders by event id, action buffer of each event's client | event request, send_action, release, close | an event's request is answered once, with the actions collected for it |
| `wrap/bridge.rs` bridge | lossy event channel, close broadcast, two tasks, the reconnect loop | events app to impl, actions impl to app, close, reconnect | close ends both tasks, and short of a close only a failed create or a call that panics does; a reconnect loses old events only |
| `app/ws_re.rs`, `imp/ws.rs`, `imp/ws_re.rs` | none of their own | accept or connect, then WSTask | as WSTask |
| `app/http.rs` HTTP client | a buffer of events, the poll under way | poll, retry, drop of a poll, actions | events arrive in order, none twice, none lost but with a lost response |
| `imp/webhook.rs` webhook client | a queue of actions | post an event, parse the actions of its response | a post reported as a success was one |
| `app/compat/ws.rs`, `http.rs` OneBot 11 | response map, self id, a client of its own | conversion in both directions over WSTask and HttpServerTask; an event handler that calls back | a caller gets its answer or an error whatever fails to convert; a handler that waits for its own connection does not block it |
| `app/compat/data.rs` OneBot 11 data | bot status, file storage | compare, write and tell the status; actions answered on the spot | the status told last is the one held, unless its event was overtaken or a later one failed to tell |
| `common/storage.rs` files | file map, fragments, shards of a DashMap, the files | upload, fragmented upload, finish, reads | a finished upload is one file and takes no more transfers; no call waits for ever |
| interface crate, `lib.rs`, examples | none | traits, value types, errors | |

How they interact: clients send commands through an unbounded channel, each with a oneshot
responder; managers spawn one task per command and per received item; the tasks share a
map of responders (a DashMap behind an Arc); messages for the user go to an unbounded
channel; close is a flag in shared state that the manager reads, followed by signals to
the socket tasks.  The bridge joins an application client and an implementation server by
the lossy channel and a broadcast.

What is hard in it: handlers of one connection run concurrently and in any order; a
responder may be in a queue, a task or a map when the connection ends, and its caller waits
until it is used or dropped; the close sequence meets tasks that failed or are blocked in a
write; the poll of the lossy channel reads four pieces of shared state one after the other;
events leave a queue before their response is sent; a panic under a lock outlives the call
that caused it; HTTP connections outlive the server that accepted them; a poll is dropped in
a select while the server answers it; two posts of one event share an entry; a broadcast
reaches only who subscribed before it; a reference into a DashMap is held across an await
and blocks threads meanwhile; a status is compared, written and told under no common lock,
and may fail to be told.  `PROJECT.json` lists these hazards at their lines, with the
properties that cover them.

## The modules

**WSTask** - one WebSocket connection, whatever its handlers do.  A module of its own
because four connection types of the library use it.  One action per arm of each select
loop and per step of the close sequence.  Every command, frame and message is a distinct
value, so the running handler tasks are sets of what they handle.  `link` is the socket: up,
closed by the peer's Close frame (reads end, writes fail), or down.  `peer_got`,
`peer_sent` are histories of what crossed it.

**AppWS** extends WSTask - the application's handler and client: the echo drawn in
`GenerateEcho` and entered in `SendRequest`, the response looked up in `HandleResponse`, the
drop of queue and map when the manager returns (`FinishApp`, `ReleaseMap`).  A call is at
once its command, its frame and its response, so `result[c] = c` says that c got its own
answer.  `Parallel` says whether two handlers may be between drawing and entering an echo,
which only happens on several threads.

**ActionCalls** - what `send_action` promises: asked, answered by the peer, outcome.  AppWS
implements it (`ImplementsCalls`), with `asked <- issued \cap Call` and
`served <- peer_sent \cap Call`: queues, tasks, echoes and the map disappear.  So does ImpHttp,
for clients that choose no echo: a request is asked when it is sent, served when the command
that responds to it is issued, and its outcome is what its client has seen.

**LossyChannel** - senders with their two-step send (closed test, then push and wake under
the lock) and two-step drop (count, then wake), and the poll with one action per read.
`Parallel` says whether senders run on other threads than the receiver; otherwise a poll, a
send and a drop exclude one another.  `pushed` and `received` are histories.

**HttpTask** - the server task, its connections and requests, handle_req's wait for the
responder, the manager and its close sequence.  `http[r]` is what the client of request r
has seen.  The else branches of both selects are unreachable there and have no action.

**ImpHttp** extends HttpTask - get_events with the queue's lock, including `drain(..limit)`
on a shorter queue: it panics and poisons the lock (`DrainPanics`), after which `SendEvent`
is disabled (its caller panics) and polls end in `GiveUp`.  `waiting_queue` is written and
never read in the code, so a wait ends by its timeout alone.  Limits and echoes are chosen
when they are first used.

**AppHttp** extends ImpHttp - the application's HttpMessageSource against that server.  It
hands out its buffer first, asks again after an empty or failed request (`Ask`, `AskNobody`),
and may be dropped in any await (`Cancel`), which hangs up its connection.  `missed` records
the requests whose response was lost or dropped.  It is the server's only client here, and
the requests it may make are the set `Poll`.

**Webhook** extends HttpTask - a request is one post of an event.  `Register` enters its
responder under the event's id, where an earlier post of the event loses its own; `Deliver`
hands the event over; `Provide` makes the WebhookApp that owns it.  A release is a command
that carries the actions kept so far.  `SendEventResult` is how WebhookImpl, the poster,
sees its response: it parses the list as internal actions, whose echo is mandatory and never
sent, so that only an empty list is a success.  A post has one owner: a second `provide` for
it, which the code allows, would make another app with actions of its own.

**Bridge** - OBridge's app_task and the loop around impl_task.  A subscription to the close
broadcast is whether a close was sent since it was made.  The event channel is the bounded
queue that LossyChannel shows; `passed` is the history of what was handed to
send_event_impl.  The two connections are the environment: a call may return, take for ever,
or panic, which takes the implementation side with it (`CallPanics`).

**CompatWS** extends AppWS - the OneBot 11 handler over the same connection task.  Its map,
echoes and callers are AppWS's; new are conversions that fail, actions answered on the
spot, and the event handler that calls GetMsg on its own connection and waits for it
(`AskMessage`, `DeliverEvent`, `DropEvent`).

**Storage** - OBFileStorage over LocalFs: the file map, fragmented uploads and the shards of
`frag_map`.  `Lock` to `Enter` is the time a thread is blocked by a transfer that holds a
reference into the shard; `FreeThread` guards every other step of a task.  `Land` is the
blocking pool that writes after the call returned.

**AppData** extends Storage - the state all handlers of a OneBot 11 connection share.  A meta
event is compared, written and told in three steps, between which other threads run; a
conversion awaits nothing and keeps its thread (`ThreadToConvert`).  Telling may fail after
the write (`TellFails`).  `told` is the last status told; `writer`, `teller` and `overtaken`
are histories of which events wrote, told, and were written over in between.

`MC*.tla` and the cfg files are the instances.  `*_proofs.tla` hold the theorems.
Definitions whose comment says "Mutant" are plausible mistakes in the definition that
follows them; each checked property is violated by one of them.

## The runs

| run | instance | what it shows |
|---|---|---|
| `AppWS.cfg` | 2 calls, 1 config call, 1 close, 1 event, 2 echoes, handlers on one thread, symmetry | types; `Correlated`: no caller gets another's response; `WaitingIsHeld`: a waiting caller's responder exists somewhere; `NoticeMeansStopped`: one close notice, after both socket tasks ended; `QuietOnceClosed`: no write and no new handler afterwards; `ImplementsCalls` |
| `AppWSLive.cfg` | 2 calls, 1 close, fair | `AnswerReachesCaller`; `ClosingTerminates`, unless the peer stops reading on a link that holds; `NoCallerLeftBehind` |
| `AppWSClose.cfg` | 1 close, nothing else, fair | counterexample to `CloseIsAnswered` |
| `LossyChannel.cfg` | 4 items, 2 senders, buffer of 2, several threads | types; `NewestSurvive`: the buffer is bounded and what is lost is old; `InOrder`, `ParkedIsWakeable` |
| `LossyChannelLive.cfg` | 3 items, 2 senders, buffer of 1, one thread, fair | `NoLostWakeup`, `ItemLeaves`, `EndIsSeen` |
| `ImpHttp.cfg` | 1 poll, 1 poll with bad parameters, 1 action, 2 events, 1 close, one client-chosen echo and one of the server, limits 1 and 2 | types; `Correlated`, `WaitingIsHeld`, `QuietOnceClosed` |
| `ImpHttpPoison.cfg` | 1 poll with limit 2, 1 event | counterexample to `EventsAvailable` |
| `AppHttp.cfg` | a source of 2 polls, 2 events, 1 close, limits 0 to 2, fair | `EventOnce`: two requests that drain the queue at once take no event twice and skip none; `PolledInOrder`: no event twice or out of order, no buffered event lost; `ImplementsCalls`: a poll gets the response to it, once; `ClientsSettle`: a poll is answered or let go; `EventsArrive`: unless its response is lost on its way or cut off by the close, an event arrives or stays in a queue nobody can drain any more |
| `Webhook.cfg` | 2 posts of one event or of two, 1 action, up to 2 releases per app, 1 close, fair | types; `WaitingIsHeld`; `ActionOnce`: no action reaches two clients or another event's; `ClientsSettle`: an app that releases answers its post |
| `Bridge.cfg` | 5 events, buffer of 2, 4 connections, closes at any time, fair | types; `NewestKept` over reconnects; `UntilClosed`: only a close, a failed create or a call that panics ends the bridge, and after a close it makes one more connection at most; `CloseEnds` |
| `CompatWS.cfg` | 1 user's call, 1 reply event with its query, 1 close, fair | `WaitingIsHeld` with failing conversions; `QuerySettles`: no deadlock on the own connection; `LeftOnlyByQuery` |
| `AppData.cfg` | 2 uploads in one shard, 2 parts, 2 finishes of the first, 1 plain upload, 2 statuses, 2 threads, fair | types; `FinishSeals`: nothing more is accepted into a finished upload; `StatusTold`: the status told last is stale in two ways only; `LockIsGiven` |

Bounds.  Each command, frame, event, request and item is sent at most once; these sets are
the only bounds.  Two calls are the least in which one can get the other's answer; with two
echoes an echo is free, in use, and released and drawn again.  One close suffices since a
second only sets a flag that is set.  Limits 1 and 2 over a queue of at most two events cover
a partial drain, a full one and one beyond the end; two polls, in AppHttp, let a dropped one
race the next.  Four items through a buffer of two push out two of them, five events through
the bridge three; of its four connections one ends before a close, one is served after it,
and a third would break `UntilClosed`.  Two releases of one app, in either order, and two
posts of one event are the least that compete for a responder.  Two threads in one shard are
the least that come to wait on each other in Storage, and two meta events the least of which
one overtakes the other; one of theirs carries the first status again.  ImpHttp's own run
has one poll that parses; AppHttp's has two, of which a dropped one is still handled while
the next is, and `EventOnce` is checked there.  Deadlock is not checked: every model stops
when its inputs are used up.

Fairness.  tokio polls every task that was woken, a select with a ready arm takes one, and
timers fire: weak fairness of the manager, of each socket task and of each handler task.  A
user, a client, a peer and the network owe nothing, so neither commands, requests,
responses nor failures are fair.  Nor is the end of a write of send_task, since it is the
peer that reads: `SendOnward` is what the task does of itself, a write fails for certain only
on a link that is down, and `ClosingTerminates` states what a peer that stops reading does.
In LossyChannel the polls are strongly fair: on one thread
a poll is disabled in the middle of a send, which the scheduler cannot interrupt, so weak
fairness would allow clones and drops to keep a poll out by an artefact of their two steps.
A client that asks for a timeout of many years is outside `ClientsSettle`.  In AppHttp
the application polls again and again, as the bridge's app_task does, and drops and losses
of a poll are unfair and bounded by `Poll`.  In Bridge the signal branches are strongly
fair, since tokio's select picks among the ready branches at random; neither connection
owes anything, and `CloseEnds` assumes of the implementation's that its calls return.  In
Storage the file system answers, and a shard whose lock stays free is given to a thread that
waits for it (weak fairness of `Enter`); nobody is bound to prepare, transfer or finish.

## What the runs found

* **Close on a quiet connection** (`CloseIsAnswered`, common/ws.rs:147).  handle_cmd only
  sets the flag.  The manager reads it between two iterations, so it sits in its select until
  another command or frame arrives, and then still serves that one.  The interface documents
  `RecvMessage::Close` as the response to the command.  The HTTP server has the same loop.
* **Poisoned event queue** (`EventsAvailable`, imp/http.rs:245).  A get_latest_events with a
  limit above the queue's length panics in `drain` while the mutex is held; events stay in the
  queue and every later send_event or get_latest_events panics on the poisoned lock.  In a
  bridge send_event_impl panics in impl_task, whose task ends with the receiver of events:
  the bridge is over without a close, and app_task panics at its next event.

Known from the models and not stated as findings, since nothing documents otherwise: with
handlers on several threads two of them may draw the same echo and cross their callers
(`Parallel = TRUE` breaks `Correlated`; the draws are eight random characters); a send that
falls between the length test and the registration of the waker is not noticed by the
receiver until the next send (`Parallel = TRUE` breaks `NoLostWakeup`); clients that choose
equal echoes may get each other's responses, which `Correlated` of ImpHttp allows for; a
get_latest_events with parameters that do not deserialize is not answered before the server
closes; a poll_message that is dropped loses the events its request drains; a peer that stops
reading while send_task writes to it keeps a connection from closing.

* Webhook: the commands of two releases of one app have a task each (app/webhook.rs:190);
  the later one, which is often empty, may answer the post, and the actions of the earlier
  one are lost.  `deref_impl!` does not forward `release` of a Box<dyn AppDyn>, nor
  `use_event_context` and `set_event_context` of a Box<dyn AppProviderDyn>.  A response with
  actions does not parse at WebhookImpl (imp/webhook.rs:99-117, app/webhook.rs:42), whose
  send_event_impl fails although the event was delivered.  close needs an app, and an app
  needs an event.
* Bridge: app_task subscribes when it first runs (wrap/bridge.rs:63), a close before that is
  missed.  With a webhook application provide fails before the first event (160): create
  returns an error, and app_task, detached, panics at the first event (73).  After a close
  app_task may also panic, when select takes an event first.  An action that the application
  fails is never answered (135).
* CompatWS: the handler of a reply holds the handler's state while it waits.  After the
  connection has ended an unanswered query keeps the map, which would end the wait if it were
  dropped; it and the callers in the map wait for ever (`LeftOnlyByQuery`).  WSHandler's own
  client keeps the command channel open, so that dropping all clients ends nothing.
* Storage: data uploaded in one piece gets no entry (common/storage.rs:281); neither size
  nor sha is looked at on finish; an error of the last write is lost, as nothing is flushed,
  and the bytes of a transfer that returned may get into the file after Finish has.
  When all threads wait for a shard that a transfer holds, the runtime stops (`Stuck`).
* AppData: the last StatusUpdate told need not be the status held: on several threads an
  event may be overtaken between its write (app/compat/data.rs:311) and its message (326), and
  an error at 326-330 leaves a status that is written untold for good.
* compat/http.rs:198 drops the only command sender: that server can never be closed.

## What is proved

For any sets of commands, calls, events, items, senders and echoes, from the assumptions
named in the modules (which TLC evaluates in every run):

* `WSTask_proofs`: `QuietTheorem`. `TaskInvariant` is types plus the order of the close
  sequence: from the wait for the second signal on send_task has ended, at the end recv_task
  too. After that no action but the peer's and the handlers' ends is enabled.
* `AppWS_proofs`: `AppIsTask` - every step of the application is a step of the generic
  connection or leaves it alone - so `AppQuiet` follows; `Typing`; `Held`, inductive with
  types: every action that takes a responder out of one place puts it in the next or settles
  the call; `NoticeTheorem`. `CorrelatedTheorem`, assuming one thread. `Correlated` is not
  inductive. The invariant adds that a call is in one place at a time along command queue,
  handler, send queue, socket, peer, wire, receive queue and handler (`Once`), that the echo of
  a request or response on its way leads to its own caller (`Led`), and that an echo about to
  be entered leads to nobody yet (`Fresh`). `CallsTheorem`, on one thread too: AppWS implements
  ActionCalls. Beside that invariant it needs `Awaited`: who has a responder somewhere has no
  answer yet, and a call in the map is there under its own echo and nowhere else. Each action
  is then one of the abstract ones or shows nothing. The module also has CompatWS, whose steps
  are AppWS's but for three: two ends of a conversion and the response whose data is converted
  (`CompatStep`). So each lemma on AppWS's steps is used again, with the same invariants, for
  `CompatIsTask`, `CompatQuiet`, `CompatTyping`, `CompatHeld`, `CompatNotice` and, on one
  thread, `CompatCorrelated`. `MessageTheorem` (one thread): a reply event is delivered only
  with the message it replies to. It needs that a handler's query got its own answer, and that
  results do not change (`Kept`), which the refinement of ActionCalls gives for AppWS's steps.
  `NobodyTheorem` and `CompatNobody`: at the end that `NoCallerLeftBehind` speaks of, when
  manager and handlers have ended and the map is dropped, nobody waits. This follows from
  `WaitingIsHeld` and from the command queue being empty once the manager has returned
  (`Drained`); that the end comes is liveness.
* `LossyChannel_proofs`: `Typing`, `BoundTheorem`, `WakeableTheorem`; `WakeTheorem` for one
  thread, whose invariant `Alone` says that what a poll saw is still true when it registers;
  `SurviveTheorem` (bound included) and `OrderTheorem` from `History`: the buffer is the end of
  what was pushed, what left it without being received is older than the last buf_size items,
  and what was received left in order.
* `ImpHttp_proofs`: `QuietTheorem`, from the order of the close sequence (`StopOrder`);
  `Typing`; `Held`, from `Placed`: a request is in the body queue once, before it has a
  handler, and one that was not sent is nowhere. `OnceTheorem`: `EventOnce` needs that the
  queue is the end of what was sent (`Numbered`), that a request's batch is empty until it
  takes events (`HandedOnce`), and that the batches are disjoint and hold what left the queue
  (`Parted`). `CorrelatedTheorem`, for handlers on any number of threads: the invariant follows
  the responder: a request is in one place (`Tracked`), the map leads to who drew the echo
  (`Led`), a number of the server's stays reserved while its request may be responded to
  (`Reserved`), and who was answered keeps its echo (`Settled`). `CallsTheorem`, assuming that
  no client chooses an echo (`Outer = {}`; equal echoes may cross two clients, so it would be
  false): ImpHttp implements ActionCalls. It adds `Answered`: an answer is one that was given,
  and its client has seen it.
* `AppHttp_proofs`: `SourceIsClient` - the polling application does nothing that a client of
  ImpHttp may not do - so that `PollsTheorem` follows from `CallsTheorem`, and the invariants
  of ImpHttp hold. `PolledTheorem`: `PolledInOrder` is not inductive. Let the source's events
  be those it returned and those it has buffered, in that order. They ascend, each is in some
  response (`Known`), and a response that is under way is newer than all of them (`Ahead`):
  what a request takes from the queue is newer than all that was taken before. `AtOnce` says
  that a request that is not `missed` and has no end yet is the current one, `Complete` that
  what responses brought was kept. From `OnceTheorem`'s invariant, a batch is a run of
  consecutive events that left the queue.
* `Bridge_proofs`: `Typing`; `UntilClosedTheorem`, from `Closing`: after a close the outer
  subscription has it as long as the implementation side lives, so that a connection made late
  is not followed by another; it lives, and app_task too, until a close, a failed create or
  the panic of a call; `NewestTheorem`, from `Kept`: the channel is a run of consecutive
  events that ends with the newest, what was passed is older and increasing, and what is
  neither passed nor kept was pushed out.
* `Webhook_proofs`: `Typing`, with the fact that a release on its way was made by its owner
  (`Made`); `Held`, from `Placed`; `OnceTheorem`: `ActionOnce` from `Kept` (an action is with
  one app or in one release), `Sole` (a release answers one post, and is then no longer on its
  way) and `Matched` (the post it answers is one of its own event).
* `AppData_proofs`: `Typing`; `SealTheorem`: the steps that `FinishSeals` rules out are so
  because an upload is prepared before it is finished and never again (`Prepared`), who
  writes does so into an upload that is not finished (`Writing`), and a finished one is out
  of `frag_map` and became one file (`Finished`). `ToldTheorem`, from `Written`: who has
  written and not told is the last writer or was overtaken, and once the last writer has
  told, the last teller is that event or an overtaken one.

Only model-checked: liveness, whose fairness and ENABLED are beyond the prover
(`AnswerReachesCaller`, `ClosingTerminates`, `NoCallerLeftBehind`, `ItemLeaves`, `EndIsSeen`,
`ClientsSettle`, `EventsArrive`, `CloseEnds`, `QuerySettles`, `LeftOnlyByQuery`,
`LockIsGiven`).  Every invariant and every action property of the runs is a theorem, and so are
both refinements.

## Not modelled, and the plan

* `app/ws_re.rs`, `app/compat/ws_re.rs`: accept one connection, then AppWS or CompatWS.  The
  accept is I/O without state.
* `imp/ws.rs`, `imp/ws_re.rs`: a handler that passes actions to a channel and commands to the
  socket, with no state of its own.  WSTask is checked and proved for whatever handler runs
  in it; what such a handler would add is a channel.
* `app/compat/http.rs`: conversion over HttpTask.  Its shared state is AppData's.  It answers
  an event when it was delivered, keeps no responder, and is never closed.
* `common/storage.rs`: reads, which change nothing, and the download of load_file_path,
  which is not reached (`lazy` is TRUE and a url gets its path when it is uploaded).
* `imp/webhook.rs`: the queue of actions, since no list with actions parses.

Next: an abstract queue that may drop its oldest items, which LossyChannel implements and
Bridge's event channel is; what holds at the end of an HTTP server, as `NobodyTheorem` says it
of a WebSocket connection.

Left out for good: TLS, handshakes, headers, authorization and parsing (one refusal or one
error), the contents of messages and their conversion, and the examples.
