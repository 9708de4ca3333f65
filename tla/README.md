# A TLA+ model of the velopera nRF firmware

The firmware runs on an nRF9160/9161 under Zephyr. It takes lines from a UART and
positions from the modem's GNSS receiver and publishes them to an MQTT broker over LTE,
which shares the radio with GNSS. This directory holds TLA+ modules that model its
concurrent core, configurations that check them with TLC, and proofs checked by TLAPS.
Paths below are relative to the root of the repository; `helper.c` stands for
`src/modules/transport/mqtt_helper/dynsec_mqtt_helper.c`, `transport.c`, `network.c`,
`location.c`, `trigger.c`, `fota.c`, `fota_app.c`, `credentials_provision.c` for the files of
those names under `src/modules/`.

## 1. Inventory

| Component | State | Operations | Modelled in |
|---|---|---|---|
| MQTT helper (`helper.c`) | `mqtt_state`, `connection_poll_sem`, `current_cfg`, the library's client and its socket, the local `fds` of the poll loop | `init`, `deinit`, `connect`, `disconnect`, `subscribe`, `publish`; `mqtt_evt_handler`; the poll thread | `MqttHelper`, `HelperApp`, `MqttSession` |
| Transport (`transport.c`) | `s_obj` (state of the two-state machine, network status), notification queue, work queue with `connect_work` and `mqtt_pub_work`, `gps_data_queue`, `sensor_data_queue` | `transport_task`, the two works, the callbacks of the helper, entry and run functions | `Uplink` |
| Network (`network.c`) | LTE mode of the modem, `lte_connected` | `network_task`, `lte_event_handler`, `pdn_event_handler` | `DutyCycle`, `Uplink` (`PdnEvent`), `DataPath` (its publications) |
| Location (`location.c`) | `gnss_active`, `gnss_fix_sem`, `gnss_start_sem`, `velo_gps_data` | `location_task`, `gnss_event_handler` | `DutyCycle` (the switching), `DataPath` (the data) |
| Trigger (`trigger.c`) | line buffer `rx_buf`, `payload`, `uart_sem` | UART interrupt handler, `trigger_task` | `DataPath`; `Uplink` has only its publication (`Sample`) |
| Message channels (`message_channel.c`) | five zbus channels with their last values, their locks | publish, read, notify | `Zbus` and `LossyStream` (the transport module's four), `Fota` (FOTA's other subscriber), `Uplink` (the value of NETWORK) |
| FOTA (`fota.c`, `fota_app.c`) | file name, `fota_work`, what is in FOTA_CHAN | `fota_init`, `fota_task`, `fota_request`, download events, the shell's `download` and `reset` | `Fota`, `Update` |
| Credentials (`credentials_provision.c`) | keys in the modem, `imei` | run at every boot when the modem library starts | `Provisioning`, `Update` |
| Error (`error.c`) | none | reboot on a fatal error if configured | no; its reboot is one of `Update`'s resets |
| Firmware version (`firmware_version.c`) | none | a constant | no |

How they interact. `network_task` and `location_task` share the modem and hand it to
each other by three binary semaphores and a flag; the modem's event handlers give two of
the semaphores as well. `pdn_event_handler` publishes the network status on
`NETWORK_CHAN`, `location_task` positions on `GPS_CHAN`, `trigger_task` lines on
`MQTT_CHAN`; `transport_task` is notified of all of them through one bounded queue and
reads the channel's *latest* value. It calls the MQTT helper itself (disconnect) or has a
work queue call it (connect, publish). The helper calls back from whatever thread is in
it: the poll thread for what the broker sends, the caller's thread when a write fails, and
these callbacks drive the transport module's state machine (`smf_set_state`) with no lock.
A PUBLISH for the firmware topic goes the other way: the poll thread publishes the address of
its own buffer on `FOTA_CHAN`, `fota_task` copies the name from there, a work on the system work
queue starts the download, and the image it leaves is MCUboot's to boot at the next reset.
Every boot writes the build's credentials into the modem before any of the threads starts.

What is hard. Three threads in one client (task, work queue, poll thread) of different
priorities; a state check and the state change after it in different steps
(`helper.c:629,637`); callbacks inside calls; a work that re-arms itself after it has been
cancelled (`transport.c:329`); an event loop that is left on some failures without closing
its socket (`helper.c:749-766`); a queue of notifications that can be full; semaphores
with tokens from several givers; buffers written by interrupt and event handlers while a task
publishes them (`trigger.c:114`, `location.c:195`); a channel whose lock is held while its publisher
waits for room in a queue; a pointer in a message (`fota_app.c:49`); a reset between any two writes
of the provisioning. `PROJECT.json` lists these as `hazards`, each at its line.

What makes each component correct:

* helper: no illegal transition; a session is reported down only when its connection is
  gone, and no connection is opened over another; whoever is told last is told the truth;
  an open socket is polled.
* transport: as long as there is a network and no session a reconnection is on its way;
  the machine agrees with the helper's; the network status acted on is the one published;
  samples leave while there is a session.
* network and location: the receiver pauses only for a data window, LTE is off while the
  receiver has its turn, no go-ahead is left over, the two keep alternating.
* trigger: a line that comes on its own is published once, whole; none is left in the buffer
  without a wake-up.
* location's data: a published position is not older than its fix; the numbers have no gap.
* message channels: the reader ends on the last value; data never goes back in time.
* FOTA: what is downloaded is what was asked for, the last request wins, a lone one is tried.
* credentials: after a good boot the modem has this build's; a device that can connect is not
  locked out.

## 2. The modules

### MqttHelper

One label `pc[t]` per thread says where it is. A call of the helper is a chain of steps of
the calling thread, one per place where another thread can get in between: `connect` is
`Connect` (state check and `mqtt_client_init`), `GetAddrInfo`, `MqttConnect` (the library's
mutex), `Handshake`, `Connecting`; `disconnect` is `Disconnect` (the check),
`SetDisconnecting`, `MqttDisconnect`, `DisconnectWrite`, `DisconnectFailed`. `publish` and
`subscribe` do the same things to the state and are both `Send`. The poll thread runs
`SemTake`, `Loop`, `PollOpen`/`PollClosed`, then `MqttInput`, `MqttLive` or `MqttAbort`.
`mqtt_evt_handler` is `EvtConnack`, `EvtDisconnect` and the PUBLISH branch of `Received`.
A callback is a label (`on_connack`, `on_disconnect`, `on_publish`) that the composing
module gives a step to. `asserted` records that the `__ASSERT` of `mqtt_state_set` failed.

Below the helper, and external, is the Zephyr MQTT client, modelled from how the helper
uses it: `client` is idle, connected on TCP, or in a session; its mutex `lock` is held over
blocking writes; a failed write closes the socket and raises a DISCONNECT event in the
writing thread; a failed input or an abort closes it in the poll thread and raises a
DISCONNECT event, or, before CONNACK, a CONNACK event with an error; the event handler runs
without the mutex. A refused CONNACK is one event. A ping is one step. A socket is `dead`
when all further I/O on it fails.

Binary semaphore: `K_SEM_DEFINE(connection_poll_sem, 0, 1)`; a give on a full one is lost.

### HelperApp and MqttSession

`HelperApp` closes the helper with the most general client that has one thread: it calls
anything at any time, and publishes from callbacks or not. It keeps two rules. It calls
`disconnect` only for a session it has been told of: what breaks without this is the same race as
in the run `uplink_assert`. And it calls `deinit` only while the poll thread waits for its
semaphore, which is how "when all MQTT operations are done" (`dynsec_mqtt_helper.h:127`) is
read; the application never calls it.

`MqttSession` is what the helper promises: five phases and a wire. A session is closed or
lost before it is reported down, comes up only on a wire, and no new one is opened over an
old wire. `ImplementsSession` maps `mqtt_state` to the phase and "some socket is open" to
the wire.

### Uplink

`transport_task` (`SubWait`, `ModemInfo`, `Run`), the work queue's thread (`WorkWait`,
`Rearm`, `DrainGps`, `DrainSensor`, and in between the helper's steps) and the callbacks
(`OnConnack`, `ConnectedEntry`, `Subscribe`, `SubmitPub` in the poll thread; `OnDisconnect`
and `DisconnectedEntry` in any). `PdnEvent` is `pdn_event_handler`, `Sample` the two
publishers of data. Work items follow Zephyr: submitting a queued work does nothing, a
cancelled running work goes on to its end and can be rescheduled by itself, and while its
cancellation is under way it cannot be submitted.

`notif` is the subscriber's queue of channel references; the value of NETWORK_CHAN is the
last one published, `link`. Of samples only the number queued is kept.

### DutyCycle

`network_task` and `location_task`, each a label; three binary semaphores; the flag; the
modem (`gnss`, `lte`). Events: a fix while the receiver runs, a registration while LTE is on.
A failed start of GNSS may come before or after the receiver has started; its result is
not looked at, so `gnss_active` stays FALSE. An error of `start_lte` or `stop_lte` ends
`network_task`.

### Zbus, DataPath and LossyStream

`Zbus` has the channels the transport module subscribes to, and `transport.c` as their reader. A
publisher takes the channel's lock and goes through `CopyHead`, `CopyTail` (a `memcpy` that an
interrupt handler can cut in two), `Notify` and, if the queue of references is full, `"wait"` until
`SubWait` makes room or `GiveUp` ends the wait. `transport_task` is `SubWait`, `AwaitLock`, `Read`
(or `ReadTimeout`, which ends the task, `transport.c:564-570`) and `Run`; `mqtt_pub_work_fn` is
`WorkStart` and `Drain`. A message is what a copy can see of it: which line or frame its first
and its last bytes are from, and the number at its front (the length of a line, the
`meas_id` of a position).

External, from Zephyr: a channel's lock is held over the copy and the notification. A reference put
while `transport_task` waits for one is handed to it and takes no place in the queue (`Take`); the
publisher, of the same priority or in a handler, goes on all the same, may come round its loop and publish again
before `transport_task` runs (`overtaken`). A place that becomes free goes to the publisher that has waited
longest; a lock that is given back is handed to `transport_task` if it waits for it (`"await"`), and
until then anyone may take it (`Lock`). A reference to `FOTA_CHAN`, which has the transport module
among its observers (`message_channel.c:18`), takes a place like any other and is dropped when it is taken.

`DataPath` puts the publishers on top. `Byte` and `Newline` are `uart_handler`, one interrupt each;
`TakeUart`, `Test`, `PublishLine`, `ClearHead`, `ClearTail` are `trigger_task`, whose `memset` can be
cut in two as well. `Pvt` and `Fix` are `gnss_event_handler`; `TakeFix`, `PublishPosition` and `Inc`
(`meas_id++`) are `location_task` while GNSS is active. `PdnEvent` and `FotaRequest` begin a publication
of `pdn_event_handler` and of `on_mqtt_publish`, `PublishEvent` goes through with it.
`hurried` is a history variable: a line end came before the line before it was published and
cleared away. `missed[c]` is one too: the channel's value has no reference left in the queue. So is
`overtaken`: the channel whose reference `transport_task` holds has been published on since it took it.

`LossyStream` is what the path promises of each kind of data: some is lost, some is passed on
twice, nothing after something newer, nothing that was never made. `ImplementsStreams` maps what
was made to the lines and frames so far, and what was passed on to the newest that the helper
took over.

### Fota, Provisioning and Update

`Fota` follows a request: `Arrive`, `Fill` (the payload may come in several reads), `CopyMessage`,
`NotifyFotaApp`, `NotifyTransport` in the poll thread; `SubWait`, `ReadChan`, `BeginName`, `CopyName`,
`Submit` in `fota_task`; `FotaWork` on the system work queue; `ShellDownload`. A name is a sequence of parts,
each marked with the number of the PUBLISH it was written by, so that a mixture of two shows.
`FOTA_CHAN` has two observers, `fota_app` and the transport module, and is locked until both are
notified: while the second one's queue is full (`"jammed"`) `fota_task` waits for the lock, and both waits
last a second, so that its read can fail, which ends the task (`ReadTimeout`, `fota_app.c:38-44`).
The poll thread and the shell have the lowest priorities and run only when `fota_task` waits
(`TaskReady`).

External: the download library uses the name by its address, from the request for the file on and
again after each lost connection (`Ask`); this has all the behaviours of a library that copies it.
A download finishes only if a file of that name exists.

`Provisioning` has one action per call of the modem: `WriteOwn` for each credential the build was
compiled with, `ReadImei`, `WriteIdentity`, and `Exists`, `Delete` and a last `WriteOwn` for the download
server's certificate. Each may fail; the first failure that the code looks at ends the provisioning. A
credential is a set, empty or with its value: the build it came from. An `AT+CGSN` that fails is printed,
and what the uninitialised response holds becomes the identity (`"garbage"`).

`Update` composes the two over resets. `Reset` may come at any moment and clears the RAM;
MCUboot, external, boots a new image once on trial, refuses one that is not a whole image of one
name, and goes back to the old one if the trial was not confirmed. `fota_init` confirms the running
image as soon as `fota_task` starts, whatever the provisioning has come to.

### Timing

Three assumptions about time in `Uplink`, `HelperApp` and `DutyCycle`, each named in a module
(`Update` assumes only the priorities above, `DataPath` nothing):

* Priorities (`CanRun` in Uplink and HelperApp). The work queue has
  `K_HIGHEST_APPLICATION_THREAD_PRIO` and is cooperative, `transport_task` has priority 3, the
  poll thread the lowest. A thread runs only when those above it block. `transport_task` is
  preempted by the work queue between any two steps.
* `Patient`: blocking network I/O takes longer than a burst of the CPU. I/O that has begun
  ends only after the CPU has been idle once (`TimePasses`), and so do timers. This is
  about milliseconds against radio round trips and, for the timers, 5 and 60 seconds.
  It is a constant: the typing theorems and `StatusSafe` hold without it, the other theorems about
  the helper and the uplink name it as a hypothesis. With
  `Patient = FALSE` a new connection can be made while the poll thread is still on its way
  to abort the old one, and the abort closes the new one (`helper.c:776`).
* A minute's sleep outlasts a call of the modem (`NetworkBusy`, `LocationBusy` in DutyCycle).

### Simplifications

In `MqttHelper` and `Uplink`: `topics_prefix`, `zbus_chan_read`, `certificates_provision` and `setsockopt`
succeed; QoS and message ids are left out. `CONFIG_ASSERT=y` (`prj.conf:11`): a failed assertion
stops the program, which is why nothing moves in Uplink once `asserted` holds.

`Uplink` has the value of NETWORK_CHAN and `DataPath` leaves it out; `DataPath` has the values of the
samples, of which `Uplink` only keeps the number, and the failing read that `Uplink` leaves out.

`Uplink` counts a reference handed to the waiting task among those in its queue. A publication that finds
no room for that reason comes after the task has taken it; none is refused for it, because only a task that is held
up elsewhere lets one be refused (`Notify`).

In `MqttHelper`: what `mqtt_input` has read of a socket that died meanwhile is lost; POLLHUP or POLLERR
beside POLLIN is looked at after the input, as in the code (`InputDone`). A refused CONNACK is one event, after
which the socket is closed; the library, external here, tells the helper and then closes it.

In `DataPath`: the fix interval is 1 s (`location.c:143`), so that the receiver is in continuous mode and
PERIODIC_WAKEUP, whose handler would set `meas_id` to 0, never comes. A byte that does not fit into `rx_buf` is reported as a fatal error
and dropped; only the dropping is modelled.

In `Fota`: `filename` has 128 bytes (`fota.c:19`) for the host, the directory and the name, and the length
`strncat` is given is that of the message, not of what is left; the model has no capacity, so that its
results are about names that fit. A start of the library fails now and then (`FotaStart`) for whatever reason.

In `Provisioning`: the broker is taken to accept the PSK of any build (`Reachable`). The store says which build's
it is, and after a revert it may be the newer one's until the next boot is provisioned; whether a broker
would still accept it is not in this repository.

In `Fota` and `Update`: `boot_write_img_confirmed` and `fota_download_init` succeed. `fota_done` turns LTE off
and deinitialises link control until a reset (`fota.h:30`), but `network_task` goes on
switching the modem through the same library, so the call ends nothing that the models have. The
secondary security tag is not provisioned, as its option is -1.

A fatal error reboots the device only if `CONFIG_REBOOT` and `CONFIG_MQTT_SAMPLE_ERROR_REBOOT_ON_FATAL`
are both on. The models of a single boot go on after one, which has more behaviours; `Update` has a
reset at any moment.

## 3. The runs

Faults and events are bounded by `Budget`, a function from the kind of fault or event to how
often it may happen (in `Provisioning` by `Faults`); nothing else needs a bound. `Fds` has two descriptors: a socket and the one that
replaces it (a third is never open: `NoSocketLeak`).

| Run | Shows |
|---|---|
| `helper_app` | types; `NoIllegalTransition`; `ToldTheTruth`; `PolledWhileOpen`; `ImplementsSession`. Each failure once, two link changes, any number of calls. 26 thousand states; the descriptors are symmetric (no liveness is checked here). |
| `uplink_safety` | types; `RetryPending`; `MachinesAgree`; `StatusFollows`; `NoSocketLeak`. The network comes, goes and comes again; two samples; a lost session, a refused and an unanswered CONNECT, a failed poll once each; connect fails whenever there is no network. Notification queue of 2, sample queues of 1: both overflow. 1.6 million states, half a minute. (Failures of connect with the network there, and oversize messages, are in the other two runs.) |
| `uplink_liveness` | `StaysConnected`, with every CONNECT answered and accepted and `poll` never failing (see the findings), and the other faults once. |
| `data_path` | types; `LinesWhole`, `LineNoticed`, `PositionFresh`, `MeasIdsFollow`, `UpToDate`, `EndsOnlyOvertaken`. Three bytes and three line ends (also an empty line, and one longer than `rx_buf` of 2 holds), two frames of which one read may fail; one place in the queue of references and in each sample queue, and all overflow. Three publications on one channel are what it takes to fill the queue while `transport_task` has a reference in its hand and to hold the lock it needs. 2.8 million states, 1 minute. |
| `data_streams` | `ImplementsStreams`; `LineArrives` under fairness. Two lines, one frame, a network event or a firmware request, and a session in which messages are handed over, that is lost at any moment; two places in each queue. 1.4 million states, 2 minutes. |
| `update` | types; `CredentialsMatch`, `LastRequestWins`, `DownloadsAsAsked`, `StaysReachable`; `RequestTried` under fairness. Three PUBLISHes of one or two parts, for firmware or not, a full queue of the transport module and shell commands at any time, a download that does not start, two resets, one failing modem call: enough for a burst of two requests with a third message over the buffer, and for an update, a trial boot and its revert with a failed provisioning. 2.4 million states, 2 minutes. |
| `duty_cycle` | types; `PausesOnlyForData`, `NoStaleStart`, `RadioForGnss`; `KeepsAlternating` under fairness. The cycle is unbounded, each modem call may fail once. |

Each property of a passing run has a mutant in `PROJECT.json`: a variant of one definition, kept
next to it in the module under a comment that begins "Mutant:", that makes TLC find the property violated.

Deadlock is checked in `helper_app`. The uplink, data and update runs come to rest once their
budgets are used up and everything waits (or an assertion has failed); in `duty_cycle` a failed start of GNSS or
of LTE does stop both tasks.

Where properties have a condition, it is one the code cannot do without:
`MachinesAgree` is about quiet moments and histories in which CONNECT was answered and accepted
and `poll` worked (otherwise the two findings below apply); `StatusFollows` excuses a
notification refused by a full queue, which `pdn_event_handler` reports as fatal and nobody
repairs; `PausesOnlyForData` and `NoStaleStart` hold until a start of GNSS fails. `LinesWhole` and
`DownloadsAsAsked` are about lines and requests that come one at a time (`~hurried`): the buffers have
no lock, and a line end or a PUBLISH in between does overwrite what is being copied. `UpToDate` excuses
a publication given up after ten seconds with no older reference in the queue; `StaysReachable` an identity that
`AT+CGSN` has not delivered (`README.md:35` says that the IMEI is registered as the identity);
`RequestTried` a `fota_task` that has ended, a start of the library that has failed, and resets.

Two ends of a task are reachable and not asked away. `transport_task` ends when publishers that go on after
they have handed it a reference fill the queue and the one of the channel it is about to read waits for a place,
with the lock held, longer than the second the read is given (`transport.c:540`, `transport.c:564`,
`transport.c:591`); lines that follow each other quickly are enough for that. `EndsOnlyOvertaken` says what it takes: references that
were in the queue before do not do it, however many, since the place the task has made would be that publisher's. `fota_task` ends as
described above. Both are reported as fatal errors.

What no property asks, hazard by hazard, is in the notes of `hazards` in `PROJECT.json`.

Fairness. The work queue's thread is the highest and is never outranked: weak. The task and
the poll thread are outranked by threads that block again after a bounded burst: they get the CPU
again and again but not continuously: strong. I/O ends and timers expire: weak. `network_task`
and `location_task` have one priority and block on semaphores the other gives: strong. A
running receiver finds fixes: weak on `Fix`. In `DataPath` the tasks are never outranked by one
of the model's threads for long, and what a publisher or the reader waits for comes or times out: weak
on `TriggerTask`, `LocationTask`, `PublishEvent` and `Transport`; nothing is assumed of interrupts, of the work queue or of
the session. In `Update`, `fota_task` and the system work queue outrank the poll thread, which goes on once
they wait: weak on `Request`, `Work` and `Forward`; nothing is assumed of the broker, of downloads, or of resets.

### Findings

Five runs are expected to end in a violation; each quotes what the repository says.

* `uplink_refuse`. `on_mqtt_connack` ignores its argument (`transport.c:169`). After one refused
  CONNECT the module is in MQTT_CONNECTED, the helper in DISCONNECTED, the retry is cancelled and
  the module stays without a session while the network stays (`transport.c:45` promises
  reconnection attempts).
* `uplink_assert`. Between the check and the set in `dynsec_mqtt_helper_disconnect` the
  work queue's thread can lose the session; the assertion of `helper.c:144` fails. One
  session, one sample and the loss of the network suffice.
* `uplink_samples`. A sample queued during a session stays (`transport.c:572-586`); `README.md:45`
  says it is published.
* `helper_mute`. If CONNECT is not answered within the keepalive time the poll loop
  is left with the socket open and the helper in CONNECTING for good (`helper.c:762`);
  `Kconfig.mqtt:70` says the thread polls the socket while it is open.
* `duty_first`. GNSS is started before the first LTE connection (`network.c:277`, `location.c:180`).

## 4. The proofs

Checked by TLAPS for every value of the constants that satisfies the named assumptions
(`HelperAssumption`, `AppAssumption`, `UplinkAssumption`, `BudgetAssumption`, `ZbusAssumption`, `RxAssumption`,
`ProvisioningAssumption`, `FotaAssumption`), in particular for any budget, any queue
lengths and any sockets. Every invariant of every passing run, `StaysReachable` and both refinements are
proved. A theorem has a hypothesis only where the code needs it: `Patient` (section 2, Timing) for
what relates the threads of the helper, and for `SessionPolled` a broker that answers (`Answered`).

The two hypotheses are not there to get the proofs through. Without `Patient`, TLC finds `NoSocketLeak`,
`RetryPending` and `MachinesAgree` violated in `Uplink` once the budgets are a little larger than those of
the run (for example `pdn` 5 and `refuse` 2 for the first two; `pdn` 2 and one each of `drop`, `refuse`,
`connfail`, with two samples, for the third), and the properties of `HelperApp` with its own; and `helper_mute` shows
`PolledWhileOpen` violated as soon as one CONNECT is not answered.

`DutyCycle_proofs`
* `TypeCorrect`: `Spec => []TypeOK`.
* `RadioSafe`: `RadioForGnss`, inductive with the types.
* `HandOverInvariant`: `PausesOnlyForData` and `NoStaleStart` are not inductive: whether
  location_task may leave its loop depends on where the last token of `lte_connected` came from.
  `HandOver` lists, for each place of `network_task`, where `location_task` and the semaphores can
  be as long as GNSS has started. One lemma shows that it implies both properties
  (`HandOverSuffices`), one per task that the task's steps keep it. `PausesSafe` and `StartSafe`
  follow.

`MqttHelper_proofs` has what the next three modules share: the types of the helper's data and how the helper's
and the library's steps change them.

`HelperApp_proofs` (every property of the run `helper_app`)
* `TypeCorrect`: `Spec => []TypeOK`. `Flow` says for each thread where it can be and what `ret`, `after`
  and `resume` can hold there.
* `TransitionsLegal`, `ClientKnows`: by `Joint`, which has one part for each pair that could get out of step:
  the client's thread and the helper's state (`AppInState`), the library and the state (`LibInState`), the socket and the library
  (`OneSocket`), the poll thread and the state (`PollInState`), the mutex (`Holds`), what the client was told (`Knows`).
  What keeps an event of an old session from meeting a new one is `Matured`: a name lookup that is over began before
  the CPU was idle, so the poll thread has returned to its semaphore by then. Without it the
  other parts are not inductive.
* `SessionImplemented`: the refinement of `MqttSession`. `StateOrSocket` says that a step sets the state or closes the
  socket and not both, and that a socket appears only at the end of the handshake; the steps that
  change the phase or the wire are then few, and each is one of `MqttSession`'s.
* `SessionPolled`: `Polling` adds which socket the poll thread is on, or that its semaphore has been given.

`Uplink_proofs`
* `TypeCorrect`: `Spec => []TypeOK`. A return goes wherever `ret`, `after` or `resume` say, so
  types alone are not inductive. `Control` says, for each thread, what may be stored there
  while it is at each kind of label (`Good`); `TInv` adds the data. The lemmas before it go
  through the forms of a step (`Goto`, `Call`, `Return`, `Raise`, ...), then through the
  helper's calls, the poll thread, the module's steps and the environment.
* `StatusSafe`: `StatusFollows`. The invariant `Follows` adds the moment between reading and
  storing the status (`ModemInfo`). Its lemmas about `Contains`, `Append` and `Tail` say that
  only `SubWait` takes a notification off and that a publication never pushes one out.

`UplinkSafety_proofs` (the other three invariants of `uplink_safety`)
* The lemmas at its start, named `...Does`, say of each step in which thread it is, from where to where it leads and
  what it changes; the proofs after them use these and not the actions. `Places` says which labels each of the
  three threads can be at. `OthersWait` turns the priorities into facts: when the task runs, the work queue's
  thread waits; when the poll thread runs, both do.
* `SocketHeld`: `NoSocketLeak`. `Joint` is that of `HelperApp_proofs` for three threads, one of which disconnects
  on its own decision: the task checks the state and sets it in two steps, and a session lost in between
  makes the assertion fail (run `uplink_assert`). `Sound` is therefore `Joint` until then, and that the
  sockets stay as they are afterwards. `Greeting` is the part that needs both `Patient` and priorities:
  between a CONNACK and the end of its callbacks no write of another thread ends.
* `ReconnectionPending`: `RetryPending` with `Runs` (which work's handler is running, and that only that one can be
  under cancellation) and `Greeted` (`connected_entry`, which cancels the reconnection, runs only in MQTT_CONNECTED). The case that
  matters is a `connect_work` cancelled while it runs: it re-arms itself (`transport.c:329`), which is what keeps the
  reconnection pending.
* `MachinesSettle`: `MachinesAgree`. The property speaks of histories in which three faults did not happen, so that
  its invariant has to count them (`Counted`: budgets only fall; `Undisturbing`: a history without the
  faults makes no step with one). For these, `Clear` says that a connection waiting for CONNACK has its poll thread on
  a socket that works (`InTime`), that each CONNACK accepts (`Accepted`), and in which places the module does not
  yet, or no longer, know of the session (`Known`).

`DataPath_proofs` (every safety property of the two data runs)
* `TypeCorrect`: `Spec => []TypeOK`, by `Types`, the same in parts, one for each group of variables.
* `ReadsUpToDate`, `EndsOvertaken`: `UpToDate` is not inductive, because nothing in it says who is in the
  queue of those that wait. `FlowInv` adds `Waiting` (a publisher is in `waiters` exactly when it is at
  `"wait"`, once, and only while the queue is full) and `Crossed` (what the queue holds while `transport_task` has a
  reference in its hand and nobody has published on that channel since).
* `NoLineUnnoticed`: `LineNoticed` with the places of the task at which the payload is looked at again.
* `NoStalePosition`, `NumbersFollow`: `PositionInv` orders `due`, `announced`, `frame` and the heads of buffer and channel
  (`Ordered`), says that only a fix wakes the task (`Started`) and ties the number in the buffer to the one in the channel (`Numbered`).
* `WholeLines`: `AloneInv` lists, for each place of `trigger_task`, where a line that comes on its own is.
* `StreamsImplemented`: the refinement. `InOrder` says of a channel, its queue and what has been handed
  over that they get older in this order, empty messages apart; each step of the data path then maps to a
  step of `LossyStream` or to a stutter.

`Update_proofs` (every safety property of the run `update`)
* `TypeCorrect`, `CredentialsSafe`, `ReachableSafe`: by `UpdateInv`, which adds to the types `Ranges` (how far buffer
  and name are filled at each place) and `Provisioned`: at each call of a boot's provisioning, those before it
  have left this build's credentials.
* `RequestSafe`: `RequestInv` follows the newest PUBLISH: where it is filled (`Filled`, `Whole`), published,
  announced and delivered, and that the name behind it is complete or about to be copied again.
* `AskedSafe`: `AskedInv`, about the histories in which nothing came in a hurry (`Unhurried`): whatever a download
  can read is complete.

`UplinkAssumption` says that `None` is no work (`None \notin Works`): `running` is `None` when no handler runs.

Only model-checked: liveness (`StaysConnected`, `KeepsAlternating`, `LineArrives`, `RequestTried`), because
fairness of actions and `ENABLED` are out of the prover's reach; and `SamplesLeave`, which the code violates.
The invariants the liveness properties rest on (`RetryPending` for `StaysConnected`, `LineNoticed` for `LineArrives`,
`HandOverInvariant` for `KeepsAlternating`, `RequestInv` for `RequestTried`) are proved.

## 5. Plan

In this order; a module is written so that it can be proved about (no recursive operators,
named assumptions).

1. Done: `MqttHelper`, `MqttSession`, `HelperApp`, `Uplink`, `DutyCycle`; `Zbus`, `LossyStream`, `DataPath`; `Provisioning`,
   `Fota`, `Update`; the proofs above.
2. An exact list of what breaks without `Patient`: which of the parts of `Joint` survive and what they still give.
3. Safety lemmas that the liveness arguments use step by step (that a thread outranked by others gets the CPU back
   because their bursts are bounded), as far as they can be stated without `ENABLED`.

### Not modelled

* The error module and the firmware version keep no state (see the components in `PROJECT.json`).
* The whole firmware in one module: `Uplink`, `DataPath` and `Update` share channels and threads, but their
  product is out of TLC's reach. What one leaves open of another is nondeterministic in it: sessions in
  `DataPath`, the jam of the transport module's queue in `Update`, samples in `Uplink`.
* `print_modem_status`, formatting of topics and JSON payloads, logs: no property is about them.
* Zephyr, the modem library, the download library, MCUboot and the broker, except as described above.
