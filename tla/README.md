# TLA+ models of nRF Connect SDK subsystems

The repository is the nRF Connect SDK: libraries, drivers and applications for
Nordic chips, built on Zephyr. This project models the parts of it that carry
state across interrupts, threads, callbacks, restarts and unreliable peers:

* the radio link layer Enhanced ShockBurst (`Esb`, `EsbLink`);
* firmware update over the air, from HTTP down to flash and modem (`Fota`), and
  the AWS jobs that drive it (`AwsFota`);
* the AT command interface to the modem (`AtCmd`);
* the low power UART driver (`Lpuart`);
* the light control server of Bluetooth mesh (`LightCtrl`).

## Inventory

| Component | State | Operations and interaction | Hard behaviour | What makes it correct |
|---|---|---|---|---|
| ESB (`subsys/esb/esb.c`) | state, TX and RX rings, packet identifiers per pipe, what the receiver last heard per pipe, retransmission counters, event flags, radio registers | API calls from the thread and from the event handler; RADIO interrupt; event interrupt; a peer over the air | check and change of a ring separated by an unlock; interrupts between two register writes; lost packets and acknowledgments; full rings | rings coherent, radio agrees with state, the packet removed is the packet acknowledged, no event lost, no duplicate and no reordering at the receiver |
| Download client (`subsys/net/lib/download_client`) | socket, offset, progress, header flag | download thread; `download_client_*` calls; callback per fragment | suspend/resume of the thread against the callback, reconnection in the middle of a body | fragments in order and gapless, every start ends in DONE or ERROR |
| FOTA download (`subsys/net/lib/fota_download`) | first_fragment, retries, delayed work | callback of the download client; feeds the DFU target | error paths that leave state for the next download | FINISHED only after a complete image |
| DFU targets (`subsys/dfu`) | current target, flash stream, saved progress, modem offset | init, offset, write, done, reset | restart in the middle, stale progress, one step of several failing | image in order in flash or modem, tagged only when complete |
| AWS FOTA, AWS jobs (`subsys/net/lib/aws_fota`, `aws_jobs`) | job, its version, execution state, FOTA state, `accepted` | MQTT events in the thread that polls; FOTA events in the download thread; the job service | two threads and one flag; documents late, repeated or for another job; reconnection | one update at a time, success stands for the job's image, jobs end |
| AT commands (`lib/at_cmd`, shutdown of `lib/bsdlib`) | command queue, response queue, current command, two mutexes | callers, socket thread, notification handler | unlocked reads, failed writes, stray messages, shutdown | each caller gets its own response, calls return |
| Low power UART (`drivers/serial/uart_nrf_sw_lpuart.c`) | TX and RX states, two pins on one line | pin interrupts, timer, aborts, application calls on two devices | an edge that meets the other side's change of direction | no packet lost, handshake always ends |
| Light control server (`subsys/bluetooth/mesh/light_ctrl_srv.c`) | state, flags, four timers, saved state | messages, sensors, timeouts, application calls, restart | flags and timers changed in separate places, delayed changes, power cut | follows the documented machine, ends in Standby, changes saved and published |
| Event manager (`subsys/event_manager`) | event queue | submit from any context, processing in the work queue | submit during processing | every event processed once in order |
| nRF Cloud (`subsys/net/lib/nrf_cloud`) | connection state machine | MQTT events | reconnection, late acknowledgments | no state skipped |
| nRF RPC glue, ISO-DEP, TNEP, GATT discovery, bootloader storage | see `PROJECT.json` | | | |

`PROJECT.json` lists every component with its sources and the reason when it is
not modelled, and every hazard at its line with the properties that watch it.

## Plan

1. ESB: one device with an open air (`Esb`), the promise of a link
   (`EsbChannel`), two devices that keep it (`EsbLink`), theorems about one
   device (`EsbProofs`). Done.
2. FOTA pipeline, bottom up: `DfuTarget`, `DownloadClient`, `Fota`, against the
   abstract `FotaUpdate`. Done (HTTPS in the run).
3. `Lpuart` (two ends of the wire), `LightCtrl` against `LightMachine`,
   `AwsFota` on top of `FotaUpdate`, `AtCmd`. Done.
4. Proofs about the components of 3, in modules of their own: `LightCtrlProofs`,
   `AtCmdProofs`, `LpuartProofs`, `AwsFotaProofs`, `AwsReportProofs`. Done.
5. More about ESB: `RadioAddressed` is proved; that
   `EsbLink` implements `EsbChannel` is left (the invariant of an alternating
   bit protocol, over the ring and the identifiers).
6. Proofs about `Fota` (`FotaProofs`): the bytes on the wire, in the buffer and
   in the target are the file in order, from which the refinement of
   `FotaUpdate` follows. Done.
7. Further components: `EventManager`, the nRF Cloud state machine over its MQTT
   transport, `GattDm`, `IsoDep`, bootloader slot selection and storage.

## ESB

### Modules

| Module | What it is |
|---|---|
| `Esb` | one device: `esb.c`, its properties, and mutants of single definitions (marked `\* mutant`) that the properties must reject |
| `EsbChannel` | what a link promises: packets arrive once, in order, and are confirmed only after they arrived |
| `EsbLink` | a PTX and a PRX, two copies of `Esb`, on one channel; refinement to `EsbChannel` |
| `EsbProofs` | the theorems about `Esb` |
| `MCEsb`, `MCEsbLink` | packet sets for TLC |

### State and actions

The variables have the names of the C variables. Ring slots hold payloads
(`pipe`, `pid`, `noack`, `data`); a length is zero (`NoData`), proper (`Data`)
or over `CONFIG_ESB_MAX_PAYLOAD_LENGTH` (`LongData`, which only the air
delivers). `radio`, `shorts` and `ppi` stand for what the peripheral
does, the shortcut that starts the next operation when one ends, and the
enabled timer channels. `tx_count` and `dropped` are history: the first counts
transmissions, the second says that a packet over the maximum length came since
the flags were last cleared.

* The RADIO interrupt runs at the highest priority and is one step per
  interrupt: `TxDone`, `RxDone(p)`, `RxCorrupt`, `RxTimeout`, each running the
  function `on_radio_disabled` points to, after the hardware shortcut has
  already started the next operation. `TxStart` is the retransmission timer.
  `TxDoneStale` is `on_radio_disabled_rx()` or `..._tx_wait_for_ack()` after a
  transmission: the CRC status and the buffer are old, so their value is open.
  It only happens after a call disturbed a busy module.
* The event interrupt is `EvtEnter` (reads `last_tx_attempts`),
  `get_and_clear_irqs`, one `event_handler` step per event, `EvtReturn`.
* API calls run in the context `thread` or `handler`. The thread runs only when
  no event interrupt is pending or running. A call is split where another
  context matters: `esb_write_payload` (check), `write_push` (locked),
  `write_start` (after the unlock); `esb_read_rx_payload`, `read_pop`;
  `esb_pop_tx`, `pop_tx_locked`; `esb_stop_rx` (SHORTS cleared),
  `stop_rx_disable` (interrupt masked, radio disabled). The check of
  `esb_state == IDLE` and the start that follows it are one step: an idle
  module has no radio operation and no pending event, so nothing runs between
  them.
* Calls that return an error change nothing and are left out.

`AppCalls` are the calls an application may make at any time, `IdleCalls` those
it makes only after `esb_is_idle()`. A run chooses them, so it says for which
applications a property holds.

Abstractions: the CRC of two packets of a pipe agrees exactly when header and
contents agree (the 16-bit CRC collides with probability 2^-16); addresses,
prefixes and lengths are model values; the errata workarounds, the packet
format registers, bit order, TX power, bit rate and the length of the
retransmission delay are left out.
`esb_disable()` and `esb_init()` are one step each, and `esb_init()` changes no
other setting of the configuration than `retransmit_count`: mode, protocol and
TX mode are constants of a model. In `EsbLink` the end of a
transmission and of its reception are one step, and the transmitter's timer
does not expire while the receiver transmits: the radio turns an acknowledgment
around by its shortcut, well inside `RX_ACK_TIMEOUT_US`.

### Runs

| Run | Checks | Shows |
|---|---|---|
| `EsbPtx` | `TypeOK` `FifoCoherent` `RadioMatchesState` `InFlightIsFront` `AttemptsExact` | manual-start transmitter, TX ring of 2, 0 or 1 retransmissions, any air |
| `EsbPtxLive` | `RadioMatchesState` `TransactionReported` | automatic mode, calls from thread and handler, flush at any time; every transaction ends in an event |
| `EsbConfig` | `RadioAddressed` | reconfiguration between transmissions and receptions; every setter, two addresses and channels |
| `EsbPrx` | `FifoCoherent` `RadioMatchesState` `FlagsReported` | receiver with two pipes, acknowledgment payloads, full RX ring, a packet that is too long; every flag reaches the handler, but for the one `SilentSuccess` names |
| `EsbAny` | `NoFlagForgotten` | every call at any time, also those that disturb a busy module |
| `EsbLink` | `ReliableChannel` `AllConfirmed` | two devices refine `EsbChannel`, and every packet is confirmed |

`EsbDocReliable` checks what the documentation says and finds a behaviour of the
code that contradicts it (`PROJECT.json` quotes the line): in automatic mode
`esb_write_payload()` tests the state after its unlock and may start a
transaction on an emptied ring; an old slot is sent again and delivered twice.

### Divergences

Met while modelling, and reachable in the model by giving the call to an
application, but without a run of their own:

* `tx_attempts` is documented as "Number of TX retransmission attempts"
  (`esb.h:206`, the words `esb.h:225` uses for `retransmit_count`); the code
  reports transmissions, one more (`esb.c:712`, `esb.c:741`). In automatic mode
  an event may even report another packet's: `last_tx_attempts` is set to 1 for
  the next packet before the event of the previous one is delivered. No property
  speaks of `tx_attempts`; `AttemptsExact` counts the transmissions themselves.
* A receiver that gets a packet over the maximum length (`esb.c:511`) drops it
  after `on_radio_disabled_rx_dpl()` has removed the payload of the last
  acknowledgment and set `TX_SUCCESS` (`esb.c:804`). As only a successful push
  makes the event interrupt pending (`esb.c:882`), that event waits until some
  later packet is received. `NoFlagForgotten` and `FlagsReported` name exactly
  this case (`SilentSuccess`) as their exception.
* An acknowledgment payload is removed and reported `TX_SUCCESS` without having
  been sent (`ug_esb.rst:157`), because `ack_payload` (`esb.c:793`) stays set
  after the ring drained.
* `esb_pop_tx()` (`esb.c:1317`) advances the back index: it removes neither the
  first packet, as `esb.h:332` says, nor the last.
* `esb_flush_tx()` during a transaction makes the acknowledgment remove a packet
  queued later and never sent (`ug_esb.rst:238`).
* `esb_disable()` (`esb.c:1130`) leaves the radio and its handler running, which
  makes the disabled module busy again (`esb.h:265`: "immediately").
* `esb_stop_rx()` (`esb.c:1275`) clears SHORTS before it masks the interrupt; an
  interrupt in between sets the shortcut again and the idle radio goes on.
* Two contexts that write at once overfill the TX ring: the check at `esb.c:1157`
  is outside the lock.
* Automatic mode stops after `TX_FAILED` with a full ring until `esb_start_tx()`
  is called (`esb.h:164`).
* `noack` is honoured, not ignored, with selective auto ack (`esb.h:195`).
* A full RX ring at the receiver leaves repetitions unacknowledged
  (`ug_esb.rst:105`), and at the transmitter drops acknowledgment payloads
  (`ug_esb.rst:240`).
* The acknowledgment after the last payload was taken is filled from an old slot
  (`esb.c:809`), so that payload arrives twice.
* `esb_suspend()` refuses a busy module although `esb.h:255` says it "stops
  ongoing communications"; a fixed-length receiver with `selective_auto_ack`
  never acknowledges; `esb_init()` resets the address registers but keeps
  `esb_addr`; `esb_flush_rx()` also forgets the last packet of each pipe, so a
  repetition after it is delivered again.

### Bounds

Rings of one or two slots wrap after one or two packets, and `UINT_MAX` (2 to 4,
always above the ring sizes) makes a count that underflows visible. `PID_MAX` is
the code's 3 in `EsbDocReliable`; 1 elsewhere, which makes identifiers wrap
after two packets. One
retransmission separates first, repeated and last transmission. Two contents
tell packets apart; one is enough where only counts matter. `MaxWrites` bounds
the packets queued in `EsbLink`: 3 writes with identifiers modulo 2 make the
identifier wrap. In `EsbLink` applications may stop when the bound is reached,
so deadlock is not checked there.

### Fairness

`Fairness`: the radio ends a transmission, the timers fire, pending interrupts
are taken, and the event handler of the application returns (strong fairness,
since it may make any number of calls first). All of these are done by hardware
or by an interrupt the CPU must serve. The thread gets no fairness.
`LinkFairness` adds, for `AllConfirmed` only, an air that does not lose every
packet and every acknowledgment forever, and applications that restart after
`TX_FAILED`, start reception and read the RX ring.

### Proofs

`EsbProofs` proves for every configuration, ring size, number of pipes,
identifier range and set of packets (assumptions `ModeAssumption`,
`SizeAssumption`, `DataAssumption`: sizes positive and below `UINT_MAX`):

* `TypeCorrect`: `Spec => []TypeOK`. No assumption on the application.
* `FlagsNeverForgotten`: `Spec => []NoFlagForgotten`. Inductive with `TypeOK`;
  the point is that the one flag set without making the interrupt pending (the
  `TX_SUCCESS` of an acknowledgment payload) only comes with a new packet, which
  does, unless it is too long for the RX FIFO: the exception in the property.
* `RadioFollowsState`: `RadioMatchesState` under `RadioDiscipline` (no
  `esb_stop_rx()`; `esb_disable()` and `esb_init()` only while idle). The
  inductive invariant `RadioInv` adds that no call is inside `esb_stop_rx()`.
  The divergences of `esb_stop_rx()` and `esb_disable()` show it is needed.
* `AttemptsBounded`: `AttemptsExact` under `HandlerDiscipline`, which allows
  `esb_stop_rx()`: `HandlerOfState` ties the function the RADIO interrupt calls
  to the state, and says of the idle state that the interrupt does not come or
  calls a function that stays idle or starts a transaction. It is weaker than
  `RadioMatchesState` and survives an `esb_stop_rx()` that is interrupted
  between its two steps.
* `AddressesFollow`: `RadioAddressed` under `AddrDiscipline` (no `esb_init()`
  after the first one, `esb_disable()` only while idle), from `HandlerOfState`.
  `esb_init()` gives the registers the default addresses and keeps `esb_addr`,
  so the discipline is needed.
* `FifosCoherent`: `FifoCoherent` under `FifoDiscipline` (one calling context,
  no `esb_pop_tx()`). The inductive invariant `FifoInv` adds
  `CheckedStillHolds`: the RADIO interrupt only takes from the TX ring and only
  adds to the RX ring, so what a call checked before the lock is still true
  inside it. The divergences of two writers and of `esb_pop_tx()` show the
  discipline is needed.
* `InFlightFront`: `InFlightIsFront` under `SendDiscipline` (both disciplines,
  no automatic mode, flush only while idle), from `RadioInv` and `FifoInv`.
  The divergence of `esb_flush_tx()` and `EsbDocReliable` show why.

Only model-checked: the refinement `EsbLink` to `EsbChannel`, and the liveness
properties (liveness is out of the prover's reach).

## Firmware update over the air

### Modules

| Module | What it is |
|---|---|
| `DfuTarget` | `dfu_target.c`, `dfu_target_mcuboot.c`, `dfu_target_modem.c`: operators that give the outcomes of a call |
| `DownloadClient` | `download_client.c`, `http.c`: the thread, its requests and answers, and the server |
| `Fota` | `fota_download.c` between the two, with the application and resets |
| `FotaUpdate` | the abstract promise: an update is reported once, finished only when its complete image is applied at the next boot, and no update makes another file be applied |
| `MCFota` | files for TLC |

### State and actions

`cl` is `struct download_client`, `sock` the descriptor with what is on its way
in both directions, `dfu` the state of the targets in RAM, flash, settings and
modem. What was requested for the next boot is the trailer of the slot
(`trailer`) and SO_DFU_APPLY (`apply`); what that means is worked out from the
slot and the patch as they are at the boot, and only a complete image is applied
(`Applied`, the `tags` of `FotaUpdate`). A second update writes over the slot of
the first, which is then no longer applied.

The thread of the client goes through `pc`: `suspend`, `recv`,
`callback`, `return`, `send_again`; at `stuck` it is in a call that never returns
(`NeverReturns`), until a reset. The callback is a step of its own
(`OnFragment`, `OnDone`, `OnError`), during which the thread waits; `at` says
from which place it was called, hence where the thread goes on
(`AfterFragment`, `AfterReset`, `AfterStop`). `fota_download_start()`, the
delayed work `download_with_offset` and `Reboot` come from other contexts.

A file is a sequence of units; a header is two items on the wire, so it may
arrive in two pieces and share a `recv()` with data. A fragment is two units,
the buffer four, a block of the flash stream two: images of one and three
units make a fragment, a block and a download end in the middle of each other.
`Faults` names what may fail; a failing call has the partial effects of the
code (a descriptor left open, progress not saved, a patch partly sent). Faults
of their own are

* `"stale"`: the end of a header is searched for in the whole buffer
  (`http.c:113`), where the request still lies behind what was received. A first
  piece that is shorter than the request has the request's end taken for its
  own: EBADMSG, or a copy whose length wraps around (`http.c:218`);
* `"refused"`: the modem refuses data (`dfu_target_modem.c:219`, `:227`), and
  the patch is deleted and the data sent again, without end if it is refused
  again. `misplaced` says that the patch has lost its start this way;
* `"erase"`: the poll for the end of an erasure (`dfu_target_modem.c:69`) has no
  end of its own;
* `"flash_open"`: `flash_img_init()` fails, in `dfu_target_mcuboot_init()`. In
  `reset_flash_context()` the same area is looked up again, so that it fails
  only where nothing was written.

### Run

`Fota` checks an application device, a modem device and one that is given a
file of neither type, over HTTPS, with all faults but those under Divergences.

* `DataInOrder`: while an update is active, the target holds a prefix of the
  file, exactly as long as the client has counted and handed out. It is about
  updates in which the modem has not refused data after the first (`misplaced`)
  and a thread that is not stuck.
* `ImplementsUpdate`: the refinement of `FotaUpdate`; `spoilt` there is
  `misplaced`, and a spoilt update may be reported finished without its image.
* `UpdateReported`: every update that was started is reported, or the thread is
  stuck in one of the three places above.
* `TypeOK` bounds what `recv()` leaves in the buffer and the retries. The copy
  that wraps around does leave the buffer, and is not bounded by anything: the
  thread is `stuck` from there on.

Fairness: thread, callback and work queue run (they are Zephyr threads with
nothing above them that does not end), and a server asked again and again
answers (strong fairness: connections may break in between). Updates and resets
are up to the application.

### Divergences

Each is in the model, behind the fault or constant named:

* A socket timeout resends the request although the answer may be on its way
  (`download_client.c:399`). The first answer is then read with the header of
  the second taken for data: the image is corrupted and reported FINISHED
  (`"late_answer"`; `ImplementsUpdate` fails. `fota_download.h:13` promises
  the image).
* `k_thread_resume()` of a thread that has not suspended itself yet does nothing:
  an update started in the callback, or work that runs before the thread has
  suspended, is never carried out (`StartInCallback`, `"slow_thread"`;
  `UpdateReported` fails).
* A failed resumption at an offset is only logged (`fota_download.c:214`,
  `"resume"`): the update is never reported.
* When `close()` fails the next update uses the old connection (`"close"`).
* `apply_modem_upgrade()` returns 0 when SO_DFU_APPLY fails (`"apply"`): FINISHED
  with nothing tagged. A failed close of the modem's socket after a successful
  apply leaves the modem target selected (`"modem_close"`).
* A failed `dfu_target_done(true)` leaves `first_fragment` FALSE: the next
  update writes to a target without initializing it.
* Over plain HTTP no request is sent after a reconnection that followed a
  failed `recv()` (`download_client.c:486` asks only for `len == 0`), and the
  Content-Length of a resumed download is taken for the file size
  (`http.c:157`). Set `PROTO = "TCP"` to see both.
* `settings_set()` of the MCUboot target reads the saved progress into a local
  variable, so no download is resumed after a reset; `-EALREADY` of
  `fota_download.h` is never returned; a different patch for the modem
  continues at the offset of the last one.
* A header that arrives in pieces may be taken for complete (`"stale"`): the
  update fails, or the copy of `http_parse()` runs over the memory behind the
  buffer. A server that sends its header at once never meets it.
* `DFU_INVALID_FILE_OFFSET` in the middle of a patch deletes the patch and
  writes on (`dfu_target_modem.c:219`, `"refused"`): the update goes on without
  the start of the patch and may be reported FINISHED, and `offset` and the
  contents disagree. The loops there and in `delete_banked_modem_fw()` end only
  if the modem ends them; then the update is never reported.

### Proofs

`FotaProofs`, for every set of files, file sizes, buffer, fragment and block
sizes and retries:

* `TypeCorrect`: `FotaDiscipline => (Spec => []TypeOK)`.
* `DataKeptInOrder`: `FotaDiscipline => (Spec => []DataInOrder)`.
* `UpdateImplemented`: `FotaDiscipline => (Spec => ImplementsUpdate)`.

`FotaDiscipline` is what the code needs, and the configuration of the run meets
it: HTTPS; no `"late_answer"`, `"close"`, `"modem_close"` or `"apply"`; and a
device that is updated with application images, or with at most one modem
patch. Each of these conditions stands for a divergence above. Files of two
types on one device are left out as a failed `dfu_target_done(true)` of an
application image leaves the MCUboot target selected for a file of another
type, and a second patch continues at the offset of the first. Everything else
in `Faults` is allowed, lost and refused requests, broken connections, stale
headers, failing writes, data the modem refuses, `"slow_thread"` and `"resume"`
included, and updates may be started in the callback: these cost the report of
an update (`UpdateReported`), never its data, with the one exception the
properties name, a patch that has lost its start.

`DataInOrder` is about the target alone and is not inductive: it says nothing
of the bytes still to come. `IInv` adds, from the wire to the flash:

* `ThreadPhase`: what is on the connection in each place of the thread. While
  it waits for a header there is at most one request, for the file and the
  offset the client has counted, or its answer (`Waiting`, `Answering`); after
  the header all that is in the buffer and on the wire is data from that offset
  on (`Receiving`, `Buffered`). Before a request is repeated nothing of an
  earlier answer may still arrive (`Quiet`): a late answer breaks exactly this.
* `Counting`: the client works on the file the application asked for, and the
  first fragment is the one at offset 0.
* `TargetCounts`: what the target holds, in flash and in the block it buffers,
  is the file up to `Offset`, the bytes counted less those still to be handed
  out. A modem that could not be cleaned reports `DIRTY_IMAGE` instead, and no
  data is accepted at that offset. A patch that has lost its start (`misplaced`)
  holds at most as much.
* `TargetOfDevice`, `TargetWaits`, `WorkWaits`: which target is selected between
  updates, that it is empty, and that a scheduled resumption finds the modem's
  target open.

There is one lemma per action, and under it one step per part of `IInv` that
the action can disturb; the outcomes of a call of `DfuTarget` are described by
lemmas of their own, which `OnFragment` and `OnDone` combine. In the refinement
only the callback's last step and a reset are steps of `FotaUpdate` beside the
start, and the steps that write the slot or the patch, which may take away what
an earlier update wanted applied (`Work`): all others stutter, and `Finish` needs
`DataInOrder` with `Offset = Size[want]`.

Only model-checked: `UpdateReported` (liveness).

## AWS jobs

### Module, state and actions

`AwsFota` has the variables of `aws_fota.c` and the two threads its code runs
in: the thread that polls the MQTT socket (`mqtt_input`, `connack`) and the
download thread (`DownloadFinished`, `DownloadFailed`). `update_job_execution()`
is entered in either, waits (`wait_for_update_accepted`) and sends
(`update_job_execution`, with the publication of `aws_jobs.c`, which also sets
`update_topic`); a thread in it handles nothing else. `sending`, with `Sends` and
`ToSend`, is bookkeeping of the model: which thread is in that function, with
which state, and whether its test is behind it. `location` is the job whose
hostname and file path were parsed, `done` the job AWS_FOTA_EVT_DONE was sent
for. Around it are the job service (`aws`: status and version of every job), the
messages on their way (`up`, `down`), the subscriptions and the FOTA library, of
which only `FotaUpdate` is used: `status`, `want`, `tags` (`spoilt` is
FALSE: the modem that refuses data in the middle of a patch is left to `Fota`).

Every call that may fail has its failure: the subscriptions and the request for
the next job (`connack`, `suback`), the publication of an update, the read of a
payload and the parser (`Dropped`; a rejection has counted the version down by
then), a document that has a job and no location, which leaves the new `job_id`
with the old file ("location"), and the start of the download. A publication is
QoS 1, and its PUBACK is sent only when the handler has returned 0: a message may
be delivered again (`Left`, "duplicate"). `job_update_rejected()` always returns
-EFAULT, so that a rejection is never acknowledged.

The environment is chosen in the initial state from `Environments`, sets of
`Troubles`. A property that holds only in some environments says so in its
premise, and its comment says what breaks it in the others.

### Run

`AwsFota`, two jobs, versions up to 3 plus what is under way, three messages on
their way:

* `OneUpdateAtATime`: `accepted` serialises the updates of both threads. Fails
  when a thread is preempted between its test and the update ("preempt"; the
  code has no lock), when an answer is delivered twice, and when a restart finds
  an answer in a kept session, also the restart after DONE (three jobs are
  needed to see that one).
* `ImageBehindSuccess`: SUCCEEDED stands for an image of that job, without
  "cancel", "reorder" and "session", and without "download" and "disconnect"
  together.
* `DoneIsReported`: when DONE is sent for a job, the service has this job as
  SUCCEEDED, its image was downloaded and is to be applied at the restart, unless
  another download was begun since. The connection stays up, messages come once
  and in order, and jobs are created when nothing is on its way; calls, payloads
  and documents may fail.
* `UsesFota`: the refinement of `FotaUpdate`; no download starts during another,
  in every environment.
* `JobsEnd`: with failed downloads, preemption and restarts that come to an end,
  every job ends. The premise is more than a connection that stays up: all
  calls succeed, every message can be read, and jobs are created when nothing is
  on its way. Otherwise the first divergence below happens.

There are 300,852 distinct states in ten environments, each of them a mix under
which some of the properties are claimed.

Deadlock is not checked: when all jobs have ended, or both threads wait for an
answer that will not come, nothing is left to do. Fairness: threads run,
the service answers, downloads end (`UpdateReported` of `Fota`), lost
connections are made again by the application.

### Divergences

* A rejected update, a failed publication, and an acceptance whose payload cannot
  be read, leave `accepted` FALSE: the next update waits forever, although `aws_fota.c:121` says it waits for the previous
  call to be accepted. When a job is announced while an update is under way,
  the MQTT thread waits for an answer that only it can take from the socket.
* A failed `fota_download_start()` leaves `execution_state` IN_PROGRESS; nothing
  is reported and no later job starts a download.
* `get_job_execution()` replaces `job_id` during a download: job B is reported
  SUCCEEDED with the image of job A (environments with "cancel", "reorder",
  "session", or a failed download and a reconnection).
* An acceptance that is delivered twice counts twice: the second one is taken for
  the answer to the next update, and DONE is sent before the service has the
  success.
* A document without a location leaves `job_id` changed, with topic, version and
  file of the earlier job. No update of it follows, unless a download is under
  way, which happens in the environments of the bullet above on `job_id`.
* The document of the same job after a reconnection sets `fota_state` back to
  DOWNLOAD_FIRMWARE.
* DONE without SUCCEEDED at the service, when a message was lost with the
  connection (`aws_fota.h`).

### Proofs

`AwsFotaProofs`, for every set of jobs and every environment:

* `TypeCorrect`: `Spec => []TypeOK`.
* `UpdatesSerialised`: `Spec => []OneUpdateAtATime`.
* `LibraryUsed`: `Spec => UsesFota`, the refinement of `FotaUpdate`.

The inductive invariant `IInv` has four parts beside the types. `OneJob`: while
all documents have a location, `job_id`, `update_topic` and `location` are the
same job. `AboutJobs`:
nothing is sent or downloaded before there is a job, so that every update names
one. `Downloading`: during a download `execution_state` is IN_PROGRESS and
`fota_state` DOWNLOAD_FIRMWARE, hence no acceptance starts another download;
this is what the refinement rests on, with no condition on the environment.
`Serialised`, without preemption, kept sessions and duplicates (`InOrder`): updates and their answers
are under way only while `accepted` is FALSE, and at most one thread is past its
test, which found it TRUE. The proof attempt showed that a restart after DONE,
which needs no "reboot" in the environment, breaks serialisation with a kept
session; `OneUpdateAtATime` now excludes every kept session.

`AwsReportProofs`, for every set of jobs, the environments being those that the
properties name:

* `SuccessHasImage`: `Spec => [](env \cap {"location", "duplicate"} = {} => ImageBehindSuccess)`.
* `DoneReported`: `Spec => [](~May("location") => DoneIsReported)`.

The run checks both properties with these two troubles as well; the proofs do
not cover them.

Both relate what the service knows of a job to messages that are still under
way. `SInv` is inductive where `ImageBehindSuccess` is claimed (`Steady`). The
jobs are begun in turn (`JobsInTurn`), so that of the jobs whose turn has come
(`Reached`) only one is open: `NextJob`. Whatever job the device has, and every
job in a document or an update, has been reached (`Known`), and documents come
in the order of the jobs (`DocsInTurn`). A connection asks for the next job once
and before any update that will be answered (`Asking`), so that no document of a
job follows the answer to an update of it (`Answered`), and none comes after its
end was sent (`Ended`): a job is not taken up again while its end is under way,
and `get_job_execution()` does not replace a job that is being downloaded.
`ImageOfJob` follows the image from the download to the report. A failed
download sends the end of its job from the other thread; `FailsInTurn` says that
no document of the job is on its way then, which is false across a reconnection
and why the property excludes failing downloads together with lost connections.

`CInv` is inductive where `DoneIsReported` is claimed (`Calm`), on top of `SInv`.
`Exclusive`: an update to be sent, an update, its answer, a document or SUBACK of
a job, and a download exclude each other, but for the next document behind an
answer. `Introduced`: no job is known before the first one was asked for.
`NotYetReported`: while the device has SUCCEEDED and APPLY_UPDATE and the service
does not know, the update that will tell it is the only one, so that the
acceptance that leads to DONE is the one of that update. `ImageTagged`, on top of
`CInv`: from the end of a download on its image is to be applied, and so is the
image of the job DONE was sent for, unless another download has been begun.

## AT commands

### Module, state and actions

`AtCmd` has callers and the socket thread of `at_cmd.c`, each at a place `pc`:
a caller locks (`lock`), queues (`put_sync`, `put_async`), loads and writes
(`load`, `chain`), waits (`await`); the socket thread loads, receives, handles,
dispatches and completes, each step with `current_cmd` read as it is then,
since it takes no mutex. `current_cmd.item` stays after `complete_cmd()`, as
only `cmd` is set to NULL in the code. `bsdlib_shutdown()` and `bsdlib_init()`
with `bsdlib_shutdown_wait()` are the shutdown; a thread that finds no socket
afterwards (`nosocket`) goes on to its next `recv()` and ends there. The modem
answers once and in order what it was sent whole. `get_return_code()` takes a
notification for an answer when its text reads like one (`alike`). A synchronous caller gives a response buffer and no callback, an
asynchronous one a callback and no buffer, as the two calls do.

### Run

`AtCmd`, two callers, three commands in all, a queue of one, eight environments:

* `OwnResponse`: a call that has returned has the answer to its own command, in
  its own buffer; a callback gets the answer to its own command.
* `OneAtATime`: the modem has one command, which is `current_cmd`.
* `CallsReturn`: calls return, also when writes fail.

`OwnResponse` and `OneAtATime` exclude stray messages, failed reads and
notifications that read like answers (`Mistaken`), which break them.
`CallsReturn` is about notifications and failed writes; the rest breaks it. Deadlock is not checked: calls are bounded, and the socket thread
ends after an error it cannot recover from. Fairness: all threads run, the modem
answers, a shutdown ends.

### Divergences

* An empty or oversized message is taken for the response (`at_cmd.c:263`): it
  completes whichever command is pending, and all later answers go to the next
  command ("Ensure we get our own AT response, not an old one",
  `at_cmd.c:377`). A command written in the meantime is never answered.
* A notification that ends with OK or ERROR, or has "+CMS ERROR" or "+CME ERROR"
  anywhere in its text (`at_cmd.c:97`, `at_cmd.c:105`), does the same.
* A command that `send()` takes in part counts as sent (`at_cmd.c:147`); the call
  waits for an answer that does not come. A failing `open_socket()` after a
  restart is logged (`at_cmd.c:238`), and the thread ends at the next `recv()`.
* A shutdown with a command pending: the call never returns, and after the
  restart no command is loaded any more (`at_cmd.h` says `-EHOSTDOWN` is
  returned). `bsdlib_init()` before the socket thread has registered is a lost
  wakeup.
* Without a notification handler a notification goes to the callback of the
  last command, which may have completed long ago.
* A handler that sends a command with a callback while the queue is full waits
  for itself.
* The callback of a command is not called when its write or read fails.
  `at_cmd_init()` recovers nothing once initialized.

### Proofs

`AtCmdProofs`, for every number of callers, every number of calls, every queue
length and every environment:

* `TypeCorrect`: `Spec => []TypeOK`; no queue is ever longer than its length.
* `ModemHasOne`: `Spec => []OneAtATime`.
* `ResponsesMatch`: `Spec => []OwnResponse`.

The inductive invariant says where things are. `OnePlace`: the pending command
is in one place, at the thread whose write failed (which holds the mutex), at
the modem, on its way back, or at the socket thread; this is why the socket
thread may read `current_cmd` without its mutex. `Owners`: a synchronous command
and its response belong to the thread that holds `response_sync_get`, which is
waiting for them, so a response that is found in `response_sync` is never an
old one. Both hold while no message is mistaken for an answer; the types, and that
notifications come only where the environment has them (`Noticed`), always.

## Low power UART

### Module, state and actions

`Lpuart` is one direction of a link: the transmitter of one device, the receiver
of the other, and the line between REQ and RDY. Each device has one CPU:
interrupt handlers run to their end, threads go on when none is pending. The
line is high unless a side drives it low; `Line` sets the pins and records the
edge a pin is armed for. Calls of a thread are split where an interrupt may
change what they have read: `api_tx` / `api_tx_pin`, `api_rx_enable` in three
steps, `api_rx_buf_rsp` in two, `activate_rx_thread` in two. `api_tx_abort()`
stops the UART and returns; the UART's own event comes later
(`uart_tx_aborted`). The events of the UART name a buffer: the history variable
`uart_last` says whether it is the one of the last packet. `uart_tx()` may fail,
always while the UART still has an earlier transfer.

`windows` says what a link is open to: late answers ("latency"), answers already
pending when the transmitter gives up ("stale"), preempted calls ("preempt"),
and reception being disabled ("rx_disable").

### Run

`Lpuart`, packets numbered modulo 3, a link in time, a link with latency and one
with everything:

* `OrderlyTransfer`: on a link in time a packet reported TX_DONE was received as
  a whole, the receiver is on from its confirmation to the end of the transfer,
  it is not turned on twice, and the assertions of the driver hold.
* `SendReported`: on every link every packet is reported, or the UART is about to
  report it aborted; in time it needs no timer for that. The two cases in which
  the code says nothing (below) are named in the property: `outcome` is "silent".
* `TypeOK` also says that no timer runs while a transfer is active: the branch
  of `tx_timeout()` for an active transfer (`:424`-`:432`) is translated and is
  never taken, as `on_req_pin_change()` stops the timer first.

Fairness: interrupts, calls that were begun, and timers.

### Divergences

On every link: when `uart_tx()` fails, `on_req_pin_change()` ends the transfer
and tells nobody (`:250`-`:254`); the application waits for an event for ever.

The others need a window; `uart_nrf_sw_lpuart.rst` says of the receiver that
"Once the receiver acknowledges the transfer, it must be capable of receiving
the whole transfer until the REQ line goes down."

* `api_rx_enable()` tests the pin with interrupts locked and activates after the
  unlock (`:525`): the pin interrupt may activate in between, and the receiver
  is activated twice.
* `api_rx_buf_rsp()` from a thread tests `rx_req` before it sets RX_IDLE
  (`:547`): a request in between is never answered.
* In a thread a falling edge between `ctrl_pin_set()` and `rx_state = RX_ACTIVE`
  (`:190`) is handled in the wrong state. A rising edge that is still pending
  when `activate_rx()` runs is taken for the end of the transfer.
* A confirmation that is pending when the transmitter gives up starts the next
  packet at once (`:234`), and a late request leaves the receiver in RX_ACTIVE.
* A packet sent while the UART still aborts the one before it fails with `-EBUSY`
  and ends without an event; when it is aborted in turn, `uart_tx_abort()`
  succeeds and the only event names the earlier buffer (`:484`).
* `rx_buf` is never cleared: reception cannot be enabled again after it was
  disabled (`:514` returns `-EBUSY`).

### Proofs

`LpuartProofs`, for every set of links:

* `TypeCorrect`: `Spec => []TypeOK`.
* `LosesNothing`: `Spec => []OrderlyTransfer`.

`OrderlyTransfer` speaks of links in time (no window open). Its inductive
invariant `InTime` is a table: `TxPhase` says by the REQ pin what the
transmitter is doing, `RxPhase` lists the six phases of the receiver, each with
the pin modes, the requests that are possible in it and the event by which the
receiver will learn of them, and `Delivered` joins the two ends.

## Light control

### Modules, state and actions

`LightCtrl` is `light_ctrl_srv.c` with the one flag of `lightness_srv.c` it
shares; `LightMachine` is the state machine of the documentation, with a fade
before every state. `srv` holds the flags, the state, the duration of the fade,
what was published last, and four timers; a timer is Idle, waiting, or due (0).
Handlers run to their end (cooperative threads); any handler may run before a
due one, and may cancel it. `Tick` passes time only when nothing is due. Levels,
the regulator's arithmetic, transaction identifiers and the text of messages are
left out. `Reboot` is a power cut at any time: `stored` survives. A delay is a
`uint32_t`: `UInt32` wraps the sum of `turn_on()` and the difference of
`timeout()`. `bt_mesh_model_data_store()` saves the state or fails
(`model_data_store`); the history field `stored.failed` is set between a failed
save and the next good one or the next start.

### Run

`LightCtrl` with two configurations (fades of one tick and instant ones), a
transition time of 1, delays of 0 and 1, all values of OnPowerUp:

* `WaitsForTimer`: nothing the server waits for is without its timer.
* `ChangesSaved`: what a power cut would restore is out of date only while a
  save is under way or since one failed.
* `LitIsPublished`: a light held on was announced as on.
* `SensorsObeyMode`: an occupancy report turns a light on only in occupancy mode,
  also when the mode changed during the occupancy delay.
* `ImplementsMachine`: the refinement of `LightMachine`.
* `EndsInStandby`: once nothing turns it on, a controlled light goes to Standby.

`UINT32_MAX` = 2 is the sum of a fade and a timeout, so that the second On during
a fade wraps, as the 32-bit sum would after many of them; `TIME_MANUAL` = 0 is
below the manual fade, as 5 is below 500 in the default configuration, and the
difference wraps. A longer timer only waits longer. Fairness: the work queue
runs what is due, time passes.

### Divergences

* `ctrl_disable()` clears FLAG_STARTED, so that
  `bt_mesh_light_ctrl_srv_enable()` returns 0 without enabling the server
  (`light_ctrl_srv.h`: "@retval 0 The Light Lightness Control Server was
  successfully enabled.").
* `lightness_set()` takes the light out of control without stopping timers or
  saving the mode; FLAG_MANUAL is set and cleared but never consulted; FLAG_STORE_CFG
  is never set, so the configuration is never saved; a saved occupancy mode
  "off" is not restored where the Kconfig default is on.
* An Off with time 0 during the fade to Standby never publishes Off. A repeated
  On during a fade adds the timeout to the rest of the fade, again and again.
  `delayed_set()` overwrites `fade.duration` of the fade under way
  (`:156`), from which `curr_fade_time()` subtracts.
* An immediate command does not cancel a pending delayed one, against the
  comment at `:110`. A delayed occupancy report in Prolong is ignored with
  occupancy mode off, while an immediate one is not.
* The regulator stops for good inside its dead zone (`:482`).
* `CONFIG_BT_MESH_LIGHT_CTRL_SRV_TIME_MANUAL` is in seconds (`Kconfig.models:430`,
  default 5) and is used unconverted against the milliseconds of
  `fade_standby_manual` (default 500) at `:545`: in the default configuration the
  difference wraps, and manual mode ends after some 49 days. The model has the
  code's arithmetic; no property depends on when manual mode ends, as nothing
  reads FLAG_MANUAL.
* `store_timeout()` clears its flag before the save, and when
  `bt_mesh_model_data_store()` fails (`:601`-`:614`) the error is only logged:
  the change is not saved until another one is. `ChangesSaved` and the theorems
  `Saved` and `OnStateSaved` except this case by name.

### Proofs

`LightCtrlProofs`, for every set of configurations, transition times and delays
(`ConfigAssumption`, `TimeAssumption`):

* `TypeCorrect`, `TimersWait`, `LitPublished`: `TypeOK`, `WaitsForTimer` and
  `LitIsPublished` are invariants.
  No configuration is left out: the types hold where delays wrap too.
* `Saved`: so is `ChangesSaved` where the occupancy mode is off by default; where
  it is on, `OnStateSaved` says it of the On state alone, as a mode that was
  turned off is not restored.
* `ModeObeyed`: the action property `SensorsObeyMode`.
* `MachineImplemented`: the refinement `ImplementsMachine`; every handler maps to
  one step of `LightMachine` or to none.

A handler is a function on the state of the server, so the lemmas are about what
each helper of the code keeps, once for all its callers. The inductive invariant
adds to the properties that a delayed change has its flag and its timer
together, that nothing runs before the server was started, and which flags the
saved state may still differ in.

## Mutants

Every property of a passing run has a mutant: a definition with a plausible
mistake (a missing guard, flush, wait, reset or save), placed before the
definition it replaces and marked as a mutant. `PROJECT.json` pairs them.

## Proved and model-checked

| Module | Proved | Only model-checked |
|---|---|---|
| `Esb` | all its invariants, each under the discipline named with it | `TransactionReported`, `FlagsReported` (liveness) |
| `EsbLink` | | `ReliableChannel`, `AllConfirmed` |
| `Fota` | `TypeOK`, `DataInOrder`, `ImplementsUpdate`, under `FotaDiscipline` | `UpdateReported` (liveness) |
| `AwsFota` | `TypeOK`, `OneUpdateAtATime`, `ImageBehindSuccess`, `DoneIsReported`, `UsesFota` | `JobsEnd` (liveness) |
| `AtCmd` | `TypeOK`, `OwnResponse`, `OneAtATime` | `CallsReturn` (liveness) |
| `Lpuart` | `TypeOK`, `OrderlyTransfer` | `SendReported` (liveness) |
| `LightCtrl` | `TypeOK`, `WaitsForTimer`, `ChangesSaved`, `LitIsPublished`, `SensorsObeyMode`, `ImplementsMachine` | `EndsInStandby` (liveness) |

Liveness under fairness is out of the prover's reach and stays with TLC. Every
inductive invariant was checked with TLC on the instance of its run before it
was proved. The bounds of the runs (calls, versions, messages under way) are in
guards and do not weaken the theorems, which hold for every value of them.

## Not modelled

See `PROJECT.json`. Applications, samples, boards and scripts are out of scope;
glue around binary libraries (MPSL, SoftDevice controller, bsdlib, Zigbee) has
no logic of its own; text protocols are mostly parsing. The modelled code is the
part of the repository with the state machines that its tests reach least; most
of its lines are drivers' register accesses, message encoding, shell commands,
generated tables and example applications, for which a model would repeat the
text.
