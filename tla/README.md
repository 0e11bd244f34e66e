# ESP_TESTING: a TLA+ model of the ventilator firmware

The repository is the firmware of a fan controller on an ESP32 (ESP-IDF,
FreeRTOS), organised as independent components with unit tests. `main` is
still an idle loop; the components are driven by their tests and by each other.
This directory models the components that carry logic of their own, checks them
with TLC on small instances and proves the central results with TLAPS for every
value of the constants.

Paths below are relative to `src/components/`.

## 1. Inventory

| Component | State | Operations | Interaction | What is hard |
|---|---|---|---|---|
| event_manager: registry (`event_manager.c`) | 100 unlocked slots of (event, handler); `evn_queue` | register, unregister (by handler, by event), set_event; the event task | called by every component; handlers run in the event task and call back into it | two cores, no lock, two stores per slot; a handler that waits for its own task |
| event_manager: periodic events (`event_time_manager.c`) | 50 slots with period and calls left; request queue; `ms_counter` | start, stop; the timer handler, once a millisecond | requests come from any task; posts to `evn_queue` | requests in flight while the list is walked, reuse of slots, full queues |
| device_i2c (`i2c_async.c`, `hdc1080.c`) | `i2c_queue`, the completion and error bits, the request in hand | i2c_send_async, i2c_send_sync, the I2C task; the polled humidity sensor | callers share one completion bit; operations stay in the caller's memory | retries, time limits, stale completions, operations whose owner has gone |
| humidity_controller (`humidity_analizer.c`, `fan_fsm.c`) | sums, averages and rates; fan state and clock | humidity_analyze, fan_controller_update | the fan reads the verdict of the analyzer once | verdicts that last one call; a clock shared by several states |
| device_gpio: buttons (`button_reader.c`, `device_gpio.c`) | start time of every button | the polling handler, get_inp_state | polled by a periodic event, posts EVN_BUT_PRESS | several buttons at once, silence after a report |
| wifi_service (`wifi_service.c`, `wifi_tools.c`) | mode, retry count, five event bits | wifi_set_mode, get_best_wifi_ch, the handler of driver events | the driver posts events to another task | events that arrive after the call they belong to, failing driver calls |
| bgcp (`bgcp_queue.c`, `bgcp_data_processor.c`, `bgcp_data_descriptor.c`, `bgcp_param_table.c`) | queue buffer with current function and page; parser; parameter table | queue_push functions, parse, update and send functions per type | two nodes exchange packets through a transport | implicit function, page and size; a full buffer; data that look like commands |
| device_network: servers (`udp_server.c`, `dns_server.c`, `ping_sever.c`, `bgcp_server.c`, `udp_client.c`) | a control bit per service, a configuration and a socket per task | start, stop, the server and client tasks | any task starts and stops; the task sees its bit between two receives | restart before the old task has seen the stop; starts that fail half-way |
| device_network: HTTP and JSON configuration (`device_http_server.c`, `json_static_config.c`, `json_helper.c`) | table of endpoints and fields, pointers into the settings | start, stop, GET, POST, pages | the server task writes the bytes that the application sets | fields stored as `int` over bytes; bodies in part; allocations that fail |
| H: cJSON (`H/cJSON.c`) | documents, print buffers | parse, print, minify, build | called by the JSON configuration | buffers at their limit, escapes, every allocation |
| device_ota (`ota_update_stream.c`, the stream adapters) | the factory slot and two update slots, decryption context, update handle | stream, chunk, complete | flash, boot switch | chunks in flash before the tag is checked; loss of power |
| device_memory (`device_memory.c`) | blobs in flash | init_nvs, read_flash, write_flash | any task | a handle that was never set; power lost between set and commit |
| ST25DV (`st25dv.c`, `st25dv_ndef.c`) | registers and user memory of the NFC tag | read, write, bits, sessions; NDEF append and read | i2c_send_sync | read-modify-write over failing transfers; a length field that grows and moves the message |
| device (`device.c`) | settings, event bits | setters | all components | the bytes that POST writes too |
| bgcp_net, engine, main | - | - | - | stubs, commented out, or an idle loop |

Correctness, per component: the registry reaches every handler that was
registered all along, once, and never NULL; a periodic event comes due as the
last request says; the callbacks of an I2C request are a prefix of its
operations in order and an answer means that the work is done; the fan runs as
long as the humidity asks and no longer than its limit; clicks and holds
correspond to presses while the polls keep their period; the Wi-Fi mode and bits are what the application was
told; a BGCP parser hears what the writer said and no packet moves a parameter
out of its limits; a service that is stopped ends and one that is said to run
has a task; a GET tells what the last POST stored; the JSON printers agree and
parsing undoes them; the device always boots a complete image; a blob that was
stored and a message that was written are read back.

Everything in this code that is hard to test is listed, at its line, under
`hazards` in `PROJECT.json`, with the properties that cover it.

## 2. Modules

| Module | Models | Uses |
|---|---|---|
| `PeriodicEvents` | `event_time_manager.c` | refines `PeriodicTimers` |
| `PeriodicTimers` | abstract: one independent timer per event | |
| `EventRegistry` | `event_manager.c` | |
| `I2cAsync` | `i2c_async.c`, `hdc1080.c` | |
| `FanControl` | `humidity_analizer.c` and `fan_fsm.c`, composed by their owner | |
| `Buttons` | `button_reader.c`, `device_gpio.c` | |
| `WifiService` | `wifi_service.c`, `wifi_tools.c` | |
| `Bgcp` | the three files of the protocol and the look-up of parameters | |
| `ServerTasks` | `udp_server.c`, `udp_client.c` and the three servers on top of them | |
| `CJsonText` | the text half of `H/cJSON.c`, as operators | |
| `HttpConfig` | `device_http_server.c`, `json_static_config.c`, `json_helper.c`, the setters of `device.c` | extends `CJsonText` |
| `OtaUpdate` | `device_ota` | |
| `NvsMemory` | `device_memory.c` | |
| `NdefTag` | `st25dv_ndef.c` and the block transfers of `st25dv.c` | |
| `PersistentStores` | what outlives a loss of power | puts the three modules above into one run |
| `MC*` | values of the constants for TLC | extend the module of that name |
| `*Proofs` | theorems (`PersistentStoresProofs`: those of the stores that it composes; `WifiServiceProofs`: those of `ServerTasks` too) | extend the module of that name and `TLAPS` |

Variables and operators carry the names of the source where the language allows
it; `map` in `PROJECT.json` gives the lines of every definition. History
variables (marked `history` at their declaration) record what has happened and
are never read by a guard, except where they count to bound a run, and for
`message.open` in `NdefTag`, which is the caller's knowledge that its message is
not finished.

### PeriodicEvents

Clients append requests to `periodic_evn_queue`. A tick of the timer is a loop
that takes requests (`TickDrain`) and then a walk over the slots (`TickSlot`);
each queue operation and each slot is a step, as tasks of the other core run in
between. A slot that is stopped or has expired keeps its event until another
one takes it, so later requests may find it. `RequestFindsSlot` rests on
`CapacityAssumption`: the program has 17 identifiers and 50 slots.
`PeriodicTimers` says what the list is for: a map from events to timers;
`ImplementsTimers`, which is also proved, shows that order, number and reuse of
the slots cannot be observed.

### EventRegistry

Every slot that a search examines, and each of the two stores to a slot, is a
step. A call of NULL is a crash followed by a restart. `Registrars`,
`Unregistrars` and `Senders` say which tasks, the event task inside a handler
included, make which calls. `Serialised` forbids two tasks to be inside a
register or unregister call at the same time. The program keeps this by
convention only; without it two registrations pick the same slot.

`standing` (history) holds the registrations that have a slot of their own.
`get_event_entry` matches every slot for EVN_ANY, so a registration under
EVN_ANY of a handler that has any other registration is answered true and not
stored; `leaning` (history) holds the registration it was answered for.
`RegistrationHolds` speaks of both: whatever was answered true is backed by a
slot, its own or that other one. What it does not say, since the code does not
do it, is that the handler then hears all events, or that it stays registered
when the other event is unregistered.

`foreign` (history) records that a task other than the event task unregistered
during the event in hand. `NoNullCall` and `ServedOnce` are claimed while it is
false: such an unregister can fall between the test of a handler and its call,
which is a real NULL call (see the hazards).

### I2cAsync

The I2C task is a loop over requests, operations and attempts; a transfer may
fail. A caller of `i2c_send_sync` clears the bits, sends, waits and returns in
separate steps and may give up (`MayTimeout`); its operations are on its stack,
so a request whose caller has returned is worked on with arbitrary operations
(`Alive`). The humidity sensor is a second client. `alone` (history) says that
the sensor has not been polled, no limit has passed and no call began while
another one was under way; only then do `OpsAlive` and `AnswerAfterWork` hold,
and `i2c_sync_race` shows the other case.

### FanControl

The owner of both objects calls the analyzer and the fan in turn, once a
second, and may start a fan that is off: nothing in the repository calls them
yet, so this loop is external. Sums of samples are never negative, so C's division
is TLA+'s. All fields fit their widths on the scale of the sensor, so plain
integers are used.

### Buttons

A poll samples every button at once. Times are relative to the poll, so there
is no bound on the length of a run. The period of the poll is `DEBOUNCE_TIME`,
but nothing makes the event task keep it: a poll may come any time after the one
before (`Gaps`). `device_conf_gpio_in` stores `START_TIME` itself, whatever
`ms_counter` shows by then (`Clocks`), so the start times are long past, or
still to come, when the first poll runs. A late poll and a late
`device_gpio_init` each make the code take idle buttons for clicked. The
properties therefore compare a report with `released`, the time since a poll
found the button released: `ClicksArePresses` says that there is no other way to
a phantom click, and nothing more than a press remains when the polls are never
more than `DEBOUNCE_TIME` apart.

### WifiService

The application task, the handler of driver events and the network are three
actors. Driver and network are external: starting, stopping, connecting and
losing a connection post events that are handled later. A call may begin while
events of the last one are pending; `MaxPending` only bounds their number. The
one assumption about time is that `vTaskDelay` inside a call (50 or 100 ms)
outlasts the handling of what is pending (`Delay`): the handler runs in the
system event task, of a far higher priority than any caller, and does not wait.
Calls of the driver may fail (`CallsFail`), `esp_wifi_connect` among them, whose
result the handler ignores.

Two things in the code leave a started station down for good, and the
properties name them in place of assuming them away. `refused` (history): a
failed `esp_wifi_connect` is followed by no event. `overtaken` (history):
`set_wifi_on` ran while events were pending, which a scan in mode NULL makes
possible since no delay follows it; its STA_STOP clears AUTO_CONN of the new
session. `BitsTruthful` and `NeverSilentlyDown` claim that there is no third.

### Bgcp

Master and device run the same library. A byte has `Base` values so that
commands, wrap-around and pages exist on a small alphabet. `Ask` fills the
master's queue, `SendRequest` and `SendResponse` hand a buffer to the other
parser, `EndRound` also stands for a lost answer, `SendNoise` delivers a packet
that no writer made. `sent` and `heard` are the entries as they were pushed and
as they were parsed. A push that does not fit drops its bytes silently while
the current function and page move on, as in `queue_push_req_data`. Checked
result: what is heard is still a prefix of what was said, because the data that
were dropped always exceed what is left of the packet.

### ServerTasks

A slot is one configuration and the task that it is passed to. A start
allocates, sets the bit and creates the task in separate steps; each may fail,
and a failed start clears the bit whoever set it, as in the code. The task
makes and binds its socket, receives with a limit, looks at its bit and cleans
up. `StopEnds` is the service's promise: if the bit stays cleared, all tasks
end, however many a quick stop and start have left behind. DNS keeps its
receive buffer from query to query, uninitialised at first, and compares names
byte by byte. The BGCP server calls a handler that nothing sets: the call is
modelled as a crash and restart.

### CJsonText and HttpConfig

A text is a sequence of symbols with a width in bytes each, so that parsing and
printing are translated as they are, offset by offset, and buffers overflow
where they would. The kind `newline` stands for `\b`, `\f`, `\n` and
`\r`, which the code treats alike. Operators that allocate count their
allocations; one of them may fail. These operators recurse over documents, so
no theorem is stated in these modules.

`HttpConfig` builds the table as `json_static_config.c` does, and serves one
request at a time, a step per field, while the application sets the same bytes.
The configuration is memory: a field declared as an int is stored as four bytes
through a pointer to one. `told` (history) holds the value last posted to a
field, if nothing has overlapped it since; this makes `GetTellsLastPost` a
statement about the application's view and not about the pointers. The page
posts `interval_timer`, which no field is called: it is ignored and answered OK,
as the body with that name shows. `/exit` calls httpd_stop from the server's own
task, which never returns (`srv = "stuck"`). The
setters of the device accept an index one past the end of their lists of values
(`<=` in `device.c:45`, `52` and `55`), and POST checks no range at all: the
model keeps both, and claims nothing of the values. The copies of SSID and
password are left out.

### OtaUpdate, NvsMemory, NdefTag, PersistentStores

Every call into a library that may fail, and every point where the power may
go, is a step. The image is written chunk by chunk before its tag is compared.
Nothing calls `ota_update_stream` yet: the caller assumed runs one update at a
time with a cleared context and calls `complete_ota` only after the answer was
true. A short read of the HTTP stream fails the update, and a failed attempt never
calls esp_ota_abort. The slots are those of `partitions.csv`: the factory image,
which is never written, and the two that take turns.

`NvsMemory` closes whatever handle is on the stack after an open that failed,
which may be another task's. A size of 0 and a NULL pointer are answered
ESP_ERR_INVALID_ARG, which `bool` makes true, without touching flash. So
`write_flash` answers true in two cases, and its caller cannot tell them apart.
`kept` (history) is the blob of the last write that was given one and returned
true; `WriteIsDurable` claims that it is in flash, and that a write that was
given nothing takes nothing from it. (The test `test_memory.c:34-35` compares the
answers with ESP_OK, which is 0 and stands for neither.)

`NdefTag` takes over the result of `I2cAsync`: a transfer may be answered ESP_OK
without having been done. It keeps bytes, 8-bit addresses and lengths at their
real width; `message` (history) records whether all transfers of the last message
were done and whether all its records begin below address 256, outside of which
the code promises nothing. A record never begins behind the length field in its
long form and below address 256, so `UpdateLongL`, which is the code's step for
an append to such a message, only occurs in messages that are not intact.

`PersistentStores` only puts the three stores into one run. They share nothing,
`used` picks in the initial state the one that a behaviour works on, and a loss
of power resets it wherever it is; nothing is claimed of stores at work at the
same time.

## 3. Runs

| Run | Shows | Bounds |
|---|---|---|
| `periodic` | requests at any point of a tick; the last one governs, the slots implement one timer per event, endless events keep coming due | 2 events and 2 slots (as many as the assumption allows, so slots are reused), periods 0 and 2, limited and endless calls, queues of one place so that they are often full; the clock modulo 2 |
| `registry` | a task and the handlers register, unregister and send while events are dispatched; registrations and removals hold, everyone due is served, no call waits for good | 1 event and the wildcard, 2 handlers, 2 slots (the registry fills up), a queue of one place |
| `i2c` | a caller with limits beside the sensor on a failing bus: order of callbacks, life of the operations, answers after the work, every request taken | one place in the queue, one retry |
| `i2c_sync_race` | expected violation, finding 1 | a bus that never fails |
| `i2c_humidity` | expected violation, finding 2 | the sensor alone |
| `fan` | verdicts, bounds and ends of a run | 3 values, 2 samples per average, 2 averages per window, limits 2 and 7 so that both ways to stop occur |
| `buttons` | three buttons in every order, late polls, early and late initialisation | times 2, 5 and 7; gaps 1, 2 and 3, of which the last is late; clocks 0, 7 and 15 at the initialisation: before, at and long after START_TIME |
| `wifi` | mode changes, scans, losses and failing calls | 2 retries, 2 stations, calls that begin with up to 3 events pending (a stop of the station with its connection and one client) |
| `bgcp` | exchanges between two nodes | 6 parameters, one of each kind, on two pages; packets of up to 3 entries, a buffer of 16 bytes that some overflow, noise of up to 4 bytes over all commands; both nodes restart after one exchange |
| `servers` | two applications start and stop services in every order: owners of configurations, bits with tasks, DNS answers, ends of tasks | DNS and BGCP servers and a client, 2 slots (starts run out of memory), 3 calls, queries of up to 6 bytes over a stale or blank buffer |
| `http` | POST and GET beside the application; the JSON library on its own | bytes of 8 values and ints up to 2047, so that ints wrap over neighbours; the real table of fields (25) and endpoints (15); 3 requests, 2 calls of the application; each of the first 8 allocations of a step of a handler and of a library call fails (no step of a request has more: one for the object, up to 3 for a field, up to 8 for the print); a print buffer of 16 bytes, so that it grows several times |
| `stores` | updates, blobs and NDEF messages with losses of power | images of up to 3 units in chunks of 2 (a last chunk that is short), files with wrong magic, size or tag; 2 tasks on one blob, writes of nothing; real addresses with records of 130 bytes, so that the second one makes the length field grow; 3 records, 2 messages, 1 failing transfer |

The constants of the code (50 and 100 slots, queues of tens of places, three-figure
times) are larger, but no step compares them with anything but each other: the
small values keep the order of the thresholds and make every limit reachable.
One exchange suffices for `bgcp`, since the parser and both queues start every
packet in the same state; only the values of the parameters carry over, and
`InRange`, which is proved, covers all of them. `http` and `servers` bound the
number of calls and stop when they are used up, so deadlock is not checked
there; nothing in their properties counts calls. Three requests are a POST, one
that disturbs it, and the GET that tells; three calls are start, stop, start.

### Findings

1. `i2c_sync_race`: the completion bit is shared. When the request of the
   sensor ends between the clearing of the bits and the send, `i2c_send_sync`
   returns ESP_OK before its own request was taken; the tests assert that its
   callbacks have been made.
2. `i2c_humidity`: `hdc1080_polling_handler` switches to the two readings only
   if `is_init`, and sets `is_init` only in that branch: the sensor is
   configured for ever and never read.

### Fairness

- `periodic`: the hardware timer ticks and the event task empties its queue.
  Nothing is assumed of the clients; `ForeverComesDue` asks that they be quiet,
  as they could refill the request queue as fast as the handler drains it.
- `registry`: every task gets processor time; a handler returns in the
  end (strong fairness, as the calls it makes interrupt its return).
- I2C: the tasks run, the limit of a wait passes, the sensor is polled by its
  endless periodic event.
- `fan`, `buttons`: the periodic caller goes on.
- `wifi`: both tasks run and an attempt to connect has an outcome, good or bad;
  nothing is assumed of the network.
- `servers`: every application and every task gets processor time, and a
  receive returns in the end, with a datagram or at its limit; nothing is
  assumed of the clients of a server.
- `bgcp`: a parser that has bytes left goes on; its caller answers or gives up.

## 4. Proofs

Assumptions are the `ASSUME`s of the modules (lengths positive, identifiers not
0, thresholds natural, descriptors well formed,
at least 11 values of a byte so that commands and functions differ); TLC
evaluates them in every run.

- `PeriodicEventsProofs`. `SlotInv` (types, active slots have an event, no event
  in two slots) is inductive; a request finds a slot by the pigeonhole
  principle. `GrantedInv` relates every event's slot to the last request taken
  and to the history of its calls; it needs `SlotInv`, because a second slot
  would keep an older request alive. From it follow `LastRequestGoverns`,
  `DueOnTime` and `StoppedStaysQuiet`. `ListImplementsTimers` is the refinement:
  the timer of an event is read from its slot, which is unambiguous because
  `SlotInv` leaves it at most one (`Holds`, `Single`). Applying a request is a
  step of `PeriodicTimers`, a turn of the scan is one if its slot is active and
  a stutter if not, and the events ahead of the scan are those still to advance.
- `FanControlProofs`. `FanInv`: types, the sum of samples within the scale, the
  sum of rates equal to the change of the average since the window began, and
  what each fan state knows of its clock. `RunIsBounded` alone is not
  inductive: FAN_MIN_TIME must know that its stop time lies less than a minimum
  time beyond the limit.
- `ButtonsProofs`. `ButtonsInv`: the time of a button is never more than the time
  since a poll found it released, and during a silence every start time lies in
  the future. It holds for polls as late as they may be and any clock at the
  initialisation.
- `BgcpProofs`. `BgcpInv`: types and ranges together, since a node sends bytes
  because its values are in range, and its values stay in range because it
  parses bytes. Holds for every table, buffer size, width of a byte and noise.
  A second invariant gives `Understood`. `WriterInv` describes the buffer of a
  node by its chain of entries: the first `m` are there with all their data, each
  ending where the next one begins, and the next one was cut so that whatever is
  left of it announces more than the buffer holds (`Laid`, `Placed`, `Cut`).
  What an entry puts before its data (`Lead`) depends only on the entry before,
  because the queue's function and page move on even when their bytes are
  dropped (`WrittenStep`). `ParserInv` says that the parser stands inside that
  chain, before the rest of the lead of the next entry (`Facing`), and has heard
  the entries before it. `Understood` is a statement about the end of a packet
  and says nothing of the middle of a lead, where almost all steps happen.
  `PlainRequests` is assumed: no request names a parameter whose low byte is a
  command, which no packet could tell from that command, and just the functions
  that take data are given some. The answers and refusals of the device need no
  such assumption, and neither does `Noise`.
  A third invariant gives `Mirrored`, again for `PlainRequests`. `MirrorInv`
  says that the device answers the request entry by entry as far as it was
  parsed (`AskedInv`), that the last answer about a parameter tells the value
  the device has, that the master's copy is the last answer it heard
  (`LearnedInv`), and that a parameter without an update function keeps its
  first value (`ConstKept`). It needs `ParserInv`, because the master learns
  from what it hears, not from what was written. The conclusion rests on
  `EncodeInjective`: the bytes of an answer stand for one value of the parameter.
- `EventRegistryProofs`. Types and `NoNullCall` hold under every interleaving:
  `NullInv` adds that, while `foreign` is false, only a handler can be inside an
  unregister call, and then the event task is not at the test or the call; so
  the slot that passed the test keeps its handler. The other properties are
  proved under `Serialised`. `RegistryInv` says that one task at most is inside
  a register or unregister call and what it knows of its slot, and that a slot
  that is taken was granted to one registration, which carries its own pair and
  those that lean on it; `BarredInv` that a barred
  handler is in no slot for the event in hand; `DueInv` and `ReachInv` relate
  the index of the walk to the handlers served and to those that stood all
  along, which yields `ServedOnce` and the action property `ServedAll`.
- `I2cAsyncProofs`. `IInv`: types; the attempts and callbacks so far are those
  of the operation in hand (`Reported`); a callback reached a caller only for
  its present call (`HeardOfPresent`, which needs `FreshCallExists`: a task
  never has more requests about than there are call numbers); while `alone`, at
  most one caller is in a call and the queue, the I2C task and the completion
  bit are about that call (`OneCaller`). `OpsAlive` and `AnswerAfterWork` say
  nothing of the queue and the bit and are not inductive without it.
  `HumidityNeverMeasured` is finding 2 for every bus and queue:
  `FirstOperationOnly` says that no request for a reading is ever made.
- `WifiServiceProofs`. `ModeAsRequested` needs only `ModeInv`, for every order
  of events. The others hold for every order too, without a
  hypothesis on how soon events are taken: `overtaken` marks a scan whose events
  were still pending when `set_wifi_on` ran, and the claims say what
  holds until then. `WifiInv` consists of what each phase
  of a call knows of the driver and the bits (`PhaseInv`), that only events of
  scans are pending while the driver rests (`RestInv`), what `set_wifi_on` finds
  when nothing of an earlier scan is pending (`FreshInv`) and, when something is,
  that its stop comes before everything else and ends automatic connection
  (`OvertakenInv`); and, while nothing was overtaken, that at most one
  pending event or step of the handler will call esp_wifi_connect, and none
  while the link is up or coming up (`TokenInv`), that link and bits agree but
  for pending events (`LinkInv`), and the number of failures against the count
  of the handler (`LostInv`); `ClientsInv` says of the clients of the access
  point what `LinkInv` says of the link.
  The services of `ServerTasks` run over the network, and their theorems stand
  at the end of this module. `OwnInv` names the owner of each configuration: the
  one start that filled it, and then the task that this start created.
  `BitBacked` needs it, since a new task must not take the place of another one
  that backs a bit. Nothing is assumed of the numbers of tasks, services and
  slots, nor of what fails.
  `HostAlwaysAnswered` is about the walk of `dns_hostname_match` over the labels
  of a query, in both directions. `MatchTells`: behind every label that the walk
  has passed, the letters that remain of the query and of the host name are the
  same, so a walk that ends with both has seen the letters of the host name.
  `NameMatches`: as long as what remains of the query is what remains of the host
  name and a 0 lies further on, the next label fits and the walk goes on; the 0
  matters, since a label that the end of the query cuts off is refused. Both are
  inductions over the distance from the end of the query. `FilledInv` adds what
  the walk reads there: bytes, of this query or of earlier ones. The assumption is
  `NameAssumption` (octets, and a C string without a 0). TLA+ says of a recursive
  function only that it is *some* function with the given body, if there is one;
  that there is one is proved first, from the well-foundedness of the natural
  numbers (`LeastOne`, `RecursionExists`).
- `PersistentStoresProofs`. `OtaInv` is the type invariant with
  `HandleIsIdleSlot` (an open handle writes to the slot that does not boot),
  `FlashIsReceived` (that slot holds exactly the units received so far),
  `TagHolds` (after the comparison they are the image the header names) and
  `BootIsComplete`. The last alone is not inductive: switching the boot slot is
  safe only because what was written is what was authenticated, and losing power
  is safe only because nothing writes to the slot that boots. `WritesAreDurable`
  rests on what each step of a call has written so far, and on `given`: a call
  without data, which `write_flash` answers true too, stores nothing. `MessagesReadBack`
  is about the bytes of a message: `TagContents` says of an intact one that its
  records lie one behind the other at `Places`, that the length field in front of
  them announces their extent in its short or in its long form (`Header`), and
  that a terminator byte stands behind them once it is closed; `Pending` says what
  of this is still to be written at each point of an append. `ReadsBack` alone
  says nothing of the bytes. Three facts carry the argument: a record fits
  `record_data` and is therefore short, so that its header tells its size; when
  the length field grows, what lies behind it is read whole and written back
  exactly two bytes higher; and the terminator cannot be the first byte of a
  record, so that the reader's loop never leaves before it and never goes on
  behind it.

Properties that are proved but not part of a run are the type invariants,
`OneSlotPerEvent`, `RequestFindsSlot`, `DueOnTime`, `StoppedStaysQuiet`,
`SumIsChange`, `StopsOnlyWhenDry`, `HeldMeansHeld`, `QuietAfterReport` and
`HumidityNeverMeasured`: the theorems cover every instance.

The hypotheses of theorems: `Serialised` is a constant of `EventRegistry` that
the configuration of `registry` sets to TRUE, so these theorems speak of the
case that is checked; in the other case two calls that register at the same
time may take the same slot (`event_manager.c:74`), the earlier one is lost, and
nothing in the code says otherwise. `PlainRequests` holds of `MCRequests`.

Only model-checked:

- everything with fairness (`ForeverComesDue`, `CallsReturn`, `RequestsTaken`,
  `RunEnds`, `HoldIsReported`, `NeverSilentlyDown`, `ExchangeEnds`, `StopEnds`):
  the prover does not reason about ENABLED;
- the five properties of `HttpConfig`, which are about texts that recursive
  operators of `CJsonText` print and parse: the prover has no SMT backend there.

## 5. Not modelled

- PWM, tachometer, `wifi_sta.c`, `bgcp_socket.c`, `net_controller.c`,
  `atlant_paltform.c`, `engine`, `main`: commented out, empty, or plain driver
  calls without state. The packet check of `bgcp_net`: pure and not called.
- The operations on linked lists of `H/cJSON.c` that nothing here calls, web
  pages, debug texts.
- The wrap of `ms_counter` in `Buttons` (`device_gpio.c:11`), after which a
  button is deaf for a while; parameters bound to functions and the binding of
  parameters in `Bgcp`; memory allocation that fails at start-up, except in
  `ServerTasks` and `HttpConfig`.
- The bits and the session of the ST25DV registers: nothing calls
  `st25dv_write_bit` (`st25dv.c:62`), and its read may be answered ESP_OK
  without a byte read, its write done later with other bytes. A phone that
  writes the tag over the air while the firmware does. A request of an
  operation on the tag that was given up and is carried out later with whatever
  then stands in `ops`: `I2cAsync` has it, `NdefTag` has not.
- In `ServerTasks`, the refusal to answer before the host has an address
  (`dns_server.c:75`) and the tests of the size of the response: an answer may
  be withheld, which the claims allow.
- More events than slots in `PeriodicEvents` (`CapacityAssumption`): the
  program has 17 identifiers and 50 slots (`PERIODIC_EVN_LIST_LEN`).
- Records longer than `record_data` (`st25dv_ndef.c:69`), and a context that is
  used for a second update (`ota_update_stream.c:151`): their outcome is
  undefined or up to a caller that does not exist.
- Modelled, but without a property of their own, as the code promises nothing:
  `stop_periodic_event` ignores a full request queue
  (`event_time_manager.c:39`), so the event goes on; `parse` returns on an
  unknown function before it resets the queue (`bgcp_data_processor.c:39`);
  `/exit` (`device_http_server.c:253`).
- That every HTTP request ends: the server of the ESP-IDF is external, and
  beyond it each request is a loop over a finite table.

## 6. Plan

In this order:

1. The recursive operators of `CJsonText` as recursive functions, so that a
   theorem about `PostFootprint`, which speaks of the fields of a page and not of
   their texts, comes within the prover's reach.
2. Binding of parameters with a full table in `Bgcp`.
