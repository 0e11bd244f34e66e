----------------------------- MODULE WifiService -----------------------------
(***************************************************************************)
(* The Wi-Fi service (wifi_service/wifi_service.c, wifi_tools.c): the      *)
(* application task that changes the mode or scans for a free channel, the *)
(* handler that the system event task runs for the events of the driver,   *)
(* and the event bits they share.  The driver and the network are external *)
(* and modelled by what the code relies on: starting, stopping, connecting *)
(* and losing a connection post events that arrive later.                  *)
(***************************************************************************)
EXTENDS Naturals, Sequences

CONSTANTS
  WIFI_MAX_RETRY,  \* attempts to reconnect
  AP_MAX_CONNECTION,
  CallsFail,       \* whether calls of the driver may fail
  MaxPending       \* bound: events pending when the application starts a call

ASSUME RetryAssumption == WIFI_MAX_RETRY \in Nat
ASSUME ClientsAssumption == AP_MAX_CONNECTION \in Nat
ASSUME FailAssumption == CallsFail \in BOOLEAN
ASSUME PendingAssumption == MaxPending \in Nat

VARIABLES
  init,     \* what wifi_preinit has reached: "none", "partial" or "done"
  bits,     \* the Wi-Fi bits of device_evn_group
  ctrl,     \* reconnection_ctrl of the handler
  handler,  \* "idle", or the call of esp_wifi_connect it is about to make
  app,      \* the application task inside wifi_set_mode or get_best_wifi_ch
  cur_mode, \* conf->cur_mode
  result,   \* what the last call of wifi_set_mode returned
  drv,      \* external: mode, whether started, connection as a station
  evq,      \* external: events of the driver not yet handled
  clients,  \* external: stations connected to the access point
  lost,     \* history: failures since the last connection or start
  refused,  \* history: a call of esp_wifi_connect failed since the last start
  overtaken \* history: set_wifi_on ran before events of an earlier scan

code == <<init, bits, ctrl, handler, app, cur_mode, result>>
history == <<lost, refused, overtaken>>
vars == <<code, drv, evq, clients, history>>

DevModes == {"NOT_INIT", "NULL", "STA", "AP", "APSTA"}
Modes == {"NULL", "STA", "AP", "APSTA"}
Events == {"STA_START", "STA_DISCONNECTED", "STA_STOP", "AP_START",
           "AP_STACONNECTED", "AP_STADISCONNECTED", "STA_GOT_IP"}
WifiBits == {"AUTO_CONN", "STA_CONNECTED", "STA_CONN_FAIL", "AP_START",
             "CONNECTED"}

get_wifi_mode(m) == IF m \in {"STA", "AP", "APSTA"} THEN m ELSE "NULL"

HasSta(m) == m \in {"STA", "APSTA"}
HasAp(m) == m \in {"AP", "APSTA"}

IdleApp == [pc |-> "idle", op |-> "set", mode |-> "NULL"]

Init ==
  /\ init = "none"
  /\ bits = {}
  /\ ctrl = 0
  /\ handler = "idle"
  /\ app = IdleApp
  /\ cur_mode = "NOT_INIT"
  /\ result = FALSE
  /\ drv = [mode |-> "NULL", started |-> FALSE, link |-> "down"]
  /\ evq = <<>>
  /\ clients = 0
  /\ lost = 0 /\ refused = FALSE /\ overtaken = FALSE

(***************************************************************************)
(* External: the driver and the network.                                   *)
(***************************************************************************)
\* Capped at one more than the retries.
Lost(n) == IF n > WIFI_MAX_RETRY THEN n ELSE n + 1

StartEvents(m) == (IF HasSta(m) THEN <<"STA_START">> ELSE <<>>)
                    \o (IF HasAp(m) THEN <<"AP_START">> ELSE <<>>)

StopEvents ==
  (IF drv.link = "up" THEN <<"STA_DISCONNECTED">> ELSE <<>>)
    \o (IF drv.started /\ HasSta(drv.mode) THEN <<"STA_STOP">> ELSE <<>>)
    \o [i \in 1 .. clients |-> "AP_STADISCONNECTED"]

\* esp_wifi_start in mode m.
DriverStart(m) ==
  /\ drv' = [mode |-> m, started |-> TRUE, link |-> "down"]
  /\ evq' = evq \o StartEvents(m)
  /\ lost' = 0 /\ refused' = FALSE

\* esp_wifi_stop, the driver then having mode m.
DriverStop(m) ==
  /\ drv' = [mode |-> m, started |-> FALSE, link |-> "down"]
  /\ evq' = evq \o StopEvents
  /\ clients' = 0

\* esp_wifi_connect; without a started station it fails.
DriverConnect ==
  drv' = [drv EXCEPT !.link =
            IF @ = "down" /\ drv.started /\ HasSta(drv.mode)
            THEN "connecting" ELSE @]

\* esp_wifi_connect fails although the station is started.
ConnectRefused ==
  /\ CallsFail
  /\ drv.link = "down" /\ drv.started /\ HasSta(drv.mode)
  /\ refused' = TRUE
  /\ UNCHANGED drv

Associate ==
  /\ drv.link = "connecting"
  /\ drv' = [drv EXCEPT !.link = "up"]
  /\ evq' = Append(evq, "STA_GOT_IP")
  /\ lost' = 0
  /\ UNCHANGED <<code, clients, refused, overtaken>>

LoseLink ==
  /\ drv.link \in {"connecting", "up"}
  /\ drv' = [drv EXCEPT !.link = "down"]
  /\ evq' = Append(evq, "STA_DISCONNECTED")
  /\ lost' = Lost(lost)
  /\ UNCHANGED <<code, clients, refused, overtaken>>

Join ==
  /\ drv.started /\ HasAp(drv.mode) /\ clients < AP_MAX_CONNECTION
  /\ evq = <<>>
  /\ clients' = clients + 1
  /\ evq' = Append(evq, "AP_STACONNECTED")
  /\ UNCHANGED <<code, drv, history>>

Leave ==
  /\ clients > 0
  /\ evq = <<>>
  /\ clients' = clients - 1
  /\ evq' = Append(evq, "AP_STADISCONNECTED")
  /\ UNCHANGED <<code, drv, history>>

Network == Associate \/ LoseLink \/ Join \/ Leave

(***************************************************************************)
(* wifi_event_handler                                                      *)
(***************************************************************************)
\* STA_START starts the connection if automatic connection is on.
OnStaStart ==
  /\ Head(evq) = "STA_START"
  /\ IF "AUTO_CONN" \in bits
       THEN ctrl' = 0 /\ handler' = "connect"
       ELSE UNCHANGED <<ctrl, handler>>
  /\ UNCHANGED bits

\* Mutant of OnStaDisconnected: gives up one attempt early.
OnStaDisconnectedEarly ==
  /\ Head(evq) = "STA_DISCONNECTED"
  /\ IF "AUTO_CONN" \notin bits THEN UNCHANGED <<bits, handler>>
     ELSE IF ctrl + 1 < WIFI_MAX_RETRY
       THEN handler' = "reconnect" /\ UNCHANGED bits
       ELSE /\ bits' = (bits \ {"STA_CONNECTED"}) \union {"STA_CONN_FAIL"}
            /\ UNCHANGED handler
  /\ UNCHANGED ctrl

\* Mutant of OnStaDisconnected: nothing is tried after a loss.
OnStaDisconnectedRests ==
  /\ Head(evq) = "STA_DISCONNECTED"
  /\ UNCHANGED <<bits, handler, ctrl>>

OnStaDisconnected ==
  /\ Head(evq) = "STA_DISCONNECTED"
  /\ IF "AUTO_CONN" \notin bits THEN UNCHANGED <<bits, handler>>
     ELSE IF ctrl < WIFI_MAX_RETRY
       THEN handler' = "reconnect" /\ UNCHANGED bits
       ELSE /\ bits' = (bits \ {"STA_CONNECTED"}) \union {"STA_CONN_FAIL"}
            /\ UNCHANGED handler
  /\ UNCHANGED ctrl

\* Mutant of OnStaStop: the bits of the station stay.
OnStaStopKeeps ==
  /\ Head(evq) = "STA_STOP"
  /\ UNCHANGED <<bits, ctrl, handler>>

OnStaStop ==
  /\ Head(evq) = "STA_STOP"
  /\ bits' = bits \ {"STA_CONNECTED", "AUTO_CONN"}
  /\ UNCHANGED <<ctrl, handler>>

OnGotIp ==
  /\ Head(evq) = "STA_GOT_IP"
  /\ bits' = bits \union {"STA_CONNECTED"}
  /\ ctrl' = 0
  /\ UNCHANGED handler

OnAp ==
  /\ \/ /\ Head(evq) = "AP_START"
        /\ bits' = bits \union {"AP_START"}
     \/ /\ Head(evq) = "AP_STACONNECTED"
        /\ bits' = bits \union {"CONNECTED"}
     \/ /\ Head(evq) = "AP_STADISCONNECTED"
        /\ bits' = bits \ {"CONNECTED"}
  /\ UNCHANGED <<ctrl, handler>>

HandleEvent ==
  /\ handler = "idle" /\ evq # <<>>
  /\ evq' = Tail(evq)
  /\ OnStaStart \/ OnStaDisconnected \/ OnStaStop \/ OnGotIp \/ OnAp
  /\ UNCHANGED <<init, app, cur_mode, result, drv, clients, history>>

\* The call of esp_wifi_connect: the application may have changed the bits
\* and stopped the driver since the handler decided to make it.  The handler
\* does not look at what the call returns.
HandlerConnect ==
  /\ handler # "idle"
  /\ \/ DriverConnect /\ UNCHANGED refused
     \/ ConnectRefused
  /\ ctrl' = IF handler = "reconnect" THEN ctrl + 1 ELSE ctrl
  /\ handler' = "idle"
  /\ UNCHANGED <<init, bits, app, cur_mode, result, evq, clients, lost,
                 overtaken>>

EventTask == HandleEvent \/ HandlerConnect

(***************************************************************************)
(* wifi_preinit.  The default event loop cannot be created twice: after a  *)
(* failure behind it no later call succeeds.                               *)
(***************************************************************************)
Preinit ==
  /\ app.pc = "idle"
  /\ \/ /\ init = "none"
        /\ init' = "done"
        /\ cur_mode' = "NULL"
     \/ /\ CallsFail /\ init = "none"
        /\ init' = "partial"
        /\ UNCHANGED cur_mode
  /\ UNCHANGED <<bits, ctrl, handler, app, result, drv, evq, clients, history>>

(***************************************************************************)
(* wifi_set_mode and get_best_wifi_ch.  app.mode is the mode to reach.     *)
(***************************************************************************)
\* Moves the application task; nothing else of the module's state changes
\* but what the step itself names.
Goto(pc) == app' = [app EXCEPT !.pc = pc]

\* Nothing keeps two calls apart: events of the last one may be pending.
SetModeCall(m) ==
  /\ app.pc = "idle" /\ init = "done" /\ Len(evq) <= MaxPending
  /\ app' = [pc |-> IF drv.mode # "NULL" THEN "off" ELSE "mode",
             op |-> "set", mode |-> m]
  /\ UNCHANGED <<init, bits, ctrl, handler, cur_mode, result, drv, evq,
                 clients, history>>

\* Not initialised, or a name or password that is too short or too long.
SetModeRefused ==
  /\ app.pc = "idle"
  /\ result' = FALSE
  /\ UNCHANGED <<init, bits, ctrl, handler, app, cur_mode, drv, evq, clients,
                 history>>

ScanCall ==
  /\ app.pc = "idle" /\ init = "done" /\ Len(evq) <= MaxPending
  /\ app' = [pc |-> IF drv.mode # "NULL" THEN "off" ELSE "scan",
             op |-> "scan", mode |-> drv.mode]
  /\ UNCHANGED <<init, bits, ctrl, handler, cur_mode, result, drv, evq,
                 clients, history>>

\* Mutant of SetWifiOffBits: automatic connection stays on.
SetWifiOffKeepsAuto ==
  /\ app.pc = "off"
  /\ bits' = bits \ {"STA_CONNECTED"}
  /\ Goto("stop")
  /\ UNCHANGED <<init, ctrl, handler, cur_mode, result, drv, evq, clients,
                 history>>

\* set_wifi_off: the bits, then the driver.
SetWifiOffBits ==
  /\ app.pc = "off"
  /\ bits' = bits \ {"STA_CONNECTED", "AUTO_CONN"}
  /\ Goto("stop")
  /\ UNCHANGED <<init, ctrl, handler, cur_mode, result, drv, evq, clients,
                 history>>

SetWifiOffStop ==
  /\ app.pc = "stop"
  /\ DriverStop(drv.mode)
  /\ Goto("delay")
  /\ UNCHANGED <<init, bits, ctrl, handler, cur_mode, result, history>>

\* vTaskDelay of 50 or 100 ms.  Meanwhile the system event task, of a far
\* higher priority than the callers, handles what is pending.
Delay ==
  /\ app.pc = "delay"
  /\ evq = <<>> /\ handler = "idle"
  /\ Goto(IF app.op = "scan" THEN "scan" ELSE "mode")
  /\ overtaken' = FALSE
  /\ UNCHANGED <<init, bits, ctrl, handler, cur_mode, result, drv, evq,
                 clients, lost, refused>>

\* The station is started for the scan without automatic connection.
Scan ==
  /\ app.pc = "scan"
  /\ DriverStart("STA")
  /\ Goto("scanning")
  /\ UNCHANGED <<init, bits, ctrl, handler, cur_mode, result, clients,
                 overtaken>>

\* Mutant of ScanDone: the previous mode is not restored.
ScanDoneStays ==
  /\ app.pc = "scanning"
  /\ DriverStop("NULL")
  /\ Goto("idle")
  /\ UNCHANGED <<init, bits, ctrl, handler, cur_mode, result, history>>

ScanDone ==
  /\ app.pc = "scanning"
  /\ DriverStop("NULL")
  /\ app' = IF app.mode = "NULL" THEN [app EXCEPT !.pc = "idle"]
            ELSE [app EXCEPT !.pc = "delay", !.op = "restore"]
  /\ UNCHANGED <<init, bits, ctrl, handler, cur_mode, result, history>>

\* esp_wifi_set_mode; after a scan its failure aborts (see Reboot).
SetMode ==
  /\ app.pc = "mode"
  /\ drv' = [drv EXCEPT !.mode = get_wifi_mode(app.mode)]
  /\ Goto(IF app.op = "restore" THEN "on"
          ELSE IF get_wifi_mode(app.mode) = "NULL" THEN "finish" ELSE "config")
  /\ UNCHANGED <<init, bits, ctrl, handler, cur_mode, result, evq, clients,
                 history>>

SetConfig ==
  /\ app.pc = "config"
  /\ Goto("on")
  /\ UNCHANGED <<init, bits, ctrl, handler, cur_mode, result, drv, evq,
                 clients, history>>

\* A failure of esp_wifi_set_mode or esp_wifi_set_config: the call returns
\* false with Wi-Fi off and cur_mode as it was.
SetModeFails ==
  /\ CallsFail
  /\ app.pc \in {"mode", "config"} /\ app.op = "set"
  /\ result' = FALSE
  /\ Goto("idle")
  /\ UNCHANGED <<init, bits, ctrl, handler, cur_mode, drv, evq, clients,
                 history>>

\* set_wifi_on: the bit, then the driver, whose failure is not noticed.  A
\* scan made in mode NULL is followed by no delay: its STA_STOP may be pending
\* and clears the bit again.
SetWifiOnBits ==
  /\ app.pc = "on"
  /\ bits' = bits \union {"AUTO_CONN"}
  /\ Goto("start")
  /\ overtaken' = (evq # <<>>)
  /\ UNCHANGED <<init, ctrl, handler, cur_mode, result, drv, evq, clients,
                 lost, refused>>

SetWifiOnStart ==
  /\ app.pc = "start"
  /\ DriverStart(drv.mode)
  /\ Goto("finish")
  /\ UNCHANGED <<init, bits, ctrl, handler, cur_mode, result, clients,
                 overtaken>>

SetWifiOnFails ==
  /\ CallsFail
  /\ app.pc = "start"
  /\ Goto("finish")
  /\ UNCHANGED <<init, bits, ctrl, handler, cur_mode, result, drv, evq,
                 clients, history>>

Finish ==
  /\ app.pc = "finish"
  /\ Goto("idle")
  /\ IF app.op = "set" THEN cur_mode' = app.mode /\ result' = TRUE
     ELSE UNCHANGED <<cur_mode, result>>
  /\ UNCHANGED <<init, bits, ctrl, handler, drv, evq, clients, history>>

\* ESP_ERROR_CHECK in get_best_wifi_ch aborts, and the device restarts.
Reboot ==
  /\ CallsFail
  /\ \/ app.pc \in {"scan", "scanning"}
     \/ app.pc = "mode" /\ app.op = "restore"
  /\ init' = "none" /\ bits' = {} /\ ctrl' = 0 /\ handler' = "idle"
  /\ app' = IdleApp /\ cur_mode' = "NOT_INIT" /\ result' = FALSE
  /\ drv' = [mode |-> "NULL", started |-> FALSE, link |-> "down"]
  /\ evq' = <<>> /\ clients' = 0
  /\ lost' = 0 /\ refused' = FALSE /\ overtaken' = FALSE

Working ==
  \/ SetWifiOffBits \/ SetWifiOffStop \/ Delay \/ Scan \/ ScanDone
  \/ SetMode \/ SetConfig \/ SetModeFails
  \/ SetWifiOnBits \/ SetWifiOnStart \/ SetWifiOnFails \/ Finish

Next ==
  \/ Preinit \/ SetModeRefused \/ ScanCall \/ Reboot
  \/ \E m \in DevModes : SetModeCall(m)
  \/ Working
  \/ EventTask
  \/ Network

Spec == Init /\ [][Next]_vars

\* Both tasks run, and every attempt to connect has an outcome.
FairSpec ==
  /\ Spec
  /\ WF_vars(Working) /\ WF_vars(EventTask)
  /\ WF_vars(drv.link = "connecting" /\ (Associate \/ LoseLink))

(***************************************************************************)
(* Properties.                                                             *)
(***************************************************************************)
Quiet == app.pc = "idle" /\ handler = "idle" /\ evq = <<>>

\* Every variable keeps its type; the counter of the handler stays within the
\* retries and the number of clients within what the access point admits.
TypeOK ==
  /\ init \in {"none", "partial", "done"}
  /\ bits \subseteq WifiBits
  /\ ctrl \in 0 .. WIFI_MAX_RETRY
  /\ handler \in {"idle", "connect", "reconnect"}
  /\ app \in [pc : {"idle", "off", "stop", "delay", "scan", "scanning", "mode",
                    "config", "on", "start", "finish"},
              op : {"set", "scan", "restore"}, mode : DevModes]
  /\ cur_mode \in DevModes
  /\ result \in BOOLEAN
  /\ drv \in [mode : Modes, started : BOOLEAN,
              link : {"down", "connecting", "up"}]
  /\ evq \in Seq(Events)
  /\ clients \in 0 .. AP_MAX_CONNECTION
  /\ lost \in 0 .. WIFI_MAX_RETRY + 1
  /\ refused \in BOOLEAN /\ overtaken \in BOOLEAN

\* What test_set_mode and test_best_channel_and_mode assert: after a call of
\* wifi_set_mode that returned true, and after any number of scans since, the
\* driver is in the mode that was asked for.
ModeAsRequested ==
  app.pc = "idle" /\ result => drv.mode = get_wifi_mode(cur_mode)

\* No connection is attempted while get_best_wifi_ch scans.
ScanUndisturbed == app.pc = "scanning" => drv.link = "down"

\* When nothing is pending the bits tell the truth: the station has an
\* address, or is at least trying to get it back, exactly when the bit says
\* so; and no client is announced when there is none.  Once a call is over,
\* a station that was started reconnects by itself: automatic connection is
\* on, although the events of the stop before clear that bit from another
\* task.  Two things may break it: a call of esp_wifi_connect that fails, for
\* nobody looks at it, leaves the bit of the station on; and set_wifi_on
\* before the events of a scan in mode NULL leaves automatic connection off.
\* Even then a station that has an address is announced.
BitsTruthful ==
  /\ Quiet => /\ drv.link = "up" => "STA_CONNECTED" \in bits
              /\ "STA_CONNECTED" \in bits =>
                   drv.link # "down" \/ refused \/ overtaken
              /\ "CONNECTED" \in bits => clients > 0
  /\ app.pc = "idle" /\ drv.started /\ HasSta(drv.mode) =>
       "AUTO_CONN" \in bits \/ overtaken

\* The handler gives up only after WIFI_MAX_RETRY + 1 failures in a row.
GivesUpLate ==
  [][("STA_CONN_FAIL" \notin bits /\ "STA_CONN_FAIL" \in bits') =>
       lost = WIFI_MAX_RETRY + 1]_vars

\* Once the application is quiet, a station that is down does not stay down
\* in silence: it tries again, or this outage was reported after all retries
\* failed (the bit alone says little, for nothing ever clears it).  Left out
\* are the two ways in which the code does leave it silently down: a call of
\* esp_wifi_connect that failed, and automatic connection cleared by the
\* events of an earlier scan.
NeverSilentlyDown ==
  <>[](app.pc = "idle" /\ drv.started /\ HasSta(drv.mode)) =>
    []<>(\/ drv.link # "down"
         \/ "STA_CONN_FAIL" \in bits /\ lost = WIFI_MAX_RETRY + 1
         \/ refused \/ overtaken)
=============================================================================
