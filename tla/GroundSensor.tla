--------------------------- MODULE GroundSensor ---------------------------
(***************************************************************************)
(* The ground sensor: a battery powered ESP8266 that wakes up, reads its   *)
(* thermometers, joins the wireless network, pushes one report over TCP    *)
(* and sleeps again (entry.c, sentrifarm.c, tcp_push.c).                   *)
(*                                                                         *)
(* The program is a chain of timer callbacks, one per state, and four      *)
(* callbacks of the TCP library that may come between any two of them.     *)
(* Callbacks do not interrupt each other.  Every timer of the chain has    *)
(* its own delay, which only says when it fires: the delay is left out.    *)
(*                                                                         *)
(* The network is external: the station has any status at any time, a      *)
(* connection may proceed, break, be closed by the peer, or stay silent.   *)
(***************************************************************************)
EXTENDS OneWire

CONSTANTS
    MAX_WIFIUP_RETRY_ATTEMPTS,
    MAX_TELEMETRY_RETRY_ATTEMPTS,
    MAX_TELEMETRY,             \* slots for reports, of which the first is used
    TRAIT_EXPECTED_THERMALS1,  \* thermometers there is room for
    Raws                       \* measurements

ASSUME GroundAssumption ==
    /\ {MAX_WIFIUP_RETRY_ATTEMPTS, MAX_TELEMETRY_RETRY_ATTEMPTS} \subseteq Nat
    /\ {MAX_TELEMETRY, TRAIT_EXPECTED_THERMALS1} \subseteq Nat \ {0}
    /\ Raws \subseteq 0..(Word - 1)

VARIABLES
    state,      \* my_state.state; "asleep" in deep sleep or reset, "scan" before
    timer,      \* is sentri_state_timer armed?
    my,         \* the other fields of my_state
    telemetry,  \* per slot, telemetry_handle and telemetry_done
    push,       \* the struct pokerface of the report, and its connection
    locked,     \* is the console locked?
    diag2,      \* was the diagnostic button held at boot?
    wire,       \* the thermometers on the wire
    loose,      \* history: did some of them come loose during the search?
    outcome     \* history: what became of the report

vars == <<state, timer, my, telemetry, push, locked, diag2, wire, loose, outcome>>

States ==
    {"asleep", "scan", "SETTLE", "SENSORS", "WIFI_PENDING", "TELEMETRY",
     "TELEMETRY_PENDING", "TELEMETRY_FAULT", "DONE", "REBOOT_REQUIRED", "ERROR"}

Errors == {"THERMAL1_NONE_FOUND", "THERMAL1_SOME_MISSING", "WIFI_CONNECT",
           "WIFI_AP_NOT_FOUND"}

\* What a register of the thermometer chain ends up as: its address, the
\* measurement, and the temperature made of it.
Thermal == [rom : Rom, raw : Raws,
            t : [tSign : {"+", "-"}, tVal : 0..Word - 1, tFract : 0..99]]

Slots == 0..MAX_TELEMETRY - 1
NULL == "null"
ThePush == "p"

NoTelemetry == [i \in Slots |-> [handle |-> NULL, done |-> FALSE]]

\* p is allocated and freed; its connection proceeds from connecting to
\* closed; conn_checker is the timer that frees it, with or without a function.
NoPush == [heap |-> "none", conn |-> "none", checker |-> FALSE, fn |-> FALSE]

my_state == [error_flags |-> {}, thermals1 |-> << >>, wifi_pending |-> FALSE,
             wifi_retried |-> 0, telemetry_retried |-> 0]

\* Deep sleep and restart both end in a reset, which loses the memory.
Reset ==
    /\ state' = "asleep"
    /\ timer' = FALSE
    /\ my' = my_state
    /\ telemetry' = NoTelemetry
    /\ push' = NoPush
    /\ locked' = FALSE
    /\ diag2' = FALSE
    /\ loose' = FALSE
    /\ outcome' = "none"
    /\ UNCHANGED wire

\* Family code 0 is taken for a broken wire, and no device has it.
Devices == {r \in Rom : family(r) # 0}

Init ==
    /\ state = "asleep"
    /\ timer = FALSE
    /\ my = my_state
    /\ telemetry = NoTelemetry
    /\ push = NoPush
    /\ locked = FALSE
    /\ diag2 = FALSE
    /\ wire \in SUBSET Devices
    /\ loose = FALSE
    /\ outcome = "none"

-----------------------------------------------------------------------------
(* Boot: user_init, main_init_done and the scan *)

\* sentrifarm_init, which runs the handler of STATE_BOOT at once.
sentrifarm_init ==
    /\ state' = "SETTLE"
    /\ timer' = TRUE
    /\ my' = my_state
    /\ diag2' \in BOOLEAN
    /\ locked' = FALSE
    /\ UNCHANGED <<telemetry, push, wire, loose, outcome>>

\* In access point mode, or when no scan can be started.
WakeWithoutScan ==
    /\ state = "asleep"
    /\ sentrifarm_init

WakeAndScan ==
    /\ state = "asleep"
    /\ state' = "scan"
    /\ locked' = TRUE
    /\ UNCHANGED <<timer, my, telemetry, push, diag2, wire, loose, outcome>>

scan_done_cb ==
    /\ state = "scan"
    /\ sentrifarm_init \/ Reset

-----------------------------------------------------------------------------
(* The chain of timers: sentri_state_handler, one action per state *)

Fires(s) == timer /\ state = s

\* The end of sentri_state_handler: the next state, and the timer for it.
Proceed(s) == state' = s /\ timer' = TRUE

\* The handler leaves without a timer: the console is all that remains.
Leave(s) == state' = s /\ timer' = FALSE

Settle ==
    /\ Fires("SETTLE")
    /\ Proceed("SENSORS")
    /\ UNCHANGED <<my, telemetry, push, locked, diag2, wire, loose, outcome>>

\* What exec_ds18b20 finds, for every set of devices and of those that later
\* searches still see.
Search ==
    [w \in SUBSET Devices |-> [later \in SUBSET w |->
        exec_ds18b20(w, later, TRAIT_EXPECTED_THERMALS1)]]

\* The loop of exec_ds18b20, which has no bound of its own, comes to an end.
SearchEnds ==
    \A w \in SUBSET Devices : \A later \in SUBSET w : ~Search[w][later].more

Missing(n) ==
    IF n = 0 THEN {"THERMAL1_NONE_FOUND"}
    ELSE IF n < TRAIT_EXPECTED_THERMALS1 THEN {"THERMAL1_SOME_MISSING"}
    ELSE {}

\* sentri_read_sensors and sentri_connect_wifi.
Sensors ==
    /\ Fires("SENSORS")
    /\ \E later \in SUBSET wire :
          LET loop == Search[wire][later]
              n == Len(loop.results)
          IN  /\ \E raw \in Raws :
                    my' = [my EXCEPT
                      !.thermals1 = [i \in 1..n |->
                          [rom |-> loop.results[i], raw |-> raw,
                           t |-> Temperature(family(loop.results[i]), raw)]],
                      !.error_flags = @ \cup Missing(n),
                      !.wifi_pending = TRUE, !.wifi_retried = 0]
              /\ loose' = (later # wire)
    /\ Proceed("WIFI_PENDING")
    /\ UNCHANGED <<telemetry, push, locked, diag2, wire, outcome>>

Status == {"IDLE", "CONNECTING", "WRONG_PASSWORD", "NO_AP_FOUND",
           "CONNECT_FAIL", "GOT_IP"}

\* sentri_check_wifi: my_state after the station was asked for its status.
sentri_check_wifi(status) ==
    [my EXCEPT
        !.wifi_pending =
            @ /\ status \notin {"CONNECT_FAIL", "NO_AP_FOUND", "GOT_IP"},
        !.error_flags = @ \cup
            (IF status = "CONNECT_FAIL" THEN {"WIFI_CONNECT"} ELSE {}) \cup
            (IF status = "NO_AP_FOUND" THEN {"WIFI_AP_NOT_FOUND"} ELSE {})]

WifiWaits ==
    /\ Fires("WIFI_PENDING")
    /\ \E status \in Status :
          /\ sentri_check_wifi(status).wifi_pending
          /\ my' = [sentri_check_wifi(status) EXCEPT !.wifi_retried = @ + 1]
    /\ IF my.wifi_retried > MAX_WIFIUP_RETRY_ATTEMPTS
       THEN Leave("ERROR") /\ locked' = FALSE
       ELSE Proceed("WIFI_PENDING") /\ UNCHANGED locked
    /\ UNCHANGED <<telemetry, push, diag2, wire, loose, outcome>>

\* Only a missing access point is looked at: after any other failure the
\* report is tried all the same.
WifiFinished ==
    /\ Fires("WIFI_PENDING")
    /\ \E status \in Status :
          /\ ~sentri_check_wifi(status).wifi_pending
          /\ my' = sentri_check_wifi(status)
    /\ IF "WIFI_AP_NOT_FOUND" \in my'.error_flags
       THEN Proceed("REBOOT_REQUIRED") /\ locked' = FALSE
       ELSE Proceed("TELEMETRY") /\ UNCHANGED locked
    /\ UNCHANGED <<telemetry, push, diag2, wire, loose, outcome>>

-----------------------------------------------------------------------------
(* The report: sentri_do_telemetry and tcp_push.c *)

\* Mutant: the slot of the report is not opened.
Prepared_Closed == [i \in Slots |-> [handle |-> NULL, done |-> TRUE]]

\* The slots before the push: one report is under way.
Prepared == [i \in Slots |-> [handle |-> NULL, done |-> i # 0]]

\* execute_tcp_push_u refuses (address, port, memory), and nobody looks at
\* what it returns.
TelemetryRefused ==
    /\ Fires("TELEMETRY")
    /\ telemetry' = Prepared
    /\ my' = [my EXCEPT !.telemetry_retried = 0]
    /\ Proceed("TELEMETRY_PENDING")
    /\ UNCHANGED <<push, locked, diag2, wire, loose, outcome>>

\* Without a network the connection fails at once and stays silent.
Telemetry ==
    /\ Fires("TELEMETRY")
    /\ telemetry' = [Prepared EXCEPT ![0].handle = ThePush]
    /\ my' = [my EXCEPT !.telemetry_retried = 0]
    /\ \E conn \in {"connecting", "unroutable"} :
          push' = [NoPush EXCEPT !.heap = "live", !.conn = conn]
    /\ locked' = TRUE
    /\ Proceed("TELEMETRY_PENDING")
    /\ UNCHANGED <<diag2, wire, loose, outcome>>

\* sentri_tcp_finish_handler and sentri_tcp_fault_handler, called with handle.
Finished(handle) ==
    [i \in Slots |->
        [telemetry[i] EXCEPT !.done = @ \/ telemetry[i].handle = handle]]

\* The states in which disconnected may be called: espconn_disconnect was
\* called, or the peer closes.
Closing == {"sending", "closing"}

connected ==
    /\ push.conn = "connecting"
    /\ push' = [push EXCEPT !.conn = "sending"]
    /\ UNCHANGED <<state, timer, my, telemetry, locked, diag2, wire, loose, outcome>>

\* Mutant: the memory is due to be freed before the connection is closed.
datasent_Arms ==
    /\ push.conn = "sending"
    /\ push' = [push EXCEPT !.conn = "closing", !.fn = TRUE, !.checker = TRUE]
    /\ outcome' = "sent"
    /\ UNCHANGED <<state, timer, my, telemetry, locked, diag2, wire, loose>>

datasent ==
    /\ push.conn = "sending"
    /\ push' = [push EXCEPT !.conn = "closing", !.fn = TRUE, !.checker = FALSE]
    /\ outcome' = "sent"
    /\ UNCHANGED <<state, timer, my, telemetry, locked, diag2, wire, loose>>

disconnected ==
    /\ push.conn \in Closing
    /\ push' = [push EXCEPT !.conn = "closed", !.checker = TRUE]
    /\ telemetry' = Finished(ThePush)
    /\ locked' = FALSE
    /\ outcome' = IF outcome = "none" THEN "closed" ELSE outcome
    /\ UNCHANGED <<state, timer, my, diag2, wire, loose>>

\* The connection is broken; disconnecting it once more has no effect.
reconnect ==
    /\ push.conn \in {"connecting"} \cup Closing
    /\ push' = [push EXCEPT !.conn = "closed", !.fn = TRUE, !.checker = TRUE]
    /\ telemetry' = Finished(ThePush)
    /\ locked' = FALSE
    /\ outcome' = IF outcome = "none" THEN "fault" ELSE outcome
    /\ UNCHANGED <<state, timer, my, diag2, wire, loose>>

\* The timer of p fires.  Where the peer closed before the data was
\* acknowledged, no function was set: the processor jumps to address 0 and
\* is reset.
conn_checker_handler ==
    /\ push.checker
    /\ push.fn
    /\ push' = [push EXCEPT !.heap = "freed", !.checker = FALSE]
    /\ UNCHANGED <<state, timer, my, telemetry, locked, diag2, wire, loose, outcome>>

CheckerCrashes ==
    /\ push.checker
    /\ ~push.fn
    /\ Reset

-----------------------------------------------------------------------------
(* The rest of the chain *)

sentri_check_telemetry == \A i \in Slots : telemetry[i].done

\* Mutant: the reports are polled for ever.
TelemetryWaits_Endless ==
    /\ Fires("TELEMETRY_PENDING")
    /\ ~sentri_check_telemetry
    /\ Proceed("TELEMETRY_PENDING")
    /\ UNCHANGED <<my, telemetry, push, locked, diag2, wire, loose, outcome>>

TelemetryWaits ==
    /\ Fires("TELEMETRY_PENDING")
    /\ ~sentri_check_telemetry
    /\ my' = [my EXCEPT !.telemetry_retried = @ + 1]
    /\ Proceed(IF my.telemetry_retried > MAX_TELEMETRY_RETRY_ATTEMPTS
               THEN "TELEMETRY_FAULT" ELSE "TELEMETRY_PENDING")
    /\ UNCHANGED <<telemetry, push, locked, diag2, wire, loose, outcome>>

TelemetryFinished ==
    /\ Fires("TELEMETRY_PENDING")
    /\ sentri_check_telemetry
    /\ Proceed("DONE")
    /\ UNCHANGED <<my, telemetry, push, locked, diag2, wire, loose, outcome>>

TelemetryFault ==
    /\ Fires("TELEMETRY_FAULT")
    /\ Proceed("REBOOT_REQUIRED")
    /\ UNCHANGED <<my, telemetry, push, locked, diag2, wire, loose, outcome>>

Done ==
    /\ Fires("DONE")
    /\ IF diag2
       THEN /\ Leave("DONE")
            /\ UNCHANGED <<my, telemetry, push, locked, diag2, wire, loose, outcome>>
       ELSE Reset

\* Mutant: a restart that is asked for is left to the console.
RebootRequired_Leaves ==
    /\ Fires("REBOOT_REQUIRED")
    /\ Leave("ERROR")
    /\ UNCHANGED <<my, telemetry, push, locked, diag2, wire, loose, outcome>>

RebootRequired ==
    /\ Fires("REBOOT_REQUIRED")
    /\ IF diag2
       THEN /\ Leave("ERROR")
            /\ UNCHANGED <<my, telemetry, push, locked, diag2, wire, loose, outcome>>
       ELSE Reset

Chain ==
    \/ Settle \/ WifiWaits \/ WifiFinished
    \/ TelemetryRefused \/ Telemetry \/ TelemetryWaits \/ TelemetryFinished
    \/ TelemetryFault \/ Done \/ RebootRequired

sentri_state_timer_cb == Sensors \/ Chain

Wake == WakeWithoutScan \/ WakeAndScan

conn_checker == conn_checker_handler \/ CheckerCrashes

Next ==
    \/ Wake \/ scan_done_cb \/ sentri_state_timer_cb
    \/ connected \/ datasent \/ disconnected \/ reconnect \/ conn_checker

Spec == Init /\ [][Next]_vars

\* Timers fire, a sleeping chip wakes up and a scan comes to an end.  Nothing
\* is assumed of the network.  (For Sensors, which SearchEnds shows to be
\* enabled whenever its timer is armed, it is enough to say that it ends.)
Fairness ==
    /\ WF_vars(Wake)
    /\ WF_vars(scan_done_cb)
    /\ WF_vars(Chain)
    /\ WF_state(Fires("SENSORS") /\ Proceed("WIFI_PENDING"))
    /\ WF_vars(conn_checker)

FairSpec == Spec /\ Fairness

-----------------------------------------------------------------------------
(* Properties *)

TypeOK ==
    /\ state \in States
    /\ timer \in BOOLEAN
    /\ my.error_flags \subseteq Errors
    /\ my.thermals1 \in Seq(Thermal)
    /\ Len(my.thermals1) <= TRAIT_EXPECTED_THERMALS1
    /\ my.wifi_pending \in BOOLEAN
    /\ my.wifi_retried \in 0..MAX_WIFIUP_RETRY_ATTEMPTS + 2
    /\ my.telemetry_retried \in 0..MAX_TELEMETRY_RETRY_ATTEMPTS + 2
    /\ telemetry \in [Slots -> [handle : {NULL, ThePush}, done : BOOLEAN]]
    /\ push \in [heap : {"none", "live", "freed"},
                 conn : {"none", "unroutable", "connecting", "sending",
                         "closing", "closed"},
                 checker : BOOLEAN, fn : BOOLEAN]
    /\ locked \in BOOLEAN
    /\ diag2 \in BOOLEAN
    /\ wire \in SUBSET Devices
    /\ loose \in BOOLEAN
    /\ outcome \in {"none", "sent", "closed", "fault"}

\* The chain of timers has ended and nothing will start it again.
Left == state \notin {"asleep", "scan"} /\ ~timer

\* The sensor is left to its console only where the button was held at boot,
\* or after the network was waited for as long as it may be.
LeftOnPurpose ==
    Left => \/ diag2
            \/ state = "ERROR" /\ my.wifi_retried > MAX_WIFIUP_RETRY_ATTEMPTS

\* A sensor that is left to its console has it unlocked, unless its report is
\* still under way and no callback of its connection came.
ConsoleIsOpen ==
    Left /\ locked =>
        push.conn \in {"unroutable", "connecting", "sending", "closing"}

\* Where a boot ends without a restart it does so on purpose, and with a
\* console that can be used.
LeftInOrder == LeftOnPurpose /\ ConsoleIsOpen

\* Whatever the network does, the sensor sleeps or restarts again and again,
\* or is left to its console.
SleepsAgain == []<>(state = "asleep") \/ <>[]Left

\* Every callback of a connection finds its memory: it is freed by a timer
\* that is started only when the last callback has come.
NoCallbackOnFreed ==
    push.conn \in {"connecting", "sending", "closing"} => push.heap = "live"

\* The sensor goes for its nap only after its report was sent, or failed with
\* a callback that said so: no slot is done before its callback.
NapMeansOutcome == state = "DONE" => outcome # "none"

\* The devices of roms that are thermometers.
Thermometers(roms) == {d \in roms : family(d) \in {DS18S20, DS18B20}}

\* The order in which a search meets the devices: by their bits, the first bit
\* counting most.
Before(a, b) ==
    \E j \in 1..RomBits : a[j] < b[j] /\ \A i \in 1..(j - 1) : a[i] = b[i]

\* found are the first thermometers of roms, as many as there is room for.
AllInOrder(found, roms) ==
    /\ \A i, j \in DOMAIN found : i < j => Before(found[i], found[j])
    /\ \A d \in Thermometers(roms) :
          \/ \E i \in DOMAIN found : found[i] = d
          \/ /\ Len(found) = TRAIT_EXPECTED_THERMALS1
             /\ \A i \in DOMAIN found : Before(found[i], d)

\* The search reports thermometers that are there, and no more than there is
\* room for.  If the wire does not change meanwhile it reports each one once,
\* and all there is room for, also when devices of other families are among
\* them.
SensorsFound ==
    state = "WIFI_PENDING" =>
        LET found == [i \in DOMAIN my.thermals1 |-> my.thermals1[i].rom]
        IN  /\ Len(found) <= TRAIT_EXPECTED_THERMALS1
            /\ \A i \in DOMAIN found : found[i] \in Thermometers(wire)
            /\ ~loose => AllInOrder(found, wire)

\* A temperature is the measurement, in 1/2 or 1/16 degrees, rounded towards
\* zero to hundredths of a degree: tVal is in degrees and tFract in hundredths
\* of one, which is how both are printed ("%d.%02d").  The comment at
\* ds18b20.c:120, "tVal and tFract are in 1/10 degrees C", is not so.
ReadingExact ==
    \A i \in DOMAIN my.thermals1 :
        LET m == my.thermals1[i]
            unit == IF family(m.rom) = DS18S20 THEN 2 ELSE 16
            magnitude == IF m.raw < Word \div 2 THEN m.raw ELSE Word - m.raw
            hundredths == m.t.tVal * 100 + m.t.tFract
        IN  /\ (m.t.tSign = "-") <=> (m.raw >= Word \div 2)
            /\ hundredths * unit <= magnitude * 100
            /\ magnitude * 100 < (hundredths + 1) * unit

\* What is reported of the thermometers: the right ones, read right.
SensorsRight == SensorsFound /\ ReadingExact

-----------------------------------------------------------------------------
(* The inductive strengthening that the proofs use *)

\* The types of what the timers and callbacks decide by.
ControlOK ==
    /\ state \in States
    /\ timer \in BOOLEAN /\ locked \in BOOLEAN /\ diag2 \in BOOLEAN
    /\ DOMAIN my = DOMAIN my_state
    /\ my.wifi_retried \in Nat
    /\ push \in [heap : {"none", "live", "freed"},
                 conn : {"none", "unroutable", "connecting", "sending",
                         "closing", "closed"},
                 checker : BOOLEAN, fn : BOOLEAN]
    /\ telemetry \in [Slots -> [handle : {NULL, ThePush}, done : BOOLEAN]]

\* The timer that frees the memory runs only behind a closed connection.
CheckerIsLast == push.checker => push.conn = "closed"

\* The slot of the report is closed by a callback, which notes the outcome.
SlotMeansOutcome ==
    state = "TELEMETRY_PENDING" /\ telemetry[0].done => outcome # "none"

\* After the scan only the report locks the console.
LockHolder ==
    locked => \/ state = "scan"
              \/ push.conn \in {"unroutable", "connecting", "sending", "closing"}

\* The types of the rest, and how often was polled while a timer is to come.
DataOK ==
    /\ my.error_flags \subseteq Errors
    /\ my.thermals1 \in Seq(Thermal)
    /\ Len(my.thermals1) <= TRAIT_EXPECTED_THERMALS1
    /\ my.wifi_pending \in BOOLEAN
    /\ my.wifi_retried \in 0..MAX_WIFIUP_RETRY_ATTEMPTS + 2
    /\ my.telemetry_retried \in 0..MAX_TELEMETRY_RETRY_ATTEMPTS + 2
    /\ state = "WIFI_PENDING" /\ timer =>
          my.wifi_retried <= MAX_WIFIUP_RETRY_ATTEMPTS + 1
    /\ state = "TELEMETRY_PENDING" =>
          my.telemetry_retried <= MAX_TELEMETRY_RETRY_ATTEMPTS + 1
    /\ wire \in SUBSET Devices
    /\ loose \in BOOLEAN
    /\ outcome \in {"none", "sent", "closed", "fault"}

IndInv ==
    /\ ControlOK
    /\ CheckerIsLast
    /\ NoCallbackOnFreed
    /\ SlotMeansOutcome
    /\ NapMeansOutcome
    /\ LockHolder
    /\ LeftOnPurpose
    /\ ReadingExact
=============================================================================
