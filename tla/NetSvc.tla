------------------------------- MODULE NetSvc -------------------------------
(***************************************************************************)
(* The WiFi service of the NCAPPS system (net/netsvc.c): the net task that *)
(* brings the chip up, joins the network chosen in WIFI.TXT and notices a  *)
(* lost link; the settings page that scans and reconfigures it from the ui *)
(* task (launcher/wifiui.c); lwIP frames that leave through wifi_output.   *)
(*                                                                         *)
(* One core: tcpip 3, net 2 (1 while it starts the chip or joins), ui 1.   *)
(* The ui task therefore runs only while the net task is delayed, waits    *)
(* for a lock, or has lowered itself to the ui's own priority.             *)
(*                                                                         *)
(* wlan.h appears as the outcome of a join, a scan or a pump.  A network   *)
(* is named by its SSID, and its right passphrase by the same name.        *)
(***************************************************************************)
EXTENDS Integers, Sequences

CONSTANTS
  QLen,        \* length of net_q (8 in netsvc.c)
  Nets,        \* network names
  None,        \* no network chosen, no passphrase
  Wrong,       \* a passphrase no network accepts
  MaxOps,      \* bound on what the user does on the WiFi page
  MaxTrouble   \* bound on access points leaving or returning, deauthentications
               \* and leases that run out

ASSUME NetAssumption ==
  /\ QLen \in Nat \ {0}
  /\ MaxOps \in Nat
  /\ MaxTrouble \in Nat
  /\ None \notin Nets
  /\ Wrong \notin Nets

VARIABLES
  ns,          \* the state apps see (SDK_NET_*)
  link_on,
  lease,       \* lwIP's DHCP client has an address
  cfg_ssid, cfg_psk, cfg_on,
  net_q, ncmd, npc,
  retry_ms,
  due,         \* get_timer has reached retry_at
  jssid, jpsk, \* wlan.h's own copies, taken by wlan_connect
  chip,        \* "idle", "scan", "join", "joined" or "off"
  core,        \* holder of lwIP's core lock
  wlan_lock,
  opc, onet,   \* the frame in wifi_output, and the network it was meant for
  upc, req,    \* the ui task and what it is about to configure
  shown,       \* naps > 0: the page has entries of scan_list to show
  overlap,     \* history: an earlier scan was still to come or under way when
               \* the page last asked for one
  scan_done, stop_done,
  air,         \* networks within reach
  ops, trouble

cfgVars  == <<cfg_ssid, cfg_psk, cfg_on>>
staVars  == <<jssid, jpsk, chip>>
retryVars == <<retry_ms, due>>
linkVars == <<ns, link_on, lease>>
outVars  == <<core, opc, onet>>
listVars == <<shown, overlap>>
uiVars   == <<upc, req, ops, listVars>>
envVars  == <<air, trouble>>
vars == <<linkVars, cfgVars, net_q, ncmd, npc, retryVars, staVars, wlan_lock,
          outVars, uiVars, scan_done, stop_done, envVars>>

Commands == {"RECONNECT", "SCAN", "OFF", "STOP"}
Joined   == {"DHCP", "UP"}

\* The waits of the doubling retry_ms, from 10 s up to 2 min.
RetryWaits == {0, 10000, 20000, 40000, 80000, 120000}

\* vTaskEndScheduler: no task runs any more.
Ended == upc = "end"

\* The net task at priority 1, where the ui task gets its time slices.
Busy == {"boot", "connlock", "conn1", "conn2", "conn3"}

NetWaits ==
  \/ npc \in Busy \cup {"idle", "scanning", "suspended"}
  \/ npc \in {"pump", "scanlock", "stoplock"} /\ wlan_lock # "none"
  \/ npc \in {"cmd", "lost"} /\ link_on /\ core # "none"
  \/ npc = "up" /\ core # "none"

UiRuns  == NetWaits /\ opc # "tcpip" /\ ~Ended
NetRuns == ~Ended

----------------------------------------------------------------------------
(* The link and the core lock.                                             *)

\* Mutant: link_on is cleared without the core lock.
LinkDownUnlocked ==
  /\ link_on' = FALSE
  /\ lease' = (lease /\ ~link_on)

\* link_down waits for the core lock, so for any frame in wifi_output; the
\* DHCP release it asks for is refused by wifi_output because link_on is
\* already clear.
LinkDown ==
  /\ link_on => core = "none"
  /\ link_on' = FALSE
  /\ lease' = (lease /\ ~link_on)

LinkUp ==
  /\ NetRuns /\ npc = "up"
  /\ core = "none"
  /\ link_on' = TRUE
  /\ npc' = "drain"
  /\ UNCHANGED <<ns, lease, cfgVars, net_q, ncmd, retryVars, staVars, wlan_lock,
                 outVars, uiVars, scan_done, stop_done, envVars>>

----------------------------------------------------------------------------
(* The net task.                                                           *)

\* wlan_up: the chip starts, or the service stays off for good.
Boot ==
  /\ NetRuns /\ npc = "boot"
  /\ \/ /\ ns' = "NO_CONFIG"
        /\ due' = TRUE
        /\ npc' = "drain"
     \/ /\ ns' = "OFF"
        /\ npc' = "suspended"
        /\ UNCHANGED due
  /\ UNCHANGED <<link_on, lease, cfgVars, net_q, ncmd, retry_ms, staVars, wlan_lock,
                 outVars, uiVars, scan_done, stop_done, envVars>>

Receive ==
  /\ NetRuns /\ npc = "drain"
  /\ net_q # <<>>
  /\ ncmd' = Head(net_q)
  /\ net_q' = Tail(net_q)
  /\ npc' = "cmd"
  /\ UNCHANGED <<linkVars, cfgVars, retryVars, staVars, wlan_lock,
                 outVars, uiVars, scan_done, stop_done, envVars>>

\* Mutant: a link that is up is left alone.
CmdReconnectLazy ==
  /\ NetRuns /\ npc = "cmd" /\ ncmd = "RECONNECT"
  /\ npc' = "drain"
  /\ IF link_on
     THEN UNCHANGED <<linkVars, retryVars>>
     ELSE ns' = "NO_CONFIG" /\ retry_ms' = 0 /\ due' = TRUE /\ UNCHANGED <<link_on, lease>>
  /\ UNCHANGED <<cfgVars, net_q, ncmd, staVars, wlan_lock,
                 outVars, uiVars, scan_done, stop_done, envVars>>

CmdReconnect ==
  /\ NetRuns /\ npc = "cmd" /\ ncmd = "RECONNECT"
  /\ LinkDown
  /\ ns' = "NO_CONFIG"
  /\ retry_ms' = 0
  /\ due' = TRUE
  /\ npc' = "drain"
  /\ UNCHANGED <<cfgVars, net_q, ncmd, staVars, wlan_lock,
                 outVars, uiVars, scan_done, stop_done, envVars>>

\* Mutant: CMD_OFF only reports the state.
CmdOffKeepsLink ==
  /\ NetRuns /\ npc = "cmd" /\ ncmd = "OFF"
  /\ npc' = "drain"
  /\ UNCHANGED <<linkVars, cfgVars, net_q, ncmd, retryVars, staVars, wlan_lock,
                 outVars, uiVars, scan_done, stop_done, envVars>>

CmdOff ==
  /\ NetRuns /\ npc = "cmd" /\ ncmd = "OFF"
  /\ LinkDown
  /\ ns' = "NO_CONFIG"
  /\ npc' = "drain"
  /\ UNCHANGED <<cfgVars, net_q, ncmd, retryVars, staVars, wlan_lock,
                 outVars, uiVars, scan_done, stop_done, envVars>>

CmdStop ==
  /\ NetRuns /\ npc = "cmd" /\ ncmd = "STOP"
  /\ LinkDown
  /\ npc' = "stoplock"
  /\ UNCHANGED <<ns, cfgVars, net_q, ncmd, retryVars, staVars, wlan_lock,
                 outVars, uiVars, scan_done, stop_done, envVars>>

\* rtl_power_off, ehci_close; wlan_lock is kept.
PowerOff ==
  /\ NetRuns /\ npc = "stoplock"
  /\ wlan_lock = "none"
  /\ wlan_lock' = "net"
  /\ chip' = "off"
  /\ ns' = "OFF"
  /\ stop_done' = TRUE
  /\ npc' = "suspended"
  /\ UNCHANGED <<link_on, lease, cfgVars, net_q, ncmd, retryVars, jssid, jpsk,
                 outVars, uiVars, scan_done, envVars>>

CmdScan ==
  /\ NetRuns /\ npc = "cmd" /\ ncmd = "SCAN"
  /\ LinkDown
  /\ ns' = "SCANNING"
  /\ npc' = "scanlock"
  /\ UNCHANGED <<cfgVars, net_q, ncmd, retryVars, staVars, wlan_lock,
                 outVars, uiVars, scan_done, stop_done, envVars>>

\* wlan_scan begins to fill scan_list.
ScanBegin ==
  /\ NetRuns /\ npc = "scanlock"
  /\ wlan_lock = "none"
  /\ wlan_lock' = "net"
  /\ chip' = "scan"
  /\ npc' = "scanning"
  /\ UNCHANGED <<linkVars, cfgVars, net_q, ncmd, retryVars, jssid, jpsk,
                 outVars, uiVars, scan_done, stop_done, envVars>>

\* The channels are done: sort the list, reconnect at once, wake the page.
ScanEnd ==
  /\ NetRuns /\ npc = "scanning"
  /\ wlan_lock' = "none"
  /\ chip' = "idle"
  /\ ns' = IF cfg_ssid # None /\ cfg_on THEN "FAILED" ELSE "NO_CONFIG"
  /\ due' = TRUE
  /\ scan_done' = TRUE
  /\ npc' = "drain"
  /\ UNCHANGED <<link_on, lease, cfgVars, net_q, ncmd, retry_ms, jssid, jpsk,
                 outVars, uiVars, stop_done, envVars>>

\* The queue is empty: join, pump or sleep for a tick.
WantsJoin == ns \in {"NO_CONFIG", "FAILED"} /\ cfg_on /\ cfg_ssid # None /\ due

\* Mutant: only FAILED leads to another join.
DecideFailedOnly ==
  /\ NetRuns /\ npc = "drain"
  /\ net_q = <<>>
  /\ \/ /\ WantsJoin /\ ns = "FAILED"
        /\ LinkDown
        /\ ns' = "CONNECTING"
        /\ npc' = "connlock"
     \/ /\ ~(WantsJoin /\ ns = "FAILED")
        /\ npc' = IF ns \in Joined THEN "pump" ELSE "idle"
        /\ UNCHANGED linkVars
  /\ UNCHANGED <<cfgVars, net_q, ncmd, retryVars, staVars, wlan_lock,
                 outVars, uiVars, scan_done, stop_done, envVars>>

Decide ==
  /\ NetRuns /\ npc = "drain"
  /\ net_q = <<>>
  /\ \/ /\ WantsJoin
        /\ LinkDown
        /\ ns' = "CONNECTING"
        /\ npc' = "connlock"
     \/ /\ ~WantsJoin
        /\ npc' = IF ns \in Joined THEN "pump" ELSE "idle"
        /\ UNCHANGED linkVars
  /\ UNCHANGED <<cfgVars, net_q, ncmd, retryVars, staVars, wlan_lock,
                 outVars, uiVars, scan_done, stop_done, envVars>>

Wake ==
  /\ NetRuns /\ npc = "idle"
  /\ npc' = "drain"
  /\ UNCHANGED <<linkVars, cfgVars, net_q, ncmd, retryVars, staVars, wlan_lock,
                 outVars, uiVars, scan_done, stop_done, envVars>>

----------------------------------------------------------------------------
(* do_connect and wlan_connect.  The strings are copied while the ui task  *)
(* may be writing them.                                                    *)

ConnectLock ==
  /\ NetRuns /\ npc = "connlock"
  /\ wlan_lock = "none"
  /\ wlan_lock' = "net"
  /\ chip' = "join"
  /\ npc' = "conn1"
  /\ UNCHANGED <<linkVars, cfgVars, net_q, ncmd, retryVars, jssid, jpsk,
                 outVars, uiVars, scan_done, stop_done, envVars>>

CopySsid ==
  /\ NetRuns /\ npc = "conn1"
  /\ jssid' = cfg_ssid
  /\ npc' = "conn2"
  /\ UNCHANGED <<linkVars, cfgVars, net_q, ncmd, retryVars, jpsk, chip, wlan_lock,
                 outVars, uiVars, scan_done, stop_done, envVars>>

CopyPsk ==
  /\ NetRuns /\ npc = "conn2"
  /\ jpsk' = cfg_psk
  /\ npc' = "conn3"
  /\ UNCHANGED <<linkVars, cfgVars, net_q, ncmd, retryVars, jssid, chip, wlan_lock,
                 outVars, uiVars, scan_done, stop_done, envVars>>

\* The handshake proves the passphrase; the keys go into the chip.
JoinOk ==
  /\ NetRuns /\ npc = "conn3"
  /\ jssid \in air /\ jpsk = jssid
  /\ chip' = "joined"
  /\ wlan_lock' = "none"
  /\ retry_ms' = 0
  /\ ns' = "DHCP"
  /\ npc' = "up"
  /\ UNCHANGED <<link_on, lease, cfgVars, net_q, ncmd, due, jssid, jpsk,
                 outVars, uiVars, scan_done, stop_done, envVars>>

\* Mutant: the limit is compared before doubling.
BackoffLate(ms) == IF ms = 0 THEN 10000 ELSE IF ms > 120000 THEN 120000 ELSE 2 * ms

Backoff(ms) == IF ms = 0 THEN 10000 ELSE IF 2 * ms > 120000 THEN 120000 ELSE 2 * ms

\* Not in reach, frames lost, or a wrong passphrase.
JoinFail ==
  /\ NetRuns /\ npc = "conn3"
  /\ chip' = "idle"
  /\ wlan_lock' = "none"
  /\ ns' = "FAILED"
  /\ retry_ms' = Backoff(retry_ms)
  /\ due' = FALSE
  /\ npc' = "drain"
  /\ UNCHANGED <<link_on, lease, cfgVars, net_q, ncmd, jssid, jpsk,
                 outVars, uiVars, scan_done, stop_done, envVars>>

\* get_timer passes retry_at.
RetryDue ==
  /\ ~Ended /\ ~due
  /\ due' = TRUE
  /\ UNCHANGED <<linkVars, cfgVars, net_q, ncmd, npc, retry_ms, staVars, wlan_lock,
                 outVars, uiVars, scan_done, stop_done, envVars>>

----------------------------------------------------------------------------
(* wlan_rx_pump and the supervision of the link.                           *)

PumpBegin ==
  /\ NetRuns /\ npc = "pump"
  /\ wlan_lock = "none"
  /\ wlan_lock' = "net"
  /\ npc' = "pumping"
  /\ UNCHANGED <<linkVars, cfgVars, net_q, ncmd, retryVars, staVars,
                 outVars, uiVars, scan_done, stop_done, envVars>>

\* Frames or none, still joined: an address makes the service UP.
PumpOk ==
  /\ NetRuns /\ npc = "pumping"
  /\ wlan_lock' = "none"
  /\ ns' = IF ns = "DHCP" /\ lease THEN "UP" ELSE ns
  /\ npc' \in {"drain", "idle"}
  /\ UNCHANGED <<link_on, lease, cfgVars, net_q, ncmd, retryVars, staVars,
                 outVars, uiVars, scan_done, stop_done, envVars>>

\* No frame from the access point for 10 s.
PumpGone ==
  /\ NetRuns /\ npc = "pumping"
  /\ jssid \notin air
  /\ wlan_lock' = "none"
  /\ npc' = "lost"
  /\ UNCHANGED <<linkVars, cfgVars, net_q, ncmd, retryVars, staVars,
                 outVars, uiVars, scan_done, stop_done, envVars>>

\* The access point dropped us (deauthentication, a failed rekeying).
PumpDropped ==
  /\ NetRuns /\ npc = "pumping"
  /\ trouble < MaxTrouble
  /\ trouble' = trouble + 1
  /\ wlan_lock' = "none"
  /\ npc' = "lost"
  /\ UNCHANGED <<linkVars, cfgVars, net_q, ncmd, retryVars, staVars,
                 outVars, uiVars, scan_done, stop_done, air>>

Lost ==
  /\ NetRuns /\ npc = "lost"
  /\ LinkDown
  /\ ns' = "FAILED"
  /\ due' = FALSE
  /\ npc' = "drain"
  /\ UNCHANGED <<cfgVars, net_q, ncmd, retry_ms, staVars, wlan_lock,
                 outVars, uiVars, scan_done, stop_done, envVars>>

----------------------------------------------------------------------------
(* lwIP, under its core lock: the tcpip thread, or an app in the ui task.  *)

DhcpBound ==
  /\ ~Ended /\ core = "none"
  /\ link_on /\ ~lease
  /\ chip = "joined" /\ jssid \in air
  /\ lease' = TRUE
  /\ UNCHANGED <<ns, link_on, cfgVars, net_q, ncmd, npc, retryVars, staVars, wlan_lock,
                 outVars, uiVars, scan_done, stop_done, envVars>>

\* The lease runs out or the server refuses to renew it: lwIP drops the address.
DhcpExpired ==
  /\ ~Ended /\ core = "none"
  /\ link_on /\ lease
  /\ trouble < MaxTrouble
  /\ trouble' = trouble + 1
  /\ lease' = FALSE
  /\ UNCHANGED <<ns, link_on, cfgVars, net_q, ncmd, npc, retryVars, staVars, wlan_lock,
                 outVars, uiVars, scan_done, stop_done, air>>

Runs(t) == IF t = "ui" THEN UiRuns /\ upc = "app" ELSE ~Ended

\* wifi_output: link_on is tested before the wait for wlan_lock.
OutBegin(t) ==
  /\ Runs(t)
  /\ core = "none" /\ link_on
  /\ core' = t
  /\ opc' = t
  /\ onet' = jssid
  /\ UNCHANGED <<linkVars, cfgVars, net_q, ncmd, npc, retryVars, staVars, wlan_lock,
                 uiVars, scan_done, stop_done, envVars>>

OutSend(t) ==
  /\ Runs(t) /\ opc = t
  /\ wlan_lock = "none"
  /\ wlan_lock' = t
  /\ UNCHANGED <<linkVars, cfgVars, net_q, ncmd, npc, retryVars, staVars,
                 outVars, uiVars, scan_done, stop_done, envVars>>

OutSent(t) ==
  /\ Runs(t) /\ opc = t
  /\ wlan_lock = t
  /\ wlan_lock' = "none"
  /\ core' = "none"
  /\ opc' = "none"
  /\ UNCHANGED <<linkVars, cfgVars, net_q, ncmd, npc, retryVars, staVars, onet,
                 uiVars, scan_done, stop_done, envVars>>

\* 200 ms without the lock: the frame is dropped.
OutDropped(t) ==
  /\ ~Ended /\ opc = t
  /\ wlan_lock = "net"
  /\ core' = "none"
  /\ opc' = "none"
  /\ UNCHANGED <<linkVars, cfgVars, net_q, ncmd, npc, retryVars, staVars, wlan_lock, onet,
                 uiVars, scan_done, stop_done, envVars>>

----------------------------------------------------------------------------
(* The ui task: the WiFi page, an app, EXIT.                               *)

NoReq == [ssid |-> None, psk |-> None, on |-> FALSE]

\* YELLOW (on/off) or OK on a network of the list, with a passphrase or the
\* saved one.
Saved == cfg_ssid \in Nets /\ cfg_psk # None

Requests ==
  {[ssid |-> cfg_ssid, psk |-> cfg_psk, on |-> ~cfg_on]}
    \cup {r \in [ssid : Nets, psk : Nets \cup {Wrong}, on : {TRUE}] : shown}
    \cup {r \in {[ssid |-> cfg_ssid, psk |-> cfg_psk, on |-> TRUE]} : shown /\ Saved}

\* The page does not open for a service that is off; one opened while the
\* service was starting stays usable if the start then fails.
ConfigureBegin ==
  /\ UiRuns /\ upc = "menu"
  /\ ops < MaxOps
  /\ ops' = ops + 1
  /\ req' \in Requests
  /\ upc' = "ssid"
  /\ UNCHANGED <<linkVars, cfgVars, net_q, ncmd, npc, retryVars, staVars, wlan_lock,
                 outVars, listVars, scan_done, stop_done, envVars>>

\* net_configure writes the three variables one after the other, saves
\* WIFI.TXT, and tells the net task.
ConfigureWrite ==
  /\ UiRuns
  /\ \/ upc = "ssid" /\ upc' = "psk"  /\ cfg_ssid' = req.ssid /\ UNCHANGED <<cfg_psk, cfg_on>>
     \/ upc = "psk"  /\ upc' = "on"   /\ cfg_psk' = req.psk /\ UNCHANGED <<cfg_ssid, cfg_on>>
     \/ upc = "on"   /\ upc' = "save" /\ cfg_on' = req.on /\ UNCHANGED <<cfg_ssid, cfg_psk>>
     \/ upc = "save" /\ upc' = "send" /\ UNCHANGED cfgVars
  /\ UNCHANGED <<linkVars, net_q, ncmd, npc, retryVars, staVars, wlan_lock,
                 outVars, req, ops, listVars, scan_done, stop_done, envVars>>

\* net_send_cmd: room in the queue, or 100 ms without any.
Send(cmd) ==
  \/ Len(net_q) < QLen /\ net_q' = Append(net_q, cmd)
  \/ Len(net_q) = QLen /\ UNCHANGED net_q

ConfigureSend ==
  /\ UiRuns /\ upc = "send"
  /\ Send(IF req.on THEN "RECONNECT" ELSE "OFF")
  /\ upc' = "menu"
  /\ req' = NoReq
  /\ UNCHANGED <<linkVars, cfgVars, ncmd, npc, retryVars, staVars, wlan_lock,
                 outVars, ops, listVars, scan_done, stop_done, envVars>>

\* The scan's command is queued or being carried out.
ScanUnderWay ==
  \/ \E i \in 1..Len(net_q) : net_q[i] = "SCAN"
  \/ npc = "cmd" /\ ncmd = "SCAN"
  \/ npc \in {"scanlock", "scanning"}

\* Mutant: a scan_done that came too late for the last request is left for
\* this one.
ScanRequestKeepsDone ==
  /\ UiRuns /\ upc = "menu"
  /\ ops < MaxOps
  /\ ns \notin {"OFF", "STARTING"}
  /\ ops' = ops + 1
  /\ overlap' = ScanUnderWay
  /\ upc' = "scansend"
  /\ UNCHANGED <<linkVars, cfgVars, net_q, ncmd, npc, retryVars, staVars, wlan_lock,
                 outVars, req, shown, scan_done, stop_done, envVars>>

\* net_scan, from GREEN or when the page opens: scan_done is taken back first.
ScanRequest ==
  /\ UiRuns /\ upc = "menu"
  /\ ops < MaxOps
  /\ ns \notin {"OFF", "STARTING"}
  /\ ops' = ops + 1
  /\ scan_done' = FALSE
  /\ overlap' = ScanUnderWay
  /\ upc' = "scansend"
  /\ UNCHANGED <<linkVars, cfgVars, net_q, ncmd, npc, retryVars, staVars, wlan_lock,
                 outVars, req, shown, stop_done, envVars>>

ScanSend ==
  /\ UiRuns /\ upc = "scansend"
  /\ Send("SCAN")
  /\ upc' = "scanwait"
  /\ UNCHANGED <<linkVars, cfgVars, ncmd, npc, retryVars, staVars, wlan_lock,
                 outVars, req, ops, listVars, scan_done, stop_done, envVars>>

\* Woken by the net task, with some networks or none; or 25 s have passed,
\* whatever the net task does, and the page has no list.
ScanReturn ==
  /\ UiRuns /\ upc = "scanwait"
  /\ \/ scan_done /\ scan_done' = FALSE /\ shown' \in BOOLEAN
     \/ ~scan_done /\ shown' = FALSE /\ UNCHANGED scan_done
  /\ upc' = "menu"
  /\ UNCHANGED <<linkVars, cfgVars, net_q, ncmd, npc, retryVars, staVars, wlan_lock,
                 outVars, req, ops, overlap, stop_done, envVars>>

\* An app uses the network, then ends.
AppRuns ==
  /\ UiRuns
  /\ \/ upc = "menu" /\ ops < MaxOps /\ upc' = "app" /\ ops' = ops + 1
     \/ upc = "app" /\ opc # "ui" /\ upc' = "menu" /\ UNCHANGED ops
  /\ UNCHANGED <<linkVars, cfgVars, net_q, ncmd, npc, retryVars, staVars, wlan_lock,
                 outVars, req, listVars, scan_done, stop_done, envVars>>

\* EXIT: net_service_stop asks only a service that is neither off nor starting.
Exit ==
  /\ UiRuns /\ upc = "menu"
  /\ IF ns \in {"OFF", "STARTING"}
     THEN upc' = "end" /\ UNCHANGED net_q
     ELSE Send("STOP") /\ upc' = "stopwait"
  /\ UNCHANGED <<linkVars, cfgVars, ncmd, npc, retryVars, staVars, wlan_lock,
                 outVars, req, ops, listVars, scan_done, stop_done, envVars>>

\* Stopped, or a second has passed, whatever the net task does; then
\* vTaskEndScheduler.
ExitWait ==
  /\ UiRuns /\ upc = "stopwait"
  /\ \/ stop_done /\ stop_done' = FALSE
     \/ ~stop_done /\ UNCHANGED stop_done
  /\ upc' = "end"
  /\ UNCHANGED <<linkVars, cfgVars, net_q, ncmd, npc, retryVars, staVars, wlan_lock,
                 outVars, req, ops, listVars, scan_done, envVars>>

\* An access point goes out of reach or comes back.
AirChange ==
  /\ ~Ended /\ trouble < MaxTrouble
  /\ trouble' = trouble + 1
  /\ \E n \in Nets : air' = IF n \in air THEN air \ {n} ELSE air \cup {n}
  /\ UNCHANGED <<linkVars, cfgVars, net_q, ncmd, npc, retryVars, staVars, wlan_lock,
                 outVars, uiVars, scan_done, stop_done>>

\* EXIT returned to the stock firmware.
Finished == Ended /\ UNCHANGED vars

----------------------------------------------------------------------------
Init ==
  /\ ns = "STARTING"
  /\ link_on = FALSE /\ lease = FALSE
  /\ cfg_ssid \in Nets \cup {None}
  /\ cfg_psk = cfg_ssid
  /\ cfg_on \in BOOLEAN
  /\ net_q = <<>> /\ ncmd = "OFF" /\ npc = "boot"
  /\ retry_ms = 0 /\ due = FALSE
  /\ jssid = None /\ jpsk = None /\ chip = "idle"
  /\ core = "none" /\ wlan_lock = "none"
  /\ opc = "none" /\ onet = None
  /\ upc = "menu" /\ req = NoReq /\ ops = 0
  /\ shown = FALSE /\ overlap = FALSE
  /\ scan_done = FALSE /\ stop_done = FALSE
  /\ air = Nets
  /\ trouble = 0

NetStep ==
  \/ Boot \/ Receive \/ CmdReconnect \/ CmdOff \/ CmdStop \/ PowerOff
  \/ CmdScan \/ ScanBegin \/ ScanEnd
  \/ Decide \/ Wake
  \/ ConnectLock \/ CopySsid \/ CopyPsk \/ JoinOk \/ JoinFail \/ LinkUp
  \/ PumpBegin \/ PumpOk \/ PumpGone \/ PumpDropped \/ Lost

OutStep(t) == OutSend(t) \/ OutSent(t) \/ OutDropped(t)

\* What the ui task does once a request is under way.
UiStep ==
  \/ ConfigureWrite \/ ConfigureSend
  \/ ScanSend \/ ScanReturn
  \/ ExitWait

Next ==
  \/ NetStep
  \/ RetryDue \/ DhcpBound \/ DhcpExpired \/ AirChange
  \/ \E t \in {"tcpip", "ui"} : OutBegin(t) \/ OutStep(t)
  \/ ConfigureBegin \/ ScanRequest \/ AppRuns \/ Exit
  \/ UiStep
  \/ Finished

Spec == Init /\ [][Next]_vars

\* A runnable task gets the core and, since the tcpip thread sleeps between
\* frames, a lock it waits for; a join that is possible succeeds in one of its
\* many tries, beacons that stay away are missed for 10 s, the DHCP client
\* repeats itself until a server answers.
Fairness ==
  /\ SF_vars(NetStep)
  /\ SF_vars(JoinOk)
  /\ SF_vars(PumpGone)
  /\ SF_vars(DhcpBound)
  /\ WF_vars(RetryDue)
  /\ SF_vars(UiStep)
  /\ WF_vars(OutStep("tcpip"))
  /\ SF_vars(OutStep("ui"))

FairSpec == Spec /\ Fairness

----------------------------------------------------------------------------
(* Properties.                                                             *)

TypeOK ==
  /\ ns \in {"OFF", "STARTING", "NO_CONFIG", "CONNECTING", "DHCP", "UP",
             "FAILED", "SCANNING"}
  /\ link_on \in BOOLEAN /\ lease \in BOOLEAN
  /\ cfg_ssid \in Nets \cup {None} /\ cfg_psk \in Nets \cup {None, Wrong}
  /\ cfg_on \in BOOLEAN
  /\ net_q \in Seq(Commands) /\ Len(net_q) <= QLen
  /\ ncmd \in Commands
  /\ npc \in Busy \cup {"drain", "cmd", "idle", "up", "pump", "pumping", "lost",
                        "scanlock", "scanning", "stoplock", "suspended"}
  /\ retry_ms \in RetryWaits /\ due \in BOOLEAN
  /\ jssid \in Nets \cup {None} /\ jpsk \in Nets \cup {None, Wrong}
  /\ chip \in {"idle", "scan", "join", "joined", "off"}
  /\ core \in {"none", "tcpip", "ui"} /\ opc \in {"none", "tcpip", "ui"}
  /\ wlan_lock \in {"none", "net", "tcpip", "ui"}
  /\ onet \in Nets \cup {None}
  /\ upc \in {"menu", "ssid", "psk", "on", "save", "send", "scansend", "scanwait",
              "app", "stopwait", "end"}
  /\ req \in [ssid : Nets \cup {None}, psk : Nets \cup {None, Wrong}, on : BOOLEAN]
  /\ scan_done \in BOOLEAN /\ stop_done \in BOOLEAN
  /\ shown \in BOOLEAN /\ overlap \in BOOLEAN
  /\ air \in SUBSET Nets
  /\ ops \in 0..MaxOps /\ trouble \in 0..MaxTrouble

\* A command is on its way that will make the net task look at the
\* configuration again, or net_configure has yet to send it.
Pending ==
  \/ net_q # <<>> \/ npc = "cmd"
  \/ upc \in {"ssid", "psk", "on", "save", "send"}

\* A link that is up belongs to the network the user chose, whatever was
\* changed while the net task was joining and even when the full queue lost
\* a command.
LinkFollowsConfig ==
  link_on /\ ~Pending => cfg_on /\ jssid = cfg_ssid /\ jpsk = cfg_psk

\* wifi_output tests link_on before it waits for wlan_lock; still no frame is
\* handed to a chip that is scanning, joining another network or switched off.
FrameOnItsNetwork ==
  wlan_lock \in {"tcpip", "ui"} => chip = "joined" /\ jssid = onet

\* net_scan may give up while its scan is still queued or running; scan_done
\* then comes late.  Such a scan never writes into entries the page shows and
\* chooses from, and a late scan_done does not make the next net_scan return
\* before its own scan is over: unless net_scan was called while an earlier
\* scan was still to be done.
ListIsQuiet ==
  shown /\ upc \notin {"scansend", "scanwait"} /\ ScanUnderWay => overlap

\* Once the user leaves the page with WiFi on, a network in reach and its right
\* passphrase, the service ends up joined to it in the state UP, and stays so.
ComesUp ==
  <>[](upc = "menu" /\ ns # "OFF" /\ cfg_on /\ cfg_ssid \in air /\ cfg_psk = cfg_ssid)
    => <>[](ns = "UP" /\ link_on /\ jssid = cfg_ssid)

\* Switched off stays off: the link goes down for good.
StaysOff ==
  <>[](upc = "menu" /\ ~cfg_on) => <>[]~link_on

\* No scan ever writes into entries the page shows and chooses from.
ListNeverTouched ==
  shown /\ upc \notin {"scansend", "scanwait"} => ~ScanUnderWay

\* EXIT leaves the chip off for the stock firmware.
ChipOffAtExit ==
  upc = "end" => chip = "off"

\* SDK_NET_UP says "address: ready": no round of the net task's loop ends with
\* that state and no address.
UpHasAddress ==
  [][npc = "pumping" /\ npc' \in {"drain", "idle"} /\ ns' = "UP" => lease]_vars
=============================================================================
