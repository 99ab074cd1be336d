---------------------------- MODULE NetSvcProofs ----------------------------
(***************************************************************************)
(* The WiFi service of netsvc.c: a link that is up belongs to the network  *)
(* the user chose, no frame reaches a chip that left its network, and no   *)
(* scan writes a list the page is showing, though net_scan may give up at  *)
(* any time.  For any number of networks, any length of the queue and any  *)
(* number of user's actions and troubles.                                  *)
(***************************************************************************)
EXTENDS NetSvc, SequenceTheorems, TLAPS

\* The parts of TypeOK.
States ==
  /\ ns \in {"OFF", "STARTING", "NO_CONFIG", "CONNECTING", "DHCP", "UP",
             "FAILED", "SCANNING"}
  /\ ncmd \in Commands
  /\ npc \in Busy \cup {"drain", "cmd", "idle", "up", "pump", "pumping", "lost",
                        "scanlock", "scanning", "stoplock", "suspended"}
  /\ chip \in {"idle", "scan", "join", "joined", "off"}
  /\ core \in {"none", "tcpip", "ui"} /\ opc \in {"none", "tcpip", "ui"}
  /\ wlan_lock \in {"none", "net", "tcpip", "ui"}
  /\ upc \in {"menu", "ssid", "psk", "on", "save", "send", "scansend", "scanwait",
              "app", "stopwait", "end"}
Flags ==
  /\ link_on \in BOOLEAN /\ lease \in BOOLEAN /\ cfg_on \in BOOLEAN
  /\ due \in BOOLEAN /\ scan_done \in BOOLEAN /\ stop_done \in BOOLEAN
  /\ shown \in BOOLEAN /\ overlap \in BOOLEAN
Names ==
  /\ cfg_ssid \in Nets \cup {None} /\ cfg_psk \in Nets \cup {None, Wrong}
  /\ jssid \in Nets \cup {None} /\ jpsk \in Nets \cup {None, Wrong}
  /\ onet \in Nets \cup {None}
  /\ req \in [ssid : Nets \cup {None}, psk : Nets \cup {None, Wrong}, on : BOOLEAN]
  /\ air \in SUBSET Nets
Counts ==
  /\ net_q \in Seq(Commands) /\ Len(net_q) <= QLen
  /\ retry_ms \in RetryWaits
  /\ ops \in 0..MaxOps /\ trouble \in 0..MaxTrouble

\* The link and the locks: a frame in wifi_output holds the core lock, so the link
\* stays up and the chip on its network until the frame is sent or dropped, and the
\* net task holds wlan_lock while it joins, scans or pumps.
Locks ==
  /\ core = opc
  /\ opc # "none" => link_on /\ jssid = onet
  /\ wlan_lock \in {"tcpip", "ui"} => opc = wlan_lock
  /\ npc \in {"conn1", "conn2", "conn3", "scanning", "pumping"} => wlan_lock = "net"
  /\ link_on => chip = "joined" /\ npc \in {"drain", "cmd", "idle", "pump", "pumping", "lost"}
  /\ npc = "up" => chip = "joined"

\* From the moment a join reads the configuration, what it has read is what the user
\* chose, or a command that takes the link down is still to come.
Chosen ==
  /\ npc \in {"connlock", "conn1"} => Pending \/ cfg_on
  /\ npc = "conn2" => Pending \/ (cfg_on /\ jssid = cfg_ssid)
  /\ npc \in {"conn3", "up"} \/ link_on =>
       Pending \/ (cfg_on /\ jssid = cfg_ssid /\ jpsk = cfg_psk)

\* As long as net_scan is only called when no scan is still to be done, there is one
\* at most, a scan_done means that it is over, and the page waits for it or has no
\* list: net_scan takes back a late scan_done, and returns -1 when it gives up.
Has(q)  == \E i \in 1..Len(q) : q[i] = "SCAN"
Once(q) == \A i, j \in 1..Len(q) : q[i] = "SCAN" /\ q[j] = "SCAN" => i = j
Scanning == (npc = "cmd" /\ ncmd = "SCAN") \/ npc \in {"scanlock", "scanning"}
Scans ==
  ~overlap =>
    /\ Once(net_q)
    /\ Has(net_q) => ~Scanning
    /\ scan_done \/ upc = "scansend" => ~Has(net_q) /\ ~Scanning
    /\ upc = "scansend" => ~scan_done
    /\ Has(net_q) \/ Scanning => upc = "scanwait" \/ ~shown

\* What net_configure may be asked for.
Reqs == [ssid : Nets \cup {None}, psk : Nets \cup {None, Wrong}, on : BOOLEAN]

IInv == TypeOK /\ Locks /\ Chosen /\ Scans

----------------------------------------------------------------------------
LEMMA TypeParts == TypeOK <=> States /\ Flags /\ Names /\ Counts
BY DEF TypeOK, States, Flags, Names, Counts
LEMMA TypePartsNext == (TypeOK <=> States /\ Flags /\ Names /\ Counts)'
BY TypeParts, PTL

LEMMA TypesInit == Init => TypeOK
<1> SUFFICES ASSUME Init PROVE States /\ Flags /\ Names /\ Counts
  BY TypeParts
<1>1. States
  BY DEF Init, States, Busy, Commands
<1>2. Flags
  BY DEF Init, Flags
<1>3. Names
  BY DEF Init, Names, NoReq
<1>4. Counts
  BY NetAssumption DEF Init, Counts, RetryWaits
<1> QED BY <1>1, <1>2, <1>3, <1>4

LEMMA TypesNext == TypeOK /\ [Next]_vars => TypeOK'
<1> SUFFICES ASSUME States, Flags, Names, Counts, [Next]_vars PROVE States' /\ Flags' /\ Names' /\ Counts'
  BY TypeParts, TypePartsNext
<1> USE DEF linkVars, cfgVars, retryVars, staVars, outVars, uiVars, listVars, envVars
<1>1. CASE Boot
  <2>1. States'
    BY <1>1 DEF Boot, States, Busy
  <2>2. Flags'
    BY <1>1 DEF Boot, Flags, LinkDown
  <2>3. Names' /\ Counts'
    BY <1>1, NetAssumption DEF Boot, Names, Counts, RetryWaits, Backoff
  <2> QED BY <2>1, <2>2, <2>3
<1>2. CASE Receive
  BY <1>2, NetAssumption DEF Receive, States, Flags, Names, Counts, Busy, RetryWaits, Commands
<1>3. CASE CmdReconnect
  <2>1. States'
    BY <1>3 DEF CmdReconnect, States, Busy
  <2>2. Flags'
    BY <1>3 DEF CmdReconnect, Flags, LinkDown
  <2>3. Names' /\ Counts'
    BY <1>3, NetAssumption DEF CmdReconnect, Names, Counts, RetryWaits, Backoff
  <2> QED BY <2>1, <2>2, <2>3
<1>4. CASE CmdOff
  <2>1. States'
    BY <1>4 DEF CmdOff, States, Busy
  <2>2. Flags'
    BY <1>4 DEF CmdOff, Flags, LinkDown
  <2>3. Names' /\ Counts'
    BY <1>4, NetAssumption DEF CmdOff, Names, Counts, RetryWaits, Backoff
  <2> QED BY <2>1, <2>2, <2>3
<1>5. CASE CmdStop
  <2>1. States'
    BY <1>5 DEF CmdStop, States, Busy
  <2>2. Flags'
    BY <1>5 DEF CmdStop, Flags, LinkDown
  <2>3. Names' /\ Counts'
    BY <1>5, NetAssumption DEF CmdStop, Names, Counts, RetryWaits, Backoff
  <2> QED BY <2>1, <2>2, <2>3
<1>6. CASE PowerOff
  BY <1>6, NetAssumption DEF PowerOff, States, Flags, Names, Counts, Busy, RetryWaits, Commands
<1>7. CASE CmdScan
  <2>1. States'
    BY <1>7 DEF CmdScan, States, Busy
  <2>2. Flags'
    BY <1>7 DEF CmdScan, Flags, LinkDown
  <2>3. Names' /\ Counts'
    BY <1>7, NetAssumption DEF CmdScan, Names, Counts, RetryWaits, Backoff
  <2> QED BY <2>1, <2>2, <2>3
<1>8. CASE ScanBegin
  BY <1>8, NetAssumption DEF ScanBegin, States, Flags, Names, Counts, Busy, RetryWaits, Commands
<1>9. CASE ScanEnd
  BY <1>9, NetAssumption DEF ScanEnd, States, Flags, Names, Counts, Busy, RetryWaits, Commands
<1>10. CASE Decide
  <2>1. States'
    BY <1>10 DEF Decide, States, Busy
  <2>2. Flags'
    BY <1>10 DEF Decide, Flags, LinkDown
  <2>3. Names' /\ Counts'
    BY <1>10, NetAssumption DEF Decide, Names, Counts, RetryWaits, Backoff
  <2> QED BY <2>1, <2>2, <2>3
<1>11. CASE Wake
  BY <1>11, NetAssumption DEF Wake, States, Flags, Names, Counts, Busy, RetryWaits, Commands
<1>12. CASE ConnectLock
  BY <1>12, NetAssumption DEF ConnectLock, States, Flags, Names, Counts, Busy, RetryWaits, Commands
<1>13. CASE CopySsid
  BY <1>13, NetAssumption DEF CopySsid, States, Flags, Names, Counts, Busy, RetryWaits, Commands
<1>14. CASE CopyPsk
  BY <1>14, NetAssumption DEF CopyPsk, States, Flags, Names, Counts, Busy, RetryWaits, Commands
<1>15. CASE JoinOk
  BY <1>15, NetAssumption DEF JoinOk, States, Flags, Names, Counts, Busy, RetryWaits, Commands
<1>16. CASE JoinFail
  <2>1. States'
    BY <1>16 DEF JoinFail, States, Busy
  <2>2. Flags'
    BY <1>16 DEF JoinFail, Flags, LinkDown
  <2>3. Names' /\ Counts'
    BY <1>16, NetAssumption DEF JoinFail, Names, Counts, RetryWaits, Backoff
  <2> QED BY <2>1, <2>2, <2>3
<1>17. CASE LinkUp
  BY <1>17, NetAssumption DEF LinkUp, States, Flags, Names, Counts, Busy, RetryWaits, Commands
<1>18. CASE PumpBegin
  BY <1>18, NetAssumption DEF PumpBegin, States, Flags, Names, Counts, Busy, RetryWaits, Commands
<1>19. CASE PumpOk
  BY <1>19, NetAssumption DEF PumpOk, States, Flags, Names, Counts, Busy, RetryWaits, Commands
<1>20. CASE PumpGone
  BY <1>20, NetAssumption DEF PumpGone, States, Flags, Names, Counts, Busy, RetryWaits, Commands
<1>21. CASE PumpDropped
  BY <1>21, NetAssumption DEF PumpDropped, States, Flags, Names, Counts, Busy, RetryWaits, Commands
<1>22. CASE Lost
  <2>1. States'
    BY <1>22 DEF Lost, States, Busy
  <2>2. Flags'
    BY <1>22 DEF Lost, Flags, LinkDown
  <2>3. Names' /\ Counts'
    BY <1>22, NetAssumption DEF Lost, Names, Counts, RetryWaits, Backoff
  <2> QED BY <2>1, <2>2, <2>3
<1>23. CASE RetryDue
  BY <1>23, NetAssumption DEF RetryDue, States, Flags, Names, Counts, Busy, RetryWaits, Commands
<1>24. CASE DhcpBound
  BY <1>24, NetAssumption DEF DhcpBound, States, Flags, Names, Counts, Busy, RetryWaits, Commands
<1>25. CASE DhcpExpired
  <2>1. States'
    BY <1>25 DEF DhcpExpired, States, Busy
  <2>2. Flags'
    BY <1>25 DEF DhcpExpired, Flags, LinkDown
  <2>3. Names' /\ Counts'
    BY <1>25, NetAssumption DEF DhcpExpired, Names, Counts, RetryWaits, Backoff
  <2> QED BY <2>1, <2>2, <2>3
<1>26. CASE AirChange
  BY <1>26, NetAssumption DEF AirChange, States, Flags, Names, Counts, Busy, RetryWaits, Commands
<1>27. CASE ConfigureBegin
  <2>1. States' /\ Flags'
    BY <1>27 DEF ConfigureBegin, States, Flags
  <2>2. req' \in Reqs
    <3>1. cfg_on \in BOOLEAN /\ (~cfg_on) \in BOOLEAN
      BY DEF Flags
    <3>2. \A x \in Nets \cup {None}, y \in Nets \cup {None, Wrong}, b \in BOOLEAN :
            [ssid |-> x, psk |-> y, on |-> b] \in Reqs
      BY DEF Reqs
    <3>3. [ssid |-> cfg_ssid, psk |-> cfg_psk, on |-> ~cfg_on] \in Reqs
      BY <3>1, <3>2 DEF Names
    <3>4. ASSUME NEW r \in Requests
          PROVE  r \in Reqs
      <4>1. CASE r = [ssid |-> cfg_ssid, psk |-> cfg_psk, on |-> ~cfg_on]
        BY <3>3, <4>1
      <4>2. CASE \E x \in Nets, y \in Nets \cup {Wrong} : r = [ssid |-> x, psk |-> y, on |-> TRUE]
        BY <3>2, <4>2
      <4>3. CASE r = [ssid |-> cfg_ssid, psk |-> cfg_psk, on |-> TRUE]
        BY <3>2, <4>3 DEF Names
      <4> QED BY <4>1, <4>2, <4>3 DEF Requests
    <3>5. Requests \subseteq Reqs
      BY <3>3, <3>4
    <3> QED BY <1>27, <3>5 DEF ConfigureBegin
  <2>3. Names'
    BY <1>27, <2>2 DEF ConfigureBegin, Names, Reqs
  <2>4. Counts'
    BY <1>27, NetAssumption DEF ConfigureBegin, Counts
  <2> QED BY <2>1, <2>2, <2>3, <2>4
<1>28. CASE ScanRequest
  <2>1. States'
    BY <1>28 DEF ScanRequest, States, Busy
  <2>2. Flags'
    <3>1. ScanUnderWay \in BOOLEAN
      BY DEF ScanUnderWay
    <3> QED BY <1>28, <3>1 DEF ScanRequest, Flags
  <2>3. Names' /\ Counts'
    BY <1>28, NetAssumption DEF ScanRequest, Names, Counts, RetryWaits, Backoff
  <2> QED BY <2>1, <2>2, <2>3
<1>29. CASE AppRuns
  BY <1>29, NetAssumption DEF AppRuns, States, Flags, Names, Counts, Busy, RetryWaits, Commands
<1>30. CASE Exit
  BY <1>30, NetAssumption DEF Exit, States, Flags, Names, Counts, Busy, RetryWaits, Commands, Send
<1>31. CASE ConfigureWrite
  BY <1>31, NetAssumption DEF ConfigureWrite, States, Flags, Names, Counts, Busy, RetryWaits, Commands
<1>32. CASE ConfigureSend
  BY <1>32, NetAssumption DEF ConfigureSend, States, Flags, Names, Counts, Busy, RetryWaits,
     Commands, Send, NoReq
<1>33. CASE ScanSend
  BY <1>33, NetAssumption DEF ScanSend, States, Flags, Names, Counts, Busy, RetryWaits, Commands, Send
<1>34. CASE ScanReturn
  <2>1. States'
    BY <1>34 DEF ScanReturn, States, Busy
  <2>2. Flags'
    BY <1>34 DEF ScanReturn, Flags, LinkDown
  <2>3. Names' /\ Counts'
    BY <1>34, NetAssumption DEF ScanReturn, Names, Counts, RetryWaits, Backoff
  <2> QED BY <2>1, <2>2, <2>3
<1>35. CASE ExitWait
  <2>1. States'
    BY <1>35 DEF ExitWait, States, Busy
  <2>2. Flags'
    BY <1>35 DEF ExitWait, Flags, LinkDown
  <2>3. Names' /\ Counts'
    BY <1>35, NetAssumption DEF ExitWait, Names, Counts, RetryWaits, Backoff
  <2> QED BY <2>1, <2>2, <2>3
<1>36. ASSUME NEW t \in {"tcpip", "ui"}, OutBegin(t) PROVE States' /\ Flags' /\ Names' /\ Counts'
  BY <1>36, NetAssumption DEF OutBegin, States, Flags, Names, Counts, Busy
<1>37. ASSUME NEW t \in {"tcpip", "ui"}, OutSend(t) PROVE States' /\ Flags' /\ Names' /\ Counts'
  BY <1>37, NetAssumption DEF OutSend, States, Flags, Names, Counts, Busy
<1>38. ASSUME NEW t \in {"tcpip", "ui"}, OutSent(t) PROVE States' /\ Flags' /\ Names' /\ Counts'
  BY <1>38, NetAssumption DEF OutSent, States, Flags, Names, Counts, Busy
<1>39. ASSUME NEW t \in {"tcpip", "ui"}, OutDropped(t) PROVE States' /\ Flags' /\ Names' /\ Counts'
  BY <1>39, NetAssumption DEF OutDropped, States, Flags, Names, Counts, Busy
<1>40. CASE UNCHANGED vars
  BY <1>40 DEF States, Flags, Names, Counts, vars
<1> QED
  BY <1>1, <1>2, <1>3, <1>4, <1>5, <1>6, <1>7, <1>8, <1>9, <1>10, <1>11, <1>12, <1>13, <1>14,
     <1>15, <1>16, <1>17, <1>18, <1>19, <1>20, <1>21, <1>22, <1>23, <1>24, <1>25, <1>26, <1>27,
     <1>28, <1>29, <1>30, <1>31, <1>32, <1>33, <1>34, <1>35, <1>36, <1>37, <1>38, <1>39,
     <1>40 DEF Next, NetStep, UiStep, OutStep, Finished


----------------------------------------------------------------------------
\* A step leaves these variables alone, or is one of the others'.
LEMMA LocksNext == States /\ Locks /\ [Next]_vars => Locks'
<1> SUFFICES ASSUME States, Locks, [Next]_vars PROVE Locks'
  OBVIOUS
<1> USE DEF linkVars, cfgVars, retryVars, staVars, outVars, uiVars, listVars, envVars
<1>1. CASE RetryDue \/ DhcpBound \/ DhcpExpired \/ AirChange \/ ConfigureBegin \/ ConfigureWrite
  BY <1>1 DEF RetryDue, DhcpBound, DhcpExpired, AirChange, ConfigureBegin, ConfigureWrite, Locks, States
<1>2. CASE ConfigureSend \/ ScanRequest \/ ScanSend \/ ScanReturn \/ AppRuns \/ Exit
  BY <1>2 DEF ConfigureSend, ScanRequest, ScanSend, ScanReturn, AppRuns, Exit, Locks, States
<1>3. CASE ExitWait
  BY <1>3 DEF ExitWait, Locks, States
<1>4. CASE Boot
  BY <1>4 DEF Boot, Locks, States
<1>5. CASE Receive
  BY <1>5 DEF Receive, Locks, States
<1>6. CASE CmdReconnect
  BY <1>6 DEF CmdReconnect, Locks, LinkDown, States
<1>7. CASE CmdOff
  BY <1>7 DEF CmdOff, Locks, LinkDown, States
<1>8. CASE CmdStop
  BY <1>8 DEF CmdStop, Locks, LinkDown, States
<1>9. CASE PowerOff
  BY <1>9 DEF PowerOff, Locks, States
<1>10. CASE CmdScan
  BY <1>10 DEF CmdScan, Locks, LinkDown, States
<1>11. CASE ScanBegin
  BY <1>11 DEF ScanBegin, Locks, States
<1>12. CASE ScanEnd
  BY <1>12 DEF ScanEnd, Locks, States
<1>13. CASE Decide
  BY <1>13 DEF Decide, Locks, LinkDown, States
<1>14. CASE Wake
  BY <1>14 DEF Wake, Locks, States
<1>15. CASE ConnectLock
  BY <1>15 DEF ConnectLock, Locks, States
<1>16. CASE CopySsid
  BY <1>16 DEF CopySsid, Locks, States
<1>17. CASE CopyPsk
  BY <1>17 DEF CopyPsk, Locks, States
<1>18. CASE JoinOk
  BY <1>18 DEF JoinOk, Locks, States
<1>19. CASE JoinFail
  BY <1>19 DEF JoinFail, Locks, States
<1>20. CASE LinkUp
  BY <1>20 DEF LinkUp, Locks, States
<1>21. CASE PumpBegin
  BY <1>21 DEF PumpBegin, Locks, States
<1>22. CASE PumpOk
  BY <1>22 DEF PumpOk, Locks, States
<1>23. CASE PumpGone
  BY <1>23 DEF PumpGone, Locks, States
<1>24. CASE PumpDropped
  BY <1>24 DEF PumpDropped, Locks, States
<1>25. CASE Lost
  BY <1>25 DEF Lost, Locks, LinkDown, States
<1>26. ASSUME NEW t \in {"tcpip", "ui"}, OutBegin(t) PROVE Locks'
  BY <1>26 DEF OutBegin, Locks, States
<1>27. ASSUME NEW t \in {"tcpip", "ui"}, OutSend(t) PROVE Locks'
  BY <1>27 DEF OutSend, Locks, States
<1>28. ASSUME NEW t \in {"tcpip", "ui"}, OutSent(t) PROVE Locks'
  BY <1>28 DEF OutSent, Locks, States
<1>29. ASSUME NEW t \in {"tcpip", "ui"}, OutDropped(t) PROVE Locks'
  BY <1>29 DEF OutDropped, Locks, States
<1>30. CASE UNCHANGED vars
  BY <1>30 DEF vars, Locks, States
<1> QED
  BY <1>1, <1>2, <1>3, <1>4, <1>5, <1>6, <1>7, <1>8, <1>9, <1>10, <1>11, <1>12, <1>13, <1>14,
     <1>15, <1>16, <1>17, <1>18, <1>19, <1>20, <1>21, <1>22, <1>23, <1>24, <1>25, <1>26, <1>27, <1>28,
     <1>29, <1>30
  DEF Next, NetStep, UiStep, OutStep, Finished

LEMMA ChosenNext == Locks /\ Counts /\ Chosen /\ [Next]_vars => Chosen'
<1> SUFFICES ASSUME Locks /\ Counts, Chosen, [Next]_vars PROVE Chosen'
  OBVIOUS
<1> USE DEF linkVars, cfgVars, retryVars, staVars, outVars, uiVars, listVars, envVars
<1>1. CASE RetryDue \/ DhcpBound \/ DhcpExpired \/ AirChange
  BY <1>1 DEF RetryDue, DhcpBound, DhcpExpired, AirChange, Chosen, Pending, Locks, Counts
<1>2. CASE Boot
  BY <1>2 DEF Boot, Chosen, Pending, Locks, Counts
<1>3. CASE Receive
  BY <1>3 DEF Receive, Chosen, Pending, Locks, Counts
<1>4. CASE CmdReconnect
  BY <1>4 DEF CmdReconnect, Chosen, LinkDown, Pending, Locks, Counts
<1>5. CASE CmdOff
  BY <1>5 DEF CmdOff, Chosen, LinkDown, Pending, Locks, Counts
<1>6. CASE CmdStop
  BY <1>6 DEF CmdStop, Chosen, LinkDown, Pending, Locks, Counts
<1>7. CASE PowerOff
  BY <1>7 DEF PowerOff, Chosen, Pending, Locks, Counts
<1>8. CASE CmdScan
  BY <1>8 DEF CmdScan, Chosen, LinkDown, Pending, Locks, Counts
<1>9. CASE ScanBegin
  BY <1>9 DEF ScanBegin, Chosen, Pending, Locks, Counts
<1>10. CASE ScanEnd
  BY <1>10 DEF ScanEnd, Chosen, Pending, Locks, Counts
<1>11. CASE Decide
  BY <1>11 DEF Decide, Chosen, LinkDown, WantsJoin, Pending, Locks, Counts
<1>12. CASE Wake
  BY <1>12 DEF Wake, Chosen, Pending, Locks, Counts
<1>13. CASE ConnectLock
  BY <1>13 DEF ConnectLock, Chosen, Pending, Locks, Counts
<1>14. CASE CopySsid
  BY <1>14 DEF CopySsid, Chosen, Pending, Locks, Counts
<1>15. CASE CopyPsk
  BY <1>15 DEF CopyPsk, Chosen, Pending, Locks, Counts
<1>16. CASE JoinOk
  BY <1>16 DEF JoinOk, Chosen, Pending, Locks, Counts
<1>17. CASE JoinFail
  BY <1>17 DEF JoinFail, Chosen, Pending, Locks, Counts
<1>18. CASE LinkUp
  BY <1>18 DEF LinkUp, Chosen, Pending, Locks, Counts
<1>19. CASE PumpBegin
  BY <1>19 DEF PumpBegin, Chosen, Pending, Locks, Counts
<1>20. CASE PumpOk
  BY <1>20 DEF PumpOk, Chosen, Pending, Locks, Counts
<1>21. CASE PumpGone
  BY <1>21 DEF PumpGone, Chosen, Pending, Locks, Counts
<1>22. CASE PumpDropped
  BY <1>22 DEF PumpDropped, Chosen, Pending, Locks, Counts
<1>23. CASE Lost
  BY <1>23 DEF Lost, Chosen, LinkDown, Pending, Locks, Counts
<1>24. CASE ConfigureBegin
  BY <1>24 DEF ConfigureBegin, Chosen, Pending, Locks, Counts
<1>25. CASE ConfigureWrite
  BY <1>25 DEF ConfigureWrite, Chosen, Pending, Locks, Counts
<1>26. CASE ConfigureSend
  BY <1>26, NetAssumption DEF ConfigureSend, Chosen, Send, Pending, Locks, Counts
<1>27. CASE ScanRequest
  BY <1>27 DEF ScanRequest, Chosen, Pending, Locks, Counts
<1>28. CASE ScanSend
  BY <1>28 DEF ScanSend, Chosen, Send, Pending, Locks, Counts
<1>29. CASE ScanReturn
  BY <1>29 DEF ScanReturn, Chosen, Pending, Locks, Counts
<1>30. CASE AppRuns
  BY <1>30 DEF AppRuns, Chosen, Pending, Locks, Counts
<1>31. CASE Exit
  BY <1>31 DEF Exit, Chosen, Send, Pending, Locks, Counts
<1>32. CASE ExitWait
  BY <1>32 DEF ExitWait, Chosen, Pending, Locks, Counts
<1>33. ASSUME NEW t \in {"tcpip", "ui"}, OutBegin(t) PROVE Chosen'
  BY <1>33 DEF OutBegin, Chosen, Pending, Locks, Counts
<1>34. ASSUME NEW t \in {"tcpip", "ui"}, OutSend(t) PROVE Chosen'
  BY <1>34 DEF OutSend, Chosen, Pending, Locks, Counts
<1>35. ASSUME NEW t \in {"tcpip", "ui"}, OutSent(t) PROVE Chosen'
  BY <1>35 DEF OutSent, Chosen, Pending, Locks, Counts
<1>36. ASSUME NEW t \in {"tcpip", "ui"}, OutDropped(t) PROVE Chosen'
  BY <1>36 DEF OutDropped, Chosen, Pending, Locks, Counts
<1>37. CASE UNCHANGED vars
  BY <1>37 DEF vars, Chosen, Pending, Locks, Counts
<1> QED
  BY <1>1, <1>2, <1>3, <1>4, <1>5, <1>6, <1>7, <1>8, <1>9, <1>10, <1>11, <1>12, <1>13, <1>14,
     <1>15, <1>16, <1>17, <1>18, <1>19, <1>20, <1>21, <1>22, <1>23, <1>24, <1>25, <1>26, <1>27, <1>28,
     <1>29, <1>30, <1>31, <1>32, <1>33, <1>34, <1>35, <1>36, <1>37
  DEF Next, NetStep, UiStep, OutStep, Finished

----------------------------------------------------------------------------
\* The queue as the place of scans.
LEMMA HasAppend ==
  ASSUME NEW q \in Seq(Commands), NEW c \in Commands
  PROVE  /\ Has(Append(q, c)) => Has(q) \/ c = "SCAN"
         /\ Once(q) /\ (c = "SCAN" => ~Has(q)) => Once(Append(q, c))
<1> DEFINE a == Append(q, c)
<1>1. /\ Len(a) = Len(q) + 1 /\ Len(q) \in Nat /\ a[Len(q) + 1] = c
      /\ \A i \in 1..Len(q) : a[i] = q[i]
  OBVIOUS
<1> HIDE DEF a
<1>2. \A i \in 1..Len(a) : i \in 1..Len(q) \/ i = Len(q) + 1
  BY <1>1
<1>3. Has(a) => Has(q) \/ c = "SCAN"
  BY <1>1, <1>2 DEF Has
<1>4. Once(q) /\ (c = "SCAN" => ~Has(q)) => Once(a)
  BY <1>1, <1>2 DEF Has, Once
<1> QED BY <1>3, <1>4 DEF a

LEMMA HasTail ==
  ASSUME NEW q \in Seq(Commands), q # <<>>, Once(q)
  PROVE  /\ Head(q) = "SCAN" => Has(q) /\ ~Has(Tail(q))
         /\ Has(Tail(q)) => Has(q)
         /\ Once(Tail(q))
<1> DEFINE a == Tail(q)
<1>1. /\ Len(a) = Len(q) - 1 /\ Len(q) \in Nat /\ Len(q) > 0 /\ Head(q) = q[1]
      /\ \A i \in 1..Len(a) : a[i] = q[i + 1]
  BY HeadTailProperties
<1> HIDE DEF a
<1>2. \A i \in 1..Len(a) : i + 1 \in 1..Len(q) /\ i + 1 # 1 /\ i \in Int
  BY <1>1
<1>3. 1 \in 1..Len(q)
  BY <1>1
<1>4. Has(a) => Has(q) /\ Head(q) # "SCAN"
  BY <1>1, <1>2, <1>3 DEF Has, Once
<1>5. Head(q) = "SCAN" => Has(q)
  BY <1>1, <1>3 DEF Has
<1>6. Once(a)
  <2> SUFFICES ASSUME NEW i \in 1..Len(a), NEW j \in 1..Len(a), a[i] = "SCAN", a[j] = "SCAN"
               PROVE  i = j
    BY DEF Once
  <2>1. i + 1 = j + 1
    BY <1>1, <1>2 DEF Once
  <2> QED BY <1>2, <2>1
<1> QED BY <1>4, <1>5, <1>6 DEF a

LEMMA UnderWay == ScanUnderWay <=> Has(net_q) \/ Scanning
BY DEF ScanUnderWay, Has, Scanning

LEMMA NoneIsOnce ==
  ASSUME NEW q, ~Has(q)
  PROVE  Once(q)
BY DEF Has, Once

LEMMA ScansNext == Counts /\ Scans /\ [Next]_vars => Scans'
<1> SUFFICES ASSUME Counts, Scans, [Next]_vars PROVE Scans'
  OBVIOUS
<1> USE DEF linkVars, cfgVars, retryVars, staVars, outVars, uiVars, listVars, envVars
<1>1. CASE RetryDue \/ DhcpBound \/ DhcpExpired \/ AirChange
  BY <1>1 DEF RetryDue, DhcpBound, DhcpExpired, AirChange, Scans, Scanning, Counts, Commands
<1>2. CASE Boot
  BY <1>2 DEF Boot, Scans, Scanning, Counts, Commands
<1>3. CASE Receive
  BY <1>3, HasTail DEF Receive, Scans, Scanning, Counts, Commands
<1>4. CASE CmdReconnect
  BY <1>4 DEF CmdReconnect, Scans, Scanning, Counts, Commands
<1>5. CASE CmdOff
  BY <1>5 DEF CmdOff, Scans, Scanning, Counts, Commands
<1>6. CASE CmdStop
  BY <1>6 DEF CmdStop, Scans, Scanning, Counts, Commands
<1>7. CASE PowerOff
  BY <1>7 DEF PowerOff, Scans, Scanning, Counts, Commands
<1>8. CASE CmdScan
  BY <1>8 DEF CmdScan, Scans, Scanning, Counts, Commands
<1>9. CASE ScanBegin
  BY <1>9 DEF ScanBegin, Scans, Scanning, Counts, Commands
<1>10. CASE ScanEnd
  BY <1>10 DEF ScanEnd, Scans, Scanning, Counts, Commands
<1>11. CASE Decide
  BY <1>11 DEF Decide, Scans, Scanning, Counts, Commands
<1>12. CASE Wake
  BY <1>12 DEF Wake, Scans, Scanning, Counts, Commands
<1>13. CASE ConnectLock
  BY <1>13 DEF ConnectLock, Scans, Scanning, Counts, Commands
<1>14. CASE CopySsid
  BY <1>14 DEF CopySsid, Scans, Scanning, Counts, Commands
<1>15. CASE CopyPsk
  BY <1>15 DEF CopyPsk, Scans, Scanning, Counts, Commands
<1>16. CASE JoinOk
  BY <1>16 DEF JoinOk, Scans, Scanning, Counts, Commands
<1>17. CASE JoinFail
  BY <1>17 DEF JoinFail, Scans, Scanning, Counts, Commands
<1>18. CASE LinkUp
  BY <1>18 DEF LinkUp, Scans, Scanning, Counts, Commands
<1>19. CASE PumpBegin
  BY <1>19 DEF PumpBegin, Scans, Scanning, Counts, Commands
<1>20. CASE PumpOk
  BY <1>20 DEF PumpOk, Scans, Scanning, Counts, Commands
<1>21. CASE PumpGone
  BY <1>21 DEF PumpGone, Scans, Scanning, Counts, Commands
<1>22. CASE PumpDropped
  BY <1>22 DEF PumpDropped, Scans, Scanning, Counts, Commands
<1>23. CASE Lost
  BY <1>23 DEF Lost, Scans, Scanning, Counts, Commands
<1>24. CASE ConfigureBegin
  BY <1>24 DEF ConfigureBegin, Scans, Scanning, Counts, Commands
<1>25. CASE ConfigureWrite
  BY <1>25 DEF ConfigureWrite, Scans, Scanning, Counts, Commands
<1>26. CASE ConfigureSend
  BY <1>26, HasAppend DEF ConfigureSend, Scans, Send, Scanning, Counts, Commands
<1>27. CASE ScanRequest
  BY <1>27, UnderWay, NoneIsOnce DEF ScanRequest, Scans, Scanning, Counts, Commands
<1>28. CASE ScanSend
  BY <1>28, HasAppend DEF ScanSend, Scans, Send, Scanning, Counts, Commands
<1>29. CASE ScanReturn
  BY <1>29, UnderWay DEF ScanReturn, Scans, Scanning, Counts, Commands
<1>30. CASE AppRuns
  BY <1>30 DEF AppRuns, Scans, Scanning, Counts, Commands
<1>31. CASE Exit
  BY <1>31, HasAppend DEF Exit, Scans, Send, Scanning, Counts, Commands
<1>32. CASE ExitWait
  BY <1>32 DEF ExitWait, Scans, Scanning, Counts, Commands
<1>33. ASSUME NEW t \in {"tcpip", "ui"}, OutBegin(t) PROVE Scans'
  BY <1>33 DEF OutBegin, Scans, Scanning, Counts, Commands
<1>34. ASSUME NEW t \in {"tcpip", "ui"}, OutSend(t) PROVE Scans'
  BY <1>34 DEF OutSend, Scans, Scanning, Counts, Commands
<1>35. ASSUME NEW t \in {"tcpip", "ui"}, OutSent(t) PROVE Scans'
  BY <1>35 DEF OutSent, Scans, Scanning, Counts, Commands
<1>36. ASSUME NEW t \in {"tcpip", "ui"}, OutDropped(t) PROVE Scans'
  BY <1>36 DEF OutDropped, Scans, Scanning, Counts, Commands
<1>37. CASE UNCHANGED vars
  BY <1>37 DEF vars, Scans, Scanning, Counts, Commands
<1> QED
  BY <1>1, <1>2, <1>3, <1>4, <1>5, <1>6, <1>7, <1>8, <1>9, <1>10, <1>11, <1>12, <1>13, <1>14,
     <1>15, <1>16, <1>17, <1>18, <1>19, <1>20, <1>21, <1>22, <1>23, <1>24, <1>25, <1>26, <1>27, <1>28,
     <1>29, <1>30, <1>31, <1>32, <1>33, <1>34, <1>35, <1>36, <1>37
  DEF Next, NetStep, UiStep, OutStep, Finished

----------------------------------------------------------------------------
LEMMA IInvInit == Init => IInv
<1> SUFFICES ASSUME Init PROVE IInv
  OBVIOUS
<1>1. Locks /\ Chosen
  BY DEF Init, Locks, Chosen
<1>2. Scans
  BY DEF Init, Scans, Scanning, Has, Once
<1> QED BY <1>1, <1>2, TypesInit DEF IInv

LEMMA IInvNext == IInv /\ [Next]_vars => IInv'
<1>1. TypeOK => States /\ Counts
  BY TypeParts
<1> QED BY <1>1, TypesNext, LocksNext, ChosenNext, ScansNext DEF IInv

LEMMA IInvAlways == Spec => []IInv
BY IInvInit, IInvNext, PTL DEF Spec

----------------------------------------------------------------------------
\* The types of what the service, the page and lwIP share.
THEOREM TypeCorrect == Spec => []TypeOK
<1>1. IInv => TypeOK
  BY DEF IInv
<1> QED BY <1>1, IInvAlways, PTL

\* A link that is up belongs to the network the user chose, however net_configure and
\* a join interleave and even when the full queue of net_send_cmd lost a command.
THEOREM LinkIsTheChosenOne == Spec => []LinkFollowsConfig
<1>1. IInv => LinkFollowsConfig
  BY DEF IInv, Chosen, LinkFollowsConfig
<1> QED BY <1>1, IInvAlways, PTL

\* wifi_output never hands a frame to a chip that scans, joins another network or is
\* switched off, though it tests link_on before it waits for wlan_lock.
THEOREM FramesStayOnTheirNetwork == Spec => []FrameOnItsNetwork
<1>1. IInv => FrameOnItsNetwork
  BY DEF IInv, Locks, FrameOnItsNetwork
<1> QED BY <1>1, IInvAlways, PTL

\* net_scan gives up after 25 s whatever the net task does: still no scan, forgotten or
\* waited for, writes entries the page shows, and a late scan_done does not hand out
\* the list of a scan that is still to come, unless net_scan was called while an
\* earlier scan was still to be done.
THEOREM ScanListIsQuiet == Spec => []ListIsQuiet
<1>1. IInv => ListIsQuiet
  BY UnderWay DEF IInv, Scans, ListIsQuiet
<1> QED BY <1>1, IInvAlways, PTL
=============================================================================
