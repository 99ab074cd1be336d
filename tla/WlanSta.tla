------------------------------ MODULE WlanSta ------------------------------
(***************************************************************************)
(* The WPA2 station (wlan.h): wlan_connect with its scan, authentication,  *)
(* association and 4-way handshake, the group and pairwise rekeying after  *)
(* it, and the key table of the chip, against an access point over a radio *)
(* link that keeps the order of frames and loses some of them.             *)
(*                                                                         *)
(* A pairwise key is the triple of what it is derived from (passphrase     *)
(* right or not, the two nonces); a MIC is the key it was made with.       *)
(* Nonces and group keys are compared only, never ordered, so a fresh one  *)
(* is any that is nowhere in use.  The access point is external: it        *)
(* repeats its messages, takes an answer to any copy, and gives up with a  *)
(* deauthentication; it announces WPA2 and uses CCMP.  The CCMP packet     *)
(* number and the 2 s or more between two joins are left out.              *)
(***************************************************************************)
EXTENDS Integers, Sequences, FiniteSets

CONSTANTS
  Nonces,      \* pool of nonces, larger than the number in use at a time
  Gtks,        \* pool of group keys, likewise
  Cap,         \* frames under way in one direction
  ApTries,     \* times the access point sends one message
  MaxTrouble,  \* bound on lost frames, answers later than a timeout, refusals,
               \* unprovoked deauthentications, and reconnects and scans of the user
  MaxRekeys    \* bound on rekeyings the access point begins

(* Nonces have 256 bits, group keys 128: a random one is fresh.  In use at *)
(* a time are five nonces of every frame under way (its own and those of   *)
(* its two keys) and ten of the station and the access point.              *)
ASSUME StaAssumption ==
  /\ Nonces \subseteq Nat \ {0} /\ IsFiniteSet(Nonces)
  /\ Gtks \subseteq Nat \ {0} /\ IsFiniteSet(Gtks)
  /\ Cardinality(Nonces) > 10 * Cap + 10 /\ Cardinality(Gtks) > 2 * Cap + 3
  /\ Cap \in Nat \ {0} /\ ApTries \in Nat \ {0}
  /\ MaxTrouble \in Nat /\ MaxRekeys \in Nat

VARIABLES
  state,       \* S_IDLE, S_SCAN, ...
  jpc, tries,  \* where wlan_connect is; "up": the net task pumps
  psk_ok,      \* the passphrase is the network's
  snonce, ptk, gtk,
  wlan_keys_on,
  cam,         \* the chip's key table: pairwise and group key
  toSta, toAp, \* frames under way
  ap,          \* the access point's session with this station
  trouble, rekeys

keyVars == <<snonce, ptk, gtk, wlan_keys_on, cam>>
envVars == <<trouble, rekeys>>
vars == <<state, jpc, tries, psk_ok, keyVars, toSta, toAp, ap, envVars>>

Key(ok, an, sn) == [ok |-> ok, an |-> an, sn |-> sn]
NoKey == Key(FALSE, 0, 0)

\* A frame: its kind, the key it is encrypted with, the key of its MIC, its
\* nonce (a response: its status) and its group key (an answer: the one it
\* answers, by replay counter).
Frame(k, enc, mic, n, g) == [k |-> k, enc |-> enc, mic |-> mic, n |-> n, gtk |-> g]
Plain(k) == Frame(k, NoKey, NoKey, 0, 0)

FramesOf(s) == {s[i] : i \in 1..Len(s)}
Flying == FramesOf(toSta) \cup FramesOf(toAp)

KeysInUse ==
  {ptk, cam.tk, ap.ptk, ap.tk} \cup {m.enc : m \in Flying} \cup {m.mic : m \in Flying}
FreshNonces ==
  Nonces \ ({snonce, ap.an} \cup {m.n : m \in Flying}
            \cup {x.an : x \in KeysInUse} \cup {x.sn : x \in KeysInUse})
FreshGtks == Gtks \ ({gtk, cam.gtk, ap.gtk} \cup {m.gtk : m \in Flying})
OneOf(S) == CHOOSE x \in S : \A y \in S : x <= y

\* Mutant: a full ring is overrun.
PutOverrun(s, m) == Append(s, m)

\* A frame that finds the receive ring or the air full is lost.
Put(s, m) == IF Len(s) < Cap THEN Append(s, m) ELSE s

Exchanging == toSta # <<>> \/ toAp # <<>>
Mishap == trouble < MaxTrouble /\ trouble' = trouble + 1

\* A timeout is longer than a round trip, unless the answer is late.
Timeout   == IF Exchanging \/ ap.st \in {"m1", "m3"} THEN Mishap ELSE UNCHANGED trouble
ApTimeout == IF Exchanging THEN Mishap ELSE UNCHANGED trouble

----------------------------------------------------------------------------
(* Receiving: handle_frame, handle_data, handle_eapol.  All frames of a    *)
(* pump are handled before wlan_listen looks at the state again.           *)

Listening == jpc \notin {"idle", "end"}

\* Until the handshake is done plain frames only; then also what the chip
\* could decrypt.
Accepts(m) == m.enc = NoKey \/ (state = "DONE" /\ wlan_keys_on /\ m.enc = cam.tk)

Handles(m) ==
  CASE m.k = "authresp"  -> state = "AUTH"
    [] m.k = "assocresp" -> state = "ASSOC"
    [] m.k = "deauth"    -> state \notin {"IDLE", "SCAN", "SCANALL"}
    [] OTHER             -> Accepts(m)

Hear(k) ==
  /\ Listening
  /\ toSta # <<>> /\ Head(toSta).k = k /\ Handles(Head(toSta))
  /\ toSta' = Tail(toSta)

\* Sent with the keys in use once they are in the chip.
Answer(k, mic, n, g) ==
  toAp' = Put(toAp, Frame(k, IF wlan_keys_on THEN cam.tk ELSE NoKey, mic, n, g))

Rest == UNCHANGED <<jpc, tries, psk_ok, ap, envVars>>

RxIgnored ==
  /\ Listening
  /\ toSta # <<>> /\ ~Handles(Head(toSta))
  /\ toSta' = Tail(toSta)
  /\ UNCHANGED <<state, keyVars, toAp>> /\ Rest

\* A beacon of the network; also while the answer to the deauthentication is
\* awaited in state S_SCAN.
RxBeacon ==
  /\ Listening /\ state = "SCAN"
  /\ state' = "AUTH"
  /\ UNCHANGED <<keyVars, toSta, toAp>> /\ Rest

\* A status other than 0 ends the join.
RxRefused ==
  /\ Hear("authresp") \/ Hear("assocresp")
  /\ Head(toSta).n # 0
  /\ state' = "FAIL"
  /\ UNCHANGED <<keyVars, toAp>> /\ Rest

RxAuth ==
  /\ Hear("authresp") /\ Head(toSta).n = 0
  /\ state' = "ASSOC"
  /\ toAp' = Put(toAp, Plain("assoc"))
  /\ UNCHANGED keyVars /\ Rest

RxAssoc ==
  /\ Hear("assocresp") /\ Head(toSta).n = 0
  /\ state' = "4WAY"
  /\ UNCHANGED <<keyVars, toAp>> /\ Rest

\* Mutant: a deauthentication counts only during the join.
RxDeauthInJoin ==
  /\ Hear("deauth")
  /\ state' = IF state = "DONE" THEN "DONE" ELSE "FAIL"
  /\ UNCHANGED <<keyVars, toAp>> /\ Rest

RxDeauth ==
  /\ Hear("deauth")
  /\ state' = "FAIL"
  /\ UNCHANGED <<keyVars, toAp>> /\ Rest

\* Message 1: a new SNonce if this is a rekeying, the PTK, message 2.
RxM1 ==
  /\ Hear("m1")
  /\ snonce' = IF wlan_keys_on THEN OneOf(FreshNonces) ELSE snonce
  /\ ptk' = Key(psk_ok, Head(toSta).n, snonce')
  /\ Answer("m2", ptk', snonce', 0)
  /\ UNCHANGED <<state, gtk, wlan_keys_on, cam>> /\ Rest

\* wlan_install_keys: the table is cleared, then written.
Installed(g) == [tk |-> ptk, gtk |-> g]

\* Mutant: the new keys stay out of the chip in a rekeying.
RxM3NoInstall ==
  /\ Hear("m3") /\ Head(toSta).mic = ptk
  /\ gtk' = Head(toSta).gtk
  /\ Answer("m4", ptk, 0, 0)
  /\ state' = "DONE"
  /\ UNCHANGED <<snonce, ptk, wlan_keys_on, cam>> /\ Rest

\* Message 3 with the right MIC: message 4 under the old keys, then the new ones.
RxM3 ==
  /\ Hear("m3") /\ Head(toSta).mic = ptk
  /\ gtk' = Head(toSta).gtk
  /\ Answer("m4", ptk, 0, 0)
  /\ cam' = IF wlan_keys_on THEN Installed(gtk') ELSE cam
  /\ state' = "DONE"
  /\ UNCHANGED <<snonce, ptk, wlan_keys_on>> /\ Rest

RxM3Wrong ==
  /\ Hear("m3") /\ Head(toSta).mic # ptk
  /\ state' = "FAIL"
  /\ UNCHANGED <<keyVars, toAp>> /\ Rest

\* Mutant: the group key is kept but not written to the chip.
RxG1NoInstall ==
  /\ Hear("g1")
  /\ IF Head(toSta).mic = ptk
     THEN /\ gtk' = Head(toSta).gtk
          /\ cam' = cam
          /\ Answer("g2", ptk, 0, gtk')
     ELSE UNCHANGED <<gtk, cam, toAp>>
  /\ UNCHANGED <<state, snonce, ptk, wlan_keys_on>> /\ Rest

\* The group key goes into the chip at once if the keys are in use.
RxG1 ==
  /\ Hear("g1")
  /\ IF Head(toSta).mic = ptk
     THEN /\ gtk' = Head(toSta).gtk
          /\ cam' = IF wlan_keys_on THEN [cam EXCEPT !.gtk = gtk'] ELSE cam
          /\ Answer("g2", ptk, 0, gtk')
     ELSE UNCHANGED <<gtk, cam, toAp>>
  /\ UNCHANGED <<state, snonce, ptk, wlan_keys_on>> /\ Rest

Rx == RxIgnored \/ RxRefused \/ RxAuth \/ RxAssoc \/ RxDeauth \/ RxM1 \/ RxM3 \/ RxM3Wrong \/ RxG1

----------------------------------------------------------------------------
(* wlan_connect.                                                           *)

Go(pc, n) == jpc' = pc /\ tries' = n
JoinRest  == UNCHANGED <<psk_ok, toSta, ap, rekeys>>

\* The loops of wlan_connect around wlan_listen: at most n times, while the
\* state is s.
Again(s, n) == state = s /\ tries < n /\ Timeout
Over(s, n)  == IF state = s THEN tries = n /\ Timeout ELSE UNCHANGED trouble

\* The next wait of wlan_connect, if the state calls for it.
Proceed == CASE state = "ASSOC" /\ jpc = "auth" -> Go("assoc", 1)
             [] state = "4WAY"                  -> Go("4way", 1)
             [] OTHER                           -> Go("end", 0)

\* wlan_scan on the user's order, beginning and end.
ScanAll ==
  /\ jpc \in {"idle", "up"} /\ Mishap
  /\ wlan_keys_on' = FALSE
  /\ cam' = [tk |-> NoKey, gtk |-> 0]
  /\ state' = "SCANALL"
  /\ Go("scanall", 0)
  /\ UNCHANGED <<psk_ok, snonce, ptk, gtk, toSta, toAp, ap, rekeys>>

ScanAllEnd ==
  /\ jpc = "scanall" /\ UNCHANGED trouble
  /\ state' = "IDLE"
  /\ Go("idle", 0)
  /\ UNCHANGED <<keyVars, toAp>> /\ JoinRest

\* wlan_keys_off, a new SNonce, no group key.  The net task calls it when it is
\* not connected, or on the user's order.
Connect ==
  /\ \/ jpc = "idle" /\ UNCHANGED trouble
     \/ jpc = "up" /\ Mishap
  /\ wlan_keys_on' = FALSE
  /\ cam' = [tk |-> NoKey, gtk |-> 0]
  /\ snonce' = OneOf(FreshNonces)
  /\ gtk' = 0
  /\ state' = "SCAN"
  /\ Go("scan", 0)
  /\ UNCHANGED <<psk_ok, ptk, toSta, toAp, ap, rekeys>>

\* All channels twice without a beacon, or a beacon and then a deauthentication.
NotFound ==
  /\ jpc = "scan" /\ state # "AUTH" /\ Over("SCAN", 0)
  /\ state' = "IDLE"
  /\ Go("idle", 0)
  /\ UNCHANGED <<keyVars, toAp>> /\ JoinRest

Found ==
  /\ jpc = "scan" /\ state = "AUTH" /\ UNCHANGED trouble
  /\ state' = "SCAN"
  /\ toAp' = Put(toAp, Plain("deauth"))
  /\ Go("forget", 0)
  /\ UNCHANGED keyVars /\ JoinRest

\* The 100 ms are over: whatever was heard, authenticate.
Authenticate ==
  /\ jpc = "forget" /\ Timeout
  /\ state' = "AUTH"
  /\ toAp' = Put(toAp, Plain("auth"))
  /\ Go("auth", 1)
  /\ UNCHANGED keyVars /\ JoinRest

AuthAgain ==
  /\ jpc = "auth" /\ Again("AUTH", 3)
  /\ toAp' = Put(toAp, Plain("auth"))
  /\ Go("auth", tries + 1)
  /\ UNCHANGED <<state, keyVars>> /\ JoinRest

AuthEnd ==
  /\ jpc = "auth" /\ Over("AUTH", 3)
  /\ Proceed
  /\ UNCHANGED <<state, keyVars, toAp>> /\ JoinRest

AssocAgain ==
  /\ jpc = "assoc" /\ Again("ASSOC", 3)
  /\ toAp' = Put(toAp, Plain("assoc"))
  /\ Go("assoc", tries + 1)
  /\ UNCHANGED <<state, keyVars>> /\ JoinRest

AssocEnd ==
  /\ jpc = "assoc" /\ Over("ASSOC", 3)
  /\ Proceed
  /\ UNCHANGED <<state, keyVars, toAp>> /\ JoinRest

\* Mutant: the wait for the handshake has no end.
FourWayAgainForever ==
  /\ jpc = "4way" /\ Again("4WAY", 2)
  /\ Go("4way", 1)
  /\ UNCHANGED <<state, keyVars, toAp>> /\ JoinRest

FourWayAgain ==
  /\ jpc = "4way" /\ Again("4WAY", 2)
  /\ Go("4way", tries + 1)
  /\ UNCHANGED <<state, keyVars, toAp>> /\ JoinRest

FourWayEnd ==
  /\ jpc = "4way" /\ Over("4WAY", 2)
  /\ Go("end", 0)
  /\ UNCHANGED <<state, keyVars, toAp>> /\ JoinRest

\* Connected: do_connect puts the keys into the chip.
Joined ==
  /\ jpc = "end" /\ state = "DONE" /\ UNCHANGED trouble
  /\ cam' = Installed(gtk)
  /\ wlan_keys_on' = TRUE
  /\ Go("up", 0)
  /\ UNCHANGED <<state, snonce, ptk, gtk, toAp>> /\ JoinRest

JoinFailed ==
  /\ jpc = "end" /\ state # "DONE" /\ UNCHANGED trouble
  /\ state' = "IDLE"
  /\ Go("idle", 0)
  /\ UNCHANGED <<keyVars, toAp>> /\ JoinRest

\* The net task sees state # S_DONE after a pump.
LinkLost ==
  /\ jpc = "up" /\ state # "DONE" /\ UNCHANGED trouble
  /\ Go("idle", 0)
  /\ UNCHANGED <<state, keyVars, toAp>> /\ JoinRest

\* wlan_send: lwIP's traffic.
Data ==
  /\ jpc = "up" /\ state = "DONE" /\ ~Exchanging /\ UNCHANGED trouble
  /\ Answer("data", NoKey, 0, 0)
  /\ UNCHANGED <<state, jpc, tries, keyVars>> /\ JoinRest

JoinStep ==
  \/ NotFound \/ Found \/ Authenticate \/ AuthAgain \/ AuthEnd
  \/ AssocAgain \/ AssocEnd \/ FourWayAgain \/ FourWayEnd \/ Joined \/ JoinFailed
  \/ LinkLost \/ ScanAllEnd

----------------------------------------------------------------------------
(* The access point.                                                       *)

NoSession(g) ==
  [st |-> "none", an |-> 0, ptk |-> NoKey, tk |-> NoKey, gtk |-> g, sent |-> 0]
Sta == <<state, jpc, tries, psk_ok, keyVars>>

ApSends(m) == toSta' = Put(toSta, m)

\* An answer to the message it last sent, or to an earlier copy.
Answers(m) ==
  /\ m.enc = ap.tk
  /\ \/ m.k = "m2" /\ ap.st = "m1" /\ m.mic = Key(TRUE, ap.an, m.n)
     \/ m.k = "m4" /\ ap.st = "m3" /\ m.mic = ap.ptk
     \/ m.k = "g2" /\ ap.st = "g1" /\ m.mic = ap.ptk /\ m.gtk = ap.gtk

Stranger(m) ==
  \/ m.k = "assoc" /\ ap.st = "none"
  \/ m.k = "data" /\ ap.st \in {"none", "authed"}

ApReceive ==
  /\ toAp # <<>> /\ toAp' = Tail(toAp)
  /\ LET m == Head(toAp) IN
       \/ /\ m.k = "deauth"
          /\ ap' = NoSession(ap.gtk) /\ UNCHANGED toSta
       \/ /\ m.k = "auth"
          /\ ap' = [NoSession(ap.gtk) EXCEPT !.st = "authed"]
          /\ ApSends(Plain("authresp"))
       \/ /\ m.k = "assoc" /\ ap.st # "none"
          /\ ap' = [NoSession(ap.gtk) EXCEPT !.st = "m1", !.an = OneOf(FreshNonces)]
          /\ ApSends(Plain("assocresp"))
       \/ /\ Stranger(m)
          /\ ApSends(Plain("deauth")) /\ UNCHANGED ap
       \/ /\ Answers(m) /\ m.k = "m2"
          /\ ap' = [ap EXCEPT !.st = "m3", !.ptk = m.mic, !.sent = 0] /\ UNCHANGED toSta
       \/ /\ Answers(m) /\ m.k \in {"m4", "g2"}
          /\ ap' = [ap EXCEPT !.st = "open", !.tk = ap.ptk, !.sent = 0] /\ UNCHANGED toSta
       \/ /\ m.k \in {"m2", "m4", "g2", "data"} /\ ~Answers(m) /\ ~Stranger(m)
          /\ UNCHANGED <<ap, toSta>>
  /\ UNCHANGED <<Sta, envVars>>

\* Too many stations, or still bound to an old session.
ApRefuse ==
  /\ toAp # <<>> /\ Head(toAp).k \in {"auth", "assoc"} /\ Mishap
  /\ toAp' = Tail(toAp)
  /\ ap' = NoSession(ap.gtk)
  /\ ApSends(Frame(IF Head(toAp).k = "auth" THEN "authresp" ELSE "assocresp", NoKey, NoKey, 1, 0))
  /\ UNCHANGED <<Sta, rekeys>>

\* The message the access point is waiting to have answered.
ApMessage ==
  CASE ap.st = "m1" -> Frame("m1", ap.tk, NoKey, ap.an, 0)
    [] ap.st = "m3" -> Frame("m3", ap.tk, ap.ptk, 0, ap.gtk)
    [] ap.st = "g1" -> Frame("g1", ap.tk, ap.ptk, 0, ap.gtk)

ApTimer ==
  /\ ap.st \in {"m1", "m3", "g1"}
  /\ IF ap.sent > 0 THEN ApTimeout ELSE UNCHANGED trouble
  /\ IF ap.sent < ApTries
     THEN ap' = [ap EXCEPT !.sent = @ + 1] /\ ApSends(ApMessage)
     ELSE ap' = NoSession(ap.gtk) /\ ApSends(Plain("deauth"))
  /\ UNCHANGED <<Sta, toAp, rekeys>>

ApRekey ==
  /\ ap.st = "open" /\ rekeys < MaxRekeys
  /\ rekeys' = rekeys + 1
  /\ \/ ap' = [ap EXCEPT !.st = "m1", !.an = OneOf(FreshNonces)]
     \/ ap' = [ap EXCEPT !.st = "g1", !.gtk = OneOf(FreshGtks)]
  /\ UNCHANGED <<Sta, toSta, toAp, trouble>>

\* A frame is lost, or the access point drops its stations.
Trouble ==
  /\ Mishap
  /\ \/ toSta # <<>> /\ toSta' = Tail(toSta) /\ UNCHANGED <<toAp, ap>>
     \/ toAp # <<>> /\ toAp' = Tail(toAp) /\ UNCHANGED <<toSta, ap>>
     \/ ap' = NoSession(ap.gtk) /\ ApSends(Plain("deauth")) /\ UNCHANGED toAp
  /\ UNCHANGED <<Sta, rekeys>>

----------------------------------------------------------------------------
Init ==
  /\ state = "IDLE" /\ jpc = "idle" /\ tries = 0
  /\ psk_ok \in BOOLEAN
  /\ snonce = 0 /\ ptk = NoKey /\ gtk = 0
  /\ wlan_keys_on = FALSE /\ cam = [tk |-> NoKey, gtk |-> 0]
  /\ toSta = <<>> /\ toAp = <<>>
  /\ ap = NoSession(OneOf(Gtks))
  /\ trouble = 0 /\ rekeys = 0

Next ==
  \/ Rx \/ RxBeacon
  \/ Connect \/ ScanAll \/ JoinStep \/ Data
  \/ ApReceive \/ ApRefuse \/ ApTimer \/ ApRekey \/ Trouble

Spec == Init /\ [][Next]_vars

\* The net task retries and pumps, beacons come every 100 ms, the access point
\* answers.  Connect is the retry of an idle service.
Fairness ==
  /\ WF_vars(Rx) /\ SF_vars(RxBeacon)
  /\ WF_vars(jpc = "idle" /\ Connect)
  /\ WF_vars(JoinStep)
  /\ WF_vars(Data)
  /\ WF_vars(ApReceive) /\ SF_vars(ApTimer)

FairSpec == Spec /\ Fairness

----------------------------------------------------------------------------
(* Properties.                                                             *)

AllKeys == [ok : BOOLEAN, an : Nonces \cup {0}, sn : Nonces \cup {0}]
Frames == [k : {"deauth", "auth", "authresp", "assoc", "assocresp", "m1", "m2", "m3",
                "m4", "g1", "g2", "data"},
           enc : AllKeys, mic : AllKeys, n : Nonces \cup {0, 1}, gtk : Gtks \cup {0}]

\* Types of the station's variables, the frames and the session; the loops of
\* wlan_connect stay within their tries, the frames within the receive ring.
TypeOK ==
  /\ state \in {"IDLE", "SCAN", "SCANALL", "AUTH", "ASSOC", "4WAY", "DONE", "FAIL"}
  /\ jpc \in {"idle", "scanall", "scan", "forget", "auth", "assoc", "4way", "end", "up"}
  /\ tries \in 0..3
  /\ psk_ok \in BOOLEAN /\ wlan_keys_on \in BOOLEAN
  /\ snonce \in Nonces \cup {0} /\ ptk \in AllKeys /\ gtk \in Gtks \cup {0}
  /\ cam \in [tk : AllKeys, gtk : Gtks \cup {0}]
  /\ toSta \in Seq(Frames) /\ Len(toSta) <= Cap
  /\ toAp \in Seq(Frames) /\ Len(toAp) <= Cap
  /\ ap \in [st : {"none", "authed", "m1", "m3", "g1", "open"}, an : Nonces \cup {0},
             ptk : AllKeys, tk : AllKeys, gtk : Gtks \cup {0}, sent : 0..ApTries]
  /\ trouble \in 0..MaxTrouble /\ rekeys \in 0..MaxRekeys

\* While the link is up and the access point's session is, the pairwise key in
\* the chip is the one the access point uses; only between message 4 and its
\* arrival is it the one the access point is about to use.
KeyShared ==
  jpc = "up" /\ state = "DONE" /\ ap.tk # NoKey =>
    cam.tk = ap.tk \/ (ap.st = "m3" /\ cam.tk = ap.ptk)

\* Whatever the order of pairwise and group rekeyings and of repeated frames,
\* the station decrypts broadcasts: once the access point has its answer, its
\* group key is in the chip.
GroupAgrees ==
  jpc = "up" /\ state = "DONE" /\ ap.st = "open" => cam.gtk = ap.gtk

\* wlan_connect and wlan_scan return, whatever the access point does.
JoinReturns == jpc \notin {"idle", "up"} ~> jpc \in {"idle", "up"}

\* With the right passphrase the station ends up on the network with keys that
\* agree, also after lost messages 4, lost deauthentications and failed
\* rekeyings: the net task's retries get there.
Connected ==
  psk_ok => <>[](/\ jpc = "up" /\ state = "DONE" /\ ap.st = "open"
                 /\ cam = [tk |-> ap.tk, gtk |-> ap.gtk])

\* The net task takes a state other than S_DONE for "the access point dropped
\* us" (netsvc.c): the station itself never ends a link, also not in a
\* rekeying.
RekeyKeepsLink ==
  [][jpc = "up" /\ state = "DONE" /\ state' = "FAIL" => Head(toSta).k = "deauth"]_vars
=============================================================================
