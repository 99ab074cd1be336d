# NCMIPS5874: TLA+ models of the NCAPPS system

NCMIPS5874 turns a MIPS set-top box into a small computer: programs started
from U-Boot, an SDK, and a *launcher* that runs FreeRTOS underneath its menu
and offers background music, USB hot-plug and WiFi to the apps it starts (the
"system", `launcher/system.c`). These modules model the parts of that system
in which several tasks, a removable stick, a radio link and crashing apps meet.

## 1. Inventory

One core; FreeRTOS with strict priorities: music 4, usb 3, tcpip 3, net 2
(1 while it starts the chip or joins), ui 1. Apps are plain code called by the
ui task; they have a runtime (`sdk/runtime.c`) of their own and reach the
system through a table of functions (`sdk/sys.h`, `@sys=`).

| Component | State | Operations | Interacts with |
|---|---|---|---|
| Background music (`launcher/system.c`) | `m_state`, song list, open stream, `out_on`, `app_audio`, `music_q` | commands PLAY PAUSE STOP NEXT CLAIM WAKE HANDOFF; 10 ms pump; claim / release | apps (audio claim), usb task (generation), stick (`usb_mutex`), crash screen |
| Stick (`sdk/runtime.c`, `usbfat.h`) | `mounted`, `mounted_gen`, `storage_gen`, `ufs_lost`, `stick_ok`, FAT and folder caches, streams | `sdk_storage_poll`, `mount`, open / read / overwrite, sector calls for apps | every task, under `usb_mutex`; an app keeps a second copy of the file system state |
| Network service (`net/netsvc.c`, `launcher/wifiui.c`) | `ns`, `link_on`, `cfg_*`, `net_q`, retry time | join, scan, reconfigure, supervise, stop; frames in and out; app sockets | lwIP (core lock), chip (`wlan_lock`), settings page |
| WPA2 station (`wlan.h`) | join state, keys, packet number | scan, authenticate, associate, 4-way and group handshake | access point, chip |
| Launcher (`launcher/launcher.c`) | menu, settings, crash screen | launch, crash return, standby, autostart, EXIT | all of the above |
| SDK runtime (`sdk/runtime.c`, `ir.h`) | last key, time of the press, saver, millisecond count | key decoding and repeat, saver, `get_timer`, config files | launcher and every app have a copy of it each |
| FreeRTOS port (`rtos/port/port.c`) | CP0 Compare, tick period | tick, start and end of the scheduler | timer of the runtime, U-Boot |
| EHCI driver (`ehci.h`) | ring of descriptors, queue head, `rx_next` | start, get, put, restart after an error, reset | controller (shared memory), data cache, net task |
| Stand-alone network stack (`netstack.h`) | one TCP connection, ARP, DHCP, DNS | connect, write, read | `wlan.h`, stand-alone tools |
| C library (`sdk/libc/libc.c`) | list of blocks, file cache | `malloc`, `free`, `realloc`, `fopen`, `fclose`, reset | apps, launcher |

What is hard to get right, and to test on the box:

* the ui task can be overtaken between any two statements by music, usb, net
  or tcpip, but never the other way round while they are runnable;
* the stick may be pulled, put back, swapped or lose contact at any moment,
  while the launcher and an app keep two independent mounts of it;
* an app may crash anywhere, and the launcher goes on by `longjmp`;
* queues (8 entries) drop commands after 100 ms; waits end by timeout (claim
  200 ticks, scan 25 s, stop 1 s, frame 200 ms);
* variables are sampled by one task and cleared by another (`ufs_lost`,
  `link_on`, `cfg_*`);
* the USB controller works on descriptors and buffers in RAM without a lock or
  an interrupt, and the buffers are cached;
* Count, Compare and TCP sequence numbers wrap, and Compare changes hands;
* launcher and app are two images with a key reader and a saver each, whose
  time stamps grow old while the other one runs.

`PROJECT.json` lists every component (also those that are not modelled, with
the reason) and the hazards that matter most, each at its line.

## 2. Modules

| Module | What it models |
|---|---|
| `Music` | music task, audio ownership, apps and U-Boot programs, crashes, end of the system |
| `MusicProofs` | inductive invariant and theorems about `Music` |
| `Storage` | the socket, the usb task, file operations of the launcher, an app's runtime and its sector calls |
| `StorageProofs` | inductive invariant and theorems about `Storage` |
| `NetSvc` | net task, settings page, `wifi_output`, DHCP, EXIT |
| `NetSvcProofs` | inductive invariant and theorems about `NetSvc` |
| `WlanSta` | WPA2 station, its key table, and an access point over a lossy link |
| `WlanStaProofs` | inductive invariant and theorems about `WlanSta` |
| `RxQueue` | abstract: what the receive side of `ehci.h` promises, a bounded queue of frames |
| `EhciRing` | receive ring, data cache, driver and controller; implements `RxQueue` |
| `EhciRingProofs` | inductive invariant of `EhciRing`, and the proof that it implements `RxQueue` |
| `Clock` | Count and Compare between U-Boot's `get_timer`, the FreeRTOS tick and `tm_get_timer` |
| `ClockProofs` | inductive invariant and theorems about `Clock` |
| `NetTcp` | TCP client of `netstack.h` and `rtlhttp.c` against a server over an unreliable network |
| `NetTcpProofs` | inductive invariant and theorems about `NetTcp` |
| `Keys` | remote control, `ir_poll`, `sdk_key_read`, screen saver, `sdk_key_poll` and the launcher's loops |
| `KeysProofs` | two inductive invariants and theorems about `Keys` |
| `Heap` | `malloc`, `free`, `realloc` over several regions, file cache of `fopen` |
| `MC...` | instances for TLC |

`NetSvc` takes the outcomes of `WlanSta` for granted, `WlanSta` receives
through what `EhciRing` implements; `Music` and `Storage` share the storage
generation, `Music` and `Keys` the life of an app.

Definitions whose comment starts with "Mutant:" are plausible mistakes in the
operator that follows. They are in no next-state relation; replacing the
operator by its mutant must break the property that guards it.

### Music

`music_entry` is a loop with three control points (`mpc`): waiting for a
command or the 10 ms timeout, carrying out a command, reading the stick. The
local `playing`, computed *before* the wait and used after it, is a variable of
the model. The ui task walks through menu, app, claim, sector call, crash
screen. `UiRuns` is the scheduling rule: ui steps happen only while the music
task is blocked, either on its empty queue or on `usb_mutex`. Songs are indices,
a stream is the storage generation it was opened on, and which file opens is a
nondeterministic choice (`PlayFrom`). `hw` records who last started the audio
block. A U-Boot program (`kind = "legacy"`) runs with the scheduler suspended.

### Storage

Every insertion of a stick has a number; `dev` is the insertion that U-Boot's
USB stack has enumerated, so `Answers` says when a transfer can complete. The
data is reduced to its origin: `geo`, `ageo` and the `from` field of a stream
are the sets of insertions whose sectors went into the host's mount, the app's
mount and an open file. An operation that *succeeds* with sectors of more than
one insertion leaves its kind in `mixed`. The host holds `usb_mutex` for a whole
operation; the app's operations are split into sector calls, and the usb task
may run in between. The app's own `ufs_lost` is left out: a failed call ends the
operation and the next `mount ()` clears it.

One timing assumption is made explicit (`stalled`): while a hand changes the
stick, and during the 800 ms settle time, an app in the middle of a file
operation gets to its next sector call. The work between two calls is far below
that, and the net task lowers its priority for its long computations.

### NetSvc

The net task's loop is drawn out into drain, command, decide, connect, pump and
supervise steps, with the blocking points (`wlan_lock`, lwIP's core lock,
delays) as control points; steps between them are atomic for the ui task
because net has the higher priority, except while it joins at the ui's own
priority: there the copies of SSID and passphrase interleave with
`net_configure` writing them. `wlan.h` is the outcome of a join, scan or pump. A
network's right passphrase is the network's own name, so a join succeeds
exactly with a matching pair. Timers are booleans (`due`) that become true at any
time. No wait of the ui task is tied to the net task's progress: `net_scan` may
give up, `net_send_cmd` drop its command into a full queue and EXIT go on whatever
the net task does, so a scan may run, and its `scan_done` come, long after the page
has gone on without a list. `shown` is `naps > 0` of the page, `overlap` a
history variable: the page asked for a scan while an earlier one was still to be
done.

### WlanSta

The outcomes that `NetSvc` takes for granted are drawn out here. `jpc` is the
place of `wlan_connect` (scan, forget the old session, authenticate, associate,
4-way handshake), `state` the variable that `handle_frame` and `handle_eapol`
change while `wlan_listen` waits; a pump handles all its frames before the state
is looked at again. A pairwise key is the triple it is derived from, a MIC the
key it was computed with, and an encrypted frame carries the key the receiver
needs. Nonces and group keys are only compared, so a fresh one is taken from
those not in use anywhere: the station may retry for ever in a finite model.
`StaAssumption` makes the pools larger than what can be in use at a time; the real
ones have 2^256 nonces and 2^128 keys.
Frames stay in order; a frame lost, an answer that comes after the timeout, a
refusal, an unprovoked deauthentication and an order of the user are mishaps,
bounded by `MaxTrouble`. The access point (external) behaves like hostapd: it
repeats messages, accepts the answer to any copy, uses the pairwise key after
message 4, deauthenticates when it gives up or hears a station it does not know.

### RxQueue and EhciRing

A qTD is its token, the overlay of the queue head its current and next qTD and
its state. The driver's operations are split where the controller can come in
between: `ehci_rx_arm` (flush and token zero, then the token), `ehci_qh_start`
(two writes), `ehci_rx_get` and `ehci_rx_put`. The controller (external) follows
the EHCI rules: it goes on with an active qTD, writes data, then the status, and
halts on an error. `mem` is what is in RAM, `line` what the data cache has of a
buffer: the handler reads through it, `mic_ok` makes lines dirty, and `Evict`
writes them back at any time. Under the mapping `queue <- FilledFrames`,
`held <- seen` every behaviour is one of `RxQueue`: frames are handed out once,
in order and unspoilt. `errors` and `resets` are part of the mapping, so a frame
that is never handed out is accounted for by a transfer error, one at most by
each, or by a reset of the controller.

### Clock

Time passes in counts, and `true_ms`, `true_sub` follow it without ever being
read by the code. `prvSetCompare` is a write and a check with `Count` running in
between, `tm_get_timer` a read and an update. `mode` says who owns `Compare`:
U-Boot, nobody after `sdk_timer_own`, the port, or nobody while a U-Boot program
runs with the tick masked.

### NetTcp

The program of `rtlhttp.c` is one sequence (`pc`): connect, write piece by
piece, read. Segments are a set: any may be lost, stay and come again, or be
overtaken. A segment carries its sequence number modulo `SeqMod` and, for the
properties only, the true offset of its data. The server (external) acknowledges,
repeats from the first unacknowledged unit with another cut into segments,
sends its FIN with or behind the data, and may reset. The time of waits is not
counted: a wait may end while the answer is under way.

### Keys

One step of time is a frame period of the remote (108 ms). Of two frames in a
row at most one is lost, which is what `IR_HOLD_MS` allows for. Each image
(`launcher`, `app`) has its own `ir_*`, `press_ms` and saver variables as ages;
with the system running the app reads through the launcher's reader
(`sdk_key_source`). `place` is the loop that polls: countdown, menu, about page,
app, crash screen, standby. `fresh` counts the new keys of one press, `woke`
follows the press that woke a screen, `idle` the time since the last key.

### Heap

Addresses and sizes are in units of 16 bytes, with a gap in front of every
region. `malloc` and `free` are functions on the list of blocks; `realloc`,
`fopen` and `fclose` use them as the code does. `lost` holds file data that no
handle and no cache entry points to.

## 3. Runs

| Run | Result | What it shows |
|---|---|---|
| `music` | pass | `AudioExclusive`, `SongMatchesStick`, `ActiveSong`, and `MusicComesBack` under fairness |
| `storage` | pass | `HostOneStick`, `StreamOneStick`, `WriteOnChecked`; `PullNoticed`, `ComesBack` under fairness |
| `storage_app` | violation | an app's mount with the old geometry under the new generation |
| `netsvc` | pass | `LinkFollowsConfig`, `FrameOnItsNetwork`, `ListIsQuiet` |
| `netsvc_live` | pass | `ComesUp`, `StaysOff` under fairness |
| `wlan` | pass | `KeyShared`, `GroupAgrees`; `JoinReturns`, `Connected` under fairness |
| `ehci` | pass | `IsQueue` (the refinement of `RxQueue`), `NextFilled`, `RingNeverEnds`; `Drains` under fairness |
| `clock` | pass | `TickSoon`, `KeepsTime` |
| `nettcp` | pass | `StreamInOrder`, `AckedIsDelivered`, `WrittenIsReceived`, `ClosedIsComplete`, `FinAfterData`; `Returns` under fairness |
| `keys` | pass | `ActsOnce`, `WakingKeySwallowed`, `BlackOnlyWhenIdle`; `SaverComesOn` under fairness |
| `keys_crash` | violation | a crash screen that goes black at once |
| `heap` | pass | `Tiled`, `OwnersKeepBlocks` |

The two violations are disagreements between the code and what its comments or
documents say; `PROJECT.json` quotes the lines under "findings".

Bounds. `music`: queue of 2 (the ui task only runs while the music task waits,
so one entry is the most it ever holds: `QueueInv`), 2 songs per folder (the next
song wraps), 4 generations (pull, put back, pull), lock depth 2. `storage`: 2
insertions and 4 generations: pull, swap and one more change; the liveness
properties exempt the bound. `netsvc`: a queue of 2 with 3 actions of the user (a
scan and two choices from its list during the join that follows; three of scans and
switching on and off, so that the queue overflows during a join; scans that
overlap), 2 networks (interchangeable: symmetry), one
access point failure; the liveness run uses one network, a queue of 1 and 2 actions
(a scan and a choice). `wlan`: 2 mishaps and 2 rekeyings (a group update after a
pairwise one), 2 frames under way in each direction, 2 copies of each message; the
31 nonces and 8 group keys are what `StaAssumption` asks for with these bounds.
`ehci`: a ring of 3, 8 frames (the ring goes round more than twice and fills up),
2 errors, 2 resets. `clock`: Count wraps at 26, a tick and a millisecond are 3
counts, so every alignment of a wrap with a tick, a critical section of 2 counts
and a hand-over occurs; a U-Boot program takes up to half a wrap. `nettcp`: both
sequence numbers wrap inside 3 units of data, 2 segments each way of which one is
short, 2 tries per wait, 2 segments under way to the client and 1 to the server.
`keys`: hold time and repeat delay as in the code (3 and 4 periods), a saver time
of 8 periods, longer than both. `heap`: regions of 8 and 6 units, 3 pointers, 2
open files and a cache of 1, so that memory and cache run out.

Fairness. Music: weak fairness of the task with the highest priority, strong
fairness of its 10 ms timeout, because key presses are further apart. Storage:
calls in progress end (U-Boot's transfers have timeouts); usb and ui get the
mutex and the core again and again because usb sleeps 250 ms and music waits
between reads. NetSvc: tasks run when runnable and obtain locks since the tcpip
thread sleeps between frames; a possible join succeeds in one of its retries;
missing beacons are missed for 10 s; the DHCP client repeats itself. WlanSta: the
net task pumps and retries, a beacon is heard in one of the scans, the access
point's timers fire, and lwIP sends something now and then (which is how a
station learns that its session is gone). EhciRing: the net task pumps for ever,
the handler returns, and the controller passes its list as long as it runs.
NetTcp: only the program itself; waits are bounded by its own counters. Keys: the
launcher runs and time passes; nothing of the user. The number of user actions
and of radio troubles is bounded, which stands for "eventually left alone".

Deadlock is not checked where the system may stop: a program that has returned
(`nettcp`), a box that was restarted (`keys`), a heap nobody uses (`heap`).

### Known deviations

Besides the two runs, the models showed the following; each can be reproduced
by adding the named property to the module's configuration.

| Where | What happens | Property |
|---|---|---|
| `system.c:291` | NEXT after a swap of sticks while the music was paused opens a song by the list of the old stick; the pump then sees the new generation and stops ("stick removed", `system.c:323`) instead of playing | none (`SongMatchesStick` shows that it is not played) |
| `system.c:335` | no song opens in the pump loop: the music stops with its output left on, "else the output holds the last sample (DC)" (`runtime.c:222`) | `StoppedIsSilent` (`Music`) |
| `launcher.c:903` | a crashed app keeps the audio, which it "gives back when the app ends" (`sdk/sys.h:12`): the music stays silent and the media keys are ignored (`system.c:413`) until another app that claims it has ended | `AudioGivenBack` (`Music`) |
| `runtime.c:289` | behind a hub an app that retries clears `ufs_lost` before the usb task looks: the stick is never noticed as lost (`usbfat.h:87`) | `LossNoticed` (`Storage`) |
| `netsvc.c:413` | `net_scan` gives up, the user asks again before the forgotten scan is over: its `scan_done` answers the new request, whose own scan then rewrites the list under the page, which chooses from it. A join (about 17 s with a chip that answers) and a scan (3 s) should take less than 25 s, but nothing in the code sees to it | `ListNeverTouched` (`NetSvc`) |
| `netsvc.c:443` | EXIT while the chip starts or joins leaves it on (`net/README.md:52`: "the chip is switched off first") | `ChipOffAtExit` (`NetSvc`) |
| `netsvc.c:381` | state UP survives the loss of the address (`sdk/net.h`: "address: ready") | `UpHasAddress` (`NetSvc`) |
| `wlan.h:451` | a repeated message 1 of a pairwise rekeying draws another SNonce and ends the link | `RekeyKeepsLink` (`WlanSta`) |
| `system.c:460` | a U-Boot program that runs for more than half a wrap of Count (6.5 s): the tick comes seconds late ("Compare must end up ahead of Count", `port.c:147`) | `TickSoon` (`Clock`) with `MaxLegacy` = 20 |
| `ehci.h:186` | a controller that visits the queue between the two writes of `ehci_qh_start`: its transfer is wiped out and the ring is out of step | `NextFilled` (`EhciRing`) with `StartRace` = TRUE |
| `launcher.c:1113` | POWER held for more than about 1.4 s: the 300 ms delay exceeds `IR_HOLD_MS`, the next frame is a new press and wakes the box at once | (standby starts a new count of `fresh`) |
| `launcher.c:1143` | an autostart countdown longer than the saver's time: the screen goes black in it, the app's image does not know and neither swallows the press that wakes it nor switches the layer on | `BlackOnlyWhenIdle`, `WakingKeySwallowed` (`Keys`) with `SaverTime` = 4, `MaxLoad` = 6 |
| `rtlhttp.c:181` | "closed by the server" is printed after a reset, too, when the answer may be incomplete | `ClosedIsComplete` (`NetTcp`) without `~reset` |
| `libc.c:730` | the launcher reads more `.INF` files than the cache has entries: the data of the others is lost on every scan until an app is started | (`lost` of `Heap`) |
| `libc.c:719` | the cache is looked up by name only: after a swap of sticks the launcher shows the old stick's entry for an app of the same name | none |

## 4. Proofs

Each component with theorems has a module `...Proofs`. The theorems hold for
every value of the constants that the module's assumption allows; the runs of
section 3 show the same properties on small instances. Of the safety properties
of the passing runs only those of `Heap` have no theorem. Every inductive
invariant below was checked with TLC as an invariant of the module's run before
it was proved.

| Property | Theorem | Hypothesis beyond the module's assumption |
|---|---|---|
| `Music`: `TypeOK`, `ActiveSong` | `TypeCorrect`, `SongIsActive` | none |
| `AudioExclusive`, `SongMatchesStick` | `ClaimOwnsOutput`, `SongOnItsStick` | `CrashInIo = FALSE` |
| `Storage`: `TypeOK`, `HostOneStick`, `StreamOneStick`, `WriteOnChecked` | `TypeCorrect`, `HostFilesOneStick`, `StreamsOneStick`, `WritesOnChecked` | none |
| `NetSvc`: `TypeOK`, `LinkFollowsConfig`, `FrameOnItsNetwork`, `ListIsQuiet` | `TypeCorrect`, `LinkIsTheChosenOne`, `FramesStayOnTheirNetwork`, `ScanListIsQuiet` | none |
| `WlanSta`: `TypeOK`, `KeyShared`, `GroupAgrees` | `TypeCorrect`, `KeysAreShared`, `GroupKeysAgree` | none |
| `EhciRing`: `TypeOK`, `NextFilled`, `RingNeverEnds`, `IsQueue` | `TypeCorrect`, `FilledInOrder`, `NeverEnds`, `RingIsQueue` | `~StartRace` |
| `Clock`: `TypeOK` | `TypeCorrect` | none |
| `KeepsTime`, `TickSoon` | `TimeIsKept`, `NextTickIsSoon` | `ShortPrograms` |
| `NetTcp`: `StreamInOrder`, `AckedIsDelivered`, `ClosedIsComplete`, `FinAfterData`, `WrittenIsReceived` | `AnswerInOrder`, `AcksKeepTheirWord`, `CloseMeansComplete`, `FinBehindData`, `WriteMeansReceived` | none |
| `Keys`: `TypeOK`, `ActsOnce` | `TypeCorrect`, `OnePressOneKey` | none |
| `WakingKeySwallowed`, `BlackOnlyWhenIdle` | `WakingPressIsSwallowed`, `BlackAfterIdle` | `ShortCountdown` |

None of the hypotheses is a convenience; without each of them the code does
something else:

* `CrashInIo = FALSE`: no app faults inside a sector call. With a fault there the
  mutex stays held (`runtime.c:368`), the music task blocks in its next read, and
  the next claim times out and returns with the music's output on;
* `~StartRace`: the controller does not visit the queue head between the two
  writes of `ehci_qh_start` (known deviation, `ehci.h:186`);
* `ShortPrograms`: a U-Boot program runs for at most about half a wrap of Count
  (known deviation, `system.c:460`). The proof shows the exact bound:
  `MaxLegacy + MaxOff <= M \div 2 + Period`, so that `prvSetCompare` still sees
  Compare behind Count, and `Period + Jiffy + 3 * MaxOff + MaxLegacy <= M`, so
  that Count does not lap the place where the milliseconds were last counted;
* `ShortCountdown`: the autostart countdown (`timeout=` in `LAUNCHER.INI`,
  `launcher.c:181`) is shorter than the saver's minutes. A longer one lets the
  launcher's saver go black just before it starts the app, and the app's image
  has a saver of its own that knows nothing of it: the app begins on a layer that
  is off unless it sets up the screen itself, and the press that should only wake
  it goes to the app. TLC finds both with `SaverTime = 4` and `MaxLoad = 6`.

The assumptions on constants are in the modules, next to the constants:
`StaAssumption` says that the pools of nonces and group keys are larger than what
the frames under way and the two sides can hold;
`ClockAssumption` says that a tick, a millisecond and three critical sections fit
into half a wrap, and that a wrap is an even number of counts (2^32);
`NetTcpAssumption` that the data and its two flags fit into half of the sequence
space; `KeysAssumption` that `IR_HOLD_MS` is more than two frame periods and the
saver's time at least `IR_HOLD_MS`.

### Music

The inductive invariant `IInv` is the conjunction of

* `HeldInv`: the mutex is held only inside a sector call or a U-Boot program;
* `QueueInv`: the queue holds at most one command, and only while the music task
  waits for it, so no command is dropped;
* `ClaimInv`: while `sys_audio_claim` waits, its command is queued, being carried
  out, or the task is already `Quiet` (output off, `playing` false); once the
  claim has returned the task is `Quiet` and stays so; the audio block belongs to
  the music only with `out_on` set;
* `SongInv`: `playing` implies the state PLAYING, a read implies `playing`, a
  stick, and a list of the current generation; a list is never newer than its
  stream, a stream never newer than the stick (`SongOrder`).

`SongStepType`, `SongStepOrder` and `SongStepActive` capture what any change of
the song (`PlayFrom`, commands, end of a read) preserves, so that each step lemma
has one case per action. `ActiveSong` is inductive once the song steps are
known to leave it alone, and needs no hypothesis about crashes.

### Storage

`MixedInv` says that only the app's mount mixes sectors (the `storage_app` run
shows that it can). It is kept because `SystemInv` describes the moment at which
`dev` changes, the start of USB by the usb task: by then the mount, the streams
and the app's mount are of an older generation, or nobody is in an operation that
could still use them (`GoneInv`, `SettledInv`), whatever is marked as current has
sectors of `dev` only (`DevInv`), no generation is ahead of `storage_gen`
(`GenInv`), and before the first poll nothing was mounted (`FirstPoll`).

### NetSvc

* `Locks`: a frame in `wifi_output` holds lwIP's core lock, so the link stays up
  and the chip on its network until it is sent or dropped; the net task holds
  `wlan_lock` while it joins, scans or pumps;
* `Chosen`: from the moment a join reads the configuration, what it has read is
  what the user chose or a command that takes the link down is `Pending`: in the
  queue, taken out of it, or about to be sent by `net_configure`. A lost
  command is covered because the full queue that lost it holds another one
  that takes the link down;
* `Scans`: as long as `net_scan` was not called with an earlier scan still to be
  done, one scan at most is queued or under way, `scan_done` is only there when it is
  over (a late one is taken back by the next `net_scan`), and the page waits for it or
  has no list, because a `net_scan` that gave up returned -1. No hypothesis about
  time is needed: `overlap` names the only case left, a known deviation.

### WlanSta

The two properties speak of the chip and the access point, but what makes them true
is on its way between them, so the invariant is about the two queues of frames.

* `Session`, `Waits`: which keys the access point has in which state of its session;
  the station's keys are in the chip exactly while the net task pumps (and until it
  has seen that the link was lost).
* `Air`: no frame is protected by a key that is still being negotiated, and a message
  3 that the link's key protects belongs to the rekeying in progress (`Down`); what is
  behind the present message 3 are copies of it, and what is behind the present
  group message has its key (`Behind`, which needs the order of frames); no message 4
  with the nonce of an unanswered message 1 exists (`UpAll`, which needs fresh nonces).
* `KeyInv`: `Follows(P)` says that the station has the pairwise key `P` in the chip,
  or would put it there at the end of its join, and that nothing under way that a
  joining station accepts changes that. The station follows the access point's key, or,
  while message 3 is unanswered, the one it changes to; and when a message 4 is under
  way that will be accepted, surely the latter.
* `GroupInv`: the same for the group key (`Agrees`), in an open session and while an
  answer is under way that opens it.

`KeysStay` covers all steps of the station but message 3 and the group message
(`LinkedM3`, `LinkedG1`), which are the heart of the proof: when the station answers,
`Air` leaves no other message behind that could change its keys again.
`LinkedEnds`, `LinkedBegins`, `LinkedM2`, `LinkedOpens`, `LinkedSends` and
`LinkedRekeyG` are the steps of the access point. `Pools` shows by counting that a
nonce and a group key nobody uses always exist, so that `CHOOSE` yields one. Nothing
is assumed of the number of losses, retries, rekeyings or frames under way.

### EhciRing and RxQueue

The proof follows one number, the length `n` of the filled part of the ring
(`Ring(n)`): from `rx_next` on there are `n` filled qTDs, then the one that the
controller works on or stopped at, then qTDs that wait for data. A transfer
adds one, `ehci_rx_put` takes one away, and since the driver never arms the qTD
behind which the controller stopped without letting it go on, the queue has no end.
`CacheInv` and `HeldInv` say that only the buffer being handled is in the cache
and that its lines are what the controller wrote; `StartInv` and `FailInv`
describe the queue head while it is set up and repaired. `RingIsQueue` maps each
step to a step of `RxQueue` or a stutter: the mapped queue is the sequence of the
`n` frames (`FilledFrames`), a write of the status appends, `ehci_rx_get` takes
the head, an error passes one frame over at most, a reset drops what is queued.

### Clock

`LagInv` bounds what is not counted yet, in counts of Count: where no tick runs
by the time since the clock was last looked after (`UntickedLag`), where one does
by the distance to Compare (`TickedLag`), inside `tm_get_timer` by what the task
has read (`TmLag`). `SetCompareInv` is the argument of `prvSetCompare`: either
the new Compare is ahead of Count by at most a period and no tick is latched, or
it is behind by less than half a wrap, so that the signed comparison sees it and
the loop goes round again. `Shape` says which mode and which place of the code go
together.

### NetTcp

`ConnInv` reads every sequence number as an offset: the connection is `Closed`,
or `Open(F, f)` with `F`, `f` telling whether the server's and the client's FIN
were taken and sent. `Recv(F)`: `tcp_rcv_nxt` is the number of the unit after the
last one delivered. `Send(f)`: `tcp_snd_nxt` is the number of what `tcp_write` has
begun, and the server has everything up to `tcp_snd_una`. `DownSegs` and the
segments' part of `Open` say which segments can be under way: each one carries
data of its offset and an acknowledgement that was true when it was sent,
however old it is. `ModInjective` gives that a number within half the sequence
space names one offset. Nothing is assumed about the order or the number of segments.

### Keys

Two inductive invariants, one on top of the other. `Base` shows `ActsOnce`: after
a press has given a new key the reader is `Steady`, its last key is the button
held and its age small enough that the next frame or repeat code comes before
`IR_HOLD_MS`, also when one is lost; an app, its end and its crash hand the
remote over to a reader that is `Steady` or has forgotten the key. `Wake` adds
that a press that woke a screen is followed by a `Steady` reader with `eat` set
for as long as it lasts (`WakeInv`), that a repeat code of a press which nobody
has seen wakes nothing (`SureInv`), that the saver has just begun to count in the
countdown (`CountInv`), and that the layer tells the state of the saver of the
running image (`LayerInv`).

### What stays with TLC

* Liveness: `MusicComesBack`, `PullNoticed`, `ComesBack`, `ComesUp`, `StaysOff`,
  `JoinReturns`, `Connected`, `Drains`, `Returns`, `SaverComesOn`. Fairness and
  ENABLED are out of the prover's reach.
* `Tiled` and `OwnersKeepBlocks` of `Heap`: `malloc` and `free` are folds over the
  list of blocks, and what a fold computes for every list needs an induction
  that the provers cannot instantiate.
* The two violations (`AppOneStick`, `CrashIsSeen`) and the known deviations are
  counterexamples, not theorems.
* `TypeOK` of `NetTcp` and `Heap`: no theorem and no run lists it. The parts of
  NetTcp's that the proofs need are in `Types`, `DownSegs` and `Open`.

## 5. Plan

1. `WlanSta` with several access points of one name.
2. `Heap`: an inductive invariant of the list of blocks, once the folds of `malloc`
   and `free` can be reasoned about for lists of any length.

Not modelled, and why:

* lwIP, the FreeRTOS kernel, Helix MP3, Doom and other vendored code, about three
  quarters of the lines under `src/`: third-party code with tests of its own,
  modelled only as far as the system's own code relies on it (strict priorities,
  queues, mutexes, the core lock, DHCP);
* the socket calls of apps (`op_*` in `netsvc.c`): each one hands its arguments
  to lwIP;
* FAT decoding in `usbfat.h`: pure functions of sectors, left as the outcome of a
  lookup;
* ARP, DHCP and DNS of `netstack.h`: request and answer without state beyond a
  table, used by the stand-alone tools only;
* front buttons (`fp_poll`), BriMod and the serial line as key sources; drawing,
  lists, settings files;
* register sequences of the RTL8188 chip, video and audio set-up, one-shot
  hardware probes: nothing to check but the hardware itself;
* context switch and vectors of the FreeRTOS port (assembler).
