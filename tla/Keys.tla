-------------------------------- MODULE Keys --------------------------------
(***************************************************************************)
(* From a button of the remote to the launcher: ir_poll (ir.h),            *)
(* sdk_key_read, the screen saver and sdk_key_poll (runtime.c), and the    *)
(* loops of launcher.c that wait for keys.                                 *)
(*                                                                         *)
(* Time passes in frame periods of the remote (108 ms); a time stamp is    *)
(* modelled by its age.  The launcher and an app are two images, each with *)
(* its own copy of the runtime; with the system running (sys) the app's    *)
(* sdk_key_source is the launcher's key reader.  The front buttons of the  *)
(* satellite box, BriMod and the serial line are left out.                 *)
(***************************************************************************)
EXTENDS Integers, FiniteSets

CONSTANTS
    Buttons,    \* of the remote: OK, BACK, MENU, POWER, UP, DOWN
    Hold,       \* IR_HOLD_MS in frame periods: 3
    Delay,      \* KEY_REPEAT_DELAY_MS in frame periods: 4
    SaverTime,  \* bound: periods for sdk_saver_min
    Blink,      \* the blinks of standby: 10 periods, bounded
    Settle,     \* its 300 ms: 3 periods
    MaxLoad     \* bound: periods that reading an app takes

ASSUME KeysAssumption ==
    /\ Hold \in Nat /\ Hold >= 3           \* IR_HOLD_MS is over two periods
    /\ SaverTime \in Nat /\ SaverTime >= Hold   \* minutes against 250 ms
    /\ Delay \in Nat \ {0} /\ MaxLoad \in Nat \ {0}
    /\ Blink \in Nat \ {0} /\ Settle \in Nat \ {0}
    /\ Buttons \subseteq {"OK", "BACK", "MENU", "POWER", "UP", "DOWN"}

VARIABLES
    \* the remote and the receiver
    held, nframe, lost, stat, rep,
    \* runtime, per image: ir_last_*, press_ms, saver_*
    ir, press, sav,
    saver_min,      \* sdk_saver_min > 0
    layer,          \* the OSD layer is on
    sys,            \* multitasking is on
    \* launcher
    place, busy, polled,
    auto,           \* launch was called by the autostart
    \* history of the press: new keys it gave; the image whose screen it woke, or
    \* "leaked".  Periods since a key.
    fresh, woke, idle

remoteVars == <<held, nframe, lost, stat, rep>>
runtimeVars == <<ir, press, sav, layer>>
pressVars == <<fresh, woke, idle>>
vars == <<remoteVars, runtimeVars, saver_min, sys, auto, place, busy, polled,
          pressVars>>

None == "none"
Images == {"launcher", "app"}
BusyPlaces == {"load", "blink", "settle"}
DropPlaces == {"menuDrop", "crashDrop", "standbyDrop"}
PollPlaces == {"countdown", "menu", "about", "app", "crash", "standby"} \union DropPlaces

TypeOK ==
    /\ held \in Buttons \union {None} /\ nframe \in 0..2 /\ lost \in 0..1
    /\ stat \in Buttons \union {None, "bad"} /\ rep \in BOOLEAN
    /\ ir \in [Images -> [init : BOOLEAN, last : Buttons \union {None},
                          age : 0..Hold, rep : BOOLEAN]]
    /\ press \in [Images -> 0..Delay]
    /\ sav \in [Images -> [on : BOOLEAN, eat : BOOLEAN, age : -1..SaverTime]]
    /\ saver_min \in BOOLEAN /\ layer \in BOOLEAN /\ sys \in BOOLEAN
    /\ auto \in BOOLEAN /\ polled \in BOOLEAN
    /\ place \in PollPlaces \union BusyPlaces \union {"crashOver", "end"}
    /\ busy \in 0..(Blink + Settle + MaxLoad)
    /\ fresh \in 0..2 /\ woke \in Images \union {None, "leaked"}
    /\ idle \in 0..SaverTime

(* The image that runs, and the one whose key reader it uses.              *)
Image == IF place = "app" THEN "app" ELSE "launcher"
Reader == IF sys THEN "launcher" ELSE Image

(* Zeroed memory: no time stamp is near the clock.                         *)
IrZero == [init |-> FALSE, last |-> None, age |-> Hold, rep |-> FALSE]
SavZero == [on |-> FALSE, eat |-> FALSE, age |-> -1]

Init ==
    /\ held = None /\ nframe = 0 /\ lost = 0 /\ stat = None /\ rep = FALSE
    /\ ir = [i \in Images |-> IrZero] /\ press = [i \in Images |-> Delay]
    /\ sav = [i \in Images |-> SavZero]
    /\ saver_min = TRUE /\ layer = TRUE
    /\ sys \in BOOLEAN /\ auto = FALSE
    /\ \/ place = "countdown" /\ busy \in 1..MaxLoad
       \/ place = "menu" /\ busy = 0
    /\ polled = FALSE
    /\ fresh = 0 /\ woke = None
    /\ idle = 0

----------------------------------------------------------------------------
(* The remote (external): a frame, a repeat code, then frames again, one   *)
(* in each period; of two in a row at most one is lost or garbled.  A      *)
(* press begins with the first frame that arrives.                         *)
Received(key) ==
    \/ stat' = key /\ rep' = FALSE /\ lost' = 0
    \/ lost = 0 /\ lost' = 1 /\ rep' = rep /\ stat' \in {stat, "bad"}

Press(b) ==
    /\ held = None /\ stat = None /\ place # "end"
    /\ held' = b /\ nframe' = 1 /\ lost' = 0
    /\ stat' = b /\ rep' = FALSE
    /\ fresh' = 0 /\ woke' = None
    /\ UNCHANGED <<runtimeVars, saver_min, sys, auto, place, busy, polled, idle>>

Release ==
    /\ held # None /\ place # "end"
    /\ held' = None /\ nframe' = 0 /\ lost' = 0
    /\ UNCHANGED <<stat, rep, runtimeVars, saver_min, sys, auto, place, busy, polled,
                   pressVars>>

RemoteTick ==
    \/ held = None /\ UNCHANGED remoteVars
    \/ /\ held # None /\ nframe = 1 /\ nframe' = 2
       /\ \/ rep' = TRUE /\ lost' = 0
          \/ rep' = rep /\ lost = 0 /\ lost' = 1
       /\ UNCHANGED <<held, stat>>
    \/ held # None /\ nframe = 2 /\ Received(held) /\ UNCHANGED <<held, nframe>>

Aged(a, max) == IF a < max THEN a + 1 ELSE a

(* A last key that is too old is as good as none.                          *)
IrAged(r) ==
    IF r.age + 1 < Hold THEN [r EXCEPT !.age = @ + 1] ELSE [r EXCEPT !.age = Hold, !.last = None]

(* A period passes; loops that wait for keys have polled in it.            *)
Tick ==
    /\ place \in PollPlaces => polled
    /\ place \in BusyPlaces \union {"countdown"} => busy > 0
    /\ place \notin {"crashOver", "end"}
    /\ RemoteTick
    /\ polled' = FALSE
    /\ busy' = IF busy > 0 THEN busy - 1 ELSE 0
    /\ ir' = [i \in Images |-> IrAged(ir[i])]
    /\ press' = [i \in Images |-> Aged(press[i], Delay)]
    /\ sav' = [i \in Images |-> [sav[i] EXCEPT
                !.age = IF @ = -1 THEN -1 ELSE Aged(@, SaverTime)]]
    /\ idle' = Aged(idle, SaverTime)
    /\ UNCHANGED <<layer, saver_min, sys, auto, place,
                   fresh, woke>>

----------------------------------------------------------------------------
(* ir_poll: an event of reader r, or NoEvent.  A repeat code, or the same  *)
(* key again soon enough, is a repeat.                                     *)
NoEvent == [btn |-> None, repeat |-> FALSE]

\* Mutant: a hold time below two frame periods.
RecentTight(r) == ir[r].last # None /\ ir[r].age < Hold - 1

Recent(r) == ir[r].last # None /\ ir[r].age < Hold

IrEvent(r) ==
    IF ~ir[r].init \/ stat = "bad" THEN NoEvent
    ELSE IF stat # None THEN [btn |-> stat, repeat |-> Recent(r) /\ stat = ir[r].last]
    ELSE IF rep /\ ~ir[r].rep /\ Recent(r) THEN [btn |-> ir[r].last, repeat |-> TRUE]
    ELSE NoEvent

(* ir_init in the first sdk_key_read of an image drops a stale frame.      *)
IrPolled(r) ==
    IF ~ir[r].init
    THEN [IrZero EXCEPT !.init = TRUE, !.rep = rep]
    ELSE [ir[r] EXCEPT !.rep = rep,
            !.last = IF IrEvent(r) # NoEvent THEN IrEvent(r).btn ELSE @,
            !.age = IF IrEvent(r) # NoEvent THEN 0 ELSE @]

(* sdk_key_read: the repeats right after a tap are not passed on.          *)
Read(r) ==
    IF IrEvent(r).repeat /\ press[r] < Delay THEN NoEvent ELSE IrEvent(r)

(* saver_check of image i, run by sdk_overlay_tick.                        *)
SaverDue(i) == saver_min /\ ~sav[i].on /\ sav[i].age = SaverTime

\* Mutant: a saver that has never seen a key does not start to count.
CheckedNoStart(i) == [sav[i] EXCEPT !.on = @ \/ SaverDue(i)]

Checked(i) ==
    [sav[i] EXCEPT !.on = @ \/ SaverDue(i),
                   !.age = IF saver_min /\ ~sav[i].on /\ @ = -1 THEN 0 ELSE @]

\* Mutant: only the first event of the waking key is swallowed.
SwallowedOnce(i, k) == Checked(i).on

(* saver_key: the waking key and its repeats are swallowed.                *)
Swallowed(i, k) == Checked(i).on \/ (Checked(i).eat /\ k.repeat)

SaverKey(i, k) ==
    IF Checked(i).on THEN [on |-> FALSE, eat |-> TRUE, age |-> 0]
    ELSE [Checked(i) EXCEPT !.eat = @ /\ k.repeat, !.age = 0]

(* sdk_key_poll of the running image: what it returns, and what it does.   *)
Key == IF Swallowed(Image, Read(Reader)) THEN NoEvent ELSE Read(Reader)

KeyPoll ==
    LET k == Read(Reader)
        got == k # NoEvent
        isFresh == IrEvent(Reader) # NoEvent /\ ~IrEvent(Reader).repeat
    IN
    /\ polled' = TRUE
    /\ stat' = None
    /\ ir' = [ir EXCEPT ![Reader] = IrPolled(Reader)]
    /\ press' = IF isFresh THEN [press EXCEPT ![Reader] = 0] ELSE press
    /\ sav' = [sav EXCEPT ![Image] = IF got THEN SaverKey(Image, k) ELSE Checked(Image)]
    /\ layer' = IF sav'[Image].on = sav[Image].on THEN layer ELSE ~sav'[Image].on
    /\ fresh' = IF isFresh /\ fresh < 2 THEN fresh + 1 ELSE fresh
    /\ woke' = IF got /\ Checked(Image).on THEN Image
               ELSE IF Key # NoEvent /\ woke = Image THEN "leaked" ELSE woke
    /\ idle' = IF got THEN 0 ELSE idle
    /\ UNCHANGED <<held, nframe, lost, rep, sys, auto>>

----------------------------------------------------------------------------
Stay == UNCHANGED <<place, busy>>
Enter(p) == place' = p /\ busy' = 0

Launch == place' = "load" /\ busy' \in 1..MaxLoad

(* ui_loop.  UP and DOWN only move the selection; OK does nothing when the *)
(* list is empty.                                                          *)
MenuKey ==
    /\ place = "menu"
    /\ KeyPoll
    /\ \/ Key.btn = "OK" /\ ~Key.repeat /\ Launch
       \/ Key.btn = "MENU" /\ ~Key.repeat /\ Enter("about")
       \/ Key.btn = "POWER" /\ ~Key.repeat /\ place' = "blink" /\ busy' = Blink
       \/ Key.btn = "BACK" /\ ~Key.repeat /\ Enter("end")
       \/ (Key.btn \in {None, "UP", "DOWN", "OK"} \/ Key.repeat) /\ Stay
    /\ saver_min' = (saver_min /\ place' # "blink")

----------------------------------------------------------------------------
(* about: OK may change the time of the saver, among other settings.       *)
AboutKey ==
    /\ place = "about"
    /\ KeyPoll
    /\ \/ /\ Key.btn \in {"BACK", "MENU"} /\ ~Key.repeat
          /\ Enter("menu") /\ UNCHANGED saver_min
       \/ /\ Key.btn \notin {"BACK", "MENU"} \/ Key.repeat
          /\ saver_min' \in IF Key.btn = "OK" /\ ~Key.repeat THEN BOOLEAN ELSE {saver_min}
          /\ Stay

(* Autostart: any key opens the menu.                                      *)
CountdownKey ==
    /\ place = "countdown" /\ busy > 0
    /\ KeyPoll
    /\ IF Key # NoEvent THEN Enter("menu") ELSE Stay
    /\ UNCHANGED saver_min

CountdownOver ==
    /\ place = "countdown" /\ busy = 0
    /\ Launch /\ auto' = TRUE
    /\ UNCHANGED <<remoteVars, runtimeVars, saver_min, sys, polled, pressVars>>

----------------------------------------------------------------------------
(* launch: the app's image starts with zeroed memory ...                   *)
ForgetApp ==
    /\ woke' = IF woke = "app" THEN None ELSE woke
    /\ ir' = [ir EXCEPT !["app"] = IrZero]
    /\ press' = [press EXCEPT !["app"] = Delay]

AppStart ==
    /\ place = "load" /\ busy = 0
    /\ place' = "app"
    /\ ForgetApp /\ sav' = [sav EXCEPT !["app"] = SavZero]
    /\ fresh' = 0
    /\ UNCHANGED <<remoteVars, layer, saver_min, sys, auto, busy, polled,
                   idle>>

(* ... and whatever way it ends the launcher sets up the screen, kicks its *)
(* own saver and, unless it was the autostart, drops the keys left.        *)

\* Mutant: the saver is not kicked.
NotKicked == sav["launcher"]

Kicked == [sav["launcher"] EXCEPT !.on = FALSE, !.age = 0]

Back ==
    /\ place' = IF auto THEN "menu" ELSE "menuDrop"
    /\ auto' = FALSE /\ busy' = 0
    /\ layer' = TRUE
    /\ ForgetApp
    /\ sav' = [launcher |-> Kicked, app |-> SavZero]
    /\ fresh' = IF sys /\ place = "app" THEN fresh ELSE 0
    /\ UNCHANGED <<remoteVars, saver_min, sys, polled,
                   idle>>

LoadFails == place = "load" /\ busy = 0 /\ Back

AppEnds == place = "app" /\ Back

AppKey ==
    /\ place = "app"
    /\ KeyPoll
    /\ Stay /\ UNCHANGED saver_min

(* saver_check while the app shows a layer of its own.                     *)
NotOurLayer ==
    /\ place = "app" /\ SaverDue("app")
    /\ sav' = [sav EXCEPT !["app"].age = 0]
    /\ UNCHANGED <<remoteVars, ir, press, layer, saver_min, sys, auto, place, busy, polled,
                   pressVars>>

(* An exception: crash_resume shows the crash, the saver is not kicked.    *)
AppCrash ==
    /\ place = "app"
    /\ place' = "crashDrop" /\ busy' = 0
    /\ layer' = TRUE
    /\ ForgetApp /\ sav' = [sav EXCEPT !["app"] = SavZero]
    /\ fresh' = IF sys THEN fresh ELSE 0
    /\ UNCHANGED <<remoteVars, saver_min, sys, auto, polled,
                   idle>>

CrashKey ==
    /\ place = "crash"
    /\ KeyPoll
    /\ IF Key.repeat THEN Stay
       ELSE IF Key.btn = "POWER" THEN Enter("end")
       ELSE IF Key.btn \in {"OK", "BACK"} THEN Enter("crashOver")
       ELSE Stay
    /\ UNCHANGED saver_min

CrashOver == place = "crashOver" /\ Back

----------------------------------------------------------------------------
(* while (sdk_key_poll (&k)) { }                                           *)
After(p) == CASE p = "menuDrop" -> "menu" [] p = "crashDrop" -> "crash"
              [] p = "standbyDrop" -> "settle"

DropKeys ==
    /\ place \in DropPlaces
    /\ KeyPoll
    /\ IF Key # NoEvent THEN Stay
       ELSE /\ place' = After(place)
            /\ busy' = IF place = "standbyDrop" THEN Settle ELSE 0
    /\ UNCHANGED saver_min

(* standby: the blinks, the keys so far dropped, 300 ms, then POWER.       *)
StandbyGoesOn ==
    /\ busy = 0
    /\ \/ place = "blink" /\ place' = "standbyDrop"
       \/ place = "settle" /\ place' = "standby"
    /\ fresh' = 0
    /\ UNCHANGED <<remoteVars, runtimeVars, saver_min, sys, auto, busy, polled,
                   woke, idle>>

StandbyKey ==
    /\ place = "standby"
    /\ KeyPoll
    /\ IF Key.btn = "POWER" /\ ~Key.repeat THEN Enter("end") ELSE Stay
    /\ UNCHANGED saver_min

(* The STANDBY button of the box restarts it from these screens.           *)
StandbyButton ==
    /\ place \in {"standby", "crash"}
    /\ Enter("end")
    /\ UNCHANGED <<remoteVars, runtimeVars, saver_min, sys, auto, polled,
                   fresh, woke, idle>>

----------------------------------------------------------------------------
Launcher ==
    \/ MenuKey \/ AboutKey \/ CountdownKey \/ CountdownOver
    \/ AppStart \/ LoadFails \/ AppKey \/ CrashKey \/ CrashOver
    \/ DropKeys \/ StandbyGoesOn \/ StandbyKey

Next ==
    \/ (\E b \in Buttons : Press(b)) \/ Release \/ Tick
    \/ Launcher \/ AppEnds \/ AppCrash \/ NotOurLayer \/ StandbyButton

Spec == Init /\ [][Next]_vars

(* The launcher runs on, and time passes while it waits.                   *)
FairSpec == Spec /\ WF_vars(Launcher \/ Tick)

----------------------------------------------------------------------------
(* Properties                                                              *)

(* A press gives one new key however long it lasts, with frames lost and   *)
(* garbled, as long as its reader is not kept from polling: also when an   *)
(* app ends or crashes under it and the launcher reads on.  The count      *)
(* begins again where a reader does: when an app is started, when one that *)
(* reads for itself ends, and in standby.                                  *)
ActsOnce == fresh <= 1

(* The press that wakes a screen is never passed to the program behind it. *)
WakingKeySwallowed == woke # "leaked"

(* "After sdk_saver_min minutes without a key the OSD layer is switched    *)
(* off", and not earlier: the time an app has run is not held against the  *)
(* launcher.                                                               *)
BlackOnlyWhenIdle ==
    ~layer /\ place \notin {"crashDrop", "crash", "crashOver", "end"} => idle = SaverTime

(* A menu that is left alone goes black.                                   *)
SaverComesOn ==
    <>[](place = "menu" /\ held = None /\ saver_min) => <>~layer

(* The same with the crash screen: it, too, is seen.                       *)
CrashIsSeen == ~layer => idle = SaverTime

=============================================================================
