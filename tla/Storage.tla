------------------------------ MODULE Storage ------------------------------
(***************************************************************************)
(* The USB stick under the NCAPPS system: hot-plug (sdk_storage_poll, the  *)
(* usb task), the launcher's own file operations (sdk/runtime.c as the     *)
(* host) and an SDK app, which has a runtime of its own and reaches the    *)
(* stick one sector call at a time (sdk_raw_read, sdk_raw_write).          *)
(*                                                                         *)
(* The data is abstracted to where it comes from: every insertion of a     *)
(* stick has a number, and geo, from and ageo are the sets of insertions   *)
(* whose sectors went into a mount (geometry, FAT and folder caches) or    *)
(* into an open file.                                                      *)
(***************************************************************************)
EXTENDS Integers, FiniteSets

CONSTANTS
  MaxPlugs,   \* bound on insertions
  MaxGen,     \* bound on storage_gen
  Hub,        \* TRUE: a hub keeps the port connected without the stick
  Clients     \* who uses files: "host" (the launcher's tasks), "app"

ASSUME StorageAssumption ==
  /\ MaxPlugs \in Nat \ {0}
  /\ MaxGen \in Nat \ {0}
  /\ Hub \in BOOLEAN
  /\ Clients \subseteq {"host", "app"}

VARIABLES
  stick,      \* the insertion in the socket, 0 = none
  plugs,      \* insertions so far
  dev,        \* the insertion U-Boot's USB stack has enumerated, 0 = none
  mounted, mounted_gen, storage_gen, ufs_lost,
  stick_ok,   \* -1 not polled yet, 1 mounted, 0 gone
  since,      \* "no", or the settle time has begun / is over
  geo,        \* insertions the host's mount is made of
  stream,     \* a file the host has open: [gen, from]
  upc, tries, \* the usb task
  holder,     \* owner of usb_mutex
  pc, op,     \* the operation of a task that holds usb_mutex
  amounted, agen, ageo, astream, apc, aop,  \* the app's runtime
  achecked,   \* the insertion whose sector the app compared with the magic
  stalled,    \* the app's operation has made no sector call since the last pull
              \* or the begin of the settle time
  mixed       \* kinds of operation that succeeded with sectors of two insertions

physVars == <<stick, plugs>>
hostVars == <<mounted, mounted_gen, geo>>
pollVars == <<storage_gen, stick_ok, since, upc, tries, dev>>
opVars   == <<holder, pc, op>>
appVars  == <<amounted, agen, ageo, astream, apc, aop, achecked>>
vars == <<physVars, hostVars, pollVars, opVars, appVars, ufs_lost, stream, stalled, mixed>>

Ops == {"open", "read", "save"}
Closed == [gen |-> 0, from |-> {}]

\* ufs_stick_present: the port's connect bit
ufs_stick_present == stick # 0 \/ Hub

\* A transfer to the enumerated device can complete: a stick put back or
\* swapped does not answer before USB is initialised again.
Answers == stick # 0 /\ stick = dev

\* sdk_storage_present
Present == stick_ok # 0

\* The operation just made used the sectors of the insertions in uses[kind].
Uses(uses) == mixed' = mixed \cup {k \in DOMAIN uses : Cardinality(uses[k]) > 1}

----------------------------------------------------------------------------
(* The socket.                                                             *)

Pull ==
  /\ stick # 0 /\ stick' = 0
  /\ stalled' = (apc # "idle")
  /\ UNCHANGED <<plugs, hostVars, pollVars, opVars, appVars, ufs_lost, stream, mixed>>

\* Timing assumption: while a hand changes the stick, and while the 800 ms settle
\* time runs, an app in the middle of a file operation makes its next sector call
\* (the work between two is short, and no task above ui computes that long: the
\* net task lowers its priority for its long computations).
PlugIn ==
  /\ stick = 0 /\ plugs < MaxPlugs /\ ~stalled
  /\ plugs' = plugs + 1 /\ stick' = plugs + 1
  /\ UNCHANGED <<hostVars, pollVars, opVars, appVars, ufs_lost, stream, stalled, mixed>>

\* A loose contact: the same stick loses its USB address and stops answering.
Bounce ==
  /\ stick # 0 /\ dev = stick /\ holder # "usb"
  /\ dev' = 0
  /\ UNCHANGED <<physVars, hostVars, storage_gen, stick_ok, since, upc, tries, opVars, appVars,
                 ufs_lost, stream, stalled, mixed>>

----------------------------------------------------------------------------
(* The usb task: sdk_storage_poll.                                         *)

\* The first poll settles stick_ok = -1.
PolledOk == IF stick_ok # -1 THEN stick_ok
            ELSE IF ufs_stick_present /\ mounted /\ ~ufs_lost THEN 1 ELSE 0

\* since = ub_get_timer (0) | 1
SettleBegins == since' = "begun" /\ stalled' = (apc # "idle")

\* vTaskDelay (250 ms) of usb_entry is over.
Wake ==
  /\ upc = "sleep" /\ upc' = "poll"
  /\ UNCHANGED <<physVars, hostVars, storage_gen, stick_ok, since, tries, dev, opVars, appVars,
                 ufs_lost, stream, stalled, mixed>>

\* Mutant: only a failed read tells that the stick is gone, not the port.
PollPortIgnored ==
  /\ upc = "poll"
  /\ stick_ok' = PolledOk
  /\ IF PolledOk = 1
     THEN /\ upc' = IF ufs_lost THEN "gone" ELSE "sleep"
          /\ UNCHANGED <<since, stalled>>
     ELSE \/ ~ufs_stick_present /\ since' = "no" /\ upc' = "sleep" /\ UNCHANGED stalled
          \/ ufs_stick_present /\ since = "no" /\ SettleBegins /\ upc' = "sleep"
          \/ ufs_stick_present /\ since = "begun" /\ upc' = "sleep" /\ UNCHANGED <<since, stalled>>
          \/ ufs_stick_present /\ since = "over" /\ upc' = "remount" /\ UNCHANGED <<since, stalled>>
  /\ UNCHANGED <<physVars, hostVars, storage_gen, tries, dev, opVars, appVars, ufs_lost, stream,
                 mixed>>

\* Mutant: every poll restarts the settle time.
PollRestarts ==
  /\ upc = "poll"
  /\ stick_ok' = PolledOk
  /\ IF PolledOk = 1
     THEN IF ~ufs_stick_present \/ ufs_lost
          THEN upc' = "gone" /\ UNCHANGED <<since, stalled>>
          ELSE since' = "no" /\ upc' = "sleep" /\ UNCHANGED stalled
     ELSE /\ IF ufs_stick_present THEN SettleBegins ELSE since' = "no" /\ UNCHANGED stalled
          /\ upc' = "sleep"
  /\ UNCHANGED <<physVars, hostVars, storage_gen, tries, dev, opVars, appVars, ufs_lost, stream,
                 mixed>>

\* The decisions before any lock; those that act go on in the steps below.
Poll ==
  /\ upc = "poll"
  /\ stick_ok' = PolledOk
  /\ IF PolledOk = 1
     THEN IF ~ufs_stick_present \/ ufs_lost
          THEN upc' = "gone" /\ UNCHANGED <<since, stalled>>
          ELSE since' = "no" /\ upc' = "sleep" /\ UNCHANGED stalled
     ELSE \/ ~ufs_stick_present /\ since' = "no" /\ upc' = "sleep" /\ UNCHANGED stalled
          \/ ufs_stick_present /\ since = "no" /\ SettleBegins /\ upc' = "sleep"
          \/ ufs_stick_present /\ since = "begun" /\ upc' = "sleep" /\ UNCHANGED <<since, stalled>>
          \/ ufs_stick_present /\ since = "over" /\ upc' = "remount" /\ UNCHANGED <<since, stalled>>
  /\ UNCHANGED <<physVars, hostVars, storage_gen, tries, dev, opVars, appVars, ufs_lost, stream,
                 mixed>>

\* The 800 ms settle time passes.
Settle ==
  /\ since = "begun" /\ ~stalled
  /\ since' = "over"
  /\ UNCHANGED <<physVars, hostVars, storage_gen, stick_ok, upc, tries, dev, opVars, appVars,
                 ufs_lost, stream, stalled, mixed>>

PollGone ==
  /\ upc = "gone" /\ holder = "none"
  /\ ufs_lost' = TRUE /\ mounted' = FALSE
  /\ upc' = "bump"
  /\ UNCHANGED <<physVars, mounted_gen, geo, storage_gen, stick_ok, since, tries, dev, opVars,
                 appVars, stream, stalled, mixed>>

\* Music (priority 4) may take the lock in between, and then runs to its end.
PollBump ==
  /\ upc = "bump" /\ holder = "none" /\ storage_gen < MaxGen
  /\ stick_ok' = 0 /\ storage_gen' = storage_gen + 1 /\ since' = "no"
  /\ upc' = "sleep"
  /\ UNCHANGED <<physVars, hostVars, tries, dev, opVars, appVars, ufs_lost, stream, stalled, mixed>>

\* Mutant: the cached FAT sector of the old stick stays.
PollRemountCached ==
  /\ upc = "remount" /\ holder = "none" /\ storage_gen < MaxGen
  /\ holder' = "usb" /\ upc' = "try" /\ tries' = 1
  /\ ufs_lost' = FALSE /\ dev' = stick
  /\ UNCHANGED <<physVars, hostVars, storage_gen, stick_ok, since, pc, op, appVars, stream, stalled,
                 mixed>>

\* ufs_remount, under the lock: USB is initialised again, up to three times,
\* each followed by ufs_mount.
PollRemount ==
  /\ upc = "remount" /\ holder = "none" /\ storage_gen < MaxGen
  /\ holder' = "usb" /\ upc' = "try" /\ tries' = 1
  /\ ufs_lost' = FALSE /\ dev' = stick /\ geo' = {}
  /\ UNCHANGED <<physVars, mounted, mounted_gen, storage_gen, stick_ok, since, pc, op, appVars,
                 stream, stalled, mixed>>

\* Mutant: i <= 3.
RemountRetryMore ==
  /\ upc = "try" /\ ~Answers /\ tries <= 3
  /\ tries' = tries + 1
  /\ ufs_lost' = FALSE /\ dev' = stick /\ geo' = {}
  /\ UNCHANGED <<physVars, mounted, mounted_gen, storage_gen, stick_ok, since, upc, opVars,
                 appVars, stream, stalled, mixed>>

RemountRetry ==
  /\ upc = "try" /\ ~Answers /\ tries < 3
  /\ tries' = tries + 1
  /\ ufs_lost' = FALSE /\ dev' = stick /\ geo' = {}
  /\ UNCHANGED <<physVars, mounted, mounted_gen, storage_gen, stick_ok, since, upc, opVars,
                 appVars, stream, stalled, mixed>>

RemountFail ==
  /\ upc = "try" /\ ~Answers /\ tries = 3
  /\ ufs_lost' = TRUE /\ holder' = "none"
  /\ SettleBegins
  /\ upc' = "sleep" /\ tries' = 0
  /\ UNCHANGED <<physVars, hostVars, storage_gen, stick_ok, dev, pc, op, appVars, stream, mixed>>

RemountOk ==
  /\ upc = "try" /\ Answers
  /\ mounted' = TRUE /\ geo' = geo \cup {dev}
  /\ storage_gen' = storage_gen + 1 /\ mounted_gen' = storage_gen + 1
  /\ holder' = "none" /\ upc' = "mounted" /\ tries' = 0
  /\ UNCHANGED <<physVars, stick_ok, since, dev, pc, op, appVars, ufs_lost, stream, stalled, mixed>>

PollMounted ==
  /\ upc = "mounted" /\ holder = "none"
  /\ stick_ok' = 1 /\ since' = "no" /\ upc' = "sleep"
  /\ UNCHANGED <<physVars, hostVars, storage_gen, tries, dev, opVars, appVars, ufs_lost, stream,
                 stalled, mixed>>

----------------------------------------------------------------------------
(* File operations of the launcher's tasks, and sector calls for the app:  *)
(* both run mount () and the transfers with usb_mutex held.                *)

\* mount (), up to the call of ufs_mount
Mounted == mounted /\ mounted_gen = storage_gen

MountCheck(who, o) ==
  \/ /\ Mounted
     /\ holder' = who /\ op' = o /\ pc' = "work"
     /\ UNCHANGED <<mounted, ufs_lost, geo>>
  \/ /\ ~Mounted /\ Present
     /\ mounted' = FALSE /\ ufs_lost' = FALSE /\ geo' = {}
     /\ holder' = who /\ op' = o /\ pc' = "mount"

\* The usb task (priority 3) polls once before the ui task (1) first runs, and
\* music waits for a command of the ui task.
Polled == stick_ok # -1

\* The app (in the ui task) runs while the usb task sleeps or waits for the lock.
UiRuns == upc = "sleep" \/ (upc \in {"gone", "remount"} /\ holder \in {"host", "app"})

\* The operation ends and unlocks.
Unlock == holder' = "none" /\ pc' = "idle" /\ op' = "none"

\* sdk_open, sdk_read, sdk_dir_*, sdk_read_file ... and sdk_overwrite_sector_file
HostCall(o) ==
  /\ "host" \in Clients /\ Polled /\ holder = "none"
  /\ o = "read" => stream # Closed
  /\ MountCheck("host", o)
  /\ UNCHANGED <<physVars, mounted_gen, pollVars, appVars, stream, stalled, mixed>>

\* No stick: the call fails at once, under the lock all the same.
HostCallFails ==
  /\ "host" \in Clients /\ Polled /\ holder = "none" /\ ~Mounted /\ ~Present
  /\ mounted' = FALSE
  /\ UNCHANGED <<physVars, mounted_gen, geo, pollVars, opVars, appVars, ufs_lost, stream, stalled, mixed>>

\* ufs_mount succeeds inside mount ()
MountOk ==
  /\ pc = "mount" /\ Answers
  /\ holder = "app" => UiRuns
  /\ mounted' = TRUE /\ mounted_gen' = storage_gen /\ geo' = geo \cup {dev}
  /\ pc' = "work"
  /\ UNCHANGED <<physVars, pollVars, holder, op, appVars, ufs_lost, stream, stalled, mixed>>

\* A transfer that fails marks the stick lost, and lost_check drops the mount.
Failed == ufs_lost' = TRUE /\ mounted' = FALSE

\* Mutant: a stream is not checked against the mounted stick.
HostReadAny ==
  /\ holder = "host" /\ pc = "work" /\ op = "read"
  /\ Answers /\ ~ufs_lost
  /\ Uses([host |-> geo \cup {dev}, stream |-> stream.from \cup {dev}])
  /\ geo' = geo \cup {dev}
  /\ Unlock
  /\ UNCHANGED <<physVars, mounted, mounted_gen, pollVars, appVars, ufs_lost, stream, stalled>>

\* sdk_read_u, sdk_dir_read_u: only from the stick it was opened on
HostRead ==
  /\ holder = "host" /\ pc = "work" /\ op = "read"
  /\ \/ stream.gen # mounted_gen /\ UNCHANGED <<geo, mixed>>
     \/ /\ stream.gen = mounted_gen /\ Answers /\ ~ufs_lost
        /\ geo' = geo \cup {dev}
        /\ Uses([host |-> geo \cup {dev}, stream |-> stream.from \cup {dev}])
  /\ Unlock
  /\ UNCHANGED <<physVars, mounted, mounted_gen, pollVars, appVars, ufs_lost, stream, stalled>>

HostOpen ==
  /\ holder = "host" /\ pc = "work" /\ op = "open"
  /\ Answers /\ ~ufs_lost
  /\ geo' = geo \cup {dev}
  /\ stream' = [gen |-> mounted_gen, from |-> geo \cup {dev}]
  /\ Uses([host |-> geo \cup {dev}])
  /\ Unlock
  /\ UNCHANGED <<physVars, mounted, mounted_gen, pollVars, appVars, ufs_lost, stalled>>

\* ufs_overwrite: the lookup and the check of the magic, the write, the read back
HostCheck ==
  /\ holder = "host" /\ pc = "work" /\ op = "save"
  /\ Answers /\ ~ufs_lost
  /\ geo' = geo \cup {dev}
  /\ pc' = "write"
  /\ UNCHANGED <<physVars, mounted, mounted_gen, pollVars, holder, op, appVars, ufs_lost, stream,
                 stalled, mixed>>

HostWrite ==
  /\ holder = "host" /\ pc = "write"
  /\ Answers /\ ~ufs_lost
  /\ Uses([host |-> geo \cup {dev}])
  /\ pc' = "verify"
  /\ UNCHANGED <<physVars, hostVars, pollVars, holder, op, appVars, ufs_lost, stream, stalled>>

HostVerify ==
  /\ holder = "host" /\ pc = "verify"
  /\ Answers /\ ~ufs_lost
  /\ Unlock
  /\ UNCHANGED <<physVars, hostVars, pollVars, appVars, ufs_lost, stream, stalled, mixed>>

\* Any of these fails: no answer, or a transfer error.
HostFail ==
  /\ holder = "host" /\ pc # "write"
  /\ Failed /\ Unlock
  /\ UNCHANGED <<physVars, mounted_gen, geo, pollVars, appVars, stream, stalled, mixed>>

\* A failed write marks the stick lost only when the port is empty.
WriteFails ==
  IF ufs_stick_present /\ ~ufs_lost THEN UNCHANGED <<ufs_lost, mounted>> ELSE Failed

HostWriteFail ==
  /\ holder = "host" /\ pc = "write"
  /\ WriteFails /\ Unlock
  /\ UNCHANGED <<physVars, mounted_gen, geo, pollVars, appVars, stream, stalled, mixed>>

----------------------------------------------------------------------------
(* The app's runtime.  Its ufs_lost is left out: it is set by a failed     *)
(* call, which ends the operation with the mount dropped, and cleared by   *)
(* the mount () of the next one.                                           *)

AMounted == amounted /\ agen = storage_gen

\* An operation begins: mount () up to ufs_mount.  A stream of another stick is
\* given up at once; without a stick the call fails.
AppCall(o) ==
  /\ "app" \in Clients /\ Polled /\ UiRuns /\ apc = "idle"
  /\ o = "read" => astream # Closed
  /\ aop' = o
  /\ \/ /\ AMounted /\ (o = "read" => astream.gen = agen)
        /\ apc' = "work" /\ UNCHANGED <<amounted, ageo>>
     \/ /\ ~AMounted /\ Present
        /\ amounted' = FALSE /\ ageo' = {} /\ apc' = "boot"
  /\ UNCHANGED <<physVars, hostVars, pollVars, opVars, agen, astream, achecked, ufs_lost, stream, stalled, mixed>>

AppCallFails ==
  /\ "app" \in Clients /\ Polled /\ UiRuns /\ apc = "idle" /\ ~AMounted /\ ~Present
  /\ amounted' = FALSE
  /\ UNCHANGED <<physVars, hostVars, pollVars, opVars, agen, ageo, astream, apc, aop, achecked, ufs_lost,
                 stream, stalled, mixed>>

\* mount () ends: the generation is asked for after ufs_mount has read the stick.
AppLatch ==
  /\ UiRuns /\ apc = "latch"
  /\ amounted' = TRUE /\ agen' = storage_gen
  /\ IF aop = "read" /\ astream.gen # storage_gen
     THEN apc' = "idle" /\ aop' = "none" /\ stalled' = FALSE
     ELSE apc' = "work" /\ UNCHANGED <<aop, stalled>>
  /\ UNCHANGED <<physVars, hostVars, pollVars, opVars, ageo, astream, achecked, ufs_lost, stream, mixed>>

\* sdk_raw_read / sdk_raw_write: lock and mount ()
RawCall ==
  /\ UiRuns /\ apc \notin {"idle", "latch"} /\ holder = "none"
  /\ MountCheck("app", "raw")
  /\ stalled' = FALSE
  /\ UNCHANGED <<physVars, mounted_gen, pollVars, appVars, stream, mixed>>

\* Mutant: a failed write is tried again.
AppWriteRetries ==
  IF apc = "write" THEN UNCHANGED appVars
  ELSE /\ amounted' = FALSE
       /\ apc' = "idle" /\ aop' = "none" /\ achecked' = 0
       /\ UNCHANGED <<agen, ageo, astream>>

\* The operation fails in the app: a failed read also drops the app's mount.
AppGivesUp ==
  /\ amounted' = (amounted /\ apc = "write")
  /\ apc' = "idle" /\ aop' = "none" /\ achecked' = 0
  /\ UNCHANGED <<agen, ageo, astream>>

RawCallFails ==
  /\ UiRuns /\ apc \notin {"idle", "latch"} /\ holder = "none"
  /\ ~Mounted /\ ~Present
  /\ mounted' = FALSE
  /\ AppGivesUp
  /\ stalled' = FALSE
  /\ UNCHANGED <<physVars, mounted_gen, geo, pollVars, opVars, ufs_lost, stream, mixed>>

\* The transfer fails in the host.
RawFail ==
  /\ UiRuns /\ holder = "app"
  /\ IF apc = "write" /\ pc = "work" THEN WriteFails ELSE Failed
  /\ Unlock
  /\ AppGivesUp
  /\ stalled' = FALSE
  /\ UNCHANGED <<physVars, mounted_gen, geo, pollVars, stream, mixed>>

RawDone ==
  /\ UiRuns /\ holder = "app" /\ pc = "work" /\ Answers /\ ~ufs_lost
  /\ Unlock
  /\ ageo' = ageo \cup {dev}
  /\ UNCHANGED <<physVars, hostVars, pollVars, amounted, agen, ufs_lost, stream, stalled>>

\* ufs_mount in the app: sector 0, then the partition's boot sector if it has one
AppBootRead ==
  /\ apc \in {"boot", "part"}
  /\ RawDone
  /\ apc' \in (IF apc = "boot" THEN {"part", "latch"} ELSE {"latch"})
  /\ UNCHANGED <<aop, astream, achecked, mixed>>

\* Sectors of a folder, the FAT or the file.
AppWorkRead ==
  /\ apc = "work"
  /\ RawDone
  /\ \/ UNCHANGED <<apc, aop, astream, mixed, achecked>>      \* one of several
     \/ /\ aop = "open"
        /\ astream' = [gen |-> agen, from |-> ageo \cup {dev}]
        /\ Uses([app |-> ageo \cup {dev}])
        /\ apc' = "idle" /\ aop' = "none" /\ UNCHANGED achecked
     \/ /\ aop = "read"
        /\ Uses([app |-> ageo \cup {dev}, stream |-> astream.from \cup {dev}])
        /\ apc' = "idle" /\ aop' = "none" /\ UNCHANGED <<astream, achecked>>
     \/ /\ aop = "save"
        /\ achecked' = dev
        /\ apc' = "write" /\ UNCHANGED <<aop, astream, mixed>>

AppWrite ==
  /\ apc = "write"
  /\ RawDone
  /\ Uses([app |-> ageo \cup {dev}, write |-> {achecked, dev}])
  /\ achecked' = 0
  /\ apc' = "verify" /\ UNCHANGED <<aop, astream>>

AppVerify ==
  /\ apc = "verify"
  /\ RawDone
  /\ apc' = "idle" /\ aop' = "none" /\ UNCHANGED <<astream, achecked, mixed>>

----------------------------------------------------------------------------
\* The launcher mounts the stick it was started from before the tasks run.
Init ==
  /\ stick = 1 /\ plugs = 1 /\ dev = 1
  /\ mounted = TRUE /\ mounted_gen = 1 /\ storage_gen = 1 /\ ufs_lost = FALSE
  /\ stick_ok = -1 /\ since = "no" /\ geo = {1} /\ stream = Closed
  /\ upc = "poll" /\ tries = 0
  /\ holder = "none" /\ pc = "idle" /\ op = "none"
  /\ amounted = FALSE /\ agen = 0 /\ ageo = {} /\ astream = Closed
  /\ apc = "idle" /\ aop = "none" /\ achecked = 0
  /\ stalled = FALSE /\ mixed = {}

UsbTask ==
  \/ Wake \/ Poll \/ PollGone \/ PollBump \/ PollRemount \/ RemountRetry \/ RemountFail \/ RemountOk
  \/ PollMounted

HostSteps ==
  MountOk \/ HostRead \/ HostOpen \/ HostCheck \/ HostWrite \/ HostVerify \/ HostFail \/ HostWriteFail

AppSteps ==
  \/ AppLatch \/ RawCall \/ RawCallFails \/ RawFail
  \/ AppBootRead \/ AppWorkRead \/ AppWrite \/ AppVerify

\* The model ends where the generation reaches its bound.
AtBound == storage_gen = MaxGen /\ UNCHANGED vars

Next ==
  \/ AtBound \/ Pull \/ PlugIn \/ Bounce \/ Settle \/ UsbTask
  \/ (\E o \in Ops : HostCall(o)) \/ HostCallFails \/ HostSteps
  \/ (\E o \in Ops : AppCall(o)) \/ AppCallFails \/ AppSteps

Spec == Init /\ [][Next]_vars

\* Calls in progress end (U-Boot's transfers have timeouts); the ui task runs
\* between the polls of the usb task, which sleeps 250 ms; the usb task gets
\* usb_mutex ahead of every task but music, and music waits between its reads.
FairSpec ==
  /\ Spec
  /\ WF_vars(HostSteps) /\ SF_vars(AppSteps)
  /\ SF_vars(UsbTask) /\ WF_vars(Settle)

\* As above, and an app tries again whenever its file operation has failed.
RetrySpec == FairSpec /\ SF_vars(\E o \in Ops : AppCall(o))

----------------------------------------------------------------------------
(* Properties                                                              *)

TypeOK ==
  /\ stick \in 0..MaxPlugs /\ plugs \in 1..MaxPlugs /\ dev \in 0..MaxPlugs
  /\ mounted \in BOOLEAN /\ ufs_lost \in BOOLEAN /\ amounted \in BOOLEAN /\ stalled \in BOOLEAN
  /\ mounted_gen \in Nat /\ storage_gen \in Nat /\ agen \in Nat
  /\ stick_ok \in {-1, 0, 1} /\ since \in {"no", "begun", "over"}
  /\ geo \subseteq 1..MaxPlugs /\ ageo \subseteq 1..MaxPlugs
  /\ stream \in [gen : Nat, from : SUBSET (1..MaxPlugs)]
  /\ astream \in [gen : Nat, from : SUBSET (1..MaxPlugs)]
  /\ upc \in {"sleep", "poll", "gone", "bump", "remount", "try", "mounted"} /\ tries \in 0..3
  /\ holder \in {"none", "usb", "host", "app"}
  /\ pc \in {"idle", "mount", "work", "write", "verify"}
  /\ op \in Ops \cup {"none", "raw"} /\ aop \in Ops \cup {"none"}
  /\ apc \in {"idle", "boot", "part", "latch", "work", "write", "verify"}
  /\ achecked \in 0..MaxPlugs
  /\ mixed \subseteq {"host", "app", "stream", "write"}

\* Every operation of the launcher's tasks that succeeds works on one insertion:
\* the geometry and the FAT and folder caches of the mount are those of the
\* stick that answers, however it was pulled, put back, swapped or bounced.
HostOneStick == "host" \notin mixed

\* A stream read that returns data, of the launcher or of an app, returns it
\* from the insertion the file was opened on ("the stick it was on is gone",
\* sdk_read_u).
StreamOneStick == "stream" \notin mixed

\* An app's settings sector is written to the insertion on which the same sector
\* was compared with the magic ("so a wrong sector number is never written").
WriteOnChecked == "write" \notin mixed

\* "remounts when storage_gen changes (stick pulled out / put back)" (sdk/sys.h):
\* an app's operation that succeeds uses the mount of the stick that answers.
AppOneStick == "app" \notin mixed

\* A stick that is pulled out and stays out is noticed (files fail at once from
\* then on, music stops); storage_gen = MaxGen is the bound of the model.
PullNoticed ==
  (stick = 0 /\ stick_ok = 1) ~> (stick_ok = 0 \/ stick # 0 \/ storage_gen = MaxGen)

\* A stick that is put in and stays in is mounted without the user doing anything,
\* even if it was pulled in the middle of an earlier attempt.
ComesBack ==
  (stick # 0 /\ stick_ok = 0) ~> (stick_ok = 1 \/ stick = 0 \/ storage_gen = MaxGen)

\* "notices the stick going and coming back" (sdk_storage_poll), "any failed read
\* also marks the stick as lost" (usbfat.h): a stick that stopped answering while
\* the port stays connected is noticed as long as an app keeps reading.
LossNoticed ==
  (stick_ok = 1 /\ ~Answers) ~> (stick_ok = 0 \/ Answers \/ storage_gen = MaxGen)

=============================================================================
