--------------------------- MODULE StorageProofs ---------------------------
(***************************************************************************)
(* No file operation of the launcher, no stream and no settings write of   *)
(* an app mixes the sectors of two insertions of a stick: for any number   *)
(* of insertions and generations, with or without a hub.                   *)
(*                                                                         *)
(* The insertion that answers (dev) changes only when the usb task has USB *)
(* initialised again.  The proof shows that whatever is left over from the *)
(* old one at that moment is marked as old by its generation or has no     *)
(* operation in progress that could still use it.                          *)
(***************************************************************************)
EXTENDS Storage, FiniteSetTheorems, TLAPS

\* The stick is gone and not mounted again.
Gone == stick_ok = 0 /\ upc # "mounted"

\* The app was quiet at some time since the settle time began.
Settled == since = "over" \/ (since = "begun" /\ ~stalled)

\* A set of insertions that has nothing of another one than the one that answers.
OnDev(S) == dev # 0 => S \subseteq {dev}

\* The usb task and the owner of usb_mutex.
TaskInv ==
  /\ stick <= plugs /\ dev <= plugs
  /\ holder = "usb" <=> upc = "try"
  /\ holder \in {"host", "app"} <=> pc # "idle"
  /\ upc \in {"remount", "try"} => stick_ok = 0 /\ since = "over"
  /\ upc \in {"gone", "bump"} => stick_ok = 1
  /\ holder = "app" => apc \notin {"idle", "latch"}
  /\ holder \in {"host", "app"} /\ pc # "mount" => mounted_gen = storage_gen

\* No generation is ahead of storage_gen.
GenInv ==
  /\ storage_gen >= 1 /\ mounted_gen <= storage_gen /\ agen <= storage_gen
  /\ stream.gen <= storage_gen /\ astream.gen <= storage_gen

\* Nothing has happened before the first poll.
FirstPoll ==
  stick_ok = -1 =>
    /\ upc = "poll" /\ mounted /\ ~ufs_lost /\ holder = "none" /\ since = "no"
    /\ apc = "idle" /\ agen = 0 /\ stream.gen = 0 /\ astream.gen = 0

\* While the stick is gone every stream is of an older generation, and either the
\* mount is too and nobody uses it, or the stick was pulled before the first poll.
GoneInv ==
  Gone =>
    /\ stream.gen < storage_gen /\ astream.gen < storage_gen
    /\ \/ mounted_gen < storage_gen /\ holder \notin {"host", "app"}
       \/ agen = 0 /\ apc = "idle" /\ (upc = "try" \/ ~Answers)

\* An operation that an app begins while the stick is gone and settles can only
\* be one that believes in its mount.
SettledInv == Gone /\ Settled => apc = "idle" \/ (apc = "work" /\ aop # "read")

\* What the caches, the streams and the app are made of.
DevInv ==
  /\ OnDev(geo)
  /\ stream.gen = storage_gen => OnDev(stream.from)
  /\ astream.gen = storage_gen => OnDev(astream.from)
  /\ agen = storage_gen /\ ~Gone => OnDev(ageo)
  /\ apc \in {"boot", "part", "latch"} => OnDev(ageo)
  /\ apc = "work" /\ aop = "read" => OnDev(astream.from)
  /\ apc = "write" => OnDev({achecked})

MixedInv == mixed \subseteq {"app"}

SystemInv == TaskInv /\ GenInv /\ FirstPoll /\ GoneInv /\ SettledInv /\ DevInv

IInv == TypeOK /\ SystemInv /\ MixedInv

----------------------------------------------------------------------------

\* The parts of TypeOK.
FlagType ==
  /\ mounted \in BOOLEAN /\ ufs_lost \in BOOLEAN
  /\ amounted \in BOOLEAN /\ stalled \in BOOLEAN

PlaceType ==
  /\ stick_ok \in {-1, 0, 1} /\ since \in {"no", "begun", "over"}
  /\ upc \in {"sleep", "poll", "gone", "bump", "remount", "try", "mounted"} /\ tries \in 0..3
  /\ holder \in {"none", "usb", "host", "app"}
  /\ pc \in {"idle", "mount", "work", "write", "verify"}
  /\ op \in Ops \cup {"none", "raw"} /\ aop \in Ops \cup {"none"}
  /\ apc \in {"idle", "boot", "part", "latch", "work", "write", "verify"}

StickType ==
  /\ stick \in 0..MaxPlugs /\ plugs \in 1..MaxPlugs /\ dev \in 0..MaxPlugs
  /\ mounted_gen \in Nat /\ storage_gen \in Nat /\ agen \in Nat
  /\ geo \subseteq 1..MaxPlugs /\ ageo \subseteq 1..MaxPlugs
  /\ stream \in [gen : Nat, from : SUBSET (1..MaxPlugs)]
  /\ astream \in [gen : Nat, from : SUBSET (1..MaxPlugs)]
  /\ achecked \in 0..MaxPlugs

\* Type correctness, part by part.
LEMMA FlagTypeNext ==
  ASSUME TypeOK, [Next]_vars
  PROVE  FlagType'
<1> USE StorageAssumption DEF TypeOK, FlagType, vars, physVars, hostVars, pollVars, opVars,
          appVars
<1>1. CASE UNCHANGED vars
  BY <1>1
<1>2. CASE Pull \/ PlugIn \/ Bounce \/ Settle
  BY <1>2 DEF AtBound, Pull, PlugIn, Bounce, Settle
<1>3. CASE UsbTask
  BY <1>3 DEF UsbTask, Wake, Poll, SettleBegins, PolledOk, ufs_stick_present,
          PollGone, PollBump, PollRemount, RemountRetry, RemountFail, RemountOk,
          PollMounted
<1>4. CASE (\E o \in Ops : HostCall(o)) \/ HostCallFails \/ HostSteps
  BY <1>4 DEF HostSteps, HostCall, MountCheck, Polled, Mounted, Present, Closed,
          Ops, HostCallFails, MountOk, UiRuns, HostRead, Unlock, HostOpen,
          HostCheck, HostWrite, HostVerify, HostFail, Failed, HostWriteFail,
          WriteFails, ufs_stick_present
<1>5. CASE (\E o \in Ops : AppCall(o)) \/ AppCallFails \/ AppSteps
  BY <1>5 DEF AppSteps, AppCall, UiRuns, Polled, AMounted, Present, Closed, Ops,
          AppCallFails, AppLatch, RawCall, MountCheck, Mounted, RawCallFails,
          AppGivesUp, RawFail, Failed, WriteFails, ufs_stick_present, Unlock,
          AppBootRead, RawDone, AppWorkRead, AppWrite, AppVerify
<1> QED
  BY <1>1, <1>2, <1>3, <1>4, <1>5 DEF Next, AtBound

LEMMA PlaceTypeNext ==
  ASSUME TypeOK, [Next]_vars
  PROVE  PlaceType'
<1> USE StorageAssumption DEF TypeOK, PlaceType, Ops, vars, physVars, hostVars, pollVars, opVars,
          appVars
<1>1. CASE UNCHANGED vars
  BY <1>1
<1>2. CASE Pull \/ PlugIn \/ Bounce \/ Settle
  BY <1>2 DEF AtBound, Pull, PlugIn, Bounce, Settle
<1>3. CASE UsbTask
  BY <1>3 DEF UsbTask, Wake, Poll, SettleBegins, PolledOk, ufs_stick_present,
          PollGone, PollBump, PollRemount, RemountRetry, RemountFail, RemountOk,
          PollMounted
<1>4. CASE (\E o \in Ops : HostCall(o)) \/ HostCallFails \/ HostSteps
  BY <1>4 DEF HostSteps, HostCall, MountCheck, Polled, Mounted, Present, Closed,
          Ops, HostCallFails, MountOk, UiRuns, HostRead, Unlock, HostOpen,
          HostCheck, HostWrite, HostVerify, HostFail, Failed, HostWriteFail,
          WriteFails, ufs_stick_present
<1>5. CASE (\E o \in Ops : AppCall(o)) \/ AppCallFails \/ AppSteps
  BY <1>5 DEF AppSteps, AppCall, UiRuns, Polled, AMounted, Present, Closed, Ops,
          AppCallFails, AppLatch, RawCall, MountCheck, Mounted, RawCallFails,
          AppGivesUp, RawFail, Failed, WriteFails, ufs_stick_present, Unlock,
          AppBootRead, RawDone, AppWorkRead, AppWrite, AppVerify
<1> QED
  BY <1>1, <1>2, <1>3, <1>4, <1>5 DEF Next, AtBound

LEMMA StickTypeNext ==
  ASSUME TypeOK, [Next]_vars
  PROVE  StickType'
<1> USE StorageAssumption DEF TypeOK, StickType, Answers, vars, physVars, hostVars, pollVars,
          opVars, appVars
<1>1. CASE UNCHANGED vars
  BY <1>1
<1>2. CASE Pull
  BY <1>2 DEF Pull
<1>3. CASE PlugIn
  BY <1>3 DEF PlugIn
<1>4. CASE Bounce
  BY <1>4 DEF Bounce
<1>5. CASE Settle
  BY <1>5 DEF Settle
<1>6. CASE Wake
  BY <1>6 DEF Wake
<1>7. CASE Poll
  BY <1>7 DEF Poll, SettleBegins, PolledOk, ufs_stick_present
<1>8. CASE PollGone
  BY <1>8 DEF PollGone
<1>9. CASE PollBump
  BY <1>9 DEF PollBump
<1>10. CASE PollRemount
  BY <1>10 DEF PollRemount
<1>11. CASE RemountRetry
  BY <1>11 DEF RemountRetry
<1>12. CASE RemountFail
  BY <1>12 DEF RemountFail, SettleBegins
<1>13. CASE RemountOk
  BY <1>13 DEF RemountOk
<1>14. CASE PollMounted
  BY <1>14 DEF PollMounted
<1>15. CASE \E o \in Ops : HostCall(o)
  BY <1>15 DEF HostCall, MountCheck, Polled, Mounted, Present, Closed, Ops
<1>16. CASE HostCallFails
  BY <1>16 DEF HostCallFails, Polled, Mounted, Present
<1>17. CASE MountOk
  BY <1>17 DEF MountOk, UiRuns
<1>18. CASE HostRead
  <2>1. Answers => dev \in 1..MaxPlugs
    OBVIOUS
  <2>2. geo' \subseteq 1..MaxPlugs
    BY <1>18, <2>1 DEF HostRead
  <2> QED BY <1>18, <2>2 DEF HostRead
<1>19. CASE HostOpen
  BY <1>19 DEF HostOpen, Unlock
<1>20. CASE HostCheck
  BY <1>20 DEF HostCheck
<1>21. CASE HostWrite
  BY <1>21 DEF HostWrite
<1>22. CASE HostVerify
  BY <1>22 DEF HostVerify, Unlock
<1>23. CASE HostFail
  BY <1>23 DEF HostFail, Failed, Unlock
<1>24. CASE HostWriteFail
  BY <1>24 DEF HostWriteFail, Failed, WriteFails, ufs_stick_present, Unlock
<1>25. CASE \E o \in Ops : AppCall(o)
  BY <1>25 DEF AppCall, UiRuns, Polled, AMounted, Present, Closed, Ops
<1>26. CASE AppCallFails
  BY <1>26 DEF AppCallFails, UiRuns, Polled, AMounted, Present
<1>27. CASE AppLatch
  BY <1>27 DEF AppLatch, UiRuns
<1>28. CASE RawCall
  BY <1>28 DEF RawCall, MountCheck, UiRuns, Mounted, Present
<1>29. CASE RawCallFails
  BY <1>29 DEF RawCallFails, AppGivesUp, UiRuns, Mounted, Present
<1>30. CASE RawFail
  BY <1>30 DEF RawFail, Failed, WriteFails, ufs_stick_present, Unlock, AppGivesUp,
          UiRuns
<1>31. CASE AppBootRead
  BY <1>31 DEF AppBootRead, Unlock, RawDone, UiRuns
<1>32. CASE AppWorkRead
  <2>1. dev \in 1..MaxPlugs /\ ageo \cup {dev} \subseteq 1..MaxPlugs
    BY <1>32 DEF AppWorkRead, RawDone
  <2>2. astream' \in [gen : Nat, from : SUBSET (1..MaxPlugs)] /\ achecked' \in 0..MaxPlugs
    BY <1>32, <2>1 DEF AppWorkRead
  <2> QED BY <1>32, <2>1, <2>2 DEF AppWorkRead, RawDone
<1>33. CASE AppWrite
  BY <1>33 DEF AppWrite, Unlock, RawDone, UiRuns
<1>34. CASE AppVerify
  BY <1>34 DEF AppVerify, Unlock, RawDone, UiRuns
<1> QED
  BY <1>1, <1>2, <1>3, <1>4, <1>5, <1>6, <1>7, <1>8, <1>9, <1>10, <1>11, <1>12,
     <1>13, <1>14, <1>15, <1>16, <1>17, <1>18, <1>19, <1>20, <1>21, <1>22, <1>23, <1>24,
     <1>25, <1>26, <1>27, <1>28, <1>29, <1>30, <1>31, <1>32, <1>33, <1>34
  DEF Next, AtBound, UsbTask, HostSteps, AppSteps

\* The heart of the proof: one case per action.  dev changes in PollRemount and
\* RemountRetry, where GoneInv and SettledInv say that nobody uses what is old.
LEMMA SystemInvNext ==
  ASSUME IInv, [Next]_vars
  PROVE  SystemInv'
<1> USE StorageAssumption DEF IInv, SystemInv, TypeOK, TaskInv, GenInv, FirstPoll, GoneInv,
          SettledInv, DevInv, OnDev, Gone, Settled, Answers, vars, physVars,
          hostVars, pollVars, opVars, appVars
<1>1. CASE UNCHANGED vars
  BY <1>1
<1>2. CASE Pull
  BY <1>2 DEF Pull
<1>3. CASE PlugIn
  BY <1>3 DEF PlugIn
<1>4. CASE Bounce
  BY <1>4 DEF Bounce
<1>5. CASE Settle
  BY <1>5 DEF Settle
<1>6. CASE Wake
  BY <1>6 DEF Wake
<1>7. CASE Poll
  <2>1. TaskInv' /\ GenInv' /\ FirstPoll'
    BY <1>7 DEF Poll, SettleBegins, PolledOk, ufs_stick_present
  <2>2. GoneInv'
    BY <1>7 DEF Poll, SettleBegins, PolledOk, ufs_stick_present
  <2>3. SettledInv'
    BY <1>7 DEF Poll, SettleBegins, PolledOk, ufs_stick_present
  <2>4. DevInv'
    BY <1>7 DEF Poll, SettleBegins, PolledOk, ufs_stick_present
  <2> QED BY <2>1, <2>2, <2>3, <2>4
<1>8. CASE PollGone
  BY <1>8 DEF PollGone
<1>9. CASE PollBump
  BY <1>9 DEF PollBump
<1>10. CASE PollRemount
  BY <1>10 DEF PollRemount
<1>11. CASE RemountRetry
  BY <1>11 DEF RemountRetry
<1>12. CASE RemountFail
  BY <1>12 DEF RemountFail, SettleBegins
<1>13. CASE RemountOk
  BY <1>13 DEF RemountOk
<1>14. CASE PollMounted
  BY <1>14 DEF PollMounted
<1>15. CASE \E o \in Ops : HostCall(o)
  <2>1. TaskInv' /\ GenInv' /\ FirstPoll'
    BY <1>15 DEF HostCall, MountCheck, Polled, Mounted, Present, Closed, Ops
  <2>2. GoneInv' /\ SettledInv'
    BY <1>15 DEF HostCall, MountCheck, Polled, Mounted, Present, Closed, Ops
  <2>3. DevInv'
    BY <1>15 DEF HostCall, MountCheck, Polled, Mounted, Present, Closed, Ops
  <2> QED BY <2>1, <2>2, <2>3
<1>16. CASE HostCallFails
  BY <1>16 DEF HostCallFails, Polled, Mounted, Present
<1>17. CASE MountOk
  BY <1>17 DEF MountOk, UiRuns
<1>18. CASE HostRead
  BY <1>18 DEF HostRead, Unlock
<1>19. CASE HostOpen
  BY <1>19 DEF HostOpen, Unlock
<1>20. CASE HostCheck
  BY <1>20 DEF HostCheck
<1>21. CASE HostWrite
  BY <1>21 DEF HostWrite
<1>22. CASE HostVerify
  BY <1>22 DEF HostVerify, Unlock
<1>23. CASE HostFail
  BY <1>23 DEF HostFail, Failed, Unlock
<1>24. CASE HostWriteFail
  BY <1>24 DEF HostWriteFail, Failed, WriteFails, ufs_stick_present, Unlock
<1>25. CASE \E o \in Ops : AppCall(o)
  <2>1. TaskInv' /\ GenInv' /\ FirstPoll'
    BY <1>25 DEF AppCall, UiRuns, Polled, AMounted, Present, Closed, Ops
  <2>2. GoneInv' /\ SettledInv'
    BY <1>25 DEF AppCall, UiRuns, Polled, AMounted, Present, Closed, Ops
  <2>3. DevInv'
    BY <1>25 DEF AppCall, UiRuns, Polled, AMounted, Present, Closed, Ops
  <2> QED BY <2>1, <2>2, <2>3
<1>26. CASE AppCallFails
  BY <1>26 DEF AppCallFails, UiRuns, Polled, AMounted, Present
<1>27. CASE AppLatch
  BY <1>27 DEF AppLatch, UiRuns
<1>28. CASE RawCall
  <2>1. TaskInv' /\ GenInv' /\ FirstPoll'
    BY <1>28 DEF RawCall, MountCheck, UiRuns, Mounted, Present
  <2>2. GoneInv' /\ SettledInv'
    BY <1>28 DEF RawCall, MountCheck, UiRuns, Mounted, Present
  <2>3. DevInv'
    BY <1>28 DEF RawCall, MountCheck, UiRuns, Mounted, Present
  <2> QED BY <2>1, <2>2, <2>3
<1>29. CASE RawCallFails
  BY <1>29 DEF RawCallFails, AppGivesUp, UiRuns, Mounted, Present
<1>30. CASE RawFail
  BY <1>30 DEF RawFail, Failed, WriteFails, ufs_stick_present, Unlock, AppGivesUp,
          UiRuns
<1>31. CASE AppBootRead
  BY <1>31 DEF AppBootRead, Unlock, RawDone, UiRuns
<1>32. CASE AppWorkRead
  <2>1. TaskInv' /\ GenInv' /\ FirstPoll'
    BY <1>32 DEF AppWorkRead, Unlock, RawDone, UiRuns
  <2>2. GoneInv' /\ SettledInv'
    BY <1>32 DEF AppWorkRead, Unlock, RawDone, UiRuns
  <2>3. UNCHANGED <<geo, dev, stream, storage_gen, stick_ok, upc>>
        /\ ageo' = ageo \cup {dev} /\ apc = "work"
    BY <1>32 DEF AppWorkRead, RawDone
  <2>4. DevInv'
    <3>1. CASE UNCHANGED <<apc, aop, astream, achecked>>
      BY <2>3, <3>1, <1>32 DEF AppWorkRead, RawDone
    <3>2. CASE astream' = [gen |-> agen, from |-> ageo \cup {dev}] /\ apc' = "idle"
      BY <2>3, <3>2, <1>32 DEF AppWorkRead, RawDone
    <3>3. CASE apc' = "idle" /\ UNCHANGED <<astream, achecked>>
      BY <2>3, <3>3, <1>32 DEF AppWorkRead, RawDone
    <3>4. CASE achecked' = dev /\ apc' = "write" /\ UNCHANGED <<aop, astream>>
      BY <2>3, <3>4, <1>32 DEF AppWorkRead, RawDone
    <3> QED BY <1>32, <3>1, <3>2, <3>3, <3>4 DEF AppWorkRead
  <2> QED BY <2>1, <2>2, <2>4
<1>33. CASE AppWrite
  BY <1>33 DEF AppWrite, Unlock, RawDone, UiRuns
<1>34. CASE AppVerify
  BY <1>34 DEF AppVerify, Unlock, RawDone, UiRuns
<1> QED
  BY <1>1, <1>2, <1>3, <1>4, <1>5, <1>6, <1>7, <1>8, <1>9, <1>10, <1>11, <1>12,
     <1>13, <1>14, <1>15, <1>16, <1>17, <1>18, <1>19, <1>20, <1>21, <1>22, <1>23, <1>24,
     <1>25, <1>26, <1>27, <1>28, <1>29, <1>30, <1>31, <1>32, <1>33, <1>34
  DEF Next, AtBound, UsbTask, HostSteps, AppSteps


\* A set that holds at most one insertion is not a mixture.
LEMMA AtMostOne ==
  ASSUME NEW d, NEW S, S \subseteq {d}
  PROVE  ~(Cardinality(S \cup {d}) > 1)
<1>1. S \cup {d} = {d}
  OBVIOUS
<1>2. Cardinality({d}) = 1
  BY FS_Singleton
<1> QED BY <1>1, <1>2

\* What an operation adds to mixed when only an app's own part can be a mixture.
LEMMA OnlyApp ==
  ASSUME NEW uses, Uses(uses), MixedInv,
         \A k \in DOMAIN uses : k = "app" \/ ~(Cardinality(uses[k]) > 1)
  PROVE  MixedInv'
BY DEF Uses, MixedInv

\* Only what an app does on its own can be a mixture.
LEMMA MixedNext ==
  ASSUME IInv, [Next]_vars
  PROVE  MixedInv'
<1> USE DEF IInv, MixedInv, vars
<1>1. CASE UNCHANGED mixed
  BY <1>1
<1>2. CASE HostRead /\ ~UNCHANGED mixed
  <2>1. geo \subseteq {dev} /\ stream.from \subseteq {dev}
    BY <1>2 DEF HostRead, SystemInv, DevInv, OnDev, Answers, TaskInv
  <2>2. ~(Cardinality(geo \cup {dev}) > 1) /\ ~(Cardinality(stream.from \cup {dev}) > 1)
    BY <2>1, AtMostOne
  <2> QED BY <1>2, <2>2 DEF HostRead, Uses
<1>3. CASE HostOpen \/ HostWrite
  <2>1. geo \subseteq {dev}
    BY <1>3 DEF HostOpen, HostWrite, SystemInv, DevInv, OnDev, Answers
  <2>2. ~(Cardinality(geo \cup {dev}) > 1)
    BY <2>1, AtMostOne
  <2>3. Uses([host |-> geo \cup {dev}])
    BY <1>3 DEF HostOpen, HostWrite
  <2> QED BY <2>2, <2>3, OnlyApp
<1>4. CASE AppWorkRead
  <2>1. CASE mixed' = mixed \cup {k \in {"app"} : Cardinality(ageo \cup {dev}) > 1}
    BY <2>1
  <2>2. CASE aop = "read" /\ Uses([app |-> ageo \cup {dev}, stream |-> astream.from \cup {dev}])
    <3>1. astream.from \subseteq {dev}
      BY <1>4, <2>2 DEF AppWorkRead, RawDone, SystemInv, DevInv, OnDev, Answers
    <3>2. ~(Cardinality(astream.from \cup {dev}) > 1)
      BY <3>1, AtMostOne
    <3> QED BY <2>2, <3>2, OnlyApp
  <2> QED BY <1>1, <1>4, <2>1, <2>2 DEF AppWorkRead, Uses
<1>5. CASE AppWrite
  <2>1. {achecked} \subseteq {dev}
    BY <1>5 DEF AppWrite, RawDone, SystemInv, DevInv, OnDev, Answers
  <2>2. {achecked, dev} = {achecked} \cup {dev} /\ ~(Cardinality({achecked} \cup {dev}) > 1)
    BY <2>1, AtMostOne
  <2>3. Uses([app |-> ageo \cup {dev}, write |-> {achecked, dev}])
    BY <1>5 DEF AppWrite
  <2> QED BY <2>2, <2>3, OnlyApp
<1>6. \/ UNCHANGED mixed \/ (HostRead /\ ~UNCHANGED mixed) \/ HostOpen \/ HostWrite
      \/ AppWorkRead \/ AppWrite
  BY DEF Next, AtBound, UsbTask, HostSteps, AppSteps, Pull, PlugIn, Bounce,
          Settle, Wake, Poll, PollGone, PollBump, PollRemount, RemountRetry,
          RemountFail, RemountOk, PollMounted, HostCall, HostCallFails, MountOk,
          HostCheck, HostVerify, HostFail, HostWriteFail, AppCall, AppCallFails,
          AppLatch, RawCall, RawCallFails, RawFail, AppBootRead, AppVerify
<1> QED BY <1>1, <1>2, <1>3, <1>4, <1>5, <1>6

LEMMA IInvInit == Init => IInv
<1> SUFFICES ASSUME Init PROVE IInv
  OBVIOUS
<1>1. FlagType
  BY DEF Init, FlagType
<1>2. PlaceType
  BY DEF Init, PlaceType, Ops
<1>3. StickType
  BY StorageAssumption DEF Init, StickType, Closed
<1>4. TypeOK /\ MixedInv
  BY <1>1, <1>2, <1>3 DEF Init, TypeOK, FlagType, PlaceType, StickType, MixedInv
<1> QED BY <1>4 DEF Init, IInv, SystemInv, Closed, TaskInv, GenInv, FirstPoll, GoneInv,
          SettledInv, DevInv, OnDev, Gone, Settled

LEMMA IInvNext == IInv /\ [Next]_vars => IInv'
<1> SUFFICES ASSUME IInv, [Next]_vars PROVE IInv'
  OBVIOUS
<1>1. FlagType' /\ PlaceType' /\ StickType'
  BY FlagTypeNext, PlaceTypeNext, StickTypeNext DEF IInv
<1>2. MixedInv'
  BY MixedNext
<1>3. TypeOK'
  BY <1>1, <1>2 DEF TypeOK, FlagType, PlaceType, StickType, MixedInv
<1>4. SystemInv'
  BY SystemInvNext
<1> QED BY <1>2, <1>3, <1>4 DEF IInv

LEMMA IInvAlways == Spec => []IInv
<1>1. IInv /\ [Next]_vars => IInv'
  BY IInvNext
<1> QED BY <1>1, IInvInit, PTL DEF Spec

\* Every variable of the USB stick's model keeps its type, for any number of
\* insertions and generations.
THEOREM TypeCorrect == Spec => []TypeOK
<1>1. IInv => TypeOK
  BY DEF IInv
<1> QED BY <1>1, IInvAlways, PTL

\* A file operation of the launcher's tasks that succeeds never mixes the caches
\* of one insertion with the sectors of another (mount (), ufs_remount).
THEOREM HostFilesOneStick == Spec => []HostOneStick
<1>1. IInv => HostOneStick
  BY DEF IInv, MixedInv, HostOneStick
<1> QED BY <1>1, IInvAlways, PTL

\* A stream read that returns data returns it from the insertion the file was
\* opened on, in the launcher (sdk_read_u) and in an app.
THEOREM StreamsOneStick == Spec => []StreamOneStick
<1>1. IInv => StreamOneStick
  BY DEF IInv, MixedInv, StreamOneStick
<1> QED BY <1>1, IInvAlways, PTL

\* An app never writes its settings sector to an insertion other than the one on
\* which it compared that sector with the magic (ufs_overwrite).
THEOREM WritesOnChecked == Spec => []WriteOnChecked
<1>1. IInv => WriteOnChecked
  BY DEF IInv, MixedInv, WriteOnChecked
<1> QED BY <1>1, IInvAlways, PTL

=============================================================================
